\* Two requests of one tourist.
SPECIFICATION PageSpec
CONSTANTS
  Call = {c1}
  KeyPoint = {k1}
  MaxOrder = 1
  MaxTime = 1
  Visitor = {v1}
  Review = {r1, r2}
  Tourist = {t1}
  Writer = {w1, w2}
  None = None
SYMMETRY PageSymmetry
INVARIANT OneReview
