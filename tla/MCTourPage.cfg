\* One request of the author at a time; two requests about reviews at once.
SPECIFICATION PageSpec
CONSTANTS
  Call = {c1}
  KeyPoint = {k1, k2, k3}
  MaxOrder = 1
  MaxTime = 1
  Visitor = {v1}
  Review = {r1, r2}
  Tourist = {t1}
  Writer = {w1, w2}
  None = None
SYMMETRY PageSymmetry
INVARIANTS
  BuyerSeesTour
  ListedIsComplete
  ReviewsBounded
