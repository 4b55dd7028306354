\* Two overlapping checkouts, nothing fails.
SPECIFICATION Spec
CONSTANTS
  Tourist = {u1}
  Tour = {t1}
  ItemId = {i1}
  Request = {r1, r2}
  Faults = {}
  NoBuyer = NoBuyer
SYMMETRY Symmetry
INVARIANT
  FailedLeavesNoToken
