\* Two requests at once, any of which may stop half way.
SPECIFICATION MCSpec
CONSTANTS
  Call = {c1, c2}
  KeyPoint = {k1, k2, k3}
  MaxOrder = 1
  MaxTime = 2
SYMMETRY Symmetry
INVARIANTS
  TimestampsAgree
  SerialPublishedHasKeyPoints
  SerialDeleteNormalizes
PROPERTY
  ImplementsLifecycle
