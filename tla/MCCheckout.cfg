\* All faults, two overlapping checkouts of a cart with up to two rows.
SPECIFICATION Spec
CONSTANTS
  Tourist = {u1}
  Tour = {t1, t2}
  ItemId = {i1, i2}
  Request = {r1, r2}
  Faults = {"http", "db", "broker", "crash"}
  NoBuyer = NoBuyer
SYMMETRY Symmetry
INVARIANTS
  AcknowledgedTokensKept
  LossIsReported
  NoTokenForDraft
  EventsAreTrue
  StaleOnlyAfterFailure
PROPERTIES
  ImplementsLedger
