\* No faults, fair scheduling: checkouts end and their events arrive.
SPECIFICATION FairSpec
CONSTANTS
  Tourist = {u1}
  Tour = {t1}
  ItemId = {i1, i2}
  Request = {r1, r2}
  Faults = {}
  NoBuyer = NoBuyer
PROPERTIES
  CheckoutEnds
  ToursLearnPurchase
