\* Two requests at once, one tourist.
SPECIFICATION MCSpec
CONSTANTS
  CartId = {k1, k2}
  ItemId = {i1, i2, i3}
  Tour = {t1, t2}
  Call = {c1, c2}
  MaxPrice = 1
  None = None
SYMMETRY Symmetry
INVARIANTS
  SerialCartRight
PROPERTY
  ImplementsShelf
