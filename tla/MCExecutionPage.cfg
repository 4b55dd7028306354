\* The page and other pages of the tourist, with two requests at once.
SPECIFICATION MCSpec
CONSTANTS
  Exec = {e1}
  KeyPoint = {k1, k2}
  Call = {c1, c2}
  Updater = {c1, c2}
  Document = {d1, d2}
  None = None
SYMMETRY Symmetry
INVARIANTS
  NoKeyPointTwice
  FullMeansFinished
  StampsTell
  FewDocuments
  WaitingPageTrue
  TimerTells
PROPERTY
  SerialProgressKept
