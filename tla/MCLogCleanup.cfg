CONSTANTS
  Cleaners = {p1, p2}
  Files = {0, 1, 2, 3}
  Stamp <- MCStamp
  Size <- MCSize
  Cutoff = 1
  MaxCount = 2
  MaxSize = 2
SPECIFICATION Spec
SYMMETRY Symmetry
CHECK_DEADLOCK FALSE
INVARIANTS TypeOK MissingIsExcess CompleteIsTidy
