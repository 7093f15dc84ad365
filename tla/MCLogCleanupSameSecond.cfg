\* Four files of the same second, two to be kept.
CONSTANTS
  Cleaners = {p1, p2}
  Files = {1, 2, 3, 4}
  Stamp <- MCSameSecond
  Size <- MCSize
  Cutoff = 0
  MaxCount = 2
  MaxSize = 0
SPECIFICATION Spec
SYMMETRY Symmetry
CHECK_DEADLOCK FALSE
INVARIANT KeepsMostRecent
