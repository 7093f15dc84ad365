CONSTANTS
  Callers = {p1, p2}
  Clients = {c1, c2, c3}
  MaxReinitFailures = 2
  KeyFileModes = {TRUE, FALSE}
  SilentClose = TRUE
  None = None
SPECIFICATION Spec
SYMMETRY Symmetry
CHECK_DEADLOCK FALSE
PROPERTY SessionIsReused
