\* One failed reinitialization closes the agent; a client concludes every
\* attempt somebody waits for with 'ready' or 'error'.
CONSTANTS
  Callers = {p1, p2}
  Clients = {c1, c2}
  KeyFileModes = {FALSE}
  MaxReinitFailures = 1
  SilentClose = FALSE
  None = None
SPECIFICATION FairSpec
CHECK_DEADLOCK FALSE
INVARIANT NoOrphanedWait
PROPERTY CallsSettle
