\* The tunnel stops when every socket was used.
CONSTANTS
  Peers = {p1, p2, p3}
  Listen = Listen
  None = None
SPECIFICATION FairSpec
CHECK_DEADLOCK FALSE
INVARIANTS TypeOK AgentIsReady ClosedIsQuiet
PROPERTY TunnelSettles
