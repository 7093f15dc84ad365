CONSTANTS
  Peers = {p1, p2}
  Listen = Listen
  None = None
SPECIFICATION Spec
SYMMETRY Symmetry
CHECK_DEADLOCK FALSE
PROPERTY NoForwardOnceClosed
