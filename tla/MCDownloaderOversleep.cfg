CONSTANTS
  Procs = {p1, p2}
  MaxCrashes = 0
  None = None
  Dead = Dead
SPECIFICATION Spec
SYMMETRY Symmetry
INVARIANT HeldForCallback
