\* Three processes, one of which is killed somewhere.
CONSTANTS
  Procs = {p1, p2, p3}
  MaxCrashes = 1
  None = None
  Dead = Dead
SPECIFICATION FairSpec
INVARIANTS TypeOK HeldWhileAwake MarkedIsWhole
PROPERTIES PublishesOnce WaitEnds
