\* A call may be over.
CONSTANTS
  full = full
  s1 = s1
  s2 = s2
  SharedAgent = SharedAgent
  Calls = {full}
  Servers = {s1, s2}
  ServersOf <- MCServersOf
  OptionsOf <- MCOptionsOf
  Getters = {g1, g2}
  Callbacks = {k1, k2}
  NoGetter = NoGetter
SPECIFICATION PartSpec
CHECK_DEADLOCK FALSE
INVARIANTS ConnectTypeOK ProxyFollowsClient DestroyedIsQuiet
PROPERTIES EarlyMeansAllDown BothSettle
