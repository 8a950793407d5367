SPECIFICATION Spec
CHECK_DEADLOCK FALSE
CONSTANTS
  Socks = {s1, s2}
  Server = Server
  None = None
  Keys <- MCKeys
  ArraySize = 1
  ArrayGrowth = 1
  MaxCells = 3
  MaxDepth = 3
  Keeps = TRUE
INVARIANTS KeptAsRegistered CalledAsRegistered InUseIsLive
