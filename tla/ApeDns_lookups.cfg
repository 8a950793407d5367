SPECIFICATION FairSpec
CHECK_DEADLOCK FALSE
CONSTANTS
  Lookups = {l1, l2}
  NServers = 2
  Tries = 1
  MaxFd = 2
  TableSize = 2
INVARIANTS  CalledOnce ClosedWhenIdle
PROPERTY EndsWhileWatched
