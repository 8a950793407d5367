SPECIFICATION FairSpec
CONSTANTS
  Delays = {1, 3}
  Repeats = {0, 1, 2}
  MaxTimers = 3
  NoTimer = NoTimer
INVARIANTS TypeOK UniqueIds OnTime NothingLost ParamsLive
PROPERTIES  EveryTimerRuns ClearedIsFreed
