SPECIFICATION Spec
CONSTANTS
  Delays = {0, 1}
  Repeats = {0}
  MaxTimers = 2
  NoTimer = NoTimer
INVARIANT NothingLost
