SPECIFICATION FairSpec
CHECK_DEADLOCK FALSE
CONSTANTS
  Ops = {"write", "shutdown"}
  Kinds = {"static", "autorelease"}
  Lens = {1, 2}
  MaxOps = 4
  MaxChunks = 2
  Cap = 2
  Tls = {"none", "shaking"}
  None = None
INVARIANTS ReleasedOnce WillWake RetriesSame
PROPERTIES ImplementsStream EverythingLeaves
