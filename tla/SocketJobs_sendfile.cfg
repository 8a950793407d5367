SPECIFICATION Spec
CHECK_DEADLOCK FALSE
CONSTANTS
  Ops = {"write", "sendfile", "shutdown"}
  Kinds = {"static", "autorelease"}
  Lens = {1, 2}
  MaxOps = 4
  MaxChunks = 2
  Cap = 2
  Tls = {"none"}
  None = None
INVARIANTS NotFreedEarly NextIsFree
