CONSTANTS
  Depth = 2
  Strings = {"connect"}
  CommandNames = {"connect"}
  PlainWords = {"/", "a", "/1/", "/2/", "/static/", "Upgrade", "upgrade", "websocket", "h2c", "key", "k", "[", "integer"}
  MaxCl = 3
  Decoded = "a"
  Requests <- MCRequests
  Frames <- MCFrames
  Texts <- MCTexts
  ValidTexts <- MCValidTexts
  ConnectTexts <- MCConnectTexts
  ArraySize = 1
  ArrayGrowth = 1
  MaxRequests = 2
  MaxFrames = 2
SPECIFICATION FairSpec
CHECK_DEADLOCK FALSE
INVARIANTS TypeOK ServedAsSent  AnsweredInOrder  BuffersLive
PROPERTIES EverythingRead
