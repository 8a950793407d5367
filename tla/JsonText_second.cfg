CONSTANTS
  Depth = 3
  Strings = {"connect", "x"}
  CommandNames = {"connect"}
  Tokens = {"[", "]", "integer"}
  MaxLen = 2
  MaxNext = 2
  MaxTexts = 2
SPECIFICATION Spec
CHECK_DEADLOCK FALSE
PROPERTIES EachTextIsRead
