CONSTANTS
  Depth = 3
  Strings = {"connect", "x"}
  CommandNames = {"connect"}
  Tokens = {"[", "]", "{", "}", ",", ":", "integer", "true", "connect", "x"}
  MaxLen = 12
  MaxNext = 2
  MaxTexts = 2
SPECIFICATION Spec
CHECK_DEADLOCK FALSE
INVARIANTS TreeIsValue PrintsBack SessionAsAsked
PROPERTIES AnsweredByGrammar
