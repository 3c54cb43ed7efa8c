SPECIFICATION Spec
CONSTANTS
  MaxLen = 6
  Chars = {"w", " ", "nl", "0xFF"}
  Inputs <- Texts
  Whitespace = {" ", "nl"}
  Newline = "nl"
  FF = "0xFF"
  StreamFails = TRUE
  MaxTokens = 3
INVARIANTS
  TypeOK
  
  NoWordLost
  
PROPERTIES
  LoopEnds
CHECK_DEADLOCK FALSE
