SPECIFICATION Spec
CONSTANTS
  ChanCap = 1
  MaxIdle = 1
  Window = 1
  MaxChunks = 1
  MaxResizes = 1
  Sizes <- MCSizes
  PtySize <- MCPtySize
PROPERTIES WindowFollowed
CHECK_DEADLOCK FALSE
