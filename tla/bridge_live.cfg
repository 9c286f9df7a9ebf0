SPECIFICATION FairSpec
CONSTANTS
  ChanCap = 1
  MaxIdle = 1
  Window = 1
  MaxChunks = 1
  MaxResizes = 1
  Sizes = {"120x80"}
  PtySize = "120x80"
PROPERTIES HangUpEndsBridge EverythingDelivered SilenceEndsBridge
CHECK_DEADLOCK FALSE
