SPECIFICATION Spec
CONSTANTS
  ChanCap = 1
  MaxIdle = 1
  Window = 1
  MaxChunks = 3
  MaxResizes = 1
  Sizes = {"120x80"}
  PtySize = "120x80"
INVARIANTS Accounting ExitNeverBlocks LossBound
PROPERTIES TailLoss RelayImplemented
CHECK_DEADLOCK FALSE
