SPECIFICATION FairCaptureSpec
CONSTANTS
  BufferCount = 2
  QueueMax = 2
  PoolSlots = 2
  Modes = {"queue", "latest", "inline", "yuyv"}
  Dmabuf = TRUE
  Mpp = TRUE
  QBufMayFail = TRUE
  MaxFrames = 3
INVARIANTS OneOwner SlotExclusive
PROPERTIES EveryBufferReturns
CHECK_DEADLOCK FALSE
