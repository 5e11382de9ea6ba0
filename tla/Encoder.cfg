SPECIFICATION FairEncoderSpec
CONSTANTS
  small = small
  large = large
  Sizes <- TwoSizes
  Rates = {1, 2}
  Kinds = {"nv12", "planar"}
  Environments <- AllBinds
  SoftFails = 1
  HardFails = 2
  RecoverMax = 1
  ZeroCopyFails = 1
  ImportResetFails = 1
  ImportPauseFails = 1
  ProbeInterval = 2
  ResetLoopPause = 2
  EmptyPktRetries = 1
  MaxPackets = 2
  PartCounts = {2, 3, 4}
  DrainMax = 1
  MaxOutstanding = 1
  MaxEncodes = 3
  MaxInits = 1
CHECK_DEADLOCK FALSE
INVARIANT InputReleased
INVARIANT CfgAfterFirst
PROPERTY EncodeReturns
