SPECIFICATION FairSpec
CONSTANTS
  Callbacks = {c1}
  MaxFrames = 2
  MaxConfigures = 2
  InputBuffers = 1
  MaxMetadata = 1
  MaxImages = 1
  MayFail = TRUE
INVARIANTS CodecOutlivesOutput NoCallbackAfterRelease DeliveredRight AllOrNothing
CHECK_DEADLOCK FALSE
PROPERTY CallsReturn
