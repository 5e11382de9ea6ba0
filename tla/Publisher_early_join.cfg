SPECIFICATION FairSpec
CONSTANTS
  Peers = {p1}
  MaxStarts = 1
  Camera = FALSE
  MayFail = FALSE
PROPERTY SubscriberIsOffered
CHECK_DEADLOCK FALSE
