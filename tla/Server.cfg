SPECIFICATION FairSpec
CONSTANTS
  Streams = {s1}
  MaxFd = 2
  NShards = 2
  MaxQueueLines = 1
  MaxConns = 2
  MaxSends = 2
  MaxTimeouts = 1
  SignalMayCome = TRUE
  EpollAddMayFail = FALSE
INVARIANTS LineOrder TablesAgree PublisherView
PROPERTIES SignalStops
