SPECIFICATION FairStopSpec
CONSTANTS
  Peers = {p1}
  MaxStarts = 2
  Camera = FALSE
  MayFail = TRUE
INVARIANTS PumpWithinStreamer StopClosesAll ObserverOutlivesPc
 
CHECK_DEADLOCK FALSE
