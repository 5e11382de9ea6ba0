SPECIFICATION FairSessionSpec
CONSTANTS
  MaxOffers = 2
  MaxCandidates = 2
  MaxEvents = 0
  MaxTracks = 1
  MaxDecodedFrames = 1
  WatchdogOn = TRUE
  CloseInCallback = FALSE
INVARIANTS CandidateFitsOffer OneStranded
PROPERTIES AnswerOrFail
CHECK_DEADLOCK FALSE
