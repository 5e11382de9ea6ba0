SPECIFICATION FairSpec
CONSTANTS
  Sessions = {s1, s2}
  NumFds = 2
  MaxLines = 2
  Senders = {s1}
  MayFail = TRUE
  Losable = {s1}
INVARIANTS InUseIsOpen TableAgrees OwnLines
PROPERTIES LinesDelivered
CHECK_DEADLOCK FALSE
