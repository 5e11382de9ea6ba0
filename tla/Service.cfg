SPECIFICATION Spec
CONSTANTS
  Handles = {h1, h2}
  Callers = {t1, t2}
  MaxConnects = 2
  MayFail = TRUE
  Serial = {h1}
  CallbacksCall = TRUE
INVARIANTS ClosedOnce NothingLeftRunning StartedAgrees
CHECK_DEADLOCK FALSE
