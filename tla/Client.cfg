SPECIFICATION Spec
CONSTANTS
  Handles = {h1, h2}
  Indices = {i1, i2}
  MaxConnects = 2
  MayFail = TRUE
  WatchdogOn = TRUE
SYMMETRY Symmetry
INVARIANTS UninitFindsNothing OneSessionPerIndex NothingLeftRunning DisconnectReports
CHECK_DEADLOCK FALSE
