SPECIFICATION FairSpec
CONSTANTS
  Tasks = {t1, t2}
  Workers = {w1, w2}
  MaxInits = 2
INVARIANTS NoLostWakeup ShutdownDrains
PROPERTY ShutdownReturns
