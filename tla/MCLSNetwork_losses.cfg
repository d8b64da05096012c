SPECIFICATION FairSpec
CONSTANTS
  Router = {1, 2, 3}
  Links <- LossyLine
  Scripts <- FarDeath
  StopTime = 85000
  SettleTime = 47000
  MaxLosses = 1
  LossUntil = 31000
  CharIsSigned = TRUE
  TieRank <- ByRouter
CHECK_DEADLOCK FALSE
INVARIANTS DeadForgotten
PROPERTIES Stabilizes
