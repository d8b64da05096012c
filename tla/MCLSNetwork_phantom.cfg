SPECIFICATION Spec
CONSTANTS
  Router = {1, 2, 3}
  Links <- Line
  Scripts <- SentWhileCutOff
  StopTime = 111000
  SettleTime = 47000
  MaxLosses = 0
  LossUntil = 0
  CharIsSigned = TRUE
  TieRank <- ByRouter
CHECK_DEADLOCK FALSE
INVARIANTS LeastDelayRoutes
