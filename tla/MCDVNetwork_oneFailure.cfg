SPECIFICATION Spec
CONSTANTS
  Router = {1, 2, 3, 4}
  Links <- Ring
  Scripts <- OneFailure
  StopTime = 111000
  SettleTime = 80000
  MaxLosses = 0
  LossUntil = 0
  TieRank <- ByRouter
CHECK_DEADLOCK FALSE
INVARIANTS LeastDelayRoutes
