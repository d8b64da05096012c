SPECIFICATION Spec
CONSTANTS
  Router = {1, 2, 3}
  Links <- SlowTriangle
  Scripts <- NoScript
  StopTime = 11000
  SettleTime = 500
  MaxLosses = 0
  LossUntil = 0
  CharIsSigned = TRUE
  TieRank <- ByRouter
CHECK_DEADLOCK FALSE
INVARIANTS LeastDelayRoutes
