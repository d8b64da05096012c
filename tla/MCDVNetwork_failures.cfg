SPECIFICATION Spec
CONSTANTS
  Router = {1, 2, 3}
  Links <- Triangle
  Scripts <- FailuresAndOvertakenVectors
  StopTime = 111000
  SettleTime = 47000
  MaxLosses = 0
  LossUntil = 0
  TieRank <- ByRouter
CHECK_DEADLOCK FALSE
INVARIANTS TablesAgree CostsAddUp CostsFit BestRouteUsed RoutesRenewed LeastDelayRoutes UnreachableDropped
