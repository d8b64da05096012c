SPECIFICATION Spec
CONSTANTS
  Router = {1, 2, 3}
  Links <- Triangle
  Scripts <- GetFaster
  StopTime = 77000
  SettleTime = 17000
  MaxLosses = 0
  LossUntil = 0
  TieRank <- ByRouter
CHECK_DEADLOCK FALSE
INVARIANTS TypeOK NoCircles NoBadNews BestRouteKept RoutesRenewed
PROPERTIES ImplementsHopByHop
