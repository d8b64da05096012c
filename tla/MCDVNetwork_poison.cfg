SPECIFICATION Spec
CONSTANTS
  Router = {1, 2, 3}
  Links <- Triangle
  Scripts <- FasterAndBack
  StopTime = 75000
  SettleTime = 17000
  MaxLosses = 0
  LossUntil = 0
  TieRank <- ByRouter
CHECK_DEADLOCK FALSE
INVARIANTS PoisonKept
