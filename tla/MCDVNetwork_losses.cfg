SPECIFICATION FairSpec
CONSTANTS
  Router = {1, 2, 3}
  Links <- LossyTriangle
  Scripts <- NoScript
  StopTime = 75000
  SettleTime = 17000
  MaxLosses = 1
  LossUntil = 31000
  TieRank <- ByRouter
CHECK_DEADLOCK FALSE
PROPERTIES Stabilizes
