SPECIFICATION Spec
CONSTANTS
  Router = {1, 2, 3}
  Links <- Line
  Scripts <- OnePacket
  StopTime = 31000
  SettleTime = 47000
  MaxLosses = 0
  LossUntil = 0
  CharIsSigned = TRUE
  TieRank <- AnyOrder
CHECK_DEADLOCK FALSE
INVARIANTS TypeOK NoEventInThePast OneAlarmEach SeqFromOrigin
