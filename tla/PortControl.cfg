SPECIFICATION Spec
CONSTANTS
  QueueCap = 1
  OutboxCap = 2
  BatteryInterval = 1
  OutBytes <- Bits
  SocBytes <- OneSoc
  Forms <- OneForm
  MaxPresses = 2
  MaxPanel = 1
  MaxRefusals = 1
INVARIANTS TypeOK NoLostEdge BitImpliesValue CommandsOnlyWhenKnown LastCommandIsBelief
CHECK_DEADLOCK FALSE
