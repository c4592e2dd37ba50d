SPECIFICATION FairSpec
CONSTANTS
  QueueCap = 1
  OutboxCap = 2
  BatteryInterval = 1
  OutBytes <- Bits
  SocBytes <- OneSoc
  Forms <- OneForm
  MaxPresses = 2
  MaxPanel = 0
  MaxRefusals = 0
PROPERTIES ViewConverges
CHECK_DEADLOCK FALSE
