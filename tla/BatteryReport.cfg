SPECIFICATION FairSpec
CONSTANTS
  QueueCap = 1
  OutboxCap = 2
  BatteryInterval = 2
  OutBytes <- Bits
  SocBytes <- Socs
  Forms <- BatteryForms
  MaxPresses = 0
  MaxPanel = 0
  MaxRefusals = 0
INVARIANTS BitImpliesValue
PROPERTIES BatteryLogRecurs
CHECK_DEADLOCK FALSE
