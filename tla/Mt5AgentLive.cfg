SPECIFICATION FairSpec
CONSTANTS
  a = a
  s = s
  b = b
  Job = {b}
  Mode <- MCMode
  Levels = 1
  ArmAt <- MCArmAt
  ExecuteAt <- MCExecuteAt
  Lateness = 0
  ExpiresAt <- MCExpiresAt
  MaxTime = 3
  MaxCrashes = 0
  LedgerFaults = FALSE
  LostAcks = FALSE
  RemovalsFail = FALSE
PROPERTIES PendingOrdersGo
