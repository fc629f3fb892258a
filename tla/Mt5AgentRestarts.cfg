SPECIFICATION Spec
CONSTANTS
  a = a
  s = s
  b = b
  Job = {a, s}
  Mode <- MCMode
  Levels = 1
  ArmAt <- MCArmAt
  ExecuteAt <- MCExecuteAt
  Lateness = 0
  ExpiresAt <- MCExpiresAt
  MaxTime = 3
  MaxCrashes = 1
  LedgerFaults = FALSE
  LostAcks = FALSE
  RemovalsFail = FALSE
INVARIANTS TypeOK AtMostOnce FinalLeavesNoOrder OneSideStays ReportsAreTrue
