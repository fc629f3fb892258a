SPECIFICATION Spec
CONSTANTS
  m = m
  c = c
  Job = {m, c}
  Absent = Absent
  Handler = {h1}
  Venue <- MCVenue
  ExecuteAt <- MCExecuteAt
  ArmLead <- MCArmLead
  ExpiresAt <- MCExpiresAt
  ManagedUntil <- MCManagedUntil
  Lead = 1
  Horizon = 1
  Grace = 1
  MaxConcurrent = 1
  MaxTime = 4
  Said = {"ARMED", "SUBMITTED", "FILLED", "CLOSED", "MISSED", "ERROR"}
  Deal = {1}
INVARIANTS TypeOK
PROPERTIES RefinesLifecycle
