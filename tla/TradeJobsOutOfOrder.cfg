SPECIFICATION Spec
CONSTANTS
  m = m
  c = c
  Job = {c}
  Absent = Absent
  Handler = {h1, h2}
  Venue <- MCVenue
  ExecuteAt <- MCExecuteAt
  ArmLead <- MCArmLead
  ExpiresAt <- MCExpiresAt
  ManagedUntil <- MCManagedUntil
  Lead = 1
  Horizon = 1
  Grace = 1
  MaxConcurrent = 1
  MaxTime = 4
  Said = {"SUBMITTED", "FILLED"}
  Deal = {1}
PROPERTIES ReportsNeverDowngrade
