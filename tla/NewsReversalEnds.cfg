SPECIFICATION FairSpec
CONSTANTS
  N = 1
  MaxSends = 2
  MaxInbox = 2
  MaxEvents = 2
  Slips = TRUE
  MaxTrouble = 1
INVARIANTS RowsFollow
PROPERTIES EndsInTime
CHECK_DEADLOCK FALSE
