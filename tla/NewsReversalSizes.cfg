SPECIFICATION Spec
CONSTANTS
  N = 2
  MaxSends = 2
  MaxInbox = 2
  MaxEvents = 3
  Slips = FALSE
  MaxTrouble = 0
INVARIANTS TypeOK Protected
CHECK_DEADLOCK FALSE
