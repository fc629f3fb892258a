SPECIFICATION FairSpec
CONSTANTS
  Worker = {w1, w2}
  None = None
  Modes = {"MARKET", "STRADDLE", "MULTI"}
  MaxLegs = 2
  MaxTrouble = 1
  LeasesLapse = FALSE
  CancelsFail = FALSE
  Overlap = FALSE
INVARIANTS TypeOK Exclusive NeverDoubled
PROPERTIES RefinesCustody ExpiredIsTrue TakenUp DoneEnds
CHECK_DEADLOCK FALSE
