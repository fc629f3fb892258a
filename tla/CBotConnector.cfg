SPECIFICATION Spec
CONSTANTS
  Modes = {"MARKET", "STRADDLE", "MULTI", "NEWS_REVERSAL"}
  Levels = 1
  Depth = 2
  Outbox = 1
  Backlog = 2
  MaxRefused = 3
INVARIANTS TypeOK NothingTwice EndLeavesNoEntry
CHECK_DEADLOCK FALSE
