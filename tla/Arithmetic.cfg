SPECIFICATION Spec
CONSTANTS
  MaxVolume = 12
  MaxTargets = 4
  MaxPrice = 3
  MaxCandles = 3
INVARIANTS SplitIsFair SizedPassesCheck LabelsAgree DirectionsMirror
CHECK_DEADLOCK FALSE
