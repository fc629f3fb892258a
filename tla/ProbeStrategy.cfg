SPECIFICATION Spec
CONSTANTS
  Handler = {h1, h2}
  Venues = {"CBOT", "MT5"}
  MaxBar = 4
  FollowThrough = 3
  Confirmation = 2
  Cooldown = 1
  Horizon = 2
  MaxTrouble = 1
SYMMETRY Symmetry
INVARIANTS TypeOK OneOpen OnePerCandle OutcomeAgrees TimeoutAsks
PROPERTY ProbeEnds
CHECK_DEADLOCK FALSE
