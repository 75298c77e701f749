SPECIFICATION GeneralSpec
CONSTANTS
  LastDay = 2
  MaxItems = 2
  Versions = 1
  MaxEdits = 2
  MaxPublishes = 2
  MaxTurns = 1
INVARIANTS
  GeneralTypeOK
  UpToDateIsTrue
CHECK_DEADLOCK FALSE
