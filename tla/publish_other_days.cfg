\* One flow for the second day, the first one having tasks after midnight.
SPECIFICATION PublishSpec
CONSTANTS
  LastDay = 2
  Selected <- SecondDay
  Nights <- FirstNight
  Overnight <- NoDay
  MaxFlows = 1
  Versions = 1
  Targets <- NoFiles
  MaxTurns = 0
PROPERTIES
  OtherDaysUnchanged
\* Every flow may be over.
CHECK_DEADLOCK FALSE
