\* Two flows over two days, the first of them with tasks after midnight,
\* the second with a task across it.
SPECIFICATION PublishSpec
CONSTANTS
  LastDay = 2
  Selected <- SecondDay
  Nights <- FirstNight
  Overnight <- SecondDay
  MaxFlows = 2
  Versions = 1
  Targets <- AllTargets
  MaxTurns = 1
INVARIANTS
  PublishTypeOK
  DocumentsComeFirst
  RecordIsTrue
PROPERTIES
  PublishEnds
\* Every flow may be over.
CHECK_DEADLOCK FALSE
