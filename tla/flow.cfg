\* Two clicks over two days, two turns around them.
SPECIFICATION FlowSpec
CONSTANTS
  LastDay = 2
  Contents <- TwoContents
  Initial <- EasyDays
  MaxRuns = 2
  MaxTurns = 2
INVARIANTS
  FlowTypeOK
  VerdictIsCurrent
PROPERTIES
  SequenceEnds
  CheckEnds
\* The operator may have nothing more to do.
CHECK_DEADLOCK FALSE
