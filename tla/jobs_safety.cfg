\* Every writer of the job table, database failures and imported active jobs.
SPECIFICATION Spec
CONSTANTS
  e1 = e1
  e2 = e2
  d1 = d1
  d2 = d2
  Events <- MCEvents
  Days <- MCDays
  MaxJobs = 2
  MaxRuns = 3
  Faults = TRUE
  Answers <- AllAnswers
  BundleStatuses <- BundleSample
  NoRow = NoRow
SYMMETRY Symmetry
INVARIANTS
  TypeOK
  OneJobPerDay
  SingleFlight
  ResultProvenance
  VerdictHasResult
  ActiveIsServed
PROPERTY
  VerdictIsFinal
