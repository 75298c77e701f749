\* Scheduled runs end, the local database works, bundles hold finished jobs.
SPECIFICATION FairSpec
CONSTANTS
  e1 = e1
  e2 = e2
  d1 = d1
  d2 = d2
  Events <- MCEvents
  Days <- MCDays
  MaxJobs = 2
  MaxRuns = 3
  Faults = FALSE
  Answers <- AllAnswers
  BundleStatuses <- FinishedStatuses
  NoRow = NoRow
PROPERTY
  GateReopens
