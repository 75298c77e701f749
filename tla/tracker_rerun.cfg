\* A rerun that is given the id of the job before it.
SPECIFICATION FairTrackerSpec
CONSTANTS
  e1 = e1
  e2 = e2
  d1 = d1
  d2 = d2
  Events <- OneEvent
  Days <- OneDay
  MaxJobs = 2
  MaxRuns = 2
  MaxPolls = 1
  Faults = FALSE
  Answers <- OneOfEach
  BundleStatuses <- NoBundle
  NoRow = NoRow
  NoEvent = NoEvent
PROPERTY
  CompletedJobsSettle
