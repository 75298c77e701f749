\* Two events, reruns, event switches, failing polls and uploads.
SPECIFICATION FairTrackerSpec
CONSTANTS
  e1 = e1
  e2 = e2
  d1 = d1
  d2 = d2
  Events <- OneEvent
  Days <- OneDay
  MaxJobs = 1
  MaxRuns = 2
  MaxPolls = 2
  Faults = TRUE
  Answers <- OneOfEach
  BundleStatuses <- NoBundle
  NoRow = NoRow
  NoEvent = NoEvent
INVARIANTS
  TrackerTypeOK
  OutcomeIsOwn
PROPERTIES
  CompletionMeansApplied
  FirstRunsSettle
