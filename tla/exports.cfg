\* Two PDF jobs and one Excel job of a window, two sections and two days each.
SPECIFICATION LocalSpec
CONSTANTS
  p1 = p1
  p2 = p2
  x1 = x1
  o1 = o1
  PdfJobs <- TwoPdfJobs
  Jobs <- OneExcelJob
  Owners <- OneOwner
  NoOwner = NoOwner
  NoJob = NoJob
  Sections = 2
  Days = 2
INVARIANTS
  LocalTypeOK
PROPERTIES
  PdfContract
  ExcelContract
\* Exports are over once the application has shut down.
CHECK_DEADLOCK FALSE
