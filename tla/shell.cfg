\* Three main windows one after the other, and one export behind them.
SPECIFICATION ShellSpec
CONSTANTS
  j1 = j1
  w1 = w1
  w2 = w2
  w3 = w3
  Jobs <- OneJob
  Owners <- ThreeWindows
  NoOwner = NoOwner
  NoJob = NoJob
  Sections = 1
INVARIANTS
  ShellTypeOK
  ServicesAreReachable
  LastCloseIsSeen
PROPERTIES
  StartupEnds
\* The application exits.
CHECK_DEADLOCK FALSE
