----------------------------- MODULE ExcelExport -----------------------------
(***************************************************************************)
(* The Excel export manager of the Electron main process                   *)
(* (desktop/excel-export-service.js) with the workbook builder it awaits   *)
(* (desktop/excel-export.js).  The builder yields to the event loop after  *)
(* every day of the schedule and while ExcelJS serialises the workbook;    *)
(* it looks at the cancel flag before each day and before serialising, the *)
(* manager once more before it writes.  A step is what the main process    *)
(* does between two awaits.                                                *)
(*                                                                         *)
(* The bounds: Days is the number of days of every schedule, Jobs the jobs *)
(* ever started.                                                           *)
(***************************************************************************)
EXTENDS Naturals, FiniteSets

CONSTANTS Jobs, Owners, NoOwner, NoJob, Days

ASSUME ExcelAssumption == /\ Days \in Nat \ {0}
                          /\ NoJob \notin Jobs
                          /\ NoOwner \notin Owners

VARIABLES
  jobs,           \* the job records of the manager
  activeByOwner,  \* the job a window may be attached to
  shuttingDown,
  folder,         \* is the configured output folder there and writable
  documents       \* the jobs whose workbook is in the output folder

excelVars == <<jobs, activeByOwner, shuttingDown, folder, documents>>

Terminal == {"completed", "failed", "cancelled"}
Live == {"queued", "running"}
States == {"none", "gone"} \cup Live \cup Terminal

\* built counts the days in the workbook; at Days it is being serialised.
Job(o, state) ==
  [owner |-> o, state |-> state, built |-> 0, cancelled |-> FALSE]

ExcelInit ==
  /\ jobs = [j \in Jobs |-> Job(NoOwner, "none")]
  /\ activeByOwner = [o \in Owners |-> NoJob]
  /\ shuttingDown = FALSE
  /\ folder \in BOOLEAN
  /\ documents = {}

(***************************************************************************)
(* The handlers of a window's calls.                                       *)
(***************************************************************************)

Attached(o) ==
  activeByOwner[o] # NoJob /\ jobs[activeByOwner[o]].state \in Live

\* A request of a window that has no job under way.
Start(j, o) ==
  /\ ~shuttingDown /\ ~Attached(o) /\ folder
  /\ jobs[j].state = "none"
  /\ jobs' = [jobs EXCEPT ![j] = Job(o, "queued")]
  /\ activeByOwner' = [activeByOwner EXCEPT ![o] = j]
  /\ UNCHANGED <<shuttingDown, folder, documents>>

MarkCancelled(S) ==
  jobs' = [j \in Jobs |-> [jobs[j] EXCEPT !.cancelled = @ \/ j \in S]]

Cancel(j) ==
  /\ jobs[j].state \in Live
  /\ MarkCancelled({j})
  /\ UNCHANGED <<activeByOwner, shuttingDown, folder, documents>>

\* The window was destroyed.
CancelOwner(o) ==
  /\ activeByOwner[o] # NoJob
  /\ MarkCancelled({activeByOwner[o]})
  /\ UNCHANGED <<activeByOwner, shuttingDown, folder, documents>>

Shutdown ==
  /\ shuttingDown' = TRUE
  /\ MarkCancelled({j \in Jobs : jobs[j].state \notin {"none", "gone"}})
  /\ UNCHANGED <<activeByOwner, folder, documents>>

(***************************************************************************)
(* The run of a job.                                                       *)
(***************************************************************************)

EndRun(j, state) ==
  /\ jobs' = [jobs EXCEPT ![j].state = state]
  /\ activeByOwner' = [activeByOwner EXCEPT ![jobs[j].owner] = NoJob]
  /\ UNCHANGED <<shuttingDown, folder>>

\* Whatever is thrown, by a check of the flag or by a failure: a cancelled
\* job ends as cancelled.
Throws(j) ==
  /\ EndRun(j, IF jobs[j].cancelled THEN "cancelled" ELSE "failed")
  /\ UNCHANGED documents

\* A variant: the loop over the days runs once too often.
BuildDayBeyond(j) ==
  /\ jobs[j].state = "queued" \/ (jobs[j].state = "running" /\ jobs[j].built <= Days)
  /\ ~jobs[j].cancelled
  /\ jobs' = [jobs EXCEPT ![j].state = "running", ![j].built = @ + 1]
  /\ UNCHANGED <<activeByOwner, shuttingDown, folder, documents>>

\* The next day goes into the workbook, behind a look at the flag; the last
\* day is followed by another look and by the serialisation.
BuildDay(j) ==
  /\ jobs[j].state = "queued" \/ (jobs[j].state = "running" /\ jobs[j].built < Days)
  /\ ~jobs[j].cancelled
  /\ jobs' = [jobs EXCEPT ![j].state = "running", ![j].built = @ + 1]
  /\ UNCHANGED <<activeByOwner, shuttingDown, folder, documents>>

\* A variant: no look at the flag after the serialisation.
SerialisedUnchecked(j) ==
  /\ jobs[j].state = "running" /\ jobs[j].built = Days /\ folder
  /\ EndRun(j, "completed") /\ documents' = documents \cup {j}

\* The bytes are there: the check of the flag, the folder, the synchronous
\* write and the verdict are one step.
Serialised(j) ==
  /\ jobs[j].state = "running" /\ jobs[j].built = Days
  /\ ~jobs[j].cancelled /\ folder
  \* linked into place; the temporary name may be impossible to remove
  /\ EndRun(j, "completed") \/ EndRun(j, "failed")
  /\ documents' = documents \cup {j}

RunThrows(j) == jobs[j].state \in Live /\ Throws(j)

\* The retention timer of a finished job.
ForgetJob(j) ==
  /\ jobs[j].state \in Terminal
  /\ jobs' = [jobs EXCEPT ![j].state = "gone"]
  /\ UNCHANGED <<activeByOwner, shuttingDown, folder, documents>>

\* The folder is removed, comes back, or is chosen anew.
FolderChanges ==
  /\ folder' = ~folder
  /\ UNCHANGED <<jobs, activeByOwner, shuttingDown, documents>>

RunStep(j) == BuildDay(j) \/ Serialised(j) \/ RunThrows(j)

ExcelNext ==
  \/ \E j \in Jobs : RunStep(j) \/ Cancel(j) \/ ForgetJob(j)
                       \/ \E o \in Owners : Start(j, o)
  \/ \E o \in Owners : CancelOwner(o)
  \/ Shutdown \/ FolderChanges

ExcelSafety == ExcelInit /\ [][ExcelNext]_excelVars

\* The awaits of a run are a turn of the event loop and local work.
ExcelSpec == ExcelSafety /\ \A j \in Jobs : WF_excelVars(RunStep(j))

(***************************************************************************)
(* Properties.                                                             *)
(***************************************************************************)

\* The type invariant of the manager's state.
ExcelTypeOK ==
  /\ jobs \in [Jobs -> [owner : Owners \cup {NoOwner}, state : States,
                        built : 0..Days, cancelled : BOOLEAN]]
  /\ activeByOwner \in [Owners -> Jobs \cup {NoJob}]
  /\ documents \subseteq Jobs
  /\ shuttingDown \in BOOLEAN /\ folder \in BOOLEAN

Abstract ==
  INSTANCE ExportContract WITH
    status <- [j \in Jobs |->
                 IF jobs[j].state \in Live THEN "active" ELSE jobs[j].state],
    owner <- [j \in Jobs |-> jobs[j].owner],
    withdrawn <- {j \in Jobs : jobs[j].state \in Live /\ jobs[j].cancelled}

\* The manager keeps the contract of local exports: one live job per window,
\* no workbook for a job that was cancelled, closed or shut down before its
\* write, completion only with the workbook in place, and every job ends.
ExcelKeepsContract == Abstract!Contract
=============================================================================
