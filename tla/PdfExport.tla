------------------------------ MODULE PdfExport ------------------------------
(***************************************************************************)
(* The PDF export manager of the Electron main process                     *)
(* (desktop/pdf-export-service.js).  A job renders the sections of the     *)
(* schedule one after the other, each in a hidden window of its own, one   *)
(* retry per section, then merges the pages and writes the file.  A step   *)
(* of this module is what the main process does between two awaits: while  *)
(* a job awaits Chromium or the merge, the IPC handlers of the other       *)
(* windows, of this job and of the shell run.                              *)
(*                                                                         *)
(* The bounds: Sections is the number of sections of every job, Jobs the   *)
(* jobs ever started.  Timeouts are the failing outcomes of the awaits.    *)
(***************************************************************************)
EXTENDS Naturals, FiniteSets

CONSTANTS Jobs, Owners, NoOwner, NoJob, Sections

ASSUME PdfAssumption == /\ Sections \in Nat \ {0}
                        /\ NoJob \notin Jobs
                        /\ NoOwner \notin Owners

VARIABLES
  jobs,           \* the job records of the manager
  activeByOwner,  \* the job a window may be attached to
  windows,        \* the jobs whose hidden window (job.activeWindow) is alive
  shuttingDown,
  folder,         \* is the configured output folder there and writable
  documents       \* the jobs whose file is in the output folder

managerVars == <<jobs, activeByOwner, windows, shuttingDown>>
pdfVars == <<managerVars, folder, documents>>

MaxChunkRetries == 1
Terminal == {"completed", "failed", "cancelled"}
Live == {"queued", "running"}
States == {"none", "gone"} \cup Live \cup Terminal
\* rendering: in a hidden window; clearing: its storage is being cleared.
Stages == {"queued", "rendering", "clearing", "merging", "over"}

Job(o, state, stage) ==
  [owner |-> o, state |-> state, stage |-> stage, section |-> 0, retry |-> 0,
   rendered |-> FALSE, cancelled |-> FALSE]

PdfInit ==
  /\ jobs = [j \in Jobs |-> Job(NoOwner, "none", "queued")]
  /\ activeByOwner = [o \in Owners |-> NoJob]
  /\ windows = {}
  /\ shuttingDown = FALSE
  /\ folder \in BOOLEAN
  /\ documents = {}

(***************************************************************************)
(* The handlers of a window's calls.                                       *)
(***************************************************************************)

Attached(o) ==
  activeByOwner[o] # NoJob /\ jobs[activeByOwner[o]].state \in Live

\* A request of a window that has no job under way.
Start(j, o) ==
  /\ ~shuttingDown /\ ~Attached(o) /\ folder
  /\ jobs[j].state = "none"
  /\ jobs' = [jobs EXCEPT ![j] = Job(o, "queued", "queued")]
  /\ activeByOwner' = [activeByOwner EXCEPT ![o] = j]
  /\ UNCHANGED <<windows, shuttingDown, folder, documents>>

\* A variant: the flag is set, the hidden window stays.
MarkOnly(S) ==
  /\ jobs' = [j \in Jobs |-> [jobs[j] EXCEPT !.cancelled = @ \/ j \in S]]
  /\ UNCHANGED windows

MarkCancelled(S) ==
  /\ jobs' = [j \in Jobs |-> [jobs[j] EXCEPT !.cancelled = @ \/ j \in S]]
  /\ windows' = windows \ S

Cancel(j) ==
  /\ jobs[j].state \in Live
  /\ MarkCancelled({j})
  /\ UNCHANGED <<activeByOwner, shuttingDown, folder, documents>>

\* The window was destroyed.
CancelOwner(o) ==
  /\ activeByOwner[o] # NoJob
  /\ MarkCancelled({activeByOwner[o]})
  /\ UNCHANGED <<activeByOwner, shuttingDown, folder, documents>>

Shutdown ==
  /\ shuttingDown' = TRUE
  /\ MarkCancelled({j \in Jobs : jobs[j].state \notin {"none", "gone"}})
  /\ UNCHANGED <<activeByOwner, folder, documents>>

(***************************************************************************)
(* The run of a job.                                                       *)
(***************************************************************************)

EndRun(j, state) ==
  /\ jobs' = [jobs EXCEPT ![j].state = state, ![j].stage = "over"]
  /\ activeByOwner' = [activeByOwner EXCEPT ![jobs[j].owner] = NoJob]
  /\ windows' = windows \ {j}

\* Whatever is thrown: a cancelled job ends as cancelled.
Throws(j) ==
  /\ EndRun(j, IF jobs[j].cancelled THEN "cancelled" ELSE "failed")
  /\ UNCHANGED <<shuttingDown, folder, documents>>

\* renderChunk up to its first await, behind the checks of the flag.
OpenSection(j, section, retry) ==
  IF jobs[j].cancelled
  THEN Throws(j)
  ELSE /\ jobs' = [jobs EXCEPT ![j].state = "running", ![j].stage = "rendering",
                               ![j].section = section, ![j].retry = retry]
       /\ windows' = windows \cup {j}
       /\ UNCHANGED <<activeByOwner, shuttingDown, folder, documents>>

RunBegins(j) ==
  /\ jobs[j].state = "queued"
  /\ OpenSection(j, 0, 0) \/ Throws(j)

\* The awaits on the hidden window end: a valid section, or an error, a
\* timeout, a crash of the renderer, the destruction of the window.
SectionAnswered(j, rendered) ==
  /\ jobs[j].stage = "rendering"
  /\ jobs' = [jobs EXCEPT ![j].stage = "clearing", ![j].rendered = rendered]
  /\ windows' = windows \ {j}
  /\ UNCHANGED <<activeByOwner, shuttingDown, folder, documents>>

\* The storage of the section's session is cleared: the next section, the
\* merge, the retry, or the end.
SectionCleared(j) ==
  LET job == jobs[j] IN
  /\ job.stage = "clearing"
  /\ \/ /\ job.rendered /\ job.section + 1 < Sections
        /\ OpenSection(j, job.section + 1, 0)
     \/ /\ job.rendered /\ job.section + 1 = Sections
        /\ jobs' = [jobs EXCEPT ![j].stage = "merging"]
        /\ UNCHANGED <<activeByOwner, windows, shuttingDown, folder, documents>>
     \/ /\ ~job.rendered /\ job.retry < MaxChunkRetries
        /\ OpenSection(j, job.section, job.retry + 1)
     \/ /\ ~job.rendered /\ job.retry = MaxChunkRetries
        /\ Throws(j)

\* A variant: no look at the flag after the merge.
MergedUnchecked(j) ==
  /\ jobs[j].stage = "merging" /\ folder
  /\ EndRun(j, "completed") /\ documents' = documents \cup {j}
  /\ UNCHANGED <<shuttingDown, folder>>

\* After the merge nothing is awaited but promises that are settled: the
\* check of the flag, the folder, the write and the verdict are one step.
Merged(j) ==
  /\ jobs[j].stage = "merging" /\ ~jobs[j].cancelled /\ folder
  /\ \/ EndRun(j, "completed") /\ documents' = documents \cup {j}
     \* renamed into place, then its mode could not be set
     \/ EndRun(j, "failed") /\ documents' = documents \cup {j}
  /\ UNCHANGED <<shuttingDown, folder>>

MergeThrows(j) == jobs[j].stage = "merging" /\ Throws(j)

\* The retention timer of a finished job.
ForgetJob(j) ==
  /\ jobs[j].state \in Terminal
  /\ jobs' = [jobs EXCEPT ![j].state = "gone"]
  /\ UNCHANGED <<activeByOwner, windows, shuttingDown, folder, documents>>

\* The folder is removed, comes back, or is chosen anew.
FolderChanges ==
  /\ folder' = ~folder
  /\ UNCHANGED <<managerVars, documents>>

RunStep(j) ==
  \/ RunBegins(j)
  \/ \E rendered \in BOOLEAN : SectionAnswered(j, rendered)
  \/ SectionCleared(j) \/ Merged(j) \/ MergeThrows(j)

PdfNext ==
  \/ \E j \in Jobs : RunStep(j) \/ Cancel(j) \/ ForgetJob(j)
                       \/ \E o \in Owners : Start(j, o)
  \/ \E o \in Owners : CancelOwner(o)
  \/ Shutdown \/ FolderChanges

PdfSafety == PdfInit /\ [][PdfNext]_pdfVars

\* Every await of a run is bounded by a timer or is local clean-up work.
PdfSpec == PdfSafety /\ \A j \in Jobs : WF_pdfVars(RunStep(j))

(***************************************************************************)
(* Properties.                                                             *)
(***************************************************************************)

\* The type invariant of the manager's state.
PdfTypeOK ==
  /\ jobs \in [Jobs -> [owner : Owners \cup {NoOwner}, state : States,
                        stage : Stages, section : 0..(Sections - 1),
                        retry : 0..MaxChunkRetries, rendered : BOOLEAN,
                        cancelled : BOOLEAN]]
  /\ activeByOwner \in [Owners -> Jobs \cup {NoJob}]
  /\ windows \subseteq Jobs /\ documents \subseteq Jobs
  /\ shuttingDown \in BOOLEAN /\ folder \in BOOLEAN

Abstract ==
  INSTANCE ExportContract WITH
    status <- [j \in Jobs |->
                 IF jobs[j].state \in Live THEN "active" ELSE jobs[j].state],
    owner <- [j \in Jobs |-> jobs[j].owner],
    withdrawn <- {j \in Jobs : jobs[j].state \in Live /\ jobs[j].cancelled}

\* The manager keeps the contract of local exports: one live job per window,
\* nothing written for a job that was cancelled, closed or shut down before
\* its write, completion only with the file in place, and every job ends.
PdfKeepsContract == Abstract!Contract
=============================================================================
