-------------------------- MODULE OptimisationJobs --------------------------
(***************************************************************************)
(* The optimisation jobs of the backend: the table optimization_jobs, the  *)
(* endpoints of api/v1/optimize.py that write it, the background runner    *)
(* core/optimization_runner.py, the startup pass of main.py and the other  *)
(* writers of the table (event and person deletion, data import).          *)
(*                                                                         *)
(* The endpoints are async functions without an await between their reads  *)
(* and their writes, so on the one event loop each is a single step.  The  *)
(* runner is a synchronous function that Starlette runs on a worker        *)
(* thread: it interleaves with every endpoint, and it commits twice.       *)
(***************************************************************************)
EXTENDS Naturals

CONSTANTS
  Events,          \* event ids
  Days,            \* the dates of an event
  MaxJobs,         \* bound: the largest row id
  MaxRuns,         \* bound: how many times a start is accepted
  Faults,          \* TRUE: a statement of the local database may fail
  Answers,         \* bound: the answers of the compute service that are tried
  BundleStatuses,  \* the job statuses that an imported bundle may hold
  NoRow            \* an id of the table without a row

ActiveStatuses == {"pending", "running"}
Verdicts == {"completed", "infeasible", "undetermined"}
Statuses == ActiveStatuses \cup Verdicts \cup {"failed"}

JobIds == 1 .. MaxJobs
RunIds == 1 .. MaxRuns

\* Run 0 stands for "no run of this process": the owner of an imported row.
Imported == 0

\* The column result_data: which run computed it and the solver's verdict.
Result == [by : RunIds \cup {Imported}, verdict : Verdicts \cup {"failed", "none"}]
NoResult == [by |-> Imported, verdict |-> "none"]

Row == [event : Events, day : Days, status : Statuses,
        owner : RunIds \cup {Imported}, result : Result]

ASSUME BoundsAssumption == MaxJobs \in Nat /\ MaxRuns \in Nat
ASSUME FaultsAssumption == Faults \in BOOLEAN
ASSUME AnswersAssumption == Answers \subseteq Verdicts \cup {"failed"}
ASSUME BundleAssumption == BundleStatuses \subseteq Statuses
ASSUME NoRowAssumption == NoRow \notin Row

VARIABLES
  jobs,      \* the table: row id -> row
  run,       \* the background tasks: run -> [job, phase]
  disowned   \* history: runs whose active row another writer took from them

vars == <<jobs, run, disowned>>

\* "idle": not scheduled yet.  "raising": the answer is stored, and the lines
\* behind that commit raise.  "lost": the run is over (or was never handed to a
\* thread) and left its row as it was.
Phases == {"idle", "scheduled", "solving", "raising", "lost", "done"}

TypeOK ==
  /\ jobs \in [JobIds -> Row \cup {NoRow}]
  /\ run \in [RunIds -> [job : JobIds \cup {0}, phase : Phases]]
  /\ disowned \subseteq RunIds

-----------------------------------------------------------------------------
Exists(j) == jobs[j] # NoRow
Active(j) == Exists(j) /\ jobs[j].status \in ActiveStatuses
ActiveJobs == {j \in JobIds : Active(j)}
RowsOf(e, d) == {j \in JobIds : Exists(j) /\ jobs[j].event = e /\ jobs[j].day = d}
RowsOfEvent(e) == {j \in JobIds : Exists(j) /\ jobs[j].event = e}

Live(r) == run[r].phase \in {"scheduled", "solving", "raising"}
LiveRunsOn(S) == {r \in RunIds : Live(r) /\ run[r].job \in S}

(***************************************************************************)
(* SQLite gives an INTEGER PRIMARY KEY without AUTOINCREMENT the id after  *)
(* the largest one in use: the id of a deleted last row is used again.     *)
(***************************************************************************)
IsNextId(table, n) ==
  /\ \A k \in JobIds : k >= n => table[k] = NoRow
  /\ n = 1 \/ (n > 1 /\ table[n - 1] # NoRow)

\* Variant: the finished job of the day is not deleted before a rerun.
KeepingOldJob(e, d) == jobs

\* The table after the start handler has deleted the finished row of this day.
WithoutOldJob(e, d) ==
  LET found == RowsOf(e, d)
  IN  IF found = {} THEN jobs
      ELSE [jobs EXCEPT ![CHOOSE j \in found : TRUE] = NoRow]

\* The runner's next unused slot.
IsNextRun(r) ==
  /\ run[r].phase = "idle"
  /\ \A k \in RunIds : k < r => run[k].phase # "idle"

Init ==
  /\ jobs = [j \in JobIds |-> NoRow]
  /\ run = [r \in RunIds |-> [job |-> 0, phase |-> "idle"]]
  /\ disowned = {}

-----------------------------------------------------------------------------
(* start_optimization *)

\* Variant: a job that waits for its thread does not count as running.
NoJobRunning == \A j \in JobIds : Exists(j) => jobs[j].status # "running"

\* Not one row of any event may be pending or running (409 otherwise).
NoJobActive == ActiveJobs = {}

\* Both outcomes insert the pending row and commit it.
InsertPending(e, d, r, phase) ==
  LET kept == WithoutOldJob(e, d)
  IN  \E n \in JobIds :
        /\ IsNextId(kept, n)
        /\ jobs' = [kept EXCEPT ![n] =
                      [event |-> e, day |-> d, status |-> "pending",
                       owner |-> r, result |-> NoResult]]
        /\ run' = [run EXCEPT ![r] = [job |-> n, phase |-> phase]]

StartAccepted(e, d) ==
  /\ NoJobActive
  /\ \E r \in RunIds : IsNextRun(r) /\ InsertPending(e, d, r, "scheduled")
  /\ UNCHANGED disowned

\* Variant: the pending row is inserted before the input is normalised.
StartInsertedTooEarly(e, d) ==
  /\ NoJobActive
  /\ \E r \in RunIds : IsNextRun(r) /\ InsertPending(e, d, r, "done")
  /\ UNCHANGED disowned

\* The deletion of the old row is committed before the input is normalised: a
\* normaliser that raises (HTTP 500) leaves the day without any job.
StartNotNormalised(e, d) ==
  /\ NoJobActive
  /\ jobs' = WithoutOldJob(e, d)
  /\ UNCHANGED <<run, disowned>>

\* A failure after the commit (reading the solver settings) returns HTTP 500
\* before add_task: the pending row has no runner.
StartNotScheduled(e, d) ==
  /\ Faults
  /\ NoJobActive
  /\ \E r \in RunIds : IsNextRun(r) /\ InsertPending(e, d, r, "lost")
  /\ UNCHANGED disowned

-----------------------------------------------------------------------------
(* run_optimization_background *)

Leave(r, phase) == run' = [run EXCEPT ![r].phase = phase]

\* The row is read and marked by its id alone, whatever its status is now.
RunnerBegins(r) ==
  LET j == run[r].job
  IN  /\ run[r].phase = "scheduled"
      /\ \/ /\ ~Exists(j)
            /\ Leave(r, "done")
            /\ UNCHANGED jobs
         \/ /\ Exists(j)
            /\ Leave(r, "solving")
            /\ jobs' = [jobs EXCEPT ![j].status = "running"]
      /\ UNCHANGED disowned

\* Writing a terminal status takes the row away from any other live run on it.
EndRun(r) ==
  /\ run[r].phase \in {"solving", "raising"}
  /\ Leave(r, "done")
  /\ disowned' = disowned \cup (LiveRunsOn({run[r].job}) \ {r})

Answered(row, r, v) == [row EXCEPT !.status = v, !.result = [by |-> r, verdict |-> v]]

\* The solver answered.  The row is updated by id alone; when no row has
\* that id the update matches nothing, the session raises and nothing is stored.
RunnerAnswers(r) ==
  LET j == run[r].job
  IN  /\ run[r].phase = "solving"
      /\ Exists(j) => jobs[j].status # "pending"
      /\ EndRun(r)
      /\ \E v \in Answers :
           jobs' = IF Exists(j) THEN [jobs EXCEPT ![j] = Answered(@, r, v)] ELSE jobs

\* A row that was given the run's id may never have been marked as running.
\* The answer is committed; the elapsed time, from a started_at that is null,
\* cannot be computed behind the commit.
MayHaveNoStart(j) == jobs[j].status \in {"pending", "failed"} \/ jobs[j].owner = Imported

RunnerAnswersUnstarted(r) ==
  LET j == run[r].job
  IN  /\ run[r].phase = "solving"
      /\ Exists(j)
      /\ MayHaveNoStart(j)
      /\ Leave(r, "raising")
      /\ \E v \in Answers : jobs' = [jobs EXCEPT ![j] = Answered(@, r, v)]
      /\ disowned' = disowned \cup (LiveRunsOn({j}) \ {r})

\* Variant: an exception of the compute call counts as an undetermined solve.
RunnerRaisesAsVerdict(r) ==
  LET j == run[r].job
  IN  /\ EndRun(r)
      /\ jobs' = IF Exists(j) THEN [jobs EXCEPT ![j].status = "undetermined"] ELSE jobs

\* Variant: an exception of the compute call ends the thread only.
RunnerRaisesSilently(r) == EndRun(r) /\ UNCHANGED jobs

\* The compute call raised, or the lines behind the commit of its answer: the
\* row that has the id now is marked failed.
RunnerRaises(r) ==
  LET j == run[r].job
  IN  /\ EndRun(r)
      /\ jobs' = IF Exists(j) THEN [jobs EXCEPT ![j].status = "failed"] ELSE jobs

\* A commit of the runner fails; the exception handler then uses a session that
\* needs a rollback, raises too, and the row stays as it was.
RunnerCannotWrite(r) ==
  /\ Faults
  /\ Live(r)
  /\ Leave(r, "lost")
  /\ UNCHANGED <<jobs, disowned>>

-----------------------------------------------------------------------------
(* The other writers of the table *)

\* Variant: cancelling writes a status of its own.
CancelledActive == [j \in JobIds |->
                      IF Active(j) THEN [jobs[j] EXCEPT !.status = "cancelled"] ELSE jobs[j]]

\* Variant: cancelling does not select the active rows.
FailAll == [j \in JobIds |->
              IF Exists(j) THEN [jobs[j] EXCEPT !.status = "failed"] ELSE jobs[j]]

FailActive == [j \in JobIds |->
                 IF Active(j) THEN [jobs[j] EXCEPT !.status = "failed"] ELSE jobs[j]]

\* cleanup_on_close (the window unloads) and clear_stuck_jobs: no runner is told.
CancelActiveJobs ==
  /\ ActiveJobs # {}
  /\ jobs' = FailActive
  /\ disowned' = disowned \cup LiveRunsOn(ActiveJobs)
  /\ UNCHANGED run

\* Deleting an event, or a person of it by work order, deletes its jobs.
DeleteJobsOfEvent(e) ==
  /\ RowsOfEvent(e) # {}
  /\ jobs' = [j \in JobIds |-> IF j \in RowsOfEvent(e) THEN NoRow ELSE jobs[j]]
  /\ disowned' = disowned \cup LiveRunsOn(RowsOfEvent(e))
  /\ UNCHANGED run

\* A bundle with one job for day d is imported as the new event e.  Statuses
\* are copied as they were when the bundle was exported.
ImportJob(e, d) ==
  /\ RowsOfEvent(e) = {}
  /\ \E n \in JobIds, s \in BundleStatuses :
       /\ IsNextId(jobs, n)
       /\ jobs' = [jobs EXCEPT ![n] =
                     [event |-> e, day |-> d, status |-> s, owner |-> Imported,
                      result |-> [by |-> Imported,
                                  verdict |-> IF s \in Verdicts THEN s ELSE "none"]]]
  /\ UNCHANGED <<run, disowned>>

\* The backend process ends with its threads; the startup pass of the next
\* process fails what the table still shows as active.
Stopped(phase) ==
  [r \in RunIds |-> IF run[r].phase = "idle" THEN run[r] ELSE [run[r] EXCEPT !.phase = phase]]

Restart ==
  /\ run' = Stopped("done")
  /\ jobs' = FailActive
  /\ UNCHANGED disowned

\* The startup pass swallows its own exception and the application starts anyway.
RestartWithoutClearing ==
  /\ Faults
  /\ run' = [r \in RunIds |-> IF Live(r) THEN [run[r] EXCEPT !.phase = "lost"] ELSE run[r]]
  /\ UNCHANGED <<jobs, disowned>>

-----------------------------------------------------------------------------
Next ==
  \/ \E e \in Events, d \in Days :
       \/ StartAccepted(e, d)
       \/ StartNotNormalised(e, d)
       \/ StartNotScheduled(e, d)
       \/ ImportJob(e, d)
  \/ \E r \in RunIds :
       \/ RunnerBegins(r)
       \/ RunnerAnswers(r)
       \/ RunnerAnswersUnstarted(r)
       \/ RunnerRaises(r)
       \/ RunnerCannotWrite(r)
  \/ \E e \in Events : DeleteJobsOfEvent(e)
  \/ CancelActiveJobs
  \/ Restart
  \/ RestartWithoutClearing

Spec == Init /\ [][Next]_vars

\* A scheduled task gets a thread, and the compute call returns or hits its
\* timeout of one hour.
RunnerFairness ==
  \A r \in RunIds :
    /\ WF_vars(RunnerBegins(r))
    /\ WF_vars(RunnerAnswers(r) \/ RunnerAnswersUnstarted(r) \/ RunnerRaises(r))

FairSpec == Spec /\ RunnerFairness

-----------------------------------------------------------------------------
(* Properties *)

\* A day of an event never has two jobs: the list of jobs, the carried fatigue
\* and the rerun logic all take the first row they find.
OneJobPerDay ==
  \A j, k \in JobIds :
    (Exists(j) /\ Exists(k) /\ jobs[j].event = jobs[k].event /\ jobs[j].day = jobs[k].day)
      => j = k

\* The runs that still own the row they were started for.
Attached == {r \in RunIds : Live(r)} \ disowned

\* Such a run finds its own row, active, when it comes to write: nothing else
\* uses the row id in the meantime.
AttachedRunsOwnTheirRow ==
  \A r \in Attached :
    /\ run[r].job \in JobIds
    /\ Active(run[r].job)
    /\ jobs[run[r].job].owner = r

\* At most one background run is under way, leaving aside runs whose row was
\* cancelled, deleted or overwritten while they were on their thread.
SingleFlight == \A r, s \in Attached : r = s

\* A result is stored with the job it was computed for, unless the run that
\* computed it had lost its own row before (row ids are used again).
ResultProvenance ==
  \A j \in JobIds :
    (Exists(j) /\ jobs[j].result # NoResult)
      => jobs[j].result.by \in {jobs[j].owner} \cup disowned

\* A job reported as completed, infeasible or undetermined holds a result with
\* that verdict, through every cancellation, exception, rerun and restart.
VerdictHasResult ==
  \A j \in JobIds :
    (Exists(j) /\ jobs[j].status \in Verdicts) => jobs[j].result.verdict = jobs[j].status

\* A job that blocks every other start is one that a run still works on, one
\* that a database failure orphaned, or one that was imported as active.
Serves(r, j) == run[r].job = j /\ (Live(r) \/ run[r].phase = "lost")
ActiveIsServed ==
  \A j \in JobIds :
    Active(j) => jobs[j].owner = Imported \/ \E r \in RunIds : Serves(r, j)

\* Only a run that had lost its own row can change a job that has a verdict;
\* cancelling, restarting and other jobs' runs leave it as it is.
VerdictKept(j) ==
  (/\ Exists(j)
   /\ jobs[j].status \in Verdicts
   /\ jobs'[j] # NoRow
   /\ jobs'[j].owner = jobs[j].owner)
    => jobs'[j] = jobs[j] \/ LiveRunsOn({j}) \cap disowned # {}
VerdictsKept == \A j \in JobIds : VerdictKept(j)
VerdictIsFinal == [][VerdictsKept]_vars

\* No job blocks the start of other jobs for ever, when the local database
\* works and no bundle brings an active job.
GateReopens == []<>NoJobActive
=============================================================================
