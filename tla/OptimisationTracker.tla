------------------------ MODULE OptimisationTracker ------------------------
(***************************************************************************)
(* The renderer's tracker of the running optimisation job,                 *)
(* web/src/contexts/OptimizationContext.tsx, beside the job table and the  *)
(* background runs it watches (OptimisationJobs).                          *)
(*                                                                         *)
(* While a job is tracked an interval polls its status.  A poll is a       *)
(* closure over the job that was tracked when its effect ran; between the  *)
(* request, the backend's answer, the handling of the answer and the end   *)
(* of the upload of the results anything else may happen.                  *)
(***************************************************************************)
EXTENDS OptimisationJobs

CONSTANTS
  MaxPolls,   \* bound: polls of one page in flight together
  NoEvent     \* the page holds no instances

PollIds == 1 .. MaxPolls

\* No row has id 0: the null of runningJobId, of hasProcessedRef and of the map.
None == 0

VARIABLES
  tracked,     \* optimizationState: id and event of the tracked job
  processed,   \* hasProcessedRef: the last job id whose end was handled
  resolver,    \* completionResolversRef: job id -> the run whose promise it ends
  outcome,     \* history: what the promise of a run has resolved to
  applied,     \* history: runs whose result was stored in the task instances
  polls,       \* the polls in flight
  held,        \* the event whose task instances the page holds, or NoEvent
  beside       \* history: the job ids that a run's tracking had to share

trackerVars ==
  <<tracked, processed, resolver, outcome, applied, polls, held, beside>>
allVars == <<vars, trackerVars>>

ASSUME PollsAssumption == MaxPolls \in Nat
ASSUME NoEventAssumption == NoEvent \notin Events
ASSUME EventsAssumption == Events # {}

FinalStatuses == Verdicts \cup {"failed"}
\* What a record without a job shows for its event: nothing reads it.
AnyEvent == CHOOSE e \in Events : TRUE

Tracked == [job : JobIds \cup {None}, event : Events]
NoJob == [job |-> None, event |-> AnyEvent]

Outcome == [status : FinalStatuses \cup {"none", "waiting", "gone"},
            by : RunIds \cup {Imported}]
Poll == [phase : {"free", "asked", "answered", "syncing"}, job : JobIds \cup {None},
         event : Events, status : Statuses, by : RunIds \cup {Imported}]

TrackerTypeOK ==
  /\ tracked \in Tracked
  /\ processed \in JobIds \cup {None}
  /\ resolver \in [JobIds -> RunIds \cup {None}]
  /\ outcome \in [RunIds -> Outcome]
  /\ applied \subseteq RunIds \cup {Imported}
  /\ polls \in [PollIds -> Poll]
  /\ held \in Events \cup {NoEvent}
  /\ beside \in [RunIds -> SUBSET JobIds]

FreePoll ==
  [phase |-> "free", job |-> None, event |-> AnyEvent, status |-> "failed", by |-> Imported]

TrackerInit ==
  /\ Init
  /\ tracked = NoJob
  /\ processed = None
  /\ resolver = [j \in JobIds |-> None]
  /\ outcome = [r \in RunIds |-> [status |-> "none", by |-> Imported]]
  /\ applied = {}
  /\ held = NoEvent
  /\ beside = [r \in RunIds |-> {}]
  /\ polls = [p \in PollIds |-> FreePoll]

-----------------------------------------------------------------------------
(* Starting: runOptimisationForDate, then startOptimization *)

\* The job ids that polls in flight ask about.
AskedAbout == {polls[p].job : p \in {p \in PollIds : polls[p].phase # "free"}}

\* The button is disabled while a job is tracked.  The answer to the POST and
\* the start of the tracking are one step: a job that ends before is polled
\* in the same way as one that ends right after.  The start is asked for with
\* the instances of event e at hand and awaits three requests: when it is
\* answered another event may be selected, or e with its instances reloading.
StartTracked(e, d) ==
  /\ tracked = NoJob
  /\ StartAccepted(e, d)
  /\ \E r \in RunIds :
       /\ run[r] # run'[r]
       /\ tracked' = [job |-> run'[r].job, event |-> e]
       /\ resolver' = [resolver EXCEPT ![run'[r].job] = r]
       /\ outcome' = [outcome EXCEPT ![r].status = "waiting"]
       /\ beside' = [beside EXCEPT ![r] = AskedAbout]
  /\ UNCHANGED <<processed, applied, polls, held>>

-----------------------------------------------------------------------------
(* pollStatus *)

\* The first poll of the effect, or a tick of the interval.
AskStatus(p) ==
  /\ tracked # NoJob
  /\ polls[p].phase = "free"
  /\ polls' = [polls EXCEPT ![p] =
                 [@ EXCEPT !.phase = "asked", !.job = tracked.job, !.event = tracked.event]]
  /\ UNCHANGED <<vars, tracked, processed, resolver, outcome, applied, held, beside>>

\* Variant: the poll forgets the event that it asked about.
DropWholePoll(p) == polls' = [polls EXCEPT ![p] = [@ EXCEPT !.phase = "free", !.event = None]]

DropPoll(p) == polls' = [polls EXCEPT ![p] = FreePoll]

\* get_job_status selects by id and event.  A 404 is caught and logged, and an
\* active status changes the shown progress only.
StatusAnswered(p) ==
  LET j == polls[p].job
      found == Exists(j) /\ jobs[j].event = polls[p].event
  IN  /\ polls[p].phase = "asked"
      /\ \/ /\ found /\ ~Active(j)
            /\ polls' = [polls EXCEPT ![p] =
                           [@ EXCEPT !.phase = "answered", !.status = jobs[j].status,
                                     !.by = jobs[j].result.by]]
         \/ ~(found /\ ~Active(j)) /\ DropPoll(p)
      /\ UNCHANGED <<vars, tracked, processed, resolver, outcome, applied, held, beside>>

\* The request fails on its way: caught and logged.
PollFails(p) ==
  /\ Faults
  /\ polls[p].phase = "asked"
  /\ DropPoll(p)
  /\ UNCHANGED <<vars, tracked, processed, resolver, outcome, applied, held, beside>>

\* settleOptimization: whichever promise is registered for this job id now.
Settle(j, status, by) ==
  /\ resolver' = [resolver EXCEPT ![j] = None]
  /\ outcome' = IF resolver[j] = None THEN outcome
                ELSE [outcome EXCEPT ![resolver[j]] = [status |-> status, by |-> by]]

\* "completed" for the first time: collect the instances of the job's event
\* that the page holds.  Without any nothing is uploaded, and the completion is
\* reported at once.
CompletedSeen(p) ==
  /\ polls[p].phase = "answered" /\ polls[p].status = "completed"
  /\ processed # polls[p].job
  /\ processed' = polls[p].job
  /\ \/ /\ held = polls[p].event
        /\ polls' = [polls EXCEPT ![p].phase = "syncing"]
        /\ UNCHANGED <<tracked, resolver, outcome>>
     \/ /\ held # polls[p].event
        /\ tracked' = NoJob
        /\ Settle(polls[p].job, "completed", polls[p].by)
        /\ DropPoll(p)
  /\ UNCHANGED <<vars, applied, held, beside>>

\* Variant: an upload that fails is still reported as a completion.
SyncEndsAsCompleted(p) ==
  /\ polls[p].phase = "syncing"
  /\ applied' = applied \/ applied' = applied \cup {polls[p].by}
  /\ Settle(polls[p].job, "completed", polls[p].by)
  /\ tracked' = NoJob
  /\ DropPoll(p)
  /\ UNCHANGED <<vars, processed, held, beside>>

\* bulkSetOptimised returned, or raised.
SyncEnds(p) ==
  /\ polls[p].phase = "syncing"
  /\ \/ /\ applied' = applied \cup {polls[p].by}
        /\ Settle(polls[p].job, "completed", polls[p].by)
     \/ /\ Faults
        /\ UNCHANGED applied
        /\ Settle(polls[p].job, "failed", polls[p].by)
  /\ tracked' = NoJob
  /\ DropPoll(p)
  /\ UNCHANGED <<vars, processed, held, beside>>

\* "completed" for the job id that was handled last: the spinner is stopped.
CompletedAgain(p) ==
  /\ polls[p].phase = "answered" /\ polls[p].status = "completed"
  /\ processed = polls[p].job
  /\ tracked' = NoJob
  /\ DropPoll(p)
  /\ UNCHANGED <<vars, processed, resolver, outcome, applied, held, beside>>

\* Variant: an inconclusive job is noted as handled and nothing else.
InconclusiveNoted(p) ==
  /\ polls[p].phase = "answered" /\ polls[p].status \in {"infeasible", "undetermined"}
  /\ processed # polls[p].job
  /\ processed' = polls[p].job
  /\ DropPoll(p)
  /\ UNCHANGED <<vars, tracked, resolver, outcome, applied, held, beside>>

InconclusiveSeen(p) ==
  /\ polls[p].phase = "answered" /\ polls[p].status \in {"infeasible", "undetermined"}
  /\ processed # polls[p].job
  /\ processed' = polls[p].job
  /\ tracked' = NoJob
  /\ Settle(polls[p].job, polls[p].status, polls[p].by)
  /\ DropPoll(p)
  /\ UNCHANGED <<vars, applied, held, beside>>

\* The same for an id that was handled last returns and changes nothing.
InconclusiveAgain(p) ==
  /\ polls[p].phase = "answered" /\ polls[p].status \in {"infeasible", "undetermined"}
  /\ processed = polls[p].job
  /\ DropPoll(p)
  /\ UNCHANGED <<vars, tracked, processed, resolver, outcome, applied, held, beside>>

FailureSeen(p) ==
  /\ polls[p].phase = "answered" /\ polls[p].status = "failed"
  /\ tracked' = NoJob
  /\ Settle(polls[p].job, "failed", polls[p].by)
  /\ DropPoll(p)
  /\ UNCHANGED <<vars, processed, applied, held, beside>>

-----------------------------------------------------------------------------
(* The rest of the application *)

\* Another event, or none, is selected: the instances of the one before are
\* dropped at once.
SelectEvent ==
  /\ held # NoEvent
  /\ held' = NoEvent
  /\ UNCHANGED <<vars, tracked, processed, resolver, outcome, applied, polls, beside>>

\* refresh: the instances of the selected event, whichever it is, arrive while
\* it is still selected.  A request that fails is logged and leaves the page
\* without instances: it is this step never taken.
InstancesArrive(e) ==
  /\ held = NoEvent
  /\ held' = e
  /\ UNCHANGED <<vars, tracked, processed, resolver, outcome, applied, polls, beside>>

\* The page is gone with its tracker, its promises and its instances.
TrackerReset ==
  /\ tracked' = NoJob
  /\ processed' = None
  /\ resolver' = [j \in JobIds |-> None]
  /\ outcome' = [r \in RunIds |-> IF outcome[r].status = "waiting"
                                  THEN [outcome[r] EXCEPT !.status = "gone"] ELSE outcome[r]]
  /\ polls' = [p \in PollIds |-> FreePoll]
  /\ held' = NoEvent
  /\ UNCHANGED <<applied, beside>>

\* beforeunload posts cleanup-on-close; the request may not arrive.
Reload == TrackerReset /\ (CancelActiveJobs \/ UNCHANGED vars)

Relaunch == TrackerReset /\ (Restart \/ RestartWithoutClearing)

\* The ids whose rows become another run's, or an imported job's.
GivenAway ==
  {j \in JobIds : jobs'[j] # NoRow /\ (jobs[j] = NoRow \/ jobs'[j].owner # jobs[j].owner)}

\* Everything else that changes the job table while the page is open; the
\* starts among it are those that the page was answered with an error.
Background ==
  /\ \/ \E r \in RunIds :
          \/ RunnerBegins(r)
          \/ RunnerAnswers(r)
          \/ RunnerAnswersUnstarted(r)
          \/ RunnerRaises(r)
          \/ RunnerCannotWrite(r)
     \/ CancelActiveJobs
     \/ \E e \in Events : DeleteJobsOfEvent(e)
     \/ \E e \in Events, d \in Days :
          \/ StartNotNormalised(e, d)
          \/ StartNotScheduled(e, d)
          \/ ImportJob(e, d)
  /\ beside' = [r \in RunIds |-> beside[r] \cup {j \in GivenAway : resolver[j] = r}]
  /\ UNCHANGED <<tracked, processed, resolver, outcome, applied, polls, held>>

TrackerNext ==
  \/ \E e \in Events, d \in Days : StartTracked(e, d)
  \/ \E p \in PollIds :
       \/ AskStatus(p)
       \/ StatusAnswered(p)
       \/ PollFails(p)
       \/ CompletedSeen(p)
       \/ SyncEnds(p)
       \/ CompletedAgain(p)
       \/ InconclusiveSeen(p)
       \/ InconclusiveAgain(p)
       \/ FailureSeen(p)
  \/ SelectEvent
  \/ \E e \in Events : InstancesArrive(e)
  \/ Reload
  \/ Relaunch
  \/ Background

TrackerSpec == TrackerInit /\ [][TrackerNext]_allVars

Handled(p) == CompletedSeen(p) \/ SyncEnds(p) \/ CompletedAgain(p)
              \/ InconclusiveSeen(p) \/ InconclusiveAgain(p) \/ FailureSeen(p)

\* The interval keeps ticking, the backend on the same machine answers, the
\* event loop of the page handles every answer, and the runs end.
TrackerFairness ==
  /\ \A p \in PollIds : /\ WF_allVars(AskStatus(p))
                        /\ SF_allVars(StatusAnswered(p))
                        /\ WF_allVars(Handled(p))
  /\ \A r \in RunIds :
       WF_allVars(/\ \/ RunnerBegins(r)
                     \/ RunnerAnswers(r) \/ RunnerAnswersUnstarted(r) \/ RunnerRaises(r)
                  /\ UNCHANGED trackerVars)

FairTrackerSpec == TrackerSpec /\ TrackerFairness

-----------------------------------------------------------------------------
(* Properties *)

\* A promise reports the verdict that its own run computed, though polls
\* overlap, the map is keyed by job ids and those are used again.  Excepted are
\* a verdict that a run without a row of its own wrote, and a run whose id was
\* asked about before it was started, or given to another job afterwards.
OutcomeIsOwn ==
  \A r \in RunIds :
    outcome[r].status \in Verdicts
      => outcome[r].by \in {r} \cup disowned \/ run[r].job \in beside[r]

\* A caller is told that its own run completed by the step that follows the
\* storing of its result, or by a poll that found no instances to store it in.
FoundNoInstances(r) ==
  \E p \in PollIds : polls[p].phase = "answered" /\ polls[p].by = r /\ held # polls[p].event
ToldInTime ==
  \A r \in RunIds :
    (outcome[r].status # "completed" /\ outcome'[r].status = "completed" /\ outcome'[r].by = r)
      => r \in applied' \/ FoundNoInstances(r)
CompletionMeansApplied == [][ToldInTime]_allVars

\* The caller of run r waits, and the job is still the one r was started for.
Watched(r) ==
  /\ outcome[r].status = "waiting"
  /\ Exists(run[r].job)
  /\ jobs[run[r].job].owner = r

\* A job that was started with no poll in flight, and whose id was not the last
\* one handled, is reported to its caller, whatever it ends with and however
\* many polls and uploads fail; unless its row is deleted, or held by a run that
\* could not write it.
FirstRunsSettle ==
  \A r \in RunIds :
    (Watched(r) /\ processed # run[r].job /\ beside[r] = {})
      ~> (~Watched(r) \/ \E q \in RunIds : Serves(q, run[r].job) /\ ~Live(q))

\* OptimizationContext.tsx:135 "If job completed successfully, sync results to
\* server via API": the result of a completed, tracked job is uploaded or its
\* caller hears of a failure.
CompletedJobsSettle ==
  \A r \in RunIds :
    (Watched(r) /\ jobs[run[r].job].status = "completed") ~> ~Watched(r)
=============================================================================
