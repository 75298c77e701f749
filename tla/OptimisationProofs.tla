------------------------- MODULE OptimisationProofs -------------------------
(***************************************************************************)
(* Proofs about OptimisationJobs, and about OptimisationTracker beside it, *)
(* for any events, days and bounds, polls that overlap included.           *)
(***************************************************************************)
EXTENDS OptimisationTracker, TLAPS

USE BoundsAssumption, FaultsAssumption, AnswersAssumption, BundleAssumption, NoRowAssumption

\* The rows that the actions write are rows of the table.
LEMMA FreshRowType ==
  ASSUME NEW e \in Events, NEW d \in Days, NEW r \in RunIds
  PROVE  [event |-> e, day |-> d, status |-> "pending", owner |-> r, result |-> NoResult] \in Row
BY DEF Row, Result, NoResult, Statuses, ActiveStatuses, Verdicts

\* Changing the status of an existing row leaves a row.
LEMMA StatusChangeType ==
  ASSUME TypeOK, NEW j \in JobIds, Exists(j), NEW s \in Statuses
  PROVE  [jobs[j] EXCEPT !.status = s] \in Row
BY DEF TypeOK, Row, Exists

\* Storing an answer in an existing row leaves a row.
LEMMA AnsweredType ==
  ASSUME TypeOK, NEW j \in JobIds, Exists(j), NEW r \in RunIds,
         NEW v \in Verdicts \cup {"failed"}
  PROVE  Answered(jobs[j], r, v) \in Row
<1>1. jobs[j] \in Row
  BY DEF TypeOK, Exists
<1>2. v \in Statuses /\ [by |-> r, verdict |-> v] \in Result
  BY DEF Statuses, Result
<1> QED BY <1>1, <1>2 DEF Answered, Row

\* Failing the active rows leaves a table.
LEMMA FailActiveType ==
  ASSUME TypeOK
  PROVE  FailActive \in [JobIds -> Row \cup {NoRow}]
<1>1. ASSUME NEW j \in JobIds, Active(j)
      PROVE  [jobs[j] EXCEPT !.status = "failed"] \in Row
  BY <1>1, StatusChangeType DEF Active, Statuses
<1> QED BY <1>1 DEF FailActive, TypeOK

\* Deleting the old job leaves a table.
LEMMA WithoutOldJobType ==
  ASSUME TypeOK, NEW e \in Events, NEW d \in Days
  PROVE  WithoutOldJob(e, d) \in [JobIds -> Row \cup {NoRow}]
BY DEF WithoutOldJob, TypeOK

\* Inserting a pending row leaves a table and the background tasks well typed.
LEMMA InsertPendingType ==
  ASSUME TypeOK, NEW e \in Events, NEW d \in Days, NEW r \in RunIds,
         NEW phase \in Phases, InsertPending(e, d, r, phase), UNCHANGED disowned
  PROVE  TypeOK'
<1>1. WithoutOldJob(e, d) \in [JobIds -> Row \cup {NoRow}]
  BY WithoutOldJobType
<1> QED BY <1>1, FreshRowType DEF InsertPending, TypeOK

\* What a step of the runner of r does to its row is type correct.
LEMMA LeaveType ==
  ASSUME TypeOK, NEW r \in RunIds, NEW phase \in Phases, Leave(r, phase)
  PROVE  run' \in [RunIds -> [job : JobIds \cup {0}, phase : Phases]]
BY DEF Leave, TypeOK

\* TypeOK is inductive.
LEMMA TypeStep == TypeOK /\ [Next]_vars => TypeOK'
<1> SUFFICES ASSUME TypeOK, [Next]_vars PROVE TypeOK'
  OBVIOUS
<1>1. ASSUME NEW e \in Events, NEW d \in Days, StartAccepted(e, d) PROVE TypeOK'
  <2>1. "scheduled" \in Phases BY DEF Phases
  <2> QED BY <1>1, <2>1, InsertPendingType DEF StartAccepted
<1>2. ASSUME NEW e \in Events, NEW d \in Days, StartNotNormalised(e, d) PROVE TypeOK'
  BY <1>2, WithoutOldJobType DEF StartNotNormalised, TypeOK
<1>3. ASSUME NEW e \in Events, NEW d \in Days, StartNotScheduled(e, d) PROVE TypeOK'
  <2>1. "lost" \in Phases BY DEF Phases
  <2> QED BY <1>3, <2>1, InsertPendingType DEF StartNotScheduled
<1>4. ASSUME NEW e \in Events, NEW d \in Days, ImportJob(e, d) PROVE TypeOK'
  <2>1. PICK n \in JobIds, s \in BundleStatuses :
          jobs' = [jobs EXCEPT ![n] =
                     [event |-> e, day |-> d, status |-> s, owner |-> Imported,
                      result |-> [by |-> Imported,
                                  verdict |-> IF s \in Verdicts THEN s ELSE "none"]]]
    BY <1>4 DEF ImportJob
  <2>2. [by |-> Imported, verdict |-> IF s \in Verdicts THEN s ELSE "none"] \in Result
    BY DEF Result
  <2>3. s \in Statuses OBVIOUS
  <2> QED BY <1>4, <2>1, <2>2, <2>3 DEF ImportJob, TypeOK, Row
<1>5. ASSUME NEW r \in RunIds, RunnerBegins(r) PROVE TypeOK'
  <2> DEFINE j == run[r].job
  <2>1. /\ {"done", "solving"} \subseteq Phases
        /\ "running" \in Statuses
    BY DEF Phases, Statuses, ActiveStatuses
  <2>2. CASE ~Exists(j) /\ Leave(r, "done") /\ UNCHANGED jobs
    BY <1>5, <2>1, <2>2, LeaveType DEF RunnerBegins, TypeOK
  <2>3. CASE /\ Exists(j)
             /\ Leave(r, "solving")
             /\ jobs' = [jobs EXCEPT ![j].status = "running"]
    <3>1. run' \in [RunIds -> [job : JobIds \cup {0}, phase : Phases]]
      BY <2>1, <2>3, LeaveType
    <3>2. jobs' \in [JobIds -> Row \cup {NoRow}]
      BY <2>1, <2>3, StatusChangeType DEF TypeOK
    <3> QED BY <1>5, <3>1, <3>2 DEF RunnerBegins, TypeOK
  <2> QED BY <1>5, <2>2, <2>3 DEF RunnerBegins
<1>6. ASSUME NEW r \in RunIds, EndRun(r)
      PROVE  /\ run' \in [RunIds -> [job : JobIds \cup {0}, phase : Phases]]
             /\ disowned' \subseteq RunIds
  <2>1. "done" \in Phases BY DEF Phases
  <2> QED BY <1>6, <2>1, LeaveType DEF EndRun, LiveRunsOn, TypeOK
<1>7. ASSUME NEW r \in RunIds, RunnerAnswers(r) PROVE TypeOK'
  <2> DEFINE j == run[r].job
  <2>1. PICK v \in Answers :
          jobs' = IF Exists(j) THEN [jobs EXCEPT ![j] = Answered(@, r, v)] ELSE jobs
    BY <1>7 DEF RunnerAnswers
  <2>2. CASE j \in JobIds /\ Exists(j)
    <3>1. Answered(jobs[j], r, v) \in Row
      BY <2>2, AnsweredType
    <3>2. jobs' = [jobs EXCEPT ![j] = Answered(jobs[j], r, v)]
      BY <2>1, <2>2
    <3> QED BY <1>6, <1>7, <3>1, <3>2 DEF RunnerAnswers, TypeOK
  <2>3. CASE ~(j \in JobIds /\ Exists(j))
    <3>1. jobs' = jobs
      BY <2>1, <2>3 DEF TypeOK
    <3> QED BY <1>6, <1>7, <3>1 DEF RunnerAnswers, TypeOK
  <2> QED BY <2>2, <2>3
<1>8. ASSUME NEW r \in RunIds, RunnerRaises(r) PROVE TypeOK'
  <2>1. "failed" \in Statuses BY DEF Statuses
  <2>2. jobs' \in [JobIds -> Row \cup {NoRow}]
    BY <1>8, <2>1, StatusChangeType DEF RunnerRaises, TypeOK
  <2> QED BY <1>6, <1>8, <2>2 DEF RunnerRaises, TypeOK
<1>9. ASSUME NEW r \in RunIds, RunnerCannotWrite(r) PROVE TypeOK'
  <2>1. "lost" \in Phases BY DEF Phases
  <2> QED BY <1>9, <2>1, LeaveType DEF RunnerCannotWrite, TypeOK
<1>10. ASSUME NEW e \in Events, DeleteJobsOfEvent(e) PROVE TypeOK'
  BY <1>10 DEF DeleteJobsOfEvent, TypeOK, LiveRunsOn
<1>11. CASE CancelActiveJobs
  BY <1>11, FailActiveType DEF CancelActiveJobs, TypeOK, LiveRunsOn
<1>12. CASE Restart
  BY <1>12, FailActiveType DEF Restart, Stopped, TypeOK, Phases
<1>13. CASE RestartWithoutClearing
  BY <1>13 DEF RestartWithoutClearing, TypeOK, Phases
<1>14. CASE UNCHANGED vars
  BY <1>14 DEF vars, TypeOK
<1>15. ASSUME NEW r \in RunIds, RunnerAnswersUnstarted(r) PROVE TypeOK'
  <2> DEFINE j == run[r].job
  <2>1. "raising" \in Phases BY DEF Phases
  <2>2. PICK v \in Answers : Exists(j) /\ jobs' = [jobs EXCEPT ![j] = Answered(@, r, v)]
    BY <1>15 DEF RunnerAnswersUnstarted
  <2>3. CASE j \in JobIds
    <3>1. Answered(jobs[j], r, v) \in Row
      BY <2>2, <2>3, AnsweredType
    <3> QED BY <1>15, <2>1, <2>2, <3>1, LeaveType DEF RunnerAnswersUnstarted, LiveRunsOn, TypeOK
  <2>4. CASE j \notin JobIds
    <3>1. jobs' = jobs
      BY <2>2, <2>4 DEF TypeOK
    <3> QED BY <1>15, <2>1, <3>1, LeaveType DEF RunnerAnswersUnstarted, LiveRunsOn, TypeOK
  <2> QED BY <2>3, <2>4
<1> QED
  BY <1>1, <1>2, <1>3, <1>4, <1>5, <1>7, <1>8, <1>9, <1>10, <1>11, <1>12, <1>13, <1>14, <1>15
  DEF Next

\* The job table and the background tasks always have the shape TypeOK gives them.
THEOREM TypeCorrect == Spec => []TypeOK
<1>1. Init => TypeOK
  BY DEF Init, TypeOK, Phases
<1> QED BY <1>1, TypeStep, PTL DEF Spec

-----------------------------------------------------------------------------
(* Single flight *)

\* What a runner's end leaves attached: runs of other rows.
LEMMA EndRunAttached ==
  ASSUME TypeOK, NEW r \in RunIds, EndRun(r)
  PROVE  \A s \in Attached' : s \in Attached /\ s # r /\ run'[s] = run[s] /\ run[s].job # run[r].job
BY DEF EndRun, Leave, Attached, Live, LiveRunsOn, TypeOK

\* The row of a run that is attached and has begun is marked as running.
SolvingIsMarked ==
  \A r \in Attached :
    \/ run[r].phase = "scheduled"
    \/ run[r].phase = "solving" /\ jobs[run[r].job].status = "running"

\* A run that is attached owns its row, and there is at most one such run.
FlightInv == AttachedRunsOwnTheirRow /\ SingleFlight /\ SolvingIsMarked

\* Inserting a row for run r when no run is attached.
LEMMA InsertPendingFlight ==
  ASSUME TypeOK, FlightInv, NoJobActive, NEW e \in Events, NEW d \in Days,
         NEW r \in RunIds, NEW phase \in {"scheduled", "lost"},
         InsertPending(e, d, r, phase), UNCHANGED disowned
  PROVE  FlightInv'
<1>1. Attached = {}
  BY DEF FlightInv, AttachedRunsOwnTheirRow, NoJobActive, ActiveJobs
<1>2. Attached' \subseteq {r}
  BY <1>1 DEF InsertPending, Attached, Live, TypeOK
<1>5. r \in Attached' => run'[r].phase = "scheduled"
  BY DEF InsertPending, Attached, Live, TypeOK
<1>3. PICK n \in JobIds :
        /\ jobs' = [WithoutOldJob(e, d) EXCEPT ![n] =
                      [event |-> e, day |-> d, status |-> "pending",
                       owner |-> r, result |-> NoResult]]
        /\ run' = [run EXCEPT ![r] = [job |-> n, phase |-> phase]]
  BY DEF InsertPending
<1>4. /\ jobs'[n] = [event |-> e, day |-> d, status |-> "pending", owner |-> r, result |-> NoResult]
      /\ jobs'[n] # NoRow
      /\ run'[r].job = n
  BY <1>3, WithoutOldJobType, FreshRowType DEF TypeOK
<1> QED
  BY <1>2, <1>4, <1>5 DEF FlightInv, AttachedRunsOwnTheirRow, SingleFlight, SolvingIsMarked,
                          Active, Exists, ActiveStatuses

\* Every step keeps at most one attached run, on its own active row.
LEMMA FlightStep == TypeOK /\ FlightInv /\ [Next]_vars => FlightInv'
<1> SUFFICES ASSUME TypeOK, FlightInv, [Next]_vars PROVE FlightInv'
  OBVIOUS
<1> USE DEF FlightInv
<1>1. ASSUME NEW e \in Events, NEW d \in Days, StartAccepted(e, d) PROVE FlightInv'
  BY <1>1, InsertPendingFlight DEF StartAccepted
<1>2. ASSUME NEW e \in Events, NEW d \in Days, StartNotNormalised(e, d) PROVE FlightInv'
  <2>1. Attached = {} /\ Attached' = Attached
    BY <1>2 DEF StartNotNormalised, NoJobActive, ActiveJobs, AttachedRunsOwnTheirRow,
                Attached, Live
  <2> QED BY <2>1 DEF AttachedRunsOwnTheirRow, SingleFlight, SolvingIsMarked
<1>3. ASSUME NEW e \in Events, NEW d \in Days, StartNotScheduled(e, d) PROVE FlightInv'
  BY <1>3, InsertPendingFlight DEF StartNotScheduled
<1>4. ASSUME NEW e \in Events, NEW d \in Days, ImportJob(e, d) PROVE FlightInv'
  <2>1. PICK n \in JobIds :
          /\ ~Exists(n)
          /\ \A k \in JobIds \ {n} : jobs'[k] = jobs[k]
    BY <1>4 DEF ImportJob, IsNextId, TypeOK, JobIds, Exists
  <2>2. Attached' = Attached /\ run' = run
    BY <1>4 DEF ImportJob, Attached, Live
  <2> QED BY <2>1, <2>2 DEF AttachedRunsOwnTheirRow, SingleFlight, SolvingIsMarked, Active, Exists
<1>5. ASSUME NEW r \in RunIds, RunnerBegins(r) PROVE FlightInv'
  <2>1. /\ Attached' \subseteq Attached
        /\ \A s \in RunIds : run'[s].job = run[s].job
    BY <1>5 DEF RunnerBegins, Leave, Attached, Live, TypeOK
  <2>2. \A k \in JobIds : Active(k) => Active(k)' /\ jobs'[k].owner = jobs[k].owner
    BY <1>5, StatusChangeType
    DEF RunnerBegins, Active, Exists, ActiveStatuses, Statuses, TypeOK, Row
  <2>3. SolvingIsMarked'
    <3>1. ASSUME NEW s \in Attached' PROVE s \in Attached /\ (s = r \/ run'[s] = run[s])
      BY <1>5, <2>1, <3>1 DEF RunnerBegins, Leave, TypeOK, Attached
    <3>2. r \in Attached' => run'[r].phase = "solving" /\ jobs'[run'[r].job].status = "running"
      <4>1. SUFFICES ASSUME r \in Attached' PROVE run'[r].phase = "solving" /\ jobs'[run'[r].job].status = "running"
        OBVIOUS
      <4>2. run[r].job \in JobIds /\ jobs[run[r].job] \in Row
        BY <2>1, <4>1 DEF AttachedRunsOwnTheirRow, Active, Exists, TypeOK
      <4> QED BY <1>5, <4>1, <4>2 DEF RunnerBegins, Leave, Attached, Live, TypeOK, Row
    <3>3. ASSUME NEW s \in Attached', s # r
          PROVE  \/ run'[s].phase = "scheduled"
                 \/ run'[s].phase = "solving" /\ jobs'[run'[s].job].status = "running"
      <4>1. run[s].job \in JobIds /\ jobs[run[s].job] \in Row
        BY <3>1, <3>3 DEF AttachedRunsOwnTheirRow, Active, Exists, TypeOK
      <4>2. jobs[run[s].job].status = "running" => jobs'[run[s].job].status = "running"
        BY <1>5, <4>1 DEF RunnerBegins, TypeOK, Row
      <4> QED BY <3>1, <3>3, <4>2 DEF SolvingIsMarked
    <3> QED BY <3>2, <3>3 DEF SolvingIsMarked
  <2> QED BY <2>1, <2>2, <2>3 DEF AttachedRunsOwnTheirRow, SingleFlight, Attached
<1>6. ASSUME NEW r \in RunIds, EndRun(r),
             \A k \in JobIds : k # run[r].job => jobs'[k] = jobs[k]
      PROVE  FlightInv'
  BY <1>6, EndRunAttached DEF AttachedRunsOwnTheirRow, SingleFlight, SolvingIsMarked, Active, Exists
<1>7. ASSUME NEW r \in RunIds, RunnerAnswers(r) PROVE FlightInv'
  BY <1>6, <1>7 DEF RunnerAnswers, TypeOK
<1>8. ASSUME NEW r \in RunIds, RunnerRaises(r) PROVE FlightInv'
  BY <1>6, <1>8 DEF RunnerRaises, TypeOK
<1>9. ASSUME NEW r \in RunIds, RunnerCannotWrite(r) PROVE FlightInv'
  BY <1>9 DEF RunnerCannotWrite, Leave, Attached, Live, TypeOK, AttachedRunsOwnTheirRow,
              SingleFlight, SolvingIsMarked, Active, Exists
<1>10. ASSUME NEW e \in Events, DeleteJobsOfEvent(e) PROVE FlightInv'
  <2>1. \A s \in Attached' : s \in Attached /\ run[s].job \notin RowsOfEvent(e)
    BY <1>10 DEF DeleteJobsOfEvent, Attached, Live, LiveRunsOn
  <2> QED
    BY <1>10, <2>1 DEF DeleteJobsOfEvent, AttachedRunsOwnTheirRow, SingleFlight, SolvingIsMarked, Active,
                       Exists, TypeOK
<1>11. CASE CancelActiveJobs
  <2>1. Attached' = {}
    BY <1>11 DEF CancelActiveJobs, Attached, Live, LiveRunsOn, AttachedRunsOwnTheirRow,
                 ActiveJobs
  <2> QED BY <2>1 DEF AttachedRunsOwnTheirRow, SingleFlight, SolvingIsMarked
<1>12. CASE Restart
  <2>1. Attached' = {}
    BY <1>12 DEF Restart, Stopped, Attached, Live, TypeOK
  <2> QED BY <2>1 DEF AttachedRunsOwnTheirRow, SingleFlight, SolvingIsMarked
<1>13. CASE RestartWithoutClearing
  <2>1. Attached' = {}
    BY <1>13 DEF RestartWithoutClearing, Attached, Live, TypeOK
  <2> QED BY <2>1 DEF AttachedRunsOwnTheirRow, SingleFlight, SolvingIsMarked
<1>14. CASE UNCHANGED vars
  BY <1>14 DEF vars, AttachedRunsOwnTheirRow, SingleFlight, SolvingIsMarked, Attached, Live, Active, Exists
<1>15. ASSUME NEW r \in RunIds, RunnerAnswersUnstarted(r) PROVE FlightInv'
  <2>1. r \notin Attached
    BY <1>15 DEF RunnerAnswersUnstarted, MayHaveNoStart, AttachedRunsOwnTheirRow, SolvingIsMarked,
                 Imported, RunIds
  <2>2. \A s \in Attached' : s \in Attached /\ run'[s] = run[s] /\ run[s].job # run[r].job
    BY <1>15, <2>1 DEF RunnerAnswersUnstarted, Leave, Attached, Live, LiveRunsOn, TypeOK
  <2>3. \A k \in JobIds : k # run[r].job => jobs'[k] = jobs[k]
    BY <1>15 DEF RunnerAnswersUnstarted, TypeOK
  <2> QED BY <2>2, <2>3 DEF AttachedRunsOwnTheirRow, SingleFlight, SolvingIsMarked, Active, Exists
<1> QED
  BY <1>1, <1>2, <1>3, <1>4, <1>5, <1>7, <1>8, <1>9, <1>10, <1>11, <1>12, <1>13, <1>14, <1>15
  DEF Next

\* At most one run that still owns its row is under way, and it owns that row
\* alone: the check of the active rows in the start handler is enough, because
\* a pending or running row outlives every step but its own runner's last one.
THEOREM OneFlight == Spec => [](AttachedRunsOwnTheirRow /\ SingleFlight)
<1>1. Init => FlightInv
  BY DEF Init, FlightInv, AttachedRunsOwnTheirRow, SingleFlight, SolvingIsMarked, Attached, Live
<1>2. FlightInv => AttachedRunsOwnTheirRow /\ SingleFlight
  BY DEF FlightInv
<1> QED BY <1>1, <1>2, FlightStep, TypeCorrect, PTL DEF Spec

-----------------------------------------------------------------------------
(* What a step can do to one row *)

\* The row stays the same job with the same result; only the end of its run,
\* a cancellation or a run that still refers to it change its status.
Kept(k) ==
  /\ Exists(k)
  /\ jobs'[k] \in Row
  /\ jobs'[k].event = jobs[k].event /\ jobs'[k].day = jobs[k].day
  /\ jobs'[k].owner = jobs[k].owner /\ jobs'[k].result = jobs[k].result
  /\ jobs'[k].status \in {jobs[k].status, "failed", "running"}
  /\ jobs'[k] = jobs[k] \/ Active(k) \/ LiveRunsOn({k}) # {}

\* A run stores its answer in the row.
AnsweredBy(k, r) ==
  /\ Exists(k)
  /\ run[r].phase = "solving" /\ run[r].job = k
  /\ jobs'[k].event = jobs[k].event /\ jobs'[k].day = jobs[k].day
  /\ jobs'[k].owner = jobs[k].owner
  /\ jobs'[k].result = [by |-> r, verdict |-> jobs'[k].status]

\* The row is inserted by an accepted start or by an import.
Inserted(k) ==
  \/ /\ jobs'[k].status = "pending" /\ jobs'[k].result = NoResult
     /\ jobs'[k].owner \in RunIds
     /\ run[jobs'[k].owner].phase = "idle"
     /\ run'[jobs'[k].owner].phase # "idle"
  \/ /\ ~Exists(k)
     /\ jobs'[k].owner = Imported
     /\ jobs'[k].result.by = Imported
     /\ jobs'[k].status \in Verdicts => jobs'[k].result.verdict = jobs'[k].status

RowStep(k) == Kept(k) \/ (\E r \in RunIds : AnsweredBy(k, r)) \/ Inserted(k)

\* A row whose status becomes "failed" or "running" is kept.
LEMMA StatusChangeKeeps ==
  ASSUME TypeOK, NEW k \in JobIds, Exists(k), NEW s \in {"failed", "running"},
         jobs'[k] = [jobs[k] EXCEPT !.status = s],
         Active(k) \/ LiveRunsOn({k}) # {}
  PROVE  Kept(k)
<1>1. s \in Statuses
  BY DEF Statuses, ActiveStatuses
<1>2. jobs[k] \in Row
  BY DEF TypeOK, Exists
<1> QED BY <1>1, <1>2 DEF Kept, Row

\* A table that does not change keeps its rows.
LEMMA UnchangedKeeps ==
  ASSUME TypeOK, NEW k \in JobIds, jobs'[k] = jobs[k], jobs'[k] # NoRow
  PROVE  Kept(k)
BY DEF TypeOK, Exists, Kept

\* A start writes a fresh pending row and keeps, or deletes, all others.
LEMMA InsertPendingRows ==
  ASSUME TypeOK, NEW e \in Events, NEW d \in Days, NEW r \in RunIds, NEW phase \in Phases,
         IsNextRun(r), phase # "idle", InsertPending(e, d, r, phase),
         NEW k \in JobIds, jobs'[k] # NoRow
  PROVE  RowStep(k)
<1>1. PICK n \in JobIds :
        jobs' = [WithoutOldJob(e, d) EXCEPT ![n] =
                  [event |-> e, day |-> d, status |-> "pending",
                   owner |-> r, result |-> NoResult]]
  BY DEF InsertPending
<1>2. CASE k = n
  <2>1. run[r].phase = "idle" /\ run'[r].phase # "idle"
    BY DEF IsNextRun, InsertPending, TypeOK
  <2> QED BY <1>1, <1>2, <2>1, WithoutOldJobType DEF RowStep, Inserted
<1>3. CASE k # n
  <2>1. jobs'[k] = jobs[k]
    BY <1>1, <1>3 DEF WithoutOldJob, TypeOK
  <2> QED BY <2>1, UnchangedKeeps DEF RowStep
<1> QED BY <1>2, <1>3

\* Failing the active rows keeps every verdict and its result.
LEMMA FailActiveRows ==
  ASSUME TypeOK, jobs' = FailActive, NEW k \in JobIds, jobs'[k] # NoRow
  PROVE  Kept(k)
<1>1. CASE Active(k)
  BY <1>1, StatusChangeKeeps DEF FailActive, Active
<1>2. CASE ~Active(k)
  BY <1>2, UnchangedKeeps DEF FailActive
<1> QED BY <1>1, <1>2

\* What any step can do to a row: keep it, store an answer, or insert it.
LEMMA RowSteps ==
  TypeOK /\ [Next]_vars => \A k \in JobIds : jobs'[k] # NoRow => RowStep(k)
<1> SUFFICES ASSUME TypeOK, [Next]_vars, NEW k \in JobIds, jobs'[k] # NoRow
             PROVE  RowStep(k)
  OBVIOUS
<1> USE DEF RowStep
<1>1. ASSUME NEW e \in Events, NEW d \in Days, StartAccepted(e, d) PROVE RowStep(k)
  <2>1. "scheduled" \in Phases BY DEF Phases
  <2> QED BY <1>1, <2>1, InsertPendingRows DEF StartAccepted
<1>2. ASSUME NEW e \in Events, NEW d \in Days, StartNotNormalised(e, d) PROVE RowStep(k)
  <2>1. jobs'[k] = jobs[k]
    BY <1>2 DEF StartNotNormalised, WithoutOldJob, TypeOK
  <2> QED BY <2>1, UnchangedKeeps
<1>3. ASSUME NEW e \in Events, NEW d \in Days, StartNotScheduled(e, d) PROVE RowStep(k)
  <2>1. "lost" \in Phases BY DEF Phases
  <2> QED BY <1>3, <2>1, InsertPendingRows DEF StartNotScheduled
<1>4. ASSUME NEW e \in Events, NEW d \in Days, ImportJob(e, d) PROVE RowStep(k)
  <2>1. PICK n \in JobIds, s \in BundleStatuses :
          /\ IsNextId(jobs, n)
          /\ jobs' = [jobs EXCEPT ![n] =
                     [event |-> e, day |-> d, status |-> s, owner |-> Imported,
                      result |-> [by |-> Imported,
                                  verdict |-> IF s \in Verdicts THEN s ELSE "none"]]]
    BY <1>4 DEF ImportJob
  <2>2. CASE k = n
    <3>1. ~Exists(n)
      BY <2>1 DEF ImportJob, IsNextId, TypeOK, JobIds, Exists
    <3> QED BY <2>1, <2>2, <3>1 DEF Inserted, TypeOK
  <2>3. CASE k # n
    BY <2>1, <2>3, UnchangedKeeps DEF TypeOK
  <2> QED BY <2>2, <2>3
<1>5. ASSUME NEW r \in RunIds, RunnerBegins(r) PROVE RowStep(k)
  <2>1. CASE jobs'[k] = jobs[k]
    BY <2>1, UnchangedKeeps
  <2>2. CASE jobs'[k] # jobs[k]
    <3>1. k = run[r].job /\ Exists(k) /\ jobs'[k] = [jobs[k] EXCEPT !.status = "running"]
      BY <1>5, <2>2 DEF RunnerBegins, TypeOK
    <3>2. r \in LiveRunsOn({k})
      BY <1>5, <3>1 DEF RunnerBegins, LiveRunsOn, Live
    <3> QED BY <3>1, <3>2, StatusChangeKeeps
  <2> QED BY <2>1, <2>2
<1>6. ASSUME NEW r \in RunIds, RunnerAnswers(r) PROVE RowStep(k)
  <2>1. CASE jobs'[k] = jobs[k]
    BY <2>1, UnchangedKeeps
  <2>2. CASE jobs'[k] # jobs[k]
    <3>1. PICK v \in Answers :
            k = run[r].job /\ Exists(k) /\ jobs'[k] = Answered(jobs[k], r, v)
      BY <1>6, <2>2 DEF RunnerAnswers, TypeOK
    <3>2. jobs[k] \in Row
      BY <3>1 DEF TypeOK, Exists
    <3>3. AnsweredBy(k, r)
      BY <1>6, <3>1, <3>2 DEF AnsweredBy, Answered, Row, RunnerAnswers, EndRun
    <3> QED BY <3>3
  <2> QED BY <2>1, <2>2
<1>7. ASSUME NEW r \in RunIds, RunnerRaises(r) PROVE RowStep(k)
  <2>1. CASE jobs'[k] = jobs[k]
    BY <2>1, UnchangedKeeps
  <2>2. CASE jobs'[k] # jobs[k]
    <3>1. k = run[r].job /\ Exists(k) /\ jobs'[k] = [jobs[k] EXCEPT !.status = "failed"]
      BY <1>7, <2>2 DEF RunnerRaises, TypeOK
    <3>2. r \in LiveRunsOn({k})
      BY <1>7, <3>1 DEF RunnerRaises, EndRun, LiveRunsOn, Live
    <3> QED BY <3>1, <3>2, StatusChangeKeeps
  <2> QED BY <2>1, <2>2
<1>8. ASSUME NEW r \in RunIds, RunnerCannotWrite(r) PROVE RowStep(k)
  BY <1>8, UnchangedKeeps DEF RunnerCannotWrite
<1>9. ASSUME NEW e \in Events, DeleteJobsOfEvent(e) PROVE RowStep(k)
  <2>1. jobs'[k] = jobs[k]
    BY <1>9 DEF DeleteJobsOfEvent
  <2> QED BY <2>1, UnchangedKeeps
<1>10. CASE CancelActiveJobs
  BY <1>10, FailActiveRows DEF CancelActiveJobs
<1>11. CASE Restart
  BY <1>11, FailActiveRows DEF Restart
<1>12. CASE RestartWithoutClearing
  BY <1>12, UnchangedKeeps DEF RestartWithoutClearing
<1>13. CASE UNCHANGED vars
  BY <1>13, UnchangedKeeps DEF vars
<1>14. ASSUME NEW r \in RunIds, RunnerAnswersUnstarted(r) PROVE RowStep(k)
  <2>1. CASE jobs'[k] = jobs[k]
    BY <2>1, UnchangedKeeps
  <2>2. CASE jobs'[k] # jobs[k]
    <3>1. PICK v \in Answers :
            k = run[r].job /\ Exists(k) /\ jobs'[k] = Answered(jobs[k], r, v)
      BY <1>14, <2>2 DEF RunnerAnswersUnstarted, TypeOK
    <3>2. jobs[k] \in Row
      BY <3>1 DEF TypeOK, Exists
    <3>3. AnsweredBy(k, r)
      BY <1>14, <3>1, <3>2 DEF AnsweredBy, Answered, Row, RunnerAnswersUnstarted
    <3> QED BY <3>3
  <2> QED BY <2>1, <2>2
<1> QED
  BY <1>1, <1>2, <1>3, <1>4, <1>5, <1>6, <1>7, <1>8, <1>9, <1>10, <1>11, <1>12, <1>13, <1>14
  DEF Next

-----------------------------------------------------------------------------
(* Verdicts and results *)

\* A verdict is only ever shown with the result that carries it.
THEOREM VerdictsAreBacked == Spec => []VerdictHasResult
<1>1. Init => VerdictHasResult
  BY DEF Init, VerdictHasResult, Exists
<1>2. TypeOK /\ VerdictHasResult /\ [Next]_vars => VerdictHasResult'
  <2> SUFFICES ASSUME TypeOK, VerdictHasResult, [Next]_vars,
                      NEW k \in JobIds, jobs'[k] # NoRow, jobs'[k].status \in Verdicts
               PROVE  jobs'[k].result.verdict = jobs'[k].status
    BY DEF VerdictHasResult, Exists
  <2>1. RowStep(k)
    BY RowSteps
  <2>2. CASE Kept(k)
    BY <2>2 DEF Kept, VerdictHasResult, Verdicts
  <2>3. CASE \E r \in RunIds : AnsweredBy(k, r)
    BY <2>3 DEF AnsweredBy
  <2>4. CASE Inserted(k)
    BY <2>4 DEF Inserted, Verdicts
  <2> QED BY <2>1, <2>2, <2>3, <2>4 DEF RowStep
<1> QED BY <1>1, <1>2, TypeCorrect, PTL DEF Spec

\* A run that lost its row is never attached again.
LEMMA DisownedGrows == TypeOK /\ [Next]_vars => disowned \subseteq disowned'
BY DEF Next, vars, StartAccepted, StartNotNormalised, StartNotScheduled, ImportJob,
       RunnerBegins, RunnerAnswers, RunnerAnswersUnstarted, RunnerRaises, EndRun, RunnerCannotWrite,
       DeleteJobsOfEvent, CancelActiveJobs, Restart, RestartWithoutClearing

\* A result that was computed for another job comes from a run that had lost
\* its row: without cancellation or deletion, row ids that SQLite uses again
\* never mix up two days.
THEOREM ResultsStayWithTheirJob == Spec => []ResultProvenance
<1>1. Init => ResultProvenance
  BY DEF Init, ResultProvenance, Exists
<1>2. TypeOK /\ FlightInv /\ ResultProvenance /\ [Next]_vars => ResultProvenance'
  <2> SUFFICES ASSUME TypeOK, FlightInv, ResultProvenance, [Next]_vars,
                      NEW k \in JobIds, jobs'[k] # NoRow, jobs'[k].result # NoResult
               PROVE  jobs'[k].result.by \in {jobs'[k].owner} \cup disowned'
    BY DEF ResultProvenance, Exists
  <2>1. RowStep(k) /\ disowned \subseteq disowned'
    BY RowSteps, DisownedGrows
  <2>2. CASE Kept(k)
    BY <2>1, <2>2 DEF Kept, ResultProvenance
  <2>3. ASSUME NEW r \in RunIds, AnsweredBy(k, r)
        PROVE  jobs'[k].result.by \in {jobs'[k].owner} \cup disowned'
    <3>1. r \in Attached \/ r \in disowned
      BY <2>3 DEF AnsweredBy, Attached, Live
    <3> QED BY <2>1, <2>3, <3>1 DEF AnsweredBy, FlightInv, AttachedRunsOwnTheirRow
  <2>4. CASE Inserted(k)
    BY <2>4 DEF Inserted
  <2> QED BY <2>1, <2>2, <2>3, <2>4 DEF RowStep
<1>3. Init => FlightInv
  BY DEF Init, FlightInv, AttachedRunsOwnTheirRow, SingleFlight, SolvingIsMarked, Attached, Live
<1> QED BY <1>1, <1>2, <1>3, FlightStep, TypeCorrect, PTL DEF Spec

\* A live run on a row that is not active has lost that row.
LEMMA RunOnFinishedRow ==
  ASSUME FlightInv, NEW k \in JobIds, ~Active(k), NEW r \in RunIds, Live(r), run[r].job = k
  PROVE  LiveRunsOn({k}) \cap disowned # {}
<1>1. r \in disowned
  BY DEF FlightInv, AttachedRunsOwnTheirRow, Attached
<1> QED BY <1>1 DEF LiveRunsOn

\* A job in the table was started by a run that has been scheduled.
OwnersWereStarted ==
  \A k \in JobIds : (Exists(k) /\ jobs[k].owner \in RunIds) => run[jobs[k].owner].phase # "idle"

\* A run never becomes idle again, and keeps the id it was started with.
LEMMA RunsStayStarted ==
  ASSUME TypeOK, [Next]_vars, NEW r \in RunIds, run[r].phase # "idle"
  PROVE  run'[r].phase # "idle" /\ run'[r].job = run[r].job
<1>1. ASSUME NEW e \in Events, NEW d \in Days,
             \/ StartAccepted(e, d) \/ StartNotScheduled(e, d)
      PROVE  run'[r].phase # "idle" /\ run'[r].job = run[r].job
  <2>1. PICK s \in RunIds, phase \in {"scheduled", "lost"} :
          IsNextRun(s) /\ InsertPending(e, d, s, phase)
    BY <1>1 DEF StartAccepted, StartNotScheduled
  <2> QED BY <2>1 DEF IsNextRun, InsertPending, TypeOK
<1>2. ASSUME NEW s \in RunIds, NEW phase \in {"solving", "raising", "lost", "done"}, Leave(s, phase)
      PROVE  run'[r].phase # "idle" /\ run'[r].job = run[r].job
  BY <1>2 DEF Leave, TypeOK
<1>3. CASE Restart \/ RestartWithoutClearing
  BY <1>3 DEF Restart, Stopped, RestartWithoutClearing, Live, TypeOK
<1>4. ASSUME NEW s \in RunIds,
             \/ RunnerBegins(s) \/ RunnerAnswers(s) \/ RunnerAnswersUnstarted(s) \/ RunnerRaises(s)
             \/ RunnerCannotWrite(s)
      PROVE  run'[r].phase # "idle" /\ run'[r].job = run[r].job
  BY <1>2, <1>4 DEF RunnerBegins, RunnerAnswers, RunnerAnswersUnstarted, RunnerRaises, EndRun,
                        RunnerCannotWrite
<1>5. CASE UNCHANGED run
  BY <1>5
<1> QED
  BY <1>1, <1>3, <1>4, <1>5
  DEF Next, vars, StartNotNormalised, ImportJob, DeleteJobsOfEvent, CancelActiveJobs

\* Every row is owned by a run that was started, or by an import.
LEMMA OwnersStep == TypeOK /\ OwnersWereStarted /\ [Next]_vars => OwnersWereStarted'
<1> SUFFICES ASSUME TypeOK, OwnersWereStarted, [Next]_vars,
                    NEW k \in JobIds, jobs'[k] # NoRow, jobs'[k].owner \in RunIds
             PROVE  run'[jobs'[k].owner].phase # "idle"
  BY DEF OwnersWereStarted, Exists
<1>1. CASE Inserted(k)
  BY <1>1 DEF Inserted, Imported, RunIds
<1>2. CASE Exists(k) /\ jobs'[k].owner = jobs[k].owner
  BY <1>2, RunsStayStarted DEF OwnersWereStarted
<1> QED BY <1>1, <1>2, RowSteps DEF RowStep, Kept, AnsweredBy

\* The verdict of a job changes only through a run that had lost its row.
THEOREM VerdictsAreFinal == Spec => VerdictIsFinal
<1>1. ASSUME TypeOK, FlightInv, OwnersWereStarted, [Next]_vars, NEW k \in JobIds
      PROVE  VerdictKept(k)
  <2> SUFFICES ASSUME Exists(k), jobs[k].status \in Verdicts, jobs'[k] # NoRow,
                      jobs'[k].owner = jobs[k].owner, jobs'[k] # jobs[k]
               PROVE  LiveRunsOn({k}) \cap disowned # {}
    BY DEF VerdictKept
  <2>1. ~Active(k)
    BY DEF Active, ActiveStatuses, Verdicts
  <2>2. ~Inserted(k)
    BY <1>1 DEF Inserted, OwnersWereStarted
  <2>3. PICK r \in RunIds : Live(r) /\ run[r].job = k
    <3>1. Kept(k) \/ \E r \in RunIds : AnsweredBy(k, r)
      BY <1>1, <2>2, RowSteps DEF RowStep
    <3> QED BY <2>1, <3>1 DEF Kept, AnsweredBy, LiveRunsOn, Live
  <2> QED BY <1>1, <2>1, <2>3, RunOnFinishedRow
<1>2. Init => OwnersWereStarted /\ FlightInv
  BY DEF Init, OwnersWereStarted, Exists, FlightInv, AttachedRunsOwnTheirRow, SingleFlight,
         SolvingIsMarked, Attached, Live
<1>3. TypeOK /\ FlightInv /\ OwnersWereStarted /\ [Next]_vars
        => [VerdictsKept]_vars
  BY <1>1 DEF VerdictsKept
<1> QED
  BY <1>2, <1>3, FlightStep, OwnersStep, TypeCorrect, PTL DEF Spec, VerdictIsFinal

-----------------------------------------------------------------------------
(* One job for each day *)

\* Deleting the first row found for the day leaves no row of that day.
LEMMA DayCleared ==
  ASSUME TypeOK, OneJobPerDay, NEW e \in Events, NEW d \in Days, NEW k \in JobIds,
         WithoutOldJob(e, d)[k] # NoRow
  PROVE  /\ WithoutOldJob(e, d)[k] = jobs[k]
         /\ jobs[k].event # e \/ jobs[k].day # d
<1>1. CASE RowsOf(e, d) = {}
  BY <1>1 DEF WithoutOldJob, RowsOf, Exists
<1>2. CASE RowsOf(e, d) # {}
  <2>1. PICK old \in RowsOf(e, d) : WithoutOldJob(e, d) = [jobs EXCEPT ![old] = NoRow]
    BY <1>2 DEF WithoutOldJob
  <2>2. old \in JobIds /\ k # old
    BY <2>1 DEF RowsOf, TypeOK
  <2>3. WithoutOldJob(e, d)[k] = jobs[k]
    BY <2>1, <2>2 DEF TypeOK
  <2>4. k \notin RowsOf(e, d)
    BY <2>2 DEF OneJobPerDay, RowsOf
  <2> QED BY <2>3, <2>4 DEF RowsOf, Exists
<1> QED BY <1>1, <1>2

\* Two rows of the new table that are of the same day were rows of that day.
DayOf(table, k) == <<table[k].event, table[k].day>>

\* A start leaves one row for its day and touches no other day.
LEMMA InsertPendingDays ==
  ASSUME TypeOK, OneJobPerDay, NEW e \in Events, NEW d \in Days, NEW r \in RunIds, NEW phase,
         InsertPending(e, d, r, phase)
  PROVE  OneJobPerDay'
<1>1. PICK n \in JobIds :
        jobs' = [WithoutOldJob(e, d) EXCEPT ![n] =
                  [event |-> e, day |-> d, status |-> "pending",
                   owner |-> r, result |-> NoResult]]
  BY DEF InsertPending
<1>2. DayOf(jobs', n) = <<e, d>>
  BY <1>1, WithoutOldJobType DEF DayOf
<1>3. ASSUME NEW k \in JobIds \ {n}, jobs'[k] # NoRow
      PROVE  jobs'[k] = jobs[k] /\ DayOf(jobs', k) # <<e, d>>
  <2>1. jobs'[k] = WithoutOldJob(e, d)[k]
    BY <1>1, WithoutOldJobType
  <2> QED BY <1>3, <2>1, DayCleared DEF DayOf
<1> QED BY <1>2, <1>3 DEF OneJobPerDay, Exists, DayOf

\* The list of an event never shows two jobs for a day.
THEOREM DaysHaveOneJob == Spec => []OneJobPerDay
<1>1. Init => OneJobPerDay
  BY DEF Init, OneJobPerDay, Exists
<1>2. ASSUME TypeOK, OneJobPerDay, [Next]_vars PROVE OneJobPerDay'
  <2> DEFINE SameJobs == \A k \in JobIds : jobs'[k] # NoRow =>
                            /\ Exists(k)
                            /\ jobs'[k].event = jobs[k].event /\ jobs'[k].day = jobs[k].day
  <2>1. SameJobs => OneJobPerDay'
    BY <1>2 DEF OneJobPerDay, Exists
  <2>2. ASSUME NEW e \in Events, NEW d \in Days, StartAccepted(e, d) \/ StartNotScheduled(e, d)
        PROVE  OneJobPerDay'
    BY <1>2, <2>2, InsertPendingDays DEF StartAccepted, StartNotScheduled
  <2>3. ASSUME NEW e \in Events, NEW d \in Days, ImportJob(e, d)
        PROVE  OneJobPerDay'
    <3>1. PICK n \in JobIds, s \in BundleStatuses :
            jobs' = [jobs EXCEPT ![n] =
                       [event |-> e, day |-> d, status |-> s, owner |-> Imported,
                        result |-> [by |-> Imported,
                                    verdict |-> IF s \in Verdicts THEN s ELSE "none"]]]
      BY <2>3 DEF ImportJob
    <3>2. jobs'[n].event = e
      BY <1>2, <3>1 DEF TypeOK
    <3>3. \A k \in JobIds \ {n} :
            jobs'[k] # NoRow => jobs'[k] = jobs[k] /\ Exists(k) /\ jobs'[k].event # e
      BY <1>2, <2>3, <3>1 DEF ImportJob, RowsOfEvent, Exists, TypeOK
    <3> QED BY <1>2, <3>2, <3>3 DEF OneJobPerDay, Exists
  <2>4. ASSUME \/ \E e \in Events, d \in Days : StartNotNormalised(e, d)
               \/ \E e \in Events : DeleteJobsOfEvent(e)
               \/ UNCHANGED jobs
        PROVE  SameJobs
    BY <1>2, <2>4 DEF StartNotNormalised, WithoutOldJob, DeleteJobsOfEvent, TypeOK, Exists
  <2>5. ASSUME jobs' = FailActive PROVE SameJobs
    BY <1>2, <2>5, FailActiveRows DEF Kept
  <2>6. ASSUME NEW r \in RunIds,
               \/ RunnerBegins(r) \/ RunnerAnswers(r) \/ RunnerAnswersUnstarted(r)
               \/ RunnerRaises(r)
        PROVE  SameJobs
    <3>1. ASSUME NEW k \in JobIds, jobs'[k] # NoRow PROVE ~Inserted(k)
      <4>1. Exists(k)
        BY <1>2, <2>6, <3>1
        DEF RunnerBegins, RunnerAnswers, RunnerAnswersUnstarted, RunnerRaises, TypeOK, Exists
      <4>2. \A s \in RunIds : run[s].phase = "idle" => run'[s].phase = "idle"
        BY <1>2, <2>6
        DEF RunnerBegins, RunnerAnswers, RunnerAnswersUnstarted, RunnerRaises, EndRun, Leave,
            TypeOK
      <4> QED BY <4>1, <4>2 DEF Inserted
    <3> QED BY <1>2, <3>1, RowSteps DEF RowStep, Kept, AnsweredBy
  <2> QED
    BY <1>2, <2>1, <2>2, <2>3, <2>4, <2>5, <2>6
    DEF Next, vars, RunnerCannotWrite, RestartWithoutClearing, CancelActiveJobs, Restart
<1> QED BY <1>1, <1>2, TypeCorrect, PTL DEF Spec

-----------------------------------------------------------------------------
(* Active jobs are served *)

Served(k) == jobs[k].owner = Imported \/ \E r \in RunIds : Serves(r, k)

\* What blocks every start is a job with a run, an orphan of a failed database
\* statement, or an import.
THEOREM ActiveJobsAreServed == Spec => []ActiveIsServed
<1>1. Init => ActiveIsServed
  BY DEF Init, ActiveIsServed, Active, Exists
<1>2. ASSUME TypeOK, ActiveIsServed, [Next]_vars, NEW k \in JobIds, Active(k)'
      PROVE  Served(k)'
  <2>1. ASSUME NEW e \in Events, NEW d \in Days, NEW r \in RunIds,
               NEW phase \in {"scheduled", "lost"},
               NoJobActive, InsertPending(e, d, r, phase)
        PROVE  Served(k)'
    <3>1. PICK n \in JobIds :
            /\ jobs' = [WithoutOldJob(e, d) EXCEPT ![n] =
                          [event |-> e, day |-> d, status |-> "pending",
                           owner |-> r, result |-> NoResult]]
            /\ run' = [run EXCEPT ![r] = [job |-> n, phase |-> phase]]
      BY <2>1 DEF InsertPending
    <3>2. k = n
      BY <1>2, <2>1, <3>1, WithoutOldJobType
      DEF WithoutOldJob, NoJobActive, ActiveJobs, Active, Exists, TypeOK
    <3>3. Serves(r, n)'
      BY <1>2, <3>1 DEF Serves, Live, TypeOK
    <3> QED BY <3>2, <3>3 DEF Served
  <2>2. ASSUME jobs'[k] = jobs[k], \A s \in RunIds : Serves(s, k) => Serves(s, k)'
        PROVE  Served(k)'
    <3>1. Active(k)
      BY <1>2, <2>2 DEF Active, Exists
    <3> QED BY <1>2, <2>2, <3>1 DEF ActiveIsServed, Served
  <2>3. ASSUME NEW e \in Events, NEW d \in Days, ImportJob(e, d) PROVE Served(k)'
    <3>1. jobs'[k] = jobs[k] \/ jobs'[k].owner = Imported
      BY <1>2, <2>3 DEF ImportJob, TypeOK
    <3>2. \A s \in RunIds : Serves(s, k) => Serves(s, k)'
      BY <2>3 DEF ImportJob, Serves, Live
    <3> QED BY <2>2, <3>1, <3>2 DEF Served
  <2>4. ASSUME \/ \E e \in Events, d \in Days : StartNotNormalised(e, d)
               \/ \E e \in Events : DeleteJobsOfEvent(e)
               \/ RestartWithoutClearing
               \/ UNCHANGED vars
        PROVE  Served(k)'
    <3>1. jobs'[k] = jobs[k]
      BY <1>2, <2>4
      DEF StartNotNormalised, WithoutOldJob, DeleteJobsOfEvent, RestartWithoutClearing, vars,
          TypeOK, Active, Exists
    <3>2. \A s \in RunIds : Serves(s, k) => Serves(s, k)'
      BY <1>2, <2>4
      DEF StartNotNormalised, DeleteJobsOfEvent, RestartWithoutClearing, vars, Serves, Live, TypeOK
    <3> QED BY <2>2, <3>1, <3>2
  <2>5. ASSUME CancelActiveJobs \/ Restart PROVE FALSE
    BY <1>2, <2>5
    DEF CancelActiveJobs, Restart, FailActive, Active, Exists, ActiveStatuses, TypeOK, Row
  <2>6. ASSUME NEW r \in RunIds, RunnerBegins(r) PROVE Served(k)'
    <3>1. CASE k = run[r].job
      <4>1. Exists(k)
        BY <1>2, <2>6, <3>1 DEF RunnerBegins, Active, Exists
      <4>2. Serves(r, k)'
        BY <1>2, <2>6, <3>1, <4>1 DEF RunnerBegins, Leave, Serves, Live, TypeOK
      <4> QED BY <4>2 DEF Served
    <3>2. CASE k # run[r].job
      <4>1. jobs'[k] = jobs[k] /\ \A s \in RunIds : Serves(s, k) => Serves(s, k)'
        BY <1>2, <2>6, <3>2 DEF RunnerBegins, Leave, Serves, Live, TypeOK
      <4> QED BY <2>2, <4>1
    <3> QED BY <3>1, <3>2
  <2>7. ASSUME NEW r \in RunIds,
               RunnerAnswers(r) \/ RunnerAnswersUnstarted(r) \/ RunnerRaises(r)
        PROVE  Served(k)'
    <3>1. CASE k = run[r].job
      <4>1. Exists(k)
        BY <1>2, <2>7, <3>1 DEF RunnerAnswers, RunnerAnswersUnstarted, RunnerRaises, Active, Exists
      <4>2. jobs[k] \in Row
        BY <1>2, <4>1 DEF TypeOK, Exists
      <4>3. jobs'[k].status \in Verdicts \cup {"failed"}
        <5>1. CASE RunnerRaises(r)
          BY <1>2, <3>1, <4>1, <4>2, <5>1 DEF RunnerRaises, TypeOK, Row
        <5>2. CASE RunnerAnswers(r) \/ RunnerAnswersUnstarted(r)
          <6>1. PICK v \in Answers : jobs'[k] = Answered(jobs[k], r, v)
            BY <1>2, <3>1, <4>1, <5>2 DEF RunnerAnswers, RunnerAnswersUnstarted, TypeOK
          <6> QED BY <4>2, <6>1 DEF Answered, Row
        <5> QED BY <2>7, <5>1, <5>2
      <4> QED BY <1>2, <4>3 DEF Active, ActiveStatuses, Verdicts
    <3>2. CASE k # run[r].job
      <4>1. jobs'[k] = jobs[k]
        BY <1>2, <2>7, <3>2 DEF RunnerAnswers, RunnerAnswersUnstarted, RunnerRaises, TypeOK
      <4>2. \A s \in RunIds : Serves(s, k) => Serves(s, k)'
        BY <1>2, <2>7, <3>2
        DEF RunnerAnswers, RunnerAnswersUnstarted, RunnerRaises, EndRun, Leave, Serves, Live, TypeOK
      <4> QED BY <2>2, <4>1, <4>2
    <3> QED BY <3>1, <3>2
  <2>8. ASSUME NEW r \in RunIds, RunnerCannotWrite(r) PROVE Served(k)'
    <3>1. jobs'[k] = jobs[k] /\ \A s \in RunIds : Serves(s, k) => Serves(s, k)'
      BY <1>2, <2>8 DEF RunnerCannotWrite, Leave, Serves, Live, TypeOK
    <3> QED BY <2>2, <3>1
  <2> QED
    BY <1>2, <2>1, <2>3, <2>4, <2>5, <2>6, <2>7, <2>8 DEF Next, StartAccepted, StartNotScheduled
<1>3. TypeOK /\ ActiveIsServed /\ [Next]_vars => ActiveIsServed'
  BY <1>2 DEF ActiveIsServed, Served
<1> QED BY <1>1, <1>3, TypeCorrect, PTL DEF Spec

-----------------------------------------------------------------------------
(* The tracker beside the jobs *)

\* The tracked job, if any, and the job that a poll in flight asks about have an
\* id: there is no row 0.
AskedInv ==
  /\ tracked # NoJob => tracked.job \in JobIds
  /\ \A p \in PollIds : polls[p].phase # "free" => polls[p].job \in JobIds

\* A promise is registered under the id of its own run's job.
PromiseRuns ==
  \A j \in JobIds :
    resolver[j] # None => run[resolver[j]].job = j /\ run[resolver[j]].phase # "idle"

\* As long as the row of that id stays with the run, it is the run's own.
PromiseIsOwners ==
  \A j \in JobIds :
    (resolver[j] # None /\ jobs[j] # NoRow)
      => jobs[j].owner = resolver[j] \/ j \in beside[resolver[j]]

\* The verdict that a poll brings is one of the run whose promise it would settle.
BringsOwn(p) ==
  LET j == polls[p].job
  IN  /\ (/\ polls[p].phase \in {"answered", "syncing"}
          /\ polls[p].status \in Verdicts
          /\ resolver[j] # None)
            => polls[p].by \in {resolver[j]} \cup disowned \/ j \in beside[resolver[j]]
      /\ polls[p].phase = "syncing" => polls[p].status = "completed"
AnswerIsOwn == \A p \in PollIds : BringsOwn(p)

\* Only a run that was started has an outcome.
OutcomeOfStarted ==
  \A r \in RunIds : outcome[r].status # "none" => run[r].phase # "idle"

OwnInv == PromiseRuns /\ PromiseIsOwners /\ AnswerIsOwn /\ OutcomeOfStarted /\ OutcomeIsOwn

USE PollsAssumption, NoEventAssumption, EventsAssumption

\* Every step of the application with its page is one of the jobs, or leaves
\* them alone.
LEMMA JobSteps == [TrackerNext]_allVars => [Next]_vars
<1> SUFFICES ASSUME [TrackerNext]_allVars PROVE [Next]_vars
  OBVIOUS
<1>1. ASSUME NEW e \in Events, NEW d \in Days, StartTracked(e, d) PROVE Next
  BY <1>1 DEF StartTracked, Next
<1>2. ASSUME NEW p \in PollIds,
             \/ AskStatus(p) \/ StatusAnswered(p) \/ PollFails(p) \/ CompletedSeen(p)
             \/ SyncEnds(p) \/ CompletedAgain(p) \/ InconclusiveSeen(p)
             \/ InconclusiveAgain(p) \/ FailureSeen(p)
      PROVE  UNCHANGED vars
  BY <1>2 DEF AskStatus, StatusAnswered, PollFails, CompletedSeen, SyncEnds, CompletedAgain,
              InconclusiveSeen, InconclusiveAgain, FailureSeen
<1>3. CASE Reload \/ Relaunch
  BY <1>3 DEF Reload, Relaunch, Next
<1>4. CASE Background
  BY <1>4 DEF Background, Next
<1>5. CASE SelectEvent \/ (\E e \in Events : InstancesArrive(e)) \/ UNCHANGED allVars
  BY <1>5 DEF SelectEvent, InstancesArrive, allVars
<1> QED BY <1>1, <1>2, <1>3, <1>4, <1>5 DEF TrackerNext

\* So what is proved of the jobs holds with the page beside them.
THEOREM TrackerKeepsJobs == TrackerSpec => Spec
<1>1. TrackerInit => Init
  BY DEF TrackerInit
<1> QED BY <1>1, JobSteps, PTL DEF TrackerSpec, Spec

-----------------------------------------------------------------------------
(* The types *)

\* The statuses that end a job, and those of a row.
LEMMA StatusFacts ==
  /\ Imported \in RunIds \cup {Imported} /\ "failed" \in Statuses
  /\ Verdicts \subseteq FinalStatuses /\ "failed" \in FinalStatuses
BY DEF Statuses, FinalStatuses

\* A poll that is over leaves a well-formed record, and so does the end of a
\* tracking.
LEMMA FreePollType == FreePoll \in Poll /\ NoJob \in Tracked
<1>1. AnyEvent \in Events
  BY DEF AnyEvent
<1> QED BY <1>1, StatusFacts DEF FreePoll, Poll, NoJob, Tracked

\* So does dropping one of the polls.
LEMMA DropPollType ==
  ASSUME polls \in [PollIds -> Poll], NEW p \in PollIds, DropPoll(p)
  PROVE  polls' \in [PollIds -> Poll]
BY FreePollType DEF DropPoll

\* Settling a promise, if there is one, keeps the map and the outcomes.
LEMMA SettleType ==
  ASSUME resolver \in [JobIds -> RunIds \cup {None}], outcome \in [RunIds -> Outcome],
         NEW j \in JobIds \cup {None}, NEW status \in FinalStatuses,
         NEW by \in RunIds \cup {Imported}, Settle(j, status, by)
  PROVE  /\ resolver' \in [JobIds -> RunIds \cup {None}]
         /\ outcome' \in [RunIds -> Outcome]
<1>1. resolver' \in [JobIds -> RunIds \cup {None}]
  BY DEF Settle
<1>2. [status |-> status, by |-> by] \in Outcome
  BY DEF Outcome
<1>3. outcome' \in [RunIds -> Outcome]
  BY <1>2 DEF Settle
<1> QED BY <1>1, <1>3

\* A start tracks a job of the table.
LEMMA StartType ==
  ASSUME TypeOK, TypeOK', TrackerTypeOK, AskedInv, NEW e \in Events, NEW d \in Days,
         StartTracked(e, d)
  PROVE  TrackerTypeOK'
<1>1. PICK r \in RunIds :
        /\ tracked' = [job |-> run'[r].job, event |-> e]
        /\ resolver' = [resolver EXCEPT ![run'[r].job] = r]
        /\ outcome' = [outcome EXCEPT ![r].status = "waiting"]
        /\ beside' = [beside EXCEPT ![r] = AskedAbout]
  BY DEF StartTracked
<1>2. tracked' \in Tracked
  BY <1>1 DEF TypeOK, None, Tracked
<1>5. beside' \in [RunIds -> SUBSET JobIds]
  BY <1>1 DEF TrackerTypeOK, AskedInv, AskedAbout
<1>3. [outcome[r] EXCEPT !.status = "waiting"] \in Outcome
  BY DEF TrackerTypeOK, Outcome
<1>4. outcome' \in [RunIds -> Outcome]
  BY <1>1, <1>3 DEF TrackerTypeOK
<1> QED BY <1>1, <1>2, <1>4, <1>5 DEF TrackerTypeOK, StartTracked

\* What an accepted start did: a fresh run got a row, and the page tracks it.
LEMMA Started ==
  ASSUME TypeOK, TrackerTypeOK, NEW e \in Events, NEW d \in Days, StartTracked(e, d)
  PROVE  \E r \in RunIds, n \in JobIds :
           /\ run[r].phase = "idle"
           /\ run' = [run EXCEPT ![r] = [job |-> n, phase |-> "scheduled"]]
           /\ jobs' = [WithoutOldJob(e, d) EXCEPT ![n] =
                         [event |-> e, day |-> d, status |-> "pending",
                          owner |-> r, result |-> NoResult]]
           /\ tracked' = [job |-> n, event |-> e]
           /\ resolver' = [resolver EXCEPT ![n] = r]
           /\ outcome' = [outcome EXCEPT ![r].status = "waiting"]
           /\ beside' = [beside EXCEPT ![r] = AskedAbout]
           /\ UNCHANGED <<polls, disowned>>
<1>1. PICK s \in RunIds, n \in JobIds :
        /\ run[s].phase = "idle"
        /\ jobs' = [WithoutOldJob(e, d) EXCEPT ![n] =
                      [event |-> e, day |-> d, status |-> "pending",
                       owner |-> s, result |-> NoResult]]
        /\ run' = [run EXCEPT ![s] = [job |-> n, phase |-> "scheduled"]]
  BY DEF StartTracked, StartAccepted, IsNextRun, InsertPending
<1>2. PICK r \in RunIds :
        /\ run[r] # run'[r]
        /\ tracked' = [job |-> run'[r].job, event |-> e]
        /\ resolver' = [resolver EXCEPT ![run'[r].job] = r]
        /\ outcome' = [outcome EXCEPT ![r].status = "waiting"]
        /\ beside' = [beside EXCEPT ![r] = AskedAbout]
  BY DEF StartTracked
<1>3. r = s /\ run'[r].job = n
  BY <1>1, <1>2 DEF TypeOK
<1> QED BY <1>1, <1>2, <1>3 DEF StartTracked, StartAccepted

\* A poll is sent only for a tracked job.
LEMMA AskedStep ==
  ASSUME TypeOK, TrackerTypeOK, AskedInv, [TrackerNext]_allVars
  PROVE  AskedInv'
<1>1. polls \in [PollIds -> Poll]
  BY DEF TrackerTypeOK
<1>2. ASSUME NEW p \in PollIds, DropPoll(p), tracked' \in {tracked, NoJob} PROVE AskedInv'
  BY <1>1, <1>2 DEF AskedInv, DropPoll, FreePoll
<1>3. ASSUME NEW p \in PollIds, AskStatus(p) PROVE AskedInv'
  BY <1>1, <1>3 DEF AskedInv, AskStatus, TrackerTypeOK, Poll, Tracked
<1>4. ASSUME NEW p \in PollIds, StatusAnswered(p) PROVE AskedInv'
  <2>1. UNCHANGED tracked /\ polls[p].phase = "asked"
    BY <1>4 DEF StatusAnswered
  <2>2. CASE DropPoll(p)
    BY <1>2, <2>1, <2>2
  <2>3. CASE ~DropPoll(p)
    <3>1. polls' = [polls EXCEPT ![p] = [polls[p] EXCEPT !.phase = "answered",
                                           !.status = jobs[polls[p].job].status,
                                           !.by = jobs[polls[p].job].result.by]]
      BY <1>4, <2>3 DEF StatusAnswered
    <3>2. polls'[p].job = polls[p].job /\ \A q \in PollIds \ {p} : polls'[q] = polls[q]
      BY <1>1, <3>1 DEF Poll
    <3> QED BY <2>1, <3>2 DEF AskedInv
  <2> QED BY <2>2, <2>3
<1>5. ASSUME NEW p \in PollIds, CompletedSeen(p) PROVE AskedInv'
  BY <1>1, <1>2, <1>5 DEF AskedInv, CompletedSeen, Poll
<1>6. ASSUME NEW p \in PollIds,
             \/ PollFails(p) \/ SyncEnds(p) \/ CompletedAgain(p) \/ InconclusiveSeen(p)
             \/ InconclusiveAgain(p) \/ FailureSeen(p)
      PROVE  AskedInv'
  BY <1>2, <1>6 DEF PollFails, SyncEnds, CompletedAgain, InconclusiveSeen, InconclusiveAgain,
                    FailureSeen
<1>7. CASE Reload \/ Relaunch
  BY <1>7 DEF Reload, Relaunch, TrackerReset, AskedInv, FreePoll
<1>8. ASSUME NEW e \in Events, NEW d \in Days, StartTracked(e, d) PROVE AskedInv'
  BY <1>8, Started DEF AskedInv
<1>9. CASE SelectEvent \/ (\E e \in Events : InstancesArrive(e)) \/ Background \/ UNCHANGED allVars
  <2>1. UNCHANGED <<tracked, polls>>
    BY <1>9 DEF SelectEvent, InstancesArrive, Background, trackerVars, allVars
  <2> QED BY <2>1 DEF AskedInv
<1> QED BY <1>3, <1>4, <1>5, <1>6, <1>7, <1>8, <1>9 DEF TrackerNext

\* The steps of a poll keep the types; the answer to one is read from a row.
LEMMA PollType ==
  ASSUME TypeOK, TrackerTypeOK, AskedInv, NEW p \in PollIds,
         \/ AskStatus(p) \/ StatusAnswered(p) \/ PollFails(p) \/ CompletedSeen(p)
         \/ SyncEnds(p) \/ CompletedAgain(p) \/ InconclusiveSeen(p)
         \/ InconclusiveAgain(p) \/ FailureSeen(p)
  PROVE  TrackerTypeOK'
<1> DEFINE c == polls[p]
<1>1. /\ polls \in [PollIds -> Poll] /\ c \in Poll /\ c.job \in JobIds \cup {None}
      /\ c.by \in RunIds \cup {Imported} /\ c.event \in Events
      /\ resolver \in [JobIds -> RunIds \cup {None}] /\ outcome \in [RunIds -> Outcome]
  BY DEF TrackerTypeOK, Poll
<1>2. NoJob \in Tracked
  BY FreePollType
<1>3. ASSUME DropPoll(p) PROVE polls' \in [PollIds -> Poll]
  BY <1>1, <1>3, DropPollType
<1>4. ASSUME NEW status \in FinalStatuses, Settle(c.job, status, c.by)
      PROVE  resolver' \in [JobIds -> RunIds \cup {None}] /\ outcome' \in [RunIds -> Outcome]
  BY <1>1, <1>4, SettleType
<1> HIDE DEF c
<1>5. CASE AskStatus(p)
  <2>1. polls' = [polls EXCEPT ![p] = [@ EXCEPT !.phase = "asked", !.job = tracked.job,
                                                !.event = tracked.event]]
    BY <1>5 DEF AskStatus
  <2>2. tracked.job \in JobIds \cup {None} /\ tracked.event \in Events
    BY DEF TrackerTypeOK, Tracked
  <2>3. polls' \in [PollIds -> Poll]
    BY <1>1, <2>1, <2>2 DEF Poll
  <2> QED BY <1>5, <2>3 DEF AskStatus, TrackerTypeOK, vars
<1>6. CASE StatusAnswered(p)
  <2>1. polls' \in [PollIds -> Poll]
    <3>1. CASE DropPoll(p)
      BY <1>3, <3>1
    <3>2. CASE /\ Exists(c.job)
               /\ polls' = [polls EXCEPT ![p] =
                              [@ EXCEPT !.phase = "answered", !.status = jobs[c.job].status,
                                        !.by = jobs[c.job].result.by]]
               /\ c.job \in JobIds
      <4>1. jobs[c.job] \in Row
        BY <3>2 DEF TypeOK, Exists
      <4>2. jobs[c.job].status \in Statuses /\ jobs[c.job].result.by \in RunIds \cup {Imported}
        BY <4>1 DEF Row, Result
      <4> QED BY <1>1, <3>2, <4>2 DEF Poll
    <3>3. c.job \in JobIds
      BY <1>6 DEF AskedInv, StatusAnswered, c
    <3> QED BY <1>6, <3>1, <3>2, <3>3 DEF StatusAnswered, c
  <2> QED BY <1>6, <2>1 DEF StatusAnswered, TrackerTypeOK
<1>7. CASE PollFails(p) \/ InconclusiveAgain(p)
  <2>1. DropPoll(p) /\ UNCHANGED <<tracked, processed, resolver, outcome, applied, held, beside>>
    BY <1>7 DEF PollFails, InconclusiveAgain
  <2> QED BY <1>3, <2>1 DEF TrackerTypeOK
<1>8. ASSUME NEW status \in FinalStatuses, Settle(c.job, status, c.by), DropPoll(p),
             tracked' = NoJob, UNCHANGED <<held, beside>>,
             processed' \in {processed, c.job},
             applied' \in {applied, applied \cup {c.by}}
      PROVE  TrackerTypeOK'
  BY <1>1, <1>2, <1>3, <1>4, <1>8 DEF TrackerTypeOK
<1>9. CASE CompletedSeen(p)
  <2>1. "completed" \in FinalStatuses
    BY DEF FinalStatuses, Verdicts
  <2>2. CASE held = c.event
    <3>1. /\ polls' = [polls EXCEPT ![p].phase = "syncing"] /\ processed' = c.job
          /\ UNCHANGED <<tracked, resolver, outcome, applied, held, beside>>
      BY <1>9, <2>2 DEF CompletedSeen, c
    <3>2. polls' \in [PollIds -> Poll]
      BY <1>1, <3>1 DEF Poll, c
    <3> QED BY <1>1, <3>1, <3>2 DEF TrackerTypeOK
  <2>3. CASE held # c.event
    BY <1>8, <1>9, <2>1, <2>3 DEF CompletedSeen, c
  <2> QED BY <2>2, <2>3
<1>10. CASE SyncEnds(p)
  <2>1. {"completed", "failed"} \subseteq FinalStatuses
    BY DEF FinalStatuses, Verdicts
  <2> QED BY <1>8, <1>10, <2>1 DEF SyncEnds, c
<1>11. CASE CompletedAgain(p)
  BY <1>2, <1>3, <1>11 DEF CompletedAgain, TrackerTypeOK
<1>12. CASE InconclusiveSeen(p)
  <2>1. c.status \in FinalStatuses
    BY <1>12 DEF InconclusiveSeen, FinalStatuses, Verdicts, c
  <2> QED BY <1>8, <1>12, <2>1 DEF InconclusiveSeen, c
<1>13. CASE FailureSeen(p)
  BY <1>8, <1>13, StatusFacts DEF FailureSeen, c
<1> QED BY <1>5, <1>6, <1>7, <1>9, <1>10, <1>11, <1>12, <1>13

\* So does the end of the page.
LEMMA ResetType ==
  ASSUME TrackerTypeOK, TrackerReset
  PROVE  TrackerTypeOK'
<1>1. FreePoll \in Poll /\ NoJob \in Tracked
  BY FreePollType
<1>2. \A r \in RunIds : [outcome[r] EXCEPT !.status = "gone"] \in Outcome
  BY DEF TrackerTypeOK, Outcome
<1>3. outcome' \in [RunIds -> Outcome]
  BY <1>2 DEF TrackerTypeOK, TrackerReset
<1> QED BY <1>1, <1>3 DEF TrackerTypeOK, TrackerReset

\* The page begins with a well-formed tracker.
LEMMA TrackerTypeInit == TrackerInit => TrackerTypeOK
<1> SUFFICES ASSUME TrackerInit PROVE TrackerTypeOK
  OBVIOUS
<1>1. FreePoll \in Poll /\ NoJob \in Tracked
  BY FreePollType
<1>2. [status |-> "none", by |-> Imported] \in Outcome
  BY DEF Outcome
<1> QED BY <1>1, <1>2 DEF TrackerInit, TrackerTypeOK

\* And every step keeps it.
LEMMA TrackerTypeStep ==
  ASSUME TypeOK, TypeOK', TrackerTypeOK, AskedInv, [TrackerNext]_allVars
  PROVE  TrackerTypeOK'
<1>1. CASE SelectEvent \/ (\E e \in Events : InstancesArrive(e)) \/ UNCHANGED allVars
  BY <1>1 DEF SelectEvent, InstancesArrive, trackerVars, allVars, TrackerTypeOK
<1>3. CASE Background
  <2>1. beside' \in [RunIds -> SUBSET JobIds]
    BY <1>3 DEF Background, GivenAway, TrackerTypeOK
  <2> QED BY <1>3, <2>1 DEF Background, TrackerTypeOK
<1>2. CASE Reload \/ Relaunch
  BY <1>2, ResetType DEF Reload, Relaunch
<1> QED BY <1>1, <1>2, <1>3, StartType, PollType DEF TrackerNext

\* The tracker, its promises and its polls keep their shape, for any number of
\* polls in flight, and each poll in flight asks about a job.
THEOREM TrackerTypeCorrect == TrackerSpec => [](TrackerTypeOK /\ AskedInv)
<1>1. TrackerInit => AskedInv
  BY DEF TrackerInit, AskedInv, FreePoll
<1>2. TypeOK /\ TypeOK' /\ TrackerTypeOK /\ AskedInv /\ [TrackerNext]_allVars
        => (TrackerTypeOK /\ AskedInv)'
  BY TrackerTypeStep, AskedStep
<1> QED BY <1>1, <1>2, TrackerTypeInit, TrackerKeepsJobs, TypeCorrect, PTL DEF TrackerSpec

-----------------------------------------------------------------------------
(* What the promises report *)

\* A step of the jobs leaves started runs started, under their ids.
LEMMA StartedStay ==
  ASSUME TypeOK, TrackerTypeOK, OwnInv, [Next]_vars
  PROVE  /\ disowned \subseteq disowned'
         /\ \A j \in JobIds :
              resolver[j] # None => run'[resolver[j]].job = j /\ run'[resolver[j]].phase # "idle"
         /\ \A r \in RunIds :
              outcome[r].status # "none" => run'[r].phase # "idle" /\ run'[r].job = run[r].job
<1>1. \A j \in JobIds : resolver[j] \in RunIds \cup {None}
  BY DEF TrackerTypeOK
<1>2. disowned \subseteq disowned'
  BY DisownedGrows
<1> QED BY <1>1, <1>2, RunsStayStarted DEF OwnInv, PromiseRuns, OutcomeOfStarted

\* What leaves the promises and the polls alone asks only that a row given to
\* another job is noted.
LEMMA OwnUndisturbed ==
  ASSUME TypeOK, TrackerTypeOK, AskedInv, OwnInv, [Next]_vars,
         UNCHANGED <<resolver, outcome, polls>>,
         \A r \in RunIds : beside[r] \subseteq beside'[r],
         \A j \in GivenAway : resolver[j] # None => j \in beside'[resolver[j]]
  PROVE  OwnInv'
<1>1. \A j \in JobIds : resolver[j] \in RunIds \cup {None}
  BY DEF TrackerTypeOK
<1>2. PromiseRuns' /\ OutcomeOfStarted'
  BY StartedStay DEF PromiseRuns, OutcomeOfStarted
<1>3. PromiseIsOwners'
  BY <1>1 DEF OwnInv, PromiseIsOwners, GivenAway
<1>4. AnswerIsOwn'
  BY <1>1, StartedStay DEF OwnInv, AnswerIsOwn, BringsOwn, AskedInv
<1>5. OutcomeIsOwn'
  <2>1. "none" \notin Verdicts
    BY DEF Verdicts
  <2> QED BY <2>1, StartedStay DEF OwnInv, OutcomeIsOwn
<1> QED BY <1>2, <1>3, <1>4, <1>5 DEF OwnInv

\* A page without promises and polls has only the outcomes of before.
LEMMA OwnCleared ==
  ASSUME \A j \in JobIds : resolver'[j] = None, \A p \in PollIds : polls'[p].phase = "free",
         OutcomeOfStarted', OutcomeIsOwn'
  PROVE  OwnInv'
BY DEF OwnInv, PromiseRuns, PromiseIsOwners, AnswerIsOwn, BringsOwn

\* The end of the page keeps the outcomes.
LEMMA OwnReset ==
  ASSUME TypeOK, TrackerTypeOK, OwnInv, [Next]_vars, TrackerReset
  PROVE  OwnInv'
<1>1. /\ "none" \notin Verdicts /\ "gone" \notin Verdicts
      /\ \A r \in RunIds : \/ outcome'[r] = outcome[r]
                           \/ outcome[r].status = "waiting" /\ outcome'[r].status = "gone"
  BY DEF Verdicts, TrackerReset, TrackerTypeOK, Outcome
<1>2. OutcomeOfStarted' /\ OutcomeIsOwn'
  BY <1>1, StartedStay DEF TrackerReset, OwnInv, OutcomeOfStarted, OutcomeIsOwn
<1> QED BY <1>2, OwnCleared DEF TrackerReset, FreePoll

\* The poll settles the promise of the run whose answer it brings.
LEMMA OwnSettled ==
  ASSUME TrackerTypeOK, AskedInv, OwnInv, UNCHANGED <<vars, beside>>, NEW p \in PollIds, NEW status,
         polls[p].phase \in {"answered", "syncing"},
         status \in Verdicts => polls[p].status \in Verdicts,
         Settle(polls[p].job, status, polls[p].by)
  PROVE  OutcomeIsOwn' /\ OutcomeOfStarted'
<1> DEFINE j == polls[p].job
           r == resolver[j]
<1>1. j \in JobIds /\ r \in RunIds \cup {None} /\ outcome \in [RunIds -> Outcome]
  BY DEF TrackerTypeOK, AskedInv
<1>2. UNCHANGED <<run, disowned>>
  BY DEF vars
<1>3. CASE r = None
  BY <1>2, <1>3 DEF Settle, OwnInv, OutcomeIsOwn, OutcomeOfStarted
<1>4. CASE r # None
  <2>1. status \in Verdicts => polls[p].by \in {r} \cup disowned \/ j \in beside[r]
    BY <1>4 DEF OwnInv, AnswerIsOwn, BringsOwn
  <2>2. run[r].job = j /\ run[r].phase # "idle"
    BY <1>1, <1>4 DEF OwnInv, PromiseRuns
  <2>3. outcome' = [outcome EXCEPT ![r] = [status |-> status, by |-> polls[p].by]]
    BY <1>4 DEF Settle
  <2> HIDE DEF r, j
  <2> QED BY <1>1, <1>2, <1>4, <2>1, <2>2, <2>3 DEF OwnInv, OutcomeIsOwn, OutcomeOfStarted
<1> QED BY <1>3, <1>4

\* What a poll does to the promises and the polls: some promise may be taken
\* from the map, and the poll is dropped or goes on with what it brought.
LEMMA OwnPolled ==
  ASSUME TrackerTypeOK, AskedInv, OwnInv, UNCHANGED <<vars, beside>>,
         \A j \in JobIds : resolver'[j] \in {resolver[j], None},
         \A q \in PollIds : polls'[q].phase = "free" \/ polls'[q] = polls[q] \/ BringsOwn(q)',
         OutcomeOfStarted', OutcomeIsOwn'
  PROVE  OwnInv'
<1>1. UNCHANGED <<run, jobs, disowned>>
  BY DEF vars
<1>2. PromiseRuns' /\ PromiseIsOwners'
  BY <1>1 DEF OwnInv, PromiseRuns, PromiseIsOwners
<1>3. AnswerIsOwn'
  <2> SUFFICES ASSUME NEW q \in PollIds PROVE BringsOwn(q)'
    BY DEF AnswerIsOwn
  <2>1. CASE polls'[q].phase = "free"
    BY <2>1 DEF BringsOwn
  <2>2. CASE polls'[q] = polls[q] /\ polls[q].phase # "free"
    BY <1>1, <2>2 DEF OwnInv, AnswerIsOwn, BringsOwn, AskedInv
  <2> QED BY <2>1, <2>2
<1> QED BY <1>2, <1>3 DEF OwnInv

\* A job that is started has its promise under its id, and a poll that was
\* asking about that id is noted.
LEMMA OwnStarted ==
  ASSUME TypeOK, TrackerTypeOK, AskedInv, OwnInv, NEW e \in Events, NEW d \in Days,
         StartTracked(e, d)
  PROVE  OwnInv'
<1>1. PICK r \in RunIds, n \in JobIds :
        /\ run[r].phase = "idle"
        /\ run' = [run EXCEPT ![r] = [job |-> n, phase |-> "scheduled"]]
        /\ jobs' = [WithoutOldJob(e, d) EXCEPT ![n] =
                      [event |-> e, day |-> d, status |-> "pending",
                       owner |-> r, result |-> NoResult]]
        /\ tracked' = [job |-> n, event |-> e]
        /\ resolver' = [resolver EXCEPT ![n] = r]
        /\ outcome' = [outcome EXCEPT ![r].status = "waiting"]
        /\ beside' = [beside EXCEPT ![r] = AskedAbout]
        /\ UNCHANGED <<polls, disowned>>
  BY Started
<1>2. r # None
  BY DEF None, RunIds
<1>3. /\ resolver'[n] = r /\ \A j \in JobIds \ {n} : resolver'[j] = resolver[j]
      /\ beside'[r] = AskedAbout /\ \A q \in RunIds \ {r} : beside'[q] = beside[q]
      /\ run'[r].job = n /\ run'[r].phase = "scheduled"
      /\ \A q \in RunIds \ {r} : run'[q] = run[q] /\ outcome'[q] = outcome[q]
  BY <1>1 DEF TypeOK, TrackerTypeOK
<1>4. \A j \in JobIds : resolver[j] # None => resolver[j] \in RunIds \ {r}
  BY <1>1 DEF OwnInv, PromiseRuns, TrackerTypeOK
<1>5. PromiseRuns'
  BY <1>3, <1>4 DEF OwnInv, PromiseRuns
<1>6. PromiseIsOwners'
  <2>1. jobs'[n].owner = r
    BY <1>1, WithoutOldJobType
  <2>2. \A j \in JobIds \ {n} : jobs'[j] # NoRow => jobs'[j] = jobs[j]
    BY <1>1 DEF WithoutOldJob, TypeOK
  <2> QED BY <1>3, <1>4, <2>1, <2>2 DEF OwnInv, PromiseIsOwners
<1>7. AnswerIsOwn'
  <2> SUFFICES ASSUME NEW p \in PollIds PROVE BringsOwn(p)'
    BY DEF AnswerIsOwn
  <2>1. CASE polls[p].phase # "free" /\ polls[p].job = n
    <3>1. n \in AskedAbout
      BY <2>1 DEF AskedAbout
    <3> QED BY <1>1, <1>3, <2>1, <3>1 DEF OwnInv, AnswerIsOwn, BringsOwn
  <2>2. CASE polls[p].phase # "free" /\ polls[p].job # n
    <3>1. polls[p].job \in JobIds \ {n}
      BY <2>2 DEF AskedInv
    <3> QED BY <1>1, <1>3, <1>4, <2>2, <3>1 DEF OwnInv, AnswerIsOwn, BringsOwn
  <2>3. CASE polls[p].phase = "free"
    BY <1>1, <2>3 DEF BringsOwn
  <2> QED BY <2>1, <2>2, <2>3
<1>8. OutcomeOfStarted' /\ OutcomeIsOwn'
  <2>1. outcome'[r].status = "waiting" /\ "waiting" \notin Verdicts
    BY <1>1 DEF Verdicts, TrackerTypeOK, Outcome
  <2> QED BY <1>1, <1>3, <2>1 DEF OwnInv, OutcomeOfStarted, OutcomeIsOwn
<1> QED BY <1>5, <1>6, <1>7, <1>8 DEF OwnInv

\* The backend answers with the verdict of the run that owns the row, or of one
\* that lost its own.
LEMMA OwnAnswered ==
  ASSUME TypeOK, TrackerTypeOK, AskedInv, ResultProvenance, VerdictHasResult, OwnInv,
         NEW p \in PollIds, StatusAnswered(p)
  PROVE  OwnInv'
<1> DEFINE j == polls[p].job
<1>1. /\ UNCHANGED <<vars, beside>> /\ UNCHANGED <<resolver, outcome, jobs, run, disowned>>
      /\ polls[p].phase = "asked"
  BY DEF StatusAnswered, vars
<1>2. j \in JobIds /\ polls \in [PollIds -> Poll]
  BY <1>1 DEF AskedInv, TrackerTypeOK
<1>3. OutcomeOfStarted' /\ OutcomeIsOwn'
  BY <1>1 DEF OwnInv, OutcomeOfStarted, OutcomeIsOwn
<1>4. ASSUME \A q \in PollIds : polls'[q].phase = "free" \/ polls'[q] = polls[q] \/ BringsOwn(q)'
      PROVE  OwnInv'
  BY <1>1, <1>3, <1>4, OwnPolled
<1>5. CASE DropPoll(p)
  BY <1>2, <1>4, <1>5 DEF DropPoll, FreePoll
<1>6. CASE /\ Exists(j)
           /\ polls' = [polls EXCEPT ![p] =
                          [@ EXCEPT !.phase = "answered", !.status = jobs[j].status,
                                    !.by = jobs[j].result.by]]
  <2>1. /\ polls'[p].phase = "answered" /\ polls'[p].job = j
        /\ polls'[p].status = jobs[j].status /\ polls'[p].by = jobs[j].result.by
    BY <1>2, <1>6 DEF Poll
  <2>2. ASSUME jobs[j].status \in Verdicts, resolver[j] # None
        PROVE  jobs[j].result.by \in {resolver[j]} \cup disowned \/ j \in beside[resolver[j]]
    <3>1. jobs[j].owner = resolver[j] \/ j \in beside[resolver[j]]
      BY <1>2, <1>6, <2>2 DEF OwnInv, PromiseIsOwners, Exists
    <3>2. jobs[j].result.verdict = jobs[j].status
      BY <1>2, <1>6, <2>2 DEF VerdictHasResult
    <3>3. jobs[j].result # NoResult
      BY <2>2, <3>2 DEF NoResult, Verdicts
    <3> QED BY <1>2, <1>6, <3>1, <3>3 DEF ResultProvenance
  <2>3. BringsOwn(p)'
    BY <1>1, <2>1, <2>2 DEF BringsOwn
  <2> QED BY <1>2, <1>4, <1>6, <2>3
<1> QED BY <1>5, <1>6 DEF StatusAnswered

\* The page handles the answer.
LEMMA OwnHandled ==
  ASSUME TrackerTypeOK, AskedInv, OwnInv, NEW p \in PollIds,
         \/ CompletedSeen(p) \/ SyncEnds(p) \/ CompletedAgain(p) \/ InconclusiveSeen(p)
         \/ InconclusiveAgain(p) \/ FailureSeen(p)
  PROVE  OwnInv'
<1>1. /\ polls \in [PollIds -> Poll] /\ UNCHANGED <<vars, beside>>
      /\ UNCHANGED <<run, disowned>>
  BY DEF TrackerTypeOK, vars, CompletedSeen, SyncEnds, CompletedAgain, InconclusiveSeen,
         InconclusiveAgain, FailureSeen
<1>2. ASSUME NEW status, DropPoll(p), polls[p].phase \in {"answered", "syncing"},
             status \in Verdicts => polls[p].status \in Verdicts,
             Settle(polls[p].job, status, polls[p].by)
      PROVE  OwnInv'
  <2>1. OutcomeIsOwn' /\ OutcomeOfStarted'
    BY <1>1, <1>2, OwnSettled
  <2>2. \A j \in JobIds : resolver'[j] \in {resolver[j], None}
    BY <1>2 DEF Settle, TrackerTypeOK
  <2> QED BY <1>1, <1>2, <2>1, <2>2, OwnPolled DEF DropPoll, FreePoll
<1>3. "completed" \in Verdicts /\ "failed" \notin Verdicts
  BY DEF Verdicts
<1>4. ASSUME UNCHANGED <<resolver, outcome>>,
             \A q \in PollIds : polls'[q].phase = "free" \/ polls'[q] = polls[q] \/ BringsOwn(q)'
      PROVE  OwnInv'
  <2>1. OutcomeIsOwn' /\ OutcomeOfStarted'
    BY <1>1, <1>4 DEF OwnInv, OutcomeIsOwn, OutcomeOfStarted
  <2> QED BY <1>1, <1>4, <2>1, OwnPolled
<1>5. CASE CompletedSeen(p)
  <2>1. CASE held = polls[p].event
    <3>1. polls' = [polls EXCEPT ![p].phase = "syncing"] /\ UNCHANGED <<resolver, outcome>>
      BY <1>5, <2>1 DEF CompletedSeen
    <3>2. /\ polls'[p].phase = "syncing" /\ polls'[p].status = "completed"
          /\ polls'[p].job = polls[p].job /\ polls'[p].by = polls[p].by
          /\ polls[p].phase = "answered" /\ polls[p].status = "completed"
      BY <1>1, <1>5, <3>1 DEF CompletedSeen, Poll
    <3>3. BringsOwn(p)'
      BY <1>1, <1>3, <3>1, <3>2 DEF OwnInv, AnswerIsOwn, BringsOwn
    <3> QED BY <1>1, <1>4, <3>1, <3>3
  <2>2. CASE held # polls[p].event
    BY <1>2, <1>3, <1>5, <2>2 DEF CompletedSeen
  <2> QED BY <2>1, <2>2
<1>6. CASE SyncEnds(p)
  <2>1. polls[p].phase = "syncing" /\ polls[p].status = "completed"
    BY <1>6 DEF SyncEnds, OwnInv, AnswerIsOwn, BringsOwn
  <2>2. PICK status \in {"completed", "failed"} : Settle(polls[p].job, status, polls[p].by)
    BY <1>6 DEF SyncEnds
  <2> QED BY <1>2, <1>3, <1>6, <2>1, <2>2 DEF SyncEnds
<1>7. CASE CompletedAgain(p) \/ InconclusiveAgain(p)
  BY <1>1, <1>4, <1>7 DEF CompletedAgain, InconclusiveAgain, DropPoll, FreePoll
<1>8. CASE InconclusiveSeen(p)
  BY <1>2, <1>8 DEF InconclusiveSeen
<1>9. CASE FailureSeen(p)
  BY <1>2, <1>3, <1>9 DEF FailureSeen
<1> QED BY <1>5, <1>6, <1>7, <1>8, <1>9

\* Every step keeps what relates polls, promises and rows.
LEMMA OwnStep ==
  ASSUME TypeOK, TrackerTypeOK, AskedInv, ResultProvenance, VerdictHasResult, OwnInv,
         [TrackerNext]_allVars
  PROVE  OwnInv'
<1>1. [Next]_vars
  BY JobSteps
<1>2. ASSUME NEW p \in PollIds, AskStatus(p) \/ PollFails(p) PROVE OwnInv'
  <2>1. /\ polls \in [PollIds -> Poll] /\ UNCHANGED <<vars, beside>>
        /\ UNCHANGED <<resolver, outcome, run, disowned>>
    BY <1>2 DEF TrackerTypeOK, AskStatus, PollFails, vars
  <2>2. polls'[p].phase \in {"free", "asked"} /\ \A q \in PollIds \ {p} : polls'[q] = polls[q]
    <3>1. CASE AskStatus(p)
      BY <2>1, <3>1 DEF AskStatus, Poll
    <3>2. CASE PollFails(p)
      BY <2>1, <3>2 DEF PollFails, DropPoll, FreePoll
    <3> QED BY <1>2, <3>1, <3>2
  <2>3. BringsOwn(p)'
    BY <2>2 DEF BringsOwn
  <2>4. OutcomeIsOwn' /\ OutcomeOfStarted'
    BY <2>1 DEF OwnInv, OutcomeIsOwn, OutcomeOfStarted
  <2> QED BY <2>1, <2>2, <2>3, <2>4, OwnPolled
<1>3. CASE Reload \/ Relaunch
  BY <1>1, <1>3, OwnReset DEF Reload, Relaunch
<1>4. CASE Background
  <2>1. /\ UNCHANGED <<resolver, outcome, polls>>
        /\ beside' = [r \in RunIds |-> beside[r] \cup {j \in GivenAway : resolver[j] = r}]
    BY <1>4 DEF Background
  <2>2. \A j \in GivenAway : resolver[j] # None => j \in beside'[resolver[j]]
    BY <2>1 DEF GivenAway, TrackerTypeOK
  <2> QED BY <1>1, <2>1, <2>2, OwnUndisturbed
<1>5. CASE SelectEvent \/ (\E e \in Events : InstancesArrive(e)) \/ UNCHANGED allVars
  <2>1. UNCHANGED <<resolver, outcome, polls, beside, jobs>>
    BY <1>5 DEF SelectEvent, InstancesArrive, allVars, trackerVars, vars
  <2>2. GivenAway = {}
    BY <2>1 DEF GivenAway
  <2> QED BY <1>1, <2>1, <2>2, OwnUndisturbed
<1> QED BY <1>2, <1>3, <1>4, <1>5, OwnStarted, OwnAnswered, OwnHandled DEF TrackerNext

\* It holds before anything is tracked.
LEMMA OwnInit == TrackerInit => OwnInv
<1> SUFFICES ASSUME TrackerInit PROVE OwnInv
  OBVIOUS
<1>1. "none" \notin Verdicts
  BY DEF Verdicts
<1> QED BY <1>1 DEF TrackerInit, OwnInv, PromiseRuns, PromiseIsOwners, AnswerIsOwn, BringsOwn,
                    OutcomeOfStarted, OutcomeIsOwn, FreePoll

\* The polls in flight, the promises registered under their ids and the owners
\* of the rows belong together, however many polls overlap.
THEOREM TrackerInvariant == TrackerSpec => []OwnInv
<1>1. /\ TypeOK /\ TrackerTypeOK /\ AskedInv /\ ResultProvenance /\ VerdictHasResult
      /\ OwnInv /\ [TrackerNext]_allVars
      => OwnInv'
  BY OwnStep
<1> QED BY <1>1, OwnInit, TrackerTypeCorrect, TrackerKeepsJobs, TypeCorrect, ResultsStayWithTheirJob,
           VerdictsAreBacked, PTL DEF TrackerSpec

\* A promise reports the verdict of its own run, though polls overlap and the
\* ids of jobs are used again; unless the run shared its id.
THEOREM OutcomesAreOwn == TrackerSpec => []OutcomeIsOwn
<1>1. OwnInv => OutcomeIsOwn
  BY DEF OwnInv
<1> QED BY <1>1, TrackerInvariant, PTL

\* A caller is told of a completion by the step that stores the result, or by a
\* poll that found no instances to store it in.
THEOREM CompletionsAreApplied == TrackerSpec => CompletionMeansApplied
<1>1. TrackerTypeOK /\ [TrackerNext]_allVars => [ToldInTime]_allVars
  <2> SUFFICES ASSUME TrackerTypeOK, TrackerNext, NEW r \in RunIds,
                      outcome[r].status # "completed", outcome'[r].status = "completed",
                      outcome'[r].by = r
               PROVE  r \in applied' \/ FoundNoInstances(r)
    BY DEF ToldInTime
  <2>1. outcome' # outcome
    OBVIOUS
  <2>2. PICK p \in PollIds :
          CompletedSeen(p) \/ SyncEnds(p) \/ InconclusiveSeen(p) \/ FailureSeen(p)
    <3>1. ~(\E e \in Events, d \in Days : StartTracked(e, d))
      BY DEF StartTracked, TrackerTypeOK, Outcome
    <3>2. ~Reload /\ ~Relaunch
      BY DEF Reload, Relaunch, TrackerReset, TrackerTypeOK, Outcome
    <3> QED BY <2>1, <3>1, <3>2
            DEF TrackerNext, AskStatus, StatusAnswered, PollFails, CompletedAgain,
                InconclusiveAgain, SelectEvent, InstancesArrive, Background
  <2>3. ASSUME NEW status, Settle(polls[p].job, status, polls[p].by)
        PROVE  status = "completed" /\ polls[p].by = r
    BY <2>3 DEF Settle, TrackerTypeOK
  <2>4. CASE CompletedSeen(p)
    <3>1. held # polls[p].event /\ Settle(polls[p].job, "completed", polls[p].by)
      BY <2>1, <2>4 DEF CompletedSeen
    <3> QED BY <2>3, <2>4, <3>1 DEF CompletedSeen, FoundNoInstances
  <2>5. CASE SyncEnds(p)
    BY <2>3, <2>5 DEF SyncEnds
  <2>6. CASE InconclusiveSeen(p)
    BY <2>3, <2>6 DEF InconclusiveSeen
  <2>7. CASE FailureSeen(p)
    BY <2>3, <2>7 DEF FailureSeen
  <2> QED BY <2>2, <2>4, <2>5, <2>6, <2>7
<1> QED BY <1>1, TrackerTypeCorrect, PTL DEF TrackerSpec, CompletionMeansApplied
=============================================================================
