------------------------------ MODULE FlowCheck ------------------------------
(***************************************************************************)
(* The page that edits the inputs of the optimiser (CMITab.tsx with        *)
(* flowCheckUtils.ts and allDaysOptimization.ts): the debounced automatic  *)
(* flow check of the day on show, the full check in front of an            *)
(* optimisation, the optimisation of one day or of all days in order, and  *)
(* what of it survives when the page is left and opened again.  A run is   *)
(* one click on the button; after every await it goes on with the          *)
(* callbacks of the render it was clicked in, while the checks read the    *)
(* task instances of the moment.                                           *)
(*                                                                         *)
(* The bounds: MaxRuns, the clicks; MaxTurns, the edits, changes of the    *)
(* day, departures from the page, deletions of the event's jobs and late   *)
(* polls.                                                                  *)
(***************************************************************************)
EXTENDS EventDays, Naturals, FiniteSets

CONSTANTS
  Contents,  \* what the tasks of a day can be, for the checks
  Initial,   \* the tasks that the page may find, by day
  MaxRuns

\* No tasks; only floating ones; feasible; feasible without the floating
\* ones only.
AllContents == {"none", "floating", "easy", "hard"}

ASSUME FlowAssumption ==
  MaxRuns \in Nat /\ Contents \subseteq AllContents /\ Initial \subseteq [Days -> Contents]

VARIABLES
  tasks,     \* contextInstances, by day
  ignored,   \* ignoredTaskIds: the days whose tasks are all left out
  mode,      \* getFlowCheckMode
  loaded,    \* are there persons and locations on the page
  day,       \* selectedDate
  armed,     \* does the timer of the automatic check run
  status,    \* flowCheckStatus
  toggling,  \* the day whose ignored tasks are being changed, or 0
  editing,   \* an edit that is not answered yet, or Nothing
  quick,     \* the automatic checks under way
  running,   \* optimiseAllRunning
  modal,     \* showOptimiseAllDays
  runs,
  tracked,   \* the run whose job the tracker polls, or NoRun
  job,       \* the last job of the backend: its end, and has it the id again that
             \* hasProcessedRef holds (both as far as the tracker asks)
  heard,     \* the days whose next job may get that id
  \* What the properties remember.
  shown,     \* what the status on show is a verdict about
  late       \* a full check was answered for another day or other tasks

page == <<loaded, day, armed, status, toggling, running, modal, shown>>
tracker == <<tracked, job, heard>>
flowVars == <<page, tasks, ignored, editing, mode, quick, runs, tracker, turns, late>>

Runs == 1..MaxRuns  \* in the order of the clicks
NoRun == 0
Nothing == [day |-> 0, tasks |-> "none"]
Over == [end |-> "failed", again |-> FALSE]
Solving == [end |-> "running", again |-> FALSE]

\* What the checks and the optimiser see of a day.
Scope(d, ign) == IF d \in ign /\ tasks[d] # "none" THEN "ignored" ELSE tasks[d]
ScopeNow == [d \in Days |-> Scope(d, ignored)]

Full(c) == IF c \in {"none", "ignored"} THEN "empty"
           ELSE IF c = "hard" THEN "invalid" ELSE "valid"
Quick(c) == IF c \in {"none", "ignored", "floating"} THEN "empty" ELSE "valid"
Verdicts == {"valid", "invalid", "empty"}

\* A check that cannot be carried out reports "invalid".
AutoVerdicts(c) ==
  {IF mode = "skip-floating" THEN Quick(c) ELSE Full(c), "invalid"}
FullVerdicts(c) == {Full(c), "invalid"}

\* from, snapshot, ignored: the day on show, the tasks and the ignored ones
\* at the click; checked: what the check of the run's day is about.
Run(kind, pc, at) ==
  [kind |-> kind, pc |-> pc, here |-> TRUE, day |-> at, from |-> day,
   snapshot |-> ScopeNow, ignored |-> ignored, checked |-> "none"]
Unclicked == [kind |-> "none", pc |-> "idle", here |-> FALSE, day |-> 1, from |-> 1,
              snapshot |-> [d \in Days |-> "none"], ignored |-> {}, checked |-> "none"]

FlowInit ==
  /\ tasks \in Initial /\ mode \in {"skip-floating", "always-full"}
  /\ ignored = {} /\ editing = Nothing
  /\ loaded = FALSE /\ day = 1 /\ armed = TRUE /\ status = "unknown"
  /\ toggling = 0 /\ quick = {} /\ running = FALSE /\ modal = FALSE
  /\ runs = [r \in Runs |-> Unclicked] /\ tracked = NoRun
  /\ job = Over /\ heard = {}
  /\ turns = 0 /\ shown = Nothing /\ late = FALSE

(***************************************************************************)
(* The page and its automatic check.                                       *)
(***************************************************************************)

\* Edits are not waited for: the page goes on, and may even open the modal
\* of all days, behind which nothing more is edited.
EditAsked(d, c) ==
  /\ Turn /\ ~modal /\ editing = Nothing /\ c # tasks[d]
  /\ editing' = [day |-> d, tasks |-> c]
  /\ UNCHANGED <<tasks, ignored, mode, loaded, day, armed, status, toggling, quick,
                 running, modal, runs, tracker, shown, late>>

\* The effect of the check starts its timer again.
EditAnswered ==
  /\ editing # Nothing /\ editing' = Nothing
  /\ \/ tasks' = [tasks EXCEPT ![editing.day] = editing.tasks] /\ armed' = TRUE
     \/ UNCHANGED <<tasks, armed>>
  /\ UNCHANGED <<ignored, mode, loaded, day, status, toggling, quick, running, modal,
                 runs, tracker, turns, shown, late>>

ChangeDay(d) ==
  /\ Turn /\ ~modal /\ d \in {day - 1, day + 1} \cap Days
  /\ day' = d /\ armed' = TRUE
  /\ UNCHANGED <<tasks, ignored, editing, mode, loaded, status, toggling, quick, running,
                 modal, runs, tracker, shown, late>>

Overtaken == {[c EXCEPT !.fresh = FALSE] : c \in quick}

\* The timer: the newest check replaces the one under way.
TimerFires ==
  /\ armed /\ armed' = FALSE
  /\ IF tasks[day] = "none"
     THEN /\ quick' = Overtaken /\ status' = "empty"
          /\ shown' = [day |-> day, tasks |-> "none"]
     ELSE IF loaded
     THEN /\ quick' = Overtaken \cup {[day |-> day, tasks |-> ScopeNow[day], fresh |-> TRUE]}
          /\ status' = "checking" /\ UNCHANGED shown
     ELSE UNCHANGED <<quick, status, shown>>
  /\ UNCHANGED <<tasks, ignored, editing, mode, loaded, day, toggling, running, modal, runs,
                 tracker, turns, late>>

\* A variant: no look at the generation.
QuickApplied(c) ==
  /\ c \in quick /\ quick' = quick \ {c}
  /\ status' \in AutoVerdicts(c.tasks)
  /\ shown' = [day |-> c.day, tasks |-> c.tasks]
  /\ UNCHANGED <<tasks, ignored, editing, mode, loaded, day, armed, toggling, running,
                 modal, runs, tracker, turns, late>>

\* A check that was overtaken is aborted, or answered and discarded.
QuickAnswered(c) ==
  /\ c \in quick /\ quick' = quick \ {c}
  /\ IF c.fresh
     THEN /\ status' \in AutoVerdicts(c.tasks)
          /\ shown' = [day |-> c.day, tasks |-> c.tasks]
     ELSE UNCHANGED <<status, shown>>
  /\ UNCHANGED <<tasks, ignored, editing, mode, loaded, day, armed, toggling, running, modal,
                 runs, tracker, turns, late>>

\* Tasks of the day on show are ignored, or included again.
Toggled == (ignored \cup ({toggling} \ {0})) \ (ignored \cap {toggling})

ToggleAsked ==
  /\ Turn /\ toggling = 0 /\ tasks[day] # "none"
  /\ ~modal /\ ~running /\ tracked = NoRun
  /\ toggling' = day
  /\ UNCHANGED <<tasks, ignored, editing, mode, loaded, day, armed, status, quick,
                 running, modal, runs, tracker, shown, late>>

\* A variant: the automatic check does not depend on the ignored tasks.
ToggleNotNoticed ==
  /\ toggling # 0 /\ toggling' = 0
  /\ ignored' = Toggled /\ quick' = Overtaken /\ status' = "checking"
  /\ UNCHANGED <<tasks, editing, mode, loaded, day, armed, running, modal, runs, tracker,
                 turns, shown, late>>

ToggleAnswered ==
  /\ toggling # 0 /\ toggling' = 0
  /\ \/ /\ ignored' = Toggled
        /\ armed' = TRUE /\ quick' = Overtaken /\ status' = "checking"
     \/ UNCHANGED <<ignored, armed, quick, status>>
  /\ UNCHANGED <<tasks, editing, mode, loaded, day, running, modal, runs, tracker,
                 turns, shown, late>>

\* The persons and locations of the event have arrived, and there are some of
\* both.  A request of fetchData that fails, or an event without persons or
\* without locations: this step never taken.
ReferenceLoaded ==
  /\ ~loaded /\ loaded' = TRUE /\ armed' = TRUE
  /\ UNCHANGED <<tasks, ignored, editing, mode, day, status, toggling, quick, running, modal,
                 runs, tracker, turns, shown, late>>

CloseModal ==
  /\ modal /\ ~running /\ modal' = FALSE
  /\ UNCHANGED <<tasks, ignored, editing, mode, loaded, day, armed, status, toggling, quick,
                 running, runs, tracker, turns, shown, late>>

\* A keyboard shortcut leads away, through the modal too, and the page is
\* opened again; the runs go on, the tracker stays.  (A change of the ignored
\* tasks that is under way takes effect by then, or not.)  Elsewhere jobs may
\* be deleted, and ids become free.
LeavePage ==
  /\ Turn
  /\ ignored' \in {ignored, Toggled}
  /\ loaded' = FALSE /\ day' = 1 /\ armed' = TRUE /\ status' = "unknown"
  /\ toggling' = 0 /\ quick' = {} /\ running' = FALSE /\ modal' = FALSE
  /\ runs' = [r \in Runs |-> [runs[r] EXCEPT !.here = FALSE]]
  /\ shown' = Nothing
  /\ heard' = IF heard = {} THEN {} ELSE Days
  /\ UNCHANGED <<tasks, editing, mode, tracked, job, late>>

(***************************************************************************)
(* The runs.                                                               *)
(***************************************************************************)

Advance(r, run) == runs' = [runs EXCEPT ![r] = run]

MayClick(r) ==
  /\ runs[r].pc = "idle" /\ \A s \in 1..(r - 1) : runs[s].pc # "idle"
  /\ tracked = NoRun /\ ~running /\ ~modal

\* "Optimise day": in the quick mode a full check comes first.
OptimiseDay(r) ==
  /\ MayClick(r) /\ status = "valid"
  /\ IF mode = "skip-floating"
     THEN /\ Advance(r, [Run("day", "checking", day) EXCEPT !.checked = ScopeNow[day]])
          /\ status' = "checking"
     ELSE /\ Advance(r, Run("day", "starting", day))
          /\ UNCHANGED status
  /\ UNCHANGED <<tasks, ignored, editing, mode, loaded, day, armed, toggling, quick, running,
                 modal,
                 tracker, turns, shown, late>>

OptimiseAllDays(r) ==
  /\ MayClick(r)
  /\ Advance(r, Run("all", "next", 1))
  /\ running' = TRUE /\ modal' = TRUE
  /\ UNCHANGED <<tasks, ignored, editing, mode, loaded, day, armed, status, toggling, quick,
                 tracker, turns, shown, late>>

\* Variants: the loop goes one day too far; no finally block.
SettledBeyond(r) ==
  /\ Advance(r, [runs[r] EXCEPT !.pc = "next", !.day = @ + 1])
  /\ UNCHANGED running

SettledSilently(r) ==
  /\ Advance(r, IF runs[r].kind = "all" /\ runs[r].day < LastDay
                THEN [runs[r] EXCEPT !.pc = "next", !.day = @ + 1, !.checked = "none"]
                ELSE [Unclicked EXCEPT !.pc = "over"])
  /\ UNCHANGED running

\* The step of the run's day is settled, however: the next day, or the end.
Settled(r) ==
  LET run == runs[r] IN
  IF run.kind = "all" /\ run.day < LastDay
  THEN /\ Advance(r, [run EXCEPT !.pc = "next", !.day = @ + 1, !.checked = "none"])
       /\ UNCHANGED running
  ELSE /\ Advance(r, [Unclicked EXCEPT !.pc = "over"])
       /\ running' = (running /\ ~(run.kind = "all" /\ run.here))

\* A day that had no tasks at the click is skipped; else the check is about
\* the tasks of now.
NextDay(r) ==
  LET run == runs[r] IN
  /\ run.pc = "next"
  /\ IF run.snapshot[run.day] \in {"none", "ignored"}
     THEN Settled(r)
     ELSE /\ Advance(r, [run EXCEPT !.pc = "checking", !.checked = Scope(run.day, run.ignored)])
          /\ UNCHANGED running
  /\ UNCHANGED <<tasks, ignored, editing, mode, loaded, day, armed, status, toggling, quick,
                 modal,
                 tracker, turns, shown, late>>

\* The result is applied if the day was on show at the click.
Shown(run, v) ==
  IF run.here /\ run.day = run.from
  THEN /\ status' = v /\ shown' = [day |-> run.day, tasks |-> run.checked]
       /\ late' = (late \/ run.day # day \/ run.checked # ScopeNow[run.day])
  ELSE UNCHANGED <<status, shown, late>>

CheckAnswered(r) ==
  LET run == runs[r] IN
  /\ run.pc = "checking"
  /\ \E v \in FullVerdicts(run.checked) :
       /\ Shown(run, v)
       /\ IF v = "valid"
          THEN /\ Advance(r, [run EXCEPT !.pc = "starting"])
               /\ UNCHANGED running
          ELSE Settled(r)
  /\ UNCHANGED <<tasks, ignored, editing, mode, loaded, day, armed, toggling, quick, modal,
                 tracker, turns>>

JobOver == job.end # "running"
\* What is left of the job when it is no longer tracked: the gate reads it.
Untracked == IF JobOver THEN Over ELSE Solving

\* The days whose next job may get the id of the end handled last, when the
\* row of that day d is deleted: it is either given to the job that follows at
\* once, or to a later one.
Freed(d) == IF d \in heard THEN Days ELSE heard

\* The optimiser gets the tasks of the click; the backend refuses while it
\* has a job that is not done, and deletes the row of the day's last job.  A
\* new job takes the place of the last one in the tracker.
StartAnswered(r) ==
  LET d == runs[r].day IN
  /\ runs[r].pc = "starting"
  /\ \/ /\ JobOver /\ runs[r].snapshot[d] \notin {"none", "ignored"}
        /\ Advance(r, [runs[r] EXCEPT !.pc = "solving"])
        /\ tracked' = r
        /\ \/ d \in heard /\ heard' = {d} /\ job' = [Solving EXCEPT !.again = TRUE]
           \/ heard' = Freed(d) /\ job' = Solving
        /\ UNCHANGED running
     \/ Settled(r) /\ heard' = Freed(d) /\ UNCHANGED <<tracked, job>>
  /\ UNCHANGED <<tasks, ignored, editing, mode, loaded, day, armed, status, toggling, quick,
                 modal,
                 turns, shown, late>>

\* (An inconclusive end is one like "completed" here, except for an id that was
\* handled last.)
JobDone ==
  /\ ~JobOver
  /\ IF tracked = NoRun THEN job' = Over
     ELSE \E end \in {"completed", "failed"} \cup (IF job.again THEN {"inconclusive"} ELSE {}) :
            job' = [job EXCEPT !.end = end]
  /\ UNCHANGED <<page, tasks, ignored, editing, mode, quick, runs, tracked, heard,
                 turns, late>>

\* The jobs of the event are deleted; the polls get a 404 from then on.
JobDeleted ==
  /\ Turn /\ job.end # "gone" /\ tracked # NoRun
  /\ job' = [end |-> "gone", again |-> FALSE]
  /\ heard' = IF heard = {} THEN {} ELSE Days
  /\ UNCHANGED <<page, tasks, ignored, editing, mode, quick, runs, tracked, late>>

\* A poll of the tracker finds the end of its job; hasProcessedRef notes it
\* unless it is a failure.  An upload changes the instances and with them
\* starts the timer of the page.
RunAnswered(r) ==
  /\ tracked = r
  /\ \/ job.end = "failed" /\ UNCHANGED <<heard, armed>>
     \/ /\ job.end = "completed" /\ ~job.again
        /\ heard' = {runs[r].day} /\ armed' \in {armed, TRUE}
  /\ tracked' = NoRun /\ job' = Over
  /\ Settled(r)
  /\ UNCHANGED <<tasks, ignored, editing, mode, loaded, day, status, toggling, quick, modal,
                 turns, shown, late>>

\* "completed" for the id that was handled last stops the tracking and settles
\* nothing; an inconclusive end of that id does not even do that, nor a 404.
RunNotReported(r) ==
  /\ tracked = r /\ job.end = "completed" /\ job.again
  /\ tracked' = NoRun /\ job' = Over
  /\ UNCHANGED <<page, tasks, ignored, editing, mode, quick, runs, heard, turns, late>>

\* Polls overlap: a second one about a job that was reported before is handled
\* late.  It stops the tracking of the job that is tracked by then, and settles
\* that one's run where its job has the same id.
LateAnswer ==
  /\ Turn /\ tracked # NoRun
  /\ tracked' = NoRun /\ job' = Untracked /\ armed' \in {armed, TRUE}
  /\ UNCHANGED <<runs, running>> \/ Settled(tracked)
  /\ UNCHANGED <<tasks, ignored, editing, mode, loaded, day, status, toggling, quick, modal,
                 heard, shown, late>>

RunStep(r) ==
  NextDay(r) \/ CheckAnswered(r) \/ StartAnswered(r) \/ RunAnswered(r) \/ RunNotReported(r)

\* What goes on without the operator.
Progress ==
  \/ TimerFires \/ \E c \in quick : QuickAnswered(c)
  \/ EditAnswered \/ ToggleAnswered \/ JobDone
  \/ \E r \in Runs : RunStep(r)

FlowNext ==
  \/ \E d \in Days : ChangeDay(d) \/ \E c \in Contents : EditAsked(d, c)
  \/ ToggleAsked \/ CloseModal \/ LeavePage \/ ReferenceLoaded
  \/ JobDeleted \/ LateAnswer
  \/ \E r \in Runs : OptimiseDay(r) \/ OptimiseAllDays(r)
  \/ Progress

\* Timers fire, requests are answered or time out, and jobs end (the runs of
\* the solver are bounded, as OptimisationJobs assumes).
FlowSpec == FlowInit /\ [][FlowNext]_flowVars /\ WF_flowVars(Progress)

(***************************************************************************)
(* Properties.                                                             *)
(***************************************************************************)

Endings == {"running", "completed", "inconclusive", "failed", "gone"}
Scopes == Contents \cup {"none", "ignored"}
RunRecord ==
  [kind : {"none", "day", "all"},
   pc : {"idle", "next", "checking", "starting", "solving", "over"},
   here : BOOLEAN, day : Days, from : Days, snapshot : [Days -> Scopes],
   ignored : SUBSET Days, checked : Scopes]

\* The type invariant of the page, its checks and its runs.
FlowTypeOK ==
  /\ ignored \subseteq Days /\ editing \in [day : 0..LastDay, tasks : Scopes]
  /\ tasks \in [Days -> Contents] /\ mode \in {"skip-floating", "always-full"}
  /\ loaded \in BOOLEAN /\ day \in Days /\ armed \in BOOLEAN
  /\ status \in Verdicts \cup {"unknown", "checking"} /\ toggling \in 0..LastDay
  /\ quick \subseteq [day : Days, tasks : Scopes, fresh : BOOLEAN]
  /\ running \in BOOLEAN /\ modal \in BOOLEAN /\ tracked \in Runs \cup {NoRun}
  /\ runs \in [Runs -> RunRecord]
  /\ job \in [end : Endings, again : BOOLEAN] /\ heard \subseteq Days
  /\ turns \in 0..MaxTurns /\ late \in BOOLEAN
  /\ shown \in [day : 0..LastDay, tasks : Scopes]

\* When the automatic check has come to rest, the verdict on show is one
\* about the day on show with its tasks as they are: no answer of an
\* overtaken check gets through, whatever is edited, ignored, selected or
\* optimised meanwhile (except where the full check of an optimisation was
\* answered after its day or tasks had changed).
VerdictIsCurrent ==
  /\ status \in Verdicts /\ ~armed /\ loaded /\ ~late
  => shown = [day |-> day, tasks |-> ScopeNow[day]]

\* No poll will report the end of the job of a run: the tracker does not poll
\* it any more, its row is gone, or it ended with the id that was handled last.
Unreported(r) ==
  /\ runs[r].pc = "solving"
  /\ \/ tracked # r \/ job.end = "gone"
     \/ job.again /\ job.end \in {"completed", "inconclusive"}

\* The button for the optimisation comes back: a sequence over all days
\* ends, whatever fails in it and whatever else is clicked, unless the job of
\* one of its days is never reported to it.
SequenceEnds ==
  running ~> (~running \/ \E r \in Runs : runs[r].here /\ runs[r].kind = "all" /\ Unreported(r))

\* "Checking" is never the last word, on a page that has persons and locations.
CheckEnds == status = "checking" ~> (status # "checking" \/ ~loaded)
=============================================================================
