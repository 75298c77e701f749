----------------------------- MODULE Publishing -----------------------------
(***************************************************************************)
(* Publishing a schedule (OptimisedTab.tsx with publishPreview.ts,         *)
(* pdfExport.ts and excelExport.ts, and the backend handlers it calls).    *)
(* A flow is one confirmed preview: it asks the policy of the server,      *)
(* writes the local documents, replaces the task table, publishes to       *)
(* Google and to MP-Backend and records what was published, one await      *)
(* after the other, all from the schedule and the records of the moment of *)
(* the click.  Meanwhile the schedule is edited, the page is left,         *)
(* reloaded or its preview closed, answers fail or are lost, and another   *)
(* flow may be confirmed.                                                  *)
(*                                                                         *)
(* The bounds: MaxFlows, the previews confirmed; Versions, the contents a  *)
(* day can have besides none that can be published; MaxTurns, the edits,   *)
(* departures from the page, reloads and changes of the policy.            *)
(***************************************************************************)
EXTENDS EventDays, Naturals, FiniteSets

CONSTANTS
  Selected,     \* the days that the operator publishes on their own
  Nights,       \* the working days with tasks that begin after midnight
  Overnight,    \* those with a task that begins before and ends after it
  MaxFlows,
  Versions,     \* the highest version of a day
  Targets       \* the configured destinations

ASSUME PublishingAssumption ==
  /\ Versions \in Nat \ {0} /\ MaxFlows \in Nat
  /\ Selected \subseteq Days /\ Nights \subseteq Days /\ Overnight \subseteq Days
  /\ Targets \subseteq {"pdf", "excel", "google", "mp-backend"}

VARIABLES
  \* The page.
  schedule,    \* the version of each day; 0: nothing, or a conflict
  preview,     \* the open preview, or NoPreview
  policy,      \* what the page shows of the server's policy
  publishing,  \* isPublishing
  pageRecords, \* publishedDayRecords, as the page holds them
  fetching,    \* the request for them that the page makes when it opens
  session,     \* the export job noted in sessionStorage, by kind
  flows,
  \* The Electron managers, the backend and the destinations.
  exports,     \* the exports by kind and by the flow that started them
  tasks,       \* the task table
  records,     \* the day records of the publish state
  acknowledged,
  google,      \* the calendar, by calendar date
  server,      \* the schedule at MP-Backend, by working day
  \* What the properties remember.
  astray,      \* two flows were under way at once, or one lost its page
  unrecorded   \* days a flow may have changed outside and did not record

pageVars == <<schedule, preview, policy, publishing, pageRecords, fetching>>
outside == <<tasks, records, google, server, unrecorded>>
pubVars == <<pageVars, session, flows, exports, outside, acknowledged, turns, astray>>

Flows == 1..MaxFlows  \* in the order of their confirmation
NoFlow == 0
Local == Targets \cap {"pdf", "excel"}
PolicyRequired == "mp-backend" \in Targets
NoPreview == [scope |-> "none", days |-> {}]
NoRecord == [version |-> 0, failed |-> FALSE]
NoRecords == [d \in Days |-> NoRecord]
Nowhere == [version |-> 0, night |-> 0, whole |-> TRUE]
NoContent == [d \in Days |-> 0]

\* errors: a destination refused; touched: one may have changed.
Flow(pc, scope, days, snapshot, recs) ==
  [pc |-> pc, here |-> pc # "over", scope |-> scope, days |-> days,
   schedule |-> snapshot, records |-> recs, left |-> {}, job |-> NoFlow,
   errors |-> FALSE, touched |-> FALSE]
Unconfirmed == Flow("idle", "none", {}, NoContent, NoRecords)
Over == Flow("over", "none", {}, NoContent, NoRecords)

PublishInit ==
  /\ schedule = [d \in Days |-> 1]
  /\ preview = NoPreview /\ policy = "none" /\ publishing = FALSE
  /\ pageRecords = NoRecords /\ fetching = FALSE
  /\ session = [k \in Local |-> NoFlow]
  /\ flows = [f \in Flows |-> Unconfirmed]
  /\ exports = [k \in Local |-> [f \in Flows |-> "none"]]
  /\ tasks = NoContent /\ records = NoRecords /\ acknowledged = PolicyRequired
  /\ google = [d \in Days |-> Nowhere] /\ server = NoContent
  /\ turns = 0 /\ astray = FALSE /\ unrecorded = {}

UnderWay == {f \in Flows : flows[f].pc \notin {"idle", "over"}}

(***************************************************************************)
(* The page around a flow.                                                 *)
(***************************************************************************)

\* An edit, an undo, an upload of a solver result.
Edit(d, v) ==
  /\ Turn /\ v # schedule[d]
  /\ schedule' = [schedule EXCEPT ![d] = v]
  /\ UNCHANGED <<preview, policy, publishing, pageRecords, fetching, session,
                 flows, exports, outside, acknowledged, astray>>

Publishable(S) == {d \in S : schedule[d] # 0}

\* (Once MaxFlows have been confirmed no further preview is opened.)
OpenPreview(scope, days) ==
  /\ ~publishing /\ preview = NoPreview
  /\ \E f \in Flows : flows[f].pc = "idle"
  /\ preview' = [scope |-> scope, days |-> Publishable(days)]
  /\ policy' = IF PolicyRequired THEN "loading" ELSE "none"
  /\ UNCHANGED <<schedule, publishing, pageRecords, fetching, session,
                 flows, exports, outside, acknowledged, turns, astray>>

\* One of the loads of the policy is answered.
PolicyShown ==
  /\ policy = "loading"
  /\ policy' \in {"blocked"} \cup (IF acknowledged THEN {"acknowledged"} ELSE {})
  /\ UNCHANGED <<schedule, preview, publishing, pageRecords, fetching,
                 session, flows, exports, outside, acknowledged, turns, astray>>

\* Cancel, before the flow has set isPublishing: the preview goes, a flow
\* that waits for the policy does not.
ClosePreview ==
  /\ preview # NoPreview /\ ~publishing
  /\ preview' = NoPreview /\ policy' = "none"
  /\ UNCHANGED <<schedule, publishing, pageRecords, fetching, session,
                 flows, exports, outside, acknowledged, turns, astray>>

\* Cancel, while a local document is written.
CancelExport(k) ==
  /\ publishing /\ session[k] # NoFlow /\ exports[k][session[k]] = "active"
  /\ \E f \in Flows : flows[f].pc = "local" /\ flows[f].here
  /\ exports' = [exports EXCEPT ![k][session[k]] = "cancelled"]
  /\ UNCHANGED <<pageVars, session, flows, outside, acknowledged, turns, astray>>

\* The records of a page that was just opened arrive, or cannot be read.
RecordsLoaded ==
  /\ fetching
  /\ fetching' = FALSE
  /\ pageRecords' \in {records, NoRecords}
  /\ UNCHANGED <<schedule, preview, policy, publishing, session, flows,
                 exports, outside, acknowledged, turns, astray>>

FreshPage ==
  /\ preview' = NoPreview /\ policy' = "none" /\ publishing' = FALSE
  /\ pageRecords' = NoRecords /\ fetching' = TRUE
  /\ UNCHANGED schedule /\ Turn

\* A keyboard shortcut leads away and back: the flows go on without a page.
LeavePage ==
  /\ FreshPage
  /\ flows' = [f \in Flows |-> IF f \in UnderWay THEN [flows[f] EXCEPT !.here = FALSE]
                                                 ELSE flows[f]]
  /\ astray' = (astray \/ UnderWay # {})
  /\ UNCHANGED <<session, exports, outside, acknowledged>>

\* A reload ends the flows; sessionStorage and the exports stay.
Reload ==
  /\ FreshPage
  /\ flows' = [f \in Flows |-> IF f \in UnderWay THEN Over ELSE flows[f]]
  /\ unrecorded' = unrecorded \cup
       UNION {flows[f].days : f \in {g \in UnderWay : flows[g].touched}}
  /\ UNCHANGED <<session, exports, tasks, records, google, server, acknowledged,
                 astray>>

\* The root publishes another policy, or the operator acknowledges it.
PolicyChanges ==
  /\ PolicyRequired /\ Turn
  /\ acknowledged' = ~acknowledged
  /\ UNCHANGED <<pageVars, session, flows, exports, outside, astray>>

\* An export ends, as the contract of local exports has it.
ExportEnds(k, f) ==
  /\ exports[k][f] = "active"
  /\ \E end \in {"completed", "failed"} : exports' = [exports EXCEPT ![k][f] = end]
  /\ UNCHANGED <<pageVars, session, flows, outside, acknowledged, turns, astray>>

(***************************************************************************)
(* The steps of a flow.                                                    *)
(***************************************************************************)

Advance(f, flow) == flows' = [flows EXCEPT ![f] = flow]

\* A variant: no finally block.
FinishSilently(f) == Advance(f, Over) /\ UNCHANGED publishing

\* Behind the last await of a flow: its finally block.
Finish(f) ==
  /\ Advance(f, Over)
  /\ publishing' = IF flows[f].here THEN FALSE ELSE publishing

Kept == UNCHANGED <<schedule, preview, policy, pageRecords, fetching>>

\* The failure of the days of a flow is recorded, or cannot be.
WithFailure(recs, S) ==
  [d \in Days |-> IF d \in S THEN [recs[d] EXCEPT !.failed = TRUE] ELSE recs[d]]

FailureRecorded(f) ==
  LET flow == flows[f] IN
  \/ /\ records' = WithFailure(records, flow.days)
     /\ pageRecords' = IF flow.here THEN records' ELSE pageRecords
     /\ UNCHANGED unrecorded
  \/ /\ UNCHANGED records
     /\ pageRecords' = IF flow.here THEN WithFailure(flow.records, flow.days)
                                    ELSE pageRecords
     /\ unrecorded' = unrecorded \cup (IF flow.touched THEN flow.days ELSE {})

\* Something before the destinations throws: recorded, and over.
Throws(f) ==
  /\ FailureRecorded(f)
  /\ Finish(f)
  /\ UNCHANGED <<schedule, preview, policy, fetching, google, server>>

\* A variant: every destination is taken for a document.
BegunWithAll(flow) == [flow EXCEPT !.pc = "local", !.left = Targets]

Begun(flow) == [flow EXCEPT !.pc = "local", !.left = Local]

Confirm(f) ==
  LET flow == Flow("policy", preview.scope, Publishable(preview.days), schedule,
                   pageRecords)
  IN
  /\ flows[f].pc = "idle" /\ \A g \in 1..(f - 1) : flows[g].pc # "idle"
  /\ preview.days # {} /\ ~publishing
  /\ PolicyRequired => policy = "acknowledged"
  /\ IF PolicyRequired
     THEN /\ Advance(f, flow)
          /\ policy' = "loading" /\ UNCHANGED publishing
     ELSE /\ Advance(f, IF flow.days = {} THEN Over ELSE Begun(flow))
          /\ publishing' = (flow.days # {}) /\ UNCHANGED policy
  /\ astray' = (astray \/ UnderWay # {})
  /\ UNCHANGED <<schedule, preview, pageRecords, fetching, session, exports,
                 outside, acknowledged, turns>>

PolicyAnswered(f) ==
  LET flow == flows[f] IN
  /\ flow.pc = "policy"
  /\ \/ /\ acknowledged /\ flow.days # {}
        /\ Advance(f, Begun(flow))
        /\ policy' = IF flow.here THEN "acknowledged" ELSE policy
        /\ publishing' = (flow.here \/ publishing)
     \/ /\ Advance(f, Over)
        /\ policy' = IF flow.here THEN "blocked" ELSE policy
        /\ UNCHANGED publishing
  /\ UNCHANGED <<schedule, preview, pageRecords, fetching, session, exports,
                 outside, acknowledged, turns, astray>>

\* A variant: the publish goes on without the documents.
LocalSkipped(f) ==
  /\ flows[f].pc = "local" /\ flows[f].left # {}
  /\ Advance(f, [flows[f] EXCEPT !.left = {}])
  /\ Kept
  /\ UNCHANGED <<publishing, session, exports, outside, acknowledged, turns, astray>>

\* The document settings, or what follows them, cannot be read.
LocalThrows(f) ==
  /\ flows[f].pc = "local" /\ flows[f].left # {}
  /\ Throws(f)
  /\ UNCHANGED <<session, exports, tasks, acknowledged, turns, astray>>

NextKind(left) == IF "pdf" \in left THEN "pdf" ELSE "excel"

\* exportSchedulePdf, exportScheduleExcel up to the loop: the job noted in
\* the session is taken over; else a job is started, or the one that the
\* manager still has for the window is.
ExportBegins(f) ==
  LET flow == flows[f]  k == NextKind(flow.left)
      noted == session[k]
      Taken(g) == Advance(f, [flow EXCEPT !.job = g])
      live == {g \in Flows : exports[k][g] = "active"}
  IN
  /\ flow.pc = "local" /\ flow.left # {} /\ flow.job = NoFlow
  /\ IF noted # NoFlow /\ exports[k][noted] \in {"active", "completed"}
     THEN Taken(noted) /\ UNCHANGED <<session, exports>>
     ELSE IF live # {}
     THEN \E g \in live : /\ Taken(g) /\ session' = [session EXCEPT ![k] = g]
                          /\ UNCHANGED exports
     ELSE /\ Taken(f) /\ session' = [session EXCEPT ![k] = f]
          /\ exports' = [exports EXCEPT ![k][f] = "active"]
  /\ Kept /\ UNCHANGED <<publishing, outside, acknowledged, turns, astray>>

\* The poll finds the job at its end.
ExportSeen(f) ==
  LET flow == flows[f]  k == NextKind(flow.left)  end == exports[k][flow.job] IN
  /\ flow.pc = "local" /\ flow.left # {} /\ flow.job # NoFlow
  /\ end \in {"completed", "failed", "cancelled"}
  /\ session' = [session EXCEPT ![k] = NoFlow]
  /\ \/ /\ end = "completed"
        /\ Advance(f, [flow EXCEPT !.left = @ \ {k}, !.job = NoFlow])
        /\ Kept /\ UNCHANGED <<publishing, outside>>
     \/ /\ end = "failed"
        /\ Throws(f) /\ UNCHANGED tasks
     \* a cancelled export is no failure
     \/ /\ end = "cancelled"
        /\ Finish(f)
        /\ Kept /\ UNCHANGED outside
  /\ UNCHANGED <<exports, acknowledged, turns, astray>>

\* The task table is replaced by the scheduled instances of the snapshot.
Finalise(f) ==
  LET flow == flows[f] IN
  /\ flow.pc = "local" /\ flow.left = {}
  /\ \/ /\ tasks' = flow.schedule
        /\ Advance(f, [flow EXCEPT !.pc = "google"])
        /\ Kept /\ UNCHANGED <<publishing, records, google, server, unrecorded>>
     \* refused, or its answer is lost
     \/ Throws(f) /\ tasks' \in {tasks, flow.schedule}
  /\ UNCHANGED <<session, exports, acknowledged, turns, astray>>

\* What the task table has for a calendar date: the tasks of that working day
\* up to midnight (version), and those of the working day before that begin
\* after midnight (night), because a task keeps the raw date of its instance.
\* A task across midnight is sent with its end before its start, and refused.
EntriesOf(d, lost) ==
  [version |-> tasks[d],
   night |-> IF d - 1 \in Nights THEN tasks[d - 1] ELSE 0,
   whole |-> d \notin Overnight /\ d \notin lost]

\* publish_day_to_calendar for the days of S, each taken for a calendar date:
\* the entries of the date are deleted, its tasks are inserted; what fails on
\* the way is only logged, and leaves the date not whole.
CalendarAfter(S, lost) ==
  [d \in Days |-> IF d \in S THEN EntriesOf(d, lost) ELSE google[d]]

Before(S, d) == {e \in S : e < d}

\* The same, when the request ends with an error at the days of at: no entry
\* is inserted there, and some may be gone.
CalendarStopped(S, at) ==
  [d \in Days |-> IF d \in S THEN EntriesOf(d, {})
                  ELSE [google[d] EXCEPT !.whole = @ /\ d \notin at]]

GoogleAnswered(f) ==
  LET flow == flows[f]
      To(failed, touched) ==
        Advance(f, [flow EXCEPT !.pc = "server", !.errors = failed, !.touched = touched])
  IN
  /\ flow.pc = "google"
  /\ IF "google" \notin Targets THEN To(FALSE, FALSE) /\ UNCHANGED google
     ELSE \/ /\ \E lost \in {{}, flow.days} : google' = CalendarAfter(flow.days, lost)
             /\ \E failed \in BOOLEAN : To(failed, TRUE)
          \* it stops in front of a day, or while it deletes that day's entries
          \/ /\ \E d \in flow.days : \E at \in {{}, {d}} :
                  google' = CalendarStopped(Before(flow.days, d), at)
             /\ To(TRUE, TRUE)
  /\ Kept
  /\ UNCHANGED <<publishing, session, exports, tasks, records, server, unrecorded,
                 acknowledged, turns, astray>>

ServerAfter(S) == [d \in Days |-> IF d \in S THEN tasks[d] ELSE server[d]]

ServerAnswered(f) ==
  LET flow == flows[f]
      To(failed) == Advance(f, [flow EXCEPT !.pc = "record", !.touched = TRUE,
                                            !.errors = @ \/ failed])
  IN
  /\ flow.pc = "server"
  /\ \/ /\ ~PolicyRequired \/ acknowledged
        /\ \/ /\ server' = IF PolicyRequired THEN ServerAfter(flow.days) ELSE server
              /\ \E lost \in BOOLEAN : To(PolicyRequired /\ lost)
           \/ PolicyRequired /\ To(TRUE) /\ UNCHANGED server
        /\ UNCHANGED <<publishing, policy, unrecorded>>
     \* 428: the flow ends, whatever it has published, without a record, and
     \* the page loads the policy again
     \/ /\ PolicyRequired /\ ~acknowledged
        /\ Finish(f)
        /\ policy' = IF flow.here THEN "loading" ELSE policy
        /\ unrecorded' = unrecorded \cup (IF flow.touched THEN flow.days ELSE {})
        /\ UNCHANGED server
  /\ UNCHANGED <<schedule, preview, pageRecords, fetching, session, exports, tasks, records, google, acknowledged, turns, astray>>

\* The records of the snapshot with those of the published days.
NextRecords(flow) ==
  [d \in Days |-> IF d \in flow.days
                  THEN [version |-> flow.schedule[d], failed |-> FALSE]
                  ELSE flow.records[d]]

Saved(f) ==
  LET flow == flows[f]  next == NextRecords(flow) IN
  \/ /\ records' = next
     /\ pageRecords' = IF flow.here THEN next ELSE pageRecords
     /\ preview' = IF flow.here THEN NoPreview ELSE preview
     /\ UNCHANGED unrecorded
  \* the save fails, or its answer or the event status does: then the
  \* failure is recorded, if it can be; the page shows the records that the
  \* backend answers with, else those of the click
  \/ /\ \E base \in {records, next} :
          \/ /\ records' = WithFailure(base, flow.days)
             /\ pageRecords' = IF flow.here THEN records' ELSE pageRecords
             /\ UNCHANGED unrecorded
          \/ /\ records' = base
             /\ pageRecords' = IF flow.here THEN WithFailure(flow.records, flow.days)
                                            ELSE pageRecords
             /\ unrecorded' = unrecorded \cup flow.days
     /\ UNCHANGED preview

\* A variant: the records are saved whatever the destinations said.
RecordAlways(f) ==
  /\ flows[f].pc = "record"
  /\ Saved(f)
  /\ Finish(f)
  /\ UNCHANGED <<schedule, policy, fetching, session, exports, tasks,
                 google, server, acknowledged, turns, astray>>

Record(f) ==
  LET flow == flows[f] IN
  /\ flow.pc = "record"
  /\ IF flow.errors THEN FailureRecorded(f) /\ UNCHANGED preview ELSE Saved(f)
  /\ Finish(f)
  /\ UNCHANGED <<schedule, policy, fetching, session, exports, tasks,
                 google, server, acknowledged, turns, astray>>

FlowStep(f) ==
  \/ PolicyAnswered(f) \/ LocalThrows(f) \/ ExportBegins(f) \/ ExportSeen(f)
  \/ Finalise(f) \/ GoogleAnswered(f) \/ ServerAnswered(f) \/ Record(f)

\* What goes on without the operator.
Progress ==
  \/ \E f \in Flows : FlowStep(f)
  \/ \E k \in Local, f \in Flows : ExportEnds(k, f)

PublishNext ==
  \/ \E d \in Days, v \in 0..Versions : Edit(d, v)
  \/ OpenPreview("all_days", Days) \/ \E d \in Selected : OpenPreview("selected_day", {d})
  \/ PolicyShown \/ ClosePreview \/ RecordsLoaded
  \/ LeavePage \/ Reload \/ PolicyChanges
  \/ \E k \in Local : CancelExport(k)
  \/ \E f \in Flows : Confirm(f)
  \/ Progress

\* Requests are answered or time out; exports end, as their contract says.
PublishSpec == PublishInit /\ [][PublishNext]_pubVars /\ WF_pubVars(Progress)

(***************************************************************************)
(* Properties.                                                             *)
(***************************************************************************)

Contents == [Days -> 0..Versions]
DayRecords == [Days -> [version : 0..Versions, failed : BOOLEAN]]
FlowRecord ==
  [pc : {"idle", "policy", "local", "google", "server", "record", "over"},
   here : BOOLEAN, scope : {"none", "selected_day", "all_days"},
   days : SUBSET Days, schedule : Contents, records : DayRecords,
   left : SUBSET Local, job : Flows \cup {NoFlow}, errors : BOOLEAN,
   touched : BOOLEAN]

CalendarDate == [version : 0..Versions, night : 0..Versions, whole : BOOLEAN]

\* The type invariant of publishing.
PublishTypeOK ==
  /\ schedule \in Contents /\ tasks \in Contents /\ server \in Contents
  /\ turns \in 0..MaxTurns
  /\ preview \in [scope : {"none", "selected_day", "all_days"}, days : SUBSET Days]
  /\ policy \in {"none", "loading", "acknowledged", "blocked"}
  /\ publishing \in BOOLEAN /\ fetching \in BOOLEAN
  /\ acknowledged \in BOOLEAN /\ astray \in BOOLEAN
  /\ pageRecords \in DayRecords /\ records \in DayRecords
  /\ session \in [Local -> Flows \cup {NoFlow}]
  /\ flows \in [Flows -> FlowRecord]
  /\ exports \in [Local -> [Flows -> {"none", "active", "completed", "failed",
                                      "cancelled"}]]
  /\ google \in [Days -> CalendarDate]
  /\ unrecorded \subseteq Days

\* "A missing folder or export failure must not allow Calendar or MP-Backend
\* side effects to begin": as soon as a flow may have changed a destination,
\* a document of every configured kind is in the folder.
DocumentsComeFirst ==
  \A f \in Flows : flows[f].touched =>
    \A k \in Local : \E g \in Flows : exports[k][g] = "completed"

\* A day whose record says published was sent to every destination in the
\* version of the record: whatever failed, was edited meanwhile or was
\* cancelled, as long as no flow ended without a record and none ran beside
\* another or without its page.  Records and MP-Backend go by working days;
\* Google goes by calendar dates, so of it this is said of the tasks up to
\* midnight only (those after it go out with the day that follows, see
\* OtherDaysUnchanged), and an insertion that failed is not seen (whole).
RecordIsTrue ==
  \A d \in Days :
    /\ records[d].version # 0 /\ ~records[d].failed
    /\ d \notin unrecorded /\ ~astray /\ UnderWay = {}
    => /\ "google" \in Targets => google[d].version = records[d].version
       /\ "mp-backend" \in Targets => server[d] = records[d].version

\* The page is never left publishing for ever: whatever fails, is cancelled
\* or is taken over from another flow, its buttons come back.
PublishEnds == publishing ~> ~publishing

\* What the calendar shows of working day d, before and after midnight.
Shown(calendar, d) ==
  <<calendar[d].version, IF d + 1 \in Days THEN calendar[d + 1].night ELSE 0>>

\* "Only this day will be updated. Other days will remain unchanged.": a
\* flow for the selected day leaves what Google shows of the others alone.
OtherDaysUnchanged ==
  [][\A f \in Flows, d \in Days :
        flows[f].pc = "google" /\ flows'[f].pc = "server"
        /\ flows[f].scope = "selected_day" /\ d \notin flows[f].days
        => Shown(google', d) = Shown(google, d)]_pubVars
=============================================================================
