-------------------------- MODULE PublishingProofs --------------------------
(***************************************************************************)
(* Proofs about Publishing, for every number of days, flows and versions   *)
(* and any configured destinations: its types, that no destination is      *)
(* touched before every local document is in the folder, and that the      *)
(* record of a day says what was sent, as long as no flow ran beside       *)
(* another or without its page.                                            *)
(***************************************************************************)
EXTENDS Publishing, TLAPS

(***************************************************************************)
(* The inductive invariant.                                                *)
(***************************************************************************)

\* A document of the kind is in the folder.
Written(k) == \E g \in Flows : exports[k][g] = "completed"

\* A flow that has not come to the document of a kind has not started an
\* export of it: so that a completed export is never overwritten.
NotBegun(f, k) ==
  \/ flows[f].pc \in {"idle", "policy"}
  \/ /\ flows[f].pc = "local" /\ k \in flows[f].left
     /\ flows[f].job = NoFlow \/ k # NextKind(flows[f].left)

UnbegunInv == \A k \in Local, f \in Flows : NotBegun(f, k) => exports[k][f] = "none"

\* What a flow has behind it is written.
WrittenInv ==
  \A f \in Flows :
    /\ flows[f].pc = "local" => \A k \in Local \ flows[f].left : Written(k)
    /\ flows[f].pc \in {"google", "server", "record"} => \A k \in Local : Written(k)
    /\ flows[f].touched => flows[f].pc \in {"server", "record"}

\* The record of day d says of the destinations what they hold.
Agrees(rec, calendar, version) ==
  rec.version # 0 /\ ~rec.failed =>
    /\ "google" \in Targets => calendar.version = rec.version
    /\ "mp-backend" \in Targets => version = rec.version

\* A day in which a destination may have changed since its record.
Between(d) == d \in unrecorded \/ \E f \in Flows : flows[f].touched /\ d \in flows[f].days

\* As long as nothing went astray: one flow, which has its page; records
\* that agree with the destinations, in the backend, on the page and in the
\* snapshot of the flow; and destinations that hold the snapshot so far as
\* the flow has come.
AloneInv ==
  /\ \A f, g \in UnderWay : f = g
  /\ \A f \in UnderWay : flows[f].here

RecordsInv ==
  /\ \A d \in Days : Between(d) \/ Agrees(records[d], google[d], server[d])
  /\ \A d \in Days : Between(d) \/ Agrees(pageRecords[d], google[d], server[d])
  /\ \A f \in UnderWay, d \in Days :
       d \in unrecorded \/ d \in flows[f].days
       \/ Agrees(flows[f].records[d], google[d], server[d])

\* How far the destinations hold the snapshot of a flow.
Sent(flow, table, calendar, version) ==
  /\ flow.pc \in {"google", "server", "record"} => table = flow.schedule
  /\ flow.pc \in {"server", "record"} /\ ~flow.errors /\ "google" \in Targets =>
       \A d \in flow.days : calendar[d].version = flow.schedule[d]
  /\ flow.pc = "record" /\ ~flow.errors /\ "mp-backend" \in Targets =>
       \A d \in flow.days : version[d] = flow.schedule[d]
SentInv == \A f \in Flows : Sent(flows[f], tasks, google, server)

HonestInv == astray \/ (AloneInv /\ RecordsInv /\ SentInv)

PublishInv == PublishTypeOK /\ UnbegunInv /\ WrittenInv /\ HonestInv

USE PublishingAssumption, DaysAssumption

-----------------------------------------------------------------------------
(* The types *)

\* The next document is one of those that are left.
LEMMA KindFacts ==
  ASSUME NEW left \in SUBSET Local, left # {}
  PROVE  NextKind(left) \in left
BY DEF NextKind, Local

\* The null values have the shape of what they stand for.
LEMMA SmallTypes ==
  /\ NoContent \in Contents /\ NoRecords \in DayRecords
  /\ NoPreview \in [scope : {"none", "selected_day", "all_days"}, days : SUBSET Days]
  /\ [d \in Days |-> Nowhere] \in [Days -> CalendarDate]
BY DEF NoContent, Contents, NoRecords, NoRecord, DayRecords, NoPreview, Nowhere, CalendarDate

\* A flow begins, and ends, as a well-formed record.
LEMMA FlowType ==
  ASSUME NEW pc \in {"idle", "policy", "over"}, NEW scope \in {"none", "selected_day", "all_days"},
         NEW days \in SUBSET Days, NEW snapshot \in Contents, NEW recs \in DayRecords
  PROVE  Flow(pc, scope, days, snapshot, recs) \in FlowRecord
BY DEF Flow, FlowRecord, NoFlow

\* So are a flow before its click and one that is over.
LEMMA OverType == Unconfirmed \in FlowRecord /\ Over \in FlowRecord
BY SmallTypes, FlowType DEF Unconfirmed, Over

\* Marking days as failed leaves records.
LEMMA FailureType ==
  ASSUME NEW recs \in DayRecords, NEW S
  PROVE  WithFailure(recs, S) \in DayRecords
BY DEF WithFailure, DayRecords

\* A step of one flow keeps the types of all.
LEMMA AdvanceType ==
  ASSUME PublishTypeOK, NEW f \in Flows, NEW flow \in FlowRecord, Advance(f, flow)
  PROVE  flows' \in [Flows -> FlowRecord]
BY DEF PublishTypeOK, Advance

\* The end of a flow keeps its type and the page's.
LEMMA FinishType ==
  ASSUME PublishTypeOK, NEW f \in Flows, Finish(f)
  PROVE  flows' \in [Flows -> FlowRecord] /\ publishing' \in BOOLEAN
<1>1. flows' \in [Flows -> FlowRecord]
  BY OverType, AdvanceType DEF Finish
<1>2. publishing' \in BOOLEAN
  BY DEF Finish, PublishTypeOK
<1> QED BY <1>1, <1>2

\* So does the record of a failure.
LEMMA FailureRecordedType ==
  ASSUME PublishTypeOK, NEW f \in Flows, FailureRecorded(f)
  PROVE  records' \in DayRecords /\ pageRecords' \in DayRecords /\ unrecorded' \subseteq Days
<1>1. flows[f] \in FlowRecord /\ flows[f].records \in DayRecords /\ flows[f].days \subseteq Days
  BY DEF PublishTypeOK, FlowRecord
<1>2. WithFailure(records, flows[f].days) \in DayRecords
      /\ WithFailure(flows[f].records, flows[f].days) \in DayRecords
  BY <1>1, FailureType DEF PublishTypeOK
<1> QED BY <1>1, <1>2 DEF FailureRecorded, PublishTypeOK

\* So does a flow that throws.
LEMMA ThrowsType ==
  ASSUME PublishTypeOK, NEW f \in Flows, Throws(f)
  PROVE  /\ records' \in DayRecords /\ pageRecords' \in DayRecords /\ unrecorded' \subseteq Days
         /\ flows' \in [Flows -> FlowRecord] /\ publishing' \in BOOLEAN
         /\ UNCHANGED <<schedule, preview, policy, fetching, google, server>>
BY FailureRecordedType, FinishType DEF Throws
\* A flow without its page is a flow.
LEMMA PagelessType ==
  ASSUME NEW flow \in FlowRecord
  PROVE  [flow EXCEPT !.here = FALSE] \in FlowRecord
BY DEF FlowRecord

\* The steps of the page.
Aside ==
  \/ \E d \in Days, v \in 0..Versions : Edit(d, v)
  \/ OpenPreview("all_days", Days) \/ \E d \in Selected : OpenPreview("selected_day", {d})
  \/ PolicyShown \/ ClosePreview \/ RecordsLoaded \/ PolicyChanges
ExportStep ==
  \/ \E k \in Local : CancelExport(k)
  \/ \E k \in Local, f \in Flows : ExportEnds(k, f)

\* A step is one around the flows, or one of a flow.
LEMMA StepCases ==
  PublishNext => \/ Aside \/ ExportStep \/ LeavePage \/ Reload
                 \/ \E f \in Flows : FlowStep(f) \/ Confirm(f)
BY DEF PublishNext, Progress, Aside, ExportStep

\* The steps around the flows keep the types.
LEMMA PageTypes ==
  ASSUME PublishTypeOK, Aside \/ ExportStep \/ LeavePage \/ Reload
  PROVE  PublishTypeOK'
<1> USE DEF PublishTypeOK, pageVars, outside
<1>turn. Turn => turns' \in 0..MaxTurns
  BY DEF Turn
<1>1. CASE \E d \in Days, v \in 0..Versions : Edit(d, v)
  BY <1>1, <1>turn DEF Edit, Contents
<1>2. ASSUME NEW scope \in {"selected_day", "all_days"}, NEW days \in SUBSET Days,
             OpenPreview(scope, days)
      PROVE  PublishTypeOK'
  <2>1. Publishable(days) \in SUBSET Days
    BY DEF Publishable
  <2>2. preview' \in [scope : {"none", "selected_day", "all_days"}, days : SUBSET Days]
    BY <1>2, <2>1 DEF OpenPreview
  <2>3. policy' \in {"none", "loading", "acknowledged", "blocked"}
    BY <1>2 DEF OpenPreview
  <2> QED BY <1>2, <2>2, <2>3 DEF OpenPreview
<1>3. CASE PolicyShown
  BY <1>3 DEF PolicyShown
<1>4. CASE ClosePreview
  BY <1>4, SmallTypes DEF ClosePreview
<1>5. CASE RecordsLoaded
  BY <1>5, SmallTypes DEF RecordsLoaded
<1>6. CASE PolicyChanges
  BY <1>6, <1>turn DEF PolicyChanges
<1>7. CASE LeavePage
  <2>1. \A f \in Flows : flows[f] \in FlowRecord /\ [flows[f] EXCEPT !.here = FALSE] \in FlowRecord
    BY PagelessType
  <2>2. flows' \in [Flows -> FlowRecord]
    BY <1>7, <2>1 DEF LeavePage
  <2>3. astray' \in BOOLEAN
    BY <1>7 DEF LeavePage
  <2>4. /\ UNCHANGED <<schedule, session, exports, tasks, records, google, server, unrecorded,
                       acknowledged>>
        /\ turns' \in 0..MaxTurns /\ preview' = NoPreview /\ policy' = "none"
        /\ publishing' = FALSE /\ pageRecords' = NoRecords /\ fetching' = TRUE
    BY <1>7, <1>turn DEF LeavePage, FreshPage
  <2> QED BY <2>2, <2>3, <2>4, SmallTypes
<1>8. CASE Reload
  <2>1. flows' \in [Flows -> FlowRecord]
    BY <1>8, OverType DEF Reload
  <2>2. \A f \in Flows : flows[f].days \subseteq Days
    BY DEF FlowRecord
  <2>3. unrecorded' \subseteq Days
    BY <1>8, <2>2 DEF Reload, UnderWay
  <2> QED BY <1>8, <2>1, <2>3, <1>turn, SmallTypes DEF Reload, FreshPage
<1>9. CASE \E k \in Local : CancelExport(k)
  <2> PICK k \in Local : CancelExport(k)
    BY <1>9
  <2>1. session[k] \in Flows
    BY DEF CancelExport
  <2>2. exports' \in [Local -> [Flows -> {"none", "active", "completed", "failed", "cancelled"}]]
    BY <2>1 DEF CancelExport
  <2> QED BY <2>2 DEF CancelExport
<1>10. CASE \E k \in Local, f \in Flows : ExportEnds(k, f)
  <2> PICK k \in Local, f \in Flows : ExportEnds(k, f)
    BY <1>10
  <2>1. PICK end \in {"completed", "failed"} : exports' = [exports EXCEPT ![k][f] = end]
    BY DEF ExportEnds
  <2>2. exports' \in [Local -> [Flows -> {"none", "active", "completed", "failed", "cancelled"}]]
    BY <2>1
  <2> QED BY <2>2 DEF ExportEnds
<1>11. CASE OpenPreview("all_days", Days) \/ \E d \in Selected : OpenPreview("selected_day", {d})
  BY <1>11, <1>2 DEF Days
<1> QED BY <1>1, <1>3, <1>4, <1>5, <1>6, <1>7, <1>8, <1>9, <1>10, <1>11 DEF Aside, ExportStep
-----------------------------------------------------------------------------
(* The steps of a flow *)

\* From one step of a flow to the next; table: the exports.
Move(old, new, table) ==
  \/ new.pc = "over" /\ ~new.touched
  \/ old.pc = "google" /\ new.pc = "server"
  \/ old.pc = "server" /\ new.pc = "record"
  \/ /\ new.touched => old.touched
     /\ \/ new.pc = old.pc /\ new.left = old.left /\ new.job = old.job
        \/ old.pc = "idle" /\ new.pc = "policy"
        \/ old.pc \in {"idle", "policy"} /\ new.pc = "local" /\ new.left = Local
        \/ /\ old.pc = "local" /\ old.left # {} /\ old.job = NoFlow
           /\ new.pc = "local" /\ new.left = old.left /\ new.job # NoFlow
        \/ /\ old.pc = "local" /\ old.left # {} /\ old.job # NoFlow
           /\ table[NextKind(old.left)][old.job] = "completed"
           /\ new.pc = "local" /\ new.left = old.left \ {NextKind(old.left)}
        \/ old.pc = "local" /\ old.left = {} /\ new.pc = "google"

Moved == \A f \in Flows : Move(flows[f], flows'[f], exports)

\* A flow that moves on, and nothing else, is a move.
LEMMA AdvanceMoves ==
  ASSUME PublishTypeOK, NEW f \in Flows, NEW flow, Advance(f, flow), Move(flows[f], flow, exports)
  PROVE  Moved
<1> SUFFICES ASSUME NEW g \in Flows PROVE Move(flows[g], flows'[g], exports)
  BY DEF Moved
<1>1. CASE g = f
  <2>1. flows'[g] = flow
    BY <1>1 DEF PublishTypeOK, Advance
  <2> QED BY <2>1, <1>1
<1>2. CASE g # f
  <2>1. flows'[g] = flows[g]
    BY <1>2 DEF PublishTypeOK, Advance
  <2> QED BY <2>1 DEF Move
<1> QED BY <1>1, <1>2

\* A flow that is over has nothing under way.
LEMMA OverFields ==
  /\ Over.pc = "over" /\ Over.here = FALSE /\ Over.days = {} /\ Over.touched = FALSE
  /\ Over.errors = FALSE /\ Over.left = {}
BY DEF Over, Flow

\* To end a flow is a move.
LEMMA EndMoves ==
  ASSUME PublishTypeOK, NEW f \in Flows, Advance(f, Over)
  PROVE  Moved
<1>1. Move(flows[f], Over, exports)
  BY OverFields DEF Move
<1> QED BY <1>1, AdvanceMoves

\* So is to finish it, with its failure recorded or not.
LEMMA FinishMoves ==
  ASSUME PublishTypeOK, NEW f \in Flows, Finish(f) \/ Throws(f)
  PROVE  Moved
BY EndMoves DEF Finish, Throws

\* Every flow that begins begins with all its documents before it.
LEMMA BegunFlow ==
  ASSUME NEW flow \in FlowRecord
  PROVE  /\ Begun(flow) \in FlowRecord
         /\ Begun(flow).pc = "local" /\ Begun(flow).left = Local
         /\ Begun(flow).touched = flow.touched /\ Begun(flow).here = flow.here
         /\ Begun(flow).days = flow.days /\ Begun(flow).records = flow.records
BY DEF Begun, FlowRecord

\* The click is a move that keeps the types.
LEMMA ConfirmMoves ==
  ASSUME PublishTypeOK, NEW f \in Flows, Confirm(f)
  PROVE  PublishTypeOK' /\ Moved
<1> DEFINE flow == Flow("policy", preview.scope, Publishable(preview.days), schedule, pageRecords)
<1>1. flow \in FlowRecord
  BY FlowType DEF PublishTypeOK, Publishable
<1>2. flow.pc = "policy" /\ ~flow.touched /\ flow.days = Publishable(preview.days)
  BY DEF Flow
<1>3. flows[f].pc = "idle"
  BY DEF Confirm
<1>4. PICK next \in FlowRecord : Advance(f, next) /\ Move(flows[f], next, exports)
  <2>1. CASE Advance(f, flow)
    <3>1. Move(flows[f], flow, exports)
      BY <1>2, <1>3 DEF Move
    <3> QED BY <3>1, <2>1, <1>1
  <2>2. CASE Advance(f, Over)
    <3>1. Move(flows[f], Over, exports)
      BY OverFields DEF Move
    <3> QED BY <3>1, <2>2, OverType
  <2>3. CASE Advance(f, Begun(flow))
    <3>1. Move(flows[f], Begun(flow), exports)
      BY <1>1, <1>2, <1>3, BegunFlow DEF Move
    <3> QED BY <3>1, <2>3, <1>1, BegunFlow
  <2> QED BY <2>1, <2>2, <2>3 DEF Confirm
<1>5. flows' \in [Flows -> FlowRecord] /\ Moved
  BY <1>4, AdvanceType, AdvanceMoves
<1>6. /\ policy' \in {"none", "loading", "acknowledged", "blocked"}
      /\ publishing' \in BOOLEAN /\ astray' \in BOOLEAN
  BY DEF Confirm, PublishTypeOK
<1> HIDE DEF flow
<1>7. UNCHANGED <<schedule, preview, pageRecords, fetching, session, exports, tasks, records,
                  google, server, unrecorded, acknowledged, turns>>
  BY DEF Confirm, outside
<1> QED BY <1>5, <1>6, <1>7 DEF PublishTypeOK

\* So is the second look at the policy.
LEMMA PolicyMoves ==
  ASSUME PublishTypeOK, NEW f \in Flows, PolicyAnswered(f)
  PROVE  PublishTypeOK' /\ Moved
<1>1. flows[f] \in FlowRecord /\ flows[f].pc = "policy"
  BY DEF PublishTypeOK, PolicyAnswered
<1>2. flows' \in [Flows -> FlowRecord] /\ Moved
  <2>1. CASE Advance(f, Over)
    BY <2>1, OverType, AdvanceType, EndMoves
  <2>2. CASE Advance(f, Begun(flows[f]))
    <3>1. Move(flows[f], Begun(flows[f]), exports)
      BY <1>1, BegunFlow DEF Move
    <3> QED BY <3>1, <2>2, <1>1, BegunFlow, AdvanceType, AdvanceMoves
  <2> QED BY <2>1, <2>2 DEF PolicyAnswered
<1>3. policy' \in {"none", "loading", "acknowledged", "blocked"} /\ publishing' \in BOOLEAN
  BY <1>1 DEF PolicyAnswered, PublishTypeOK, FlowRecord
<1>4. UNCHANGED <<schedule, preview, pageRecords, fetching, session, exports, tasks, records,
                  google, server, unrecorded, acknowledged, turns, astray>>
  BY DEF PolicyAnswered, outside
<1> QED BY <1>2, <1>3, <1>4 DEF PublishTypeOK

\* So is a document that cannot be written.
LEMMA LocalThrowsMoves ==
  ASSUME PublishTypeOK, NEW f \in Flows, LocalThrows(f)
  PROVE  PublishTypeOK' /\ Moved
<1>1. Throws(f) /\ UNCHANGED <<session, exports, tasks, acknowledged, turns, astray>>
  BY DEF LocalThrows
<1> QED BY <1>1, ThrowsType, FinishMoves DEF PublishTypeOK

\* So is the start of an export, which takes one that is not begun.
LEMMA ExportBeginsMoves ==
  ASSUME PublishTypeOK, NEW f \in Flows, ExportBegins(f)
  PROVE  PublishTypeOK' /\ Moved
<1> DEFINE k == NextKind(flows[f].left)
<1>1. flows[f] \in FlowRecord /\ flows[f].pc = "local" /\ flows[f].left # {}
      /\ flows[f].job = NoFlow
  BY DEF PublishTypeOK, ExportBegins
<1>2. k \in Local
  BY <1>1, KindFacts DEF FlowRecord
<1>3. PICK g \in Flows : Advance(f, [flows[f] EXCEPT !.job = g])
  BY <1>2 DEF ExportBegins, PublishTypeOK
<1> DEFINE flow == [flows[f] EXCEPT !.job = g]
<1>4. flow \in FlowRecord /\ flow.pc = "local" /\ flow.left = flows[f].left /\ flow.job = g
      /\ flow.touched = flows[f].touched
  BY <1>1 DEF FlowRecord
<1>5. Advance(f, flow)
  BY <1>3
<1>6. session' \in [Local -> Flows \cup {NoFlow}]
  BY <1>2 DEF ExportBegins, PublishTypeOK
<1>7. exports' \in [Local -> [Flows -> {"none", "active", "completed", "failed", "cancelled"}]]
  <2>1. exports' = exports \/ exports' = [exports EXCEPT ![k][f] = "active"]
    BY DEF ExportBegins
  <2> DEFINE Runs == [Flows -> {"none", "active", "completed", "failed", "cancelled"}]
  <2>2. exports \in [Local -> Runs] /\ exports[k] \in Runs
    BY <1>2 DEF PublishTypeOK
  <2>3. [exports[k] EXCEPT ![f] = "active"] \in Runs
    BY <2>2
  <2>4. exports' = exports \/ exports' = [exports EXCEPT ![k] = [exports[k] EXCEPT ![f] = "active"]]
    BY <2>1
  <2> HIDE DEF k, Runs
  <2>5. exports' \in [Local -> Runs]
    BY <1>2, <2>2, <2>3, <2>4
  <2> QED BY <2>5 DEF Runs
<1>8. UNCHANGED <<schedule, preview, policy, pageRecords, fetching, publishing, tasks, records,
                  google, server, unrecorded, acknowledged, turns, astray>>
  BY DEF ExportBegins, Kept, outside
<1> HIDE DEF flow, k
<1>9. g # NoFlow
  BY DEF Flows, NoFlow
<1>10. Move(flows[f], flow, exports)
  BY <1>1, <1>4, <1>9 DEF Move
<1>11. flows' \in [Flows -> FlowRecord] /\ Moved
  BY <1>4, <1>5, <1>10, AdvanceType, AdvanceMoves
<1> QED BY <1>6, <1>7, <1>8, <1>11 DEF PublishTypeOK
\* So is the poll, which puts a kind behind the flow only when it is written.
LEMMA ExportSeenMoves ==
  ASSUME PublishTypeOK, NEW f \in Flows, ExportSeen(f)
  PROVE  PublishTypeOK' /\ Moved
<1> DEFINE k == NextKind(flows[f].left)
<1>1. flows[f] \in FlowRecord /\ flows[f].pc = "local" /\ flows[f].left # {}
      /\ flows[f].job # NoFlow
  BY DEF PublishTypeOK, ExportSeen
<1>2. k \in Local
  BY <1>1, KindFacts DEF FlowRecord
<1>3. session' \in [Local -> Flows \cup {NoFlow}]
  BY <1>2 DEF ExportSeen, PublishTypeOK
<1>4. UNCHANGED <<exports, acknowledged, turns, astray>>
  BY DEF ExportSeen
<1>5. CASE /\ exports[k][flows[f].job] = "completed"
           /\ Advance(f, [flows[f] EXCEPT !.left = @ \ {k}, !.job = NoFlow])
           /\ Kept /\ UNCHANGED <<publishing, outside>>
  <2> DEFINE flow == [flows[f] EXCEPT !.left = @ \ {k}, !.job = NoFlow]
  <2>1. flow \in FlowRecord /\ flow.pc = "local" /\ flow.left = flows[f].left \ {k}
        /\ flow.touched = flows[f].touched
    BY <1>1 DEF FlowRecord
  <2>2. Advance(f, flow) /\ UNCHANGED <<schedule, preview, policy, pageRecords, fetching,
                                        publishing, tasks, records, google, server, unrecorded>>
    BY <1>5 DEF Kept, outside
  <2>3. Move(flows[f], flow, exports)
    BY <1>1, <1>5, <2>1 DEF Move
  <2> HIDE DEF flow
  <2>4. flows' \in [Flows -> FlowRecord] /\ Moved
    BY <2>1, <2>2, <2>3, AdvanceType, AdvanceMoves
  <2> QED BY <1>3, <1>4, <2>2, <2>4 DEF PublishTypeOK
<1>6. CASE Throws(f) /\ UNCHANGED tasks
  BY <1>3, <1>4, <1>6, ThrowsType, FinishMoves DEF PublishTypeOK
<1>7. CASE Finish(f) /\ Kept /\ UNCHANGED outside
  BY <1>3, <1>4, <1>7, FinishType, FinishMoves DEF PublishTypeOK, Kept, outside
<1> QED BY <1>5, <1>6, <1>7 DEF ExportSeen

\* So is the finalisation.
LEMMA FinaliseMoves ==
  ASSUME PublishTypeOK, NEW f \in Flows, Finalise(f)
  PROVE  PublishTypeOK' /\ Moved
<1>1. flows[f] \in FlowRecord /\ flows[f].pc = "local" /\ flows[f].left = {}
  BY DEF PublishTypeOK, Finalise
<1>2. tasks' \in Contents
  BY <1>1 DEF Finalise, PublishTypeOK, FlowRecord
<1>3. UNCHANGED <<session, exports, acknowledged, turns, astray>>
  BY DEF Finalise
<1>4. CASE /\ Advance(f, [flows[f] EXCEPT !.pc = "google"])
           /\ Kept /\ UNCHANGED <<publishing, records, google, server, unrecorded>>
  <2> DEFINE flow == [flows[f] EXCEPT !.pc = "google"]
  <2>1. flow \in FlowRecord /\ flow.pc = "google" /\ flow.touched = flows[f].touched
    BY <1>1 DEF FlowRecord
  <2>2. Advance(f, flow) /\ UNCHANGED <<schedule, preview, policy, pageRecords, fetching,
                                        publishing, records, google, server, unrecorded>>
    BY <1>4 DEF Kept
  <2>3. Move(flows[f], flow, exports)
    BY <1>1, <2>1 DEF Move
  <2> HIDE DEF flow
  <2>4. flows' \in [Flows -> FlowRecord] /\ Moved
    BY <2>1, <2>2, <2>3, AdvanceType, AdvanceMoves
  <2> QED BY <1>2, <1>3, <2>2, <2>4 DEF PublishTypeOK
<1>5. CASE Throws(f)
  BY <1>2, <1>3, <1>5, ThrowsType, FinishMoves DEF PublishTypeOK
<1> QED BY <1>4, <1>5 DEF Finalise

\* What is sent of a day is what a calendar date holds.
LEMMA EntriesType ==
  ASSUME PublishTypeOK, NEW d \in Days, NEW lost
  PROVE  EntriesOf(d, lost) \in CalendarDate
<1>1. d - 1 \in Nights => d - 1 \in Days
  BY PublishingAssumption
<1>2. tasks[d] \in 0..Versions /\ (d - 1 \in Nights => tasks[d - 1] \in 0..Versions)
  BY <1>1 DEF PublishTypeOK, Contents
<1>3. 0 \in 0..Versions
  BY PublishingAssumption
<1> QED BY <1>2, <1>3 DEF EntriesOf, CalendarDate

\* A publish to the calendar leaves a calendar.
LEMMA CalendarType ==
  ASSUME PublishTypeOK, NEW S, NEW lost
  PROVE  CalendarAfter(S, lost) \in [Days -> CalendarDate]
BY EntriesType DEF CalendarAfter, PublishTypeOK

\* So does one that stops.
LEMMA StoppedType ==
  ASSUME PublishTypeOK, NEW S, NEW at
  PROVE  CalendarStopped(S, at) \in [Days -> CalendarDate]
<1> SUFFICES ASSUME NEW d \in Days PROVE CalendarStopped(S, at)[d] \in CalendarDate
  BY DEF CalendarStopped
<1>1. google[d] \in CalendarDate
  BY DEF PublishTypeOK
<1>2. CASE d \in S
  BY <1>2, EntriesType DEF CalendarStopped
<1>3. CASE d \notin S
  <2>1. CalendarStopped(S, at)[d] = [google[d] EXCEPT !.whole = @ /\ d \notin at]
    BY <1>3 DEF CalendarStopped
  <2> QED BY <1>1, <2>1 DEF CalendarDate
<1> QED BY <1>2, <1>3

\* So the answer of Google is a move that keeps the types.
LEMMA GoogleMoves ==
  ASSUME PublishTypeOK, NEW f \in Flows, GoogleAnswered(f)
  PROVE  PublishTypeOK' /\ Moved
<1>1. flows[f] \in FlowRecord /\ flows[f].pc = "google"
  BY DEF PublishTypeOK, GoogleAnswered
<1>2. google' \in [Days -> CalendarDate]
  <2>1. \/ google' = google
        \/ \E S, lost : google' = CalendarAfter(S, lost)
        \/ \E S, at : google' = CalendarStopped(S, at)
    BY DEF GoogleAnswered
  <2> QED BY <2>1, CalendarType, StoppedType DEF PublishTypeOK
<1>3. PICK failed \in BOOLEAN, touched \in BOOLEAN :
        Advance(f, [flows[f] EXCEPT !.pc = "server", !.errors = failed, !.touched = touched])
  BY DEF GoogleAnswered
<1> DEFINE flow == [flows[f] EXCEPT !.pc = "server", !.errors = failed, !.touched = touched]
<1>4. flow \in FlowRecord /\ flow.pc = "server"
  BY <1>1 DEF FlowRecord
<1>5. Move(flows[f], flow, exports)
  BY <1>1, <1>4 DEF Move
<1>6. Advance(f, flow)
  BY <1>3
<1> HIDE DEF flow
<1>7. flows' \in [Flows -> FlowRecord] /\ Moved
  BY <1>4, <1>5, <1>6, AdvanceType, AdvanceMoves
<1>8. UNCHANGED <<schedule, preview, policy, pageRecords, fetching, publishing, session, exports,
                  tasks, records, server, unrecorded, acknowledged, turns, astray>>
  BY DEF GoogleAnswered, Kept
<1> QED BY <1>2, <1>7, <1>8 DEF PublishTypeOK

\* So is the answer of MP-Backend.
LEMMA ServerMoves ==
  ASSUME PublishTypeOK, NEW f \in Flows, ServerAnswered(f)
  PROVE  PublishTypeOK' /\ Moved
<1>1. flows[f] \in FlowRecord /\ flows[f].pc = "server"
  BY DEF PublishTypeOK, ServerAnswered
<1>2. server' \in Contents
  <2>1. ServerAfter(flows[f].days) \in Contents
    BY DEF ServerAfter, Contents, PublishTypeOK
  <2> QED BY <2>1 DEF ServerAnswered, PublishTypeOK
<1>3. UNCHANGED <<schedule, preview, pageRecords, fetching, session, exports, tasks, records,
                  google, acknowledged, turns, astray>>
  BY DEF ServerAnswered
<1>4. ASSUME NEW failed \in BOOLEAN, UNCHANGED <<publishing, policy, unrecorded>>,
             Advance(f, [flows[f] EXCEPT !.pc = "record", !.touched = TRUE, !.errors = @ \/ failed])
      PROVE  PublishTypeOK' /\ Moved
  <2> DEFINE flow == [flows[f] EXCEPT !.pc = "record", !.touched = TRUE, !.errors = @ \/ failed]
  <2>1. flow \in FlowRecord /\ flow.pc = "record"
    <3>1. (flows[f].errors \/ failed) \in BOOLEAN
      BY <1>1
    <3> QED BY <3>1, <1>1 DEF FlowRecord
  <2>2. Move(flows[f], flow, exports)
    BY <1>1, <2>1 DEF Move
  <2>3. Advance(f, flow)
    BY <1>4
  <2> HIDE DEF flow
  <2>4. flows' \in [Flows -> FlowRecord] /\ Moved
    BY <2>1, <2>2, <2>3, AdvanceType, AdvanceMoves
  <2> QED BY <1>2, <1>3, <1>4, <2>4 DEF PublishTypeOK
<1>5. ASSUME Finish(f), policy' = IF flows[f].here THEN "loading" ELSE policy,
             unrecorded' = unrecorded \cup (IF flows[f].touched THEN flows[f].days ELSE {})
      PROVE  PublishTypeOK' /\ Moved
  <2>1. unrecorded' \subseteq Days
    BY <1>1, <1>5 DEF PublishTypeOK, FlowRecord
  <2>2. policy' \in {"none", "loading", "acknowledged", "blocked"}
    BY <1>5 DEF PublishTypeOK
  <2> QED BY <1>2, <1>3, <1>5, <2>1, <2>2, FinishType, FinishMoves DEF PublishTypeOK
<1>6. (\E lost \in BOOLEAN : Advance(f, [flows[f] EXCEPT !.pc = "record", !.touched = TRUE,
                                          !.errors = @ \/ (PolicyRequired /\ lost)]))
      => \E failed \in BOOLEAN : Advance(f, [flows[f] EXCEPT !.pc = "record", !.touched = TRUE,
                                                            !.errors = @ \/ failed])
  OBVIOUS
<1> QED BY <1>4, <1>5, <1>6 DEF ServerAnswered

\* The records of a finished flow are records.
LEMMA NextRecordsType ==
  ASSUME NEW flow \in FlowRecord
  PROVE  NextRecords(flow) \in DayRecords
BY DEF NextRecords, DayRecords, FlowRecord, Contents

\* So the save of the records is a move that keeps the types.
LEMMA RecordMoves ==
  ASSUME PublishTypeOK, NEW f \in Flows, Record(f)
  PROVE  PublishTypeOK' /\ Moved
<1>1. flows[f] \in FlowRecord /\ Finish(f)
  BY DEF PublishTypeOK, Record
<1>2. UNCHANGED <<schedule, policy, fetching, session, exports, tasks, google, server,
                  acknowledged, turns, astray>>
  BY DEF Record
<1>3. /\ records' \in DayRecords /\ pageRecords' \in DayRecords /\ unrecorded' \subseteq Days
      /\ preview' \in [scope : {"none", "selected_day", "all_days"}, days : SUBSET Days]
  <2>1. CASE FailureRecorded(f) /\ UNCHANGED preview
    BY <2>1, FailureRecordedType DEF PublishTypeOK
  <2>2. CASE Saved(f)
    <3> DEFINE flow == flows[f]  next == NextRecords(flow)
    <3>1. next \in DayRecords /\ flow.records \in DayRecords /\ flow.days \subseteq Days
      BY <1>1, NextRecordsType DEF FlowRecord
    <3>2. \A recs \in DayRecords : WithFailure(recs, flow.days) \in DayRecords
      BY FailureType
    <3>3. preview' \in {preview, NoPreview} /\ unrecorded' \in {unrecorded, unrecorded \cup flow.days}
      BY <2>2 DEF Saved
    <3>4. /\ records' \in {records, next, WithFailure(records, flow.days), WithFailure(next, flow.days)}
          /\ pageRecords' \in {next, pageRecords, WithFailure(flow.records, flow.days),
                               WithFailure(records, flow.days), WithFailure(next, flow.days)}
      BY <2>2 DEF Saved
    <3> HIDE DEF flow, next
    <3> QED BY <3>1, <3>2, <3>3, <3>4, SmallTypes DEF PublishTypeOK
  <2> QED BY <2>1, <2>2 DEF Record
<1>4. flows' \in [Flows -> FlowRecord] /\ publishing' \in BOOLEAN /\ Moved
  BY <1>1, FinishType, FinishMoves
<1> QED BY <1>2, <1>3, <1>4 DEF PublishTypeOK

\* Hence every step of a flow is.
LEMMA FlowMoves ==
  ASSUME PublishTypeOK, NEW f \in Flows, FlowStep(f) \/ Confirm(f)
  PROVE  PublishTypeOK' /\ Moved
BY ConfirmMoves, PolicyMoves, LocalThrowsMoves, ExportBeginsMoves, ExportSeenMoves,
   FinaliseMoves, GoogleMoves, ServerMoves, RecordMoves DEF FlowStep
\* Neither those of the page nor the ends of exports move a flow; a reload
\* ends them.
LEMMA PageMoves ==
  ASSUME PublishTypeOK, Aside \/ ExportStep \/ LeavePage \/ Reload
  PROVE  Moved
<1>1. CASE Aside \/ ExportStep
  <2>1. flows' = flows
    BY <1>1 DEF Aside, ExportStep, Edit, OpenPreview, PolicyShown, ClosePreview, RecordsLoaded,
                PolicyChanges, CancelExport, ExportEnds
  <2> QED BY <2>1 DEF Moved, Move
<1>2. CASE LeavePage
  <2> SUFFICES ASSUME NEW f \in Flows PROVE Move(flows[f], flows'[f], exports)
    BY DEF Moved
  <2>1. flows[f] \in FlowRecord
    BY DEF PublishTypeOK
  <2>2. flows'[f] = [flows[f] EXCEPT !.here = FALSE] \/ flows'[f] = flows[f]
    BY <1>2 DEF LeavePage
  <2> QED BY <2>1, <2>2 DEF Move, FlowRecord
<1>3. CASE Reload
  <2> SUFFICES ASSUME NEW f \in Flows PROVE Move(flows[f], flows'[f], exports)
    BY DEF Moved
  <2>1. flows'[f] = Over \/ flows'[f] = flows[f]
    BY <1>3 DEF Reload
  <2> QED BY <2>1, OverFields DEF Move
<1> QED BY <1>1, <1>2, <1>3

\* Every step keeps the types.
LEMMA TypeStep ==
  ASSUME PublishTypeOK, [PublishNext]_pubVars
  PROVE  PublishTypeOK'
<1>1. CASE PublishNext
  BY <1>1, StepCases, PageTypes, FlowMoves
<1>2. CASE UNCHANGED pubVars
  BY <1>2 DEF PublishTypeOK, pubVars, pageVars, outside
<1> QED BY <1>1, <1>2

\* And every step is a move of the flows.
LEMMA NextMoves ==
  ASSUME PublishTypeOK, PublishNext
  PROVE  Moved
BY StepCases, PageMoves, FlowMoves

\* The application begins well typed.
LEMMA TypeInit == PublishInit => PublishTypeOK
<1> SUFFICES ASSUME PublishInit PROVE PublishTypeOK
  OBVIOUS
<1>1. [d \in Days |-> 1] \in Contents
  BY DEF Contents
<1>2. flows \in [Flows -> FlowRecord]
  BY OverType DEF PublishInit
<1>3. exports \in [Local -> [Flows -> {"none", "active", "completed", "failed", "cancelled"}]]
  BY DEF PublishInit
<1>4. acknowledged \in BOOLEAN
  <2>1. PolicyRequired \in BOOLEAN
    BY DEF PolicyRequired
  <2>2. acknowledged = PolicyRequired
    BY Zenon DEF PublishInit
  <2> QED BY Zenon, <2>1, <2>2
<1>5. /\ schedule \in Contents /\ tasks \in Contents /\ server \in Contents
      /\ pageRecords \in DayRecords /\ records \in DayRecords
      /\ preview \in [scope : {"none", "selected_day", "all_days"}, days : SUBSET Days]
      /\ google \in [Days -> CalendarDate]
  BY <1>1, SmallTypes DEF PublishInit
<1>6. turns \in 0..MaxTurns
  BY DEF PublishInit
<1>8. policy \in {"none", "loading", "acknowledged", "blocked"} /\ unrecorded \subseteq Days
  BY DEF PublishInit
<1>9. publishing \in BOOLEAN /\ fetching \in BOOLEAN /\ astray \in BOOLEAN
  BY Zenon DEF PublishInit
<1>7. session \in [Local -> Flows \cup {NoFlow}]
  BY DEF PublishInit
<1> QED BY <1>2, <1>3, <1>4, <1>5, <1>6, <1>7, <1>8, <1>9 DEF PublishTypeOK

\* The types of publishing, for all parameters.
THEOREM PublishTypeCorrect == PublishSpec => []PublishTypeOK
BY TypeInit, TypeStep, PTL DEF PublishSpec

-----------------------------------------------------------------------------
(* The documents come first *)

\* What a step does to the exports: it ends one that is active, or begins
\* the one of a flow that has come to its kind.
ExportsMoved ==
  \/ exports' = exports
  \/ \E k \in Local, f \in Flows, end \in {"completed", "failed", "cancelled"} :
       exports[k][f] = "active" /\ exports' = [exports EXCEPT ![k][f] = end]
  \/ \E f \in Flows :
       /\ flows[f].pc = "local" /\ flows[f].left # {} /\ flows[f].job = NoFlow
       /\ flows'[f].pc = "local" /\ flows'[f].left = flows[f].left /\ flows'[f].job # NoFlow
       /\ exports' = [exports EXCEPT ![NextKind(flows[f].left)][f] = "active"]

\* Exports only go on, and a completed one stays.
LEMMA NextExports ==
  ASSUME PublishTypeOK, PublishNext
  PROVE  ExportsMoved
<1>1. CASE ExportStep
  <2>1. ASSUME NEW k \in Local, CancelExport(k) PROVE ExportsMoved
    <3> DEFINE g == session[k]
    <3>1. g \in Flows /\ exports[k][g] = "active" /\ exports' = [exports EXCEPT ![k][g] = "cancelled"]
      BY <2>1 DEF CancelExport, PublishTypeOK
    <3> HIDE DEF g
    <3> QED BY <3>1 DEF ExportsMoved
  <2>2. ASSUME NEW k \in Local, NEW f \in Flows, ExportEnds(k, f) PROVE ExportsMoved
    BY <2>2 DEF ExportEnds, ExportsMoved
  <2> QED BY <1>1, <2>1, <2>2 DEF ExportStep
<1>2. ASSUME NEW f \in Flows, ExportBegins(f) PROVE ExportsMoved
  <2> DEFINE k == NextKind(flows[f].left)
  <2>1. flows[f] \in FlowRecord /\ flows[f].pc = "local" /\ flows[f].left # {}
        /\ flows[f].job = NoFlow
    BY <1>2 DEF PublishTypeOK, ExportBegins
  <2>2. exports' = exports \/ (exports' = [exports EXCEPT ![k][f] = "active"]
                               /\ Advance(f, [flows[f] EXCEPT !.job = f]))
    BY <1>2 DEF ExportBegins
  <2>3. ASSUME Advance(f, [flows[f] EXCEPT !.job = f])
        PROVE  flows'[f].pc = "local" /\ flows'[f].left = flows[f].left /\ flows'[f].job # NoFlow
    <3>1. flows'[f] = [flows[f] EXCEPT !.job = f]
      BY <2>3 DEF Advance, PublishTypeOK
    <3>2. f # NoFlow
      BY DEF Flows, NoFlow
    <3> QED BY <3>1, <3>2, <2>1 DEF FlowRecord
  <2> QED BY <2>1, <2>2, <2>3 DEF ExportsMoved
<1>3. ASSUME NEW f \in Flows, FlowStep(f) \/ Confirm(f), ~ExportBegins(f) PROVE exports' = exports
  BY <1>3 DEF FlowStep, Confirm, PolicyAnswered, LocalThrows, ExportSeen, Finalise,
              GoogleAnswered, ServerAnswered, Record
<1>4. CASE Aside \/ LeavePage \/ Reload
  <2>1. exports' = exports
    BY <1>4 DEF Aside, LeavePage, Reload, Edit, OpenPreview, PolicyShown, ClosePreview,
                RecordsLoaded, PolicyChanges
  <2> QED BY <2>1 DEF ExportsMoved
<1> QED BY <1>1, <1>2, <1>3, <1>4, StepCases DEF ExportsMoved
\* A flow that has not begun an export of a kind after a step had not before.
LEMMA StillNotBegun ==
  ASSUME PublishTypeOK, Moved, NEW f \in Flows, NEW k \in Local, NotBegun(f, k)'
  PROVE  NotBegun(f, k)
<1>1. flows[f] \in FlowRecord /\ Move(flows[f], flows'[f], exports)
  BY DEF PublishTypeOK, Moved
<1> QED BY <1>1 DEF NotBegun, Move, FlowRecord

\* No export is started for a flow that has not come to it.
LEMMA UnbegunStep ==
  ASSUME PublishTypeOK, UnbegunInv, PublishNext
  PROVE  UnbegunInv'
<1> SUFFICES ASSUME NEW k \in Local, NEW f \in Flows, NotBegun(f, k)'
             PROVE  exports'[k][f] = "none"
  BY DEF UnbegunInv
<1>1. Moved /\ ExportsMoved
  BY NextMoves, NextExports
<1>2. exports[k][f] = "none"
  BY <1>1, StillNotBegun DEF UnbegunInv
<1>3. CASE exports' = exports
  BY <1>2, <1>3
<1>4. ASSUME NEW k2 \in Local, NEW g \in Flows, NEW end, exports[k2][g] = "active",
             exports' = [exports EXCEPT ![k2][g] = end]
      PROVE  exports'[k][f] = "none"
  BY <1>2, <1>4 DEF PublishTypeOK
<1>5. ASSUME NEW g \in Flows,
             flows[g].pc = "local", flows[g].left # {},
             flows'[g].pc = "local", flows'[g].left = flows[g].left, flows'[g].job # NoFlow,
             exports' = [exports EXCEPT ![NextKind(flows[g].left)][g] = "active"]
      PROVE  exports'[k][f] = "none"
  <2>1. ~(f = g /\ k = NextKind(flows[g].left))
    BY <1>5 DEF NotBegun
  <2>2. NextKind(flows[g].left) \in Local
    BY <1>5, KindFacts DEF PublishTypeOK, FlowRecord
  <2> QED BY <1>2, <1>5, <2>1, <2>2 DEF PublishTypeOK
<1> QED BY <1>1, <1>3, <1>4, <1>5 DEF ExportsMoved

\* A document that is in the folder stays.
LEMMA WrittenStays ==
  ASSUME PublishTypeOK, UnbegunInv, PublishNext, NEW k \in Local, NEW f \in Flows,
         exports[k][f] = "completed"
  PROVE  exports'[k][f] = "completed"
<1>1. ExportsMoved
  BY NextExports
<1>2. ASSUME NEW k2 \in Local, NEW g \in Flows, NEW end, exports[k2][g] = "active",
             exports' = [exports EXCEPT ![k2][g] = end]
      PROVE  exports'[k][f] = "completed"
  BY <1>2 DEF PublishTypeOK
<1>3. ASSUME NEW g \in Flows, flows[g].pc = "local", flows[g].left # {}, flows[g].job = NoFlow,
             exports' = [exports EXCEPT ![NextKind(flows[g].left)][g] = "active"]
      PROVE  exports'[k][f] = "completed"
  <2> DEFINE kind == NextKind(flows[g].left)
  <2>1. kind \in flows[g].left /\ kind \in Local
    BY <1>3, KindFacts DEF PublishTypeOK, FlowRecord
  <2>2. exports[kind][g] = "none"
    BY <1>3, <2>1 DEF UnbegunInv, NotBegun
  <2> HIDE DEF kind
  <2>3. exports' = [exports EXCEPT ![kind][g] = "active"]
    BY <1>3 DEF kind
  <2> QED BY <2>1, <2>2, <2>3 DEF PublishTypeOK
<1> QED BY <1>1, <1>2, <1>3 DEF ExportsMoved

\* What a flow has behind it stays written.
LEMMA WrittenStep ==
  ASSUME PublishTypeOK, UnbegunInv, WrittenInv, PublishNext
  PROVE  WrittenInv'
<1>1. Moved
  BY NextMoves
<1>2. \A k \in Local : Written(k) => Written(k)'
  BY WrittenStays DEF Written
<1> SUFFICES ASSUME NEW f \in Flows
             PROVE  /\ flows'[f].pc = "local" => \A k \in Local \ flows'[f].left : Written(k)'
                    /\ flows'[f].pc \in {"google", "server", "record"} =>
                         \A k \in Local : Written(k)'
                    /\ flows'[f].touched => flows'[f].pc \in {"server", "record"}
  BY DEF WrittenInv
<1> DEFINE old == flows[f]  new == flows'[f]
<1>3. old \in FlowRecord /\ Move(old, new, exports)
  BY <1>1 DEF PublishTypeOK, Moved
<1>4. /\ old.pc = "local" => \A k \in Local \ old.left : Written(k)
      /\ old.pc \in {"google", "server", "record"} => \A k \in Local : Written(k)
      /\ old.touched => old.pc \in {"server", "record"}
  BY DEF WrittenInv
<1>5. old.left \subseteq Local /\ (old.job # NoFlow => old.job \in Flows)
  BY <1>3 DEF FlowRecord
<1> HIDE DEF old, new
<1>6. CASE /\ old.pc = "local" /\ old.left # {} /\ old.job # NoFlow
           /\ exports[NextKind(old.left)][old.job] = "completed"
           /\ new.pc = "local" /\ new.left = old.left \ {NextKind(old.left)}
           /\ new.touched => old.touched
  <2>1. Written(NextKind(old.left))
    BY <1>5, <1>6 DEF Written
  <2> QED BY <1>2, <1>4, <1>6, <2>1 DEF old, new
<1>7. CASE ~(/\ old.pc = "local" /\ old.left # {} /\ old.job # NoFlow
             /\ exports[NextKind(old.left)][old.job] = "completed"
             /\ new.pc = "local" /\ new.left = old.left \ {NextKind(old.left)})
  <2>1. new.pc = "local" => \A k \in Local \ new.left : Written(k)
    BY <1>3, <1>4, <1>7 DEF Move
  <2>2. new.pc \in {"google", "server", "record"} => \A k \in Local : Written(k)
    BY <1>3, <1>4, <1>7 DEF Move
  <2>3. new.touched => new.pc \in {"server", "record"}
    BY <1>3, <1>4, <1>7 DEF Move
  <2> QED BY <1>2, <2>1, <2>2, <2>3 DEF new
<1> QED BY <1>3, <1>6, <1>7 DEF Move
DocumentsInv == PublishTypeOK /\ UnbegunInv /\ WrittenInv

\* Hence every step keeps the invariant of the documents.
LEMMA DocumentsStep ==
  ASSUME DocumentsInv, [PublishNext]_pubVars
  PROVE  DocumentsInv'
<1>1. CASE PublishNext
  BY <1>1, TypeStep, UnbegunStep, WrittenStep DEF DocumentsInv
<1>2. CASE UNCHANGED pubVars
  BY <1>2, TypeStep DEF DocumentsInv, pubVars, UnbegunInv, WrittenInv, NotBegun, Written
<1> QED BY <1>1, <1>2

\* It holds before the first flow.
LEMMA DocumentsInit == PublishInit => DocumentsInv
<1> SUFFICES ASSUME PublishInit PROVE UnbegunInv /\ WrittenInv
  BY TypeInit DEF DocumentsInv
<1>1. \A f \in Flows : flows[f].pc = "idle" /\ ~flows[f].touched
  BY DEF PublishInit, Unconfirmed, Flow
<1>2. \A k \in Local, f \in Flows : exports[k][f] = "none"
  BY DEF PublishInit
<1> QED BY <1>1, <1>2 DEF UnbegunInv, WrittenInv

\* With the types: a flow that reached a document late in its life has
\* begun none of that kind before, and what a flow has behind it is written.
THEOREM DocumentsInvariant == PublishSpec => []DocumentsInv
BY DocumentsInit, DocumentsStep, PTL DEF PublishSpec

\* No side effect at a destination before every configured document is in
\* the folder: in every state of any number of flows, whose exports they may
\* take over from each other.
THEOREM DocumentsAreFirst == PublishSpec => []DocumentsComeFirst
<1>1. DocumentsInv => DocumentsComeFirst
  BY DEF DocumentsInv, WrittenInv, Written, DocumentsComeFirst
<1> QED BY <1>1, DocumentsInvariant, PTL
-----------------------------------------------------------------------------
(* The records are true *)

\* The records of the days outside gone agree with the destinations.
Agreeing(recs, gone, calendar, version) ==
  \A d \in Days \ gone : Agrees(recs[d], calendar[d], version[d])

TouchedBy(flow) == IF flow.touched THEN flow.days ELSE {}

Resting(flow) == flow.pc \in {"idle", "over"} /\ ~flow.touched

\* What the invariant says while flow f is the only one that may go on.
AloneWith(f, table, flow) ==
  /\ table \in [Flows -> FlowRecord]
  /\ table[f] = flow
  /\ \A g \in Flows \ {f} : Resting(table[g])
  /\ Resting(flow) \/ (flow.pc \notin {"idle", "over"} /\ flow.here)

\* What the invariant says of the only flow, or of one that is about to begin.
LEMMA AloneFacts ==
  ASSUME DocumentsInv, AloneInv, RecordsInv, SentInv, NEW f \in Flows,
         f \in UnderWay \/ UnderWay = {}
  PROVE  /\ AloneWith(f, flows, flows[f])
         /\ Agreeing(records, unrecorded \cup TouchedBy(flows[f]), google, server)
         /\ Agreeing(pageRecords, unrecorded \cup TouchedBy(flows[f]), google, server)
         /\ f \in UnderWay =>
              Agreeing(flows[f].records, unrecorded \cup flows[f].days, google, server)
         /\ Sent(flows[f], tasks, google, server)
<1>1. \A g \in Flows \ {f} : Resting(flows[g])
  BY DEF AloneInv, UnderWay, DocumentsInv, PublishTypeOK, WrittenInv, FlowRecord, Resting
<1>2. AloneWith(f, flows, flows[f])
  BY <1>1 DEF AloneInv, UnderWay, DocumentsInv, PublishTypeOK, WrittenInv, FlowRecord, Resting,
              AloneWith
<1>3. \A d \in Days : Between(d) => d \in unrecorded \cup TouchedBy(flows[f])
  BY <1>1 DEF Between, TouchedBy, Resting
<1>4. /\ Agreeing(records, unrecorded \cup TouchedBy(flows[f]), google, server)
      /\ Agreeing(pageRecords, unrecorded \cup TouchedBy(flows[f]), google, server)
  BY <1>3 DEF RecordsInv, Agreeing
<1>5. f \in UnderWay =>
        Agreeing(flows[f].records, unrecorded \cup flows[f].days, google, server)
  BY DEF RecordsInv, Agreeing
<1> QED BY <1>2, <1>4, <1>5 DEF SentInv

\* And conversely, after a step that left f with what flow is.
LEMMA FactsAlone ==
  ASSUME NEW f \in Flows, NEW flow,
         AloneWith(f, flows', flow),
         Agreeing(records', unrecorded' \cup TouchedBy(flow), google', server'),
         Agreeing(pageRecords', unrecorded' \cup TouchedBy(flow), google', server'),
         flow.pc \notin {"idle", "over"} =>
           Agreeing(flow.records, unrecorded' \cup flow.days, google', server'),
         Sent(flow, tasks', google', server')
  PROVE  HonestInv'
<1>1. \A g \in UnderWay' : g = f /\ flows'[g].here
  BY DEF AloneWith, Resting, UnderWay
<1>2. AloneInv'
  BY <1>1 DEF AloneInv
<1>3. \A d \in Days : d \in unrecorded' \cup TouchedBy(flow) => Between(d)'
  BY DEF AloneWith, TouchedBy, Between
<1>4. RecordsInv'
  BY <1>1, <1>3 DEF RecordsInv, Agreeing, AloneWith, UnderWay
<1>5. \A g \in Flows \ {f} : Sent(flows'[g], tasks', google', server')
  BY DEF AloneWith, Resting, Sent
<1>6. SentInv'
  BY <1>5 DEF SentInv, AloneWith
<1> QED BY <1>2, <1>4, <1>6 DEF HonestInv

\* A flow that moves on stays alone.
LEMMA AdvanceAlone ==
  ASSUME NEW f \in Flows, AloneWith(f, flows, flows[f]), NEW flow \in FlowRecord, Advance(f, flow),
         Resting(flow) \/ (flow.pc \notin {"idle", "over"} /\ flow.here)
  PROVE  AloneWith(f, flows', flow)
BY DEF AloneWith, Advance

\* A flow that ends leaves nothing behind but what is noted as unrecorded.
LEMMA OverAlone ==
  ASSUME NEW f \in Flows, AloneWith(f, flows, flows[f]), Advance(f, Over),
         Agreeing(records', unrecorded', google', server'),
         Agreeing(pageRecords', unrecorded', google', server')
  PROVE  HonestInv'
<1>1. AloneWith(f, flows', Over)
  BY OverType, OverFields, AdvanceAlone DEF Resting
<1>2. TouchedBy(Over) = {} /\ Over.pc = "over"
  BY OverFields DEF TouchedBy
<1>3. Sent(Over, tasks', google', server')
  BY <1>2 DEF Sent
<1>4. unrecorded' \cup TouchedBy(Over) = unrecorded'
  BY <1>2
<1> QED BY <1>1, <1>2, <1>3, <1>4, FactsAlone

\* The failure of the days of a flow is true of them, whatever they hold.
LEMMA FailureAgrees ==
  ASSUME NEW recs \in DayRecords, NEW S, NEW gone, NEW calendar, NEW version,
         Agreeing(recs, gone \cup S, calendar, version)
  PROVE  Agreeing(WithFailure(recs, S), gone, calendar, version)
<1> SUFFICES ASSUME NEW d \in Days \ gone
             PROVE  Agrees(WithFailure(recs, S)[d], calendar[d], version[d])
  BY DEF Agreeing
<1>1. CASE d \in S
  <2>1. WithFailure(recs, S)[d].failed
    BY <1>1 DEF WithFailure, DayRecords
  <2> QED BY <2>1 DEF Agrees
<1>2. CASE d \notin S
  <2>1. WithFailure(recs, S)[d] = recs[d]
    BY <1>2 DEF WithFailure
  <2> QED BY <1>2, <2>1 DEF Agreeing
<1> QED BY <1>1, <1>2

\* Records that agree on some days agree on fewer.
LEMMA LessAgrees ==
  ASSUME NEW recs, NEW gone, NEW more, NEW calendar, NEW version,
         gone \subseteq more, Agreeing(recs, gone, calendar, version)
  PROVE  Agreeing(recs, more, calendar, version)
BY DEF Agreeing
\* All that is known when the flow f, the only one, takes a step.
Alone(f) ==
  /\ f \in Flows /\ flows[f] \in FlowRecord /\ flows[f].here
  /\ AloneWith(f, flows, flows[f])
  /\ flows[f].touched => flows[f].pc \in {"server", "record"}
  /\ Agreeing(records, unrecorded \cup TouchedBy(flows[f]), google, server)
  /\ Agreeing(pageRecords, unrecorded \cup TouchedBy(flows[f]), google, server)
  /\ Agreeing(flows[f].records, unrecorded \cup flows[f].days, google, server)
  /\ Sent(flows[f], tasks, google, server)

\* A flow under way is alone with its records.
LEMMA AloneUnderWay ==
  ASSUME DocumentsInv, AloneInv, RecordsInv, SentInv, NEW f \in UnderWay
  PROVE  Alone(f)
<1>1. f \in Flows
  BY DEF UnderWay
<1>2. flows[f] \in FlowRecord /\ (flows[f].touched => flows[f].pc \in {"server", "record"})
  BY <1>1 DEF DocumentsInv, PublishTypeOK, WrittenInv
<1> QED BY <1>1, <1>2, AloneFacts DEF Alone, AloneInv

\* The record of a failure leaves out the days that were touched.
LEMMA FailureHonest ==
  ASSUME PublishTypeOK, NEW f, Alone(f), FailureRecorded(f), UNCHANGED <<google, server>>
  PROVE  /\ Agreeing(records', unrecorded', google', server')
         /\ Agreeing(pageRecords', unrecorded', google', server')
<1> DEFINE flow == flows[f]
<1>1. flow \in FlowRecord /\ flow.here /\ flow.records \in DayRecords /\ records \in DayRecords
  BY DEF Alone, PublishTypeOK, FlowRecord
<1>2. TouchedBy(flow) \subseteq flow.days
  BY DEF TouchedBy
<1>3. Agreeing(records, unrecorded \cup flow.days, google, server)
  BY <1>2 DEF Alone, Agreeing
<1>4. /\ Agreeing(WithFailure(records, flow.days), unrecorded, google, server)
      /\ Agreeing(WithFailure(flow.records, flow.days), unrecorded, google, server)
  BY <1>1, <1>3, FailureAgrees DEF Alone
<1>5. CASE /\ records' = WithFailure(records, flow.days) /\ pageRecords' = records'
           /\ UNCHANGED unrecorded
  BY <1>4, <1>5
<1>6. CASE /\ records' = records /\ pageRecords' = WithFailure(flow.records, flow.days)
           /\ unrecorded' = unrecorded \cup TouchedBy(flow)
  <2>1. Agreeing(records, unrecorded', google, server)
    BY <1>6 DEF Alone
  <2>2. Agreeing(WithFailure(flow.records, flow.days), unrecorded', google, server)
    BY <1>4, <1>6, LessAgrees
  <2> QED BY <1>6, <2>1, <2>2
<1> QED BY <1>1, <1>5, <1>6 DEF FailureRecorded, TouchedBy

\* A flow that throws leaves true records.
LEMMA ThrowsHonest ==
  ASSUME PublishTypeOK, NEW f, Alone(f), Throws(f)
  PROVE  HonestInv'
<1>1. f \in Flows /\ AloneWith(f, flows, flows[f]) /\ Advance(f, Over)
  BY DEF Alone, Throws, Finish
<1> QED BY <1>1, FailureHonest, OverAlone DEF Throws

\* A flow that ends untouched, or whose days are noted, and changes nothing.
LEMMA EndHonest ==
  ASSUME NEW f, Alone(f), Advance(f, Over),
         UNCHANGED <<records, pageRecords, google, server>>,
         unrecorded' = unrecorded \cup TouchedBy(flows[f])
  PROVE  HonestInv'
<1>1. f \in Flows /\ AloneWith(f, flows, flows[f])
  BY DEF Alone
<1>2. /\ Agreeing(records', unrecorded', google', server')
      /\ Agreeing(pageRecords', unrecorded', google', server')
  BY DEF Alone
<1> QED BY <1>1, <1>2, OverAlone

\* A flow that goes on with its days, its snapshot and its errors.
LEMMA OnHonest ==
  ASSUME NEW f, Alone(f), NEW flow \in FlowRecord, Advance(f, flow),
         flow.pc \notin {"idle", "over"}, flow.here, ~flow.touched, ~flows[f].touched,
         flow.days = flows[f].days, flow.records = flows[f].records,
         Sent(flow, tasks', google', server'),
         UNCHANGED <<records, pageRecords, google, server, unrecorded>>
  PROVE  HonestInv'
<1>1. f \in Flows /\ AloneWith(f, flows', flow)
  BY AdvanceAlone DEF Alone
<1>2. TouchedBy(flow) = TouchedBy(flows[f])
  BY DEF TouchedBy
<1>3. /\ Agreeing(records', unrecorded' \cup TouchedBy(flow), google', server')
      /\ Agreeing(pageRecords', unrecorded' \cup TouchedBy(flow), google', server')
      /\ Agreeing(flow.records, unrecorded' \cup flow.days, google', server')
  BY <1>2 DEF Alone
<1> QED BY <1>1, <1>3, FactsAlone

\* The flow up to its documents and with them.
LEMMA PolicyHonest ==
  ASSUME PublishTypeOK, NEW f, Alone(f), PolicyAnswered(f)
  PROVE  HonestInv'
<1> DEFINE flow == Begun(flows[f])
<1>1. flows[f].pc = "policy" /\ ~flows[f].touched /\ flows[f] \in FlowRecord /\ flows[f].here
  BY DEF PolicyAnswered, Alone
<1>2. UNCHANGED <<records, pageRecords, google, server, unrecorded>>
  BY DEF PolicyAnswered, outside
<1>3. CASE Advance(f, flow)
  <2>1. /\ flow \in FlowRecord /\ flow.pc = "local" /\ flow.here /\ ~flow.touched
        /\ flow.days = flows[f].days /\ flow.records = flows[f].records
    BY <1>1, BegunFlow
  <2> HIDE DEF flow
  <2>2. Sent(flow, tasks', google', server')
    BY <2>1 DEF Sent
  <2> QED BY <1>1, <1>2, <1>3, <2>1, <2>2, OnHonest
<1>4. CASE Advance(f, Over)
  <2>1. unrecorded' = unrecorded \cup TouchedBy(flows[f])
    BY <1>1, <1>2 DEF TouchedBy
  <2> QED BY <1>2, <1>4, <2>1, EndHonest
<1> QED BY <1>3, <1>4 DEF PolicyAnswered

\* The documents change no destination and no record.
LEMMA LocalHonest ==
  ASSUME PublishTypeOK, NEW f, Alone(f), LocalThrows(f) \/ ExportBegins(f) \/ ExportSeen(f)
  PROVE  HonestInv'
<1>1. /\ flows[f].pc = "local" /\ ~flows[f].touched /\ flows[f] \in FlowRecord /\ flows[f].here
      /\ f \in Flows
  BY DEF LocalThrows, ExportBegins, ExportSeen, Alone
<1>2. ASSUME UNCHANGED <<tasks, records, pageRecords, google, server, unrecorded>>,
             NEW left \in SUBSET Local, NEW job \in Flows \cup {NoFlow},
             Advance(f, [flows[f] EXCEPT !.left = left, !.job = job])
      PROVE  HonestInv'
  <2> DEFINE flow == [flows[f] EXCEPT !.left = left, !.job = job]
  <2>1. /\ flow \in FlowRecord /\ flow.pc = "local" /\ flow.here /\ ~flow.touched
        /\ flow.days = flows[f].days /\ flow.records = flows[f].records
    BY <1>1 DEF FlowRecord
  <2>2. Advance(f, flow)
    BY <1>2
  <2> HIDE DEF flow
  <2>3. Sent(flow, tasks', google', server')
    BY <2>1 DEF Sent
  <2> QED BY <1>1, <1>2, <2>1, <2>2, <2>3, OnHonest
<1>3. CASE Throws(f)
  BY <1>3, ThrowsHonest
<1>4. CASE ExportBegins(f)
  <2>1. UNCHANGED <<tasks, records, pageRecords, google, server, unrecorded>>
    BY <1>4 DEF ExportBegins, Kept, outside
  <2>2. NextKind(flows[f].left) \in Local
    BY <1>1, <1>4, KindFacts DEF ExportBegins, FlowRecord
  <2>3. PICK g \in Flows : Advance(f, [flows[f] EXCEPT !.job = g])
    BY <1>1, <1>4, <2>2 DEF ExportBegins, PublishTypeOK
  <2>4. [flows[f] EXCEPT !.job = g] = [flows[f] EXCEPT !.left = flows[f].left, !.job = g]
        /\ flows[f].left \in SUBSET Local
    BY <1>1 DEF FlowRecord
  <2> QED BY <1>2, <2>1, <2>3, <2>4
<1>5. CASE ExportSeen(f) /\ ~Throws(f)
  <2>1. CASE /\ Advance(f, [flows[f] EXCEPT !.left = @ \ {NextKind(flows[f].left)}, !.job = NoFlow])
             /\ Kept /\ UNCHANGED <<publishing, outside>>
    <3>1. flows[f].left \ {NextKind(flows[f].left)} \in SUBSET Local
      BY <1>1 DEF FlowRecord
    <3>2. UNCHANGED <<tasks, records, pageRecords, google, server, unrecorded>>
      BY <2>1 DEF Kept, outside
    <3> QED BY <1>2, <2>1, <3>1, <3>2
  <2>2. CASE Finish(f) /\ Kept /\ UNCHANGED outside
    <3>1. /\ UNCHANGED <<records, pageRecords, google, server, unrecorded>> /\ Advance(f, Over)
          /\ unrecorded' = unrecorded \cup TouchedBy(flows[f])
      BY <1>1, <2>2 DEF Kept, outside, Finish, TouchedBy
    <3> QED BY <3>1, EndHonest
  <2> QED BY <1>5, <2>1, <2>2 DEF ExportSeen
<1> QED BY <1>3, <1>4, <1>5 DEF LocalThrows
\* From the task table on.
LEMMA FinaliseHonest ==
  ASSUME PublishTypeOK, NEW f, Alone(f), Finalise(f)
  PROVE  HonestInv'
<1>1. flows[f].pc = "local" /\ ~flows[f].touched /\ flows[f] \in FlowRecord /\ flows[f].here
  BY DEF Finalise, Alone
<1>2. CASE /\ tasks' = flows[f].schedule /\ Advance(f, [flows[f] EXCEPT !.pc = "google"])
           /\ Kept /\ UNCHANGED <<publishing, records, google, server, unrecorded>>
  <2> DEFINE flow == [flows[f] EXCEPT !.pc = "google"]
  <2>1. /\ flow \in FlowRecord /\ flow.pc = "google" /\ flow.here /\ ~flow.touched
        /\ flow.days = flows[f].days /\ flow.records = flows[f].records
        /\ flow.schedule = flows[f].schedule
    BY <1>1 DEF FlowRecord
  <2>2. Advance(f, flow) /\ UNCHANGED <<records, pageRecords, google, server, unrecorded>>
    BY <1>2 DEF Kept
  <2> HIDE DEF flow
  <2>3. Sent(flow, tasks', google', server')
    BY <1>2, <2>1 DEF Sent
  <2> QED BY <1>1, <2>1, <2>2, <2>3, OnHonest
<1>3. CASE Throws(f)
  BY <1>3, ThrowsHonest
<1> QED BY <1>2, <1>3 DEF Finalise

\* A flow that goes on after it has touched its days.
LEMMA TouchedHonest ==
  ASSUME NEW f, Alone(f), NEW flow \in FlowRecord, Advance(f, flow),
         flow.pc \in {"server", "record"}, flow.here, flow.touched,
         flow.days = flows[f].days, flow.records = flows[f].records,
         Sent(flow, tasks', google', server'),
         \A d \in Days \ flow.days : google'[d].version = google[d].version
                                     /\ server'[d] = server[d],
         UNCHANGED <<records, pageRecords, unrecorded>>
  PROVE  HonestInv'
<1>1. f \in Flows /\ AloneWith(f, flows', flow)
  BY AdvanceAlone DEF Alone
<1>2. TouchedBy(flow) = flow.days /\ TouchedBy(flows[f]) \subseteq flow.days
  BY DEF TouchedBy
<1>3. /\ Agreeing(records, unrecorded \cup flow.days, google, server)
      /\ Agreeing(pageRecords, unrecorded \cup flow.days, google, server)
      /\ Agreeing(flow.records, unrecorded \cup flow.days, google, server)
  BY <1>2 DEF Alone, Agreeing
<1>4. ASSUME NEW recs, Agreeing(recs, unrecorded \cup flow.days, google, server)
      PROVE  Agreeing(recs, unrecorded \cup flow.days, google', server')
  BY <1>4 DEF Agreeing, Agrees
<1> QED BY <1>1, <1>2, <1>3, <1>4, FactsAlone

\* A publish changes the version of its own days only.
LEMMA CalendarVersions ==
  ASSUME NEW S \in SUBSET Days, NEW lost, NEW d \in Days
  PROVE  /\ d \in S => CalendarAfter(S, lost)[d].version = tasks[d]
         /\ d \notin S => CalendarAfter(S, lost)[d].version = google[d].version
BY DEF CalendarAfter, EntriesOf

\* One that stops changes that of no other days either.
LEMMA StoppedVersions ==
  ASSUME PublishTypeOK, NEW S \in SUBSET Days, NEW at, NEW d \in Days \ S
  PROVE  CalendarStopped(S, at)[d].version = google[d].version
<1>1. CalendarStopped(S, at)[d] = [google[d] EXCEPT !.whole = @ /\ d \notin at]
  BY DEF CalendarStopped
<1>2. google[d] \in CalendarDate
  BY DEF PublishTypeOK
<1> QED BY <1>1, <1>2 DEF CalendarDate

\* After Google the flow's days are touched, and hold the snapshot.
LEMMA GoogleHonest ==
  ASSUME PublishTypeOK, NEW f, Alone(f), GoogleAnswered(f)
  PROVE  HonestInv'
<1>1. /\ flows[f].pc = "google" /\ flows[f] \in FlowRecord /\ flows[f].here
      /\ ~flows[f].touched /\ flows[f].days \subseteq Days /\ tasks = flows[f].schedule
  BY DEF GoogleAnswered, Alone, Sent, FlowRecord
<1>2. UNCHANGED <<records, pageRecords, tasks, server, unrecorded>>
  BY DEF GoogleAnswered, Kept
<1> DEFINE To(failed, touched) ==
             [flows[f] EXCEPT !.pc = "server", !.errors = failed, !.touched = touched]
<1>3. \A failed, touched \in BOOLEAN :
        /\ To(failed, touched) \in FlowRecord /\ To(failed, touched).pc = "server"
        /\ To(failed, touched).here /\ To(failed, touched).errors = failed
        /\ To(failed, touched).touched = touched /\ To(failed, touched).days = flows[f].days
        /\ To(failed, touched).records = flows[f].records
        /\ To(failed, touched).schedule = flows[f].schedule
  BY <1>1 DEF FlowRecord
<1>4. CASE "google" \notin Targets
  <2> DEFINE flow == To(FALSE, FALSE)
  <2>1. Advance(f, flow) /\ UNCHANGED google
    BY <1>4 DEF GoogleAnswered
  <2>2. /\ flow \in FlowRecord /\ flow.pc = "server" /\ flow.here /\ ~flow.touched
        /\ flow.days = flows[f].days /\ flow.records = flows[f].records
        /\ flow.schedule = flows[f].schedule
    BY <1>3
  <2> HIDE DEF flow, To
  <2>3. Sent(flow, tasks', google', server')
    BY <1>1, <1>2, <1>4, <2>2 DEF Sent
  <2> QED BY <1>1, <1>2, <2>1, <2>2, <2>3, OnHonest
<1>5. ASSUME "google" \in Targets, NEW failed \in BOOLEAN, NEW S \in SUBSET flows[f].days, NEW lost,
             Advance(f, To(failed, TRUE)),
             \/ google' = CalendarAfter(S, lost) /\ (failed \/ S = flows[f].days)
             \/ google' = CalendarStopped(S, lost) /\ failed
      PROVE  HonestInv'
  <2> DEFINE flow == To(failed, TRUE)
  <2>1. /\ flow \in FlowRecord /\ flow.pc = "server" /\ flow.here /\ flow.touched
        /\ flow.errors = failed /\ flow.days = flows[f].days /\ flow.records = flows[f].records
        /\ flow.schedule = flows[f].schedule
    BY <1>3
  <2>2. Advance(f, flow)
    BY <1>5
  <2> HIDE DEF flow, To
  <2>3. S \in SUBSET Days
    BY <1>1
  <2>4. \A d \in Days \ flow.days : google'[d].version = google[d].version /\ server'[d] = server[d]
    BY <1>2, <1>5, <2>1, <2>3, CalendarVersions, StoppedVersions
  <2>5. ~flow.errors => \A d \in flow.days : google'[d].version = flow.schedule[d]
    BY <1>1, <1>5, <2>1, <2>3, CalendarVersions
  <2>6. Sent(flow, tasks', google', server')
    BY <1>1, <1>2, <2>1, <2>5 DEF Sent
  <2> QED BY <1>2, <2>1, <2>2, <2>4, <2>6, TouchedHonest
<1>6. CASE "google" \in Targets
  <2>1. \A d \in flows[f].days : Before(flows[f].days, d) \in SUBSET flows[f].days
    BY DEF Before
  <2>2. CASE /\ \E lost \in {{}, flows[f].days} : google' = CalendarAfter(flows[f].days, lost)
             /\ \E failed \in BOOLEAN : Advance(f, To(failed, TRUE))
    <3> HIDE DEF To
    <3> QED BY <1>5, <1>6, <2>2
  <2>3. CASE /\ \E d \in flows[f].days : \E at \in {{}, {d}} :
                  google' = CalendarStopped(Before(flows[f].days, d), at)
             /\ Advance(f, To(TRUE, TRUE))
    <3> HIDE DEF To
    <3> QED BY <1>5, <1>6, <2>1, <2>3
  <2> QED BY <1>6, <2>2, <2>3 DEF GoogleAnswered
<1> QED BY <1>4, <1>6
\* So after MP-Backend; a refusal leaves them unrecorded.
LEMMA ServerHonest ==
  ASSUME PublishTypeOK, NEW f, Alone(f), ServerAnswered(f)
  PROVE  HonestInv'
<1>1. /\ flows[f].pc = "server" /\ flows[f] \in FlowRecord /\ flows[f].here
      /\ flows[f].days \subseteq Days /\ flows[f].errors \in BOOLEAN
      /\ tasks = flows[f].schedule
      /\ ~flows[f].errors /\ "google" \in Targets =>
           \A d \in flows[f].days : google[d].version = flows[f].schedule[d]
  BY DEF ServerAnswered, Alone, Sent, FlowRecord
<1>2. UNCHANGED <<records, pageRecords, tasks, google>>
  BY DEF ServerAnswered
<1> DEFINE To(failed) ==
             [flows[f] EXCEPT !.pc = "record", !.touched = TRUE, !.errors = @ \/ failed]
<1>3. ASSUME NEW failed \in BOOLEAN, UNCHANGED unrecorded, Advance(f, To(failed)),
             \/ server' = ServerAfter(flows[f].days)
             \/ server' = server /\ (failed \/ ~PolicyRequired)
      PROVE  HonestInv'
  <2> DEFINE flow == To(failed)  errors == flows[f].errors \/ failed
  <2>1. /\ flow \in FlowRecord /\ flow.pc = "record" /\ flow.here /\ flow.touched
        /\ flow.errors = errors /\ flow.days = flows[f].days
        /\ flow.records = flows[f].records /\ flow.schedule = flows[f].schedule
    <3>1. flow = [flows[f] EXCEPT !.pc = "record", !.touched = TRUE, !.errors = errors]
      BY <1>1
    <3>2. errors \in BOOLEAN
      BY <1>1
    <3> HIDE DEF errors
    <3> QED BY <1>1, <3>1, <3>2 DEF FlowRecord
  <2>2. Advance(f, flow)
    BY <1>3
  <2>3. flow.errors = (flows[f].errors \/ failed)
    BY <2>1
  <2> HIDE DEF flow, To, errors
  <2>4. \A d \in Days : /\ d \in flow.days => server'[d] = tasks[d] \/ server'[d] = server[d]
                        /\ d \notin flow.days => server'[d] = server[d]
    BY <1>3, <2>1 DEF ServerAfter
  <2>5. ~flow.errors /\ "mp-backend" \in Targets =>
          \A d \in flow.days : server'[d] = flow.schedule[d]
    <3> SUFFICES ASSUME ~flow.errors, "mp-backend" \in Targets, NEW d \in flow.days
                 PROVE  server'[d] = flow.schedule[d]
      OBVIOUS
    <3>1. server' = ServerAfter(flows[f].days)
      BY <1>3, <2>3 DEF PolicyRequired
    <3> QED BY <1>1, <2>1, <3>1 DEF ServerAfter
  <2>6. ~flow.errors => ~flows[f].errors
    BY <2>3
  <2>7. Sent(flow, tasks', google', server')
    BY <1>1, <1>2, <2>1, <2>5, <2>6 DEF Sent
  <2>8. \A d \in Days \ flow.days : google'[d].version = google[d].version /\ server'[d] = server[d]
    BY <1>2, <2>4
  <2> QED BY <1>2, <1>3, <2>1, <2>2, <2>7, <2>8, TouchedHonest
<1>4. CASE /\ Finish(f) /\ UNCHANGED server
           /\ unrecorded' = unrecorded \cup (IF flows[f].touched THEN flows[f].days ELSE {})
  BY <1>2, <1>4, EndHonest DEF Finish, TouchedBy
<1>5. CASE /\ \/ /\ server' = IF PolicyRequired THEN ServerAfter(flows[f].days) ELSE server
                 /\ \E lost \in BOOLEAN : Advance(f, To(PolicyRequired /\ lost))
              \/ PolicyRequired /\ Advance(f, To(TRUE)) /\ UNCHANGED server
           /\ UNCHANGED <<publishing, policy, unrecorded>>
  <2>1. CASE PolicyRequired /\ Advance(f, To(TRUE)) /\ UNCHANGED server
    <3> HIDE DEF To
    <3> QED BY <1>3, <1>5, <2>1
  <2>2. CASE /\ server' = IF PolicyRequired THEN ServerAfter(flows[f].days) ELSE server
             /\ \E lost \in BOOLEAN : Advance(f, To(PolicyRequired /\ lost))
    <3>1. PICK lost \in BOOLEAN : Advance(f, To(PolicyRequired /\ lost))
      BY <2>2
    <3> DEFINE failed == PolicyRequired /\ lost
    <3>2. failed \in BOOLEAN /\ Advance(f, To(failed))
      BY <3>1
    <3>3. \/ server' = ServerAfter(flows[f].days)
          \/ server' = server /\ (failed \/ ~PolicyRequired)
      BY <2>2
    <3> HIDE DEF failed, To
    <3> QED BY <1>3, <1>5, <3>2, <3>3
  <2> QED BY <1>5, <2>1, <2>2
<1> QED BY <1>4, <1>5 DEF ServerAnswered

\* The records of a publish without errors are true.
LEMMA NextAgrees ==
  ASSUME PublishTypeOK, NEW f, Alone(f), flows[f].pc = "record", ~flows[f].errors
  PROVE  Agreeing(NextRecords(flows[f]), unrecorded, google, server)
<1> SUFFICES ASSUME NEW d \in Days \ unrecorded
             PROVE  Agrees(NextRecords(flows[f])[d], google[d], server[d])
  BY DEF Agreeing
<1>1. CASE d \in flows[f].days
  <2>1. NextRecords(flows[f])[d].version = flows[f].schedule[d]
    BY <1>1 DEF NextRecords
  <2> QED BY <1>1, <2>1 DEF Alone, Sent, Agrees
<1>2. CASE d \notin flows[f].days
  <2>1. NextRecords(flows[f])[d] = flows[f].records[d]
    BY <1>2 DEF NextRecords
  <2> QED BY <1>2, <2>1 DEF Alone, Agreeing
<1> QED BY <1>1, <1>2

\* The saved records say what the destinations hold.
LEMMA RecordHonest ==
  ASSUME PublishTypeOK, NEW f, Alone(f), Record(f)
  PROVE  HonestInv'
<1> DEFINE flow == flows[f]  next == NextRecords(flow)
<1>1. /\ flow.pc = "record" /\ flow \in FlowRecord /\ flow.here /\ Advance(f, Over)
      /\ f \in Flows /\ AloneWith(f, flows, flows[f]) /\ UNCHANGED <<google, server>>
  BY DEF Record, Alone, Finish
<1>2. CASE FailureRecorded(f)
  BY <1>1, <1>2, FailureHonest, OverAlone
<1>3. CASE ~flow.errors /\ Saved(f)
  <2>1. Agreeing(next, unrecorded, google, server)
    BY <1>1, <1>3, NextAgrees
  <2>2. next \in DayRecords /\ flow.records \in DayRecords /\ records \in DayRecords
    BY <1>1, NextRecordsType DEF FlowRecord, PublishTypeOK
  <2>3. \A base \in {records, next} : Agreeing(base, unrecorded \cup flow.days, google, server)
    <3>1. Agreeing(next, unrecorded \cup flow.days, google, server)
      BY <2>1 DEF Agreeing
    <3>2. Agreeing(records, unrecorded \cup flow.days, google, server)
      BY DEF Alone, Agreeing, TouchedBy
    <3> QED BY <3>1, <3>2
  <2>4. \A recs \in {records, next, flow.records} :
          Agreeing(WithFailure(recs, flow.days), unrecorded, google, server)
    <3>1. Agreeing(flow.records, unrecorded \cup flow.days, google, server)
      BY DEF Alone
    <3> HIDE DEF flow, next
    <3> QED BY <2>2, <2>3, <3>1, FailureAgrees
  <2>5. CASE records' = next /\ pageRecords' = next /\ UNCHANGED unrecorded
    BY <1>1, <2>1, <2>5, OverAlone
  <2>6. ASSUME NEW base \in {records, next}, records' = WithFailure(base, flow.days),
               UNCHANGED unrecorded, pageRecords' = records'
        PROVE  HonestInv'
    <3>1. /\ Agreeing(WithFailure(base, flow.days), unrecorded, google, server)
          /\ Agreeing(WithFailure(flow.records, flow.days), unrecorded, google, server)
      BY <2>4
    <3> HIDE DEF flow, next
    <3> QED BY <1>1, <2>6, <3>1, OverAlone
  <2>7. ASSUME NEW base \in {records, next}, records' = base,
               unrecorded' = unrecorded \cup flow.days,
               pageRecords' = WithFailure(flow.records, flow.days)
        PROVE  HonestInv'
    <3>1. /\ Agreeing(base, unrecorded', google, server)
          /\ Agreeing(WithFailure(flow.records, flow.days), unrecorded, google, server)
      BY <2>3, <2>4, <2>7
    <3>2. Agreeing(WithFailure(flow.records, flow.days), unrecorded', google, server)
      BY <2>7, <3>1, LessAgrees
    <3> HIDE DEF flow, next
    <3> QED BY <1>1, <2>7, <3>1, <3>2, OverAlone
  <2>8. flow.here
    BY <1>1
  <2> QED BY <1>3, <2>5, <2>6, <2>7, <2>8 DEF Saved
<1> QED BY <1>2, <1>3 DEF Record
\* Hence every step of a flow keeps the records true.
LEMMA FlowHonest ==
  ASSUME DocumentsInv, HonestInv, NEW f \in Flows, FlowStep(f)
  PROVE  HonestInv'
<1>1. astray' = astray /\ f \in UnderWay
  BY DEF FlowStep, PolicyAnswered, LocalThrows, ExportBegins, ExportSeen, Finalise,
         GoogleAnswered, ServerAnswered, Record, UnderWay
<1>2. CASE astray
  BY <1>1, <1>2 DEF HonestInv
<1>3. CASE ~astray
  <2>1. Alone(f)
    BY <1>1, <1>3, AloneUnderWay DEF HonestInv
  <2> QED BY <2>1, PolicyHonest, LocalHonest, FinaliseHonest, GoogleHonest, ServerHonest,
             RecordHonest DEF FlowStep, DocumentsInv
<1> QED BY <1>2, <1>3

\* The first flow, or one after others have ended.
LEMMA ConfirmHonest ==
  ASSUME DocumentsInv, HonestInv, NEW f \in Flows, Confirm(f)
  PROVE  HonestInv'
<1>1. CASE astray \/ UnderWay # {}
  <2>1. astray' = (astray \/ UnderWay # {})
    BY DEF Confirm
  <2> QED BY <1>1, <2>1 DEF HonestInv
<1>2. CASE ~astray /\ UnderWay = {}
  <2> DEFINE flow == Flow("policy", preview.scope, Publishable(preview.days), schedule, pageRecords)
  <2>1. flows[f].pc = "idle" /\ ~flows[f].touched
    BY DEF Confirm, DocumentsInv, WrittenInv
  <2>2. /\ AloneWith(f, flows, flows[f])
        /\ Agreeing(records, unrecorded \cup TouchedBy(flows[f]), google, server)
        /\ Agreeing(pageRecords, unrecorded \cup TouchedBy(flows[f]), google, server)
    BY <1>2, AloneFacts DEF HonestInv
  <2>3. TouchedBy(flows[f]) = {}
    BY <2>1 DEF TouchedBy
  <2>4. Agreeing(records, unrecorded, google, server) /\ Agreeing(pageRecords, unrecorded, google, server)
    BY <2>2, <2>3 DEF Agreeing
  <2>5. UNCHANGED <<records, pageRecords, google, server, unrecorded, tasks>>
    BY DEF Confirm, outside
  <2>6. /\ flow \in FlowRecord /\ flow.pc = "policy" /\ ~flow.touched /\ flow.here
        /\ flow.records = pageRecords
    <3>1. flow \in FlowRecord
      BY FlowType DEF DocumentsInv, PublishTypeOK, Publishable
    <3> QED BY <3>1 DEF Flow
  <2>7. ASSUME NEW next \in FlowRecord, Advance(f, next), next.pc \in {"policy", "local"},
               ~next.touched, next.here, next.records = pageRecords
        PROVE  HonestInv'
    <3>1. AloneWith(f, flows', next)
      BY <2>2, <2>7, AdvanceAlone
    <3>2. TouchedBy(next) = {}
      BY <2>7 DEF TouchedBy
    <3>3. /\ Agreeing(records', unrecorded' \cup TouchedBy(next), google', server')
          /\ Agreeing(pageRecords', unrecorded' \cup TouchedBy(next), google', server')
          /\ Agreeing(next.records, unrecorded' \cup next.days, google', server')
      BY <2>4, <2>5, <2>7, <3>2 DEF Agreeing
    <3>4. Sent(next, tasks', google', server')
      BY <2>7 DEF Sent
    <3> QED BY <3>1, <3>3, <3>4, FactsAlone
  <2>8. CASE Advance(f, flow)
    <3> HIDE DEF flow
    <3> QED BY <2>6, <2>7, <2>8
  <2>9. CASE Advance(f, Begun(flow))
    <3>1. /\ Begun(flow) \in FlowRecord /\ Begun(flow).pc = "local" /\ ~Begun(flow).touched
          /\ Begun(flow).here /\ Begun(flow).records = pageRecords
      BY <2>6, BegunFlow
    <3> HIDE DEF flow
    <3> QED BY <2>7, <2>9, <3>1
  <2>10. CASE Advance(f, Over)
    BY <2>2, <2>4, <2>5, <2>10, OverAlone
  <2> QED BY <2>8, <2>9, <2>10 DEF Confirm
<1> QED BY <1>1, <1>2

\* So does every step around the flows.
LEMMA PageHonest ==
  ASSUME DocumentsInv, HonestInv, Aside \/ ExportStep \/ LeavePage \/ Reload
  PROVE  HonestInv'
<1>0. \A d \in Days : Agrees(NoRecords[d], google[d], server[d])
  BY DEF NoRecords, NoRecord, Agrees
<1>1. CASE Aside \/ ExportStep
  <2>1. /\ UNCHANGED <<flows, tasks, records, google, server, unrecorded, astray>>
        /\ pageRecords' \in {pageRecords, records, NoRecords}
    BY <1>1 DEF Aside, ExportStep, Edit, OpenPreview, PolicyShown, ClosePreview, RecordsLoaded,
                PolicyChanges, CancelExport, ExportEnds, pageVars, outside
  <2>2. CASE astray
    BY <2>1, <2>2 DEF HonestInv
  <2>3. CASE ~astray
    <3>1. AloneInv /\ RecordsInv /\ SentInv
      BY <2>3 DEF HonestInv
    <3>2. UnderWay' = UnderWay /\ \A d \in Days : Between(d)' <=> Between(d)
      BY <2>1 DEF UnderWay, Between
    <3>3. AloneInv' /\ SentInv'
      BY <2>1, <3>1, <3>2 DEF AloneInv, SentInv
    <3>4. \A d \in Days : Between(d)' \/ Agrees(pageRecords'[d], google'[d], server'[d])
      BY <1>0, <2>1, <3>1, <3>2 DEF RecordsInv
    <3>5. RecordsInv'
      BY <2>1, <3>1, <3>2, <3>4 DEF RecordsInv
    <3> QED BY <3>3, <3>5 DEF HonestInv
  <2> QED BY <2>2, <2>3
<1>2. CASE LeavePage
  <2>1. astray' = (astray \/ UnderWay # {})
    BY <1>2 DEF LeavePage
  <2>2. CASE astray'
    BY <2>2 DEF HonestInv
  <2>3. CASE ~astray'
    <3>1. UnderWay = {} /\ AloneInv /\ RecordsInv /\ SentInv
      BY <2>1, <2>3 DEF HonestInv
    <3>2. /\ UNCHANGED <<tasks, records, google, server, unrecorded>> /\ pageRecords' = NoRecords
          /\ \A f \in Flows : flows'[f] = flows[f]
      BY <1>2, <3>1 DEF LeavePage, FreshPage, outside
    <3>3. UnderWay' = {} /\ \A d \in Days : Between(d)' <=> Between(d)
      BY <3>1, <3>2 DEF UnderWay, Between
    <3> QED BY <1>0, <3>1, <3>2, <3>3 DEF HonestInv, AloneInv, RecordsInv, SentInv
  <2> QED BY <2>2, <2>3
<1>3. CASE Reload
  <2>1. UNCHANGED <<records, google, server, astray>> /\ pageRecords' = NoRecords
    BY <1>3 DEF Reload, FreshPage
  <2>2. CASE astray
    BY <2>1, <2>2 DEF HonestInv
  <2>3. CASE ~astray
    <3>1. \A f \in Flows : flows'[f].pc \in {"idle", "over"}
      BY <1>3, OverFields DEF Reload, UnderWay
    <3>2. UnderWay' = {}
      BY <3>1 DEF UnderWay
    <3>3. \A f \in Flows : flows[f].touched => f \in UnderWay
      BY DEF DocumentsInv, WrittenInv, UnderWay
    <3>4. \A d \in Days : Between(d) => d \in unrecorded'
      BY <1>3, <3>3 DEF Between, Reload
    <3>5. \A d \in Days : Between(d)' \/ Agrees(records'[d], google'[d], server'[d])
      BY <2>1, <2>3, <3>4 DEF HonestInv, RecordsInv, Between
    <3>6. SentInv'
      BY <3>1 DEF SentInv, Sent
    <3> QED BY <1>0, <2>1, <3>2, <3>5, <3>6 DEF HonestInv, AloneInv, RecordsInv
  <2> QED BY <2>2, <2>3
<1> QED BY <1>1, <1>2, <1>3

\* Every step keeps the invariant.
LEMMA PublishStep ==
  ASSUME PublishInv, [PublishNext]_pubVars
  PROVE  PublishInv'
<1>1. DocumentsInv'
  BY DocumentsStep DEF PublishInv, DocumentsInv
<1>2. CASE PublishNext
  BY <1>1, <1>2, StepCases, PageHonest, FlowHonest, ConfirmHonest DEF PublishInv, DocumentsInv
<1>3. CASE UNCHANGED pubVars
  <2>1. HonestInv'
    BY <1>3 DEF PublishInv, HonestInv, AloneInv, RecordsInv, SentInv, UnderWay, Between,
                pubVars, pageVars, outside
  <2> QED BY <1>1, <2>1 DEF PublishInv, DocumentsInv
<1> QED BY <1>2, <1>3

\* It holds before the first flow.
LEMMA PublishInitial == PublishInit => PublishInv
<1> SUFFICES ASSUME PublishInit PROVE HonestInv
  BY DocumentsInit DEF PublishInv, DocumentsInv
<1>1. \A f \in Flows : flows[f].pc = "idle"
  BY DEF PublishInit, Unconfirmed, Flow
<1>2. UnderWay = {}
  BY <1>1 DEF UnderWay
<1>3. \A d \in Days : Agrees(records[d], google[d], server[d])
                      /\ Agrees(pageRecords[d], google[d], server[d])
  BY DEF PublishInit, NoRecords, NoRecord, Agrees
<1> QED BY <1>1, <1>2, <1>3 DEF HonestInv, AloneInv, RecordsInv, SentInv, Sent

\* As long as one flow ran after the other and none lost its page, the
\* records of the backend, of the page and of the snapshot of the flow agree
\* with the destinations outside the days a flow has touched, and the
\* destinations hold the snapshot so far as the flow has come without error.
THEOREM PublishInvariant == PublishSpec => []PublishInv
BY PublishInitial, PublishStep, PTL DEF PublishSpec

\* A day whose record says published was sent to every destination in the
\* version of the record, whatever failed, was lost, edited meanwhile or
\* cancelled.
THEOREM RecordsAreTrue == PublishSpec => []RecordIsTrue
<1>1. PublishInv => RecordIsTrue
  <2> SUFFICES ASSUME PublishInv, NEW d \in Days, records[d].version # 0, ~records[d].failed,
                      d \notin unrecorded, ~astray, UnderWay = {}
               PROVE  /\ "google" \in Targets => google[d].version = records[d].version
                      /\ "mp-backend" \in Targets => server[d] = records[d].version
    BY DEF RecordIsTrue
  <2>1. ~Between(d)
    BY DEF Between, PublishInv, WrittenInv, UnderWay
  <2> QED BY <2>1 DEF PublishInv, HonestInv, RecordsInv, Agrees
<1> QED BY <1>1, PublishInvariant, PTL
=============================================================================
