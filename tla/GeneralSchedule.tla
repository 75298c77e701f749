-------------------------- MODULE GeneralSchedule --------------------------
(***************************************************************************)
(* The public programme and its publication (GeneralScheduleTab.tsx, the   *)
(* session elements and the publish state of general_schedule.py and       *)
(* publish_general_schedule_to_mp_backend).  The page keeps a list of the  *)
(* elements and patches it with the answer of each edit; the backend keeps *)
(* the table; a publish takes the table as it is when it begins, and notes *)
(* the fingerprint of each day it has sent.  The page compares its own     *)
(* fingerprint of a day with the noted one to say "Up to date".            *)
(*                                                                         *)
(* The bounds: MaxItems, the highest id of an element; Versions, the       *)
(* public contents it can have; MaxEdits and MaxPublishes, the requests of *)
(* each kind; MaxTurns, the departures from the page, relaunches, failed   *)
(* loads and lost answers.                                                 *)
(***************************************************************************)
EXTENDS EventDays, Naturals, FiniteSets, SequencesExt

CONSTANTS MaxItems, Versions, MaxEdits, MaxPublishes

ASSUME GeneralAssumption ==
  /\ MaxItems \in Nat \ {0} /\ Versions \in Nat \ {0}
  /\ MaxEdits \in Nat /\ MaxPublishes \in Nat

VARIABLES
  \* The page.
  listed,        \* elements: the list
  publishState,
  loading,       \* the requests of its load that are not answered
  \* The backend and MP-Backend.
  stored,     \* the session elements of the event
  state,      \* the row of the publish state
  server,     \* the published elements by day
  cut,        \* the requests that were given up before MP-Backend took them
  \* The requests.
  edits, publishes,
  \* What the properties remember.
  unseen,     \* the page missed an effect, or took answers out of order
  astray      \* a publish went without its record, or beside another

tab == <<listed, publishState, loading>>
backend == <<stored, state, server, cut>>
genVars == <<tab, backend, edits, publishes, turns, unseen, astray>>

Ids == 1..MaxItems

\* An element: its working day and its public fields; 0: in no public view.
Items == [id : Ids, day : Days, version : 0..Versions]
IdsOf(S) == {x.id : x \in S}
WithIds(S, ids) == {x \in S : x.id \in ids}

\* What the fingerprint of a day is taken of, here as in the backend.
Public(S, d) == {[id |-> x.id, version |-> x.version] :
                   x \in {y \in S : y.day = d /\ y.version # 0}}

NoRecord == [published |-> FALSE, items |-> {}, failed |-> FALSE]
NoRecords == [d \in Days |-> NoRecord]
NoState == [there |-> FALSE, records |-> NoRecords]

Reads == {"elements", "state"}

\* ids: the elements to delete; rows: the answer; left: those still to be
\* deleted; after: the edits that were in the table and not yet on the page
\* when this one was answered.
NoEdit == [pc |-> "idle", kind |-> "none", here |-> TRUE, ids |-> {}, rows |-> {},
           left |-> {}, after |-> {}]
OverEdit == [NoEdit EXCEPT !.pc = "over"]
NoPublish == [pc |-> "idle", here |-> TRUE, days |-> {}, items |-> [d \in Days |-> {}],
              before |-> NoState, took |-> FALSE]
OverPublish == [NoPublish EXCEPT !.pc = "over"]
Edits == 1..MaxEdits
Publishes == 1..MaxPublishes

GeneralInit ==
  /\ stored = {[id |-> 1, day |-> 1, version |-> 1]}
  /\ listed = {} /\ publishState = NoRecords /\ loading = Reads
  /\ state = NoState /\ server = [d \in Days |-> {}] /\ cut = {}
  /\ edits = [e \in Edits |-> NoEdit] /\ publishes = [p \in Publishes |-> NoPublish]
  /\ turns = 0 /\ unseen = FALSE /\ astray = FALSE

Waiting(e) == edits[e].pc \notin {"idle", "over"} \/ edits[e].left # {}
Request(p) == [days |-> publishes[p].days, items |-> publishes[p].items]
Untaken(p) == publishes[p].pc = "posted" /\ ~publishes[p].took
Publishing(p) == publishes[p].pc \notin {"idle", "over"}
Arrived == loading \cap Reads = {}

\* Without the settings, which the load brings too, nothing is published.
Configured == loading = {}

(***************************************************************************)
(* The load of the page: a spinner hides it until all requests have been   *)
(* answered, then their answers are shown together, or nothing is.         *)
(***************************************************************************)

ReadElements ==
  /\ "elements" \in loading
  /\ listed' = stored /\ loading' = loading \ {"elements"}
  /\ UNCHANGED <<publishState, backend, edits, publishes, turns, unseen, astray>>

ReadState ==
  /\ "state" \in loading
  /\ publishState' = state.records /\ loading' = loading \ {"state"}
  /\ UNCHANGED <<listed, backend, edits, publishes, turns, unseen, astray>>

LoadFails ==
  /\ ~Arrived /\ Turn
  /\ listed' = {} /\ publishState' = NoRecords /\ loading' = {"failed"}
  /\ UNCHANGED <<backend, edits, publishes, unseen, astray>>

FreshPage ==
  /\ Turn
  /\ listed' = {} /\ publishState' = NoRecords /\ loading' = Reads
  /\ unseen' = FALSE

\* The edits go on without the page, its part of them is over.
Finished(edit) ==
  IF edit.left = {} THEN OverEdit ELSE [OverEdit EXCEPT !.left = edit.left]
Abandoned(edit) ==
  CASE edit.pc = "asked" -> [edit EXCEPT !.here = FALSE]
    [] edit.pc # "asked" /\ edit.left # {} -> [Finished(edit) EXCEPT !.here = FALSE]
    [] edit.pc \in {"refresh", "done"} /\ edit.left = {} -> OverEdit
    [] OTHER -> edit

\* A publish goes on without the page; what is left of an answered one is the
\* page's part.
Left(publish) ==
  CASE publish.pc = "posted" -> [publish EXCEPT !.here = FALSE]
    [] publish.pc = "answered" -> OverPublish
    [] OTHER -> publish

\* To another page and back; a public view may be deleted meanwhile, which
\* takes it from the elements that have it.
LeaveTab ==
  /\ FreshPage
  /\ \E hidden \in SUBSET stored :
       stored' = (stored \ hidden) \cup {[x EXCEPT !.version = 0] : x \in hidden}
  /\ edits' = [e \in Edits |-> Abandoned(edits[e])]
  /\ publishes' = [p \in Publishes |-> Left(publishes[p])]
  /\ UNCHANGED <<state, server, cut, astray>>

\* The application ends and is started again: so do the requests, those that
\* were sent to MP-Backend excepted.
Relaunch ==
  /\ FreshPage
  /\ edits' = [e \in Edits |-> IF Waiting(e) THEN OverEdit ELSE edits[e]]
  /\ publishes' = [p \in Publishes |-> IF Publishing(p) THEN OverPublish ELSE publishes[p]]
  /\ astray' = (astray \/ \E p \in Publishes : publishes[p].took)
  /\ cut' = cut \cup {Request(p) : p \in {q \in Publishes : Untaken(q)}}
  /\ UNCHANGED <<stored, state, server>>

(***************************************************************************)
(* The edits.  Saving ones, by the flag of the page, come one by one, the  *)
(* others do not wait for anything.  From the click to the transaction of  *)
(* the handler nothing else is read, so they are one step; a refused edit  *)
(* changes nothing and is no step.                                         *)
(***************************************************************************)

Saving == {"save", "create", "import", "bulk", "copyDay"}
Deleting == {"delete", "deleteSelected"}

MayAsk(e, kind) ==
  /\ Arrived
  /\ edits[e].pc = "idle" /\ \A f \in 1..(e - 1) : edits[f].pc # "idle"
  /\ kind \in Saving => ~\E f \in Edits : edits[f].pc = "done" /\ edits[f].kind \in Saving

To(e, edit) == edits' = [edits EXCEPT ![e] = edit]

\* In the table, and the page does not know.
Pending(f) ==
  \/ edits[f].pc = "done"
  \/ edits[f].pc \in {"asked", "refresh"} /\ edits[f].left # edits[f].ids
PendingNow(e) == {f \in Edits \ {e} : Pending(f)}

\* One transaction, which puts the rows into the table, and its answer.
Handled(e, kind, rows) ==
  /\ MayAsk(e, kind)
  /\ IdsOf(rows) \subseteq Ids
  /\ stored' = (stored \ WithIds(stored, IdsOf(rows))) \cup rows
  /\ To(e, [NoEdit EXCEPT !.pc = "done", !.kind = kind, !.rows = rows,
                          !.after = PendingNow(e)])
  /\ UNCHANGED <<tab, state, server, cut, publishes, turns, unseen, astray>>

\* SQLite gives the id of a deleted last row again.
LastId == Max({0} \cup IdsOf(stored))

\* Copies of elements on some days, in one order or another.
Copies(S, days) ==
  LET pair == SetToSeq(S \X days) IN
  {[id |-> LastId + i, day |-> pair[i][2], version |-> pair[i][1].version] : i \in 1..Len(pair)}

New(d, v) == [id |-> LastId + 1, day |-> d, version |-> v]

Create(e) == \E d \in Days, v \in 0..Versions : Handled(e, "create", {New(d, v)})

\* All rows of the spreadsheet, or none.
Import(e) ==
  \E days \in (SUBSET Days) \ {{}} :
    Handled(e, "import", Copies({[version |-> Versions]}, days))

Save(e) ==
  \E i \in IdsOf(listed) \cap IdsOf(stored), d \in Days, v \in 0..Versions :
    Handled(e, "save", {[id |-> i, day |-> d, version |-> v]})

Duplicate(e) ==
  \E x \in WithIds(stored, IdsOf(listed)) : Handled(e, "duplicate", Copies({x}, {x.day}))

\* Of selected elements, the working day or the views; all, or none.
Bulk(e) ==
  \E S \in (SUBSET WithIds(stored, IdsOf(listed))) \ {{}} :
    \/ \E d \in Days : Handled(e, "bulk", {[x EXCEPT !.day = d] : x \in S})
    \/ \E v \in 0..Versions : Handled(e, "bulk", {[x EXCEPT !.version = v] : x \in S})

\* A copy passes over the elements that are gone.
Copy(e) ==
  \/ \E ids \in (SUBSET IdsOf(listed)) \ {{}}, d \in Days :
       Handled(e, "copy", Copies(WithIds(stored, ids), {d}))
  \/ \E d \in Days :
       LET ids == IdsOf({x \in listed : x.day = d}) IN
       \E t \in Days \ {d} :
         ids # {} /\ Handled(e, "copyDay", Copies(WithIds(stored, ids), {t}))

\* The requests of a deletion are sent at once and end one by one.
Delete(e) ==
  \E ids \in (SUBSET IdsOf(listed)) \ {{}}, kind \in Deleting :
    /\ MayAsk(e, kind) /\ (kind = "delete" => Cardinality(ids) = 1)
    /\ To(e, [NoEdit EXCEPT !.pc = "asked", !.kind = kind, !.ids = ids, !.left = ids])
    /\ UNCHANGED <<tab, backend, publishes, turns, unseen, astray>>

\* An effect is missed by the page that asked for it, or by the next page
\* once that has read the table.
Unnoticed(edit) ==
  IF edit.here THEN edit.pc \in {"done", "over"} ELSE "elements" \notin loading

Deleted(e, i) ==
  LET edit == edits[e]  next == [edit EXCEPT !.left = @ \ {i}] IN
  /\ i \in edit.left \cap IdsOf(stored)
  /\ stored' = stored \ WithIds(stored, {i})
  /\ To(e, CASE next.left = {} /\ edit.pc = "asked" /\ edit.here ->
                  [next EXCEPT !.pc = "done", !.after = PendingNow(e)]
             [] next.left = {} /\ (edit.pc = "over" \/ ~edit.here) -> OverEdit
             [] OTHER -> next)
  /\ unseen' = (unseen \/ Unnoticed(edit))
  /\ UNCHANGED <<tab, state, server, cut, publishes, turns, astray>>

\* At the first that fails, the page reads the elements again if they were
\* selected, while the rest goes on.
AfterFailure(edit) ==
  CASE edit.pc = "asked" /\ edit.here /\ edit.kind = "deleteSelected" ->
         [edit EXCEPT !.pc = "refresh"]
    [] edit.pc \in {"refresh", "done"} -> edit
    [] OTHER -> Finished(edit)

DeleteFails(e, i) ==
  /\ i \in edits[e].left
  /\ To(e, AfterFailure([edits[e] EXCEPT !.left = @ \ {i}]))
  /\ UNCHANGED <<tab, backend, publishes, turns, unseen, astray>>

RefreshRead(e) ==
  /\ edits[e].pc = "refresh"
  /\ To(e, [edits[e] EXCEPT !.pc = "done", !.kind = "refresh", !.rows = stored,
                            !.after = PendingNow(e)])
  /\ UNCHANGED <<tab, backend, publishes, turns, unseen, astray>>

\* What is done is answered with an error, or not at all.
AnswerLost(e) ==
  LET edit == edits[e] IN
  /\ Turn
  /\ edit.here /\ Pending(e)
  /\ IF edit.kind = "deleteSelected" /\ edit.pc # "refresh"
     THEN To(e, [edit EXCEPT !.pc = "refresh"]) /\ UNCHANGED unseen
     ELSE To(e, Finished(edit)) /\ unseen' = TRUE
  /\ UNCHANGED <<tab, backend, publishes, astray>>

\* A variant: what was saved is added to the list.
ListedAdding(edit) == listed \cup edit.rows

\* setElements with the answer.
ListedAfter(edit) ==
  CASE edit.kind = "refresh" -> edit.rows
    [] edit.kind \in Deleting -> listed \ WithIds(listed, edit.ids)
    [] edit.kind = "bulk" ->
         (listed \ WithIds(listed, IdsOf(edit.rows))) \cup WithIds(edit.rows, IdsOf(listed))
    [] edit.kind \in {"save", "create"} ->
         (listed \ WithIds(listed, IdsOf(edit.rows))) \cup edit.rows
    [] OTHER -> listed \cup edit.rows

Answered(e) ==
  LET edit == edits[e] IN
  /\ edit.pc = "done"
  /\ listed' = ListedAfter(edit)
  /\ To(e, Finished(edit))
  /\ unseen' = (unseen \/ \E f \in edit.after : Pending(f))
  /\ UNCHANGED <<publishState, loading, backend, publishes, turns, astray>>

(***************************************************************************)
(* A publish.                                                              *)
(***************************************************************************)

\* From the click to the request to MP-Backend nothing is awaited: the
\* elements and the row of the publish state are those of one moment.
PublishAsked(p, days) ==
  /\ Configured
  /\ publishes[p].pc = "idle" /\ \A q \in 1..(p - 1) : publishes[q].pc # "idle"
  /\ ~\E q \in Publishes : Publishing(q) /\ publishes[q].here
  /\ publishes' = [publishes EXCEPT ![p] =
       [NoPublish EXCEPT !.pc = "posted", !.days = days, !.before = state,
                         !.items = [d \in Days |-> IF d \in days THEN Public(stored, d) ELSE {}]]]
  /\ astray' = (astray \/ \E q \in Publishes : publishes[q].pc = "posted")
  /\ UNCHANGED <<tab, backend, edits, turns, unseen>>

Takes(request) ==
  server' = [d \in Days |-> IF d \in request.days THEN request.items[d] ELSE server[d]]

ServerTakes(p) ==
  /\ Untaken(p)
  /\ Takes(Request(p))
  /\ publishes' = [publishes EXCEPT ![p].took = TRUE]
  /\ UNCHANGED <<tab, stored, state, cut, edits, turns, unseen, astray>>

\* Behind its time-out, or the end of the application.  A day that counts as
\* failed, or as not published, is sent again; another one has a record of
\* what it was.
TakenLate(request) ==
  /\ request \in cut
  /\ Takes(request)
  /\ cut' = cut \ {request}
  /\ astray' = (astray \/ (\E p \in Publishes : publishes[p].pc = "posted")
                       \/ \E d \in request.days : state.records[d].published
                                                 /\ ~state.records[d].failed)
  /\ UNCHANGED <<tab, stored, state, edits, publishes, turns, unseen>>

Recorded(publish, records) ==
  [there |-> TRUE,
   records |-> [d \in Days |-> IF d \in publish.days THEN records[d]
                                                     ELSE publish.before.records[d]]]

\* A variant: the fingerprint is taken of the table after the answer.
WithSuccessNow(publish) ==
  Recorded(publish, [d \in Days |->
    [published |-> TRUE, items |-> Public(stored, d), failed |-> FALSE]])

WithSuccess(publish) ==
  Recorded(publish, [d \in Days |->
    [published |-> TRUE, items |-> publish.items[d], failed |-> FALSE]])

\* record_failure keeps what was published before.
WithFailure(publish) ==
  Recorded(publish, [d \in Days |-> [publish.before.records[d] EXCEPT !.failed = TRUE]])

\* The second of two first rows breaks the unique constraint.
Conflict(publish) == ~publish.before.there /\ state.there

GivenUp(p) == IF Untaken(p) THEN cut \cup {Request(p)} ELSE cut

PublishEnds(p) ==
  LET publish == publishes[p]
      Commits(next) ==
        IF Conflict(publish) THEN /\ astray' = (astray \/ publish.took) /\ UNCHANGED state
                             ELSE /\ state' = next /\ UNCHANGED astray
  IN
  /\ publish.pc = "posted"
  /\ \/ publish.took /\ Commits(WithSuccess(publish)) /\ UNCHANGED <<turns, cut>>
     \/ ~publish.took /\ Commits(WithFailure(publish)) /\ UNCHANGED <<turns, cut>>
     \* the answer of MP-Backend is lost or late, or the transaction fails
     \/ Turn /\ Commits(WithFailure(publish)) /\ cut' = GivenUp(p)
     \/ /\ Turn /\ astray' = (astray \/ publish.took) /\ UNCHANGED state
        /\ cut' \in {cut, GivenUp(p)}
  /\ publishes' = [publishes EXCEPT ![p] =
       IF publish.here THEN [NoPublish EXCEPT !.pc = "answered"] ELSE OverPublish]
  /\ unseen' = (unseen \/ (~publish.here /\ "state" \notin loading))
  /\ UNCHANGED <<tab, stored, server, edits>>

\* The page reads the state again, whatever the answer; if it cannot, it
\* keeps the old one.
PublishShown(p) ==
  /\ publishes[p].pc = "answered"
  /\ \/ publishState' = state.records /\ UNCHANGED <<turns, unseen>>
     \/ Turn /\ unseen' = TRUE /\ UNCHANGED publishState
  /\ publishes' = [publishes EXCEPT ![p] = OverPublish]
  /\ UNCHANGED <<listed, loading, backend, edits, astray>>

GeneralNext ==
  \/ ReadElements \/ ReadState \/ LoadFails \/ LeaveTab \/ Relaunch
  \/ \E e \in Edits :
       \/ Create(e) \/ Import(e) \/ Save(e) \/ Duplicate(e) \/ Bulk(e) \/ Copy(e)
       \/ Delete(e) \/ RefreshRead(e) \/ AnswerLost(e) \/ Answered(e)
       \/ \E i \in Ids : Deleted(e, i) \/ DeleteFails(e, i)
  \/ \E p \in Publishes :
       \/ \E days \in {Days} \cup {{d} : d \in Days} : PublishAsked(p, days)
       \/ ServerTakes(p) \/ PublishEnds(p) \/ PublishShown(p)
  \/ \E request \in cut : TakenLate(request)

GeneralSpec == GeneralInit /\ [][GeneralNext]_genVars

(***************************************************************************)
(* Properties.                                                             *)
(***************************************************************************)

\* The type invariant; an id names one element, in the table always and in
\* the list as long as the page has missed nothing.
GeneralTypeOK ==
  LET Record == [published : BOOLEAN, items : SUBSET [id : Ids, version : 1..Versions],
                 failed : BOOLEAN]
      OneEach(S) == \A x, y \in S : x.id = y.id => x = y
  IN
  /\ stored \subseteq Items /\ OneEach(stored)
  /\ listed \subseteq Items /\ (~unseen => OneEach(listed))
  /\ loading \in (SUBSET Reads) \cup {{"failed"}}
  /\ publishState \in [Days -> Record] /\ state.records \in [Days -> Record]
  /\ state.there \in BOOLEAN /\ \A r \in cut : r.days \subseteq Days
  /\ \A e \in Edits : /\ edits[e].left \subseteq Ids
                      /\ edits[e].rows \subseteq Items /\ edits[e].after \subseteq Edits
  /\ turns \in 0..MaxTurns /\ unseen \in BOOLEAN /\ astray \in BOOLEAN

UpToDate(d) ==
  /\ Configured /\ publishState[d].published /\ ~publishState[d].failed
  /\ publishState[d].items = Public(listed, d)

\* "The published day matches the current programme.": a day that the page
\* calls up to date is at MP-Backend as it is in the table, whatever was
\* edited during the publish, deleted in part, refused or left unanswered;
\* unless an edit was lost to the page, or a publish went without its
\* record: beside another one, with a record that was not stored, or taken
\* after it was given up, when its days had been published again.
UpToDateIsTrue ==
  (\A e \in Edits : ~Waiting(e)) /\ (\A p \in Publishes : ~Publishing(p))
  /\ ~unseen /\ ~astray
  => \A d \in Days : UpToDate(d) => server[d] = Public(stored, d)
=============================================================================
