----------------------------- MODULE PagesProofs -----------------------------
(***************************************************************************)
(* Proofs about the pages on which the programme of an event is edited,    *)
(* for any number of days and turns.  FlowCheck: its types, and that the   *)
(* verdict on show is one about the day on show as it is.  GeneralSchedule:*)
(* its types, and that a day which the page calls up to date is at the     *)
(* server as it is in the table.                                           *)
(***************************************************************************)
EXTENDS FlowCheck, GeneralSchedule, FiniteSetTheorems, TLAPS

(***************************************************************************)
(* The public programme.                                                   *)
(***************************************************************************)
(***************************************************************************)
(* The inductive invariant: the shape of the requests.                     *)
(***************************************************************************)

PublicItems == [id : Ids, version : 1..Versions]
DayRecord == [published : BOOLEAN, items : SUBSET PublicItems, failed : BOOLEAN]
StateRecord == [there : BOOLEAN, records : [Days -> DayRecord]]

Adding == {"import", "duplicate", "copy", "copyDay"}
Putting == {"save", "create"}
EditKinds == Adding \cup Putting \cup Deleting \cup {"none", "bulk", "refresh"}

EditRecord ==
  [pc : {"idle", "asked", "refresh", "done", "over"}, kind : EditKinds, here : BOOLEAN,
   ids : SUBSET Ids, rows : SUBSET Items, left : SUBSET Ids, after : SUBSET Edits]
PublishRecord ==
  [pc : {"idle", "posted", "answered", "over"}, here : BOOLEAN, days : SUBSET Days,
   items : [Days -> SUBSET PublicItems], before : StateRecord, took : BOOLEAN]

\* An id names one element of the set.
OneEach(S) == \A x, y \in S : x.id = y.id => x = y

\* What each stage of an edit has at hand.
Formed(edit) ==
  /\ OneEach(edit.rows)
  /\ edit.pc = "idle" => edit = NoEdit
  /\ edit.pc = "asked" =>
       /\ edit.kind \in Deleting /\ edit.left # {} /\ edit.left \subseteq edit.ids
       /\ edit.kind = "delete" => \A i, j \in edit.ids : i = j
  /\ edit.pc = "refresh" =>
       /\ edit.here /\ edit.kind = "deleteSelected"
       /\ edit.left \subseteq edit.ids /\ edit.left # edit.ids
  /\ edit.pc = "done" =>
       /\ edit.here /\ edit.kind # "none"
       /\ edit.kind \in Deleting => edit.left = {} /\ edit.ids # {}

\* What a publish asks MP-Backend to take.
Requests == [days : SUBSET Days, items : [Days -> SUBSET PublicItems]]

ScheduleTypes ==
  /\ stored \subseteq Items /\ OneEach(stored) /\ listed \subseteq Items
  /\ loading \in (SUBSET Reads) \cup {{"failed"}}
  /\ publishState \in [Days -> DayRecord] /\ state \in StateRecord
  /\ server \in [Days -> SUBSET PublicItems] /\ cut \subseteq Requests
  /\ edits \in [Edits -> EditRecord] /\ publishes \in [Publishes -> PublishRecord]
  /\ turns \in 0..MaxTurns /\ unseen \in BOOLEAN /\ astray \in BOOLEAN

FormedInv ==
  /\ \A e \in Edits : Formed(edits[e])
  /\ ~Arrived => \A e \in Edits : edits[e].here => edits[e].pc \in {"idle", "over"}
  /\ "elements" \in loading => listed = {}

(***************************************************************************)
(* The inductive invariant: the list and the edits on their way to it.     *)
(***************************************************************************)

\* In the table, to be answered to the page.
Live(e) == Pending(e) /\ edits[e].here

\* An edit that is not done yet will be answered after all that are in the
\* table when it is.
After(e) == IF edits[e].pc = "done" THEN edits[e].after ELSE Edits

\* What has to be answered before e, if nothing is to be missed.
Behind(e) == {f \in Edits \ {e} : Live(f) /\ f \in After(e)}

\* Two edits that both have to be answered after the other: one answer comes
\* too early, whatever happens.
Crossed(f, g) == f \in Behind(g) /\ g \in Behind(f)
Blocked(e) == \E f, g \in Edits : Crossed(f, g) /\ (f = e \/ f \in Behind(e))
Uncrossed == ~\E f, g \in Edits : Crossed(f, g)

\* The element with an id, as a set of at most one.
At(S, i) == WithIds(S, {i})

\* The ids that the answer of an edit changes in the list, and what it makes
\* of one.
Touches(edit) ==
  CASE edit.pc = "refresh" \/ edit.kind = "refresh" -> Ids
    [] edit.pc = "asked" /\ edit.kind # "refresh" -> edit.ids \ edit.left
    [] edit.pc = "done" /\ edit.kind \in Deleting -> edit.ids
    [] OTHER -> IdsOf(edit.rows)
Value(edit, i) == IF edit.kind \in Deleting THEN {} ELSE At(edit.rows, i)
Makes(edit, i, S) == edit.pc = "refresh" \/ Value(edit, i) = S

\* An answer that adds needs a list without the element, one that replaces
\* some a list with it.
Needs(edit, S) ==
  /\ edit.kind \in Adding => S = {}
  /\ edit.kind = "bulk" => S # {}

\* What the page shows of an element; all it can lack it lacks for a load
\* that failed.
Failed == loading = {"failed"}
Shows(S, T) == S = T \/ (Failed /\ S = {})
Ready(edit, S) ==
  /\ edit.kind \in Adding => S = {}
  /\ edit.kind = "bulk" => S # {} \/ Failed

Touchers(i) == {f \in Edits : Live(f) /\ i \in Touches(edits[f])}

\* The last of S: all others have to be answered before it.
IsLast(f, S) == f \in S /\ \A g \in S \ {f} : g \in After(f)

\* Of two edits on their way one comes after the other.
OrderInv == \A f, g \in Edits : Live(f) /\ Live(g) /\ f # g => f \in After(g) \/ g \in After(f)

\* The last edit of an element on its way says what the table has of it;
\* with none on its way the list does.
ListInv ==
  \A i \in Ids :
    IF Touchers(i) = {} THEN Shows(At(listed, i), At(stored, i))
    ELSE \E f \in Touchers(i) : IsLast(f, Touchers(i)) /\ Makes(edits[f], i, At(stored, i))

\* An answer will find the element as it needs it: in the list, or made so
\* by the last answer before it.
FindsWhatItNeeds(e, i) ==
  LET before == Behind(e) \cap Touchers(i) IN
  \/ Blocked(e)
  \/ before = {} /\ Ready(edits[e], At(listed, i))
  \/ \E f \in before : IsLast(f, before) /\ Needs(edits[e], Value(edits[f], i))
NeedsInv ==
  \A e \in Edits : Live(e) /\ edits[e].pc = "done" /\ edits[e].kind \in Adding \cup {"bulk"} =>
    \A i \in Touches(edits[e]) : FindsWhatItNeeds(e, i)

PageInv ==
  ~unseen => /\ OneEach(listed)
             /\ "elements" \notin loading =>
                  OrderInv /\ NeedsInv /\ (Uncrossed => ListInv)

(***************************************************************************)
(* The inductive invariant: the records and the publishes on their way.    *)
(***************************************************************************)

Posted == {p \in Publishes : publishes[p].pc = "posted"}

\* The record of a day says what the server has of it.
Records(record, items) == record.published /\ ~record.failed => items = record.items

\* As long as nothing went astray there is one publish at most, which has
\* begun with the state of the backend as it is.
SentInv ==
  ~astray =>
    /\ \A p, q \in Posted : p = q
    /\ \A p \in Posted :
         /\ publishes[p].before = state
         /\ \A d \in Days :
              IF publishes[p].took /\ d \in publishes[p].days
              THEN server[d] = publishes[p].items[d]
              ELSE Records(state.records[d], server[d])
    /\ Posted = {} => \A d \in Days : Records(state.records[d], server[d])
TookInv == \A p \in Publishes : publishes[p].took => p \in Posted

\* The page shows the state of the backend, or is about to read it.
ShownInv ==
  ~unseen /\ loading \cap {"state", "failed"} = {} =>
    publishState = state.records \/ \E p \in Publishes : publishes[p].pc = "answered"

GeneralInv ==
  ScheduleTypes /\ FormedInv /\ PageInv /\ SentInv /\ TookInv /\ ShownInv

-----------------------------------------------------------------------------
(* Ids and rows *)

\* A set of natural numbers has a least element.
LEMMA LeastOf ==
  ASSUME NEW S \in SUBSET Nat, S # {}
  PROVE  \E m \in S : \A n \in S : m <= n
<1> DEFINE R == {ss \in Nat \X Nat : ss[1] < ss[2]}
<1>1. IsWellFoundedOn(R, Nat)
  BY NatLessThanWellFounded DEF OpToRel
<1>2. PICK m \in S : \A n \in S : ~(<<n, m>> \in R)
  <2> HIDE DEF R
  <2> QED BY <1>1, WFMin
<1>3. \A n \in S : <<n, m>> \in R <=> n < m
  OBVIOUS
<1>4. \A n \in S : ~(n < m)
  BY <1>2, <1>3
<1> QED BY <1>4

\* A set of natural numbers with a bound has a greatest element.
LEMMA GreatestOf ==
  ASSUME NEW N \in Nat, NEW S \in SUBSET (0..N), S # {}
  PROVE  Max(S) \in S /\ \A n \in S : n <= Max(S)
<1> DEFINE Bounds == {b \in Nat : \A n \in S : n <= b}
<1>1. N \in Bounds
  OBVIOUS
<1>2. PICK b \in Bounds : \A c \in Bounds : b <= c
  <2> HIDE DEF Bounds
  <2>1. Bounds \in SUBSET Nat
    BY DEF Bounds
  <2> QED BY <1>1, <2>1, LeastOf
<1>3. b \in S
  <2> SUFFICES ASSUME b \notin S PROVE FALSE
    OBVIOUS
  <2>1. \A n \in S : n <= b - 1 /\ b - 1 \in Nat
    OBVIOUS
  <2>2. b - 1 \in Bounds
    BY <2>1
  <2> QED BY <1>2, <2>2
<1> QED BY <1>2, <1>3 DEF Max

\* The id of a new row is greater than those of the table.
LEMMA LastIdIsLast ==
  ASSUME ScheduleTypes
  PROVE  LastId \in Nat /\ \A i \in IdsOf(stored) : i \in Nat /\ i <= LastId
<1> DEFINE S == {0} \cup IdsOf(stored)
<1>1. S \in SUBSET (0..MaxItems) /\ S # {}
  BY GeneralAssumption, DaysAssumption DEF ScheduleTypes, IdsOf, Items, Ids
<1>2. Max(S) \in S /\ \A n \in S : n <= Max(S)
  <2> HIDE DEF S
  <2> QED BY <1>1, GreatestOf, GeneralAssumption, DaysAssumption
<1> QED BY <1>1, <1>2, GeneralAssumption, DaysAssumption DEF LastId

\* The table is finite.
LEMMA StoredIsFinite ==
  ASSUME ScheduleTypes
  PROVE  IsFiniteSet(stored)
<1> DEFINE f == [x \in stored |-> x.id]
<1>1. f \in Injection(stored, Ids)
  BY DEF ScheduleTypes, OneEach, Items, Injection, IsInjective
<1>2. IsFiniteSet(Ids)
  BY FS_Interval, GeneralAssumption, DaysAssumption DEF Ids
<1> HIDE DEF f
<1> QED BY <1>1, <1>2, FS_Injection

\* The sequence of a finite set has its elements.
LEMMA SeqOfSet ==
  ASSUME NEW S, IsFiniteSet(S)
  PROVE  SetToSeq(S) \in Seq(S)
<1>1. Cardinality(S) \in Nat /\ \E f \in [1..Cardinality(S) -> S] : IsInjective(f)
  BY FS_CardinalityType DEF ExistsBijection, Bijection, Injection
<1>2. SetToSeq(S) \in [1..Cardinality(S) -> S]
  BY <1>1 DEF SetToSeq
<1> QED BY <1>1, <1>2

\* Rows that one transaction can put into the table.
Proper(kind, rows) ==
  /\ kind \in Adding \cup Putting \cup {"bulk"}
  /\ rows \subseteq Items /\ OneEach(rows)
  /\ kind \in Adding => IdsOf(rows) \cap IdsOf(stored) = {}
  /\ kind = "bulk" => IdsOf(rows) \subseteq IdsOf(stored)

\* Copies are elements with new ids.
LEMMA CopiesAreProper ==
  ASSUME ScheduleTypes, NEW S, IsFiniteSet(S), \A x \in S : x.version \in 0..Versions,
         NEW days \in SUBSET Days, NEW kind \in Adding, IdsOf(Copies(S, days)) \subseteq Ids
  PROVE  Proper(kind, Copies(S, days))
<1> DEFINE pair == SetToSeq(S \X days)
<1>1. pair \in Seq(S \X days)
  <2>1. IsFiniteSet(Days)
    BY FS_Interval, GeneralAssumption, DaysAssumption DEF Days
  <2>2. IsFiniteSet(days)
    BY <2>1, FS_Subset
  <2> QED BY <2>2, FS_Product, SeqOfSet
<1> DEFINE Row(i) == [id |-> LastId + i, day |-> pair[i][2], version |-> pair[i][1].version]
<1>2. Copies(S, days) = {Row(i) : i \in 1..Len(pair)}
  BY DEF Copies
<1>3. ASSUME NEW i \in 1..Len(pair)
      PROVE  /\ Row(i).id = LastId + i /\ Row(i).day \in Days /\ Row(i).version \in 0..Versions
             /\ LastId + i \in Nat /\ LastId + i > LastId
  <2>1. pair[i] \in S \X days
    BY <1>1
  <2>2. pair[i][1] \in S /\ pair[i][2] \in days
    BY <2>1
  <2> QED BY <2>2, LastIdIsLast
<1>4. \A x \in Copies(S, days) : x.id \notin IdsOf(stored)
  BY <1>2, <1>3, LastIdIsLast
<1>5. Copies(S, days) \subseteq Items
  <2> SUFFICES ASSUME NEW i \in 1..Len(pair) PROVE Row(i) \in Items
    BY <1>2
  <2>1. Row(i).id \in Ids
    BY <1>2 DEF IdsOf
  <2> QED BY <1>3, <2>1 DEF Items
<1>6. OneEach(Copies(S, days))
  <2>1. ASSUME NEW i \in 1..Len(pair), NEW j \in 1..Len(pair), Row(i).id = Row(j).id
        PROVE  Row(i) = Row(j)
    <3>1. i = j
      BY <2>1, LastIdIsLast
    <3> QED BY <3>1
  <2> HIDE DEF Row, pair
  <2>2. \A x, y \in {Row(i) : i \in 1..Len(pair)} : x.id = y.id => x = y
    BY <2>1
  <2> QED BY <1>2, <2>2 DEF OneEach
<1>7. kind # "bulk" /\ kind \in Adding \cup Putting \cup {"bulk"}
  BY DEF Adding
<1>8. IdsOf(Copies(S, days)) \cap IdsOf(stored) = {}
  BY <1>4 DEF IdsOf
<1> HIDE DEF Row, pair
<1> QED BY <1>5, <1>6, <1>7, <1>8 DEF Proper

\* What an edit asks for.
Edited(e) == Create(e) \/ Import(e) \/ Save(e) \/ Duplicate(e) \/ Bulk(e) \/ Copy(e)

\* Every edit but a deletion is one transaction with proper rows.
LEMMA EditsAreProper ==
  ASSUME ScheduleTypes, NEW e \in Edits, Edited(e)
  PROVE  \E kind \in EditKinds, rows \in SUBSET Items : Proper(kind, rows) /\ Handled(e, kind, rows)
<1>1. ASSUME NEW kind \in EditKinds, NEW rows, Handled(e, kind, rows), Proper(kind, rows)
      PROVE  \E k \in EditKinds, r \in SUBSET Items : Proper(k, r) /\ Handled(e, k, r)
  BY <1>1 DEF Proper
<1>2. ASSUME NEW S, IsFiniteSet(S), \A x \in S : x.version \in 0..Versions,
             NEW days \in SUBSET Days, NEW kind \in Adding, Handled(e, kind, Copies(S, days))
      PROVE  \E k \in EditKinds, r \in SUBSET Items : Proper(k, r) /\ Handled(e, k, r)
  <2>1. Proper(kind, Copies(S, days))
    BY <1>2, CopiesAreProper DEF Handled
  <2> QED BY <1>1, <1>2, <2>1 DEF EditKinds
<1>3. CASE Create(e)
  <2>1. PICK d \in Days, v \in 0..Versions : Handled(e, "create", {New(d, v)})
    BY <1>3 DEF Create
  <2>2. Proper("create", {New(d, v)})
    BY <2>1 DEF Handled, Proper, New, IdsOf, Items, OneEach, Adding, Putting
  <2> QED BY <1>1, <2>1, <2>2 DEF EditKinds, Putting
<1>4. CASE Import(e)
  <2>1. PICK days \in SUBSET Days : Handled(e, "import", Copies({[version |-> Versions]}, days))
    BY <1>4 DEF Import
  <2>2. IsFiniteSet({[version |-> Versions]})
    BY FS_Singleton
  <2> QED BY <1>2, <2>1, <2>2, GeneralAssumption, DaysAssumption DEF Adding
<1>5. CASE Save(e)
  <2>1. PICK i \in IdsOf(listed) \cap IdsOf(stored), d \in Days, v \in 0..Versions :
          Handled(e, "save", {[id |-> i, day |-> d, version |-> v]})
    BY <1>5 DEF Save
  <2>2. Proper("save", {[id |-> i, day |-> d, version |-> v]})
    BY DEF Proper, IdsOf, Items, OneEach, Adding, Putting, ScheduleTypes
  <2> QED BY <1>1, <2>1, <2>2 DEF EditKinds, Putting
<1>6. CASE Duplicate(e)
  <2>1. PICK x \in stored : Handled(e, "duplicate", Copies({x}, {x.day}))
    BY <1>6 DEF Duplicate, WithIds
  <2>2. x.version \in 0..Versions /\ {x.day} \in SUBSET Days
    BY DEF ScheduleTypes, Items
  <2>3. IsFiniteSet({x})
    BY FS_Singleton
  <2> QED BY <1>2, <2>1, <2>2, <2>3 DEF Adding
<1>7. CASE Bulk(e)
  <2>1. PICK S \in SUBSET stored :
          \/ \E d \in Days : Handled(e, "bulk", {[x EXCEPT !.day = d] : x \in S})
          \/ \E v \in 0..Versions : Handled(e, "bulk", {[x EXCEPT !.version = v] : x \in S})
    BY <1>7 DEF Bulk, WithIds
  <2>2. ASSUME NEW d \in Days PROVE Proper("bulk", {[x EXCEPT !.day = d] : x \in S})
    BY DEF Proper, IdsOf, Items, OneEach, Adding, Putting, ScheduleTypes
  <2>3. ASSUME NEW v \in 0..Versions PROVE Proper("bulk", {[x EXCEPT !.version = v] : x \in S})
    BY DEF Proper, IdsOf, Items, OneEach, Adding, Putting, ScheduleTypes
  <2> QED BY <1>1, <2>1, <2>2, <2>3 DEF EditKinds
<1>8. CASE Copy(e)
  <2>1. PICK ids : \E days \in SUBSET Days, kind \in Adding :
          Handled(e, kind, Copies(WithIds(stored, ids), days))
    <3>1. CASE \E ids \in (SUBSET IdsOf(listed)) \ {{}}, d \in Days :
                Handled(e, "copy", Copies(WithIds(stored, ids), {d}))
      BY <3>1 DEF Adding
    <3>2. ASSUME NEW d \in Days, NEW t \in Days \ {d},
                 Handled(e, "copyDay", Copies(WithIds(stored, IdsOf({x \in listed : x.day = d})), {t}))
          PROVE  \E ids : \E days \in SUBSET Days, kind \in Adding :
                   Handled(e, kind, Copies(WithIds(stored, ids), days))
      BY <3>2 DEF Adding
    <3> QED BY <1>8, <3>1, <3>2 DEF Copy
  <2>2. IsFiniteSet(WithIds(stored, ids)) /\ \A x \in WithIds(stored, ids) : x.version \in 0..Versions
    BY StoredIsFinite, FS_Subset DEF WithIds, ScheduleTypes, Items
  <2> QED BY <1>2, <2>1, <2>2
<1> QED BY <1>3, <1>4, <1>5, <1>6, <1>7, <1>8 DEF Edited

-----------------------------------------------------------------------------
(* Types *)

\* The public part of elements is made of public items.
LEMMA PublicType ==
  ASSUME NEW S \in SUBSET Items, NEW d \in Days
  PROVE  Public(S, d) \in SUBSET PublicItems
BY GeneralAssumption, DaysAssumption DEF Public, Items, PublicItems, Ids

\* The blank requests and records are well-formed.
LEMMA BlankTypes ==
  /\ NoEdit \in EditRecord /\ OverEdit \in EditRecord /\ Formed(NoEdit) /\ Formed(OverEdit)
  /\ NoEdit.pc = "idle" /\ NoEdit.left = {} /\ NoEdit.here /\ OverEdit.pc = "over" /\ OverEdit.left = {}
  /\ NoPublish \in PublishRecord /\ OverPublish \in PublishRecord
  /\ ~NoPublish.took /\ ~OverPublish.took /\ NoPublish.pc = "idle" /\ OverPublish.pc = "over"
  /\ NoRecords \in [Days -> DayRecord] /\ NoState \in StateRecord
<1>1. NoRecord \in DayRecord
  BY DEF NoRecord, DayRecord
<1>2. NoRecords \in [Days -> DayRecord] /\ NoState \in StateRecord
  BY <1>1 DEF NoRecords, NoState, StateRecord
<1>3. /\ NoEdit \in EditRecord /\ OverEdit \in EditRecord /\ Formed(NoEdit) /\ Formed(OverEdit)
      /\ NoEdit.pc = "idle" /\ NoEdit.left = {} /\ NoEdit.here /\ OverEdit.pc = "over" /\ OverEdit.left = {}
  BY DEF NoEdit, OverEdit, EditRecord, Formed, EditKinds, OneEach
<1>4. /\ NoPublish \in PublishRecord /\ OverPublish \in PublishRecord
      /\ ~NoPublish.took /\ ~OverPublish.took /\ NoPublish.pc = "idle" /\ OverPublish.pc = "over"
  BY <1>2 DEF NoPublish, OverPublish, PublishRecord
<1> QED BY <1>2, <1>3, <1>4

\* To put rows into a table keeps one element for each id.
LEMMA RowsType ==
  ASSUME NEW S \in SUBSET Items, OneEach(S), NEW rows \in SUBSET Items, OneEach(rows)
  PROVE  /\ (S \ WithIds(S, IdsOf(rows))) \cup rows \in SUBSET Items
         /\ OneEach((S \ WithIds(S, IdsOf(rows))) \cup rows)
BY DEF OneEach, WithIds, IdsOf

\* What is left of an edit when its page has been answered.
LEMMA FinishedType ==
  ASSUME NEW edit \in EditRecord
  PROVE  /\ Finished(edit) \in EditRecord /\ Formed(Finished(edit))
         /\ Finished(edit).pc = "over" /\ Finished(edit).here
         /\ Finished(edit).left = edit.left
BY BlankTypes DEF Finished, OverEdit, NoEdit, EditRecord, Formed, OneEach, EditKinds

\* What is left of an edit when its page is gone.
LEMMA AbandonedType ==
  ASSUME NEW edit \in EditRecord, Formed(edit)
  PROVE  /\ Abandoned(edit) \in EditRecord /\ Formed(Abandoned(edit))
         /\ Abandoned(edit).here => Abandoned(edit).pc \in {"idle", "over"}
<1>1. CASE edit.pc = "asked"
  <2>1. Abandoned(edit) = [edit EXCEPT !.here = FALSE]
    BY <1>1, BlankTypes DEF Abandoned
  <2> QED BY <1>1, <2>1 DEF EditRecord, Formed
<1>2. CASE edit.pc # "asked" /\ edit.left # {}
  <2>1. Abandoned(edit) = [Finished(edit) EXCEPT !.here = FALSE]
    BY <1>2 DEF Abandoned
  <2>2. /\ Abandoned(edit) \in EditRecord /\ Abandoned(edit).pc = "over" /\ ~Abandoned(edit).here
        /\ Abandoned(edit).rows = Finished(edit).rows
    BY <2>1, FinishedType DEF EditRecord
  <2> QED BY <2>2, FinishedType DEF Formed
<1>3. CASE edit.pc \in {"refresh", "done"} /\ edit.left = {}
  <2>1. Abandoned(edit) = OverEdit
    BY <1>3 DEF Abandoned
  <2> QED BY <2>1, BlankTypes
<1>4. CASE edit.pc \in {"idle", "over"} /\ edit.left = {}
  <2>1. Abandoned(edit) = edit
    BY <1>4 DEF Abandoned
  <2> QED BY <1>4, <2>1
<1>5. edit.pc \in {"idle", "asked", "refresh", "done", "over"}
  BY DEF EditRecord
<1> QED BY <1>1, <1>2, <1>3, <1>4, <1>5

\* A deletion of which one request has failed.
LEMMA AfterFailureType ==
  ASSUME NEW edit \in EditRecord, Formed(edit), NEW i \in edit.left
  PROVE  LET next == AfterFailure([edit EXCEPT !.left = @ \ {i}]) IN
         /\ next \in EditRecord /\ Formed(next)
         /\ next.here => \/ next.pc \in {"idle", "over"}
                         \/ edit.here /\ edit.pc \notin {"idle", "over"}
<1> DEFINE left == [edit EXCEPT !.left = @ \ {i}]
<1>1. /\ left \in EditRecord /\ left.pc = edit.pc /\ left.here = edit.here /\ left.kind = edit.kind
      /\ left.ids = edit.ids /\ left.left = edit.left \ {i} /\ left.rows = edit.rows
  BY DEF EditRecord
<1>2. edit.pc # "idle"
  BY DEF Formed, NoEdit
<1> HIDE DEF left
<1>3. CASE left.pc = "asked" /\ left.here /\ left.kind = "deleteSelected"
  <2>1. AfterFailure(left) = [left EXCEPT !.pc = "refresh"]
    BY <1>3 DEF AfterFailure
  <2>2. AfterFailure(left) \in EditRecord /\ AfterFailure(left).pc = "refresh"
    BY <1>1, <2>1 DEF EditRecord
  <2>3. /\ AfterFailure(left).here /\ AfterFailure(left).kind = "deleteSelected"
        /\ AfterFailure(left).rows = edit.rows /\ AfterFailure(left).ids = edit.ids
        /\ AfterFailure(left).left = edit.left \ {i}
    BY <1>1, <1>3, <2>1 DEF EditRecord
  <2>4. edit.left \subseteq edit.ids
    BY <1>1, <1>3 DEF Formed
  <2>5. Formed(AfterFailure(left))
    BY <2>2, <2>3, <2>4 DEF Formed
  <2> QED BY <1>1, <1>3, <2>2, <2>5 DEF left
<1>4. CASE left.pc \in {"refresh", "done"}
  <2>1. AfterFailure(left) = left
    BY <1>4 DEF AfterFailure
  <2>2. Formed(left)
    BY <1>1, <1>4 DEF Formed
  <2> QED BY <1>1, <1>4, <2>1, <2>2 DEF left
<1>5. CASE ~(left.pc = "asked" /\ left.here /\ left.kind = "deleteSelected") /\ left.pc \notin {"refresh", "done"}
  <2>1. AfterFailure(left) = Finished(left)
    BY <1>5 DEF AfterFailure
  <2>2. AfterFailure(left) \in EditRecord /\ Formed(AfterFailure(left)) /\ AfterFailure(left).pc = "over"
    BY <1>1, <2>1, FinishedType
  <2> QED BY <2>2 DEF left
<1> QED BY <1>3, <1>4, <1>5

\* Steps that change one edit.
LEMMA EditKept ==
  ASSUME ScheduleTypes, FormedInv, NEW e \in Edits, NEW edit \in EditRecord, Formed(edit),
         Arrived \/ (edit.here => edit.pc \in {"idle", "over"}),
         To(e, edit), UNCHANGED loading, listed' = listed \/ "elements" \notin loading
  PROVE  edits' \in [Edits -> EditRecord] /\ FormedInv'
<1>1. edits' \in [Edits -> EditRecord] /\ edits'[e] = edit /\ \A f \in Edits \ {e} : edits'[f] = edits[f]
  BY DEF To, ScheduleTypes
<1>2. Arrived' = Arrived
  BY DEF Arrived
<1> QED BY <1>1, <1>2 DEF FormedInv

\* Steps that change no edit and none of what edits change.
LEMMA FormedStays ==
  ASSUME FormedInv, UNCHANGED <<edits, loading, listed>>
  PROVE  FormedInv'
BY DEF FormedInv, Arrived

\* Without the answers of its load the page has no edit on its way.
LEMMA NoneBeforeArrival ==
  ASSUME FormedInv, ~Arrived, NEW e \in Edits
  PROVE  ~Live(e)
BY DEF FormedInv, Live, Pending

\* The load and its ends.
LEMMA LoadTypes ==
  ASSUME ScheduleTypes, FormedInv, ReadElements \/ ReadState \/ LoadFails
  PROVE  ScheduleTypes' /\ FormedInv'
<1>1. CASE ReadElements
  <2>1. ~Arrived /\ "failed" \notin loading
    BY <1>1 DEF ReadElements, Arrived, Reads, ScheduleTypes
  <2>2. loading' \in (SUBSET Reads) \cup {{"failed"}} /\ "elements" \notin loading'
    BY <1>1 DEF ReadElements, ScheduleTypes, Reads
  <2>3. ScheduleTypes'
    BY <1>1, <2>2 DEF ReadElements, backend, ScheduleTypes
  <2> QED BY <1>1, <2>1, <2>2, <2>3 DEF ReadElements, FormedInv
<1>2. CASE ReadState
  <2>1. ~Arrived /\ "failed" \notin loading
    BY <1>2 DEF ReadState, Arrived, Reads, ScheduleTypes
  <2>2. loading' \in (SUBSET Reads) \cup {{"failed"}} /\ "elements" \in loading' => "elements" \in loading
    BY <1>2 DEF ReadState, ScheduleTypes, Reads
  <2>3. ScheduleTypes'
    BY <1>2, <2>2 DEF ReadState, backend, ScheduleTypes, StateRecord
  <2> QED BY <1>2, <2>1, <2>2, <2>3 DEF ReadState, FormedInv
<1>3. CASE LoadFails
  <2>1. turns' \in 0..MaxTurns
    BY <1>3, GeneralAssumption, DaysAssumption DEF LoadFails, Turn, ScheduleTypes
  <2>2. ScheduleTypes'
    BY <1>3, <2>1, BlankTypes DEF LoadFails, backend, ScheduleTypes
  <2> QED BY <1>3, <2>2 DEF LoadFails, FormedInv
<1> QED BY <1>1, <1>2, <1>3

\* What a publish sends, and what the server has once it took it.
LEMMA RequestType ==
  ASSUME ScheduleTypes, NEW p \in Publishes
  PROVE  Request(p) \in Requests
BY DEF ScheduleTypes, Request, Requests, PublishRecord

\* The server then has public elements of each day.
LEMMA TakesType ==
  ASSUME ScheduleTypes, NEW request \in Requests, Takes(request)
  PROVE  server' \in [Days -> SUBSET PublicItems]
BY DEF ScheduleTypes, Takes, Requests

\* The departures from the page.
LEMMA DepartureTypes ==
  ASSUME ScheduleTypes, FormedInv, LeaveTab \/ Relaunch
  PROVE  ScheduleTypes' /\ FormedInv'
<1>1. FreshPage
  BY DEF LeaveTab, Relaunch
<1>2. /\ turns' \in 0..MaxTurns /\ listed' = {} /\ publishState' \in [Days -> DayRecord]
      /\ loading' = Reads /\ unseen' \in BOOLEAN
  <2>1. turns' \in 0..MaxTurns
    BY <1>1, GeneralAssumption, DaysAssumption DEF FreshPage, Turn, ScheduleTypes
  <2>2. NoRecords \in [Days -> DayRecord]
    BY BlankTypes
  <2> QED BY <1>1, <2>1, <2>2 DEF FreshPage
<1>3. CASE LeaveTab
  <2>1. stored' \subseteq Items /\ OneEach(stored')
    <3>1. PICK hidden \in SUBSET stored :
            stored' = (stored \ hidden) \cup {[x EXCEPT !.version = 0] : x \in hidden}
      BY <1>3 DEF LeaveTab
    <3>2. ASSUME NEW x \in stored
          PROVE  /\ [x EXCEPT !.version = 0] \in Items
                 /\ [x EXCEPT !.version = 0].id = x.id
      BY GeneralAssumption, DaysAssumption DEF ScheduleTypes, Items
    <3>3. ASSUME NEW y \in stored'
          PROVE  /\ y \in Items
                 /\ \E x \in stored : /\ y.id = x.id
                                      /\ y = IF x \in hidden THEN [x EXCEPT !.version = 0] ELSE x
      BY <3>1, <3>2 DEF ScheduleTypes
    <3>4. \A x, y \in stored : x.id = y.id => x = y
      BY DEF ScheduleTypes, OneEach
    <3>5. OneEach(stored')
      BY <3>3, <3>4 DEF OneEach
    <3> QED BY <3>3, <3>5
  <2>2. edits' = [e \in Edits |-> Abandoned(edits[e])]
    BY <1>3 DEF LeaveTab
  <2>3. ASSUME NEW e \in Edits
        PROVE  /\ edits'[e] \in EditRecord /\ Formed(edits'[e])
               /\ edits'[e].here => edits'[e].pc \in {"idle", "over"}
    <3>1. edits[e] \in EditRecord /\ Formed(edits[e])
      BY DEF ScheduleTypes, FormedInv
    <3> QED BY <2>2, <3>1, AbandonedType
  <2>4. publishes' \in [Publishes -> PublishRecord]
    <3>1. ASSUME NEW p \in Publishes PROVE Left(publishes[p]) \in PublishRecord
      BY BlankTypes DEF Left, ScheduleTypes, PublishRecord
    <3> QED BY <1>3, <3>1 DEF LeaveTab
  <2>5. ScheduleTypes'
    BY <1>2, <1>3, <2>1, <2>2, <2>3, <2>4 DEF LeaveTab, ScheduleTypes
  <2> QED BY <1>2, <2>3, <2>5 DEF FormedInv
<1>4. CASE Relaunch
  <2>1. edits' = [e \in Edits |-> IF Waiting(e) THEN OverEdit ELSE edits[e]]
    BY <1>4 DEF Relaunch
  <2>2. ASSUME NEW e \in Edits
        PROVE  /\ edits'[e] \in EditRecord /\ Formed(edits'[e])
               /\ edits'[e].here => edits'[e].pc \in {"idle", "over"}
    BY <2>1, BlankTypes DEF ScheduleTypes, FormedInv, Waiting
  <2>3. publishes' \in [Publishes -> PublishRecord]
    BY <1>4, BlankTypes DEF Relaunch, ScheduleTypes
  <2>4. astray' \in BOOLEAN /\ cut' \subseteq Requests
    BY <1>4, RequestType DEF Relaunch, ScheduleTypes
  <2>5. ScheduleTypes'
    BY <1>2, <1>4, <2>1, <2>2, <2>3, <2>4 DEF Relaunch, ScheduleTypes
  <2> QED BY <1>2, <2>2, <2>5 DEF FormedInv
<1> QED BY <1>3, <1>4

\* Which edits are in the table.
LEMMA PendingType == ASSUME NEW e \in Edits PROVE PendingNow(e) \in SUBSET Edits
BY DEF PendingNow

\* An edit of one transaction.
LEMMA HandledTypes ==
  ASSUME ScheduleTypes, FormedInv, NEW e \in Edits, NEW kind \in EditKinds, NEW rows \in SUBSET Items,
         Proper(kind, rows), Handled(e, kind, rows)
  PROVE  ScheduleTypes' /\ FormedInv'
<1> DEFINE edit == [NoEdit EXCEPT !.pc = "done", !.kind = kind, !.rows = rows, !.after = PendingNow(e)]
<1>1. /\ edit \in EditRecord /\ edit.pc = "done" /\ edit.kind = kind /\ edit.rows = rows /\ edit.here
  BY PendingType DEF NoEdit, EditRecord
<1>2. OneEach(rows) /\ kind # "none" /\ kind \notin Deleting
  BY DEF Proper, Adding, Putting, Deleting
<1> HIDE DEF edit
<1>3. Formed(edit)
  BY <1>1, <1>2 DEF Formed
<1>4. /\ Arrived /\ To(e, edit) /\ UNCHANGED tab
      /\ stored' = (stored \ WithIds(stored, IdsOf(rows))) \cup rows
      /\ UNCHANGED <<state, server, cut, publishes, turns, unseen, astray>>
  BY DEF Handled, MayAsk, edit
<1>5. edits' \in [Edits -> EditRecord] /\ FormedInv'
  BY <1>1, <1>3, <1>4, EditKept DEF tab
<1>6. stored' \subseteq Items /\ OneEach(stored')
  BY <1>2, <1>4, RowsType DEF ScheduleTypes
<1> QED BY <1>4, <1>5, <1>6 DEF tab, ScheduleTypes

\* The click on a deletion.
LEMMA DeleteTypes ==
  ASSUME ScheduleTypes, FormedInv, NEW e \in Edits, Delete(e)
  PROVE  ScheduleTypes' /\ FormedInv'
<1>1. PICK ids \in (SUBSET IdsOf(listed)) \ {{}}, kind \in Deleting :
        /\ MayAsk(e, kind) /\ (kind = "delete" => Cardinality(ids) = 1)
        /\ To(e, [NoEdit EXCEPT !.pc = "asked", !.kind = kind, !.ids = ids, !.left = ids])
  BY DEF Delete
<1>2. UNCHANGED <<tab, backend, publishes, turns, unseen, astray>>
  BY DEF Delete
<1> DEFINE edit == [NoEdit EXCEPT !.pc = "asked", !.kind = kind, !.ids = ids, !.left = ids]
<1>3. ids \in SUBSET Ids
  BY DEF IdsOf, ScheduleTypes, Items
<1>4. /\ edit \in EditRecord /\ edit.pc = "asked" /\ edit.kind = kind /\ edit.rows = {}
      /\ edit.ids = ids /\ edit.left = ids
  BY <1>3 DEF NoEdit, EditRecord, EditKinds
<1>5. kind = "delete" => \A i, j \in ids : i = j
  <2>1. IsFiniteSet(ids)
    <3>1. IsFiniteSet(Ids)
      BY FS_Interval, GeneralAssumption, DaysAssumption DEF Ids
    <3> QED BY <1>3, <3>1, FS_Subset
  <2>2. kind = "delete" => \E x : ids = {x}
    BY <1>1, <2>1, FS_Singleton
  <2> QED BY <2>2
<1> HIDE DEF edit
<1>6. Formed(edit)
  BY <1>4, <1>5 DEF Formed, OneEach
<1>7. edits' \in [Edits -> EditRecord] /\ FormedInv'
  BY <1>1, <1>2, <1>4, <1>6, EditKept DEF tab, MayAsk, edit
<1> QED BY <1>2, <1>7 DEF tab, backend, ScheduleTypes

\* A deletion with one request less to do, and with none left.
Fewer(edit, i) == [edit EXCEPT !.left = @ \ {i}]
AllDeleted(e, i) == [Fewer(edits[e], i) EXCEPT !.pc = "done", !.after = PendingNow(e)]

\* One request less changes nothing else of the deletion.
LEMMA FewerType ==
  ASSUME NEW edit \in EditRecord, NEW i
  PROVE  /\ Fewer(edit, i) \in EditRecord /\ Fewer(edit, i).pc = edit.pc
         /\ Fewer(edit, i).kind = edit.kind /\ Fewer(edit, i).here = edit.here
         /\ Fewer(edit, i).ids = edit.ids /\ Fewer(edit, i).rows = edit.rows
         /\ Fewer(edit, i).left = edit.left \ {i} /\ Fewer(edit, i).after = edit.after
BY DEF Fewer, EditRecord

\* A deletion of which nothing is left waits for its page.
LEMMA AllDeletedType ==
  ASSUME NEW e \in Edits, edits[e] \in EditRecord, NEW i
  PROVE  /\ AllDeleted(e, i) \in EditRecord /\ AllDeleted(e, i).pc = "done"
         /\ AllDeleted(e, i).kind = edits[e].kind /\ AllDeleted(e, i).here = edits[e].here
         /\ AllDeleted(e, i).ids = edits[e].ids /\ AllDeleted(e, i).rows = edits[e].rows
         /\ AllDeleted(e, i).left = edits[e].left \ {i} /\ AllDeleted(e, i).after = PendingNow(e)
<1> DEFINE next == Fewer(edits[e], i)
<1>1. /\ next \in EditRecord /\ next.kind = edits[e].kind /\ next.here = edits[e].here
      /\ next.ids = edits[e].ids /\ next.rows = edits[e].rows /\ next.left = edits[e].left \ {i}
  BY FewerType
<1>2. AllDeleted(e, i) = [next EXCEPT !.pc = "done", !.after = PendingNow(e)]
  BY DEF AllDeleted
<1> HIDE DEF next
<1> QED BY <1>1, <1>2, PendingType DEF EditRecord

\* The request of a deletion at the backend: the last of an edit that the
\* page waits for, the last of another, or one of several.
LEMMA DeletedCases ==
  ASSUME ScheduleTypes, FormedInv, NEW e \in Edits, NEW i \in Ids, Deleted(e, i)
  PROVE  /\ edits[e] \in EditRecord /\ Formed(edits[e]) /\ edits[e].pc # "idle"
         /\ i \in edits[e].left /\ i \in IdsOf(stored)
         /\ \/ /\ edits[e].left = {i} /\ edits[e].pc = "asked" /\ edits[e].here
               /\ To(e, AllDeleted(e, i))
            \/ /\ edits[e].pc = "over" \/ ~edits[e].here
               /\ To(e, OverEdit)
            \/ /\ edits[e].pc = "asked" => edits[e].left # {i}
               /\ To(e, Fewer(edits[e], i))
<1>1. edits[e] \in EditRecord /\ Formed(edits[e]) /\ i \in edits[e].left /\ i \in IdsOf(stored)
  BY DEF ScheduleTypes, FormedInv, Deleted
<1>2. edits[e].pc # "idle"
  BY <1>1, BlankTypes DEF Formed
<1> DEFINE next == Fewer(edits[e], i)
           Ends == next.left = {} /\ edits[e].pc = "asked" /\ edits[e].here
           Drops == next.left = {} /\ (edits[e].pc = "over" \/ ~edits[e].here)
<1>3. To(e, CASE Ends -> AllDeleted(e, i) [] Drops -> OverEdit [] OTHER -> next)
  BY DEF Deleted, AllDeleted, Fewer
<1>4. next.left = edits[e].left \ {i} /\ edits[e].here \in BOOLEAN
  BY <1>1, FewerType DEF EditRecord
<1>5. Ends => To(e, AllDeleted(e, i)) /\ edits[e].left = {i}
  BY <1>1, <1>3, <1>4
<1>6. Drops => To(e, OverEdit)
  BY <1>3
<1>7. ~Ends /\ ~Drops => To(e, next) /\ (edits[e].pc = "asked" => edits[e].left # {i})
  <2>1. ~Ends /\ ~Drops => To(e, next)
    BY <1>3
  <2> QED BY <2>1, <1>4
<1> QED BY <1>1, <1>2, <1>5, <1>6, <1>7

\* A deletion at the backend.
LEMMA DeletedTypes ==
  ASSUME ScheduleTypes, FormedInv, NEW e \in Edits, NEW i \in Ids, Deleted(e, i)
  PROVE  ScheduleTypes' /\ FormedInv'
<1>1. /\ edits[e] \in EditRecord /\ Formed(edits[e]) /\ edits[e].pc # "idle" /\ i \in edits[e].left
      /\ Arrived \/ (edits[e].here => edits[e].pc \in {"idle", "over"})
  BY DeletedCases DEF FormedInv
<1>2. /\ UNCHANGED <<tab, state, server, cut, publishes, turns, astray>>
      /\ stored' = stored \ WithIds(stored, {i}) /\ unseen' \in BOOLEAN
  BY DEF Deleted, Unnoticed, ScheduleTypes
<1>3. ASSUME edits[e].left = {i}, edits[e].pc = "asked", edits[e].here, To(e, AllDeleted(e, i))
      PROVE  edits' \in [Edits -> EditRecord] /\ FormedInv'
  <2>1. AllDeleted(e, i).left = {} /\ AllDeleted(e, i).ids # {}
    BY <1>1, <1>3, AllDeletedType DEF Formed
  <2>2. /\ AllDeleted(e, i).here /\ AllDeleted(e, i).kind # "none" /\ OneEach(AllDeleted(e, i).rows)
        /\ AllDeleted(e, i).pc = "done"
    BY <1>1, <1>3, AllDeletedType DEF Formed, Deleting
  <2>3. Formed(AllDeleted(e, i))
    BY <2>1, <2>2 DEF Formed
  <2> QED BY <1>1, <1>2, <1>3, <2>3, AllDeletedType, EditKept DEF tab
<1>4. ASSUME To(e, OverEdit)
      PROVE  edits' \in [Edits -> EditRecord] /\ FormedInv'
  BY <1>1, <1>2, <1>4, BlankTypes, EditKept DEF tab
<1>5. ASSUME To(e, Fewer(edits[e], i)), edits[e].pc = "asked" => edits[e].left # {i}
      PROVE  edits' \in [Edits -> EditRecord] /\ FormedInv'
  <2>1. Formed(Fewer(edits[e], i))
    BY <1>1, <1>5, FewerType DEF Formed
  <2> QED BY <1>1, <1>2, <1>5, <2>1, FewerType, EditKept DEF tab
<1>6. edits' \in [Edits -> EditRecord] /\ FormedInv'
  BY <1>3, <1>4, <1>5, DeletedCases
<1>7. stored' \subseteq Items /\ OneEach(stored')
  BY <1>2 DEF ScheduleTypes, OneEach
<1> QED BY <1>2, <1>6, <1>7 DEF tab, ScheduleTypes

\* A request of a deletion fails.
LEMMA DeleteFailsTypes ==
  ASSUME ScheduleTypes, FormedInv, NEW e \in Edits, NEW i \in Ids, DeleteFails(e, i)
  PROVE  ScheduleTypes' /\ FormedInv'
<1> DEFINE next == AfterFailure(Fewer(edits[e], i))
<1>1. /\ edits[e] \in EditRecord /\ Formed(edits[e]) /\ i \in edits[e].left
      /\ Arrived \/ (edits[e].here => edits[e].pc \in {"idle", "over"})
  BY DEF ScheduleTypes, FormedInv, DeleteFails
<1>2. UNCHANGED <<tab, backend, publishes, turns, unseen, astray>> /\ To(e, next)
  BY DEF DeleteFails, Fewer
<1>3. /\ next \in EditRecord /\ Formed(next)
      /\ next.here => \/ next.pc \in {"idle", "over"}
                      \/ edits[e].here /\ edits[e].pc \notin {"idle", "over"}
  BY <1>1, AfterFailureType DEF Fewer
<1> HIDE DEF next
<1>4. edits' \in [Edits -> EditRecord] /\ FormedInv'
  BY <1>1, <1>2, <1>3, EditKept DEF tab
<1> QED BY <1>2, <1>4 DEF tab, backend, ScheduleTypes

\* The edit that has read the elements again.
Refreshed(e) == [edits[e] EXCEPT !.pc = "done", !.kind = "refresh", !.rows = stored,
                                 !.after = PendingNow(e)]

\* It has all of the table at hand.
LEMMA RefreshedType ==
  ASSUME ScheduleTypes, NEW e \in Edits
  PROVE  /\ Refreshed(e) \in EditRecord /\ Refreshed(e).pc = "done" /\ Refreshed(e).kind = "refresh"
         /\ Refreshed(e).rows = stored /\ Refreshed(e).after = PendingNow(e)
         /\ Refreshed(e).here = edits[e].here /\ Refreshed(e).left = edits[e].left
         /\ Refreshed(e).ids = edits[e].ids
<1>1. edits[e] \in EditRecord /\ stored \in SUBSET Items /\ PendingNow(e) \in SUBSET Edits
  BY PendingType DEF ScheduleTypes
<1>2. "refresh" \in EditKinds
  BY DEF EditKinds
<1> QED BY <1>1, <1>2 DEF Refreshed, EditRecord

\* The elements are read again.
LEMMA RefreshReadTypes ==
  ASSUME ScheduleTypes, FormedInv, NEW e \in Edits, RefreshRead(e)
  PROVE  ScheduleTypes' /\ FormedInv'
<1>1. /\ edits[e] \in EditRecord /\ Formed(edits[e]) /\ edits[e].pc = "refresh" /\ OneEach(stored)
      /\ Arrived \/ (edits[e].here => edits[e].pc \in {"idle", "over"})
  BY DEF ScheduleTypes, FormedInv, RefreshRead
<1>2. UNCHANGED <<tab, backend, publishes, turns, unseen, astray>> /\ To(e, Refreshed(e))
  BY DEF RefreshRead, Refreshed
<1>3. Arrived /\ edits[e].here
  BY <1>1 DEF Formed
<1>4. Formed(Refreshed(e))
  BY <1>1, RefreshedType DEF Formed, Deleting
<1>5. edits' \in [Edits -> EditRecord] /\ FormedInv'
  BY <1>1, <1>2, <1>3, <1>4, RefreshedType, EditKept DEF tab
<1> QED BY <1>2, <1>5 DEF tab, backend, ScheduleTypes

\* The deletion that waits for the elements.
LEMMA ToRefreshType ==
  ASSUME NEW edit \in EditRecord, Formed(edit), edit.here, edit.kind = "deleteSelected",
         edit.pc = "done" \/ (edit.pc = "asked" /\ edit.left # edit.ids)
  PROVE  LET next == [edit EXCEPT !.pc = "refresh"] IN
         /\ next \in EditRecord /\ Formed(next) /\ next.pc = "refresh" /\ next.here
         /\ next.left = edit.left /\ next.ids = edit.ids
<1> DEFINE next == [edit EXCEPT !.pc = "refresh"]
<1>1. /\ next \in EditRecord /\ next.pc = "refresh" /\ next.here /\ next.kind = "deleteSelected"
      /\ next.left = edit.left /\ next.ids = edit.ids /\ next.rows = edit.rows
  BY DEF EditRecord
<1>2. edit.left \subseteq edit.ids /\ edit.left # edit.ids /\ OneEach(edit.rows)
  BY DEF Formed, Deleting
<1> HIDE DEF next
<1>3. Formed(next)
  BY <1>1, <1>2 DEF Formed
<1> QED BY <1>1, <1>3 DEF next

\* What an edit of the page is when its answer is lost.
LEMMA LostCases ==
  ASSUME ScheduleTypes, FormedInv, NEW e \in Edits, AnswerLost(e)
  PROVE  /\ edits[e] \in EditRecord /\ Formed(edits[e]) /\ Live(e) /\ Arrived
         /\ UNCHANGED <<tab, backend, publishes, astray>> /\ turns' \in 0..MaxTurns
         /\ \/ /\ edits[e].kind = "deleteSelected"
               /\ edits[e].pc = "done" \/ (edits[e].pc = "asked" /\ edits[e].left # edits[e].ids)
               /\ To(e, [edits[e] EXCEPT !.pc = "refresh"]) /\ UNCHANGED unseen
            \/ To(e, Finished(edits[e])) /\ unseen' = TRUE
<1>1. edits[e] \in EditRecord /\ Formed(edits[e])
  BY DEF ScheduleTypes, FormedInv
<1>2. Live(e) /\ Arrived
  BY NoneBeforeArrival DEF AnswerLost, Live
<1>3. turns' \in 0..MaxTurns
  BY GeneralAssumption, DaysAssumption DEF AnswerLost, Turn, ScheduleTypes
<1> QED BY <1>1, <1>2, <1>3 DEF AnswerLost, Pending

\* An answer is lost.
LEMMA AnswerLostTypes ==
  ASSUME ScheduleTypes, FormedInv, NEW e \in Edits, AnswerLost(e)
  PROVE  ScheduleTypes' /\ FormedInv'
<1>1. ASSUME edits[e].kind = "deleteSelected",
             edits[e].pc = "done" \/ (edits[e].pc = "asked" /\ edits[e].left # edits[e].ids),
             To(e, [edits[e] EXCEPT !.pc = "refresh"])
      PROVE  edits' \in [Edits -> EditRecord] /\ FormedInv'
  <2> DEFINE next == [edits[e] EXCEPT !.pc = "refresh"]
  <2>1. edits[e] \in EditRecord /\ Formed(edits[e]) /\ edits[e].here /\ Arrived /\ UNCHANGED tab
    BY LostCases DEF Live
  <2>2. next \in EditRecord /\ Formed(next)
    BY <1>1, <2>1, ToRefreshType
  <2> HIDE DEF next
  <2>3. To(e, next)
    BY <1>1 DEF next
  <2> QED BY <2>1, <2>2, <2>3, EditKept DEF tab
<1>2. ASSUME To(e, Finished(edits[e]))
      PROVE  edits' \in [Edits -> EditRecord] /\ FormedInv'
  <2>1. edits[e] \in EditRecord /\ Arrived /\ UNCHANGED tab
    BY LostCases
  <2> QED BY <1>2, <2>1, FinishedType, EditKept DEF tab
<1>3. edits' \in [Edits -> EditRecord] /\ FormedInv'
  BY <1>1, <1>2, LostCases
<1>4. UNCHANGED <<tab, backend, publishes, astray>> /\ turns' \in 0..MaxTurns /\ unseen' \in BOOLEAN
  BY LostCases DEF ScheduleTypes
<1> QED BY <1>3, <1>4 DEF tab, backend, ScheduleTypes

\* What the page makes of an answer is made of elements.
LEMMA ListedAfterType ==
  ASSUME NEW edit \in EditRecord, listed \subseteq Items
  PROVE  ListedAfter(edit) \subseteq Items
<1>1. edit.rows \subseteq Items
  BY DEF EditRecord
<1> QED BY <1>1 DEF ListedAfter, WithIds

\* The answer of an edit.
LEMMA AnsweredTypes ==
  ASSUME ScheduleTypes, FormedInv, NEW e \in Edits, Answered(e)
  PROVE  ScheduleTypes' /\ FormedInv'
<1>1. edits[e] \in EditRecord /\ Formed(edits[e]) /\ edits[e].pc = "done" /\ edits[e].here
  BY DEF ScheduleTypes, FormedInv, Formed, Answered
<1>2. /\ listed' = ListedAfter(edits[e]) /\ To(e, Finished(edits[e])) /\ unseen' \in BOOLEAN
      /\ UNCHANGED <<publishState, loading, backend, publishes, turns, astray>>
  BY DEF Answered, ScheduleTypes
<1>3. Arrived /\ "elements" \notin loading
  BY <1>1 DEF FormedInv, Arrived, Reads
<1>4. edits' \in [Edits -> EditRecord] /\ FormedInv'
  BY <1>1, <1>2, <1>3, FinishedType, EditKept
<1>5. listed' \subseteq Items
  BY <1>1, <1>2, ListedAfterType DEF ScheduleTypes
<1> QED BY <1>2, <1>4, <1>5 DEF backend, ScheduleTypes

\* The request of a publish.
Asked(p, days) ==
  [NoPublish EXCEPT !.pc = "posted", !.days = days, !.before = state,
                    !.items = [d \in Days |-> IF d \in days THEN Public(stored, d) ELSE {}]]

\* It begins with the state as it is, and the server has not taken it.
LEMMA AskedType ==
  ASSUME ScheduleTypes, NEW p \in Publishes, NEW days \in SUBSET Days
  PROVE  /\ Asked(p, days) \in PublishRecord /\ Asked(p, days).pc = "posted"
         /\ ~Asked(p, days).took /\ Asked(p, days).before = state
<1>1. state \in StateRecord
  BY DEF ScheduleTypes
<1>2. [d \in Days |-> IF d \in days THEN Public(stored, d) ELSE {}] \in [Days -> SUBSET PublicItems]
  BY PublicType DEF ScheduleTypes
<1> QED BY <1>1, <1>2, BlankTypes DEF Asked, NoPublish, PublishRecord

\* The records that a publish commits.
LEMMA RecordedType ==
  ASSUME NEW publish \in PublishRecord
  PROVE  WithSuccess(publish) \in StateRecord /\ WithFailure(publish) \in StateRecord
<1>1. publish.before.records \in [Days -> DayRecord] /\ publish.items \in [Days -> SUBSET PublicItems]
  BY DEF PublishRecord, StateRecord
<1>2. ASSUME NEW records \in [Days -> DayRecord]
      PROVE  Recorded(publish, records) \in StateRecord
  BY <1>1 DEF Recorded, StateRecord
<1>3. [d \in Days |-> [published |-> TRUE, items |-> publish.items[d], failed |-> FALSE]]
        \in [Days -> DayRecord]
  BY <1>1 DEF DayRecord
<1>4. [d \in Days |-> [publish.before.records[d] EXCEPT !.failed = TRUE]] \in [Days -> DayRecord]
  BY <1>1 DEF DayRecord
<1> QED BY <1>2, <1>3, <1>4 DEF WithSuccess, WithFailure

\* The end of a publish: its record, or none.
LEMMA PublishEndsCases ==
  ASSUME ScheduleTypes, NEW p \in Publishes, PublishEnds(p)
  PROVE  LET publish == publishes[p] IN
         /\ publish \in PublishRecord /\ publish.pc = "posted"
         /\ \/ publish.took /\ ~Conflict(publish) /\ state' = WithSuccess(publish) /\ UNCHANGED astray
            \/ ~Conflict(publish) /\ state' = WithFailure(publish) /\ UNCHANGED astray
            \/ astray' = (astray \/ publish.took) /\ UNCHANGED state
         /\ turns' \in 0..MaxTurns
         /\ publishes' = [publishes EXCEPT ![p] =
              IF publish.here THEN [NoPublish EXCEPT !.pc = "answered"] ELSE OverPublish]
         /\ unseen' = (unseen \/ (~publish.here /\ "state" \notin loading))
         /\ cut' \subseteq Requests
         /\ UNCHANGED <<tab, stored, server, edits>>
<1> DEFINE publish == publishes[p]
<1>1. publish \in PublishRecord /\ publish.pc = "posted"
  BY DEF ScheduleTypes, PublishEnds
<1>2. turns' \in 0..MaxTurns
  BY GeneralAssumption, DaysAssumption DEF PublishEnds, Turn, ScheduleTypes
<1>3. \/ publish.took /\ ~Conflict(publish) /\ state' = WithSuccess(publish) /\ UNCHANGED astray
      \/ ~Conflict(publish) /\ state' = WithFailure(publish) /\ UNCHANGED astray
      \/ astray' = (astray \/ publish.took) /\ UNCHANGED state
  BY DEF PublishEnds
<1>4. cut' \subseteq Requests
  BY RequestType DEF PublishEnds, GivenUp, ScheduleTypes
<1> QED BY <1>1, <1>2, <1>3, <1>4 DEF PublishEnds

\* The steps of a publish.
LEMMA PublishTypes ==
  ASSUME ScheduleTypes, FormedInv, NEW p \in Publishes,
         (\E days \in {Days} \cup {{d} : d \in Days} : PublishAsked(p, days))
           \/ ServerTakes(p) \/ PublishEnds(p) \/ PublishShown(p)
  PROVE  ScheduleTypes' /\ FormedInv'
<1>1. ASSUME NEW days \in {Days} \cup {{d} : d \in Days}, PublishAsked(p, days)
      PROVE  ScheduleTypes' /\ FormedInv'
  <2>1. days \in SUBSET Days
    OBVIOUS
  <2>2. publishes' = [publishes EXCEPT ![p] = Asked(p, days)]
    BY <1>1 DEF PublishAsked, Asked
  <2>3. publishes' \in [Publishes -> PublishRecord]
    BY <2>1, <2>2, AskedType DEF ScheduleTypes
  <2>4. UNCHANGED <<tab, backend, edits, turns, unseen>> /\ astray' \in BOOLEAN
    BY <1>1 DEF PublishAsked, ScheduleTypes
  <2> QED BY <2>3, <2>4, FormedStays DEF tab, backend, ScheduleTypes
<1>2. CASE ServerTakes(p)
  <2>1. publishes' \in [Publishes -> PublishRecord]
    BY <1>2 DEF ServerTakes, ScheduleTypes, PublishRecord
  <2>2. server' \in [Days -> SUBSET PublicItems]
    BY <1>2, RequestType, TakesType DEF ServerTakes
  <2>3. UNCHANGED <<tab, stored, state, cut, edits, turns, unseen, astray>>
    BY <1>2 DEF ServerTakes
  <2> QED BY <2>1, <2>2, <2>3, FormedStays DEF tab, ScheduleTypes
<1>3. CASE PublishEnds(p)
  <2>1. state' \in StateRecord /\ astray' \in BOOLEAN /\ unseen' \in BOOLEAN
    <3>1. /\ publishes[p] \in PublishRecord /\ publishes[p].took \in BOOLEAN
          /\ publishes[p].here \in BOOLEAN
      BY DEF ScheduleTypes, PublishRecord
    <3>2. WithSuccess(publishes[p]) \in StateRecord /\ WithFailure(publishes[p]) \in StateRecord
      BY <3>1, RecordedType
    <3>3. state \in StateRecord /\ astray \in BOOLEAN /\ unseen \in BOOLEAN
      BY DEF ScheduleTypes
    <3>4. state' \in StateRecord
      BY <1>3, <3>2, <3>3, PublishEndsCases
    <3>5. astray' \in BOOLEAN /\ unseen' \in BOOLEAN
      BY <1>3, <3>1, <3>3, PublishEndsCases
    <3> QED BY <3>4, <3>5
  <2>2. [NoPublish EXCEPT !.pc = "answered"] \in PublishRecord
    BY BlankTypes DEF PublishRecord
  <2>3. publishes' \in [Publishes -> PublishRecord]
    BY <1>3, <2>2, PublishEndsCases, BlankTypes DEF ScheduleTypes
  <2>4. turns' \in 0..MaxTurns /\ cut' \subseteq Requests /\ UNCHANGED <<tab, stored, server, edits>>
    BY <1>3, PublishEndsCases
  <2> QED BY <2>1, <2>3, <2>4, FormedStays DEF tab, ScheduleTypes
<1>4. CASE PublishShown(p)
  <2>1. publishes' \in [Publishes -> PublishRecord]
    BY <1>4, BlankTypes DEF PublishShown, ScheduleTypes
  <2>2. publishState' \in [Days -> DayRecord] /\ unseen' \in BOOLEAN
    BY <1>4 DEF PublishShown, ScheduleTypes, StateRecord
  <2>3. turns' \in 0..MaxTurns
    BY <1>4, GeneralAssumption, DaysAssumption DEF PublishShown, Turn, ScheduleTypes
  <2>4. UNCHANGED <<listed, loading, backend, edits, astray>>
    BY <1>4 DEF PublishShown
  <2> QED BY <2>1, <2>2, <2>3, <2>4, FormedStays DEF backend, ScheduleTypes
<1> QED BY <1>1, <1>2, <1>3, <1>4

\* A request that is taken after it was given up.
LEMMA LateTypes ==
  ASSUME ScheduleTypes, FormedInv, NEW request \in cut, TakenLate(request)
  PROVE  ScheduleTypes' /\ FormedInv'
<1>1. server' \in [Days -> SUBSET PublicItems]
  BY TakesType DEF TakenLate, ScheduleTypes
<1>2. cut' \subseteq Requests /\ astray' \in BOOLEAN
  BY DEF TakenLate, ScheduleTypes
<1>3. UNCHANGED <<tab, stored, state, edits, publishes, turns, unseen>>
  BY DEF TakenLate
<1> QED BY <1>1, <1>2, <1>3, FormedStays DEF tab, ScheduleTypes

\* The first state.
LEMMA InitTypes == GeneralInit => ScheduleTypes /\ FormedInv
<1> SUFFICES ASSUME GeneralInit PROVE ScheduleTypes /\ FormedInv
  OBVIOUS
<1>1. stored \subseteq Items /\ OneEach(stored)
  BY GeneralAssumption, DaysAssumption DEF GeneralInit, Items, OneEach, Ids, Days
<1>2. /\ edits \in [Edits -> EditRecord] /\ publishes \in [Publishes -> PublishRecord]
      /\ publishState \in [Days -> DayRecord] /\ state \in StateRecord
  BY BlankTypes DEF GeneralInit
<1>3. server \in [Days -> SUBSET PublicItems] /\ cut = {} /\ turns \in 0..MaxTurns
  BY GeneralAssumption, DaysAssumption DEF GeneralInit
<1>4. \A e \in Edits : Formed(edits[e]) /\ edits[e].pc = "idle"
  BY BlankTypes DEF GeneralInit
<1> QED BY <1>1, <1>2, <1>3, <1>4 DEF GeneralInit, ScheduleTypes, FormedInv

-----------------------------------------------------------------------------
(* The list and the edits on their way to it *)

\* While the elements are read the list is empty.
LEMMA PageWhileLoading == ASSUME FormedInv, "elements" \in loading PROVE PageInv
BY DEF FormedInv, PageInv, OneEach

\* No edit on its way: then the list and the table have to be the same.
LEMMA PageWithoutEdits ==
  ASSUME \A e \in Edits : ~Live(e), OneEach(listed), \A i \in Ids : Shows(At(listed, i), At(stored, i))
  PROVE  PageInv
BY DEF PageInv, OrderInv, NeedsInv, ListInv, Touchers

\* An edit that is as it was is on its way as it was.
LEMMA SameEdit ==
  ASSUME NEW f \in Edits, edits'[f] = edits[f]
  PROVE  (Live(f)' <=> Live(f)) /\ After(f)' = After(f)
BY DEF Live, Pending, After

\* The edits on their way are what they were.
Alike ==
  \A f \in Edits :
    /\ Live(f)' <=> Live(f)
    /\ Live(f) => /\ After(f)' = After(f) /\ edits'[f].pc = edits[f].pc
                  /\ edits'[f].kind = edits[f].kind /\ edits'[f].rows = edits[f].rows
                  /\ Touches(edits'[f]) = Touches(edits[f])

\* Then the page is what it was.
LEMMA AlikeKeeps ==
  ASSUME PageInv, Alike, UNCHANGED <<listed, stored, loading>>, ~unseen' => ~unseen
  PROVE  PageInv'
<1> SUFFICES ASSUME ~unseen', "elements" \notin loading
             PROVE  OrderInv' /\ NeedsInv' /\ (Uncrossed' => ListInv')
  BY DEF PageInv, OneEach
<1>1. OrderInv /\ NeedsInv /\ (Uncrossed => ListInv)
  BY DEF PageInv
<1>2. \A f \in Edits : Live(f) => Behind(f)' = Behind(f)
  BY DEF Alike, Behind
<1>3. \A f, g \in Edits : Crossed(f, g)' <=> Crossed(f, g)
  BY DEF Alike, Behind, Crossed
<1>4. \A f \in Edits : Live(f) => (Blocked(f)' <=> Blocked(f))
  BY <1>2, <1>3 DEF Blocked
<1>5. \A i : Touchers(i)' = Touchers(i)
  BY DEF Alike, Touchers
<1>6. \A f \in Edits, S \in SUBSET Edits : Live(f) => (IsLast(f, S)' <=> IsLast(f, S))
  BY DEF Alike, IsLast
<1>7. OrderInv'
  BY <1>1 DEF Alike, OrderInv
<1>8. NeedsInv'
  <2> SUFFICES ASSUME NEW f \in Edits, Live(f)', edits'[f].pc = "done",
                      edits'[f].kind \in Adding \cup {"bulk"}, NEW i \in Touches(edits'[f])
               PROVE  FindsWhatItNeeds(f, i)'
    BY DEF NeedsInv
  <2>1. Live(f) /\ FindsWhatItNeeds(f, i)
    BY <1>1 DEF Alike, NeedsInv
  <2> DEFINE before == Behind(f) \cap Touchers(i)
  <2>2. before' = before /\ before \in SUBSET Edits /\ \A g \in before : Live(g)
    BY <1>2, <1>5, <2>1 DEF Behind
  <2>3. CASE Blocked(f)
    BY <1>4, <2>1, <2>3 DEF FindsWhatItNeeds
  <2>4. CASE before = {} /\ Ready(edits[f], At(listed, i))
    <3>1. Ready(edits[f], At(listed, i))' <=> Ready(edits[f], At(listed, i))
      BY <2>1 DEF Alike, Ready, Failed
    <3> QED BY <2>2, <2>4, <3>1 DEF FindsWhatItNeeds
  <2>5. ASSUME NEW g \in before, IsLast(g, before), Needs(edits[f], Value(edits[g], i))
        PROVE  FindsWhatItNeeds(f, i)'
    <3>1. IsLast(g, before)'
      BY <1>6, <2>2, <2>5
    <3>2. Needs(edits'[f], Value(edits'[g], i))
      BY <2>1, <2>2, <2>5 DEF Alike, Needs, Value
    <3> QED BY <2>2, <3>1, <3>2 DEF FindsWhatItNeeds
  <2> QED BY <2>1, <2>3, <2>4, <2>5 DEF FindsWhatItNeeds
<1>9. Uncrossed' => ListInv'
  <2> SUFFICES ASSUME Uncrossed', NEW i \in Ids
               PROVE  IF Touchers(i)' = {} THEN Shows(At(listed, i), At(stored, i))'
                      ELSE \E f \in Touchers(i)' : IsLast(f, Touchers(i))' /\ Makes(edits'[f], i, At(stored', i))
    BY DEF ListInv
  <2>1. ListInv
    BY <1>1, <1>3 DEF Uncrossed
  <2>2. CASE Touchers(i) = {}
    BY <1>5, <2>1, <2>2 DEF ListInv, Shows, Failed
  <2>3. ASSUME NEW f \in Touchers(i), IsLast(f, Touchers(i)), Makes(edits[f], i, At(stored, i))
        PROVE  IsLast(f, Touchers(i))' /\ Makes(edits'[f], i, At(stored', i))
    <3>1. f \in Edits /\ Live(f) /\ Touchers(i) \in SUBSET Edits
      BY DEF Touchers
    <3>2. IsLast(f, Touchers(i))'
      BY <1>5, <1>6, <2>3, <3>1
    <3>3. Makes(edits'[f], i, At(stored', i))
      BY <2>3, <3>1 DEF Alike, Makes, Value
    <3> QED BY <3>2, <3>3
  <2> QED BY <1>5, <2>1, <2>2, <2>3 DEF ListInv
<1> QED BY <1>7, <1>8, <1>9

\* A step of one edit after which all others on their way come before it.
Joins(e) ==
  /\ UNCHANGED <<listed, loading>>
  /\ \A f \in Edits \ {e} : edits'[f] = edits[f]
  /\ Live(e)' /\ \A f \in Edits \ {e} : Live(f) => f \in After(e)'

\* It puts the edits in an order, and none that were crossed out of it.
LEMMA JoinsOrder ==
  ASSUME NEW e \in Edits, Joins(e)
  PROVE  /\ OrderInv => OrderInv'
         /\ \A f, g \in Edits : Crossed(f, g) => Crossed(f, g)'
         /\ \A f \in Edits \ {e} : Live(f) /\ e \in After(f) => Crossed(e, f)'
         /\ \A f \in Edits \ {e} : Blocked(f) => Blocked(f)'
         /\ Uncrossed' => Uncrossed /\ \A f \in Edits \ {e} : Live(f) => e \notin After(f)
<1>1. \A f \in Edits \ {e} : (Live(f)' <=> Live(f)) /\ After(f)' = After(f)
  BY SameEdit DEF Joins
<1>2. OrderInv => OrderInv'
  BY <1>1 DEF OrderInv, Joins
<1>3. \A f, g \in Edits : f \in Behind(g) => f \in Behind(g)'
  BY <1>1 DEF Behind, Joins
<1>4. \A f, g \in Edits : Crossed(f, g) => Crossed(f, g)'
  BY <1>3 DEF Crossed
<1>5. \A f \in Edits \ {e} : Live(f) /\ e \in After(f) => Crossed(e, f)'
  BY <1>1 DEF Crossed, Behind, Joins
<1>6. \A f \in Edits \ {e} : Blocked(f) => Blocked(f)'
  BY <1>3, <1>4 DEF Blocked
<1>7. Uncrossed' => Uncrossed /\ \A f \in Edits \ {e} : Live(f) => e \notin After(f)
  BY <1>4, <1>5 DEF Uncrossed
<1> QED BY <1>2, <1>4, <1>5, <1>6, <1>7

\* Another edit finds what it found before, or is blocked by the one that
\* joins.
LEMMA JoinsNeeds ==
  ASSUME NEW e \in Edits, Joins(e), NeedsInv,
         NEW f \in Edits \ {e}, Live(f)', edits'[f].pc = "done", edits'[f].kind \in Adding \cup {"bulk"},
         NEW i \in Touches(edits'[f])
  PROVE  FindsWhatItNeeds(f, i)'
<1>1. \A g \in Edits \ {e} : (Live(g)' <=> Live(g)) /\ After(g)' = After(g) /\ edits'[g] = edits[g]
  BY SameEdit DEF Joins
<1>2. FindsWhatItNeeds(f, i)
  BY <1>1 DEF NeedsInv
<1>3. CASE Blocked(f) \/ e \in After(f)
  <2>1. Blocked(f) => Blocked(f)'
    BY JoinsOrder
  <2>2. e \in After(f) => Crossed(e, f)'
    BY <1>1, JoinsOrder
  <2>3. Crossed(e, f)' => Blocked(f)'
    BY DEF Blocked, Crossed
  <2>4. Blocked(f)'
    BY <1>3, <2>1, <2>2, <2>3
  <2> QED BY <2>4 DEF FindsWhatItNeeds
<1>4. CASE ~Blocked(f) /\ e \notin After(f)
  <2> DEFINE before == Behind(f) \cap Touchers(i)
  <2>1. before' = before /\ before \in SUBSET (Edits \ {e})
    BY <1>1, <1>4 DEF Behind, Touchers
  <2>2. CASE before = {} /\ Ready(edits[f], At(listed, i))
    <3>1. Ready(edits[f], At(listed, i))'
      BY <1>1, <2>2 DEF Joins, Ready, Failed
    <3> QED BY <2>1, <2>2, <3>1 DEF FindsWhatItNeeds
  <2>3. ASSUME NEW g \in before, IsLast(g, before), Needs(edits[f], Value(edits[g], i))
        PROVE  FindsWhatItNeeds(f, i)'
    <3>1. IsLast(g, before)'
      BY <1>1, <2>1, <2>3 DEF IsLast
    <3>2. Needs(edits[f], Value(edits[g], i))'
      BY <1>1, <2>1, <2>3
    <3> QED BY <2>1, <2>3, <3>1, <3>2 DEF FindsWhatItNeeds
  <2> QED BY <1>2, <1>4, <2>2, <2>3 DEF FindsWhatItNeeds
<1> QED BY <1>3, <1>4

\* The edit that joins is the last of each element that it touches; it may
\* touch more than before.
LEMMA JoinsList ==
  ASSUME NEW e \in Edits, Joins(e), Uncrossed => ListInv, Uncrossed',
         \A i \in Ids : IF i \in Touches(edits'[e])
                        THEN Makes(edits'[e], i, At(stored', i))
                        ELSE /\ Live(e) => i \notin Touches(edits[e])
                             /\ At(stored', i) = At(stored, i)
  PROVE  ListInv'
<1>1. \A f \in Edits \ {e} : (Live(f)' <=> Live(f)) /\ After(f)' = After(f) /\ edits'[f] = edits[f]
  BY SameEdit DEF Joins
<1>2. ListInv
  BY JoinsOrder
<1> SUFFICES ASSUME NEW i \in Ids
             PROVE  IF Touchers(i)' = {} THEN Shows(At(listed, i), At(stored, i))'
                    ELSE \E f \in Touchers(i)' : IsLast(f, Touchers(i))' /\ Makes(edits'[f], i, At(stored', i))
  BY DEF ListInv
<1>3. CASE i \in Touches(edits'[e])
  <2>1. e \in Touchers(i)'
    BY <1>3 DEF Touchers, Joins
  <2>2. IsLast(e, Touchers(i))'
    BY <1>1, <2>1 DEF IsLast, Touchers, Joins
  <2> QED BY <1>3, <2>1, <2>2
<1>4. CASE i \notin Touches(edits'[e])
  <2>1. Touchers(i)' = Touchers(i) /\ Touchers(i) \in SUBSET (Edits \ {e})
    BY <1>1, <1>4 DEF Touchers
  <2>2. At(stored', i) = At(stored, i)
    BY <1>4
  <2>3. Touchers(i) = {} => Shows(At(listed, i), At(stored, i))'
    BY <1>2, <2>2 DEF ListInv, Shows, Failed, Joins
  <2>4. ASSUME NEW f \in Touchers(i), IsLast(f, Touchers(i)), Makes(edits[f], i, At(stored, i))
        PROVE  IsLast(f, Touchers(i))' /\ Makes(edits'[f], i, At(stored', i))
    BY <1>1, <2>1, <2>2, <2>4 DEF IsLast
  <2> QED BY <1>2, <2>1, <2>3, <2>4 DEF ListInv
<1> QED BY <1>3, <1>4

\* What the last edit of an element on its way makes of it.
LEMMA LastMakes ==
  ASSUME ListInv, NEW e \in Edits, Live(e), \A f \in Edits \ {e} : Live(f) => e \notin After(f),
         NEW i \in Ids, i \in Touches(edits[e])
  PROVE  Makes(edits[e], i, At(stored, i))
BY DEF ListInv, Touchers, IsLast

\* What joins without a need of its own keeps the invariant.
LEMMA JoinsKeeps ==
  ASSUME NEW e \in Edits, Joins(e), PageInv, "elements" \notin loading, ~unseen' => ~unseen,
         Live(e)' /\ edits'[e].pc = "done" /\ edits'[e].kind \in Adding \cup {"bulk"} =>
           \A i \in Touches(edits'[e]) : FindsWhatItNeeds(e, i)',
         ~unseen /\ Uncrossed' =>
           \A i \in Ids : IF i \in Touches(edits'[e])
                          THEN Makes(edits'[e], i, At(stored', i))
                          ELSE /\ Live(e) => i \notin Touches(edits[e])
                               /\ At(stored', i) = At(stored, i)
  PROVE  PageInv'
<1> SUFFICES ASSUME ~unseen' PROVE PageInv'
  BY DEF PageInv
<1>1. OneEach(listed') /\ OrderInv /\ NeedsInv /\ (Uncrossed => ListInv)
  BY DEF PageInv, Joins
<1>2. OrderInv'
  BY <1>1, JoinsOrder
<1>3. NeedsInv'
  <2>1. ASSUME NEW f \in Edits \ {e}, Live(f)', edits'[f].pc = "done",
               edits'[f].kind \in Adding \cup {"bulk"}, NEW i \in Touches(edits'[f])
        PROVE  FindsWhatItNeeds(f, i)'
    BY <1>1, <2>1, JoinsNeeds
  <2> QED BY <2>1 DEF NeedsInv
<1>4. Uncrossed' => ListInv'
  BY <1>1, JoinsList
<1> QED BY <1>1, <1>2, <1>3, <1>4 DEF PageInv

\* An edit of one transaction: the table has its rows, and what it found
\* there the page will show when its answer comes.
LEMMA HandledPage ==
  ASSUME ScheduleTypes, FormedInv, PageInv, NEW e \in Edits, NEW kind \in EditKinds,
         NEW rows \in SUBSET Items, Proper(kind, rows), Handled(e, kind, rows)
  PROVE  PageInv'
<1> DEFINE edit == [NoEdit EXCEPT !.pc = "done", !.kind = kind, !.rows = rows, !.after = PendingNow(e)]
<1>1. /\ edits'[e] = edit /\ \A f \in Edits \ {e} : edits'[f] = edits[f]
      /\ "elements" \notin loading /\ edits[e].pc = "idle"
      /\ stored' = (stored \ WithIds(stored, IdsOf(rows))) \cup rows
      /\ UNCHANGED <<tab, unseen>>
  BY DEF Handled, MayAsk, To, ScheduleTypes, Arrived, Reads
<1>2. /\ edit.pc = "done" /\ edit.kind = kind /\ edit.rows = rows /\ edit.here
      /\ edit.after = PendingNow(e)
  BY DEF NoEdit
<1>3. Touches(edit) = IdsOf(rows) /\ \A i : Value(edit, i) = At(rows, i)
  BY <1>2 DEF Touches, Value, Proper, Adding, Putting, Deleting
<1> HIDE DEF edit
<1>4. ~Live(e)
  BY <1>1 DEF Live, Pending
<1>5. After(e)' = PendingNow(e) /\ Live(e)'
  BY <1>1, <1>2 DEF After, Live, Pending
<1>6. Joins(e)
  <2>1. \A f \in Edits \ {e} : Live(f) => f \in PendingNow(e)
    BY DEF PendingNow, Live
  <2> QED BY <1>1, <1>5, <2>1 DEF Joins, tab
<1>7. \A i \in Ids : IF i \in Touches(edits'[e])
                     THEN Makes(edits'[e], i, At(stored', i))
                     ELSE At(stored', i) = At(stored, i)
  <2>1. \A i \in IdsOf(rows) : At(stored', i) = At(rows, i)
    BY <1>1 DEF At, WithIds, IdsOf
  <2>2. \A i : i \notin IdsOf(rows) => At(stored', i) = At(stored, i)
    BY <1>1 DEF At, WithIds, IdsOf
  <2> QED BY <1>1, <1>3, <2>1, <2>2 DEF Makes
<1>8. ASSUME kind \in Adding \cup {"bulk"}, ~unseen, NEW i \in IdsOf(rows)
      PROVE  FindsWhatItNeeds(e, i)'
  <2>1. i \in Ids /\ OrderInv /\ NeedsInv /\ (Uncrossed => ListInv)
    BY <1>1, <1>8 DEF PageInv, IdsOf, Items
  <2>2. /\ kind \in Adding => At(stored, i) = {}
        /\ kind = "bulk" => At(stored, i) # {}
    BY <1>8 DEF Proper, At, WithIds, IdsOf
  <2>3. Behind(e)' = {f \in Edits \ {e} : Live(f)}
    <3>1. \A f \in Edits \ {e} : Live(f)' <=> Live(f)
      BY <1>1, SameEdit
    <3> QED BY <1>6, <3>1 DEF Behind, Joins
  <2>4. CASE ~Uncrossed
    <3>1. PICK f, g \in Edits : Crossed(f, g)
      BY <2>4 DEF Uncrossed
    <3>2. Crossed(f, g)' /\ f \in Behind(e)'
      BY <1>4, <1>6, <2>3, <3>1, JoinsOrder DEF Crossed, Behind
    <3> QED BY <3>2 DEF FindsWhatItNeeds, Blocked
  <2>5. CASE Uncrossed
    <3> DEFINE before == Behind(e) \cap Touchers(i)
    <3>1. before' = Touchers(i)
      BY <1>1, <1>4, <2>3, SameEdit DEF Touchers
    <3>2. CASE Touchers(i) = {}
      <4>1. Shows(At(listed, i), At(stored, i))
        BY <2>1, <2>5, <3>2 DEF ListInv
      <4>2. Ready(edits[e], At(listed, i))'
        BY <1>1, <1>2, <2>2, <4>1 DEF Shows, Ready, Failed, tab, Adding
      <4> QED BY <3>1, <3>2, <4>2 DEF FindsWhatItNeeds
    <3>3. ASSUME NEW f \in Touchers(i), IsLast(f, Touchers(i)), Makes(edits[f], i, At(stored, i))
          PROVE  FindsWhatItNeeds(e, i)'
      <4>1. f \in Edits \ {e} /\ Live(f) /\ \A g \in Touchers(i) \ {f} : g \in After(f)
        BY <1>4, <3>3 DEF Touchers, IsLast
      <4>2. IsLast(f, before)'
        <5>1. After(f)' = After(f)
          BY <1>1, <4>1, SameEdit
        <5> QED BY <3>1, <3>3, <4>1, <5>1 DEF IsLast
      <4>3. CASE edits[f].pc = "refresh"
        <5>1. Crossed(e, f)'
          BY <1>6, <4>1, <4>3, JoinsOrder DEF After
        <5>2. Blocked(e)'
          BY <4>1, <5>1 DEF Blocked
        <5> QED BY <5>2 DEF FindsWhatItNeeds
      <4>4. CASE edits[f].pc # "refresh"
        <5>1. Value(edits[f], i) = At(stored, i)
          BY <3>3, <4>4 DEF Makes
        <5>2. Needs(edits[e], Value(edits[f], i))'
          BY <1>1, <1>2, <2>2, <4>1, <5>1 DEF Needs, Adding
        <5> QED BY <3>1, <3>3, <4>2, <5>2 DEF FindsWhatItNeeds
      <4> QED BY <4>3, <4>4
    <3> QED BY <2>1, <2>5, <3>2, <3>3 DEF ListInv
  <2> QED BY <2>4, <2>5
<1>9. ~unseen => (edits'[e].kind \in Adding \cup {"bulk"} =>
                    \A i \in Touches(edits'[e]) : FindsWhatItNeeds(e, i)')
  BY <1>1, <1>2, <1>3, <1>8
<1>10. unseen \/ PageInv'
  BY <1>1, <1>4, <1>6, <1>7, <1>9, JoinsKeeps DEF tab
<1> QED BY <1>1, <1>10 DEF PageInv

\* A click on a deletion puts nothing on its way.
LEMMA DeletePage ==
  ASSUME ScheduleTypes, PageInv, NEW e \in Edits, Delete(e)
  PROVE  PageInv'
<1>1. PICK ids, kind : To(e, [NoEdit EXCEPT !.pc = "asked", !.kind = kind, !.ids = ids, !.left = ids])
  BY DEF Delete
<1>2. edits[e].pc = "idle" /\ UNCHANGED <<tab, stored, unseen>>
  BY DEF Delete, MayAsk, backend
<1>3. ~Live(e) /\ ~Live(e)'
  <2>1. edits'[e].pc = "asked" /\ edits'[e].left = edits'[e].ids
    BY <1>1 DEF To, ScheduleTypes, NoEdit
  <2> QED BY <1>2, <2>1 DEF Live, Pending
<1>4. \A f \in Edits \ {e} : edits'[f] = edits[f]
  BY <1>1 DEF To, ScheduleTypes
<1>5. Alike
  BY <1>3, <1>4, SameEdit DEF Alike
<1> QED BY <1>2, <1>5, AlikeKeeps DEF tab

\* What is deleted for an edit of the page is what its answer takes away.
LEMMA DeletedPage ==
  ASSUME ScheduleTypes, FormedInv, PageInv, FormedInv', NEW e \in Edits, NEW i \in Ids, Deleted(e, i)
  PROVE  PageInv'
<1>1. /\ edits[e] \in EditRecord /\ Formed(edits[e]) /\ i \in edits[e].left
      /\ edits[e].pc \in {"asked", "refresh", "done", "over"}
  BY DeletedCases DEF EditRecord
<1>2. /\ UNCHANGED tab /\ stored' = stored \ WithIds(stored, {i})
      /\ unseen' = (unseen \/ Unnoticed(edits[e]))
  BY DEF Deleted
<1>3. CASE unseen' \/ "elements" \in loading
  BY <1>2, <1>3, PageWhileLoading DEF PageInv, tab
<1>4. CASE ~unseen' /\ "elements" \notin loading
  <2>1. edits[e].here /\ edits[e].pc \in {"asked", "refresh"} /\ ~unseen
    BY <1>1, <1>2, <1>4 DEF Unnoticed
  <2>2. /\ Live(e)' /\ After(e)' \in {Edits, PendingNow(e)} /\ edits'[e].left = edits[e].left \ {i}
        /\ edits'[e].kind = edits[e].kind /\ edits'[e].ids = edits[e].ids
        /\ \/ edits[e].pc = "refresh" /\ edits'[e].pc = "refresh"
           \/ edits[e].pc = "asked" /\ edits'[e].pc = "asked"
           \/ edits[e].pc = "asked" /\ edits'[e].pc = "done" /\ edits'[e].left = {}
    <3>1. ASSUME edits[e].left = {i}, edits[e].pc = "asked", To(e, AllDeleted(e, i))
          PROVE  /\ edits'[e] = AllDeleted(e, i)
                 /\ After(e)' = PendingNow(e) /\ Live(e)'
      <4>1. edits'[e] = AllDeleted(e, i)
        BY <3>1 DEF To, ScheduleTypes
      <4> QED BY <1>1, <2>1, <4>1, AllDeletedType DEF After, Live, Pending
    <3>2. ASSUME edits[e].pc = "asked" => edits[e].left # {i}, To(e, Fewer(edits[e], i))
          PROVE  /\ edits'[e] = Fewer(edits[e], i)
                 /\ After(e)' = Edits /\ Live(e)'
      <4>1. edits'[e] = Fewer(edits[e], i)
        BY <3>2 DEF To, ScheduleTypes
      <4>2. i \in edits[e].ids
        BY <1>1, <2>1 DEF Formed
      <4>3. Pending(e)'
        BY <1>1, <2>1, <4>1, <4>2, FewerType DEF Pending
      <4> QED BY <1>1, <2>1, <4>1, <4>3, FewerType DEF After, Live
    <3>3. \/ edits[e].left = {i} /\ edits[e].pc = "asked" /\ To(e, AllDeleted(e, i))
          \/ (edits[e].pc = "asked" => edits[e].left # {i}) /\ To(e, Fewer(edits[e], i))
      BY <2>1, DeletedCases
    <3>4. CASE edits[e].left = {i} /\ edits[e].pc = "asked" /\ To(e, AllDeleted(e, i))
      BY <1>1, <3>1, <3>4, AllDeletedType
    <3>5. CASE (edits[e].pc = "asked" => edits[e].left # {i}) /\ To(e, Fewer(edits[e], i))
      BY <1>1, <2>1, <3>2, <3>5, FewerType
    <3> QED BY <3>3, <3>4, <3>5
  <2>3. \A f \in Edits \ {e} : edits'[f] = edits[f]
    BY DeletedCases DEF To, ScheduleTypes
  <2>4. Joins(e)
    BY <1>2, <2>2, <2>3 DEF Joins, tab, PendingNow, Live
  <2>5. edits[e].kind \in Deleting /\ edits[e].left \subseteq edits[e].ids
    BY <1>1, <2>1 DEF Formed, Deleting
  <2>6. At(stored', i) = {} /\ \A j : j # i => At(stored', j) = At(stored, j)
    BY <1>2 DEF At, WithIds
  <2>7. ASSUME Uncrossed', NEW j \in Ids
        PROVE  IF j \in Touches(edits'[e]) THEN Makes(edits'[e], j, At(stored', j))
               ELSE (Live(e) => j \notin Touches(edits[e])) /\ At(stored', j) = At(stored, j)
    <3>1. CASE edits[e].pc = "refresh"
      BY <2>2, <3>1 DEF Touches, Makes
    <3>2. CASE edits[e].pc = "asked"
      <4>1. edits[e].kind # "refresh"
        BY <2>5 DEF Deleting
      <4>2. Touches(edits[e]) = edits[e].ids \ edits[e].left
        BY <3>2, <4>1 DEF Touches
      <4>3. Touches(edits'[e]) = edits[e].ids \ (edits[e].left \ {i})
        BY <2>2, <2>5, <3>2, <4>1 DEF Touches
      <4>4. ASSUME j \in Touches(edits[e]) PROVE At(stored, j) = {}
        <5>1. Live(e)
          BY <2>1, <2>5, <3>2, <4>2, <4>4 DEF Live, Pending
        <5>2. Uncrossed /\ \A f \in Edits \ {e} : Live(f) => e \notin After(f)
          BY <2>4, <2>7, JoinsOrder
        <5>3. ListInv
          BY <1>4, <2>1, <5>2 DEF PageInv
        <5>4. Makes(edits[e], j, At(stored, j))
          BY <4>4, <5>1, <5>2, <5>3, LastMakes
        <5> QED BY <2>5, <3>2, <5>4 DEF Makes, Value
      <4>5. j \in Touches(edits'[e]) => At(stored', j) = {}
        BY <2>6, <4>2, <4>3, <4>4
      <4>6. \A S : S = {} => Makes(edits'[e], j, S)
        BY <2>2, <2>5 DEF Makes, Value
      <4>7. i \in Touches(edits'[e])
        BY <1>1, <2>5, <4>3
      <4> QED BY <2>6, <4>2, <4>3, <4>5, <4>6, <4>7
    <3> QED BY <2>1, <3>1, <3>2
  <2>8. ~(edits'[e].kind \in Adding \cup {"bulk"})
    BY <2>2, <2>5 DEF Adding, Deleting
  <2> QED BY <1>2, <1>4, <2>1, <2>4, <2>7, <2>8, JoinsKeeps
<1> QED BY <1>3, <1>4

\* A deletion that will read the elements again joins the others.
LEMMA RefreshJoins ==
  ASSUME FormedInv, PageInv, NEW e \in Edits, "elements" \notin loading, ~unseen' => ~unseen,
         UNCHANGED <<tab, stored>>, \A f \in Edits \ {e} : edits'[f] = edits[f],
         Live(e)', edits'[e].pc = "refresh"
  PROVE  PageInv'
<1>1. Joins(e)
  BY DEF Joins, tab, After, Live
<1>2. \A i \in Ids : i \in Touches(edits'[e]) /\ Makes(edits'[e], i, At(stored', i))
  BY DEF Touches, Makes
<1> QED BY <1>1, <1>2, JoinsKeeps

\* After a failure the deletion reads the elements again, or it has not
\* deleted anything for the page.
LEMMA DeleteFailsPage ==
  ASSUME ScheduleTypes, FormedInv, PageInv, NEW e \in Edits, NEW i \in Ids, DeleteFails(e, i)
  PROVE  PageInv'
<1> DEFINE left == Fewer(edits[e], i)
<1>1. /\ edits[e] \in EditRecord /\ Formed(edits[e]) /\ i \in edits[e].left
      /\ UNCHANGED <<tab, stored, unseen>>
  BY DEF ScheduleTypes, FormedInv, DeleteFails, backend
<1>2. /\ left \in EditRecord /\ left.pc = edits[e].pc /\ left.kind = edits[e].kind
      /\ left.here = edits[e].here /\ left.ids = edits[e].ids /\ left.rows = edits[e].rows
      /\ left.left = edits[e].left \ {i} /\ left.after = edits[e].after
  BY <1>1, FewerType
<1>3. edits'[e] = AfterFailure(left) /\ \A f \in Edits \ {e} : edits'[f] = edits[f]
  BY DEF DeleteFails, To, ScheduleTypes, Fewer
<1>4. edits[e].pc # "idle"
  BY <1>1, BlankTypes DEF Formed
<1> HIDE DEF left
<1>5. CASE edits[e].pc = "asked" /\ edits[e].here /\ edits[e].kind = "deleteSelected"
  <2>1. AfterFailure(left) = [left EXCEPT !.pc = "refresh"]
    BY <1>2, <1>5 DEF AfterFailure
  <2>2. /\ edits'[e].pc = "refresh" /\ edits'[e].here
        /\ edits'[e].left = edits[e].left \ {i} /\ edits'[e].ids = edits[e].ids
    BY <1>2, <1>3, <1>5, <2>1 DEF EditRecord
  <2>3. edits[e].left \subseteq edits[e].ids
    BY <1>1, <1>5 DEF Formed
  <2>4. Live(e)'
    BY <1>1, <2>2, <2>3 DEF Live, Pending
  <2>5. "elements" \notin loading
    BY <1>5 DEF FormedInv, Arrived, Reads
  <2> QED BY <1>1, <1>3, <2>2, <2>4, <2>5, RefreshJoins
<1>6. CASE edits[e].pc \in {"refresh", "done"}
  <2>1. edits'[e] = left
    BY <1>2, <1>3, <1>6 DEF AfterFailure
  <2>2. Live(e)' /\ Live(e)
    BY <1>1, <1>2, <1>6, <2>1 DEF Live, Pending, Formed
  <2>3. edits[e].pc = "done" => edits[e].kind \notin Deleting
    BY <1>1 DEF Formed
  <2>4. After(e)' = After(e) /\ Touches(edits'[e]) = Touches(edits[e])
    BY <1>2, <1>6, <2>1, <2>3 DEF After, Touches
  <2>5. Alike
    BY <1>2, <1>3, <2>1, <2>2, <2>4, SameEdit DEF Alike
  <2> QED BY <1>1, <2>5, AlikeKeeps DEF tab
<1>7. CASE /\ ~(edits[e].pc = "asked" /\ edits[e].here /\ edits[e].kind = "deleteSelected")
           /\ edits[e].pc \in {"asked", "over"}
  <2>1. edits'[e] = Finished(left)
    BY <1>2, <1>3, <1>7 DEF AfterFailure
  <2>2. ~Live(e)'
    BY <1>2, <2>1, FinishedType DEF Live, Pending
  <2>3. edits[e].pc = "asked" /\ edits[e].here => edits[e].left = edits[e].ids
    BY <1>1, <1>7 DEF Formed, Deleting
  <2>4. ~Live(e)
    BY <1>7, <2>3 DEF Live, Pending
  <2>5. Alike
    BY <1>3, <2>2, <2>4, SameEdit DEF Alike
  <2> QED BY <1>1, <2>5, AlikeKeeps DEF tab
<1>8. edits[e].pc \in {"asked", "refresh", "done", "over"}
  BY <1>1, <1>4 DEF EditRecord
<1> QED BY <1>5, <1>6, <1>7, <1>8

\* What is read again is all of the table.
LEMMA RefreshReadPage ==
  ASSUME ScheduleTypes, FormedInv, PageInv, NEW e \in Edits, RefreshRead(e)
  PROVE  PageInv'
<1>1. /\ edits[e].here /\ edits'[e] = Refreshed(e) /\ \A f \in Edits \ {e} : edits'[f] = edits[f]
      /\ UNCHANGED <<tab, stored, unseen>> /\ edits[e].pc = "refresh"
  BY DEF RefreshRead, Refreshed, To, ScheduleTypes, FormedInv, Formed, backend
<1>2. "elements" \notin loading
  BY <1>1 DEF FormedInv, Arrived, Reads
<1>3. /\ edits'[e].pc = "done" /\ edits'[e].kind = "refresh" /\ edits'[e].here
      /\ edits'[e].rows = stored /\ edits'[e].after = PendingNow(e)
  BY <1>1, RefreshedType
<1>4. Joins(e)
  BY <1>1, <1>3 DEF Joins, tab, After, Live, Pending, PendingNow
<1>5. \A i \in Ids : i \in Touches(edits'[e]) /\ Makes(edits'[e], i, At(stored', i))
  BY <1>1, <1>3 DEF Touches, Makes, Value, Deleting
<1>6. ~(edits'[e].kind \in Adding \cup {"bulk"})
  BY <1>3 DEF Adding
<1> QED BY <1>1, <1>2, <1>4, <1>5, <1>6, JoinsKeeps

\* Without its answer a deletion of several reads the elements again; the
\* effect of another is lost to the page.
LEMMA AnswerLostPage ==
  ASSUME ScheduleTypes, FormedInv, PageInv, NEW e \in Edits, AnswerLost(e)
  PROVE  PageInv'
<1>1. /\ edits[e] \in EditRecord /\ Formed(edits[e]) /\ Live(e) /\ Arrived
      /\ UNCHANGED <<tab, stored>>
  BY LostCases DEF backend
<1>2. ASSUME edits[e].kind = "deleteSelected",
             edits[e].pc = "done" \/ (edits[e].pc = "asked" /\ edits[e].left # edits[e].ids),
             To(e, [edits[e] EXCEPT !.pc = "refresh"]), UNCHANGED unseen
      PROVE  PageInv'
  <2>1. edits'[e] = [edits[e] EXCEPT !.pc = "refresh"] /\ \A f \in Edits \ {e} : edits'[f] = edits[f]
    BY <1>2 DEF To, ScheduleTypes
  <2>2. /\ edits'[e].pc = "refresh" /\ edits'[e].here /\ Formed(edits'[e])
    BY <1>1, <1>2, <2>1, ToRefreshType DEF Live
  <2>3. Live(e)'
    BY <2>2 DEF Formed, Live, Pending
  <2>4. "elements" \notin loading
    BY <1>1 DEF Arrived, Reads
  <2> QED BY <1>1, <1>2, <2>1, <2>2, <2>3, <2>4, RefreshJoins
<1>3. ASSUME unseen' = TRUE PROVE PageInv'
  BY <1>3 DEF PageInv
<1> QED BY <1>2, <1>3, LostCases

\* What the page makes of an answer that finds what it needs.
LEMMA AnswerShows ==
  ASSUME NEW edit \in EditRecord, Formed(edit), edit.pc = "done", OneEach(listed), listed \subseteq Items,
         edit.kind \in Adding \cup {"bulk"} => \A i \in Touches(edit) : Ready(edit, At(listed, i))
  PROVE  /\ OneEach(ListedAfter(edit))
         /\ \A i \in Ids : IF i \in Touches(edit)
                           THEN Shows(At(ListedAfter(edit), i), Value(edit, i))
                           ELSE At(ListedAfter(edit), i) = At(listed, i)
<1>1. OneEach(edit.rows) /\ edit.rows \subseteq Items
  BY DEF Formed, EditRecord
<1>2. CASE edit.kind = "refresh"
  <2>1. ListedAfter(edit) = edit.rows
    BY <1>2 DEF ListedAfter, Deleting
  <2>2. Touches(edit) = Ids /\ \A i : Value(edit, i) = At(edit.rows, i)
    BY <1>2 DEF Touches, Value, Deleting
  <2> QED BY <1>1, <2>1, <2>2 DEF Shows
<1>3. CASE edit.kind \in Deleting
  <2>1. ListedAfter(edit) = listed \ WithIds(listed, edit.ids)
    BY <1>3 DEF ListedAfter, Deleting
  <2>2. Touches(edit) = edit.ids /\ \A i : Value(edit, i) = {}
    BY <1>3 DEF Touches, Value, Deleting
  <2> QED BY <2>1, <2>2 DEF Shows, At, WithIds, OneEach
<1>4. CASE edit.kind = "bulk"
  <2>1. ListedAfter(edit) = (listed \ WithIds(listed, IdsOf(edit.rows))) \cup WithIds(edit.rows, IdsOf(listed))
    BY <1>4 DEF ListedAfter, Deleting
  <2>2. Touches(edit) = IdsOf(edit.rows) /\ \A i : Value(edit, i) = At(edit.rows, i)
    BY <1>4 DEF Touches, Value, Deleting
  <2>3. OneEach(ListedAfter(edit))
    BY <1>1, <2>1 DEF OneEach, WithIds, IdsOf
  <2>4. ASSUME NEW i, i \in IdsOf(listed), i \in IdsOf(edit.rows)
        PROVE  At(ListedAfter(edit), i) = At(edit.rows, i)
    BY <2>1, <2>4 DEF At, WithIds, IdsOf
  <2>5. ASSUME NEW i, i \notin IdsOf(listed), i \in IdsOf(edit.rows)
        PROVE  At(ListedAfter(edit), i) = {} /\ At(listed, i) = {}
    BY <2>1, <2>5 DEF At, WithIds, IdsOf
  <2>6. ASSUME NEW i, i \notin IdsOf(edit.rows)
        PROVE  At(ListedAfter(edit), i) = At(listed, i)
    BY <2>1, <2>6 DEF At, WithIds, IdsOf
  <2>7. \A i \in Touches(edit) : At(listed, i) # {} \/ Failed
    BY <1>4 DEF Ready
  <2> QED BY <2>2, <2>3, <2>4, <2>5, <2>6, <2>7 DEF Shows
<1>5. CASE edit.kind \in Putting
  <2>1. ListedAfter(edit) = (listed \ WithIds(listed, IdsOf(edit.rows))) \cup edit.rows
    BY <1>5 DEF ListedAfter, Deleting, Putting
  <2>2. Touches(edit) = IdsOf(edit.rows) /\ \A i : Value(edit, i) = At(edit.rows, i)
    BY <1>5 DEF Touches, Value, Deleting, Putting
  <2>3. OneEach(ListedAfter(edit))
    BY <1>1, <2>1 DEF OneEach, WithIds, IdsOf
  <2>4. ASSUME NEW i, i \in IdsOf(edit.rows)
        PROVE  At(ListedAfter(edit), i) = At(edit.rows, i)
    BY <2>1, <2>4 DEF At, WithIds, IdsOf
  <2>5. ASSUME NEW i, i \notin IdsOf(edit.rows)
        PROVE  At(ListedAfter(edit), i) = At(listed, i)
    BY <2>1, <2>5 DEF At, WithIds, IdsOf
  <2> QED BY <2>2, <2>3, <2>4, <2>5 DEF Shows
<1>6. CASE edit.kind \in Adding
  <2>1. ListedAfter(edit) = listed \cup edit.rows
    BY <1>6 DEF ListedAfter, Deleting, Adding
  <2>2. Touches(edit) = IdsOf(edit.rows) /\ \A i : Value(edit, i) = At(edit.rows, i)
    BY <1>6 DEF Touches, Value, Deleting, Adding
  <2>3. \A i \in IdsOf(edit.rows) : At(listed, i) = {}
    BY <1>6, <2>2 DEF Ready
  <2>4. OneEach(ListedAfter(edit))
    <3>1. \A x \in listed, y \in edit.rows : x.id # y.id
      BY <2>3 DEF At, WithIds, IdsOf
    <3> QED BY <1>1, <2>1, <3>1 DEF OneEach
  <2>5. ASSUME NEW i, i \in IdsOf(edit.rows)
        PROVE  At(ListedAfter(edit), i) = At(edit.rows, i)
    BY <2>1, <2>3, <2>5 DEF At, WithIds
  <2>6. ASSUME NEW i, i \notin IdsOf(edit.rows)
        PROVE  At(ListedAfter(edit), i) = At(listed, i)
    BY <2>1, <2>6 DEF At, WithIds, IdsOf
  <2> QED BY <2>2, <2>4, <2>5, <2>6 DEF Shows
<1> QED BY <1>2, <1>3, <1>4, <1>5, <1>6 DEF Formed, EditRecord, EditKinds

\* The answered edit was the first of those on their way: all others come
\* after it, and nothing else was to come before.
LEMMA AnsweredFirst ==
  ASSUME ScheduleTypes, FormedInv, PageInv, NEW e \in Edits, Answered(e), ~unseen'
  PROVE  /\ edits[e] \in EditRecord /\ Formed(edits[e]) /\ edits[e].pc = "done"
         /\ "elements" \notin loading /\ ~unseen
         /\ Live(e) /\ ~Live(e)' /\ Behind(e) = {} /\ ~Blocked(e)
         /\ \A f \in Edits \ {e} : /\ edits'[f] = edits[f] /\ (Live(f)' <=> Live(f))
                                   /\ After(f)' = After(f)
                                   /\ Live(f) => e \in After(f)
                                   /\ Behind(f)' = Behind(f) \ {e}
                                   /\ Blocked(f) => Blocked(f)'
         /\ Uncrossed' => Uncrossed
<1>1. /\ edits[e] \in EditRecord /\ Formed(edits[e]) /\ edits[e].pc = "done" /\ edits[e].here
      /\ edits'[e] = Finished(edits[e]) /\ \A f \in Edits \ {e} : edits'[f] = edits[f]
      /\ ~unseen /\ \A f \in edits[e].after : ~Pending(f)
  <2>1. edits[e] \in EditRecord /\ Formed(edits[e]) /\ edits[e].pc = "done"
    BY DEF ScheduleTypes, FormedInv, Answered
  <2>2. edits'[e] = Finished(edits[e]) /\ \A f \in Edits \ {e} : edits'[f] = edits[f]
    BY DEF ScheduleTypes, Answered, To
  <2>3. ~unseen /\ \A f \in edits[e].after : ~Pending(f)
    BY DEF Answered
  <2> QED BY <2>1, <2>2, <2>3 DEF Formed
<1>2. Arrived /\ "elements" \notin loading
  BY <1>1 DEF FormedInv, Arrived, Reads
<1>3. Live(e) /\ ~Live(e)'
  BY <1>1, FinishedType DEF Live, Pending
<1>4. Behind(e) = {}
  BY <1>1 DEF Behind, After, Live
<1>5. ~Blocked(e)
  BY <1>4 DEF Blocked, Crossed
<1>6. \A f \in Edits \ {e} : (Live(f)' <=> Live(f)) /\ After(f)' = After(f)
  BY <1>1, SameEdit
<1>7. \A f \in Edits \ {e} : Live(f) => e \in After(f)
  BY <1>1, <1>2, <1>3, <1>4 DEF PageInv, OrderInv, Behind
<1>8. \A f \in Edits \ {e} : Behind(f)' = Behind(f) \ {e}
  BY <1>3, <1>6 DEF Behind
<1>9. \A f, g \in Edits : Crossed(f, g) => f # e /\ g # e /\ Crossed(f, g)'
  BY <1>4, <1>8 DEF Crossed
<1>10. \A f \in Edits \ {e} : Blocked(f) => Blocked(f)'
  BY <1>8, <1>9 DEF Blocked
<1>11. Uncrossed' => Uncrossed
  BY <1>9 DEF Uncrossed
<1> QED BY <1>1, <1>2, <1>3, <1>4, <1>5, <1>6, <1>7, <1>8, <1>10, <1>11

\* An answer that comes in its turn shows what the table has, or what it had
\* when others of the element were still to come.
LEMMA AnsweredPage ==
  ASSUME ScheduleTypes, FormedInv, PageInv, NEW e \in Edits, Answered(e)
  PROVE  PageInv'
<1> SUFFICES ASSUME ~unseen' PROVE PageInv'
  BY DEF PageInv
<1> DEFINE edit == edits[e]
<1>1. /\ edit \in EditRecord /\ Formed(edit) /\ edit.pc = "done" /\ ~unseen
      /\ "elements" \notin loading /\ Live(e) /\ ~Live(e)' /\ Behind(e) = {} /\ ~Blocked(e)
      /\ Uncrossed' => Uncrossed
  BY AnsweredFirst
<1>2. ASSUME NEW f \in Edits \ {e}
      PROVE  /\ edits'[f] = edits[f] /\ (Live(f)' <=> Live(f)) /\ After(f)' = After(f)
             /\ Live(f) => e \in After(f)
             /\ Behind(f)' = Behind(f) \ {e} /\ (Blocked(f) => Blocked(f)')
  BY AnsweredFirst
<1>3. listed' = ListedAfter(edit) /\ UNCHANGED <<loading, stored>>
  BY DEF Answered, backend
<1>4. OneEach(listed) /\ OrderInv /\ NeedsInv /\ (Uncrossed => ListInv) /\ listed \subseteq Items
  BY <1>1 DEF PageInv, ScheduleTypes
<1>5. edit.kind \in Adding \cup {"bulk"} => \A i \in Touches(edit) : Ready(edit, At(listed, i))
  BY <1>1, <1>4 DEF NeedsInv, FindsWhatItNeeds
<1>6. /\ OneEach(listed')
      /\ \A i \in Ids : IF i \in Touches(edit) THEN Shows(At(listed', i), Value(edit, i))
                        ELSE At(listed', i) = At(listed, i)
  BY <1>1, <1>3, <1>4, <1>5, AnswerShows
<1>7. \A i : Touchers(i)' = Touchers(i) \ {e} /\ (e \in Touchers(i) <=> i \in Touches(edit))
  BY <1>1, <1>2 DEF Touchers
<1>8. \A S \in SUBSET Edits : IsLast(e, S) /\ (\A g \in S : Live(g)) => S = {e}
  BY <1>1 DEF IsLast, Behind
<1> HIDE DEF edit
<1>9. OrderInv'
  BY <1>1, <1>2, <1>4 DEF OrderInv
<1>10. NeedsInv'
  <2> SUFFICES ASSUME NEW f \in Edits, Live(f)', edits'[f].pc = "done",
                      edits'[f].kind \in Adding \cup {"bulk"}, NEW i \in Touches(edits'[f])
               PROVE  FindsWhatItNeeds(f, i)'
    BY DEF NeedsInv
  <2>1. f \in Edits \ {e} /\ edits'[f] = edits[f] /\ Live(f)
    BY <1>1, <1>2
  <2>2. FindsWhatItNeeds(f, i) /\ i \in Touches(edits[f]) /\ edits[f] \in EditRecord
    BY <1>4, <2>1 DEF NeedsInv, ScheduleTypes
  <2>3. i \in Ids
    BY <2>1, <2>2 DEF Touches, EditRecord, IdsOf, Items
  <2> DEFINE before == Behind(f) \cap Touchers(i)
  <2>4. before' = before \ {e} /\ before \in SUBSET Edits /\ \A g \in before : Live(g)
    BY <1>2, <1>7, <2>1 DEF Behind
  <2>5. e \in Behind(f)
    BY <1>1, <1>2, <2>1 DEF Behind
  <2>6. CASE Blocked(f)
    BY <1>2, <2>1, <2>6 DEF FindsWhatItNeeds
  <2>7. CASE before = {} /\ Ready(edits[f], At(listed, i))
    <3>1. At(listed', i) = At(listed, i)
      BY <1>6, <1>7, <2>3, <2>5, <2>7
    <3>2. Ready(edits[f], At(listed, i))'
      BY <1>3, <2>1, <2>7, <3>1 DEF Ready, Failed
    <3> QED BY <2>4, <2>7, <3>2 DEF FindsWhatItNeeds
  <2>8. ASSUME NEW g \in before, IsLast(g, before), Needs(edits[f], Value(edits[g], i)), g # e
        PROVE  FindsWhatItNeeds(f, i)'
    <3>1. g \in Edits \ {e} /\ edits'[g] = edits[g] /\ After(g)' = After(g)
      BY <1>2, <2>4, <2>8
    <3>2. IsLast(g, before)'
      BY <2>4, <2>8, <3>1 DEF IsLast
    <3>3. Needs(edits[f], Value(edits[g], i))'
      BY <2>1, <2>8, <3>1
    <3> QED BY <2>4, <2>8, <3>2, <3>3 DEF FindsWhatItNeeds
  <2>9. ASSUME e \in before, IsLast(e, before), Needs(edits[f], Value(edit, i))
        PROVE  FindsWhatItNeeds(f, i)'
    <3>1. before' = {}
      BY <1>8, <2>4, <2>9
    <3>2. Shows(At(listed', i), Value(edit, i))
      BY <1>6, <1>7, <2>3, <2>9
    <3>3. Ready(edits[f], At(listed, i))'
      BY <1>3, <2>1, <2>9, <3>2 DEF Shows, Needs, Ready, Failed
    <3> QED BY <3>1, <3>3 DEF FindsWhatItNeeds
  <2> QED BY <2>2, <2>6, <2>7, <2>8, <2>9 DEF FindsWhatItNeeds, edit
<1>11. ASSUME Uncrossed' PROVE ListInv'
  <2>1. ListInv
    BY <1>1, <1>4, <1>11
  <2> SUFFICES ASSUME NEW i \in Ids
               PROVE  IF Touchers(i)' = {} THEN Shows(At(listed, i), At(stored, i))'
                      ELSE \E f \in Touchers(i)' : IsLast(f, Touchers(i))' /\ Makes(edits'[f], i, At(stored', i))
    BY DEF ListInv
  <2>2. CASE Touchers(i) = {}
    <3>1. Shows(At(listed, i), At(stored, i)) /\ At(listed', i) = At(listed, i)
      BY <1>6, <1>7, <2>1, <2>2 DEF ListInv
    <3> QED BY <1>3, <1>7, <2>2, <3>1 DEF Shows, Failed
  <2>3. ASSUME NEW f \in Touchers(i), IsLast(f, Touchers(i)), Makes(edits[f], i, At(stored, i)), f # e
        PROVE  f \in Touchers(i)' /\ IsLast(f, Touchers(i))' /\ Makes(edits'[f], i, At(stored', i))
    <3>1. f \in Edits \ {e} /\ edits'[f] = edits[f] /\ After(f)' = After(f)
      BY <1>2, <2>3 DEF Touchers
    <3> QED BY <1>3, <1>7, <2>3, <3>1 DEF IsLast
  <2>4. ASSUME e \in Touchers(i), IsLast(e, Touchers(i)), Makes(edit, i, At(stored, i))
        PROVE  Touchers(i)' = {} /\ Shows(At(listed, i), At(stored, i))'
    <3>1. Touchers(i) = {e}
      BY <1>8, <2>4 DEF Touchers
    <3>2. Shows(At(listed', i), Value(edit, i))
      BY <1>6, <1>7, <2>4
    <3>3. Value(edit, i) = At(stored, i)
      BY <1>1, <2>4 DEF Makes
    <3> QED BY <1>3, <1>7, <3>1, <3>2, <3>3 DEF Shows, Failed
  <2> QED BY <2>1, <2>2, <2>3, <2>4 DEF ListInv, edit
<1> QED BY <1>6, <1>9, <1>10, <1>11 DEF PageInv

\* The load and its ends: nothing is on its way, and what was read is the
\* table as it is.
LEMMA LoadPage ==
  ASSUME ScheduleTypes, FormedInv, PageInv, ReadElements \/ ReadState \/ LoadFails
  PROVE  PageInv'
<1>1. ~Arrived /\ UNCHANGED <<stored, edits, unseen>>
  BY DEF ReadElements, ReadState, LoadFails, Arrived, Reads, backend
<1>2. \A e \in Edits : ~Live(e)
  BY <1>1, NoneBeforeArrival
<1>3. \A e \in Edits : ~Live(e)'
  BY <1>1, <1>2, SameEdit
<1>4. ASSUME ReadElements \/ LoadFails
      PROVE  OneEach(listed') /\ \A i \in Ids : Shows(At(listed, i), At(stored, i))'
  <2>1. CASE ReadElements
    BY <2>1 DEF ReadElements, ScheduleTypes, Shows, backend
  <2>2. CASE LoadFails
    BY <2>2 DEF LoadFails, OneEach, Shows, Failed, At, WithIds
  <2> QED BY <1>4, <2>1, <2>2
<1>5. CASE ReadElements \/ LoadFails
  BY <1>3, <1>4, <1>5 DEF PageInv, OrderInv, NeedsInv, ListInv, Touchers
<1>6. CASE ReadState
  <2>1. UNCHANGED listed /\ ("elements" \in loading' <=> "elements" \in loading)
        /\ (Failed' <=> Failed)
    <3>1. "failed" \notin loading /\ "state" \in loading /\ loading' = loading \ {"state"}
      BY <1>6 DEF ReadState, ScheduleTypes, Reads
    <3> QED BY <1>6, <3>1 DEF ReadState, Failed
  <2>2. ASSUME ~unseen, "elements" \notin loading
        PROVE  Uncrossed
    BY <1>2 DEF Uncrossed, Crossed, Behind
  <2>3. ASSUME ~unseen, "elements" \notin loading, NEW i \in Ids
        PROVE  Shows(At(listed, i), At(stored, i))
    BY <1>2, <2>2, <2>3 DEF PageInv, ListInv, Touchers
  <2>4. ASSUME ~unseen, "elements" \notin loading, NEW i \in Ids
        PROVE  Shows(At(listed, i), At(stored, i))'
    BY <1>1, <2>1, <2>3, <2>4 DEF Shows
  <2>5. CASE unseen' \/ "elements" \in loading'
    BY <1>1, <2>1, <2>5 DEF PageInv
  <2>6. CASE ~unseen' /\ "elements" \notin loading'
    <3>1. OneEach(listed')
      BY <1>1, <2>1, <2>6 DEF PageInv
    <3> QED BY <1>1, <1>3, <2>1, <2>4, <2>6, <3>1 DEF PageInv, OrderInv, NeedsInv, ListInv, Touchers
  <2> QED BY <2>5, <2>6
<1> QED BY <1>5, <1>6

\* The departures from the page: it reads all again.
LEMMA DeparturePage ==
  ASSUME FormedInv', LeaveTab \/ Relaunch
  PROVE  PageInv'
<1>1. listed' = {} /\ loading' = Reads
  BY DEF LeaveTab, Relaunch, FreshPage
<1> QED BY <1>1 DEF PageInv, OneEach, Reads

\* The publishes change nothing of the list.
LEMMA PublishPage ==
  ASSUME PageInv, UNCHANGED <<listed, loading, stored, edits>>, ~unseen' => ~unseen
  PROVE  PageInv'
<1>1. Alike
  BY SameEdit DEF Alike
<1> QED BY <1>1, AlikeKeeps

-----------------------------------------------------------------------------
(* The records and the publishes on their way *)

RecordsInv == SentInv /\ TookInv /\ ShownInv

\* The publishes that are sent are what they were, and so are the records.
LEMMA SentSame ==
  ASSUME SentInv, UNCHANGED <<state, server, astray>>, Posted' = Posted,
         \A p \in Posted : /\ publishes'[p].before = publishes[p].before
                           /\ publishes'[p].took = publishes[p].took
                           /\ publishes'[p].days = publishes[p].days
                           /\ publishes'[p].items = publishes[p].items
  PROVE  SentInv'
<1> SUFFICES ASSUME ~astray
             PROVE  /\ \A p, q \in Posted : p = q
                    /\ \A p \in Posted :
                         /\ publishes'[p].before = state
                         /\ \A d \in Days :
                              IF publishes'[p].took /\ d \in publishes'[p].days
                              THEN server[d] = publishes'[p].items[d]
                              ELSE Records(state.records[d], server[d])
                    /\ Posted = {} => \A d \in Days : Records(state.records[d], server[d])
  BY DEF SentInv, Records
<1> QED BY DEF SentInv

\* Steps that change no publish and no record.
LEMMA RecordsStay ==
  ASSUME RecordsInv, UNCHANGED <<publishState, state, server, publishes, astray>>,
         loading' \cap {"state", "failed"} = {} => loading \cap {"state", "failed"} = {},
         ~unseen' => ~unseen
  PROVE  RecordsInv'
<1>1. Posted' = Posted
  BY DEF Posted
<1>2. SentInv'
  BY <1>1, SentSame DEF RecordsInv
<1>3. TookInv'
  BY <1>1 DEF RecordsInv, TookInv
<1>4. ShownInv'
  BY DEF RecordsInv, ShownInv
<1> QED BY <1>2, <1>3, <1>4 DEF RecordsInv

\* The load: the state is shown as it was read.
LEMMA LoadRecords ==
  ASSUME ScheduleTypes, RecordsInv, ReadElements \/ ReadState \/ LoadFails
  PROVE  RecordsInv'
<1>1. CASE ReadElements
  BY <1>1, RecordsStay DEF ReadElements, backend
<1>2. UNCHANGED <<state, server, publishes, astray>> /\ Posted' = Posted
  BY DEF ReadElements, ReadState, LoadFails, backend, Posted
<1>3. SentInv' /\ TookInv'
  BY <1>2, SentSame DEF RecordsInv, TookInv
<1>4. CASE ReadState
  BY <1>2, <1>3, <1>4 DEF RecordsInv, ShownInv, ReadState
<1>5. CASE LoadFails
  BY <1>3, <1>5 DEF RecordsInv, ShownInv, LoadFails
<1> QED BY <1>1, <1>4, <1>5

\* The departures: what was sent goes on without the page, or ends with the
\* application and may have been taken without its record.
LEMMA DepartureRecords ==
  ASSUME ScheduleTypes, RecordsInv, LeaveTab \/ Relaunch
  PROVE  RecordsInv'
<1>1. ShownInv'
  BY DEF LeaveTab, Relaunch, FreshPage, Reads, ShownInv
<1>2. CASE LeaveTab
  <2>1. \A p \in Publishes : publishes'[p] = Left(publishes[p])
    BY <1>2 DEF LeaveTab
  <2>2. ASSUME NEW p \in Publishes
        PROVE  /\ publishes'[p].pc = "posted" <=> publishes[p].pc = "posted"
               /\ publishes[p].pc = "posted" =>
                    /\ publishes'[p].before = publishes[p].before
                    /\ publishes'[p].took = publishes[p].took
                    /\ publishes'[p].days = publishes[p].days
                    /\ publishes'[p].items = publishes[p].items
               /\ publishes'[p].took => publishes[p].took
    <3>1. publishes[p] \in PublishRecord
      BY DEF ScheduleTypes
    <3>2. CASE publishes[p].pc = "posted"
      <4>1. publishes'[p] = [publishes[p] EXCEPT !.here = FALSE]
        BY <2>1, <3>2 DEF Left
      <4> QED BY <3>1, <3>2, <4>1 DEF PublishRecord
    <3>3. CASE publishes[p].pc = "answered"
      <4>1. publishes'[p] = OverPublish
        BY <2>1, <3>3 DEF Left
      <4> QED BY <3>3, <4>1, BlankTypes
    <3>4. CASE publishes[p].pc \notin {"posted", "answered"}
      <4>1. publishes'[p] = publishes[p]
        BY <2>1, <3>4 DEF Left
      <4> QED BY <3>4, <4>1
    <3> QED BY <3>2, <3>3, <3>4
  <2>3. Posted' = Posted
    BY <2>2 DEF Posted
  <2>4. SentInv'
    BY <1>2, <2>2, <2>3, SentSame DEF LeaveTab, RecordsInv, Posted
  <2>5. TookInv'
    BY <2>2, <2>3 DEF RecordsInv, TookInv
  <2> QED BY <1>1, <2>4, <2>5 DEF RecordsInv
<1>3. CASE Relaunch
  <2>1. /\ \A p \in Publishes : publishes'[p] = IF Publishing(p) THEN OverPublish ELSE publishes[p]
        /\ astray' = (astray \/ \E p \in Publishes : publishes[p].took)
        /\ UNCHANGED <<state, server>>
    BY <1>3 DEF Relaunch
  <2>2. Posted' = {}
    BY <2>1, BlankTypes DEF Posted, Publishing
  <2>3. TookInv'
    BY <2>1, BlankTypes DEF RecordsInv, TookInv, Posted, Publishing
  <2>4. ASSUME ~astray', NEW d \in Days
        PROVE  Records(state.records[d], server[d])
    <3>1. ~astray /\ \A p \in Publishes : ~publishes[p].took
      BY <2>1, <2>4
    <3> QED BY <3>1 DEF RecordsInv, SentInv, Posted
  <2>5. SentInv'
    <3>1. ~astray' => \A d \in Days : Records(state.records[d], server[d])'
      BY <2>1, <2>4 DEF Records
    <3> QED BY <2>2, <3>1 DEF SentInv
  <2> QED BY <1>1, <2>3, <2>5 DEF RecordsInv
<1> QED BY <1>2, <1>3

\* A publish that is sent while no other is on its way takes the state as it
\* is.
LEMMA AskedRecords ==
  ASSUME ScheduleTypes, RecordsInv, NEW p \in Publishes, NEW days \in SUBSET Days, PublishAsked(p, days)
  PROVE  RecordsInv'
<1>1. /\ publishes'[p] = Asked(p, days) /\ \A q \in Publishes \ {p} : publishes'[q] = publishes[q]
      /\ publishes[p].pc = "idle"
      /\ astray' = (astray \/ \E q \in Publishes : publishes[q].pc = "posted")
      /\ UNCHANGED <<tab, backend, unseen>>
  BY DEF PublishAsked, Asked, ScheduleTypes
<1>2. publishes'[p].pc = "posted" /\ ~publishes'[p].took /\ publishes'[p].before = state
  BY <1>1, AskedType
<1>3. ShownInv'
  <2>1. (\E q \in Publishes : publishes[q].pc = "answered") => \E q \in Publishes : publishes'[q].pc = "answered"
    BY <1>1
  <2> QED BY <1>1, <2>1 DEF RecordsInv, ShownInv, tab, backend
<1>4. TookInv'
  BY <1>1, <1>2 DEF RecordsInv, TookInv, Posted
<1>5. SentInv'
  <2> SUFFICES ASSUME ~astray' PROVE SentInv'
    BY DEF SentInv
  <2>1. ~astray /\ Posted = {} /\ Posted' = {p}
    BY <1>1, <1>2 DEF Posted
  <2>2. \A d \in Days : Records(state.records[d], server[d])
    BY <2>1 DEF RecordsInv, SentInv
  <2> QED BY <1>1, <1>2, <2>1, <2>2 DEF SentInv, backend, Records
<1> QED BY <1>3, <1>4, <1>5 DEF RecordsInv

\* The server takes the days of a publish.
LEMMA TakesRecords ==
  ASSUME ScheduleTypes, RecordsInv, NEW p \in Publishes, ServerTakes(p)
  PROVE  RecordsInv'
<1>1. /\ publishes' = [publishes EXCEPT ![p].took = TRUE] /\ publishes[p].pc = "posted" /\ ~publishes[p].took
      /\ server' = [d \in Days |-> IF d \in publishes[p].days THEN publishes[p].items[d] ELSE server[d]]
      /\ UNCHANGED <<tab, state, unseen, astray>>
  BY DEF ServerTakes, Untaken, Takes, Request
<1>2. /\ publishes[p] \in PublishRecord
      /\ publishes'[p] = [publishes[p] EXCEPT !.took = TRUE]
      /\ \A q \in Publishes \ {p} : publishes'[q] = publishes[q]
  BY <1>1 DEF ScheduleTypes
<1>3. /\ publishes'[p].pc = "posted" /\ publishes'[p].took /\ publishes'[p].before = publishes[p].before
      /\ publishes'[p].days = publishes[p].days /\ publishes'[p].items = publishes[p].items
  BY <1>1, <1>2 DEF PublishRecord
<1>4. Posted' = Posted /\ p \in Posted
  BY <1>1, <1>2, <1>3 DEF Posted
<1>5. ShownInv'
  <2>1. (\E q \in Publishes : publishes[q].pc = "answered") => \E q \in Publishes : publishes'[q].pc = "answered"
    BY <1>1, <1>2
  <2> QED BY <1>1, <2>1 DEF RecordsInv, ShownInv, tab
<1>6. TookInv'
  BY <1>2, <1>4 DEF RecordsInv, TookInv
<1>7. SentInv'
  <2> SUFFICES ASSUME ~astray PROVE SentInv'
    BY <1>1 DEF SentInv
  <2>1. Posted = {p} /\ publishes[p].before = state
        /\ \A d \in Days : Records(state.records[d], server[d])
    BY <1>1, <1>4 DEF RecordsInv, SentInv
  <2>2. ASSUME NEW d \in Days
        PROVE  IF d \in publishes'[p].days THEN server'[d] = publishes'[p].items[d]
               ELSE Records(state'.records[d], server'[d])
    BY <1>1, <1>3, <2>1
  <2> QED BY <1>1, <1>3, <1>4, <2>1, <2>2 DEF SentInv
<1> QED BY <1>5, <1>6, <1>7 DEF RecordsInv

\* A request that is taken late goes astray, unless no publish is on its way
\* and no record speaks of what the server had of its days.
LEMMA LateRecords ==
  ASSUME ScheduleTypes, RecordsInv, NEW request \in cut, TakenLate(request)
  PROVE  RecordsInv'
<1>1. /\ server' = [d \in Days |-> IF d \in request.days THEN request.items[d] ELSE server[d]]
      /\ UNCHANGED <<tab, state, publishes, unseen>>
  BY DEF TakenLate, Takes
<1>2. ShownInv'
  BY <1>1 DEF RecordsInv, ShownInv, tab
<1>3. Posted' = Posted /\ TookInv'
  BY <1>1 DEF RecordsInv, TookInv, Posted
<1>4. SentInv'
  <2> SUFFICES ASSUME ~astray' PROVE SentInv'
    BY DEF SentInv
  <2>1. /\ ~astray /\ Posted = {}
        /\ \A d \in request.days : ~(state.records[d].published /\ ~state.records[d].failed)
    BY DEF TakenLate, Posted
  <2>2. \A d \in Days : Records(state.records[d], server[d])
    BY <2>1 DEF RecordsInv, SentInv
  <2>3. ASSUME NEW d \in Days PROVE Records(state'.records[d], server'[d])
    BY <1>1, <2>1, <2>2 DEF Records
  <2> QED BY <1>3, <2>1, <2>3 DEF SentInv, Records
<1> QED BY <1>2, <1>3, <1>4 DEF RecordsInv

\* The end of a publish: what it records of its days is what it has sent,
\* and of the others what was recorded when it began, which still is so.
LEMMA EndsRecords ==
  ASSUME ScheduleTypes, RecordsInv, NEW p \in Publishes, PublishEnds(p)
  PROVE  RecordsInv'
<1> DEFINE publish == publishes[p]
<1>1. /\ publish \in PublishRecord /\ publish.pc = "posted"
      /\ publishes' = [publishes EXCEPT ![p] =
           IF publish.here THEN [NoPublish EXCEPT !.pc = "answered"] ELSE OverPublish]
      /\ unseen' = (unseen \/ (~publish.here /\ "state" \notin loading))
      /\ UNCHANGED <<tab, server>>
  BY PublishEndsCases
<1>2. /\ publishes'[p] = IF publish.here THEN [NoPublish EXCEPT !.pc = "answered"] ELSE OverPublish
      /\ \A q \in Publishes \ {p} : publishes'[q] = publishes[q]
  BY <1>1 DEF ScheduleTypes
<1>3. /\ publishes'[p].pc # "posted" /\ ~publishes'[p].took
      /\ publish.here => publishes'[p].pc = "answered"
  BY <1>2, BlankTypes DEF NoPublish
<1>4. p \in Posted /\ Posted' = Posted \ {p}
  BY <1>1, <1>2, <1>3 DEF Posted
<1>5. TookInv'
  BY <1>2, <1>3, <1>4 DEF RecordsInv, TookInv
<1>6. ShownInv'
  <2>1. publish.here => \E q \in Publishes : publishes'[q].pc = "answered"
    BY <1>3
  <2> QED BY <1>1, <2>1 DEF ShownInv, tab
<1>7. \/ publish.took /\ state' = WithSuccess(publish) /\ UNCHANGED astray
      \/ state' = WithFailure(publish) /\ UNCHANGED astray
      \/ astray' = (astray \/ publish.took) /\ UNCHANGED state
  BY PublishEndsCases
<1>8. ASSUME ~astray', NEW d \in Days
      PROVE  Records(state'.records[d], server[d])
  <2>1. ~astray /\ publish.before = state
        /\ IF publish.took /\ d \in publish.days THEN server[d] = publish.items[d]
           ELSE Records(state.records[d], server[d])
    <3>1. ~astray /\ SentInv
      <4>1. ~astray
        BY <1>7, <1>8
      <4> QED BY <4>1 DEF RecordsInv
    <3>2. ASSUME SentInv, ~astray, NEW q \in Posted
          PROVE  /\ publishes[q].before = state
                 /\ IF publishes[q].took /\ d \in publishes[q].days THEN server[d] = publishes[q].items[d]
                    ELSE Records(state.records[d], server[d])
      BY <3>2 DEF SentInv
    <3> QED BY <1>4, <3>1, <3>2
  <2>2. state.records[d] \in DayRecord
    BY DEF ScheduleTypes, StateRecord
  <2>3. CASE publish.took /\ state' = WithSuccess(publish)
    <3>1. state'.records[d] = IF d \in publish.days
                              THEN [published |-> TRUE, items |-> publish.items[d], failed |-> FALSE]
                              ELSE state.records[d]
      BY <2>1, <2>3 DEF WithSuccess, Recorded
    <3> QED BY <2>1, <2>3, <3>1 DEF Records
  <2>4. CASE state' = WithFailure(publish)
    <3>1. state'.records[d] = IF d \in publish.days THEN [state.records[d] EXCEPT !.failed = TRUE]
                              ELSE state.records[d]
      BY <2>1, <2>4 DEF WithFailure, Recorded
    <3> QED BY <2>1, <2>2, <3>1 DEF Records, DayRecord
  <2>5. CASE astray' = (astray \/ publish.took) /\ UNCHANGED state
    BY <1>8, <2>1, <2>5
  <2> QED BY <1>7, <2>3, <2>4, <2>5
<1>9. SentInv'
  <2> SUFFICES ASSUME ~astray' PROVE SentInv'
    BY DEF SentInv
  <2>1. ~astray
    BY <1>7
  <2>2. Posted' = {}
    BY <1>4, <2>1 DEF RecordsInv, SentInv
  <2>3. \A d \in Days : Records(state.records[d], server[d])'
    BY <1>1, <1>8 DEF Records
  <2> QED BY <2>2, <2>3 DEF SentInv
<1> QED BY <1>5, <1>6, <1>9 DEF RecordsInv

\* The page reads the state again, or misses it.
LEMMA ShownRecords ==
  ASSUME ScheduleTypes, RecordsInv, NEW p \in Publishes, PublishShown(p)
  PROVE  RecordsInv'
<1>1. /\ publishes'[p] = OverPublish /\ \A q \in Publishes \ {p} : publishes'[q] = publishes[q]
      /\ publishes[p].pc = "answered" /\ UNCHANGED <<loading, state, server, astray>>
      /\ publishState' = state.records \/ unseen'
  BY DEF PublishShown, ScheduleTypes, backend
<1>2. Posted' = Posted
  BY <1>1, BlankTypes DEF Posted
<1>3. SentInv'
  BY <1>1, <1>2, SentSame DEF RecordsInv, Posted
<1>4. TookInv'
  BY <1>1, <1>2, BlankTypes DEF RecordsInv, TookInv
<1>5. ShownInv'
  BY <1>1 DEF ShownInv
<1> QED BY <1>3, <1>4, <1>5 DEF RecordsInv

-----------------------------------------------------------------------------
(* The theorems *)

\* The inductive invariant holds in the first state.
LEMMA InitInv == GeneralInit => GeneralInv
<1> SUFFICES ASSUME GeneralInit PROVE GeneralInv
  OBVIOUS
<1>1. ScheduleTypes /\ FormedInv
  BY InitTypes
<1>2. PageInv
  BY <1>1, PageWhileLoading DEF GeneralInit, Reads
<1>3. Posted = {} /\ TookInv /\ ShownInv
  BY BlankTypes DEF GeneralInit, Posted, TookInv, ShownInv, Reads
<1>4. SentInv
  BY <1>3 DEF GeneralInit, SentInv, Records, NoState, NoRecords, NoRecord
<1> QED BY <1>1, <1>2, <1>3, <1>4 DEF GeneralInv

\* The edits change nothing of the records.
LEMMA EditsKeepRecords ==
  ASSUME RecordsInv, UNCHANGED <<publishState, loading, state, server, publishes, astray>>, ~unseen' => ~unseen
  PROVE  RecordsInv'
BY RecordsStay

\* Every step of the list and its edits keeps the invariant.
LEMMA EditKeepsInv ==
  ASSUME GeneralInv, NEW e \in Edits,
         \/ Create(e) \/ Import(e) \/ Save(e) \/ Duplicate(e) \/ Bulk(e) \/ Copy(e)
         \/ Delete(e) \/ RefreshRead(e) \/ AnswerLost(e) \/ Answered(e)
         \/ \E i \in Ids : Deleted(e, i) \/ DeleteFails(e, i)
  PROVE  GeneralInv'
<1>1. ScheduleTypes /\ FormedInv /\ PageInv /\ RecordsInv
  BY DEF GeneralInv, RecordsInv
<1>2. ASSUME ScheduleTypes', FormedInv', PageInv',
             UNCHANGED <<publishState, loading, state, server, publishes, astray>>, ~unseen' => ~unseen
      PROVE  GeneralInv'
  <2>1. RecordsInv'
    BY <1>1, <1>2, EditsKeepRecords
  <2> QED BY <1>2, <2>1 DEF GeneralInv, RecordsInv
<1>3. CASE Edited(e)
  <2>1. PICK kind \in EditKinds, rows \in SUBSET Items : Proper(kind, rows) /\ Handled(e, kind, rows)
    BY <1>1, <1>3, EditsAreProper
  <2>2. ScheduleTypes' /\ FormedInv' /\ PageInv'
    BY <1>1, <2>1, HandledTypes, HandledPage
  <2> QED BY <1>2, <2>1, <2>2 DEF Handled, tab
<1>4. CASE Delete(e)
  <2>1. ScheduleTypes' /\ FormedInv' /\ PageInv'
    BY <1>1, <1>4, DeleteTypes, DeletePage
  <2>2. UNCHANGED <<tab, backend, publishes, turns, unseen, astray>>
    BY <1>4 DEF Delete
  <2> QED BY <1>2, <2>1, <2>2 DEF tab, backend
<1>5. CASE RefreshRead(e)
  <2>1. ScheduleTypes' /\ FormedInv' /\ PageInv'
    BY <1>1, <1>5, RefreshReadTypes, RefreshReadPage
  <2> QED BY <1>2, <1>5, <2>1 DEF RefreshRead, tab, backend
<1>6. CASE AnswerLost(e)
  <2>1. ScheduleTypes' /\ FormedInv' /\ PageInv'
    BY <1>1, <1>6, AnswerLostTypes, AnswerLostPage
  <2>2. UNCHANGED <<tab, backend, publishes, astray>> /\ (~unseen' => ~unseen)
    BY <1>1, <1>6, LostCases
  <2> QED BY <1>2, <2>1, <2>2 DEF tab, backend
<1>7. CASE Answered(e)
  <2>1. ScheduleTypes' /\ FormedInv' /\ PageInv'
    BY <1>1, <1>7, AnsweredTypes, AnsweredPage
  <2> QED BY <1>2, <1>7, <2>1 DEF Answered, backend
<1>8. ASSUME NEW i \in Ids, Deleted(e, i) PROVE GeneralInv'
  <2>1. ScheduleTypes' /\ FormedInv'
    BY <1>1, <1>8, DeletedTypes
  <2>2. PageInv'
    BY <1>1, <1>8, <2>1, DeletedPage
  <2> QED BY <1>2, <1>8, <2>1, <2>2 DEF Deleted, tab
<1>9. ASSUME NEW i \in Ids, DeleteFails(e, i) PROVE GeneralInv'
  <2>1. ScheduleTypes' /\ FormedInv' /\ PageInv'
    BY <1>1, <1>9, DeleteFailsTypes, DeleteFailsPage
  <2> QED BY <1>2, <1>9, <2>1 DEF DeleteFails, tab, backend
<1> QED BY <1>3, <1>4, <1>5, <1>6, <1>7, <1>8, <1>9 DEF Edited

\* Every step of a publish keeps the invariant.
LEMMA PublishStep ==
  ASSUME GeneralInv, NEW p \in Publishes,
         (\E days \in {Days} \cup {{d} : d \in Days} : PublishAsked(p, days))
           \/ ServerTakes(p) \/ PublishEnds(p) \/ PublishShown(p)
  PROVE  GeneralInv'
<1>1. ScheduleTypes /\ FormedInv /\ PageInv /\ RecordsInv
  BY DEF GeneralInv, RecordsInv
<1>2. ScheduleTypes' /\ FormedInv'
  BY <1>1, PublishTypes
<1>3. RecordsInv'
  <2>1. ASSUME NEW days \in {Days} \cup {{d} : d \in Days}, PublishAsked(p, days)
        PROVE  RecordsInv'
    <3>1. days \in SUBSET Days
      OBVIOUS
    <3> QED BY <1>1, <2>1, <3>1, AskedRecords
  <2> QED BY <1>1, <2>1, TakesRecords, EndsRecords, ShownRecords
<1>4. UNCHANGED <<listed, loading, stored, edits>> /\ (~unseen' => ~unseen)
  <2>1. ASSUME NEW days, PublishAsked(p, days)
        PROVE  UNCHANGED <<listed, loading, stored, edits>> /\ (~unseen' => ~unseen)
    BY <2>1 DEF PublishAsked, tab, backend
  <2>2. CASE ServerTakes(p)
    BY <2>2 DEF ServerTakes, tab
  <2>3. CASE PublishEnds(p)
    BY <2>3 DEF PublishEnds, tab
  <2>4. CASE PublishShown(p)
    BY <2>4 DEF PublishShown, backend
  <2> QED BY <2>1, <2>2, <2>3, <2>4
<1>5. PageInv'
  BY <1>1, <1>4, PublishPage
<1> QED BY <1>2, <1>3, <1>5 DEF GeneralInv, RecordsInv

\* Every step keeps the inductive invariant.
LEMMA StepInv == GeneralInv /\ [GeneralNext]_genVars => GeneralInv'
<1> SUFFICES ASSUME GeneralInv, [GeneralNext]_genVars PROVE GeneralInv'
  OBVIOUS
<1>1. ScheduleTypes /\ FormedInv /\ PageInv /\ RecordsInv
  BY DEF GeneralInv, RecordsInv
<1>2. CASE ReadElements \/ ReadState \/ LoadFails
  <2>1. ScheduleTypes' /\ FormedInv' /\ PageInv' /\ RecordsInv'
    BY <1>1, <1>2, LoadTypes, LoadPage, LoadRecords
  <2> QED BY <2>1 DEF GeneralInv, RecordsInv
<1>3. CASE LeaveTab \/ Relaunch
  <2>1. ScheduleTypes' /\ FormedInv' /\ RecordsInv'
    BY <1>1, <1>3, DepartureTypes, DepartureRecords
  <2>2. PageInv'
    BY <1>3, <2>1, DeparturePage
  <2> QED BY <2>1, <2>2 DEF GeneralInv, RecordsInv
<1>4. CASE UNCHANGED genVars
  <2>1. FormedInv' /\ PageInv' /\ RecordsInv'
    BY <1>1, <1>4, FormedStays, PublishPage, RecordsStay DEF genVars, tab, backend
  <2>2. ScheduleTypes'
    BY <1>1, <1>4 DEF genVars, tab, backend, ScheduleTypes
  <2> QED BY <2>1, <2>2 DEF GeneralInv, RecordsInv
<1>5. ASSUME NEW request \in cut, TakenLate(request) PROVE GeneralInv'
  <2>1. ScheduleTypes' /\ FormedInv' /\ RecordsInv'
    BY <1>1, <1>5, LateTypes, LateRecords
  <2>2. PageInv'
    BY <1>1, <1>5, PublishPage DEF TakenLate, tab
  <2> QED BY <2>1, <2>2 DEF GeneralInv, RecordsInv
<1> QED BY <1>2, <1>3, <1>4, <1>5, EditKeepsInv, PublishStep DEF GeneralNext

\* In every state that the programme reaches, the requests have the shape of
\* their stage, what is on its way to the page follows an order, and the
\* records say what the server has.
THEOREM GeneralInvariant == GeneralSpec => []GeneralInv
BY InitInv, StepInv, PTL DEF GeneralSpec

\* All state keeps its type; an id names one element, in the table always
\* and in the list of the page as long as no effect was lost to it.
THEOREM GeneralTypeCorrect == GeneralSpec => []GeneralTypeOK
<1>1. GeneralInv => GeneralTypeOK
  <2> SUFFICES ASSUME GeneralInv PROVE GeneralTypeOK
    OBVIOUS
  <2>1. ScheduleTypes /\ (~unseen => OneEach(listed))
    BY DEF GeneralInv, PageInv
  <2>2. \A e \in Edits : edits[e].left \subseteq Ids /\ edits[e].rows \subseteq Items /\ edits[e].after \subseteq Edits
    BY <2>1 DEF ScheduleTypes, EditRecord
  <2>3. publishState \in [Days -> DayRecord] /\ state.records \in [Days -> DayRecord] /\ state.there \in BOOLEAN
    BY <2>1 DEF ScheduleTypes, StateRecord
  <2>4. \A r \in cut : r.days \subseteq Days
    BY <2>1 DEF ScheduleTypes, Requests
  <2> QED BY <2>1, <2>2, <2>3, <2>4 DEF GeneralTypeOK, ScheduleTypes, OneEach, DayRecord, PublicItems
<1> QED BY <1>1, GeneralInvariant, PTL

\* A day that the page calls up to date is at the server as it is in the
\* table, once nothing is on its way, no effect was lost to the page, and no
\* publish went without its record or beside another: however many edits,
\* deletions in part, refusals and publishes there were, in any order.
THEOREM UpToDateTrue == GeneralSpec => []UpToDateIsTrue
<1>1. GeneralInv => UpToDateIsTrue
  <2> SUFFICES ASSUME GeneralInv, \A e \in Edits : ~Waiting(e), \A p \in Publishes : ~Publishing(p),
                      ~unseen, ~astray, NEW d \in Days, UpToDate(d)
               PROVE  server[d] = Public(stored, d)
    BY DEF UpToDateIsTrue
  <2>1. loading = {} /\ publishState[d].published /\ ~publishState[d].failed /\ publishState[d].items = Public(listed, d)
    BY DEF UpToDate, Configured
  <2>2. \A e \in Edits : ~Live(e)
    BY DEF Waiting, Live, Pending
  <2>3. listed = stored
    <3>1. Uncrossed
      BY <2>2 DEF Uncrossed, Crossed, Behind
    <3>2. ListInv
      BY <2>1, <3>1 DEF GeneralInv, PageInv
    <3>3. \A i \in Ids : At(listed, i) = At(stored, i)
      BY <2>1, <2>2, <3>2 DEF ListInv, Touchers, Shows, Failed
    <3>4. listed \subseteq Items /\ stored \subseteq Items
      BY DEF GeneralInv, ScheduleTypes
    <3> QED BY <3>3, <3>4 DEF At, WithIds, Items
  <2>4. publishState = state.records
    BY <2>1 DEF GeneralInv, ShownInv, Publishing
  <2>5. Posted = {}
    BY DEF Posted, Publishing
  <2>6. Records(state.records[d], server[d])
    BY <2>5 DEF GeneralInv, SentInv
  <2> QED BY <2>1, <2>3, <2>4, <2>6 DEF Records
<1> QED BY <1>1, GeneralInvariant, PTL

-----------------------------------------------------------------------------
(***************************************************************************)
(* The flow check.                                                         *)
(***************************************************************************)
(***************************************************************************)
(* The inductive invariant.                                                *)
(***************************************************************************)

\* An edit that is not answered is one of a day, to contents it can have.
EditInv == editing # Nothing => editing.day \in Days /\ editing.tasks \in Contents

\* As long as nothing has happened that starts the timer again, a check that
\* was not overtaken is about the day on show as it is.
FreshInv ==
  ~armed => \A c \in quick : c.fresh => c.day = day /\ c.tasks = ScopeNow[day]

\* Without persons and locations no check begins; when they come the timer
\* is started.
UnloadedInv == ~loaded => quick = {}

\* What holds of the checks; inductive beside the types and EditInv.
CheckInv == FreshInv /\ UnloadedInv /\ VerdictIsCurrent

USE FlowAssumption, DaysAssumption

-----------------------------------------------------------------------------
(* The operators *)

\* What a day can hold is something a check can see.
LEMMA ContentsInScopes == Contents \subseteq Scopes /\ "none" \in Scopes /\ "ignored" \in Scopes
BY DEF Scopes

\* What a check sees of a day is one of the scopes.
LEMMA ScopeType ==
  ASSUME FlowTypeOK, NEW d \in Days, NEW ign
  PROVE  Scope(d, ign) \in Scopes
BY DEF Scope, FlowTypeOK, Scopes

\* So is what the page shows of all days.
LEMMA ScopeNowType == FlowTypeOK => ScopeNow \in [Days -> Scopes]
BY ScopeType DEF ScopeNow

\* A check gives a verdict, the failing one included.
LEMMA VerdictTypes ==
  ASSUME NEW c
  PROVE  AutoVerdicts(c) \subseteq Verdicts /\ FullVerdicts(c) \subseteq Verdicts
BY DEF AutoVerdicts, FullVerdicts, Full, Quick, Verdicts

\* To toggle a day, or none, takes and gives days only.
LEMMA ToggledType == FlowTypeOK => Toggled \subseteq Days
BY DEF Toggled, FlowTypeOK, Days

\* Overtaken checks are checks, none of them is fresh, and none appears.
LEMMA OvertakenFacts ==
  ASSUME FlowTypeOK
  PROVE  /\ Overtaken \subseteq [day : Days, tasks : Scopes, fresh : BOOLEAN]
         /\ \A c \in Overtaken : ~c.fresh
         /\ quick = {} => Overtaken = {}
<1>1. \A c \in quick : /\ [c EXCEPT !.fresh = FALSE] \in [day : Days, tasks : Scopes, fresh : BOOLEAN]
                       /\ [c EXCEPT !.fresh = FALSE].fresh = FALSE
  BY DEF FlowTypeOK
<1> QED BY <1>1 DEF Overtaken

\* The first day is a day; 0 is none, but a place for one.
LEMMA DayFacts == 1 \in Days /\ Days \subseteq 0..LastDay /\ 0 \notin Days /\ 0 \in 0..LastDay
BY DEF Days

\* What stands for nothing has the shape of an edit.
LEMMA NothingType == Nothing \in [day : 0..LastDay, tasks : Scopes]
BY ContentsInScopes DEF Nothing

\* A click begins a well-formed run.
LEMMA RunType ==
  ASSUME FlowTypeOK, NEW kind \in {"day", "all"},
         NEW pc \in {"next", "checking", "starting"}, NEW at \in Days
  PROVE  Run(kind, pc, at) \in RunRecord
BY ScopeNowType, ContentsInScopes DEF Run, RunRecord, FlowTypeOK

\* So is a run before its click, and one that is over.
LEMMA UnclickedType == Unclicked \in RunRecord /\ [Unclicked EXCEPT !.pc = "over"] \in RunRecord
BY DayFacts, ContentsInScopes DEF Unclicked, RunRecord

\* A step of one run keeps the shape of all.
LEMMA AdvanceType ==
  ASSUME FlowTypeOK, NEW r \in Runs, NEW run \in RunRecord, Advance(r, run)
  PROVE  runs' \in [Runs -> RunRecord]
BY DEF FlowTypeOK, Advance

\* So does its end.
LEMMA SettledType ==
  ASSUME FlowTypeOK, NEW r \in Runs, Settled(r)
  PROVE  runs' \in [Runs -> RunRecord] /\ running' \in BOOLEAN
<1>1. runs[r] \in RunRecord
  BY DEF FlowTypeOK
<1>2. CASE runs[r].kind = "all" /\ runs[r].day < LastDay
  <2> DEFINE run == [runs[r] EXCEPT !.pc = "next", !.day = @ + 1, !.checked = "none"]
  <2>1. runs[r].day + 1 \in Days
    BY <1>1, <1>2 DEF RunRecord, Days
  <2>2. run \in RunRecord
    BY <1>1, <2>1, ContentsInScopes DEF RunRecord
  <2>3. Advance(r, run) /\ UNCHANGED running
    BY <1>2 DEF Settled
  <2> HIDE DEF run
  <2> QED BY <2>2, <2>3, AdvanceType DEF FlowTypeOK
<1>3. CASE ~(runs[r].kind = "all" /\ runs[r].day < LastDay)
  <2>1. /\ Advance(r, [Unclicked EXCEPT !.pc = "over"])
        /\ running' = (running /\ ~(runs[r].kind = "all" /\ runs[r].here))
    BY <1>3 DEF Settled
  <2>2. running' \in BOOLEAN
    BY <2>1 DEF FlowTypeOK
  <2> QED BY <2>1, <2>2, UnclickedType, AdvanceType
<1> QED BY <1>2, <1>3

-----------------------------------------------------------------------------
(* The types *)

\* A step of the page: those that leave the runs and the job alone.
PageStep ==
  \/ \E d \in Days : ChangeDay(d)
  \/ \E d \in Days, c \in Contents : EditAsked(d, c)
  \/ ToggleAsked \/ CloseModal \/ LeavePage
  \/ TimerFires \/ \E c \in quick : QuickAnswered(c)
  \/ EditAnswered \/ ToggleAnswered \/ ReferenceLoaded

\* A step of the backend's job, or of a poll that comes late.
JobStep == JobDone \/ JobDeleted \/ LateAnswer

\* A step is one of the page, of the backend's job, or of a run.
LEMMA StepCases ==
  FlowNext => \/ PageStep \/ JobStep
              \/ \E r \in Runs : OptimiseDay(r) \/ OptimiseAllDays(r) \/ RunStep(r)
BY DEF FlowNext, Progress, PageStep, JobStep

\* Edits are asked for only of days, with contents they can have.
LEMMA EditStep ==
  ASSUME EditInv, [FlowNext]_flowVars
  PROVE  EditInv'
<1>1. editing' = editing \/ editing' = Nothing \/ \E d \in Days, c \in Contents : EditAsked(d, c)
  BY DEF FlowNext, Progress, ChangeDay, ToggleAsked, CloseModal, LeavePage, TimerFires,
         QuickAnswered, EditAnswered, ToggleAnswered, ReferenceLoaded, JobDone, RunStep, NextDay,
         CheckAnswered, StartAnswered, RunAnswered, RunNotReported, JobDeleted, LateAnswer,
         OptimiseDay, OptimiseAllDays, flowVars
<1> QED BY <1>1 DEF EditInv, EditAsked

\* The steps of the page keep the types.
LEMMA PageTypes ==
  ASSUME FlowTypeOK, EditInv, PageStep
  PROVE  FlowTypeOK'
<1> USE DEF FlowTypeOK, tracker
<1>turn. Turn => turns' \in 0..MaxTurns
  BY DEF Turn
<1>0. Days \subseteq 0..LastDay /\ 0 \in 0..LastDay
  BY DayFacts
<1>1. ASSUME NEW d \in Days, ChangeDay(d) PROVE FlowTypeOK'
  BY <1>1, <1>turn DEF ChangeDay
<1>2. ASSUME NEW d \in Days, NEW c \in Contents, EditAsked(d, c) PROVE FlowTypeOK'
  <2>1. editing' \in [day : 0..LastDay, tasks : Scopes]
    BY <1>0, <1>2, ContentsInScopes DEF EditAsked
  <2> QED BY <1>2, <2>1, <1>turn DEF EditAsked
<1>3. CASE ToggleAsked
  BY <1>3, <1>0, <1>turn DEF ToggleAsked
<1>4. CASE CloseModal
  BY <1>4 DEF CloseModal
<1>5. CASE LeavePage
  <2>1. \A r \in Runs : runs[r] \in RunRecord /\ [runs[r] EXCEPT !.here = FALSE] \in RunRecord
    <3> TAKE r \in Runs
    <3> DEFINE run == runs[r]
    <3>1. run \in RunRecord
      OBVIOUS
    <3> HIDE DEF run
    <3>2. [run EXCEPT !.here = FALSE] \in RunRecord
      BY <3>1 DEF RunRecord
    <3> QED BY <3>1, <3>2 DEF run
  <2>2. runs' \in [Runs -> RunRecord]
    BY <1>5, <2>1 DEF LeavePage
  <2>3. ignored' \subseteq Days
    BY <1>5, ToggledType DEF LeavePage
  <2>4. /\ turns' \in 0..MaxTurns /\ day' = 1 /\ toggling' = 0 /\ shown' = Nothing
        /\ loaded' = FALSE /\ armed' = TRUE /\ running' = FALSE /\ modal' = FALSE
        /\ status' = "unknown" /\ quick' = {}
        /\ heard' \subseteq Days
        /\ UNCHANGED <<tasks, editing, mode, tracked, job, late>>
    BY <1>5, <1>turn DEF LeavePage
  <2>5. loaded' \in BOOLEAN /\ armed' \in BOOLEAN /\ running' \in BOOLEAN /\ modal' \in BOOLEAN
    BY <2>4
  <2> QED BY <2>2, <2>3, <2>4, <2>5, DayFacts, NothingType
<1>6. CASE TimerFires
  <2>1. ScopeNow[day] \in Scopes /\ tasks[day] \in Scopes
    BY ScopeNowType, ContentsInScopes
  <2>2. [day |-> day, tasks |-> ScopeNow[day], fresh |-> TRUE]
          \in [day : Days, tasks : Scopes, fresh : BOOLEAN]
    BY <2>1
  <2>3. quick' \subseteq [day : Days, tasks : Scopes, fresh : BOOLEAN]
    BY <1>6, <2>2, OvertakenFacts DEF TimerFires
  <2>4. shown' \in [day : 0..LastDay, tasks : Scopes]
    BY <1>6, <1>0, ContentsInScopes DEF TimerFires
  <2>5. status' \in Verdicts \cup {"unknown", "checking"}
    BY <1>6 DEF TimerFires, Verdicts
  <2> QED BY <1>6, <2>3, <2>4, <2>5 DEF TimerFires
<1>7. ASSUME NEW c \in quick, QuickAnswered(c) PROVE FlowTypeOK'
  <2>1. c \in [day : Days, tasks : Scopes, fresh : BOOLEAN]
    OBVIOUS
  <2>2. shown' \in [day : 0..LastDay, tasks : Scopes]
    <3>1. [day |-> c.day, tasks |-> c.tasks] \in [day : 0..LastDay, tasks : Scopes]
      BY <2>1, <1>0
    <3>2. shown' = shown \/ shown' = [day |-> c.day, tasks |-> c.tasks]
      BY <1>7 DEF QuickAnswered
    <3> QED BY <3>1, <3>2
  <2>3. status' \in Verdicts \cup {"unknown", "checking"}
    BY <1>7, VerdictTypes DEF QuickAnswered
  <2> QED BY <1>7, <2>2, <2>3 DEF QuickAnswered
<1>8. CASE EditAnswered
  <2>1. tasks' \in [Days -> Contents]
    BY <1>8 DEF EditAnswered, EditInv
  <2> QED BY <1>8, <2>1, NothingType DEF EditAnswered
<1>9. CASE ToggleAnswered
  <2>1. ignored' \subseteq Days /\ quick' \subseteq [day : Days, tasks : Scopes, fresh : BOOLEAN]
    BY <1>9, ToggledType, OvertakenFacts DEF ToggleAnswered
  <2> QED BY <1>9, <1>0, <2>1 DEF ToggleAnswered
<1>10. CASE ReferenceLoaded
  BY <1>10 DEF ReferenceLoaded
<1> QED BY <1>1, <1>2, <1>3, <1>4, <1>5, <1>6, <1>7, <1>8, <1>9, <1>10 DEF PageStep

\* So do the steps of the runs and of the backend's job.
LEMMA RunTypes ==
  ASSUME FlowTypeOK,
         JobStep \/ \E r \in Runs : OptimiseDay(r) \/ OptimiseAllDays(r) \/ RunStep(r)
  PROVE  FlowTypeOK'
<1>0. Solving \in [end : Endings, again : BOOLEAN] /\ Over \in [end : Endings, again : BOOLEAN]
      /\ [Solving EXCEPT !.again = TRUE] \in [end : Endings, again : BOOLEAN]
  BY DEF Solving, Over, Endings
<1>1. CASE JobDone
  <2>1. job' \in [end : Endings, again : BOOLEAN]
    <3>1. job' = Over \/ \E end \in Endings : job' = [job EXCEPT !.end = end]
      BY <1>1 DEF JobDone, Endings
    <3> QED BY <1>0, <3>1 DEF FlowTypeOK
  <2> QED BY <1>1, <2>1 DEF FlowTypeOK, JobDone, page
<1>8. CASE JobDeleted
  <2>1. job' \in [end : Endings, again : BOOLEAN] /\ heard' \subseteq Days /\ turns' \in 0..MaxTurns
    BY <1>8 DEF FlowTypeOK, JobDeleted, Endings, Turn
  <2> QED BY <1>8, <2>1 DEF FlowTypeOK, JobDeleted, page
<1>9. CASE LateAnswer
  <2>1. runs' \in [Runs -> RunRecord] /\ running' \in BOOLEAN
    <3>1. CASE UNCHANGED <<runs, running>>
      BY <3>1 DEF FlowTypeOK
    <3>2. CASE Settled(tracked)
      <4>1. tracked \in Runs
        BY <1>9 DEF LateAnswer, FlowTypeOK
      <4> QED BY <3>2, <4>1, SettledType
    <3> QED BY <1>9, <3>1, <3>2 DEF LateAnswer
  <2>2. job' \in [end : Endings, again : BOOLEAN] /\ UNCHANGED heard
    <3>1. job' = Over \/ job' = Solving
      BY <1>9 DEF LateAnswer, Untracked
    <3> QED BY <1>0, <1>9, <3>1 DEF LateAnswer
  <2>3. armed' \in BOOLEAN
    BY <1>9 DEF LateAnswer, FlowTypeOK
  <2>4. turns' \in 0..MaxTurns
    BY <1>9 DEF LateAnswer, Turn, FlowTypeOK
  <2> QED BY <1>9, <2>1, <2>2, <2>3, <2>4 DEF LateAnswer, FlowTypeOK
<1>2. ASSUME NEW r \in Runs, OptimiseDay(r) PROVE FlowTypeOK'
  <2> DEFINE checking == Run("day", "checking", day)
  <2>0. day \in Days /\ ScopeNow[day] \in Scopes
    BY ScopeNowType DEF FlowTypeOK
  <2>1. checking \in RunRecord /\ Run("day", "starting", day) \in RunRecord
    BY <2>0, RunType
  <2> HIDE DEF checking
  <2>2. [checking EXCEPT !.checked = ScopeNow[day]] \in RunRecord
    BY <2>0, <2>1 DEF RunRecord
  <2>3. runs' \in [Runs -> RunRecord]
    BY <1>2, <2>1, <2>2, AdvanceType DEF OptimiseDay, checking
  <2>4. status' \in Verdicts \cup {"unknown", "checking"}
    BY <1>2 DEF OptimiseDay, FlowTypeOK
  <2> QED BY <1>2, <2>3, <2>4 DEF OptimiseDay, FlowTypeOK, tracker
<1>3. ASSUME NEW r \in Runs, OptimiseAllDays(r) PROVE FlowTypeOK'
  <2>1. runs' \in [Runs -> RunRecord]
    BY <1>3, RunType, DayFacts, AdvanceType DEF OptimiseAllDays
  <2> QED BY <1>3, <2>1 DEF OptimiseAllDays, FlowTypeOK, tracker
<1>4. ASSUME NEW r \in Runs, NextDay(r) PROVE FlowTypeOK'
  <2>0. runs[r] \in RunRecord
    BY DEF FlowTypeOK
  <2> DEFINE c == Scope(runs[r].day, runs[r].ignored)
  <2>1. c \in Scopes
    BY <2>0, ScopeType DEF RunRecord
  <2> HIDE DEF c
  <2>2. [runs[r] EXCEPT !.pc = "checking", !.checked = c] \in RunRecord
    BY <2>0, <2>1 DEF RunRecord
  <2>3. runs' \in [Runs -> RunRecord] /\ running' \in BOOLEAN
    <3>1. CASE Settled(r)
      BY <3>1, SettledType
    <3>2. CASE Advance(r, [runs[r] EXCEPT !.pc = "checking", !.checked = c]) /\ UNCHANGED running
      BY <2>2, <3>2, AdvanceType DEF FlowTypeOK
    <3> QED BY <1>4, <3>1, <3>2 DEF NextDay, c
  <2> QED BY <1>4, <2>3 DEF NextDay, FlowTypeOK, tracker
<1>5. ASSUME NEW r \in Runs, CheckAnswered(r) PROVE FlowTypeOK'
  <2>0. runs[r] \in RunRecord
    BY DEF FlowTypeOK
  <2>1. PICK v \in FullVerdicts(runs[r].checked) :
          /\ Shown(runs[r], v)
          /\ IF v = "valid" THEN Advance(r, [runs[r] EXCEPT !.pc = "starting"]) /\ UNCHANGED running
                            ELSE Settled(r)
    BY <1>5 DEF CheckAnswered
  <2>2. [runs[r] EXCEPT !.pc = "starting"] \in RunRecord
    BY <2>0 DEF RunRecord
  <2>3. runs' \in [Runs -> RunRecord] /\ running' \in BOOLEAN
    BY <2>1, <2>2, AdvanceType, SettledType DEF FlowTypeOK
  <2>4. v \in Verdicts
    BY <2>1, VerdictTypes
  <2>5. status' \in Verdicts \cup {"unknown", "checking"} /\ late' \in BOOLEAN
    BY <2>1, <2>4 DEF Shown, FlowTypeOK
  <2>6. shown' \in [day : 0..LastDay, tasks : Scopes]
    BY <2>0, <2>1, DayFacts DEF Shown, FlowTypeOK, RunRecord
  <2> QED BY <1>5, <2>3, <2>5, <2>6 DEF CheckAnswered, FlowTypeOK, tracker
<1>6. ASSUME NEW r \in Runs, StartAnswered(r) PROVE FlowTypeOK'
  <2>0. runs[r] \in RunRecord
    BY DEF FlowTypeOK
  <2>1. [runs[r] EXCEPT !.pc = "solving"] \in RunRecord
    BY <2>0 DEF RunRecord
  <2>2. runs' \in [Runs -> RunRecord] /\ running' \in BOOLEAN
    BY <1>6, <2>1, AdvanceType, SettledType DEF StartAnswered, FlowTypeOK
  <2>3. tracked' \in Runs \cup {NoRun} /\ job' \in [end : Endings, again : BOOLEAN]
    BY <1>0, <1>6 DEF StartAnswered, FlowTypeOK
  <2>4. heard' \subseteq Days
    BY <1>6 DEF StartAnswered, Freed, FlowTypeOK
  <2> QED BY <1>6, <2>2, <2>3, <2>4 DEF StartAnswered, FlowTypeOK
<1>7. ASSUME NEW r \in Runs, RunAnswered(r) PROVE FlowTypeOK'
  <2>1. runs' \in [Runs -> RunRecord] /\ running' \in BOOLEAN
    BY <1>7, SettledType DEF RunAnswered
  <2>2. armed' \in BOOLEAN
    BY <1>7 DEF RunAnswered, FlowTypeOK
  <2>0. runs[r].day \in Days
    BY DEF FlowTypeOK, RunRecord
  <2>3. heard' \subseteq Days
    <3>1. heard' = heard \/ heard' = {runs[r].day}
      BY <1>7 DEF RunAnswered
    <3> QED BY <2>0, <3>1 DEF FlowTypeOK
  <2> QED BY <1>0, <1>7, <2>1, <2>2, <2>3 DEF RunAnswered, FlowTypeOK
<1>10. ASSUME NEW r \in Runs, RunNotReported(r) PROVE FlowTypeOK'
  BY <1>0, <1>10 DEF RunNotReported, FlowTypeOK, page
<1> QED BY <1>1, <1>2, <1>3, <1>4, <1>5, <1>6, <1>7, <1>8, <1>9, <1>10 DEF RunStep, JobStep

\* Hence every step does.
LEMMA TypeStep ==
  ASSUME FlowTypeOK, EditInv, [FlowNext]_flowVars
  PROVE  FlowTypeOK'
<1>1. CASE FlowNext
  BY <1>1, StepCases, PageTypes, RunTypes
<1>2. CASE UNCHANGED flowVars
  BY <1>2 DEF FlowTypeOK, flowVars, page, tracker
<1> QED BY <1>1, <1>2

\* The page begins well typed, without an edit under way.
LEMMA TypeInit == FlowInit => FlowTypeOK /\ EditInv
<1> SUFFICES ASSUME FlowInit PROVE FlowTypeOK /\ EditInv
  OBVIOUS
<1>1. tasks \in [Days -> Contents] /\ mode \in {"skip-floating", "always-full"}
  BY DEF FlowInit, Days
<1>2. editing = Nothing /\ shown = Nothing /\ EditInv
  BY DEF FlowInit, EditInv
<1>3. runs \in [Runs -> RunRecord]
  BY UnclickedType DEF FlowInit
<1>4. job \in [end : Endings, again : BOOLEAN] /\ turns \in 0..MaxTurns
      /\ tracked \in Runs \cup {NoRun} /\ toggling \in 0..LastDay /\ day \in Days
      /\ status \in Verdicts \cup {"unknown", "checking"}
      /\ ignored \subseteq Days /\ heard \subseteq Days
      /\ quick \subseteq [day : Days, tasks : Scopes, fresh : BOOLEAN]
  BY DayFacts DEF FlowInit, Over, Endings
<1>5. loaded = FALSE /\ armed = TRUE /\ running = FALSE /\ modal = FALSE /\ late = FALSE
  BY DEF FlowInit
<1>6. loaded \in BOOLEAN /\ armed \in BOOLEAN /\ running \in BOOLEAN /\ modal \in BOOLEAN
      /\ late \in BOOLEAN
  BY <1>5
<1> QED BY <1>1, <1>2, <1>3, <1>4, <1>6, NothingType DEF FlowTypeOK

\* The types of the page, its checks and its runs, for all parameters.
THEOREM FlowTypeCorrect == FlowSpec => []FlowTypeOK
<1>1. FlowTypeOK /\ EditInv /\ [FlowNext]_flowVars => (FlowTypeOK /\ EditInv)'
  BY TypeStep, EditStep
<1> QED BY <1>1, TypeInit, PTL DEF FlowSpec

-----------------------------------------------------------------------------
(* The verdict on show *)

\* What starts the timer again asks nothing of the rest, as long as no check
\* begins on a page without its persons and locations.
LEMMA Rearmed ==
  ASSUME armed', UnloadedInv'
  PROVE  CheckInv'
BY DEF CheckInv, FreshInv, VerdictIsCurrent

\* Nor does what leaves the day, its tasks and the checks as they are.
LEMMA Undisturbed ==
  ASSUME CheckInv, UNCHANGED <<tasks, ignored, day, loaded, armed, quick>>,
         \/ UNCHANGED <<status, shown, late>>
         \/ status' \notin Verdicts /\ UNCHANGED <<shown, late>>
  PROVE  CheckInv'
<1>1. ScopeNow' = ScopeNow
  BY DEF ScopeNow, Scope
<1> QED BY <1>1 DEF CheckInv, FreshInv, UnloadedInv, VerdictIsCurrent

\* The check that the timer begins is about the day on show.
LEMMA TimerCurrent ==
  ASSUME FlowTypeOK, CheckInv, TimerFires
  PROVE  CheckInv'
<1>1. UNCHANGED <<tasks, ignored, day, loaded, late>> /\ ~armed'
  BY DEF TimerFires
<1>2. ScopeNow' = ScopeNow
  BY <1>1 DEF ScopeNow, Scope
<1>3. \A c \in Overtaken : ~c.fresh
  BY OvertakenFacts
<1>4. CASE tasks[day] = "none"
  <2>1. quick' = Overtaken /\ shown' = [day |-> day, tasks |-> "none"]
    BY <1>4 DEF TimerFires
  <2>2. ScopeNow[day] = "none"
    BY <1>4 DEF ScopeNow, Scope, FlowTypeOK
  <2>3. UnloadedInv'
    BY <1>1, <2>1, OvertakenFacts DEF CheckInv, UnloadedInv
  <2> QED BY <1>1, <1>2, <1>3, <2>1, <2>2, <2>3 DEF CheckInv, FreshInv, VerdictIsCurrent
<1>5. CASE tasks[day] # "none" /\ loaded
  <2>1. /\ quick' = Overtaken \cup {[day |-> day, tasks |-> ScopeNow[day], fresh |-> TRUE]}
        /\ status' = "checking"
    BY <1>5 DEF TimerFires
  <2>2. status' \notin Verdicts
    BY <2>1 DEF Verdicts
  <2>3. \A c \in quick' : c.fresh => c.day = day /\ c.tasks = ScopeNow[day]
    BY <1>3, <2>1
  <2> QED BY <1>1, <1>2, <1>5, <2>2, <2>3 DEF CheckInv, FreshInv, UnloadedInv, VerdictIsCurrent
<1>6. CASE tasks[day] # "none" /\ ~loaded
  BY <1>1, <1>6 DEF TimerFires, CheckInv, FreshInv, UnloadedInv, VerdictIsCurrent
<1> QED BY <1>4, <1>5, <1>6

\* The answer of an automatic check is shown only if it was not overtaken.
LEMMA QuickCurrent ==
  ASSUME CheckInv, NEW c \in quick, QuickAnswered(c)
  PROVE  CheckInv'
<1>1. UNCHANGED <<tasks, ignored, day, loaded, armed, late>> /\ quick' = quick \ {c}
  BY DEF QuickAnswered
<1>2. ScopeNow' = ScopeNow
  BY <1>1 DEF ScopeNow, Scope
<1>3. FreshInv' /\ UnloadedInv'
  BY <1>1, <1>2 DEF CheckInv, FreshInv, UnloadedInv
<1>4. VerdictIsCurrent'
  <2>1. CASE c.fresh
    BY <1>1, <1>2, <2>1 DEF QuickAnswered, CheckInv, FreshInv, VerdictIsCurrent
  <2>2. CASE ~c.fresh
    BY <1>1, <1>2, <2>2 DEF QuickAnswered, CheckInv, VerdictIsCurrent
  <2> QED BY <2>1, <2>2
<1> QED BY <1>3, <1>4 DEF CheckInv

\* The answer of a full check is about the day on show, or noted as late.
LEMMA AnswerCurrent ==
  ASSUME CheckInv, NEW r \in Runs, CheckAnswered(r)
  PROVE  CheckInv'
<1>1. UNCHANGED <<tasks, ignored, day, loaded, armed, quick>>
  BY DEF CheckAnswered
<1>2. PICK v : Shown(runs[r], v)
  BY DEF CheckAnswered
<1>3. CASE runs[r].here /\ runs[r].day = runs[r].from
  <2>1. /\ shown' = [day |-> runs[r].day, tasks |-> runs[r].checked]
        /\ ~late' => ~late /\ runs[r].day = day /\ runs[r].checked = ScopeNow[day]
    <3>1. shown' = [day |-> runs[r].day, tasks |-> runs[r].checked]
      BY <1>2, <1>3, Zenon DEF Shown
    <3>2. late' = (late \/ runs[r].day # day \/ runs[r].checked # ScopeNow[runs[r].day])
      BY <1>2, <1>3, Zenon DEF Shown
    <3>3. ~late' => ~late /\ runs[r].day = day /\ runs[r].checked = ScopeNow[runs[r].day]
      BY <3>2, Zenon
    <3> QED BY <3>1, <3>3, Zenon
  <2>2. ScopeNow' = ScopeNow
    BY <1>1 DEF ScopeNow, Scope
  <2> QED BY <1>1, <2>1, <2>2 DEF CheckInv, FreshInv, UnloadedInv, VerdictIsCurrent
<1>4. CASE ~(runs[r].here /\ runs[r].day = runs[r].from)
  <2>1. UNCHANGED <<status, shown, late>>
    BY <1>2, <1>4 DEF Shown
  <2> QED BY <1>1, <2>1, Undisturbed
<1> QED BY <1>3, <1>4

\* The steps of the page keep the checks true.
LEMMA PageCurrent ==
  ASSUME FlowTypeOK, CheckInv, PageStep
  PROVE  CheckInv'
<1>1. CASE \E d \in Days : ChangeDay(d)
  <2>1. armed' /\ UNCHANGED <<loaded, quick>>
    BY <1>1 DEF ChangeDay
  <2> QED BY <2>1, Rearmed DEF CheckInv, UnloadedInv
<1>2. CASE (\E d \in Days, c \in Contents : EditAsked(d, c)) \/ ToggleAsked \/ CloseModal
  <2>1. UNCHANGED <<tasks, ignored, day, loaded, armed, quick, status, shown, late>>
    BY <1>2 DEF EditAsked, ToggleAsked, CloseModal
  <2> QED BY <2>1, Undisturbed
<1>3. CASE LeavePage
  <2>1. armed' /\ quick' = {}
    BY <1>3 DEF LeavePage
  <2> QED BY <2>1, Rearmed DEF UnloadedInv
<1>4. CASE EditAnswered
  <2>1. UNCHANGED <<ignored, day, loaded, quick, status, shown, late>>
        /\ (armed' \/ UNCHANGED <<tasks, armed>>)
    BY <1>4 DEF EditAnswered
  <2>2. CASE armed'
    BY <2>1, <2>2, Rearmed DEF CheckInv, UnloadedInv
  <2> QED BY <2>1, <2>2, Undisturbed
<1>5. CASE ToggleAnswered
  <2>1. UNCHANGED <<tasks, day, loaded, shown, late>>
        /\ ((armed' /\ quick' = Overtaken) \/ UNCHANGED <<ignored, armed, quick, status>>)
    BY <1>5 DEF ToggleAnswered
  <2>2. CASE armed' /\ quick' = Overtaken
    BY <2>1, <2>2, OvertakenFacts, Rearmed DEF CheckInv, UnloadedInv
  <2> QED BY <2>1, <2>2, Undisturbed
<1>6. CASE ReferenceLoaded
  <2>1. armed' /\ loaded'
    BY <1>6 DEF ReferenceLoaded
  <2> QED BY <2>1, Rearmed DEF UnloadedInv
<1> QED BY <1>1, <1>2, <1>3, <1>4, <1>5, <1>6, TimerCurrent, QuickCurrent DEF PageStep

\* So do the steps of the runs and of the backend's job.
LEMMA RunCurrent ==
  ASSUME CheckInv,
         JobStep \/ \E r \in Runs : OptimiseDay(r) \/ OptimiseAllDays(r) \/ RunStep(r)
  PROVE  CheckInv'
<1>1. CASE JobDone \/ JobDeleted \/ \E r \in Runs : RunNotReported(r)
  <2>1. UNCHANGED <<tasks, ignored, day, loaded, armed, quick, status, shown, late>>
    BY <1>1 DEF JobDone, JobDeleted, RunNotReported, page
  <2> QED BY <2>1, Undisturbed
<1>2. ASSUME NEW r \in Runs, OptimiseDay(r) PROVE CheckInv'
  <2>1. UNCHANGED <<tasks, ignored, day, loaded, armed, quick, shown, late>>
        /\ (status' = "checking" \/ UNCHANGED status)
    BY <1>2 DEF OptimiseDay
  <2>2. "checking" \notin Verdicts
    BY DEF Verdicts
  <2> QED BY <2>1, <2>2, Undisturbed
<1>3. ASSUME NEW r \in Runs, OptimiseAllDays(r) \/ NextDay(r) \/ StartAnswered(r) PROVE CheckInv'
  <2>1. UNCHANGED <<tasks, ignored, day, loaded, armed, quick, status, shown, late>>
    BY <1>3 DEF OptimiseAllDays, NextDay, StartAnswered
  <2> QED BY <2>1, Undisturbed
<1>4. CASE LateAnswer \/ \E r \in Runs : RunAnswered(r)
  <2>1. UNCHANGED <<tasks, ignored, day, loaded, quick, status, shown, late>>
        /\ armed' \in {armed, TRUE}
    BY <1>4 DEF RunAnswered, LateAnswer
  <2>2. CASE armed'
    BY <2>1, <2>2, Rearmed DEF CheckInv, UnloadedInv
  <2> QED BY <2>1, <2>2, Undisturbed
<1> QED BY <1>1, <1>2, <1>3, <1>4, AnswerCurrent DEF RunStep, JobStep

\* As long as nothing has started the timer again, every check that was not
\* overtaken is about the day on show as it is; none is under way without
\* the persons and locations.
THEOREM ChecksAreFresh == FlowSpec => [](FlowTypeOK /\ EditInv /\ CheckInv)
<1> DEFINE Inv == FlowTypeOK /\ EditInv /\ CheckInv
<1>1. FlowInit => Inv
  <2> SUFFICES ASSUME FlowInit PROVE CheckInv
    BY TypeInit
  <2>1. armed /\ quick = {}
    BY DEF FlowInit
  <2> QED BY <2>1 DEF CheckInv, FreshInv, UnloadedInv, VerdictIsCurrent
<1>2. Inv /\ [FlowNext]_flowVars => Inv'
  <2> SUFFICES ASSUME Inv, [FlowNext]_flowVars PROVE CheckInv'
    BY TypeStep, EditStep
  <2>1. CASE FlowNext
    BY <2>1, StepCases, PageCurrent, RunCurrent
  <2>2. CASE UNCHANGED flowVars
    <3>1. UNCHANGED <<tasks, ignored, day, loaded, armed, quick, status, shown, late>>
      BY <2>2 DEF flowVars, page
    <3> QED BY <3>1, Undisturbed
  <2> QED BY <2>1, <2>2
<1> QED BY <1>1, <1>2, PTL DEF FlowSpec

\* Once the automatic check has come to rest, the verdict on show is one
\* about the day on show with its tasks as they are, however many checks
\* were overtaken and whatever was optimised meanwhile.
THEOREM VerdictsAreCurrent == FlowSpec => []VerdictIsCurrent
<1>1. CheckInv => VerdictIsCurrent
  BY DEF CheckInv
<1> QED BY <1>1, ChecksAreFresh, PTL

=============================================================================
