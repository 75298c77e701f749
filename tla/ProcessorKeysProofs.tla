------------------------- MODULE ProcessorKeysProofs -------------------------
(* Theorems about ProcessorKeys, for all sets of keys, events and requests. *)
EXTENDS ProcessorKeys, TLAPS

\* A request that ends is idle, with a well-formed record.
LEMMA IdlePc == Idle.pc = "idle"
BY DEF Idle

\* The same, of the type.
LEMMA IdleType == Idle \in Call
BY DEF Idle, Call, States

\* A request that is opened for an event has a well-formed record.
LEMMA OpenedType ==
  ASSUME KeysTypeOK, NEW e \in Events, NEW k \in Keys \cup {NoKey},
         k \in Keys => Stored(k), NEW pc \in {"start", "status"}
  PROVE  Opened(pc, e, k) \in Call
<1>1. (IF k = NoKey THEN "pending" ELSE rows[k].state) \in States
  BY KeyNullAssumption DEF KeysTypeOK, Stored, Row, States
<1>2. (IF k = NoKey THEN {} ELSE {rows[k].id}) \in SUBSET Nat
  BY KeyNullAssumption DEF KeysTypeOK, Stored, Row
<1> QED BY <1>1, <1>2, IdleType DEF Opened, Idle, Call, KeysTypeOK

\* Writing a state keeps the rows well formed.
LEMMA WrittenType ==
  ASSUME KeysTypeOK, NEW h \in Handlers, NEW s \in States
  PROVE  Written(calls[h], s) \in [Keys -> Row \cup {NoRow}]
BY DEF Written, KeysTypeOK, Stored, Row

\* So does deleting by ids.
LEMMA WithoutType ==
  ASSUME KeysTypeOK, NEW ids
  PROVE  Without(ids) \in [Keys -> Row \cup {NoRow}]
BY DEF Without, KeysTypeOK

\* Ids are natural numbers.
LEMMA NextIdsType == KeysTypeOK => NextIds \subseteq Nat
BY DEF NextIds, KeysTypeOK, Stored, Row

\* Marking the keys that a status answer lists keeps the rows well formed.
LEMMA MarkedType ==
  ASSUME KeysTypeOK, NEW h \in Handlers
  PROVE  Marked(calls[h]) \in [Keys -> Row \cup {NoRow}]
BY DEF Marked, KeysOf, Stored, KeysTypeOK, Row, States

\* A request has named the key, the event and the identity that it writes.
CallNamesKey ==
  \A h \in Handlers :
    /\ calls[h].pc \in {"storing", "refreshing", "start", "proof"} => calls[h].key \in Keys
    /\ calls[h].pc \in {"storing", "refreshing", "binding"} => calls[h].event \in Events
    /\ calls[h].pc = "storing" => calls[h].ref \in Refs
    /\ calls[h].pc = "ping" => calls[h].server \in Refs

\* The records of requests that have been opened, moved on or answered name
\* their keys as before.
LEMMA NamesStep == KeysTypeOK /\ CallNamesKey /\ [KeysNext]_keyVars => CallNamesKey'
<1> SUFFICES ASSUME KeysTypeOK, CallNamesKey, [KeysNext]_keyVars PROVE CallNamesKey'
  OBVIOUS
<1> USE DEF CallNamesKey, KeysTypeOK, Call
<1>1. ASSUME NEW h \in Handlers, NEW e \in Events, NEW k \in Keys, Store(h, e, k)
      PROVE  CallNamesKey'
  BY <1>1 DEF Store, Open, Idle
<1>2. ASSUME NEW h \in Handlers, NEW e \in Events, NEW k \in Keys, EnrolAsks(h, e, k)
      PROVE  CallNamesKey'
  BY <1>2 DEF EnrolAsks, Open, Opened, Idle
<1>0. ASSUME NEW h \in Handlers, NEW c, calls' = calls \/ calls' = [calls EXCEPT ![h] = c],
             c.pc \notin {"storing", "refreshing", "binding", "start", "proof", "ping"}
      PROVE  CallNamesKey'
  BY <1>0
<1>3. ASSUME NEW h \in Handlers, NEW e \in Events, RefreshAsks(h, e) PROVE CallNamesKey'
  <2> DEFINE d == Opened("status", e, NoKey)
  <2>1. calls' = [calls EXCEPT ![h] = d] /\ d.pc = "status"
    BY <1>3 DEF RefreshAsks, Open, Opened, Idle
  <2> HIDE DEF d
  <2> QED BY <1>0, <2>1
<1>13. ASSUME NEW h \in Handlers, NEW e \in Events, PingAsks(h, e) PROVE CallNamesKey'
  BY <1>13 DEF PingAsks, Open, Idle
<1>4. ASSUME NEW h \in Handlers, NEW e \in Events, EraseSecrets(h, e) PROVE CallNamesKey'
  <2> DEFINE c == [Idle EXCEPT !.pc = "erasing", !.ids = IdsOf(KeysOf(e))]
  <2>1. calls' = calls \/ calls' = [calls EXCEPT ![h] = c]
    BY <1>4 DEF EraseSecrets, Open
  <2>2. c.pc = "erasing"
    BY DEF Idle
  <2> QED BY <1>0, <2>1, <2>2
<1>5. ASSUME NEW h \in Handlers, StoreCommits(h) PROVE CallNamesKey'
  BY <1>5 DEF StoreCommits, Inserted, Idle
<1>14. ASSUME NEW h \in Handlers, StoreRefreshed(h) PROVE CallNamesKey'
  BY <1>14 DEF StoreRefreshed, Idle
<1>6. ASSUME NEW h \in Handlers, Done(h) PROVE CallNamesKey'
  BY <1>6 DEF Done, Idle
<1>7. ASSUME NEW h \in Handlers, EnrolStarted(h) PROVE CallNamesKey'
  BY <1>6, <1>7 DEF EnrolStarted
<1>8. ASSUME NEW h \in Handlers, ServerStarts(h) \/ ServerTakesProof(h) PROVE CallNamesKey'
  BY <1>8 DEF ServerStarts, ServerTakesProof, Answered, Answer
<1>9. ASSUME NEW h \in Handlers, ServerReports(h) PROVE CallNamesKey'
  BY <1>9 DEF ServerReports, Answered
<1>10. CASE Crash
  BY <1>10 DEF Crash, Idle
<1>11. CASE UNCHANGED calls
  BY <1>11
<1>12. ASSUME NEW h \in Handlers,
              \/ StoreFails(h) \/ StoreNotRefreshed(h) \/ StoreBinds(h)
              \/ EnrolSubmitted(h) \/ RefreshAnswered(h)
              \/ PingAnswered(h) \/ RequestFails(h) \/ EraseCommits(h)
       PROVE  CallNamesKey'
  BY <1>6, <1>12 DEF StoreFails, StoreNotRefreshed, StoreBinds, EnrolSubmitted, RefreshAnswered, PingAnswered,
                     RequestFails, EraseCommits
<1> QED
  BY <1>1, <1>2, <1>3, <1>4, <1>5, <1>7, <1>8, <1>9, <1>10, <1>11, <1>12, <1>13, <1>14
  DEF KeysNext, keyVars, RetireKey, RootDecides, Reconnect

\* The type of the requests follows from the step that changes one of them.
LEMMA CallsType ==
  ASSUME KeysTypeOK, NEW h \in Handlers, NEW c \in Call, calls' = [calls EXCEPT ![h] = c]
  PROVE  calls' \in [Handlers -> Call]
BY DEF KeysTypeOK

\* An answer that arrives leaves the requests well formed.
LEMMA AnswerType ==
  ASSUME KeysTypeOK, NEW h \in Handlers, NEW got \in {"none", "active", "challenge", "ok"},
         Answer(h, got)
  PROVE  calls' \in [Handlers -> Call]
<1>1. calls[h] \in Call /\ calls' = [calls EXCEPT ![h] = [calls[h] EXCEPT !.got = got]]
  BY DEF Answer, KeysTypeOK
<1>2. [calls[h] EXCEPT !.got = got] \in Call
  BY <1>1 DEF Call
<1> QED BY <1>1, <1>2, CallsType

\* Every step keeps the type.
LEMMA KeysTypeStep == KeysTypeOK /\ CallNamesKey /\ [KeysNext]_keyVars => KeysTypeOK'
<1> SUFFICES ASSUME KeysTypeOK, CallNamesKey, [KeysNext]_keyVars PROVE KeysTypeOK'
  OBVIOUS
<1>1. ASSUME NEW h \in Handlers, Done(h) PROVE calls' \in [Handlers -> Call]
  BY <1>1, IdleType, CallsType DEF Done
<1>2. ASSUME NEW h \in Handlers, NEW e \in Events, NEW k \in Keys, Store(h, e, k)
      PROVE  KeysTypeOK'
  <2> DEFINE c == [Idle EXCEPT !.pc = "storing", !.key = k, !.event = e, !.ref = evidence[e]]
  <2>1. c \in Call
    BY IdleType DEF Call, KeysTypeOK
  <2>2. calls' = [calls EXCEPT ![h] = c]
    BY <1>2 DEF Store, Open
  <2>3. calls' \in [Handlers -> Call]
    BY <2>1, <2>2, CallsType
  <2> QED BY <1>2, <2>3 DEF Store, KeysTypeOK
<1>3. ASSUME NEW h \in Handlers, NEW e \in Events, NEW k \in Keys, EnrolAsks(h, e, k)
      PROVE  KeysTypeOK'
  <2>1. Opened("start", e, k) \in Call
    BY <1>3, OpenedType DEF EnrolAsks
  <2>2. calls' \in [Handlers -> Call]
    BY <1>3, <2>1, CallsType DEF EnrolAsks, Open
  <2> QED BY <1>3, <2>2 DEF EnrolAsks, KeysTypeOK
<1>4. ASSUME NEW h \in Handlers, NEW e \in Events, RefreshAsks(h, e) \/ PingAsks(h, e)
      PROVE  KeysTypeOK'
  <2>1. /\ Opened("status", e, NoKey) \in Call
        /\ [Idle EXCEPT !.pc = "ping", !.event = e, !.server = binding[e]] \in Call
    <3>1. Opened("status", e, NoKey) \in Call
      BY OpenedType, KeyNullAssumption
    <3>2. [Idle EXCEPT !.pc = "ping", !.event = e, !.server = binding[e]] \in Call
      BY IdleType DEF Call, KeysTypeOK
    <3> QED BY <3>1, <3>2
  <2>2. calls' \in [Handlers -> Call]
    BY <1>4, <2>1, CallsType DEF RefreshAsks, PingAsks, Open
  <2> QED BY <1>4, <2>2 DEF RefreshAsks, PingAsks, KeysTypeOK
<1>5. ASSUME NEW h \in Handlers, NEW e \in Events, EraseSecrets(h, e) PROVE KeysTypeOK'
  <2> DEFINE c == [Idle EXCEPT !.pc = "erasing", !.ids = IdsOf(KeysOf(e))]
  <2>0. IdsOf(KeysOf(e)) \in SUBSET Nat
    BY DEF IdsOf, KeysOf, Stored, KeysTypeOK, Row
  <2>1. c \in Call /\ KeysOf(e) \subseteq Keys
    BY <2>0, IdleType DEF Call, KeysOf
  <2>2. calls' = calls \/ calls' = [calls EXCEPT ![h] = c]
    BY <1>5 DEF EraseSecrets, Open
  <2>3. calls' \in [Handlers -> Call]
    BY <2>1, <2>2, CallsType DEF KeysTypeOK
  <2>4. secrets' \subseteq Keys /\ wiped' \subseteq Keys
    BY <1>5, <2>1 DEF EraseSecrets, KeysTypeOK
  <2> QED BY <1>5, <2>3, <2>4 DEF EraseSecrets, KeysTypeOK
<1>6. ASSUME NEW h \in Handlers, StoreCommits(h) PROVE KeysTypeOK'
  <2> DEFINE bound(i) == Inserted(calls[h], {i})
             row(i) == [id |-> i, event |-> NoEvent, ref |-> calls[h].ref, state |-> "pending"]
  <2>1. PICK i \in Nat : /\ rows' = [rows EXCEPT ![calls[h].key] = row(i)]
                        /\ calls' = [calls EXCEPT ![h] = bound(i)]
                        /\ reused' \in {reused, reused \cup {calls[h].key}}
    BY <1>6, NextIdsType DEF StoreCommits
  <2>2. calls[h].key \in Keys /\ calls[h].event \in Events
    BY <1>6 DEF StoreCommits, CallNamesKey
  <2>3. bound(i) \in Call
    BY <2>2, IdleType DEF Call, Inserted
  <2>4. row(i) \in Row
    BY <1>6 DEF Row, States, StoreCommits, CallNamesKey
  <2>5. calls' \in [Handlers -> Call]
    BY <2>1, <2>3, CallsType
  <2> HIDE DEF row
  <2> QED BY <1>6, <2>1, <2>2, <2>4, <2>5 DEF StoreCommits, KeysTypeOK
<1>7. ASSUME NEW h \in Handlers, StoreFails(h) \/ RequestFails(h) PROVE KeysTypeOK'
  BY <1>1, <1>7 DEF StoreFails, RequestFails, KeysTypeOK
<1>22. ASSUME NEW h \in Handlers, StoreRefreshed(h) PROVE KeysTypeOK'
  <2> DEFINE c == [Idle EXCEPT !.pc = "binding", !.event = calls[h].event, !.ids = calls[h].ids]
  <2>1. calls[h].event \in Events /\ calls[h] \in Call
    BY <1>22 DEF StoreRefreshed, CallNamesKey, KeysTypeOK
  <2>2. c \in Call
    BY <2>1, IdleType DEF Call
  <2>3. calls' \in [Handlers -> Call]
    BY <1>22, <2>2, CallsType DEF StoreRefreshed
  <2> QED BY <1>22, <2>3 DEF StoreRefreshed, KeysTypeOK
<1>23. ASSUME NEW h \in Handlers, StoreNotRefreshed(h) PROVE KeysTypeOK'
  <2>1. calls[h].key \in Keys
    BY <1>23 DEF StoreNotRefreshed, CallNamesKey
  <2> QED BY <1>1, <1>23, <2>1 DEF StoreNotRefreshed, KeysTypeOK
<1>8. ASSUME NEW h \in Handlers, StoreBinds(h) PROVE KeysTypeOK'
  <2>1. calls[h].event \in Events
    BY <1>8 DEF StoreBinds, CallNamesKey
  <2>2. rows' \in [Keys -> Row \cup {NoRow}]
    BY <1>8, <2>1 DEF StoreBinds, KeysTypeOK, Stored, Row
  <2> QED BY <1>1, <1>8, <2>2 DEF StoreBinds, KeysTypeOK
<1>9. ASSUME NEW h \in Handlers, EnrolStarted(h) PROVE KeysTypeOK'
  <2>1. CASE calls[h].got = "active" /\ rows' = Written(calls[h], "active") /\ Done(h)
    <3>1. rows' \in [Keys -> Row \cup {NoRow}]
      BY <1>9, <2>1, WrittenType DEF EnrolStarted, CallNamesKey, States
    <3> QED BY <1>1, <1>9, <2>1, <3>1 DEF EnrolStarted, KeysTypeOK
  <2>2. CASE UNCHANGED rows /\ calls' = [calls EXCEPT ![h].pc = "proof", ![h].got = "none"]
    BY <1>9, <2>2 DEF EnrolStarted, KeysTypeOK, Call
  <2> QED BY <1>9, <2>1, <2>2 DEF EnrolStarted
<1>10. ASSUME NEW h \in Handlers, EnrolSubmitted(h) PROVE KeysTypeOK'
  <2>1. rows' \in [Keys -> Row \cup {NoRow}]
    BY <1>10, WrittenType DEF EnrolSubmitted, CallNamesKey, States
  <2> QED BY <1>1, <1>10, <2>1 DEF EnrolSubmitted, KeysTypeOK
<1>11. ASSUME NEW h \in Handlers, RefreshAnswered(h) PROVE KeysTypeOK'
  BY <1>1, <1>11, MarkedType DEF RefreshAnswered, KeysTypeOK
<1>12. ASSUME NEW h \in Handlers, PingAnswered(h) PROVE KeysTypeOK'
  <2>1. evidence' \in [Events -> Refs]
    BY <1>12 DEF PingAnswered, KeysTypeOK, CallNamesKey
  <2> QED BY <1>1, <1>12, <2>1 DEF PingAnswered, KeysTypeOK
<1>13. ASSUME NEW h \in Handlers, EraseCommits(h) PROVE KeysTypeOK'
  BY <1>1, <1>13, WithoutType DEF EraseCommits, KeysTypeOK
<1>14. ASSUME NEW h \in Handlers, ServerStarts(h) PROVE KeysTypeOK'
  <2>1. calls' \in [Handlers -> Call]
    BY <1>14, AnswerType DEF ServerStarts
  <2>2. server' \in [Keys -> KnownKey]
    BY <1>14 DEF ServerStarts, KeysTypeOK, KnownKey, Call
  <2> QED BY <1>14, <2>1, <2>2 DEF ServerStarts, KeysTypeOK
<1>15. ASSUME NEW h \in Handlers, ServerTakesProof(h) PROVE KeysTypeOK'
  <2>1. calls' \in [Handlers -> Call]
    BY <1>15, AnswerType DEF ServerTakesProof
  <2>2. server' \in [Keys -> KnownKey]
    BY <1>15 DEF ServerTakesProof, CallNamesKey, Answered, KeysTypeOK, KnownKey
  <2> QED BY <1>15, <2>1, <2>2 DEF ServerTakesProof, KeysTypeOK
<1>16. ASSUME NEW h \in Handlers, ServerReports(h) PROVE KeysTypeOK'
  <2> DEFINE listed == {k \in Keys : server[k] = [state |-> "active", ref |-> calls[h].server]}
             c == [calls[h] EXCEPT !.got = "ok", !.keys = listed]
  <2>1. c \in Call
    <3>1. calls[h] \in Call /\ listed \in SUBSET Keys
      BY DEF KeysTypeOK
    <3> HIDE DEF listed
    <3> QED BY <3>1 DEF Call
  <2>2. calls' = [calls EXCEPT ![h] = c]
    BY <1>16 DEF ServerReports
  <2>3. calls' \in [Handlers -> Call]
    BY <2>1, <2>2, CallsType
  <2> QED BY <1>16, <2>3 DEF ServerReports, KeysTypeOK
<1>17. ASSUME NEW k \in Keys, RetireKey(k) PROVE KeysTypeOK'
  BY <1>17 DEF RetireKey, Stored, KeysTypeOK, Row, States
<1>18. ASSUME NEW k \in Keys, RootDecides(k) PROVE KeysTypeOK'
  BY <1>18 DEF RootDecides, KeysTypeOK, KnownKey
<1>19. ASSUME NEW e \in Events, NEW r \in Refs, Reconnect(e, r) PROVE KeysTypeOK'
  BY <1>19 DEF Reconnect, KeysTypeOK
<1>20. CASE Crash
  BY <1>20, IdleType DEF Crash, KeysTypeOK
<1>21. CASE UNCHANGED keyVars
  BY <1>21 DEF keyVars, KeysTypeOK
<1> QED
  BY <1>2, <1>3, <1>4, <1>5, <1>6, <1>7, <1>8, <1>9, <1>10, <1>11, <1>12, <1>13, <1>14, <1>15,
     <1>16, <1>17, <1>18, <1>19, <1>20, <1>21, <1>22, <1>23 DEF KeysNext

\* The keys, the credential store and the requests keep their shape.
THEOREM KeysTypeCorrect == KeysSpec => [](KeysTypeOK /\ CallNamesKey)
<1>1. KeysInit => KeysTypeOK /\ CallNamesKey
  BY IdleType DEF KeysInit, KeysTypeOK, CallNamesKey, KnownKey, Idle
<1> QED BY <1>1, NamesStep, KeysTypeStep, PTL DEF KeysSpec

-----------------------------------------------------------------------------
(* Active keys were approved *)

\* What the requests have been told, and what the server knows.
AnswersTrue ==
  \A h \in Handlers : /\ calls[h].got = "active" => calls[h].key \in approved
                      /\ calls[h].pc = "status" => calls[h].keys \subseteq approved
ServerTrue == \A k \in Keys : server[k].state = "active" => k \in approved

\* Two rows have different ids, and the id that an enrolment has loaded leads to
\* its own key, or to one that got the id since.
IdsDistinct == \A j, k \in Keys : Stored(j) /\ Stored(k) /\ rows[j].id = rows[k].id => j = k
IdsLead ==
  \A h \in Handlers, k \in Keys :
    (calls[h].pc \in {"start", "proof"} /\ Stored(k) /\ rows[k].id \in calls[h].ids)
      => k = calls[h].key \/ k \in reused
IdsInv == IdsDistinct /\ IdsLead

\* ActiveWasApproved alone is not inductive: an answer on its way writes it,
\* through an id.
ToldInv == ActiveWasApproved /\ AnswersTrue /\ ServerTrue
ApprovedInv == ToldInv /\ IdsInv

\* No step but the opening of an enrolment and the insertion of a row changes
\* what the ids lead to.
KeepsIds ==
  /\ \A k \in Keys : Stored(k)' => Stored(k) /\ rows'[k].id = rows[k].id
  /\ \A h \in Handlers : calls'[h].pc \in {"start", "proof"} =>
       calls[h].pc \in {"start", "proof"} /\ calls'[h].key = calls[h].key /\ calls'[h].ids = calls[h].ids
  /\ reused' = reused

\* Then the invariant of the ids is kept.
LEMMA KeptIds == IdsInv /\ KeepsIds => IdsInv'
BY DEF IdsInv, IdsDistinct, IdsLead, KeepsIds

\* Changing one request to one that is not an enrolment, or that goes on with it.
LEMMA CallKeepsIds ==
  ASSUME KeysTypeOK, UNCHANGED reused, NEW h \in Handlers, NEW c,
         \A k \in Keys : Stored(k)' => Stored(k) /\ rows'[k].id = rows[k].id,
         calls' = calls \/ calls' = [calls EXCEPT ![h] = c],
         c.pc \in {"start", "proof"} => /\ calls[h].pc \in {"start", "proof"}
                                       /\ c.key = calls[h].key /\ c.ids = calls[h].ids
  PROVE  KeepsIds
BY DEF KeepsIds, KeysTypeOK

\* A request that ends does.
LEMMA DoneKeepsIds ==
  ASSUME KeysTypeOK, UNCHANGED reused, NEW h \in Handlers, Done(h),
         \A k \in Keys : Stored(k)' => Stored(k) /\ rows'[k].id = rows[k].id
  PROVE  KeepsIds
<1>1. Idle.pc = "idle"
  BY DEF Idle
<1> QED BY <1>1, CallKeepsIds DEF Done

\* Writing, marking and deleting leave the ids of the rows that stay.
LEMMA RowsKeepIds ==
  ASSUME KeysTypeOK, NEW h \in Handlers,
         \/ \E s \in States : rows' = Written(calls[h], s)
         \/ rows' = Marked(calls[h])
         \/ \E ids : rows' = Without(ids)
         \/ StoreBinds(h)
         \/ \E k \in Keys : RetireKey(k)
  PROVE  \A k \in Keys : Stored(k)' => Stored(k) /\ rows'[k].id = rows[k].id
BY KeyNullAssumption
DEF Written, Marked, KeysOf, Without, StoreBinds, RetireKey, Stored, KeysTypeOK, Row

\* Every step keeps the invariant of the ids.
LEMMA IdsStep == KeysTypeOK /\ CallNamesKey /\ IdsInv /\ [KeysNext]_keyVars => IdsInv'
<1> SUFFICES ASSUME KeysTypeOK, CallNamesKey, IdsInv, [KeysNext]_keyVars PROVE IdsInv'
  OBVIOUS
<1>0. ASSUME UNCHANGED rows
      PROVE  \A k \in Keys : Stored(k)' => Stored(k) /\ rows'[k].id = rows[k].id
  BY <1>0 DEF Stored
<1>1. ASSUME NEW h \in Handlers, NEW e \in Events, NEW k \in Keys, Store(h, e, k) PROVE IdsInv'
  <2> DEFINE c == [Idle EXCEPT !.pc = "storing", !.key = k, !.event = e, !.ref = evidence[e]]
  <2>1. calls' = [calls EXCEPT ![h] = c] /\ c.pc = "storing"
    BY <1>1 DEF Store, Open, Idle
  <2> HIDE DEF c
  <2> QED BY <1>0, <1>1, <2>1, CallKeepsIds, KeptIds DEF Store
<1>2. ASSUME NEW h \in Handlers, NEW e \in Events, NEW k \in Keys, EnrolAsks(h, e, k)
      PROVE  IdsInv'
  <2>1. /\ Stored(k) /\ UNCHANGED <<rows, reused>>
        /\ calls' = [calls EXCEPT ![h] = Opened("start", e, k)]
    BY <1>2 DEF EnrolAsks, Open
  <2>2. Opened("start", e, k).key = k /\ Opened("start", e, k).ids = {rows[k].id}
    BY KeyNullAssumption DEF Opened, Idle
  <2>3. IdsDistinct'
    BY <2>1 DEF IdsInv, IdsDistinct, Stored
  <2>4. ASSUME NEW g \in Handlers, NEW j \in Keys, calls'[g].pc \in {"start", "proof"},
               Stored(j)', rows'[j].id \in calls'[g].ids
        PROVE  j = calls'[g].key \/ j \in reused'
    <3>1. CASE g = h
      BY <2>1, <2>2, <2>4, <3>1 DEF IdsInv, IdsDistinct, Stored, KeysTypeOK
    <3>2. CASE g # h
      BY <2>1, <2>4, <3>2 DEF IdsInv, IdsLead, Stored, KeysTypeOK
    <3> QED BY <3>1, <3>2
  <2>5. IdsLead'
    BY <2>4 DEF IdsLead
  <2> QED BY <2>3, <2>5 DEF IdsInv
<1>3. ASSUME NEW h \in Handlers, NEW e \in Events, RefreshAsks(h, e) PROVE IdsInv'
  <2> DEFINE c == Opened("status", e, NoKey)
  <2>1. calls' = [calls EXCEPT ![h] = c] /\ c.pc = "status"
    BY <1>3 DEF RefreshAsks, Open, Opened, Idle
  <2> HIDE DEF c
  <2> QED BY <1>0, <1>3, <2>1, CallKeepsIds, KeptIds DEF RefreshAsks
<1>4. ASSUME NEW h \in Handlers, NEW e \in Events, PingAsks(h, e) PROVE IdsInv'
  <2> DEFINE c == [Idle EXCEPT !.pc = "ping", !.event = e, !.server = binding[e]]
  <2>1. calls' = [calls EXCEPT ![h] = c] /\ c.pc = "ping"
    BY <1>4 DEF PingAsks, Open, Idle
  <2> HIDE DEF c
  <2> QED BY <1>0, <1>4, <2>1, CallKeepsIds, KeptIds DEF PingAsks
<1>5. ASSUME NEW h \in Handlers, NEW e \in Events, EraseSecrets(h, e) PROVE IdsInv'
  <2> DEFINE c == [Idle EXCEPT !.pc = "erasing", !.ids = IdsOf(KeysOf(e))]
  <2>1. (calls' = calls \/ calls' = [calls EXCEPT ![h] = c]) /\ c.pc = "erasing"
    BY <1>5 DEF EraseSecrets, Open, Idle
  <2> HIDE DEF c
  <2> QED BY <1>0, <1>5, <2>1, CallKeepsIds, KeptIds DEF EraseSecrets
<1>6. ASSUME NEW h \in Handlers, StoreCommits(h) PROVE IdsInv'
  <2> DEFINE bound(i) == Inserted(calls[h], {i})
             row(i) == [id |-> i, event |-> NoEvent, ref |-> calls[h].ref, state |-> "pending"]
             key == calls[h].key
  <2>1. PICK i \in NextIds :
          /\ rows' = [rows EXCEPT ![key] = row(i)]
          /\ calls' = [calls EXCEPT ![h] = bound(i)]
          /\ reused' = IF \E g \in Handlers : i \in calls[g].ids THEN reused \cup {key} ELSE reused
    BY <1>6 DEF StoreCommits
  <2>2. key \in Keys /\ \A k \in Keys : Stored(k) => rows[k].id < i
    BY <1>6, <2>1 DEF StoreCommits, CallNamesKey, NextIds
  <2>3. \A k \in Keys : Stored(k) => rows[k].id \in Nat /\ rows[k].id # i
    BY <2>2 DEF KeysTypeOK, Stored, Row
  <2>4. row(i).id = i /\ bound(i).pc = "refreshing"
    BY DEF Inserted, Idle
  <2>5. \A k \in Keys : Stored(k)' => IF k = key THEN rows'[k].id = i
                                     ELSE Stored(k) /\ rows'[k].id = rows[k].id
    BY <2>1, <2>2, <2>4 DEF Stored, KeysTypeOK
  <2>6. IdsDistinct'
    BY <2>3, <2>5 DEF IdsInv, IdsDistinct
  <2>7. \A g \in Handlers : calls'[g].pc \in {"start", "proof"} => calls'[g] = calls[g]
    <3> HIDE DEF bound
    <3> QED BY <2>1, <2>4 DEF KeysTypeOK
  <2>8. ASSUME NEW g \in Handlers, NEW k \in Keys, calls'[g].pc \in {"start", "proof"},
               Stored(k)', rows'[k].id \in calls'[g].ids
        PROVE  k = calls'[g].key \/ k \in reused'
    BY <2>1, <2>5, <2>7, <2>8 DEF IdsInv, IdsLead
  <2>9. IdsLead'
    BY <2>8 DEF IdsLead
  <2> QED BY <2>6, <2>9 DEF IdsInv
<1>7. ASSUME NEW h \in Handlers, Done(h),
             \/ StoreFails(h) \/ StoreNotRefreshed(h) \/ RequestFails(h) \/ PingAnswered(h)
      PROVE  IdsInv'
  BY <1>0, <1>7, DoneKeepsIds, KeptIds DEF StoreFails, StoreNotRefreshed, RequestFails, PingAnswered
<1>15. ASSUME NEW h \in Handlers, StoreRefreshed(h) PROVE IdsInv'
  <2> DEFINE c == [Idle EXCEPT !.pc = "binding", !.event = calls[h].event, !.ids = calls[h].ids]
  <2>1. calls' = [calls EXCEPT ![h] = c] /\ c.pc = "binding"
    BY <1>15 DEF StoreRefreshed, Idle
  <2> HIDE DEF c
  <2> QED BY <1>0, <1>15, <2>1, CallKeepsIds, KeptIds DEF StoreRefreshed
<1>8. ASSUME NEW h \in Handlers, Done(h),
             StoreBinds(h) \/ EnrolSubmitted(h) \/ RefreshAnswered(h) \/ EraseCommits(h)
      PROVE  IdsInv'
  <2>1. UNCHANGED reused
    BY <1>8 DEF StoreBinds, EnrolSubmitted, RefreshAnswered, EraseCommits
  <2>2. \A k \in Keys : Stored(k)' => Stored(k) /\ rows'[k].id = rows[k].id
    BY <1>8, RowsKeepIds DEF EnrolSubmitted, RefreshAnswered, EraseCommits, States
  <2> QED BY <1>8, <2>1, <2>2, DoneKeepsIds, KeptIds
<1>9. ASSUME NEW h \in Handlers, EnrolStarted(h) PROVE IdsInv'
  <2>1. UNCHANGED reused
    BY <1>9 DEF EnrolStarted
  <2>2. CASE rows' = Written(calls[h], "active") /\ Done(h)
    BY <2>1, <2>2, RowsKeepIds, DoneKeepsIds, KeptIds DEF States
  <2>3. CASE UNCHANGED rows /\ calls' = [calls EXCEPT ![h].pc = "proof", ![h].got = "none"]
    BY <1>9, <2>1, <2>3, KeptIds DEF EnrolStarted, KeepsIds, KeysTypeOK, Call, Stored
  <2> QED BY <1>9, <2>2, <2>3 DEF EnrolStarted
<1>10. ASSUME NEW h \in Handlers, ServerStarts(h) \/ ServerTakesProof(h) \/ ServerReports(h)
       PROVE  IdsInv'
  BY <1>10, KeptIds
  DEF ServerStarts, ServerTakesProof, ServerReports, Answered, Answer, KeepsIds, KeysTypeOK, Call, Stored
<1>11. ASSUME NEW k \in Keys, RetireKey(k) PROVE IdsInv'
  BY <1>11, KeptIds, KeyNullAssumption DEF RetireKey, KeepsIds, KeysTypeOK, Stored, Row
<1>12. CASE Crash
  BY <1>12, KeptIds DEF Crash, KeepsIds, Stored, Idle
<1>13. CASE UNCHANGED <<rows, calls, reused>>
  BY <1>13, KeptIds DEF KeepsIds, Stored
<1>14. ASSUME NEW h \in Handlers,
              \/ StoreFails(h) \/ StoreNotRefreshed(h) \/ RequestFails(h) \/ PingAnswered(h)
              \/ StoreBinds(h) \/ EnrolSubmitted(h) \/ RefreshAnswered(h) \/ EraseCommits(h)
       PROVE  IdsInv'
  <2>1. Done(h)
    BY <1>14 DEF StoreFails, StoreNotRefreshed, RequestFails, PingAnswered, StoreBinds, EnrolSubmitted,
                 RefreshAnswered, EraseCommits
  <2> QED BY <1>7, <1>8, <1>14, <2>1
<1> QED
  BY <1>1, <1>2, <1>3, <1>4, <1>5, <1>6, <1>9, <1>10, <1>11, <1>12, <1>13, <1>14, <1>15
  DEF KeysNext, keyVars, RootDecides, Reconnect

\* A request is changed to one that was told nothing untrue.
LEMMA AnswersKept ==
  ASSUME KeysTypeOK, AnswersTrue, approved \subseteq approved', NEW h \in Handlers, NEW c,
         calls' = calls \/ calls' = [calls EXCEPT ![h] = c],
         c.got = "active" => c.key \in approved',
         c.pc = "status" => c.keys \subseteq approved'
  PROVE  AnswersTrue'
BY DEF AnswersTrue, KeysTypeOK

\* A request that ends has been told nothing.
LEMMA DoneAnswers ==
  ASSUME KeysTypeOK, AnswersTrue, UNCHANGED approved, NEW h \in Handlers, Done(h)
  PROVE  AnswersTrue'
<1>1. Idle.got = "none" /\ Idle.pc = "idle"
  BY DEF Idle
<1> QED BY <1>1, AnswersKept DEF Done

\* So has one that is opened.
LEMMA OpenedAnswers ==
  ASSUME KeysTypeOK, AnswersTrue, UNCHANGED approved, NEW h \in Handlers, NEW e \in Events,
         \/ \E k \in Keys : Store(h, e, k) \/ EnrolAsks(h, e, k)
         \/ RefreshAsks(h, e) \/ PingAsks(h, e) \/ EraseSecrets(h, e)
  PROVE  AnswersTrue'
<1>1. ASSUME NEW k \in Keys, Store(h, e, k) PROVE AnswersTrue'
  <2> DEFINE c == [Idle EXCEPT !.pc = "storing", !.key = k, !.event = e, !.ref = evidence[e]]
  <2>1. c.got = "none" /\ c.pc = "storing" /\ calls' = [calls EXCEPT ![h] = c]
    BY <1>1 DEF Store, Open, Idle
  <2> HIDE DEF c
  <2> QED BY <2>1, AnswersKept
<1>2. ASSUME NEW k, NEW pc \in {"start", "status"},
             calls' = [calls EXCEPT ![h] = Opened(pc, e, k)]
      PROVE  AnswersTrue'
  <2>1. Opened(pc, e, k).got = "none" /\ Opened(pc, e, k).keys = {}
    BY DEF Opened, Idle
  <2> QED BY <1>2, <2>1, AnswersKept
<1>3. CASE EraseSecrets(h, e)
  <2> DEFINE c == [Idle EXCEPT !.pc = "erasing", !.ids = IdsOf(KeysOf(e))]
  <2>1. c.got = "none" /\ c.pc = "erasing" /\ (calls' = calls \/ calls' = [calls EXCEPT ![h] = c])
    BY <1>3 DEF EraseSecrets, Open, Idle
  <2> HIDE DEF c
  <2> QED BY <2>1, AnswersKept
<1>4. CASE PingAsks(h, e)
  <2> DEFINE c == [Idle EXCEPT !.pc = "ping", !.event = e, !.server = binding[e]]
  <2>1. c.got = "none" /\ c.pc = "ping" /\ calls' = [calls EXCEPT ![h] = c]
    BY <1>4 DEF PingAsks, Open, Idle
  <2> HIDE DEF c
  <2> QED BY <2>1, AnswersKept
<1> QED BY <1>1, <1>2, <1>3, <1>4 DEF EnrolAsks, RefreshAsks, Open

\* The answers of the server are true.
LEMMA AnswersOfServer ==
  ASSUME KeysTypeOK, CallNamesKey, AnswersTrue, ServerTrue, UNCHANGED approved, NEW h \in Handlers,
         \/ ServerStarts(h) \/ ServerTakesProof(h) \/ ServerReports(h)
  PROVE  AnswersTrue' /\ ServerTrue'
<1> USE DEF AnswersTrue, ServerTrue, KeysTypeOK, Answered, Answer
<1>1. CASE ServerStarts(h)
  <2>1. calls[h].key \in Keys /\ calls[h].pc = "start"
    BY <1>1 DEF ServerStarts, CallNamesKey
  <2>2. ServerTrue'
    BY <1>1, <2>1 DEF ServerStarts, KnownKey
  <2>3. PICK got \in {"active", "challenge"} :
          /\ calls' = [calls EXCEPT ![h] = [calls[h] EXCEPT !.got = got]]
          /\ got = "active" => server[calls[h].key].state = "active"
    BY <1>1 DEF ServerStarts
  <2> DEFINE c == [calls[h] EXCEPT !.got = got]
  <2>4. c.got = got /\ c.pc = "start" /\ c.key = calls[h].key
    BY <2>1 DEF Call
  <2>5. c.got = "active" => c.key \in approved
    BY <2>1, <2>3, <2>4
  <2> HIDE DEF c
  <2>6. AnswersTrue'
    BY <2>3, <2>4, <2>5, AnswersKept
  <2> QED BY <2>2, <2>6
<1>2. CASE ServerTakesProof(h)
  BY <1>2 DEF ServerTakesProof, Call
<1>3. CASE ServerReports(h)
  <2>1. {k \in Keys : server[k] = [state |-> "active", ref |-> calls[h].server]} \subseteq approved
    OBVIOUS
  <2> QED BY <1>3, <2>1 DEF ServerReports, Call
<1> QED BY <1>1, <1>2, <1>3

\* Every step keeps the three together.
LEMMA ApprovedStep ==
  KeysTypeOK /\ CallNamesKey /\ ApprovedInv /\ [KeysNext]_keyVars => ApprovedInv'
<1> SUFFICES ASSUME KeysTypeOK, CallNamesKey, ApprovedInv, [KeysNext]_keyVars PROVE ToldInv'
  BY IdsStep DEF ApprovedInv
<1> USE DEF ApprovedInv, ToldInv
<1>1. ASSUME UNCHANGED <<rows, reused>>, approved \subseteq approved' PROVE ActiveWasApproved'
  BY <1>1 DEF ActiveWasApproved, Stored
<1>2. ASSUME UNCHANGED <<server, approved>> PROVE ServerTrue'
  BY <1>2 DEF ServerTrue
<1>3. ASSUME NEW h \in Handlers, NEW e \in Events,
             \/ \E k \in Keys : Store(h, e, k) \/ EnrolAsks(h, e, k)
             \/ RefreshAsks(h, e) \/ PingAsks(h, e) \/ EraseSecrets(h, e)
      PROVE  ToldInv'
  <2>1. UNCHANGED <<rows, server, approved, reused>>
    BY <1>3 DEF Store, EnrolAsks, RefreshAsks, PingAsks, EraseSecrets
  <2> QED BY <1>1, <1>2, <1>3, <2>1, OpenedAnswers
<1>4. ASSUME NEW h \in Handlers, StoreCommits(h) PROVE ToldInv'
  <2> DEFINE bound(i) == Inserted(calls[h], {i})
  <2>1. PICK i \in NextIds :
          /\ rows' = [rows EXCEPT ![calls[h].key] =
                       [id |-> i, event |-> NoEvent, ref |-> calls[h].ref, state |-> "pending"]]
          /\ calls' = [calls EXCEPT ![h] = bound(i)]
    BY <1>4 DEF StoreCommits
  <2>2. bound(i).got = "none" /\ bound(i).pc = "refreshing"
    BY DEF Inserted, Idle
  <2>3. UNCHANGED <<server, approved>> /\ reused \subseteq reused'
    BY <1>4 DEF StoreCommits
  <2>4. AnswersTrue'
    <3> HIDE DEF bound
    <3> QED BY <2>1, <2>2, <2>3, AnswersKept
  <2>5. ActiveWasApproved'
    BY <2>1, <2>3 DEF ActiveWasApproved, Stored, KeysTypeOK
  <2> QED BY <1>2, <2>3, <2>4, <2>5
<1>16. ASSUME NEW h \in Handlers, StoreRefreshed(h) PROVE ToldInv'
  <2> DEFINE c == [Idle EXCEPT !.pc = "binding", !.event = calls[h].event, !.ids = calls[h].ids]
  <2>1. /\ calls' = [calls EXCEPT ![h] = c] /\ c.pc = "binding" /\ c.got = "none"
        /\ UNCHANGED <<rows, server, approved, reused>>
    BY <1>16 DEF StoreRefreshed, Idle
  <2> HIDE DEF c
  <2> QED BY <1>1, <1>2, <2>1, AnswersKept
<1>5. ASSUME NEW h \in Handlers,
             StoreFails(h) \/ StoreNotRefreshed(h) \/ RequestFails(h) \/ PingAnswered(h)
      PROVE  ToldInv'
  <2>1. UNCHANGED <<rows, server, approved, reused>> /\ Done(h)
    BY <1>5 DEF StoreFails, StoreNotRefreshed, RequestFails, PingAnswered
  <2> QED BY <1>1, <1>2, <2>1, DoneAnswers
<1>6. ASSUME NEW h \in Handlers, StoreBinds(h) \/ EraseCommits(h) PROVE ToldInv'
  <2>1. UNCHANGED <<server, approved, reused>> /\ Done(h)
    BY <1>6 DEF StoreBinds, EraseCommits
  <2>2. ActiveWasApproved'
    <3>1. CASE StoreBinds(h)
      BY <2>1, <3>1 DEF StoreBinds, ActiveWasApproved, Stored, KeysTypeOK, Row
    <3>2. CASE EraseCommits(h)
      BY <2>1, <3>2 DEF EraseCommits, Without, ActiveWasApproved, Stored, KeysTypeOK
    <3> QED BY <1>6, <3>1, <3>2
  <2> QED BY <1>2, <2>1, <2>2, DoneAnswers
<1>7. ASSUME NEW h \in Handlers, NEW s \in {"active", "pending"}, Done(h),
             rows' = Written(calls[h], s), UNCHANGED <<server, approved, reused>>,
             s = "active" => calls[h].key \in approved /\ calls[h].pc \in {"start", "proof"}
      PROVE  ToldInv'
  <2>1. ActiveWasApproved'
    BY <1>7 DEF Written, ActiveWasApproved, IdsInv, IdsLead, Stored, KeysTypeOK, Row
  <2> QED BY <1>2, <1>7, <2>1, DoneAnswers
<1>8. ASSUME NEW h \in Handlers, EnrolStarted(h) PROVE ToldInv'
  <2>1. CASE calls[h].got = "active" /\ rows' = Written(calls[h], "active") /\ Done(h)
    BY <1>7, <1>8, <2>1 DEF EnrolStarted, AnswersTrue
  <2>2. CASE UNCHANGED rows /\ calls' = [calls EXCEPT ![h].pc = "proof", ![h].got = "none"]
    <3>1. AnswersTrue'
      BY <1>8, <2>2 DEF EnrolStarted, AnswersTrue, KeysTypeOK, Call
    <3> QED BY <1>1, <1>2, <1>8, <2>2, <3>1 DEF EnrolStarted
  <2> QED BY <1>8, <2>1, <2>2 DEF EnrolStarted
<1>9. ASSUME NEW h \in Handlers, EnrolSubmitted(h) PROVE ToldInv'
  BY <1>7, <1>9 DEF EnrolSubmitted
<1>10. ASSUME NEW h \in Handlers, RefreshAnswered(h) PROVE ToldInv'
  <2>1. ActiveWasApproved'
    BY <1>10 DEF RefreshAnswered, Marked, KeysOf, ActiveWasApproved, AnswersTrue, Stored, KeysTypeOK, Row
  <2> QED BY <1>2, <1>10, <2>1, DoneAnswers DEF RefreshAnswered
<1>11. ASSUME NEW h \in Handlers, ServerStarts(h) \/ ServerTakesProof(h) \/ ServerReports(h)
       PROVE  ToldInv'
  <2>1. UNCHANGED <<rows, approved, reused>>
    BY <1>11 DEF ServerStarts, ServerTakesProof, ServerReports
  <2> QED BY <1>1, <1>11, <2>1, AnswersOfServer
<1>12. ASSUME NEW k \in Keys, RetireKey(k) PROVE ToldInv'
  <2>1. ActiveWasApproved'
    BY <1>12 DEF RetireKey, ActiveWasApproved, Stored, KeysTypeOK, Row
  <2> QED BY <1>2, <1>12, <2>1 DEF RetireKey, AnswersTrue
<1>13. ASSUME NEW k \in Keys, RootDecides(k) PROVE ToldInv'
  <2>1. UNCHANGED <<rows, calls, reused>> /\ approved \subseteq approved'
    BY <1>13 DEF RootDecides
  <2>2. ServerTrue'
    BY <1>13 DEF RootDecides, ServerTrue, KeysTypeOK, KnownKey
  <2> QED BY <1>1, <2>1, <2>2 DEF AnswersTrue
<1>14. CASE Crash
  <2>1. AnswersTrue'
    BY <1>14 DEF Crash, AnswersTrue, Idle
  <2> QED BY <1>1, <1>2, <1>14, <2>1 DEF Crash
<1>15. CASE UNCHANGED <<rows, server, calls, approved, reused>>
  BY <1>1, <1>2, <1>15 DEF AnswersTrue
<1> QED
  BY <1>3, <1>4, <1>5, <1>6, <1>8, <1>9, <1>10, <1>11, <1>12, <1>13, <1>14, <1>15, <1>16
  DEF KeysNext, keyVars, Reconnect

\* At the start no key has a row and no request is at work.
LEMMA InitApproved == KeysInit => ApprovedInv
BY DEF KeysInit, ApprovedInv, ToldInv, IdsInv, IdsDistinct, IdsLead, ActiveWasApproved, ServerTrue,
       AnswersTrue, Stored, Idle

\* No key is active that the root of the server did not approve, however
\* enrolments, refreshes, imports, erasures and crashes interleave.
THEOREM ActiveKeysWereApproved == KeysSpec => []ActiveWasApproved
<1>1. ApprovedInv => ActiveWasApproved
  BY DEF ApprovedInv, ToldInv
<1> QED BY <1>1, InitApproved, ApprovedStep, KeysTypeCorrect, PTL DEF KeysSpec

-----------------------------------------------------------------------------
(* A key in the list can sign *)

\* A key that is being stored has its private half, like one that has a row,
\* unless an erasure took it or another request was storing it as well.
StoringHasSecret ==
  \A h \in Handlers : calls[h].pc = "storing" => calls[h].key \in secrets \cup wiped \cup raced

\* Two requests that store one key met, and so did one that finds it has a row.
StoringMet ==
  /\ \A g, h \in Handlers :
       (g # h /\ calls[g].pc = "storing" /\ calls[h].pc = "storing" /\ calls[g].key = calls[h].key)
         => calls[h].key \in raced
  /\ \A h \in Handlers : (calls[h].pc = "storing" /\ Stored(calls[h].key)) => calls[h].key \in raced

\* KeyHasSecret alone is not inductive: a commit inserts the row of a key that
\* was stored before, and a failing one takes back the secret of another's row.
SecretInv == KeyHasSecret /\ StoringHasSecret /\ StoringMet

\* A request that stores or erases is as it was before the step.
GoesOn == \A g \in Handlers : calls'[g].pc \in {"storing", "erasing"} => calls'[g] = calls[g]

\* Changing one request to one that does neither leaves the others.
LEMMA OtherCallGoesOn ==
  ASSUME KeysTypeOK, NEW h \in Handlers, NEW c, c.pc \notin {"storing", "erasing"},
         calls' = calls \/ calls' = [calls EXCEPT ![h] = c]
  PROVE  GoesOn
BY DEF GoesOn, KeysTypeOK

\* Only the beginning of a storage or of an erasure adds such a request.
LEMMA RequestsGoOn ==
  ASSUME KeysTypeOK, [KeysNext]_keyVars,
         \A h \in Handlers, e \in Events : ~EraseSecrets(h, e) /\ \A k \in Keys : ~Store(h, e, k)
  PROVE  GoesOn
<1>1. ASSUME NEW h \in Handlers, Done(h) PROVE GoesOn
  BY <1>1, IdlePc, OtherCallGoesOn DEF Done
<1>2. ASSUME NEW h \in Handlers, NEW e \in Events, NEW k, NEW pc \in {"start", "status"},
             calls' = [calls EXCEPT ![h] = Opened(pc, e, k)]
      PROVE  GoesOn
  <2>1. Opened(pc, e, k).pc = pc
    BY DEF Opened, Idle
  <2> QED BY <1>2, <2>1, OtherCallGoesOn
<1>3. ASSUME NEW h \in Handlers, NEW e \in Events, PingAsks(h, e) PROVE GoesOn
  <2> DEFINE c == [Idle EXCEPT !.pc = "ping", !.event = e, !.server = binding[e]]
  <2>1. calls' = [calls EXCEPT ![h] = c] /\ c.pc = "ping"
    BY <1>3 DEF PingAsks, Open, Idle
  <2> HIDE DEF c
  <2> QED BY <2>1, OtherCallGoesOn
<1>4. ASSUME NEW h \in Handlers, StoreCommits(h) PROVE GoesOn
  <2>1. PICK i : calls' = [calls EXCEPT ![h] = Inserted(calls[h], {i})]
    BY <1>4 DEF StoreCommits
  <2>2. Inserted(calls[h], {i}).pc = "refreshing"
    BY DEF Inserted, Idle
  <2> QED BY <2>1, <2>2, OtherCallGoesOn
<1>11. ASSUME NEW h \in Handlers, StoreRefreshed(h) PROVE GoesOn
  <2> DEFINE c == [Idle EXCEPT !.pc = "binding", !.event = calls[h].event, !.ids = calls[h].ids]
  <2>1. calls' = [calls EXCEPT ![h] = c] /\ c.pc = "binding"
    BY <1>11 DEF StoreRefreshed, Idle
  <2> HIDE DEF c
  <2> QED BY <2>1, OtherCallGoesOn
<1>5. ASSUME NEW h \in Handlers, EnrolStarted(h) PROVE GoesOn
  <2>1. CASE calls' = [calls EXCEPT ![h].pc = "proof", ![h].got = "none"]
    BY <2>1 DEF GoesOn, KeysTypeOK, Call
  <2> QED BY <1>1, <1>5, <2>1 DEF EnrolStarted
<1>6. ASSUME NEW h \in Handlers, ServerStarts(h) \/ ServerTakesProof(h) \/ ServerReports(h)
      PROVE  GoesOn
  BY <1>6 DEF ServerStarts, ServerTakesProof, ServerReports, Answered, Answer, GoesOn, KeysTypeOK, Call
<1>7. CASE Crash
  BY <1>7 DEF Crash, GoesOn, Idle
<1>8. CASE UNCHANGED calls
  BY <1>8 DEF GoesOn
<1>9. ASSUME NEW h \in Handlers,
             \/ StoreFails(h) \/ StoreNotRefreshed(h) \/ StoreBinds(h)
              \/ EnrolSubmitted(h) \/ RefreshAnswered(h)
             \/ PingAnswered(h) \/ RequestFails(h) \/ EraseCommits(h)
      PROVE  GoesOn
  BY <1>1, <1>9 DEF StoreFails, StoreNotRefreshed, StoreBinds, EnrolSubmitted, RefreshAnswered, PingAnswered,
                    RequestFails, EraseCommits
<1>10. ASSUME NEW h \in Handlers, NEW e \in Events,
              RefreshAsks(h, e) \/ \E k \in Keys : EnrolAsks(h, e, k)
       PROVE  GoesOn
  BY <1>2, <1>10 DEF RefreshAsks, EnrolAsks, Open
<1> QED
  BY <1>3, <1>4, <1>5, <1>6, <1>7, <1>8, <1>9, <1>10, <1>11
  DEF KeysNext, keyVars, RetireKey, RootDecides, Reconnect

\* Only the commit of a storage inserts a row, and no step changes the id of one.
LEMMA RowsGoOn ==
  ASSUME KeysTypeOK, [KeysNext]_keyVars, \A h \in Handlers : ~StoreCommits(h)
  PROVE  /\ \A k \in Keys : Stored(k)' => Stored(k) /\ rows'[k].id = rows[k].id
         /\ reused' = reused
<1> DEFINE Kept == /\ \A k \in Keys : Stored(k)' => Stored(k) /\ rows'[k].id = rows[k].id
                   /\ reused' = reused
<1>1. CASE UNCHANGED <<rows, reused>>
  BY <1>1 DEF Stored
<1>2. ASSUME NEW h \in Handlers,
             StoreBinds(h) \/ EnrolSubmitted(h) \/ RefreshAnswered(h) \/ EraseCommits(h)
      PROVE  Kept
  BY <1>2, RowsKeepIds DEF StoreBinds, EnrolSubmitted, RefreshAnswered, EraseCommits, States
<1>3. ASSUME NEW h \in Handlers, EnrolStarted(h) PROVE Kept
  <2>1. reused' = reused /\ (UNCHANGED rows \/ rows' = Written(calls[h], "active"))
    BY <1>3 DEF EnrolStarted
  <2> QED BY <1>1, <2>1, RowsKeepIds DEF States
<1>4. ASSUME NEW k \in Keys, RetireKey(k) PROVE Kept
  BY <1>4, IdleType, RowsKeepIds, KeyNullAssumption DEF RetireKey, KeysTypeOK, Stored, Row
<1> QED
  BY <1>1, <1>2, <1>3, <1>4
  DEF KeysNext, keyVars, Store, EnrolAsks, RefreshAsks, PingAsks, EraseSecrets, StoreFails, PingAnswered,
      StoreRefreshed, StoreNotRefreshed,
      RequestFails, ServerStarts, ServerTakesProof, ServerReports, RootDecides, Reconnect, Crash

\* Only storing, failing to and erasing touch the credential store.
LEMMA SecretsGoOn ==
  ASSUME [KeysNext]_keyVars,
         \A h \in Handlers : /\ ~StoreFails(h) /\ ~StoreNotRefreshed(h)
                             /\ \A e \in Events : ~EraseSecrets(h, e) /\ \A k \in Keys : ~Store(h, e, k)
  PROVE  UNCHANGED <<secrets, wiped, raced>>
BY DEF KeysNext, keyVars, EnrolAsks, RefreshAsks, PingAsks, StoreCommits, StoreRefreshed, StoreBinds, EnrolStarted,
       EnrolSubmitted, RefreshAnswered, PingAnswered, RequestFails, EraseCommits, ServerStarts,
       ServerTakesProof, ServerReports, RetireKey, RootDecides, Reconnect, Crash

\* The three parts are kept by a step that adds no request and no row, and takes
\* no private half away.
LEMMA SecretKept ==
  ASSUME SecretInv, GoesOn, \A k \in Keys : Stored(k)' => Stored(k), KeysTypeOK, CallNamesKey,
         secrets \cup wiped \subseteq secrets' \cup wiped', raced \subseteq raced'
  PROVE  SecretInv'
BY DEF SecretInv, KeyHasSecret, StoringHasSecret, StoringMet, GoesOn, CallNamesKey

\* Every step keeps them.
LEMMA SecretStep ==
  KeysTypeOK /\ CallNamesKey /\ SecretInv /\ [KeysNext]_keyVars => SecretInv'
<1> SUFFICES ASSUME KeysTypeOK, CallNamesKey, SecretInv, [KeysNext]_keyVars PROVE SecretInv'
  OBVIOUS
<1>1. ASSUME NEW h \in Handlers, NEW e \in Events, NEW k \in Keys, Store(h, e, k)
      PROVE  SecretInv'
  <2> DEFINE c == [Idle EXCEPT !.pc = "storing", !.key = k, !.event = e, !.ref = evidence[e]]
  <2>1. calls' = [calls EXCEPT ![h] = c] /\ c.pc = "storing" /\ c.key = k
    BY <1>1 DEF Store, Open, Idle
  <2>2. /\ secrets' = secrets \cup {k} /\ wiped' = wiped \ {k} /\ rows' = rows /\ ~Stored(k)
        /\ raced \subseteq raced'
        /\ BeingStored(h, k) => k \in raced'
    BY <1>1 DEF Store
  <2> HIDE DEF c
  <2>3. KeyHasSecret' /\ StoringHasSecret'
    BY <2>1, <2>2 DEF SecretInv, KeyHasSecret, StoringHasSecret, Stored, KeysTypeOK
  <2>4. StoringMet'
    BY <2>1, <2>2 DEF SecretInv, StoringMet, BeingStored, Stored, KeysTypeOK
  <2> QED BY <2>3, <2>4 DEF SecretInv
<1>2. ASSUME NEW h \in Handlers, StoreCommits(h) PROVE SecretInv'
  <2>1. /\ calls[h].pc = "storing" /\ calls'[h].pc = "refreshing"
        /\ \A g \in Handlers \ {h} : calls'[g] = calls[g]
    BY <1>2 DEF StoreCommits, Inserted, Idle, KeysTypeOK
  <2>2. \A k \in Keys \ {calls[h].key} : rows'[k] = rows[k]
    BY <1>2 DEF StoreCommits, KeysTypeOK
  <2>3. UNCHANGED <<secrets, wiped, raced>>
    BY <1>2 DEF StoreCommits
  <2>4. KeyHasSecret' /\ StoringHasSecret'
    BY <2>1, <2>2, <2>3 DEF SecretInv, KeyHasSecret, StoringHasSecret, Stored
  <2>5. StoringMet'
    BY <2>1, <2>2, <2>3 DEF SecretInv, StoringMet, Stored, CallNamesKey
  <2> QED BY <2>4, <2>5 DEF SecretInv
<1>3. ASSUME NEW h \in Handlers, StoreFails(h) PROVE SecretInv'
  <2>1. /\ calls[h].pc = "storing" /\ calls'[h].pc = "idle"
        /\ \A g \in Handlers \ {h} : calls'[g] = calls[g]
    BY <1>3, IdlePc DEF StoreFails, Done, KeysTypeOK
  <2>2. secrets' = secrets \ {calls[h].key} /\ UNCHANGED <<rows, wiped, raced>>
    BY <1>3 DEF StoreFails
  <2>3. KeyHasSecret' /\ StoringHasSecret'
    BY <2>1, <2>2 DEF SecretInv, KeyHasSecret, StoringHasSecret, StoringMet, Stored
  <2>4. StoringMet'
    BY <2>1, <2>2 DEF SecretInv, StoringMet, Stored
  <2> QED BY <2>3, <2>4 DEF SecretInv
<1>4. ASSUME NEW h \in Handlers, NEW e \in Events, EraseSecrets(h, e) PROVE SecretInv'
  <2> DEFINE c == [Idle EXCEPT !.pc = "erasing", !.ids = IdsOf(KeysOf(e))]
  <2>1. (calls' = calls \/ calls' = [calls EXCEPT ![h] = c]) /\ c.pc = "erasing"
    BY <1>4 DEF EraseSecrets, Open, Idle
  <2> HIDE DEF c
  <2>2. \A g \in Handlers : calls'[g].pc = "storing" => calls'[g] = calls[g]
    BY <2>1 DEF KeysTypeOK
  <2>3. secrets \cup wiped \subseteq secrets' \cup wiped' /\ UNCHANGED <<rows, raced>>
    BY <1>4 DEF EraseSecrets
  <2> QED
    BY <2>2, <2>3 DEF SecretInv, KeyHasSecret, StoringHasSecret, StoringMet, Stored, CallNamesKey
<1>5. CASE \A h \in Handlers :
             /\ ~StoreCommits(h) /\ ~StoreFails(h) /\ ~StoreNotRefreshed(h)
             /\ \A e \in Events : ~EraseSecrets(h, e) /\ \A k \in Keys : ~Store(h, e, k)
  BY <1>5, RequestsGoOn, RowsGoOn, SecretsGoOn, SecretKept
<1>6. ASSUME NEW h \in Handlers, StoreNotRefreshed(h) PROVE SecretInv'
  <2>1. /\ secrets \cup wiped \subseteq secrets' \cup wiped' /\ UNCHANGED <<rows, raced>>
        /\ Done(h)
    BY <1>6 DEF StoreNotRefreshed
  <2>2. GoesOn
    BY <2>1, IdlePc, OtherCallGoesOn DEF Done
  <2> QED BY <2>1, <2>2, SecretKept DEF Stored
<1> QED BY <1>1, <1>2, <1>3, <1>4, <1>5, <1>6

\* Every key of the list can sign, whatever imports, failures of the database,
\* erasures and crashes come between.
THEOREM KeysHaveSecrets == KeysSpec => []KeyHasSecret
<1>1. KeysInit => SecretInv
  BY DEF KeysInit, SecretInv, KeyHasSecret, StoringHasSecret, StoringMet, Stored, Idle
<1>2. SecretInv => KeyHasSecret
  BY DEF SecretInv
<1> QED BY <1>1, <1>2, SecretStep, KeysTypeCorrect, PTL DEF KeysSpec

-----------------------------------------------------------------------------
(* An erasure claims what it did *)

\* An erasure at work has taken the private halves of the rows it will delete,
\* those that got one of its ids since excepted.
ErasingInv ==
  \A h \in Handlers, k \in Keys :
    (calls[h].pc = "erasing" /\ Stored(k) /\ rows[k].id \in calls[h].ids)
      => k \notin secrets \/ k \in reused

\* Every step keeps it.
LEMMA ErasingStep ==
  KeysTypeOK /\ CallNamesKey /\ IdsDistinct /\ ErasingInv /\ [KeysNext]_keyVars => ErasingInv'
<1> SUFFICES ASSUME KeysTypeOK, CallNamesKey, IdsDistinct, ErasingInv, [KeysNext]_keyVars
             PROVE  ErasingInv'
  OBVIOUS
<1>1. ASSUME NEW h \in Handlers, NEW e \in Events, NEW k \in Keys, Store(h, e, k)
      PROVE  ErasingInv'
  <2> DEFINE c == [Idle EXCEPT !.pc = "storing", !.key = k, !.event = e, !.ref = evidence[e]]
  <2>1. calls' = [calls EXCEPT ![h] = c] /\ c.pc = "storing"
    BY <1>1 DEF Store, Open, Idle
  <2>2. secrets' = secrets \cup {k} /\ UNCHANGED <<rows, reused>> /\ ~Stored(k)
    BY <1>1 DEF Store
  <2> HIDE DEF c
  <2> QED BY <2>1, <2>2 DEF ErasingInv, Stored, KeysTypeOK
<1>2. ASSUME NEW h \in Handlers, StoreCommits(h) PROVE ErasingInv'
  <2> DEFINE key == calls[h].key
  <2>1. /\ calls'[h].pc = "refreshing" /\ \A g \in Handlers \ {h} : calls'[g] = calls[g]
        /\ secrets' = secrets
    BY <1>2 DEF StoreCommits, Inserted, Idle, KeysTypeOK
  <2>2. PICK i : /\ rows' = [rows EXCEPT ![key] =
                               [id |-> i, event |-> NoEvent, ref |-> calls[h].ref, state |-> "pending"]]
                 /\ reused' = IF \E g \in Handlers : i \in calls[g].ids THEN reused \cup {key} ELSE reused
    BY <1>2 DEF StoreCommits
  <2>3. key \in Keys
    BY <1>2 DEF StoreCommits, CallNamesKey
  <2>4. \A k \in Keys : IF k = key THEN rows'[k].id = i ELSE rows'[k] = rows[k]
    BY <2>2, <2>3 DEF KeysTypeOK
  <2> QED BY <2>1, <2>2, <2>4 DEF ErasingInv, Stored
<1>3. ASSUME NEW h \in Handlers, StoreFails(h) \/ StoreNotRefreshed(h) PROVE ErasingInv'
  <2>1. GoesOn /\ secrets' \subseteq secrets /\ UNCHANGED <<rows, reused>>
    BY <1>3, IdlePc, OtherCallGoesOn DEF StoreFails, StoreNotRefreshed, Done
  <2> QED BY <2>1 DEF ErasingInv, GoesOn, Stored
<1>4. ASSUME NEW h \in Handlers, NEW e \in Events, EraseSecrets(h, e) PROVE ErasingInv'
  <2> DEFINE c == [Idle EXCEPT !.pc = "erasing", !.ids = IdsOf(KeysOf(e))]
  <2>1. UNCHANGED <<rows, reused>> /\ secrets' \subseteq secrets
    BY <1>4 DEF EraseSecrets
  <2>2. CASE secrets' = secrets \ KeysOf(e) /\ calls' = [calls EXCEPT ![h] = c]
    <3>1. c.ids = IdsOf(KeysOf(e))
      BY DEF Idle
    <3>2. \A k \in Keys : Stored(k) /\ rows[k].id \in c.ids => k \in KeysOf(e)
      BY <3>1 DEF IdsOf, KeysOf, IdsDistinct
    <3> HIDE DEF c
    <3> QED BY <2>1, <2>2, <3>2 DEF ErasingInv, Stored, KeysTypeOK
  <2>3. CASE UNCHANGED calls
    BY <2>1, <2>3 DEF ErasingInv, Stored
  <2> QED BY <1>4, <2>2, <2>3 DEF EraseSecrets, Open
<1>5. CASE \A h \in Handlers :
             /\ ~StoreCommits(h) /\ ~StoreFails(h) /\ ~StoreNotRefreshed(h)
             /\ \A e \in Events : ~EraseSecrets(h, e) /\ \A k \in Keys : ~Store(h, e, k)
  BY <1>5, RequestsGoOn, RowsGoOn, SecretsGoOn DEF ErasingInv, GoesOn
<1> QED BY <1>1, <1>2, <1>3, <1>4, <1>5

\* A row disappears only in the commit of an erasure.
LEMMA OnlyErasureDeletes ==
  ASSUME KeysTypeOK, CallNamesKey, ErasingInv, [KeysNext]_keyVars
  PROVE  ErasureIsTrue
<1>1. ASSUME NEW h \in Handlers, EraseCommits(h) PROVE ErasureIsTrue
  BY <1>1 DEF EraseCommits, Without, ErasingInv, ErasureIsTrue, Stored, KeysTypeOK
<1>2. ASSUME \A k \in Keys : Stored(k) => rows'[k] # NoRow PROVE ErasureIsTrue
  BY <1>2 DEF ErasureIsTrue
<1>3. ASSUME NEW h \in Handlers, StoreCommits(h) PROVE ErasureIsTrue
  BY <1>2, <1>3 DEF StoreCommits, KeysTypeOK, Stored
<1>4. ASSUME NEW r, r \in Row PROVE /\ \A s \in States : [r EXCEPT !.state = s] # NoRow
                                    /\ \A e \in Events : [r EXCEPT !.event = e] # NoRow
  BY <1>4, KeyNullAssumption DEF Row
<1>5. \A k \in Keys : Stored(k) => rows[k] \in Row
  BY DEF Stored, KeysTypeOK
<1>6. ASSUME NEW c, NEW s \in States, rows' = Written(c, s) PROVE ErasureIsTrue
  BY <1>2, <1>4, <1>5, <1>6 DEF Written, Stored
<1>7. ASSUME NEW h \in Handlers, EnrolStarted(h) \/ EnrolSubmitted(h) PROVE ErasureIsTrue
  BY <1>2, <1>6, <1>7 DEF EnrolStarted, EnrolSubmitted, States, Stored
<1>8. ASSUME NEW h \in Handlers, RefreshAnswered(h) PROVE ErasureIsTrue
  BY <1>2, <1>4, <1>5, <1>8 DEF RefreshAnswered, Marked, States, Stored
<1>9. ASSUME NEW h \in Handlers, StoreBinds(h) PROVE ErasureIsTrue
  BY <1>2, <1>4, <1>5, <1>9 DEF StoreBinds, CallNamesKey, Stored
<1>10. ASSUME NEW k \in Keys, RetireKey(k) PROVE ErasureIsTrue
  BY <1>2, <1>4, <1>5, <1>10 DEF RetireKey, States, Stored, KeysTypeOK
<1>11. CASE UNCHANGED rows
  BY <1>2, <1>11 DEF Stored
<1> QED
  BY <1>1, <1>3, <1>7, <1>8, <1>9, <1>10, <1>11
  DEF KeysNext, keyVars, Store, EnrolAsks, RefreshAsks, PingAsks, EraseSecrets, StoreFails, PingAnswered,
      StoreRefreshed, StoreNotRefreshed,
      RequestFails, ServerStarts, ServerTakesProof, ServerReports, RootDecides, Reconnect, Crash

\* The row of a key goes only when its private half has gone, through failures
\* of the credential store, crashes and ids that are given out again.
THEOREM ErasuresAreTrue == KeysSpec => ErasureClaimsAreTrue
<1>1. KeysInit => ApprovedInv /\ ErasingInv
  BY InitApproved DEF KeysInit, ErasingInv, Idle
<1>2. ApprovedInv => IdsDistinct
  BY DEF ApprovedInv, IdsInv
<1>3. KeysTypeOK /\ CallNamesKey /\ ErasingInv /\ [KeysNext]_keyVars => [ErasureIsTrue]_keyVars
  BY OnlyErasureDeletes
<1> QED
  BY <1>1, <1>2, <1>3, ApprovedStep, ErasingStep, KeysTypeCorrect, PTL
  DEF KeysSpec, ErasureClaimsAreTrue

-----------------------------------------------------------------------------
(* An active key is not taken back to pending *)

\* An enrolment that had loaded an active key is about a key that the root had
\* approved, and never gets a challenge to answer: ids given out again excepted.
LoadedTrue(c) ==
  /\ (c.pc \in {"start", "proof"} /\ c.loaded = "active") => c.key \in approved \cup reused
  /\ (c.pc = "start" /\ c.got = "challenge" /\ c.loaded = "active") => c.key \in reused
  /\ (c.pc = "proof" /\ c.loaded = "active") => c.key \in reused
  /\ c.pc = "proof" => c.loaded \in {"pending", "active"}

\* The server does not issue challenges for a key that it has decided on.
Decided == \A k \in approved : server[k].state \in {"active", "revoked"}
LoadedInv == Decided /\ \A h \in Handlers : LoadedTrue(calls[h])

\* What was approved stays decided.
LEMMA DecidedStep ==
  KeysTypeOK /\ CallNamesKey /\ Decided /\ [KeysNext]_keyVars => Decided'
<1> SUFFICES ASSUME KeysTypeOK, CallNamesKey, Decided, [KeysNext]_keyVars PROVE Decided'
  OBVIOUS
<1>1. CASE UNCHANGED <<server, approved>>
  BY <1>1 DEF Decided
<1>2. ASSUME NEW h \in Handlers, ServerStarts(h) \/ ServerTakesProof(h) PROVE Decided'
  <2>1. calls[h].key \in Keys /\ UNCHANGED approved /\ approved \subseteq Keys
    BY <1>2 DEF ServerStarts, ServerTakesProof, Answered, CallNamesKey, KeysTypeOK
  <2>2. \/ server' = server
        \/ /\ server[calls[h].key].state \notin {"active", "revoked"}
           /\ \A k \in Keys \ {calls[h].key} : server'[k] = server[k]
    BY <1>2, <2>1 DEF ServerStarts, ServerTakesProof, KeysTypeOK, KnownKey
  <2> QED BY <2>1, <2>2 DEF Decided
<1>3. ASSUME NEW k \in Keys, RootDecides(k) PROVE Decided'
  BY <1>3 DEF RootDecides, Decided, KeysTypeOK, KnownKey
<1> QED
  BY <1>1, <1>2, <1>3
  DEF KeysNext, keyVars, Store, EnrolAsks, RefreshAsks, PingAsks, EraseSecrets, StoreCommits, StoreFails,
      StoreRefreshed, StoreNotRefreshed,
      StoreBinds, EnrolStarted, EnrolSubmitted, RefreshAnswered, PingAnswered, RequestFails, EraseCommits,
      ServerReports, RetireKey, Reconnect, Crash

\* The history of a key only grows.
LEMMA HistoryGrows ==
  ASSUME [KeysNext]_keyVars
  PROVE  approved \subseteq approved' /\ reused \subseteq reused'
BY DEF KeysNext, keyVars, Store, EnrolAsks, RefreshAsks, PingAsks, EraseSecrets, StoreCommits, StoreFails,
      StoreRefreshed, StoreNotRefreshed,
       StoreBinds, EnrolStarted, EnrolSubmitted, RefreshAnswered, PingAnswered, RequestFails, EraseCommits,
       ServerStarts, ServerTakesProof, ServerReports, RetireKey, RootDecides, Reconnect, Crash

\* A record that is not an enrolment's has loaded nothing untrue; nor has one of
\* an enrolment that goes on with what it had.
LEMMA LoadedKept ==
  ASSUME [KeysNext]_keyVars, KeysTypeOK, LoadedInv, NEW h \in Handlers, NEW c,
         calls' = calls \/ calls' = [calls EXCEPT ![h] = c],
         c.pc \in {"start", "proof"} => LoadedTrue(c)
  PROVE  \A g \in Handlers : LoadedTrue(calls[g])'
BY HistoryGrows DEF LoadedInv, LoadedTrue, KeysTypeOK

\* Every step keeps it.
LEMMA LoadedStep ==
  KeysTypeOK /\ CallNamesKey /\ ActiveWasApproved /\ LoadedInv /\ [KeysNext]_keyVars => LoadedInv'
<1> SUFFICES ASSUME KeysTypeOK, CallNamesKey, ActiveWasApproved, LoadedInv, [KeysNext]_keyVars
             PROVE  \A g \in Handlers : LoadedTrue(calls[g])'
  BY DecidedStep DEF LoadedInv
<1> DEFINE Goal == \A g \in Handlers : LoadedTrue(calls[g])'
<1>1. ASSUME NEW h \in Handlers, Done(h) PROVE Goal
  BY <1>1, IdlePc, LoadedKept DEF Done
<1>2. ASSUME NEW h \in Handlers, NEW e \in Events, NEW k \in Keys, Store(h, e, k) PROVE Goal
  <2> DEFINE c == [Idle EXCEPT !.pc = "storing", !.key = k, !.event = e, !.ref = evidence[e]]
  <2>1. calls' = [calls EXCEPT ![h] = c] /\ c.pc = "storing"
    BY <1>2 DEF Store, Open, Idle
  <2> HIDE DEF c
  <2> QED BY <2>1, LoadedKept
<1>3. ASSUME NEW h \in Handlers, NEW e \in Events, NEW k \in Keys, EnrolAsks(h, e, k) PROVE Goal
  <2> DEFINE c == Opened("start", e, k)
  <2>1. calls' = [calls EXCEPT ![h] = c] /\ Stored(k)
    BY <1>3 DEF EnrolAsks, Open
  <2>2. c.pc = "start" /\ c.key = k /\ c.loaded = rows[k].state /\ c.got = "none"
    BY KeyNullAssumption DEF Opened, Idle
  <2>3. LoadedTrue(c)
    BY <2>1, <2>2 DEF LoadedTrue, ActiveWasApproved
  <2> HIDE DEF c
  <2> QED BY <2>1, <2>3, LoadedKept
<1>4. ASSUME NEW h \in Handlers, NEW e \in Events, RefreshAsks(h, e) PROVE Goal
  <2> DEFINE c == Opened("status", e, NoKey)
  <2>1. calls' = [calls EXCEPT ![h] = c] /\ c.pc = "status"
    BY <1>4 DEF RefreshAsks, Open, Opened, Idle
  <2> HIDE DEF c
  <2> QED BY <2>1, LoadedKept
<1>5. ASSUME NEW h \in Handlers, NEW e \in Events, PingAsks(h, e) PROVE Goal
  <2> DEFINE c == [Idle EXCEPT !.pc = "ping", !.event = e, !.server = binding[e]]
  <2>1. calls' = [calls EXCEPT ![h] = c] /\ c.pc = "ping"
    BY <1>5 DEF PingAsks, Open, Idle
  <2> HIDE DEF c
  <2> QED BY <2>1, LoadedKept
<1>6. ASSUME NEW h \in Handlers, NEW e \in Events, EraseSecrets(h, e) PROVE Goal
  <2> DEFINE c == [Idle EXCEPT !.pc = "erasing", !.ids = IdsOf(KeysOf(e))]
  <2>1. (calls' = calls \/ calls' = [calls EXCEPT ![h] = c]) /\ c.pc = "erasing"
    BY <1>6 DEF EraseSecrets, Open, Idle
  <2> HIDE DEF c
  <2> QED BY <2>1, LoadedKept
<1>7. ASSUME NEW h \in Handlers, StoreCommits(h) PROVE Goal
  <2>1. PICK i \in NextIds :
          calls' = [calls EXCEPT ![h] = Inserted(calls[h], {i})]
    BY <1>7 DEF StoreCommits
  <2> DEFINE c == Inserted(calls[h], {i})
  <2>2. c.pc = "refreshing"
    BY DEF Inserted, Idle
  <2> HIDE DEF c
  <2>3. calls' = [calls EXCEPT ![h] = c]
    BY <2>1 DEF c
  <2> QED BY <2>2, <2>3, LoadedKept
<1>15. ASSUME NEW h \in Handlers, StoreRefreshed(h) PROVE Goal
  <2> DEFINE c == [Idle EXCEPT !.pc = "binding", !.event = calls[h].event, !.ids = calls[h].ids]
  <2>1. calls' = [calls EXCEPT ![h] = c] /\ c.pc = "binding"
    BY <1>15 DEF StoreRefreshed, Idle
  <2> HIDE DEF c
  <2> QED BY <2>1, LoadedKept
<1>8. ASSUME NEW h \in Handlers, EnrolStarted(h) PROVE Goal
  <2>1. CASE /\ calls[h].pc = "start" /\ calls[h].got = "challenge"
             /\ calls[h].loaded \in {"pending", "active"}
             /\ calls' = [calls EXCEPT ![h].pc = "proof", ![h].got = "none"]
    <3> DEFINE c == [calls[h] EXCEPT !.pc = "proof", !.got = "none"]
    <3>1. /\ calls' = [calls EXCEPT ![h] = c] /\ c.pc = "proof" /\ c.loaded = calls[h].loaded
          /\ c.key = calls[h].key
      BY <2>1 DEF KeysTypeOK, Call
    <3>2. LoadedTrue(c)
      BY <2>1, <3>1 DEF LoadedInv, LoadedTrue
    <3> HIDE DEF c
    <3> QED BY <3>1, <3>2, LoadedKept
  <2> QED BY <1>1, <1>8, <2>1 DEF EnrolStarted
<1>9. ASSUME NEW h \in Handlers, ServerStarts(h) PROVE Goal
  <2>1. PICK got \in {"active", "challenge"} :
          /\ calls' = [calls EXCEPT ![h] = [calls[h] EXCEPT !.got = got]]
          /\ got = "challenge" => server[calls[h].key].state \in {"unknown", "challenged", "proven"}
    BY <1>9 DEF ServerStarts, Answer, KeysTypeOK
  <2> DEFINE c == [calls[h] EXCEPT !.got = got]
  <2>2. /\ calls[h].pc = "start" /\ c.pc = "start" /\ c.loaded = calls[h].loaded
        /\ c.key = calls[h].key /\ c.got = got
    BY <1>9 DEF ServerStarts, Answered, KeysTypeOK, Call
  <2>3. LoadedTrue(c)
    BY <2>1, <2>2 DEF LoadedInv, LoadedTrue, Decided
  <2> HIDE DEF c
  <2>4. calls' = [calls EXCEPT ![h] = c]
    BY <2>1 DEF c
  <2> QED BY <2>3, <2>4, LoadedKept
<1>10. ASSUME NEW h \in Handlers, ServerTakesProof(h) PROVE Goal
  <2> DEFINE c == [calls[h] EXCEPT !.got = "ok"]
  <2>1. /\ calls' = [calls EXCEPT ![h] = c] /\ calls[h].pc = "proof" /\ c.pc = "proof"
        /\ c.loaded = calls[h].loaded /\ c.key = calls[h].key
    BY <1>10 DEF ServerTakesProof, Answered, Answer, KeysTypeOK, Call
  <2>2. LoadedTrue(c)
    BY <2>1 DEF LoadedInv, LoadedTrue
  <2> HIDE DEF c
  <2> QED BY <2>1, <2>2, LoadedKept
<1>11. ASSUME NEW h \in Handlers, ServerReports(h) PROVE Goal
  <2> DEFINE c == [calls[h] EXCEPT !.got = "ok",
                     !.keys = {k \in Keys : server[k] = [state |-> "active", ref |-> calls[h].server]}]
  <2>1. calls' = [calls EXCEPT ![h] = c] /\ c.pc = "status"
    BY <1>11 DEF ServerReports, Answered, KeysTypeOK, Call
  <2> HIDE DEF c
  <2> QED BY <2>1, LoadedKept
<1>12. CASE Crash
  BY <1>12, IdlePc DEF Crash, LoadedTrue
<1>13. CASE UNCHANGED calls
  BY <1>13, HistoryGrows DEF LoadedInv, LoadedTrue
<1>14. ASSUME NEW h \in Handlers,
              \/ StoreFails(h) \/ StoreNotRefreshed(h) \/ StoreBinds(h)
              \/ EnrolSubmitted(h) \/ RefreshAnswered(h)
              \/ PingAnswered(h) \/ RequestFails(h) \/ EraseCommits(h)
       PROVE  Goal
  BY <1>1, <1>14 DEF StoreFails, StoreNotRefreshed, StoreBinds, EnrolSubmitted, RefreshAnswered, PingAnswered,
                     RequestFails, EraseCommits
<1> QED
  BY <1>2, <1>3, <1>4, <1>5, <1>6, <1>7, <1>8, <1>9, <1>10, <1>11, <1>12, <1>13, <1>14, <1>15
  DEF KeysNext, keyVars, RetireKey, RootDecides, Reconnect

\* Then a step writes "pending" over "active" nowhere.
LEMMA StepKeepsActive ==
  ASSUME KeysTypeOK, CallNamesKey, IdsInv, LoadedInv, [KeysNext]_keyVars
  PROVE  ActiveKept
<1>1. CASE UNCHANGED rows
  BY <1>1 DEF ActiveKept
<1>2. ASSUME NEW h \in Handlers, StoreCommits(h) PROVE ActiveKept
  BY <1>2 DEF StoreCommits, ActiveKept, Stored, KeysTypeOK
<1>3. ASSUME NEW h \in Handlers, StoreBinds(h) PROVE ActiveKept
  BY <1>3 DEF StoreBinds, ActiveKept, Stored, KeysTypeOK, Row
<1>4. ASSUME NEW h \in Handlers, EraseCommits(h) PROVE ActiveKept
  BY <1>4 DEF EraseCommits, Without, ActiveKept, Stored, KeysTypeOK
<1>5. ASSUME NEW h \in Handlers, EnrolSubmitted(h) PROVE ActiveKept
  <2> SUFFICES ASSUME NEW k \in Keys \ reused, Stored(k), rows[k].state = "active",
                      rows'[k].state = "pending"
               PROVE  FALSE
    BY DEF ActiveKept
  <2>1. calls[h].pc = "proof" /\ rows' = Written(calls[h], "pending")
    BY <1>5 DEF EnrolSubmitted
  <2>2. rows[k].id \in calls[h].ids /\ calls[h].loaded # "pending"
    BY <2>1 DEF Written
  <2>3. k = calls[h].key
    BY <2>1, <2>2 DEF IdsInv, IdsLead
  <2> QED BY <2>1, <2>2, <2>3 DEF LoadedInv, LoadedTrue
<1>6. ASSUME NEW h \in Handlers, EnrolStarted(h) PROVE ActiveKept
  BY <1>1, <1>6 DEF EnrolStarted, Written, ActiveKept, Stored, KeysTypeOK, Row
<1>7. ASSUME NEW h \in Handlers, RefreshAnswered(h) PROVE ActiveKept
  BY <1>7 DEF RefreshAnswered, Marked, ActiveKept, Stored, KeysTypeOK, Row
<1>8. ASSUME NEW k \in Keys, RetireKey(k) PROVE ActiveKept
  BY <1>8 DEF RetireKey, ActiveKept, Stored, KeysTypeOK, Row
<1> QED
  BY <1>1, <1>2, <1>3, <1>4, <1>5, <1>6, <1>7, <1>8
  DEF KeysNext, keyVars, Store, EnrolAsks, RefreshAsks, PingAsks, EraseSecrets, StoreFails, PingAnswered,
      StoreRefreshed, StoreNotRefreshed,
      RequestFails, ServerStarts, ServerTakesProof, ServerReports, RootDecides, Reconnect, Crash

\* An enrolment that ends late, whatever was refreshed, approved or erased since
\* it began, leaves an active key active.
THEOREM ActiveKeysStay == KeysSpec => ActiveIsKept
<1>1. KeysInit => ApprovedInv /\ LoadedInv
  BY InitApproved DEF KeysInit, LoadedInv, Decided, LoadedTrue, Idle
<1>2. ApprovedInv => IdsInv /\ ActiveWasApproved
  BY DEF ApprovedInv, ToldInv
<1>3. KeysTypeOK /\ CallNamesKey /\ IdsInv /\ LoadedInv /\ [KeysNext]_keyVars => [ActiveKept]_keyVars
  BY StepKeepsActive
<1> QED
  BY <1>1, <1>2, <1>3, ApprovedStep, LoadedStep, KeysTypeCorrect, PTL
  DEF KeysSpec, ActiveIsKept
=============================================================================
