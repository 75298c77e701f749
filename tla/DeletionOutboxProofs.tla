------------------------ MODULE DeletionOutboxProofs ------------------------
(* Theorems about DeletionOutbox, for all sets of events, people, orders and *)
(* handlers, and any number of faults.                                       *)
EXTENDS DeletionOutbox, FiniteSetTheorems, WellFoundedInduction, TLAPS

\* The server holds the report and the resolution of a row as they stand in it.
Delivered(o, table, srv) ==
  /\ table[o] # NoRow /\ table[o].copy # "none"
  /\ srv[o].report = table[o].erased /\ srv[o].copy = table[o].copy

\* What a handler has in its session is true of the outbox and of the server,
\* however long it waited.
CallTrue(c, table, srv) ==
  /\ c.pc = "claim" => c.at \in Orders
  /\ c.pc \in {"report", "copy"} =>
       /\ c.at \in c.todo
       /\ \A o \in c.todo : table[o] # NoRow
       /\ \A o \in c.loaded : table[o] # NoRow /\ table[o].copy # "none"
       /\ \A o \in c.done : Delivered(o, table, srv)
  /\ (c.pc = "report" /\ c.answer = "ok") => srv[c.at].report = table[c.at].erased
  /\ c.pc = "copy" => c.at \in c.loaded /\ srv[c.at].report = table[c.at].erased
  /\ (c.pc = "copy" /\ c.answer = "ok") => Delivered(c.at, table, srv)

\* What the server holds of an order stands in its row; a row is closed when it
\* is delivered, its subject is gone, and the software resolved the copies of no
\* subject that has one at a provider.
OrderTrue(o) ==
  /\ server[o].report # NoReport => outbox[o] # NoRow /\ server[o].report = outbox[o].erased
  /\ server[o].copy # "none" => outbox[o] # NoRow /\ server[o].copy = outbox[o].copy
  /\ outbox[o] # NoRow =>
       /\ outbox[o].state = "sent" => Delivered(o, outbox, server)
       /\ o \notin restored =>
            IF SubjectOf[o] = WholeEvent THEN EventOf[o] \notin events ELSE SubjectOf[o] \notin people
       /\ (outbox[o].copy = "software" /\ SubjectOf[o] # WholeEvent) => outbox[o].erased \cap CopiedOut = {}

OutboxInv ==
  /\ OutboxTypeOK
  /\ \A h \in Handlers : CallTrue(calls[h], outbox, server)
  /\ \A o \in Orders : OrderTrue(o)

-----------------------------------------------------------------------------
(* Orders, ids and records *)

\* A set of natural numbers has a least element.
LEMMA LeastNatural ==
  ASSUME NEW S \in SUBSET Nat, S # {}
  PROVE  \E m \in S : \A n \in S : m <= n
<1> DEFINE R == {ss \in Nat \X Nat : ss[1] < ss[2]}
<1>1. IsWellFoundedOn(R, Nat)
  BY NatLessThanWellFounded DEF OpToRel
<1>2. PICK m \in S : \A n \in S : ~(<<n, m>> \in R)
  <2> HIDE DEF R
  <2> QED BY <1>1, WFMin
<1>3. \A n \in S : <<n, m>> \in R <=> n < m
  OBVIOUS
<1>4. \A n \in S : ~(n < m)
  BY <1>2, <1>3
<1> QED BY <1>4

\* So the row that a flush delivers next is one of those it has to do.
LEMMA FirstIsOne ==
  ASSUME NEW S, S # {}, NEW table, \A o \in S : table[o].id \in Nat
  PROVE  FirstOf(S, table) \in S
<1> DEFINE Ids == {table[o].id : o \in S}
<1>1. PICK m \in Ids : \A n \in Ids : m <= n
  <2>1. Ids \in SUBSET Nat /\ Ids # {}
    OBVIOUS
  <2> HIDE DEF Ids
  <2> QED BY <2>1, LeastNatural
<1>2. \E o \in S : \A p \in S : table[o].id <= table[p].id
  BY <1>1
<1> QED BY <1>2 DEF FirstOf

\* The id of a new row is one more than the number of rows there are.
LEMMA NewId ==
  ASSUME NEW o \in Orders, outbox[o] = NoRow
  PROVE  Cardinality(Staged(outbox)) + 1 \in 1 .. Cardinality(Orders)
<1> DEFINE S == Staged(outbox)
<1>1. S \cup {o} \subseteq Orders /\ o \notin S
  BY DEF Staged
<1>2. IsFiniteSet(S \cup {o}) /\ IsFiniteSet(S)
  BY <1>1, FiniteAssumption, FS_Subset
<1>3. Cardinality(S \cup {o}) <= Cardinality(Orders)
  BY <1>1, FiniteAssumption, FS_Subset
<1>4. Cardinality(S \cup {o}) = Cardinality(S) + 1
  BY <1>1, <1>2, FS_AddElement
<1>5. Cardinality(S) \in Nat /\ Cardinality(Orders) \in Nat
  BY <1>2, FiniteAssumption, FS_CardinalityType
<1> QED BY <1>3, <1>4, <1>5

\* An idle handler has a well-formed record that claims nothing.
LEMMA IdleIsTrue ==
  Idle \in Call /\ Idle.pc = "idle" /\ \A table, srv : CallTrue(Idle, table, srv)
BY DEF Idle, Call, CallTrue

\* A handler that lists the orders of an event, too.
LEMMA AfterFlushIsTrue ==
  ASSUME OutboxTypeOK, NEW e, NEW then, NEW table, NEW srv
  PROVE  AfterFlush(e, then) \in Call /\ CallTrue(AfterFlush(e, then), table, srv)
<1> DEFINE c == [Idle EXCEPT !.pc = "list", !.event = e]
<1>1. e \in events => c \in Call
  BY IdleIsTrue DEF Call, OutboxTypeOK
<1>2. c.pc = "list"
  BY DEF Idle
<1>3. CallTrue(c, table, srv)
  <2> HIDE DEF c
  <2> QED BY <1>2 DEF CallTrue
<1> QED BY <1>1, <1>3, IdleIsTrue DEF AfterFlush

\* A flush that begins has loaded what the outbox holds.
LEMMA FlushIsTrue ==
  ASSUME OutboxTypeOK, NEW e \in Events \cup {NoEvent}, NEW then \in {"list", "end"},
         NEW table \in [Orders -> Row \cup {NoRow}], NEW srv
  PROVE  Flush(e, then, table) \in Call /\ CallTrue(Flush(e, then, table), table, srv)
<1> DEFINE rows == Pending(table)
           loaded == {o \in rows : table[o].copy # "none"}
           first == FirstOf(rows, table)
           c == [pc |-> "report", event |-> e, at |-> first, todo |-> rows,
                 loaded |-> loaded, done |-> {}, then |-> then, answer |-> "none"]
<1>1. CASE rows = {}
  BY <1>1, AfterFlushIsTrue DEF Flush
<1>2. CASE rows # {}
  <2>1. rows \subseteq Orders /\ loaded \subseteq rows /\ \A o \in rows : table[o] # NoRow
    BY DEF Pending, Staged
  <2>2. \A o \in rows : table[o].id \in Nat
    BY <2>1 DEF Row
  <2>3. first \in rows
    <3> HIDE DEF rows
    <3> QED BY <1>2, <2>2, FirstIsOne
  <2>4. \A o \in loaded : table[o] # NoRow /\ table[o].copy # "none"
    BY <2>1
  <2>5. Flush(e, then, table) = c
    BY <1>2 DEF Flush
  <2> HIDE DEF rows, loaded, first
  <2>6. c \in Call
    BY <2>1, <2>3 DEF Call
  <2>7. CallTrue(c, table, srv)
    BY <2>1, <2>3, <2>4 DEF CallTrue
  <2> QED BY <2>5, <2>6, <2>7
<1> QED BY <1>1, <1>2

\* The parts of the invariant that an order's row belongs to.
LEMMA RowsAreRows ==
  ASSUME OutboxTypeOK, NEW o \in Orders, outbox[o] # NoRow
  PROVE  outbox[o] \in Row
BY DEF OutboxTypeOK

-----------------------------------------------------------------------------
(* What a step leaves of the rows *)

\* Rows are never deleted, and neither the report nor a made resolution changes.
RowsKept ==
  \A o \in Orders :
    outbox[o] # NoRow =>
      /\ outbox'[o] # NoRow /\ outbox'[o].erased = outbox[o].erased
      /\ outbox[o].copy # "none" => outbox'[o].copy = outbox[o].copy

\* What was true of a session stays true when rows and reports are kept.
LEMMA CallStaysTrue ==
  ASSUME OutboxInv, RowsKept, ReportsKept, NEW c \in Call, CallTrue(c, outbox, server)
  PROVE  CallTrue(c, outbox', server')
<1>1. \A o \in Orders : Delivered(o, outbox, server) => Delivered(o, outbox', server')
  <2> SUFFICES ASSUME NEW o \in Orders, Delivered(o, outbox, server)
               PROVE  Delivered(o, outbox', server')
    OBVIOUS
  <2>1. server[o].report # NoReport /\ server[o].copy # "none"
    BY RowsAreRows, NullAssumption DEF Delivered, Row, OutboxInv
  <2> QED BY <2>1 DEF Delivered, RowsKept, ReportsKept
<1>2. \A o \in Orders :
        (outbox[o] # NoRow /\ server[o].report = outbox[o].erased)
          => server'[o].report = outbox'[o].erased
  <2> SUFFICES ASSUME NEW o \in Orders, outbox[o] # NoRow, server[o].report = outbox[o].erased
               PROVE  server'[o].report = outbox'[o].erased
    OBVIOUS
  <2>1. server[o].report # NoReport
    BY RowsAreRows, NullAssumption DEF Row, OutboxInv
  <2> QED BY <2>1 DEF RowsKept, ReportsKept
<1>3. c.todo \subseteq Orders /\ c.loaded \subseteq Orders /\ c.done \subseteq Orders
  BY DEF Call
<1>4. /\ c.pc = "claim" => c.at \in Orders
      /\ c.pc \in {"report", "copy"} =>
           /\ c.at \in c.todo
           /\ \A o \in c.todo : outbox'[o] # NoRow
           /\ \A o \in c.loaded : outbox'[o] # NoRow /\ outbox'[o].copy # "none"
           /\ \A o \in c.done : Delivered(o, outbox', server')
  BY <1>1, <1>3 DEF CallTrue, RowsKept
<1>5. (c.pc = "report" /\ c.answer = "ok") => server'[c.at].report = outbox'[c.at].erased
  BY <1>2, <1>3 DEF CallTrue
<1>6. c.pc = "copy" => c.at \in c.loaded /\ server'[c.at].report = outbox'[c.at].erased
  BY <1>2, <1>3 DEF CallTrue
<1>7. (c.pc = "copy" /\ c.answer = "ok") => Delivered(c.at, outbox', server')
  BY <1>1, <1>3 DEF CallTrue
<1> QED BY <1>4, <1>5, <1>6, <1>7 DEF CallTrue

\* So it is enough to look at the record that a step writes.
LEMMA CallsStayTrue ==
  ASSUME OutboxInv, RowsKept, ReportsKept, NEW h \in Handlers, NEW c \in Call,
         CallTrue(c, outbox', server'), calls' = [calls EXCEPT ![h] = c]
  PROVE  calls' \in [Handlers -> Call] /\ \A g \in Handlers : CallTrue(calls'[g], outbox', server')
<1>1. calls \in [Handlers -> Call] /\ \A g \in Handlers : CallTrue(calls[g], outbox, server)
  BY DEF OutboxInv, OutboxTypeOK
<1>2. ASSUME NEW g \in Handlers PROVE calls'[g] \in Call /\ CallTrue(calls'[g], outbox', server')
  BY <1>1, CallStaysTrue
<1> QED BY <1>1, <1>2

-----------------------------------------------------------------------------
(* The steps *)

\* A step of a handler that leaves the outbox and the server as they are.
LEMMA QuietStep ==
  ASSUME OutboxInv, UNCHANGED <<outbox, server, restored>>,
         events' \subseteq events, people' \subseteq people,
         connected' \subseteq Events, active' \subseteq Events, faults' \in 0 .. MaxFaults,
         calls' \in [Handlers -> Call], \A h \in Handlers : CallTrue(calls'[h], outbox, server)
  PROVE  OutboxInv' /\ RowsKept /\ ReportsKept
<1>1. RowsKept /\ ReportsKept
  BY DEF RowsKept, ReportsKept
<1>2. OutboxTypeOK'
  BY DEF OutboxInv, OutboxTypeOK
<1>3. \A o \in Orders : OrderTrue(o)'
  BY DEF OutboxInv, OrderTrue, Delivered
<1>4. \A h \in Handlers : CallTrue(calls[h], outbox, server)'
  BY DEF CallTrue, Delivered
<1> QED BY <1>1, <1>2, <1>3, <1>4 DEF OutboxInv

\* The same, when it goes on with one record.
LEMMA QuietCall ==
  ASSUME OutboxInv, UNCHANGED <<outbox, server, events, people, connected, active, restored>>,
         faults' \in 0 .. MaxFaults,
         NEW h \in Handlers, NEW c \in Call, CallTrue(c, outbox, server),
         calls' = [calls EXCEPT ![h] = c]
  PROVE  OutboxInv' /\ RowsKept /\ ReportsKept
<1>1. RowsKept /\ ReportsKept /\ CallTrue(c, outbox', server')
  BY DEF RowsKept, ReportsKept
<1>2. /\ calls' \in [Handlers -> Call]
      /\ \A g \in Handlers : CallTrue(calls'[g], outbox, server)
  BY <1>1, CallsStayTrue
<1> QED BY <1>2, QuietStep DEF OutboxInv, OutboxTypeOK

\* The invariant of the rows and that of the handlers together, after a step
\* that keeps the rest.
LEMMA LoudStep ==
  ASSUME OutboxInv, RowsKept, ReportsKept, \A o \in Orders : OrderTrue(o)',
         events' \subseteq events, people' \subseteq people,
         connected' \subseteq Events, active' \subseteq Events, UNCHANGED <<faults, restored>>,
         outbox' \in [Orders -> Row \cup {NoRow}], server' \in [Orders -> Received],
         NEW h \in Handlers, NEW c \in Call, CallTrue(c, outbox', server'),
         calls' = [calls EXCEPT ![h] = c]
  PROVE  OutboxInv'
<1>1. /\ calls' \in [Handlers -> Call]
      /\ \A g \in Handlers : CallTrue(calls'[g], outbox', server')
  BY CallsStayTrue
<1>2. OutboxTypeOK'
  BY <1>1 DEF OutboxInv, OutboxTypeOK
<1>3. \A g \in Handlers : CallTrue(calls[g], outbox, server)'
  BY <1>1 DEF CallTrue, Delivered
<1> QED BY <1>2, <1>3 DEF OutboxInv

\* Closing delivered rows changes nothing but their state.
LEMMA CommitKeeps ==
  ASSUME OutboxInv, UNCHANGED <<server, events, people, restored>>, NEW done,
         \A o \in done : o \in Orders => Delivered(o, outbox, server), CommitSent(done)
  PROVE  /\ outbox' \in [Orders -> Row \cup {NoRow}]
         /\ RowsKept /\ ReportsKept
         /\ \A o \in Orders : OrderTrue(o)'
<1>1. \A o \in Orders :
        outbox'[o] = IF o \in done THEN [outbox[o] EXCEPT !.state = "sent"] ELSE outbox[o]
  BY DEF CommitSent
<1>2. \A o \in Orders : o \in done => outbox[o] \in Row
  BY RowsAreRows DEF Delivered, OutboxInv
<1>3. \A o \in Orders : o \in done =>
        /\ outbox'[o] \in Row
        /\ outbox'[o].erased = outbox[o].erased /\ outbox'[o].copy = outbox[o].copy
        /\ outbox'[o].state = "sent"
  BY <1>1, <1>2 DEF Row
<1>4. \A o \in Orders : outbox'[o] \in Row \cup {NoRow}
  BY <1>1, <1>3 DEF OutboxInv, OutboxTypeOK
<1>5. \A o \in Orders : outbox'[o] # NoRow <=> outbox[o] # NoRow
  BY <1>1, <1>2, <1>3, RowAssumption
<1>6. RowsKept /\ ReportsKept
  BY <1>1, <1>3, <1>5 DEF RowsKept, ReportsKept
<1>7. ASSUME NEW o \in Orders PROVE OrderTrue(o)'
  <2>1. OrderTrue(o)
    BY DEF OutboxInv
  <2>2. CASE o \in done
    BY <1>3, <1>5, <2>1, <2>2 DEF OrderTrue, Delivered
  <2>3. CASE o \notin done
    BY <1>1, <2>1, <2>3 DEF OrderTrue, Delivered
  <2> QED BY <2>2, <2>3
<1>8. outbox' \in [Orders -> Row \cup {NoRow}]
  BY <1>4 DEF CommitSent
<1> QED BY <1>6, <1>7, <1>8

\* A flush moves on to its next row or ends.
LEMMA MoveOnStep ==
  ASSUME OutboxInv, NEW h \in Handlers, calls[h].pc \in {"report", "copy"}, NEW done \in SUBSET Orders,
         \A o \in done : Delivered(o, outbox, server), MoveOn(h, done),
         UNCHANGED <<local, server, faults>>
  PROVE  OutboxInv' /\ RowsKept /\ ReportsKept
<1> DEFINE c == calls[h]
           rest == c.todo \ {c.at}
<1>0. c \in Call /\ CallTrue(c, outbox, server)
  BY DEF OutboxInv, OutboxTypeOK
<1>1. CASE rest # {}
  <2> DEFINE d == [c EXCEPT !.pc = "report", !.todo = rest, !.at = FirstOf(rest, outbox),
                            !.done = done, !.answer = "none"]
  <2>1. calls' = [calls EXCEPT ![h] = d] /\ UNCHANGED outbox
    BY <1>1 DEF MoveOn
  <2>2. rest \subseteq Orders /\ \A o \in rest : outbox[o] # NoRow
    BY <1>0 DEF Call, CallTrue
  <2>3. FirstOf(rest, outbox) \in rest
    <3>1. \A o \in rest : outbox[o].id \in Nat
      BY <2>2, RowsAreRows DEF Row, OutboxInv
    <3> HIDE DEF rest
    <3> QED BY <1>1, <3>1, FirstIsOne
  <2> HIDE DEF rest
  <2>4. d \in Call
    BY <1>0, <2>2, <2>3 DEF Call
  <2>5. /\ d.pc = "report" /\ d.at = FirstOf(rest, outbox) /\ d.todo = rest /\ d.done = done
        /\ d.answer = "none" /\ d.loaded = c.loaded
    BY <1>0 DEF Call
  <2> HIDE DEF d
  <2>6. CallTrue(d, outbox, server)
    BY <1>0, <2>2, <2>3, <2>5 DEF CallTrue
  <2> QED BY <2>1, <2>4, <2>6, QuietCall DEF local, OutboxInv, OutboxTypeOK
<1>2. CASE rest = {}
  <2>1. CommitSent(done) /\ calls' = [calls EXCEPT ![h] = AfterFlush(c.event, c.then)]
    BY <1>2 DEF MoveOn
  <2>2. /\ AfterFlush(c.event, c.then) \in Call
        /\ CallTrue(AfterFlush(c.event, c.then), outbox', server')
    BY AfterFlushIsTrue DEF OutboxInv
  <2>3. /\ outbox' \in [Orders -> Row \cup {NoRow}]
        /\ RowsKept /\ ReportsKept
        /\ \A o \in Orders : OrderTrue(o)'
    BY <2>1, CommitKeeps DEF local
  <2>4. OutboxInv'
    BY <2>1, <2>2, <2>3, LoudStep DEF local, OutboxInv, OutboxTypeOK
  <2> QED BY <2>3, <2>4
<1> QED BY <1>1, <1>2

\* A flush begins.
LEMMA StartStep ==
  ASSUME OutboxInv, NEW h \in Handlers, StartRetry(h) \/ \E e \in Events : StartSync(h, e)
  PROVE  OutboxInv' /\ RowsKept /\ ReportsKept
<1>1. PICK e \in Events \cup {NoEvent}, then \in {"list", "end"} :
        calls' = [calls EXCEPT ![h] = Flush(e, then, outbox)]
  BY DEF StartRetry, StartSync
<1>2. UNCHANGED <<local, outbox, server, faults>>
  BY DEF StartRetry, StartSync
<1>3. Flush(e, then, outbox) \in Call /\ CallTrue(Flush(e, then, outbox), outbox, server)
  BY FlushIsTrue DEF OutboxInv, OutboxTypeOK
<1> QED BY <1>1, <1>2, <1>3, QuietCall DEF local, OutboxInv, OutboxTypeOK

\* The operator resolves the copies of a row that has no resolution.
LEMMA ConfirmStep ==
  ASSUME OutboxInv, NEW h \in Handlers, NEW o \in Orders, ConfirmCopies(h, o)
  PROVE  OutboxInv' /\ RowsKept /\ ReportsKept
<1> DEFINE c == Flush(NoEvent, "end", outbox')
<1>0. /\ calls' = [calls EXCEPT ![h] = c] /\ UNCHANGED <<local, server, faults>>
      /\ outbox[o] # NoRow
      /\ outbox' = IF outbox[o].copy = "none" THEN [outbox EXCEPT ![o].copy = "operator"] ELSE outbox
  BY DEF ConfirmCopies
<1>1. outbox[o] \in Row /\ OrderTrue(o)
  BY <1>0, RowsAreRows DEF OutboxInv
<1>2. \A p \in Orders \ {o} : outbox'[p] = outbox[p]
  BY <1>0 DEF OutboxInv, OutboxTypeOK
<1>3. /\ outbox'[o] \in Row
      /\ outbox'[o].erased = outbox[o].erased /\ outbox'[o].state = outbox[o].state
      /\ outbox[o].copy # "none" => outbox'[o] = outbox[o]
      /\ outbox[o].copy = "none" => outbox'[o].copy = "operator"
  BY <1>0, <1>1 DEF OutboxInv, OutboxTypeOK, Row
<1>4. outbox' \in [Orders -> Row \cup {NoRow}]
  BY <1>0, <1>2, <1>3 DEF OutboxInv, OutboxTypeOK
<1>5. RowsKept /\ ReportsKept
  BY <1>0, <1>2, <1>3, RowAssumption DEF RowsKept, ReportsKept
<1>6. OrderTrue(o)'
  BY <1>0, <1>1, <1>3, RowAssumption DEF OrderTrue, Delivered, local
<1>7. \A p \in Orders \ {o} : OrderTrue(p)'
  BY <1>0, <1>2 DEF OrderTrue, Delivered, local, OutboxInv
<1>8. c \in Call /\ CallTrue(c, outbox', server')
  BY <1>4, FlushIsTrue DEF OutboxInv
<1> HIDE DEF c
<1>9. OutboxInv'
  BY <1>0, <1>4, <1>5, <1>6, <1>7, <1>8, LoudStep DEF local, OutboxInv, OutboxTypeOK
<1> QED BY <1>5, <1>9

\* The answer to a report or to a copy resolution is handled.
LEMMA FlushStep ==
  ASSUME OutboxInv, NEW h \in Handlers, ReportAnswered(h) \/ CopyAnswered(h)
  PROVE  OutboxInv' /\ RowsKept /\ ReportsKept
<1> DEFINE c == calls[h]
<1>0. c \in Call /\ CallTrue(c, outbox, server) /\ UNCHANGED <<local, server, faults>>
  BY DEF OutboxInv, OutboxTypeOK, ReportAnswered, CopyAnswered
<1>1. ASSUME NEW done \in {c.done, c.done \cup {c.at}}, c.pc \in {"report", "copy"},
             done = c.done \/ (c.pc = "copy" /\ c.answer = "ok"), MoveOn(h, done)
      PROVE  OutboxInv' /\ RowsKept /\ ReportsKept
  <2>1. done \in SUBSET Orders /\ \A o \in done : Delivered(o, outbox, server)
    BY <1>0, <1>1 DEF Call, CallTrue
  <2> QED BY <1>0, <1>1, <2>1, MoveOnStep
<1>2. CASE ReportAnswered(h)
  <2>1. CASE /\ c.pc = "report" /\ c.answer = "ok" /\ c.at \in c.loaded /\ UNCHANGED outbox
             /\ calls' = [calls EXCEPT ![h].pc = "copy", ![h].answer = "none"]
    <3> DEFINE d == [c EXCEPT !.pc = "copy", !.answer = "none"]
    <3>1. calls' = [calls EXCEPT ![h] = d]
      BY <2>1 DEF OutboxInv, OutboxTypeOK
    <3>2. /\ d \in Call /\ d.pc = "copy" /\ d.answer = "none" /\ d.at = c.at /\ d.todo = c.todo
          /\ d.loaded = c.loaded /\ d.done = c.done
      BY <1>0 DEF Call
    <3> HIDE DEF d
    <3>3. CallTrue(d, outbox, server)
      BY <1>0, <2>1, <3>2 DEF CallTrue
    <3> QED BY <1>0, <2>1, <3>1, <3>2, <3>3, QuietCall DEF local, OutboxInv, OutboxTypeOK
  <2> QED BY <1>1, <1>2, <2>1 DEF ReportAnswered, Answer
<1>3. CASE CopyAnswered(h)
  BY <1>1, <1>3 DEF CopyAnswered, Answer
<1> QED BY <1>2, <1>3

\* A request ends without having changed anything.
LEMMA EndStep ==
  ASSUME OutboxInv, NEW h \in Handlers, calls' = [calls EXCEPT ![h] = Idle],
         UNCHANGED <<local, outbox, server>>, faults' \in 0 .. MaxFaults
  PROVE  OutboxInv' /\ RowsKept /\ ReportsKept
BY IdleIsTrue, QuietCall DEF local

\* An order is claimed next.
LEMMA ClaimIsTrue ==
  ASSUME OutboxInv, NEW h \in Handlers, NEW rest \in SUBSET Orders, NEW o \in rest, Claim(h, o, rest),
         NEW table, NEW srv
  PROVE  \E c \in Call : calls' = [calls EXCEPT ![h] = c] /\ CallTrue(c, table, srv)
<1> DEFINE c == [calls[h] EXCEPT !.pc = "claim", !.at = o, !.todo = rest, !.answer = "none"]
<1>1. calls[h] \in Call /\ calls' = [calls EXCEPT ![h] = c]
  BY DEF Claim, OutboxInv, OutboxTypeOK
<1>2. c \in Call /\ c.pc = "claim" /\ c.at = o
  BY <1>1 DEF Call
<1> HIDE DEF c
<1>3. CallTrue(c, table, srv)
  BY <1>2 DEF CallTrue
<1> QED BY <1>1, <1>2, <1>3

\* The list of orders has arrived, or a claim was refused.
LEMMA SyncStep ==
  ASSUME OutboxInv, NEW h \in Handlers, ListAnswered(h) \/ ClaimRefused(h)
  PROVE  OutboxInv' /\ RowsKept /\ ReportsKept
<1>0. /\ calls[h] \in Call /\ UNCHANGED <<local, outbox, server, faults>> /\ faults' \in 0 .. MaxFaults
      /\ UNCHANGED <<events, people, connected, active, restored>>
  BY DEF OutboxInv, OutboxTypeOK, ListAnswered, ClaimRefused, local
<1>1. CASE calls' = [calls EXCEPT ![h] = Idle]
  BY <1>0, <1>1, EndStep
<1>2. CASE calls' = [calls EXCEPT ![h] = Flush(NoEvent, "end", outbox)]
  <2>1. calls[h].event \in Events \cup {NoEvent}
    BY <1>0 DEF Call
  <2>2. /\ Flush(NoEvent, "end", outbox) \in Call
        /\ CallTrue(Flush(NoEvent, "end", outbox), outbox, server)
    BY <2>1, FlushIsTrue DEF OutboxInv, OutboxTypeOK
  <2> QED BY <1>0, <1>2, <2>2, QuietCall
<1>3. ASSUME NEW rest \in SUBSET Orders, NEW o \in rest, Claim(h, o, rest)
      PROVE  OutboxInv' /\ RowsKept /\ ReportsKept
  <2>1. PICK c \in Call : calls' = [calls EXCEPT ![h] = c] /\ CallTrue(c, outbox, server)
    BY <1>3, ClaimIsTrue
  <2> QED BY <1>0, <2>1, QuietCall
<1>4. calls[h].todo \in SUBSET Orders /\ calls[h].todo \ {calls[h].at} \in SUBSET Orders
  BY <1>0 DEF Call
<1>5. CASE ListAnswered(h)
  BY <1>1, <1>2, <1>3, <1>4, <1>5 DEF ListAnswered
<1>6. CASE ClaimRefused(h)
  BY <1>1, <1>2, <1>3, <1>4, <1>6 DEF ClaimRefused
<1> QED BY <1>5, <1>6

\* After its commit a sync goes on with a record that is true.
LEMMA NextOrderIsTrue ==
  ASSUME OutboxInv, NEW h \in Handlers, NextOrder(h),
         outbox' \in [Orders -> Row \cup {NoRow}], NEW srv
  PROVE  \E c \in Call : calls' = [calls EXCEPT ![h] = c] /\ CallTrue(c, outbox', srv)
<1> DEFINE rest == calls[h].todo \ {calls[h].at}
<1>0. calls[h] \in Call /\ rest \in SUBSET Orders /\ calls[h].event \in Events \cup {NoEvent}
  BY DEF OutboxInv, OutboxTypeOK, Call
<1>1. CASE calls' = [calls EXCEPT ![h] = Flush(NoEvent, "end", outbox')]
  BY <1>0, <1>1, FlushIsTrue DEF OutboxInv
<1>2. CASE \E o \in rest : Claim(h, o, rest)
  BY <1>0, <1>2, ClaimIsTrue
<1>3. CASE calls' = [calls EXCEPT ![h] = Idle]
  BY <1>3, IdleIsTrue
<1> QED BY <1>1, <1>2, <1>3 DEF NextOrder

\* An order erases its subject, and nobody else unless it is about the event.
LEMMA ErasedIsSubject ==
  ASSUME NEW o \in Orders, OutboxTypeOK
  PROVE  /\ ErasedBy(o) \in SUBSET Persons
         /\ SubjectOf[o] # WholeEvent => ErasedBy(o) = people \cap {SubjectOf[o]}
<1>1. ErasedBy(o) \in SUBSET Persons
  BY DEF ErasedBy, OutboxTypeOK
<1>2. ASSUME SubjectOf[o] # WholeEvent PROVE ErasedBy(o) = people \cap {SubjectOf[o]}
  <2>1. SubjectOf[o] \in Persons /\ MemberOf[SubjectOf[o]] = EventOf[o]
    BY <1>2, ShapeAssumption
  <2> QED BY <1>2, <2>1 DEF ErasedBy
<1> QED BY <1>1, <1>2

\* A claimed order is staged: the erasure and its row in one commit.
LEMMA StageStep ==
  ASSUME OutboxInv, NEW h \in Handlers, Stage(h)
  PROVE  OutboxInv' /\ RowsKept /\ ReportsKept
<1>o. PICK o \in Orders : o = calls[h].at
  BY DEF OutboxInv, Stage, Answer, CallTrue
<1>0. /\ calls[h] \in Call /\ NextOrder(h) /\ UNCHANGED <<active, server, faults, restored>>
  BY DEF OutboxInv, OutboxTypeOK, Stage
<1>1. CASE UNCHANGED <<events, people, connected, outbox>>
  <2>1. PICK c \in Call : calls' = [calls EXCEPT ![h] = c] /\ CallTrue(c, outbox', server)
    BY <1>0, <1>1, NextOrderIsTrue DEF OutboxInv, OutboxTypeOK
  <2> QED BY <1>0, <1>1, <2>1, QuietCall DEF OutboxInv, OutboxTypeOK
<1>2. CASE outbox[o] = NoRow /\ Erase(o)
  <2> DEFINE row == [id |-> Cardinality(Staged(outbox)) + 1, erased |-> ErasedBy(o),
                     copy |-> FirstResolution(o), state |-> "pending"]
  <2>1. /\ outbox' = [outbox EXCEPT ![o] = row] /\ people' = people \ ErasedBy(o)
        /\ events' \subseteq events /\ connected' \subseteq connected
        /\ SubjectOf[o] = WholeEvent => EventOf[o] \notin events'
    BY <1>2 DEF Erase
  <2>2. row \in Row
    <3>1. FirstResolution(o) \in {"none", "software", "operator"}
      BY DEF FirstResolution
    <3>2. ErasedBy(o) \in SUBSET Persons
      BY <1>0, ErasedIsSubject DEF OutboxInv
    <3> QED BY <1>0, <1>2, <3>1, <3>2, NewId DEF Row
  <2>3. /\ row.erased = ErasedBy(o) /\ row.copy = FirstResolution(o) /\ row.state = "pending"
    OBVIOUS
  <2> HIDE DEF row
  <2>4. outbox' \in [Orders -> Row \cup {NoRow}]
    BY <2>1, <2>2 DEF OutboxInv, OutboxTypeOK
  <2>5. outbox'[o] = row /\ \A p \in Orders \ {o} : outbox'[p] = outbox[p]
    BY <1>0, <2>1 DEF OutboxInv, OutboxTypeOK
  <2>6. RowsKept /\ ReportsKept
    BY <1>0, <1>2, <2>5 DEF RowsKept, ReportsKept
  <2>7. OrderTrue(o)'
    <3>1. server[o].report = NoReport /\ server[o].copy = "none"
      BY <1>0, <1>2 DEF OutboxInv, OrderTrue
    <3>2. SubjectOf[o] # WholeEvent => SubjectOf[o] \notin people'
      BY <1>0, <2>1, ErasedIsSubject DEF OutboxInv
    <3>3. (row.copy = "software" /\ SubjectOf[o] # WholeEvent) => row.erased \cap CopiedOut = {}
      BY <1>0, <2>3, ErasedIsSubject DEF OutboxInv, FirstResolution
    <3> QED BY <1>0, <2>1, <2>3, <2>5, <3>1, <3>2, <3>3 DEF OrderTrue
  <2>8. \A p \in Orders \ {o} : OrderTrue(p)'
    BY <1>0, <2>1, <2>5 DEF OutboxInv, OrderTrue, Delivered
  <2>9. PICK c \in Call : calls' = [calls EXCEPT ![h] = c] /\ CallTrue(c, outbox', server)
    BY <1>0, <2>4, NextOrderIsTrue
  <2>10. OutboxInv'
    BY <1>0, <2>1, <2>4, <2>6, <2>7, <2>8, <2>9, LoudStep DEF OutboxInv, OutboxTypeOK
  <2> QED BY <2>6, <2>10
<1> QED BY <1>o, <1>1, <1>2 DEF Stage

\* The server takes what a handler sends, and keeps it.
LEMMA ServerStep ==
  ASSUME OutboxInv, NEW h \in Handlers, ServerAnswers(h)
  PROVE  OutboxInv' /\ RowsKept /\ ReportsKept
<1> DEFINE c == calls[h]
           answer == IF c.pc = "report" /\ c.at \in Refused THEN "refused" ELSE "ok"
           todo == IF c.pc = "list" THEN ServerLists(c.event) ELSE c.todo
           d == [c EXCEPT !.answer = answer, !.todo = todo]
<1>0. /\ c \in Call /\ CallTrue(c, outbox, server) /\ UNCHANGED <<local, outbox, faults>>
      /\ c.answer = "none" /\ RowsKept
  BY DEF OutboxInv, OutboxTypeOK, ServerAnswers, RowsKept
<1>1. calls' = [calls EXCEPT ![h] = d]
  BY DEF ServerAnswers, OutboxInv, OutboxTypeOK
<1>2. /\ answer \in {"ok", "refused"} /\ todo \in SUBSET Orders
      /\ c.pc # "list" => todo = c.todo
      /\ (c.pc = "report" /\ answer = "ok") => c.at \notin Refused
      /\ c.pc = "copy" => answer = "ok"
  BY <1>0 DEF Call, ServerLists
<1> HIDE DEF answer, todo
<1>3. /\ d \in Call /\ d.pc = c.pc /\ d.answer = answer /\ d.at = c.at /\ d.todo = todo
      /\ d.loaded = c.loaded /\ d.done = c.done
  BY <1>0, <1>2 DEF Call
<1> HIDE DEF d
<1>4. CASE c.pc = "report" /\ c.at \notin Refused
  <2>1. /\ server' = [server EXCEPT ![c.at].report = outbox[c.at].erased]
        /\ c.at \in Orders /\ outbox[c.at] # NoRow
    BY <1>0, <1>4 DEF ServerAnswers, CallTrue, Call
  <2>2. outbox[c.at] \in Row /\ OrderTrue(c.at)
    BY <2>1, RowsAreRows DEF OutboxInv
  <2>3. /\ server'[c.at] \in Received
        /\ server'[c.at].report = outbox[c.at].erased /\ server'[c.at].copy = server[c.at].copy
        /\ \A p \in Orders \ {c.at} : server'[p] = server[p]
    BY <2>1, <2>2 DEF OutboxInv, OutboxTypeOK, Received, Row
  <2>4. server' \in [Orders -> Received]
    BY <2>1, <2>3 DEF OutboxInv, OutboxTypeOK
  <2>5. ReportsKept
    BY <2>1, <2>2, <2>3 DEF ReportsKept, OrderTrue
  <2>6. \A p \in Orders : p = c.at => OrderTrue(p)'
    BY <1>0, <2>1, <2>2, <2>3 DEF OrderTrue, Delivered, local
  <2>7. \A p \in Orders \ {c.at} : OrderTrue(p)'
    BY <1>0, <2>3 DEF OutboxInv, OrderTrue, Delivered, local
  <2>8. CallTrue(c, outbox', server')
    BY <1>0, <2>5, CallStaysTrue
  <2>9. CallTrue(d, outbox', server')
    BY <1>0, <1>2, <1>3, <1>4, <2>3, <2>8 DEF CallTrue
  <2>10. OutboxInv'
    BY <1>0, <1>1, <1>3, <2>4, <2>5, <2>6, <2>7, <2>9, LoudStep DEF local, OutboxInv, OutboxTypeOK
  <2> QED BY <1>0, <2>5, <2>10
<1>5. CASE c.pc = "copy"
  <2>1. /\ server' = [server EXCEPT ![c.at].copy = outbox[c.at].copy]
        /\ c.at \in Orders /\ outbox[c.at] # NoRow /\ outbox[c.at].copy # "none"
        /\ server[c.at].report = outbox[c.at].erased
    BY <1>0, <1>5 DEF ServerAnswers, CallTrue, Call
  <2>2. outbox[c.at] \in Row /\ OrderTrue(c.at)
    BY <2>1, RowsAreRows DEF OutboxInv
  <2>3. /\ server'[c.at] \in Received
        /\ server'[c.at].copy = outbox[c.at].copy /\ server'[c.at].report = server[c.at].report
        /\ \A p \in Orders \ {c.at} : server'[p] = server[p]
    BY <2>1, <2>2 DEF OutboxInv, OutboxTypeOK, Received, Row
  <2>4. server' \in [Orders -> Received]
    BY <2>1, <2>3 DEF OutboxInv, OutboxTypeOK
  <2>5. ReportsKept
    BY <2>1, <2>2, <2>3 DEF ReportsKept, OrderTrue
  <2>6. \A p \in Orders : p = c.at => OrderTrue(p)'
    BY <1>0, <2>1, <2>2, <2>3 DEF OrderTrue, Delivered, local
  <2>7. \A p \in Orders \ {c.at} : OrderTrue(p)'
    BY <1>0, <2>3 DEF OutboxInv, OrderTrue, Delivered, local
  <2>8. CallTrue(c, outbox', server')
    BY <1>0, <2>5, CallStaysTrue
  <2>9. CallTrue(d, outbox', server')
    BY <1>0, <1>2, <1>3, <1>5, <2>1, <2>3, <2>8 DEF CallTrue, Delivered
  <2>10. OutboxInv'
    BY <1>0, <1>1, <1>3, <2>4, <2>5, <2>6, <2>7, <2>9, LoudStep DEF local, OutboxInv, OutboxTypeOK
  <2> QED BY <1>0, <2>5, <2>10
<1>6. CASE c.pc # "copy" /\ ~(c.pc = "report" /\ c.at \notin Refused)
  <2>1. server' = server
    BY <1>6 DEF ServerAnswers
  <2>2. CallTrue(d, outbox, server)
    BY <1>0, <1>2, <1>3, <1>6 DEF CallTrue
  <2> QED BY <1>0, <1>1, <1>3, <2>1, <2>2, QuietCall DEF local, OutboxInv, OutboxTypeOK
<1> QED BY <1>4, <1>5, <1>6

\* A fault on the way: the answer is an error.
LEMMA FaultStep ==
  ASSUME OutboxInv, NEW h \in Handlers, NetworkFails(h) \/ ServerRefuses(h)
  PROVE  OutboxInv' /\ RowsKept /\ ReportsKept
<1> DEFINE c == calls[h]
<1>1. PICK answer \in {"error", "refused"} : calls' = [calls EXCEPT ![h] = [c EXCEPT !.answer = answer]]
  BY DEF NetworkFails, ServerRefuses, OutboxInv, OutboxTypeOK
<1> DEFINE d == [c EXCEPT !.answer = answer]
<1>2. c \in Call /\ CallTrue(c, outbox, server)
  BY DEF OutboxInv, OutboxTypeOK
<1>3. /\ d \in Call /\ d.pc = c.pc /\ d.answer = answer /\ d.at = c.at /\ d.todo = c.todo
      /\ d.loaded = c.loaded /\ d.done = c.done
  BY <1>2 DEF Call
<1>4. UNCHANGED <<local, outbox, server>> /\ faults' \in 0 .. MaxFaults
  BY ShapeAssumption DEF NetworkFails, ServerRefuses, Fault, OutboxInv, OutboxTypeOK
<1>5. calls' = [calls EXCEPT ![h] = d]
  BY <1>1
<1> HIDE DEF d
<1>6. CallTrue(d, outbox, server)
  BY <1>2, <1>3 DEF CallTrue
<1> QED BY <1>3, <1>4, <1>5, <1>6, QuietCall DEF local

\* The process ends.
LEMMA CrashStep ==
  ASSUME OutboxInv, Crash
  PROVE  OutboxInv' /\ RowsKept /\ ReportsKept
<1>1. /\ UNCHANGED <<events, people, active, outbox, server, restored>> /\ calls' = [h \in Handlers |-> Idle]
      /\ connected' \subseteq connected
  BY DEF Crash
<1>2. faults' \in 0 .. MaxFaults
  BY ShapeAssumption DEF Crash, Fault, OutboxInv, OutboxTypeOK
<1> QED BY <1>1, <1>2, IdleIsTrue, QuietStep DEF OutboxInv, OutboxTypeOK

\* Events, people, connections and keys change beside the orders.
LEMMA LocalStep ==
  ASSUME OutboxInv,
         \/ \E e \in Events : DeleteEvent(e) \/ ChangeConnection(e) \/ ChangeKey(e)
         \/ \E p \in Persons : DeletePerson(p)
  PROVE  OutboxInv' /\ RowsKept /\ ReportsKept
<1>1. /\ UNCHANGED <<outbox, server, calls, faults, restored>> /\ events' \subseteq events
      /\ people' \subseteq people /\ connected' \subseteq Events /\ active' \subseteq Events
  BY DEF DeleteEvent, ChangeConnection, ChangeKey, DeletePerson, OutboxInv, OutboxTypeOK
<1> QED BY <1>1, QuietStep DEF OutboxInv, OutboxTypeOK

\* A backup brings an event and its people back: the rows and the server are as
\* they were, and what was undone is noted.
LEMMA ImportStep ==
  ASSUME OutboxInv, NEW e \in Events, ImportBackup(e)
  PROVE  OutboxInv' /\ RowsKept /\ ReportsKept
<1>1. PICK backup \in SUBSET {p \in Persons \ people : MemberOf[p] = e} :
        /\ people' = people \cup backup
        /\ restored' = restored \cup {o \in Staged(outbox) :
                          EventOf[o] = e /\ SubjectOf[o] \in backup \cup {WholeEvent}}
  BY DEF ImportBackup
<1>2. /\ UNCHANGED <<connected, active, outbox, server, calls>>
      /\ events' = events \cup {e} /\ faults' \in 0 .. MaxFaults
  BY ShapeAssumption DEF ImportBackup, Fault, OutboxInv, OutboxTypeOK
<1>3. RowsKept /\ ReportsKept
  BY <1>2 DEF RowsKept, ReportsKept
<1>4. OutboxTypeOK'
  BY <1>1, <1>2 DEF OutboxInv, OutboxTypeOK, Staged
<1>5. ASSUME NEW o \in Orders PROVE OrderTrue(o)'
  <2>1. OrderTrue(o)
    BY DEF OutboxInv
  <2>2. CASE SubjectOf[o] = WholeEvent
    BY <1>1, <1>2, <2>1, <2>2 DEF OrderTrue, Delivered, Staged
  <2>3. CASE SubjectOf[o] # WholeEvent
    <3>1. SubjectOf[o] \in Persons /\ MemberOf[SubjectOf[o]] = EventOf[o]
      BY <2>3, ShapeAssumption
    <3> QED BY <1>1, <1>2, <2>1, <2>3, <3>1 DEF OrderTrue, Delivered, Staged
  <2> QED BY <2>2, <2>3
<1>6. \A h \in Handlers : CallTrue(calls[h], outbox, server)'
  BY <1>2 DEF OutboxInv, CallTrue, Delivered
<1> QED BY <1>3, <1>4, <1>5, <1>6 DEF OutboxInv

\* The signature failed, or its event or key was gone: the order is left, and
\* maybe the publish secret is lost.
LEMMA RaiseStep ==
  ASSUME OutboxInv, NEW h \in Handlers, StageRaises(h)
  PROVE  OutboxInv' /\ RowsKept /\ ReportsKept
<1>1. /\ UNCHANGED <<events, people, active, outbox, server, restored>>
      /\ calls' = [calls EXCEPT ![h] = Idle] /\ connected' \subseteq connected
  BY DEF StageRaises
<1>2. faults' \in 0 .. MaxFaults
  BY ShapeAssumption DEF StageRaises, Fault, OutboxInv, OutboxTypeOK
<1>3. calls' \in [Handlers -> Call] /\ \A g \in Handlers : CallTrue(calls'[g], outbox, server)
  BY <1>1, IdleIsTrue DEF OutboxInv, OutboxTypeOK
<1> QED BY <1>1, <1>2, <1>3, QuietStep DEF OutboxInv, OutboxTypeOK

\* Every step keeps the invariant, the rows and what the server has been told.
LEMMA OutboxStep == OutboxInv /\ [OutboxNext]_vars => OutboxInv' /\ RowsKept /\ ReportsKept
<1> SUFFICES ASSUME OutboxInv, [OutboxNext]_vars PROVE OutboxInv' /\ RowsKept /\ ReportsKept
  OBVIOUS
<1>1. ASSUME NEW h \in Handlers, CopyRaises(h) PROVE OutboxInv' /\ RowsKept /\ ReportsKept
  BY <1>1, EndStep DEF CopyRaises, OutboxInv, OutboxTypeOK
<1>2. CASE UNCHANGED vars
  BY <1>2, QuietStep DEF vars, OutboxInv, OutboxTypeOK
<1> QED
  BY <1>1, <1>2, StartStep, ConfirmStep, FlushStep, SyncStep, StageStep, RaiseStep, ServerStep,
     FaultStep, CrashStep, LocalStep, ImportStep DEF OutboxNext

\* At the start there is no row, and the server has been told nothing.
LEMMA OutboxStart == OutboxInit => OutboxInv
<1> SUFFICES ASSUME OutboxInit PROVE OutboxInv
  OBVIOUS
<1>1. OutboxTypeOK
  BY IdleIsTrue, ShapeAssumption DEF OutboxInit, OutboxTypeOK, Received
<1>2. \A h \in Handlers : CallTrue(calls[h], outbox, server)
  BY IdleIsTrue DEF OutboxInit
<1>3. \A o \in Orders : OrderTrue(o)
  BY DEF OutboxInit, OrderTrue
<1> QED BY <1>1, <1>2, <1>3 DEF OutboxInv

-----------------------------------------------------------------------------
(* The theorems *)

\* The strengthened invariant holds in every state.
THEOREM OutboxInvariant == OutboxSpec => []OutboxInv
BY OutboxStart, OutboxStep, PTL DEF OutboxSpec

\* The tables, the sessions and the faults keep their shape.
THEOREM OutboxTypeCorrect == OutboxSpec => []OutboxTypeOK
<1>1. OutboxInv => OutboxTypeOK
  BY DEF OutboxInv
<1> QED BY <1>1, OutboxInvariant, PTL

\* No row is closed before the server holds its report and its resolution,
\* whatever answers are lost, and however flushes overlap.
THEOREM ClosedRowsAreDelivered == OutboxSpec => []SentIsDelivered
<1>1. OutboxInv => SentIsDelivered
  <2> SUFFICES ASSUME OutboxInv, NEW o \in Orders, outbox[o] # NoRow, outbox[o].state = "sent"
               PROVE  server[o] = [report |-> outbox[o].erased, copy |-> outbox[o].copy]
    BY DEF SentIsDelivered
  <2>1. server[o] \in Received /\ Delivered(o, outbox, server)
    BY DEF OutboxInv, OutboxTypeOK, OrderTrue
  <2> QED BY <2>1 DEF Received, Delivered
<1> QED BY <1>1, OutboxInvariant, PTL

\* What the server was told is gone is gone, until a backup brings it back.
THEOREM ReportsAreTrue == OutboxSpec => []ReportedIsErased
<1>1. OutboxInv => ReportedIsErased
  BY DEF OutboxInv, OrderTrue, ReportedIsErased
<1> QED BY <1>1, OutboxInvariant, PTL

\* The copies of a subject that has one at a provider are the operator's to resolve.
THEOREM CopiesAreConfirmed == OutboxSpec => []SubjectCopiesConfirmed
<1>1. OutboxInv => SubjectCopiesConfirmed
  BY DEF OutboxInv, OrderTrue, SubjectCopiesConfirmed
<1> QED BY <1>1, OutboxInvariant, PTL

\* A report and a resolution that the server took never change.
THEOREM ReportsAreStable == OutboxSpec => ReportIsStable
<1>1. OutboxInv /\ [OutboxNext]_vars => [ReportsKept]_vars
  BY OutboxStep
<1> QED BY <1>1, OutboxInvariant, PTL DEF OutboxSpec, ReportIsStable
=============================================================================
