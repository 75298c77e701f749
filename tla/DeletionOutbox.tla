--------------------------- MODULE DeletionOutbox ---------------------------
(***************************************************************************)
(* Server-issued deletion work orders: sync_deletion_work_orders,          *)
(* retry_deletion_reports, resolve_local_desktop_copies and                *)
(* _flush_deletion_outbox of api/v1/mp_backend.py, stage_deletion_report   *)
(* of core/desktop_deletion.py, and the local deletions beside them.       *)
(*                                                                         *)
(* A request handler is cut at its awaits, the HTTP requests to the        *)
(* MP-Backend server: there other handlers interleave, the answer gets     *)
(* lost or the process ends.  Between two awaits a handler is one step.    *)
(* What a flush learns stays in its session until it commits at its end.   *)
(***************************************************************************)
EXTENDS Naturals, FiniteSets

CONSTANTS
  Events, Persons, Orders,
  Handlers,        \* requests of the renderer served together
  EventOf,         \* work order -> the event it is about
  SubjectOf,       \* work order -> the person to erase, or WholeEvent
  MemberOf,        \* person -> event
  CopiedOut,       \* persons with a google_email: a provider holds a copy
  Refused,         \* work orders whose report the server always refuses
  MaxFaults,       \* bound: lost answers, server errors, crashes and imports
  WholeEvent, NoOrder, NoEvent, NoReport, NoRow

ASSUME ShapeAssumption ==
  /\ EventOf \in [Orders -> Events]
  /\ SubjectOf \in [Orders -> Persons \cup {WholeEvent}]
  /\ MemberOf \in [Persons -> Events]
  /\ \A o \in Orders : SubjectOf[o] \in Persons => MemberOf[SubjectOf[o]] = EventOf[o]
  /\ CopiedOut \subseteq Persons /\ Refused \subseteq Orders
  /\ MaxFaults \in Nat
ASSUME NullAssumption ==
  /\ WholeEvent \notin Persons /\ NoOrder \notin Orders /\ NoEvent \notin Events
  /\ \A S \in SUBSET Persons : NoReport # S
ASSUME FiniteAssumption == IsFiniteSet(Orders)

VARIABLES
  events, people,  \* the rows of the local database
  connected,       \* events with a publish secret in the credential store
  active,          \* events with an active processor key
  outbox,          \* desktop_deletion_outbox: work order -> row
  server,          \* external: the report and the copy resolution it holds
  calls,           \* the handlers
  faults,          \* how many of these have happened
  restored         \* history: orders whose erasure a later import has undone

vars == <<events, people, connected, active, outbox, server, calls, faults, restored>>
local == <<events, people, connected, active, restored>>

\* "erased" stands for the counts of the signed report, "copy" for the signed
\* copy resolution: none yet, by the software alone, or by the operator.
Row == [id : 1 .. Cardinality(Orders), erased : SUBSET Persons,
        copy : {"none", "software", "operator"}, state : {"pending", "sent"}]
ASSUME RowAssumption == NoRow \notin Row

Received == [report : {NoReport} \cup SUBSET Persons, copy : {"none", "software", "operator"}]

\* A handler: the request it waits for, the orders still to do, and for a flush
\* what its session has loaded and what it has marked as sent.
Call == [pc : {"idle", "report", "copy", "list", "claim"}, event : Events \cup {NoEvent},
         at : Orders \cup {NoOrder}, todo : SUBSET Orders, loaded : SUBSET Orders,
         done : SUBSET Orders, then : {"list", "end"}, answer : {"none", "ok", "refused", "error"}]

OutboxTypeOK ==
  /\ events \subseteq Events /\ people \subseteq Persons
  /\ connected \subseteq Events /\ active \subseteq Events
  /\ outbox \in [Orders -> Row \cup {NoRow}]
  /\ server \in [Orders -> Received]
  /\ calls \in [Handlers -> Call]
  /\ faults \in 0 .. MaxFaults
  /\ restored \subseteq Orders

Idle == [pc |-> "idle", event |-> NoEvent, at |-> NoOrder, todo |-> {}, loaded |-> {},
         done |-> {}, then |-> "end", answer |-> "none"]

OutboxInit ==
  /\ events = Events /\ people = Persons /\ connected = Events /\ active = Events
  /\ outbox = [o \in Orders |-> NoRow]
  /\ server = [o \in Orders |-> [report |-> NoReport, copy |-> "none"]]
  /\ calls = [h \in Handlers |-> Idle]
  /\ faults = 0
  /\ restored = {}

\* A fault or an import counts.
Fault == faults < MaxFaults /\ faults' = faults + 1

-----------------------------------------------------------------------------
(* _flush_deletion_outbox *)

Staged(table) == {o \in Orders : table[o] # NoRow}
Pending(table) == {o \in Staged(table) : table[o].state = "pending"}
FirstOf(S, table) == CHOOSE o \in S : \A p \in S : table[o].id <= table[p].id

\* After its first flush a sync lists the orders, when the event still exists
\* (it answers event_deleted otherwise) and has a publish secret (HTTP 400).
AfterFlush(e, then) ==
  IF then = "list" /\ e \in events /\ e \in connected
  THEN [Idle EXCEPT !.pc = "list", !.event = e] ELSE Idle

\* The pending rows are loaded, in the order of their ids, with their copies.
Flush(e, then, table) ==
  LET rows == Pending(table)
  IN  IF rows = {} THEN AfterFlush(e, then)
      ELSE [pc |-> "report", event |-> e, at |-> FirstOf(rows, table), todo |-> rows,
            loaded |-> {o \in rows : table[o].copy # "none"}, done |-> {},
            then |-> then, answer |-> "none"]

\* Variant: the closed row gets a state that the table does not know.
CommitDelivered(done) ==
  outbox' = [o \in Orders |-> IF o \in done THEN [outbox[o] EXCEPT !.state = "delivered"] ELSE outbox[o]]

CommitSent(done) ==
  outbox' = [o \in Orders |-> IF o \in done THEN [outbox[o] EXCEPT !.state = "sent"] ELSE outbox[o]]

\* The next row; after the last one the rows marked in the session are committed.
MoveOn(h, done) ==
  LET c == calls[h]
      rest == c.todo \ {c.at}
  IN  IF rest # {}
      THEN /\ calls' = [calls EXCEPT ![h] = [c EXCEPT !.pc = "report", !.todo = rest,
                          !.at = FirstOf(rest, outbox), !.done = done, !.answer = "none"]]
           /\ UNCHANGED outbox
      ELSE /\ CommitSent(done)
           /\ calls' = [calls EXCEPT ![h] = AfterFlush(c.event, c.then)]

Answer(h, pc, answers) == calls[h].pc = pc /\ calls[h].answer \in answers

\* Variant: an accepted report settles the row.
MarkWithReport(h) ==
  /\ Answer(h, "report", {"ok", "refused", "error"})
  /\ MoveOn(h, IF calls[h].answer = "ok" THEN calls[h].done \cup {calls[h].at} ELSE calls[h].done)
  /\ UNCHANGED <<local, server, faults>>

\* Variant: a refused report ends the flush.
StopAtRefusal(h) ==
  /\ Answer(h, "report", {"ok", "refused", "error"})
  /\ calls' = [calls EXCEPT ![h] = IF @.answer = "ok" /\ @.at \in @.loaded
                                   THEN [@ EXCEPT !.pc = "copy", !.answer = "none"] ELSE Idle]
  /\ UNCHANGED <<local, outbox, server, faults>>

\* An accepted report is followed by the copy resolution, if the session loaded
\* one; a network error, a refusal or a missing resolution leaves the row.
ReportAnswered(h) ==
  /\ Answer(h, "report", {"ok", "refused", "error"})
  /\ \/ /\ calls[h].answer = "ok" /\ calls[h].at \in calls[h].loaded
        /\ calls' = [calls EXCEPT ![h].pc = "copy", ![h].answer = "none"]
        /\ UNCHANGED outbox
     \/ /\ calls[h].answer # "ok" \/ calls[h].at \notin calls[h].loaded
        /\ MoveOn(h, calls[h].done)
  /\ UNCHANGED <<local, server, faults>>

CopyAnswered(h) ==
  /\ \/ /\ Answer(h, "copy", {"ok"})
        /\ MoveOn(h, calls[h].done \cup {calls[h].at})
     \/ /\ Answer(h, "copy", {"refused"})
        /\ MoveOn(h, calls[h].done)
  /\ UNCHANGED <<local, server, faults>>

\* A network error of this request is not caught: the request fails, and with
\* its session everything that the flush had marked.
CopyRaises(h) ==
  /\ Answer(h, "copy", {"error"})
  /\ calls' = [calls EXCEPT ![h] = Idle]
  /\ UNCHANGED <<local, outbox, server, faults>>

-----------------------------------------------------------------------------
(* The requests of the renderer *)

StartRetry(h) ==
  /\ calls[h].pc = "idle"
  /\ calls' = [calls EXCEPT ![h] = Flush(NoEvent, "end", outbox)]
  /\ UNCHANGED <<local, outbox, server, faults>>

StartSync(h, e) ==
  /\ calls[h].pc = "idle"
  /\ calls' = [calls EXCEPT ![h] = Flush(e, "list", outbox)]
  /\ UNCHANGED <<local, outbox, server, faults>>

\* resolve_local_desktop_copies: a signature is made and committed only when
\* the row has none and the event still has an active key (409 otherwise).
ConfirmCopies(h, o) ==
  /\ calls[h].pc = "idle" /\ outbox[o] # NoRow
  /\ outbox[o].copy # "none" \/ EventOf[o] \in active
  /\ outbox' = IF outbox[o].copy = "none" THEN [outbox EXCEPT ![o].copy = "operator"] ELSE outbox
  /\ calls' = [calls EXCEPT ![h] = Flush(NoEvent, "end", outbox')]
  /\ UNCHANGED <<local, server, faults>>

-----------------------------------------------------------------------------
(* sync_deletion_work_orders, after its first flush *)

Claim(h, o, rest) ==
  calls' = [calls EXCEPT ![h] = [@ EXCEPT !.pc = "claim", !.at = o, !.todo = rest, !.answer = "none"]]

\* The processor keys are read once, after the list has arrived.
ListAnswered(h) ==
  /\ \/ /\ Answer(h, "list", {"ok"})
        /\ \/ /\ calls[h].event \in active
              /\ \E o \in calls[h].todo : Claim(h, o, calls[h].todo)
           \/ /\ calls[h].todo = {} \/ calls[h].event \notin active
              /\ calls' = [calls EXCEPT ![h] = Flush(NoEvent, "end", outbox)]
     \/ /\ Answer(h, "list", {"refused", "error"})
        /\ calls' = [calls EXCEPT ![h] = Idle]
  /\ UNCHANGED <<local, outbox, server, faults>>

\* HTTP 409 passes over the order; every other failure ends the request.
ClaimRefused(h) ==
  LET rest == calls[h].todo \ {calls[h].at}
  IN  /\ Answer(h, "claim", {"refused", "error"})
      /\ \/ calls' = [calls EXCEPT ![h] = Idle]
         \/ /\ calls[h].answer = "refused" /\ rest # {}
            /\ \E o \in rest : Claim(h, o, rest)
         \/ /\ calls[h].answer = "refused" /\ rest = {}
            /\ calls' = [calls EXCEPT ![h] = Flush(NoEvent, "end", outbox)]
      /\ UNCHANGED <<local, outbox, server, faults>>

\* After a commit: stop at a whole-event order, otherwise the next claim, which
\* is signed with the key of an event that must still be there.
NextOrder(h) ==
  LET c == calls[h]
      rest == c.todo \ {c.at}
  IN  \/ /\ SubjectOf[c.at] = WholeEvent \/ rest = {}
         /\ calls' = [calls EXCEPT ![h] = Flush(NoEvent, "end", outbox')]
      \/ /\ SubjectOf[c.at] # WholeEvent
         /\ c.event \in events' \cap active
         /\ \E o \in rest : Claim(h, o, rest)
      \/ /\ SubjectOf[c.at] # WholeEvent /\ rest # {}
         /\ c.event \notin events' \cap active
         /\ calls' = [calls EXCEPT ![h] = Idle]

\* The people an order erases here and now: none when the subject is gone.
ErasedBy(o) ==
  {p \in people : MemberOf[p] = EventOf[o] /\ SubjectOf[o] \in {p, WholeEvent}}

\* Variant: the software resolves the copies of every order.
AlwaysResolved(o) == "software"

\* The copy resolution is signed by the software at once, unless the erased
\* subject has a copy at a provider.
FirstResolution(o) ==
  IF SubjectOf[o] \in ErasedBy(o) \cap CopiedOut THEN "none" ELSE "software"

\* Variant: the report is committed before the data is erased.
ReportOnly(o) ==
  /\ outbox' = [outbox EXCEPT ![o] = [id |-> Cardinality(Staged(outbox)) + 1, erased |-> ErasedBy(o),
                                      copy |-> FirstResolution(o), state |-> "pending"]]
  /\ UNCHANGED <<events, people, connected>>

\* stage_deletion_report and its commit: the erasure and the report together.
Erase(o) ==
  /\ people' = people \ ErasedBy(o)
  /\ outbox' = [outbox EXCEPT ![o] = [id |-> Cardinality(Staged(outbox)) + 1, erased |-> ErasedBy(o),
                                      copy |-> FirstResolution(o), state |-> "pending"]]
  /\ IF SubjectOf[o] = WholeEvent
     THEN events' = events \ {EventOf[o]} /\ connected' = connected \ {EventOf[o]}
     ELSE UNCHANGED <<events, connected>>

\* Variant: an order that was claimed again is applied again.
StageAgain(h) ==
  /\ Answer(h, "claim", {"ok"})
  /\ calls[h].event \in events \cap active
  /\ Erase(calls[h].at)
  /\ NextOrder(h)
  /\ UNCHANGED <<active, server, faults, restored>>

\* A work order that has a row already returns that row.
Stage(h) ==
  LET o == calls[h].at
  IN  /\ Answer(h, "claim", {"ok"})
      /\ \/ /\ outbox[o] # NoRow
            /\ UNCHANGED <<events, people, connected, outbox>>
         \/ /\ outbox[o] = NoRow
            /\ calls[h].event \in events \cap active
            /\ Erase(o)
      /\ NextOrder(h)
      /\ UNCHANGED <<active, server, faults, restored>>

\* The event or its key is gone by now, or the signature fails: rollback and
\* HTTP 409.  The publish secret of a whole event was deleted before, and the
\* credential store takes no part in the rollback.
StageRaises(h) ==
  LET o == calls[h].at
  IN  /\ Answer(h, "claim", {"ok"})
      /\ outbox[o] = NoRow
      /\ \/ calls[h].event \notin events \cap active /\ UNCHANGED faults
         \/ Fault
      /\ connected' = IF SubjectOf[o] = WholeEvent /\ calls[h].event \in events
                      THEN connected \ {EventOf[o]} ELSE connected
      /\ calls' = [calls EXCEPT ![h] = Idle]
      /\ UNCHANGED <<events, people, active, outbox, server, restored>>

-----------------------------------------------------------------------------
(* The server and the network *)

ServerLists(e) == {o \in Orders : EventOf[o] = e /\ server[o].report = NoReport}

\* The server takes a request and its answer arrives.  It takes the same report
\* or resolution again without complaint.
ServerAnswers(h) ==
  LET c == calls[h]
  IN  /\ c.pc # "idle" /\ c.answer = "none"
      /\ calls' = [calls EXCEPT
                     ![h].answer = IF c.pc = "report" /\ c.at \in Refused THEN "refused" ELSE "ok",
                     ![h].todo = IF c.pc = "list" THEN ServerLists(c.event) ELSE @]
      /\ server' = IF c.pc = "report" /\ c.at \notin Refused
                   THEN [server EXCEPT ![c.at].report = outbox[c.at].erased]
                   ELSE IF c.pc = "copy" THEN [server EXCEPT ![c.at].copy = outbox[c.at].copy]
                   ELSE server
      /\ UNCHANGED <<local, outbox, faults>>

\* The connection breaks, before or after the server took the request.
NetworkFails(h) ==
  /\ Fault
  /\ calls[h].pc # "idle" /\ calls[h].answer \in {"none", "ok"}
  /\ calls' = [calls EXCEPT ![h].answer = "error"]
  /\ UNCHANGED <<local, outbox, server>>

\* The server answers with an error status and does nothing.
ServerRefuses(h) ==
  /\ Fault
  /\ calls[h].pc # "idle" /\ calls[h].answer = "none"
  /\ calls' = [calls EXCEPT ![h].answer = "refused"]
  /\ UNCHANGED <<local, outbox, server>>

\* The process ends; when it was erasing a whole event, maybe between the
\* credential store and the commit.
Crash ==
  /\ Fault
  /\ calls' = [h \in Handlers |-> Idle]
  /\ \/ UNCHANGED connected
     \/ \E h \in Handlers :
          /\ Answer(h, "claim", {"ok"}) /\ SubjectOf[calls[h].at] = WholeEvent
          /\ outbox[calls[h].at] = NoRow
          /\ connected' = connected \ {EventOf[calls[h].at]}
  /\ UNCHANGED <<events, people, active, outbox, server, restored>>

-----------------------------------------------------------------------------
(* Local changes beside the work orders *)

DeleteEvent(e) ==
  /\ e \in events
  /\ events' = events \ {e}
  /\ connected' = connected \ {e}
  /\ people' = {p \in people : MemberOf[p] # e}
  /\ UNCHANGED <<active, outbox, server, calls, faults, restored>>

DeletePerson(p) ==
  /\ p \in people
  /\ people' = people \ {p}
  /\ UNCHANGED <<events, connected, active, outbox, server, calls, faults, restored>>

\* set_mp_backend_settings and delete_mp_backend_settings.
ChangeConnection(e) ==
  /\ e \in events
  /\ connected' = IF e \in connected THEN connected \ {e} ELSE connected \cup {e}
  /\ UNCHANGED <<events, people, active, outbox, server, calls, faults, restored>>

\* retire_key, and refresh-status after the server activated a key.
ChangeKey(e) ==
  /\ \/ e \in active /\ active' = active \ {e}
     \/ e \in events \ active /\ active' = active \cup {e}
  /\ UNCHANGED <<events, people, connected, outbox, server, calls, faults, restored>>

\* import_data with the backup of an event: its event and its people come back
\* under the identities they had.  They must not be in the database; what was
\* erased, and reported, is not looked at.  Publish secrets are not imported, and
\* a row of the event may get the id it had.
ImportBackup(e) ==
  /\ Fault
  /\ e \notin events
  /\ events' = events \cup {e}
  /\ \E backup \in SUBSET {p \in Persons \ people : MemberOf[p] = e} :
       /\ people' = people \cup backup
       /\ restored' = restored \cup {o \in Staged(outbox) :
                         EventOf[o] = e /\ SubjectOf[o] \in backup \cup {WholeEvent}}
  /\ UNCHANGED <<connected, active, outbox, server, calls>>

-----------------------------------------------------------------------------
OutboxNext ==
  \/ \E h \in Handlers :
       \/ StartRetry(h)
       \/ \E e \in Events : StartSync(h, e)
       \/ \E o \in Orders : ConfirmCopies(h, o)
       \/ ReportAnswered(h)
       \/ CopyAnswered(h)
       \/ CopyRaises(h)
       \/ ListAnswered(h)
       \/ ClaimRefused(h)
       \/ Stage(h)
       \/ StageRaises(h)
       \/ ServerAnswers(h)
       \/ NetworkFails(h)
       \/ ServerRefuses(h)
  \/ Crash
  \/ \E e \in Events : DeleteEvent(e) \/ ChangeConnection(e) \/ ChangeKey(e) \/ ImportBackup(e)
  \/ \E p \in Persons : DeletePerson(p)

OutboxSpec == OutboxInit /\ [][OutboxNext]_vars

Handled(h) ==
  ReportAnswered(h) \/ CopyAnswered(h) \/ CopyRaises(h) \/ ListAnswered(h)
  \/ ClaimRefused(h) \/ Stage(h) \/ StageRaises(h)

\* The event loop resumes every handler, a request that gets no fault is
\* answered, and the operator keeps pressing "Retry pending deletion reports".
OutboxFairness ==
  \A h \in Handlers : /\ WF_vars(Handled(h))
                      /\ WF_vars(ServerAnswers(h))
                      /\ WF_vars(StartRetry(h))

FairOutboxSpec == OutboxSpec /\ OutboxFairness

-----------------------------------------------------------------------------
(* Properties *)

\* A row is closed, and its bearer secrets are dropped, only when the server
\* holds its report and its copy resolution, through every lost answer, crash
\* and concurrent flush.
SentIsDelivered ==
  \A o \in Orders :
    (outbox[o] # NoRow /\ outbox[o].state = "sent")
      => server[o] = [report |-> outbox[o].erased, copy |-> outbox[o].copy]

\* What the server holds a deletion report for is not on this desktop, unless a
\* backup was imported after it had been erased: the import checks its identities
\* against the rows that are there, not against what was reported.
ReportedIsErased ==
  \A o \in Orders :
    (server[o].report # NoReport /\ o \notin restored)
      => IF SubjectOf[o] = WholeEvent THEN EventOf[o] \notin events ELSE SubjectOf[o] \notin people

\* A repeated or resumed delivery never tells the server something else.
ReportsKept ==
  \A o \in Orders :
    /\ server[o].report # NoReport => server'[o].report = server[o].report
    /\ server[o].copy # "none" => server'[o].copy = server[o].copy
ReportIsStable == [][ReportsKept]_vars

\* The software never declares the copies of a subject resolved that it knows
\* to have one at a provider: this takes the operator.
SubjectCopiesConfirmed ==
  \A o \in Orders :
    (server[o].copy = "software" /\ SubjectOf[o] # WholeEvent)
      => outbox[o].erased \cap CopiedOut = {}

\* A report with its copy resolution reaches the server in the end, though the
\* server refuses other reports for ever and calls fail or crash on the way.
Deliverable(o) ==
  o \in Pending(outbox) \ Refused /\ outbox[o].copy # "none"
ReportsArrive == \A o \in Orders : Deliverable(o) ~> (outbox[o] # NoRow /\ outbox[o].state = "sent")

=============================================================================
