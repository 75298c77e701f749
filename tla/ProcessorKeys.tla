---------------------------- MODULE ProcessorKeys ----------------------------
(***************************************************************************)
(* The processor evidence keys: api/v1/operator_evidence.py with           *)
(* core/operator_evidence.py, and the ping that binds an event to the      *)
(* identity the server knows it by.                                        *)
(*                                                                         *)
(* Creating, importing, retiring and erasing are served on threads and     *)
(* commit more than once; enrolment, status refresh and ping are cut at    *)
(* their requests to the server.  The private key is in the credential     *)
(* store of the system, which takes no part in any transaction.            *)
(***************************************************************************)
EXTENDS Naturals

CONSTANTS
  Events, Keys, Handlers,
  Refs,       \* the event identities of the server
  NoEvent, NoRow, NoKey, NoRef

States == {"pending", "active", "retired"}

\* local_event_id is filled in by a commit of its own.
Row == [id : Nat, event : Events \cup {NoEvent}, ref : Refs, state : States]

ASSUME KeyNullAssumption ==
  NoEvent \notin Events /\ NoKey \notin Keys /\ NoRow \notin Row /\ NoRef \notin Refs

VARIABLES
  rows,      \* processor_evidence_keys: key -> row
  secrets,   \* keys whose private half is in the credential store
  evidence,  \* evidence_id of the events
  binding,   \* external: the event that the connection of an event leads to
  server,    \* external: what the server knows of a key
  calls,     \* the requests being served
  approved,  \* history: keys that the server's root has approved
  wiped,     \* history: keys whose private half an erasure or a refresh removed
  raced,     \* history: keys stored while another request was storing them
  reused     \* history: keys whose row got an id that a request had at hand

keyVars == <<rows, secrets, evidence, binding, server, calls, approved, wiped, raced,
             reused>>

KnownKey == [state : {"unknown", "challenged", "proven", "active", "revoked"},
             ref : Refs \cup {NoRef}]

\* A request: the step it is at, the rows its session loaded (their ids, the
\* key's state) and the event's identity, the server's event, its answer and
\* the keys that a status answer lists.
Call == [pc : {"idle", "storing", "refreshing", "binding", "erasing", "start", "proof", "status", "ping"},
         key : Keys \cup {NoKey}, event : Events \cup {NoEvent},
         ref : Refs \cup {NoRef}, server : Refs \cup {NoRef},
         ids : SUBSET Nat, loaded : States, got : {"none", "active", "challenge", "ok"},
         keys : SUBSET Keys]

KeysTypeOK ==
  /\ rows \in [Keys -> Row \cup {NoRow}]
  /\ secrets \subseteq Keys
  /\ evidence \in [Events -> Refs] /\ binding \in [Events -> Refs]
  /\ server \in [Keys -> KnownKey]
  /\ calls \in [Handlers -> Call]
  /\ approved \subseteq Keys
  /\ wiped \subseteq Keys /\ raced \subseteq Keys /\ reused \subseteq Keys

Idle == [pc |-> "idle", key |-> NoKey, event |-> NoEvent, ref |-> NoRef, server |-> NoRef,
         ids |-> {}, loaded |-> "pending", got |-> "none", keys |-> {}]

KeysInit ==
  /\ rows = [k \in Keys |-> NoRow] /\ secrets = {}
  /\ evidence \in [Events -> Refs] /\ binding = evidence
  /\ \A e, f \in Events : evidence[e] = evidence[f] => e = f
  /\ server = [k \in Keys |-> [state |-> "unknown", ref |-> NoRef]]
  /\ calls = [h \in Handlers |-> Idle]
  /\ approved = {} /\ wiped = {} /\ raced = {} /\ reused = {}

Stored(k) == rows[k] # NoRow
KeysOf(e) == {k \in Keys : Stored(k) /\ rows[k].event = e}
IdsOf(S) == {rows[k].id : k \in S}

\* SQLite gives a row the largest id in use plus one.
NextIds ==
  {i \in {1} \cup {rows[k].id + 1 : k \in {k \in Keys : Stored(k)}} :
     \A k \in Keys : Stored(k) => rows[k].id < i}

\* The rows without those that have one of the ids.
Without(ids) == [k \in Keys |-> IF Stored(k) /\ rows[k].id \in ids THEN NoRow ELSE rows[k]]

\* A request of the event with what it reads before its first await.
Opened(pc, e, k) ==
  [Idle EXCEPT !.pc = pc, !.key = k, !.event = e, !.ref = evidence[e], !.server = binding[e],
               !.ids = IF k = NoKey THEN {} ELSE {rows[k].id},
               !.loaded = IF k = NoKey THEN "pending" ELSE rows[k].state]

Open(h, call) == calls[h].pc = "idle" /\ calls' = [calls EXCEPT ![h] = call]
Done(h) == calls' = [calls EXCEPT ![h] = Idle]

-----------------------------------------------------------------------------
(* generate_key and import_encrypted_key, then the binding to the event *)

BeingStored(h, k) == \E g \in Handlers \ {h} : calls[g].pc = "storing" /\ calls[g].key = k

\* Variant: an import does not look for the key among the rows.
StoreUnchecked(h, e, k) ==
  /\ Open(h, [Idle EXCEPT !.pc = "storing", !.key = k, !.event = e, !.ref = evidence[e]])
  /\ secrets' = secrets \cup {k}
  /\ wiped' = wiped \ {k}
  /\ raced' = IF BeingStored(h, k) THEN raced \cup {k} ELSE raced
  /\ UNCHANGED <<rows, evidence, binding, server, approved, reused>>

\* A new key, or the package of one that has no row here.
Store(h, e, k) ==
  /\ ~Stored(k)
  /\ Open(h, [Idle EXCEPT !.pc = "storing", !.key = k, !.event = e, !.ref = evidence[e]])
  /\ secrets' = secrets \cup {k}
  /\ wiped' = wiped \ {k}
  /\ raced' = IF BeingStored(h, k) THEN raced \cup {k} ELSE raced
  /\ UNCHANGED <<rows, evidence, binding, server, approved, reused>>

\* The request of a row that was committed with an id of its own.
Inserted(c, ids) ==
  [Idle EXCEPT !.pc = "refreshing", !.key = c.key, !.event = c.event, !.ids = ids]

StoreCommits(h) ==
  LET c == calls[h]
  IN  /\ c.pc = "storing" /\ ~Stored(c.key)
      /\ \E i \in NextIds :
           /\ rows' = [rows EXCEPT ![c.key] =
                        [id |-> i, event |-> NoEvent, ref |-> c.ref, state |-> "pending"]]
           /\ calls' = [calls EXCEPT ![h] = Inserted(c, {i})]
           /\ reused' = IF \E g \in Handlers : i \in calls[g].ids THEN reused \cup {c.key} ELSE reused
      /\ UNCHANGED <<secrets, evidence, binding, server, approved, wiped, raced>>

\* The commit fails, because another request stored the same key (key_id is
\* unique) or for a reason of the database: the secret is taken back.
StoreFails(h) ==
  /\ calls[h].pc = "storing"
  /\ secrets' = secrets \ {calls[h].key}
  /\ Done(h)
  /\ UNCHANGED <<rows, evidence, binding, server, approved, wiped, raced, reused>>

\* The row is read again after its commit.
StoreRefreshed(h) ==
  LET c == calls[h]
  IN  /\ c.pc = "refreshing" /\ \E k \in Keys : Stored(k) /\ rows[k].id \in c.ids
      /\ calls' = [calls EXCEPT ![h] =
                     [Idle EXCEPT !.pc = "binding", !.event = c.event, !.ids = c.ids]]
      /\ UNCHANGED <<rows, secrets, evidence, binding, server, approved, wiped, raced, reused>>

\* This read fails, because the row is gone or for a reason of the database: the
\* secret is taken back too, from under the row that is committed.
StoreNotRefreshed(h) ==
  /\ calls[h].pc = "refreshing"
  /\ secrets' = secrets \ {calls[h].key}
  /\ wiped' = wiped \cup {calls[h].key}
  /\ Done(h)
  /\ UNCHANGED <<rows, evidence, binding, server, approved, raced, reused>>

StoreBinds(h) ==
  LET c == calls[h]
  IN  /\ c.pc = "binding"
      /\ rows' = [k \in Keys |-> IF Stored(k) /\ rows[k].id \in c.ids
                               THEN [rows[k] EXCEPT !.event = c.event] ELSE rows[k]]
      /\ Done(h)
      /\ UNCHANGED <<secrets, evidence, binding, server, approved, wiped, raced, reused>>

-----------------------------------------------------------------------------
(* enrol_local_processor_key *)

\* The session writes a column only when it differs from what it had loaded,
\* and into the row that has the id by now.
Written(c, state) ==
  [k \in Keys |-> IF Stored(k) /\ rows[k].id \in c.ids /\ c.loaded # state
                  THEN [rows[k] EXCEPT !.state = state] ELSE rows[k]]

EnrolAsks(h, e, k) ==
  /\ Stored(k) /\ rows[k].ref = evidence[e]
  /\ Open(h, Opened("start", e, k))
  /\ UNCHANGED <<rows, secrets, evidence, binding, server, approved, wiped, raced, reused>>

\* A challenge is signed with the private key when the state it had loaded
\* allows it and the challenge names the event of the row; every other outcome
\* is RequestFails.
EnrolStarted(h) ==
  LET c == calls[h]
  IN  /\ c.pc = "start"
      /\ \/ /\ c.got = "active"
            /\ rows' = Written(c, "active")
            /\ Done(h)
         \/ /\ c.got = "challenge" /\ c.server = c.ref
            /\ c.loaded \in {"pending", "active"} /\ c.key \in secrets
            /\ calls' = [calls EXCEPT ![h].pc = "proof", ![h].got = "none"]
            /\ UNCHANGED rows
      /\ UNCHANGED <<secrets, evidence, binding, server, approved, wiped, raced, reused>>

\* Variant: the state is written whatever the session had loaded.
EnrolOverwrites(h) ==
  LET c == calls[h]
  IN  /\ c.pc = "proof" /\ c.got = "ok"
      /\ rows' = [k \in Keys |-> IF Stored(k) /\ rows[k].id \in c.ids
                               THEN [rows[k] EXCEPT !.state = "pending"] ELSE rows[k]]
      /\ Done(h)
      /\ UNCHANGED <<secrets, evidence, binding, server, approved, wiped, raced, reused>>

EnrolSubmitted(h) ==
  LET c == calls[h]
  IN  /\ c.pc = "proof" /\ c.got = "ok"
      /\ rows' = Written(c, "pending")
      /\ Done(h)
      /\ UNCHANGED <<secrets, evidence, binding, server, approved, wiped, raced, reused>>

-----------------------------------------------------------------------------
(* refresh_processor_key_status and ping_mp_backend *)

RefreshAsks(h, e) ==
  /\ Open(h, Opened("status", e, NoKey))
  /\ UNCHANGED <<rows, secrets, evidence, binding, server, approved, wiped, raced, reused>>

\* Variant: the status that the server gives a key is not looked at.
MarkedAll(c) ==
  [k \in Keys |-> IF k \in KeysOf(c.event) /\ rows[k].ref = c.ref
                  THEN [rows[k] EXCEPT !.state = "active"] ELSE rows[k]]

Marked(c) ==
  [k \in Keys |-> IF k \in KeysOf(c.event) \cap c.keys /\ rows[k].ref = c.ref
                  THEN [rows[k] EXCEPT !.state = "active"] ELSE rows[k]]

\* The rows are read after the answer, the event's identity before it.
RefreshAnswered(h) ==
  LET c == calls[h]
  IN  /\ c.pc = "status" /\ c.got = "ok"
      /\ c.server = c.ref
      /\ rows' = Marked(c)
      /\ Done(h)
      /\ UNCHANGED <<secrets, evidence, binding, server, approved, wiped, raced, reused>>

PingAsks(h, e) ==
  /\ Open(h, [Idle EXCEPT !.pc = "ping", !.event = e, !.server = binding[e]])
  /\ UNCHANGED <<rows, secrets, evidence, binding, server, approved, wiped, raced, reused>>

\* The event takes over the identity, unless another event has it; outstanding
\* deletion reports may forbid it, which is RequestFails.
PingAnswered(h) ==
  LET c == calls[h]
  IN  /\ c.pc = "ping"
      /\ \A f \in Events \ {c.event} : evidence[f] # c.server
      /\ evidence' = [evidence EXCEPT ![c.event] = c.server]
      /\ Done(h)
      /\ UNCHANGED <<rows, secrets, binding, server, approved, wiped, raced, reused>>

\* A network error, an error status, an identity or signature that is refused.
RequestFails(h) ==
  /\ calls[h].pc \in {"start", "proof", "status", "ping"}
  /\ Done(h)
  /\ UNCHANGED <<rows, secrets, evidence, binding, server, approved, wiped, raced, reused>>

-----------------------------------------------------------------------------
(* retire_key, erase_event_keys *)

\* Variant: retiring writes another state of the schema.
RetireAsRevoked(k) ==
  /\ Stored(k) /\ rows[k].state = "active"
  /\ server[k].state = "revoked"
  /\ rows' = [rows EXCEPT ![k].state = "revoked"]
  /\ UNCHANGED <<secrets, evidence, binding, server, calls, approved, wiped, raced, reused>>

\* The operator confirms "REVOKED ON SERVER", and means it; the code cannot see it.
RetireKey(k) ==
  /\ Stored(k) /\ rows[k].state = "active"
  /\ server[k].state = "revoked"
  /\ rows' = [rows EXCEPT ![k].state = "retired"]
  /\ UNCHANGED <<secrets, evidence, binding, server, calls, approved, wiped, raced, reused>>

\* Variant: the metadata goes first, the private keys after its commit.
EraseMetadata(h, e) ==
  /\ KeysOf(e) # {}
  /\ Open(h, [Idle EXCEPT !.pc = "erasing", !.ids = IdsOf(KeysOf(e))])
  /\ rows' = Without(IdsOf(KeysOf(e)))
  /\ UNCHANGED <<secrets, evidence, binding, server, approved, wiped, raced, reused>>

\* The private keys go first; the credential store may fail on the way.
EraseSecrets(h, e) ==
  /\ KeysOf(e) # {}
  /\ \/ /\ secrets' = secrets \ KeysOf(e)
        /\ wiped' = wiped \cup KeysOf(e)
        /\ Open(h, [Idle EXCEPT !.pc = "erasing", !.ids = IdsOf(KeysOf(e))])
     \/ /\ \E S \in SUBSET KeysOf(e) : secrets' = secrets \ S /\ wiped' = wiped \cup S
        /\ calls[h].pc = "idle"
        /\ UNCHANGED calls
  /\ UNCHANGED <<rows, evidence, binding, server, approved, raced, reused>>

\* The rows that were read before, by their ids.
EraseCommits(h) ==
  /\ calls[h].pc = "erasing"
  /\ rows' = Without(calls[h].ids)
  /\ Done(h)
  /\ UNCHANGED <<secrets, evidence, binding, server, approved, wiped, raced, reused>>

-----------------------------------------------------------------------------
(* The process, the settings, the server *)

Crash ==
  /\ calls' = [h \in Handlers |-> Idle]
  /\ UNCHANGED <<rows, secrets, evidence, binding, server, approved, wiped, raced, reused>>

\* The settings of an event are changed to another event of the server.
Reconnect(e, r) ==
  /\ binding[e] # r
  /\ binding' = [binding EXCEPT ![e] = r]
  /\ UNCHANGED <<rows, secrets, evidence, server, calls, approved, wiped, raced, reused>>

Answered(h, pc) == calls[h].pc = pc /\ calls[h].got = "none"
Answer(h, got) == calls' = [calls EXCEPT ![h].got = got]

\* The server knows the key as active for this event, or issues a challenge for
\* a key that has not been approved.
ServerStarts(h) ==
  LET c == calls[h]
      known == server[c.key]
  IN  /\ Answered(h, "start")
      /\ \/ /\ known = [state |-> "active", ref |-> c.server]
            /\ Answer(h, "active")
            /\ UNCHANGED server
         \/ /\ known.state \in {"unknown", "challenged", "proven"}
            /\ Answer(h, "challenge")
            /\ server' = [server EXCEPT ![c.key] = [state |-> "challenged", ref |-> c.server]]
      /\ UNCHANGED <<rows, secrets, evidence, binding, approved, wiped, raced, reused>>

ServerTakesProof(h) ==
  LET c == calls[h]
  IN  /\ Answered(h, "proof")
      /\ server[c.key] = [state |-> "challenged", ref |-> c.server]
      /\ server' = [server EXCEPT ![c.key].state = "proven"]
      /\ Answer(h, "ok")
      /\ UNCHANGED <<rows, secrets, evidence, binding, approved, wiped, raced, reused>>

ServerReports(h) ==
  LET c == calls[h]
  IN  /\ Answered(h, "status")
      /\ calls' = [calls EXCEPT ![h].got = "ok",
                     ![h].keys = {k \in Keys : server[k] = [state |-> "active", ref |-> c.server]}]
      /\ UNCHANGED <<rows, secrets, evidence, binding, server, approved, wiped, raced, reused>>

RootDecides(k) ==
  /\ \/ /\ server[k].state = "proven"
        /\ server' = [server EXCEPT ![k].state = "active"]
        /\ approved' = approved \cup {k}
     \/ /\ server[k].state = "active"
        /\ server' = [server EXCEPT ![k].state = "revoked"]
        /\ UNCHANGED approved
  /\ UNCHANGED <<rows, secrets, evidence, binding, calls, wiped, raced, reused>>

-----------------------------------------------------------------------------
KeysNext ==
  \/ \E h \in Handlers :
       \/ \E e \in Events :
            \/ \E k \in Keys : Store(h, e, k) \/ EnrolAsks(h, e, k)
            \/ RefreshAsks(h, e)
            \/ PingAsks(h, e)
            \/ EraseSecrets(h, e)
       \/ StoreCommits(h)
       \/ StoreFails(h)
       \/ StoreRefreshed(h)
       \/ StoreNotRefreshed(h)
       \/ StoreBinds(h)
       \/ EnrolStarted(h)
       \/ EnrolSubmitted(h)
       \/ RefreshAnswered(h)
       \/ PingAnswered(h)
       \/ RequestFails(h)
       \/ EraseCommits(h)
       \/ ServerStarts(h)
       \/ ServerTakesProof(h)
       \/ ServerReports(h)
  \/ \E k \in Keys : RetireKey(k) \/ RootDecides(k)
  \/ \E e \in Events, r \in Refs : Reconnect(e, r)
  \/ Crash

KeysSpec == KeysInit /\ [][KeysNext]_keyVars

-----------------------------------------------------------------------------
(* Properties *)

\* A key signs Desktop evidence only after the root of the server approved this
\* very key, through interrupted enrolments, erasures and new imports; unless its
\* row took the id of a row that a request under way had loaded.
ActiveWasApproved ==
  \A k \in Keys : (Stored(k) /\ rows[k].state = "active") => k \in approved \cup reused

\* An enrolment that ends late does not take an active key back to pending, the
\* row of a reused id excepted.
ActiveKept ==
  \A k \in Keys \ reused :
    (Stored(k) /\ rows[k].state = "active" /\ rows'[k] # NoRow) => rows'[k].state # "pending"
ActiveIsKept == [][ActiveKept]_keyVars

\* A key in the list can sign: its private half is there, unless an erasure was
\* interrupted, its row could not be read again right after its commit, or two
\* requests were storing it at once.
KeyHasSecret == \A k \in Keys : Stored(k) => k \in secrets \cup wiped \cup raced

\* The row of a key goes only when its private half has gone: an erasure that
\* was interrupted never claims too much, the row of a reused id excepted.
ErasureIsTrue ==
  \A k \in Keys : (Stored(k) /\ rows'[k] = NoRow) => k \notin secrets' \/ k \in reused
ErasureClaimsAreTrue == [][ErasureIsTrue]_keyVars
=============================================================================
