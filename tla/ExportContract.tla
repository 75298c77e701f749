--------------------------- MODULE ExportContract ---------------------------
(***************************************************************************)
(* What the pages and the Electron shell may rely on when they hand a      *)
(* schedule to one of the two local export managers (PDF and Excel): one   *)
(* export per window at a time, an export that was withdrawn leaves no     *)
(* document, a completed one left its document before it said so, and      *)
(* every accepted export ends.                                             *)
(*                                                                         *)
(* PdfExport and ExcelExport are the managers as they are written; both    *)
(* are checked to implement this module.                                   *)
(***************************************************************************)
CONSTANTS Jobs, Owners, NoOwner

VARIABLES
  status,     \* what is known of each export
  owner,      \* the window that asked for it
  withdrawn,  \* the active exports that were cancelled, closed or shut down
  documents   \* the exports whose document is in the output folder

contractVars == <<status, owner, withdrawn, documents>>

Ends == {"completed", "failed", "cancelled"}

ContractInit ==
  /\ status = [j \in Jobs |-> "none"]
  /\ owner = [j \in Jobs |-> NoOwner]
  /\ withdrawn = {}
  /\ documents = {}

ActiveOf(o) == {j \in Jobs : owner[j] = o /\ status[j] = "active"}

Accept(j, o) ==
  /\ status[j] = "none"
  /\ ActiveOf(o) = {}
  /\ status' = [status EXCEPT ![j] = "active"]
  /\ owner' = [owner EXCEPT ![j] = o]
  /\ UNCHANGED <<withdrawn, documents>>

Withdraw(S) ==
  /\ \A j \in S : status[j] = "active"
  /\ withdrawn' = withdrawn \cup S
  /\ UNCHANGED <<status, owner, documents>>

EndAs(j, end) ==
  /\ status[j] = "active"
  /\ status' = [status EXCEPT ![j] = end]
  /\ withdrawn' = withdrawn \ {j}
  /\ UNCHANGED owner

Complete(j) ==
  /\ j \notin withdrawn
  /\ EndAs(j, "completed")
  /\ documents' = documents \cup {j}

\* The document may be in place when a later file operation fails.
Fail(j) ==
  /\ j \notin withdrawn
  /\ EndAs(j, "failed")
  /\ documents' \in {documents, documents \cup {j}}

GiveUp(j) ==
  /\ j \in withdrawn
  /\ EndAs(j, "cancelled")
  /\ UNCHANGED documents

Forget(j) ==
  /\ status[j] \in Ends
  /\ status' = [status EXCEPT ![j] = "gone"]
  /\ UNCHANGED <<owner, withdrawn, documents>>

End(j) == Complete(j) \/ Fail(j) \/ GiveUp(j)

ContractNext ==
  \/ \E j \in Jobs : End(j) \/ Forget(j) \/ \E o \in Owners : Accept(j, o)
  \/ \E S \in SUBSET Jobs : Withdraw(S)

ContractSafety == ContractInit /\ [][ContractNext]_contractVars

Contract == ContractSafety /\ \A j \in Jobs : WF_contractVars(End(j))
=============================================================================
