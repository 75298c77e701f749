----------------------------- MODULE EventDays -----------------------------
(***************************************************************************)
(* What the pages of an event have in common: the days they work on, one   *)
(* after the other, and the number of things that happen around them.      *)
(***************************************************************************)
EXTENDS Naturals

CONSTANTS
  LastDay,   \* the days of the event are 1..LastDay
  MaxTurns

ASSUME DaysAssumption == LastDay \in Nat \ {0} /\ MaxTurns \in Nat

VARIABLE turns  \* what happened around the page

Days == 1..LastDay

Turn == turns < MaxTurns /\ turns' = turns + 1

=============================================================================
