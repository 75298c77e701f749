-------------------------- MODULE MCDeletionOutbox --------------------------
(* Instances of DeletionOutbox for TLC.                                    *)
EXTENDS DeletionOutbox, TLC

CONSTANTS e1, p1, o1, o2, h1, h2

OneEvent == {e1}
OnePerson == {p1}
Members == [p \in Persons |-> e1]
OneCopied == {p1}

\* A person with a provider copy, the whole event.
TwoOrders == {o1, o2}
OrderEvents == [o \in Orders |-> e1]
OrderSubjects == [o \in Orders |-> IF o = o1 THEN p1 ELSE WholeEvent]
SecondRefused == {o2}

TwoHandlers == {h1, h2}
=============================================================================
