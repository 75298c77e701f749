----------------------------- MODULE MCFlowCheck -----------------------------
(* Instances of FlowCheck for TLC.                                         *)
EXTENDS FlowCheck

TwoContents == {"none", "easy"}
EasyDays == {[d \in 1..2 |-> "easy"]}

=============================================================================
