----------------------- MODULE MCOptimisationTracker -----------------------
(* Instances of OptimisationTracker for TLC.                               *)
EXTENDS OptimisationTracker, TLC

CONSTANTS e1, e2, d1, d2

OneEvent == {e1}
TwoEvents == {e1, e2}
OneDay == {d1}
TwoDays == {d1, d2}
\* One branch handles both inconclusive verdicts, and a failed solve is told as
\* an exception of it is.
OneOfEach == {"completed", "infeasible"}
NoBundle == {}
CompletedJob == {"completed"}
=============================================================================
