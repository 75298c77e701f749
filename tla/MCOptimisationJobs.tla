------------------------ MODULE MCOptimisationJobs ------------------------
(* Instances of OptimisationJobs for TLC.                                  *)
EXTENDS OptimisationJobs, TLC

CONSTANTS e1, e2, d1, d2

MCEvents == {e1, e2}
MCDays == {d1, d2}
OneEvent == {e1}

\* The export does not wait for a run: a bundle may hold an active job.
BundleSample == {"running", "completed"}
FinishedStatuses == {"completed", "failed"}

\* Events and days are only ever compared for equality.
Symmetry == Permutations(MCEvents) \cup Permutations(MCDays)
AllAnswers == Verdicts \cup {"failed"}
=============================================================================
