---------------------------- MODULE MCLocalExports ----------------------------
(* Instances of LocalExports for TLC.                                       *)
EXTENDS LocalExports

CONSTANTS p1, p2, x1, o1

TwoPdfJobs == {p1, p2}
OneExcelJob == {x1}
OneOwner == {o1}

=============================================================================
