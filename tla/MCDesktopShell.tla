---------------------------- MODULE MCDesktopShell ----------------------------
(* Instances of DesktopShell for TLC.                                       *)
EXTENDS DesktopShell

CONSTANTS j1, w1, w2, w3

OneJob == {j1}
ThreeWindows == {w1, w2, w3}

=============================================================================
