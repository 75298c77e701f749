------------------------- MODULE MCGeneralSchedule -------------------------
(* The public programme for TLC. *)
EXTENDS GeneralSchedule
=============================================================================
