---------------------------- MODULE MCPublishing ----------------------------
(* Instances of Publishing for TLC.                                        *)
EXTENDS Publishing

SecondDay == {2}
FirstNight == {1}
NoDay == {}
AllTargets == {"pdf", "google", "mp-backend"}
NoFiles == {"google", "mp-backend"}

=============================================================================
