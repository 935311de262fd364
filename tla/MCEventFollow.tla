---------------------------- MODULE MCEventFollow ----------------------------
(* Model values for EventFollow. *)
EXTENDS EventFollow

CONSTANT f1

MCFollower == {f1}
=============================================================================
