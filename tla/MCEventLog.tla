------------------------------ MODULE MCEventLog ------------------------------
(* Model values for EventLog. *)
EXTENDS EventLog, TLC

CONSTANTS p1, p2

MCProcs == {p1, p2}

MCSymmetry == Permutations(MCProcs)
=============================================================================
