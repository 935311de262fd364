------------------------- MODULE MCCheckpointJournal -------------------------
(* Model values for CheckpointJournal, and what to identify. *)
EXTENDS CheckpointJournal, TLC

CONSTANTS p1, p2, a, b

MCProcs == {p1, p2}
MCContents == {a, b}

MCSymmetry == Permutations(MCProcs) \cup Permutations(MCContents)
=============================================================================
