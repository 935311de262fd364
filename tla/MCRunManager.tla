---------------------------- MODULE MCRunManager ----------------------------
(***************************************************************************)
(* RunManager for TLC: two processes.                                      *)
(***************************************************************************)
EXTENDS RunManager

CONSTANTS m1, m2

MCManagers == {m1, m2}
=============================================================================
