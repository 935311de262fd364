----------------------------- MODULE MCApprovals -----------------------------
(***************************************************************************)
(* Approvals for TLC: two operators.                                       *)
(***************************************************************************)
EXTENDS Approvals

CONSTANTS o1, o2

MCOperators == {o1, o2}
=============================================================================
