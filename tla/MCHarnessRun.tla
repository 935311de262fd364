---------------------------- MODULE MCHarnessRun ----------------------------
(* HarnessRun on answers of up to two calls: the first call of turn one    *)
(* and the second of turn two act at once, the other two of those turns    *)
(* need an approval.                                                       *)
EXTENDS HarnessRun

MCGated == {<<1, 2>>, <<2, 1>>}

\* No two calls have the same fingerprint; the calls of turn one share a rule
\* with the first of turn two.
MCGrantKey ==
  [c \in CallIds |->
     [run |-> c, rule |-> IF c[1] = 1 \/ c = <<2, 1>> THEN <<0, 1>> ELSE <<0, 2>>]]
=============================================================================
