---------------------------- MODULE MCTaskStream ----------------------------
(* Instances of TaskStream for TLC: two workers, with names of their own or   *)
(* with the default name of their host.                                       *)
EXTENDS TaskStream

CONSTANTS w1, w2, n1, n2

OwnNames == [w \in {w1, w2} |-> IF w = w1 THEN n1 ELSE n2]
SharedName == [w \in {w1, w2} |-> n1]

=============================================================================
