----------------------------- MODULE MCGateway -----------------------------
(* Instances of Gateway for TLC: two users, a debounce window of two seconds.  *)
(* The WeChat observer publishes buffered messages, the gateway also takes     *)
(* debounced ones of another producer.                                         *)
EXTENDS Gateway

CONSTANTS u1, u2

BufferedAndMixed ==
  {[u \in Users |-> "buffered"],
   [u \in Users |-> IF u = u1 THEN "buffered" ELSE "debounced"]}

OneLags == [u \in Users |-> IF u = u1 THEN {0, 1} ELSE {0}]

=============================================================================
