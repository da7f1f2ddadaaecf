------------------------------ MODULE MCUiLock ------------------------------
(* Instances of UiLock for TLC.  One token more than executors is what uuid4  *)
(* needs never to run out: a dead executor may have left its token in the key. *)
(* Executors and tokens are interchangeable; the symmetry is for runs without  *)
(* liveness properties.                                                       *)
EXTENDS UiLock, TLC

Symmetry == Permutations(Executors) \cup Permutations(Tokens)

=============================================================================
