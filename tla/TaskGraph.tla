------------------------------ MODULE TaskGraph ------------------------------
(***************************************************************************)
(* What the dispatch of one plan promises: a task is issued only when all  *)
(* the tasks it depends on have finished, and finishes only once issued.   *)
(***************************************************************************)
CONSTANTS Tasks, Deps

VARIABLES issued, finished

Init == issued = {} /\ finished = {}

Issue(t) ==
  /\ Deps[t] \subseteq finished
  /\ issued' = issued \cup {t}
  /\ UNCHANGED finished

Finish(t) ==
  /\ t \in issued
  /\ finished' = finished \cup {t}
  /\ UNCHANGED issued

Next == \E t \in Tasks : Issue(t) \/ Finish(t)

Spec == Init /\ [][Next]_<<issued, finished>>

=============================================================================
