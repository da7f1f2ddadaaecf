--------------------------- MODULE MCCoordinator ---------------------------
(* Instances of Coordinator for TLC.  The plan: a check, a reply beside it,   *)
(* and a dispatch that depends on both, so that there are a task with several *)
(* dependencies and two that may finish in either order.  OrderPlan is the    *)
(* plan BrainAgent.build_tasks makes of an order.                             *)
EXTENDS Coordinator, FiniteSetsExt, TLC

CONSTANTS
  check, reply, dispatch,
  c1, c2,
  MaxOverlapped  \* bound: aborts and repeated entries once handlers overlapped

PlanTasks == {check, reply, dispatch}
PlanDeps == [t \in PlanTasks |-> IF t = dispatch THEN {check, reply} ELSE {}]
PlanSequence == [t \in PlanTasks |-> IF t = check THEN 1 ELSE IF t = reply THEN 2 ELSE 5]

OrderTasks == {check, dispatch}
OrderDeps == [t \in OrderTasks |-> IF t = dispatch THEN {check} ELSE {}]
OrderSequence == [t \in OrderTasks |-> IF t = check THEN 1 ELSE 2]

Checks == {check}

Symmetry == Permutations(Coordinators)

\* A control plane that runs alone is followed to the bounds of Coordinator.
Repeated(t) == IF copies[t] > 1 THEN copies[t] - 1 ELSE 0
Bounded == overlapped => aborts + MapThenSumSet(Repeated, Tasks) <= MaxOverlapped

=============================================================================
