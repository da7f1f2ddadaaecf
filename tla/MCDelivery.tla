----------------------------- MODULE MCDelivery -----------------------------
(* Instances of Delivery for TLC: the plan BrainAgent.build_tasks makes of an  *)
(* order, a check and a dispatch that waits for it.                            *)
EXTENDS Delivery

CONSTANTS check, dispatch, w1, w2, n1, n2

OrderTasks == {check, dispatch}
OrderDeps == [t \in OrderTasks |-> IF t = dispatch THEN {check} ELSE {}]
OrderSequence == [t \in OrderTasks |-> IF t = check THEN 1 ELSE 2]
Checks == {check}

\* WeChat's registry and the default one.
BothRegistries == {{dispatch}, OrderTasks}

OwnNames == [w \in Workers |-> IF w = w1 THEN n1 ELSE n2]

=============================================================================
