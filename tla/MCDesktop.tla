------------------------------ MODULE MCDesktop ------------------------------
(* Instances of Desktop for TLC: an order for a WeChat group, a reply meant    *)
(* for a customer of another platform (any worker of the group may be given    *)
(* it, and WeChat's search does not find the recipient), a dispatch without a  *)
(* target, and an action WeChat's registry lacks.  A second conversation may   *)
(* be open from the start.  The executors are interchangeable.                 *)
EXTENDS Desktop, TLC

CONSTANTS order, foreign, untargeted, check, group, customer, stranger

WechatActions == {"send_dispatch_message", "send_auto_reply"}
OneTask == {order}
AllTasks == {order, foreign, untargeted, check}

ActionOf == [t \in AllTasks |->
  IF t = check THEN "capture_and_validate_order"
  ELSE IF t = foreign THEN "send_auto_reply" ELSE "send_dispatch_message"]
OverrideOf == [t \in AllTasks |-> IF t = order THEN group ELSE Nothing]
UidOf == [t \in AllTasks |-> IF t = untargeted THEN Nothing ELSE stranger]

\* Once two sends have run into each other nothing is claimed any more.
Undisturbed == ~overlapped

Symmetry == Permutations(Executors)

=============================================================================
