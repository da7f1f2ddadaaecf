------------------------------ MODULE MCIntake ------------------------------
(* Instances of Intake for TLC: messages that say nothing, name an order, a   *)
(* customer, both, an item, another item, an address; snapshots that agree    *)
(* with them, differ, or lack a field.                                        *)
EXTENDS Intake

CONSTANTS wechat, xianyu, v1, v2

Text(order, f, v) == [order |-> order, says |-> [NoFields EXCEPT ![f] = v]]

Texts ==
  {Text(FALSE, "phone", None), Text(TRUE, "phone", None),
   Text(FALSE, "customer_id", v1), Text(TRUE, "customer_id", v2),
   Text(TRUE, "item_code", v1), Text(TRUE, "item_code", v2), Text(TRUE, "address", v1)}

ShotFields ==
  {[f \in FieldNames |-> IF f = "customer_id" THEN c ELSE IF f = "phone" THEN None
                         ELSE IF f = "item_code" THEN i ELSE a] :
     c \in {None, v1}, i \in {None, v1, v2}, a \in {None, v1}}

=============================================================================
