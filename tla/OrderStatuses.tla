---------------------------- MODULE OrderStatuses ----------------------------
(***************************************************************************)
(* The stages of an order and the table of moves between them, as the      *)
(* aggregate, the read model and the staff screens all read it.            *)
(***************************************************************************)

OrderStatus == {"NEW", "CONFIRMED", "SHIPPED", "COMPLETED", "CANCELLED"}

\* Which status an order may move to from each of its states.
ALLOWED_ORDER_TRANSITIONS(status) ==
  CASE status = "NEW"       -> {"CONFIRMED", "CANCELLED"}
    [] status = "CONFIRMED" -> {"SHIPPED", "CANCELLED"}
    [] status = "SHIPPED"   -> {"COMPLETED", "CANCELLED"}
    [] OTHER                -> {}

CUSTOMER_CANCELLABLE_STATUSES == {"NEW", "CONFIRMED"}

EDITABLE_ORDER_STATUSES == {"NEW", "CONFIRMED"}

TERMINAL_ORDER_STATUSES == {"COMPLETED", "CANCELLED"}
=============================================================================
