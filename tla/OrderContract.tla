---------------------------- MODULE OrderContract ----------------------------
(***************************************************************************)
(* What an order promises the people around it, with no request sessions   *)
(* in it: it is placed, moves forward along NEW, CONFIRMED, SHIPPED,       *)
(* COMPLETED, may be stopped until it is finished, is readdressed only     *)
(* before it ships, and carries the trace of a cancellation exactly when   *)
(* it was cancelled.  OrderLifecycle implements this specification as long *)
(* as two requests never overlap on one order (OrderLifecycleProofs).      *)
(***************************************************************************)
CONSTANTS Orders,      \* order ids
          People,      \* user ids
          Staff,       \* the people whose role is MANAGER or ADMIN
          Addresses,   \* delivery addresses
          Reasons,     \* cancellation reasons
          None         \* nothing recorded

VARIABLE orders        \* order id -> what is on record about the order

Placed(p, a) ==
  [customer_id |-> p, status |-> "NEW", delivery_address |-> a,
   cancelled_by |-> None, cancelled_by_user_id |-> None,
   cancellation_reason |-> None]

Follows(from, to) ==
  \/ from = "NEW"       /\ to = "CONFIRMED"
  \/ from = "CONFIRMED" /\ to = "SHIPPED"
  \/ from = "SHIPPED"   /\ to = "COMPLETED"

BeforeDispatch == {"NEW", "CONFIRMED"}
Unfinished     == BeforeDispatch \cup {"SHIPPED"}
-----------------------------------------------------------------------------
Init == orders = [o \in {} |-> o]

Place(o, p, a) ==
  /\ o \notin DOMAIN orders
  /\ orders' = [x \in DOMAIN orders \cup {o} |->
                  IF x = o THEN Placed(p, a) ELSE orders[x]]

Advance(o, to) ==
  /\ Follows(orders[o].status, to)
  /\ orders' = [orders EXCEPT ![o] = [@ EXCEPT !.status = to]]

\* Stops an order, leaving who did it and why on it.
Stopped(o, by, who, why) ==
  orders' = [orders EXCEPT ![o] = [@ EXCEPT !.status = "CANCELLED",
                                            !.cancelled_by = by,
                                            !.cancelled_by_user_id = who,
                                            !.cancellation_reason = why]]

\* The buyer gives no reason and has to be in time.
Withdraw(o) ==
  /\ orders[o].status \in BeforeDispatch
  /\ Stopped(o, "CUSTOMER", orders[o].customer_id, None)

\* Staff may stop anything unfinished and always say why.
Reject(o, who, why) ==
  /\ orders[o].status \in Unfinished
  /\ Stopped(o, "MANAGER", who, why)

Readdress(o, a) ==
  /\ orders[o].status \in BeforeDispatch
  /\ orders' = [orders EXCEPT ![o] = [@ EXCEPT !.delivery_address = a]]

Next ==
  \/ \E o \in Orders, p \in People, a \in Addresses : Place(o, p, a)
  \/ \E o \in DOMAIN orders :
       \/ \E to \in {"CONFIRMED", "SHIPPED", "COMPLETED"} : Advance(o, to)
       \/ Withdraw(o)
       \/ \E who \in Staff, why \in Reasons : Reject(o, who, why)
       \/ \E a \in Addresses : Readdress(o, a)

Spec == Init /\ [][Next]_orders
=============================================================================
