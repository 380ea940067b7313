--------------------------- MODULE OrderLifecycle ---------------------------
(***************************************************************************)
(* Placed orders and the request sessions that change them.                *)
(*                                                                         *)
(* A command reads the order into its own SQLAlchemy session, runs the     *)
(* aggregate's method on that copy and commits: one UPDATE of the columns  *)
(* the method changed, and the events it recorded as outbox rows, in one   *)
(* transaction.  Nothing is locked between the read and the commit and     *)
(* there is no version column, so the row may have moved on meanwhile.     *)
(* Sessions of different people interleave; those of one person do not     *)
(* (one chat's updates are isolated from each other).                      *)
(***************************************************************************)
EXTENDS Naturals, Sequences, OrderStatuses

CONSTANTS Orders,      \* order ids
          People,      \* ids of registered users
          Staff,       \* the users whose role is MANAGER or ADMIN
          Addresses,   \* delivery addresses
          Reasons,     \* cancellation reasons
          Sessions,    \* request-scoped database sessions
          None,        \* SQL NULL and Python None
          MaxEvents    \* bound: events of one order after which no request starts

ASSUME OrderAssumption ==
  /\ Staff \subseteq People
  /\ None \notin People \cup Reasons \cup {"CUSTOMER", "MANAGER"}
  /\ MaxEvents \in Nat

VARIABLES orders,      \* the orders table: order id -> row
          outbox,      \* order id -> its outbox rows, in the order they were committed
          session      \* session -> the request it is serving and the row it read

vars == <<orders, outbox, session>>
-----------------------------------------------------------------------------
(* The columns of an order its lifecycle reads or writes. *)

Order ==
  [customer_id          : People,
   status               : OrderStatus,
   delivery_address     : Addresses,
   cancelled_by         : {"CUSTOMER", "MANAGER", None},
   cancelled_by_user_id : People \cup {None},
   cancellation_reason  : Reasons \cup {None}]

\* Order.place: the lines, the recipient and the number play no part in what
\* happens to the order afterwards.
place(p, a) ==
  [customer_id |-> p, status |-> "NEW", delivery_address |-> a,
   cancelled_by |-> None, cancelled_by_user_id |-> None,
   cancellation_reason |-> None]

OrderPlaced == [type |-> "OrderPlaced"]

\* Mutant: the old status is read after the transition.
StatusEventReadLate(old, new, why) ==
  [type |-> "OrderStatusChanged", old |-> new, new |-> new, reason |-> why]

OrderStatusChanged(old, new, why) ==
  [type |-> "OrderStatusChanged", old |-> old, new |-> new, reason |-> why]

OrderDeliveryAddressChanged(old, new) ==
  [type |-> "OrderDeliveryAddressChanged", old |-> old, new |-> new]

Event ==
  [type : {"OrderPlaced"}]
    \cup [type : {"OrderStatusChanged"}, old : OrderStatus, new : OrderStatus,
          reason : Reasons \cup {None}]
    \cup [type : {"OrderDeliveryAddressChanged"}, old : Addresses, new : Addresses]

\* _transition_to: the only place that reads the table.
CanTransition(row, status) == status \in ALLOWED_ORDER_TRANSITIONS(row.status)

change_status(row, status) == [row EXCEPT !.status = status]

\* Mutant: staff may cancel without saying why.
CanCancelWithoutReason(row, by, why) ==
  /\ by = "CUSTOMER" => row.status \in CUSTOMER_CANCELLABLE_STATUSES
  /\ CanTransition(row, "CANCELLED")

\* The two initiators are held to different rules.
CanCancel(row, by, why) ==
  /\ by = "CUSTOMER" => row.status \in CUSTOMER_CANCELLABLE_STATUSES
  /\ by = "MANAGER" => why # None
  /\ CanTransition(row, "CANCELLED")

cancel(row, by, who, why) ==
  [change_status(row, "CANCELLED") EXCEPT !.cancelled_by = by,
                                          !.cancelled_by_user_id = who,
                                          !.cancellation_reason = why]

\* Mutant: the address of a parcel already on its way may change.
CanChangeAddressUntilDone(row) == row.status \notin TERMINAL_ORDER_STATUSES

CanChangeAddress(row) == row.status \in EDITABLE_ORDER_STATUSES

change_delivery_address(row, a) == [row EXCEPT !.delivery_address = a]

\* Nothing is announced when the address is the one already there.
AddressEvents(row, a) ==
  IF a = row.delivery_address
    THEN <<>>
    ELSE <<OrderDeliveryAddressChanged(row.delivery_address, a)>>

IsOrderOwner(p, row) == p = row.customer_id

CanManageOrders(p) == p \in Staff
-----------------------------------------------------------------------------
(* Sessions *)

Command ==
  [kind : {"CancelOrder"}]
    \cup [kind : {"ChangeDeliveryAddress"}, delivery_address : Addresses]
    \cup [kind : {"ChangeOrderStatus"}, status : OrderStatus,
          reason : Reasons \cup {None}]

Request ==
  [actor : People, order : Orders, command : Command, seen : Order \cup {None}]

\* session.get: a plain SELECT, no lock taken.
by_id(o) == IF o \in DOMAIN orders THEN orders[o] ELSE None

\* One chat's updates are handled one after another, and a person has one
\* chat with the bot.
EventIsolation(p) == \A t \in Sessions : session[t] # None => session[t].actor # p

\* The UPDATE the unit of work emits at the commit: a column is written when
\* the method left it different from what the session had read, and keeps
\* whatever the table holds by now otherwise.
Flush(seen, after, row) ==
  LET Column(s, a, r) == IF a # s THEN a ELSE r
  IN  [customer_id          |-> row.customer_id,
       status               |-> Column(seen.status, after.status, row.status),
       delivery_address     |-> Column(seen.delivery_address,
                                       after.delivery_address,
                                       row.delivery_address),
       cancelled_by         |-> Column(seen.cancelled_by, after.cancelled_by,
                                       row.cancelled_by),
       cancelled_by_user_id |-> Column(seen.cancelled_by_user_id,
                                       after.cancelled_by_user_id,
                                       row.cancelled_by_user_id),
       cancellation_reason  |-> Column(seen.cancellation_reason,
                                       after.cancellation_reason,
                                       row.cancellation_reason)]

\* Mutant: the pipelines are registered the other way round and the events
\* are drained after the commit, into a session that is closed without one.
CommitBeforeEvents(s, after, events) ==
  LET o == session[s].order
  IN  /\ orders'  = [orders EXCEPT ![o] = Flush(session[s].seen, after, @)]
      /\ session' = [session EXCEPT ![s] = None]
      /\ UNCHANGED outbox

\* TransactionPipeline around EventsPipeline: the changed columns and the
\* events of the request become visible together, and the session ends.
Commit(s, after, events) ==
  LET o == session[s].order
  IN  /\ orders'  = [orders EXCEPT ![o] = Flush(session[s].seen, after, @)]
      /\ outbox'  = [outbox EXCEPT ![o] = @ \o events]
      /\ session' = [session EXCEPT ![s] = None]

\* The session serves a command of this kind about an order that exists.
Serving(s, kind) ==
  /\ session[s] # None
  /\ session[s].command.kind = kind
  /\ session[s].seen # None
-----------------------------------------------------------------------------
Init ==
  /\ orders  = [o \in {} |-> o]
  /\ outbox  = [o \in Orders |-> <<>>]
  /\ session = [s \in Sessions |-> None]

\* A checkout commits; the cart and the prices it came from are not kept here.
PlaceOrder(o, p, a) ==
  /\ o \notin DOMAIN orders
  /\ orders' = [x \in DOMAIN orders \cup {o} |->
                  IF x = o THEN place(p, a) ELSE orders[x]]
  /\ outbox' = [outbox EXCEPT ![o] = Append(@, OrderPlaced)]
  /\ UNCHANGED session

\* A command arrives and its handler reads the order it names.
Load(s, p, o, c) ==
  /\ session[s] = None
  /\ EventIsolation(p)
  /\ Len(outbox[o]) < MaxEvents
  /\ session' = [session EXCEPT ![s] =
                   [actor |-> p, order |-> o, command |-> c, seen |-> by_id(o)]]
  /\ UNCHANGED <<orders, outbox>>

\* CancelOrderHandler: the buyer withdraws their own order.
CancelOrder(s) ==
  LET q   == session[s]
      row == q.seen
  IN  /\ Serving(s, "CancelOrder")
      /\ IsOrderOwner(q.actor, row)
      /\ CanCancel(row, "CUSTOMER", None)
      /\ Commit(s, cancel(row, "CUSTOMER", q.actor, None),
                <<OrderStatusChanged(row.status, "CANCELLED", None)>>)

\* ChangeDeliveryAddressHandler: the buyer sends their order somewhere else.
ChangeDeliveryAddress(s) ==
  LET q   == session[s]
      row == q.seen
      a   == q.command.delivery_address
  IN  /\ Serving(s, "ChangeDeliveryAddress")
      /\ IsOrderOwner(q.actor, row)
      /\ CanChangeAddress(row)
      /\ Commit(s, change_delivery_address(row, a), AddressEvents(row, a))

\* The moves CONFIRMED, SHIPPED and COMPLETED of the table MOVES.
AdvanceMove(s, row, status) ==
  /\ status \in {"CONFIRMED", "SHIPPED", "COMPLETED"}
  /\ CanTransition(row, status)
  /\ Commit(s, change_status(row, status),
            <<OrderStatusChanged(row.status, status, None)>>)

\* The move CANCELLED of the table MOVES.
CancelAsStaff(s, row, status, who, why) ==
  /\ status = "CANCELLED"
  /\ CanCancel(row, "MANAGER", why)
  /\ Commit(s, cancel(row, "MANAGER", who, why),
            <<OrderStatusChanged(row.status, "CANCELLED", why)>>)

\* ChangeOrderStatusHandler: staff move an order; a status with no move (NEW)
\* is refused.
ChangeOrderStatus(s) ==
  LET q == session[s]
      c == q.command
  IN  /\ Serving(s, "ChangeOrderStatus")
      /\ CanManageOrders(q.actor)
      /\ \/ AdvanceMove(s, q.seen, c.status)
         \/ CancelAsStaff(s, q.seen, c.status, q.actor, c.reason)

\* The handler raised, the commit failed or the process died: the session is
\* closed and none of what it did is ever seen.
Rollback(s) ==
  /\ session[s] # None
  /\ session' = [session EXCEPT ![s] = None]
  /\ UNCHANGED <<orders, outbox>>

Next ==
  \/ \E o \in Orders, p \in People, a \in Addresses : PlaceOrder(o, p, a)
  \/ \E s \in Sessions :
       \/ \E p \in People, o \in Orders, c \in Command : Load(s, p, o, c)
       \/ CancelOrder(s)
       \/ ChangeDeliveryAddress(s)
       \/ ChangeOrderStatus(s)
       \/ Rollback(s)

Spec == Init /\ [][Next]_vars
-----------------------------------------------------------------------------
(* The same system when two requests never overlap on one order. *)

NoOverlap ==
  \A s, t \in Sessions :
    /\ session[s] # None
    /\ session[t] # None
    /\ session[s].order = session[t].order
    => s = t

SerialSpec == Init /\ [][Next /\ NoOverlap']_vars
-----------------------------------------------------------------------------
(* Properties of every behaviour *)

\* Every row, every outbox entry and every request in flight has its shape: the
\* columns the handlers leave NULL are the ones the table lets be NULL.
TypeOK ==
  /\ orders \in [DOMAIN orders -> Order]
  /\ DOMAIN orders \subseteq Orders
  /\ outbox \in [Orders -> Seq(Event)]
  /\ session \in [Sessions -> Request \cup {None}]

\* The status an event tells its consumers the order has.
Announces(e, status) ==
  \/ e.type = "OrderPlaced" /\ status = "NEW"
  \/ e.type = "OrderStatusChanged" /\ e.new = status

\* Whatever interleaving of commits produced the row, the last status its
\* outbox rows announce is the status it has: the pipelines write the event and
\* the column in one transaction, so nobody is left with a stale last word.
LastWordIsTheRow ==
  \A o \in DOMAIN orders :
    \E i \in DOMAIN outbox[o] :
      /\ Announces(outbox[o][i], orders[o].status)
      /\ \A j \in DOMAIN outbox[o] :
           j > i => outbox[o][j].type = "OrderDeliveryAddressChanged"

\* An order that reads CANCELLED says which side stopped it and who that was,
\* also after requests overlapped: cancel writes the three columns together and
\* no other method ever clears them.
CancelledIsAttributed ==
  \A o \in DOMAIN orders :
    orders[o].status = "CANCELLED" =>
      orders[o].cancelled_by # None /\ orders[o].cancelled_by_user_id # None

\* What a session has read is an order that is still there, with the same
\* owner, and a trace of a cancellation it has seen is still on the row.  The
\* two properties above are inductive only together with this one.
ReadsStand ==
  \A s \in Sessions :
    session[s] # None /\ session[s].seen # None =>
      LET seen == session[s].seen
      IN  /\ session[s].order \in DOMAIN orders
          /\ LET row == orders[session[s].order]
             IN  /\ seen.customer_id = row.customer_id
                 /\ seen.cancelled_by # None => row.cancelled_by # None
                 /\ seen.cancelled_by_user_id # None =>
                      row.cancelled_by_user_id # None
-----------------------------------------------------------------------------
(* Properties of behaviours without overlapping requests *)

\* The trace a row of this status may carry.
TraceFits(row) ==
  IF row.status = "CANCELLED"
    THEN \/ /\ row.cancelled_by = "CUSTOMER"
            /\ row.cancelled_by_user_id = row.customer_id
            /\ row.cancellation_reason = None
         \/ /\ row.cancelled_by = "MANAGER"
            /\ row.cancelled_by_user_id \in Staff
            /\ row.cancellation_reason \in Reasons
    ELSE /\ row.cancelled_by = None
         /\ row.cancelled_by_user_id = None
         /\ row.cancellation_reason = None

\* An order carries the trace of a cancellation exactly when it is cancelled,
\* and the trace is one that side could have left: a buyer leaves their own id
\* and no reason, staff leave the id of a member of staff and a reason.
CancellationTrace == \A o \in DOMAIN orders : TraceFits(orders[o])

\* The statuses an order never leaves: no status is announced for an order
\* after one of TERMINAL_ORDER_STATUSES was.
TerminalNeverLeft ==
  \A o \in Orders : \A i, j \in DOMAIN outbox[o] :
    /\ i < j
    /\ outbox[o][j].type = "OrderStatusChanged"
    => \A st \in TERMINAL_ORDER_STATUSES : ~Announces(outbox[o][i], st)

\* The announced moves of an order form one path: each starts at the status
\* the one before it led to.
HistoryIsAPath ==
  \A o \in Orders : \A i, j \in DOMAIN outbox[o] :
    /\ i < j
    /\ outbox[o][i].type # "OrderDeliveryAddressChanged"
    /\ outbox[o][j].type = "OrderStatusChanged"
    /\ \A k \in i + 1 .. j - 1 :
         outbox[o][k].type = "OrderDeliveryAddressChanged"
    => Announces(outbox[o][i], outbox[o][j].old)

Contract == INSTANCE OrderContract

\* Without overlapping requests the sessions are invisible: the orders table
\* behaves as OrderContract says an order behaves.
ImplementsContract == Contract!Spec
=============================================================================
