------------------------ MODULE OrderLifecycleProofs ------------------------
(***************************************************************************)
(* Theorems about OrderLifecycle, for any sets of orders, people and       *)
(* sessions.  Every change of a placed order goes through Commit, with one *)
(* of three effects on the row that was read (Moves, Cancels, Readdresses);*)
(* CommandEffects says so once, and the invariants are shown to survive    *)
(* those three effects, PlaceOrder, Load and Rollback.                     *)
(***************************************************************************)
EXTENDS OrderLifecycle, SequenceTheorems, TLAPS

\* The session has read an order.
HasRead(s) == session[s] # None /\ session[s].seen # None

\* Confirm, ship or complete.
Moves(seen, after, events) ==
  \E st \in OrderStatus \ {"NEW", "CANCELLED"} :
    /\ CanTransition(seen, st)
    /\ after = change_status(seen, st)
    /\ events = <<OrderStatusChanged(seen.status, st, None)>>

\* A cancellation by either side.
Cancels(p, seen, after, events) ==
  \E by \in {"CUSTOMER", "MANAGER"}, why \in Reasons \cup {None} :
    /\ CanCancel(seen, by, why)
    /\ by = "CUSTOMER" => p = seen.customer_id /\ why = None
    /\ by = "MANAGER" => p \in Staff
    /\ after = cancel(seen, by, p, why)
    /\ events = <<OrderStatusChanged(seen.status, "CANCELLED", why)>>

\* A change of the delivery address, possibly to the one already there.
Readdresses(seen, after, events) ==
  \E a \in Addresses :
    /\ CanChangeAddress(seen)
    /\ after = change_delivery_address(seen, a)
    /\ events = AddressEvents(seen, a)

Effect(s, after, events) ==
  \/ Moves(session[s].seen, after, events)
  \/ Cancels(session[s].actor, session[s].seen, after, events)
  \/ Readdresses(session[s].seen, after, events)
-----------------------------------------------------------------------------
\* Each of the three commands, when it is not refused, commits one of the
\* three effects.
LEMMA CommandEffects ==
  ASSUME TypeOK, NEW s \in Sessions,
         CancelOrder(s) \/ ChangeDeliveryAddress(s) \/ ChangeOrderStatus(s)
  PROVE  /\ HasRead(s)
         /\ \E after, events : Commit(s, after, events) /\ Effect(s, after, events)
<1>1. HasRead(s)
  BY DEF CancelOrder, ChangeDeliveryAddress, ChangeOrderStatus, Serving, HasRead
<1>2. session[s] \in Request /\ session[s].seen \in Order
  BY <1>1 DEF TypeOK, HasRead, Request
<1> DEFINE q   == session[s]
           row == q.seen
<1>3. CASE CancelOrder(s)
  <2> DEFINE after  == cancel(row, "CUSTOMER", q.actor, None)
             events == <<OrderStatusChanged(row.status, "CANCELLED", None)>>
  <2>1. Commit(s, after, events)
    BY <1>3 DEF CancelOrder
  <2>2. Cancels(q.actor, row, after, events)
    BY <1>3 DEF CancelOrder, Cancels, IsOrderOwner
  <2> QED
    BY <1>1, <2>1, <2>2 DEF Effect
<1>4. CASE ChangeDeliveryAddress(s)
  <2> DEFINE a      == q.command.delivery_address
             after  == change_delivery_address(row, a)
             events == AddressEvents(row, a)
  <2>1. Commit(s, after, events) /\ CanChangeAddress(row)
    BY <1>4 DEF ChangeDeliveryAddress
  <2>2. a \in Addresses
    BY <1>2, <1>4 DEF ChangeDeliveryAddress, Serving, Request, Command
  <2>3. Readdresses(row, after, events)
    BY <2>1, <2>2 DEF Readdresses
  <2> QED
    BY <1>1, <2>1, <2>3 DEF Effect
<1>5. CASE ChangeOrderStatus(s)
  <2> DEFINE c == q.command
  <2>1. c.status \in OrderStatus /\ c.reason \in Reasons \cup {None}
    BY <1>2, <1>5 DEF ChangeOrderStatus, Serving, Request, Command
  <2>2. CASE AdvanceMove(s, row, c.status)
    <3> DEFINE after  == change_status(row, c.status)
               events == <<OrderStatusChanged(row.status, c.status, None)>>
    <3>1. Commit(s, after, events) /\ Moves(row, after, events)
      BY <2>1, <2>2 DEF AdvanceMove, Moves, OrderStatus
    <3> QED
      BY <1>1, <3>1 DEF Effect
  <2>3. CASE CancelAsStaff(s, row, c.status, q.actor, c.reason)
    <3> DEFINE after  == cancel(row, "MANAGER", q.actor, c.reason)
               events == <<OrderStatusChanged(row.status, "CANCELLED", c.reason)>>
    <3>1. Commit(s, after, events)
      BY <2>3 DEF CancelAsStaff
    <3>2. Cancels(q.actor, row, after, events)
      BY <1>5, <2>1, <2>3
      DEF CancelAsStaff, ChangeOrderStatus, CanManageOrders, Cancels
    <3> QED
      BY <1>1, <3>1, <3>2 DEF Effect
  <2> QED
    BY <1>5, <2>2, <2>3 DEF ChangeOrderStatus
<1> QED
  BY <1>3, <1>4, <1>5
-----------------------------------------------------------------------------
\* An effect turns a row into a row, leaves its owner alone, and announces at
\* most one event.
LEMMA EffectTypes ==
  ASSUME TypeOK, NEW s \in Sessions, HasRead(s), NEW after, NEW events,
         Effect(s, after, events)
  PROVE  /\ session[s].order \in Orders
         /\ session[s].seen \in Order
         /\ after \in Order
         /\ after.customer_id = session[s].seen.customer_id
         /\ \/ events = <<>>
            \/ \E e \in Event : events = <<e>>
<1> DEFINE seen == session[s].seen
<1>1. session[s] \in Request
  BY DEF TypeOK, HasRead
<1>2. seen \in Order /\ session[s].actor \in People /\ session[s].order \in Orders
  BY <1>1 DEF HasRead, Request
<1>3. CASE Moves(seen, after, events)
  <2>1. PICK st \in OrderStatus :
          /\ after = change_status(seen, st)
          /\ events = <<OrderStatusChanged(seen.status, st, None)>>
    BY <1>3 DEF Moves
  <2>2. OrderStatusChanged(seen.status, st, None) \in Event
    BY <1>2 DEF Event, OrderStatusChanged, Order
  <2>3. after \in Order /\ after.customer_id = seen.customer_id
    BY <1>2, <2>1 DEF change_status, Order
  <2> QED
    BY <1>2, <2>1, <2>2, <2>3
<1>4. CASE Cancels(session[s].actor, seen, after, events)
  <2>1. PICK by \in {"CUSTOMER", "MANAGER"}, why \in Reasons \cup {None} :
          /\ after = cancel(seen, by, session[s].actor, why)
          /\ events = <<OrderStatusChanged(seen.status, "CANCELLED", why)>>
    BY <1>4 DEF Cancels
  <2>2. OrderStatusChanged(seen.status, "CANCELLED", why) \in Event
    BY <1>2 DEF Event, OrderStatusChanged, Order, OrderStatus
  <2>3. after \in Order /\ after.customer_id = seen.customer_id
    BY <1>2, <2>1 DEF cancel, change_status, Order, OrderStatus
  <2> QED
    BY <1>2, <2>1, <2>2, <2>3
<1>5. CASE Readdresses(seen, after, events)
  <2>1. PICK a \in Addresses :
          after = change_delivery_address(seen, a) /\ events = AddressEvents(seen, a)
    BY <1>5 DEF Readdresses
  <2>2. OrderDeliveryAddressChanged(seen.delivery_address, a) \in Event
    BY <1>2 DEF Event, OrderDeliveryAddressChanged, Order
  <2>3. after \in Order /\ after.customer_id = seen.customer_id
    BY <1>2, <2>1 DEF change_delivery_address, Order
  <2> QED
    BY <1>2, <2>1, <2>2, <2>3 DEF AddressEvents
<1> QED
  BY <1>3, <1>4, <1>5 DEF Effect

\* Writing the changed columns of one row over another gives a row.
LEMMA FlushType ==
  ASSUME NEW seen \in Order, NEW after \in Order, NEW row \in Order
  PROVE  Flush(seen, after, row) \in Order
  BY DEF Flush, Order

\* What a commit leaves in the three variables, column by column.
LEMMA CommitEffect ==
  ASSUME TypeOK, ReadsStand, NEW s \in Sessions, HasRead(s),
         NEW after, NEW events, Commit(s, after, events), Effect(s, after, events)
  PROVE  LET o == session[s].order
         IN  /\ o \in DOMAIN orders
             /\ DOMAIN orders' = DOMAIN orders
             /\ orders' \in [DOMAIN orders -> Order]
             /\ orders'[o] = Flush(session[s].seen, after, orders[o])
             /\ \A x \in DOMAIN orders \ {o} : orders'[x] = orders[x]
             /\ outbox' \in [Orders -> Seq(Event)]
             /\ outbox'[o] = outbox[o] \o events
             /\ \A x \in Orders \ {o} : outbox'[x] = outbox[x]
             /\ session' = [session EXCEPT ![s] = None]
<1> DEFINE o == session[s].order
<1>1. o \in DOMAIN orders /\ o \in Orders
  BY EffectTypes DEF ReadsStand, HasRead
<1>2. orders[o] \in Order
  BY <1>1 DEF TypeOK
<1>3. Flush(session[s].seen, after, orders[o]) \in Order
  BY <1>2, EffectTypes, FlushType
<1>4. events \in Seq(Event)
  <2>1. events = <<>> \/ \E e \in Event : events = <<e>>
    BY EffectTypes
  <2>2. CASE events = <<>>
    BY <2>2
  <2>3. CASE \E e \in Event : events = <<e>>
    BY <2>3
  <2> QED
    BY <2>1, <2>2, <2>3
<1>5. outbox[o] \in Seq(Event)
  BY <1>1 DEF TypeOK
<1>6. outbox[o] \o events \in Seq(Event)
  BY <1>4, <1>5, ConcatProperties
<1> QED
  BY <1>1, <1>3, <1>6 DEF Commit, TypeOK
-----------------------------------------------------------------------------
\* The steps that are not commits of a command.
LEMMA OtherSteps ==
  ASSUME TypeOK, [Next]_vars,
         ~ \E s \in Sessions :
             CancelOrder(s) \/ ChangeDeliveryAddress(s) \/ ChangeOrderStatus(s)
  PROVE  \/ \E o \in Orders, p \in People, a \in Addresses : PlaceOrder(o, p, a)
         \/ \E s \in Sessions, p \in People, o \in Orders, c \in Command :
              Load(s, p, o, c)
         \/ \E s \in Sessions : Rollback(s)
         \/ UNCHANGED vars
  BY DEF Next

\* What is proved inductive: the types, what the sessions have read, and the
\* two properties that hold whatever overlaps.
IInv == TypeOK /\ ReadsStand /\ LastWordIsTheRow /\ CancelledIsAttributed

\* The empty tables satisfy the invariant.
LEMMA InitIInv == Init => IInv
  BY EmptySeq DEF Init, IInv, TypeOK, ReadsStand, LastWordIsTheRow, CancelledIsAttributed

\* A committed command writes a well-typed row and well-typed events.
LEMMA CommandTypeOK ==
  ASSUME IInv, NEW s \in Sessions,
         CancelOrder(s) \/ ChangeDeliveryAddress(s) \/ ChangeOrderStatus(s)
  PROVE  TypeOK'
<1>1. HasRead(s)
  BY CommandEffects DEF IInv
<1>2. PICK after, events : Commit(s, after, events) /\ Effect(s, after, events)
  BY CommandEffects DEF IInv
<1>3. /\ DOMAIN orders' = DOMAIN orders
      /\ orders' \in [DOMAIN orders -> Order]
      /\ outbox' \in [Orders -> Seq(Event)]
      /\ session' = [session EXCEPT ![s] = None]
  BY <1>1, <1>2, CommitEffect DEF IInv
<1> QED
  BY <1>3 DEF IInv, TypeOK

\* What one of the three effects does to the row it is written over: the trace
\* of a cancellation is never cleared, a change of the status is announced, and
\* a row that becomes CANCELLED gets its trace.
LEMMA EffectOnRow ==
  ASSUME TypeOK, ReadsStand, NEW s \in Sessions, HasRead(s), NEW after, NEW events,
         Effect(s, after, events)
  PROVE  LET row == orders[session[s].order]
             new == Flush(session[s].seen, after, row)
         IN  /\ new.customer_id = row.customer_id
             /\ row.cancelled_by # None => new.cancelled_by # None
             /\ row.cancelled_by_user_id # None => new.cancelled_by_user_id # None
             /\ \/ /\ new.status = row.status
                   /\ \/ events = <<>>
                      \/ \E e \in Event : /\ events = <<e>>
                                          /\ e.type = "OrderDeliveryAddressChanged"
                \/ \E e \in Event : events = <<e>> /\ Announces(e, new.status)
             /\ new.status = "CANCELLED" =>
                  \/ row.status = "CANCELLED"
                  \/ new.cancelled_by # None /\ new.cancelled_by_user_id # None
<1> DEFINE seen == session[s].seen
           row  == orders[session[s].order]
           new  == Flush(seen, after, row)
<1>1. session[s] \in Request /\ seen \in Order /\ session[s].actor \in People
  BY DEF TypeOK, HasRead, Request
<1>2. row \in Order
  BY DEF TypeOK, ReadsStand, HasRead
<1>3. /\ seen.cancelled_by # None => row.cancelled_by # None
      /\ seen.cancelled_by_user_id # None => row.cancelled_by_user_id # None
  BY DEF ReadsStand, HasRead
<1>4. CASE Moves(seen, after, events)
  <2>1. PICK st \in OrderStatus \ {"NEW", "CANCELLED"} :
          /\ CanTransition(seen, st)
          /\ after = change_status(seen, st)
          /\ events = <<OrderStatusChanged(seen.status, st, None)>>
    BY <1>4 DEF Moves
  <2>2. OrderStatusChanged(seen.status, st, None) \in Event
    BY <1>1 DEF Event, OrderStatusChanged, Order
  <2>3. st # seen.status
    BY <1>1, <2>1 DEF CanTransition, ALLOWED_ORDER_TRANSITIONS, Order, OrderStatus
  <2>4. /\ new.customer_id = row.customer_id
        /\ new.cancelled_by = row.cancelled_by
        /\ new.cancelled_by_user_id = row.cancelled_by_user_id
        /\ new.status = st
    BY <1>1, <1>2, <2>1, <2>3 DEF Flush, change_status, Order
  <2>5. Announces(OrderStatusChanged(seen.status, st, None), new.status)
    BY <2>4 DEF Announces, OrderStatusChanged
  <2> QED
    BY <2>1, <2>2, <2>4, <2>5
<1>5. CASE Cancels(session[s].actor, seen, after, events)
  <2>1. PICK by \in {"CUSTOMER", "MANAGER"}, why \in Reasons \cup {None} :
          /\ CanCancel(seen, by, why)
          /\ after = cancel(seen, by, session[s].actor, why)
          /\ events = <<OrderStatusChanged(seen.status, "CANCELLED", why)>>
    BY <1>5 DEF Cancels
  <2>2. OrderStatusChanged(seen.status, "CANCELLED", why) \in Event
    BY <1>1 DEF Event, OrderStatusChanged, Order, OrderStatus
  <2>3. seen.status # "CANCELLED"
    BY <1>1, <2>1
    DEF CanCancel, CanTransition, ALLOWED_ORDER_TRANSITIONS, Order, OrderStatus
  <2>4. by # None /\ session[s].actor # None
    BY <1>1, OrderAssumption DEF OrderAssumption
  <2>5. /\ after.status = "CANCELLED"
        /\ after.cancelled_by = by
        /\ after.cancelled_by_user_id = session[s].actor
    BY <1>1, <2>1 DEF cancel, change_status, Order
  <2>6. /\ new.customer_id = row.customer_id
        /\ new.status = "CANCELLED"
        /\ new.cancelled_by # None
        /\ new.cancelled_by_user_id # None
    BY <1>1, <1>2, <1>3, <2>3, <2>4, <2>5 DEF Flush, Order
  <2>7. Announces(OrderStatusChanged(seen.status, "CANCELLED", why), new.status)
    BY <2>6 DEF Announces, OrderStatusChanged
  <2> QED
    BY <2>1, <2>2, <2>6, <2>7
<1>6. CASE Readdresses(seen, after, events)
  <2>1. PICK a \in Addresses :
          after = change_delivery_address(seen, a) /\ events = AddressEvents(seen, a)
    BY <1>6 DEF Readdresses
  <2>2. /\ OrderDeliveryAddressChanged(seen.delivery_address, a) \in Event
        /\ OrderDeliveryAddressChanged(seen.delivery_address, a).type
             = "OrderDeliveryAddressChanged"
    BY <1>1 DEF Event, OrderDeliveryAddressChanged, Order
  <2>3. /\ new.customer_id = row.customer_id
        /\ new.status = row.status
        /\ new.cancelled_by = row.cancelled_by
        /\ new.cancelled_by_user_id = row.cancelled_by_user_id
    BY <1>1, <1>2, <2>1 DEF Flush, change_delivery_address, Order
  <2> QED
    BY <2>1, <2>2, <2>3 DEF AddressEvents
<1> QED
  BY <1>4, <1>5, <1>6 DEF Effect
-----------------------------------------------------------------------------
\* A commit leaves every other session's read standing.
LEMMA CommandReadsStand ==
  ASSUME IInv, NEW s \in Sessions,
         CancelOrder(s) \/ ChangeDeliveryAddress(s) \/ ChangeOrderStatus(s)
  PROVE  ReadsStand'
<1> USE DEF IInv
<1>1. HasRead(s)
  BY CommandEffects
<1>2. PICK after, events : Commit(s, after, events) /\ Effect(s, after, events)
  BY CommandEffects
<1> DEFINE o == session[s].order
<1>3. /\ DOMAIN orders' = DOMAIN orders
      /\ orders'[o] = Flush(session[s].seen, after, orders[o])
      /\ \A x \in DOMAIN orders \ {o} : orders'[x] = orders[x]
      /\ session' = [session EXCEPT ![s] = None]
  BY <1>1, <1>2, CommitEffect
<1>4. /\ orders'[o].customer_id = orders[o].customer_id
      /\ orders[o].cancelled_by # None => orders'[o].cancelled_by # None
      /\ orders[o].cancelled_by_user_id # None =>
           orders'[o].cancelled_by_user_id # None
  BY <1>1, <1>2, <1>3, EffectOnRow
<1>5. ASSUME NEW t \in Sessions, session'[t] # None, session'[t].seen # None
      PROVE  t # s /\ session'[t] = session[t]
  BY <1>3, <1>5 DEF TypeOK
<1> QED
  BY <1>3, <1>4, <1>5 DEF ReadsStand

\* A command that moves the status announces the status it leaves on the row.
LEMMA CommandLastWord ==
  ASSUME IInv, NEW s \in Sessions,
         CancelOrder(s) \/ ChangeDeliveryAddress(s) \/ ChangeOrderStatus(s)
  PROVE  LastWordIsTheRow'
<1> USE DEF IInv
<1>1. HasRead(s)
  BY CommandEffects
<1>2. PICK after, events : Commit(s, after, events) /\ Effect(s, after, events)
  BY CommandEffects
<1> DEFINE o   == session[s].order
           log == outbox[o]
<1>3. /\ o \in DOMAIN orders
      /\ DOMAIN orders' = DOMAIN orders
      /\ orders'[o] = Flush(session[s].seen, after, orders[o])
      /\ \A x \in DOMAIN orders \ {o} : orders'[x] = orders[x]
      /\ outbox'[o] = log \o events
      /\ \A x \in Orders \ {o} : outbox'[x] = outbox[x]
  BY <1>1, <1>2, CommitEffect
<1>4. \/ /\ orders'[o].status = orders[o].status
         /\ \/ events = <<>>
            \/ \E e \in Event : /\ events = <<e>>
                                /\ e.type = "OrderDeliveryAddressChanged"
      \/ \E e \in Event : events = <<e>> /\ Announces(e, orders'[o].status)
  BY <1>1, <1>2, <1>3, EffectOnRow
<1>5. log \in Seq(Event)
  BY <1>3 DEF TypeOK
<1>6. PICK i \in DOMAIN log :
        /\ Announces(log[i], orders[o].status)
        /\ \A j \in DOMAIN log :
             j > i => log[j].type = "OrderDeliveryAddressChanged"
  BY <1>3 DEF LastWordIsTheRow
<1> DEFINE Last(seq, status) ==
             \E k \in DOMAIN seq :
               /\ Announces(seq[k], status)
               /\ \A j \in DOMAIN seq :
                    j > k => seq[j].type = "OrderDeliveryAddressChanged"
<1>7. Last(outbox'[o], orders'[o].status)
  <2>1. CASE orders'[o].status = orders[o].status /\ events = <<>>
    BY <1>3, <1>5, <1>6, <2>1, ConcatEmptySeq
  <2>2. ASSUME NEW e \in Event, events = <<e>>,
               orders'[o].status = orders[o].status,
               e.type = "OrderDeliveryAddressChanged"
        PROVE  Last(outbox'[o], orders'[o].status)
    <3>1. outbox'[o] = Append(log, e)
      BY <1>3, <1>5, <2>2, AppendIsConcat
    <3> QED
      BY <1>5, <1>6, <2>2, <3>1, SMTT(30)
  <2>3. ASSUME NEW e \in Event, events = <<e>>, Announces(e, orders'[o].status)
        PROVE  Last(outbox'[o], orders'[o].status)
    <3>1. outbox'[o] = Append(log, e)
      BY <1>3, <1>5, <2>3, AppendIsConcat
    <3>2. /\ Len(log) + 1 \in DOMAIN outbox'[o]
          /\ outbox'[o][Len(log) + 1] = e
          /\ \A j \in DOMAIN outbox'[o] : ~(j > Len(log) + 1)
      BY <1>5, <3>1
    <3> QED
      BY <2>3, <3>2
  <2> QED
    BY <1>4, <2>1, <2>2, <2>3
<1>8. ASSUME NEW x \in DOMAIN orders, x # o
      PROVE  Last(outbox'[x], orders'[x].status)
  <2>1. Last(outbox[x], orders[x].status)
    BY DEF LastWordIsTheRow
  <2>2. outbox'[x] = outbox[x] /\ orders'[x] = orders[x]
    BY <1>3, <1>8 DEF TypeOK
  <2> HIDE DEF Last
  <2> QED
    BY <2>1, <2>2
<1> HIDE DEF Last
<1>9. \A x \in DOMAIN orders' : Last(outbox'[x], orders'[x].status)
  BY <1>3, <1>7, <1>8
<1> QED
  BY <1>9 DEF LastWordIsTheRow, Last

\* A row that reads CANCELLED after a commit names a side and a person.
LEMMA CommandAttributed ==
  ASSUME IInv, NEW s \in Sessions,
         CancelOrder(s) \/ ChangeDeliveryAddress(s) \/ ChangeOrderStatus(s)
  PROVE  CancelledIsAttributed'
<1> USE DEF IInv
<1>1. HasRead(s)
  BY CommandEffects
<1>2. PICK after, events : Commit(s, after, events) /\ Effect(s, after, events)
  BY CommandEffects
<1> DEFINE o == session[s].order
<1>3. /\ o \in DOMAIN orders
      /\ DOMAIN orders' = DOMAIN orders
      /\ orders'[o] = Flush(session[s].seen, after, orders[o])
      /\ \A x \in DOMAIN orders \ {o} : orders'[x] = orders[x]
  BY <1>1, <1>2, CommitEffect
<1>4. /\ orders[o].cancelled_by # None => orders'[o].cancelled_by # None
      /\ orders[o].cancelled_by_user_id # None =>
           orders'[o].cancelled_by_user_id # None
      /\ orders'[o].status = "CANCELLED" =>
           \/ orders[o].status = "CANCELLED"
           \/ /\ orders'[o].cancelled_by # None
              /\ orders'[o].cancelled_by_user_id # None
  BY <1>1, <1>2, <1>3, EffectOnRow
<1> QED
  BY <1>3, <1>4 DEF CancelledIsAttributed
-----------------------------------------------------------------------------
\* A checkout adds an order nobody has read and announces it as NEW.
LEMMA PlaceIInv ==
  ASSUME IInv, NEW o \in Orders, NEW p \in People, NEW a \in Addresses,
         PlaceOrder(o, p, a)
  PROVE  IInv'
<1> USE DEF IInv
<1>1. /\ o \notin DOMAIN orders
      /\ DOMAIN orders' = DOMAIN orders \cup {o}
      /\ orders'[o] = place(p, a)
      /\ \A x \in DOMAIN orders : orders'[x] = orders[x]
      /\ orders' = [x \in DOMAIN orders \cup {o} |->
                      IF x = o THEN place(p, a) ELSE orders[x]]
      /\ session' = session
  BY DEF PlaceOrder
<1>2. /\ outbox'[o] = Append(outbox[o], OrderPlaced)
      /\ \A x \in Orders \ {o} : outbox'[x] = outbox[x]
      /\ outbox[o] \in Seq(Event)
      /\ outbox' \in [Orders -> Seq(Event)]
  BY DEF PlaceOrder, TypeOK, Event, OrderPlaced
<1>3. place(p, a) \in Order /\ place(p, a).status = "NEW"
  BY DEF place, Order, OrderStatus
<1>4. TypeOK'
  BY <1>1, <1>2, <1>3 DEF TypeOK
<1>5. ReadsStand'
  BY <1>1 DEF ReadsStand
<1>6. LastWordIsTheRow'
  <2> DEFINE Last(seq, status) ==
               \E k \in DOMAIN seq :
                 /\ Announces(seq[k], status)
                 /\ \A j \in DOMAIN seq :
                      j > k => seq[j].type = "OrderDeliveryAddressChanged"
  <2>1. Last(outbox'[o], orders'[o].status)
    <3>1. /\ Len(outbox[o]) + 1 \in DOMAIN outbox'[o]
          /\ outbox'[o][Len(outbox[o]) + 1] = OrderPlaced
          /\ \A j \in DOMAIN outbox'[o] : ~(j > Len(outbox[o]) + 1)
      BY <1>2
    <3>2. Announces(OrderPlaced, orders'[o].status)
      BY <1>1, <1>3 DEF Announces, OrderPlaced
    <3> QED
      BY <3>1, <3>2
  <2>2. ASSUME NEW x \in DOMAIN orders
        PROVE  Last(outbox'[x], orders'[x].status)
    <3>1. Last(outbox[x], orders[x].status)
      BY DEF LastWordIsTheRow
    <3>2. outbox'[x] = outbox[x] /\ orders'[x] = orders[x]
      BY <1>1, <1>2 DEF TypeOK
    <3> HIDE DEF Last
    <3> QED
      BY <3>1, <3>2
  <2> HIDE DEF Last
  <2>3. \A x \in DOMAIN orders' : Last(outbox'[x], orders'[x].status)
    BY <1>1, <2>1, <2>2
  <2> QED
    BY <2>3 DEF LastWordIsTheRow, Last
<1>7. CancelledIsAttributed'
  BY <1>1, <1>3 DEF CancelledIsAttributed
<1> QED
  BY <1>4, <1>5, <1>6, <1>7

\* A read starts a session on what the table holds now.
LEMMA LoadIInv ==
  ASSUME IInv, NEW s \in Sessions, NEW p \in People, NEW o \in Orders,
         NEW c \in Command, Load(s, p, o, c)
  PROVE  IInv'
<1> USE DEF IInv
<1> DEFINE q == [actor |-> p, order |-> o, command |-> c, seen |-> by_id(o)]
<1>1. /\ session' = [session EXCEPT ![s] = q]
      /\ UNCHANGED <<orders, outbox>>
  BY DEF Load
<1>2. by_id(o) # None => o \in DOMAIN orders /\ by_id(o) = orders[o]
  BY DEF by_id
<1>3. q \in Request
  BY DEF Request, TypeOK, by_id
<1>4. TypeOK'
  BY <1>1, <1>3 DEF TypeOK
<1>5. ReadsStand'
  BY <1>1, <1>2 DEF ReadsStand, TypeOK
<1>6. LastWordIsTheRow'
  BY <1>1 DEF LastWordIsTheRow
<1>7. CancelledIsAttributed'
  BY <1>1 DEF CancelledIsAttributed
<1> QED
  BY <1>4, <1>5, <1>6, <1>7

\* A session that ends without a commit disturbs nothing.
LEMMA RollbackIInv ==
  ASSUME IInv, NEW s \in Sessions, Rollback(s)
  PROVE  IInv'
<1> USE DEF IInv
<1>1. session' = [session EXCEPT ![s] = None] /\ UNCHANGED <<orders, outbox>>
  BY DEF Rollback
<1>2. TypeOK'
  BY <1>1 DEF TypeOK
<1>3. ReadsStand'
  BY <1>1 DEF ReadsStand, TypeOK
<1>4. LastWordIsTheRow'
  BY <1>1 DEF LastWordIsTheRow
<1>5. CancelledIsAttributed'
  BY <1>1 DEF CancelledIsAttributed
<1> QED
  BY <1>2, <1>3, <1>4, <1>5

\* The invariant is inductive.
LEMMA StepIInv == IInv /\ [Next]_vars => IInv'
<1> SUFFICES ASSUME IInv, [Next]_vars
             PROVE  IInv'
  OBVIOUS
<1>1. CASE \E s \in Sessions :
             CancelOrder(s) \/ ChangeDeliveryAddress(s) \/ ChangeOrderStatus(s)
  BY <1>1, CommandTypeOK, CommandReadsStand, CommandLastWord, CommandAttributed
  DEF IInv
<1>2. CASE ~ \E s \in Sessions :
               CancelOrder(s) \/ ChangeDeliveryAddress(s) \/ ChangeOrderStatus(s)
  <2>1. TypeOK
    BY DEF IInv
  <2>2. CASE UNCHANGED vars
    BY <2>2 DEF vars, IInv, TypeOK, ReadsStand, LastWordIsTheRow, CancelledIsAttributed
  <2> QED
    BY <1>2, <2>1, <2>2, OtherSteps, PlaceIInv, LoadIInv, RollbackIInv
<1> QED
  BY <1>1, <1>2

\* The invariant holds in every reachable state.
LEMMA SpecIInv == Spec => []IInv
  BY InitIInv, StepIInv, PTL DEF Spec

\* The table, the outbox and the sessions only ever hold values of the types
\* the mapping and the handlers give them.
THEOREM TypeCorrect == Spec => []TypeOK
<1>1. IInv => TypeOK
  BY DEF IInv
<1> QED
  BY <1>1, SpecIInv, PTL

\* However the commits of overlapping requests interleave, the last status the
\* outbox announces for an order is the status it has.
THEOREM LastWord == Spec => []LastWordIsTheRow
<1>1. IInv => LastWordIsTheRow
  BY DEF IInv
<1> QED
  BY <1>1, SpecIInv, PTL

\* However the commits of overlapping requests interleave, an order that reads
\* CANCELLED says which side stopped it and who that was.
THEOREM Attributed == Spec => []CancelledIsAttributed
<1>1. IInv => CancelledIsAttributed
  BY DEF IInv
<1> QED
  BY <1>1, SpecIInv, PTL
-----------------------------------------------------------------------------
(* Without overlapping requests *)

\* What a session has read is what the table still holds.
FreshReads ==
  \A s \in Sessions :
    HasRead(s) => /\ session[s].order \in DOMAIN orders
                  /\ session[s].seen = orders[session[s].order]

SerialInv == IInv /\ NoOverlap /\ FreshReads

\* Written over the row it was computed from, an effect is that row's successor.
LEMMA FlushFresh ==
  ASSUME NEW row \in Order, NEW after \in Order,
         after.customer_id = row.customer_id
  PROVE  Flush(row, after, row) = after
  BY DEF Flush, Order

\* With fresh reads a command replaces the row by the row its method computed.
LEMMA CommandFresh ==
  ASSUME IInv, FreshReads, NEW s \in Sessions,
         CancelOrder(s) \/ ChangeDeliveryAddress(s) \/ ChangeOrderStatus(s)
  PROVE  \E after, events :
           /\ after \in Order
           /\ HasRead(s)
           /\ session[s].order \in DOMAIN orders
           /\ session[s].seen = orders[session[s].order]
           /\ session[s].seen \in Order
           /\ Effect(s, after, events)
           /\ orders' = [orders EXCEPT ![session[s].order] = after]
           /\ session' = [session EXCEPT ![s] = None]
<1>1. HasRead(s)
  BY CommandEffects DEF IInv
<1>2. PICK after, events : Commit(s, after, events) /\ Effect(s, after, events)
  BY CommandEffects DEF IInv
<1>3. /\ session[s].order \in DOMAIN orders
      /\ session[s].seen = orders[session[s].order]
  BY <1>1 DEF FreshReads
<1>4. /\ session[s].seen \in Order
      /\ after \in Order
      /\ after.customer_id = session[s].seen.customer_id
  BY <1>1, <1>2, EffectTypes DEF IInv
<1>5. Flush(session[s].seen, after, orders[session[s].order]) = after
  BY <1>3, <1>4, FlushFresh
<1>6. orders' = [orders EXCEPT ![session[s].order] = after]
  BY <1>2, <1>5 DEF Commit
<1> QED
  BY <1>1, <1>2, <1>3, <1>4, <1>6 DEF Commit

\* The empty tables satisfy the invariant of the serial system.
LEMMA SerialInit == Init => SerialInv
<1>1. Init => NoOverlap /\ FreshReads
  BY DEF Init, NoOverlap, FreshReads, HasRead
<1> QED
  BY <1>1, InitIInv DEF SerialInv

\* Without overlap, a session's read stays equal to the row until it commits.
LEMMA SerialFresh ==
  ASSUME SerialInv, [Next /\ NoOverlap']_vars
  PROVE  FreshReads'
<1> USE DEF SerialInv
<1>0. TypeOK
  BY DEF IInv
<1>1. ASSUME NEW s \in Sessions,
             CancelOrder(s) \/ ChangeDeliveryAddress(s) \/ ChangeOrderStatus(s)
      PROVE  FreshReads'
  <2>1. PICK after, events :
          /\ after \in Order
          /\ HasRead(s)
          /\ session[s].order \in DOMAIN orders
          /\ orders' = [orders EXCEPT ![session[s].order] = after]
          /\ session' = [session EXCEPT ![s] = None]
    BY <1>1, CommandFresh
  <2>2. ASSUME NEW t \in Sessions, HasRead(t)'
        PROVE  /\ session'[t] = session[t]
               /\ HasRead(t)
               /\ session[t].order # session[s].order
    BY <1>0, <2>1, <2>2 DEF HasRead, TypeOK, NoOverlap
  <2> QED
    BY <2>1, <2>2 DEF FreshReads
<1>2. ASSUME NEW o \in Orders, NEW p \in People, NEW a \in Addresses,
             PlaceOrder(o, p, a)
      PROVE  FreshReads'
  BY <1>2 DEF PlaceOrder, FreshReads, HasRead
<1>3. ASSUME NEW s \in Sessions, NEW p \in People, NEW o \in Orders,
             NEW c \in Command, Load(s, p, o, c)
      PROVE  FreshReads'
  BY <1>0, <1>3 DEF Load, FreshReads, HasRead, TypeOK, by_id
<1>4. ASSUME NEW s \in Sessions, Rollback(s)
      PROVE  FreshReads'
  BY <1>0, <1>4 DEF Rollback, FreshReads, HasRead, TypeOK
<1>5. CASE UNCHANGED vars
  BY <1>5 DEF vars, FreshReads, HasRead
<1> QED
  BY <1>0, <1>1, <1>2, <1>3, <1>4, <1>5, OtherSteps

\* The invariant of the serial system is inductive.
LEMMA SerialStep == SerialInv /\ [Next /\ NoOverlap']_vars => SerialInv'
<1> SUFFICES ASSUME SerialInv, [Next /\ NoOverlap']_vars
             PROVE  SerialInv'
  OBVIOUS
<1>1. IInv'
  BY StepIInv DEF SerialInv
<1>2. NoOverlap'
  BY DEF SerialInv, vars, NoOverlap
<1>3. FreshReads'
  BY SerialFresh
<1> QED
  BY <1>1, <1>2, <1>3 DEF SerialInv

\* The invariant of the serial system holds in every reachable state.
LEMMA SerialSpecInv == SerialSpec => []SerialInv
  BY SerialInit, SerialStep, PTL DEF SerialSpec
-----------------------------------------------------------------------------
\* A command that commits takes a step the contract allows.
LEMMA CommandRefines ==
  ASSUME SerialInv, NEW s \in Sessions,
         CancelOrder(s) \/ ChangeDeliveryAddress(s) \/ ChangeOrderStatus(s)
  PROVE  Contract!Next
<1>1. PICK after, events :
        /\ after \in Order
        /\ session[s].order \in DOMAIN orders
        /\ session[s].seen = orders[session[s].order]
        /\ session[s].seen \in Order
        /\ Effect(s, after, events)
        /\ orders' = [orders EXCEPT ![session[s].order] = after]
  BY CommandFresh DEF SerialInv
<1> DEFINE o   == session[s].order
           row == orders[o]
<1>2. row \in Order
  BY <1>1
<1>3. CASE Moves(row, after, events)
  <2>1. PICK st \in OrderStatus \ {"NEW", "CANCELLED"} :
          CanTransition(row, st) /\ after = change_status(row, st)
    BY <1>3 DEF Moves
  <2>2. st \in {"CONFIRMED", "SHIPPED", "COMPLETED"}
    BY DEF OrderStatus
  <2>3. Contract!Follows(row.status, st)
    BY <1>2, <2>1, <2>2
    DEF Contract!Follows, CanTransition, ALLOWED_ORDER_TRANSITIONS, Order, OrderStatus
  <2>4. Contract!Advance(o, st)
    BY <1>1, <2>1, <2>3 DEF Contract!Advance, change_status
  <2> QED
    BY <1>1, <2>2, <2>4 DEF Contract!Next
<1>4. CASE Cancels(session[s].actor, row, after, events)
  <2>1. PICK by \in {"CUSTOMER", "MANAGER"}, why \in Reasons \cup {None} :
          /\ CanCancel(row, by, why)
          /\ by = "CUSTOMER" => session[s].actor = row.customer_id /\ why = None
          /\ by = "MANAGER" => session[s].actor \in Staff
          /\ after = cancel(row, by, session[s].actor, why)
    BY <1>4 DEF Cancels
  <2>2. row.status \in Contract!Unfinished
    BY <1>2, <2>1
    DEF CanCancel, CanTransition, ALLOWED_ORDER_TRANSITIONS, Order, OrderStatus,
        Contract!Unfinished, Contract!BeforeDispatch
  <2>3. Contract!Stopped(o, by, session[s].actor, why)
    BY <1>1, <2>1 DEF Contract!Stopped, cancel, change_status
  <2>4. CASE by = "CUSTOMER"
    <3>1. Contract!Withdraw(o)
      BY <2>1, <2>3, <2>4
      DEF Contract!Withdraw, Contract!BeforeDispatch, CanCancel,
          CUSTOMER_CANCELLABLE_STATUSES
    <3> QED
      BY <1>1, <3>1 DEF Contract!Next
  <2>5. CASE by = "MANAGER"
    <3>1. why \in Reasons /\ session[s].actor \in Staff
      BY <2>1, <2>5 DEF CanCancel
    <3>2. Contract!Reject(o, session[s].actor, why)
      BY <2>2, <2>3, <2>5 DEF Contract!Reject
    <3> QED
      BY <1>1, <3>1, <3>2 DEF Contract!Next
  <2> QED
    BY <2>4, <2>5
<1>5. CASE Readdresses(row, after, events)
  <2>1. PICK a \in Addresses :
          CanChangeAddress(row) /\ after = change_delivery_address(row, a)
    BY <1>5 DEF Readdresses
  <2>2. Contract!Readdress(o, a)
    BY <1>1, <2>1
    DEF Contract!Readdress, Contract!BeforeDispatch, CanChangeAddress,
        EDITABLE_ORDER_STATUSES, change_delivery_address
  <2> QED
    BY <1>1, <2>2 DEF Contract!Next
<1> QED
  BY <1>1, <1>3, <1>4, <1>5 DEF Effect

\* As long as two requests never overlap on one order, the sessions, the
\* unlocked reads and the column-wise UPDATEs implement the atomic contract.
THEOREM Refinement == SerialSpec => ImplementsContract
<1>1. Init => Contract!Init
  BY DEF Init, Contract!Init
<1>2. SerialInv /\ [Next /\ NoOverlap']_vars => [Contract!Next]_orders
  <2> SUFFICES ASSUME SerialInv, [Next /\ NoOverlap']_vars
               PROVE  Contract!Next \/ UNCHANGED orders
    OBVIOUS
  <2>1. ASSUME NEW o \in Orders, NEW p \in People, NEW a \in Addresses,
               PlaceOrder(o, p, a)
        PROVE  Contract!Next
    <3>1. Contract!Place(o, p, a)
      BY <2>1 DEF PlaceOrder, place, Contract!Place, Contract!Placed
    <3> QED
      BY <3>1 DEF Contract!Next
  <2>2. ASSUME NEW s \in Sessions, NEW p \in People, NEW o \in Orders,
               NEW c \in Command, Load(s, p, o, c)
        PROVE  UNCHANGED orders
    BY <2>2 DEF Load
  <2>3. ASSUME NEW s \in Sessions, Rollback(s)
        PROVE  UNCHANGED orders
    BY <2>3 DEF Rollback
  <2>4. CASE UNCHANGED vars
    BY <2>4 DEF vars
  <2>5. TypeOK
    BY DEF SerialInv, IInv
  <2> QED
    BY <2>1, <2>2, <2>3, <2>4, <2>5, OtherSteps, CommandRefines
<1>3. SerialSpec => Contract!Init /\ [][Contract!Next]_orders
  BY <1>1, <1>2, SerialSpecInv, PTL DEF SerialSpec
<1> QED
  BY <1>3 DEF ImplementsContract, Contract!Spec
-----------------------------------------------------------------------------
\* Each effect keeps the trace of a cancellation fitting the status.
LEMMA EffectTrace ==
  ASSUME NEW row \in Order, NEW p \in People, NEW after \in Order, NEW events,
         TraceFits(row),
         \/ Moves(row, after, events)
         \/ Cancels(p, row, after, events)
         \/ Readdresses(row, after, events)
  PROVE  TraceFits(after)
<1>1. CASE Moves(row, after, events)
  <2>1. PICK st \in OrderStatus \ {"NEW", "CANCELLED"} :
          CanTransition(row, st) /\ after = change_status(row, st)
    BY <1>1 DEF Moves
  <2>2. row.status # "CANCELLED"
    BY <2>1 DEF CanTransition, ALLOWED_ORDER_TRANSITIONS
  <2>3. /\ after.status # "CANCELLED"
        /\ after.cancelled_by = row.cancelled_by
        /\ after.cancelled_by_user_id = row.cancelled_by_user_id
        /\ after.cancellation_reason = row.cancellation_reason
    BY <2>1 DEF change_status, Order
  <2> QED
    BY <2>2, <2>3 DEF TraceFits
<1>2. CASE Cancels(p, row, after, events)
  <2>1. PICK by \in {"CUSTOMER", "MANAGER"}, why \in Reasons \cup {None} :
          /\ CanCancel(row, by, why)
          /\ by = "CUSTOMER" => p = row.customer_id /\ why = None
          /\ by = "MANAGER" => p \in Staff
          /\ after = cancel(row, by, p, why)
    BY <1>2 DEF Cancels
  <2>2. /\ after.status = "CANCELLED"
        /\ after.customer_id = row.customer_id
        /\ after.cancelled_by = by
        /\ after.cancelled_by_user_id = p
        /\ after.cancellation_reason = why
    BY <2>1 DEF cancel, change_status, Order
  <2>3. by = "MANAGER" => why \in Reasons
    BY <2>1 DEF CanCancel
  <2> QED
    BY <2>1, <2>2, <2>3 DEF TraceFits
<1>3. CASE Readdresses(row, after, events)
  <2>1. PICK a \in Addresses :
          CanChangeAddress(row) /\ after = change_delivery_address(row, a)
    BY <1>3 DEF Readdresses
  <2>2. /\ row.status # "CANCELLED"
        /\ after.status = row.status
        /\ after.cancelled_by = row.cancelled_by
        /\ after.cancelled_by_user_id = row.cancelled_by_user_id
        /\ after.cancellation_reason = row.cancellation_reason
    BY <2>1
    DEF CanChangeAddress, EDITABLE_ORDER_STATUSES, change_delivery_address, Order
  <2> QED
    BY <2>2 DEF TraceFits
<1> QED
  BY <1>1, <1>2, <1>3

\* As long as two requests never overlap on one order, an order carries the
\* trace of a cancellation exactly when it is cancelled, and a fitting one.
THEOREM TraceIsFaithful == SerialSpec => []CancellationTrace
<1>1. Init => CancellationTrace
  BY DEF Init, CancellationTrace
<1>2. SerialInv /\ CancellationTrace /\ [Next /\ NoOverlap']_vars
        => CancellationTrace'
  <2> SUFFICES ASSUME SerialInv, CancellationTrace, [Next /\ NoOverlap']_vars
               PROVE  CancellationTrace'
    OBVIOUS
  <2>1. TypeOK /\ IInv /\ FreshReads
    BY DEF SerialInv, IInv
  <2>2. ASSUME NEW s \in Sessions,
               CancelOrder(s) \/ ChangeDeliveryAddress(s) \/ ChangeOrderStatus(s)
        PROVE  CancellationTrace'
    <3>1. PICK after, events :
            /\ after \in Order
            /\ HasRead(s)
            /\ session[s].order \in DOMAIN orders
            /\ session[s].seen = orders[session[s].order]
            /\ session[s].seen \in Order
            /\ Effect(s, after, events)
            /\ orders' = [orders EXCEPT ![session[s].order] = after]
      BY <2>1, <2>2, CommandFresh
    <3>2. session[s].actor \in People
      BY <2>1, <3>1 DEF TypeOK, HasRead, Request
    <3>3. TraceFits(session[s].seen)
      BY <3>1 DEF CancellationTrace
    <3>4. TraceFits(after)
      BY <3>1, <3>2, <3>3, EffectTrace DEF Effect
    <3>5. \A x \in DOMAIN orders' : orders'[x] = after \/
                                    (x \in DOMAIN orders /\ orders'[x] = orders[x])
      BY <3>1
    <3> QED
      BY <3>4, <3>5 DEF CancellationTrace
  <2>3. ASSUME NEW o \in Orders, NEW p \in People, NEW a \in Addresses,
               PlaceOrder(o, p, a)
        PROVE  CancellationTrace'
    <3>1. TraceFits(place(p, a))
      BY DEF TraceFits, place
    <3>2. \A x \in DOMAIN orders' : orders'[x] = place(p, a) \/
                                    (x \in DOMAIN orders /\ orders'[x] = orders[x])
      BY <2>3 DEF PlaceOrder
    <3> QED
      BY <3>1, <3>2 DEF CancellationTrace
  <2>4. ASSUME UNCHANGED orders
        PROVE  CancellationTrace'
    BY <2>4 DEF CancellationTrace
  <2>5. ASSUME NEW s \in Sessions, Rollback(s)
        PROVE  UNCHANGED orders
    BY <2>5 DEF Rollback
  <2>6. ASSUME NEW s \in Sessions, NEW p \in People, NEW o \in Orders,
               NEW c \in Command, Load(s, p, o, c)
        PROVE  UNCHANGED orders
    BY <2>6 DEF Load
  <2>7. CASE UNCHANGED vars
    BY <2>4, <2>7 DEF vars
  <2> QED
    BY <2>1, <2>2, <2>3, <2>4, <2>5, <2>6, <2>7, OtherSteps
<1> QED
  BY <1>1, <1>2, SerialSpecInv, PTL DEF SerialSpec
-----------------------------------------------------------------------------
(* The announced history *)

\* The last status log announces is st.
EndsWith(log, st) ==
  \E i \in DOMAIN log :
    /\ Announces(log[i], st)
    /\ \A j \in DOMAIN log : j > i => log[j].type = "OrderDeliveryAddressChanged"

\* TerminalNeverLeft of one order.
TerminalLog(log) ==
  \A i, j \in DOMAIN log :
    i < j /\ log[j].type = "OrderStatusChanged" =>
      \A st \in TERMINAL_ORDER_STATUSES : ~Announces(log[i], st)

\* HistoryIsAPath of one order.
PathLog(log) ==
  \A i, j \in DOMAIN log :
    /\ i < j
    /\ log[i].type # "OrderDeliveryAddressChanged"
    /\ log[j].type = "OrderStatusChanged"
    /\ \A k \in i + 1 .. j - 1 : log[k].type = "OrderDeliveryAddressChanged"
    => Announces(log[i], log[j].old)

\* An order is placed before anything else happens to it, and once.
PlacedFirst(log) == \A j \in DOMAIN log : log[j].type = "OrderPlaced" => j = 1

GoodLog(log) == TerminalLog(log) /\ PathLog(log) /\ PlacedFirst(log)

\* Nothing is announced of an order before it is placed.
LogInv ==
  \A o \in Orders : GoodLog(outbox[o]) /\ (o \notin DOMAIN orders => outbox[o] = <<>>)

\* A new address leaves the announced statuses as they are.
LEMMA AddressGoodLog ==
  ASSUME NEW log \in Seq(Event), NEW e \in Event, GoodLog(log),
         e.type = "OrderDeliveryAddressChanged"
  PROVE  GoodLog(Append(log, e))
<1> DEFINE new == Append(log, e)
           n   == Len(log) + 1
<1>1. /\ DOMAIN new = 1 .. n /\ DOMAIN log = 1 .. n - 1 /\ n \in Nat
      /\ new[n] = e
      /\ \A i \in DOMAIN log : new[i] = log[i]
  OBVIOUS
<1> HIDE DEF new, n
<1>2. TerminalLog(new)
  BY <1>1 DEF GoodLog, TerminalLog
<1>3. PathLog(new)
  <2> SUFFICES ASSUME NEW i \in DOMAIN new, NEW j \in DOMAIN new,
                      i < j, new[i].type # "OrderDeliveryAddressChanged",
                      new[j].type = "OrderStatusChanged",
                      \A k \in i + 1 .. j - 1 : new[k].type = "OrderDeliveryAddressChanged"
               PROVE  Announces(new[i], new[j].old)
    BY DEF PathLog
  <2>1. i \in DOMAIN log /\ j \in DOMAIN log
    BY <1>1
  <2>2. \A k \in i + 1 .. j - 1 : log[k].type = "OrderDeliveryAddressChanged"
    BY <1>1, <2>1
  <2> QED
    BY <1>1, <2>1, <2>2 DEF GoodLog, PathLog
<1>4. PlacedFirst(new)
  BY <1>1 DEF GoodLog, PlacedFirst
<1> QED
  BY <1>2, <1>3, <1>4 DEF GoodLog, new

\* A move away from the last announced status, which is not terminal, goes on
\* with the path.
LEMMA MoveGoodLog ==
  ASSUME NEW log \in Seq(Event), NEW e \in Event, GoodLog(log),
         e.type = "OrderStatusChanged",
         EndsWith(log, e.old), e.old \notin TERMINAL_ORDER_STATUSES
  PROVE  GoodLog(Append(log, e))
<1> DEFINE new == Append(log, e)
           n   == Len(log) + 1
<1>1. /\ DOMAIN new = 1 .. n /\ DOMAIN log = 1 .. n - 1 /\ n \in Nat
      /\ new[n] = e
      /\ \A i \in DOMAIN log : new[i] = log[i]
  OBVIOUS
<1> HIDE DEF new, n
<1>2. PICK l \in DOMAIN log :
        /\ Announces(log[l], e.old)
        /\ \A j \in DOMAIN log : j > l => log[j].type = "OrderDeliveryAddressChanged"
  BY DEF EndsWith
<1>3. log[l].type # "OrderDeliveryAddressChanged"
  BY <1>2 DEF Announces
<1>4. ASSUME NEW i \in DOMAIN log, NEW st \in TERMINAL_ORDER_STATUSES,
             Announces(log[i], st)
      PROVE  FALSE
  <2>1. log[i].type # "OrderDeliveryAddressChanged"
    BY <1>4 DEF Announces
  <2>2. ~(i > l)
    BY <1>2, <2>1
  <2>3. CASE i = l
    BY <1>2, <1>4, <2>3 DEF Announces, TERMINAL_ORDER_STATUSES
  <2>4. CASE i < l
    <3>1. log[l].type # "OrderStatusChanged"
      BY <1>4, <2>4 DEF GoodLog, TerminalLog
    <3>2. l = 1
      BY <1>2, <3>1 DEF Announces, GoodLog, PlacedFirst
    <3> QED
      BY <1>1, <2>4, <3>2
  <2> QED
    BY <1>1, <2>2, <2>3, <2>4
<1>5. TerminalLog(new)
  <2> SUFFICES ASSUME NEW i \in DOMAIN new, NEW j \in DOMAIN new,
                      i < j, new[j].type = "OrderStatusChanged",
                      NEW st \in TERMINAL_ORDER_STATUSES, Announces(new[i], st)
               PROVE  FALSE
    BY DEF TerminalLog
  <2>1. i \in DOMAIN log /\ new[i] = log[i]
    BY <1>1
  <2> QED
    BY <1>4, <2>1
<1>6. PathLog(new)
  <2> SUFFICES ASSUME NEW i \in DOMAIN new, NEW j \in DOMAIN new,
                      i < j, new[i].type # "OrderDeliveryAddressChanged",
                      new[j].type = "OrderStatusChanged",
                      \A k \in i + 1 .. j - 1 : new[k].type = "OrderDeliveryAddressChanged"
               PROVE  Announces(new[i], new[j].old)
    BY DEF PathLog
  <2>1. i \in DOMAIN log /\ new[i] = log[i]
    BY <1>1
  <2>2. CASE j = n
    <3>1. ~(i > l)
      BY <1>2, <2>1
    <3>2. ~(i < l)
      <4>1. ASSUME i < l PROVE FALSE
        <5>1. l \in i + 1 .. j - 1
          BY <1>1, <2>1, <2>2, <4>1
        <5> QED
          BY <1>1, <1>3, <5>1
      <4> QED
        BY <4>1
    <3>3. i = l
      BY <1>1, <2>1, <3>1, <3>2
    <3> QED
      BY <1>1, <1>2, <2>1, <2>2, <3>3
  <2>3. CASE j # n
    <3>1. j \in DOMAIN log /\ new[j] = log[j]
      BY <1>1, <2>3
    <3>2. \A k \in i + 1 .. j - 1 : log[k].type = "OrderDeliveryAddressChanged"
      BY <1>1, <2>1, <3>1
    <3> QED
      BY <2>1, <3>1, <3>2 DEF GoodLog, PathLog
  <2> QED
    BY <2>2, <2>3
<1>7. PlacedFirst(new)
  BY <1>1 DEF GoodLog, PlacedFirst
<1> QED
  BY <1>5, <1>6, <1>7 DEF GoodLog, new

\* What an effect announces: nothing, a new address, or a move away from the
\* status that was read, which has moves left.
LEMMA EffectLog ==
  ASSUME TypeOK, NEW s \in Sessions, HasRead(s), NEW after, NEW events,
         Effect(s, after, events)
  PROVE  \/ events = <<>>
         \/ \E e \in Event :
              /\ events = <<e>>
              /\ \/ e.type = "OrderDeliveryAddressChanged"
                 \/ /\ e.type = "OrderStatusChanged"
                    /\ e.old = session[s].seen.status
                    /\ e.old \notin TERMINAL_ORDER_STATUSES
<1> DEFINE seen == session[s].seen
<1>1. seen \in Order
  BY DEF TypeOK, HasRead, Request
<1>2. ASSUME NEW st, NEW why \in Reasons \cup {None}, CanTransition(seen, st),
             events = <<OrderStatusChanged(seen.status, st, why)>>
      PROVE  \E e \in Event :
               /\ events = <<e>>
               /\ e.type = "OrderStatusChanged"
               /\ e.old = seen.status
               /\ e.old \notin TERMINAL_ORDER_STATUSES
  <2>1. st \in OrderStatus /\ seen.status \in OrderStatus
        /\ seen.status \notin TERMINAL_ORDER_STATUSES
    BY <1>1, <1>2
    DEF CanTransition, ALLOWED_ORDER_TRANSITIONS, OrderStatus, TERMINAL_ORDER_STATUSES, Order
  <2>2. OrderStatusChanged(seen.status, st, why) \in Event
    BY <2>1 DEF Event, OrderStatusChanged
  <2> QED
    BY <1>2, <2>1, <2>2 DEF OrderStatusChanged
<1>3. CASE Moves(seen, after, events)
  BY <1>2, <1>3 DEF Moves
<1>4. CASE Cancels(session[s].actor, seen, after, events)
  BY <1>2, <1>4 DEF Cancels, CanCancel
<1>5. CASE Readdresses(seen, after, events)
  <2>1. PICK a \in Addresses : events = AddressEvents(seen, a)
    BY <1>5 DEF Readdresses
  <2>2. OrderDeliveryAddressChanged(seen.delivery_address, a) \in Event
    BY <1>1 DEF Event, OrderDeliveryAddressChanged, Order
  <2> QED
    BY <2>1, <2>2 DEF AddressEvents, OrderDeliveryAddressChanged
<1> QED
  BY <1>3, <1>4, <1>5 DEF Effect

\* The announced history stays one path that ends in a terminal status.
LEMMA LogStep ==
  ASSUME SerialInv, LogInv, [Next /\ NoOverlap']_vars
  PROVE  LogInv'
<1>1. TypeOK /\ IInv /\ ReadsStand /\ FreshReads /\ LastWordIsTheRow
  BY DEF SerialInv, IInv
<1>2. ASSUME NEW s \in Sessions,
             CancelOrder(s) \/ ChangeDeliveryAddress(s) \/ ChangeOrderStatus(s)
      PROVE  LogInv'
  <2> DEFINE o == session[s].order
  <2>1. HasRead(s)
    BY <1>1, <1>2, CommandEffects
  <2>2. PICK after, events : Commit(s, after, events) /\ Effect(s, after, events)
    BY <1>1, <1>2, CommandEffects
  <2>3. /\ o \in DOMAIN orders
        /\ DOMAIN orders' = DOMAIN orders
        /\ outbox'[o] = outbox[o] \o events
        /\ \A x \in Orders \ {o} : outbox'[x] = outbox[x]
    BY <1>1, <2>1, <2>2, CommitEffect
  <2>4. session[s].seen = orders[o] /\ o \in Orders /\ outbox[o] \in Seq(Event)
    BY <1>1, <2>1, <2>3 DEF FreshReads, TypeOK
  <2>5. EndsWith(outbox[o], session[s].seen.status) /\ GoodLog(outbox[o])
    BY <1>1, <2>3, <2>4 DEF LastWordIsTheRow, EndsWith, LogInv
  <2>6. GoodLog(outbox'[o])
    <3>1. CASE events = <<>>
      BY <2>3, <2>4, <2>5, <3>1, ConcatEmptySeq
    <3>2. ASSUME NEW e \in Event, events = <<e>>,
                 \/ e.type = "OrderDeliveryAddressChanged"
                 \/ /\ e.type = "OrderStatusChanged"
                    /\ e.old = session[s].seen.status
                    /\ e.old \notin TERMINAL_ORDER_STATUSES
          PROVE  GoodLog(outbox'[o])
      <4>1. outbox'[o] = Append(outbox[o], e)
        BY <2>3, <2>4, <3>2, AppendIsConcat
      <4> QED
        BY <2>4, <2>5, <3>2, <4>1, AddressGoodLog, MoveGoodLog
    <3> QED
      BY <1>1, <2>1, <2>2, <3>1, <3>2, EffectLog
  <2> QED
    BY <2>3, <2>6 DEF LogInv
<1>3. ASSUME NEW o \in Orders, NEW p \in People, NEW a \in Addresses,
             PlaceOrder(o, p, a)
      PROVE  LogInv'
  <2>1. /\ o \notin DOMAIN orders /\ DOMAIN orders' = DOMAIN orders \cup {o}
        /\ outbox'[o] = Append(outbox[o], OrderPlaced)
        /\ \A x \in Orders \ {o} : outbox'[x] = outbox[x]
    BY <1>1, <1>3 DEF PlaceOrder, TypeOK
  <2>2. outbox[o] = <<>>
    BY <2>1 DEF LogInv
  <2>3. DOMAIN outbox'[o] = {1} /\ outbox'[o][1] = OrderPlaced
    BY <2>1, <2>2
  <2>4. GoodLog(outbox'[o])
    BY <2>3 DEF GoodLog, TerminalLog, PathLog, PlacedFirst, OrderPlaced
  <2> QED
    BY <2>1, <2>4 DEF LogInv
<1>4. ASSUME UNCHANGED <<orders, outbox>>
      PROVE  LogInv'
  BY <1>4 DEF LogInv
<1>5. ASSUME NEW s \in Sessions, Rollback(s)
      PROVE  UNCHANGED <<orders, outbox>>
  BY <1>5 DEF Rollback
<1>6. ASSUME NEW s \in Sessions, NEW p \in People, NEW o \in Orders,
             NEW c \in Command, Load(s, p, o, c)
      PROVE  UNCHANGED <<orders, outbox>>
  BY <1>6 DEF Load
<1>7. CASE UNCHANGED vars
  BY <1>4, <1>7 DEF vars
<1> QED
  BY <1>1, <1>2, <1>3, <1>4, <1>5, <1>6, <1>7, OtherSteps

\* Every order's announced history is a good one.
LEMMA SerialLogs == SerialSpec => []LogInv
<1>1. Init => LogInv
  BY DEF Init, LogInv, GoodLog, TerminalLog, PathLog, PlacedFirst
<1>2. SerialInv /\ LogInv /\ [Next /\ NoOverlap']_vars => LogInv'
  BY LogStep
<1> QED
  BY <1>1, <1>2, SerialSpecInv, PTL DEF SerialSpec

\* As long as two requests never overlap on one order, no status is announced
\* for it after a terminal one.
THEOREM TerminalStays == SerialSpec => []TerminalNeverLeft
<1>1. LogInv => TerminalNeverLeft
  BY DEF LogInv, GoodLog, TerminalLog, TerminalNeverLeft
<1> QED
  BY <1>1, SerialLogs, PTL

\* As long as two requests never overlap on one order, its announced moves form
\* one path.
THEOREM HistoryConnects == SerialSpec => []HistoryIsAPath
<1>1. LogInv => HistoryIsAPath
  BY DEF LogInv, GoodLog, PathLog, HistoryIsAPath
<1> QED
  BY <1>1, SerialLogs, PTL
=============================================================================
