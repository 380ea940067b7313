------------------------- MODULE OrderScreensProofs -------------------------
(***************************************************************************)
(* What the order dialogs keep for any number of people, orders, managers  *)
(* and updates in flight.                                                  *)
(***************************************************************************)
EXTENDS OrderScreens, SequenceTheorems, TLAPS

-----------------------------------------------------------------------------
(* The state *)

Windows ==
    {"closed", "DONE", "LIST", "CARD", "EDIT_ADDRESS", "CANCEL_CONFIRM", "QUEUE", "FILTER",
     "MANAGED_CARD", "STATUS", "CANCEL_REASON"}

\* The windows of one order.
Focused ==
    {"DONE", "CARD", "EDIT_ADDRESS", "CANCEL_CONFIRM", "MANAGED_CARD", "STATUS", "CANCEL_REASON"}

Items == OrderStatus \cup Nat \cup {None}

Ids ==
    {"open_order", "order_select", "orders_prev", "orders_next", "close", "edit_address",
     "cancel_order", "back", "cancel_yes", "queue_select", "queue_prev", "queue_next", "filter",
     "filter_select", "filter_any", "status", "status_select", "text", "/orders",
     "/manage_orders", "outdated"}

PagerIds == {"orders_prev", "orders_next", "queue_prev", "queue_next"}

SelectIds == {"order_select", "queue_select"}

Table == [Orders -> OrderRow \cup {None}]

Dialog == [window : Windows, order : Orders \cup {None}, filter : Items, page : Nat]

Updates ==
    [id : Ids, item : Items, order : Orders \cup {None}, status : OrderStatus \cup {None}]

\* The order the window is about.
Focus(d) == IF d.window \in Focused THEN d.order ELSE None

\* A button of a message that shows the status st.
ButtonOK(b, st) ==
    /\ b \in [id : Ids, item : Items]
    /\ b.id \in PagerIds => b.item \in Nat
    /\ b.id = "status_select" => b.item \in ALLOWED_ORDER_TRANSITIONS(st)
    /\ b.id = "edit_address" => st \in EDITABLE_ORDER_STATUSES
    /\ b.id = "cancel_order" => st \in CUSTOMER_CANCELLABLE_STATUSES
    /\ b.id = "status" => \E t \in OrderStatus : t \in ALLOWED_ORDER_TRANSITIONS(st)

\* The message shows the window the dialog is in and the order it is about.
ScreenOK(s, d) ==
    /\ s.window = d.window
    /\ s.order = Focus(d)
    /\ s.status \in OrderStatus \cup {None}
    /\ \A b \in s.buttons : b.id \in Widgets(d.window) /\ ButtonOK(b, s.status)

\* From a list to one of its rows, or to its filter.
LeadsDown(id) == id \in SelectIds \cup {"filter"}

UpdateOK(u) ==
    /\ u.id \in PagerIds => u.item \in Nat
    /\ LeadsDown(u.id) => u.order = None
    /\ u.id = "status_select" => u.item \in ALLOWED_ORDER_TRANSITIONS(u.status)

\* The windows whose text or button changes the order.
Acting == {"EDIT_ADDRESS", "CANCEL_CONFIRM", "STATUS", "CANCEL_REASON"}

\* What is sent from below a list.
DeepIds == {"edit_address", "cancel_order", "status", "back", "filter_select", "filter_any"}

\* From a card; from the filter.
LeadsOff(id) == id \in {"edit_address", "cancel_order", "status", "back"}

LeadsUp(id) == id \in {"filter_select", "filter_any", "back"}

\* What waits behind an update that leaves the window was sent from the window.
QueueOK(q, d) ==
    /\ d.window \in Acting => \A i \in 1..Len(q) : q[i].order = d.order
    /\ d.window \in {"CARD", "MANAGED_CARD"} =>
          \A i, j \in 1..Len(q) : i < j /\ LeadsOff(q[i].id) => q[j].order = d.order
    /\ d.window \in {"LIST", "QUEUE"} =>
          \A i, j \in 1..Len(q) : i < j /\ LeadsDown(q[i].id) => q[j].id \notin DeepIds
    /\ d.window = "FILTER" =>
          \A i, j \in 1..Len(q) : i < j /\ LeadsUp(q[i].id) => q[j].id \notin SelectIds \cup {"filter"}

\* What one chat keeps: its dialog d, its message s and its queue q over the orders os.
ChatOK(d, s, q, os) ==
    /\ d.window \in Focused => d.order \in Orders /\ os[d.order] # None
    /\ ScreenOK(s, d)
    /\ \A i \in 1..Len(q) : UpdateOK(q[i])
    /\ QueueOK(q, d)

IInv ==
    /\ orders \in Table
    /\ dialog \in [People -> Dialog]
    /\ queue \in [People -> Seq(Updates)]
    /\ screen = [p \in People |-> screen[p]]
    /\ \A p \in People : ChatOK(dialog[p], screen[p], queue[p], orders)

-----------------------------------------------------------------------------
(* The table of moves *)

LEMMA Transitions ==
  /\ \A s : ALLOWED_ORDER_TRANSITIONS(s) \subseteq OrderStatus
  /\ \A s \in OrderStatus \ TERMINAL_ORDER_STATUSES :
        "CANCELLED" \in ALLOWED_ORDER_TRANSITIONS(s)
  /\ \A s, t, x : /\ x # "CANCELLED"
                   /\ x \in ALLOWED_ORDER_TRANSITIONS(s)
                   /\ x \in ALLOWED_ORDER_TRANSITIONS(t) => s = t
  /\ CUSTOMER_CANCELLABLE_STATUSES \subseteq OrderStatus \ TERMINAL_ORDER_STATUSES
  BY DEF ALLOWED_ORDER_TRANSITIONS, OrderStatus, TERMINAL_ORDER_STATUSES,
     CUSTOMER_CANCELLABLE_STATUSES

-----------------------------------------------------------------------------
(* Queues *)

LEMMA TailOfQueue ==
  ASSUME NEW q \in Seq(Updates), q # <<>>
  PROVE  /\ Tail(q) \in Seq(Updates) /\ Head(q) \in Updates
         /\ Head(q) = q[1] /\ 1 \in 1..Len(q)
         /\ \A i \in 1..Len(Tail(q)) : i + 1 \in 1..Len(q) /\ Tail(q)[i] = q[i + 1]
  OBVIOUS

LEMMA TailKeeps ==
  ASSUME NEW q \in Seq(Updates), q # <<>>, NEW d,
         \A i \in 1..Len(q) : UpdateOK(q[i]), QueueOK(q, d)
  PROVE  /\ \A i \in 1..Len(Tail(q)) : UpdateOK(Tail(q)[i])
         /\ QueueOK(Tail(q), d)
<1>1. /\ Len(Tail(q)) \in Nat /\ Len(q) \in Nat
      /\ \A i \in 1..Len(Tail(q)) : i + 1 \in 1..Len(q) /\ Tail(q)[i] = q[i + 1]
  BY TailOfQueue
<1>2. \A i \in 1..Len(Tail(q)) : UpdateOK(Tail(q)[i])
  BY <1>1
<1>3. \A i, j \in 1..Len(Tail(q)) : i < j => i + 1 < j + 1
  OBVIOUS
<1>4. QueueOK(Tail(q), d)
  BY <1>1, <1>3 DEF QueueOK
<1> QED
  BY <1>2, <1>4

\* Everything in the queue was sent from a window of this order.
LEMMA QueueAbout ==
  ASSUME NEW q \in Seq(Updates), NEW d \in Dialog, d.order \in Orders,
         \A i \in 1..Len(q) : UpdateOK(q[i]) /\ q[i].order = d.order
  PROVE  QueueOK(q, d)
  BY ScreensAssumption DEF QueueOK, UpdateOK, LeadsDown

\* Everything in the queue was sent from a list.
LEMMA QueueShallow ==
  ASSUME NEW q \in Seq(Updates), NEW d \in Dialog, d.window \notin Acting,
         \A i \in 1..Len(q) : q[i].id \notin DeepIds
  PROVE  QueueOK(q, d)
  BY DEF QueueOK, DeepIds, LeadsOff, LeadsUp

\* Nothing in the queue was sent from a list.
LEMMA QueueAbove ==
  ASSUME NEW q \in Seq(Updates), NEW d \in Dialog, d.window \in {"LIST", "QUEUE"},
         \A i \in 1..Len(q) : ~LeadsDown(q[i].id)
  PROVE  QueueOK(q, d)
  BY DEF QueueOK, Acting

LEMMA OutdatedKeeps ==
  ASSUME NEW q \in Seq(Updates), \A i \in 1..Len(q) : UpdateOK(q[i]),
         NEW d \in Dialog, d.window \notin Acting
  PROVE  /\ Outdated(q) \in Seq(Updates)
         /\ \A i \in 1..Len(Outdated(q)) : UpdateOK(Outdated(q)[i])
         /\ QueueOK(Outdated(q), d)
<1>1. /\ DOMAIN q = 1..Len(q) /\ Len(q) \in Nat
      /\ \A i \in 1..Len(q) : q[i] \in Updates
  OBVIOUS
<1>2. ASSUME NEW i \in 1..Len(q)
      PROVE  /\ Outdated(q)[i] \in Updates
             /\ Outdated(q)[i].id \in {"text", "/orders", "/manage_orders", "outdated"}
  <2>1. (Outdated(q)[i] = q[i] /\ StillMeant(q[i])) \/ Outdated(q)[i] = OutdatedTap
    BY <1>1 DEF Outdated
  <2>2. OutdatedTap \in Updates /\ OutdatedTap.id = "outdated"
    BY DEF OutdatedTap, Updates, Items, Ids
  <2> QED
    BY <1>1, <2>1, <2>2 DEF StillMeant
<1>3. Outdated(q) = [i \in 1..Len(q) |-> Outdated(q)[i]]
  BY <1>1 DEF Outdated
<1>4. Outdated(q) \in Seq(Updates) /\ Len(Outdated(q)) = Len(q)
  BY <1>1, <1>2, <1>3
<1>5. \A i \in 1..Len(Outdated(q)) : UpdateOK(Outdated(q)[i])
  BY <1>2, <1>4 DEF UpdateOK, LeadsDown, SelectIds, PagerIds
<1>6. QueueOK(Outdated(q), d)
  BY <1>2, <1>4, QueueShallow DEF DeepIds
<1> QED
  BY <1>4, <1>5, <1>6

\* A queue the person adds to.
LEMMA AppendKeeps ==
  ASSUME NEW q \in Seq(Updates), \A i \in 1..Len(q) : UpdateOK(q[i]),
         NEW d \in Dialog, QueueOK(q, d),
         NEW u \in Updates, UpdateOK(u), u.order = Focus(d),
         u.id \in Widgets(d.window) \cup {"text", "/orders", "/manage_orders"}
  PROVE  /\ Append(q, u) \in Seq(Updates)
         /\ \A i \in 1..Len(Append(q, u)) : UpdateOK(Append(q, u)[i])
         /\ QueueOK(Append(q, u), d)
<1> DEFINE r == Append(q, u)
<1>1. /\ r \in Seq(Updates) /\ Len(r) = Len(q) + 1 /\ Len(q) \in Nat
      /\ \A i \in 1..Len(q) : r[i] = q[i]
      /\ r[Len(q) + 1] = u
  OBVIOUS
<1> HIDE DEF r
<1>2. \A i \in 1..Len(r) : i \in 1..Len(q) \/ i = Len(q) + 1
  BY <1>1
<1>3. \A i \in 1..Len(r) : UpdateOK(r[i])
  BY <1>1, <1>2
<1>4. \A i, j \in 1..Len(r) : i < j => i \in 1..Len(q)
  BY <1>1
<1>5. ASSUME d.window \in Acting
      PROVE  \A i \in 1..Len(r) : r[i].order = d.order
  <2>1. u.order = d.order
    BY <1>5 DEF Focus, Focused, Acting
  <2> QED
    BY <1>1, <1>2, <1>5, <2>1 DEF QueueOK
<1>6. ASSUME d.window \in {"CARD", "MANAGED_CARD"}
      PROVE  \A i, j \in 1..Len(r) : i < j /\ LeadsOff(r[i].id) => r[j].order = d.order
  <2>1. u.order = d.order
    BY <1>6 DEF Focus, Focused
  <2> QED
    BY <1>1, <1>2, <1>4, <1>6, <2>1 DEF QueueOK
<1>7. ASSUME d.window \in {"LIST", "QUEUE"}
      PROVE  \A i, j \in 1..Len(r) : i < j /\ LeadsDown(r[i].id) => r[j].id \notin DeepIds
  <2>1. u.id \notin DeepIds
    BY <1>7 DEF Widgets, DeepIds
  <2> QED
    BY <1>1, <1>2, <1>4, <1>7, <2>1 DEF QueueOK
<1>8. ASSUME d.window = "FILTER"
      PROVE  \A i, j \in 1..Len(r) :
                i < j /\ LeadsUp(r[i].id) => r[j].id \notin SelectIds \cup {"filter"}
  <2>1. u.id \notin SelectIds \cup {"filter"}
    BY <1>8 DEF Widgets, SelectIds
  <2> QED
    BY <1>1, <1>2, <1>4, <1>8, <2>1 DEF QueueOK
<1>9. QueueOK(r, d)
  BY <1>5, <1>6, <1>7, <1>8 DEF QueueOK
<1> QED
  BY <1>1, <1>3, <1>9 DEF r

-----------------------------------------------------------------------------
(* Messages *)

\* The order a window names is there, and a prompt follows the window of its order.
Drawable(p, d, os) ==
    /\ d.window \in NamesAnOrder \cup {"DONE"} => d.order \in Orders /\ os[d.order] # None
    /\ d.window \in {"EDIT_ADDRESS", "CANCEL_REASON"} =>
          /\ d.order \in Orders /\ os[d.order] # None
          /\ screen[p].order = d.order /\ screen[p].status \in OrderStatus \cup {None}

LEMMA PlainButtons ==
  ASSUME NEW ids \in SUBSET Ids, NEW st,
         ids \cap {"status_select", "edit_address", "cancel_order", "status"} = {},
         ids \cap PagerIds = {}
  PROVE  \A b \in Plain(ids) : b.id \in ids /\ ButtonOK(b, st)
<1> SUFFICES ASSUME NEW b \in Plain(ids) PROVE b.id \in ids /\ ButtonOK(b, st)
  OBVIOUS
<1>1. PICK id \in ids : b = [id |-> id, item |-> None]
  BY DEF Plain, Button
<1>2. b.id = id /\ b \in [id : Ids, item : Items]
  BY <1>1 DEF Items
<1> QED
  BY <1>2 DEF ButtonOK

LEMMA PageButtons ==
  ASSUME NEW select \in SelectIds, NEW prev \in PagerIds, NEW next \in PagerIds,
         NEW rows \in SUBSET Orders, NEW n \in Nat, NEW st
  PROVE  \A b \in ListButtons(select, prev, next, rows, NewestFirst, n) :
            b.id \in {select, prev, next} /\ ButtonOK(b, st)
<1> SUFFICES ASSUME NEW b \in ListButtons(select, prev, next, rows, NewestFirst, n)
             PROVE  b.id \in {select, prev, next} /\ ButtonOK(b, st)
  OBVIOUS
<1>1. \/ \E x \in rows : b = [id |-> select, item |-> x]
      \/ b = [id |-> prev, item |-> n - 1] /\ n > 0
      \/ b = [id |-> next, item |-> n + 1]
  BY DEF ListButtons, PageOf, Pager, Button
<1>2. PICK id \in {select, prev, next}, x \in Nat : b = [id |-> id, item |-> x]
  BY <1>1, ScreensAssumption
<1>3. b.id = id /\ b.item = x /\ b \in [id : Ids, item : Items]
  BY <1>2 DEF Items, Ids, SelectIds, PagerIds
<1>4. b.id \notin {"status_select", "edit_address", "cancel_order", "status"}
  BY <1>3 DEF SelectIds, PagerIds
<1> QED
  BY <1>3, <1>4 DEF ButtonOK

\* What a list, a card, the picker and the other windows draw.
LEMMA ListDrawn ==
  ASSUME NEW p \in People, NEW d \in Dialog, NEW os \in Table, NEW st,
         d.window \in {"LIST", "QUEUE"}
  PROVE  \A b \in Buttons(p, d, os) : b.id \in Widgets(d.window) /\ ButtonOK(b, st)
<1>1. d.page \in Nat
  BY DEF Dialog
<1>2. CASE d.window = "LIST"
  <2> DEFINE rows == ListMyOrders(p, os)
  <2>1. rows \in SUBSET Orders
    BY DEF ListMyOrders, read_for_customer
  <2> HIDE DEF rows
  <2>2. Buttons(p, d, os) =
          ListButtons("order_select", "orders_prev", "orders_next", rows, NewestFirst, d.page)
            \cup Plain({"close"})
    BY <1>2 DEF Buttons, HistoryWindows, HistoryButtons, orders_getter, rows
  <2>3. "order_select" \in SelectIds /\ "orders_prev" \in PagerIds /\ "orders_next" \in PagerIds
    BY DEF SelectIds, PagerIds
  <2>4. \A b \in ListButtons("order_select", "orders_prev", "orders_next", rows, NewestFirst,
                              d.page) :
          b.id \in {"order_select", "orders_prev", "orders_next"} /\ ButtonOK(b, st)
    BY <1>1, <2>1, <2>3, PageButtons
  <2>5. \A b \in Plain({"close"}) : b.id \in {"close"} /\ ButtonOK(b, st)
    BY PlainButtons DEF Ids, PagerIds
  <2>6. Widgets(d.window) = {"order_select", "orders_prev", "orders_next", "close"}
    BY <1>2 DEF Widgets
  <2> QED
    BY <2>2, <2>4, <2>5, <2>6
<1>3. CASE d.window = "QUEUE"
  <2> DEFINE rows == read_all(d.filter, os)
  <2>1. rows \in SUBSET Orders
    BY DEF read_all
  <2> HIDE DEF rows
  <2>2. Buttons(p, d, os) =
          ListButtons("queue_select", "queue_prev", "queue_next", rows, NewestFirst, d.page)
            \cup Plain({"filter", "close"})
    BY <1>3 DEF Buttons, HistoryWindows, QueueButtons, queue_getter, rows
  <2>3. "queue_select" \in SelectIds /\ "queue_prev" \in PagerIds /\ "queue_next" \in PagerIds
    BY DEF SelectIds, PagerIds
  <2>4. \A b \in ListButtons("queue_select", "queue_prev", "queue_next", rows, NewestFirst,
                              d.page) :
          b.id \in {"queue_select", "queue_prev", "queue_next"} /\ ButtonOK(b, st)
    BY <1>1, <2>1, <2>3, PageButtons
  <2>5. \A b \in Plain({"filter", "close"}) : b.id \in {"filter", "close"} /\ ButtonOK(b, st)
    BY PlainButtons DEF Ids, PagerIds
  <2>6. Widgets(d.window) = {"queue_select", "queue_prev", "queue_next", "filter", "close"}
    BY <1>3 DEF Widgets
  <2> QED
    BY <2>2, <2>4, <2>5, <2>6
<1> QED
  BY <1>2, <1>3

LEMMA CardDrawn ==
  ASSUME NEW p \in People, NEW d \in Dialog, NEW os \in Table,
         d.window \in {"CARD", "MANAGED_CARD", "STATUS"},
         d.order \in Orders, os[d.order] # None
  PROVE  \A b \in Buttons(p, d, os) :
            b.id \in Widgets(d.window) /\ ButtonOK(b, os[d.order].status)
<1> DEFINE st == os[d.order].status
<1>1. os[d.order] \in OrderRow
  BY DEF Table
<1>2. st \in OrderStatus
  BY <1>1 DEF OrderRow
<1>3. /\ to_view(os[d.order]).status = st
      /\ to_view(os[d.order]).is_cancellable <=> st \in CUSTOMER_CANCELLABLE_STATUSES
      /\ to_view(os[d.order]).is_editable <=> st \in EDITABLE_ORDER_STATUSES
      /\ to_view(os[d.order]).is_terminal <=> st \in TERMINAL_ORDER_STATUSES
  BY DEF to_view
<1> HIDE DEF st
<1>4. SUFFICES ASSUME NEW b \in Buttons(p, d, os)
               PROVE  b.id \in Widgets(d.window) /\ ButtonOK(b, st)
  BY DEF st
<1>5. \A b2 \in Plain({"back", "close"}) : b2.id \in {"back", "close"} /\ ButtonOK(b2, st)
  BY PlainButtons DEF Ids, PagerIds
<1>6. CASE d.window = "CARD"
  <2>1. \/ b \in Plain({"back", "close"})
        \/ b = [id |-> "edit_address", item |-> None] /\ st \in EDITABLE_ORDER_STATUSES
        \/ b = [id |-> "cancel_order", item |-> None] /\ st \in CUSTOMER_CANCELLABLE_STATUSES
    <3>1. b \in order_card_getter(to_view(os[d.order])) \cup Plain({"back", "close"})
      BY <1>4, <1>6 DEF Buttons, HistoryWindows, HistoryButtons
    <3> QED
      BY <1>3, <3>1 DEF order_card_getter, Plain, Button
  <2>2. Widgets(d.window) = {"edit_address", "cancel_order", "back", "close"}
    BY <1>6 DEF Widgets
  <2> QED
    BY <1>5, <2>1, <2>2 DEF ButtonOK, Ids, Items, PagerIds
<1>7. CASE d.window = "MANAGED_CARD"
  <2>1. \/ b \in Plain({"back", "close"})
        \/ b = [id |-> "status", item |-> None] /\ st \notin TERMINAL_ORDER_STATUSES
    <3>1. b \in managed_order_card_getter(to_view(os[d.order])) \cup Plain({"back", "close"})
      BY <1>4, <1>7 DEF Buttons, HistoryWindows, QueueButtons
    <3> QED
      BY <1>3, <3>1 DEF managed_order_card_getter, Plain, Button
  <2>2. Widgets(d.window) = {"status", "back", "close"}
    BY <1>7 DEF Widgets
  <2>3. st \notin TERMINAL_ORDER_STATUSES =>
          \E t \in OrderStatus : t \in ALLOWED_ORDER_TRANSITIONS(st)
    BY <1>2, Transitions
  <2> QED
    BY <1>5, <2>1, <2>2, <2>3 DEF ButtonOK, Ids, Items, PagerIds
<1>8. CASE d.window = "STATUS"
  <2>1. \/ b \in Plain({"back"})
        \/ \E s \in ALLOWED_ORDER_TRANSITIONS(st) : b = [id |-> "status_select", item |-> s]
    <3>1. b \in transitions_getter(to_view(os[d.order])) \cup Plain({"back"})
      BY <1>4, <1>8 DEF Buttons, HistoryWindows, QueueButtons
    <3> QED
      BY <1>3, <3>1 DEF transitions_getter, Button
  <2>2. Widgets(d.window) = {"status_select", "back"}
    BY <1>8 DEF Widgets
  <2>3. \A b2 \in Plain({"back"}) : b2.id \in {"back"} /\ ButtonOK(b2, st)
    BY PlainButtons DEF Ids, PagerIds
  <2>4. ASSUME NEW s \in ALLOWED_ORDER_TRANSITIONS(st), b = [id |-> "status_select", item |-> s]
        PROVE  b.id \in Widgets(d.window) /\ ButtonOK(b, st)
    <3>1. b.id = "status_select" /\ b.item = s /\ s \in OrderStatus
      BY <2>4, Transitions
    <3>2. b \in [id : Ids, item : Items]
      BY <2>4, <3>1 DEF Ids, Items
    <3> QED
      BY <2>2, <3>1, <3>2 DEF ButtonOK, PagerIds
  <2> QED
    BY <2>1, <2>2, <2>3, <2>4
<1> QED
  BY <1>6, <1>7, <1>8

LEMMA OtherDrawn ==
  ASSUME NEW p \in People, NEW d \in Dialog, NEW os, NEW st,
         d.window \in {"closed", "DONE", "EDIT_ADDRESS", "CANCEL_CONFIRM", "FILTER", "CANCEL_REASON"}
  PROVE  \A b \in Buttons(p, d, os) : b.id \in Widgets(d.window) /\ ButtonOK(b, st)
<1>1. CASE d.window = "FILTER"
  <2> SUFFICES ASSUME NEW b \in Buttons(p, d, os)
               PROVE  b.id \in {"filter_select", "filter_any", "back"} /\ ButtonOK(b, st)
    BY <1>1 DEF Widgets
  <2>1. \/ b \in Plain({"filter_any", "back"})
        \/ \E s \in Filters : b = [id |-> "filter_select", item |-> s]
    BY <1>1 DEF Buttons, HistoryWindows, QueueButtons, filters_getter, Button
  <2>2. \A b2 \in Plain({"filter_any", "back"}) :
          b2.id \in {"filter_any", "back"} /\ ButtonOK(b2, st)
    BY PlainButtons DEF Ids, PagerIds
  <2>3. ASSUME NEW s \in Filters, b = [id |-> "filter_select", item |-> s]
        PROVE  b.id = "filter_select" /\ ButtonOK(b, st)
    <3>1. b.id = "filter_select" /\ s \in OrderStatus
      BY <2>3, ScreensAssumption
    <3>2. b \in [id : Ids, item : Items]
      BY <2>3, <3>1 DEF Ids, Items
    <3> QED
      BY <3>1, <3>2 DEF ButtonOK, PagerIds
  <2> QED
    BY <2>1, <2>2, <2>3
<1>2. CASE d.window = "closed"
  BY <1>2 DEF Buttons, HistoryWindows
<1>3. CASE d.window \in {"DONE", "EDIT_ADDRESS", "CANCEL_CONFIRM", "CANCEL_REASON"}
  <2>1. PICK ids \in {{"open_order"}, {"back"}, {"cancel_yes", "back"}} :
          Buttons(p, d, os) = Plain(ids) /\ ids = Widgets(d.window)
    BY <1>3 DEF Buttons, HistoryWindows, HistoryButtons, QueueButtons, Widgets
  <2>2. \A b \in Plain(ids) : b.id \in ids /\ ButtonOK(b, st)
    BY PlainButtons DEF Ids, PagerIds
  <2> QED
    BY <2>1, <2>2
<1> QED
  BY <1>1, <1>2, <1>3

\* A message agrees with the dialog it was drawn for, and its buttons with the status it
\* shows.
LEMMA ScreenDrawn ==
  ASSUME NEW p \in People, NEW d \in Dialog, NEW os \in Table, Drawable(p, d, os)
  PROVE  ScreenOK(Screen(p, d, os), d)
<1> DEFINE s == Screen(p, d, os)
<1>1. d.window \in Windows
  BY DEF Dialog
<1>2. /\ s.window = d.window /\ s.buttons = Buttons(p, d, os)
      /\ d.window \in NamesAnOrder \cup {"DONE"} =>
            s.order = d.order /\ s.status = os[d.order].status
      /\ d.window \in {"EDIT_ADDRESS", "CANCEL_REASON"} =>
            s.order = screen[p].order /\ s.status = screen[p].status
      /\ d.window \notin Focused => s.order = None /\ s.status = None
  BY DEF Screen, NamesAnOrder, Focused
<1> HIDE DEF s
<1>3. s.order = Focus(d)
  BY <1>1, <1>2 DEF Focus, Focused, NamesAnOrder, Drawable
<1>4. s.status \in OrderStatus \cup {None}
  <2>1. CASE d.window \in NamesAnOrder \cup {"DONE"}
    <3>1. os[d.order] \in OrderRow
      BY <2>1 DEF Drawable, Table
    <3> QED
      BY <1>2, <2>1, <3>1 DEF OrderRow
  <2>2. CASE d.window \notin NamesAnOrder \cup {"DONE"}
    BY <1>1, <1>2, <2>2 DEF Drawable, NamesAnOrder, Focused
  <2> QED
    BY <2>1, <2>2
<1>5. \A b \in s.buttons : b.id \in Widgets(d.window) /\ ButtonOK(b, s.status)
  <2>1. CASE d.window \in {"LIST", "QUEUE"}
    BY <1>2, <2>1, ListDrawn
  <2>2. CASE d.window \in {"CARD", "MANAGED_CARD", "STATUS"}
    <3>1. d.order \in Orders /\ os[d.order] # None /\ s.status = os[d.order].status
      BY <1>2, <2>2 DEF Drawable, NamesAnOrder
    <3> QED
      BY <1>2, <2>2, <3>1, CardDrawn
  <2>3. CASE d.window \in {"closed", "DONE", "EDIT_ADDRESS", "CANCEL_CONFIRM", "FILTER",
                           "CANCEL_REASON"}
    BY <1>2, <2>3, OtherDrawn
  <2> QED
    BY <1>1, <2>1, <2>2, <2>3 DEF Windows
<1> QED
  BY <1>2, <1>3, <1>4, <1>5 DEF ScreenOK, s

-----------------------------------------------------------------------------
(* Steps of one chat *)

\* Every order that is there stays.
Grows(os) == \A o \in Orders : orders[o] # None => os[o] # None

\* One chat moved, and what it left is right: so is everything.
LEMMA OneChat ==
  ASSUME IInv, NEW p \in People, NEW os \in Table, Grows(os), orders' = os,
         NEW d \in Dialog, NEW s, NEW q \in Seq(Updates), ChatOK(d, s, q, os),
         dialog' = [dialog EXCEPT ![p] = d], screen' = [screen EXCEPT ![p] = s],
         queue' = [queue EXCEPT ![p] = q]
  PROVE  IInv'
<1>1. /\ orders' \in Table
      /\ dialog' \in [People -> Dialog]
      /\ queue' \in [People -> Seq(Updates)]
      /\ screen' = [x \in People |-> screen'[x]]
  BY DEF IInv
<1>2. /\ dialog'[p] = d /\ screen'[p] = s /\ queue'[p] = q
      /\ \A x \in People \ {p} :
            dialog'[x] = dialog[x] /\ screen'[x] = screen[x] /\ queue'[x] = queue[x]
  BY DEF IInv
<1>3. \A x \in People \ {p} : ChatOK(dialog[x], screen[x], queue[x], os)
  BY DEF IInv, ChatOK, Grows
<1>4. \A x \in People : ChatOK(dialog'[x], screen'[x], queue'[x], orders')
  BY <1>2, <1>3
<1>5. (\A x \in People : ChatOK(dialog[x], screen[x], queue[x], orders))'
  BY <1>4 DEF ChatOK, ScreenOK, QueueOK
<1> QED
  BY <1>1, <1>5 DEF IInv

LEMMA ChatFacts ==
  ASSUME IInv, NEW p \in People
  PROVE  /\ orders \in Table /\ dialog[p] \in Dialog /\ queue[p] \in Seq(Updates)
         /\ ChatOK(dialog[p], screen[p], queue[p], orders)
         /\ dialog = [dialog EXCEPT ![p] = dialog[p]]
         /\ screen = [screen EXCEPT ![p] = screen[p]]
         /\ Grows(orders)
<1>1. screen = [screen EXCEPT ![p] = screen[p]]
  BY DEF IInv
<1>2. dialog = [dialog EXCEPT ![p] = dialog[p]]
  BY DEF IInv
<1> QED
  BY <1>1, <1>2 DEF IInv, Grows

\* The next window was drawn.
LEMMA ShownKeeps ==
  ASSUME IInv, NEW p \in People, queue[p] # <<>>,
         NEW d \in Dialog, NEW os \in Table, Grows(os), Shows(p, d, os),
         d.window # "DONE",
         d.window \in {"EDIT_ADDRESS", "CANCEL_REASON"} =>
            dialog[p].window \in Focused /\ d.order = dialog[p].order,
         QueueOK(Tail(queue[p]), d)
  PROVE  IInv'
<1> DEFINE q == Tail(queue[p])
           s == Screen(p, d, os)
<1>1. queue[p] \in Seq(Updates) /\ ChatOK(dialog[p], screen[p], queue[p], orders)
  BY ChatFacts
<1>2. q \in Seq(Updates)
  BY <1>1, TailOfQueue
<1>3. \A i \in 1..Len(q) : UpdateOK(q[i])
  BY <1>1, TailKeeps DEF ChatOK
<1>4. d.window \in Focused => d.order \in Orders /\ os[d.order] # None
  <2>1. CASE d.window \in NamesAnOrder
    BY <2>1 DEF Shows, CanBeDrawn, Placed, Grows
  <2>2. CASE d.window \in {"EDIT_ADDRESS", "CANCEL_REASON"}
    BY <1>1, <2>2 DEF ChatOK, Grows
  <2> QED
    BY <2>1, <2>2 DEF Focused, NamesAnOrder
<1>5. Drawable(p, d, os)
  BY <1>1, <1>4 DEF Drawable, ChatOK, ScreenOK, Focus, Focused, NamesAnOrder
<1>6. ScreenOK(s, d)
  BY <1>5, ScreenDrawn
<1>7. ChatOK(d, s, q, os)
  BY <1>3, <1>4, <1>6 DEF ChatOK
<1>8. /\ orders' = os /\ dialog' = [dialog EXCEPT ![p] = d]
      /\ screen' = [screen EXCEPT ![p] = s] /\ queue' = [queue EXCEPT ![p] = q]
  BY DEF Shows
<1> HIDE DEF q, s
<1> QED
  BY <1>2, <1>7, <1>8, OneChat

\* The orders changed, or did not, and the chat stays as it was.
LEMMA FailedKeeps ==
  ASSUME IInv, NEW p \in People, queue[p] # <<>>, NEW os \in Table, Grows(os), Fails(p, os)
  PROVE  IInv'
<1> DEFINE q == Tail(queue[p])
           d == dialog[p]
           s == screen[p]
<1>1. /\ d \in Dialog /\ queue[p] \in Seq(Updates) /\ ChatOK(d, s, queue[p], orders)
      /\ dialog = [dialog EXCEPT ![p] = d] /\ screen = [screen EXCEPT ![p] = s]
  BY ChatFacts
<1>2. q \in Seq(Updates)
  BY <1>1, TailOfQueue
<1>3. ChatOK(d, s, q, os)
  BY <1>1, TailKeeps DEF ChatOK, Grows
<1>4. /\ orders' = os /\ dialog' = [dialog EXCEPT ![p] = d]
      /\ screen' = [screen EXCEPT ![p] = s] /\ queue' = [queue EXCEPT ![p] = q]
  BY <1>1 DEF Fails
<1> HIDE DEF q, d, s
<1> QED
  BY <1>1, <1>2, <1>3, <1>4, OneChat

\* A dialog was started over the old one.
LEMMA StartedKeeps ==
  ASSUME IInv, NEW p \in People, queue[p] # <<>>, NEW d \in Dialog, StartsOver(p, d),
         d.window \in {"LIST", "QUEUE", "CARD"}
  PROVE  IInv'
<1> DEFINE r == Tail(queue[p])
           q == Outdated(r)
           s == Screen(p, d, orders)
<1>1. /\ queue[p] \in Seq(Updates) /\ ChatOK(dialog[p], screen[p], queue[p], orders)
      /\ orders \in Table /\ Grows(orders)
  BY ChatFacts
<1>2. r \in Seq(Updates) /\ \A i \in 1..Len(r) : UpdateOK(r[i])
  BY <1>1, TailOfQueue, TailKeeps DEF ChatOK
<1> HIDE DEF r
<1>3. d.window \notin Acting
  BY DEF Acting
<1>4. q \in Seq(Updates) /\ (\A i \in 1..Len(q) : UpdateOK(q[i])) /\ QueueOK(q, d)
  BY <1>2, <1>3, OutdatedKeeps
<1>5. d.window \in Focused => d.order \in Orders /\ orders[d.order] # None
  BY DEF StartsOver, CanBeDrawn, Placed, Focused, NamesAnOrder
<1>6. Drawable(p, d, orders)
  BY <1>5 DEF Drawable, Focused, NamesAnOrder
<1>7. ScreenOK(s, d)
  BY <1>1, <1>6, ScreenDrawn
<1>8. ChatOK(d, s, q, orders)
  BY <1>4, <1>5, <1>7 DEF ChatOK
<1>9. /\ orders' = orders /\ dialog' = [dialog EXCEPT ![p] = d]
      /\ screen' = [screen EXCEPT ![p] = s] /\ queue' = [queue EXCEPT ![p] = q]
  BY DEF StartsOver, r
<1> HIDE DEF q, s
<1> QED
  BY <1>1, <1>4, <1>8, <1>9, OneChat

\* The chat has no dialog any more.
LEMMA ClosedKeeps ==
  ASSUME IInv, NEW p \in People, queue[p] # <<>>,
         dialog' = [dialog EXCEPT ![p] = Closed], screen' = [screen EXCEPT ![p] = NothingOnIt],
         queue' = [queue EXCEPT ![p] = Tail(queue[p])], UNCHANGED orders
  PROVE  IInv'
<1> DEFINE q == Tail(queue[p])
<1>1. /\ queue[p] \in Seq(Updates) /\ ChatOK(dialog[p], screen[p], queue[p], orders)
      /\ orders \in Table /\ Grows(orders)
  BY ChatFacts
<1>2. q \in Seq(Updates) /\ \A i \in 1..Len(q) : UpdateOK(q[i])
  BY <1>1, TailOfQueue, TailKeeps DEF ChatOK
<1> HIDE DEF q
<1>3. Closed \in Dialog /\ Closed.window = "closed"
  BY DEF Closed, Open, Dialog, Windows, Items
<1>4. ScreenOK(NothingOnIt, Closed)
  BY <1>3 DEF NothingOnIt, ScreenOK, Focus, Focused
<1>5. QueueOK(q, Closed)
  BY <1>3 DEF QueueOK, Acting
<1>6. ChatOK(Closed, NothingOnIt, q, orders)
  BY <1>2, <1>3, <1>4, <1>5 DEF ChatOK, Focused
<1> QED
  BY <1>1, <1>2, <1>3, <1>6, OneChat DEF q

-----------------------------------------------------------------------------
(* What waits when a window is left *)

\* From a card, or from a window under it: all of it is about the same order.
LEMMA LeavesOneOrder ==
  ASSUME NEW q \in Seq(Updates), q # <<>>, NEW c \in Dialog, QueueOK(q, c),
         \A i \in 1..Len(q) : UpdateOK(q[i]), c.order \in Orders,
         \/ c.window \in {"CARD", "MANAGED_CARD"} /\ LeadsOff(Head(q).id)
         \/ c.window \in Acting,
         NEW d \in Dialog, d.order = c.order
  PROVE  QueueOK(Tail(q), d)
<1>1. /\ Tail(q) \in Seq(Updates) /\ Head(q) = q[1] /\ 1 \in 1..Len(q)
      /\ \A i \in 1..Len(Tail(q)) : i + 1 \in 1..Len(q) /\ Tail(q)[i] = q[i + 1]
  BY TailOfQueue
<1>2. \A i \in 1..Len(Tail(q)) : 1 < i + 1
  BY <1>1
<1>3. \A i \in 1..Len(Tail(q)) : q[i + 1].order = c.order
  BY <1>1, <1>2 DEF QueueOK
<1>4. \A i \in 1..Len(Tail(q)) : UpdateOK(Tail(q)[i]) /\ Tail(q)[i].order = d.order
  BY <1>1, <1>3
<1> QED
  BY <1>1, <1>4, QueueAbout

\* From a list, down.
LEMMA LeavesList ==
  ASSUME NEW q \in Seq(Updates), q # <<>>, NEW c \in Dialog, QueueOK(q, c),
         c.window \in {"LIST", "QUEUE"}, LeadsDown(Head(q).id),
         NEW d \in Dialog, d.window \notin Acting
  PROVE  QueueOK(Tail(q), d)
<1>1. /\ Tail(q) \in Seq(Updates) /\ Head(q) = q[1] /\ 1 \in 1..Len(q)
      /\ \A i \in 1..Len(Tail(q)) : i + 1 \in 1..Len(q) /\ Tail(q)[i] = q[i + 1]
  BY TailOfQueue
<1>2. \A i \in 1..Len(Tail(q)) : 1 < i + 1
  BY <1>1
<1>3. \A i \in 1..Len(Tail(q)) : Tail(q)[i].id \notin DeepIds
  BY <1>1, <1>2 DEF QueueOK
<1> QED
  BY <1>1, <1>3, QueueShallow

\* From the filter, back to the list.
LEMMA LeavesFilter ==
  ASSUME NEW q \in Seq(Updates), q # <<>>, NEW c \in Dialog, QueueOK(q, c),
         c.window = "FILTER", LeadsUp(Head(q).id),
         NEW d \in Dialog, d.window \in {"LIST", "QUEUE"}
  PROVE  QueueOK(Tail(q), d)
<1>1. /\ Tail(q) \in Seq(Updates) /\ Head(q) = q[1] /\ 1 \in 1..Len(q)
      /\ \A i \in 1..Len(Tail(q)) : i + 1 \in 1..Len(q) /\ Tail(q)[i] = q[i + 1]
  BY TailOfQueue
<1>2. \A i \in 1..Len(Tail(q)) : 1 < i + 1
  BY <1>1
<1>3. \A i \in 1..Len(Tail(q)) : ~LeadsDown(Tail(q)[i].id)
  BY <1>1, <1>2 DEF QueueOK, LeadsDown
<1> QED
  BY <1>1, <1>3, QueueAbove

-----------------------------------------------------------------------------
(* The orders *)

LEMMA MovedTable ==
  ASSUME orders \in Table, NEW o \in Orders, orders[o] # None, NEW s \in OrderStatus
  PROVE  /\ Moved(o, s) \in Table /\ Grows(Moved(o, s))
         /\ Moved(o, s)[o].status = s
         /\ \A x \in Orders \ {o} : Moved(o, s)[x] = orders[x]
<1>1. orders[o] \in OrderRow
  BY DEF Table
<1> DEFINE row == [orders[o] EXCEPT !.status = s]
<1>2. row \in OrderRow /\ row.status = s
  BY <1>1 DEF OrderRow
<1>3. Moved(o, s) = [orders EXCEPT ![o] = row]
  BY DEF Moved
<1> HIDE DEF row
<1>4. /\ Moved(o, s)[o] = row
      /\ \A x \in Orders \ {o} : Moved(o, s)[x] = orders[x]
      /\ Moved(o, s) \in Table
  BY <1>2, <1>3 DEF Table
<1>5. Grows(Moved(o, s))
  BY <1>2, <1>4, ScreensAssumption DEF Grows
<1> QED
  BY <1>2, <1>4, <1>5

LEMMA ReaddressedTable ==
  ASSUME orders \in Table, NEW o \in Orders, orders[o] # None
  PROVE  /\ Readdressed(o) \in Table /\ Grows(Readdressed(o))
         /\ Readdressed(o)[o].status = orders[o].status
         /\ \A x \in Orders \ {o} : Readdressed(o)[x] = orders[x]
<1>1. orders[o] \in OrderRow
  BY DEF Table
<1> DEFINE row == [orders[o] EXCEPT !.readdressed = TRUE]
<1>2. row \in OrderRow /\ row.status = orders[o].status
  BY <1>1 DEF OrderRow
<1>3. Readdressed(o) = [orders EXCEPT ![o] = row]
  BY DEF Readdressed
<1> HIDE DEF row
<1>4. /\ Readdressed(o)[o] = row
      /\ \A x \in Orders \ {o} : Readdressed(o)[x] = orders[x]
      /\ Readdressed(o) \in Table
  BY <1>2, <1>3 DEF Table
<1>5. Grows(Readdressed(o))
  BY <1>2, <1>4, ScreensAssumption DEF Grows
<1> QED
  BY <1>2, <1>4, <1>5

-----------------------------------------------------------------------------
(* What is at the head of the queue *)

LEMMA HeadFacts ==
  ASSUME IInv, NEW p \in People, queue[p] # <<>>
  PROVE  update(p) \in Updates /\ UpdateOK(update(p))
<1>1. queue[p] \in Seq(Updates) /\ \A i \in 1..Len(queue[p]) : UpdateOK(queue[p][i])
  BY ChatFacts DEF ChatOK
<1> QED
  BY <1>1, TailOfQueue DEF update

\* Where an order is acted on, the update at the head was sent from a window of it.
LEMMA ActingHead ==
  ASSUME IInv, NEW p \in People, queue[p] # <<>>, dialog[p].window \in Acting
  PROVE  /\ update(p).order = dialog[p].order
         /\ dialog[p].order \in Orders /\ orders[dialog[p].order] # None
<1>1. queue[p] \in Seq(Updates) /\ ChatOK(dialog[p], screen[p], queue[p], orders)
  BY ChatFacts
<1>2. update(p) = queue[p][1] /\ 1 \in 1..Len(queue[p])
  BY <1>1, TailOfQueue DEF update
<1> QED
  BY <1>1, <1>2 DEF ChatOK, QueueOK, Acting, Focused

\* Which window a tap was answered in.
LEMMA WindowOf ==
  ASSUME IInv, NEW p \in People, NEW id, Tapped(p, id)
  PROVE  /\ id = "cancel_yes" => dialog[p].window = "CANCEL_CONFIRM"
         /\ id = "status_select" => dialog[p].window = "STATUS"
         /\ id = "order_select" => dialog[p].window = "LIST"
         /\ id = "queue_select" => dialog[p].window = "QUEUE"
         /\ id \in {"filter_select", "filter_any"} => dialog[p].window = "FILTER"
         /\ id = "open_order" => dialog[p].window = "DONE"
         /\ id \in PagerIds => dialog[p].window \in {"LIST", "QUEUE"}
<1>1. dialog[p].window \in Windows
  BY DEF IInv, Dialog
<1> QED
  BY <1>1 DEF Tapped, Widgets, Windows, PagerIds

-----------------------------------------------------------------------------
(* Every action keeps the invariant *)

LEMMA InitOK == Init => IInv
<1> SUFFICES ASSUME Init PROVE IInv
  OBVIOUS
<1>1. Closed \in Dialog /\ Closed.window = "closed"
  BY DEF Closed, Open, Dialog, Windows, Items
<1>2. ScreenOK(NothingOnIt, Closed)
  BY <1>1 DEF NothingOnIt, ScreenOK, Focus, Focused
<1>3. QueueOK(<<>>, Closed)
  BY <1>1 DEF QueueOK, Acting
<1>4. \A os : ChatOK(Closed, NothingOnIt, <<>>, os)
  BY <1>1, <1>2, <1>3 DEF ChatOK, Focused
<1>5. FreshRow \in OrderRow
  BY DEF FreshRow, OrderRow, OrderStatus
<1>6. orders \in Table
  BY <1>5 DEF Init, Table
<1>7. <<>> \in Seq(Updates)
  OBVIOUS
<1> QED
  BY <1>1, <1>4, <1>6, <1>7 DEF Init, IInv

LEMMA SendsOK ==
  ASSUME IInv, NEW p \in People, NEW b, b \in [id : Ids, item : Items], Sends(p, b),
         \/ b \in screen[p].buttons
         \/ b.id \in {"text", "/orders", "/manage_orders"}
  PROVE  IInv'
<1> DEFINE d == dialog[p]
           s == screen[p]
           u == [id |-> b.id, item |-> b.item, order |-> s.order, status |-> s.status]
           q == Append(queue[p], u)
<1>1. /\ d \in Dialog /\ queue[p] \in Seq(Updates) /\ ChatOK(d, s, queue[p], orders)
      /\ orders \in Table /\ Grows(orders)
      /\ dialog = [dialog EXCEPT ![p] = d] /\ screen = [screen EXCEPT ![p] = s]
  BY ChatFacts
<1>2. /\ s.order = Focus(d) /\ s.status \in OrderStatus \cup {None}
      /\ b \in s.buttons => b.id \in Widgets(d.window) /\ ButtonOK(b, s.status)
  BY <1>1 DEF ChatOK, ScreenOK
<1>3. Focus(d) \in Orders \cup {None}
  BY <1>1 DEF Focus, ChatOK
<1>4. u \in Updates /\ u.id = b.id /\ u.item = b.item /\ u.order = Focus(d) /\ u.status = s.status
  BY <1>2, <1>3 DEF Updates
<1>5. dialog' = [dialog EXCEPT ![p] = d] /\ screen' = [screen EXCEPT ![p] = s]
      /\ queue' = [queue EXCEPT ![p] = q] /\ orders' = orders
  BY <1>1 DEF Sends
<1>6. d.window \in Windows
  BY <1>1 DEF Dialog
<1> HIDE DEF d, s, u
<1>7. u.id \in Widgets(d.window) \cup {"text", "/orders", "/manage_orders"}
  BY <1>2, <1>4 DEF s
<1>8. UpdateOK(u)
  <2>1. CASE b.id \in {"text", "/orders", "/manage_orders"}
    BY <1>4, <2>1 DEF UpdateOK, LeadsDown, SelectIds, PagerIds
  <2>2. CASE b \in screen[p].buttons
    <3>1. b.id \in Widgets(d.window) /\ ButtonOK(b, s.status)
      BY <1>2, <2>2 DEF s
    <3>2. LeadsDown(b.id) => d.window \in {"LIST", "QUEUE"}
      BY <1>6, <3>1 DEF Widgets, LeadsDown, SelectIds, Windows
    <3>3. LeadsDown(b.id) => Focus(d) = None
      BY <3>2 DEF Focus, Focused
    <3> QED
      BY <1>4, <3>1, <3>3 DEF UpdateOK, ButtonOK
  <2> QED
    BY <2>1, <2>2
<1>9. /\ q \in Seq(Updates) /\ (\A i \in 1..Len(q) : UpdateOK(q[i])) /\ QueueOK(q, d)
  BY <1>1, <1>4, <1>7, <1>8, AppendKeeps DEF ChatOK
<1>10. ChatOK(d, s, q, orders)
  BY <1>1, <1>9 DEF ChatOK
<1> HIDE DEF q
<1> QED
  BY <1>1, <1>5, <1>9, <1>10, OneChat

LEMMA PersonOK ==
  ASSUME IInv, NEW p \in People, Tap(p) \/ Type(p) \/ Command(p)
  PROVE  IInv'
<1>1. CASE Tap(p)
  <2>1. PICK b \in screen[p].buttons : Sends(p, b)
    BY <1>1 DEF Tap
  <2>2. ButtonOK(b, screen[p].status)
    BY ChatFacts DEF ChatOK, ScreenOK
  <2> QED
    BY <2>1, <2>2, SendsOK DEF ButtonOK
<1>2. CASE Type(p) \/ Command(p)
  <2>1. PICK id \in {"text", "/orders", "/manage_orders"} : Sends(p, Button(id, None))
    BY <1>2 DEF Type, Command
  <2>2. Button(id, None).id = id /\ Button(id, None) \in [id : Ids, item : Items]
    BY DEF Button, Ids, Items
  <2> QED
    BY <2>1, <2>2, SendsOK
<1> QED
  BY <1>1, <1>2

\* The buttons that only change the window.
Switch(id, from, to) ==
    \/ /\ from \in {"CARD", "MANAGED_CARD"} /\ LeadsOff(id)
       /\ to \in {"EDIT_ADDRESS", "CANCEL_CONFIRM", "STATUS", "LIST", "QUEUE"}
    \/ from \in Acting /\ to \in {"CARD", "MANAGED_CARD"}
    \/ from = "QUEUE" /\ id = "filter" /\ to = "FILTER"
    \/ from = "FILTER" /\ id = "back" /\ to = "QUEUE"

LEMMA SwitchOK ==
  ASSUME IInv, NEW p \in People, NEW id, NEW from, NEW to, Switch(id, from, to),
         SwitchTo(p, id, from, to)
  PROVE  IInv'
<1> DEFINE d == [dialog[p] EXCEPT !.window = to]
<1>1. /\ dialog[p] \in Dialog /\ queue[p] \in Seq(Updates)
      /\ ChatOK(dialog[p], screen[p], queue[p], orders)
      /\ orders \in Table /\ Grows(orders)
  BY ChatFacts
<1>2. dialog[p].window = from /\ queue[p] # <<>> /\ Head(queue[p]).id = id
  BY DEF SwitchTo, Tapped, update
<1>3. to \in Windows \ {"DONE"}
  BY DEF Switch, Windows
<1>4. d \in Dialog /\ d.window = to /\ d.order = dialog[p].order
  BY <1>1, <1>3 DEF Dialog
<1>5. Shows(p, d, orders)
  BY DEF SwitchTo
<1> HIDE DEF d
<1>6. to \in {"EDIT_ADDRESS", "CANCEL_REASON"} => from \in Focused
  BY DEF Switch, Focused
<1>7. QueueOK(Tail(queue[p]), d)
  <2>1. QueueOK(queue[p], dialog[p]) /\ \A i \in 1..Len(queue[p]) : UpdateOK(queue[p][i])
    BY <1>1 DEF ChatOK
  <2>2. CASE (from \in {"CARD", "MANAGED_CARD"} /\ LeadsOff(id)) \/ from \in Acting
    <3>1. dialog[p].order \in Orders
      BY <1>1, <1>2, <2>2 DEF ChatOK, Focused, Acting
    <3> QED
      BY <1>1, <1>2, <1>4, <2>1, <2>2, <3>1, LeavesOneOrder
  <2>3. CASE from = "QUEUE" /\ id = "filter" /\ to = "FILTER"
    <3>1. LeadsDown(Head(queue[p]).id) /\ d.window \notin Acting
      BY <1>2, <1>4, <2>3 DEF LeadsDown, Acting
    <3> QED
      BY <1>1, <1>2, <1>4, <2>1, <2>3, <3>1, LeavesList
  <2>4. CASE from = "FILTER" /\ id = "back" /\ to = "QUEUE"
    <3>1. LeadsUp(Head(queue[p]).id)
      BY <1>2, <2>4 DEF LeadsUp
    <3> QED
      BY <1>1, <1>2, <1>4, <2>1, <2>4, <3>1, LeavesFilter
  <2> QED
    BY <2>2, <2>3, <2>4 DEF Switch
<1> QED
  BY <1>1, <1>2, <1>3, <1>4, <1>5, <1>6, <1>7, ShownKeeps

LEMMA NavigateOK ==
  ASSUME IInv, NEW p \in People, Navigate(p)
  PROVE  IInv'
<1>1. \E id, from, to : Switch(id, from, to) /\ SwitchTo(p, id, from, to)
  BY DEF Navigate, Switch, LeadsOff, Acting
<1> QED
  BY <1>1, SwitchOK

LEMMA TurnPageOK ==
  ASSUME IInv, NEW p \in People, TurnPage(p)
  PROVE  IInv'
<1> DEFINE d == [dialog[p] EXCEPT !.page = update(p).item]
<1>1. /\ dialog[p] \in Dialog /\ queue[p] \in Seq(Updates)
      /\ ChatOK(dialog[p], screen[p], queue[p], orders)
      /\ orders \in Table /\ Grows(orders)
  BY ChatFacts
<1>2. PICK id \in PagerIds : Tapped(p, id) /\ Shows(p, d, orders)
  BY DEF TurnPage, PagerIds
<1>3. queue[p] # <<>> /\ update(p).id = id
  BY <1>2 DEF Tapped
<1>4. update(p).item \in Nat
  BY <1>3, HeadFacts DEF UpdateOK
<1>5. d \in Dialog /\ d.window = dialog[p].window /\ d.order = dialog[p].order
  BY <1>1, <1>4 DEF Dialog
<1> HIDE DEF d
<1>6. d.window \in {"LIST", "QUEUE"}
  BY <1>2, <1>5, WindowOf
<1>7. QueueOK(Tail(queue[p]), dialog[p])
  BY <1>1, <1>3, TailKeeps DEF ChatOK
<1>8. QueueOK(Tail(queue[p]), d)
  BY <1>5, <1>7 DEF QueueOK
<1> QED
  BY <1>1, <1>2, <1>3, <1>5, <1>6, <1>8, ShownKeeps

LEMMA SelectedOK ==
  ASSUME IInv, NEW p \in People, on_order_selected(p)
  PROVE  IInv'
<1>1. /\ dialog[p] \in Dialog /\ queue[p] \in Seq(Updates)
      /\ ChatOK(dialog[p], screen[p], queue[p], orders)
      /\ orders \in Table /\ Grows(orders)
  BY ChatFacts
<1>2. PICK id \in SelectIds, to \in {"CARD", "MANAGED_CARD"} :
        /\ Tapped(p, id)
        /\ Shows(p, [dialog[p] EXCEPT !.window = to, !.order = update(p).item], orders)
  BY DEF on_order_selected, SelectIds
<1> DEFINE d == [dialog[p] EXCEPT !.window = to, !.order = update(p).item]
<1>3. queue[p] # <<>> /\ update(p).id = id
  BY <1>2 DEF Tapped
<1>4. d.window = to /\ d.order = update(p).item
  BY <1>1 DEF Dialog
<1>5. update(p).item \in Orders
  BY <1>2, <1>4 DEF Shows, CanBeDrawn, NamesAnOrder, Placed
<1>6. d \in Dialog
  BY <1>1, <1>5 DEF Dialog, Windows
<1>7. Shows(p, d, orders)
  BY <1>2
<1> HIDE DEF d
<1>8. QueueOK(Tail(queue[p]), d)
  <2>1. dialog[p].window \in {"LIST", "QUEUE"}
    BY <1>2, WindowOf DEF SelectIds
  <2>2. LeadsDown(Head(queue[p]).id) /\ d.window \notin Acting
    BY <1>3, <1>4 DEF update, LeadsDown, Acting
  <2> QED
    BY <1>1, <1>3, <1>6, <2>1, <2>2, LeavesList DEF ChatOK
<1>9. d.window \notin {"DONE", "EDIT_ADDRESS", "CANCEL_REASON"}
  BY <1>4
<1> QED
  BY <1>1, <1>3, <1>6, <1>7, <1>8, <1>9, ShownKeeps

\* A command was carried out, and the card of its order is next.
LEMMA AnsweredOK ==
  ASSUME IInv, NEW p \in People, queue[p] # <<>>, dialog[p].window \in Acting,
         NEW to \in {"CARD", "MANAGED_CARD"}, NEW os \in Table, Grows(os),
         Answers(p, [dialog[p] EXCEPT !.window = to], os)
  PROVE  IInv'
<1> DEFINE d == [dialog[p] EXCEPT !.window = to]
<1>1. /\ dialog[p] \in Dialog /\ queue[p] \in Seq(Updates)
      /\ ChatOK(dialog[p], screen[p], queue[p], orders)
  BY ChatFacts
<1>2. d \in Dialog /\ d.window = to /\ d.order = dialog[p].order
  BY <1>1 DEF Dialog, Windows
<1>3. Shows(p, d, os) \/ Fails(p, os)
  BY DEF Answers
<1> HIDE DEF d
<1>4. CASE Fails(p, os)
  BY <1>4, FailedKeeps
<1>5. CASE Shows(p, d, os)
  <2>1. QueueOK(Tail(queue[p]), d)
    BY <1>1, <1>2, ActingHead, LeavesOneOrder DEF ChatOK
  <2>2. d.window \notin {"DONE", "EDIT_ADDRESS", "CANCEL_REASON"}
    BY <1>2
  <2> QED
    BY <1>2, <1>5, <2>1, <2>2, ShownKeeps
<1> QED
  BY <1>3, <1>4, <1>5

\* The orders after one of the four commands.
Acted(p, to, os) ==
    /\ queue[p] # <<>> /\ dialog[p].window \in Acting
    /\ to \in {"CARD", "MANAGED_CARD"}
    /\ \/ os = Readdressed(dialog[p].order)
       \/ /\ CanTransition(dialog[p].order, "CANCELLED")
          /\ os = Moved(dialog[p].order, "CANCELLED")
       \/ /\ update(p).id = "status_select" /\ CanTransition(dialog[p].order, update(p).item)
          /\ os = Moved(dialog[p].order, update(p).item)
    /\ Answers(p, [dialog[p] EXCEPT !.window = to], os)

LEMMA Commands ==
  ASSUME IInv, NEW p \in People,
         \/ on_address_typed(p) \/ on_cancel_confirmed(p) \/ on_cancellation_reason_typed(p)
         \/ on_status_selected(p) /\ update(p).item # "CANCELLED"
  PROVE  \E to, os : Acted(p, to, os)
<1>1. CASE on_address_typed(p)
  <2>1. Acted(p, "CARD", Readdressed(dialog[p].order))
    BY <1>1 DEF on_address_typed, Typed, selected_order_id, Acted, Acting
  <2> QED
    BY <2>1
<1>2. CASE on_cancel_confirmed(p)
  <2>1. Acted(p, "CARD", Moved(dialog[p].order, "CANCELLED"))
    BY <1>2, WindowOf DEF on_cancel_confirmed, Tapped, selected_order_id, Acted, Acting, CanWithdraw
  <2> QED
    BY <2>1
<1>3. CASE on_cancellation_reason_typed(p)
  <2>1. Acted(p, "MANAGED_CARD", Moved(dialog[p].order, "CANCELLED"))
    BY <1>3 DEF on_cancellation_reason_typed, Typed, selected_order_id, Acted, Acting
  <2> QED
    BY <2>1
<1>4. CASE on_status_selected(p) /\ update(p).item # "CANCELLED"
  <2>1. Acted(p, "MANAGED_CARD", Moved(dialog[p].order, update(p).item))
    BY <1>4, WindowOf DEF on_status_selected, Tapped, selected_order_id, Acted, Acting
  <2> QED
    BY <2>1
<1> QED
  BY <1>1, <1>2, <1>3, <1>4

LEMMA ActedTable ==
  ASSUME IInv, NEW p \in People, NEW to, NEW os, Acted(p, to, os)
  PROVE  /\ os \in Table /\ Grows(os)
         /\ dialog[p].order \in Orders /\ update(p).order = dialog[p].order
         /\ \A x \in Orders \ {dialog[p].order} : os[x] = orders[x]
         /\ \/ os[dialog[p].order].status \in {orders[dialog[p].order].status, "CANCELLED"}
            \/ /\ update(p).id = "status_select"
               /\ CanTransition(dialog[p].order, update(p).item)
               /\ os[dialog[p].order].status = update(p).item
<1> DEFINE o == dialog[p].order
<1>1. /\ o \in Orders /\ orders[o] # None /\ update(p).order = o /\ orders \in Table
  BY ActingHead, ChatFacts DEF Acted
<1> HIDE DEF o
<1>2. CASE os = Readdressed(o)
  BY <1>1, <1>2, ReaddressedTable DEF o
<1>3. ASSUME NEW s, CanTransition(o, s), os = Moved(o, s),
             s = "CANCELLED" \/ (s = update(p).item /\ update(p).id = "status_select")
      PROVE  /\ os \in Table /\ Grows(os)
             /\ \A x \in Orders \ {o} : os[x] = orders[x]
             /\ os[o].status = s
  <2>1. s \in OrderStatus
    BY <1>3, Transitions DEF CanTransition
  <2> QED
    BY <1>1, <1>3, <2>1, MovedTable
<1>4. \/ os = Readdressed(o)
      \/ \E s : /\ CanTransition(o, s) /\ os = Moved(o, s)
                /\ s = "CANCELLED" \/ (s = update(p).item /\ update(p).id = "status_select")
  <2>1. \/ os = Readdressed(o)
        \/ CanTransition(o, "CANCELLED") /\ os = Moved(o, "CANCELLED")
        \/ /\ update(p).id = "status_select" /\ CanTransition(o, update(p).item)
           /\ os = Moved(o, update(p).item)
    BY DEF Acted, o
  <2> QED
    BY <2>1
<1>5. ASSUME NEW s, CanTransition(o, s), os = Moved(o, s),
             s = "CANCELLED" \/ (s = update(p).item /\ update(p).id = "status_select")
      PROVE  \/ os[o].status \in {orders[o].status, "CANCELLED"}
             \/ /\ update(p).id = "status_select" /\ CanTransition(o, update(p).item)
                /\ os[o].status = update(p).item
  BY <1>3, <1>5
<1> QED
  BY <1>1, <1>2, <1>3, <1>4, <1>5 DEF o

LEMMA CommandsOK ==
  ASSUME IInv, NEW p \in People,
         \/ on_address_typed(p) \/ on_cancel_confirmed(p) \/ on_cancellation_reason_typed(p)
         \/ on_status_selected(p) /\ update(p).item # "CANCELLED"
  PROVE  IInv'
<1>1. PICK to, os : Acted(p, to, os)
  BY Commands
<1>2. os \in Table /\ Grows(os)
  BY <1>1, ActedTable
<1> QED
  BY <1>1, <1>2, AnsweredOK DEF Acted

\* Cancelling asks for a reason first.
LEMMA AsksOK ==
  ASSUME IInv, NEW p \in People, on_status_selected(p), update(p).item = "CANCELLED"
  PROVE  IInv'
<1> DEFINE d == [dialog[p] EXCEPT !.window = "CANCEL_REASON"]
<1>1. /\ dialog[p] \in Dialog /\ queue[p] \in Seq(Updates)
      /\ ChatOK(dialog[p], screen[p], queue[p], orders)
      /\ orders \in Table /\ Grows(orders)
  BY ChatFacts
<1>2. Tapped(p, "status_select") /\ Shows(p, d, orders)
  BY DEF on_status_selected
<1>3. queue[p] # <<>> /\ dialog[p].window = "STATUS"
  BY <1>2, WindowOf DEF Tapped
<1>4. d \in Dialog /\ d.window = "CANCEL_REASON" /\ d.order = dialog[p].order
  BY <1>1 DEF Dialog, Windows
<1> HIDE DEF d
<1>5. dialog[p].window \in Acting /\ dialog[p].window \in Focused
  BY <1>3 DEF Acting, Focused
<1>6. QueueOK(Tail(queue[p]), d)
  BY <1>1, <1>3, <1>4, <1>5, ActingHead, LeavesOneOrder DEF ChatOK
<1> QED
  BY <1>1, <1>2, <1>3, <1>4, <1>5, <1>6, ShownKeeps

LEMMA FilteredOK ==
  ASSUME IInv, NEW p \in People, on_filter_selected(p) \/ on_filter_cleared(p)
  PROVE  IInv'
<1>1. /\ dialog[p] \in Dialog /\ queue[p] \in Seq(Updates)
      /\ ChatOK(dialog[p], screen[p], queue[p], orders)
      /\ orders \in Table /\ Grows(orders)
  BY ChatFacts
<1>2. PICK id \in {"filter_select", "filter_any"}, f \in {update(p).item, None} :
        Tapped(p, id) /\ Shows(p, Filtered(dialog[p], f), orders)
  BY DEF on_filter_selected, on_filter_cleared
<1>3. queue[p] # <<>> /\ Head(queue[p]).id = id /\ dialog[p].window = "FILTER"
  BY <1>2, WindowOf DEF Tapped, update
<1>4. f \in Items
  BY <1>3, HeadFacts DEF Updates, Items
<1> DEFINE d == Filtered(dialog[p], f)
<1>5. d \in Dialog /\ d.window = "QUEUE"
  BY <1>1, <1>4 DEF Filtered, Dialog, Windows
<1> HIDE DEF d
<1>6. LeadsUp(Head(queue[p]).id)
  BY <1>3 DEF LeadsUp
<1>7. QueueOK(Tail(queue[p]), d)
  BY <1>1, <1>3, <1>5, <1>6, LeavesFilter DEF ChatOK
<1> QED
  BY <1>1, <1>2, <1>3, <1>5, <1>7, ShownKeeps DEF d

LEMMA StartsOK ==
  ASSUME IInv, NEW p \in People, handle_orders(p) \/ handle_manage_orders(p) \/ on_open_order(p)
  PROVE  IInv'
<1>1. PICK window \in {"LIST", "QUEUE", "CARD"}, o \in {None, dialog[p].order} :
        queue[p] # <<>> /\ StartsOver(p, Open(window, o))
  BY DEF handle_orders, handle_manage_orders, on_open_order, StartedWith, Tapped
<1> DEFINE d == Open(window, o)
<1>2. dialog[p].order \in Orders \cup {None}
  BY ChatFacts DEF Dialog
<1>3. d \in Dialog /\ d.window = window
  BY <1>2 DEF Open, Dialog, Windows, Items
<1> HIDE DEF d
<1> QED
  BY <1>1, <1>3, StartedKeeps DEF d

LEMMA PlaceOrderOK ==
  ASSUME IInv, NEW p \in People, PlaceOrder(p)
  PROVE  IInv'
<1>1. PICK o \in Orders \ Placed :
        LET d == Open("DONE", o)
            os == [orders EXCEPT ![o] = FreshRow]
        IN  /\ orders' = os
            /\ dialog' = [dialog EXCEPT ![p] = d]
            /\ screen' = [screen EXCEPT ![p] = Screen(p, d, os)]
            /\ queue' = [queue EXCEPT ![p] = Outdated(queue[p])]
  BY DEF PlaceOrder
<1> DEFINE d == Open("DONE", o)
           os == [orders EXCEPT ![o] = FreshRow]
           s == Screen(p, d, os)
           q == Outdated(queue[p])
<1>2. /\ orders' = os /\ dialog' = [dialog EXCEPT ![p] = d]
      /\ screen' = [screen EXCEPT ![p] = s] /\ queue' = [queue EXCEPT ![p] = q]
  BY <1>1
<1>3. /\ queue[p] \in Seq(Updates) /\ ChatOK(dialog[p], screen[p], queue[p], orders)
      /\ orders \in Table
  BY ChatFacts
<1>4. FreshRow \in OrderRow /\ FreshRow # None
  <2>1. FreshRow \in OrderRow
    BY DEF FreshRow, OrderRow, OrderStatus
  <2> QED
    BY <2>1, ScreensAssumption
<1>5. os \in Table /\ Grows(os) /\ os[o] # None
  BY <1>3, <1>4 DEF Table, Grows
<1>6. d \in Dialog /\ d.window = "DONE" /\ d.order = o
  BY DEF Open, Dialog, Windows, Items
<1> HIDE DEF d, os
<1>7. Drawable(p, d, os)
  BY <1>5, <1>6 DEF Drawable, NamesAnOrder
<1>8. ScreenOK(s, d)
  BY <1>5, <1>6, <1>7, ScreenDrawn
<1>9. q \in Seq(Updates) /\ (\A i \in 1..Len(q) : UpdateOK(q[i])) /\ QueueOK(q, d)
  <2>1. d.window \notin Acting
    BY <1>6 DEF Acting
  <2> QED
    BY <1>3, <1>6, <2>1, OutdatedKeeps DEF ChatOK
<1> HIDE DEF s, q
<1>10. ChatOK(d, s, q, os)
  BY <1>5, <1>6, <1>8, <1>9 DEF ChatOK
<1> QED
  BY <1>2, <1>5, <1>6, <1>9, <1>10, OneChat

LEMMA DroppedOK ==
  ASSUME IInv, NEW p \in People, Close(p) \/ Dropped(p)
  PROVE  IInv'
<1>1. queue[p] # <<>>
  BY DEF Close, Dropped, Tapped
<1>2. CASE \/ Close(p)
           \/ Dropped(p) /\ dialog' = [dialog EXCEPT ![p] = Closed]
                /\ screen' = [screen EXCEPT ![p] = NothingOnIt]
  BY <1>1, <1>2, ClosedKeeps DEF Close, Dropped
<1>3. CASE Dropped(p) /\ UNCHANGED <<dialog, screen>>
  <2>1. Fails(p, orders)
    BY <1>3 DEF Dropped, Fails
  <2> QED
    BY <1>1, <2>1, ChatFacts, FailedKeeps
<1> QED
  BY <1>2, <1>3 DEF Dropped

LEMMA UnchangedOK ==
  ASSUME IInv, UNCHANGED <<orders, dialog, screen, queue>>
  PROVE  IInv'
  BY DEF IInv, ChatOK, ScreenOK, QueueOK

LEMMA NextOK == IInv /\ [Next]_vars => IInv'
<1> SUFFICES ASSUME IInv, [Next]_vars PROVE IInv'
  OBVIOUS
<1>1. CASE UNCHANGED vars
  BY <1>1, UnchangedOK DEF vars
<1>2. CASE Next
  <2>1. PICK p \in People :
          Tap(p) \/ Type(p) \/ Command(p) \/ Handle(p) \/ PlaceOrder(p) \/ SetRole(p)
    BY <1>2 DEF Next
  <2>2. CASE Tap(p) \/ Type(p) \/ Command(p)
    BY <2>2, PersonOK
  <2>3. CASE Handle(p)
    <3>1. CASE Navigate(p)
      BY <3>1, NavigateOK
    <3>2. CASE TurnPage(p)
      BY <3>2, TurnPageOK
    <3>3. CASE on_order_selected(p)
      BY <3>3, SelectedOK
    <3>4. CASE on_address_typed(p) \/ on_cancel_confirmed(p) \/ on_cancellation_reason_typed(p)
      BY <3>4, CommandsOK
    <3>5. CASE on_status_selected(p)
      BY <3>5, CommandsOK, AsksOK
    <3>6. CASE on_filter_selected(p) \/ on_filter_cleared(p)
      BY <3>6, FilteredOK
    <3>7. CASE handle_orders(p) \/ handle_manage_orders(p) \/ on_open_order(p)
      BY <3>7, StartsOK
    <3>8. CASE Close(p) \/ Dropped(p)
      BY <3>8, DroppedOK
    <3> QED
      BY <2>3, <3>1, <3>2, <3>3, <3>4, <3>5, <3>6, <3>7, <3>8 DEF Handle
  <2>4. CASE PlaceOrder(p)
    BY <2>4, PlaceOrderOK
  <2>5. CASE SetRole(p)
    BY <2>5, UnchangedOK DEF SetRole
  <2> QED
    BY <2>1, <2>2, <2>3, <2>4, <2>5
<1> QED
  BY <1>1, <1>2

LEMMA Invariance == Spec => []IInv
  BY InitOK, NextOK, PTL DEF Spec

-----------------------------------------------------------------------------
(* The theorems *)

\* A button that is drawn is accepted as long as the order stays where the message shows
\* it: SqlAlchemyOrderRowViewMapper's flags, the picker of transitions_getter and the
\* guards of the aggregate are read from the same table of moves, and a message that
\* outlives its order says so.
THEOREM NoButtonIsRefused == Spec => []NoButtonCertainToBeRefused
<1>1. IInv => NoButtonCertainToBeRefused
  <2> SUFFICES ASSUME IInv, NEW p \in People, screen[p].order # None,
                      orders[screen[p].order].status = screen[p].status,
                      NEW b \in screen[p].buttons
               PROVE  LET o == screen[p].order
                      IN  /\ b.id = "status_select" => CanTransition(o, b.item)
                          /\ b.id = "edit_address" => CanReaddress(o)
                          /\ b.id = "cancel_order" => CanWithdraw(o)
                          /\ b.id = "status" => \E t \in OrderStatus : CanTransition(o, t)
    BY DEF NoButtonCertainToBeRefused
  <2>1. ButtonOK(b, screen[p].status)
    BY ChatFacts DEF ChatOK, ScreenOK
  <2>2. screen[p].status \in CUSTOMER_CANCELLABLE_STATUSES =>
          "CANCELLED" \in ALLOWED_ORDER_TRANSITIONS(screen[p].status)
    BY Transitions
  <2> QED
    BY <2>1, <2>2 DEF ButtonOK, CanTransition, CanReaddress, CanWithdraw
<1> QED
  BY <1>1, Invariance, PTL

\* Which handlers leave the orders alone.
LEMMA OrdersStay ==
  ASSUME NEW p \in People,
         \/ Tap(p) \/ Type(p) \/ Command(p) \/ Navigate(p) \/ TurnPage(p) \/ on_order_selected(p)
         \/ on_filter_selected(p) \/ on_filter_cleared(p) \/ handle_orders(p)
         \/ handle_manage_orders(p) \/ on_open_order(p) \/ Close(p) \/ Dropped(p) \/ SetRole(p)
         \/ on_status_selected(p) /\ update(p).item = "CANCELLED"
  PROVE  orders' = orders
  BY DEF Tap, Type, Command, Sends, Navigate, SwitchTo, TurnPage, on_order_selected,
     on_filter_selected, on_filter_cleared, handle_orders, handle_manage_orders, on_open_order,
     StartsOver, Close, Dropped, SetRole, on_status_selected, Shows

\* The step that changes an order that was there.
ShownStep ==
    \A o \in Placed : orders'[o] # orders[o] =>
        \E p \in People :
            /\ queue[p] # <<>> /\ queue'[p] = Tail(queue[p])
            /\ update(p).order = o
            /\ orders'[o].status \notin {orders[o].status, "CANCELLED"} =>
                  update(p).status = orders[o].status

LEMMA CommandsActOnWhatWasShown ==
  ASSUME IInv, NEW p \in People, NEW to, NEW os, Acted(p, to, os)
  PROVE  ShownStep
<1> DEFINE o == dialog[p].order
<1>1. /\ os \in Table /\ o \in Orders /\ update(p).order = o
      /\ \A x \in Orders \ {o} : os[x] = orders[x]
      /\ \/ os[o].status \in {orders[o].status, "CANCELLED"}
         \/ /\ update(p).id = "status_select" /\ CanTransition(o, update(p).item)
            /\ os[o].status = update(p).item
  BY ActedTable
<1>2. orders' = os /\ queue' = [queue EXCEPT ![p] = Tail(queue[p])] /\ queue[p] # <<>>
  BY DEF Acted, Answers, Shows, Fails
<1>3. queue'[p] = Tail(queue[p])
  BY <1>2 DEF IInv
<1>4. ASSUME os[o].status \notin {orders[o].status, "CANCELLED"}
      PROVE  update(p).status = orders[o].status
  <2>1. update(p).item \in ALLOWED_ORDER_TRANSITIONS(update(p).status)
    BY <1>1, <1>2, <1>4, HeadFacts DEF UpdateOK
  <2>2. update(p).item \in ALLOWED_ORDER_TRANSITIONS(orders[o].status)
    BY <1>1, <1>4 DEF CanTransition
  <2>3. update(p).item # "CANCELLED"
    BY <1>1, <1>4
  <2> QED
    BY <2>1, <2>2, <2>3, Transitions
<1> HIDE DEF o
<1>5. \A x \in Placed : x \in Orders
  BY DEF Placed
<1>6. \A x \in Placed : orders'[x] # orders[x] => x = o
  BY <1>1, <1>2, <1>5
<1> QED
  BY <1>1, <1>2, <1>3, <1>4, <1>6 DEF ShownStep

\* An order changes only by an update its sender made while looking at that very order,
\* and moves forward only from the status it was shown in, however many updates wait, in
\* however many chats.
THEOREM OnlyWhatWasShown == Spec => ActsOnWhatWasShown
<1>1. IInv /\ [Next]_vars => [ShownStep]_vars
  <2> SUFFICES ASSUME IInv, Next PROVE ShownStep
    OBVIOUS
  <2>1. PICK p \in People :
          Tap(p) \/ Type(p) \/ Command(p) \/ Handle(p) \/ PlaceOrder(p) \/ SetRole(p)
    BY DEF Next
  <2>2. CASE orders' = orders
    BY <2>2 DEF ShownStep
  <2>3. CASE \/ on_address_typed(p) \/ on_cancel_confirmed(p) \/ on_cancellation_reason_typed(p)
             \/ on_status_selected(p) /\ update(p).item # "CANCELLED"
    BY <2>3, Commands, CommandsActOnWhatWasShown
  <2>4. CASE PlaceOrder(p)
    <3>1. PICK o \in Orders \ Placed : orders' = [orders EXCEPT ![o] = FreshRow]
      BY <2>4 DEF PlaceOrder
    <3>2. \A x \in Placed : x \in Orders /\ x # o
      BY DEF Placed
    <3>3. \A x \in Placed : orders'[x] = orders[x]
      BY <3>1, <3>2 DEF IInv, Table
    <3> QED
      BY <3>3 DEF ShownStep
  <2> QED
    BY <2>1, <2>2, <2>3, <2>4, OrdersStay DEF Handle
<1>2. Spec => [][ShownStep]_vars
  BY <1>1, Invariance, PTL DEF Spec
<1> QED
  BY <1>2 DEF ActsOnWhatWasShown, ShownStep

-----------------------------------------------------------------------------
(* Former staff *)

\* A window drawn for somebody without the role shows their own orders, or what the
\* message before it showed.
LEMMA DrawnForACustomer ==
  ASSUME NEW p \in People \ staff, NEW d \in Dialog, NEW os \in Table, Grows(os),
         CanBeDrawn(p, d), d.window # "DONE", NEW o \in OrdersOn(Screen(p, d, os))
  PROVE  Owner[o] = p \/ o \in OrdersOn(screen[p])
<1> DEFINE s == Screen(p, d, os)
<1>1. /\ s.buttons = Buttons(p, d, os)
      /\ s.order = IF d.window \in NamesAnOrder \cup {"DONE"} THEN d.order
                   ELSE IF d.window \in {"EDIT_ADDRESS", "CANCEL_REASON"} THEN screen[p].order
                   ELSE None
  BY DEF Screen
<1> HIDE DEF s
<1>2. \/ o = s.order /\ o # None
      \/ \E b \in s.buttons : b.id \in SelectIds /\ o = b.item
  BY DEF OrdersOn, SelectIds, s
<1>3. CASE o = s.order /\ o # None
  <2>1. CASE d.window \in NamesAnOrder
    BY <1>1, <1>3, <2>1 DEF CanBeDrawn, MayOpen, IsStaff, IsOrderOwner
  <2>2. CASE d.window \notin NamesAnOrder
    <3>1. o = screen[p].order
      BY <1>1, <1>3, <2>2
    <3> QED
      BY <1>3, <3>1 DEF OrdersOn
  <2> QED
    BY <2>1, <2>2
<1>4. ASSUME NEW b \in s.buttons, b.id \in SelectIds, o = b.item
      PROVE  Owner[o] = p
  <2>1. d.window \in Windows /\ d.window \notin {"QUEUE", "MANAGED_CARD"}
    BY DEF CanBeDrawn, IsStaff, Dialog
  <2>2. CASE d.window = "LIST"
    <3> DEFINE rows == ListMyOrders(p, os)
    <3>1. \A x \in rows : Owner[x] = p
      BY DEF ListMyOrders, read_for_customer
    <3> HIDE DEF rows
    <3>2. b \in ListButtons("order_select", "orders_prev", "orders_next", rows, NewestFirst, d.page)
                  \cup Plain({"close"})
      BY <1>1, <1>4, <2>2 DEF Buttons, HistoryWindows, HistoryButtons, orders_getter, rows
    <3>3. \/ b.id \in {"orders_prev", "orders_next", "close"}
          \/ b.item \in rows
      <4>1. \/ \E x \in rows : b = [id |-> "order_select", item |-> x]
            \/ b \in Pager("orders_prev", "orders_next", rows, d.page)
            \/ b \in Plain({"close"})
        BY <3>2 DEF ListButtons, PageOf, Button
      <4>2. b \in Plain({"close"}) => b.id = "close"
        BY DEF Plain, Button
      <4>3. b \in Pager("orders_prev", "orders_next", rows, d.page) =>
              b.id \in {"orders_prev", "orders_next"}
        BY DEF Pager, Button
      <4> QED
        BY <4>1, <4>2, <4>3
    <3> QED
      BY <1>4, <3>1, <3>3 DEF SelectIds
  <2>3. CASE d.window # "LIST"
    <3>1. b.id \in Widgets(d.window)
      <4>1. CASE d.window \in {"CARD", "STATUS"}
        <5>1. d.order \in Orders /\ os[d.order] # None
          BY <4>1 DEF CanBeDrawn, NamesAnOrder, Placed, Grows
        <5> QED
          BY <1>1, <1>4, <4>1, <5>1, CardDrawn
      <4>2. CASE d.window \notin {"CARD", "STATUS"}
        BY <1>1, <1>4, <2>1, <2>3, <4>2, OtherDrawn DEF Windows
      <4> QED
        BY <4>1, <4>2
    <3> QED
      BY <1>4, <2>1, <2>3, <3>1 DEF Widgets, SelectIds, Windows
  <2> QED
    BY <2>2, <2>3
<1> QED
  BY <1>2, <1>3, <1>4

\* The message p was sent, if any, is the window the dialog is in now.
Redraws(p) ==
    /\ screen' = [screen EXCEPT ![p] = Screen(p, dialog'[p], orders')]
    /\ CanBeDrawn(p, dialog'[p]) /\ dialog'[p].window # "DONE"

LEMMA ShowsRedraws ==
  ASSUME IInv, NEW p \in People, NEW d, NEW os, d.window # "DONE",
         Shows(p, d, os) \/ (StartsOver(p, d) /\ os = orders)
  PROVE  Redraws(p)
<1>1. dialog'[p] = d /\ orders' = os
  BY DEF IInv, Shows, StartsOver
<1> QED
  BY <1>1 DEF Redraws, Shows, StartsOver

LEMMA SwitchRedraws ==
  ASSUME IInv, NEW p \in People, NEW to, to # "DONE", NEW os,
         Shows(p, [dialog[p] EXCEPT !.window = to], os)
  PROVE  Redraws(p)
<1> DEFINE d == [dialog[p] EXCEPT !.window = to]
<1>1. d.window = to
  BY ChatFacts DEF Dialog
<1>2. Shows(p, d, os)
  OBVIOUS
<1> HIDE DEF d
<1> QED
  BY <1>1, <1>2, ShowsRedraws

LEMMA HandlerDraws ==
  ASSUME IInv, NEW p \in People, Handle(p)
  PROVE  \/ screen' = screen
         \/ screen' = [screen EXCEPT ![p] = NothingOnIt]
         \/ Redraws(p)
<1>1. dialog[p] \in Dialog
  BY ChatFacts
<1>2. CASE Navigate(p)
  <2>1. PICK to : to # "DONE" /\ Shows(p, [dialog[p] EXCEPT !.window = to], orders)
    BY <1>2 DEF Navigate, SwitchTo
  <2> QED
    BY <2>1, SwitchRedraws
<1>3. CASE TurnPage(p)
  <2> DEFINE d == [dialog[p] EXCEPT !.page = update(p).item]
  <2>1. PICK id \in PagerIds : Tapped(p, id) /\ Shows(p, d, orders)
    BY <1>3 DEF TurnPage, PagerIds
  <2>2. d.window = dialog[p].window
    BY <1>1 DEF Dialog
  <2>3. d.window # "DONE"
    BY <2>1, <2>2, WindowOf
  <2> HIDE DEF d
  <2> QED
    BY <2>1, <2>3, ShowsRedraws
<1>4. CASE on_order_selected(p)
  <2>1. PICK to \in {"CARD", "MANAGED_CARD"} :
          Shows(p, [dialog[p] EXCEPT !.window = to, !.order = update(p).item], orders)
    BY <1>4 DEF on_order_selected
  <2> DEFINE d == [dialog[p] EXCEPT !.window = to, !.order = update(p).item]
  <2>2. d.window # "DONE"
    BY <1>1 DEF Dialog
  <2>3. Shows(p, d, orders)
    BY <2>1
  <2> HIDE DEF d
  <2> QED
    BY <2>2, <2>3, ShowsRedraws
<1>5. CASE \/ on_address_typed(p) \/ on_cancel_confirmed(p) \/ on_cancellation_reason_typed(p)
           \/ on_status_selected(p) /\ update(p).item # "CANCELLED"
  <2>1. PICK to, os : Acted(p, to, os)
    BY <1>5, Commands
  <2>2. \/ Shows(p, [dialog[p] EXCEPT !.window = to], os)
        \/ Fails(p, os)
    BY <2>1 DEF Acted, Answers
  <2>3. to # "DONE"
    BY <2>1 DEF Acted
  <2> QED
    BY <2>2, <2>3, SwitchRedraws DEF Fails
<1>6. CASE on_status_selected(p) /\ update(p).item = "CANCELLED"
  BY <1>6, SwitchRedraws DEF on_status_selected
<1>7. CASE on_filter_selected(p) \/ on_filter_cleared(p)
  <2>1. PICK f : Shows(p, Filtered(dialog[p], f), orders)
    BY <1>7 DEF on_filter_selected, on_filter_cleared
  <2>2. Filtered(dialog[p], f).window = "QUEUE"
    BY <1>1 DEF Filtered, Dialog
  <2> QED
    BY <2>1, <2>2, ShowsRedraws
<1>8. CASE handle_orders(p) \/ handle_manage_orders(p) \/ on_open_order(p)
  <2>1. PICK window \in {"LIST", "QUEUE", "CARD"}, o \in {None, dialog[p].order} :
          StartsOver(p, Open(window, o))
    BY <1>8 DEF handle_orders, handle_manage_orders, on_open_order, StartedWith
  <2>2. Open(window, o).window # "DONE"
    BY DEF Open
  <2> QED
    BY <2>1, <2>2, ShowsRedraws
<1>9. CASE Close(p) \/ Dropped(p)
  BY <1>9 DEF Close, Dropped
<1> QED
  BY <1>2, <1>3, <1>4, <1>5, <1>6, <1>7, <1>8, <1>9 DEF Handle

LEMMA HandlerGrows ==
  ASSUME IInv, NEW p \in People, Handle(p)
  PROVE  Grows(orders')
<1>1. CASE orders' = orders
  BY <1>1 DEF Grows
<1>2. CASE \/ on_address_typed(p) \/ on_cancel_confirmed(p) \/ on_cancellation_reason_typed(p)
           \/ on_status_selected(p) /\ update(p).item # "CANCELLED"
  <2>1. PICK to, os : Acted(p, to, os)
    BY <1>2, Commands
  <2>2. orders' = os
    BY <2>1 DEF Acted, Answers, Shows, Fails
  <2> QED
    BY <2>1, <2>2, ActedTable
<1> QED
  BY <1>1, <1>2, OrdersStay DEF Handle

\* What appears on a message of somebody without the role.
NothingNewStep ==
    \A p \in People \ staff :
        \A o \in OrdersOn(screen'[p]) \ OrdersOn(screen[p]) : Owner[o] = p

LEMMA NothingNew ==
  ASSUME IInv, IInv', Next
  PROVE  NothingNewStep
<1>1. PICK x \in People :
        Tap(x) \/ Type(x) \/ Command(x) \/ Handle(x) \/ PlaceOrder(x) \/ SetRole(x)
  BY DEF Next
<1>2. CASE screen' = screen
  BY <1>2 DEF NothingNewStep
<1>3. ASSUME NEW s, screen' = [screen EXCEPT ![x] = s],
             x \notin staff => \A o \in OrdersOn(s) : Owner[o] = x \/ o \in OrdersOn(screen[x])
      PROVE  NothingNewStep
  <2>1. screen'[x] = s /\ \A p \in People \ {x} : screen'[p] = screen[p]
    BY <1>3 DEF IInv
  <2> QED
    BY <1>3, <2>1 DEF NothingNewStep
<1>4. CASE Handle(x)
  <2>1. CASE screen' = [screen EXCEPT ![x] = NothingOnIt]
    <3>1. OrdersOn(NothingOnIt) = {}
      BY DEF OrdersOn, NothingOnIt
    <3> QED
      BY <1>3, <2>1, <3>1
  <2>2. CASE Redraws(x)
    <3> DEFINE d == dialog'[x]
               os == orders'
    <3>1. d \in Dialog /\ os \in Table
      BY DEF IInv
    <3>2. Grows(os)
      BY <1>4, HandlerGrows
    <3>3. screen' = [screen EXCEPT ![x] = Screen(x, d, os)] /\ CanBeDrawn(x, d) /\ d.window # "DONE"
      BY <2>2 DEF Redraws
    <3> HIDE DEF d, os
    <3>4. x \notin staff => \A o \in OrdersOn(Screen(x, d, os)) :
            Owner[o] = x \/ o \in OrdersOn(screen[x])
      BY <3>1, <3>2, <3>3, DrawnForACustomer
    <3> QED
      BY <1>3, <3>3, <3>4
  <2> QED
    BY <1>2, <1>4, <2>1, <2>2, HandlerDraws
<1>5. CASE PlaceOrder(x)
  <2>1. PICK o \in Orders \ Placed :
          LET d == Open("DONE", o)
              os == [orders EXCEPT ![o] = FreshRow]
          IN  Owner[o] = x /\ screen' = [screen EXCEPT ![x] = Screen(x, d, os)]
    BY <1>5 DEF PlaceOrder
  <2> DEFINE os == [orders EXCEPT ![o] = FreshRow]
             s == Screen(x, Open("DONE", o), os)
  <2>2. Owner[o] = x /\ screen' = [screen EXCEPT ![x] = s]
    BY <2>1
  <2>3. s.order = o /\ s.buttons = Plain({"open_order"})
    BY DEF Screen, Open, Buttons, HistoryWindows
  <2> HIDE DEF s
  <2>4. OrdersOn(s) \subseteq {o}
    BY <2>3 DEF OrdersOn, Plain, Button
  <2> QED
    BY <1>3, <2>2, <2>4
<1>6. CASE Tap(x) \/ Type(x) \/ Command(x) \/ SetRole(x)
  BY <1>2, <1>6 DEF Tap, Type, Command, Sends, SetRole
<1> QED
  BY <1>1, <1>4, <1>5, <1>6

\* Who has lost the staff role is shown no further order of anybody else, whatever is
\* open and whatever was tapped before: every window that reads an order is authorised
\* anew (GetOrder, ListOrders, GetUserById), not only the command that opened it.
THEOREM FormerStaffIsShownNothingNew == Spec => FormerStaffSeesNothingNew
<1>1. IInv /\ IInv' /\ [Next]_vars => [NothingNewStep]_vars
  BY NothingNew
<1>2. Spec => [][NothingNewStep]_vars
  BY <1>1, Invariance, PTL DEF Spec
<1> QED
  BY <1>2 DEF FormerStaffSeesNothingNew, NothingNewStep
=============================================================================
