---------------------------- MODULE OrderScreens ----------------------------
(***************************************************************************)
(* The two order dialogs, the buyer's history and the staff queue, over    *)
(* one table of orders.  Everyone has one chat; what is tapped or typed in *)
(* it is handled in order, one update at a time, while other chats change  *)
(* the same orders.  An update carries what its sender was looking at.     *)
(* A command commits before the window is drawn; a handler that raises     *)
(* leaves the dialog as it was.  The commands themselves are OrderLifecycle*)
(* with nothing between their read and their commit.                       *)
(***************************************************************************)
EXTENDS Paging, Sequences, OrderStatuses

CONSTANTS Orders,      \* order ids, by the time they are placed
          Owner,       \* Orders -> who places it
          FirstOrders, \* which orders may be placed already: sets of orders
          People,
          Managers,    \* who may be given a staff role
          Browsing,    \* who opens the history
          Filters,     \* bound: statuses the queue is narrowed to
          Demotable,   \* bound: whose role changes
          InFlight     \* bound: People -> updates of the chat waiting at once

VARIABLES orders,      \* the table: Orders -> row or None
          staff,       \* who holds a staff role now
          dialog,      \* each chat's window and dialog data
          screen,      \* each chat's message: what it names and its buttons
          queue        \* each chat's updates on their way, in order

vars == <<orders, staff, dialog, screen, queue>>

OrderRow == [status : OrderStatus, readdressed : BOOLEAN]

ASSUME ScreensAssumption ==
    /\ Orders \subseteq Nat /\ FirstOrders \subseteq SUBSET Orders
    /\ None \notin Orders \cup OrderRow
    /\ Owner \in [Orders -> People]
    /\ Managers \subseteq People /\ Browsing \subseteq People
    /\ Demotable \subseteq Managers
    /\ Filters \subseteq OrderStatus
    /\ InFlight \in [People -> Nat]

-----------------------------------------------------------------------------
(* The order *)

Placed == {o \in Orders : orders[o] # None}

\* Mutant: the picker is trusted to have offered only what is legal.
AnyOfThePickers(o, s) == orders[o].status # s

\* _transition_to
CanTransition(o, s) == s \in ALLOWED_ORDER_TRANSITIONS(orders[o].status)

\* cancel, initiated by the customer
CanWithdraw(o) ==
    orders[o].status \in CUSTOMER_CANCELLABLE_STATUSES /\ CanTransition(o, "CANCELLED")

CanReaddress(o) == orders[o].status \in EDITABLE_ORDER_STATUSES

Moved(o, s) == [orders EXCEPT ![o].status = s]

Readdressed(o) == [orders EXCEPT ![o].readdressed = TRUE]

IsStaff(p) == p \in staff
IsOrderOwner(p, o) == Owner[o] = p

-----------------------------------------------------------------------------
(* Queries, over the orders as a transaction leaves them *)

NewestFirst == {r \in Orders \X Orders : r[1] > r[2]}

read_for_customer(p, os) == {o \in Orders : os[o] # None /\ Owner[o] = p}

\* ListMyOrders: whose orders these are is who is asking, never a parameter.
ListMyOrders(p, os) == read_for_customer(p, os)

\* _conditions: unset means every order, the finished ones included.
Matches(filter, row) == filter \in {None, row.status}

read_all(filter, os) == {o \in Orders : os[o] # None /\ Matches(filter, os[o])}

\* Mutant: a buyer may take back whatever is not finished.
ViewOfAnOpenOrder(row) ==
    [status        |-> row.status,
     is_cancellable |-> row.status \notin TERMINAL_ORDER_STATUSES,
     is_editable    |-> row.status \in EDITABLE_ORDER_STATUSES,
     is_terminal    |-> row.status \in TERMINAL_ORDER_STATUSES]

\* SqlAlchemyOrderRowViewMapper.to_view
to_view(row) ==
    [status        |-> row.status,
     is_cancellable |-> row.status \in CUSTOMER_CANCELLABLE_STATUSES,
     is_editable    |-> row.status \in EDITABLE_ORDER_STATUSES,
     is_terminal    |-> row.status \in TERMINAL_ORDER_STATUSES]

\* GetOrder: for the buyer who placed it and for staff.
MayOpen(p, o) == IsOrderOwner(p, o) \/ IsStaff(p)

-----------------------------------------------------------------------------
(* Windows *)

\* The windows whose getter reads the selected order.
NamesAnOrder == {"CARD", "CANCEL_CONFIRM", "MANAGED_CARD", "STATUS"}

\* Mutant: the queue leaves it to the router's filter to keep people out.
DrawnForWhoeverIsThere(p, d) ==
    d.window \in NamesAnOrder => d.order \in Placed /\ MayOpen(p, d.order)

\* What the getters' queries find and authorise.  The staff card also reads its customer
\* (GetUserById), which is for staff only.
CanBeDrawn(p, d) ==
    /\ d.window \in NamesAnOrder => d.order \in Placed /\ MayOpen(p, d.order)
    /\ d.window \in {"QUEUE", "MANAGED_CARD"} => IsStaff(p)

orders_getter(p, d, os) ==
    ListButtons("order_select", "orders_prev", "orders_next", ListMyOrders(p, os), NewestFirst,
                d.page)

queue_getter(d, os) ==
    ListButtons("queue_select", "queue_prev", "queue_next", read_all(d.filter, os), NewestFirst,
                d.page)

order_card_getter(view) ==
    (IF view.is_editable THEN Plain({"edit_address"}) ELSE {})
      \cup (IF view.is_cancellable THEN Plain({"cancel_order"}) ELSE {})

managed_order_card_getter(view) ==
    IF view.is_terminal THEN {} ELSE Plain({"status"})

filters_getter == {Button("filter_select", s) : s \in Filters}

transitions_getter(view) ==
    {Button("status_select", s) : s \in ALLOWED_ORDER_TRANSITIONS(view.status)}

HistoryButtons(p, d, os) ==
    CASE d.window = "LIST" -> orders_getter(p, d, os) \cup Plain({"close"})
      [] d.window = "CARD" -> order_card_getter(to_view(os[d.order])) \cup Plain({"back", "close"})
      [] d.window = "EDIT_ADDRESS" -> Plain({"back"})
      [] d.window = "CANCEL_CONFIRM" -> Plain({"cancel_yes", "back"})

QueueButtons(d, os) ==
    CASE d.window = "QUEUE" -> queue_getter(d, os) \cup Plain({"filter", "close"})
      [] d.window = "FILTER" -> filters_getter \cup Plain({"filter_any", "back"})
      [] d.window = "MANAGED_CARD" ->
            managed_order_card_getter(to_view(os[d.order])) \cup Plain({"back", "close"})
      [] d.window = "STATUS" -> transitions_getter(to_view(os[d.order])) \cup Plain({"back"})
      [] d.window = "CANCEL_REASON" -> Plain({"back"})

HistoryWindows == {"LIST", "CARD", "EDIT_ADDRESS", "CANCEL_CONFIRM"}

Buttons(p, d, os) ==
    CASE d.window = "closed" -> {}
      [] d.window = "DONE" -> Plain({"open_order"})
      [] d.window \in HistoryWindows -> HistoryButtons(p, d, os)
      [] OTHER -> QueueButtons(d, os)

\* The message as a person reads it: the order it names and that order's status, or
\* what the message before it named when it is only a prompt; how many orders the
\* heading of a list speaks of.
Screen(p, d, os) ==
    LET names == d.window \in NamesAnOrder \cup {"DONE"}
        prompt == d.window \in {"EDIT_ADDRESS", "CANCEL_REASON"}
    IN  [window  |-> d.window,
         buttons |-> Buttons(p, d, os),
         order   |-> IF names THEN d.order ELSE IF prompt THEN screen[p].order ELSE None,
         status  |-> IF names THEN os[d.order].status
                     ELSE IF prompt THEN screen[p].status ELSE None,
         total   |-> CASE d.window = "LIST" -> Cardinality(ListMyOrders(p, os))
                       [] d.window = "QUEUE" -> Cardinality(read_all(d.filter, os))
                       [] OTHER -> 0]

\* The widgets of a window, drawn or not: a tap is matched by its id only.
Widgets(window) ==
    CASE window = "closed" -> {}
      [] window = "DONE" -> {"open_order"}
      [] window = "LIST" -> {"order_select", "orders_prev", "orders_next", "close"}
      [] window = "CARD" -> {"edit_address", "cancel_order", "back", "close"}
      [] window = "EDIT_ADDRESS" -> {"back"}
      [] window = "CANCEL_CONFIRM" -> {"cancel_yes", "back"}
      [] window = "QUEUE" -> {"queue_select", "queue_prev", "queue_next", "filter", "close"}
      [] window = "FILTER" -> {"filter_select", "filter_any", "back"}
      [] window = "MANAGED_CARD" -> {"status", "back", "close"}
      [] window = "STATUS" -> {"status_select", "back"}
      [] window = "CANCEL_REASON" -> {"back"}

-----------------------------------------------------------------------------
(* State *)

Open(window, order) == [window |-> window, order |-> order, filter |-> None, page |-> 0]

Closed == Open("closed", None)

NothingOnIt == [window |-> "closed", buttons |-> {}, order |-> None, status |-> None, total |-> 0]

FreshRow == [status |-> "NEW", readdressed |-> FALSE]

Init ==
    /\ \E S \in FirstOrders :
          orders = [o \in Orders |-> IF o \in S THEN FreshRow ELSE None]
    /\ staff = Managers
    /\ dialog = [p \in People |-> Closed]
    /\ screen = [p \in People |-> NothingOnIt]
    /\ queue = [p \in People |-> <<>>]

-----------------------------------------------------------------------------
(* What people do *)

Sends(p, b) ==
    /\ Len(queue[p]) < InFlight[p]
    /\ queue' = [queue EXCEPT ![p] = Append(@,
          [id |-> b.id, item |-> b.item, order |-> screen[p].order, status |-> screen[p].status])]
    /\ UNCHANGED <<orders, staff, dialog, screen>>

Tap(p) == \E b \in screen[p].buttons : Sends(p, b)

Type(p) == Sends(p, Button("text", None))

\* The routers of the commands come before the dialogs: no window takes a command for
\* a text.
Command(p) ==
    \/ p \in Browsing /\ Sends(p, Button("/orders", None))
    \/ p \in Managers /\ Sends(p, Button("/manage_orders", None))

-----------------------------------------------------------------------------
(* The handlers *)

update(p) == Head(queue[p])

selected_order_id(p) == dialog[p].order

Tapped(p, id) == queue[p] # <<>> /\ update(p).id = id /\ id \in Widgets(dialog[p].window)

Typed(p, window) == queue[p] # <<>> /\ update(p).id = "text" /\ dialog[p].window = window

\* The handler left the orders as os, and the dialog as d was drawn.
Shows(p, d, os) ==
    /\ CanBeDrawn(p, d)
    /\ orders' = os
    /\ dialog' = [dialog EXCEPT ![p] = d]
    /\ screen' = [screen EXCEPT ![p] = Screen(p, d, os)]
    /\ queue' = [queue EXCEPT ![p] = Tail(@)]
    /\ UNCHANGED staff

\* Nothing after the commit reached the chat, and the dialog was not saved.
Fails(p, os) ==
    /\ orders' = os
    /\ queue' = [queue EXCEPT ![p] = Tail(@)]
    /\ UNCHANGED <<staff, dialog, screen>>

Answers(p, d, os) == Shows(p, d, os) \/ Fails(p, os)

SwitchTo(p, id, from, to) ==
    /\ dialog[p].window = from /\ Tapped(p, id)
    /\ Shows(p, [dialog[p] EXCEPT !.window = to], orders)

\* The buttons that only change the window.
Navigate(p) ==
    \/ SwitchTo(p, "edit_address", "CARD", "EDIT_ADDRESS")
    \/ SwitchTo(p, "cancel_order", "CARD", "CANCEL_CONFIRM")
    \/ SwitchTo(p, "back", "CARD", "LIST")
    \/ SwitchTo(p, "back", "EDIT_ADDRESS", "CARD")
    \/ SwitchTo(p, "back", "CANCEL_CONFIRM", "CARD")
    \/ SwitchTo(p, "filter", "QUEUE", "FILTER")
    \/ SwitchTo(p, "back", "FILTER", "QUEUE")
    \/ SwitchTo(p, "status", "MANAGED_CARD", "STATUS")
    \/ SwitchTo(p, "back", "MANAGED_CARD", "QUEUE")
    \/ SwitchTo(p, "back", "STATUS", "MANAGED_CARD")
    \/ SwitchTo(p, "back", "CANCEL_REASON", "MANAGED_CARD")

TurnPage(p) ==
    \E id \in {"orders_prev", "orders_next", "queue_prev", "queue_next"} :
        Tapped(p, id) /\ Shows(p, [dialog[p] EXCEPT !.page = update(p).item], orders)

on_order_selected(p) ==
    \/ /\ Tapped(p, "order_select")
       /\ Shows(p, [dialog[p] EXCEPT !.window = "CARD", !.order = update(p).item], orders)
    \/ /\ Tapped(p, "queue_select")
       /\ Shows(p, [dialog[p] EXCEPT !.window = "MANAGED_CARD", !.order = update(p).item], orders)

on_address_typed(p) ==
    LET o == selected_order_id(p)
    IN  /\ Typed(p, "EDIT_ADDRESS") /\ IsOrderOwner(p, o) /\ CanReaddress(o)
        /\ Answers(p, [dialog[p] EXCEPT !.window = "CARD"], Readdressed(o))

on_cancel_confirmed(p) ==
    LET o == selected_order_id(p)
    IN  /\ Tapped(p, "cancel_yes") /\ IsOrderOwner(p, o) /\ CanWithdraw(o)
        /\ Answers(p, [dialog[p] EXCEPT !.window = "CARD"], Moved(o, "CANCELLED"))

Filtered(d, s) == [d EXCEPT !.window = "QUEUE", !.filter = s, !.page = 0]

on_filter_selected(p) ==
    Tapped(p, "filter_select") /\ Shows(p, Filtered(dialog[p], update(p).item), orders)

on_filter_cleared(p) == Tapped(p, "filter_any") /\ Shows(p, Filtered(dialog[p], None), orders)

\* Cancelling is the one move that asks for a reason first.
on_status_selected(p) ==
    LET o == selected_order_id(p)   s == update(p).item
    IN  /\ Tapped(p, "status_select")
        /\ IF s = "CANCELLED"
           THEN Shows(p, [dialog[p] EXCEPT !.window = "CANCEL_REASON"], orders)
           ELSE /\ IsStaff(p) /\ CanTransition(o, s)
                /\ Answers(p, [dialog[p] EXCEPT !.window = "MANAGED_CARD"], Moved(o, s))

on_cancellation_reason_typed(p) ==
    LET o == selected_order_id(p)
    IN  /\ Typed(p, "CANCEL_REASON") /\ IsStaff(p) /\ CanTransition(o, "CANCELLED")
        /\ Answers(p, [dialog[p] EXCEPT !.window = "MANAGED_CARD"], Moved(o, "CANCELLED"))

\* A dialog started over the old one: what was tapped on that is outdated when its turn
\* comes, and nobody answers it.
StillMeant(u) == u.id \in {"text", "/orders", "/manage_orders"}

OutdatedTap == [id |-> "outdated", item |-> None, order |-> None, status |-> None]

Outdated(q) == [i \in DOMAIN q |-> IF StillMeant(q[i]) THEN q[i] ELSE OutdatedTap]

StartsOver(p, d) ==
    /\ CanBeDrawn(p, d)
    /\ dialog' = [dialog EXCEPT ![p] = d]
    /\ screen' = [screen EXCEPT ![p] = Screen(p, d, orders)]
    /\ queue' = [queue EXCEPT ![p] = Outdated(Tail(@))]
    /\ UNCHANGED <<orders, staff>>

handle_orders(p) ==
    queue[p] # <<>> /\ update(p).id = "/orders" /\ StartsOver(p, Open("LIST", None))

\* The router's filter: to anybody else the command does not exist.
handle_manage_orders(p) ==
    /\ queue[p] # <<>> /\ update(p).id = "/manage_orders" /\ IsStaff(p)
    /\ StartsOver(p, Open("QUEUE", None))

\* on_dialog_start
StartedWith(o) == Open("CARD", o)

on_open_order(p) == Tapped(p, "open_order") /\ StartsOver(p, StartedWith(dialog[p].order))

\* The checkout dialog of this chat places the next order and ends on its "done".
PlaceOrder(p) ==
    \E o \in Orders \ Placed :
        LET d == Open("DONE", o)
            os == [orders EXCEPT ![o] = FreshRow]
        IN  /\ Owner[o] = p /\ \A x \in Orders : x < o => x \in Placed
            /\ orders' = os
            /\ dialog' = [dialog EXCEPT ![p] = d]
            /\ screen' = [screen EXCEPT ![p] = Screen(p, d, os)]
            /\ queue' = [queue EXCEPT ![p] = Outdated(@)]
            /\ UNCHANGED staff

Close(p) ==
    /\ Tapped(p, "close")
    /\ dialog' = [dialog EXCEPT ![p] = Closed]
    /\ screen' = [screen EXCEPT ![p] = NothingOnIt]
    /\ queue' = [queue EXCEPT ![p] = Tail(@)]
    /\ UNCHANGED <<orders, staff>>

\* Nobody answers the update, or its handler raised: the widget of another window,
\* a refusal, a blank text, a read that failed.  A start that failed while its first
\* window was drawn has already taken the old dialog away.
Dropped(p) ==
    /\ queue[p] # <<>> /\ queue' = [queue EXCEPT ![p] = Tail(@)]
    /\ \/ UNCHANGED <<dialog, screen>>
       \/ /\ update(p).id \in {"/orders", "/manage_orders"}
          /\ dialog' = [dialog EXCEPT ![p] = Closed]
          /\ screen' = [screen EXCEPT ![p] = NothingOnIt]
    /\ UNCHANGED <<orders, staff>>

\* An administrator gives the role or takes it away.
SetRole(p) ==
    /\ p \in Demotable
    /\ staff' = IF p \in staff THEN staff \ {p} ELSE staff \cup {p}
    /\ UNCHANGED <<orders, dialog, screen, queue>>

Handle(p) ==
    \/ Navigate(p) \/ TurnPage(p) \/ on_order_selected(p) \/ on_address_typed(p)
    \/ on_cancel_confirmed(p) \/ on_filter_selected(p) \/ on_filter_cleared(p)
    \/ on_status_selected(p) \/ on_cancellation_reason_typed(p)
    \/ handle_orders(p) \/ handle_manage_orders(p) \/ on_open_order(p)
    \/ Close(p) \/ Dropped(p)

Next == \E p \in People : Tap(p) \/ Type(p) \/ Command(p) \/ Handle(p) \/ PlaceOrder(p) \/ SetRole(p)

Spec == Init /\ [][Next]_vars

-----------------------------------------------------------------------------
(* Properties *)

\* An order that was placed changes only by an update somebody sent while looking at
\* that very order, and moves forward only from the status it was shown in: a tap that
\* other taps, other chats or a failed redraw overtook changes nothing else.
ActsOnWhatWasShown ==
    [][\A o \in Placed : orders'[o] # orders[o] =>
          \E p \in People :
              /\ queue[p] # <<>> /\ queue'[p] = Tail(queue[p])
              /\ update(p).order = o
              /\ orders'[o].status \notin {orders[o].status, "CANCELLED"} =>
                    update(p).status = orders[o].status]_vars

\* The orders a message shows.
OrdersOn(s) ==
    ({s.order} \ {None})
      \cup {b.item : b \in {x \in s.buttons : x.id \in {"order_select", "queue_select"}}}

\* Who has lost the staff role is shown no further order of anybody else, although
\* the dialog is still open and only the command is filtered by role.
FormerStaffSeesNothingNew ==
    [][\A p \in People \ staff :
          \A o \in OrdersOn(screen'[p]) \ OrdersOn(screen[p]) : Owner[o] = p]_vars

\* A button that is drawn is accepted as long as the order stays where the screen
\* shows it: the row mapper's flags, the picker and the aggregate agree.
NoButtonCertainToBeRefused ==
    \A p \in People :
        LET s == screen[p]
        IN  s.order # None /\ orders[s.order].status = s.status =>
              \A b \in s.buttons :
                  /\ b.id = "status_select" => CanTransition(s.order, b.item)
                  /\ b.id = "edit_address" => CanReaddress(s.order)
                  /\ b.id = "cancel_order" => CanWithdraw(s.order)
                  /\ b.id = "status" => \E t \in OrderStatus : CanTransition(s.order, t)
=============================================================================
