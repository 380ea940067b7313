---------------------------- MODULE CartCheckout ----------------------------
(***************************************************************************)
(* Carts, the chats that change them and the checkout that turns one into  *)
(* an order.                                                               *)
(*                                                                         *)
(* A person has one cart and may reach it from several chats.  A chat      *)
(* handles one update at a time, in a database session of its own: the     *)
(* cart is read (and started when there is none), the aggregate changes    *)
(* its copy, and the commit writes the lines that differ from what was     *)
(* read together with the recorded events.  The catalog changes underneath *)
(* at any time: prices move and products are withdrawn.                    *)
(***************************************************************************)
EXTENDS Naturals, Sequences, FiniteSets, FiniteSetsExt

CONSTANTS People,          \* ids of registered users
          Chats,           \* the chats they write from
          Owner,           \* chat -> the person behind it
          Products,        \* product ids
          Offers,          \* what the catalog may say of a product: is it
                           \* active, and its price (None: on request)
          None,            \* SQL NULL and Python None
          MAX_QUANTITY,    \* ceiling of one line
          MAX_CART_LINES,  \* ceiling of different products in a cart
          MaxEvents        \* bound: events of one person after which no command starts

ASSUME CartAssumption ==
  /\ Owner \in [Chats -> People]
  /\ IsFiniteSet(Products)
  /\ Offers \subseteq [is_active : BOOLEAN, amount : Nat \cup {None}]
  /\ None \notin Nat \cup [Products -> Nat]
  /\ MAX_QUANTITY \in Nat
  /\ MAX_CART_LINES \in Nat
  /\ MaxEvents \in Nat

VARIABLES cart,      \* carts and cart_items: person -> quantity of each product, None: no row
          orders,    \* person -> the orders they placed: lines and the prices copied into them
          outbox,    \* person -> their outbox rows, in the order they were committed
          catalog,   \* the projection of 1C: product -> offer
          session,   \* chat -> the command it is handling, None: idle
          dialog     \* chat -> where its checkout dialog stands

vars == <<cart, orders, outbox, catalog, session, dialog>>
-----------------------------------------------------------------------------
(* domain/carts/entities/cart.py: the lines are a function, 0 is no line. *)

Lines == [Products -> 0..MAX_QUANTITY]

NoLines == [p \in Products |-> 0]

In(lines) == {p \in Products : lines[p] > 0}

line_count(lines) == Cardinality(In(lines))

CartCreated == [type |-> "CartCreated"]

CartItem(type, p, n) == [type |-> type, product_id |-> p, quantity |-> n]

CartCleared == [type |-> "CartCleared"]

OrderPlaced == [type |-> "OrderPlaced"]

Event ==
  [type : {"CartCreated", "CartCleared", "OrderPlaced"}]
    \cup [type : {"CartItemAdded", "CartItemQuantityChanged", "CartItemRemoved"},
          product_id : Products, quantity : 0..MAX_QUANTITY]

\* add_item: a new product needs room in the cart, and Quantity refuses a sum
\* above its ceiling.
CanAdd(lines, p, n) ==
  /\ lines[p] = 0 => line_count(lines) < MAX_CART_LINES
  /\ lines[p] + n <= MAX_QUANTITY

add_item(lines, p, n) == [lines EXCEPT ![p] = @ + n]

\* decrease_item takes the whole line off with its last piece.
decrease_item(lines, p) == [lines EXCEPT ![p] = @ - 1]

\* Mutant: the quantity is announced as it was before the piece came off.
DecreaseAnnouncesOld(lines, p) ==
  <<CartItem("CartItemQuantityChanged", p, lines[p])>>

DecreaseEvents(lines, p) ==
  IF lines[p] = 1
    THEN <<CartItem("CartItemRemoved", p, 0)>>
    ELSE <<CartItem("CartItemQuantityChanged", p, lines[p] - 1)>>

set_item_quantity(lines, p, n) == [lines EXCEPT ![p] = n]

\* remove_item, of one product or of several in turn.
remove_items(lines, gone) == [p \in Products |-> IF p \in gone THEN 0 ELSE lines[p]]

clear(lines) == NoLines

\* Clearing what is already empty announces nothing.
ClearEvents(lines) == IF lines = NoLines THEN <<>> ELSE <<CartCleared>>

\* The events of a loop that removes the products of a set one by one.
Removals(gone) ==
  {es \in [1..Cardinality(gone) -> {CartItem("CartItemRemoved", p, 0) : p \in gone}] :
     \A p \in gone : \E i \in DOMAIN es : es[i].product_id = p}
-----------------------------------------------------------------------------
(* Prices: the cart screen and the checkout read the same catalog. *)

IsListed(offers, p) == offers[p].is_active

IsPriced(offers, p) == offers[p].amount # None

\* What the lines that have a price come to.
Total(lines, offers) ==
  MapThenSumSet(LAMBDA p : lines[p] * offers[p].amount,
                {p \in In(lines) : IsPriced(offers, p)})

\* The line count and the total the confirmation screen prints and remembers.
Screen(lines, offers) ==
  [count |-> line_count(lines), total |-> Total(lines, offers)]

CatalogStates == [Products -> Offers]

Screens == {Screen(lines, offers) : lines \in Lines, offers \in CatalogStates}

\* There is something in the cart and every line of it is listed and priced:
\* what the cart screen asks before it offers checkout, and what the pricing
\* service and the checkout service ask again.
can_checkout(lines, offers) ==
  /\ In(lines) # {}
  /\ \A p \in In(lines) : IsListed(offers, p) /\ IsPriced(offers, p)
-----------------------------------------------------------------------------
(* Sessions *)

Command ==
  [kind : {"AddToCart", "SetCartLineQuantity"}, product_id : Products,
   quantity : 1..MAX_QUANTITY]
    \cup [kind : {"DecreaseCartLine", "RemoveCartLine"}, product_id : Products]
    \cup [kind : {"ClearCart", "RemoveUnavailableCartLines"}]
    \cup [kind : {"PlaceOrder"}, expected : Screens]

\* offers: what the catalog said, once it was asked; created: the session has
\* inserted the cart; events: what is recorded before the aggregate is changed.
Request ==
  [command : Command, stage : {"requested", "creating", "loaded"}, seen : Lines,
   offers : {None}, created : BOOLEAN, events : Seq({CartCreated})]
    \cup [command : Command, stage : {"informed"}, seen : Lines,
          offers : CatalogStates, created : BOOLEAN, events : Seq({CartCreated})]

\* The lines of a person's cart, whether or not there is a row.
by_user_id(u) == IF cart[u] = None THEN NoLines ELSE cart[u]

StartsCart(command) == command.kind \in {"AddToCart", "PlaceOrder"}

\* Somebody else's insert of the same cart is not committed yet.
InsertPending(u) ==
  \E d \in Chats : Owner[d] = u /\ session[d] # None /\ session[d].created

\* The windows of the checkout dialog that matter to the cart, and what the
\* confirmation printed (dialog_data).
Elsewhere == [window |-> "elsewhere", shown |-> None]

Dialogs ==
  [window : {"elsewhere", "filling", "already_placed"}, shown : {None}]
    \cup [window : {"confirm"}, shown : Screens]

Confirmation(u) == [window |-> "confirm", shown |-> Screen(by_user_id(u), catalog)]

\* The session has its cart and serves a command of this kind.
Serving(c, kind) ==
  /\ session[c] # None
  /\ session[c].command.kind = kind
  /\ session[c].stage = IF kind \in {"PlaceOrder", "RemoveUnavailableCartLines"}
                          THEN "informed" ELSE "loaded"

\* What the unit of work can write: a new line only where there is none, a
\* changed quantity only on a line that is still there.  Deleting a line that
\* is already gone passes with a warning.
CanFlush(seen, after, now) ==
  \A p \in Products :
    /\ seen[p] = 0 /\ after[p] > 0 => now[p] = 0
    /\ seen[p] > 0 /\ after[p] > 0 /\ seen[p] # after[p] => now[p] > 0

\* Mutant: an emptied cart is emptied with one DELETE by cart id.
FlushWholeCart(seen, after, now) ==
  [p \in Products |-> IF after = NoLines \/ seen[p] # after[p] THEN after[p] ELSE now[p]]

\* A line is written when the aggregate left it different from what was read.
Flush(seen, after, now) ==
  [p \in Products |-> IF seen[p] # after[p] THEN after[p] ELSE now[p]]

\* The commit: lines and events together, one request of a cart at a time
\* (every change updates the row of the cart first).
Commit(c, after, events) ==
  LET u == Owner[c]
  IN  /\ CanFlush(session[c].seen, after, by_user_id(u))
      /\ cart'    = [cart EXCEPT ![u] = Flush(session[c].seen, after, by_user_id(u))]
      /\ outbox'  = [outbox EXCEPT ![u] = @ \o (session[c].events \o events)]
      /\ session' = [session EXCEPT ![c] = None]
      /\ UNCHANGED catalog
-----------------------------------------------------------------------------
Init ==
  /\ cart    = [u \in People |-> None]
  /\ orders  = [u \in People |-> <<>>]
  /\ outbox  = [u \in People |-> <<>>]
  /\ catalog \in CatalogStates
  /\ session = [c \in Chats |-> None]
  /\ dialog  = [c \in Chats |-> Elsewhere]

\* An import from 1C changes what the catalog says of a product.
Import(p, offer) ==
  /\ catalog' = [catalog EXCEPT ![p] = offer]
  /\ UNCHANGED <<cart, orders, outbox, session, dialog>>

\* The cart screen was drawn with its checkout button, which may be pressed
\* any time later.
OpenCheckout(c) ==
  /\ session[c] = None
  /\ can_checkout(by_user_id(Owner[c]), catalog)
  /\ dialog' = [dialog EXCEPT ![c] = [window |-> "filling", shown |-> None]]
  /\ UNCHANGED <<cart, orders, outbox, catalog, session>>

\* confirm_getter: the cart is read again and what is printed is remembered.
ShowConfirmation(c) ==
  /\ session[c] = None
  /\ dialog[c].window \in {"filling", "confirm"}
  /\ dialog' = [dialog EXCEPT ![c] = Confirmation(Owner[c])]
  /\ UNCHANGED <<cart, orders, outbox, catalog, session>>

\* A tap begins a command.  Every command but the confirmation comes from
\* another window.
Begin(c, command) ==
  /\ session[c] = None
  /\ Len(outbox[Owner[c]]) < MaxEvents
  /\ session' = [session EXCEPT ![c] = [command |-> command, stage |-> "requested",
                                        seen |-> NoLines, offers |-> None,
                                        created |-> FALSE, events |-> <<>>]]
  /\ UNCHANGED <<cart, orders, outbox, catalog>>

RequestAdd(c) ==
  \E p \in Products, n \in 1..MAX_QUANTITY :
    /\ IsListed(catalog, p)
    /\ Begin(c, [kind |-> "AddToCart", product_id |-> p, quantity |-> n])
    /\ dialog' = [dialog EXCEPT ![c] = Elsewhere]

RequestChange(c) ==
  /\ \/ \E p \in Products, n \in 1..MAX_QUANTITY :
          Begin(c, [kind |-> "SetCartLineQuantity", product_id |-> p, quantity |-> n])
     \/ \E p \in Products, kind \in {"DecreaseCartLine", "RemoveCartLine"} :
          Begin(c, [kind |-> kind, product_id |-> p])
     \/ \E kind \in {"ClearCart", "RemoveUnavailableCartLines"} :
          Begin(c, [kind |-> kind])
  /\ dialog' = [dialog EXCEPT ![c] = Elsewhere]

RequestOrder(c) ==
  /\ dialog[c].window = "confirm"
  /\ Begin(c, [kind |-> "PlaceOrder", expected |-> dialog[c].shown])
  /\ UNCHANGED dialog
-----------------------------------------------------------------------------
(* CartProvider *)

Load(c) ==
  /\ session[c] # None
  /\ session[c].stage = "requested"
  /\ cart[Owner[c]] # None
  /\ session' = [session EXCEPT ![c] = [@ EXCEPT !.stage = "loaded",
                                                 !.seen = cart[Owner[c]]]]
  /\ UNCHANGED <<cart, orders, outbox, catalog, dialog>>

\* current_or_new builds a cart, which records its creation; current refuses.
CreateCart(c) ==
  /\ session[c] # None
  /\ session[c].stage = "requested"
  /\ cart[Owner[c]] = None
  /\ StartsCart(session[c].command)
  /\ session' = [session EXCEPT ![c] = [@ EXCEPT !.stage = "creating",
                                                 !.events = <<CartCreated>>]]
  /\ UNCHANGED <<cart, orders, outbox, catalog, dialog>>

\* The insert waits for an uncommitted one of the same person.
InsertCart(c) ==
  /\ session[c] # None
  /\ session[c].stage = "creating"
  /\ cart[Owner[c]] = None
  /\ ~InsertPending(Owner[c])
  /\ session' = [session EXCEPT ![c] = [@ EXCEPT !.stage = "loaded", !.created = TRUE]]
  /\ UNCHANGED <<cart, orders, outbox, catalog, dialog>>

\* Mutant: the event of the cart that was never written stays recorded.
KeepCreation(events) == events

WithdrawCreation(events) == <<>>

\* The unique index refused the insert: back to the savepoint, and the cart
\* that won is read instead.
LoseInsert(c) ==
  /\ session[c] # None
  /\ session[c].stage = "creating"
  /\ cart[Owner[c]] # None
  /\ session' = [session EXCEPT ![c] = [session[c] EXCEPT
                                           !.stage = "loaded",
                                           !.seen = cart[Owner[c]],
                                           !.events = WithdrawCreation(@)]]
  /\ UNCHANGED <<cart, orders, outbox, catalog, dialog>>
-----------------------------------------------------------------------------
(* The command handlers, from the loaded cart to the commit. *)

AddToCart(c) ==
  LET seen == session[c].seen
      p    == session[c].command.product_id
      n    == session[c].command.quantity
  IN  /\ Serving(c, "AddToCart")
      /\ CanAdd(seen, p, n)
      /\ Commit(c, add_item(seen, p, n), <<CartItem("CartItemAdded", p, seen[p] + n)>>)
      /\ UNCHANGED <<orders, dialog>>

DecreaseCartLine(c) ==
  LET seen == session[c].seen
      p    == session[c].command.product_id
  IN  /\ Serving(c, "DecreaseCartLine")
      /\ p \in In(seen)
      /\ Commit(c, decrease_item(seen, p), DecreaseEvents(seen, p))
      /\ UNCHANGED <<orders, dialog>>

SetCartLineQuantity(c) ==
  LET seen == session[c].seen
      p    == session[c].command.product_id
      n    == session[c].command.quantity
  IN  /\ Serving(c, "SetCartLineQuantity")
      /\ p \in In(seen)
      /\ Commit(c, set_item_quantity(seen, p, n),
                <<CartItem("CartItemQuantityChanged", p, n)>>)
      /\ UNCHANGED <<orders, dialog>>

RemoveCartLine(c) ==
  LET seen == session[c].seen
      p    == session[c].command.product_id
  IN  /\ Serving(c, "RemoveCartLine")
      /\ p \in In(seen)
      /\ Commit(c, remove_items(seen, {p}), <<CartItem("CartItemRemoved", p, 0)>>)
      /\ UNCHANGED <<orders, dialog>>

ClearCart(c) ==
  LET seen == session[c].seen
  IN  /\ Serving(c, "ClearCart")
      /\ Commit(c, clear(seen), ClearEvents(seen))
      /\ UNCHANGED <<orders, dialog>>

\* The catalog is asked about the lines that were loaded: which of them it
\* still holds (the sweep), what they cost (checkout, of a cart with lines).
ReadCatalog(c) ==
  /\ session[c] # None
  /\ session[c].stage = "loaded"
  /\ session[c].command.kind \in {"RemoveUnavailableCartLines", "PlaceOrder"}
  /\ session[c].command.kind = "PlaceOrder" => In(session[c].seen) # {}
  /\ session' = [session EXCEPT ![c] = [@ EXCEPT !.stage = "informed",
                                                 !.offers = catalog]]
  /\ UNCHANGED <<cart, orders, outbox, catalog, dialog>>

RemoveUnavailableCartLines(c) ==
  LET seen == session[c].seen
      gone == {p \in In(seen) : ~IsListed(session[c].offers, p)}
  IN  /\ Serving(c, "RemoveUnavailableCartLines")
      /\ \E events \in Removals(gone) : Commit(c, remove_items(seen, gone), events)
      /\ UNCHANGED <<orders, dialog>>

\* Mutant: only the number of lines is compared with the screen.
AsShownByCount(lines, offers, expected) == line_count(lines) = expected.count

\* _ensure_not_repriced, for a cart every line of which has a price.
AsShown(lines, offers, expected) == Screen(lines, offers) = expected

\* Mutant: checkout forgets to empty the cart.
CheckoutKeepsCart(lines) == lines

CheckoutLeaves(lines) == clear(lines)

\* The order and the emptied cart in one transaction.  The process may die
\* after the commit, before the dialog is told.
PlaceOrder(c) ==
  LET seen   == session[c].seen
      offers == session[c].offers
  IN  /\ Serving(c, "PlaceOrder")
      /\ can_checkout(seen, offers)
      /\ AsShown(seen, offers, session[c].command.expected)
      /\ Commit(c, CheckoutLeaves(seen), <<OrderPlaced, CartCleared>>)
      /\ orders' = [orders EXCEPT ![Owner[c]] =
                      Append(@, [lines |-> seen, offers |-> offers])]
      /\ \/ dialog' = [dialog EXCEPT ![c] = Elsewhere]
         \/ UNCHANGED dialog

\* Mutant: on_confirmed takes any refusal of a loaded cart for a second tap.
AnyRefusalMeansPlaced(lines) == TRUE

MeansPlaced(lines) == In(lines) = {}

\* EmptyCartError is shown as an order that went through already.
AlreadyPlaced(c) ==
  /\ session[c] # None
  /\ session[c].command.kind = "PlaceOrder"
  /\ session[c].stage = "loaded"
  /\ MeansPlaced(session[c].seen)
  /\ session' = [session EXCEPT ![c] = None]
  /\ dialog'  = [dialog EXCEPT ![c] = [window |-> "already_placed", shown |-> None]]
  /\ UNCHANGED <<cart, orders, outbox, catalog>>

\* A refusal, a database error or the end of the process: the transaction is
\* rolled back.  A confirmation that was refused redraws its window.
RollBack(c) ==
  /\ session[c] # None
  /\ session' = [session EXCEPT ![c] = None]
  /\ \/ UNCHANGED dialog
     \/ /\ session[c].command.kind = "PlaceOrder"
        /\ dialog' = [dialog EXCEPT ![c] = Confirmation(Owner[c])]
  /\ UNCHANGED <<cart, orders, outbox, catalog>>
-----------------------------------------------------------------------------
ChatStep(c) ==
  \/ OpenCheckout(c)
  \/ ShowConfirmation(c)
  \/ RequestAdd(c)
  \/ RequestChange(c)
  \/ RequestOrder(c)
  \/ Load(c)
  \/ CreateCart(c)
  \/ InsertCart(c)
  \/ LoseInsert(c)
  \/ AddToCart(c)
  \/ DecreaseCartLine(c)
  \/ SetCartLineQuantity(c)
  \/ RemoveCartLine(c)
  \/ ClearCart(c)
  \/ ReadCatalog(c)
  \/ RemoveUnavailableCartLines(c)
  \/ PlaceOrder(c)
  \/ AlreadyPlaced(c)
  \/ RollBack(c)

Next ==
  \/ \E p \in Products, offer \in Offers : Import(p, offer)
  \/ \E c \in Chats : ChatStep(c)

Spec == Init /\ [][Next]_vars
-----------------------------------------------------------------------------
(* Properties *)

\* Every variable has its type: in particular no line is above the ceiling
\* (Quantity), and an order is made of lines and a price for each product.
TypeOK ==
  /\ cart \in [People -> Lines \cup {None}]
  /\ orders \in [People -> Seq([lines : Lines, offers : CatalogStates])]
  /\ outbox \in [People -> Seq(Event)]
  /\ catalog \in CatalogStates
  /\ session \in [Chats -> Request \cup {None}]
  /\ dialog \in [Chats -> Dialogs]

\* However many first additions race, one CartCreated is announced, before
\* anything else about the cart, and only for a cart that was written
\* (CartProvider.current_or_new and its withdrawal).
CreatedIsReal ==
  \A u \in People :
    /\ cart[u] = None => outbox[u] = <<>>
    /\ cart[u] # None =>
         /\ outbox[u] # <<>>
         /\ \A i \in DOMAIN outbox[u] : outbox[u][i] = CartCreated <=> i = 1

Latest(u) == orders[u][Len(orders[u])]

\* The order just placed from a chat has the line count and the total its
\* confirmation screen showed, at the prices copied into it, whatever the
\* catalog and the other chats did meanwhile (_ensure_not_repriced).
ChargedAsShown ==
  [][\A c \in Chats :
       /\ orders'[Owner[c]] # orders[Owner[c]]
       /\ session'[c] # session[c]
       => dialog[c].shown = Screen(Latest(Owner[c])'.lines, Latest(Owner[c])'.offers)]_vars

\* Checkout empties the lines it ordered and no other: what another chat put
\* into the cart after it was read is still there (Cart.clear under the unit
\* of work).
CheckoutTakesOnlyWhatItOrders ==
  [][\A u \in People : orders'[u] # orders[u] =>
       \A p \in Products :
         by_user_id(u)'[p] = IF p \in In(Latest(u)'.lines) THEN 0 ELSE by_user_id(u)[p]]_vars

\* A cart never holds more different products than the limit (add_item).
\* Holds when nobody uses one cart from two chats.
LineLimit == \A u \in People : line_count(by_user_id(u)) <= MAX_CART_LINES

About(event, p) ==
  \/ event.type = "CartCleared"
  \/ /\ event.type \in {"CartItemAdded", "CartItemQuantityChanged", "CartItemRemoved"}
     /\ event.product_id = p

Says(event) == IF event.type = "CartCleared" THEN 0 ELSE event.quantity

\* A reader of the outbox can tell what is in the cart: the quantity of a
\* product is the one in the last event about it, and there is none when no
\* event was about it (the events of Cart).  Holds when nobody uses one cart
\* from two chats.
OutboxTellsTheCart ==
  \A u \in People, p \in Products :
    LET about == {i \in DOMAIN outbox[u] : About(outbox[u][i], p)}
    IN  /\ about = {} => by_user_id(u)[p] = 0
        /\ \A i \in about :
             (\A j \in about : j <= i) => by_user_id(u)[p] = Says(outbox[u][i])

Placements(u) == {i \in DOMAIN outbox[u] : outbox[u][i] = OrderPlaced}

Additions(u) == {i \in DOMAIN outbox[u] : outbox[u][i].type = "CartItemAdded"}

\* Nobody is sold one cart twice: between two orders of a person something
\* was put into the cart again, also when the process died after the commit
\* and the confirmation was tapped once more (on_confirmed).
RefilledBetweenOrders ==
  \A u \in People : \A i, j \in Placements(u) :
    i < j => \E k \in Additions(u) : i < k /\ k < j

\* A chat that is told its order is already placed has an order placed, and
\* nothing was put into the cart since (on_confirmed).
AlreadyPlacedIsTrue ==
  [][\A c \in Chats :
       /\ dialog'[c].window = "already_placed"
       /\ dialog[c].window # "already_placed"
       => \E i \in Placements(Owner[c]) : \A k \in Additions(Owner[c]) : k < i]_vars

Contract ==
  INSTANCE CartContract
    WITH cart   <- [u \in People |-> by_user_id(u)],
         placed <- [u \in People |-> [i \in DOMAIN orders[u] |-> orders[u][i].lines]]

\* Sessions, screens and a moving catalog disturb none of what the cart
\* promises, as long as nobody uses one cart from two chats.
ImplementsContract == Contract!Spec

\* Nobody uses one cart from two chats.
OneChat == \A c, d \in Chats : Owner[c] = Owner[d] => c = d
=============================================================================
