------------------------- MODULE CartCheckoutProofs -------------------------
(***************************************************************************)
(* Theorems about CartCheckout, for any people, chats, products and        *)
(* offers.  Every change of a cart goes through Commit, with one of five   *)
(* effects on the lines that were read; CommandEffects says so once.  The  *)
(* theorems about a cart that is used from one chat rest on ReadsAreFresh: *)
(* what a session has read is still what the table holds.                  *)
(***************************************************************************)
EXTENDS CartCheckout, FiniteSetTheorems, SequenceTheorems, TLAPS

\* Something more of a product.
Puts(seen, after, events) ==
  \E p \in Products, n \in 1..MAX_QUANTITY :
    /\ CanAdd(seen, p, n)
    /\ after = [seen EXCEPT ![p] = @ + n]
    /\ events = <<CartItem("CartItemAdded", p, seen[p] + n)>>

\* One line set to another quantity, 0 when it is taken out.
Changes(seen, after, events) ==
  \E p \in In(seen), n \in 0..MAX_QUANTITY,
     type \in {"CartItemQuantityChanged", "CartItemRemoved"} :
    /\ after = [seen EXCEPT ![p] = n]
    /\ events = <<CartItem(type, p, n)>>

\* The lines of some products taken out.
Sweeps(seen, after, events) ==
  \E gone \in SUBSET In(seen) :
    /\ after = remove_items(seen, gone)
    /\ events \in Removals(gone)

Clears(seen, after, events) ==
  /\ after = NoLines
  /\ events = ClearEvents(seen)

\* The cart becomes an order.
Sells(seen, after, events) ==
  /\ In(seen) # {}
  /\ after = NoLines
  /\ events = <<OrderPlaced, CartCleared>>

Keeps(seen, after, events) ==
  \/ Puts(seen, after, events)
  \/ Changes(seen, after, events)
  \/ Sweeps(seen, after, events)
  \/ Clears(seen, after, events)

\* The session has its copy of the cart.
HasCart(c) == session[c] # None /\ session[c].stage \in {"loaded", "informed"}

\* The six commands that change the cart and place no order.
CartCommand(c) ==
  \/ AddToCart(c)
  \/ DecreaseCartLine(c)
  \/ SetCartLineQuantity(c)
  \/ RemoveCartLine(c)
  \/ ClearCart(c)
  \/ RemoveUnavailableCartLines(c)

\* The steps of a chat that only read.
Reads(c) ==
  \/ Load(c)
  \/ CreateCart(c)
  \/ InsertCart(c)
  \/ LoseInsert(c)
  \/ ReadCatalog(c)
-----------------------------------------------------------------------------
LEMMA LinesType ==
  ASSUME TypeOK, NEW u \in People
  PROVE  /\ by_user_id(u) \in Lines
         /\ cart[u] # None => cart[u] \in Lines /\ by_user_id(u) = cart[u]
<1>1. NoLines \in Lines
  BY CartAssumption DEF NoLines, Lines
<1> QED
  BY <1>1 DEF TypeOK, by_user_id

LEMMA ConfirmationType ==
  ASSUME TypeOK, NEW u \in People
  PROVE  Confirmation(u) \in Dialogs
<1>1. by_user_id(u) \in Lines /\ catalog \in CatalogStates
  BY LinesType DEF TypeOK
<1>2. Screen(by_user_id(u), catalog) \in Screens
  BY <1>1 DEF Screens
<1> QED
  BY <1>2 DEF Confirmation, Dialogs

\* A session that has its cart has read lines, and serves a command with the
\* parameters of its kind.
LEMMA RequestTypes ==
  ASSUME TypeOK, NEW c \in Chats, session[c] # None
  PROVE  LET q == session[c]
         IN  /\ Owner[c] \in People
             /\ q \in Request
             /\ q.seen \in Lines
             /\ q.events \in Seq({CartCreated})
             /\ q.command.kind \in {"AddToCart", "SetCartLineQuantity"} =>
                  /\ q.command.product_id \in Products
                  /\ q.command.quantity \in 1..MAX_QUANTITY
             /\ q.command.kind \in {"DecreaseCartLine", "RemoveCartLine"} =>
                  q.command.product_id \in Products
<1>1. Owner[c] \in People
  BY CartAssumption
<1>2. session[c] \in Request
  BY DEF TypeOK
<1> QED
  BY <1>1, <1>2 DEF Request, Command

\* Each command that is not refused commits one of the effects.
LEMMA CommandEffects ==
  ASSUME TypeOK, NEW c \in Chats, CartCommand(c)
  PROVE  /\ HasCart(c)
         /\ UNCHANGED <<orders, dialog>>
         /\ \E after, events :
              Commit(c, after, events) /\ Keeps(session[c].seen, after, events)
<1> DEFINE q    == session[c]
           seen == session[c].seen
           p    == session[c].command.product_id
           n    == session[c].command.quantity
<1>1. HasCart(c) /\ UNCHANGED <<orders, dialog>>
  BY DEF CartCommand, AddToCart, DecreaseCartLine, SetCartLineQuantity, RemoveCartLine,
         ClearCart, RemoveUnavailableCartLines, Serving, HasCart
<1>2. seen \in Lines
  BY <1>1, RequestTypes DEF HasCart
<1>3. CASE AddToCart(c)
  <2>1. p \in Products /\ n \in 1..MAX_QUANTITY
    BY <1>1, <1>3, RequestTypes DEF AddToCart, Serving, HasCart
  <2> DEFINE after  == add_item(seen, p, n)
             events == <<CartItem("CartItemAdded", p, seen[p] + n)>>
  <2>2. Commit(c, after, events)
    BY <1>3 DEF AddToCart
  <2>3. Puts(seen, after, events)
    BY <1>3, <2>1 DEF AddToCart, Puts, add_item
  <2> QED
    BY <1>1, <2>2, <2>3 DEF Keeps
<1>4. CASE DecreaseCartLine(c)
  <2>1. p \in In(seen) /\ seen[p] \in 1..MAX_QUANTITY
    BY <1>2, <1>4, CartAssumption DEF DecreaseCartLine, In, Lines
  <2> DEFINE after  == decrease_item(seen, p)
             events == DecreaseEvents(seen, p)
  <2>2. Commit(c, after, events)
    BY <1>4 DEF DecreaseCartLine
  <2>3. after = [seen EXCEPT ![p] = seen[p] - 1] /\ seen[p] - 1 \in 0..MAX_QUANTITY
    BY <2>1, CartAssumption DEF decrease_item
  <2>4. \E type \in {"CartItemQuantityChanged", "CartItemRemoved"} :
          events = <<CartItem(type, p, seen[p] - 1)>>
    BY <2>1 DEF DecreaseEvents
  <2>5. Changes(seen, after, events)
    BY <2>1, <2>3, <2>4 DEF Changes
  <2> QED
    BY <1>1, <2>2, <2>5 DEF Keeps
<1>5. CASE SetCartLineQuantity(c)
  <2>1. p \in In(seen) /\ n \in 0..MAX_QUANTITY
    BY <1>1, <1>5, RequestTypes DEF SetCartLineQuantity, Serving, HasCart
  <2> DEFINE after  == set_item_quantity(seen, p, n)
             events == <<CartItem("CartItemQuantityChanged", p, n)>>
  <2>2. Commit(c, after, events)
    BY <1>5 DEF SetCartLineQuantity
  <2>3. Changes(seen, after, events)
    BY <2>1 DEF Changes, set_item_quantity
  <2> QED
    BY <1>1, <2>2, <2>3 DEF Keeps
<1>6. CASE RemoveCartLine(c)
  <2>1. p \in In(seen)
    BY <1>6 DEF RemoveCartLine
  <2> DEFINE after  == remove_items(seen, {p})
             events == <<CartItem("CartItemRemoved", p, 0)>>
  <2>2. Commit(c, after, events)
    BY <1>6 DEF RemoveCartLine
  <2>3. after = [seen EXCEPT ![p] = 0]
    BY <1>2, <2>1 DEF remove_items, Lines
  <2>4. Changes(seen, after, events)
    BY <2>1, <2>3, CartAssumption DEF Changes
  <2> QED
    BY <1>1, <2>2, <2>4 DEF Keeps
<1>7. CASE ClearCart(c)
  <2>1. Commit(c, NoLines, ClearEvents(seen))
    BY <1>7 DEF ClearCart, clear
  <2> QED
    BY <1>1, <2>1 DEF Keeps, Clears
<1>8. CASE RemoveUnavailableCartLines(c)
  <2> DEFINE gone == {x \in In(seen) : ~IsListed(q.offers, x)}
  <2>1. PICK events \in Removals(gone) : Commit(c, remove_items(seen, gone), events)
    BY <1>8 DEF RemoveUnavailableCartLines
  <2>2. Sweeps(seen, remove_items(seen, gone), events)
    BY <2>1 DEF Sweeps
  <2> QED
    BY <1>1, <2>1, <2>2 DEF Keeps
<1> QED
  BY <1>3, <1>4, <1>5, <1>6, <1>7, <1>8 DEF CartCommand

\* Checkout commits the sale of what the session read, at the prices it read.
LEMMA PlaceOrderEffect ==
  ASSUME TypeOK, NEW c \in Chats, PlaceOrder(c)
  PROVE  /\ HasCart(c)
         /\ session[c].command.kind = "PlaceOrder"
         /\ session[c].offers \in CatalogStates
         /\ Commit(c, NoLines, <<OrderPlaced, CartCleared>>)
         /\ Sells(session[c].seen, NoLines, <<OrderPlaced, CartCleared>>)
         /\ dialog' = dialog \/ dialog' = [dialog EXCEPT ![c] = Elsewhere]
<1>1. /\ HasCart(c)
      /\ session[c].command.kind = "PlaceOrder"
      /\ session[c].stage = "informed"
  BY DEF PlaceOrder, Serving, HasCart
<1>2. Commit(c, NoLines, <<OrderPlaced, CartCleared>>)
  BY DEF PlaceOrder, CheckoutLeaves, clear
<1>3. In(session[c].seen) # {} /\ session[c].offers \in CatalogStates
  BY <1>1, RequestTypes DEF HasCart, Request, PlaceOrder, can_checkout
<1> QED
  BY <1>1, <1>2, <1>3 DEF Sells, PlaceOrder

\* What an effect leaves is a cart, and what it announces are events.
LEMMA EffectTypes ==
  ASSUME NEW seen \in Lines, NEW after, NEW events,
         Keeps(seen, after, events) \/ Sells(seen, after, events)
  PROVE  after \in Lines /\ events \in Seq(Event)
<1>1. NoLines \in Lines
  BY CartAssumption DEF NoLines, Lines
<1>2. /\ CartCleared \in Event
      /\ OrderPlaced \in Event
      /\ \A type \in {"CartItemAdded", "CartItemQuantityChanged", "CartItemRemoved"} :
           \A p \in Products, n \in 0..MAX_QUANTITY : CartItem(type, p, n) \in Event
  BY DEF Event, CartCleared, OrderPlaced, CartItem
<1>3. CASE Puts(seen, after, events)
  <2>1. PICK p \in Products, n \in 1..MAX_QUANTITY :
          /\ CanAdd(seen, p, n)
          /\ after = [seen EXCEPT ![p] = @ + n]
          /\ events = <<CartItem("CartItemAdded", p, seen[p] + n)>>
    BY <1>3 DEF Puts
  <2>2. seen[p] + n \in 0..MAX_QUANTITY
    BY <2>1, CartAssumption DEF CanAdd, Lines
  <2>3. after \in Lines
    BY <2>1, <2>2 DEF Lines
  <2> QED
    BY <1>2, <2>1, <2>2, <2>3
<1>4. CASE Changes(seen, after, events)
  <2>1. PICK p \in In(seen), n \in 0..MAX_QUANTITY,
             type \in {"CartItemQuantityChanged", "CartItemRemoved"} :
          /\ after = [seen EXCEPT ![p] = n]
          /\ events = <<CartItem(type, p, n)>>
    BY <1>4 DEF Changes
  <2>2. after \in Lines
    BY <2>1 DEF Lines
  <2>3. CartItem(type, p, n) \in Event
    BY <1>2, <2>1 DEF In
  <2> QED
    BY <2>1, <2>2, <2>3
<1>5. CASE Sweeps(seen, after, events)
  <2>1. PICK gone \in SUBSET In(seen) :
          after = remove_items(seen, gone) /\ events \in Removals(gone)
    BY <1>5 DEF Sweeps
  <2>2. after \in Lines
    BY <2>1, CartAssumption DEF remove_items, Lines
  <2>3. Cardinality(gone) \in Nat
    BY <2>1, CartAssumption, FS_Subset, FS_CardinalityType DEF In
  <2>4. events \in [1..Cardinality(gone) -> Event]
    BY <1>2, <2>1, CartAssumption DEF Removals, In
  <2> QED
    BY <2>2, <2>3, <2>4
<1>6. CASE Clears(seen, after, events)
  BY <1>1, <1>2, <1>6 DEF Clears, ClearEvents
<1>7. CASE Sells(seen, after, events)
  BY <1>1, <1>2, <1>7 DEF Sells
<1> QED
  BY <1>3, <1>4, <1>5, <1>6, <1>7 DEF Keeps

\* What a commit does to the cart and the outbox of the owner of the chat.
LEMMA CommitTypes ==
  ASSUME TypeOK, NEW c \in Chats, HasCart(c), NEW after \in Lines,
         NEW events \in Seq(Event), Commit(c, after, events)
  PROVE  LET u   == Owner[c]
             now == Flush(session[c].seen, after, by_user_id(u))
             all == session[c].events \o events
         IN  /\ now \in Lines
             /\ all \in Seq(Event)
             /\ cart'    = [cart EXCEPT ![u] = now]
             /\ outbox'  = [outbox EXCEPT ![u] = @ \o all]
             /\ session' = [session EXCEPT ![c] = None]
             /\ catalog' = catalog
             /\ cart' \in [People -> Lines \cup {None}]
             /\ outbox' \in [People -> Seq(Event)]
             /\ session' \in [Chats -> Request \cup {None}]
             /\ catalog' \in CatalogStates
<1> DEFINE u   == Owner[c]
           now == Flush(session[c].seen, after, by_user_id(u))
           all == session[c].events \o events
<1>1. u \in People /\ session[c].seen \in Lines /\ session[c].events \in Seq({CartCreated})
  BY RequestTypes DEF HasCart
<1>2. by_user_id(u) \in Lines
  BY <1>1, LinesType
<1>3. now \in Lines
  BY <1>1, <1>2 DEF Flush, Lines
<1>4. session[c].events \in Seq(Event)
  <2>1. CartCreated \in Event
    BY DEF CartCreated, Event
  <2> QED
    BY <1>1, <2>1
<1>5. all \in Seq(Event) /\ outbox[u] \in Seq(Event)
  BY <1>1, <1>4 DEF TypeOK
<1>6. outbox' = [outbox EXCEPT ![u] = @ \o all]
  BY DEF Commit
<1>7. outbox[u] \o all \in Seq(Event)
  BY <1>5
<1>8. /\ cart'    = [cart EXCEPT ![u] = now]
      /\ session' = [session EXCEPT ![c] = None]
      /\ catalog' = catalog
  BY DEF Commit
<1>9. cart' \in [People -> Lines \cup {None}] /\ outbox' \in [People -> Seq(Event)]
  BY <1>1, <1>3, <1>6, <1>7, <1>8 DEF TypeOK
<1>10. session' \in [Chats -> Request \cup {None}] /\ catalog' \in CatalogStates
  BY <1>8 DEF TypeOK
<1> QED
  BY <1>3, <1>5, <1>6, <1>8, <1>9, <1>10
-----------------------------------------------------------------------------
\* A step that only reads leaves a well-formed session behind.
LEMMA ReadTypes ==
  ASSUME TypeOK, NEW c \in Chats, Reads(c)
  PROVE  session' \in [Chats -> Request \cup {None}]
<1>1. session[c] # None /\ session[c] \in Request
  BY DEF TypeOK, Reads, Load, CreateCart, InsertCart, LoseInsert, ReadCatalog
<1>2. Owner[c] \in People
  BY CartAssumption
<1>3. cart[Owner[c]] # None => cart[Owner[c]] \in Lines
  BY <1>2, LinesType
<1>4. <<CartCreated>> \in Seq({CartCreated}) /\ <<>> \in Seq({CartCreated})
  OBVIOUS
<1>5. catalog \in CatalogStates
  BY DEF TypeOK
<1> DEFINE q == session[c]
<1>6. CASE Load(c)
  <2>1. [q EXCEPT !.stage = "loaded", !.seen = cart[Owner[c]]] \in Request
    BY <1>1, <1>3, <1>6 DEF Load, Request
  <2> QED
    BY <1>6, <2>1 DEF Load, TypeOK
<1>7. CASE CreateCart(c)
  <2>1. [q EXCEPT !.stage = "creating", !.events = <<CartCreated>>] \in Request
    BY <1>1, <1>4, <1>7 DEF CreateCart, Request
  <2> QED
    BY <1>7, <2>1 DEF CreateCart, TypeOK
<1>8. CASE InsertCart(c)
  <2>1. [q EXCEPT !.stage = "loaded", !.created = TRUE] \in Request
    BY <1>1, <1>8 DEF InsertCart, Request
  <2> QED
    BY <1>8, <2>1 DEF InsertCart, TypeOK
<1>9. CASE LoseInsert(c)
  <2>1. [q EXCEPT !.stage = "loaded", !.seen = cart[Owner[c]], !.events = <<>>] \in Request
    BY <1>1, <1>3, <1>4, <1>9 DEF LoseInsert, Request
  <2> QED
    BY <1>9, <2>1 DEF LoseInsert, WithdrawCreation, TypeOK
<1>10. CASE ReadCatalog(c)
  <2>1. [q EXCEPT !.stage = "informed", !.offers = catalog] \in Request
    BY <1>1, <1>5, <1>10 DEF ReadCatalog, Request
  <2> QED
    BY <1>10, <2>1 DEF ReadCatalog, TypeOK
<1> QED
  BY <1>6, <1>7, <1>8, <1>9, <1>10 DEF Reads

\* A tap begins a command with well-formed parameters.
LEMMA RequestsBegin ==
  ASSUME TypeOK, NEW c \in Chats,
         RequestAdd(c) \/ RequestChange(c) \/ RequestOrder(c)
  PROVE  \E command \in Command :
           /\ Begin(c, command)
           /\ \/ /\ command.kind # "PlaceOrder"
                 /\ dialog' = [dialog EXCEPT ![c] = Elsewhere]
              \/ /\ command.kind = "PlaceOrder"
                 /\ dialog[c].window = "confirm"
                 /\ command.expected = dialog[c].shown
                 /\ dialog' = dialog
<1>1. CASE RequestAdd(c)
  <2>1. PICK p \in Products, n \in 1..MAX_QUANTITY :
          /\ Begin(c, [kind |-> "AddToCart", product_id |-> p, quantity |-> n])
          /\ dialog' = [dialog EXCEPT ![c] = Elsewhere]
    BY <1>1 DEF RequestAdd
  <2>2. [kind |-> "AddToCart", product_id |-> p, quantity |-> n] \in Command
    BY DEF Command
  <2> QED
    BY <2>1, <2>2
<1>2. CASE RequestChange(c)
  <2>1. \E command \in Command : Begin(c, command) /\ command.kind # "PlaceOrder"
    <3>1. CASE \E p \in Products, n \in 1..MAX_QUANTITY :
                 Begin(c, [kind |-> "SetCartLineQuantity", product_id |-> p, quantity |-> n])
      BY <3>1 DEF Command
    <3>2. CASE \E p \in Products, kind \in {"DecreaseCartLine", "RemoveCartLine"} :
                 Begin(c, [kind |-> kind, product_id |-> p])
      BY <3>2 DEF Command
    <3>3. CASE \E kind \in {"ClearCart", "RemoveUnavailableCartLines"} :
                 Begin(c, [kind |-> kind])
      BY <3>3 DEF Command
    <3> QED
      BY <1>2, <3>1, <3>2, <3>3 DEF RequestChange
  <2> QED
    BY <1>2, <2>1 DEF RequestChange
<1>3. CASE RequestOrder(c)
  <2>1. dialog[c] \in Dialogs /\ dialog[c].window = "confirm"
    BY <1>3 DEF RequestOrder, TypeOK
  <2>2. dialog[c].shown \in Screens
    BY <2>1 DEF Dialogs
  <2>3. [kind |-> "PlaceOrder", expected |-> dialog[c].shown] \in Command
    BY <2>2 DEF Command
  <2> QED
    BY <1>3, <2>1, <2>3 DEF RequestOrder
<1> QED
  BY <1>1, <1>2, <1>3

LEMMA BeginTypes ==
  ASSUME TypeOK, NEW c \in Chats, NEW command \in Command, Begin(c, command)
  PROVE  session' \in [Chats -> Request \cup {None}]
<1> DEFINE q == [command |-> command, stage |-> "requested", seen |-> NoLines,
                 offers |-> None, created |-> FALSE, events |-> <<>>]
<1>1. NoLines \in Lines
  BY CartAssumption DEF NoLines, Lines
<1>2. <<>> \in Seq({CartCreated})
  OBVIOUS
<1>3. q \in Request
  BY <1>1, <1>2 DEF Request
<1> QED
  BY <1>3 DEF Begin, TypeOK

\* The steps of a chat, grouped by what they may change.
LEMMA ChatSteps ==
  ASSUME NEW c \in Chats, ChatStep(c)
  PROVE  \/ OpenCheckout(c) \/ ShowConfirmation(c)
         \/ RequestAdd(c) \/ RequestChange(c) \/ RequestOrder(c)
         \/ Reads(c)
         \/ CartCommand(c)
         \/ PlaceOrder(c)
         \/ AlreadyPlaced(c) \/ RollBack(c)
BY DEF ChatStep, Reads, CartCommand

\* Every reachable state is well typed: no line above the ceiling, no order
\* without a price list, no command without its parameters.
THEOREM TypeCorrect == Spec => []TypeOK
<1>1. Init => TypeOK
  <2> SUFFICES ASSUME Init PROVE TypeOK
    OBVIOUS
  <2>1. Elsewhere \in Dialogs
    BY DEF Elsewhere, Dialogs
  <2> QED
    BY <2>1 DEF Init, TypeOK
<1>2. TypeOK /\ [Next]_vars => TypeOK'
  <2> SUFFICES ASSUME TypeOK, [Next]_vars PROVE TypeOK'
    OBVIOUS
  <2>1. ASSUME NEW p \in Products, NEW offer \in Offers, Import(p, offer)
        PROVE  TypeOK'
    <3>1. catalog' \in CatalogStates
      BY <2>1 DEF Import, TypeOK, CatalogStates
    <3> QED
      BY <2>1, <3>1 DEF Import, TypeOK
  <2>2. ASSUME NEW c \in Chats, OpenCheckout(c) \/ ShowConfirmation(c)
        PROVE  TypeOK'
    <3>1. Owner[c] \in People
      BY CartAssumption
    <3>2. /\ Confirmation(Owner[c]) \in Dialogs
          /\ [window |-> "filling", shown |-> None] \in Dialogs
      BY <3>1, ConfirmationType DEF Dialogs
    <3>3. dialog' \in [Chats -> Dialogs]
      BY <2>2, <3>2 DEF OpenCheckout, ShowConfirmation, TypeOK
    <3> QED
      BY <2>2, <3>3 DEF OpenCheckout, ShowConfirmation, TypeOK
  <2>3. ASSUME NEW c \in Chats, RequestAdd(c) \/ RequestChange(c) \/ RequestOrder(c)
        PROVE  TypeOK'
    <3>1. PICK command \in Command :
            /\ Begin(c, command)
            /\ dialog' = [dialog EXCEPT ![c] = Elsewhere] \/ dialog' = dialog
      BY <2>3, RequestsBegin
    <3>2. session' \in [Chats -> Request \cup {None}]
      BY <3>1, BeginTypes
    <3>3. dialog' \in [Chats -> Dialogs]
      <4>1. Elsewhere \in Dialogs
        BY DEF Elsewhere, Dialogs
      <4> QED
        BY <3>1, <4>1 DEF TypeOK
    <3> QED
      BY <3>1, <3>2, <3>3 DEF Begin, TypeOK
  <2>4. ASSUME NEW c \in Chats, Reads(c)
        PROVE  TypeOK'
    <3>1. session' \in [Chats -> Request \cup {None}]
      BY <2>4, ReadTypes
    <3>2. UNCHANGED <<cart, orders, outbox, catalog, dialog>>
      BY <2>4 DEF Reads, Load, CreateCart, InsertCart, LoseInsert, ReadCatalog
    <3> QED
      BY <3>1, <3>2 DEF TypeOK
  <2>5. ASSUME NEW c \in Chats, CartCommand(c)
        PROVE  TypeOK'
    <3>1. HasCart(c) /\ UNCHANGED <<orders, dialog>>
      BY <2>5, CommandEffects
    <3>2. PICK after, events :
            Commit(c, after, events) /\ Keeps(session[c].seen, after, events)
      BY <2>5, CommandEffects
    <3>3. after \in Lines /\ events \in Seq(Event)
      BY <3>1, <3>2, RequestTypes, EffectTypes DEF HasCart
    <3> QED
      BY <3>1, <3>2, <3>3, CommitTypes DEF TypeOK
  <2>6. ASSUME NEW c \in Chats, PlaceOrder(c)
        PROVE  TypeOK'
    <3> DEFINE events == <<OrderPlaced, CartCleared>>
               sold   == [lines |-> session[c].seen, offers |-> session[c].offers]
    <3>1. /\ HasCart(c)
          /\ session[c].offers \in CatalogStates
          /\ Commit(c, NoLines, events)
          /\ Sells(session[c].seen, NoLines, events)
          /\ dialog' = dialog \/ dialog' = [dialog EXCEPT ![c] = Elsewhere]
      BY <2>6, PlaceOrderEffect
    <3>2. session[c].seen \in Lines /\ Owner[c] \in People
      BY <3>1, RequestTypes DEF HasCart
    <3>3. NoLines \in Lines /\ events \in Seq(Event)
      BY <3>1, <3>2, EffectTypes
    <3>4. dialog' \in [Chats -> Dialogs]
      <4>1. Elsewhere \in Dialogs
        BY DEF Elsewhere, Dialogs
      <4> QED
        BY <3>1, <4>1 DEF TypeOK
    <3>5. Append(orders[Owner[c]], sold) \in Seq([lines : Lines, offers : CatalogStates])
      <4> DEFINE Sold == [lines : Lines, offers : CatalogStates]
      <4>1. sold \in Sold
        BY <3>1, <3>2
      <4>2. orders[Owner[c]] \in Seq(Sold)
        BY <3>2 DEF TypeOK
      <4> HIDE DEF Sold, sold
      <4>3. Append(orders[Owner[c]], sold) \in Seq(Sold)
        BY <4>1, <4>2
      <4> QED
        BY <4>3 DEF Sold
    <3>6. orders' = [orders EXCEPT ![Owner[c]] = Append(orders[Owner[c]], sold)]
      BY <2>6 DEF PlaceOrder
    <3>7. orders' \in [People -> Seq([lines : Lines, offers : CatalogStates])]
      BY <3>5, <3>6 DEF TypeOK
    <3> QED
      BY <3>1, <3>3, <3>4, <3>7, CommitTypes DEF TypeOK
  <2>7. ASSUME NEW c \in Chats, AlreadyPlaced(c) \/ RollBack(c)
        PROVE  TypeOK'
    <3>1. Owner[c] \in People
      BY CartAssumption
    <3>2. /\ Confirmation(Owner[c]) \in Dialogs
          /\ [window |-> "already_placed", shown |-> None] \in Dialogs
      BY <3>1, ConfirmationType DEF Dialogs
    <3>3. dialog' \in [Chats -> Dialogs]
      BY <2>7, <3>2 DEF AlreadyPlaced, RollBack, TypeOK
    <3>4. session' \in [Chats -> Request \cup {None}]
      BY <2>7 DEF AlreadyPlaced, RollBack, TypeOK
    <3> QED
      BY <2>7, <3>3, <3>4 DEF AlreadyPlaced, RollBack, TypeOK
  <2>8. CASE UNCHANGED vars
    BY <2>8 DEF vars, TypeOK
  <2> QED
    BY <2>1, <2>2, <2>3, <2>4, <2>5, <2>6, <2>7, <2>8, ChatSteps DEF Next
<1> QED
  BY <1>1, <1>2, PTL DEF Spec
-----------------------------------------------------------------------------
(* The parts of the inductive invariants. *)

\* How far a session has come with its cart: nothing recorded before it read,
\* the creation recorded exactly by the session whose insert is not committed.
Creation ==
  \A c \in Chats : session[c] # None =>
    /\ session[c].stage = "requested" => session[c].events = <<>>
    /\ session[c].stage = "creating" => session[c].events = <<CartCreated>>
    /\ session[c].created =>
         HasCart(c) /\ cart[Owner[c]] = None /\ session[c].events = <<CartCreated>>
    /\ HasCart(c) /\ ~session[c].created =>
         cart[Owner[c]] # None /\ session[c].events = <<>>

\* The unique index: one uncommitted cart of a person at a time.
OneInsert ==
  \A c, d \in Chats :
    /\ Owner[c] = Owner[d]
    /\ session[c] # None /\ session[c].created
    /\ session[d] # None /\ session[d].created
    => c = d

\* A confirmation is handled while its screen is up; any other command has
\* left the checkout dialog.
Asked ==
  \A c \in Chats : session[c] # None =>
    IF session[c].command.kind = "PlaceOrder"
      THEN /\ dialog[c].window = "confirm"
           /\ dialog[c].shown = session[c].command.expected
      ELSE dialog[c] = Elsewhere

\* What a session has read is what the table holds (one chat per cart).
ReadsAreFresh ==
  \A c \in Chats : session[c] # None =>
    IF HasCart(c) THEN session[c].seen = by_user_id(Owner[c])
                  ELSE session[c].seen = NoLines

\* A cart with something in it was filled after the last order.
Stocked ==
  \A u \in People :
    In(by_user_id(u)) # {} => \A i \in Placements(u) : \E k \in Additions(u) : i < k

\* A checkout dialog over an empty cart means the order went through.
EmptiedByOrder ==
  \A c \in Chats :
    /\ dialog[c].window \in {"filling", "confirm"}
    /\ In(by_user_id(Owner[c])) = {}
    => \E i \in Placements(Owner[c]) : \A k \in Additions(Owner[c]) : k < i
-----------------------------------------------------------------------------
(* What the effects announce. *)

\* Every commit of a session, whatever its command.
LEMMA Committed ==
  ASSUME TypeOK, NEW c \in Chats, CartCommand(c) \/ PlaceOrder(c)
  PROVE  /\ HasCart(c)
         /\ session[c].seen \in Lines
         /\ \E after \in Lines, events \in Seq(Event) :
              /\ Commit(c, after, events)
              /\ \/ CartCommand(c) /\ Keeps(session[c].seen, after, events)
                 \/ PlaceOrder(c) /\ Sells(session[c].seen, after, events)
<1>1. HasCart(c)
  BY CommandEffects, PlaceOrderEffect
<1>2. session[c].seen \in Lines
  BY <1>1, RequestTypes DEF HasCart
<1>3. CASE CartCommand(c)
  <2>1. PICK after, events :
          Commit(c, after, events) /\ Keeps(session[c].seen, after, events)
    BY <1>3, CommandEffects
  <2>2. after \in Lines /\ events \in Seq(Event)
    BY <1>2, <2>1, EffectTypes
  <2> QED
    BY <1>1, <1>2, <1>3, <2>1, <2>2
<1>4. CASE PlaceOrder(c)
  <2>1. /\ Commit(c, NoLines, <<OrderPlaced, CartCleared>>)
        /\ Sells(session[c].seen, NoLines, <<OrderPlaced, CartCleared>>)
    BY <1>4, PlaceOrderEffect
  <2>2. NoLines \in Lines /\ <<OrderPlaced, CartCleared>> \in Seq(Event)
    BY <1>2, <2>1, EffectTypes
  <2> QED
    BY <1>1, <1>2, <1>4, <2>1, <2>2
<1> QED
  BY <1>3, <1>4

\* The events of a sweep: one removal for each product that is gone.
LEMMA SweepEvents ==
  ASSUME NEW gone \in SUBSET Products, NEW events \in Removals(gone)
  PROVE  /\ \A i \in DOMAIN events :
              /\ events[i].type = "CartItemRemoved"
              /\ events[i].product_id \in gone
              /\ events[i].quantity = 0
         /\ \A p \in gone : \E i \in DOMAIN events : events[i].product_id = p
BY DEF Removals, CartItem

\* A command that places no order announces none, and the cart gets a new
\* line only with an addition.
LEMMA EffectEvents ==
  ASSUME NEW seen \in Lines, NEW after \in Lines, NEW events \in Seq(Event),
         Keeps(seen, after, events)
  PROVE  /\ \A i \in DOMAIN events : events[i].type \notin {"CartCreated", "OrderPlaced"}
         /\ \/ In(after) \subseteq In(seen)
            \/ \E i \in DOMAIN events : events[i].type = "CartItemAdded"
<1>1. CASE Puts(seen, after, events)
  <2>1. PICK p \in Products, n \in 1..MAX_QUANTITY :
          events = <<CartItem("CartItemAdded", p, seen[p] + n)>>
    BY <1>1 DEF Puts
  <2>2. DOMAIN events = {1} /\ events[1].type = "CartItemAdded"
    BY <2>1 DEF CartItem
  <2> QED
    BY <2>2
<1>2. CASE Changes(seen, after, events)
  <2>1. PICK p \in In(seen), n \in 0..MAX_QUANTITY,
             type \in {"CartItemQuantityChanged", "CartItemRemoved"} :
          /\ after = [seen EXCEPT ![p] = n]
          /\ events = <<CartItem(type, p, n)>>
    BY <1>2 DEF Changes
  <2>2. DOMAIN events = {1} /\ events[1].type = type
    BY <2>1 DEF CartItem
  <2>3. In(after) \subseteq In(seen)
    BY <2>1 DEF In, Lines
  <2> QED
    BY <2>1, <2>2, <2>3
<1>3. CASE Sweeps(seen, after, events)
  <2>1. PICK gone \in SUBSET In(seen) :
          after = remove_items(seen, gone) /\ events \in Removals(gone)
    BY <1>3 DEF Sweeps
  <2>2. \A i \in DOMAIN events : events[i].type = "CartItemRemoved"
    BY <2>1, SweepEvents DEF In
  <2>3. In(after) \subseteq In(seen)
    BY <2>1, CartAssumption DEF In, Lines, remove_items
  <2> QED
    BY <2>2, <2>3
<1>4. CASE Clears(seen, after, events)
  <2>1. events = <<>> \/ events = <<CartCleared>>
    BY <1>4 DEF Clears, ClearEvents
  <2>2. In(after) = {}
    BY <1>4 DEF Clears, In, NoLines
  <2> QED
    BY <2>1, <2>2 DEF CartCleared
<1> QED
  BY <1>1, <1>2, <1>3, <1>4 DEF Keeps

LEMMA SaleEvents ==
  ASSUME NEW seen \in Lines, NEW after, NEW events, Sells(seen, after, events)
  PROVE  /\ DOMAIN events = {1, 2}
         /\ events[1] = OrderPlaced
         /\ events[1].type = "OrderPlaced"
         /\ events[2].type = "CartCleared"
         /\ In(after) = {}
<1>1. events = <<OrderPlaced, CartCleared>> /\ after = NoLines
  BY DEF Sells
<1>2. DOMAIN events = {1, 2} /\ events[1] = OrderPlaced /\ events[2] = CartCleared
  BY <1>1
<1>3. In(NoLines) = {}
  BY DEF In, NoLines
<1> QED
  BY <1>1, <1>2, <1>3 DEF OrderPlaced, CartCleared
-----------------------------------------------------------------------------
(* The creation of a cart is announced once, for a cart that was written. *)

\* What a commit leaves in the tables, for the owner of the chat and for the
\* others.
LEMMA CommitPointwise ==
  ASSUME TypeOK, NEW c \in Chats, HasCart(c), NEW after \in Lines,
         NEW events \in Seq(Event), Commit(c, after, events)
  PROVE  LET u == Owner[c]
         IN  /\ u \in People
             /\ cart'[u] = Flush(session[c].seen, after, by_user_id(u))
             /\ cart'[u] \in Lines
             /\ cart'[u] # None
             /\ session[c].events \o events \in Seq(Event)
             /\ outbox[u] \in Seq(Event)
             /\ outbox'[u] = outbox[u] \o (session[c].events \o events)
             /\ session'[c] = None
             /\ \A d \in Chats \ {c} : session'[d] = session[d]
             /\ \A v \in People \ {u} : cart'[v] = cart[v] /\ outbox'[v] = outbox[v]
<1> DEFINE u   == Owner[c]
           now == Flush(session[c].seen, after, by_user_id(u))
           all == session[c].events \o events
<1>1. u \in People
  BY CartAssumption
<1>2. /\ now \in Lines
      /\ all \in Seq(Event)
      /\ cart'    = [cart EXCEPT ![u] = now]
      /\ outbox'  = [outbox EXCEPT ![u] = @ \o all]
      /\ session' = [session EXCEPT ![c] = None]
  BY CommitTypes
<1>3. None \notin Lines
  BY CartAssumption DEF Lines
<1> HIDE DEF now, all
<1>4. cart'[u] = now /\ outbox'[u] = outbox[u] \o all /\ session'[c] = None
  BY <1>1, <1>2 DEF TypeOK
<1>5. /\ \A d \in Chats \ {c} : session'[d] = session[d]
      /\ \A v \in People \ {u} : cart'[v] = cart[v] /\ outbox'[v] = outbox[v]
  BY <1>2 DEF TypeOK
<1>6. outbox[u] \in Seq(Event)
  BY <1>1 DEF TypeOK
<1> QED
  BY <1>1, <1>2, <1>3, <1>4, <1>5, <1>6 DEF now, all

\* Where the events of a commit end up in the outbox.
LEMMA Appended ==
  ASSUME NEW old \in Seq(Event), NEW more \in Seq(Event)
  PROVE  /\ old \o more \in Seq(Event)
         /\ Len(old \o more) = Len(old) + Len(more)
         /\ \A i \in DOMAIN old : i \in DOMAIN (old \o more) /\ (old \o more)[i] = old[i]
         /\ \A i \in DOMAIN more :
              /\ Len(old) + i \in DOMAIN (old \o more)
              /\ (old \o more)[Len(old) + i] = more[i]
         /\ \A i \in DOMAIN (old \o more) :
              \/ i \in DOMAIN old
              \/ i - Len(old) \in DOMAIN more /\ i = Len(old) + (i - Len(old))
OBVIOUS

\* Reading leaves the tables alone and moves a session along.
LEMMA ReadsKeepCreation ==
  ASSUME TypeOK, Creation, OneInsert, NEW c \in Chats, Reads(c)
  PROVE  Creation' /\ OneInsert'
<1>1. session[c] # None /\ session[c] \in Request
  BY DEF TypeOK, Reads, Load, CreateCart, InsertCart, LoseInsert, ReadCatalog
<1>2. UNCHANGED cart /\ \A d \in Chats \ {c} : session'[d] = session[d]
  BY DEF TypeOK, Reads, Load, CreateCart, InsertCart, LoseInsert, ReadCatalog
<1> DEFINE q == session[c]
<1>3. CASE Load(c)
  <2>1. session'[c] = [q EXCEPT !.stage = "loaded", !.seen = cart[Owner[c]]]
    BY <1>3 DEF Load, TypeOK
  <2>2. /\ session'[c].stage = "loaded"
        /\ session'[c].created = q.created
        /\ session'[c].events = q.events
    BY <1>1, <2>1 DEF Request
  <2>3. q.stage = "requested" /\ ~q.created /\ q.events = <<>> /\ cart[Owner[c]] # None
    BY <1>1, <1>3 DEF Load, Creation, HasCart
  <2> QED
    BY <1>2, <2>2, <2>3 DEF Creation, OneInsert, HasCart
<1>4. CASE CreateCart(c)
  <2>1. session'[c] = [q EXCEPT !.stage = "creating", !.events = <<CartCreated>>]
    BY <1>4 DEF CreateCart, TypeOK
  <2>2. /\ session'[c].stage = "creating"
        /\ session'[c].created = q.created
        /\ session'[c].events = <<CartCreated>>
    BY <1>1, <2>1 DEF Request
  <2>3. q.stage = "requested" /\ ~q.created
    BY <1>1, <1>4 DEF CreateCart, Creation, HasCart
  <2> QED
    BY <1>2, <2>2, <2>3 DEF Creation, OneInsert, HasCart
<1>5. CASE InsertCart(c)
  <2>1. session'[c] = [q EXCEPT !.stage = "loaded", !.created = TRUE]
    BY <1>5 DEF InsertCart, TypeOK
  <2>2. /\ session'[c].stage = "loaded"
        /\ session'[c].created = TRUE
        /\ session'[c].events = q.events
    BY <1>1, <2>1 DEF Request
  <2>3. cart[Owner[c]] = None /\ ~InsertPending(Owner[c]) /\ q.stage = "creating"
    BY <1>5 DEF InsertCart
  <2> QED
    BY <1>1, <1>2, <2>2, <2>3 DEF Creation, OneInsert, HasCart, InsertPending
<1>6. CASE LoseInsert(c)
  <2>1. session'[c] = [q EXCEPT !.stage = "loaded", !.seen = cart[Owner[c]], !.events = <<>>]
    BY <1>6 DEF LoseInsert, WithdrawCreation, TypeOK
  <2>2. /\ session'[c].stage = "loaded"
        /\ session'[c].created = q.created
        /\ session'[c].events = <<>>
    BY <1>1, <2>1 DEF Request
  <2>3. q.stage = "creating" /\ ~q.created /\ cart[Owner[c]] # None
    BY <1>1, <1>6 DEF LoseInsert, Creation, HasCart
  <2> QED
    BY <1>2, <2>2, <2>3 DEF Creation, OneInsert, HasCart
<1>7. CASE ReadCatalog(c)
  <2>1. session'[c] = [q EXCEPT !.stage = "informed", !.offers = catalog]
    BY <1>7 DEF ReadCatalog, TypeOK
  <2>2. /\ session'[c].stage = "informed"
        /\ session'[c].created = q.created
        /\ session'[c].events = q.events
    BY <1>1, <2>1 DEF Request
  <2>3. q.stage = "loaded"
    BY <1>7 DEF ReadCatalog
  <2> QED
    BY <1>1, <1>2, <2>2, <2>3 DEF Creation, OneInsert, HasCart
<1> QED
  BY <1>3, <1>4, <1>5, <1>6, <1>7 DEF Reads

\* The events of a commit join the outbox; a creation comes first and once.
LEMMA CommitKeepsCreation ==
  ASSUME TypeOK, Creation, OneInsert, CreatedIsReal,
         NEW c \in Chats, CartCommand(c) \/ PlaceOrder(c)
  PROVE  Creation' /\ OneInsert' /\ CreatedIsReal'
<1> DEFINE u == Owner[c]
           q == session[c]
<1>1. HasCart(c) /\ q # None
  BY Committed DEF HasCart
<1>2. PICK after \in Lines, events \in Seq(Event) :
        /\ Commit(c, after, events)
        /\ Keeps(q.seen, after, events) \/ Sells(q.seen, after, events)
  BY Committed
<1>3. q.seen \in Lines
  BY Committed
<1>4. \A i \in DOMAIN events : events[i] # CartCreated
  <2>1. \A i \in DOMAIN events : events[i].type # "CartCreated"
    BY <1>2, <1>3, EffectEvents, SaleEvents
  <2> QED
    BY <2>1 DEF CartCreated
<1>5. /\ u \in People
      /\ cart'[u] # None
      /\ q.events \o events \in Seq(Event)
      /\ outbox[u] \in Seq(Event)
      /\ outbox'[u] = outbox[u] \o (q.events \o events)
      /\ session'[c] = None
      /\ \A d \in Chats \ {c} : session'[d] = session[d]
      /\ \A v \in People \ {u} : cart'[v] = cart[v] /\ outbox'[v] = outbox[v]
  BY <1>1, <1>2, CommitPointwise
<1>6. Creation'
  <2> SUFFICES ASSUME NEW d \in Chats, session'[d] # None
               PROVE  /\ session'[d].stage = "requested" => session'[d].events = <<>>
                      /\ session'[d].stage = "creating" =>
                           session'[d].events = <<CartCreated>>
                      /\ session'[d].created =>
                           /\ HasCart(d)' /\ cart'[Owner[d]] = None
                           /\ session'[d].events = <<CartCreated>>
                      /\ HasCart(d)' /\ ~session'[d].created =>
                           cart'[Owner[d]] # None /\ session'[d].events = <<>>
    BY DEF Creation
  <2>1. d # c /\ session'[d] = session[d] /\ (HasCart(d)' <=> HasCart(d))
    BY <1>5 DEF HasCart
  <2>2. CASE Owner[d] = u
    <3>1. ~session[d].created
      BY <1>1, <2>1, <2>2 DEF Creation, OneInsert
    <3> QED
      BY <1>5, <2>1, <2>2, <3>1 DEF Creation
  <2>3. CASE Owner[d] # u
    <3>1. cart'[Owner[d]] = cart[Owner[d]]
      BY <1>5, <2>3, CartAssumption
    <3> QED
      BY <2>1, <3>1 DEF Creation
  <2> QED
    BY <2>2, <2>3
<1>7. OneInsert'
  BY <1>5 DEF OneInsert
<1>8. CreatedIsReal'
  <2> SUFFICES ASSUME NEW v \in People
               PROVE  /\ cart'[v] = None => outbox'[v] = <<>>
                      /\ cart'[v] # None =>
                           /\ outbox'[v] # <<>>
                           /\ \A i \in DOMAIN outbox'[v] :
                                outbox'[v][i] = CartCreated <=> i = 1
    BY DEF CreatedIsReal
  <2>1. CASE v # u
    BY <1>5, <2>1 DEF CreatedIsReal
  <2>2. CASE v = u /\ cart[u] = None
    <3>1. outbox[u] = <<>> /\ q.events = <<CartCreated>>
      BY <1>1, <1>5, <2>2 DEF CreatedIsReal, Creation
    <3>2. outbox'[u] = <<CartCreated>> \o events
      BY <1>5, <3>1
    <3>3. /\ Len(outbox'[u]) = 1 + Len(events)
          /\ outbox'[u][1] = CartCreated
          /\ \A i \in DOMAIN outbox'[u] : i # 1 =>
               i - 1 \in DOMAIN events /\ outbox'[u][i] = events[i - 1]
      BY <1>2, <3>2
    <3>4. outbox'[u] # <<>>
      BY <1>2, <3>3
    <3>5. \A i \in DOMAIN outbox'[u] : outbox'[u][i] = CartCreated <=> i = 1
      BY <1>4, <3>3
    <3> QED
      BY <1>5, <2>2, <3>4, <3>5
  <2>3. CASE v = u /\ cart[u] # None
    <3>1. q.events = <<>> /\ ~q.created
      BY <1>1, <2>3 DEF Creation
    <3>2. outbox'[u] = outbox[u] \o events
      BY <1>2, <1>5, <3>1
    <3>3. outbox[u] # <<>> /\ \A i \in DOMAIN outbox[u] : outbox[u][i] = CartCreated <=> i = 1
      BY <1>5, <2>3 DEF CreatedIsReal
    <3>4. /\ \A i \in DOMAIN outbox[u] : i \in DOMAIN outbox'[u] /\ outbox'[u][i] = outbox[u][i]
          /\ \A i \in DOMAIN outbox'[u] : i \notin DOMAIN outbox[u] =>
               /\ i # 1
               /\ i - Len(outbox[u]) \in DOMAIN events
               /\ outbox'[u][i] = events[i - Len(outbox[u])]
          /\ outbox'[u] # <<>>
      BY <1>2, <1>5, <3>2, <3>3
    <3>5. \A i \in DOMAIN outbox'[u] : outbox'[u][i] = CartCreated <=> i = 1
      BY <1>4, <3>3, <3>4
    <3> QED
      BY <1>5, <2>3, <3>4, <3>5
  <2> QED
    BY <2>1, <2>2, <2>3
<1> QED
  BY <1>6, <1>7, <1>8

\* However many first additions race, the creation of a cart is announced
\* once, first, and only when the cart was written.
THEOREM CreationAnnouncedOnce == Spec => []CreatedIsReal
<1> DEFINE Inv == Creation /\ OneInsert /\ CreatedIsReal
<1>1. Init => Inv
  BY DEF Init, Creation, OneInsert, CreatedIsReal
<1>2. TypeOK /\ Inv /\ [Next]_vars => Inv'
  <2> SUFFICES ASSUME TypeOK, Inv, [Next]_vars PROVE Inv'
    OBVIOUS
  <2>1. CASE UNCHANGED <<cart, outbox, session>>
    BY <2>1 DEF Creation, OneInsert, CreatedIsReal, HasCart
  <2>2. ASSUME NEW c \in Chats, RequestAdd(c) \/ RequestChange(c) \/ RequestOrder(c)
        PROVE  Inv'
    <3>1. PICK command : Begin(c, command)
      BY <2>2, RequestsBegin
    <3>2. /\ session'[c] = [command |-> command, stage |-> "requested", seen |-> NoLines,
                            offers |-> None, created |-> FALSE, events |-> <<>>]
          /\ \A d \in Chats \ {c} : session'[d] = session[d]
          /\ UNCHANGED <<cart, outbox>>
      BY <3>1 DEF Begin, TypeOK
    <3>3. /\ session'[c].stage = "requested"
          /\ session'[c].created = FALSE
          /\ session'[c].events = <<>>
      BY <3>2
    <3> QED
      BY <3>2, <3>3 DEF Creation, OneInsert, CreatedIsReal, HasCart
  <2>3. ASSUME NEW c \in Chats, Reads(c)
        PROVE  Inv'
    <3>1. UNCHANGED <<cart, outbox>>
      BY <2>3 DEF Reads, Load, CreateCart, InsertCart, LoseInsert, ReadCatalog
    <3> QED
      BY <2>3, <3>1, ReadsKeepCreation DEF CreatedIsReal
  <2>4. ASSUME NEW c \in Chats, CartCommand(c) \/ PlaceOrder(c)
        PROVE  Inv'
    BY <2>4, CommitKeepsCreation
  <2>5. ASSUME NEW c \in Chats, AlreadyPlaced(c) \/ RollBack(c)
        PROVE  Inv'
    <3>1. /\ session'[c] = None
          /\ \A d \in Chats \ {c} : session'[d] = session[d]
          /\ UNCHANGED <<cart, outbox>>
      BY <2>5 DEF AlreadyPlaced, RollBack, TypeOK
    <3> QED
      BY <3>1 DEF Creation, OneInsert, CreatedIsReal, HasCart
  <2>6. ASSUME NEW p \in Products, NEW offer \in Offers, Import(p, offer)
        PROVE  Inv'
    BY <2>1, <2>6 DEF Import
  <2>7. ASSUME NEW c \in Chats, OpenCheckout(c) \/ ShowConfirmation(c)
        PROVE  Inv'
    BY <2>1, <2>7 DEF OpenCheckout, ShowConfirmation
  <2>8. CASE UNCHANGED vars
    BY <2>1, <2>8 DEF vars
  <2> QED
    BY <2>2, <2>3, <2>4, <2>5, <2>6, <2>7, <2>8, ChatSteps DEF Next
<1> QED
  BY <1>1, <1>2, TypeCorrect, PTL DEF Spec
-----------------------------------------------------------------------------
(* What an order charges and what it takes. *)

\* The order of a checkout, and whom it concerns.
LEMMA Sold ==
  ASSUME TypeOK, NEW c \in Chats, PlaceOrder(c)
  PROVE  LET u == Owner[c]
         IN  /\ u \in People
             /\ Latest(u)'.lines = session[c].seen
             /\ Latest(u)'.offers = session[c].offers
             /\ orders'[u] = Append(orders[u], [lines |-> session[c].seen,
                                                offers |-> session[c].offers])
             /\ \A v \in People \ {u} : orders'[v] = orders[v]
             /\ session'[c] = None
             /\ \A d \in Chats \ {c} : session'[d] = session[d]
             /\ session[c].command.kind = "PlaceOrder"
             /\ session[c] # None
             /\ Screen(session[c].seen, session[c].offers) = session[c].command.expected
<1> DEFINE u    == Owner[c]
           sold == [lines |-> session[c].seen, offers |-> session[c].offers]
           All  == [lines : Lines, offers : CatalogStates]
<1>1. u \in People
  BY CartAssumption
<1>2. orders' = [orders EXCEPT ![u] = Append(@, sold)]
  BY DEF PlaceOrder
<1>3. orders'[u] = Append(orders[u], sold)
  BY <1>1, <1>2 DEF TypeOK
<1>4. \A v \in People \ {u} : orders'[v] = orders[v]
  BY <1>2 DEF TypeOK
<1>5. Latest(u)' = sold
  <2>1. orders[u] \in Seq(All)
    BY <1>1 DEF TypeOK
  <2> HIDE DEF sold, All
  <2> QED
    BY <1>3, <2>1 DEF Latest
<1>6. session'[c] = None /\ \A d \in Chats \ {c} : session'[d] = session[d]
  BY DEF PlaceOrder, Commit, TypeOK
<1>7. /\ session[c].command.kind = "PlaceOrder"
      /\ session[c] # None
      /\ Screen(session[c].seen, session[c].offers) = session[c].command.expected
  BY DEF PlaceOrder, Serving, AsShown
<1> QED
  BY <1>1, <1>3, <1>4, <1>5, <1>6, <1>7

\* Only a checkout places an order.
LEMMA OnlyCheckoutSells ==
  ASSUME TypeOK, [Next]_vars
  PROVE  orders' = orders \/ \E c \in Chats : PlaceOrder(c)
<1>1. ASSUME NEW c \in Chats, ChatStep(c), ~PlaceOrder(c)
      PROVE  orders' = orders
  <2>1. CASE RequestAdd(c) \/ RequestChange(c) \/ RequestOrder(c)
    BY <2>1, RequestsBegin DEF Begin
  <2>2. CASE CartCommand(c)
    BY <2>2, CommandEffects
  <2> QED
    BY <1>1, <2>1, <2>2, ChatSteps
    DEF OpenCheckout, ShowConfirmation, Reads, Load, CreateCart, InsertCart, LoseInsert,
        ReadCatalog, AlreadyPlaced, RollBack
<1> QED
  BY <1>1 DEF Next, Import, vars

\* A confirmation is handled while its screen is up.
LEMMA AskedInvariant == Spec => []Asked
<1>1. Init => Asked
  BY DEF Init, Asked
<1>2. TypeOK /\ Asked /\ [Next]_vars => Asked'
  <2> SUFFICES ASSUME TypeOK, Asked, [Next]_vars PROVE Asked'
    OBVIOUS
  <2>1. ASSUME NEW p \in Products, NEW offer \in Offers, Import(p, offer)
        PROVE  Asked'
    BY <2>1 DEF Import, Asked
  <2>2. ASSUME NEW c \in Chats, OpenCheckout(c) \/ ShowConfirmation(c)
        PROVE  Asked'
    <3>1. /\ session' = session
          /\ session[c] = None
          /\ \A d \in Chats \ {c} : dialog'[d] = dialog[d]
      BY <2>2 DEF OpenCheckout, ShowConfirmation, TypeOK
    <3> QED
      BY <3>1 DEF Asked
  <2>3. ASSUME NEW c \in Chats, RequestAdd(c) \/ RequestChange(c) \/ RequestOrder(c)
        PROVE  Asked'
    <3>1. PICK command \in Command :
            /\ Begin(c, command)
            /\ \/ /\ command.kind # "PlaceOrder"
                  /\ dialog' = [dialog EXCEPT ![c] = Elsewhere]
               \/ /\ command.kind = "PlaceOrder"
                  /\ dialog[c].window = "confirm"
                  /\ command.expected = dialog[c].shown
                  /\ dialog' = dialog
      BY <2>3, RequestsBegin
    <3>2. /\ session'[c].command = command
          /\ \A d \in Chats \ {c} : session'[d] = session[d] /\ dialog'[d] = dialog[d]
      BY <3>1 DEF Begin, TypeOK
    <3>3. CASE command.kind # "PlaceOrder"
      <4>1. dialog'[c] = Elsewhere
        BY <3>1, <3>3 DEF TypeOK
      <4> QED
        BY <3>2, <3>3, <4>1 DEF Asked
    <3>4. CASE command.kind = "PlaceOrder"
      BY <3>1, <3>2, <3>4 DEF Asked
    <3> QED
      BY <3>3, <3>4
  <2>4. ASSUME NEW c \in Chats, Reads(c)
        PROVE  Asked'
    <3>1. session[c] # None /\ session[c] \in Request
      BY <2>4 DEF TypeOK, Reads, Load, CreateCart, InsertCart, LoseInsert, ReadCatalog
    <3>2. session'[c].command = session[c].command
      BY <2>4, <3>1, ZenonT(60)
      DEF TypeOK, Reads, Load, CreateCart, InsertCart, LoseInsert, ReadCatalog, Request
    <3>3. dialog' = dialog /\ \A d \in Chats \ {c} : session'[d] = session[d]
      BY <2>4 DEF TypeOK, Reads, Load, CreateCart, InsertCart, LoseInsert, ReadCatalog
    <3> QED
      BY <3>1, <3>2, <3>3 DEF Asked
  <2>5. ASSUME NEW c \in Chats,
               CartCommand(c) \/ PlaceOrder(c) \/ AlreadyPlaced(c) \/ RollBack(c)
        PROVE  Asked'
    <3>1. session'[c] = None /\ \A d \in Chats \ {c} : session'[d] = session[d]
      <4>1. CASE CartCommand(c)
        BY <4>1, CommandEffects, ZenonT(60) DEF Commit, TypeOK
      <4>2. CASE PlaceOrder(c)
        BY <4>2, Sold
      <4> QED
        BY <2>5, <4>1, <4>2 DEF AlreadyPlaced, RollBack, TypeOK
    <3>2. \A d \in Chats \ {c} : dialog'[d] = dialog[d]
      <4>1. CASE CartCommand(c)
        BY <4>1, CommandEffects
      <4>2. CASE PlaceOrder(c)
        BY <4>2, PlaceOrderEffect DEF TypeOK
      <4> QED
        BY <2>5, <4>1, <4>2 DEF AlreadyPlaced, RollBack, TypeOK
    <3> QED
      BY <3>1, <3>2 DEF Asked
  <2>6. CASE UNCHANGED vars
    BY <2>6 DEF vars, Asked
  <2> QED
    BY <2>1, <2>2, <2>3, <2>4, <2>5, <2>6, ChatSteps DEF Next
<1> QED
  BY <1>1, <1>2, TypeCorrect, PTL DEF Spec

\* Nobody is charged anything but what their confirmation screen showed, also
\* when prices move and other chats change the cart meanwhile.
THEOREM ChargesAsShown == Spec => ChargedAsShown
<1> DEFINE A == \A c \in Chats :
                  /\ orders'[Owner[c]] # orders[Owner[c]]
                  /\ session'[c] # session[c]
                  => dialog[c].shown = Screen(Latest(Owner[c])'.lines,
                                              Latest(Owner[c])'.offers)
<1>1. TypeOK /\ Asked /\ [Next]_vars => [A]_vars
  <2> SUFFICES ASSUME TypeOK, Asked, [Next]_vars,
                      NEW d \in Chats,
                      orders'[Owner[d]] # orders[Owner[d]],
                      session'[d] # session[d]
               PROVE  dialog[d].shown = Screen(Latest(Owner[d])'.lines,
                                               Latest(Owner[d])'.offers)
    OBVIOUS
  <2>1. PICK c \in Chats : PlaceOrder(c)
    BY OnlyCheckoutSells
  <2>2. c = d
    BY <2>1, Sold
  <2>3. /\ Latest(Owner[d])'.lines = session[d].seen
        /\ Latest(Owner[d])'.offers = session[d].offers
        /\ session[d].command.kind = "PlaceOrder" /\ session[d] # None
        /\ Screen(session[d].seen, session[d].offers) = session[d].command.expected
    BY <2>1, <2>2, Sold
  <2>4. dialog[d].shown = session[d].command.expected
    BY <2>3 DEF Asked
  <2> QED
    BY <2>3, <2>4
<1> QED
  BY <1>1, TypeCorrect, AskedInvariant, PTL DEF Spec, ChargedAsShown

\* A checkout takes the lines it ordered out of the cart and leaves every
\* other line as it is, whatever other chats committed since it read the cart.
THEOREM TakesOnlyWhatItOrders == Spec => CheckoutTakesOnlyWhatItOrders
<1> DEFINE A == \A u \in People : orders'[u] # orders[u] =>
                  \A p \in Products :
                    by_user_id(u)'[p] = IF p \in In(Latest(u)'.lines)
                                          THEN 0 ELSE by_user_id(u)[p]
<1>1. TypeOK /\ [Next]_vars => [A]_vars
  <2> SUFFICES ASSUME TypeOK, [Next]_vars,
                      NEW u \in People, orders'[u] # orders[u], NEW p \in Products
               PROVE  by_user_id(u)'[p] = IF p \in In(Latest(u)'.lines)
                                            THEN 0 ELSE by_user_id(u)[p]
    OBVIOUS
  <2>1. PICK c \in Chats : PlaceOrder(c)
    BY OnlyCheckoutSells
  <2>2. u = Owner[c] /\ Latest(u)'.lines = session[c].seen
    BY <2>1, Sold
  <2>3. /\ HasCart(c)
        /\ Commit(c, NoLines, <<OrderPlaced, CartCleared>>)
        /\ Sells(session[c].seen, NoLines, <<OrderPlaced, CartCleared>>)
    BY <2>1, PlaceOrderEffect
  <2>4. session[c].seen \in Lines
    BY <2>1, Committed
  <2>5. NoLines \in Lines /\ <<OrderPlaced, CartCleared>> \in Seq(Event)
    BY <2>3, <2>4, EffectTypes
  <2>6. cart'[u] # None /\ cart'[u] = Flush(session[c].seen, NoLines, by_user_id(u))
    BY <2>2, <2>3, <2>5, CommitPointwise
  <2>7. by_user_id(u)'[p] = IF session[c].seen[p] # 0 THEN 0 ELSE by_user_id(u)[p]
    BY <2>6 DEF by_user_id, Flush, NoLines
  <2>8. p \in In(session[c].seen) <=> session[c].seen[p] # 0
    BY <2>4 DEF In, Lines
  <2> QED
    BY <2>2, <2>7, <2>8
<1> QED
  BY <1>1, TypeCorrect, PTL DEF Spec, CheckoutTakesOnlyWhatItOrders
-----------------------------------------------------------------------------
(* A cart used from one chat. *)

\* Nobody changes the cart of a chat while it handles a command.
LEMMA FreshReads ==
  ASSUME OneChat
  PROVE  Spec => []ReadsAreFresh
<1>1. Init => ReadsAreFresh
  BY DEF Init, ReadsAreFresh
<1>2. TypeOK /\ ReadsAreFresh /\ [Next]_vars => ReadsAreFresh'
  <2> SUFFICES ASSUME TypeOK, ReadsAreFresh, [Next]_vars PROVE ReadsAreFresh'
    OBVIOUS
  <2>1. CASE UNCHANGED <<cart, session>>
    BY <2>1 DEF ReadsAreFresh, HasCart, by_user_id
  <2>2. ASSUME NEW c \in Chats, RequestAdd(c) \/ RequestChange(c) \/ RequestOrder(c)
        PROVE  ReadsAreFresh'
    <3>1. PICK command : Begin(c, command)
      BY <2>2, RequestsBegin
    <3>2. /\ session'[c].stage = "requested"
          /\ session'[c].seen = NoLines
          /\ \A d \in Chats \ {c} : session'[d] = session[d]
          /\ UNCHANGED cart
      BY <3>1 DEF Begin, TypeOK
    <3> QED
      BY <3>2 DEF ReadsAreFresh, HasCart, by_user_id
  <2>3. ASSUME NEW c \in Chats, Reads(c)
        PROVE  ReadsAreFresh'
    <3> DEFINE q == session[c]
    <3>1. q # None /\ q \in Request
      BY <2>3 DEF TypeOK, Reads, Load, CreateCart, InsertCart, LoseInsert, ReadCatalog
    <3>2. UNCHANGED cart /\ \A d \in Chats \ {c} : session'[d] = session[d]
      BY <2>3 DEF TypeOK, Reads, Load, CreateCart, InsertCart, LoseInsert, ReadCatalog
    <3>3. /\ HasCart(c)' => session'[c].seen = by_user_id(Owner[c])
          /\ ~HasCart(c)' /\ session'[c] # None => session'[c].seen = NoLines
      <4>1. CASE Load(c) \/ LoseInsert(c)
        <5>1. /\ session'[c].stage = "loaded"
              /\ session'[c].seen = cart[Owner[c]]
              /\ cart[Owner[c]] # None
          BY <3>1, <4>1, ZenonT(60) DEF TypeOK, Load, LoseInsert, Request
        <5> QED
          BY <5>1 DEF HasCart, by_user_id
      <4>2. CASE CreateCart(c)
        <5>1. /\ session'[c].stage = "creating"
              /\ session'[c].seen = q.seen
              /\ ~HasCart(c)
          BY <3>1, <4>2 DEF TypeOK, CreateCart, Request, HasCart
        <5> QED
          BY <3>1, <5>1 DEF HasCart, ReadsAreFresh
      <4>3. CASE InsertCart(c)
        <5>1. /\ session'[c].stage = "loaded"
              /\ session'[c].seen = q.seen
              /\ cart[Owner[c]] = None
              /\ ~HasCart(c)
          BY <3>1, <4>3 DEF TypeOK, InsertCart, Request, HasCart
        <5> QED
          BY <3>1, <5>1 DEF HasCart, ReadsAreFresh, by_user_id
      <4>4. CASE ReadCatalog(c)
        <5>1. /\ session'[c].stage = "informed"
              /\ session'[c].seen = q.seen
              /\ HasCart(c)
          BY <3>1, <4>4 DEF TypeOK, ReadCatalog, Request, HasCart
        <5> QED
          BY <3>1, <5>1 DEF HasCart, ReadsAreFresh
      <4> QED
        BY <2>3, <4>1, <4>2, <4>3, <4>4 DEF Reads
    <3> QED
      BY <3>2, <3>3 DEF ReadsAreFresh, HasCart, by_user_id
  <2>4. ASSUME NEW c \in Chats, CartCommand(c) \/ PlaceOrder(c)
        PROVE  ReadsAreFresh'
    <3>1. PICK after \in Lines, events \in Seq(Event) : Commit(c, after, events)
      BY <2>4, Committed
    <3>2. /\ session'[c] = None
          /\ \A d \in Chats \ {c} : session'[d] = session[d]
          /\ \A v \in People \ {Owner[c]} : cart'[v] = cart[v]
      BY <2>4, <3>1, Committed, CommitPointwise
    <3>3. \A d \in Chats \ {c} : Owner[d] \in People /\ Owner[d] # Owner[c]
      BY CartAssumption DEF OneChat
    <3> QED
      BY <3>2, <3>3 DEF ReadsAreFresh, HasCart, by_user_id
  <2>5. ASSUME NEW c \in Chats, AlreadyPlaced(c) \/ RollBack(c)
        PROVE  ReadsAreFresh'
    <3>1. /\ session'[c] = None
          /\ \A d \in Chats \ {c} : session'[d] = session[d]
          /\ UNCHANGED cart
      BY <2>5 DEF AlreadyPlaced, RollBack, TypeOK
    <3> QED
      BY <3>1 DEF ReadsAreFresh, HasCart, by_user_id
  <2>6. ASSUME NEW p \in Products, NEW offer \in Offers, Import(p, offer)
        PROVE  ReadsAreFresh'
    BY <2>1, <2>6 DEF Import
  <2>7. ASSUME NEW c \in Chats, OpenCheckout(c) \/ ShowConfirmation(c)
        PROVE  ReadsAreFresh'
    BY <2>1, <2>7 DEF OpenCheckout, ShowConfirmation
  <2>8. CASE UNCHANGED vars
    BY <2>1, <2>8 DEF vars
  <2> QED
    BY <2>2, <2>3, <2>4, <2>5, <2>6, <2>7, <2>8, ChatSteps DEF Next
<1> QED
  BY <1>1, <1>2, TypeCorrect, PTL DEF Spec

\* A commit over a fresh read leaves exactly what the aggregate left.
LEMMA FreshCommit ==
  ASSUME TypeOK, ReadsAreFresh, NEW c \in Chats, HasCart(c), NEW after \in Lines,
         NEW events \in Seq(Event), Commit(c, after, events)
  PROVE  /\ by_user_id(Owner[c]) = session[c].seen
         /\ by_user_id(Owner[c])' = after
         /\ \A v \in People \ {Owner[c]} : by_user_id(v)' = by_user_id(v)
<1> DEFINE u == Owner[c]
<1>1. by_user_id(u) = session[c].seen
  BY DEF ReadsAreFresh, HasCart
<1>2. cart'[u] # None /\ cart'[u] = Flush(session[c].seen, after, by_user_id(u))
  BY CommitPointwise
<1>3. Flush(session[c].seen, after, session[c].seen) = after
  BY DEF Flush, Lines
<1>4. \A v \in People \ {u} : cart'[v] = cart[v]
  BY CommitPointwise
<1> QED
  BY <1>1, <1>2, <1>3, <1>4 DEF by_user_id

\* A step that is not the commit of a command leaves carts, orders and outbox
\* alone.
LEMMA OnlyCommitsWrite ==
  ASSUME TypeOK, [Next]_vars
  PROVE  \/ UNCHANGED <<cart, orders, outbox>>
         \/ \E c \in Chats : CartCommand(c) \/ PlaceOrder(c)
<1>1. ASSUME NEW c \in Chats, ChatStep(c), ~CartCommand(c), ~PlaceOrder(c)
      PROVE  UNCHANGED <<cart, orders, outbox>>
  <2>1. CASE RequestAdd(c) \/ RequestChange(c) \/ RequestOrder(c)
    BY <2>1, RequestsBegin DEF Begin
  <2> QED
    BY <1>1, <2>1, ChatSteps
    DEF OpenCheckout, ShowConfirmation, Reads, Load, CreateCart, InsertCart, LoseInsert,
        ReadCatalog, AlreadyPlaced, RollBack
<1> QED
  BY <1>1 DEF Next, Import, vars

\* What a commit over a fresh read does to the cart and the outbox of its
\* owner: one of the effects on what the cart holds, and its events at the end,
\* after those of a cart that was started.
LEMMA FreshStep ==
  ASSUME TypeOK, ReadsAreFresh, NEW c \in Chats, CartCommand(c) \/ PlaceOrder(c)
  PROVE  LET u == Owner[c]
         IN  /\ u \in People
             /\ session[c].seen = by_user_id(u)
             /\ by_user_id(u) \in Lines
             /\ outbox[u] \in Seq(Event)
             /\ \A v \in People \ {u} : by_user_id(v)' = by_user_id(v) /\ outbox'[v] = outbox[v]
             /\ \E events \in Seq(Event), started \in Seq({CartCreated}) :
                  /\ started \o events \in Seq(Event)
                  /\ outbox'[u] = outbox[u] \o (started \o events)
                  /\ by_user_id(u)' \in Lines
                  /\ \/ CartCommand(c) /\ Keeps(by_user_id(u), by_user_id(u)', events)
                     \/ PlaceOrder(c) /\ Sells(by_user_id(u), by_user_id(u)', events)
<1> DEFINE u == Owner[c]
<1>1. HasCart(c) /\ session[c] # None
  BY Committed DEF HasCart
<1>2. PICK after \in Lines, events \in Seq(Event) :
        /\ Commit(c, after, events)
        /\ \/ CartCommand(c) /\ Keeps(session[c].seen, after, events)
           \/ PlaceOrder(c) /\ Sells(session[c].seen, after, events)
  BY Committed
<1>3. /\ by_user_id(u) = session[c].seen
      /\ by_user_id(u)' = after
      /\ \A v \in People \ {u} : by_user_id(v)' = by_user_id(v)
  BY <1>1, <1>2, FreshCommit
<1>4. /\ u \in People
      /\ session[c].events \o events \in Seq(Event)
      /\ outbox[u] \in Seq(Event)
      /\ outbox'[u] = outbox[u] \o (session[c].events \o events)
      /\ \A v \in People \ {u} : outbox'[v] = outbox[v]
  BY <1>1, <1>2, CommitPointwise
<1>5. session[c].events \in Seq({CartCreated})
  BY <1>1, RequestTypes
<1>6. by_user_id(u) \in Lines
  BY <1>4, LinesType
<1> QED
  BY <1>2, <1>3, <1>4, <1>5, <1>6

\* An order or an addition among the events of a step is among those of its
\* effect: starting a cart announces neither.
LEMMA StartedEvents ==
  ASSUME NEW started \in Seq({CartCreated}), NEW events \in Seq(Event),
         started \o events \in Seq(Event)
  PROVE  /\ \A i \in DOMAIN events :
              /\ Len(started) + i \in DOMAIN (started \o events)
              /\ (started \o events)[Len(started) + i] = events[i]
         /\ \A i \in DOMAIN (started \o events) :
              \/ (started \o events)[i].type = "CartCreated"
              \/ \E k \in DOMAIN events : i = Len(started) + k /\ (started \o events)[i] = events[k]
<1>1. \A i \in DOMAIN started : started[i].type = "CartCreated"
  BY DEF CartCreated
<1>2. \A i \in DOMAIN (started \o events) : i \notin DOMAIN started =>
        /\ i - Len(started) \in DOMAIN events
        /\ i = Len(started) + (i - Len(started))
        /\ (started \o events)[i] = events[i - Len(started)]
  OBVIOUS
<1>3. \A i \in DOMAIN started : (started \o events)[i] = started[i]
  OBVIOUS
<1>4. \A i \in DOMAIN events :
        /\ Len(started) + i \in DOMAIN (started \o events)
        /\ (started \o events)[Len(started) + i] = events[i]
  OBVIOUS
<1> QED
  BY <1>1, <1>2, <1>3, <1>4
-----------------------------------------------------------------------------
(* A cart used from one chat is not sold twice. *)

\* The outbox grows: additions and orders keep their places, new ones come
\* after them, and a new order is one the step announces.
LEMMA IndexesGrow ==
  ASSUME NEW u \in People, outbox[u] \in Seq(Event), NEW more \in Seq(Event),
         outbox'[u] = outbox[u] \o more
  PROVE  /\ Placements(u) \subseteq Placements(u)'
         /\ Additions(u) \subseteq Additions(u)'
         /\ \A i \in Placements(u) \cup Additions(u) : i \in 1..Len(outbox[u])
         /\ \A i \in DOMAIN more : more[i].type = "CartItemAdded" =>
              Len(outbox[u]) + i \in Additions(u)'
         /\ \A i \in DOMAIN more : more[i] = OrderPlaced =>
              Len(outbox[u]) + i \in Placements(u)'
         /\ \A i \in Placements(u)' :
              \/ i \in Placements(u)
              \/ \E k \in DOMAIN more : i = Len(outbox[u]) + k /\ more[k] = OrderPlaced
         /\ \A i \in Additions(u)' :
              \/ i \in Additions(u)
              \/ \E k \in DOMAIN more : i = Len(outbox[u]) + k /\ more[k].type = "CartItemAdded"
<1> DEFINE old == outbox[u]
<1>1. /\ \A i \in DOMAIN old : i \in DOMAIN (old \o more) /\ (old \o more)[i] = old[i]
      /\ \A i \in DOMAIN more :
           Len(old) + i \in DOMAIN (old \o more) /\ (old \o more)[Len(old) + i] = more[i]
      /\ \A i \in DOMAIN (old \o more) :
           i \in DOMAIN old \/ (i - Len(old) \in DOMAIN more /\ i = Len(old) + (i - Len(old)))
  BY Appended
<1>2. DOMAIN old = 1..Len(old)
  OBVIOUS
<1> QED
  BY <1>1, <1>2 DEF Placements, Additions

LEMMA CommitKeepsStock ==
  ASSUME TypeOK, ReadsAreFresh, Stocked, RefilledBetweenOrders,
         NEW c \in Chats, CartCommand(c) \/ PlaceOrder(c)
  PROVE  Stocked' /\ RefilledBetweenOrders'
<1> DEFINE u == Owner[c]
<1>1. /\ u \in People
      /\ by_user_id(u) \in Lines
      /\ outbox[u] \in Seq(Event)
      /\ \A v \in People \ {u} : by_user_id(v)' = by_user_id(v) /\ outbox'[v] = outbox[v]
  BY FreshStep
<1>2. PICK events \in Seq(Event), started \in Seq({CartCreated}) :
        /\ started \o events \in Seq(Event)
        /\ outbox'[u] = outbox[u] \o (started \o events)
        /\ by_user_id(u)' \in Lines
        /\ \/ CartCommand(c) /\ Keeps(by_user_id(u), by_user_id(u)', events)
           \/ PlaceOrder(c) /\ Sells(by_user_id(u), by_user_id(u)', events)
  BY FreshStep
<1> DEFINE more == started \o events
           n    == Len(outbox[u])
<1>3. /\ Placements(u) \subseteq Placements(u)'
      /\ Additions(u) \subseteq Additions(u)'
      /\ \A i \in Placements(u) \cup Additions(u) : i \in 1..n
      /\ \A i \in DOMAIN more : more[i].type = "CartItemAdded" => n + i \in Additions(u)'
      /\ \A i \in Placements(u)' :
           \/ i \in Placements(u)
           \/ \E k \in DOMAIN more : i = n + k /\ more[k] = OrderPlaced
  BY <1>1, <1>2, IndexesGrow
<1>4. /\ n \in Nat /\ Len(started) \in Nat
      /\ DOMAIN more \subseteq Nat \ {0} /\ DOMAIN events \subseteq Nat \ {0}
  BY <1>1, <1>2
<1>5. /\ \A i \in DOMAIN events :
           Len(started) + i \in DOMAIN more /\ more[Len(started) + i] = events[i]
      /\ \A i \in DOMAIN more :
           \/ more[i].type = "CartCreated"
           \/ \E k \in DOMAIN events : i = Len(started) + k /\ more[i] = events[k]
  BY <1>2, StartedEvents
<1> HIDE DEF more, n
<1>6. OrderPlaced.type = "OrderPlaced"
  BY DEF OrderPlaced
<1>7. CASE Keeps(by_user_id(u), by_user_id(u)', events)
  <2>1. /\ \A i \in DOMAIN events : events[i].type \notin {"CartCreated", "OrderPlaced"}
        /\ \/ In(by_user_id(u)') \subseteq In(by_user_id(u))
           \/ \E i \in DOMAIN events : events[i].type = "CartItemAdded"
    BY <1>1, <1>2, <1>7, EffectEvents
  <2>2. \A k \in DOMAIN more : more[k] # OrderPlaced
    BY <1>5, <1>6, <2>1
  <2>3. Placements(u)' = Placements(u)
    BY <1>3, <2>2
  <2>4. In(by_user_id(u)') # {} => \A i \in Placements(u)' : \E k \in Additions(u)' : i < k
    <3>1. CASE In(by_user_id(u)') \subseteq In(by_user_id(u))
      BY <1>1, <1>3, <2>3, <3>1 DEF Stocked
    <3>2. CASE \E i \in DOMAIN events : events[i].type = "CartItemAdded"
      <4>1. PICK i \in DOMAIN events : events[i].type = "CartItemAdded"
        BY <3>2
      <4>2. /\ Len(started) + i \in DOMAIN more
            /\ n + (Len(started) + i) \in Additions(u)'
        BY <1>3, <1>5, <4>1
      <4>3. \A j \in Placements(u)' : j < n + (Len(started) + i)
        BY <1>3, <1>4, <2>3
      <4> QED
        BY <4>2, <4>3
    <3> QED
      BY <2>1, <3>1, <3>2
  <2>5. \A v \in People \ {u} : /\ Placements(v)' = Placements(v)
                                /\ Additions(v)' = Additions(v)
    BY <1>1 DEF Placements, Additions
  <2>6. Stocked'
    BY <1>1, <2>4, <2>5 DEF Stocked, In
  <2>7. RefilledBetweenOrders'
    BY <1>3, <2>3, <2>5 DEF RefilledBetweenOrders
  <2> QED
    BY <2>6, <2>7
<1>8. CASE Sells(by_user_id(u), by_user_id(u)', events)
  <2>1. /\ DOMAIN events = {1, 2}
        /\ events[2].type = "CartCleared"
        /\ In(by_user_id(u)') = {}
        /\ In(by_user_id(u)) # {}
    BY <1>1, <1>8, SaleEvents DEF Sells
  <2>2. \A k \in DOMAIN more : more[k] = OrderPlaced => k = Len(started) + 1
    BY <1>5, <1>6, <2>1
  <2>3. \A i, j \in Placements(u)' : i < j => i \in Placements(u)
    BY <1>3, <1>4, <2>2
  <2>4. \A i, j \in Placements(u)' : i < j => \E k \in Additions(u)' : i < k /\ k < j
    <3> SUFFICES ASSUME NEW i \in Placements(u)', NEW j \in Placements(u)', i < j
                 PROVE  \E k \in Additions(u)' : i < k /\ k < j
      OBVIOUS
    <3>1. i \in Placements(u)
      BY <2>3
    <3>2. CASE j \in Placements(u)
      BY <1>1, <1>3, <3>1, <3>2 DEF RefilledBetweenOrders
    <3>3. CASE j = n + (Len(started) + 1)
      <4>1. PICK k \in Additions(u) : i < k
        BY <1>1, <2>1, <3>1 DEF Stocked
      <4>2. k < j /\ k \in Additions(u)'
        BY <1>3, <1>4, <3>3
      <4> QED
        BY <4>1, <4>2
    <3> QED
      BY <1>3, <2>2, <3>2, <3>3
  <2>5. \A v \in People \ {u} : /\ Placements(v)' = Placements(v)
                                /\ Additions(v)' = Additions(v)
    BY <1>1 DEF Placements, Additions
  <2>6. Stocked'
    BY <1>1, <2>1, <2>5 DEF Stocked, In
  <2>7. RefilledBetweenOrders'
    BY <2>4, <2>5 DEF RefilledBetweenOrders
  <2> QED
    BY <2>6, <2>7
<1> QED
  BY <1>2, <1>7, <1>8

\* Nobody is sold one cart twice as long as they use it from one chat, also
\* when the process dies between the commit and the answer and the
\* confirmation is tapped again.
THEOREM NotSoldTwice ==
  ASSUME OneChat
  PROVE  Spec => []RefilledBetweenOrders
<1> DEFINE Inv == Stocked /\ RefilledBetweenOrders
<1>1. Init => Inv
  BY DEF Init, Stocked, RefilledBetweenOrders, Placements, Additions
<1>2. TypeOK /\ ReadsAreFresh /\ Inv /\ [Next]_vars => Inv'
  <2> SUFFICES ASSUME TypeOK, ReadsAreFresh, Inv, [Next]_vars PROVE Inv'
    OBVIOUS
  <2>1. CASE UNCHANGED <<cart, orders, outbox>>
    BY <2>1 DEF Stocked, RefilledBetweenOrders, Placements, Additions, by_user_id
  <2>2. ASSUME NEW c \in Chats, CartCommand(c) \/ PlaceOrder(c)
        PROVE  Inv'
    BY <2>2, CommitKeepsStock
  <2> QED
    BY <2>1, <2>2, OnlyCommitsWrite
<1> QED
  BY <1>1, <1>2, TypeCorrect, FreshReads, PTL DEF Spec
-----------------------------------------------------------------------------
(* A chat is told the truth about an order that went through. *)

\* What a step does to the checkout dialogs when it commits nothing.
LEMMA DialogSteps ==
  ASSUME TypeOK, Asked, NEW c \in Chats, ChatStep(c),
         ~CartCommand(c), ~PlaceOrder(c), ~AlreadyPlaced(c)
  PROVE  /\ \A d \in Chats \ {c} : dialog'[d] = dialog[d]
         /\ dialog'[c].window = "already_placed" => dialog[c].window = "already_placed"
         /\ dialog'[c].window \in {"filling", "confirm"} =>
              \/ dialog[c].window \in {"filling", "confirm"}
              \/ In(by_user_id(Owner[c])) # {}
<1>1. CASE OpenCheckout(c)
  <2>1. dialog' = [dialog EXCEPT ![c] = [window |-> "filling", shown |-> None]]
    BY <1>1 DEF OpenCheckout
  <2>2. In(by_user_id(Owner[c])) # {}
    BY <1>1 DEF OpenCheckout, can_checkout
  <2> QED
    BY <2>1, <2>2 DEF TypeOK
<1>2. CASE ShowConfirmation(c)
  <2>1. /\ dialog' = [dialog EXCEPT ![c] = Confirmation(Owner[c])]
        /\ dialog[c].window \in {"filling", "confirm"}
    BY <1>2 DEF ShowConfirmation
  <2>2. Confirmation(Owner[c]).window = "confirm"
    BY DEF Confirmation
  <2> QED
    BY <2>1, <2>2 DEF TypeOK
<1>3. CASE RequestAdd(c) \/ RequestChange(c) \/ RequestOrder(c)
  <2>1. dialog' = [dialog EXCEPT ![c] = Elsewhere] \/ dialog' = dialog
    BY <1>3, RequestsBegin
  <2>2. Elsewhere.window = "elsewhere"
    BY DEF Elsewhere
  <2> QED
    BY <2>1, <2>2 DEF TypeOK
<1>4. CASE Reads(c)
  BY <1>4 DEF Reads, Load, CreateCart, InsertCart, LoseInsert, ReadCatalog
<1>5. CASE RollBack(c)
  <2>1. \/ dialog' = dialog
        \/ /\ dialog' = [dialog EXCEPT ![c] = Confirmation(Owner[c])]
           /\ dialog[c].window = "confirm"
    BY <1>5 DEF RollBack, Asked
  <2>2. Confirmation(Owner[c]).window = "confirm"
    BY DEF Confirmation
  <2> QED
    BY <2>1, <2>2 DEF TypeOK
<1> QED
  BY <1>1, <1>2, <1>3, <1>4, <1>5, ChatSteps

\* A checkout leaves an order that no addition follows.
LEMMA SaleIsLast ==
  ASSUME TypeOK, ReadsAreFresh, NEW c \in Chats, PlaceOrder(c)
  PROVE  \E i \in Placements(Owner[c])' : \A k \in Additions(Owner[c])' : k < i
<1> DEFINE u == Owner[c]
<1>1. u \in People /\ by_user_id(u) \in Lines /\ outbox[u] \in Seq(Event)
  BY FreshStep
<1>2. ~CartCommand(c)
  BY DEF PlaceOrder, CartCommand, AddToCart, DecreaseCartLine, SetCartLineQuantity,
         RemoveCartLine, ClearCart, RemoveUnavailableCartLines, Serving
<1>3. PICK events \in Seq(Event), started \in Seq({CartCreated}) :
        /\ started \o events \in Seq(Event)
        /\ outbox'[u] = outbox[u] \o (started \o events)
        /\ Sells(by_user_id(u), by_user_id(u)', events)
  BY <1>2, FreshStep
<1>4. /\ DOMAIN events = {1, 2}
      /\ events[1] = OrderPlaced
      /\ events[1].type = "OrderPlaced"
      /\ events[2].type = "CartCleared"
  BY <1>1, <1>3, SaleEvents
<1> DEFINE more == started \o events
           n    == Len(outbox[u])
<1>5. n \in Nat /\ Len(started) \in Nat
  BY <1>1, <1>3
<1>6. /\ \A i \in DOMAIN events :
           Len(started) + i \in DOMAIN more /\ more[Len(started) + i] = events[i]
      /\ \A i \in DOMAIN more :
           \/ more[i].type = "CartCreated"
           \/ \E k \in DOMAIN events : i = Len(started) + k /\ more[i] = events[k]
  BY <1>3, StartedEvents
<1>7. /\ \A i \in Additions(u) : i \in 1..n
      /\ \A i \in DOMAIN more : more[i] = OrderPlaced => n + i \in Placements(u)'
      /\ \A i \in Additions(u)' :
           \/ i \in Additions(u)
           \/ \E k \in DOMAIN more : i = n + k /\ more[k].type = "CartItemAdded"
  BY <1>1, <1>3, IndexesGrow
<1> HIDE DEF more, n
<1>8. n + (Len(started) + 1) \in Placements(u)'
  BY <1>4, <1>6, <1>7
<1>9. \A k \in DOMAIN more : more[k].type # "CartItemAdded"
  BY <1>4, <1>6
<1>10. \A k \in Additions(u)' : k < n + (Len(started) + 1)
  BY <1>5, <1>7, <1>9
<1> QED
  BY <1>8, <1>10

LEMMA EmptyMeansOrdered ==
  ASSUME OneChat
  PROVE  Spec => []EmptiedByOrder
<1>1. Init => EmptiedByOrder
  BY DEF Init, EmptiedByOrder, Elsewhere
<1>2. TypeOK /\ ReadsAreFresh /\ Asked /\ EmptiedByOrder /\ [Next]_vars => EmptiedByOrder'
  <2> SUFFICES ASSUME TypeOK, ReadsAreFresh, Asked, EmptiedByOrder, [Next]_vars
               PROVE  EmptiedByOrder'
    OBVIOUS
  <2>1. \A d \in Chats : Owner[d] \in People
    BY CartAssumption
  <2>2. CASE UNCHANGED <<cart, outbox, dialog>>
    BY <2>2 DEF EmptiedByOrder, Placements, Additions, by_user_id, In
  <2>3. ASSUME NEW c \in Chats, CartCommand(c)
        PROVE  EmptiedByOrder'
    <3>1. dialog' = dialog /\ HasCart(c)
      BY <2>3, CommandEffects
    <3>2. dialog[c].window = "elsewhere"
      <4>1. session[c] # None /\ session[c].command.kind # "PlaceOrder"
        BY <2>3
        DEF CartCommand, AddToCart, DecreaseCartLine, SetCartLineQuantity, RemoveCartLine,
            ClearCart, RemoveUnavailableCartLines, Serving
      <4> QED
        BY <4>1 DEF Asked, Elsewhere
    <3>3. \A d \in Chats \ {c} :
            /\ by_user_id(Owner[d])' = by_user_id(Owner[d])
            /\ outbox'[Owner[d]] = outbox[Owner[d]]
      BY <2>1, <2>3, FreshStep, ZenonT(60) DEF OneChat
    <3>4. \A d \in Chats \ {c} :
            /\ In(by_user_id(Owner[d])') = In(by_user_id(Owner[d]))
            /\ Placements(Owner[d])' = Placements(Owner[d])
            /\ Additions(Owner[d])' = Additions(Owner[d])
      BY <3>3 DEF Placements, Additions
    <3> QED
      BY <3>1, <3>2, <3>4 DEF EmptiedByOrder, In
  <2>4. ASSUME NEW c \in Chats, PlaceOrder(c)
        PROVE  EmptiedByOrder'
    <3>1. \A d \in Chats \ {c} : dialog'[d] = dialog[d]
      BY <2>4, PlaceOrderEffect DEF TypeOK
    <3>2. \A d \in Chats \ {c} :
            /\ by_user_id(Owner[d])' = by_user_id(Owner[d])
            /\ outbox'[Owner[d]] = outbox[Owner[d]]
      BY <2>1, <2>4, FreshStep, ZenonT(60) DEF OneChat
    <3>3. \A d \in Chats \ {c} :
            /\ In(by_user_id(Owner[d])') = In(by_user_id(Owner[d]))
            /\ Placements(Owner[d])' = Placements(Owner[d])
            /\ Additions(Owner[d])' = Additions(Owner[d])
      BY <3>2 DEF Placements, Additions
    <3>4. \E i \in Placements(Owner[c])' : \A k \in Additions(Owner[c])' : k < i
      BY <2>4, SaleIsLast
    <3> QED
      BY <3>1, <3>3, <3>4 DEF EmptiedByOrder, In
  <2>5. ASSUME NEW c \in Chats, AlreadyPlaced(c)
        PROVE  EmptiedByOrder'
    <3>1. /\ dialog'[c].window = "already_placed"
          /\ \A d \in Chats \ {c} : dialog'[d] = dialog[d]
          /\ UNCHANGED <<cart, outbox>>
      BY <2>5 DEF AlreadyPlaced, TypeOK
    <3> QED
      BY <3>1 DEF EmptiedByOrder, Placements, Additions, by_user_id, In
  <2>6. ASSUME NEW c \in Chats, ChatStep(c), ~CartCommand(c), ~PlaceOrder(c), ~AlreadyPlaced(c)
        PROVE  EmptiedByOrder'
    <3>1. UNCHANGED <<cart, outbox>>
      <4>1. CASE RequestAdd(c) \/ RequestChange(c) \/ RequestOrder(c)
        BY <4>1, RequestsBegin DEF Begin
      <4> QED
        BY <2>6, <4>1, ChatSteps
        DEF OpenCheckout, ShowConfirmation, Reads, Load, CreateCart, InsertCart, LoseInsert,
            ReadCatalog, RollBack
    <3>2. /\ \A d \in Chats \ {c} : dialog'[d] = dialog[d]
          /\ dialog'[c].window \in {"filling", "confirm"} =>
               \/ dialog[c].window \in {"filling", "confirm"}
               \/ In(by_user_id(Owner[c])) # {}
      BY <2>6, DialogSteps
    <3>3. \A d \in Chats :
            /\ In(by_user_id(Owner[d])') = In(by_user_id(Owner[d]))
            /\ Placements(Owner[d])' = Placements(Owner[d])
            /\ Additions(Owner[d])' = Additions(Owner[d])
      BY <3>1 DEF Placements, Additions, by_user_id
    <3> QED
      BY <3>2, <3>3 DEF EmptiedByOrder, In
  <2>7. ASSUME NEW p \in Products, NEW offer \in Offers, Import(p, offer)
        PROVE  EmptiedByOrder'
    BY <2>2, <2>7 DEF Import
  <2>8. CASE UNCHANGED vars
    BY <2>2, <2>8 DEF vars
  <2> QED
    BY <2>3, <2>4, <2>5, <2>6, <2>7, <2>8 DEF Next
<1> QED
  BY <1>1, <1>2, TypeCorrect, FreshReads, AskedInvariant, PTL DEF Spec

\* A chat is told that its order is already placed only when it is, and
\* nothing was put into the cart since, as long as the cart is used from one
\* chat.
THEOREM AlreadyPlacedTold ==
  ASSUME OneChat
  PROVE  Spec => AlreadyPlacedIsTrue
<1> DEFINE A == \A c \in Chats :
                  /\ dialog'[c].window = "already_placed"
                  /\ dialog[c].window # "already_placed"
                  => \E i \in Placements(Owner[c]) : \A k \in Additions(Owner[c]) : k < i
<1>1. TypeOK /\ ReadsAreFresh /\ Asked /\ EmptiedByOrder /\ [Next]_vars => [A]_vars
  <2> SUFFICES ASSUME TypeOK, ReadsAreFresh, Asked, EmptiedByOrder, [Next]_vars,
                      NEW d \in Chats,
                      dialog'[d].window = "already_placed",
                      dialog[d].window # "already_placed"
               PROVE  \E i \in Placements(Owner[d]) : \A k \in Additions(Owner[d]) : k < i
    OBVIOUS
  <2>1. AlreadyPlaced(d)
    <3>1. PICK c \in Chats : ChatStep(c)
      BY DEF Next, Import, vars
    <3>2. ~CartCommand(c)
      BY CommandEffects
    <3>3. ~PlaceOrder(c)
      <4>1. Elsewhere.window = "elsewhere"
        BY DEF Elsewhere
      <4>2. dialog' # [dialog EXCEPT ![c] = Elsewhere] /\ dialog' # dialog
        BY <4>1 DEF TypeOK
      <4> QED
        BY <4>2 DEF PlaceOrder
    <3>4. AlreadyPlaced(c)
      BY <3>1, <3>2, <3>3, DialogSteps
    <3>5. c = d
      BY <3>4 DEF AlreadyPlaced, TypeOK
    <3> QED
      BY <3>4, <3>5
  <2>2. /\ session[d] # None
        /\ session[d].command.kind = "PlaceOrder"
        /\ session[d].stage = "loaded"
        /\ In(session[d].seen) = {}
    BY <2>1 DEF AlreadyPlaced, MeansPlaced
  <2>3. dialog[d].window = "confirm"
    BY <2>2 DEF Asked
  <2>4. In(by_user_id(Owner[d])) = {}
    BY <2>2 DEF ReadsAreFresh, HasCart
  <2> QED
    BY <2>3, <2>4 DEF EmptiedByOrder
<1> QED
  BY <1>1, TypeCorrect, FreshReads, AskedInvariant, EmptyMeansOrdered, PTL
  DEF Spec, AlreadyPlacedIsTrue
-----------------------------------------------------------------------------
(* The limit of a cart used from one chat, and its contract. *)

LEMMA EffectLimits ==
  ASSUME NEW seen \in Lines, NEW after \in Lines, NEW events,
         Keeps(seen, after, events) \/ Sells(seen, after, events),
         line_count(seen) <= MAX_CART_LINES
  PROVE  line_count(after) <= MAX_CART_LINES
<1>1. /\ \A lines \in Lines : IsFiniteSet(In(lines)) /\ line_count(lines) \in Nat
  <2> SUFFICES ASSUME NEW lines \in Lines
               PROVE  IsFiniteSet(In(lines)) /\ line_count(lines) \in Nat
    OBVIOUS
  <2>1. IsFiniteSet(Products) /\ In(lines) \subseteq Products
    BY CartAssumption DEF In
  <2>2. IsFiniteSet(In(lines))
    BY <2>1, FS_Subset
  <2> QED
    BY <2>2, FS_CardinalityType DEF line_count
<1>2. CASE In(after) \subseteq In(seen)
  <2>1. line_count(after) <= line_count(seen)
    BY <1>1, <1>2, FS_Subset DEF line_count
  <2> QED
    BY <1>1, <2>1, CartAssumption
<1>3. CASE Puts(seen, after, events)
  <2>1. PICK p \in Products, n \in 1..MAX_QUANTITY :
          CanAdd(seen, p, n) /\ after = [seen EXCEPT ![p] = @ + n]
    BY <1>3 DEF Puts
  <2>2. seen[p] \in Nat /\ n \in Nat \ {0}
    BY <2>1, CartAssumption DEF Lines
  <2>3. CASE seen[p] > 0
    <3>1. In(after) \subseteq In(seen)
      BY <2>1, <2>3 DEF In, Lines
    <3> QED
      BY <1>2, <3>1
  <2>4. CASE seen[p] = 0
    <3>1. p \notin In(seen) /\ In(after) = In(seen) \cup {p}
      BY <2>1, <2>2, <2>4 DEF In, Lines
    <3>2. line_count(after) = line_count(seen) + 1
      BY <1>1, <3>1, FS_AddElement DEF line_count
    <3>3. line_count(seen) < MAX_CART_LINES
      BY <2>1, <2>4 DEF CanAdd
    <3> QED
      BY <1>1, <3>2, <3>3, CartAssumption
  <2> QED
    BY <2>2, <2>3, <2>4
<1>4. CASE Changes(seen, after, events)
  <2>1. In(after) \subseteq In(seen)
    BY <1>4 DEF Changes, In, Lines
  <2> QED
    BY <1>2, <2>1
<1>5. CASE Sweeps(seen, after, events)
  <2>1. In(after) \subseteq In(seen)
    BY <1>5, CartAssumption DEF Sweeps, In, Lines, remove_items
  <2> QED
    BY <1>2, <2>1
<1>6. CASE Clears(seen, after, events) \/ Sells(seen, after, events)
  <2>1. In(after) \subseteq In(seen)
    BY <1>6 DEF Clears, Sells, In, NoLines
  <2> QED
    BY <1>2, <2>1
<1> QED
  BY <1>3, <1>4, <1>5, <1>6 DEF Keeps

\* A cart used from one chat never holds more different products than the
\* limit, although the limit is checked against a copy.
THEOREM LimitHolds ==
  ASSUME OneChat
  PROVE  Spec => []LineLimit
<1>1. Init => LineLimit
  <2> SUFFICES ASSUME Init, NEW u \in People
               PROVE  line_count(by_user_id(u)) <= MAX_CART_LINES
    BY DEF LineLimit
  <2>1. In(by_user_id(u)) = {}
    BY DEF Init, by_user_id, In, NoLines
  <2> QED
    BY <2>1, FS_EmptySet, CartAssumption DEF line_count
<1>2. TypeOK /\ ReadsAreFresh /\ LineLimit /\ [Next]_vars => LineLimit'
  <2> SUFFICES ASSUME TypeOK, ReadsAreFresh, LineLimit, [Next]_vars PROVE LineLimit'
    OBVIOUS
  <2>1. CASE UNCHANGED <<cart, orders, outbox>>
    BY <2>1 DEF LineLimit, by_user_id, line_count, In
  <2>2. ASSUME NEW c \in Chats, CartCommand(c) \/ PlaceOrder(c)
        PROVE  LineLimit'
    <3> DEFINE u == Owner[c]
    <3>1. /\ u \in People
          /\ by_user_id(u) \in Lines
          /\ by_user_id(u)' \in Lines
          /\ \A v \in People \ {u} : by_user_id(v)' = by_user_id(v)
      BY <2>2, FreshStep
    <3>2. PICK events : \/ Keeps(by_user_id(u), by_user_id(u)', events)
                        \/ Sells(by_user_id(u), by_user_id(u)', events)
      BY <2>2, FreshStep
    <3>3. line_count(by_user_id(u)) <= MAX_CART_LINES
      BY <3>1 DEF LineLimit
    <3>4. line_count(by_user_id(u)') <= MAX_CART_LINES
      BY <3>1, <3>2, <3>3, EffectLimits
    <3> QED
      BY <3>1, <3>4 DEF LineLimit, line_count, In
  <2> QED
    BY <2>1, <2>2, OnlyCommitsWrite
<1> QED
  BY <1>1, <1>2, TypeCorrect, FreshReads, PTL DEF Spec

\* The contract counts as the model does.
LEMMA SameCount ==
  ASSUME NEW S
  PROVE  Contract!Cardinality(S) = Cardinality(S)
BY Zenon DEF Contract!Cardinality, Cardinality

\* The state the contract sees.
Held == [u \in People |-> by_user_id(u)]

Placed == [u \in People |-> [i \in DOMAIN orders[u] |-> orders[u][i].lines]]

\* A command that places no order takes a step the contract allows.
LEMMA CommandRefines ==
  ASSUME TypeOK, ReadsAreFresh, NEW c \in Chats, CartCommand(c)
  PROVE  Contract!Next
<1> DEFINE u     == Owner[c]
           seen  == by_user_id(u)
           after == by_user_id(u)'
<1>1. /\ u \in People
      /\ seen \in Lines
      /\ after \in Lines
      /\ \A v \in People \ {u} : by_user_id(v)' = by_user_id(v)
  BY FreshStep
<1>2. ~PlaceOrder(c)
  BY DEF PlaceOrder, CartCommand, AddToCart, DecreaseCartLine, SetCartLineQuantity,
         RemoveCartLine, ClearCart, RemoveUnavailableCartLines, Serving
<1>3. PICK events : Keeps(seen, after, events)
  BY <1>2, FreshStep
<1>4. orders' = orders
  BY CommandEffects
<1>5. Held' = [Held EXCEPT ![u] = after] /\ Held[u] = seen
  BY <1>1 DEF Held
<1>6. Placed' = Placed
  BY <1>4 DEF Placed
<1>7. Contract!Becomes(u, after)
  BY <1>5, <1>6 DEF Contract!Becomes, Held, Placed
<1>8. Contract!Held(u) = In(seen)
  BY <1>1 DEF Contract!Held, In
<1>9. Held[u] = [v \in People |-> by_user_id(v)][u]
  BY DEF Held
<1>10. CASE Puts(seen, after, events)
  <2>1. PICK p \in Products, n \in 1..MAX_QUANTITY :
          CanAdd(seen, p, n) /\ after = [seen EXCEPT ![p] = @ + n]
    BY <1>10 DEF Puts
  <2>2. p \notin In(seen) => Cardinality(In(seen)) < MAX_CART_LINES
    <3>1. p \notin In(seen) => seen[p] = 0
      BY <1>1 DEF In, Lines
    <3> QED
      BY <2>1, <3>1 DEF CanAdd, line_count
  <2>3. seen[p] + n <= MAX_QUANTITY
    BY <2>1 DEF CanAdd
  <2>4. Contract!Put(u, p, n)
    <3> DEFINE held == [v \in People |-> by_user_id(v)]
    <3>1. held[u] = seen
      BY <1>5, <1>9
    <3>2. after = [held[u] EXCEPT ![p] = @ + n]
      BY <2>1, <3>1
    <3>3. Contract!Becomes(u, [held[u] EXCEPT ![p] = @ + n])
      BY <1>7, <3>2
    <3> QED
      BY <1>8, <2>2, <2>3, <3>1, <3>3, SameCount DEF Contract!Put
  <2> QED
    BY <1>1, <2>1, <2>4 DEF Contract!Next
<1>11. CASE Changes(seen, after, events)
  <2>1. PICK p \in In(seen), n \in 0..MAX_QUANTITY : after = [seen EXCEPT ![p] = n]
    BY <1>11 DEF Changes
  <2>2. CASE n = 0
    <3>1. after = [q \in Products |-> IF q \in {p} THEN 0 ELSE seen[q]]
      BY <1>1, <2>1, <2>2 DEF Lines
    <3>2. Contract!TakeOut(u, {p})
      BY <1>5, <1>7, <1>9, <3>1 DEF Contract!TakeOut
    <3> QED
      BY <1>1, <3>2 DEF Contract!Next, In
  <2>3. CASE n # 0
    <3>1. n \in 1..MAX_QUANTITY /\ p \in Products
      BY <2>3, CartAssumption DEF In
    <3>2. Contract!Set(u, p, n)
      BY <1>5, <1>7, <1>8, <1>9, <2>1 DEF Contract!Set
    <3> QED
      BY <1>1, <3>1, <3>2 DEF Contract!Next
  <2> QED
    BY <2>2, <2>3
<1>12. CASE Sweeps(seen, after, events)
  <2>1. PICK gone \in SUBSET In(seen) : after = remove_items(seen, gone)
    BY <1>12 DEF Sweeps
  <2>2. Contract!TakeOut(u, gone)
    BY <1>5, <1>7, <1>9, <2>1 DEF Contract!TakeOut, remove_items
  <2> QED
    BY <1>1, <2>2 DEF Contract!Next, In
<1>13. CASE Clears(seen, after, events)
  <2>1. after = [q \in Products |-> IF q \in Products THEN 0 ELSE seen[q]]
    BY <1>13 DEF Clears, NoLines
  <2>2. Contract!TakeOut(u, Products)
    BY <1>5, <1>7, <1>9, <2>1 DEF Contract!TakeOut
  <2> QED
    BY <1>1, <2>2 DEF Contract!Next
<1> QED
  BY <1>3, <1>10, <1>11, <1>12, <1>13 DEF Keeps

LEMMA CheckoutRefines ==
  ASSUME TypeOK, ReadsAreFresh, NEW c \in Chats, PlaceOrder(c)
  PROVE  Contract!Checkout(Owner[c]) /\ Owner[c] \in People
<1> DEFINE u    == Owner[c]
           seen == by_user_id(u)
<1>1. /\ u \in People
      /\ seen \in Lines
      /\ session[c].seen = seen
      /\ \A v \in People \ {u} : by_user_id(v)' = by_user_id(v)
  BY FreshStep
<1>2. ~CartCommand(c)
  BY DEF PlaceOrder, CartCommand, AddToCart, DecreaseCartLine, SetCartLineQuantity,
         RemoveCartLine, ClearCart, RemoveUnavailableCartLines, Serving
<1>3. PICK events : Sells(seen, by_user_id(u)', events)
  BY <1>2, FreshStep
<1>4. /\ orders'[u] = Append(orders[u], [lines |-> seen, offers |-> session[c].offers])
      /\ \A v \in People \ {u} : orders'[v] = orders[v]
  BY <1>1, Sold
<1>5. In(seen) # {} /\ by_user_id(u)' = NoLines
  BY <1>3 DEF Sells
<1>6. Held' = [Held EXCEPT ![u] = NoLines] /\ Held[u] = seen
  BY <1>1, <1>5 DEF Held
<1>7. Placed' = [Placed EXCEPT ![u] = Append(@, seen)]
  <2> DEFINE sold == [lines |-> seen, offers |-> session[c].offers]
             All  == [lines : Lines, offers : CatalogStates]
  <2>1. orders[u] \in Seq(All)
    BY <1>1 DEF TypeOK
  <2>2. sold.lines = seen
    OBVIOUS
  <2>3. orders'[u] = Append(orders[u], sold)
    BY <1>4
  <2>4. [i \in DOMAIN orders'[u] |-> orders'[u][i].lines]
          = Append([i \in DOMAIN orders[u] |-> orders[u][i].lines], seen)
    <3> HIDE DEF sold, All
    <3> DEFINE old == orders[u]
               put == Append(old, sold)
               was == [i \in DOMAIN old |-> old[i].lines]
    <3>1. /\ DOMAIN put = 1..(Len(old) + 1)
          /\ DOMAIN old = 1..Len(old)
          /\ Len(old) \in Nat
          /\ \A i \in 1..Len(old) : put[i] = old[i]
          /\ put[Len(old) + 1] = sold
      BY <2>1
    <3>2. Len(was) = Len(old) /\ DOMAIN was = 1..Len(old)
      BY <3>1
    <3>3. Append(was, seen)
            = [i \in 1..(Len(old) + 1) |-> IF i = Len(old) + 1 THEN seen ELSE was[i]]
      BY <3>1, <3>2
    <3>4. [i \in DOMAIN put |-> put[i].lines]
            = [i \in 1..(Len(old) + 1) |-> IF i = Len(old) + 1 THEN seen ELSE was[i]]
      BY <2>2, <3>1
    <3> QED
      BY <2>3, <3>3, <3>4
  <2>5. \A v \in People \ {u} : Placed'[v] = Placed[v]
    BY <1>4 DEF Placed
  <2> QED
    BY <1>1, <2>4, <2>5 DEF Placed
<1>8. Contract!Held(u) = In(seen)
  BY <1>1 DEF Contract!Held, In
<1>9. Contract!Nothing = NoLines
  BY DEF Contract!Nothing, NoLines
<1> QED
  BY <1>1, <1>5, <1>6, <1>7, <1>8, <1>9 DEF Contract!Checkout, Held, Placed

\* Sessions, savepoints, flushed differences, a moving catalog and restarts
\* implement the atomic contract of a cart, as long as nobody uses one cart
\* from two chats.
THEOREM CartRefinement ==
  ASSUME OneChat
  PROVE  Spec => ImplementsContract
<1>1. Init => Contract!Init
  BY DEF Init, Contract!Init, Contract!Nothing, by_user_id, NoLines
<1>2. TypeOK /\ ReadsAreFresh /\ [Next]_vars => Contract!Next \/ UNCHANGED <<Held, Placed>>
  <2> SUFFICES ASSUME TypeOK, ReadsAreFresh, [Next]_vars
               PROVE  Contract!Next \/ UNCHANGED <<Held, Placed>>
    OBVIOUS
  <2>1. CASE UNCHANGED <<cart, orders, outbox>>
    BY <2>1 DEF Held, Placed, by_user_id
  <2>2. ASSUME NEW c \in Chats, CartCommand(c)
        PROVE  Contract!Next
    BY <2>2, CommandRefines
  <2>3. ASSUME NEW c \in Chats, PlaceOrder(c)
        PROVE  Contract!Next
    BY <2>3, CheckoutRefines DEF Contract!Next
  <2> QED
    BY <2>1, <2>2, <2>3, OnlyCommitsWrite
<1>3. TypeOK /\ ReadsAreFresh /\ [Next]_vars =>
        [Contract!Next]_<<[u \in People |-> by_user_id(u)],
                          [u \in People |-> [i \in DOMAIN orders[u] |-> orders[u][i].lines]]>>
  BY <1>2 DEF Held, Placed
<1> QED
  BY <1>1, <1>3, TypeCorrect, FreshReads, PTL DEF Spec, ImplementsContract, Contract!Spec
-----------------------------------------------------------------------------
(* The outbox of a cart used from one chat tells what is in it. *)

\* A step that changes the quantity of a product says so, and whatever it
\* says of a product is what the cart then holds.
Accounts(events, p, before, after) ==
  \/ /\ \A i \in DOMAIN events : ~About(events[i], p)
     /\ after = before
  \/ /\ \E i \in DOMAIN events : About(events[i], p)
     /\ \A i \in DOMAIN events : About(events[i], p) => Says(events[i]) = after

\* The quantity of a product is the one in the last event about it.
Tells(events, p, n) ==
  LET about == {i \in DOMAIN events : About(events[i], p)}
  IN  /\ about = {} => n = 0
      /\ \A i \in about : (\A j \in about : j <= i) => n = Says(events[i])

LEMMA EffectAccounts ==
  ASSUME NEW seen \in Lines, NEW after \in Lines, NEW events \in Seq(Event),
         Keeps(seen, after, events) \/ Sells(seen, after, events),
         NEW p \in Products
  PROVE  Accounts(events, p, seen[p], after[p])
<1>1. CASE Puts(seen, after, events)
  <2>1. PICK q \in Products, n \in 1..MAX_QUANTITY :
          /\ after = [seen EXCEPT ![q] = @ + n]
          /\ events = <<CartItem("CartItemAdded", q, seen[q] + n)>>
    BY <1>1 DEF Puts
  <2>2. /\ DOMAIN events = {1}
        /\ events[1].type = "CartItemAdded"
        /\ events[1].product_id = q
        /\ events[1].quantity = after[q]
        /\ p # q => after[p] = seen[p]
    BY <2>1 DEF CartItem, Lines
  <2> QED
    BY <2>2 DEF Accounts, About, Says
<1>2. CASE Changes(seen, after, events)
  <2>1. PICK q \in In(seen), n \in 0..MAX_QUANTITY,
             type \in {"CartItemQuantityChanged", "CartItemRemoved"} :
          /\ after = [seen EXCEPT ![q] = n]
          /\ events = <<CartItem(type, q, n)>>
    BY <1>2 DEF Changes
  <2>2. /\ DOMAIN events = {1}
        /\ events[1].type = type
        /\ events[1].product_id = q
        /\ events[1].quantity = after[q]
        /\ p # q => after[p] = seen[p]
    BY <2>1 DEF CartItem, Lines, In
  <2> QED
    BY <2>1, <2>2 DEF Accounts, About, Says
<1>3. CASE Sweeps(seen, after, events)
  <2>1. PICK gone \in SUBSET In(seen) :
          after = remove_items(seen, gone) /\ events \in Removals(gone)
    BY <1>3 DEF Sweeps
  <2>2. /\ \A i \in DOMAIN events :
             /\ events[i].type = "CartItemRemoved"
             /\ events[i].product_id \in gone
             /\ events[i].quantity = 0
        /\ \A q \in gone : \E i \in DOMAIN events : events[i].product_id = q
    BY <2>1, SweepEvents DEF In
  <2>3. after[p] = IF p \in gone THEN 0 ELSE seen[p]
    BY <2>1 DEF remove_items
  <2>4. CASE p \in gone
    <3>1. after[p] = 0 /\ \E i \in DOMAIN events : events[i].product_id = p
      BY <2>2, <2>3, <2>4
    <3> QED
      BY <2>2, <3>1 DEF Accounts, About, Says
  <2>5. CASE p \notin gone
    <3>1. after[p] = seen[p] /\ \A i \in DOMAIN events : events[i].product_id # p
      BY <2>2, <2>3, <2>5
    <3> QED
      BY <2>2, <3>1 DEF Accounts, About
  <2> QED
    BY <2>4, <2>5
<1>4. CASE Clears(seen, after, events)
  <2>1. after[p] = 0
    BY <1>4 DEF Clears, NoLines
  <2>2. CASE seen = NoLines
    <3>1. DOMAIN events = {} /\ seen[p] = 0
      BY <1>4, <2>2 DEF Clears, ClearEvents, NoLines
    <3> QED
      BY <2>1, <3>1 DEF Accounts
  <2>3. CASE seen # NoLines
    <3>1. events = <<CartCleared>>
      BY <1>4, <2>3 DEF Clears, ClearEvents
    <3>2. DOMAIN events = {1} /\ events[1].type = "CartCleared"
      BY <3>1 DEF CartCleared
    <3> QED
      BY <2>1, <3>2 DEF Accounts, About, Says
  <2> QED
    BY <2>2, <2>3
<1>5. CASE Sells(seen, after, events)
  <2>1. after[p] = 0
    BY <1>5 DEF Sells, NoLines
  <2>2. /\ DOMAIN events = {1, 2}
        /\ events[1].type = "OrderPlaced"
        /\ events[2].type = "CartCleared"
    BY <1>5, SaleEvents
  <2> QED
    BY <2>1, <2>2 DEF Accounts, About, Says
<1> QED
  BY <1>1, <1>2, <1>3, <1>4, <1>5 DEF Keeps

\* Starting a cart says nothing of any product.
LEMMA StartedAccounts ==
  ASSUME NEW started \in Seq({CartCreated}), NEW events \in Seq(Event),
         started \o events \in Seq(Event), NEW p \in Products, NEW before, NEW after,
         Accounts(events, p, before, after)
  PROVE  Accounts(started \o events, p, before, after)
<1> DEFINE more == started \o events
<1>1. /\ \A i \in DOMAIN events :
           Len(started) + i \in DOMAIN more /\ more[Len(started) + i] = events[i]
      /\ \A i \in DOMAIN more :
           \/ more[i].type = "CartCreated"
           \/ \E k \in DOMAIN events : i = Len(started) + k /\ more[i] = events[k]
  BY StartedEvents
<1>2. \A e : e.type = "CartCreated" => ~About(e, p)
  BY DEF About
<1> HIDE DEF more
<1>3. \A i \in DOMAIN more : About(more[i], p) =>
        \E k \in DOMAIN events : more[i] = events[k]
  BY <1>1, <1>2
<1>4. Accounts(more, p, before, after)
  BY <1>1, <1>3 DEF Accounts
<1> QED
  BY <1>4 DEF more

LEMMA StillTells ==
  ASSUME NEW old \in Seq(Event), NEW more \in Seq(Event), NEW p, NEW before, NEW after,
         Tells(old, p, before), Accounts(more, p, before, after)
  PROVE  Tells(old \o more, p, after)
<1> DEFINE all   == old \o more
           about == {i \in DOMAIN all : About(all[i], p)}
           n     == Len(old)
<1>1. /\ \A i \in DOMAIN old : i \in DOMAIN all /\ all[i] = old[i]
      /\ \A i \in DOMAIN more : n + i \in DOMAIN all /\ all[n + i] = more[i]
      /\ \A i \in DOMAIN all :
           i \in DOMAIN old \/ (i - n \in DOMAIN more /\ i = n + (i - n))
  BY Appended
<1>2. /\ n \in Nat
      /\ DOMAIN old = 1..n
      /\ DOMAIN more \subseteq Nat \ {0}
  OBVIOUS
<1> HIDE DEF all, n
<1>3. CASE \A i \in DOMAIN more : ~About(more[i], p)
  <2>1. after = before
    BY <1>3 DEF Accounts
  <2>2. about = {i \in DOMAIN old : About(old[i], p)}
    BY <1>1, <1>3
  <2>3. \A i \in about : all[i] = old[i]
    BY <1>1, <2>2
  <2>4. Tells(all, p, after)
    BY <2>1, <2>2, <2>3 DEF Tells
  <2> QED
    BY <2>4 DEF all
<1>4. CASE \E i \in DOMAIN more : About(more[i], p)
  <2>1. PICK k \in DOMAIN more : About(more[k], p)
    BY <1>4
  <2>2. n + k \in about /\ n + k > n
    BY <1>1, <1>2, <2>1
  <2>3. \A i \in DOMAIN more : About(more[i], p) => Says(more[i]) = after
    BY <1>4 DEF Accounts
  <2>4. ASSUME NEW i \in about, \A j \in about : j <= i
        PROVE  after = Says(all[i])
    <3>1. i \notin DOMAIN old
      BY <1>2, <2>2, <2>4
    <3>2. i - n \in DOMAIN more /\ all[i] = more[i - n]
      BY <1>1, <3>1
    <3> QED
      BY <2>3, <3>2
  <2>5. Tells(all, p, after)
    BY <2>2, <2>4 DEF Tells
  <2> QED
    BY <2>5 DEF all
<1> QED
  BY <1>3, <1>4

\* A reader of the outbox always knows what is in a cart that is used from
\* one chat.
THEOREM OutboxTells ==
  ASSUME OneChat
  PROVE  Spec => []OutboxTellsTheCart
<1>1. OutboxTellsTheCart <=>
        \A u \in People, p \in Products : Tells(outbox[u], p, by_user_id(u)[p])
  BY DEF OutboxTellsTheCart, Tells
<1>2. Init => OutboxTellsTheCart
  BY DEF Init, OutboxTellsTheCart, by_user_id, NoLines
<1>3. TypeOK /\ ReadsAreFresh /\ OutboxTellsTheCart /\ [Next]_vars => OutboxTellsTheCart'
  <2> SUFFICES ASSUME TypeOK, ReadsAreFresh, OutboxTellsTheCart, [Next]_vars
               PROVE  OutboxTellsTheCart'
    OBVIOUS
  <2>1. CASE UNCHANGED <<cart, orders, outbox>>
    BY <2>1 DEF OutboxTellsTheCart, by_user_id
  <2>2. ASSUME NEW c \in Chats, CartCommand(c) \/ PlaceOrder(c)
        PROVE  OutboxTellsTheCart'
    <3> DEFINE u == Owner[c]
    <3>1. /\ u \in People
          /\ by_user_id(u) \in Lines
          /\ outbox[u] \in Seq(Event)
          /\ \A v \in People \ {u} : by_user_id(v)' = by_user_id(v) /\ outbox'[v] = outbox[v]
      BY <2>2, FreshStep
    <3>2. PICK events \in Seq(Event), started \in Seq({CartCreated}) :
            /\ started \o events \in Seq(Event)
            /\ outbox'[u] = outbox[u] \o (started \o events)
            /\ by_user_id(u)' \in Lines
            /\ \/ Keeps(by_user_id(u), by_user_id(u)', events)
               \/ Sells(by_user_id(u), by_user_id(u)', events)
      BY <2>2, FreshStep
    <3>3. ASSUME NEW p \in Products
          PROVE  Tells(outbox'[u], p, by_user_id(u)'[p])
      <4>1. Accounts(events, p, by_user_id(u)[p], by_user_id(u)'[p])
        BY <3>1, <3>2, EffectAccounts
      <4>2. Accounts(started \o events, p, by_user_id(u)[p], by_user_id(u)'[p])
        BY <3>2, <4>1, StartedAccounts
      <4>3. Tells(outbox[u], p, by_user_id(u)[p])
        BY <1>1, <3>1
      <4>4. Tells(outbox[u] \o (started \o events), p, by_user_id(u)'[p])
        BY <3>1, <3>2, <4>2, <4>3, StillTells
      <4> QED
        BY <3>2, <4>4
    <3>4. ASSUME NEW v \in People, NEW p \in Products
          PROVE  Tells(outbox'[v], p, by_user_id(v)'[p])
      BY <1>1, <3>1, <3>3
    <3> QED
      BY <3>4 DEF OutboxTellsTheCart, Tells
  <2> QED
    BY <2>1, <2>2, OnlyCommitsWrite
<1> QED
  BY <1>2, <1>3, TypeCorrect, FreshReads, PTL DEF Spec
=============================================================================
