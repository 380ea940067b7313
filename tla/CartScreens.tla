----------------------------- MODULE CartScreens -----------------------------
(***************************************************************************)
(* The cart dialog and the checkout dialog that opens on top of it, as one *)
(* chat drives them, while the same cart is changed from elsewhere and the *)
(* catalog moves.  The chat's updates are handled in order, one at a time; *)
(* a tap remembers what was on the message it was made on.  How commands   *)
(* overlap inside the database is in CartCheckout.                         *)
(***************************************************************************)
EXTENDS Paging, Sequences, SequencesExt

CONSTANTS Products,    \* by the time they were put into the cart
          FirstCarts,  \* what the cart may hold at first
          FirstOffers, Offers,
          FirstOrders, \* placed before
          MAX_QUANTITY,
          Addresses, Names, Phones, Comments,  \* what people type
          Me, MyPhone, \* the profile
          Uses,        \* bound: the buttons the person taps
          InFlight,    \* bound: updates waiting at once
          MaxOrders    \* bound: orders placed

VARIABLES cart,      \* product -> quantity, 0: no line
          offers,    \* product -> its price, None: on request, and whether it is still sold
          orders,    \* the orders placed, oldest first
          dialog,    \* the window on top and the data of both dialogs
          screen,    \* the message, as last drawn
          queue,     \* updates on their way
          placing    \* the order is on its way to the database

vars == <<cart, offers, orders, dialog, screen, queue, placing>>

ASSUME CartScreensAssumption ==
    /\ Products \subseteq Nat
    /\ FirstCarts \subseteq [Products -> 0..MAX_QUANTITY]
    /\ FirstOffers \in [Products -> Offers]
    /\ Offers \subseteq [price : Nat \cup {None}, active : BOOLEAN]
    /\ FirstOrders \in Seq([address : Addresses, name : Names \cup {Me},
                            phone : Phones \cup {MyPhone}, comment : Comments \cup {None},
                            total : Nat, count : Nat])
    /\ InFlight \in Nat /\ MaxOrders \in Nat

-----------------------------------------------------------------------------
(* GetCart *)

OldestFirst == {r \in Products \X Products : r[1] < r[2]}

lines(c) == {p \in Products : c[p] > 0}

line_total(c, p) == IF offers[p].price = None THEN 0 ELSE offers[p].price * c[p]

total(c) == MapThenSumSet(LAMBDA p : line_total(c, p), {p \in Products : c[p] > 0})

has_unavailable(c) == \E p \in Products : c[p] > 0 /\ ~offers[p].active

has_unpriced(c) == \E p \in Products : c[p] > 0 /\ offers[p].price = None

can_checkout(c) == lines(c) # {} /\ ~has_unavailable(c) /\ ~has_unpriced(c)

last_address == IF orders = <<>> THEN None ELSE Last(orders).address

-----------------------------------------------------------------------------
(* Dialog data *)

CartWindows == {"MAIN", "LINE", "QUANTITY", "CLEAR_CONFIRM"}

BlankForm ==
    [address |-> None, name |-> None, phone |-> None, comment |-> None,
     total |-> None, count |-> None, number |-> None]

\* start: what the done screen was started with.
Open(window) ==
    [window |-> window, product |-> None, drawn |-> 0, page |-> 0, form |-> BlankForm,
     start |-> None]

Closed == Open("closed")

has_fallen_off(offset, rows) == offset > 0 /\ offset >= rows

page_of(page, rows) == IF has_fallen_off(page * PageSize, rows) THEN 0 ELSE page

remember_totals(form, c) == [form EXCEPT !.total = total(c), !.count = Cardinality(lines(c))]

\* What the getters leave in the dialog while they draw it.
Remembered(d, c) ==
    CASE d.window = "MAIN" -> [d EXCEPT !.page = page_of(d.page, Cardinality(lines(c)))]
      [] d.window = "LINE" -> [d EXCEPT !.drawn = c[d.product]]
      [] d.window = "CONFIRM" -> [d EXCEPT !.form = remember_totals(d.form, c)]
      [] OTHER -> d

-----------------------------------------------------------------------------
(* Windows *)

PageOfLines(c, n) == ListButtons("line", "cart_prev", "cart_next", lines(c), OldestFirst, n)

CartButtons(d, c) ==
    CASE d.window = "MAIN" ->
            PageOfLines(c, d.page)
              \cup Plain({"to_catalog", "close_cart"})
              \cup (IF has_unavailable(c) THEN Plain({"remove_unavailable"}) ELSE {})
              \cup (IF can_checkout(c) THEN Plain({"checkout"}) ELSE {})
              \cup (IF lines(c) # {} THEN Plain({"clear"}) ELSE {})
      [] d.window = "LINE" ->
            Plain({"back_to_cart"})
              \cup (IF c[d.product] > 0 THEN Plain({"minus", "plus", "quantity", "remove_line"})
                    ELSE {})
      [] d.window = "QUANTITY" -> Plain({"back_to_line"})
      [] d.window = "CLEAR_CONFIRM" -> Plain({"clear_confirmed", "clear_cancelled"})

CheckoutButtons(d) ==
    CASE d.window = "ADDRESS" ->
            Plain({"cancel_address"})
              \cup (IF last_address # None THEN Plain({"last_address"}) ELSE {})
      [] d.window = "RECIPIENT" -> Plain({"recipient_is_me", "back_to_address"})
      [] d.window = "PHONE" -> Plain({"own_phone", "back_to_recipient"})
      [] d.window = "COMMENT" -> Plain({"skip_comment", "back_to_phone"})
      [] d.window = "CONFIRM" -> Plain({"confirm", "back_to_comment", "cancel_checkout"})
      [] d.window = "PLACING" -> {}
      [] d.window = "ALREADY_PLACED" -> Plain({"close_already_placed"})
      [] d.window = "DONE" ->
            Plain({"done_to_catalog", "close_done"})
              \cup (IF d.start.id # None THEN Plain({"open_order"}) ELSE {})
      [] d.window = "closed" -> {}

\* What the window is about: a line, the order to be confirmed, or the order placed.
About(d, c) ==
    CASE d.window \in {"LINE", "QUANTITY"} -> [product |-> d.product, quantity |-> c[d.product]]
      [] d.window = "CONFIRM" -> d.form
      [] d.window = "DONE" -> d.start
      [] OTHER -> None

Screen(d, c) ==
    [window |-> d.window, about |-> About(d, c),
     buttons |-> IF d.window \in CartWindows THEN CartButtons(d, c) ELSE CheckoutButtons(d)]

\* The widgets of a window, drawn or not: a tap is matched by its id only.
Widgets(window) ==
    CASE window = "MAIN" ->
            {"line", "cart_prev", "cart_next", "to_catalog", "close_cart", "remove_unavailable",
             "checkout", "clear"}
      [] window = "LINE" -> {"minus", "plus", "quantity", "remove_line", "back_to_cart"}
      [] window = "QUANTITY" -> {"back_to_line"}
      [] window = "CLEAR_CONFIRM" -> {"clear_confirmed", "clear_cancelled"}
      [] window = "ADDRESS" -> {"last_address", "cancel_address"}
      [] window = "RECIPIENT" -> {"recipient_is_me", "back_to_address"}
      [] window = "PHONE" -> {"own_phone", "back_to_recipient"}
      [] window = "COMMENT" -> {"skip_comment", "back_to_phone"}
      [] window = "CONFIRM" -> {"confirm", "back_to_comment", "cancel_checkout"}
      [] window = "ALREADY_PLACED" -> {"close_already_placed"}
      [] window = "DONE" -> {"open_order", "done_to_catalog", "close_done"}
      [] OTHER -> {}

TakesText == {"QUANTITY", "ADDRESS", "RECIPIENT", "PHONE", "COMMENT"}

TextFor(window) ==
    CASE window = "QUANTITY" -> 1..MAX_QUANTITY
      [] window = "ADDRESS" -> Addresses
      [] window = "RECIPIENT" -> Names
      [] window = "PHONE" -> Phones
      [] window = "COMMENT" -> Comments

-----------------------------------------------------------------------------
(* State *)

Init ==
    /\ cart \in FirstCarts
    /\ offers = FirstOffers
    /\ orders = FirstOrders
    /\ dialog = Closed
    /\ screen = Screen(Closed, cart)
    /\ queue = <<>>
    /\ placing = FALSE

-----------------------------------------------------------------------------
(* The person, and the world *)

Sends(b) ==
    /\ Len(queue) < InFlight
    /\ queue' = Append(queue, [id |-> b.id, item |-> b.item, saw |-> screen.about])
    /\ UNCHANGED <<cart, offers, orders, dialog, screen, placing>>

Tap == \E b \in screen.buttons : b.id \in Uses /\ Sends(b)

\* The person answers the question on the message.  Text the domain refuses leaves
\* everything as it is.
Type ==
    /\ screen.window \in TakesText
    /\ \E t \in TextFor(screen.window) : Sends(Button("text", t))

Command == Sends(Button("/cart", None))

\* Another chat of the same person, or the catalog card, changed the cart; an order
\* placed there empties it.
ElsewhereInTheCart ==
    /\ \E c \in [Products -> 0..MAX_QUANTITY] :
          /\ c # cart /\ cart' = c
          /\ (\A p \in Products : c[p] = 0) \/ (\E p \in Products : cart' = [cart EXCEPT ![p] = c[p]])
    /\ UNCHANGED <<offers, orders, dialog, screen, queue, placing>>

Import ==
    /\ \E p \in Products, o \in Offers : o # offers[p] /\ offers' = [offers EXCEPT ![p] = o]
    /\ UNCHANGED <<cart, orders, dialog, screen, queue, placing>>

-----------------------------------------------------------------------------
(* The handlers *)

update == Head(queue)

Tapped(id) == queue # <<>> /\ ~placing /\ update.id = id /\ id \in Widgets(dialog.window)

Typed(window, texts) ==
    /\ queue # <<>> /\ ~placing /\ update.id = "text" /\ dialog.window = window
    /\ update.item \in texts

Handled == queue' = Tail(queue) /\ placing' = FALSE

\* The handler ended in d with the cart c, and the window was drawn.
Shows(d, c) ==
    /\ dialog' = Remembered(d, c)
    /\ screen' = Screen(Remembered(d, c), c)
    /\ Handled

OutdatedTap == [id |-> "outdated", item |-> None, saw |-> None]

Outdated(q) == [i \in DOMAIN q |-> IF q[i].id \in {"text", "/cart"} THEN q[i] ELSE OutdatedTap]

\* Another dialog came on top or went away: taps made on the old one are outdated.  They
\* stay in line, and nobody answers them.
Restarts(d, c) ==
    /\ dialog' = Remembered(d, c)
    /\ screen' = Screen(Remembered(d, c), c)
    /\ queue' = Outdated(Tail(queue))
    /\ placing' = FALSE

\* A command changed the cart; then the window is drawn, or that fails and what the
\* dialog would have remembered is lost.
Commits(d, c) ==
    /\ cart' = c /\ UNCHANGED <<offers, orders>>
    /\ Shows(d, c) \/ (Handled /\ UNCHANGED <<dialog, screen>>)

Only(step) == step /\ UNCHANGED <<cart, offers, orders>>

To(window) == [dialog EXCEPT !.window = window]

SwitchTo(id, window) == Tapped(id) /\ Only(Shows(To(window), cart))

Navigate ==
    \/ SwitchTo("clear", "CLEAR_CONFIRM") \/ SwitchTo("clear_cancelled", "MAIN")
    \/ SwitchTo("back_to_cart", "MAIN") \/ SwitchTo("quantity", "QUANTITY")
    \/ SwitchTo("back_to_line", "LINE") \/ SwitchTo("back_to_address", "ADDRESS")
    \/ SwitchTo("back_to_recipient", "RECIPIENT") \/ SwitchTo("back_to_phone", "PHONE")
    \/ SwitchTo("back_to_comment", "COMMENT")

\* PrevPage and NextPage.
TurnPage ==
    \E id \in {"cart_prev", "cart_next"} :
        Tapped(id) /\ Only(Shows([dialog EXCEPT !.page = update.item], cart))

handle_cart == queue # <<>> /\ ~placing /\ update.id = "/cart" /\ Only(Restarts(Open("MAIN"), cart))

on_line_selected ==
    /\ Tapped("line")
    /\ Only(Shows([dialog EXCEPT !.window = "LINE", !.product = update.item], cart))

\* Mutant: the buttons act on the top line of the page.
TopOfThePage ==
    LET page == PageOf(lines(cart), OldestFirst, dialog.page)
    IN  IF page = {} THEN dialog.product ELSE Min(page)

selected_product_id == dialog.product

on_increased ==
    LET p == selected_product_id
    IN  /\ Tapped("plus") /\ offers[p].active /\ cart[p] < MAX_QUANTITY
        /\ Commits(dialog, [cart EXCEPT ![p] = @ + 1])

\* DecreaseCartLine: a line that is gone is refused, the last piece takes the line.
Decreased(c, p) == IF c[p] = 0 THEN {} ELSE {[c EXCEPT ![p] = @ - 1]}

\* The screen is left with the last piece it showed.
on_decreased ==
    /\ Tapped("minus")
    /\ \E c \in Decreased(cart, selected_product_id) :
          Commits(IF dialog.drawn <= 1 THEN To("MAIN") ELSE dialog, c)

on_line_removed ==
    LET p == selected_product_id
    IN  /\ Tapped("remove_line") /\ cart[p] > 0
        /\ Commits(To("MAIN"), [cart EXCEPT ![p] = 0])

on_quantity_typed ==
    LET p == selected_product_id
    IN  /\ Typed("QUANTITY", 1..MAX_QUANTITY) /\ cart[p] > 0
        /\ Commits(To("LINE"), [cart EXCEPT ![p] = update.item])

on_unavailable_removed ==
    /\ Tapped("remove_unavailable")
    /\ Commits(To("MAIN"), [p \in Products |-> IF offers[p].active THEN cart[p] ELSE 0])

on_cart_cleared ==
    Tapped("clear_confirmed") /\ Commits(To("MAIN"), [p \in Products |-> 0])

-----------------------------------------------------------------------------
(* Filling in the order *)

StartCheckout ==
    Tapped("checkout")
      /\ Only(Restarts([dialog EXCEPT !.window = "ADDRESS", !.form = BlankForm], cart))

\* Cancel: the cart is underneath.
BackToTheCart ==
    /\ \E id \in {"cancel_address", "cancel_checkout", "close_already_placed"} : Tapped(id)
    /\ Only(Restarts([dialog EXCEPT !.window = "MAIN", !.form = BlankForm], cart))

Close ==
    /\ \E id \in {"close_cart", "to_catalog", "close_done", "done_to_catalog", "open_order"} :
          Tapped(id)
    /\ Only(Restarts(Closed, cart))

\* The form is filled in, and the next window asks.
Answers(form, next) ==
    Only(Shows([dialog EXCEPT !.window = next, !.form = form], cart))

AddressIs(a) == Answers([dialog.form EXCEPT !.address = a], "RECIPIENT")

on_address_typed == Typed("ADDRESS", Addresses) /\ AddressIs(update.item)

\* The address is read again, not taken from the button.
on_last_address_chosen == Tapped("last_address") /\ last_address # None /\ AddressIs(last_address)

NameIs(n) == Answers([dialog.form EXCEPT !.name = n], "PHONE")

on_recipient_typed == Typed("RECIPIENT", Names) /\ NameIs(update.item)

on_recipient_is_me == Tapped("recipient_is_me") /\ NameIs(Me)

PhoneIs(n) == Answers([dialog.form EXCEPT !.phone = n], "COMMENT")

on_phone_typed == Typed("PHONE", Phones) /\ PhoneIs(update.item)

on_own_phone_chosen == Tapped("own_phone") /\ PhoneIs(MyPhone)

CommentIs(t) == Answers([dialog.form EXCEPT !.comment = t], "CONFIRM")

on_comment_typed == Typed("COMMENT", Comments) /\ CommentIs(update.item)

on_comment_skipped == Tapped("skip_comment") /\ CommentIs(None)

-----------------------------------------------------------------------------
(* Placing it *)

\* Start data of the done screen.
DoneWith(number, id) == [number |-> number, id |-> id, phone |-> dialog.form.phone]

_show_done(number, id) ==
    Restarts([Open("DONE") EXCEPT !.start = DoneWith(number, id)], [p \in Products |-> 0])

\* An order this dialog remembers is shown again; otherwise the message loses its
\* buttons before the command goes out.
on_confirmed ==
    /\ Tapped("confirm")
    /\ IF dialog.form.number # None
       THEN _show_done(dialog.form.number, dialog.form.number)
       ELSE /\ placing' = TRUE
            /\ screen' = Screen(To("PLACING"), cart)
            /\ UNCHANGED <<dialog, queue>>
    /\ UNCHANGED <<cart, offers, orders>>

\* Mutant: only a line that came or went is noticed.
AsManyAsShown(form) == Cardinality(lines(cart)) = form.count

\* _ensure_not_repriced, against what the confirmation printed.
AsShown(form) == Cardinality(lines(cart)) = form.count /\ total(cart) = form.total

\* Mutant: the order goes to the name on the profile.
OrderForTheBuyer(form) ==
    [address |-> form.address, name |-> Me, phone |-> form.phone, comment |-> form.comment,
     total |-> total(cart), count |-> Cardinality(lines(cart))]

_place_order(form) ==
    [address |-> form.address, name |-> form.name, phone |-> form.phone,
     comment |-> form.comment, total |-> total(cart), count |-> Cardinality(lines(cart))]

\* The order is committed and the cart empty; when the done screen cannot be drawn the
\* dialog is as it was before the tap, without the number, or gone.
Placed ==
    /\ placing /\ Len(orders) < MaxOrders
    /\ can_checkout(cart) /\ AsShown(dialog.form)
    /\ orders' = Append(orders, _place_order(dialog.form))
    /\ cart' = [p \in Products |-> 0] /\ UNCHANGED offers
    /\ \/ _show_done(Len(orders'), Len(orders'))
       \/ /\ dialog' \in {dialog, Closed}
          /\ Handled /\ UNCHANGED screen

\* EmptyCartError.
AlreadyPlaced ==
    placing /\ lines(cart) = {} /\ Only(Shows(To("ALREADY_PLACED"), cart))

\* Any other refusal: the confirmation is drawn again before the exception travels on,
\* and with the exception what drawing it left in the dialog is lost.
Refused ==
    /\ placing /\ lines(cart) # {} /\ ~(can_checkout(cart) /\ AsShown(dialog.form))
    /\ screen' = Screen(Remembered(dialog, cart), cart)
    /\ Handled /\ UNCHANGED <<dialog, cart, offers, orders>>

\* Nobody answers the update, or its handler failed; a start that failed has taken the
\* old dialog away.
Dropped ==
    /\ queue # <<>> /\ Handled
    /\ \/ UNCHANGED dialog
       \/ update.id \in {"/cart", "checkout"} /\ dialog' = Closed
    /\ UNCHANGED <<cart, offers, orders, screen>>

Handle ==
    \/ Navigate \/ TurnPage \/ handle_cart \/ on_line_selected \/ on_increased \/ on_decreased
    \/ on_line_removed \/ on_quantity_typed \/ on_unavailable_removed \/ on_cart_cleared
    \/ StartCheckout \/ BackToTheCart \/ Close \/ on_address_typed \/ on_last_address_chosen
    \/ on_recipient_typed \/ on_recipient_is_me \/ on_phone_typed \/ on_own_phone_chosen
    \/ on_comment_typed \/ on_comment_skipped \/ on_confirmed \/ Placed \/ AlreadyPlaced
    \/ Refused \/ Dropped

Next == Tap \/ Type \/ Command \/ ElsewhereInTheCart \/ Import \/ Handle

Spec == Init /\ [][Next]_vars

-----------------------------------------------------------------------------
(* Properties *)

\* An update of this chat was just handled.
JustHandled == queue # <<>> /\ queue' = Tail(queue)

\* The buttons of a line, and the number typed for it, change the line that was on the
\* message when they were sent, whatever was tapped or redrawn in between
\* (selected_product_id).
ActsOnTheLineShown ==
    [][JustHandled /\ update.id \in {"minus", "plus", "remove_line", "text"} /\ cart' # cart =>
          cart' = [cart EXCEPT ![update.saw.product] = cart'[update.saw.product]]]_vars

\* An order goes where, to whom and with the words that were on the confirmation its
\* tap was made on.
SentWhereItSaid ==
    [][orders' # orders =>
          LET o == Last(orders')
          IN  \A f \in {"address", "name", "phone", "comment"} : o[f] = update.saw[f]]_vars
=============================================================================
