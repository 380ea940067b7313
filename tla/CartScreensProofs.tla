------------------------- MODULE CartScreensProofs --------------------------
(***************************************************************************)
(* What the cart dialog and the checkout on top of it keep, however many   *)
(* updates are on their way, whatever changes the cart and the catalog     *)
(* meanwhile, and whichever redraws fail.                                  *)
(***************************************************************************)
EXTENDS MCCartScreens, SequenceTheorems, TLAPS

-----------------------------------------------------------------------------
(* The state *)

\* The windows that ask for a part of the form.
Asking == {"ADDRESS", "RECIPIENT", "PHONE", "COMMENT"}

Windows == CartWindows \cup Asking \cup {"CONFIRM", "ALREADY_PLACED", "DONE", "closed"}

\* The dialog and its form have their fields.
IsForm(f) ==
    f \in [address : {f.address}, name : {f.name}, phone : {f.phone}, comment : {f.comment},
           total : {f.total}, count : {f.count}, number : {f.number}]

IsDialog(d) ==
    /\ d \in [window : Windows, product : {d.product}, drawn : {d.drawn}, page : {d.page},
              form : {d.form}, start : {d.start}]
    /\ IsForm(d.form)

\* Two confirmations send the order to the same place, person and phone.
Same(a, b) ==
    a.address = b.address /\ a.name = b.name /\ a.phone = b.phone /\ a.comment = b.comment

LineIds == {"minus", "plus", "quantity", "remove_line", "back_to_cart"}

\* What fills in a part of the form and goes on.
Forward == {"text", "last_address", "recipient_is_me", "own_phone", "skip_comment"}

\* The update was sent from a message about the line p.
OfLine(u, p) == u.saw.product = p /\ u.id # "line"

\* The message shows the window the dialog is in, unless the order is on its way or the
\* redraw after it failed, or the dialog is gone.
ScreenOK(s, d) ==
    \/ d.window = "closed"
    \/ d.window = "CONFIRM" /\ s.window = "PLACING" /\ s.buttons = {}
    \/ /\ s.window = d.window
       /\ \A b \in s.buttons : b.id \in Widgets(d.window)
       /\ d.window \in {"LINE", "QUANTITY"} => s.about.product = d.product
       /\ d.window = "CONFIRM" => Same(s.about, d.form)

\* What waits behind an update that leaves the window cannot lead back into it with
\* another line or another form.
QueueOK(q, d) ==
    /\ d.window = "QUANTITY" => \A i \in 1..Len(q) : OfLine(q[i], d.product)
    /\ d.window = "LINE" =>
          \A i \in 1..Len(q) : q[i].id \in LineIds =>
             /\ q[i].saw.product = d.product
             /\ \A j \in 1..Len(q) : i < j => OfLine(q[j], d.product)
    /\ d.window \in {"MAIN", "CLEAR_CONFIRM"} =>
          \A i, j \in 1..Len(q) : i < j /\ q[i].id = "line" => q[j].id \notin LineIds
    /\ d.window \in Asking =>
          \A i, j \in 1..Len(q) :
             i < j /\ q[i].id \in Forward => q[j].id \notin {"confirm", "back_to_comment"}
    /\ d.window = "CONFIRM" =>
          /\ \A i \in 1..Len(q) : q[i].id = "confirm" => Same(q[i].saw, d.form)
          /\ \A i, j \in 1..Len(q) : i < j /\ q[i].id = "back_to_comment" => q[j].id \notin Forward

PlacingOK == placing => queue # <<>> /\ update.id = "confirm" /\ dialog.window = "CONFIRM"

IsSequence(s) == \E S : s \in Seq(S)

ChatOK ==
    /\ cart \in [Products -> Nat]
    /\ IsDialog(dialog)
    /\ ScreenOK(screen, dialog)
    /\ QueueOK(queue, dialog)
    /\ PlacingOK

IInv == ChatOK /\ IsSequence(orders) /\ IsSequence(queue)

\* As long as no confirmation was turned down, what is printed is what is remembered.
Printed ==
    ~refused /\ dialog.window = "CONFIRM" =>
        /\ screen.window = "CONFIRM" => screen.about = dialog.form
        /\ \A i \in 1..Len(queue) : queue[i].id = "confirm" => queue[i].saw = dialog.form

-----------------------------------------------------------------------------
(* Queues *)

LEMMA TailOfQueue ==
  ASSUME NEW q, IsSequence(q), q # <<>>
  PROVE  /\ IsSequence(Tail(q))
         /\ Len(q) \in Nat /\ Len(Tail(q)) \in Nat /\ 1 \in 1..Len(q) /\ Head(q) = q[1]
         /\ \A i \in 1..Len(Tail(q)) :
               i + 1 \in 1..Len(q) /\ 1 < i + 1 /\ Tail(q)[i] = q[i + 1]
<1>1. PICK S : q \in Seq(S)
  BY DEF IsSequence
<1>2. Tail(q) \in Seq(S)
  BY <1>1
<1> QED
  BY <1>1, <1>2 DEF IsSequence

LEMMA AppendToQueue ==
  ASSUME NEW q, IsSequence(q), NEW u
  PROVE  /\ IsSequence(Append(q, u))
         /\ Len(q) \in Nat /\ Len(Append(q, u)) = Len(q) + 1
         /\ \A i \in 1..Len(q) : Append(q, u)[i] = q[i]
         /\ Append(q, u)[Len(q) + 1] = u
         /\ Append(q, u) # <<>>
         /\ q # <<>> => Head(Append(q, u)) = Head(q)
<1>1. PICK S : q \in Seq(S)
  BY DEF IsSequence
<1> DEFINE T == S \cup {u}
<1>2. q \in Seq(T) /\ u \in T
  BY <1>1
<1> HIDE DEF T
<1>3. Append(q, u) \in Seq(T)
  BY <1>2
<1> QED
  BY <1>2, <1>3 DEF IsSequence

LEMMA OutdatedQueue ==
  ASSUME NEW q, IsSequence(q)
  PROVE  /\ IsSequence(Outdated(q)) /\ Len(Outdated(q)) \in Nat
         /\ \A i \in 1..Len(Outdated(q)) : Outdated(q)[i].id \in {"text", "/cart", "outdated"}
<1>1. PICK S : q \in Seq(S)
  BY DEF IsSequence
<1> DEFINE T == S \cup {OutdatedTap}
<1>2. q \in Seq(T) /\ OutdatedTap \in T
  BY <1>1
<1> HIDE DEF T
<1>3. /\ DOMAIN q = 1..Len(q) /\ Len(q) \in Nat
      /\ \A i \in 1..Len(q) : q[i] \in T
  BY <1>2
<1>4. ASSUME NEW i \in 1..Len(q)
      PROVE  Outdated(q)[i] \in T /\ Outdated(q)[i].id \in {"text", "/cart", "outdated"}
  <2>1. \/ Outdated(q)[i] = q[i] /\ q[i].id \in {"text", "/cart"}
        \/ Outdated(q)[i] = OutdatedTap
    BY <1>3 DEF Outdated
  <2>2. OutdatedTap.id = "outdated"
    BY DEF OutdatedTap
  <2> QED
    BY <1>2, <1>3, <2>1, <2>2
<1>5. Outdated(q) = [i \in 1..Len(q) |-> Outdated(q)[i]]
  BY <1>3 DEF Outdated
<1>6. Outdated(q) \in Seq(T) /\ Len(Outdated(q)) = Len(q)
  BY <1>3, <1>4, <1>5
<1> QED
  BY <1>3, <1>4, <1>6 DEF IsSequence

LEMMA TailKeeps ==
  ASSUME NEW q, IsSequence(q), q # <<>>, NEW d, QueueOK(q, d)
  PROVE  QueueOK(Tail(q), d)
<1> DEFINE r == Tail(q)
<1>1. /\ Len(q) \in Nat /\ Len(r) \in Nat
      /\ \A i \in 1..Len(r) : i + 1 \in 1..Len(q) /\ r[i] = q[i + 1]
  BY TailOfQueue
<1> HIDE DEF r
<1>2. \A i, j \in 1..Len(r) : i < j => i + 1 < j + 1
  BY <1>1
<1>3. ASSUME d.window = "QUANTITY" PROVE \A i \in 1..Len(r) : OfLine(r[i], d.product)
  BY <1>1, <1>3 DEF QueueOK
<1>4. ASSUME d.window = "LINE", NEW i \in 1..Len(r), r[i].id \in LineIds
      PROVE  /\ r[i].saw.product = d.product
             /\ \A j \in 1..Len(r) : i < j => OfLine(r[j], d.product)
  BY <1>1, <1>2, <1>4 DEF QueueOK
<1>5. ASSUME d.window \in {"MAIN", "CLEAR_CONFIRM"}
      PROVE  \A i, j \in 1..Len(r) : i < j /\ r[i].id = "line" => r[j].id \notin LineIds
  BY <1>1, <1>2, <1>5 DEF QueueOK
<1>6. ASSUME d.window \in Asking
      PROVE  \A i, j \in 1..Len(r) :
                i < j /\ r[i].id \in Forward => r[j].id \notin {"confirm", "back_to_comment"}
  BY <1>1, <1>2, <1>6 DEF QueueOK
<1>7. ASSUME d.window = "CONFIRM"
      PROVE  /\ \A i \in 1..Len(r) : r[i].id = "confirm" => Same(r[i].saw, d.form)
             /\ \A i, j \in 1..Len(r) :
                   i < j /\ r[i].id = "back_to_comment" => r[j].id \notin Forward
  BY <1>1, <1>2, <1>7 DEF QueueOK
<1>8. QueueOK(r, d)
  BY <1>3, <1>4, <1>5, <1>6, <1>7 DEF QueueOK
<1> QED
  BY <1>8 DEF r

\* What the dialog the person is looking at adds to its queue.
LEMMA AppendKeeps ==
  ASSUME NEW q, IsSequence(q), NEW d, QueueOK(q, d), NEW u,
         u.id \in Widgets(d.window) \cup {"/cart"} \/ (u.id = "text" /\ d.window \in TakesText),
         d.window \in {"LINE", "QUANTITY"} => u.saw.product = d.product,
         d.window = "CONFIRM" /\ u.id = "confirm" => Same(u.saw, d.form)
  PROVE  QueueOK(Append(q, u), d)
<1> DEFINE r == Append(q, u)
<1>1. /\ Len(q) \in Nat /\ Len(r) = Len(q) + 1 /\ r[Len(q) + 1] = u
      /\ \A i \in 1..Len(q) : r[i] = q[i]
  BY AppendToQueue
<1> HIDE DEF r
<1>2. \A i \in 1..Len(r) : i \in 1..Len(q) \/ i = Len(q) + 1
  BY <1>1
<1>3. \A i, j \in 1..Len(r) : i < j => i \in 1..Len(q)
  BY <1>1
<1>4. ASSUME d.window = "QUANTITY" PROVE \A i \in 1..Len(r) : OfLine(r[i], d.product)
  <2>1. OfLine(u, d.product)
    BY <1>4 DEF OfLine, Widgets
  <2> QED
    BY <1>1, <1>2, <1>4, <2>1 DEF QueueOK
<1>5. ASSUME d.window = "LINE", NEW i \in 1..Len(r), r[i].id \in LineIds
      PROVE  /\ r[i].saw.product = d.product
             /\ \A j \in 1..Len(r) : i < j => OfLine(r[j], d.product)
  <2>1. OfLine(u, d.product)
    BY <1>5 DEF OfLine, Widgets
  <2>2. r[i].saw.product = d.product
    BY <1>1, <1>2, <1>5, <2>1 DEF QueueOK, OfLine
  <2>3. ASSUME NEW j \in 1..Len(r), i < j PROVE OfLine(r[j], d.product)
    BY <1>1, <1>2, <1>3, <1>5, <2>1, <2>3 DEF QueueOK
  <2> QED
    BY <2>2, <2>3
<1>6. ASSUME d.window \in {"MAIN", "CLEAR_CONFIRM"}
      PROVE  \A i, j \in 1..Len(r) : i < j /\ r[i].id = "line" => r[j].id \notin LineIds
  <2>1. u.id \notin LineIds
    BY <1>6 DEF Widgets, LineIds, TakesText
  <2> QED
    BY <1>1, <1>2, <1>3, <1>6, <2>1 DEF QueueOK
<1>7. ASSUME d.window \in Asking
      PROVE  \A i, j \in 1..Len(r) :
                i < j /\ r[i].id \in Forward => r[j].id \notin {"confirm", "back_to_comment"}
  <2>1. u.id \notin {"confirm", "back_to_comment"}
    BY <1>7 DEF Widgets, Asking
  <2> QED
    BY <1>1, <1>2, <1>3, <1>7, <2>1 DEF QueueOK
<1>8. ASSUME d.window = "CONFIRM"
      PROVE  /\ \A i \in 1..Len(r) : r[i].id = "confirm" => Same(r[i].saw, d.form)
             /\ \A i, j \in 1..Len(r) :
                   i < j /\ r[i].id = "back_to_comment" => r[j].id \notin Forward
  <2>1. u.id \notin Forward
    BY <1>8 DEF Widgets, Forward, TakesText
  <2> QED
    BY <1>1, <1>2, <1>3, <1>8, <2>1 DEF QueueOK
<1>9. QueueOK(r, d)
  BY <1>4, <1>5, <1>6, <1>7, <1>8 DEF QueueOK
<1> QED
  BY <1>9 DEF r

\* A queue of text and commands only, under a dialog that has just been started.
LEMMA OutdatedKeeps ==
  ASSUME NEW q, IsSequence(q), NEW d, d.window \in {"MAIN", "ADDRESS", "DONE", "closed"}
  PROVE  QueueOK(Outdated(q), d)
<1> DEFINE r == Outdated(q)
<1>1. \A i \in 1..Len(r) : r[i].id \in {"text", "/cart", "outdated"}
  BY OutdatedQueue
<1> HIDE DEF r
<1>2. QueueOK(r, d)
  BY <1>1 DEF QueueOK, LineIds, Asking
<1> QED
  BY <1>2 DEF r

\* Everything waiting was sent from the line d is about.
LEMMA QueueOfLine ==
  ASSUME NEW q, NEW d, d.window \in {"MAIN", "LINE", "QUANTITY"},
         \A i \in 1..Len(q) : OfLine(q[i], d.product)
  PROVE  QueueOK(q, d)
  BY DEF QueueOK, OfLine, Asking

-----------------------------------------------------------------------------
(* Messages *)

\* What a queue may hold depends on the window, the line and the form.
LEMMA QueueFrame ==
  ASSUME NEW q, NEW d, NEW e, QueueOK(q, d), e.window = d.window, e.product = d.product,
         Same(e.form, d.form)
  PROVE  QueueOK(q, e)
  BY DEF QueueOK, Same

\* The getters change none of these.
LEMMA RememberedDialog ==
  ASSUME NEW d, IsDialog(d), NEW c
  PROVE  /\ IsDialog(Remembered(d, c))
         /\ Remembered(d, c).window = d.window
         /\ Remembered(d, c).product = d.product
         /\ Same(Remembered(d, c).form, d.form)
<1> DEFINE n == Cardinality(lines(c))
           t == total(c)
           g == page_of(d.page, n)
<1>1. Remembered(d, c) =
        CASE d.window = "MAIN" -> [d EXCEPT !.page = g]
          [] d.window = "LINE" -> [d EXCEPT !.drawn = c[d.product]]
          [] d.window = "CONFIRM" -> [d EXCEPT !.form = [d.form EXCEPT !.total = t, !.count = n]]
          [] OTHER -> d
  BY DEF Remembered, remember_totals
<1> HIDE DEF n, t, g
<1>2. CASE d.window = "MAIN"
  <2>1. Remembered(d, c) = [d EXCEPT !.page = g]
    BY <1>1, <1>2
  <2> QED
    BY <2>1 DEF IsDialog, Same
<1>3. CASE d.window = "LINE"
  <2>1. Remembered(d, c) = [d EXCEPT !.drawn = c[d.product]]
    BY <1>1, <1>3
  <2> QED
    BY <2>1 DEF IsDialog, Same
<1>4. CASE d.window = "CONFIRM"
  <2> DEFINE o == d.form
             f == [o EXCEPT !.total = t, !.count = n]
  <2>1. IsForm(o)
    BY DEF IsDialog
  <2> HIDE DEF o
  <2>2. IsForm(f) /\ Same(f, o)
    BY <2>1 DEF IsForm, Same
  <2>3. Remembered(d, c) = [d EXCEPT !.form = f]
    BY <1>1, <1>4 DEF o
  <2> HIDE DEF f
  <2> QED
    BY <2>2, <2>3 DEF IsDialog, o
<1>5. CASE d.window \notin {"MAIN", "LINE", "CONFIRM"}
  BY <1>1, <1>5 DEF Same
<1> QED
  BY <1>2, <1>3, <1>4, <1>5

LEMMA ButtonIds ==
  /\ \A ids : \A b \in Plain(ids) : b.id \in ids
  /\ \A c, n : \A b \in PageOfLines(c, n) : b.id \in {"line", "cart_prev", "cart_next"}
<1>1. ASSUME NEW ids, NEW b \in Plain(ids) PROVE b.id \in ids
  BY DEF Plain, Button
<1>2. ASSUME NEW c, NEW n, NEW b \in PageOfLines(c, n)
      PROVE  b.id \in {"line", "cart_prev", "cart_next"}
  <2>1. \/ \E x \in PageOf(lines(c), OldestFirst, n) : b = [id |-> "line", item |-> x]
        \/ b = [id |-> "cart_prev", item |-> n - 1]
        \/ b = [id |-> "cart_next", item |-> n + 1]
    BY DEF PageOfLines, ListButtons, Pager, Button
  <2> QED
    BY <2>1
<1> QED
  BY <1>1, <1>2

LEMMA CartDrawn ==
  ASSUME NEW d, NEW c, d.window \in CartWindows
  PROVE  \A b \in CartButtons(d, c) : b.id \in Widgets(d.window)
<1> SUFFICES ASSUME NEW b \in CartButtons(d, c) PROVE b.id \in Widgets(d.window)
  OBVIOUS
<1>1. CASE d.window = "MAIN"
  <2>1. \/ b \in PageOfLines(c, d.page)
        \/ b \in Plain({"to_catalog", "close_cart"}) \/ b \in Plain({"remove_unavailable"})
        \/ b \in Plain({"checkout"}) \/ b \in Plain({"clear"})
    BY <1>1 DEF CartButtons
  <2> QED
    BY <1>1, <2>1, ButtonIds DEF Widgets
<1>2. CASE d.window = "LINE"
  <2>1. b \in Plain({"back_to_cart"}) \/ b \in Plain({"minus", "plus", "quantity", "remove_line"})
    BY <1>2 DEF CartButtons
  <2> QED
    BY <1>2, <2>1, ButtonIds DEF Widgets
<1>3. CASE d.window = "QUANTITY"
  BY <1>3, ButtonIds DEF CartButtons, Widgets
<1>4. CASE d.window = "CLEAR_CONFIRM"
  BY <1>4, ButtonIds DEF CartButtons, Widgets
<1> QED
  BY <1>1, <1>2, <1>3, <1>4 DEF CartWindows

LEMMA CheckoutDrawn ==
  ASSUME NEW d, d.window \in Windows \ CartWindows
  PROVE  \A b \in CheckoutButtons(d) : b.id \in Widgets(d.window)
<1> SUFFICES ASSUME NEW b \in CheckoutButtons(d) PROVE b.id \in Widgets(d.window)
  OBVIOUS
<1>1. CASE d.window = "ADDRESS"
  <2>1. b \in Plain({"cancel_address"}) \/ b \in Plain({"last_address"})
    BY <1>1 DEF CheckoutButtons
  <2> QED
    BY <1>1, <2>1, ButtonIds DEF Widgets
<1>2. CASE d.window = "DONE"
  <2>1. b \in Plain({"done_to_catalog", "close_done"}) \/ b \in Plain({"open_order"})
    BY <1>2 DEF CheckoutButtons
  <2> QED
    BY <1>2, <2>1, ButtonIds DEF Widgets
<1>3. CASE d.window = "RECIPIENT"
  BY <1>3, ButtonIds DEF CheckoutButtons, Widgets
<1>4. CASE d.window = "PHONE"
  BY <1>4, ButtonIds DEF CheckoutButtons, Widgets
<1>5. CASE d.window = "COMMENT"
  BY <1>5, ButtonIds DEF CheckoutButtons, Widgets
<1>6. CASE d.window = "CONFIRM"
  BY <1>6, ButtonIds DEF CheckoutButtons, Widgets
<1>7. CASE d.window = "ALREADY_PLACED"
  BY <1>7, ButtonIds DEF CheckoutButtons, Widgets
<1>8. CASE d.window = "closed"
  BY <1>8 DEF CheckoutButtons
<1> QED
  BY <1>1, <1>2, <1>3, <1>4, <1>5, <1>6, <1>7, <1>8 DEF Windows, Asking

\* A message that was just drawn.
LEMMA Drawn ==
  ASSUME NEW d, NEW c, d.window \in Windows
  PROVE  /\ ScreenOK(Screen(d, c), d)
         /\ Screen(d, c).window = d.window
         /\ d.window = "CONFIRM" => Screen(d, c).about = d.form
<1>1. /\ Screen(d, c).window = d.window /\ Screen(d, c).about = About(d, c)
      /\ Screen(d, c).buttons =
            IF d.window \in CartWindows THEN CartButtons(d, c) ELSE CheckoutButtons(d)
  BY DEF Screen
<1>2. \A b \in Screen(d, c).buttons : b.id \in Widgets(d.window)
  BY <1>1, CartDrawn, CheckoutDrawn
<1>3. ASSUME d.window \in {"LINE", "QUANTITY"} PROVE About(d, c).product = d.product
  BY <1>3 DEF About
<1>4. ASSUME d.window = "CONFIRM" PROVE About(d, c) = d.form
  BY <1>4 DEF About
<1> QED
  BY <1>1, <1>2, <1>3, <1>4 DEF ScreenOK, Same

-----------------------------------------------------------------------------
(* Steps *)

\* The dialog and the message stay as they are, and the next update has its turn.
LEMMA HandledStep ==
  ASSUME IInv, queue # <<>>, Handled, cart' \in [Products -> Nat], IsSequence(orders'),
         UNCHANGED dialog, ScreenOK(screen', dialog)
  PROVE  IInv'
<1>1. queue' = Tail(queue) /\ placing' = FALSE
  BY DEF Handled
<1>2. IsSequence(queue') /\ QueueOK(queue', dialog)
  BY <1>1, TailOfQueue, TailKeeps DEF IInv, ChatOK
<1>3. ChatOK'
  BY <1>1, <1>2 DEF IInv, ChatOK, PlacingOK
<1> QED
  BY <1>2, <1>3 DEF IInv

\* A message is drawn that agrees with what is left in the queue.
LEMMA DrawnStep ==
  ASSUME NEW d, IsDialog(d), NEW c \in [Products -> Nat], NEW q, IsSequence(q), QueueOK(q, d),
         dialog' = Remembered(d, c), screen' = Screen(Remembered(d, c), c), queue' = q,
         placing' = FALSE, cart' \in [Products -> Nat], IsSequence(orders')
  PROVE  IInv' /\ dialog'.window = d.window
<1> DEFINE e == Remembered(d, c)
<1>1. IsDialog(e) /\ e.window = d.window /\ e.product = d.product /\ Same(e.form, d.form)
  BY RememberedDialog
<1>2. e.window \in Windows
  BY <1>1 DEF IsDialog
<1> HIDE DEF e
<1>3. ScreenOK(Screen(e, c), e)
  BY <1>2, Drawn
<1>4. QueueOK(q, e)
  BY <1>1, QueueFrame
<1>5. dialog' = e /\ screen' = Screen(e, c)
  BY DEF e
<1>6. ChatOK'
  BY <1>1, <1>3, <1>4, <1>5 DEF ChatOK, PlacingOK
<1> QED
  BY <1>1, <1>5, <1>6 DEF IInv

LEMMA ShowsStep ==
  ASSUME IInv, queue # <<>>, NEW d, IsDialog(d), QueueOK(Tail(queue), d),
         NEW c \in [Products -> Nat], Shows(d, c), cart' \in [Products -> Nat], UNCHANGED orders
  PROVE  IInv' /\ dialog'.window = d.window
<1>1. IsSequence(Tail(queue)) /\ IsSequence(orders')
  BY TailOfQueue DEF IInv
<1> QED
  BY <1>1, DrawnStep DEF Shows, Handled

LEMMA CommitsStep ==
  ASSUME IInv, queue # <<>>, NEW d, IsDialog(d), QueueOK(Tail(queue), d),
         NEW c \in [Products -> Nat], Commits(d, c)
  PROVE  IInv' /\ dialog'.window \in {dialog.window, d.window}
<1>1. CASE Shows(d, c)
  BY <1>1, ShowsStep DEF Commits
<1>2. CASE Handled /\ UNCHANGED <<dialog, screen>>
  BY <1>2, HandledStep DEF Commits, IInv, ChatOK
<1> QED
  BY <1>1, <1>2 DEF Commits

LEMMA RestartsStep ==
  ASSUME IInv, queue # <<>>, NEW d, IsDialog(d), d.window \in {"MAIN", "ADDRESS", "DONE", "closed"},
         NEW c \in [Products -> Nat], Restarts(d, c), cart' \in [Products -> Nat],
         IsSequence(orders')
  PROVE  IInv' /\ dialog'.window = d.window
<1> DEFINE q == Outdated(Tail(queue))
<1>1. IsSequence(Tail(queue))
  BY TailOfQueue DEF IInv
<1>2. IsSequence(q) /\ QueueOK(q, d)
  BY <1>1, OutdatedQueue, OutdatedKeeps
<1>3. queue' = q
  BY DEF Restarts
<1> HIDE DEF q
<1> QED
  BY <1>2, <1>3, DrawnStep DEF Restarts

\* The dialogs the handlers end in.
LEMMA ToDialog ==
  ASSUME IInv, NEW w \in Windows
  PROVE  /\ IsDialog(To(w)) /\ To(w).window = w
         /\ To(w).product = dialog.product /\ To(w).form = dialog.form
  BY DEF IInv, ChatOK, IsDialog, To

LEMMA OpenDialog ==
  ASSUME NEW w \in Windows
  PROVE  /\ IsDialog(Open(w)) /\ Open(w).window = w
         /\ Open(w) \in [window : {w}, product : {None}, drawn : {0}, page : {0},
                         form : {BlankForm}, start : {None}]
         /\ IsForm(BlankForm)
<1>1. IsForm(BlankForm)
  BY DEF IsForm, BlankForm
<1> HIDE DEF BlankForm
<1> QED
  BY <1>1 DEF IsDialog, Open

LEMMA InitIInv == Init => IInv
<1> SUFFICES ASSUME Init PROVE IInv
  OBVIOUS
<1>1. IsDialog(dialog) /\ dialog.window = "closed"
  BY OpenDialog DEF Init, Closed, Windows
<1>2. IsSequence(orders) /\ IsSequence(queue)
  <2>1. PICK S : FirstOrders \in Seq(S)
    BY CartScreensAssumption
  <2>2. << >> \in Seq({})
    OBVIOUS
  <2> QED
    BY <2>1, <2>2 DEF Init, IsSequence
<1>3. cart \in [Products -> Nat]
  BY CartScreensAssumption DEF Init
<1>4. QueueOK(queue, dialog)
  BY <1>1 DEF Init, QueueOK, Asking
<1>5. ScreenOK(screen, dialog) /\ PlacingOK
  BY <1>1 DEF Init, ScreenOK, PlacingOK
<1> QED
  BY <1>1, <1>2, <1>3, <1>4, <1>5 DEF IInv, ChatOK

-----------------------------------------------------------------------------
(* The person, and the world *)

LEMMA SendsStep ==
  ASSUME IInv, NEW b, Sends(b),
         \/ b \in screen.buttons
         \/ b.id = "/cart"
         \/ b.id = "text" /\ screen.window \in TakesText
  PROVE  IInv'
<1> DEFINE u == [id |-> b.id, item |-> b.item, saw |-> screen.about]
<1>1. queue' = Append(queue, u) /\ UNCHANGED <<cart, offers, orders, dialog, screen, placing>>
  BY DEF Sends
<1>2. u.id = b.id /\ u.saw = screen.about
  OBVIOUS
<1> HIDE DEF u
<1>3. /\ IsSequence(queue') /\ queue' # <<>>
      /\ queue # <<>> => Head(queue') = Head(queue)
  BY <1>1, AppendToQueue DEF IInv
<1>4. PlacingOK'
  BY <1>1, <1>3 DEF IInv, ChatOK, PlacingOK, update
<1>5. CASE dialog.window = "closed"
  <2>1. QueueOK(queue', dialog)
    BY <1>5 DEF QueueOK, Asking
  <2> QED
    BY <1>1, <1>3, <1>4, <2>1 DEF IInv, ChatOK
<1>6. CASE dialog.window # "closed"
  <2>1. ScreenOK(screen, dialog)
    BY DEF IInv, ChatOK
  <2>2. \/ u.id \in Widgets(dialog.window) \cup {"/cart"}
        \/ u.id = "text" /\ dialog.window \in TakesText
    BY <1>2, <1>6, <2>1 DEF ScreenOK, TakesText
  <2>3. dialog.window \in {"LINE", "QUANTITY"} => u.saw.product = dialog.product
    BY <1>2, <1>6, <2>1 DEF ScreenOK
  <2>4. dialog.window = "CONFIRM" /\ u.id = "confirm" => Same(u.saw, dialog.form)
    BY <1>2, <1>6, <2>1 DEF ScreenOK, TakesText
  <2>5. QueueOK(queue', dialog)
    BY <1>1, <2>2, <2>3, <2>4, AppendKeeps DEF IInv, ChatOK
  <2> QED
    BY <1>1, <1>3, <1>4, <2>5 DEF IInv, ChatOK
<1> QED
  BY <1>5, <1>6

LEMMA PersonStep ==
  ASSUME IInv, Tap \/ Type \/ Command
  PROVE  IInv'
<1>1. CASE Tap
  BY <1>1, SendsStep DEF Tap
<1>2. CASE Type
  <2>1. PICK t \in TextFor(screen.window) : Sends(Button("text", t))
    BY <1>2 DEF Type
  <2>2. Button("text", t).id = "text"
    BY DEF Button
  <2> QED
    BY <1>2, <2>1, <2>2, SendsStep DEF Type
<1>3. CASE Command
  <2>1. Button("/cart", None).id = "/cart"
    BY DEF Button
  <2> QED
    BY <1>3, <2>1, SendsStep DEF Command
<1> QED
  BY <1>1, <1>2, <1>3

LEMMA WorldStep ==
  ASSUME IInv, ElsewhereInTheCart \/ Import
  PROVE  IInv'
<1>1. cart' \in [Products -> Nat]
  BY DEF ElsewhereInTheCart, Import, IInv, ChatOK
<1>2. UNCHANGED <<orders, dialog, screen, queue, placing>>
  BY DEF ElsewhereInTheCart, Import
<1> QED
  BY <1>1, <1>2 DEF IInv, ChatOK, PlacingOK, update

-----------------------------------------------------------------------------
(* The handlers *)

\* The window a tap is answered in, and what waits behind it.
LEMMA TappedIn ==
  ASSUME IInv, NEW id, Tapped(id)
  PROVE  /\ queue # <<>> /\ queue[1].id = id /\ id \in Widgets(dialog.window)
         /\ ~placing /\ update.id = id /\ update = queue[1]
         /\ IsDialog(dialog) /\ cart \in [Products -> Nat]
  BY TailOfQueue DEF Tapped, update, IInv, ChatOK

LEMMA TypedIn ==
  ASSUME IInv, NEW w, NEW texts, Typed(w, texts)
  PROVE  /\ queue # <<>> /\ queue[1].id = "text" /\ dialog.window = w
         /\ ~placing /\ update.id = "text" /\ update = queue[1]
         /\ IsDialog(dialog) /\ cart \in [Products -> Nat]
  BY TailOfQueue DEF Typed, update, IInv, ChatOK

\* Behind a tap on a line's card, and in the prompt for a number, everything is about
\* the line.
LEMMA BehindTheLine ==
  ASSUME IInv, queue # <<>>,
         (dialog.window = "LINE" /\ queue[1].id \in LineIds) \/ dialog.window = "QUANTITY"
  PROVE  /\ queue[1].saw.product = dialog.product
         /\ \A i \in 1..Len(Tail(queue)) : OfLine(Tail(queue)[i], dialog.product)
<1>1. /\ QueueOK(queue, dialog) /\ 1 \in 1..Len(queue) /\ Len(Tail(queue)) \in Nat
      /\ \A i \in 1..Len(Tail(queue)) :
            i + 1 \in 1..Len(queue) /\ 1 < i + 1 /\ Tail(queue)[i] = queue[i + 1]
  BY TailOfQueue DEF IInv, ChatOK
<1>2. CASE dialog.window = "LINE" /\ queue[1].id \in LineIds
  BY <1>1, <1>2 DEF QueueOK
<1>3. CASE dialog.window = "QUANTITY"
  BY <1>1, <1>3 DEF QueueOK, OfLine
<1> QED
  BY <1>2, <1>3

\* From the cart or its question to each other.
LEMMA CartToCart ==
  ASSUME IInv, queue # <<>>, dialog.window \in {"MAIN", "CLEAR_CONFIRM"},
         NEW d, d.window \in {"MAIN", "CLEAR_CONFIRM"}
  PROVE  QueueOK(Tail(queue), d)
<1>1. QueueOK(Tail(queue), dialog)
  BY TailKeeps DEF IInv, ChatOK
<1> QED
  BY <1>1 DEF QueueOK, Asking

\* From one question of the form to another.
LEMMA AskingToAsking ==
  ASSUME IInv, queue # <<>>, dialog.window \in Asking, NEW d, d.window \in Asking
  PROVE  QueueOK(Tail(queue), d)
<1>1. QueueOK(Tail(queue), dialog)
  BY TailKeeps DEF IInv, ChatOK
<1> QED
  BY <1>1 DEF QueueOK, Asking

\* The last answer: no confirmation of an earlier form waits behind it.
LEMMA AskingToConfirm ==
  ASSUME IInv, queue # <<>>, dialog.window \in Asking, queue[1].id \in Forward,
         NEW d, d.window = "CONFIRM"
  PROVE  /\ QueueOK(Tail(queue), d)
         /\ \A i \in 1..Len(Tail(queue)) : Tail(queue)[i].id # "confirm"
<1>1. /\ QueueOK(queue, dialog) /\ 1 \in 1..Len(queue)
      /\ \A i \in 1..Len(Tail(queue)) :
            i + 1 \in 1..Len(queue) /\ 1 < i + 1 /\ Tail(queue)[i] = queue[i + 1]
  BY TailOfQueue DEF IInv, ChatOK
<1>2. \A i \in 1..Len(Tail(queue)) : Tail(queue)[i].id \notin {"confirm", "back_to_comment"}
  BY <1>1 DEF QueueOK
<1> QED
  BY <1>2 DEF QueueOK, Asking

\* Back from the confirmation: nothing that waits fills in the form.
LEMMA ConfirmToAsking ==
  ASSUME IInv, queue # <<>>, dialog.window = "CONFIRM", queue[1].id = "back_to_comment",
         NEW d, d.window \in Asking
  PROVE  QueueOK(Tail(queue), d)
<1>1. /\ QueueOK(queue, dialog) /\ 1 \in 1..Len(queue)
      /\ \A i \in 1..Len(Tail(queue)) :
            i + 1 \in 1..Len(queue) /\ 1 < i + 1 /\ Tail(queue)[i] = queue[i + 1]
  BY TailOfQueue DEF IInv, ChatOK
<1>2. \A i \in 1..Len(Tail(queue)) : Tail(queue)[i].id \notin Forward
  BY <1>1 DEF QueueOK
<1> QED
  BY <1>2 DEF QueueOK, Asking

LEMMA LineToLine ==
  ASSUME IInv, queue # <<>>, NEW w \in {"MAIN", "LINE", "QUANTITY"},
         (dialog.window = "LINE" /\ queue[1].id \in LineIds) \/ dialog.window = "QUANTITY"
  PROVE  w \in Windows /\ IsDialog(To(w)) /\ QueueOK(Tail(queue), To(w))
<1> DEFINE d == To(w)
<1>1. w \in Windows
  BY DEF Windows, CartWindows
<1>2. IsDialog(d) /\ d.window = w /\ d.product = dialog.product
  BY <1>1, ToDialog
<1> HIDE DEF d
<1> DEFINE r == Tail(queue)
<1>3. \A i \in 1..Len(r) : OfLine(r[i], d.product)
  BY <1>2, BehindTheLine
<1> HIDE DEF r
<1>4. QueueOK(r, d)
  BY <1>2, <1>3, QueueOfLine
<1> QED
  BY <1>1, <1>2, <1>4 DEF d, r

LEMMA SwitchStep ==
  ASSUME IInv, NEW id, NEW w \in Windows, SwitchTo(id, w), QueueOK(Tail(queue), To(w))
  PROVE  IInv' /\ dialog'.window = w
<1>1. queue # <<>> /\ cart \in [Products -> Nat]
  BY TappedIn DEF SwitchTo
<1>2. Shows(To(w), cart) /\ UNCHANGED <<cart, offers, orders>>
  BY DEF SwitchTo, Only
<1>3. IsDialog(To(w)) /\ To(w).window = w
  BY ToDialog
<1> QED
  BY <1>1, <1>2, <1>3, ShowsStep

LEMMA NavigateStep ==
  ASSUME IInv, Navigate
  PROVE  IInv' /\ dialog'.window # "CONFIRM"
<1>1. CASE SwitchTo("clear", "CLEAR_CONFIRM") \/ SwitchTo("clear_cancelled", "MAIN")
  <2>1. PICK id \in {"clear", "clear_cancelled"}, w \in {"CLEAR_CONFIRM", "MAIN"} :
          SwitchTo(id, w)
    BY <1>1
  <2>2. queue # <<>> /\ dialog.window \in {"MAIN", "CLEAR_CONFIRM"} /\ w \in Windows
    BY <2>1, TappedIn DEF SwitchTo, Widgets, Windows, CartWindows
  <2>3. QueueOK(Tail(queue), To(w))
    BY <2>1, <2>2, ToDialog, CartToCart
  <2> QED
    BY <2>1, <2>2, <2>3, SwitchStep
<1>2. CASE SwitchTo("back_to_cart", "MAIN") \/ SwitchTo("quantity", "QUANTITY")
           \/ SwitchTo("back_to_line", "LINE")
  <2>1. PICK id \in {"back_to_cart", "quantity", "back_to_line"},
             w \in {"MAIN", "QUANTITY", "LINE"} : SwitchTo(id, w)
    BY <1>2
  <2>2. /\ queue # <<>> /\ w \in Windows
        /\ (dialog.window = "LINE" /\ queue[1].id \in LineIds) \/ dialog.window = "QUANTITY"
    BY <2>1, TappedIn DEF SwitchTo, Widgets, Windows, CartWindows, LineIds
  <2>3. QueueOK(Tail(queue), To(w))
    BY <2>2, LineToLine
  <2> QED
    BY <2>1, <2>2, <2>3, SwitchStep
<1>3. CASE SwitchTo("back_to_address", "ADDRESS") \/ SwitchTo("back_to_recipient", "RECIPIENT")
           \/ SwitchTo("back_to_phone", "PHONE")
  <2>1. PICK id \in {"back_to_address", "back_to_recipient", "back_to_phone"},
             w \in {"ADDRESS", "RECIPIENT", "PHONE"} : SwitchTo(id, w)
    BY <1>3
  <2>2. queue # <<>> /\ dialog.window \in Asking /\ w \in Asking /\ w \in Windows
    BY <2>1, TappedIn DEF SwitchTo, Widgets, Windows, Asking
  <2>3. QueueOK(Tail(queue), To(w))
    BY <2>2, ToDialog, AskingToAsking
  <2> QED
    BY <2>1, <2>2, <2>3, SwitchStep
<1>4. CASE SwitchTo("back_to_comment", "COMMENT")
  <2>1. /\ queue # <<>> /\ dialog.window = "CONFIRM" /\ queue[1].id = "back_to_comment"
        /\ "COMMENT" \in Windows /\ "COMMENT" \in Asking
    BY <1>4, TappedIn DEF SwitchTo, Widgets, Windows, Asking
  <2>2. QueueOK(Tail(queue), To("COMMENT"))
    BY <2>1, ToDialog, ConfirmToAsking
  <2> QED
    BY <1>4, <2>1, <2>2, SwitchStep
<1> QED
  BY <1>1, <1>2, <1>3, <1>4 DEF Navigate

LEMMA TurnPageStep ==
  ASSUME IInv, TurnPage
  PROVE  IInv' /\ dialog'.window # "CONFIRM"
<1>1. PICK id \in {"cart_prev", "cart_next"} :
        Tapped(id) /\ Only(Shows([dialog EXCEPT !.page = update.item], cart))
  BY DEF TurnPage
<1>2. queue # <<>> /\ dialog.window = "MAIN" /\ IsDialog(dialog) /\ cart \in [Products -> Nat]
  BY <1>1, TappedIn DEF Widgets
<1> DEFINE d == [dialog EXCEPT !.page = update.item]
<1>3. IsDialog(d) /\ d.window = "MAIN"
  BY <1>2 DEF IsDialog
<1>4. Shows(d, cart) /\ UNCHANGED <<cart, offers, orders>>
  BY <1>1 DEF Only
<1> HIDE DEF d
<1>5. QueueOK(Tail(queue), d)
  BY <1>2, <1>3, CartToCart
<1> QED
  BY <1>2, <1>3, <1>4, <1>5, ShowsStep

LEMMA LineSelectedStep ==
  ASSUME IInv, on_line_selected
  PROVE  IInv' /\ dialog'.window # "CONFIRM"
<1> DEFINE d == [dialog EXCEPT !.window = "LINE", !.product = update.item]
<1>1. /\ queue # <<>> /\ dialog.window = "MAIN" /\ queue[1].id = "line"
      /\ IsDialog(dialog) /\ cart \in [Products -> Nat]
  BY TappedIn DEF on_line_selected, Widgets
<1>2. Shows(d, cart) /\ UNCHANGED <<cart, offers, orders>>
  BY DEF on_line_selected, Only
<1>3. "LINE" \in Windows
  BY DEF Windows, CartWindows
<1>4. IsDialog(d) /\ d.window = "LINE"
  BY <1>1, <1>3 DEF IsDialog
<1> HIDE DEF d
<1>5. QueueOK(Tail(queue), d)
  <2>1. /\ QueueOK(queue, dialog) /\ 1 \in 1..Len(queue)
        /\ \A i \in 1..Len(Tail(queue)) :
              i + 1 \in 1..Len(queue) /\ 1 < i + 1 /\ Tail(queue)[i] = queue[i + 1]
    BY <1>1, TailOfQueue DEF IInv, ChatOK
  <2>2. \A i \in 1..Len(Tail(queue)) : Tail(queue)[i].id \notin LineIds
    BY <1>1, <2>1 DEF QueueOK
  <2> QED
    BY <1>4, <2>2 DEF QueueOK, Asking
<1> QED
  BY <1>1, <1>2, <1>4, <1>5, ShowsStep

\* The commands the card of a line and the prompt for a number send.
LEMMA LineCommandStep ==
  ASSUME IInv, on_increased \/ on_decreased \/ on_line_removed \/ on_quantity_typed
  PROVE  /\ IInv' /\ dialog'.window # "CONFIRM"
         /\ queue # <<>> /\ update.saw.product = dialog.product
         /\ cart \in [Products -> Nat]
         /\ \E n : cart' = [cart EXCEPT ![dialog.product] = n]
<1> DEFINE p == dialog.product
<1>1. /\ queue # <<>> /\ update = queue[1]
      /\ (dialog.window = "LINE" /\ queue[1].id \in LineIds) \/ dialog.window = "QUANTITY"
      /\ IsDialog(dialog) /\ cart \in [Products -> Nat]
  BY TappedIn, TypedIn DEF on_increased, on_decreased, on_line_removed, on_quantity_typed,
     Widgets, LineIds
<1>2. \E w \in {"MAIN", "LINE"}, n \in Nat :
        \/ Commits(To(w), [cart EXCEPT ![p] = n])
        \/ Commits(dialog, [cart EXCEPT ![p] = n])
  <2>1. CASE on_increased
    <3>1. Commits(dialog, [cart EXCEPT ![p] = cart[p] + 1])
      BY <2>1 DEF on_increased, selected_product_id
    <3>2. p \in Products => cart[p] + 1 \in Nat
      BY <1>1
    <3>3. \E n \in Nat : [cart EXCEPT ![p] = cart[p] + 1] = [cart EXCEPT ![p] = n]
      BY <1>1, <3>2
    <3> QED
      BY <3>1, <3>3
  <2>2. CASE on_decreased
    <3>1. PICK c \in Decreased(cart, p) :
            Commits(IF dialog.drawn <= 1 THEN To("MAIN") ELSE dialog, c)
      BY <2>2 DEF on_decreased, selected_product_id
    <3>2. c = [cart EXCEPT ![p] = cart[p] - 1] /\ cart[p] # 0
      BY <3>1 DEF Decreased
    <3>3. p \in Products => cart[p] - 1 \in Nat
      BY <1>1, <3>2
    <3>4. \E n \in Nat : c = [cart EXCEPT ![p] = n]
      BY <1>1, <3>2, <3>3
    <3> QED
      BY <3>1, <3>4
  <2>3. CASE on_line_removed
    <3>1. Commits(To("MAIN"), [cart EXCEPT ![p] = 0])
      BY <2>3 DEF on_line_removed, selected_product_id
    <3> QED
      BY <3>1
  <2>4. CASE on_quantity_typed
    <3>1. Commits(To("LINE"), [cart EXCEPT ![p] = update.item]) /\ update.item \in Nat
      BY <2>4 DEF on_quantity_typed, selected_product_id, Typed
    <3> QED
      BY <3>1
  <2> QED
    BY <2>1, <2>2, <2>3, <2>4
<1>3. PICK w \in {"MAIN", "LINE"}, n \in Nat :
        \/ Commits(To(w), [cart EXCEPT ![p] = n])
        \/ Commits(dialog, [cart EXCEPT ![p] = n])
  BY <1>2
<1>4. [cart EXCEPT ![p] = n] \in [Products -> Nat]
  BY <1>1
<1>5. QueueOK(Tail(queue), dialog)
  BY <1>1, TailKeeps DEF IInv, ChatOK
<1>6. IsDialog(To(w)) /\ QueueOK(Tail(queue), To(w)) /\ To(w).window = w
  BY <1>1, LineToLine, ToDialog
<1>7. IInv' /\ cart' = [cart EXCEPT ![p] = n] /\ dialog'.window # "CONFIRM"
  BY <1>1, <1>3, <1>4, <1>5, <1>6, CommitsStep DEF Commits
<1>8. update.saw.product = p
  BY <1>1, BehindTheLine
<1> QED
  BY <1>1, <1>7, <1>8

LEMMA CartCommandStep ==
  ASSUME IInv, on_unavailable_removed \/ on_cart_cleared
  PROVE  IInv' /\ dialog'.window # "CONFIRM"
<1>1. /\ queue # <<>> /\ dialog.window \in {"MAIN", "CLEAR_CONFIRM"}
      /\ cart \in [Products -> Nat]
  BY TappedIn DEF on_unavailable_removed, on_cart_cleared, Widgets
<1>2. "MAIN" \in Windows
  BY DEF Windows, CartWindows
<1> DEFINE d == To("MAIN")
<1>3. IsDialog(d) /\ d.window = "MAIN"
  BY <1>2, ToDialog
<1> HIDE DEF d
<1>4. QueueOK(Tail(queue), d)
  BY <1>1, <1>3, CartToCart
<1>5. PICK c \in [Products -> Nat] : Commits(d, c)
  <2>1. CASE on_unavailable_removed
    <3>1. [p \in Products |-> IF offers[p].active THEN cart[p] ELSE 0] \in [Products -> Nat]
      BY <1>1
    <3> QED
      BY <2>1, <3>1 DEF on_unavailable_removed, d
  <2>2. CASE on_cart_cleared
    <3>1. [p \in Products |-> 0] \in [Products -> Nat]
      OBVIOUS
    <3> QED
      BY <2>2, <3>1 DEF on_cart_cleared, d
  <2> QED
    BY <2>1, <2>2
<1> QED
  BY <1>1, <1>3, <1>4, <1>5, CommitsStep

LEMMA RestartingStep ==
  ASSUME IInv, handle_cart \/ StartCheckout \/ BackToTheCart \/ Close
  PROVE  IInv' /\ dialog'.window # "CONFIRM"
<1>1. queue # <<>> /\ IsDialog(dialog) /\ cart \in [Products -> Nat] /\ IsSequence(orders)
  BY DEF handle_cart, StartCheckout, BackToTheCart, Close, Tapped, IInv, ChatOK
<1>2. {"MAIN", "ADDRESS", "closed"} \subseteq Windows
  BY DEF Windows, CartWindows, Asking
<1>3. IsForm(BlankForm)
  BY <1>2, OpenDialog
<1>4. ASSUME NEW w \in {"MAIN", "ADDRESS"}
      PROVE  LET d == [dialog EXCEPT !.window = w, !.form = BlankForm]
             IN  IsDialog(d) /\ d.window = w
  <2> HIDE DEF BlankForm
  <2> QED
    BY <1>1, <1>2, <1>3 DEF IsDialog
<1>5. PICK d : /\ IsDialog(d) /\ d.window \in {"MAIN", "ADDRESS", "closed"}
               /\ Restarts(d, cart) /\ UNCHANGED <<cart, orders>>
  <2>1. CASE handle_cart
    <3>1. Restarts(Open("MAIN"), cart) /\ UNCHANGED <<cart, orders>>
      BY <2>1 DEF handle_cart, Only
    <3> QED
      BY <1>2, <3>1, OpenDialog
  <2>2. CASE Close
    <3>1. Restarts(Open("closed"), cart) /\ UNCHANGED <<cart, orders>>
      BY <2>2 DEF Close, Only, Closed
    <3> QED
      BY <1>2, <3>1, OpenDialog
  <2>3. CASE StartCheckout
    <3>1. /\ Restarts([dialog EXCEPT !.window = "ADDRESS", !.form = BlankForm], cart)
          /\ UNCHANGED <<cart, orders>>
      BY <2>3 DEF StartCheckout, Only
    <3> QED
      BY <1>4, <3>1
  <2>4. CASE BackToTheCart
    <3>1. /\ Restarts([dialog EXCEPT !.window = "MAIN", !.form = BlankForm], cart)
          /\ UNCHANGED <<cart, orders>>
      BY <2>4 DEF BackToTheCart, Only
    <3> QED
      BY <1>4, <3>1
  <2> QED
    BY <2>1, <2>2, <2>3, <2>4
<1> QED
  BY <1>1, <1>5, RestartsStep

-----------------------------------------------------------------------------
(* Filling in the order *)

LEMMA AnswersStep ==
  ASSUME IInv, queue # <<>>, dialog.window \in Asking, queue[1].id \in Forward,
         NEW f, IsForm(f), NEW w \in Asking \cup {"CONFIRM"}, Answers(f, w)
  PROVE  IInv'
<1> DEFINE d == [dialog EXCEPT !.window = w, !.form = f]
<1>1. w \in Windows
  BY DEF Windows, Asking
<1>2. IsDialog(dialog) /\ cart \in [Products -> Nat]
  BY DEF IInv, ChatOK
<1>3. IsDialog(d) /\ d.window = w
  BY <1>1, <1>2 DEF IsDialog
<1>4. Shows(d, cart) /\ UNCHANGED <<cart, offers, orders>>
  BY DEF Answers, Only
<1> HIDE DEF d
<1>5. QueueOK(Tail(queue), d)
  BY <1>3, AskingToAsking, AskingToConfirm
<1> QED
  BY <1>2, <1>3, <1>4, <1>5, ShowsStep

LEMMA FormFilled ==
  ASSUME NEW o, IsForm(o), NEW x
  PROVE  /\ IsForm([o EXCEPT !.address = x]) /\ IsForm([o EXCEPT !.name = x])
         /\ IsForm([o EXCEPT !.phone = x]) /\ IsForm([o EXCEPT !.comment = x])
  BY DEF IsForm

\* Everything that answers a question of the form.
Fills ==
    \/ on_address_typed \/ on_last_address_chosen \/ on_recipient_typed \/ on_recipient_is_me
    \/ on_phone_typed \/ on_own_phone_chosen \/ on_comment_typed \/ on_comment_skipped

LEMMA Filled ==
  ASSUME IInv, Fills
  PROVE  /\ queue # <<>> /\ dialog.window \in Asking /\ queue[1].id \in Forward
         /\ \E f, w : IsForm(f) /\ w \in Asking \cup {"CONFIRM"} /\ Answers(f, w)
<1>1. /\ queue # <<>> /\ dialog.window \in Asking /\ queue[1].id \in Forward
      /\ IsDialog(dialog)
  <2>1. CASE on_address_typed \/ on_recipient_typed \/ on_phone_typed \/ on_comment_typed
    BY <2>1, TypedIn DEF on_address_typed, on_recipient_typed, on_phone_typed,
       on_comment_typed, Asking, Forward
  <2>2. CASE on_last_address_chosen
    BY <2>2, TappedIn DEF on_last_address_chosen, Asking, Forward, Widgets
  <2>3. CASE on_recipient_is_me \/ on_own_phone_chosen \/ on_comment_skipped
    BY <2>3, TappedIn DEF on_recipient_is_me, on_own_phone_chosen, on_comment_skipped,
       Asking, Forward, Widgets
  <2> QED
    BY <2>1, <2>2, <2>3 DEF Fills
<1> DEFINE o == dialog.form
<1>2. IsForm(o)
  BY <1>1 DEF IsDialog
<1>3. \E x : \/ Answers([o EXCEPT !.address = x], "RECIPIENT")
             \/ Answers([o EXCEPT !.name = x], "PHONE")
             \/ Answers([o EXCEPT !.phone = x], "COMMENT")
             \/ Answers([o EXCEPT !.comment = x], "CONFIRM")
  BY DEF Fills, on_address_typed, on_last_address_chosen, on_recipient_typed,
     on_recipient_is_me, on_phone_typed, on_own_phone_chosen, on_comment_typed,
     on_comment_skipped, AddressIs, NameIs, PhoneIs, CommentIs
<1> HIDE DEF o
<1>4. {"RECIPIENT", "PHONE", "COMMENT", "CONFIRM"} \subseteq Asking \cup {"CONFIRM"}
  BY DEF Asking
<1>5. \E f, w : IsForm(f) /\ w \in Asking \cup {"CONFIRM"} /\ Answers(f, w)
  BY <1>2, <1>3, <1>4, FormFilled
<1> QED
  BY <1>1, <1>5

LEMMA FillsStep ==
  ASSUME IInv, Fills
  PROVE  IInv'
  BY Filled, AnswersStep

-----------------------------------------------------------------------------
(* Placing it *)

LEMMA ShowDoneStep ==
  ASSUME IInv, queue # <<>>, NEW number, NEW id, _show_done(number, id),
         cart' \in [Products -> Nat], IsSequence(orders')
  PROVE  IInv' /\ dialog'.window = "DONE"
<1> DEFINE o == Open("DONE")
           st == DoneWith(number, id)
           d == [o EXCEPT !.start = st]
           c == [p \in Products |-> 0]
<1>1. "DONE" \in Windows
  BY DEF Windows
<1>2. IsDialog(o) /\ o.window = "DONE"
  BY <1>1, OpenDialog
<1>3. Restarts(d, c) /\ c \in [Products -> Nat]
  BY DEF _show_done
<1> HIDE DEF o, st, c
<1>4. IsDialog(d) /\ d.window = "DONE"
  BY <1>2 DEF IsDialog
<1> HIDE DEF d
<1>5. dialog'.window = "DONE"
  BY <1>3, <1>4, RememberedDialog DEF Restarts
<1> QED
  BY <1>3, <1>4, <1>5, RestartsStep

LEMMA PlacingScreen ==
  ASSUME IInv, NEW c
  PROVE  /\ Screen(To("PLACING"), c).window = "PLACING"
         /\ Screen(To("PLACING"), c).buttons = {}
<1> DEFINE d == To("PLACING")
<1>1. d.window = "PLACING"
  BY DEF IInv, ChatOK, IsDialog, To
<1> HIDE DEF d
<1>2. Screen(d, c).window = "PLACING" /\ Screen(d, c).buttons = {}
  BY <1>1 DEF Screen, CartWindows, CheckoutButtons
<1> QED
  BY <1>2 DEF d

LEMMA ConfirmedStep ==
  ASSUME IInv, on_confirmed
  PROVE  IInv'
<1>1. /\ queue # <<>> /\ dialog.window = "CONFIRM" /\ update.id = "confirm"
      /\ UNCHANGED <<cart, offers, orders>>
  BY TappedIn DEF on_confirmed, Widgets
<1>2. cart' \in [Products -> Nat] /\ IsSequence(orders')
  BY <1>1 DEF IInv, ChatOK
<1>3. CASE dialog.form.number # None
  BY <1>1, <1>2, <1>3, ShowDoneStep DEF on_confirmed
<1>4. CASE dialog.form.number = None
  <2>1. placing' = TRUE /\ screen' = Screen(To("PLACING"), cart) /\ UNCHANGED <<dialog, queue>>
    BY <1>4 DEF on_confirmed
  <2>2. ScreenOK(screen', dialog)
    BY <1>1, <2>1, PlacingScreen DEF ScreenOK
  <2> QED
    BY <1>1, <1>2, <2>1, <2>2 DEF IInv, ChatOK, PlacingOK, update
<1> QED
  BY <1>3, <1>4

LEMMA ClosedOK ==
  ASSUME IInv, queue # <<>>, Handled, dialog' = Closed, cart' \in [Products -> Nat],
         IsSequence(orders')
  PROVE  IInv'
<1>1. IsDialog(dialog') /\ dialog'.window = "closed"
  BY OpenDialog DEF Closed, Windows
<1>2. ScreenOK(screen', dialog') /\ QueueOK(queue', dialog')
  BY <1>1 DEF ScreenOK, QueueOK, Asking
<1>3. IsSequence(queue') /\ placing' = FALSE
  BY TailOfQueue DEF Handled, IInv
<1> QED
  BY <1>1, <1>2, <1>3 DEF IInv, ChatOK, PlacingOK

LEMMA PlacedStep ==
  ASSUME IInv, Placed
  PROVE  IInv'
<1>1. queue # <<>> /\ dialog.window = "CONFIRM"
  BY DEF Placed, IInv, ChatOK, PlacingOK
<1>2. cart' = [p \in Products |-> 0] /\ orders' = Append(orders, _place_order(dialog.form))
  BY DEF Placed
<1>3. cart' \in [Products -> Nat] /\ IsSequence(orders')
  BY <1>2, AppendToQueue DEF IInv
<1>4. CASE _show_done(Len(orders'), Len(orders'))
  BY <1>1, <1>3, <1>4, ShowDoneStep
<1>5. CASE dialog' \in {dialog, Closed} /\ Handled /\ UNCHANGED screen
  <2>1. CASE dialog' = Closed
    BY <1>1, <1>3, <1>5, <2>1, ClosedOK
  <2>2. CASE dialog' = dialog
    BY <1>1, <1>3, <1>5, <2>2, HandledStep DEF IInv, ChatOK
  <2> QED
    BY <1>5, <2>1, <2>2
<1> QED
  BY <1>4, <1>5 DEF Placed

LEMMA AlreadyPlacedStep ==
  ASSUME IInv, AlreadyPlaced
  PROVE  IInv' /\ dialog'.window # "CONFIRM"
<1> DEFINE d == To("ALREADY_PLACED")
<1>1. queue # <<>> /\ cart \in [Products -> Nat]
  BY DEF AlreadyPlaced, IInv, ChatOK, PlacingOK
<1>2. "ALREADY_PLACED" \in Windows
  BY DEF Windows
<1>3. IsDialog(d) /\ d.window = "ALREADY_PLACED"
  BY <1>2, ToDialog
<1>4. Shows(d, cart) /\ UNCHANGED <<cart, offers, orders>>
  BY DEF AlreadyPlaced, Only
<1> HIDE DEF d
<1>5. QueueOK(Tail(queue), d)
  BY <1>3 DEF QueueOK, Asking
<1> QED
  BY <1>1, <1>3, <1>4, <1>5, ShowsStep

LEMMA RefusedStep ==
  ASSUME IInv, Refused
  PROVE  IInv'
<1> DEFINE e == Remembered(dialog, cart)
<1>1. queue # <<>> /\ dialog.window = "CONFIRM" /\ IsDialog(dialog)
  BY DEF Refused, IInv, ChatOK, PlacingOK
<1>2. IsDialog(e) /\ e.window = "CONFIRM" /\ Same(e.form, dialog.form)
  BY <1>1, RememberedDialog
<1>3. screen' = Screen(e, cart) /\ Handled /\ UNCHANGED <<dialog, cart, orders>>
  BY DEF Refused
<1> HIDE DEF e
<1>4. ScreenOK(Screen(e, cart), e) /\ Screen(e, cart).window = "CONFIRM"
  BY <1>2, Drawn DEF IsDialog
<1>5. ScreenOK(screen', dialog)
  BY <1>1, <1>2, <1>3, <1>4 DEF ScreenOK, Same
<1> QED
  BY <1>1, <1>3, <1>5, HandledStep DEF IInv, ChatOK

LEMMA DroppedStep ==
  ASSUME IInv, Dropped
  PROVE  IInv'
<1>1. /\ queue # <<>> /\ Handled /\ UNCHANGED <<cart, orders, screen>>
      /\ UNCHANGED dialog \/ dialog' = Closed
  BY DEF Dropped
<1>2. cart' \in [Products -> Nat] /\ IsSequence(orders')
  BY <1>1 DEF IInv, ChatOK
<1>3. CASE UNCHANGED dialog
  BY <1>1, <1>2, <1>3, HandledStep DEF IInv, ChatOK
<1>4. CASE dialog' = Closed
  BY <1>1, <1>2, <1>4, ClosedOK
<1> QED
  BY <1>1, <1>3, <1>4

-----------------------------------------------------------------------------
(* The invariant *)

LEMMA NextIInv == IInv /\ [Next]_vars => IInv'
<1> SUFFICES ASSUME IInv, [Next]_vars PROVE IInv'
  OBVIOUS
<1>1. CASE UNCHANGED vars
  BY <1>1 DEF vars, IInv, ChatOK, PlacingOK, update
<1>2. CASE Tap \/ Type \/ Command
  BY <1>2, PersonStep
<1>3. CASE ElsewhereInTheCart \/ Import
  BY <1>3, WorldStep
<1>4. CASE Handle
  <2>1. CASE Navigate \/ TurnPage \/ on_line_selected
    BY <2>1, NavigateStep, TurnPageStep, LineSelectedStep
  <2>2. CASE on_increased \/ on_decreased \/ on_line_removed \/ on_quantity_typed
    BY <2>2, LineCommandStep
  <2>3. CASE on_unavailable_removed \/ on_cart_cleared
    BY <2>3, CartCommandStep
  <2>4. CASE handle_cart \/ StartCheckout \/ BackToTheCart \/ Close
    BY <2>4, RestartingStep
  <2>5. CASE Fills
    BY <2>5, FillsStep
  <2>6. CASE on_confirmed \/ Placed \/ AlreadyPlaced
    BY <2>6, ConfirmedStep, PlacedStep, AlreadyPlacedStep
  <2>7. CASE Refused \/ Dropped
    BY <2>7, RefusedStep, DroppedStep
  <2> QED
    BY <1>4, <2>1, <2>2, <2>3, <2>4, <2>5, <2>6, <2>7 DEF Handle, Fills
<1> QED
  BY <1>1, <1>2, <1>3, <1>4 DEF Next

LEMMA Invariance == Spec => []IInv
BY InitIInv, NextIInv, PTL DEF Spec

-----------------------------------------------------------------------------
(***************************************************************************)
(* Theorems.                                                               *)
(***************************************************************************)

\* A queue is not its own tail.
LEMMA OneLess ==
  ASSUME NEW q, IsSequence(q), q # <<>>
  PROVE  Tail(q) # q
<1>1. PICK S : q \in Seq(S)
  BY DEF IsSequence
<1>2. Len(Tail(q)) # Len(q)
  BY <1>1
<1> QED
  BY <1>2

\* Who changes the cart.
LEMMA CartChanges ==
  ASSUME IInv, Next, cart' # cart
  PROVE  \/ ElsewhereInTheCart
         \/ on_increased \/ on_decreased \/ on_line_removed \/ on_quantity_typed
         \/ on_unavailable_removed \/ on_cart_cleared
         \/ Placed
<1>1. ~(Tap \/ Type \/ Command \/ Import)
  BY DEF Tap, Type, Command, Import, Sends
<1>2. ~(Navigate \/ TurnPage \/ on_line_selected)
  BY DEF Navigate, SwitchTo, TurnPage, on_line_selected, Only
<1>3. ~(handle_cart \/ StartCheckout \/ BackToTheCart \/ Close)
  BY DEF handle_cart, StartCheckout, BackToTheCart, Close, Only
<1>4. ~Fills
  BY Filled DEF Answers, Only
<1>5. ~(on_confirmed \/ AlreadyPlaced \/ Refused \/ Dropped)
  BY DEF on_confirmed, AlreadyPlaced, Refused, Dropped, Only
<1> QED
  BY <1>1, <1>2, <1>3, <1>4, <1>5 DEF Next, Handle, Fills

\* Who changes the orders.
LEMMA OrdersChange ==
  ASSUME IInv, Next, orders' # orders
  PROVE  Placed
<1>1. ~(Tap \/ Type \/ Command \/ Import \/ ElsewhereInTheCart)
  BY DEF Tap, Type, Command, Import, ElsewhereInTheCart, Sends
<1>2. ~(Navigate \/ TurnPage \/ on_line_selected)
  BY DEF Navigate, SwitchTo, TurnPage, on_line_selected, Only
<1>3. ~(handle_cart \/ StartCheckout \/ BackToTheCart \/ Close)
  BY DEF handle_cart, StartCheckout, BackToTheCart, Close, Only
<1>4. ~Fills
  BY Filled DEF Answers, Only
<1>5. ~(on_confirmed \/ AlreadyPlaced \/ Refused \/ Dropped)
  BY DEF on_confirmed, AlreadyPlaced, Refused, Dropped, Only
<1>6. ~(on_increased \/ on_decreased \/ on_line_removed \/ on_quantity_typed)
  BY DEF on_increased, on_decreased, on_line_removed, on_quantity_typed, Commits
<1>7. ~(on_unavailable_removed \/ on_cart_cleared)
  BY DEF on_unavailable_removed, on_cart_cleared, Commits
<1> QED
  BY <1>1, <1>2, <1>3, <1>4, <1>5, <1>6, <1>7 DEF Next, Handle, Fills

\* The buttons of a line and the number typed for it act on the line that was on the
\* message they were sent from, with any number of updates in flight: what waits behind a
\* tap that leaves the card was sent from that card, so selected_product_id cannot have
\* become another line by the time it is handled.
THEOREM LineShownIsLineChanged == Spec => ActsOnTheLineShown
<1>1. IInv /\ [Next]_vars =>
        [JustHandled /\ update.id \in {"minus", "plus", "remove_line", "text"} /\ cart' # cart =>
          cart' = [cart EXCEPT ![update.saw.product] = cart'[update.saw.product]]]_vars
  <2> SUFFICES ASSUME IInv, Next, JustHandled, cart' # cart,
                      update.id \in {"minus", "plus", "remove_line", "text"}
               PROVE  cart' = [cart EXCEPT ![update.saw.product] = cart'[update.saw.product]]
    OBVIOUS
  <2>1. ~ElsewhereInTheCart
    BY OneLess DEF ElsewhereInTheCart, JustHandled, IInv
  <2>2. ~(on_unavailable_removed \/ on_cart_cleared)
    BY DEF on_unavailable_removed, on_cart_cleared, Tapped
  <2>3. ~Placed
    BY DEF Placed, IInv, ChatOK, PlacingOK
  <2>4. on_increased \/ on_decreased \/ on_line_removed \/ on_quantity_typed
    BY <2>1, <2>2, <2>3, CartChanges
  <2> DEFINE p == update.saw.product
  <2>5. PICK n : p = dialog.product /\ cart \in [Products -> Nat]
                 /\ cart' = [cart EXCEPT ![dialog.product] = n]
    BY <2>4, LineCommandStep
  <2> HIDE DEF p
  <2>6. cart' = [cart EXCEPT ![p] = cart'[p]]
    BY <2>5
  <2> QED
    BY <2>6 DEF p
<1> QED
  BY <1>1, Invariance, PTL DEF Spec, ActsOnTheLineShown

\* The order that is placed, and the tap that confirmed it.
LEMMA PlacedFromItsTap ==
  ASSUME IInv, Placed
  PROVE  /\ Last(orders') = _place_order(dialog.form)
         /\ 1 \in 1..Len(queue) /\ queue[1] = update /\ update.id = "confirm"
         /\ dialog.window = "CONFIRM" /\ Same(update.saw, dialog.form)
<1>1. queue # <<>> /\ dialog.window = "CONFIRM" /\ update.id = "confirm"
      /\ orders' = Append(orders, _place_order(dialog.form))
  BY DEF Placed, IInv, ChatOK, PlacingOK
<1>2. 1 \in 1..Len(queue) /\ queue[1] = update
  BY <1>1, TailOfQueue DEF IInv, update
<1>3. Same(update.saw, dialog.form)
  BY <1>1, <1>2 DEF IInv, ChatOK, QueueOK
<1>4. Last(orders') = _place_order(dialog.form)
  BY <1>1, AppendToQueue DEF IInv, Last
<1> QED
  BY <1>1, <1>2, <1>3, <1>4

\* An order goes to the address, the person and the phone, and with the comment, that were
\* printed on the confirmation it was tapped on, with any number of updates in flight:
\* no answer to an earlier question can come between the tap and on_confirmed, since
\* nobody types before the message asks (Type).
THEOREM SentAsConfirmed == Spec => SentWhereItSaid
<1>1. IInv /\ [Next]_vars =>
        [orders' # orders =>
          LET o == Last(orders')
          IN  \A f \in {"address", "name", "phone", "comment"} : o[f] = update.saw[f]]_vars
  <2> SUFFICES ASSUME IInv, Next, orders' # orders,
                      NEW f \in {"address", "name", "phone", "comment"}
               PROVE  Last(orders')[f] = update.saw[f]
    OBVIOUS
  <2>1. /\ Last(orders') = _place_order(dialog.form)
        /\ Same(update.saw, dialog.form)
    BY OrdersChange, PlacedFromItsTap
  <2>2. /\ _place_order(dialog.form).address = dialog.form.address
        /\ _place_order(dialog.form).name = dialog.form.name
        /\ _place_order(dialog.form).phone = dialog.form.phone
        /\ _place_order(dialog.form).comment = dialog.form.comment
    BY DEF _place_order
  <2> QED
    BY <2>1, <2>2 DEF Same
<1> QED
  BY <1>1, Invariance, PTL DEF Spec, SentWhereItSaid

-----------------------------------------------------------------------------
(* What a confirmation costs *)

\* The dialog stays, and at most one update leaves the queue.
LEMMA PrintedFrame ==
  ASSUME IInv, Printed, UNCHANGED dialog, ~refused,
         queue' = queue \/ (queue # <<>> /\ queue' = Tail(queue)),
         screen' = screen \/ screen'.window # "CONFIRM"
  PROVE  Printed'
<1> SUFFICES ASSUME dialog.window = "CONFIRM"
             PROVE  /\ screen'.window = "CONFIRM" => screen'.about = dialog.form
                    /\ \A i \in 1..Len(queue') :
                          queue'[i].id = "confirm" => queue'[i].saw = dialog.form
  BY DEF Printed
<1>1. /\ screen.window = "CONFIRM" => screen.about = dialog.form
      /\ \A i \in 1..Len(queue) : queue[i].id = "confirm" => queue[i].saw = dialog.form
  BY DEF Printed
<1>2. ASSUME NEW i \in 1..Len(queue') PROVE \E j \in 1..Len(queue) : queue'[i] = queue[j]
  <2>1. CASE queue' = queue
    BY <2>1
  <2>2. CASE queue # <<>> /\ queue' = Tail(queue)
    BY <2>2, TailOfQueue DEF IInv
  <2> QED
    BY <2>1, <2>2
<1> QED
  BY <1>1, <1>2

LEMMA PrintedSent ==
  ASSUME IInv, Printed, ~refused, NEW b, Sends(b), b \in screen.buttons \/ b.id # "confirm"
  PROVE  Printed'
<1> DEFINE u == [id |-> b.id, item |-> b.item, saw |-> screen.about]
<1>1. queue' = Append(queue, u) /\ UNCHANGED <<dialog, screen>>
  BY DEF Sends
<1>2. u.id = b.id /\ u.saw = screen.about
  OBVIOUS
<1> HIDE DEF u
<1> SUFFICES ASSUME dialog.window = "CONFIRM"
             PROVE  \A i \in 1..Len(queue') :
                       queue'[i].id = "confirm" => queue'[i].saw = dialog.form
  BY <1>1 DEF Printed
<1>3. /\ screen.window = "CONFIRM" => screen.about = dialog.form
      /\ \A i \in 1..Len(queue) : queue[i].id = "confirm" => queue[i].saw = dialog.form
  BY DEF Printed
<1>4. u.id = "confirm" => u.saw = dialog.form
  <2>1. ScreenOK(screen, dialog)
    BY DEF IInv, ChatOK
  <2> QED
    BY <1>2, <1>3, <2>1 DEF ScreenOK
<1>5. \A i \in 1..Len(queue') : queue'[i] = u \/ \E j \in 1..Len(queue) : queue'[i] = queue[j]
  BY <1>1, AppendToQueue DEF IInv
<1> QED
  BY <1>3, <1>4, <1>5

\* The confirmation has just been drawn, and no tap on an earlier one waits.
LEMMA PrintedFilled ==
  ASSUME IInv, Fills
  PROVE  Printed'
<1>1. PICK f, w : IsForm(f) /\ w \in Asking \cup {"CONFIRM"} /\ Answers(f, w)
  BY Filled
<1> DEFINE d == [dialog EXCEPT !.window = w, !.form = f]
           e == Remembered(d, cart)
<1>2. IsDialog(dialog) /\ w \in Windows
  BY <1>1 DEF IInv, ChatOK, Windows, Asking
<1>3. IsDialog(d) /\ d.window = w
  BY <1>1, <1>2 DEF IsDialog
<1>4. dialog' = e /\ screen' = Screen(e, cart) /\ queue' = Tail(queue)
  BY <1>1 DEF Answers, Only, Shows, Handled
<1> HIDE DEF d
<1>5. IsDialog(e) /\ e.window = w
  BY <1>3, RememberedDialog
<1> HIDE DEF e
<1> SUFFICES ASSUME w = "CONFIRM"
             PROVE  /\ screen'.about = dialog'.form
                    /\ \A i \in 1..Len(queue') : queue'[i].id # "confirm"
  BY <1>4, <1>5 DEF Printed
<1>6. screen'.about = dialog'.form
  BY <1>2, <1>4, <1>5, Drawn
<1>7. \A i \in 1..Len(Tail(queue)) : Tail(queue)[i].id # "confirm"
  BY <1>3, Filled, AskingToConfirm
<1> QED
  BY <1>4, <1>6, <1>7

LEMMA NextPrinted ==
  ASSUME IInv, Printed, MCNext
  PROVE  Printed'
<1> SUFFICES ASSUME ~refused, ~Refused, dialog'.window = "CONFIRM" PROVE Printed'
  BY DEF Printed, MCNext
<1>1. Next
  BY DEF MCNext
<1>2. CASE Tap
  <2>1. PICK b \in screen.buttons : Sends(b)
    BY <1>2 DEF Tap
  <2> QED
    BY <2>1, PrintedSent
<1>3. CASE Type
  <2>1. PICK t \in TextFor(screen.window) : Sends(Button("text", t))
    BY <1>3 DEF Type
  <2>2. Button("text", t).id # "confirm"
    BY DEF Button
  <2> QED
    BY <2>1, <2>2, PrintedSent
<1>4. CASE Command
  <2>1. Button("/cart", None).id # "confirm"
    BY DEF Button
  <2> QED
    BY <1>4, <2>1, PrintedSent DEF Command
<1>5. CASE ElsewhereInTheCart \/ Import
  BY <1>5, PrintedFrame DEF ElsewhereInTheCart, Import
<1>6. CASE Handle
  <2>1. ~(Navigate \/ TurnPage \/ on_line_selected)
    BY NavigateStep, TurnPageStep, LineSelectedStep
  <2>2. ~(on_increased \/ on_decreased \/ on_line_removed \/ on_quantity_typed)
    BY LineCommandStep
  <2>3. ~(on_unavailable_removed \/ on_cart_cleared \/ AlreadyPlaced)
    BY CartCommandStep, AlreadyPlacedStep
  <2>4. ~(handle_cart \/ StartCheckout \/ BackToTheCart \/ Close)
    BY RestartingStep
  <2>5. CASE Fills
    BY <2>5, PrintedFilled
  <2>6. IsSequence(orders) /\ cart \in [Products -> Nat]
    BY DEF IInv, ChatOK
  <2>7. CASE on_confirmed
    <3>1. queue # <<>> /\ UNCHANGED <<cart, orders>>
      BY <2>7 DEF on_confirmed, Tapped
    <3>2. ~_show_done(dialog.form.number, dialog.form.number)
      BY <2>6, <3>1, ShowDoneStep
    <3>3. screen' = Screen(To("PLACING"), cart) /\ UNCHANGED <<dialog, queue>>
      BY <2>7, <3>2 DEF on_confirmed
    <3>4. screen'.window # "CONFIRM"
      BY <3>3, PlacingScreen
    <3> QED
      BY <3>3, <3>4, PrintedFrame
  <2>8. CASE Placed
    <3>1. /\ queue # <<>> /\ cart' \in [Products -> Nat]
          /\ orders' = Append(orders, _place_order(dialog.form))
      BY <2>8 DEF Placed, IInv, ChatOK, PlacingOK
    <3>2. IsSequence(orders')
      BY <2>6, <3>1, AppendToQueue
    <3>3. ~_show_done(Len(orders'), Len(orders'))
      BY <3>1, <3>2, ShowDoneStep
    <3>4. dialog' \in {dialog, Closed} /\ Handled /\ UNCHANGED screen
      BY <2>8, <3>3 DEF Placed
    <3>5. Closed.window # "CONFIRM"
      BY DEF Closed, Open
    <3> QED
      BY <3>1, <3>4, <3>5, PrintedFrame DEF Handled
  <2>9. CASE Dropped
    <3>1. Closed.window # "CONFIRM"
      BY DEF Closed, Open
    <3>2. queue # <<>> /\ queue' = Tail(queue) /\ UNCHANGED <<dialog, screen>>
      BY <2>9, <3>1 DEF Dropped, Handled
    <3> QED
      BY <3>2, PrintedFrame
  <2> QED
    BY <1>6, <2>1, <2>2, <2>3, <2>4, <2>5, <2>7, <2>8, <2>9 DEF Handle, Fills
<1> QED
  BY <1>1, <1>2, <1>3, <1>4, <1>5, <1>6 DEF Next

LEMMA PrintedInvariance == MCSpec => [](IInv /\ Printed)
<1>1. MCInit => IInv /\ Printed
  <2> SUFFICES ASSUME MCInit PROVE IInv /\ Printed
    OBVIOUS
  <2>1. dialog.window # "CONFIRM"
    BY DEF MCInit, Init, Closed, Open
  <2> QED
    BY <2>1, InitIInv DEF MCInit, Printed
<1>2. IInv /\ Printed /\ [MCNext]_<<vars, story, refused>> => (IInv /\ Printed)'
  <2> SUFFICES ASSUME IInv, Printed, [MCNext]_<<vars, story, refused>>
               PROVE  IInv' /\ Printed'
    OBVIOUS
  <2>1. IInv'
    BY NextIInv DEF MCNext
  <2>2. CASE MCNext
    BY <2>1, <2>2, NextPrinted
  <2>3. CASE UNCHANGED <<vars, story, refused>>
    BY <2>1, <2>3 DEF vars, Printed
  <2> QED
    BY <2>2, <2>3
<1> QED
  BY <1>1, <1>2, PTL DEF MCSpec

\* Until a confirmation has been turned down, what is charged is what was printed on the
\* message the order was confirmed on: _ensure_not_repriced compares the cart with what
\* remember_totals left, and that is what the tap was made on.
THEOREM ChargedAsPrinted == MCSpec => PaidAsPrinted
<1>1. IInv /\ Printed /\ [MCNext]_<<vars, story, refused>> =>
        [~refused /\ orders' # orders =>
          /\ Last(orders').total = update.saw.total
          /\ Last(orders').count = update.saw.count]_<<vars, story, refused>>
  <2> SUFFICES ASSUME IInv, Printed, MCNext, ~refused, orders' # orders
               PROVE  /\ Last(orders').total = update.saw.total
                      /\ Last(orders').count = update.saw.count
    OBVIOUS
  <2>1. Placed
    BY OrdersChange DEF MCNext
  <2>2. /\ Last(orders') = _place_order(dialog.form)
        /\ update.saw = dialog.form
    BY <2>1, PlacedFromItsTap DEF Printed
  <2>3. Cardinality(lines(cart)) = dialog.form.count /\ total(cart) = dialog.form.total
    BY <2>1 DEF Placed, AsShown
  <2> QED
    BY <2>2, <2>3 DEF _place_order
<1> QED
  BY <1>1, PrintedInvariance, PTL DEF MCSpec, PaidAsPrinted
=============================================================================
