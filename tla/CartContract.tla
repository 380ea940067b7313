---------------------------- MODULE CartContract ----------------------------
(***************************************************************************)
(* What a cart promises its owner, with no sessions, screens or events in  *)
(* it: lines are put in, lowered, set and taken out one at a time, none    *)
(* above the ceiling and never more different products than the limit, and *)
(* an order is exactly what was in the cart, which it leaves empty.        *)
(* CartCheckout implements this specification as long as nobody uses one   *)
(* cart from two chats at once (CartCheckoutProofs).                       *)
(***************************************************************************)
EXTENDS Naturals, FiniteSets, Sequences

CONSTANTS People,          \* user ids
          Products,        \* product ids
          MAX_QUANTITY,    \* ceiling of one line
          MAX_CART_LINES   \* ceiling of different products

VARIABLES cart,            \* person -> how many of each product they hold
          placed           \* person -> what their orders were made of

Held(u) == {p \in Products : cart[u][p] > 0}

Nothing == [p \in Products |-> 0]

Becomes(u, lines) ==
  /\ cart' = [cart EXCEPT ![u] = lines]
  /\ UNCHANGED placed
-----------------------------------------------------------------------------
Init ==
  /\ cart   = [u \in People |-> Nothing]
  /\ placed = [u \in People |-> <<>>]

Put(u, p, n) ==
  /\ cart[u][p] + n <= MAX_QUANTITY
  /\ p \notin Held(u) => Cardinality(Held(u)) < MAX_CART_LINES
  /\ Becomes(u, [cart[u] EXCEPT ![p] = @ + n])

Lower(u, p) ==
  /\ p \in Held(u)
  /\ Becomes(u, [cart[u] EXCEPT ![p] = @ - 1])

Set(u, p, n) ==
  /\ p \in Held(u)
  /\ Becomes(u, [cart[u] EXCEPT ![p] = n])

\* Removing one line, emptying the cart, sweeping out what left the catalog.
TakeOut(u, gone) ==
  Becomes(u, [p \in Products |-> IF p \in gone THEN 0 ELSE cart[u][p]])

Checkout(u) ==
  /\ Held(u) # {}
  /\ placed' = [placed EXCEPT ![u] = Append(@, cart[u])]
  /\ cart'   = [cart EXCEPT ![u] = Nothing]

Next ==
  \E u \in People :
    \/ \E p \in Products, n \in 1..MAX_QUANTITY : Put(u, p, n) \/ Set(u, p, n)
    \/ \E p \in Products : Lower(u, p)
    \/ \E gone \in SUBSET Products : TakeOut(u, gone)
    \/ Checkout(u)

Spec == Init /\ [][Next]_<<cart, placed>>
=============================================================================
