---------------------------- MODULE MCCartScreens ----------------------------
(***************************************************************************)
(* An instance of CartScreens.  A behaviour tells one of three stories:    *)
(* two updates in flight in the cart, two in flight on the way to an       *)
(* order, and prices that move under the shortest way there.  refused      *)
(* remembers whether a confirmation was turned down.                       *)
(***************************************************************************)
EXTENDS CartScreens

VARIABLES story, refused

AllAtOne == [p \in Products |-> [price |-> 1, active |-> TRUE]]

\* Products leave the catalog and come back; prices move, or are withdrawn.
MCOffers == [price : {1, 2, None}, active : BOOLEAN]

\* The last order went somewhere.
OneOrderBefore ==
    <<[address |-> CHOOSE a \in Addresses : TRUE, name |-> Me, phone |-> MyPhone,
       comment |-> None, total |-> 1, count |-> 1]>>

\* The buttons of the cart, without checkout.
CartOnly ==
    {"line", "cart_prev", "cart_next", "remove_unavailable", "clear", "clear_confirmed",
     "clear_cancelled", "minus", "plus", "quantity", "remove_line", "back_to_cart",
     "back_to_line", "close_cart"}

\* The whole way to an order; of the buttons that only close the dialog, one.
CheckoutOnly ==
    {"checkout", "last_address", "recipient_is_me", "back_to_address", "own_phone",
     "back_to_recipient", "skip_comment", "back_to_phone", "confirm", "back_to_comment",
     "cancel_checkout", "close_already_placed", "open_order"}

\* The shortest way there.
ShortestWay ==
    {"checkout", "last_address", "recipient_is_me", "own_phone", "skip_comment", "confirm",
     "back_to_comment", "cancel_checkout", "close_already_placed", "close_done"}

MCUses == CartOnly \cup CheckoutOnly \cup ShortestWay

\* The most of each product, the offers, the buttons, and the updates in flight.
\* On the shortest way nothing is typed.
Stories ==
    { [most |-> <<2, 2>>, offers |-> [price : {1}, active : BOOLEAN], uses |-> CartOnly, taps |-> 2],
      [most |-> <<1, 0>>, offers |-> [price : {1}, active : BOOLEAN], uses |-> CheckoutOnly, taps |-> 2],
      [most |-> <<2, 0>>, offers |-> [price : {1, 2, None}, active : {TRUE}], uses |-> ShortestWay,
       taps |-> 1] }

OneOfEach(s) == [p \in Products |-> IF s.most[p] > 0 THEN 1 ELSE 0]

MCFirstCarts == {OneOfEach(s) : s \in Stories}

MCInit == Init /\ story \in {s \in Stories : cart = OneOfEach(s)} /\ refused = FALSE

MCNext ==
    /\ Next
    /\ Len(queue') <= story.taps
    /\ \A i \in DOMAIN queue' : queue'[i].id \notin MCUses \ story.uses
    /\ story.uses = ShortestWay => \A i \in DOMAIN queue' : queue'[i].id # "text"
    /\ \A p \in Products :
          /\ cart'[p] <= story.most[p]
          /\ offers'[p] # offers[p] => story.most[p] > 0 /\ offers'[p] \in story.offers
    /\ refused' = (refused \/ Refused)
    /\ UNCHANGED story

MCSpec == MCInit /\ [][MCNext]_<<vars, story, refused>>

\* Until a confirmation has been turned down, an order is placed for the lines and at the
\* total that were on the message when it was confirmed, however the cart and its prices
\* moved while the tap and the command were on their way (_ensure_not_repriced).
PaidAsPrinted ==
    [][~refused /\ orders' # orders =>
          /\ Last(orders').total = update.saw.total
          /\ Last(orders').count = update.saw.count]_<<vars, story, refused>>
=============================================================================
