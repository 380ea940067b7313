--------------------------- MODULE MCCartCheckout ---------------------------
(* Instances of CartCheckout for TLC: one person with one chat or with two. *)
EXTENDS CartCheckout

CONSTANTS ann, telegram, max, bolts, tiles

\* The person behind every chat of the instance.
OwnerValue == [c \in Chats |-> ann]

Offer(active, amount) == [is_active |-> active, amount |-> amount]

\* A product withdrawn while its price row is left, and one on request.
OffersThatVanish == {Offer(TRUE, 1), Offer(TRUE, None), Offer(FALSE, 1)}

\* A price that moves, and a product withdrawn while its price row is left.
OffersThatMove == {Offer(TRUE, 1), Offer(TRUE, 2), Offer(FALSE, 1)}
=============================================================================
