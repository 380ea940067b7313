-------------------------- MODULE MCOutboxDelivery --------------------------
(* Small instances of OutboxDelivery for TLC. *)
EXTENDS OutboxDelivery, TLC
CONSTANTS ann, bob, cy, dee, r1, r2, w1, w2

MCOneMessage == {1}
MCThird      == {3}
MCThree      == {1, 2, 3}
MCFour       == {1, 2, 3, 4}
MCStaff      == {ann, bob}
MCTwoPeople  == {ann, bob}
MCFourPeople == {ann, bob, cy, dee}
MCTwoRelays  == {r1, r2}
MCTwoWorkers == {w1, w2}
MCNobody     == {}

\* Safety: ann and bob work the shop and can be written to.  The buyers cannot:
\* cy chose a messenger without a sender, dee one this build does not know.
MCKind    == [m \in Messages |-> IF m = 1 THEN "OrderPlaced" ELSE "OrderStatusChanged"]
MCBuyers  == [m \in Messages |-> IF m = 3 THEN dee ELSE cy]
MCTargets == [p \in People |->
                CASE p = cy -> "unserved" [] p = dee -> "unknown" [] OTHER -> "served"]

\* Liveness: the oldest row is poisoned, the third body cannot be parsed, the
\* fourth event is of a kind without a queue, and the buyer closed the account.
MCLiveKind  == [m \in Messages |->
                  CASE m = 1 -> "OrderStatusChanged"
                    [] m = 2 -> "OrderPlaced"
                    [] m = 3 -> "OrderDeliveryAddressChanged"
                    [] OTHER -> "UserRegistered"]
MCBob       == [m \in Messages |-> bob]
MCOneClosed == [p \in People |-> IF p = ann THEN "served" ELSE "closed"]

MCSymmetry == Permutations(MCTwoRelays) \cup Permutations(MCTwoWorkers) \cup Permutations(MCStaff)
=============================================================================
