--------------------------- MODULE MCOrderScreens ---------------------------
(***************************************************************************)
(* An instance of OrderScreens.  A behaviour tells one of three stories:   *)
(* a buyer and a hasty manager over one order, a buyer with three updates  *)
(* in flight who orders again, and a manager who loses the role with the   *)
(* queue open.                                                             *)
(***************************************************************************)
EXTENDS OrderScreens

CONSTANTS buyer, manager

VARIABLE story

\* The manager orders things as well.
MCOwner == [o \in Orders |-> IF o = 1 THEN manager ELSE buyer]
MCInFlight == [p \in People |-> IF p = buyer THEN 3 ELSE 2]

\* What the orders of a story are to begin with, which are placed in it, and how
\* many updates the buyer and the manager have in flight.
Stories ==
    { [name |-> "shared", first |-> {2}, then |-> {}, buyer |-> 1, manager |-> 2],
      [name |-> "buyer", first |-> {1, 2}, then |-> {3}, buyer |-> 3, manager |-> 0],
      [name |-> "demoted", first |-> {1}, then |-> {2}, buyer |-> 0, manager |-> 2] }

MCFirstOrders == {s.first : s \in Stories}

MCInit == Init /\ story \in {s \in Stories : s.first = Placed}

MCNext ==
    /\ Next
    /\ Len(queue'[buyer]) <= story.buyer /\ Len(queue'[manager]) <= story.manager
    /\ Placed' \subseteq story.first \cup story.then
    /\ story.name # "demoted" =>
          /\ staff' = staff
          /\ \A i \in DOMAIN queue'[manager] :
                queue'[manager][i].id \notin {"/orders", "filter_select"}
    /\ UNCHANGED story

MCSpec == MCInit /\ [][MCNext]_<<vars, story>>
=============================================================================
