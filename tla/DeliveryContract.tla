-------------------------- MODULE DeliveryContract --------------------------
(***************************************************************************)
(* What the delivery of events promises, with no outbox, broker or inbox   *)
(* in it: people are told of an event only once it is on record, only      *)
(* those it concerns, and none for the first time after it was settled;    *)
(* it is settled when everyone who can be reached was told and nobody is   *)
(* left to wait for.  OutboxDelivery implements this specification.        *)
(***************************************************************************)
CONSTANTS Events,
          Deliverable,  \* the events somebody listens for and can make out
          Concerned,    \* event -> the people it is news to
          Reachable,    \* the people who can be written to
          Awaited       \* those whose messenger is not there yet

VARIABLES recorded,     \* events on record
          told,         \* event -> the people told of it
          settled       \* events that are nobody's business any more

contractVars == <<recorded, told, settled>>

Init ==
  /\ recorded = {}
  /\ told = [e \in Events |-> {}]
  /\ settled = {}

Record(e) ==
  /\ e \notin recorded
  /\ recorded' = recorded \cup {e}
  /\ UNCHANGED <<told, settled>>

Underway == (recorded \cap Deliverable) \ settled

Tell(e, p) ==
  /\ e \in Underway
  /\ p \in Concerned[e] \cap Reachable
  /\ told' = [told EXCEPT ![e] = @ \cup {p}]
  /\ UNCHANGED <<recorded, settled>>

Settle(e) ==
  /\ e \in Underway
  /\ Concerned[e] \cap Awaited = {}
  /\ Concerned[e] \cap Reachable \subseteq told[e]
  /\ settled' = settled \cup {e}
  /\ UNCHANGED <<recorded, told>>

Next ==
  \E e \in Events :
    \/ Record(e)
    \/ \E p \in Concerned[e] : Tell(e, p)
    \/ Settle(e)

Spec == Init /\ [][Next]_contractVars
=============================================================================
