------------------------ MODULE OutboxDeliveryProofs ------------------------
(***************************************************************************)
(* What OutboxDelivery promises, for any number of messages, people,       *)
(* relays, workers and failures.                                           *)
(***************************************************************************)
EXTENDS OutboxDelivery, TLAPS

Tick_  == [batch : SUBSET Messages, todo : SUBSET Messages, marked : SUBSET Messages]
Copy_  == [message : Messages, stage : {"taken", "sending", "done"},
           awaiting : SUBSET People]

-----------------------------------------------------------------------------
(* The inductive invariant *)

\* Some open tick has published m and marked its row.
Marked(m) == \E r \in Relays : relay[r] # None /\ m \in relay[r].marked

\* No tick will read the row of m again, unless a mark is lost.
Settled(m) == row[m] = "processed" \/ Marked(m)

\* What an open tick knows of its rows, and that no other tick has them.
TickInv ==
  \A r \in Relays : relay[r] # None =>
    /\ relay[r].todo \subseteq relay[r].batch
    /\ relay[r].marked \subseteq relay[r].batch
    /\ relay[r].todo \cap relay[r].marked = {}
    /\ \A m \in relay[r].batch : row[m] = "pending"
    /\ \A q \in Relays : q # r /\ relay[q] # None =>
         relay[r].batch \cap relay[q].batch = {}

\* The transport has seen m once more than there were failures only when the
\* mark of the last publish stands.
PublishInv ==
  \A m \in Messages :
    /\ published[m] <= faults + 1
    /\ published[m] = faults + 1 => Settled(m)

\* Somebody is answerable for m, or a restart of the broker took it.
Safe(m) == Kept(m) \/ m \in dropped

\* OnlyTheBrokerLoses, extended to marks that are not committed yet.
KeptInv ==
  \A m \in Messages :
    Settled(m) /\ Kind[m] \in Kinds /\ m \notin Unreadable => Safe(m)

\* A copy the broker forgot was in a worker's hands when the broker restarted.
OrphanInv == \A w \in orphans : worker[w] # None /\ worker[w].message \in dropped

\* A worker has claimed m and not committed yet.
Claimed(w, m) == worker[w] # None /\ worker[w].stage = "sending" /\ worker[w].message = m

\* What a worker knows of the message it holds.
WorkInv ==
  \A w \in Workers : worker[w] # None =>
    /\ worker[w].stage = "done" => worker[w].message \in inbox
    /\ worker[w].stage = "sending" =>
         /\ worker[w].message \notin inbox
         /\ \A p \in Audience(worker[w].message) :
              Target[p] = "served" /\ p \notin worker[w].awaiting =>
                written[worker[w].message][p] > 0

\* The primary key of the inbox: one open claim on a message at most.
ClaimInv ==
  \A m \in Messages : \A v, w \in Workers : Claimed(v, m) /\ Claimed(w, m) => v = w

\* Notifications of m that reached p or still may, against handlings given up.
RepeatInv ==
  \A m \in Messages : \A p \in People : aborts[m] < MaxCount =>
    /\ written[m][p] + stray[m][p] <= aborts[m] + 1
    /\ (\E w \in Workers : Claimed(w, m) /\ p \in worker[w].awaiting) =>
         written[m][p] + stray[m][p] <= aborts[m]
    /\ m \notin inbox /\ (\A w \in Workers : ~Claimed(w, m)) =>
         written[m][p] + stray[m][p] <= aborts[m]

IInv ==
  /\ TypeOK
  /\ TickInv
  /\ PublishInv
  /\ KeptInv
  /\ OrphanInv
  /\ WorkInv
  /\ ClaimInv
  /\ HandledMeansTold
  /\ RepeatInv
-----------------------------------------------------------------------------
(* Helpers *)

\* Bump counts by one up to the bound.
LEMMA BumpFact ==
  ASSUME NEW n \in 0 .. MaxCount
  PROVE  /\ Bump(n) \in 0 .. MaxCount
         /\ Bump(n) <= n + 1
         /\ Bump(n) >= n
         /\ Bump(n) > 0
         /\ Bump(n) < MaxCount => n < MaxCount /\ Bump(n) = n + 1
  BY DeliveryAssumption DEF DeliveryAssumption, Bump

\* The audience of a message and those of it resolve finds an account for.
LEMMA AudienceFact ==
  ASSUME NEW m \in Messages
  PROVE  /\ Audience(m) \subseteq People
         /\ Recipients(m) \subseteq Audience(m)
         /\ \A p \in Audience(m) : Target[p] = "served" => p \in Recipients(m)
  <1>1. NotifyOrderPlaced(m) \subseteq People
    BY DeliveryAssumption DEF DeliveryAssumption, NotifyOrderPlaced
  <1>2. NotifyOrderStatusChanged(m) \subseteq People
    BY DeliveryAssumption DEF DeliveryAssumption, NotifyOrderStatusChanged
  <1>3. NotifyDeliveryAddressChanged(m) \subseteq People
    BY DeliveryAssumption DEF DeliveryAssumption, NotifyDeliveryAddressChanged
  <1>4. Audience(m) \subseteq People
    BY <1>1, <1>2, <1>3 DEF Audience
  <1> QED
    BY <1>4 DEF Recipients, Resolves

\* None is not an open tick and not a copy in somebody's hands.
LEMMA NoneFact == None \notin Tick_ /\ None \notin Copy_
  BY DeliveryAssumption DEF DeliveryAssumption, Tick_, Copy_

\* The initial state satisfies the invariant.
LEMMA InitIInv == Init => IInv
  <1> SUFFICES ASSUME Init PROVE IInv
    OBVIOUS
  <1>1. TypeOK
    BY DeliveryAssumption DEF DeliveryAssumption, Init, TypeOK
  <1>2. TickInv /\ PublishInv /\ KeptInv
    BY DEF Init, TickInv, PublishInv, KeptInv, Settled, Marked
  <1>3. OrphanInv /\ WorkInv /\ ClaimInv /\ HandledMeansTold
    BY DEF Init, OrphanInv, WorkInv, ClaimInv, Claimed, HandledMeansTold
  <1>4. RepeatInv
    BY DeliveryAssumption DEF DeliveryAssumption, Init, RepeatInv
  <1> QED
    BY <1>1, <1>2, <1>3, <1>4 DEF IInv
-----------------------------------------------------------------------------
(* Steps of the relay *)

\* A step that leaves the consumers alone and only adds copies keeps what is
\* known of the consumers.
LEMMA ConsumersKeep ==
  ASSUME OrphanInv, WorkInv, ClaimInv, HandledMeansTold, RepeatInv, UNCHANGED workerVars
  PROVE  OrphanInv' /\ WorkInv' /\ ClaimInv' /\ HandledMeansTold' /\ RepeatInv'
  <1>1. OrphanInv' = OrphanInv /\ WorkInv' = WorkInv /\ ClaimInv' = ClaimInv
    BY DEF OrphanInv, WorkInv, ClaimInv, Claimed, workerVars, lostVars
  <1>2. HandledMeansTold' = HandledMeansTold
    BY DEF HandledMeansTold, workerVars
  <1>3. RepeatInv' = RepeatInv
    BY DEF RepeatInv, Claimed, workerVars
  <1> QED
    BY <1>1, <1>2, <1>3

\* A message is still kept after a step that only adds copies.
LEMMA SafeKeep ==
  ASSUME NEW m \in Messages, Safe(m), UNCHANGED workerVars,
         copies[m] \in Nat, copies'[m] \in Nat, copies'[m] >= copies[m]
  PROVE  Safe(m)'
  BY DEF Safe, Kept, lostVars, workerVars

\* A failure raises faults by one, within the bound.
LEMMA FaultFact ==
  ASSUME TypeOK, Fault
  PROVE  faults' = faults + 1 /\ faults' \in 0 .. MaxFaults /\ faults \in Nat
  BY DeliveryAssumption DEF DeliveryAssumption, TypeOK, Fault

\* A new row is pending and in no batch.
LEMMA RecordStep ==
  ASSUME IInv, NEW m \in Messages, Record(m)
  PROVE  IInv'
  <1> USE DEF IInv
  <1>1. TypeOK'
    BY DEF TypeOK, Record, brokerVars, workerVars, lostVars
  <1>2. TickInv'
    BY NoneFact DEF TypeOK, TickInv, Record, Tick_
  <1>3. \A k \in Messages : Settled(k)' <=> Settled(k)
    BY DEF TypeOK, Settled, Marked, Record
  <1>4. PublishInv'
    BY <1>3 DEF PublishInv, Record, brokerVars
  <1>5. KeptInv'
    BY <1>3 DEF KeptInv, Safe, Kept, lostVars, Record, brokerVars, workerVars
  <1>6. OrphanInv' /\ WorkInv' /\ ClaimInv' /\ HandledMeansTold' /\ RepeatInv'
    BY ConsumersKeep DEF Record
  <1> QED
    BY <1>1, <1>2, <1>4, <1>5, <1>6

\* A tick takes pending rows nobody holds.
LEMMA TickStep ==
  ASSUME IInv, NEW r \in Relays, Tick(r)
  PROVE  IInv'
  <1> USE DEF IInv
  <1> DEFINE B == read_pending
  <1>1. /\ B \subseteq Messages
        /\ \A m \in B : row[m] = "pending"
        /\ \A q \in Relays : relay[q] # None => B \cap relay[q].batch = {}
    BY DEF read_pending, Unlocked, Pending
  <1> HIDE DEF B
  <1>2. relay' = [relay EXCEPT ![r] = [batch |-> B, todo |-> B, marked |-> {}]]
        /\ relay[r] = None /\ UNCHANGED <<row, published, copies, workerVars, faults>>
    BY DEF Tick, B, brokerVars
  <1>3. TypeOK'
    BY <1>1, <1>2 DEF TypeOK, workerVars, lostVars
  <1>4. TickInv'
    BY <1>1, <1>2, NoneFact DEF TypeOK, TickInv, Tick_
  <1>5. \A k \in Messages : Settled(k)' <=> Settled(k)
    BY <1>2 DEF TypeOK, Settled, Marked
  <1>6. PublishInv'
    BY <1>2, <1>5 DEF PublishInv
  <1>7. KeptInv'
    BY <1>2, <1>5 DEF KeptInv, Safe, Kept, lostVars, workerVars
  <1>8. OrphanInv' /\ WorkInv' /\ ClaimInv' /\ HandledMeansTold' /\ RepeatInv'
    BY <1>2, ConsumersKeep
  <1> QED
    BY <1>3, <1>4, <1>6, <1>7, <1>8

\* What the transport does with a message it accepts.
LEMMA AcceptFact ==
  ASSUME TypeOK, NEW m \in Messages, Accept(m)
  PROVE  /\ published' \in [Messages -> Nat]
         /\ copies' \in [Messages -> Nat]
         /\ published'[m] = published[m] + 1
         /\ \A k \in Messages : k # m => published'[k] = published[k]
         /\ \A k \in Messages : copies'[k] >= copies[k]
         /\ Kind[m] \in Kinds => copies'[m] > 0
  BY DEF TypeOK, Accept

\* The row the loop is at is pending and not marked by any tick.
LEMMA AtFact ==
  ASSUME TypeOK, TickInv, NEW r \in Relays, NEW m \in Messages, At(r, m)
  PROVE  /\ relay[r] \in Tick_ /\ relay[r] # None
         /\ m \in relay[r].batch
         /\ row[m] = "pending"
         /\ ~Settled(m)
  <1>1. relay[r] # None /\ m \in relay[r].todo
    BY DEF At
  <1>2. relay[r] \in Tick_
    BY <1>1 DEF TypeOK, Tick_
  <1>3. m \in relay[r].batch /\ row[m] = "pending" /\ m \notin relay[r].marked
    BY <1>1 DEF TickInv
  <1>4. \A q \in Relays : relay[q] # None => m \notin relay[q].marked
    BY <1>3, <1>1 DEF TickInv
  <1> QED
    BY <1>1, <1>2, <1>3, <1>4 DEF Settled, Marked

\* A message that was accepted is settled and in its queue.
LEMMA PublishStep ==
  ASSUME IInv, NEW r \in Relays, NEW m \in Messages, Publish(r, m)
  PROVE  IInv'
  <1> USE DEF IInv
  <1>1. /\ relay[r] \in Tick_ /\ relay[r] # None
        /\ m \in relay[r].batch /\ m \in relay[r].todo
        /\ row[m] = "pending" /\ ~Settled(m)
    BY AtFact DEF Publish, At
  <1>2. relay' = [relay EXCEPT ![r] =
                    [batch |-> relay[r].batch, todo |-> relay[r].todo \ {m},
                     marked |-> relay[r].marked \cup {m}]]
    BY DEF Publish
  <1>3. /\ published' \in [Messages -> Nat] /\ copies' \in [Messages -> Nat]
        /\ published'[m] = published[m] + 1
        /\ \A k \in Messages : k # m => published'[k] = published[k]
        /\ \A k \in Messages : copies'[k] >= copies[k]
        /\ Kind[m] \in Kinds => copies'[m] > 0
    BY AcceptFact DEF Publish
  <1>4. UNCHANGED <<row, workerVars, faults>>
    BY DEF Publish
  <1>5. TypeOK'
    BY <1>1, <1>2, <1>3, <1>4 DEF TypeOK, workerVars, lostVars, Tick_
  <1>6. TickInv'
    BY <1>1, <1>2, <1>4, NoneFact DEF TypeOK, TickInv, Tick_
  <1>7. \A k \in Messages : k # m => (Settled(k)' <=> Settled(k))
    BY <1>1, <1>2, <1>4, NoneFact DEF TypeOK, Settled, Marked, Tick_
  <1>8. Settled(m)'
    BY <1>1, <1>2, <1>4, NoneFact DEF TypeOK, Settled, Marked, Tick_
  <1>9. PublishInv'
    <2> SUFFICES ASSUME NEW k \in Messages
                 PROVE  /\ published'[k] <= faults' + 1
                        /\ published'[k] = faults' + 1 => Settled(k)'
      BY DEF PublishInv
    <2>1. CASE k = m
      <3>1. published[m] <= faults /\ published[m] \in Nat /\ faults \in Nat
        BY <1>1 DEF PublishInv, TypeOK
      <3> QED
        BY <3>1, <2>1, <1>3, <1>4, <1>8
    <2>2. CASE k # m
      BY <2>2, <1>3, <1>4, <1>7 DEF PublishInv
    <2> QED
      BY <2>1, <2>2
  <1>10. KeptInv'
    <2> SUFFICES ASSUME NEW k \in Messages, Settled(k)', Kind[k] \in Kinds,
                        k \notin Unreadable
                 PROVE  Safe(k)'
      BY DEF KeptInv
    <2>1. CASE k = m
      BY <2>1, <1>3 DEF Safe, Kept, lostVars
    <2>2. CASE k # m
      <3>1. Safe(k)
        BY <2>2, <1>7 DEF KeptInv
      <3> QED
        BY <3>1, <1>3, <1>4, SafeKeep DEF TypeOK
    <2> QED
      BY <2>1, <2>2
  <1>11. OrphanInv' /\ WorkInv' /\ ClaimInv' /\ HandledMeansTold' /\ RepeatInv'
    BY <1>4, ConsumersKeep
  <1> QED
    BY <1>5, <1>6, <1>9, <1>10, <1>11

\* A failed publish leaves the row to a later tick; when the transport took the
\* message all the same, the failure accounts for it.
LEMMA PublishFailsStep ==
  ASSUME IInv, NEW r \in Relays, NEW m \in Messages, PublishFails(r, m)
  PROVE  IInv'
  <1> USE DEF IInv
  <1>1. /\ relay[r] \in Tick_ /\ relay[r] # None
        /\ m \in relay[r].batch /\ m \in relay[r].todo
        /\ row[m] = "pending" /\ ~Settled(m)
    BY AtFact DEF PublishFails, At
  <1>2. relay' = [relay EXCEPT ![r] =
                    [batch |-> relay[r].batch, todo |-> relay[r].todo \ {m},
                     marked |-> relay[r].marked]]
    BY DEF PublishFails
  <1>3. UNCHANGED <<row, workerVars>>
    BY DEF PublishFails
  <1>4. \/ UNCHANGED <<published, copies, faults>>
        \/ Fault /\ UNCHANGED <<published, copies>>
        \/ Fault /\ Accept(m)
    BY DEF PublishFails, brokerVars
  <1>5. /\ published' \in [Messages -> Nat] /\ copies' \in [Messages -> Nat]
        /\ \A k \in Messages : copies'[k] >= copies[k]
        /\ faults' \in 0 .. MaxFaults
    BY <1>4, AcceptFact, FaultFact DEF TypeOK
  <1>6. TypeOK'
    BY <1>1, <1>2, <1>3, <1>5 DEF TypeOK, workerVars, lostVars, Tick_
  <1>7. TickInv'
    BY <1>1, <1>2, <1>3, NoneFact DEF TypeOK, TickInv, Tick_
  <1>8. \A k \in Messages : Settled(k)' <=> Settled(k)
    BY <1>1, <1>2, <1>3, NoneFact DEF TypeOK, Settled, Marked, Tick_
  <1>9. PublishInv'
    <2>1. CASE UNCHANGED <<published, copies, faults>>
      BY <2>1, <1>8 DEF PublishInv
    <2>2. CASE Fault /\ UNCHANGED <<published, copies>>
      BY <2>2, FaultFact DEF PublishInv, TypeOK
    <2>3. CASE Fault /\ Accept(m)
      <3>1. published[m] <= faults /\ published[m] \in Nat
        BY <1>1 DEF PublishInv, TypeOK
      <3>2. faults' = faults + 1 /\ faults \in Nat
        BY <2>3, FaultFact
      <3>3. /\ published'[m] = published[m] + 1
            /\ \A k \in Messages : k # m => published'[k] = published[k]
        BY <2>3, AcceptFact
      <3>4. \A k \in Messages : published[k] \in Nat /\ published[k] <= faults + 1
        BY DEF PublishInv, TypeOK
      <3>5. \A k \in Messages : published'[k] <= faults'
        BY <3>1, <3>2, <3>3, <3>4
      <3>6. \A k \in Messages : published'[k] \in Nat
        BY <1>5
      <3> QED
        BY <3>2, <3>5, <3>6 DEF PublishInv
    <2> QED
      BY <1>4, <2>1, <2>2, <2>3
  <1>10. KeptInv'
    BY <1>3, <1>5, <1>8, SafeKeep DEF KeptInv, TypeOK
  <1>11. OrphanInv' /\ WorkInv' /\ ClaimInv' /\ HandledMeansTold' /\ RepeatInv'
    BY <1>3, ConsumersKeep
  <1> QED
    BY <1>6, <1>7, <1>9, <1>10, <1>11

\* The commit turns the marks of the tick into processed rows.
LEMMA RelayCommitStep ==
  ASSUME IInv, NEW r \in Relays, RelayCommit(r)
  PROVE  IInv'
  <1> USE DEF IInv
  <1>1. /\ relay[r] # None /\ relay' = [relay EXCEPT ![r] = None]
        /\ row' = [m \in Messages |->
                     IF m \in relay[r].marked THEN "processed" ELSE row[m]]
        /\ UNCHANGED <<published, copies, workerVars, faults>>
    BY DEF RelayCommit, brokerVars
  <1>2. TypeOK'
    BY <1>1 DEF TypeOK, workerVars, lostVars
  <1>3. TickInv'
    BY <1>1 DEF TypeOK, TickInv
  <1>4. \A k \in Messages : Settled(k)' <=> Settled(k)
    BY <1>1 DEF TypeOK, Settled, Marked
  <1>5. PublishInv'
    BY <1>1, <1>4 DEF PublishInv
  <1>6. KeptInv'
    BY <1>1, <1>4 DEF KeptInv, Safe, Kept, lostVars, workerVars
  <1>7. OrphanInv' /\ WorkInv' /\ ClaimInv' /\ HandledMeansTold' /\ RepeatInv'
    BY <1>1, ConsumersKeep
  <1> QED
    BY <1>2, <1>3, <1>5, <1>6, <1>7

\* A rollback loses the marks of the tick, and the failure accounts for them.
LEMMA RelayAbortStep ==
  ASSUME IInv, NEW r \in Relays, RelayAbort(r)
  PROVE  IInv'
  <1> USE DEF IInv
  <1>1. /\ relay' = [relay EXCEPT ![r] = None]
        /\ UNCHANGED <<row, published, copies, workerVars>>
    BY DEF RelayAbort, brokerVars
  <1>2. faults' = faults + 1 /\ faults' \in 0 .. MaxFaults /\ faults \in Nat
    BY FaultFact DEF RelayAbort
  <1>3. TypeOK'
    BY <1>1, <1>2 DEF TypeOK, workerVars, lostVars
  <1>4. TickInv'
    BY <1>1 DEF TypeOK, TickInv
  <1>5. \A k \in Messages : Settled(k)' => Settled(k)
    BY <1>1 DEF TypeOK, Settled, Marked
  <1>6. PublishInv'
    BY <1>1, <1>2 DEF PublishInv, TypeOK
  <1>7. KeptInv'
    BY <1>1, <1>5 DEF KeptInv, Safe, Kept, lostVars, workerVars
  <1>8. OrphanInv' /\ WorkInv' /\ ClaimInv' /\ HandledMeansTold' /\ RepeatInv'
    BY <1>1, ConsumersKeep
  <1> QED
    BY <1>3, <1>4, <1>6, <1>7, <1>8
-----------------------------------------------------------------------------
(* Steps of the consumers *)

\* A step that leaves the relays alone keeps what is known of them, and keeps
\* every message that it does not let go of.
LEMMA RelaysKeep ==
  ASSUME TypeOK, TickInv, PublishInv, KeptInv, UNCHANGED relayVars,
         UNCHANGED faults \/ Fault,
         \A m \in Messages : Safe(m) /\ m \notin Unreadable => Safe(m)'
  PROVE  TickInv' /\ PublishInv' /\ KeptInv'
  <1>1. TickInv' = TickInv
    BY DEF TickInv, relayVars
  <1>2. \A m \in Messages : Settled(m)' <=> Settled(m)
    BY DEF Settled, Marked, relayVars
  <1>3. PublishInv'
    <2>1. CASE UNCHANGED faults
      BY <2>1, <1>2 DEF PublishInv, relayVars
    <2>2. CASE Fault
      BY <2>2, FaultFact DEF PublishInv, TypeOK, relayVars
    <2> QED
      BY <2>1, <2>2
  <1>4. KeptInv'
    BY <1>2 DEF KeptInv
  <1> QED
    BY <1>1, <1>3, <1>4

\* A busy worker holds a copy of a message.
LEMMA BusyFact ==
  ASSUME TypeOK, NEW w \in Workers, worker[w] # None
  PROVE  /\ worker[w] \in Copy_
         /\ worker[w].message \in Messages
         /\ worker[w].awaiting \subseteq People
  BY DEF TypeOK, Copy_

\* A step that leaves the workers their messages, and what was lost as it is.
LEMMA OrphansKeep ==
  ASSUME OrphanInv, UNCHANGED lostVars,
         \A w \in Workers : worker[w] # None =>
           worker'[w] # None /\ worker'[w].message = worker[w].message,
         orphans \subseteq Workers
  PROVE  OrphanInv'
  BY DEF OrphanInv, lostVars

\* A worker that becomes idle is nobody's orphan.
LEMMA OrphansLetGo ==
  ASSUME TypeOK, OrphanInv, NEW w \in Workers, LetGo(w)
  PROVE  OrphanInv'
  BY DEF OrphanInv, LetGo, TypeOK

\* A worker takes a copy off the queue.
LEMMA DeliverStep ==
  ASSUME IInv, NEW w \in Workers, NEW m \in Messages, Deliver(w, m)
  PROVE  IInv'
  <1> USE DEF IInv
  <1> DEFINE C == [message |-> m, stage |-> "taken", awaiting |-> {}]
  <1>1. C \in Copy_ /\ C # None /\ C.stage = "taken" /\ C.message = m
    BY NoneFact DEF Copy_
  <1> HIDE DEF C
  <1>2. /\ worker[w] = None /\ copies[m] > 0
        /\ copies' = [copies EXCEPT ![m] = @ - 1]
        /\ worker' = [worker EXCEPT ![w] = C]
        /\ UNCHANGED <<relayVars, lostVars, inbox, written, stray, aborts, faults>>
    BY DEF Deliver, C
  <1>3. TypeOK'
    BY <1>1, <1>2 DEF TypeOK, relayVars, lostVars, Copy_
  <1>4. \A k \in Messages : Safe(k) => Safe(k)'
    BY <1>1, <1>2 DEF Safe, Kept, lostVars, TypeOK
  <1>5. TickInv' /\ PublishInv' /\ KeptInv'
    BY <1>2, <1>4, RelaysKeep
  <1>6. \A v \in Workers : \A k \in Messages : Claimed(v, k)' <=> Claimed(v, k)
    BY <1>1, <1>2 DEF Claimed, TypeOK
  <1>7. WorkInv' /\ ClaimInv'
    BY <1>1, <1>2, <1>6 DEF WorkInv, ClaimInv, TypeOK
  <1>8. HandledMeansTold'
    BY <1>2 DEF HandledMeansTold
  <1>9. RepeatInv'
    BY <1>1, <1>2, <1>6 DEF RepeatInv, TypeOK, Claimed
  <1>20. OrphanInv'
    BY <1>1, <1>2, OrphansKeep DEF TypeOK
  <1> QED
    BY <1>3, <1>5, <1>7, <1>8, <1>9, <1>20

\* A worker becomes idle and the queue stays as it is: only a message that was
\* handled, or that nobody can read, is let go.
LEMMA ReleaseStep ==
  ASSUME IInv, NEW w \in Workers, worker[w] # None, worker[w].stage # "sending",
         worker[w].message \in inbox \cup Unreadable,
         LetGo(w), UNCHANGED <<relayVars, copies, inbox, written, stray, aborts, faults>>
  PROVE  IInv'
  <1> USE DEF IInv
  <1>1. TypeOK'
    BY DEF TypeOK, LetGo, relayVars
  <1>2. \A k \in Messages : Safe(k) /\ k \notin Unreadable => Safe(k)'
    BY DEF Safe, Kept, LetGo, TypeOK
  <1>3. TickInv' /\ PublishInv' /\ KeptInv'
    BY <1>2, RelaysKeep
  <1>4. \A v \in Workers : \A k \in Messages : Claimed(v, k)' <=> Claimed(v, k)
    BY DEF Claimed, LetGo, TypeOK
  <1>5. WorkInv' /\ ClaimInv'
    BY <1>4 DEF WorkInv, ClaimInv, LetGo, TypeOK
  <1>6. HandledMeansTold'
    BY DEF HandledMeansTold
  <1>7. RepeatInv'
    BY <1>4 DEF RepeatInv, LetGo, TypeOK, Claimed
  <1>8. OrphanInv'
    BY OrphansLetGo
  <1> QED
    BY <1>1, <1>3, <1>5, <1>6, <1>7, <1>8

\* The worker claims a message nobody has handled or is handling.
LEMMA ClaimStep ==
  ASSUME IInv, NEW w \in Workers, Claim(w)
  PROVE  IInv'
  <1> USE DEF IInv
  <1> DEFINE m == worker[w].message
             C == [message |-> m, stage |-> "sending", awaiting |-> Recipients(m)]
  <1>1. worker[w] # None /\ m \in Messages /\ worker[w].stage = "taken"
    BY BusyFact DEF Claim, Claiming
  <1>2. m \notin inbox /\ \A v \in Workers : ~Claimed(v, m)
    BY DEF Claim, CanClaim, Claimed
  <1>3. /\ Recipients(m) \subseteq People
        /\ \A p \in Audience(m) : Target[p] = "served" => p \in Recipients(m)
    BY <1>1, AudienceFact
  <1>4. C \in Copy_ /\ C # None /\ C.stage = "sending" /\ C.message = m
        /\ C.awaiting = Recipients(m)
    BY <1>1, <1>3, NoneFact DEF Copy_
  <1>5. /\ worker' = [worker EXCEPT ![w] = C]
        /\ UNCHANGED <<relayVars, copies, lostVars, inbox, written, stray, aborts, faults>>
    BY DEF Claim
  <1> HIDE DEF C
  <1>6. TypeOK'
    BY <1>4, <1>5 DEF TypeOK, relayVars, lostVars, Copy_
  <1>7. \A k \in Messages : Safe(k) => Safe(k)'
    BY <1>1, <1>4, <1>5 DEF Safe, Kept, lostVars, TypeOK
  <1>8. TickInv' /\ PublishInv' /\ KeptInv'
    BY <1>5, <1>7, RelaysKeep
  <1>9. \A v \in Workers : \A k \in Messages :
          Claimed(v, k)' <=> Claimed(v, k) \/ (v = w /\ k = m)
    BY <1>1, <1>4, <1>5 DEF Claimed, TypeOK
  <1>10. WorkInv'
    <2> SUFFICES ASSUME NEW v \in Workers, worker'[v] # None
                 PROVE  /\ worker'[v].stage = "done" => worker'[v].message \in inbox'
                        /\ worker'[v].stage = "sending" =>
                             /\ worker'[v].message \notin inbox'
                             /\ \A p \in Audience(worker'[v].message) :
                                  Target[p] = "served" /\ p \notin worker'[v].awaiting =>
                                    written'[worker'[v].message][p] > 0
      BY DEF WorkInv
    <2>1. CASE v = w
      BY <2>1, <1>2, <1>3, <1>4, <1>5 DEF TypeOK
    <2>2. CASE v # w
      BY <2>2, <1>5 DEF TypeOK, WorkInv
    <2> QED
      BY <2>1, <2>2
  <1>11. ClaimInv' /\ HandledMeansTold'
    BY <1>2, <1>5, <1>9 DEF ClaimInv, HandledMeansTold
  <1>12. RepeatInv'
    <2> SUFFICES ASSUME NEW k \in Messages, NEW p \in People, aborts[k] < MaxCount
                 PROVE  /\ written[k][p] + stray[k][p] <= aborts[k] + 1
                        /\ (\E v \in Workers : Claimed(v, k)' /\ p \in worker'[v].awaiting)
                             => written[k][p] + stray[k][p] <= aborts[k]
                        /\ k \notin inbox /\ (\A v \in Workers : ~Claimed(v, k)') =>
                             written[k][p] + stray[k][p] <= aborts[k]
      BY <1>5 DEF RepeatInv
    <2>1. CASE k = m
      BY <2>1, <1>2 DEF RepeatInv
    <2>2. CASE k # m
      <3>1. \A v \in Workers : Claimed(v, k)' <=> Claimed(v, k)
        BY <2>2, <1>9
      <3>2. \A v \in Workers : Claimed(v, k)' => worker'[v] = worker[v]
        BY <2>2, <1>4, <1>5, <1>9 DEF TypeOK, Claimed
      <3> QED
        BY <3>1, <3>2 DEF RepeatInv
    <2> QED
      BY <2>1, <2>2
  <1>20. OrphanInv'
    BY <1>1, <1>4, <1>5, OrphansKeep DEF TypeOK
  <1> QED
    BY <1>6, <1>8, <1>10, <1>11, <1>12, <1>20

\* The worker drops a duplicate.
LEMMA RefuseStep ==
  ASSUME IInv, NEW w \in Workers, Refuse(w)
  PROVE  IInv'
  <1> USE DEF IInv
  <1> DEFINE m == worker[w].message
  <1>1. worker[w] # None /\ m \in Messages /\ worker[w].stage = "taken" /\ m \in inbox
    BY BusyFact DEF Refuse, Claiming
  <1>2. Finished(m) \in Copy_ /\ Finished(m) # None /\ Finished(m).stage = "done"
        /\ Finished(m).message = m
    BY <1>1, NoneFact DEF Copy_, Finished
  <1>3. /\ worker' = [worker EXCEPT ![w] = Finished(m)]
        /\ UNCHANGED <<relayVars, copies, lostVars, inbox, written, stray, aborts, faults>>
    BY DEF Refuse
  <1>4. TypeOK'
    BY <1>2, <1>3 DEF TypeOK, relayVars, lostVars, Copy_
  <1>5. \A k \in Messages : Safe(k) => Safe(k)'
    BY <1>1, <1>2, <1>3 DEF Safe, Kept, lostVars, TypeOK
  <1>6. TickInv' /\ PublishInv' /\ KeptInv'
    BY <1>3, <1>5, RelaysKeep
  <1>7. \A v \in Workers : \A k \in Messages : Claimed(v, k)' <=> Claimed(v, k)
    BY <1>1, <1>2, <1>3 DEF Claimed, TypeOK
  <1>8. WorkInv' /\ ClaimInv'
    BY <1>1, <1>2, <1>3, <1>7 DEF WorkInv, ClaimInv, TypeOK
  <1>9. HandledMeansTold'
    BY <1>3 DEF HandledMeansTold
  <1>10. RepeatInv'
    BY <1>2, <1>3, <1>7 DEF RepeatInv, TypeOK, Claimed
  <1>20. OrphanInv'
    BY <1>1, <1>2, <1>3, OrphansKeep DEF TypeOK
  <1> QED
    BY <1>4, <1>6, <1>8, <1>9, <1>10, <1>20

\* A copy that goes back to its queue: everything but the count of repeats.
LEMMA PutBackKeeps ==
  ASSUME IInv, NEW w \in Workers, worker[w] # None, PutBack(w),
         UNCHANGED <<relayVars, inbox>>, UNCHANGED faults \/ Fault,
         written' \in [Messages -> [People -> 0 .. MaxCount]],
         stray' \in [Messages -> [People -> 0 .. MaxCount]],
         aborts' \in [Messages -> 0 .. MaxCount],
         \A k \in Messages : \A p \in People : written'[k][p] >= written[k][p]
  PROVE  /\ TypeOK' /\ TickInv' /\ PublishInv' /\ KeptInv' /\ OrphanInv'
         /\ WorkInv' /\ ClaimInv' /\ HandledMeansTold'
         /\ \A v \in Workers : \A k \in Messages :
              Claimed(v, k)' <=> Claimed(v, k) /\ v # w
  <1> USE DEF IInv
  <1> DEFINE m == worker[w].message
  <1>1. m \in Messages
    BY BusyFact
  <1>2. /\ worker' = [worker EXCEPT ![w] = None]
        /\ copies' = IF w \in orphans THEN copies ELSE [copies EXCEPT ![m] = @ + 1]
        /\ LetGo(w) /\ orphans' = orphans \ {w} /\ dropped' = dropped
    BY DEF PutBack, LetGo
  <1>3. faults' \in 0 .. MaxFaults
    BY FaultFact DEF TypeOK
  <1>4. TypeOK'
    BY <1>1, <1>2, <1>3 DEF TypeOK, relayVars, lostVars
  <1>5. \A k \in Messages : Safe(k) => Safe(k)'
    BY <1>1, <1>2 DEF Safe, Kept, OrphanInv, TypeOK
  <1>6. TickInv' /\ PublishInv' /\ KeptInv'
    BY <1>5, RelaysKeep
  <1>7. \A v \in Workers : \A k \in Messages : Claimed(v, k)' <=> Claimed(v, k) /\ v # w
    BY <1>2 DEF Claimed, TypeOK
  <1>8. ClaimInv'
    BY <1>7 DEF ClaimInv
  <1>9. \A k \in Messages : \A p \in Audience(k) : p \in People
    BY AudienceFact
  <1>10. \A k \in Messages : \A p \in Audience(k) :
           written[k][p] > 0 => written'[k][p] > 0
    BY <1>9 DEF TypeOK
  <1>11. HandledMeansTold'
    BY <1>10 DEF HandledMeansTold, TypeOK
  <1>12. WorkInv'
    <2> SUFFICES ASSUME NEW v \in Workers, worker'[v] # None
                 PROVE  /\ worker'[v].stage = "done" => worker'[v].message \in inbox'
                        /\ worker'[v].stage = "sending" =>
                             /\ worker'[v].message \notin inbox'
                             /\ \A p \in Audience(worker'[v].message) :
                                  Target[p] = "served" /\ p \notin worker'[v].awaiting =>
                                    written'[worker'[v].message][p] > 0
      BY DEF WorkInv
    <2>1. worker'[v] = worker[v] /\ worker[v] # None
      BY <1>2 DEF TypeOK
    <2>2. worker[v].message \in Messages
      BY <2>1, BusyFact
    <2> QED
      BY <2>1, <2>2, <1>10 DEF WorkInv
  <1>13. OrphanInv'
    BY <1>2, OrphansLetGo
  <1> QED
    BY <1>13, <1>4, <1>6, <1>7, <1>8, <1>11, <1>12

\* A handling given up after its claim: the abort accounts for one more
\* notification to each person.
LEMMA AbortRepeats ==
  ASSUME IInv, NEW w \in Workers, NEW m \in Messages,
         \A v \in Workers : \A k \in Messages : Claimed(v, k)' <=> Claimed(v, k) /\ v # w,
         \A k \in Messages : Claimed(w, k) => k = m,
         \A v \in Workers : v # w => worker'[v] = worker[v],
         UNCHANGED inbox,
         written' \in [Messages -> [People -> 0 .. MaxCount]],
         stray' \in [Messages -> [People -> 0 .. MaxCount]],
         aborts' = [aborts EXCEPT ![m] = Bump(@)],
         \A k \in Messages : k # m => written'[k] = written[k] /\ stray'[k] = stray[k],
         \A p \in People : aborts[m] < MaxCount =>
           written'[m][p] + stray'[m][p] <= aborts[m] + 1
  PROVE  RepeatInv'
  <1> USE DEF IInv
  <1> SUFFICES ASSUME NEW k \in Messages, NEW p \in People, aborts'[k] < MaxCount
               PROVE  /\ written'[k][p] + stray'[k][p] <= aborts'[k] + 1
                      /\ (\E v \in Workers : Claimed(v, k)' /\ p \in worker'[v].awaiting)
                           => written'[k][p] + stray'[k][p] <= aborts'[k]
                      /\ k \notin inbox' /\ (\A v \in Workers : ~Claimed(v, k)') =>
                           written'[k][p] + stray'[k][p] <= aborts'[k]
    BY DEF RepeatInv
  <1>1. aborts[m] \in 0 .. MaxCount
    BY DEF TypeOK
  <1>2. CASE k = m
    <2>1. aborts'[m] = Bump(aborts[m])
      BY DEF TypeOK
    <2>2. aborts[m] < MaxCount /\ aborts'[m] = aborts[m] + 1
      BY <1>1, <1>2, <2>1, BumpFact
    <2>3. written'[m][p] + stray'[m][p] <= aborts'[m]
      BY <2>2
    <2>4. written'[m][p] \in Nat /\ stray'[m][p] \in Nat /\ aborts'[m] \in Nat
      BY <1>1, <2>2
    <2> QED
      BY <1>2, <2>3, <2>4
  <1>3. CASE k # m
    <2>1. /\ aborts'[k] = aborts[k]
          /\ written'[k] = written[k]
          /\ stray'[k] = stray[k]
      BY <1>3 DEF TypeOK
    <2>2. \A v \in Workers : Claimed(v, k)' <=> Claimed(v, k)
      BY <1>3
    <2>3. \A v \in Workers : Claimed(v, k)' => worker'[v] = worker[v]
      BY <2>2
    <2> QED
      BY <2>1, <2>2, <2>3 DEF RepeatInv
  <1> QED
    BY <1>2, <1>3

\* A bumped counter stays a counter.
LEMMA BumpAborts ==
  ASSUME TypeOK, NEW m \in Messages
  PROVE  [aborts EXCEPT ![m] = Bump(@)] \in [Messages -> 0 .. MaxCount]
  BY BumpFact DEF TypeOK

\* A notification more: the counters of one person and one message.
LEMMA BumpWritten ==
  ASSUME TypeOK, NEW m \in Messages, NEW p \in People,
         written' = [written EXCEPT ![m][p] = Bump(@)]
  PROVE  /\ written' \in [Messages -> [People -> 0 .. MaxCount]]
         /\ \A k \in Messages : \A q \in People : written'[k][q] >= written[k][q]
         /\ \A k \in Messages : k # m => written'[k] = written[k]
         /\ \A q \in People : q # p => written'[m][q] = written[m][q]
         /\ written'[m][p] <= written[m][p] + 1
         /\ written'[m][p] > 0
  <1>1. written[m][p] \in 0 .. MaxCount
    BY DEF TypeOK
  <1>2. /\ Bump(written[m][p]) \in 0 .. MaxCount
        /\ Bump(written[m][p]) <= written[m][p] + 1
        /\ Bump(written[m][p]) >= written[m][p]
        /\ Bump(written[m][p]) > 0
    BY <1>1, BumpFact
  <1> DEFINE b == Bump(written[m][p])
  <1> HIDE DEF b
  <1>3. /\ b \in 0 .. MaxCount /\ b <= written[m][p] + 1
        /\ b >= written[m][p] /\ b > 0
        /\ written' = [written EXCEPT ![m] = [written[m] EXCEPT ![p] = b]]
    BY <1>2 DEF b
  <1>4. written'[m] = [written[m] EXCEPT ![p] = b]
        /\ \A k \in Messages : k # m => written'[k] = written[k]
    BY <1>3 DEF TypeOK
  <1>5. written'[m][p] = b /\ \A q \in People : q # p => written'[m][q] = written[m][q]
    BY <1>4 DEF TypeOK
  <1>6. written' \in [Messages -> [People -> 0 .. MaxCount]]
    BY <1>3 DEF TypeOK
  <1>7. \A k \in Messages : \A q \in People : written'[k][q] >= written[k][q]
    BY <1>1, <1>3, <1>4, <1>5 DEF TypeOK
  <1> QED
    BY <1>3, <1>4, <1>5, <1>6, <1>7

\* A claim rolled back before anything was sent.
LEMMA ResolveFailsStep ==
  ASSUME IInv, NEW w \in Workers, ResolveFails(w)
  PROVE  IInv'
  <1> USE DEF IInv
  <1> DEFINE m == worker[w].message
  <1>1. worker[w] # None /\ m \in Messages /\ worker[w].stage = "taken"
    BY BusyFact DEF ResolveFails, Claiming
  <1>2. /\ PutBack(w) /\ aborts' = [aborts EXCEPT ![m] = Bump(@)]
        /\ UNCHANGED <<relayVars, inbox, written, stray, faults>>
    BY DEF ResolveFails
  <1>3. aborts' \in [Messages -> 0 .. MaxCount]
    BY <1>1, <1>2, BumpAborts
  <1>4. \A k \in Messages : \A p \in People : written'[k][p] >= written[k][p]
    BY <1>2 DEF TypeOK
  <1>5. written' \in [Messages -> [People -> 0 .. MaxCount]]
        /\ stray' \in [Messages -> [People -> 0 .. MaxCount]]
    BY <1>2 DEF TypeOK
  <1>6. /\ TypeOK' /\ TickInv' /\ PublishInv' /\ KeptInv' /\ OrphanInv'
        /\ WorkInv' /\ ClaimInv' /\ HandledMeansTold'
        /\ \A v \in Workers : \A k \in Messages :
             Claimed(v, k)' <=> Claimed(v, k) /\ v # w
    BY <1>1, <1>2, <1>3, <1>4, <1>5, PutBackKeeps
  <1>7. \A k \in Messages : Claimed(w, k) => k = m
    BY DEF Claimed
  <1>8. \A v \in Workers : v # w => worker'[v] = worker[v]
    BY <1>2 DEF PutBack, LetGo, TypeOK
  <1>9. \A p \in People : aborts[m] < MaxCount =>
          written'[m][p] + stray'[m][p] <= aborts[m] + 1
    BY <1>1, <1>2 DEF RepeatInv
  <1>10. RepeatInv'
    BY <1>1, <1>2, <1>5, <1>6, <1>7, <1>8, <1>9, AbortRepeats
  <1> QED
    BY <1>6, <1>10

\* dispatch raised for p, after the message may or may not have reached p: the
\* sends still on the wire are those the abort accounts for.
LEMMA GiveUpStep ==
  ASSUME IInv, NEW w \in Workers, NEW p \in People, Sending(w, p), GiveUp(w, p),
         UNCHANGED faults \/ Fault,
         \/ UNCHANGED written
         \/ written' = [written EXCEPT ![worker[w].message][p] = Bump(@)]
  PROVE  IInv'
  <1> USE DEF IInv
  <1> DEFINE m == worker[w].message
  <1>1. /\ worker[w] # None /\ m \in Messages /\ worker[w].stage = "sending"
        /\ p \in worker[w].awaiting /\ Claimed(w, m)
    BY BusyFact DEF Sending, Claimed
  <1> DEFINE S == [q \in People |->
                     IF q \in worker[w].awaiting \ {p} /\ Target[q] = "served"
                       THEN Bump(stray[m][q]) ELSE stray[m][q]]
  <1>2. /\ PutBack(w) /\ aborts' = [aborts EXCEPT ![m] = Bump(@)]
        /\ stray' = [stray EXCEPT ![m] = S]
        /\ UNCHANGED <<relayVars, inbox>>
    BY DEF GiveUp
  <1>3. \A q \in People : stray[m][q] \in 0 .. MaxCount /\ written[m][q] \in 0 .. MaxCount
    BY <1>1 DEF TypeOK
  <1>4. \A q \in People : /\ S[q] \in 0 .. MaxCount
                          /\ S[q] <= stray[m][q] + 1
                          /\ q \notin worker[w].awaiting \ {p} => S[q] = stray[m][q]
    BY <1>3, BumpFact
  <1>5. S \in [People -> 0 .. MaxCount]
    BY <1>4
  <1> HIDE DEF S
  <1>6. /\ stray' \in [Messages -> [People -> 0 .. MaxCount]]
        /\ stray'[m] = S
        /\ \A k \in Messages : k # m => stray'[k] = stray[k]
    BY <1>1, <1>2, <1>5 DEF TypeOK
  <1>7. /\ written' \in [Messages -> [People -> 0 .. MaxCount]]
        /\ \A k \in Messages : \A q \in People : written'[k][q] >= written[k][q]
        /\ \A k \in Messages : k # m => written'[k] = written[k]
        /\ \A q \in People : q # p => written'[m][q] = written[m][q]
        /\ written'[m][p] <= written[m][p] + 1
    <2>1. CASE UNCHANGED written
      BY <2>1, <1>1 DEF TypeOK
    <2>2. CASE written' = [written EXCEPT ![m][p] = Bump(@)]
      BY <2>2, <1>1, BumpWritten, ZenonT(60)
    <2> QED
      BY <2>1, <2>2
  <1>8. aborts' \in [Messages -> 0 .. MaxCount]
    BY <1>1, <1>2, BumpAborts
  <1>9. /\ TypeOK' /\ TickInv' /\ PublishInv' /\ KeptInv' /\ OrphanInv'
        /\ WorkInv' /\ ClaimInv' /\ HandledMeansTold'
        /\ \A v \in Workers : \A k \in Messages :
             Claimed(v, k)' <=> Claimed(v, k) /\ v # w
    BY <1>1, <1>2, <1>6, <1>7, <1>8, PutBackKeeps
  <1>10. \A k \in Messages : Claimed(w, k) => k = m
    BY DEF Claimed
  <1>11. \A v \in Workers : v # w => worker'[v] = worker[v]
    BY <1>2 DEF PutBack, LetGo, TypeOK
  <1>12. ASSUME NEW q \in People, aborts[m] < MaxCount
         PROVE  written'[m][q] + stray'[m][q] <= aborts[m] + 1
    <2>0. /\ written[m][q] \in Nat /\ stray[m][q] \in Nat /\ aborts[m] \in Nat
          /\ written'[m][q] \in Nat /\ S[q] \in Nat
      BY <1>1, <1>3, <1>4, <1>7 DEF TypeOK
    <2>1. CASE q \in worker[w].awaiting
      <3>1. written[m][q] + stray[m][q] <= aborts[m]
        BY <2>1, <1>1, <1>12 DEF RepeatInv
      <3>2. CASE q = p
        BY <3>1, <3>2, <2>0, <1>4, <1>6, <1>7
      <3>3. CASE q # p
        BY <3>1, <3>3, <2>0, <1>4, <1>6, <1>7
      <3> QED
        BY <3>2, <3>3
    <2>2. CASE q \notin worker[w].awaiting
      <3>1. written[m][q] + stray[m][q] <= aborts[m] + 1
        BY <1>1, <1>12 DEF RepeatInv
      <3> QED
        BY <3>1, <2>2, <1>1, <1>4, <1>6, <1>7
    <2> QED
      BY <2>1, <2>2
  <1>13. RepeatInv'
    BY <1>1, <1>2, <1>6, <1>7, <1>9, <1>10, <1>11, <1>12, AbortRepeats
  <1> QED
    BY <1>9, <1>13

\* The process dies while it holds a copy, before or after its claim.
LEMMA HandlingLostStep ==
  ASSUME IInv, NEW w \in Workers, HandlingLost(w)
  PROVE  IInv'
  <1> USE DEF IInv
  <1> DEFINE m == worker[w].message
  <1>1. worker[w] # None /\ m \in Messages
    BY BusyFact DEF HandlingLost
  <1>2. /\ PutBack(w) /\ Fault
        /\ UNCHANGED <<relayVars, inbox, written, stray>>
        /\ aborts' = IF worker[w].stage = "sending"
                       THEN [aborts EXCEPT ![m] = Bump(@)] ELSE aborts
    BY DEF HandlingLost
  <1>3. aborts' \in [Messages -> 0 .. MaxCount]
    BY <1>1, <1>2, BumpAborts DEF TypeOK
  <1>4. \A k \in Messages : \A p \in People : written'[k][p] >= written[k][p]
    BY <1>2 DEF TypeOK
  <1>5. written' \in [Messages -> [People -> 0 .. MaxCount]]
        /\ stray' \in [Messages -> [People -> 0 .. MaxCount]]
    BY <1>2 DEF TypeOK
  <1>6. /\ TypeOK' /\ TickInv' /\ PublishInv' /\ KeptInv' /\ OrphanInv'
        /\ WorkInv' /\ ClaimInv' /\ HandledMeansTold'
        /\ \A v \in Workers : \A k \in Messages :
             Claimed(v, k)' <=> Claimed(v, k) /\ v # w
    BY <1>1, <1>2, <1>3, <1>4, <1>5, PutBackKeeps
  <1>7. \A v \in Workers : v # w => worker'[v] = worker[v]
    BY <1>2 DEF PutBack, LetGo, TypeOK
  <1>8. CASE worker[w].stage = "sending"
    <2>1. \A k \in Messages : Claimed(w, k) => k = m
      BY DEF Claimed
    <2>2. \A p \in People : aborts[m] < MaxCount =>
            written'[m][p] + stray'[m][p] <= aborts[m] + 1
      BY <1>1, <1>2 DEF RepeatInv
    <2>3. RepeatInv'
      BY <1>1, <1>2, <1>5, <1>6, <1>7, <1>8, <2>1, <2>2, AbortRepeats
    <2> QED
      BY <1>6, <2>3
  <1>9. CASE worker[w].stage # "sending"
    <2>1. \A v \in Workers : \A k \in Messages : Claimed(v, k)' <=> Claimed(v, k)
      BY <1>6, <1>9 DEF Claimed
    <2>2. \A v \in Workers : \A k \in Messages :
            Claimed(v, k)' => worker'[v] = worker[v]
      BY <1>6, <1>7
    <2>3. RepeatInv'
      BY <1>2, <1>9, <2>1, <2>2 DEF RepeatInv
    <2> QED
      BY <1>6, <2>3
  <1> QED
    BY <1>8, <1>9

\* One of the sends is answered.
LEMMA SendStep ==
  ASSUME IInv, NEW w \in Workers, NEW p \in People, Send(w, p)
  PROVE  IInv'
  <1> USE DEF IInv
  <1> DEFINE m == worker[w].message
             C == [message |-> m, stage |-> "sending",
                   awaiting |-> worker[w].awaiting \ {p}]
  <1>1. /\ worker[w] # None /\ m \in Messages /\ worker[w].stage = "sending"
        /\ p \in worker[w].awaiting /\ Claimed(w, m) /\ worker[w].awaiting \subseteq People
    BY BusyFact DEF Send, Sending, Claimed
  <1>2. C \in Copy_ /\ C # None /\ C.stage = "sending" /\ C.message = m
        /\ C.awaiting = worker[w].awaiting \ {p}
    BY <1>1, NoneFact DEF Copy_
  <1>3. /\ worker' = [worker EXCEPT ![w] = C]
        /\ UNCHANGED <<relayVars, copies, lostVars, inbox, stray, aborts, faults>>
        /\ \/ Target[p] = "served" /\ written' = [written EXCEPT ![m][p] = Bump(@)]
           \/ Target[p] = "closed" /\ UNCHANGED written
    BY DEF Send
  <1> HIDE DEF C
  <1>4. /\ written' \in [Messages -> [People -> 0 .. MaxCount]]
        /\ \A k \in Messages : \A q \in People : written'[k][q] >= written[k][q]
        /\ \A k \in Messages : k # m => written'[k] = written[k]
        /\ \A q \in People : q # p => written'[m][q] = written[m][q]
        /\ written'[m][p] <= written[m][p] + 1
        /\ Target[p] = "served" => written'[m][p] > 0
    <2>1. CASE Target[p] = "closed" /\ UNCHANGED written
      BY <2>1, <1>1 DEF TypeOK
    <2>2. CASE Target[p] = "served" /\ written' = [written EXCEPT ![m][p] = Bump(@)]
      BY <2>2, <1>1, BumpWritten, ZenonT(60)
    <2> QED
      BY <1>3, <2>1, <2>2
  <1>5. TypeOK'
    BY <1>2, <1>3, <1>4 DEF TypeOK, relayVars, lostVars, Copy_
  <1>6. \A k \in Messages : Safe(k) => Safe(k)'
    BY <1>1, <1>2, <1>3 DEF Safe, Kept, lostVars, TypeOK
  <1>7. TickInv' /\ PublishInv' /\ KeptInv'
    BY <1>3, <1>6, RelaysKeep
  <1>8. \A v \in Workers : \A k \in Messages : Claimed(v, k)' <=> Claimed(v, k)
    BY <1>1, <1>2, <1>3 DEF Claimed, TypeOK
  <1>9. \A v \in Workers : v # w => worker'[v] = worker[v]
    BY <1>3 DEF TypeOK
  <1>10. worker'[w] = C
    BY <1>3 DEF TypeOK
  <1>11. \A k \in Messages : \A q \in Audience(k) : q \in People
    BY AudienceFact
  <1>12. \A k \in Messages : \A q \in Audience(k) :
           written[k][q] > 0 => written'[k][q] > 0
    BY <1>4, <1>11 DEF TypeOK
  <1>13. ClaimInv' /\ HandledMeansTold'
    BY <1>3, <1>8, <1>12 DEF ClaimInv, HandledMeansTold, TypeOK
  <1>14. WorkInv'
    <2> SUFFICES ASSUME NEW v \in Workers, worker'[v] # None
                 PROVE  /\ worker'[v].stage = "done" => worker'[v].message \in inbox'
                        /\ worker'[v].stage = "sending" =>
                             /\ worker'[v].message \notin inbox'
                             /\ \A q \in Audience(worker'[v].message) :
                                  Target[q] = "served" /\ q \notin worker'[v].awaiting =>
                                    written'[worker'[v].message][q] > 0
      BY DEF WorkInv
    <2>1. CASE v = w
      <3>1. m \notin inbox
        BY <1>1 DEF WorkInv
      <3>2. ASSUME NEW q \in Audience(m), Target[q] = "served", q \notin C.awaiting
            PROVE  written'[m][q] > 0
        <4>1. CASE q = p
          BY <4>1, <3>2, <1>4
        <4>2. CASE q # p
          BY <4>2, <3>2, <1>1, <1>2, <1>12 DEF WorkInv
        <4> QED
          BY <4>1, <4>2
      <3> QED
        BY <2>1, <3>1, <3>2, <1>2, <1>3, <1>10
    <2>2. CASE v # w
      <3>1. worker'[v] = worker[v] /\ worker[v] # None
        BY <2>2, <1>9
      <3>2. worker[v].message \in Messages
        BY <3>1, BusyFact
      <3> QED
        BY <3>1, <3>2, <1>3, <1>12 DEF WorkInv
    <2> QED
      BY <2>1, <2>2
  <1>15. RepeatInv'
    <2> SUFFICES ASSUME NEW k \in Messages, NEW q \in People, aborts[k] < MaxCount
                 PROVE  /\ written'[k][q] + stray[k][q] <= aborts[k] + 1
                        /\ (\E v \in Workers : Claimed(v, k)' /\ q \in worker'[v].awaiting)
                             => written'[k][q] + stray[k][q] <= aborts[k]
                        /\ k \notin inbox /\ (\A v \in Workers : ~Claimed(v, k)') =>
                             written'[k][q] + stray[k][q] <= aborts[k]
      BY <1>3 DEF RepeatInv
    <2>1. CASE k # m \/ q # p
      <3>1. written'[k][q] = written[k][q]
        BY <2>1, <1>4
      <3>2. \A v \in Workers : q \in worker'[v].awaiting => q \in worker[v].awaiting
        BY <1>2, <1>9, <1>10
      <3> QED
        BY <3>1, <3>2, <1>8 DEF RepeatInv
    <2>2. CASE k = m /\ q = p
      <3>1. written[m][p] + stray[m][p] <= aborts[m]
        BY <2>2, <1>1 DEF RepeatInv
      <3>2. written'[m][p] + stray[m][p] <= aborts[m] + 1
        BY <3>1, <1>1, <1>4 DEF TypeOK
      <3>3. \A v \in Workers : Claimed(v, k)' => v = w
        BY <2>2, <1>1, <1>8 DEF ClaimInv
      <3>4. p \notin worker'[w].awaiting
        BY <1>2, <1>10
      <3>5. Claimed(w, k)'
        BY <2>2, <1>1, <1>8
      <3> QED
        BY <2>2, <3>2, <3>3, <3>4, <3>5
    <2> QED
      BY <2>1, <2>2
  <1>20. OrphanInv'
    BY <1>1, <1>2, <1>3, OrphansKeep DEF TypeOK
  <1> QED
    BY <1>5, <1>7, <1>13, <1>14, <1>15, <1>20

\* All sends are answered, and the claim becomes permanent.
LEMMA HandlerCommitStep ==
  ASSUME IInv, NEW w \in Workers, HandlerCommit(w)
  PROVE  IInv'
  <1> USE DEF IInv
  <1> DEFINE m == worker[w].message
  <1>1. /\ worker[w] # None /\ m \in Messages /\ worker[w].stage = "sending"
        /\ worker[w].awaiting = {} /\ Claimed(w, m)
    BY BusyFact DEF HandlerCommit, Claimed
  <1>2. Finished(m) \in Copy_ /\ Finished(m) # None /\ Finished(m).stage = "done"
        /\ Finished(m).message = m
    BY <1>1, NoneFact DEF Copy_, Finished
  <1>3. /\ worker' = [worker EXCEPT ![w] = Finished(m)]
        /\ inbox' = inbox \cup {m}
        /\ UNCHANGED <<relayVars, copies, lostVars, written, stray, aborts, faults>>
    BY DEF HandlerCommit
  <1>4. TypeOK'
    BY <1>1, <1>2, <1>3 DEF TypeOK, relayVars, lostVars, Copy_
  <1>5. \A k \in Messages : Safe(k) => Safe(k)'
    BY <1>1, <1>2, <1>3 DEF Safe, Kept, lostVars, TypeOK
  <1>6. TickInv' /\ PublishInv' /\ KeptInv'
    BY <1>3, <1>5, RelaysKeep
  <1>7. \A v \in Workers : \A k \in Messages : Claimed(v, k)' <=> Claimed(v, k) /\ v # w
    BY <1>1, <1>2, <1>3 DEF Claimed, TypeOK
  <1>8. ClaimInv'
    BY <1>7 DEF ClaimInv
  <1>9. \A p \in Audience(m) : Target[p] = "served" => written[m][p] > 0
    BY <1>1 DEF WorkInv
  <1>10. HandledMeansTold'
    BY <1>3, <1>9 DEF HandledMeansTold
  <1>11. WorkInv'
    <2> SUFFICES ASSUME NEW v \in Workers, worker'[v] # None
                 PROVE  /\ worker'[v].stage = "done" => worker'[v].message \in inbox'
                        /\ worker'[v].stage = "sending" =>
                             /\ worker'[v].message \notin inbox'
                             /\ \A p \in Audience(worker'[v].message) :
                                  Target[p] = "served" /\ p \notin worker'[v].awaiting =>
                                    written'[worker'[v].message][p] > 0
      BY DEF WorkInv
    <2>1. CASE v = w
      BY <2>1, <1>2, <1>3 DEF TypeOK
    <2>2. CASE v # w
      <3>1. worker'[v] = worker[v] /\ worker[v] # None
        BY <2>2, <1>3 DEF TypeOK
      <3>2. worker[v].stage = "sending" => worker[v].message # m
        BY <2>2, <3>1, <1>1 DEF ClaimInv, Claimed
      <3> QED
        BY <3>1, <3>2, <1>3 DEF WorkInv
    <2> QED
      BY <2>1, <2>2
  <1>12. RepeatInv'
    <2> SUFFICES ASSUME NEW k \in Messages, NEW p \in People, aborts[k] < MaxCount
                 PROVE  /\ written[k][p] + stray[k][p] <= aborts[k] + 1
                        /\ (\E v \in Workers : Claimed(v, k)' /\ p \in worker'[v].awaiting)
                             => written[k][p] + stray[k][p] <= aborts[k]
                        /\ k \notin inbox' /\ (\A v \in Workers : ~Claimed(v, k)') =>
                             written[k][p] + stray[k][p] <= aborts[k]
      BY <1>3 DEF RepeatInv
    <2>1. written[k][p] + stray[k][p] <= aborts[k] + 1
      BY DEF RepeatInv
    <2>2. (\E v \in Workers : Claimed(v, k)' /\ p \in worker'[v].awaiting)
            => written[k][p] + stray[k][p] <= aborts[k]
      BY <1>3, <1>7 DEF RepeatInv, TypeOK
    <2>3. k \notin inbox' /\ (\A v \in Workers : ~Claimed(v, k)') =>
            \A v \in Workers : ~Claimed(v, k)
      BY <1>3, <1>7 DEF Claimed
    <2>4. k \notin inbox' => k \notin inbox
      BY <1>3
    <2> QED
      BY <2>1, <2>2, <2>3, <2>4 DEF RepeatInv
  <1>20. OrphanInv'
    BY <1>1, <1>2, <1>3, OrphansKeep DEF TypeOK
  <1> QED
    BY <1>4, <1>6, <1>8, <1>10, <1>11, <1>12, <1>20

\* A send that outlived its handler arrives: it was counted already.
LEMMA StrayStep ==
  ASSUME IInv, NEW m \in Messages, NEW p \in People, StrayLands(m, p)
  PROVE  IInv'
  <1> USE DEF IInv
  <1>1. /\ stray[m][p] > 0 /\ stray' = [stray EXCEPT ![m][p] = @ - 1]
        /\ written' = [written EXCEPT ![m][p] = Bump(@)]
        /\ UNCHANGED <<relayVars, copies, lostVars, worker, inbox, aborts, faults>>
    BY DEF StrayLands
  <1>2. /\ written' \in [Messages -> [People -> 0 .. MaxCount]]
        /\ \A k \in Messages : \A q \in People : written'[k][q] >= written[k][q]
        /\ \A k \in Messages : k # m => written'[k] = written[k]
        /\ \A q \in People : q # p => written'[m][q] = written[m][q]
        /\ written'[m][p] <= written[m][p] + 1
    BY <1>1, BumpWritten
  <1> DEFINE s == stray[m][p] - 1
  <1>3. s \in 0 .. MaxCount /\ s = stray[m][p] - 1
    <2>1. stray[m][p] \in 0 .. MaxCount
      BY DEF TypeOK
    <2>2. stray[m][p] > 0
      BY <1>1
    <2>3. MaxCount \in Nat
      BY DeliveryAssumption DEF DeliveryAssumption
    <2> QED
      BY <2>1, <2>2, <2>3
  <1>3a. stray' = [stray EXCEPT ![m] = [stray[m] EXCEPT ![p] = s]]
    BY <1>1
  <1> HIDE DEF s
  <1>4. /\ stray' \in [Messages -> [People -> 0 .. MaxCount]]
        /\ \A k \in Messages : k # m => stray'[k] = stray[k]
        /\ \A q \in People : q # p => stray'[m][q] = stray[m][q]
        /\ stray'[m][p] = stray[m][p] - 1
    <2>1. /\ stray'[m] = [stray[m] EXCEPT ![p] = s]
          /\ \A k \in Messages : k # m => stray'[k] = stray[k]
      BY <1>3a DEF TypeOK
    <2>2. stray'[m][p] = s /\ \A q \in People : q # p => stray'[m][q] = stray[m][q]
      BY <2>1 DEF TypeOK
    <2>3. stray' \in [Messages -> [People -> 0 .. MaxCount]]
      BY <1>3, <1>3a DEF TypeOK
    <2> QED
      BY <1>3, <2>1, <2>2, <2>3
  <1>5. TypeOK'
    BY <1>1, <1>2, <1>4 DEF TypeOK, relayVars, lostVars
  <1>6. \A k \in Messages : Safe(k) => Safe(k)'
    BY <1>1 DEF Safe, Kept, lostVars
  <1>7. TickInv' /\ PublishInv' /\ KeptInv'
    BY <1>1, <1>6, RelaysKeep
  <1>8. \A v \in Workers : \A k \in Messages : Claimed(v, k)' <=> Claimed(v, k)
    BY <1>1 DEF Claimed
  <1>9. \A k \in Messages : \A q \in Audience(k) : written[k][q] > 0 => written'[k][q] > 0
    BY <1>2, AudienceFact DEF TypeOK
  <1>10. ClaimInv' /\ HandledMeansTold'
    BY <1>1, <1>8, <1>9 DEF ClaimInv, HandledMeansTold, TypeOK
  <1>11. WorkInv'
    BY <1>1, <1>9, BusyFact DEF WorkInv
  <1>12. \A k \in Messages : \A q \in People :
           written'[k][q] + stray'[k][q] <= written[k][q] + stray[k][q]
    <2> SUFFICES ASSUME NEW k \in Messages, NEW q \in People
                 PROVE  written'[k][q] + stray'[k][q] <= written[k][q] + stray[k][q]
      OBVIOUS
    <2>1. /\ written[k][q] \in Nat /\ stray[k][q] \in Nat
          /\ written'[k][q] \in Nat /\ stray'[k][q] \in Nat
      BY <1>2, <1>4 DEF TypeOK
    <2>2. CASE k = m /\ q = p
      BY <2>1, <2>2, <1>2, <1>4
    <2>3. CASE k # m \/ q # p
      BY <2>1, <2>3, <1>2, <1>4
    <2> QED
      BY <2>2, <2>3
  <1>13. RepeatInv'
    <2> SUFFICES ASSUME NEW k \in Messages, NEW q \in People, aborts[k] < MaxCount
                 PROVE  /\ written'[k][q] + stray'[k][q] <= aborts[k] + 1
                        /\ (\E v \in Workers : Claimed(v, k) /\ q \in worker[v].awaiting)
                             => written'[k][q] + stray'[k][q] <= aborts[k]
                        /\ k \notin inbox /\ (\A v \in Workers : ~Claimed(v, k)) =>
                             written'[k][q] + stray'[k][q] <= aborts[k]
      BY <1>1, <1>8 DEF RepeatInv
    <2>1. /\ written[k][q] \in Nat /\ stray[k][q] \in Nat /\ aborts[k] \in Nat
          /\ written'[k][q] \in Nat /\ stray'[k][q] \in Nat
      BY <1>2, <1>4 DEF TypeOK
    <2>2. written'[k][q] + stray'[k][q] <= written[k][q] + stray[k][q]
      BY <1>12
    <2>3. /\ written[k][q] + stray[k][q] <= aborts[k] + 1
          /\ (\E v \in Workers : Claimed(v, k) /\ q \in worker[v].awaiting)
               => written[k][q] + stray[k][q] <= aborts[k]
          /\ k \notin inbox /\ (\A v \in Workers : ~Claimed(v, k)) =>
               written[k][q] + stray[k][q] <= aborts[k]
      BY DEF RepeatInv
    <2> QED
      BY <2>1, <2>2, <2>3
  <1>20. OrphanInv'
    BY <1>1, OrphansKeep DEF TypeOK
  <1> QED
    BY <1>5, <1>7, <1>10, <1>11, <1>13, <1>20

\* The broker forgets every copy: what it takes is recorded, and what the workers hold
\* is theirs to finish.
LEMMA BrokerRestartsStep ==
  ASSUME IInv, BrokerRestarts
  PROVE  IInv'
  <1> USE DEF IInv
  <1>1. /\ Fault
        /\ copies' = [m \in Messages |-> 0]
        /\ orphans' = {w \in Workers : worker[w] # None}
        /\ dropped' = dropped \cup {m \in Messages : copies[m] > 0}
                            \cup {worker[w].message : w \in orphans'}
        /\ UNCHANGED <<relayVars, worker, inbox, written, stray, aborts>>
    BY DEF BrokerRestarts
  <1>2. faults' \in 0 .. MaxFaults
    BY <1>1, FaultFact
  <1>3. \A w \in orphans' : worker[w].message \in Messages
    BY <1>1, BusyFact
  <1>4. TypeOK'
    BY <1>1, <1>2, <1>3 DEF TypeOK, relayVars
  <1>5. \A k \in Messages : Safe(k) => Safe(k)'
    BY <1>1 DEF Safe, Kept
  <1>6. TickInv' /\ PublishInv' /\ KeptInv'
    BY <1>1, <1>5, RelaysKeep
  <1>7. OrphanInv'
    BY <1>1 DEF OrphanInv
  <1>8. WorkInv' = WorkInv /\ ClaimInv' = ClaimInv
    BY <1>1 DEF WorkInv, ClaimInv, Claimed
  <1>9. HandledMeansTold' = HandledMeansTold
    BY <1>1 DEF HandledMeansTold
  <1>10. RepeatInv' = RepeatInv
    BY <1>1 DEF RepeatInv, Claimed
  <1> QED
    BY <1>4, <1>6, <1>7, <1>8, <1>9, <1>10

-----------------------------------------------------------------------------
(* Every step, and the theorems *)

\* The invariant is inductive.
LEMMA StepIInv == IInv /\ [Next]_vars => IInv'
  <1> SUFFICES ASSUME IInv, [Next]_vars PROVE IInv'
    OBVIOUS
  <1>1. ASSUME NEW m \in Messages, Record(m) PROVE IInv'
    BY <1>1, RecordStep
  <1>2. ASSUME NEW r \in Relays, RelayNext(r) PROVE IInv'
    BY <1>2, TickStep, PublishStep, PublishFailsStep, RelayCommitStep, RelayAbortStep
       DEF RelayNext
  <1>3. ASSUME NEW w \in Workers, WorkerNext(w) PROVE IInv'
    <2>1. ASSUME NEW m \in Messages, Deliver(w, m) PROVE IInv'
      BY <2>1, DeliverStep
    <2>2. CASE log_unparsable_body(w)
      BY <2>2, ReleaseStep DEF log_unparsable_body
    <2>3. CASE Claim(w)
      BY <2>3, ClaimStep
    <2>4. CASE Refuse(w)
      BY <2>4, RefuseStep
    <2>5. CASE ResolveFails(w)
      BY <2>5, ResolveFailsStep
    <2>6. ASSUME NEW p \in People, Send(w, p) PROVE IInv'
      BY <2>6, SendStep
    <2>7. ASSUME NEW p \in People, SendFails(w, p) PROVE IInv'
      BY <2>7, GiveUpStep DEF SendFails
    <2>8. ASSUME NEW p \in People, ChannelUnavailable(w, p) PROVE IInv'
      BY <2>8, GiveUpStep DEF ChannelUnavailable
    <2>9. CASE HandlerCommit(w)
      BY <2>9, HandlerCommitStep
    <2>10. CASE Ack(w)
      BY <2>10, ReleaseStep DEF Ack, IInv, WorkInv
    <2>11. CASE HandlingLost(w)
      BY <2>11, HandlingLostStep
    <2> QED
      BY <1>3, <2>1, <2>2, <2>3, <2>4, <2>5, <2>6, <2>7, <2>8, <2>9, <2>10, <2>11
         DEF WorkerNext
  <1>4. ASSUME NEW m \in Messages, NEW p \in People, StrayLands(m, p) PROVE IInv'
    BY <1>4, StrayStep
  <1>5. CASE BrokerRestarts
    BY <1>5, BrokerRestartsStep
  <1>6. CASE UNCHANGED vars
    <2>1. relayVars' = relayVars /\ workerVars' = workerVars /\ copies' = copies
          /\ faults' = faults
      BY <1>6 DEF vars, relayVars, workerVars, lostVars
    <2>2. TypeOK' = TypeOK
      BY <2>1 DEF TypeOK, relayVars, workerVars, lostVars
    <2>3. \A m \in Messages : Safe(m) => Safe(m)'
      BY <2>1 DEF Safe, Kept, lostVars, workerVars
    <2> QED
      BY <2>1, <2>2, <2>3, ConsumersKeep, RelaysKeep DEF IInv
  <1> QED
    BY <1>1, <1>2, <1>3, <1>4, <1>5, <1>6 DEF Next

\* The invariant holds in every reachable state.
LEMMA SpecIInv == Spec => []IInv
  BY InitIInv, StepIInv, PTL DEF Spec

\* The variables of relays, broker and consumers keep their types.
THEOREM TypeCorrect == Spec => []TypeOK
  <1>1. IInv => TypeOK
    BY DEF IInv
  <1> QED
    BY <1>1, SpecIInv, PTL

\* Between the outbox and the inbox nothing but a restart of the broker loses an event,
\* for any number of relays, workers, crashes and lost answers; and that loses only what
\* was with the broker at the time.
THEOREM OnlyTheBrokerLosesEvents == Spec => []OnlyTheBrokerLoses
  <1>1. IInv => OnlyTheBrokerLoses
    BY DEF IInv, KeptInv, Safe, Settled, OnlyTheBrokerLoses
  <1> QED
    BY <1>1, SpecIInv, PTL

\* Replicas of the relay never publish a row twice unless something failed.
THEOREM RelaysAreSafeInParallel == Spec => []RepublishNeedsAFault
  <1>1. IInv => RepublishNeedsAFault
    BY DEF IInv, PublishInv, RepublishNeedsAFault
  <1> QED
    BY <1>1, SpecIInv, PTL

\* What the inbox calls handled has reached everyone it could reach.
THEOREM Told == Spec => []HandledMeansTold
  <1>1. IInv => HandledMeansTold
    BY DEF IInv
  <1> QED
    BY <1>1, SpecIInv, PTL

\* Duplicates reach nobody: repeats are bounded by the handlings given up.
THEOREM InboxIsIdempotent == Spec => []RepeatsNeedAnAbort
  <1>1. ASSUME IInv, NEW m \in Messages, NEW p \in People, aborts[m] < MaxCount
        PROVE  written[m][p] <= aborts[m] + 1
    <2>1. written[m][p] \in Nat /\ stray[m][p] \in Nat /\ aborts[m] \in Nat
      BY <1>1 DEF IInv, TypeOK
    <2>2. written[m][p] + stray[m][p] <= aborts[m] + 1
      BY <1>1 DEF IInv, RepeatInv
    <2> QED
      BY <2>1, <2>2
  <1>2. IInv => RepeatsNeedAnAbort
    BY <1>1 DEF RepeatsNeedAnAbort
  <1> QED
    BY <1>2, SpecIInv, PTL
-----------------------------------------------------------------------------
(* Messages that wait for their channel *)

\* A worker that has claimed m still awaits everyone no sender speaks to.
ChannelInv ==
  /\ WaitsForTheChannel
  /\ \A w \in Workers : worker[w] # None /\ worker[w].stage = "sending" =>
       \A p \in Audience(worker[w].message) :
         /\ Target[p] # "unknown"
         /\ Target[p] = "unserved" => p \in worker[w].awaiting

\* A worker that goes on to x, with what is claimed waiting for its channel,
\* keeps the invariant as long as the inbox stays as it is.
LEMMA ChannelKeeps ==
  ASSUME TypeOK, ChannelInv, NEW w \in Workers, NEW x,
         worker' = [worker EXCEPT ![w] = x], inbox' = inbox,
         x # None /\ x.stage = "sending" =>
           \A p \in Audience(x.message) :
             Target[p] # "unknown" /\ (Target[p] = "unserved" => p \in x.awaiting)
  PROVE  ChannelInv'
<1>1. worker'[w] = x /\ \A v \in Workers \ {w} : worker'[v] = worker[v]
  BY DEF TypeOK
<1>2. WaitsForTheChannel'
  BY DEF ChannelInv, WaitsForTheChannel
<1>3. ASSUME NEW v \in Workers, worker'[v] # None, worker'[v].stage = "sending",
             NEW p \in Audience(worker'[v].message)
      PROVE  Target[p] # "unknown" /\ (Target[p] = "unserved" => p \in worker'[v].awaiting)
  BY <1>1, <1>3 DEF ChannelInv
<1> QED
  BY <1>2, <1>3 DEF ChannelInv

\* No step commits a claim while somebody it concerns is out of reach.
LEMMA ChannelStep ==
  ASSUME IInv, ChannelInv, [Next]_vars
  PROVE  ChannelInv'
<1>1. TypeOK
  BY DEF IInv
<1>2. ASSUME UNCHANGED <<worker, inbox>> PROVE ChannelInv'
  BY <1>2 DEF ChannelInv, WaitsForTheChannel
<1>3. ASSUME NEW m \in Messages, Record(m) PROVE UNCHANGED <<worker, inbox>>
  BY <1>3 DEF Record, workerVars
<1>4. ASSUME NEW r \in Relays, RelayNext(r) PROVE UNCHANGED <<worker, inbox>>
  BY <1>4 DEF RelayNext, Tick, Publish, PublishFails, RelayCommit, RelayAbort, workerVars
<1>5. ASSUME NEW m \in Messages, NEW p \in People, StrayLands(m, p)
      PROVE  UNCHANGED <<worker, inbox>>
  BY <1>5 DEF StrayLands
<1>6. ASSUME NEW w \in Workers, WorkerNext(w) PROVE ChannelInv'
  <2>1. ASSUME NEW m \in Messages, Deliver(w, m) PROVE ChannelInv'
    <3> DEFINE x == [message |-> m, stage |-> "taken", awaiting |-> {}]
    <3>1. worker' = [worker EXCEPT ![w] = x] /\ inbox' = inbox /\ x.stage # "sending"
      BY <2>1 DEF Deliver
    <3> QED
      BY <1>1, <3>1, ChannelKeeps
  <2>2. ASSUME worker' = [worker EXCEPT ![w] = None], inbox' = inbox PROVE ChannelInv'
    BY <1>1, <2>2, ChannelKeeps
  <2>3. CASE Claim(w)
    <3> DEFINE m == worker[w].message
               x == [message |-> m, stage |-> "sending", awaiting |-> Recipients(m)]
    <3>1. worker' = [worker EXCEPT ![w] = x] /\ inbox' = inbox /\ ~Unresolvable(m)
      BY <2>3 DEF Claim
    <3>2. \A p \in Audience(m) :
            Target[p] # "unknown" /\ (Target[p] = "unserved" => p \in Recipients(m))
      BY <3>1 DEF Unresolvable, Recipients, Resolves
    <3>3. x.message = m /\ x.awaiting = Recipients(m)
      OBVIOUS
    <3> HIDE DEF x, m
    <3> QED
      BY <1>1, <3>1, <3>2, <3>3, ChannelKeeps
  <2>4. CASE Refuse(w)
    <3> DEFINE x == Finished(worker[w].message)
    <3>1. worker' = [worker EXCEPT ![w] = x] /\ inbox' = inbox /\ x.stage # "sending"
      BY <2>4 DEF Refuse, Finished
    <3> QED
      BY <1>1, <3>1, ChannelKeeps
  <2>5. ASSUME NEW p \in People, Send(w, p) PROVE ChannelInv'
    <3> DEFINE m == worker[w].message
               x == [message |-> m, stage |-> "sending", awaiting |-> worker[w].awaiting \ {p}]
    <3>1. /\ worker' = [worker EXCEPT ![w] = x] /\ inbox' = inbox
          /\ worker[w] # None /\ worker[w].stage = "sending"
          /\ Target[p] # "unserved"
      BY <2>5 DEF Send, Sending
    <3>2. \A q \in Audience(m) :
            Target[q] # "unknown" /\ (Target[q] = "unserved" => q \in worker[w].awaiting \ {p})
      BY <3>1 DEF ChannelInv
    <3>3. x.message = m /\ x.awaiting = worker[w].awaiting \ {p}
      OBVIOUS
    <3> HIDE DEF x, m
    <3> QED
      BY <1>1, <3>1, <3>2, <3>3, ChannelKeeps
  <2>6. CASE HandlerCommit(w)
    <3> DEFINE m == worker[w].message
    <3>1. /\ worker[w] # None /\ worker[w].stage = "sending" /\ worker[w].awaiting = {}
          /\ inbox' = inbox \cup {m}
          /\ worker' = [worker EXCEPT ![w] = Finished(m)]
      BY <2>6 DEF HandlerCommit
    <3>2. \A p \in Audience(m) : Target[p] \notin {"unserved", "unknown"}
      BY <3>1 DEF ChannelInv
    <3>3. WaitsForTheChannel'
      BY <3>1, <3>2 DEF ChannelInv, WaitsForTheChannel
    <3>4. worker'[w].stage # "sending" /\ \A v \in Workers \ {w} : worker'[v] = worker[v]
      BY <1>1, <3>1 DEF TypeOK, Finished
    <3> QED
      BY <3>3, <3>4 DEF ChannelInv
  <2>7. ASSUME NEW p \in People, SendFails(w, p) \/ ChannelUnavailable(w, p)
        PROVE  ChannelInv'
    BY <2>2, <2>7 DEF SendFails, ChannelUnavailable, GiveUp, PutBack, LetGo
  <2>8. CASE log_unparsable_body(w) \/ ResolveFails(w) \/ Ack(w) \/ HandlingLost(w)
    BY <2>2, <2>8 DEF log_unparsable_body, ResolveFails, Ack, HandlingLost, PutBack, LetGo
  <2> QED
    BY <1>6, <2>1, <2>3, <2>4, <2>5, <2>6, <2>7, <2>8 DEF WorkerNext
<1>7. ASSUME BrokerRestarts PROVE UNCHANGED <<worker, inbox>>
  BY <1>7 DEF BrokerRestarts
<1>8. CASE UNCHANGED vars
  BY <1>2, <1>8 DEF vars
<1> QED
  BY <1>2, <1>3, <1>4, <1>5, <1>6, <1>7, <1>8 DEF Next

\* A message for somebody whose messenger has no sender is never marked handled.
THEOREM WaitsForItsChannel == Spec => []WaitsForTheChannel
<1>1. Init => ChannelInv
  BY DEF Init, ChannelInv, WaitsForTheChannel
<1>2. IInv /\ ChannelInv /\ [Next]_vars => ChannelInv'
  BY ChannelStep
<1>3. ChannelInv => WaitsForTheChannel
  BY DEF ChannelInv
<1> QED
  BY <1>1, <1>2, <1>3, SpecIInv, PTL DEF Spec
-----------------------------------------------------------------------------
(* The contract *)

\* A copy of m may be about: its row was committed and a queue is bound for it.
Heard(m) == row[m] # "absent" /\ Kind[m] \in Kinds

\* Every copy, every handling and every send under way comes from a recorded event, and
\* is meant for somebody it concerns.
OriginInv ==
  /\ \A m \in Messages : copies[m] > 0 => Heard(m)
  /\ \A w \in Workers : worker[w] # None =>
       /\ Heard(worker[w].message)
       /\ worker[w].stage = "sending" =>
            /\ worker[w].message \notin Unreadable
            /\ worker[w].awaiting \subseteq Audience(worker[w].message)
  /\ \A m \in Messages, p \in People : stray[m][p] > 0 =>
       Heard(m) /\ m \notin Unreadable /\ p \in Audience(m) /\ Target[p] = "served"

\* A row once written is never taken back.
LEMMA RowsStay ==
  ASSUME TypeOK, [Next]_vars, NEW m \in Messages, row[m] # "absent"
  PROVE  row'[m] # "absent"
<1>1. ASSUME NEW k \in Messages, Record(k) PROVE row'[m] # "absent"
  BY <1>1 DEF Record, TypeOK
<1>2. ASSUME NEW r \in Relays, RelayNext(r) PROVE row'[m] # "absent"
  BY <1>2 DEF RelayNext, Tick, Publish, PublishFails, RelayCommit, RelayAbort
<1>3. ASSUME NEW w \in Workers, WorkerNext(w) PROVE row' = row
  BY <1>3 DEF WorkerNext, Deliver, log_unparsable_body, Claim, Refuse, ResolveFails, Send, SendFails,
     ChannelUnavailable, GiveUp, HandlerCommit, Ack, HandlingLost, relayVars
<1>4. ASSUME NEW k \in Messages, NEW p \in People, StrayLands(k, p) PROVE row' = row
  BY <1>4 DEF StrayLands, relayVars
<1>5. ASSUME BrokerRestarts PROVE row' = row
  BY <1>5 DEF BrokerRestarts, relayVars
<1>6. CASE UNCHANGED vars
  BY <1>6 DEF vars
<1> QED BY <1>1, <1>2, <1>3, <1>4, <1>5, <1>6 DEF Next

\* A copy on a queue comes from a published row or from a worker that put it back.
LEMMA CopiesOrigin ==
  ASSUME IInv, OriginInv, [Next]_vars, NEW m \in Messages, copies'[m] > 0
  PROVE  Heard(m)'
<1>0. TypeOK
  BY DEF IInv
<1>1. SUFFICES ASSUME ~(copies[m] > 0) PROVE Heard(m)
  BY <1>0, RowsStay DEF OriginInv, Heard
<1>2. ASSUME NEW k \in Messages, Record(k) PROVE Heard(m)
  BY <1>1, <1>2 DEF Record, brokerVars
<1>3. ASSUME NEW r \in Relays, RelayNext(r) PROVE Heard(m)
  <2>1. ASSUME NEW k \in Messages, At(r, k), Accept(k) PROVE Heard(m)
    <3>1. k = m /\ Kind[m] \in Kinds
      BY <1>0, <1>1, <2>1 DEF Accept, TypeOK
    <3>2. row[k] = "pending"
      BY <2>1 DEF IInv, TickInv, At
    <3> QED BY <3>1, <3>2 DEF Heard
  <2> QED
    BY <1>1, <1>3, <2>1 DEF RelayNext, Tick, Publish, PublishFails, RelayCommit, RelayAbort, brokerVars
<1>4. ASSUME NEW w \in Workers, WorkerNext(w) PROVE Heard(m)
  <2>1. ASSUME worker[w] # None, PutBack(w) PROVE Heard(m)
    <3>1. worker[w].message = m
      BY <1>0, <1>1, <2>1, BusyFact DEF PutBack, TypeOK
    <3> QED BY <2>1, <3>1 DEF OriginInv
  <2>2. ASSUME NEW k \in Messages, Deliver(w, k) PROVE FALSE
    BY <1>0, <1>1, <2>2 DEF Deliver, TypeOK
  <2> QED
    BY <1>1, <1>4, <2>1, <2>2 DEF WorkerNext, log_unparsable_body, Claim, Claiming, Refuse,
       ResolveFails, Send, SendFails, Sending, ChannelUnavailable, GiveUp, HandlerCommit, Ack,
       HandlingLost
<1>5. ASSUME NEW k \in Messages, NEW p \in People, StrayLands(k, p) PROVE Heard(m)
  BY <1>1, <1>5 DEF StrayLands
<1>6. ASSUME BrokerRestarts PROVE FALSE
  BY <1>6, <1>0, <1>1 DEF BrokerRestarts, TypeOK
<1>7. CASE UNCHANGED vars
  BY <1>1, <1>7 DEF vars
<1> QED BY <1>2, <1>3, <1>4, <1>5, <1>6, <1>7 DEF Next

\* What a worker may hold.
Holds(x) ==
    /\ Heard(x.message)
    /\ x.stage = "sending" =>
         x.message \notin Unreadable /\ x.awaiting \subseteq Audience(x.message)

LEMMA WorkersOrigin ==
  ASSUME IInv, OriginInv, [Next]_vars, NEW v \in Workers, worker'[v] # None
  PROVE  Holds(worker[v])'
<1>0. TypeOK
  BY DEF IInv
<1>1. SUFFICES Holds(worker'[v])
  <2>1. worker'[v].message \in Messages
    <3>1. TypeOK'
      BY StepIInv DEF IInv
    <3> QED BY <3>1 DEF TypeOK
  <2> QED BY <1>0, <2>1, RowsStay DEF Holds, Heard
<1>2. ASSUME worker'[v] = worker[v] PROVE Holds(worker'[v])
  BY <1>2 DEF OriginInv, Holds
<1>3. ASSUME NEW m \in Messages, Record(m) PROVE worker' = worker
  BY <1>3 DEF Record, workerVars
<1>4. ASSUME NEW r \in Relays, RelayNext(r) PROVE worker' = worker
  BY <1>4 DEF RelayNext, Tick, Publish, PublishFails, RelayCommit, RelayAbort, workerVars
<1>5. ASSUME NEW m \in Messages, NEW p \in People, StrayLands(m, p) PROVE worker' = worker
  BY <1>5 DEF StrayLands
<1>6. ASSUME NEW w \in Workers, WorkerNext(w) PROVE Holds(worker'[v])
  <2>1. ASSUME NEW x, worker' = [worker EXCEPT ![w] = x], x = None \/ Holds(x)
        PROVE  Holds(worker'[v])
    BY <1>0, <1>2, <2>1 DEF TypeOK
  <2>2. ASSUME NEW m \in Messages, Deliver(w, m) PROVE Holds(worker'[v])
    <3> DEFINE x == [message |-> m, stage |-> "taken", awaiting |-> {}]
    <3>1. x.message = m /\ x.stage # "sending" /\ worker' = [worker EXCEPT ![w] = x] /\ copies[m] > 0
      BY <2>2 DEF Deliver
    <3> HIDE DEF x
    <3>2. Holds(x)
      BY <3>1 DEF OriginInv, Holds
    <3> QED BY <2>1, <3>1, <3>2
  <2>3. CASE Claim(w)
    <3> DEFINE m == worker[w].message
               x == [message |-> m, stage |-> "sending", awaiting |-> Recipients(m)]
    <3>1. /\ worker[w] # None /\ m \notin Unreadable /\ worker' = [worker EXCEPT ![w] = x]
          /\ x.message = m /\ x.awaiting = Recipients(m)
      BY <2>3 DEF Claim, Claiming
    <3>2. m \in Messages
      BY <1>0, <3>1, BusyFact
    <3> HIDE DEF x
    <3>3. Holds(x)
      BY <3>1, <3>2, AudienceFact DEF OriginInv, Holds
    <3> QED BY <2>1, <3>1, <3>3
  <2>4. CASE Refuse(w) \/ HandlerCommit(w)
    <3> DEFINE x == Finished(worker[w].message)
    <3>1. /\ worker[w] # None /\ worker' = [worker EXCEPT ![w] = x]
          /\ x.message = worker[w].message /\ x.stage # "sending"
      BY <2>4 DEF Refuse, HandlerCommit, Claiming, Finished
    <3> HIDE DEF x
    <3>2. Holds(x)
      BY <3>1 DEF OriginInv, Holds
    <3> QED BY <2>1, <3>1, <3>2
  <2>5. ASSUME NEW p \in People, Send(w, p) PROVE Holds(worker'[v])
    <3> DEFINE m == worker[w].message
               x == [message |-> m, stage |-> "sending", awaiting |-> worker[w].awaiting \ {p}]
    <3>1. /\ worker[w] # None /\ worker[w].stage = "sending" /\ worker' = [worker EXCEPT ![w] = x]
          /\ x.message = m /\ x.awaiting = worker[w].awaiting \ {p}
      BY <2>5 DEF Send, Sending
    <3> HIDE DEF x
    <3>2. Holds(x)
      BY <3>1 DEF OriginInv, Holds
    <3> QED BY <2>1, <3>1, <3>2
  <2>6. ASSUME NEW p \in People, SendFails(w, p) \/ ChannelUnavailable(w, p)
        PROVE  worker' = [worker EXCEPT ![w] = None]
    BY <2>6 DEF SendFails, ChannelUnavailable, GiveUp, PutBack, LetGo
  <2>7. CASE log_unparsable_body(w) \/ ResolveFails(w) \/ Ack(w) \/ HandlingLost(w)
    BY <2>1, <2>7 DEF log_unparsable_body, ResolveFails, Ack, HandlingLost, PutBack, LetGo
  <2> QED
    BY <1>6, <2>1, <2>2, <2>3, <2>4, <2>5, <2>6, <2>7 DEF WorkerNext
<1>7. ASSUME BrokerRestarts PROVE worker' = worker
  BY <1>7 DEF BrokerRestarts
<1>8. CASE UNCHANGED vars
  BY <1>2, <1>8 DEF vars
<1> QED BY <1>2, <1>3, <1>4, <1>5, <1>6, <1>7, <1>8 DEF Next

\* A send outlives its handler only when the handler was awaiting it.
LEMMA StrayOrigin ==
  ASSUME IInv, OriginInv, [Next]_vars, NEW m \in Messages, NEW p \in People, stray'[m][p] > 0
  PROVE  Heard(m)' /\ m \notin Unreadable /\ p \in Audience(m) /\ Target[p] = "served"
<1>0. TypeOK
  BY DEF IInv
<1>1. SUFFICES Heard(m) /\ m \notin Unreadable /\ p \in Audience(m) /\ Target[p] = "served"
  BY <1>0, RowsStay DEF Heard
<1>2. SUFFICES ASSUME ~(stray[m][p] > 0)
               PROVE  Heard(m) /\ m \notin Unreadable /\ p \in Audience(m) /\ Target[p] = "served"
  BY DEF OriginInv
<1>3. ASSUME NEW k \in Messages, Record(k) PROVE stray' = stray
  BY <1>3 DEF Record, workerVars
<1>4. ASSUME NEW r \in Relays, RelayNext(r) PROVE stray' = stray
  BY <1>4 DEF RelayNext, Tick, Publish, PublishFails, RelayCommit, RelayAbort, workerVars
<1>5. ASSUME NEW k \in Messages, NEW q \in People, StrayLands(k, q) PROVE FALSE
  BY <1>0, <1>2, <1>5 DEF StrayLands, TypeOK
<1>6. ASSUME NEW w \in Workers, WorkerNext(w)
      PROVE  \/ stray' = stray
             \/ Heard(m) /\ m \notin Unreadable /\ p \in Audience(m) /\ Target[p] = "served"
  <2>1. ASSUME NEW q \in People, Sending(w, q), GiveUp(w, q)
        PROVE  Heard(m) /\ m \notin Unreadable /\ p \in Audience(m) /\ Target[p] = "served"
    <3>1. worker[w].message = m /\ p \in worker[w].awaiting /\ Target[p] = "served"
      BY <1>0, <1>2, <2>1, BusyFact DEF GiveUp, Sending, TypeOK
    <3> QED BY <2>1, <3>1 DEF OriginInv, Sending
  <2> QED
    BY <1>6, <2>1 DEF WorkerNext, Deliver, log_unparsable_body, Claim, Refuse, ResolveFails, Send,
       SendFails, ChannelUnavailable, HandlerCommit, Ack, HandlingLost
<1>7. ASSUME BrokerRestarts PROVE stray' = stray
  BY <1>7 DEF BrokerRestarts
<1>8. CASE UNCHANGED vars
  BY <1>2, <1>8 DEF vars
<1> QED BY <1>2, <1>3, <1>4, <1>5, <1>6, <1>7, <1>8 DEF Next

LEMMA OriginStep ==
  ASSUME IInv, OriginInv, [Next]_vars
  PROVE  OriginInv'
<1>1. ASSUME NEW m \in Messages, copies'[m] > 0 PROVE Heard(m)'
  BY <1>1, CopiesOrigin
<1>2. ASSUME NEW w \in Workers, worker'[w] # None PROVE Holds(worker[w])'
  BY <1>2, WorkersOrigin
<1>3. ASSUME NEW m \in Messages, NEW p \in People, stray'[m][p] > 0
      PROVE  Heard(m)' /\ m \notin Unreadable /\ p \in Audience(m) /\ Target[p] = "served"
  BY <1>3, StrayOrigin
<1> QED BY <1>1, <1>2, <1>3 DEF OriginInv, Holds, Heard

\* Nothing has happened yet.
LEMMA OriginInit == Init => OriginInv
  BY DEF Init, OriginInv

\* What the contract can see of a step that leaves rows, notifications and inbox alone.
LEMMA Unseen ==
  ASSUME UNCHANGED <<row, written, inbox>>
  PROVE  UNCHANGED Contract!contractVars
  BY DEF Contract!contractVars, Recorded, Notified

\* One more notification of p makes p one of those who were told.
LEMMA NotifiedGrows ==
  ASSUME TypeOK, NEW m \in Messages, NEW p \in People,
         written' = [written EXCEPT ![m][p] = Bump(@)]
  PROVE  Notified' = [Notified EXCEPT ![m] = @ \cup {p}]
<1> DEFINE E == [Notified EXCEPT ![m] = @ \cup {p}]
<1>1. Bump(written[m][p]) > 0
  BY BumpFact DEF TypeOK
<1>2. ASSUME NEW k \in Messages PROVE Notified'[k] = E[k]
  <2>1. CASE k = m
    <3>1. \A q \in People : written'[m][q] = IF q = p THEN Bump(written[m][p]) ELSE written[m][q]
      BY DEF TypeOK
    <3>2. {q \in People : written'[m][q] > 0} = {q \in People : written[m][q] > 0} \cup {p}
      BY <1>1, <3>1
    <3> QED BY <2>1, <3>2 DEF Notified
  <2>2. CASE k # m
    <3>1. written'[k] = written[k]
      BY <2>2 DEF TypeOK
    <3> QED BY <2>2, <3>1 DEF Notified
  <2> QED BY <2>1, <2>2
<1>3. Notified' = [k \in Messages |-> Notified'[k]] /\ E = [k \in Messages |-> E[k]]
  BY DEF Notified
<1> QED BY <1>2, <1>3

\* A notification that goes out while m is still underway is a Tell of the contract.
LEMMA TellRefines ==
  ASSUME TypeOK, NEW m \in Messages, NEW p \in Audience(m),
         Heard(m), m \notin Unreadable, m \notin inbox, Target[p] = "served",
         written' = [written EXCEPT ![m][p] = Bump(@)], UNCHANGED <<row, inbox>>
  PROVE  Contract!Next
<1>1. p \in People
  BY AudienceFact
<1>2. m \in Contract!Underway
  BY DEF Contract!Underway, Recorded, Handled, Heard
<1>3. p \in Concerned[m] /\ p \in Served
  BY <1>1 DEF Concerned, Served
<1>4. Notified' = [Notified EXCEPT ![m] = @ \cup {p}] /\ Recorded' = Recorded
  BY <1>1, NotifiedGrows DEF Recorded
<1>5. Contract!Tell(m, p)
  BY <1>2, <1>3, <1>4 DEF Contract!Tell
<1> QED BY <1>3, <1>5 DEF Contract!Next

\* The event joins the outbox.
LEMMA RecordRefines ==
  ASSUME TypeOK, NEW m \in Messages, Record(m)
  PROVE  Contract!Next
<1>1. row'[m] = "pending" /\ row[m] = "absent" /\ \A k \in Messages \ {m} : row'[k] = row[k]
  BY DEF Record, TypeOK
<1>2. Recorded' = Recorded \cup {m} /\ m \notin Recorded
  BY <1>1 DEF Recorded
<1>3. UNCHANGED <<Notified, inbox>>
  BY DEF Record, workerVars, Notified
<1>4. Contract!Record(m)
  BY <1>2, <1>3 DEF Contract!Record
<1> QED BY <1>4 DEF Contract!Next

\* A relay only moves rows from pending to processed: both are on record.
LEMMA RelayUnseen ==
  ASSUME IInv, NEW r \in Relays, RelayNext(r)
  PROVE  UNCHANGED Contract!contractVars
<1>1. UNCHANGED <<written, inbox>>
  BY DEF RelayNext, Tick, Publish, PublishFails, RelayCommit, RelayAbort, workerVars
<1>2. CASE RelayCommit(r)
  <2>1. \A m \in relay[r].marked : row[m] = "pending"
    BY <1>2 DEF RelayCommit, IInv, TickInv
  <2>2. \A m \in Messages : row'[m] = IF m \in relay[r].marked THEN "processed" ELSE row[m]
    BY <1>2 DEF RelayCommit
  <2>3. Recorded' = Recorded
    BY <2>1, <2>2 DEF Recorded
  <2> QED BY <1>1, <2>3 DEF Contract!contractVars, Notified
<1>3. CASE ~RelayCommit(r)
  BY <1>1, <1>3, Unseen DEF RelayNext, Tick, Publish, PublishFails, RelayAbort
<1> QED BY <1>2, <1>3

\* A worker's notification goes to somebody it awaits an answer about.
LEMMA SendRefines ==
  ASSUME IInv, OriginInv, NEW w \in Workers, NEW p \in People,
         Sending(w, p), Target[p] = "served",
         written' = [written EXCEPT ![worker[w].message][p] = Bump(@)], UNCHANGED <<row, inbox>>
  PROVE  Contract!Next
<1> DEFINE m == worker[w].message
<1>1. TypeOK
  BY DEF IInv
<1>2. m \in Messages /\ m \notin inbox
  BY <1>1, BusyFact DEF IInv, WorkInv, Sending
<1>3. Heard(m) /\ m \notin Unreadable /\ p \in Audience(m)
  BY DEF OriginInv, Sending
<1> HIDE DEF m
<1>4. written' = [written EXCEPT ![m][p] = Bump(@)]
  BY DEF m
<1> QED BY <1>1, <1>2, <1>3, <1>4, TellRefines

\* A send that lost its handler tells its person, or says again what was said: by the
\* time the event is in the inbox everyone who can be reached has heard of it.
LEMMA StrayRefines ==
  ASSUME IInv, OriginInv, NEW m \in Messages, NEW p \in People, StrayLands(m, p)
  PROVE  Contract!Next \/ UNCHANGED Contract!contractVars
<1>1. TypeOK
  BY DEF IInv
<1>2. Heard(m) /\ m \notin Unreadable /\ p \in Audience(m) /\ Target[p] = "served"
  BY DEF OriginInv, StrayLands
<1>3. written' = [written EXCEPT ![m][p] = Bump(@)] /\ UNCHANGED <<row, inbox>>
  BY DEF StrayLands, relayVars
<1>4. CASE m \notin inbox
  BY <1>1, <1>2, <1>3, <1>4, TellRefines
<1>5. CASE m \in inbox
  <2>1. written[m][p] > 0
    BY <1>2, <1>5 DEF IInv, HandledMeansTold
  <2>2. p \in Notified[m]
    BY <2>1 DEF Notified
  <2>3. Notified' = [Notified EXCEPT ![m] = @ \cup {p}]
    BY <1>1, <1>3, NotifiedGrows
  <2>4. Notified' = Notified
    BY <2>2, <2>3 DEF Notified
  <2>5. Recorded' = Recorded
    BY <1>3 DEF Recorded
  <2> QED BY <1>3, <2>4, <2>5 DEF Contract!contractVars
<1> QED BY <1>4, <1>5

\* The claim is committed: nobody is left to tell and nobody to wait for.
LEMMA CommitRefines ==
  ASSUME IInv, OriginInv, ChannelInv, NEW w \in Workers, HandlerCommit(w)
  PROVE  Contract!Next
<1> DEFINE m == worker[w].message
<1>1. TypeOK
  BY DEF IInv
<1>2. worker[w] # None /\ worker[w].stage = "sending" /\ worker[w].awaiting = {}
  BY DEF HandlerCommit
<1>3. m \in Messages /\ m \notin inbox
  BY <1>1, <1>2, BusyFact DEF IInv, WorkInv
<1>4. Heard(m) /\ m \notin Unreadable
  BY <1>2 DEF OriginInv
<1>5. \A p \in Audience(m) : Target[p] = "served" => written[m][p] > 0
  BY <1>2 DEF IInv, WorkInv
<1>6. \A p \in Audience(m) : Target[p] \notin {"unserved", "unknown"}
  BY <1>2 DEF ChannelInv
<1>7. inbox' = inbox \cup {m} /\ UNCHANGED <<row, written>>
  BY DEF HandlerCommit, relayVars
<1> HIDE DEF m
<1>8. m \in Contract!Underway
  BY <1>3, <1>4 DEF Contract!Underway, Recorded, Handled, Heard
<1>9. Concerned[m] \cap Unserved = {}
  BY <1>3, <1>6 DEF Concerned, Unserved
<1>10. Concerned[m] \cap Served \subseteq Notified[m]
  BY <1>3, <1>5 DEF Concerned, Served, Notified
<1>11. UNCHANGED <<Recorded, Notified>>
  BY <1>7 DEF Recorded, Notified
<1>12. Contract!Settle(m)
  BY <1>7, <1>8, <1>9, <1>10, <1>11 DEF Contract!Settle
<1> QED BY <1>3, <1>12 DEF Contract!Next

\* Of what a worker does, the contract sees the notifications and the commit.
LEMMA WorkerRefines ==
  ASSUME IInv, OriginInv, ChannelInv, NEW w \in Workers, WorkerNext(w)
  PROVE  Contract!Next \/ UNCHANGED Contract!contractVars
<1>1. ASSUME NEW p \in People, Send(w, p)
      PROVE  Contract!Next \/ UNCHANGED Contract!contractVars
  <2>1. Sending(w, p) /\ UNCHANGED <<row, inbox>>
    BY <1>1 DEF Send, relayVars
  <2>2. CASE Target[p] = "served" /\ written' = [written EXCEPT ![worker[w].message][p] = Bump(@)]
    BY <2>1, <2>2, SendRefines
  <2>3. CASE UNCHANGED written
    BY <2>1, <2>3, Unseen
  <2> QED BY <1>1, <2>2, <2>3 DEF Send
<1>2. ASSUME NEW p \in People, SendFails(w, p)
      PROVE  Contract!Next \/ UNCHANGED Contract!contractVars
  <2>1. Sending(w, p) /\ UNCHANGED <<row, inbox>>
    BY <1>2 DEF SendFails, GiveUp, relayVars
  <2>2. CASE Target[p] = "served" /\ written' = [written EXCEPT ![worker[w].message][p] = Bump(@)]
    BY <2>1, <2>2, SendRefines
  <2>3. CASE UNCHANGED written
    BY <2>1, <2>3, Unseen
  <2> QED BY <1>2, <2>2, <2>3 DEF SendFails
<1>3. CASE HandlerCommit(w)
  BY <1>3, CommitRefines
<1>4. ASSUME NEW p \in People, ChannelUnavailable(w, p) PROVE UNCHANGED <<row, written, inbox>>
  BY <1>4 DEF ChannelUnavailable, GiveUp, relayVars
<1>5. ASSUME NEW m \in Messages, Deliver(w, m) PROVE UNCHANGED <<row, written, inbox>>
  BY <1>5 DEF Deliver, relayVars
<1>6. CASE \/ log_unparsable_body(w) \/ Claim(w) \/ Refuse(w) \/ ResolveFails(w)
           \/ Ack(w) \/ HandlingLost(w)
  <2>1. UNCHANGED <<row, written, inbox>>
    BY <1>6 DEF log_unparsable_body, Claim, Refuse, ResolveFails, Ack, HandlingLost, relayVars
  <2> QED BY <2>1, Unseen
<1> QED BY <1>1, <1>2, <1>3, <1>4, <1>5, <1>6, Unseen DEF WorkerNext

\* Outbox, relay, broker, consumers and inbox implement the contract: for any number of
\* messages, people, relays and workers, and whatever fails, people are told of recorded
\* events only, only those an event concerns, and nobody first hears of an event after
\* the inbox calls it handled.
THEOREM DeliveryRefines == Spec => ImplementsContract
<1>1. Init => Contract!Init
  BY DEF Init, Contract!Init, Recorded, Notified
<1>2. IInv /\ OriginInv /\ ChannelInv /\ [Next]_vars => [Contract!Next]_(Contract!contractVars)
  <2> SUFFICES ASSUME IInv, OriginInv, ChannelInv, [Next]_vars
               PROVE  Contract!Next \/ UNCHANGED Contract!contractVars
    OBVIOUS
  <2>1. ASSUME NEW m \in Messages, Record(m) PROVE Contract!Next
    BY <2>1, RecordRefines DEF IInv
  <2>2. ASSUME NEW r \in Relays, RelayNext(r) PROVE UNCHANGED Contract!contractVars
    BY <2>2, RelayUnseen
  <2>3. ASSUME NEW w \in Workers, WorkerNext(w)
        PROVE  Contract!Next \/ UNCHANGED Contract!contractVars
    BY <2>3, WorkerRefines
  <2>4. ASSUME NEW m \in Messages, NEW p \in People, StrayLands(m, p)
        PROVE  Contract!Next \/ UNCHANGED Contract!contractVars
    BY <2>4, StrayRefines
  <2>5. CASE BrokerRestarts
    BY <2>5, Unseen DEF BrokerRestarts, relayVars
  <2>6. CASE UNCHANGED vars
    BY <2>6, Unseen DEF vars
  <2> QED BY <2>1, <2>2, <2>3, <2>4, <2>5, <2>6 DEF Next
<1>3. Init => ChannelInv
  BY DEF Init, ChannelInv, WaitsForTheChannel
<1>4. IInv /\ ChannelInv /\ [Next]_vars => ChannelInv'
  BY ChannelStep
<1>5. IInv /\ OriginInv /\ [Next]_vars => OriginInv'
  BY OriginStep
<1>6. Spec => [](IInv /\ OriginInv /\ ChannelInv)
  BY <1>3, <1>4, <1>5, OriginInit, SpecIInv, PTL DEF Spec
<1>7. Spec => Contract!Init /\ [][Contract!Next]_(Contract!contractVars)
  BY <1>1, <1>2, <1>6, PTL DEF Spec
<1> QED
  BY <1>7 DEF ImplementsContract, Contract!Spec
=============================================================================
