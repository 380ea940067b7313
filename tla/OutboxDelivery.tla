--------------------------- MODULE OutboxDelivery ---------------------------
(***************************************************************************)
(* The way of a domain event from the outbox table to the people it is     *)
(* about.                                                                  *)
(*                                                                         *)
(* A relay task locks a batch of pending rows, publishes each of them and  *)
(* marks what the transport accepted, all in one transaction.  The broker  *)
(* holds copies; a consumer takes one, claims its id in the inbox, writes  *)
(* to everyone concerned at once, commits the claim and acknowledges.  Any *)
(* of these steps may fail, and a failure puts the message back.  Only the *)
(* broker itself must not fail: its messages are transient, and a restart  *)
(* of it takes every one of them, waiting or in somebody's hands.          *)
(***************************************************************************)
EXTENDS Naturals, FiniteSets

CONSTANTS Messages,    \* outbox rows, numbered in the order of created_at
          Kind,        \* message -> name of its event
          Customer,    \* message -> the buyer it concerns
          People,      \* ids of registered users
          Staff,       \* the users in STAFF_ROLES
          Target,      \* person -> what their settings and account allow
          Gone,        \* messages whose order or buyer is no longer there to be read
          Poisoned,    \* messages no publish of which succeeds
          Unreadable,  \* messages whose body the consumer cannot parse
          Relays,      \* concurrent executions of the relay task
          Workers,     \* concurrent handlings of broker messages
          None,        \* an idle relay or worker
          BatchSize,   \* rows one tick takes
          MaxFaults,   \* bound: transient failures in one behaviour
          MaxCount     \* bound: the counters written, stray and aborts stop here

\* The events a queue of this service is bound to.
Kinds == {"OrderPlaced", "OrderStatusChanged", "OrderDeliveryAddressChanged"}

\* served: a messenger this worker has a sender for, and the account is open;
\* closed: the same, but the account answers Forbidden or Bad Request;
\* unserved: a messenger known to this build but without a sender;
\* unknown: a messenger this build does not know;
\* blocked, unlinked: not to be written to.
Targets == {"served", "closed", "unserved", "unknown", "blocked", "unlinked"}

ASSUME DeliveryAssumption ==
  /\ Messages \subseteq Nat
  /\ IsFiniteSet(Messages)
  /\ Kind \in [Messages -> STRING]
  /\ Customer \in [Messages -> People]
  /\ Staff \subseteq People
  /\ Target \in [People -> Targets]
  /\ Gone \subseteq Messages
  /\ Poisoned \subseteq Messages
  /\ Unreadable \subseteq Messages
  /\ BatchSize \in Nat \ {0}
  /\ MaxFaults \in Nat
  /\ MaxCount \in Nat \ {0, 1}
  /\ None \notin [batch : SUBSET Messages, todo : SUBSET Messages,
                  marked : SUBSET Messages]
  /\ None \notin [message : Messages, stage : {"taken", "sending", "done"},
                  awaiting : SUBSET People]

VARIABLES row,      \* message -> its outbox row: absent, pending or processed
          relay,    \* relay -> the rows it holds locked, has yet to publish, has marked
          published,\* message -> times the transport accepted it
          copies,   \* message -> copies waiting in its queue
          worker,   \* worker -> the copy it handles and the sends it awaits
          orphans,  \* workers whose copy the broker has forgotten
          dropped,  \* messages a restart of the broker took a copy of
          inbox,    \* ids whose claim was committed
          written,  \* message -> person -> notifications that reached them (capped)
          stray,    \* message -> person -> sends outliving their handler (capped)
          aborts,   \* message -> handlings given up after the claim (capped)
          faults    \* transient failures so far

vars == <<row, relay, published, copies, worker, orphans, dropped, inbox, written, stray,
          aborts, faults>>

relayVars  == <<row, relay, published>>
brokerVars == <<published, copies>>
lostVars   == <<orphans, dropped>>
workerVars == <<worker, lostVars, inbox, written, stray, aborts>>
-----------------------------------------------------------------------------
(* Counting *)

Bump(n) == IF n < MaxCount THEN n + 1 ELSE n

\* A failure of the network, the database or the process itself.
Fault ==
  /\ faults < MaxFaults
  /\ faults' = faults + 1
-----------------------------------------------------------------------------
(* Relay *)

Pending == {m \in Messages : row[m] = "pending"}

\* The rows no other transaction holds: FOR UPDATE SKIP LOCKED.
Unlocked(ms) == {m \in ms : \A r \in Relays : relay[r] # None => m \notin relay[r].batch}

\* Mutant: the oldest rows are taken whether or not they are locked.
ReadPendingWithoutLocks ==
  {m \in Pending : Cardinality({k \in Pending : k < m}) < BatchSize}

\* The oldest rows, at most a batch of them.
read_pending ==
  LET ms == Unlocked(Pending)
  IN  {m \in ms : Cardinality({k \in ms : k < m}) < BatchSize}

\* The loop over the batch of r is at the row m.
At(r, m) ==
  /\ relay[r] # None
  /\ m \in relay[r].todo
  /\ \A k \in relay[r].todo : m <= k

\* An event is stored with the transaction that caused it.  created_at is the
\* time of the event, so a row may appear behind younger ones.
Record(m) ==
  /\ row[m] = "absent"
  /\ row' = [row EXCEPT ![m] = "pending"]
  /\ UNCHANGED <<relay, brokerVars, workerVars, faults>>

\* The cron tick (or a retry of one) finds pending rows.
Tick(r) ==
  /\ relay[r] = None
  /\ read_pending # {}
  /\ relay' = [relay EXCEPT ![r] = [batch |-> read_pending, todo |-> read_pending,
                                    marked |-> {}]]
  /\ UNCHANGED <<row, brokerVars, workerVars, faults>>

\* The topic exchange keeps a copy only where a queue is bound.  The exchange and the
\* queues are durable; the message is not, publish asks for no persistence.
Accept(m) ==
  /\ published' = [published EXCEPT ![m] = @ + 1]
  /\ copies' = IF Kind[m] \in Kinds THEN [copies EXCEPT ![m] = @ + 1] ELSE copies

\* The transport accepts the message and its row is marked, in the same
\* transaction that holds the lock.
Publish(r, m) ==
  /\ At(r, m)
  /\ m \notin Poisoned
  /\ Accept(m)
  /\ relay' = [relay EXCEPT ![r] = [batch |-> @.batch, todo |-> @.todo \ {m},
                                    marked |-> @.marked \cup {m}]]
  /\ UNCHANGED <<row, workerVars, faults>>

\* Mutant: the first failure ends the tick, and its transaction with it.
AbortOnFailure(r, m) ==
  /\ At(r, m)
  /\ \/ m \in Poisoned /\ UNCHANGED <<brokerVars, faults>>
     \/ m \notin Poisoned /\ Fault /\ (UNCHANGED brokerVars \/ Accept(m))
  /\ relay' = [relay EXCEPT ![r] = None]
  /\ UNCHANGED <<row, workerVars>>

\* The publish raises: the message is skipped and its row stays unmarked.  The
\* transport may have taken the message all the same.
PublishFails(r, m) ==
  /\ At(r, m)
  /\ \/ m \in Poisoned /\ UNCHANGED <<brokerVars, faults>>
     \/ m \notin Poisoned /\ Fault /\ (UNCHANGED brokerVars \/ Accept(m))
  /\ relay' = [relay EXCEPT ![r] = [batch |-> @.batch, todo |-> @.todo \ {m},
                                    marked |-> @.marked]]
  /\ UNCHANGED <<row, workerVars>>

\* Mutant: everything that was read is marked, published or not.
CommitWholeBatch(r) ==
  /\ relay[r] # None
  /\ relay[r].todo = {}
  /\ row' = [m \in Messages |-> IF m \in relay[r].batch THEN "processed" ELSE row[m]]
  /\ relay' = [relay EXCEPT ![r] = None]
  /\ UNCHANGED <<brokerVars, workerVars, faults>>

\* The end of the tick: the marks become visible and the locks are released.
RelayCommit(r) ==
  /\ relay[r] # None
  /\ relay[r].todo = {}
  /\ row' = [m \in Messages |-> IF m \in relay[r].marked THEN "processed" ELSE row[m]]
  /\ relay' = [relay EXCEPT ![r] = None]
  /\ UNCHANGED <<brokerVars, workerVars, faults>>

\* The process dies or a statement fails: every mark of the tick is undone,
\* what was published stays published.
RelayAbort(r) ==
  /\ relay[r] # None
  /\ Fault
  /\ relay' = [relay EXCEPT ![r] = None]
  /\ UNCHANGED <<row, brokerVars, workerVars>>
-----------------------------------------------------------------------------
(* Whom an event is for *)

\* NotifyOrderPlacedHandler: everyone who works the shop, each of them once.
\* An order that is gone is nobody's news.
NotifyOrderPlaced(m) == IF m \in Gone THEN {} ELSE Staff

\* NotifyOrderStatusChangedHandler: the buyer.
NotifyOrderStatusChanged(m) == IF m \in Gone THEN {} ELSE {Customer[m]}

\* NotifyDeliveryAddressChangedHandler: the buyer.
NotifyDeliveryAddressChanged(m) == IF m \in Gone THEN {} ELSE {Customer[m]}

Audience(m) ==
  CASE Kind[m] = "OrderPlaced"                 -> NotifyOrderPlaced(m)
    [] Kind[m] = "OrderStatusChanged"          -> NotifyOrderStatusChanged(m)
    [] Kind[m] = "OrderDeliveryAddressChanged" -> NotifyDeliveryAddressChanged(m)
    [] OTHER                                   -> {}

\* Mutant: a messenger nobody serves is a reason to skip the person.
ResolvesWhereServed(p) == Target[p] \in {"served", "closed"}

\* NotificationRecipientResolver.resolve comes back with an account.
Resolves(p) == Target[p] \notin {"blocked", "unlinked"}

\* resolve raises for somebody in the audience.
Unresolvable(m) == \E p \in Audience(m) : Target[p] = "unknown"

\* Mutant: an event is written to everyone who has an account.
EveryoneWithAnAccount(m) == {p \in People : Resolves(p)}

Recipients(m) == {p \in Audience(m) : Resolves(p)}
-----------------------------------------------------------------------------
(* Consumer *)

\* A worker that has only the acknowledgement of m left to do.
Finished(m) == [message |-> m, stage |-> "done", awaiting |-> {}]

\* The broker hands a copy to an idle consumer.
Deliver(w, m) ==
  /\ worker[w] = None
  /\ copies[m] > 0
  /\ copies' = [copies EXCEPT ![m] = @ - 1]
  /\ worker' = [worker EXCEPT ![w] = [message |-> m, stage |-> "taken", awaiting |-> {}]]
  /\ UNCHANGED <<relayVars, lostVars, inbox, written, stray, aborts, faults>>

\* The worker is idle again.
LetGo(w) ==
  /\ worker' = [worker EXCEPT ![w] = None]
  /\ orphans' = orphans \ {w}
  /\ UNCHANGED dropped

\* The body does not parse: logged and acknowledged.
log_unparsable_body(w) ==
  /\ worker[w] # None
  /\ worker[w].stage = "taken"
  /\ worker[w].message \in Unreadable
  /\ LetGo(w)
  /\ UNCHANGED <<relayVars, copies, inbox, written, stray, aborts, faults>>

\* The handler is about to claim a message it can read.
Claiming(w) ==
  /\ worker[w] # None
  /\ worker[w].stage = "taken"
  /\ worker[w].message \notin Unreadable

\* Mutant: no primary key on the inbox, every insert succeeds.
CanClaimAlways(w) == TRUE

\* The insert succeeds when the id is new; while another transaction holds the
\* same id uncommitted, the insert waits for it to end.
CanClaim(w) ==
  /\ worker[w].message \notin inbox
  /\ \A v \in Workers :
       worker[v] # None /\ worker[v].stage = "sending" =>
         worker[v].message # worker[w].message

\* The claim succeeds, the audience is resolved and all the sends start.
Claim(w) ==
  LET m == worker[w].message
  IN  /\ Claiming(w)
      /\ CanClaim(w)
      /\ ~Unresolvable(m)
      /\ worker' = [worker EXCEPT ![w] = [message |-> m, stage |-> "sending",
                                          awaiting |-> Recipients(m)]]
      /\ UNCHANGED <<relayVars, copies, lostVars, inbox, written, stray, aborts, faults>>

\* The insert is refused: the message was handled before.
Refuse(w) ==
  /\ Claiming(w)
  /\ worker[w].message \in inbox
  /\ worker' = [worker EXCEPT ![w] = Finished(@.message)]
  /\ UNCHANGED <<relayVars, copies, lostVars, inbox, written, stray, aborts, faults>>

\* NACK_ON_ERROR, or the connection is lost: the copy goes back to the queue,
\* if the broker still knows it, and the claim is gone with the transaction.
PutBack(w) ==
  /\ LetGo(w)
  /\ copies' = IF w \in orphans THEN copies
               ELSE [copies EXCEPT ![worker[w].message] = @ + 1]

\* Somebody is set to be notified through a messenger this build does not
\* know: resolve raises before anything is sent.
ResolveFails(w) ==
  /\ Claiming(w)
  /\ CanClaim(w)
  /\ Unresolvable(worker[w].message)
  /\ PutBack(w)
  /\ aborts' = [aborts EXCEPT ![worker[w].message] = Bump(@)]
  /\ UNCHANGED <<relayVars, inbox, written, stray, faults>>

\* The worker awaits the answer about this person.
Sending(w, p) ==
  /\ worker[w] # None
  /\ worker[w].stage = "sending"
  /\ p \in worker[w].awaiting

\* The messenger takes the message, or says the account is closed to us and
\* the person is skipped.
Send(w, p) ==
  LET m == worker[w].message
  IN  /\ Sending(w, p)
      /\ \/ Target[p] = "served" /\ written' = [written EXCEPT ![m][p] = Bump(@)]
         \/ Target[p] = "closed" /\ UNCHANGED written
      /\ worker' = [worker EXCEPT ![w] = [message |-> m, stage |-> "sending",
                                          awaiting |-> @.awaiting \ {p}]]
      /\ UNCHANGED <<relayVars, copies, lostVars, inbox, stray, aborts, faults>>

\* dispatch raises for p: gather passes the first exception on and the handler
\* ends, while the other sends of the batch stay on the wire.
GiveUp(w, p) ==
  LET m == worker[w].message
  IN  /\ PutBack(w)
      /\ stray' = [stray EXCEPT ![m] =
                     [q \in People |->
                        IF q \in worker[w].awaiting \ {p} /\ Target[q] = "served"
                          THEN Bump(@[q]) ELSE @[q]]]
      /\ aborts' = [aborts EXCEPT ![m] = Bump(@)]
      /\ UNCHANGED <<relayVars, inbox>>

\* A timeout, a flood wait, a 5xx; the message may have arrived all the same.
SendFails(w, p) ==
  LET m == worker[w].message
  IN  /\ Sending(w, p)
      /\ Target[p] \in {"served", "closed"}
      /\ Fault
      /\ \/ UNCHANGED written
         \/ Target[p] = "served" /\ written' = [written EXCEPT ![m][p] = Bump(@)]
      /\ GiveUp(w, p)

\* for_platform raises: no sender speaks this person's messenger.
ChannelUnavailable(w, p) ==
  /\ Sending(w, p)
  /\ Target[p] = "unserved"
  /\ GiveUp(w, p)
  /\ UNCHANGED <<written, faults>>

\* A send whose handler is gone reaches its person.
StrayLands(m, p) ==
  /\ stray[m][p] > 0
  /\ stray' = [stray EXCEPT ![m][p] = @ - 1]
  /\ written' = [written EXCEPT ![m][p] = Bump(@)]
  /\ UNCHANGED <<relayVars, copies, lostVars, worker, inbox, aborts, faults>>

\* Mutant: the sends are started and not awaited.
CommitWithoutWaiting(w) ==
  /\ worker[w] # None
  /\ worker[w].stage = "sending"
  /\ inbox' = inbox \cup {worker[w].message}
  /\ worker' = [worker EXCEPT ![w] = Finished(@.message)]
  /\ UNCHANGED <<relayVars, copies, lostVars, written, stray, aborts, faults>>

\* Every send has been answered: the transaction commits, and the claim with it.
HandlerCommit(w) ==
  /\ worker[w] # None
  /\ worker[w].stage = "sending"
  /\ worker[w].awaiting = {}
  /\ inbox' = inbox \cup {worker[w].message}
  /\ worker' = [worker EXCEPT ![w] = Finished(@.message)]
  /\ UNCHANGED <<relayVars, copies, lostVars, written, stray, aborts, faults>>

\* The consumer returns and the broker forgets the copy.
Ack(w) ==
  /\ worker[w] # None
  /\ worker[w].stage = "done"
  /\ LetGo(w)
  /\ UNCHANGED <<relayVars, copies, inbox, written, stray, aborts, faults>>

\* The process dies or the database fails, at any point before the acknowledgement.
HandlingLost(w) ==
  /\ worker[w] # None
  /\ Fault
  /\ PutBack(w)
  /\ aborts' = IF worker[w].stage = "sending"
                 THEN [aborts EXCEPT ![worker[w].message] = Bump(@)]
                 ELSE aborts
  /\ UNCHANGED <<relayVars, inbox, written, stray>>

\* The broker restarts: the queues are there again and empty.  What was waiting in them
\* is gone, and so is what a worker holds: it goes on with its handling, and the answer
\* it gives the broker in the end is about a message the broker does not have.
BrokerRestarts ==
  /\ Fault
  /\ copies'  = [m \in Messages |-> 0]
  /\ orphans' = {w \in Workers : worker[w] # None}
  /\ dropped' = dropped \cup {m \in Messages : copies[m] > 0}
                      \cup {worker[w].message : w \in orphans'}
  /\ UNCHANGED <<relayVars, worker, inbox, written, stray, aborts>>
-----------------------------------------------------------------------------
Init ==
  /\ row     = [m \in Messages |-> "absent"]
  /\ relay   = [r \in Relays |-> None]
  /\ published = [m \in Messages |-> 0]
  /\ copies  = [m \in Messages |-> 0]
  /\ worker  = [w \in Workers |-> None]
  /\ orphans = {}
  /\ dropped = {}
  /\ inbox   = {}
  /\ written = [m \in Messages |-> [p \in People |-> 0]]
  /\ stray   = [m \in Messages |-> [p \in People |-> 0]]
  /\ aborts  = [m \in Messages |-> 0]
  /\ faults  = 0

RelayNext(r) ==
  \/ Tick(r)
  \/ \E m \in Messages : Publish(r, m) \/ PublishFails(r, m)
  \/ RelayCommit(r)
  \/ RelayAbort(r)

WorkerNext(w) ==
  \/ \E m \in Messages : Deliver(w, m)
  \/ log_unparsable_body(w)
  \/ Claim(w)
  \/ Refuse(w)
  \/ ResolveFails(w)
  \/ \E p \in People : Send(w, p) \/ SendFails(w, p) \/ ChannelUnavailable(w, p)
  \/ HandlerCommit(w)
  \/ Ack(w)
  \/ HandlingLost(w)

Next ==
  \/ \E m \in Messages : Record(m)
  \/ \E r \in Relays : RelayNext(r)
  \/ \E w \in Workers : WorkerNext(w)
  \/ \E m \in Messages, p \in People : StrayLands(m, p)
  \/ BrokerRestarts

Spec == Init /\ [][Next]_vars

\* The scheduler ticks every minute and a tick runs to its end; the broker
\* hands out what waits while a consumer is idle; a handling runs to its end.
\* Nothing is assumed of sends that lost their handler.
Fairness ==
  /\ \A r \in Relays :
       WF_vars(\/ Tick(r)
               \/ \E m \in Messages : Publish(r, m) \/ PublishFails(r, m)
               \/ RelayCommit(r))
  /\ \A m \in Messages : WF_vars(\E w \in Workers : Deliver(w, m))
  /\ \A w \in Workers :
       WF_vars(\/ log_unparsable_body(w) \/ Claim(w) \/ Refuse(w) \/ ResolveFails(w)
               \/ \E p \in People : Send(w, p) \/ ChannelUnavailable(w, p)
               \/ HandlerCommit(w) \/ Ack(w))

FairSpec == Spec /\ Fairness
-----------------------------------------------------------------------------
(* Properties *)

\* The shape of the state; in particular the broker never hands out more
\* copies than it holds.
TypeOK ==
  /\ row \in [Messages -> {"absent", "pending", "processed"}]
  /\ relay \in [Relays -> {None} \cup [batch : SUBSET Messages, todo : SUBSET Messages,
                                       marked : SUBSET Messages]]
  /\ published \in [Messages -> Nat]
  /\ copies \in [Messages -> Nat]
  /\ worker \in [Workers -> {None} \cup [message : Messages,
                                         stage : {"taken", "sending", "done"},
                                         awaiting : SUBSET People]]
  /\ orphans \subseteq Workers
  /\ dropped \subseteq Messages
  /\ inbox \subseteq Messages
  /\ written \in [Messages -> [People -> 0 .. MaxCount]]
  /\ stray \in [Messages -> [People -> 0 .. MaxCount]]
  /\ aborts \in [Messages -> 0 .. MaxCount]
  /\ faults \in 0 .. MaxFaults

\* A message somebody is still answerable for.
Kept(m) ==
  \/ copies[m] > 0
  \/ \E w \in Workers : worker[w] # None /\ worker[w].message = m
  \/ m \in inbox

\* A restart of the broker is the one thing that loses an event.  Once its outbox row is
\* processed, and so never read again, the message waits in its queue, is being handled,
\* or was handled, whichever relay or worker crashed and whenever; unless the broker
\* restarted while a copy of it was there, between the publish and the acknowledgement.
OnlyTheBrokerLoses ==
  \A m \in Messages :
    row[m] = "processed" /\ Kind[m] \in Kinds /\ m \notin Unreadable =>
      Kept(m) \/ m \in dropped

\* However many relays tick at once, an event goes to the transport a second
\* time only after a failure: SKIP LOCKED keeps two ticks off one row, and a
\* row is read again only when the mark of its publish was lost.
RepublishNeedsAFault == \A m \in Messages : published[m] <= faults + 1

\* A message the inbox calls handled did reach everyone in its audience whose
\* account can be written to: the claim is committed after the sends, never
\* before.
HandledMeansTold ==
  \A m \in inbox : \A p \in Audience(m) : Target[p] = "served" => written[m][p] > 0

\* Duplicates of the relay and of the broker reach nobody: a person is written
\* to once more about one event for each handling of it that was given up, and
\* for no other reason.
RepeatsNeedAnAbort ==
  \A m \in Messages : \A p \in People :
    aborts[m] < MaxCount => written[m][p] <= aborts[m] + 1

\* Nothing is marked handled while somebody it concerns chose a messenger
\* this worker cannot speak: the message stays on the broker until the sender
\* is deployed.
WaitsForTheChannel ==
  \A m \in inbox : \A p \in Audience(m) : Target[p] \notin {"unserved", "unknown"}

\* The parameters of the contract: what the consumers handle, whom it concerns, and who
\* can be written to now or only later.
Handled   == {m \in Messages \ Unreadable : Kind[m] \in Kinds}
Concerned == [m \in Messages |-> Audience(m)]
Served    == {p \in People : Target[p] = "served"}
Unserved  == {p \in People : Target[p] \in {"unserved", "unknown"}}

Recorded == {m \in Messages : row[m] # "absent"}
Notified == [m \in Messages |-> {p \in People : written[m][p] > 0}]

Contract == INSTANCE DeliveryContract
              WITH Events <- Messages, Deliverable <- Handled,
                   Reachable <- Served, Awaited <- Unserved,
                   recorded <- Recorded, told <- Notified, settled <- inbox

\* The outbox, the broker and the inbox together do what DeliveryContract says, however
\* steps of relays and consumers interleave and fail: nobody hears of an event whose
\* transaction was not committed, nobody else hears of it, and a send that outlived its
\* handler brings no news once the event is in the inbox.
ImplementsContract == Contract!Spec

\* Every event that can be published, read and addressed is handled in the end, or
\* a restart of the broker took it, though some steps fail and rows in front of it may
\* never publish, as long as those do not fill a batch.
EveryEventIsHandled ==
  \A m \in Messages :
    /\ Cardinality(Poisoned) < BatchSize
    /\ Kind[m] \in Kinds
    /\ m \notin Poisoned \cup Unreadable
    /\ \A p \in Audience(m) : Target[p] \notin {"unserved", "unknown"}
    => (row[m] = "pending" ~> m \in inbox \cup dropped)
=============================================================================
