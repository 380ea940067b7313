# Goldy, specified

TLA+ specifications of Goldy, a shop bot: a customer fills a cart in a
messenger and checks out, staff move the order along, and everybody concerned is
told about it. Paths below are relative to `src/goldy/` of the repository.

## The system

### Processes

| Process | Entry point | What it does |
|---|---|---|
| bot | `telegram_bot.py` | aiogram dispatcher and dialogs; each update becomes commands and queries sent through the mediator |
| worker | `worker_app.py` | taskiq tasks (the outbox relay) and FastStream consumers of order events |
| scheduler | `scheduler_app.py` | starts the relay task every minute |
| catalog seeder | `catalog_seed_app.py` | imports a catalogue snapshot into the projection tables |

They share PostgreSQL (READ COMMITTED, one SQLAlchemy session per request, no
row locks except the relay's, no version columns), Redis (dialog state, per-chat
isolation of updates, task results) and RabbitMQ. A command runs inside two
pipelines: `TransactionPipeline` commits once the handler and everything inside
it returned, and `EventsPipeline`, inside it, turns the events the aggregates
recorded into outbox rows of the same transaction.

### Inventory

| Component | State it keeps | Operations | What is hard | What makes it correct |
|---|---|---|---|---|
| Orders (`domain/orders`, `application/commands/orders`) | `orders` rows: status, address, trace of a cancellation | place, cancel, change address, change status | requests of buyer and staff overlap on a row that is read without a lock | the transition table is respected; the events agree with the row; a cancellation is attributed |
| Pipelines and unit of work (`application/pipelines`, `infrastructure/mediator`) | the session's identity map and recorded events | run, commit, roll back | the order of drain and commit, failure in between | the row and its events appear together or not at all |
| Outbox and relay (`application/commands/outbox`, `infrastructure/adapters/outbox`) | `outbox_messages` | record, tick, publish, mark | parallel ticks, crash between publish and mark, a poisoned row, a lost answer, a restart of the broker | only a restart of the broker loses an event, no needless duplicate, every event gets out |
| Consumers and inbox (`infrastructure/task_manager/consumers`) | `inbox` claims, broker queues | deliver, claim, acknowledge, put back | duplicates delivered concurrently, crash around the commit | handled once, and never marked handled without having been |
| Notification dispatch (`application/commands/notifications`) | none | audience, resolve, concurrent sends | one send of several fails, a messenger nobody serves | handled means told; a repeat has a reason |
| Carts (`domain/carts`, `application/commands/carts`) | `carts`, `cart_items` | add, decrease, set, remove, clear, remove unavailable | the first cart made twice at once, lost quantity updates, limits | one cart per person, one line per product, quantities within bounds |
| Checkout and pricing (`place_order`, `domain/orders/services/checkout_service.py`, `application/common/services`) | cart to order | price, place, empty the cart | a double tap, a price that moved since the screen was shown, a product that went away | one cart becomes one order, at prices the buyer saw |
| Users and accounts (`domain/users`, `application/commands/users`) | `users`, `messenger_accounts`, roles, preferences | register, link, unlink, block, change role, rename, seed admins | a first contact twice at once, unlinking the notification target, the last admin | an account and a number belong to one person; administrators are the configured ones; nobody touches an equal; `notify_via` names a linked account |
| Catalogue import (`application/commands/catalog`, `sqlalchemy_catalog_projection_dao.py`) | projection tables with the id of the import that last touched a row | upsert a batch, finalise a scope | overlapping imports, an export replayed late, a broken group tree, death between two transactions | no downgrade, no price nobody may charge, the sweep stays in its scope, every import ends |
| Identity and access (`infrastructure/adapters/auth`, `presentation/telegram/middlewares/auth_middleware.py`) | none | resolve the person behind an update, refuse the blocked | a block or a role change between the gate and the command | a blocked person gets at most one more command through |
| Dialogs (`presentation/telegram/handlers`) | dialog stack and data in Redis | the screens' callbacks and getters | stale screens, double taps, pages that vanished | a screen never acts on what it no longer shows |
| Read side (`application/queries`, query gateways, mappers) | none | queries | pages that vanish, groups of a broken export | everything counted can be reached |
| Configuration, IoC, bootstrap, migrations | none | wiring | | |

## Modules

| Module | Role |
|---|---|
| `OrderStatuses` | the statuses and the table of moves between them |
| `OrderContract` | abstract: what an order promises, without sessions |
| `OrderLifecycle` | placed orders and the sessions that change them |
| `DeliveryContract` | abstract: who is told of an event, and when it is settled |
| `OutboxDelivery` | outbox, relay, broker, inbox, notification dispatch |
| `CartContract` | abstract: what a cart promises its owner, without sessions |
| `CartCheckout` | carts, the chats that change them, the confirmation and checkout |
| `UserAccounts` | people, accounts, roles, and the sessions that change them |
| `CatalogImport` | the projection of 1C and the importers that fill it |
| `CategoryTree` | how an export's groups are placed, and how the storefront reads them |
| `Paging` | pages and the buttons that turn them |
| `Storefront` | the catalog dialog of one chat, over `CategoryTree` |
| `CartScreens` | the cart dialog and the checkout dialog on top of it |
| `OrderScreens` | the buyer's history and the staff queue, over one table of orders |
| `PeopleScreens` | the auth gate, the profile dialog and the admin dialog |
| `OrderLifecycleProofs`, `OutboxDeliveryProofs`, `CartCheckoutProofs`, `UserAccountsProofs` | theorems about the database |
| `CatalogProofs` | theorems about the import, the group tree, pages and the catalog dialog |
| `OrderScreensProofs`, `PeopleScreensProofs`, `CartScreensProofs` | theorems about the other chats |
| `MC...` | instances for TLC |

There are two levels. `OrderLifecycle`, `CartCheckout`, `UserAccounts` and
`CatalogImport` are about the database: requests are split where the code awaits
it, and their sessions interleave. `Storefront`, `CartScreens`, `OrderScreens` and
`PeopleScreens` are about the chat: what was drawn, what was tapped on it, and what
the dialog holds when the tap is handled; a command is one step there, because its
interleavings are the business of the other level.

### OrderLifecycle

`orders` is the table, restricted to the columns the lifecycle reads or writes;
`outbox` holds, for each order, the events committed about it; `session` is what
each request in flight has read.

A request is two steps because its handler awaits the read: `Load` is the
handler up to `by_id`, and the second step is everything from the checks to the
commit. `CancelOrder`, `ChangeDeliveryAddress` and `ChangeOrderStatus` are the
three handlers; `Rollback` is every exception and every crash before the commit.
Between the two steps any other request may commit, except one of the same
person: updates of one chat are handled one after another, and the only
messenger that exists today gives a person one chat. `Flush` is SQLAlchemy's
UPDATE: a column is written when the method left it different from what was
read. `PlaceOrder` is the checkout's commit as far as the order is concerned.

`NoOverlap` restricts the same actions to behaviours in which no two requests
are in flight on one order. `SerialSpec` is not a claim about the deployment; it
separates what the aggregate guarantees (under `SerialSpec`) from what survives
overlapping requests (under `Spec`).

### OutboxDelivery

A relay holds the batch it locked, what it has yet to publish and what it has
marked; `RelayCommit` makes the marks visible and `RelayAbort` undoes them. The
publish and the mark of one row are one step of the relay: the mark is only seen
at the commit, and a crash between the two is `RelayAbort` after `Publish`.
`PublishFails` covers a publish that raised whether or not the transport took
the message. `copies` is the broker: the copies waiting in a queue, which a
worker takes, acknowledges or puts back. `Claim` is the insert into the inbox; it
waits while another transaction holds the same id (`CanClaim`), and from there
to `HandlerCommit` the sends of the batch end in any order. `GiveUp` is what
`asyncio.gather` does with the first exception: the handler ends and the other
sends stay on the wire (`stray`).

`Target` says what a person's settings and account allow; it does not change
during a behaviour. The broker and the messenger's API are modelled from how
the code uses them: requeue on a negative acknowledgement, an answer that may be
lost. `BrokerRestarts` is a restart of the broker: exchange and queues are declared
durable and come back, but `faststream_outbox_publisher.py:54` publishes without asking
for persistence, so they come back empty. `dropped` names the messages it took a copy
of, and `orphans` the workers that go on with a copy the broker has forgotten: they may
still finish and claim it, but what they put back is not there any more. A restart
counts as one of the failures `MaxFaults` bounds.

`DeliveryContract` has no outbox, broker or inbox in it. Under the refinement mapping
an event is recorded once its row is committed, a person is told of it once a
notification reached them, and it is settled once the inbox holds its claim. The relay,
the queue and the acknowledgement are then invisible: a repeat is a stutter, and a send
that lost its handler may only be the first news of an event that is not settled.

### CartCheckout

`cart` is `carts` with `cart_items`: a quantity of each product for each person,
`None` while there is no row. `orders` are the orders placed, with the lines and
the prices copied into them; `catalog` is the projection of 1C, which `Import`
changes at any time; `session` is the update a chat is handling and `dialog` where
its checkout stands, with the line count and the total the confirmation printed.

A command begins with a tap (`RequestAdd`, `RequestChange`, `RequestOrder`). Then
`CartProvider` reads the cart (`Load`) or starts one: `CreateCart` records the
event, and the insert either goes through (`InsertCart`) or meets the unique
index and takes the cart that won (`LoseInsert`, with `WithdrawCreation`). The
sweep and checkout ask the catalog (`ReadCatalog`) in a step of their own, because
it may have changed since the cart was read. The last step is the rest of the
handler and the commit: one action per command. `AlreadyPlaced` is the
`EmptyCartError` branch of `on_confirmed`, `RollBack` every other refusal, error
or crash; after a refused confirmation the window is redrawn, and both a dialog
that keeps the redrawn totals and one that lost them are allowed. Updates of one
chat are handled one after another; a person may have several chats.

`Flush` and `CanFlush` are SQLAlchemy's unit of work on `cart_items`: a line is
written when it differs from what was read, an insert of a line that meanwhile
exists and an update of one that is gone fail, a delete of one that is gone only
warns. One price list stands for all: which one applies to a person is not
modelled. An offer whose product is withdrawn may keep its price row, as in
the projection.

### UserAccounts

`users` is the table with its accounts and preferences, `trail` the events
committed about a person, `session` a request with what it has read, `registry` the
admin numbers configured at the last start, `seeding` what a starting replica has
read of them, `answer` what an account's shared contact was last answered. A request
passes the gate, which resolves the account to a person; the gate finds
somebody and keeps no row of them. The handler asks again whose the account is and
reads them (`LoadSubject`), reads its target in a second statement (`LoadTarget`; the
session's identity map answers when that is the same person), checks the permission and
runs the method on what it loaded; the commit writes the columns that changed.
Registration finds a
person by account, then by number, then inserts one; `Insertable` is the two
unique indexes, and losing to them is an answer, not a retry. `SeedAdmins` runs at
every start, with a set of configured numbers that may differ from start to start.

Two messengers are modelled though only Telegram has a front end today, since the
domain, the tables and linking are written for several. `accounts[0]`, where the
notifications go after an unlink, is any account that remains. Messenger user names
are left out: nothing reads them but a screen.

### CatalogImport

`projection` is the committed contents of the six tables, `session` what each
importer is doing: it reads a file, upserts table by table in one transaction and
sweeps in a second. PostgreSQL is modelled as the code meets it, at READ
COMMITTED, where a statement takes its rows one after another: `Upsert` is one row of
the upsert of a table, `Sweep` one row of the sweep, in any order, since neither the
files nor the tables are sorted alike; `NextTable` follows when the statement has them
all. An upsert waits for the row it conflicts with and tests its condition on the newest
version; a sweep takes its rows from the snapshot of its statement, waits for those that
are locked, and tests its condition again on what was committed (EvalPlanQual). So two
importers can each hold a row the other waits for. `InARing` is that situation, within
a table or across tables, and `DeadlockDetected` is PostgreSQL aborting any one of those
in it. `Dies` ends an importer anywhere. The counts of written rows are only logged and
are left out.

### CategoryTree, Paging and Storefront

`CategoryTree` places groups as `_placements` does, writes them and finalises them,
and reads them as the query gateway does: a level by parent, a subtree by path. A group
that an export left out, or that carried a newer time, keeps the path of the export that
placed it, and `in_subtree_of` lists it by that path whether it is active or not.
`ancestry` is a history: the links above each group in the export that placed it last,
which is what the listing is compared with (`ListedWhereLastPlaced`).
`Storefront` adds the products and the dialog of one chat.

The dialog library is external and modelled from how the code uses it; the same
holds for the other three screen modules. The updates of one chat are handled
in order (`queue`). A tap is matched with a widget of the current window by its id
only, whatever window it was drawn on, and carries the item it was drawn with (a
pager's button carries the page it leads to). A handler that raises leaves the
dialog as it was; one that succeeded commits before the window is drawn, and the
drawing may fail. Starting a dialog with an empty stack outdates the taps made
before: they stay in line and nobody answers them. Text goes to the window that takes
it, and to the fallback otherwise. A page is the set of rows it shows and the order
only decides which rows those are, since nothing is said about where on a message a
row stands.

`upsert_categories` is one statement for the export, so every row of it goes through the
condition on the version (`NewerGroup`), and the paths are those of the whole export. An update
remembers which list its message showed (`listed`), as in `OrderScreens`.

### OrderScreens

The history and the queue with their cards, pickers, prompts and filters. An
update remembers what its message showed, which lets properties compare what a
handler did with what its sender was looking at. `staff` may change while the queue
is open.

### PeopleScreens

Every update passes the gate in a step of its own, then the handler runs: a block or a
change of role by another chat may lie in between. `serving` is the view the gate read:
the profile is drawn from it, its toggle sends the opposite of the consent it shows, and
the filter that lets staff into the admin dialog looks at its role. Commands and queries
read the person again and judge by the role in the table (`MayManage`); what a command
reads and commits is one step here. A card is drawn when the table has its row at the
draw (`CanBeDrawn`). `late` counts the commands of a person committed after the block.
The admin list turns pages by counting, so a double tap can lead past its end.

### CartScreens

The cart's four windows and the seven of the checkout, the whole form included.
`placing` is the time between the buttonless window and the answer of the
command, in which the cart may still change elsewhere. The `number` branch of
`on_confirmed` is kept although today it cannot be taken: what the handler writes
before `RESET_STACK` is discarded with the stack. Text is typed only while the message
asks for it (`Type`). Somebody who taps "back to the comment", types a comment blindly
and taps the old confirmation once more, all before the first tap is answered, gets an
order with the comment they typed and not the one on the message they tapped.

## Runs

| Run | Instance | Result |
|---|---|---|
| `order_serial` | two orders, a buyer, a manager, two sessions, `MaxEvents` 5 | `LastWordIsTheRow`, `CancellationTrace`, `HistoryIsAPath`; `OrderContract` is implemented |
| `order_overlap` | one order, two sessions | violation: an order leaves a terminal status |
| `delivery` | three messages, two relays, two workers, two failures, restarts of the broker among them; two staff, a buyer on a messenger without a sender, one on an unknown one | `OnlyTheBrokerLoses`, `RepublishNeedsAFault`, `HandledMeansTold`, `RepeatsNeedAnAbort`, `WaitsForTheChannel`; `DeliveryContract` is implemented |
| `delivery_eventually` | four messages: one never publishes, one cannot be parsed, one has no queue; a closed account; one failure, a restart of the broker included | `EveryEventIsHandled`: handled, or taken by the restart |
| `cart_one_chat` | one person, one chat, two products, room for one, two pieces a line, `MaxEvents` 6 | `OutboxTellsTheCart`, `RefilledBetweenOrders`, `AlreadyPlacedIsTrue`; `CartContract` is implemented |
| `cart_two_chats` | one person, two chats, two products, prices that move, `MaxEvents` 3 | `CreatedIsReal`, `ChargedAsShown`, `CheckoutTakesOnlyWhatItOrders` for any overlap |
| `users` | two people, two messengers, two accounts in each, two requests in flight, `MaxEvents` 4 | for any overlap `TrailTellsTheRole`, `OnlyWhatWasAsked`; in sequence `NoGapInSequence`, `ReachableInSequence`, `TurnedAwayOnlyByARace` |
| `catalog` | two importers, eleven files, nine keys of the six tables | for any overlap `NeverDowngraded`, `DefaultNeverLost`, `OnlyTheScopeIsSwept`, `EveryImportEnds`; in sequence `ScopeHoldsTheFile` |
| `storefront` | three groups under every export of them, two products, four search terms, pages of one, up to two updates in flight | `PlacedByTheExport`, `ListedWhereLastPlaced`, `ToastNamesWhatWasAdded`; `NoEmptyPage` until an import |
| `order_screens` | a buyer, a manager, up to three orders, pages of one, up to three updates in flight | `NoButtonCertainToBeRefused`, `ActsOnWhatWasShown`, `FormerStaffSeesNothingNew` |
| `people_screens` | two people, up to two updates in flight each | `AtMostOneAfterTheBlock`, `ConsentIsOnlyToggled` |
| `cart_screens` | two products, two pieces, an earlier order, up to two updates in flight | `ActsOnTheLineShown`, `SentWhereItSaid`; `PaidAsPrinted` until a confirmation was refused |

The type invariants of `OrderLifecycle`, `OutboxDelivery`, `CartCheckout`,
`UserAccounts` and `CatalogImport`, and a few invariants beside them (`TerminalNeverLeft`,
`CancelledIsAttributed`, `LineLimit`, `PricesCanBeSold`, `RowsOrdersPointAtStay`), are
proved for every instance, so no passing run repeats them. `delivery`, the
largest, has 2.9 million distinct states, `storefront` and `people_screens` 1.6 million,
`users` 1.1 million and `order_screens` 0.8 million.

Stories. Several MC modules add a variable `story`, chosen at the start and never
changed, that restricts the inputs of the behaviour: what a person sends, which
files arrive, how many updates are in flight. Only inputs are restricted, never how
the system answers one. A story is a smaller instance of the same specification, so
a run checks the union of several instances, each generous where its case needs it.

Histories. `alone` (in `users` and `catalog`) remembers whether two requests or
imports have overlapped so far, `refused` (in `cart_screens`) whether a confirmation
was turned down, `imported` (in `storefront`) whether an import has touched the shop.
They never restrict a step. A property guarded by one holds up to
the first overlap or refusal, and the findings say what happens after it.

Bounds. `MaxEvents` stops new requests, not the ones in flight. Placing, confirming,
shipping and completing an order are four events, so with 5 an order reaches every
status, readdressed on the way or not, and is tried again when it is finished; two
orders show that requests on one do not disturb the other. In the cart runs 6
events fill a cart, order it, fill it again and order again, and two chats that
both start below 3 overlap in every pair of commands on a cart that exists or
not. With 4 events a person registers, is promoted, blocked and unblocked, or links,
unlinks and links again. The files of the catalog runs bring each table in two
competing versions, with and without a time, in whole and in narrowed scopes. Pages
hold one row, so two rows are two pages. Two updates in flight are a double tap;
three let a tap meet a dialog that two others have moved. `MaxFaults` bounds the
transient failures of one behaviour, restarts of the broker included: two are enough to
lose an answer and then the handling of the same message, or a message and then the
handling of its forgotten copy. `MaxCount` caps the counters of notifications, stray
sends and given-up handlings; the properties that read a counter stop speaking about
a message whose `aborts` reached the cap. `MaxSteps` bounds the breadcrumb,
`MaxOrders` the orders placed. Symmetry is used in `order_serial` (orders, sessions,
addresses), `delivery` (relays, workers, staff) and `users` (sessions, ids of accounts), on
runs without temporal properties other than step properties and refinement of a
safety contract.

Deadlock is not checked in the order and delivery runs: the messages, and the events
of an order, are finite there, and a system with nothing left to do rests.

Fairness. `delivery_eventually`: weak fairness of a relay's tick and of the steps
that take it to its commit (the scheduler ticks each minute and a failed publish
does not stop the loop), of the delivery of a waiting copy to an idle consumer (the
broker pushes), and of the steps of a handling. Failures and restarts are never fair, and
neither are sends whose handler is gone. `EveryEventIsHandled` is stated for
fewer unpublishable rows than a batch holds: `read_pending` always takes the oldest
rows, so a full batch of them would stop everything behind. `catalog`: strong
fairness of each importer's step. An importer that waits for a row is enabled
whenever the row is free, and PostgreSQL queues the waiters of a row lock, so one
that waits is not passed over for ever; and it looks for rings after
`deadlock_timeout`, which makes `DeadlockDetected` fair as well. That importers start or die is not fair.

Each property comes with a mutant: a variant of one definition, written in front
of it and marked as such, that a plausible bug would amount to and that TLC
refutes.

## Findings

**An order leaves a terminal status** (`order_overlap`). Two requests read an
order; one cancels or completes it; the other still finds its own move legal
on what it read, and commits it. `domain/orders/status_transitions.py:55` calls these
"the statuses an order never leaves". `CancellationTrace` fails the same way:
the row ends up, say, CONFIRMED with the trace of a cancellation.

Further disagreements between the code and what it says of itself, met while the
modules were written. Each is why a property above carries the guard it does; no run
is listed for them.

- One send of several raising rolls the claim back, and the redelivery writes to
  everybody again; hence `RepeatsNeedAnAbort` and not "told once".
- `infrastructure/task_manager/consumers/order_event_consumers.py:15`,
  `outbox_event_bus.py:23` and `relay_outbox/handler.py:19` speak of at-least-once
  delivery, the first of them "from end to end". Up to the broker that is so; but a message
  is published without persistence, and one the broker holds when it restarts is gone
  while its row says processed. `OnlyTheBrokerLoses` is stated with that exception.
- The notification handlers' docstrings say a buyer on a messenger without a sender
  is skipped and the message marked handled; `NotificationSenders.for_platform`
  raises, so it is redelivered for ever. `senders.py` documents the latter, and
  `WaitsForTheChannel` states it.
- Two chats of one person confirm at once, both sessions read the full cart, and two
  orders are placed; `on_confirmed` says that the emptied cart survives this race.
  With one chat it does (`NotSoldTwice`).
- A cart emptied from another chat meets the open confirmation, and the tap is
  answered with "already placed".
- The loser of two simultaneous registrations is told that the number is taken, while
  `domain/users/entities/user.py:63` says "the handler retries on conflict".
- Two blocks of one person that overlap both commit, and the second reason overwrites
  the first, which `user.py:296` says would "erase why".
- A manager who was read as outranking somebody blocks them after they have been
  promoted; `domain/users/services/authorization/permission.py:56` says it
  "refuses equals".
- A person who was blocked and is then made an administrator by the seeding at start
  stays blocked, and nobody outranks them to lift it.
- Imports of one kind that overlap sweep rows the other one mentioned, and an export
  replayed after a newer one has its own refused rows swept, which `ScopeHoldsTheFile` excepts;
  `sqlalchemy_catalog_projection_dao.py:68` says the condition "makes a repeated
  delivery harmless".
- Two overlapping imports that take common rows in opposite orders deadlock, and
  PostgreSQL aborts one. Nothing retries it: it has to be run again. `EveryImportEnds`
  promises its end, not its success.
- `catalog_listing_statements.py:113` says that the listing shows "Products of the group
  at path and of every group under it". A group left behind by an unfinished or an earlier
  export is listed under the path it was placed with, wherever the links lead that the
  rows above it have today; `ListedWhereLastPlaced` says of which groups it is true.
- After such a replay a group may be active below a hidden one. Groups of a broken
  export may not be reachable at all, where `_placements` says that they are "visible
  on the storefront".
- A double tap on a group appends it to the breadcrumb twice.
- Somebody who types a term and at once taps a page button of the results on their
  screen has the new term's results opened on that page, which they may not have:
  the widget matches the tap by its id, on a window that now shows another list.
  `presentation/telegram/common/paging.py:151` says of `reset_paging` that without it
  such a search "shows an empty screen", and the turn arrives after it. `NoEmptyPage` excludes exactly such turns, sent
  from a message that showed another list or no list.
- "Change status" can open an empty picker when the order was finished since the card
  was drawn (`manage_orders/dialogs.py:167`), and a filter over a queue that shrank
  can show an empty page, from which a button leads back.
- The profile is drawn from the view the gate loaded before the command, so it shows
  the old value once; `profile/states.py:7` says that a person ends up "looking at
  the thing they just changed".
- The totals drawn after a refused confirmation are discarded with the exception, so
  the next tap is checked against the ones before; `checkout/getters.py:148` says that
  "what the command is checked against is literally what was printed", and
  `on_confirmed` that "the next tap would accept" a moved price.

## Proofs

Everything below is checked by TLAPS for every value of the constants that
satisfies the named assumptions (`OrderAssumption`, `DeliveryAssumption`,
`CartAssumption`, `UserAssumption`, `KeysAssumption`, `FilesAssumption`,
`AbsentAssumption`, `GroupsAssumption`, `ExportsAssumption`, `PagingAssumption`,
`StoreAssumption`, `ScreensAssumption`, `PeopleAssumption` and `CartScreensAssumption`).
They give the constants their types, make groups, products and messages finite in
number, and keep `None` and `Absent` apart from the values they stand beside, which is
how the code uses them. Every invariant a run lists was checked by TLC before it was
proved.

Theorems whose runs carry a history (`alone`, `refused`) are stated of `MCSpec`, because
the history belongs to that module; the stories of `MCSpec` restrict inputs of the same
`Next`.

`OrderLifecycleProofs`
: `TypeCorrect`, `LastWord` and `Attributed` hold under `Spec`, with any overlap, and
  follow from one inductive invariant: types, `LastWordIsTheRow`,
  `CancelledIsAttributed` and `ReadsStand`. The last is what makes it inductive: `Flush` writes a column
  only when it differs from what the session had read, so a cancellation that
  had read an earlier cancellation's trace would leave it as it is, and one must
  know that the trace is still there. `Refinement` (`SerialSpec` implies
  `ImplementsContract`) and `TraceIsFaithful` add that, without overlap, what
  a session read is what the table holds (`FreshReads`), which makes each commit
  exactly one step of `OrderContract`. `TerminalStays` and `HistoryConnects` add
  `LogInv`, about the events of an order: an order is placed first and once, and each
  move starts from the status announced last, which `LastWordIsTheRow` says is the
  one on the row the session has read.

`OutboxDeliveryProofs`
: `TypeCorrect`, `OnlyTheBrokerLosesEvents`, `RelaysAreSafeInParallel`, `Told`,
  `InboxIsIdempotent`, from one inductive invariant. Beside types it says what
  a tick owns (batches of different relays are disjoint, and hold pending rows
  only), that a message published more than once is paid for by a failure, that
  a marked or processed message is kept or was dropped by the broker (`Safe`), that a
  worker whose copy is forgotten works on such a message (`OrphanInv`), that a worker at its last step has its
  claim in the inbox, that at most one worker holds the claim of a message,
  and how notifications, sends on the wire and sends awaited add up against
  `aborts`. `WaitsForItsChannel` rests on `ChannelInv`: a worker that has claimed a
  message still awaits everyone in its audience no sender speaks to.
  `DeliveryRefines` (`Spec` implies `ImplementsContract`) adds `OriginInv`: every copy,
  every handling and every send on the wire comes from a recorded event with a queue,
  and goes to somebody it concerns. A notification of a message that is not in the inbox
  is then a `Tell` of `DeliveryContract`, one that lands later is a stutter because of
  `HandledMeansTold`, and `HandlerCommit` is a `Settle`, since a worker that awaits
  nobody has told everyone it could and, by `ChannelInv`, waits for nobody else.

`CartCheckoutProofs`
: For any use of a cart from any number of chats: `TypeCorrect`;
  `CreationAnnouncedOnce`, from `Creation` (a session that inserted the cart is the
  only one to carry its event, over a cart that is not committed) and `OneInsert`
  (the unique index); `ChargesAsShown`, from `Asked` (a confirmation is handled
  while its own screen is up); `TakesOnlyWhatItOrders`, from what `Flush` writes.
  For a cart used from one chat (`OneChat`): `NotSoldTwice`, `AlreadyPlacedTold`,
  `LimitHolds`, `OutboxTells` and `CartRefinement` (`Spec` implies
  `ImplementsContract`). They rest on `ReadsAreFresh`, that what a session has
  read is still in the table, so that each commit is one of five effects on the
  cart as it is; on `Stocked` (a cart that is not empty was filled after the last
  order) and on `EmptiedByOrder` (a checkout dialog over an empty cart means
  the order went through). `OneChat` is what the findings show to be needed.

`UserAccountsProofs`
: With any overlap: `TypeCorrect` and `TrailIsComplete`, from an invariant that says what
  a request in flight knows (`RequestOK`: past the gate there is somebody registered
  behind it unless it is a shared contact, and past its last read it holds a copy of a
  row that exists) and that nothing is
  recorded about somebody who is not registered (`NoTrailBefore`), without which a
  registration could start on a trail; and `WritesWhatWasAsked`, which compares every
  column of a row before and after a commit. Until requests overlap:
  `NoGapWithoutOverlap`, `ReachableWithoutOverlap` and `OnlyARaceTurnsAway`, from
  `InSequence`: the one request in flight has read the rows as they are (`Fresh`), a
  registration that found nobody still finds nobody, and a start that is seeding holds
  the role of every owner of a configured number. `CorrectInSequence` says the same of
  `SerialSpec`.

`CatalogProofs`
: The import: `TypeCorrect`, `PricesAlwaysSellable`, `NoDowngrade`, `DefaultStays`, `RowsStay` and
  `ScopeRespected`, for any number of importers, files and keys and any overlap. The
  inductive invariant relates what a transaction has written and not committed to
  the projection: each row it holds, taken one at a time, is held by no other importer (`Alone`), so the
  version its condition was tested against is the one its commit replaces, and the rows
  it is about to sweep lie in its scope. `FinalisedScopeIsTheFile` (`ScopeHoldsTheFile`)
  is about imports that do not overlap: a row carries the batch of a file that mentions
  it (`Provenance`), after its import every row of a file stands as the file has it or in
  a newer version (`Stands`), and a sweep nobody interrupts holds every stale row until
  it commits (`SweepsAll`). Its
  hypothesis `OneFilePerBatch`, that two files never share a batch id, is what the
  sweep's condition takes for granted: rows of another file with the same id would
  pass for its own. The files of the run satisfy it.

  The group tree, for any number of groups and exports of any shape:
  `GroupsFollowTheExport` and `ListingFollowsThePlacing`. `placement` and `Lineage` are
  recursive functions; what they compute is proved by induction on the turns of the loop,
  in the form that every inhabited set of numbers has a smallest member (`Smallest`,
  `AllNumbers`). A walk is a path down the parents that visits no group twice
  (`WalkIsAPath`). Whenever it has not stopped it is one longer after each turn, and a
  path that visits no group twice is not longer than the groups are many: so it has
  stopped, at the top, after as many turns as there are groups (`PlacementIsAPath`,
  `PathIsShort`). In an export without circles the ways down to a group are prefixes of
  one another (`OneWayDown`), and the way to a group that is not on a circle consists of
  everything above it (`LineageIsThePath`). So the path of a row begins with the path of
  another exactly when the other was above it in the same links (`PrefixIsPassing`,
  `PrefixHasItsLinks`, `LinksMakeThePrefix`). `ExportStands` says that the table holds
  the paths of the open export; `Sourced`, that each row and the links remembered for it
  are what some export said of it, which is all the second theorem needs: it takes no
  export for the last, finished or complete.

  Pages: in rows that an order ranks without ties every place up to their number is taken
  (`EveryPlaceIsTaken`), so a page is empty exactly when its number is past the
  count (`PageIsThere`), and the pager's buttons lead to pages that are there
  (`PagerFits`).

  The catalog dialog, for any shop and number of updates in flight: `AddedIsNamed` and
  `NoPageIsEmpty`. `ShopInv` says that the name the dialog keeps is the open product's
  (`ChatOK`) and that a page button in the message or in the queue leads to a page of the
  list it was drawn with (`TurnsOK`), which the list still has as long as nothing
  was imported.

`OrderScreensProofs`
: `NoButtonIsRefused`, `OnlyWhatWasShown` and `FormerStaffIsShownNothingNew`, for any
  number of people, orders and updates in flight. The invariant ties the message to the
  dialog (same window, same order, buttons that the row mapper's flags allow in the
  status shown) and says what may be queued: behind an update that leaves a window, only
  what was sent from that window. That is why a picker or a prompt never acts on another
  order, although a tap is matched by the id of its widget alone.

`PeopleScreensProofs`
: `BlockStopsTheNext` and `ConsentIsTheirs`, for any number of people and updates in
  flight. Who is past the gate has not been late yet, and who has been late is blocked,
  so that the gate lets nothing more of them in. The consent in the view the gate read is
  the one stored as long as the update is served, because one person has one chat here;
  that is why sending a copy of it along with the choice of a messenger changes nothing.

`CartScreensProofs`
: `LineShownIsLineChanged` and `SentAsConfirmed`, for any cart, catalog and number of
  updates in flight, and `ChargedAsPrinted` until a confirmation was refused. As in the
  order dialogs the invariant relates message, dialog and queue: what waits behind an
  update that leaves a window cannot lead back into it with another line or another form
  (`QueueOK`), and a confirmation that is being placed is the update at the head of the
  queue (`PlacingOK`). `Printed` adds that, until a refusal, the totals printed are the
  totals remembered. The last two theorems rely on `Type`: nobody types before the
  message asks.

Only model-checked: `EveryEventIsHandled` and `EveryImportEnds`, because liveness under
fairness is out of the prover's reach. Every other property of a passing run is a
theorem for all instances, under the hypotheses named above. That `TerminalNeverLeft` fails under overlap is what
`order_overlap` shows; without overlap it is proved (`TerminalStays`).

## Not modelled

- Order numbers, money, phone numbers and the other value objects: pure functions over
  strings and decimals. What the models need of them (a bound of a quantity, a
  price above nothing, a canonical number) is in the modules that use it.
- Which price list applies to a person. One list stands for all in `CartCheckout` and
  `CartScreens`; the lists, their bindings and the default are rows of `CatalogImport`.
- Wording, formatting, translations and the measuring of a text against the
  messenger's limits.
- The SQL of the read side and the mapping of columns to views, beyond which rows are
  shown, in which order and on which page.
- Dependency injection, handler lookup, configuration, bootstrap, the processes'
  entry points and migrations: wiring and data definition without behaviour.
- The libraries themselves. aiogram-dialog, SQLAlchemy's unit of work, FastStream, the
  broker and PostgreSQL appear as the code meets them.

Next in line: several price lists, and a front end for the second messenger once there
is one.
