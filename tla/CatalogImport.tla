--------------------------- MODULE CatalogImport ---------------------------
(***************************************************************************)
(* The catalogue projection and the processes that fill it.  An importer   *)
(* (goldy.catalog_seed_app) reads a file, sends ImportCatalogCommand, which *)
(* upserts the rows of the batch table by table in one transaction, and    *)
(* then FinalizeCatalogImportCommand, which sweeps the scope of the batch  *)
(* in a second one.  Several importers may run at once, each may die at    *)
(* any point, and a file may be imported again long after a newer one.     *)
(*                                                                         *)
(* The database is PostgreSQL at READ COMMITTED: a statement takes its     *)
(* rows one by one and waits for each that another transaction holds.  An  *)
(* upsert locks the rows it conflicts with, refused ones too; a sweep      *)
(* selects its rows from the snapshot its statement began with, passes     *)
(* over those deleted since and tests its condition again on what the      *)
(* others hold by then.  Of transactions that wait for each other in a     *)
(* ring the database aborts one.  In which order a statement comes to its  *)
(* rows is up to the file and the table, and left open.                    *)
(***************************************************************************)
EXTENDS Integers, FiniteSets, Sequences

CONSTANTS Importers,     \* processes of the seeder
          Files,         \* the snapshots lying on disk
          Keys,          \* primary keys of the six tables
          Default,       \* key of the price list configured as the default
          Supported,     \* currencies this service knows
          Absent         \* no row, no qualifier, no price list

VARIABLES projection,    \* the committed rows: Keys -> Stored or Absent
          session        \* what each importer is doing

vars == <<projection, session>>

\* CatalogScopeKind; every kind is a table of the projection.
Kinds == {"categories", "products", "price_types", "prices", "stock", "bindings"}

\* The order in which ImportCatalogHandler writes the tables.
Tables == <<"categories", "products", "price_types", "prices", "stock", "bindings">>

\* source_changed_at, 0 for a row that carries none.
Stamps == Nat
Unstamped == 0

\* A row of a snapshot.  A key is a record [table, id, of]: "of" is the price
\* list of a price and the warehouse of a stock row.  "amount" is the amount of
\* a price or the quantity of a stock row, "to" the list a binding names; a
\* table without such a column carries 0 or Absent there.
Row == [key : Keys, changed : Stamps, amount : Int, currency : STRING,
        to : Keys \cup {Absent}]

Snapshot == [batch : Nat, kind : Kinds, only : {k.of : k \in Keys} \cup {Absent},
             shaped : BOOLEAN, rows : SUBSET Row]

\* A row of the projection.
Stored == [batch : Nat, changed : Stamps, active : BOOLEAN, amount : Int,
           currency : STRING, supported : BOOLEAN, to : Keys \cup {Absent}]

ASSUME KeysAssumption ==
    /\ \A k \in Keys : k.table \in Kinds
    /\ Default \in Keys /\ Default.table = "price_types"

ASSUME FilesAssumption == Files \subseteq Snapshot

ASSUME AbsentAssumption == Absent \notin Stored /\ Absent \notin Files /\ Absent \notin Keys

Session == [pc : {"idle", "importing", "imported", "sweeping", "checked"},
            file : Files \cup {Absent}, at : 1..7,
            held : SUBSET Keys, image : [Keys -> Stored \cup {Absent}],
            targets : SUBSET Keys]

TypeOK ==
    /\ projection \in [Keys -> Stored \cup {Absent}]
    /\ session \in [Importers -> Session]

NoImage == [k \in Keys |-> Absent]

\* Between two transactions nothing is held.
Between(pc, f) == [pc |-> pc, file |-> f, at |-> 1, held |-> {}, image |-> NoImage,
                   targets |-> {}]

Idle == Between("idle", Absent)

Init ==
    /\ projection = [k \in Keys |-> Absent]
    /\ session = [p \in Importers |-> Idle]

-----------------------------------------------------------------------------
(***************************************************************************)
(* Rows in, rows out.                                                      *)
(***************************************************************************)

\* The prices ImportCatalogHandler takes: more than nothing, in a known currency.
Accepted(r) ==
    r.key.table = "prices" => r.amount > 0 /\ r.currency \in Supported

\* The rows of one upsert statement.
Batch(f, t) == {r \in f.rows : r.key.table = t /\ Accepted(r)}

Mentioned(f, t) == {r.key : r \in Batch(f, t)}

\* What makes PostgreSQL refuse the statement: a key given twice, or the check
\* constraint on a quantity.
Writable(f, t) ==
    /\ \A r, s \in Batch(f, t) : r.key = s.key => r = s
    /\ t = "stock" => \A r \in Batch(f, t) : r.amount >= 0

Incoming(f, k) == CHOOSE r \in Batch(f, k.table) : r.key = k

\* The values dictionary an upsert_* method makes of a row.
AsStored(r, f) ==
    [batch |-> f.batch, changed |-> r.changed, active |-> TRUE, amount |-> r.amount,
     currency |-> r.currency, supported |-> r.currency \in Supported, to |-> r.to]

\* Mutant: a row with the older stamp is taken.
AnyVersion(r, old) == TRUE

\* The condition of ON CONFLICT DO UPDATE.
Newer(r, old) ==
    \/ r.changed = Unstamped
    \/ old.changed = Unstamped
    \/ r.changed >= old.changed

\* What the table holds under k after the upsert.
Upserted(f, k) ==
    LET r == Incoming(f, k)
    IN  IF projection[k] = Absent \/ Newer(r, projection[k])
        THEN AsStored(r, f) ELSE projection[k]

\* Mutant: the qualifier of the scope is forgotten.
WholeKind(f, k) == k.table = f.kind

\* The part of the projection a finalisation may sweep.
InScope(f, k) ==
    /\ k.table = f.kind
    /\ f.kind \in {"prices", "stock"} /\ f.only # Absent => k.of = f.only

\* Products and categories are hidden and kept, everything else is deleted.
Hidden == {"categories", "products"}

SweptRow(k) ==
    IF k.table \in Hidden THEN [projection[k] EXCEPT !.active = FALSE] ELSE Absent

\* Mutant: batch ids are taken to grow.
StaleIfEarlier(f, k) ==
    /\ InScope(f, k)
    /\ projection[k] # Absent
    /\ projection[k].batch < f.batch
    /\ k.table \in Hidden => projection[k].active

\* The WHERE clause of the sweep on a committed row.
Stale(f, k) ==
    /\ InScope(f, k)
    /\ projection[k] # Absent
    /\ projection[k].batch # f.batch
    /\ k.table \in Hidden => projection[k].active

-----------------------------------------------------------------------------
(***************************************************************************)
(* Transactions.  A row an importer holds is locked; "image" is what the   *)
(* row becomes when the transaction commits.                               *)
(***************************************************************************)

Locked(p) == UNION {session[q].held : q \in Importers \ {p}}

\* The rows the statement p is in has yet to take.
Wanted(p) ==
    LET s == session[p]
    IN  IF s.pc = "importing" /\ s.at <= 6 THEN Mentioned(s.file, Tables[s.at]) \ s.held
        ELSE s.targets

\* p may be at a row that q holds.
WaitsFor(p, q) == Wanted(p) \cap session[q].held # {}

\* p is one of a ring in which everyone waits for the next.
InARing(p) ==
    \E n \in 2 .. Cardinality(Importers) : \E ring \in [1 .. n -> Importers] :
        ring[1] = p /\ \A i \in 1 .. n : WaitsFor(ring[i], ring[(i % n) + 1])

\* What a read inside the transaction of p sees.
Visible(p, k) == IF k \in session[p].held THEN session[p].image[k] ELSE projection[k]

\* What the transaction of p deletes; a sweep under way passes over these rows, also
\* when they are inserted anew before it comes to them.
Deleted(p) == {k \in session[p].held : session[p].image[k] = Absent}

\* p goes on as s, and the others without the rows that are gone.
Turned(p, s) ==
    [q \in Importers |-> IF q = p THEN s ELSE [session[q] EXCEPT !.targets = @ \ Deleted(p)]]

\* Mutant: the session goes on holding its rows.
CommittedStillHolding(p, s) ==
    /\ projection' = [k \in Keys |-> Visible(p, k)]
    /\ session' = Turned(p, [s EXCEPT !.held = session[p].held])

\* The commit TransactionPipeline makes after the handler.
Commit(p, s) ==
    /\ projection' = [k \in Keys |-> Visible(p, k)]
    /\ session' = Turned(p, s)

\* A handler that raises, a statement the database refuses, a lost connection
\* and a killed process all leave nothing of the transaction behind.
Rollback(p) ==
    /\ session' = [session EXCEPT ![p] = Idle]
    /\ UNCHANGED projection

-----------------------------------------------------------------------------
(***************************************************************************)
(* seed_catalog.                                                           *)
(***************************************************************************)

\* to_snapshot: no field is missing, no text blank and every number is one.
Loads(f) == f.shaped

\* JsonFileCatalogSource.read_snapshot; a file that is not shaped like a snapshot
\* ends the run with CatalogSourceReadError before anything was written.
ReadSnapshot(p, f) ==
    /\ session[p].pc = "idle"
    /\ Loads(f)
    /\ session' = [session EXCEPT ![p] = Between("importing", f)]
    /\ UNCHANGED projection

\* One row of the upsert statement of ImportCatalogHandler that is under way.
Upsert(p) ==
    LET s == session[p]
    IN  /\ s.pc = "importing" /\ s.at <= 6
        /\ \E k \in Wanted(p) \ Locked(p) :
              session' = [session EXCEPT ![p].held = @ \cup {k},
                                         ![p].image[k] = Upserted(s.file, k)]
        /\ UNCHANGED projection

\* The statement has taken all its rows; the next one is about the next table.
NextTable(p) ==
    LET s == session[p]
    IN  /\ s.pc = "importing" /\ s.at <= 6
        /\ Writable(s.file, Tables[s.at])
        /\ Wanted(p) = {}
        /\ session' = [session EXCEPT ![p].at = @ + 1]
        /\ UNCHANGED projection

\* The statement fails and the import is rolled back with RepoError.
UpsertRefused(p) ==
    /\ session[p].pc = "importing" /\ session[p].at <= 6
    /\ ~Writable(session[p].file, Tables[session[p].at])
    /\ Rollback(p)

ImportCatalog(p) ==
    /\ session[p].pc = "importing" /\ session[p].at = 7
    /\ Commit(p, Between("imported", session[p].file))

\* The sweep statement begins: it selects its rows from what is committed now.
Finalize(p) ==
    LET f == session[p].file
    IN  /\ session[p].pc = "imported"
        /\ session' = [session EXCEPT ![p].pc = "sweeping",
                                      ![p].targets = {k \in Keys : Stale(f, k)}]
        /\ UNCHANGED projection

\* One row of the sweep: it is written if it still matches and locked in any case.
Sweep(p) ==
    LET s == session[p]
    IN  /\ s.pc = "sweeping"
        /\ \E k \in s.targets \ Locked(p) :
              session' = [session EXCEPT ![p].targets = @ \ {k}, ![p].held = @ \cup {k},
                            ![p].image[k] = IF Stale(s.file, k) THEN SweptRow(k)
                                            ELSE projection[k]]
        /\ UNCHANGED projection

\* Each of the ring waits for a row the next one holds; the database notices after its
\* deadlock_timeout and aborts one of them, whichever it finds first.
DeadlockDetected(p) ==
    /\ InARing(p)
    /\ Rollback(p)

\* Mutant: the check reads through a session of its own.
SurvivedElsewhere(p) == session[p].file.kind = "price_types" => projection[Default] # Absent

\* After a sweep of the price types the default has to be there still.
DefaultSurvived(p) == session[p].file.kind = "price_types" => Visible(p, Default) # Absent

EnsureDefault(p) ==
    /\ session[p].pc = "sweeping" /\ session[p].targets = {}
    /\ DefaultSurvived(p)
    /\ session' = [session EXCEPT ![p].pc = "checked"]
    /\ UNCHANGED projection

\* CatalogSnapshotError: the sweep is rolled back with the transaction.
DefaultLost(p) ==
    /\ session[p].pc = "sweeping" /\ session[p].targets = {}
    /\ ~DefaultSurvived(p)
    /\ Rollback(p)

FinalizeCatalogImport(p) ==
    /\ session[p].pc = "checked"
    /\ Commit(p, Idle)

\* The process dies, or the database refuses a statement or drops the connection.
Dies(p) ==
    /\ session[p].pc # "idle"
    /\ Rollback(p)

Step(p) ==
    \/ Upsert(p) \/ NextTable(p) \/ UpsertRefused(p) \/ ImportCatalog(p)
    \/ Finalize(p) \/ Sweep(p) \/ EnsureDefault(p) \/ DefaultLost(p)
    \/ FinalizeCatalogImport(p)
    \/ DeadlockDetected(p)

Next == \E p \in Importers :
    \/ \E f \in Files : ReadSnapshot(p, f)
    \/ Step(p)
    \/ Dies(p)

Spec == Init /\ [][Next]_vars

\* A run that was started goes on until it ends: asyncio drives it, PostgreSQL serves
\* those who wait for a row in the order they came, so nobody waits for ever while
\* others take the row again and again (hence SF and not WF), and looks for rings of
\* those who have waited for deadlock_timeout.
FairSpec == Spec /\ \A p \in Importers : SF_vars(Step(p))

\* No two imports are under way.
OneAtATime ==
    \A p, q \in Importers : session[p].pc # "idle" /\ session[q].pc # "idle" => p = q

-----------------------------------------------------------------------------
(***************************************************************************)
(* Properties.                                                             *)
(***************************************************************************)

\* No step of any number of overlapping imports replaces a row by an older
\* version of it: the condition of _upsert is tested on the row its statement has
\* locked, and nobody changes that row before the import commits.
NeverDowngraded ==
    [][\A k \in Keys : projection[k] # Absent /\ projection'[k] # Absent
          /\ projection[k].changed # Unstamped /\ projection'[k].changed # Unstamped
          => projection'[k].changed >= projection[k].changed]_vars

\* Once the default price list is in the projection it stays there: whichever
\* imports overlap, the transaction that would delete it fails its own check in
\* FinalizeCatalogImportHandler.
DefaultNeverLost ==
    [][projection[Default] # Absent => projection'[Default] # Absent]_vars

\* A product or a category that was ever imported keeps its row, because placed
\* orders point at it: a sweep only hides it.
RowsOrdersPointAtStay ==
    [][\A k \in Keys : k.table \in Hidden /\ projection[k] # Absent
                       => projection'[k] # Absent]_vars

\* No customer can meet a price of nothing or in a currency the shop does not
\* know, whatever the files hold and however their imports interleave.
PricesCanBeSold ==
    \A k \in Keys : k.table = "prices" /\ projection[k] # Absent
        => projection[k].amount > 0 /\ projection[k].currency \in Supported

\* An import about one price list or one warehouse takes no row of another away,
\* and an import of one kind none of another kind: what disappears or is hidden in
\* a step lies in the scope of the importer that commits.
OnlyTheScopeIsSwept ==
    [][\A k \in Keys :
          /\ projection[k] # Absent
          /\ projection'[k] = Absent \/ (projection[k].active /\ ~projection'[k].active)
          => \E p \in Importers :
                /\ session[p].pc = "checked" /\ k.table = session[p].file.kind
                /\ k.table \in {"prices", "stock"} /\ session[p].file.only # Absent
                     => k.of = session[p].file.only]_vars

\* A row is live for the storefront.
Live(k) == projection[k] # Absent /\ projection[k].active

\* What a finalisation leaves live in its scope is what its file mentioned, under its
\* batch, and all of it but the rows the projection had in a newer version: the upsert
\* refused those, so they carry another batch, and the sweep takes them away.
LeavesTheFile ==
    \A p \in Importers : FinalizeCatalogImport(p)
        => LET f == session[p].file
           IN  \A k \in Keys : InScope(f, k) =>
                 /\ Live(k)' <=> /\ k \in Mentioned(f, k.table)
                                 /\ projection[k] = Absent \/ Newer(Incoming(f, k), projection[k])
                 /\ Live(k)' => projection'[k].batch = f.batch

\* Every run that is started ends.  The rows of one table are taken in no common order,
\* so two imports can each hold what the other waits for; one of them is rolled back
\* then and nobody waits for ever.  What it was to write is lost until it is run again.
EveryImportEnds ==
    \A p \in Importers : session[p].pc # "idle" ~> session[p].pc = "idle"
=============================================================================
