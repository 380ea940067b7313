--------------------------- MODULE CatalogProofs ---------------------------
(***************************************************************************)
(* The catalogue, from both sides.  First, what overlapping imports never  *)
(* do to the projection, for any number of importers, any files and any    *)
(* tables of keys: the invariant says what a transaction that is not       *)
(* committed may make of the rows it holds, and that no row is held twice. *)
(* Then the storefront that reads it, for any groups, products, exports    *)
(* and terms: where an import places a group and what a listing of it      *)
(* shows, and what the dialog of a chat does to its product and its pages. *)
(***************************************************************************)
EXTENDS MCCatalogImport, Storefront, FiniteSetTheorems, SequenceTheorems, WellFoundedInduction, TLAPS

-----------------------------------------------------------------------------
(* Imports *)

\* What an upsert may make of a row: a stored row that is no older and is not
\* hidden by it.
ImportedRow(new, old) ==
    /\ new \in Stored
    /\ old # Absent =>
         /\ old.active => new.active
         /\ old.changed # Unstamped /\ new.changed # Unstamped
              => new.changed >= old.changed

SellablePrice(k, row) ==
    k.table = "prices" => row.amount > 0 /\ row.currency \in Supported

\* What a sweep makes of a row it has come to.
Swept(f, k) == IF Stale(f, k) THEN SweptRow(k) ELSE projection[k]

\* What one importer holds and is about to write: nobody else changes these rows, so
\* what it made of them is what it would make of them now.
SessionFits(s) ==
    /\ s.pc # "idle" => s.file \in Files
    /\ s.pc \in {"idle", "imported"} => s.held = {}
    /\ s.pc = "importing" =>
         /\ \A k \in s.held : /\ k \in Mentioned(s.file, k.table)
                              /\ s.image[k] = Upserted(s.file, k)
         /\ \A i \in 1..6 : i < s.at => Mentioned(s.file, Tables[i]) \subseteq s.held
    /\ s.pc \in {"sweeping", "checked"} =>
         /\ \A k \in s.held : /\ InScope(s.file, k)
                              /\ projection[k] # Absent
                              /\ s.image[k] = Swept(s.file, k)
         /\ \A k \in s.targets : InScope(s.file, k) /\ projection[k] # Absent
    /\ s.pc = "checked" /\ Default \in s.held => s.image[Default] # Absent

SessionOK(p) == SessionFits(session[p])

Alone == \A p, q \in Importers : p # q => session[p].held \cap session[q].held = {}

IInv == TypeOK /\ PricesCanBeSold /\ Alone /\ \A p \in Importers : SessionOK(p)

-----------------------------------------------------------------------------

\* A row of the batch that is upserted under k is one of the file, with that key.
LEMMA IncomingIsMentioned ==
  ASSUME NEW f \in Files, NEW t, NEW k \in Mentioned(f, t)
  PROVE  /\ k \in Keys /\ k.table = t
         /\ Incoming(f, k) \in Row
         /\ Accepted(Incoming(f, k))
         /\ Incoming(f, k).key = k
<1>1. PICK r \in Batch(f, t) : r.key = k
  BY DEF Mentioned
<1>2. r \in f.rows /\ f.rows \subseteq Row
  BY <1>1, FilesAssumption DEF Batch, Snapshot
<1>3. k \in Keys /\ k.table = t
  BY <1>1, <1>2 DEF Batch, Row
<1>4. Incoming(f, k) \in Batch(f, k.table) /\ Incoming(f, k).key = k
  BY <1>1, <1>3 DEF Incoming
<1> QED BY <1>2, <1>3, <1>4 DEF Batch

LEMMA StoredRow ==
  ASSUME NEW f \in Files, NEW r \in Row
  PROVE  AsStored(r, f) \in Stored
<1>1. f.batch \in Nat
  BY FilesAssumption DEF Snapshot
<1> QED BY <1>1 DEF AsStored, Stored, Row, Stamps

\* The upsert keeps the newer version, and takes no price it should not.
LEMMA UpsertedRow ==
  ASSUME TypeOK, PricesCanBeSold, NEW f \in Files, NEW t, NEW k \in Mentioned(f, t)
  PROVE  /\ ImportedRow(Upserted(f, k), projection[k])
         /\ SellablePrice(k, Upserted(f, k))
<1> DEFINE r == Incoming(f, k)
<1>1. k \in Keys /\ r \in Row /\ Accepted(r) /\ r.key = k
  BY IncomingIsMentioned
<1>2. AsStored(r, f) \in Stored
  BY <1>1, StoredRow
<1> HIDE DEF r
<1>3. projection[k] \in Stored \cup {Absent}
  BY <1>1 DEF TypeOK
<1>4. AsStored(r, f).changed = r.changed /\ AsStored(r, f).active = TRUE
      /\ AsStored(r, f).amount = r.amount /\ AsStored(r, f).currency = r.currency
  BY DEF AsStored
<1>5. CASE projection[k] = Absent \/ Newer(r, projection[k])
  <2>1. Upserted(f, k) = AsStored(r, f)
    BY <1>5 DEF Upserted, r
  <2>2. ImportedRow(AsStored(r, f), projection[k])
    BY <1>1, <1>2, <1>3, <1>4, <1>5 DEF ImportedRow, Newer, Unstamped, Row, Stored, Stamps
  <2>3. SellablePrice(k, AsStored(r, f))
    BY <1>1, <1>4 DEF SellablePrice, Accepted
  <2> QED BY <2>1, <2>2, <2>3
<1>6. CASE ~(projection[k] = Absent \/ Newer(r, projection[k]))
  <2>1. Upserted(f, k) = projection[k] /\ projection[k] \in Stored
    BY <1>3, <1>6 DEF Upserted, r
  <2>2. ImportedRow(projection[k], projection[k])
    BY <2>1 DEF ImportedRow, Stored, Stamps
  <2>3. SellablePrice(k, projection[k])
    BY <1>1, <1>6 DEF PricesCanBeSold, SellablePrice
  <2> QED BY <2>1, <2>2, <2>3
<1> QED BY <1>5, <1>6

\* What an importer that takes no step may keep relying on.
LEMMA SessionFrame ==
  ASSUME NEW q \in Importers, SessionOK(q),
         /\ session'[q].pc = session[q].pc /\ session'[q].file = session[q].file
         /\ session'[q].at = session[q].at
         /\ session'[q].held = session[q].held /\ session'[q].image = session[q].image
         /\ session'[q].targets \subseteq session[q].targets,
         \A k \in session[q].held : projection'[k] = projection[k],
         \A k \in session'[q].targets : projection[k] # Absent => projection'[k] # Absent
  PROVE  SessionOK(q)'
<1>1. \A f, k : projection'[k] = projection[k] => Upserted(f, k)' = Upserted(f, k)
  BY DEF Upserted, Newer, AsStored, Incoming, Batch
<1>2. \A f, k : projection'[k] = projection[k] => Swept(f, k)' = Swept(f, k)
  BY DEF Swept, Stale, SweptRow, InScope
<1>3. ASSUME session[q].pc = "importing"
      PROVE  /\ \A k \in session[q].held : /\ k \in Mentioned(session[q].file, k.table)
                                           /\ session[q].image[k] = Upserted(session[q].file, k)'
             /\ \A i \in 1..6 : i < session[q].at
                   => Mentioned(session[q].file, Tables[i]) \subseteq session[q].held
  BY <1>1, <1>3 DEF SessionOK, SessionFits
<1>4. ASSUME session[q].pc \in {"sweeping", "checked"}
      PROVE  /\ \A k \in session[q].held : /\ InScope(session[q].file, k)
                                           /\ projection'[k] # Absent
                                           /\ session[q].image[k] = Swept(session[q].file, k)'
             /\ \A k \in session'[q].targets : InScope(session[q].file, k) /\ projection'[k] # Absent
  BY <1>2, <1>4 DEF SessionOK, SessionFits
<1> QED BY <1>3, <1>4 DEF SessionOK, SessionFits

\* A session that fits and is put in the place of another fits after the step too.
LEMMA PutInPlace ==
  ASSUME NEW p \in Importers, NEW s, session'[p] = s, UNCHANGED projection, SessionFits(s)
  PROVE  SessionOK(p)'
<1>1. \A f, k : Upserted(f, k)' = Upserted(f, k)
  BY DEF Upserted, Newer, AsStored, Incoming, Batch
<1>2. \A f, k : Swept(f, k)' = Swept(f, k)
  BY DEF Swept, Stale, SweptRow, InScope
<1> QED BY <1>1, <1>2 DEF SessionOK, SessionFits

\* The image of a row that is written is a row or its absence.
LEMMA SweptRowType ==
  ASSUME NEW k \in Keys, projection[k] \in Stored
  PROVE  SweptRow(k) \in Stored \cup {Absent}
BY DEF SweptRow, Stored

\* What a sweep leaves keeps its version.
LEMMA SweptType ==
  ASSUME NEW f \in Files, NEW k \in Keys, projection[k] \in Stored
  PROVE  /\ Swept(f, k) \in Stored \cup {Absent}
         /\ Swept(f, k) # Absent => /\ Swept(f, k).changed = projection[k].changed
                                    /\ Swept(f, k).batch = projection[k].batch
         /\ k.table \in Hidden => Swept(f, k) \in Stored
<1>1. CASE Stale(f, k) /\ k.table \in Hidden
  <2>1. Swept(f, k) = [projection[k] EXCEPT !.active = FALSE]
    BY <1>1 DEF Swept, SweptRow
  <2> QED BY <2>1 DEF Stored
<1>2. CASE Stale(f, k) /\ k.table \notin Hidden
  BY <1>2 DEF Swept, SweptRow
<1>3. CASE ~Stale(f, k)
  BY <1>3 DEF Swept
<1> QED BY <1>1, <1>2, <1>3

\* What a commit makes of one row.
LEMMA Committed ==
  ASSUME IInv, NEW p \in Importers, NEW k \in Keys, k \in session[p].held,
         session[p].pc \in {"importing", "checked"}
  PROVE  /\ session[p].file \in Files
         /\ session[p].image[k] \in Stored \cup {Absent}
         /\ session[p].pc = "importing" =>
              /\ k \in Mentioned(session[p].file, k.table)
              /\ session[p].image[k] = Upserted(session[p].file, k)
              /\ ImportedRow(session[p].image[k], projection[k])
              /\ SellablePrice(k, session[p].image[k])
         /\ session[p].pc = "checked" =>
              /\ InScope(session[p].file, k)
              /\ k = Default => session[p].image[k] # Absent
              /\ projection[k] \in Stored
              /\ session[p].image[k] = Swept(session[p].file, k)
<1>1. session[p] \in Session /\ projection[k] \in Stored \cup {Absent}
  BY DEF IInv, TypeOK
<1>2. session[p].image \in [Keys -> Stored \cup {Absent}]
  BY <1>1 DEF Session
<1>3. SessionOK(p) /\ TypeOK /\ PricesCanBeSold
  BY DEF IInv
<1>4. session[p].file \in Files
  BY <1>3 DEF SessionOK, SessionFits
<1>5. CASE session[p].pc = "importing"
  <2>1. k \in Mentioned(session[p].file, k.table)
        /\ session[p].image[k] = Upserted(session[p].file, k)
    BY <1>3, <1>5 DEF SessionOK, SessionFits
  <2> QED BY <1>2, <1>3, <1>4, <1>5, <2>1, UpsertedRow
<1>6. CASE session[p].pc = "checked"
  BY <1>1, <1>2, <1>3, <1>4, <1>6 DEF SessionOK, SessionFits
<1> QED BY <1>5, <1>6

-----------------------------------------------------------------------------

LEMMA BetweenType ==
  ASSUME NEW pc \in {"idle", "importing", "imported"}, NEW f \in Files \cup {Absent}
  PROVE  /\ Between(pc, f) \in Session
         /\ Between(pc, f).pc = pc
         /\ Between(pc, f).file = f
         /\ Between(pc, f).at = 1
         /\ Between(pc, f).held = {}
<1>1. NoImage \in [Keys -> Stored \cup {Absent}]
  BY DEF NoImage
<1> HIDE DEF NoImage
<1> QED BY <1>1 DEF Between, Session

LEMMA IdleType == Idle \in Session /\ Idle.pc = "idle" /\ Idle.held = {}
BY BetweenType DEF Idle

LEMMA InitIInv == Init => IInv
<1> SUFFICES ASSUME Init PROVE IInv
  OBVIOUS
<1>2. TypeOK
  BY IdleType DEF Init, TypeOK
<1>3. PricesCanBeSold /\ Alone
  BY IdleType DEF Init, PricesCanBeSold, Alone
<1>4. \A p \in Importers : SessionOK(p)
  BY IdleType DEF Init, SessionOK, SessionFits
<1> QED BY <1>2, <1>3, <1>4 DEF IInv

LEMMA IdleOK ==
  ASSUME NEW p \in Importers, NEW s \in Session, session \in [Importers -> Session],
         s.pc \in {"idle", "imported"}, s.held = {},
         s.pc # "idle" => s.file \in Files,
         session' = [session EXCEPT ![p] = s]
  PROVE  SessionOK(p)'
BY DEF SessionOK, SessionFits

\* Steps that leave the projection alone and hold no row more.
LEMMA QuietStep ==
  ASSUME IInv, NEW p \in Importers, NEW s \in Session,
         session' = [session EXCEPT ![p] = s], UNCHANGED projection,
         s.held \subseteq Keys,
         \A q \in Importers \ {p} : s.held \cap session[q].held = {},
         SessionOK(p)'
  PROVE  IInv'
<1>1. TypeOK'
  BY DEF IInv, TypeOK
<1>2. PricesCanBeSold'
  BY DEF IInv, PricesCanBeSold
<1>3. \A q \in Importers \ {p} : session'[q] = session[q]
  BY DEF IInv, TypeOK
<1>4. session'[p] = s
  BY DEF IInv, TypeOK
<1>5. Alone'
  BY <1>3, <1>4 DEF IInv, Alone
<1>6. \A q \in Importers : SessionOK(q)'
  <2> TAKE q \in Importers
  <2>1. CASE q = p
    BY <2>1
  <2>2. CASE q # p
    <3>1. session'[q] = session[q] /\ SessionOK(q)
      BY <2>2, <1>3 DEF IInv
    <3> QED BY <3>1, SessionFrame
  <2> QED BY <2>1, <2>2
<1> QED BY <1>1, <1>2, <1>5, <1>6 DEF IInv

\* What the others are after a commit.
LEMMA TurnedType ==
  ASSUME session \in [Importers -> Session], NEW p \in Importers, NEW s \in Session, Commit(p, s)
  PROVE  /\ session' \in [Importers -> Session]
         /\ session'[p] = s
         /\ \A q \in Importers \ {p} :
              /\ session'[q].pc = session[q].pc /\ session'[q].file = session[q].file
              /\ session'[q].at = session[q].at
              /\ session'[q].held = session[q].held /\ session'[q].image = session[q].image
              /\ session'[q].targets = session[q].targets \ Deleted(p)
<1>1. session' = [q \in Importers |-> IF q = p THEN s
                    ELSE [session[q] EXCEPT !.targets = session[q].targets \ Deleted(p)]]
  BY DEF Commit, Turned
<1>2. session'[p] = s
  BY <1>1
<1> DEFINE gone == Deleted(p)
<1>3. session' = [q \in Importers |-> IF q = p THEN s
                    ELSE [session[q] EXCEPT !.targets = session[q].targets \ gone]]
  BY <1>1
<1> HIDE DEF gone
<1>4. ASSUME NEW q \in Importers \ {p}
      PROVE  /\ session'[q] \in Session
             /\ session'[q].pc = session[q].pc /\ session'[q].file = session[q].file
             /\ session'[q].at = session[q].at
             /\ session'[q].held = session[q].held /\ session'[q].image = session[q].image
             /\ session'[q].targets = session[q].targets \ gone
  <2>1. session[q] \in Session
        /\ session'[q] = [session[q] EXCEPT !.targets = session[q].targets \ gone]
    BY <1>3
  <2>2. session[q].targets \ gone \in SUBSET Keys
    BY <2>1 DEF Session
  <2> QED BY <2>1, <2>2 DEF Session
<1>5. session' \in [Importers -> Session]
  BY <1>3, <1>2, <1>4
<1> QED BY <1>2, <1>4, <1>5 DEF gone

LEMMA CommitStep ==
  ASSUME IInv, NEW p \in Importers, NEW s \in Session,
         session[p].pc \in {"importing", "checked"},
         s.pc \in {"idle", "imported"}, s.held = {},
         s.pc # "idle" => s.file \in Files,
         Commit(p, s)
  PROVE  IInv'
<1>1. session \in [Importers -> Session] /\ projection \in [Keys -> Stored \cup {Absent}]
  BY DEF IInv, TypeOK
<1>2. \A k \in Keys : projection'[k] = IF k \in session[p].held THEN session[p].image[k]
                                       ELSE projection[k]
  BY DEF Commit, Visible
<1>3. \A k \in Keys : projection'[k] \in Stored \cup {Absent}
  BY <1>1, <1>2, Committed
<1>4. projection' \in [Keys -> Stored \cup {Absent}]
  BY <1>3 DEF Commit
<1>5. /\ session' \in [Importers -> Session] /\ session'[p] = s
      /\ \A q \in Importers \ {p} :
           /\ session'[q].pc = session[q].pc /\ session'[q].file = session[q].file
           /\ session'[q].at = session[q].at
           /\ session'[q].held = session[q].held /\ session'[q].image = session[q].image
           /\ session'[q].targets = session[q].targets \ Deleted(p)
  BY <1>1, TurnedType
<1>6. TypeOK'
  BY <1>4, <1>5 DEF TypeOK
<1>7. PricesCanBeSold'
  <2> SUFFICES ASSUME NEW k \in Keys, k.table = "prices", projection'[k] # Absent
               PROVE  projection'[k].amount > 0 /\ projection'[k].currency \in Supported
    BY DEF PricesCanBeSold
  <2>1. CASE k \notin session[p].held
    BY <1>2, <2>1 DEF IInv, PricesCanBeSold
  <2>2. CASE k \in session[p].held /\ session[p].pc = "importing"
    BY <1>2, <2>2, Committed DEF SellablePrice
  <2>3. CASE k \in session[p].held /\ session[p].pc = "checked"
    <3>1. SweptRow(k) = Absent
      BY DEF SweptRow, Hidden
    <3>2. projection'[k] \in {Absent, projection[k]}
      BY <1>2, <2>3, <3>1, Committed DEF Swept
    <3> QED BY <3>2 DEF IInv, PricesCanBeSold
  <2> QED BY <2>1, <2>2, <2>3
<1>8. Alone'
  BY <1>5 DEF IInv, Alone
<1>9. \A q \in Importers : SessionOK(q)'
  <2> TAKE q \in Importers
  <2>1. CASE q = p
    BY <2>1, <1>5 DEF SessionOK, SessionFits
  <2>2. CASE q # p
    <3>1. session[q].held \subseteq Keys /\ session[q].targets \subseteq Keys
      BY <1>1 DEF Session
    <3>2. \A k \in session[q].held : projection'[k] = projection[k]
      BY <2>2, <3>1, <1>2 DEF IInv, Alone
    <3>3. \A k \in session'[q].targets : projection[k] # Absent => projection'[k] # Absent
      BY <2>2, <3>1, <1>2, <1>5 DEF Deleted
    <3>4. SessionOK(q) /\ session'[q].targets \subseteq session[q].targets
      BY <2>2, <1>5 DEF IInv
    <3> QED BY <2>2, <1>5, <3>2, <3>3, <3>4, SessionFrame
  <2> QED BY <2>1, <2>2
<1> QED BY <1>6, <1>7, <1>8, <1>9 DEF IInv

LEMMA RollbackStep ==
  ASSUME IInv, NEW p \in Importers, Rollback(p)
  PROVE  IInv'
<1>2. session \in [Importers -> Session]
  BY DEF IInv, TypeOK
<1>3. SessionOK(p)'
  BY IdleType, <1>2, IdleOK DEF Rollback
<1> QED BY IdleType, <1>3, QuietStep DEF Rollback

LEMMA ReadStep ==
  ASSUME IInv, NEW p \in Importers, NEW f \in Files, ReadSnapshot(p, f)
  PROVE  IInv'
<1> DEFINE s == Between("importing", f)
<1>1. s \in Session /\ s.pc = "importing" /\ s.held = {} /\ s.file = f /\ s.at = 1
  BY BetweenType
<1>2. session \in [Importers -> Session] /\ session' = [session EXCEPT ![p] = s]
      /\ UNCHANGED projection
  BY DEF IInv, TypeOK, ReadSnapshot
<1> HIDE DEF s
<1>3. SessionFits(s) /\ session'[p] = s
  BY <1>1, <1>2 DEF SessionFits
<1>4. SessionOK(p)'
  BY <1>2, <1>3, PutInPlace
<1> QED BY <1>1, <1>2, <1>4, QuietStep

LEMMA UpsertStep ==
  ASSUME IInv, NEW p \in Importers, Upsert(p)
  PROVE  IInv'
<1> DEFINE o == session[p]
<1>1. session \in [Importers -> Session] /\ o \in Session
  BY DEF IInv, TypeOK
<1>2. PICK k \in Wanted(p) \ Locked(p) :
        session' = [session EXCEPT ![p].held = @ \cup {k}, ![p].image[k] = Upserted(o.file, k)]
  BY DEF Upsert
<1>3. o.pc = "importing" /\ o.at <= 6 /\ UNCHANGED projection /\ k \notin Locked(p)
      /\ k \in Mentioned(o.file, Tables[o.at])
  BY <1>2 DEF Upsert, Wanted
<1>4. o.file \in Files /\ SessionOK(p)
  BY <1>3 DEF IInv, SessionOK, SessionFits
<1>5. k \in Keys /\ k.table = Tables[o.at]
  BY <1>3, <1>4, IncomingIsMentioned
<1>6. Upserted(o.file, k) \in Stored
  BY <1>3, <1>4, UpsertedRow DEF IInv, ImportedRow
<1> DEFINE row == Upserted(o.file, k)
           s == [o EXCEPT !.held = o.held \cup {k}, !.image = [o.image EXCEPT ![k] = row]]
<1>7. session' = [session EXCEPT ![p] = s]
  BY <1>1, <1>2 DEF Session
<1>8. o.held \subseteq Keys /\ o.image \in [Keys -> Stored \cup {Absent}]
  BY <1>1 DEF Session
<1>9. [o.image EXCEPT ![k] = row] \in [Keys -> Stored \cup {Absent}]
      /\ o.held \cup {k} \in SUBSET Keys
  BY <1>5, <1>6, <1>8
<1>10. s \in Session
  BY <1>1, <1>9 DEF Session
<1>11. /\ s.pc = "importing" /\ s.file = o.file /\ s.at = o.at /\ s.held = o.held \cup {k}
       /\ s.image = [o.image EXCEPT ![k] = row]
  BY <1>1, <1>3 DEF Session
<1>12. \A j \in o.held : /\ j \in Mentioned(o.file, j.table)
                         /\ o.image[j] = Upserted(o.file, j)
  BY <1>3, <1>4 DEF SessionOK, SessionFits
<1>13. \A i \in 1..6 : i < o.at => Mentioned(o.file, Tables[i]) \subseteq o.held
  BY <1>3, <1>4 DEF SessionOK, SessionFits
<1>14. \A j \in s.held : /\ j \in Mentioned(o.file, j.table)
                         /\ s.image[j] = Upserted(o.file, j)
  BY <1>3, <1>5, <1>8, <1>11, <1>12
<1>15. \A q \in Importers \ {p} : s.held \cap session[q].held = {}
  BY <1>3, <1>11 DEF IInv, Alone, Locked
<1> HIDE DEF s, row
<1>16. session'[p] = s
  BY <1>1, <1>7
<1>17. SessionFits(s)
  BY <1>4, <1>11, <1>13, <1>14 DEF SessionFits
<1>18. SessionOK(p)'
  BY <1>3, <1>16, <1>17, PutInPlace
<1>19. s.held \subseteq Keys
  BY <1>10 DEF Session
<1> QED BY <1>3, <1>7, <1>10, <1>15, <1>18, <1>19, QuietStep

LEMMA NextTableStep ==
  ASSUME IInv, NEW p \in Importers, NextTable(p)
  PROVE  IInv'
<1> DEFINE o == session[p]
           s == [o EXCEPT !.at = o.at + 1]
<1>1. session \in [Importers -> Session] /\ o \in Session
  BY DEF IInv, TypeOK
<1>2. o.pc = "importing" /\ o.at <= 6 /\ UNCHANGED projection /\ Wanted(p) = {}
      /\ session' = [session EXCEPT ![p] = s]
  BY <1>1 DEF NextTable, Session
<1>3. SessionOK(p) /\ o.file \in Files /\ o.at \in 1..6
  BY <1>1, <1>2 DEF IInv, SessionOK, SessionFits, Session
<1>4. /\ s \in Session /\ s.pc = "importing" /\ s.file = o.file /\ s.at = o.at + 1
      /\ s.held = o.held /\ s.image = o.image /\ s.held \subseteq Keys
  BY <1>1, <1>2, <1>3 DEF Session
<1>5. Mentioned(o.file, Tables[o.at]) \subseteq o.held
  BY <1>2 DEF Wanted
<1>6. \A i \in 1..6 : i < s.at => Mentioned(s.file, Tables[i]) \subseteq s.held
  <2> SUFFICES ASSUME NEW i \in 1..6, i < s.at PROVE Mentioned(s.file, Tables[i]) \subseteq s.held
    OBVIOUS
  <2>1. i < o.at \/ i = o.at
    BY <1>3, <1>4
  <2>2. CASE i < o.at
    BY <1>2, <1>3, <1>4, <2>2 DEF SessionOK, SessionFits
  <2>3. CASE i = o.at
    BY <1>4, <1>5, <2>3
  <2> QED BY <2>1, <2>2, <2>3
<1>7. \A j \in s.held : /\ j \in Mentioned(s.file, j.table)
                        /\ s.image[j] = Upserted(s.file, j)
  BY <1>2, <1>3, <1>4 DEF SessionOK, SessionFits
<1> HIDE DEF s
<1>8. session'[p] = s
  BY <1>1, <1>2
<1>9. SessionFits(s)
  BY <1>3, <1>4, <1>6, <1>7 DEF SessionFits
<1>10. SessionOK(p)'
  BY <1>2, <1>8, <1>9, PutInPlace
<1>11. \A q \in Importers \ {p} : s.held \cap session[q].held = {}
  BY <1>4 DEF IInv, Alone
<1> QED BY <1>2, <1>4, <1>10, <1>11, QuietStep

LEMMA ImportStep ==
  ASSUME IInv, NEW p \in Importers, ImportCatalog(p)
  PROVE  IInv'
<1> DEFINE s == Between("imported", session[p].file)
<1>1. session[p].pc = "importing" /\ Commit(p, s)
  BY DEF ImportCatalog
<1>2. session[p].file \in Files
  BY <1>1 DEF IInv, SessionOK, SessionFits
<1>3. s \in Session /\ s.pc = "imported" /\ s.held = {} /\ s.file \in Files
  BY <1>2, BetweenType
<1> HIDE DEF s
<1> QED BY <1>1, <1>3, CommitStep

LEMMA FinalizeStep ==
  ASSUME IInv, NEW p \in Importers, Finalize(p)
  PROVE  IInv'
<1> DEFINE o == session[p]
           targets == {k \in Keys : Stale(o.file, k)}
           s == [o EXCEPT !.pc = "sweeping", !.targets = targets]
<1>1. session \in [Importers -> Session] /\ o \in Session
  BY DEF IInv, TypeOK
<1>2. o.pc = "imported" /\ UNCHANGED projection
  BY DEF Finalize
<1>3. session' = [session EXCEPT ![p] = s]
  BY <1>1 DEF Finalize, Session
<1>4. o.file \in Files /\ o.held = {}
  BY <1>2 DEF IInv, SessionOK, SessionFits
<1>5. targets \subseteq Keys /\ \A k \in targets : InScope(o.file, k) /\ projection[k] # Absent
  BY DEF Stale
<1> HIDE DEF targets
<1>6. s \in Session /\ s.pc = "sweeping" /\ s.held = {} /\ s.file = o.file /\ s.targets = targets
  BY <1>1, <1>4, <1>5 DEF Session
<1> HIDE DEF s
<1>7. session'[p] = s
  BY <1>1, <1>3
<1>8. SessionFits(s)
  BY <1>4, <1>5, <1>6 DEF SessionFits
<1>9. SessionOK(p)'
  BY <1>2, <1>7, <1>8, PutInPlace
<1> QED BY <1>2, <1>3, <1>6, <1>9, QuietStep

LEMMA SweepStep ==
  ASSUME IInv, NEW p \in Importers, Sweep(p)
  PROVE  IInv'
<1> DEFINE o == session[p]
<1>1. session \in [Importers -> Session] /\ o \in Session
      /\ projection \in [Keys -> Stored \cup {Absent}]
  BY DEF IInv, TypeOK
<1>2. PICK k \in o.targets \ Locked(p) :
        session' = [session EXCEPT ![p].targets = @ \ {k}, ![p].held = @ \cup {k},
                      ![p].image[k] = IF Stale(o.file, k) THEN SweptRow(k) ELSE projection[k]]
  BY DEF Sweep
<1>3. o.pc = "sweeping" /\ UNCHANGED projection
  BY DEF Sweep
<1>4. SessionOK(p) /\ o.file \in Files /\ o.targets \subseteq Keys /\ o.held \subseteq Keys
      /\ o.image \in [Keys -> Stored \cup {Absent}]
  BY <1>1, <1>3 DEF IInv, SessionOK, SessionFits, Session
<1>5. k \in Keys /\ InScope(o.file, k) /\ projection[k] \in Stored
  BY <1>1, <1>2, <1>3, <1>4 DEF SessionOK, SessionFits
<1> DEFINE row == Swept(o.file, k)
           s == [o EXCEPT !.targets = o.targets \ {k}, !.held = o.held \cup {k},
                   !.image = [o.image EXCEPT ![k] = row]]
<1>6. session' = [session EXCEPT ![p] = s]
  BY <1>1, <1>2 DEF Session, Swept
<1>7. row \in Stored \cup {Absent}
  BY <1>4, <1>5, SweptType
<1> HIDE DEF row
<1>8. [o.image EXCEPT ![k] = row] \in [Keys -> Stored \cup {Absent}]
  BY <1>4, <1>5, <1>7
<1>9. s \in Session
  BY <1>1, <1>4, <1>5, <1>8 DEF Session
<1>10. /\ s.pc = "sweeping" /\ s.file = o.file /\ s.held = o.held \cup {k}
       /\ s.targets \subseteq o.targets /\ s.image = [o.image EXCEPT ![k] = row]
  BY <1>1, <1>3 DEF Session
<1>11. \A q \in Importers \ {p} : s.held \cap session[q].held = {}
  BY <1>2, <1>10 DEF IInv, Alone, Locked
<1>12. s.held \subseteq Keys
  BY <1>9 DEF Session
<1> HIDE DEF s
<1>13. session'[p] = s
  BY <1>1, <1>6
<1>14. \A j \in s.held : /\ InScope(o.file, j) /\ projection[j] # Absent
                         /\ s.image[j] = Swept(o.file, j)
  <2> TAKE j \in s.held
  <2>1. CASE j = k
    BY <2>1, <1>4, <1>5, <1>10, AbsentAssumption DEF row
  <2>2. CASE j # k
    <3>1. j \in o.held /\ j \in Keys
      BY <2>2, <1>4, <1>10
    <3> QED BY <2>2, <3>1, <1>3, <1>4, <1>10 DEF SessionOK, SessionFits
  <2> QED BY <2>1, <2>2
<1>15. \A j \in s.targets : InScope(o.file, j) /\ projection[j] # Absent
  BY <1>3, <1>4, <1>10 DEF SessionOK, SessionFits
<1>16. SessionFits(s)
  BY <1>4, <1>10, <1>14, <1>15 DEF SessionFits
<1>17. SessionOK(p)'
  BY <1>3, <1>13, <1>16, PutInPlace
<1> QED BY <1>3, <1>6, <1>9, <1>11, <1>12, <1>17, QuietStep

LEMMA EnsureStep ==
  ASSUME IInv, NEW p \in Importers, EnsureDefault(p)
  PROVE  IInv'
<1> DEFINE o == session[p]
           s == [o EXCEPT !.pc = "checked"]
<1>1. session \in [Importers -> Session] /\ o \in Session
  BY DEF IInv, TypeOK
<1>2. o.pc = "sweeping" /\ o.targets = {} /\ DefaultSurvived(p) /\ UNCHANGED projection
      /\ session' = [session EXCEPT ![p] = s]
  BY <1>1 DEF EnsureDefault, Session
<1>3. s \in Session /\ s.pc = "checked" /\ s.held = o.held /\ s.image = o.image
      /\ s.file = o.file /\ s.targets = {} /\ o.held \subseteq Keys
  BY <1>1, <1>2 DEF Session
<1>4. /\ o.file \in Files
      /\ \A k \in o.held : /\ InScope(o.file, k) /\ projection[k] # Absent
                           /\ o.image[k] = Swept(o.file, k)
  BY <1>2 DEF IInv, SessionOK, SessionFits
<1>5. Default \in o.held => o.image[Default] # Absent
  <2> SUFFICES ASSUME Default \in o.held PROVE o.image[Default] # Absent
    OBVIOUS
  <2>1. o.file.kind = "price_types"
    BY <1>4, KeysAssumption DEF InScope
  <2> QED BY <1>2, <2>1 DEF DefaultSurvived, Visible
<1> HIDE DEF s
<1>6. session'[p] = s
  BY <1>1, <1>2
<1>7. SessionFits(s)
  BY <1>3, <1>4, <1>5 DEF SessionFits
<1>8. SessionOK(p)'
  BY <1>2, <1>6, <1>7, PutInPlace
<1>9. \A q \in Importers \ {p} : s.held \cap session[q].held = {}
  BY <1>3 DEF IInv, Alone
<1> QED BY <1>2, <1>3, <1>8, <1>9, QuietStep

LEMMA FinalizeCatalogStep ==
  ASSUME IInv, NEW p \in Importers, FinalizeCatalogImport(p)
  PROVE  IInv'
<1> QED BY IdleType, CommitStep DEF FinalizeCatalogImport

LEMMA NextIInv == IInv /\ [Next]_vars => IInv'
<1> SUFFICES ASSUME IInv, [Next]_vars PROVE IInv'
  OBVIOUS
<1>1. CASE UNCHANGED vars
  <2>1. session' = session /\ projection' = projection
    BY <1>1 DEF vars
  <2>2. \A q \in Importers : SessionOK(q)'
    BY <2>1, SessionFrame DEF IInv
  <2> QED BY <2>1, <2>2 DEF IInv, TypeOK, PricesCanBeSold, Alone
<1>2. CASE Next
  <2>1. PICK p \in Importers : (\E f \in Files : ReadSnapshot(p, f)) \/ Step(p) \/ Dies(p)
    BY <1>2 DEF Next
  <2>2. CASE \E f \in Files : ReadSnapshot(p, f)
    BY <2>2, ReadStep
  <2>3. CASE Dies(p) \/ UpsertRefused(p) \/ DefaultLost(p) \/ DeadlockDetected(p)
    BY <2>3, RollbackStep DEF Dies, UpsertRefused, DefaultLost, DeadlockDetected
  <2>4. CASE Upsert(p) \/ NextTable(p)
    BY <2>4, UpsertStep, NextTableStep
  <2>5. CASE ImportCatalog(p)
    BY <2>5, ImportStep
  <2>6. CASE Finalize(p)
    BY <2>6, FinalizeStep
  <2>7. CASE Sweep(p)
    BY <2>7, SweepStep
  <2>8. CASE EnsureDefault(p)
    BY <2>8, EnsureStep
  <2>9. CASE FinalizeCatalogImport(p)
    BY <2>9, FinalizeCatalogStep
  <2> QED BY <2>1, <2>2, <2>3, <2>4, <2>5, <2>6, <2>7, <2>8, <2>9 DEF Step
<1> QED BY <1>1, <1>2

LEMMA Invariance == Spec => []IInv
BY InitIInv, NextIInv, PTL DEF Spec

-----------------------------------------------------------------------------
(***************************************************************************)
(* Theorems.                                                               *)
(***************************************************************************)

\* The projection and the sessions keep their types: whatever the files hold,
\* a row of the projection has all its columns.
THEOREM TypeCorrect == Spec => []TypeOK
BY Invariance, PTL DEF IInv

\* No price of nothing and no foreign price ever reaches the projection.
THEOREM PricesAlwaysSellable == Spec => []PricesCanBeSold
BY Invariance, PTL DEF IInv

\* The projection changes in commits only, and a commit writes what its session holds.
LEMMA OnlyCommitsWrite ==
  ASSUME IInv, [Next]_vars, NEW k \in Keys, projection'[k] # projection[k]
  PROVE  \E p \in Importers :
            /\ session[p].pc \in {"importing", "checked"}
            /\ k \in session[p].held
            /\ projection'[k] = session[p].image[k]
<1>1. Next
  BY DEF vars
<1>2. PICK p \in Importers : (\E f \in Files : ReadSnapshot(p, f)) \/ Step(p) \/ Dies(p)
  BY <1>1 DEF Next
<1>3. ImportCatalog(p) \/ FinalizeCatalogImport(p)
  BY <1>2 DEF Step, ReadSnapshot, Dies, Upsert, NextTable, UpsertRefused, DefaultLost,
             DeadlockDetected, Rollback, Finalize, Sweep, EnsureDefault
<1>4. session[p].pc \in {"importing", "checked"} /\ projection'[k] = Visible(p, k)
  BY <1>3 DEF ImportCatalog, FinalizeCatalogImport, Commit
<1> QED BY <1>4 DEF Visible

\* Overlapping imports never put an older version of a row in the place of a newer
\* one: the condition of _upsert is evaluated on a row nobody else can change.
THEOREM NoDowngrade == Spec => NeverDowngraded
<1>1. IInv /\ [Next]_vars =>
        [\A k \in Keys : projection[k] # Absent /\ projection'[k] # Absent
          /\ projection[k].changed # Unstamped /\ projection'[k].changed # Unstamped
          => projection'[k].changed >= projection[k].changed]_vars
  <2> SUFFICES ASSUME IInv, [Next]_vars, NEW k \in Keys,
                      projection[k] # Absent, projection'[k] # Absent,
                      projection[k].changed # Unstamped, projection'[k].changed # Unstamped
               PROVE  projection'[k].changed >= projection[k].changed
    OBVIOUS
  <2>1. projection[k] \in Stored
    BY DEF IInv, TypeOK
  <2>2. CASE projection'[k] = projection[k]
    BY <2>1, <2>2 DEF Stored, Stamps
  <2>3. CASE projection'[k] # projection[k]
    <3>1. PICK p \in Importers : /\ session[p].pc \in {"importing", "checked"}
                                 /\ k \in session[p].held
                                 /\ projection'[k] = session[p].image[k]
      BY <2>3, OnlyCommitsWrite
    <3>2. CASE session[p].pc = "importing"
      BY <3>1, <3>2, Committed DEF ImportedRow
    <3>3. CASE session[p].pc = "checked"
      <4>1. projection'[k] = Swept(session[p].file, k) /\ session[p].file \in Files
        BY <3>1, <3>3, Committed
      <4>2. projection'[k].changed = projection[k].changed
        BY <2>1, <4>1, SweptType
      <4> QED BY <2>1, <4>2 DEF Stored, Stamps
    <3> QED BY <3>1, <3>2, <3>3
  <2> QED BY <2>2, <2>3
<1> QED BY <1>1, Invariance, PTL DEF Spec, NeverDowngraded

\* The default price list cannot be lost once it is there: the transaction that
\* deletes it would not pass the check of FinalizeCatalogImportHandler.
THEOREM DefaultStays == Spec => DefaultNeverLost
<1>1. IInv /\ [Next]_vars => [projection[Default] # Absent => projection'[Default] # Absent]_vars
  <2> SUFFICES ASSUME IInv, [Next]_vars, projection[Default] # Absent
               PROVE  projection'[Default] # Absent
    OBVIOUS
  <2>1. CASE projection'[Default] # projection[Default]
    <3>1. PICK p \in Importers : /\ session[p].pc \in {"importing", "checked"}
                                 /\ Default \in session[p].held
                                 /\ projection'[Default] = session[p].image[Default]
      BY <2>1, OnlyCommitsWrite, KeysAssumption
    <3>2. session[p].image[Default] # Absent
      BY <3>1, Committed, KeysAssumption, AbsentAssumption DEF ImportedRow
    <3> QED BY <3>1, <3>2
  <2> QED BY <2>1
<1> QED BY <1>1, Invariance, PTL DEF Spec, DefaultNeverLost

\* Products and categories keep their rows for ever.
THEOREM RowsStay == Spec => RowsOrdersPointAtStay
<1>1. IInv /\ [Next]_vars =>
        [\A k \in Keys : k.table \in Hidden /\ projection[k] # Absent
                         => projection'[k] # Absent]_vars
  <2> SUFFICES ASSUME IInv, [Next]_vars, NEW k \in Keys, k.table \in Hidden,
                      projection[k] # Absent
               PROVE  projection'[k] # Absent
    OBVIOUS
  <2>1. CASE projection'[k] # projection[k]
    <3>1. PICK p \in Importers : /\ session[p].pc \in {"importing", "checked"}
                                 /\ k \in session[p].held
                                 /\ projection'[k] = session[p].image[k]
      BY <2>1, OnlyCommitsWrite
    <3>2. CASE session[p].pc = "importing"
      BY <3>1, <3>2, Committed, AbsentAssumption DEF ImportedRow
    <3>3. CASE session[p].pc = "checked"
      <4>1. projection'[k] \in Stored
        BY <3>1, <3>3, Committed, SweptType
      <4> QED BY <4>1, AbsentAssumption
    <3> QED BY <3>1, <3>2, <3>3
  <2> QED BY <2>1
<1> QED BY <1>1, Invariance, PTL DEF Spec, RowsOrdersPointAtStay

\* What an import takes away lies in its scope: the price list or the warehouse it
\* is about when it names one, and its kind of row in any case.
THEOREM ScopeRespected == Spec => OnlyTheScopeIsSwept
<1>1. IInv /\ [Next]_vars =>
        [\A k \in Keys :
          /\ projection[k] # Absent
          /\ projection'[k] = Absent \/ (projection[k].active /\ ~projection'[k].active)
          => \E p \in Importers :
                /\ session[p].pc = "checked" /\ k.table = session[p].file.kind
                /\ k.table \in {"prices", "stock"} /\ session[p].file.only # Absent
                     => k.of = session[p].file.only]_vars
  <2> SUFFICES ASSUME IInv, [Next]_vars, NEW k \in Keys, projection[k] # Absent,
                      projection'[k] = Absent \/ (projection[k].active /\ ~projection'[k].active)
               PROVE  \E p \in Importers :
                        /\ session[p].pc = "checked" /\ k.table = session[p].file.kind
                        /\ k.table \in {"prices", "stock"} /\ session[p].file.only # Absent
                             => k.of = session[p].file.only
    OBVIOUS
  <2>1. projection'[k] # projection[k]
    OBVIOUS
  <2>2. PICK p \in Importers : /\ session[p].pc \in {"importing", "checked"}
                               /\ k \in session[p].held
                               /\ projection'[k] = session[p].image[k]
    BY <2>1, OnlyCommitsWrite
  <2>3. session[p].pc # "importing"
    <3> SUFFICES ASSUME session[p].pc = "importing" PROVE FALSE
      OBVIOUS
    <3>1. ImportedRow(session[p].image[k], projection[k])
      BY <2>2, Committed
    <3> QED BY <2>2, <3>1, AbsentAssumption DEF ImportedRow
  <2>4. session[p].pc = "checked" /\ InScope(session[p].file, k)
    BY <2>2, <2>3, Committed
  <2> QED BY <2>4 DEF InScope
<1> QED BY <1>1, Invariance, PTL DEF Spec, OnlyTheScopeIsSwept

-----------------------------------------------------------------------------
(***************************************************************************)
(* Imports that do not overlap.  A row carries the batch and the version   *)
(* of a file that mentions it.  After its import every row of a file       *)
(* stands as the file has it, or as it stood when it was newer; the rows a *)
(* sweep selected are still all the stale ones, and it holds all of them   *)
(* when it commits.                                                        *)
(***************************************************************************)

\* The batch id a file carries names that file and no other.
OneFilePerBatch == \A f, g \in Files : f.batch = g.batch => f = g

\* The row under k is of the version a file has that mentions k.
Known(k, row) ==
    \E f \in Files : /\ row.batch = f.batch /\ k \in Mentioned(f, k.table)
                     /\ row.changed = Incoming(f, k).changed

Provenance == \A k \in Keys : projection[k] # Absent => Known(k, projection[k])

\* The row under k is the one of f, or a newer one that f left alone.
TakenOrNewer(f, k) ==
    \/ projection[k] = AsStored(Incoming(f, k), f)
    \/ projection[k] # Absent /\ ~Newer(Incoming(f, k), projection[k])

\* Nothing came in between what p imported and what it sweeps.
Stands(p) ==
    session[p].pc \in {"imported", "sweeping", "checked"} =>
        \A k \in Keys : k \in Mentioned(session[p].file, k.table)
                        => TakenOrNewer(session[p].file, k)

\* A sweep that nobody interrupts misses nothing.
SweepsAll(p) ==
    /\ session[p].pc = "sweeping" =>
          \A k \in Keys : Stale(session[p].file, k)
                          => k \in session[p].targets \cup session[p].held
    /\ session[p].pc = "checked" =>
          \A k \in Keys : Stale(session[p].file, k) => k \in session[p].held

Undisturbed == alone => OneAtATime /\ \A p \in Importers : Stands(p) /\ SweepsAll(p)

LEMMA UpsertedIsKnown ==
  ASSUME Provenance, NEW f \in Files, NEW t, NEW k \in Mentioned(f, t)
  PROVE  Known(k, Upserted(f, k))
<1>1. k \in Keys /\ k.table = t
  BY IncomingIsMentioned
<1>2. AsStored(Incoming(f, k), f).batch = f.batch
      /\ AsStored(Incoming(f, k), f).changed = Incoming(f, k).changed
  BY DEF AsStored
<1>3. CASE projection[k] = Absent \/ Newer(Incoming(f, k), projection[k])
  BY <1>1, <1>2, <1>3 DEF Upserted, Known
<1>4. CASE ~(projection[k] = Absent \/ Newer(Incoming(f, k), projection[k]))
  BY <1>1, <1>4 DEF Upserted, Provenance
<1> QED BY <1>3, <1>4

\* Only commits write, and what they write is known.
LEMMA NextProvenance == IInv /\ Provenance /\ [Next]_vars => Provenance'
<1> SUFFICES ASSUME IInv, Provenance, [Next]_vars, NEW k \in Keys, projection'[k] # Absent
             PROVE  Known(k, projection'[k])
  BY DEF Provenance, Known, Mentioned, Batch, Incoming
<1>1. CASE projection'[k] = projection[k]
  BY <1>1 DEF Provenance
<1>2. CASE projection'[k] # projection[k]
  <2>1. PICK p \in Importers : /\ session[p].pc \in {"importing", "checked"}
                               /\ k \in session[p].held
                               /\ projection'[k] = session[p].image[k]
    BY <1>2, OnlyCommitsWrite
  <2>2. CASE session[p].pc = "importing"
    BY <2>1, <2>2, Committed, UpsertedIsKnown
  <2>3. CASE session[p].pc = "checked"
    <3>1. projection[k] \in Stored /\ session[p].image[k] = Swept(session[p].file, k)
          /\ session[p].file \in Files
      BY <2>1, <2>3, Committed
    <3>2. Known(k, projection[k])
      BY <3>1, AbsentAssumption DEF Provenance
    <3>3. projection'[k].batch = projection[k].batch
          /\ projection'[k].changed = projection[k].changed
      BY <2>1, <3>1, SweptType
    <3> QED BY <3>2, <3>3 DEF Known
  <2> QED BY <2>1, <2>2, <2>3
<1> QED BY <1>1, <1>2

\* Whoever takes no step, while the projection stays, keeps it so.
LEMMA QuietOthers ==
  ASSUME NEW q \in Importers, session'[q] = session[q], UNCHANGED projection,
         Stands(q), SweepsAll(q)
  PROVE  Stands(q)' /\ SweepsAll(q)'
BY DEF Stands, SweepsAll, TakenOrNewer, Stale, InScope, Newer, AsStored, Incoming, Mentioned, Batch

\* The commit of an import leaves every row of its file taken or newer.
LEMMA ImportStands ==
  ASSUME IInv, NEW p \in Importers, ImportCatalog(p)
  PROVE  Stands(p)' /\ SweepsAll(p)'
<1> DEFINE f == session[p].file
           s == Between("imported", f)
<1>1. session \in [Importers -> Session] /\ session[p].pc = "importing" /\ session[p].at = 7
      /\ Commit(p, s)
  BY DEF ImportCatalog, IInv, TypeOK
<1>2. SessionOK(p) /\ f \in Files
  BY <1>1 DEF IInv, SessionOK, SessionFits
<1>3. s \in Session /\ s.pc = "imported" /\ s.file = f
  BY <1>2, BetweenType
<1>4. session'[p].pc = "imported" /\ session'[p].file = f
  BY <1>1, <1>3, TurnedType
<1>5. ASSUME NEW k \in Keys, k \in Mentioned(f, k.table)
      PROVE  \/ projection'[k] = AsStored(Incoming(f, k), f)
             \/ projection'[k] # Absent /\ ~Newer(Incoming(f, k), projection'[k])
  <2>1. \E i \in 1..6 : Tables[i] = k.table
    <3>1. k.table \in Kinds
      BY KeysAssumption
    <3>2. /\ Tables[1] = "categories" /\ Tables[2] = "products" /\ Tables[3] = "price_types"
          /\ Tables[4] = "prices" /\ Tables[5] = "stock" /\ Tables[6] = "bindings"
      BY DEF Tables
    <3> QED BY <3>1, <3>2 DEF Kinds
  <2>2. k \in session[p].held
    BY <1>1, <1>2, <1>5, <2>1 DEF SessionOK, SessionFits
  <2>3. projection'[k] = session[p].image[k]
    BY <1>1, <2>2 DEF Commit, Visible
  <2>4. projection'[k] = Upserted(f, k)
    BY <1>1, <1>2, <2>2, <2>3 DEF SessionOK, SessionFits
  <2> QED BY <2>4 DEF Upserted
<1>6. Stands(p)'
  BY <1>4, <1>5 DEF Stands, TakenOrNewer, Newer, AsStored, Incoming, Mentioned, Batch
<1>7. SweepsAll(p)'
  BY <1>4 DEF SweepsAll
<1> QED BY <1>6, <1>7

\* Undisturbed is kept: while imports come one after the other, whoever is under
\* way is the one that takes the step.
LEMMA NextUndisturbed ==
  ASSUME IInv, Undisturbed, MCNext
  PROVE  Undisturbed'
<1> SUFFICES ASSUME alone' PROVE OneAtATime' /\ \A p \in Importers : Stands(p)' /\ SweepsAll(p)'
  BY DEF Undisturbed
<1>1. Next /\ alone /\ OneAtATime'
  BY DEF MCNext
<1>2. OneAtATime /\ \A p \in Importers : Stands(p) /\ SweepsAll(p)
  BY <1>1 DEF Undisturbed
<1>3. session \in [Importers -> Session]
  BY DEF IInv, TypeOK
<1>4. SUFFICES ASSUME NEW p \in Importers PROVE Stands(p)' /\ SweepsAll(p)'
  BY <1>1
<1>5. PICK a \in Importers : (\E f \in Files : ReadSnapshot(a, f)) \/ Step(a) \/ Dies(a)
  BY <1>1 DEF Next
<1>6. ASSUME session'[p].pc \in {"idle", "importing"} PROVE Stands(p)' /\ SweepsAll(p)'
  BY <1>6 DEF Stands, SweepsAll
<1>7. CASE \E f \in Files : ReadSnapshot(a, f)
  <2>1. PICK f \in Files : ReadSnapshot(a, f)
    BY <1>7
  <2>2. session'[a] = Between("importing", f)
    BY <1>3, <2>1 DEF ReadSnapshot
  <2>3. session'[a].pc = "importing"
    BY <2>2, BetweenType
  <2>4. session'[p].pc \in {"idle", "importing"}
    BY <1>1, <2>3 DEF OneAtATime
  <2> QED BY <2>4, <1>6
<1>8. CASE Dies(a) \/ UpsertRefused(a) \/ DefaultLost(a) \/ DeadlockDetected(a)
  <2>1. session' = [session EXCEPT ![a] = Idle] /\ UNCHANGED projection
    BY <1>8 DEF Dies, UpsertRefused, DefaultLost, DeadlockDetected, Rollback
  <2>2. CASE p = a
    BY <1>3, <2>1, <2>2, IdleType, <1>6
  <2>3. CASE p # a
    <3>1. session'[p] = session[p]
      BY <1>3, <2>1, <2>3
    <3> QED BY <3>1, <2>1, <1>2, QuietOthers
  <2> QED BY <2>2, <2>3
<1>9. CASE Upsert(a) \/ NextTable(a) \/ Finalize(a) \/ Sweep(a) \/ EnsureDefault(a)
  <2>1. UNCHANGED projection /\ \A q \in Importers \ {a} : session'[q] = session[q]
    BY <1>3, <1>9 DEF Upsert, NextTable, Finalize, Sweep, EnsureDefault
  <2>2. CASE p # a
    BY <2>1, <2>2, <1>2, QuietOthers
  <2>3. CASE p = a
    <3> DEFINE f == session[p].file
    <3>1. session[p] \in Session
      BY <1>3
    <3>2. \A g, k : Stale(g, k)' <=> Stale(g, k)
      BY <2>1 DEF Stale, InScope
    <3>3. CASE Upsert(p) \/ NextTable(p)
      <4>1. session'[p].pc = "importing"
        BY <1>3, <3>1, <3>3 DEF Upsert, NextTable, Session
      <4> QED BY <4>1, <1>6
    <3>4. ASSUME session'[p].file = f,
                 session[p].pc \in {"imported", "sweeping", "checked"}
          PROVE  Stands(p)'
      BY <3>4, <2>1, <1>2 DEF Stands, TakenOrNewer, Newer, AsStored, Incoming, Mentioned, Batch
    <3>5. CASE Finalize(p)
      <4>1. /\ session'[p].pc = "sweeping" /\ session'[p].file = f
            /\ session'[p].targets = {k \in Keys : Stale(f, k)}
            /\ session[p].pc = "imported"
        BY <1>3, <3>1, <3>5 DEF Finalize, Session
      <4>2. \A k \in Keys : Stale(f, k)' => k \in session'[p].targets
        BY <4>1, <3>2
      <4> QED BY <4>1, <4>2, <3>4 DEF SweepsAll
    <3>6. CASE Sweep(p)
      <4>1. PICK k \in session[p].targets :
              session' = [session EXCEPT ![p].targets = @ \ {k}, ![p].held = @ \cup {k},
                            ![p].image[k] = IF Stale(f, k) THEN SweptRow(k) ELSE projection[k]]
        BY <3>6 DEF Sweep
      <4>2. /\ session[p].pc = "sweeping" /\ session'[p].pc = "sweeping"
            /\ session'[p].file = f
            /\ session'[p].held = session[p].held \cup {k}
            /\ session'[p].targets = session[p].targets \ {k}
        BY <1>3, <3>1, <3>6, <4>1 DEF Sweep, Session
      <4>3. \A j \in Keys : Stale(f, j)' => j \in session'[p].targets \cup session'[p].held
        BY <1>2, <3>2, <4>2 DEF SweepsAll
      <4> QED BY <4>2, <4>3, <3>4 DEF SweepsAll
    <3>7. CASE EnsureDefault(p)
      <4>1. /\ session[p].pc = "sweeping" /\ session'[p].pc = "checked"
            /\ session'[p].file = f /\ session[p].targets = {}
            /\ session'[p].held = session[p].held
        BY <1>3, <3>1, <3>7 DEF EnsureDefault, Session
      <4>2. \A j \in Keys : Stale(f, j)' => j \in session'[p].held
        BY <1>2, <3>2, <4>1 DEF SweepsAll
      <4> QED BY <4>1, <4>2, <3>4 DEF SweepsAll
    <3> QED BY <1>9, <2>3, <3>3, <3>5, <3>6, <3>7
  <2> QED BY <2>2, <2>3
<1>10. CASE ImportCatalog(a) \/ FinalizeCatalogImport(a)
  <2> DEFINE s == IF ImportCatalog(a) THEN Between("imported", session[a].file) ELSE Idle
  <2>1. Commit(a, s) /\ session[a].pc \in {"importing", "checked"}
    BY <1>10 DEF ImportCatalog, FinalizeCatalogImport
  <2>2. session[a].file \in Files
    BY <2>1 DEF IInv, SessionOK, SessionFits
  <2>3. s \in Session
    BY <2>2, BetweenType, IdleType
  <2>4. CASE p # a
    <3>1. session'[p].pc = session[p].pc
      BY <1>3, <2>1, <2>3, <2>4, TurnedType
    <3>2. session[p].pc = "idle"
      BY <1>2, <2>1, <2>4 DEF OneAtATime
    <3> QED BY <3>1, <3>2, <1>6
  <2>5. CASE p = a /\ ImportCatalog(a)
    BY <2>5, ImportStands
  <2>6. CASE p = a /\ FinalizeCatalogImport(a)
    <3>1. Commit(a, Idle)
      BY <2>6 DEF FinalizeCatalogImport
    <3>2. session'[p] = Idle
      BY <3>1, <1>3, <2>6, IdleType, TurnedType
    <3> QED BY <3>2, IdleType, <1>6
  <2> QED BY <1>10, <2>4, <2>5, <2>6
<1> QED BY <1>5, <1>7, <1>8, <1>9, <1>10 DEF Step

SweepInv == IInv /\ Provenance /\ Undisturbed

LEMMA SweepInvariance == MCSpec => []SweepInv
<1>1. MCInit => SweepInv
  <2> SUFFICES ASSUME MCInit PROVE SweepInv
    OBVIOUS
  <2>1. IInv
    BY InitIInv DEF MCInit
  <2>2. Provenance
    BY DEF MCInit, Init, Provenance
  <2>3. Undisturbed
    BY IdleType DEF MCInit, Init, Undisturbed, OneAtATime, SweepsAll, Stands
  <2> QED BY <2>1, <2>2, <2>3 DEF SweepInv
<1>2. SweepInv /\ [MCNext]_<<vars, story, alone>> => SweepInv'
  <2> SUFFICES ASSUME SweepInv, [MCNext]_<<vars, story, alone>> PROVE SweepInv'
    OBVIOUS
  <2>1. [Next]_vars
    BY DEF MCNext
  <2>2. IInv' /\ Provenance'
    BY <2>1, NextIInv, NextProvenance DEF SweepInv
  <2>3. CASE MCNext
    BY <2>2, <2>3, NextUndisturbed DEF SweepInv
  <2>4. CASE UNCHANGED <<vars, story, alone>>
    <3>1. session' = session /\ projection' = projection /\ alone' = alone
      BY <2>4 DEF vars
    <3>2. Undisturbed'
      BY <3>1, QuietOthers DEF SweepInv, Undisturbed, OneAtATime
    <3> QED BY <2>2, <3>2 DEF SweepInv
  <2> QED BY <2>3, <2>4
<1> QED BY <1>1, <1>2, PTL DEF MCSpec

\* FinalizeCatalogImportHandler leaves live in its scope what the file mentioned, but for
\* the rows the upsert refused as older, whatever was imported before, repeated or broken
\* off, provided no two imports overlapped and a batch id names one file.
THEOREM FinalisedScopeIsTheFile == OneFilePerBatch => (MCSpec => ScopeHoldsTheFile)
<1> SUFFICES ASSUME OneFilePerBatch PROVE MCSpec => ScopeHoldsTheFile
  OBVIOUS
<1>1. SweepInv /\ [MCNext]_<<vars, story, alone>> =>
        [alone' => LeavesTheFile]_<<vars, story, alone>>
  <2> SUFFICES ASSUME SweepInv, MCNext, alone',
                      NEW p \in Importers, FinalizeCatalogImport(p),
                      NEW k \in Keys, InScope(session[p].file, k)
               PROVE  /\ Live(k)' <=> /\ k \in Mentioned(session[p].file, k.table)
                                      /\ \/ projection[k] = Absent
                                         \/ Newer(Incoming(session[p].file, k), projection[k])
                      /\ Live(k)' => projection'[k].batch = session[p].file.batch
    BY DEF LeavesTheFile
  <2> DEFINE f == session[p].file
             r == Incoming(f, k)
  <2>1. alone /\ session[p].pc = "checked"
    BY DEF MCNext, FinalizeCatalogImport
  <2>2. SweepsAll(p) /\ Stands(p) /\ f \in Files
    BY <2>1 DEF SweepInv, Undisturbed, IInv, SessionOK, SessionFits
  <2>3. projection'[k] = IF k \in session[p].held THEN session[p].image[k] ELSE projection[k]
    BY DEF FinalizeCatalogImport, Commit, Visible
  <2>4. projection[k] \in Stored \cup {Absent}
    BY DEF SweepInv, IInv, TypeOK
  <2>5. projection'[k] = Swept(f, k)
    <3>1. CASE k \in session[p].held
      BY <2>1, <2>3, <3>1, Committed DEF SweepInv
    <3>2. CASE k \notin session[p].held
      BY <2>1, <2>2, <2>3, <3>2 DEF SweepsAll, Swept
    <3> QED BY <3>1, <3>2
  <2>6. ASSUME Live(k)'
        PROVE  k \in Mentioned(f, k.table) /\ Newer(r, projection[k])
               /\ projection'[k].batch = f.batch
    <3>1. projection'[k] # Absent /\ projection'[k].active
      BY <2>6 DEF Live
    <3>2. ~Stale(f, k)
      <4> SUFFICES ASSUME Stale(f, k) PROVE FALSE
        OBVIOUS
      <4>1. projection[k] \in Stored /\ projection'[k] = SweptRow(k)
        BY <2>4, <2>5 DEF Swept, Stale
      <4>2. SweptRow(k) # Absent => SweptRow(k).active = FALSE
        BY <4>1 DEF SweptRow, Stored
      <4> QED BY <3>1, <4>1, <4>2
    <3>3. projection[k] # Absent /\ projection[k].active /\ projection'[k] = projection[k]
      BY <2>5, <3>1, <3>2 DEF Swept
    <3>4. projection[k].batch = f.batch
      BY <3>2, <3>3 DEF Stale
    <3>5. PICK g \in Files : /\ projection[k].batch = g.batch /\ k \in Mentioned(g, k.table)
                             /\ projection[k].changed = Incoming(g, k).changed
      BY <3>3 DEF SweepInv, Provenance, Known
    <3>6. g = f
      BY <2>2, <3>4, <3>5 DEF OneFilePerBatch
    <3>7. r.changed = projection[k].changed /\ projection[k].changed \in Nat
      BY <2>4, <3>3, <3>5, <3>6 DEF Stored, Stamps
    <3> QED BY <3>3, <3>4, <3>5, <3>6, <3>7 DEF Newer
  <2>7. ASSUME k \in Mentioned(f, k.table), projection[k] = Absent \/ Newer(r, projection[k])
        PROVE  Live(k)'
    <3>1. projection[k] = AsStored(r, f)
      BY <2>1, <2>2, <2>7 DEF Stands, TakenOrNewer
    <3>2. AsStored(r, f).batch = f.batch /\ AsStored(r, f).active = TRUE
      BY DEF AsStored
    <3>3. r \in Row
      BY <2>2, <2>7, IncomingIsMentioned
    <3>4. AsStored(r, f) # Absent
      BY <2>2, <3>3, StoredRow, AbsentAssumption
    <3>5. projection'[k] = projection[k]
      BY <2>5, <3>1, <3>2 DEF Swept, Stale
    <3> QED BY <3>1, <3>2, <3>4, <3>5 DEF Live
  <2> QED BY <2>6, <2>7
<1> QED BY <1>1, SweepInvariance, PTL DEF MCSpec, ScopeHoldsTheFile

-----------------------------------------------------------------------------
(* The tree of groups *)

\* A set of numbers that is not empty has a smallest one.
LEMMA Smallest ==
  ASSUME NEW T \in SUBSET Nat, T # {}
  PROVE  \E n \in T : \A m \in T : n <= m
<1> DEFINE Less == OpToRel(<, Nat)
<1>1. IsWellFoundedOn(Less, Nat)
  BY NatLessThanWellFounded
<1>2. \A x, y \in Nat : x < y => <<x, y>> \in Less
  BY DEF OpToRel
<1> HIDE DEF Less
<1>3. PICK x \in T : \A y \in T : ~ (<<y, x>> \in Less)
  BY <1>1, WFMin
<1>4. ASSUME NEW m \in T PROVE x <= m
  <2>1. x \in Nat /\ m \in Nat
    OBVIOUS
  <2>2. ~(m < x)
    BY <1>2, <1>3, <2>1
  <2> QED BY <2>1, <2>2
<1> QED BY <1>4

\* Induction, over a set of numbers instead of a predicate.
LEMMA AllNumbers ==
  ASSUME NEW S, 0 \in S, \A n \in Nat : n \in S => n + 1 \in S
  PROVE  Nat \subseteq S
<1> SUFFICES ASSUME NEW z \in Nat, z \notin S PROVE FALSE
  OBVIOUS
<1> DEFINE T == {n \in Nat : n \notin S}
<1>1. PICK n \in T : \A m \in T : n <= m
  BY Smallest
<1>2. n # 0 /\ n - 1 \in Nat
  BY <1>1
<1>3. n - 1 \in S
  BY <1>1, <1>2
<1> QED BY <1>2, <1>3

-----------------------------------------------------------------------------
\* The walk that placement is defined by exists.
Walk(parents, g, N, walked) ==
    walked = [n \in 0..N |-> IF n = 0 THEN <<g>> ELSE WalkUp(parents, walked[n - 1])]

\* A walk of any length exists: the recursion of placement has a solution.
LEMMA WalkExists ==
  ASSUME NEW parents, NEW g
  PROVE  \A N \in Nat : \E walked : Walk(parents, g, N, walked)
<1> DEFINE S == {N \in Nat : \E walked : Walk(parents, g, N, walked)}
<1>1. 0 \in S
  <2> DEFINE w == [n \in 0..0 |-> <<g>>]
  <2>1. Walk(parents, g, 0, w)
    BY DEF Walk
  <2> QED BY <2>1
<1>2. ASSUME NEW N \in Nat, N \in S PROVE N + 1 \in S
  <2>1. PICK w : Walk(parents, g, N, w)
    BY <1>2
  <2> DEFINE v == [n \in 0..N+1 |-> IF n = 0 THEN <<g>> ELSE WalkUp(parents, w[n - 1])]
  <2>2. \A n \in 0..N : v[n] = w[n]
    <3>1. ASSUME NEW n \in 0..N PROVE v[n] = w[n]
      <4>1. w[n] = IF n = 0 THEN <<g>> ELSE WalkUp(parents, w[n - 1])
        BY <2>1, Zenon DEF Walk
      <4>2. v[n] = IF n = 0 THEN <<g>> ELSE WalkUp(parents, w[n - 1])
        OBVIOUS
      <4> QED BY <4>1, <4>2, Zenon
    <3> QED BY <3>1
  <2>3. \A n \in 0..N+1 : n # 0 => n - 1 \in 0..N
    OBVIOUS
  <2>4. v = [n \in 0..N+1 |-> IF n = 0 THEN <<g>> ELSE WalkUp(parents, v[n - 1])]
    BY <2>2, <2>3, Zenon
  <2>5. Walk(parents, g, N + 1, v)
    BY <2>4, Zenon DEF Walk
  <2> QED BY <2>5
<1>3. Nat \subseteq S
  BY <1>1, <1>2, AllNumbers
<1> QED BY <1>3

\* placement is the last group list of such a walk.
LEMMA PlacementWalks ==
  ASSUME NEW parents, NEW g, IsFiniteSet(Groups)
  PROVE  \E walked : Walk(parents, g, Cardinality(Groups), walked)
                        /\ placement(parents, g) = walked[Cardinality(Groups)]
<1> DEFINE N == Cardinality(Groups)
           chosen == CHOOSE walked : Walk(parents, g, N, walked)
<1>1. N \in Nat
  BY FS_CardinalityType
<1>2. Walk(parents, g, N, chosen)
  BY <1>1, WalkExists
<1>3. placement(parents, g) = chosen[N]
  BY Zenon DEF placement, Walk
<1> QED BY <1>2, <1>3

\* A path into a group by the parents of an export.
PathInto(parents, g, path) ==
    /\ path \in Seq(Groups) /\ path # <<>>
    /\ path[Len(path)] = g
    /\ \A i \in 1..Len(path) : path[i] \in DOMAIN parents
    /\ \A i, j \in 1..Len(path) : path[i] = path[j] => i = j
    /\ \A i \in 1..Len(path) - 1 : parents[path[i + 1]] = path[i]

\* The walk can go no further up.
AtTheTop(parents, path) == parents[path[1]] \notin DOMAIN parents \ Range(path)

\* A turn of the loop keeps a path into g a path, or stays at its top for good.
LEMMA OneStepUp ==
  ASSUME NEW parents, DOMAIN parents \subseteq Groups, NEW g,
         NEW path, PathInto(parents, g, path)
  PROVE  /\ PathInto(parents, g, WalkUp(parents, path))
         /\ \/ Len(WalkUp(parents, path)) = Len(path) + 1
            \/ AtTheTop(parents, path) /\ WalkUp(parents, path) = path
<1> DEFINE up == parents[path[1]]
           longer == <<up>> \o path
<1>1. path \in Seq(Groups) /\ Len(path) \in Nat \ {0} /\ Head(path) = path[1]
  BY DEF PathInto
<1>2. CASE up \in DOMAIN parents /\ up \notin Range(path)
  <2>1. WalkUp(parents, path) = longer
    BY <1>1, <1>2 DEF WalkUp
  <2>2. <<up>> \in Seq(Groups) /\ Len(<<up>>) = 1 /\ <<up>>[1] = up
    BY <1>2
  <2>3. /\ longer \in Seq(Groups)
        /\ Len(longer) = Len(path) + 1
        /\ \A i \in 1..Len(path) + 1 : longer[i] = IF i = 1 THEN up ELSE path[i - 1]
    <3>1. /\ longer \in Seq(Groups)
          /\ Len(longer) = 1 + Len(path)
          /\ \A i \in 1..1 + Len(path) :
                longer[i] = IF i <= 1 THEN <<up>>[i] ELSE path[i - 1]
      BY <1>1, <2>2, ConcatProperties
    <3> HIDE DEF longer, up
    <3> QED BY <1>1, <2>2, <3>1
  <2>4. \A i \in 1..Len(path) : path[i] \in Range(path)
    BY <1>1 DEF Range
  <2> HIDE DEF longer
  <2>5. longer # <<>> /\ longer[Len(longer)] = g
    <3>1. longer[Len(path) + 1] = path[(Len(path) + 1) - 1]
      BY <1>1, <2>3
    <3>2. longer[Len(longer)] = path[Len(path)]
      BY <1>1, <2>3, <3>1
    <3>3. longer # <<>>
      <4> SUFFICES ASSUME longer = <<>> PROVE FALSE
        OBVIOUS
      <4>1. Len(longer) = 0
        BY Zenon, EmptySeq, Len(<<>>) = 0
      <4> QED BY <1>1, <2>3, <4>1
    <3> QED BY <3>2, <3>3 DEF PathInto
  <2>6. \A i \in 1..Len(longer) : longer[i] \in DOMAIN parents
    <3>1. ASSUME NEW i \in 1..Len(longer), i # 1 PROVE longer[i] \in DOMAIN parents
      <4>1. longer[i] = path[i - 1] /\ i - 1 \in 1..Len(path)
        BY <1>1, <2>3, <3>1
      <4> QED BY <4>1 DEF PathInto
    <3> QED BY <1>1, <1>2, <2>3, <3>1
  <2>7. ASSUME NEW i \in 1..Len(longer), NEW j \in 1..Len(longer), longer[i] = longer[j]
        PROVE  i = j
    <3>1. CASE i = 1 /\ j # 1
      <4>1. longer[i] = up /\ longer[j] = path[j - 1] /\ j - 1 \in 1..Len(path)
        BY <1>1, <2>3, <3>1
      <4> QED BY <1>2, <2>4, <2>7, <4>1
    <3>2. CASE j = 1 /\ i # 1
      <4>1. longer[j] = up /\ longer[i] = path[i - 1] /\ i - 1 \in 1..Len(path)
        BY <1>1, <2>3, <3>2
      <4> QED BY <1>2, <2>4, <2>7, <4>1
    <3>3. CASE i # 1 /\ j # 1
      <4>1. /\ i - 1 \in 1..Len(path) /\ longer[i] = path[i - 1]
            /\ j - 1 \in 1..Len(path) /\ longer[j] = path[j - 1]
        BY <1>1, <2>3, <3>3
      <4>2. i - 1 = j - 1
        BY <2>7, <4>1, Zenon DEF PathInto
      <4> QED BY <1>1, <2>3, <4>2
    <3> QED BY <3>1, <3>2, <3>3
  <2>8. ASSUME NEW i \in 1..Len(longer) - 1
        PROVE  parents[longer[i + 1]] = longer[i]
    <3>1. CASE i = 1
      BY <1>1, <2>3, <3>1
    <3>2. CASE i # 1
      <4>1. i - 1 \in 1..Len(path) - 1 /\ longer[i] = path[i - 1] /\ longer[i + 1] = path[i]
        BY <1>1, <2>3, <3>2
      <4>2. parents[path[(i - 1) + 1]] = path[i - 1]
        BY <4>1, Zenon DEF PathInto
      <4> QED BY <4>1, <4>2
    <3> QED BY <3>1, <3>2
  <2>9. PathInto(parents, g, longer)
    BY <2>3, <2>5, <2>6, <2>7, <2>8 DEF PathInto
  <2> QED BY <2>1, <2>3, <2>9
<1>3. CASE ~(up \in DOMAIN parents /\ up \notin Range(path))
  <2>1. WalkUp(parents, path) = path
    BY <1>1, <1>3 DEF WalkUp
  <2> QED BY <1>3, <2>1 DEF AtTheTop
<1> QED BY <1>2, <1>3

\* Where a walk has arrived after n turns: it is a path into its group, and it is n
\* groups longer unless it has reached the top.
LEMMA WalkIsAPath ==
  ASSUME NEW parents, DOMAIN parents \subseteq Groups, NEW g \in DOMAIN parents,
         NEW N \in Nat, NEW walked, Walk(parents, g, N, walked)
  PROVE  \A n \in 0..N :
            /\ PathInto(parents, g, walked[n])
            /\ Len(walked[n]) = n + 1 \/ AtTheTop(parents, walked[n])
<1> DEFINE Good(n) == /\ PathInto(parents, g, walked[n])
                      /\ Len(walked[n]) = n + 1 \/ AtTheTop(parents, walked[n])
           S == {n \in Nat : n <= N => Good(n)}
<1>1. 0 \in S
  <2>1. walked[0] = <<g>>
    BY DEF Walk
  <2>2. PathInto(parents, g, <<g>>)
    BY DEF PathInto
  <2> QED BY <2>1, <2>2
<1>2. ASSUME NEW n \in Nat, n \in S PROVE n + 1 \in S
  <2> SUFFICES ASSUME n + 1 <= N PROVE Good(n + 1)
    OBVIOUS
  <2>1. Good(n)
    BY <1>2
  <2>2. walked[n + 1] = WalkUp(parents, walked[n])
    <3>1. n + 1 \in 0..N /\ n + 1 # 0 /\ (n + 1) - 1 = n
      OBVIOUS
    <3>2. walked[n + 1] = WalkUp(parents, walked[(n + 1) - 1])
      BY <3>1, Zenon DEF Walk
    <3> QED BY <3>1, <3>2
  <2>3. /\ PathInto(parents, g, walked[n + 1])
        /\ \/ Len(walked[n + 1]) = Len(walked[n]) + 1
           \/ AtTheTop(parents, walked[n]) /\ walked[n + 1] = walked[n]
    BY <2>1, <2>2, OneStepUp
  <2>4. CASE AtTheTop(parents, walked[n])
    <3>1. walked[n + 1] = walked[n]
      <4>1. Head(walked[n]) = walked[n][1]
        BY <2>1 DEF PathInto
      <4> QED BY <2>2, <2>4, <4>1 DEF AtTheTop, WalkUp
    <3> QED BY <2>1, <2>4, <3>1
  <2>5. CASE Len(walked[n]) = n + 1
    BY <2>3, <2>5
  <2> QED BY <2>1, <2>4, <2>5
<1>3. Nat \subseteq S
  <2> HIDE DEF S
  <2> QED BY <1>1, <1>2, AllNumbers
<1> QED BY <1>3

\* What placement returns for any export, circular and broken ones included.
LEMMA PlacementIsAPath ==
  ASSUME NEW parents, DOMAIN parents \subseteq Groups, NEW g \in DOMAIN parents,
         IsFiniteSet(Groups)
  PROVE  PathInto(parents, g, placement(parents, g)) /\ AtTheTop(parents, placement(parents, g))
<1> DEFINE N == Cardinality(Groups)
           path == placement(parents, g)
<1>1. N \in Nat
  BY FS_CardinalityType
<1>2. PICK walked : Walk(parents, g, N, walked) /\ path = walked[N]
  BY PlacementWalks
<1>3. N \in 0..N
  BY <1>1
<1>4. PathInto(parents, g, path) /\ (Len(path) = N + 1 \/ AtTheTop(parents, path))
  BY <1>1, <1>2, <1>3, WalkIsAPath
<1> HIDE DEF path
<1>5. Len(path) # N + 1
  <2> SUFFICES ASSUME Len(path) = N + 1 PROVE FALSE
    OBVIOUS
  <2>1. path \in [1..N + 1 -> Groups]
    BY <1>4, LenProperties DEF PathInto
  <2>2. IsFiniteSet(1..N + 1) /\ Cardinality(1..N + 1) = N + 1
    BY <1>1, FS_Interval
  <2>3. PICK i, j \in 1..N + 1 : i # j /\ path[i] = path[j]
    BY <1>1, <2>1, <2>2, FS_PigeonHole
  <2> QED BY <1>4, <2>3 DEF PathInto
<1> QED BY <1>4, <1>5 DEF path

-----------------------------------------------------------------------------
\* What the chat does leaves the shop alone.
LEMMA ChatLeavesTheShop == ChatNext => UNCHANGED shop
BY DEF ChatNext, Tap, Type, Command, Sends, on_category_selected, on_category_up,
       on_show_products, on_sort_toggled, TurnPage, on_product_selected,
       on_result_selected, on_card_back, Counter, on_add_to_cart, on_search_typed,
       handle_catalog, handle_search, OpenCart, CloseCart, Close, Dropped, SwitchTo,
       Shows, StartsOver, shop

\* To the groups a step of the shop is an import or nothing.
LEMMA TreeSteps == [ShopNext]_shopVars => TreeNext \/ UNCHANGED treeVars
BY ChatLeavesTheShop DEF ShopNext, ImportGoods, ImportGroups, shopVars, shop, treeVars

\* Right after an import every group of the export has the row it was given, or keeps a
\* row that is newer.
ExportStands ==
    exported # None =>
        /\ exported \in Exports
        /\ \A g \in DOMAIN exported.parent :
              /\ categories[g] # None
              /\ NewerGroup(exported, g) =>
                    /\ categories[g].path = placement(exported.parent, g)
                    /\ categories[g].parent = exported.parent[g]

\* What is placed is a row of the table, so not the absence of one.
LEMMA PlacedIsARow ==
  ASSUME NEW e, DOMAIN e.parent \subseteq Groups, NEW g \in DOMAIN e.parent,
         e.batch \in Nat, e.parent[g] \in Groups \cup {None}, e.changed[g] \in Nat
  PROVE  Placed(e, g) \in GroupRow /\ Placed(e, g) # None
<1> DEFINE path == placement(e.parent, g)
<1>1. PathInto(e.parent, g, path)
  BY GroupsAssumption, PlacementIsAPath
<1>2. path \in Seq(Groups) /\ Len(path) - 1 \in Nat
  <2>1. path \in Seq(Groups) /\ path # <<>>
    BY <1>1 DEF PathInto
  <2> HIDE DEF path
  <2> QED BY <2>1
<1>3. Placed(e, g) = [parent |-> e.parent[g], path |-> path, depth |-> Len(path) - 1,
                      active |-> TRUE, batch |-> e.batch, changed |-> e.changed[g]]
  BY DEF Placed
<1> HIDE DEF path
<1>4. Placed(e, g) \in GroupRow
  BY <1>2, <1>3 DEF GroupRow
<1> QED BY <1>4, GroupsAssumption

\* The upsert leaves every group of its export so, and the steps after it keep it.
LEMMA ExportStandsStep == ExportStands /\ (TreeNext \/ UNCHANGED treeVars) => ExportStands'
<1> SUFFICES ASSUME ExportStands, TreeNext \/ UNCHANGED treeVars PROVE ExportStands'
  OBVIOUS
<1>1. CASE UNCHANGED treeVars
  BY <1>1 DEF treeVars, ExportStands, NewerGroup
<1>2. CASE finalize \/ Abandoned
  BY <1>2 DEF finalize, Abandoned, ExportStands
<1>3. ASSUME NEW e \in Exports, upsert_categories(e) PROVE ExportStands'
  <2>1. exported' = e
    BY <1>3 DEF upsert_categories
  <2>2. ASSUME NEW g \in DOMAIN e.parent
        PROVE  /\ categories'[g] # None
               /\ NewerGroup(e, g)' =>
                     /\ categories'[g].path = placement(e.parent, g)
                     /\ categories'[g].parent = e.parent[g]
    <3>1. g \in Groups /\ Placed(e, g) # None
      BY ExportsAssumption, PlacedIsARow
    <3>2. CASE NewerGroup(e, g)
      <4>1. categories'[g] = Placed(e, g)
        BY <1>3, <3>1, <3>2 DEF upsert_categories
      <4> QED BY <3>1, <4>1 DEF Placed
    <3>3. CASE ~NewerGroup(e, g)
      <4>1. categories'[g] = categories[g]
        BY <1>3, <3>1, <3>3 DEF upsert_categories
      <4> QED BY <3>3, <4>1 DEF NewerGroup
    <3> QED BY <3>2, <3>3
  <2> QED BY <2>1, <2>2 DEF ExportStands
<1> QED BY <1>1, <1>2, <1>3 DEF TreeNext

\* Whatever the shape of an export, circles and missing parents included, and for any
\* number of groups, the walk of _placements ends at the top, and the paths that
\* upsert_categories writes lead down the parents the export names.
THEOREM GroupsFollowTheExport == ShopSpec => []PlacedByTheExport
<1>1. ShopInit => ExportStands
  BY DEF ShopInit, ExportStands
<1>2. ExportStands /\ [ShopNext]_shopVars => ExportStands'
  BY TreeSteps, ExportStandsStep
<1>3. ExportStands => PlacedByTheExport
  <2> SUFFICES ASSUME ExportStands, exported # None, NEW g \in DOMAIN exported.parent,
                      NewerGroup(exported, g)
               PROVE  LET parents == exported.parent
                          path == categories[g].path
                      IN  /\ Last(path) = g /\ IsInjective(path)
                          /\ \A i \in 1..Len(path) - 1 : parents[path[i + 1]] = path[i]
                          /\ parents[path[1]] \notin DOMAIN parents \ Range(path)
    BY DEF PlacedByTheExport
  <2> DEFINE path == placement(exported.parent, g)
  <2>1. categories[g].path = path
    BY DEF ExportStands
  <2>2. exported \in Exports /\ DOMAIN exported.parent \subseteq Groups
    BY ExportsAssumption DEF ExportStands
  <2>3. PathInto(exported.parent, g, path) /\ AtTheTop(exported.parent, path)
    BY <2>2, GroupsAssumption, PlacementIsAPath
  <2> HIDE DEF path
  <2>4. DOMAIN path = 1..Len(path)
    BY <2>3 DEF PathInto
  <2> QED BY <2>1, <2>3, <2>4 DEF PathInto, AtTheTop, Last, IsInjective
<1> QED BY <1>1, <1>2, <1>3, PTL DEF ShopSpec

-----------------------------------------------------------------------------
\* There is one way down to a group: where a path passes it, the path to it lies before.
LEMMA OneWayDown ==
  ASSUME NEW parents, DOMAIN parents \subseteq Groups,
         NEW g, NEW d, NEW p, NEW q,
         PathInto(parents, g, p), parents[p[1]] = None,
         PathInto(parents, d, q), parents[q[1]] = None,
         NEW at \in 1..Len(q), q[at] = g
  PROVE  Len(p) = at /\ \A j \in 1..at : p[j] = q[j]
<1>1. /\ Len(p) \in Nat \ {0} /\ Len(q) \in Nat \ {0}
      /\ \A i \in 1..Len(p) : p[i] \in Groups
      /\ \A i \in 1..Len(q) : q[i] \in Groups
  BY DEF PathInto
<1> DEFINE S == {k \in Nat : k < Len(p) /\ k < at => p[Len(p) - k] = q[at - k]}
<1>2. 0 \in S
  BY <1>1 DEF PathInto
<1>3. ASSUME NEW k \in Nat, k \in S PROVE k + 1 \in S
  <2> SUFFICES ASSUME k + 1 < Len(p), k + 1 < at
               PROVE  p[Len(p) - (k + 1)] = q[at - (k + 1)]
    OBVIOUS
  <2> DEFINE i == Len(p) - (k + 1)
             j == at - (k + 1)
  <2>1. i \in 1..Len(p) - 1 /\ i + 1 = Len(p) - k /\ j \in 1..Len(q) - 1 /\ j + 1 = at - k
    BY <1>1
  <2>2. p[i + 1] = q[j + 1]
    BY <1>1, <1>3, <2>1
  <2>3. parents[p[i + 1]] = p[i] /\ parents[q[j + 1]] = q[j]
    BY <2>1, Zenon DEF PathInto
  <2> QED BY <2>2, <2>3
<1>4. Nat \subseteq S
  <2> HIDE DEF S
  <2> QED BY <1>2, <1>3, AllNumbers
<1>5. \A k \in Nat : k < Len(p) /\ k < at => p[Len(p) - k] = q[at - k]
  BY <1>4
<1>6. ~(Len(p) < at)
  <2> SUFFICES ASSUME Len(p) < at PROVE FALSE
    OBVIOUS
  <2> DEFINE k == Len(p) - 1
             j == at - Len(p)
  <2>1. k \in Nat /\ k < Len(p) /\ k < at /\ Len(p) - k = 1 /\ at - k = j + 1
    BY <1>1
  <2>2. j \in 1..Len(q) - 1
    BY <1>1
  <2>3. p[1] = q[j + 1]
    BY <1>5, <2>1
  <2>4. parents[q[j + 1]] = q[j] /\ q[j] \in Groups
    <3>1. parents[q[j + 1]] = q[j]
      BY <2>2, Zenon DEF PathInto
    <3> QED BY <1>1, <2>2, <3>1
  <2> QED BY <2>3, <2>4, GroupsAssumption
<1>7. ~(at < Len(p))
  <2> SUFFICES ASSUME at < Len(p) PROVE FALSE
    OBVIOUS
  <2> DEFINE k == at - 1
             i == Len(p) - at
  <2>1. k \in Nat /\ k < Len(p) /\ k < at /\ at - k = 1 /\ Len(p) - k = i + 1
    BY <1>1
  <2>2. i \in 1..Len(p) - 1
    BY <1>1
  <2>3. q[1] = p[i + 1]
    BY <1>5, <2>1
  <2>4. parents[p[i + 1]] = p[i] /\ p[i] \in Groups
    <3>1. parents[p[i + 1]] = p[i]
      BY <2>2, Zenon DEF PathInto
    <3> QED BY <1>1, <2>2, <3>1
  <2> QED BY <2>3, <2>4, GroupsAssumption
<1>8. Len(p) = at
  BY <1>1, <1>6, <1>7
<1>9. ASSUME NEW j \in 1..at PROVE p[j] = q[j]
  <2>1. at - j \in Nat /\ at - j < at /\ Len(p) - (at - j) = j /\ at - (at - j) = j
    BY <1>1, <1>8
  <2> QED BY <1>5, <1>8, <2>1
<1> QED BY <1>8, <1>9

\* A group lies below another when the other's path is the beginning of its own, which
\* is when the other is on it.
LEMMA PrefixIsPassing ==
  ASSUME NEW parents, DOMAIN parents \subseteq Groups,
         NEW g, NEW d, NEW p, NEW q,
         PathInto(parents, g, p), parents[p[1]] = None,
         PathInto(parents, d, q), parents[q[1]] = None
  PROVE  IsPrefix(p, q) <=> g \in Range(q)
<1>1. /\ p \in Seq(Groups) /\ q \in Seq(Groups)
      /\ Len(p) \in Nat \ {0} /\ Len(q) \in Nat \ {0}
      /\ p[Len(p)] = g
  BY DEF PathInto
<1>2. \A n \in 1..Len(p) : n <= Len(p)
  OBVIOUS
<1>3. ASSUME NEW n \in 1..Len(q), NEW s \in Seq(Groups), n <= Len(s)
      PROVE  /\ SubSeq(s, 1, n) \in Seq(Groups) /\ Len(SubSeq(s, 1, n)) = n
             /\ \A i \in 1..n : SubSeq(s, 1, n)[i] = s[i]
  BY <1>1, <1>3
<1>4. ASSUME IsPrefix(p, q) PROVE g \in Range(q)
  <2>1. Len(p) \in 1..Len(q) /\ SubSeq(p, 1, Len(p)) = SubSeq(q, 1, Len(p))
    BY <1>1, <1>4 DEF IsPrefix
  <2>2. p[Len(p)] = q[Len(p)]
    <3>1. SubSeq(p, 1, Len(p))[Len(p)] = p[Len(p)] /\ SubSeq(q, 1, Len(p))[Len(p)] = q[Len(p)]
      BY <1>1, <1>3, <2>1
    <3> QED BY <2>1, <3>1
  <2> QED BY <1>1, <2>1, <2>2 DEF Range
<1>5. ASSUME g \in Range(q) PROVE IsPrefix(p, q)
  <2>1. PICK at \in 1..Len(q) : q[at] = g
    BY <1>1, <1>5 DEF Range
  <2>2. Len(p) = at /\ \A j \in 1..at : p[j] = q[j]
    BY <2>1, OneWayDown
  <2>3. SubSeq(p, 1, at) = SubSeq(q, 1, at)
    <3>1. /\ SubSeq(p, 1, at) \in Seq(Groups) /\ Len(SubSeq(p, 1, at)) = at
          /\ \A i \in 1..at : SubSeq(p, 1, at)[i] = p[i]
      BY <1>1, <1>3, <2>1, <2>2
    <3>2. /\ SubSeq(q, 1, at) \in Seq(Groups) /\ Len(SubSeq(q, 1, at)) = at
          /\ \A i \in 1..at : SubSeq(q, 1, at)[i] = q[i]
      BY <1>1, <1>3, <2>1
    <3>3. \A i \in 1..at : SubSeq(p, 1, at)[i] = SubSeq(q, 1, at)[i]
      BY <2>2, <3>1, <3>2
    <3> QED BY <3>1, <3>2, <3>3, SeqEqual, Zenon
  <2> QED BY <1>1, <2>1, <2>2, <2>3 DEF IsPrefix
<1> QED BY <1>4, <1>5

-----------------------------------------------------------------------------
\* The same for Lineage: the sets it climbs through exist.
NextAbove(parents, S) == S \cup ({parents[x] : x \in S} \cap DOMAIN parents)

Climb(parents, g, N, above) ==
    above = [n \in 0..N |-> IF n = 0 THEN {g} ELSE NextAbove(parents, above[n - 1])]

\* They exist for any number of levels.
LEMMA ClimbExists ==
  ASSUME NEW parents, NEW g
  PROVE  \A N \in Nat : \E above : Climb(parents, g, N, above)
<1> DEFINE S == {N \in Nat : \E above : Climb(parents, g, N, above)}
<1>1. 0 \in S
  <2> DEFINE w == [n \in 0..0 |-> {g}]
  <2>1. Climb(parents, g, 0, w)
    BY DEF Climb
  <2> QED BY <2>1
<1>2. ASSUME NEW N \in Nat, N \in S PROVE N + 1 \in S
  <2>1. PICK w : Climb(parents, g, N, w)
    BY <1>2
  <2> DEFINE v == [n \in 0..N+1 |-> IF n = 0 THEN {g} ELSE NextAbove(parents, w[n - 1])]
  <2>2. \A n \in 0..N : v[n] = w[n]
    <3>1. ASSUME NEW n \in 0..N PROVE v[n] = w[n]
      <4>1. w[n] = IF n = 0 THEN {g} ELSE NextAbove(parents, w[n - 1])
        BY <2>1, Zenon DEF Climb
      <4>2. v[n] = IF n = 0 THEN {g} ELSE NextAbove(parents, w[n - 1])
        OBVIOUS
      <4> QED BY <4>1, <4>2, Zenon
    <3> QED BY <3>1
  <2>3. \A n \in 0..N+1 : n # 0 => n - 1 \in 0..N
    OBVIOUS
  <2>4. v = [n \in 0..N+1 |-> IF n = 0 THEN {g} ELSE NextAbove(parents, v[n - 1])]
    BY <2>2, <2>3, Zenon
  <2>5. Climb(parents, g, N + 1, v)
    BY <2>4, Zenon DEF Climb
  <2> QED BY <2>5
<1>3. Nat \subseteq S
  BY <1>1, <1>2, AllNumbers
<1> QED BY <1>3

\* What a climb has passed after each of its steps, up to the last.
Climbed(parents, g, above) ==
    /\ Lineage(parents, g) = above[Cardinality(Groups)]
    /\ above[0] = {g}
    /\ \A n \in Nat : n + 1 \in 0..Cardinality(Groups)
          => above[n + 1] = NextAbove(parents, above[n])

\* Lineage is the last of them.
LEMMA LineageClimbs ==
  ASSUME NEW parents, NEW g
  PROVE  \E above : Climbed(parents, g, above)
<1> DEFINE N == Cardinality(Groups)
           chosen == CHOOSE above : Climb(parents, g, N, above)
<1>1. N \in Nat
  BY GroupsAssumption, FS_CardinalityType
<1>2. Climb(parents, g, N, chosen)
  BY <1>1, ClimbExists
<1>3. Lineage(parents, g) = chosen[N]
  BY Zenon DEF Lineage, Climb, NextAbove
<1> HIDE DEF chosen, N
<1>4. \A n \in 0..N : chosen[n] = IF n = 0 THEN {g} ELSE NextAbove(parents, chosen[n - 1])
  BY <1>2, Zenon DEF Climb
<1>5. ASSUME NEW n \in Nat, n + 1 \in 0..N PROVE chosen[n + 1] = NextAbove(parents, chosen[n])
  <2>1. n + 1 # 0 /\ (n + 1) - 1 = n
    OBVIOUS
  <2>2. chosen[n + 1] = NextAbove(parents, chosen[(n + 1) - 1])
    BY <1>4, <1>5, <2>1, Zenon
  <2> QED BY <2>1, <2>2
<1>6. chosen[0] = {g}
  BY <1>1, <1>4
<1>7. Climbed(parents, g, chosen)
  BY <1>3, <1>5, <1>6 DEF Climbed, N
<1> QED BY <1>7

\* And stays in the export.
LEMMA LineageInDomain ==
  ASSUME NEW parents, NEW g \in DOMAIN parents
  PROVE  Lineage(parents, g) \subseteq DOMAIN parents
<1> DEFINE N == Cardinality(Groups)
<1>0. PICK above : Climbed(parents, g, above)
  BY LineageClimbs
<1>1. /\ Lineage(parents, g) = above[N]
      /\ above[0] = {g}
      /\ \A n \in Nat : n + 1 \in 0..N => above[n + 1] = NextAbove(parents, above[n])
  BY <1>0 DEF Climbed
<1>2. N \in Nat
  BY GroupsAssumption, FS_CardinalityType
<1> HIDE DEF N
<1> DEFINE S == {n \in Nat : n \in 0..N => above[n] \subseteq DOMAIN parents}
<1>3. 0 \in S
  BY <1>1
<1>4. ASSUME NEW n \in Nat, n \in S PROVE n + 1 \in S
  BY <1>1, <1>2, <1>4 DEF NextAbove
<1>5. Nat \subseteq S
  <2> HIDE DEF S
  <2> QED BY <1>3, <1>4, AllNumbers
<1> QED BY <1>1, <1>2, <1>5

\* A path visits no group twice, so it is no longer than there are groups.
LEMMA PathIsShort ==
  ASSUME NEW parents, DOMAIN parents \subseteq Groups, NEW g,
         NEW path, PathInto(parents, g, path)
  PROVE  Len(path) \in 1..Cardinality(Groups)
<1>1. path \in [1..Len(path) -> Groups] /\ Len(path) \in Nat \ {0}
  BY DEF PathInto
<1>2. IsFiniteSet(Groups) /\ Cardinality(Groups) \in Nat
  BY GroupsAssumption, FS_CardinalityType
<1>3. IsFiniteSet(1..Len(path)) /\ Cardinality(1..Len(path)) = Len(path)
  BY <1>1, FS_Interval
<1>4. ~(Cardinality(Groups) < Len(path))
  <2> SUFFICES ASSUME Cardinality(Groups) < Len(path) PROVE FALSE
    OBVIOUS
  <2>1. PICK i, j \in 1..Len(path) : i # j /\ path[i] = path[j]
    BY <1>1, <1>2, <1>3, FS_PigeonHole
  <2> QED BY <2>1 DEF PathInto
<1> QED BY <1>1, <1>2, <1>4

\* Climbing from a group passes the groups on the path to it and no other.
LEMMA LineageIsThePath ==
  ASSUME NEW parents, DOMAIN parents \subseteq Groups, NEW g,
         NEW path, PathInto(parents, g, path), AtTheTop(parents, path)
  PROVE  Lineage(parents, g) = Range(path)
<1> DEFINE N == Cardinality(Groups)
<1>0. PICK above : Climbed(parents, g, above)
  BY LineageClimbs
<1>1. /\ Lineage(parents, g) = above[N]
      /\ above[0] = {g}
      /\ \A n \in Nat : n + 1 \in 0..N => above[n + 1] = NextAbove(parents, above[n])
  BY <1>0 DEF Climbed
<1>2. N \in Nat /\ Len(path) \in 1..N
  BY PathIsShort, GroupsAssumption, FS_CardinalityType
<1> HIDE DEF N
<1>3. /\ \A i \in 1..Len(path) : path[i] \in Groups /\ path[i] \in DOMAIN parents
      /\ \A x \in Range(path) : \E i \in 1..Len(path) : x = path[i]
      /\ \A i \in 1..Len(path) : path[i] \in Range(path)
  BY DEF PathInto, Range
<1>4. \A i \in 1..Len(path) : i # 1 => parents[path[i]] = path[i - 1]
  <2> SUFFICES ASSUME NEW i \in 1..Len(path), i # 1 PROVE parents[path[i]] = path[i - 1]
    OBVIOUS
  <2>1. i - 1 \in 1..Len(path) - 1 /\ (i - 1) + 1 = i
    BY <1>2
  <2>2. parents[path[(i - 1) + 1]] = path[i - 1]
    BY <2>1, Zenon DEF PathInto
  <2> QED BY <2>1, <2>2
<1>5. \A x \in Range(path) : parents[x] \in DOMAIN parents => parents[x] \in Range(path)
  <2> SUFFICES ASSUME NEW x \in Range(path), parents[x] \in DOMAIN parents
               PROVE  parents[x] \in Range(path)
    OBVIOUS
  <2>1. PICK i \in 1..Len(path) : x = path[i]
    BY <1>3
  <2>2. CASE i = 1
    BY <2>1, <2>2 DEF AtTheTop
  <2>3. CASE i # 1
    <3>1. parents[x] = path[i - 1] /\ i - 1 \in 1..Len(path)
      BY <1>2, <1>4, <2>1, <2>3
    <3> QED BY <1>3, <3>1
  <2> QED BY <2>2, <2>3
<1>6. above[N] \subseteq Range(path)
  <2> DEFINE S == {n \in Nat : n \in 0..N => above[n] \subseteq Range(path)}
  <2>1. 0 \in S
    <3>1. g = path[Len(path)]
      BY DEF PathInto
    <3> QED BY <1>1, <1>2, <1>3, <3>1
  <2>2. ASSUME NEW n \in Nat, n \in S PROVE n + 1 \in S
    <3> SUFFICES ASSUME n + 1 \in 0..N PROVE above[n + 1] \subseteq Range(path)
      OBVIOUS
    <3>1. above[n] \subseteq Range(path)
      BY <1>2, <2>2
    <3>2. above[n + 1] = NextAbove(parents, above[n])
      BY <1>1
    <3> QED BY <1>5, <3>1, <3>2 DEF NextAbove
  <2>3. Nat \subseteq S
    <3> HIDE DEF S
    <3> QED BY <2>1, <2>2, AllNumbers
  <2> QED BY <1>2, <2>3
<1>7. Range(path) \subseteq above[N]
  <2> DEFINE S == {k \in Nat : k < Len(path) =>
                      \A n \in 0..N : k <= n => path[Len(path) - k] \in above[n]}
  <2>1. 0 \in S
    <3> DEFINE T == {n \in Nat : n \in 0..N => g \in above[n]}
    <3>1. 0 \in T
      BY <1>1
    <3>2. ASSUME NEW n \in Nat, n \in T PROVE n + 1 \in T
      BY <1>1, <1>2, <3>2 DEF NextAbove
    <3>3. Nat \subseteq T
      <4> HIDE DEF T
      <4> QED BY <3>1, <3>2, AllNumbers
    <3>4. path[Len(path) - 0] = g
      BY <1>2 DEF PathInto
    <3> QED BY <3>3, <3>4
  <2>2. ASSUME NEW k \in Nat, k \in S PROVE k + 1 \in S
    <3> SUFFICES ASSUME k + 1 < Len(path), NEW n \in 0..N, k + 1 <= n
                 PROVE  path[Len(path) - (k + 1)] \in above[n]
      OBVIOUS
    <3> DEFINE i == Len(path) - k
    <3>1. i \in 1..Len(path) /\ i # 1 /\ i - 1 = Len(path) - (k + 1) /\ i - 1 \in 1..Len(path)
      BY <1>2
    <3>2. n - 1 \in Nat /\ n - 1 \in 0..N /\ k <= n - 1 /\ (n - 1) + 1 = n
      BY <1>2
    <3>3. path[i] \in above[n - 1]
      BY <1>2, <2>2, <3>2
    <3>4. parents[path[i]] = path[i - 1] /\ path[i - 1] \in DOMAIN parents
      BY <1>3, <1>4, <3>1
    <3>5. above[(n - 1) + 1] = NextAbove(parents, above[n - 1])
      BY <1>1, <3>2
    <3> HIDE DEF i
    <3>6. path[i - 1] \in NextAbove(parents, above[n - 1])
      BY <3>3, <3>4 DEF NextAbove
    <3> QED BY <3>1, <3>2, <3>5, <3>6
  <2>3. Nat \subseteq S
    <3> HIDE DEF S
    <3> QED BY <2>1, <2>2, AllNumbers
  <2>4. ASSUME NEW i \in 1..Len(path) PROVE path[i] \in above[N]
    <3> DEFINE k == Len(path) - i
    <3>1. k \in Nat /\ k < Len(path) /\ k <= N /\ N \in 0..N /\ Len(path) - k = i
      BY <1>2
    <3> QED BY <2>3, <3>1
  <2> QED BY <1>3, <2>4
<1> QED BY <1>1, <1>6, <1>7

\* The links above a group run along the path to it, and begin at its top.
LEMMA LinksRunDownThePath ==
  ASSUME NEW parents, DOMAIN parents \subseteq Groups, NEW g,
         NEW path, PathInto(parents, g, path), AtTheTop(parents, path)
  PROVE  /\ DOMAIN LinksAbove(parents, g) = Range(path)
         /\ \A i \in 1..Len(path) : i # 1 => LinksAbove(parents, g)[path[i]] = path[i - 1]
         /\ Rooted(LinksAbove(parents, g)) <=> LinksAbove(parents, g)[path[1]] = None
<1> DEFINE links == LinksAbove(parents, g)
<1>1. links = [x \in Range(path) |-> IF parents[x] \in DOMAIN parents THEN parents[x] ELSE None]
  BY LineageIsThePath, Zenon DEF LinksAbove
<1>2. /\ Len(path) \in Nat \ {0}
      /\ \A i \in 1..Len(path) : path[i] \in Groups /\ path[i] \in DOMAIN parents
      /\ \A x \in Range(path) : \E i \in 1..Len(path) : x = path[i]
      /\ \A i \in 1..Len(path) : path[i] \in Range(path)
  BY DEF PathInto, Range
<1> HIDE DEF links
<1>3. ASSUME NEW i \in 1..Len(path), i # 1 PROVE links[path[i]] = path[i - 1]
  <2>1. i - 1 \in 1..Len(path) - 1 /\ (i - 1) + 1 = i /\ i - 1 \in 1..Len(path)
    BY <1>2, <1>3
  <2>2. parents[path[(i - 1) + 1]] = path[i - 1]
    BY <2>1, Zenon DEF PathInto
  <2>3. parents[path[i]] = path[i - 1]
    BY <2>1, <2>2
  <2> QED BY <1>1, <1>2, <2>1, <2>3
<1>4. DOMAIN links = Range(path)
  BY <1>1
<1>5. ASSUME Rooted(links) PROVE links[path[1]] = None
  <2>1. PICK x \in Range(path) : links[x] = None
    BY <1>4, <1>5 DEF Rooted
  <2>2. PICK i \in 1..Len(path) : x = path[i]
    BY <1>2
  <2>3. i = 1
    <3> SUFFICES ASSUME i # 1 PROVE FALSE
      OBVIOUS
    <3>1. links[x] = path[i - 1] /\ i - 1 \in 1..Len(path)
      BY <1>2, <1>3, <2>2
    <3>2. path[i - 1] \in Groups
      BY <1>2, <3>1
    <3> QED BY <2>1, <3>1, <3>2, GroupsAssumption
  <2> QED BY <2>1, <2>2, <2>3
<1>6. ASSUME links[path[1]] = None PROVE Rooted(links)
  <2>1. path[1] \in Range(path)
    BY <1>2
  <2> QED BY <1>4, <1>6, <2>1 DEF Rooted
<1> QED BY <1>3, <1>4, <1>5, <1>6 DEF links

-----------------------------------------------------------------------------
\* The row of every group, hidden since or not, stands where some export placed it, and
\* its links are of that export.
PlacedBy(g, e) ==
    /\ g \in DOMAIN e.parent
    /\ "path" \in DOMAIN categories[g] /\ categories[g].path = placement(e.parent, g)
    /\ ancestry[g] = LinksAbove(e.parent, g)

Sourced == \A g \in Groups : categories[g] # None => \E e \in Exports : PlacedBy(g, e)

\* The groups the shop opens with come from its first export.
LEMMA InitSourced == ShopInit => Sourced
<1> SUFFICES ASSUME ShopInit, NEW g \in Groups, categories[g] # None
             PROVE  PlacedBy(g, FirstExport)
  BY StoreAssumption DEF Sourced
<1>1. /\ g \in DOMAIN FirstExport.parent /\ categories[g] = Placed(FirstExport, g)
      /\ ancestry[g] = LinksAbove(FirstExport.parent, g)
  BY DEF ShopInit
<1> QED BY <1>1 DEF PlacedBy, Placed

\* An upsert writes rows of its export, and hiding a row leaves its origin.
LEMMA SourcedStep == Sourced /\ (TreeNext \/ UNCHANGED treeVars) => Sourced'
<1> SUFFICES ASSUME Sourced, TreeNext \/ UNCHANGED treeVars,
                    NEW g \in Groups, categories'[g] # None
             PROVE  \E e \in Exports : PlacedBy(g, e)'
  BY DEF Sourced
<1>1. ASSUME categories[g] # None, categories'[g].path = categories[g].path,
             DOMAIN categories'[g] = DOMAIN categories[g], ancestry'[g] = ancestry[g]
      PROVE  \E e \in Exports : PlacedBy(g, e)'
  BY <1>1 DEF Sourced, PlacedBy
<1>2. ASSUME NEW e \in Exports, upsert_categories(e)
      PROVE  \E f \in Exports : PlacedBy(g, f)'
  <2>1. CASE g \in DOMAIN e.parent /\ NewerGroup(e, g)
    <3>1. categories'[g] = Placed(e, g) /\ ancestry'[g] = LinksAbove(e.parent, g)
      BY <1>2, <2>1 DEF upsert_categories
    <3>2. PlacedBy(g, e)'
      BY <2>1, <3>1 DEF PlacedBy, Placed
    <3> QED BY <3>2
  <2>2. CASE ~(g \in DOMAIN e.parent /\ NewerGroup(e, g))
    <3>1. categories'[g] = categories[g] /\ ancestry'[g] = ancestry[g]
      BY <1>2, <2>2 DEF upsert_categories
    <3> QED BY <1>1, <3>1
  <2> QED BY <2>1, <2>2
<1>3. CASE finalize
  <2>1. /\ ancestry' = ancestry
        /\ \/ categories'[g] = categories[g]
           \/ /\ categories[g] # None
              /\ categories'[g] = [categories[g] EXCEPT !.active = FALSE]
    BY <1>3 DEF finalize
  <2>2. categories[g] # None
    BY <2>1
  <2>3. "path" \in DOMAIN categories[g]
    BY <2>2 DEF Sourced, PlacedBy
  <2>4. categories'[g].path = categories[g].path /\ DOMAIN categories'[g] = DOMAIN categories[g]
    BY <2>1, <2>3, Zenon
  <2> QED BY <1>1, <2>1, <2>2, <2>4
<1>4. CASE Abandoned \/ UNCHANGED treeVars
  BY <1>1, <1>4 DEF Abandoned, treeVars
<1> QED BY <1>2, <1>3, <1>4 DEF TreeNext

\* A row with no circle above: its links are those of a path without a parent at its top.
LEMMA RowsHavePaths ==
  ASSUME Sourced, NEW g \in Groups, categories[g] # None, Rooted(ancestry[g])
  PROVE  /\ PathInto(ancestry[g], g, categories[g].path)
         /\ ancestry[g][categories[g].path[1]] = None
         /\ DOMAIN ancestry[g] = Range(categories[g].path)
         /\ ancestry[g] = [x \in DOMAIN ancestry[g] |-> ancestry[g][x]]
<1> DEFINE path == categories[g].path
           links == ancestry[g]
<1>1. PICK e \in Exports : PlacedBy(g, e)
  BY DEF Sourced
<1>2. DOMAIN e.parent \subseteq Groups /\ g \in DOMAIN e.parent
      /\ path = placement(e.parent, g) /\ links = LinksAbove(e.parent, g)
  BY <1>1, ExportsAssumption DEF PlacedBy
<1>3. PathInto(e.parent, g, path) /\ AtTheTop(e.parent, path)
  BY <1>2, GroupsAssumption, PlacementIsAPath
<1> HIDE DEF path, links
<1>4. /\ DOMAIN links = Range(path)
      /\ \A i \in 1..Len(path) : i # 1 => links[path[i]] = path[i - 1]
      /\ links[path[1]] = None
  <2>1. Rooted(links)
    BY DEF links
  <2> QED BY <1>2, <1>3, <2>1, LinksRunDownThePath
<1>5. Len(path) \in Nat \ {0} /\ \A i \in 1..Len(path) : path[i] \in Range(path)
  BY <1>3 DEF PathInto, Range
<1>6. \A i \in 1..Len(path) - 1 : links[path[i + 1]] = path[i]
  <2> TAKE i \in 1..Len(path) - 1
  <2>1. i + 1 \in 1..Len(path) /\ i + 1 # 1 /\ (i + 1) - 1 = i
    BY <1>5
  <2>2. links[path[i + 1]] = path[(i + 1) - 1]
    BY <1>4, <2>1, Zenon
  <2> QED BY <2>1, <2>2
<1>7. PathInto(links, g, path)
  BY <1>3, <1>4, <1>5, <1>6 DEF PathInto
<1>8. links = [x \in DOMAIN links |-> links[x]]
  BY <1>2 DEF LinksAbove
<1> QED BY <1>4, <1>7, <1>8 DEF path, links

\* Where one path is the beginning of another, the links above its group are those the
\* longer one has above it.
LEMMA PrefixHasItsLinks ==
  ASSUME NEW up, NEW links, DOMAIN up \subseteq Groups, DOMAIN links \subseteq Groups,
         NEW g, NEW d, NEW p, NEW q,
         up = [x \in DOMAIN up |-> up[x]], DOMAIN up = Range(p),
         PathInto(up, g, p), up[p[1]] = None,
         PathInto(links, d, q), links[q[1]] = None,
         IsPrefix(p, q)
  PROVE  g \in Range(q) /\ up = LinksAbove(links, g)
<1>1. /\ p \in Seq(Groups) /\ q \in Seq(Groups)
      /\ Len(p) \in Nat \ {0} /\ Len(q) \in Nat \ {0}
      /\ p[Len(p)] = g
      /\ \A i \in 1..Len(q) : q[i] \in DOMAIN links /\ q[i] \in Range(q)
  BY DEF PathInto, Range
<1>2. Len(p) <= Len(q) /\ SubSeq(p, 1, Len(p)) = SubSeq(q, 1, Len(p))
  BY <1>1 DEF IsPrefix
<1>3. ASSUME NEW n \in 1..Len(q), NEW s \in Seq(Groups), n <= Len(s)
      PROVE  \A i \in 1..n : SubSeq(s, 1, n)[i] = s[i]
  BY <1>1, <1>3
<1>4. \A i \in 1..Len(p) : p[i] = q[i] /\ i \in 1..Len(q)
  <2>1. Len(p) \in 1..Len(q) /\ Len(p) <= Len(p)
    BY <1>1, <1>2
  <2>2. \A i \in 1..Len(p) : SubSeq(p, 1, Len(p))[i] = p[i]
    BY <1>1, <1>3, <2>1
  <2>3. \A i \in 1..Len(p) : SubSeq(q, 1, Len(p))[i] = q[i]
    BY <1>1, <1>2, <1>3, <2>1
  <2>4. \A i \in 1..Len(p) : i \in 1..Len(q)
    BY <1>1, <1>2
  <2> QED BY <1>2, <2>2, <2>3, <2>4
<1>5. \A i \in 1..Len(p) - 1 : links[p[i + 1]] = p[i]
  <2> TAKE i \in 1..Len(p) - 1
  <2>1. i \in 1..Len(q) - 1 /\ i \in 1..Len(p) /\ i + 1 \in 1..Len(p)
    BY <1>1, <1>2
  <2>2. links[q[i + 1]] = q[i]
    BY <2>1, Zenon DEF PathInto
  <2>3. p[i] = q[i] /\ p[i + 1] = q[i + 1]
    BY <1>4, <2>1
  <2> QED BY <2>2, <2>3
<1>6. 1 \in 1..Len(p) /\ Len(p) \in 1..Len(p)
  BY <1>1
<1>7. links[p[1]] = None /\ None \notin DOMAIN links
  BY <1>4, <1>6, GroupsAssumption
<1>8. PathInto(links, g, p) /\ AtTheTop(links, p)
  <2>1. \A i \in 1..Len(p) : p[i] \in DOMAIN links
    BY <1>1, <1>4
  <2>2. \A i, j \in 1..Len(p) : p[i] = p[j] => i = j
    BY DEF PathInto
  <2>3. p # <<>>
    BY DEF PathInto
  <2> QED BY <1>1, <1>5, <1>7, <2>1, <2>2, <2>3 DEF PathInto, AtTheTop
<1>9. Lineage(links, g) = DOMAIN up
  BY <1>8, LineageIsThePath
<1>10. ASSUME NEW x \in DOMAIN up
       PROVE  up[x] = IF links[x] \in DOMAIN links THEN links[x] ELSE None
  <2>1. PICK i \in 1..Len(p) : x = p[i]
    BY <1>1 DEF Range
  <2>2. CASE i = 1
    BY <1>7, <2>1, <2>2
  <2>3. CASE i # 1
    <3>1. i - 1 \in 1..Len(p) - 1 /\ (i - 1) + 1 = i /\ i - 1 \in 1..Len(p)
      BY <1>1, <2>3
    <3>2. up[p[(i - 1) + 1]] = p[i - 1] /\ links[p[(i - 1) + 1]] = p[i - 1]
      BY <1>5, <3>1, Zenon DEF PathInto
    <3>3. up[x] = p[i - 1] /\ links[x] = p[i - 1] /\ p[i - 1] \in DOMAIN links
      BY <1>1, <1>4, <2>1, <3>1, <3>2
    <3> QED BY <3>3
  <2> QED BY <2>2, <2>3
<1>11. up = LinksAbove(links, g)
  BY <1>9, <1>10, Zenon DEF LinksAbove
<1>12. g \in Range(q)
  BY <1>1, <1>4, <1>6
<1> QED BY <1>11, <1>12

\* And where the links agree, the path is the beginning.
LEMMA LinksMakeThePrefix ==
  ASSUME NEW up, NEW links, DOMAIN links \subseteq Groups,
         NEW g, NEW d, NEW p, NEW q,
         PathInto(up, g, p), up[p[1]] = None, DOMAIN up = Range(p),
         PathInto(links, d, q), links[q[1]] = None, DOMAIN links = Range(q),
         g \in DOMAIN links, up = LinksAbove(links, g)
  PROVE  IsPrefix(p, q)
<1>1. /\ p \in Seq(Groups) /\ q \in Seq(Groups) /\ p # <<>>
      /\ Len(p) \in Nat \ {0} /\ Len(q) \in Nat \ {0}
      /\ p[Len(p)] = g
      /\ \A i \in 1..Len(p) : p[i] \in Range(p) /\ p[i] \in Groups
      /\ \A i, j \in 1..Len(p) : p[i] = p[j] => i = j
      /\ \A i \in 1..Len(p) - 1 : up[p[i + 1]] = p[i]
  BY DEF PathInto, Range
<1>2. \A x \in DOMAIN links : links[x] \in DOMAIN links \/ links[x] = None
  <2> SUFFICES ASSUME NEW x \in Range(q), x # q[1] PROVE links[x] \in Range(q)
    OBVIOUS
  <2>1. PICK i \in 1..Len(q) : x = q[i]
    BY <1>1 DEF Range
  <2>2. i - 1 \in 1..Len(q) - 1 /\ (i - 1) + 1 = i /\ i - 1 \in 1..Len(q)
    BY <1>1, <2>1
  <2>3. links[q[(i - 1) + 1]] = q[i - 1]
    BY <2>2, Zenon DEF PathInto
  <2>4. q[i - 1] \in Range(q)
    BY <2>2, <1>1 DEF Range
  <2> QED BY <2>1, <2>2, <2>3, <2>4
<1>3. Range(p) \subseteq DOMAIN links
  <2>1. Lineage(links, g) = Range(p)
    BY DEF LinksAbove
  <2> QED BY <2>1, LineageInDomain
<1>4. \A x \in Range(p) : up[x] = links[x]
  BY <1>2, <1>3 DEF LinksAbove
<1>5. PathInto(links, g, p)
  <2>1. \A i \in 1..Len(p) : p[i] \in DOMAIN links
    BY <1>1, <1>3
  <2>2. \A i \in 1..Len(p) - 1 : links[p[i + 1]] = p[i]
    BY <1>1, <1>4
  <2> QED BY <1>1, <2>1, <2>2 DEF PathInto
<1>6. links[p[1]] = None
  BY <1>1, <1>4
<1> QED BY <1>5, <1>6, PrefixIsPassing

\* What in_subtree_of selects by the path of a group is the groups that were below it when
\* they were placed, under the groups it still has above it, for any number of groups,
\* any exports, circular and broken ones included, and any that broke off.
THEOREM ListingFollowsThePlacing == ShopSpec => []ListedWhereLastPlaced
<1>1. ShopInit => Sourced
  BY InitSourced
<1>2. Sourced /\ [ShopNext]_shopVars => Sourced'
  BY TreeSteps, SourcedStep
<1>3. Sourced => ListedWhereLastPlaced
  <2> SUFFICES ASSUME Sourced, NEW g \in Groups, NEW d \in Groups,
                      categories[g] # None, Rooted(ancestry[g]),
                      categories[d] # None, Rooted(ancestry[d])
               PROVE  d \in in_subtree_of(categories[g].path)
                        <=> g \in DOMAIN ancestry[d] /\ ancestry[g] = LinksAbove(ancestry[d], g)
    BY DEF ListedWhereLastPlaced
  <2> DEFINE up == ancestry[g]
             links == ancestry[d]
             p == categories[g].path
             q == categories[d].path
  <2>1. /\ PathInto(up, g, p) /\ up[p[1]] = None /\ DOMAIN up = Range(p)
        /\ up = [x \in DOMAIN up |-> up[x]]
        /\ PathInto(links, d, q) /\ links[q[1]] = None /\ DOMAIN links = Range(q)
    BY RowsHavePaths
  <2>2. d \in in_subtree_of(p) <=> IsPrefix(p, q)
    BY DEF in_subtree_of
  <2> HIDE DEF up, links, p, q
  <2>3. DOMAIN up \subseteq Groups /\ DOMAIN links \subseteq Groups
    BY <2>1 DEF PathInto, Range
  <2>4. IsPrefix(p, q) => g \in DOMAIN links /\ up = LinksAbove(links, g)
    BY <2>1, <2>3, PrefixHasItsLinks
  <2>5. g \in DOMAIN links /\ up = LinksAbove(links, g) => IsPrefix(p, q)
    BY <2>1, <2>3, LinksMakeThePrefix
  <2> QED BY <2>2, <2>4, <2>5 DEF up, links, p, q
<1> QED BY <1>1, <1>2, <1>3, PTL DEF ShopSpec

-----------------------------------------------------------------------------
(* Pages *)

\* The page a row is on, in terms of the rows before it.
LEMMA Division ==
  ASSUME NEW k \in Nat
  PROVE  /\ k \div PageSize \in Nat
         /\ (k \div PageSize) * PageSize <= k
         /\ k < (k \div PageSize + 1) * PageSize
  BY StoreAssumption DEF StoreAssumption

\* So many whole pages are so many pages.
LEMMA WholePages ==
  ASSUME NEW n \in Nat
  PROVE  n * PageSize \in Nat /\ (n * PageSize) \div PageSize = n
  BY StoreAssumption DEF StoreAssumption

\* One page more is PageSize rows more.
LEMMA OneMorePage ==
  ASSUME NEW n \in Nat
  PROVE  (n + 1) * PageSize = n * PageSize + PageSize
  BY StoreAssumption DEF StoreAssumption

\* An order in which any two rows are comparable, one way only.
Ranks(order, rows) ==
    /\ \A x \in rows : <<x, x>> \notin order
    /\ \A x, y, z \in rows : <<x, y>> \in order /\ <<y, z>> \in order => <<x, z>> \in order
    /\ \A x, y \in rows : x # y => <<x, y>> \in order \/ <<y, x>> \in order

\* The rows before a row.
Before(rows, order, x) == {y \in rows : <<y, x>> \in order}

\* In such an order every place from the first to the last is taken by some row.
LEMMA EveryPlaceIsTaken ==
  ASSUME NEW rows, IsFiniteSet(rows), NEW order, Ranks(order, rows),
         NEW k \in Nat, k < Cardinality(rows)
  PROVE  \E x \in rows : Cardinality(Before(rows, order, x)) = k
<1> DEFINE N == Cardinality(rows)
           place == [x \in rows |-> Cardinality(Before(rows, order, x))]
<1>1. N \in Nat
  BY FS_CardinalityType
<1>2. ASSUME NEW x \in rows
      PROVE  /\ IsFiniteSet(Before(rows, order, x))
             /\ Cardinality(Before(rows, order, x)) \in 0..N - 1
  <2> DEFINE B == Before(rows, order, x)
  <2>1. B \in SUBSET rows /\ x \notin B
    BY DEF Before, Ranks
  <2>2. IsFiniteSet(B) /\ Cardinality(B) <= N /\ (N = Cardinality(B) => rows = B)
    BY <2>1, FS_Subset
  <2>3. Cardinality(B) \in Nat
    BY <2>2, FS_CardinalityType
  <2>4. Cardinality(B) # N
    BY <2>1, <2>2
  <2> HIDE DEF B
  <2>5. IsFiniteSet(B) /\ Cardinality(B) \in 0..N - 1
    BY <1>1, <2>2, <2>3, <2>4
  <2> QED BY <2>5 DEF B
<1>3. ASSUME NEW x \in rows, NEW y \in rows, <<x, y>> \in order
      PROVE  Cardinality(Before(rows, order, x)) < Cardinality(Before(rows, order, y))
  <2> DEFINE A == Before(rows, order, x)   B == Before(rows, order, y)
  <2>1. A \in SUBSET B /\ x \in B /\ x \notin A
    BY <1>3 DEF Before, Ranks
  <2>2. IsFiniteSet(B) /\ Cardinality(A) \in Nat /\ Cardinality(B) \in Nat
    BY <1>1, <1>2
  <2>3. Cardinality(A) <= Cardinality(B) /\ (Cardinality(B) = Cardinality(A) => B = A)
    BY <2>1, <2>2, FS_Subset
  <2>4. A # B
    BY <2>1
  <2> HIDE DEF A, B
  <2>5. Cardinality(A) < Cardinality(B)
    BY <2>2, <2>3, <2>4
  <2> QED BY <2>5 DEF A, B
<1>4. place \in [rows -> 0..N - 1]
  BY <1>2
<1>5. ASSUME NEW x \in rows, NEW y \in rows, x # y
      PROVE  place[x] # place[y]
  <2>1. place[x] \in Nat /\ place[y] \in Nat
    BY <1>1, <1>4
  <2>2. <<x, y>> \in order \/ <<y, x>> \in order
    BY <1>5 DEF Ranks
  <2>3. place[x] < place[y] \/ place[y] < place[x]
    BY <1>3, <2>2
  <2> HIDE DEF place
  <2> QED BY <2>1, <2>3
<1>6. place \in Injection(rows, 0..N - 1)
  <2> HIDE DEF place
  <2> QED BY <1>4, <1>5 DEF Injection, IsInjective
<1>7. IsFiniteSet(0..N - 1) /\ Cardinality(0..N - 1) = N
  <2>1. 0 \in Int /\ N - 1 \in Int /\ N > 0
    BY <1>1
  <2>2. IsFiniteSet(0..N - 1) /\ Cardinality(0..N - 1) = (IF 0 > N - 1 THEN 0 ELSE (N - 1) - 0 + 1)
    BY <2>1, FS_Interval
  <2> HIDE DEF N
  <2> QED BY <1>1, <2>1, <2>2
<1>8. place \in Surjection(rows, 0..N - 1)
  <2> HIDE DEF place
  <2> QED BY <1>6, <1>7, FS_Injection
<1>9. k \in 0..N - 1
  BY <1>1
<1>10. PICK x \in rows : place[x] = k
  <2> HIDE DEF place
  <2> QED BY <1>8, <1>9 DEF Surjection
<1> QED BY <1>10

\* The rows, of which there are some, have an n-th page.
Fits(rows, n) == rows # {} => n * PageSize < Cardinality(rows)

\* PageOf finds a row exactly when there are more rows than the pages before it hold.
LEMMA PageIsThere ==
  ASSUME NEW rows, IsFiniteSet(rows), NEW order, Ranks(order, rows), NEW n \in Nat
  PROVE  PageOf(rows, order, n) # {} <=> n * PageSize < Cardinality(rows)
<1>1. Cardinality(rows) \in Nat
  BY FS_CardinalityType
<1>2. ASSUME NEW x \in PageOf(rows, order, n) PROVE n * PageSize < Cardinality(rows)
  <2> DEFINE B == Before(rows, order, x)
  <2>1. x \in rows /\ Cardinality(B) \div PageSize = n
    BY DEF PageOf, Before
  <2>2. B \in SUBSET rows /\ x \notin B
    BY <2>1 DEF Before, Ranks
  <2>3. /\ IsFiniteSet(B) /\ Cardinality(B) <= Cardinality(rows)
        /\ Cardinality(rows) = Cardinality(B) => rows = B
    BY <2>2, FS_Subset
  <2>4. Cardinality(B) \in Nat /\ Cardinality(B) # Cardinality(rows)
    BY <2>1, <2>2, <2>3, FS_CardinalityType
  <2> HIDE DEF B
  <2>5. n * PageSize <= Cardinality(B) /\ n * PageSize \in Nat
    BY <2>1, <2>4, Division, WholePages
  <2> QED BY <1>1, <2>3, <2>4, <2>5
<1>3. ASSUME n * PageSize < Cardinality(rows) PROVE PageOf(rows, order, n) # {}
  <2>1. n * PageSize \in Nat /\ (n * PageSize) \div PageSize = n
    BY WholePages
  <2>2. PICK x \in rows : Cardinality(Before(rows, order, x)) = n * PageSize
    BY <1>3, <2>1, EveryPlaceIsTaken
  <2>3. x \in PageOf(rows, order, n)
    BY <2>1, <2>2 DEF PageOf, Before
  <2> QED BY <2>3
<1> QED BY <1>2, <1>3

\* The buttons under a page that shows a row lead to pages that are there too.
LEMMA PagerFits ==
  ASSUME NEW rows, IsFiniteSet(rows), NEW n \in Nat, n * PageSize < Cardinality(rows),
         NEW prev, NEW next, NEW b \in Pager(prev, next, rows, n)
  PROVE  b.item \in Nat /\ b.item * PageSize < Cardinality(rows)
<1> DEFINE N == Cardinality(rows)
<1>1. N \in Nat
  BY FS_CardinalityType
<1>2. PageSize \in Nat \ {0}
  BY StoreAssumption DEF StoreAssumption
<1>3. n * PageSize \in Nat
  BY WholePages
<1>4. CASE n > 0 /\ b = Button(prev, n - 1)
  <2>1. b.item = n - 1 /\ n - 1 \in Nat
    BY <1>4 DEF Button
  <2>2. ((n - 1) + 1) * PageSize = (n - 1) * PageSize + PageSize /\ (n - 1) * PageSize \in Nat
    BY <2>1, OneMorePage, WholePages
  <2>3. (n - 1) + 1 = n
    OBVIOUS
  <2>4. n * PageSize = (n - 1) * PageSize + PageSize
    BY <2>2, <2>3
  <2> QED BY <1>1, <1>2, <1>3, <2>1, <2>2, <2>4
<1>5. CASE n + 1 < Pages(N) /\ b = Button(next, n + 1)
  <2> DEFINE k == N + PageSize - 1   q == k \div PageSize
  <2>1. b.item = n + 1 /\ n + 1 \in Nat /\ n + 2 \in Nat
    BY <1>5 DEF Button
  <2>2. k \in Nat /\ Pages(N) = q /\ q \in Nat /\ q * PageSize <= k
    <3>1. k \in Nat
      BY <1>1, <1>2
    <3>2. N # 0
      BY <1>1, <1>3
    <3> QED BY <3>1, <3>2, Division DEF Pages
  <2>3. n + 2 <= q
    BY <1>5, <2>2
  <2>4. (n + 2) * PageSize <= q * PageSize
    <3> HIDE DEF q
    <3> QED BY <1>2, <2>1, <2>2, <2>3
  <2>5. (n + 2) * PageSize = (n + 1) * PageSize + PageSize
    <3>1. ((n + 1) + 1) * PageSize = (n + 1) * PageSize + PageSize
      BY <2>1, OneMorePage
    <3>2. (n + 1) + 1 = n + 2
      OBVIOUS
    <3> QED BY <3>1, <3>2
  <2>6. (n + 1) * PageSize \in Nat /\ (n + 2) * PageSize \in Nat /\ q * PageSize \in Nat
    BY <2>1, <2>2, WholePages
  <2>7. (n + 1) * PageSize < N
    <3> HIDE DEF q
    <3> QED BY <1>1, <1>2, <2>2, <2>4, <2>5, <2>6
  <2> QED BY <2>1, <2>7
<1> QED BY <1>4, <1>5 DEF Pager

-----------------------------------------------------------------------------
(* The lists of the storefront *)

\* A list as the shop opens with it.
AsOpened == goods = FirstOffer

\* Products are ranked by name, and by price with the unpriced last.
LEMMA ListingRanks ==
  ASSUME AsOpened, NEW sort
  PROVE  Ranks(listing_order(sort), Products)
<1>1. \A p \in Products : p \in Nat /\ (IsPriced(p) => goods[p].amount \in Nat)
  BY StoreAssumption DEF StoreAssumption, AsOpened, IsPriced
<1>2. \A p \in Products : ~Precedes(sort, p, p)
  BY <1>1 DEF Precedes
<1>3. ASSUME NEW p \in Products, NEW q \in Products, NEW r \in Products,
             Precedes(sort, p, q), Precedes(sort, q, r)
      PROVE  Precedes(sort, p, r)
  BY <1>1, <1>3 DEF Precedes, IsPriced
<1>4. ASSUME NEW p \in Products, NEW q \in Products, p # q
      PROVE  Precedes(sort, p, q) \/ Precedes(sort, q, p)
  BY <1>1, <1>4 DEF Precedes, IsPriced
<1>5. \A p, q \in Products : <<p, q>> \in listing_order(sort) <=> Precedes(sort, p, q)
  BY DEF listing_order
<1> QED BY <1>2, <1>3, <1>4, <1>5 DEF Ranks

\* And by relevance: the article first.
LEMMA SearchRanks ==
  ASSUME NEW t
  PROVE  Ranks(search_ranking(t), Products)
<1>1. \A p \in Products : p \in Nat
  BY StoreAssumption DEF StoreAssumption
<1>2. \A p \in Products : ~Outranks(t, p, p)
  BY <1>1 DEF Outranks
<1>3. ASSUME NEW p \in Products, NEW q \in Products, NEW r \in Products,
             Outranks(t, p, q), Outranks(t, q, r)
      PROVE  Outranks(t, p, r)
  BY <1>1, <1>3 DEF Outranks
<1>4. ASSUME NEW p \in Products, NEW q \in Products, p # q
      PROVE  Outranks(t, p, q) \/ Outranks(t, q, p)
  BY <1>1, <1>4 DEF Outranks
<1>5. \A p, q \in Products : <<p, q>> \in search_ranking(t) <=> Outranks(t, p, q)
  BY DEF search_ranking
<1> QED BY <1>2, <1>3, <1>4, <1>5 DEF Ranks

\* Every list is a finite set of products, and its order ranks them.
LEMMA ListIsRanked ==
  ASSUME AsOpened, NEW l \in Lists, NEW about, NEW d
  PROVE  IsFiniteSet(Rows(l, about)) /\ Ranks(Order(d, l), Rows(l, about))
<1>1. Rows(l, about) \in SUBSET Products
  BY DEF Rows, ListProducts, read_products, search_products
<1>2. IsFiniteSet(Rows(l, about))
  BY <1>1, StoreAssumption, FS_Subset DEF StoreAssumption
<1>3. Ranks(Order(d, l), Products)
  BY ListingRanks, SearchRanks DEF Order
<1> QED BY <1>1, <1>2, <1>3 DEF Ranks

-----------------------------------------------------------------------------
(* The dialog *)

Windows == {"categories", "products", "card", "description", "search", "results", "closed"}

\* A dialog has the fields of one, whatever they hold but where it is.
IsDialog(d) ==
    /\ d \in [window : {d.window}, covered : {d.covered}, path : {d.path}, level : {d.level},
              product : {d.product}, name : {d.name}, term : {d.term}, sort : {d.sort},
              origin : {d.origin}, page : {d.page}, counter : {d.counter}]
    /\ d.window \in Windows /\ d.covered \in BOOLEAN
    /\ d.origin \in Lists \cup {None} /\ d.page \in [Lists -> Nat]

\* Whoever looks at a card has its product named in the dialog.
Named(d) == d.window = "card" => d.name = d.product

\* A dialog just opened is one, with every list on its first page.
LEMMA OpenIsDialog ==
  ASSUME NEW w \in Windows, NEW t, NEW p
  PROVE  IsDialog(Open(w, t, p)) /\ \A l \in Lists : Open(w, t, p).page[l] = 0
  BY DEF IsDialog, Open, Lists

\* Drawing names the product of a card and moves nothing else.
LEMMA DrawnNames ==
  ASSUME NEW d, IsDialog(d)
  PROVE  /\ IsDialog(Drawn(d)) /\ Named(Drawn(d))
         /\ Drawn(d).window = d.window /\ Drawn(d).path = d.path /\ Drawn(d).term = d.term
         /\ Drawn(d).page = d.page
<1>1. CASE d.window = "card"
  BY <1>1 DEF Drawn, card_getter, Named, IsDialog
<1>2. CASE d.window = "categories"
  BY <1>2 DEF Drawn, categories_getter, Named, IsDialog
<1>3. CASE d.window \notin {"card", "categories"}
  BY <1>3 DEF Drawn, Named
<1> QED BY <1>1, <1>2, <1>3

\* A button that turns a page names one.
TurnTyped(b) == \A l \in Lists : b.id \in Turns(l) => b.item \in Nat

AllTurns == Turns("products") \cup Turns("results")

\* What a drawn list offers to turn is a page it has.
DrawnFit(s, d) ==
    \A l \in Lists : d.window = l =>
        \A b, r \in s : b.id \in Turns(l) /\ r.id \in {"product_select", "result_select"}
                            => Fits(Rows(l, About(d, l)), b.item)

\* A button that turns a page carries a number.
LEMMA ButtonsTyped ==
  ASSUME NEW d, IsDialog(d), NEW b \in Buttons(d)
  PROVE  TurnTyped(b)
<1>1. d.page["products"] \in Nat /\ d.page["results"] \in Nat
  BY DEF IsDialog, Lists
<1>2. SUFFICES ASSUME b.id \in AllTurns PROVE b.item \in Nat
  BY DEF TurnTyped, Lists, AllTurns
<1>3. d.covered = FALSE
  BY <1>2 DEF Buttons, CartWindow, Plain, Button, AllTurns, Turns, IsDialog
<1>4. CASE d.window = "products"
  BY <1>1, <1>2, <1>3, <1>4 DEF Buttons, ProductsWindow, products_getter, ListButtons, Pager, Plain,
     Button, AllTurns, Turns
<1>5. CASE d.window = "results"
  BY <1>1, <1>2, <1>3, <1>5 DEF Buttons, ResultsWindow, search_results_getter, ListButtons, Pager,
     Plain, Button, AllTurns, Turns
<1>6. CASE d.window = "categories"
  BY <1>2, <1>3, <1>6 DEF Buttons, CategoriesWindow, Plain, Button, AllTurns, Turns
<1>7. CASE d.window = "card"
  BY <1>2, <1>3, <1>7 DEF Buttons, CardWindow, Plain, Button, AllTurns, Turns
<1>8. CASE d.window \in {"description", "search", "closed"}
  BY <1>2, <1>3, <1>8 DEF Buttons, Plain, Button, AllTurns, Turns
<1> QED BY <1>4, <1>5, <1>6, <1>7, <1>8 DEF IsDialog, Windows

\* The buttons under a list that shows a row lead to pages the list has.
LEMMA ButtonsFit ==
  ASSUME AsOpened, NEW d, IsDialog(d)
  PROVE  DrawnFit(Buttons(d), d)
<1>0. SUFFICES ASSUME NEW l \in Lists, d.window = l, NEW b \in Buttons(d), NEW r \in Buttons(d),
                      b.id \in Turns(l), r.id \in {"product_select", "result_select"},
                      Rows(l, About(d, l)) # {}
               PROVE  b.item * PageSize < Cardinality(Rows(l, About(d, l)))
  BY DEF DrawnFit, Fits
<1>1. d.page["products"] \in Nat /\ d.page["results"] \in Nat
  BY DEF IsDialog, Lists
<1>2. d.covered = FALSE
  BY <1>0 DEF Buttons, CartWindow, Plain, Button, Turns, IsDialog
<1>3. CASE l = "products"
  <2> DEFINE rows == ListProducts(d.path)
  <2>1. Rows(l, About(d, l)) = rows /\ Order(d, l) = listing_order(d.sort)
    BY <1>3 DEF Rows, About, Order
  <2>2. IsFiniteSet(rows) /\ Ranks(listing_order(d.sort), rows)
    BY <2>1, ListIsRanked
  <2>3. b \in Pager("products_prev", "products_next", rows, d.page.products)
    BY <1>0, <1>2, <1>3 DEF Buttons, ProductsWindow, products_getter, ListButtons, Plain, Button, Turns
  <2>4. PageOf(rows, listing_order(d.sort), d.page.products) # {}
    BY <1>0, <1>2, <1>3 DEF Buttons, ProductsWindow, products_getter, ListButtons, Pager, Plain, Button
  <2>5. d.page.products * PageSize < Cardinality(rows)
    BY <1>1, <2>2, <2>4, PageIsThere
  <2> HIDE DEF rows
  <2> QED BY <1>1, <2>1, <2>2, <2>3, <2>5, PagerFits
<1>4. CASE l = "results"
  <2> DEFINE rows == search_products(d.term)
  <2>1. Rows(l, About(d, l)) = rows /\ Order(d, l) = search_ranking(d.term)
    BY <1>0, <1>4 DEF Rows, About, Order
  <2>2. IsFiniteSet(rows) /\ Ranks(search_ranking(d.term), rows)
    BY <2>1, ListIsRanked
  <2>3. b \in Pager("results_prev", "results_next", rows, d.page.results)
    BY <1>0, <1>2, <1>4 DEF Buttons, ResultsWindow, search_results_getter, ListButtons, Plain, Button,
       Turns
  <2>4. PageOf(rows, search_ranking(d.term), d.page.results) # {}
    BY <1>0, <1>2, <1>4 DEF Buttons, ResultsWindow, search_results_getter, ListButtons, Pager, Plain,
       Button
  <2>5. d.page.results * PageSize < Cardinality(rows)
    BY <1>1, <2>2, <2>4, PageIsThere
  <2> HIDE DEF rows
  <2> QED BY <1>1, <2>1, <2>2, <2>3, <2>5, PagerFits
<1> QED BY <1>3, <1>4 DEF Lists

-----------------------------------------------------------------------------
(* What a handler does to the dialog *)

IsSequence(s) == \E S : s \in Seq(S)

\* What is left of the updates when the first is taken.
LEMMA TailOfQueue ==
  ASSUME NEW q, IsSequence(q), q # <<>>
  PROVE  /\ IsSequence(Tail(q))
         /\ Len(q) \in Nat /\ Len(Tail(q)) \in Nat /\ 1 \in 1..Len(q) /\ Head(q) = q[1]
         /\ \A i \in 1..Len(Tail(q)) : i + 1 \in 1..Len(q) /\ Tail(q)[i] = q[i + 1]
<1>1. PICK S : q \in Seq(S)
  BY DEF IsSequence
<1>2. Tail(q) \in Seq(S)
  BY <1>1
<1> QED
  BY <1>1, <1>2 DEF IsSequence

\* An update turns the list it was sent from to a page that list has.
UpdateFits(u) ==
    \A l \in Lists : u.id \in Turns(l) => \A about \in u.listed : Fits(Rows(l, about), u.item)

ChatOK ==
    /\ IsDialog(dialog) /\ Named(dialog)
    /\ IsSequence(queue)
    /\ \A b \in screen : TurnTyped(b)
    /\ \A i \in 1..Len(queue) : TurnTyped(queue[i])

TurnsOK ==
    ~imported =>
        /\ AsOpened
        /\ DrawnFit(screen, dialog)
        /\ \A i \in 1..Len(queue) : UpdateFits(queue[i])

\* What becomes of the page of a list: the first one, the same of the same list, or the
\* one the update asks for.
PageStep(l, d) ==
    \/ d.page[l] = 0
    \/ About(d, l) = About(dialog, l) /\ d.page[l] = dialog.page[l]
    \/ About(d, l) = About(dialog, l) /\ update.id \in Turns(l) /\ d.page[l] = update.item

\* The handler leaves the dialog at d, drawn.
Leaves(d) ==
    /\ IsDialog(d) /\ \A l \in Lists : PageStep(l, d)
    /\ dialog' = Drawn(d) /\ screen' = Buttons(Drawn(d))

\* Another window: no list moves.
LEMMA SwitchLeaves ==
  ASSUME IsDialog(dialog), NEW id, NEW w \in Windows, SwitchTo(id, w)
  PROVE  \E d : Leaves(d)
<1> DEFINE d == [dialog EXCEPT !.window = w]
<1>1. IsDialog(d) /\ d.page = dialog.page /\ d.path = dialog.path /\ d.term = dialog.term
  BY DEF IsDialog
<1>2. dialog' = Drawn(d) /\ screen' = Buttons(Drawn(d))
  BY DEF SwitchTo, Shows
<1> HIDE DEF d
<1>3. Leaves(d)
  BY <1>1, <1>2 DEF Leaves, PageStep, About
<1> QED BY <1>3

\* reset_paging sends one list to its first page and leaves the rest.
LEMMA ResetPaging ==
  ASSUME NEW d, IsDialog(d), NEW l \in Lists
  PROVE  /\ IsDialog(reset_paging(d, l)) /\ reset_paging(d, l).page[l] = 0
         /\ \A m \in Lists \ {l} : reset_paging(d, l).page[m] = d.page[m]
         /\ reset_paging(d, l).path = d.path /\ reset_paging(d, l).term = d.term
<1> DEFINE r == reset_paging(d, l)
<1>1. r.page = [d.page EXCEPT ![l] = 0] /\ r.path = d.path /\ r.term = d.term
  BY DEF IsDialog, reset_paging
<1>2. IsDialog(r)
  BY <1>1 DEF IsDialog, reset_paging
<1> HIDE DEF r
<1>3. /\ IsDialog(r) /\ r.page[l] = 0 /\ \A m \in Lists \ {l} : r.page[m] = d.page[m]
      /\ r.path = d.path /\ r.term = d.term
  BY <1>1, <1>2 DEF IsDialog
<1> QED BY <1>3 DEF r

\* The list under the open group, its group or its order changed, starts over.
LEMMA ProductsStartOver ==
  ASSUME IsDialog(dialog), NEW d, IsDialog(d), d.page = dialog.page, d.term = dialog.term,
         Shows(reset_paging(d, "products"))
  PROVE  \E e : Leaves(e)
<1> DEFINE e == reset_paging(d, "products")
<1>1. /\ IsDialog(e) /\ e.page["products"] = 0 /\ e.page["results"] = dialog.page["results"]
      /\ e.term = dialog.term
  BY ResetPaging DEF Lists
<1>2. dialog' = Drawn(e) /\ screen' = Buttons(Drawn(e))
  BY DEF Shows
<1> HIDE DEF e
<1>3. Leaves(e)
  BY <1>1, <1>2 DEF Leaves, PageStep, About, Lists
<1> QED BY <1>3

\* Nor does a change of anything else turn a page.
LEMMA ListsStay ==
  ASSUME NEW d, IsDialog(d), d.page = dialog.page, d.path = dialog.path, d.term = dialog.term,
         Shows(d)
  PROVE  \E e : Leaves(e)
<1>1. Leaves(d)
  BY DEF Leaves, PageStep, About, Shows
<1> QED BY <1>1

\* A dialog started anew.
LEMMA StartLeaves ==
  ASSUME NEW w \in Windows, NEW t, NEW p, StartsOver(Open(w, t, p))
  PROVE  \E d : Leaves(d)
<1> DEFINE d == Open(w, t, p)
<1>1. Leaves(d)
  BY OpenIsDialog DEF Leaves, PageStep, StartsOver
<1> QED BY <1>1

\* Opening a card moves no list.
LEMMA OpenCardKeeps ==
  ASSUME NEW d, IsDialog(d), NEW p, NEW origin \in Lists
  PROVE  /\ IsDialog(open_card(d, p, origin)) /\ open_card(d, p, origin).page = d.page
         /\ open_card(d, p, origin).path = d.path /\ open_card(d, p, origin).term = d.term
  BY DEF IsDialog, open_card, Windows

\* A dialog taken away.
LEMMA ClosedLeaves ==
  ASSUME dialog' = Closed, screen' = {}
  PROVE  \E d : Leaves(d)
<1>1. Closed = Open("closed", None, None) /\ "closed" \in Windows
  BY DEF Closed, Windows
<1>2. IsDialog(Closed) /\ \A l \in Lists : Closed.page[l] = 0
  BY <1>1, OpenIsDialog
<1>3. Closed.window = "closed" /\ Closed.covered = FALSE
  BY DEF Closed, Open
<1>4. Drawn(Closed) = Closed /\ Buttons(Closed) = {}
  BY <1>3 DEF Drawn, Buttons
<1>5. Leaves(Closed)
  BY <1>2, <1>4 DEF Leaves, PageStep
<1> QED BY <1>5

Sending == Tap \/ Type \/ Command

\* Every other step of the chat leaves the dialog at some d or as it is.
LEMMA HandlersLeave ==
  ASSUME ChatOK, ChatNext, ~Sending
  PROVE  (\E d : Leaves(d)) \/ UNCHANGED <<dialog, screen>>
<1>0. IsDialog(dialog) /\ dialog.window \in Windows
  BY DEF ChatOK, IsDialog
<1>1. CASE on_category_selected
  <2> DEFINE d == [dialog EXCEPT !.path = WalkedInto(@, update.item, dialog.level)]
  <2>1. IsDialog(d) /\ d.page = dialog.page /\ d.term = dialog.term
    BY <1>0 DEF IsDialog
  <2>2. Shows(reset_paging(d, "products"))
    BY <1>1 DEF on_category_selected
  <2> HIDE DEF d
  <2> QED BY <1>0, <2>1, <2>2, ProductsStartOver
<1>2. CASE on_category_up
  <2> DEFINE d == [dialog EXCEPT !.path = IF @ = <<>> THEN @ ELSE Front(@)]
  <2>1. IsDialog(d) /\ d.page = dialog.page /\ d.term = dialog.term
    BY <1>0 DEF IsDialog
  <2>2. Shows(reset_paging(d, "products"))
    BY <1>2 DEF on_category_up
  <2> HIDE DEF d
  <2> QED BY <1>0, <2>1, <2>2, ProductsStartOver
<1>3. CASE on_show_products
  <2> DEFINE d == [dialog EXCEPT !.window = "products"]
  <2>1. IsDialog(d) /\ d.page = dialog.page /\ d.term = dialog.term
    BY <1>0 DEF IsDialog, Windows
  <2>2. Shows(reset_paging(d, "products"))
    BY <1>3 DEF on_show_products
  <2> HIDE DEF d
  <2> QED BY <1>0, <2>1, <2>2, ProductsStartOver
<1>4. CASE on_sort_toggled
  <2> DEFINE d == [dialog EXCEPT !.sort = IF @ = "name" THEN "price" ELSE "name"]
  <2>1. IsDialog(d) /\ d.page = dialog.page /\ d.term = dialog.term
    BY <1>0 DEF IsDialog
  <2>2. Shows(reset_paging(d, "products"))
    BY <1>4 DEF on_sort_toggled
  <2> HIDE DEF d
  <2> QED BY <1>0, <2>1, <2>2, ProductsStartOver
<1>5. CASE TurnPage
  <2>1. PICK l \in Lists : \E id \in Turns(l) :
              Tapped(id) /\ Shows([dialog EXCEPT !.page[l] = update.item])
    BY <1>5 DEF TurnPage
  <2> DEFINE d == [dialog EXCEPT !.page[l] = update.item]
  <2>2. queue # <<>> /\ update.id \in Turns(l) /\ Shows(d)
    BY <2>1 DEF Tapped
  <2>3. update.item \in Nat
    <3>1. 1 \in 1..Len(queue) /\ update = queue[1]
      BY <2>2, TailOfQueue DEF ChatOK, update
    <3> QED BY <2>2, <3>1 DEF ChatOK, TurnTyped
  <2>4. d.page = [dialog.page EXCEPT ![l] = update.item] /\ d.path = dialog.path /\ d.term = dialog.term
    BY <1>0 DEF IsDialog
  <2>5. IsDialog(d)
    BY <1>0, <2>3, <2>4 DEF IsDialog
  <2>6. dialog' = Drawn(d) /\ screen' = Buttons(Drawn(d))
    BY <2>2 DEF Shows
  <2> HIDE DEF d
  <2>7. d.page[l] = update.item /\ \A m \in Lists \ {l} : d.page[m] = dialog.page[m]
    BY <1>0, <2>4 DEF IsDialog
  <2>8. Leaves(d)
    BY <2>2, <2>4, <2>5, <2>6, <2>7 DEF Leaves, PageStep, About
  <2> QED BY <2>8
<1>6. CASE on_product_selected
  <2> DEFINE d == open_card(dialog, update.item, "products")
  <2>1. /\ IsDialog(d) /\ d.page = dialog.page /\ d.path = dialog.path /\ d.term = dialog.term
        /\ Shows(d)
    BY <1>0, <1>6, OpenCardKeeps DEF on_product_selected, Lists
  <2> HIDE DEF d
  <2> QED BY <2>1, ListsStay
<1>7. CASE on_result_selected
  <2> DEFINE d == open_card(dialog, update.item, "results")
  <2>1. /\ IsDialog(d) /\ d.page = dialog.page /\ d.path = dialog.path /\ d.term = dialog.term
        /\ Shows(d)
    BY <1>0, <1>7, OpenCardKeeps DEF on_result_selected, Lists
  <2> HIDE DEF d
  <2> QED BY <2>1, ListsStay
<1>8. CASE on_card_back
  <2>1. (IF dialog.origin = None THEN "categories" ELSE dialog.origin) \in Windows
    BY <1>0 DEF IsDialog, Windows, Lists
  <2> QED BY <1>0, <1>8, <2>1, SwitchLeaves DEF on_card_back
<1>9. CASE Counter
  <2>1. CASE Shows([dialog EXCEPT !.counter = IF @ < MAX_QUANTITY THEN @ + 1 ELSE @])
    <3> DEFINE d == [dialog EXCEPT !.counter = IF @ < MAX_QUANTITY THEN @ + 1 ELSE @]
    <3>1. IsDialog(d) /\ d.page = dialog.page /\ d.path = dialog.path /\ d.term = dialog.term
      BY <1>0 DEF IsDialog
    <3>2. Shows(d)
      BY <2>1
    <3> HIDE DEF d
    <3> QED BY <3>1, <3>2, ListsStay
  <2>2. CASE Shows([dialog EXCEPT !.counter = IF @ > 1 THEN @ - 1 ELSE @])
    <3> DEFINE d == [dialog EXCEPT !.counter = IF @ > 1 THEN @ - 1 ELSE @]
    <3>1. IsDialog(d) /\ d.page = dialog.page /\ d.path = dialog.path /\ d.term = dialog.term
      BY <1>0 DEF IsDialog
    <3>2. Shows(d)
      BY <2>2
    <3> HIDE DEF d
    <3> QED BY <3>1, <3>2, ListsStay
  <2> QED BY <1>9, <2>1, <2>2 DEF Counter
<1>10. CASE on_add_to_cart
  <2>1. CASE Shows([dialog EXCEPT !.counter = 1])
    <3> DEFINE d == [dialog EXCEPT !.counter = 1]
    <3>1. IsDialog(d) /\ d.page = dialog.page /\ d.path = dialog.path /\ d.term = dialog.term
      BY <1>0 DEF IsDialog
    <3>2. Shows(d)
      BY <2>1
    <3> HIDE DEF d
    <3> QED BY <3>1, <3>2, ListsStay
  <2> QED BY <1>10, <2>1 DEF on_add_to_cart
<1>11. CASE on_search_typed
  <2> DEFINE t == update.item
             s == [dialog EXCEPT !.term = t]
             d == Searched(dialog, t)
             p == exact_match_product_id(t)
             c == [d EXCEPT !.window = "results"]
             o == open_card(d, p, "results")
  <2>1. IsDialog(s) /\ s.page = dialog.page /\ s.path = dialog.path
    BY <1>0 DEF IsDialog
  <2>2. /\ IsDialog(d) /\ d.page["results"] = 0 /\ d.page["products"] = dialog.page["products"]
        /\ d.path = dialog.path
    <3>1. d = reset_paging(s, "results")
      BY DEF Searched
    <3> HIDE DEF s, d
    <3> QED BY <2>1, <3>1, ResetPaging DEF Lists
  <2>3. Shows(IF p = None THEN c ELSE o)
    BY <1>11 DEF on_search_typed
  <2> HIDE DEF s, d
  <2>4. ASSUME NEW e, IsDialog(e), e.page = d.page, e.path = d.path, Shows(e) PROVE Leaves(e)
    BY <2>2, <2>4 DEF Leaves, PageStep, About, Shows, Lists
  <2>5. IsDialog(c) /\ c.page = d.page /\ c.path = d.path
    BY <2>2 DEF IsDialog, Windows
  <2>6. IsDialog(o) /\ o.page = d.page /\ o.path = d.path
    BY <2>2, OpenCardKeeps DEF Lists
  <2> HIDE DEF c, o, p
  <2> QED BY <2>3, <2>4, <2>5, <2>6
<1>12. CASE handle_catalog
  BY <1>12, StartLeaves DEF handle_catalog, Windows
<1>13. CASE handle_search
  BY <1>13, StartLeaves DEF handle_search, Windows
<1>14. CASE OpenCart
  <2> DEFINE d == [dialog EXCEPT !.covered = TRUE]
  <2>1. IsDialog(d) /\ d.page = dialog.page /\ d.path = dialog.path /\ d.term = dialog.term
    BY <1>0 DEF IsDialog
  <2>2. Shows(d)
    BY <1>14 DEF OpenCart
  <2> HIDE DEF d
  <2> QED BY <2>1, <2>2, ListsStay
<1>15. CASE CloseCart
  <2>1. CASE Shows([dialog EXCEPT !.covered = FALSE])
    <3> DEFINE d == [dialog EXCEPT !.covered = FALSE]
    <3>1. IsDialog(d) /\ d.page = dialog.page /\ d.path = dialog.path /\ d.term = dialog.term
      BY <1>0 DEF IsDialog
    <3>2. Shows(d)
      BY <2>1
    <3> HIDE DEF d
    <3> QED BY <3>1, <3>2, ListsStay
  <2> QED BY <1>15, <2>1, StartLeaves DEF CloseCart, Windows
<1>16. CASE Close
  BY <1>16, ClosedLeaves DEF Close
<1>17. CASE Dropped
  BY <1>17, ClosedLeaves DEF Dropped
<1>18. CASE SwitchTo("search", "search") \/ SwitchTo("search_again", "search")
  BY <1>0, <1>18, SwitchLeaves DEF Windows
<1>19. CASE SwitchTo("to_catalog", "categories") \/ SwitchTo("description", "description")
  BY <1>0, <1>19, SwitchLeaves DEF Windows
<1>20. CASE SwitchTo("back", IF dialog.window = "products" THEN "categories" ELSE "card")
  <2>1. (IF dialog.window = "products" THEN "categories" ELSE "card") \in Windows
    BY DEF Windows
  <2> QED BY <1>0, <1>20, <2>1, SwitchLeaves
<1> QED BY <1>1, <1>2, <1>3, <1>4, <1>5, <1>6, <1>7, <1>8, <1>9, <1>10, <1>11, <1>12, <1>13, <1>14,
           <1>15, <1>16, <1>17, <1>18, <1>19, <1>20 DEF ChatNext, Sending

\* It takes the first update off the queue, and outdates the others or not.
LEMMA HandlersTakeOne ==
  ASSUME ChatNext, ~Sending
  PROVE  queue # <<>> /\ (queue' = Tail(queue) \/ queue' = Outdated(Tail(queue)))
BY DEF ChatNext, Sending, on_category_selected, on_category_up, on_show_products, on_sort_toggled,
   TurnPage, on_product_selected, on_result_selected, on_card_back, Counter, on_add_to_cart,
   on_search_typed, handle_catalog, handle_search, OpenCart, CloseCart, Close, Dropped, SwitchTo,
   Shows, StartsOver, Tapped

\* Only the card's button writes the toast.
LEMMA CardWritesToast ==
  ASSUME ChatOK, ChatNext
  PROVE  \/ UNCHANGED toast
         \/ dialog.window = "card" /\ toast' = [added |-> dialog.product, named |-> dialog.name]
<1>1. ASSUME on_add_to_cart
      PROVE  dialog.window = "card" /\ toast' = [added |-> dialog.product, named |-> dialog.name]
  BY <1>1 DEF on_add_to_cart, Tapped, Widgets, ChatOK, IsDialog, Windows
<1> QED
  BY <1>1 DEF ChatNext, Tap, Type, Command, Sends, on_category_selected, on_category_up,
     on_show_products, on_sort_toggled, TurnPage, on_product_selected, on_result_selected,
     on_card_back, Counter, on_search_typed, handle_catalog, handle_search, OpenCart, CloseCart,
     Close, Dropped, SwitchTo, StartsOver

\* What is left of the updates when what was tapped is outdated.
LEMMA OutdatedQueue ==
  ASSUME NEW q, IsSequence(q)
  PROVE  /\ IsSequence(Outdated(q)) /\ Len(Outdated(q)) = Len(q)
         /\ \A i \in 1..Len(q) : Outdated(q)[i] = q[i] \/ Outdated(q)[i] = OutdatedTap
<1>1. PICK S : q \in Seq(S)
  BY DEF IsSequence
<1> DEFINE T == S \cup {OutdatedTap}
<1>2. q \in Seq(T) /\ OutdatedTap \in T
  BY <1>1
<1> HIDE DEF T
<1>3. /\ DOMAIN q = 1..Len(q) /\ Len(q) \in Nat
      /\ \A i \in 1..Len(q) : q[i] \in T
  BY <1>2
<1>4. ASSUME NEW i \in 1..Len(q)
      PROVE  Outdated(q)[i] \in T /\ (Outdated(q)[i] = q[i] \/ Outdated(q)[i] = OutdatedTap)
  BY <1>2, <1>3 DEF Outdated
<1>5. Outdated(q) = [i \in 1..Len(q) |-> Outdated(q)[i]]
  BY <1>3 DEF Outdated
<1>6. Outdated(q) \in Seq(T) /\ Len(Outdated(q)) = Len(q)
  BY <1>3, <1>4, <1>5
<1> QED
  BY <1>4, <1>6 DEF IsSequence

\* The updates when one more is sent.
LEMMA AppendToQueue ==
  ASSUME NEW q, IsSequence(q), NEW u
  PROVE  /\ IsSequence(Append(q, u)) /\ Len(q) \in Nat /\ Len(Append(q, u)) = Len(q) + 1
         /\ \A i \in 1..Len(q) : Append(q, u)[i] = q[i]
         /\ Append(q, u)[Len(q) + 1] = u
<1>1. PICK S : q \in Seq(S)
  BY DEF IsSequence
<1> DEFINE T == S \cup {u}
<1>2. q \in Seq(T) /\ u \in T
  BY <1>1
<1> HIDE DEF T
<1>3. Append(q, u) \in Seq(T)
  BY <1>2
<1> QED
  BY <1>2, <1>3 DEF IsSequence

\* What waits after a handler waited before it, or is outdated.
LEMMA StillWaiting ==
  ASSUME ChatOK, ChatNext, ~Sending
  PROVE  /\ IsSequence(queue')
         /\ \A i \in 1..Len(queue') :
               queue'[i] = OutdatedTap \/ \E j \in 1..Len(queue) : queue'[i] = queue[j]
<1> DEFINE t == Tail(queue)
<1>1. queue # <<>> /\ (queue' = t \/ queue' = Outdated(t)) /\ IsSequence(queue)
  BY HandlersTakeOne DEF ChatOK
<1>2. /\ IsSequence(t)
      /\ \A i \in 1..Len(t) : i + 1 \in 1..Len(queue) /\ t[i] = queue[i + 1]
  BY <1>1, TailOfQueue
<1> HIDE DEF t
<1>3. /\ IsSequence(Outdated(t)) /\ Len(Outdated(t)) = Len(t)
      /\ \A i \in 1..Len(t) : Outdated(t)[i] = t[i] \/ Outdated(t)[i] = OutdatedTap
  BY <1>2, OutdatedQueue
<1>4. CASE queue' = t
  BY <1>2, <1>4
<1>5. CASE queue' = Outdated(t)
  BY <1>2, <1>3, <1>5
<1> QED BY <1>1, <1>4, <1>5

\* What the person sends: text, a command, or a button of the message.
LEMMA SendingAppends ==
  ASSUME Sending
  PROVE  /\ UNCHANGED <<shop, dialog, screen, toast>>
         /\ \E u : /\ queue' = Append(queue, u)
                   /\ \/ u.id \in {"text", "/catalog", "/search"} /\ u.listed = {}
                      \/ \E b \in screen : u.id = b.id /\ u.item = b.item /\ u.listed = ListedWith(b)
<1>1. ASSUME NEW b, NEW listed, Sends(b, listed)
      PROVE  /\ UNCHANGED <<shop, dialog, screen, toast>>
             /\ \E u : queue' = Append(queue, u) /\ u.id = b.id /\ u.item = b.item /\ u.listed = listed
  <2> DEFINE u == [id |-> b.id, item |-> b.item, listed |-> listed]
  <2>1. u.id = b.id /\ u.item = b.item /\ u.listed = listed
    OBVIOUS
  <2>2. queue' = Append(queue, u) /\ UNCHANGED <<shop, dialog, screen, toast>>
    BY <1>1 DEF Sends
  <2> HIDE DEF u
  <2> QED BY <2>1, <2>2
<1>2. CASE Tap
  <2>1. PICK b \in screen : Sends(b, ListedWith(b))
    BY <1>2 DEF Tap
  <2> QED BY <1>1, <2>1
<1>3. CASE Type \/ Command
  <2>1. PICK id \in {"text", "/catalog", "/search"}, item \in Terms \cup {None} :
              Sends(Button(id, item), {})
    BY <1>3 DEF Type, Command
  <2>2. Button(id, item).id = id
    BY DEF Button
  <2> QED BY <1>1, <2>1, <2>2
<1> QED BY <1>2, <1>3 DEF Sending

-----------------------------------------------------------------------------
(* The invariant *)

ShopInv == ChatOK /\ TurnsOK /\ ToastNamesWhatWasAdded

\* The shop opens with no dialog and nothing in flight.
LEMMA ShopInitOK == ShopInit => ShopInv
<1> SUFFICES ASSUME ShopInit PROVE ShopInv
  OBVIOUS
<1>1. Closed = Open("closed", None, None) /\ "closed" \in Windows
  BY DEF Closed, Windows
<1>2. IsDialog(dialog) /\ dialog.window = "closed"
  BY <1>1, OpenIsDialog DEF ShopInit, Open
<1>3. queue = <<>> /\ screen = {} /\ toast = None /\ goods = FirstOffer
  BY DEF ShopInit
<1>4. IsSequence(<<>>) /\ Len(<<>>) = 0
  <2>1. <<>> \in Seq({})
    OBVIOUS
  <2> QED BY <2>1 DEF IsSequence
<1>5. ChatOK
  BY <1>2, <1>3, <1>4 DEF ChatOK, Named
<1>6. TurnsOK
  BY <1>3, <1>4 DEF TurnsOK, AsOpened, DrawnFit
<1> QED BY <1>3, <1>5, <1>6 DEF ShopInv, ToastNamesWhatWasAdded

\* The turns of the two lists are different buttons, and no other update is one.
LEMMA TurnsApart ==
  /\ Turns("products") \cap Turns("results") = {}
  /\ \A l \in Lists : OutdatedTap.id \notin Turns(l)
  /\ \A l \in Lists : Turns(l) \cap {"text", "/catalog", "/search"} = {}
BY DEF Turns, Lists, OutdatedTap

\* A list is the same as long as the shop is.
LEMMA ListsOfTheShopStay ==
  ASSUME UNCHANGED shop
  PROVE  \A l, about : Rows(l, about)' = Rows(l, about)
BY DEF shop, treeVars, Rows, ListProducts, read_products, Exists, Selected, category_path, Active,
   in_subtree_of, search_products, search_match

\* Every step of the chat keeps the dialog one, its card named, its turns typed.
LEMMA ChatKeepsTheDialog ==
  ASSUME ChatOK, ChatNext
  PROVE  ChatOK'
<1>1. CASE Sending
  <2>1. UNCHANGED <<dialog, screen>>
    BY <1>1, SendingAppends
  <2>2. PICK u : /\ queue' = Append(queue, u)
                 /\ \/ u.id \in {"text", "/catalog", "/search"}
                    \/ \E b \in screen : u.id = b.id /\ u.item = b.item
    BY <1>1, SendingAppends
  <2>3. TurnTyped(u)
    BY <2>2, TurnsApart DEF TurnTyped, ChatOK
  <2>4. /\ IsSequence(queue') /\ Len(queue) \in Nat /\ Len(queue') = Len(queue) + 1
        /\ \A i \in 1..Len(queue) : queue'[i] = queue[i]
        /\ queue'[Len(queue) + 1] = u
    BY <2>2, AppendToQueue DEF ChatOK
  <2>5. ASSUME NEW i \in 1..Len(queue') PROVE TurnTyped(queue'[i])
    <3>1. i \in 1..Len(queue) \/ i = Len(queue) + 1
      BY <2>4
    <3> QED BY <2>3, <2>4, <3>1 DEF ChatOK
  <2> QED BY <2>1, <2>4, <2>5 DEF ChatOK, IsDialog, Named, TurnTyped
<1>2. CASE ~Sending
  <2>1. IsSequence(queue') /\ \A i \in 1..Len(queue') : TurnTyped(queue'[i])
    <3>1. TurnTyped(OutdatedTap)
      BY TurnsApart DEF TurnTyped
    <3> QED BY <1>2, <3>1, StillWaiting DEF ChatOK
  <2>2. CASE UNCHANGED <<dialog, screen>>
    BY <2>1, <2>2 DEF ChatOK, IsDialog, Named, TurnTyped
  <2>3. CASE \E d : Leaves(d)
    <3>1. PICK d : IsDialog(d) /\ dialog' = Drawn(d) /\ screen' = Buttons(Drawn(d))
      BY <2>3 DEF Leaves
    <3>2. IsDialog(dialog') /\ Named(dialog')
      BY <3>1, DrawnNames
    <3>3. \A b \in screen' : TurnTyped(b)
      BY <3>1, <3>2, ButtonsTyped
    <3> QED BY <2>1, <3>2, <3>3 DEF ChatOK, IsDialog, Named, TurnTyped
  <2> QED BY <1>2, <2>2, <2>3, HandlersLeave
<1> QED BY <1>1, <1>2

\* And, until an import, every turn in flight within the list it was sent from.
LEMMA ChatKeepsTheTurns ==
  ASSUME ChatOK, TurnsOK, ChatNext
  PROVE  TurnsOK'
<1>0. UNCHANGED <<goods, imported>> /\ \A l, about : Rows(l, about)' = Rows(l, about)
  BY ChatLeavesTheShop, ListsOfTheShopStay DEF shop
<1>1. SUFFICES ASSUME ~imported
               PROVE  /\ AsOpened' /\ DrawnFit(screen, dialog)'
                      /\ \A i \in 1..Len(queue') : UpdateFits(queue[i])'
  BY <1>0 DEF TurnsOK
<1>2. AsOpened /\ DrawnFit(screen, dialog) /\ \A i \in 1..Len(queue) : UpdateFits(queue[i])
  BY <1>1 DEF TurnsOK
<1>3. AsOpened'
  BY <1>0, <1>2 DEF AsOpened
<1>4. DrawnFit(screen, dialog)' <=> DrawnFit(screen', dialog')
  BY <1>0 DEF DrawnFit, Fits, About
<1>5. \A i \in 1..Len(queue') : UpdateFits(queue[i])' <=> UpdateFits(queue'[i])
  BY <1>0 DEF UpdateFits, Fits
<1>6. CASE Sending
  <2>1. UNCHANGED <<dialog, screen>>
    BY <1>6, SendingAppends
  <2>2. PICK u : /\ queue' = Append(queue, u)
                 /\ \/ u.id \in {"text", "/catalog", "/search"} /\ u.listed = {}
                    \/ \E b \in screen : u.id = b.id /\ u.item = b.item /\ u.listed = ListedWith(b)
    BY <1>6, SendingAppends
  <2>3. UpdateFits(u)
    <3>1. SUFFICES ASSUME NEW l \in Lists, u.id \in Turns(l), NEW about \in u.listed
                   PROVE  Fits(Rows(l, about), u.item)
      BY DEF UpdateFits
    <3>2. PICK b \in screen : u.id = b.id /\ u.item = b.item /\ about \in ListedWith(b)
      BY <2>2, <3>1
    <3>3. /\ dialog.window \in Lists /\ b.id \in Turns(dialog.window)
          /\ about = About(dialog, dialog.window)
          /\ \E r \in screen : r.id \in {"product_select", "result_select"}
      BY <3>2 DEF ListedWith
    <3>4. dialog.window = l
      BY <3>1, <3>2, <3>3, TurnsApart DEF Lists
    <3> QED BY <1>2, <3>2, <3>3, <3>4 DEF DrawnFit
  <2>4. /\ Len(queue) \in Nat /\ Len(queue') = Len(queue) + 1
        /\ \A i \in 1..Len(queue) : queue'[i] = queue[i]
        /\ queue'[Len(queue) + 1] = u
    BY <2>2, AppendToQueue DEF ChatOK
  <2>5. ASSUME NEW i \in 1..Len(queue') PROVE UpdateFits(queue'[i])
    <3>1. i \in 1..Len(queue) \/ i = Len(queue) + 1
      BY <2>4
    <3> QED BY <1>2, <2>3, <2>4, <3>1
  <2>6. DrawnFit(screen', dialog')
    BY <1>2, <2>1
  <2> QED BY <1>3, <1>4, <1>5, <2>5, <2>6
<1>7. CASE ~Sending
  <2>1. \A i \in 1..Len(queue') : UpdateFits(queue'[i])
    <3>1. UpdateFits(OutdatedTap)
      BY TurnsApart DEF UpdateFits
    <3> QED BY <1>2, <1>7, <3>1, StillWaiting
  <2>2. DrawnFit(screen', dialog')
    <3>1. CASE UNCHANGED <<dialog, screen>>
      BY <1>2, <3>1
    <3>2. CASE \E d : Leaves(d)
      <4>1. PICK d : IsDialog(d) /\ dialog' = Drawn(d) /\ screen' = Buttons(Drawn(d))
        BY <3>2 DEF Leaves
      <4>2. IsDialog(Drawn(d))
        BY <4>1, DrawnNames
      <4> QED BY <1>2, <4>1, <4>2, ButtonsFit
    <3> QED BY <1>7, <3>1, <3>2, HandlersLeave
  <2> QED BY <1>3, <1>4, <1>5, <2>1, <2>2
<1> QED BY <1>6, <1>7

\* The invariant is inductive.
LEMMA ShopInvStep == ShopInv /\ [ShopNext]_shopVars => ShopInv'
<1> SUFFICES ASSUME ShopInv, [ShopNext]_shopVars PROVE ShopInv'
  OBVIOUS
<1>1. CASE ChatNext
  <2>1. ChatOK' /\ TurnsOK'
    BY <1>1, ChatKeepsTheDialog, ChatKeepsTheTurns DEF ShopInv
  <2>2. ToastNamesWhatWasAdded'
    BY <1>1, CardWritesToast DEF ShopInv, ChatOK, Named, ToastNamesWhatWasAdded
  <2> QED BY <2>1, <2>2 DEF ShopInv
<1>2. CASE ImportGoods \/ ImportGroups
  BY <1>2 DEF ImportGoods, ImportGroups, ShopInv, ChatOK, TurnsOK, ToastNamesWhatWasAdded, IsDialog,
     Named, TurnTyped
<1>3. CASE UNCHANGED shopVars
  <2>1. UNCHANGED shop /\ UNCHANGED <<dialog, screen, queue, toast>>
    BY <1>3 DEF shopVars
  <2>2. UNCHANGED <<goods, imported>> /\ \A l, about : Rows(l, about)' = Rows(l, about)
    BY <2>1, ListsOfTheShopStay DEF shop
  <2>3. ChatOK' /\ ToastNamesWhatWasAdded'
    BY <2>1 DEF ShopInv, ChatOK, ToastNamesWhatWasAdded, IsDialog, Named, TurnTyped
  <2>4. TurnsOK'
    BY <2>1, <2>2 DEF ShopInv, TurnsOK, AsOpened, DrawnFit, UpdateFits, Fits, About
  <2> QED BY <2>3, <2>4 DEF ShopInv
<1> QED BY <1>1, <1>2, <1>3 DEF ShopNext

\* What on_add_to_cart names as added is what it added, although card_getter wrote the
\* name when the card was drawn, whatever failed or was tapped in between.
THEOREM AddedIsNamed == ShopSpec => []ToastNamesWhatWasAdded
<1>1. ShopInv => ToastNamesWhatWasAdded
  BY DEF ShopInv
<1> QED BY <1>1, ShopInitOK, ShopInvStep, PTL DEF ShopSpec

-----------------------------------------------------------------------------
(* No empty page *)

\* HasPage in terms of how many rows there are.
LEMMA HasPageFits ==
  ASSUME AsOpened, NEW d, IsDialog(d), NEW l \in Lists
  PROVE  Fits(Rows(l, About(d, l)), d.page[l])
           <=> (Rows(l, About(d, l)) # {}
                  => PageOf(Rows(l, About(d, l)), Order(d, l), d.page[l]) # {})
<1>1. d.page[l] \in Nat
  BY DEF IsDialog
<1>2. IsFiniteSet(Rows(l, About(d, l))) /\ Ranks(Order(d, l), Rows(l, About(d, l)))
  BY ListIsRanked
<1> QED BY <1>1, <1>2, PageIsThere DEF Fits

\* Every list that has rows has a first page.
LEMMA FirstPageFits ==
  ASSUME NEW rows, IsFiniteSet(rows)
  PROVE  Fits(rows, 0)
<1>1. Cardinality(rows) \in Nat /\ (Cardinality(rows) = 0 <=> rows = {})
  BY FS_CardinalityType, FS_EmptySet
<1>2. PageSize \in Nat
  BY StoreAssumption DEF StoreAssumption
<1>3. 0 * PageSize = 0
  BY <1>2
<1> QED BY <1>1, <1>3 DEF Fits

\* One step, one list: its first page, the page it had, or one that was offered.
LEMMA NoEmptyPageStep ==
  ASSUME ShopInv, [ShopNext]_shopVars, ~imported', dialog' # dialog, NEW l \in Lists, HasPage(l)
  PROVE  HasPage(l)' \/ TurnsAnother(l)
<1>1. ChatNext
  BY DEF ShopNext, ImportGoods, ImportGroups, shopVars
<1>2. UNCHANGED <<goods, imported>> /\ \A about : Rows(l, about)' = Rows(l, about)
  BY <1>1, ChatLeavesTheShop, ListsOfTheShopStay DEF shop
<1>3. AsOpened /\ IsDialog(dialog) /\ \A i \in 1..Len(queue) : UpdateFits(queue[i])
  BY <1>2 DEF ShopInv, TurnsOK, ChatOK
<1>4. ~Sending
  BY SendingAppends
<1>5. PICK d : Leaves(d)
  BY <1>1, <1>4, HandlersLeave DEF ShopInv
<1>6. /\ IsDialog(dialog') /\ About(dialog', l) = About(d, l) /\ dialog'.page[l] = d.page[l]
      /\ PageStep(l, d)
  BY <1>5, DrawnNames DEF Leaves, About
<1>7. Fits(Rows(l, About(dialog', l)), dialog'.page[l]) => HasPage(l)'
  <2>1. Fits(Rows(l, About(dialog', l)), dialog'.page[l])
          => (Rows(l, About(dialog', l)) # {}
                => PageOf(Rows(l, About(dialog', l)), Order(dialog', l), dialog'.page[l]) # {})
    BY <1>3, <1>6, HasPageFits
  <2>2. Order(dialog, l)' = Order(dialog', l)
    BY <1>2 DEF Order, listing_order, Precedes, IsPriced, search_ranking
  <2>3. Rows(l, About(dialog, l))' = Rows(l, About(dialog', l))
    BY <1>2 DEF About
  <2> QED BY <2>1, <2>2, <2>3 DEF HasPage
<1>8. Fits(Rows(l, About(dialog, l)), dialog.page[l])
  BY <1>3, HasPageFits DEF HasPage
<1>9. CASE d.page[l] = 0
  <2>1. IsFiniteSet(Rows(l, About(d, l)))
    BY <1>3, ListIsRanked
  <2> QED BY <1>6, <1>7, <1>9, <2>1, FirstPageFits
<1>10. CASE About(d, l) = About(dialog, l) /\ d.page[l] = dialog.page[l]
  BY <1>6, <1>7, <1>8, <1>10
<1>11. CASE About(d, l) = About(dialog, l) /\ update.id \in Turns(l) /\ d.page[l] = update.item
  <2>1. queue # <<>>
    BY <1>1, <1>4, HandlersTakeOne
  <2>2. UpdateFits(update)
    <3>1. 1 \in 1..Len(queue) /\ update = queue[1]
      BY <2>1, TailOfQueue DEF ShopInv, ChatOK, update
    <3> QED BY <1>3, <3>1
  <2>3. CASE About(dialog, l) \in update.listed
    BY <1>6, <1>7, <1>11, <2>2, <2>3 DEF UpdateFits
  <2>4. CASE About(dialog, l) \notin update.listed
    BY <1>11, <2>1, <2>4 DEF TurnsAnother
  <2> QED BY <2>3, <2>4
<1> QED BY <1>6, <1>9, <1>10, <1>11 DEF PageStep

\* Every handler that changes a list calls reset_paging or leaves the dialog on a page the
\* list has, but for a turn sent from another list, for any shop without an import, any
\* page size and any number of updates in flight.
THEOREM NoPageIsEmpty == ShopSpec => NoEmptyPage
<1>1. ShopInv /\ [ShopNext]_shopVars
        => [~imported' /\ dialog' # dialog =>
              \A l \in Lists : HasPage(l) => HasPage(l)' \/ TurnsAnother(l)]_shopVars
  BY NoEmptyPageStep
<1> QED BY <1>1, ShopInitOK, ShopInvStep, PTL DEF ShopSpec, NoEmptyPage
=============================================================================
