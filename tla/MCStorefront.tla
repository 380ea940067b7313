---------------------------- MODULE MCStorefront ----------------------------
(***************************************************************************)
(* An instance of Storefront.  A behaviour tells one of four stories: taps *)
(* one at a time, two updates in flight, imports under an open dialog, and *)
(* the groups alone under every export of up to three of them.             *)
(***************************************************************************)
EXTENDS Storefront, TLC

CONSTANTS a, b, c, word, rare, sku, short

VARIABLE story

Offer(group, amount, active) == [group |-> group, amount |-> amount, active |-> active]

\* Every export of up to three groups, whole or broken, that says no time.  Exports of
\* one size share a batch id.
AnyParents == UNION {[S -> Groups \cup {None}] : S \in SUBSET Groups}
AnyExports == {[batch |-> Cardinality(DOMAIN p), parent |-> p,
                changed |-> [g \in DOMAIN p |-> 0]] : p \in AnyParents}

\* A group inside a group, and an export that has withdrawn the inner one.
Whole == [batch |-> 2, parent |-> (a :> None) @@ (b :> a), changed |-> (a :> 0) @@ (b :> 0)]
Pruned == [batch |-> 1, parent |-> (a :> None), changed |-> (a :> 0)]

\* One product in the outer group, one in the inner.
TwoOffers == <<Offer(a, 7, TRUE), Offer(b, 5, TRUE)>>
Withdrawn == {Offer(b, 5, FALSE), Offer(b, None, TRUE)}

\* "word" is in every name and "rare" in the first, "sku" is the article of the second.
MCFound == (word :> Products) @@ (rare :> {1}) @@ (sku :> {2}) @@ (short :> {})
MCArticle == (word :> {}) @@ (rare :> {}) @@ (sku :> {2}) @@ (short :> {})

MCInit == ShopInit /\ story \in {"one tap", "two taps", "imports", "tree"}

\* The export of the story with imports: the inner group is gone.
ImportPruned ==
    /\ upsert_categories(Pruned) \/ finalize \/ Abandoned
    /\ imported' = TRUE
    /\ UNCHANGED <<goods, dialog, screen, queue, toast>>

\* The second product is withdrawn or loses its price.
ImportSecond == ImportGoods /\ goods'[1] = goods[1]

\* The person of that story stays with the lists and searches for one word.
Browses ==
    /\ Len(queue') <= 1
    /\ \A i \in DOMAIN queue' :
          /\ queue'[i].id \notin {"plus", "minus", "open_cart", "description", "/search"}
          /\ queue'[i].item \notin {rare, sku, short}

\* With two updates in flight every word is one the search accepts: the two names are
\* typed, the article comes with a command; and nobody counts.
Hurries == \A i \in DOMAIN queue' :
    /\ queue'[i].id \notin {"description", "plus", "minus"} /\ queue'[i].item # short
    /\ queue'[i].item \in {word, rare} => queue'[i].id = "text"
    /\ queue'[i].item = sku => queue'[i].id = "/search"

\* One update at a time.
TakesTime == Len(queue') <= 1 /\ \A i \in DOMAIN queue' : queue'[i].item # rare

MCNext ==
    /\ \/ story = "one tap" /\ ChatNext /\ TakesTime
       \/ story = "two taps" /\ ChatNext /\ Hurries
       \/ story = "imports" /\ (ChatNext \/ ImportSecond \/ ImportPruned) /\ Browses
       \/ story = "tree" /\ ImportGroups
    /\ UNCHANGED story

MCSpec == MCInit /\ [][MCNext]_<<shopVars, story>>
=============================================================================
