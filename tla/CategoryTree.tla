---------------------------- MODULE CategoryTree ----------------------------
(***************************************************************************)
(* The groups of the catalogue: how an import places them in the tree      *)
(* (_placements), and what the storefront reads of it.  An export of the   *)
(* groups is written by upsert_categories and then finalised; a process    *)
(* that dies between the two leaves the second out.                        *)
(***************************************************************************)
EXTENDS Integers, FiniteSets, Sequences, SequencesExt

CONSTANTS Groups,      \* identifiers of groups in 1C
          Exports,     \* exports of the nomenclature that may arrive
          None         \* no parent, no row

VARIABLES categories,  \* the table: Groups -> row or None
          exported,    \* the export that was upserted and not finalised yet, or None
          ancestry     \* history: the links from a group up when it was placed last, or None

treeVars == <<categories, exported, ancestry>>

\* A row of the table.
GroupRow == [parent : Groups \cup {None}, path : Seq(Groups), depth : Nat, active : BOOLEAN,
             batch : Nat, changed : Nat]

ASSUME GroupsAssumption == IsFiniteSet(Groups) /\ None \notin Groups \cup GroupRow

\* An export: the parent each of its groups names, and when 1C last changed it
\* (0 when it does not say).  A parent may be missing from the export.
ASSUME ExportsAssumption == \A e \in Exports :
    /\ e.batch \in Nat
    /\ DOMAIN e.parent \subseteq Groups /\ DOMAIN e.changed = DOMAIN e.parent
    /\ \A g \in DOMAIN e.parent :
          e.parent[g] \in Groups \cup {None} /\ e.changed[g] \in Nat

-----------------------------------------------------------------------------
(* Placing a group *)

\* Mutant: the walk stops below the root.
WalkBelowTheRoot(parents, path) ==
    LET up == parents[Head(path)]
    IN  IF up \in DOMAIN parents /\ up \notin Range(path) /\ parents[up] # None
        THEN <<up>> \o path ELSE path

\* One turn of the while loop: up to the parent, unless it is not in the export
\* or was passed already.
WalkUp(parents, path) ==
    LET up == parents[Head(path)]
    IN  IF up \in DOMAIN parents /\ up \notin Range(path) THEN <<up>> \o path ELSE path

\* _placements: the ancestry of g, from the root down.  Every turn passes a group
\* not passed before, so there are at most as many as groups.
placement(parents, g) ==
    LET walked[n \in 0..Cardinality(Groups)] ==
            IF n = 0 THEN <<g>> ELSE WalkUp(parents, walked[n - 1])
    IN  walked[Cardinality(Groups)]

\* The groups of an export from g up.
Lineage(parents, g) ==
    LET above[n \in 0..Cardinality(Groups)] ==
            IF n = 0 THEN {g}
            ELSE above[n - 1] \cup ({parents[x] : x \in above[n - 1]} \cap DOMAIN parents)
    IN  above[Cardinality(Groups)]

\* And the links between them.
LinksAbove(parents, g) ==
    [x \in Lineage(parents, g) |->
        IF parents[x] \in DOMAIN parents THEN parents[x] ELSE None]

-----------------------------------------------------------------------------
(* Import *)

NewerGroup(e, g) ==
    \/ categories[g] = None \/ e.changed[g] = 0 \/ categories[g].changed = 0
    \/ e.changed[g] >= categories[g].changed

Placed(e, g) ==
    LET path == placement(e.parent, g)
    IN  [parent |-> e.parent[g], path |-> path, depth |-> Len(path) - 1, active |-> TRUE,
         batch |-> e.batch, changed |-> e.changed[g]]

upsert_categories(e) ==
    /\ exported = None
    /\ categories' = [g \in Groups |->
          IF g \in DOMAIN e.parent /\ NewerGroup(e, g)
          THEN Placed(e, g)
          ELSE categories[g]]
    /\ ancestry' = [g \in Groups |->
          IF g \in DOMAIN e.parent /\ NewerGroup(e, g)
          THEN LinksAbove(e.parent, g)
          ELSE ancestry[g]]
    /\ exported' = e

\* FinalizeCatalogImport of the scope "categories": what carries another batch is hidden.
finalize ==
    /\ exported # None
    /\ categories' = [g \in Groups |->
          IF categories[g] # None /\ categories[g].batch # exported.batch
          THEN [categories[g] EXCEPT !.active = FALSE] ELSE categories[g]]
    /\ exported' = None
    /\ UNCHANGED ancestry

\* The importer died after its first transaction.
Abandoned ==
    /\ exported # None
    /\ exported' = None
    /\ UNCHANGED <<categories, ancestry>>

TreeNext == (\E e \in Exports : upsert_categories(e)) \/ finalize \/ Abandoned

-----------------------------------------------------------------------------
(* What the storefront reads *)

Active(g) == categories[g] # None /\ categories[g].active

read_root_categories == {g \in Groups : Active(g) /\ categories[g].parent = None}

read_subcategories(p) == {g \in Groups : Active(g) /\ categories[g].parent = p}

\* Mutant: the group itself is not part of its subtree.
BelowPath(path) ==
    {g \in Groups : categories[g] # None /\ IsStrictPrefix(path, categories[g].path)}

\* in_subtree_of: the path itself or the path followed by a separator.
in_subtree_of(path) ==
    {g \in Groups : categories[g] # None /\ IsPrefix(path, categories[g].path)}

\* _category_path: nothing for a group that is gone or hidden.
category_path(g) == IF Active(g) THEN categories[g].path ELSE None

-----------------------------------------------------------------------------
(* Properties *)

\* What was placed follows the parents of the export, whatever its shape: a path
\* leads down to its group, each step from a parent to its child, visits no group
\* twice, and begins where the parent is missing or would close a circle.
PlacedByTheExport ==
    exported # None => \A g \in DOMAIN exported.parent : NewerGroup(exported, g) =>
        LET parents == exported.parent
            path == categories[g].path
        IN  /\ Last(path) = g /\ IsInjective(path)
            /\ \A i \in 1..Len(path) - 1 : parents[path[i + 1]] = path[i]
            /\ parents[path[1]] \notin DOMAIN parents \ Range(path)

\* No circle above: somewhere the links come to an end.
Rooted(links) == \E x \in DOMAIN links : links[x] = None

\* A listing of a group shows exactly the groups that were below it when they were placed
\* last, as long as it has the same groups above it as it had then: whatever exports came
\* since, finished or not, and with the groups they left behind, which keep their paths
\* and are listed by them.
ListedWhereLastPlaced ==
    \A g, d \in {x \in Groups : categories[x] # None /\ Rooted(ancestry[x])} :
        d \in in_subtree_of(categories[g].path)
          <=> g \in DOMAIN ancestry[d] /\ ancestry[g] = LinksAbove(ancestry[d], g)
=============================================================================
