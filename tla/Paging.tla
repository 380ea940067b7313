------------------------------- MODULE Paging -------------------------------
(***************************************************************************)
(* Server-side paging: which rows a page has, how many pages there are,    *)
(* and the buttons that move it.  A button is what it says in the message: *)
(* the id of a widget and the item it was drawn for.                       *)
(***************************************************************************)
EXTENDS Naturals, FiniteSets

CONSTANTS PageSize, None

ASSUME PagingAssumption == PageSize \in Nat \ {0}

Pages(total) == IF total = 0 THEN 1 ELSE (total + PageSize - 1) \div PageSize

\* LIMIT and OFFSET over the rows in an order, a set of pairs: the rows with n pages
\* before theirs.
PageOf(rows, order, n) ==
    {x \in rows : Cardinality({y \in rows : <<y, x>> \in order}) \div PageSize = n}

Button(id, item) == [id |-> id, item |-> item]

Plain(ids) == {Button(id, None) : id \in ids}

\* The two buttons that move a list; each carries the page it leads to.
Pager(prev, next, rows, n) ==
    (IF n > 0 THEN {Button(prev, n - 1)} ELSE {})
      \cup (IF n + 1 < Pages(Cardinality(rows)) THEN {Button(next, n + 1)} ELSE {})

\* One page of rows, each a button, and the pager.
ListButtons(select, prev, next, rows, order, n) ==
    {Button(select, x) : x \in PageOf(rows, order, n)} \cup Pager(prev, next, rows, n)
=============================================================================
