----------------------------- MODULE Storefront -----------------------------
(***************************************************************************)
(* The catalogue dialog of one chat.  The updates of a chat are handled    *)
(* one at a time; what is tapped before the screen has been redrawn waits  *)
(* in line and meets the dialog as the update before it left it.  A button *)
(* is an id and an item: the dialog looks only for a widget of that id in  *)
(* its current window.  A handler that raises leaves nothing behind in the *)
(* dialog.  Imports change the shop at any moment.                         *)
(***************************************************************************)
EXTENDS CategoryTree

CONSTANTS Products,      \* products, ordered as their names are
          Described,     \* those with a description
          Offers,        \* what an import may say of a product
          FirstExport,   \* the groups the shop opens with
          FirstOffer,    \* and the products: Products -> Offers
          Terms,         \* what can be typed
          Indexed,       \* the terms long enough to search for
          Found,         \* Terms -> the products a term matches
          Article,       \* Terms -> the products whose article it is
          PageSize, MAX_QUANTITY,
          InFlight,      \* bound: updates waiting at once
          MaxSteps       \* bound: length of the breadcrumb

VARIABLES goods,         \* the products as the projection holds them
          dialog,        \* the dialog's data and window
          screen,        \* the buttons on the message, as last drawn
          queue,         \* updates on their way, in order
          toast,         \* what the last "added" named, and what was added
          imported       \* history: an import has touched the shop

shop == <<goods, treeVars, imported>>
shopVars == <<shop, dialog, screen, queue, toast>>

ASSUME StoreAssumption ==
    /\ IsFiniteSet(Products) /\ Products \subseteq Nat /\ Described \subseteq Products
    /\ PageSize \in Nat \ {0} /\ MAX_QUANTITY \in Nat \ {0}
    /\ Indexed \subseteq Terms /\ FirstExport \in Exports
    /\ \A t \in Terms : Found[t] \subseteq Products /\ Article[t] \subseteq Found[t]
    /\ \A o \in Offers \cup {FirstOffer[p] : p \in Products} :
          o.group \in Groups /\ o.amount \in Nat \cup {None} /\ o.active \in BOOLEAN

Lists == {"products", "results"}

-----------------------------------------------------------------------------
INSTANCE Paging

-----------------------------------------------------------------------------
(* Queries *)

\* product_exists: the one predicate that says whether a product is in the shop.
Exists(p) == goods[p].active

\* The price of this customer's list, joined in; a product without one is kept.
IsPriced(p) == goods[p].amount # None

\* Without a price last, then by product.
Precedes(sort, p, q) ==
    LET x == goods[p].amount   y == goods[q].amount
    IN  IF sort = "price" /\ x # y
        THEN IsPriced(p) /\ (IsPriced(q) => x < y)
        ELSE p < q

listing_order(sort) == {r \in Products \X Products : Precedes(sort, r[1], r[2])}

\* The groups a listing takes its products from: the whole subtree of the open one,
\* or none when it is gone.
Selected(opened) ==
    IF opened = <<>> THEN Groups
    ELSE LET path == category_path(Last(opened).id)
         IN  IF path = None THEN {} ELSE in_subtree_of(path)

read_products(groups) == {p \in Products : Exists(p) /\ goods[p].group \in groups}

\* ListProducts: the open group's products.
ListProducts(opened) == read_products(Selected(opened))

\* SearchTerm: what the search accepts at all.
IsSearchTerm(t) == t \in Indexed

search_match(t, p) == p \in Found[t]

\* The article itself before everything else that matches.
Outranks(t, p, q) ==
    IF (p \in Article[t]) = (q \in Article[t]) THEN p < q ELSE p \in Article[t]

search_ranking(t) == {r \in Products \X Products : Outranks(t, r[1], r[2])}

search_products(t) == {p \in Products : Exists(p) /\ search_match(t, p)}

\* _only_product_with_sku: the product an article names, when it names exactly one.
exact_match_product_id(t) ==
    LET named == {p \in Article[t] : Exists(p)}
    IN  IF Cardinality(named) = 1 THEN CHOOSE p \in named : TRUE ELSE None

\* ListCategories: the level under the open group.
ListCategories(d) ==
    IF d.path = <<>> THEN read_root_categories ELSE read_subcategories(Last(d.path).id)

-----------------------------------------------------------------------------
(* Drawing a window: what its getter reads and writes, and the buttons it gets *)

\* A card without its product and results for a term too short raise.
CanBeDrawn(d) ==
    /\ d.window \in {"card", "description"} => d.product # None
    /\ d.window = "results" => IsSearchTerm(d.term)

categories_getter(d) == [d EXCEPT !.level = ListCategories(d)]

\* Mutant: the first name drawn stays.
FirstNameDrawn(d) == [d EXCEPT !.name = IF @ = None THEN d.product ELSE @]

card_getter(d) == [d EXCEPT !.name = d.product]

Drawn(d) ==
    CASE d.window = "categories" -> categories_getter(d)
      [] d.window = "card" -> card_getter(d)
      [] OTHER -> d

CategoriesWindow(d) ==
    {Button("category_select", g) : g \in ListCategories(d)}
      \cup Plain({"show_products", "search", "close"})
      \cup (IF d.path # <<>> THEN Plain({"category_up"}) ELSE {})

products_getter(d) ==
    ListButtons("product_select", "products_prev", "products_next", ListProducts(d.path),
                listing_order(d.sort), d.page.products)

ProductsWindow(d) == products_getter(d) \cup Plain({"sort", "search", "back"})

CardWindow(p) ==
    Plain({"open_cart", "card_back"})
      \cup (IF p \in Described THEN Plain({"description"}) ELSE {})
      \cup (IF IsPriced(p) THEN Plain({"plus", "minus", "add_to_cart"}) ELSE {})

search_results_getter(d) ==
    ListButtons("result_select", "results_prev", "results_next", search_products(d.term),
                search_ranking(d.term), d.page.results)

ResultsWindow(d) == search_results_getter(d) \cup Plain({"search_again", "to_catalog"})

\* The cart, put on top of a card.
CartWindow == Plain({"close_cart", "to_catalog_from_cart"})

Buttons(d) ==
    IF d.covered THEN CartWindow
    ELSE CASE d.window = "categories" -> CategoriesWindow(d)
           [] d.window = "products" -> ProductsWindow(d)
           [] d.window = "card" -> CardWindow(d.product)
           [] d.window = "description" -> Plain({"back"})
           [] d.window = "search" -> Plain({"to_catalog"})
           [] d.window = "results" -> ResultsWindow(d)
           [] d.window = "closed" -> {}

\* The widgets a window has, drawn or not: a tap is matched by its id only.
Widgets(window) ==
    CASE window = "categories" ->
            {"category_select", "show_products", "search", "close", "category_up"}
      [] window = "products" ->
            {"product_select", "products_prev", "products_next", "sort", "search", "back"}
      [] window = "card" ->
            {"plus", "minus", "add_to_cart", "description", "open_cart", "card_back"}
      [] window = "description" -> {"back"}
      [] window = "search" -> {"to_catalog"}
      [] window = "results" ->
            {"result_select", "results_prev", "results_next", "search_again", "to_catalog"}
      [] window = "closed" -> {}

Turns(l) ==
    IF l = "products" THEN {"products_prev", "products_next"}
    ELSE {"results_prev", "results_next"}

TakesText == {"categories", "products", "search", "results"}

-----------------------------------------------------------------------------
(* The dialog and its start *)

\* on_dialog_start: an opened card goes back to the results of its term.
Open(window, term, product) ==
    [window |-> window, covered |-> FALSE, path |-> <<>>, level |-> {}, product |-> product,
     name |-> None, term |-> term, sort |-> "name",
     origin |-> IF product = None THEN None ELSE "results",
     page |-> [l \in Lists |-> 0], counter |-> 1]

Closed == Open("closed", None, None)

ShopInit ==
    /\ categories = [g \in Groups |->
          IF g \in DOMAIN FirstExport.parent THEN Placed(FirstExport, g) ELSE None]
    /\ ancestry = [g \in Groups |->
          IF g \in DOMAIN FirstExport.parent THEN LinksAbove(FirstExport.parent, g) ELSE None]
    /\ exported = None
    /\ goods = FirstOffer
    /\ dialog = Closed
    /\ screen = {}
    /\ queue = <<>>
    /\ toast = None
    /\ imported = FALSE

-----------------------------------------------------------------------------
(* The person *)

\* What a list is a list of: the open group or the term.
About(d, l) == IF l = "products" THEN d.path ELSE d.term

\* An update carries the message it was tapped on; all that is kept of it is which
\* list a page was turned of, when the message showed any of its rows.
ListedWith(b) ==
    IF /\ dialog.window \in Lists /\ b.id \in Turns(dialog.window)
       /\ \E r \in screen : r.id \in {"product_select", "result_select"}
    THEN {About(dialog, dialog.window)} ELSE {}

Sends(button, listed) ==
    /\ Len(queue) < InFlight
    /\ queue' = Append(queue, [id |-> button.id, item |-> button.item, listed |-> listed])
    /\ UNCHANGED <<shop, dialog, screen, toast>>

Tap == \E b \in screen : Sends(b, ListedWith(b))

Type == \E t \in Terms : Sends(Button("text", t), {})

Command == \/ Sends(Button("/catalog", None), {})
           \/ \E t \in Terms \cup {None} : Sends(Button("/search", t), {})

-----------------------------------------------------------------------------
(* The handlers *)

update == Head(queue)

Tapped(id) ==
    /\ queue # <<>> /\ update.id = id
    /\ id \in Widgets(dialog.window) /\ ~dialog.covered

\* The handler ended in d, and the window was drawn.
Shows(d) ==
    /\ CanBeDrawn(d)
    /\ dialog' = Drawn(d)
    /\ screen' = Buttons(Drawn(d))
    /\ queue' = Tail(queue)
    /\ UNCHANGED shop

SwitchTo(id, window) == Tapped(id) /\ Shows([dialog EXCEPT !.window = window]) /\ UNCHANGED toast

\* Mutant: the list stays on the page it was on.
PagingAsItWas(d, l) == d

reset_paging(d, l) == [d EXCEPT !.page[l] = 0]

\* The group tapped, by the name on the level, or by its id when it is not there.
WalkedInto(path, g, level) == Append(path, [id |-> g, named |-> g \in level])

on_category_selected ==
    /\ Tapped("category_select") /\ Len(dialog.path) < MaxSteps
    /\ Shows(reset_paging(
          [dialog EXCEPT !.path = WalkedInto(@, update.item, dialog.level)], "products"))
    /\ UNCHANGED toast

on_category_up ==
    /\ Tapped("category_up")
    /\ Shows(reset_paging(
          [dialog EXCEPT !.path = IF @ = <<>> THEN @ ELSE Front(@)], "products"))
    /\ UNCHANGED toast

on_show_products ==
    /\ Tapped("show_products")
    /\ Shows(reset_paging([dialog EXCEPT !.window = "products"], "products"))
    /\ UNCHANGED toast

on_sort_toggled ==
    /\ Tapped("sort")
    /\ Shows(reset_paging(
          [dialog EXCEPT !.sort = IF @ = "name" THEN "price" ELSE "name"], "products"))
    /\ UNCHANGED toast

\* PrevPage and NextPage.
TurnPage ==
    \E l \in Lists : \E id \in Turns(l) :
        /\ Tapped(id)
        /\ Shows([dialog EXCEPT !.page[l] = update.item])
        /\ UNCHANGED toast

open_card(d, p, origin) ==
    [d EXCEPT !.window = "card", !.product = p, !.origin = origin, !.counter = 1]

on_product_selected ==
    /\ Tapped("product_select")
    /\ Shows(open_card(dialog, update.item, "products")) /\ UNCHANGED toast

on_result_selected ==
    /\ Tapped("result_select")
    /\ Shows(open_card(dialog, update.item, "results")) /\ UNCHANGED toast

on_card_back ==
    SwitchTo("card_back", IF dialog.origin = None THEN "categories" ELSE dialog.origin)

Counter ==
    \/ Tapped("plus") /\ UNCHANGED toast
         /\ Shows([dialog EXCEPT !.counter = IF @ < MAX_QUANTITY THEN @ + 1 ELSE @])
    \/ Tapped("minus") /\ UNCHANGED toast
         /\ Shows([dialog EXCEPT !.counter = IF @ > 1 THEN @ - 1 ELSE @])

\* The command commits before the window is drawn: when the drawing fails, the
\* product is in the cart and the counter still stands where it was.
on_add_to_cart ==
    /\ Tapped("add_to_cart") /\ Exists(dialog.product)
    /\ toast' = [added |-> dialog.product, named |-> dialog.name]
    /\ \/ Shows([dialog EXCEPT !.counter = 1])
       \/ queue' = Tail(queue) /\ UNCHANGED <<shop, dialog, screen>>

Searched(d, t) == reset_paging([d EXCEPT !.term = t], "results")

on_search_typed ==
    /\ queue # <<>> /\ update.id = "text" /\ IsSearchTerm(update.item)
    /\ dialog.window \in TakesText /\ ~dialog.covered
    /\ LET d == Searched(dialog, update.item)
           p == exact_match_product_id(update.item)
       IN  Shows(IF p = None THEN [d EXCEPT !.window = "results"] ELSE open_card(d, p, "results"))
    /\ UNCHANGED toast

OutdatedTap == [id |-> "outdated", item |-> None, listed |-> {}]

Outdated(q) ==
    [i \in DOMAIN q |-> IF q[i].id \in {"text", "/catalog", "/search"} THEN q[i] ELSE OutdatedTap]

\* A dialog started over the old one: whatever was tapped on that is outdated.
StartsOver(d) ==
    /\ CanBeDrawn(d)
    /\ dialog' = Drawn(d)
    /\ screen' = Buttons(Drawn(d))
    /\ queue' = Outdated(Tail(queue))
    /\ UNCHANGED <<shop, toast>>

handle_catalog ==
    queue # <<>> /\ update.id = "/catalog" /\ StartsOver(Open("categories", None, None))

handle_search ==
    /\ queue # <<>> /\ update.id = "/search"
    /\ IF update.item = None THEN StartsOver(Open("search", None, None))
       ELSE /\ IsSearchTerm(update.item)
            /\ LET p == exact_match_product_id(update.item)
               IN  StartsOver(Open(IF p = None THEN "results" ELSE "card", update.item, p))

\* The cart is put on top of the card and taken off it.
OpenCart == Tapped("open_cart") /\ Shows([dialog EXCEPT !.covered = TRUE]) /\ UNCHANGED toast

CloseCart ==
    \/ /\ queue # <<>> /\ update.id = "close_cart" /\ dialog.covered
       /\ Shows([dialog EXCEPT !.covered = FALSE]) /\ UNCHANGED toast
    \/ /\ queue # <<>> /\ update.id = "to_catalog_from_cart" /\ dialog.covered
       /\ StartsOver(Open("categories", None, None))

Close ==
    /\ Tapped("close")
    /\ dialog' = Closed /\ screen' = {} /\ queue' = Tail(queue)
    /\ UNCHANGED <<shop, toast>>

\* Nobody answers the update, or its handler raised: a widget of another window, a
\* term too short, a product withdrawn, a read that failed.  A command that failed
\* while its first window was drawn has already taken the old dialog away.
Dropped ==
    /\ queue # <<>> /\ queue' = Tail(queue)
    /\ \/ UNCHANGED <<dialog, screen>>
       \/ /\ update.id \in {"/catalog", "/search"} /\ update.item \in Indexed \cup {None}
          /\ dialog' = Closed /\ screen' = {}
    /\ UNCHANGED <<shop, toast>>

-----------------------------------------------------------------------------
(* Imports *)

ImportGoods ==
    /\ \E p \in Products, o \in Offers : goods' = [goods EXCEPT ![p] = o]
    /\ imported' = TRUE
    /\ UNCHANGED <<dialog, screen, queue, toast, treeVars>>

ImportGroups ==
    /\ TreeNext
    /\ imported' = TRUE
    /\ UNCHANGED <<goods, dialog, screen, queue, toast>>

ChatNext ==
    \/ Tap \/ Type \/ Command
    \/ on_category_selected \/ on_category_up \/ on_show_products \/ on_sort_toggled
    \/ TurnPage \/ on_product_selected \/ on_result_selected \/ on_card_back \/ Counter
    \/ on_add_to_cart \/ on_search_typed \/ handle_catalog \/ handle_search
    \/ OpenCart \/ CloseCart \/ Close \/ Dropped
    \/ SwitchTo("search", "search") \/ SwitchTo("search_again", "search")
    \/ SwitchTo("to_catalog", "categories") \/ SwitchTo("description", "description")
    \/ SwitchTo("back", IF dialog.window = "products" THEN "categories" ELSE "card")

ShopNext == ChatNext \/ ImportGoods \/ ImportGroups

ShopSpec == ShopInit /\ [][ShopNext]_shopVars

-----------------------------------------------------------------------------
(* Properties *)

\* "Added" names the product that was added, although the product and its name are
\* written by different handlers and a handler may fail in between.
ToastNamesWhatWasAdded == toast # None => toast.named = toast.added

\* A list as the shop has it, and the order it is in.
Rows(l, about) ==
    CASE l = "products" -> ListProducts(about)
      [] l = "results" /\ about \in Indexed -> search_products(about)
      [] OTHER -> {}

Order(d, l) == IF l = "products" THEN listing_order(d.sort) ELSE search_ranking(d.term)

\* The page the dialog keeps for a list is one it has.
HasPage(l) ==
    LET rows == Rows(l, About(dialog, l))
    IN  rows # {} => PageOf(rows, Order(dialog, l), dialog.page[l]) # {}

\* A page is turned by a button of a message that showed another list, or none of it.
TurnsAnother(l) == queue # <<>> /\ update.id \in Turns(l) /\ About(dialog, l) \notin update.listed

\* Whatever a handler does to a list, its group, its term, its order or its page, it
\* leaves the dialog on a page the list has: without an import no list is opened on an
\* empty page (reset_paging), unless a page is turned by a button of another list that
\* was still on its way when this one was opened.
NoEmptyPage ==
    [][~imported' /\ dialog' # dialog =>
          \A l \in Lists : HasPage(l) => HasPage(l)' \/ TurnsAnother(l)]_shopVars
=============================================================================
