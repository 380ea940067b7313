-------------------------- MODULE MCCatalogImport --------------------------
(***************************************************************************)
(* An instance of CatalogImport: two importers.  A behaviour tells one of  *)
(* two stories, which is the files that arrive in it, and alone remembers  *)
(* whether two imports have overlapped.                                    *)
(***************************************************************************)
EXTENDS CatalogImport, TLC

CONSTANTS cat, drill, retail, trade, main, annex, buyer

VARIABLES story, alone

Key(table, id, of) == [table |-> table, id |-> id, of |-> of]

Category == Key("categories", cat, Absent)
Product == Key("products", drill, Absent)
Retail == Key("price_types", retail, Absent)
Trade == Key("price_types", trade, Absent)
RetailPrice == Key("prices", drill, retail)
TradePrice == Key("prices", drill, trade)
InMain == Key("stock", drill, main)
InAnnex == Key("stock", drill, annex)
Binding == Key("bindings", buyer, Absent)

MCSupported == {"rub"}

R(k, changed) == [key |-> k, changed |-> changed, amount |-> 0, currency |-> "rub", to |-> Absent]
Price(k, changed, amount, currency) ==
    [key |-> k, changed |-> changed, amount |-> amount, currency |-> currency, to |-> Absent]
Bound(changed, to) ==
    [key |-> Binding, changed |-> changed, amount |-> 0, currency |-> "rub", to |-> to]

File(batch, kind, only, rows) ==
    [batch |-> batch, kind |-> kind, only |-> only, shaped |-> TRUE, rows |-> rows]

\* The tables orders and customers depend on, in two competing versions, with a
\* file nobody can read, a price of nothing, a foreign price and a key given twice.
WholeFiles ==
    { File(1, "products", Absent,
           {R(Product, 1), R(Retail, 1), R(Trade, 0), Price(RetailPrice, 1, 5, "rub"),
            Price(TradePrice, 0, 4, "usd")}),
      File(2, "price_types", Absent,
           {R(Trade, 2), Price(RetailPrice, 2, 0, "rub"), Price(TradePrice, 2, 4, "rub")}),
      File(3, "prices", trade, {Price(TradePrice, 3, 6, "rub"), R(Retail, 3)}),
      File(4, "products", Absent, {}),
      File(5, "prices", Absent, {Price(RetailPrice, 1, 5, "rub"), Price(RetailPrice, 1, 6, "rub")}),
      [File(6, "products", Absent, {R(Product, 3)}) EXCEPT !.shaped = FALSE] }

\* Stock by warehouse, categories and bindings.
StockFiles ==
    { File(11, "stock", Absent, {R(Category, 1), R(InMain, 1), R(InAnnex, 1), R(Retail, 1)}),
      File(12, "stock", main, {R(InMain, 2), R(InAnnex, 0)}),
      File(13, "stock", annex, {Price(InMain, 3, -1, "rub")}),
      File(14, "categories", Absent, {Bound(4, Retail)}),
      File(15, "bindings", Absent, {R(Category, 2)}) }

MCFiles == WholeFiles \cup StockFiles

MCKeys ==
    {Category, Product, Retail, Trade, RetailPrice, TradePrice, InMain, InAnnex, Binding}

MCInit == Init /\ story \in {WholeFiles, StockFiles} /\ alone = TRUE

MCNext ==
    /\ Next
    /\ \A p \in Importers :
          session[p].pc = "idle" /\ session'[p].pc # "idle" => session'[p].file \in story
    /\ alone' = (alone /\ OneAtATime')
    /\ UNCHANGED story

MCSpec ==
    /\ MCInit
    /\ [][MCNext]_<<vars, story, alone>>
    /\ \A p \in Importers : SF_vars(Step(p))

\* As long as imports come one after the other, in any order, repeated, and broken off
\* anywhere, a finalised scope holds what its file mentioned and nothing else, except
\* that a file which comes late loses the rows that were there in a newer version.
ScopeHoldsTheFile == [][alone' => LeavesTheFile]_<<vars, story, alone>>
=============================================================================
