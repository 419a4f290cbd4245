------------------------------ MODULE SymbolPool ------------------------------
(***************************************************************************)
(* The lifecycle records of symbols, and what is derived from them: the    *)
(* pool of a full-market sync, the dates the coverage table reports as     *)
(* missing, and the dates a sync asks for (data/operations.py,             *)
(* data/warehouse.py, data/sync.py, service.py).                           *)
(***************************************************************************)
EXTENDS Naturals, FiniteSets, FiniteSetsExt

CONSTANT Unknown        \* a date nobody has given, a record nobody has written

\* A record of the table symbol_lifecycle; its dates are days or Unknown.
Record(listing, delisted, status) ==
    [listing |-> listing, delisted |-> delisted, status |-> status]

Coalesce(new, old) == IF new = Unknown THEN old ELSE new

\* upsert_symbol_lifecycle: a date once known stays, the status is the newest.
Upsert(old, new) ==
    IF old = Unknown THEN new
    ELSE Record(Coalesce(new.listing, old.listing), Coalesce(new.delisted, old.delisted), new.status)

\* read_delisted_symbols
IsDelisted(record) ==
    record # Unknown /\ (record.delisted # Unknown \/ record.status = "delisted")

\* A mutant: the list is believed however short it is.
DelistingsByAnyList(listed, full, priced, recent) == (priced \ listed) \ recent

\* refresh_symbol_lifecycle: who is marked delisted, for the symbols the source
\* lists, those with prices, and those with a recent price.
Delistings(listed, full, priced, recent) ==
    IF full THEN (priced \ listed) \ recent ELSE {}

Listing(record) == IF record = Unknown THEN Unknown ELSE record.listing
Delisting(record) == IF record = Unknown THEN Unknown ELSE record.delisted

\* build_daily_bars_coverage: the days missing from a symbol's rows, from its
\* first row to the newest day of the warehouse, within its lifecycle.
MissingInTable(rows, newest, record) ==
    LET from == Max({Min(rows)} \cup ({Listing(record)} \ {Unknown}))
        to   == Min({Max({newest, Max(rows)})} \cup ({Delisting(record)} \ {Unknown}))
    IN  (from..to) \ rows

\* A mutant: nothing is asked of a symbol with the status delisted.
RequiredUnlessDelisted(from, to, record) ==
    {d \in from..to : /\ Listing(record) = Unknown \/ Listing(record) <= d
                      /\ Delisting(record) = Unknown \/ d <= Delisting(record)
                      /\ ~IsDelisted(record)}

\* _lifecycle_clipped_required_dates: the days a sync of from..to asks for.
Required(from, to, record) ==
    LET listing == Listing(record)
        delisted == Delisting(record)
    IN  {d \in from..to : /\ listing = Unknown \/ listing <= d
                          /\ delisted = Unknown \/ d <= delisted}
=============================================================================
