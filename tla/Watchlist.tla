----------------------------- MODULE Watchlist -----------------------------
(***************************************************************************)
(* The list of watched stocks: requests to the API (api/watchlist.py), the *)
(* rows in the database (db/database.py) and the names of stocks           *)
(* (services/prefetch.py).  A request reads a row in one step and writes   *)
(* it by its id in another; SQLite gives the id of the last row again when *)
(* that row is gone.                                                       *)
(***************************************************************************)
EXTENDS Integers, Functions, FiniteSetsExt

CONSTANTS Symbols,
          Requests,
          MaxAdds  \* bound of the model: requests to add a stock

WatchlistAssumption == MaxAdds \in Nat

VARIABLES rows,     \* the table: symbol and name of each id
          request,
          known,    \* _stock_name_cache: never emptied while the process runs
          stored,   \* stock:names in Redis
          adds,     \* requests to add that have begun
          promised, \* history: stocks whose addition was confirmed, without a removal since or beside
          mingled   \* history: whether a removal ran beside another request

vars == <<rows, request, known, stored, adds, promised, mingled>>

NoName == "no name"
NoRow  == 0
Idle   == [pc |-> "idle", symbol |-> "no symbol", name |-> NoName, id |-> NoRow, beside |-> FALSE]

Init == /\ rows = [i \in {} |-> <<>>] /\ request = [r \in Requests |-> Idle]
        /\ known = {} /\ stored = {} /\ adds = 0
        /\ promised = {} /\ mingled = FALSE

Goto(r, pc) == request' = [request EXCEPT ![r].pc = pc]
Answer(r)   == request' = [request EXCEPT ![r] = Idle]
RowOf(s)    == CHOOSE i \in DOMAIN rows \cup {NoRow} :
                    IF i = NoRow THEN \A j \in DOMAIN rows : rows[j].symbol # s ELSE rows[i].symbol = s
NewId       == Max(DOMAIN rows \cup {NoRow}) + 1

Adding   == {r \in Requests : request[r].pc \in {"name", "select", "insert", "refresh", "update", "keep"}}
Removing == {r \in Requests : request[r].pc = "delete"}

\* prefetch_stock_names at start, and the end of its entry after a day
Preload(names) == stored = {} /\ stored' = names /\ UNCHANGED <<rows, request, known, adds, promised, mingled>>
Expire         == stored # {} /\ stored' = {} /\ UNCHANGED <<rows, request, known, adds, promised, mingled>>

\* The request to add a stock, with its name or without.
Add(r, s, name) ==
    /\ request[r].pc = "idle" /\ adds < MaxAdds /\ adds' = adds + 1
    /\ request' = [request EXCEPT ![r] = [Idle EXCEPT !.pc = IF name = NoName THEN "name" ELSE "select",
                                                     !.symbol = s, !.name = name,
                                                     !.beside = Removing # {}]]
    /\ mingled' = (mingled \/ Removing # {})
    /\ UNCHANGED <<rows, known, stored, promised>>

\* get_stock_name: what the process knows, what Redis has, what the source answers or not.
Name(r, answers) ==
    /\ request[r].pc = "name"
    /\ LET s == request[r].symbol
           found == s \in known \cup stored \/ answers
       IN  /\ request' = [request EXCEPT ![r].pc = "select", ![r].name = IF found THEN s ELSE NoName]
           /\ known' = IF found THEN known \cup {s} ELSE known
    /\ UNCHANGED <<rows, stored, adds, promised, mingled>>

\* Database.add_to_watchlist looks for the row; a name that it has already changes nothing.
Select(r) ==
    /\ request[r].pc = "select"
    /\ LET id == RowOf(request[r].symbol)
       IN  request' = [request EXCEPT ![r].id = id,
                                      ![r].pc = CASE id = NoRow -> "insert"
                                                  [] id # NoRow /\ request[r].name \in {NoName, rows[id].name} -> "keep"
                                                  [] OTHER -> "update"]
    /\ UNCHANGED <<rows, known, stored, adds, promised, mingled>>

Confirm(r, s) ==
    promised' = IF request[r].beside THEN promised \ {s} ELSE promised \cup {s}

\* There was none: a new one, which must be the only one with its symbol, and is read back.
Insert(r) ==
    /\ request[r].pc = "insert"
    /\ IF RowOf(request[r].symbol) # NoRow
       THEN Answer(r) /\ UNCHANGED rows
       ELSE /\ rows' = [i \in DOMAIN rows \cup {NewId} |->
                            IF i = NewId THEN [symbol |-> request[r].symbol, name |-> request[r].name]
                            ELSE rows[i]]
            /\ request' = [request EXCEPT ![r].pc = "refresh", ![r].id = NewId]
    /\ UNCHANGED <<known, stored, adds, promised, mingled>>

Refresh(r) ==
    /\ request[r].pc = "refresh" /\ Answer(r)
    /\ IF request[r].id \in DOMAIN rows THEN Confirm(r, request[r].symbol) ELSE UNCHANGED promised
    /\ UNCHANGED <<rows, known, stored, adds, mingled>>

\* There was one: a new name is written under its id, which may be that of another stock by
\* now; that no row has the id is an error.
Update(r) ==
    /\ request[r].pc = "update" /\ Answer(r)
    /\ IF request[r].id \in DOMAIN rows
       THEN /\ rows' = [rows EXCEPT ![request[r].id].name = request[r].name]
            /\ Confirm(r, request[r].symbol)
       ELSE UNCHANGED <<rows, promised>>
    /\ UNCHANGED <<known, stored, adds, mingled>>

\* Nothing to write: confirmed without another look.
Keep(r) ==
    /\ request[r].pc = "keep" /\ Answer(r)
    /\ Confirm(r, request[r].symbol)
    /\ UNCHANGED <<rows, known, stored, adds, mingled>>

\* remove_from_watchlist: the row is looked for,
Remove(r, s) ==
    /\ request[r].pc = "idle" /\ RowOf(s) # NoRow
    /\ request' = [q \in Requests |->
                    IF q = r THEN [Idle EXCEPT !.pc = "delete", !.symbol = s, !.id = RowOf(s)]
                    ELSE IF q \in Adding THEN [request[q] EXCEPT !.beside = TRUE] ELSE request[q]]
    /\ promised' = promised \ {s}
    /\ mingled' = (mingled \/ Adding \cup Removing # {})
    /\ UNCHANGED <<rows, known, stored, adds>>

Without(table, id) == Restrict(table, DOMAIN table \ {id})

\* and deleted by its id.  That no row has it any more is not an error.
Delete(r) ==
    /\ request[r].pc = "delete" /\ Answer(r)
    /\ rows' = Without(rows, request[r].id)
    /\ UNCHANGED <<known, stored, adds, promised, mingled>>

Next == \/ \E names \in SUBSET Symbols : Preload(names)
        \/ Expire
        \/ \E r \in Requests : \/ \E s \in Symbols : \/ Add(r, s, NoName) \/ Add(r, s, s)
                                                     \/ Remove(r, s)
                               \/ \E b \in BOOLEAN : Name(r, b)
                               \/ Select(r) \/ Insert(r) \/ Refresh(r) \/ Update(r)
                               \/ Keep(r) \/ Delete(r)

Spec == Init /\ [][Next]_vars

----------------------------------------------------------------------------
(* Properties *)

TypeOK == /\ known \cup stored \cup promised \subseteq Symbols /\ adds \in 0..MaxAdds
          /\ \A i \in DOMAIN rows : rows[i].symbol \in Symbols /\ rows[i].name \in Symbols \cup {NoName}
          /\ \A i, j \in DOMAIN rows : rows[i].symbol = rows[j].symbol => i = j

\* A stock whose addition was confirmed is in the list until it is removed, unless a removal,
\* of whatever stock, ran beside the addition.
LoneAddsStay == \A s \in promised : RowOf(s) # NoRow

\* Rows have the names of their own stocks, as long as no removal runs beside another request.
NamesAreRight == mingled \/ \A i \in DOMAIN rows : rows[i].name \in {rows[i].symbol, NoName}
=============================================================================
