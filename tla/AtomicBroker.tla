---------------------------- MODULE AtomicBroker ----------------------------
(***************************************************************************)
(* What the paper broker promises to its callers, however many there are   *)
(* and whatever fails: an order enters the book, is filled or is closed in *)
(* one instant, and a fill moves the cash and the holding in the same one. *)
(* The file has the book of such an instant, and a crash goes back to it.  *)
(* Nobody is told what the book contradicts, nor, when told for good, what *)
(* the file does: what is only heard of the book is told for good by the   *)
(* next write of the file, and a crash before that takes it back.  Quotes, *)
(* the copies that matching passes work on, and the answers under way are  *)
(* left to the specification that implements this one.                     *)
(***************************************************************************)
EXTENDS PaperLedger

CONSTANT Capacity  \* orders that the book keeps

VARIABLES book,  \* cash, holdings and orders, the newest first
          saved, \* the same in the file
          told,  \* what callers were told: numbers of orders with their statuses
          heard  \* what they were told of the book while the file may not have it

vars == <<book, saved, told, heard>>

Init == book = SeedState /\ saved = SeedState /\ told = {} /\ heard = {}

Ids(st) == {st.orders[i].id : i \in DOMAIN st.orders}

\* The file stays as it was, or follows the book, and what was heard is told for good.
Written == \/ UNCHANGED <<saved, told, heard>>
           \/ saved' = book' /\ told' = told \cup heard /\ heard' = {}

\* An order that nobody has heard of is put before the others.  When the book is full the
\* last one is dropped.
Enters(o) ==
    /\ \A n \in Ids(book) \cup Ids(saved) \cup {a.id : a \in told \cup heard} : n < o.id
    /\ Len(book'.orders) = IF Len(book.orders) < Capacity THEN Len(book.orders) + 1 ELSE Capacity
    /\ book'.orders[1] = o
    /\ \A i \in 2..Len(book'.orders) : book'.orders[i] = book.orders[i - 1]

\* Order i of the book, which was pending, becomes o, on the same terms.
Becomes(i, o) ==
    /\ book.orders[i].status = "PENDING"
    /\ o = [book.orders[i] EXCEPT !.status = o.status, !.price = o.price]
    /\ book'.orders = [book.orders EXCEPT ![i] = o]

\* The order is within its limit, and is paid for with what is there.
Pays(o) ==
    /\ o.status = "FILLED" /\ Marketable(o, o.price) /\ CanFill(book, o, o.price)
    /\ book'.cash = book.cash + CashDelta(o, o.price)
    /\ book'.pos = [book.pos EXCEPT ![o.symbol] = @ + ShareDelta(o)]

PaysNothing(o) == o.status # "FILLED" /\ book'.cash = book.cash /\ book'.pos = book.pos

\* An order is accepted, pending or filled at once.
Accept(o) == /\ Enters(o)
             /\ Pays(o) \/ (o.status = "PENDING" /\ PaysNothing(o))
             /\ Written

\* A pending order is filled, canceled or rejected.
Finish(i, o) == /\ Becomes(i, o)
                /\ Pays(o) \/ (o.status \in {"CANCELED", "REJECTED"} /\ PaysNothing(o))
                /\ Written

\* The order has the status, or had it while it was pending, or newer orders have pushed it
\* out.
Stands(a, st) ==
    IF a.id \in Ids(st)
    THEN \A i \in DOMAIN st.orders : st.orders[i].id = a.id => a.status \in {st.orders[i].status, "PENDING"}
    ELSE Len(st.orders) = Capacity

\* Callers are told something more, of the book alone or for good.
Tell == /\ told \subseteq told' /\ heard \subseteq told' \cup heard'
        /\ \A a \in told' \cup heard' : Stands(a, book)
        /\ \A a \in told' : Stands(a, saved')
        /\ saved' \in {saved, book} /\ UNCHANGED book

Crash == book' = saved /\ heard' = {} /\ UNCHANGED <<saved, told>>

Next == \/ \E i \in DOMAIN book'.orders : Accept(book'.orders[i])
        \/ \E i \in DOMAIN book.orders \cap DOMAIN book'.orders : Finish(i, book'.orders[i])
        \/ Tell \/ Crash

Spec == Init /\ [][Next]_vars
=============================================================================
