---------------------------- MODULE PaperBroker ----------------------------
(***************************************************************************)
(* The paper broker (internal/trading/paper.go) over the store             *)
(* (internal/store/store.go), driven by concurrent callers: HTTP handlers  *)
(* and the custody engine, each a goroutine.                               *)
(*                                                                         *)
(* The store guards its memory with one lock, so each locked section is    *)
(* one step; between two of them a caller holds no lock and the others     *)
(* run.  Every mutation rewrites the state file from memory; when that     *)
(* fails the caller gets an error and the memory keeps the change, and a   *)
(* repeat of the request is answered from memory.  A restart reloads the   *)
(* file and forgets every running call.                                    *)
(***************************************************************************)
EXTENDS PaperLedger, Sums, FiniteSets

CONSTANTS Clients,    \* concurrent callers of the manager
          Requests,   \* the order requests they may send, valid or not
          Prices,     \* the prices the market may quote
          MaxHistory, \* orders the book keeps: 2000 in the code
          MaxOrders   \* bound of the model: orders ever accepted

ASSUME BrokerAssumption ==
    /\ IsFiniteSet(Clients)
    /\ MaxHistory \in Nat \ {0} /\ MaxOrders \in Nat /\ Prices \subseteq Int
    /\ \A req \in Requests : /\ req.cid \in ClientIds \cup {NoCid}
                             /\ req.qty \in Int /\ req.limit \in Int

VARIABLES mem,    \* Store.state.Trading
          disk,   \* the state file
          task,   \* where each caller stands, with its local variables
          nextId, \* source of the random, never repeated order ids
          acked,  \* history: the (order, status) pairs callers were answered with
          seen    \* history: those that only the memory vouches for as yet

vars == <<mem, disk, task, nextId, acked, seen>>

ValidRequests == {req \in Requests : ValidRequest(req)}

Answer == [id : Nat, status : Statuses]
Idle   == [pc |-> "idle"]

\* "quote" to "audit" is one PlaceOrder or CancelOrder, "match" and "settle" one
\* ProcessPending.  An answer is a set: empty when the call returns an error.
Task == {Idle}
        \cup [pc : {"quote"}, req : ValidRequests]
        \cup [pc : {"commit"}, req : ValidRequests, price : Prices]
        \cup [pc : {"audit"}, answer : SUBSET Answer]
        \cup [pc : {"match"}, queue : SUBSET Order]
        \cup [pc : {"settle"}, queue : SUBSET Order, order : Order, price : Prices]

Init == /\ mem = SeedState
        /\ disk = SeedState
        /\ task = [c \in Clients |-> Idle]
        /\ nextId = 1
        /\ acked = {}
        /\ seen = {}

----------------------------------------------------------------------------
(* The store *)

\* persistLocked after a change: the file follows the memory, or stays as it was.
Save(st, ok) == mem' = st /\ disk' = IF ok THEN st ELSE disk

\* What callers have been told by then: a save vouches for all that was told from memory.
Told(answer, ok) == /\ acked' = acked \cup answer \cup IF ok THEN seen ELSE {}
                    /\ seen' = IF ok THEN {} ELSE seen

\* The newest order comes first and the oldest beyond MaxHistory are dropped.
Prepend(o, orders) ==
    LET n == IF Len(orders) < MaxHistory THEN Len(orders) + 1 ELSE MaxHistory
    IN  [i \in 1..n |-> IF i = 1 THEN o ELSE orders[i - 1]]

\* Gives the pending order of that id its final status and price.
Mark(st, id, status, p) ==
    [st EXCEPT !.orders =
        [i \in DOMAIN st.orders |->
            IF st.orders[i].id = id /\ st.orders[i].status = "PENDING"
            THEN [st.orders[i] EXCEPT !.status = status, !.price = p]
            ELSE st.orders[i]]]

IsPending(st, id) == \E i \in DOMAIN st.orders : st.orders[i].id = id
                                                  /\ st.orders[i].status = "PENDING"

OrderByClientID(cid) == {i \in DOMAIN mem.orders : mem.orders[i].cid = cid}

Goto(c, t) == task' = [task EXCEPT ![c] = t]

\* Back to the caller through RecordAudit, which saves once more.
Report(c, answer) == Goto(c, [pc |-> "audit", answer |-> answer])

----------------------------------------------------------------------------
(* PlaceOrder *)

\* MaxOrders is never exceeded, not even when every call under way is accepted.
RoomForOrder ==
    nextId + Cardinality({c \in Clients : task[c].pc \in {"quote", "commit"}}) <= MaxOrders

Refuse(c, req) ==
    /\ task[c] = Idle
    /\ ~ValidRequest(req)
    /\ Report(c, {})
    /\ UNCHANGED <<mem, disk, nextId, acked, seen>>

\* fault: a repeated client id is not looked up
FaultySubmit(c, req) ==
    /\ task[c] = Idle
    /\ RoomForOrder
    /\ ValidRequest(req)
    /\ Goto(c, [pc |-> "quote", req |-> req])
    /\ UNCHANGED <<mem, disk, nextId, acked, seen>>

\* A request whose client id is not in the book goes on to ask for a price.
Submit(c, req) ==
    /\ task[c] = Idle
    /\ RoomForOrder
    /\ ValidRequest(req)
    /\ req.cid = NoCid \/ OrderByClientID(req.cid) = {}
    /\ Goto(c, [pc |-> "quote", req |-> req])
    /\ UNCHANGED <<mem, disk, nextId, acked, seen>>

InFile(a) == \E i \in DOMAIN disk.orders :
                 disk.orders[i].id = a.id /\ disk.orders[i].status = a.status

\* A request whose client id is in the book is answered at once, and without an error,
\* with what the memory says of the newest such order, saved or not.
Repeat(c, req) ==
    /\ task[c] = Idle
    /\ ValidRequest(req)
    /\ \E i \in OrderByClientID(req.cid) :
          LET a == [id |-> mem.orders[i].id, status |-> mem.orders[i].status]
          IN  /\ \A j \in OrderByClientID(req.cid) : i <= j
              /\ acked' = IF InFile(a) THEN acked \cup {a} ELSE acked
              /\ seen' = IF InFile(a) THEN seen ELSE seen \cup {a}
    /\ UNCHANGED <<mem, disk, task, nextId>>

QuoteOrder(c, p) ==
    /\ task[c].pc = "quote"
    /\ p > 0
    /\ Goto(c, [pc |-> "commit", req |-> task[c].req, price |-> p])
    /\ UNCHANGED <<mem, disk, nextId, acked, seen>>

\* No quote, or a price that is not positive.
QuoteFails(c) ==
    /\ task[c].pc = "quote"
    /\ Report(c, {})
    /\ UNCHANGED <<mem, disk, nextId, acked, seen>>

NewOrder(req, id) ==
    [id |-> id, cid |-> IF req.cid = NoCid THEN id ELSE req.cid, symbol |-> req.symbol,
     side |-> req.side, type |-> OrderType(req), qty |-> req.qty, limit |-> OrderLimit(req),
     status |-> "PENDING", price |-> 0]

\* fault: the caller is told of the order although the save failed
FaultyEnter(c, o, st, ok) ==
    /\ Save([st EXCEPT !.orders = Prepend(o, @)], ok)
    /\ nextId' = nextId + 1
    /\ Report(c, {[id |-> o.id, status |-> o.status]})
    /\ Told({}, ok)

Enter(c, o, st, ok) ==
    /\ Save([st EXCEPT !.orders = Prepend(o, @)], ok)
    /\ nextId' = nextId + 1
    /\ Report(c, IF ok THEN {[id |-> o.id, status |-> o.status]} ELSE {})
    /\ Told({}, ok)

\* A marketable order fills as it enters the book.
FillNow(c, ok) ==
    /\ task[c].pc = "commit"
    /\ LET o == NewOrder(task[c].req, nextId)
           p == task[c].price
       IN  /\ Marketable(o, p)
           /\ CanFill(mem, o, p)
           /\ Enter(c, [o EXCEPT !.status = "FILLED", !.price = p], FillLedger(mem, o, p), ok)

\* Without the funds or the shares it is never recorded.
FillRefused(c) ==
    /\ task[c].pc = "commit"
    /\ LET o == NewOrder(task[c].req, nextId)
       IN  Marketable(o, task[c].price) /\ ~CanFill(mem, o, task[c].price)
    /\ Report(c, {})
    /\ UNCHANGED <<mem, disk, nextId, acked, seen>>

\* A limit order away from the market rests in the book.
Rest(c, ok) ==
    /\ task[c].pc = "commit"
    /\ LET o == NewOrder(task[c].req, nextId)
       IN  ~Marketable(o, task[c].price) /\ Enter(c, o, mem, ok)

\* RecordAudit ignores a failed save; then the call returns to its caller.
Audit(c, ok) ==
    /\ task[c].pc = "audit"
    /\ Save(mem, ok)
    /\ Told(task[c].answer, ok)
    /\ Goto(c, Idle)
    /\ UNCHANGED nextId

----------------------------------------------------------------------------
(* CancelOrder: the newest order of that id or client id, if it is pending.  An   *)
(* error, which this action leaves out, changes nothing and writes no audit.      *)

Named(key) == {i \in DOMAIN mem.orders : key \in {mem.orders[i].id, mem.orders[i].cid}}

\* fault: the caller is told of the cancellation although the save failed
FaultyCancel(c, i, ok) ==
    /\ task[c] = Idle
    /\ \E key \in {mem.orders[i].id, mem.orders[i].cid} : \A j \in Named(key) : i <= j
    /\ mem.orders[i].status = "PENDING"
    /\ Save(Mark(mem, mem.orders[i].id, "CANCELED", 0), ok)
    /\ Report(c, {[id |-> mem.orders[i].id, status |-> "CANCELED"]})
    /\ Told({}, ok)
    /\ UNCHANGED nextId

Cancel(c, i, ok) ==
    /\ task[c] = Idle
    /\ \E key \in {mem.orders[i].id, mem.orders[i].cid} : \A j \in Named(key) : i <= j
    /\ mem.orders[i].status = "PENDING"
    /\ Save(Mark(mem, mem.orders[i].id, "CANCELED", 0), ok)
    /\ IF ok THEN Report(c, {[id |-> mem.orders[i].id, status |-> "CANCELED"]})
             ELSE UNCHANGED task
    /\ Told({}, ok)
    /\ UNCHANGED nextId

----------------------------------------------------------------------------
(* ProcessPending, which every read of the account begins with: a copy of the     *)
(* pending orders is taken, then each, the newest first, is quoted without the    *)
(* lock and settled under it.                                                     *)

Pending(st) == {st.orders[i] : i \in {j \in DOMAIN st.orders : st.orders[j].status = "PENDING"}}

StartMatching(c) ==
    /\ task[c] = Idle
    /\ Pending(mem) # {}
    /\ Goto(c, [pc |-> "match", queue |-> Pending(mem)])
    /\ UNCHANGED <<mem, disk, nextId, acked, seen>>

\* Orders are prepended as they are numbered, so the first of the copy is the newest.
IsFirst(o, queue) == \A other \in queue : other.id <= o.id

\* fault: the order stays in the pass
FaultyPassOn(c, o) == Goto(c, [pc |-> "match", queue |-> task[c].queue \cup {o}])

PassOn(c, o) ==
    LET rest == task[c].queue \ {o}
    IN  Goto(c, IF rest = {} THEN Idle ELSE [pc |-> "match", queue |-> rest])

QuoteMatch(c, o, p) ==
    /\ IsFirst(o, task[c].queue)
    /\ Marketable(o, p)
    /\ Goto(c, [pc |-> "settle", queue |-> task[c].queue, order |-> o, price |-> p])
    /\ UNCHANGED <<mem, disk, nextId, acked, seen>>

\* No quote, or the limit is not reached: on to the next order.
SkipMatch(c, o) ==
    /\ IsFirst(o, task[c].queue)
    /\ PassOn(c, o)
    /\ UNCHANGED <<mem, disk, nextId, acked, seen>>

\* fault: settles the copied order without looking whether it is still pending
FaultySettledTwice(st, o, p) ==
    IF CanFill(st, o, p) THEN Mark(FillLedger(st, o, p), o.id, "FILLED", p)
    ELSE Mark(st, o.id, "REJECTED", 0)

\* fault: pays the limit and records the quoted price
FaultySettledAtLimit(st, o, p) ==
    IF ~IsPending(st, o.id) THEN st
    ELSE IF CanFill(st, o, p) THEN Mark(FillLedger(st, o, o.limit), o.id, "FILLED", p)
         ELSE Mark(st, o.id, "REJECTED", 0)

\* fault: writes the copied order back over whatever the book says by now
FaultySettledBlindly(st, o, p) ==
    [st EXCEPT !.orders = [i \in DOMAIN @ |->
        IF @[i].id = o.id THEN [o EXCEPT !.status = "REJECTED"] ELSE @[i]]]

\* The ledger after settling o: filled or rejected when it is still pending.
Settled(st, o, p) ==
    IF ~IsPending(st, o.id) THEN st
    ELSE IF CanFill(st, o, p) THEN Mark(FillLedger(st, o, p), o.id, "FILLED", p)
         ELSE Mark(st, o.id, "REJECTED", 0)

\* The file is rewritten even when the order was no longer there to settle.
Settle(c, ok) ==
    /\ task[c].pc = "settle"
    /\ Save(Settled(mem, task[c].order, task[c].price), ok)
    /\ PassOn(c, task[c].order)
    /\ Told({}, ok)
    /\ UNCHANGED nextId

----------------------------------------------------------------------------
\* The process stops and starts again: Open reads the file, and nothing vouches any
\* more for what was told from the memory and not saved since.
Restart ==
    /\ mem' = disk
    /\ task' = [c \in Clients |-> Idle]
    /\ seen' = {}
    /\ UNCHANGED <<disk, nextId, acked>>

\* What a caller that is under way does next.
Step(c) ==
    \/ \E p \in Prices : QuoteOrder(c, p)
    \/ QuoteFails(c) \/ FillRefused(c)
    \/ /\ task[c].pc = "match"
       /\ \E o \in task[c].queue : SkipMatch(c, o) \/ \E p \in Prices : QuoteMatch(c, o, p)
    \/ \E ok \in BOOLEAN : FillNow(c, ok) \/ Rest(c, ok) \/ Audit(c, ok) \/ Settle(c, ok)

Begin(c) ==
    \/ \E req \in Requests : Refuse(c, req) \/ Submit(c, req) \/ Repeat(c, req)
    \/ \E i \in DOMAIN mem.orders, ok \in BOOLEAN : Cancel(c, i, ok)
    \/ StartMatching(c)

Next == (\E c \in Clients : Begin(c) \/ Step(c)) \/ Restart

Spec == Init /\ [][Next]_vars

\* A goroutine keeps running: quotes and saves return, with or without an error.
FairSpec == Spec /\ \A c \in Clients : WF_vars(Step(c))

----------------------------------------------------------------------------
(* Properties *)

TypeOK == /\ mem \in TradingState
          /\ disk \in TradingState
          /\ task \in [Clients -> Task]
          /\ nextId \in Nat
          /\ acked \subseteq Answer /\ seen \subseteq Answer

With(st, status) == {i \in DOMAIN st.orders : st.orders[i].status = status}

\* What an order has brought or cost, and moved of a stock; then order by order.
Paid(o)     == IF o.status = "FILLED" THEN CashDelta(o, o.price) ELSE 0
Moved(o, s) == IF o.status = "FILLED" /\ o.symbol = s THEN ShareDelta(o) ELSE 0
Payments(st)  == [i \in DOMAIN st.orders |-> Paid(st.orders[i])]
Shares(st, s) == [i \in DOMAIN st.orders |-> Moved(st.orders[i], s)]
Balanced(st) ==
    /\ st.cash = InitialCash + Total(Payments(st), Len(st.orders))
    /\ \A s \in Symbols : st.pos[s] = Total(Shares(st, s), Len(st.orders))

\* While no order has been dropped, the cash and every holding are exactly what the
\* filled orders of the book add up to, in memory and in the file alike: no
\* interleaving of fillPaperOrder, failed save or restart books a trade twice or
\* loses half of one.
BooksBalance == nextId <= MaxHistory + 1 => Balanced(mem) /\ Balanced(disk)

\* Nothing is ever sold short, and cash goes below zero only through sales worth
\* less than their fee, each by at most the minimum commission (and by the tolerance
\* of the funds check).  fillPaperOrder checks the funds of a buy but not of a sale.
Sales(st) == {i \in With(st, "FILLED") : st.orders[i].side = "SELL"}
Solvent ==
    /\ \A s \in Symbols : mem.pos[s] >= 0
    /\ nextId <= MaxHistory + 1 =>
           mem.cash >= -(CashTolerance + Cardinality(Sales(mem)) * MinCommission)

\* A caller that was told its order is filled, canceled or rejected is never contradicted:
\* not by a matching pass that copied the order while it was pending, nor by a failed
\* save, nor by a restart.  A repeated request is told what the memory says even when
\* the save of it failed: that too stands while the process runs, and for good from the
\* next save that succeeds.
Upholds(st, answers) ==
    \A a \in answers : a.status \in Terminal =>
        \A i \in DOMAIN st.orders : st.orders[i].id = a.id => st.orders[i].status = a.status
AckedIsFinal == Upholds(mem, acked \cup seen) /\ Upholds(disk, acked)

\* An order a caller was told of stays in the book and in the file across failed
\* saves and restarts, until MaxHistory newer orders push it out; one a repeat was told
\* of from memory stays in the book, and in the file as well once a save has succeeded.
StillHas(st, answers) ==
    \A a \in answers : \/ \E i \in DOMAIN st.orders : st.orders[i].id = a.id
                       \/ Len(st.orders) = MaxHistory
AckedIsKept == StillHas(mem, acked \cup seen) /\ StillHas(disk, acked)

\* PlaceOrder looks for the client order id and inserts the order under two separate
\* locks, so calls that race can both be accepted, but never more than there are
\* callers: a repeat that starts after the order is in the book adds nothing.
RepeatsAreRaces ==
    \A cid \in ClientIds : Cardinality(OrderByClientID(cid)) <= Cardinality(Clients)

\* Between restarts cash and holdings move only with one order becoming FILLED, by
\* exactly what a fill of that order at its recorded price is worth.
FilledIn(st) == {st.orders[i] : i \in With(st, "FILLED")}
OneFillAtATime ==
    [][\/ mem' = disk
       \/ mem'.cash = mem.cash /\ mem'.pos = mem.pos /\ FilledIn(mem') \subseteq FilledIn(mem)
       \/ \E o \in FilledIn(mem') :
             /\ \A f \in FilledIn(mem) : f.id # o.id
             /\ FilledIn(mem') \subseteq FilledIn(mem) \cup {o}
             /\ mem'.cash = mem.cash + CashDelta(o, o.price)
             /\ mem'.pos = [mem.pos EXCEPT ![o.symbol] = @ + ShareDelta(o)]]_mem

\* Once the file says that an order is filled, canceled or rejected, no later version
\* of the file says otherwise, restarts included.
SavedIsFinal ==
    [][\A i \in DOMAIN disk.orders, j \in DOMAIN disk'.orders :
          (/\ disk.orders[i].id = disk'.orders[j].id
           /\ disk.orders[i].status \in Terminal) => disk'.orders[j] = disk.orders[i]]_disk

Promised == INSTANCE AtomicBroker WITH Capacity <- MaxHistory, book <- mem, saved <- disk,
                                    told <- acked, heard <- seen

\* Whatever runs at the same time and fails, the calls take effect as those of the abstract
\* broker do: each at an instant of its own, in full, and for good.
CallsAreAtomic == Promised!Spec

\* Every call comes back to its caller (unless the process stops): no order that
\* cannot be quoted or settled keeps a matching pass going for ever.
EveryCallReturns == \A c \in Clients : task[c].pc # "idle" ~> task[c].pc = "idle"
=============================================================================
