------------------------------ MODULE Custody ------------------------------
(***************************************************************************)
(* The custody engine (internal/trading/manager.go): runs that the ticker  *)
(* of StartCustodyLoop or an administrator starts, one at a time under     *)
(* custodyMu, read the broker's orders, analyse the configured stocks and  *)
(* place market orders, while administrators change the settings, traders  *)
(* place orders of their own and the process may restart.                  *)
(*                                                                         *)
(* The broker is the paper broker, whose book is part of the state file,   *)
(* or the official gateway, whose book is elsewhere and survives us; an    *)
(* order placed with it may be reported as failed when the answer is lost. *)
(* Quantities, funds and confidence are left out: they only decide that a  *)
(* stock is passed over or an order refused, which may happen anyway.      *)
(***************************************************************************)
EXTENDS Integers, Sequences, FiniteSets, SequencesExt

CONSTANTS Symbols,         \* the six-digit stock codes
          Loop, Admins,    \* who starts runs: the ticker and the administrators
          Inputs,          \* the settings an administrator may submit
          Signals,         \* what an analysis may say: the side to take and the score
          Instants,        \* the minutes, counted from a Monday 00:00, the clock shows
          Manual,          \* the orders traders place themselves: stock and side
          Window,          \* orders a run reads back: 200 in the code
          GatewayStatuses, \* what the gateway may report of an order it accepted
          AllowLiveCustody, \* the environment variable of that name
          MaxOrders,       \* bound of the model: orders ever placed
          MaxManual        \* bound of the model: those of traders

Runners == {Loop} \cup Admins
Never   == -1              \* a nil LastRunAt
Free    == "nobody"        \* who holds custodyMu when no run does

Working == {"SUBMITTED", "PENDING", "PARTIALLY_FILLED"}
Ended   == {"FILLED", "CANCELED", "REJECTED"}

Sides   == {"BUY", "SELL"}

\* What the settings are, whatever the stocks are called.
SettingsOf(names) == [enabled : BOOLEAN, symbols : Seq(names), sides : SUBSET Sides,
                      buy : Int, sell : Int, interval : Int, lastRun : Int]

ASSUME CustodyAssumption ==
    /\ Free \notin Runners
    /\ Instants \in Seq(Nat) /\ Len(Instants) > 0
    /\ \A i, j \in DOMAIN Instants : i < j => Instants[i] < Instants[j]
    /\ Window \in Nat \ {0} /\ {MaxOrders, MaxManual} \subseteq Nat /\ AllowLiveCustody \in BOOLEAN
    /\ GatewayStatuses \subseteq Working \cup Ended
    /\ Signals \subseteq [side : Sides, score : 0..100]
    /\ Manual \subseteq [symbol : Symbols, side : Sides]
    /\ \A in \in Inputs : in \in SettingsOf(UNION {ToSet(i.symbols) : i \in Inputs})

VARIABLES live,    \* whether NewManager chose the gateway: fixed by the environment
          custody, \* Store.state.Trading.Custody
          book,    \* the broker's orders, here the oldest first
          file,    \* the state file: the settings and, in paper mode, the orders
          lock,    \* who holds custodyMu
          run,     \* where each runner stands
          update,  \* the UpdateCustody of each administrator, past its checks
          tick     \* the clock: a position in Instants

vars == <<live, custody, book, file, lock, run, update, tick>>

Idle  == [pc |-> "idle"]
now   == Instants[tick]

----------------------------------------------------------------------------
(* Settings *)

SeedCustody == [enabled |-> FALSE, symbols |-> <<>>, sides |-> Sides,
                buy |-> 78, sell |-> 30, interval |-> 300, lastRun |-> Never]

\* What an administrator chose: all but the time of the last run.
Chosen(c) == [c EXCEPT !.lastRun = Never]

\* Store.normalize, on every start: a zero is taken for a field that is missing.
Normalize(c) ==
    [c EXCEPT !.buy      = IF @ = 0 THEN 78 ELSE @,
              !.sell     = IF @ = 0 THEN 30 ELSE @,
              !.interval = IF @ = 0 THEN 300 ELSE @]

\* Keeps the first occurrence of each well-formed stock code.
NormalizeSymbols(names) ==
    LET first  == {i \in DOMAIN names : names[i] \in Symbols /\ \A j \in 1..(i - 1) : names[j] # names[i]}
        nth(k) == CHOOSE i \in first : Cardinality({j \in first : j <= i}) = k
    IN  [k \in 1..Cardinality(first) |-> names[nth(k)]]

ValidInput(in) ==
    /\ NormalizeSymbols(in.symbols) # <<>> /\ Len(NormalizeSymbols(in.symbols)) <= 20
    /\ in.buy \in 50..100
    /\ in.sell \in 0..50 /\ in.sell < in.buy
    /\ in.interval \in 60..86400
    /\ in.sides # {}

----------------------------------------------------------------------------
(* Time *)

Day(t) == t \div 1440

MarketOpen(t) ==
    LET minutes == t % 1440
    IN  /\ Day(t) % 7 \notin {5, 6}
        /\ \/ 9*60 + 30 <= minutes /\ minutes <= 11*60 + 30
           \/ 13*60 <= minutes /\ minutes <= 15*60

----------------------------------------------------------------------------

Order == [symbol : Symbols, side : Sides, status : Working \cup Ended,
          at : Nat, custody : BOOLEAN]

Init == /\ live \in BOOLEAN
        /\ custody = SeedCustody
        /\ book = <<>>
        /\ file = [custody |-> SeedCustody, book |-> <<>>]
        /\ lock = Free
        /\ run = [r \in Runners |-> Idle]
        /\ update = [a \in Admins |-> Idle]
        /\ tick = 1

\* persistLocked after a change of the settings or of the paper orders.
Save(c, b, ok) ==
    file' = IF ok THEN [custody |-> c, book |-> IF live THEN <<>> ELSE b] ELSE file

Goto(r, t) == run' = [run EXCEPT ![r] = t]

----------------------------------------------------------------------------
(* UpdateCustody *)

\* The request passes its checks against the settings of this moment.
CheckUpdate(a, in, confirmed) ==
    /\ update[a] = Idle
    /\ ValidInput(in)
    /\ in.enabled /\ ~custody.enabled => confirmed
    /\ in.enabled /\ live => AllowLiveCustody
    /\ LET new == [in EXCEPT !.symbols = NormalizeSymbols(@), !.lastRun = custody.lastRun]
       IN  update' = [update EXCEPT ![a] = [pc |-> "write", new |-> new, wasOn |-> custody.enabled]]
    /\ UNCHANGED <<live, custody, book, file, lock, run, tick>>

WriteUpdate(a, ok) ==
    /\ update[a].pc = "write"
    /\ custody' = update[a].new
    /\ Save(custody', book, ok)
    /\ update' = [update EXCEPT ![a] = Idle]
    /\ UNCHANGED <<live, book, lock, run, tick>>

----------------------------------------------------------------------------
(* RunCustodyOnce *)

\* The ticker looks at the settings before it asks for the lock.
Wake ==
    /\ run[Loop] = Idle
    /\ custody.enabled
    /\ MarketOpen(now)
    /\ custody.lastRun # Never => 60 * (now - custody.lastRun) >= custody.interval
    /\ Goto(Loop, [pc |-> "lock", force |-> FALSE])
    /\ UNCHANGED <<live, custody, book, file, lock, update, tick>>

\* An administrator asks for a run, maybe outside the trading session.
RunNow(a, force) ==
    /\ run[a] = Idle
    /\ Goto(a, [pc |-> "lock", force |-> force])
    /\ UNCHANGED <<live, custody, book, file, lock, update, tick>>

MayRun(force) ==
    /\ custody.enabled
    /\ live => AllowLiveCustody
    /\ MarketOpen(now) \/ (force /\ ~live)

\* fault: custodyMu is not taken
FaultyStart(r) ==
    /\ run[r].pc = "lock"
    /\ MayRun(run[r].force)
    /\ lock' = r
    /\ Goto(r, [pc |-> "read", settings |-> Chosen(custody), at |-> now])
    /\ UNCHANGED <<live, custody, book, file, update, tick>>

Start(r) ==
    /\ run[r].pc = "lock"
    /\ lock = Free
    /\ MayRun(run[r].force)
    /\ lock' = r
    /\ Goto(r, [pc |-> "read", settings |-> Chosen(custody), at |-> now])
    /\ UNCHANGED <<live, custody, book, file, update, tick>>

Decline(r) ==
    /\ run[r].pc = "lock"
    /\ lock = Free
    /\ ~MayRun(run[r].force)
    /\ Goto(r, Idle)
    /\ UNCHANGED <<live, custody, book, file, lock, update, tick>>

\* The orders as they are now; what happens to them later in the run is not seen.
ReadOrders(r) ==
    /\ run[r].pc = "read"
    /\ LET n == Len(book)
       IN  Goto(r, [pc |-> "stocks", settings |-> run[r].settings, at |-> run[r].at,
                    seen |-> SubSeq(book, IF n > Window THEN n - Window + 1 ELSE 1, n),
                    todo |-> run[r].settings.symbols])
    /\ UNCHANGED <<live, custody, book, file, lock, update, tick>>

\* fault: the settings read at the start of the run are written back with the result
FaultyRecord(r, ok) ==
    /\ custody' = [run[r].settings EXCEPT !.lastRun = run[r].at]
    /\ Save(custody', book, ok)

\* recordCustodyResult changes no setting an administrator chose.
Record(r, ok) ==
    /\ custody' = [custody EXCEPT !.lastRun = run[r].at]
    /\ Save(custody', book, ok)

\* fault: the error return forgets the lock
FaultyReadFails(r, ok) ==
    /\ run[r].pc = "read"
    /\ Record(r, ok)
    /\ Goto(r, Idle)
    /\ UNCHANGED <<live, book, lock, update, tick>>

\* The orders or the account cannot be read.
ReadFails(r, ok) ==
    /\ run[r].pc = "read"
    /\ Record(r, ok)
    /\ Goto(r, Idle)
    /\ lock' = Free
    /\ UNCHANGED <<live, book, update, tick>>

Wants(c, sig) ==
    /\ sig.side \in c.sides
    /\ sig.side = "BUY"  => sig.score >= c.buy
    /\ sig.side = "SELL" => sig.score <= c.sell

HasOrderToday(orders, symbol, side, t) ==
    \E i \in DOMAIN orders :
        /\ orders[i].symbol = symbol /\ orders[i].side = side
        /\ orders[i].status \in {"PENDING", "FILLED"}
        /\ Day(orders[i].at) = Day(t)

\* The next stock is passed over (no analysis, low confidence, no signal, no price, no
\* quantity) or its order is refused.
PassOver(r) ==
    /\ run[r].pc = "stocks" /\ run[r].todo # <<>>
    /\ run' = [run EXCEPT ![r].todo = Tail(@)]
    /\ UNCHANGED <<live, custody, book, file, lock, update, tick>>

\* A market order fills at once in the paper broker.  The run goes on in the same way
\* when the order was placed and the save failed or the answer was lost.
Place(r, sig, status, ok) ==
    /\ run[r].pc = "stocks" /\ run[r].todo # <<>>
    /\ Len(book) < MaxOrders
    /\ status \in IF live THEN GatewayStatuses ELSE {"FILLED"}
    /\ Wants(run[r].settings, sig)
    /\ ~HasOrderToday(run[r].seen, Head(run[r].todo), sig.side, run[r].at)
    /\ book' = Append(book, [symbol |-> Head(run[r].todo), side |-> sig.side, status |-> status,
                             at |-> now, custody |-> TRUE])
    /\ Save(custody, book', ok)
    /\ run' = [run EXCEPT ![r].todo = Tail(@)]
    /\ UNCHANGED <<live, custody, lock, update, tick>>

Finish(r, ok) ==
    /\ run[r].pc = "stocks" /\ run[r].todo = <<>>
    /\ Record(r, ok)
    /\ Goto(r, Idle)
    /\ lock' = Free
    /\ UNCHANGED <<live, book, update, tick>>

----------------------------------------------------------------------------
(* The rest of the system *)

\* A trader places an order of its own.
ManualOrder(m, status, ok) ==
    /\ Len(book) < MaxOrders
    /\ Len(SelectSeq(book, LAMBDA order : ~order.custody)) < MaxManual
    /\ status \in IF live THEN GatewayStatuses ELSE {"PENDING", "FILLED"}
    /\ book' = Append(book, [symbol |-> m.symbol, side |-> m.side, status |-> status,
                             at |-> now, custody |-> FALSE])
    /\ Save(custody, book', ok)
    /\ UNCHANGED <<live, custody, lock, run, update, tick>>

\* A working order is executed, canceled or refused.
Progress(i, status, ok) ==
    /\ book[i].status \in Working
    /\ status \in (IF live THEN GatewayStatuses ELSE Ended) \ {book[i].status}
    /\ book' = [book EXCEPT ![i].status = status]
    /\ Save(custody, book', ok)
    /\ UNCHANGED <<live, custody, lock, run, update, tick>>

\* RecordAudit, and every other change of the store, saves the whole state.
Flush ==
    /\ Save(custody, book, TRUE)
    /\ UNCHANGED <<live, custody, book, lock, run, update, tick>>

Tick ==
    /\ tick < Len(Instants)
    /\ tick' = tick + 1
    /\ UNCHANGED <<live, custody, book, file, lock, run, update>>

\* The process stops and starts again with the same environment.
Restart ==
    /\ custody' = Normalize(file.custody)
    /\ book' = IF live THEN book ELSE file.book
    /\ lock' = Free
    /\ run' = [r \in Runners |-> Idle]
    /\ update' = [a \in Admins |-> Idle]
    /\ UNCHANGED <<live, file, tick>>

----------------------------------------------------------------------------

\* What a run does once it has the lock or waits for it.
Step(r) ==
    \/ Start(r) \/ Decline(r) \/ ReadOrders(r) \/ PassOver(r)
    \/ \E ok \in BOOLEAN :
          \/ ReadFails(r, ok) \/ Finish(r, ok)
          \/ \E sig \in Signals, status \in Working \cup Ended : Place(r, sig, status, ok)

Update(a) == \/ \E in \in Inputs, confirmed \in BOOLEAN : CheckUpdate(a, in, confirmed)
             \/ \E ok \in BOOLEAN : WriteUpdate(a, ok)

Others ==
    \/ \E ok \in BOOLEAN, status \in Working \cup Ended :
          \/ \E m \in Manual : ManualOrder(m, status, ok)
          \/ \E i \in DOMAIN book : Progress(i, status, ok)
    \/ Flush

Next == \/ \E r \in Runners : Step(r)
        \/ \E a \in Admins : Update(a) \/ \E force \in BOOLEAN : RunNow(a, force)
        \/ Wake \/ Others \/ Tick \/ Restart

Spec == Init /\ [][Next]_vars

\* A run keeps going, and a caller that waits for the mutex gets it in the end.
FairSpec == Spec /\ \A r \in Runners : SF_vars(Step(r))

----------------------------------------------------------------------------
(* Properties *)

Settings == SettingsOf(Symbols)

RunState == {Idle}
            \cup [pc : {"lock"}, force : BOOLEAN]
            \cup [pc : {"read"}, settings : Settings, at : Nat]
            \cup [pc : {"stocks"}, settings : Settings, at : Nat, seen : Seq(Order),
                  todo : Seq(Symbols)]

TypeOK == /\ live \in BOOLEAN
          /\ custody \in Settings
          /\ book \in Seq(Order)
          /\ file \in [custody : Settings, book : Seq(Order)]
          /\ lock \in Runners \cup {Free}
          /\ run \in [Runners -> RunState]
          /\ update \in [Admins -> {Idle} \cup [pc : {"write"}, new : Settings, wasOn : BOOLEAN]]
          /\ tick \in DOMAIN Instants

\* Custody acts at most once a day on a stock and side: of two of its orders that were
\* not canceled or refused, the later one can only have been placed because Window
\* other orders had pushed the earlier one out of what a run reads back.  Runs that
\* overlap or repeat, lost answers and restarts make no difference.
OncePerDay ==
    \A i, j \in DOMAIN book :
        (/\ i < j /\ book[i].custody /\ book[j].custody
         /\ book[i].symbol = book[j].symbol /\ book[i].side = book[j].side
         /\ Day(book[i].at) = Day(book[j].at)
         /\ book[i].status \notin {"CANCELED", "REJECTED"}
         /\ book[j].status \notin {"CANCELED", "REJECTED"}) => j - i > Window

\* A run never undoes a change of the settings that was made while it was under way:
\* until a restart only UpdateCustody changes what an administrator chose.
RunsKeepSettings ==
    [][\/ Chosen(custody') = Chosen(custody)
       \/ update' # update
       \/ Restart]_vars

\* Every run that was asked for ends, and the next one gets the lock.
EveryRunEnds == \A r \in Runners : run[r].pc # "idle" ~> run[r].pc = "idle"

\* "Switching custody on needs an explicit confirmation" (manager.go:189): off becomes on
\* only by an update that saw custody off, which needs the confirmation, or by reading
\* the file again.
SwitchedOnByConsent ==
    [][~custody.enabled /\ custody'.enabled =>
          \/ \E a \in Admins : update[a].pc = "write" /\ update'[a] = Idle /\ ~update[a].wasOn
          \/ Restart]_vars
=============================================================================
