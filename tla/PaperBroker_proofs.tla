------------------------- MODULE PaperBroker_proofs -------------------------
(***************************************************************************)
(* Theorems about PaperBroker, for any number of callers, stocks, requests *)
(* and prices and any length of the order book.                            *)
(***************************************************************************)
EXTENDS PaperBroker, Sums_proofs, SequenceTheorems, FiniteSetTheorems, TLAPS

----------------------------------------------------------------------------
(* The operators of the ledger and of the book *)

\* A function on 1..n is a sequence.
LEMMA FunctionIsSeq ==
    ASSUME NEW S, NEW n \in Nat, NEW f \in [1..n -> S]
    PROVE  f \in Seq(S)
BY SeqDef

\* What stands in the book is an order.
LEMMA BookOrders ==
    ASSUME NEW st \in TradingState, NEW i \in DOMAIN st.orders
    PROVE  st.orders[i] \in Order /\ DOMAIN st.orders \subseteq Nat
<1>1. st.orders \in Seq(Order)
  BY DEF TradingState
<1>2. Len(st.orders) \in Nat /\ DOMAIN st.orders = 1..Len(st.orders)
  BY <1>1, LenProperties
<1> QED BY <1>1, <1>2, ElementOfSeq

\* A request that passed validateOrderRequest makes a well-formed order.
LEMMA NewOrderType ==
    ASSUME NEW req \in ValidRequests, NEW id \in Nat
    PROVE  NewOrder(req, id) \in Order
<1>1. /\ req.type \in {NoType, "MARKET", "LIMIT"} /\ req.side \in {"BUY", "SELL"}
      /\ req.symbol \in Symbols /\ 0 < req.qty
  BY DEF ValidRequests, ValidRequest
<1>2. req.cid \in ClientIds \cup {NoCid} /\ req.qty \in Int /\ req.limit \in Int
  BY BrokerAssumption DEF ValidRequests
<1>3. OrderType(req) \in {"MARKET", "LIMIT"}
  BY <1>1 DEF OrderType
<1>4. OrderLimit(req) \in Int
  BY <1>2 DEF OrderLimit, NoLimit
<1>5. req.qty \in Nat
  BY <1>1, <1>2
<1> QED BY <1>1, <1>2, <1>3, <1>4, <1>5 DEF NewOrder, Order, Statuses, NoCid

\* Entering an order moves the others one place down and drops at most the oldest.
LEMMA PrependType ==
    ASSUME NEW o \in Order, NEW s \in Seq(Order)
    PROVE  /\ Prepend(o, s) \in Seq(Order)
           /\ DOMAIN Prepend(o, s) \subseteq Nat
           /\ \A i \in DOMAIN Prepend(o, s) :
                 IF i = 1 THEN Prepend(o, s)[i] = o
                 ELSE i - 1 \in DOMAIN s /\ Prepend(o, s)[i] = s[i - 1]
<1> DEFINE n == IF Len(s) < MaxHistory THEN Len(s) + 1 ELSE MaxHistory
<1>1. Len(s) \in Nat /\ DOMAIN s = 1..Len(s)
  BY LenProperties
<1>2. n \in Nat /\ n <= Len(s) + 1
  BY <1>1, BrokerAssumption
<1>3. Prepend(o, s) = [i \in 1..n |-> IF i = 1 THEN o ELSE s[i - 1]]
  BY DEF Prepend
<1> HIDE DEF n
<1>4. ASSUME NEW i \in 1..n, i # 1
      PROVE  i - 1 \in DOMAIN s /\ s[i - 1] \in Order
  <2>1. i - 1 \in 1..Len(s)
    BY <1>1, <1>2, <1>4
  <2> QED BY <2>1, <1>1, ElementOfSeq
<1>5. Prepend(o, s) \in [1..n -> Order]
  BY <1>3, <1>4
<1>6. Prepend(o, s) \in Seq(Order)
  BY <1>2, <1>5, FunctionIsSeq
<1>7. DOMAIN Prepend(o, s) = 1..n
  BY <1>3
<1> QED BY <1>2, <1>3, <1>4, <1>6, <1>7

\* The new order is the first of the book, which grows by no more than that order.
LEMMA PrependFirst ==
    ASSUME NEW o \in Order, NEW s \in Seq(Order)
    PROVE  /\ 1 \in DOMAIN Prepend(o, s) /\ Prepend(o, s)[1] = o
           /\ Len(Prepend(o, s)) \in Nat /\ Len(Prepend(o, s)) <= Len(s) + 1
<1> DEFINE n == IF Len(s) < MaxHistory THEN Len(s) + 1 ELSE MaxHistory
<1>1. n \in Nat /\ n # 0 /\ n <= Len(s) + 1
  BY LenProperties, BrokerAssumption
<1>2. Prepend(o, s) = [i \in 1..n |-> IF i = 1 THEN o ELSE s[i - 1]]
  BY DEF Prepend
<1>3. Prepend(o, s) \in Seq(Order)
  BY PrependType
<1> HIDE DEF n
<1>4. 1 \in DOMAIN Prepend(o, s) /\ Prepend(o, s)[1] = o /\ DOMAIN Prepend(o, s) = 1..n
  BY <1>1, <1>2
<1>5. Len(Prepend(o, s)) \in Nat /\ DOMAIN Prepend(o, s) = 1..Len(Prepend(o, s))
  BY <1>3, LenProperties
<1>6. Len(Prepend(o, s)) = n
  BY <1>1, <1>4, <1>5
<1> QED BY <1>1, <1>4, <1>5, <1>6

\* Giving an order its final status keeps the book well-formed and touches only the
\* pending order of that id.
LEMMA MarkType ==
    ASSUME NEW st \in TradingState, NEW id \in Nat, NEW status \in Statuses, NEW p \in Int
    PROVE  Mark(st, id, status, p) \in TradingState
<1> DEFINE f == Mark(st, id, status, p).orders
<1>1. st.orders \in Seq(Order)
  BY DEF TradingState
<1>2. DOMAIN st.orders = 1..Len(st.orders) /\ Len(st.orders) \in Nat
  BY <1>1, LenProperties
<1>3. \A i \in DOMAIN st.orders : st.orders[i] \in Order
  BY <1>1, <1>2, ElementOfSeq
<1>4. f = [i \in DOMAIN st.orders |->
            IF st.orders[i].id = id /\ st.orders[i].status = "PENDING"
            THEN [st.orders[i] EXCEPT !.status = status, !.price = p]
            ELSE st.orders[i]]
  BY DEF Mark, TradingState
<1>5. Mark(st, id, status, p) = [st EXCEPT !.orders = f]
  BY <1>4 DEF Mark
<1> HIDE DEF f
<1>6. f \in [1..Len(st.orders) -> Order]
  BY <1>2, <1>3, <1>4 DEF Order
<1>7. f \in Seq(Order)
  BY <1>2, <1>6, FunctionIsSeq
<1> QED BY <1>5, <1>7 DEF TradingState

\* A fill is an integer amount of money and leaves the book itself alone.
LEMMA FillLedgerType ==
    ASSUME NEW st \in TradingState, NEW o \in Order, NEW p \in Int
    PROVE  /\ CashDelta(o, p) \in Int
           /\ ShareDelta(o) \in Int
           /\ FillLedger(st, o, p) \in TradingState
           /\ FillLedger(st, o, p).orders = st.orders
<1>1. o.qty \in Int /\ o.symbol \in Symbols
  BY DEF Order
<1>2. p * o.qty \in Int
  BY <1>1
<1>3. RateBase \in Int /\ CommissionRate \in Int /\ StampRate \in Int /\ MinCommission \in Int
  BY SMT DEF RateBase, CommissionRate, StampRate, MinCommission, Yuan
<1>4. Amount(p, o.qty) \in Int /\ StampDuty(p, o.qty) \in Int /\ Commission(p, o.qty) \in Int
  BY <1>2, <1>3 DEF Amount, StampDuty, Commission
<1>5. CashDelta(o, p) \in Int /\ ShareDelta(o) \in Int
  BY <1>1, <1>4 DEF CashDelta, ShareDelta
<1>6. st.cash + CashDelta(o, p) \in Int
  BY <1>5 DEF TradingState
<1>7. [st.pos EXCEPT ![o.symbol] = @ + ShareDelta(o)] \in [Symbols -> Int]
  BY <1>1, <1>5 DEF TradingState
<1> QED BY <1>5, <1>6, <1>7 DEF FillLedger, TradingState

----------------------------------------------------------------------------
(* Type correctness *)

\* What a caller holds at each point of its call.
LEMMA TaskFields ==
    ASSUME NEW t \in Task
    PROVE  /\ t.pc = "quote" => t.req \in ValidRequests
           /\ t.pc = "commit" => t.req \in ValidRequests /\ t.price \in Prices
           /\ t.pc = "audit" => t.answer \subseteq Answer
           /\ t.pc = "match" => t.queue \subseteq Order
           /\ t.pc = "settle" => t.queue \subseteq Order /\ t.order \in Order /\ t.price \in Prices
BY DEF Task, Idle

\* A caller that goes on has a well-formed set of locals.
LEMMA GotoType ==
    ASSUME task \in [Clients -> Task], NEW c \in Clients, NEW t \in Task, Goto(c, t)
    PROVE  task' \in [Clients -> Task]
BY DEF Goto

\* So has one that goes on to its audit entry.
LEMMA ReportType ==
    ASSUME task \in [Clients -> Task], NEW c \in Clients, NEW answer \in SUBSET Answer,
           Report(c, answer)
    PROVE  task' \in [Clients -> Task]
BY GotoType DEF Report, Task

\* So has a matching pass that goes on to its next order.
LEMMA PassOnType ==
    ASSUME task \in [Clients -> Task], NEW c \in Clients, NEW o,
           task[c].pc \in {"match", "settle"}, PassOn(c, o)
    PROVE  task' \in [Clients -> Task]
<1>1. task[c].queue \ {o} \subseteq Order
  BY TaskFields
<1>2. Idle \in Task /\ [pc |-> "match", queue |-> task[c].queue \ {o}] \in Task
  BY <1>1 DEF Task
<1> QED BY <1>2, GotoType DEF PassOn

\* The file is as well-formed as the memory it is written from.
LEMMA SaveType ==
    ASSUME disk \in TradingState, NEW st \in TradingState, NEW ok \in BOOLEAN, Save(st, ok)
    PROVE  mem' \in TradingState /\ disk' \in TradingState
BY DEF Save

\* Answers are answers, wherever they are noted.
LEMMA ToldType ==
    ASSUME TypeOK, NEW answer \in SUBSET Answer, NEW ok \in BOOLEAN, Told(answer, ok)
    PROVE  acked' \subseteq Answer /\ seen' \subseteq Answer
BY DEF TypeOK, Told

\* An order of the book as a caller is told of it.
LEMMA AnswerType ==
    ASSUME mem \in TradingState, NEW i \in DOMAIN mem.orders
    PROVE  [id |-> mem.orders[i].id, status |-> mem.orders[i].status] \in Answer
BY BookOrders DEF Order, Answer

\* Entering an order keeps every variable in its type.
LEMMA EnterType ==
    ASSUME TypeOK, NEW c \in Clients, NEW o \in Order, NEW st \in TradingState, NEW ok \in BOOLEAN,
           Enter(c, o, st, ok)
    PROVE  TypeOK'
<1>1. [st EXCEPT !.orders = Prepend(o, @)] \in TradingState
  BY PrependType DEF TradingState
<1>2. mem' \in TradingState /\ disk' \in TradingState
  BY <1>1, SaveType DEF Enter, TypeOK
<1>3. (IF ok THEN {[id |-> o.id, status |-> o.status]} ELSE {}) \in SUBSET Answer
  BY DEF Order, Answer
<1>4. task' \in [Clients -> Task]
  BY <1>3, ReportType DEF Enter, TypeOK
<1>5. acked' \subseteq Answer /\ seen' \subseteq Answer
  BY ToldType DEF Enter
<1> QED BY <1>2, <1>4, <1>5 DEF Enter, TypeOK

\* Settling an order keeps the ledger well-formed.
LEMMA SettledType ==
    ASSUME NEW st \in TradingState, NEW o \in Order, NEW p \in Int
    PROVE  Settled(st, o, p) \in TradingState
<1>1. o.id \in Nat
  BY DEF Order
<1>2. "FILLED" \in Statuses /\ "REJECTED" \in Statuses /\ 0 \in Int
  BY DEF Statuses
<1>3. \A t \in TradingState, status \in Statuses, q \in Int :
         Mark(t, o.id, status, q) \in TradingState
  BY <1>1, MarkType
<1>4. FillLedger(st, o, p) \in TradingState
  BY FillLedgerType
<1> QED BY <1>2, <1>3, <1>4 DEF Settled

\* Every step keeps every variable in its type.
LEMMA TypeStep ==
    ASSUME TypeOK, Next
    PROVE  TypeOK'
<1>0. /\ mem \in TradingState /\ disk \in TradingState /\ task \in [Clients -> Task]
      /\ nextId \in Nat /\ acked \subseteq Answer /\ seen \subseteq Answer /\ {} \in SUBSET Answer
  BY DEF TypeOK
<1>1. ASSUME NEW c \in Clients, NEW req \in Requests, Refuse(c, req) PROVE TypeOK'
  BY <1>0, <1>1, ReportType DEF Refuse, TypeOK
<1>2. ASSUME NEW c \in Clients, NEW req \in Requests, Submit(c, req) PROVE TypeOK'
  <2>1. [pc |-> "quote", req |-> req] \in Task
    BY <1>2 DEF Submit, Task, ValidRequests
  <2> QED BY <1>0, <1>2, <2>1, GotoType DEF Submit, TypeOK
<1>3. ASSUME NEW c \in Clients, NEW p \in Prices, QuoteOrder(c, p) PROVE TypeOK'
  <2>1. [pc |-> "commit", req |-> task[c].req, price |-> p] \in Task
    BY <1>0, <1>3, TaskFields DEF QuoteOrder, Task
  <2> QED BY <1>0, <1>3, <2>1, GotoType DEF QuoteOrder, TypeOK
<1>4. ASSUME NEW c \in Clients, QuoteFails(c) PROVE TypeOK'
  BY <1>0, <1>4, ReportType DEF QuoteFails, TypeOK
<1>5. ASSUME NEW c \in Clients, NEW ok \in BOOLEAN, FillNow(c, ok) PROVE TypeOK'
  <2> DEFINE o == NewOrder(task[c].req, nextId)
             p == task[c].price
             f == [o EXCEPT !.status = "FILLED", !.price = p]
  <2>1. o \in Order /\ p \in Int
    BY <1>0, <1>5, TaskFields, NewOrderType, BrokerAssumption DEF FillNow
  <2>2. Enter(c, f, FillLedger(mem, o, p), ok)
    BY <1>5 DEF FillNow
  <2> HIDE DEF o, p
  <2>3. f \in Order
    BY <2>1 DEF Order, Statuses
  <2>4. FillLedger(mem, o, p) \in TradingState
    BY <1>0, <2>1, FillLedgerType
  <2> QED BY <2>2, <2>3, <2>4, EnterType
<1>6. ASSUME NEW c \in Clients, FillRefused(c) PROVE TypeOK'
  BY <1>0, <1>6, ReportType DEF FillRefused, TypeOK
<1>7. ASSUME NEW c \in Clients, NEW ok \in BOOLEAN, Rest(c, ok) PROVE TypeOK'
  <2>1. NewOrder(task[c].req, nextId) \in Order
    BY <1>0, <1>7, TaskFields, NewOrderType DEF Rest
  <2> QED BY <1>0, <1>7, <2>1, EnterType DEF Rest
<1>8. ASSUME NEW c \in Clients, NEW ok \in BOOLEAN, Audit(c, ok) PROVE TypeOK'
  <2>1. Idle \in Task
    BY DEF Task
  <2>2. task[c].answer \subseteq Answer
    BY <1>0, <1>8, TaskFields DEF Audit
  <2>3. acked' \subseteq Answer /\ seen' \subseteq Answer
    BY <1>8, <2>2, ToldType DEF Audit
  <2> QED BY <1>0, <1>8, <2>1, <2>3, SaveType, GotoType DEF Audit, TypeOK
<1>9. ASSUME NEW c \in Clients, NEW i \in DOMAIN mem.orders, NEW ok \in BOOLEAN, Cancel(c, i, ok)
      PROVE  TypeOK'
  <2>1. mem.orders[i].id \in Nat
    BY <1>0, BookOrders DEF Order
  <2>2. "CANCELED" \in Statuses /\ 0 \in Int
    BY DEF Statuses
  <2>3. Mark(mem, mem.orders[i].id, "CANCELED", 0) \in TradingState
    BY <1>0, <2>1, <2>2, MarkType
  <2>4. {[id |-> mem.orders[i].id, status |-> "CANCELED"]} \in SUBSET Answer
    BY <2>1, <2>2 DEF Answer
  <2>5. acked' \subseteq Answer /\ seen' \subseteq Answer
    BY <1>0, <1>9, ToldType DEF Cancel
  <2> QED BY <1>0, <1>9, <2>3, <2>4, <2>5, SaveType, ReportType DEF Cancel, TypeOK
<1>10. ASSUME NEW c \in Clients, StartMatching(c) PROVE TypeOK'
  <2>1. Pending(mem) \subseteq Order
    BY <1>0, BookOrders DEF Pending
  <2>2. [pc |-> "match", queue |-> Pending(mem)] \in Task
    BY <2>1 DEF Task
  <2> QED BY <1>0, <1>10, <2>2, GotoType DEF StartMatching, TypeOK
<1>11. ASSUME NEW c \in Clients, task[c].pc = "match", NEW o \in task[c].queue,
              NEW p \in Prices, QuoteMatch(c, o, p)
       PROVE  TypeOK'
  <2>1. [pc |-> "settle", queue |-> task[c].queue, order |-> o, price |-> p] \in Task
    BY <1>0, <1>11, TaskFields DEF Task
  <2> QED BY <1>0, <1>11, <2>1, GotoType DEF QuoteMatch, TypeOK
<1>12. ASSUME NEW c \in Clients, task[c].pc = "match", NEW o \in task[c].queue, SkipMatch(c, o)
       PROVE  TypeOK'
  BY <1>0, <1>12, PassOnType DEF SkipMatch, TypeOK
<1>13. ASSUME NEW c \in Clients, NEW ok \in BOOLEAN, Settle(c, ok) PROVE TypeOK'
  <2>1. task[c].order \in Order /\ task[c].price \in Int
    BY <1>0, <1>13, TaskFields, BrokerAssumption DEF Settle
  <2>2. Settled(mem, task[c].order, task[c].price) \in TradingState
    BY <1>0, <2>1, SettledType
  <2>3. acked' \subseteq Answer /\ seen' \subseteq Answer
    BY <1>0, <1>13, ToldType DEF Settle
  <2> QED BY <1>0, <1>13, <2>2, <2>3, SaveType, PassOnType DEF Settle, TypeOK
<1>14. CASE Restart
  BY <1>0, <1>14 DEF Restart, TypeOK, Task
<1>15. ASSUME NEW c \in Clients, NEW req \in Requests, Repeat(c, req) PROVE TypeOK'
  <2>1. acked' \subseteq Answer /\ seen' \subseteq Answer
    BY <1>0, <1>15, AnswerType DEF Repeat, OrderByClientID
  <2> QED BY <1>0, <1>15, <2>1 DEF Repeat, TypeOK
<1> QED BY <1>1, <1>2, <1>3, <1>4, <1>5, <1>6, <1>7, <1>8, <1>9, <1>10, <1>11, <1>12, <1>13,
           <1>14, <1>15 DEF Next, Begin, Step

\* Type correctness: whatever callers, failed saves and restarts do, the memory and the
\* file hold a well-formed trading state and every call a well-formed set of locals.
THEOREM TypeCorrect == Spec => []TypeOK
<1>1. Init => TypeOK
  <2>1. SeedState \in TradingState
    BY LedgerAssumption DEF SeedState, TradingState
  <2> QED BY <2>1 DEF Init, TypeOK, Task
<1>2. TypeOK /\ [Next]_vars => TypeOK'
  BY TypeStep DEF vars, TypeOK
<1> QED BY <1>1, <1>2, PTL DEF Spec

----------------------------------------------------------------------------
(* What callers were told stays true                                       *)
(*                                                                         *)
(* AckedIsFinal is not inductive: the answer of a call under way, the file *)
(* that a restart will reload and the numbering of the orders all matter.  *)

UniqueIds(st) == \A i, j \in DOMAIN st.orders : st.orders[i].id = st.orders[j].id => i = j
Below(st, n)  == \A i \in DOMAIN st.orders : st.orders[i].id < n

\* The memory has gone on from what the file says without contradicting it.
Agree(saved, st) ==
    \A i \in DOMAIN saved.orders, j \in DOMAIN st.orders :
        saved.orders[i].id = st.orders[j].id /\ saved.orders[i].status \in Terminal
            => st.orders[j] = saved.orders[i]

\* An answer that neither the memory nor the file contradicts.
Says(st, a)  == \A i \in DOMAIN st.orders : st.orders[i].id = a.id => st.orders[i].status = a.status
Stated(a)    == a.id < nextId /\ (a.status \in Terminal => Says(mem, a))
Holds(a)     == Stated(a) /\ (a.status \in Terminal => Says(disk, a))
AnswersHold  == /\ \A a \in acked : Holds(a)
                /\ \A a \in seen : Stated(a)
                /\ \A c \in Clients : task[c].pc = "audit" => \A a \in task[c].answer : Holds(a)

IInv == /\ TypeOK
        /\ UniqueIds(mem) /\ UniqueIds(disk)
        /\ Below(mem, nextId) /\ Below(disk, nextId)
        /\ Agree(disk, mem)
        /\ AnswersHold

\* One locked section leaves every finished order as it is; it may add the order
\* numbered n.
Keeps(old, new, n) ==
    \A j \in DOMAIN new.orders :
        \/ new.orders[j].id = n
        \/ \E i \in DOMAIN old.orders :
              /\ old.orders[i].id = new.orders[j].id
              /\ old.orders[i].status \in Terminal => new.orders[j] = old.orders[i]

\* A book that does not change keeps its finished orders.
LEMMA KeepsItself ==
    ASSUME NEW st, NEW n
    PROVE  Keeps(st, st, n)
BY DEF Keeps

\* What Enter does to a book whose ids are distinct and below the new order's.
LEMMA PrependKeeps ==
    ASSUME NEW st \in TradingState, NEW new \in TradingState, NEW o \in Order,
           UniqueIds(st), Below(st, o.id), new.orders = Prepend(o, st.orders)
    PROVE  /\ UniqueIds(new) /\ Below(new, o.id + 1) /\ Keeps(st, new, o.id)
           /\ \A j \in DOMAIN new.orders : new.orders[j].id = o.id => new.orders[j] = o
<1>1. st.orders \in Seq(Order) /\ o.id \in Nat
  BY DEF TradingState, Order
<1>2. \A j \in DOMAIN new.orders : j \in Nat /\ new.orders[j].id \in Nat
  BY BookOrders DEF Order
<1>3. \A j \in DOMAIN new.orders :
         IF j = 1 THEN new.orders[j] = o
         ELSE j - 1 \in DOMAIN st.orders /\ new.orders[j] = st.orders[j - 1]
  BY <1>1, PrependType
<1>4. \A j \in DOMAIN new.orders : j # 1 => new.orders[j].id < o.id
  BY <1>3 DEF Below
<1>5. UniqueIds(new)
  <2> SUFFICES ASSUME NEW i \in DOMAIN new.orders, NEW j \in DOMAIN new.orders,
                      new.orders[i].id = new.orders[j].id
               PROVE  i = j
    BY DEF UniqueIds
  <2>1. CASE i = 1 \/ j = 1
    BY <2>1, <1>1, <1>2, <1>3, <1>4
  <2>2. CASE i # 1 /\ j # 1
    <3>1. i - 1 = j - 1
      BY <2>2, <1>3 DEF UniqueIds
    <3> QED BY <3>1, <1>2
  <2> QED BY <2>1, <2>2
<1>6. Below(new, o.id + 1)
  BY <1>1, <1>2, <1>3, <1>4 DEF Below
<1>7. Keeps(st, new, o.id)
  BY <1>3 DEF Keeps
<1>8. \A j \in DOMAIN new.orders : new.orders[j].id = o.id => new.orders[j] = o
  BY <1>1, <1>2, <1>3, <1>4
<1> QED BY <1>5, <1>6, <1>7, <1>8

\* What giving an order its final status does to a book.
LEMMA MarkKeeps ==
    ASSUME NEW st \in TradingState, NEW id \in Nat, NEW status \in Statuses, NEW p \in Int,
           NEW n, UniqueIds(st), Below(st, n)
    PROVE  LET new == Mark(st, id, status, p)
           IN  UniqueIds(new) /\ Below(new, n) /\ Keeps(st, new, n)
<1> DEFINE new == Mark(st, id, status, p)
<1>1. DOMAIN new.orders = DOMAIN st.orders
  BY DEF Mark, TradingState
<1>2. \A i \in DOMAIN st.orders :
         new.orders[i] = IF st.orders[i].id = id /\ st.orders[i].status = "PENDING"
                         THEN [st.orders[i] EXCEPT !.status = status, !.price = p]
                         ELSE st.orders[i]
  BY DEF Mark, TradingState
<1>3. \A i \in DOMAIN st.orders : st.orders[i] \in Order
  BY BookOrders
<1> HIDE DEF new
<1>4. \A i \in DOMAIN st.orders : new.orders[i].id = st.orders[i].id
  BY <1>2, <1>3 DEF Order
<1>5. \A i \in DOMAIN st.orders : st.orders[i].status \in Terminal => new.orders[i] = st.orders[i]
  BY <1>2 DEF Terminal
<1> QED BY <1>1, <1>4, <1>5 DEF UniqueIds, Below, Keeps, new

\* The ledger part of a fill does not touch the book.
LEMMA SettledKeeps ==
    ASSUME NEW st \in TradingState, NEW o \in Order, NEW p \in Int, NEW n,
           UniqueIds(st), Below(st, n)
    PROVE  LET new == Settled(st, o, p)
           IN  UniqueIds(new) /\ Below(new, n) /\ Keeps(st, new, n)
<1> DEFINE filled == FillLedger(st, o, p)
<1>1. o.id \in Nat /\ "FILLED" \in Statuses /\ "REJECTED" \in Statuses /\ 0 \in Int
  BY DEF Order, Statuses
<1>2. filled \in TradingState /\ filled.orders = st.orders
  BY FillLedgerType
<1> HIDE DEF filled
<1>3. UniqueIds(filled) /\ Below(filled, n)
  BY <1>2 DEF UniqueIds, Below
<1>4. LET new == Mark(filled, o.id, "FILLED", p)
      IN  UniqueIds(new) /\ Below(new, n) /\ Keeps(filled, new, n)
  BY <1>1, <1>2, <1>3, MarkKeeps
<1>5. LET new == Mark(filled, o.id, "FILLED", p)
      IN  UniqueIds(new) /\ Below(new, n) /\ Keeps(st, new, n)
  BY <1>2, <1>4 DEF Keeps
<1>6. LET new == Mark(st, o.id, "REJECTED", 0)
      IN  UniqueIds(new) /\ Below(new, n) /\ Keeps(st, new, n)
  BY <1>1, MarkKeeps
<1> QED BY <1>5, <1>6, KeepsItself DEF Settled, filled

----------------------------------------------------------------------------
\* An answer that becomes due in this step is one that memory and file give by now.
NewlyDue(a) == a.id < nextId' /\ Says(mem', a) /\ Says(disk', a)

\* What was told so far, with the answers of this step.
LEMMA ToldSoFar ==
    ASSUME NEW st, NEW answer, NEW ok \in BOOLEAN, Save(st, ok), Told(answer, ok)
    PROVE  /\ acked \subseteq acked' /\ seen \subseteq acked' \cup seen' /\ seen' \subseteq seen
           /\ disk' \in {disk, mem'}
           /\ \A a \in acked' : a \in acked \/ a \in answer \/ (disk' = mem' /\ a \in seen)
BY DEF Save, Told

\* What every step but a restart does.
Evolves ==
    /\ nextId' \in {nextId, nextId + 1}
    /\ UniqueIds(mem') /\ Below(mem', nextId') /\ Keeps(mem, mem', nextId)
    /\ disk' \in {disk, mem'}
    /\ \A a \in acked' : \/ a \in acked \/ NewlyDue(a) \/ (disk' = mem' /\ a \in seen)
                         \/ \E c \in Clients : task[c].pc = "audit" /\ a \in task[c].answer
    /\ \A a \in seen' : a \in seen \/ (a.id < nextId' /\ Says(mem', a))
    /\ \A c \in Clients : task'[c].pc = "audit" =>
          \A a \in task'[c].answer :
              NewlyDue(a) \/ (task[c].pc = "audit" /\ a \in task[c].answer)

\* The invariant survives such a step, and a finished order in the file is as it was.
LEMMA EvolvesKeepsIInv ==
    ASSUME IInv, TypeOK', Evolves
    PROVE  /\ UniqueIds(disk') /\ Below(disk', nextId') /\ Agree(disk', mem') /\ AnswersHold'
           /\ Agree(disk, disk')
<1>0. /\ nextId \in Nat /\ nextId <= nextId' /\ nextId' \in Nat /\ UniqueIds(disk)
      /\ Below(disk, nextId) /\ Agree(disk, mem) /\ AnswersHold
      /\ mem \in TradingState /\ disk \in TradingState /\ acked \subseteq Answer /\ seen \subseteq Answer
      /\ task \in [Clients -> Task]
  BY DEF IInv, TypeOK, Evolves
<1>1. \A i \in DOMAIN disk.orders : disk.orders[i].id \in Nat
  BY <1>0, BookOrders DEF Order
<1>2. Agree(disk, mem')
  <2> SUFFICES ASSUME NEW i \in DOMAIN disk.orders, NEW j \in DOMAIN mem'.orders,
                      disk.orders[i].id = mem'.orders[j].id, disk.orders[i].status \in Terminal
               PROVE  mem'.orders[j] = disk.orders[i]
    BY DEF Agree
  <2>1. mem'.orders[j].id # nextId
    BY <1>0, <1>1 DEF Below
  <2>2. PICK k \in DOMAIN mem.orders : /\ mem.orders[k].id = mem'.orders[j].id
                                       /\ mem.orders[k].status \in Terminal
                                             => mem'.orders[j] = mem.orders[k]
    BY <2>1 DEF Evolves, Keeps
  <2>3. mem.orders[k] = disk.orders[i]
    BY <1>0, <2>2 DEF Agree
  <2> QED BY <2>2, <2>3
<1>3. Agree(disk, disk) /\ Agree(mem', mem')
  BY <1>0 DEF Agree, UniqueIds, Evolves
<1>4. UniqueIds(disk') /\ Agree(disk', mem') /\ Agree(disk, disk')
  BY <1>0, <1>2, <1>3 DEF Evolves
<1>5. Below(disk', nextId')
  BY <1>0, <1>1 DEF Below, Evolves
<1>6. ASSUME NEW a \in Answer, Stated(a)
      PROVE  Stated(a)'
  <2>1. a.id \in Nat /\ a.id < nextId'
    BY <1>0, <1>6 DEF Stated, Answer
  <2>2. ASSUME a.status \in Terminal, NEW j \in DOMAIN mem'.orders, mem'.orders[j].id = a.id
        PROVE  mem'.orders[j].status = a.status
    <3>1. a.id # nextId
      BY <1>0, <1>6, <2>1 DEF Stated
    <3>2. PICK k \in DOMAIN mem.orders : /\ mem.orders[k].id = a.id
                                         /\ mem.orders[k].status \in Terminal
                                               => mem'.orders[j] = mem.orders[k]
      BY <2>2, <3>1 DEF Evolves, Keeps
    <3>3. mem.orders[k].status = a.status
      BY <1>6, <2>2, <3>2 DEF Stated, Says
    <3> QED BY <2>2, <3>2, <3>3
  <2>3. a.status \in Terminal => Says(mem', a)
    BY <2>2 DEF Says
  <2> QED BY <2>1, <2>3 DEF Stated, Says
<1>10. ASSUME NEW a \in Answer, Holds(a) \/ (disk' = mem' /\ Stated(a))
       PROVE  Holds(a)'
  <2>1. Stated(a)' /\ disk' \in {disk, mem'}
    BY <1>6, <1>10 DEF Holds, Evolves
  <2> QED BY <1>10, <2>1 DEF Holds, Stated, Says
<1>7. ASSUME NEW a, NewlyDue(a)
      PROVE  Holds(a)'
  BY <1>7 DEF NewlyDue, Holds, Stated, Says
<1>8. ASSUME NEW a \in acked'
      PROVE  Holds(a)'
  <2>1. CASE NewlyDue(a)
    BY <2>1, <1>7
  <2>2. CASE \/ a \in acked \/ (disk' = mem' /\ a \in seen)
             \/ \E c \in Clients : task[c].pc = "audit" /\ a \in task[c].answer
    <3>1. a \in Answer /\ (Holds(a) \/ (disk' = mem' /\ Stated(a)))
      BY <1>0, <2>2, TaskFields DEF AnswersHold
    <3> QED BY <3>1, <1>10
  <2> QED BY <1>8, <2>1, <2>2 DEF Evolves
<1>11. ASSUME NEW a \in seen'
       PROVE  Stated(a)'
  <2>1. CASE a \in seen
    BY <1>0, <1>6, <2>1 DEF AnswersHold
  <2>2. CASE a.id < nextId' /\ Says(mem', a)
    BY <2>2 DEF Stated, Says
  <2> QED BY <1>11, <2>1, <2>2 DEF Evolves
<1>9. ASSUME NEW c \in Clients, task'[c].pc = "audit", NEW a \in task'[c].answer
      PROVE  Holds(a)'
  <2>1. CASE NewlyDue(a)
    BY <2>1, <1>7
  <2>2. CASE task[c].pc = "audit" /\ a \in task[c].answer
    <3>1. a \in Answer /\ Holds(a)
      BY <1>0, <2>2, TaskFields DEF AnswersHold
    <3> QED BY <3>1, <1>10
  <2> QED BY <1>9, <2>1, <2>2 DEF Evolves
<1> QED BY <1>4, <1>5, <1>8, <1>9, <1>11 DEF AnswersHold

\* One caller moves at a time.
LEMMA GotoMoves ==
    ASSUME task \in [Clients -> Task], NEW c \in Clients, NEW t, Goto(c, t), NEW x \in Clients
    PROVE  task'[x] = IF x = c THEN t ELSE task[x]
BY DEF Goto

\* A caller that goes on to something else than its answer owes nobody a new one.
LEMMA GotoEvolves ==
    ASSUME IInv, NEW c \in Clients, NEW t, Goto(c, t), t.pc = "audit" => t.answer = {},
           UNCHANGED <<mem, disk, nextId, acked, seen>>
    PROVE  Evolves
<1>1. UniqueIds(mem) /\ Below(mem, nextId) /\ task \in [Clients -> Task]
  BY DEF IInv, TypeOK
<1>2. Keeps(mem, mem', nextId)
  BY KeepsItself
<1>3. \A x \in Clients : task'[x].pc = "audit" => task'[x].answer = {} \/ task'[x] = task[x]
  BY <1>1, GotoMoves
<1> QED BY <1>1, <1>2, <1>3 DEF Evolves

\* An error is nothing that could be contradicted.
LEMMA ReportNothing ==
    ASSUME IInv, NEW c \in Clients, Report(c, {}), UNCHANGED <<mem, disk, nextId, acked, seen>>
    PROVE  Evolves
BY GotoEvolves DEF Report

\* A matching pass answers nobody.
LEMMA PassOnEvolves ==
    ASSUME task \in [Clients -> Task], NEW c \in Clients, NEW o, PassOn(c, o), NEW x \in Clients,
           task'[x].pc = "audit"
    PROVE  task'[x] = task[x]
<1> DEFINE t == IF task[c].queue \ {o} = {} THEN Idle
                ELSE [pc |-> "match", queue |-> task[c].queue \ {o}]
<1>1. Goto(c, t) /\ t.pc # "audit"
  BY DEF PassOn, Idle
<1> HIDE DEF t
<1> QED BY <1>1, GotoMoves

\* The caller is told of the order only when the file holds it.
LEMMA EnterEvolves ==
    ASSUME IInv, TypeOK', NEW c \in Clients, NEW o \in Order, NEW st \in TradingState,
           NEW ok \in BOOLEAN, o.id = nextId, st.orders = mem.orders, Enter(c, o, st, ok)
    PROVE  Evolves
<1>1. /\ UniqueIds(st) /\ Below(st, o.id) /\ task \in [Clients -> Task] /\ nextId \in Nat
      /\ mem' \in TradingState
  BY DEF IInv, TypeOK, UniqueIds, Below
<1>2. mem' = [st EXCEPT !.orders = Prepend(o, st.orders)] /\ disk' \in {disk, mem'} /\ (ok => disk' = mem')
  BY DEF Enter, Save
<1>3. mem'.orders = Prepend(o, st.orders)
  BY <1>2 DEF TradingState
<1>4. /\ UniqueIds(mem') /\ Below(mem', o.id + 1) /\ Keeps(st, mem', o.id)
      /\ \A j \in DOMAIN mem'.orders : mem'.orders[j].id = o.id => mem'.orders[j] = o
  BY <1>1, <1>3, PrependKeeps
<1>5. Keeps(mem, mem', nextId)
  BY <1>4 DEF Keeps
<1>6. /\ nextId' = nextId + 1 /\ seen' \subseteq seen
      /\ \A b \in acked' : b \in acked \/ (disk' = mem' /\ b \in seen)
  BY ToldSoFar DEF Enter
<1> DEFINE a == [id |-> o.id, status |-> o.status]
<1>7. ASSUME ok PROVE NewlyDue(a)
  <2>1. a.id < nextId'
    BY <1>1, <1>6
  <2>2. Says(mem', a) /\ disk' = mem'
    BY <1>2, <1>4, <1>7 DEF Says
  <2> QED BY <2>1, <2>2 DEF NewlyDue, Says
<1>8. Goto(c, [pc |-> "audit", answer |-> IF ok THEN {a} ELSE {}])
  BY DEF Enter, Report
<1> HIDE DEF a
<1>9. ASSUME NEW x \in Clients, task'[x].pc = "audit", NEW b \in task'[x].answer
      PROVE  NewlyDue(b) \/ (task[x].pc = "audit" /\ b \in task[x].answer)
  <2>1. CASE x = c
    <3>1. task'[x] = [pc |-> "audit", answer |-> IF ok THEN {a} ELSE {}]
      BY <1>1, <1>8, <2>1, GotoMoves
    <3>2. ok /\ b = a
      BY <1>9, <3>1
    <3> QED BY <3>2, <1>7
  <2>2. CASE x # c
    <3>1. task'[x] = task[x]
      BY <1>1, <1>8, <2>2, GotoMoves
    <3> QED BY <1>9, <3>1
  <2> QED BY <2>1, <2>2
<1> QED BY <1>2, <1>4, <1>5, <1>6, <1>9 DEF Evolves

\* The caller is told of a cancellation only when the file holds it.
LEMMA CancelEvolves ==
    ASSUME IInv, NEW c \in Clients, NEW i \in DOMAIN mem.orders, NEW ok \in BOOLEAN,
           Cancel(c, i, ok)
    PROVE  Evolves
<1> DEFINE id == mem.orders[i].id
           a == [id |-> id, status |-> "CANCELED"]
<1>1. /\ mem \in TradingState /\ task \in [Clients -> Task] /\ UniqueIds(mem) /\ Below(mem, nextId)
      /\ id < nextId
  BY DEF IInv, TypeOK, Below
<1>2. mem.orders[i] \in Order /\ id \in Nat /\ "CANCELED" \in Statuses /\ 0 \in Int
  BY <1>1, BookOrders DEF Order, Statuses
<1>3. mem' = Mark(mem, id, "CANCELED", 0) /\ disk' \in {disk, mem'} /\ (ok => disk' = mem')
  BY DEF Cancel, Save
<1>4. UniqueIds(mem') /\ Below(mem', nextId) /\ Keeps(mem, mem', nextId)
  BY <1>1, <1>2, <1>3, MarkKeeps
<1>5. DOMAIN mem'.orders = DOMAIN mem.orders
  BY <1>1, <1>3 DEF Mark, TradingState
<1>6. mem'.orders[i] = [mem.orders[i] EXCEPT !.status = "CANCELED", !.price = 0]
  BY <1>1, <1>3 DEF Mark, TradingState, Cancel
<1>7. mem'.orders[i].id = id /\ mem'.orders[i].status = "CANCELED"
  BY <1>2, <1>6 DEF Order
<1>8. /\ nextId' = nextId /\ seen' \subseteq seen
      /\ \A b \in acked' : b \in acked \/ (disk' = mem' /\ b \in seen)
  BY ToldSoFar DEF Cancel
<1> HIDE DEF id
<1>9. Says(mem', a)
  BY <1>4, <1>5, <1>7 DEF UniqueIds, Says
<1>10. ASSUME ok PROVE NewlyDue(a)
  BY <1>1, <1>3, <1>8, <1>9, <1>10 DEF NewlyDue, Says
<1>11. IF ok THEN Goto(c, [pc |-> "audit", answer |-> {a}]) ELSE task' = task
  BY DEF Cancel, Report, id
<1> HIDE DEF a
<1>12. ASSUME NEW x \in Clients, task'[x].pc = "audit", NEW b \in task'[x].answer
       PROVE  NewlyDue(b) \/ (task[x].pc = "audit" /\ b \in task[x].answer)
  <2>1. CASE ok /\ x = c
    <3>1. task'[x] = [pc |-> "audit", answer |-> {a}]
      BY <1>1, <1>11, <2>1, GotoMoves
    <3> QED BY <1>10, <1>12, <2>1, <3>1
  <2>2. CASE ~(ok /\ x = c)
    <3>1. task'[x] = task[x]
      BY <1>1, <1>11, <2>2, GotoMoves
    <3> QED BY <1>12, <3>1
  <2> QED BY <2>1, <2>2
<1> QED BY <1>3, <1>4, <1>8, <1>12 DEF Evolves

\* The answer that is delivered was due before.
LEMMA AuditEvolves ==
    ASSUME IInv, NEW c \in Clients, NEW ok \in BOOLEAN, Audit(c, ok)
    PROVE  Evolves
<1>1. UniqueIds(mem) /\ Below(mem, nextId) /\ task \in [Clients -> Task]
  BY DEF IInv, TypeOK
<1>2. mem' = mem /\ disk' \in {disk, mem'} /\ nextId' = nextId
  BY DEF Audit, Save
<1>3. Keeps(mem, mem', nextId)
  BY <1>2, KeepsItself
<1>4. \A x \in Clients : task'[x].pc = "audit" => task'[x] = task[x]
  BY <1>1, GotoMoves DEF Audit, Idle
<1>5. /\ task[c].pc = "audit" /\ seen' \subseteq seen
      /\ \A b \in acked' : b \in acked \/ b \in task[c].answer \/ (disk' = mem' /\ b \in seen)
  BY ToldSoFar DEF Audit
<1> QED BY <1>1, <1>2, <1>3, <1>4, <1>5 DEF Evolves

\* A repeated request is answered with an order of the memory, which the file may have as well.
LEMMA RepeatEvolves ==
    ASSUME IInv, NEW c \in Clients, NEW req \in Requests, Repeat(c, req)
    PROVE  Evolves
<1>1. UniqueIds(mem) /\ UniqueIds(disk) /\ Below(mem, nextId) /\ task \in [Clients -> Task]
  BY DEF IInv, TypeOK
<1>2. UNCHANGED <<mem, disk, task, nextId>>
  BY DEF Repeat
<1>3. Keeps(mem, mem', nextId)
  BY <1>2, KeepsItself
<1>4. PICK i \in DOMAIN mem.orders :
         LET a == [id |-> mem.orders[i].id, status |-> mem.orders[i].status]
         IN  /\ acked' = IF InFile(a) THEN acked \cup {a} ELSE acked
             /\ seen' = IF InFile(a) THEN seen ELSE seen \cup {a}
  BY DEF Repeat, OrderByClientID
<1> DEFINE a == [id |-> mem.orders[i].id, status |-> mem.orders[i].status]
<1>5. a.id < nextId /\ Says(mem, a)
  BY <1>1 DEF Below, UniqueIds, Says
<1>6. /\ acked' = IF InFile(a) THEN acked \cup {a} ELSE acked
      /\ seen' = IF InFile(a) THEN seen ELSE seen \cup {a}
  BY <1>4
<1> HIDE DEF a
<1>7. InFile(a) => Says(disk, a)
  BY <1>1 DEF InFile, UniqueIds, Says
<1>8. /\ \A b \in acked' : b \in acked \/ NewlyDue(b)
      /\ \A b \in seen' : b \in seen \/ (b.id < nextId' /\ Says(mem', b))
  BY <1>2, <1>5, <1>6, <1>7 DEF NewlyDue, Says
<1> QED BY <1>1, <1>2, <1>3, <1>8 DEF Evolves

\* A matching pass settles only what is still pending.
LEMMA SettleEvolves ==
    ASSUME IInv, NEW c \in Clients, NEW ok \in BOOLEAN, Settle(c, ok)
    PROVE  Evolves
<1>1. /\ mem \in TradingState /\ UniqueIds(mem) /\ Below(mem, nextId)
      /\ task \in [Clients -> Task]
  BY DEF IInv, TypeOK
<1>2. task[c].order \in Order /\ task[c].price \in Int
  BY <1>1, TaskFields, BrokerAssumption DEF Settle
<1>3. mem' = Settled(mem, task[c].order, task[c].price) /\ disk' \in {disk, mem'}
      /\ nextId' = nextId /\ seen' \subseteq seen
      /\ \A b \in acked' : b \in acked \/ (disk' = mem' /\ b \in seen)
  BY ToldSoFar DEF Settle, Save
<1>4. UniqueIds(mem') /\ Below(mem', nextId) /\ Keeps(mem, mem', nextId)
  BY <1>1, <1>2, <1>3, SettledKeeps
<1>5. \A x \in Clients : task'[x].pc = "audit" => task'[x] = task[x]
  BY <1>1, PassOnEvolves DEF Settle
<1> QED BY <1>3, <1>4, <1>5 DEF Evolves

\* Every step but a restart is of that kind.
LEMMA StepEvolves ==
    ASSUME IInv, TypeOK', Next, ~Restart
    PROVE  Evolves
<1>0. /\ mem \in TradingState /\ task \in [Clients -> Task] /\ nextId \in Nat
      /\ UniqueIds(mem) /\ Below(mem, nextId)
  BY DEF IInv, TypeOK
<1>1. ASSUME NEW c \in Clients, NEW req \in Requests, Refuse(c, req) PROVE Evolves
  BY <1>1, ReportNothing DEF Refuse
<1>2. ASSUME NEW c \in Clients, NEW req \in Requests, Submit(c, req) PROVE Evolves
  BY <1>2, GotoEvolves DEF Submit
<1>3. ASSUME NEW c \in Clients, NEW p \in Prices, QuoteOrder(c, p) PROVE Evolves
  BY <1>3, GotoEvolves DEF QuoteOrder
<1>4. ASSUME NEW c \in Clients, QuoteFails(c) PROVE Evolves
  BY <1>4, ReportNothing DEF QuoteFails
<1>5. ASSUME NEW c \in Clients, NEW ok \in BOOLEAN, FillNow(c, ok) PROVE Evolves
  <2> DEFINE o == NewOrder(task[c].req, nextId)
             p == task[c].price
             f == [o EXCEPT !.status = "FILLED", !.price = p]
  <2>1. o \in Order /\ p \in Int
    BY <1>0, <1>5, TaskFields, NewOrderType, BrokerAssumption DEF FillNow
  <2>2. Enter(c, f, FillLedger(mem, o, p), ok)
    BY <1>5 DEF FillNow
  <2>3. o.id = nextId
    BY DEF NewOrder
  <2> HIDE DEF o, p
  <2>4. f \in Order /\ f.id = nextId
    BY <2>1, <2>3 DEF Order, Statuses
  <2>5. FillLedger(mem, o, p) \in TradingState /\ FillLedger(mem, o, p).orders = mem.orders
    BY <1>0, <2>1, FillLedgerType
  <2> QED BY <2>2, <2>4, <2>5, EnterEvolves
<1>6. ASSUME NEW c \in Clients, FillRefused(c) PROVE Evolves
  BY <1>6, ReportNothing DEF FillRefused
<1>7. ASSUME NEW c \in Clients, NEW ok \in BOOLEAN, Rest(c, ok) PROVE Evolves
  <2>1. NewOrder(task[c].req, nextId) \in Order
    BY <1>0, <1>7, TaskFields, NewOrderType DEF Rest
  <2>2. NewOrder(task[c].req, nextId).id = nextId
    BY DEF NewOrder
  <2> QED BY <1>0, <1>7, <2>1, <2>2, EnterEvolves DEF Rest
<1>8. ASSUME NEW c \in Clients, task[c].pc = "match", NEW o \in task[c].queue, SkipMatch(c, o)
      PROVE  Evolves
  <2>1. \A x \in Clients : task'[x].pc = "audit" => task'[x] = task[x]
    BY <1>0, <1>8, PassOnEvolves DEF SkipMatch
  <2>2. UNCHANGED <<mem, disk, nextId, acked, seen>>
    BY <1>8 DEF SkipMatch
  <2>3. Keeps(mem, mem', nextId)
    BY <2>2, KeepsItself
  <2> QED BY <1>0, <2>1, <2>2, <2>3 DEF Evolves
<1>9. ASSUME NEW c \in Clients, NEW o, NEW p \in Prices, QuoteMatch(c, o, p) PROVE Evolves
  BY <1>9, GotoEvolves DEF QuoteMatch
<1>10. ASSUME NEW c \in Clients, StartMatching(c) PROVE Evolves
  BY <1>10, GotoEvolves DEF StartMatching
<1> QED BY <1>1, <1>2, <1>3, <1>4, <1>5, <1>6, <1>7, <1>8, <1>9, <1>10, AuditEvolves,
           RepeatEvolves, SettleEvolves, CancelEvolves DEF Next, Begin, Step

\* A restart goes back to what the file says, which no answer contradicts.
LEMMA RestartKeepsIInv ==
    ASSUME IInv, TypeOK', Restart
    PROVE  IInv' /\ Agree(disk, disk')
<1>1. /\ mem' = disk /\ disk' = disk /\ nextId' = nextId /\ acked' = acked /\ seen' = {}
      /\ task' = [c \in Clients |-> Idle]
  BY DEF Restart
<1>2. UniqueIds(disk) /\ Below(disk, nextId) /\ \A a \in acked : Holds(a)
  BY DEF IInv, AnswersHold
<1>3. Agree(disk, disk)
  BY <1>2 DEF Agree, UniqueIds
<1>4. AnswersHold'
  BY <1>1, <1>2 DEF AnswersHold, Holds, Stated, Says, Idle
<1> QED BY <1>1, <1>2, <1>3, <1>4 DEF IInv, UniqueIds, Below, Agree

\* Every step keeps the invariant and the finished orders of the file.
LEMMA InvariantStep ==
    ASSUME IInv, [Next]_vars
    PROVE  IInv' /\ Agree(disk, disk')
<1>1. CASE UNCHANGED vars
  <2>1. Agree(disk, disk)
    BY DEF IInv, Agree, UniqueIds
  <2> QED BY <1>1, <2>1 DEF vars, IInv, TypeOK, UniqueIds, Below, Agree, AnswersHold, Holds, Stated, Says
<1>2. CASE Next
  <2>1. TypeOK'
    BY <1>2, TypeStep DEF IInv
  <2>2. CASE Restart
    BY <2>1, <2>2, RestartKeepsIInv
  <2>3. CASE ~Restart
    <3>1. Evolves
      BY <1>2, <2>1, <2>3, StepEvolves
    <3> QED BY <2>1, <3>1, EvolvesKeepsIInv DEF IInv, Evolves
  <2> QED BY <2>2, <2>3
<1> QED BY <1>1, <1>2

\* The invariant holds in every reachable state.
LEMMA InvariantHolds == Spec => []IInv
<1>1. Init => IInv
  <2>1. Init => TypeOK
    <3>1. SeedState \in TradingState
      BY LedgerAssumption DEF SeedState, TradingState
    <3> QED BY <3>1 DEF Init, TypeOK, Task
  <2> QED BY <2>1 DEF Init, IInv, SeedState, UniqueIds, Below, Agree, AnswersHold, Holds, Stated, Idle
<1>2. IInv /\ [Next]_vars => IInv'
  BY InvariantStep
<1> QED BY <1>1, <1>2, PTL DEF Spec

\* A caller told that its order is filled, canceled or rejected is never contradicted, in
\* memory or in the file, whatever the other callers, failed saves and restarts do; a caller
\* that repeats its request before the order is saved (PlaceOrder, paper.go:86) is not
\* contradicted in memory until a restart, and never once a save has succeeded before that.
THEOREM AnswersAreFinal == Spec => []AckedIsFinal
<1>1. IInv => AckedIsFinal
  BY DEF IInv, AnswersHold, Holds, Stated, Says, AckedIsFinal, Upholds
<1> QED BY <1>1, InvariantHolds, PTL

\* Once the file says an order is finished, no later version of the file differs.
THEOREM SavedOrdersAreFinal == Spec => SavedIsFinal
<1>1. IInv /\ [Next]_vars => (Agree(disk, disk'))
  BY InvariantStep
<1>2. Agree(disk, disk') =>
         [\A i \in DOMAIN disk.orders, j \in DOMAIN disk'.orders :
             (/\ disk.orders[i].id = disk'.orders[j].id
              /\ disk.orders[i].status \in Terminal) => disk'.orders[j] = disk.orders[i]]_disk
  BY DEF Agree
<1> QED BY <1>1, <1>2, InvariantHolds, PTL DEF Spec, SavedIsFinal
----------------------------------------------------------------------------
(* What a caller does while it changes no book *)

\* The copies a caller works on.
Copied(t) == IF t.pc = "match" THEN t.queue
             ELSE IF t.pc = "settle" THEN t.queue \cup {t.order} ELSE {}

Asking(t) == t.pc \in {"quote", "commit"}

\* A caller goes on: it owes nobody a new answer, brings its request with it or has just
\* found its client id unused, copies no order that is not pending in the book, and takes
\* a price to trade at from a quote.
Quiet(c) ==
    /\ UNCHANGED <<mem, disk, nextId, acked, seen>>
    /\ \A x \in Clients : x # c => task'[x] = task[x]
    /\ task'[c].pc = "audit" => task'[c].answer = {}
    /\ Asking(task'[c]) => \/ Asking(task[c]) /\ task'[c].req = task[c].req
                           \/ task'[c].req.cid = NoCid
                           \/ OrderByClientID(task'[c].req.cid) = {}
    /\ Copied(task'[c]) \subseteq Copied(task[c]) \/ Copied(task'[c]) \subseteq Pending(mem)
    /\ task'[c].pc = "commit" => task'[c].price > 0
    /\ task'[c].pc = "settle" => Marketable(task'[c].order, task'[c].price)

\* The steps that change a book or answer a caller; every other one but a restart is quiet.
Changes(c) ==
    \E ok \in BOOLEAN : \/ FillNow(c, ok) \/ Rest(c, ok) \/ Audit(c, ok) \/ Settle(c, ok)
                        \/ \E i \in DOMAIN mem.orders : Cancel(c, i, ok)
                        \/ \E req \in Requests : Repeat(c, req)

\* A pass goes on with the orders it has left.
LEMMA PassOnQuiet ==
    ASSUME task \in [Clients -> Task], NEW c \in Clients, task[c].pc \in {"match", "settle"},
           NEW o, PassOn(c, o)
    PROVE  /\ \A x \in Clients : x # c => task'[x] = task[x]
           /\ task'[c].pc \in {"idle", "match"} /\ Copied(task'[c]) \subseteq Copied(task[c])
<1> DEFINE t == IF task[c].queue \ {o} = {} THEN Idle
                ELSE [pc |-> "match", queue |-> task[c].queue \ {o}]
<1>1. Goto(c, t)
  BY DEF PassOn
<1>2. t.pc \in {"idle", "match"} /\ (t.pc = "match" => t.queue \subseteq task[c].queue)
  BY DEF Idle
<1> HIDE DEF t
<1> QED BY <1>1, <1>2, GotoMoves DEF Copied

\* Every step but a restart is quiet or changes a book or an answer.
LEMMA Kinds ==
    ASSUME TypeOK, Next, ~Restart
    PROVE  \E c \in Clients : Quiet(c) \/ Changes(c)
<1>0. task \in [Clients -> Task]
  BY DEF TypeOK
<1>g. ASSUME NEW c \in Clients, NEW t, Goto(c, t)
      PROVE  task'[c] = t /\ \A x \in Clients : x # c => task'[x] = task[x]
  BY <1>0, <1>g, GotoMoves
<1>1. ASSUME NEW c \in Clients, Report(c, {}), UNCHANGED <<mem, disk, nextId, acked, seen>>
      PROVE  Quiet(c)
  <2> DEFINE t == [pc |-> "audit", answer |-> {}]
  <2>1. t.pc = "audit" /\ t.answer = {} /\ Copied(t) = {} /\ ~Asking(t)
    BY DEF Copied, Asking
  <2>2. Goto(c, t)
    BY <1>1 DEF Report
  <2> HIDE DEF t
  <2>3. QED
    BY <1>1, <1>g, <2>1, <2>2 DEF Quiet
<1>2. ASSUME NEW c \in Clients, NEW req \in Requests, Submit(c, req) PROVE Quiet(c)
  <2> DEFINE t == [pc |-> "quote", req |-> req]
  <2>1. t.pc = "quote" /\ t.req = req /\ Copied(t) = {}
    BY DEF Copied
  <2>2. Goto(c, t) /\ UNCHANGED <<mem, disk, nextId, acked, seen>> /\ (req.cid = NoCid \/ OrderByClientID(req.cid) = {})
    BY <1>2 DEF Submit
  <2> HIDE DEF t
  <2>3. QED
    BY <1>g, <2>1, <2>2 DEF Quiet
<1>3. ASSUME NEW c \in Clients, NEW p \in Prices, QuoteOrder(c, p) PROVE Quiet(c)
  <2> DEFINE t == [pc |-> "commit", req |-> task[c].req, price |-> p]
  <2>1. t.pc = "commit" /\ t.req = task[c].req /\ t.price = p /\ Copied(t) = {}
    BY DEF Copied
  <2>2. Goto(c, t) /\ UNCHANGED <<mem, disk, nextId, acked, seen>> /\ task[c].pc = "quote" /\ p > 0
    BY <1>3 DEF QuoteOrder
  <2> HIDE DEF t
  <2>3. QED
    BY <1>g, <2>1, <2>2 DEF Quiet, Asking
<1>4. ASSUME NEW c \in Clients, StartMatching(c) PROVE Quiet(c)
  <2> DEFINE t == [pc |-> "match", queue |-> Pending(mem)]
  <2>1. t.pc = "match" /\ Copied(t) = Pending(mem)
    BY DEF Copied
  <2>2. Goto(c, t) /\ UNCHANGED <<mem, disk, nextId, acked, seen>>
    BY <1>4 DEF StartMatching
  <2> HIDE DEF t
  <2>3. QED
    BY <1>g, <2>1, <2>2 DEF Quiet, Asking
<1>5. ASSUME NEW c \in Clients, task[c].pc = "match", NEW o \in task[c].queue, NEW p \in Prices,
             QuoteMatch(c, o, p)
      PROVE  Quiet(c)
  <2> DEFINE t == [pc |-> "settle", queue |-> task[c].queue, order |-> o, price |-> p]
  <2>1. t.pc = "settle" /\ t.order = o /\ t.price = p /\ Copied(t) = task[c].queue
    BY <1>5 DEF Copied
  <2>2. /\ Goto(c, t) /\ UNCHANGED <<mem, disk, nextId, acked, seen>> /\ Copied(task[c]) = task[c].queue
        /\ Marketable(o, p)
    BY <1>5 DEF QuoteMatch, Copied
  <2> HIDE DEF t
  <2>3. QED
    BY <1>g, <2>1, <2>2 DEF Quiet, Asking
<1>6. ASSUME NEW c \in Clients, task[c].pc = "match", NEW o \in task[c].queue, SkipMatch(c, o)
      PROVE  Quiet(c)
  BY <1>0, <1>6, PassOnQuiet DEF SkipMatch, Quiet, Asking
<1>7. ASSUME NEW c \in Clients, FillRefused(c) \/ QuoteFails(c) \/ \E req \in Requests : Refuse(c, req)
      PROVE  Quiet(c)
  BY <1>1, <1>7 DEF FillRefused, QuoteFails, Refuse
<1> QED BY <1>2, <1>3, <1>4, <1>5, <1>6, <1>7 DEF Next, Begin, Step, Changes

----------------------------------------------------------------------------
(* Orders stay *)

\* An order is in the book, or newer ones may have pushed it out.
Kept(st, id) == \/ \E i \in DOMAIN st.orders : st.orders[i].id = id
                \/ Len(st.orders) = MaxHistory

Retains(old, new) == \A id : Kept(old, id) => Kept(new, id)

\* A new order pushes another out of a full book only.
LEMMA PrependRetains ==
    ASSUME NEW st \in TradingState, NEW new \in TradingState, NEW o \in Order,
           new.orders = Prepend(o, st.orders)
    PROVE  Retains(st, new) /\ Kept(new, o.id)
<1> DEFINE s == st.orders
           n == IF Len(s) < MaxHistory THEN Len(s) + 1 ELSE MaxHistory
<1>1. s \in Seq(Order) /\ Len(s) \in Nat /\ DOMAIN s = 1..Len(s)
  BY LenProperties DEF TradingState
<1>2. n \in Nat /\ n # 0
  BY <1>1, BrokerAssumption
<1>3. new.orders = [i \in 1..n |-> IF i = 1 THEN o ELSE s[i - 1]]
  BY DEF Prepend
<1>4. Len(s) < MaxHistory => n = Len(s) + 1
  OBVIOUS
<1>5. ~(Len(s) < MaxHistory) => n = MaxHistory
  OBVIOUS
<1> HIDE DEF n, s
<1>6. new.orders \in Seq(Order)
  BY DEF TradingState
<1>7. DOMAIN new.orders = 1..n /\ Len(new.orders) = n
  <2>1. DOMAIN new.orders = 1..n
    BY <1>3
  <2>2. Len(new.orders) \in Nat /\ DOMAIN new.orders = 1..Len(new.orders)
    BY <1>6, LenProperties
  <2>3. QED
    BY <1>2, <2>1, <2>2
<1>8. 1 \in DOMAIN new.orders /\ new.orders[1] = o
  BY <1>2, <1>3
<1>9. ASSUME NEW id, Kept(st, id)
      PROVE  Kept(new, id)
  <2>1. CASE ~(Len(s) < MaxHistory)
    BY <1>5, <1>7, <2>1 DEF Kept
  <2>2. CASE Len(s) < MaxHistory
    <3>1. PICK i \in DOMAIN s : s[i].id = id
      BY <1>1, <1>9, <2>2, BrokerAssumption DEF Kept, s
    <3>2. i + 1 \in DOMAIN new.orders /\ i \in Nat /\ i + 1 # 1 /\ i + 1 - 1 = i
      BY <1>1, <1>4, <1>7, <2>2
    <3>3. new.orders[i + 1] = s[i]
      BY <1>3, <1>7, <3>2
    <3>4. QED
      BY <3>1, <3>2, <3>3 DEF Kept
  <2>3. QED
    BY <2>1, <2>2
<1>10. QED
  BY <1>8, <1>9 DEF Retains, Kept

\* An order with its final status and price.
Finished(o, status, p) == [o EXCEPT !.status = status, !.price = p]

\* What giving an order its final status changes, place by place.
LEMMA MarkPlaces ==
    ASSUME NEW st \in TradingState, NEW id, NEW status, NEW p, NEW new, new = Mark(st, id, status, p)
    PROVE  /\ new.cash = st.cash /\ new.pos = st.pos
           /\ DOMAIN new.orders = DOMAIN st.orders
           /\ \A i \in DOMAIN st.orders :
                 /\ st.orders[i].id = id /\ st.orders[i].status = "PENDING" =>
                       new.orders[i] = Finished(st.orders[i], status, p)
                 /\ ~(st.orders[i].id = id /\ st.orders[i].status = "PENDING") =>
                       new.orders[i] = st.orders[i]
BY DEF Mark, TradingState, Finished

\* An order keeps its terms when it gets its final status.
LEMMA MarkTerms ==
    ASSUME NEW st \in TradingState, NEW id, NEW status, NEW p, NEW new, new = Mark(st, id, status, p),
           NEW i \in DOMAIN st.orders
    PROVE  /\ new.orders[i].id = st.orders[i].id /\ new.orders[i].cid = st.orders[i].cid
           /\ new.orders[i].symbol = st.orders[i].symbol /\ new.orders[i].side = st.orders[i].side
           /\ new.orders[i].qty = st.orders[i].qty
           /\ new.orders[i].type = st.orders[i].type /\ new.orders[i].limit = st.orders[i].limit
           /\ st.orders[i].id = id /\ st.orders[i].status = "PENDING" =>
                 new.orders[i].status = status /\ new.orders[i].price = p
<1>1. st.orders[i] \in Order
  BY BookOrders
<1>2. CASE st.orders[i].id = id /\ st.orders[i].status = "PENDING"
  <2>1. new.orders[i] = Finished(st.orders[i], status, p)
    BY <1>2, MarkPlaces
  <2>2. QED
    BY <1>1, <2>1 DEF Order, Finished
<1>3. CASE ~(st.orders[i].id = id /\ st.orders[i].status = "PENDING")
  BY <1>3, MarkPlaces
<1> QED BY <1>2, <1>3

\* The book keeps its length when an order gets its final status.
LEMMA MarkLength ==
    ASSUME NEW st \in TradingState, NEW id, NEW status, NEW p, NEW new, new = Mark(st, id, status, p),
           new \in TradingState
    PROVE  Len(new.orders) = Len(st.orders)
<1>1. DOMAIN new.orders = DOMAIN st.orders
  BY MarkPlaces
<1>2. /\ Len(new.orders) \in Nat /\ DOMAIN new.orders = 1..Len(new.orders)
      /\ Len(st.orders) \in Nat /\ DOMAIN st.orders = 1..Len(st.orders)
  BY LenProperties DEF TradingState
<1>3. 1..Len(new.orders) = 1..Len(st.orders)
  BY <1>1, <1>2
<1> QED BY <1>2, <1>3

\* No order is lost when one gets its final status.
LEMMA MarkRetains ==
    ASSUME NEW st \in TradingState, NEW id, NEW status, NEW p, NEW new, new = Mark(st, id, status, p),
           new \in TradingState
    PROVE  Retains(st, new)
<1>1. DOMAIN new.orders = DOMAIN st.orders
  BY MarkPlaces
<1>2. Len(new.orders) = Len(st.orders)
  BY MarkLength
<1> QED BY <1>1, <1>2, MarkTerms DEF Retains, Kept

\* The holdings after a fill.
NewPos(pos, o) == [pos EXCEPT ![o.symbol] = @ + ShareDelta(o)]

\* The parts of the ledger after a fill.
LEMMA FillParts ==
    ASSUME NEW st \in TradingState, NEW o, NEW p
    PROVE  /\ FillLedger(st, o, p).cash = st.cash + CashDelta(o, p)
           /\ FillLedger(st, o, p).pos = NewPos(st.pos, o)
BY DEF FillLedger, TradingState, NewPos

----------------------------------------------------------------------------
(* What the steps do to the memory *)

\* The cash and the holding after a fill of o at its price.
Booked(o) == /\ CanFill(mem, o, o.price)
             /\ mem'.cash = mem.cash + CashDelta(o, o.price)
             /\ mem'.pos = NewPos(mem.pos, o)

\* An order rests in the book only at a limit, and a limit is above zero.
Resting(o) == o.type = "LIMIT" /\ o.limit > 0

\* PlaceOrder inserts the order o, filled or not.
Entered(c, o) ==
    /\ task[c].pc = "commit" /\ ~Asking(task'[c])
    /\ o \in Order /\ o.id = nextId
    /\ o.cid = IF task[c].req.cid = NoCid THEN nextId ELSE task[c].req.cid
    /\ mem'.orders = Prepend(o, mem.orders)
    /\ \/ o.status = "PENDING" /\ Resting(o) /\ mem'.cash = mem.cash /\ mem'.pos = mem.pos
       \/ o.status = "FILLED" /\ o.price = task[c].price /\ Marketable(o, o.price) /\ Booked(o)

\* A pending order is canceled or rejected.
Closed == \E id \in Nat, status \in {"CANCELED", "REJECTED"} : mem' = Mark(mem, id, status, 0)

\* A pending order is filled by a pass that has copied it.
Traded(c) ==
    \E o \in Copied(task[c]), p \in Int :
        /\ task[c].pc = "settle" /\ o = task[c].order /\ p = task[c].price
        /\ o \in Order /\ IsPending(mem, o.id) /\ CanFill(mem, o, p)
        /\ mem' = Mark(FillLedger(mem, o, p), o.id, "FILLED", p)

\* The answer that is due by now is about an order that memory and file have.
NewlyKept(a) == Kept(mem', a.id) /\ Kept(disk', a.id)

\* A save that fails leaves the file as it was, and one that succeeds vouches for what was told.
Written == \/ UNCHANGED <<disk, acked, seen>>
           \/ disk' = mem' /\ acked' = acked \cup seen /\ seen' = {}

\* So it is when nobody is answered.
LEMMA ToldNothing ==
    ASSUME NEW st, NEW ok \in BOOLEAN, Save(st, ok), Told({}, ok)
    PROVE  Written
BY DEF Save, Told, Written

\* A step that changes a book or answers a caller.
Effect(c) ==
    /\ \/ mem' = mem \/ Closed \/ Traded(c) \/ \E o \in Order : Entered(c, o)
    /\ disk' \in {disk, mem'}
    /\ \A x \in Clients : x # c => task'[x] = task[x]
    /\ Written \/ (mem' = mem /\ acked \subseteq acked' /\ seen \subseteq acked' \cup seen')
    /\ \A a \in acked' : \/ a \in acked \/ NewlyKept(a) \/ (disk' = mem' /\ a \in seen)
                         \/ (task[c].pc = "audit" /\ a \in task[c].answer)
    /\ \A a \in seen' : a \in seen \/ Kept(mem', a.id)
    /\ task'[c].pc = "audit" => \A a \in task'[c].answer : NewlyKept(a)
    /\ Asking(task'[c]) => task'[c] = task[c]
    /\ Copied(task'[c]) \subseteq Copied(task[c]) /\ task'[c].pc # "settle"

\* Entering an order is such a step.
LEMMA EnterEffect ==
    ASSUME TypeOK, TypeOK', NEW c \in Clients, NEW o \in Order, NEW st \in TradingState, NEW ok \in BOOLEAN,
           task[c].pc = "commit", o.id = nextId,
           o.cid = IF task[c].req.cid = NoCid THEN nextId ELSE task[c].req.cid,
           st.orders = mem.orders, Enter(c, o, st, ok),
           \/ o.status = "PENDING" /\ Resting(o) /\ st.cash = mem.cash /\ st.pos = mem.pos
           \/ /\ o.status = "FILLED" /\ o.price = task[c].price
              /\ Marketable(o, o.price) /\ CanFill(mem, o, o.price)
              /\ st.cash = mem.cash + CashDelta(o, o.price)
              /\ st.pos = NewPos(mem.pos, o)
    PROVE  Effect(c)
<1>0. /\ mem \in TradingState /\ mem' \in TradingState /\ task \in [Clients -> Task] /\ nextId \in Nat
  BY DEF TypeOK
<1>1. /\ mem' = [st EXCEPT !.orders = Prepend(o, st.orders)] /\ disk' \in {disk, mem'}
      /\ (ok => disk' = mem') /\ Written
  BY ToldNothing DEF Enter, Save
<1>2. mem'.orders = Prepend(o, mem.orders) /\ mem'.cash = st.cash /\ mem'.pos = st.pos
  BY <1>1 DEF TradingState
<1> DEFINE t == [pc |-> "audit", answer |-> IF ok THEN {[id |-> o.id, status |-> o.status]} ELSE {}]
<1>3. Goto(c, t)
  BY DEF Enter, Report
<1>4. t.pc = "audit" /\ \A a \in t.answer : ok /\ a.id = o.id
  OBVIOUS
<1> HIDE DEF t
<1>5. task'[c] = t /\ \A x \in Clients : x # c => task'[x] = task[x]
  BY <1>0, <1>3, GotoMoves
<1>6. ~Asking(task'[c]) /\ Copied(task'[c]) = {}
  BY <1>4, <1>5 DEF Asking, Copied
<1>7. Kept(mem', o.id)
  BY <1>0, <1>2, PrependRetains
<1>8. Entered(c, o)
  BY <1>2, <1>6 DEF Entered, Booked
<1> QED BY <1>1, <1>4, <1>5, <1>6, <1>7, <1>8 DEF Effect, NewlyKept, Written

\* So is filling an order as it enters.
LEMMA FillNowEffect ==
    ASSUME TypeOK, TypeOK', NEW c \in Clients, NEW ok \in BOOLEAN, FillNow(c, ok)
    PROVE  Effect(c)
<1>0. mem \in TradingState /\ task[c] \in Task /\ nextId \in Nat
  BY DEF TypeOK
<1> DEFINE o == NewOrder(task[c].req, nextId)
           p == task[c].price
           f == [o EXCEPT !.status = "FILLED", !.price = p]
<1>1. o \in Order /\ p \in Int
  BY <1>0, TaskFields, NewOrderType, BrokerAssumption DEF FillNow
<1>2. /\ Enter(c, f, FillLedger(mem, o, p), ok) /\ Marketable(o, p) /\ CanFill(mem, o, p)
      /\ task[c].pc = "commit"
  BY DEF FillNow
<1>3. /\ o.id = nextId /\ p = task[c].price
      /\ o.cid = IF task[c].req.cid = NoCid THEN nextId ELSE task[c].req.cid
  BY DEF NewOrder
<1> HIDE DEF o, p
<1>4. /\ f \in Order /\ f.id = nextId /\ f.status = "FILLED" /\ f.price = p
      /\ f.cid = o.cid /\ f.symbol = o.symbol /\ f.side = o.side /\ f.qty = o.qty
      /\ f.type = o.type /\ f.limit = o.limit
  BY <1>1, <1>3 DEF Order, Statuses
<1>5. FillLedger(mem, o, p) \in TradingState /\ FillLedger(mem, o, p).orders = mem.orders
  BY <1>0, <1>1, FillLedgerType
<1> HIDE DEF f
<1>6. /\ Marketable(f, p) /\ CanFill(mem, f, p)
      /\ CashDelta(f, p) = CashDelta(o, p) /\ ShareDelta(f) = ShareDelta(o)
  BY <1>2, <1>4 DEF Marketable, CanFill, CashDelta, ShareDelta
<1>7. /\ FillLedger(mem, o, p).cash = mem.cash + CashDelta(f, p)
      /\ FillLedger(mem, o, p).pos = NewPos(mem.pos, f)
  <2>1. NewPos(mem.pos, f) = NewPos(mem.pos, o)
    BY <1>4, <1>6 DEF NewPos
  <2>2. QED
    BY <1>0, <1>6, <2>1, FillParts
<1> QED BY <1>2, <1>3, <1>4, <1>5, <1>6, <1>7, EnterEffect

\* So is entering an order that rests.
LEMMA RestEffect ==
    ASSUME TypeOK, TypeOK', NEW c \in Clients, NEW ok \in BOOLEAN, Rest(c, ok)
    PROVE  Effect(c)
<1>0. mem \in TradingState /\ task[c] \in Task /\ nextId \in Nat
  BY DEF TypeOK
<1> DEFINE o == NewOrder(task[c].req, nextId)
<1>1. o \in Order
  BY <1>0, TaskFields, NewOrderType DEF Rest
<1>2. Enter(c, o, mem, ok) /\ task[c].pc = "commit"
  BY DEF Rest
<1>3. o.id = nextId /\ o.status = "PENDING" /\ o.cid = IF task[c].req.cid = NoCid THEN nextId ELSE task[c].req.cid
  BY DEF NewOrder
<1>4. Resting(o)
  <2> DEFINE req == task[c].req
  <2>1. req \in ValidRequests /\ o.type = OrderType(req) /\ o.limit = OrderLimit(req)
    BY <1>0, TaskFields DEF Rest, NewOrder
  <2>2. o.type = "LIMIT"
    BY <1>1 DEF Rest, Marketable, Order
  <2> HIDE DEF o, req
  <2>3. req.type = "LIMIT"
    BY <2>1, <2>2 DEF OrderType
  <2>4. o.limit = req.limit /\ req.limit > 0
    BY <2>1, <2>2, <2>3 DEF OrderLimit, ValidRequests, ValidRequest
  <2>5. QED
    BY <2>2, <2>4 DEF Resting
<1> HIDE DEF o
<1> QED BY <1>0, <1>1, <1>2, <1>3, <1>4, EnterEffect

\* So is delivering an answer.
LEMMA AuditEffect ==
    ASSUME TypeOK, NEW c \in Clients, NEW ok \in BOOLEAN, Audit(c, ok)
    PROVE  Effect(c)
<1>0. task \in [Clients -> Task]
  BY DEF TypeOK
<1>1. /\ mem' = mem /\ disk' \in {disk, mem'} /\ task[c].pc = "audit"
      /\ acked \subseteq acked' /\ seen \subseteq acked' \cup seen' /\ seen' \subseteq seen
      /\ \A a \in acked' : a \in acked \/ a \in task[c].answer \/ (disk' = mem' /\ a \in seen)
  BY ToldSoFar DEF Audit, Save
<1>2. task'[c] = Idle /\ \A x \in Clients : x # c => task'[x] = task[x]
  BY <1>0, GotoMoves DEF Audit
<1>3. task'[c].pc = "idle" /\ Copied(task'[c]) = {} /\ ~Asking(task'[c])
  BY <1>2 DEF Idle, Copied, Asking
<1> QED BY <1>1, <1>2, <1>3 DEF Effect

\* So is answering a repeated request.
LEMMA RepeatEffect ==
    ASSUME TypeOK, NEW c \in Clients, NEW req \in Requests, Repeat(c, req)
    PROVE  Effect(c)
<1>1. /\ UNCHANGED <<mem, disk, task>> /\ task[c] = Idle
      /\ acked \subseteq acked' /\ seen \subseteq acked' \cup seen'
  BY DEF Repeat
<1>2. PICK i \in DOMAIN mem.orders :
         LET a == [id |-> mem.orders[i].id, status |-> mem.orders[i].status]
         IN  /\ acked' = IF InFile(a) THEN acked \cup {a} ELSE acked
             /\ seen' = IF InFile(a) THEN seen ELSE seen \cup {a}
  BY DEF Repeat, OrderByClientID
<1> DEFINE a == [id |-> mem.orders[i].id, status |-> mem.orders[i].status]
<1>3. Kept(mem, a.id)
  BY DEF Kept
<1>4. /\ acked' = IF InFile(a) THEN acked \cup {a} ELSE acked
      /\ seen' = IF InFile(a) THEN seen ELSE seen \cup {a}
  BY <1>2
<1> HIDE DEF a
<1>5. InFile(a) => Kept(disk, a.id)
  BY DEF InFile, Kept
<1>6. /\ \A b \in acked' : b \in acked \/ NewlyKept(b)
      /\ \A b \in seen' : b \in seen \/ Kept(mem', b.id)
  BY <1>1, <1>3, <1>4, <1>5 DEF NewlyKept, Kept
<1>7. ~Asking(task'[c]) /\ Copied(task'[c]) = {} /\ task'[c].pc = "idle"
  BY <1>1 DEF Asking, Copied, Idle
<1> QED BY <1>1, <1>6, <1>7 DEF Effect

\* So is a cancellation.
LEMMA CancelEffect ==
    ASSUME TypeOK, TypeOK', NEW c \in Clients, NEW i \in DOMAIN mem.orders, NEW ok \in BOOLEAN, Cancel(c, i, ok)
    PROVE  Effect(c)
<1>0. task \in [Clients -> Task] /\ mem \in TradingState /\ mem' \in TradingState
  BY DEF TypeOK
<1> DEFINE id == mem.orders[i].id
<1>1. id \in Nat
  BY <1>0, BookOrders DEF Order
<1>2. /\ mem' = Mark(mem, id, "CANCELED", 0) /\ disk' \in {disk, mem'} /\ (ok => disk' = mem')
      /\ task[c] = Idle /\ Written
  BY ToldNothing DEF Cancel, Save
<1>3. Kept(mem', id)
  <2>1. Kept(mem, id)
    BY DEF Kept
  <2> HIDE DEF id
  <2>2. QED
    BY <1>0, <1>2, <2>1, MarkRetains DEF Retains
<1>4. Closed
  BY <1>1, <1>2 DEF Closed
<1> DEFINE t == [pc |-> "audit", answer |-> {[id |-> id, status |-> "CANCELED"]}]
<1>5. t.pc = "audit" /\ \A a \in t.answer : a.id = id
  OBVIOUS
<1>6. (ok /\ Goto(c, t)) \/ task' = task
  BY DEF Cancel, Report
<1> HIDE DEF t, id
<1>7. CASE ok /\ Goto(c, t)
  <2>1. task'[c] = t /\ \A x \in Clients : x # c => task'[x] = task[x]
    BY <1>0, <1>7, GotoMoves
  <2>2. ~Asking(task'[c]) /\ Copied(task'[c]) = {}
    BY <1>5, <2>1 DEF Asking, Copied
  <2>3. QED
    BY <1>2, <1>3, <1>4, <1>5, <1>7, <2>1, <2>2 DEF Effect, NewlyKept, Written
<1>8. CASE task' = task
  BY <1>2, <1>4, <1>8 DEF Effect, Idle, Written
<1> QED BY <1>6, <1>7, <1>8

\* So is settling an order in a matching pass.
LEMMA SettleEffect ==
    ASSUME TypeOK, NEW c \in Clients, NEW ok \in BOOLEAN, Settle(c, ok)
    PROVE  Effect(c)
<1>0. task \in [Clients -> Task] /\ mem \in TradingState
  BY DEF TypeOK
<1> DEFINE o == task[c].order
           p == task[c].price
<1>1. task[c].pc = "settle" /\ o \in Order /\ p \in Int /\ o.id \in Nat /\ o \in Copied(task[c])
      /\ o = task[c].order /\ p = task[c].price
  BY <1>0, TaskFields, BrokerAssumption DEF Settle, Order, Copied
<1>2. mem' = Settled(mem, o, p) /\ disk' \in {disk, mem'} /\ Written
  BY ToldNothing DEF Settle, Save
<1>3. PassOn(c, o)
  BY DEF Settle
<1> HIDE DEF o, p
<1>4. /\ \A x \in Clients : x # c => task'[x] = task[x]
      /\ task'[c].pc \in {"idle", "match"} /\ Copied(task'[c]) \subseteq Copied(task[c])
  BY <1>0, <1>1, <1>3, PassOnQuiet
<1>5. mem' = mem \/ Closed \/ Traded(c)
  <2>1. CASE ~IsPending(mem, o.id)
    BY <1>2, <2>1 DEF Settled
  <2>2. CASE IsPending(mem, o.id) /\ CanFill(mem, o, p)
    <3>1. mem' = Mark(FillLedger(mem, o, p), o.id, "FILLED", p)
      BY <1>2, <2>2 DEF Settled
    <3>2. QED
      BY <1>1, <2>2, <3>1 DEF Traded
  <2>3. CASE IsPending(mem, o.id) /\ ~CanFill(mem, o, p)
    <3>1. mem' = Mark(mem, o.id, "REJECTED", 0)
      BY <1>2, <2>3 DEF Settled
    <3>2. QED
      BY <1>1, <3>1 DEF Closed
  <2>4. QED
    BY <2>1, <2>2, <2>3
<1> QED BY <1>2, <1>4, <1>5 DEF Effect, Asking, Written

\* Every step but a restart leaves the books alone or is one of these.
LEMMA StepKinds ==
    ASSUME TypeOK, TypeOK', Next, ~Restart
    PROVE  \E c \in Clients : Quiet(c) \/ Effect(c)
BY Kinds, FillNowEffect, RestEffect, AuditEffect, RepeatEffect, CancelEffect, SettleEffect DEF Changes

----------------------------------------------------------------------------
(* What callers were told of stays in the book *)

KeptInv == /\ \A a \in acked : Kept(mem, a.id) /\ Kept(disk, a.id)
           /\ \A a \in seen : Kept(mem, a.id)
           /\ \A c \in Clients : task[c].pc = "audit" =>
                 \A a \in task[c].answer : Kept(mem, a.id) /\ Kept(disk, a.id)

\* No locked section drops an order but for a newer one in a full book.
LEMMA EffectRetains ==
    ASSUME TypeOK, TypeOK', NEW c \in Clients, Effect(c)
    PROVE  Retains(mem, mem')
<1>0. mem \in TradingState /\ mem' \in TradingState
  BY DEF TypeOK
<1>1. CASE mem' = mem
  BY <1>1 DEF Retains
<1>2. CASE Closed
  BY <1>0, <1>2, MarkRetains DEF Closed
<1>3. CASE Traded(c)
  <2>1. PICK o \in Order, p \in Int : mem' = Mark(FillLedger(mem, o, p), o.id, "FILLED", p)
    BY <1>3 DEF Traded
  <2>2. FillLedger(mem, o, p) \in TradingState /\ FillLedger(mem, o, p).orders = mem.orders
    BY <1>0, FillLedgerType
  <2>3. Retains(FillLedger(mem, o, p), mem')
    BY <1>0, <2>1, <2>2, MarkRetains
  <2>4. \A id : Kept(mem, id) => Kept(FillLedger(mem, o, p), id)
    BY <2>2 DEF Kept
  <2>5. QED
    BY <2>3, <2>4 DEF Retains
<1>4. CASE \E o \in Order : Entered(c, o)
  BY <1>0, <1>4, PrependRetains DEF Entered
<1> QED BY <1>1, <1>2, <1>3, <1>4 DEF Effect

\* Every step keeps the orders that callers were told of, or are about to be.
LEMMA KeptStep ==
    ASSUME TypeOK, TypeOK', KeptInv, Next
    PROVE  KeptInv'
<1>1. CASE Restart
  BY <1>1 DEF Restart, KeptInv, Kept, Idle
<1>2. ASSUME NEW c \in Clients, Quiet(c) PROVE KeptInv'
  <2>1. mem' = mem /\ disk' = disk /\ acked' = acked /\ seen' = seen
    BY <1>2 DEF Quiet
  <2>2. \A x \in Clients : task'[x].pc = "audit" => task'[x] = task[x] \/ task'[x].answer = {}
    BY <1>2 DEF Quiet
  <2>3. QED
    BY <2>1, <2>2 DEF KeptInv
<1>3. ASSUME NEW c \in Clients, Effect(c) PROVE KeptInv'
  <2>1. \A id : Kept(mem, id) => Kept(mem', id)
    BY <1>3, EffectRetains DEF Retains
  <2>2. \A id : Kept(mem, id) /\ Kept(disk, id) => Kept(mem', id) /\ Kept(disk', id)
    BY <1>3, <2>1 DEF Effect
  <2>3. ASSUME NEW a \in acked' PROVE Kept(mem', a.id) /\ Kept(disk', a.id)
    <3>1. CASE a \in acked \/ (task[c].pc = "audit" /\ a \in task[c].answer)
      BY <2>2, <3>1 DEF KeptInv
    <3>2. CASE NewlyKept(a)
      BY <3>2 DEF NewlyKept
    <3>3. CASE disk' = mem' /\ a \in seen
      <4>1. Kept(mem', a.id)
        BY <2>1, <3>3 DEF KeptInv
      <4>2. QED
        BY <3>3, <4>1
    <3>4. QED
      BY <1>3, <2>3, <3>1, <3>2, <3>3 DEF Effect
  <2>6. \A a \in seen' : Kept(mem', a.id)
    BY <1>3, <2>1 DEF Effect, KeptInv
  <2>4. ASSUME NEW x \in Clients, task'[x].pc = "audit", NEW a \in task'[x].answer
        PROVE  Kept(mem', a.id) /\ Kept(disk', a.id)
    <3>1. CASE x = c
      <4>1. NewlyKept(a)
        BY <1>3, <2>4, <3>1 DEF Effect
      <4>2. Kept(mem', a.id) /\ Kept(disk', a.id)
        BY <4>1 DEF NewlyKept
      <4>3. QED
        BY <4>2
    <3>2. CASE x # c
      BY <1>3, <2>2, <2>4, <3>2 DEF Effect, KeptInv
    <3>3. QED
      BY <3>1, <3>2
  <2>5. QED
    BY <2>3, <2>4, <2>6 DEF KeptInv
<1> QED BY <1>1, <1>2, <1>3, StepKinds

----------------------------------------------------------------------------
(* Calls that race with the same client id *)

Bearing(st, cid) == {i \in DOMAIN st.orders : st.orders[i].cid = cid}
Racing(cid)      == {c \in Clients : Asking(task[c]) /\ task[c].req.cid = cid}

\* Each caller has one order of a client id under way or in the book, if any.
RaceInv ==
    \A cid \in ClientIds :
        /\ Cardinality(Bearing(mem, cid)) + Cardinality(Racing(cid)) <= Cardinality(Clients)
        /\ Cardinality(Bearing(disk, cid)) <= Cardinality(Clients)

\* The orders of a book that bear a client id are finitely many.
LEMMA BearingFinite ==
    ASSUME NEW st \in TradingState, NEW cid
    PROVE  IsFiniteSet(Bearing(st, cid)) /\ Cardinality(Bearing(st, cid)) \in Nat
<1>1. Len(st.orders) \in Nat /\ DOMAIN st.orders = 1..Len(st.orders)
  BY LenProperties DEF TradingState
<1>2. IsFiniteSet(1..Len(st.orders)) /\ Bearing(st, cid) \in SUBSET (1..Len(st.orders))
  BY <1>1, FS_Interval DEF Bearing
<1>3. IsFiniteSet(Bearing(st, cid))
  BY <1>2, FS_Subset
<1> QED BY <1>3, FS_CardinalityType

\* So are the callers under way with it.
LEMMA RacingFinite ==
    ASSUME NEW cid
    PROVE  /\ IsFiniteSet(Racing(cid)) /\ Cardinality(Racing(cid)) \in Nat
           /\ Cardinality(Racing(cid)) <= Cardinality(Clients) /\ Cardinality(Clients) \in Nat
<1>1. IsFiniteSet(Clients) /\ Racing(cid) \in SUBSET Clients
  BY BrokerAssumption DEF Racing
<1> QED BY <1>1, FS_Subset, FS_CardinalityType

\* A new order adds at most itself to those of its client id.
LEMMA PrependBearing ==
    ASSUME NEW st \in TradingState, NEW new \in TradingState, NEW o \in Order, NEW cid,
           new.orders = Prepend(o, st.orders)
    PROVE  Cardinality(Bearing(new, cid)) <= Cardinality(Bearing(st, cid)) + (IF o.cid = cid THEN 1 ELSE 0)
<1> DEFINE old  == Bearing(st, cid)
           now_ == Bearing(new, cid)
           rest == now_ \ {1}
           down == [i \in rest |-> i - 1]
<1>1. /\ DOMAIN new.orders \subseteq Nat
      /\ \A i \in DOMAIN new.orders :
            IF i = 1 THEN new.orders[i] = o
            ELSE i - 1 \in DOMAIN st.orders /\ new.orders[i] = st.orders[i - 1]
  BY PrependType DEF TradingState
<1>2. \A i \in rest : i \in Nat /\ i - 1 \in old
  BY <1>1 DEF Bearing
<1>3. 1 \in now_ => o.cid = cid
  BY <1>1 DEF Bearing
<1>4. /\ IsFiniteSet(old) /\ Cardinality(old) \in Nat /\ IsFiniteSet(now_) /\ Cardinality(now_) \in Nat
  BY BearingFinite
<1> HIDE DEF old, now_
<1>5. down \in Injection(rest, old)
  <2>1. \A i \in rest : down[i] \in old
    BY <1>2
  <2>2. \A i, j \in rest : down[i] = down[j] => i = j
    BY <1>2
  <2>3. QED
    BY <2>1, <2>2 DEF Injection, IsInjective
<1> HIDE DEF down
<1>6. IsFiniteSet(rest) /\ Cardinality(rest) <= Cardinality(old) /\ Cardinality(rest) \in Nat
  <2> HIDE DEF rest
  <2>1. IsFiniteSet(rest) /\ Cardinality(rest) <= Cardinality(old)
    BY <1>4, <1>5, FS_Injection
  <2>2. QED
    BY <2>1, FS_CardinalityType
<1>7. Cardinality(rest) = IF 1 \in now_ THEN Cardinality(now_) - 1 ELSE Cardinality(now_)
  BY <1>4, FS_RemoveElement
<1>8. CASE o.cid = cid
  <2> HIDE DEF rest
  <2>1. Cardinality(now_) <= Cardinality(old) + 1
    BY <1>4, <1>6, <1>7
  <2>2. QED
    BY <1>8, <2>1 DEF now_, old
<1>9. CASE o.cid # cid
  <2> HIDE DEF rest
  <2>1. Cardinality(now_) <= Cardinality(old) + 0
    BY <1>3, <1>4, <1>6, <1>7, <1>9
  <2>2. QED
    BY <1>9, <2>1 DEF now_, old
<1> QED BY <1>8, <1>9

\* An order keeps its client id when it gets its final status.
LEMMA MarkBearing ==
    ASSUME NEW st \in TradingState, NEW id, NEW status, NEW p, NEW new, new = Mark(st, id, status, p), NEW cid
    PROVE  Bearing(new, cid) = Bearing(st, cid)
<1>1. DOMAIN new.orders = DOMAIN st.orders
  BY MarkPlaces
<1>2. \A i \in DOMAIN st.orders : new.orders[i].cid = st.orders[i].cid
  BY MarkTerms
<1> QED BY <1>1, <1>2 DEF Bearing

\* Whatever a caller does, no more orders and calls bear a client id than there are callers.
LEMMA RaceStep ==
    ASSUME TypeOK, TypeOK', RaceInv, Next
    PROVE  RaceInv'
<1>0. /\ mem \in TradingState /\ mem' \in TradingState /\ disk \in TradingState /\ nextId \in Nat
      /\ task \in [Clients -> Task]
  BY DEF TypeOK
<1> SUFFICES ASSUME NEW cid \in ClientIds
             PROVE  /\ Cardinality(Bearing(mem', cid)) + Cardinality(Racing(cid)') <= Cardinality(Clients)
                    /\ Cardinality(Bearing(disk', cid)) <= Cardinality(Clients)
  BY DEF RaceInv, Bearing
<1>f. cid # NoCid /\ cid \notin Nat
  BY LedgerAssumption DEF NoCid
<1> DEFINE all  == Cardinality(Clients)
           b    == Cardinality(Bearing(mem, cid))
           b2   == Cardinality(Bearing(mem', cid))
           r    == Cardinality(Racing(cid))
           r2   == Cardinality(Racing(cid)')
           d    == Cardinality(Bearing(disk, cid))
           Now  == {c \in Clients : Asking(task'[c]) /\ task'[c].req.cid = cid}
<1>1. /\ all \in Nat /\ b \in Nat /\ r \in Nat /\ d \in Nat /\ b + r <= all /\ d <= all
      /\ IsFiniteSet(Racing(cid)) /\ IsFiniteSet(Clients)
  BY <1>0, BearingFinite, RacingFinite, BrokerAssumption DEF RaceInv
<1>2. b2 \in Nat
  BY <1>0, BearingFinite
<1>3. Racing(cid)' = Now
  BY DEF Racing, Asking
<1>4. r2 = Cardinality(Now) /\ Now \in SUBSET Clients
  BY <1>3
<1>5. r2 \in Nat /\ r2 <= all
  <2> HIDE DEF Now
  <2>1. IsFiniteSet(Now) /\ Cardinality(Now) <= Cardinality(Clients)
    BY <1>1, <1>4, FS_Subset
  <2>2. QED
    BY <1>4, <2>1, FS_CardinalityType
<1>6. ASSUME Now \subseteq Racing(cid) PROVE r2 <= r
  <2> HIDE DEF Now
  <2>1. QED
    BY <1>1, <1>4, <1>6, FS_Subset
<1>7. CASE Restart
  <2>1. mem' = disk /\ disk' = disk /\ \A c \in Clients : task'[c] = Idle
    BY <1>7 DEF Restart
  <2>2. Now = {}
    BY <2>1 DEF Asking, Idle
  <2>3. r2 = 0
    BY <1>4, <2>2, FS_EmptySet
  <2>4. QED
    BY <1>1, <2>1, <2>3
<1>8. ASSUME NEW c \in Clients, Quiet(c)
      PROVE  b2 + r2 <= all /\ Cardinality(Bearing(disk', cid)) <= all
  <2>1. /\ mem' = mem /\ disk' = disk /\ \A x \in Clients : x # c => task'[x] = task[x]
        /\ Asking(task'[c]) => \/ Asking(task[c]) /\ task'[c].req = task[c].req
                               \/ task'[c].req.cid = NoCid
                               \/ OrderByClientID(task'[c].req.cid) = {}
    BY <1>8 DEF Quiet
  <2>2. CASE Now \subseteq Racing(cid)
    BY <1>1, <1>2, <1>5, <1>6, <2>1, <2>2
  <2>3. CASE ~(Now \subseteq Racing(cid))
    <3>1. c \in Now /\ c \notin Racing(cid)
      BY <2>1, <2>3 DEF Racing
    <3>2. OrderByClientID(cid) = {}
      BY <1>f, <2>1, <3>1 DEF Racing
    <3>3. Bearing(mem', cid) = {}
      BY <2>1, <3>2 DEF Bearing, OrderByClientID
    <3>4. b2 = 0
      BY <3>3, FS_EmptySet
    <3>5. QED
      BY <1>1, <1>5, <2>1, <3>4
  <2>4. QED
    BY <2>2, <2>3
<1>9. ASSUME NEW c \in Clients, Effect(c)
      PROVE  b2 + r2 <= all /\ Cardinality(Bearing(disk', cid)) <= all
  <2>1. /\ disk' \in {disk, mem'} /\ \A x \in Clients : x # c => task'[x] = task[x]
        /\ Asking(task'[c]) => task'[c] = task[c]
    BY <1>9 DEF Effect
  <2>2. Now \subseteq Racing(cid)
    BY <2>1 DEF Racing
  <2>3. r2 <= r
    BY <1>6, <2>2
  <2>4. b2 + r2 <= all
    <3>1. CASE mem' = mem
      BY <1>1, <1>2, <1>5, <2>3, <3>1
    <3>2. CASE Closed \/ Traded(c)
      <4>1. Bearing(mem', cid) = Bearing(mem, cid)
        <5>1. CASE Closed
          BY <1>0, <5>1, MarkBearing DEF Closed
        <5>2. CASE Traded(c)
          <6>1. PICK o \in Order, p \in Int : mem' = Mark(FillLedger(mem, o, p), o.id, "FILLED", p)
            BY <5>2 DEF Traded
          <6>2. FillLedger(mem, o, p) \in TradingState /\ FillLedger(mem, o, p).orders = mem.orders
            BY <1>0, FillLedgerType
          <6>3. Bearing(mem', cid) = Bearing(FillLedger(mem, o, p), cid)
            BY <6>1, <6>2, MarkBearing
          <6>4. QED
            BY <6>2, <6>3 DEF Bearing
        <5>3. QED
          BY <3>2, <5>1, <5>2
      <4>2. b2 = b
        BY <4>1
      <4>3. QED
        BY <1>1, <1>5, <2>3, <4>2
    <3>3. ASSUME NEW o \in Order, Entered(c, o)
          PROVE  b2 + r2 <= all
      <4>1. b2 <= b + (IF o.cid = cid THEN 1 ELSE 0)
        BY <1>0, <3>3, PrependBearing DEF Entered
      <4>2. CASE o.cid # cid
        <5>1. b2 <= b
          BY <1>1, <1>2, <4>1, <4>2
        <5>2. QED
          BY <1>1, <1>2, <1>5, <2>3, <5>1
      <4>3. CASE o.cid = cid
        <5>1. c \in Racing(cid)
          BY <1>0, <1>f, <3>3, <4>3 DEF Entered, Racing, Asking
        <5>2. c \notin Now
          BY <3>3 DEF Entered
        <5>3. Now \in SUBSET (Racing(cid) \ {c})
          BY <2>2, <5>2
        <5>4. IsFiniteSet(Racing(cid) \ {c}) /\ Cardinality(Racing(cid) \ {c}) = r - 1
          BY <1>1, <5>1, FS_RemoveElement
        <5>5. r2 <= r - 1
          <6> HIDE DEF Now, r
          <6>1. Cardinality(Now) <= Cardinality(Racing(cid) \ {c})
            BY <5>3, <5>4, FS_Subset
          <6>2. QED
            BY <1>4, <5>4, <6>1
        <5>6. b2 <= b + 1
          BY <4>1, <4>3
        <5>7. QED
          <6> HIDE DEF b, b2, r, r2, all
          <6>1. QED
            BY <1>1, <1>2, <1>5, <5>5, <5>6
      <4>4. QED
        BY <4>2, <4>3
    <3>4. QED
      BY <1>9, <3>1, <3>2, <3>3 DEF Effect
  <2>5. b2 <= all
    BY <1>1, <1>2, <1>5, <2>4
  <2>6. QED
    BY <1>1, <2>1, <2>4, <2>5
<1> QED BY <1>7, <1>8, <1>9, StepKinds

----------------------------------------------------------------------------
(* Fills *)

\* What decides when an order is filled and how that is booked.
Terms(x, o) == /\ x.symbol = o.symbol /\ x.side = o.side /\ x.qty = o.qty
               /\ x.type = o.type /\ x.limit = o.limit

\* The copies that passes work on have the terms of the orders they were taken of.
CopiesInv ==
    \A c \in Clients : \A o \in Copied(task[c]) :
        /\ o.id < nextId
        /\ \A i \in DOMAIN mem.orders : mem.orders[i].id = o.id => Terms(mem.orders[i], o)

\* An order in the book is new or has the terms it had.
LEMMA EffectTerms ==
    ASSUME TypeOK, TypeOK', NEW c \in Clients, Effect(c)
    PROVE  \A j \in DOMAIN mem'.orders :
              \/ mem'.orders[j].id = nextId
              \/ \E i \in DOMAIN mem.orders : /\ mem.orders[i].id = mem'.orders[j].id
                                              /\ Terms(mem'.orders[j], mem.orders[i])
<1>0. mem \in TradingState /\ mem' \in TradingState
  BY DEF TypeOK
<1>1. CASE mem' = mem
  BY <1>1 DEF Terms
<1>2. CASE Closed
  BY <1>0, <1>2, MarkPlaces, MarkTerms DEF Closed, Terms
<1>3. CASE Traded(c)
  <2>1. PICK o \in Order, p \in Int : mem' = Mark(FillLedger(mem, o, p), o.id, "FILLED", p)
    BY <1>3 DEF Traded
  <2>2. FillLedger(mem, o, p) \in TradingState /\ FillLedger(mem, o, p).orders = mem.orders
    BY <1>0, FillLedgerType
  <2>3. DOMAIN mem'.orders = DOMAIN mem.orders
    BY <2>1, <2>2, MarkPlaces
  <2>4. \A i \in DOMAIN mem.orders : mem'.orders[i].id = mem.orders[i].id /\ Terms(mem'.orders[i], mem.orders[i])
    BY <2>1, <2>2, MarkTerms DEF Terms
  <2>5. QED
    BY <2>3, <2>4
<1>4. ASSUME NEW o \in Order, Entered(c, o)
      PROVE  \A j \in DOMAIN mem'.orders :
                \/ mem'.orders[j].id = nextId
                \/ \E i \in DOMAIN mem.orders : /\ mem.orders[i].id = mem'.orders[j].id
                                                /\ Terms(mem'.orders[j], mem.orders[i])
  <2>1. mem'.orders = Prepend(o, mem.orders) /\ o.id = nextId /\ mem.orders \in Seq(Order)
    BY <1>0, <1>4 DEF Entered, TradingState
  <2>2. \A i \in DOMAIN mem'.orders :
           IF i = 1 THEN mem'.orders[i] = o
           ELSE i - 1 \in DOMAIN mem.orders /\ mem'.orders[i] = mem.orders[i - 1]
    BY <2>1, PrependType
  <2>3. QED
    BY <2>1, <2>2 DEF Terms
<1> QED BY <1>1, <1>2, <1>3, <1>4 DEF Effect

\* Every step keeps the copies true to the orders they were taken of.
LEMMA CopiesStep ==
    ASSUME IInv, TypeOK', CopiesInv, Next
    PROVE  CopiesInv'
<1>0. /\ TypeOK /\ UniqueIds(mem) /\ Below(mem, nextId) /\ nextId \in Nat /\ mem \in TradingState
      /\ task \in [Clients -> Task]
  BY DEF IInv, TypeOK
<1>1. CASE Restart
  BY <1>1 DEF Restart, CopiesInv, Copied, Idle
<1>2. ASSUME NEW c \in Clients, Quiet(c) PROVE CopiesInv'
  <2>1. mem' = mem /\ nextId' = nextId
    BY <1>2 DEF Quiet
  <2>2. \A o \in Pending(mem) :
           /\ o.id < nextId
           /\ \A i \in DOMAIN mem.orders : mem.orders[i].id = o.id => Terms(mem.orders[i], o)
    BY <1>0 DEF Pending, UniqueIds, Below, Terms
  <2>3. \A x \in Clients : Copied(task'[x]) \subseteq Copied(task[x]) \/ Copied(task'[x]) \subseteq Pending(mem)
    BY <1>2 DEF Quiet
  <2>4. QED
    BY <2>1, <2>2, <2>3 DEF CopiesInv, Copied
<1>3. ASSUME NEW c \in Clients, Effect(c), ~Restart PROVE CopiesInv'
  <2>1. nextId' \in Nat /\ nextId <= nextId'
    BY <1>0, <1>3, StepEvolves DEF Evolves
  <2>2. \A x \in Clients : Copied(task'[x]) \subseteq Copied(task[x])
    BY <1>3 DEF Effect
  <2>3. ASSUME NEW x \in Clients, NEW o \in Copied(task'[x])
        PROVE  /\ o.id < nextId'
               /\ \A j \in DOMAIN mem'.orders : mem'.orders[j].id = o.id => Terms(mem'.orders[j], o)
    <3>1. /\ o.id < nextId
          /\ \A i \in DOMAIN mem.orders : mem.orders[i].id = o.id => Terms(mem.orders[i], o)
      BY <2>2, <2>3 DEF CopiesInv
    <3>2. o.id \in Nat
      <4>1. o \in Copied(task[x]) /\ task[x] \in Task
        BY <1>0, <2>2, <2>3
      <4>2. o \in Order
        BY <4>1, TaskFields DEF Copied
      <4>3. QED
        BY <4>2 DEF Order
    <3>3. \A j \in DOMAIN mem'.orders : mem'.orders[j].id = o.id => Terms(mem'.orders[j], o)
      BY <1>0, <1>3, <3>1, <3>2, EffectTerms DEF Terms
    <3>4. QED
      BY <1>0, <2>1, <3>1, <3>2, <3>3
  <2>4. QED
    BY <2>3 DEF CopiesInv, Copied
<1> QED BY <1>0, <1>1, <1>2, <1>3, StepKinds

\* Holdings are counted up from nothing.
LongOnly(st) == \A s \in Symbols : st.pos[s] >= 0

\* A sale is checked against the holding, so no fill makes one negative.
LEMMA FillStaysLong ==
    ASSUME NEW st \in TradingState, LongOnly(st), NEW o \in Order, NEW p, CanFill(st, o, p)
    PROVE  \A s \in Symbols : NewPos(st.pos, o)[s] >= 0
<1>1. /\ o.symbol \in Symbols /\ o.qty \in Nat /\ o.side \in {"BUY", "SELL"}
      /\ \A s \in Symbols : st.pos[s] \in Int /\ st.pos[s] >= 0
      /\ st.pos \in [Symbols -> Int]
  BY DEF Order, TradingState, LongOnly
<1>2. \A s \in Symbols :
         /\ s # o.symbol => NewPos(st.pos, o)[s] = st.pos[s]
         /\ s = o.symbol => NewPos(st.pos, o)[s] = st.pos[s] + ShareDelta(o)
  BY <1>1 DEF NewPos
<1>3. ShareDelta(o) = o.qty \/ (ShareDelta(o) = -o.qty /\ st.pos[o.symbol] >= o.qty)
  BY <1>1 DEF ShareDelta, CanFill
<1>4. st.pos[o.symbol] + ShareDelta(o) >= 0
  BY <1>1, <1>3
<1> QED BY <1>1, <1>2, <1>4

\* The cash and the holdings move with a fill, and no further.
LEMMA EffectPos ==
    ASSUME TypeOK, TypeOK', NEW c \in Clients, Effect(c)
    PROVE  \/ mem'.cash = mem.cash /\ mem'.pos = mem.pos
           \/ \E o \in Order, p \in Int : CanFill(mem, o, p) /\ mem'.pos = NewPos(mem.pos, o)
<1>0. mem \in TradingState
  BY DEF TypeOK
<1>1. CASE Closed
  BY <1>0, <1>1, MarkPlaces DEF Closed
<1>2. CASE Traded(c)
  <2>1. PICK o \in Order, p \in Int : CanFill(mem, o, p) /\ mem' = Mark(FillLedger(mem, o, p), o.id, "FILLED", p)
    BY <1>2 DEF Traded
  <2>2. FillLedger(mem, o, p) \in TradingState /\ FillLedger(mem, o, p).pos = NewPos(mem.pos, o)
    BY <1>0, FillLedgerType, FillParts
  <2>3. mem'.pos = NewPos(mem.pos, o)
    BY <2>1, <2>2, MarkPlaces
  <2>4. QED
    BY <2>1, <2>3
<1>3. ASSUME NEW o \in Order, Entered(c, o)
      PROVE  \/ mem'.cash = mem.cash /\ mem'.pos = mem.pos
             \/ \E x \in Order, p \in Int : CanFill(mem, x, p) /\ mem'.pos = NewPos(mem.pos, x)
  <2>1. o.price \in Int
    BY DEF Order
  <2>2. QED
    BY <1>3, <2>1 DEF Entered, Booked
<1> QED BY <1>1, <1>2, <1>3 DEF Effect

\* Every step keeps the holdings from going below nothing.
LEMMA LongStep ==
    ASSUME TypeOK, TypeOK', LongOnly(mem), LongOnly(disk), Next
    PROVE  LongOnly(mem') /\ LongOnly(disk')
<1>0. mem \in TradingState
  BY DEF TypeOK
<1>1. CASE Restart
  BY <1>1 DEF Restart
<1>2. ASSUME NEW c \in Clients, Quiet(c) PROVE LongOnly(mem') /\ LongOnly(disk')
  BY <1>2 DEF Quiet
<1>3. ASSUME NEW c \in Clients, Effect(c) PROVE LongOnly(mem') /\ LongOnly(disk')
  <2>1. LongOnly(mem')
    BY <1>0, <1>3, EffectPos, FillStaysLong DEF LongOnly
  <2>2. QED
    BY <1>3, <2>1 DEF Effect
<1> QED BY <1>1, <1>2, <1>3, StepKinds

----------------------------------------------------------------------------
(* One fill at a time *)

\* The step books no fill.
NoFill == mem'.cash = mem.cash /\ mem'.pos = mem.pos /\ FilledIn(mem') \subseteq FilledIn(mem)

\* The step books the fill of o at the price the book records, and no other.
FillOf(o) ==
    /\ o \in FilledIn(mem')
    /\ \A f \in FilledIn(mem) : f.id # o.id
    /\ FilledIn(mem') \subseteq FilledIn(mem) \cup {o}
    /\ mem'.cash = mem.cash + CashDelta(o, o.price)
    /\ mem'.pos = NewPos(mem.pos, o)

\* A fill is worth the same to every order of the same terms.
LEMMA SameTerms ==
    ASSUME NEW x, NEW o, Terms(x, o), NEW p, NEW pos
    PROVE  CashDelta(x, p) = CashDelta(o, p) /\ NewPos(pos, x) = NewPos(pos, o)
BY DEF Terms, CashDelta, ShareDelta, NewPos

\* Canceling or rejecting an order books nothing.
LEMMA ClosedFillsNothing ==
    ASSUME TypeOK, Closed
    PROVE  NoFill
<1>1. PICK id \in Nat, status \in {"CANCELED", "REJECTED"} : mem' = Mark(mem, id, status, 0)
  BY DEF Closed
<1>2. /\ mem \in TradingState /\ mem'.cash = mem.cash /\ mem'.pos = mem.pos
      /\ DOMAIN mem'.orders = DOMAIN mem.orders
  BY <1>1, MarkPlaces DEF TypeOK
<1>3. ASSUME NEW i \in DOMAIN mem.orders, mem'.orders[i].status = "FILLED"
      PROVE  mem'.orders[i] = mem.orders[i]
  <2>1. ~(mem.orders[i].id = id /\ mem.orders[i].status = "PENDING")
    BY <1>1, <1>2, <1>3, MarkTerms
  <2>2. QED
    BY <1>1, <1>2, <2>1, MarkPlaces
<1> QED BY <1>2, <1>3 DEF NoFill, FilledIn, With

\* Where a pass fills an order: the one place that holds it, which was pending.
LEMMA TradedPlace ==
    ASSUME IInv, CopiesInv, NEW c \in Clients, Traded(c)
    PROVE  \E k \in DOMAIN mem.orders, o \in Order, p \in Int :
              /\ o \in Copied(task[c]) /\ CanFill(mem, o, p)
              /\ task[c].pc = "settle" /\ o = task[c].order /\ p = task[c].price
              /\ mem' = Mark(FillLedger(mem, o, p), o.id, "FILLED", p)
              /\ mem.orders[k].id = o.id /\ mem.orders[k].status = "PENDING"
              /\ Terms(mem.orders[k], o) /\ Terms(mem'.orders[k], o)
              /\ mem'.orders[k].id = o.id /\ mem'.orders[k].status = "FILLED" /\ mem'.orders[k].price = p
              /\ DOMAIN mem'.orders = DOMAIN mem.orders
              /\ \A j \in DOMAIN mem.orders : j # k => mem'.orders[j] = mem.orders[j]
              /\ mem'.cash = mem.cash + CashDelta(o, p) /\ mem'.pos = NewPos(mem.pos, o)
<1>1. PICK o \in Order, p \in Int :
         /\ o \in Copied(task[c]) /\ IsPending(mem, o.id) /\ CanFill(mem, o, p)
         /\ task[c].pc = "settle" /\ o = task[c].order /\ p = task[c].price
         /\ mem' = Mark(FillLedger(mem, o, p), o.id, "FILLED", p)
  BY DEF Traded
<1>2. PICK k \in DOMAIN mem.orders : mem.orders[k].id = o.id /\ mem.orders[k].status = "PENDING"
  BY <1>1 DEF IsPending
<1>3. mem \in TradingState /\ UniqueIds(mem)
  BY DEF IInv, TypeOK
<1>4. Terms(mem.orders[k], o)
  BY <1>1, <1>2 DEF CopiesInv
<1> DEFINE st == FillLedger(mem, o, p)
<1>5. /\ st \in TradingState /\ st.orders = mem.orders
      /\ st.cash = mem.cash + CashDelta(o, p) /\ st.pos = NewPos(mem.pos, o)
  BY <1>3, FillLedgerType, FillParts
<1>6. mem' = Mark(st, o.id, "FILLED", p)
  BY <1>1
<1> HIDE DEF st
<1>7. /\ mem'.cash = st.cash /\ mem'.pos = st.pos /\ DOMAIN mem'.orders = DOMAIN mem.orders
  BY <1>5, <1>6, MarkPlaces
<1>8. /\ mem'.orders[k].id = o.id /\ mem'.orders[k].status = "FILLED" /\ mem'.orders[k].price = p
      /\ Terms(mem'.orders[k], o)
  BY <1>2, <1>4, <1>5, <1>6, MarkTerms DEF Terms
<1>9. ASSUME NEW j \in DOMAIN mem.orders, j # k
      PROVE  mem'.orders[j] = mem.orders[j]
  <2>1. mem.orders[j].id # o.id
    BY <1>2, <1>3, <1>9 DEF UniqueIds
  <2>2. QED
    BY <1>5, <1>6, <2>1, MarkPlaces
<1> QED BY <1>1, <1>2, <1>4, <1>5, <1>7, <1>8, <1>9

\* A pass that fills an order books that order and no other.
LEMMA TradedFillsOne ==
    ASSUME IInv, CopiesInv, NEW c \in Clients, Traded(c)
    PROVE  \E x : FillOf(x)
<1>1. PICK k \in DOMAIN mem.orders, o \in Order, p \in Int :
         /\ mem.orders[k].id = o.id /\ mem.orders[k].status = "PENDING"
         /\ Terms(mem'.orders[k], o)
         /\ mem'.orders[k].id = o.id /\ mem'.orders[k].status = "FILLED" /\ mem'.orders[k].price = p
         /\ DOMAIN mem'.orders = DOMAIN mem.orders
         /\ \A j \in DOMAIN mem.orders : j # k => mem'.orders[j] = mem.orders[j]
         /\ mem'.cash = mem.cash + CashDelta(o, p) /\ mem'.pos = NewPos(mem.pos, o)
  BY TradedPlace
<1> DEFINE x == mem'.orders[k]
<1>2. x \in FilledIn(mem')
  BY <1>1 DEF FilledIn, With
<1>3. \A f \in FilledIn(mem) : f.id # x.id
  BY <1>1 DEF FilledIn, With, IInv, UniqueIds
<1>4. FilledIn(mem') \subseteq FilledIn(mem) \cup {x}
  BY <1>1 DEF FilledIn, With
<1>5. mem'.cash = mem.cash + CashDelta(x, x.price) /\ mem'.pos = NewPos(mem.pos, x)
  BY <1>1, SameTerms
<1> HIDE DEF x
<1> QED BY <1>2, <1>3, <1>4, <1>5 DEF FillOf

\* An order that enters the book filled is the only one booked, and one that rests is not.
LEMMA EnteredFillsOne ==
    ASSUME IInv, NEW c \in Clients, NEW o \in Order, Entered(c, o)
    PROVE  NoFill \/ FillOf(o)
<1>1. /\ mem'.orders = Prepend(o, mem.orders) /\ mem.orders \in Seq(Order) /\ o.id = nextId
      /\ nextId \in Nat /\ Below(mem, nextId) /\ mem \in TradingState
  BY DEF Entered, IInv, TypeOK, TradingState
<1>2. /\ DOMAIN mem'.orders \subseteq Nat
      /\ \A i \in DOMAIN mem'.orders :
            IF i = 1 THEN mem'.orders[i] = o
            ELSE i - 1 \in DOMAIN mem.orders /\ mem'.orders[i] = mem.orders[i - 1]
  BY <1>1, PrependType
<1>3. FilledIn(mem') \subseteq FilledIn(mem) \cup {o}
  BY <1>2 DEF FilledIn, With
<1>4. \A f \in FilledIn(mem) : f.id # o.id
  <2>1. \A i \in DOMAIN mem.orders : mem.orders[i].id \in Nat /\ mem.orders[i].id < nextId
    BY <1>1, BookOrders DEF Below, Order
  <2>2. QED
    BY <1>1, <2>1 DEF FilledIn, With
<1>5. CASE o.status = "PENDING" /\ mem'.cash = mem.cash /\ mem'.pos = mem.pos
  <2>1. o \notin FilledIn(mem')
    BY <1>5 DEF FilledIn, With
  <2>2. QED
    BY <1>3, <1>5, <2>1 DEF NoFill
<1>6. CASE o.status = "FILLED" /\ Booked(o)
  <2>1. 1 \in DOMAIN mem'.orders /\ mem'.orders[1] = o
    BY <1>1, PrependFirst
  <2>2. o \in FilledIn(mem')
    BY <1>6, <2>1 DEF FilledIn, With
  <2>3. QED
    BY <1>3, <1>4, <1>6, <2>2 DEF FillOf, Booked
<1> QED BY <1>5, <1>6 DEF Entered

\* Every step that changes the memory, but a restart, books one fill or none.
LEMMA OneFillStep ==
    ASSUME IInv, TypeOK', CopiesInv, Next
    PROVE  mem' = mem \/ mem' = disk \/ NoFill \/ \E x : FillOf(x)
<1>1. CASE Restart
  BY <1>1 DEF Restart
<1>2. ASSUME NEW c \in Clients, Quiet(c) PROVE mem' = mem
  BY <1>2 DEF Quiet
<1>3. ASSUME NEW c \in Clients, Effect(c) PROVE mem' = mem \/ NoFill \/ \E x : FillOf(x)
  BY <1>3, ClosedFillsNothing, TradedFillsOne, EnteredFillsOne DEF Effect, IInv
<1> QED BY <1>1, <1>2, <1>3, StepKinds DEF IInv

----------------------------------------------------------------------------
(* Cash *)

\* Orders wait at a limit above zero, and what a caller brings to a locked section was
\* quoted to it.
RestsInv ==
    /\ \A st \in {mem, disk} : \A o \in Pending(st) : Resting(o)
    /\ \A c \in Clients : /\ \A o \in Copied(task[c]) : Resting(o)
                          /\ task[c].pc = "commit" => task[c].price > 0
                          /\ task[c].pc = "settle" => Marketable(task[c].order, task[c].price)

\* Giving an order its final status leaves no new order pending.
LEMMA MarkPending ==
    ASSUME NEW st \in TradingState, NEW id, NEW status, status # "PENDING", NEW p, NEW new,
           new = Mark(st, id, status, p)
    PROVE  Pending(new) \subseteq Pending(st)
<1>1. DOMAIN new.orders = DOMAIN st.orders
  BY MarkPlaces
<1>2. ASSUME NEW i \in DOMAIN st.orders, new.orders[i].status = "PENDING"
      PROVE  new.orders[i] = st.orders[i]
  <2>1. ~(st.orders[i].id = id /\ st.orders[i].status = "PENDING")
    BY <1>2, MarkTerms
  <2>2. QED
    BY <2>1, MarkPlaces
<1> QED BY <1>1, <1>2 DEF Pending

\* The orders that wait after a locked section waited before it or came to rest in it.
LEMMA EffectPending ==
    ASSUME TypeOK, NEW c \in Clients, Effect(c), NEW o \in Pending(mem')
    PROVE  o \in Pending(mem) \/ Resting(o)
<1>0. mem \in TradingState
  BY DEF TypeOK
<1>1. CASE Closed
  BY <1>0, <1>1, MarkPending DEF Closed
<1>2. CASE Traded(c)
  <2>1. PICK x \in Order, p \in Int : mem' = Mark(FillLedger(mem, x, p), x.id, "FILLED", p)
    BY <1>2 DEF Traded
  <2>2. FillLedger(mem, x, p) \in TradingState /\ FillLedger(mem, x, p).orders = mem.orders
    BY <1>0, FillLedgerType
  <2>3. o \in Pending(FillLedger(mem, x, p))
    BY <2>1, <2>2, MarkPending
  <2>4. QED
    BY <2>2, <2>3 DEF Pending
<1>3. ASSUME NEW x \in Order, Entered(c, x)
      PROVE  o \in Pending(mem) \/ Resting(o)
  <2>1. mem'.orders = Prepend(x, mem.orders) /\ mem.orders \in Seq(Order)
    BY <1>0, <1>3 DEF Entered, TradingState
  <2>2. \A i \in DOMAIN mem'.orders :
           IF i = 1 THEN mem'.orders[i] = x
           ELSE i - 1 \in DOMAIN mem.orders /\ mem'.orders[i] = mem.orders[i - 1]
    BY <2>1, PrependType
  <2>3. o = x \/ o \in Pending(mem)
    BY <2>2 DEF Pending
  <2>4. o.status = "PENDING"
    BY DEF Pending
  <2>5. QED
    BY <1>3, <2>3, <2>4 DEF Entered
<1> QED BY <1>1, <1>2, <1>3 DEF Effect

\* Whatever a caller does, orders wait at a limit and prices are quoted.
LEMMA RestsStep ==
    ASSUME TypeOK, TypeOK', RestsInv, Next
    PROVE  RestsInv'
<1>1. CASE Restart
  <2>1. mem' = disk /\ disk' = disk /\ \A c \in Clients : task'[c] = Idle
    BY <1>1 DEF Restart
  <2>2. Idle.pc = "idle" /\ Copied(Idle) = {}
    BY DEF Idle, Copied
  <2>3. \A c \in Clients : task'[c].pc = "idle" /\ Copied(task'[c]) = {}
    BY <2>1, <2>2
  <2>4. QED
    BY <2>1, <2>3 DEF RestsInv, Pending, Copied, Resting, Marketable
<1>2. ASSUME NEW c \in Clients, Quiet(c) PROVE RestsInv'
  <2>1. mem' = mem /\ disk' = disk
    BY <1>2 DEF Quiet
  <2>2. \A x \in Clients : \A o \in Copied(task'[x]) : Resting(o)
    BY <1>2 DEF Quiet, RestsInv
  <2>3. \A x \in Clients : /\ task'[x].pc = "commit" => task'[x].price > 0
                           /\ task'[x].pc = "settle" => Marketable(task'[x].order, task'[x].price)
    BY <1>2 DEF Quiet, RestsInv
  <2>4. QED
    BY <2>1, <2>2, <2>3 DEF RestsInv, Pending, Copied, Resting, Marketable
<1>3. ASSUME NEW c \in Clients, Effect(c) PROVE RestsInv'
  <2>1. \A o \in Pending(mem') : Resting(o)
    BY <1>3, EffectPending DEF RestsInv
  <2>2. \A o \in Pending(disk') : Resting(o)
    BY <1>3, <2>1 DEF RestsInv, Effect
  <2>3. \A x \in Clients : \A o \in Copied(task'[x]) : Resting(o)
    BY <1>3 DEF Effect, RestsInv
  <2>4. \A x \in Clients : /\ task'[x].pc = "commit" => task'[x].price > 0
                           /\ task'[x].pc = "settle" => Marketable(task'[x].order, task'[x].price)
    BY <1>3 DEF Effect, RestsInv, Asking
  <2>5. QED
    BY <2>1, <2>2, <2>3, <2>4 DEF RestsInv, Pending, Copied, Resting, Marketable
<1> QED BY <1>1, <1>2, <1>3, StepKinds

\* A sale at a price that is not negative costs at most the minimum commission.
LEMMA SaleFloor ==
    ASSUME NEW o \in Order, o.side = "SELL", NEW p \in Int, p >= 0
    PROVE  CashDelta(o, p) >= -MinCommission
<1> DEFINE g == p * o.qty
<1>1. o.qty \in Nat
  BY DEF Order
<1>2. g \in Int /\ g >= 0
  BY <1>1
<1>3. CashDelta(o, p) = Amount(p, o.qty) - Commission(p, o.qty) - StampDuty(p, o.qty)
  BY DEF CashDelta
<1>4. /\ Amount(p, o.qty) = RateBase * g /\ StampDuty(p, o.qty) = StampRate * g
      /\ Commission(p, o.qty) = IF CommissionRate * g < MinCommission THEN MinCommission ELSE CommissionRate * g
  BY DEF Amount, StampDuty, Commission
<1> HIDE DEF g
<1>5. Amount(p, o.qty) - StampDuty(p, o.qty) >= 0 /\ Amount(p, o.qty) - StampDuty(p, o.qty) >= CommissionRate * g
  BY <1>2, <1>4 DEF RateBase, StampRate, CommissionRate
<1>6. MinCommission \in Nat /\ CommissionRate * g \in Nat
  BY <1>2 DEF MinCommission, Yuan, RateBase, CommissionRate
<1>7. Amount(p, o.qty) \in Int /\ StampDuty(p, o.qty) \in Int
  BY <1>2, <1>4 DEF RateBase, StampRate
<1>8. Commission(p, o.qty) \in Nat /\ (Commission(p, o.qty) = MinCommission \/ Commission(p, o.qty) = CommissionRate * g)
  BY <1>4, <1>6
<1> QED BY <1>3, <1>5, <1>6, <1>7, <1>8

\* What cash may have gone down to after n sales.
Floor(n) == -(CashTolerance + n * MinCommission)

\* More sales never raise the floor, and one more lowers it by the minimum commission.
LEMMA FloorFalls ==
    ASSUME NEW n \in Nat, NEW m \in Nat
    PROVE  /\ Floor(n) \in Int /\ Floor(n) <= -CashTolerance
           /\ n <= m => Floor(m) <= Floor(n)
           /\ n + 1 <= m => Floor(m) <= Floor(n) - MinCommission
BY DEF Floor, CashTolerance, MinCommission, Yuan, RateBase

\* The sales of a book are finitely many.
LEMMA SalesFinite ==
    ASSUME NEW st \in TradingState
    PROVE  IsFiniteSet(Sales(st)) /\ Cardinality(Sales(st)) \in Nat
<1>1. Len(st.orders) \in Nat /\ DOMAIN st.orders = 1..Len(st.orders)
  BY LenProperties DEF TradingState
<1>2. IsFiniteSet(1..Len(st.orders)) /\ Sales(st) \in SUBSET (1..Len(st.orders))
  BY <1>1, FS_Interval DEF Sales, With
<1>3. IsFiniteSet(Sales(st))
  BY <1>2, FS_Subset
<1> QED BY <1>3, FS_CardinalityType

\* A book that keeps its sales where they are has no fewer, and one more with a new one.
LEMMA SalesGrow ==
    ASSUME NEW st \in TradingState, NEW new \in TradingState, Sales(st) \subseteq Sales(new)
    PROVE  /\ Cardinality(Sales(st)) <= Cardinality(Sales(new))
           /\ \A k \in Sales(new) : k \notin Sales(st) =>
                 Cardinality(Sales(st)) + 1 <= Cardinality(Sales(new))
<1> DEFINE old == Sales(st)
           now_ == Sales(new)
<1>1. /\ IsFiniteSet(old) /\ Cardinality(old) \in Nat
      /\ IsFiniteSet(now_) /\ Cardinality(now_) \in Nat /\ old \in SUBSET now_
  BY SalesFinite
<1> HIDE DEF old, now_
<1>2. Cardinality(old) <= Cardinality(now_)
  BY <1>1, FS_Subset
<1>3. ASSUME NEW k \in now_, k \notin old
      PROVE  Cardinality(old) + 1 <= Cardinality(now_)
  <2>1. IsFiniteSet(now_ \ {k}) /\ Cardinality(now_ \ {k}) = Cardinality(now_) - 1
    BY <1>1, <1>3, FS_RemoveElement
  <2>2. old \in SUBSET (now_ \ {k})
    BY <1>1, <1>3
  <2>3. Cardinality(old) <= Cardinality(now_ \ {k})
    BY <2>1, <2>2, FS_Subset
  <2>4. QED
    BY <1>1, <2>1, <2>3
<1> QED BY <1>2, <1>3 DEF old, now_

\* A book that is not full keeps its sales when an order enters, and counts it if it is one.
LEMMA PrependSales ==
    ASSUME NEW st \in TradingState, NEW new \in TradingState, NEW o \in Order,
           new.orders = Prepend(o, st.orders), Len(st.orders) < MaxHistory
    PROVE  /\ Cardinality(Sales(st)) <= Cardinality(Sales(new))
           /\ o.status = "FILLED" /\ o.side = "SELL" =>
                 Cardinality(Sales(st)) + 1 <= Cardinality(Sales(new))
<1> DEFINE old  == Sales(st)
           now_ == Sales(new)
           rest == now_ \ {1}
           up   == [i \in old |-> i + 1]
           s    == st.orders
<1>1. /\ IsFiniteSet(old) /\ Cardinality(old) \in Nat
      /\ IsFiniteSet(now_) /\ Cardinality(now_) \in Nat
  BY SalesFinite
<1>2. s \in Seq(Order) /\ Len(s) \in Nat /\ DOMAIN s = 1..Len(s)
  BY LenProperties DEF TradingState
<1>3. new.orders = [i \in 1..(Len(s) + 1) |-> IF i = 1 THEN o ELSE s[i - 1]]
  BY DEF Prepend
<1>4. ASSUME NEW i \in old
      PROVE  i \in Nat /\ i + 1 \in rest
  <2>1. i \in DOMAIN s /\ s[i].status = "FILLED" /\ s[i].side = "SELL"
    BY DEF Sales, With
  <2>2. i \in Nat /\ i + 1 \in 1..(Len(s) + 1) /\ i + 1 # 1 /\ i + 1 - 1 = i
    BY <1>2, <2>1
  <2>3. i + 1 \in DOMAIN new.orders /\ new.orders[i + 1] = s[i]
    BY <1>3, <2>2
  <2>4. QED
    BY <2>1, <2>2, <2>3 DEF Sales, With
<1>5. ASSUME o.status = "FILLED", o.side = "SELL"
      PROVE  1 \in now_
  <2>1. 1 \in 1..(Len(s) + 1)
    BY <1>2
  <2>2. 1 \in DOMAIN new.orders /\ new.orders[1] = o
    BY <1>3, <2>1
  <2>3. QED
    BY <1>5, <2>2 DEF Sales, With
<1> HIDE DEF old, now_
<1>6. up \in Injection(old, rest)
  <2>1. \A i \in old : up[i] \in rest
    BY <1>4
  <2>2. \A i, j \in old : up[i] = up[j] => i = j
    BY <1>4
  <2>3. QED
    BY <2>1, <2>2 DEF Injection, IsInjective
<1>7. IsFiniteSet(rest) /\ Cardinality(rest) = IF 1 \in now_ THEN Cardinality(now_) - 1 ELSE Cardinality(now_)
  BY <1>1, FS_RemoveElement
<1> HIDE DEF up, rest
<1>8. Cardinality(old) <= Cardinality(rest)
  BY <1>6, <1>7, FS_Injection
<1>9. /\ Cardinality(old) <= Cardinality(now_)
      /\ 1 \in now_ => Cardinality(old) + 1 <= Cardinality(now_)
  BY <1>1, <1>7, <1>8
<1> QED BY <1>5, <1>9 DEF old, now_

\* What the orders of a book and the cash they leave are bounded by.
Funded(st) == st.cash >= Floor(Cardinality(Sales(st)))
FundedInv  == /\ Len(mem.orders) < nextId /\ Len(disk.orders) < nextId
              /\ nextId <= MaxHistory + 1 => Funded(mem) /\ Funded(disk)

\* The floor holds after a step that moves no cash, leaves what a buy must leave, or pays
\* for one more sale.
LEMMA StaysFunded ==
    ASSUME NEW st \in TradingState, NEW new \in TradingState, Funded(st),
           \/ /\ new.cash = st.cash
              /\ Cardinality(Sales(st)) <= Cardinality(Sales(new))
           \/ new.cash >= -CashTolerance
           \/ /\ new.cash >= st.cash - MinCommission
              /\ Cardinality(Sales(st)) + 1 <= Cardinality(Sales(new))
    PROVE  Funded(new)
<1> DEFINE n == Cardinality(Sales(st))
           m == Cardinality(Sales(new))
<1>1. n \in Nat /\ m \in Nat
  BY SalesFinite
<1>2. st.cash \in Int /\ new.cash \in Int /\ st.cash >= Floor(n) /\ CashTolerance \in Int /\ MinCommission \in Int
  BY DEF TradingState, Funded, CashTolerance, MinCommission, Yuan, RateBase
<1> HIDE DEF n, m
<1>3. /\ Floor(n) \in Int /\ Floor(m) \in Int /\ Floor(m) <= -CashTolerance
      /\ n <= m => Floor(m) <= Floor(n)
      /\ n + 1 <= m => Floor(m) <= Floor(n) - MinCommission
  BY <1>1, FloorFalls
<1>4. \/ new.cash = st.cash /\ n <= m
      \/ new.cash >= -CashTolerance
      \/ new.cash >= st.cash - MinCommission /\ n + 1 <= m
  BY DEF n, m
<1>5. new.cash >= Floor(m)
  BY <1>2, <1>3, <1>4
<1> QED BY <1>5 DEF Funded, m

\* A fill leaves what the funds check of a buy asks for, or is a sale and costs at most
\* the minimum commission.
LEMMA FillCash ==
    ASSUME NEW st \in TradingState, NEW o \in Order, NEW p \in Int, CanFill(st, o, p),
           NEW cash, cash = st.cash + CashDelta(o, p), p < 0 => o.side # "SELL"
    PROVE  \/ cash >= -CashTolerance
           \/ o.side = "SELL" /\ cash >= st.cash - MinCommission
<1>1. CashDelta(o, p) \in Int /\ st.cash \in Int /\ MinCommission \in Int /\ CashTolerance \in Int
  BY FillLedgerType DEF TradingState, MinCommission, Yuan, RateBase, CashTolerance
<1>2. CASE o.side = "BUY"
  <2>1. st.cash + CashTolerance + CashDelta(o, p) >= 0
    BY <1>2 DEF CanFill
  <2>2. QED
    BY <1>1, <2>1
<1>3. CASE o.side = "SELL"
  <2>1. p >= 0
    BY <1>3
  <2>2. CashDelta(o, p) >= -MinCommission
    BY <1>3, <2>1, SaleFloor
  <2>3. QED
    BY <1>1, <1>3, <2>2
<1> QED BY <1>2, <1>3 DEF Order

\* A locked section adds no more orders than it numbers.
LEMMA EffectLength ==
    ASSUME IInv, TypeOK', Evolves, NEW c \in Clients, Effect(c), Len(mem.orders) < nextId
    PROVE  Len(mem'.orders) < nextId'
<1>0. /\ mem \in TradingState /\ mem' \in TradingState /\ nextId \in Nat
      /\ nextId' \in {nextId, nextId + 1} /\ Below(mem', nextId')
  BY DEF IInv, TypeOK, Evolves
<1>1. Len(mem.orders) \in Nat /\ Len(mem'.orders) \in Nat
  BY <1>0, LenProperties DEF TradingState
<1>2. CASE Len(mem'.orders) = Len(mem.orders)
  BY <1>0, <1>1, <1>2
<1>3. CASE Closed
  BY <1>0, <1>2, <1>3, MarkLength DEF Closed
<1>4. CASE Traded(c)
  <2>1. PICK o \in Order, p \in Int : mem' = Mark(FillLedger(mem, o, p), o.id, "FILLED", p)
    BY <1>4 DEF Traded
  <2>2. FillLedger(mem, o, p) \in TradingState /\ FillLedger(mem, o, p).orders = mem.orders
    BY <1>0, FillLedgerType
  <2>3. Len(mem'.orders) = Len(mem.orders)
    BY <1>0, <2>1, <2>2, MarkLength
  <2>4. QED
    BY <1>2, <2>3
<1>5. ASSUME NEW o \in Order, Entered(c, o)
      PROVE  Len(mem'.orders) < nextId'
  <2>1. mem'.orders = Prepend(o, mem.orders) /\ mem.orders \in Seq(Order) /\ o.id = nextId
    BY <1>0, <1>5 DEF Entered, TradingState
  <2>2. /\ 1 \in DOMAIN mem'.orders /\ mem'.orders[1] = o
        /\ Len(mem'.orders) <= Len(mem.orders) + 1
    BY <2>1, PrependFirst
  <2>3. nextId < nextId'
    BY <1>0, <2>1, <2>2 DEF Below
  <2>4. QED
    BY <1>0, <1>1, <2>2, <2>3
<1> QED BY <1>2, <1>3, <1>4, <1>5 DEF Effect

\* A locked section leaves the cash above the floor while the book is not full.
LEMMA EffectFunds ==
    ASSUME IInv, TypeOK', CopiesInv, RestsInv, NEW c \in Clients, Effect(c), Funded(mem),
           (\E o \in Order : Entered(c, o)) => Len(mem.orders) < MaxHistory
    PROVE  Funded(mem')
<1>0. mem \in TradingState /\ mem' \in TradingState
  BY DEF IInv, TypeOK
<1>1. CASE mem' = mem
  BY <1>1
<1>2. CASE Closed
  <2>1. PICK id \in Nat, status \in {"CANCELED", "REJECTED"} : mem' = Mark(mem, id, status, 0)
    BY <1>2 DEF Closed
  <2>2. /\ mem'.cash = mem.cash /\ DOMAIN mem'.orders = DOMAIN mem.orders
        /\ \A i \in DOMAIN mem.orders : mem.orders[i].status = "FILLED" => mem'.orders[i] = mem.orders[i]
    BY <1>0, <2>1, MarkPlaces
  <2>3. Sales(mem) \subseteq Sales(mem')
    BY <2>2 DEF Sales, With
  <2>4. Cardinality(Sales(mem)) <= Cardinality(Sales(mem'))
    BY <1>0, <2>3, SalesGrow
  <2>5. QED
    BY <1>0, <2>2, <2>4, StaysFunded
<1>3. CASE Traded(c)
  <2>1. PICK k \in DOMAIN mem.orders, o \in Order, p \in Int :
           /\ o \in Copied(task[c]) /\ CanFill(mem, o, p)
           /\ task[c].pc = "settle" /\ o = task[c].order /\ p = task[c].price
           /\ mem.orders[k].status = "PENDING" /\ Terms(mem'.orders[k], o)
           /\ mem'.orders[k].status = "FILLED"
           /\ DOMAIN mem'.orders = DOMAIN mem.orders
           /\ \A j \in DOMAIN mem.orders : j # k => mem'.orders[j] = mem.orders[j]
           /\ mem'.cash = mem.cash + CashDelta(o, p)
    BY <1>3, TradedPlace
  <2>2. p < 0 => o.side # "SELL"
    <3>1. Resting(o) /\ Marketable(o, p)
      BY <2>1 DEF RestsInv
    <3>2. o.limit \in Int
      BY DEF Order
    <3>3. QED
      BY <3>1, <3>2 DEF Resting, Marketable
  <2>3. mem'.cash >= -CashTolerance \/ (o.side = "SELL" /\ mem'.cash >= mem.cash - MinCommission)
    BY <1>0, <2>1, <2>2, FillCash
  <2>4. CASE mem'.cash >= -CashTolerance
    BY <1>0, <2>4, StaysFunded
  <2>5. CASE o.side = "SELL" /\ mem'.cash >= mem.cash - MinCommission
    <3>1. Sales(mem) \subseteq Sales(mem')
      BY <2>1 DEF Sales, With
    <3>2. k \in Sales(mem') /\ k \notin Sales(mem)
      BY <2>1, <2>5 DEF Sales, With, Terms
    <3>3. Cardinality(Sales(mem)) + 1 <= Cardinality(Sales(mem'))
      BY <1>0, <3>1, <3>2, SalesGrow
    <3>4. QED
      BY <1>0, <2>5, <3>3, StaysFunded
  <2>6. QED
    BY <2>3, <2>4, <2>5
<1>4. ASSUME NEW o \in Order, Entered(c, o)
      PROVE  Funded(mem')
  <2>1. mem'.orders = Prepend(o, mem.orders) /\ Len(mem.orders) < MaxHistory
    BY <1>4 DEF Entered
  <2>2. /\ Cardinality(Sales(mem)) <= Cardinality(Sales(mem'))
        /\ o.status = "FILLED" /\ o.side = "SELL" =>
              Cardinality(Sales(mem)) + 1 <= Cardinality(Sales(mem'))
    BY <1>0, <2>1, PrependSales
  <2>3. CASE mem'.cash = mem.cash
    BY <1>0, <2>2, <2>3, StaysFunded
  <2>4. CASE o.status = "FILLED" /\ o.price = task[c].price /\ Booked(o)
    <3>1. o.price \in Int /\ o.price > 0
      BY <1>4, <2>4 DEF Entered, RestsInv, Order
    <3>2. mem'.cash >= -CashTolerance \/ (o.side = "SELL" /\ mem'.cash >= mem.cash - MinCommission)
      BY <1>0, <2>4, <3>1, FillCash DEF Booked
    <3>3. QED
      BY <1>0, <2>2, <2>4, <3>2, StaysFunded
  <2>5. QED
    BY <1>4, <2>3, <2>4 DEF Entered
<1> QED BY <1>1, <1>2, <1>3, <1>4 DEF Effect

\* Whatever a caller does, and across restarts, cash stays above the floor while the book
\* has dropped no order.
LEMMA FundedStep ==
    ASSUME IInv, TypeOK', CopiesInv, RestsInv, FundedInv, Next
    PROVE  FundedInv'
<1>0. /\ TypeOK /\ nextId \in Nat /\ MaxHistory \in Nat /\ mem \in TradingState
  BY BrokerAssumption DEF IInv, TypeOK
<1>1. CASE Restart
  BY <1>1 DEF Restart, FundedInv, Funded, Sales, With
<1>2. ASSUME NEW c \in Clients, Quiet(c) PROVE FundedInv'
  BY <1>2 DEF Quiet, FundedInv, Funded, Sales, With
<1>3. ASSUME ~Restart, NEW c \in Clients, Effect(c) PROVE FundedInv'
  <2>1. Evolves
    BY <1>3, StepEvolves
  <2>2. nextId' \in {nextId, nextId + 1} /\ disk' \in {disk, mem'}
    BY <2>1 DEF Evolves
  <2>3. Len(mem'.orders) < nextId' /\ Len(mem.orders) \in Nat /\ Len(disk.orders) \in Nat
    BY <1>0, <1>3, <2>1, EffectLength, LenProperties DEF FundedInv, TypeOK, TradingState
  <2>4. Len(disk'.orders) < nextId'
    BY <1>0, <2>2, <2>3 DEF FundedInv
  <2>5. ASSUME nextId' <= MaxHistory + 1
        PROVE  Funded(mem') /\ Funded(disk')
    <3>1. nextId <= MaxHistory + 1 /\ Funded(mem) /\ Funded(disk)
      BY <1>0, <2>2, <2>5 DEF FundedInv
    <3>2. ASSUME NEW o \in Order, Entered(c, o)
          PROVE  Len(mem.orders) < MaxHistory
      <4>1. o.id = nextId /\ mem'.orders = Prepend(o, mem.orders) /\ mem.orders \in Seq(Order)
        BY <1>0, <3>2 DEF Entered, TradingState
      <4>2. 1 \in DOMAIN mem'.orders /\ mem'.orders[1] = o
        BY <4>1, PrependFirst
      <4>3. nextId < nextId'
        BY <2>1, <4>1, <4>2 DEF Evolves, Below
      <4>4. QED
        BY <1>0, <2>2, <2>3, <2>5, <4>3 DEF FundedInv
    <3>3. Funded(mem')
      BY <1>3, <3>1, <3>2, EffectFunds
    <3>4. QED
      BY <2>2, <3>1, <3>3
  <2>6. QED
    BY <2>3, <2>4, <2>5 DEF FundedInv, Funded, Sales, With
<1> QED BY <1>0, <1>1, <1>2, <1>3, StepKinds

----------------------------------------------------------------------------
(* The books add up *)

\* What the orders of a book paid and moved are integers.
LEMMA Flows ==
    ASSUME NEW st \in TradingState
    PROVE  /\ Len(st.orders) \in Nat /\ DOMAIN st.orders = 1..Len(st.orders)
           /\ st.cash \in Int /\ \A s \in Symbols : st.pos[s] \in Int
           /\ \A i \in 1..Len(st.orders) :
                 /\ Payments(st)[i] = Paid(st.orders[i]) /\ Payments(st)[i] \in Int
                 /\ \A s \in Symbols : Shares(st, s)[i] = Moved(st.orders[i], s) /\ Shares(st, s)[i] \in Int
<1>1. Len(st.orders) \in Nat /\ DOMAIN st.orders = 1..Len(st.orders)
  BY LenProperties DEF TradingState
<1>2. ASSUME NEW i \in 1..Len(st.orders)
      PROVE  /\ Payments(st)[i] = Paid(st.orders[i]) /\ Payments(st)[i] \in Int
             /\ \A s \in Symbols : Shares(st, s)[i] = Moved(st.orders[i], s) /\ Shares(st, s)[i] \in Int
  <2> DEFINE o == st.orders[i]
  <2>1. o \in Order
    BY <1>1, BookOrders
  <2>2. o.price \in Int
    BY <2>1 DEF Order
  <2>3. CashDelta(o, o.price) \in Int /\ ShareDelta(o) \in Int
    BY <2>1, <2>2, FillLedgerType
  <2>4. Paid(o) \in Int /\ \A s : Moved(o, s) \in Int
    BY <2>3 DEF Paid, Moved
  <2>5. QED
    BY <1>1, <2>4 DEF Payments, Shares
<1>3. QED
  BY <1>1, <1>2 DEF TradingState

\* A fill moves the holdings by what it moves of each stock.
LEMMA FillMoves ==
    ASSUME NEW st \in TradingState, NEW o \in Order, o.status = "FILLED", NEW s \in Symbols
    PROVE  NewPos(st.pos, o)[s] = st.pos[s] + Moved(o, s)
<1>1. st.pos \in [Symbols -> Int] /\ st.pos[s] \in Int
  BY DEF TradingState
<1>2. ShareDelta(o) \in Int /\ o.symbol \in Symbols
  BY DEF Order, ShareDelta
<1> QED BY <1>1, <1>2 DEF NewPos, Moved

\* The books still add up when no order is filled and no money moves.
LEMMA BalanceKept ==
    ASSUME NEW st \in TradingState, NEW new \in TradingState, Balanced(st),
           new.cash = st.cash, new.pos = st.pos, Len(new.orders) = Len(st.orders),
           \A i \in DOMAIN st.orders :
               \/ new.orders[i] = st.orders[i]
               \/ new.orders[i].status # "FILLED" /\ st.orders[i].status # "FILLED"
    PROVE  Balanced(new)
<1>1. \A i \in 1..Len(st.orders) : /\ Paid(new.orders[i]) = Paid(st.orders[i])
                                   /\ \A s \in Symbols : Moved(new.orders[i], s) = Moved(st.orders[i], s)
  BY Flows DEF Paid, Moved
<1>2. ASSUME NEW f, NEW g, \A i \in 1..Len(st.orders) : g[i] = f[i]
      PROVE  Total(g, Len(st.orders)) = Total(f, Len(st.orders))
  BY <1>2, Flows, TotalSame
<1>3. Total(Payments(new), Len(st.orders)) = Total(Payments(st), Len(st.orders))
  <2>1. \A i \in 1..Len(st.orders) : Payments(new)[i] = Payments(st)[i]
    BY <1>1, Flows
  <2>2. QED
    BY <1>2, <2>1
<1>4. ASSUME NEW s \in Symbols
      PROVE  Total(Shares(new, s), Len(st.orders)) = Total(Shares(st, s), Len(st.orders))
  <2>1. \A i \in 1..Len(st.orders) : Shares(new, s)[i] = Shares(st, s)[i]
    BY <1>1, Flows
  <2>2. QED
    BY <1>2, <2>1
<1> QED BY <1>3, <1>4 DEF Balanced

\* They do when one order is filled and the money and the shares are moved.
LEMMA BalanceFilled ==
    ASSUME NEW st \in TradingState, NEW new \in TradingState, Balanced(st),
           Len(new.orders) = Len(st.orders), NEW k \in DOMAIN st.orders,
           st.orders[k].status # "FILLED",
           \A i \in DOMAIN st.orders : i # k => new.orders[i] = st.orders[i],
           new.cash = st.cash + Paid(new.orders[k]),
           \A s \in Symbols : new.pos[s] = st.pos[s] + Moved(new.orders[k], s)
    PROVE  Balanced(new)
<1> DEFINE n == Len(st.orders)
<1>1. n \in Nat /\ k \in 1..n /\ Len(new.orders) = n /\ DOMAIN st.orders = 1..n
  BY Flows
<1>2. /\ \A i \in 1..n : Payments(st)[i] = Paid(st.orders[i]) /\ Payments(st)[i] \in Int
      /\ \A i \in 1..n : Payments(new)[i] = Paid(new.orders[i]) /\ Payments(new)[i] \in Int
  BY <1>1, Flows
<1>3. ASSUME NEW s \in Symbols
      PROVE  /\ \A i \in 1..n : Shares(st, s)[i] = Moved(st.orders[i], s) /\ Shares(st, s)[i] \in Int
             /\ \A i \in 1..n : Shares(new, s)[i] = Moved(new.orders[i], s) /\ Shares(new, s)[i] \in Int
  BY <1>1, Flows
<1> HIDE DEF n
<1>4. ASSUME NEW f, NEW g, \A i \in 1..n : f[i] \in Int /\ g[i] \in Int,
             \A i \in 1..n : i # k => g[i] = f[i], f[k] = 0
      PROVE  Total(g, n) = Total(f, n) + g[k] /\ Total(f, n) \in Int /\ g[k] \in Int
  <2>1. Total(g, n) = Total(f, n) + (g[k] - f[k])
    <3>1. n \in Nat /\ k \in 1..n
      BY <1>1
    <3>2. \A i \in 1..n : f[i] \in Int /\ g[i] \in Int
      BY <1>4
    <3>3. \A i \in 1..n : i # k => g[i] = f[i]
      BY <1>4
    <3>4. QED
      BY ONLY <3>1, <3>2, <3>3, TotalChange
  <2>2. Total(f, n) \in Int
    BY <1>1, <1>4, TotalType
  <2>3. g[k] \in Int
    BY <1>1, <1>4
  <2>4. QED
    BY <1>4, <2>1, <2>2, <2>3
<1>5. new.cash = InitialCash + Total(Payments(new), n)
  <2> DEFINE f == Payments(st)
             g == Payments(new)
  <2>1. st.cash = InitialCash + Total(f, n)
    BY DEF Balanced, n
  <2>2. f[k] = 0 /\ g[k] = Paid(new.orders[k])
    BY <1>1, <1>2 DEF Paid
  <2>3. \A i \in 1..n : i # k => g[i] = f[i]
    BY <1>1, <1>2
  <2>4. \A i \in 1..n : f[i] \in Int /\ g[i] \in Int
    BY <1>2
  <2> HIDE DEF f, g
  <2>5. Total(g, n) = Total(f, n) + g[k] /\ Total(f, n) \in Int /\ g[k] \in Int
    BY <1>4, <2>2, <2>3, <2>4
  <2>6. new.cash = InitialCash + Total(g, n)
    BY <2>1, <2>2, <2>5, LedgerAssumption
  <2>7. QED
    BY <2>6 DEF g
<1>6. ASSUME NEW s \in Symbols
      PROVE  new.pos[s] = Total(Shares(new, s), n)
  <2> DEFINE f == Shares(st, s)
             g == Shares(new, s)
  <2>1. st.pos[s] = Total(f, n)
    BY DEF Balanced, n
  <2>2. f[k] = 0 /\ g[k] = Moved(new.orders[k], s)
    BY <1>1, <1>3 DEF Moved
  <2>3. \A i \in 1..n : i # k => g[i] = f[i]
    BY <1>1, <1>3
  <2>4. \A i \in 1..n : f[i] \in Int /\ g[i] \in Int
    BY <1>3
  <2> HIDE DEF f, g
  <2>5. Total(g, n) = Total(f, n) + g[k] /\ Total(f, n) \in Int /\ g[k] \in Int
    BY <1>4, <2>2, <2>3, <2>4
  <2>6. new.pos[s] = Total(g, n)
    BY <2>1, <2>2, <2>5
  <2>7. QED
    BY <2>6 DEF g
<1> QED BY <1>1, <1>5, <1>6 DEF Balanced

\* They do when an order enters a book that is not full, filled and paid for or not.
LEMMA BalanceEntered ==
    ASSUME NEW st \in TradingState, NEW new \in TradingState, Balanced(st), NEW o \in Order,
           new.orders = Prepend(o, st.orders), Len(st.orders) < MaxHistory,
           new.cash = st.cash + Paid(o),
           \A s \in Symbols : new.pos[s] = st.pos[s] + Moved(o, s)
    PROVE  Balanced(new)
<1> DEFINE n == Len(st.orders)
<1>1. n \in Nat /\ DOMAIN st.orders = 1..n
  BY Flows
<1>2. new.orders = [i \in 1..(n + 1) |-> IF i = 1 THEN o ELSE st.orders[i - 1]]
  BY DEF Prepend
<1> HIDE DEF n
<1>3. Len(new.orders) = n + 1
  <2>1. DOMAIN new.orders = 1..(n + 1)
    BY <1>2
  <2>2. Len(new.orders) \in Nat /\ DOMAIN new.orders = 1..Len(new.orders)
    BY Flows
  <2>3. n + 1 \in Nat
    BY <1>1
  <2>4. QED
    BY <2>1, <2>2, <2>3
<1>4. 1 \in 1..(n + 1) /\ new.orders[1] = o
  BY <1>1, <1>2
<1>5. \A i \in 1..n : i + 1 \in 1..(n + 1) /\ new.orders[i + 1] = st.orders[i]
  BY <1>1, <1>2
<1>6. /\ \A i \in 1..n : Payments(st)[i] = Paid(st.orders[i]) /\ Payments(st)[i] \in Int
      /\ \A i \in 1..(n + 1) : Payments(new)[i] = Paid(new.orders[i]) /\ Payments(new)[i] \in Int
  BY <1>3, Flows DEF n
<1>7. ASSUME NEW s \in Symbols
      PROVE  /\ \A i \in 1..n : Shares(st, s)[i] = Moved(st.orders[i], s) /\ Shares(st, s)[i] \in Int
             /\ \A i \in 1..(n + 1) : Shares(new, s)[i] = Moved(new.orders[i], s) /\ Shares(new, s)[i] \in Int
  BY <1>3, Flows DEF n
<1>8. ASSUME NEW f, NEW g, \A i \in 1..n : f[i] \in Int, g[1] \in Int, \A i \in 1..n : g[i + 1] = f[i]
      PROVE  Total(g, n + 1) = g[1] + Total(f, n) /\ Total(f, n) \in Int
  BY <1>1, <1>8, TotalPrepend, TotalType
<1>9. new.cash = InitialCash + Total(Payments(new), n + 1)
  <2> DEFINE f == Payments(st)
             g == Payments(new)
  <2>1. st.cash = InitialCash + Total(f, n)
    BY DEF Balanced, n
  <2>2. g[1] = Paid(o) /\ g[1] \in Int /\ \A i \in 1..n : f[i] \in Int
    BY <1>4, <1>6
  <2>3. \A i \in 1..n : g[i + 1] = f[i]
    BY <1>5, <1>6
  <2> HIDE DEF f, g
  <2>4. Total(g, n + 1) = g[1] + Total(f, n) /\ Total(f, n) \in Int
    BY <1>8, <2>2, <2>3
  <2>5. new.cash = InitialCash + Total(g, n + 1)
    BY <2>1, <2>2, <2>4, LedgerAssumption
  <2>6. QED
    BY <2>5 DEF g
<1>10. ASSUME NEW s \in Symbols
       PROVE  new.pos[s] = Total(Shares(new, s), n + 1)
  <2> DEFINE f == Shares(st, s)
             g == Shares(new, s)
  <2>1. st.pos[s] = Total(f, n)
    BY DEF Balanced, n
  <2>2. g[1] = Moved(o, s) /\ g[1] \in Int /\ \A i \in 1..n : f[i] \in Int
    BY <1>4, <1>7
  <2>3. \A i \in 1..n : g[i + 1] = f[i]
    BY <1>5, <1>7
  <2> HIDE DEF f, g
  <2>4. Total(g, n + 1) = g[1] + Total(f, n) /\ Total(f, n) \in Int
    BY <1>8, <2>2, <2>3
  <2>5. new.pos[s] = Total(g, n + 1)
    BY <2>1, <2>2, <2>4
  <2>6. QED
    BY <2>5 DEF g
<1> QED BY <1>3, <1>9, <1>10 DEF Balanced

\* Whatever a locked section does, the books add up afterwards, while the book is not full.
LEMMA EffectBalance ==
    ASSUME IInv, TypeOK', CopiesInv, NEW c \in Clients, Effect(c), Balanced(mem),
           (\E o \in Order : Entered(c, o)) => Len(mem.orders) < MaxHistory
    PROVE  Balanced(mem')
<1>0. mem \in TradingState /\ mem' \in TradingState
  BY DEF IInv, TypeOK
<1>1. CASE mem' = mem
  BY <1>1
<1>2. CASE Closed
  <2>1. PICK id \in Nat, status \in {"CANCELED", "REJECTED"} : mem' = Mark(mem, id, status, 0)
    BY <1>2 DEF Closed
  <2>2. mem'.cash = mem.cash /\ mem'.pos = mem.pos /\ Len(mem'.orders) = Len(mem.orders)
    BY <1>0, <2>1, MarkPlaces, MarkLength
  <2>3. ASSUME NEW i \in DOMAIN mem.orders
        PROVE  \/ mem'.orders[i] = mem.orders[i]
               \/ mem'.orders[i].status # "FILLED" /\ mem.orders[i].status # "FILLED"
    <3>1. CASE mem.orders[i].id = id /\ mem.orders[i].status = "PENDING"
      <4>1. mem'.orders[i].status = status
        BY <1>0, <2>1, <3>1, MarkTerms
      <4>2. QED
        BY <3>1, <4>1
    <3>2. CASE ~(mem.orders[i].id = id /\ mem.orders[i].status = "PENDING")
      BY <1>0, <2>1, <3>2, MarkPlaces
    <3>3. QED
      BY <3>1, <3>2
  <2>4. QED
    BY <1>0, <2>2, <2>3, BalanceKept
<1>3. CASE Traded(c)
  <2>1. PICK k \in DOMAIN mem.orders, o \in Order, p \in Int :
           /\ mem.orders[k].status = "PENDING" /\ Terms(mem'.orders[k], o)
           /\ mem'.orders[k].status = "FILLED" /\ mem'.orders[k].price = p
           /\ DOMAIN mem'.orders = DOMAIN mem.orders
           /\ \A j \in DOMAIN mem.orders : j # k => mem'.orders[j] = mem.orders[j]
           /\ mem'.cash = mem.cash + CashDelta(o, p) /\ mem'.pos = NewPos(mem.pos, o)
    BY <1>3, TradedPlace
  <2> DEFINE x == mem'.orders[k]
  <2>2. x \in Order
    BY <1>0, <2>1, BookOrders
  <2>3. mem'.cash = mem.cash + Paid(x)
    BY <2>1, SameTerms DEF Paid
  <2>4. \A s \in Symbols : mem'.pos[s] = mem.pos[s] + Moved(x, s)
    <3>1. mem'.pos = NewPos(mem.pos, x)
      BY <2>1, SameTerms
    <3>2. x.status = "FILLED"
      BY <2>1
    <3> HIDE DEF x
    <3>3. QED
      BY <1>0, <2>2, <3>1, <3>2, FillMoves
  <2>5. Len(mem'.orders) = Len(mem.orders)
    <3>1. /\ Len(mem'.orders) \in Nat /\ DOMAIN mem'.orders = 1..Len(mem'.orders)
          /\ Len(mem.orders) \in Nat /\ DOMAIN mem.orders = 1..Len(mem.orders)
      BY <1>0, Flows
    <3>2. 1..Len(mem'.orders) = 1..Len(mem.orders)
      BY <2>1, <3>1
    <3>3. QED
      BY <3>1, <3>2
  <2>6. QED
    BY <1>0, <2>1, <2>3, <2>4, <2>5, BalanceFilled
<1>4. ASSUME NEW o \in Order, Entered(c, o)
      PROVE  Balanced(mem')
  <2>1. mem'.orders = Prepend(o, mem.orders) /\ Len(mem.orders) < MaxHistory
    BY <1>4 DEF Entered
  <2>2. mem'.cash = mem.cash + Paid(o) /\ \A s \in Symbols : mem'.pos[s] = mem.pos[s] + Moved(o, s)
    <3>1. CASE o.status = "PENDING" /\ mem'.cash = mem.cash /\ mem'.pos = mem.pos
      <4>1. Paid(o) = 0 /\ \A s \in Symbols : Moved(o, s) = 0
        BY <3>1 DEF Paid, Moved
      <4>2. mem.cash \in Int /\ \A s \in Symbols : mem.pos[s] \in Int
        BY <1>0, Flows
      <4>3. QED
        BY <3>1, <4>1, <4>2
    <3>2. CASE o.status = "FILLED" /\ Booked(o)
      <4>1. mem'.cash = mem.cash + Paid(o)
        BY <3>2 DEF Booked, Paid
      <4>2. mem'.pos = NewPos(mem.pos, o)
        BY <3>2 DEF Booked
      <4>3. QED
        BY <1>0, <3>2, <4>1, <4>2, FillMoves
    <3>3. QED
      BY <1>4, <3>1, <3>2 DEF Entered
  <2>3. QED
    BY <1>0, <2>1, <2>2, BalanceEntered
<1> QED BY <1>1, <1>2, <1>3, <1>4 DEF Effect

\* The books add up in memory and in the file, across failed saves and restarts.
LEMMA BalanceStep ==
    ASSUME IInv, TypeOK', CopiesInv, FundedInv, BooksBalance, Next
    PROVE  BooksBalance'
<1>0. /\ TypeOK /\ nextId \in Nat /\ MaxHistory \in Nat /\ mem \in TradingState
  BY BrokerAssumption DEF IInv, TypeOK
<1>1. CASE Restart
  BY <1>1 DEF Restart, BooksBalance, Balanced, Payments, Shares
<1>2. ASSUME NEW c \in Clients, Quiet(c) PROVE BooksBalance'
  BY <1>2 DEF Quiet, BooksBalance, Balanced, Payments, Shares
<1>3. ASSUME ~Restart, NEW c \in Clients, Effect(c) PROVE BooksBalance'
  <2>1. Evolves
    BY <1>3, StepEvolves
  <2>2. nextId' \in {nextId, nextId + 1} /\ disk' \in {disk, mem'}
    BY <2>1 DEF Evolves
  <2>3. Len(mem.orders) \in Nat /\ Len(mem.orders) < nextId
    BY <1>0, LenProperties DEF FundedInv, TradingState
  <2>4. ASSUME nextId' <= MaxHistory + 1
        PROVE  Balanced(mem') /\ Balanced(disk')
    <3>1. nextId <= MaxHistory + 1 /\ Balanced(mem) /\ Balanced(disk)
      BY <1>0, <2>2, <2>4 DEF BooksBalance
    <3>2. ASSUME NEW o \in Order, Entered(c, o)
          PROVE  Len(mem.orders) < MaxHistory
      <4>1. o.id = nextId /\ mem'.orders = Prepend(o, mem.orders) /\ mem.orders \in Seq(Order)
        BY <1>0, <3>2 DEF Entered, TradingState
      <4>2. 1 \in DOMAIN mem'.orders /\ mem'.orders[1] = o
        BY <4>1, PrependFirst
      <4>3. nextId < nextId'
        BY <2>1, <4>1, <4>2 DEF Evolves, Below
      <4>4. QED
        BY <1>0, <2>2, <2>3, <2>4, <4>3
    <3>3. Balanced(mem')
      BY <1>3, <3>1, <3>2, EffectBalance
    <3>4. QED
      BY <2>2, <3>1, <3>3
  <2>5. QED
    BY <2>4 DEF BooksBalance, Balanced, Payments, Shares
<1> QED BY <1>0, <1>1, <1>2, <1>3, StepKinds

----------------------------------------------------------------------------
(* The rest of the invariant, and what follows from it *)

BooksInv == /\ KeptInv
            /\ RaceInv
            /\ CopiesInv
            /\ RestsInv
            /\ LongOnly(mem) /\ LongOnly(disk)
            /\ FundedInv
            /\ BooksBalance

\* Before the first call nothing is owed, copied or booked.
LEMMA BooksInit == Init => BooksInv
<1> SUFFICES ASSUME Init PROVE BooksInv
  OBVIOUS
<1>1. /\ mem = SeedState /\ disk = SeedState /\ nextId = 1 /\ acked = {} /\ seen = {}
      /\ \A c \in Clients : task[c] = Idle
  BY DEF Init
<1>2. Idle.pc = "idle" /\ Copied(Idle) = {}
  BY DEF Idle, Copied
<1>3. /\ SeedState.orders = <<>> /\ SeedState.cash = InitialCash
      /\ SeedState.pos = [s \in Symbols |-> 0]
  BY DEF SeedState
<1>4. DOMAIN SeedState.orders = {} /\ Len(SeedState.orders) = 0
  BY <1>3
<1>5. KeptInv
  BY <1>1, <1>2 DEF KeptInv
<1>6. RaceInv
  <2> SUFFICES ASSUME NEW cid \in ClientIds
               PROVE  /\ Cardinality(Bearing(mem, cid)) + Cardinality(Racing(cid)) <= Cardinality(Clients)
                      /\ Cardinality(Bearing(disk, cid)) <= Cardinality(Clients)
    BY DEF RaceInv
  <2>1. Bearing(mem, cid) = {} /\ Bearing(disk, cid) = {}
    BY <1>1, <1>4 DEF Bearing
  <2>2. Racing(cid) = {}
    BY <1>1, <1>2 DEF Racing, Asking
  <2>3. Cardinality(Clients) \in Nat
    BY RacingFinite
  <2>4. QED
    BY <2>1, <2>2, <2>3, FS_EmptySet
<1>7. CopiesInv
  BY <1>1, <1>2 DEF CopiesInv
<1>8. RestsInv
  <2>1. Pending(mem) = {} /\ Pending(disk) = {}
    BY <1>1, <1>4 DEF Pending
  <2>2. QED
    BY <1>1, <1>2, <2>1 DEF RestsInv
<1>9. LongOnly(mem) /\ LongOnly(disk)
  BY <1>1, <1>3 DEF LongOnly
<1>10. FundedInv
  <2>1. Sales(SeedState) = {}
    BY <1>4 DEF Sales, With
  <2>2. Cardinality(Sales(SeedState)) = 0
    BY <2>1, FS_EmptySet
  <2>3. Floor(0) <= -CashTolerance /\ CashTolerance \in Nat /\ Floor(0) \in Int
    BY FloorFalls DEF CashTolerance
  <2>4. SeedState.cash >= Floor(0)
    BY <1>3, <2>3, LedgerAssumption
  <2>5. Funded(SeedState)
    BY <2>2, <2>4 DEF Funded
  <2>6. QED
    BY <1>1, <1>4, <2>5 DEF FundedInv
<1>11. BooksBalance
  <2>1. \A f : Total(f, 0) = 0
    BY TotalSteps
  <2>2. Balanced(SeedState)
    BY <1>3, <1>4, <2>1, LedgerAssumption DEF Balanced
  <2>3. QED
    BY <1>1, <2>2 DEF BooksBalance
<1> QED BY <1>5, <1>6, <1>7, <1>8, <1>9, <1>10, <1>11 DEF BooksInv

\* Every step keeps the rest of the invariant.
LEMMA BooksStep ==
    ASSUME IInv, BooksInv, [Next]_vars
    PROVE  BooksInv'
<1>1. CASE UNCHANGED vars
  BY <1>1 DEF vars, BooksInv, KeptInv, Kept, RaceInv, Bearing, Racing, Asking, CopiesInv, Copied, Terms,
              RestsInv, Pending, Resting, Marketable, LongOnly, FundedInv, Funded, Sales, With,
              BooksBalance, Balanced, Payments, Shares
<1>2. CASE Next
  <2>1. TypeOK /\ TypeOK'
    BY <1>2, TypeStep DEF IInv
  <2>2. KeptInv' /\ RaceInv' /\ CopiesInv'
    BY <1>2, <2>1, KeptStep, RaceStep, CopiesStep DEF BooksInv
  <2>3. RestsInv' /\ FundedInv'
    BY <1>2, <2>1, RestsStep, FundedStep DEF BooksInv
  <2>4. LongOnly(mem') /\ LongOnly(disk')
    BY <1>2, <2>1, LongStep DEF BooksInv
  <2>5. BooksBalance'
    BY <1>2, <2>1, BalanceStep DEF BooksInv
  <2>6. QED
    BY <2>2, <2>3, <2>4, <2>5 DEF BooksInv, LongOnly
<1> QED BY <1>1, <1>2

\* The whole invariant holds in every reachable state.
LEMMA BooksHold == Spec => [](IInv /\ BooksInv)
<1>1. Init => BooksInv
  BY BooksInit
<1>2. IInv /\ BooksInv /\ [Next]_vars => BooksInv'
  BY BooksStep
<1> QED BY <1>1, <1>2, InvariantHolds, PTL DEF Spec

\* An order that a caller was told of stays in memory and in the file, across failed saves
\* and restarts, until newer orders have filled the book; one that a repeat was told of before
\* it was saved (PlaceOrder, paper.go:86) stays in memory until a restart, and once a save has
\* succeeded before that, for good.
THEOREM AnswersStay == Spec => []AckedIsKept
<1>1. BooksInv => AckedIsKept
  BY DEF BooksInv, KeptInv, Kept, AckedIsKept, StillHas
<1> QED BY <1>1, BooksHold, PTL

\* PlaceOrder looks a client id up and inserts its order under two locks; all the same the
\* book never holds more orders of a client id than there are callers to race for it.
THEOREM RepeatsBounded == Spec => []RepeatsAreRaces
<1>1. IInv /\ BooksInv => RepeatsAreRaces
  <2> SUFFICES ASSUME IInv, BooksInv, NEW cid \in ClientIds
               PROVE  Cardinality(OrderByClientID(cid)) <= Cardinality(Clients)
    BY DEF RepeatsAreRaces
  <2>1. OrderByClientID(cid) = Bearing(mem, cid)
    BY DEF OrderByClientID, Bearing
  <2>2. Cardinality(Bearing(mem, cid)) + Cardinality(Racing(cid)) <= Cardinality(Clients)
    BY DEF BooksInv, RaceInv
  <2>3. Cardinality(Bearing(mem, cid)) \in Nat /\ Cardinality(Racing(cid)) \in Nat /\ Cardinality(Clients) \in Nat
    BY BearingFinite, RacingFinite DEF IInv, TypeOK
  <2>4. QED
    BY <2>1, <2>2, <2>3
<1> QED BY <1>1, BooksHold, PTL

\* Between restarts cash and holdings move only with one order becoming FILLED, by exactly
\* what a fill of that order at its recorded price is worth.
THEOREM OneFill == Spec => OneFillAtATime
<1> DEFINE Moves ==
       [\/ mem' = disk
        \/ mem'.cash = mem.cash /\ mem'.pos = mem.pos /\ FilledIn(mem') \subseteq FilledIn(mem)
        \/ \E o \in FilledIn(mem') :
              /\ \A f \in FilledIn(mem) : f.id # o.id
              /\ FilledIn(mem') \subseteq FilledIn(mem) \cup {o}
              /\ mem'.cash = mem.cash + CashDelta(o, o.price)
              /\ mem'.pos = [mem.pos EXCEPT ![o.symbol] = @ + ShareDelta(o)]]_mem
<1>1. ASSUME IInv, BooksInv, [Next]_vars PROVE Moves
  <2>1. CASE UNCHANGED vars
    BY <2>1 DEF vars
  <2>2. CASE Next
    <3>1. TypeOK'
      BY <1>1, <2>2, TypeStep DEF IInv
    <3>2. mem' = mem \/ mem' = disk \/ NoFill \/ \E x : FillOf(x)
      BY <1>1, <2>2, <3>1, OneFillStep DEF BooksInv
    <3>3. QED
      BY <3>2 DEF NoFill, FillOf, NewPos
  <2>3. QED
    BY <1>1, <2>1, <2>2
<1> QED BY <1>1, BooksHold, PTL DEF Spec, OneFillAtATime

\* While no order has been dropped, cash and holdings are what the filled orders add up to, in
\* memory and in the file: no interleaving of fillPaperOrder, failed save or restart books a
\* trade twice or loses half of one.
THEOREM BooksAddUp == Spec => []BooksBalance
<1>1. BooksInv => BooksBalance
  BY DEF BooksInv
<1> QED BY <1>1, BooksHold, PTL

\* Nothing is ever sold short, and cash goes below zero only through sales worth less than
\* their fee, each by at most the minimum commission.
THEOREM StaysSolvent == Spec => []Solvent
<1>1. IInv /\ BooksInv => Solvent
  BY DEF BooksInv, LongOnly, FundedInv, Funded, Floor, Solvent
<1> QED BY <1>1, BooksHold, PTL

----------------------------------------------------------------------------
(* The calls take effect at once: PaperBroker implements AtomicBroker *)

\* The two modules mean the same by the words of the ledger.
LEMMA SameLedger ==
    /\ Promised!SeedState = SeedState
    /\ \A o, p : Promised!Marketable(o, p) <=> Marketable(o, p)
    /\ \A st, o, p : Promised!CanFill(st, o, p) <=> CanFill(st, o, p)
    /\ \A o, p : Promised!CashDelta(o, p) = CashDelta(o, p)
    /\ \A o : Promised!ShareDelta(o) = ShareDelta(o)
<1>1. \A p, q : /\ Promised!Amount(p, q) = Amount(p, q) /\ Promised!Commission(p, q) = Commission(p, q)
                /\ Promised!StampDuty(p, q) = StampDuty(p, q)
  BY DEF Promised!Amount, Amount, Promised!Commission, Commission, Promised!StampDuty, StampDuty,
         Promised!RateBase, RateBase, Promised!CommissionRate, CommissionRate, Promised!StampRate, StampRate,
         Promised!MinCommission, MinCommission, Promised!Yuan, Yuan
<1>2. \A o, p : Promised!CashDelta(o, p) = CashDelta(o, p)
  BY <1>1 DEF Promised!CashDelta, CashDelta
<1>3. \A st, o, p : Promised!CanFill(st, o, p) <=> CanFill(st, o, p)
  BY <1>2 DEF Promised!CanFill, CanFill, Promised!CashTolerance, CashTolerance
<1>4. \A o, p : Promised!Marketable(o, p) <=> Marketable(o, p)
  BY DEF Promised!Marketable, Marketable
<1>5. Promised!SeedState = SeedState /\ \A o : Promised!ShareDelta(o) = ShareDelta(o)
  BY DEF Promised!SeedState, SeedState, Promised!ShareDelta, ShareDelta
<1> QED BY <1>2, <1>3, <1>4, <1>5

\* A new order is put before the others, and its number is above all that were ever given.
LEMMA EnteredEnters ==
    ASSUME IInv, TypeOK', NEW c \in Clients, NEW o \in Order, Entered(c, o)
    PROVE  Promised!Enters(o) /\ 1 \in DOMAIN mem'.orders /\ mem'.orders[1] = o
<1> DEFINE s == mem.orders
           n == IF Len(s) < MaxHistory THEN Len(s) + 1 ELSE MaxHistory
<1>1. s \in Seq(Order) /\ Len(s) \in Nat /\ DOMAIN s = 1..Len(s) /\ mem'.orders \in Seq(Order)
  BY LenProperties DEF IInv, TypeOK, TradingState
<1>2. n \in Nat /\ n # 0
  BY <1>1, BrokerAssumption
<1>3. mem'.orders = [i \in 1..n |-> IF i = 1 THEN o ELSE s[i - 1]]
  BY DEF Entered, Prepend
<1> HIDE DEF n, s
<1>4. Len(mem'.orders) = n /\ DOMAIN mem'.orders = 1..n
  <2>1. DOMAIN mem'.orders = 1..n
    BY <1>3
  <2>2. Len(mem'.orders) \in Nat /\ DOMAIN mem'.orders = 1..Len(mem'.orders)
    BY <1>1, LenProperties
  <2>3. QED
    BY <1>2, <2>1, <2>2
<1>5. 1 \in DOMAIN mem'.orders /\ mem'.orders[1] = o
  BY <1>2, <1>3, <1>4
<1>6. \A i \in 2..Len(mem'.orders) : mem'.orders[i] = s[i - 1]
  BY <1>2, <1>3, <1>4
<1>7. o.id = nextId /\ Below(mem, nextId) /\ Below(disk, nextId) /\ \A a \in acked \cup seen : a.id < nextId
  BY DEF Entered, IInv, AnswersHold, Holds, Stated
<1>8. \A k \in Promised!Ids(mem) \cup Promised!Ids(disk) \cup {a.id : a \in acked \cup seen} : k < o.id
  BY <1>7 DEF Promised!Ids, Below
<1> QED BY <1>4, <1>5, <1>6, <1>8 DEF Promised!Enters, n, s

\* PlaceOrder takes effect when it inserts the order.
LEMMA EnteredAccepts ==
    ASSUME IInv, TypeOK', NEW c \in Clients, Effect(c), NEW o \in Order, Entered(c, o)
    PROVE  Promised!Next
<1>1. Promised!Enters(o) /\ 1 \in DOMAIN mem'.orders /\ mem'.orders[1] = o
  BY EnteredEnters
<1>2. Written
  <2>1. 1 \in DOMAIN mem.orders => mem.orders[1].id < nextId
    BY DEF IInv, Below
  <2>2. nextId \in Nat /\ o.id = nextId
    BY DEF IInv, TypeOK, Entered
  <2>3. mem' # mem
    BY <1>1, <2>1, <2>2
  <2>4. QED
    BY <2>3 DEF Effect
<1>3. Promised!Written
  BY <1>2 DEF Written, Promised!Written
<1>4. Promised!Pays(o) \/ (o.status = "PENDING" /\ Promised!PaysNothing(o))
  <2>1. CASE o.status = "PENDING" /\ mem'.cash = mem.cash /\ mem'.pos = mem.pos
    BY <2>1 DEF Promised!PaysNothing
  <2>2. CASE o.status = "FILLED" /\ Marketable(o, o.price) /\ Booked(o)
    BY <2>2, SameLedger DEF Booked, NewPos, Promised!Pays
  <2>3. QED
    BY <2>1, <2>2 DEF Entered
<1>5. Promised!Accept(o)
  BY <1>1, <1>3, <1>4 DEF Promised!Accept
<1> QED BY <1>1, <1>5 DEF Promised!Next

\* One order of the book becomes another.
LEMMA PlaceBecomes ==
    ASSUME mem \in TradingState, mem' \in TradingState, NEW k \in DOMAIN mem.orders, NEW status \in Statuses, NEW p \in Int,
           mem.orders[k].status = "PENDING", mem'.orders[k] = Finished(mem.orders[k], status, p),
           DOMAIN mem'.orders = DOMAIN mem.orders,
           \A j \in DOMAIN mem.orders : j # k => mem'.orders[j] = mem.orders[j]
    PROVE  Promised!Becomes(k, mem'.orders[k])
<1>1. mem.orders[k] \in Order
  BY BookOrders
<1>2. mem'.orders[k].status = status /\ mem'.orders[k].price = p
  BY <1>1 DEF Finished, Order
<1>3. mem'.orders[k] = [mem.orders[k] EXCEPT !.status = mem'.orders[k].status, !.price = mem'.orders[k].price]
  BY <1>2 DEF Finished
<1>4. mem'.orders = [mem.orders EXCEPT ![k] = mem'.orders[k]]
  <2>1. mem.orders = [j \in DOMAIN mem.orders |-> mem.orders[j]] /\ mem'.orders = [j \in DOMAIN mem.orders |-> mem'.orders[j]]
    BY DEF TradingState
  <2>2. QED
    BY <2>1
<1> QED BY <1>3, <1>4 DEF Promised!Becomes

\* CancelOrder takes effect when it marks the order, and so does a rejection.
LEMMA ClosedFinishes ==
    ASSUME IInv, TypeOK', NEW c \in Clients, Effect(c), Closed
    PROVE  Promised!Next \/ mem' = mem
<1>0. mem \in TradingState /\ mem' \in TradingState /\ UniqueIds(mem)
  BY DEF IInv, TypeOK
<1>1. PICK id \in Nat, status \in {"CANCELED", "REJECTED"} : mem' = Mark(mem, id, status, 0)
  BY DEF Closed
<1>2. mem'.cash = mem.cash /\ mem'.pos = mem.pos /\ DOMAIN mem'.orders = DOMAIN mem.orders
  BY <1>0, <1>1, MarkPlaces
<1>3. CASE \E k \in DOMAIN mem.orders : mem.orders[k].id = id /\ mem.orders[k].status = "PENDING"
  <2>1. PICK k \in DOMAIN mem.orders : mem.orders[k].id = id /\ mem.orders[k].status = "PENDING"
    BY <1>3
  <2>2. mem'.orders[k] = Finished(mem.orders[k], status, 0)
    BY <1>0, <1>1, <2>1, MarkPlaces
  <2>3. mem.orders[k] \in Order /\ mem'.orders[k].status = status
    BY <1>0, <2>2, BookOrders DEF Finished, Order
  <2>4. ASSUME NEW j \in DOMAIN mem.orders, j # k
        PROVE  mem'.orders[j] = mem.orders[j]
    <3>1. mem.orders[j].id # id
      BY <1>0, <2>1, <2>4 DEF UniqueIds
    <3>2. QED
      BY <1>0, <1>1, <3>1, MarkPlaces
  <2>5. status \in Statuses
    BY DEF Statuses
  <2>6. Promised!Becomes(k, mem'.orders[k])
    BY <1>0, <1>2, <2>1, <2>2, <2>4, <2>5, PlaceBecomes
  <2>7. Promised!PaysNothing(mem'.orders[k])
    BY <1>2, <2>3 DEF Promised!PaysNothing
  <2>8. Written
    BY <2>1, <2>3 DEF Effect
  <2>9. Promised!Finish(k, mem'.orders[k])
    BY <2>3, <2>6, <2>7, <2>8 DEF Promised!Finish, Promised!Written, Written
  <2>10. QED
    BY <1>2, <2>9 DEF Promised!Next
<1>4. CASE ~(\E k \in DOMAIN mem.orders : mem.orders[k].id = id /\ mem.orders[k].status = "PENDING")
  <2>1. \A j \in DOMAIN mem.orders : mem'.orders[j] = mem.orders[j]
    BY <1>0, <1>1, <1>4, MarkPlaces
  <2>2. mem'.orders = mem.orders
    <3>1. mem.orders = [j \in DOMAIN mem.orders |-> mem.orders[j]] /\ mem'.orders = [j \in DOMAIN mem'.orders |-> mem'.orders[j]]
      BY <1>0 DEF TradingState
    <3>2. QED
      BY <1>2, <2>1, <3>1
  <2>3. mem' = mem
    BY <1>0, <1>2, <2>2 DEF TradingState
  <2>4. QED
    BY <2>3
<1> QED BY <1>3, <1>4

\* A pass takes effect when it settles an order: at a price within the limit of the order as the
\* book has it, although the pass works on a copy.
LEMMA TradedFinishes ==
    ASSUME IInv, TypeOK', CopiesInv, RestsInv, NEW c \in Clients, Effect(c), Traded(c)
    PROVE  Promised!Next
<1>0. mem \in TradingState /\ mem' \in TradingState /\ UniqueIds(mem)
  BY DEF IInv, TypeOK
<1>1. PICK k \in DOMAIN mem.orders, o \in Order, p \in Int :
         /\ CanFill(mem, o, p)
         /\ task[c].pc = "settle" /\ o = task[c].order /\ p = task[c].price
         /\ mem' = Mark(FillLedger(mem, o, p), o.id, "FILLED", p)
         /\ mem.orders[k].id = o.id /\ mem.orders[k].status = "PENDING"
         /\ Terms(mem.orders[k], o) /\ Terms(mem'.orders[k], o)
         /\ mem'.orders[k].status = "FILLED" /\ mem'.orders[k].price = p
         /\ DOMAIN mem'.orders = DOMAIN mem.orders
         /\ \A j \in DOMAIN mem.orders : j # k => mem'.orders[j] = mem.orders[j]
         /\ mem'.cash = mem.cash + CashDelta(o, p) /\ mem'.pos = NewPos(mem.pos, o)
  BY TradedPlace
<1>2. mem'.orders[k] = Finished(mem.orders[k], "FILLED", p)
  <2>1. FillLedger(mem, o, p) \in TradingState /\ FillLedger(mem, o, p).orders = mem.orders
    BY <1>0, FillLedgerType
  <2>2. QED
    BY <1>1, <2>1, MarkPlaces
<1>3. Promised!Becomes(k, mem'.orders[k])
  <2>1. "FILLED" \in Statuses
    BY DEF Statuses
  <2>2. QED
    BY <1>0, <1>1, <1>2, <2>1, PlaceBecomes
<1> DEFINE x == mem'.orders[k]
<1>4. Marketable(x, p) /\ CanFill(mem, x, p)
  <2>1. Marketable(o, p)
    BY <1>1 DEF RestsInv
  <2>2. CashDelta(x, p) = CashDelta(o, p)
    BY <1>1, SameTerms
  <2>3. Terms(x, o)
    BY <1>1
  <2> HIDE DEF x
  <2>4. QED
    BY <1>1, <2>1, <2>2, <2>3 DEF Terms, Marketable, CanFill
<1>5. mem'.cash = mem.cash + CashDelta(x, p) /\ mem'.pos = NewPos(mem.pos, x)
  BY <1>1, SameTerms
<1>6. Promised!Pays(x)
  BY <1>1, <1>4, <1>5, SameLedger DEF Promised!Pays, NewPos
<1>7. Written
  BY <1>1 DEF Effect
<1>8. Promised!Finish(k, x)
  BY <1>3, <1>6, <1>7 DEF Promised!Finish, Promised!Written, Written
<1> QED BY <1>1, <1>8 DEF Promised!Next

\* What a caller is told stands in memory, and what it is told for good in the file as well.
LEMMA AnswersStand ==
    ASSUME IInv', KeptInv'
    PROVE  /\ \A a \in acked' \cup seen' : Promised!Stands(a, mem')
           /\ \A a \in acked' : Promised!Stands(a, disk')
<1>1. ASSUME NEW a \in acked' \cup seen', NEW st, Kept(st, a.id), a.status \in Terminal => Says(st, a)
      PROVE  Promised!Stands(a, st)
  <2>1. a.status = "PENDING" \/ a.status \in Terminal
    BY DEF IInv, TypeOK, Answer, Statuses, Terminal
  <2>2. a.id \in Promised!Ids(st) <=> \E i \in DOMAIN st.orders : st.orders[i].id = a.id
    BY DEF Promised!Ids
  <2>3. QED
    BY <1>1, <2>1, <2>2 DEF Promised!Stands, Kept, Says
<1>2. \A a \in acked' \cup seen' : Kept(mem', a.id) /\ (a.status \in Terminal => Says(mem', a))
  BY DEF IInv, KeptInv, AnswersHold, Holds, Stated
<1>3. \A a \in acked' : Kept(disk', a.id) /\ (a.status \in Terminal => Says(disk', a))
  BY DEF IInv, KeptInv, AnswersHold, Holds
<1> QED BY <1>1, <1>2, <1>3

\* Every step of the broker is one of the abstract broker, or none.
LEMMA StepIsAtomic ==
    ASSUME IInv, BooksInv, IInv', BooksInv', [Next]_vars
    PROVE  [Promised!Next]_(Promised!vars)
<1>0. TypeOK /\ TypeOK' /\ CopiesInv /\ RestsInv /\ KeptInv'
  BY DEF IInv, BooksInv
<1>1. CASE UNCHANGED vars
  BY <1>1 DEF vars, Promised!vars
<1>2. CASE Restart
  BY <1>2 DEF Restart, Promised!Next, Promised!Crash
<1>3. ASSUME NEW c \in Clients, Quiet(c) PROVE [Promised!Next]_(Promised!vars)
  BY <1>3 DEF Quiet, Promised!vars
<1>4. ASSUME NEW c \in Clients, Effect(c) PROVE Promised!Next
  <2>1. CASE mem' = mem
    <3>1. acked \subseteq acked' /\ seen \subseteq acked' \cup seen' /\ disk' \in {disk, mem'}
      BY <1>4 DEF Effect, Written
    <3>2. /\ \A a \in acked' \cup seen' : Promised!Stands(a, mem)
          /\ \A a \in acked' : Promised!Stands(a, disk')
      BY <1>0, <2>1, AnswersStand
    <3>3. Promised!Tell
      BY <2>1, <3>1, <3>2 DEF Promised!Tell
    <3>4. QED
      BY <3>3 DEF Promised!Next
  <2>2. CASE Closed
    BY <1>0, <1>4, <2>1, <2>2, ClosedFinishes
  <2>3. CASE Traded(c)
    BY <1>0, <1>4, <2>3, TradedFinishes
  <2>4. CASE \E o \in Order : Entered(c, o)
    BY <1>0, <1>4, <2>4, EnteredAccepts
  <2>5. QED
    BY <1>4, <2>1, <2>2, <2>3, <2>4 DEF Effect
<1> QED BY <1>0, <1>1, <1>2, <1>3, <1>4, StepKinds

\* Whatever runs at the same time and fails, PlaceOrder, CancelOrder and ProcessPending take effect
\* as the operations of the abstract broker do (paper.go, PlaceOrder to ProcessPending; store.go,
\* UpdateTrading): each at an instant of its own, orders and money together, within the limit of
\* the order, the file as the book was at such an instant.  What a caller was told is undone only
\* by a crash, and only where a repeat was told of the book before the file had it: CallsAreAtomic, for any callers, requests, prices and length of the book.
THEOREM CallsTakeEffectAtOnce == Spec => CallsAreAtomic
<1>1. Init => Promised!Init
  BY SameLedger DEF Init, Promised!Init
<1>2. (IInv /\ BooksInv) /\ (IInv /\ BooksInv)' /\ [Next]_vars => [Promised!Next]_(Promised!vars)
  BY StepIsAtomic
<1> QED BY <1>1, <1>2, BooksHold, PTL DEF Spec, CallsAreAtomic, Promised!Spec
=============================================================================
