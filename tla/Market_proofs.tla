---------------------------- MODULE Market_proofs ----------------------------
(***************************************************************************)
(* Theorems about Market, for any stocks, callers and times to live, and   *)
(* any number of decisions kept.                                           *)
(***************************************************************************)
EXTENDS Market, SequenceTheorems, TLAPS

----------------------------------------------------------------------------
(* The inductive invariant *)

\* Answers about some of the things of a range.
Data(range) == UNION {[S -> Datum] : S \in SUBSET range}

Calls == [pc : {"look", "ask", "keep", "record", "done"},
          op : {"none", "dashboard", "quote", "analyze"}, symbols : SUBSET Symbols, line : Lines,
          began : Nat, now : Nat, since : Nat, data : Data(Lines), shown : Data(Symbols),
          failed : BOOLEAN]

Things(line) == IF line = "quotes" THEN Symbols ELSE {line}

\* Nothing in a cache was seen before the stamp by which its age is told.
Stamped(line) == \A x \in DOMAIN caches[line].kept : caches[line].kept[x].seen >= caches[line].at

\* What AnswersAreFresh says of the answer to a quote or a dashboard; it holds while the call
\* collects the rest as well.
Fresh(t) == \A x \in DOMAIN t.shown : t.shown[x].priced =>
                \/ t.shown[x].seen > t.since - QuoteTTL
                \/ t.shown[x].stale /\ t.failed /\ t.op = "dashboard"

Since(d, time) == \A x \in DOMAIN d : d[x].seen > time

\* Which lines a call reads, one after the other.
Shape(t) == \/ t.op = "quote" /\ t.line = "quotes" /\ t.pc # "record"
            \/ t.op = "dashboard" /\ t.line \in {"quotes", "indices"} /\ t.pc # "record"
            \/ /\ t.op = "analyze" /\ \E s \in Symbols : t.symbols = {s} /\ t.line \in {s, "quotes"}
               /\ t.pc = "record" => t.line = "quotes"

\* What a call under way has collected by some time: nothing older than its beginning allows.
UnderWay(t, time) ==
    /\ Shape(t) /\ t.began <= time
    /\ t.op = "analyze" /\ t.line = "quotes" =>
          DOMAIN t.shown = t.symbols /\ Since(t.shown, t.began - KlineTTL)
    /\ t.pc \in {"ask", "keep"} => t.began <= t.now /\ t.now <= time
    /\ t.pc = "keep" => DOMAIN t.data = Wanted(t) /\ \A x \in DOMAIN t.data : t.data[x].seen >= t.now
    /\ t.pc = "record" => DOMAIN t.data \in {{}, t.symbols} /\ Since(t.data, t.began - QuoteTTL)

Sound(t, time) == /\ t \in Calls
                  /\ t.op \in {"quote", "dashboard"} => Fresh(t)
                  /\ t.pc # "done" => UnderWay(t, time)

\* A list of decisions is newest first, bounded, and each took a recent price.
Orderly(list, next) ==
    /\ list \in Seq(Decision) /\ Len(list) <= Kept
    /\ \A i \in DOMAIN list : list[i].id < next
    /\ \A i, j \in DOMAIN list : i < j => list[i].id > list[j].id
    /\ \A i \in DOMAIN list :
          list[i].seen > list[i].since - (IF list[i].from = "quote" THEN QuoteTTL ELSE KlineTTL)

\* What ConfirmedIsSaved says of an id and a list.
Covers(list, id) == \/ \E i \in DOMAIN list : list[i].id = id
                    \/ Len(list) = Kept /\ \A i \in 1..Kept : list[i].id > id

CachesInv  == /\ caches \in [Lines -> [at : Nat, kept : Data(Lines)]]
              /\ \A line \in Lines : DOMAIN caches[line].kept \subseteq Things(line) /\ Stamped(line)
CallsInv   == task \in [Callers -> Calls] /\ \A c \in Callers : Sound(task[c], clock)
JournalInv == /\ Orderly(journal, recorded) /\ Orderly(saved, recorded)
              /\ told \subseteq Nat
              /\ \A id \in told : id < recorded /\ Covers(journal, id) /\ Covers(saved, id)
Counters   == clock \in Nat /\ calls \in Nat /\ recorded \in Nat

IInv == CachesInv /\ CallsInv /\ JournalInv /\ Counters

----------------------------------------------------------------------------
(* Answers and calls *)

\* An answer about some things of a range.
LEMMA DataFields ==
    ASSUME NEW range, NEW d \in Data(range)
    PROVE  /\ DOMAIN d \subseteq range /\ d \in [DOMAIN d -> Datum]
           /\ \A x \in DOMAIN d : d[x] \in Datum
BY DEF Data

\* A function on some things of a range is such an answer.
LEMMA DataOf ==
    ASSUME NEW range, NEW S \in SUBSET range, NEW d \in [S -> Datum]
    PROVE  d \in Data(range) /\ DOMAIN d = S
BY DEF Data

\* So is the empty one.
LEMMA EmptyData ==
    ASSUME NEW range
    PROVE  Empty \in Data(range) /\ DOMAIN Empty = {}
BY DEF Data, Empty

\* An answer about some things of a range is one about a wider range.
LEMMA DataWider ==
    ASSUME NEW range, NEW wider, range \subseteq wider, NEW d \in Data(range)
    PROVE  d \in Data(wider)
BY DEF Data

\* What a call answers when it is over.
Answered(op, since, shown, failed) ==
    [pc |-> "done", op |-> op, symbols |-> {}, line |-> "quotes", began |-> 0, now |-> 0,
     since |-> since, data |-> Empty, shown |-> shown, failed |-> failed]

\* The fields of a call that is over.
LEMMA AnsweredCall ==
    ASSUME NEW op \in {"dashboard", "quote", "analyze"}, NEW since \in Nat,
           NEW shown \in Data(Symbols), NEW failed \in BOOLEAN
    PROVE  /\ Answered(op, since, shown, failed) \in Calls
           /\ Answered(op, since, shown, failed).pc = "done"
           /\ Answered(op, since, shown, failed).op = op
           /\ Answered(op, since, shown, failed).since = since
           /\ Answered(op, since, shown, failed).shown = shown
           /\ Answered(op, since, shown, failed).failed = failed
BY EmptyData DEF Answered, Calls, Lines

\* The forms in which Received lets a call go on.
OverFailed(op, at)      == [[Idle EXCEPT !.op = op, !.since = at] EXCEPT !.failed = TRUE]
OverShown(op, at, data) == [[Idle EXCEPT !.op = op, !.since = at] EXCEPT !.shown = data]
OverAt(t, at) == [[Idle EXCEPT !.op = t.op, !.since = at]
                     EXCEPT !.since = t.since, !.shown = t.shown, !.failed = t.failed]
ToIndices(t, at, data, failed) ==
    [t EXCEPT !.pc = "look", !.line = "indices", !.data = Empty, !.since = at,
              !.shown = data, !.failed = failed]
ToQuotes(t, at, data) ==
    [t EXCEPT !.pc = "look", !.line = "quotes", !.data = Empty, !.since = at, !.shown = data]
ToRecord(t, data) == [t EXCEPT !.pc = "record", !.data = data]

\* The answers of a quote and of an analysis without bars.
LEMMA Over ==
    ASSUME NEW op \in {"dashboard", "quote", "analyze"}, NEW at \in Nat, NEW data \in Data(Symbols),
           NEW y
    PROVE  /\ y = OverFailed(op, at) =>
                y \in Calls /\ y.pc = "done" /\ y.op = op /\ y.since = at /\ y.shown = Empty
           /\ y = OverShown(op, at, data) =>
                y \in Calls /\ y.pc = "done" /\ y.op = op /\ y.since = at /\ y.shown = data
<1>1. ASSUME y = OverFailed(op, at)
      PROVE  y \in Calls /\ y.pc = "done" /\ y.op = op /\ y.since = at /\ y.shown = Empty
  <2>1. y = Answered(op, at, Empty, TRUE)
    BY <1>1 DEF OverFailed, Idle, Answered
  <2> QED BY <2>1, EmptyData DEF Answered, Calls, Lines
<1>2. ASSUME y = OverShown(op, at, data)
      PROVE  y \in Calls /\ y.pc = "done" /\ y.op = op /\ y.since = at /\ y.shown = data
  <2>1. y = Answered(op, at, data, FALSE)
    BY <1>2 DEF OverShown, Idle, Answered
  <2> QED BY <2>1, EmptyData DEF Answered, Calls, Lines
<1> QED BY <1>1, <1>2

\* The answer of a dashboard: the indices decide nothing of it.
LEMMA OverIndices ==
    ASSUME NEW t, NEW at, NEW y, y = OverAt(t, at)
    PROVE  y = Answered(t.op, t.since, t.shown, t.failed)
BY DEF OverAt, Idle, Answered

\* A dashboard goes on to the indices with its quotes.
LEMMA Onward ==
    ASSUME NEW t \in Calls, NEW at \in Nat, NEW data \in Data(Symbols), NEW failed \in BOOLEAN,
           NEW y, y = ToIndices(t, at, data, failed)
    PROVE  /\ y \in Calls /\ y.pc = "look" /\ y.op = t.op /\ y.line = "indices"
           /\ y.since = at /\ y.shown = data /\ y.failed = failed /\ y.began = t.began
<1>1. y \in Calls
  BY EmptyData DEF ToIndices, Calls, Lines
<1> QED BY <1>1 DEF ToIndices, Calls

\* An analysis goes on to the quote with its bars.
LEMMA OnwardAnalysis ==
    ASSUME NEW t \in Calls, NEW at \in Nat, NEW data \in Data(Symbols),
           NEW y, y = ToQuotes(t, at, data)
    PROVE  /\ y \in Calls /\ y.pc = "look" /\ y.op = t.op /\ y.line = "quotes"
           /\ y.symbols = t.symbols /\ y.began = t.began /\ y.shown = data
<1>1. y \in Calls
  BY EmptyData DEF ToQuotes, Calls, Lines
<1> QED BY <1>1 DEF ToQuotes, Calls

\* An analysis goes on to the journal with its quote, if any.
LEMMA OnwardRecord ==
    ASSUME NEW t \in Calls, NEW data \in Data(Lines), NEW y, y = ToRecord(t, data)
    PROVE  /\ y \in Calls /\ y.pc = "record" /\ y.op = t.op /\ y.line = t.line
           /\ y.symbols = t.symbols /\ y.began = t.began /\ y.shown = t.shown /\ y.data = data
<1>1. y \in Calls
  BY DEF ToRecord, Calls
<1> QED BY <1>1 DEF ToRecord, Calls

\* Where a read leads, call by call.
LEMMA ReceivedQuote ==
    ASSUME NEW t, t.op = "quote", NEW data, NEW failed \in BOOLEAN, NEW at
    PROVE  \/ Received(t, data, failed, at) = OverFailed("quote", at)
           \/ ~failed /\ Received(t, data, failed, at) = OverShown("quote", at, data)
<1>1. CASE failed \/ Usable(data) = {}
  BY <1>1, Zenon DEF Received, OverFailed
<1>2. CASE ~failed /\ Usable(data) # {}
  BY <1>2, Zenon DEF Received, OverShown
<1> QED BY <1>1, <1>2

\* A dashboard reads quotes, then indices.
LEMMA ReceivedDashboard ==
    ASSUME NEW t, t.op = "dashboard", NEW data, NEW failed, NEW at
    PROVE  /\ t.line = "quotes" => Received(t, data, failed, at) = ToIndices(t, at, data, failed)
           /\ t.line = "indices" =>
                Received(t, data, failed, at) = Answered("dashboard", t.since, t.shown, t.failed)
<1>1. ASSUME t.line = "quotes"
      PROVE  Received(t, data, failed, at) = ToIndices(t, at, data, failed)
  BY <1>1, Zenon DEF Received, ToIndices
<1>2. ASSUME t.line = "indices"
      PROVE  Received(t, data, failed, at) = Answered("dashboard", t.since, t.shown, t.failed)
  <2>1. Received(t, data, failed, at) = OverAt(t, at)
    BY <1>2, Zenon DEF Received, OverAt
  <2> QED BY <2>1, OverIndices
<1> QED BY <1>1, <1>2

\* An analysis reads bars, then a quote.
LEMMA ReceivedAnalyze ==
    ASSUME NEW t, t.op = "analyze", NEW data, NEW failed \in BOOLEAN, NEW at
    PROVE  /\ t.line # "quotes" /\ failed =>
                Received(t, data, failed, at) = OverFailed("analyze", at)
           /\ t.line # "quotes" /\ ~failed =>
                Received(t, data, failed, at) = ToQuotes(t, at, data)
           /\ t.line = "quotes" =>
                Received(t, data, failed, at) = ToRecord(t, IF failed THEN Empty ELSE data)
<1>1. ASSUME t.line # "quotes", failed
      PROVE  Received(t, data, failed, at) = OverFailed("analyze", at)
  BY <1>1, Zenon DEF Received, OverFailed
<1>2. ASSUME t.line # "quotes", ~failed
      PROVE  Received(t, data, failed, at) = ToQuotes(t, at, data)
  BY <1>2, Zenon DEF Received, ToQuotes
<1>3. ASSUME t.line = "quotes"
      PROVE  Received(t, data, failed, at) = ToRecord(t, IF failed THEN Empty ELSE data)
  BY <1>3, Zenon DEF Received, ToRecord
<1> QED BY <1>1, <1>2, <1>3

\* What a read hands over: what was asked for, as old as the cache allows; or nothing; or old quotes,
\* marked as stale.
GoodRead(t, data, failed, at) ==
    /\ at \in Nat /\ t.began <= at
    /\ data \in Data(Things(t.line))
    /\ ~failed => DOMAIN data = Wanted(t) /\ Since(data, at - TTL(t.line))
    /\ (failed /\ t.line = "quotes") => \A x \in DOMAIN data : data[x].stale

\* A call goes on, or ends, with sound data when a read ends.
LEMMA ReadStep ==
    ASSUME NEW time \in Nat, NEW t, Sound(t, time), t.pc \in {"look", "ask", "keep"},
           NEW data, NEW failed \in BOOLEAN, NEW at, GoodRead(t, data, failed, at),
           NEW y, y = Received(t, data, failed, at)
    PROVE  Sound(y, time)
<1>1. t \in Calls /\ Shape(t) /\ t.began <= time /\ t.began \in Nat /\ at \in Nat /\ t.began <= at
  BY DEF Sound, UnderWay, Calls, GoodRead
<1>2. /\ "quotes" \notin Symbols /\ "indices" \notin Symbols /\ QuoteTTL \in Nat /\ KlineTTL \in Nat
  BY MarketAssumption
<1>3. data \in Data(Things(t.line))
  BY DEF GoodRead
<1>4. CASE t.op = "quote"
  <2>1. t.line = "quotes" /\ data \in Data(Symbols)
    BY <1>1, <1>3, <1>4 DEF Shape, Things
  <2>2. /\ y \in Calls /\ y.pc = "done" /\ y.op = "quote" /\ y.since = at
        /\ y.shown = Empty \/ (~failed /\ y.shown = data)
    <3>1. y = OverFailed("quote", at) \/ (~failed /\ y = OverShown("quote", at, data))
      BY <1>4, ReceivedQuote
    <3> QED BY <1>1, <2>1, <3>1, Over
  <2>3. Fresh(y)
    BY <1>2, <2>1, <2>2, EmptyData DEF Fresh, GoodRead, Since, TTL
  <2> QED BY <2>2, <2>3 DEF Sound
<1>5. CASE t.op = "dashboard" /\ t.line = "quotes"
  <2>1. data \in Data(Symbols)
    BY <1>3, <1>5 DEF Things
  <2>2. /\ y \in Calls /\ y.pc = "look" /\ y.op = "dashboard" /\ y.line = "indices" /\ y.since = at
        /\ y.shown = data /\ y.failed = failed /\ y.began = t.began
    <3>1. y = ToIndices(t, at, data, failed)
      BY <1>5, ReceivedDashboard
    <3> QED BY <1>1, <1>5, <2>1, <3>1, Onward
  <2>3. Fresh(y)
    BY <1>2, <1>5, <2>1, <2>2 DEF Fresh, GoodRead, Since, TTL
  <2>4. UnderWay(y, time)
    BY <1>1, <2>2 DEF UnderWay, Shape
  <2> QED BY <2>2, <2>3, <2>4 DEF Sound
<1>6. CASE t.op = "dashboard" /\ t.line = "indices"
  <2>1. /\ y \in Calls /\ y.pc = "done" /\ y.op = "dashboard" /\ y.since = t.since
        /\ y.shown = t.shown /\ y.failed = t.failed
    <3>1. y = Answered("dashboard", t.since, t.shown, t.failed)
      BY <1>6, ReceivedDashboard
    <3>2. t.since \in Nat /\ t.shown \in Data(Symbols) /\ t.failed \in BOOLEAN
      BY <1>1 DEF Calls
    <3> QED BY <3>1, <3>2, AnsweredCall
  <2>2. Fresh(y)
    BY <1>6, <2>1 DEF Fresh, Sound
  <2> QED BY <2>1, <2>2 DEF Sound
<1>7. CASE t.op = "analyze" /\ t.line # "quotes"
  <2>1. PICK s \in Symbols : t.symbols = {s} /\ t.line = s
    BY <1>1, <1>7 DEF Shape
  <2>2. data \in Data(Symbols)
    BY <1>3, <1>7, <2>1, DataWider DEF Things
  <2>3. CASE failed
    <3>1. y \in Calls /\ y.pc = "done" /\ y.op = "analyze"
      <4>1. y = OverFailed("analyze", at)
        BY <1>7, <2>3, ReceivedAnalyze
      <4> QED BY <1>1, <2>2, <4>1, Over
    <3> QED BY <3>1 DEF Sound
  <2>4. CASE ~failed
    <3>1. /\ y \in Calls /\ y.pc = "look" /\ y.op = "analyze" /\ y.line = "quotes"
          /\ y.symbols = {s} /\ y.began = t.began /\ y.shown = data
      <4>1. y = ToQuotes(t, at, data)
        BY <1>7, <2>4, ReceivedAnalyze
      <4> QED BY <1>1, <1>7, <2>1, <2>2, <4>1, OnwardAnalysis
    <3>2. DOMAIN data = {s} /\ Since(data, at - KlineTTL)
      BY <1>2, <1>7, <2>1, <2>4 DEF GoodRead, Wanted, TTL
    <3>3. Since(data, t.began - KlineTTL)
      BY <1>1, <1>2, <2>2, <3>2, DataFields DEF Since, Datum
    <3>4. UnderWay(y, time)
      BY <1>1, <2>1, <3>1, <3>2, <3>3 DEF UnderWay, Shape
    <3> QED BY <3>1, <3>4 DEF Sound
  <2> QED BY <2>3, <2>4
<1>8. CASE t.op = "analyze" /\ t.line = "quotes"
  <2>1. data \in Data(Symbols)
    BY <1>3, <1>8 DEF Things
  <2>2. /\ y \in Calls /\ y.pc = "record" /\ y.op = "analyze" /\ y.line = "quotes"
        /\ y.symbols = t.symbols /\ y.shown = t.shown /\ y.began = t.began
        /\ y.data = IF failed THEN Empty ELSE data
    <3> DEFINE kept == IF failed THEN Empty ELSE data
    <3>1. y = ToRecord(t, kept)
      BY <1>8, ReceivedAnalyze
    <3>2. kept \in Data(Lines)
      BY <2>1, EmptyData, DataWider DEF Lines
    <3> HIDE DEF kept
    <3>3. /\ y \in Calls /\ y.pc = "record" /\ y.op = t.op /\ y.line = t.line
          /\ y.symbols = t.symbols /\ y.shown = t.shown /\ y.began = t.began /\ y.data = kept
      BY <1>1, <3>1, <3>2, OnwardRecord
    <3> QED BY <1>8, <3>3 DEF kept
  <2>3. y.data \in Data(Symbols) /\ DOMAIN y.data \in {{}, t.symbols} /\ Since(y.data, at - QuoteTTL)
    BY <1>2, <1>8, <2>1, <2>2, EmptyData DEF GoodRead, Wanted, TTL, Since
  <2>4. Since(y.data, t.began - QuoteTTL)
    BY <1>1, <1>2, <2>3, DataFields DEF Since, Datum
  <2>5. t.pc # "done" /\ UnderWay(t, time)
    BY DEF Sound
  <2>6. UnderWay(y, time)
    BY <1>1, <1>8, <2>2, <2>3, <2>4, <2>5 DEF UnderWay, Shape
  <2> QED BY <2>2, <2>6 DEF Sound
<1> QED BY <1>1, <1>4, <1>5, <1>6, <1>7, <1>8 DEF Shape

----------------------------------------------------------------------------
(* The journal *)

\* The newest decision comes first; when there are too many, the oldest goes.
LEMMA PrependFields ==
    ASSUME NEW d \in Decision, NEW list \in Seq(Decision), Len(list) <= Kept,
           NEW p, p = Prepend(d, list)
    PROVE  /\ p \in Seq(Decision) /\ DOMAIN p = 1..Len(p)
           /\ Len(p) = IF Len(list) < Kept THEN Len(list) + 1 ELSE Kept
           /\ p[1] = d
           /\ \A i \in DOMAIN p : i = 1 \/ (i - 1 \in DOMAIN list /\ p[i] = list[i - 1])
<1> DEFINE all == <<d>> \o list
           n   == IF Len(list) < Kept THEN Len(list) + 1 ELSE Kept
<1>1. Len(list) \in Nat /\ DOMAIN list = 1..Len(list)
  BY LenProperties
<1>2. n \in Nat /\ n >= 1 /\ n <= Len(list) + 1
  BY <1>1, MarketAssumption
<1>3. /\ all \in Seq(Decision) /\ Len(all) = Len(list) + 1 /\ all[1] = d
      /\ \A i \in 2..(Len(list) + 1) : all[i] = list[i - 1]
  <2>1. <<d>> \in Seq(Decision) /\ Len(<<d>>) = 1 /\ <<d>>[1] = d
    OBVIOUS
  <2> HIDE DEF Decision
  <2>2. /\ all \in Seq(Decision) /\ Len(all) = 1 + Len(list)
        /\ \A i \in 1..(1 + Len(list)) : all[i] = IF i <= 1 THEN <<d>>[i] ELSE list[i - 1]
    BY <2>1, ConcatProperties
  <2> HIDE DEF all
  <2> QED BY <1>1, <2>1, <2>2
<1>4. p = SubSeq(all, 1, n)
  BY DEF Prepend
<1> HIDE DEF all, n, Decision
<1>5. \A i \in 1..n : all[i] \in Decision
  BY <1>1, <1>2, <1>3, ElementOfSeq
<1>6. /\ p \in Seq(Decision) /\ Len(p) = n
      /\ \A i \in 1..n : p[i] = all[i]
  <2>1. 1 \in Int /\ n \in Int /\ n - 1 + 1 = n /\ 1 <= n
    BY <1>2
  <2>2. /\ SubSeq(all, 1, n) \in Seq(Decision)
        /\ Len(SubSeq(all, 1, n)) = IF 1 <= n THEN n - 1 + 1 ELSE 0
        /\ \A i \in 1..(n - 1 + 1) : SubSeq(all, 1, n)[i] = all[1 + i - 1]
    BY <1>5, <2>1, SubSeqProperties
  <2>3. \A i \in 1..n : 1 + i - 1 = i
    OBVIOUS
  <2> QED BY <1>4, <2>1, <2>2, <2>3
<1>7. DOMAIN p = 1..n
  BY <1>6, LenProperties
<1>8. ASSUME NEW i \in 1..n, i # 1
      PROVE  i - 1 \in DOMAIN list /\ p[i] = list[i - 1]
  BY <1>1, <1>2, <1>3, <1>6, <1>8
<1>9. p[1] = d
  BY <1>2, <1>3, <1>6
<1> QED BY <1>6, <1>7, <1>8, <1>9 DEF n

\* An orderly journal stays orderly with one more decision, which took a recent price.
LEMMA PrependOrderly ==
    ASSUME NEW next \in Nat, NEW list, Orderly(list, next), NEW d \in Decision, d.id = next,
           d.seen > d.since - (IF d.from = "quote" THEN QuoteTTL ELSE KlineTTL),
           NEW p, p = Prepend(d, list)
    PROVE  Orderly(p, next + 1)
<1>1. list \in Seq(Decision) /\ Len(list) <= Kept
  BY DEF Orderly
<1>2. /\ p \in Seq(Decision) /\ DOMAIN p = 1..Len(p)
      /\ Len(p) = IF Len(list) < Kept THEN Len(list) + 1 ELSE Kept
      /\ p[1] = d
      /\ \A i \in DOMAIN p : i = 1 \/ (i - 1 \in DOMAIN list /\ p[i] = list[i - 1])
  BY <1>1, PrependFields
<1>3. Len(p) \in Nat /\ DOMAIN p \subseteq Nat
  BY <1>2, LenProperties
<1>4. Len(list) \in Nat /\ Kept \in Nat
  BY <1>1, LenProperties, MarketAssumption
<1>5. \A i \in DOMAIN list : list[i] \in Decision
  BY <1>1, LenProperties, ElementOfSeq
<1>6. \A i \in DOMAIN p : p[i].id < next + 1
  <2>1. \A i \in DOMAIN list : list[i].id \in Nat /\ list[i].id < next
    BY <1>5 DEF Orderly, Decision
  <2> QED BY <1>2, <2>1
<1>7. ASSUME NEW i \in DOMAIN p, NEW j \in DOMAIN p, i < j
      PROVE  p[i].id > p[j].id
  <2>1. j # 1 /\ i \in Nat /\ j \in Nat
    BY <1>2, <1>3, <1>7
  <2>2. CASE i = 1
    BY <1>2, <1>5, <2>1, <2>2 DEF Orderly, Decision
  <2>3. CASE i # 1
    BY <1>2, <1>5, <1>7, <2>1, <2>3 DEF Orderly
  <2> QED BY <2>2, <2>3
<1>8. \A i \in DOMAIN p : p[i].seen > p[i].since - (IF p[i].from = "quote" THEN QuoteTTL ELSE KlineTTL)
  BY <1>2 DEF Orderly
<1>9. Len(p) <= Kept
  BY <1>2, <1>4
<1> QED BY <1>2, <1>6, <1>7, <1>8, <1>9 DEF Orderly

\* What a journal covers, it still covers with one more decision, and that one as well.
LEMMA PrependCovers ==
    ASSUME NEW next \in Nat, NEW list, Orderly(list, next), NEW d \in Decision, d.id = next,
           NEW p, p = Prepend(d, list), NEW id \in Nat, (id < next /\ Covers(list, id)) \/ id = next
    PROVE  Covers(p, id)
<1>1. list \in Seq(Decision) /\ Len(list) <= Kept
  BY DEF Orderly
<1>2. Kept \in Nat \ {0}
  BY MarketAssumption
<1>3. /\ DOMAIN p = 1..Len(p)
      /\ Len(p) = IF Len(list) < Kept THEN Len(list) + 1 ELSE Kept
      /\ p[1] = d
      /\ \A i \in DOMAIN p : i = 1 \/ (i - 1 \in DOMAIN list /\ p[i] = list[i - 1])
  BY <1>1, PrependFields
<1>4. Len(list) \in Nat /\ DOMAIN list = 1..Len(list) /\ 1 \in DOMAIN p
  BY <1>1, <1>2, <1>3, LenProperties
<1>5. CASE id = next
  BY <1>3, <1>4, <1>5 DEF Covers
<1>6. ASSUME id < next, NEW i \in DOMAIN list, list[i].id = id
      PROVE  Covers(p, id)
  <2>1. CASE i + 1 \in DOMAIN p
    BY <1>3, <1>4, <1>6, <2>1 DEF Covers
  <2>2. CASE i + 1 \notin DOMAIN p
    <3>1. Len(p) = Kept /\ i = Kept
      BY <1>1, <1>2, <1>3, <1>4, <2>2
    <3>2. ASSUME NEW j \in 1..Kept PROVE p[j].id > id
      <4>1. CASE j = 1
        BY <1>3, <1>6, <4>1
      <4>2. CASE j # 1
        <5>1. j - 1 \in DOMAIN list /\ p[j] = list[j - 1] /\ j - 1 < i
          BY <1>2, <1>3, <3>1, <4>2
        <5> QED BY <1>6, <5>1 DEF Orderly
      <4> QED BY <4>1, <4>2
    <3> QED BY <3>1, <3>2 DEF Covers
  <2> QED BY <2>1, <2>2
<1>7. ASSUME id < next, Len(list) = Kept, \A i \in 1..Kept : list[i].id > id
      PROVE  Covers(p, id)
  <2>1. Len(p) = Kept
    BY <1>2, <1>3, <1>7
  <2>2. \A j \in 1..Kept : p[j].id > id
    BY <1>3, <1>4, <1>7, <2>1
  <2> QED BY <2>1, <2>2 DEF Covers
<1> QED BY <1>5, <1>6, <1>7 DEF Covers

----------------------------------------------------------------------------
(* The steps of the calls *)

\* One call goes on, soundly; the others are where they were.
LEMMA CallStep ==
    ASSUME CallsInv, NEW c \in Callers, NEW y, Goto(c, y), Sound(y, clock), clock' = clock
    PROVE  CallsInv'
<1>1. y \in Calls
  BY DEF Sound
<1>2. /\ task' \in [Callers -> Calls]
      /\ \A d \in Callers : task'[d] = IF d = c THEN y ELSE task[d]
  BY <1>1 DEF CallsInv, Goto
<1>3. \A d \in Callers : Sound(task'[d], clock)
  BY <1>2 DEF CallsInv
<1> QED BY <1>2, <1>3 DEF CallsInv

\* What is sound stays sound as time passes.
LEMMA SoundLater ==
    ASSUME NEW time \in Nat, NEW later \in Nat, time <= later, NEW t, Sound(t, time)
    PROVE  Sound(t, later)
<1>1. t \in Calls /\ t.began \in Nat /\ t.now \in Nat
  BY DEF Sound, Calls
<1>2. UnderWay(t, time) => UnderWay(t, later)
  BY <1>1 DEF UnderWay
<1> QED BY <1>2 DEF Sound

\* The forms in which a call begins, asks, has an answer and ends.
Begun(op, symbols, line, at) ==
    [Idle EXCEPT !.pc = "look", !.op = op, !.symbols = symbols, !.line = line, !.began = at]
Asking(t, at)    == [t EXCEPT !.pc = "ask", !.now = at]
Keeping(t, data) == [t EXCEPT !.pc = "keep", !.data = data]
Ending(t, ok)    == [Idle EXCEPT !.op = t.op, !.failed = ~ok]

\* A call that begins shows nothing yet.
LEMMA BegunCall ==
    ASSUME NEW op \in {"dashboard", "quote", "analyze"}, NEW symbols \in SUBSET Symbols,
           NEW line \in Lines, NEW at \in Nat, NEW y, y = Begun(op, symbols, line, at)
    PROVE  /\ y \in Calls /\ y.pc = "look" /\ y.op = op /\ y.symbols = symbols /\ y.line = line
           /\ y.began = at /\ y.shown = Empty
<1>1. y = [pc |-> "look", op |-> op, symbols |-> symbols, line |-> line, began |-> at, now |-> 0,
           since |-> 0, data |-> Empty, shown |-> Empty, failed |-> FALSE]
  BY DEF Begun, Idle
<1> QED BY <1>1, EmptyData DEF Calls

\* A call that asks the provider notes the time.
LEMMA AskingCall ==
    ASSUME NEW t \in Calls, NEW at \in Nat, NEW y, y = Asking(t, at)
    PROVE  /\ y \in Calls /\ y.pc = "ask" /\ y.now = at
           /\ y.op = t.op /\ y.symbols = t.symbols /\ y.line = t.line /\ y.began = t.began
           /\ y.since = t.since /\ y.shown = t.shown /\ y.failed = t.failed
<1>1. y \in Calls
  BY DEF Asking, Calls
<1> QED BY <1>1 DEF Asking, Calls

\* The answer is kept until it is in the cache.
LEMMA KeepingCall ==
    ASSUME NEW t \in Calls, NEW data \in Data(Lines), NEW y, y = Keeping(t, data)
    PROVE  /\ y \in Calls /\ y.pc = "keep" /\ y.data = data
           /\ y.op = t.op /\ y.symbols = t.symbols /\ y.line = t.line /\ y.began = t.began
           /\ y.now = t.now
           /\ y.since = t.since /\ y.shown = t.shown /\ y.failed = t.failed
<1>1. y \in Calls
  BY DEF Keeping, Calls
<1> QED BY <1>1 DEF Keeping, Calls

\* An analysis ends with nothing to show.
LEMMA EndingCall ==
    ASSUME NEW t, t.op = "analyze", NEW ok \in BOOLEAN, NEW y, y = Ending(t, ok)
    PROVE  y \in Calls /\ y.pc = "done" /\ y.op = "analyze"
<1>1. y = [pc |-> "done", op |-> "analyze", symbols |-> {}, line |-> "quotes", began |-> 0, now |-> 0,
           since |-> 0, data |-> Empty, shown |-> Empty, failed |-> ~ok]
  BY DEF Ending, Idle
<1> QED BY <1>1, EmptyData DEF Calls, Lines

\* What is asked for belongs to the line.
LEMMA WantedThings ==
    ASSUME NEW t \in Calls
    PROVE  Wanted(t) \subseteq Things(t.line) /\ Things(t.line) \subseteq Lines /\ t.line \in Lines
BY DEF Calls, Wanted, Things, Lines

\* A call begins with its first line and nothing to show.
LEMMA BeginInv ==
    ASSUME IInv, NEW c \in Callers, Call(c)
    PROVE  IInv'
<1>1. PICK op \in {"dashboard", "quote", "analyze"}, symbols \in SUBSET Symbols, line \in Lines :
          /\ Begin(c, op, symbols, line)
          /\ \/ op = "dashboard" /\ line = "quotes"
             \/ op = "quote" /\ line = "quotes"
             \/ op = "analyze" /\ \E s \in Symbols : symbols = {s} /\ line = s
  <2>1. "quotes" \in Lines /\ \A s \in Symbols : s \in Lines /\ {s} \in SUBSET Symbols
    BY DEF Lines
  <2> QED BY <2>1 DEF Call
<1> DEFINE y == Begun(op, symbols, line, clock)
<1>2. /\ Goto(c, y) /\ calls' = calls + 1
      /\ UNCHANGED <<caches, journal, saved, clock, recorded, told>>
  BY <1>1 DEF Begin, Counted, Begun
<1>3. clock \in Nat /\ calls \in Nat
  BY DEF IInv, Counters
<1>4. /\ y \in Calls /\ y.pc = "look" /\ y.op = op /\ y.symbols = symbols /\ y.line = line
      /\ y.began = clock /\ y.shown = Empty
  BY <1>3, BegunCall
<1> HIDE DEF y
<1>5. Fresh(y)
  BY <1>4, EmptyData DEF Fresh
<1>6. "quotes" \notin Symbols
  BY MarketAssumption
<1>7. UnderWay(y, clock)
  BY <1>1, <1>3, <1>4, <1>6 DEF UnderWay, Shape
<1>8. CallsInv'
  BY <1>2, <1>4, <1>5, <1>7, CallStep DEF IInv, Sound
<1> QED BY <1>2, <1>3, <1>8 DEF IInv, CachesInv, Stamped, JournalInv, Counters

\* A line that can be used is no older than its time to live.
LEMMA LookInv ==
    ASSUME IInv, NEW c \in Callers, Look(c)
    PROVE  IInv'
<1> DEFINE t == task[c]
<1>1. /\ t.pc = "look" /\ t \in Calls /\ Sound(t, clock) /\ clock \in Nat
      /\ UNCHANGED <<caches, journal, saved, clock, calls, recorded, told>>
      /\ Goto(c, IF Wanted(t) = {} THEN Received(t, Empty, FALSE, clock)
                 ELSE IF Ready(t)
                 THEN Received(t, [x \in Wanted(t) |-> caches[t.line].kept[x]], FALSE, clock)
                 ELSE Asking(t, clock))
  BY DEF Look, IInv, CallsInv, Counters, Asking
<1> HIDE DEF t
<1>2. UnderWay(t, clock) /\ t.began <= clock
  BY <1>1 DEF Sound, UnderWay
<1>3. CASE Wanted(t) = {}
  <2>1. GoodRead(t, Empty, FALSE, clock)
    BY <1>1, <1>2, <1>3, EmptyData DEF GoodRead, Since
  <2>2. Sound(Received(t, Empty, FALSE, clock), clock)
    BY <1>1, <2>1, ReadStep
  <2>3. CallsInv'
    BY <1>1, <1>3, <2>2, CallStep DEF IInv
  <2> QED BY <1>1, <2>3 DEF IInv, CachesInv, Stamped, JournalInv, Counters
<1>4. CASE Wanted(t) # {} /\ Ready(t)
  <2> DEFINE kept == caches[t.line].kept
             data == [x \in Wanted(t) |-> kept[x]]
  <2>1. /\ t.line \in Lines /\ Wanted(t) \subseteq Things(t.line) /\ Wanted(t) \subseteq DOMAIN kept
        /\ caches[t.line].at \in Nat /\ kept \in Data(Lines)
        /\ clock - caches[t.line].at < TTL(t.line)
        /\ \A x \in DOMAIN kept : kept[x].seen >= caches[t.line].at
    BY <1>1, <1>4, WantedThings DEF IInv, CachesInv, Stamped, Ready
  <2>2. \A x \in DOMAIN kept : kept[x] \in Datum /\ kept[x].seen \in Nat
    BY <2>1, DataFields DEF Datum
  <2>3. DOMAIN data = Wanted(t) /\ \A x \in Wanted(t) : data[x] = kept[x]
    OBVIOUS
  <2>4. data \in [Wanted(t) -> Datum]
    BY <2>1, <2>2
  <2>5. data \in Data(Things(t.line))
    BY <2>1, <2>4, DataOf
  <2>6. TTL(t.line) \in Nat
    BY MarketAssumption DEF TTL
  <2>7. Goto(c, Received(t, data, FALSE, clock))
    BY <1>1, <1>4
  <2> HIDE DEF data, kept
  <2>8. Since(data, clock - TTL(t.line))
    BY <1>1, <2>1, <2>2, <2>3, <2>6 DEF Since
  <2>9. GoodRead(t, data, FALSE, clock)
    BY <1>1, <1>2, <2>3, <2>5, <2>8 DEF GoodRead
  <2>10. Sound(Received(t, data, FALSE, clock), clock)
    BY <1>1, <2>9, ReadStep
  <2>11. CallsInv'
    BY <1>1, <2>7, <2>10, CallStep DEF IInv
  <2> QED BY <1>1, <2>11 DEF IInv, CachesInv, Stamped, JournalInv, Counters
<1>5. CASE Wanted(t) # {} /\ ~Ready(t)
  <2> DEFINE y == Asking(t, clock)
  <2>1. /\ y \in Calls /\ y.pc = "ask" /\ y.now = clock
        /\ y.op = t.op /\ y.symbols = t.symbols /\ y.line = t.line /\ y.began = t.began
        /\ y.since = t.since /\ y.shown = t.shown /\ y.failed = t.failed
    BY <1>1, AskingCall
  <2>2. Goto(c, y)
    BY <1>1, <1>5
  <2> HIDE DEF y
  <2>3. Fresh(t) => Fresh(y)
    BY <2>1 DEF Fresh
  <2>4. UnderWay(y, clock)
    BY <1>1, <1>2, <2>1 DEF UnderWay, Shape
  <2>5. CallsInv'
    BY <1>1, <2>1, <2>2, <2>3, <2>4, CallStep DEF IInv, Sound
  <2> QED BY <1>1, <2>5 DEF IInv, CachesInv, Stamped, JournalInv, Counters
<1> QED BY <1>3, <1>4, <1>5

\* What the provider answers was seen after it was asked.
LEMMA AskInv ==
    ASSUME IInv, NEW c \in Callers, Ask(c)
    PROVE  IInv'
<1> DEFINE t == task[c]
<1>1. /\ t.pc = "ask" /\ t \in Calls /\ Sound(t, clock) /\ clock \in Nat
      /\ UNCHANGED <<caches, journal, saved, clock, calls, recorded, told>>
      /\ \E data \in [Wanted(t) -> Answers(t.line)] : Goto(c, Keeping(t, data))
  BY DEF Ask, IInv, CallsInv, Counters, Keeping
<1> HIDE DEF t
<1>2. PICK data \in [Wanted(t) -> Answers(t.line)] : Goto(c, Keeping(t, data))
  BY <1>1
<1>3. \A d \in Answers(t.line) : d \in Datum /\ d.seen = clock
  <2> SUFFICES ASSUME NEW d \in Answers(t.line) PROVE d \in Datum /\ d.seen = clock
    OBVIOUS
  <2>1. PICK p \in BOOLEAN : d = [seen |-> clock, priced |-> p, stale |-> ~p]
    BY DEF Answers
  <2> QED BY <1>1, <2>1 DEF Datum
<1>4. /\ data \in [Wanted(t) -> Datum] /\ DOMAIN data = Wanted(t)
      /\ \A x \in DOMAIN data : data[x].seen = clock
  BY <1>3
<1>5. data \in Data(Lines)
  <2>1. Wanted(t) \in SUBSET Lines
    BY <1>1, WantedThings
  <2> QED BY <1>4, <2>1, DataOf
<1> DEFINE y == Keeping(t, data)
<1>6. /\ y \in Calls /\ y.pc = "keep" /\ y.data = data /\ y.now = t.now
      /\ y.op = t.op /\ y.symbols = t.symbols /\ y.line = t.line /\ y.began = t.began
      /\ y.since = t.since /\ y.shown = t.shown /\ y.failed = t.failed
  BY <1>1, <1>5, KeepingCall
<1>7. Goto(c, y)
  BY <1>2
<1> HIDE DEF y
<1>8. Fresh(t) => Fresh(y)
  BY <1>6 DEF Fresh
<1>9. UnderWay(t, clock) /\ t.now \in Nat
  BY <1>1 DEF Sound, Calls
<1>10. UnderWay(y, clock)
  BY <1>1, <1>4, <1>6, <1>9 DEF UnderWay, Shape, Wanted
<1>11. CallsInv'
  BY <1>1, <1>6, <1>7, <1>8, <1>10, CallStep DEF IInv, Sound
<1> QED BY <1>1, <1>11 DEF IInv, CachesInv, Stamped, JournalInv, Counters

\* The stamp of a line is the time before the provider was asked.
LEMMA KeepInv ==
    ASSUME IInv, NEW c \in Callers, Keep(c)
    PROVE  IInv'
<1> DEFINE t == task[c]
<1>1. /\ t.pc = "keep" /\ t \in Calls /\ Sound(t, clock) /\ clock \in Nat
      /\ caches' = [caches EXCEPT ![t.line] = [at |-> t.now, kept |-> t.data]]
      /\ UNCHANGED <<journal, saved, clock, calls, recorded, told>>
      /\ Goto(c, Received(t, t.data, FALSE, t.now))
  BY DEF Keep, IInv, CallsInv, Counters
<1> HIDE DEF t
<1>2. /\ t.line \in Lines /\ t.now \in Nat /\ t.data \in Data(Lines)
      /\ DOMAIN t.data = Wanted(t) /\ Wanted(t) \subseteq Things(t.line)
      /\ t.began <= t.now /\ \A x \in DOMAIN t.data : t.data[x].seen >= t.now
  BY <1>1, WantedThings DEF Sound, UnderWay, Calls
<1>3. TTL(t.line) \in Nat \ {0}
  BY MarketAssumption DEF TTL
<1>4. GoodRead(t, t.data, FALSE, t.now)
  <2>1. \A x \in DOMAIN t.data : t.data[x].seen \in Nat
    BY <1>2, DataFields DEF Datum
  <2>2. Since(t.data, t.now - TTL(t.line))
    BY <1>2, <1>3, <2>1 DEF Since
  <2>3. t.data \in Data(Things(t.line))
    <3>1. t.data \in [DOMAIN t.data -> Datum] /\ DOMAIN t.data \in SUBSET Things(t.line)
      BY <1>2, DataFields
    <3> QED BY <3>1, DataOf
  <2> QED BY <1>2, <2>2, <2>3 DEF GoodRead
<1>5. CallsInv'
  <2>1. Sound(Received(t, t.data, FALSE, t.now), clock)
    BY <1>1, <1>4, ReadStep
  <2> QED BY <1>1, <2>1, CallStep DEF IInv
<1>6. CachesInv'
  <2> DEFINE new == [at |-> t.now, kept |-> t.data]
  <2>1. new \in [at : Nat, kept : Data(Lines)] /\ new.at = t.now /\ new.kept = t.data
    BY <1>2
  <2>2. caches' = [caches EXCEPT ![t.line] = new]
    BY <1>1
  <2> HIDE DEF new
  <2>3. /\ caches' \in [Lines -> [at : Nat, kept : Data(Lines)]]
        /\ \A line \in Lines : caches'[line] = IF line = t.line THEN new ELSE caches[line]
    BY <1>2, <2>1, <2>2 DEF IInv, CachesInv
  <2> QED BY <1>2, <2>1, <2>3 DEF IInv, CachesInv, Stamped
<1> QED BY <1>1, <1>5, <1>6 DEF IInv, JournalInv, Counters

\* What is left when the provider fails: nothing, or old answers, of which the quotes say that they
\* are stale.
LEMMA FallbackRead ==
    ASSUME CachesInv, NEW t \in Calls, t.began <= t.now
    PROVE  GoodRead(t, Fallback(t), TRUE, t.now)
<1> DEFINE kept == caches[t.line].kept
           old  == OldCopy(t)
<1>1. t.line \in Lines /\ Wanted(t) \in SUBSET Things(t.line) /\ t.now \in Nat
  BY WantedThings DEF Calls
<1>2. old \in [Wanted(t) -> Datum]
  <2>1. Blank \in Datum
    BY DEF Blank, Datum
  <2>2. \A x \in DOMAIN kept : kept[x] \in Datum
    BY <1>1, DataFields DEF CachesInv
  <2>3. \A x \in Wanted(t) : (IF x \in DOMAIN kept THEN kept[x] ELSE Blank) \in Datum
    BY <2>1, <2>2
  <2> QED BY <2>3 DEF OldCopy
<1> HIDE DEF old
<1>3. CASE t.line \in Symbols \/ DOMAIN kept = {}
  <2>1. Fallback(t) = Empty
    BY <1>3 DEF Fallback
  <2> QED BY <1>1, <2>1, EmptyData DEF GoodRead
<1>4. CASE ~(t.line \in Symbols \/ DOMAIN kept = {})
  <2> DEFINE data == [x \in Wanted(t) |-> [old[x] EXCEPT !.stale = old[x].stale \/ t.line = "quotes"]]
  <2>1. Fallback(t) = data
    BY <1>4 DEF Fallback, old
  <2>2. ASSUME NEW x \in Wanted(t)
        PROVE  data[x] \in Datum /\ (t.line = "quotes" => data[x].stale)
    <3>1. old[x] \in Datum
      BY <1>2, <2>2
    <3> QED BY <3>1 DEF Datum
  <2>3. data \in [Wanted(t) -> Datum] /\ DOMAIN data = Wanted(t)
    BY <2>2
  <2> HIDE DEF data
  <2>4. data \in Data(Things(t.line))
    BY <1>1, <2>3, DataOf
  <2> QED BY <1>1, <2>1, <2>2, <2>3, <2>4 DEF GoodRead
<1> QED BY <1>3, <1>4

\* The provider fails.
LEMMA FailInv ==
    ASSUME IInv, NEW c \in Callers, AskFails(c)
    PROVE  IInv'
<1> DEFINE t == task[c]
<1>1. /\ t.pc = "ask" /\ t \in Calls /\ Sound(t, clock) /\ clock \in Nat
      /\ UNCHANGED <<caches, journal, saved, clock, calls, recorded, told>>
      /\ Goto(c, Received(t, Fallback(t), TRUE, t.now))
  BY DEF AskFails, IInv, CallsInv, Counters
<1> HIDE DEF t
<1>2. GoodRead(t, Fallback(t), TRUE, t.now)
  BY <1>1, FallbackRead DEF IInv, Sound, UnderWay
<1>3. Sound(Received(t, Fallback(t), TRUE, t.now), clock)
  BY <1>1, <1>2, ReadStep
<1>4. CallsInv'
  BY <1>1, <1>3, CallStep DEF IInv
<1> QED BY <1>1, <1>4 DEF IInv, CachesInv, Stamped, JournalInv, Counters

\* An analysis is recorded with the price it took.
LEMMA RecordInv ==
    ASSUME IInv, NEW c \in Callers, NEW ok \in BOOLEAN, Record(c, ok)
    PROVE  IInv'
<1> DEFINE t == task[c]
           s == CHOOSE x \in t.symbols : TRUE
           d == [id |-> recorded, symbol |-> s, since |-> t.began,
                 seen |-> (IF Priced(t) THEN t.data ELSE t.shown)[s].seen,
                 from |-> IF Priced(t) THEN "quote" ELSE "bars"]
<1>1. /\ t.pc = "record" /\ t \in Calls /\ Sound(t, clock) /\ clock \in Nat /\ recorded \in Nat
      /\ recorded' = recorded + 1
      /\ journal' = Prepend(d, journal)
      /\ saved' = IF ok THEN journal' ELSE saved
      /\ told' = IF ok THEN told \cup {recorded} ELSE told
      /\ Goto(c, Ending(t, ok))
      /\ UNCHANGED <<caches, clock, calls>>
  BY DEF Record, IInv, CallsInv, Counters, Ending
<1> HIDE DEF t
<1>2. /\ t.op = "analyze" /\ t.line = "quotes" /\ t.began \in Nat
      /\ t.data \in Data(Lines) /\ t.shown \in Data(Symbols)
      /\ DOMAIN t.shown = t.symbols /\ Since(t.shown, t.began - KlineTTL)
      /\ DOMAIN t.data \in {{}, t.symbols} /\ Since(t.data, t.began - QuoteTTL)
  BY <1>1 DEF Sound, UnderWay, Shape, Calls
<1>3. s \in t.symbols /\ s \in Symbols
  BY <1>1, <1>2 DEF Sound, UnderWay, Shape
<1> HIDE DEF s
<1>4. d \in Decision /\ d.id = recorded
      /\ d.seen > d.since - (IF d.from = "quote" THEN QuoteTTL ELSE KlineTTL)
  <2>1. CASE Priced(t)
    <3>1. s \in DOMAIN t.data
      BY <1>2, <1>3, <2>1 DEF Priced, Usable
    <3>2. t.data[s].seen \in Nat /\ t.data[s].seen > t.began - QuoteTTL
      BY <1>2, <3>1, DataFields DEF Datum, Since
    <3>3. d = [id |-> recorded, symbol |-> s, since |-> t.began, seen |-> t.data[s].seen,
               from |-> "quote"]
      BY <2>1
    <3> HIDE DEF d
    <3> QED BY <1>1, <1>2, <1>3, <3>2, <3>3 DEF Decision
  <2>2. CASE ~Priced(t)
    <3>1. t.shown[s].seen \in Nat /\ t.shown[s].seen > t.began - KlineTTL
      BY <1>2, <1>3, DataFields DEF Datum, Since
    <3>2. d = [id |-> recorded, symbol |-> s, since |-> t.began, seen |-> t.shown[s].seen,
               from |-> "bars"]
      BY <2>2
    <3> HIDE DEF d
    <3> QED BY <1>1, <1>2, <1>3, <3>1, <3>2 DEF Decision
  <2> QED BY <2>1, <2>2
<1> HIDE DEF d
<1>5. Orderly(journal', recorded + 1)
  BY <1>1, <1>4, PrependOrderly DEF IInv, JournalInv
<1>6. Orderly(saved, recorded + 1)
  <2>1. Orderly(saved, recorded)
    BY DEF IInv, JournalInv
  <2>2. \A i \in DOMAIN saved : saved[i].id \in Nat
    <3>1. saved \in Seq(Decision)
      BY <2>1 DEF Orderly
    <3>2. \A i \in DOMAIN saved : saved[i] \in Decision
      BY <3>1, LenProperties, ElementOfSeq
    <3> QED BY <3>2 DEF Decision
  <2> QED BY <1>1, <2>1, <2>2 DEF Orderly
<1>7. \A id \in told : id \in Nat /\ id < recorded /\ Covers(journal, id) /\ Covers(saved, id)
  BY DEF IInv, JournalInv
<1>8. \A id \in told \cup {recorded} : Covers(journal', id)
  BY <1>1, <1>4, <1>7, PrependCovers DEF IInv, JournalInv
<1>9. JournalInv'
  <2>1. told' \subseteq Nat /\ \A id \in told' : id < recorded'
    BY <1>1, <1>7
  <2>2. \A id \in told' : Covers(journal', id) /\ Covers(saved', id)
    BY <1>1, <1>7, <1>8
  <2>3. Orderly(journal', recorded') /\ Orderly(saved', recorded')
    BY <1>1, <1>5, <1>6
  <2> QED BY <2>1, <2>2, <2>3 DEF JournalInv
<1>10. CallsInv'
  <2>1. Ending(t, ok) \in Calls /\ Ending(t, ok).pc = "done" /\ Ending(t, ok).op = "analyze"
    BY <1>2, EndingCall
  <2> QED BY <1>1, <2>1, CallStep DEF IInv, Sound
<1> QED BY <1>1, <1>9, <1>10 DEF IInv, CachesInv, Stamped, Counters

----------------------------------------------------------------------------
(* The theorems *)

\* Before the first call.
LEMMA InitInv == Init => IInv
<1> SUFFICES ASSUME Init PROVE IInv
  OBVIOUS
<1>1. Empty \in Data(Lines) /\ Empty \in Data(Symbols) /\ DOMAIN Empty = {}
  BY EmptyData
<1>2. CachesInv
  BY <1>1 DEF Init, CachesInv, Stamped
<1>3. Idle \in Calls /\ Idle.pc = "done" /\ Idle.op = "none"
  BY <1>1 DEF Idle, Calls, Lines
<1>4. CallsInv
  BY <1>3 DEF Init, CallsInv, Sound
<1>5. JournalInv
  BY EmptySeq, MarketAssumption DEF Init, JournalInv, Orderly
<1> QED BY <1>2, <1>4, <1>5 DEF Init, IInv, Counters

\* The store is saved, time passes, or the process starts again from the file.
LEMMA OthersInv ==
    ASSUME IInv, Flush \/ Tick \/ Restart
    PROVE  IInv'
<1>1. CASE Flush
  BY <1>1 DEF Flush, IInv, CachesInv, Stamped, CallsInv, JournalInv, Counters
<1>2. CASE Tick
  <2>1. clock \in Nat /\ clock' = clock + 1 /\ UNCHANGED <<caches, journal, saved, task, calls, recorded, told>>
    BY <1>2 DEF Tick, IInv, Counters
  <2>2. \A c \in Callers : Sound(task[c], clock + 1)
    BY <2>1, SoundLater DEF IInv, CallsInv
  <2>3. CallsInv'
    BY <2>1, <2>2 DEF IInv, CallsInv
  <2> QED BY <2>1, <2>3 DEF IInv, CachesInv, Stamped, JournalInv, Counters
<1>3. CASE Restart
  <2>1. Empty \in Data(Lines) /\ Empty \in Data(Symbols) /\ DOMAIN Empty = {}
    BY EmptyData
  <2>2. CachesInv'
    BY <1>3, <2>1 DEF Restart, CachesInv, Stamped
  <2>3. Idle \in Calls /\ Idle.pc = "done" /\ Idle.op = "none"
    BY <2>1 DEF Idle, Calls, Lines
  <2>4. CallsInv'
    BY <1>3, <2>3 DEF Restart, CallsInv, Sound
  <2>5. JournalInv'
    BY <1>3 DEF Restart, IInv, JournalInv
  <2> QED BY <1>3, <2>2, <2>4, <2>5 DEF Restart, IInv, Counters
<1> QED BY <1>1, <1>2, <1>3

\* No step leaves the invariant.
LEMMA NextInv == IInv /\ [Next]_vars => IInv'
<1> SUFFICES ASSUME IInv, [Next]_vars PROVE IInv'
  OBVIOUS
<1>1. ASSUME NEW c \in Callers, Step(c) \/ Call(c) PROVE IInv'
  BY <1>1, BeginInv, LookInv, AskInv, FailInv, KeepInv, RecordInv DEF Step
<1>2. CASE Flush \/ Tick \/ Restart
  BY <1>2, OthersInv
<1>3. CASE UNCHANGED vars
  BY <1>3 DEF vars, IInv, CachesInv, Stamped, CallsInv, JournalInv, Counters
<1> QED BY <1>1, <1>2, <1>3 DEF Next

\* The invariant holds in every state.
LEMMA Invariant == Spec => []IInv
BY InitInv, NextInv, PTL DEF Spec

\* Caches, journals and what each call has collected are of their types.
THEOREM TypeCorrect == Spec => []TypeOK
<1>1. IInv => TypeOK
  <2> SUFFICES ASSUME IInv PROVE TypeOK
    OBVIOUS
  <2>1. \A line \in Lines : /\ caches[line].at \in Nat
                            /\ IsData(caches[line].kept, IF line = "quotes" THEN Symbols ELSE {line})
    BY DataFields DEF IInv, CachesInv, Things, IsData
  <2>2. ASSUME NEW c \in Callers, NEW t, t = task[c]
        PROVE  /\ t.pc \in {"look", "ask", "keep", "record", "done"}
               /\ t.op \in {"none", "dashboard", "quote", "analyze"}
               /\ t.symbols \subseteq Symbols /\ t.line \in Lines
               /\ {t.began, t.now, t.since} \subseteq Nat /\ t.failed \in BOOLEAN
               /\ IsData(t.data, Lines) /\ IsData(t.shown, Symbols)
    <3>1. t \in Calls
      BY <2>2 DEF IInv, CallsInv
    <3>2. IsData(t.data, Lines) /\ IsData(t.shown, Symbols)
      BY <3>1, DataFields DEF Calls, IsData
    <3> QED BY <3>1, <3>2 DEF Calls
  <2> QED BY <2>1, <2>2 DEF TypeOK, IInv, CachesInv, JournalInv, Orderly, Counters
<1> QED BY <1>1, Invariant, PTL

\* However slow or broken the provider is and whichever call filled a cache, a price that is shown was
\* seen less than QuoteTTL before it was asked for, or says that it is stale.
THEOREM FreshAnswers == Spec => []AnswersAreFresh
<1>1. IInv => AnswersAreFresh
  BY DEF IInv, CachesInv, CallsInv, Sound, Fresh, Stamped, AnswersAreFresh
<1> QED BY <1>1, Invariant, PTL

\* No analysis in the journal took a price older than its source may be.
THEOREM RecentAnalyses == Spec => []AnalysesAreRecent
<1>1. IInv => AnalysesAreRecent
  BY DEF IInv, JournalInv, Orderly, AnalysesAreRecent
<1> QED BY <1>1, Invariant, PTL

\* A confirmed analysis is in the file, or Kept newer ones are: no failed save and no restart loses it.
THEOREM ConfirmedStays == Spec => []ConfirmedIsSaved
<1>1. IInv => ConfirmedIsSaved
  BY DEF IInv, JournalInv, Covers, ConfirmedIsSaved
<1> QED BY <1>1, Invariant, PTL

=============================================================================
