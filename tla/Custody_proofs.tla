--------------------------- MODULE Custody_proofs ---------------------------
(***************************************************************************)
(* Theorems about Custody, for any stocks, administrators and traders, any *)
(* settings they submit and any clock.                                     *)
(***************************************************************************)
EXTENDS Custody, FiniteSetTheorems, SequenceTheorems, TLAPS

----------------------------------------------------------------------------
(* The inductive invariant *)

\* What a run takes for an order of the day, and what an order that came to nothing is.
Counted == {"PENDING", "FILLED"}
Undone  == {"CANCELED", "REJECTED"}

\* The gateway reports nothing of an order that hasOrderToday does not know how to read.
ReadableStatuses == GatewayStatuses \subseteq Counted \cup Undone

Distinct(list) == \A i, j \in DOMAIN list : i # j => list[i] # list[j]

\* What OncePerDay says of a list of orders.
Once(list) ==
    \A i, j \in DOMAIN list :
        (/\ i < j /\ list[i].custody /\ list[j].custody
         /\ list[i].symbol = list[j].symbol /\ list[i].side = list[j].side
         /\ Day(list[i].at) = Day(list[j].at)
         /\ list[i].status \notin Undone /\ list[j].status \notin Undone) => j - i > Window

\* A book at some time: the statuses are readable, nothing is from the future.
GoodBook(list, time) == /\ Once(list)
                        /\ \A i \in DOMAIN list : /\ list[i].status \in Counted \cup Undone
                                                  /\ list[i].at <= time

\* Orders of the runs that began at a time or before it.
CustodyBefore(list, n, time) == \A i \in DOMAIN list : i <= n /\ list[i].custody => list[i].at <= time

\* What a run has read are the latest of the first n orders, as they were: one that counts by now
\* counted then.  Of the stocks it still has to look at it has placed no order since.
HasRead(t, list, n) ==
    /\ n \in 0..Len(list)
    /\ Len(t.seen) = IF n > Window THEN Window ELSE n
    /\ \A k \in DOMAIN t.seen : LET i == n - Len(t.seen) + k IN
          /\ t.seen[k].symbol = list[i].symbol /\ t.seen[k].side = list[i].side
          /\ t.seen[k].at = list[i].at
          /\ list[i].status \in Counted => t.seen[k].status \in Counted
    /\ CustodyBefore(list, n, t.at)
    /\ \A i \in DOMAIN list, k \in DOMAIN t.todo : i > n /\ list[i].custody => list[i].symbol # t.todo[k]

SoundRun(t, list, time) ==
    /\ t.pc = "read"   => /\ Distinct(t.settings.symbols) /\ t.at <= time
                          /\ CustodyBefore(list, Len(list), t.at)
    /\ t.pc = "stocks" => /\ Distinct(t.todo) /\ t.at <= time
                          /\ \E n \in Nat : HasRead(t, list, n)

SettingsInv == /\ Distinct(custody.symbols) /\ Distinct(file.custody.symbols)
               /\ \A a \in Admins : update[a].pc = "write" => Distinct(update[a].new.symbols)
BooksInv    == GoodBook(book, now) /\ GoodBook(file.book, now)
RunsInv     == \A r \in Runners : /\ run[r].pc \in {"read", "stocks"} => lock = r
                                  /\ SoundRun(run[r], book, now)

IInv == TypeOK /\ (live => ReadableStatuses) /\ SettingsInv /\ BooksInv /\ RunsInv

----------------------------------------------------------------------------
(* Lists of stocks and of orders *)

\* The stocks of the settings: every well-formed code of the request, each of them once.
LEMMA NormalizedOnce ==
    ASSUME NEW names, NEW len \in Nat, DOMAIN names = 1..len
    PROVE  /\ NormalizeSymbols(names) \in Seq(Symbols)
           /\ Distinct(NormalizeSymbols(names))
<1> DEFINE first == {i \in DOMAIN names : names[i] \in Symbols /\ \A j \in 1..(i - 1) : names[j] # names[i]}
           upto(i) == {j \in first : j <= i}
           nth(k)  == CHOOSE i \in first : Cardinality({j \in first : j <= i}) = k
           c       == Cardinality(first)
           rank    == [i \in first |-> Cardinality(upto(i))]
<1>0. first \subseteq 1..len
  OBVIOUS
<1>1. IsFiniteSet(first) /\ c \in Nat
  <2> HIDE DEF first
  <2>1. IsFiniteSet(1..len) /\ first \in SUBSET (1..len)
    BY <1>0, FS_Interval
  <2>2. IsFiniteSet(first)
    BY <2>1, FS_Subset
  <2>3. QED
    BY <2>2, FS_CardinalityType
<1>a. \A i \in first : /\ names[i] \in Symbols
                       /\ \A j \in first : j < i => names[j] # names[i]
  BY <1>0
<1>n. NormalizeSymbols(names) = [k \in 1..c |-> names[nth(k)]]
  BY DEF NormalizeSymbols
<1> HIDE DEF first
<1>2. \A i \in first : /\ IsFiniteSet(upto(i)) /\ upto(i) # {}
                       /\ Cardinality(upto(i)) \in Nat
                       /\ Cardinality(upto(i)) # 0
                       /\ Cardinality(upto(i)) <= c
  <2> TAKE i \in first
  <2>1. upto(i) \in SUBSET first /\ i \in upto(i)
    BY <1>0
  <2>2. IsFiniteSet(upto(i)) /\ Cardinality(upto(i)) <= c
    BY <2>1, <1>1, FS_Subset
  <2> HIDE DEF upto
  <2>3. QED
    BY <2>1, <2>2, FS_CardinalityType, FS_EmptySet
<1>3. \A i, j \in first : i < j => Cardinality(upto(i)) < Cardinality(upto(j))
  <2> SUFFICES ASSUME NEW i \in first, NEW j \in first, i < j
               PROVE  Cardinality(upto(i)) < Cardinality(upto(j))
    OBVIOUS
  <2>0. i \in Nat /\ j \in Nat /\ \A m \in first : m \in Nat
    BY <1>0
  <2>1. upto(i) \in SUBSET upto(j) /\ j \in upto(j) /\ j \notin upto(i)
    <3>1. \A m \in upto(i) : m \in upto(j)
      BY <2>0
    <3>2. j \in upto(j) /\ j \notin upto(i)
      BY <2>0
    <3>3. QED
      BY <3>1, <3>2
  <2>2. /\ Cardinality(upto(i)) <= Cardinality(upto(j))
        /\ Cardinality(upto(i)) # Cardinality(upto(j))
    <3> HIDE DEF upto
    <3>1. QED
      BY <2>1, <1>2, FS_Subset
  <2>3. QED
    <3> HIDE DEF upto
    <3>1. QED
      BY <2>2, <1>2
<1> HIDE DEF upto
<1>4. rank \in Injection(first, 1..c)
  <2>1. \A i \in first : rank[i] \in 1..c
    BY <1>1, <1>2
  <2>2. \A i, j \in first : rank[i] = rank[j] => i = j
    BY <1>0, <1>2, <1>3
  <2>3. QED
    BY <2>1, <2>2 DEF Injection, IsInjective
<1>5. rank \in Surjection(first, 1..c)
  <2> HIDE DEF rank
  <2>1. IsFiniteSet(1..c) /\ Cardinality(1..c) = c
    BY <1>1, FS_Interval
  <2>2. QED
    BY <1>4, <2>1, FS_Injection
<1>6. \A k \in 1..c : nth(k) \in first /\ Cardinality(upto(nth(k))) = k
  <2> TAKE k \in 1..c
  <2>1. PICK i \in first : rank[i] = k
    BY <1>5 DEF Surjection
  <2>2. \E j \in first : Cardinality({m \in first : m <= j}) = k
    BY <2>1 DEF upto
  <2>3. QED
    BY <2>2 DEF upto
<1> HIDE DEF nth
<1>7. \A k, m \in 1..c : k # m => names[nth(k)] # names[nth(m)]
  <2> SUFFICES ASSUME NEW k \in 1..c, NEW m \in 1..c, k # m
               PROVE  names[nth(k)] # names[nth(m)]
    OBVIOUS
  <2>1. nth(k) # nth(m) /\ nth(k) \in 1..len /\ nth(m) \in 1..len
    BY <1>0, <1>6
  <2>2. nth(k) < nth(m) \/ nth(m) < nth(k)
    BY <2>1
  <2>3. QED
    BY <1>6, <1>a, <2>2
<1> DEFINE list == [k \in 1..c |-> names[nth(k)]]
<1>8. list \in [1..c -> Symbols] /\ DOMAIN list = 1..c
  BY <1>6, <1>a
<1>9. list \in Seq(Symbols)
  <2> HIDE DEF list
  <2>1. QED
    BY <1>1, <1>8, SeqDef
<1>10. Distinct(list)
  BY <1>7 DEF Distinct
<1>11. QED
  BY <1>9, <1>10, <1>n

\* What is left of a list of different stocks are different stocks, none of them the first.
LEMMA RestOfList ==
    ASSUME NEW S, NEW list \in Seq(S), list # <<>>
    PROVE  /\ Tail(list) \in Seq(S) /\ Head(list) \in S
           /\ 1 \in DOMAIN list /\ Head(list) = list[1]
           /\ \A k \in DOMAIN Tail(list) : k + 1 \in DOMAIN list /\ Tail(list)[k] = list[k + 1]
           /\ Distinct(list) => /\ Distinct(Tail(list))
                                /\ \A k \in DOMAIN Tail(list) : Tail(list)[k] # Head(list)
<1>1. /\ Tail(list) \in Seq(S) /\ Head(list) \in S
      /\ Len(Tail(list)) = Len(list) - 1 /\ Head(list) = list[1]
      /\ Len(list) \in Nat /\ Len(list) # 0
      /\ DOMAIN list = 1..Len(list) /\ DOMAIN Tail(list) = 1..Len(Tail(list))
      /\ \A k \in 1..Len(Tail(list)) : Tail(list)[k] = list[k + 1]
  BY HeadTailProperties, LenProperties, EmptySeq
<1>2. \A k \in DOMAIN Tail(list) : k \in Nat /\ k # 0 /\ k + 1 \in DOMAIN list /\ Tail(list)[k] = list[k + 1]
  BY <1>1
<1>3. 1 \in DOMAIN list
  BY <1>1
<1>4. ASSUME Distinct(list)
      PROVE  /\ Distinct(Tail(list))
             /\ \A k \in DOMAIN Tail(list) : Tail(list)[k] # Head(list)
  <2>1. \A i, j \in DOMAIN Tail(list) : i # j => Tail(list)[i] # Tail(list)[j]
    BY <1>2, <1>4 DEF Distinct
  <2>2. \A k \in DOMAIN Tail(list) : Tail(list)[k] # list[1]
    BY <1>2, <1>3, <1>4 DEF Distinct
  <2>3. QED
    BY <1>1, <2>1, <2>2 DEF Distinct
<1>5. QED
  BY <1>1, <1>2, <1>3, <1>4

\* One order more changes none of the others.
LEMMA OneMore ==
    ASSUME NEW S, NEW list \in Seq(S), NEW e \in S, NEW longer, longer = Append(list, e)
    PROVE  /\ longer \in Seq(S)
           /\ Len(list) \in Nat /\ Len(longer) = Len(list) + 1
           /\ DOMAIN list = 1..Len(list) /\ DOMAIN longer = 1..(Len(list) + 1)
           /\ \A i \in DOMAIN list : longer[i] = list[i]
           /\ longer[Len(list) + 1] = e
  BY AppendProperties, LenProperties

\* Days follow each other as the minutes do.
LEMMA DaysInOrder ==
    ASSUME NEW s \in Nat, NEW t \in Nat, s <= t
    PROVE  Day(s) <= Day(t) /\ Day(s) \in Nat
  BY DEF Day

----------------------------------------------------------------------------
(* What becomes of the book *)

\* The orders of a list are those of another at a later moment: some statuses have moved
\* on, and none from an order that came to nothing to one that counts.
Later(list, list2) ==
    /\ DOMAIN list2 = DOMAIN list /\ Len(list2) = Len(list)
    /\ \A i \in DOMAIN list :
          /\ list2[i].symbol = list[i].symbol /\ list2[i].side = list[i].side
          /\ list2[i].at = list[i].at /\ list2[i].custody = list[i].custody
          /\ list2[i].status \in Counted \cup Undone
          /\ list2[i].status \in Counted => list[i].status \in Counted

\* A good book stays good when statuses move on.
LEMMA LaterIsGood ==
    ASSUME NEW list, NEW list2, NEW time, GoodBook(list, time), Later(list, list2)
    PROVE  GoodBook(list2, time)
<1>1. \A i \in DOMAIN list : list2[i].status \notin Undone => list[i].status \notin Undone
  BY DEF Later, Counted, Undone
<1>2. Once(list2)
  BY <1>1 DEF Once, GoodBook, Later
<1>3. QED
  BY <1>2 DEF GoodBook, Later

\* A good book is good from then on.
LEMMA GoodForever ==
    ASSUME NEW list \in Seq(Order), NEW time \in Nat, NEW time2 \in Nat, time <= time2, GoodBook(list, time)
    PROVE  GoodBook(list, time2)
<1>0. \A i \in DOMAIN list : list[i] \in Order
  BY LenProperties
<1>1. \A i \in DOMAIN list : list[i].at \in Nat
  BY <1>0 DEF Order
<1>2. QED
  BY <1>1 DEF GoodBook

\* A new order keeps the book good when it is not a repeat.
LEMMA OneMoreIsGood ==
    ASSUME NEW list \in Seq(Order), NEW time \in Nat, NEW o \in Order, NEW longer, longer = Append(list, o),
           GoodBook(list, time), o.at = time, o.status \in Counted \cup Undone,
           o.custody /\ o.status \notin Undone =>
              \A i \in DOMAIN list :
                 (/\ list[i].custody /\ list[i].symbol = o.symbol /\ list[i].side = o.side
                  /\ Day(list[i].at) = Day(o.at) /\ list[i].status \notin Undone)
                 => Len(list) + 1 - i > Window
    PROVE  GoodBook(longer, time)
<1> USE OneMore
<1>1. /\ Len(list) \in Nat /\ DOMAIN list = 1..Len(list) /\ DOMAIN longer = 1..(Len(list) + 1)
      /\ \A i \in DOMAIN list : longer[i] = list[i]
      /\ longer[Len(list) + 1] = o
  OBVIOUS
<1>2. \A i \in DOMAIN longer : i \in DOMAIN list \/ i = Len(list) + 1
  BY <1>1
<1>3. \A i, j \in DOMAIN longer :
         i < j => i \in DOMAIN list /\ (j \in DOMAIN list \/ j = Len(list) + 1)
  BY <1>1
<1>4. Once(longer)
  <2> SUFFICES ASSUME NEW i \in DOMAIN longer, NEW j \in DOMAIN longer,
                      i < j, longer[i].custody, longer[j].custody,
                      longer[i].symbol = longer[j].symbol, longer[i].side = longer[j].side,
                      Day(longer[i].at) = Day(longer[j].at),
                      longer[i].status \notin Undone, longer[j].status \notin Undone
               PROVE  j - i > Window
    BY DEF Once
  <2>1. CASE j \in DOMAIN list
    BY <1>1, <1>3, <2>1 DEF Once, GoodBook
  <2>2. CASE j = Len(list) + 1
    BY <1>1, <1>3, <2>2
  <2>3. QED
    BY <1>2, <2>1, <2>2
<1>5. \A i \in DOMAIN longer : longer[i].status \in Counted \cup Undone /\ longer[i].at <= time
  BY <1>1, <1>2 DEF GoodBook
<1>6. QED
  BY <1>4, <1>5 DEF GoodBook

----------------------------------------------------------------------------
(* What a run relies on *)

\* The kinds of a run's state and their fields.
LEMMA RunFields ==
    ASSUME NEW t \in RunState
    PROVE  /\ t.pc \in {"idle", "lock", "read", "stocks"}
           /\ t.pc = "idle" => t = Idle
           /\ t.pc = "read" => t.settings \in Settings /\ t.at \in Nat
           /\ t.pc = "stocks" => /\ t.settings \in Settings /\ t.at \in Nat
                                 /\ t.seen \in Seq(Order) /\ t.todo \in Seq(Symbols)
                                 /\ t \in [pc : {"stocks"}, settings : Settings, at : Nat,
                                           seen : Seq(Order), todo : Seq(Symbols)]
  BY DEF RunState, Idle

\* Where the orders stand that a run has read.
LEMMA ReadPlaces ==
    ASSUME NEW t \in RunState, t.pc = "stocks", NEW list \in Seq(Order), NEW n \in Nat, HasRead(t, list, n)
    PROVE  /\ Len(t.seen) \in Nat /\ DOMAIN t.seen = 1..Len(t.seen)
           /\ Len(list) \in Nat /\ DOMAIN list = 1..Len(list)
           /\ \A k \in DOMAIN t.seen : n - Len(t.seen) + k \in DOMAIN list
<1>1. /\ Len(t.seen) \in Nat /\ DOMAIN t.seen = 1..Len(t.seen)
      /\ Len(list) \in Nat /\ DOMAIN list = 1..Len(list)
  BY RunFields, LenProperties
<1>2. n <= Len(list) /\ Len(t.seen) <= n
  BY <1>1, CustodyAssumption DEF HasRead
<1>3. QED
  BY <1>1, <1>2

\* A run stays sound when statuses move on and the clock advances.
LEMMA SoundLater ==
    ASSUME NEW t \in RunState, NEW list \in Seq(Order), NEW list2, NEW time \in Nat, NEW time2 \in Nat,
           time <= time2, SoundRun(t, list, time), Later(list, list2)
    PROVE  SoundRun(t, list2, time2)
<1>1. \A n : CustodyBefore(list, n, t.at) => CustodyBefore(list2, n, t.at)
  BY DEF CustodyBefore, Later
<1>2. CASE t.pc = "read"
  BY <1>1, <1>2, RunFields DEF SoundRun, Later
<1>3. CASE t.pc = "stocks"
  <2>1. PICK n \in Nat : HasRead(t, list, n)
    BY <1>3 DEF SoundRun
  <2>2. \A k \in DOMAIN t.seen : n - Len(t.seen) + k \in DOMAIN list
    BY <1>3, <2>1, ReadPlaces
  <2>3. HasRead(t, list2, n)
    BY <1>1, <2>1, <2>2 DEF HasRead, Later
  <2>4. Distinct(t.todo) /\ t.at <= time2
    BY <1>3, RunFields DEF SoundRun
  <2>5. QED
    BY <1>3, <2>3, <2>4 DEF SoundRun
<1>4. QED
  BY <1>2, <1>3 DEF SoundRun

\* A run stays sound when an order is placed that is not one of custody, and one that
\* holds no lock whatever is placed.
LEMMA SoundMore ==
    ASSUME NEW t \in RunState, NEW list \in Seq(Order), NEW o \in Order, NEW longer, longer = Append(list, o),
           NEW time \in Nat, SoundRun(t, list, time), t.pc \in {"read", "stocks"} => ~o.custody
    PROVE  SoundRun(t, longer, time)
<1>1. /\ Len(list) \in Nat /\ Len(longer) = Len(list) + 1
      /\ DOMAIN list = 1..Len(list) /\ DOMAIN longer = 1..(Len(list) + 1)
      /\ \A i \in DOMAIN list : longer[i] = list[i]
      /\ longer[Len(list) + 1] = o
  BY OneMore
<1>2. \A i \in DOMAIN longer : i \in DOMAIN list \/ i = Len(list) + 1
  BY <1>1
<1>3. CASE t.pc = "read"
  <2>1. CustodyBefore(longer, Len(longer), t.at)
    BY <1>1, <1>2, <1>3 DEF SoundRun, CustodyBefore
  <2>2. QED
    BY <1>3, <2>1 DEF SoundRun
<1>4. CASE t.pc = "stocks"
  <2>1. PICK n \in Nat : HasRead(t, list, n)
    BY <1>4 DEF SoundRun
  <2>2. \A k \in DOMAIN t.seen : n - Len(t.seen) + k \in DOMAIN list
    BY <1>4, <2>1, ReadPlaces
  <2>3. n \in 0..Len(longer) /\ CustodyBefore(longer, n, t.at)
    BY <1>1, <1>2, <1>4, <2>1 DEF HasRead, CustodyBefore
  <2>4. \A i \in DOMAIN longer, k \in DOMAIN t.todo :
           i > n /\ longer[i].custody => longer[i].symbol # t.todo[k]
    BY <1>1, <1>2, <1>4, <2>1 DEF HasRead
  <2>5. HasRead(t, longer, n)
    BY <1>1, <2>1, <2>2, <2>3, <2>4 DEF HasRead
  <2>6. QED
    BY <1>4, <2>5 DEF SoundRun
<1>5. QED
  BY <1>3, <1>4 DEF SoundRun

\* The run goes on with the stocks after the first.
Dropped(t) == [t EXCEPT !.todo = Tail(@)]

\* Nothing else of the run's state changes with it.
LEMMA DroppedFields ==
    ASSUME NEW t \in RunState, t.pc = "stocks", t.todo # <<>>, NEW t2, t2 = Dropped(t)
    PROVE  /\ t2 \in RunState /\ t2.pc = "stocks" /\ t2.at = t.at /\ t2.seen = t.seen
           /\ t2.settings = t.settings /\ t2.todo = Tail(t.todo)
<1>1. t \in [pc : {"stocks"}, settings : Settings, at : Nat, seen : Seq(Order), todo : Seq(Symbols)]
  BY RunFields
<1>2. Tail(t.todo) \in Seq(Symbols)
  BY <1>1, RestOfList
<1>3. t2 \in [pc : {"stocks"}, settings : Settings, at : Nat, seen : Seq(Order), todo : Seq(Symbols)]
  BY <1>1, <1>2 DEF Dropped
<1>4. t2.pc = "stocks" /\ t2.at = t.at /\ t2.seen = t.seen
      /\ t2.settings = t.settings /\ t2.todo = Tail(t.todo)
  BY <1>1 DEF Dropped
<1>5. QED
  BY <1>3, <1>4 DEF RunState

\* A run that drops the stock it was at stays sound.
LEMMA SoundDropped ==
    ASSUME NEW t \in RunState, t.pc = "stocks", t.todo # <<>>, NEW t2, t2 = Dropped(t),
           NEW list \in Seq(Order), NEW time \in Nat, SoundRun(t, list, time)
    PROVE  SoundRun(t2, list, time)
<1>1. /\ t2.pc = "stocks" /\ t2.at = t.at /\ t2.seen = t.seen /\ t2.todo = Tail(t.todo)
  BY DroppedFields
<1>2. Distinct(t.todo) /\ t.todo \in Seq(Symbols)
  BY RunFields DEF SoundRun
<1>3. /\ Distinct(t2.todo)
      /\ \A k \in DOMAIN t2.todo : k + 1 \in DOMAIN t.todo /\ t2.todo[k] = t.todo[k + 1]
  BY <1>1, <1>2, RestOfList
<1>4. PICK n \in Nat : HasRead(t, list, n)
  BY DEF SoundRun
<1>5. HasRead(t2, list, n)
  BY <1>1, <1>3, <1>4 DEF HasRead
<1>6. QED
  BY <1>1, <1>3, <1>5 DEF SoundRun

\* A run that places an order for the stock it was at and goes on stays sound.
LEMMA SoundPlaced ==
    ASSUME NEW t \in RunState, t.pc = "stocks", t.todo # <<>>, NEW t2, t2 = Dropped(t),
           NEW list \in Seq(Order), NEW o \in Order, NEW longer, longer = Append(list, o),
           o.symbol = Head(t.todo), NEW time \in Nat, SoundRun(t, list, time)
    PROVE  SoundRun(t2, longer, time)
<1>1. /\ t2 \in RunState /\ t2.pc = "stocks" /\ t2.at = t.at /\ t2.seen = t.seen /\ t2.todo = Tail(t.todo)
  BY DroppedFields
<1>2. Distinct(t.todo) /\ t.todo \in Seq(Symbols)
  BY RunFields DEF SoundRun
<1>3. /\ Distinct(t2.todo)
      /\ \A k \in DOMAIN t2.todo : t2.todo[k] # Head(t.todo)
  BY <1>1, <1>2, RestOfList
<1>4. /\ Len(list) \in Nat /\ Len(longer) = Len(list) + 1
      /\ DOMAIN list = 1..Len(list) /\ DOMAIN longer = 1..(Len(list) + 1)
      /\ \A i \in DOMAIN list : longer[i] = list[i]
      /\ longer[Len(list) + 1] = o
  BY OneMore
<1>5. \A i \in DOMAIN longer : i \in DOMAIN list \/ i = Len(list) + 1
  BY <1>4
<1>6. SoundRun(t2, list, time)
  BY SoundDropped
<1>7. PICK n \in Nat : HasRead(t2, list, n)
  BY <1>1, <1>6 DEF SoundRun
<1>8. \A k \in DOMAIN t2.seen : n - Len(t2.seen) + k \in DOMAIN list
  BY <1>1, <1>7, ReadPlaces
<1>9. n \in 0..Len(longer) /\ CustodyBefore(longer, n, t2.at)
  BY <1>4, <1>5, <1>7 DEF HasRead, CustodyBefore
<1>10. \A i \in DOMAIN longer, k \in DOMAIN t2.todo :
          i > n /\ longer[i].custody => longer[i].symbol # t2.todo[k]
  BY <1>3, <1>4, <1>5, <1>7 DEF HasRead
<1>11. HasRead(t2, longer, n)
  BY <1>4, <1>7, <1>8, <1>9, <1>10 DEF HasRead
<1>12. QED
  BY <1>1, <1>3, <1>6, <1>11 DEF SoundRun

\* The check of hasOrderToday keeps a run from repeating an order of the day it can see:
\* one that counts and that it does not find is out of what a run reads back.
LEMMA NoRepeat ==
    ASSUME NEW t \in RunState, t.pc = "stocks", t.todo # <<>>,
           NEW list \in Seq(Order), NEW time \in Nat, SoundRun(t, list, time), GoodBook(list, time),
           NEW side, ~HasOrderToday(t.seen, Head(t.todo), side, t.at),
           NEW i \in DOMAIN list, list[i].custody, list[i].symbol = Head(t.todo), list[i].side = side,
           Day(list[i].at) = Day(time), list[i].status \notin Undone
    PROVE  Len(list) + 1 - i > Window
<1>1. PICK n \in Nat : HasRead(t, list, n)
  BY DEF SoundRun
<1>2. /\ Len(t.seen) \in Nat /\ DOMAIN t.seen = 1..Len(t.seen)
      /\ Len(list) \in Nat /\ DOMAIN list = 1..Len(list)
  BY <1>1, ReadPlaces
<1>3. t.at \in Nat /\ t.todo \in Seq(Symbols) /\ t.at <= time /\ list[i] \in Order
  BY RunFields, <1>2, LenProperties DEF SoundRun
<1>4. i <= n
  <2>1. 1 \in DOMAIN t.todo /\ Head(t.todo) = t.todo[1]
    BY <1>3, RestOfList
  <2>2. QED
    BY <1>1, <1>2, <2>1 DEF HasRead
<1>5. Day(list[i].at) = Day(t.at)
  <2>1. list[i].at \in Nat /\ list[i].at <= t.at
    BY <1>1, <1>3, <1>4 DEF HasRead, CustodyBefore, Order
  <2>2. /\ Day(list[i].at) <= Day(t.at) /\ Day(t.at) <= Day(time)
        /\ Day(list[i].at) \in Nat /\ Day(t.at) \in Nat
    BY <1>3, <2>1, DaysInOrder
  <2>3. QED
    BY <2>2
<1>6. list[i].status \in Counted
  BY DEF GoodBook
<1>7. i <= n - Len(t.seen)
  <2> SUFFICES ASSUME i > n - Len(t.seen)
               PROVE  FALSE
    BY <1>1, <1>2 DEF HasRead
  <2> DEFINE k == i - (n - Len(t.seen))
  <2>1. k \in DOMAIN t.seen /\ n - Len(t.seen) + k = i
    BY <1>2, <1>4
  <2>2. /\ t.seen[k].symbol = list[i].symbol /\ t.seen[k].side = list[i].side
        /\ t.seen[k].at = list[i].at /\ t.seen[k].status \in Counted
    <3> HIDE DEF k
    <3>1. QED
      BY <1>1, <1>6, <2>1 DEF HasRead
  <2>3. HasOrderToday(t.seen, Head(t.todo), side, t.at)
    <3> HIDE DEF k
    <3>1. QED
      BY <1>5, <2>1, <2>2 DEF HasOrderToday, Counted
  <2>4. QED
    BY <2>3
<1>8. /\ n <= Len(list)
      /\ Len(t.seen) = IF n > Window THEN Window ELSE n
  BY <1>1, <1>2 DEF HasRead
<1>9. QED
  BY <1>2, <1>7, <1>8, CustodyAssumption

\* The run once it has read the orders.
AfterReading(t, list) ==
    LET n == Len(list)
    IN  [pc |-> "stocks", settings |-> t.settings, at |-> t.at,
         seen |-> SubSeq(list, IF n > Window THEN n - Window + 1 ELSE 1, n),
         todo |-> t.settings.symbols]

\* What ReadOrders reads is sound, of a run that holds the lock since its start.
LEMMA SoundReading ==
    ASSUME NEW t \in RunState, t.pc = "read", NEW list \in Seq(Order), NEW time \in Nat,
           SoundRun(t, list, time), NEW t2, t2 = AfterReading(t, list),
           \A i \in DOMAIN list : list[i].status \in Counted \cup Undone
    PROVE  t2 \in RunState /\ SoundRun(t2, list, time)
<1> DEFINE n == Len(list)
<1> DEFINE m == IF n > Window THEN n - Window + 1 ELSE 1
<1>1. n \in Nat /\ DOMAIN list = 1..n /\ Window \in Nat /\ Window # 0
  BY LenProperties, CustodyAssumption
<1>2. m \in Nat /\ m # 0
  BY <1>1
<1>3. \A i \in m..n : list[i] \in Order
  BY <1>1, <1>2, LenProperties
<1>n. n = Len(list)
  OBVIOUS
<1> HIDE DEF n
<1>4. t.settings \in Settings /\ t.at \in Nat /\ t.settings.symbols \in Seq(Symbols)
  BY RunFields DEF Settings, SettingsOf
<1> DEFINE seen == SubSeq(list, m, n)
<1> HIDE DEF m
<1>5. /\ seen \in Seq(Order)
      /\ Len(seen) = IF m <= n THEN n - m + 1 ELSE 0
      /\ \A i \in 1..(n - m + 1) : seen[i] = list[m + i - 1]
  BY <1>1, <1>2, <1>3, SubSeqProperties
<1> HIDE DEF seen
<1>6. /\ Len(seen) = (IF n > Window THEN Window ELSE n)
      /\ n - m + 1 = Len(seen) /\ DOMAIN seen = 1..Len(seen)
  <2>1. DOMAIN seen = 1..Len(seen)
    BY <1>5, LenProperties
  <2>2. /\ n - m + 1 = (IF n > Window THEN Window ELSE n)
        /\ m <= n \/ n - m + 1 = 0
    BY <1>1 DEF m
  <2>3. Len(seen) = n - m + 1
    BY <1>1, <1>2, <1>5, <2>2
  <2>4. QED
    BY <2>1, <2>2, <2>3
<1>7. \A k \in DOMAIN seen : seen[k] = list[n - Len(seen) + k]
  <2> SUFFICES ASSUME NEW k \in DOMAIN seen
               PROVE  seen[k] = list[n - Len(seen) + k]
    OBVIOUS
  <2>1. k \in 1..(n - m + 1) /\ k \in Nat
    BY <1>1, <1>2, <1>6
  <2>2. m + k - 1 = n - Len(seen) + k
    <3>1. n - m + 1 = Len(seen) /\ n \in Nat /\ m \in Nat /\ Len(seen) \in Nat /\ k \in Nat
      BY <1>1, <1>2, <1>5, <1>6, <2>1, LenProperties
    <3>2. QED
      BY <3>1
  <2>3. seen[k] = list[m + k - 1]
    BY <1>5, <2>1
  <2>4. QED
    BY <2>2, <2>3
<1>8. /\ t2.pc = "stocks" /\ t2.at = t.at /\ t2.seen = seen /\ t2.todo = t.settings.symbols
      /\ t2 \in [pc : {"stocks"}, settings : Settings, at : Nat, seen : Seq(Order), todo : Seq(Symbols)]
  <2>1. t2 = [pc |-> "stocks", settings |-> t.settings, at |-> t.at, seen |-> seen,
              todo |-> t.settings.symbols]
    BY DEF m, seen, n, AfterReading
  <2>2. t2.pc = "stocks" /\ t2.at = t.at /\ t2.seen = seen /\ t2.todo = t.settings.symbols
    BY <2>1
  <2>3. t2 \in [pc : {"stocks"}, settings : Settings, at : Nat, seen : Seq(Order), todo : Seq(Symbols)]
    BY <1>4, <1>5, <2>1
  <2>4. QED
    BY <2>2, <2>3
<1>9. HasRead(t2, list, n)
  <2>1. CustodyBefore(list, n, t2.at)
    BY <1>n, <1>8 DEF SoundRun
  <2>2. \A i \in DOMAIN list : ~(i > n)
    BY <1>1
  <2>3. n \in 0..Len(list) /\ Len(t2.seen) = IF n > Window THEN Window ELSE n
    BY <1>1, <1>6, <1>8, <1>n
  <2>4. \A k \in DOMAIN t2.seen : t2.seen[k] = list[n - Len(t2.seen) + k]
    BY <1>7, <1>8
  <2>5. QED
    BY <2>1, <2>2, <2>3, <2>4 DEF HasRead
<1>10. Distinct(t2.todo) /\ t2.at <= time
  BY <1>8 DEF SoundRun
<1>11. QED
  BY <1>1, <1>8, <1>9, <1>10 DEF SoundRun, RunState

----------------------------------------------------------------------------
(* Settings *)

\* The settings with the time of a run.
Recorded(c, at) == [c EXCEPT !.lastRun = at]

\* The settings an update writes.
Requested(in, c) == [in EXCEPT !.symbols = NormalizeSymbols(@), !.lastRun = c.lastRun]

\* Only an update changes which stocks are named.
LEMMA SettingsKept ==
    ASSUME NEW c \in Settings
    PROVE  /\ \A at \in Int : Recorded(c, at) \in Settings /\ Recorded(c, at).symbols = c.symbols
           /\ Chosen(c) \in Settings /\ Chosen(c).symbols = c.symbols
           /\ Normalize(c) \in Settings /\ Normalize(c).symbols = c.symbols
<1>1. \A at \in Int : Recorded(c, at) \in Settings /\ Recorded(c, at).symbols = c.symbols
  BY DEF Recorded, Settings, SettingsOf
<1>2. Chosen(c) = Recorded(c, Never) /\ Never \in Int
  BY DEF Chosen, Recorded, Never
<1>3. Normalize(c) \in Settings /\ Normalize(c).symbols = c.symbols
  <2> DEFINE buy == IF c.buy = 0 THEN 78 ELSE c.buy
             sell == IF c.sell = 0 THEN 30 ELSE c.sell
             interval == IF c.interval = 0 THEN 300 ELSE c.interval
  <2>1. buy \in Int /\ sell \in Int /\ interval \in Int
    BY DEF Settings, SettingsOf
  <2>2. Normalize(c) = [c EXCEPT !.buy = buy, !.sell = sell, !.interval = interval]
    BY DEF Normalize
  <2> HIDE DEF buy, sell, interval
  <2>3. QED
    BY <2>1, <2>2 DEF Settings, SettingsOf
<1>4. QED
  BY <1>1, <1>2, <1>3

\* An update names stocks, each of them once.
LEMMA UpdateNames ==
    ASSUME NEW in \in Inputs, NEW c \in Settings
    PROVE  Requested(in, c) \in Settings /\ Distinct(Requested(in, c).symbols)
<1> DEFINE names == UNION {ToSet(i.symbols) : i \in Inputs}
<1>1. in \in SettingsOf(names)
  BY CustodyAssumption
<1> HIDE DEF names
<1>2. in.symbols \in Seq(names)
  BY <1>1 DEF SettingsOf
<1>3. Len(in.symbols) \in Nat /\ DOMAIN in.symbols = 1..Len(in.symbols)
  BY <1>2, LenProperties
<1> DEFINE stocks == NormalizeSymbols(in.symbols)
<1>4. stocks \in Seq(Symbols) /\ Distinct(stocks)
  BY <1>3, NormalizedOnce
<1>5. Requested(in, c) = [in EXCEPT !.symbols = stocks, !.lastRun = c.lastRun]
  BY DEF Requested
<1> HIDE DEF stocks
<1>6. c.lastRun \in Int
  BY DEF Settings, SettingsOf
<1>7. QED
  BY <1>1, <1>4, <1>5, <1>6 DEF Settings, SettingsOf

\* What a save leaves in the state file.
LEMMA Saved ==
    ASSUME NEW c, NEW b, NEW ok, Save(c, b, ok), live \in BOOLEAN,
           file \in [custody : Settings, book : Seq(Order)]
    PROVE  /\ file'.custody = c \/ file'.custody = file.custody
           /\ file'.book = <<>> \/ file'.book = b \/ file'.book = file.book
           /\ c \in Settings /\ b \in Seq(Order) => file' \in [custody : Settings, book : Seq(Order)]
<1>1. <<>> \in Seq(Order)
  BY EmptySeq
<1>2. QED
  BY <1>1 DEF Save

----------------------------------------------------------------------------
(* Types *)

\* The clock shows minutes, later and later.
LEMMA Clock ==
    /\ \A i \in DOMAIN Instants : Instants[i] \in Nat
    /\ 1 \in DOMAIN Instants
    /\ \A i \in DOMAIN Instants : i < Len(Instants) => i + 1 \in DOMAIN Instants /\ Instants[i] < Instants[i + 1]
<1>1. /\ Instants \in Seq(Nat) /\ Len(Instants) > 0
      /\ \A i, j \in DOMAIN Instants : i < j => Instants[i] < Instants[j]
  BY CustodyAssumption
<1>2. Len(Instants) \in Nat /\ DOMAIN Instants = 1..Len(Instants) /\ Instants \in [1..Len(Instants) -> Nat]
  BY <1>1, LenProperties
<1>3. QED
  BY <1>1, <1>2

\* The type invariant holds at the start.
LEMMA TypeInit == Init => TypeOK
<1> SUFFICES ASSUME Init PROVE TypeOK
  OBVIOUS
<1>1. SeedCustody \in Settings
  BY EmptySeq DEF SeedCustody, Settings, SettingsOf, Never
<1>2. <<>> \in Seq(Order)
  BY EmptySeq
<1>3. Idle \in RunState
  BY DEF RunState
<1>4. QED
  BY <1>1, <1>2, <1>3, Clock DEF Init, TypeOK

\* The new orders are orders.
LEMMA OrderTyped ==
    ASSUME NEW symbol \in Symbols, NEW side \in Sides, NEW status \in Working \cup Ended,
           NEW at \in Nat, NEW by \in BOOLEAN
    PROVE  [symbol |-> symbol, side |-> side, status |-> status, at |-> at, custody |-> by] \in Order
  BY DEF Order

\* A runner's next state is one of the kinds.
LEMMA NextRun ==
    ASSUME NEW r \in Runners, NEW t \in RunState, Goto(r, t), run \in [Runners -> RunState]
    PROVE  /\ run' \in [Runners -> RunState] /\ run'[r] = t
           /\ \A q \in Runners : q # r => run'[q] = run[q]
  BY DEF Goto

\* The book when the status of an order moves on.
WithStatus(list, i, status) == [list EXCEPT ![i].status = status]

\* Nothing else of the book changes with it.
LEMMA StatusTyped ==
    ASSUME NEW list \in Seq(Order), NEW i \in DOMAIN list, NEW status \in Working \cup Ended,
           NEW list2, list2 = WithStatus(list, i, status)
    PROVE  /\ list2 \in Seq(Order) /\ DOMAIN list2 = DOMAIN list /\ Len(list2) = Len(list)
           /\ \A j \in DOMAIN list : j # i => list2[j] = list[j]
           /\ list2[i].symbol = list[i].symbol /\ list2[i].side = list[i].side
           /\ list2[i].at = list[i].at /\ list2[i].custody = list[i].custody
           /\ list2[i].status = status
<1>1. Len(list) \in Nat /\ DOMAIN list = 1..Len(list) /\ list \in [1..Len(list) -> Order]
  BY LenProperties
<1> DEFINE o == [list[i] EXCEPT !.status = status]
<1>2. list[i] \in Order
  BY <1>1
<1>3. /\ o \in Order /\ o.status = status /\ o.symbol = list[i].symbol /\ o.side = list[i].side
      /\ o.at = list[i].at /\ o.custody = list[i].custody
  BY <1>2 DEF Order
<1>4. list2 = [list EXCEPT ![i] = o]
  BY DEF WithStatus
<1> HIDE DEF o
<1>5. /\ list2 \in Seq(Order) /\ Len(list2) = Len(list) /\ DOMAIN list2 = 1..Len(list)
      /\ \A j \in 1..Len(list) : list2[j] = IF j = i THEN o ELSE list[j]
  <2>1. list2 \in Seq(Order) /\ Len(list2) = Len(list)
    BY <1>1, <1>3, <1>4, ExceptSeq
  <2>2. QED
    BY <1>1, <1>3, <1>4, <2>1, ExceptSeq, LenProperties
<1>6. QED
  BY <1>1, <1>3, <1>5

\* What a run has read is of the right kind.
LEMMA ReadingTyped ==
    ASSUME NEW t \in RunState, t.pc = "read", NEW list \in Seq(Order)
    PROVE  AfterReading(t, list) \in RunState
<1> DEFINE n == Len(list)
           m == IF n > Window THEN n - Window + 1 ELSE 1
           seen == SubSeq(list, m, n)
<1>1. n \in Nat /\ DOMAIN list = 1..n /\ m \in Nat /\ m # 0
  BY LenProperties, CustodyAssumption
<1> HIDE DEF m
<1>2. \A i \in m..n : list[i] \in Order
  BY <1>1, LenProperties
<1>3. seen \in Seq(Order)
  BY <1>1, <1>2, SubSeqProperties
<1>4. AfterReading(t, list) = [pc |-> "stocks", settings |-> t.settings, at |-> t.at, seen |-> seen,
                               todo |-> t.settings.symbols]
  BY DEF AfterReading, m
<1> HIDE DEF seen
<1>5. t.settings \in Settings /\ t.at \in Nat /\ t.settings.symbols \in Seq(Symbols)
  BY RunFields DEF Settings, SettingsOf
<1>6. QED
  BY <1>3, <1>4, <1>5 DEF RunState

\* A runner that drops a stock goes to the state Dropped names.
LEMMA NextDropped ==
    ASSUME NEW r \in Runners, run \in [Runners -> RunState], run[r].pc = "stocks", run[r].todo # <<>>,
           run' = [run EXCEPT ![r].todo = Tail(@)]
    PROVE  Dropped(run[r]) \in RunState /\ Goto(r, Dropped(run[r]))
<1>1. run[r] \in RunState
  OBVIOUS
<1>2. Dropped(run[r]) \in RunState
  BY <1>1, DroppedFields
<1>3. Dropped(run[r]) = [run[r] EXCEPT !.todo = Tail(@)]
  BY DEF Dropped
<1>4. QED
  BY <1>2, <1>3 DEF Goto

\* An administrator's request, past its checks.
Pending(new, wasOn) == [pc |-> "write", new |-> new, wasOn |-> wasOn]

\* Every action keeps the types.
LEMMA TypeStep == TypeOK /\ [Next]_vars => TypeOK'
<1> SUFFICES ASSUME TypeOK, [Next]_vars PROVE TypeOK'
  OBVIOUS
<1> DEFINE Updates == {Idle} \cup [pc : {"write"}, new : Settings, wasOn : BOOLEAN]
           Files   == [custody : Settings, book : Seq(Order)]
<1>t. /\ live \in BOOLEAN /\ custody \in Settings /\ book \in Seq(Order) /\ file \in Files
      /\ lock \in Runners \cup {Free} /\ run \in [Runners -> RunState]
      /\ update \in [Admins -> Updates] /\ tick \in DOMAIN Instants
  BY DEF TypeOK
<1>n. now \in Nat /\ custody.enabled \in BOOLEAN
  BY <1>t, Clock DEF now, Settings, SettingsOf
<1>i. Idle \in RunState
  BY DEF RunState
<1>r. \A r \in Runners : run[r] \in RunState
  BY <1>t
<1> USE <1>t, <1>n
<1> HIDE DEF Updates, Files
<1>1. ASSUME NEW r \in Runners, Start(r) PROVE TypeOK'
  <2>1. [pc |-> "read", settings |-> Chosen(custody), at |-> now] \in RunState
    BY SettingsKept DEF RunState
  <2>2. run' \in [Runners -> RunState]
    BY <1>1, <2>1, NextRun DEF Start
  <2>3. QED
    BY <1>1, <2>2 DEF Start, TypeOK, Updates, Files
<1>2. ASSUME NEW r \in Runners, Decline(r) PROVE TypeOK'
  <2>1. run' \in [Runners -> RunState]
    BY <1>2, <1>i, NextRun DEF Decline
  <2>2. QED
    BY <1>2, <2>1 DEF Decline, TypeOK, Updates, Files
<1>3. ASSUME NEW r \in Runners, ReadOrders(r) PROVE TypeOK'
  <2> DEFINE t2 == AfterReading(run[r], book)
  <2>1. Goto(r, t2)
    BY <1>3 DEF ReadOrders, AfterReading
  <2>2. t2 \in RunState
    BY <1>3, <1>r, ReadingTyped DEF ReadOrders
  <2>3. run' \in [Runners -> RunState]
    BY <2>1, <2>2, NextRun
  <2>4. QED
    BY <1>3, <2>3 DEF ReadOrders, TypeOK, Updates, Files
<1>4. ASSUME NEW r \in Runners, PassOver(r) PROVE TypeOK'
  <2>1. run' \in [Runners -> RunState]
    BY <1>4, NextDropped, NextRun DEF PassOver
  <2>2. QED
    BY <1>4, <2>1 DEF PassOver, TypeOK, Updates, Files
<1>5. ASSUME NEW r \in Runners, NEW ok \in BOOLEAN, ReadFails(r, ok) \/ Finish(r, ok) PROVE TypeOK'
  <2>1. run[r].at \in Nat /\ custody' = Recorded(custody, run[r].at)
    BY <1>5, <1>r, RunFields DEF ReadFails, Finish, Record, Recorded
  <2>2. custody' \in Settings
    <3>1. run[r].at \in Int
      BY <2>1
    <3>2. Recorded(custody, run[r].at) \in Settings
      BY <3>1, SettingsKept
    <3>3. QED
      BY <2>1, <3>2
  <2>3. file' \in Files
    <3>1. Save(custody', book, ok)
      BY <1>5 DEF ReadFails, Finish, Record
    <3>2. QED
      BY <2>2, <3>1, Saved DEF Files
  <2>4. run' \in [Runners -> RunState]
    BY <1>5, <1>i, NextRun DEF ReadFails, Finish
  <2>5. UNCHANGED <<live, book, update, tick>> /\ lock' = Free
    BY <1>5 DEF ReadFails, Finish
  <2>6. QED
    BY <2>2, <2>3, <2>4, <2>5 DEF TypeOK, Updates, Files
<1>6. ASSUME NEW r \in Runners, NEW sig \in Signals, NEW status \in Working \cup Ended, NEW ok \in BOOLEAN,
             Place(r, sig, status, ok)
      PROVE  TypeOK'
  <2> DEFINE o == [symbol |-> Head(run[r].todo), side |-> sig.side, status |-> status,
                   at |-> now, custody |-> TRUE]
  <2>1. book' = Append(book, o) /\ Save(custody, book', ok) /\ UNCHANGED <<live, custody, lock, update, tick>>
    BY <1>6 DEF Place
  <2>2. o \in Order
    <3>1. Head(run[r].todo) \in Symbols
      BY <1>6, <1>r, RunFields, RestOfList DEF Place
    <3>2. sig.side \in Sides
      BY CustodyAssumption
    <3>3. QED
      BY <3>1, <3>2, OrderTyped
  <2> HIDE DEF o
  <2>3. book' \in Seq(Order)
    BY <2>1, <2>2, OneMore
  <2>4. file' \in Files
    BY <2>1, <2>3, Saved DEF Files
  <2>5. run' \in [Runners -> RunState]
    BY <1>6, NextDropped, NextRun DEF Place
  <2>6. QED
    BY <2>1, <2>3, <2>4, <2>5 DEF TypeOK, Updates, Files
<1>7. ASSUME NEW a \in Admins, NEW in \in Inputs, NEW confirmed \in BOOLEAN, CheckUpdate(a, in, confirmed)
      PROVE  TypeOK'
  <2>1. /\ update' = [update EXCEPT ![a] = Pending(Requested(in, custody), custody.enabled)]
        /\ UNCHANGED <<live, custody, book, file, lock, run, tick>>
    BY <1>7 DEF CheckUpdate, Pending, Requested
  <2>2. Pending(Requested(in, custody), custody.enabled) \in Updates
    BY UpdateNames DEF Pending, Updates
  <2>3. update' \in [Admins -> Updates]
    BY <2>1, <2>2
  <2>4. QED
    BY <2>1, <2>3 DEF TypeOK, Updates, Files
<1>8. ASSUME NEW a \in Admins, NEW ok \in BOOLEAN, WriteUpdate(a, ok) PROVE TypeOK'
  <2>1. /\ custody' = update[a].new /\ Save(custody', book, ok) /\ update' = [update EXCEPT ![a] = Idle]
        /\ UNCHANGED <<live, book, lock, run, tick>>
    BY <1>8 DEF WriteUpdate
  <2>2. custody' \in Settings
    <3>1. update[a] \in Updates /\ update[a].pc = "write"
      BY <1>8 DEF WriteUpdate
    <3>2. update[a].new \in Settings
      BY <3>1 DEF Updates, Idle
    <3>3. QED
      BY <2>1, <3>2
  <2>3. file' \in Files
    BY <2>1, <2>2, Saved DEF Files
  <2>4. update' \in [Admins -> Updates]
    BY <2>1 DEF Updates
  <2>5. QED
    BY <2>1, <2>2, <2>3, <2>4 DEF TypeOK, Updates, Files
<1>9. ASSUME NEW a \in Admins, NEW force \in BOOLEAN, RunNow(a, force) PROVE TypeOK'
  <2>1. [pc |-> "lock", force |-> force] \in RunState /\ a \in Runners
    BY DEF RunState, Runners
  <2>2. run' \in [Runners -> RunState]
    BY <1>9, <2>1, NextRun DEF RunNow
  <2>3. QED
    BY <1>9, <2>2 DEF RunNow, TypeOK, Updates, Files
<1>10. CASE Wake
  <2>1. [pc |-> "lock", force |-> FALSE] \in RunState /\ Loop \in Runners
    BY DEF RunState, Runners
  <2>2. run' \in [Runners -> RunState]
    BY <1>10, <2>1, NextRun DEF Wake
  <2>3. QED
    BY <1>10, <2>2 DEF Wake, TypeOK, Updates, Files
<1>11. ASSUME NEW m \in Manual, NEW status \in Working \cup Ended, NEW ok \in BOOLEAN,
              ManualOrder(m, status, ok)
       PROVE  TypeOK'
  <2> DEFINE o == [symbol |-> m.symbol, side |-> m.side, status |-> status, at |-> now, custody |-> FALSE]
  <2>1. book' = Append(book, o) /\ Save(custody, book', ok)
        /\ UNCHANGED <<live, custody, lock, run, update, tick>>
    BY <1>11 DEF ManualOrder
  <2>2. o \in Order
    BY CustodyAssumption, OrderTyped
  <2> HIDE DEF o
  <2>3. book' \in Seq(Order)
    BY <2>1, <2>2, OneMore
  <2>4. file' \in Files
    BY <2>1, <2>3, Saved DEF Files
  <2>5. QED
    BY <2>1, <2>3, <2>4 DEF TypeOK, Updates, Files
<1>12. ASSUME NEW i \in DOMAIN book, NEW status \in Working \cup Ended, NEW ok \in BOOLEAN,
              Progress(i, status, ok)
       PROVE  TypeOK'
  <2>1. book' = WithStatus(book, i, status) /\ Save(custody, book', ok)
        /\ UNCHANGED <<live, custody, lock, run, update, tick>>
    BY <1>12 DEF Progress, WithStatus
  <2>2. book' \in Seq(Order)
    BY <2>1, StatusTyped
  <2>3. file' \in Files
    BY <2>1, <2>2, Saved DEF Files
  <2>4. QED
    BY <2>1, <2>2, <2>3 DEF TypeOK, Updates, Files
<1>13. CASE Flush
  <2>1. file' \in Files
    BY <1>13, Saved DEF Flush, Files
  <2>2. QED
    BY <1>13, <2>1 DEF Flush, TypeOK, Updates, Files
<1>14. CASE Tick
  <2>1. tick' \in DOMAIN Instants
    BY <1>14, Clock DEF Tick
  <2>2. QED
    BY <1>14, <2>1 DEF Tick, TypeOK, Updates, Files
<1>15. CASE Restart
  <2>1. custody' \in Settings /\ book' \in Seq(Order)
    BY <1>15, SettingsKept DEF Restart, Files
  <2>2. run' \in [Runners -> RunState] /\ update' \in [Admins -> Updates]
    BY <1>15, <1>i DEF Restart, Updates
  <2>3. QED
    BY <1>15, <2>1, <2>2 DEF Restart, TypeOK, Updates, Files
<1>16. CASE UNCHANGED vars
  BY <1>16 DEF vars, TypeOK, Updates, Files
<1>17. QED
  BY <1>1, <1>2, <1>3, <1>4, <1>5, <1>6, <1>7, <1>8, <1>9, <1>10, <1>11, <1>12, <1>13, <1>14, <1>15, <1>16
     DEF Next, Step, Update, Others

\* The state is always of the types the model gives it: settings, orders, the runs and
\* updates under way and the clock, whatever administrators and traders do.
THEOREM TypeCorrect == Spec => []TypeOK
<1>1. QED
  BY TypeInit, TypeStep, PTL DEF Spec

----------------------------------------------------------------------------
(* The inductive invariant is kept *)

\* An empty book is good.
LEMMA EmptyIsGood == \A time : GoodBook(<<>>, time)
  BY DEF GoodBook, Once

\* A good book is no other at the same moment.
LEMMA SameIsLater ==
    ASSUME NEW list, NEW time, GoodBook(list, time)
    PROVE  Later(list, list)
  BY DEF Later, GoodBook

\* A state file is as sound as what is saved in it and what it held.
LEMMA SavedSound ==
    ASSUME NEW c, NEW b, NEW ok, NEW time, Save(c, b, ok), live \in BOOLEAN,
           file \in [custody : Settings, book : Seq(Order)],
           Distinct(c.symbols), Distinct(file.custody.symbols), GoodBook(b, time), GoodBook(file.book, time)
    PROVE  Distinct(file'.custody.symbols) /\ GoodBook(file'.book, time)
  BY Saved, EmptyIsGood

\* Nothing is asked of a run that has no lock.
LEMMA SoundIdle ==
    ASSUME NEW t, t.pc \notin {"read", "stocks"}, NEW list, NEW time
    PROVE  SoundRun(t, list, time)
  BY DEF SoundRun

\* The inductive invariant holds at the start.
LEMMA InvInit == Init /\ (live => ReadableStatuses) => IInv
<1> SUFFICES ASSUME Init, live => ReadableStatuses PROVE IInv
  OBVIOUS
<1>1. TypeOK
  BY TypeInit
<1>2. SettingsInv
  BY DEF Init, SettingsInv, SeedCustody, Distinct, Idle
<1>3. BooksInv
  BY EmptyIsGood DEF Init, BooksInv
<1>4. RunsInv
  BY SoundIdle DEF Init, RunsInv, Idle
<1>5. QED
  BY <1>1, <1>2, <1>3, <1>4 DEF IInv

\* Of the runs, one goes on and the others stay where they are.
OnlyOne(r, t) == /\ run'[r] = t
                 /\ \A q \in Runners : q # r => run'[q] = run[q]

\* A moment of the clock is never followed by an earlier one.
LEMMA TimePasses ==
    ASSUME TypeOK, [Next]_vars, TypeOK'
    PROVE  now \in Nat /\ now' \in Nat /\ now <= now'
<1>1. tick \in DOMAIN Instants /\ tick' \in DOMAIN Instants
  BY DEF TypeOK
<1>2. tick' = tick \/ Tick
  BY DEF Next, Step, Update, Others, vars, Start, Decline, ReadOrders, PassOver, ReadFails, Finish, Place,
         CheckUpdate, WriteUpdate, RunNow, Wake, ManualOrder, Progress, Flush, Restart
<1>3. QED
  BY <1>1, <1>2, Clock DEF now, Tick

\* Every action keeps the inductive invariant.
LEMMA InvStep == IInv /\ [Next]_vars => IInv'
<1> SUFFICES ASSUME IInv, [Next]_vars PROVE IInv'
  OBVIOUS
<1>a. TypeOK /\ TypeOK'
  BY TypeStep DEF IInv
<1>b. now \in Nat /\ now' \in Nat /\ now <= now'
  BY <1>a, TimePasses
<1>t. /\ live \in BOOLEAN /\ custody \in Settings /\ book \in Seq(Order)
      /\ file \in [custody : Settings, book : Seq(Order)]
      /\ run \in [Runners -> RunState] /\ DOMAIN update = Admins
      /\ \A r \in Runners : run[r] \in RunState
  BY <1>a DEF TypeOK
<1>g. file.book \in Seq(Order) /\ file.custody \in Settings
  BY <1>t
<1>c. /\ Distinct(custody.symbols) /\ Distinct(file.custody.symbols)
      /\ \A a \in Admins : update[a].pc = "write" => Distinct(update[a].new.symbols)
  BY DEF IInv, SettingsInv
<1>d. GoodBook(book, now) /\ GoodBook(file.book, now)
  BY DEF IInv, BooksInv
<1>e. \A r \in Runners : /\ run[r].pc \in {"read", "stocks"} => lock = r
                         /\ SoundRun(run[r], book, now)
  BY DEF IInv, RunsInv
<1>f. /\ live => ReadableStatuses
      /\ Free \notin Runners
  BY CustodyAssumption DEF IInv
<1>z. ASSUME SettingsInv', BooksInv', RunsInv', live' = live PROVE IInv'
  BY <1>a, <1>f, <1>z DEF IInv, ReadableStatuses
<1>k. ASSUME custody' = custody, file' = file, update' = update PROVE SettingsInv'
  BY <1>c, <1>k DEF SettingsInv
<1>l. ASSUME book' = book, file' = file, now' = now PROVE BooksInv'
  BY <1>d, <1>l DEF BooksInv
<1>m. ASSUME NEW r \in Runners, NEW t, OnlyOne(r, t), book' = book, now' = now, SoundRun(t, book, now),
             lock' = lock \/ lock = r \/ lock = Free, t.pc \in {"read", "stocks"} => lock' = r
      PROVE  RunsInv'
  <2> SUFFICES ASSUME NEW q \in Runners
               PROVE  /\ run'[q].pc \in {"read", "stocks"} => lock' = q
                      /\ SoundRun(run'[q], book', now')
    BY DEF RunsInv
  <2>1. CASE q = r
    BY <1>m, <2>1 DEF OnlyOne
  <2>2. CASE q # r
    BY <1>e, <1>f, <1>m, <2>2 DEF OnlyOne
  <2>3. QED
    BY <2>1, <2>2
<1>o. ASSUME NEW r \in Runners, NEW t \in RunState, Goto(r, t) PROVE OnlyOne(r, t)
  BY <1>t, <1>o, NextRun DEF OnlyOne
<1>p. ASSUME UNCHANGED <<book, lock, run, tick>> PROVE RunsInv' /\ now' = now
  <2>1. now' = now
    BY <1>p DEF now
  <2>2. QED
    BY <1>e, <1>p, <2>1 DEF RunsInv
<1>1. ASSUME NEW r \in Runners, Start(r) PROVE IInv'
  <2> DEFINE t == [pc |-> "read", settings |-> Chosen(custody), at |-> now]
  <2>1. /\ lock = Free /\ lock' = r /\ Goto(r, t) /\ UNCHANGED <<live, custody, book, file, update, tick>>
    BY <1>1 DEF Start
  <2>2. /\ t \in RunState /\ t.pc = "read" /\ t.at = now /\ t.settings = Chosen(custody)
    BY <1>b, <1>t, SettingsKept DEF RunState
  <2> HIDE DEF t
  <2>3. SoundRun(t, book, now)
    <3>1. Distinct(t.settings.symbols)
      BY <1>c, <1>t, <2>2, SettingsKept
    <3>2. CustodyBefore(book, Len(book), t.at)
      BY <1>d, <2>2 DEF GoodBook, CustodyBefore
    <3>3. QED
      BY <1>b, <2>2, <3>1, <3>2 DEF SoundRun
  <2>4. OnlyOne(r, t) /\ now' = now
    BY <1>o, <2>1, <2>2 DEF now
  <2>5. RunsInv'
    BY <1>m, <2>1, <2>3, <2>4
  <2>6. QED
    BY <1>k, <1>l, <1>z, <2>1, <2>4, <2>5
<1>2. ASSUME NEW r \in Runners, Decline(r) PROVE IInv'
  <2>1. Goto(r, Idle) /\ UNCHANGED <<live, custody, book, file, lock, update, tick>>
    BY <1>2 DEF Decline
  <2>2. Idle \in RunState /\ Idle.pc = "idle"
    BY DEF Idle, RunState
  <2>3. OnlyOne(r, Idle) /\ now' = now /\ SoundRun(Idle, book, now)
    BY <1>o, <2>1, <2>2, SoundIdle DEF now
  <2>4. RunsInv'
    BY <1>m, <2>1, <2>2, <2>3
  <2>5. QED
    BY <1>k, <1>l, <1>z, <2>1, <2>3, <2>4
<1>3. ASSUME NEW r \in Runners, ReadOrders(r) PROVE IInv'
  <2> DEFINE t == AfterReading(run[r], book)
  <2>1. run[r].pc = "read" /\ Goto(r, t) /\ UNCHANGED <<live, custody, book, file, lock, update, tick>>
    BY <1>3 DEF ReadOrders, AfterReading
  <2>2. t \in RunState /\ SoundRun(t, book, now)
    BY <1>b, <1>d, <1>e, <1>t, <2>1, SoundReading DEF GoodBook
  <2> HIDE DEF t
  <2>3. OnlyOne(r, t) /\ now' = now /\ lock' = r
    BY <1>e, <1>o, <2>1, <2>2 DEF now
  <2>4. RunsInv'
    BY <1>m, <2>1, <2>2, <2>3
  <2>5. QED
    BY <1>k, <1>l, <1>z, <2>1, <2>3, <2>4
<1>4. ASSUME NEW r \in Runners, PassOver(r) PROVE IInv'
  <2> DEFINE t == Dropped(run[r])
  <2>1. /\ run[r].pc = "stocks" /\ run[r].todo # <<>>
        /\ UNCHANGED <<live, custody, book, file, lock, update, tick>>
    BY <1>4 DEF PassOver
  <2>2. t \in RunState /\ Goto(r, t)
    BY <1>4, <1>t, NextDropped DEF PassOver
  <2>3. SoundRun(t, book, now)
    BY <1>b, <1>e, <1>t, <2>1, SoundDropped
  <2> HIDE DEF t
  <2>4. OnlyOne(r, t) /\ now' = now /\ lock' = r
    BY <1>e, <1>o, <2>1, <2>2 DEF now
  <2>5. RunsInv'
    BY <1>m, <2>1, <2>3, <2>4
  <2>6. QED
    BY <1>k, <1>l, <1>z, <2>1, <2>4, <2>5
<1>5. ASSUME NEW r \in Runners, NEW ok \in BOOLEAN, ReadFails(r, ok) \/ Finish(r, ok) PROVE IInv'
  <2>1. /\ run[r].pc \in {"read", "stocks"} /\ Goto(r, Idle) /\ lock' = Free
        /\ custody' = Recorded(custody, run[r].at) /\ Save(custody', book, ok)
        /\ UNCHANGED <<live, book, update, tick>>
    BY <1>5 DEF ReadFails, Finish, Record, Recorded
  <2>2. Idle \in RunState /\ Idle.pc = "idle"
    BY DEF Idle, RunState
  <2>3. OnlyOne(r, Idle) /\ now' = now /\ SoundRun(Idle, book, now) /\ lock = r
    BY <1>e, <1>o, <2>1, <2>2, SoundIdle DEF now
  <2>4. RunsInv'
    BY <1>m, <2>1, <2>2, <2>3
  <2>5. Distinct(custody'.symbols)
    <3>1. run[r].at \in Int
      BY <1>t, <2>1, RunFields
    <3>2. Recorded(custody, run[r].at).symbols = custody.symbols
      BY <1>t, <3>1, SettingsKept
    <3>3. QED
      BY <1>c, <2>1, <3>2
  <2>6. Distinct(file'.custody.symbols) /\ GoodBook(file'.book, now)
    BY <1>c, <1>d, <1>t, <2>1, <2>5, SavedSound
  <2>7. SettingsInv' /\ BooksInv'
    BY <1>c, <1>d, <2>1, <2>3, <2>5, <2>6 DEF SettingsInv, BooksInv
  <2>8. QED
    BY <1>z, <2>1, <2>4, <2>7
<1>6. ASSUME NEW r \in Runners, NEW sig \in Signals, NEW status \in Working \cup Ended, NEW ok \in BOOLEAN,
             Place(r, sig, status, ok)
      PROVE  IInv'
  <2> DEFINE o == [symbol |-> Head(run[r].todo), side |-> sig.side, status |-> status,
                   at |-> now, custody |-> TRUE]
             t == Dropped(run[r])
  <2>1. /\ book' = Append(book, o) /\ Save(custody, book', ok) /\ UNCHANGED <<live, custody, lock, update, tick>>
        /\ run[r].pc = "stocks" /\ run[r].todo # <<>>
        /\ status \in IF live THEN GatewayStatuses ELSE {"FILLED"}
        /\ ~HasOrderToday(run[r].seen, Head(run[r].todo), sig.side, run[r].at)
    BY <1>6 DEF Place
  <2>2. t \in RunState /\ Goto(r, t)
    BY <1>6, <1>t, NextDropped DEF Place
  <2>3. /\ o \in Order /\ o.symbol = Head(run[r].todo) /\ o.side = sig.side /\ o.status = status /\ o.at = now
    <3>1. Head(run[r].todo) \in Symbols
      BY <1>t, <2>1, RunFields, RestOfList
    <3>2. sig.side \in Sides
      BY CustodyAssumption
    <3>3. QED
      BY <1>b, <3>1, <3>2, OrderTyped
  <2>4. now' = now
    BY <2>1 DEF now
  <2>5. run[r] \in RunState /\ SoundRun(run[r], book, now) /\ lock = r
    BY <1>e, <1>t, <2>1
  <2> HIDE DEF o
  <2>6. SoundRun(t, book', now)
    BY <1>b, <1>t, <2>1, <2>3, <2>5, SoundPlaced
  <2> HIDE DEF t
  <2>7. GoodBook(book', now)
    <3>1. o.status \in Counted \cup Undone
      BY <1>f, <2>1, <2>3 DEF ReadableStatuses, Counted
    <3>2. \A i \in DOMAIN book :
             (/\ book[i].custody /\ book[i].symbol = o.symbol /\ book[i].side = o.side
              /\ Day(book[i].at) = Day(o.at) /\ book[i].status \notin Undone)
             => Len(book) + 1 - i > Window
      BY <1>b, <1>d, <1>t, <2>1, <2>3, <2>5, NoRepeat
    <3>3. QED
      BY <1>b, <1>d, <1>t, <2>1, <2>3, <3>1, <3>2, OneMoreIsGood
  <2>8. RunsInv'
    <3> SUFFICES ASSUME NEW q \in Runners
                 PROVE  /\ run'[q].pc \in {"read", "stocks"} => lock' = q
                        /\ SoundRun(run'[q], book', now')
      BY DEF RunsInv
    <3>0. OnlyOne(r, t) /\ lock' = lock
      BY <1>o, <2>1, <2>2
    <3>1. CASE q = r
      BY <2>4, <2>5, <2>6, <3>0, <3>1 DEF OnlyOne
    <3>2. CASE q # r
      <4>1. run'[q] = run[q] /\ run[q].pc \notin {"read", "stocks"}
        BY <1>e, <2>5, <3>0, <3>2 DEF OnlyOne
      <4>2. QED
        BY <4>1, SoundIdle
    <3>3. QED
      BY <3>1, <3>2
  <2>9. SettingsInv' /\ BooksInv'
    <3>1. Distinct(file'.custody.symbols) /\ GoodBook(file'.book, now)
      BY <1>c, <1>d, <1>t, <2>1, <2>7, SavedSound
    <3>2. QED
      BY <1>c, <2>1, <2>4, <2>7, <3>1 DEF SettingsInv, BooksInv
  <2>10. QED
    BY <1>z, <2>1, <2>8, <2>9
<1>7. ASSUME NEW a \in Admins, NEW in \in Inputs, NEW confirmed \in BOOLEAN, CheckUpdate(a, in, confirmed)
      PROVE  IInv'
  <2> DEFINE new == Requested(in, custody)
             pending == Pending(new, custody.enabled)
  <2>1. /\ update' = [update EXCEPT ![a] = pending]
        /\ UNCHANGED <<live, custody, book, file, lock, run, tick>>
    BY <1>7 DEF CheckUpdate, Pending, Requested
  <2>2. Distinct(new.symbols)
    BY <1>t, UpdateNames
  <2>3. pending.new = new
    BY DEF Pending
  <2> HIDE DEF new, pending
  <2>4. SettingsInv'
    <3>1. \A b \in Admins : update'[b] = IF b = a THEN pending ELSE update[b]
      BY <1>t, <2>1
    <3>2. QED
      BY <1>c, <2>1, <2>2, <2>3, <3>1 DEF SettingsInv
  <2>5. RunsInv' /\ now' = now
    BY <1>p, <2>1
  <2>6. QED
    BY <1>l, <1>z, <2>1, <2>4, <2>5
<1>8. ASSUME NEW a \in Admins, NEW ok \in BOOLEAN, WriteUpdate(a, ok) PROVE IInv'
  <2>1. /\ update[a].pc = "write" /\ custody' = update[a].new /\ Save(custody', book, ok)
        /\ UNCHANGED <<live, book, lock, run, tick>>
    BY <1>8 DEF WriteUpdate
  <2>2. \A b \in Admins : update'[b] = IF b = a THEN Idle ELSE update[b]
    BY <1>8, <1>t DEF WriteUpdate
  <2>3. Distinct(custody'.symbols)
    BY <1>c, <2>1
  <2>4. Distinct(file'.custody.symbols) /\ GoodBook(file'.book, now)
    BY <1>c, <1>d, <1>t, <2>1, <2>3, SavedSound
  <2>5. RunsInv' /\ now' = now
    BY <1>p, <2>1
  <2>6. SettingsInv'
    BY <1>c, <2>2, <2>3, <2>4 DEF SettingsInv, Idle
  <2>7. BooksInv'
    BY <1>d, <2>1, <2>4, <2>5 DEF BooksInv
  <2>8. QED
    BY <1>z, <2>1, <2>5, <2>6, <2>7
<1>9. ASSUME NEW r \in Runners, NEW force \in BOOLEAN, run[r] = Idle,
             Goto(r, [pc |-> "lock", force |-> force]),
             UNCHANGED <<live, custody, book, file, lock, update, tick>>
      PROVE  IInv'
  <2> DEFINE t == [pc |-> "lock", force |-> force]
  <2>1. t \in RunState /\ t.pc = "lock"
    BY DEF RunState
  <2>2. Goto(r, t)
    BY <1>9
  <2> HIDE DEF t
  <2>3. OnlyOne(r, t) /\ now' = now /\ SoundRun(t, book, now)
    BY <1>o, <1>9, <2>1, <2>2, SoundIdle DEF now
  <2>4. RunsInv'
    BY <1>m, <1>9, <2>1, <2>3
  <2>5. QED
    BY <1>k, <1>l, <1>z, <1>9, <2>3, <2>4
<1>10. ASSUME NEW m \in Manual, NEW status \in Working \cup Ended, NEW ok \in BOOLEAN,
              ManualOrder(m, status, ok)
       PROVE  IInv'
  <2> DEFINE o == [symbol |-> m.symbol, side |-> m.side, status |-> status, at |-> now, custody |-> FALSE]
  <2>1. /\ book' = Append(book, o) /\ Save(custody, book', ok)
        /\ UNCHANGED <<live, custody, lock, run, update, tick>>
        /\ status \in IF live THEN GatewayStatuses ELSE {"PENDING", "FILLED"}
    BY <1>10 DEF ManualOrder
  <2>2. o \in Order /\ o.status = status /\ o.at = now /\ ~o.custody
    BY <1>b, CustodyAssumption, OrderTyped
  <2> HIDE DEF o
  <2>3. now' = now
    BY <2>1 DEF now
  <2>4. GoodBook(book', now)
    <3>1. o.status \in Counted \cup Undone
      BY <1>f, <2>1, <2>2 DEF ReadableStatuses, Counted
    <3>2. QED
      BY <1>b, <1>d, <1>t, <2>1, <2>2, <3>1, OneMoreIsGood
  <2>5. RunsInv'
    <3>1. \A r \in Runners : SoundRun(run[r], book', now)
      BY <1>b, <1>e, <1>t, <2>1, <2>2, SoundMore
    <3>2. QED
      BY <1>e, <2>1, <2>3, <3>1 DEF RunsInv
  <2>6. SettingsInv' /\ BooksInv'
    <3>1. Distinct(file'.custody.symbols) /\ GoodBook(file'.book, now)
      BY <1>c, <1>d, <1>t, <2>1, <2>4, SavedSound
    <3>2. QED
      BY <1>c, <2>1, <2>3, <2>4, <3>1 DEF SettingsInv, BooksInv
  <2>7. QED
    BY <1>z, <2>1, <2>5, <2>6
<1>11. ASSUME NEW i \in DOMAIN book, NEW status \in Working \cup Ended, NEW ok \in BOOLEAN,
              Progress(i, status, ok)
       PROVE  IInv'
  <2>1. /\ book' = WithStatus(book, i, status) /\ Save(custody, book', ok)
        /\ UNCHANGED <<live, custody, lock, run, update, tick>>
        /\ book[i].status \in Working
        /\ status \in (IF live THEN GatewayStatuses ELSE Ended)
    BY <1>11 DEF Progress, WithStatus
  <2>2. now' = now
    BY <2>1 DEF now
  <2>3. /\ DOMAIN book' = DOMAIN book /\ Len(book') = Len(book)
        /\ \A j \in DOMAIN book : j # i => book'[j] = book[j]
        /\ book'[i].symbol = book[i].symbol /\ book'[i].side = book[i].side
        /\ book'[i].at = book[i].at /\ book'[i].custody = book[i].custody
        /\ book'[i].status = status
    BY <1>t, <2>1, StatusTyped
  <2>4. \A j \in DOMAIN book : book[j].status \in Counted \cup Undone
    BY <1>d DEF GoodBook
  <2>5. book[i].status \in Counted /\ status \in Counted \cup Undone
    BY <1>f, <2>1, <2>4 DEF ReadableStatuses, Working, Ended, Counted, Undone
  <2>6. Later(book, book')
    BY <2>3, <2>4, <2>5 DEF Later
  <2>7. GoodBook(book', now)
    BY <1>d, <2>6, LaterIsGood
  <2>8. RunsInv'
    <3>1. \A r \in Runners : SoundRun(run[r], book', now)
      BY <1>b, <1>e, <1>t, <2>6, SoundLater
    <3>2. QED
      BY <1>e, <2>1, <2>2, <3>1 DEF RunsInv
  <2>9. SettingsInv' /\ BooksInv'
    <3>1. Distinct(file'.custody.symbols) /\ GoodBook(file'.book, now)
      BY <1>c, <1>d, <1>t, <2>1, <2>7, SavedSound
    <3>2. QED
      BY <1>c, <2>1, <2>2, <2>7, <3>1 DEF SettingsInv, BooksInv
  <2>10. QED
    BY <1>z, <2>1, <2>8, <2>9
<1>12. CASE Flush
  <2>1. \E ok : Save(custody, book, ok)
    BY <1>12 DEF Flush
  <2>2. UNCHANGED <<live, custody, book, lock, run, update, tick>>
    BY <1>12 DEF Flush
  <2>3. Distinct(file'.custody.symbols) /\ GoodBook(file'.book, now)
    BY <1>c, <1>d, <1>t, <2>1, SavedSound
  <2>4. RunsInv' /\ now' = now
    BY <1>p, <2>2
  <2>5. SettingsInv' /\ BooksInv'
    BY <1>c, <1>d, <2>2, <2>3, <2>4 DEF SettingsInv, BooksInv
  <2>6. QED
    BY <1>z, <2>2, <2>4, <2>5
<1>13. CASE Tick
  <2>1. UNCHANGED <<live, custody, book, file, lock, run, update>>
    BY <1>13 DEF Tick
  <2>2. GoodBook(book, now') /\ GoodBook(file.book, now')
    BY <1>b, <1>d, <1>g, <1>t, GoodForever
  <2>3. \A r \in Runners : SoundRun(run[r], book, now')
    <3>1. Later(book, book)
      BY <1>d, SameIsLater
    <3>2. QED
      BY <1>b, <1>e, <1>t, <3>1, SoundLater
  <2>4. BooksInv' /\ RunsInv'
    BY <1>e, <2>1, <2>2, <2>3 DEF BooksInv, RunsInv
  <2>5. QED
    BY <1>k, <1>z, <2>1, <2>4
<1>14. CASE Restart
  <2>1. /\ custody' = Normalize(file.custody) /\ book' = (IF live THEN book ELSE file.book)
        /\ UNCHANGED <<live, file, tick>>
    BY <1>14 DEF Restart
  <2>2. /\ \A r \in Runners : run'[r] = Idle
        /\ \A a \in Admins : update'[a] = Idle
    BY <1>14 DEF Restart
  <2>3. Idle.pc = "idle" /\ now' = now
    BY <2>1 DEF Idle, now
  <2>4. SettingsInv'
    <3>1. Distinct(custody'.symbols)
      BY <1>c, <1>g, <2>1, SettingsKept
    <3>2. QED
      BY <1>c, <2>1, <2>2, <2>3, <3>1 DEF SettingsInv
  <2>5. BooksInv'
    BY <1>d, <2>1, <2>3 DEF BooksInv
  <2>6. RunsInv'
    BY <2>2, <2>3, SoundIdle DEF RunsInv
  <2>7. QED
    BY <1>z, <2>1, <2>4, <2>5, <2>6
<1>15. CASE UNCHANGED vars
  <2>1. UNCHANGED <<live, custody, book, file, lock, run, update, tick>>
    BY <1>15 DEF vars
  <2>2. RunsInv' /\ now' = now
    BY <1>p, <2>1
  <2>3. QED
    BY <1>k, <1>l, <1>z, <2>1, <2>2
<1>16. ASSUME NEW a \in Admins, NEW force \in BOOLEAN, RunNow(a, force) PROVE IInv'
  BY <1>9, <1>16 DEF RunNow, Runners
<1>17. CASE Wake
  BY <1>9, <1>17 DEF Wake, Runners
<1>18. QED
  BY <1>1, <1>2, <1>3, <1>4, <1>5, <1>6, <1>7, <1>8, <1>10, <1>11, <1>12, <1>13, <1>14, <1>15, <1>16, <1>17
     DEF Next, Step, Update, Others

----------------------------------------------------------------------------
(* The theorem *)

\* The mode and what the gateway may report never change.
LEMMA ModeStays == [Next]_vars => live' = live
  BY DEF Next, Step, Update, Others, vars, Start, Decline, ReadOrders, PassOver, ReadFails, Finish, Place,
         CheckUpdate, WriteUpdate, RunNow, Wake, ManualOrder, Progress, Flush, Tick, Restart

\* hasOrderToday keeps custody to one order a day on a stock and side that was not
\* canceled or refused, as far back as a run reads the orders, however runs, restarts,
\* updates, trades by hand and lost answers interleave: always in paper mode, and with
\* the gateway as long as it reports no status that hasOrderToday does not look for.
THEOREM OnceADay == Spec /\ (live => ReadableStatuses) => []OncePerDay
<1>1. IInv => OncePerDay
  BY DEF IInv, BooksInv, GoodBook, Once, OncePerDay, Undone
<1>2. QED
  BY <1>1, InvInit, InvStep, PTL DEF Spec

\* A step that changes what an administrator chose is one of UpdateCustody or a restart.
LEMMA SettingsStep ==
    TypeOK /\ [Next]_vars => [\/ Chosen(custody') = Chosen(custody)
                               \/ update' # update
                               \/ Restart]_vars
<1>1. ASSUME TypeOK, [Next]_vars, ~(update' # update), ~Restart
      PROVE  Chosen(custody') = Chosen(custody)
  <2>1. \/ custody' = custody
        \/ \E r \in Runners : custody' = Recorded(custody, run[r].at)
        \/ \E a \in Admins, ok \in BOOLEAN : WriteUpdate(a, ok)
    BY <1>1 DEF Next, Step, Update, Others, vars, Start, Decline, ReadOrders, PassOver, ReadFails, Finish, Place,
          Record, Recorded, CheckUpdate, RunNow, Wake, ManualOrder, Progress, Flush, Tick
  <2>2. \A at : Chosen(Recorded(custody, at)) = Chosen(custody)
    BY <1>1 DEF TypeOK, Chosen, Recorded, Settings, SettingsOf
  <2>3. ASSUME NEW a \in Admins, NEW ok \in BOOLEAN, WriteUpdate(a, ok)
        PROVE  update' # update
    <3>1. update[a].pc = "write" /\ update'[a] = Idle
      BY <1>1, <2>3 DEF WriteUpdate, TypeOK
    <3>2. QED
      BY <3>1 DEF Idle
  <2>4. QED
    BY <1>1, <2>1, <2>2, <2>3
<1>2. QED
  BY <1>1

\* Until a restart only UpdateCustody changes what an administrator chose: a run that ends
\* writes the time of its start into the settings as they are then, never those it began with.
THEOREM SettingsStay == Spec => RunsKeepSettings
<1>1. QED
  BY SettingsStep, TypeCorrect, PTL DEF Spec, RunsKeepSettings
=============================================================================
