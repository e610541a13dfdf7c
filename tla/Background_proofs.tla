------------------------- MODULE Background_proofs -------------------------
(***************************************************************************)
(* Theorems about the tasks in Background, for any agents, stocks,         *)
(* fetches, slots and times, any administrators and any clock.  Of the     *)
(* custody loop they are those of Custody_proofs.                          *)
(***************************************************************************)
EXTENDS Background, FiniteSetTheorems, TLAPS

----------------------------------------------------------------------------
(* K-lines in the cache *)

Forms == {"none", "provider", "caller"}

\* What the provider leaves does not outlive its short time to live; what a caller leaves
\* began at most that old, and is kept for no longer than the preloading keeps it.
SoundEntry(e) ==
    \/ e = Data!NoEntry
    \/ /\ e.age \in Nat /\ e.ttl \in Nat \ {0}
       /\ \/ e.form = "provider" /\ e.age + e.ttl <= ProviderTTL
          \/ e.form = "caller" /\ e.age + e.ttl <= ProviderTTL + PrefetchTTL /\ e.ttl <= PrefetchTTL

\* K-lines on their way into the cache are new, or were read from an entry of the provider.
SoundTask(t) ==
    /\ t.pc \in {"idle", "wait", "ask", "provider", "caller"}
    /\ t.pc \in {"wait", "ask", "provider", "caller"} => t.symbol \in Data!Symbols
    /\ t.pc = "provider" => t.age = 0
    /\ t.pc = "caller" => t.age \in 0..ProviderTTL

Records == [pc : {"idle", "wait", "ask", "provider", "caller"}, kind : Data!Kinds \cup {"none"},
            symbol : Data!Symbols \cup {"none"}, age : Nat]

DataInv == /\ redis \in [Data!Symbols -> [age : Nat, ttl : Nat, form : Forms]]
           /\ fetching \in [Fetches -> Records]
           /\ \A s \in Data!Symbols : SoundEntry(redis[s])
           /\ \A t \in Fetches : SoundTask(fetching[t])

\* The empty cache satisfies the invariant.
LEMMA DataInit == ASSUME Data!KlinesAssumption, Data!Init PROVE DataInv
  <1>1. redis = [s \in Data!Symbols |-> Data!NoEntry] /\ fetching = [t \in Fetches |-> Data!Idle]
    BY DEF Data!Init
  <1>2. Data!NoEntry \in [age : Nat, ttl : Nat, form : Forms]
    BY DEF Data!NoEntry, Forms
  <1>3. Data!Idle \in Records /\ SoundTask(Data!Idle)
    BY DEF Data!Idle, Records, SoundTask
  <1> QED BY <1>1, <1>2, <1>3 DEF DataInv, SoundEntry

\* A fetch that moves on and leaves the cache alone keeps the invariant when its record is sound.
LEMMA FetchStep ==
    ASSUME DataInv, NEW t \in Fetches, NEW r \in Records, SoundTask(r),
           fetching' = [fetching EXCEPT ![t] = r], redis' = redis
    PROVE  DataInv'
  BY DEF DataInv, SoundTask, SoundEntry, Data!Symbols

\* So does a fetch that writes a sound entry.
LEMMA WriteStep ==
    ASSUME DataInv, NEW t \in Fetches, NEW r \in Records, SoundTask(r),
           fetching' = [fetching EXCEPT ![t] = r],
           NEW s \in Data!Symbols, NEW e \in [age : Nat, ttl : Nat, form : Forms], SoundEntry(e),
           redis' = [redis EXCEPT ![s] = e]
    PROVE  DataInv'
  BY DEF DataInv, SoundTask, SoundEntry, Data!Symbols

\* An entry that is written is one of these.
Written == {e \in [age : Nat, ttl : Nat, form : Forms] : SoundEntry(e) /\ e.form # "none"}

ProviderEntry == [age |-> 0, ttl |-> ProviderTTL, form |-> "provider"]

\* A fetch that is over is sound.
LEMMA IdleIsSound == Data!Idle \in Records /\ SoundTask(Data!Idle)
  BY DEF Data!Idle, Records, SoundTask

\* What a provider writes is new.
LEMMA ProviderEntryIsSound ==
    ASSUME Data!KlinesAssumption
    PROVE  ProviderEntry \in Written /\ SoundEntry(ProviderEntry)
  <1>1. ProviderTTL \in Nat \ {0}
    BY DEF Data!KlinesAssumption
  <1> QED BY <1>1 DEF ProviderEntry, Written, SoundEntry, Forms

\* What a caller writes is at most as old as an entry of the provider gets.
LEMMA CallerEntryIsSound ==
    ASSUME Data!KlinesAssumption, NEW t, NEW a \in 0..ProviderTTL
    PROVE  Data!Entry(a, Data!TTL(t), "caller") \in Written /\ SoundEntry(Data!Entry(a, Data!TTL(t), "caller"))
  <1>1. ProviderTTL \in Nat /\ Data!TTL(t) \in Nat \ {0} /\ Data!TTL(t) <= PrefetchTTL /\ PrefetchTTL \in Nat
    BY DEF Data!KlinesAssumption, Data!TTL
  <1> QED BY <1>1 DEF Data!Entry, Written, SoundEntry, Forms

\* As time passes the age and the time to live that is left have the same sum.
LEMMA OlderIsSound ==
    ASSUME NEW e \in [age : Nat, ttl : Nat, form : Forms], SoundEntry(e)
    PROVE  Data!Older(e) \in [age : Nat, ttl : Nat, form : Forms] /\ SoundEntry(Data!Older(e))
  <1>1. CASE e.ttl <= 1
    BY <1>1 DEF Data!Older, Data!NoEntry, SoundEntry, Forms
  <1>2. CASE ~(e.ttl <= 1)
    <2>1. Data!Older(e) = [age |-> e.age + 1, ttl |-> e.ttl - 1, form |-> e.form]
      BY <1>2 DEF Data!Older
    <2>2. e # Data!NoEntry
      BY <1>2 DEF Data!NoEntry
    <2>3. e.age + e.ttl = (e.age + 1) + (e.ttl - 1) /\ e.ttl - 1 \in Nat \ {0} /\ e.ttl - 1 <= e.ttl
      BY <1>2, <2>2 DEF SoundEntry
    <2>4. ProviderTTL \in Nat /\ PrefetchTTL \in Nat
      BY ConstantsAreSound DEF Data!KlinesAssumption
    <2> QED BY <1>2, <2>1, <2>2, <2>3, <2>4 DEF SoundEntry
  <1> QED BY <1>1, <1>2

\* A call that begins a fetch leaves the cache alone.
LEMMA BeginStep ==
    ASSUME DataInv, NEW t \in Fetches, NEW kind \in Data!Kinds, NEW s \in Data!Symbols, Data!Begin(t, kind, s), redis' = redis
    PROVE  DataInv'
  <1> DEFINE r == [pc |-> "wait", kind |-> kind, symbol |-> s, age |-> 0]
  <1>1. r \in Records /\ SoundTask(r)
    BY DEF Records, SoundTask, Data!Symbols
  <1>2. fetching' = [fetching EXCEPT ![t] = r]
    BY DEF Data!Begin
  <1> QED BY <1>1, <1>2, FetchStep

\* Every step keeps the invariant.
LEMMA DataStep == ASSUME Data!KlinesAssumption, DataInv, [Data!Next]_dataVars PROVE DataInv'
  <1>1. CASE UNCHANGED <<redis, fetching>>
    BY <1>1 DEF DataInv
  <1>2. ASSUME NEW t \in Fetches, NEW s \in Data!Symbols,
               Data!Preload(t, s) \/ Data!FetchWarm(t, s) \/ Data!Refresh(t, s) \/ Data!Ensure(t, s) \/ Data!Analyze(t, s)
        PROVE  DataInv'
    <2>1. /\ redis' = redis
          /\ \E kind \in Data!Kinds : Data!Begin(t, kind, s)
      BY <1>2 DEF Data!Preload, Data!FetchWarm, Data!Refresh, Data!Ensure, Data!Analyze, Data!Kinds
    <2> QED BY <2>1, BeginStep
  <1>3. ASSUME NEW t \in Fetches, Data!Ask(t) PROVE DataInv'
    <2> DEFINE r == [fetching[t] EXCEPT !.pc = "ask"]
    <2>1. r \in Records /\ SoundTask(r)
      BY <1>3 DEF Data!Ask, DataInv, Records, SoundTask
    <2>2. fetching' = [fetching EXCEPT ![t] = r] /\ redis' = redis
      BY <1>3 DEF Data!Ask, Data!Goto, DataInv, Records
    <2> QED BY <2>1, <2>2, FetchStep
  <1>4. ASSUME NEW t \in Fetches, Data!SourceAnswers(t) PROVE DataInv'
    <2> DEFINE r == [fetching[t] EXCEPT !.pc = "provider", !.age = 0]
    <2>1. r \in Records /\ SoundTask(r)
      BY <1>4 DEF Data!SourceAnswers, DataInv, Records, SoundTask
    <2>2. fetching' = [fetching EXCEPT ![t] = r] /\ redis' = redis
      BY <1>4 DEF Data!SourceAnswers, DataInv, Records
    <2> QED BY <2>1, <2>2, FetchStep
  <1>5. ASSUME NEW t \in Fetches, Data!FallbackAnswers(t) PROVE DataInv'
    <2> DEFINE e == redis[fetching[t].symbol]
               r == [fetching[t] EXCEPT !.pc = "caller", !.age = e.age]
    <2>1. fetching[t].symbol \in Data!Symbols
      BY <1>5 DEF Data!FallbackAnswers, DataInv, SoundTask
    <2>2. e.age \in 0..ProviderTTL
      <3>1. SoundEntry(e) /\ e.form = "provider" /\ e \in [age : Nat, ttl : Nat, form : Forms]
        BY <1>5, <2>1 DEF Data!FallbackAnswers, Data!Readable, DataInv
      <3>2. e.ttl \in Nat /\ e.age \in Nat /\ e.age + e.ttl <= ProviderTTL
        BY <3>1 DEF SoundEntry, Data!NoEntry
      <3> HIDE DEF e
      <3>3. ProviderTTL \in Nat
        BY DEF Data!KlinesAssumption
      <3> QED BY <3>2, <3>3
    <2>3. r \in Records /\ SoundTask(r)
      BY <1>5, <2>1, <2>2 DEF Data!FallbackAnswers, DataInv, Records, SoundTask
    <2>4. fetching' = [fetching EXCEPT ![t] = r] /\ redis' = redis
      BY <1>5 DEF Data!FallbackAnswers, DataInv, Records
    <2> QED BY <2>3, <2>4, FetchStep
  <1>6. ASSUME NEW t \in Fetches, NEW accepted \in BOOLEAN, Data!ProviderWrites(t, accepted) PROVE DataInv'
    <2> DEFINE r == [fetching[t] EXCEPT !.pc = IF accepted THEN "caller" ELSE "ask"]
    <2>1. r \in Records /\ SoundTask(r)
      BY <1>6 DEF Data!ProviderWrites, DataInv, Records, SoundTask, Data!KlinesAssumption
    <2>2. fetching' = [fetching EXCEPT ![t] = r]
      BY <1>6 DEF Data!ProviderWrites, Data!Goto, DataInv, Records
    <2>3. redis' = [redis EXCEPT ![fetching[t].symbol] = ProviderEntry]
      BY <1>6 DEF Data!ProviderWrites, DataInv, SoundTask, Data!Entry, ProviderEntry
    <2>4. fetching[t].symbol \in Data!Symbols
      BY <1>6 DEF Data!ProviderWrites, DataInv, SoundTask
    <2> QED BY <2>1, <2>2, <2>3, <2>4, ProviderEntryIsSound, WriteStep DEF Written
  <1>7. ASSUME NEW t \in Fetches, NEW works \in BOOLEAN, Data!CallerWrites(t, works) PROVE DataInv'
    <2>1. fetching' = [fetching EXCEPT ![t] = Data!Idle]
      BY <1>7 DEF Data!CallerWrites, Data!End
    <2>2. fetching[t].symbol \in Data!Symbols /\ fetching[t].age \in 0..ProviderTTL
      BY <1>7 DEF Data!CallerWrites, DataInv, SoundTask
    <2>3. CASE works
      <3>1. redis' = [redis EXCEPT ![fetching[t].symbol] = Data!Entry(fetching[t].age, Data!TTL(t), "caller")]
        BY <1>7, <2>3 DEF Data!CallerWrites
      <3> QED BY <2>1, <2>2, <3>1, CallerEntryIsSound, IdleIsSound, WriteStep DEF Written
    <2>4. CASE ~works
      BY <1>7, <2>1, <2>4, IdleIsSound, FetchStep DEF Data!CallerWrites
    <2> QED BY <2>3, <2>4
  <1>8. ASSUME NEW t \in Fetches, Data!FetchFails(t) PROVE DataInv'
    BY <1>8, IdleIsSound, FetchStep DEF Data!FetchFails, Data!End
  <1>9. CASE Data!Tick
    <2>1. fetching' = fetching /\ redis' = [s \in Data!Symbols |-> Data!Older(redis[s])]
      BY <1>9 DEF Data!Tick
    <2>2. \A s \in Data!Symbols : /\ Data!Older(redis[s]) \in [age : Nat, ttl : Nat, form : Forms]
                             /\ SoundEntry(Data!Older(redis[s]))
      BY OlderIsSound DEF DataInv
    <2> QED BY <2>1, <2>2 DEF DataInv
  <1> QED
    BY <1>1, <1>2, <1>3, <1>4, <1>5, <1>6, <1>7, <1>8, <1>9
    DEF Data!Next, Data!Startup, Data!Work, dataVars, Data!PreloadKnown, Data!SkipWarm, Data!StartWorker

\* The steps that change the cache write one entry or let time pass.
LEMMA CacheSteps ==
    ASSUME Data!KlinesAssumption, DataInv, [Data!Next]_dataVars
    PROVE  \/ redis' = redis
           \/ \E s \in Data!Symbols, e \in Written : redis' = [redis EXCEPT ![s] = e]
           \/ redis' = [s \in Data!Symbols |-> Data!Older(redis[s])]
  <1>1. ASSUME NEW t \in Fetches, NEW accepted \in BOOLEAN, Data!ProviderWrites(t, accepted)
        PROVE  \E s \in Data!Symbols, e \in Written : redis' = [redis EXCEPT ![s] = e]
    <2>1. redis' = [redis EXCEPT ![fetching[t].symbol] = ProviderEntry]
      BY <1>1 DEF Data!ProviderWrites, DataInv, SoundTask, Data!Entry, ProviderEntry
    <2>2. fetching[t].symbol \in Data!Symbols
      BY <1>1 DEF Data!ProviderWrites, DataInv, SoundTask
    <2> QED BY <2>1, <2>2, ProviderEntryIsSound
  <1>2. ASSUME NEW t \in Fetches, NEW works \in BOOLEAN, Data!CallerWrites(t, works)
        PROVE  \/ redis' = redis
               \/ \E s \in Data!Symbols, e \in Written : redis' = [redis EXCEPT ![s] = e]
    <2>1. fetching[t].symbol \in Data!Symbols /\ fetching[t].age \in 0..ProviderTTL
      BY <1>2 DEF Data!CallerWrites, DataInv, SoundTask
    <2> QED BY <1>2, <2>1, CallerEntryIsSound DEF Data!CallerWrites
  <1> QED
    BY <1>1, <1>2
    DEF Data!Next, Data!Startup, Data!Work, dataVars, Data!PreloadKnown, Data!SkipWarm, Data!StartWorker, Data!Preload, Data!FetchWarm,
        Data!Refresh, Data!Ensure, Data!Analyze, Data!Ask, Data!SourceAnswers, Data!FallbackAnswers, Data!FetchFails, Data!Tick

\* The cache as callers see it.
Cached == [s \in Data!Symbols |-> IF redis[s] = Data!NoEntry THEN -1 ELSE redis[s].age]

\* A written entry is bounded by both times to live together.
LEMMA WrittenIsBounded ==
    ASSUME Data!KlinesAssumption, NEW e \in [age : Nat, ttl : Nat, form : Forms], SoundEntry(e), e # Data!NoEntry
    PROVE  e.age \in 0..(ProviderTTL + PrefetchTTL)
  <1>1. ProviderTTL \in Nat /\ PrefetchTTL \in Nat
    BY DEF Data!KlinesAssumption
  <1> QED BY <1>1 DEF SoundEntry

\* A tick of the clock is a Pass of the cache.
LEMMA PassStep ==
    ASSUME Data!KlinesAssumption, DataInv, DataInv', redis' = [s \in Data!Symbols |-> Data!Older(redis[s])]
    PROVE  Data!Promised!Next
  <1> DEFINE gone == {s \in Data!Symbols : redis'[s] = Data!NoEntry}
             aged(s) == IF s \in gone \/ Cached[s] = -1 THEN -1 ELSE Cached[s] + 1
  <1>1. ASSUME NEW s \in Data!Symbols PROVE Cached'[s] = aged(s)
    <2>1. redis[s] \in [age : Nat, ttl : Nat, form : Forms] /\ SoundEntry(redis[s])
      BY DEF DataInv
    <2>2. Cached'[s] = IF Data!Older(redis[s]) = Data!NoEntry THEN -1 ELSE Data!Older(redis[s]).age
      BY DEF Cached
    <2>3. CASE redis[s].ttl <= 1
      BY <2>2, <2>3 DEF Data!Older
    <2>4. CASE ~(redis[s].ttl <= 1)
      <3>1. redis[s] # Data!NoEntry
        BY <2>4 DEF Data!NoEntry
      <3>2. Data!Older(redis[s]) = [age |-> redis[s].age + 1, ttl |-> redis[s].ttl - 1, form |-> redis[s].form]
        BY <2>1, <2>4 DEF Data!Older
      <3>3. Data!Older(redis[s]) # Data!NoEntry
        BY <2>1, <3>1, <3>2 DEF Data!NoEntry, SoundEntry
      <3>4. Cached[s] = redis[s].age /\ redis[s].age \in Nat
        BY <2>1, <3>1 DEF Cached
      <3> QED BY <2>2, <3>2, <3>3, <3>4
    <2> QED BY <2>3, <2>4
  <1>2. Cached' = [s \in Data!Symbols |-> aged(s)]
    BY <1>1 DEF Cached
  <1>3. \A s \in Data!Symbols : Cached'[s] <= ProviderTTL + PrefetchTTL
    <2> SUFFICES ASSUME NEW s \in Data!Symbols PROVE Cached'[s] <= ProviderTTL + PrefetchTTL
      OBVIOUS
    <2>1. Cached'[s] = IF redis'[s] = Data!NoEntry THEN -1 ELSE redis'[s].age
      BY DEF Cached
    <2>2. redis'[s] # Data!NoEntry => redis'[s].age \in 0..(ProviderTTL + PrefetchTTL)
      BY WrittenIsBounded DEF DataInv
    <2>3. ProviderTTL \in Nat /\ PrefetchTTL \in Nat
      BY DEF Data!KlinesAssumption
    <2> QED BY <2>1, <2>2, <2>3
  <1> HIDE DEF gone
  <1>4. gone \in SUBSET Data!Symbols
    BY DEF gone
  <1> QED BY <1>2, <1>3, <1>4 DEF Data!Promised!Next, Data!Promised!Pass, Data!Promised!Absent, Cached

\* Each step of the cache is one of the abstract cache or leaves it alone.
LEMMA DataRefines ==
    ASSUME Data!KlinesAssumption, DataInv, DataInv', [Data!Next]_dataVars
    PROVE  [Data!Promised!Next]_Cached
  <1>1. CASE redis' = redis
    BY <1>1 DEF Cached
  <1>2. ASSUME NEW s \in Data!Symbols, NEW e \in Written, redis' = [redis EXCEPT ![s] = e]
        PROVE  Data!Promised!Next
    <2>1. e # Data!NoEntry /\ e.age \in 0..(ProviderTTL + PrefetchTTL)
      BY WrittenIsBounded DEF Written, Data!NoEntry
    <2>2. \A k \in Data!Symbols : redis'[k] = IF k = s THEN e ELSE redis[k]
      BY <1>2 DEF DataInv
    <2>3. \A k \in Data!Symbols : Cached'[k] = IF k = s THEN e.age ELSE Cached[k]
      BY <2>1, <2>2 DEF Cached
    <2>4. Cached' = [Cached EXCEPT ![s] = e.age]
      BY <2>3 DEF Cached
    <2> QED BY <2>1, <2>4 DEF Data!Promised!Next, Data!Promised!Store, Cached
  <1>3. CASE redis' = [s \in Data!Symbols |-> Data!Older(redis[s])]
    BY <1>3, PassStep
  <1> QED BY <1>1, <1>2, <1>3, CacheSteps

----------------------------------------------------------------------------
(* Slots *)

\* The fetches that have a slot, other than analyses.
Fetching == Data!Running(Data!Kinds \ {"analyze"})

\* They are no more than there are slots, and what the preloading keeps count of are stocks.
SlotsInv == /\ IsFiniteSet(Fetching) /\ Cardinality(Fetching) <= Slots
            /\ known \subseteq Data!Symbols /\ queue \subseteq Warm /\ tried \subseteq Data!Symbols

\* The module of the library under its other name.
LEMMA SameCardinality == \A S : Data!Cardinality(S) = Cardinality(S)
  BY DEF Data!Cardinality, Cardinality

\* What it takes for a fetch to have a slot.
LEMMA FetchingIs ==
    /\ Fetching = {t \in Fetches : fetching[t].kind \in Data!Kinds \ {"analyze"} /\ fetching[t].pc # "wait"}
    /\ Fetching' = {t \in Fetches : fetching'[t].kind \in Data!Kinds \ {"analyze"} /\ fetching'[t].pc # "wait"}
  BY DEF Fetching, Data!Running, Data!Begun

\* Nothing is fetched at first.
LEMMA SlotsInit == Data!Init => SlotsInv
  <1> SUFFICES ASSUME Data!Init PROVE SlotsInv
    OBVIOUS
  <1>1. Fetching = {}
    BY FetchingIs DEF Data!Init, Data!Idle, Data!Kinds
  <1>2. Slots \in Nat /\ 0 <= Slots
    BY ConstantsAreSound DEF Data!KlinesAssumption
  <1>3. IsFiniteSet(Fetching) /\ Cardinality(Fetching) <= Slots
    BY <1>1, <1>2, FS_EmptySet
  <1> QED BY <1>3 DEF SlotsInv, Data!Init

\* Fewer fetches with a slot are no more than there are slots.
LEMMA FewerSlots ==
    ASSUME SlotsInv, Fetching' \subseteq Fetching
    PROVE  IsFiniteSet(Fetching') /\ Cardinality(Fetching') <= Slots
  <1> DEFINE S == Fetching
             T == Fetching'
  <1>1. IsFiniteSet(S) /\ Cardinality(S) <= Slots /\ T \subseteq S /\ Slots \in Nat
    BY ConstantsAreSound DEF SlotsInv, Data!KlinesAssumption
  <1> HIDE DEF S, T
  <1>2. IsFiniteSet(T) /\ Cardinality(T) <= Cardinality(S)
    BY <1>1, FS_Subset
  <1>3. Cardinality(S) \in Nat /\ Cardinality(T) \in Nat
    BY <1>1, <1>2, FS_CardinalityType
  <1>4. IsFiniteSet(T) /\ Cardinality(T) <= Slots
    BY <1>1, <1>2, <1>3
  <1> QED BY <1>4 DEF T

\* A fetch that gets a slot of its own, and finds one free.
LEMMA OneMoreSlot ==
    ASSUME SlotsInv, NEW t, Fetching' \subseteq Fetching \cup {t}, Cardinality(Fetching) < Slots
    PROVE  IsFiniteSet(Fetching') /\ Cardinality(Fetching') <= Slots
  <1> DEFINE S == Fetching
             T == Fetching'
  <1>1. IsFiniteSet(S) /\ Cardinality(S) < Slots /\ T \subseteq S \cup {t} /\ Slots \in Nat
    BY ConstantsAreSound DEF SlotsInv, Data!KlinesAssumption
  <1> HIDE DEF S, T
  <1>2. IsFiniteSet(S \cup {t}) /\ (Cardinality(S \cup {t}) = Cardinality(S) \/ Cardinality(S \cup {t}) = Cardinality(S) + 1)
    BY <1>1, FS_AddElement
  <1>3. IsFiniteSet(T) /\ Cardinality(T) <= Cardinality(S \cup {t})
    BY <1>1, <1>2, FS_Subset
  <1>4. Cardinality(S) \in Nat /\ Cardinality(T) \in Nat /\ Cardinality(S \cup {t}) \in Nat
    BY <1>1, <1>2, <1>3, FS_CardinalityType
  <1>5. Cardinality(T) <= Slots
    BY <1>1, <1>2, <1>3, <1>4
  <1> QED BY <1>3, <1>5 DEF T

\* A fetch whose record becomes r has a slot if r has one; the others keep theirs.
LEMMA OneFetchMoves ==
    ASSUME DataInv, NEW t \in Fetches, NEW r, fetching' = [fetching EXCEPT ![t] = r]
    PROVE  /\ Fetching' \subseteq Fetching \cup {t}
           /\ (r.kind = fetching[t].kind /\ fetching[t].pc # "wait") \/ r.kind = "none" \/ r.pc = "wait" \/ r.kind = "analyze"
              => Fetching' \subseteq Fetching
  <1>1. \A u \in Fetches : fetching'[u] = IF u = t THEN r ELSE fetching[u]
    BY DEF DataInv
  <1>2. ASSUME NEW u \in Fetching' PROVE u \in Fetching \cup {t}
    BY <1>1, <1>2, FetchingIs
  <1>3. ASSUME \/ r.kind = fetching[t].kind /\ fetching[t].pc # "wait"
               \/ r.kind = "none" \/ r.pc = "wait" \/ r.kind = "analyze",
               NEW u \in Fetching'
        PROVE  u \in Fetching
    BY <1>1, <1>3, FetchingIs DEF Data!Kinds
  <1> QED BY <1>2, <1>3

\* A call that begins a fetch has to wait for its slot.
LEMMA BeginSlots ==
    ASSUME DataInv, SlotsInv, NEW t \in Fetches, NEW kind, NEW s, Data!Begin(t, kind, s)
    PROVE  IsFiniteSet(Fetching') /\ Cardinality(Fetching') <= Slots
  <1> DEFINE r == [pc |-> "wait", kind |-> kind, symbol |-> s, age |-> 0]
  <1>1. fetching' = [fetching EXCEPT ![t] = r] /\ r.pc = "wait"
    BY DEF Data!Begin
  <1> HIDE DEF r
  <1> QED BY <1>1, OneFetchMoves, FewerSlots

\* Every step keeps the invariant.
LEMMA SlotsStep == ASSUME DataInv, SlotsInv, [Data!Next]_dataVars PROVE SlotsInv'
  <1> USE DEF SlotsInv
  <1>1. CASE UNCHANGED dataVars
    <2>1. Fetching' = Fetching
      BY <1>1, FetchingIs DEF dataVars
    <2> QED BY <1>1, <2>1, FewerSlots DEF dataVars
  <1>2. ASSUME NEW t \in Fetches, NEW s \in Data!Symbols,
               \/ Data!Preload(t, s) \/ Data!FetchWarm(t, s) \/ Data!Refresh(t, s)
               \/ Data!Ensure(t, s) \/ Data!Analyze(t, s)
        PROVE  SlotsInv'
    <2>1. \E kind : Data!Begin(t, kind, s)
      BY <1>2 DEF Data!Preload, Data!FetchWarm, Data!Refresh, Data!Ensure, Data!Analyze
    <2>2. IsFiniteSet(Fetching') /\ Cardinality(Fetching') <= Slots
      BY <2>1, BeginSlots
    <2>3. known' = known /\ tried' = tried /\ queue' \subseteq queue
      BY <1>2 DEF Data!Preload, Data!FetchWarm, Data!Refresh, Data!Ensure, Data!Analyze
    <2> QED BY <2>2, <2>3
  <1>3. ASSUME NEW s \in Data!Symbols, Data!PreloadKnown(s) \/ Data!SkipWarm(s) PROVE SlotsInv'
    <2>1. Fetching' = Fetching
      BY <1>3, FetchingIs DEF Data!PreloadKnown, Data!SkipWarm
    <2>2. known' = known /\ tried' = tried \cup {s} /\ queue' \subseteq queue
      BY <1>3 DEF Data!PreloadKnown, Data!SkipWarm
    <2> QED BY <2>1, <2>2, FewerSlots
  <1>4. CASE Data!StartWorker
    <2>1. Fetching' = Fetching
      BY <1>4, FetchingIs DEF Data!StartWorker
    <2> QED BY <1>4, <2>1, FewerSlots DEF Data!StartWorker
  <1>5. ASSUME NEW t \in Fetches, Data!Ask(t) PROVE SlotsInv'
    <2> DEFINE r == [fetching[t] EXCEPT !.pc = "ask"]
    <2>1. fetching' = [fetching EXCEPT ![t] = r] /\ r.kind = fetching[t].kind
      BY <1>5 DEF Data!Ask, Data!Goto, DataInv, Records
    <2>2. fetching[t].symbol \in Data!Symbols
      BY <1>5 DEF Data!Ask, DataInv, SoundTask
    <2>3. fetching[t].kind = "analyze" \/ Cardinality(Fetching) < Slots
      BY <1>5, SameCardinality DEF Data!Ask, Data!HasSlot, Fetching
    <2> HIDE DEF r
    <2>4. IsFiniteSet(Fetching') /\ Cardinality(Fetching') <= Slots
      BY <2>1, <2>3, OneFetchMoves, FewerSlots, OneMoreSlot
    <2>5. known' = known /\ queue' = queue /\ tried' \subseteq tried \cup {fetching[t].symbol}
      BY <1>5 DEF Data!Ask
    <2> QED BY <2>2, <2>4, <2>5
  <1>6. ASSUME NEW t \in Fetches, Data!SourceAnswers(t) PROVE SlotsInv'
    <2> DEFINE r == [fetching[t] EXCEPT !.pc = "provider", !.age = 0]
    <2>1. fetching' = [fetching EXCEPT ![t] = r] /\ r.kind = fetching[t].kind /\ fetching[t].pc # "wait"
      BY <1>6 DEF Data!SourceAnswers, DataInv, Records
    <2> HIDE DEF r
    <2>2. IsFiniteSet(Fetching') /\ Cardinality(Fetching') <= Slots
      BY <2>1, OneFetchMoves, FewerSlots
    <2> QED BY <1>6, <2>2 DEF Data!SourceAnswers
  <1>7. ASSUME NEW t \in Fetches, Data!FallbackAnswers(t) PROVE SlotsInv'
    <2> DEFINE r == [fetching[t] EXCEPT !.pc = "caller", !.age = redis[fetching[t].symbol].age]
    <2>1. fetching' = [fetching EXCEPT ![t] = r] /\ r.kind = fetching[t].kind /\ fetching[t].pc # "wait"
      BY <1>7 DEF Data!FallbackAnswers, DataInv, Records
    <2> HIDE DEF r
    <2>2. IsFiniteSet(Fetching') /\ Cardinality(Fetching') <= Slots
      BY <2>1, OneFetchMoves, FewerSlots
    <2> QED BY <1>7, <2>2 DEF Data!FallbackAnswers
  <1>8. ASSUME NEW t \in Fetches, NEW accepted \in BOOLEAN, Data!ProviderWrites(t, accepted) PROVE SlotsInv'
    <2> DEFINE r == [fetching[t] EXCEPT !.pc = IF accepted THEN "caller" ELSE "ask"]
    <2>1. fetching' = [fetching EXCEPT ![t] = r] /\ r.kind = fetching[t].kind /\ fetching[t].pc # "wait"
      BY <1>8 DEF Data!ProviderWrites, Data!Goto, DataInv, Records
    <2> HIDE DEF r
    <2>2. IsFiniteSet(Fetching') /\ Cardinality(Fetching') <= Slots
      BY <2>1, OneFetchMoves, FewerSlots
    <2> QED BY <1>8, <2>2 DEF Data!ProviderWrites
  <1>9. ASSUME NEW t \in Fetches, Data!FetchFails(t) \/ \E works \in BOOLEAN : Data!CallerWrites(t, works)
        PROVE  SlotsInv'
    <2>1. fetching' = [fetching EXCEPT ![t] = Data!Idle] /\ Data!Idle.kind = "none"
      BY <1>9 DEF Data!FetchFails, Data!CallerWrites, Data!End, Data!Idle
    <2>2. IsFiniteSet(Fetching') /\ Cardinality(Fetching') <= Slots
      BY <2>1, OneFetchMoves, FewerSlots
    <2>3. fetching[t].symbol \in Data!Symbols
      BY <1>9 DEF Data!FetchFails, Data!CallerWrites, DataInv, SoundTask
    <2>4. queue' = queue /\ tried' = tried /\ known' \subseteq known \cup {fetching[t].symbol}
      BY <1>9 DEF Data!FetchFails, Data!CallerWrites
    <2> QED BY <2>2, <2>3, <2>4
  <1>10. CASE Data!Tick
    <2>1. Fetching' = Fetching
      BY <1>10, FetchingIs DEF Data!Tick
    <2> QED BY <1>10, <2>1, FewerSlots DEF Data!Tick
  <1> QED
    BY <1>1, <1>2, <1>3, <1>4, <1>5, <1>6, <1>7, <1>8, <1>9, <1>10 DEF Data!Next, Data!Startup, Data!Work

\* With both invariants the K-lines and their fetches have the types they should have.
LEMMA DataTypes == ASSUME DataInv, SlotsInv PROVE Data!TypeOK
  <1>1. ASSUME NEW s \in Data!Symbols PROVE redis[s] \in Data!Entries
    <2> DEFINE e == redis[s]
    <2>1. e \in [age : Nat, ttl : Nat, form : Forms] /\ SoundEntry(e)
      BY DEF DataInv
    <2>2. ProviderTTL \in Nat /\ PrefetchTTL \in Nat
      BY ConstantsAreSound DEF Data!KlinesAssumption
    <2>3. e = [age |-> e.age, ttl |-> e.ttl, form |-> e.form]
      BY <2>1
    <2> HIDE DEF e
    <2>4. CASE e.form = "provider" /\ e # Data!NoEntry
      <3>1. e.age \in 0..ProviderTTL /\ e.ttl \in 1..ProviderTTL
        BY <2>1, <2>2, <2>4 DEF SoundEntry
      <3> QED BY <2>3, <2>4, <3>1 DEF Data!Entries, e
    <2>5. CASE e.form # "provider" /\ e # Data!NoEntry
      <3>1. e.age \in 0..(ProviderTTL + PrefetchTTL) /\ e.ttl \in 1..PrefetchTTL /\ e.form = "caller"
        BY <2>1, <2>2, <2>5 DEF SoundEntry
      <3> QED BY <2>3, <3>1 DEF Data!Entries, e
    <2>6. CASE e = Data!NoEntry
      BY <2>6 DEF Data!Entries, e
    <2> QED BY <2>4, <2>5, <2>6
  <1>2. \A t \in Fetches : fetching[t].pc \in {"idle", "wait", "ask", "provider", "caller"}
    BY DEF DataInv, Records
  <1>3. Cardinality(Data!Running(Data!Kinds \ {"analyze"})) <= Slots
    BY DEF SlotsInv, Fetching
  <1> QED BY <1>1, <1>2, <1>3, SameCardinality DEF SlotsInv, Data!TypeOK

----------------------------------------------------------------------------
(* Heartbeats *)

\* What the agents and their watchers know of each other, as functions.
HeartsInv == /\ tasks \in [Agents -> SUBSET Hearts!Tasks]
             /\ started \in [Agents -> {"yes", "failed", "stopped"}]
             /\ key \in [Beaters -> 0..Expiry] /\ checkIn \in [Watchers -> 0..Round]
             /\ beatDue \subseteq Beaters
             /\ missed \in [Hearts!Pairs -> 0..Threshold]
             /\ told \in [Hearts!Pairs -> {"none", "AGENT_DOWN", "AGENT_UP"}]

\* The times are numbers above zero.
LEMMA HeartTimes == {Expiry, Round, Threshold} \subseteq Nat \ {0}
  BY ConstantsAreSound DEF Hearts!HeartbeatsAssumption

\* All tasks go on at first, and nothing has been missed.
LEMMA HeartsInit == Hearts!Init => HeartsInv
  <1>1. 0 \in 0..Expiry /\ Round \in 0..Round /\ 0 \in 0..Threshold
    BY HeartTimes
  <1> QED BY <1>1 DEF Hearts!Init, HeartsInv

\* A watcher counts no further than its threshold.
LEMMA CountedIsBounded ==
    ASSUME NEW count \in 0..Threshold, NEW alive
    PROVE  Hearts!Counted(count, alive) \in 0..Threshold
  BY HeartTimes DEF Hearts!Counted

\* What is told is an event, or was told before.
LEMMA EventIsTyped ==
    ASSUME NEW count, NEW alive, NEW before \in {"none", "AGENT_DOWN", "AGENT_UP"}
    PROVE  Hearts!Event(count, alive, before) \in {"none", "AGENT_DOWN", "AGENT_UP"}
  BY DEF Hearts!Event

\* Every step keeps the invariant.
LEMMA HeartsStep == ASSUME HeartsInv, [Hearts!Next]_heartsVars PROVE HeartsInv'
  <1>1. CASE UNCHANGED heartsVars
    BY <1>1 DEF heartsVars, HeartsInv
  <1>2. ASSUME NEW a \in Beaters, NEW works \in BOOLEAN, Hearts!Beat(a, works) PROVE HeartsInv'
    <2>1. Expiry \in 0..Expiry
      BY HeartTimes
    <2>2. key' \in [Beaters -> 0..Expiry]
      BY <1>2, <2>1 DEF Hearts!Beat, HeartsInv
    <2> QED BY <1>2, <2>2 DEF Hearts!Beat, HeartsInv
  <1>3. ASSUME NEW a \in Watchers, Hearts!Check(a) PROVE HeartsInv'
    <2>1. checkIn' \in [Watchers -> 0..Round]
      <3>1. Round \in 0..Round
        BY HeartTimes
      <3> QED BY <1>3, <3>1 DEF Hearts!Check, HeartsInv
    <2>2. ASSUME NEW p \in Hearts!Pairs
          PROVE  Hearts!Counted(missed[p], key[p[2]] > 0) \in 0..Threshold
      BY CountedIsBounded DEF HeartsInv
    <2>3. missed' \in [Hearts!Pairs -> 0..Threshold]
      BY <1>3, <2>2 DEF Hearts!Check, HeartsInv
    <2>4. ASSUME NEW p \in Hearts!Pairs
          PROVE  Hearts!Event(missed[p], key[p[2]] > 0, told[p]) \in {"none", "AGENT_DOWN", "AGENT_UP"}
      BY EventIsTyped DEF HeartsInv
    <2>5. told' \in [Hearts!Pairs -> {"none", "AGENT_DOWN", "AGENT_UP"}]
      BY <1>3, <2>4 DEF Hearts!Check, HeartsInv
    <2> QED BY <1>3, <2>1, <2>3, <2>5 DEF Hearts!Check, HeartsInv
  <1>4. ASSUME NEW a \in Agents, NEW task \in Hearts!Tasks, Hearts!Fails(a, task) PROVE HeartsInv'
    BY <1>4 DEF Hearts!Fails, HeartsInv
  <1>5. ASSUME NEW a \in Agents, Hearts!Deafen(a) PROVE HeartsInv'
    BY <1>5 DEF Hearts!Deafen, HeartsInv
  <1>6. CASE Hearts!Shutdown
    BY <1>6 DEF Hearts!Shutdown, HeartsInv
  <1>7. CASE Hearts!Tick
    <2>1. ASSUME NEW a \in Beaters
          PROVE  (IF key[a] > 0 THEN key[a] - 1 ELSE 0) \in 0..Expiry
      <3>1. key[a] \in 0..Expiry
        BY DEF HeartsInv
      <3> QED BY <3>1, HeartTimes
    <2>2. ASSUME NEW a \in Watchers
          PROVE  (IF checkIn[a] > 0 THEN checkIn[a] - 1 ELSE 0) \in 0..Round
      <3>1. checkIn[a] \in 0..Round
        BY DEF HeartsInv
      <3> QED BY <3>1, HeartTimes
    <2>3. key' \in [Beaters -> 0..Expiry] /\ checkIn' \in [Watchers -> 0..Round] /\ beatDue' \subseteq Beaters
      BY <1>7, <2>1, <2>2 DEF Hearts!Tick
    <2> QED BY <1>7, <2>3 DEF Hearts!Tick, HeartsInv
  <1> QED
    BY <1>1, <1>2, <1>3, <1>4, <1>5, <1>6, <1>7 DEF Hearts!Next

\* With the invariant the agents have the types they should have.
LEMMA HeartTypes == HeartsInv => Hearts!TypeOK
  BY DEF HeartsInv, Hearts!TypeOK

----------------------------------------------------------------------------
(* The custody loop *)

\* Custody with the theorems about it.
Proved == INSTANCE Custody_proofs WITH Symbols <- Codes

\* They are about the same settings, runs and books.
LEMMA SameInit == Loops!Init <=> Proved!Init
  BY DEF Loops!Init, Proved!Init, Loops!SeedCustody, Proved!SeedCustody, Loops!Free, Proved!Free,
         Loops!Runners, Proved!Runners, Loops!Idle, Proved!Idle, Loops!Sides, Proved!Sides, Loops!Never,
         Proved!Never

\* The types are the same.
LEMMA SameTypes == (Loops!TypeOK <=> Proved!TypeOK) /\ (Loops!TypeOK' <=> Proved!TypeOK')
  BY DEF Loops!TypeOK, Proved!TypeOK, Loops!Settings, Proved!Settings, Loops!SettingsOf,
         Proved!SettingsOf, Loops!Sides, Proved!Sides, Loops!Order, Proved!Order, Loops!Working,
         Proved!Working, Loops!Ended, Proved!Ended, Loops!Runners, Proved!Runners, Loops!Free,
         Proved!Free, Loops!RunState, Proved!RunState, Loops!Idle, Proved!Idle

\* And so are the steps.
LEMMA SameNext == Loops!Next <=> Proved!Next
  <1>1. ASSUME NEW f PROVE Loops!MayRun(f) <=> Proved!MayRun(f)
    BY DEF Loops!MayRun, Proved!MayRun, Loops!MarketOpen, Proved!MarketOpen, Loops!Day, Proved!Day,
           Loops!now, Proved!now
  <1>2. ASSUME NEW r PROVE Loops!Start(r) <=> Proved!Start(r)
    BY <1>1 DEF Loops!now, Proved!now, Loops!Chosen, Proved!Chosen, Loops!Never, Proved!Never,
           Loops!Free, Proved!Free, Loops!Start, Proved!Start, Loops!Goto, Proved!Goto
  <1>3. ASSUME NEW r PROVE Loops!Decline(r) <=> Proved!Decline(r)
    BY <1>1 DEF Loops!Free, Proved!Free, Loops!Decline, Proved!Decline, Loops!Idle, Proved!Idle,
           Loops!Goto, Proved!Goto
  <1>4. ASSUME NEW r PROVE Loops!ReadOrders(r) <=> Proved!ReadOrders(r)
    BY DEF Loops!ReadOrders, Proved!ReadOrders, Loops!Goto, Proved!Goto
  <1>5. ASSUME NEW r PROVE Loops!PassOver(r) <=> Proved!PassOver(r)
    BY DEF Loops!PassOver, Proved!PassOver
  <1>6. ASSUME NEW r, NEW ok PROVE Loops!ReadFails(r, ok) <=> Proved!ReadFails(r, ok)
    BY DEF Loops!ReadFails, Proved!ReadFails, Loops!Record, Proved!Record, Loops!Save, Proved!Save,
           Loops!Goto, Proved!Goto, Loops!Idle, Proved!Idle, Loops!Free, Proved!Free
  <1>7. ASSUME NEW r, NEW ok PROVE Loops!Finish(r, ok) <=> Proved!Finish(r, ok)
    BY DEF Loops!Finish, Proved!Finish, Loops!Record, Proved!Record, Loops!Save, Proved!Save,
           Loops!Goto, Proved!Goto, Loops!Idle, Proved!Idle, Loops!Free, Proved!Free
  <1>8. ASSUME NEW r, NEW sig, NEW status, NEW ok
        PROVE  Loops!Place(r, sig, status, ok) <=> Proved!Place(r, sig, status, ok)
    BY DEF Loops!Place, Proved!Place, Loops!Wants, Proved!Wants, Loops!HasOrderToday,
           Proved!HasOrderToday, Loops!Day, Proved!Day, Loops!now, Proved!now, Loops!Save, Proved!Save
  <1>9. ASSUME NEW a, NEW in, NEW confirmed
        PROVE  Loops!CheckUpdate(a, in, confirmed) <=> Proved!CheckUpdate(a, in, confirmed)
    BY DEF Loops!CheckUpdate, Proved!CheckUpdate, Loops!ValidInput, Proved!ValidInput, Loops!Idle,
           Proved!Idle, Loops!NormalizeSymbols, Proved!NormalizeSymbols, Loops!Cardinality,
           Proved!Cardinality
  <1>10. ASSUME NEW a, NEW ok PROVE Loops!WriteUpdate(a, ok) <=> Proved!WriteUpdate(a, ok)
    BY DEF Loops!WriteUpdate, Proved!WriteUpdate, Loops!Save, Proved!Save, Loops!Idle, Proved!Idle
  <1>11. ASSUME NEW a, NEW force PROVE Loops!RunNow(a, force) <=> Proved!RunNow(a, force)
    BY DEF Loops!RunNow, Proved!RunNow, Loops!Goto, Proved!Goto, Loops!Idle, Proved!Idle
  <1>12. ASSUME NEW m, NEW status, NEW ok
        PROVE  Loops!ManualOrder(m, status, ok) <=> Proved!ManualOrder(m, status, ok)
    BY DEF Loops!ManualOrder, Proved!ManualOrder, Loops!now, Proved!now, Loops!Save, Proved!Save
  <1>13. ASSUME NEW i, NEW status, NEW ok
        PROVE  Loops!Progress(i, status, ok) <=> Proved!Progress(i, status, ok)
    BY DEF Loops!Progress, Proved!Progress, Loops!Working, Proved!Working, Loops!Ended, Proved!Ended,
           Loops!Save, Proved!Save
  <1>14. Loops!Wake <=> Proved!Wake
    BY DEF Loops!Wake, Proved!Wake, Loops!Goto, Proved!Goto, Loops!Idle, Proved!Idle, Loops!MarketOpen,
           Proved!MarketOpen, Loops!Day, Proved!Day, Loops!now, Proved!now, Loops!Never, Proved!Never
  <1>15. Loops!Flush <=> Proved!Flush
    BY DEF Loops!Flush, Proved!Flush, Loops!Save, Proved!Save
  <1>16. Loops!Tick <=> Proved!Tick
    BY DEF Loops!Tick, Proved!Tick
  <1>17. Loops!Restart <=> Proved!Restart
    BY DEF Loops!Restart, Proved!Restart, Loops!Normalize, Proved!Normalize, Loops!Free, Proved!Free,
           Loops!Runners, Proved!Runners, Loops!Idle, Proved!Idle
  <1> QED
    BY <1>1, <1>2, <1>3, <1>4, <1>5, <1>6, <1>7, <1>8, <1>9, <1>10, <1>11, <1>12, <1>13, <1>14, <1>15,
           <1>16, <1>17 DEF Loops!Next, Proved!Next, Loops!Step, Proved!Step, Loops!Update,
           Proved!Update, Loops!Others, Proved!Others, Loops!Runners, Proved!Runners, Loops!Working,
           Proved!Working, Loops!Ended, Proved!Ended

\* The constants are sound for both.
LEMMA SameConstants == Proved!CustodyAssumption
  <1>1. Loops!CustodyAssumption
    BY ConstantsAreSound
  <1> QED
    BY <1>1 DEF Loops!CustodyAssumption, Proved!CustodyAssumption, Loops!Free, Proved!Free,
           Loops!Runners, Proved!Runners, Loops!Working, Proved!Working, Loops!Ended, Proved!Ended,
           Loops!Sides, Proved!Sides, Loops!SettingsOf, Proved!SettingsOf, Loops!ToSet, Proved!ToSet

\* What an administrator chose, and a restart, are the same.
LEMMA SameChoice == (\A c : Loops!Chosen(c) = Proved!Chosen(c)) /\ (Loops!Restart <=> Proved!Restart)
  BY DEF Loops!Chosen, Proved!Chosen, Loops!Never, Proved!Never, Loops!Restart, Proved!Restart,
         Loops!Normalize, Proved!Normalize, Loops!Free, Proved!Free, Loops!Runners, Proved!Runners,
         Loops!Idle, Proved!Idle

\* The types hold at first,
LEMMA LoopsInit == Loops!Init => Loops!TypeOK
  BY SameConstants, SameInit, SameTypes, Proved!TypeInit DEF Proved!CustodyAssumption

\* and every step keeps them.
LEMMA LoopsStep == ASSUME Loops!TypeOK, [Loops!Next]_loopVars PROVE Loops!TypeOK'
  BY SameConstants, SameNext, SameTypes, Proved!TypeStep DEF Proved!CustodyAssumption, loopVars, Proved!vars

\* What an administrator chose is changed by an update or a restart only.
LEMMA LoopsKeepSettings ==
    ASSUME Loops!TypeOK, [Loops!Next]_loopVars
    PROVE  [\/ Loops!Chosen(custody') = Loops!Chosen(custody)
            \/ update' # update
            \/ Loops!Restart]_loopVars
  BY SameConstants, SameNext, SameTypes, SameChoice, Proved!SettingsStep
  DEF Proved!CustodyAssumption, loopVars, Proved!vars

----------------------------------------------------------------------------
(* The theorems *)

\* A step of the whole is a step of each part or leaves it alone.
LEMMA Parts ==
    ASSUME [Next]_vars
    PROVE  /\ [Hearts!Next]_heartsVars /\ [Data!Next]_dataVars /\ [Loops!Next]_loopVars
           /\ part' = part
  BY DEF Next, vars, InRisk, InHearts, InData, InLoops

\* Cached K-lines are never older than the two times to live together, whoever fetches and writes
\* them and however long they take (prefetch.py, analyzer.py and the cache that the providers
\* write): KlinesAreBounded.
THEOREM Bounded == Spec => KlinesAreBounded
  <1>1. Data!KlinesAssumption
    BY ConstantsAreSound
  <1>2. Init => DataInv /\ Data!Promised!Init
    BY <1>1, DataInit DEF Init, Data!Init, Data!Promised!Init, Data!Promised!Absent
  <1>3. DataInv /\ [Next]_vars => DataInv'
    BY <1>1, DataStep, Parts
  <1>4. DataInv /\ DataInv' /\ [Next]_vars => [Data!Promised!Next]_Cached
    BY <1>1, DataRefines, Parts
  <1> QED BY <1>2, <1>3, <1>4, PTL DEF Spec, KlinesAreBounded, Data!KlinesAreBounded, Data!Promised!Spec, Cached

\* The agents, the fetches and the loop of custody keep to their types, and no more fetches run
\* than there are slots (base_agent.py, prefetch.py and manager.go): TypeOK.
THEOREM TypeCorrect == Spec => []TypeOK
  <1> DEFINE Typed == HeartsInv /\ DataInv /\ SlotsInv /\ Loops!TypeOK
  <1>1. Init => Typed
    BY ConstantsAreSound, HeartsInit, DataInit, SlotsInit, LoopsInit DEF Init
  <1>2. Typed /\ [Next]_vars => Typed'
    BY ConstantsAreSound, HeartsStep, DataStep, SlotsStep, LoopsStep, Parts
  <1>3. Typed => TypeOK
    BY HeartTypes, DataTypes DEF TypeOK
  <1> QED BY <1>1, <1>2, <1>3, PTL DEF Spec

\* A run of custody writes the time of its start into the settings as they are then, so what an
\* administrator chose meanwhile stays (manager.go, recordCustodyResult): RunsKeepSettings.
THEOREM SettingsStay == Spec => RunsKeepSettings
  <1>1. Init => Loops!TypeOK
    BY LoopsInit DEF Init
  <1>2. Loops!TypeOK /\ [Next]_vars => Loops!TypeOK'
    BY LoopsStep, Parts
  <1>3. Loops!TypeOK /\ [Next]_vars =>
            [\/ Loops!Chosen(custody') = Loops!Chosen(custody)
             \/ update' # update
             \/ Loops!Restart]_loopVars
    BY LoopsKeepSettings, Parts
  <1> QED BY <1>1, <1>2, <1>3, PTL DEF Spec, RunsKeepSettings, Loops!RunsKeepSettings, Loops!vars, loopVars
=============================================================================
