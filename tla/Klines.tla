------------------------------- MODULE Klines -------------------------------
(***************************************************************************)
(* How the K-lines of the stock pool come into Redis: preloading at start, *)
(* refreshing while the exchange is open, fetching on demand               *)
(* (services/prefetch.py), and the analysis of a stock                     *)
(* (services/analyzer.py).  Each asks a data provider, which writes what   *)
(* it gets into the cache itself, for a short time, and then writes the    *)
(* same K-lines again, for longer and in another form.  While its breaker  *)
(* is open a provider answers from the cache, if it can read the form.     *)
(***************************************************************************)
EXTENDS Integers, FiniteSets

CONSTANTS Hot,         \* the first 20 stocks of the pool
          Warm,        \* the others
          Tasks,       \* calls that fetch K-lines
          Slots,       \* fetches of the preloading at a time: 5
          WarmSlots,   \* of these from the queue: 3
          ProviderTTL, \* max_cache_age_seconds: 300
          AnalyzeTTL,  \* 3600
          PrefetchTTL  \* 7200

KlinesAssumption == /\ {Slots, WarmSlots, ProviderTTL, AnalyzeTTL, PrefetchTTL} \subseteq Nat \ {0}
                    /\ AnalyzeTTL <= PrefetchTTL

VARIABLES redis, \* market:raw:<symbol>
          known, \* _cached_symbols
          task,  \* where each fetch stands
          queue, \* _prefetch_queue
          phase, \* of prefetch_stock_pool: "hot", then "warm" with the worker and the refreshing
          tried  \* history: the stocks whose K-lines the preloading has asked for

vars == <<redis, known, task, queue, phase, tried>>

Symbols == Hot \cup Warm

\* The age of K-lines is the time since a source was asked for them.  An entry has the form
\* of a provider, with the symbol in each row, or of a caller, without.
NoEntry == [age |-> 0, ttl |-> 0, form |-> "none"]

\* kind: "hot" and "refresh" of the preloading, "warm" from its queue, "ensure" on demand,
\* "analyze" of the analysis.
\* pc: "wait" for a slot, "ask" a source, "provider" and "caller" writes the cache.
Idle == [pc |-> "idle", kind |-> "none", symbol |-> "none", age |-> 0]

Init == /\ redis = [s \in Symbols |-> NoEntry] /\ known = {} /\ queue = {}
        /\ task = [t \in Tasks |-> Idle]
        /\ phase = "hot" /\ tried = {}

Kinds == {"hot", "warm", "refresh", "ensure", "analyze"}

Begun(kinds) == {t \in Tasks : task[t].kind \in kinds}
Running(kinds) == {t \in Begun(kinds) : task[t].pc # "wait"}
Goto(t, pc) == task' = [task EXCEPT ![t].pc = pc]
End(t) == task' = [task EXCEPT ![t] = Idle]

\* fault: fetches on demand do not wait for a slot
FaultyHasSlot(kind) == kind \in {"hot", "warm", "refresh"} => Cardinality(Running(Kinds \ {"analyze"})) < Slots

HasSlot(kind) == kind # "analyze" => Cardinality(Running(Kinds \ {"analyze"})) < Slots

\* _fetch_one_symbol up to its wait for a slot: a known stock is not fetched again unless by
\* force.
Begin(t, kind, s) ==
    /\ task[t].pc = "idle"
    /\ kind \in {"hot", "warm", "ensure"} => s \notin known
    /\ task' = [task EXCEPT ![t] = [pc |-> "wait", kind |-> kind, symbol |-> s, age |-> 0]]

\* It has a slot, and does not look again whether the stock is known.
Ask(t) ==
    /\ task[t].pc = "wait" /\ HasSlot(task[t].kind)
    /\ Goto(t, "ask")
    /\ tried' = IF task[t].kind = "analyze" THEN tried ELSE tried \cup {task[t].symbol}
    /\ UNCHANGED <<redis, known, queue, phase>>

\* prefetch_stock_pool: the hot stocks first, all at once.
Preload(t, s) ==
    /\ phase = "hot" /\ s \in Hot \ tried
    /\ \A u \in Begun({"hot"}) : task[u].symbol # s
    /\ Begin(t, "hot", s)
    /\ UNCHANGED <<redis, known, queue, phase, tried>>

PreloadKnown(s) ==
    /\ phase = "hot" /\ s \in (Hot \cap known) \ tried
    /\ \A u \in Begun({"hot"}) : task[u].symbol # s
    /\ tried' = tried \cup {s}
    /\ UNCHANGED <<redis, known, task, queue, phase>>

\* fault: the worker is started with what is in the queue by then
FaultyStartWorker ==
    /\ phase = "hot" /\ Hot \subseteq tried /\ Begun({"hot"}) = {}
    /\ phase' = "warm" /\ queue' = {s \in Warm : s \in known}
    /\ UNCHANGED <<redis, known, task, tried>>

\* When they have been asked for, the others are put in the queue and the worker is started.
StartWorker ==
    /\ phase = "hot" /\ Hot \subseteq tried /\ Begun({"hot"}) = {}
    /\ phase' = "warm" /\ queue' = Warm
    /\ UNCHANGED <<redis, known, task, tried>>

\* _prefetch_worker
FetchWarm(t, s) ==
    /\ s \in queue /\ Cardinality(Begun({"warm"})) < WarmSlots
    /\ Begin(t, "warm", s)
    /\ queue' = queue \ {s}
    /\ UNCHANGED <<redis, known, phase, tried>>

SkipWarm(s) ==
    /\ s \in queue \cap known
    /\ queue' = queue \ {s} /\ tried' = tried \cup {s}
    /\ UNCHANGED <<redis, known, task, phase>>

\* _periodic_refresh_loop
Refresh(t, s) ==
    /\ phase = "warm" /\ s \in Hot
    /\ Begin(t, "refresh", s)
    /\ UNCHANGED <<redis, known, queue, phase, tried>>

\* ensure_symbol_cached returns at once for a known stock.
Ensure(t, s) ==
    /\ Begin(t, "ensure", s)
    /\ UNCHANGED <<redis, known, queue, phase, tried>>

\* analyze_single asks a source if nothing is cached.
Analyze(t, s) ==
    /\ redis[s] = NoEntry
    /\ Begin(t, "analyze", s)
    /\ UNCHANGED <<redis, known, queue, phase, tried>>

\* A source answers the provider.  A provider may be asked a second time when the first
\* one's K-lines are too old or its cache write failed.
SourceAnswers(t) ==
    /\ task[t].pc = "ask"
    /\ task' = [task EXCEPT ![t].pc = "provider", ![t].age = 0]
    /\ UNCHANGED <<redis, known, queue, phase, tried>>

\* fault: a provider that answers from the cache can read either form
FaultyReadable(entry) == entry # NoEntry

\* The fallback looks for the symbol in each row, which callers leave out.
Readable(entry) == entry.form = "provider"

\* The breaker of the provider is open: it answers from the cache and does not write it.
FallbackAnswers(t) ==
    /\ task[t].pc = "ask" /\ Readable(redis[task[t].symbol])
    /\ task' = [task EXCEPT ![t].pc = "caller", ![t].age = redis[task[t].symbol].age]
    /\ UNCHANGED <<redis, known, queue, phase, tried>>

Entry(age, ttl, form) == [age |-> age, ttl |-> ttl, form |-> form]

\* cache_and_publish.  The caller may turn the K-lines down as too old: then the other
\* provider is asked, and the entry stays.
ProviderWrites(t, accepted) ==
    /\ task[t].pc = "provider"
    /\ redis' = [redis EXCEPT ![task[t].symbol] = Entry(task[t].age, ProviderTTL, "provider")]
    /\ Goto(t, IF accepted THEN "caller" ELSE "ask")
    /\ UNCHANGED <<known, queue, phase, tried>>

TTL(t) == IF task[t].kind = "analyze" THEN AnalyzeTTL ELSE PrefetchTTL

\* The caller writes the K-lines, or fails to: the preloading takes the stock for cached
\* either way.
CallerWrites(t, works) ==
    /\ task[t].pc = "caller"
    /\ redis' = IF works THEN [redis EXCEPT ![task[t].symbol] = Entry(task[t].age, TTL(t), "caller")] ELSE redis
    /\ known' = IF task[t].kind = "analyze" THEN known ELSE known \cup {task[t].symbol}
    /\ End(t)
    /\ UNCHANGED <<queue, phase, tried>>

\* No source answers, the cache has nothing that the provider can read, or Redis fails.
FetchFails(t) ==
    /\ task[t].pc \in {"ask", "provider"}
    /\ End(t)
    /\ UNCHANGED <<redis, known, queue, phase, tried>>

Older(e) == IF e.ttl <= 1 THEN NoEntry ELSE [e EXCEPT !.age = @ + 1, !.ttl = @ - 1]

\* Time passes.  K-lines are written before another tick is over: the requests to Redis
\* take far less than the shortest time to live.
Tick == /\ \A t \in Tasks : task[t].pc \notin {"provider", "caller"}
        /\ redis' = [s \in Symbols |-> Older(redis[s])]
        /\ UNCHANGED <<known, task, queue, phase, tried>>

Work(t) == \/ Ask(t) \/ SourceAnswers(t) \/ FallbackAnswers(t)
           \/ \E accepted \in BOOLEAN : ProviderWrites(t, accepted)
           \/ \E works \in BOOLEAN : CallerWrites(t, works)
           \/ FetchFails(t)

Ends(t) == FetchFails(t) \/ \E works \in BOOLEAN : CallerWrites(t, works)

Startup == \/ \E t \in Tasks, s \in Symbols : Preload(t, s) \/ FetchWarm(t, s)
           \/ \E s \in Symbols : PreloadKnown(s) \/ SkipWarm(s)
           \/ StartWorker

Next == \/ Startup
        \/ \E t \in Tasks : \/ Work(t)
                            \/ \E s \in Symbols : Refresh(t, s) \/ Ensure(t, s) \/ Analyze(t, s)
        \/ Tick

\* Requests are answered or time out.  Semaphores of asyncio are first come first served,
\* so every fetch gets its slot; and the preloading its turn although others fetch as well.
Spec == /\ Init /\ [][Next]_vars
        /\ SF_vars(Startup)
        /\ \A t \in Tasks : SF_vars(Ask(t) \/ Ends(t))

----------------------------------------------------------------------------
(* Properties *)

Entries == {NoEntry}
           \cup [age : 0..ProviderTTL, ttl : 1..ProviderTTL, form : {"provider"}]
           \cup [age : 0..(ProviderTTL + PrefetchTTL), ttl : 1..PrefetchTTL, form : {"caller"}]

TypeOK == /\ \A s \in Symbols : redis[s] \in Entries
          /\ known \subseteq Symbols /\ queue \subseteq Warm /\ tried \subseteq Symbols
          /\ \A t \in Tasks : task[t].pc \in {"idle", "wait", "ask", "provider", "caller"}
          /\ Cardinality(Running(Kinds \ {"analyze"})) <= Slots

Promised == INSTANCE BoundedCache WITH
                Keys <- Symbols, MaxAge <- ProviderTTL + PrefetchTTL,
                age <- [s \in Symbols |-> IF redis[s] = NoEntry THEN -1 ELSE redis[s].age]

\* K-lines that anybody reads from the cache are never older than both times to live
\* together, although a provider may pass cached K-lines off as new ones.
KlinesAreBounded == Promised!Spec

\* The preloading gets round to every stock of the pool, whatever fails on the way.
EveryStockIsTried == \A s \in Symbols : <>(s \in tried)
=============================================================================
