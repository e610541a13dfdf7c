------------------------------- MODULE Market -------------------------------
(***************************************************************************)
(* Market data: the caches of internal/market/service.go, the calls that   *)
(* read through them, and the journal of analyses in internal/store.       *)
(*                                                                         *)
(* A read looks into a cache under a lock, asks the provider without one,  *)
(* and puts the answer into the cache under a lock again.  Three kinds of  *)
(* lines are cached: the quotes, all in one line, the indices, and the     *)
(* daily bars of each stock.  A datum is the time at which the provider    *)
(* saw it; prices themselves are left out.                                 *)
(***************************************************************************)
EXTENDS Integers, Sequences

CONSTANTS Symbols,            \* stocks
          Callers,            \* goroutines, one call at a time each
          QuoteTTL, KlineTTL, \* 18 seconds and 3 minutes in the code
          Kept,               \* decisions kept: 500 in the code
          MaxClock, MaxCalls  \* bounds of the model

ASSUME MarketAssumption ==
    /\ {"quotes", "indices"} \cap Symbols = {}
    /\ QuoteTTL \in Nat \ {0} /\ KlineTTL \in Nat \ {0}
    /\ Kept \in Nat \ {0} /\ MaxClock \in Nat /\ MaxCalls \in Nat

VARIABLES caches,  \* quoteCache and quoteAt, indexCache and indexAt, klineCache
          journal, \* decisions: Store.state.Decisions
          saved,   \* the same in the state file
          task,    \* where each call stands, and what the last one answered
          clock,
          calls,    \* number of calls so far
          recorded, \* number of analyses recorded so far, the id of the next one
          told     \* history: what callers were told of changes that succeeded

vars == <<caches, journal, saved, task, clock, calls, recorded, told>>

Lines   == {"quotes", "indices"} \cup Symbols
TTL(line) == IF line \in Symbols THEN KlineTTL ELSE QuoteTTL

\* Quote, IndexQuote or bars: when it was seen, whether it has a price, Quote.Stale.
Datum == [seen : Nat, priced : BOOLEAN, stale : BOOLEAN]
Blank == [seen |-> 0, priced |-> FALSE, stale |-> FALSE]
Empty == [x \in {} |-> Blank]

\* Decisions newest first; since is when the analysis began, from what it took its price from.
Decision == [id : Nat, symbol : Symbols, seen : Nat, since : Nat, from : {"quote", "bars"}]

Idle == [pc |-> "done", op |-> "none", symbols |-> {}, line |-> "quotes", began |-> 0, now |-> 0,
         since |-> 0, data |-> Empty, shown |-> Empty, failed |-> FALSE]

Counted == calls < MaxCalls /\ calls' = calls + 1
Goto(c, t) == task' = [task EXCEPT ![c] = t]

Init == /\ caches = [line \in Lines |-> [at |-> 0, kept |-> Empty]]
        /\ journal = <<>> /\ saved = <<>>
        /\ task = [c \in Callers |-> Idle]
        /\ clock = 0 /\ calls = 0 /\ recorded = 0
        /\ told = {}

----------------------------------------------------------------------------
(* Calls *)

\* Dashboard of the watch list, Quote of a stock, Analyze of a stock.
Begin(c, op, symbols, line) ==
    /\ task[c].pc = "done" /\ Counted
    /\ Goto(c, [Idle EXCEPT !.pc = "look", !.op = op, !.symbols = symbols, !.line = line,
                            !.began = clock])
    /\ UNCHANGED <<caches, journal, saved, clock, recorded, told>>

\* fault: the symbols of the watch list serve as the key of every line
FaultyWanted(t) == t.symbols

Wanted(t) == IF t.line = "quotes" THEN t.symbols ELSE {t.line}

Usable(data) == {x \in DOMAIN data : data[x].priced}

\* Where a call goes on once a read has ended with data or, failed, with what could be
\* saved of it; the read began at now.
Received(t, data, failed, now) ==
    LET done == [Idle EXCEPT !.op = t.op, !.since = now] IN
    CASE t.op = "quote" /\ (failed \/ Usable(data) = {}) -> [done EXCEPT !.failed = TRUE]
      [] t.op = "quote" /\ ~failed /\ Usable(data) # {}  -> [done EXCEPT !.shown = data]
      [] t.op = "dashboard" /\ t.line = "quotes" ->
            [t EXCEPT !.pc = "look", !.line = "indices", !.data = Empty, !.since = now,
                      !.shown = data, !.failed = failed]
      [] t.op = "dashboard" /\ t.line = "indices" ->
            [done EXCEPT !.since = t.since, !.shown = t.shown, !.failed = t.failed]
      [] t.op = "analyze" /\ t.line # "quotes" ->
            IF failed THEN [done EXCEPT !.failed = TRUE]
            ELSE [t EXCEPT !.pc = "look", !.line = "quotes", !.data = Empty, !.since = now,
                           !.shown = data]
      [] t.op = "analyze" /\ t.line = "quotes" ->
            [t EXCEPT !.pc = "record", !.data = IF failed THEN Empty ELSE data]

Ready(t) == /\ clock - caches[t.line].at < TTL(t.line)
            /\ DOMAIN caches[t.line].kept # {}
            /\ Wanted(t) \subseteq DOMAIN caches[t.line].kept

Look(c) ==
    LET t == task[c] IN
    /\ t.pc = "look"
    /\ Goto(c, IF Wanted(t) = {} THEN Received(t, Empty, FALSE, clock)
               ELSE IF Ready(t)
               THEN Received(t, [x \in Wanted(t) |-> caches[t.line].kept[x]], FALSE, clock)
               ELSE [t EXCEPT !.pc = "ask", !.now = clock])
    /\ UNCHANGED <<caches, journal, saved, clock, calls, recorded, told>>

\* What the provider may answer of each thing that was asked for.  A stock without a row is
\* marked as stale, and a row without a price is taken for none; bars come from one of two
\* sources, or the read fails.
Answers(line) ==
    {[seen |-> clock, priced |-> p, stale |-> ~p] : p \in IF line = "quotes" THEN BOOLEAN ELSE {TRUE}}

Ask(c) ==
    LET t == task[c] IN
    /\ t.pc = "ask"
    /\ \E data \in [Wanted(t) -> Answers(t.line)] : Goto(c, [t EXCEPT !.pc = "keep", !.data = data])
    /\ UNCHANGED <<caches, journal, saved, clock, calls, recorded, told>>

\* fault: the stamp is taken when the answer is there
FaultyKeep(c) ==
    LET t == task[c] IN
    /\ t.pc = "keep"
    /\ caches' = [caches EXCEPT ![t.line] = [at |-> clock, kept |-> t.data]]
    /\ Goto(c, Received(t, t.data, FALSE, t.now))
    /\ UNCHANGED <<journal, saved, clock, calls, recorded, told>>

\* The answer replaces the line; its stamp is the time before the provider was asked.
Keep(c) ==
    LET t == task[c] IN
    /\ t.pc = "keep"
    /\ caches' = [caches EXCEPT ![t.line] = [at |-> t.now, kept |-> t.data]]
    /\ Goto(c, Received(t, t.data, FALSE, t.now))
    /\ UNCHANGED <<journal, saved, clock, calls, recorded, told>>

OldCopy(t) == LET kept == caches[t.line].kept
              IN  [x \in Wanted(t) |-> IF x \in DOMAIN kept THEN kept[x] ELSE Blank]

\* fault: old quotes are not marked as stale
FaultyFallback(t) == IF t.line \in Symbols \/ DOMAIN caches[t.line].kept = {} THEN Empty
                     ELSE OldCopy(t)

\* What is left when the provider fails: old quotes, marked as stale; old indices; no bars.
Fallback(t) ==
    IF t.line \in Symbols \/ DOMAIN caches[t.line].kept = {} THEN Empty
    ELSE [x \in Wanted(t) |-> [OldCopy(t)[x] EXCEPT !.stale = @ \/ t.line = "quotes"]]

AskFails(c) ==
    /\ task[c].pc = "ask"
    /\ Goto(c, Received(task[c], Fallback(task[c]), TRUE, task[c].now))
    /\ UNCHANGED <<caches, journal, saved, clock, calls, recorded, told>>

----------------------------------------------------------------------------
(* The journal *)

\* fault: the newest decision is dropped
FaultyPrepend(d, list) == SubSeq(list \o <<d>>, 1, IF Len(list) < Kept THEN Len(list) + 1 ELSE Kept)

Prepend(d, list) == SubSeq(<<d>> \o list, 1, IF Len(list) < Kept THEN Len(list) + 1 ELSE Kept)

\* The price is that of the quote, or of the last bar if there is no usable quote.
Priced(t) == Usable(t.data) # {}

\* RecordAnalysis, whose error is what the caller of Analyze is answered.
Record(c, ok) ==
    LET t == task[c]
        s == CHOOSE x \in t.symbols : TRUE
        d == [id |-> recorded, symbol |-> s, since |-> t.began,
              seen |-> (IF Priced(t) THEN t.data ELSE t.shown)[s].seen,
              from |-> IF Priced(t) THEN "quote" ELSE "bars"]
    IN  /\ t.pc = "record"
        /\ recorded' = recorded + 1
        /\ journal' = Prepend(d, journal)
        /\ saved' = IF ok THEN journal' ELSE saved
        /\ told' = IF ok THEN told \cup {d.id} ELSE told
        /\ Goto(c, [Idle EXCEPT !.op = t.op, !.failed = ~ok])
        /\ UNCHANGED <<caches, clock, calls>>

\* Any other change of the store saves all of it.
Flush == saved' = journal /\ UNCHANGED <<caches, journal, task, clock, calls, recorded, told>>

Tick == /\ clock < MaxClock /\ clock' = clock + 1
        /\ UNCHANGED <<caches, journal, saved, task, calls, recorded, told>>

Restart == /\ caches' = [line \in Lines |-> [at |-> 0, kept |-> Empty]]
           /\ journal' = saved
           /\ task' = [c \in Callers |-> Idle]
           /\ UNCHANGED <<saved, clock, calls, recorded, told>>

Step(c) == \/ Look(c) \/ Ask(c) \/ AskFails(c) \/ Keep(c)
           \/ \E ok \in BOOLEAN : Record(c, ok)

Call(c) == \/ \E watch \in SUBSET Symbols : Begin(c, "dashboard", watch, "quotes")
           \/ \E s \in Symbols : Begin(c, "quote", {s}, "quotes") \/ Begin(c, "analyze", {s}, s)

Next == \/ \E c \in Callers : Step(c) \/ Call(c)
        \/ Flush \/ Tick \/ Restart

Spec == Init /\ [][Next]_vars

----------------------------------------------------------------------------
(* Properties *)

IsData(d, range) == DOMAIN d \subseteq range /\ \A x \in DOMAIN d : d[x] \in Datum

TypeOK ==
    /\ DOMAIN caches = Lines
    /\ \A line \in Lines :
          /\ caches[line].at \in Nat
          /\ IsData(caches[line].kept, IF line = "quotes" THEN Symbols ELSE {line})
    /\ journal \in Seq(Decision) /\ saved \in Seq(Decision)
    /\ \A c \in Callers : LET t == task[c] IN
          /\ t.pc \in {"look", "ask", "keep", "record", "done"}
          /\ t.op \in {"none", "dashboard", "quote", "analyze"}
          /\ t.symbols \subseteq Symbols /\ t.line \in Lines
          /\ {t.began, t.now, t.since} \subseteq Nat /\ t.failed \in BOOLEAN
          /\ IsData(t.data, Lines) /\ IsData(t.shown, Symbols)
    /\ clock \in Nat /\ calls \in Nat /\ recorded \in Nat
    /\ told \subseteq Nat

\* A quote or a dashboard that is answered shows no price that was seen QuoteTTL or more
\* before the call asked for it, unless it says that the price is stale, however slow the
\* provider is and whichever call filled the cache.  Quote, by which orders are filled,
\* shows no stale price at all.  It takes that nothing in a cache was seen before the stamp
\* by which its age is told.
AnswersAreFresh ==
    /\ \A c \in Callers : \A x \in DOMAIN task[c].shown :
          LET t == task[c] IN
          t.pc = "done" /\ t.op \in {"quote", "dashboard"} /\ t.shown[x].priced =>
              \/ t.shown[x].seen > t.since - QuoteTTL
              \/ t.shown[x].stale /\ t.failed /\ t.op = "dashboard"
    /\ \A line \in Lines : \A x \in DOMAIN caches[line].kept :
          caches[line].kept[x].seen >= caches[line].at

\* An analysis in the journal took its price from a quote younger than QuoteTTL or bars
\* younger than KlineTTL when it began: a failing provider never makes it older.
AnalysesAreRecent ==
    \A i \in DOMAIN journal :
        LET d == journal[i]
        IN  d.seen > d.since - (IF d.from = "quote" THEN QuoteTTL ELSE KlineTTL)

\* An analysis that was answered without an error stays in the file until Kept newer ones
\* have replaced it, whatever saves fail and wherever the process stops.
ConfirmedIsSaved ==
    \A id \in told :
        \/ \E i \in DOMAIN saved : saved[i].id = id
        \/ Len(saved) = Kept /\ \A i \in 1..Kept : saved[i].id > id
=============================================================================
