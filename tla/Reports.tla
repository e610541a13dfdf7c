------------------------------ MODULE Reports ------------------------------
(***************************************************************************)
(* From K-lines to reports: a provider caches the K-lines of a stock and   *)
(* says so on the bus (data_provider/base.py); the signal agent and the    *)
(* trace agent read them and report (agents/signal_agent.py,               *)
(* agents/trace_agent.py), and what the signal agent found is cached for   *)
(* the analyses of the API.  An agent handles messages at the same time,   *)
(* so two analyses of a stock may pass each other.                         *)
(***************************************************************************)
EXTENDS Integers, FiniteSets

CONSTANTS Stocks,
          Tasks,         \* handlers of messages: max_concurrent of each agent in the code
          ReportTTL,     \* of reports:signal:<symbol>: 3600
          MaxUpdates     \* bound of the model: K-lines fetched for a stock

ReportsAssumption == ReportTTL \in Nat \ {0} /\ MaxUpdates \in Nat

VARIABLES klines,   \* market:raw:<symbol>: how often fetched, whether enough bars, whether cached
          provider, \* the stocks whose provider is between the cache and the bus
          events,   \* DATA_UPDATED not yet received
          task,
          latest,   \* of each agent and stock, the K-lines of the last report on the bus
          cached,   \* reports:signal:<symbol>
          muddled   \* history: agents and stocks whose last analysis was not alone or failed

vars == <<klines, provider, events, task, latest, cached, muddled>>

Agents == {"signal", "trace"}
Idle   == [pc |-> "idle", agent |-> "trace", stock |-> "none", seen |-> 0]
NoReport == [seen |-> 0, age |-> 0]

Init == /\ klines = [s \in Stocks |-> [version |-> 0, enough |-> FALSE, there |-> FALSE]]
        /\ provider = {}
        /\ events = [a \in Agents |-> [s \in Stocks |-> 0]]
        /\ task = [t \in Tasks |-> Idle]
        /\ latest = [a \in Agents |-> [s \in Stocks |-> 0]]
        /\ cached = [s \in Stocks |-> NoReport]
        /\ muddled = {}

Busy(a, s) == \E t \in Tasks : task[t].pc # "idle" /\ task[t].agent = a /\ task[t].stock = s

\* cache_and_publish: first the cache, then the event.
Fetched(s, enough) == [version |-> klines[s].version + 1, enough |-> enough, there |-> TRUE]

Cache(s, enough) ==
    /\ s \notin provider /\ klines[s].version < MaxUpdates
    /\ klines' = [klines EXCEPT ![s] = Fetched(s, enough)]
    /\ provider' = provider \cup {s}
    /\ UNCHANGED <<events, task, latest, cached, muddled>>

\* The event may not get through; what is cached stays.
Announce(s, works) ==
    /\ s \in provider /\ provider' = provider \ {s}
    /\ events' = IF works THEN [a \in Agents |-> [events[a] EXCEPT ![s] = @ + 1]] ELSE events
    /\ muddled' = IF works THEN muddled ELSE muddled \cup (Agents \X {s})
    /\ UNCHANGED <<klines, task, latest, cached>>

Expire(s) ==
    /\ klines[s].there
    /\ klines' = [klines EXCEPT ![s].there = FALSE]
    /\ UNCHANGED <<provider, events, task, latest, cached, muddled>>

\* _message_loop makes a task of every message, whatever is under way for the stock.
Receive(t, a, s) ==
    /\ task[t].pc = "idle" /\ events[a][s] > 0
    /\ events' = [events EXCEPT ![a][s] = @ - 1]
    /\ task' = [task EXCEPT ![t] = [pc |-> "read", agent |-> a, stock |-> s, seen |-> 0]]
    /\ muddled' = IF Busy(a, s) THEN muddled \cup {<<a, s>>} ELSE muddled \ {<<a, s>>}
    /\ UNCHANGED <<klines, provider, latest, cached>>

Goto(t, pc) == task' = [task EXCEPT ![t].pc = pc]
End(t)      == task' = [task EXCEPT ![t] = Idle]
Muddle(t)   == muddled' = muddled \cup {<<task[t].agent, task[t].stock>>}

\* _analyze_symbol and _trace_symbol: without K-lines, or with too few, there is no report.
Read(t) ==
    /\ task[t].pc = "read" /\ klines[task[t].stock].there /\ klines[task[t].stock].enough
    /\ task' = [task EXCEPT ![t].pc = "publish", ![t].seen = klines[task[t].stock].version]
    /\ UNCHANGED <<klines, provider, events, latest, cached, muddled>>

ReadsNothing(t) ==
    /\ task[t].pc = "read" /\ ~(klines[task[t].stock].there /\ klines[task[t].stock].enough)
    /\ End(t)
    /\ IF klines[task[t].stock].there THEN UNCHANGED muddled ELSE Muddle(t)
    /\ UNCHANGED <<klines, provider, events, latest, cached>>

Publish(t) ==
    /\ task[t].pc = "publish"
    /\ latest' = [latest EXCEPT ![task[t].agent][task[t].stock] = task[t].seen]
    /\ Goto(t, IF task[t].agent = "signal" THEN "cache" ELSE "save")
    /\ UNCHANGED <<klines, provider, events, cached, muddled>>

CacheReport(t) ==
    /\ task[t].pc = "cache"
    /\ cached' = [cached EXCEPT ![task[t].stock] = [seen |-> task[t].seen, age |-> 0]]
    /\ Goto(t, "save")
    /\ UNCHANGED <<klines, provider, events, latest, muddled>>

\* The report is saved, or the failure is only logged.
Save(t) ==
    /\ task[t].pc = "save" /\ End(t)
    /\ UNCHANGED <<klines, provider, events, latest, cached, muddled>>

\* Redis fails on the way: _process_safe counts the error, and the rest is left out.
Fails(t) ==
    /\ task[t].pc \in {"read", "publish", "cache"}
    /\ Muddle(t) /\ End(t)
    /\ UNCHANGED <<klines, provider, events, latest, cached>>

\* Time in units of the model; the cached report is gone after ReportTTL of them.
Tick ==
    /\ cached' = [s \in Stocks |-> IF cached[s].seen = 0 THEN NoReport
                                   ELSE IF cached[s].age + 1 >= ReportTTL THEN NoReport
                                   ELSE [cached[s] EXCEPT !.age = @ + 1]]
    /\ cached' # cached
    /\ UNCHANGED <<klines, provider, events, task, latest, muddled>>

Next == \/ \E s \in Stocks : \/ Expire(s)
                             \/ \E b \in BOOLEAN : Cache(s, b) \/ Announce(s, b)
        \/ \E t \in Tasks : \/ \E a \in Agents, s \in Stocks : Receive(t, a, s)
                            \/ Read(t) \/ ReadsNothing(t) \/ Publish(t)
                            \/ CacheReport(t) \/ Save(t) \/ Fails(t)
        \/ Tick

Spec == Init /\ [][Next]_vars

----------------------------------------------------------------------------
(* Properties *)

TypeOK == /\ provider \subseteq Stocks /\ muddled \subseteq Agents \X Stocks
          /\ \A s \in Stocks : /\ klines[s].version \in 0..MaxUpdates
                               /\ cached[s].seen <= klines[s].version /\ cached[s].age < ReportTTL
                               /\ \A a \in Agents : latest[a][s] <= klines[s].version

\* When all is handled, an agent that was not analysing the stock twice at a time has reported
\* on the K-lines that are there, and what the signal agent has left for the API is of the same.
AtRest(a, s) == s \notin provider /\ events[a][s] = 0 /\ ~Busy(a, s)
LoneReportsAreCurrent ==
    \A a \in Agents, s \in Stocks :
        AtRest(a, s) /\ <<a, s>> \notin muddled /\ klines[s].enough =>
            /\ latest[a][s] = klines[s].version
            /\ a = "signal" => cached[s].seen \in {0, klines[s].version}
=============================================================================
