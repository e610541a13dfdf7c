------------------------------ MODULE Scanner ------------------------------
(***************************************************************************)
(* The scans of the whole market (services/scanner.py).  Every scan reads  *)
(* the list of all stocks with their prices, which is kept by the process  *)
(* and, for other processes and restarts, in Redis; a list that comes from *)
(* Redis is kept by the process as if it were new.                         *)
(***************************************************************************)
EXTENDS Integers

CONSTANTS Scans,   \* scans at a time
          ListTTL, \* of the process: 3600
          RedisTTL \* of market:stock_list: 7200

ScannerAssumption == {ListTTL, RedisTTL} \subseteq Nat \ {0}

VARIABLES list,   \* _stock_list_cache: the age of its prices, and of _stock_list_ts
          stored, \* market:stock_list
          scan,   \* where each scan stands
          answer  \* the list that the newest scan has used

vars == <<list, stored, scan, answer>>

\* priced: some stock has a price.  Prices that nobody could fill in are zero.
None == [age |-> -1, stamp |-> 0, ttl |-> 0, priced |-> FALSE]
List(age, stamp, ttl, priced) == [age |-> age, stamp |-> stamp, ttl |-> ttl, priced |-> priced]

\* pc: "redis", "spot" with prices, "brief" without, "enrich" by the Sina interface, "check"
\* of the stocks.  began is the time since the scan read the clock.
Idle == [pc |-> "idle", began |-> 0, list |-> None]

Init == list = None /\ stored = None /\ answer = None /\ scan = [s \in Scans |-> Idle]

Goto(s, pc) == scan' = [scan EXCEPT ![s].pc = pc]
Check(s, l) == scan' = [scan EXCEPT ![s] = [pc |-> "check", began |-> 0, list |-> l]]

Current == list # None /\ list.stamp < ListTTL

\* get_all_stocks up to the first await
Begin(s) ==
    /\ scan[s].pc = "idle"
    /\ IF Current THEN Check(s, list) ELSE scan' = [scan EXCEPT ![s] = [pc |-> "redis", began |-> 0, list |-> None]]
    /\ UNCHANGED <<list, stored, answer>>

\* The stamp of the list is the time the scan began, whatever the age of the list in Redis.
Load(s) ==
    /\ scan[s].pc = "redis" /\ stored # None
    /\ list' = List(stored.age, scan[s].began, 0, stored.priced)
    /\ Check(s, stored)
    /\ UNCHANGED <<stored, answer>>

\* Redis has no list, one that is too short, or fails.
LoadFails(s) ==
    /\ scan[s].pc = "redis"
    /\ Goto(s, "spot")
    /\ UNCHANGED <<list, stored, answer>>

\* What get_all_stocks does with a list at its end.  When Redis fails the process keeps the
\* list all the same, but the scan ends with an error.
Keep(s, l, works) ==
    /\ list' = l
    /\ stored' = IF works THEN List(l.age, 0, RedisTTL, l.priced) ELSE stored
    /\ IF works THEN Check(s, l) ELSE scan' = [scan EXCEPT ![s] = Idle]
    /\ UNCHANGED answer

SpotAnswers(s, works) ==
    /\ scan[s].pc = "spot"
    /\ Keep(s, List(0, scan[s].began, 0, TRUE), works)

\* The list comes without prices, or only the codes and names come.
SpotFails(s) ==
    /\ scan[s].pc = "spot"
    /\ Goto(s, "enrich")
    /\ UNCHANGED <<list, stored, answer>>

\* _enrich_prices_via_sina may fill in nothing; the list is kept nevertheless.
Enriched(s, priced, works) ==
    /\ scan[s].pc = "enrich"
    /\ Keep(s, List(0, scan[s].began, 0, priced), works)

\* No source has a list: the scan ends with an error.
NoList(s) ==
    /\ scan[s].pc = "spot"
    /\ scan' = [scan EXCEPT ![s] = Idle]
    /\ UNCHANGED <<list, stored, answer>>

\* quick_scan or smart_scan checks the K-lines of the stocks and answers.
Answer(s) ==
    /\ scan[s].pc = "check"
    /\ answer' = scan[s].list
    /\ scan' = [scan EXCEPT ![s] = Idle]
    /\ UNCHANGED <<list, stored>>

Aged(l) == IF l = None THEN None ELSE [l EXCEPT !.age = @ + 1, !.stamp = IF @ < ListTTL THEN @ + 1 ELSE @]

\* fault: the time to live of the list in Redis does not end
FaultyLeft(l) == l

Left(l) == IF l.ttl = 1 THEN None ELSE [l EXCEPT !.ttl = @ - 1]

\* The process forgets a list that it will not use again; a scan takes less than a tick.
Tick == /\ \A s \in Scans : scan[s].pc \notin {"check", "enrich"}
        /\ list' = IF Aged(list).stamp >= ListTTL THEN None ELSE Aged(list)
        /\ stored' = IF stored = None THEN None ELSE Left([stored EXCEPT !.age = @ + 1])
        /\ scan' = [s \in Scans |-> IF scan[s].pc = "idle" THEN scan[s] ELSE [scan[s] EXCEPT !.began = IF @ < ListTTL THEN @ + 1 ELSE @]]
        /\ answer' = None

\* The process starts again, Redis does not.
Restart == /\ list' = None /\ scan' = [s \in Scans |-> Idle] /\ answer' = None
           /\ UNCHANGED stored

Next == \/ \E s \in Scans : \/ Begin(s) \/ Load(s) \/ LoadFails(s) \/ SpotFails(s) \/ NoList(s) \/ Answer(s)
                            \/ \E works \in BOOLEAN : SpotAnswers(s, works)
                            \/ \E priced, works \in BOOLEAN : Enriched(s, priced, works)
        \/ Tick \/ Restart

Spec == Init /\ [][Next]_vars

----------------------------------------------------------------------------
(* Properties *)

TypeOK == /\ list.stamp \in 0..ListTTL /\ stored.ttl \in 0..RedisTTL
          /\ \A s \in Scans : scan[s].pc \in {"idle", "redis", "spot", "enrich", "check"} /\ scan[s].began \in 0..ListTTL

Promised == INSTANCE BoundedCache WITH
                Keys <- {"list", "answer"}, MaxAge <- ListTTL + RedisTTL,
                age <- [k \in {"list", "answer"} |-> IF k = "list" THEN list.age ELSE answer.age]

\* The prices that scans screen by, and that the process keeps, are never older than both
\* times to live together.
ListIsBounded == Promised!Spec
=============================================================================
