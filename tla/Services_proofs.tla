-------------------------- MODULE Services_proofs --------------------------
(***************************************************************************)
(* Proofs about the Python service, part by part: for each part of         *)
(* Services an inductive invariant, that its first state has it, that each *)
(* of its actions keeps it, and that it implies what is promised.  The     *)
(* theorems at the end put the parts together: a step of the specification *)
(* is, for each part, one of its steps or none.                            *)
(***************************************************************************)
EXTENDS Services, Sums_proofs, Sequences, FiniteSets, FiniteSetTheorems, SequenceTheorems, TLAPS

----------------------------------------------------------------------------
(* RiskAgent *)

\* The tasks and the reports are functions, and what is called for is published or about to be.
AgentInv == /\ latest \in [Agent!Agents -> {"fear", "calm", "greed", "bullish", "neutral", "bearish", "plain", "divergent", "missing"}]
            /\ judging = [t \in Judges |-> judging[t]]
            /\ Agent!ConflictsAreFlagged

\* Task t holds an override of the reports as they are now.
Pledged(t) == judging[t].pc = "publish" /\ judging[t].verdict = "override" /\ judging[t].seen = latest

\* A report: the task that receives it takes the override on itself before it awaits anything.
LEMMA ReceiveInv ==
    ASSUME AgentInv, NEW t \in Judges, NEW agent \in Agent!Agents, NEW content \in Agent!Contents[agent],
           Agent!Receive(t, agent, content)
    PROVE  AgentInv'
  <1>1. latest' = [latest EXCEPT ![agent] = content] /\ flagged' = ~Agent!Calls(latest')
    BY DEF Agent!Receive
  <1>2. content \in {"fear", "calm", "greed", "bullish", "neutral", "bearish", "plain", "divergent"}
    BY DEF Agent!Contents, Agent!Agents
  <1>3. latest' \in [Agent!Agents -> {"fear", "calm", "greed", "bullish", "neutral", "bearish", "plain", "divergent", "missing"}]
    BY <1>1, <1>2 DEF AgentInv
  <1>4. judging' = [u \in Judges |-> judging'[u]]
    BY DEF Agent!Receive, Agent!Goto, AgentInv
  <1>5. CASE Agent!Calls(latest')
    <2>1. judging' = [judging EXCEPT ![t] = [pc |-> "publish", verdict |-> "override", seen |-> latest']]
      BY <1>5 DEF Agent!Receive, Agent!Goto
    <2>2. Pledged(t)'
      BY <2>1 DEF Pledged, AgentInv
    <2> QED BY <1>3, <1>4, <2>2 DEF AgentInv, Agent!ConflictsAreFlagged, Pledged
  <1>6. CASE ~Agent!Calls(latest')
    BY <1>1, <1>3, <1>4, <1>6 DEF AgentInv, Agent!ConflictsAreFlagged
  <1> QED BY <1>5, <1>6

\* A step of task t that leaves the reports alone keeps the invariant if t held no override, or
\* if the override is out afterwards.
LEMMA OtherInv ==
    ASSUME AgentInv, NEW t \in Judges, NEW s, Agent!Goto(t, s), latest' = latest,
           flagged => flagged', Pledged(t) => flagged'
    PROVE  AgentInv'
  <1>1. judging' = [u \in Judges |-> judging'[u]] /\ \A u \in Judges \ {t} : judging'[u] = judging[u]
    BY DEF Agent!Goto, AgentInv
  <1>2. Agent!ConflictsAreFlagged'
    BY <1>1 DEF AgentInv, Agent!ConflictsAreFlagged, Pledged
  <1> QED BY <1>1, <1>2 DEF AgentInv

\* At first nothing has been reported, and nothing calls for an override.
LEMMA AgentInit == Agent!Init => AgentInv
  <1> SUFFICES ASSUME Agent!Init PROVE AgentInv
    OBVIOUS
  <1>1. latest = [a \in Agent!Agents |-> "missing"] /\ flagged
    BY DEF Agent!Init, Agent!Missing
  <1>2. judging = [t \in Judges |-> judging[t]]
    BY DEF Agent!Init
  <1> QED BY <1>1, <1>2 DEF AgentInv, Agent!ConflictsAreFlagged

\* Only a report can call for an override, and only its task can end without publishing one.
LEMMA AgentStep == AgentInv /\ [Agent!Next]_agentVars => AgentInv'
  <1> SUFFICES ASSUME AgentInv, [Agent!Next]_agentVars PROVE AgentInv'
    OBVIOUS
  <1>1. ASSUME NEW t \in Judges, NEW breached \in BOOLEAN, Agent!KlinesCome(t, breached) PROVE AgentInv'
    <2>1. judging[t].pc # "publish"
      BY <1>1 DEF Agent!KlinesCome, Agent!After
    <2> QED BY <1>1, <2>1, OtherInv DEF Agent!KlinesCome, Pledged
  <1>2. ASSUME NEW t \in Judges, Agent!Publish(t) PROVE AgentInv'
    BY <1>2, OtherInv DEF Agent!Publish, Pledged
  <1>3. ASSUME NEW t \in Judges, Agent!Fails(t) PROVE AgentInv'
    BY <1>3, OtherInv DEF Agent!Fails, Pledged
  <1>4. CASE UNCHANGED agentVars
    BY <1>4 DEF agentVars, AgentInv, Agent!ConflictsAreFlagged
  <1> QED BY <1>1, <1>2, <1>3, <1>4, ReceiveInv DEF Agent!Next

----------------------------------------------------------------------------
(* Scanner *)

StockLists == [age : Int, stamp : Nat, ttl : Nat, priced : BOOLEAN]

\* A list of the process: it was at most RedisTTL old when it came, which is no longer ago than
\* its stamp says.
SoundList(l) == l = Lists!None \/ (l.age \in Nat /\ l.stamp <= ListTTL /\ l.age <= l.stamp + RedisTTL)

\* A list in Redis: its age and the time to live that is left have the same sum.
SoundStored(l) == l = Lists!None \/ (l.age \in Nat /\ l.ttl > 0 /\ l.age + l.ttl <= RedisTTL)

Phases == {"idle", "redis", "spot", "enrich", "check"}

\* The list that a scan is about to use.
SoundScan(r) == /\ r.began <= ListTTL
                /\ r.pc = "check" => r.list.age \in 0..(ListTTL + RedisTTL)

ListsInv == /\ list \in StockLists /\ SoundList(list)
            /\ stored \in StockLists /\ SoundStored(stored)
            /\ answer.age \in Int
            /\ scan \in [Scans -> [pc : Phases, began : Nat, list : StockLists]]
            /\ \A s \in Scans : SoundScan(scan[s])

\* What is known of a scan.
Scan(r) == r \in [pc : Phases, began : Nat, list : StockLists] /\ SoundScan(r)

\* No list is a sound list, and absent to the abstract cache.
LEMMA NoneIsSound == Lists!None \in StockLists /\ SoundList(Lists!None) /\ SoundStored(Lists!None) /\ Lists!None.age = -1
  BY DEF Lists!None, StockLists, SoundList, SoundStored

\* A scan that starts over is sound.
LEMMA IdleIsSound == ASSUME Lists!ScannerAssumption PROVE Scan(Lists!Idle)
  <1>1. ListTTL \in Nat
    BY DEF Lists!ScannerAssumption
  <1> QED BY <1>1, NoneIsSound DEF Lists!Idle, Scan, SoundScan, Phases

\* A list of the process is within both times to live.
LEMMA ListAge ==
    ASSUME Lists!ScannerAssumption, NEW l \in StockLists, SoundList(l), l # Lists!None
    PROVE  l.age \in 0..(ListTTL + RedisTTL)
  <1>1. ListTTL \in Nat /\ RedisTTL \in Nat
    BY DEF Lists!ScannerAssumption
  <1> QED BY <1>1 DEF SoundList, StockLists

\* A list that a source has just sent is sound, here and in Redis.
LEMMA NewIsSound ==
    ASSUME Lists!ScannerAssumption, NEW began \in Nat, began <= ListTTL, NEW priced \in BOOLEAN
    PROVE  LET l == Lists!List(0, began, 0, priced)
           IN  /\ l \in StockLists /\ SoundList(l) /\ l.age = 0 /\ l # Lists!None
               /\ Lists!List(l.age, 0, RedisTTL, l.priced) \in StockLists
               /\ SoundStored(Lists!List(l.age, 0, RedisTTL, l.priced))
  <1>1. ListTTL \in Nat /\ RedisTTL \in Nat \ {0}
    BY DEF Lists!ScannerAssumption
  <1> DEFINE l == Lists!List(0, began, 0, priced)
  <1>2. l = [age |-> 0, stamp |-> began, ttl |-> 0, priced |-> priced]
    BY DEF Lists!List
  <1>3. Lists!List(l.age, 0, RedisTTL, l.priced) = [age |-> 0, stamp |-> 0, ttl |-> RedisTTL, priced |-> priced]
    BY DEF Lists!List
  <1> QED BY <1>1, <1>2, <1>3 DEF StockLists, SoundList, SoundStored, Lists!None

\* A scan changes its own record only.
LEMMA ScanStep ==
    ASSUME ListsInv, NEW s \in Scans, NEW r, Scan(r), scan' = [scan EXCEPT ![s] = r],
           list' \in StockLists, SoundList(list'), stored' \in StockLists, SoundStored(stored'), answer'.age \in Int
    PROVE  ListsInv'
  BY DEF ListsInv, Scan, SoundScan, SoundList, SoundStored

\* A scan that checks a list whose age is within the bound.
LEMMA CheckIsSound ==
    ASSUME Lists!ScannerAssumption, NEW l \in StockLists, l.age \in 0..(ListTTL + RedisTTL)
    PROVE  Scan([pc |-> "check", began |-> 0, list |-> l])
  <1>1. ListTTL \in Nat
    BY DEF Lists!ScannerAssumption
  <1> QED BY <1>1 DEF Scan, SoundScan, Phases

\* The end of a fetch of the list keeps the invariant.
LEMMA ListKept ==
    ASSUME Lists!ScannerAssumption, ListsInv, NEW s \in Scans, NEW priced \in BOOLEAN, NEW works \in BOOLEAN,
           Lists!Keep(s, Lists!List(0, scan[s].began, 0, priced), works)
    PROVE  ListsInv'
  <1> DEFINE l == Lists!List(0, scan[s].began, 0, priced)
  <1>1. scan[s].began \in Nat /\ scan[s].began <= ListTTL
    BY DEF ListsInv, SoundScan
  <1>2. /\ l \in StockLists /\ SoundList(l) /\ l.age = 0
        /\ Lists!List(l.age, 0, RedisTTL, l.priced) \in StockLists
        /\ SoundStored(Lists!List(l.age, 0, RedisTTL, l.priced))
    BY <1>1, NewIsSound
  <1>3. list' = l /\ answer' = answer
    BY DEF Lists!Keep
  <1>4. stored' \in StockLists /\ SoundStored(stored')
    BY <1>2 DEF Lists!Keep, ListsInv
  <1>5. \E r : Scan(r) /\ scan' = [scan EXCEPT ![s] = r]
    <2>1. CASE works
      <3>1. l.age \in 0..(ListTTL + RedisTTL)
        BY <1>2 DEF Lists!ScannerAssumption
      <3> QED BY <1>2, <2>1, <3>1, CheckIsSound DEF Lists!Keep, Lists!Check
    <2>2. CASE ~works
      BY <2>2, IdleIsSound DEF Lists!Keep
    <2> QED BY <2>1, <2>2
  <1> HIDE DEF l
  <1>6. PICK r : Scan(r) /\ scan' = [scan EXCEPT ![s] = r]
    BY <1>5
  <1> QED BY <1>2, <1>3, <1>4, <1>6, ScanStep DEF ListsInv

\* The tick of the clock keeps the invariant.
LEMMA ListTick == ASSUME Lists!ScannerAssumption, ListsInv, Lists!Tick PROVE ListsInv'
  <1>1. ListTTL \in Nat \ {0} /\ RedisTTL \in Nat \ {0}
    BY DEF Lists!ScannerAssumption
  <1>2. list' \in StockLists /\ SoundList(list')
    <2>1. CASE list = Lists!None
      <3>1. list' = Lists!None
        BY <2>1 DEF Lists!Tick, Lists!Aged
      <3> QED BY <3>1, NoneIsSound
    <2>2. CASE list # Lists!None
      <3> DEFINE m == Lists!Aged(list)
      <3>1. m = [age |-> list.age + 1, stamp |-> IF list.stamp < ListTTL THEN list.stamp + 1 ELSE list.stamp,
                 ttl |-> list.ttl, priced |-> list.priced]
        BY <2>2 DEF Lists!Aged, ListsInv, StockLists
      <3>2. m \in StockLists /\ (m.stamp < ListTTL => SoundList(m))
        BY <1>1, <2>2, <3>1 DEF ListsInv, StockLists, SoundList
      <3>3. list' = IF m.stamp >= ListTTL THEN Lists!None ELSE m
        BY DEF Lists!Tick
      <3>4. m.stamp \in Nat
        BY <3>2 DEF StockLists
      <3> HIDE DEF m
      <3> QED BY <1>1, <3>2, <3>3, <3>4, NoneIsSound
    <2> QED BY <2>1, <2>2
  <1>3. stored' \in StockLists /\ SoundStored(stored')
    <2>1. CASE stored = Lists!None
      BY <2>1, NoneIsSound DEF Lists!Tick
    <2>2. CASE stored # Lists!None
      <3> DEFINE m == [stored EXCEPT !.age = stored.age + 1]
      <3>1. m = [age |-> stored.age + 1, stamp |-> stored.stamp, ttl |-> stored.ttl, priced |-> stored.priced]
        BY DEF ListsInv, StockLists
      <3>2. stored' = Lists!Left(m)
        BY <2>2 DEF Lists!Tick
      <3>3. CASE m.ttl = 1
        BY <3>2, <3>3, NoneIsSound DEF Lists!Left
      <3>4. CASE m.ttl # 1
        <4>1. stored' = [age |-> stored.age + 1, stamp |-> stored.stamp, ttl |-> stored.ttl - 1, priced |-> stored.priced]
          BY <3>1, <3>2, <3>4 DEF Lists!Left
        <4> QED BY <1>1, <2>2, <3>1, <3>4, <4>1 DEF ListsInv, StockLists, SoundStored
      <3> QED BY <3>3, <3>4
    <2> QED BY <2>1, <2>2
  <1>4. ASSUME NEW s \in Scans PROVE Scan(scan'[s])
    <2>1. scan'[s] = IF scan[s].pc = "idle" THEN scan[s]
                     ELSE [scan[s] EXCEPT !.began = IF scan[s].began < ListTTL THEN scan[s].began + 1 ELSE scan[s].began]
      BY DEF Lists!Tick
    <2> QED BY <1>1, <2>1 DEF ListsInv, Scan, SoundScan
  <1>5. answer'.age \in Int /\ scan' = [s \in Scans |-> scan'[s]]
    BY NoneIsSound DEF Lists!Tick
  <1> QED BY <1>2, <1>3, <1>4, <1>5 DEF ListsInv, Scan

\* Every step keeps the invariant.
LEMMA ListsStep == ASSUME Lists!ScannerAssumption, ListsInv, [Lists!Next]_listsVars PROVE ListsInv'
  <1>1. CASE UNCHANGED listsVars
    BY <1>1 DEF listsVars, ListsInv
  <1>2. ASSUME NEW s \in Scans, Lists!Begin(s) PROVE ListsInv'
    <2>1. CASE Lists!Current
      <3>1. list.age \in 0..(ListTTL + RedisTTL)
        BY <2>1, ListAge DEF Lists!Current, ListsInv
      <3>2. Scan([pc |-> "check", began |-> 0, list |-> list])
        BY <3>1, CheckIsSound DEF ListsInv
      <3>3. scan' = [scan EXCEPT ![s] = [pc |-> "check", began |-> 0, list |-> list]]
        BY <1>2, <2>1 DEF Lists!Begin, Lists!Check
      <3> QED BY <1>2, <3>2, <3>3, ScanStep DEF Lists!Begin, ListsInv
    <2>2. CASE ~Lists!Current
      <3>1. Scan([pc |-> "redis", began |-> 0, list |-> Lists!None])
        BY NoneIsSound DEF Scan, SoundScan, Phases, Lists!ScannerAssumption
      <3>2. scan' = [scan EXCEPT ![s] = [pc |-> "redis", began |-> 0, list |-> Lists!None]]
        BY <1>2, <2>2 DEF Lists!Begin
      <3> QED BY <1>2, <3>1, <3>2, ScanStep DEF Lists!Begin, ListsInv
    <2> QED BY <2>1, <2>2
  <1>3. ASSUME NEW s \in Scans, Lists!Load(s) PROVE ListsInv'
    <2>1. /\ stored # Lists!None
          /\ list' = [age |-> stored.age, stamp |-> scan[s].began, ttl |-> 0, priced |-> stored.priced]
          /\ scan' = [scan EXCEPT ![s] = [pc |-> "check", began |-> 0, list |-> stored]]
          /\ stored' = stored /\ answer' = answer
      BY <1>3 DEF Lists!Load, Lists!List, Lists!Check
    <2>2. stored.age \in 0..RedisTTL /\ RedisTTL \in Nat /\ ListTTL \in Nat
      BY <2>1 DEF ListsInv, SoundStored, StockLists, Lists!ScannerAssumption
    <2>3. stored.age \in 0..(ListTTL + RedisTTL)
      BY <2>2
    <2>4. list' \in StockLists /\ SoundList(list')
      BY <2>1, <2>2 DEF ListsInv, StockLists, SoundList, SoundScan
    <2>5. Scan([pc |-> "check", began |-> 0, list |-> stored])
      BY <2>3, CheckIsSound DEF ListsInv
    <2> QED BY <2>1, <2>4, <2>5, ScanStep DEF ListsInv
  <1>4. ASSUME NEW s \in Scans, Lists!LoadFails(s) \/ Lists!SpotFails(s) PROVE ListsInv'
    <2>1. PICK p \in {"spot", "enrich"} : scan' = [scan EXCEPT ![s].pc = p]
      BY <1>4 DEF Lists!LoadFails, Lists!SpotFails, Lists!Goto
    <2> DEFINE r == [scan[s] EXCEPT !.pc = p]
    <2>2. Scan(r) /\ scan' = [scan EXCEPT ![s] = r]
      BY <2>1 DEF ListsInv, Scan, SoundScan, Phases
    <2>3. list' = list /\ stored' = stored /\ answer' = answer
      BY <1>4 DEF Lists!LoadFails, Lists!SpotFails
    <2> HIDE DEF r
    <2> QED BY <2>2, <2>3, ScanStep DEF ListsInv
  <1>5. ASSUME NEW s \in Scans, NEW works \in BOOLEAN, Lists!SpotAnswers(s, works) PROVE ListsInv'
    BY <1>5, ListKept DEF Lists!SpotAnswers
  <1>6. ASSUME NEW s \in Scans, NEW priced \in BOOLEAN, NEW works \in BOOLEAN, Lists!Enriched(s, priced, works) PROVE ListsInv'
    BY <1>6, ListKept DEF Lists!Enriched
  <1>7. ASSUME NEW s \in Scans, Lists!NoList(s) PROVE ListsInv'
    BY <1>7, IdleIsSound, ScanStep DEF Lists!NoList, ListsInv
  <1>8. ASSUME NEW s \in Scans, Lists!Answer(s) PROVE ListsInv'
    <2>1. answer'.age \in Int
      BY <1>8 DEF Lists!Answer, ListsInv, StockLists
    <2> QED BY <1>8, <2>1, IdleIsSound, ScanStep DEF Lists!Answer, ListsInv
  <1>9. CASE Lists!Restart
    BY <1>9, IdleIsSound, NoneIsSound DEF Lists!Restart, ListsInv, Scan
  <1> QED
    BY <1>1, <1>2, <1>3, <1>4, <1>5, <1>6, <1>7, <1>8, <1>9, ListTick DEF Lists!Next

\* What readers of the list see.
Cached == [k \in {"list", "answer"} |-> IF k = "list" THEN list.age ELSE answer.age]

\* A tick lets the list grow older or expire, and forgets the answer.
LEMMA TickPasses == ASSUME Lists!ScannerAssumption, ListsInv, Lists!Tick PROVE Lists!Promised!Next
  <1>1. ListTTL \in Nat \ {0} /\ RedisTTL \in Nat \ {0}
    BY DEF Lists!ScannerAssumption
  <1>2. answer'.age = -1
    BY NoneIsSound DEF Lists!Tick
  <1>3. CASE list'.age = -1
    <2> DEFINE gone == {"list", "answer"}
    <2>1. Cached' = [k \in {"list", "answer"} |-> IF k \in gone \/ Cached[k] = -1 THEN -1 ELSE Cached[k] + 1]
      BY <1>2, <1>3 DEF Cached
    <2>2. \A k \in {"list", "answer"} : Cached'[k] <= ListTTL + RedisTTL
      BY <1>1, <1>2, <1>3 DEF Cached
    <2> QED BY <2>1, <2>2 DEF Lists!Promised!Next, Lists!Promised!Pass, Lists!Promised!Absent, Cached
  <1>4. CASE list'.age # -1
    <2> DEFINE gone == {"answer"}
    <2>1. list # Lists!None /\ list' = Lists!Aged(list) /\ ~(Lists!Aged(list).stamp >= ListTTL)
      BY <1>4, NoneIsSound DEF Lists!Tick, Lists!Aged
    <2>2. list'.age = list.age + 1 /\ list.age \in Nat
      BY <2>1 DEF Lists!Aged, ListsInv, StockLists, SoundList
    <2>3. Cached' = [k \in {"list", "answer"} |-> IF k \in gone \/ Cached[k] = -1 THEN -1 ELSE Cached[k] + 1]
      BY <1>2, <2>2 DEF Cached
    <2>4. list'.age \in 0..(ListTTL + RedisTTL)
      <3>1. ListsInv'
        BY ListTick
      <3>2. list' # Lists!None
        BY <1>4, NoneIsSound
      <3> QED BY <3>1, <3>2, ListAge DEF ListsInv
    <2>5. \A k \in {"list", "answer"} : Cached'[k] <= ListTTL + RedisTTL
      BY <1>1, <1>2, <2>4 DEF Cached
    <2> QED BY <2>3, <2>5 DEF Lists!Promised!Next, Lists!Promised!Pass, Lists!Promised!Absent, Cached
  <1> QED BY <1>3, <1>4

\* A new list, or the answer of a scan, is stored; a restart drops both.
LEMMA Stores ==
    ASSUME NEW a \in 0..(ListTTL + RedisTTL), \/ list'.age = a /\ answer' = answer
                                              \/ answer'.age = a /\ list' = list
    PROVE  Lists!Promised!Next
  <1>1. CASE list'.age = a /\ answer' = answer
    <2>1. Cached' = [Cached EXCEPT !["list"] = a]
      BY <1>1 DEF Cached
    <2> QED BY <2>1 DEF Lists!Promised!Next, Lists!Promised!Store, Cached
  <1>2. CASE answer'.age = a /\ list' = list
    <2>1. Cached' = [Cached EXCEPT !["answer"] = a]
      BY <1>2 DEF Cached
    <2> QED BY <2>1 DEF Lists!Promised!Next, Lists!Promised!Store, Cached
  <1> QED BY <1>1, <1>2

\* Every step of the scanner is a step of the cache or leaves it as it is.
LEMMA ListsRefine == ASSUME Lists!ScannerAssumption, ListsInv, [Lists!Next]_listsVars PROVE [Lists!Promised!Next]_Cached
  <1>1. CASE list' = list /\ answer' = answer
    BY <1>1 DEF Cached
  <1>2. ASSUME NEW s \in Scans, Lists!Load(s) PROVE Lists!Promised!Next
    <2>1. stored # Lists!None /\ list'.age = stored.age /\ answer' = answer
      BY <1>2 DEF Lists!Load, Lists!List
    <2>2. stored.age \in 0..(ListTTL + RedisTTL)
      BY <2>1 DEF ListsInv, SoundStored, StockLists, Lists!ScannerAssumption
    <2> QED BY <2>1, <2>2, Stores
  <1>3. ASSUME NEW s \in Scans, NEW priced \in BOOLEAN, NEW works \in BOOLEAN,
               Lists!Keep(s, Lists!List(0, scan[s].began, 0, priced), works)
        PROVE  Lists!Promised!Next
    <2>1. list'.age = 0 /\ answer' = answer
      BY <1>3 DEF Lists!Keep, Lists!List
    <2>2. 0 \in 0..(ListTTL + RedisTTL)
      BY DEF Lists!ScannerAssumption
    <2> QED BY <2>1, <2>2, Stores
  <1>4. ASSUME NEW s \in Scans, Lists!Answer(s) PROVE Lists!Promised!Next
    <2>1. answer'.age \in 0..(ListTTL + RedisTTL) /\ list' = list
      BY <1>4 DEF Lists!Answer, ListsInv, SoundScan
    <2> QED BY <2>1, Stores
  <1>5. CASE Lists!Restart
    <2>1. list'.age = -1 /\ answer'.age = -1
      BY <1>5, NoneIsSound DEF Lists!Restart
    <2>2. Cached' = [k \in {"list", "answer"} |-> IF k \in {"list", "answer"} \/ Cached[k] = -1 THEN -1 ELSE Cached[k] + 1]
      BY <2>1 DEF Cached
    <2>3. \A k \in {"list", "answer"} : Cached'[k] <= ListTTL + RedisTTL
      BY <2>1 DEF Cached, Lists!ScannerAssumption
    <2> QED BY <2>2, <2>3 DEF Lists!Promised!Next, Lists!Promised!Pass, Lists!Promised!Absent, Cached
  <1> QED
    BY <1>1, <1>2, <1>3, <1>4, <1>5, TickPasses
    DEF Lists!Next, listsVars, Lists!Begin, Lists!LoadFails, Lists!SpotFails, Lists!NoList, Lists!SpotAnswers, Lists!Enriched

\* The scanner starts as the abstract cache does.
LEMMA ListsInit == ASSUME Lists!ScannerAssumption, Lists!Init PROVE ListsInv /\ Lists!Promised!Init
  <1>1. list = Lists!None /\ stored = Lists!None /\ answer = Lists!None /\ scan = [s \in Scans |-> Lists!Idle]
    BY DEF Lists!Init
  <1>2. ListsInv
    BY <1>1, NoneIsSound, IdleIsSound DEF ListsInv, Scan
  <1>3. Cached = [k \in {"list", "answer"} |-> -1]
    BY <1>1, NoneIsSound DEF Cached
  <1> QED BY <1>2, <1>3 DEF Lists!Promised!Init, Lists!Promised!Absent, Cached

----------------------------------------------------------------------------
(* Strategies *)

\* The fields that an evaluation has still to write, with the count or after it.
CountLists == {<<"count", "note">>, <<"count", "note", "note">>}
NoteLists  == {<<"note">>, <<"note", "note">>}

Evaluation == [pc : {"idle", "judge", "read", "write"}, healthy : BOOLEAN,
               fields : CountLists \cup NoteLists \cup {<<>>}, count : Nat, losses : Nat]

\* An evaluation that nothing ran beside is about to leave the number of failures in a row.
OnTrack(r, losses, failures) ==
    \/ r.pc = "judge" /\ r.healthy /\ failures = 0
    \/ r.pc = "judge" /\ ~r.healthy /\ failures = losses + 1
    \/ r.pc = "read" /\ r.fields \in CountLists /\ r.count = failures
    \/ r.pc = "read" /\ r.fields \in NoteLists /\ losses = failures
    \/ r.pc = "write" /\ r.fields \in CountLists \cup NoteLists /\ r.losses = failures

StratType == /\ strategy_losses \in Nat /\ streak \in Nat /\ raced \in BOOLEAN
             /\ evaluation \in [Evaluators -> Evaluation]
             /\ \A e \in Evaluators : evaluation[e].pc \in {"read", "write"} => evaluation[e].fields # <<>>

\* Without a race at most one evaluation is under way, and that one is on track.
StratInv == /\ StratType
            /\ ~raced => /\ \A e, f \in Evaluators : evaluation[e].pc # "idle" /\ evaluation[f].pc # "idle" => e = f
                         /\ \A e \in Evaluators : evaluation[e].pc = "idle" \/ OnTrack(evaluation[e], strategy_losses, streak)
                         /\ Strat!SeriesAreCounted

\* What is first and what is left of the fields.
LEMMA FieldLists ==
    /\ \A f \in CountLists : Head(f) = "count" /\ Tail(f) \in NoteLists /\ f # <<>>
    /\ \A f \in NoteLists : Head(f) # "count" /\ Tail(f) \in NoteLists \cup {<<>>} /\ f # <<>>
    /\ <<>> \notin CountLists \cup NoteLists
  BY DEF CountLists, NoteLists

\* evaluate_health: what it decides to write is typed, and on track.
LEMMA JudgedFields ==
    ASSUME NEW losses \in Nat, NEW healthy \in BOOLEAN
    PROVE  LET judged == Strat!Judged(losses, healthy)
           IN  /\ judged.count = IF healthy THEN 0 ELSE losses + 1
               /\ judged.fields \in CountLists \/ (judged.fields \in NoteLists /\ healthy /\ losses = 0)
  BY DEF Strat!Judged, CountLists, NoteLists

\* A step of one evaluation, whose record becomes r.
LEMMA EvaluationStep ==
    ASSUME StratInv, NEW e \in Evaluators, NEW r \in Evaluation,
           evaluation' = [evaluation EXCEPT ![e] = r],
           r.pc \in {"read", "write"} => r.fields # <<>>,
           strategy_losses' \in Nat, streak' \in Nat, raced' \in BOOLEAN,
           ~raced' => /\ \A f \in Evaluators \ {e} : evaluation[f].pc = "idle"
                      /\ IF r.pc = "idle" THEN strategy_losses' = streak' ELSE OnTrack(r, strategy_losses', streak')
    PROVE  StratInv'
  <1>1. StratType'
    BY DEF StratInv, StratType
  <1>2. \A f \in Evaluators : evaluation'[f] = IF f = e THEN r ELSE evaluation[f]
    BY DEF StratInv, StratType
  <1>3. ASSUME ~raced' PROVE /\ \A f \in Evaluators : f = e \/ evaluation'[f].pc = "idle"
                             /\ \A f \in Evaluators : evaluation'[f].pc = "idle" \/ OnTrack(evaluation'[f], strategy_losses', streak')
                             /\ Strat!SeriesAreCounted'
    <2>1. \A f \in Evaluators : f = e \/ evaluation'[f].pc = "idle"
      BY <1>2, <1>3
    <2>2. \A f \in Evaluators : evaluation'[f].pc = "idle" \/ OnTrack(evaluation'[f], strategy_losses', streak')
      BY <1>2, <1>3, <2>1 DEF OnTrack
    <2>3. Strat!SeriesAreCounted'
      BY <1>2, <1>3 DEF Strat!SeriesAreCounted, Strat!Busy
    <2> QED BY <2>1, <2>2, <2>3
  <1> QED BY <1>1, <1>3 DEF StratInv

\* Nothing is evaluated at first.
LEMMA StratInit == Strat!Init => StratInv
  <1> SUFFICES ASSUME Strat!Init PROVE StratInv
    OBVIOUS
  <1>1. Strat!Idle \in Evaluation /\ Strat!Idle.pc = "idle"
    BY DEF Strat!Idle, Evaluation
  <1>2. StratType /\ \A e \in Evaluators : evaluation[e].pc = "idle"
    BY <1>1 DEF Strat!Init, StratType
  <1> QED BY <1>2 DEF StratInv, Strat!Init, Strat!SeriesAreCounted

\* An evaluation begins.
LEMMA EvaluateInv ==
    ASSUME StratInv, NEW e \in Evaluators, NEW healthy \in BOOLEAN, Strat!Evaluate(e, healthy)
    PROVE  StratInv'
  <1> DEFINE r == [Strat!Idle EXCEPT !.pc = "judge", !.healthy = healthy]
  <1>1. Strat!Idle \in Evaluation
    BY DEF Strat!Idle, Evaluation
  <1>2. evaluation' = [evaluation EXCEPT ![e] = r] /\ strategy_losses' = strategy_losses
    BY DEF Strat!Evaluate
  <1>3. r \in Evaluation /\ r.pc = "judge" /\ r.healthy = healthy
    BY <1>1 DEF Evaluation
  <1>4. streak' \in Nat /\ raced' \in BOOLEAN /\ strategy_losses' \in Nat
    <2>1. streak' = (IF healthy THEN 0 ELSE streak + 1) /\ streak \in Nat
      BY DEF Strat!Evaluate, StratInv, StratType
    <2>2. raced' = (IF Strat!Busy # {} THEN TRUE ELSE raced /\ ~healthy)
      BY DEF Strat!Evaluate
    <2>3. raced' \in BOOLEAN
      BY <2>2, Zenon
    <2>4. streak' \in Nat
      BY <2>1
    <2> QED BY <1>2, <2>3, <2>4, Zenon DEF StratInv, StratType
  <1>5. ASSUME ~raced' PROVE (\A f \in Evaluators \ {e} : evaluation[f].pc = "idle") /\ OnTrack(r, strategy_losses', streak')
    <2>1. Strat!Busy = {} /\ (~raced \/ healthy)
      BY <1>5 DEF Strat!Evaluate
    <2>2. \A f \in Evaluators : evaluation[f].pc = "idle"
      BY <2>1 DEF Strat!Busy
    <2>3. ~healthy => strategy_losses = streak
      BY <2>1 DEF StratInv, Strat!SeriesAreCounted
    <2>4. streak' = IF healthy THEN 0 ELSE streak + 1
      BY DEF Strat!Evaluate
    <2> HIDE DEF r
    <2> QED BY <1>2, <1>3, <2>2, <2>3, <2>4 DEF OnTrack
  <1> HIDE DEF r
  <1> QED BY <1>2, <1>3, <1>4, <1>5, EvaluationStep

\* Its fields are read and written one after the other.
LEMMA EvaluationInv ==
    ASSUME StratInv, NEW e \in Evaluators,
           Strat!Judge(e) \/ Strat!ReadState(e) \/ Strat!WriteState(e)
    PROVE  StratInv'
  <1>1. evaluation[e] \in Evaluation /\ strategy_losses \in Nat /\ streak \in Nat /\ raced \in BOOLEAN
    BY DEF StratInv, StratType
  <1>2. ASSUME ~raced, evaluation[e].pc # "idle"
        PROVE  OnTrack(evaluation[e], strategy_losses, streak) /\ \A f \in Evaluators \ {e} : evaluation[f].pc = "idle"
    BY <1>2 DEF StratInv
  <1>3. CASE Strat!Judge(e)
    <2> DEFINE judged == Strat!Judged(strategy_losses, evaluation[e].healthy)
               r == [evaluation[e] EXCEPT !.pc = "read", !.count = judged.count, !.fields = judged.fields]
    <2>1. /\ evaluation' = [evaluation EXCEPT ![e] = r] /\ evaluation[e].pc = "judge"
          /\ strategy_losses' = strategy_losses /\ streak' = streak /\ raced' = raced
      BY <1>3 DEF Strat!Judge
    <2>2. /\ judged.count = IF evaluation[e].healthy THEN 0 ELSE strategy_losses + 1
          /\ \/ judged.fields \in CountLists
             \/ judged.fields \in NoteLists /\ evaluation[e].healthy /\ strategy_losses = 0
      BY <1>1, JudgedFields DEF Evaluation
    <2> HIDE DEF judged
    <2>0. judged.count \in Nat /\ judged.fields \in CountLists \cup NoteLists
      BY <1>1, <2>2 DEF Evaluation
    <2>3. r \in Evaluation /\ r.pc = "read" /\ r.fields = judged.fields /\ r.count = judged.count
      BY <1>1, <2>0 DEF Evaluation
    <2> HIDE DEF r
    <2>4. r.fields # <<>>
      BY <2>2, <2>3, FieldLists
    <2>5. ~raced => OnTrack(r, strategy_losses', streak')
      BY <1>1, <1>2, <2>1, <2>2, <2>3 DEF OnTrack
    <2> QED BY <1>1, <1>2, <2>1, <2>3, <2>4, <2>5, EvaluationStep
  <1>4. CASE Strat!ReadState(e)
    <2> DEFINE r == [evaluation[e] EXCEPT !.pc = "write",
                        !.losses = IF Head(evaluation[e].fields) = "count" THEN evaluation[e].count ELSE strategy_losses]
    <2>1. /\ evaluation' = [evaluation EXCEPT ![e] = r] /\ evaluation[e].pc = "read"
          /\ strategy_losses' = strategy_losses /\ streak' = streak /\ raced' = raced
      BY <1>4 DEF Strat!ReadState
    <2>2. /\ r \in Evaluation /\ r.pc = "write" /\ r.fields = evaluation[e].fields
          /\ r.losses = IF Head(evaluation[e].fields) = "count" THEN evaluation[e].count ELSE strategy_losses
      BY <1>1 DEF Evaluation
    <2>3. r.fields # <<>>
      BY <2>1, <2>2 DEF StratInv, StratType
    <2> HIDE DEF r
    <2>4. ~raced => OnTrack(r, strategy_losses', streak')
      BY <1>1, <1>2, <2>1, <2>2, FieldLists DEF OnTrack
    <2> QED BY <1>1, <1>2, <2>1, <2>2, <2>3, <2>4, EvaluationStep
  <1>5. CASE Strat!WriteState(e)
    <2> DEFINE rest == Tail(evaluation[e].fields)
               r == IF rest = <<>> THEN Strat!Idle ELSE [evaluation[e] EXCEPT !.pc = "read", !.fields = rest]
    <2>1. /\ evaluation' = [evaluation EXCEPT ![e] = r] /\ evaluation[e].pc = "write"
          /\ strategy_losses' = evaluation[e].losses /\ streak' = streak /\ raced' = raced
      BY <1>5 DEF Strat!WriteState
    <2>2. evaluation[e].fields # <<>> /\ evaluation[e].fields \in CountLists \cup NoteLists \cup {<<>>}
      BY <1>1, <2>1 DEF StratInv, StratType, Evaluation
    <2>3. rest \in NoteLists \cup {<<>>}
      BY <2>2, FieldLists
    <2>4. r \in Evaluation
      <3> HIDE DEF rest
      <3> QED BY <1>1, <2>3 DEF Evaluation, Strat!Idle
    <2>5. r.pc = IF rest = <<>> THEN "idle" ELSE "read"
      <3> HIDE DEF rest
      <3> QED BY <1>1 DEF Evaluation, Strat!Idle
    <2>6. rest # <<>> => r.fields = rest /\ rest \in NoteLists
      <3> HIDE DEF rest
      <3> QED BY <1>1, <2>3 DEF Evaluation
    <2>7. evaluation[e].losses \in Nat
      BY <1>1 DEF Evaluation
    <2> HIDE DEF rest, r
    <2>8. ~raced => evaluation[e].losses = streak
      BY <1>2, <2>1 DEF OnTrack
    <2>9. ~raced => IF r.pc = "idle" THEN strategy_losses' = streak' ELSE OnTrack(r, strategy_losses', streak')
      BY <2>1, <2>5, <2>6, <2>8 DEF OnTrack
    <2>10. r.pc \in {"read", "write"} => r.fields # <<>>
      BY <2>5, <2>6, FieldLists
    <2> QED BY <1>1, <1>2, <2>1, <2>4, <2>7, <2>9, <2>10, EvaluationStep
  <1> QED BY <1>3, <1>4, <1>5

\* Every step of the strategies keeps the invariant; one that fails half way is a race.
LEMMA StratStep == StratInv /\ [Strat!Next]_stratVars => StratInv'
  <1> SUFFICES ASSUME StratInv, [Strat!Next]_stratVars PROVE StratInv'
    OBVIOUS
  <1>1. CASE UNCHANGED stratVars
    BY <1>1 DEF stratVars, StratInv, StratType, OnTrack, Strat!SeriesAreCounted, Strat!Busy
  <1>2. ASSUME NEW e \in Evaluators, Strat!EvaluationFails(e) PROVE StratInv'
    <2>1. Strat!Idle \in Evaluation /\ Strat!Idle.pc = "idle"
      BY DEF Strat!Idle, Evaluation
    <2> QED BY <1>2, <2>1, EvaluationStep DEF Strat!EvaluationFails, StratInv, StratType
  <1>3. CASE Strat!Enable
    <2>1. /\ strategy_losses' = 0 /\ streak' = 0 /\ evaluation' = evaluation
          /\ raced' = (Strat!Busy # {})
      BY <1>3 DEF Strat!Enable
    <2>2. StratType'
      BY <2>1 DEF StratInv, StratType
    <2>3. ~raced' => \A e \in Evaluators : evaluation'[e].pc = "idle"
      BY <2>1 DEF Strat!Busy
    <2> QED BY <2>1, <2>2, <2>3 DEF StratInv, Strat!SeriesAreCounted
  <1> QED BY <1>1, <1>2, <1>3, EvaluateInv, EvaluationInv DEF Strat!Next

----------------------------------------------------------------------------
(* RateLimits *)

Kinds == {"default", "heavy"}

\* The requests of kind k that passed, step by step.
Steps(p, k) == [i \in 1..Minute |-> p[i][k]]

\* What passed in the last n steps and what is left in the bucket came from the full bucket and
\* the refills of these steps.
LimitsInv == /\ bucket \in [Kinds -> Nat]
             /\ passed \in [1..Minute -> [Kinds -> Nat]]
             /\ \A k \in Kinds : bucket[k] <= Limits!Rpm[k] * Minute
             /\ \A k \in Kinds : \A n \in 1..Minute :
                    bucket[k] + Minute * Total(Steps(passed, k), n) <= Limits!Rpm[k] * Minute + (n - 1) * Limits!Rpm[k]

\* The rates of the two buckets.
LEMMA Rates == /\ Limits!Rpm = [default |-> DefaultRpm, heavy |-> HeavyRpm] /\ Limits!Kinds = Kinds
               /\ \A k \in Kinds : Limits!Rpm[k] \in Nat \ {0}
               /\ Minute \in Nat \ {0}
  BY ConstantsAreSound DEF Limits!RateLimitsAssumption, Limits!Rpm, Limits!Kinds, Kinds

\* A request that passes is one more in the newest step, and in the sums over it.
LEMMA PassSums ==
    ASSUME LimitsInv, NEW ks \in SUBSET Kinds, Limits!Pass(ks)
    PROVE  /\ passed' \in [1..Minute -> [Kinds -> Nat]]
           /\ \A k \in Kinds, n \in 1..Minute :
                Total(Steps(passed', k), n) = Total(Steps(passed, k), n) + (IF k \in ks THEN 1 ELSE 0)
  <1>1. passed' = [passed EXCEPT ![1] = [k \in Kinds |-> IF k \in ks THEN passed[1][k] + 1 ELSE passed[1][k]]]
    BY Rates DEF Limits!Pass
  <1>2. 1 \in 1..Minute
    BY Rates
  <1>3. passed' \in [1..Minute -> [Kinds -> Nat]]
    BY <1>1, <1>2 DEF LimitsInv
  <1>4. ASSUME NEW k \in Kinds, NEW n \in 1..Minute
        PROVE  Total(Steps(passed', k), n) = Total(Steps(passed, k), n) + (IF k \in ks THEN 1 ELSE 0)
    <2> DEFINE f == Steps(passed, k)
               g == Steps(passed', k)
    <2>1. \A i \in 1..n : f[i] \in Int /\ g[i] \in Int
      <3>1. \A i \in 1..n : i \in 1..Minute
        BY Rates
      <3>2. \A i \in 1..Minute : passed[i][k] \in Nat /\ passed'[i][k] \in Nat
        BY <1>3 DEF LimitsInv
      <3> QED BY <3>1, <3>2 DEF Steps
    <2>2. \A i \in 1..n : i # 1 => g[i] = f[i]
      BY <1>1, Rates DEF LimitsInv, Steps
    <2>3. g[1] = f[1] + (IF k \in ks THEN 1 ELSE 0)
      BY <1>1, <1>2 DEF LimitsInv, Steps
    <2>4. n \in Nat /\ 1 \in 1..n
      BY Rates
    <2> HIDE DEF f, g
    <2>5. Total(g, n) = Total(f, n) + (g[1] - f[1])
      BY <2>1, <2>2, <2>4, TotalChange
    <2>6. Total(f, n) \in Int /\ f[1] \in Int
      BY <2>1, <2>4, TotalType
    <2> QED BY <2>3, <2>5, <2>6 DEF f, g
  <1> QED BY <1>3, <1>4

\* A new step begins with no requests, and the oldest one is forgotten.
LEMMA TickSums ==
    ASSUME LimitsInv, Limits!Tick
    PROVE  /\ passed' \in [1..Minute -> [Kinds -> Nat]]
           /\ \A k \in Kinds, n \in 1..Minute :
                Total(Steps(passed', k), n) = Total(Steps(passed, k), n - 1)
  <1>1. passed' = [i \in 1..Minute |-> IF i = 1 THEN [k \in Kinds |-> 0] ELSE passed[i - 1]]
    BY Rates DEF Limits!Tick
  <1>2. passed' \in [1..Minute -> [Kinds -> Nat]]
    <2>1. \A i \in 1..Minute : i # 1 => i - 1 \in 1..Minute
      BY Rates
    <2> QED BY <1>1, <2>1 DEF LimitsInv
  <1>3. ASSUME NEW k \in Kinds, NEW n \in 1..Minute
        PROVE  Total(Steps(passed', k), n) = Total(Steps(passed, k), n - 1)
    <2> DEFINE f == Steps(passed, k)
               g == Steps(passed', k)
               m == n - 1
    <2>1. m \in Nat /\ n = m + 1 /\ \A i \in 1..m : i \in 1..Minute /\ i + 1 \in 1..Minute
      BY Rates
    <2>2. \A i \in 1..m : f[i] \in Int
      <3>1. \A i \in 1..Minute : passed[i][k] \in Nat
        BY DEF LimitsInv
      <3> HIDE DEF m
      <3> QED BY <2>1, <3>1 DEF Steps
    <2>3. g[1] = 0
      BY <1>1, Rates DEF Steps
    <2>4. \A i \in 1..m : g[i + 1] = f[i]
      <3> SUFFICES ASSUME NEW i \in 1..m PROVE g[i + 1] = f[i]
        OBVIOUS
      <3>1. i \in 1..Minute /\ i + 1 \in 1..Minute /\ i + 1 # 1 /\ (i + 1) - 1 = i
        BY <2>1
      <3> QED BY <1>1, <3>1 DEF Steps
    <2> HIDE DEF f, g, m
    <2>5. Total(g, m + 1) = g[1] + Total(f, m)
      BY <2>1, <2>2, <2>3, <2>4, TotalPrepend
    <2>6. Total(f, m) \in Int
      BY <2>1, <2>2, TotalType
    <2>7. Total(g, n) = Total(f, m)
      BY <2>1, <2>3, <2>5, <2>6
    <2> QED BY <2>7 DEF f, g, m
  <1> QED BY <1>2, <1>3

\* The sums are whole numbers.
LEMMA SumsAreInts ==
    ASSUME LimitsInv, NEW k \in Kinds, NEW n \in 0..Minute
    PROVE  Total(Steps(passed, k), n) \in Int
  <1> DEFINE f == Steps(passed, k)
  <1>1. \A i \in 1..n : f[i] \in Int
    <2>1. \A i \in 1..n : i \in 1..Minute
      BY Rates
    <2>2. \A i \in 1..Minute : passed[i][k] \in Nat
      BY DEF LimitsInv
    <2> QED BY <2>1, <2>2 DEF Steps
  <1>2. n \in Nat
    BY Rates
  <1> HIDE DEF f
  <1>3. Total(f, n) \in Int
    BY <1>1, <1>2, TotalType
  <1> QED BY <1>3 DEF f

\* At first the buckets are full and nothing has passed.
LEMMA LimitsInit == Limits!Init => LimitsInv
  <1> SUFFICES ASSUME Limits!Init PROVE LimitsInv
    OBVIOUS
  <1>1. /\ bucket = [k \in Kinds |-> Limits!Rpm[k] * Minute]
        /\ passed = [i \in 1..Minute |-> [k \in Kinds |-> 0]]
    BY Rates DEF Limits!Init
  <1>2. \A k \in Kinds : Limits!Rpm[k] * Minute \in Nat
    BY Rates
  <1>3. ASSUME NEW k \in Kinds, NEW n \in 1..Minute
        PROVE  bucket[k] + Minute * Total(Steps(passed, k), n) <= Limits!Rpm[k] * Minute + (n - 1) * Limits!Rpm[k]
    <2> DEFINE f == Steps(passed, k)
               S == {m \in Nat : m <= Minute => Total(f, m) = 0}
    <2>1. 0 \in S
      <3> HIDE DEF f
      <3> QED BY TotalSteps
    <2>2. ASSUME NEW m \in Nat, m \in S PROVE m + 1 \in S
      <3>1. m + 1 <= Minute => f[m + 1] = 0
        BY <1>1, Rates DEF Steps
      <3> HIDE DEF f
      <3> QED BY <2>2, <3>1, TotalSteps, Rates
    <2> HIDE DEF S, f
    <2>3. Nat \subseteq S
      BY <2>1, <2>2, Induction
    <2>4. Total(f, n) = 0
      BY <2>3, Rates DEF S
    <2>5. Minute * Total(f, n) = 0 /\ (n - 1) * Limits!Rpm[k] >= 0
      BY <2>4, Rates
    <2>6. (n - 1) * Limits!Rpm[k] \in Int
      BY Rates
    <2> QED BY <1>1, <1>2, <2>5, <2>6 DEF f
  <1>4. bucket \in [Kinds -> Nat] /\ \A k \in Kinds : bucket[k] <= Limits!Rpm[k] * Minute
    BY <1>1, <1>2
  <1>5. passed \in [1..Minute -> [Kinds -> Nat]]
    BY <1>1
  <1> QED BY <1>3, <1>4, <1>5 DEF LimitsInv

\* What passes was in the bucket.
LEMMA Bounds ==
    ASSUME LimitsInv, NEW k \in Kinds, NEW n \in 1..Minute, NEW b \in Nat, NEW t \in Int,
           \/ b = bucket[k] /\ t = Total(Steps(passed, k), n)
           \/ b = bucket[k] - Minute /\ t \in {Total(Steps(passed, k), n), Total(Steps(passed, k), n) + 1}
    PROVE  b + Minute * t <= Limits!Rpm[k] * Minute + (n - 1) * Limits!Rpm[k]
  <1> DEFINE s == Total(Steps(passed, k), n)
             bound == Limits!Rpm[k] * Minute + (n - 1) * Limits!Rpm[k]
  <1>1. s \in Int /\ Minute \in Nat /\ bucket[k] \in Nat
    BY Rates, SumsAreInts DEF LimitsInv
  <1>2. bucket[k] + Minute * s <= bound
    BY DEF LimitsInv
  <1>3. bound \in Int /\ Minute * s \in Int
    <2>1. Limits!Rpm[k] \in Int /\ n - 1 \in Int
      BY Rates
    <2> HIDE DEF s
    <2> QED BY <1>1, <2>1
  <1> HIDE DEF s, bound
  <1>4. Minute * (s + 1) = Minute * s + Minute
    BY <1>1
  <1>5. b + Minute * t <= bound
    BY <1>1, <1>2, <1>3, <1>4 DEF s
  <1> QED BY <1>5 DEF bound

\* Every step of the limits keeps the invariant.
LEMMA LimitsStep == LimitsInv /\ [Limits!Next]_limitsVars => LimitsInv'
  <1> SUFFICES ASSUME LimitsInv, [Limits!Next]_limitsVars PROVE LimitsInv'
    OBVIOUS
  <1>1. CASE UNCHANGED limitsVars
    BY <1>1 DEF limitsVars, LimitsInv
  <1>2. CASE Limits!Request
    <2>1. bucket' = [bucket EXCEPT !["default"] = @ - Minute] /\ Limits!Pass({"default"}) /\ bucket["default"] >= Minute
      BY <1>2 DEF Limits!Request, Limits!Has
    <2>2. bucket' \in [Kinds -> Nat] /\ \A k \in Kinds : bucket'[k] <= Limits!Rpm[k] * Minute
      BY <2>1, Rates DEF LimitsInv, Kinds
    <2>3. {"default"} \in SUBSET Kinds
      BY DEF Kinds
    <2>4. /\ passed' \in [1..Minute -> [Kinds -> Nat]]
          /\ \A k \in Kinds, n \in 1..Minute :
                Total(Steps(passed', k), n) = Total(Steps(passed, k), n) + (IF k \in {"default"} THEN 1 ELSE 0)
      BY <2>1, <2>3, PassSums
    <2>5. ASSUME NEW k \in Kinds, NEW n \in 1..Minute
          PROVE  bucket'[k] + Minute * Total(Steps(passed', k), n) <= Limits!Rpm[k] * Minute + (n - 1) * Limits!Rpm[k]
      <3>1. bucket'[k] = IF k = "default" THEN bucket[k] - Minute ELSE bucket[k]
        BY <2>1 DEF LimitsInv
      <3>2. Total(Steps(passed, k), n) \in Int /\ bucket'[k] \in Nat
        BY <2>2, SumsAreInts, Rates
      <3>3. Total(Steps(passed', k), n) = Total(Steps(passed, k), n) + (IF k = "default" THEN 1 ELSE 0)
        BY <2>4
      <3>4. Total(Steps(passed', k), n) \in Int
        BY <3>2, <3>3
      <3> QED BY <3>1, <3>2, <3>3, <3>4, Bounds
    <2> QED BY <2>2, <2>4, <2>5 DEF LimitsInv
  <1>3. CASE Limits!HeavyRequest
    <2> DEFINE both == bucket["default"] >= Minute
    <2>1. /\ bucket' = [k \in Kinds |-> IF k = "heavy" \/ bucket[k] >= Minute THEN bucket[k] - Minute ELSE bucket[k]]
          /\ IF both THEN Limits!Pass(Kinds) ELSE passed' = passed
          /\ bucket["heavy"] >= Minute
      BY <1>3, Rates DEF Limits!HeavyRequest, Limits!TakesHeavy, Limits!Has
    <2>2. bucket' \in [Kinds -> Nat] /\ \A k \in Kinds : bucket'[k] <= Limits!Rpm[k] * Minute
      <3>1. ASSUME NEW k \in Kinds PROVE bucket'[k] \in Nat /\ bucket'[k] <= bucket[k]
        BY <2>1, Rates DEF LimitsInv, Kinds
      <3>2. \A k \in Kinds : Limits!Rpm[k] * Minute \in Nat /\ bucket[k] \in Nat /\ bucket[k] <= Limits!Rpm[k] * Minute
        BY Rates DEF LimitsInv
      <3>3. bucket' = [k \in Kinds |-> bucket'[k]]
        BY <2>1
      <3>4. \A k \in Kinds : bucket'[k] <= Limits!Rpm[k] * Minute
        BY <3>1, <3>2
      <3> QED BY <3>1, <3>3, <3>4
    <2>3. /\ passed' \in [1..Minute -> [Kinds -> Nat]]
          /\ \A k \in Kinds, n \in 1..Minute :
                Total(Steps(passed', k), n) = Total(Steps(passed, k), n) + (IF both THEN 1 ELSE 0)
      <3>1. CASE both
        BY <2>1, <3>1, PassSums
      <3>2. CASE ~both
        <4>1. \A k \in Kinds, n \in 1..Minute : Total(Steps(passed, k), n) \in Int
          BY SumsAreInts, Rates
        <4> QED BY <2>1, <3>2, <4>1 DEF LimitsInv
      <3> QED BY <3>1, <3>2
    <2>4. ASSUME NEW k \in Kinds, NEW n \in 1..Minute
          PROVE  bucket'[k] + Minute * Total(Steps(passed', k), n) <= Limits!Rpm[k] * Minute + (n - 1) * Limits!Rpm[k]
      <3>1. /\ bucket'[k] = bucket[k] - Minute \/ (bucket'[k] = bucket[k] /\ ~both)
        BY <2>1 DEF Kinds
      <3>2. Total(Steps(passed, k), n) \in Int /\ bucket'[k] \in Nat
        BY <2>2, SumsAreInts, Rates
      <3>3. Total(Steps(passed', k), n) = Total(Steps(passed, k), n) + (IF both THEN 1 ELSE 0)
        BY <2>3
      <3>4. Total(Steps(passed', k), n) \in Int
        BY <3>2, <3>3
      <3> HIDE DEF both
      <3> QED BY <3>1, <3>2, <3>3, <3>4, Bounds
    <2> QED BY <2>2, <2>3, <2>4 DEF LimitsInv
  <1>4. CASE Limits!Tick
    <2>1. bucket' = [k \in Kinds |-> Limits!Refilled(k)]
      BY <1>4, Rates DEF Limits!Tick
    <2>2. \A k \in Kinds : /\ Limits!Refilled(k) \in Nat /\ Limits!Refilled(k) <= Limits!Rpm[k] * Minute
                           /\ Limits!Refilled(k) <= bucket[k] + Limits!Rpm[k]
      <3> SUFFICES ASSUME NEW k \in Kinds
                   PROVE  /\ Limits!Refilled(k) \in Nat /\ Limits!Refilled(k) <= Limits!Rpm[k] * Minute
                          /\ Limits!Refilled(k) <= bucket[k] + Limits!Rpm[k]
        OBVIOUS
      <3>1. Limits!Rpm[k] * Minute \in Nat /\ Limits!Rpm[k] \in Nat /\ bucket[k] \in Nat
        BY Rates DEF LimitsInv
      <3> QED BY <3>1 DEF Limits!Refilled
    <2>3. bucket' \in [Kinds -> Nat] /\ \A k \in Kinds : bucket'[k] <= Limits!Rpm[k] * Minute
      BY <2>1, <2>2
    <2>4. ASSUME NEW k \in Kinds, NEW n \in 1..Minute
          PROVE  bucket'[k] + Minute * Total(Steps(passed', k), n) <= Limits!Rpm[k] * Minute + (n - 1) * Limits!Rpm[k]
      <3> DEFINE s == Total(Steps(passed, k), n - 1)
                 rpm == Limits!Rpm[k]
      <3>1. Total(Steps(passed', k), n) = s
        BY <1>4, TickSums
      <3>2. s \in Int /\ rpm \in Nat /\ Minute \in Nat /\ bucket'[k] \in Nat /\ bucket[k] \in Nat
        BY <2>3, SumsAreInts, Rates DEF LimitsInv
      <3>3. bucket'[k] <= rpm * Minute /\ bucket'[k] <= bucket[k] + rpm
        BY <2>1, <2>2
      <3>4. n # 1 => bucket[k] + Minute * s <= rpm * Minute + ((n - 1) - 1) * rpm
        <4>1. n # 1 => n - 1 \in 1..Minute
          BY Rates
        <4> QED BY <4>1 DEF LimitsInv
      <3>5. n = 1 => s = 0
        BY TotalSteps
      <3> HIDE DEF s, rpm
      <3>6. CASE n = 1
        BY <3>2, <3>3, <3>5, <3>6, <3>1 DEF rpm
      <3>7. CASE n # 1
        <4>1. ((n - 1) - 1) * rpm + rpm = (n - 1) * rpm
          BY <3>2
        <4>2. Minute * s \in Int /\ rpm * Minute \in Int /\ ((n - 1) - 1) * rpm \in Int
          BY <3>2
        <4>3. bucket'[k] + Minute * s <= rpm * Minute + (n - 1) * rpm
          BY <3>2, <3>3, <3>4, <3>7, <4>1, <4>2
        <4> QED BY <3>1, <4>3 DEF rpm
      <3> QED BY <3>6, <3>7
    <2>5. passed' \in [1..Minute -> [Kinds -> Nat]]
      BY <1>4, TickSums
    <2> QED BY <2>3, <2>4, <2>5 DEF LimitsInv
  <1> QED BY <1>1, <1>2, <1>3, <1>4 DEF Limits!Next

\* The invariant says more than what the run checks.
LEMMA LimitsHold == LimitsInv => PassesAreBounded
  <1> SUFFICES ASSUME LimitsInv, NEW k \in Kinds, NEW n \in 1..Minute
               PROVE  Minute * Limits!PassedIn(n, k) <= Limits!Rpm[k] * Minute + (n - 1) * Limits!Rpm[k]
    BY Rates DEF PassesAreBounded, Of, Limits!PassesAreBounded
  <1>1. Limits!PassedIn(n, k) = Total(Steps(passed, k), n)
    BY DEF Limits!PassedIn, Limits!Total, Total, Steps
  <1> DEFINE t == Total(Steps(passed, k), n)
             bound == Limits!Rpm[k] * Minute + (n - 1) * Limits!Rpm[k]
  <1>2. t \in Int /\ Minute \in Nat /\ bucket[k] \in Nat /\ n - 1 \in Int /\ Limits!Rpm[k] \in Int
    <2>1. passed \in [1..Minute -> [Kinds -> Nat]] /\ bucket \in [Kinds -> Nat]
      BY DEF LimitsInv
    <2>2. t \in Int
      BY <2>1, SumsAreInts
    <2> HIDE DEF t
    <2> QED BY <2>1, <2>2, Rates
  <1>3. bucket[k] + Minute * t <= bound
    BY DEF LimitsInv
  <1>4. Minute * t \in Int /\ bound \in Int
    <2> HIDE DEF t
    <2> QED BY <1>2
  <1> HIDE DEF t, bound
  <1>5. Minute * t <= bound
    BY <1>2, <1>3, <1>4
  <1> QED BY <1>1, <1>5 DEF t, bound

----------------------------------------------------------------------------
(* RiskManager *)

RiskStates == [level : {"normal", "elevated", "critical"}, daily : Nat, total : Nat,
               circuit : {"none", "daily_drop", "override_count"}, last : 0..Risk!Never, crit : 0..Risk!Never]

\* What holds of the state in Redis and of every copy of it: the level has its reasons, a critical
\* override on record is no younger than the last override, and keeps the level while it is fresh.
Earned(s) == /\ s.daily <= s.total /\ s.last <= s.crit
             /\ s.crit <= Cooldown => s.level = "critical" \/ s.daily >= Elevated
             /\ s.level = "normal" => s.daily < Elevated /\ s.circuit = "none" /\ (s.crit = Risk!Never \/ s.last = Risk!Old)
             /\ s.level = "elevated" => s.circuit = "none" /\ (s.daily >= Elevated \/ s.crit # Risk!Never)
             /\ s.level = "critical" => \/ s.circuit = "daily_drop" /\ s.crit # Risk!Never
                                        \/ s.circuit = "override_count" /\ s.daily >= Critical

Sound(s) == s \in RiskStates /\ Earned(s)

\* The thresholds and times.
LEMMA RiskConstants ==
    /\ Elevated \in Nat \ {0} /\ Critical \in Nat \ {0} /\ Elevated < Critical
    /\ Cooldown \in Nat \ {0} /\ Day \in Nat \ {0} /\ Cooldown <= Day
    /\ MaxHistory \in Nat \ {0} /\ MaxOverrides \in Nat \ {0}
    /\ Risk!Old = Day + 1 /\ Risk!Never = Day + 2
  BY ConstantsAreSound DEF Risk!RiskAssumption, Risk!Old, Risk!Never

\* The state before the first override.
LEMMA NewIsEarned == Sound(Risk!NewState) /\ Risk!NewState.total = 0
  BY RiskConstants DEF Sound, Earned, RiskStates, Risk!NewState

\* Ages grow together, up to the oldest one.
LEMMA OlderIsLater ==
    ASSUME NEW a \in 0..Risk!Never, NEW b \in 0..Risk!Never
    PROVE  /\ Risk!Older(a) \in 0..Risk!Never
           /\ a <= b => Risk!Older(a) <= Risk!Older(b)
  BY RiskConstants DEF Risk!Older

\* Time explains no level away.
LEMMA AgedIsEarned ==
    ASSUME NEW s, Sound(s)
    PROVE  Sound(Risk!Aged(s)) /\ Risk!Aged(s).total = s.total /\ Risk!Aged(s).crit = Risk!Older(s.crit)
  <1> DEFINE a == Risk!Aged(s)
  <1>1. a = [level |-> s.level, daily |-> s.daily, total |-> s.total, circuit |-> s.circuit,
             last |-> Risk!Older(s.last), crit |-> Risk!Older(s.crit)]
    <2> DEFINE l == [s EXCEPT !.last = Risk!Older(s.last)]
    <2>1. l = [level |-> s.level, daily |-> s.daily, total |-> s.total, circuit |-> s.circuit,
               last |-> Risk!Older(s.last), crit |-> s.crit]
      BY DEF Sound, RiskStates
    <2>2. a = [l EXCEPT !.crit = Risk!Older(s.crit)]
      BY DEF Risk!Aged
    <2> HIDE DEF l, a
    <2> QED BY <2>1, <2>2
  <1>2. ASSUME NEW age \in 0..Risk!Never
        PROVE  /\ Risk!Older(age) = IF age < Risk!Old THEN age + 1 ELSE age
               /\ Risk!Older(age) \in 0..Risk!Never
               /\ Risk!Older(age) = Risk!Never <=> age = Risk!Never
               /\ Risk!Older(age) <= Cooldown => age <= Cooldown
    BY RiskConstants DEF Risk!Older
  <1>3. s.last \in 0..Risk!Never /\ s.crit \in 0..Risk!Never
    BY DEF Sound, RiskStates
  <1>4. a \in RiskStates
    BY <1>1, <1>2, <1>3 DEF Sound, RiskStates
  <1>5. Risk!Older(s.last) <= Risk!Older(s.crit) /\ (s.last = Risk!Old => Risk!Older(s.last) = Risk!Old)
    BY <1>2, <1>3, RiskConstants DEF Sound, Earned
  <1>6. Earned(a)
    <2>1. a.crit <= Cooldown => a.level = "critical" \/ a.daily >= Elevated
      BY <1>1, <1>2, <1>3 DEF Sound, Earned
    <2> QED BY <1>1, <1>2, <1>3, <1>5, <2>1 DEF Sound, Earned
  <1> QED BY <1>1, <1>4, <1>6 DEF Sound

\* _update_risk_state counts the override and gives the level its reason.
LEMMA UpdatedIsEarned ==
    ASSUME NEW s, Sound(s), NEW kind \in Risk!Severities
    PROVE  /\ Sound(Risk!Updated(s, kind)) /\ Risk!Updated(s, kind).total = s.total + 1
           /\ Risk!Updated(s, kind).crit \in {0, s.crit}
  <1> DEFINE daily == (IF s.last = Risk!Old THEN 0 ELSE s.daily) + 1
             total == s.total + 1
             State(grade, circuit, crit) == [level |-> grade, daily |-> daily, total |-> total,
                                             circuit |-> circuit, last |-> 0, crit |-> crit]
             n == State(s.level, s.circuit, s.crit)
             u == Risk!Updated(s, kind)
  <1>1. Risk!Counted(s) = n
    <2> DEFINE r == [level |-> s.level, daily |-> IF s.last = Risk!Old THEN 0 ELSE s.daily, total |-> s.total,
                     circuit |-> s.circuit, last |-> s.last, crit |-> s.crit]
               d == [Risk!Renewed(s) EXCEPT !.daily = Risk!Renewed(s).daily + 1]
               e == [d EXCEPT !.total = d.total + 1]
    <2>1. s = [level |-> s.level, daily |-> s.daily, total |-> s.total,
               circuit |-> s.circuit, last |-> s.last, crit |-> s.crit]
      BY DEF Sound, RiskStates
    <2>2. Risk!Renewed(s) = r
      <3>1. CASE s.last = Risk!Old
        BY <2>1, <3>1 DEF Risk!Renewed
      <3>2. CASE s.last # Risk!Old
        BY <2>1, <3>2 DEF Risk!Renewed
      <3> QED BY <3>1, <3>2
    <2>3. d = [level |-> s.level, daily |-> daily, total |-> s.total,
               circuit |-> s.circuit, last |-> s.last, crit |-> s.crit]
      BY <2>2
    <2>4. e = [level |-> s.level, daily |-> daily, total |-> total,
               circuit |-> s.circuit, last |-> s.last, crit |-> s.crit]
      <3> HIDE DEF d, daily
      <3> QED BY <2>3
    <2>5. Risk!Counted(s) = [e EXCEPT !.last = 0]
      <3>1. d.total = Risk!Renewed(s).total
        BY <2>2, <2>3
      <3> QED BY <3>1 DEF Risk!Counted
    <2> HIDE DEF e, daily, total
    <2> QED BY <2>4, <2>5
  <1>2. u = IF kind = "critical" THEN State("critical", "daily_drop", 0)
            ELSE IF daily >= Critical THEN State("critical", "override_count", s.crit)
            ELSE IF daily >= Elevated THEN State("elevated", "none", s.crit)
            ELSE IF s.crit = Risk!Never THEN State("normal", "none", s.crit)
            ELSE IF s.crit > Cooldown THEN State("elevated", "none", s.crit)
            ELSE n
    <2> DEFINE At(grade, circuit) == [n EXCEPT !.level = grade, !.circuit = circuit]
    <2>1. ASSUME NEW grade, NEW circuit PROVE At(grade, circuit) = State(grade, circuit, s.crit)
      <3> DEFINE m == [n EXCEPT !.level = grade]
      <3> HIDE DEF daily, total
      <3>1. m = State(grade, s.circuit, s.crit)
        OBVIOUS
      <3>2. At(grade, circuit) = [m EXCEPT !.circuit = circuit]
        OBVIOUS
      <3> HIDE DEF m, n
      <3> QED BY <3>1, <3>2
    <2>2. [State("critical", "daily_drop", s.crit) EXCEPT !.crit = 0] = State("critical", "daily_drop", 0)
      <3> HIDE DEF daily, total
      <3> QED OBVIOUS
    <2>3. u = IF kind = "critical" THEN [At("critical", "daily_drop") EXCEPT !.crit = 0]
              ELSE IF n.daily >= Critical THEN At("critical", "override_count")
              ELSE IF n.daily >= Elevated THEN At("elevated", "none")
              ELSE IF n.crit = Risk!Never THEN At("normal", "none")
              ELSE IF n.crit > Cooldown THEN At("elevated", "none")
              ELSE n
      BY <1>1 DEF Risk!Updated
    <2>4. n.daily = daily /\ n.crit = s.crit
      OBVIOUS
    <2> HIDE DEF At, State, n, daily, u
    <2> QED BY <2>1, <2>2, <2>3, <2>4
  <1>3. /\ daily \in Nat /\ total \in Nat /\ daily <= total /\ s.crit \in 0..Risk!Never
        /\ s.level \in {"normal", "elevated", "critical"} /\ s.circuit \in {"none", "daily_drop", "override_count"}
        /\ 0 \in 0..Risk!Never
    BY RiskConstants DEF Sound, Earned, RiskStates
  <1>4. ASSUME NEW grade \in {"normal", "elevated", "critical"}, NEW crit \in 0..Risk!Never,
               NEW circuit \in {"none", "daily_drop", "override_count"}
        PROVE  /\ State(grade, circuit, crit) \in RiskStates /\ State(grade, circuit, crit).total = total
               /\ State(grade, circuit, crit).crit = crit
               /\ Earned(State(grade, circuit, crit)) <=>
                    /\ crit <= Cooldown => grade = "critical" \/ daily >= Elevated
                    /\ grade = "normal" => daily < Elevated /\ circuit = "none" /\ crit = Risk!Never
                    /\ grade = "elevated" => circuit = "none" /\ (daily >= Elevated \/ crit # Risk!Never)
                    /\ grade = "critical" => \/ circuit = "daily_drop" /\ crit # Risk!Never
                                             \/ circuit = "override_count" /\ daily >= Critical
    <2> HIDE DEF daily, total
    <2> QED BY <1>3, <1>4, RiskConstants DEF Earned, RiskStates
  <1>5. ASSUME kind # "critical", daily < Elevated, s.crit # Risk!Never, s.crit <= Cooldown
        PROVE  s.level = "critical" /\ s.circuit = "daily_drop"
    <2>1. s.last <= s.crit /\ s.last \in Nat /\ s.last # Risk!Old
      BY <1>3, <1>5, RiskConstants DEF Sound, Earned, RiskStates
    <2>2. daily = s.daily + 1 /\ s.daily \in Nat
      BY <2>1 DEF Sound, RiskStates
    <2> HIDE DEF daily
    <2> QED BY <1>5, <2>1, <2>2, RiskConstants DEF Sound, Earned
  <1> HIDE DEF daily, total
  <1>6. s.crit \in Nat /\ (s.crit > Cooldown \/ s.crit <= Cooldown)
    BY <1>3, RiskConstants
  <1>7. /\ (daily >= Critical => daily >= Elevated) /\ (daily >= Elevated \/ daily < Elevated)
        /\ Risk!Never # 0 /\ ~(Risk!Never <= Cooldown) /\ (s.crit > Cooldown => ~(s.crit <= Cooldown))
    BY <1>3, RiskConstants
  <1> DEFINE T(x) == x \in RiskStates /\ x.total = total /\ x.crit \in {0, s.crit} /\ Earned(x)
  <1>8. T(State("critical", "daily_drop", 0))
    BY <1>3, <1>4, <1>7
  <1>9. daily >= Critical => T(State("critical", "override_count", s.crit))
    BY <1>3, <1>4, <1>7
  <1>10. daily >= Elevated \/ (s.crit # Risk!Never /\ s.crit > Cooldown) => T(State("elevated", "none", s.crit))
    BY <1>3, <1>4, <1>7
  <1>11. daily < Elevated /\ s.crit = Risk!Never => T(State("normal", "none", s.crit))
    BY <1>3, <1>4, <1>7
  <1>12. kind # "critical" /\ daily < Elevated /\ s.crit # Risk!Never /\ s.crit <= Cooldown => T(n)
    BY <1>3, <1>4, <1>5, <1>7
  <1> HIDE DEF n, State, T, u
  <1>13. T(u)
    BY <1>2, <1>6, <1>7, <1>8, <1>9, <1>10, <1>11, <1>12
  <1> QED BY <1>13 DEF T, total, u, Sound

\* A day without overrides is the reason for the normal level.
LEMMA HealedIsEarned ==
    ASSUME NEW s, Sound(s), Risk!MayHeal(s)
    PROVE  Sound(Risk!Healed(s)) /\ Risk!Healed(s).total = s.total /\ Risk!Healed(s).crit = s.crit
  <1>1. Risk!Healed(s) = [level |-> "normal", daily |-> 0, total |-> s.total, circuit |-> "none",
                          last |-> s.last, crit |-> s.crit]
    <2> DEFINE d == [s EXCEPT !.daily = 0]
               l == [d EXCEPT !.level = "normal"]
    <2>1. d = [level |-> s.level, daily |-> 0, total |-> s.total, circuit |-> s.circuit,
               last |-> s.last, crit |-> s.crit]
      BY DEF Sound, RiskStates
    <2>2. Risk!Healed(s) = [l EXCEPT !.circuit = "none"]
      BY DEF Risk!Healed
    <2> HIDE DEF d
    <2> QED BY <2>1, <2>2
  <1>2. Risk!Healed(s) \in RiskStates
    BY <1>1 DEF Sound, RiskStates
  <1> QED BY <1>1, <1>2, RiskConstants DEF Sound, Earned, Risk!MayHeal, RiskStates

Recordings == [pc : {"idle", "append", "update", "save"}, id : Nat, severity : Risk!Severities,
               events : Seq(Nat), state : RiskStates, solo : BOOLEAN]
Healings == [pc : {"idle", "save"}, state : RiskStates]

\* Every state there is, in Redis or on its way there, has a level with its reasons.
LevelInv == /\ call \in [Recorders -> Recordings] /\ heal \in [Healers -> Healings]
            /\ issued \in Nat /\ history \in Seq(Nat) /\ crisis \in 0..Risk!Never
            /\ Sound(saved)
            /\ \A c \in Recorders : Sound(call[c].state)
            /\ \A h \in Healers : Sound(heal[h].state)

\* A recorder at rest.
LEMMA IdleRecorder ==
    /\ Risk!Idle \in Recordings /\ Risk!Idle.pc = "idle" /\ Risk!Idle.solo = FALSE
    /\ Risk!Idle.state = Risk!NewState /\ Risk!Idle.events = <<>>
    /\ Risk!Rest \in Healings /\ Risk!Rest.pc = "idle" /\ Risk!Rest.state = Risk!NewState
  <1>1. Risk!NewState \in RiskStates
    BY NewIsEarned DEF Sound
  <1>2. <<>> \in Seq(Nat)
    OBVIOUS
  <1> QED BY <1>1, <1>2 DEF Risk!Idle, Risk!Rest, Risk!NoHistory, Recordings, Healings, Risk!Severities

\* record_override begins: one recorder reads the history, and nobody is alone any more.
LEMMA RecordFacts ==
    ASSUME LevelInv, NEW c \in Recorders, NEW kind \in Risk!Severities, Risk!Record(c, kind)
    PROVE  /\ call' \in [Recorders -> Recordings] /\ issued' = issued + 1 /\ call[c].pc = "idle"
           /\ heal' = heal /\ saved' = saved /\ history' = history /\ alone' = alone /\ crisis' = crisis
           /\ call'[c].pc = "append" /\ call'[c].id = issued + 1 /\ call'[c].events = history
           /\ call'[c].state = Risk!NewState
           /\ call'[c].solo => /\ \A d \in Recorders : call[d].pc = "idle"
                               /\ \A h \in Healers : heal[h].pc = "idle"
           /\ \A d \in Recorders \ {c} : /\ call'[d].pc = call[d].pc /\ call'[d].id = call[d].id
                                         /\ call'[d].events = call[d].events /\ call'[d].state = call[d].state
                                         /\ ~call'[d].solo
  <1> DEFINE solo == (\A d \in Recorders : call[d].pc = "idle") /\ \A h \in Healers : heal[h].pc = "idle"
             r == [Risk!Idle EXCEPT !.pc = "append", !.id = issued + 1, !.severity = kind,
                                    !.events = history, !.solo = solo]
  <1>1. call' = [d \in Recorders |-> IF d = c THEN r ELSE [call[d] EXCEPT !.solo = FALSE]]
    BY DEF Risk!Record
  <1>2. solo \in BOOLEAN
    OBVIOUS
  <1>3. /\ r \in Recordings /\ r.pc = "append" /\ r.id = issued + 1 /\ r.events = history
        /\ r.state = Risk!NewState /\ r.solo = solo
    <2> HIDE DEF solo
    <2>1. issued + 1 \in Nat /\ history \in Seq(Nat) /\ Risk!Idle \in Recordings
      BY IdleRecorder DEF LevelInv
    <2>2. r \in Recordings
      BY <1>2, <2>1 DEF Recordings
    <2>3. r.pc = "append" /\ r.id = issued + 1 /\ r.events = history /\ r.solo = solo /\ r.state = Risk!Idle.state
      BY <2>1 DEF Recordings
    <2> QED BY <2>2, <2>3, IdleRecorder
  <1> HIDE DEF r
  <1>4. \A d \in Recorders \ {c} :
            /\ call'[d] \in Recordings
            /\ call'[d].pc = call[d].pc /\ call'[d].id = call[d].id
            /\ call'[d].events = call[d].events /\ call'[d].state = call[d].state /\ ~call'[d].solo
    BY <1>1 DEF LevelInv, Recordings
  <1>5. call' \in [Recorders -> Recordings]
    BY <1>1, <1>3, <1>4
  <1> QED BY <1>1, <1>3, <1>4, <1>5 DEF Risk!Record

\* A recorder goes on, and leaves what others hold alone.
LEMMA RecorderFacts ==
    ASSUME LevelInv, NEW c \in Recorders,
           Risk!SaveHistory(c) \/ Risk!LoadState(c) \/ Risk!SaveState(c) \/ Risk!RecordFails(c)
    PROVE  /\ call' \in [Recorders -> Recordings] /\ issued' = issued /\ heal' = heal
           /\ \A d \in Recorders \ {c} : call'[d] = call[d]
           /\ call[c].pc # "idle"
           /\ crisis' \in {crisis, call[c].state.crit}
           /\ call'[c].pc = "idle" => call'[c] = Risk!Idle
           /\ call'[c].pc # "idle" => call'[c].id = call[c].id /\ call'[c].solo = call[c].solo
           /\ \/ /\ call[c].pc = "append" /\ call'[c].pc = "update" /\ call'[c].state = call[c].state
                 /\ history' = Risk!Appended(call[c].events, call[c].id) /\ saved' = saved /\ alone' = alone
              \/ /\ call[c].pc = "update" /\ call'[c].pc = "save" /\ history' = history /\ saved' = saved /\ alone' = alone
                 /\ call'[c].state = Risk!Updated(saved, call[c].severity)
              \/ /\ call[c].pc = "save" /\ call'[c].pc = "idle" /\ history' = history /\ saved' = call[c].state
                 /\ alone' = IF call[c].solo THEN alone \cup {call[c].id} ELSE alone
              \/ call'[c].pc = "idle" /\ history' = history /\ saved' = saved /\ alone' = alone
  <1>1. call[c] \in Recordings /\ call = [d \in Recorders |-> call[d]]
    BY DEF LevelInv
  <1>2. CASE Risk!SaveHistory(c)
    <2> DEFINE r == [call[c] EXCEPT !.pc = "update", !.events = <<>>]
    <2>1. call' = [call EXCEPT ![c] = r] /\ call[c].pc = "append"
      BY <1>2 DEF Risk!SaveHistory, Risk!NoHistory
    <2>2. r \in Recordings /\ r.pc = "update" /\ r.state = call[c].state /\ r.id = call[c].id /\ r.solo = call[c].solo
      <3>1. <<>> \in Seq(Nat)
        OBVIOUS
      <3> QED BY <1>1, <3>1 DEF Recordings
    <2> HIDE DEF r
    <2> QED BY <1>2, <2>1, <2>2 DEF Risk!SaveHistory, LevelInv
  <1>3. CASE Risk!LoadState(c)
    <2> DEFINE u == Risk!Updated(saved, call[c].severity)
               r == [call[c] EXCEPT !.pc = "save", !.state = u]
    <2>1. call' = [call EXCEPT ![c] = r] /\ call[c].pc = "update"
      BY <1>3 DEF Risk!LoadState
    <2>2. u \in RiskStates
      <3>1. call[c].severity \in Risk!Severities
        BY <1>1 DEF Recordings
      <3> QED BY <3>1, UpdatedIsEarned DEF LevelInv, Sound
    <2> HIDE DEF u
    <2>3. r \in Recordings /\ r.pc = "save" /\ r.state = u /\ r.id = call[c].id /\ r.solo = call[c].solo
      BY <1>1, <2>2 DEF Recordings
    <2> HIDE DEF r
    <2> QED BY <1>3, <2>1, <2>3 DEF Risk!LoadState, LevelInv, u
  <1>4. CASE Risk!SaveState(c)
    BY <1>4, IdleRecorder DEF Risk!SaveState, LevelInv
  <1>5. CASE Risk!RecordFails(c)
    BY <1>5, IdleRecorder DEF Risk!RecordFails, LevelInv
  <1> QED BY <1>2, <1>3, <1>4, <1>5

\* A healer reads a state that is a day old: no recorder is alone any more.
LEMMA LoadToHealFacts ==
    ASSUME LevelInv, NEW h \in Healers, Risk!LoadToHeal(h)
    PROVE  /\ heal' \in [Healers -> Healings] /\ \A g \in Healers \ {h} : heal'[g] = heal[g]
           /\ heal[h].pc = "idle" /\ heal'[h].pc = "save" /\ Risk!MayHeal(saved) /\ heal'[h].state = Risk!Healed(saved)
           /\ call' \in [Recorders -> Recordings]
           /\ \A d \in Recorders : /\ call'[d].pc = call[d].pc /\ call'[d].id = call[d].id
                                   /\ call'[d].events = call[d].events /\ call'[d].state = call[d].state
                                   /\ ~call'[d].solo
           /\ saved' = saved /\ history' = history /\ issued' = issued /\ alone' = alone /\ crisis' = crisis
  <1>1. heal' = [heal EXCEPT ![h] = [pc |-> "save", state |-> Risk!Healed(saved)]] /\ Risk!MayHeal(saved)
    BY DEF Risk!LoadToHeal
  <1>2. Risk!Healed(saved) \in RiskStates
    BY <1>1, HealedIsEarned DEF LevelInv, Sound
  <1>3. heal' \in [Healers -> Healings]
    BY <1>1, <1>2 DEF LevelInv, Healings
  <1>4. call' = [d \in Recorders |-> [call[d] EXCEPT !.solo = FALSE]]
    BY DEF Risk!LoadToHeal
  <1>5. \A d \in Recorders :
            /\ call'[d] \in Recordings
            /\ call'[d].pc = call[d].pc /\ call'[d].id = call[d].id
            /\ call'[d].events = call[d].events /\ call'[d].state = call[d].state /\ ~call'[d].solo
    BY <1>4 DEF LevelInv, Recordings
  <1>6. call' \in [Recorders -> Recordings]
    BY <1>4, <1>5
  <1> QED BY <1>1, <1>3, <1>5, <1>6 DEF Risk!LoadToHeal, LevelInv

\* A healer saves, or fails to.
LEMMA HealerFacts ==
    ASSUME LevelInv, NEW h \in Healers, Risk!SaveHealed(h) \/ Risk!HealFails(h)
    PROVE  /\ heal' \in [Healers -> Healings] /\ \A g \in Healers \ {h} : heal'[g] = heal[g]
           /\ heal[h].pc = "save" /\ heal'[h] = Risk!Rest
           /\ call' = call /\ history' = history /\ issued' = issued /\ alone' = alone /\ crisis' = crisis
           /\ saved' \in {saved, heal[h].state}
  BY IdleRecorder DEF LevelInv, Risk!SaveHealed, Risk!HealFails

\* Time passes for all states.
LEMMA AgeFacts ==
    ASSUME LevelInv, Risk!Tick
    PROVE  /\ saved' = Risk!Aged(saved) /\ crisis' = Risk!Older(crisis)
           /\ call' \in [Recorders -> Recordings]
           /\ \A c \in Recorders : /\ call'[c].pc = call[c].pc /\ call'[c].id = call[c].id /\ call'[c].solo = call[c].solo
                                   /\ call'[c].events = call[c].events /\ call'[c].state = Risk!Aged(call[c].state)
           /\ heal' \in [Healers -> Healings]
           /\ \A h \in Healers : heal'[h].pc = heal[h].pc /\ heal'[h].state = Risk!Aged(heal[h].state)
           /\ history' = history /\ issued' = issued /\ alone' = alone
  <1>1. \A c \in Recorders : Risk!Aged(call[c].state) \in RiskStates
    BY AgedIsEarned DEF LevelInv, Sound
  <1>2. \A h \in Healers : Risk!Aged(heal[h].state) \in RiskStates
    BY AgedIsEarned DEF LevelInv, Sound
  <1>3. /\ call' = [c \in Recorders |-> [call[c] EXCEPT !.state = Risk!Aged(call[c].state)]]
        /\ heal' = [h \in Healers |-> [heal[h] EXCEPT !.state = Risk!Aged(heal[h].state)]]
    BY DEF Risk!Tick
  <1>4. \A c \in Recorders :
          /\ call'[c] \in Recordings
          /\ call'[c].pc = call[c].pc /\ call'[c].id = call[c].id /\ call'[c].solo = call[c].solo
          /\ call'[c].events = call[c].events /\ call'[c].state = Risk!Aged(call[c].state)
    BY <1>1, <1>3 DEF LevelInv, Recordings
  <1>5. \A h \in Healers : heal'[h] \in Healings /\ heal'[h].pc = heal[h].pc /\ heal'[h].state = Risk!Aged(heal[h].state)
    BY <1>2, <1>3 DEF LevelInv, Healings
  <1>6. call' \in [Recorders -> Recordings] /\ heal' \in [Healers -> Healings]
    BY <1>3, <1>4, <1>5
  <1> QED BY <1>4, <1>5, <1>6 DEF Risk!Tick

\* The first state.
LEMMA LevelInit == Risk!Init => LevelInv
  <1> SUFFICES ASSUME Risk!Init PROVE LevelInv
    OBVIOUS
  <1>1. /\ saved = Risk!NewState /\ history = <<>> /\ issued = 0 /\ crisis \in 0..Risk!Never
        /\ call = [c \in Recorders |-> Risk!Idle] /\ heal = [h \in Healers |-> Risk!Rest]
    BY RiskConstants DEF Risk!Init, Risk!NoHistory
  <1>2. call \in [Recorders -> Recordings] /\ heal \in [Healers -> Healings]
    BY <1>1, IdleRecorder
  <1>3. (\A c \in Recorders : Sound(call[c].state)) /\ \A h \in Healers : Sound(heal[h].state)
    BY <1>1, IdleRecorder, NewIsEarned
  <1> QED BY <1>1, <1>2, <1>3, NewIsEarned DEF LevelInv

\* The history stays a sequence of overrides.
LEMMA AppendedIsHistory ==
    ASSUME NEW s \in Seq(Nat), NEW id \in Nat
    PROVE  Risk!Appended(s, id) \in Seq(Nat)
  <1> DEFINE longer == Append(s, id)
  <1>1. longer \in Seq(Nat) /\ Len(longer) = Len(s) + 1 /\ Len(s) \in Nat
    OBVIOUS
  <1> HIDE DEF longer
  <1>2. CASE Len(longer) > MaxHistory
    <2>1. Len(longer) - MaxHistory + 1 \in 1..(Len(longer) + 1)
      BY <1>1, <1>2, RiskConstants
    <2>2. SubSeq(longer, Len(longer) - MaxHistory + 1, Len(longer)) \in Seq(Nat)
      BY <1>1, <2>1, SubSeqProperties
    <2> QED BY <1>2, <2>2 DEF Risk!Appended, longer
  <1>3. CASE ~(Len(longer) > MaxHistory)
    BY <1>1, <1>3 DEF Risk!Appended, longer
  <1> QED BY <1>2, <1>3

\* Every step keeps the level's reasons, in Redis and in every copy on its way there.
LEMMA LevelStep == LevelInv /\ [Risk!Next]_riskVars => LevelInv'
  <1> SUFFICES ASSUME LevelInv, [Risk!Next]_riskVars PROVE LevelInv'
    OBVIOUS
  <1> USE NewIsEarned
  <1>1. ASSUME NEW c \in Recorders, NEW kind \in Risk!Severities, Risk!Record(c, kind)
        PROVE  LevelInv'
    <2>1. \A d \in Recorders : Sound(call'[d].state)
      BY <1>1, RecordFacts DEF LevelInv
    <2> QED BY <1>1, <2>1, RecordFacts DEF LevelInv
  <1>2. ASSUME NEW c \in Recorders,
               Risk!SaveHistory(c) \/ Risk!LoadState(c) \/ Risk!SaveState(c) \/ Risk!RecordFails(c)
        PROVE  LevelInv'
    <2>1. Sound(saved) /\ Sound(call[c].state) /\ call[c] \in Recordings
      BY DEF LevelInv
    <2>2. call[c].severity \in Risk!Severities /\ call[c].events \in Seq(Nat) /\ call[c].id \in Nat
      BY <2>1 DEF Recordings
    <2>3. Sound(Risk!Updated(saved, call[c].severity)) /\ Risk!Appended(call[c].events, call[c].id) \in Seq(Nat)
      BY <2>1, <2>2, UpdatedIsEarned, AppendedIsHistory
    <2>4. Sound(call'[c].state) /\ Sound(saved')
      BY <1>2, <2>1, <2>3, RecorderFacts, IdleRecorder
    <2>5. \A d \in Recorders : Sound(call'[d].state)
      BY <1>2, <2>4, RecorderFacts DEF LevelInv
    <2>6. history' \in Seq(Nat)
      BY <1>2, <2>3, RecorderFacts DEF LevelInv
    <2>7. crisis' \in 0..Risk!Never
      BY <1>2, <2>1, RecorderFacts DEF LevelInv, Sound, RiskStates
    <2> QED BY <1>2, <2>4, <2>5, <2>6, <2>7, RecorderFacts DEF LevelInv
  <1>3. ASSUME NEW h \in Healers, Risk!LoadToHeal(h)
        PROVE  LevelInv'
    <2>1. Sound(heal'[h].state)
      BY <1>3, LoadToHealFacts, HealedIsEarned DEF LevelInv
    <2>2. \A g \in Healers : Sound(heal'[g].state)
      BY <1>3, <2>1, LoadToHealFacts DEF LevelInv
    <2>3. \A d \in Recorders : Sound(call'[d].state)
      BY <1>3, LoadToHealFacts DEF LevelInv
    <2> QED BY <1>3, <2>2, <2>3, LoadToHealFacts DEF LevelInv
  <1>4. ASSUME NEW h \in Healers, Risk!SaveHealed(h) \/ Risk!HealFails(h)
        PROVE  LevelInv'
    <2>1. \A g \in Healers : Sound(heal'[g].state)
      BY <1>4, HealerFacts, IdleRecorder DEF LevelInv
    <2>2. Sound(saved')
      BY <1>4, HealerFacts DEF LevelInv
    <2> QED BY <1>4, <2>1, <2>2, HealerFacts DEF LevelInv
  <1>5. CASE Risk!Tick
    <2>1. Sound(saved')
      BY <1>5, AgeFacts, AgedIsEarned DEF LevelInv
    <2>2. \A c \in Recorders : Sound(call'[c].state)
      BY <1>5, AgeFacts, AgedIsEarned DEF LevelInv
    <2>3. \A h \in Healers : Sound(heal'[h].state)
      BY <1>5, AgeFacts, AgedIsEarned DEF LevelInv
    <2>4. crisis' \in 0..Risk!Never
      BY <1>5, AgeFacts, OlderIsLater DEF LevelInv
    <2> QED BY <1>5, <2>1, <2>2, <2>3, <2>4, AgeFacts DEF LevelInv
  <1>6. CASE UNCHANGED riskVars
    BY <1>6 DEF LevelInv, riskVars
  <1> QED BY <1>1, <1>2, <1>3, <1>4, <1>5, <1>6 DEF Risk!Next

----------------------------------------------------------------------------
(* RiskManager: a critical override that was saved without a race is heeded *)

\* The state in Redis, and every copy on its way there, has a critical override on record that is
\* at least as new as the newest one that was saved without a race.
CrisisInv == /\ saved.crit <= crisis
             /\ \A c \in Recorders : call[c].pc = "save" => call[c].state.crit <= crisis
             /\ \A h \in Healers : heal[h].pc = "save" => heal[h].state.crit <= crisis

\* The ages of the critical overrides on record.
LEMMA CritsAreAges ==
    ASSUME LevelInv
    PROVE  /\ crisis \in 0..Risk!Never /\ saved.crit \in 0..Risk!Never
           /\ \A c \in Recorders : call[c].state.crit \in 0..Risk!Never /\ call[c].severity \in Risk!Severities
           /\ \A h \in Healers : heal[h].state.crit \in 0..Risk!Never
  BY DEF LevelInv, Sound, RiskStates, Recordings

\* In the first state there is none.
LEMMA CrisisInit == Risk!Init => CrisisInv
  <1> SUFFICES ASSUME Risk!Init PROVE CrisisInv
    OBVIOUS
  <1>1. saved.crit = Risk!Never /\ crisis = Risk!Never /\ Risk!Never <= Risk!Never
    BY RiskConstants DEF Risk!Init, Risk!NewState
  <1>2. (\A c \in Recorders : call[c].pc = "idle") /\ \A h \in Healers : heal[h].pc = "idle"
    BY IdleRecorder DEF Risk!Init
  <1> QED BY <1>1, <1>2 DEF CrisisInv

\* A copy is loaded from a state that has the newest one on record, and when that one is saved
\* nobody holds an older copy.
LEMMA CrisisStep == LevelInv /\ CrisisInv /\ [Risk!Next]_riskVars => CrisisInv'
  <1> SUFFICES ASSUME LevelInv, CrisisInv, [Risk!Next]_riskVars PROVE CrisisInv'
    OBVIOUS
  <1>1. ASSUME NEW c \in Recorders, NEW kind \in Risk!Severities, Risk!Record(c, kind)
        PROVE  CrisisInv'
    <2>1. /\ saved' = saved /\ crisis' = crisis /\ heal' = heal /\ call'[c].pc = "append"
          /\ \A d \in Recorders \ {c} : call'[d].pc = call[d].pc /\ call'[d].state = call[d].state
      BY <1>1, RecordFacts
    <2> QED BY <2>1 DEF CrisisInv
  <1>2. ASSUME NEW c \in Recorders, Risk!SaveHistory(c) \/ Risk!RecordFails(c)
        PROVE  CrisisInv'
    <2>1. /\ saved' = saved /\ crisis' = crisis /\ heal' = heal
      BY <1>2 DEF Risk!SaveHistory, Risk!RecordFails
    <2>2. call'[c].pc # "save"
      BY <1>2, IdleRecorder DEF Risk!SaveHistory, Risk!RecordFails, LevelInv, Recordings
    <2>3. \A d \in Recorders \ {c} : call'[d] = call[d]
      BY <1>2, RecorderFacts
    <2> QED BY <2>1, <2>2, <2>3 DEF CrisisInv
  <1>3. ASSUME NEW c \in Recorders, Risk!LoadState(c)
        PROVE  CrisisInv'
    <2>1. /\ saved' = saved /\ crisis' = crisis /\ heal' = heal /\ \A d \in Recorders \ {c} : call'[d] = call[d]
      BY <1>3, RecorderFacts DEF Risk!LoadState
    <2>2. call'[c].state = Risk!Updated(saved, call[c].severity)
      BY <1>3 DEF Risk!LoadState, LevelInv, Recordings
    <2>3. call'[c].state.crit \in {0, saved.crit}
      BY <2>2, CritsAreAges, UpdatedIsEarned DEF LevelInv
    <2>4. call'[c].state.crit <= crisis
      BY <2>3, CritsAreAges, RiskConstants DEF CrisisInv
    <2> QED BY <2>1, <2>4 DEF CrisisInv
  <1>4. ASSUME NEW c \in Recorders, Risk!SaveState(c)
        PROVE  CrisisInv'
    <2>1. /\ saved' = call[c].state /\ heal' = heal /\ call'[c].pc = "idle" /\ call[c].pc = "save"
          /\ \A d \in Recorders \ {c} : call'[d] = call[d]
      BY <1>4, IdleRecorder DEF Risk!SaveState, LevelInv
    <2>2. CASE call[c].severity = "critical" /\ Risk!Unraced(c)
      <3>1. crisis' = call[c].state.crit
        BY <1>4, <2>2 DEF Risk!SaveState
      <3>2. saved'.crit <= crisis'
        BY <2>1, <3>1, CritsAreAges, RiskConstants
      <3>3. /\ \A d \in Recorders : call'[d].pc # "save"
            /\ \A h \in Healers : heal'[h].pc # "save"
        BY <2>1, <2>2 DEF Risk!Unraced
      <3> QED BY <3>2, <3>3 DEF CrisisInv
    <2>3. CASE ~(call[c].severity = "critical" /\ Risk!Unraced(c))
      <3>1. crisis' = crisis
        BY <1>4, <2>3 DEF Risk!SaveState
      <3> QED BY <2>1, <3>1 DEF CrisisInv
    <2> QED BY <2>2, <2>3
  <1>5. ASSUME NEW h \in Healers, Risk!LoadToHeal(h)
        PROVE  CrisisInv'
    <2>1. /\ saved' = saved /\ crisis' = crisis /\ \A g \in Healers \ {h} : heal'[g] = heal[g]
          /\ \A d \in Recorders : call'[d].pc = call[d].pc /\ call'[d].state = call[d].state
          /\ Risk!MayHeal(saved) /\ heal'[h].state = Risk!Healed(saved)
      BY <1>5, LoadToHealFacts
    <2>2. heal'[h].state.crit = saved.crit
      BY <2>1, HealedIsEarned DEF LevelInv
    <2> QED BY <2>1, <2>2 DEF CrisisInv
  <1>6. ASSUME NEW h \in Healers, Risk!SaveHealed(h) \/ Risk!HealFails(h)
        PROVE  CrisisInv'
    <2>1. /\ call' = call /\ crisis' = crisis /\ \A g \in Healers \ {h} : heal'[g] = heal[g]
          /\ heal[h].pc = "save" /\ heal'[h].pc = "idle" /\ saved' \in {saved, heal[h].state}
      BY <1>6, HealerFacts, IdleRecorder
    <2> QED BY <2>1 DEF CrisisInv
  <1>7. CASE Risk!Tick
    <2>1. /\ crisis' = Risk!Older(crisis) /\ saved'.crit = Risk!Older(saved.crit)
          /\ \A c \in Recorders : call'[c].pc = call[c].pc /\ call'[c].state.crit = Risk!Older(call[c].state.crit)
          /\ \A h \in Healers : heal'[h].pc = heal[h].pc /\ heal'[h].state.crit = Risk!Older(heal[h].state.crit)
      BY <1>7, AgeFacts, AgedIsEarned DEF LevelInv
    <2> QED BY <2>1, CritsAreAges, OlderIsLater DEF CrisisInv
  <1>8. CASE UNCHANGED riskVars
    BY <1>8 DEF CrisisInv, riskVars
  <1> QED BY <1>1, <1>2, <1>3, <1>4, <1>5, <1>6, <1>7, <1>8 DEF Risk!Next

\* What is on record keeps the level up.
LEMMA CrisisHolds == LevelInv /\ CrisisInv => Risk!CriticalIsHeeded
  <1> SUFFICES ASSUME LevelInv, CrisisInv PROVE Risk!CriticalIsHeeded
    OBVIOUS
  <1>1. saved.crit <= crisis /\ Sound(saved)
    BY DEF LevelInv, CrisisInv
  <1>2. crisis \in 0..Risk!Never /\ saved.crit \in 0..Risk!Never /\ saved.last \in 0..Risk!Never
    BY <1>1, CritsAreAges DEF Sound, RiskStates
  <1>3. crisis <= Day => saved.crit # Risk!Never /\ saved.last # Risk!Old
    BY <1>1, <1>2, RiskConstants DEF Sound, Earned
  <1>4. crisis <= Day => saved.level # "normal"
    BY <1>1, <1>3 DEF Sound, Earned
  <1>5. crisis <= Cooldown => saved.crit <= Cooldown
    BY <1>1, <1>2, RiskConstants
  <1>6. crisis <= Cooldown => saved.level = "critical" \/ saved.daily >= Elevated
    BY <1>1, <1>5 DEF Sound, Earned
  <1> QED BY <1>4, <1>6 DEF Risk!CriticalIsHeeded

----------------------------------------------------------------------------
(* RiskManager: what is lost is lost in races *)

Holds(s, id) == \/ \E i \in 1..Len(s) : s[i] = id
                \/ Len(s) = MaxHistory /\ \A i \in 1..Len(s) : s[i] > id

\* A history has its overrides in the order they were recorded, before n.
Ordered(s, n) == /\ Len(s) <= MaxHistory
                 /\ \A i \in 1..Len(s) : s[i] < n
                 /\ \A i, j \in 1..Len(s) : i < j => s[i] < s[j]

\* A state that a recorder holds counts its override and all that were recorded alone.  While it
\* is alone nobody else holds anything.
RecorderInv(c) ==
    /\ call[c].pc # "idle" => call[c].id \in 1..issued
    /\ call[c].pc = "append" => /\ Ordered(call[c].events, call[c].id)
                                /\ \A id \in alone : id < call[c].id /\ Holds(call[c].events, id)
    /\ call[c].pc = "save" => call[c].state.total >= Cardinality(alone) + 1
    /\ call[c].solo => /\ call[c].pc # "idle"
                       /\ \A d \in Recorders \ {c} : call[d].pc = "idle"
                       /\ \A h \in Healers : heal[h].pc = "idle"
    /\ call[c].solo /\ call[c].pc \in {"update", "save"} => Holds(history, call[c].id)

RaceInv == /\ alone \subseteq 1..issued
           /\ saved.total >= Cardinality(alone)
           /\ Ordered(history, issued + 1)
           /\ \A id \in alone : Holds(history, id)
           /\ \A c \in Recorders : RecorderInv(c)
           /\ \A h \in Healers : heal[h].pc = "save" => heal[h].state.total >= Cardinality(alone)

\* _append_override adds the newest override at the end, and drops the oldest one when there are
\* too many.
LEMMA AppendedKeeps ==
    ASSUME NEW s \in Seq(Nat), NEW id \in Nat, Ordered(s, id)
    PROVE  /\ Ordered(Risk!Appended(s, id), id + 1) /\ Holds(Risk!Appended(s, id), id)
           /\ \A n \in Nat : n < id /\ Holds(s, n) => Holds(Risk!Appended(s, id), n)
  <1> DEFINE longer == Append(s, id)
             a == Risk!Appended(s, id)
             k == IF Len(s) = MaxHistory THEN 1 ELSE 0
             m == Len(s)
  <1>1. /\ longer \in Seq(Nat) /\ Len(longer) = m + 1 /\ m \in Nat /\ m <= MaxHistory
        /\ longer[m + 1] = id
    BY DEF Ordered
  <1>2. \A i \in 1..m : longer[i] = s[i] /\ s[i] \in Nat
    OBVIOUS
  <1>3. /\ Len(a) = m + 1 - k
        /\ \A i \in 1..Len(a) : a[i] = longer[i + k]
    <2> HIDE DEF longer
    <2>1. CASE m = MaxHistory
      <3>1. a = SubSeq(longer, 2, m + 1)
        BY <1>1, <2>1, RiskConstants DEF Risk!Appended, longer
      <3> QED BY <1>1, <2>1, <3>1, RiskConstants
    <2>2. CASE m # MaxHistory
      <3>1. a = longer
        BY <1>1, <2>2, RiskConstants DEF Risk!Appended, longer
      <3> QED BY <1>1, <2>2, <3>1, RiskConstants
    <2> QED BY <2>1, <2>2
  <1>4. k \in {0, 1} /\ (k = 1 <=> m = MaxHistory) /\ m + 1 - k \in Nat \ {0} /\ m + 1 - k <= MaxHistory
    BY <1>1, RiskConstants
  <1> HIDE DEF longer, a, k
  <1>5. \A i \in 1..Len(a) : a[i] = IF i + k <= m THEN s[i + k] ELSE id
    <2> SUFFICES ASSUME NEW i \in 1..Len(a) PROVE a[i] = IF i + k <= m THEN s[i + k] ELSE id
      OBVIOUS
    <2>1. i + k \in 1..(m + 1)
      BY <1>1, <1>3, <1>4
    <2> QED BY <1>1, <1>2, <1>3, <1>4, <2>1
  <1>6. (\A i \in 1..m : s[i] < id) /\ \A i, j \in 1..m : i < j => s[i] < s[j]
    BY DEF Ordered
  <1>7. Ordered(a, id + 1)
    <2>1. Len(a) <= MaxHistory /\ Len(a) \in Nat
      BY <1>3, <1>4
    <2>2. ASSUME NEW i \in 1..Len(a) PROVE a[i] < id + 1
      <3>1. i + k <= m => i + k \in 1..m
        BY <1>1, <1>3, <1>4
      <3> QED BY <1>2, <1>5, <1>6, <3>1
    <2>3. ASSUME NEW i \in 1..Len(a), NEW j \in 1..Len(a), i < j PROVE a[i] < a[j]
      <3>1. i + k <= m /\ i + k \in 1..m /\ (j + k <= m => j + k \in 1..m)
        BY <1>1, <1>3, <1>4, <2>3
      <3>2. CASE j + k <= m
        BY <1>5, <1>4, <1>6, <2>3, <3>1, <3>2
      <3>3. CASE ~(j + k <= m)
        BY <1>5, <1>6, <2>3, <3>1, <3>3
      <3> QED BY <3>2, <3>3
    <2> QED BY <2>1, <2>2, <2>3 DEF Ordered
  <1>8. Holds(a, id)
    <2>1. Len(a) \in 1..Len(a) /\ Len(a) + k = m + 1
      BY <1>1, <1>3, <1>4
    <2>2. a[Len(a)] = id
      BY <1>1, <1>5, <2>1
    <2> QED BY <2>1, <2>2 DEF Holds
  <1>9. ASSUME NEW n \in Nat, n < id, Holds(s, n) PROVE Holds(a, n)
    <2>1. ASSUME \A i \in 1..m : s[i] > n, m = MaxHistory
          PROVE  Holds(a, n)
      <3>1. Len(a) = MaxHistory
        BY <1>3, <1>4, <2>1
      <3>2. ASSUME NEW i \in 1..Len(a) PROVE a[i] > n
        <4>1. i + k <= m => i + k \in 1..m
          BY <1>1, <1>3, <1>4
        <4> QED BY <1>5, <1>9, <2>1, <4>1
      <3> QED BY <3>1, <3>2 DEF Holds
    <2>2. ASSUME NEW i \in 1..m, s[i] = n PROVE Holds(a, n)
      <3>1. CASE i - k \in 1..Len(a)
        <4> DEFINE j == i - k
        <4>1. j + k = i /\ j + k <= m
          BY <1>1, <1>4
        <4> HIDE DEF j
        <4>2. a[j] = n
          BY <1>5, <2>2, <3>1, <4>1 DEF j
        <4> USE DEF j
        <4> QED BY <3>1, <4>2 DEF Holds
      <3>2. CASE i - k \notin 1..Len(a)
        <4>1. i = 1 /\ k = 1 /\ Len(a) = MaxHistory
          BY <1>1, <1>3, <1>4, <3>2
        <4>2. ASSUME NEW j \in 1..Len(a) PROVE a[j] > n
          <5>1. j + 1 <= m => j + 1 \in 1..m
            BY <1>1
          <5>2. j + 1 <= m => s[j + 1] > n
            BY <1>1, <1>2, <1>6, <2>2, <4>1, <5>1
          <5> QED BY <1>5, <1>9, <4>1, <5>2
        <4> QED BY <4>1, <4>2 DEF Holds
      <3> QED BY <3>1, <3>2
    <2> QED BY <1>9, <2>1, <2>2 DEF Holds
  <1> QED BY <1>7, <1>8, <1>9 DEF a

\* An override that is not in the history any more has been displaced by newer ones.
LEMMA HeldIsComplete ==
    ASSUME NEW s \in Seq(Nat), NEW n \in Nat, NEW id \in Nat, Ordered(s, n), Holds(s, id)
    PROVE  id \in Risk!ToSet(s) \/ Cardinality({m \in Risk!ToSet(s) : m > id}) = MaxHistory
  <1>1. Risk!ToSet(s) = {s[i] : i \in 1..Len(s)}
    BY DEF Risk!ToSet
  <1>2. CASE \E i \in 1..Len(s) : s[i] = id
    BY <1>1, <1>2
  <1>3. ASSUME Len(s) = MaxHistory, \A i \in 1..Len(s) : s[i] > id
        PROVE  Cardinality({m \in Risk!ToSet(s) : m > id}) = MaxHistory
    <2> DEFINE T == {m \in Risk!ToSet(s) : m > id}
               f == [i \in 1..MaxHistory |-> s[i]]
    <2>1. T = {s[i] : i \in 1..MaxHistory}
      BY <1>1, <1>3
    <2>2. \A i, j \in 1..MaxHistory : i # j => s[i] # s[j]
      <3> SUFFICES ASSUME NEW i \in 1..MaxHistory, NEW j \in 1..MaxHistory, i < j PROVE s[i] # s[j]
        BY RiskConstants
      <3>1. s[i] \in Nat /\ s[j] \in Nat /\ s[i] < s[j]
        BY <1>3 DEF Ordered
      <3> QED BY <3>1
    <2>3. f \in Bijection(1..MaxHistory, T)
      BY <2>1, <2>2 DEF Bijection, Injection, Surjection, IsInjective
    <2>4. IsFiniteSet(1..MaxHistory) /\ Cardinality(1..MaxHistory) = MaxHistory
      <3>1. 1 \in Int /\ MaxHistory \in Int /\ MaxHistory >= 1
        BY RiskConstants
      <3>2. Cardinality(1..MaxHistory) = MaxHistory - 1 + 1
        BY <3>1, FS_Interval
      <3> QED BY <3>1, <3>2, FS_Interval
    <2> HIDE DEF T, f
    <2>5. ExistsBijection(1..MaxHistory, T)
      BY <2>3 DEF ExistsBijection
    <2>6. Cardinality(T) = Cardinality(1..MaxHistory)
      BY <2>4, <2>5, FS_Bijection
    <2> QED BY <2>4, <2>6 DEF T
  <1> QED BY <1>2, <1>3 DEF Holds

\* The first state.
LEMMA RaceInit == Risk!Init => RaceInv
  <1> SUFFICES ASSUME Risk!Init PROVE RaceInv
    OBVIOUS
  <1>1. /\ saved = Risk!NewState /\ history = <<>> /\ issued = 0 /\ alone = {}
        /\ call = [c \in Recorders |-> Risk!Idle] /\ heal = [h \in Healers |-> Risk!Rest]
    BY DEF Risk!Init, Risk!NoHistory
  <1>2. \A c \in Recorders : RecorderInv(c)
    BY <1>1, IdleRecorder DEF RecorderInv
  <1>3. Cardinality(alone) = 0
    BY <1>1, FS_EmptySet
  <1>4. Ordered(history, issued + 1)
    BY <1>1, RiskConstants DEF Ordered
  <1>5. \A h \in Healers : heal[h].pc # "save"
    BY <1>1, IdleRecorder
  <1> QED BY <1>1, <1>2, <1>3, <1>4, <1>5, NewIsEarned DEF RaceInv

\* The overrides that were recorded alone can be counted.
LEMMA AloneIsFinite ==
    ASSUME LevelInv, RaceInv
    PROVE  /\ Cardinality(alone) \in Nat
           /\ \A id : Cardinality(alone \cup {id}) \in Nat /\ Cardinality(alone \cup {id}) <= Cardinality(alone) + 1
  <1>1. IsFiniteSet(1..issued) /\ alone \subseteq 1..issued
    BY FS_Interval DEF LevelInv, RaceInv
  <1>2. IsFiniteSet(alone)
    BY <1>1, FS_Subset
  <1>3. Cardinality(alone) \in Nat
    BY <1>2, FS_CardinalityType
  <1>4. ASSUME NEW id
        PROVE  Cardinality(alone \cup {id}) \in Nat /\ Cardinality(alone \cup {id}) <= Cardinality(alone) + 1
    <2>1. Cardinality(alone \cup {id}) = IF id \in alone THEN Cardinality(alone) ELSE Cardinality(alone) + 1
      BY <1>2, FS_AddElement
    <2> QED BY <1>3, <2>1
  <1> QED BY <1>3, <1>4

\* The totals are numbers.
LEMMA TotalsAreCounts ==
    ASSUME LevelInv
    PROVE  /\ saved.total \in Nat
           /\ \A c \in Recorders : call[c].state.total \in Nat /\ call[c].id \in Nat /\ call[c].events \in Seq(Nat)
                                   /\ call[c].severity \in Risk!Severities
           /\ \A h \in Healers : heal[h].state.total \in Nat
  BY DEF LevelInv, Sound, RiskStates, Recordings

\* Every step keeps what was recorded alone, in the count and in the history.
LEMMA RaceStep == LevelInv /\ RaceInv /\ [Risk!Next]_riskVars => RaceInv'
  <1> SUFFICES ASSUME LevelInv, RaceInv, [Risk!Next]_riskVars PROVE RaceInv'
    OBVIOUS
  <1> DEFINE n == Cardinality(alone)
  <1>0. n \in Nat /\ issued \in Nat
    BY AloneIsFinite DEF LevelInv
  <1>1. ASSUME NEW c \in Recorders, NEW kind \in Risk!Severities, Risk!Record(c, kind)
        PROVE  RaceInv'
    <2>1. RecorderInv(c)'
      <3>1. call'[c].id \in 1..issued' /\ call'[c].id = issued + 1 /\ call'[c].pc = "append"
        BY <1>0, <1>1, RecordFacts
      <3>2. Ordered(call'[c].events, call'[c].id) /\ \A id \in alone' : id < call'[c].id /\ Holds(call'[c].events, id)
        <4>1. call'[c].events = history /\ call'[c].id = issued + 1 /\ alone' = alone
          BY <1>1, RecordFacts
        <4>2. \A id \in alone : id < issued + 1
          <5>1. \A id \in 1..issued : id < issued + 1
            BY <1>0
          <5> QED BY <5>1 DEF RaceInv
        <4> QED BY <4>1, <4>2 DEF RaceInv
      <3>3. call'[c].solo => /\ \A d \in Recorders \ {c} : call'[d].pc = "idle"
                             /\ \A h \in Healers : heal'[h].pc = "idle"
        BY <1>1, RecordFacts
      <3> QED BY <3>1, <3>2, <3>3 DEF RecorderInv
    <2>2. ASSUME NEW d \in Recorders \ {c} PROVE RecorderInv(d)'
      <3>1. RecorderInv(d)
        BY DEF RaceInv
      <3>2. call[d].id \in 1..issued => call[d].id \in 1..issued'
        BY <1>0, <1>1, RecordFacts
      <3>3. /\ call'[d].pc = call[d].pc /\ call'[d].id = call[d].id
            /\ call'[d].events = call[d].events /\ call'[d].state = call[d].state
            /\ ~call'[d].solo /\ alone' = alone
        BY <1>1, RecordFacts
      <3> QED BY <3>1, <3>2, <3>3 DEF RecorderInv
    <2>3. Ordered(history', issued' + 1)
      <3>1. \A i \in 1..Len(history) : history[i] \in Nat
        BY DEF LevelInv
      <3> QED BY <1>0, <1>1, <3>1, RecordFacts DEF RaceInv, Ordered
    <2>4. alone' \subseteq 1..issued'
      <3>1. 1..issued \subseteq 1..(issued + 1)
        BY <1>0
      <3> QED BY <1>1, <3>1, RecordFacts DEF RaceInv
    <2> QED BY <1>1, <2>1, <2>2, <2>3, <2>4, RecordFacts DEF RaceInv
  <1>2. ASSUME NEW c \in Recorders,
               Risk!SaveHistory(c) \/ Risk!LoadState(c) \/ Risk!SaveState(c) \/ Risk!RecordFails(c)
        PROVE  RaceInv'
    <2> DEFINE Same == saved' = saved /\ history' = history /\ alone' = alone
    <2>1. /\ issued' = issued /\ heal' = heal /\ \A d \in Recorders \ {c} : call'[d] = call[d]
          /\ call[c].pc # "idle" /\ RecorderInv(c)
      BY <1>2, RecorderFacts DEF RaceInv
    <2>2. ASSUME call'[c].pc = "idle" PROVE RecorderInv(c)'
      <3>1. call'[c].pc = "idle" /\ ~call'[c].solo
        BY <1>2, <2>2, RecorderFacts, IdleRecorder
      <3> QED BY <3>1 DEF RecorderInv
    <2>3. ASSUME Same, NEW d \in Recorders \ {c} PROVE RecorderInv(d)'
      <3>1. RecorderInv(d) /\ ~call[d].solo
        BY <2>1 DEF RaceInv, RecorderInv
      <3> QED BY <2>1, <2>3, <3>1 DEF RecorderInv
    <2>4. ASSUME Same, RecorderInv(c)' PROVE RaceInv'
      <3>1. \A d \in Recorders : RecorderInv(d)'
        BY <2>3, <2>4
      <3> QED BY <2>1, <2>4, <3>1 DEF RaceInv
    <2>5. CASE /\ call[c].pc = "append" /\ call'[c].pc = "update"
               /\ history' = Risk!Appended(call[c].events, call[c].id) /\ saved' = saved /\ alone' = alone
      <3> DEFINE id == call[c].id
                 s == call[c].events
      <3>1. id \in 1..issued /\ id \in Nat /\ s \in Seq(Nat) /\ Ordered(s, id)
        BY <2>1, <2>5, TotalsAreCounts DEF RecorderInv
      <3>2. /\ Ordered(history', id + 1) /\ Holds(history', id)
            /\ \A m \in alone : Holds(history', m)
        <4>1. \A m \in alone : m \in Nat /\ m < id /\ Holds(s, m)
          BY <2>1, <2>5 DEF RecorderInv, RaceInv
        <4> QED BY <2>5, <3>1, <4>1, AppendedKeeps
      <3>3. Ordered(history', issued' + 1)
        <4>1. history' \in Seq(Nat)
          BY <2>5, <3>1, AppendedIsHistory
        <4>2. \A i \in 1..Len(history') : history'[i] \in Nat /\ history'[i] < id + 1
          BY <3>2, <4>1 DEF Ordered
        <4>3. \A i \in 1..Len(history') : history'[i] < issued' + 1
          BY <1>0, <2>1, <3>1, <4>2
        <4> QED BY <3>2, <4>3 DEF Ordered
      <3>4. call'[c].id = id /\ call'[c].solo = call[c].solo
        BY <1>2, <2>5, RecorderFacts
      <3>5. RecorderInv(c)'
        BY <2>1, <2>5, <3>1, <3>2, <3>4 DEF RecorderInv
      <3>6. ASSUME NEW d \in Recorders \ {c} PROVE RecorderInv(d)'
        <4>1. RecorderInv(d) /\ ~call[d].solo
          BY <2>1 DEF RaceInv, RecorderInv
        <4> QED BY <2>1, <2>5, <4>1 DEF RecorderInv
      <3> QED BY <2>1, <2>5, <3>2, <3>3, <3>5, <3>6 DEF RaceInv
    <2>6. CASE /\ call[c].pc = "update" /\ call'[c].pc = "save" /\ history' = history /\ saved' = saved
               /\ alone' = alone /\ call'[c].state = Risk!Updated(saved, call[c].severity)
      <3>1. call'[c].state.total = saved.total + 1
        BY <2>6, TotalsAreCounts, UpdatedIsEarned DEF LevelInv
      <3>2. call'[c].state.total >= n + 1
        BY <1>0, <3>1, TotalsAreCounts DEF RaceInv
      <3>3. call'[c].id = call[c].id /\ call'[c].solo = call[c].solo
        BY <1>2, <2>6, RecorderFacts
      <3>4. RecorderInv(c)'
        BY <2>1, <2>6, <3>2, <3>3 DEF RecorderInv
      <3> QED BY <2>4, <2>6, <3>4
    <2>7. CASE /\ call[c].pc = "save" /\ call'[c].pc = "idle" /\ history' = history /\ saved' = call[c].state
               /\ alone' = IF call[c].solo THEN alone \cup {call[c].id} ELSE alone
      <3>1. call[c].state.total >= n + 1 /\ call[c].state.total \in Nat
        BY <2>1, <2>7, TotalsAreCounts DEF RecorderInv
      <3>2. Cardinality(alone') <= n + 1 /\ Cardinality(alone') \in Nat
        <4>1. CASE call[c].solo
          <5>1. alone' = alone \cup {call[c].id}
            BY <2>7, <4>1
          <5> QED BY <5>1, AloneIsFinite
        <4>2. CASE ~call[c].solo
          <5>1. alone' = alone
            BY <2>7, <4>2
          <5> QED BY <1>0, <5>1
        <4> QED BY <4>1, <4>2
      <3>3. saved'.total >= Cardinality(alone')
        BY <1>0, <2>7, <3>1, <3>2
      <3>4. CASE call[c].solo
        <4>1. \A d \in Recorders \ {c} : call[d].pc = "idle" /\ ~call[d].solo
          BY <2>1, <3>4 DEF RecorderInv, RaceInv
        <4>2. \A h \in Healers : heal[h].pc = "idle"
          BY <2>1, <3>4 DEF RecorderInv
        <4>3. call[c].id \in 1..issued /\ Holds(history, call[c].id)
          BY <2>1, <2>7, <3>4 DEF RecorderInv
        <4>4. \A d \in Recorders : RecorderInv(d)'
          <5>1. ASSUME NEW d \in Recorders \ {c} PROVE RecorderInv(d)'
            <6>1. call'[d].pc = "idle" /\ ~call'[d].solo
              BY <2>1, <4>1
            <6> QED BY <6>1 DEF RecorderInv
          <5> QED BY <2>2, <2>7, <5>1
        <4>5. alone' \subseteq 1..issued' /\ \A id \in alone' : Holds(history', id)
          BY <2>1, <2>7, <3>4, <4>3 DEF RaceInv
        <4> QED BY <2>1, <2>7, <3>3, <4>2, <4>4, <4>5 DEF RaceInv
      <3>5. CASE ~call[c].solo
        <4>1. alone' = alone
          BY <2>7, <3>5
        <4>2. ASSUME NEW d \in Recorders \ {c} PROVE RecorderInv(d)'
          <5>1. RecorderInv(d)
            BY DEF RaceInv
          <5>2. call'[d] = call[d] /\ call[d].solo = FALSE
            BY <2>1, <5>1, TotalsAreCounts DEF RecorderInv, LevelInv, Recordings
          <5> QED BY <2>1, <2>7, <4>1, <5>1, <5>2 DEF RecorderInv
        <4>3. \A d \in Recorders : RecorderInv(d)'
          BY <2>2, <2>7, <4>2
        <4> QED BY <2>1, <2>7, <3>3, <4>1, <4>3 DEF RaceInv
      <3> QED BY <3>4, <3>5
    <2>8. CASE call'[c].pc = "idle" /\ Same
      BY <2>2, <2>4, <2>8
    <2> QED BY <1>2, <2>5, <2>6, <2>7, <2>8, RecorderFacts
  <1>3. ASSUME NEW h \in Healers, Risk!LoadToHeal(h)
        PROVE  RaceInv'
    <2>1. heal'[h].state.total >= n
      BY <1>3, LoadToHealFacts, HealedIsEarned DEF LevelInv, RaceInv
    <2>2. ASSUME NEW d \in Recorders PROVE RecorderInv(d)'
      <3>1. RecorderInv(d)
        BY DEF RaceInv
      <3>2. /\ call'[d].pc = call[d].pc /\ call'[d].id = call[d].id /\ call'[d].events = call[d].events
            /\ call'[d].state = call[d].state /\ ~call'[d].solo /\ alone' = alone /\ issued' = issued
        BY <1>3, LoadToHealFacts
      <3> QED BY <3>1, <3>2 DEF RecorderInv
    <2> QED BY <1>3, <2>1, <2>2, LoadToHealFacts DEF RaceInv
  <1>4. ASSUME NEW h \in Healers, Risk!SaveHealed(h) \/ Risk!HealFails(h)
        PROVE  RaceInv'
    <2>1. heal'[h].pc = "idle"
      BY <1>4, HealerFacts, IdleRecorder
    <2>2. ASSUME NEW d \in Recorders PROVE RecorderInv(d)'
      <3>1. RecorderInv(d) /\ ~call[d].solo
        BY <1>4, HealerFacts DEF RaceInv, RecorderInv
      <3>2. call'[d] = call[d] /\ alone' = alone /\ issued' = issued
        BY <1>4, HealerFacts
      <3> QED BY <3>1, <3>2 DEF RecorderInv
    <2>3. saved'.total >= n
      BY <1>4, HealerFacts DEF RaceInv
    <2> QED BY <1>4, <2>1, <2>2, <2>3, HealerFacts DEF RaceInv
  <1>5. CASE Risk!Tick
    <2>1. saved'.total = saved.total
      BY <1>5, AgeFacts, AgedIsEarned DEF LevelInv
    <2>2. ASSUME NEW d \in Recorders PROVE RecorderInv(d)'
      <3>1. RecorderInv(d) /\ call'[d].state.total = call[d].state.total
        BY <1>5, AgeFacts, AgedIsEarned DEF LevelInv, RaceInv
      <3>2. /\ call'[d].pc = call[d].pc /\ call'[d].id = call[d].id /\ call'[d].solo = call[d].solo
            /\ call'[d].events = call[d].events /\ alone' = alone /\ issued' = issued /\ history' = history
        BY <1>5, AgeFacts
      <3>3. \A e \in Recorders : call'[e].pc = call[e].pc
        BY <1>5, AgeFacts
      <3>4. \A h \in Healers : heal'[h].pc = heal[h].pc
        BY <1>5, AgeFacts
      <3> QED BY <3>1, <3>2, <3>3, <3>4 DEF RecorderInv
    <2>3. \A h \in Healers : heal'[h].pc = heal[h].pc /\ heal'[h].state.total = heal[h].state.total
      BY <1>5, AgeFacts, AgedIsEarned DEF LevelInv
    <2> QED BY <1>5, <2>1, <2>2, <2>3, AgeFacts DEF RaceInv
  <1>6. CASE UNCHANGED riskVars
    BY <1>6 DEF RaceInv, RecorderInv, riskVars
  <1> QED BY <1>1, <1>2, <1>3, <1>4, <1>5, <1>6 DEF Risk!Next

\* What the invariants say of the manager's promises.
LEMMA RiskHolds ==
    /\ LevelInv /\ CrisisInv => Risk!CriticalIsHeeded /\ Risk!LevelsAreExplained
    /\ LevelInv /\ RaceInv => Risk!LossesAreRaces
  <1>1. LevelInv /\ CrisisInv => Risk!CriticalIsHeeded /\ Risk!LevelsAreExplained
    <2>1. LevelInv => Risk!LevelsAreExplained
      BY DEF LevelInv, Sound, Earned, Risk!LevelsAreExplained
    <2> QED BY <2>1, CrisisHolds
  <1>2. ASSUME LevelInv, RaceInv PROVE Risk!LossesAreRaces
    <2>1. ASSUME NEW id \in alone
          PROVE  id \in Risk!ToSet(history) \/ Cardinality({n \in Risk!ToSet(history) : n > id}) = MaxHistory
      <3>1. id \in Nat /\ history \in Seq(Nat) /\ issued + 1 \in Nat
        BY <1>2 DEF LevelInv, RaceInv
      <3>2. Ordered(history, issued + 1) /\ Holds(history, id)
        BY <1>2 DEF RaceInv
      <3> QED BY <3>1, <3>2, HeldIsComplete
    <2>2. saved.total >= Cardinality(alone)
      BY <1>2 DEF RaceInv
    <2>3. \A S : Risk!Cardinality(S) = Cardinality(S)
      BY DEF Risk!Cardinality, Cardinality
    <2> QED BY <2>1, <2>2, <2>3 DEF Risk!LossesAreRaces
  <1> QED BY <1>1, <1>2

----------------------------------------------------------------------------
(* LLMChain *)

\* The requests under way to a provider that were sent while its breaker was half open.
TrialsOf(p) == {c \in Callers : /\ asking[c].pc = "sent" /\ asking[c].at = p
                                /\ tentative[c]}

\* A breaker that is half open has admitted few requests, and each of them is under way or is
\* among its successes; they have not yet closed it.
PhaseInv(b, trials) ==
    /\ b.successes < Trials
    /\ b.state = "half_open" => /\ b.requests <= Trials
                                /\ Cardinality(trials) <= b.requests
                                /\ b.requests <= Cardinality(trials) + b.successes
    /\ b.state = "closed" => b.failures < Threshold

ChainInv == /\ breakers \in [1..Providers -> Chain!Breaker]
            /\ asking \in [Callers -> Chain!Task]
            /\ tentative \in [Callers -> BOOLEAN]
            /\ \A p \in 1..Providers : IsFiniteSet(TrialsOf(p)) /\ PhaseInv(breakers[p], TrialsOf(p))

\* The thresholds and times of the breakers are numbers, and there is a provider.
LEMMA ChainConstants ==
    /\ Threshold \in Nat \ {0} /\ Trials \in Nat \ {0} /\ Recovery \in Nat /\ Providers \in Nat \ {0}
  BY ConstantsAreSound DEF Chain!BreakerAssumption, Chain!ChainAssumption

\* The half-open phase begins without requests.
LEMMA TryResetFacts ==
    ASSUME NEW b \in Chain!Breaker
    PROVE  /\ Chain!TryReset(b) \in Chain!Breaker
           /\ Chain!TryReset(b).successes = b.successes /\ Chain!TryReset(b).failures = b.failures
           /\ \/ Chain!TryReset(b) = b
              \/ b.state = "open" /\ Chain!TryReset(b).state = "half_open" /\ Chain!TryReset(b).requests = 0
  <1>1. 0 \in 0..Recovery
    BY ChainConstants
  <1>2. CASE b.state = "open" /\ b.age >= Recovery
    <2>1. Chain!TryReset(b) = [b EXCEPT !.state = "half_open", !.requests = 0, !.age = 0]
      BY <1>2 DEF Chain!TryReset
    <2>2. Chain!TryReset(b) \in Chain!Breaker
      <3>1. [b EXCEPT !.state = "half_open", !.requests = 0, !.age = 0] \in Chain!Breaker
        BY <1>1 DEF Chain!Breaker
      <3> QED BY <2>1, <3>1
    <2>3. /\ Chain!TryReset(b).state = "half_open" /\ Chain!TryReset(b).successes = b.successes
          /\ Chain!TryReset(b).failures = b.failures /\ Chain!TryReset(b).requests = 0
      BY <2>1 DEF Chain!Breaker
    <2> QED BY <1>2, <2>2, <2>3
  <1>3. CASE ~(b.state = "open" /\ b.age >= Recovery)
    BY <1>3 DEF Chain!TryReset
  <1> QED BY <1>2, <1>3

\* A request that is let in is counted while the breaker is half open.
LEMMA AdmittedFacts ==
    ASSUME NEW b \in Chain!Breaker
    PROVE  /\ Chain!Admitted(b) \in Chain!Breaker /\ Chain!Admitted(b).state = b.state
           /\ Chain!Admitted(b).successes = b.successes /\ Chain!Admitted(b).failures = b.failures
           /\ Chain!Admitted(b).requests = IF b.state = "half_open" THEN b.requests + 1 ELSE b.requests
  BY DEF Chain!Admitted, Chain!Breaker

\* A success clears the failures; enough of them close a breaker that is half open.
LEMMA OnSuccessFacts ==
    ASSUME NEW b \in Chain!Breaker
    PROVE  /\ Chain!OnSuccess(b) \in Chain!Breaker /\ Chain!OnSuccess(b).requests = b.requests
           /\ Chain!OnSuccess(b).failures = 0
           /\ \/ /\ b.state # "half_open" /\ Chain!OnSuccess(b).state = b.state
                 /\ Chain!OnSuccess(b).successes = b.successes
              \/ /\ b.state = "half_open" /\ b.successes + 1 >= Trials
                 /\ Chain!OnSuccess(b).state = "closed" /\ Chain!OnSuccess(b).successes = 0
              \/ /\ b.state = "half_open" /\ b.successes + 1 < Trials
                 /\ Chain!OnSuccess(b).state = "half_open" /\ Chain!OnSuccess(b).successes = b.successes + 1
  <1>1. CASE b.state # "half_open"
    <2>1. Chain!OnSuccess(b) = [b EXCEPT !.failures = 0]
      BY <1>1 DEF Chain!OnSuccess
    <2> QED BY <1>1, <2>1 DEF Chain!Breaker
  <1>2. CASE b.state = "half_open" /\ b.successes + 1 >= Trials
    <2>1. Chain!OnSuccess(b) = [b EXCEPT !.failures = 0, !.state = "closed", !.successes = 0]
      BY <1>2 DEF Chain!OnSuccess
    <2>2. Chain!OnSuccess(b) \in Chain!Breaker
      <3>1. [b EXCEPT !.failures = 0, !.state = "closed", !.successes = 0] \in Chain!Breaker
        BY DEF Chain!Breaker
      <3> QED BY <2>1, <3>1
    <2>3. /\ Chain!OnSuccess(b).state = "closed" /\ Chain!OnSuccess(b).successes = 0
          /\ Chain!OnSuccess(b).failures = 0 /\ Chain!OnSuccess(b).requests = b.requests
      BY <2>1 DEF Chain!Breaker
    <2> QED BY <1>2, <2>2, <2>3
  <1>3. CASE b.state = "half_open" /\ ~(b.successes + 1 >= Trials)
    <2>1. Chain!OnSuccess(b) = [b EXCEPT !.failures = 0, !.successes = b.successes + 1]
      BY <1>3 DEF Chain!OnSuccess
    <2>2. b.successes + 1 \in Nat /\ b.successes + 1 < Trials
      BY <1>3, ChainConstants DEF Chain!Breaker
    <2>3. Chain!OnSuccess(b) \in Chain!Breaker
      <3>1. [b EXCEPT !.failures = 0, !.successes = b.successes + 1] \in Chain!Breaker
        BY <2>2 DEF Chain!Breaker
      <3> QED BY <2>1, <3>1
    <2>4. /\ Chain!OnSuccess(b).state = b.state /\ Chain!OnSuccess(b).successes = b.successes + 1
          /\ Chain!OnSuccess(b).failures = 0 /\ Chain!OnSuccess(b).requests = b.requests
      BY <2>1 DEF Chain!Breaker
    <2> QED BY <1>3, <2>2, <2>3, <2>4
  <1> QED BY <1>1, <1>2, <1>3

\* A failure opens the breaker, unless it is closed and has not failed often enough.
LEMMA OnFailureFacts ==
    ASSUME NEW b \in Chain!Breaker
    PROVE  /\ Chain!OnFailure(b) \in Chain!Breaker /\ Chain!OnFailure(b).successes = b.successes
           /\ \/ Chain!OnFailure(b).state = "open"
              \/ /\ b.state = "closed" /\ Chain!OnFailure(b).state = "closed"
                 /\ Chain!OnFailure(b).failures < Threshold
  <1> DEFINE failed == [b EXCEPT !.failures = b.failures + 1, !.age = 0]
  <1>1. /\ failed \in Chain!Breaker /\ failed.failures = b.failures + 1 /\ failed.state = b.state
        /\ failed.successes = b.successes /\ failed.failures \in Nat
    <2>1. 0 \in 0..Recovery
      BY ChainConstants
    <2> DEFINE f == [b EXCEPT !.failures = b.failures + 1]
    <2>2. f \in Chain!Breaker
      BY DEF Chain!Breaker
    <2>3. failed = [f EXCEPT !.age = 0]
      OBVIOUS
    <2> HIDE DEF f, failed
    <2>4. failed \in Chain!Breaker
      BY <2>1, <2>2, <2>3 DEF Chain!Breaker
    <2> USE DEF failed
    <2>5. /\ failed.failures = b.failures + 1 /\ failed.state = b.state /\ failed.successes = b.successes
          /\ b.failures + 1 \in Nat
      BY DEF Chain!Breaker
    <2> QED BY <2>4, <2>5
  <1>2. Chain!OnFailure(b) =
          CASE b.state = "half_open" -> [failed EXCEPT !.state = "open", !.failures = Threshold]
            [] b.state = "closed" /\ failed.failures >= Threshold -> [failed EXCEPT !.state = "open"]
            [] OTHER -> failed
    BY DEF Chain!OnFailure
  <1>3. b.state \in {"closed", "open", "half_open"}
    BY DEF Chain!Breaker
  <1> HIDE DEF failed
  <1>4. CASE b.state = "half_open"
    <2>1. Chain!OnFailure(b) = [failed EXCEPT !.state = "open", !.failures = Threshold]
      BY <1>2, <1>4
    <2> QED BY <1>1, <2>1, ChainConstants DEF Chain!Breaker
  <1>5. CASE b.state = "closed" /\ failed.failures >= Threshold
    <2>1. Chain!OnFailure(b) = [failed EXCEPT !.state = "open"]
      BY <1>2, <1>5
    <2> QED BY <1>1, <2>1 DEF Chain!Breaker
  <1>6. CASE b.state = "open" \/ (b.state = "closed" /\ ~(failed.failures >= Threshold))
    <2>1. Chain!OnFailure(b) = failed
      BY <1>2, <1>6
    <2> QED BY <1>1, <1>6, <2>1, ChainConstants
  <1> QED BY <1>3, <1>4, <1>5, <1>6

\* Time changes the age and nothing else.
LEMMA BreakerAgedFacts ==
    ASSUME NEW b \in Chain!Breaker
    PROVE  /\ Chain!Aged(b) \in Chain!Breaker /\ Chain!Aged(b).state = b.state /\ Chain!Aged(b).failures = b.failures
           /\ Chain!Aged(b).successes = b.successes /\ Chain!Aged(b).requests = b.requests
  BY ChainConstants DEF Chain!Aged, Chain!Breaker

\* The first state: all breakers are closed and no request is under way.
LEMMA ChainInit == Chain!Init => ChainInv
  <1> SUFFICES ASSUME Chain!Init PROVE ChainInv
    OBVIOUS
  <1>1. /\ breakers = [p \in 1..Providers |-> Chain!NewBreaker]
        /\ asking = [c \in Callers |-> Chain!Idle] /\ tentative = [c \in Callers |-> FALSE]
    BY DEF Chain!Init
  <1>2. Chain!NewBreaker \in Chain!Breaker
    BY ChainConstants DEF Chain!NewBreaker, Chain!Breaker
  <1>3. Chain!Idle \in Chain!Task
    <2>1. <<>> \in Seq(Chain!Opinion) /\ 1 \in 1..Providers
      BY ChainConstants
    <2> QED BY <2>1 DEF Chain!Idle, Chain!Task
  <1>4. \A p : TrialsOf(p) = {}
    BY <1>1 DEF TrialsOf
  <1>5. \A p : IsFiniteSet(TrialsOf(p)) /\ Cardinality(TrialsOf(p)) = 0
    BY <1>4, FS_EmptySet
  <1>6. \A p \in 1..Providers : PhaseInv(breakers[p], TrialsOf(p))
    BY <1>1, ChainConstants DEF PhaseInv, Chain!NewBreaker
  <1> QED BY <1>1, <1>2, <1>3, <1>5, <1>6 DEF ChainInv

\* An analysis goes on without a request under way.
LEMMA AdvanceFacts ==
    ASSUME ChainInv, NEW c \in Callers, NEW opinions \in Seq(Chain!Opinion), NEW answered \in BOOLEAN,
           Chain!Advance(c, opinions, answered)
    PROVE  /\ asking' \in [Callers -> Chain!Task] /\ asking'[c].pc # "sent"
           /\ \A d \in Callers \ {c} : asking'[d] = asking[d]
  <1> DEFINE t == IF (answered /\ Chain!Settled(opinions)) \/ asking[c].at = Providers THEN Chain!Idle
                  ELSE [pc |-> "next", at |-> asking[c].at + 1, opinions |-> opinions]
  <1>1. asking' = [asking EXCEPT ![c] = t]
    BY DEF Chain!Advance, Chain!Goto
  <1>2. asking[c].at \in 1..Providers
    BY DEF ChainInv, Chain!Task
  <1>3. t \in Chain!Task /\ t.pc # "sent"
    <2>1. Chain!Idle \in Chain!Task /\ Chain!Idle.pc # "sent"
      <3>1. <<>> \in Seq(Chain!Opinion) /\ 1 \in 1..Providers
        BY ChainConstants
      <3> QED BY <3>1 DEF Chain!Idle, Chain!Task
    <2>2. asking[c].at # Providers => asking[c].at + 1 \in 1..Providers
      BY <1>2, ChainConstants
    <2> DEFINE n == [pc |-> "next", at |-> asking[c].at + 1, opinions |-> opinions]
    <2>3. asking[c].at # Providers => n \in Chain!Task /\ n.pc # "sent"
      BY <2>2 DEF Chain!Task
    <2>4. t = Chain!Idle \/ (asking[c].at # Providers /\ t = n)
      OBVIOUS
    <2> HIDE DEF n, t
    <2> QED BY <2>1, <2>3, <2>4
  <1> HIDE DEF t
  <1> QED BY <1>1, <1>3 DEF ChainInv

\* A breaker admits a request.
LEMMA SendStep ==
    ASSUME ChainInv, NEW c \in Callers, Chain!Send(c)
    PROVE  ChainInv'
  <1> PICK p \in 1..Providers : p = asking[c].at
    BY DEF ChainInv, Chain!Task
  <1> DEFINE b == breakers[p]
             r == Chain!TryReset(b)
             a == Chain!Admitted(r)
  <1>1. p \in 1..Providers /\ b \in Chain!Breaker /\ asking[c].pc = "next" /\ asking[c] \in Chain!Task
    BY DEF ChainInv, Chain!Task, Chain!Send
  <1>2. /\ breakers' = [breakers EXCEPT ![p] = a] /\ asking' = [asking EXCEPT ![c] = [asking[c] EXCEPT !.pc = "sent"]]
        /\ Chain!Admits(r)
        /\ tentative' = [d \in Callers |-> IF d = c THEN r.state = "half_open"
                                           ELSE tentative[d] /\ ~Chain!Outdated(c, d)]
    BY DEF Chain!Send, Chain!Renewed, Chain!Goto
  <1>3. tentative' \in [Callers -> BOOLEAN]
    BY <1>2
  <1>4. asking' \in [Callers -> Chain!Task] /\ asking'[c].pc = "sent" /\ asking'[c].at = p
        /\ \A d \in Callers \ {c} : asking'[d] = asking[d]
    BY <1>1, <1>2 DEF ChainInv, Chain!Task
  <1>5. /\ r \in Chain!Breaker /\ r.successes = b.successes /\ r.failures = b.failures
        /\ r = b \/ (b.state = "open" /\ r.state = "half_open" /\ r.requests = 0)
    BY <1>1, TryResetFacts
  <1>6. /\ a \in Chain!Breaker /\ a.state = r.state /\ a.successes = r.successes /\ a.failures = r.failures
        /\ a.requests = IF r.state = "half_open" THEN r.requests + 1 ELSE r.requests
    BY <1>5, AdmittedFacts
  <1>7. IsFiniteSet(TrialsOf(p)) /\ PhaseInv(b, TrialsOf(p))
    BY <1>1 DEF ChainInv
  <1>8. ASSUME NEW q \in 1..Providers, q # p
        PROVE  TrialsOf(q)' = TrialsOf(q) /\ breakers'[q] = breakers[q]
    <2>1. \A d \in Callers : d \in TrialsOf(q)' <=> d \in TrialsOf(q)
      <3>1. \A d \in Callers \ {c} : asking[d].at = q => ~Chain!Outdated(c, d)
        BY <1>8 DEF Chain!Outdated
      <3> QED BY <1>1, <1>2, <1>4, <1>8, <3>1 DEF TrialsOf
    <2> QED BY <1>2, <1>8, <2>1 DEF TrialsOf, ChainInv
  <1>9. breakers' \in [1..Providers -> Chain!Breaker] /\ breakers'[p] = a
    BY <1>1, <1>2, <1>6 DEF ChainInv
  <1>10. IsFiniteSet(TrialsOf(p)') /\ PhaseInv(a, TrialsOf(p)')
    <2>1. CASE r.state # "half_open"
      <3>1. r = b /\ b.state # "half_open"
        BY <1>5, <2>1
      <3>2. \A d \in Callers : ~Chain!Outdated(c, d)
        BY <2>1 DEF Chain!Outdated, Chain!Renewed
      <3>3. TrialsOf(p)' = TrialsOf(p)
        BY <1>1, <1>2, <1>4, <2>1, <3>2 DEF TrialsOf
      <3> HIDE DEF b, r, a
      <3> QED BY <1>6, <1>7, <2>1, <3>1, <3>3 DEF PhaseInv
    <2>2. CASE r.state = "half_open" /\ r = b
      <3>1. \A d \in Callers : ~Chain!Outdated(c, d)
        BY <2>2 DEF Chain!Outdated
      <3>2. TrialsOf(p)' = TrialsOf(p) \cup {c} /\ c \notin TrialsOf(p)
        BY <1>1, <1>2, <1>4, <2>2, <3>1 DEF TrialsOf
      <3>3. r.requests < Trials
        BY <1>2, <2>2 DEF Chain!Admits
      <3>4. IsFiniteSet(TrialsOf(p)') /\ Cardinality(TrialsOf(p)') = Cardinality(TrialsOf(p)) + 1
            /\ Cardinality(TrialsOf(p)) \in Nat
        BY <1>7, <3>2, FS_AddElement, FS_CardinalityType
      <3>5. r.requests \in Nat /\ r.successes \in Nat
        BY <1>5 DEF Chain!Breaker
      <3> DEFINE x == Cardinality(TrialsOf(p))
                 y == Cardinality(TrialsOf(p)')
      <3>6. /\ b.successes < Trials /\ x <= r.requests /\ r.requests <= x + r.successes /\ y = x + 1 /\ x \in Nat
        BY <1>7, <2>2, <3>4 DEF PhaseInv
      <3> HIDE DEF b, r, a, x, y
      <3>7. a.requests <= Trials /\ y <= a.requests /\ a.requests <= y + a.successes
        BY <1>6, <2>2, <3>3, <3>5, <3>6, ChainConstants
      <3> QED BY <1>5, <1>6, <2>2, <3>4, <3>6, <3>7 DEF PhaseInv, y
    <2>3. CASE r.state = "half_open" /\ b.state = "open" /\ r.requests = 0
      <3>1. \A d \in Callers \ {c} : asking[d].at = p => Chain!Outdated(c, d)
        BY <2>3 DEF Chain!Outdated, Chain!Renewed
      <3>2. TrialsOf(p)' = {c}
        BY <1>1, <1>2, <1>4, <2>3, <3>1 DEF TrialsOf
      <3>3. IsFiniteSet(TrialsOf(p)') /\ Cardinality(TrialsOf(p)') = 1
        BY <3>2, FS_Singleton
      <3>4. r.successes \in Nat /\ b.successes < Trials
        BY <1>5, <1>7 DEF Chain!Breaker, PhaseInv
      <3> HIDE DEF b, r, a
      <3> QED BY <1>5, <1>6, <2>3, <3>3, <3>4, ChainConstants DEF PhaseInv
    <2> QED BY <1>5, <2>1, <2>2, <2>3
  <1>11. \A q \in 1..Providers : IsFiniteSet(TrialsOf(q)') /\ PhaseInv(breakers'[q], TrialsOf(q)')
    BY <1>8, <1>9, <1>10 DEF ChainInv
  <1> QED BY <1>3, <1>4, <1>9, <1>11 DEF ChainInv

\* An answer or an error comes back: the request is no trial any more.
LEMMA BackStep ==
    ASSUME ChainInv, NEW c \in Callers, asking[c].pc = "sent",
           NEW b, b \in {Chain!OnSuccess(breakers[asking[c].at]), Chain!OnFailure(breakers[asking[c].at])},
           breakers' = [breakers EXCEPT ![asking[c].at] = b],
           tentative' = [tentative EXCEPT ![c] = FALSE],
           asking' \in [Callers -> Chain!Task], asking'[c].pc # "sent",
           \A d \in Callers \ {c} : asking'[d] = asking[d]
    PROVE  ChainInv'
  <1> PICK p \in 1..Providers : p = asking[c].at
    BY DEF ChainInv, Chain!Task
  <1> DEFINE o == breakers[p]
             T == TrialsOf(p)
  <1>1. p \in 1..Providers /\ o \in Chain!Breaker
    BY DEF ChainInv, Chain!Task
  <1>2. b \in Chain!Breaker
    BY <1>1, OnSuccessFacts, OnFailureFacts
  <1>3. breakers' \in [1..Providers -> Chain!Breaker] /\ breakers'[p] = b
    BY <1>1, <1>2 DEF ChainInv
  <1>4. tentative' \in [Callers -> BOOLEAN]
    BY DEF ChainInv
  <1>5. IsFiniteSet(T) /\ PhaseInv(o, T)
    BY <1>1 DEF ChainInv
  <1>6. TrialsOf(p)' = T \ {c}
    BY DEF TrialsOf, ChainInv
  <1>7. ASSUME NEW q \in 1..Providers, q # p
        PROVE  TrialsOf(q)' = TrialsOf(q) /\ breakers'[q] = breakers[q]
    BY <1>7 DEF TrialsOf, ChainInv
  <1>8. /\ IsFiniteSet(T \ {c}) /\ Cardinality(T) \in Nat /\ Cardinality(T \ {c}) \in Nat
        /\ Cardinality(T \ {c}) <= Cardinality(T) /\ Cardinality(T) <= Cardinality(T \ {c}) + 1
    <2>1. Cardinality(T \ {c}) = IF c \in T THEN Cardinality(T) - 1 ELSE Cardinality(T)
      BY <1>5, FS_RemoveElement
    <2>2. IsFiniteSet(T \ {c}) /\ Cardinality(T) \in Nat /\ Cardinality(T \ {c}) \in Nat
      BY <1>5, FS_RemoveElement, FS_CardinalityType
    <2> HIDE DEF T
    <2> QED BY <2>1, <2>2
  <1>9. PhaseInv(b, T \ {c})
    <2> DEFINE x == Cardinality(T)
               y == Cardinality(T \ {c})
    <2>1. /\ o.requests \in Nat /\ o.successes \in Nat /\ o.failures \in Nat
          /\ x \in Nat /\ y \in Nat /\ y <= x /\ x <= y + 1
      BY <1>1, <1>8 DEF Chain!Breaker
    <2>2. /\ o.successes < Trials
          /\ o.state = "half_open" => o.requests <= Trials /\ x <= o.requests /\ o.requests <= x + o.successes
          /\ o.state = "closed" => o.failures < Threshold
      BY <1>5 DEF PhaseInv
    <2> HIDE DEF x, y, o, T
    <2> SUFFICES /\ b.successes < Trials
                 /\ b.state = "half_open" => b.requests <= Trials /\ y <= b.requests /\ b.requests <= y + b.successes
                 /\ b.state = "closed" => b.failures < Threshold
      BY DEF PhaseInv, y
    <2>3. CASE b = Chain!OnSuccess(o)
      BY <1>1, <2>1, <2>2, <2>3, OnSuccessFacts, ChainConstants
    <2>4. CASE b = Chain!OnFailure(o)
      BY <1>1, <2>1, <2>2, <2>4, OnFailureFacts, ChainConstants
    <2> QED BY <2>3, <2>4 DEF o
  <1>10. \A q \in 1..Providers : IsFiniteSet(TrialsOf(q)') /\ PhaseInv(breakers'[q], TrialsOf(q)')
    BY <1>3, <1>6, <1>7, <1>8, <1>9 DEF ChainInv
  <1> QED BY <1>3, <1>4, <1>10 DEF ChainInv

\* Every step keeps the breakers in their phases.
LEMMA ChainStep == ChainInv /\ [Chain!Next]_chainVars => ChainInv'
  <1> SUFFICES ASSUME ChainInv, [Chain!Next]_chainVars PROVE ChainInv'
    OBVIOUS
  <1> DEFINE Kept == breakers' = breakers /\ tentative' = tentative
  <1>1. ASSUME NEW c \in Callers, Kept, asking[c].pc # "sent", asking'[c].pc # "sent",
               asking' \in [Callers -> Chain!Task], \A d \in Callers \ {c} : asking'[d] = asking[d]
        PROVE  ChainInv'
    <2>1. \A q : TrialsOf(q)' = TrialsOf(q)
      BY <1>1 DEF TrialsOf
    <2> QED BY <1>1, <2>1 DEF ChainInv
  <1>2. ASSUME NEW c \in Callers, Chain!Begin(c) PROVE ChainInv'
    <2>1. asking' = [asking EXCEPT ![c] = [asking[c] EXCEPT !.pc = "next"]] /\ asking[c] \in Chain!Task
      BY <1>2 DEF Chain!Begin, Chain!Goto, ChainInv
    <2>2. asking' \in [Callers -> Chain!Task] /\ asking'[c].pc # "sent" /\ \A d \in Callers \ {c} : asking'[d] = asking[d]
      BY <2>1 DEF ChainInv, Chain!Task
    <2> QED BY <1>1, <1>2, <2>2 DEF Chain!Begin
  <1>3. ASSUME NEW c \in Callers, Chain!Refused(c) PROVE ChainInv'
    <2>1. asking[c] \in Chain!Task /\ asking[c].pc = "next"
      BY <1>3 DEF ChainInv, Chain!Refused
    <2>2. asking[c].opinions \in Seq(Chain!Opinion) /\ asking[c].at \in 1..Providers /\ FALSE \in BOOLEAN
      BY <2>1 DEF Chain!Task
    <2>3. Chain!TryReset(breakers[asking[c].at]) = breakers[asking[c].at]
      <3>1. ~Chain!Admits(Chain!TryReset(breakers[asking[c].at]))
        BY <1>3 DEF Chain!Refused, Chain!Renewed
      <3>2. breakers[asking[c].at] \in Chain!Breaker
        BY <2>2 DEF ChainInv
      <3> QED BY <3>1, <3>2, TryResetFacts, ChainConstants DEF Chain!Admits
    <2>4. Kept
      BY <1>3, <2>2, <2>3 DEF Chain!Refused, Chain!Renewed, ChainInv
    <2>5. Chain!Advance(c, asking[c].opinions, FALSE)
      BY <1>3 DEF Chain!Refused
    <2> QED BY <1>1, <2>1, <2>2, <2>4, <2>5, AdvanceFacts
  <1>4. ASSUME NEW c \in Callers, NEW opinion \in Chain!Opinion \cup {Chain!None}, Chain!Answered(c, opinion)
        PROVE  ChainInv'
    <2>1. asking[c].opinions \in Seq(Chain!Opinion)
      BY DEF ChainInv, Chain!Task
    <2>2. opinion # Chain!None => Append(asking[c].opinions, opinion) \in Seq(Chain!Opinion)
      BY <2>1
    <2>3. \E opinions \in Seq(Chain!Opinion), answered \in BOOLEAN : Chain!Advance(c, opinions, answered)
      BY <1>4, <2>1, <2>2 DEF Chain!Answered
    <2>4. /\ asking' \in [Callers -> Chain!Task] /\ asking'[c].pc # "sent"
          /\ \A d \in Callers \ {c} : asking'[d] = asking[d]
      BY <2>3, AdvanceFacts
    <2>5. /\ asking[c].pc = "sent" /\ tentative' = [tentative EXCEPT ![c] = FALSE]
          /\ breakers' = [breakers EXCEPT ![asking[c].at] = Chain!OnSuccess(breakers[asking[c].at])]
      BY <1>4 DEF Chain!Answered
    <2> QED BY <2>4, <2>5, BackStep
  <1>5. ASSUME NEW c \in Callers, Chain!Failed(c) PROVE ChainInv'
    <2>1. asking[c].opinions \in Seq(Chain!Opinion) /\ FALSE \in BOOLEAN
      BY DEF ChainInv, Chain!Task
    <2>2. Chain!Advance(c, asking[c].opinions, FALSE)
      BY <1>5 DEF Chain!Failed
    <2>3. /\ asking' \in [Callers -> Chain!Task] /\ asking'[c].pc # "sent"
          /\ \A d \in Callers \ {c} : asking'[d] = asking[d]
      BY <2>1, <2>2, AdvanceFacts
    <2>4. /\ asking[c].pc = "sent" /\ tentative' = [tentative EXCEPT ![c] = FALSE]
          /\ breakers' = [breakers EXCEPT ![asking[c].at] = Chain!OnFailure(breakers[asking[c].at])]
      BY <1>5 DEF Chain!Failed
    <2> QED BY <2>3, <2>4, BackStep
  <1>6. CASE Chain!Tick
    <2>1. /\ breakers' = [p \in 1..Providers |-> Chain!Aged(breakers[p])]
          /\ asking' = asking /\ tentative' = tentative
      BY <1>6 DEF Chain!Tick
    <2>2. \A q : TrialsOf(q)' = TrialsOf(q)
      BY <2>1 DEF TrialsOf
    <2>3. \A p \in 1..Providers : breakers'[p] \in Chain!Breaker /\ PhaseInv(breakers'[p], TrialsOf(p))
      BY <2>1, BreakerAgedFacts DEF ChainInv, PhaseInv
    <2>4. breakers' \in [1..Providers -> Chain!Breaker]
      BY <2>1, <2>3
    <2> QED BY <2>1, <2>2, <2>3, <2>4 DEF ChainInv
  <1>7. CASE UNCHANGED chainVars
    BY <1>7 DEF ChainInv, TrialsOf, chainVars
  <1> QED BY <1>2, <1>3, <1>4, <1>5, <1>6, <1>7, SendStep DEF Chain!Next, Chain!Step

\* What the invariant says of the breakers.
LEMMA ChainHolds == ChainInv => Chain!TrialsAreFew /\ Chain!NeverStuck /\ Chain!OpensInTime
  <1> SUFFICES ASSUME ChainInv PROVE Chain!TrialsAreFew /\ Chain!NeverStuck /\ Chain!OpensInTime
    OBVIOUS
  <1>1. \A p : {c \in Chain!InFlight(p) : tentative[c]} = TrialsOf(p)
    BY DEF Chain!InFlight, TrialsOf
  <1>2. \A S : Chain!Cardinality(S) = Cardinality(S)
    BY DEF Chain!Cardinality, Cardinality
  <1>3. ASSUME NEW p \in 1..Providers, breakers[p].state = "half_open"
        PROVE  Cardinality(TrialsOf(p)) <= Trials /\ (breakers[p].requests < Trials \/ TrialsOf(p) # {})
    <2>1. breakers[p].requests \in Nat /\ breakers[p].successes \in Nat
      BY DEF ChainInv, Chain!Breaker
    <2>2. Cardinality(TrialsOf(p)) \in Nat /\ (TrialsOf(p) = {} => Cardinality(TrialsOf(p)) = 0)
      BY FS_CardinalityType, FS_EmptySet DEF ChainInv
    <2>3. PhaseInv(breakers[p], TrialsOf(p))
      BY DEF ChainInv
    <2> QED BY <1>3, <2>1, <2>2, <2>3, ChainConstants DEF PhaseInv
  <1>4. Chain!TrialsAreFew
    BY <1>1, <1>2, <1>3 DEF Chain!TrialsAreFew
  <1>5. Chain!NeverStuck
    BY <1>1, <1>3 DEF Chain!NeverStuck
  <1>6. Chain!OpensInTime
    BY DEF Chain!OpensInTime, ChainInv, PhaseInv
  <1> QED BY <1>4, <1>5, <1>6

----------------------------------------------------------------------------
(* Replay *)

Runs == [pc : {"idle", "emit", "done"}, stock : Replayed \cup {Play!Idle.stock},
         total : Nat, processed : Nat, errors : Nat]

\* A replay that has the replayer to itself keeps the flag up, and is done when all bars are through.
PlayInv ==
    /\ running \in BOOLEAN /\ replay \in [Replays -> Runs]
    /\ \A r \in Replays \ (shared \cup stopped) :
           /\ replay[r].pc = "emit" => running /\ \A q \in Replays \ {r} : replay[q].pc # "emit"
           /\ replay[r].pc = "done" => replay[r].processed + replay[r].errors = replay[r].total

\* A request at rest.
LEMMA IdleReplay == Play!Idle \in Runs /\ Play!Idle.pc = "idle"
  BY DEF Play!Idle, Runs

\* The first state.
LEMMA PlayInit == Play!Init => PlayInv
  BY IdleReplay DEF Play!Init, PlayInv

\* Every step keeps a replay going that is alone.
LEMMA PlayStep == PlayInv /\ [Play!Next]_playVars => PlayInv'
  <1> SUFFICES ASSUME PlayInv, [Play!Next]_playVars PROVE PlayInv'
    OBVIOUS
  <1>1. ASSUME NEW r \in Replays, NEW s \in Replayed, NEW n \in 0..ReplayBars, Play!Start(r, s, n) PROVE PlayInv'
    <2> DEFINE t == [Play!Idle EXCEPT !.pc = "emit", !.stock = s, !.total = n]
    <2>1. n \in Nat
      BY ConstantsAreSound DEF Play!ReplayAssumption
    <2>2. t \in Runs /\ t.pc = "emit"
      BY <2>1, IdleReplay DEF Runs
    <2>3. /\ replay' = [replay EXCEPT ![r] = t] /\ running' = TRUE /\ stopped' = stopped
          /\ shared' = shared \cup (IF Play!Busy = {} THEN {} ELSE Play!Busy \cup {r})
      BY <1>1 DEF Play!Start, Play!Raised
    <2> HIDE DEF t
    <2>4. replay' \in [Replays -> Runs] /\ replay'[r] = t /\ \A q \in Replays \ {r} : replay'[q] = replay[q]
      BY <2>2, <2>3 DEF PlayInv
    <2>5. \A q \in Replays : q \in Play!Busy <=> replay[q].pc = "emit"
      BY DEF Play!Busy
    <2> QED BY <2>2, <2>3, <2>4, <2>5 DEF PlayInv
  <1>2. ASSUME NEW r \in Replays, NEW works \in BOOLEAN, Play!Emit(r, works) PROVE PlayInv'
    <2> DEFINE p == IF works THEN replay[r].processed + 1 ELSE replay[r].processed
               e == IF works THEN replay[r].errors ELSE replay[r].errors + 1
               d == [replay EXCEPT ![r].processed = p]
    <2>1. replay[r] \in Runs /\ p \in Nat /\ e \in Nat
      BY DEF PlayInv, Runs
    <2>2. replay' = [d EXCEPT ![r].errors = e]
      BY <1>2, <2>1 DEF Play!Emit, PlayInv
    <2> HIDE DEF p, e
    <2>3. d \in [Replays -> Runs] /\ d[r].pc = replay[r].pc /\ \A q \in Replays \ {r} : d[q] = replay[q]
      BY <2>1 DEF PlayInv, Runs
    <2> HIDE DEF d
    <2>4. replay' \in [Replays -> Runs] /\ replay'[r].pc = d[r].pc /\ \A q \in Replays \ {r} : replay'[q] = d[q]
      BY <2>1, <2>2, <2>3 DEF Runs
    <2>5. replay[r].pc = "emit" /\ UNCHANGED <<running, shared, stopped>>
      BY <1>2 DEF Play!Emit
    <2> QED BY <2>3, <2>4, <2>5 DEF PlayInv
  <1>3. ASSUME NEW r \in Replays, Play!Finish(r) PROVE PlayInv'
    <2>1. /\ replay' = [replay EXCEPT ![r].pc = "done"] /\ running' = FALSE /\ UNCHANGED <<shared, stopped>>
          /\ replay[r].pc = "emit" /\ (~running \/ replay[r].processed + replay[r].errors = replay[r].total)
      BY <1>3 DEF Play!Finish
    <2>2. /\ replay' \in [Replays -> Runs] /\ replay'[r].pc = "done" /\ replay'[r].total = replay[r].total
          /\ replay'[r].processed = replay[r].processed /\ replay'[r].errors = replay[r].errors
          /\ \A q \in Replays \ {r} : replay'[q] = replay[q]
      BY <2>1 DEF PlayInv, Runs
    <2>3. ASSUME NEW q \in Replays \ (shared' \cup stopped')
          PROVE  /\ replay'[q].pc # "emit"
                 /\ replay'[q].pc = "done" => replay'[q].processed + replay'[q].errors = replay'[q].total
      <3>1. q \in Replays \ (shared \cup stopped)
        BY <2>1, <2>3
      <3>2. CASE q = r
        <4>1. replay[r].processed + replay[r].errors = replay[r].total
          BY <2>1, <3>1, <3>2 DEF PlayInv
        <4> QED BY <2>2, <3>2, <4>1
      <3>3. CASE q # r
        BY <2>1, <2>2, <3>1, <3>3 DEF PlayInv
      <3> QED BY <3>2, <3>3
    <2> QED BY <2>1, <2>2, <2>3 DEF PlayInv
  <1>4. CASE Play!Stop
    <2>1. \A q \in Replays : q \in Play!Busy <=> replay[q].pc = "emit"
      BY DEF Play!Busy
    <2> QED BY <1>4, <2>1 DEF Play!Stop, PlayInv
  <1>5. CASE UNCHANGED playVars
    BY <1>5 DEF PlayInv, playVars
  <1> QED BY <1>1, <1>2, <1>3, <1>4, <1>5 DEF Play!Next

\* What the invariant says of replays.
LEMMA PlayHolds == PlayInv => Play!LoneReplaysAreComplete
  BY DEF PlayInv, Play!LoneReplaysAreComplete

----------------------------------------------------------------------------
(* Reports *)

Handlings == [pc : {"idle", "read", "publish", "cache", "save"}, agent : Told!Agents,
              stock : Stocks \cup {"none"}, seen : Nat]

On(t, a, s) == handler[t].pc # "idle" /\ handler[t].agent = a /\ handler[t].stock = s

\* Where the report of an agent on a stock stands when all events have been received: the
\* handler, if there is one, is alone and has read the K-lines that are there.
Current(a, s) ==
    LET v == raw[s].version IN
    /\ \A t, u \in Handlers : On(t, a, s) /\ On(u, a, s) => t = u
    /\ s \notin provider /\ events[a][s] = 0 /\ raw[s].enough =>
           /\ ~Told!Busy(a, s) => /\ reported[a][s] = v
                                  /\ a = "signal" => cached[s].seen \in {0, v}
           /\ \A t \in Handlers : On(t, a, s) =>
                 /\ handler[t].pc \in {"publish", "cache"} => handler[t].seen = v
                 /\ handler[t].pc \in {"cache", "save"} => reported[a][s] = v
                 /\ handler[t].pc = "save" /\ a = "signal" => cached[s].seen \in {0, v}

ToldInv ==
    /\ raw \in [Stocks -> [version : Nat, enough : BOOLEAN, there : BOOLEAN]]
    /\ events \in [Told!Agents -> [Stocks -> Nat]]
    /\ handler \in [Handlers -> Handlings]
    /\ reported \in [Told!Agents -> [Stocks -> Nat]]
    /\ cached \in [Stocks -> [seen : Nat, age : Nat]]
    /\ \A t \in Handlers : /\ handler[t].pc # "idle" => handler[t].stock \in Stocks
                           /\ handler[t].pc = "cache" => handler[t].agent = "signal"
    /\ \A a \in Told!Agents, s \in Stocks : <<a, s>> \notin muddled => Current(a, s)

\* A handler at rest.
LEMMA IdleHandler == Told!Idle \in Handlings /\ Told!Idle.pc = "idle"
  BY DEF Told!Idle, Handlings, Told!Agents

\* An agent is busy with a stock when a handler of its is.
LEMMA BusyIsOn == \A a, s : Told!Busy(a, s) <=> \E t \in Handlers : On(t, a, s)
  BY DEF Told!Busy, On

\* The first state: nothing has been fetched.
LEMMA ToldInit == Told!Init => ToldInv
  <1> SUFFICES ASSUME Told!Init PROVE ToldInv
    OBVIOUS
  <1>1. \A t \in Handlers : handler[t] = Told!Idle
    BY DEF Told!Init
  <1>2. \A s \in Stocks : ~raw[s].enough
    BY DEF Told!Init
  <1>3. \A a \in Told!Agents, s \in Stocks : Current(a, s)
    BY <1>1, <1>2, IdleHandler DEF Current, On
  <1>4. /\ raw \in [Stocks -> [version : Nat, enough : BOOLEAN, there : BOOLEAN]]
        /\ events \in [Told!Agents -> [Stocks -> Nat]] /\ reported \in [Told!Agents -> [Stocks -> Nat]]
        /\ cached \in [Stocks -> [seen : Nat, age : Nat]]
    BY DEF Told!Init, Told!NoReport
  <1>5. handler \in [Handlers -> Handlings]
    BY IdleHandler DEF Told!Init
  <1> QED BY <1>1, <1>3, <1>4, <1>5, IdleHandler DEF ToldInv

\* A report stays as it is when neither its handlers nor what they read or write have changed.
LEMMA CurrentStays ==
    ASSUME NEW a \in Told!Agents, NEW s \in Stocks, Current(a, s),
           raw'[s].version = raw[s].version, raw'[s].enough = raw[s].enough,
           s \in provider' <=> s \in provider, events'[a][s] = events[a][s], reported'[a][s] = reported[a][s],
           a = "signal" => cached'[s].seen \in {0, cached[s].seen},
           \A t \in Handlers : /\ On(t, a, s)' <=> On(t, a, s)
                               /\ On(t, a, s) => handler'[t] = handler[t]
    PROVE  Current(a, s)'
  <1>1. Told!Busy(a, s)' <=> Told!Busy(a, s)
    BY DEF Told!Busy, On
  <1> QED BY <1>1 DEF Current

\* What handler t does to others' reports: nothing.
LEMMA OthersStay ==
    ASSUME ToldInv, NEW t \in Handlers, handler[t].pc # "idle",
           handler'[t].pc = "idle" \/ (handler'[t].agent = handler[t].agent /\ handler'[t].stock = handler[t].stock),
           \A u \in Handlers \ {t} : handler'[u] = handler[u],
           raw' = raw, provider' = provider, events' = events,
           NEW a \in Told!Agents, NEW s \in Stocks, ~On(t, a, s), <<a, s>> \notin muddled,
           reported'[a][s] = reported[a][s],
           a = "signal" => cached'[s] = cached[s]
    PROVE  Current(a, s)'
  <1>1. \A u \in Handlers : (On(u, a, s)' <=> On(u, a, s)) /\ (On(u, a, s) => handler'[u] = handler[u])
    BY DEF On
  <1>2. Current(a, s)
    BY DEF ToldInv
  <1> QED BY <1>1, <1>2, CurrentStays

\* A handler that is alone goes on.
LEMMA HandlerStep ==
    ASSUME ToldInv, NEW t \in Handlers,
           Told!Read(t) \/ Told!Publish(t) \/ Told!CacheReport(t) \/ Told!Save(t) \/ Told!ReadsNothing(t)
    PROVE  ToldInv'
  <1>1. handler[t] \in Handlings /\ handler[t].pc # "idle"
    BY DEF ToldInv, Told!Read, Told!Publish, Told!CacheReport, Told!Save, Told!ReadsNothing
  <1> PICK a \in Told!Agents : a = handler[t].agent
    BY <1>1 DEF Handlings
  <1> PICK s \in Stocks : s = handler[t].stock
    BY <1>1 DEF ToldInv
  <1>2. raw' = raw /\ provider' = provider /\ events' = events
    BY DEF Told!Read, Told!Publish, Told!CacheReport, Told!Save, Told!ReadsNothing
  <1>3. raw[s] \in [version : Nat, enough : BOOLEAN, there : BOOLEAN] /\ handler[t].seen \in Nat
    BY <1>1 DEF ToldInv, Handlings
  <1>4. On(t, a, s) /\ \A b \in Told!Agents, z \in Stocks : On(t, b, z) => b = a /\ z = s
    BY <1>1 DEF On
  <1>5. ASSUME <<a, s>> \notin muddled
        PROVE  Current(a, s) /\ \A u \in Handlers : On(u, a, s) => u = t
    <2>1. Current(a, s)
      BY <1>5 DEF ToldInv
    <2> QED BY <1>4, <2>1 DEF Current
  <1> DEFINE Mine == <<a, s>> \notin muddled' => Current(a, s)'
             Moved(r) == /\ handler' = [handler EXCEPT ![t] = r] /\ r \in Handlings
                         /\ r.pc = "idle" \/ (r.agent = a /\ r.stock = s)
                         /\ (r.pc = "cache" => r.agent = "signal")
  <1>6. ASSUME NEW r, Moved(r), muddled' \in {muddled, muddled \cup {<<a, s>>}}, Mine,
               reported' \in [Told!Agents -> [Stocks -> Nat]], cached' \in [Stocks -> [seen : Nat, age : Nat]],
               \A b \in Told!Agents, z \in Stocks : b # a \/ z # s =>
                   reported'[b][z] = reported[b][z] /\ (b = "signal" => cached'[z] = cached[z])
        PROVE  ToldInv'
    <2>1. handler' \in [Handlers -> Handlings] /\ handler'[t] = r /\ \A u \in Handlers \ {t} : handler'[u] = handler[u]
      BY <1>6 DEF ToldInv
    <2>2. ASSUME NEW b \in Told!Agents, NEW z \in Stocks, <<b, z>> \notin muddled' PROVE Current(b, z)'
      <3>1. CASE b = a /\ z = s
        BY <1>6, <2>2, <3>1
      <3>2. CASE b # a \/ z # s
        <4>1. ~On(t, b, z) /\ <<b, z>> \notin muddled
          BY <1>4, <1>6, <2>2, <3>2
        <4> QED BY <1>1, <1>2, <1>6, <2>1, <3>2, <4>1, OthersStay
      <3> QED BY <3>1, <3>2
    <2>3. \A u \in Handlers : /\ handler'[u].pc # "idle" => handler'[u].stock \in Stocks
                              /\ handler'[u].pc = "cache" => handler'[u].agent = "signal"
      BY <1>6, <2>1 DEF ToldInv
    <2> HIDE DEF Mine, Moved
    <2> QED BY <1>2, <1>6, <2>1, <2>2, <2>3 DEF ToldInv
  <1>7. ASSUME NEW r, Moved(r), r.pc # "idle", <<a, s>> \notin muddled
        PROVE  /\ Told!Busy(a, s)' /\ handler'[t] = r
               /\ \A u \in Handlers : On(u, a, s)' => u = t
    <2>1. handler'[t] = r /\ \A u \in Handlers \ {t} : handler'[u] = handler[u]
      BY <1>7 DEF ToldInv
    <2>2. \A u \in Handlers : On(u, a, s)' => u = t
      BY <1>5, <1>7, <2>1 DEF On
    <2>3. On(t, a, s)'
      BY <1>7, <2>1 DEF On
    <2> QED BY <2>1, <2>2, <2>3 DEF Told!Busy, On
  <1>8. ASSUME Moved(Told!Idle), <<a, s>> \notin muddled
        PROVE  \A u \in Handlers : ~On(u, a, s)'
    <2>1. handler'[t] = Told!Idle /\ \A u \in Handlers \ {t} : handler'[u] = handler[u]
      BY <1>8 DEF ToldInv
    <2> QED BY <1>5, <1>8, <2>1, IdleHandler DEF On
  <1>9. CASE Told!Read(t)
    <2> DEFINE r == [handler[t] EXCEPT !.pc = "publish", !.seen = raw[s].version]
    <2>1. handler' = [handler EXCEPT ![t] = r]
      BY <1>9 DEF Told!Read, ToldInv
    <2>2. r \in Handlings /\ r.pc = "publish" /\ r.seen = raw[s].version /\ r.agent = a /\ r.stock = s
      BY <1>1, <1>3 DEF Handlings
    <2> HIDE DEF r
    <2>3. Moved(r)
      BY <2>1, <2>2
    <2>4. muddled' = muddled /\ reported' = reported /\ cached' = cached
      BY <1>9 DEF Told!Read
    <2>5. Mine
      BY <1>2, <1>7, <2>2, <2>3, <2>4 DEF Current
    <2> HIDE DEF Mine, Moved
    <2> QED BY <1>6, <2>3, <2>4, <2>5 DEF ToldInv
  <1>10. CASE Told!Publish(t)
    <2> DEFINE r == [handler[t] EXCEPT !.pc = IF a = "signal" THEN "cache" ELSE "save"]
    <2>1. handler' = [handler EXCEPT ![t] = r]
      BY <1>10 DEF Told!Publish, Told!Goto, ToldInv
    <2>2. /\ r \in Handlings /\ r.pc = (IF a = "signal" THEN "cache" ELSE "save") /\ r.seen = handler[t].seen
          /\ r.agent = a /\ r.stock = s
      BY <1>1 DEF Handlings
    <2> HIDE DEF r
    <2>3. Moved(r)
      BY <2>1, <2>2
    <2>4. /\ muddled' = muddled /\ cached' = cached /\ handler[t].pc = "publish"
          /\ reported' = [reported EXCEPT ![a][s] = handler[t].seen]
      BY <1>10 DEF Told!Publish
    <2>5. /\ reported' \in [Told!Agents -> [Stocks -> Nat]] /\ reported'[a][s] = handler[t].seen
          /\ \A b \in Told!Agents, z \in Stocks : b # a \/ z # s => reported'[b][z] = reported[b][z]
      BY <1>3, <2>4 DEF ToldInv
    <2>6. Mine
      <3> SUFFICES ASSUME <<a, s>> \notin muddled PROVE Current(a, s)'
        BY <2>4
      <3>1. Current(a, s) /\ Told!Busy(a, s)' /\ handler'[t] = r /\ \A u \in Handlers : On(u, a, s)' => u = t
        BY <1>5, <1>7, <2>2, <2>3
      <3>2. s \notin provider /\ events[a][s] = 0 /\ raw[s].enough => handler[t].seen = raw[s].version
        BY <1>4, <2>4, <3>1 DEF Current
      <3> HIDE DEF Moved
      <3> QED BY <1>2, <2>2, <2>5, <3>1, <3>2 DEF Current
    <2> HIDE DEF Mine, Moved
    <2> QED BY <1>6, <2>3, <2>4, <2>5, <2>6 DEF ToldInv
  <1>11. CASE Told!CacheReport(t)
    <2> DEFINE r == [handler[t] EXCEPT !.pc = "save"]
    <2>1. handler' = [handler EXCEPT ![t] = r]
      BY <1>11 DEF Told!CacheReport, Told!Goto, ToldInv
    <2>2. r \in Handlings /\ r.pc = "save" /\ r.agent = a /\ r.stock = s
      BY <1>1 DEF Handlings
    <2> HIDE DEF r
    <2>3. Moved(r)
      BY <2>1, <2>2
    <2>4. /\ muddled' = muddled /\ reported' = reported /\ handler[t].pc = "cache" /\ a = "signal"
          /\ cached' = [cached EXCEPT ![s] = [seen |-> handler[t].seen, age |-> 0]]
      BY <1>11 DEF Told!CacheReport, ToldInv
    <2>5. /\ cached' \in [Stocks -> [seen : Nat, age : Nat]] /\ cached'[s].seen = handler[t].seen
          /\ \A z \in Stocks : z # s => cached'[z] = cached[z]
      BY <1>3, <2>4 DEF ToldInv
    <2>6. Mine
      <3> SUFFICES ASSUME <<a, s>> \notin muddled PROVE Current(a, s)'
        BY <2>4
      <3>1. Current(a, s) /\ Told!Busy(a, s)' /\ handler'[t] = r /\ \A u \in Handlers : On(u, a, s)' => u = t
        BY <1>5, <1>7, <2>2, <2>3
      <3>2. s \notin provider /\ events[a][s] = 0 /\ raw[s].enough =>
                handler[t].seen = raw[s].version /\ reported[a][s] = raw[s].version
        BY <1>4, <2>4, <3>1 DEF Current
      <3> HIDE DEF Moved
      <3> QED BY <1>2, <2>2, <2>4, <2>5, <3>1, <3>2 DEF Current
    <2> HIDE DEF Mine, Moved
    <2> QED BY <1>6, <2>3, <2>4, <2>5, <2>6 DEF ToldInv
  <1>12. CASE Told!Save(t)
    <2>1. Moved(Told!Idle)
      BY <1>12, IdleHandler DEF Told!Save, Told!End
    <2>2. muddled' = muddled /\ reported' = reported /\ cached' = cached /\ handler[t].pc = "save"
      BY <1>12 DEF Told!Save
    <2>3. Mine
      <3> SUFFICES ASSUME <<a, s>> \notin muddled PROVE Current(a, s)'
        BY <2>2
      <3>1. Current(a, s) /\ \A u \in Handlers : ~On(u, a, s)'
        BY <1>5, <1>8, <2>1
      <3>2. s \notin provider /\ events[a][s] = 0 /\ raw[s].enough =>
                reported[a][s] = raw[s].version /\ (a = "signal" => cached[s].seen \in {0, raw[s].version})
        BY <1>4, <2>2, <3>1 DEF Current
      <3> HIDE DEF Moved
      <3> QED BY <1>2, <2>2, <3>1, <3>2 DEF Current
    <2> HIDE DEF Mine, Moved
    <2> QED BY <1>6, <2>1, <2>2, <2>3 DEF ToldInv
  <1>13. CASE Told!ReadsNothing(t)
    <2>1. Moved(Told!Idle)
      BY <1>13, IdleHandler DEF Told!ReadsNothing, Told!End
    <2>2. /\ reported' = reported /\ cached' = cached
          /\ IF raw[s].there THEN muddled' = muddled /\ ~raw[s].enough ELSE muddled' = muddled \cup {<<a, s>>}
      BY <1>13 DEF Told!ReadsNothing, Told!Muddle
    <2>3. Mine
      <3> SUFFICES ASSUME <<a, s>> \notin muddled' PROVE Current(a, s)'
        OBVIOUS
      <3>1. ~raw[s].enough /\ <<a, s>> \notin muddled
        BY <2>2
      <3>2. \A u \in Handlers : ~On(u, a, s)'
        BY <1>8, <2>1, <3>1
      <3> HIDE DEF Moved
      <3> QED BY <1>2, <3>1, <3>2 DEF Current
    <2>4. muddled' \in {muddled, muddled \cup {<<a, s>>}}
      BY <2>2
    <2> HIDE DEF Mine, Moved
    <2> QED BY <1>6, <2>1, <2>2, <2>3, <2>4 DEF ToldInv
  <1> QED BY <1>9, <1>10, <1>11, <1>12, <1>13

\* Redis fails: nobody counts on the report of this handler any more.
LEMMA FailsStep ==
    ASSUME ToldInv, NEW t \in Handlers, Told!Fails(t)
    PROVE  ToldInv'
  <1>1. handler[t] \in Handlings /\ handler[t].pc # "idle"
    BY DEF ToldInv, Told!Fails
  <1> PICK a \in Told!Agents : a = handler[t].agent
    BY <1>1 DEF Handlings
  <1> PICK s \in Stocks : s = handler[t].stock
    BY <1>1 DEF ToldInv
  <1>2. /\ raw' = raw /\ provider' = provider /\ events' = events /\ reported' = reported /\ cached' = cached
        /\ muddled' = muddled \cup {<<a, s>>} /\ handler' = [handler EXCEPT ![t] = Told!Idle]
    BY DEF Told!Fails, Told!Muddle, Told!End
  <1>3. /\ handler' \in [Handlers -> Handlings] /\ handler'[t] = Told!Idle
        /\ \A u \in Handlers \ {t} : handler'[u] = handler[u]
    BY <1>2, IdleHandler DEF ToldInv
  <1>4. ASSUME NEW b \in Told!Agents, NEW z \in Stocks, <<b, z>> \notin muddled' PROVE Current(b, z)'
    <2>1. ~On(t, b, z) /\ <<b, z>> \notin muddled
      BY <1>2, <1>4 DEF On
    <2> QED BY <1>1, <1>2, <1>3, <2>1, IdleHandler, OthersStay
  <1> QED BY <1>2, <1>3, <1>4, IdleHandler DEF ToldInv

\* A message is received, and a handler begins.
LEMMA ReceiveStep ==
    ASSUME ToldInv, NEW t \in Handlers, NEW a \in Told!Agents, NEW s \in Stocks, Told!Receive(t, a, s)
    PROVE  ToldInv'
  <1> DEFINE r == [pc |-> "read", agent |-> a, stock |-> s, seen |-> 0]
  <1>1. /\ raw' = raw /\ provider' = provider /\ reported' = reported /\ cached' = cached
        /\ handler' = [handler EXCEPT ![t] = r] /\ handler[t].pc = "idle" /\ events[a][s] > 0
        /\ events' = [events EXCEPT ![a][s] = events[a][s] - 1]
        /\ muddled' = IF Told!Busy(a, s) THEN muddled \cup {<<a, s>>} ELSE muddled \ {<<a, s>>}
    BY DEF Told!Receive, ToldInv
  <1>2. r \in Handlings /\ r.pc = "read" /\ r.agent = a /\ r.stock = s
    BY DEF Handlings
  <1> HIDE DEF r
  <1>3. handler' \in [Handlers -> Handlings] /\ handler'[t] = r /\ \A u \in Handlers \ {t} : handler'[u] = handler[u]
    BY <1>1, <1>2 DEF ToldInv
  <1>4. /\ events' \in [Told!Agents -> [Stocks -> Nat]]
        /\ \A b \in Told!Agents, z \in Stocks : b # a \/ z # s => events'[b][z] = events[b][z]
    <2>1. events[a][s] \in Nat
      BY DEF ToldInv
    <2>2. events[a][s] - 1 \in Nat
      BY <1>1, <2>1
    <2> QED BY <1>1, <2>2 DEF ToldInv
  <1>5. ASSUME NEW b \in Told!Agents, NEW z \in Stocks, <<b, z>> \notin muddled' PROVE Current(b, z)'
    <2>1. CASE b = a /\ z = s
      <3>1. ~Told!Busy(a, s)
        BY <1>1, <1>5, <2>1
      <3>2. \A u \in Handlers : ~On(u, a, s)
        BY <3>1, BusyIsOn
      <3>3. On(t, a, s)' /\ \A u \in Handlers : On(u, a, s)' => u = t
        BY <1>2, <1>3, <3>2 DEF On
      <3>4. Told!Busy(a, s)'
        BY <3>3 DEF Told!Busy, On
      <3> QED BY <1>2, <1>3, <2>1, <3>3, <3>4 DEF Current
    <2>2. CASE b # a \/ z # s
      <3>1. Current(b, z)
        BY <1>1, <1>5, <2>2 DEF ToldInv
      <3>2. \A u \in Handlers : (On(u, b, z)' <=> On(u, b, z)) /\ (On(u, b, z) => handler'[u] = handler[u])
        BY <1>1, <1>2, <1>3, <2>2 DEF On
      <3> QED BY <1>1, <1>4, <2>2, <3>1, <3>2, CurrentStays
    <2> QED BY <2>1, <2>2
  <1> QED BY <1>1, <1>2, <1>3, <1>4, <1>5 DEF ToldInv

\* K-lines are cached, announced, and expire.
LEMMA ProviderStep ==
    ASSUME ToldInv, NEW s \in Stocks, NEW b \in BOOLEAN,
           Told!Cache(s, b) \/ Told!Announce(s, b) \/ Told!Expire(s)
    PROVE  ToldInv'
  <1>1. handler' = handler /\ reported' = reported /\ cached' = cached
    BY DEF Told!Cache, Told!Announce, Told!Expire
  <1>2. \A u \in Handlers, a \in Told!Agents, z \in Stocks : On(u, a, z)' <=> On(u, a, z)
    BY <1>1 DEF On
  <1>3. raw[s] \in [version : Nat, enough : BOOLEAN, there : BOOLEAN]
    BY DEF ToldInv
  <1>4. CASE Told!Cache(s, b)
    <2> DEFINE k == [version |-> raw[s].version + 1, enough |-> b, there |-> TRUE]
    <2>1. /\ raw' = [raw EXCEPT ![s] = k] /\ provider' = provider \cup {s}
          /\ events' = events /\ muddled' = muddled
      BY <1>4 DEF Told!Cache, Told!Fetched
    <2>2. k \in [version : Nat, enough : BOOLEAN, there : BOOLEAN]
      BY <1>3
    <2> HIDE DEF k
    <2>3. raw' \in [Stocks -> [version : Nat, enough : BOOLEAN, there : BOOLEAN]] /\ \A z \in Stocks \ {s} : raw'[z] = raw[z]
      BY <2>1, <2>2 DEF ToldInv
    <2>4. ASSUME NEW a \in Told!Agents, NEW z \in Stocks, <<a, z>> \notin muddled' PROVE Current(a, z)'
      <3>1. Current(a, z)
        BY <2>1, <2>4 DEF ToldInv
      <3>2. CASE z = s
        BY <1>2, <2>1, <3>1, <3>2 DEF Current
      <3>3. CASE z # s
        BY <1>1, <1>2, <2>1, <2>3, <3>1, <3>3, CurrentStays
      <3> QED BY <3>2, <3>3
    <2> QED BY <1>1, <2>1, <2>3, <2>4 DEF ToldInv
  <1>5. CASE Told!Announce(s, b)
    <2>1. /\ raw' = raw /\ provider' = provider \ {s} /\ s \in provider
          /\ b => /\ events' = [a \in Told!Agents |-> [events[a] EXCEPT ![s] = events[a][s] + 1]]
                  /\ muddled' = muddled
          /\ ~b => events' = events /\ muddled' = muddled \cup (Told!Agents \X {s})
      BY <1>5 DEF Told!Announce, ToldInv
    <2>2. \A a \in Told!Agents : events[a] \in [Stocks -> Nat] /\ events[a][s] \in Nat /\ events[a][s] + 1 \in Nat
      BY DEF ToldInv
    <2>3. /\ events' \in [Told!Agents -> [Stocks -> Nat]]
          /\ \A a \in Told!Agents, z \in Stocks : z # s => events'[a][z] = events[a][z]
          /\ b => \A a \in Told!Agents : events'[a][s] # 0
      <3>1. CASE ~b
        BY <2>1, <3>1 DEF ToldInv
      <3>2. CASE b
        <4>1. \A a \in Told!Agents : /\ [events[a] EXCEPT ![s] = events[a][s] + 1] \in [Stocks -> Nat]
                                     /\ events[a][s] + 1 # 0
          BY <2>2
        <4> QED BY <2>1, <2>2, <3>2, <4>1
      <3> QED BY <3>1, <3>2
    <2>4. ASSUME NEW a \in Told!Agents, NEW z \in Stocks, <<a, z>> \notin muddled' PROVE Current(a, z)'
      <3>1. Current(a, z)
        BY <2>1, <2>4 DEF ToldInv
      <3>2. CASE z = s
        <4>1. events'[a][s] # 0
          BY <2>1, <2>3, <2>4, <3>2
        <4> QED BY <1>2, <2>1, <3>1, <3>2, <4>1 DEF Current
      <3>3. CASE z # s
        BY <1>1, <1>2, <2>1, <2>3, <3>1, <3>3, CurrentStays
      <3> QED BY <3>2, <3>3
    <2> QED BY <1>1, <2>1, <2>3, <2>4 DEF ToldInv
  <1>6. CASE Told!Expire(s)
    <2>1. raw' = [raw EXCEPT ![s].there = FALSE] /\ provider' = provider /\ events' = events /\ muddled' = muddled
      BY <1>6 DEF Told!Expire
    <2>2. /\ raw' \in [Stocks -> [version : Nat, enough : BOOLEAN, there : BOOLEAN]]
          /\ \A z \in Stocks : raw'[z].version = raw[z].version /\ raw'[z].enough = raw[z].enough
      BY <2>1 DEF ToldInv
    <2>3. ASSUME NEW a \in Told!Agents, NEW z \in Stocks, <<a, z>> \notin muddled' PROVE Current(a, z)'
      <3>1. Current(a, z)
        BY <2>1, <2>3 DEF ToldInv
      <3> QED BY <1>1, <1>2, <2>1, <2>2, <3>1, CurrentStays
    <2> QED BY <1>1, <2>1, <2>2, <2>3 DEF ToldInv
  <1> QED BY <1>4, <1>5, <1>6

\* The report for the API goes after its time.
LEMMA ReportsAge ==
    ASSUME ToldInv, Told!Tick
    PROVE  ToldInv'
  <1>1. /\ raw' = raw /\ provider' = provider /\ events' = events /\ handler' = handler
        /\ reported' = reported /\ muddled' = muddled
        /\ cached' = [s \in Stocks |-> IF cached[s].seen = 0 THEN Told!NoReport
                                       ELSE IF cached[s].age + 1 >= ReportTTL THEN Told!NoReport
                                       ELSE [cached[s] EXCEPT !.age = cached[s].age + 1]]
    BY DEF Told!Tick
  <1>2. \A s \in Stocks : cached'[s] \in [seen : Nat, age : Nat] /\ cached'[s].seen \in {0, cached[s].seen}
    <2> SUFFICES ASSUME NEW s \in Stocks
                 PROVE  cached'[s] \in [seen : Nat, age : Nat] /\ cached'[s].seen \in {0, cached[s].seen}
      OBVIOUS
    <2> DEFINE e == [cached[s] EXCEPT !.age = cached[s].age + 1]
    <2>1. cached'[s] \in {Told!NoReport, e}
      BY <1>1
    <2>2. e \in [seen : Nat, age : Nat] /\ e.seen = cached[s].seen
      BY DEF ToldInv
    <2> HIDE DEF e
    <2> QED BY <2>1, <2>2 DEF Told!NoReport
  <1>3. cached' \in [Stocks -> [seen : Nat, age : Nat]]
    BY <1>1, <1>2
  <1>4. ASSUME NEW a \in Told!Agents, NEW z \in Stocks, <<a, z>> \notin muddled' PROVE Current(a, z)'
    <2>1. Current(a, z)
      BY <1>1, <1>4 DEF ToldInv
    <2>2. \A u \in Handlers : On(u, a, z)' <=> On(u, a, z)
      BY <1>1 DEF On
    <2> QED BY <1>1, <1>2, <2>1, <2>2, CurrentStays
  <1> QED BY <1>1, <1>3, <1>4 DEF ToldInv

\* Every step keeps the reports that were alone current.
LEMMA ToldStep == ToldInv /\ [Told!Next]_toldVars => ToldInv'
  <1> SUFFICES ASSUME ToldInv, [Told!Next]_toldVars PROVE ToldInv'
    OBVIOUS
  <1>1. CASE UNCHANGED toldVars
    BY <1>1 DEF ToldInv, Current, On, Told!Busy, toldVars
  <1>2. CASE Told!Next
    <2>1. ASSUME NEW s \in Stocks, Told!Expire(s) PROVE ToldInv'
      BY <2>1, ProviderStep
    <2> QED BY <1>2, <2>1, ProviderStep, ReceiveStep, HandlerStep, FailsStep, ReportsAge DEF Told!Next
  <1> QED BY <1>1, <1>2

\* What the invariant says of reports.
LEMMA ToldHolds == ToldInv => Told!LoneReportsAreCurrent
  BY DEF ToldInv, Current, Told!LoneReportsAreCurrent, Told!AtRest

----------------------------------------------------------------------------
(* Watchlist *)

Names == Watchable \cup {Watched!NoName}
Rows  == [symbol : Watchable, name : Names]
Calls == [pc : {"idle", "name", "select", "insert", "refresh", "update", "keep", "delete"},
          symbol : Watchable \cup {"no symbol"}, name : Names, id : Nat, beside : BOOLEAN]

\* The table has finitely many rows, with the names of their own stocks as long as no removal ran
\* beside another request.
TableInv ==
    /\ rows = [i \in DOMAIN rows |-> rows[i]] /\ \E n \in Nat : DOMAIN rows \subseteq 1..n
    /\ \A i \in DOMAIN rows : /\ rows[i] \in Rows
                              /\ ~mingled => rows[i].name \in {rows[i].symbol, Watched!NoName}

\* What an addition counts on: the row that it found or wrote is there, unless a removal runs or
\* ran beside it.
AddingInv(r) ==
    /\ calls[r].symbol \in Watchable /\ calls[r].name \in {calls[r].symbol, Watched!NoName}
    /\ Watched!Removing # {} => calls[r].beside
    /\ calls[r].beside => mingled
    /\ ~calls[r].beside /\ calls[r].pc \in {"refresh", "update", "keep"} =>
           calls[r].id \in DOMAIN rows /\ rows[calls[r].id].symbol = calls[r].symbol

WatchedInv ==
    /\ TableInv
    /\ calls \in [Editors -> Calls]
    /\ \A r \in Watched!Adding : AddingInv(r)
    /\ \A r \in Watched!Removing : calls[r].id \in DOMAIN rows => rows[calls[r].id].symbol \notin promised
    /\ \A s \in promised : \E i \in DOMAIN rows : rows[i].symbol = s

\* Who adds and who removes.
LEMMA WhoDoesWhat ==
    ASSUME WatchedInv
    PROVE  /\ \A r \in Editors : /\ r \in Watched!Adding <=> calls[r].pc \notin {"idle", "delete"}
                                 /\ r \in Watched!Removing <=> calls[r].pc = "delete"
           /\ Watched!Adding \subseteq Editors /\ Watched!Removing \subseteq Editors
  BY DEF WatchedInv, Calls, Watched!Adding, Watched!Removing

\* A request at rest.
LEMMA IdleCall ==
    /\ Watched!Idle \in Calls /\ Watched!Idle.pc = "idle" /\ Watched!Idle.symbol = "no symbol"
    /\ Watched!Idle.name = Watched!NoName /\ Watched!Idle.id = 0 /\ Watched!Idle.beside = FALSE
  BY DEF Watched!Idle, Watched!NoRow, Calls, Names

\* The row of a stock.
LEMMA RowOfFacts ==
    ASSUME TableInv, NEW s
    PROVE  /\ Watched!RowOf(s) # 0 => Watched!RowOf(s) \in DOMAIN rows /\ rows[Watched!RowOf(s)].symbol = s
           /\ Watched!RowOf(s) = 0 => \A i \in DOMAIN rows : rows[i].symbol # s
           /\ Watched!RowOf(s) \in Nat
  <1> DEFINE P(i) == IF i = 0 THEN \A j \in DOMAIN rows : rows[j].symbol # s ELSE rows[i].symbol = s
             D == DOMAIN rows \cup {0}
  <1>1. Watched!RowOf(s) = CHOOSE i \in D : P(i)
    BY DEF Watched!RowOf, Watched!NoRow
  <1>2. DOMAIN rows \subseteq Nat \ {0}
    BY DEF TableInv
  <1>3. \E i \in D : P(i)
    BY <1>2
  <1> HIDE DEF P
  <1>4. Watched!RowOf(s) \in D /\ P(Watched!RowOf(s))
    BY <1>1, <1>3
  <1> QED BY <1>2, <1>4 DEF P

\* The id of a new row is that of no other row.
LEMMA NewIdIsNew ==
    ASSUME TableInv
    PROVE  Watched!NewId \in Nat \ {0} /\ Watched!NewId \notin DOMAIN rows
  <1> DEFINE D == DOMAIN rows \cup {0}
             Above == {n \in Nat : \A i \in D : i <= n}
             Less == {p \in Nat \X Nat : p[1] < p[2]}
  <1>1. D \subseteq Nat /\ 0 \in D
    BY DEF TableInv
  <1>2. Above # {}
    <2> PICK n \in Nat : DOMAIN rows \subseteq 1..n
      BY DEF TableInv
    <2>1. n \in Above
      OBVIOUS
    <2> QED BY <2>1
  <1>3. IsWellFoundedOn(Less, Nat)
    BY NatLessThanWellFounded DEF OpToRel
  <1>4. Above \subseteq Nat
    OBVIOUS
  <1> HIDE DEF Above, Less, D
  <1>5. PICK m \in Above : \A k \in Above : ~(<<k, m>> \in Less)
    BY <1>2, <1>3, <1>4, WFMin
  <1>6. m \in Nat /\ (\A i \in D : i <= m) /\ \A k \in Nat : (\A i \in D : i <= k) => ~(k < m)
    BY <1>5 DEF Above, Less
  <1>7. m \in D
    <2> SUFFICES ASSUME m \notin D PROVE FALSE
      OBVIOUS
    <2>1. m # 0
      BY <1>1
    <2>2. m - 1 \in Nat /\ m - 1 < m
      BY <1>6, <2>1
    <2>3. \A i \in D : i <= m - 1
      BY <1>1, <1>6, <2>2
    <2> QED BY <1>6, <2>2, <2>3
  <1>8. Watched!Max(D) \in D /\ \A i \in D : i <= Watched!Max(D)
    <2>1. Watched!Max(D) = CHOOSE x \in D : \A y \in D : x >= y
      BY DEF Watched!Max
    <2>2. \E x \in D : \A y \in D : x >= y
      BY <1>1, <1>6, <1>7
    <2>3. Watched!Max(D) \in D /\ \A y \in D : Watched!Max(D) >= y
      BY <2>1, <2>2
    <2> QED BY <1>1, <2>3
  <1>9. Watched!NewId = Watched!Max(D) + 1
    BY DEF Watched!NewId, Watched!NoRow, D
  <1>10. Watched!NewId \notin D /\ Watched!NewId \in Nat \ {0}
    <2>1. Watched!Max(D) \in Nat
      BY <1>1, <1>8
    <2>2. ASSUME Watched!Max(D) + 1 \in D PROVE FALSE
      <3>1. Watched!Max(D) + 1 <= Watched!Max(D)
        BY <1>8, <2>2
      <3> QED BY <2>1, <3>1
    <2> QED BY <1>9, <2>1, <2>2
  <1> QED BY <1>10 DEF D

\* The first state.
LEMMA WatchedInit == Watched!Init => WatchedInv
  <1> SUFFICES ASSUME Watched!Init PROVE WatchedInv
    OBVIOUS
  <1>1. rows = [i \in {} |-> <<>>] /\ calls = [r \in Editors |-> Watched!Idle] /\ promised = {}
    BY DEF Watched!Init
  <1>2. DOMAIN rows = {}
    BY <1>1
  <1>3. TableInv
    <2>1. rows = [i \in DOMAIN rows |-> rows[i]]
      BY <1>1
    <2>2. DOMAIN rows \subseteq 1..0
      BY <1>2
    <2> QED BY <1>2, <2>1, <2>2 DEF TableInv
  <1>4. calls \in [Editors -> Calls] /\ Watched!Adding = {} /\ Watched!Removing = {}
    BY <1>1, IdleCall DEF Watched!Adding, Watched!Removing
  <1> QED BY <1>1, <1>3, <1>4 DEF WatchedInv

\* A request goes on that removes nothing.
LEMMA GoesOn ==
    ASSUME WatchedInv, NEW r \in Editors, NEW c \in Calls, calls' = [calls EXCEPT ![r] = c],
           c.pc # "delete", calls[r].pc # "delete", mingled => mingled',
           c.pc # "idle" => AddingInv(r)', TableInv',
           \A i \in DOMAIN rows : i \in DOMAIN rows' /\ rows'[i].symbol = rows[i].symbol,
           \A i \in DOMAIN rows' \ DOMAIN rows : rows'[i].symbol \notin promised,
           \A s \in promised' : s \in promised \/ (/\ Watched!Removing = {}
                                                   /\ \E i \in DOMAIN rows' : rows'[i].symbol = s)
    PROVE  WatchedInv'
  <1>1. calls' \in [Editors -> Calls] /\ calls'[r] = c /\ \A q \in Editors \ {r} : calls'[q] = calls[q]
    BY DEF WatchedInv
  <1>2. \A q \in Editors : /\ q \in Watched!Adding' <=> calls'[q].pc \notin {"idle", "delete"}
                           /\ q \in Watched!Removing' <=> calls'[q].pc = "delete"
    BY <1>1 DEF Calls, Watched!Adding, Watched!Removing
  <1>3. Watched!Removing' = Watched!Removing
    BY <1>1 DEF Watched!Removing
  <1>4. ASSUME NEW q \in Watched!Adding' PROVE AddingInv(q)'
    <2>1. q \in Editors
      BY DEF Watched!Adding
    <2>2. CASE q = r
      BY <1>1, <1>2, <1>4, <2>1, <2>2
    <2>3. CASE q # r
      <3>1. AddingInv(q)
        BY <1>1, <1>2, <1>4, <2>1, <2>3, WhoDoesWhat DEF WatchedInv
      <3> QED BY <1>1, <1>3, <2>1, <2>3, <3>1 DEF AddingInv
    <2> QED BY <2>2, <2>3
  <1>5. ASSUME NEW q \in Watched!Removing', calls'[q].id \in DOMAIN rows'
        PROVE  rows'[calls'[q].id].symbol \notin promised'
    <2>1. q \in Watched!Removing /\ calls'[q] = calls[q]
      BY <1>1, <1>3, <1>5 DEF Watched!Removing
    <2>2. \A s \in promised' : s \in promised
      BY <2>1
    <2>3. CASE calls[q].id \in DOMAIN rows
      BY <2>1, <2>2, <2>3 DEF WatchedInv
    <2>4. CASE calls[q].id \notin DOMAIN rows
      BY <1>5, <2>1, <2>2, <2>4
    <2> QED BY <2>3, <2>4
  <1>6. \A s \in promised' : \E i \in DOMAIN rows' : rows'[i].symbol = s
    BY DEF WatchedInv
  <1> QED BY <1>1, <1>4, <1>5, <1>6 DEF WatchedInv

\* The table is the same, whatever the requests do.
LEMMA TableStays ==
    ASSUME WatchedInv, rows' = rows, mingled => mingled'
    PROVE  /\ TableInv' /\ \A i \in DOMAIN rows : i \in DOMAIN rows' /\ rows'[i].symbol = rows[i].symbol
           /\ DOMAIN rows' \ DOMAIN rows = {}
  BY DEF WatchedInv, TableInv

\* A request that adds, and is at rest or goes on without a word to the table.
LEMMA QuietSteps ==
    ASSUME WatchedInv, NEW r \in Editors,
           \/ \E s \in Watchable : Watched!Add(r, s, Watched!NoName) \/ Watched!Add(r, s, s)
           \/ \E answers \in BOOLEAN : Watched!Name(r, answers)
           \/ Watched!Select(r)
    PROVE  WatchedInv'
  <1>1. calls \in [Editors -> Calls] /\ calls[r] \in Calls /\ TableInv
    BY DEF WatchedInv
  <1>2. ASSUME NEW s \in Watchable, NEW name \in {Watched!NoName, s}, Watched!Add(r, s, name) PROVE WatchedInv'
    <2> DEFINE some == Watched!Removing # {}
               pc == IF name = Watched!NoName THEN "name" ELSE "select"
               c == [Watched!Idle EXCEPT !.pc = pc, !.symbol = s, !.name = name, !.beside = some]
    <2>1. /\ rows' = rows /\ promised' = promised /\ mingled' = (mingled \/ some) /\ calls[r].pc = "idle"
          /\ calls' = [calls EXCEPT ![r] = c]
      BY <1>2 DEF Watched!Add
    <2>2. pc \in {"name", "select"} /\ some \in BOOLEAN /\ name \in Names
      BY DEF Names
    <2> HIDE DEF pc, some
    <2>3. c \in Calls /\ c.pc = pc /\ c.symbol = s /\ c.name = name /\ c.beside = some
      BY <2>2, IdleCall DEF Calls
    <2> HIDE DEF c
    <2>4. calls'[r] = c /\ \A q \in Editors \ {r} : calls'[q] = calls[q]
      BY <1>1, <2>1
    <2>5. Watched!Removing' = Watched!Removing
      BY <2>1, <2>2, <2>3, <2>4 DEF Watched!Removing
    <2>6. AddingInv(r)'
      BY <2>1, <2>2, <2>3, <2>4, <2>5 DEF AddingInv, some
    <2> QED BY <2>1, <2>2, <2>3, <2>6, GoesOn, TableStays
  <1>3. ASSUME NEW answers \in BOOLEAN, Watched!Name(r, answers) PROVE WatchedInv'
    <2> DEFINE s == calls[r].symbol
               n == IF s \in known \cup names \/ answers THEN s ELSE Watched!NoName
               c == [calls[r] EXCEPT !.pc = "select", !.name = n]
    <2>1. /\ rows' = rows /\ promised' = promised /\ mingled' = mingled /\ calls[r].pc = "name"
          /\ calls' = [calls EXCEPT ![r] = c]
      BY <1>1, <1>3 DEF Watched!Name
    <2>2. AddingInv(r)
      BY <2>1, WhoDoesWhat DEF WatchedInv
    <2>3. n \in {s, Watched!NoName} /\ n \in Names
      BY <2>2 DEF AddingInv, Names
    <2> HIDE DEF n
    <2>4. c \in Calls /\ c.pc = "select" /\ c.symbol = s /\ c.name = n /\ c.beside = calls[r].beside
      BY <1>1, <2>3 DEF Calls
    <2> HIDE DEF c
    <2>5. calls'[r] = c /\ \A q \in Editors \ {r} : calls'[q] = calls[q]
      BY <1>1, <2>1
    <2>6. Watched!Removing' = Watched!Removing
      BY <2>1, <2>4, <2>5 DEF Watched!Removing
    <2>7. AddingInv(r)'
      BY <2>1, <2>2, <2>3, <2>4, <2>5, <2>6 DEF AddingInv
    <2> QED BY <2>1, <2>4, <2>7, GoesOn, TableStays
  <1>4. CASE Watched!Select(r)
    <2> DEFINE s == calls[r].symbol
               id == Watched!RowOf(s)
               pc == CASE id = Watched!NoRow -> "insert"
                       [] id # Watched!NoRow /\ calls[r].name \in {Watched!NoName, rows[id].name} -> "keep"
                       [] OTHER -> "update"
               c == [calls[r] EXCEPT !.id = id, !.pc = pc]
    <2>1. /\ rows' = rows /\ promised' = promised /\ mingled' = mingled /\ calls[r].pc = "select"
          /\ calls' = [calls EXCEPT ![r] = c]
      BY <1>1, <1>4 DEF Watched!Select
    <2>2. AddingInv(r)
      BY <2>1, WhoDoesWhat DEF WatchedInv
    <2>3. /\ pc \in {"insert", "keep", "update"} /\ id \in Nat
          /\ pc # "insert" => id \in DOMAIN rows /\ rows[id].symbol = s
      <3>1. pc \in {"insert", "keep", "update"} /\ (pc # "insert" => id # 0)
        BY DEF Watched!NoRow
      <3> HIDE DEF pc
      <3> QED BY <1>1, <3>1, RowOfFacts
    <2> HIDE DEF pc, id
    <2>4. c \in Calls /\ c.pc = pc /\ c.symbol = s /\ c.id = id /\ c.name = calls[r].name /\ c.beside = calls[r].beside
      BY <1>1, <2>3 DEF Calls
    <2> HIDE DEF c
    <2>5. calls'[r] = c /\ \A q \in Editors \ {r} : calls'[q] = calls[q]
      BY <1>1, <2>1
    <2>6. Watched!Removing' = Watched!Removing
      BY <2>1, <2>3, <2>4, <2>5 DEF Watched!Removing
    <2>7. AddingInv(r)'
      BY <2>1, <2>2, <2>3, <2>4, <2>5, <2>6 DEF AddingInv
    <2> QED BY <2>1, <2>3, <2>4, <2>7, GoesOn, TableStays
  <1> QED BY <1>2, <1>3, <1>4

\* An addition writes its row.
LEMMA InsertStep ==
    ASSUME WatchedInv, NEW r \in Editors, Watched!Insert(r)
    PROVE  WatchedInv'
  <1> DEFINE s == calls[r].symbol
             id == Watched!NewId
  <1>1. calls \in [Editors -> Calls] /\ calls[r] \in Calls /\ TableInv /\ calls[r].pc = "insert"
    BY DEF WatchedInv, Watched!Insert
  <1>2. AddingInv(r)
    BY <1>1, WhoDoesWhat DEF WatchedInv
  <1>3. promised' = promised /\ mingled' = mingled
    BY DEF Watched!Insert
  <1>4. CASE Watched!RowOf(s) # 0
    <2>1. rows' = rows /\ calls' = [calls EXCEPT ![r] = Watched!Idle]
      BY <1>4 DEF Watched!Insert, Watched!NoRow, Watched!Answer
    <2> QED BY <1>1, <1>3, <2>1, IdleCall, GoesOn, TableStays
  <1>5. CASE Watched!RowOf(s) = 0
    <2> DEFINE row == [symbol |-> s, name |-> calls[r].name]
               c == [calls[r] EXCEPT !.pc = "refresh", !.id = id]
    <2>1. /\ rows' = [i \in DOMAIN rows \cup {id} |-> IF i = id THEN row ELSE rows[i]]
          /\ calls' = [calls EXCEPT ![r] = c]
      BY <1>1, <1>5 DEF Watched!Insert, Watched!NoRow
    <2>2. id \in Nat \ {0} /\ id \notin DOMAIN rows
      BY <1>1, NewIdIsNew
    <2> HIDE DEF id
    <2>3. c \in Calls /\ c.pc = "refresh" /\ c.symbol = s /\ c.id = id /\ c.name = calls[r].name /\ c.beside = calls[r].beside
      BY <1>1, <2>2 DEF Calls
    <2> HIDE DEF c
    <2>4. calls'[r] = c /\ \A q \in Editors \ {r} : calls'[q] = calls[q]
      BY <1>1, <2>1
    <2>5. Watched!Removing' = Watched!Removing
      BY <1>1, <2>3, <2>4 DEF Watched!Removing
    <2>6. /\ DOMAIN rows' = DOMAIN rows \cup {id} /\ rows'[id] = row
          /\ \A i \in DOMAIN rows : rows'[i] = rows[i]
      BY <2>1, <2>2
    <2>7. row \in Rows /\ row.symbol = s /\ row.name \in {s, Watched!NoName}
      BY <1>2 DEF AddingInv, Rows, Names
    <2> HIDE DEF row
    <2>8. TableInv'
      <3>1. PICK n \in Nat : DOMAIN rows \subseteq 1..n
        BY <1>1 DEF TableInv
      <3>2. DOMAIN rows' \subseteq 1..(n + id)
        BY <2>2, <2>6, <3>1
      <3>3. n + id \in Nat
        BY <2>2
      <3>4. rows' = [i \in DOMAIN rows' |-> rows'[i]]
        BY <2>1
      <3>5. \A i \in DOMAIN rows' : /\ rows'[i] \in Rows
                                    /\ ~mingled' => rows'[i].name \in {rows'[i].symbol, Watched!NoName}
        BY <1>1, <1>3, <2>6, <2>7 DEF TableInv
      <3> QED BY <3>2, <3>3, <3>4, <3>5 DEF TableInv
    <2>9. AddingInv(r)'
      BY <1>2, <1>3, <2>3, <2>4, <2>5, <2>6, <2>7 DEF AddingInv
    <2>10. s \notin promised
      <3>1. \A i \in DOMAIN rows : rows[i].symbol # s
        BY <1>1, <1>5, RowOfFacts
      <3> QED BY <3>1 DEF WatchedInv
    <2>11. \A i \in DOMAIN rows' \ DOMAIN rows : rows'[i].symbol \notin promised
      BY <2>6, <2>7, <2>10
    <2> QED BY <1>1, <1>3, <2>1, <2>3, <2>6, <2>8, <2>9, <2>11, GoesOn
  <1> QED BY <1>4, <1>5

\* An addition is confirmed.
LEMMA ConfirmSteps ==
    ASSUME WatchedInv, NEW r \in Editors, Watched!Refresh(r) \/ Watched!Update(r) \/ Watched!Keep(r)
    PROVE  WatchedInv'
  <1> DEFINE s == calls[r].symbol
             id == calls[r].id
  <1>1. /\ calls \in [Editors -> Calls] /\ calls[r].pc \in {"refresh", "update", "keep"} /\ TableInv
        /\ calls' = [calls EXCEPT ![r] = Watched!Idle] /\ mingled' = mingled
    BY DEF WatchedInv, Watched!Refresh, Watched!Update, Watched!Keep, Watched!Answer
  <1>2. AddingInv(r)
    BY <1>1, WhoDoesWhat DEF WatchedInv
  <1>3. \/ rows' = rows
        \/ rows' = [rows EXCEPT ![id].name = calls[r].name] /\ id \in DOMAIN rows /\ calls[r].pc = "update"
    BY DEF Watched!Refresh, Watched!Update, Watched!Keep
  <1>4. /\ TableInv' /\ DOMAIN rows' = DOMAIN rows
        /\ \A i \in DOMAIN rows : rows'[i].symbol = rows[i].symbol
    <2>1. CASE rows' = rows
      BY <1>1, <2>1, TableStays
    <2>2. CASE rows' = [rows EXCEPT ![id].name = calls[r].name] /\ id \in DOMAIN rows /\ calls[r].pc = "update"
      <3> DEFINE row == [rows[id] EXCEPT !.name = calls[r].name]
      <3>1. rows[id] \in Rows /\ calls[r].name \in Names /\ calls[r].beside \in BOOLEAN
        BY <1>1, <2>2 DEF TableInv, Calls
      <3>2. row \in Rows /\ row.symbol = rows[id].symbol /\ row.name = calls[r].name
        BY <3>1 DEF Rows
      <3>3. rows' = [rows EXCEPT ![id] = row]
        BY <2>2
      <3> HIDE DEF row
      <3>4. /\ DOMAIN rows' = DOMAIN rows /\ rows' = [i \in DOMAIN rows' |-> rows'[i]]
            /\ rows'[id] = row /\ \A i \in DOMAIN rows \ {id} : rows'[i] = rows[i]
        BY <2>2, <3>3
      <3>5. ~mingled => row.name \in {row.symbol, Watched!NoName}
        BY <1>2, <2>2, <3>1, <3>2 DEF AddingInv
      <3> QED BY <1>1, <3>2, <3>4, <3>5 DEF TableInv
    <2> QED BY <1>3, <2>1, <2>2
  <1>5. ASSUME NEW z \in promised' PROVE z \in promised \/ (Watched!Removing = {} /\ \E i \in DOMAIN rows' : rows'[i].symbol = z)
    <2>1. z \in promised \/ (z = s /\ ~calls[r].beside)
      BY <1>5 DEF Watched!Refresh, Watched!Update, Watched!Keep, Watched!Confirm
    <2>2. ASSUME z = s, ~calls[r].beside
          PROVE  Watched!Removing = {} /\ \E i \in DOMAIN rows' : rows'[i].symbol = z
      BY <1>1, <1>2, <1>4, <2>2 DEF AddingInv
    <2> QED BY <2>1, <2>2
  <1> QED BY <1>1, <1>4, <1>5, IdleCall, GoesOn

\* A removal begins: its stock is not promised any more, and all additions run beside it.
LEMMA RemoveStep ==
    ASSUME WatchedInv, NEW r \in Editors, NEW s \in Watchable, Watched!Remove(r, s)
    PROVE  WatchedInv'
  <1> DEFINE id == Watched!RowOf(s)
             c == [Watched!Idle EXCEPT !.pc = "delete", !.symbol = s, !.id = id]
  <1>1. /\ rows' = rows /\ promised' = promised \ {s} /\ calls[r].pc = "idle" /\ id # 0
        /\ mingled' = (mingled \/ Watched!Adding \cup Watched!Removing # {})
        /\ calls' = [q \in Editors |-> IF q = r THEN c
                                       ELSE IF q \in Watched!Adding THEN [calls[q] EXCEPT !.beside = TRUE] ELSE calls[q]]
    BY DEF Watched!Remove, Watched!NoRow
  <1>2. id \in Nat /\ id \in DOMAIN rows /\ rows[id].symbol = s
    BY <1>1, RowOfFacts DEF WatchedInv
  <1> HIDE DEF id
  <1>3. c \in Calls /\ c.pc = "delete" /\ c.id = id
    BY <1>2, IdleCall DEF Calls
  <1> HIDE DEF c
  <1>4. \A q \in Editors \ {r} : /\ calls'[q] \in Calls /\ calls'[q].pc = calls[q].pc /\ calls'[q].symbol = calls[q].symbol
                                 /\ calls'[q].name = calls[q].name /\ calls'[q].id = calls[q].id
                                 /\ q \in Watched!Adding => calls'[q].beside
    <2> SUFFICES ASSUME NEW q \in Editors \ {r}
                 PROVE  /\ calls'[q] \in Calls /\ calls'[q].pc = calls[q].pc /\ calls'[q].symbol = calls[q].symbol
                        /\ calls'[q].name = calls[q].name /\ calls'[q].id = calls[q].id
                        /\ q \in Watched!Adding => calls'[q].beside
      OBVIOUS
    <2> DEFINE b == [calls[q] EXCEPT !.beside = TRUE]
    <2>1. calls[q] \in Calls
      BY DEF WatchedInv
    <2>2. /\ b \in Calls /\ b.pc = calls[q].pc /\ b.symbol = calls[q].symbol /\ b.name = calls[q].name
          /\ b.id = calls[q].id /\ b.beside
      BY <2>1 DEF Calls
    <2>3. calls'[q] = IF q \in Watched!Adding THEN b ELSE calls[q]
      BY <1>1
    <2> HIDE DEF b
    <2> QED BY <2>1, <2>2, <2>3
  <1>5. calls' \in [Editors -> Calls] /\ calls'[r] = c
    BY <1>1, <1>3, <1>4
  <1>6. \A q \in Editors : /\ q \in Watched!Adding' <=> calls'[q].pc \notin {"idle", "delete"}
                           /\ q \in Watched!Removing' <=> calls'[q].pc = "delete"
    BY <1>5 DEF Calls, Watched!Adding, Watched!Removing
  <1>7. ASSUME NEW q \in Watched!Adding' PROVE AddingInv(q)'
    <2>1. q \in Editors \ {r}
      BY <1>3, <1>5, <1>6, <1>7 DEF Watched!Adding
    <2>2. q \in Watched!Adding /\ AddingInv(q)
      BY <1>4, <1>6, <1>7, <2>1, WhoDoesWhat DEF WatchedInv
    <2>3. mingled'
      BY <1>1, <2>2
    <2>4. calls'[q].beside /\ calls'[q].symbol = calls[q].symbol /\ calls'[q].name = calls[q].name
      BY <1>4, <2>1, <2>2
    <2> QED BY <2>2, <2>3, <2>4 DEF AddingInv
  <1>8. ASSUME NEW q \in Watched!Removing', calls'[q].id \in DOMAIN rows' PROVE rows'[calls'[q].id].symbol \notin promised'
    <2>1. q \in Editors
      BY DEF Watched!Removing
    <2>2. CASE q = r
      BY <1>1, <1>2, <1>3, <1>5, <2>2
    <2>3. CASE q # r
      <3>1. q \in Watched!Removing
        BY <1>4, <1>6, <1>8, <2>1, <2>3, WhoDoesWhat
      <3> QED BY <1>1, <1>4, <1>8, <2>1, <2>3, <3>1 DEF WatchedInv
    <2> QED BY <2>2, <2>3
  <1>9. TableInv'
    BY <1>1, TableStays
  <1> QED BY <1>1, <1>5, <1>7, <1>8, <1>9 DEF WatchedInv

\* A removal deletes the row it found.
LEMMA DeleteStep ==
    ASSUME WatchedInv, NEW r \in Editors, Watched!Delete(r)
    PROVE  WatchedInv'
  <1> DEFINE id == calls[r].id
  <1>1. /\ calls \in [Editors -> Calls] /\ calls[r].pc = "delete" /\ promised' = promised /\ mingled' = mingled
        /\ calls' = [calls EXCEPT ![r] = Watched!Idle]
        /\ rows' = [i \in DOMAIN rows \ {id} |-> rows[i]]
    BY DEF WatchedInv, Watched!Delete, Watched!Answer, Watched!Without, Watched!Restrict
  <1>2. DOMAIN rows' = DOMAIN rows \ {id} /\ \A i \in DOMAIN rows \ {id} : rows'[i] = rows[i]
    BY <1>1
  <1>3. TableInv'
    <2>1. rows' = [i \in DOMAIN rows' |-> rows'[i]]
      BY <1>1
    <2> QED BY <1>1, <1>2, <2>1 DEF WatchedInv, TableInv
  <1>4. /\ calls' \in [Editors -> Calls] /\ calls'[r] = Watched!Idle
        /\ \A q \in Editors \ {r} : calls'[q] = calls[q]
    BY <1>1, IdleCall
  <1>5. \A q \in Editors : /\ q \in Watched!Adding' <=> calls'[q].pc \notin {"idle", "delete"}
                           /\ q \in Watched!Removing' <=> calls'[q].pc = "delete"
    BY <1>4 DEF Calls, Watched!Adding, Watched!Removing
  <1>6. r \in Watched!Removing
    BY <1>1, WhoDoesWhat
  <1>7. ASSUME NEW q \in Watched!Adding' PROVE AddingInv(q)'
    <2>1. q \in Editors \ {r}
      BY <1>4, <1>5, <1>7, IdleCall DEF Watched!Adding
    <2>2. AddingInv(q) /\ calls'[q] = calls[q]
      BY <1>4, <1>5, <1>7, <2>1, WhoDoesWhat DEF WatchedInv
    <2> QED BY <1>1, <1>6, <2>2 DEF AddingInv
  <1>8. ASSUME NEW q \in Watched!Removing', calls'[q].id \in DOMAIN rows' PROVE rows'[calls'[q].id].symbol \notin promised'
    <2>1. q \in Editors \ {r}
      BY <1>4, <1>5, <1>8, IdleCall DEF Watched!Removing
    <2>2. q \in Watched!Removing /\ calls'[q] = calls[q]
      BY <1>4, <1>5, <1>8, <2>1, WhoDoesWhat
    <2> QED BY <1>1, <1>2, <1>8, <2>2 DEF WatchedInv
  <1>9. \A s \in promised' : \E i \in DOMAIN rows' : rows'[i].symbol = s
    BY <1>1, <1>2, <1>6 DEF WatchedInv
  <1> QED BY <1>3, <1>4, <1>7, <1>8, <1>9 DEF WatchedInv

\* Every step keeps the rows of the stocks that are promised.
LEMMA WatchedStep == WatchedInv /\ [Watched!Next]_watchedVars => WatchedInv'
  <1> SUFFICES ASSUME WatchedInv, [Watched!Next]_watchedVars PROVE WatchedInv'
    OBVIOUS
  <1>1. ASSUME UNCHANGED <<rows, calls, promised, mingled>> PROVE WatchedInv'
    BY <1>1 DEF WatchedInv, TableInv, AddingInv, Watched!Adding, Watched!Removing
  <1>2. CASE UNCHANGED watchedVars
    BY <1>1, <1>2 DEF watchedVars
  <1>3. CASE Watched!Expire \/ \E n \in SUBSET Watchable : Watched!Preload(n)
    BY <1>1, <1>3 DEF Watched!Expire, Watched!Preload
  <1>4. CASE \E r \in Editors : \/ \E s \in Watchable : \/ Watched!Add(r, s, Watched!NoName) \/ Watched!Add(r, s, s)
                                                        \/ Watched!Remove(r, s)
                                \/ \E b \in BOOLEAN : Watched!Name(r, b)
                                \/ Watched!Select(r) \/ Watched!Insert(r) \/ Watched!Refresh(r) \/ Watched!Update(r)
                                \/ Watched!Keep(r) \/ Watched!Delete(r)
    BY <1>4, QuietSteps, InsertStep, ConfirmSteps, RemoveStep, DeleteStep
  <1> QED BY <1>2, <1>3, <1>4 DEF Watched!Next

\* What the invariant says of the list.
LEMMA WatchedHolds == WatchedInv => Watched!LoneAddsStay /\ Watched!NamesAreRight
  <1> SUFFICES ASSUME WatchedInv PROVE Watched!LoneAddsStay /\ Watched!NamesAreRight
    OBVIOUS
  <1>1. \A s \in promised : Watched!RowOf(s) # 0
    BY RowOfFacts DEF WatchedInv
  <1> QED BY <1>1 DEF WatchedInv, TableInv, Watched!LoneAddsStay, Watched!NamesAreRight, Watched!NoRow

----------------------------------------------------------------------------
(* Sizing *)

\* All of the capital, a quarter of it, and what else is asked for.
LEMMA UnitFacts == /\ Size!Unit \in Nat \ {0} /\ Size!MaxPct \in Nat
                   /\ Size!EqualWeight \in 0..Size!MaxPct /\ Size!Unit \div 10 \in 0..Size!MaxPct
  <1>1. Size!Unit = 10000 /\ Size!MaxPct = 2500 /\ Size!EqualWeight = 2000 /\ Size!Unit \div 10 = 1000
    BY DEF Size!Unit, Size!MaxPct, Size!EqualWeight, Size!AtMost
  <1> QED BY <1>1

\* Division rounds down.
LEMMA Division ==
    ASSUME NEW a \in Nat, NEW b \in Nat \ {0}
    PROVE  a \div b \in Nat /\ (a \div b) * b <= a /\ a < (a \div b) * b + b
  BY SMT

\* The quotient of a larger number is no smaller.
LEMMA DivisionGrows ==
    ASSUME NEW a \in Nat, NEW c \in Nat, NEW b \in Nat \ {0}, a <= c
    PROVE  a \div b <= c \div b
  BY SMT

\* The shares that a share of the capital comes to, in whole lots.
Lots(c, p, cut) == ((c * cut) \div (Size!Unit * p * Size!Lot)) * Size!Lot

\* They cost no more than that, and nothing comes of nothing.
LEMMA LotsFit ==
    ASSUME NEW c \in Nat \ {0}, NEW p \in Nat \ {0}, NEW cut \in Nat
    PROVE  /\ Lots(c, p, cut) \in Nat /\ Lots(c, p, cut) % Size!Lot = 0
           /\ Lots(c, p, cut) * p * Size!Unit <= c * cut
           /\ cut = 0 => Lots(c, p, cut) = 0
  <1> DEFINE d == Size!Unit * p * 100
             k == (c * cut) \div d
  <1>1. d \in Nat \ {0} /\ c * cut \in Nat
    BY UnitFacts
  <1>2. k \in Nat /\ k * d <= c * cut
    <2> HIDE DEF d
    <2> QED BY <1>1, Division
  <1>3. Lots(c, p, cut) = k * 100
    BY DEF Lots, Size!Lot
  <1>4. cut = 0 => k = 0
    <2>1. cut = 0 => c * cut = 0
      OBVIOUS
    <2> HIDE DEF d
    <2> QED BY <1>1, <2>1
  <1> HIDE DEF k
  <1>5. (k * 100) * p * Size!Unit = k * d
    BY <1>2, UnitFacts
  <1>6. (k * 100) % 100 = 0
    BY <1>2
  <1>7. k * 100 \in Nat
    BY <1>2
  <1> QED BY <1>2, <1>3, <1>4, <1>5, <1>6, <1>7 DEF Size!Lot

\* A larger share of the capital is no fewer shares.
LEMMA LotsGrow ==
    ASSUME NEW c \in Nat \ {0}, NEW p \in Nat \ {0}, NEW m \in Nat, NEW n \in Nat, m <= n
    PROVE  Lots(c, p, m) <= Lots(c, p, n)
  <1> DEFINE d == Size!Unit * p * 100
  <1>1. d \in Nat \ {0} /\ c * m \in Nat /\ c * n \in Nat
    BY UnitFacts
  <1>2. c * m <= c * n
    OBVIOUS
  <1>3. (c * m) \div d <= (c * n) \div d /\ (c * m) \div d \in Nat /\ (c * n) \div d \in Nat
    <2> HIDE DEF d
    <2> QED BY <1>1, <1>2, Division, DivisionGrows
  <1> QED BY <1>3 DEF Lots, Size!Lot

\* The share of the capital before the level of risk cuts it, and after.
Share(q) == CASE q.method = "kelly" -> Size!Kelly(q)
              [] q.method = "equal" -> Size!EqualWeight
              [] OTHER              -> Size!Unit \div 10
Cut(q, l) == Size!AtMost(Share(q) \div Size!RiskDivisor(l), Size!MaxPct)
Answered(q) == q.method # "parity" /\ (q.method = "kelly" => q.known)

\* The numbers of a question.
LEMMA QuestionIs ==
    ASSUME NEW q \in Size!Questions
    PROVE  /\ q.capital \in Nat \ {0} /\ q.price \in Nat \ {0}
           /\ q.win \in Nat \ {0} /\ q.loss \in Nat \ {0} /\ q.probability \in 0..Size!Unit
  <1>1. Capitals \subseteq Nat \ {0} /\ LotPrices \subseteq Nat \ {0} /\ Returns \subseteq Nat \ {0}
        /\ Probabilities \subseteq 0..Size!Unit
    BY ConstantsAreSound DEF Size!SizingAssumption
  <1>2. q.capital \in Capitals /\ q.price \in LotPrices /\ q.win \in Returns /\ q.loss \in Returns
        /\ q.probability \in Probabilities
    BY DEF Size!Questions
  <1> QED BY <1>1, <1>2

\* What is suggested.
LEMMA SuggestionIs ==
    ASSUME NEW q \in Size!Questions, NEW l \in Size!Levels
    PROVE  Size!Suggestion(q, l) = IF Answered(q) THEN [pct |-> Cut(q, l), shares |-> Lots(q.capital, q.price, Cut(q, l))]
                                   ELSE Size!Nothing
  BY DEF Size!Suggestion, Share, Cut, Answered, Lots, Size!Questions

\* The Kelly formula takes part of the capital only if the expected return is above zero.
LEMMA KellyIsCautious ==
    ASSUME NEW q \in Size!Questions
    PROVE  /\ Size!Kelly(q) \in 0..Size!MaxPct
           /\ Size!Kelly(q) > 0 => q.probability * q.win > (Size!Unit - q.probability) * q.loss
  <1>1. q.win \in Nat \ {0} /\ q.loss \in Nat \ {0} /\ q.probability \in 0..Size!Unit
    BY QuestionIs
  <1> DEFINE rest == (Size!Unit - q.probability) * q.loss
             k == rest \div q.win
  <1>2. rest \in Nat
    <2>1. Size!Unit - q.probability \in Nat
      BY <1>1, UnitFacts
    <2> QED BY <1>1, <2>1
  <1>3. Size!Edge(q) = q.probability - k
    BY DEF Size!Edge
  <1> HIDE DEF rest
  <1>4. k \in Nat /\ rest < k * q.win + q.win
    BY <1>1, <1>2, Division
  <1> HIDE DEF k
  <1>5. ASSUME q.probability - k > 0 PROVE q.probability * q.win > rest
    <2>1. q.probability >= k + 1
      BY <1>1, <1>4, <1>5
    <2>2. q.probability * q.win >= (k + 1) * q.win
      BY <1>1, <1>4, <2>1
    <2>3. (k + 1) * q.win = k * q.win + q.win /\ k * q.win \in Int /\ q.probability * q.win \in Int
      BY <1>1, <1>4
    <2> QED BY <1>1, <1>2, <1>4, <2>2, <2>3
  <1>6. Size!Kelly(q) \in 0..Size!MaxPct /\ (Size!Kelly(q) > 0 => q.probability - k > 0)
    <2> DEFINE e == q.probability - k
    <2>1. e \in Int /\ (e > 0 => e \div 2 \in Nat)
      BY <1>1, <1>4
    <2>2. Size!Kelly(q) = IF q.probability = 0 \/ e <= 0 THEN 0
                          ELSE IF e \div 2 > Size!MaxPct THEN Size!MaxPct ELSE e \div 2
      BY <1>3 DEF Size!Kelly, Size!AtMost
    <2> HIDE DEF e
    <2>3. Size!Kelly(q) \in 0..Size!MaxPct /\ (Size!Kelly(q) > 0 => e > 0)
      BY <2>1, <2>2, UnitFacts
    <2> QED BY <2>3 DEF e
  <1> QED BY <1>5, <1>6 DEF rest

\* A higher level of risk does not raise the share, and Kelly's rule still needs its edge.
LEMMA CutIsCautious ==
    ASSUME NEW q \in Size!Questions, NEW l \in Size!Levels
    PROVE  /\ Cut(q, l) \in 0..Size!MaxPct
           /\ Cut(q, l) > 0 /\ q.method = "kelly" => q.probability * q.win > (Size!Unit - q.probability) * q.loss
           /\ l = "critical" => Cut(q, l) <= Cut(q, "elevated")
           /\ l = "elevated" => Cut(q, l) <= Cut(q, "normal")
  <1> DEFINE s == Share(q)
             m == Size!MaxPct
  <1>1. s \in Nat /\ s <= m /\ m \in Nat
    BY UnitFacts, KellyIsCautious DEF Share
  <1>2. /\ Size!RiskDivisor("normal") = 1 /\ Size!RiskDivisor("elevated") = 2 /\ Size!RiskDivisor("critical") = 4
    BY DEF Size!RiskDivisor
  <1>3. /\ Cut(q, "normal") = (IF s \div 1 > m THEN m ELSE s \div 1)
        /\ Cut(q, "elevated") = (IF s \div 2 > m THEN m ELSE s \div 2)
        /\ Cut(q, "critical") = (IF s \div 4 > m THEN m ELSE s \div 4)
    BY <1>2 DEF Cut, Size!AtMost
  <1>4. q.method = "kelly" => s = Size!Kelly(q)
    BY DEF Share
  <1> HIDE DEF s, m
  <1>5. s \div 1 = s /\ s \div 2 \in 0..s /\ s \div 4 \in 0..s /\ s \div 4 <= s \div 2
    BY <1>1
  <1>6. /\ \A n \in {"normal", "elevated", "critical"} : Cut(q, n) \in 0..m /\ (Cut(q, n) > 0 => s > 0)
        /\ Cut(q, "critical") <= Cut(q, "elevated") /\ Cut(q, "elevated") <= Cut(q, "normal")
    BY <1>1, <1>3, <1>5
  <1>7. Size!Levels = {"normal", "elevated", "critical"}
    BY DEF Size!Levels
  <1>8. Cut(q, l) > 0 /\ q.method = "kelly" => Size!Kelly(q) > 0
    BY <1>4, <1>6, <1>7
  <1> QED BY <1>6, <1>7, <1>8, KellyIsCautious DEF m

\* A question that stays, and no answer or the one to it.
SizeInv == /\ level \in Size!Levels /\ asked \in Size!Questions
           /\ suggested \in {Size!Nothing, Size!Suggestion(asked, level)}

\* What is suggested answers the question that was asked.
LEMMA SizeStep == SizeInv /\ [Size!Next]_sizeVars => SizeInv'
  BY DEF SizeInv, Size!Next, Size!Suggest, sizeVars

\* Such an answer is cautious.
LEMMA SizeHolds == SizeInv => Size!SuggestionsAreCautious
  <1> SUFFICES ASSUME SizeInv PROVE Size!SuggestionsAreCautious
    OBVIOUS
  <1> DEFINE c == asked.capital
             p == asked.price
             Good(s, l) == /\ s.shares * p * Size!Unit <= c * s.pct
                           /\ s.shares % Size!Lot = 0
                           /\ s.shares > 0 /\ asked.method = "kelly" =>
                                asked.known /\ asked.probability * asked.win > (Size!Unit - asked.probability) * asked.loss
  <1>1. c \in Nat \ {0} /\ p \in Nat \ {0} /\ level \in Size!Levels /\ asked \in Size!Questions
    BY QuestionIs DEF SizeInv
  <1>2. "elevated" \in Size!Levels /\ "normal" \in Size!Levels
    BY DEF Size!Levels
  <1>3. Cut(asked, level) \in Nat /\ Cut(asked, "elevated") \in Nat /\ Cut(asked, "normal") \in Nat
    BY <1>1, <1>2, CutIsCautious, UnitFacts
  <1> HIDE DEF c, p
  <1>4. CASE suggested = Size!Nothing
    <2>1. suggested.shares = 0 /\ suggested.pct = 0
      BY <1>4 DEF Size!Nothing
    <2>2. 0 * p * Size!Unit <= c * 0 /\ 0 % 100 = 0
      BY <1>1, UnitFacts
    <2> QED BY <1>4, <2>1, <2>2 DEF Size!SuggestionsAreCautious, Size!Lot, c, p
  <1>5. CASE suggested # Size!Nothing
    <2>1. /\ Answered(asked) /\ suggested = Size!Suggestion(asked, level)
          /\ suggested.pct = Cut(asked, level) /\ suggested.shares = Lots(c, p, Cut(asked, level))
      BY <1>1, <1>5, SuggestionIs DEF SizeInv, c, p
    <2>2. /\ Size!Suggestion(asked, "elevated").shares = Lots(c, p, Cut(asked, "elevated"))
          /\ Size!Suggestion(asked, "normal").shares = Lots(c, p, Cut(asked, "normal"))
      BY <1>1, <1>2, <2>1, SuggestionIs DEF c, p
    <2>3. /\ suggested.shares \in Nat /\ suggested.shares % Size!Lot = 0
          /\ suggested.shares * p * Size!Unit <= c * suggested.pct
          /\ suggested.pct = 0 => suggested.shares = 0
      <3> DEFINE n == Cut(asked, level)
      <3>1. n \in Nat
        BY <1>3
      <3> HIDE DEF n
      <3>2. /\ Lots(c, p, n) \in Nat /\ Lots(c, p, n) % Size!Lot = 0
            /\ Lots(c, p, n) * p * Size!Unit <= c * n
            /\ n = 0 => Lots(c, p, n) = 0
        BY <1>1, <3>1, LotsFit
      <3> QED BY <2>1, <3>2 DEF n
    <2>4. /\ level = "critical" => suggested.shares <= Size!Suggestion(asked, "elevated").shares
          /\ level = "elevated" => suggested.shares <= Size!Suggestion(asked, "normal").shares
      BY <1>1, <1>3, <2>1, <2>2, LotsGrow, CutIsCautious
    <2>5. suggested.shares > 0 /\ asked.method = "kelly" =>
            asked.known /\ asked.probability * asked.win > (Size!Unit - asked.probability) * asked.loss
      BY <1>1, <1>3, <2>1, <2>3, CutIsCautious DEF Answered
    <2> QED BY <2>3, <2>4, <2>5 DEF Size!SuggestionsAreCautious, c, p
  <1> QED BY <1>4, <1>5

----------------------------------------------------------------------------
(* Backtest *)

Runners == [capital : Nat, lots : Nat, avg : Nat, top : Nat, pnls : Seq(Int), wins : Nat, losses : Nat,
            most_wins : Nat, most_losses : Nat, equity : Int, quote : Nat, moves : BOOLEAN]

\* A sale that was won, or lost.
Is(pnl, won) == (pnl > 0) = won

\* The last n sales were won, or lost, and not the one before them.
Streak(pnls, n, won) == /\ n \in 0..Len(pnls)
                        /\ \A j \in (Len(pnls) - n + 1)..Len(pnls) : Is(pnls[j], won)
                        /\ n < Len(pnls) => ~Is(pnls[Len(pnls) - n], won)

\* There are n sales in a row that were won, or lost.
Row(pnls, n, won) == \E i \in 0..(Len(pnls) - n) : \A j \in (i + 1)..(i + n) : Is(pnls[j], won)

\* n is the length of the longest series.
Best(pnls, n, won) == /\ n \in 0..Len(pnls) /\ Row(pnls, n, won)
                      /\ \A m \in 0..Len(pnls) : Row(pnls, m, won) => m <= n

Series(pnls, w, l, mw, ml) == /\ Streak(pnls, w, TRUE) /\ Streak(pnls, l, FALSE)
                              /\ Best(pnls, mw, TRUE) /\ Best(pnls, ml, FALSE)

\* The books of a runner close, its series are those of the sales, and its position is within the limit.
RunnerInv(r) ==
    /\ r \in Runners
    /\ Series(r.pnls, r.wins, r.losses, r.most_wins, r.most_losses)
    /\ r.capital + r.lots * r.avg = InitialCapital + Total(r.pnls, Len(r.pnls))
    /\ r.lots = 0 <=> r.avg = 0
    /\ r.lots * r.avg <= 3 * ((r.capital + r.lots * r.avg) \div 10)

\* The larger of two numbers.
LEMMA MaxOfTwo ==
    ASSUME NEW a \in Int, NEW b \in Int
    PROVE  Test!Max({a, b}) = IF a > b THEN a ELSE b
  BY DEF Test!Max

\* The largest number.
LEMMA MaxIs ==
    ASSUME NEW S, S \subseteq Int, NEW t \in S, \A y \in S : y <= t
    PROVE  Test!Max(S) = t
  <1>1. \A x \in S : (\A y \in S : x >= y) => x = t
    OBVIOUS
  <1>2. t \in S /\ \A y \in S : t >= y
    OBVIOUS
  <1> QED BY <1>1, <1>2 DEF Test!Max

\* Prices of lots, with slippage and commission, are above zero.
LEMMA LotPricesAre ==
    ASSUME NEW p \in TestPrices
    PROVE  p \in Nat /\ Test!Value(p) \in Nat \ {0} /\ Test!Bought(p) \in Nat \ {0} /\ Test!Paid(p) \in Nat \ {0}
           /\ Test!Earned(p) \in Nat \ {0}
  <1>1. p \in Nat \ {0}
    BY ConstantsAreSound DEF Test!BacktestAssumption
  <1> QED BY <1>1 DEF Test!Value, Test!Bought, Test!Paid, Test!Earned

\* A sale more adds to the last series or ends it.
LEMMA StreakGrows ==
    ASSUME NEW pnls \in Seq(Int), NEW p \in Int, NEW n, NEW won \in BOOLEAN, Streak(pnls, n, won)
    PROVE  /\ Is(p, won) => Streak(Append(pnls, p), n + 1, won)
           /\ ~Is(p, won) => Streak(Append(pnls, p), 0, won)
  <1> DEFINE q == Append(pnls, p)
             k == Len(pnls)
  <1>1. q \in Seq(Int) /\ Len(q) = k + 1 /\ k \in Nat /\ q[k + 1] = p /\ \A j \in 1..k : q[j] = pnls[j]
    OBVIOUS
  <1> HIDE DEF q, k
  <1>2. /\ n \in 0..k /\ \A j \in (k - n + 1)..k : Is(pnls[j], won)
        /\ n < k => ~Is(pnls[k - n], won)
    BY DEF Streak, k
  <1>3. ASSUME Is(p, won) PROVE Streak(q, n + 1, won)
    <2>1. \A j \in (k + 1 - (n + 1) + 1)..(k + 1) : Is(q[j], won)
      <3>1. ASSUME NEW j \in (k + 1 - (n + 1) + 1)..(k + 1) PROVE Is(q[j], won)
        <4>1. j = k + 1 \/ j \in (k - n + 1)..k
          BY <1>1, <1>2
        <4>2. j \in (k - n + 1)..k => j \in 1..k
          BY <1>1, <1>2
        <4> QED BY <1>1, <1>2, <1>3, <4>1, <4>2
      <3> QED BY <3>1
    <2>2. n + 1 < k + 1 => ~Is(q[k + 1 - (n + 1)], won)
      <3>1. n + 1 < k + 1 => n < k /\ k + 1 - (n + 1) = k - n /\ k - n \in 1..k
        BY <1>1, <1>2
      <3> QED BY <1>1, <1>2, <3>1
    <2>3. n + 1 \in 0..(k + 1)
      BY <1>1, <1>2
    <2> QED BY <1>1, <2>1, <2>2, <2>3 DEF Streak
  <1>4. ASSUME ~Is(p, won) PROVE Streak(q, 0, won)
    <2>1. q[k + 1 - 0] = p /\ (k + 1 - 0 + 1)..(k + 1) = {} /\ 0 \in 0..(k + 1)
      BY <1>1
    <2> QED BY <1>1, <1>4, <2>1 DEF Streak
  <1> QED BY <1>3, <1>4 DEF q

\* The longest series is the longest there was, or the last one.
LEMMA BestGrows ==
    ASSUME NEW pnls \in Seq(Int), NEW p \in Int, NEW n, NEW m, NEW won \in BOOLEAN,
           Streak(pnls, n, won), Best(pnls, m, won)
    PROVE  /\ Is(p, won) => Best(Append(pnls, p), IF m > n + 1 THEN m ELSE n + 1, won)
           /\ ~Is(p, won) => Best(Append(pnls, p), m, won)
  <1> DEFINE q == Append(pnls, p)
             k == Len(pnls)
  <1>1. q \in Seq(Int) /\ Len(q) = k + 1 /\ k \in Nat /\ q[k + 1] = p /\ \A j \in 1..k : q[j] = pnls[j]
    OBVIOUS
  <1> HIDE DEF q, k
  <1>2. /\ n \in 0..k /\ \A j \in (k - n + 1)..k : Is(pnls[j], won)
        /\ n < k => ~Is(pnls[k - n], won)
    BY DEF Streak, k
  <1>3. m \in 0..k /\ Row(pnls, m, won) /\ \A l \in 0..k : Row(pnls, l, won) => l <= m
    BY DEF Best, k
  <1>4. ASSUME NEW l \in 0..k, Row(pnls, l, won) PROVE Row(q, l, won)
    <2>1. PICK i \in 0..(k - l) : \A j \in (i + 1)..(i + l) : Is(pnls[j], won)
      BY <1>4 DEF Row, k
    <2>2. i \in 0..(k + 1 - l) /\ \A j \in (i + 1)..(i + l) : j \in 1..k
      BY <1>1, <2>1
    <2>3. \A j \in (i + 1)..(i + l) : Is(q[j], won)
      BY <1>1, <2>1, <2>2
    <2>4. i \in 0..(Len(q) - l)
      BY <1>1, <2>2
    <2> QED BY <2>3, <2>4 DEF Row
  <1>5. ASSUME NEW l \in 0..(k + 1), Row(q, l, won)
        PROVE  (l <= k /\ Row(pnls, l, won)) \/ (Is(p, won) /\ l <= n + 1) \/ l = 0
    <2>0. PICK i \in 0..(Len(q) - l) : \A j \in (i + 1)..(i + l) : Is(q[j], won)
      BY <1>5 DEF Row
    <2>1. i \in 0..(k + 1 - l) /\ \A j \in (i + 1)..(i + l) : Is(q[j], won)
      BY <1>1, <2>0
    <2>2. CASE i + l <= k
      <3>1. i \in 0..(k - l) /\ \A j \in (i + 1)..(i + l) : j \in 1..k
        BY <1>1, <2>1, <2>2
      <3>2. Row(pnls, l, won)
        BY <1>1, <2>1, <3>1 DEF Row, k
      <3>3. l <= k
        BY <1>1, <2>1, <2>2
      <3> QED BY <3>2, <3>3
    <2>3. CASE i + l = k + 1 /\ l # 0
      <3>1. k + 1 \in (i + 1)..(i + l)
        BY <1>1, <2>1, <2>3
      <3>2. Is(p, won)
        BY <1>1, <2>1, <3>1
      <3>3. ASSUME l > n + 1 PROVE FALSE
        <4>1. n < k /\ k - n \in (i + 1)..(i + l) /\ k - n \in 1..k
          BY <1>1, <1>2, <2>1, <2>3, <3>3
        <4>2. Is(pnls[k - n], won)
          BY <1>1, <2>1, <4>1
        <4> QED BY <1>2, <4>1, <4>2
      <3>4. l <= n + 1
        BY <1>1, <1>2, <3>3
      <3> QED BY <3>2, <3>4
    <2> QED BY <1>1, <2>1, <2>2, <2>3
  <1>6. ASSUME Is(p, won) PROVE Row(q, n + 1, won)
    <2>1. Streak(q, n + 1, won)
      BY <1>6, StreakGrows DEF q
    <2>2. /\ n + 1 \in 0..(k + 1)
          /\ \A j \in (k + 1 - (n + 1) + 1)..(k + 1) : Is(q[j], won)
      BY <1>1, <2>1 DEF Streak
    <2> DEFINE i == k + 1 - (n + 1)
    <2>3. i \in 0..(k + 1 - (n + 1)) /\ i + (n + 1) = k + 1
      BY <1>1, <1>2
    <2>4. \A j \in (i + 1)..(i + (n + 1)) : Is(q[j], won)
      BY <2>2, <2>3
    <2> HIDE DEF i
    <2>5. i \in 0..(Len(q) - (n + 1))
      BY <1>1, <1>2, <2>3
    <2> QED BY <2>4, <2>5 DEF Row
  <1>7. Row(q, m, won)
    BY <1>3, <1>4
  <1>8. ASSUME Is(p, won) PROVE Best(q, IF m > n + 1 THEN m ELSE n + 1, won)
    <2> DEFINE b == IF m > n + 1 THEN m ELSE n + 1
    <2>1. b \in 0..(k + 1) /\ m <= b /\ n + 1 <= b
      BY <1>1, <1>2, <1>3
    <2>2. Row(q, b, won)
      BY <1>6, <1>7, <1>8
    <2> HIDE DEF b
    <2>3. ASSUME NEW l \in 0..(k + 1), Row(q, l, won) PROVE l <= b
      <3>1. l <= m \/ l <= n + 1 \/ l = 0
        BY <1>1, <1>3, <1>5, <2>3
      <3> QED BY <1>1, <1>2, <1>3, <2>1, <3>1
    <2>4. Best(q, b, won)
      BY <1>1, <2>1, <2>2, <2>3 DEF Best
    <2> QED BY <2>4 DEF b
  <1>9. ASSUME ~Is(p, won) PROVE Best(q, m, won)
    <2>1. ASSUME NEW l \in 0..(k + 1), Row(q, l, won) PROVE l <= m
      BY <1>1, <1>3, <1>5, <1>9, <2>1
    <2>2. m \in 0..(k + 1)
      BY <1>1, <1>3
    <2> QED BY <1>1, <1>7, <2>1, <2>2 DEF Best
  <1> QED BY <1>8, <1>9 DEF q


\* The statistics of a sale are those of the sales with it.
LEMMA SeriesGrow ==
    ASSUME NEW pnls \in Seq(Int), NEW p \in Int, NEW w \in Nat, NEW l \in Nat, NEW mw \in Nat, NEW ml \in Nat,
           Series(pnls, w, l, mw, ml)
    PROVE  /\ p > 0 => Series(Append(pnls, p), w + 1, 0, Test!Max({mw, w + 1}), ml)
           /\ ~(p > 0) => Series(Append(pnls, p), 0, l + 1, mw, Test!Max({ml, l + 1}))
  <1>1. /\ Test!Max({mw, w + 1}) = (IF mw > w + 1 THEN mw ELSE w + 1)
        /\ Test!Max({ml, l + 1}) = (IF ml > l + 1 THEN ml ELSE l + 1)
    BY MaxOfTwo
  <1>2. (Is(p, TRUE) <=> p > 0) /\ (Is(p, FALSE) <=> ~(p > 0))
    BY DEF Is
  <1>3. Streak(pnls, w, TRUE) /\ Streak(pnls, l, FALSE) /\ Best(pnls, mw, TRUE) /\ Best(pnls, ml, FALSE)
    BY DEF Series
  <1> DEFINE q == Append(pnls, p)
  <1>4. ASSUME p > 0 PROVE Series(q, w + 1, 0, Test!Max({mw, w + 1}), ml)
    <2>1. Streak(q, w + 1, TRUE) /\ Streak(q, 0, FALSE)
      BY <1>2, <1>3, <1>4, StreakGrows
    <2>2. Best(q, IF mw > w + 1 THEN mw ELSE w + 1, TRUE)
      BY <1>2, <1>3, <1>4, BestGrows
    <2>3. Best(q, ml, FALSE)
      BY <1>2, <1>3, <1>4, BestGrows
    <2> HIDE DEF q
    <2> QED BY <1>1, <2>1, <2>2, <2>3 DEF Series
  <1>5. ASSUME ~(p > 0) PROVE Series(q, 0, l + 1, mw, Test!Max({ml, l + 1}))
    <2>1. Streak(q, 0, TRUE) /\ Streak(q, l + 1, FALSE)
      BY <1>2, <1>3, <1>5, StreakGrows
    <2>2. Best(q, IF ml > l + 1 THEN ml ELSE l + 1, FALSE)
      BY <1>2, <1>3, <1>5, BestGrows
    <2>3. Best(q, mw, TRUE)
      BY <1>2, <1>3, <1>5, BestGrows
    <2> HIDE DEF q
    <2> QED BY <1>1, <2>1, <2>2, <2>3 DEF Series
  <1> QED BY <1>4, <1>5

\* A sale more adds its profit to the sum.
LEMMA ProfitsGrow ==
    ASSUME NEW pnls \in Seq(Int), NEW p \in Int
    PROVE  /\ Total(pnls, Len(pnls)) \in Int
           /\ Total(Append(pnls, p), Len(Append(pnls, p))) = Total(pnls, Len(pnls)) + p
  <1> DEFINE q == Append(pnls, p)
             k == Len(pnls)
  <1>1. Len(q) = k + 1 /\ k \in Nat /\ q[k + 1] = p /\ \A j \in 1..k : q[j] = pnls[j] /\ pnls[j] \in Int
    OBVIOUS
  <1> HIDE DEF q, k
  <1>2. Total(q, k + 1) = Total(pnls, k) + q[k + 1]
    BY <1>1, TotalAppend
  <1>3. Total(pnls, k) \in Int
    BY <1>1, TotalType
  <1> QED BY <1>1, <1>2, <1>3 DEF q, k

\* step: only the highest price since the purchase and the equity change.
LEMMA SteppedFacts ==
    ASSUME NEW r, RunnerInv(r), NEW bar \in Test!Bars
    PROVE  LET s == Test!Stepped(r, bar) IN
           /\ RunnerInv(s) /\ s.capital = r.capital /\ s.lots = r.lots /\ s.avg = r.avg
           /\ s.top = IF r.lots > 0 /\ Test!Value(bar.high) > r.top THEN Test!Value(bar.high) ELSE r.top
           /\ s.pnls = r.pnls
  <1>1. bar.high \in TestPrices /\ bar.low \in TestPrices /\ bar.close \in TestPrices
    BY DEF Test!Bars
  <1>2. /\ Test!Value(bar.high) \in Nat /\ Test!Value(bar.close) \in Nat /\ bar.close \in Nat
    BY <1>1, LotPricesAre
  <1>3. r \in Runners
    BY DEF RunnerInv
  <1> DEFINE equity == r.capital + r.lots * Test!Value(bar.close)
             top == IF r.lots > 0 THEN Test!Max({r.top, Test!Value(bar.high)}) ELSE r.top
             s == Test!Stepped(r, bar)
  <1>4. equity \in Int /\ top \in Nat
    <2>1. r.capital \in Nat /\ r.lots \in Nat /\ r.top \in Nat
      BY <1>3 DEF Runners
    <2>2. r.lots * Test!Value(bar.close) \in Nat
      BY <1>2, <2>1
    <2> QED BY <1>2, <2>1, <2>2, MaxOfTwo
  <1>5. s = [r EXCEPT !.top = top, !.equity = equity, !.quote = bar.close,
                      !.moves = r.moves \/ equity # InitialCapital]
    BY DEF Test!Stepped
  <1>6. top = IF r.lots > 0 /\ Test!Value(bar.high) > r.top THEN Test!Value(bar.high) ELSE r.top
    <2>1. r.top \in Nat
      BY <1>3 DEF Runners
    <2> QED BY <1>2, <2>1, MaxOfTwo
  <1> HIDE DEF equity, top, s
  <1>7. s \in Runners
    <2> DEFINE m == (r.moves \/ equity # InitialCapital)
    <2>1. m \in BOOLEAN
      OBVIOUS
    <2> HIDE DEF m
    <2>2. [r EXCEPT !.top = top, !.equity = equity, !.quote = bar.close, !.moves = m] \in Runners
      BY <1>2, <1>3, <1>4, <2>1 DEF Runners
    <2> QED BY <1>5, <2>2 DEF m
  <1>8. /\ s.capital = r.capital /\ s.lots = r.lots /\ s.avg = r.avg /\ s.top = top /\ s.pnls = r.pnls
        /\ s.wins = r.wins /\ s.losses = r.losses /\ s.most_wins = r.most_wins /\ s.most_losses = r.most_losses
    BY <1>3, <1>5 DEF Runners
  <1>9. RunnerInv(s)
    BY <1>7, <1>8 DEF RunnerInv
  <1> QED BY <1>6, <1>8, <1>9 DEF s

\* buy: what is paid for a lot is its cost, and at most 30% of the capital are paid.
LEMMA EnteredFacts ==
    ASSUME NEW r, RunnerInv(r), r.lots = 0, NEW p \in TestPrices, NEW size \in Nat, Test!Affordable(r, p, size)
    PROVE  LET s == Test!Entered(r, p, size) IN
           RunnerInv(s) /\ s.lots > 0 /\ s.avg = Test!Paid(p) /\ s.top = Test!Paid(p)
  <1> DEFINE lots == ((r.capital \div 20) * size) \div Test!Bought(p)
             paid == Test!Paid(p)
             s == Test!Entered(r, p, size)
  <1>1. r \in Runners /\ r.capital \in Nat /\ r.avg \in Nat /\ r.pnls \in Seq(Int)
    BY DEF RunnerInv, Runners
  <1>2. paid \in Nat \ {0} /\ Test!Bought(p) \in Nat \ {0}
    BY LotPricesAre
  <1>3. lots \in Nat
    <2>1. (r.capital \div 20) * size \in Nat
      <3>1. r.capital \div 20 \in Nat
        BY <1>1
      <3> QED BY <3>1
    <2> QED BY <1>2, <2>1, Division
  <1>4. lots > 0 /\ lots * paid <= 3 * (r.capital \div 10)
    BY DEF Test!Affordable
  <1>5. s = [r EXCEPT !.capital = r.capital - lots * paid, !.lots = lots, !.avg = paid, !.top = paid]
    BY DEF Test!Entered
  <1> HIDE DEF lots, paid, s
  <1>6. lots * paid \in Nat /\ r.capital - lots * paid \in Nat
    <2>1. lots * paid \in Nat
      BY <1>2, <1>3
    <2> DEFINE cost == lots * paid
    <2> HIDE DEF cost
    <2>2. cost \in Nat /\ cost <= 3 * (r.capital \div 10)
      BY <1>4, <2>1 DEF cost
    <2>3. 3 * (r.capital \div 10) <= r.capital
      BY <1>1
    <2>4. r.capital - cost \in Nat
      BY <1>1, <2>2, <2>3
    <2> QED BY <2>1, <2>4 DEF cost
  <1>7. s \in Runners
    <2>1. [r EXCEPT !.capital = r.capital - lots * paid, !.lots = lots, !.avg = paid, !.top = paid] \in Runners
      BY <1>1, <1>2, <1>3, <1>6 DEF Runners
    <2> QED BY <1>5, <2>1
  <1>8. /\ s.capital = r.capital - lots * paid /\ s.lots = lots /\ s.avg = paid /\ s.top = paid /\ s.pnls = r.pnls
        /\ s.wins = r.wins /\ s.losses = r.losses /\ s.most_wins = r.most_wins /\ s.most_losses = r.most_losses
    BY <1>1, <1>5 DEF Runners
  <1>9. s.capital + s.lots * s.avg = r.capital
    BY <1>1, <1>6, <1>8
  <1>10. r.capital + r.lots * r.avg = r.capital
    BY <1>1
  <1>11. RunnerInv(s)
    BY <1>2, <1>3, <1>4, <1>7, <1>8, <1>9, <1>10 DEF RunnerInv
  <1> QED BY <1>3, <1>4, <1>8, <1>11 DEF s, paid

\* sell: the profit of the sale goes into the books and the statistics, the position is gone.
LEMMA SoldFacts ==
    ASSUME NEW r, RunnerInv(r), NEW p, Test!Earned(p) \in Nat
    PROVE  RunnerInv(Test!Sold(r, p)) /\ Test!Sold(r, p).lots = 0
  <1> DEFINE pnl == r.lots * (Test!Earned(p) - r.avg)
             b == Test!Booked(r, pnl)
             capital == r.capital + r.lots * Test!Earned(p)
             s == Test!Sold(r, p)
  <1>1. /\ r \in Runners /\ r.capital \in Nat /\ r.lots \in Nat /\ r.avg \in Nat /\ r.pnls \in Seq(Int)
        /\ r.wins \in Nat /\ r.losses \in Nat /\ r.most_wins \in Nat /\ r.most_losses \in Nat
    BY DEF RunnerInv, Runners
  <1>2. /\ pnl \in Int /\ capital \in Nat
        /\ capital = r.capital + r.lots * r.avg + pnl
    <2> DEFINE e == Test!Earned(p)
    <2> HIDE DEF e
    <2>1. e \in Nat
      BY DEF e
    <2>2. /\ r.lots * (e - r.avg) = r.lots * e - r.lots * r.avg
          /\ r.lots * e \in Nat /\ r.lots * r.avg \in Nat
      BY <1>1, <2>1
    <2>3. pnl = r.lots * e - r.lots * r.avg /\ capital = r.capital + r.lots * e
      BY <2>2 DEF e
    <2> DEFINE x == r.lots * e
               y == r.lots * r.avg
    <2>4. x \in Nat /\ y \in Nat /\ pnl = x - y /\ capital = r.capital + x
      BY <2>2, <2>3
    <2> HIDE DEF pnl, capital, x, y
    <2>5. pnl \in Int /\ capital \in Nat /\ capital = r.capital + y + pnl
      BY <1>1, <2>4
    <2> QED BY <2>5 DEF y
  <1>3. /\ Test!Max({r.most_wins, r.wins + 1}) \in Nat /\ Test!Max({r.most_losses, r.losses + 1}) \in Nat
    <2>1. r.wins + 1 \in Nat /\ r.losses + 1 \in Nat
      BY <1>1
    <2>2. \A w, v \in Nat : Test!Max({w, v}) \in Nat
      BY MaxOfTwo
    <2> QED BY <1>1, <2>1, <2>2
  <1>4. Series(r.pnls, r.wins, r.losses, r.most_wins, r.most_losses)
    BY DEF RunnerInv
  <1> HIDE DEF pnl
  <1>5. /\ b \in Runners /\ b.capital = r.capital /\ b.pnls = Append(r.pnls, pnl)
        /\ Series(b.pnls, b.wins, b.losses, b.most_wins, b.most_losses)
    <2>1. CASE pnl > 0
      <3>1. b = [r EXCEPT !.pnls = Append(r.pnls, pnl), !.wins = r.wins + 1, !.losses = 0,
                          !.most_wins = Test!Max({r.most_wins, r.wins + 1})]
        BY <2>1 DEF Test!Booked
      <3>2. b \in Runners
        <4> DEFINE m == Test!Max({r.most_wins, r.wins + 1})
                   q == Append(r.pnls, pnl)
        <4>1. q \in Seq(Int) /\ m \in Nat /\ r.wins + 1 \in Nat
          BY <1>1, <1>2, <1>3
        <4> HIDE DEF m, q
        <4>2. [r EXCEPT !.pnls = q, !.wins = r.wins + 1, !.losses = 0, !.most_wins = m] \in Runners
          BY <1>1, <4>1 DEF Runners
        <4> QED BY <3>1, <4>2 DEF m, q
      <3>3. /\ b.capital = r.capital /\ b.pnls = Append(r.pnls, pnl) /\ b.wins = r.wins + 1 /\ b.losses = 0
            /\ b.most_wins = Test!Max({r.most_wins, r.wins + 1}) /\ b.most_losses = r.most_losses
        BY <1>1, <3>1 DEF Runners
      <3> HIDE DEF b
      <3>4. Series(Append(r.pnls, pnl), r.wins + 1, 0, Test!Max({r.most_wins, r.wins + 1}), r.most_losses)
        BY <1>1, <1>2, <1>4, <2>1, SeriesGrow
      <3> QED BY <3>2, <3>3, <3>4
    <2>2. CASE ~(pnl > 0)
      <3>1. b = [r EXCEPT !.pnls = Append(r.pnls, pnl), !.losses = r.losses + 1, !.wins = 0,
                          !.most_losses = Test!Max({r.most_losses, r.losses + 1})]
        BY <2>2 DEF Test!Booked
      <3>2. b \in Runners
        <4> DEFINE m == Test!Max({r.most_losses, r.losses + 1})
                   q == Append(r.pnls, pnl)
        <4>1. q \in Seq(Int) /\ m \in Nat /\ r.losses + 1 \in Nat
          BY <1>1, <1>2, <1>3
        <4> HIDE DEF m, q
        <4>2. [r EXCEPT !.pnls = q, !.losses = r.losses + 1, !.wins = 0, !.most_losses = m] \in Runners
          BY <1>1, <4>1 DEF Runners
        <4> QED BY <3>1, <4>2 DEF m, q
      <3>3. /\ b.capital = r.capital /\ b.pnls = Append(r.pnls, pnl) /\ b.losses = r.losses + 1 /\ b.wins = 0
            /\ b.most_losses = Test!Max({r.most_losses, r.losses + 1}) /\ b.most_wins = r.most_wins
        BY <1>1, <3>1 DEF Runners
      <3> HIDE DEF b
      <3>4. Series(Append(r.pnls, pnl), 0, r.losses + 1, r.most_wins, Test!Max({r.most_losses, r.losses + 1}))
        BY <1>1, <1>2, <1>4, <2>2, SeriesGrow
      <3> QED BY <3>2, <3>3, <3>4
    <2> QED BY <2>1, <2>2
  <1>6. s = [b EXCEPT !.capital = b.capital + r.lots * Test!Earned(p), !.lots = 0, !.avg = 0, !.top = 0]
    BY DEF Test!Sold, pnl
  <1> HIDE DEF b, s
  <1>7. s = [b EXCEPT !.capital = capital, !.lots = 0, !.avg = 0, !.top = 0]
    BY <1>5, <1>6
  <1> HIDE DEF capital
  <1>8. s \in Runners
    <2>1. [b EXCEPT !.capital = capital, !.lots = 0, !.avg = 0, !.top = 0] \in Runners
      BY <1>2, <1>5 DEF Runners
    <2> QED BY <1>7, <2>1
  <1>9. /\ s.capital = capital /\ s.lots = 0 /\ s.avg = 0 /\ s.pnls = b.pnls
        /\ s.wins = b.wins /\ s.losses = b.losses /\ s.most_wins = b.most_wins /\ s.most_losses = b.most_losses
    BY <1>5, <1>7 DEF Runners
  <1>10. s.capital + s.lots * s.avg = InitialCapital + Total(s.pnls, Len(s.pnls))
    <2>1. r.capital + r.lots * r.avg = InitialCapital + Total(r.pnls, Len(r.pnls))
      BY DEF RunnerInv
    <2>2. /\ Total(r.pnls, Len(r.pnls)) \in Int
          /\ Total(s.pnls, Len(s.pnls)) = Total(r.pnls, Len(r.pnls)) + pnl
      BY <1>1, <1>2, <1>5, <1>9, ProfitsGrow
    <2>3. InitialCapital \in Int /\ s.capital + s.lots * s.avg = capital
      BY <1>2, <1>9, ConstantsAreSound DEF Test!BacktestAssumption
    <2> QED BY <1>2, <2>1, <2>2, <2>3
  <1>11. s.lots * s.avg <= 3 * ((s.capital + s.lots * s.avg) \div 10)
    <2>1. s.lots * s.avg = 0 /\ s.capital + s.lots * s.avg = capital
      BY <1>2, <1>9
    <2>2. 0 <= 3 * (capital \div 10)
      BY <1>2
    <2> QED BY <2>1, <2>2
  <1> QED BY <1>5, <1>8, <1>9, <1>10, <1>11 DEF RunnerInv, s


\* The highest price since the purchase, as the bars have it.
IsTop(t, avg, s, i) == LET tops == {avg} \cup {Test!Value(s[j].high) : j \in 1..i} IN
                       t \in tops /\ \A y \in tops : y <= t

\* An open position knows its highest price, and has not been below its stop on any bar since.
StopInv(r, s) ==
    r.lots > 0 =>
        /\ IsTop(r.top, r.avg, s, Len(s))
        /\ \A i \in 1..Len(s) : \E t \in Nat :
               /\ IsTop(t, r.avg, s, i)
               /\ Test!Value(s[i].low) > Test!Less5(r.avg)
               /\ t > r.avg + 3 * (r.avg \div 20) => Test!Value(s[i].low) > Test!Less5(t)

TestInv == /\ RunnerInv(runner) /\ StopInv(runner, since)
           /\ since \in Seq(Test!Bars) /\ strategy \in Test!Strategies

\* The runner of a backtest that begins.
LEMMA NewRunnerFacts == RunnerInv(Test!NewRunner) /\ Test!NewRunner.lots = 0
  <1> DEFINE r == Test!NewRunner
  <1>1. InitialCapital \in Nat \ {0}
    BY ConstantsAreSound DEF Test!BacktestAssumption
  <1>2. r \in Runners /\ r.capital = InitialCapital /\ r.lots = 0 /\ r.avg = 0 /\ r.pnls = <<>>
        /\ r.wins = 0 /\ r.losses = 0 /\ r.most_wins = 0 /\ r.most_losses = 0
    BY <1>1 DEF Test!NewRunner, Runners
  <1>3. Total(<<>>, Len(<<>>)) = 0
    <2>1. Len(<<>>) = 0
      OBVIOUS
    <2> QED BY <2>1, TotalSteps
  <1>4. \A won \in BOOLEAN : Streak(<<>>, 0, won) /\ Best(<<>>, 0, won)
    <2>1. Len(<<>>) = 0 /\ (1..0) = {} /\ 0 \in 0..0 /\ \A m \in 0..0 : m <= 0
      OBVIOUS
    <2>2. \A won \in BOOLEAN : Row(<<>>, 0, won)
      <3>1. 0 \in 0..(Len(<<>>) - 0) /\ (0 + 1)..(0 + 0) = {}
        BY <2>1
      <3> QED BY <3>1 DEF Row
    <2>3. (Len(<<>>) - 0 + 1)..Len(<<>>) = {}
      BY <2>1
    <2> QED BY <2>1, <2>2, <2>3 DEF Streak, Best
  <1>5. Series(<<>>, 0, 0, 0, 0)
    BY <1>4 DEF Series
  <1> HIDE DEF r
  <1>6. RunnerInv(r)
    <2>1. r.capital + r.lots * r.avg = InitialCapital + 0 /\ r.lots * r.avg = 0
          /\ 0 <= 3 * ((r.capital + r.lots * r.avg) \div 10)
      BY <1>1, <1>2
    <2>2. r.capital + r.lots * r.avg = InitialCapital + Total(r.pnls, Len(r.pnls))
      BY <1>2, <1>3, <2>1
    <2> QED BY <1>2, <1>5, <2>1, <2>2 DEF RunnerInv
  <1> QED BY <1>2, <1>6 DEF r

\* A bar more, which may be higher than all before.
LEMMA TopGrows ==
    ASSUME NEW s \in Seq(Test!Bars), NEW bar \in Test!Bars, NEW avg \in Nat, NEW t \in Nat, IsTop(t, avg, s, Len(s))
    PROVE  LET high == Test!Value(bar.high)
           IN  IsTop(IF high > t THEN high ELSE t, avg, Append(s, bar), Len(s) + 1)
  <1> DEFINE q == Append(s, bar)
             k == Len(s)
             high == Test!Value(bar.high)
             new == IF high > t THEN high ELSE t
             old == {avg} \cup {Test!Value(s[j].high) : j \in 1..k}
             tops == {avg} \cup {Test!Value(q[j].high) : j \in 1..(k + 1)}
  <1>1. k \in Nat /\ q[k + 1] = bar /\ \A j \in 1..k : q[j] = s[j]
    OBVIOUS
  <1>2. high \in Nat
    BY LotPricesAre DEF Test!Bars
  <1>3. tops = old \cup {high}
    <2> HIDE DEF q, k
    <2>1. 1..(k + 1) = (1..k) \cup {k + 1}
      BY <1>1
    <2>2. \A j \in 1..k : q[j].high = s[j].high
      BY <1>1
    <2>3. q[k + 1].high = bar.high
      BY <1>1
    <2> QED BY <2>1, <2>2, <2>3
  <1>4. t \in old /\ \A y \in old : y <= t
    BY DEF IsTop
  <1>5. old \subseteq Int
    <2>1. \A j \in 1..k : s[j] \in Test!Bars
      OBVIOUS
    <2>2. \A j \in 1..k : s[j].high \in TestPrices
      BY <2>1 DEF Test!Bars
    <2> HIDE DEF k
    <2>3. \A j \in 1..k : Test!Value(s[j].high) \in Int
      BY <2>2, LotPricesAre
    <2> QED BY <1>1, <2>3
  <1> HIDE DEF old, high
  <1>6. new \in old \cup {high} /\ \A y \in old \cup {high} : y <= new
    BY <1>2, <1>4, <1>5
  <1> HIDE DEF tops, new
  <1>7. new \in tops /\ \A y \in tops : y <= new
    BY <1>3, <1>6
  <1> QED BY <1>7 DEF IsTop, tops, new, high, q, k

\* The top of fewer bars is that of the same bars in a longer sequence.
LEMMA TopStays ==
    ASSUME NEW s \in Seq(Test!Bars), NEW bar, NEW avg, NEW i \in 0..Len(s), NEW t, IsTop(t, avg, s, i)
    PROVE  IsTop(t, avg, Append(s, bar), i)
  <1>1. \A j \in 1..i : Append(s, bar)[j] = s[j]
    OBVIOUS
  <1>2. {Test!Value(s[j].high) : j \in 1..i} = {Test!Value(Append(s, bar)[j].high) : j \in 1..i}
    BY <1>1
  <1> QED BY <1>2 DEF IsTop

\* A position that was just bought has its cost for its highest price.
LEMMA FirstTop ==
    ASSUME NEW avg \in Nat
    PROVE  IsTop(avg, avg, <<>>, Len(<<>>))
  <1>1. 1..Len(<<>>) = {}
    OBVIOUS
  <1>2. {Test!Value(<<>>[j].high) : j \in 1..Len(<<>>)} = {}
    BY <1>1
  <1> QED BY <1>2 DEF IsTop

\* A bar: the price moves, the position may be sold at its stop or by the signal, or one is bought.
LEMMA BarStep ==
    ASSUME TestInv, NEW bar \in Test!Bars, NEW signal \in Test!Signals[strategy], Test!Bar(bar, signal)
    PROVE  TestInv'
  <1> DEFINE s == Test!Stepped(runner, bar)
             e == Test!Exited(s, bar)
             r == Test!Signalled(e, bar, signal)
  <1>1. /\ RunnerInv(s) /\ s.capital = runner.capital /\ s.lots = runner.lots /\ s.avg = runner.avg
        /\ s.top = IF runner.lots > 0 /\ Test!Value(bar.high) > runner.top THEN Test!Value(bar.high) ELSE runner.top
    BY SteppedFacts DEF TestInv
  <1>2. /\ runner' = r /\ strategy' = strategy
        /\ since' = IF runner.lots > 0 /\ e.lots > 0 /\ r.lots > 0 THEN Append(since, bar) ELSE <<>>
    BY DEF Test!Bar
  <1>3. bar.close \in TestPrices /\ Test!Earned(bar.close) \in Nat
    BY LotPricesAre DEF Test!Bars
  <1>4. e = IF s.lots > 0 /\ Test!Stopped(s, bar) THEN Test!Sold(s, bar.close) ELSE s
    BY DEF Test!Exited
  <1>5. RunnerInv(e) /\ (e = s \/ e.lots = 0) /\ (s.lots > 0 /\ Test!Stopped(s, bar) => e.lots = 0)
    <2> HIDE DEF s, e
    <2> QED BY <1>1, <1>3, <1>4, SoldFacts
  <1>6. signal.size \in Nat
    BY DEF TestInv, Test!Signals, Test!Strategies, Test!Hold, Test!Sell, Test!Buy
  <1> HIDE DEF s, e
  <1>7. /\ RunnerInv(r)
        /\ \/ r = e
           \/ r.lots = 0
           \/ e.lots = 0 /\ r.lots > 0 /\ r.top = r.avg /\ r.avg \in Nat
    <2>1. CASE signal.action = "BUY" /\ e.lots = 0 /\ Test!Affordable(e, bar.close, signal.size)
      <3>1. r = Test!Entered(e, bar.close, signal.size)
        BY <2>1 DEF Test!Signalled
      <3>2. Test!Paid(bar.close) \in Nat
        BY <1>3, LotPricesAre
      <3> HIDE DEF r
      <3> QED BY <1>3, <1>5, <1>6, <2>1, <3>1, <3>2, EnteredFacts
    <2>2. CASE signal.action = "SELL" /\ e.lots > 0
      <3>1. r = Test!Sold(e, bar.close)
        BY <2>2 DEF Test!Signalled
      <3> HIDE DEF r
      <3> QED BY <1>3, <1>5, <3>1, SoldFacts
    <2>3. CASE /\ ~(signal.action = "BUY" /\ e.lots = 0 /\ Test!Affordable(e, bar.close, signal.size))
               /\ ~(signal.action = "SELL" /\ e.lots > 0)
      <3>1. r = e
        BY <2>3 DEF Test!Signalled
      <3> HIDE DEF r
      <3> QED BY <1>5, <3>1
    <2> QED BY <2>1, <2>2, <2>3
  <1> HIDE DEF r
  <1>8. r.lots \in Nat /\ r.avg \in Nat /\ runner.avg \in Nat /\ runner.top \in Nat /\ runner.lots \in Nat /\ since \in Seq(Test!Bars)
    BY <1>7 DEF RunnerInv, Runners, TestInv
  <1>9. since' \in Seq(Test!Bars)
    BY <1>2, <1>8
  <1>10. StopInv(r, since')
    <2>1. CASE r.lots = 0
      BY <2>1 DEF StopInv
    <2>2. CASE r.lots > 0 /\ e.lots = 0
      <3>1. since' = <<>> /\ r.top = r.avg
        <4>1. r # e
          BY <2>2
        <4> QED BY <1>2, <1>7, <2>2, <4>1
      <3>2. IsTop(r.top, r.avg, since', Len(since')) /\ 1..Len(since') = {}
        BY <1>8, <3>1, FirstTop
      <3> QED BY <3>2 DEF StopInv
    <2>3. CASE r.lots > 0 /\ e.lots # 0
      <3>1. r = e /\ e = s /\ ~Test!Stopped(s, bar) /\ runner.lots > 0
        BY <1>1, <1>5, <1>7, <1>8, <2>3
      <3>2. since' = Append(since, bar)
        BY <1>1, <1>2, <2>3, <3>1
      <3> DEFINE n == Len(since)
                 high == Test!Value(bar.high)
                 top == IF high > runner.top THEN high ELSE runner.top
      <3>3. n \in Nat /\ Len(since') = n + 1 /\ since'[n + 1] = bar /\ \A i \in 1..n : since'[i] = since[i]
        BY <1>8, <3>2
      <3>4. r.avg = runner.avg /\ r.top = top
        BY <1>1, <3>1
      <3>5. IsTop(runner.top, runner.avg, since, n)
        BY <3>1 DEF TestInv, StopInv
      <3>6. IsTop(top, runner.avg, since', n + 1)
        BY <1>8, <3>2, <3>5, TopGrows
      <3>7. /\ Test!Value(bar.low) > Test!Less5(runner.avg)
            /\ top > runner.avg + 3 * (runner.avg \div 20) => Test!Value(bar.low) > Test!Less5(top)
        <4>1. /\ ~(Test!Value(bar.low) <= Test!Less5(runner.avg))
              /\ ~(top > runner.avg + 3 * (runner.avg \div 20) /\ Test!Value(bar.low) <= Test!Less5(top))
          BY <1>1, <3>1, <3>4 DEF Test!Stopped
        <4>2. Test!Value(bar.low) \in Int /\ high \in Nat
          BY LotPricesAre DEF Test!Bars
        <4>3. top \in Nat
          BY <1>8, <4>2
        <4>4. Test!Less5(runner.avg) \in Int /\ Test!Less5(top) \in Int
          BY <1>8, <4>3 DEF Test!Less5
        <4> HIDE DEF top
        <4> QED BY <4>1, <4>2, <4>3, <4>4
      <3>8. top \in Nat
        <4>1. high \in Nat
          BY LotPricesAre DEF Test!Bars
        <4> QED BY <1>8, <4>1
      <3> HIDE DEF top, high
      <3>9. ASSUME NEW i \in 1..(n + 1)
            PROVE  \E t \in Nat :
                       /\ IsTop(t, r.avg, since', i)
                       /\ Test!Value(since'[i].low) > Test!Less5(r.avg)
                       /\ t > r.avg + 3 * (r.avg \div 20) => Test!Value(since'[i].low) > Test!Less5(t)
        <4>1. CASE i = n + 1
          BY <3>3, <3>4, <3>6, <3>7, <3>8, <4>1
        <4>2. CASE i \in 1..n
          <5>1. PICK t \in Nat :
                       /\ IsTop(t, runner.avg, since, i)
                       /\ Test!Value(since[i].low) > Test!Less5(runner.avg)
                       /\ t > runner.avg + 3 * (runner.avg \div 20) => Test!Value(since[i].low) > Test!Less5(t)
            BY <3>1, <4>2 DEF TestInv, StopInv
          <5>2. IsTop(t, runner.avg, since', i)
            BY <1>8, <3>2, <3>3, <4>2, <5>1, TopStays
          <5>3. since'[i] = since[i]
            BY <3>3, <4>2
          <5> QED BY <3>4, <5>1, <5>2, <5>3
        <4>3. i = n + 1 \/ i \in 1..n
          BY <3>3
        <4> QED BY <4>1, <4>2, <4>3
      <3> QED BY <3>3, <3>4, <3>6, <3>9 DEF StopInv
    <2> QED BY <1>5, <1>8, <2>1, <2>2, <2>3
  <1> QED BY <1>2, <1>7, <1>9, <1>10 DEF TestInv

\* The next backtest begins with a new runner.
LEMMA NextTest ==
    ASSUME TestInv, Test!NextBacktest, strategy' = strategy
    PROVE  TestInv'
  <1>1. runner' = Test!NewRunner /\ since' = <<>>
    BY DEF Test!NextBacktest
  <1>2. RunnerInv(runner') /\ StopInv(runner', since')
    BY <1>1, NewRunnerFacts DEF StopInv
  <1> QED BY <1>1, <1>2 DEF TestInv

\* The last one ends with a sale.
LEMMA LastTest ==
    ASSUME TestInv, Test!LastBacktest, strategy' = strategy
    PROVE  TestInv'
  <1>1. runner' = Test!Finalized(runner) /\ since' = <<>>
    BY DEF Test!LastBacktest
  <1>2. RunnerInv(runner) /\ runner.quote \in Nat /\ runner.lots \in Nat
    BY DEF TestInv, RunnerInv, Runners
  <1>3. Test!Earned(runner.quote) \in Nat
    BY <1>2 DEF Test!Earned
  <1>4. RunnerInv(runner') /\ ~(runner'.lots > 0)
    BY <1>1, <1>2, <1>3, SoldFacts DEF Test!Finalized
  <1>5. StopInv(runner', since')
    BY <1>4 DEF StopInv
  <1> QED BY <1>1, <1>4, <1>5 DEF TestInv

\* At first nothing is bought.
LEMMA TestInit == Test!Init => TestInv
  BY NewRunnerFacts DEF Test!Init, TestInv, StopInv

\* Every step of a backtest keeps its books and its stops.
LEMMA TestStep == TestInv /\ [Test!Next]_testVars => TestInv'
  <1> SUFFICES ASSUME TestInv, [Test!Next]_testVars PROVE TestInv'
    OBVIOUS
  <1>1. CASE Test!FinishPlain
    BY <1>1, LastTest DEF Test!FinishPlain
  <1>2. CASE Test!FinishCombination
    BY <1>2, LastTest, NextTest DEF Test!FinishCombination
  <1>3. CASE Test!FinishWindow
    BY <1>3, LastTest, NextTest DEF Test!FinishWindow
  <1>4. CASE Test!Done \/ UNCHANGED testVars
    <2>1. runner' = runner /\ since' = since /\ strategy' = strategy
      BY <1>4 DEF Test!Done, Test!vars, testVars
    <2> QED BY <2>1 DEF TestInv
  <1> QED BY <1>1, <1>2, <1>3, <1>4, BarStep DEF Test!Next

\* The books and the longest series are those of the property.
LEMMA TestHolds == TestInv => Test!BooksClose /\ Test!PositionsAreSound
  <1> SUFFICES ASSUME TestInv PROVE Test!BooksClose /\ Test!PositionsAreSound
    OBVIOUS
  <1>1. /\ RunnerInv(runner) /\ runner.pnls \in Seq(Int) /\ runner.lots \in Nat /\ runner.avg \in Nat
        /\ since \in Seq(Test!Bars)
    BY DEF TestInv, RunnerInv, Runners
  <1>2. Test!Total(runner.pnls, Len(runner.pnls)) = Total(runner.pnls, Len(runner.pnls))
    BY DEF Test!Total, Total
  <1>3. ASSUME NEW won \in BOOLEAN, NEW n, Best(runner.pnls, n, won)
        PROVE  n = Test!Longest(won)
    <2> DEFINE S == {m \in 0..Len(runner.pnls) :
                        \E i \in 0..(Len(runner.pnls) - m) : \A j \in (i + 1)..(i + m) : (runner.pnls[j] > 0) = won}
    <2>1. S = {m \in 0..Len(runner.pnls) : Row(runner.pnls, m, won)}
      BY DEF Row, Is
    <2>2. S \subseteq Int
      OBVIOUS
    <2>3. n \in S /\ \A y \in S : y <= n
      <3> HIDE DEF S
      <3> QED BY <1>3, <2>1 DEF Best
    <2>4. Test!Max(S) = n
      <3> HIDE DEF S
      <3> QED BY <2>2, <2>3, MaxIs
    <2> QED BY <2>4 DEF Test!Longest
  <1>4. Test!BooksClose
    <2>1. Best(runner.pnls, runner.most_wins, TRUE) /\ Best(runner.pnls, runner.most_losses, FALSE)
      BY <1>1 DEF RunnerInv, Series
    <2>2. runner.capital + runner.lots * runner.avg = InitialCapital + Total(runner.pnls, Len(runner.pnls))
      BY <1>1 DEF RunnerInv
    <2> QED BY <1>2, <1>3, <2>1, <2>2 DEF Test!BooksClose
  <1>5. ASSUME NEW i \in 1..Len(since), NEW t \in Nat, IsTop(t, runner.avg, since, i)
        PROVE  Test!Max({runner.avg} \cup {Test!Value(since[j].high) : j \in 1..i}) = t
    <2> DEFINE tops == {runner.avg} \cup {Test!Value(since[j].high) : j \in 1..i}
    <2>1. t \in tops /\ \A y \in tops : y <= t
      BY <1>5 DEF IsTop
    <2>2. tops \subseteq Int
      <3>1. \A j \in 1..i : since[j] \in Test!Bars
        BY <1>1
      <3>2. \A j \in 1..i : Test!Value(since[j].high) \in Int
        BY <3>1, LotPricesAre DEF Test!Bars
      <3> QED BY <1>1, <3>2
    <2> HIDE DEF tops
    <2>3. Test!Max(tops) = t
      BY <2>1, <2>2, MaxIs
    <2> QED BY <2>3 DEF tops
  <1>6. Test!PositionsAreSound
    <2>1. runner.lots * runner.avg <= 3 * ((runner.capital + runner.lots * runner.avg) \div 10)
      BY <1>1 DEF RunnerInv
    <2>2. ASSUME runner.lots > 0, NEW i \in 1..Len(since)
          PROVE  LET top == Test!Max({runner.avg} \cup {Test!Value(since[j].high) : j \in 1..i}) IN
                 /\ Test!Value(since[i].low) > Test!Less5(runner.avg)
                 /\ top > runner.avg + 3 * (runner.avg \div 20) => Test!Value(since[i].low) > Test!Less5(top)
      <3>1. PICK t \in Nat :
                       /\ IsTop(t, runner.avg, since, i)
                       /\ Test!Value(since[i].low) > Test!Less5(runner.avg)
                       /\ t > runner.avg + 3 * (runner.avg \div 20) => Test!Value(since[i].low) > Test!Less5(t)
        BY <2>2 DEF TestInv, StopInv
      <3> DEFINE top == Test!Max({runner.avg} \cup {Test!Value(since[j].high) : j \in 1..i})
      <3>2. top = t
        BY <1>5, <3>1
      <3> HIDE DEF top
      <3>3. /\ Test!Value(since[i].low) > Test!Less5(runner.avg)
            /\ top > runner.avg + 3 * (runner.avg \div 20) => Test!Value(since[i].low) > Test!Less5(top)
        BY <3>1, <3>2
      <3> QED BY <3>3 DEF top
    <2>3. DOMAIN since = 1..Len(since)
      BY <1>1
    <2> QED BY <2>1, <2>2, <2>3 DEF Test!PositionsAreSound
  <1> QED BY <1>4, <1>6

----------------------------------------------------------------------------
(* PaperAccounts *)

Orders == [symbol : Shares, action : {"BUY", "SELL", "NOTE"}, price : SharePrices, quantity : Nat]
PaperBooks == [capital : Nat, positions : [Shares -> [quantity : Nat, basis : Nat]], orders : Seq(Orders)]

\* An account that is there is explained by its orders.
Fine(a) == a = Accounts!NoAccount \/ Accounts!Explained(a)

\* While the file has all the orders, both accounts are.
AccountsInv == /\ account \in PaperBooks /\ file \in PaperBooks
               /\ whole => Fine(account)
               /\ whole /\ Len(file.orders) < KeptOrders => Fine(file)

\* The amounts of an order.
LEMMA Amounts ==
    ASSUME NEW o \in Orders
    PROVE  /\ Accounts!Cost(o) \in Nat /\ Accounts!Commission(o) \in Nat
           /\ Accounts!Commission(o) <= Accounts!Cost(o) /\ o.quantity \in Nat
           /\ Accounts!Earned(o) = CASE o.action = "BUY"  -> -(Accounts!Cost(o) + Accounts!Commission(o))
                                     [] o.action = "SELL" -> Accounts!Cost(o) - Accounts!Commission(o)
                                     [] OTHER             -> 0
  <1>1. o.price \in Nat /\ o.quantity \in Nat
    BY ConstantsAreSound DEF Accounts!AccountsAssumption, Orders
  <1>2. o.price * o.quantity \in Nat
    BY <1>1
  <1> DEFINE x == o.price * o.quantity
  <1>3. Accounts!Cost(o) = x * 10000 /\ Accounts!Commission(o) = x * 3
    BY DEF Accounts!Cost, Accounts!Commission, Accounts!Unit
  <1> HIDE DEF x
  <1>4. x * 10000 \in Nat /\ x * 3 \in Nat /\ x * 3 <= x * 10000
    BY <1>2 DEF x
  <1> QED BY <1>1, <1>3, <1>4 DEF Accounts!Earned

\* The sums of the orders and one more.
LEMMA EntryExplained ==
    ASSUME NEW a \in PaperBooks, NEW b \in PaperBooks, NEW o \in Orders, Accounts!Explained(a),
           b.orders = Append(a.orders, o), b.capital = a.capital + Accounts!Earned(o),
           \A s \in Shares : b.positions[s] =
               [quantity |-> a.positions[s].quantity + Accounts!Moved(o, s),
                basis |-> CASE o.symbol = s /\ o.action = "SELL" -> 0
                            [] o.symbol = s /\ o.action = "BUY" -> a.positions[s].basis + Accounts!Cost(o)
                            [] OTHER -> a.positions[s].basis]
    PROVE  Accounts!Explained(b)
  <1> DEFINE n == Len(a.orders)
             q == b.orders
             Earns(r, k) == [i \in 1..k |-> Accounts!Earned(r[i])]
             Shifts(r, k, s) == [i \in 1..k |-> Accounts!Moved(r[i], s)]
             Bases(r, k, s) == [i \in 1..k |-> IF Accounts!Stands(r, i, s) THEN Accounts!Cost(r[i]) ELSE 0]
  <1>0. \A f, k : Accounts!Total(f, k) = Total(f, k)
    BY DEF Accounts!Total, Total
  <1>1. a.orders \in Seq(Orders) /\ a.capital \in Nat
    BY DEF PaperBooks
  <1>2. /\ n \in Nat /\ Len(q) = n + 1 /\ q[n + 1] = o
        /\ \A i \in 1..n : q[i] = a.orders[i] /\ a.orders[i] \in Orders
    BY <1>1
  <1>3. /\ a.capital = Cash * Accounts!Unit + Total(Earns(a.orders, n), n)
        /\ \A s \in Shares : a.positions[s] =
               [quantity |-> Total(Shifts(a.orders, n, s), n), basis |-> Total(Bases(a.orders, n, s), n)]
    BY <1>0 DEF Accounts!Explained
  <1> HIDE DEF n, q
  <1>4. Total(Earns(q, n + 1), n + 1) = Total(Earns(a.orders, n), n) + Accounts!Earned(o)
    <2>1. Earns(q, n + 1)[n + 1] = Accounts!Earned(o)
      BY <1>2
    <2>2. \A i \in 1..n : Earns(q, n + 1)[i] = Earns(a.orders, n)[i]
      BY <1>2
    <2> DEFINE f == Earns(a.orders, n)
               g == Earns(q, n + 1)
    <2>3. g[n + 1] = Accounts!Earned(o) /\ \A i \in 1..n : g[i] = f[i]
      BY <2>1, <2>2
    <2> HIDE DEF f, g
    <2>4. Total(g, n + 1) = Total(f, n) + g[n + 1]
      BY <1>2, <2>3, TotalAppend
    <2> QED BY <2>3, <2>4 DEF f, g
  <1>5. /\ Cash * Accounts!Unit \in Int /\ Accounts!Earned(o) \in Int /\ Total(Earns(a.orders, n), n) \in Int
    <2>1. Cash * Accounts!Unit \in Int
      BY ConstantsAreSound DEF Accounts!AccountsAssumption, Accounts!Unit
    <2>2. \A p \in Orders : Accounts!Earned(p) \in Int
      BY Amounts
    <2>3. \A i \in 1..n : Earns(a.orders, n)[i] \in Int
      BY <1>2, <2>2
    <2>4. Total(Earns(a.orders, n), n) \in Int
      <3> HIDE DEF Earns
      <3> QED BY <1>2, <2>3, TotalType
    <2> QED BY <2>1, <2>2, <2>4
  <1>6. b.capital = Cash * Accounts!Unit + Total(Earns(q, n + 1), n + 1)
    <2> HIDE DEF Earns
    <2> QED BY <1>3, <1>4, <1>5
  <1>7. ASSUME NEW s \in Shares
        PROVE  b.positions[s] = [quantity |-> Total(Shifts(q, n + 1, s), n + 1), basis |-> Total(Bases(q, n + 1, s), n + 1)]
    <2>1. Total(Shifts(q, n + 1, s), n + 1) = Total(Shifts(a.orders, n, s), n) + Accounts!Moved(o, s)
      <3>1. Shifts(q, n + 1, s)[n + 1] = Accounts!Moved(o, s)
        BY <1>2
      <3>2. \A i \in 1..n : Shifts(q, n + 1, s)[i] = Shifts(a.orders, n, s)[i]
        BY <1>2
      <3> HIDE DEF Shifts
      <3> QED BY <1>2, <3>1, <3>2, TotalAppend
    <2>2. /\ a.positions[s].quantity = Total(Shifts(a.orders, n, s), n)
          /\ a.positions[s].basis = Total(Bases(a.orders, n, s), n)
      <3> DEFINE x == Total(Shifts(a.orders, n, s), n)
                 y == Total(Bases(a.orders, n, s), n)
      <3>1. a.positions[s] = [quantity |-> x, basis |-> y]
        BY <1>3
      <3> HIDE DEF x, y
      <3>2. a.positions[s].quantity = x /\ a.positions[s].basis = y
        BY <3>1
      <3> QED BY <3>2 DEF x, y
    <2>3. (n + 2)..(n + 1) = {} /\ \A i \in 1..n : (i + 1)..(n + 1) = ((i + 1)..n) \cup {n + 1}
      BY <1>2
    <2>4. Accounts!Stands(q, n + 1, s) <=> o.symbol = s /\ o.action = "BUY"
      <3>1. (n + 1 + 1)..Len(q) = {}
        BY <1>2
      <3> QED BY <1>2, <3>1 DEF Accounts!Stands
    <2>5. ASSUME NEW i \in 1..n
          PROVE  Accounts!Stands(q, i, s) <=>
                     Accounts!Stands(a.orders, i, s) /\ ~(o.symbol = s /\ o.action = "SELL")
      <3>1. \A j \in (i + 1)..n : j \in 1..n
        BY <1>2
      <3>2. (i + 1)..Len(q) = ((i + 1)..n) \cup {n + 1}
        BY <1>2
      <3> QED BY <1>2, <3>1, <3>2 DEF Accounts!Stands, n
    <2>6. CASE o.symbol = s /\ o.action = "SELL"
      <3>1. \A i \in 1..(n + 1) : Bases(q, n + 1, s)[i] = 0
        <4>1. \A i \in 1..(n + 1) : i = n + 1 \/ i \in 1..n
          BY <1>2
        <4>2. \A i \in 1..(n + 1) : ~Accounts!Stands(q, i, s)
          BY <2>4, <2>5, <2>6, <4>1
        <4> QED BY <4>2
      <3>2. Total(Bases(q, n + 1, s), n + 1) = 0
        <4> HIDE DEF Bases
        <4> QED BY <1>2, <3>1, TotalZero
      <3> HIDE DEF Shifts, Bases
      <3> QED BY <2>1, <2>2, <2>6, <3>2
    <2>7. CASE ~(o.symbol = s /\ o.action = "SELL")
      <3>1. \A i \in 1..n : Bases(q, n + 1, s)[i] = Bases(a.orders, n, s)[i]
        <4>1. \A i \in 1..n : /\ Accounts!Stands(q, i, s) <=> Accounts!Stands(a.orders, i, s)
                              /\ i \in 1..(n + 1)
          BY <1>2, <2>5, <2>7
        <4> QED BY <1>2, <4>1
      <3>2. Bases(q, n + 1, s)[n + 1] = IF o.symbol = s /\ o.action = "BUY" THEN Accounts!Cost(o) ELSE 0
        BY <1>2, <2>4
      <3>3. Total(Bases(q, n + 1, s), n + 1) = Total(Bases(a.orders, n, s), n) + Bases(q, n + 1, s)[n + 1]
        <4> HIDE DEF Bases
        <4> QED BY <1>2, <3>1, TotalAppend
      <3>4. a.positions[s].basis \in Nat
        BY DEF PaperBooks
      <3> HIDE DEF Shifts, Bases
      <3>5. Total(Bases(q, n + 1, s), n + 1) = IF o.symbol = s /\ o.action = "BUY" THEN a.positions[s].basis + Accounts!Cost(o)
                                               ELSE a.positions[s].basis
        BY <2>2, <3>2, <3>3, <3>4
      <3> QED BY <2>1, <2>2, <2>7, <3>5
    <2> QED BY <2>6, <2>7
  <1>8. b.orders = q /\ Len(b.orders) = n + 1
    BY <1>2 DEF q
  <1> HIDE DEF Earns, Shifts, Bases
  <1>9. /\ b.capital = Cash * Accounts!Unit + Accounts!Total(Earns(b.orders, Len(b.orders)), Len(b.orders))
        /\ \A s \in Shares : b.positions[s] =
               [quantity |-> Accounts!Total(Shifts(b.orders, Len(b.orders), s), Len(b.orders)),
                basis |-> Accounts!Total(Bases(b.orders, Len(b.orders), s), Len(b.orders))]
    BY <1>0, <1>6, <1>7, <1>8
  <1> QED BY <1>9 DEF Accounts!Explained, Earns, Shifts, Bases

\* The account that is created has no orders, and its capital is the first one.
LEMMA NewAccountFacts ==
    /\ Accounts!NoAccount \in PaperBooks /\ Accounts!NewAccount \in PaperBooks
    /\ Accounts!Explained(Accounts!NewAccount)
    /\ Accounts!NoAccount.orders = <<>> /\ Accounts!NewAccount.orders = <<>>
  <1>1. Cash * Accounts!Unit \in Nat
    BY ConstantsAreSound DEF Accounts!AccountsAssumption, Accounts!Unit
  <1>2. /\ Accounts!NoAccount \in PaperBooks /\ Accounts!NewAccount \in PaperBooks
        /\ Accounts!NoAccount.orders = <<>> /\ Accounts!NewAccount.orders = <<>>
    BY <1>1 DEF Accounts!NoAccount, Accounts!NewAccount, Accounts!Flat, PaperBooks
  <1>3. \A f : Accounts!Total(f, 0) = 0
    <2>1. \A f : Total(f, 0) = 0
      BY TotalSteps
    <2> QED BY <2>1 DEF Accounts!Total, Total
  <1>4. Accounts!Explained(Accounts!NewAccount)
    <2> DEFINE a == Accounts!NewAccount
    <2>1. Len(a.orders) = 0
      BY <1>2
    <2>2. a.capital = Cash * Accounts!Unit + 0 /\ \A s \in Shares : a.positions[s] = [quantity |-> 0, basis |-> 0]
      BY <1>1 DEF Accounts!NewAccount, Accounts!Flat
    <2> HIDE DEF a
    <2>3. Accounts!Explained(a)
      BY <1>3, <2>1, <2>2 DEF Accounts!Explained
    <2> QED BY <2>3 DEF a
  <1> QED BY <1>2, <1>4

\* What is saved are all the orders, or as many as are kept.
LEMMA SavedFacts ==
    ASSUME NEW a \in PaperBooks
    PROVE  /\ Accounts!Saved(a) \in PaperBooks
           /\ Len(Accounts!Saved(a).orders) < KeptOrders => Accounts!Saved(a) = a
  <1>1. a.orders \in Seq(Orders) /\ KeptOrders \in Nat \ {0}
    BY ConstantsAreSound DEF PaperBooks, Accounts!AccountsAssumption
  <1>2. CASE Len(a.orders) <= KeptOrders
    <2>1. Accounts!Saved(a) = a
      BY <1>2 DEF Accounts!Saved, PaperBooks
    <2> QED BY <2>1
  <1>3. CASE ~(Len(a.orders) <= KeptOrders)
    <2> DEFINE q == SubSeq(a.orders, Len(a.orders) - KeptOrders + 1, Len(a.orders))
    <2>1. q \in Seq(Orders) /\ Len(q) = KeptOrders
      BY <1>1, <1>3
    <2>2. Accounts!Saved(a) = [a EXCEPT !.orders = q]
      BY <1>3 DEF Accounts!Saved
    <2> HIDE DEF q
    <2> QED BY <1>1, <2>1, <2>2 DEF PaperBooks
  <1> QED BY <1>2, <1>3

\* Whether the save works or not, both accounts stay as they should be.
LEMMA SaveInv ==
    ASSUME AccountsInv, NEW a \in PaperBooks, whole => Fine(a), whole' = whole,
           account' = a, file' \in {file, Accounts!Saved(a)}
    PROVE  AccountsInv'
  BY SavedFacts DEF AccountsInv, Fine

\* The orders that are followed.
LEMMA OrderInv ==
    ASSUME AccountsInv, NEW o \in Orders, NEW works \in BOOLEAN, Accounts!Follow(o, works), whole' = whole,
           o.action = "NOTE" => o.quantity = 0,
           o.action = "SELL" => o.quantity = Accounts!Opened.positions[o.symbol].quantity
    PROVE  AccountsInv'
  <1> DEFINE a == Accounts!Opened
  <1>1. a \in PaperBooks /\ (whole => Accounts!Explained(a))
    BY NewAccountFacts DEF AccountsInv, Accounts!Opened, Fine
  <1> HIDE DEF a
  <1>2. /\ a.capital \in Nat /\ a.orders \in Seq(Orders) /\ a.positions \in [Shares -> [quantity : Nat, basis : Nat]]
        /\ Append(a.orders, o) \in Seq(Orders) /\ o.symbol \in Shares
        /\ o.action \in {"BUY", "SELL", "NOTE"}
    BY <1>1 DEF PaperBooks, Orders
  <1>3. /\ Accounts!Cost(o) \in Nat /\ Accounts!Commission(o) \in Nat /\ Accounts!Commission(o) <= Accounts!Cost(o)
        /\ o.quantity \in Nat
    BY Amounts
  <1>4. ASSUME NEW b \in PaperBooks, Accounts!Save(b, works), whole => Accounts!Explained(b) PROVE AccountsInv'
    BY <1>4, SaveInv DEF Accounts!Save, Fine
  <1>5. CASE o.action = "NOTE"
    <2> DEFINE b == [a EXCEPT !.orders = Append(a.orders, o)]
    <2>1. Accounts!Save(b, works)
      BY <1>5 DEF Accounts!Follow, a
    <2>2. b \in PaperBooks /\ b.orders = Append(a.orders, o) /\ b.capital = a.capital /\ b.positions = a.positions
      BY <1>1, <1>2 DEF PaperBooks
    <2>3. Accounts!Earned(o) = 0 /\ \A s \in Shares : Accounts!Moved(o, s) = 0
      BY <1>5 DEF Accounts!Earned, Accounts!Moved
    <2> HIDE DEF b
    <2>4. \A s \in Shares : b.positions[s] =
               [quantity |-> a.positions[s].quantity + Accounts!Moved(o, s),
                basis |-> CASE o.symbol = s /\ o.action = "SELL" -> 0
                            [] o.symbol = s /\ o.action = "BUY" -> a.positions[s].basis + Accounts!Cost(o)
                            [] OTHER -> a.positions[s].basis]
      BY <1>2, <1>5, <2>2, <2>3
    <2>5. b.capital = a.capital + Accounts!Earned(o)
      BY <1>2, <2>2, <2>3
    <2>6. whole => Accounts!Explained(b)
      BY <1>1, <2>2, <2>4, <2>5, EntryExplained
    <2> QED BY <1>4, <2>1, <2>2, <2>6
  <1>6. CASE o.action = "BUY" /\ Accounts!CanBuy(a, o)
    <2> DEFINE b == Accounts!Bought(a, o)
               p == [quantity |-> a.positions[o.symbol].quantity + o.quantity,
                     basis |-> a.positions[o.symbol].basis + Accounts!Cost(o)]
    <2>1. Accounts!Save(b, works)
      BY <1>6 DEF Accounts!Follow, a
    <2>2. p \in [quantity : Nat, basis : Nat]
      BY <1>2, <1>3
    <2>3. a.capital - Accounts!Cost(o) - Accounts!Commission(o) \in Nat
      <3>1. (a.capital + 19) \div 20 \in Nat
        BY <1>2
      <3> QED BY <1>2, <1>3, <1>6, <3>1 DEF Accounts!CanBuy
    <2>4. b = [capital |-> a.capital - Accounts!Cost(o) - Accounts!Commission(o), orders |-> Append(a.orders, o),
               positions |-> [a.positions EXCEPT ![o.symbol] = p]]
      BY DEF Accounts!Bought
    <2> HIDE DEF b, p
    <2>5. b \in PaperBooks
      BY <1>2, <2>2, <2>3, <2>4 DEF PaperBooks
    <2>6. b.orders = Append(a.orders, o) /\ b.capital = a.capital + Accounts!Earned(o)
      BY <1>2, <1>3, <1>6, <2>4 DEF Accounts!Earned
    <2>7. ASSUME NEW s \in Shares
          PROVE  b.positions[s] =
               [quantity |-> a.positions[s].quantity + Accounts!Moved(o, s),
                basis |-> CASE o.symbol = s /\ o.action = "SELL" -> 0
                            [] o.symbol = s /\ o.action = "BUY" -> a.positions[s].basis + Accounts!Cost(o)
                            [] OTHER -> a.positions[s].basis]
      <3>1. b.positions[s] = IF s = o.symbol THEN p ELSE a.positions[s]
        BY <1>2, <2>4
      <3>2. a.positions[s] \in [quantity : Nat, basis : Nat]
        BY <1>2
      <3> QED BY <1>3, <1>6, <3>1, <3>2 DEF Accounts!Moved, p
    <2>8. whole => Accounts!Explained(b)
      BY <1>1, <2>5, <2>6, <2>7, EntryExplained
    <2> QED BY <1>4, <2>1, <2>5, <2>8
  <1>7. CASE o.action = "SELL" /\ o.quantity > 0
    <2> DEFINE b == Accounts!Sold(a, o)
    <2>1. Accounts!Save(b, works)
      BY <1>7 DEF Accounts!Follow, a
    <2>2. o.quantity = a.positions[o.symbol].quantity
      BY <1>7 DEF a
    <2>3. a.capital + Accounts!Cost(o) - Accounts!Commission(o) \in Nat
      BY <1>2, <1>3
    <2>4. b = [capital |-> a.capital + Accounts!Cost(o) - Accounts!Commission(o), orders |-> Append(a.orders, o),
               positions |-> [a.positions EXCEPT ![o.symbol] = [quantity |-> 0, basis |-> 0]]]
      BY DEF Accounts!Sold, Accounts!Flat
    <2> HIDE DEF b
    <2>5. b \in PaperBooks
      BY <1>2, <2>3, <2>4 DEF PaperBooks
    <2>6. b.orders = Append(a.orders, o) /\ b.capital = a.capital + Accounts!Earned(o)
      BY <1>2, <1>3, <1>7, <2>4 DEF Accounts!Earned
    <2>7. ASSUME NEW s \in Shares
          PROVE  b.positions[s] =
               [quantity |-> a.positions[s].quantity + Accounts!Moved(o, s),
                basis |-> CASE o.symbol = s /\ o.action = "SELL" -> 0
                            [] o.symbol = s /\ o.action = "BUY" -> a.positions[s].basis + Accounts!Cost(o)
                            [] OTHER -> a.positions[s].basis]
      <3>1. b.positions[s] = IF s = o.symbol THEN [quantity |-> 0, basis |-> 0] ELSE a.positions[s]
        BY <1>2, <2>4
      <3>2. a.positions[s] \in [quantity : Nat, basis : Nat]
        BY <1>2
      <3> QED BY <1>3, <1>7, <2>2, <3>1, <3>2 DEF Accounts!Moved
    <2>8. whole => Accounts!Explained(b)
      BY <1>1, <2>5, <2>6, <2>7, EntryExplained
    <2> QED BY <1>4, <2>1, <2>5, <2>8
  <1>8. CASE (o.action = "BUY" /\ ~Accounts!CanBuy(a, o)) \/ (o.action = "SELL" /\ ~(o.quantity > 0))
    <2>1. Accounts!Save(a, works)
      BY <1>8 DEF Accounts!Follow, a
    <2> QED BY <1>1, <1>4, <2>1
  <1> QED BY <1>2, <1>5, <1>6, <1>7, <1>8

\* The quantity of a purchase is a number of shares.
LEMMA SizedIsNat ==
    ASSUME NEW a \in PaperBooks, NEW p \in SharePrices, NEW c \in 0..2
    PROVE  Accounts!Sized(a, p, c) \in Nat
  <1>1. a.capital \in Nat /\ p \in Nat \ {0} /\ c \in Nat
    BY ConstantsAreSound DEF PaperBooks, Accounts!AccountsAssumption
  <1> DEFINE d == 10 * p * Accounts!Unit
             shares == (c * a.capital) \div d
  <1>2. d \in Nat \ {0} /\ c * a.capital \in Nat
    <2>1. d = p * 100000
      BY <1>1 DEF Accounts!Unit
    <2>2. c * a.capital \in Nat
      BY <1>1
    <2>3. p * 100000 \in Nat \ {0}
      BY <1>1
    <2> QED BY <2>1, <2>2, <2>3
  <1>3. shares \in Nat
    <2> HIDE DEF d
    <2> QED BY <1>2, Division
  <1> HIDE DEF shares
  <1>4. (shares \div Accounts!Lot) * Accounts!Lot \in Nat
    BY <1>3 DEF Accounts!Lot
  <1> QED BY <1>3, <1>4 DEF Accounts!Sized, shares

\* Every step keeps the accounts explained by their orders.
LEMMA AccountsStep == AccountsInv /\ [Accounts!Next]_accountsVars => AccountsInv'
  <1> SUFFICES ASSUME AccountsInv, [Accounts!Next]_accountsVars PROVE AccountsInv'
    OBVIOUS
  <1>1. Accounts!Opened \in PaperBooks /\ (whole => Fine(Accounts!Opened))
    BY NewAccountFacts DEF AccountsInv, Accounts!Opened, Fine
  <1>2. ASSUME NEW works \in BOOLEAN, account' = Accounts!Opened, file' = Accounts!OpenedFile(works), whole' = whole
        PROVE  AccountsInv'
    <2>1. file' \in {file, Accounts!Saved(Accounts!Opened)}
      BY <1>2 DEF Accounts!OpenedFile, Accounts!Opened
    <2> QED BY <1>1, <1>2, <2>1, SaveInv
  <1>3. ASSUME NEW s \in Shares, NEW d \in {"BUY", "SELL", "HOLD"}, NEW p \in SharePrices, NEW c \in 0..2,
               NEW works \in BOOLEAN, Accounts!ExecuteSignal(s, d, p, c, works)
        PROVE  AccountsInv'
    <2> DEFINE O(action, quantity) == [symbol |-> s, action |-> action, price |-> p, quantity |-> quantity]
               size == Accounts!Sized(Accounts!Opened, p, c)
               held == Accounts!Opened.positions[s].quantity
    <2>1. whole' = whole
      BY <1>3 DEF Accounts!ExecuteSignal
    <2>2. size \in Nat /\ held \in Nat
      BY <1>1, SizedIsNat DEF PaperBooks
    <2>3. \/ account' = Accounts!Opened /\ file' = Accounts!OpenedFile(works)
          \/ Accounts!Follow(O("BUY", size), works)
          \/ Accounts!Follow(O("SELL", held), works)
          \/ Accounts!Follow(O("NOTE", 0), works)
      <3>1. c \in Nat /\ (c = 0 \/ c > 0) /\ (size = 0 \/ size > 0)
        BY <2>2
      <3>2. CASE d = "BUY"
        <4>1. CASE c = 0 \/ size = 0
          BY <1>3, <3>2, <4>1 DEF Accounts!ExecuteSignal
        <4>2. CASE c > 0 /\ size > 0
          <5>1. ~(c = 0 \/ size = 0)
            BY <2>2, <3>1, <4>2
          <5> QED BY <1>3, <3>2, <4>2, <5>1 DEF Accounts!ExecuteSignal
        <4> QED BY <3>1, <4>1, <4>2
      <3>3. CASE d = "SELL"
        BY <1>3, <3>3 DEF Accounts!ExecuteSignal
      <3>4. CASE d = "HOLD"
        BY <1>3, <3>4 DEF Accounts!ExecuteSignal
      <3> QED BY <3>2, <3>3, <3>4
    <2> HIDE DEF size, held
    <2>4. /\ O("BUY", size) \in Orders /\ O("SELL", held) \in Orders /\ O("NOTE", 0) \in Orders
          /\ O("BUY", size).action = "BUY" /\ O("NOTE", 0).action = "NOTE" /\ O("NOTE", 0).quantity = 0
          /\ O("SELL", held).action = "SELL" /\ O("SELL", held).symbol = s /\ O("SELL", held).quantity = held
      BY <2>2 DEF Orders
    <2> HIDE DEF O
    <2>5. Accounts!Opened.positions[O("SELL", held).symbol].quantity = held
      BY <2>4 DEF held
    <2> QED BY <1>2, <2>1, <2>3, <2>4, <2>5, OrderInv
  <1>4. ASSUME NEW works \in BOOLEAN, Accounts!Value(works) PROVE AccountsInv'
    BY <1>2, <1>4 DEF Accounts!Value
  <1>5. CASE Accounts!Restart
    BY <1>5 DEF Accounts!Restart, Accounts!Loaded, AccountsInv
  <1>6. CASE UNCHANGED accountsVars
    BY <1>6 DEF accountsVars, AccountsInv, Fine
  <1> QED BY <1>3, <1>4, <1>5, <1>6 DEF Accounts!Next

\* Before its first use there is no account.
LEMMA AccountsInit == Accounts!Init => AccountsInv
  BY NewAccountFacts DEF Accounts!Init, AccountsInv, Fine

\* The books balance.
LEMMA AccountsHold == AccountsInv => Accounts!BooksBalance
  BY DEF AccountsInv, Fine, Accounts!BooksBalance

----------------------------------------------------------------------------
(* Macro *)

\* An entry and a round: each field as it may be.
MacroData    == [indices : BOOLEAN, sectors : BOOLEAN]
MacroEntries == [data : MacroData, age : Nat, ttl : Nat]
MacroRounds  == [pc : {"sleep", "ask", "short", "long", "report", "save"}, time : Nat, raw : BOOLEAN,
                 data : MacroData, position : BOOLEAN]

\* A round that neither fails nor takes long finds an entry that lives on, and leaves one.
Bridging ==
    /\ collecting.pc # "long" => macro.ttl = LongTTL
    /\ collecting.pc = "sleep" => macro.age <= MaxRound + collecting.time /\ collecting.time <= Interval
    /\ collecting.pc \in {"ask", "short"} =>
           macro.age <= Interval + MaxRound + collecting.time /\ collecting.time <= MaxRound
    /\ collecting.pc = "long" =>
           macro.ttl = ShortTTL /\ macro.age <= collecting.time /\ collecting.time <= MaxRound
    /\ collecting.pc \in {"report", "save"} => macro.age <= collecting.time /\ macro.age <= MaxRound

RoundInv == /\ macro \in MacroEntries /\ collecting \in MacroRounds /\ strained \in BOOLEAN
            /\ ~strained => Bridging
            /\ collecting.pc = "sleep" => collecting.time <= Interval

\* At first nothing is there, and nothing is promised.
LEMMA RoundInit == Rounds!Init => RoundInv
  <1> SUFFICES ASSUME Rounds!Init PROVE RoundInv
    OBVIOUS
  <1>1. Interval \in Nat
    BY ConstantsAreSound DEF Rounds!MacroAssumption
  <1>2. macro \in MacroEntries /\ strained = TRUE
    BY DEF Rounds!Init, Rounds!Absent, Rounds!Nothing, MacroEntries, MacroData
  <1>3. collecting \in MacroRounds /\ collecting.time = Interval
    BY <1>1 DEF Rounds!Init, Rounds!Rest, Rounds!Nothing, MacroRounds, MacroData
  <1> QED BY <1>1, <1>2, <1>3 DEF RoundInv

\* A step of time.
LEMMA RoundTick == RoundInv /\ Rounds!Tick => RoundInv'
  <1> SUFFICES ASSUME RoundInv, Rounds!Tick PROVE RoundInv'
    OBVIOUS
  <1>1. /\ ShortTTL \in Nat /\ LongTTL \in Nat /\ Interval \in Nat /\ MaxRound \in Nat
        /\ Interval + 2 * MaxRound < LongTTL /\ MaxRound < ShortTTL /\ MaxRound <= Interval
    BY ConstantsAreSound DEF Rounds!MacroAssumption
  <1> DEFINE r == [collecting EXCEPT !.time = IF @ < Interval THEN @ + 1 ELSE @]
             e == [macro EXCEPT !.age = @ + 1]
  <1>2. /\ collecting' = r /\ macro' = (IF macro.age + 1 >= macro.ttl THEN Rounds!Absent ELSE e)
        /\ strained' = (strained \/ (collecting.pc # "sleep" /\ collecting.time >= MaxRound))
        /\ collecting.pc = "sleep" => collecting.time < Interval
    BY DEF Rounds!Tick
  <1>3. /\ r \in MacroRounds /\ r.pc = collecting.pc /\ collecting.time \in Nat
        /\ r.time = (IF collecting.time < Interval THEN collecting.time + 1 ELSE collecting.time)
    BY <1>1 DEF RoundInv, MacroRounds
  <1>4. e \in MacroEntries /\ e.age = macro.age + 1 /\ e.ttl = macro.ttl /\ macro.age \in Nat /\ macro.ttl \in Nat
    BY DEF RoundInv, MacroEntries
  <1>5. Rounds!Absent \in MacroEntries
    BY DEF Rounds!Absent, Rounds!Nothing, MacroEntries, MacroData
  <1> HIDE DEF r, e
  <1>6. /\ macro' \in MacroEntries /\ collecting' \in MacroRounds /\ strained' \in BOOLEAN
        /\ collecting'.pc = "sleep" => collecting'.time <= Interval
    BY <1>1, <1>2, <1>3, <1>4, <1>5 DEF RoundInv
  <1>7. ASSUME ~strained' PROVE Bridging'
    <2>1. ~strained /\ (collecting.pc # "sleep" => collecting.time < MaxRound)
      <3>1. ~(strained \/ (collecting.pc # "sleep" /\ collecting.time >= MaxRound))
        BY <1>2, <1>7
      <3> QED BY <1>1, <1>3, <3>1
    <2>2. r.time = collecting.time + 1
      BY <1>1, <1>2, <1>3, <2>1
    <2>3. collecting.pc \in {"sleep", "ask", "short", "long", "report", "save"}
      BY DEF RoundInv, MacroRounds
    <2>4. macro.age + 1 < macro.ttl
      BY <1>1, <1>2, <1>3, <1>4, <2>1, <2>3 DEF RoundInv, Bridging
    <2>5. macro' = e
      BY <1>2, <1>4, <2>4
    <2> QED BY <1>1, <1>2, <1>3, <1>4, <2>1, <2>2, <2>3, <2>5 DEF RoundInv, Bridging
  <1> QED BY <1>6, <1>7 DEF RoundInv

\* Every step of a round.
LEMMA RoundStep == RoundInv /\ [Rounds!Next]_roundsVars => RoundInv'
  <1> SUFFICES ASSUME RoundInv, [Rounds!Next]_roundsVars PROVE RoundInv'
    OBVIOUS
  <1>1. /\ ShortTTL \in Nat /\ LongTTL \in Nat /\ Interval \in Nat /\ MaxRound \in Nat
        /\ Interval + 2 * MaxRound < LongTTL /\ MaxRound < ShortTTL /\ MaxRound <= Interval
    BY ConstantsAreSound DEF Rounds!MacroAssumption
  <1>2. /\ collecting \in MacroRounds /\ collecting.time \in Nat /\ collecting.data \in MacroData
        /\ macro \in MacroEntries /\ macro.age \in Nat /\ macro.ttl \in Nat
    BY DEF RoundInv, MacroRounds, MacroEntries
  <1>3. Rounds!Rest \in MacroRounds /\ Rounds!Rest.pc = "sleep" /\ Rounds!Rest.time = 0
    BY DEF Rounds!Rest, Rounds!Nothing, MacroRounds, MacroData
  <1>4. CASE Rounds!Begin
    <2>1. collecting' \in MacroRounds /\ collecting'.pc = "ask" /\ collecting'.time = 0
      BY <1>3, <1>4 DEF Rounds!Begin, Rounds!Rest, Rounds!Nothing, MacroRounds, MacroData
    <2>2. macro' = macro /\ strained' = strained /\ collecting.pc = "sleep"
      BY <1>4 DEF Rounds!Begin
    <2> QED BY <1>1, <1>2, <2>1, <2>2 DEF RoundInv, Bridging
  <1>5. CASE Rounds!Refused
    <2>1. collecting' \in MacroRounds /\ collecting'.pc = "report"
      BY <1>2, <1>5 DEF Rounds!Refused, Rounds!Goto, MacroRounds
    <2> QED BY <1>2, <1>5, <2>1 DEF Rounds!Refused, RoundInv
  <1>6. ASSUME NEW i \in BOOLEAN, NEW s \in BOOLEAN, Rounds!Sources(i, s) PROVE RoundInv'
    <2>1. /\ collecting' \in MacroRounds /\ collecting'.pc = "short" /\ collecting'.time = collecting.time
          /\ collecting.pc = "ask" /\ macro' = macro /\ strained' = strained
      BY <1>2, <1>6 DEF Rounds!Sources, MacroRounds, MacroData
    <2> QED BY <1>1, <1>2, <2>1 DEF RoundInv, Bridging
  <1>7. CASE Rounds!WriteShort
    <2>1. /\ collecting' \in MacroRounds /\ collecting'.pc = "long" /\ collecting'.time = collecting.time
          /\ collecting.pc = "short" /\ strained' = strained
      BY <1>2, <1>7 DEF Rounds!WriteShort, Rounds!Goto, MacroRounds
    <2>2. macro' \in MacroEntries /\ macro'.age = 0 /\ macro'.ttl = ShortTTL
      BY <1>1, <1>2, <1>7 DEF Rounds!WriteShort, MacroEntries
    <2>3. ~strained => collecting.time <= MaxRound
      BY <2>1 DEF RoundInv, Bridging
    <2> QED BY <1>1, <1>2, <2>1, <2>2, <2>3 DEF RoundInv, Bridging
  <1>8. ASSUME NEW b \in BOOLEAN, Rounds!WriteFails(b) PROVE RoundInv'
    <2>1. collecting' \in MacroRounds /\ collecting'.pc = "report" /\ strained' = TRUE
      BY <1>2, <1>8 DEF Rounds!WriteFails, Rounds!Goto, MacroRounds
    <2>2. macro' \in MacroEntries
      BY <1>1, <1>2, <1>8 DEF Rounds!WriteFails, MacroEntries
    <2> QED BY <2>1, <2>2 DEF RoundInv
  <1>9. CASE Rounds!WriteLong
    <2>1. /\ collecting' \in MacroRounds /\ collecting'.pc = "report" /\ collecting'.time = collecting.time
      BY <1>2, <1>9 DEF Rounds!WriteLong, MacroRounds
    <2>2. macro' \in MacroEntries /\ macro'.age = 0 /\ macro'.ttl = LongTTL /\ strained' = FALSE
      BY <1>1, <1>2, <1>9 DEF Rounds!WriteLong, Rounds!Lengthened, MacroEntries
    <2>3. Bridging'
      BY <1>1, <1>2, <2>1, <2>2 DEF Bridging
    <2>4. strained' \in BOOLEAN
      BY <2>2
    <2> QED BY <2>1, <2>2, <2>3, <2>4 DEF RoundInv
  <1>10. CASE Rounds!LongFails
    <2>1. collecting' \in MacroRounds /\ collecting'.pc = "report" /\ macro' = macro /\ strained' = TRUE
      BY <1>2, <1>10 DEF Rounds!LongFails, MacroRounds
    <2> QED BY <1>2, <2>1 DEF RoundInv
  <1>11. ASSUME NEW b \in BOOLEAN, Rounds!Publish(b) PROVE RoundInv'
    <2>1. /\ collecting' \in MacroRounds /\ collecting'.pc = "save" /\ collecting'.time = collecting.time
          /\ collecting.pc = "report" /\ macro' = macro /\ strained' = strained
      BY <1>2, <1>11 DEF Rounds!Publish, Rounds!Goto, MacroRounds
    <2> QED BY <1>1, <1>2, <2>1 DEF RoundInv, Bridging
  <1>12. CASE Rounds!End
    <2>1. collecting' = Rounds!Rest /\ collecting.pc \in {"report", "save"} /\ macro' = macro /\ strained' = strained
      BY <1>12 DEF Rounds!End
    <2> QED BY <1>1, <1>2, <1>3, <2>1 DEF RoundInv, Bridging
  <1>13. CASE UNCHANGED roundsVars
    BY <1>13 DEF roundsVars, RoundInv, Bridging
  <1> QED BY <1>4, <1>5, <1>6, <1>7, <1>8, <1>9, <1>10, <1>11, <1>12, <1>13, RoundTick DEF Rounds!Next

\* An entry that lives is there.
LEMMA RoundHolds == RoundInv => Rounds!MacroIsBridged
  <1> SUFFICES ASSUME RoundInv, ~strained PROVE macro # Rounds!Absent
    BY DEF Rounds!MacroIsBridged
  <1>1. macro.ttl > 0
    BY ConstantsAreSound DEF RoundInv, Bridging, MacroRounds, Rounds!MacroAssumption
  <1>2. Rounds!Absent.ttl = 0
    BY DEF Rounds!Absent
  <1> QED BY <1>1, <1>2

----------------------------------------------------------------------------
(* Detectors *)

\* The bars of the days.
DayBars == [close : Nat \ {0}, high : Nat, low : Nat, volume : Nat]

\* There is a last bar, and the close of each lies between its extremes.
SignInv == /\ klines \in Seq(DayBars) /\ Len(klines) > 0
           /\ \A i \in 1..Len(klines) : klines[i].low <= klines[i].close /\ klines[i].close <= klines[i].high

\* The numbers of the model.
LEMMA SignConstants ==
    /\ Before \in Nat \ {0} /\ \A c \in Closes : c \in Nat \ {0}
    /\ \A v \in Volumes : v \in Nat
    /\ \A n \in Quiet : n \in Nat \ {0}
  BY ConstantsAreSound DEF Signs!DetectorsAssumption

\* Bars without a change.
LEMMA FlatIs ==
    ASSUME NEW n \in Nat \ {0}, NEW v \in Nat, klines = Signs!Flat(n, v)
    PROVE  SignInv
  <1> DEFINE b == [close |-> Before, high |-> Before, low |-> Before, volume |-> v]
  <1>1. b \in DayBars /\ b.low = Before /\ b.close = Before /\ b.high = Before /\ Before \in Nat
    BY SignConstants DEF DayBars
  <1>2. klines = [i \in 1..n |-> b]
    BY DEF Signs!Flat
  <1> HIDE DEF b
  <1>3. klines \in Seq(DayBars) /\ Len(klines) = n /\ \A i \in 1..n : klines[i] = b
    BY <1>1, <1>2
  <1> QED BY <1>1, <1>3 DEF SignInv

\* Every step keeps the bars in order.
LEMMA SignStep == SignInv /\ [Signs!Next]_signsVars => SignInv'
  <1> SUFFICES ASSUME SignInv, [Signs!Next]_signsVars PROVE SignInv'
    OBVIOUS
  <1> DEFINE n == Len(klines)
  <1>1. klines \in Seq(DayBars) /\ n \in Nat \ {0} /\ klines[n] \in DayBars /\ n \in 1..n
    BY DEF SignInv
  <1>2. ASSUME NEW c \in Closes, NEW v \in Volumes, Signs!Bar(c, v) PROVE SignInv'
    <2> DEFINE b == [close |-> c, high |-> c, low |-> c, volume |-> v]
    <2>1. b \in DayBars /\ b.low = c /\ b.close = c /\ b.high = c /\ c \in Nat
      BY SignConstants DEF DayBars
    <2>2. klines' = Append(klines, b)
      BY <1>2 DEF Signs!Bar
    <2> HIDE DEF b
    <2>3. /\ klines' \in Seq(DayBars) /\ Len(klines') = n + 1 /\ klines'[n + 1] = b
          /\ \A i \in 1..n : klines'[i] = klines[i]
      BY <1>1, <2>1, <2>2
    <2>4. \A i \in 1..(n + 1) : i \in 1..n \/ i = n + 1
      BY <1>1
    <2>5. n + 1 > 0
      BY <1>1
    <2>6. \A i \in 1..n : klines[i].low <= klines[i].close /\ klines[i].close <= klines[i].high
      BY DEF SignInv
    <2>7. \A i \in 1..(n + 1) : klines'[i].low <= klines'[i].close /\ klines'[i].close <= klines'[i].high
      <3> TAKE i \in 1..(n + 1)
      <3>1. CASE i \in 1..n
        BY <2>3, <2>6, <3>1
      <3>2. CASE i = n + 1
        BY <2>1, <2>3, <3>2
      <3> QED BY <2>4, <3>1, <3>2
    <2> QED BY <2>3, <2>5, <2>7 DEF SignInv
  <1>3. ASSUME NEW c \in Closes, Signs!Quote(c) PROVE SignInv'
    <2> DEFINE k == klines[n]
               hi == Signs!Max({k.high, c})
               lo == Signs!Min({k.low, c})
               b == Signs!Quoted(k, c)
    <2>1. k.high \in Nat /\ k.low \in Nat /\ c \in Nat \ {0}
      BY <1>1, SignConstants DEF DayBars
    <2>2. hi = (IF k.high > c THEN k.high ELSE c) /\ lo = (IF k.low < c THEN k.low ELSE c)
      BY <2>1 DEF Signs!Max, Signs!Min
    <2> HIDE DEF hi, lo
    <2>3. hi \in Nat /\ lo \in Nat /\ lo <= c /\ c <= hi
      BY <2>1, <2>2
    <2>4. b \in DayBars /\ b.low = lo /\ b.close = c /\ b.high = hi
      <3> DEFINE d == [k EXCEPT !.close = c, !.high = hi, !.low = lo]
      <3>1. d \in DayBars /\ d.low = lo /\ d.close = c /\ d.high = hi
        BY <1>1, <2>1, <2>3 DEF DayBars
      <3>2. b = d
        BY <1>1 DEF Signs!Quoted, hi, lo, DayBars
      <3> QED BY <3>1, <3>2
    <2>5. klines' = [klines EXCEPT ![n] = b]
      BY <1>3 DEF Signs!Quote
    <2> HIDE DEF b
    <2>6. /\ klines' \in Seq(DayBars) /\ Len(klines') = n
          /\ \A i \in 1..n : klines'[i] = IF i = n THEN b ELSE klines[i]
      BY <1>1, <2>4, <2>5
    <2>7. \A i \in 1..n : klines'[i].low <= klines'[i].close /\ klines'[i].close <= klines'[i].high
      <3> TAKE i \in 1..n
      <3>1. CASE i = n
        BY <2>3, <2>4, <2>6, <3>1
      <3>2. CASE i # n
        BY <2>6, <3>2 DEF SignInv
      <3> QED BY <3>1, <3>2
    <2>8. n > 0
      BY <1>1
    <2> QED BY <2>6, <2>7, <2>8 DEF SignInv
  <1>4. CASE UNCHANGED signsVars
    BY <1>4 DEF signsVars, SignInv
  <1> QED BY <1>2, <1>3, <1>4 DEF Signs!Next

\* The bars counted from the last one.
LEMMA BackIs ==
    ASSUME SignInv, NEW k \in 1..Len(klines)
    PROVE  /\ Signs!Back(k).close \in Nat \ {0} /\ Signs!Back(k).volume \in Nat
           /\ Signs!Back(k).high \in Nat /\ Signs!Back(k).low \in Nat
           /\ Signs!Back(k).low <= Signs!Back(k).close /\ Signs!Back(k).close <= Signs!Back(k).high
  <1>1. Len(klines) + 1 - k \in 1..Len(klines)
    BY DEF SignInv
  <1>2. klines[Len(klines) + 1 - k] \in DayBars
    BY <1>1 DEF SignInv
  <1> QED BY <1>1, <1>2 DEF SignInv, DayBars, Signs!Back

\* The volume of some bars.
LEMMA VolumeIs ==
    ASSUME SignInv, NEW from \in Nat \ {0}, NEW to \in Nat, from <= to, to <= Len(klines)
    PROVE  Signs!VolumeSum(from, to) \in Nat
  <1> DEFINE n == to - from + 1
             f == [i \in 1..n |-> Signs!Back(from + i - 1).volume]
  <1>1. n \in Nat /\ Len(klines) \in Nat
    BY DEF SignInv
  <1>2. ASSUME NEW i \in 1..n PROVE f[i] \in Nat
    <2>1. from + i - 1 \in 1..Len(klines)
      BY <1>1
    <2> QED BY <2>1, BackIs
  <1> HIDE DEF f
  <1>3. Total(f, n) \in Nat
    BY <1>1, <1>2, TotalNat
  <1>4. Signs!VolumeSum(from, to) = Total(f, n)
    BY DEF Signs!VolumeSum, Signs!Total, Total, f
  <1> QED BY <1>3, <1>4

\* What is risen and fallen in fourteen days.
LEMMA RsiIs ==
    ASSUME SignInv, Signs!Has(15)
    PROVE  Signs!Rsi(1).num \in Nat /\ Signs!Rsi(1).den \in Nat \ {0}
  <1> DEFINE up == [i \in 1..14 |-> IF Signs!Moved(1 + i - 1) > 0 THEN Signs!Moved(1 + i - 1) ELSE 0]
             down == [i \in 1..14 |-> IF Signs!Moved(1 + i - 1) < 0 THEN -Signs!Moved(1 + i - 1) ELSE 0]
  <1>1. ASSUME NEW i \in 1..14 PROVE up[i] \in Nat /\ down[i] \in Nat
    <2>1. 1 + i - 1 = i /\ i \in 1..Len(klines) /\ i + 1 \in 1..Len(klines)
      BY DEF Signs!Has, SignInv
    <2>2. Signs!Moved(i) \in Int
      BY <2>1, BackIs DEF Signs!Moved
    <2> QED BY <2>1, <2>2
  <1>2. Signs!Gains(1) = Total(up, 14) /\ Signs!Losses(1) = Total(down, 14)
    BY DEF Signs!Gains, Signs!Losses, Signs!Total, Total
  <1> HIDE DEF up, down
  <1>3. Total(up, 14) \in Nat /\ Total(down, 14) \in Nat
    BY <1>1, TotalNat
  <1> QED BY <1>2, <1>3 DEF Signs!Rsi

\* The two ways to ask whether a volume is high are the same.
LEMMA BusyIsAbove ==
    ASSUME SignInv, NEW p \in Nat, NEW from \in Nat \ {0}, NEW to \in Nat, from <= to, to <= Len(klines)
    PROVE  Signs!Busy(p, from, to) <=> Signs!Above(p, from, to)
  <1> DEFINE s == Signs!VolumeSum(from, to)
             v == Signs!Back(1).volume
  <1>1. s \in Nat /\ v \in Nat
    BY VolumeIs, BackIs DEF SignInv
  <1>2. /\ Signs!Busy(p, from, to) <=> s > 0 /\ 100 * v * (to - from + 1) > p * s
        /\ Signs!Above(p, from, to) <=> s > 0 /\ s * p < 100 * (to - from + 1) * v
    BY DEF Signs!Busy, Signs!Above
  <1> HIDE DEF s, v
  <1>3. /\ 100 * v * (to - from + 1) = 100 * (to - from + 1) * v /\ p * s = s * p
        /\ 100 * v * (to - from + 1) \in Int /\ p * s \in Int
    BY <1>1
  <1> QED BY <1>2, <1>3

\* The copy in the analysis of the API sees what the trace agent sees.
LEMMA CopiesDo == SignInv => Signs!CopiesAgree
  <1> SUFFICES ASSUME SignInv, Signs!Has(10)
               PROVE  Signs!AnalyzerSignals =
                          {s \in Signs!TraceSignals : s.type \in {"spike", "weak_volume", "high_volume"}}
    BY DEF Signs!CopiesAgree
  <1> DEFINE n == Len(klines)
             direction == IF Signs!Back(1).close > Signs!Back(2).close THEN "bullish" ELSE "bearish"
             spike == Signs!Mark("spike", direction, 0)
             weak == Signs!Mark("weak_volume", "bearish", 5)
             high == Signs!Mark("high_volume", "bearish", 6)
             A == Signs!Busy(200, 2, n)
             B == /\ Signs!VolumeSum(2, 5) > 0 /\ Signs!Rose(3)
                  /\ 20 * Signs!Back(1).volume < 4 * Signs!VolumeSum(2, 5)
             C == Signs!Fell(3) /\ Signs!Busy(150, 2, 5)
  <1>1. n \in Nat /\ n >= 10 /\ Signs!Has(3) /\ Signs!Has(5)
    BY DEF Signs!Has, SignInv
  <1>2. Signs!VolumeSum(2, 5) \in Nat /\ Signs!Back(1).volume \in Nat
    BY <1>1, VolumeIs, BackIs
  <1>3. Signs!Above(200, 2, n) <=> A
    BY <1>1, BusyIsAbove
  <1>4. Signs!Above(150, 2, 5) <=> Signs!Busy(150, 2, 5)
    BY <1>1, BusyIsAbove
  <1>5. Signs!Spike = IF A THEN {spike} ELSE {}
    BY <1>1 DEF Signs!Spike
  <1>6. Signs!Divergence = IF B THEN {weak} ELSE IF C THEN {high} ELSE {}
    <2>1. Signs!VolumeSum(2, 5) = 0 \/ Signs!VolumeSum(2, 5) > 0
      BY <1>2
    <2>2. Signs!Busy(150, 2, 5) => Signs!VolumeSum(2, 5) > 0
      BY DEF Signs!Busy
    <2>3. 5 * 4 * Signs!Back(1).volume = 20 * Signs!Back(1).volume
      BY <1>2
    <2>4. Signs!VolumeSum(2, 5) > 0 => Signs!VolumeSum(2, 5) # 0
      BY <1>2
    <2> QED BY <1>1, <2>1, <2>2, <2>3, <2>4 DEF Signs!Divergence
  <1>7. Signs!AnalyzerSignals = (IF A THEN {spike} ELSE {}) \cup (IF B THEN {weak} ELSE {})
                                \cup (IF ~B /\ C THEN {high} ELSE {})
    <2>1. 100 * 4 * Signs!Back(1).volume < 80 * Signs!VolumeSum(2, 5) <=>
              20 * Signs!Back(1).volume < 4 * Signs!VolumeSum(2, 5)
      BY <1>2
    <2> HIDE DEF spike, weak, high
    <2> QED BY <1>1, <1>3, <1>4, <2>1 DEF Signs!AnalyzerSignals, spike, weak, high
  <1>8. /\ Signs!TraceSignals = Signs!Spike \cup Signs!Divergence \cup Signs!Trend \cup Signs!RangeBreakout
    <2>1. Signs!Found = <<Signs!Spike, Signs!Divergence, Signs!Trend, Signs!RangeBreakout>>
      BY DEF Signs!Found
    <2> QED BY <2>1 DEF Signs!TraceSignals
  <1>9. \A s \in Signs!Trend \cup Signs!RangeBreakout : s.type \in {"uptrend", "downtrend", "breakout", "breakdown"}
    BY DEF Signs!Trend, Signs!RangeBreakout, Signs!Mark
  <1>10. spike.type = "spike" /\ weak.type = "weak_volume" /\ high.type = "high_volume"
    BY DEF Signs!Mark
  <1> HIDE DEF A, B, C, spike, weak, high
  <1> QED BY <1>5, <1>6, <1>7, <1>8, <1>9, <1>10

\* What the strategies ask for does not contradict itself.
LEMMA HitsDo == SignInv => Signs!HitsAreCoherent
  <1> SUFFICES ASSUME SignInv PROVE Signs!HitsAreCoherent
    OBVIOUS
  <1> DEFINE c1 == Signs!Back(1).close
             c2 == Signs!Back(2).close
             c5 == Signs!Back(5).close
             r == Signs!Rsi(1)
  <1>1. /\ Signs!Hit("breakout") => Signs!Has(22) /\ c1 > c2
        /\ Signs!Hit("oversold") => Signs!Has(15) /\ 100 * r.num < 30 * r.den /\ Signs!Fell(2)
        /\ Signs!Hit("strength") <=> Signs!Has(21) /\ Signs!Busy(120, 2, 21) /\ Signs!Rose(1)
        /\ Signs!Hit("risk") => Signs!Has(21) /\ 100 * r.num > 60 * r.den /\ c1 < c2
        /\ Signs!Hit("volume_breakout") <=> Signs!Has(21) /\ Signs!Busy(150, 2, 21) /\ Signs!Rose(2)
        /\ Signs!Hit("rsi_reversal") => Signs!Has(16) /\ 100 * r.num < 30 * r.den
    BY DEF Signs!Hit
  <1>2. \A s : s \in Signs!Hits <=> s \in Signs!Strategies /\ Signs!Hit(s)
    BY DEF Signs!Hits
  <1>3. Len(klines) \in Nat
    BY DEF SignInv
  <1>4. Signs!Has(15) => c1 \in Nat \ {0} /\ c2 \in Nat \ {0} /\ c5 \in Nat \ {0} /\ r.num \in Nat /\ r.den \in Nat \ {0}
    BY <1>3, BackIs, RsiIs DEF Signs!Has
  <1>5. (Signs!Has(16) \/ Signs!Has(21) \/ Signs!Has(22)) => Signs!Has(15)
    BY <1>3 DEF Signs!Has
  <1>6. /\ Signs!Fell(2) <=> 100 * (c5 - c1) > 2 * c5
        /\ Signs!Rose(1) <=> 100 * (c1 - c5) > 1 * c5
        /\ Signs!Rose(2) <=> 100 * (c1 - c5) > 2 * c5
    BY DEF Signs!Rose, Signs!Fell
  <1>7. Signs!Has(21) /\ Signs!Busy(150, 2, 21) => Signs!Busy(120, 2, 21)
    <2> SUFFICES ASSUME Signs!Has(21), Signs!Busy(150, 2, 21) PROVE Signs!Busy(120, 2, 21)
      OBVIOUS
    <2>1. Signs!VolumeSum(2, 21) \in Nat /\ Signs!Back(1).volume \in Nat
      BY <1>3, VolumeIs, BackIs DEF Signs!Has
    <2> QED BY <2>1 DEF Signs!Busy
  <1> HIDE DEF c1, c2, c5, r
  <1>8. ~(Signs!Hit("oversold") /\ (Signs!Hit("strength") \/ Signs!Hit("volume_breakout")))
    BY <1>1, <1>4, <1>5, <1>6
  <1>9. ~(Signs!Hit("risk") /\ (Signs!Hit("breakout") \/ Signs!Hit("oversold") \/ Signs!Hit("rsi_reversal")))
    <2>1. Signs!Has(15) => ~(c1 < c2 /\ c1 > c2) /\ ~(100 * r.num > 60 * r.den /\ 100 * r.num < 30 * r.den)
      BY <1>4
    <2> QED BY <1>1, <1>5, <2>1
  <1>10. Signs!Hit("volume_breakout") => Signs!Hit("strength")
    BY <1>1, <1>4, <1>5, <1>6, <1>7
  <1> QED BY <1>2, <1>8, <1>9, <1>10 DEF Signs!HitsAreCoherent, Signs!Strategies

\* The high of a day that is looked at is no higher than the highest.
LEMMA HighestIs ==
    ASSUME SignInv, Signs!Has(20)
    PROVE  Signs!Highest(2, 20) \in Nat /\ Signs!Back(2).high <= Signs!Highest(2, 20)
  <1> DEFINE f == [i \in 1..19 |-> Signs!Back(i + 1).high]
             H == {Signs!Back(k).high : k \in 2..20}
  <1>1. ASSUME NEW i \in 1..19 PROVE f[i] \in Nat /\ f[i] \in H
    <2>1. i + 1 \in 2..20 /\ i + 1 \in 1..Len(klines)
      BY DEF Signs!Has, SignInv
    <2> QED BY <2>1, BackIs
  <1>2. ASSUME NEW h \in H PROVE \E i \in 1..19 : f[i] = h
    <2>1. PICK k \in 2..20 : h = Signs!Back(k).high
      BY <1>2
    <2>2. k - 1 \in 1..19 /\ k - 1 + 1 = k
      OBVIOUS
    <2>3. f[k - 1] = h
      BY <2>1, <2>2
    <2> QED BY <2>2, <2>3
  <1>3. Signs!Back(2).high \in H
    OBVIOUS
  <1> HIDE DEF f
  <1>4. PICK g \in 1..19 : \A i \in 1..19 : f[i] <= f[g]
    <2>1. \A i \in 1..19 : f[i] \in Int
      BY <1>1
    <2>2. 19 \in Nat \ {0}
      OBVIOUS
    <2> QED BY <2>1, <2>2, GreatestValue
  <1>5. f[g] \in H /\ f[g] \in Nat /\ \A h \in H : f[g] >= h
    BY <1>1, <1>2, <1>4
  <1>6. Signs!Highest(2, 20) = CHOOSE x \in H : \A y \in H : x >= y
    BY DEF Signs!Highest, Signs!Max
  <1>7. H \subseteq Nat
    BY <1>1, <1>2
  <1> HIDE DEF H
  <1>8. Signs!Highest(2, 20) \in H /\ \A y \in H : Signs!Highest(2, 20) >= y
    BY <1>5, <1>6
  <1> QED BY <1>3, <1>7, <1>8

\* What a detector finds has weight.
LEMMA VoiceIs ==
    ASSUME SignInv, Signs!Has(10), NEW m \in {Signs!Spike, Signs!Divergence, Signs!Trend, Signs!RangeBreakout}
    PROVE  Signs!Voice(m, "bearish") \in Nat
  <1> DEFINE n == Len(klines)
             before == Signs!VolumeSum(2, n)
             v == Signs!Back(1).volume
  <1>1. n \in Nat /\ n >= 10
    BY DEF Signs!Has, SignInv
  <1>2. before \in Nat /\ v \in Nat
    BY <1>1, VolumeIs, BackIs
  <1>3. Signs!Max({before, 1}) \in Nat
    BY <1>2 DEF Signs!Max
  <1>4. ASSUME NEW s \in m PROVE Signs!Weight(s) \in Nat
    <2>1. CASE s.type = "spike"
      <3>1. Signs!Busy(200, 2, n)
        BY <1>4, <2>1 DEF Signs!Spike, Signs!Divergence, Signs!Trend, Signs!RangeBreakout, Signs!Mark
      <3> DEFINE w == v * (n - 1)
      <3>2. w \in Nat
        BY <1>1, <1>2
      <3>3. 100 * v * (n - 2 + 1) = 100 * w
        BY <1>1, <1>2
      <3>4. 100 * w > 200 * before
        BY <3>1, <3>3 DEF Signs!Busy
      <3>5. Signs!Weight(s) = Signs!Min({8 * before, 3 * (w - before)})
        BY <2>1 DEF Signs!Weight
      <3> HIDE DEF w, before
      <3>6. 8 * before \in Nat /\ 3 * (w - before) \in Nat
        BY <1>2, <3>2, <3>4
      <3> QED BY <3>5, <3>6 DEF Signs!Min
    <2>2. CASE s.type # "spike"
      <3>1. s.strength \in {5, 6, 7}
        BY <1>4, <2>2 DEF Signs!Spike, Signs!Divergence, Signs!Trend, Signs!RangeBreakout, Signs!Mark
      <3>2. Signs!Weight(s) = s.strength * Signs!Max({before, 1})
        BY <2>2 DEF Signs!Weight
      <3> HIDE DEF before
      <3> QED BY <1>3, <3>1, <3>2
    <2> QED BY <2>1, <2>2
  <1> QED BY <1>4 DEF Signs!Voice

\* Without a rise every detector speaks for selling.
LEMMA BullsDo == SignInv => Signs!BullsNeedARise
  <1> SUFFICES ASSUME SignInv, Signs!TraceDirection = "bullish",
                      ~(Signs!Back(1).close > Signs!Back(2).close), ~(Signs!Back(1).close > Signs!Back(5).close)
               PROVE  FALSE
    BY DEF Signs!BullsNeedARise
  <1> DEFINE F == Signs!Found
             bulls == [i \in DOMAIN F |-> Signs!Voice(F[i], "bullish")]
             bears == [i \in DOMAIN F |-> Signs!Voice(F[i], "bearish")]
  <1>1. Signs!Vote("bullish") > Signs!Vote("bearish")
    BY DEF Signs!TraceDirection
  <1>2. \/ ~Signs!Has(10) /\ Len(F) = 0
        \/ Signs!Has(10) /\ Len(F) = 4 /\ DOMAIN F = 1..4 /\ F[1] = Signs!Spike /\ F[2] = Signs!Divergence
                         /\ F[3] = Signs!Trend /\ F[4] = Signs!RangeBreakout
    BY DEF Signs!Found
  <1>3. /\ Signs!Vote("bullish") = Total(bulls, Len(F))
        /\ Signs!Vote("bearish") = Total(bears, Len(F))
    BY DEF Signs!Vote, Signs!Total, Total
  <1>4. CASE ~Signs!Has(10)
    <2> HIDE DEF bulls, bears
    <2>1. Len(F) = 0 /\ Total(bulls, 0) = 0 /\ Total(bears, 0) = 0
      BY <1>2, <1>4, TotalSteps
    <2> QED BY <1>1, <1>3, <2>1
  <1>5. CASE Signs!Has(10)
    <2>1. \A s \in Signs!Spike \cup Signs!Divergence \cup Signs!Trend : s.direction = "bearish"
      BY DEF Signs!Spike, Signs!Divergence, Signs!Trend, Signs!Mark
    <2>2. \A s \in Signs!RangeBreakout : s.direction = "bearish"
      <3>1. CASE Signs!Has(20)
        <4>1. /\ Signs!Back(1).close \in Nat /\ Signs!Back(2).close \in Nat /\ Signs!Back(2).high \in Nat
              /\ Signs!Back(2).close <= Signs!Back(2).high
          BY <1>5, BackIs DEF Signs!Has, SignInv
        <4>2. ~(Signs!Back(1).close > Signs!Highest(2, 20))
          BY <3>1, <4>1, HighestIs
        <4> QED BY <4>2 DEF Signs!RangeBreakout, Signs!Mark
      <3>2. CASE ~Signs!Has(20)
        BY <3>2 DEF Signs!RangeBreakout
      <3> QED BY <3>1, <3>2
    <2>3. \A i \in 1..4 : F[i] \in {Signs!Spike, Signs!Divergence, Signs!Trend, Signs!RangeBreakout}
      BY <1>2, <1>5
    <2>4. \A i \in 1..4 : Signs!Voice(F[i], "bullish") = 0 /\ Signs!Voice(F[i], "bearish") \in Nat
      <3> TAKE i \in 1..4
      <3>1. \A s \in F[i] : s.direction # "bullish"
        BY <2>1, <2>2, <2>3
      <3>2. Signs!Voice(F[i], "bullish") = 0
        BY <3>1 DEF Signs!Voice
      <3> QED BY <1>5, <2>3, <3>2, VoiceIs
    <2>5. \A i \in 1..4 : bulls[i] = 0 /\ bears[i] \in Nat
      BY <1>2, <1>5, <2>4
    <2> HIDE DEF bulls, bears
    <2>6. Total(bulls, 4) = 0 /\ Total(bears, 4) \in Nat
      BY <2>5, TotalZero, TotalNat
    <2>7. Len(F) = 4
      BY <1>2, <1>5
    <2>8. Signs!Vote("bullish") = 0 /\ Signs!Vote("bearish") \in Nat
      BY <1>3, <2>6, <2>7
    <2> QED BY <1>1, <2>8
  <1> QED BY <1>4, <1>5

----------------------------------------------------------------------------
(* Decisions *)

\* What is asked: reports, factors of the index, signals.
SoundRequest(r) ==
    /\ r.path \in {"agents", "api"} /\ r.reports \subseteq Verdicts!Agents /\ r.change \in Int
    /\ r.factors = [f \in DOMAIN r.factors |-> r.factors[f]]
    /\ DOMAIN r.factors \subseteq Verdicts!Factors /\ \A f \in DOMAIN r.factors : r.factors[f] \in 0..10
    /\ r.signals \subseteq Verdicts!Signal /\ r.moves \subseteq Verdicts!Signal

\* All that is asked is sound.
LEMMA RequestsAreSound ==
    ASSUME NEW r \in Verdicts!Requests
    PROVE  /\ SoundRequest(r)
           /\ r = [path |-> r.path, reports |-> r.reports, factors |-> r.factors, signals |-> r.signals,
                   moves |-> r.moves, change |-> r.change, cached |-> r.cached]
  <1>1. /\ Values \subseteq 0..10 /\ Readings \subseteq Verdicts!Signal /\ Moves \subseteq Verdicts!Signal
        /\ Changes \subseteq Int
    BY ConstantsAreSound DEF Verdicts!DecisionsAssumption
  <1>2. /\ DOMAIN Verdicts!NoFactors = {} /\ Verdicts!NoFactors = [f \in DOMAIN Verdicts!NoFactors |-> Verdicts!NoFactors[f]]
    BY DEF Verdicts!NoFactors
  <1>3. CASE r \in [path : {"api"}, reports : {Verdicts!Agents}, factors : {Verdicts!NoFactors},
                    signals : SUBSET Readings, moves : SUBSET Moves, change : Changes, cached : BOOLEAN]
    BY <1>1, <1>2, <1>3 DEF SoundRequest
  <1>4. ASSUME NEW reports \in SUBSET Verdicts!Agents,
               r \in [path : {"agents"}, reports : {reports},
                      factors : IF "macro" \in reports THEN UNION {[F -> Values] : F \in SUBSET Verdicts!Factors}
                                ELSE {Verdicts!NoFactors},
                      signals : Verdicts!Of("signal", reports, Readings), moves : Verdicts!Of("trace", reports, Moves),
                      change : {0}, cached : {TRUE}]
        PROVE  SoundRequest(r) /\ r = [path |-> r.path, reports |-> r.reports, factors |-> r.factors, signals |-> r.signals,
                                       moves |-> r.moves, change |-> r.change, cached |-> r.cached]
    <2>1. r.signals \subseteq Readings /\ r.moves \subseteq Moves
      BY <1>4 DEF Verdicts!Of
    <2>2. r.path = "agents" /\ r.reports = reports /\ r.change = 0
      BY <1>4
    <2>3. /\ r.factors = [f \in DOMAIN r.factors |-> r.factors[f]]
          /\ DOMAIN r.factors \subseteq Verdicts!Factors /\ \A f \in DOMAIN r.factors : r.factors[f] \in 0..10
      <3>1. CASE r.factors = Verdicts!NoFactors
        BY <1>2, <3>1
      <3>2. ASSUME NEW F \in SUBSET Verdicts!Factors, r.factors \in [F -> Values]
            PROVE  /\ r.factors = [f \in DOMAIN r.factors |-> r.factors[f]]
                   /\ DOMAIN r.factors \subseteq Verdicts!Factors /\ \A f \in DOMAIN r.factors : r.factors[f] \in 0..10
        BY <1>1, <3>2
      <3> QED BY <1>4, <3>1, <3>2
    <2>4. r = [path |-> r.path, reports |-> r.reports, factors |-> r.factors, signals |-> r.signals,
               moves |-> r.moves, change |-> r.change, cached |-> r.cached]
      BY <1>4
    <2> QED BY <1>1, <2>1, <2>2, <2>3, <2>4 DEF SoundRequest
  <1> DEFINE A(reports) ==
                [path : {"agents"}, reports : {reports},
                 factors : IF "macro" \in reports THEN UNION {[F -> Values] : F \in SUBSET Verdicts!Factors}
                           ELSE {Verdicts!NoFactors},
                 signals : Verdicts!Of("signal", reports, Readings), moves : Verdicts!Of("trace", reports, Moves),
                 change : {0}, cached : {TRUE}]
             B == [path : {"api"}, reports : {Verdicts!Agents}, factors : {Verdicts!NoFactors},
                   signals : SUBSET Readings, moves : SUBSET Moves, change : Changes, cached : BOOLEAN]
             C == UNION {A(reports) : reports \in SUBSET Verdicts!Agents}
  <1>5. Verdicts!Requests = C \cup B
    BY DEF Verdicts!Requests
  <1>6. r \in B \/ \E reports \in SUBSET Verdicts!Agents : r \in A(reports)
    <2> HIDE DEF A, B
    <2>1. r \in C => \E reports \in SUBSET Verdicts!Agents : r \in A(reports)
      OBVIOUS
    <2> HIDE DEF C
    <2> QED BY <1>5, <2>1
  <1> QED BY <1>3, <1>4, <1>6

\* The strength of signals.
LEMMA StrengthIs ==
    ASSUME NEW S, S \subseteq Verdicts!Signal, NEW d \in {"bullish", "bearish"}
    PROVE  /\ Verdicts!Strength(S, d) \in Nat
           /\ Verdicts!Turned(S) \subseteq Verdicts!Signal
           /\ Verdicts!Strength(Verdicts!Turned(S), d) = Verdicts!Strength(S, Verdicts!Opposite(d))
  <1> DEFINE turn(s) == [s EXCEPT !.direction = Verdicts!Opposite(s.direction)]
             T == Verdicts!Turned(S)
             of(Q, e, n) == {s \in Q : s.direction = e /\ s.strength = n}
             f(Q, e) == [n \in 1..10 |-> n * Verdicts!Cardinality(of(Q, e, n))]
  <1>0. \A Q : Verdicts!Cardinality(Q) = Cardinality(Q)
    BY DEF Verdicts!Cardinality, Cardinality
  <1>1. \A Q, e : Verdicts!Strength(Q, e) = Total(f(Q, e), 10)
    BY DEF Verdicts!Strength, Verdicts!Total, Total
  <1>2. Verdicts!Opposite("bullish") = "bearish" /\ Verdicts!Opposite("bearish") = "bullish"
    BY DEF Verdicts!Opposite
  <1>3. T = {turn(s) : s \in S}
    BY DEF Verdicts!Turned
  <1>4. ASSUME NEW s \in Verdicts!Signal
        PROVE  /\ turn(s) \in Verdicts!Signal /\ turn(turn(s)) = s
               /\ turn(s).strength = s.strength /\ turn(s).direction = Verdicts!Opposite(s.direction)
               /\ s.direction \in {"bullish", "bearish"}
    BY <1>2, <1>4 DEF Verdicts!Signal
  <1> HIDE DEF turn, T
  <1>5. T \subseteq Verdicts!Signal
    BY <1>3, <1>4
  <1>6. ASSUME NEW Q, Q \subseteq Verdicts!Signal, NEW e, NEW n \in 1..10
        PROVE  IsFiniteSet(of(Q, e, n)) /\ Cardinality(of(Q, e, n)) \in Nat
    <2> DEFINE A == [type |-> "divergence", direction |-> e, strength |-> n]
               B == [type |-> "other", direction |-> e, strength |-> n]
    <2>1. of(Q, e, n) \subseteq {A} \cup {B}
      BY <1>6 DEF Verdicts!Signal
    <2> HIDE DEF of, A, B
    <2>2. IsFiniteSet({A} \cup {B})
      BY FS_Singleton, FS_AddElement
    <2>3. IsFiniteSet(of(Q, e, n))
      BY <2>1, <2>2, FS_Subset
    <2> QED BY <2>3, FS_CardinalityType
  <1>7. Verdicts!Strength(S, d) \in Nat
    <2>1. \A n \in 1..10 : f(S, d)[n] \in Nat
      <3> HIDE DEF of
      <3> QED BY <1>0, <1>6
    <2> HIDE DEF f
    <2>2. Total(f(S, d), 10) \in Nat
      BY <2>1, TotalNat
    <2> QED BY <1>1, <2>2
  <1>8. ASSUME NEW n \in 1..10
        PROVE  Cardinality(of(T, d, n)) = Cardinality(of(S, Verdicts!Opposite(d), n))
    <2> DEFINE U == of(S, Verdicts!Opposite(d), n)
               V == of(T, d, n)
               g == [s \in U |-> turn(s)]
    <2>1. \A s \in U : s \in Verdicts!Signal /\ turn(s) \in V
      BY <1>2, <1>3, <1>4
    <2>2. \A s, t \in U : turn(s) = turn(t) => s = t
      BY <1>4, <2>1
    <2>3. \A t \in V : \E s \in U : turn(s) = t
      <3> TAKE t \in V
      <3>1. PICK s \in S : t = turn(s)
        BY <1>3
      <3>2. s \in U
        BY <1>2, <1>4, <3>1
      <3> QED BY <3>1, <3>2
    <2>4. IsFiniteSet(U)
      <3> HIDE DEF of
      <3> QED BY <1>6
    <2> HIDE DEF U, V
    <2>5. g \in Bijection(U, V)
      BY <2>1, <2>2, <2>3 DEF Bijection, Injection, Surjection, IsInjective
    <2>6. ExistsBijection(U, V)
      BY <2>5 DEF ExistsBijection
    <2>7. Cardinality(V) = Cardinality(U)
      BY <2>4, <2>6, FS_Bijection
    <2> QED BY <2>7 DEF U, V
  <1>9. Verdicts!Strength(T, d) = Verdicts!Strength(S, Verdicts!Opposite(d))
    <2>1. \A n \in 1..10 : f(T, d)[n] = f(S, Verdicts!Opposite(d))[n]
      <3> HIDE DEF of
      <3> QED BY <1>0, <1>8
    <2> HIDE DEF f
    <2>2. Total(f(T, d), 10) = Total(f(S, Verdicts!Opposite(d)), 10)
      BY <2>1, TotalSame
    <2> QED BY <1>1, <2>2
  <1> QED BY <1>5, <1>7, <1>9 DEF T

\* The balance is within the mass; that of signals turned round is the opposite.
LEMMA BalanceIs ==
    ASSUME NEW S, S \subseteq Verdicts!Signal
    PROVE  /\ Verdicts!Mass(S) \in Nat \ {0}
           /\ Verdicts!Balance(S) \in Int /\ Verdicts!Balance(S) <= Verdicts!Mass(S) /\ -Verdicts!Mass(S) <= Verdicts!Balance(S)
           /\ Verdicts!Mass(Verdicts!Turned(S)) = Verdicts!Mass(S)
           /\ Verdicts!Balance(Verdicts!Turned(S)) = -Verdicts!Balance(S)
  <1> DEFINE u == Verdicts!Strength(S, "bullish")
             d == Verdicts!Strength(S, "bearish")
             T == Verdicts!Turned(S)
  <1>1. u \in Nat /\ d \in Nat
    BY StrengthIs
  <1>2. Verdicts!Strength(T, "bullish") = d /\ Verdicts!Strength(T, "bearish") = u
    <2>1. Verdicts!Opposite("bullish") = "bearish" /\ Verdicts!Opposite("bearish") = "bullish"
      BY DEF Verdicts!Opposite
    <2> QED BY <2>1, StrengthIs
  <1>3. /\ Verdicts!Balance(S) = u - d /\ Verdicts!Mass(S) = (IF 10 > u + d THEN 10 ELSE u + d)
        /\ Verdicts!Balance(T) = d - u /\ Verdicts!Mass(T) = (IF 10 > d + u THEN 10 ELSE d + u)
    BY <1>2 DEF Verdicts!Balance, Verdicts!Mass, Verdicts!Larger
  <1> HIDE DEF u, d, T
  <1>4. /\ Verdicts!Mass(S) \in Nat \ {0}
        /\ Verdicts!Balance(S) \in Int /\ Verdicts!Balance(S) <= Verdicts!Mass(S) /\ -Verdicts!Mass(S) <= Verdicts!Balance(S)
        /\ Verdicts!Mass(T) = Verdicts!Mass(S)
        /\ Verdicts!Balance(T) = -Verdicts!Balance(S)
    BY <1>1, <1>3
  <1> QED BY <1>4 DEF T


\* The index of the factors that are there: weights that add up to 10.
LEMMA WeighedIndex ==
    ASSUME NEW r, SoundRequest(r), r.path # "api", "macro" \in r.reports
    PROVE  LET D == DOMAIN r.factors
               b == r.factors["breadth"]
               s == r.factors["sector"]
               p == r.factors["position"]
           IN  \/ D = {} /\ Verdicts!Index(r) = 50
               \/ D = {"breadth", "sector", "position"} /\ Verdicts!Index(r) = 4 * b + 3 * s + 3 * p
               \/ D = {"breadth", "sector"} /\ Verdicts!Index(r) = 6 * b + 4 * s
               \/ D = {"breadth", "position"} /\ Verdicts!Index(r) = 6 * b + 4 * p
               \/ D = {"sector", "position"} /\ Verdicts!Index(r) = 5 * s + 5 * p
               \/ D = {"breadth"} /\ Verdicts!Index(r) = 10 * b
               \/ D = {"sector"} /\ Verdicts!Index(r) = 10 * s
               \/ D = {"position"} /\ Verdicts!Index(r) = 10 * p
  <1> DEFINE D == DOMAIN r.factors
             W == Verdicts!Weights(D)
             b == r.factors["breadth"]
             s == r.factors["sector"]
             p == r.factors["position"]
  <1>1. D \subseteq {"breadth", "sector", "position"} /\ \A f \in D : r.factors[f] \in Nat
    BY DEF SoundRequest, Verdicts!Factors
  <1>2. Verdicts!Index(r) = IF D = {} THEN 50
                            ELSE (IF "breadth" \in D THEN W["breadth"] * b ELSE 0)
                                 + (IF "sector" \in D THEN W["sector"] * s ELSE 0)
                                 + (IF "position" \in D THEN W["position"] * p ELSE 0)
    BY DEF Verdicts!Index, Verdicts!Share
  <1>3. Verdicts!Factors = {"breadth", "sector", "position"}
    BY DEF Verdicts!Factors
  <1>4. /\ "breadth" \in D => b \in Nat
        /\ "sector" \in D => s \in Nat
        /\ "position" \in D => p \in Nat
    BY <1>1
  <1> HIDE DEF D, b, s, p
  <1>5. CASE D = {}
    BY <1>2, <1>5 DEF D
  <1>6. CASE D = {"breadth", "sector", "position"}
    <2>1. W = [f \in D |-> IF f = "breadth" THEN 4 ELSE 3]
      BY <1>3, <1>6 DEF Verdicts!Weights
    <2>2. W["breadth"] = 4 /\ W["sector"] = 3 /\ W["position"] = 3
      BY <1>6, <2>1
    <2>3. Verdicts!Index(r) = 4 * b + 3 * s + 3 * p
      BY <1>2, <1>4, <1>6, <2>2
    <2> QED BY <1>6, <2>3 DEF D, b, s, p
  <1>7. CASE D = {"breadth", "sector"}
    <2>1. W = [f \in D |-> IF f = "breadth" THEN 6 ELSE 4]
      <3>1. "position" \notin D /\ "breadth" \in D /\ "sector" \in D
        BY <1>7
      <3> QED BY <1>3, <3>1 DEF Verdicts!Weights
    <2>2. W["breadth"] = 6 /\ W["sector"] = 4
      BY <1>7, <2>1
    <2>3. Verdicts!Index(r) = 6 * b + 4 * s
      BY <1>2, <1>4, <1>7, <2>2
    <2> QED BY <1>7, <2>3 DEF D, b, s, p
  <1>8. CASE D = {"breadth", "position"}
    <2>1. W = [f \in D |-> IF f = "breadth" THEN 6 ELSE 4]
      <3>1. "sector" \notin D /\ "breadth" \in D /\ "position" \in D
        BY <1>8
      <3> QED BY <1>3, <3>1 DEF Verdicts!Weights
    <2>2. W["breadth"] = 6 /\ W["position"] = 4
      BY <1>8, <2>1
    <2>3. Verdicts!Index(r) = 6 * b + 4 * p
      BY <1>2, <1>4, <1>8, <2>2
    <2> QED BY <1>8, <2>3 DEF D, b, s, p
  <1>9. CASE D = {"sector", "position"}
    <2>1. W = [f \in D |-> 5]
      <3>1. "breadth" \notin D /\ "sector" \in D /\ "position" \in D
        BY <1>9
      <3> QED BY <1>3, <1>9, <3>1 DEF Verdicts!Weights
    <2>2. W["sector"] = 5 /\ W["position"] = 5
      BY <1>9, <2>1
    <2>3. Verdicts!Index(r) = 5 * s + 5 * p
      BY <1>2, <1>4, <1>9, <2>2
    <2> QED BY <1>9, <2>3 DEF D, b, s, p
  <1>10. ASSUME NEW f \in Verdicts!Factors, D = {f}
         PROVE  Verdicts!Index(r) = 10 * r.factors[f]
    <2>1. W = [g \in D |-> 10]
      <3>1. D # Verdicts!Factors /\ D # {"sector", "position"} /\ D \in {{g} : g \in Verdicts!Factors}
        BY <1>3, <1>10
      <3> QED BY <3>1 DEF Verdicts!Weights
    <2>2. W[f] = 10
      BY <1>10, <2>1
    <2> QED BY <1>2, <1>3, <1>4, <1>10, <2>2 DEF b, s, p
  <1>11. \/ D = {} \/ D = {"breadth", "sector", "position"} \/ D = {"breadth", "sector"} \/ D = {"breadth", "position"}
         \/ D = {"sector", "position"} \/ D = {"breadth"} \/ D = {"sector"} \/ D = {"position"}
    BY <1>1
  <1>12. CASE D = {"breadth"}
    BY <1>3, <1>10, <1>12 DEF D, b
  <1>13. CASE D = {"sector"}
    BY <1>3, <1>10, <1>13 DEF D, s
  <1>14. CASE D = {"position"}
    BY <1>3, <1>10, <1>14 DEF D, p
  <1> QED BY <1>5, <1>6, <1>7, <1>8, <1>9, <1>11, <1>12, <1>13, <1>14

\* The reports turned round.
LEMMA MirrorIs ==
    ASSUME NEW r, SoundRequest(r),
           r = [path |-> r.path, reports |-> r.reports, factors |-> r.factors, signals |-> r.signals,
                moves |-> r.moves, change |-> r.change, cached |-> r.cached]
    PROVE  LET m == Verdicts!Mirror(r)
           IN  /\ SoundRequest(m)
               /\ m.path = r.path /\ m.reports = r.reports
               /\ m.signals = Verdicts!Turned(r.signals) /\ m.moves = Verdicts!Turned(r.moves)
               /\ DOMAIN m.factors = DOMAIN r.factors
               /\ \A f \in DOMAIN r.factors : m.factors[f] = 10 - r.factors[f]
  <1> DEFINE D == DOMAIN r.factors
             g == [f \in D |-> 10 - r.factors[f]]
             S == Verdicts!Turned(r.signals)
             M == Verdicts!Turned(r.moves)
             m == [path |-> r.path, reports |-> r.reports, factors |-> g, signals |-> S,
                   moves |-> M, change |-> r.change, cached |-> r.cached]
  <1>1. Verdicts!Mirror(r) = [r EXCEPT !.factors = g, !.signals = S, !.moves = M]
    BY DEF Verdicts!Mirror
  <1>2. S \subseteq Verdicts!Signal /\ M \subseteq Verdicts!Signal
    BY StrengthIs DEF SoundRequest
  <1>3. g = [f \in DOMAIN g |-> g[f]] /\ DOMAIN g = D /\ \A f \in D : g[f] = 10 - r.factors[f]
    OBVIOUS
  <1>4. \A f \in D : g[f] \in 0..10
    BY <1>3 DEF SoundRequest
  <1> HIDE DEF g, S, M
  <1>5. Verdicts!Mirror(r) = m
    BY <1>1
  <1>6. SoundRequest(m)
    BY <1>2, <1>3, <1>4 DEF SoundRequest
  <1>7. m.path = r.path /\ m.reports = r.reports /\ m.factors = g /\ m.signals = S /\ m.moves = M
    OBVIOUS
  <1> HIDE DEF m
  <1> QED BY <1>3, <1>5, <1>6, <1>7 DEF S, M

\* The index is between the factors that are there, and on the other side of 50 for factors
\* turned round.
LEMMA IndexIs ==
    ASSUME NEW r, SoundRequest(r), NEW m, SoundRequest(m),
           m.path = r.path, m.reports = r.reports, DOMAIN m.factors = DOMAIN r.factors,
           \A f \in DOMAIN r.factors : m.factors[f] = 10 - r.factors[f]
    PROVE  /\ Verdicts!Index(r) \in Int
           /\ Verdicts!Index(r) = Verdicts!Missing <=> (r.path = "api" \/ "macro" \notin r.reports)
           /\ Verdicts!Tilt(r) \in Int /\ -50 <= Verdicts!Tilt(r) /\ Verdicts!Tilt(r) <= 50
           /\ Verdicts!Tilt(m) = -Verdicts!Tilt(r)
           /\ Verdicts!Index(r) # Verdicts!Missing /\ DOMAIN r.factors # {} =>
                  /\ \E f \in DOMAIN r.factors : 10 * r.factors[f] <= Verdicts!Index(r)
                  /\ \E f \in DOMAIN r.factors : 10 * r.factors[f] >= Verdicts!Index(r)
  <1> DEFINE D == DOMAIN r.factors
             b == r.factors["breadth"]
             s == r.factors["sector"]
             p == r.factors["position"]
             x == Verdicts!Index(r)
             y == Verdicts!Index(m)
  <1>1. CASE r.path = "api" \/ "macro" \notin r.reports
    <2>1. x = -1 /\ y = -1
      BY <1>1 DEF Verdicts!Index, Verdicts!Missing
    <2>2. Verdicts!Tilt(r) = 0 /\ Verdicts!Tilt(m) = 0
      BY <2>1 DEF Verdicts!Tilt, Verdicts!Missing
    <2> HIDE DEF x, y
    <2>3. x \in Int /\ x = Verdicts!Missing
      BY <2>1 DEF Verdicts!Missing
    <2>4. /\ Verdicts!Tilt(r) \in Int /\ -50 <= Verdicts!Tilt(r) /\ Verdicts!Tilt(r) <= 50
          /\ Verdicts!Tilt(m) \in Int /\ Verdicts!Tilt(r) + Verdicts!Tilt(m) = 0
      BY <2>2
    <2>5. Verdicts!Tilt(m) = -Verdicts!Tilt(r)
      BY <2>4
    <2> QED BY <1>1, <2>3, <2>4, <2>5 DEF x
  <1>2. CASE r.path # "api" /\ "macro" \in r.reports
    <2>1. /\ "breadth" \in D => b \in 0..10 /\ m.factors["breadth"] = 10 - b
          /\ "sector" \in D => s \in 0..10 /\ m.factors["sector"] = 10 - s
          /\ "position" \in D => p \in 0..10 /\ m.factors["position"] = 10 - p
      BY DEF SoundRequest
    <2>2. \/ D = {} /\ x = 50
          \/ D = {"breadth", "sector", "position"} /\ x = 4 * b + 3 * s + 3 * p
          \/ D = {"breadth", "sector"} /\ x = 6 * b + 4 * s
          \/ D = {"breadth", "position"} /\ x = 6 * b + 4 * p
          \/ D = {"sector", "position"} /\ x = 5 * s + 5 * p
          \/ D = {"breadth"} /\ x = 10 * b
          \/ D = {"sector"} /\ x = 10 * s
          \/ D = {"position"} /\ x = 10 * p
      BY <1>2, WeighedIndex
    <2> DEFINE c == m.factors["breadth"]
               t == m.factors["sector"]
               q == m.factors["position"]
    <2>3. \/ D = {} /\ y = 50
          \/ D = {"breadth", "sector", "position"} /\ y = 4 * c + 3 * t + 3 * q
          \/ D = {"breadth", "sector"} /\ y = 6 * c + 4 * t
          \/ D = {"breadth", "position"} /\ y = 6 * c + 4 * q
          \/ D = {"sector", "position"} /\ y = 5 * t + 5 * q
          \/ D = {"breadth"} /\ y = 10 * c
          \/ D = {"sector"} /\ y = 10 * t
          \/ D = {"position"} /\ y = 10 * q
      BY <1>2, WeighedIndex
    <2> DEFINE Good ==
                  /\ x \in Int /\ 0 <= x /\ x <= 100 /\ y = 100 - x
                  /\ D # {} => /\ \E f \in D : 10 * r.factors[f] <= x
                               /\ \E f \in D : 10 * r.factors[f] >= x
    <2> HIDE DEF D, x, y, b, s, p, c, t, q
    <2>4. ASSUME D = {} PROVE Good
      BY <2>2, <2>3, <2>4
    <2>5. ASSUME D = {"breadth", "sector", "position"} PROVE Good
      <3>1. x = 4 * b + 3 * s + 3 * p /\ y = 4 * c + 3 * t + 3 * q /\ b \in 0..10 /\ s \in 0..10 /\ p \in 0..10
        BY <2>1, <2>2, <2>3, <2>5
      <3>2. c = 10 - b /\ t = 10 - s /\ q = 10 - p
        BY <2>1, <2>5 DEF c, t, q
      <3>3. x \in Int /\ 0 <= x /\ x <= 100 /\ y = 100 - x
        BY <3>1, <3>2
      <3>4. (10 * b <= x \/ 10 * s <= x \/ 10 * p <= x) /\ (10 * b >= x \/ 10 * s >= x \/ 10 * p >= x)
        BY <3>1
      <3>5. "breadth" \in D /\ "sector" \in D /\ "position" \in D
        BY <2>5
      <3> QED BY <3>3, <3>4, <3>5 DEF b, s, p
    <2>6. ASSUME D = {"breadth", "sector"} PROVE Good
      <3>1. x = 6 * b + 4 * s /\ y = 6 * c + 4 * t /\ b \in 0..10 /\ s \in 0..10
        BY <2>1, <2>2, <2>3, <2>6
      <3>2. c = 10 - b /\ t = 10 - s
        BY <2>1, <2>6 DEF c, t
      <3>3. x \in Int /\ 0 <= x /\ x <= 100 /\ y = 100 - x
        BY <3>1, <3>2
      <3>4. (10 * b <= x \/ 10 * s <= x) /\ (10 * b >= x \/ 10 * s >= x)
        BY <3>1
      <3>5. "breadth" \in D /\ "sector" \in D
        BY <2>6
      <3> QED BY <3>3, <3>4, <3>5 DEF b, s
    <2>7. ASSUME D = {"breadth", "position"} PROVE Good
      <3>1. x = 6 * b + 4 * p /\ y = 6 * c + 4 * q /\ b \in 0..10 /\ p \in 0..10
        BY <2>1, <2>2, <2>3, <2>7
      <3>2. c = 10 - b /\ q = 10 - p
        BY <2>1, <2>7 DEF c, q
      <3>3. x \in Int /\ 0 <= x /\ x <= 100 /\ y = 100 - x
        BY <3>1, <3>2
      <3>4. (10 * b <= x \/ 10 * p <= x) /\ (10 * b >= x \/ 10 * p >= x)
        BY <3>1
      <3>5. "breadth" \in D /\ "position" \in D
        BY <2>7
      <3> QED BY <3>3, <3>4, <3>5 DEF b, p
    <2>8. ASSUME D = {"sector", "position"} PROVE Good
      <3>1. x = 5 * s + 5 * p /\ y = 5 * t + 5 * q /\ s \in 0..10 /\ p \in 0..10
        BY <2>1, <2>2, <2>3, <2>8
      <3>2. t = 10 - s /\ q = 10 - p
        BY <2>1, <2>8 DEF t, q
      <3>3. x \in Int /\ 0 <= x /\ x <= 100 /\ y = 100 - x
        BY <3>1, <3>2
      <3>4. (10 * s <= x \/ 10 * p <= x) /\ (10 * s >= x \/ 10 * p >= x)
        BY <3>1
      <3>5. "sector" \in D /\ "position" \in D
        BY <2>8
      <3> QED BY <3>3, <3>4, <3>5 DEF s, p
    <2>9. ASSUME D = {"breadth"} PROVE Good
      <3>1. x = 10 * b /\ y = 10 * c /\ b \in 0..10 /\ c = 10 - b
        BY <2>1, <2>2, <2>3, <2>9 DEF c
      <3>2. x \in Int /\ 0 <= x /\ x <= 100 /\ y = 100 - x /\ 10 * b <= x /\ 10 * b >= x
        BY <3>1
      <3> QED BY <2>9, <3>2 DEF b
    <2>10. ASSUME D = {"sector"} PROVE Good
      <3>1. x = 10 * s /\ y = 10 * t /\ s \in 0..10 /\ t = 10 - s
        BY <2>1, <2>2, <2>3, <2>10 DEF t
      <3>2. x \in Int /\ 0 <= x /\ x <= 100 /\ y = 100 - x /\ 10 * s <= x /\ 10 * s >= x
        BY <3>1
      <3> QED BY <2>10, <3>2 DEF s
    <2>11. ASSUME D = {"position"} PROVE Good
      <3>1. x = 10 * p /\ y = 10 * q /\ p \in 0..10 /\ q = 10 - p
        BY <2>1, <2>2, <2>3, <2>11 DEF q
      <3>2. x \in Int /\ 0 <= x /\ x <= 100 /\ y = 100 - x /\ 10 * p <= x /\ 10 * p >= x
        BY <3>1
      <3> QED BY <2>11, <3>2 DEF p
    <2>12. Good
      <3> HIDE DEF Good
      <3> QED BY <2>2, <2>4, <2>5, <2>6, <2>7, <2>8, <2>9, <2>10, <2>11
    <2>13. x # Verdicts!Missing /\ y # Verdicts!Missing
      BY <2>12 DEF Verdicts!Missing
    <2>14. Verdicts!Tilt(r) = x - 50 /\ Verdicts!Tilt(m) = y - 50
      BY <2>13 DEF Verdicts!Tilt, x, y
    <2>15. Verdicts!Tilt(r) \in Int /\ -50 <= Verdicts!Tilt(r) /\ Verdicts!Tilt(r) <= 50 /\ Verdicts!Tilt(m) = -Verdicts!Tilt(r)
      BY <2>12, <2>14
    <2> QED BY <1>2, <2>12, <2>13, <2>15 DEF D, x
  <1> QED BY <1>1, <1>2

\* A product has the sign of its factor, and is as far from 0 as it.
LEMMA Scaled ==
    ASSUME NEW n \in Int, NEW k \in Nat \ {0}, NEW b \in Nat, -b <= n, n <= b
    PROVE  n * k \in Int /\ -(b * k) <= n * k /\ n * k <= b * k /\ (n * k > 0 <=> n > 0) /\ (n * k < 0 <=> n < 0)
  <1> DEFINE u == n * k
             w == b * k
             z == (-b) * k
  <1>1. u \in Int /\ w \in Int /\ z \in Int /\ z = -w
    OBVIOUS
  <1>2. u <= w
    BY SMTT(30)
  <1>3. z <= u
    BY SMTT(30)
  <1>4. n > 0 => u > 0
    BY SMTT(30)
  <1>5. (n = 0 => u = 0) /\ (n < 0 => u < 0)
    BY SMTT(30)
  <1> HIDE DEF u, w, z
  <1>6. -w <= u /\ u <= w /\ (u > 0 <=> n > 0) /\ (u < 0 <=> n < 0)
    BY <1>1, <1>2, <1>3, <1>4, <1>5
  <1> QED BY <1>1, <1>6 DEF u, w

\* Two of three agents that lean.
LEMMA TwoLean ==
    ASSUME NEW L, L \subseteq Verdicts!Agents, NEW x \in L, NEW y \in L, x # y
    PROVE  Verdicts!Cardinality(L) >= 2
  <1>1. Verdicts!Cardinality(L) = Cardinality(L)
    BY DEF Verdicts!Cardinality, Cardinality
  <1>2. IsFiniteSet(Verdicts!Agents)
    <2>1. Verdicts!Agents = ({"macro"} \cup {"signal"}) \cup {"trace"}
      BY DEF Verdicts!Agents
    <2>2. IsFiniteSet({"macro"} \cup {"signal"})
      BY FS_Singleton, FS_AddElement
    <2>3. IsFiniteSet(({"macro"} \cup {"signal"}) \cup {"trace"})
      <3> DEFINE two == {"macro"} \cup {"signal"}
      <3> HIDE DEF two
      <3>1. IsFiniteSet(two)
        BY <2>2 DEF two
      <3>2. IsFiniteSet(two \cup {"trace"})
        BY <3>1, FS_AddElement
      <3> QED BY <3>2 DEF two
    <2> QED BY <2>1, <2>3
  <1>3. IsFiniteSet(L)
    BY <1>2, FS_Subset
  <1> DEFINE pair == {x} \cup {y}
  <1>4. IsFiniteSet({x}) /\ Cardinality({x}) = 1
    BY FS_Singleton
  <1>5. Cardinality(pair) = 2
    <2>1. y \notin {x}
      OBVIOUS
    <2>2. Cardinality({x} \cup {y}) = Cardinality({x}) + 1
      BY <1>4, <2>1, FS_AddElement
    <2> QED BY <1>4, <2>2
  <1>6. Cardinality(pair) <= Cardinality(L)
    <2>1. pair \subseteq L
      OBVIOUS
    <2> HIDE DEF pair
    <2> QED BY <1>3, <2>1, FS_Subset
  <1>7. Cardinality(L) \in Nat
    BY <1>3, FS_CardinalityType
  <1> HIDE DEF pair
  <1> QED BY <1>1, <1>5, <1>6, <1>7

\* The score of reports and of the same reports turned round.
LEMMA ScoresAre ==
    ASSUME NEW r, SoundRequest(r),
           r = [path |-> r.path, reports |-> r.reports, factors |-> r.factors, signals |-> r.signals,
                moves |-> r.moves, change |-> r.change, cached |-> r.cached]
    PROVE  LET m == Verdicts!Mirror(r)
           IN  /\ Verdicts!Score(r) \in Int /\ Verdicts!Whole(r) \in Nat \ {0}
               /\ 10 * Verdicts!AbsOf(Verdicts!Score(r)) <= 8 * Verdicts!Whole(r)
               /\ Verdicts!Score(m) = -Verdicts!Score(r) /\ Verdicts!Whole(m) = Verdicts!Whole(r)
               /\ 10 * Verdicts!Score(r) > 3 * Verdicts!Whole(r) => Verdicts!Cardinality(Verdicts!Leaning(r)) >= 2
               /\ 10 * Verdicts!Score(r) < -(3 * Verdicts!Whole(r)) => Verdicts!Cardinality(Verdicts!Leaning(m)) >= 2
  <1> DEFINE m  == Verdicts!Mirror(r)
             t  == Verdicts!Tilt(r)
             ms == Verdicts!Mass(r.signals)
             mm == Verdicts!Mass(r.moves)
             bs == Verdicts!Balance(r.signals)
             bm == Verdicts!Balance(r.moves)
             P  == ms * mm
             A  == t * ms * mm
             B  == 50 * bs * mm
             C  == 60 * bm * ms
  <1>1. /\ SoundRequest(m) /\ m.path = r.path /\ m.reports = r.reports
        /\ m.signals = Verdicts!Turned(r.signals) /\ m.moves = Verdicts!Turned(r.moves)
        /\ DOMAIN m.factors = DOMAIN r.factors /\ \A f \in DOMAIN r.factors : m.factors[f] = 10 - r.factors[f]
    BY MirrorIs
  <1>2. t \in Int /\ -50 <= t /\ t <= 50 /\ Verdicts!Tilt(m) = -t
    <2> HIDE DEF m
    <2> QED BY <1>1, IndexIs
  <1>3. /\ r.signals \subseteq Verdicts!Signal /\ r.moves \subseteq Verdicts!Signal
    BY DEF SoundRequest
  <1>4. /\ ms \in Nat \ {0} /\ bs \in Int /\ bs <= ms /\ -ms <= bs
        /\ Verdicts!Mass(m.signals) = ms /\ Verdicts!Balance(m.signals) = -bs
    BY <1>1, <1>3, BalanceIs
  <1>5. /\ mm \in Nat \ {0} /\ bm \in Int /\ bm <= mm /\ -mm <= bm
        /\ Verdicts!Mass(m.moves) = mm /\ Verdicts!Balance(m.moves) = -bm
    BY <1>1, <1>3, BalanceIs
  <1> HIDE DEF t, ms, mm, bs, bm, m
  <1>6. /\ P \in Nat \ {0} /\ A \in Int /\ B \in Int /\ C \in Int
        /\ -(50 * P) <= A /\ A <= 50 * P /\ -(50 * P) <= B /\ B <= 50 * P /\ -(60 * P) <= C /\ C <= 60 * P
        /\ (A > 0 <=> t > 0) /\ (A < 0 <=> t < 0)
        /\ (B > 0 <=> bs > 0) /\ (B < 0 <=> bs < 0)
        /\ (C > 0 <=> bm > 0) /\ (C < 0 <=> bm < 0)
        /\ (-t) * ms * mm = -A /\ 50 * (-bs) * mm = -B /\ 60 * (-bm) * ms = -C
        /\ 200 * ms * mm = 200 * P
    <2> DEFINE k == t * P
               l == bs * mm
               n == bm * ms
    <2>1. P \in Nat \ {0} /\ ms * mm = mm * ms
      BY <1>2, <1>4, <1>5, SMTT(30)
    <2>2. k \in Int /\ -(50 * P) <= k /\ k <= 50 * P /\ (k > 0 <=> t > 0) /\ (k < 0 <=> t < 0)
      <3> HIDE DEF P
      <3> QED BY <1>2, <2>1, Scaled
    <2>3. l \in Int /\ -(ms * mm) <= l /\ l <= ms * mm /\ (l > 0 <=> bs > 0) /\ (l < 0 <=> bs < 0)
      BY <1>4, <1>5, Scaled
    <2>4. n \in Int /\ -(mm * ms) <= n /\ n <= mm * ms /\ (n > 0 <=> bm > 0) /\ (n < 0 <=> bm < 0)
      BY <1>4, <1>5, Scaled
    <2>5. /\ t * ms * mm = k /\ (-t) * ms * mm = -k
          /\ 50 * bs * mm = 50 * l /\ 50 * (-bs) * mm = -(50 * l)
          /\ 60 * bm * ms = 60 * n /\ 60 * (-bm) * ms = -(60 * n)
          /\ 200 * ms * mm = 200 * P
      BY <1>2, <1>4, <1>5, SMTT(30)
    <2>6. -P <= l /\ l <= P /\ -P <= n /\ n <= P
      BY <2>1, <2>3, <2>4
    <2>7. (l > 0 <=> bs > 0) /\ (n > 0 <=> bm > 0) /\ (l < 0 <=> bs < 0) /\ (n < 0 <=> bm < 0) /\ l \in Int /\ n \in Int
      BY <2>3, <2>4
    <2> HIDE DEF P, k, l, n
    <2>8. /\ 50 * l \in Int /\ -(50 * P) <= 50 * l /\ 50 * l <= 50 * P /\ (50 * l > 0 <=> l > 0) /\ (50 * l < 0 <=> l < 0)
          /\ 60 * n \in Int /\ -(60 * P) <= 60 * n /\ 60 * n <= 60 * P /\ (60 * n > 0 <=> n > 0) /\ (60 * n < 0 <=> n < 0)
      BY <2>1, <2>6, <2>7
    <2>9. (50 * l > 0 <=> bs > 0) /\ (60 * n > 0 <=> bm > 0) /\ (50 * l < 0 <=> bs < 0) /\ (60 * n < 0 <=> bm < 0)
      BY <2>7, <2>8
    <2> QED BY <2>1, <2>2, <2>5, <2>8, <2>9 DEF P
  <1>7. /\ Verdicts!Score(r) = A + B + C /\ Verdicts!Whole(r) = 200 * ms * mm
        /\ Verdicts!Score(m) = (-t) * ms * mm + 50 * (-bs) * mm + 60 * (-bm) * ms
        /\ Verdicts!Whole(m) = 200 * ms * mm
    BY <1>2, <1>4, <1>5 DEF Verdicts!Score, Verdicts!Whole, t, ms, mm, bs, bm
  <1> DEFINE U == 200 * ms * mm
             a == (-t) * ms * mm
             b == 50 * (-bs) * mm
             c == 60 * (-bm) * ms
  <1> HIDE DEF P, A, B, C, U, a, b, c
  <1>8. /\ P \in Nat \ {0} /\ A \in Int /\ B \in Int /\ C \in Int
        /\ -(50 * P) <= A /\ A <= 50 * P /\ -(50 * P) <= B /\ B <= 50 * P /\ -(60 * P) <= C /\ C <= 60 * P
        /\ a = -A /\ b = -B /\ c = -C /\ U = 200 * P
    BY <1>6 DEF U, a, b, c
  <1>9. /\ (A > 0 <=> t > 0) /\ (B > 0 <=> bs > 0) /\ (C > 0 <=> bm > 0)
        /\ (A < 0 <=> t < 0) /\ (B < 0 <=> bs < 0) /\ (C < 0 <=> bm < 0)
    BY <1>6
  <1>10. /\ Verdicts!Score(r) = A + B + C /\ Verdicts!Whole(r) = U
         /\ Verdicts!Score(m) = a + b + c /\ Verdicts!Whole(m) = U
    BY <1>7 DEF U, a, b, c
  <1>11. /\ Verdicts!Score(r) \in Int /\ Verdicts!Whole(r) \in Nat \ {0}
         /\ Verdicts!Score(m) = -Verdicts!Score(r) /\ Verdicts!Whole(m) = Verdicts!Whole(r)
    BY <1>8, <1>10
  <1>12. 10 * Verdicts!AbsOf(Verdicts!Score(r)) <= 8 * Verdicts!Whole(r)
    BY <1>8, <1>10 DEF Verdicts!AbsOf
  <1>13. "macro" \in Verdicts!Agents /\ "signal" \in Verdicts!Agents /\ "trace" \in Verdicts!Agents
    BY DEF Verdicts!Agents
  <1>14. ASSUME 10 * Verdicts!Score(r) > 3 * Verdicts!Whole(r)
         PROVE  Verdicts!Cardinality(Verdicts!Leaning(r)) >= 2
    <2> DEFINE L == Verdicts!Leaning(r)
    <2>1. (A > 0 /\ B > 0) \/ (A > 0 /\ C > 0) \/ (B > 0 /\ C > 0)
      BY <1>8, <1>10, <1>14
    <2>2. /\ L \subseteq Verdicts!Agents
          /\ "macro" \in L <=> t > 0
          /\ "signal" \in L <=> bs > 0
          /\ "trace" \in L <=> bm > 0
      BY <1>13 DEF Verdicts!Leaning, t, bs, bm
    <2> HIDE DEF L
    <2>3. \E x, y \in L : x # y
      BY <1>9, <2>1, <2>2
    <2>4. Verdicts!Cardinality(L) >= 2
      BY <2>2, <2>3, TwoLean
    <2> QED BY <2>4 DEF L
  <1>15. ASSUME 10 * Verdicts!Score(r) < -(3 * Verdicts!Whole(r))
         PROVE  Verdicts!Cardinality(Verdicts!Leaning(m)) >= 2
    <2> DEFINE L == Verdicts!Leaning(m)
    <2>1. (A < 0 /\ B < 0) \/ (A < 0 /\ C < 0) \/ (B < 0 /\ C < 0)
      BY <1>8, <1>10, <1>15
    <2>2. /\ L \subseteq Verdicts!Agents
          /\ "macro" \in L <=> -t > 0
          /\ "signal" \in L <=> -bs > 0
          /\ "trace" \in L <=> -bm > 0
      BY <1>2, <1>4, <1>5, <1>13 DEF Verdicts!Leaning
    <2>3. (A < 0 <=> -t > 0) /\ (B < 0 <=> -bs > 0) /\ (C < 0 <=> -bm > 0)
      BY <1>2, <1>4, <1>5, <1>9
    <2> HIDE DEF L
    <2>4. \E x, y \in L : x # y
      BY <2>1, <2>2, <2>3
    <2>5. Verdicts!Cardinality(L) >= 2
      BY <2>2, <2>4, TwoLean
    <2> QED BY <2>5 DEF L
  <1> QED BY <1>11, <1>12, <1>14, <1>15 DEF m

\* What was decided follows from the risk that was found, and what the rules decided from the
\* reports.  The API finds a fall of 7 percent critical.
Considered ==
    /\ severity # "unknown"
    /\ decision.by \in {"veto", "model", "rules", "dummy"}
    /\ severity = "critical" <=> decision.by = "veto"
    /\ decision.by = "veto" => decision.action = "WAIT" /\ decision.confidence = 0
    /\ severity = "warning" => decision.confidence <= 40
    /\ decision.by = "rules" => decision.action = Verdicts!Rule(request)
VerdictInv ==
    /\ request \in Verdicts!Requests
    /\ severity \in {"unknown", "none", "warning", "critical"}
    /\ request.path = "api" /\ request.change <= -7 => severity \in {"unknown", "critical"}
    /\ decision = Verdicts!Pending \/ Considered

\* At first nothing is decided.
LEMMA VerdictInit == Verdicts!Init => VerdictInv
  BY DEF Verdicts!Init, VerdictInv

\* How confident the rules are: a score of at most 0.8.
LEMMA RulesAreModest ==
    ASSUME NEW r \in Verdicts!Requests
    PROVE  /\ (100 * Verdicts!AbsOf(Verdicts!Score(r))) \div Verdicts!Whole(r) \in Nat
           /\ (100 * Verdicts!AbsOf(Verdicts!Score(r))) \div Verdicts!Whole(r) <= 80
  <1> DEFINE s == Verdicts!AbsOf(Verdicts!Score(r))
             w == Verdicts!Whole(r)
             q == (100 * s) \div w
  <1>1. Verdicts!Score(r) \in Int /\ w \in Nat \ {0} /\ 10 * s <= 8 * w
    BY RequestsAreSound, ScoresAre
  <1>2. s \in Nat
    BY <1>1 DEF Verdicts!AbsOf
  <1> HIDE DEF s, w
  <1>3. 100 * s \in Nat /\ 100 * s <= 80 * w
    BY <1>1, <1>2
  <1> DEFINE n == 100 * s
             m == 80 * w
  <1> HIDE DEF n
  <1>4. n \in Nat /\ m \in Nat /\ n <= m /\ w \in Nat \ {0}
    BY <1>1, <1>3 DEF n
  <1>5. m \div w = 80
    <2> USE <1>1
    <2>1. (w * 80) \div w = 80
      BY SMTT(30)
    <2> QED BY <2>1
  <1> HIDE DEF m
  <1>6. n \div w \in Nat
    BY <1>4, Division
  <1>7. n \div w <= m \div w
    BY <1>4, DivisionGrows
  <1> QED BY <1>5, <1>6, <1>7 DEF n, s, w

\* An opinion, as it is and lowered.
LEMMA OpinionsAre ==
    ASSUME NEW r \in Verdicts!Requests, NEW o \in Verdicts!Opinions(r)
    PROVE  /\ o.by \in {"model", "rules", "dummy"}
           /\ o.by = "rules" => o.action = Verdicts!Rule(r)
           /\ Verdicts!Lowered(o).by = o.by /\ Verdicts!Lowered(o).action = o.action
           /\ Verdicts!Lowered(o).confidence <= 40
  <1> DEFINE q == (100 * Verdicts!AbsOf(Verdicts!Score(r))) \div Verdicts!Whole(r)
             R == [by |-> "rules", action |-> Verdicts!Rule(r), confidence |-> q]
             N == [by |-> "dummy", action |-> "HOLD", confidence |-> 30]
             M == [by : {"model"}, action : Verdicts!Actions, confidence : {50, 100}]
  <1>1. q \in Nat /\ q <= 80
    BY RulesAreModest
  <1>2. Verdicts!Opinions(r) = M \cup {R, N}
    BY DEF Verdicts!Opinions
  <1> HIDE DEF q
  <1>3. CASE o \in M
    <2>1. o = [by |-> "model", action |-> o.action, confidence |-> o.confidence] /\ o.confidence \in {50, 100}
      BY <1>3
    <2>2. Verdicts!Lowered(o) = [by |-> "model", action |-> o.action, confidence |-> (3 * o.confidence) \div 10]
      BY <2>1 DEF Verdicts!Lowered
    <2>3. (3 * o.confidence) \div 10 <= 40
      BY <2>1
    <2> QED BY <2>1, <2>2, <2>3
  <1>4. CASE o = R
    <2>1. Verdicts!Lowered(o) = [by |-> "rules", action |-> Verdicts!Rule(r), confidence |-> (3 * q) \div 10]
      BY <1>4 DEF Verdicts!Lowered
    <2>2. (3 * q) \div 10 <= 40
      BY <1>1
    <2> QED BY <1>4, <2>1, <2>2
  <1>5. CASE o = N
    BY <1>5 DEF Verdicts!Lowered
  <1>6. o \in M \/ o = R \/ o = N
    <2> HIDE DEF M, R, N
    <2> QED BY <1>2
  <1> QED BY <1>3, <1>4, <1>5, <1>6

\* A step assesses the risk or decides.
LEMMA VerdictStep == VerdictInv /\ [Verdicts!Next]_verdictsVars => VerdictInv'
  <1> SUFFICES ASSUME VerdictInv, [Verdicts!Next]_verdictsVars PROVE VerdictInv'
    OBVIOUS
  <1> USE DEF VerdictInv
  <1>1. CASE Verdicts!Assess
    <2>1. /\ severity = "unknown" /\ request' = request /\ decision' = decision
          /\ severity' \in (IF request.path = "api" THEN {Verdicts!Risk(request)} ELSE {"none", "warning", "critical"})
      BY <1>1 DEF Verdicts!Assess
    <2>2. request.path = "api" => Verdicts!Risk(request) \in {"critical", "none"}
      <3>1. request.path = "api" => Verdicts!Index(request) = Verdicts!Missing
        BY DEF Verdicts!Index
      <3> QED BY <3>1 DEF Verdicts!Risk
    <2>3. request.path = "api" /\ request.change <= -7 => Verdicts!Risk(request) = "critical"
      <3>1. request.path = "api" => Verdicts!Index(request) = Verdicts!Missing
        BY DEF Verdicts!Index
      <3> QED BY <3>1 DEF Verdicts!Risk
    <2>4. severity' \in {"none", "warning", "critical"}
      BY <2>1, <2>2
    <2>5. decision = Verdicts!Pending
      BY <2>1 DEF Considered
    <2>6. request.path = "api" /\ request.change <= -7 => severity' = "critical"
      BY <2>1, <2>3
    <2> HIDE DEF VerdictInv
    <2>7. request \in Verdicts!Requests
      BY DEF VerdictInv
    <2>8. request' \in Verdicts!Requests /\ decision' = Verdicts!Pending
      BY <2>1, <2>5, <2>7
    <2>9. request'.path = "api" /\ request'.change <= -7 => severity' = "critical"
      BY <2>1, <2>6
    <2> QED BY <2>4, <2>8, <2>9 DEF VerdictInv
  <1>2. CASE Verdicts!Decide
    <2>1. request' = request /\ severity' = severity /\ severity # "unknown" /\ request \in Verdicts!Requests
      BY <1>2 DEF Verdicts!Decide
    <2>2. CASE severity = "critical"
      <3>1. decision' = [by |-> "veto", action |-> "WAIT", confidence |-> 0]
        BY <1>2, <2>2 DEF Verdicts!Decide
      <3>2. Considered'
        BY <2>1, <2>2, <3>1 DEF Considered
      <3> QED BY <2>1, <3>2
    <2>3. CASE severity # "critical"
      <3>1. PICK o \in Verdicts!Opinions(request) :
                decision' = IF severity = "warning" THEN Verdicts!Lowered(o) ELSE o
        BY <1>2, <2>3 DEF Verdicts!Decide
      <3>2. /\ o.by \in {"model", "rules", "dummy"}
            /\ o.by = "rules" => o.action = Verdicts!Rule(request)
            /\ Verdicts!Lowered(o).by = o.by /\ Verdicts!Lowered(o).action = o.action
            /\ Verdicts!Lowered(o).confidence <= 40
        BY <2>1, OpinionsAre
      <3>3. decision'.by = o.by /\ decision'.action = o.action /\ (severity = "warning" => decision'.confidence <= 40)
        BY <3>1, <3>2
      <3>4. Verdicts!Rule(request') = Verdicts!Rule(request)
        BY <2>1
      <3>5. Considered'
        BY <2>1, <2>3, <3>2, <3>3, <3>4 DEF Considered
      <3> QED BY <2>1, <3>5
    <2> QED BY <2>2, <2>3
  <1>3. CASE UNCHANGED verdictsVars
    BY <1>3 DEF verdictsVars, Considered
  <1> QED BY <1>1, <1>2, <1>3 DEF Verdicts!Next

\* The rules want agreement, and turn round with the reports; the index is not diluted.
LEMMA VerdictsHold == VerdictInv => Verdicts!RulesNeedAgreement /\ Verdicts!IndexIsUndiluted /\ Verdicts!RiskIsHeeded
  <1> SUFFICES ASSUME VerdictInv PROVE Verdicts!RulesNeedAgreement /\ Verdicts!IndexIsUndiluted /\ Verdicts!RiskIsHeeded
    OBVIOUS
  <1> DEFINE m == Verdicts!Mirror(request)
             s == Verdicts!Score(request)
             w == Verdicts!Whole(request)
  <1>1. /\ SoundRequest(request)
        /\ request = [path |-> request.path, reports |-> request.reports, factors |-> request.factors,
                      signals |-> request.signals, moves |-> request.moves, change |-> request.change,
                      cached |-> request.cached]
    BY RequestsAreSound DEF VerdictInv
  <1>2. /\ SoundRequest(m) /\ m.path = request.path /\ m.reports = request.reports
        /\ DOMAIN m.factors = DOMAIN request.factors
        /\ \A f \in DOMAIN request.factors : m.factors[f] = 10 - request.factors[f]
    BY <1>1, MirrorIs
  <1>3. Verdicts!IndexIsUndiluted
    <2> HIDE DEF m
    <2>1. Verdicts!Index(request) # Verdicts!Missing /\ DOMAIN request.factors # {} =>
              /\ \E f \in DOMAIN request.factors : 10 * request.factors[f] <= Verdicts!Index(request)
              /\ \E f \in DOMAIN request.factors : 10 * request.factors[f] >= Verdicts!Index(request)
      BY <1>1, <1>2, IndexIs
    <2> QED BY <2>1 DEF Verdicts!IndexIsUndiluted
  <1>4. /\ s \in Int /\ w \in Nat \ {0}
        /\ Verdicts!Score(m) = -s /\ Verdicts!Whole(m) = w
        /\ 10 * s > 3 * w => Verdicts!Cardinality(Verdicts!Leaning(request)) >= 2
        /\ 10 * s < -(3 * w) => Verdicts!Cardinality(Verdicts!Leaning(m)) >= 2
    BY <1>1, ScoresAre
  <1> HIDE DEF m, s, w
  <1>5. /\ Verdicts!Rule(request) = "BUY" <=> 10 * s > 3 * w
        /\ Verdicts!Rule(request) = "SELL" <=> 10 * s < -(3 * w)
        /\ Verdicts!Rule(m) = "BUY" <=> 10 * s < -(3 * w)
        /\ Verdicts!Rule(m) = "SELL" <=> 10 * s > 3 * w
    <2> DEFINE t == Verdicts!Score(m)
    <2>1. /\ Verdicts!Rule(request) = "BUY" <=> 10 * s > 3 * w
          /\ Verdicts!Rule(request) = "SELL" <=> 10 * s < -3 * w
      BY <1>4 DEF Verdicts!Rule, Verdicts!AbsOf, s, w
    <2>2. /\ Verdicts!Rule(m) = "BUY" <=> 10 * t > 3 * w
          /\ Verdicts!Rule(m) = "SELL" <=> 10 * t < -3 * w
      BY <1>4 DEF Verdicts!Rule, Verdicts!AbsOf
    <2> HIDE DEF t
    <2>3. t = -s /\ -3 * w = -(3 * w)
      BY <1>4 DEF t
    <2>4. (10 * t > 3 * w <=> 10 * s < -(3 * w)) /\ (10 * t < -(3 * w) <=> 10 * s > 3 * w)
      BY <1>4, <2>3
    <2> QED BY <2>1, <2>2, <2>3, <2>4
  <1>6. ASSUME decision.by = "rules"
        PROVE  decision.action = Verdicts!Rule(request)
    BY <1>6 DEF VerdictInv, Considered, Verdicts!Pending
  <1>7. Verdicts!RulesNeedAgreement
    BY <1>4, <1>5, <1>6 DEF Verdicts!RulesNeedAgreement, m
  <1>8. Verdicts!RiskIsHeeded
    BY DEF VerdictInv, Considered, Verdicts!RiskIsHeeded
  <1> QED BY <1>3, <1>7, <1>8

----------------------------------------------------------------------------
(* The types of LLMChain, Scanner and RateLimits *)

\* The invariant of the chain names the types of its breakers.
LEMMA ChainTyped == ChainInv => Chain!TypeOK
  BY DEF ChainInv, Chain!TypeOK

\* Ages and times to live are within those of the two layers.
LEMMA ListsTyped == ASSUME Lists!ScannerAssumption PROVE ListsInv => Lists!TypeOK
  <1> SUFFICES ASSUME ListsInv PROVE Lists!TypeOK
    OBVIOUS
  <1>1. {ListTTL, RedisTTL} \subseteq Nat
    BY DEF Lists!ScannerAssumption
  <1>2. list.stamp \in 0..ListTTL
    BY <1>1 DEF ListsInv, StockLists, SoundList, Lists!None
  <1>3. stored.ttl \in 0..RedisTTL
    BY <1>1 DEF ListsInv, StockLists, SoundStored, Lists!None
  <1>4. ASSUME NEW s \in Scans
        PROVE  scan[s].pc \in {"idle", "redis", "spot", "enrich", "check"} /\ scan[s].began \in 0..ListTTL
    BY <1>1 DEF ListsInv, SoundScan, Phases
  <1> QED BY <1>2, <1>3, <1>4 DEF Lists!TypeOK

\* A bucket holds no more than it is filled with.
LEMMA LimitsTyped == LimitsInv => Limits!TypeOK
  <1> SUFFICES ASSUME LimitsInv, NEW k \in Kinds PROVE bucket[k] \in 0..(Limits!Rpm[k] * Minute)
    BY Rates DEF Limits!TypeOK
  <1>1. Limits!Rpm[k] * Minute \in Nat
    BY Rates
  <1>2. bucket[k] \in Nat /\ bucket[k] <= Limits!Rpm[k] * Minute
    BY DEF LimitsInv
  <1> QED BY <1>1, <1>2

----------------------------------------------------------------------------
(* RiskManager: counters and histories are within their bounds *)

\* The recorders whose override no state counts yet.
Waiting == {c \in Recorders : call[c].pc \in {"append", "update"}}

Positive(s) == \A i \in 1..Len(s) : s[i] > 0

\* No state counts more overrides than recorders have come to count.
CountsInv == /\ issued <= MaxOverrides
             /\ IsFiniteSet(Waiting)
             /\ saved.total + Cardinality(Waiting) <= issued
             /\ \A c \in Recorders : call[c].state.total + Cardinality(Waiting) <= issued /\ Positive(call[c].events)
             /\ \A h \in Healers : heal[h].state.total + Cardinality(Waiting) <= issued
             /\ Positive(history)

\* The first state.
LEMMA CountsInit == Risk!Init => CountsInv
  <1> SUFFICES ASSUME Risk!Init PROVE CountsInv
    OBVIOUS
  <1>1. /\ saved = Risk!NewState /\ history = <<>> /\ issued = 0
        /\ call = [c \in Recorders |-> Risk!Idle] /\ heal = [h \in Healers |-> Risk!Rest]
    BY DEF Risk!Init, Risk!NoHistory
  <1>2. Waiting = {}
    BY <1>1, IdleRecorder DEF Waiting
  <1>3. IsFiniteSet(Waiting) /\ Cardinality(Waiting) = 0
    BY <1>2, FS_EmptySet
  <1>4. \A c \in Recorders : call[c].state.total = 0 /\ call[c].events = <<>>
    BY <1>1, IdleRecorder, NewIsEarned
  <1>5. \A h \in Healers : heal[h].state.total = 0
    BY <1>1, IdleRecorder, NewIsEarned
  <1>6. issued <= MaxOverrides
    BY <1>1, RiskConstants
  <1> HIDE DEF Waiting
  <1> QED BY <1>1, <1>3, <1>4, <1>5, <1>6, NewIsEarned DEF CountsInv, Positive

\* What is appended is positive.
LEMMA AppendedIsPositive ==
    ASSUME NEW s \in Seq(Nat), NEW id \in Nat \ {0}, Positive(s)
    PROVE  Positive(Risk!Appended(s, id))
  <1> DEFINE longer == Append(s, id)
             from == Len(longer) - MaxHistory + 1
  <1>1. longer \in Seq(Nat) /\ Len(longer) \in Nat /\ \A i \in 1..Len(longer) : longer[i] > 0
    BY DEF Positive
  <1>2. Risk!Appended(s, id) = IF Len(longer) > MaxHistory THEN SubSeq(longer, from, Len(longer)) ELSE longer
    BY DEF Risk!Appended
  <1> HIDE DEF longer
  <1>3. CASE Len(longer) > MaxHistory
    <2> DEFINE t == SubSeq(longer, from, Len(longer))
    <2>1. from \in 1..(Len(longer) + 1)
      BY <1>1, <1>3, RiskConstants
    <2>2. /\ Len(t) = Len(longer) - from + 1
          /\ \A i \in 1..Len(t) : t[i] = longer[from + i - 1]
      BY <1>1, <2>1, SubSeqProperties
    <2>3. from \in Nat \ {0}
      BY <1>1, <2>1
    <2> HIDE DEF from
    <2>4. ASSUME NEW i \in 1..Len(t) PROVE t[i] > 0
      <3>1. from + i - 1 \in 1..Len(longer)
        BY <1>1, <2>2, <2>3
      <3> QED BY <1>1, <2>2, <3>1
    <2> QED BY <1>2, <1>3, <2>4 DEF Positive
  <1>4. CASE ~(Len(longer) > MaxHistory)
    BY <1>1, <1>2, <1>4 DEF Positive
  <1> QED BY <1>3, <1>4

\* Who waits is one less when a recorder reads the state or fails, and one more when one begins.
LEMMA WaitingChanges ==
    ASSUME LevelInv, CountsInv, NEW c \in Recorders, \A d \in Recorders \ {c} : call'[d].pc = call[d].pc
    PROVE  /\ IsFiniteSet(Waiting') /\ Cardinality(Waiting) \in Nat /\ Cardinality(Waiting') \in Nat
           /\ Cardinality(Waiting') = Cardinality(Waiting)
                + (IF call'[c].pc \in {"append", "update"} THEN 1 ELSE 0)
                - (IF call[c].pc \in {"append", "update"} THEN 1 ELSE 0)
  <1> DEFINE rest == Waiting \ {c}
  <1>1. Waiting' \ {c} = rest
    BY DEF Waiting
  <1>2. IsFiniteSet(rest) /\ IsFiniteSet(Waiting)
    BY FS_RemoveElement DEF CountsInv
  <1>3. c \in Waiting <=> call[c].pc \in {"append", "update"}
    BY DEF Waiting
  <1>4. c \in Waiting' <=> call'[c].pc \in {"append", "update"}
    BY DEF Waiting
  <1>5. Waiting = (IF c \in Waiting THEN rest \cup {c} ELSE rest) /\ c \notin rest
    OBVIOUS
  <1>6. Waiting' = IF c \in Waiting' THEN rest \cup {c} ELSE rest
    BY <1>1
  <1>7. IsFiniteSet(rest \cup {c}) /\ Cardinality(rest \cup {c}) = Cardinality(rest) + 1
    BY <1>2, <1>5, FS_AddElement
  <1> HIDE DEF rest
  <1>8. Cardinality(rest) \in Nat
    BY <1>2, FS_CardinalityType
  <1>9. /\ Cardinality(Waiting) = Cardinality(rest) + (IF call[c].pc \in {"append", "update"} THEN 1 ELSE 0)
    <2>1. CASE c \in Waiting
      <3>1. Waiting = rest \cup {c}
        BY <1>5, <2>1
      <3> QED BY <1>3, <1>7, <2>1, <3>1
    <2>2. CASE c \notin Waiting
      <3>1. Waiting = rest
        BY <1>5, <2>2
      <3> QED BY <1>3, <1>8, <2>2, <3>1
    <2> QED BY <2>1, <2>2
  <1>10. /\ IsFiniteSet(Waiting')
         /\ Cardinality(Waiting') = Cardinality(rest) + (IF call'[c].pc \in {"append", "update"} THEN 1 ELSE 0)
    <2>1. CASE c \in Waiting'
      <3>1. Waiting' = rest \cup {c}
        BY <1>6, <2>1
      <3> QED BY <1>4, <1>7, <2>1, <3>1
    <2>2. CASE c \notin Waiting'
      <3>1. Waiting' = rest
        BY <1>6, <2>2
      <3> QED BY <1>2, <1>4, <1>8, <2>2, <3>1
    <2> QED BY <2>1, <2>2
  <1> HIDE DEF Waiting
  <1> QED BY <1>8, <1>9, <1>10

\* Every step keeps the bounds.
LEMMA CountsStep == LevelInv /\ RaceInv /\ CountsInv /\ [Risk!Next]_riskVars => CountsInv'
  <1> SUFFICES ASSUME LevelInv, RaceInv, CountsInv, [Risk!Next]_riskVars PROVE CountsInv'
    OBVIOUS
  <1>0. /\ issued \in Nat /\ MaxOverrides \in Nat /\ saved.total \in Nat
        /\ \A c \in Recorders : call[c].state.total \in Nat
        /\ \A h \in Healers : heal[h].state.total \in Nat
    BY TotalsAreCounts, RiskConstants DEF LevelInv
  <1>1. ASSUME NEW c \in Recorders, NEW kind \in Risk!Severities, Risk!Record(c, kind)
        PROVE  CountsInv'
    <2>1. issued' = issued + 1 /\ issued < MaxOverrides /\ saved' = saved /\ heal' = heal /\ history' = history
      BY <1>1, RecordFacts DEF Risk!Record
    <2>2. call[c].pc = "idle" /\ call'[c].pc = "append" /\ \A d \in Recorders \ {c} : call'[d].pc = call[d].pc
      BY <1>1, RecordFacts
    <2>3. /\ IsFiniteSet(Waiting') /\ Cardinality(Waiting) \in Nat
          /\ Cardinality(Waiting') = Cardinality(Waiting) + 1
      BY <2>2, WaitingChanges
    <2>4. ASSUME NEW d \in Recorders
          PROVE  call'[d].state.total + Cardinality(Waiting') <= issued' /\ Positive(call'[d].events)
      <3>1. CASE d = c
        <4>1. call'[d].state.total = 0 /\ call'[d].events = history
          BY <1>1, <3>1, RecordFacts, NewIsEarned
        <4> QED BY <1>0, <2>1, <2>3, <4>1 DEF CountsInv
      <3>2. CASE d # c
        <4>1. call'[d].state = call[d].state /\ call'[d].events = call[d].events
          BY <1>1, <3>2, RecordFacts
        <4> QED BY <1>0, <2>1, <2>3, <4>1 DEF CountsInv
      <3> QED BY <3>1, <3>2
    <2> QED BY <1>0, <2>1, <2>3, <2>4 DEF CountsInv
  <1>2. ASSUME NEW c \in Recorders,
               Risk!SaveHistory(c) \/ Risk!LoadState(c) \/ Risk!SaveState(c) \/ Risk!RecordFails(c)
        PROVE  CountsInv'
    <2>1. /\ issued' = issued /\ heal' = heal /\ \A d \in Recorders \ {c} : call'[d] = call[d]
          /\ call[c].pc # "idle" /\ call[c].pc \in {"idle", "append", "update", "save"}
      BY <1>2, RecorderFacts DEF LevelInv, Recordings
    <2>2. /\ IsFiniteSet(Waiting') /\ Cardinality(Waiting) \in Nat /\ Cardinality(Waiting') \in Nat
          /\ Cardinality(Waiting') = Cardinality(Waiting)
                + (IF call'[c].pc \in {"append", "update"} THEN 1 ELSE 0)
                - (IF call[c].pc \in {"append", "update"} THEN 1 ELSE 0)
      BY <2>1, WaitingChanges
    <2>3. ASSUME Cardinality(Waiting') <= Cardinality(Waiting), Positive(history'), Positive(call'[c].events),
                 saved'.total + Cardinality(Waiting') <= issued,
                 call'[c].state.total + Cardinality(Waiting') <= issued
          PROVE  CountsInv'
      <3>1. \A d \in Recorders : call'[d].state.total + Cardinality(Waiting') <= issued /\ Positive(call'[d].events)
        BY <1>0, <2>1, <2>2, <2>3 DEF CountsInv
      <3>2. \A h \in Healers : heal'[h].state.total + Cardinality(Waiting') <= issued
        BY <1>0, <2>1, <2>2, <2>3 DEF CountsInv
      <3> QED BY <2>1, <2>2, <2>3, <3>1, <3>2 DEF CountsInv
    <2>4. Positive(call'[c].events)
      <3>1. CASE Risk!SaveHistory(c)
        <4>1. call'[c].events = <<>>
          BY <3>1 DEF Risk!SaveHistory, Risk!NoHistory, LevelInv, Recordings
        <4> QED BY <4>1 DEF Positive
      <3>2. CASE Risk!LoadState(c)
        <4>1. call'[c].events = call[c].events
          BY <3>2 DEF Risk!LoadState, LevelInv, Recordings
        <4> QED BY <4>1 DEF CountsInv
      <3>3. CASE Risk!SaveState(c) \/ Risk!RecordFails(c)
        <4>1. call'[c].events = <<>>
          BY <3>3, IdleRecorder DEF Risk!SaveState, Risk!RecordFails, LevelInv
        <4> QED BY <4>1 DEF Positive
      <3> QED BY <1>2, <3>1, <3>2, <3>3
    <2>5. call'[c].pc = "idle" => call'[c].state.total = 0
      BY <1>2, RecorderFacts, IdleRecorder, NewIsEarned
    <2>6. Cardinality(Waiting) <= issued
      BY <1>0, <2>2 DEF CountsInv
    <2>7. CASE /\ call[c].pc = "append" /\ call'[c].pc = "update" /\ call'[c].state = call[c].state
               /\ history' = Risk!Appended(call[c].events, call[c].id) /\ saved' = saved
      <3>1. call[c].events \in Seq(Nat) /\ call[c].id \in Nat \ {0}
        BY <2>7, TotalsAreCounts DEF RaceInv, RecorderInv
      <3>2. Positive(history')
        BY <2>7, <3>1, AppendedIsPositive DEF CountsInv
      <3> QED BY <1>0, <2>2, <2>3, <2>4, <2>7, <3>2 DEF CountsInv
    <2>8. CASE /\ call[c].pc = "update" /\ call'[c].pc = "save" /\ history' = history /\ saved' = saved
               /\ call'[c].state = Risk!Updated(saved, call[c].severity)
      <3>1. call'[c].state.total = saved.total + 1
        BY <2>8, TotalsAreCounts, UpdatedIsEarned DEF LevelInv
      <3> QED BY <1>0, <2>2, <2>3, <2>4, <2>8, <3>1 DEF CountsInv
    <2>9. CASE call[c].pc = "save" /\ call'[c].pc = "idle" /\ history' = history /\ saved' = call[c].state
      BY <1>0, <2>2, <2>3, <2>4, <2>5, <2>6, <2>9 DEF CountsInv
    <2>10. CASE call'[c].pc = "idle" /\ history' = history /\ saved' = saved
      BY <1>0, <2>2, <2>3, <2>4, <2>5, <2>6, <2>10 DEF CountsInv
    <2> QED BY <1>2, <2>7, <2>8, <2>9, <2>10, RecorderFacts
  <1>3. ASSUME UNCHANGED <<history, issued>>,
               \A c \in Recorders : call'[c].pc = call[c].pc /\ call'[c].events = call[c].events
                                    /\ call'[c].state.total = call[c].state.total,
               \A h \in Healers : heal'[h].state.total = heal[h].state.total
                                  \/ heal'[h].state.total = saved.total \/ heal'[h].state.total = 0,
               saved'.total = saved.total \/ \E h \in Healers : saved'.total = heal[h].state.total
        PROVE  CountsInv'
    <2>1. Waiting' = Waiting
      BY <1>3 DEF Waiting
    <2>2. Cardinality(Waiting) \in Nat /\ Cardinality(Waiting) <= issued
      <3>1. Cardinality(Waiting) \in Nat
        BY FS_CardinalityType DEF CountsInv
      <3> QED BY <1>0, <3>1 DEF CountsInv
    <2> HIDE DEF Waiting
    <2> QED BY <1>0, <1>3, <2>1, <2>2 DEF CountsInv
  <1>4. ASSUME NEW h \in Healers, Risk!LoadToHeal(h)
        PROVE  CountsInv'
    <2>1. Risk!Healed(saved).total = saved.total
      BY <1>4, LoadToHealFacts, HealedIsEarned DEF LevelInv
    <2> QED BY <1>3, <1>4, <2>1, LoadToHealFacts
  <1>5. ASSUME NEW h \in Healers, Risk!SaveHealed(h) \/ Risk!HealFails(h)
        PROVE  CountsInv'
    <2>1. heal'[h].state.total = 0
      BY <1>5, HealerFacts, IdleRecorder, NewIsEarned
    <2> QED BY <1>3, <1>5, <2>1, HealerFacts
  <1>6. CASE Risk!Tick
    <2>1. saved'.total = saved.total
      BY <1>6, AgeFacts, AgedIsEarned DEF LevelInv
    <2>2. \A c \in Recorders : call'[c].state.total = call[c].state.total
      BY <1>6, AgeFacts, AgedIsEarned DEF LevelInv
    <2>3. \A h \in Healers : heal'[h].state.total = heal[h].state.total
      BY <1>6, AgeFacts, AgedIsEarned DEF LevelInv
    <2> QED BY <1>3, <1>6, <2>1, <2>2, <2>3, AgeFacts
  <1>7. CASE UNCHANGED riskVars
    BY <1>3, <1>7 DEF riskVars
  <1> QED BY <1>1, <1>2, <1>4, <1>5, <1>6, <1>7 DEF Risk!Next

\* The types of the state, of its copies and of the history.
LEMMA RiskTyped == LevelInv /\ RaceInv /\ CountsInv => Risk!TypeOK
  <1> SUFFICES ASSUME LevelInv, RaceInv, CountsInv PROVE Risk!TypeOK
    OBVIOUS
  <1>1. issued \in 0..MaxOverrides /\ issued \in Nat /\ MaxOverrides \in Nat
    BY RiskConstants DEF LevelInv, CountsInv
  <1>2. Cardinality(Waiting) \in Nat
    BY FS_CardinalityType DEF CountsInv
  <1>3. ASSUME NEW s, Sound(s), s.total + Cardinality(Waiting) <= issued
        PROVE  s \in Risk!RiskState
    <2>1. s.total \in Nat /\ s.daily \in Nat /\ s.daily <= s.total
      BY <1>3 DEF Sound, Earned, RiskStates
    <2>2. s.total \in 0..MaxOverrides /\ s.daily \in 0..MaxOverrides
      BY <1>1, <1>2, <1>3, <2>1 DEF CountsInv
    <2> QED BY <1>3, <2>2 DEF Sound, RiskStates, Risk!RiskState
  <1>4. saved \in Risk!RiskState
    BY <1>3 DEF LevelInv, CountsInv
  <1>5. \A c \in Recorders : call[c].state \in Risk!RiskState
    BY <1>3 DEF LevelInv, CountsInv
  <1>6. \A h \in Healers : heal[h].state \in Risk!RiskState
    BY <1>3 DEF LevelInv, CountsInv
  <1>7. history \in Seq(1..MaxOverrides) /\ Len(history) <= MaxHistory
    <2>1. history \in Seq(Nat)
      BY DEF LevelInv
    <2>2. ASSUME NEW i \in 1..Len(history) PROVE history[i] \in 1..MaxOverrides
      <3>1. history[i] \in Nat
        BY <2>1
      <3>2. history[i] > 0 /\ history[i] < issued + 1
        BY DEF RaceInv, Ordered, CountsInv, Positive
      <3> QED BY <1>1, <3>1, <3>2
    <2>3. Len(history) \in Nat /\ history = [i \in 1..Len(history) |-> history[i]]
      BY <2>1
    <2>4. [i \in 1..Len(history) |-> history[i]] \in Seq(1..MaxOverrides)
      BY <2>2, <2>3
    <2>5. Len(history) <= MaxHistory
      BY DEF RaceInv, Ordered
    <2> QED BY <2>3, <2>4, <2>5
  <1>8. /\ \A c \in Recorders : call[c].pc \in {"idle", "append", "update", "save"}
        /\ \A h \in Healers : heal[h].pc \in {"idle", "save"}
        /\ crisis \in 0..Risk!Never
    BY DEF LevelInv, Recordings, Healings
  <1> QED BY <1>1, <1>4, <1>5, <1>6, <1>7, <1>8 DEF Risk!TypeOK

----------------------------------------------------------------------------
(* RiskAgent: reports are of their agents, and verdicts follow the checks *)

\* What is said of a task is in the three fields of its record.
AgentTypes == /\ Agent!TypeOK
              /\ \A t \in Judges : judging[t] = [pc |-> judging[t].pc, verdict |-> judging[t].verdict, seen |-> judging[t].seen]

\* Nothing has been reported at first.
LEMMA AgentTypesInit == ASSUME MaxReports \in Nat, Agent!Init PROVE AgentTypes
  BY DEF AgentTypes, Agent!Init, Agent!Idle, Agent!TypeOK, Agent!Missing, Agent!Agents, Agent!Contents

\* A task that goes on, and leaves the reports alone.
LEMMA TaskTyped ==
    ASSUME AgentInv, AgentTypes, NEW t \in Judges, NEW s, Agent!Goto(t, s), latest' = latest, arrived' = arrived,
           flagged' \in BOOLEAN, s.pc \in {"idle", "publish", "atr", "drop", "decline"},
           s.verdict \in {"none", "override", "safe"}, s = [pc |-> s.pc, verdict |-> s.verdict, seen |-> s.seen]
    PROVE  AgentTypes'
  <1>1. \A u \in Judges : judging'[u] = IF u = t THEN s ELSE judging[u]
    BY DEF Agent!Goto, AgentInv
  <1>2. DOMAIN Agent!After = {"atr", "drop", "decline"}
    BY DEF Agent!After
  <1> QED BY <1>1, <1>2 DEF AgentTypes, Agent!TypeOK

\* Every step keeps the types.
LEMMA AgentTypesStep ==
    ASSUME MaxReports \in Nat PROVE AgentInv /\ AgentTypes /\ [Agent!Next]_agentVars => AgentTypes'
  <1> SUFFICES ASSUME AgentInv, AgentTypes, [Agent!Next]_agentVars PROVE AgentTypes'
    OBVIOUS
  <1>0. DOMAIN Agent!After = {"atr", "drop", "decline"} /\ flagged \in BOOLEAN
        /\ Agent!After["atr"] = "drop" /\ Agent!After["drop"] = "decline" /\ Agent!After["decline"] = "publish"
    BY DEF Agent!After, AgentTypes, Agent!TypeOK
  <1>1. ASSUME NEW t \in Judges, NEW agent \in Agent!Agents, NEW content \in Agent!Contents[agent],
               Agent!Receive(t, agent, content)
        PROVE  AgentTypes'
    <2>1. latest' = [latest EXCEPT ![agent] = content] /\ arrived' = arrived + 1 /\ arrived < MaxReports
          /\ flagged' = ~Agent!Calls(latest')
      BY <1>1 DEF Agent!Receive
    <2>2. \A a \in Agent!Agents : latest'[a] = IF a = agent THEN content ELSE latest[a]
      BY <2>1 DEF AgentInv
    <2>3. PICK s : Agent!Goto(t, s) /\ s.pc \in {"publish", "atr"} /\ s.verdict \in {"none", "override", "safe"}
                    /\ s = [pc |-> s.pc, verdict |-> s.verdict, seen |-> s.seen]
      <3>1. \/ Agent!Goto(t, [pc |-> "publish", verdict |-> "override", seen |-> latest'])
            \/ Agent!Goto(t, [pc |-> "publish", verdict |-> "safe", seen |-> latest'])
            \/ Agent!Goto(t, [pc |-> "atr", verdict |-> "none", seen |-> latest'])
        BY <1>1 DEF Agent!Receive, Agent!Goto
      <3> QED BY <3>1
    <2>4. \A u \in Judges : judging'[u] = IF u = t THEN s ELSE judging[u]
      BY <2>3 DEF Agent!Goto, AgentInv
    <2>5. \A u \in Judges : /\ judging'[u].pc \in {"idle", "publish"} \cup DOMAIN Agent!After
                            /\ judging'[u].verdict \in {"none", "override", "safe"}
                            /\ judging'[u] = [pc |-> judging'[u].pc, verdict |-> judging'[u].verdict, seen |-> judging'[u].seen]
      BY <1>0, <2>3, <2>4 DEF AgentTypes, Agent!TypeOK
    <2>6. \A a \in Agent!Agents : latest'[a] \in Agent!Contents[a] \cup {Agent!Missing}
      BY <2>2 DEF AgentTypes, Agent!TypeOK
    <2>7. arrived' \in 0..MaxReports
      BY <2>1 DEF AgentTypes, Agent!TypeOK
    <2>8. flagged' \in BOOLEAN
      BY <2>1
    <2> QED BY <2>5, <2>6, <2>7, <2>8 DEF AgentTypes, Agent!TypeOK
  <1>2. ASSUME NEW t \in Judges, NEW breached \in BOOLEAN, Agent!KlinesCome(t, breached) PROVE AgentTypes'
    <2> DEFINE s == IF breached THEN [judging[t] EXCEPT !.pc = "publish", !.verdict = "override"]
                    ELSE [judging[t] EXCEPT !.pc = Agent!After[@], !.verdict = IF judging[t].pc = "decline" THEN "safe" ELSE "none"]
    <2>1. Agent!Goto(t, s) /\ latest' = latest /\ arrived' = arrived /\ flagged' = flagged
      BY <1>2 DEF Agent!KlinesCome
    <2>2. judging[t].pc \in {"atr", "drop", "decline"}
      BY <1>0, <1>2 DEF Agent!KlinesCome
    <2>4. judging[t] = [pc |-> judging[t].pc, verdict |-> judging[t].verdict, seen |-> judging[t].seen]
      BY DEF AgentTypes
    <2>5. s = [pc |-> s.pc, verdict |-> s.verdict, seen |-> s.seen]
      BY <2>4
    <2>3. s.pc \in {"idle", "publish", "atr", "drop", "decline"} /\ s.verdict \in {"none", "override", "safe"}
      BY <1>0, <2>2, <2>4
    <2> HIDE DEF s
    <2> QED BY <1>0, <2>1, <2>3, <2>5, TaskTyped
  <1>3. ASSUME NEW t \in Judges, Agent!Publish(t) \/ Agent!Fails(t) PROVE AgentTypes'
    <2>1. Agent!Goto(t, Agent!Idle) /\ latest' = latest /\ arrived' = arrived /\ flagged' \in BOOLEAN
      BY <1>0, <1>3 DEF Agent!Publish, Agent!Fails
    <2>2. Agent!Idle.pc = "idle" /\ Agent!Idle.verdict = "none"
          /\ Agent!Idle = [pc |-> Agent!Idle.pc, verdict |-> Agent!Idle.verdict, seen |-> Agent!Idle.seen]
      BY DEF Agent!Idle
    <2> QED BY <2>1, <2>2, TaskTyped
  <1>4. CASE UNCHANGED agentVars
    BY <1>4 DEF agentVars, AgentTypes, Agent!TypeOK
  <1> QED BY <1>1, <1>2, <1>3, <1>4 DEF Agent!Next

----------------------------------------------------------------------------
(* Replay: counts are within the bars, and progress is of the stock that is replayed *)

ProgressInv ==
    /\ shared \cup stopped \subseteq Replays
    /\ \A r \in Replays : replay[r].processed + replay[r].errors <= replay[r].total
    /\ progress \in [Replayed -> SUBSET Replays]
    /\ \A s \in Replayed : \A r \in progress[s] : replay[r].pc # "idle" /\ replay[r].stock = s

\* Nothing is replayed at first.
LEMMA ProgressInit == Play!Init => ProgressInv
  BY DEF Play!Init, ProgressInv, Play!Idle

\* Every step keeps the bounds.
LEMMA ProgressStep == PlayInv /\ ProgressInv /\ [Play!Next]_playVars => ProgressInv'
  <1> SUFFICES ASSUME PlayInv, ProgressInv, [Play!Next]_playVars PROVE ProgressInv'
    OBVIOUS
  <1>0. Play!Busy \subseteq Replays
    BY DEF Play!Busy
  <1>1. ASSUME NEW r \in Replays, NEW s \in Replayed, NEW n \in 0..ReplayBars, Play!Start(r, s, n) PROVE ProgressInv'
    <2> DEFINE t == [Play!Idle EXCEPT !.pc = "emit", !.stock = s, !.total = n]
    <2>1. t.pc = "emit" /\ t.stock = s /\ t.total = n /\ t.processed = 0 /\ t.errors = 0
      BY DEF Play!Idle
    <2> HIDE DEF t
    <2>2. \A q \in Replays : replay'[q] = IF q = r THEN t ELSE replay[q]
      BY <1>1 DEF Play!Start, PlayInv, t
    <2>3. progress' = [progress EXCEPT ![s] = {r}] /\ replay[r].pc = "idle"
          /\ shared' = shared \cup (IF Play!Busy = {} THEN {} ELSE Play!Busy \cup {r}) /\ stopped' = stopped
      BY <1>1 DEF Play!Start
    <2>4. \A u \in Replayed : progress'[u] = IF u = s THEN {r} ELSE progress[u]
      BY <2>3 DEF ProgressInv
    <2>5. progress' \in [Replayed -> SUBSET Replays]
      BY <2>3 DEF ProgressInv
    <2>6. \A u \in Replayed : \A q \in progress'[u] : replay'[q].pc # "idle" /\ replay'[q].stock = u
      BY <2>1, <2>2, <2>3, <2>4 DEF ProgressInv
    <2>7. \A q \in Replays : replay'[q].processed + replay'[q].errors <= replay'[q].total
      BY <2>1, <2>2 DEF ProgressInv
    <2>8. shared' \cup stopped' \subseteq Replays
      BY <1>0, <2>3 DEF ProgressInv
    <2> QED BY <2>5, <2>6, <2>7, <2>8 DEF ProgressInv
  <1>2. ASSUME NEW r \in Replays, NEW t, replay' = [replay EXCEPT ![r] = t], progress' = progress, shared' = shared, stopped' = stopped,
               replay[r].pc # "idle" => t.pc # "idle" /\ t.stock = replay[r].stock, replay[r].pc # "idle",
               t.processed + t.errors <= t.total
        PROVE  ProgressInv'
    <2>1. \A q \in Replays : replay'[q] = IF q = r THEN t ELSE replay[q]
      BY <1>2 DEF PlayInv
    <2> QED BY <1>2, <2>1 DEF ProgressInv
  <1>3. ASSUME NEW r \in Replays, NEW works \in BOOLEAN, Play!Emit(r, works) PROVE ProgressInv'
    <2> DEFINE t == [replay[r] EXCEPT !.processed = IF works THEN @ + 1 ELSE @, !.errors = IF works THEN @ ELSE @ + 1]
    <2>1. replay[r] \in Runs
      BY DEF PlayInv
    <2>2. replay' = [replay EXCEPT ![r] = t] /\ replay[r].processed + replay[r].errors < replay[r].total /\ replay[r].pc = "emit"
          /\ progress' = progress /\ shared' = shared /\ stopped' = stopped
      BY <1>3, <2>1 DEF Play!Emit, PlayInv, Runs
    <2>3. t.pc = replay[r].pc /\ t.stock = replay[r].stock /\ t.total = replay[r].total
          /\ t.processed + t.errors = replay[r].processed + replay[r].errors + 1
      BY <2>1 DEF Runs
    <2>4. /\ replay[r].processed \in Nat /\ replay[r].errors \in Nat /\ replay[r].total \in Nat
      BY <2>1 DEF Runs
    <2> HIDE DEF t
    <2>5. t.processed + t.errors <= t.total
      BY <2>2, <2>3, <2>4
    <2>6. t.pc # "idle" /\ t.stock = replay[r].stock
      BY <2>2, <2>3
    <2> QED BY <1>2, <2>2, <2>5, <2>6
  <1>4. ASSUME NEW r \in Replays, Play!Finish(r) PROVE ProgressInv'
    <2> DEFINE t == [replay[r] EXCEPT !.pc = "done"]
    <2>1. replay[r] \in Runs
      BY DEF PlayInv
    <2>2. replay' = [replay EXCEPT ![r] = t] /\ replay[r].pc = "emit"
          /\ progress' = progress /\ shared' = shared /\ stopped' = stopped
      BY <1>4, <2>1 DEF Play!Finish, PlayInv, Runs
    <2>3. t.pc = "done" /\ t.stock = replay[r].stock /\ t.total = replay[r].total
          /\ t.processed = replay[r].processed /\ t.errors = replay[r].errors
      BY <2>1 DEF Runs
    <2>4. t.processed + t.errors <= t.total
      BY <2>3 DEF ProgressInv
    <2> HIDE DEF t
    <2> QED BY <1>2, <2>2, <2>3, <2>4
  <1>5. CASE Play!Stop
    BY <1>0, <1>5 DEF Play!Stop, ProgressInv
  <1>6. CASE UNCHANGED playVars
    BY <1>6 DEF playVars, ProgressInv
  <1> QED BY <1>1, <1>3, <1>4, <1>5, <1>6 DEF Play!Next

\* The types of replays.
LEMMA PlayTyped == PlayInv /\ ProgressInv => Play!TypeOK
  BY DEF PlayInv, ProgressInv, Runs, Play!TypeOK

----------------------------------------------------------------------------
(* Macro: what is there has not expired, and no time is counted beyond the interval *)

EntryInv == /\ macro = Rounds!Absent \/ (macro.ttl \in {ShortTTL, LongTTL} /\ macro.age < macro.ttl)
            /\ collecting.time <= Interval
            /\ report \subseteq {"breadth", "sector", "position"}

\* Nothing is there at first.
LEMMA EntryInit == Rounds!Init => EntryInv
  <1>1. Interval \in Nat
    BY ConstantsAreSound DEF Rounds!MacroAssumption
  <1> QED BY <1>1 DEF Rounds!Init, EntryInv, Rounds!Rest, Rounds!Nothing

\* Every step keeps that.
LEMMA EntryStep == RoundInv /\ EntryInv /\ [Rounds!Next]_roundsVars => EntryInv'
  <1> SUFFICES ASSUME RoundInv, EntryInv, [Rounds!Next]_roundsVars PROVE EntryInv'
    OBVIOUS
  <1>0. /\ Interval \in Nat /\ ShortTTL \in Nat \ {0} /\ LongTTL \in Nat \ {0}
        /\ collecting \in MacroRounds /\ macro \in MacroEntries
        /\ collecting.time \in Nat /\ macro.age \in Nat /\ macro.ttl \in Nat
    BY ConstantsAreSound DEF Rounds!MacroAssumption, RoundInv, MacroRounds, MacroEntries
  <1>1. ASSUME NEW pc, Rounds!Goto(pc) PROVE collecting'.time = collecting.time
    BY <1>0, <1>1 DEF Rounds!Goto, MacroRounds
  <1>2. Rounds!Rest.time = 0 /\ [Rounds!Rest EXCEPT !.pc = "ask"].time = 0
    BY DEF Rounds!Rest
  <1>3. CASE Rounds!Begin \/ Rounds!End
    <2>1. collecting'.time = 0 /\ macro' = macro /\ report' = report
      BY <1>2, <1>3 DEF Rounds!Begin, Rounds!End
    <2> QED BY <1>0, <2>1 DEF EntryInv
  <1>4. ASSUME collecting'.time = collecting.time, report' \subseteq {"breadth", "sector", "position"},
               macro' = macro \/ (macro'.ttl \in {ShortTTL, LongTTL} /\ macro'.age = 0)
        PROVE  EntryInv'
    BY <1>0, <1>4 DEF EntryInv
  <1>5. CASE Rounds!Refused \/ Rounds!LongFails
    <2>1. collecting'.time = collecting.time
      BY <1>0, <1>1, <1>5 DEF Rounds!Refused, Rounds!LongFails, MacroRounds
    <2> QED BY <1>4, <1>5, <2>1 DEF Rounds!Refused, Rounds!LongFails, EntryInv
  <1>6. ASSUME NEW indices \in BOOLEAN, NEW sectors \in BOOLEAN, Rounds!Sources(indices, sectors)
        PROVE  EntryInv'
    <2>1. collecting'.time = collecting.time
      BY <1>0, <1>6 DEF Rounds!Sources, MacroRounds
    <2> QED BY <1>4, <1>6, <2>1 DEF Rounds!Sources, EntryInv
  <1>7. CASE Rounds!WriteShort \/ Rounds!WriteFails(TRUE) \/ Rounds!WriteFails(FALSE)
    <2>1. collecting'.time = collecting.time
      BY <1>1, <1>7 DEF Rounds!WriteShort, Rounds!WriteFails
    <2>2. macro' = macro \/ macro' = [data |-> collecting.data, age |-> 0, ttl |-> ShortTTL]
      BY <1>7 DEF Rounds!WriteShort, Rounds!WriteFails
    <2>3. report' = report
      BY <1>7 DEF Rounds!WriteShort, Rounds!WriteFails
    <2> QED BY <1>4, <2>1, <2>2, <2>3 DEF EntryInv
  <1>8. CASE Rounds!WriteLong
    <2>1. collecting'.time = collecting.time
      BY <1>0, <1>8 DEF Rounds!WriteLong, MacroRounds
    <2>2. macro'.age = 0 /\ macro'.ttl = LongTTL
      BY <1>0, <1>8 DEF Rounds!WriteLong, Rounds!Lengthened, MacroEntries
    <2> QED BY <1>4, <1>8, <2>1, <2>2 DEF Rounds!WriteLong, EntryInv
  <1>9. ASSUME NEW b \in BOOLEAN, Rounds!Publish(b) PROVE EntryInv'
    <2>1. collecting'.time = collecting.time
      BY <1>1, <1>9 DEF Rounds!Publish
    <2>2. report' \subseteq {"breadth", "sector", "position"} /\ macro' = macro
      BY <1>9 DEF Rounds!Publish, Rounds!Factors
    <2> QED BY <1>4, <2>1, <2>2
  <1>10. CASE Rounds!Tick
    <2>1. macro' = IF macro.age + 1 >= macro.ttl THEN Rounds!Absent ELSE [macro EXCEPT !.age = macro.age + 1]
      BY <1>10 DEF Rounds!Tick
    <2>2. macro' = Rounds!Absent \/ (macro'.ttl = macro.ttl /\ macro'.age = macro.age + 1 /\ macro.age + 1 < macro.ttl)
      BY <1>0, <2>1 DEF MacroEntries
    <2>3. collecting' = [collecting EXCEPT !.time = IF collecting.time < Interval THEN collecting.time + 1 ELSE collecting.time]
      BY <1>10 DEF Rounds!Tick
    <2>4. collecting'.time = IF collecting.time < Interval THEN collecting.time + 1 ELSE collecting.time
      BY <1>0, <2>3 DEF MacroRounds
    <2>5. report' = report
      BY <1>10 DEF Rounds!Tick
    <2>6. Rounds!Absent.ttl = 0
      BY DEF Rounds!Absent
    <2> QED BY <1>0, <2>2, <2>4, <2>5, <2>6 DEF EntryInv
  <1>11. CASE UNCHANGED roundsVars
    BY <1>11 DEF roundsVars, EntryInv
  <1> QED BY <1>3, <1>5, <1>6, <1>7, <1>8, <1>9, <1>10, <1>11 DEF Rounds!Next

\* The types of the entry and of the round.
LEMMA RoundsTyped == RoundInv /\ EntryInv => Rounds!TypeOK
  <1> SUFFICES ASSUME RoundInv, EntryInv PROVE Rounds!TypeOK
    OBVIOUS
  <1>1. collecting.time \in Nat /\ Interval \in Nat
    BY ConstantsAreSound DEF Rounds!MacroAssumption, RoundInv, MacroRounds
  <1>2. Rounds!Absent.ttl = 0
    BY DEF Rounds!Absent
  <1> QED BY <1>1, <1>2 DEF EntryInv, Rounds!TypeOK

----------------------------------------------------------------------------
(* Strategies: no count is above the number of evaluations *)

\* The evaluations that have still to count.
Counting == {e \in Evaluators : evaluation[e].pc = "judge"}

\* Each of them may add one to what is there or on its way.
TallyInv == /\ evaluations \in Nat /\ evaluations <= MaxEvaluations /\ IsFiniteSet(Counting)
            /\ strategy_losses + Cardinality(Counting) <= evaluations
            /\ \A e \in Evaluators : /\ evaluation[e].count + Cardinality(Counting) <= evaluations
                                     /\ evaluation[e].losses + Cardinality(Counting) <= evaluations

\* Nothing is evaluated at first.
LEMMA TallyInit == Strat!Init => TallyInv
  <1> SUFFICES ASSUME Strat!Init PROVE TallyInv
    OBVIOUS
  <1>1. \A e \in Evaluators : evaluation[e].pc = "idle" /\ evaluation[e].count = 0 /\ evaluation[e].losses = 0
    BY DEF Strat!Init, Strat!Idle
  <1>2. Counting = {}
    BY <1>1 DEF Counting
  <1>3. IsFiniteSet(Counting) /\ Cardinality(Counting) = 0
    BY <1>2, FS_EmptySet
  <1>4. MaxEvaluations \in Nat
    BY ConstantsAreSound DEF Strat!StrategiesAssumption
  <1> QED BY <1>1, <1>3, <1>4 DEF Strat!Init, TallyInv

\* An evaluation that begins, or that ends for this or goes on.
LEMMA CountingChanges ==
    ASSUME StratInv, TallyInv, NEW e \in Evaluators, NEW r, evaluation' = [evaluation EXCEPT ![e] = r]
    PROVE  /\ IsFiniteSet(Counting') /\ Cardinality(Counting) \in Nat /\ Cardinality(Counting') \in Nat
           /\ evaluation[e].pc # "judge" /\ r.pc = "judge" => Cardinality(Counting') = Cardinality(Counting) + 1
           /\ evaluation[e].pc = "judge" /\ r.pc # "judge" => Cardinality(Counting') = Cardinality(Counting) - 1
           /\ evaluation[e].pc # "judge" /\ r.pc # "judge" => Cardinality(Counting') = Cardinality(Counting)
  <1> DEFINE rest == Counting \ {e}
  <1>0. \A f \in Evaluators : evaluation'[f] = IF f = e THEN r ELSE evaluation[f]
    BY DEF StratInv, StratType
  <1>1. Counting = (IF evaluation[e].pc = "judge" THEN rest \cup {e} ELSE rest) /\ e \notin rest
    BY DEF Counting
  <1>2. Counting' = IF r.pc = "judge" THEN rest \cup {e} ELSE rest
    BY <1>0 DEF Counting
  <1>3. IsFiniteSet(rest)
    BY FS_RemoveElement DEF TallyInv
  <1> HIDE DEF rest, Counting
  <1>4. /\ IsFiniteSet(rest \cup {e}) /\ Cardinality(rest \cup {e}) = Cardinality(rest) + 1
        /\ Cardinality(rest) \in Nat
    BY <1>1, <1>3, FS_AddElement, FS_CardinalityType
  <1>5. CASE evaluation[e].pc = "judge"
    <2>1. Cardinality(Counting) = Cardinality(rest) + 1
      BY <1>1, <1>4, <1>5
    <2>2. r.pc = "judge" => IsFiniteSet(Counting') /\ Cardinality(Counting') = Cardinality(rest) + 1
      BY <1>2, <1>4
    <2>3. r.pc # "judge" => IsFiniteSet(Counting') /\ Cardinality(Counting') = Cardinality(rest)
      BY <1>2, <1>3
    <2> QED BY <1>4, <1>5, <2>1, <2>2, <2>3
  <1>6. CASE evaluation[e].pc # "judge"
    <2>1. Cardinality(Counting) = Cardinality(rest)
      BY <1>1, <1>6
    <2>2. r.pc = "judge" => IsFiniteSet(Counting') /\ Cardinality(Counting') = Cardinality(rest) + 1
      BY <1>2, <1>4
    <2>3. r.pc # "judge" => IsFiniteSet(Counting') /\ Cardinality(Counting') = Cardinality(rest)
      BY <1>2, <1>3
    <2> QED BY <1>4, <1>6, <2>1, <2>2, <2>3
  <1> QED BY <1>5, <1>6

\* Every step keeps the bound.
LEMMA TallyStep == StratInv /\ TallyInv /\ [Strat!Next]_stratVars => TallyInv'
  <1> SUFFICES ASSUME StratInv, TallyInv, [Strat!Next]_stratVars PROVE TallyInv'
    OBVIOUS
  <1>0. /\ MaxEvaluations \in Nat /\ evaluations \in Nat /\ strategy_losses \in Nat
        /\ \A e \in Evaluators : evaluation[e] \in Evaluation /\ evaluation[e].count \in Nat /\ evaluation[e].losses \in Nat
        /\ Cardinality(Counting) \in Nat
    BY ConstantsAreSound, FS_CardinalityType DEF Strat!StrategiesAssumption, TallyInv, StratInv, StratType, Evaluation
  <1>1. Strat!Idle.pc = "idle" /\ Strat!Idle.count = 0 /\ Strat!Idle.losses = 0
    BY DEF Strat!Idle
  <1>2. ASSUME NEW e \in Evaluators, NEW r, evaluation' = [evaluation EXCEPT ![e] = r],
               evaluations' \in Nat, evaluations' <= MaxEvaluations, Cardinality(Counting') <= evaluations',
               Cardinality(Counting') - Cardinality(Counting) <= evaluations' - evaluations,
               strategy_losses' + Cardinality(Counting') <= evaluations',
               r.count + Cardinality(Counting') <= evaluations', r.losses + Cardinality(Counting') <= evaluations'
        PROVE  TallyInv'
    <2>1. \A f \in Evaluators : evaluation'[f] = IF f = e THEN r ELSE evaluation[f]
      BY <1>2 DEF StratInv, StratType
    <2>2. IsFiniteSet(Counting') /\ Cardinality(Counting') \in Nat
      BY <1>2, CountingChanges
    <2>3. ASSUME NEW f \in Evaluators
          PROVE  /\ evaluation'[f].count + Cardinality(Counting') <= evaluations'
                 /\ evaluation'[f].losses + Cardinality(Counting') <= evaluations'
      <3>1. CASE f = e
        BY <1>2, <2>1, <3>1
      <3>2. CASE f # e
        <4>1. evaluation'[f] = evaluation[f]
          BY <2>1, <3>2
        <4>2. /\ evaluation[f].count + Cardinality(Counting) <= evaluations
              /\ evaluation[f].losses + Cardinality(Counting) <= evaluations
          BY DEF TallyInv
        <4> HIDE DEF Counting
        <4> QED BY <1>0, <1>2, <2>2, <4>1, <4>2
      <3> QED BY <3>1, <3>2
    <2> QED BY <1>2, <2>2, <2>3 DEF TallyInv
  <1>3. ASSUME NEW e \in Evaluators, NEW healthy \in BOOLEAN, Strat!Evaluate(e, healthy) PROVE TallyInv'
    <2> DEFINE r == [Strat!Idle EXCEPT !.pc = "judge", !.healthy = healthy]
    <2>1. evaluation' = [evaluation EXCEPT ![e] = r] /\ evaluations' = evaluations + 1 /\ evaluations < MaxEvaluations
          /\ strategy_losses' = strategy_losses /\ evaluation[e].pc # "judge"
      BY <1>3 DEF Strat!Evaluate
    <2>2. r.pc = "judge" /\ r.count = 0 /\ r.losses = 0
      BY DEF Strat!Idle
    <2> HIDE DEF r
    <2>3. Cardinality(Counting') = Cardinality(Counting) + 1
      BY <2>1, <2>2, CountingChanges
    <2>4. strategy_losses + Cardinality(Counting) <= evaluations
      BY DEF TallyInv
    <2>5. /\ evaluations' \in Nat /\ evaluations' <= MaxEvaluations /\ Cardinality(Counting') <= evaluations'
          /\ Cardinality(Counting') - Cardinality(Counting) <= evaluations' - evaluations
          /\ strategy_losses' + Cardinality(Counting') <= evaluations'
      BY <1>0, <2>1, <2>3, <2>4
    <2>6. r.count + Cardinality(Counting') <= evaluations' /\ r.losses + Cardinality(Counting') <= evaluations'
      BY <1>0, <2>1, <2>2, <2>5, <2>3
    <2> QED BY <1>2, <2>1, <2>5, <2>6
  <1>4. ASSUME NEW e \in Evaluators, Strat!Judge(e) PROVE TallyInv'
    <2> DEFINE judged == Strat!Judged(strategy_losses, evaluation[e].healthy)
               r == [evaluation[e] EXCEPT !.pc = "read", !.count = judged.count, !.fields = judged.fields]
    <2>1. evaluation' = [evaluation EXCEPT ![e] = r] /\ evaluations' = evaluations
          /\ strategy_losses' = strategy_losses /\ evaluation[e].pc = "judge"
      BY <1>0, <1>4 DEF Strat!Judge, StratInv, StratType, Evaluation
    <2>2. judged.count \in Nat /\ judged.count <= strategy_losses + 1
      BY <1>0, JudgedFields DEF Evaluation
    <2> HIDE DEF judged
    <2>3. r.pc = "read" /\ r.count = judged.count /\ r.losses = evaluation[e].losses
      BY <1>0 DEF Evaluation
    <2> HIDE DEF r
    <2>4. Cardinality(Counting') = Cardinality(Counting) - 1
      BY <2>1, <2>3, CountingChanges
    <2>5. strategy_losses + Cardinality(Counting) <= evaluations /\ evaluations <= MaxEvaluations
          /\ evaluation[e].losses + Cardinality(Counting) <= evaluations
      BY DEF TallyInv
    <2>6. /\ evaluations' \in Nat /\ evaluations' <= MaxEvaluations /\ Cardinality(Counting') <= evaluations'
          /\ Cardinality(Counting') - Cardinality(Counting) <= evaluations' - evaluations
          /\ strategy_losses' + Cardinality(Counting') <= evaluations'
      BY <1>0, <2>1, <2>4, <2>5
    <2>7. r.count + Cardinality(Counting') <= evaluations' /\ r.losses + Cardinality(Counting') <= evaluations'
      BY <1>0, <2>1, <2>2, <2>3, <2>4, <2>5
    <2> QED BY <1>2, <2>1, <2>6, <2>7
  <1>5. ASSUME NEW e \in Evaluators, NEW r, evaluation' = [evaluation EXCEPT ![e] = r], r.pc # "judge",
               evaluations' = evaluations,
               strategy_losses' \in {strategy_losses, evaluation[e].losses},
               r.count \in {evaluation[e].count, 0},
               r.losses \in {evaluation[e].losses, evaluation[e].count, strategy_losses, 0}
        PROVE  TallyInv'
    <2>1. Cardinality(Counting') \in Nat /\ Cardinality(Counting') <= Cardinality(Counting)
      <3>1. /\ Cardinality(Counting') \in Nat
            /\ Cardinality(Counting') = Cardinality(Counting) \/ Cardinality(Counting') = Cardinality(Counting) - 1
        BY <1>5, CountingChanges
      <3> QED BY <1>0, <3>1
    <2>2. /\ strategy_losses + Cardinality(Counting) <= evaluations /\ evaluations <= MaxEvaluations
          /\ evaluation[e].losses + Cardinality(Counting) <= evaluations
          /\ evaluation[e].count + Cardinality(Counting) <= evaluations
      BY DEF TallyInv
    <2>3. strategy_losses' + Cardinality(Counting') <= evaluations /\ strategy_losses' \in Nat
      BY <1>0, <1>5, <2>1, <2>2
    <2>4. r.count + Cardinality(Counting') <= evaluations /\ r.losses + Cardinality(Counting') <= evaluations
      BY <1>0, <1>5, <2>1, <2>2
    <2>5. evaluations' \in Nat /\ Cardinality(Counting') <= evaluations'
          /\ Cardinality(Counting') - Cardinality(Counting) <= evaluations' - evaluations
      BY <1>0, <1>5, <2>1, <2>2
    <2> QED BY <1>2, <1>5, <2>2, <2>3, <2>4, <2>5
  <1>6. ASSUME NEW e \in Evaluators, Strat!ReadState(e) PROVE TallyInv'
    <2> DEFINE r == [evaluation[e] EXCEPT !.pc = "write",
                          !.losses = IF Head(evaluation[e].fields) = "count" THEN evaluation[e].count
                                     ELSE strategy_losses]
    <2>1. evaluation' = [evaluation EXCEPT ![e] = r] /\ evaluations' = evaluations /\ strategy_losses' = strategy_losses
      BY <1>0, <1>6 DEF Strat!ReadState, StratInv, StratType, Evaluation
    <2>2. r.pc = "write" /\ r.count = evaluation[e].count /\ r.losses \in {evaluation[e].count, strategy_losses}
      BY <1>0 DEF Evaluation
    <2> HIDE DEF r
    <2> QED BY <1>5, <2>1, <2>2
  <1>7. ASSUME NEW e \in Evaluators, Strat!WriteState(e) PROVE TallyInv'
    <2> DEFINE rest == Tail(evaluation[e].fields)
               r == IF rest = <<>> THEN Strat!Idle ELSE [evaluation[e] EXCEPT !.pc = "read", !.fields = rest]
    <2>1. evaluation' = [evaluation EXCEPT ![e] = r] /\ evaluations' = evaluations /\ strategy_losses' = evaluation[e].losses
      BY <1>0, <1>7 DEF Strat!WriteState
    <2>2. r.pc \in {"idle", "read"} /\ r.count \in {evaluation[e].count, 0} /\ r.losses \in {evaluation[e].losses, 0}
      BY <1>0, <1>1 DEF Evaluation
    <2> HIDE DEF r
    <2> QED BY <1>5, <2>1, <2>2
  <1>8. ASSUME NEW e \in Evaluators, Strat!EvaluationFails(e) PROVE TallyInv'
    <2>1. evaluation' = [evaluation EXCEPT ![e] = Strat!Idle] /\ evaluations' = evaluations /\ strategy_losses' = strategy_losses
      BY <1>8 DEF Strat!EvaluationFails
    <2> QED BY <1>1, <1>5, <2>1
  <1>9. ASSUME strategy_losses' \in {0, strategy_losses}, evaluation' = evaluation, evaluations' = evaluations
        PROVE  TallyInv'
    <2>1. Counting' = Counting
      BY <1>9 DEF Counting
    <2>2. strategy_losses + Cardinality(Counting) <= evaluations
      BY DEF TallyInv
    <2> HIDE DEF Counting
    <2>3. strategy_losses' + Cardinality(Counting) <= evaluations
      BY <1>0, <1>9, <2>2
    <2> QED BY <1>9, <2>1, <2>3 DEF TallyInv
  <1>10. CASE Strat!Enable \/ UNCHANGED stratVars
    BY <1>9, <1>10 DEF Strat!Enable, stratVars
  <1> QED BY <1>3, <1>4, <1>6, <1>7, <1>8, <1>10 DEF Strat!Next

\* The types of the state in Redis and of the evaluations.
LEMMA StratTyped == StratInv /\ TallyInv => Strat!TypeOK
  <1> SUFFICES ASSUME StratInv, TallyInv PROVE Strat!TypeOK
    OBVIOUS
  <1>1. Cardinality(Counting) \in Nat /\ MaxEvaluations \in Nat /\ strategy_losses \in Nat
    BY ConstantsAreSound, FS_CardinalityType DEF Strat!StrategiesAssumption, TallyInv, StratInv, StratType
  <1>2. strategy_losses + Cardinality(Counting) <= evaluations /\ evaluations <= MaxEvaluations /\ evaluations \in Nat
    BY DEF TallyInv
  <1> HIDE DEF Counting
  <1>3. strategy_losses \in 0..MaxEvaluations
    BY <1>1, <1>2
  <1> QED BY <1>3 DEF StratInv, StratType, Evaluation, Strat!TypeOK

----------------------------------------------------------------------------
(* Reports: no report is of K-lines that have not been fetched *)

SeenInv ==
    /\ provider \subseteq Stocks /\ muddled \subseteq Told!Agents \X Stocks
    /\ \A s \in Stocks : /\ raw[s].version <= MaxUpdates
                         /\ cached[s].seen <= raw[s].version /\ cached[s].age < ReportTTL
                         /\ \A a \in Told!Agents : reported[a][s] <= raw[s].version
    /\ \A t \in Handlers : handler[t].pc # "idle" => handler[t].seen <= raw[handler[t].stock].version

\* Nothing has been fetched at first.
LEMMA SeenInit == Told!Init => SeenInv
  <1> SUFFICES ASSUME Told!Init PROVE SeenInv
    OBVIOUS
  <1>1. ReportTTL \in Nat \ {0} /\ MaxUpdates \in Nat
    BY ConstantsAreSound DEF Told!ReportsAssumption
  <1> QED BY <1>1, IdleHandler DEF Told!Init, SeenInv, Told!NoReport

\* Every step keeps that.
LEMMA SeenStep == ToldInv /\ SeenInv /\ [Told!Next]_toldVars => SeenInv'
  <1> SUFFICES ASSUME ToldInv, SeenInv, [Told!Next]_toldVars PROVE SeenInv'
    OBVIOUS
  <1>0. /\ ReportTTL \in Nat \ {0} /\ MaxUpdates \in Nat
        /\ \A s \in Stocks : raw[s].version \in Nat /\ cached[s].seen \in Nat /\ cached[s].age \in Nat
        /\ \A a \in Told!Agents, s \in Stocks : reported[a][s] \in Nat
        /\ \A t \in Handlers : /\ handler[t] \in Handlings /\ handler[t].seen \in Nat
                               /\ handler[t].pc # "idle" => handler[t].stock \in Stocks
    BY ConstantsAreSound DEF Told!ReportsAssumption, ToldInv, Handlings
  <1>1. ASSUME NEW s \in Stocks, NEW enough \in BOOLEAN, Told!Cache(s, enough) PROVE SeenInv'
    <2>1. raw' = [raw EXCEPT ![s] = Told!Fetched(s, enough)] /\ raw[s].version < MaxUpdates
          /\ Told!Fetched(s, enough).version = raw[s].version + 1
      BY <1>1 DEF Told!Cache, Told!Fetched
    <2>2. \A u \in Stocks : raw'[u].version = IF u = s THEN raw[s].version + 1 ELSE raw[u].version
      BY <2>1 DEF ToldInv
    <2>3. /\ provider' = provider \cup {s} /\ muddled' = muddled /\ cached' = cached /\ reported' = reported
          /\ handler' = handler
      BY <1>1 DEF Told!Cache
    <2>4. \A u \in Stocks : raw[u].version <= raw'[u].version /\ raw'[u].version <= MaxUpdates
      BY <1>0, <2>1, <2>2 DEF SeenInv
    <2>5. ASSUME NEW u \in Stocks
          PROVE  /\ cached'[u].seen <= raw'[u].version /\ cached'[u].age < ReportTTL
                 /\ \A a \in Told!Agents : reported'[a][u] <= raw'[u].version
      BY <1>0, <2>2, <2>3, <2>4 DEF SeenInv
    <2>6. \A t \in Handlers : handler'[t].pc # "idle" => handler'[t].seen <= raw'[handler'[t].stock].version
      BY <1>0, <2>2, <2>3, <2>4 DEF SeenInv
    <2> QED BY <2>3, <2>4, <2>5, <2>6 DEF SeenInv
  <1>2. ASSUME \A s \in Stocks : raw'[s].version = raw[s].version, UNCHANGED <<reported, cached>>, provider' \subseteq provider,
               muddled' \subseteq Told!Agents \X Stocks,
               \A t \in Handlers : \/ handler'[t].pc = "idle"
                                   \/ /\ handler'[t].stock \in Stocks
                                      /\ handler'[t].seen <= raw[handler'[t].stock].version
        PROVE  SeenInv'
    BY <1>2 DEF SeenInv
  <1>3. ASSUME NEW s \in Stocks, NEW works \in BOOLEAN, Told!Announce(s, works) PROVE SeenInv'
    <2>1. muddled' \subseteq Told!Agents \X Stocks /\ provider' \subseteq provider
          /\ raw' = raw /\ reported' = reported /\ cached' = cached /\ handler' = handler
      BY <1>3 DEF Told!Announce, SeenInv
    <2> QED BY <1>0, <1>2, <2>1 DEF SeenInv
  <1>4. ASSUME NEW s \in Stocks, Told!Expire(s) PROVE SeenInv'
    <2>1. \A u \in Stocks : raw'[u].version = raw[u].version
      BY <1>4 DEF Told!Expire, ToldInv
    <2> QED BY <1>0, <1>2, <1>4, <2>1 DEF Told!Expire, SeenInv
  <1>5. ASSUME NEW t \in Handlers, NEW r, handler' = [handler EXCEPT ![t] = r]
        PROVE  \A u \in Handlers : handler'[u] = IF u = t THEN r ELSE handler[u]
    BY <1>5 DEF ToldInv
  <1>6. ASSUME NEW t \in Handlers, NEW r, handler' = [handler EXCEPT ![t] = r], UNCHANGED <<raw, provider, reported, cached>>,
               muddled' \subseteq Told!Agents \X Stocks,
               r.pc = "idle" \/ (r.stock \in Stocks /\ r.seen <= raw[r.stock].version)
        PROVE  SeenInv'
    <2>1. \A u \in Handlers : \/ handler'[u].pc = "idle"
                              \/ /\ handler'[u].stock \in Stocks
                                 /\ handler'[u].seen <= raw[handler'[u].stock].version
      BY <1>0, <1>5, <1>6 DEF SeenInv
    <2> QED BY <1>2, <1>6, <2>1
  <1>7. ASSUME NEW t \in Handlers, NEW a \in Told!Agents, NEW s \in Stocks, Told!Receive(t, a, s) PROVE SeenInv'
    <2> DEFINE r == [pc |-> "read", agent |-> a, stock |-> s, seen |-> 0]
    <2>1. handler' = [handler EXCEPT ![t] = r] /\ UNCHANGED <<raw, provider, reported, cached>>
          /\ muddled' \subseteq muddled \cup {<<a, s>>}
      BY <1>7 DEF Told!Receive
    <2>2. r.stock \in Stocks /\ r.seen = 0
      OBVIOUS
    <2>3. r.seen <= raw[r.stock].version
      BY <1>0, <2>2
    <2>4. muddled' \subseteq Told!Agents \X Stocks
      BY <2>1 DEF SeenInv
    <2> HIDE DEF r
    <2> QED BY <1>6, <2>1, <2>2, <2>3, <2>4
  <1>8. ASSUME NEW t \in Handlers, handler[t].pc # "idle"
        PROVE  muddled \cup {<<handler[t].agent, handler[t].stock>>} \subseteq Told!Agents \X Stocks
    BY <1>0, <1>8 DEF SeenInv, Handlings
  <1>9. ASSUME NEW t \in Handlers, Told!Read(t) PROVE SeenInv'
    <2> DEFINE r == [handler[t] EXCEPT !.pc = "publish", !.seen = raw[handler[t].stock].version]
    <2>1. handler' = [handler EXCEPT ![t] = r] /\ UNCHANGED <<raw, provider, reported, cached, muddled>> /\ handler[t].pc # "idle"
      BY <1>0, <1>9 DEF Told!Read, ToldInv, Handlings
    <2>2. r.stock = handler[t].stock /\ r.seen = raw[handler[t].stock].version
      BY <1>0 DEF Handlings
    <2>3. r.stock \in Stocks /\ r.seen <= raw[r.stock].version
      BY <1>0, <2>1, <2>2
    <2> HIDE DEF r
    <2> QED BY <1>6, <2>1, <2>3 DEF SeenInv
  <1>10. ASSUME NEW t \in Handlers, Told!ReadsNothing(t) \/ Told!Fails(t) \/ Told!Save(t) PROVE SeenInv'
    <2>1. /\ handler' = [handler EXCEPT ![t] = Told!Idle] /\ UNCHANGED <<raw, provider, reported, cached>>
          /\ handler[t].pc # "idle" /\ muddled' \subseteq muddled \cup {<<handler[t].agent, handler[t].stock>>}
      BY <1>10 DEF Told!ReadsNothing, Told!Fails, Told!Save, Told!End, Told!Muddle
    <2> QED BY <1>6, <1>8, <2>1, IdleHandler
  <1>11. ASSUME NEW t \in Handlers, NEW pc, Told!Goto(t, pc), handler[t].pc # "idle"
         PROVE  \A u \in Handlers : handler'[u].pc # "idle" => handler'[u].stock = handler[u].stock
                                      /\ handler'[u].seen = handler[u].seen /\ handler[u].pc # "idle"
    BY <1>0, <1>11 DEF Told!Goto, ToldInv, Handlings
  <1>12. ASSUME NEW t \in Handlers, Told!Publish(t) PROVE SeenInv'
    <2>1. /\ reported' = [reported EXCEPT ![handler[t].agent][handler[t].stock] = handler[t].seen] /\ handler[t].pc # "idle"
          /\ UNCHANGED <<raw, provider, cached, muddled>>
      BY <1>12 DEF Told!Publish
    <2>2. \A u \in Handlers : handler'[u].pc # "idle" => handler'[u].stock = handler[u].stock
                                      /\ handler'[u].seen = handler[u].seen /\ handler[u].pc # "idle"
      BY <1>11, <1>12, <2>1 DEF Told!Publish
    <2>3. ASSUME NEW a \in Told!Agents, NEW s \in Stocks PROVE reported'[a][s] <= raw[s].version
      <3>1. reported'[a][s] = reported[a][s] \/ (s = handler[t].stock /\ reported'[a][s] = handler[t].seen)
        BY <1>0, <2>1 DEF ToldInv
      <3> QED BY <2>1, <3>1 DEF SeenInv
    <2> QED BY <2>1, <2>2, <2>3 DEF SeenInv
  <1>13. ASSUME NEW t \in Handlers, Told!CacheReport(t) PROVE SeenInv'
    <2>1. /\ cached' = [cached EXCEPT ![handler[t].stock] = [seen |-> handler[t].seen, age |-> 0]] /\ handler[t].pc # "idle"
          /\ UNCHANGED <<raw, provider, reported, muddled>>
      BY <1>13 DEF Told!CacheReport
    <2>2. \A u \in Handlers : handler'[u].pc # "idle" => handler'[u].stock = handler[u].stock
                                      /\ handler'[u].seen = handler[u].seen /\ handler[u].pc # "idle"
      BY <1>11, <1>13, <2>1 DEF Told!CacheReport
    <2>3. ASSUME NEW s \in Stocks PROVE cached'[s].seen <= raw[s].version /\ cached'[s].age < ReportTTL
      <3>1. cached'[s] = cached[s] \/ (s = handler[t].stock /\ cached'[s] = [seen |-> handler[t].seen, age |-> 0])
        BY <2>1 DEF ToldInv
      <3> QED BY <1>0, <2>1, <3>1 DEF SeenInv
    <2> QED BY <2>1, <2>2, <2>3 DEF SeenInv
  <1>14. CASE Told!Tick
    <2>1. UNCHANGED <<raw, provider, handler, reported, muddled>>
      BY <1>14 DEF Told!Tick
    <2>2. ASSUME NEW s \in Stocks PROVE cached'[s].seen <= raw[s].version /\ cached'[s].age < ReportTTL
      <3>1. \/ cached'[s] = Told!NoReport
            \/ cached'[s] = [cached[s] EXCEPT !.age = cached[s].age + 1] /\ ~(cached[s].age + 1 >= ReportTTL)
        BY <1>14 DEF Told!Tick
      <3>2. Told!NoReport.seen = 0 /\ Told!NoReport.age = 0
        BY DEF Told!NoReport
      <3>3. cached[s] \in [seen : Nat, age : Nat]
        BY DEF ToldInv
      <3> QED BY <1>0, <3>1, <3>2, <3>3 DEF SeenInv
    <2> QED BY <2>1, <2>2 DEF SeenInv
  <1>15. CASE UNCHANGED toldVars
    BY <1>15 DEF toldVars, SeenInv
  <1> QED BY <1>1, <1>3, <1>4, <1>7, <1>9, <1>10, <1>12, <1>13, <1>14, <1>15 DEF Told!Next

\* The types of what is fetched, cached and reported.
LEMMA ToldTyped == ToldInv /\ SeenInv => Told!TypeOK
  <1> SUFFICES ASSUME ToldInv, SeenInv PROVE Told!TypeOK
    OBVIOUS
  <1>1. MaxUpdates \in Nat /\ \A s \in Stocks : raw[s].version \in Nat
    BY ConstantsAreSound DEF Told!ReportsAssumption, ToldInv
  <1>2. \A s \in Stocks : raw[s].version \in 0..MaxUpdates
    BY <1>1 DEF SeenInv
  <1> QED BY <1>2 DEF SeenInv, Told!TypeOK

----------------------------------------------------------------------------
(* Watchlist: one row for a stock, and names of the stocks there are *)

ListInv == /\ known \cup names \subseteq Watchable
           /\ adds \in Nat /\ adds <= MaxAdds
           /\ \A i, j \in DOMAIN rows : rows[i].symbol = rows[j].symbol => i = j

\* The table is empty at first.
LEMMA ListInit == Watched!Init => ListInv
  <1> SUFFICES ASSUME Watched!Init PROVE ListInv
    OBVIOUS
  <1>1. DOMAIN rows = {}
    BY DEF Watched!Init
  <1>2. MaxAdds \in Nat
    BY ConstantsAreSound DEF Watched!WatchlistAssumption
  <1> QED BY <1>1, <1>2 DEF Watched!Init, ListInv

\* Every step keeps that: a row is only inserted for a stock that has none.
LEMMA ListStep == WatchedInv /\ ListInv /\ [Watched!Next]_watchedVars => ListInv'
  <1> SUFFICES ASSUME WatchedInv, ListInv, [Watched!Next]_watchedVars PROVE ListInv'
    OBVIOUS
  <1>0. TableInv /\ \A r \in Editors : calls[r] \in Calls
    BY DEF WatchedInv
  <1>1. ASSUME rows' = rows, known' = known \/ (\E s \in Watchable : known' = known \cup {s}),
               names' = names \/ names' \subseteq Watchable,
               adds' = adds \/ (adds' = adds + 1 /\ adds < MaxAdds)
        PROVE  ListInv'
    <2>1. adds' \in Nat /\ adds' <= MaxAdds
      BY <1>1, ConstantsAreSound DEF ListInv, Watched!WatchlistAssumption
    <2> QED BY <1>1, <2>1 DEF ListInv
  <1>2. ASSUME DOMAIN rows' \subseteq DOMAIN rows, \A i \in DOMAIN rows' : rows'[i].symbol = rows[i].symbol,
               UNCHANGED <<known, names, adds>>
        PROVE  ListInv'
    BY <1>2 DEF ListInv
  <1>3. ASSUME NEW s \in SUBSET Watchable, Watched!Preload(s) PROVE ListInv'
    BY <1>1, <1>3 DEF Watched!Preload
  <1>4. CASE Watched!Expire
    BY <1>1, <1>4 DEF Watched!Expire
  <1>5. ASSUME NEW r \in Editors, NEW s \in Watchable, NEW name, Watched!Add(r, s, name) PROVE ListInv'
    BY <1>1, <1>5 DEF Watched!Add
  <1>6. ASSUME NEW r \in Editors, NEW answers \in BOOLEAN, Watched!Name(r, answers) PROVE ListInv'
    <2>1. /\ rows' = rows /\ names' = names /\ adds' = adds
          /\ known' = known \/ known' = known \cup {calls[r].symbol}
      BY <1>6 DEF Watched!Name
    <2>2. calls[r].symbol \in Watchable
      <3>1. r \in Watched!Adding
        BY <1>6 DEF Watched!Name, Watched!Adding
      <3> QED BY <3>1 DEF WatchedInv, AddingInv
    <2> QED BY <1>1, <2>1, <2>2
  <1>7. ASSUME NEW r \in Editors, Watched!Select(r) \/ Watched!Refresh(r) \/ Watched!Keep(r) PROVE ListInv'
    BY <1>1, <1>7 DEF Watched!Select, Watched!Refresh, Watched!Keep
  <1>8. ASSUME NEW r \in Editors, NEW s, Watched!Remove(r, s) PROVE ListInv'
    BY <1>1, <1>8 DEF Watched!Remove
  <1>9. ASSUME NEW r \in Editors, Watched!Insert(r) PROVE ListInv'
    <2>1. CASE Watched!RowOf(calls[r].symbol) # 0
      <3>1. rows' = rows /\ UNCHANGED <<known, names, adds>>
        BY <1>9, <2>1 DEF Watched!Insert, Watched!NoRow
      <3> QED BY <1>1, <3>1
    <2>2. CASE Watched!RowOf(calls[r].symbol) = 0
      <3> DEFINE D == DOMAIN rows
                 new == Watched!NewId
                 row == [symbol |-> calls[r].symbol, name |-> calls[r].name]
      <3>1. rows' = [i \in D \cup {new} |-> IF i = new THEN row ELSE rows[i]] /\ UNCHANGED <<known, names, adds>>
        BY <1>9, <2>2 DEF Watched!Insert, Watched!NoRow
      <3>2. \A i \in D : rows[i].symbol # calls[r].symbol
        BY <1>0, <2>2, RowOfFacts
      <3>3. row.symbol = calls[r].symbol
        OBVIOUS
      <3> HIDE DEF new, row, D
      <3>4. DOMAIN rows' = D \cup {new}
        BY <3>1
      <3>5. \A i \in D \cup {new} : rows'[i] = IF i = new THEN row ELSE rows[i]
        BY <3>1
      <3>6. \A i, j \in D : rows[i].symbol = rows[j].symbol => i = j
        BY DEF ListInv, D
      <3>7. \A i, j \in DOMAIN rows' : rows'[i].symbol = rows'[j].symbol => i = j
        BY <3>2, <3>3, <3>4, <3>5, <3>6
      <3> QED BY <3>1, <3>7 DEF ListInv
    <2> QED BY <2>1, <2>2
  <1>10. ASSUME NEW r \in Editors, Watched!Update(r) PROVE ListInv'
    <2>1. UNCHANGED <<known, names, adds>>
      BY <1>10 DEF Watched!Update
    <2>2. CASE calls[r].id \in DOMAIN rows
      <3>1. rows' = [rows EXCEPT ![calls[r].id].name = calls[r].name]
        BY <1>10, <2>2 DEF Watched!Update
      <3>2. rows = [i \in DOMAIN rows |-> rows[i]] /\ \A i \in DOMAIN rows : rows[i] \in Rows
        BY <1>0 DEF TableInv
      <3>3. DOMAIN rows' = DOMAIN rows /\ \A i \in DOMAIN rows : rows'[i].symbol = rows[i].symbol
        BY <3>1, <3>2 DEF Rows
      <3> QED BY <1>2, <2>1, <3>3
    <2>3. CASE calls[r].id \notin DOMAIN rows
      BY <1>2, <1>10, <2>3 DEF Watched!Update
    <2> QED BY <2>2, <2>3
  <1>11. ASSUME NEW r \in Editors, Watched!Delete(r) PROVE ListInv'
    <2>1. UNCHANGED <<known, names, adds>> /\ rows' = Watched!Restrict(rows, DOMAIN rows \ {calls[r].id})
      BY <1>11 DEF Watched!Delete, Watched!Without
    <2>2. rows' = [i \in DOMAIN rows \ {calls[r].id} |-> rows[i]]
      BY <2>1 DEF Watched!Restrict
    <2> QED BY <1>2, <2>1, <2>2
  <1>12. CASE UNCHANGED watchedVars
    BY <1>1, <1>12 DEF watchedVars
  <1> QED BY <1>3, <1>4, <1>5, <1>6, <1>7, <1>8, <1>9, <1>10, <1>11, <1>12 DEF Watched!Next

\* The types of the table and of the names.
LEMMA WatchedTyped == WatchedInv /\ ListInv => Watched!TypeOK
  <1> SUFFICES ASSUME WatchedInv, ListInv PROVE Watched!TypeOK
    OBVIOUS
  <1>1. MaxAdds \in Nat
    BY ConstantsAreSound DEF Watched!WatchlistAssumption
  <1>2. \A i \in DOMAIN rows : rows[i].symbol \in Watchable /\ rows[i].name \in Watchable \cup {Watched!NoName}
    BY DEF WatchedInv, TableInv, Rows, Names
  <1>3. promised \subseteq Watchable
    BY <1>2 DEF WatchedInv
  <1> QED BY <1>1, <1>2, <1>3 DEF ListInv, Watched!TypeOK

----------------------------------------------------------------------------
(* Detectors: the days are counted *)

DaysInv == days \in 0..SignBars /\ quoted \in BOOLEAN

\* No day has passed at first.
LEMMA DaysStart == Signs!Init => DaysInv
  <1> SUFFICES ASSUME Signs!Init PROVE DaysInv
    OBVIOUS
  <1>1. days \in 0..SignBars
    BY ConstantsAreSound DEF Signs!DetectorsAssumption, Signs!Init
  <1>2. quoted \in BOOLEAN
    BY DEF Signs!Init
  <1> QED BY <1>1, <1>2 DEF DaysInv

\* Every step counts.
LEMMA DaysStep == DaysInv /\ [Signs!Next]_signsVars => DaysInv'
  <1> SUFFICES ASSUME DaysInv, [Signs!Next]_signsVars PROVE DaysInv'
    OBVIOUS
  <1>1. ASSUME NEW c \in Closes, NEW v \in Volumes, Signs!Bar(c, v) PROVE DaysInv'
    <2>1. days' = days + 1 /\ days < SignBars /\ quoted' = quoted
      BY <1>1 DEF Signs!Bar
    <2>2. days' \in 0..SignBars
      BY <2>1, ConstantsAreSound DEF DaysInv, Signs!DetectorsAssumption
    <2> QED BY <2>1, <2>2 DEF DaysInv
  <1>2. ASSUME NEW c \in Closes, Signs!Quote(c) PROVE DaysInv'
    BY <1>2 DEF Signs!Quote, DaysInv
  <1>3. CASE UNCHANGED signsVars
    BY <1>3 DEF signsVars, DaysInv
  <1> QED BY <1>1, <1>2, <1>3 DEF Signs!Next

\* The types of the bars.
LEMMA SignsTyped == SignInv /\ DaysInv => Signs!TypeOK
  <1> SUFFICES ASSUME SignInv, DaysInv PROVE Signs!TypeOK
    OBVIOUS
  <1>1. DOMAIN klines = 1..Len(klines)
    BY DEF SignInv
  <1>2. ASSUME NEW i \in 1..Len(klines)
        PROVE  klines[i].close \in klines[i].low..klines[i].high /\ klines[i].volume \in Nat
    <2>1. klines[i] \in DayBars
      BY DEF SignInv
    <2>2. klines[i].close \in Nat /\ klines[i].low \in Nat /\ klines[i].high \in Nat /\ klines[i].volume \in Nat
      BY <2>1 DEF DayBars
    <2> QED BY <2>2 DEF SignInv
  <1> QED BY <1>1, <1>2 DEF DaysInv, Signs!TypeOK

----------------------------------------------------------------------------
(* Sizing: what is suggested is a share and a number of shares *)

\* The types of the answer.
LEMMA SizeTyped == SizeInv => Size!TypeOK
  <1> SUFFICES ASSUME SizeInv PROVE Size!TypeOK
    OBVIOUS
  <1>1. level \in Size!Levels /\ asked \in Size!Questions
    BY DEF SizeInv
  <1>2. Size!Nothing.pct \in 0..Size!MaxPct /\ Size!Nothing.shares \in Nat
    BY UnitFacts DEF Size!Nothing
  <1>3. CASE suggested = Size!Nothing
    BY <1>1, <1>2, <1>3 DEF Size!TypeOK
  <1>4. CASE suggested # Size!Nothing
    <2> DEFINE cut == Cut(asked, level)
               lots == Lots(asked.capital, asked.price, cut)
    <2>1. suggested = Size!Suggestion(asked, level)
      BY <1>4 DEF SizeInv
    <2>2. suggested = [pct |-> cut, shares |-> lots]
      BY <1>1, <1>4, <2>1, SuggestionIs
    <2>3. cut \in 0..Size!MaxPct
      BY <1>1, CutIsCautious
    <2>4. cut \in Nat /\ asked.capital \in Nat \ {0} /\ asked.price \in Nat \ {0}
      BY <1>1, <2>3, QuestionIs, UnitFacts
    <2> HIDE DEF cut
    <2>5. lots \in Nat
      BY <2>4, LotsFit
    <2> HIDE DEF lots
    <2>6. suggested.pct = cut /\ suggested.shares = lots
      BY <2>2
    <2> QED BY <1>1, <2>3, <2>5, <2>6 DEF Size!TypeOK
  <1> QED BY <1>3, <1>4

----------------------------------------------------------------------------
(* PaperAccounts: no more orders than decisions, and no more in the file than are kept *)

OrdersInv == /\ followed \in Nat /\ followed <= MaxOrders /\ whole \in BOOLEAN
             /\ Len(account.orders) <= followed /\ Len(file.orders) <= followed
             /\ Len(file.orders) <= KeptOrders

\* At first there are no orders.
LEMMA OrdersInit == Accounts!Init => OrdersInv
  <1> SUFFICES ASSUME Accounts!Init PROVE OrdersInv
    OBVIOUS
  <1>1. KeptOrders \in Nat /\ MaxOrders \in Nat
    BY ConstantsAreSound DEF Accounts!AccountsAssumption
  <1>2. Len(account.orders) = 0 /\ Len(file.orders) = 0
    BY DEF Accounts!Init, Accounts!NoAccount
  <1>3. whole \in BOOLEAN /\ followed = 0
    BY DEF Accounts!Init
  <1>4. followed \in Nat /\ followed <= MaxOrders /\ Len(account.orders) <= followed /\ Len(file.orders) <= followed
        /\ Len(file.orders) <= KeptOrders
    BY <1>1, <1>2, <1>3
  <1> QED BY <1>3, <1>4 DEF OrdersInv

\* What is saved is not more than there is, and not more than is kept.
LEMMA SavedIsShort ==
    ASSUME NEW a \in PaperBooks
    PROVE  Len(Accounts!Saved(a).orders) <= KeptOrders /\ Len(Accounts!Saved(a).orders) <= Len(a.orders)
  <1>1. a.orders \in Seq(Orders) /\ KeptOrders \in Nat \ {0} /\ Len(a.orders) \in Nat
    BY ConstantsAreSound DEF PaperBooks, Accounts!AccountsAssumption
  <1>2. CASE Len(a.orders) <= KeptOrders
    <2>1. Accounts!Saved(a) = a
      BY <1>2 DEF Accounts!Saved, PaperBooks
    <2> QED BY <1>1, <1>2, <2>1
  <1>3. CASE ~(Len(a.orders) <= KeptOrders)
    <2> DEFINE q == SubSeq(a.orders, Len(a.orders) - KeptOrders + 1, Len(a.orders))
    <2>1. Len(q) = KeptOrders
      BY <1>1, <1>3
    <2>2. Accounts!Saved(a) = [a EXCEPT !.orders = q]
      BY <1>3 DEF Accounts!Saved
    <2> HIDE DEF q
    <2>3. Accounts!Saved(a).orders = q
      BY <2>2 DEF PaperBooks
    <2> QED BY <1>1, <1>3, <2>1, <2>3
  <1> QED BY <1>2, <1>3

\* What a decision comes to.
LEMMA Followed ==
    ASSUME NEW s \in Shares, NEW d \in {"BUY", "SELL", "HOLD"}, NEW p \in SharePrices, NEW c \in 0..2,
           NEW works \in BOOLEAN, Accounts!ExecuteSignal(s, d, p, c, works),
           Accounts!Sized(Accounts!Opened, p, c) \in Nat
    PROVE  LET O(action, quantity) == [symbol |-> s, action |-> action, price |-> p, quantity |-> quantity] IN
           \/ account' = Accounts!Opened /\ file' = Accounts!OpenedFile(works)
           \/ Accounts!Follow(O("BUY", Accounts!Sized(Accounts!Opened, p, c)), works)
           \/ Accounts!Follow(O("SELL", Accounts!Opened.positions[s].quantity), works)
           \/ Accounts!Follow(O("NOTE", 0), works)
  <1> DEFINE size == Accounts!Sized(Accounts!Opened, p, c)
  <1>1. c \in Nat /\ (c = 0 \/ c > 0) /\ (size = 0 \/ size > 0)
    OBVIOUS
  <1>2. CASE d = "BUY"
    <2>1. CASE c = 0 \/ size = 0
      BY <1>2, <2>1 DEF Accounts!ExecuteSignal
    <2>2. CASE c > 0 /\ size > 0
      <3>1. ~(c = 0 \/ size = 0)
        BY <1>1, <2>2
      <3> QED BY <1>2, <2>2, <3>1 DEF Accounts!ExecuteSignal
    <2> QED BY <1>1, <2>1, <2>2
  <1>3. CASE d = "SELL"
    BY <1>3 DEF Accounts!ExecuteSignal
  <1>4. CASE d = "HOLD"
    BY <1>4 DEF Accounts!ExecuteSignal
  <1> QED BY <1>2, <1>3, <1>4

\* Every decision adds one order at most.
LEMMA OrdersStep == AccountsInv /\ OrdersInv /\ [Accounts!Next]_accountsVars => OrdersInv'
  <1> SUFFICES ASSUME AccountsInv, OrdersInv, [Accounts!Next]_accountsVars PROVE OrdersInv'
    OBVIOUS
  <1>0. /\ KeptOrders \in Nat /\ MaxOrders \in Nat /\ followed \in Nat /\ followed <= MaxOrders
        /\ Len(account.orders) \in Nat /\ Len(file.orders) \in Nat
        /\ Len(account.orders) <= followed /\ Len(file.orders) <= followed /\ Len(file.orders) <= KeptOrders
        /\ whole \in BOOLEAN
    BY ConstantsAreSound DEF Accounts!AccountsAssumption, OrdersInv, AccountsInv, PaperBooks
  <1>1. Accounts!Opened \in PaperBooks
    BY NewAccountFacts DEF AccountsInv, Accounts!Opened
  <1>2. Len(Accounts!Opened.orders) \in Nat /\ Len(Accounts!Opened.orders) <= followed
    BY <1>0, NewAccountFacts DEF Accounts!Opened
  <1>3. ASSUME NEW a \in PaperBooks, Len(a.orders) <= followed', account' = a, file' \in {file, Accounts!Saved(a)},
               followed' \in Nat, followed <= followed', followed' <= MaxOrders, whole' \in BOOLEAN
        PROVE  OrdersInv'
    <2>1. Len(Accounts!Saved(a).orders) <= KeptOrders /\ Len(Accounts!Saved(a).orders) <= Len(a.orders)
      BY SavedIsShort
    <2>2. Len(a.orders) \in Nat /\ Len(Accounts!Saved(a).orders) \in Nat
      BY SavedFacts DEF PaperBooks
    <2>3. Len(file'.orders) <= followed' /\ Len(file'.orders) <= KeptOrders
      BY <1>0, <1>3, <2>1, <2>2
    <2> QED BY <1>3, <2>3 DEF OrdersInv
  <1>4. ASSUME NEW works \in BOOLEAN, account' = Accounts!Opened, file' = Accounts!OpenedFile(works), whole' = whole,
               followed' \in {followed, followed + 1}, followed' <= MaxOrders
        PROVE  OrdersInv'
    <2>1. file' \in {file, Accounts!Saved(Accounts!Opened)}
      BY <1>4 DEF Accounts!OpenedFile, Accounts!Opened
    <2>2. followed' \in Nat /\ followed <= followed' /\ Len(Accounts!Opened.orders) <= followed'
      BY <1>0, <1>2, <1>4
    <2> QED BY <1>0, <1>1, <1>3, <1>4, <2>1, <2>2
  <1>5. ASSUME NEW o \in Orders, NEW works \in BOOLEAN, Accounts!Follow(o, works), whole' = whole,
               followed' = followed + 1, followed < MaxOrders,
               o.action = "NOTE" => o.quantity = 0,
               o.action = "SELL" => o.quantity = Accounts!Opened.positions[o.symbol].quantity
        PROVE  OrdersInv'
    <2> DEFINE a == Accounts!Opened
               Later(b) == b.orders = a.orders \/ b.orders = Append(a.orders, o)
    <2>0. a.orders \in Seq(Orders) /\ o.action \in {"BUY", "SELL", "NOTE"}
          /\ a = [capital |-> a.capital, positions |-> a.positions, orders |-> a.orders]
      BY <1>1 DEF PaperBooks, Orders
    <2>1. \E b : Accounts!Save(b, works) /\ Later(b)
      <3>1. CASE o.action = "NOTE"
        <4>1. Accounts!Save([a EXCEPT !.orders = Append(a.orders, o)], works)
          BY <1>5, <3>1 DEF Accounts!Follow
        <4>2. [a EXCEPT !.orders = Append(a.orders, o)].orders = Append(a.orders, o)
          BY <2>0
        <4> QED BY <4>1, <4>2
      <3>2. CASE o.action = "BUY" /\ Accounts!CanBuy(a, o)
        <4>1. Accounts!Save(Accounts!Bought(a, o), works)
          BY <1>5, <3>2 DEF Accounts!Follow
        <4>2. Accounts!Bought(a, o).orders = Append(a.orders, o)
          BY DEF Accounts!Bought
        <4> QED BY <4>1, <4>2
      <3>3. CASE o.action = "SELL" /\ o.quantity > 0
        <4>1. Accounts!Save(Accounts!Sold(a, o), works)
          BY <1>5, <3>3 DEF Accounts!Follow
        <4>2. Accounts!Sold(a, o).orders = Append(a.orders, o)
          BY DEF Accounts!Sold
        <4> QED BY <4>1, <4>2
      <3>4. CASE (o.action = "BUY" /\ ~Accounts!CanBuy(a, o)) \/ (o.action = "SELL" /\ ~(o.quantity > 0))
        <4>1. Accounts!Save(a, works)
          BY <1>5, <3>4 DEF Accounts!Follow
        <4> QED BY <4>1
      <3> QED BY <2>0, <3>1, <3>2, <3>3, <3>4
    <2>2. PICK b : Accounts!Save(b, works) /\ Later(b)
      BY <2>1
    <2>3. account' = b /\ file' \in {file, Accounts!Saved(b)}
      BY <2>2 DEF Accounts!Save
    <2>4. b \in PaperBooks
      <3>1. AccountsInv'
        BY <1>5, OrderInv
      <3> QED BY <2>3, <3>1 DEF AccountsInv
    <2>5. Len(b.orders) <= followed + 1
      BY <1>0, <1>2, <2>0, <2>2
    <2>6. followed + 1 \in Nat /\ followed <= followed + 1 /\ followed + 1 <= MaxOrders
      BY <1>0, <1>5
    <2> QED BY <1>0, <1>3, <1>5, <2>3, <2>4, <2>5, <2>6
  <1>6. ASSUME NEW s \in Shares, NEW d \in {"BUY", "SELL", "HOLD"}, NEW p \in SharePrices, NEW c \in 0..2,
               NEW works \in BOOLEAN, Accounts!ExecuteSignal(s, d, p, c, works)
        PROVE  OrdersInv'
    <2> DEFINE O(action, quantity) == [symbol |-> s, action |-> action, price |-> p, quantity |-> quantity]
               size == Accounts!Sized(Accounts!Opened, p, c)
               held == Accounts!Opened.positions[s].quantity
    <2>1. whole' = whole /\ followed' = followed + 1 /\ followed < MaxOrders /\ followed' <= MaxOrders
      BY <1>0, <1>6 DEF Accounts!ExecuteSignal
    <2>2. size \in Nat /\ held \in Nat
      BY <1>1, SizedIsNat DEF PaperBooks
    <2>3. \/ account' = Accounts!Opened /\ file' = Accounts!OpenedFile(works)
          \/ Accounts!Follow(O("BUY", size), works)
          \/ Accounts!Follow(O("SELL", held), works)
          \/ Accounts!Follow(O("NOTE", 0), works)
      BY <1>6, <2>2, Followed
    <2> HIDE DEF size, held
    <2>4. /\ O("BUY", size) \in Orders /\ O("SELL", held) \in Orders /\ O("NOTE", 0) \in Orders
          /\ O("BUY", size).action = "BUY" /\ O("NOTE", 0).action = "NOTE" /\ O("NOTE", 0).quantity = 0
          /\ O("SELL", held).action = "SELL" /\ O("SELL", held).symbol = s /\ O("SELL", held).quantity = held
      BY <2>2 DEF Orders
    <2> HIDE DEF O
    <2>5. Accounts!Opened.positions[O("SELL", held).symbol].quantity = held
      BY <2>4 DEF held
    <2> QED BY <1>4, <1>5, <2>1, <2>3, <2>4, <2>5
  <1>7. ASSUME NEW works \in BOOLEAN, Accounts!Value(works) PROVE OrdersInv'
    BY <1>0, <1>4, <1>7 DEF Accounts!Value
  <1>8. CASE Accounts!Restart
    <2>1. account' = file /\ file' = file /\ followed' = followed
      BY <1>8 DEF Accounts!Restart, Accounts!Loaded
    <2>2. whole' = (whole /\ (Len(file.orders) < KeptOrders \/ file = account))
      BY <1>8 DEF Accounts!Restart
    <2>3. whole' \in BOOLEAN
      BY <2>2
    <2> QED BY <1>0, <2>1, <2>3 DEF OrdersInv
  <1>9. CASE UNCHANGED accountsVars
    BY <1>9 DEF accountsVars, OrdersInv
  <1> QED BY <1>6, <1>7, <1>8, <1>9 DEF Accounts!Next

\* The types of the accounts.
LEMMA AccountsTyped == AccountsInv /\ OrdersInv => Accounts!TypeOK
  <1> SUFFICES ASSUME AccountsInv, OrdersInv PROVE Accounts!TypeOK
    OBVIOUS
  <1>1. MaxOrders \in Nat /\ Len(account.orders) \in Nat /\ Len(file.orders) \in Nat
    BY ConstantsAreSound DEF Accounts!AccountsAssumption, AccountsInv, PaperBooks
  <1>2. \A a \in {account, file} : /\ a.capital \in Nat
                                   /\ \A s \in Shares : a.positions[s] \in [quantity : Nat, basis : Nat]
    BY DEF AccountsInv, PaperBooks
  <1>3. followed \in 0..MaxOrders /\ \A a \in {account, file} : Len(a.orders) <= MaxOrders
    BY <1>1 DEF OrdersInv
  <1> QED BY <1>2, <1>3 DEF OrdersInv, Accounts!TypeOK

----------------------------------------------------------------------------
(* Decisions: what is decided is an action, as sure as a percentage may say *)

DecisionInv == decision.action \in Verdicts!Actions /\ decision.confidence \in 0..100

\* Opinions are of an action, as they are and lowered.
LEMMA OpinionsAreTyped ==
    ASSUME NEW r \in Verdicts!Requests, NEW o \in Verdicts!Opinions(r)
    PROVE  /\ o.action \in Verdicts!Actions /\ o.confidence \in 0..100
           /\ Verdicts!Lowered(o).action \in Verdicts!Actions /\ Verdicts!Lowered(o).confidence \in 0..100
  <1> DEFINE q == (100 * Verdicts!AbsOf(Verdicts!Score(r))) \div Verdicts!Whole(r)
             R == [by |-> "rules", action |-> Verdicts!Rule(r), confidence |-> q]
             N == [by |-> "dummy", action |-> "HOLD", confidence |-> 30]
             M == [by : {"model"}, action : Verdicts!Actions, confidence : {50, 100}]
  <1>1. q \in Nat /\ q <= 80
    BY RulesAreModest
  <1>2. Verdicts!Opinions(r) = M \cup {R, N}
    BY DEF Verdicts!Opinions
  <1>3. Verdicts!Rule(r) \in Verdicts!Actions
    BY DEF Verdicts!Rule, Verdicts!Actions
  <1> HIDE DEF q
  <1>4. CASE o \in M
    <2>1. o = [by |-> "model", action |-> o.action, confidence |-> o.confidence] /\ o.confidence \in {50, 100}
          /\ o.action \in Verdicts!Actions
      BY <1>4
    <2>2. Verdicts!Lowered(o) = [by |-> "model", action |-> o.action, confidence |-> (3 * o.confidence) \div 10]
      BY <2>1 DEF Verdicts!Lowered
    <2>3. (3 * o.confidence) \div 10 \in 0..100 /\ o.confidence \in 0..100
      BY <2>1
    <2> QED BY <2>1, <2>2, <2>3
  <1>5. CASE o = R
    <2>1. Verdicts!Lowered(o) = [by |-> "rules", action |-> Verdicts!Rule(r), confidence |-> (3 * q) \div 10]
      BY <1>5 DEF Verdicts!Lowered
    <2>2. (3 * q) \div 10 \in 0..100 /\ q \in 0..100
      BY <1>1
    <2> QED BY <1>3, <1>5, <2>1, <2>2
  <1>6. CASE o = N
    BY <1>6 DEF Verdicts!Lowered, Verdicts!Actions
  <1>7. o \in M \/ o = R \/ o = N
    <2> HIDE DEF M, R, N
    <2> QED BY <1>2
  <1> QED BY <1>4, <1>5, <1>6, <1>7

\* At first nothing is decided.
LEMMA DecisionInit == decision = Verdicts!Pending => DecisionInv
  BY DEF Verdicts!Pending, DecisionInv, Verdicts!Actions

\* A decision is one of the opinions, or a veto.
LEMMA DecisionStep == VerdictInv /\ DecisionInv /\ [Verdicts!Next]_verdictsVars => DecisionInv'
  <1> SUFFICES ASSUME VerdictInv, DecisionInv, [Verdicts!Next]_verdictsVars PROVE DecisionInv'
    OBVIOUS
  <1>1. CASE Verdicts!Assess \/ UNCHANGED verdictsVars
    BY <1>1 DEF Verdicts!Assess, verdictsVars, DecisionInv
  <1>2. CASE Verdicts!Decide
    <2>1. CASE severity = "critical"
      <3>1. decision' = [by |-> "veto", action |-> "WAIT", confidence |-> 0]
        BY <1>2, <2>1 DEF Verdicts!Decide
      <3> QED BY <3>1 DEF DecisionInv, Verdicts!Actions
    <2>2. CASE severity # "critical"
      <3>1. PICK o \in Verdicts!Opinions(request) :
                decision' = IF severity = "warning" THEN Verdicts!Lowered(o) ELSE o
        BY <1>2, <2>2 DEF Verdicts!Decide
      <3>2. request \in Verdicts!Requests
        BY DEF VerdictInv
      <3>3. /\ o.action \in Verdicts!Actions /\ o.confidence \in 0..100
            /\ Verdicts!Lowered(o).action \in Verdicts!Actions /\ Verdicts!Lowered(o).confidence \in 0..100
        BY <3>2, OpinionsAreTyped
      <3> QED BY <3>1, <3>3 DEF DecisionInv
    <2> QED BY <2>1, <2>2
  <1> QED BY <1>1, <1>2 DEF Verdicts!Next

\* The types of requests and decisions.
LEMMA VerdictsTyped == VerdictInv /\ DecisionInv => Verdicts!TypeOK
  BY DEF VerdictInv, DecisionInv, Verdicts!TypeOK

----------------------------------------------------------------------------
(* Backtest: bars, combinations and windows are counted to their ends *)

ProgressOfTest ==
    /\ bars \in 0..TestBars /\ flat \in BOOLEAN
    /\ round \in 0..(Combinations + Windows) /\ (outcome = "running" => round < Combinations + Windows)
    /\ outcome \in {"running", "ranked", "left out", "averaged", "failed"}

\* The bounds of the model.
LEMMA TestBounds == {TestBars, Combinations, Windows} \subseteq Nat \ {0}
  BY ConstantsAreSound DEF Test!BacktestAssumption

\* At first nothing is through.
LEMMA TestBegins == Test!Init => ProgressOfTest
  <1> SUFFICES ASSUME Test!Init PROVE ProgressOfTest
    OBVIOUS
  <1>1. bars \in 0..TestBars /\ round \in 0..(Combinations + Windows) /\ round < Combinations + Windows
    BY TestBounds DEF Test!Init
  <1>2. flat \in BOOLEAN /\ outcome = "running"
    BY DEF Test!Init
  <1> QED BY <1>1, <1>2 DEF ProgressOfTest

\* Every step counts, and the last one ends the test.
LEMMA TestGoesOn == ProgressOfTest /\ [Test!Next]_testVars => ProgressOfTest'
  <1> SUFFICES ASSUME ProgressOfTest, [Test!Next]_testVars PROVE ProgressOfTest'
    OBVIOUS
  <1>a. TestBars \in Nat \ {0} /\ Combinations \in Nat \ {0} /\ Windows \in Nat \ {0}
    BY TestBounds
  <1>b. bars \in 0..TestBars /\ round \in 0..(Combinations + Windows)
    BY DEF ProgressOfTest
  <1>c. bars \in Nat /\ bars <= TestBars /\ round \in Nat /\ round <= Combinations + Windows
    BY <1>a, <1>b
  <1>1. ASSUME NEW bar \in Test!Bars, NEW signal \in Test!Signals[strategy], Test!Bar(bar, signal)
        PROVE  ProgressOfTest'
    <2>1. bars' = bars + 1 /\ bars < TestBars /\ UNCHANGED <<round, flat, outcome>>
      BY <1>1 DEF Test!Bar
    <2>2. bars' \in 0..TestBars
      BY <1>a, <1>c, <2>1
    <2> QED BY <2>1, <2>2 DEF ProgressOfTest
  <1>2. CASE Test!FinishPlain
    <2>1. bars' = bars /\ UNCHANGED <<round, flat>> /\ outcome' \in {"ranked", "left out"}
      BY <1>2 DEF Test!FinishPlain, Test!LastBacktest
    <2> QED BY <2>1 DEF ProgressOfTest
  <1>3. CASE Test!FinishCombination
    <2>1. /\ round' = round + 1 /\ round < Combinations /\ flat' = flat /\ bars' \in {bars, 0}
          /\ outcome' \in {outcome, "ranked"}
      BY <1>3 DEF Test!FinishCombination, Test!LastBacktest, Test!NextBacktest
    <2>2. bars' \in 0..TestBars /\ round' \in 0..(Combinations + Windows) /\ round' < Combinations + Windows
      <3>1. bars' = bars \/ bars' = 0
        BY <2>1
      <3>2. round' = round + 1 /\ round < Combinations
        BY <2>1
      <3> QED BY <1>a, <1>c, <3>1, <3>2
    <2>3. flat' \in BOOLEAN /\ outcome' \in {"running", "ranked", "left out", "averaged", "failed"}
      BY <2>1 DEF ProgressOfTest
    <2> QED BY <2>2, <2>3 DEF ProgressOfTest
  <1>4. CASE Test!FinishWindow
    <2>1. /\ round' = round + 1 /\ round < Combinations + Windows /\ bars' \in {bars, 0}
          /\ round' = Combinations + Windows => outcome' \in {"averaged", "failed"}
          /\ round' # Combinations + Windows => outcome' = outcome
      BY <1>4 DEF Test!FinishWindow, Test!LastBacktest, Test!NextBacktest, ProgressOfTest
    <2>2. flat' = (flat \/ ~runner.moves)
      BY <1>4 DEF Test!FinishWindow
    <2>3. bars' \in 0..TestBars /\ round' \in 0..(Combinations + Windows)
          /\ (round' # Combinations + Windows => round' < Combinations + Windows)
      <3>1. bars' = bars \/ bars' = 0
        BY <2>1
      <3>2. round' = round + 1 /\ round < Combinations + Windows
        BY <2>1
      <3> QED BY <1>a, <1>c, <3>1, <3>2
    <2>4. outcome' \in {"running", "ranked", "left out", "averaged", "failed"}
          /\ (outcome' = "running" => round' # Combinations + Windows)
      BY <2>1 DEF ProgressOfTest
    <2>5. flat' \in BOOLEAN
      BY <2>2
    <2> QED BY <2>3, <2>4, <2>5 DEF ProgressOfTest
  <1>5. CASE Test!Done \/ UNCHANGED testVars
    <2>1. UNCHANGED <<bars, flat, round, outcome>>
      BY <1>5 DEF Test!Done, Test!vars, testVars
    <2> QED BY <2>1 DEF ProgressOfTest
  <1> QED BY <1>1, <1>2, <1>3, <1>4, <1>5 DEF Test!Next

\* The types of the runner and of the test.
LEMMA TestTyped == TestInv /\ ProgressOfTest => Test!TypeOK
  <1> SUFFICES ASSUME TestInv, ProgressOfTest PROVE Test!TypeOK
    OBVIOUS
  <1>1. /\ runner.capital \in Nat /\ {runner.lots, runner.avg, runner.top} \subseteq Nat
        /\ runner.moves \in BOOLEAN
    BY DEF TestInv, RunnerInv, Runners
  <1>2. runner.lots = 0 <=> runner.avg = 0
    BY DEF TestInv, RunnerInv
  <1>3. {runner.moves, flat} \subseteq BOOLEAN
    BY <1>1 DEF ProgressOfTest
  <1> QED BY <1>1, <1>2, <1>3 DEF ProgressOfTest, Test!TypeOK

----------------------------------------------------------------------------
(* The steps of the parts *)

\* A step of the service is a step of a part or leaves its variables alone.
LEMMA Parts ==
    ASSUME [Next]_vars
    PROVE  /\ [Risk!Next]_riskVars /\ [Agent!Next]_agentVars /\ [Chain!Next]_chainVars
           /\ [Lists!Next]_listsVars /\ [Strat!Next]_stratVars /\ [Limits!Next]_limitsVars
           /\ [Play!Next]_playVars /\ [Told!Next]_toldVars /\ [Watched!Next]_watchedVars
           /\ [Accounts!Next]_accountsVars /\ [Test!Next]_testVars /\ [Size!Next]_sizeVars
           /\ [Rounds!Next]_roundsVars /\ [Signs!Next]_signsVars /\ [Verdicts!Next]_verdictsVars
           /\ part' = part
  BY DEF Next, vars, Others, InRisk, InAgent, InChain, InLists, InAccounts, InTest, InStrat, InPlay,
         InLimits, InSize, InVerdicts, InSigns, InTold, InRounds, InWatched

\* However many reports come and tasks judge them, reports that contradict each other do not stand
\* without an override that is published or about to be (risk_agent.py, handle_message):
\* ConflictsAreFlagged.
THEOREM Flagged == Spec => []ConflictsAreFlagged
  <1>1. Init => AgentInv
    BY AgentInit DEF Init
  <1>2. AgentInv /\ [Next]_vars => AgentInv'
    BY AgentStep, Parts
  <1>3. AgentInv => ConflictsAreFlagged
    BY DEF AgentInv, ConflictsAreFlagged, Of
  <1> QED BY <1>1, <1>2, <1>3, PTL DEF Spec

\* The prices that scans screen by are never older than both times to live together
\* (scanner.py, get_all_stocks), for any number of scans and any times: ListIsBounded.
THEOREM ListBounded == Spec => ListIsBounded
  <1>1. Lists!ScannerAssumption
    BY ConstantsAreSound
  <1>2. Init => ListsInv /\ Lists!Promised!Init
    BY <1>1, ListsInit DEF Init
  <1>3. ListsInv /\ [Next]_vars => ListsInv'
    BY <1>1, ListsStep, Parts
  <1>4. ListsInv /\ [Next]_vars => [Lists!Promised!Next]_Cached
    BY <1>1, ListsRefine, Parts
  <1> QED BY <1>2, <1>3, <1>4, PTL DEF Spec, ListIsBounded, Lists!ListIsBounded, Lists!Promised!Spec, Cached

\* However requests are spread over a minute, no more of them pass than a full bucket and what is
\* refilled (rate_limit.py), for any rates: PassesAreBounded.
THEOREM PassesBounded == Spec => []PassesAreBounded
  <1>1. Init => LimitsInv
    BY LimitsInit DEF Init
  <1>2. LimitsInv /\ [Next]_vars => LimitsInv'
    BY LimitsStep, Parts
  <1>3. LimitsInv => PassesAreBounded
    BY LimitsHold
  <1> QED BY <1>1, <1>2, <1>3, PTL DEF Spec

\* A critical override that was saved while nobody else held a copy of the state keeps the level
\* above normal for a day, and critical for the cooldown unless the count of overrides gives the
\* level, whatever any number of recorders and healers save in whatever order after it
\* (risk_manager.py, _update_risk_state and _auto_heal); and a level above normal has its reasons on
\* record: LevelsAreEarned, for any thresholds and times.
THEOREM LevelsEarned == Spec => []LevelsAreEarned
  <1>1. Init => LevelInv /\ CrisisInv
    BY LevelInit, CrisisInit DEF Init
  <1>2. LevelInv /\ CrisisInv /\ [Next]_vars => LevelInv' /\ CrisisInv'
    BY LevelStep, CrisisStep, Parts
  <1>3. LevelInv /\ CrisisInv => LevelsAreEarned
    BY RiskHolds DEF LevelsAreEarned, Of
  <1> QED BY <1>1, <1>2, <1>3, PTL DEF Spec

\* A provider that has just failed is tried with few requests, no breaker stays half open for good,
\* and none that is closed has failed often enough to open (circuit_breaker.py, llm_factory.py): for
\* any number of analyses and providers, and any thresholds, BreakersRecover.
THEOREM BreakersKeepRecovering == Spec => []BreakersRecover
  <1>1. Init => ChainInv
    BY ChainInit DEF Init
  <1>2. ChainInv /\ [Next]_vars => ChainInv'
    BY ChainStep, Parts
  <1>3. ChainInv => BreakersRecover
    BY ChainHolds DEF BreakersRecover, Of
  <1> QED BY <1>1, <1>2, <1>3, PTL DEF Spec

\* What nothing else ran beside is complete: an override that was recorded alone is counted and in
\* the history (risk_manager.py), evaluations count their series of losses (strategy_lifecycle.py),
\* replays go to the end (replay.py), reports are of the K-lines that are there (signal_agent.py),
\* and a stock that was added stays in the list (database.py): LoneCallsAreComplete, for any number
\* of callers in any order.
THEOREM LoneComplete == Spec => []LoneCallsAreComplete
  <1> DEFINE Inv == LevelInv /\ RaceInv /\ StratInv /\ PlayInv /\ ToldInv /\ WatchedInv
  <1>1. Init => Inv
    BY LevelInit, RaceInit, StratInit, PlayInit, ToldInit, WatchedInit DEF Init
  <1>2. Inv /\ [Next]_vars => Inv'
    BY LevelStep, RaceStep, StratStep, PlayStep, ToldStep, WatchedStep, Parts
  <1>3. StratInv => Strat!SeriesAreCounted
    BY DEF StratInv, Strat!SeriesAreCounted
  <1>4. Inv => LoneCallsAreComplete
    BY <1>3, RiskHolds, PlayHolds, ToldHolds, WatchedHolds DEF LoneCallsAreComplete, Of
  <1> QED BY <1>1, <1>2, <1>4, PTL DEF Spec

\* Orders account for the money of the paper account, in memory and in the file, after failed saves
\* and restarts (paper_trader.py), and trades for that of a backtest (runner.py), whatever is traded
\* at whatever prices: BooksBalance.
THEOREM BooksKept == Spec => []BooksBalance
  <1> DEFINE Inv == AccountsInv /\ TestInv
  <1>1. Init => Inv
    BY AccountsInit, TestInit DEF Init
  <1>2. Inv /\ [Next]_vars => Inv'
    BY AccountsStep, TestStep, Parts
  <1>3. Inv => BooksBalance
    BY AccountsHold, TestHolds DEF BooksBalance, Of
  <1> QED BY <1>1, <1>2, <1>3, PTL DEF Spec

\* A backtest holds no position below its stop and none that cost more than its part of the capital
\* (runner.py), and what is suggested for a position is affordable, within the limit, in whole lots,
\* and no more when the risk is higher (position_sizing.py), for any prices, returns and capitals:
\* PositionsAreSound.
THEOREM PositionsSound == Spec => []PositionsAreSound
  <1> DEFINE Inv == TestInv /\ (part = "size" => SizeInv)
  <1>1. Init => Inv
    <2>1. Size!Init => SizeInv
      BY DEF Size!Init, SizeInv
    <2> QED BY <2>1, TestInit DEF Init
  <1>2. Inv /\ [Next]_vars => Inv'
    BY SizeStep, TestStep, Parts
  <1>3. Inv => PositionsAreSound
    BY SizeHolds, TestHolds DEF PositionsAreSound, Of
  <1> QED BY <1>1, <1>2, <1>3, PTL DEF Spec

\* What decisions rest on: the macro data is there between rounds in time (macro_agent.py), what is
\* read from K-lines does not contradict itself (signal_agent.py, trace_agent.py, analyzer.py), the
\* index is not diluted, risk is heeded (chief_decision.py), and the rules want two reports to agree
\* (llm_factory.py): DecisionsAreGrounded, for any K-lines, signals, factors and changes of the price.
THEOREM DecisionsGrounded == Spec => []DecisionsAreGrounded
  <1> DEFINE Inv == RoundInv /\ SignInv /\ (part = "verdicts" => VerdictInv)
  <1>1. Init => Inv
    <2>1. Init => \E n \in Nat \ {0}, v \in Nat : klines = Signs!Flat(n, v)
      BY SignConstants, ConstantsAreSound DEF Init, Signs!Init
    <2>2. Init => SignInv
      BY <2>1, FlatIs
    <2> QED BY <2>2, RoundInit, VerdictInit DEF Init
  <1>2. Inv /\ [Next]_vars => Inv'
    BY RoundStep, SignStep, VerdictStep, Parts
  <1>3. SignInv => Signs!CopiesAgree /\ Signs!HitsAreCoherent /\ Signs!BullsNeedARise
    BY CopiesDo, HitsDo, BullsDo
  <1>4. Inv => DecisionsAreGrounded
    BY <1>3, RoundHolds, VerdictsHold DEF DecisionsAreGrounded, Of
  <1> QED BY <1>1, <1>2, <1>4, PTL DEF Spec

\* What a step keeps of the parts that the types of the first eight rest on.
LEMMA FirstPartsStep ==
    ASSUME [Next]_vars
    PROVE  /\ LevelInv /\ RaceInv /\ CountsInv => LevelInv' /\ RaceInv' /\ CountsInv'
           /\ AgentInv /\ AgentTypes => AgentInv' /\ AgentTypes'
           /\ ChainInv => ChainInv'
           /\ ListsInv => ListsInv'
           /\ AccountsInv /\ OrdersInv => AccountsInv' /\ OrdersInv'
           /\ TestInv /\ ProgressOfTest => TestInv' /\ ProgressOfTest'
           /\ StratInv /\ TallyInv => StratInv' /\ TallyInv'
           /\ PlayInv /\ ProgressInv => PlayInv' /\ ProgressInv'
  <1>1. MaxReports \in Nat /\ Lists!ScannerAssumption
    BY ConstantsAreSound DEF Agent!RiskAgentAssumption
  <1>2. /\ LevelInv /\ RaceInv /\ CountsInv => LevelInv' /\ RaceInv' /\ CountsInv'
        /\ AgentInv /\ AgentTypes => AgentInv' /\ AgentTypes'
        /\ ChainInv => ChainInv'
    BY <1>1, LevelStep, RaceStep, CountsStep, AgentStep, AgentTypesStep, ChainStep, Parts
  <1>3. /\ ListsInv => ListsInv'
        /\ AccountsInv /\ OrdersInv => AccountsInv' /\ OrdersInv'
        /\ TestInv /\ ProgressOfTest => TestInv' /\ ProgressOfTest'
    BY <1>1, ListsStep, AccountsStep, OrdersStep, TestStep, TestGoesOn, Parts
  <1>4. /\ StratInv /\ TallyInv => StratInv' /\ TallyInv'
        /\ PlayInv /\ ProgressInv => PlayInv' /\ ProgressInv'
    BY StratStep, TallyStep, PlayStep, ProgressStep, Parts
  <1> QED BY <1>2, <1>3, <1>4

\* The same of the others.
LEMMA OtherPartsStep ==
    ASSUME [Next]_vars
    PROVE  /\ LimitsInv => LimitsInv'
           /\ (part = "size" => SizeInv) => (part = "size" => SizeInv)'
           /\ (part = "verdicts" => VerdictInv /\ DecisionInv) => (part = "verdicts" => VerdictInv /\ DecisionInv)'
           /\ SignInv /\ DaysInv => SignInv' /\ DaysInv'
           /\ ToldInv /\ SeenInv => ToldInv' /\ SeenInv'
           /\ RoundInv /\ EntryInv => RoundInv' /\ EntryInv'
           /\ WatchedInv /\ ListInv => WatchedInv' /\ ListInv'
  <1>1. /\ LimitsInv => LimitsInv'
        /\ (part = "size" => SizeInv) => (part = "size" => SizeInv)'
        /\ (part = "verdicts" => VerdictInv /\ DecisionInv) => (part = "verdicts" => VerdictInv /\ DecisionInv)'
        /\ SignInv /\ DaysInv => SignInv' /\ DaysInv'
    BY LimitsStep, SizeStep, VerdictStep, DecisionStep, SignStep, DaysStep, Parts
  <1>2. /\ ToldInv /\ SeenInv => ToldInv' /\ SeenInv'
        /\ RoundInv /\ EntryInv => RoundInv' /\ EntryInv'
        /\ WatchedInv /\ ListInv => WatchedInv' /\ ListInv'
    BY ToldStep, SeenStep, RoundStep, EntryStep, WatchedStep, ListStep, Parts
  <1> QED BY <1>1, <1>2

\* Whatever moves in the service, the state of each part is of the types its module states, with the
\* bounds that go with them: histories and queues no longer than they are kept, counters no higher
\* than what was counted, no entry older than its time to live (TypeOK of the fifteen modules).
THEOREM TypesHold == Spec => []TypeOK
  <1> DEFINE First == /\ LevelInv /\ RaceInv /\ CountsInv /\ AgentInv /\ AgentTypes /\ ChainInv /\ ListsInv
                      /\ AccountsInv /\ OrdersInv /\ TestInv /\ ProgressOfTest /\ StratInv /\ TallyInv
                      /\ PlayInv /\ ProgressInv
             Second == /\ LimitsInv /\ (part = "size" => SizeInv)
                       /\ (part = "verdicts" => VerdictInv /\ DecisionInv) /\ SignInv /\ DaysInv
                       /\ ToldInv /\ SeenInv /\ RoundInv /\ EntryInv /\ WatchedInv /\ ListInv
  <1>0. MaxReports \in Nat /\ Lists!ScannerAssumption /\ SignBars \in Nat
    BY ConstantsAreSound DEF Agent!RiskAgentAssumption, Signs!DetectorsAssumption
  <1>1. Init => First
    BY <1>0, LevelInit, RaceInit, CountsInit, AgentInit, AgentTypesInit, ChainInit, ListsInit, AccountsInit,
       OrdersInit, TestInit, TestBegins, StratInit, TallyInit, PlayInit, ProgressInit DEF Init
  <1>2. Init => Second
    <2> SUFFICES ASSUME Init PROVE Second
      OBVIOUS
    <2>1. \E n \in Nat \ {0}, v \in Nat : klines = Signs!Flat(n, v)
      BY SignConstants, ConstantsAreSound DEF Init, Signs!Init
    <2>2. SignInv
      BY <2>1, FlatIs
    <2>3. DaysInv
      <3>1. CASE part = "signs"
        BY <3>1, DaysStart DEF Init
      <3>2. CASE part # "signs"
        <4>1. days = 0 /\ quoted = FALSE
          BY <3>2 DEF Init
        <4>2. 0 \in 0..SignBars
          BY <1>0
        <4> QED BY <4>1, <4>2 DEF DaysInv
      <3> QED BY <3>1, <3>2
    <2>4. part = "size" => SizeInv
      BY DEF Init, Size!Init, SizeInv
    <2>5. part = "verdicts" => VerdictInv /\ DecisionInv
      BY VerdictInit, DecisionInit DEF Init, Verdicts!Init
    <2>6. LimitsInv /\ ToldInv /\ SeenInv /\ RoundInv /\ EntryInv /\ WatchedInv /\ ListInv
      BY LimitsInit, ToldInit, SeenInit, RoundInit, EntryInit, WatchedInit, ListInit DEF Init
    <2> QED BY <2>2, <2>3, <2>4, <2>5, <2>6
  <1>3. First /\ [Next]_vars => First'
    BY FirstPartsStep
  <1>4. Second /\ [Next]_vars => Second'
    BY OtherPartsStep
  <1>5. First => /\ Risk!TypeOK /\ Agent!TypeOK /\ Chain!TypeOK /\ Lists!TypeOK /\ Accounts!TypeOK
                 /\ Test!TypeOK /\ Strat!TypeOK /\ Play!TypeOK
    BY <1>0, RiskTyped, ChainTyped, ListsTyped, AccountsTyped, TestTyped, StratTyped, PlayTyped DEF AgentTypes
  <1>6. Second => /\ Limits!TypeOK /\ (part = "size" => Size!TypeOK) /\ (part = "verdicts" => Verdicts!TypeOK)
                  /\ Signs!TypeOK /\ Told!TypeOK /\ Rounds!TypeOK /\ Watched!TypeOK
    BY LimitsTyped, SizeTyped, VerdictsTyped, SignsTyped, ToldTyped, RoundsTyped, WatchedTyped
  <1>7. First /\ Second => TypeOK
    BY <1>5, <1>6 DEF TypeOK, Of
  <1> QED BY <1>1, <1>2, <1>3, <1>4, <1>7, PTL DEF Spec
=============================================================================
