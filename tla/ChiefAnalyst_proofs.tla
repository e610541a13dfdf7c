------------------------ MODULE ChiefAnalyst_proofs ------------------------
(***************************************************************************)
(* Theorems about ChiefAnalyst, for any number of messages and of tasks    *)
(* that handle them.                                                       *)
(***************************************************************************)
EXTENDS ChiefAnalyst, SequenceTheorems, TLAPS

LEMMA Appended ==
    ASSUME NEW S, NEW s \in Seq(S), NEW e \in S
    PROVE  /\ Append(s, e) \in Seq(S)
           /\ Len(s) \in Nat /\ DOMAIN s = 1..Len(s) /\ Len(Append(s, e)) = Len(s) + 1
           /\ DOMAIN Append(s, e) = 1..(Len(s) + 1)
           /\ \A i \in 1..Len(s) : Append(s, e)[i] = s[i] /\ s[i] \in S
           /\ Append(s, e)[Len(s) + 1] = e
BY AppendProperties, LenProperties, ElementOfSeq

\* Numbers of messages are given out once each, up to MaxMessages.
Bounded == Len(received) <= MaxMessages

Typed == TypeOK /\ Bounded

----------------------------------------------------------------------------
(* Types *)

\* A decision on what is at hand is a job.
LEMMA JobType ==
    ASSUME NEW found \in [Agents -> Ids], NEW veto \in Override
    PROVE  /\ Decision(found, veto) \in Job
           /\ Decision(found, veto).pc \in {"thinking", "publishing"}
           /\ Decision(found, veto).reports = found /\ Decision(found, veto).override = veto
BY DEF Decision, Job

\* What the arrival of a message does to the history.
LEMMA ReceiveType ==
    ASSUME Typed, NEW kind \in Agents \cup {"override", "safe"}, NEW shadowed \in BOOLEAN,
           Receive(kind, shadowed)
    PROVE  /\ received' \in Seq(Message) /\ Bounded'
           /\ Len(received) \in Nat /\ Len(received') = Len(received) + 1
           /\ Len(received') \in Ids
           /\ DOMAIN received = 1..Len(received) /\ DOMAIN received' = 1..(Len(received) + 1)
           /\ \A i \in 1..Len(received) : received'[i] = received[i]
           /\ received'[Len(received')] = [kind |-> kind, shadowed |-> shadowed]
<1> DEFINE m == [kind |-> kind, shadowed |-> shadowed]
<1>1. m \in Message /\ received \in Seq(Message)
  BY DEF Message, Typed, TypeOK
<1>2. received' = Append(received, m) /\ Len(received) < MaxMessages
  BY DEF Receive
<1> HIDE DEF m
<1>3. /\ Append(received, m) \in Seq(Message)
      /\ Len(received) \in Nat /\ DOMAIN received = 1..Len(received)
      /\ Len(Append(received, m)) = Len(received) + 1
      /\ DOMAIN Append(received, m) = 1..(Len(received) + 1)
      /\ \A i \in 1..Len(received) : Append(received, m)[i] = received[i]
      /\ Append(received, m)[Len(received) + 1] = m
  BY <1>1, Appended
<1>4. Bounded' /\ Len(received') \in Ids
  BY <1>2, <1>3, ChiefAssumption DEF Bounded, Ids
<1> QED BY <1>2, <1>3, <1>4 DEF m

\* A task that wants the lock gets it at once or waits for it.
LEMMA MakeDecisionType ==
    ASSUME Typed, MayHandle, NEW found \in [Agents -> Ids], NEW veto \in Override,
           MakeDecision(found, veto)
    PROVE  /\ job' \in Job
           /\ waiting' \in 0..(MaxConcurrent - IF job'.pc = "free" THEN 0 ELSE 1)
<1>1. CASE job.pc = "free" /\ waiting = 0
  <2>1. job' = Decision(found, veto) /\ waiting' = 0
    BY <1>1 DEF MakeDecision
  <2> QED BY <2>1, JobType, ChiefAssumption
<1>2. CASE ~(job.pc = "free" /\ waiting = 0)
  BY <1>2, ChiefAssumption DEF MakeDecision, MayHandle, Typed, TypeOK
<1> QED BY <1>1, <1>2

LEMMA TypedInit == Init => Typed
BY ChiefAssumption DEF Init, Typed, TypeOK, Bounded, NoReports, NoOverride, Free, Ids, Override,
                       Severities, Message, Outcome, Job

LEMMA TypedNext == Typed /\ [Next]_vars => Typed'
<1> SUFFICES ASSUME Typed, [Next]_vars PROVE Typed'
  OBVIOUS
<1>0. /\ reports \in [Agents -> Ids] /\ override \in Override
      /\ job \in Job
      /\ waiting \in 0..(MaxConcurrent - IF job.pc = "free" THEN 0 ELSE 1)
      /\ received \in Seq(Message) /\ decisions \in Seq(Outcome) /\ Bounded
  BY DEF Typed, TypeOK
<1>1. NoOverride \in Override /\ NoReports \in [Agents -> Ids]
  BY ChiefAssumption DEF NoOverride, Override, Severities, NoReports, Ids
<1>free. Free \in Job /\ Free.pc = "free"
  BY <1>1 DEF Free, Job
<1>2. ASSUME NEW a \in Agents, Report(a) PROVE Typed'
  <2>1. Receive(a, Shadowed(a)) /\ MayHandle /\ Shadowed(a) \in BOOLEAN
    BY <1>2 DEF Report, Receive, Shadowed
  <2>2. received' \in Seq(Message) /\ Bounded' /\ Len(received') \in Ids
    BY <2>1, ReceiveType
  <2>3. reports' \in [Agents -> Ids]
    BY <1>0, <1>2, <2>2 DEF Report
  <2>4. /\ job' \in Job
        /\ waiting' \in 0..(MaxConcurrent - IF job'.pc = "free" THEN 0 ELSE 1)
    BY <1>0, <1>2, <2>1, <2>3, MakeDecisionType DEF Report
  <2> QED BY <1>0, <1>2, <2>2, <2>3, <2>4 DEF Report, Typed, TypeOK
<1>3. ASSUME NEW severity \in Severities \ {"none"}, RiskOverride(severity) PROVE Typed'
  <2>1. Receive("override", FALSE) /\ MayHandle
    BY <1>3 DEF RiskOverride, Receive
  <2>2. received' \in Seq(Message) /\ Bounded' /\ Len(received') \in Ids
    BY <2>1, ReceiveType
  <2>3. override' \in Override
    BY <1>3, <2>2 DEF RiskOverride, Override
  <2>4. /\ job' \in Job
        /\ waiting' \in 0..(MaxConcurrent - IF job'.pc = "free" THEN 0 ELSE 1)
    BY <1>0, <1>3, <2>1, <2>3, MakeDecisionType DEF RiskOverride
  <2> QED BY <1>0, <1>3, <2>2, <2>3, <2>4 DEF RiskOverride, Typed, TypeOK
<1>4. CASE RiskSafe
  <2>1. received' \in Seq(Message) /\ Bounded'
    BY <1>4, ReceiveType DEF RiskSafe
  <2> QED BY <1>0, <1>1, <1>4, <2>1 DEF RiskSafe, Typed, TypeOK
<1>5. CASE Acquire
  <2>1. job' = Decision(reports, override) /\ waiting' = waiting - 1 /\ waiting > 0
    BY <1>5 DEF Acquire
  <2>2. waiting' \in 0..(MaxConcurrent - 1)
    BY <1>0, <1>5, <2>1, ChiefAssumption DEF Acquire
  <2> QED BY <1>0, <1>5, <2>1, <2>2, JobType DEF Acquire, Typed, TypeOK, Bounded
<1>6. CASE Answer
  BY <1>0, <1>6 DEF Answer, Job, Typed, TypeOK, Bounded
<1>7. CASE Publish
  <2> DEFINE d == [reports |-> job.reports, override |-> job.override, confirmed |-> TRUE]
  <2>1. d \in Outcome
    BY <1>0 DEF Outcome, Job
  <2>2. decisions' \in Seq(Outcome)
    BY <1>0, <1>7, <2>1, Appended DEF Publish
  <2> QED BY <1>0, <1>7, <2>2 DEF Publish, Job, Typed, TypeOK, Bounded
<1>8. CASE PublishFails
  <2> DEFINE d == [reports |-> job.reports, override |-> job.override, confirmed |-> FALSE]
  <2>1. d \in Outcome
    BY <1>0 DEF Outcome, Job
  <2>either. decisions' = decisions \/ decisions' = Append(decisions, d)
    BY <1>8 DEF PublishFails
  <2> HIDE DEF d
  <2>2. decisions' \in Seq(Outcome)
    BY <1>0, <2>1, <2>either, Appended
  <2>3. job' = Free /\ waiting' = waiting /\ received' = received
    BY <1>8 DEF PublishFails
  <2>slots. waiting' \in 0..(MaxConcurrent - IF job'.pc = "free" THEN 0 ELSE 1)
    BY <1>0, <1>free, <2>3, ChiefAssumption
  <2> QED BY <1>0, <1>free, <1>8, <2>2, <2>3, <2>slots DEF PublishFails, Typed, TypeOK, Bounded
<1>9. CASE CleanUp
  <2>1. Kept \in [Agents -> Ids]
    BY <1>0, ChiefAssumption DEF Kept, Ids
  <2>2. job' = Free /\ waiting' = waiting /\ received' = received
    BY <1>9 DEF CleanUp
  <2>slots. waiting' \in 0..(MaxConcurrent - IF job'.pc = "free" THEN 0 ELSE 1)
    BY <1>0, <1>free, <2>2, ChiefAssumption
  <2> QED BY <1>0, <1>1, <1>free, <1>9, <2>1, <2>2, <2>slots DEF CleanUp, Typed, TypeOK, Bounded
<1>10. CASE Restart
  BY <1>1, <1>free, <1>10, ChiefAssumption DEF Restart, Typed, TypeOK, Bounded
<1>11. CASE UNCHANGED vars
  BY <1>0, <1>11 DEF vars, Typed, TypeOK, Bounded
<1> QED BY <1>2, <1>3, <1>4, <1>5, <1>6, <1>7, <1>8, <1>9, <1>10, <1>11 DEF Next, Decide

\* The state of the chief analyst is always well typed.
THEOREM TypeCorrect == Spec => []TypeOK
<1>1. Typed => TypeOK
  BY DEF Typed
<1> QED BY TypedInit, TypedNext, <1>1, PTL DEF Spec

----------------------------------------------------------------------------
(* Nothing is decided on twice *)

\* Messages are numbered in the order of their arrival.
Issued ==
    /\ \A a \in Agents : reports[a] <= Len(received) /\ job.reports[a] <= Len(received)
    /\ override.id <= Len(received) /\ job.override.id <= Len(received)
    /\ \A i \in DOMAIN decisions :
          /\ \A a \in Agents : decisions[i].reports[a] <= Len(received)
          /\ decisions[i].override.id <= Len(received)

Unused(a, n)  == n = 0 \/ \A i \in DOMAIN decisions : decisions[i].confirmed => decisions[i].reports[a] # n
UnusedVeto(n) == n = 0 \/ \A i \in DOMAIN decisions : decisions[i].confirmed => decisions[i].override.id # n

\* What is at hand is in no confirmed decision, unless the clean-up will drop it.
Fresh ==
    /\ \A a \in Agents : Unused(a, reports[a]) \/ (job.pc = "saving" /\ job.reports[a] # 0)
    /\ UnusedVeto(override.id) \/ job.pc = "saving"
    /\ job.pc # "saving" => UnusedVeto(job.override.id) /\ \A a \in Agents : Unused(a, job.reports[a])

UInv == Typed /\ Issued /\ Fresh /\ UsedOnce

\* The parts of Typed that the proofs below need.
LEMMA Facts ==
    ASSUME Typed
    PROVE  /\ reports \in [Agents -> Nat] /\ override.id \in Nat
           /\ job.reports \in [Agents -> Nat] /\ job.override.id \in Nat /\ job \in Job
           /\ Len(received) \in Nat /\ DOMAIN received = 1..Len(received)
           /\ Len(decisions) \in Nat /\ DOMAIN decisions = 1..Len(decisions)
           /\ \A i \in DOMAIN decisions : /\ decisions[i].reports \in [Agents -> Nat]
                                          /\ decisions[i].override.id \in Nat
                                          /\ decisions[i].confirmed \in BOOLEAN
<1>1. Ids \subseteq Nat
  BY ChiefAssumption DEF Ids
<1>2. reports \in [Agents -> Nat] /\ override.id \in Nat
  BY <1>1 DEF Typed, TypeOK, Override
<1>3. job.reports \in [Agents -> Nat] /\ job.override.id \in Nat /\ job \in Job
  BY <1>1 DEF Typed, TypeOK, Job, Override
<1>4. received \in Seq(Message) /\ decisions \in Seq(Outcome)
  BY DEF Typed, TypeOK
<1>5. /\ Len(received) \in Nat /\ DOMAIN received = 1..Len(received)
      /\ Len(decisions) \in Nat /\ DOMAIN decisions = 1..Len(decisions)
  BY <1>4, LenProperties
<1>6. \A i \in DOMAIN decisions : decisions[i] \in Outcome
  BY <1>4, <1>5, ElementOfSeq
<1>7. \A i \in DOMAIN decisions : /\ decisions[i].reports \in [Agents -> Nat]
                                  /\ decisions[i].override.id \in Nat
                                  /\ decisions[i].confirmed \in BOOLEAN
  BY <1>1, <1>6 DEF Outcome, Override
<1> QED BY <1>2, <1>3, <1>5, <1>7

\* What the publication of the decision under way adds to the history.
LEMMA Published ==
    ASSUME Typed, NEW sure \in BOOLEAN,
           decisions' = Append(decisions, [reports |-> job.reports, override |-> job.override,
                                           confirmed |-> sure])
    PROVE  /\ Len(decisions) \in Nat
           /\ DOMAIN decisions = 1..Len(decisions) /\ DOMAIN decisions' = 1..(Len(decisions) + 1)
           /\ \A i \in 1..Len(decisions) : decisions'[i] = decisions[i]
           /\ decisions'[Len(decisions) + 1].reports = job.reports
           /\ decisions'[Len(decisions) + 1].override = job.override
           /\ decisions'[Len(decisions) + 1].confirmed = sure
<1> DEFINE d == [reports |-> job.reports, override |-> job.override, confirmed |-> sure]
<1>1. d \in Outcome /\ decisions \in Seq(Outcome)
  BY DEF Typed, TypeOK, Job, Outcome
<1>2. decisions' = Append(decisions, d)
  OBVIOUS
<1>3. d.reports = job.reports /\ d.override = job.override /\ d.confirmed = sure
  OBVIOUS
<1> HIDE DEF d
<1> QED BY <1>1, <1>2, <1>3, Appended

\* A message arrives: the history of decisions is the same, and its number is new.
LEMMA UsedOnceMessages ==
    ASSUME UInv, Typed', decisions' = decisions,
           Len(received') = Len(received) + 1,
           \/ reports' = reports
           \/ \E a \in Agents : reports' = [reports EXCEPT ![a] = Len(received')],
           override'.id \in {override.id, 0, Len(received')},
           \/ job' = job
           \/ job.pc = "free" /\ job' = Decision(reports', override')
    PROVE  UInv'
<1>1. UsedOnce'
  BY DEF UInv, UsedOnce
<1>2. Len(received) \in Nat /\ reports \in [Agents -> Nat]
  BY Facts DEF UInv
<1>3. \A a \in Agents : reports'[a] = reports[a] \/ reports'[a] = Len(received')
  BY <1>2
<1>4. \A a \in Agents : Unused(a, Len(received))'
  BY <1>2, Facts DEF UInv, Issued, Unused
<1>5. UnusedVeto(Len(received))'
  BY <1>2, Facts DEF UInv, Issued, UnusedVeto
<1>6. /\ \A a \in Agents : Unused(a, reports[a])' \/ (job.pc = "saving" /\ job.reports[a] # 0)
      /\ UnusedVeto(override.id)' \/ job.pc = "saving"
  BY <1>3, <1>4, <1>5 DEF UInv, Fresh, Unused, UnusedVeto
<1>7. /\ \A a \in Agents : reports'[a] <= Len(received')
      /\ override'.id <= Len(received')
  BY <1>2, <1>3, Facts DEF UInv, Issued
<1>8. CASE job' = job
  <2>1. Issued'
    BY <1>2, <1>7, <1>8, Facts DEF UInv, Issued
  <2>2. Fresh'
    BY <1>6, <1>8 DEF UInv, Fresh, Unused, UnusedVeto
  <2> QED BY <1>1, <2>1, <2>2 DEF UInv
<1>9. CASE job.pc = "free" /\ job' = Decision(reports', override')
  <2>1. job'.reports = reports' /\ job'.override = override' /\ job'.pc # "saving"
    BY <1>9 DEF Decision
  <2>2. Issued'
    BY <1>2, <1>7, <2>1, Facts DEF UInv, Issued
  <2>3. Fresh'
    BY <1>6, <1>9, <2>1 DEF Fresh
  <2> QED BY <1>1, <2>2, <2>3 DEF UInv
<1> QED BY <1>8, <1>9

LEMMA UsedOnceInit == Init => UInv
BY TypedInit DEF Init, UInv, Issued, Fresh, Unused, UnusedVeto, UsedOnce, Free, NoReports, NoOverride

LEMMA UsedOnceNext == UInv /\ [Next]_vars => UInv'
<1> SUFFICES ASSUME UInv, [Next]_vars PROVE UInv'
  OBVIOUS
<1>0. Typed /\ Typed'
  BY TypedNext DEF UInv
<1>free. Free.reports = NoReports /\ Free.override = NoOverride /\ Free.pc = "free" /\ NoOverride.id = 0
      /\ \A a \in Agents : NoReports[a] = 0
  BY DEF Free, NoOverride, NoReports
<1>1. ASSUME NEW a \in Agents, Report(a) PROVE UInv'
  <2>1. Receive(a, Shadowed(a)) /\ Shadowed(a) \in BOOLEAN
    BY <1>1 DEF Report, Shadowed
  <2>2. Len(received') = Len(received) + 1
    BY <1>0, <2>1, ReceiveType
  <2>3. /\ reports' = [reports EXCEPT ![a] = Len(received')] /\ override' = override
        /\ decisions' = decisions
    BY <1>1 DEF Report
  <2>4. job' = job \/ (job.pc = "free" /\ job' = Decision(reports', override'))
    BY <1>1, <2>3 DEF Report, MakeDecision
  <2> QED BY <1>0, <2>2, <2>3, <2>4, UsedOnceMessages
<1>2. ASSUME NEW severity \in Severities \ {"none"}, RiskOverride(severity) PROVE UInv'
  <2>1. Receive("override", FALSE)
    BY <1>2 DEF RiskOverride
  <2>2. Len(received') = Len(received) + 1
    BY <1>0, <2>1, ReceiveType
  <2>3. reports' = reports /\ decisions' = decisions /\ override'.id = Len(received')
    BY <1>2 DEF RiskOverride
  <2>4. job' = job \/ (job.pc = "free" /\ job' = Decision(reports', override'))
    BY <1>2, <2>3 DEF RiskOverride, MakeDecision
  <2> QED BY <1>0, <2>2, <2>3, <2>4, UsedOnceMessages
<1>3. CASE RiskSafe
  <2>1. Receive("safe", FALSE)
    BY <1>3 DEF RiskSafe
  <2>2. Len(received') = Len(received) + 1
    BY <1>0, <2>1, ReceiveType
  <2>3. reports' = reports /\ decisions' = decisions /\ override'.id = 0 /\ job' = job
    BY <1>free, <1>3 DEF RiskSafe
  <2> QED BY <1>0, <2>2, <2>3, UsedOnceMessages
<1>4. CASE Acquire
  <2>1. /\ UNCHANGED <<reports, override, received, decisions>> /\ job.pc = "free"
        /\ job'.reports = reports /\ job'.override = override /\ job'.pc # "saving"
    BY <1>4 DEF Acquire, Decision
  <2>2. Issued'
    BY <2>1 DEF UInv, Issued
  <2>3. Fresh'
    BY <2>1 DEF UInv, Fresh, Unused, UnusedVeto
  <2>4. UsedOnce'
    BY <2>1 DEF UInv, UsedOnce
  <2> QED BY <1>0, <2>2, <2>3, <2>4 DEF UInv
<1>5. CASE Answer
  <2>1. /\ UNCHANGED <<reports, override, received, decisions>> /\ job.pc = "thinking"
        /\ job'.reports = job.reports /\ job'.override = job.override /\ job'.pc = "publishing"
    BY <1>0, <1>5 DEF Answer, Typed, TypeOK, Job
  <2>2. Issued'
    BY <2>1 DEF UInv, Issued
  <2>3. Fresh'
    BY <2>1 DEF UInv, Fresh, Unused, UnusedVeto
  <2>4. UsedOnce'
    BY <2>1 DEF UInv, UsedOnce
  <2> QED BY <1>0, <2>2, <2>3, <2>4 DEF UInv
<1>6. ASSUME NEW sure \in BOOLEAN, job.pc = "publishing",
             decisions' = Append(decisions, [reports |-> job.reports, override |-> job.override,
                                             confirmed |-> sure])
      PROVE  UsedOnce' /\ \A i \in DOMAIN decisions' : /\ \A a \in Agents : decisions'[i].reports[a] <= Len(received)
                                                       /\ decisions'[i].override.id <= Len(received)
  <2>1. /\ Len(decisions) \in Nat
        /\ DOMAIN decisions = 1..Len(decisions) /\ DOMAIN decisions' = 1..(Len(decisions) + 1)
        /\ \A i \in 1..Len(decisions) : decisions'[i] = decisions[i]
        /\ decisions'[Len(decisions) + 1].reports = job.reports
        /\ decisions'[Len(decisions) + 1].override = job.override
    BY <1>0, <1>6, Published
  <2>2. UnusedVeto(job.override.id) /\ \A a \in Agents : Unused(a, job.reports[a])
    BY <1>6 DEF UInv, Fresh
  <2>3. ASSUME NEW i \in DOMAIN decisions', NEW j \in DOMAIN decisions', i < j,
               decisions'[i].confirmed
        PROVE  /\ \A a \in Agents : decisions'[i].reports[a] = 0
                                    \/ decisions'[i].reports[a] # decisions'[j].reports[a]
               /\ decisions'[i].override.id = 0
                  \/ decisions'[i].override.id # decisions'[j].override.id
    <3>1. i \in 1..Len(decisions) /\ decisions'[i] = decisions[i]
      BY <2>1, <2>3
    <3>2. CASE j \in 1..Len(decisions)
      BY <2>1, <2>3, <3>1, <3>2 DEF UInv, UsedOnce
    <3>3. CASE j = Len(decisions) + 1
      BY <2>1, <2>2, <2>3, <3>1, <3>3 DEF Unused, UnusedVeto
    <3> QED BY <2>1, <3>2, <3>3
  <2>4. UsedOnce'
    BY <2>3 DEF UsedOnce
  <2> QED BY <2>1, <2>4 DEF UInv, Issued
<1>7. CASE Publish
  <2>1. /\ UNCHANGED <<reports, override, received>> /\ job.pc = "publishing"
        /\ decisions' = Append(decisions, [reports |-> job.reports, override |-> job.override,
                                           confirmed |-> TRUE])
        /\ job'.reports = job.reports /\ job'.override = job.override /\ job'.pc = "saving"
    BY <1>0, <1>7 DEF Publish, Typed, TypeOK, Job
  <2>2. /\ Len(decisions) \in Nat
        /\ DOMAIN decisions = 1..Len(decisions) /\ DOMAIN decisions' = 1..(Len(decisions) + 1)
        /\ \A i \in 1..Len(decisions) : decisions'[i] = decisions[i]
        /\ decisions'[Len(decisions) + 1].reports = job.reports
    BY <1>0, <2>1, Published
  <2>3. Issued'
    BY <1>6, <2>1 DEF UInv, Issued
  <2>4. Fresh'
    BY <2>1, <2>2 DEF UInv, Fresh, Unused
  <2> QED BY <1>0, <1>6, <2>1, <2>3, <2>4 DEF UInv
<1>8. CASE PublishFails
  <2>1. /\ UNCHANGED <<reports, override, received>> /\ job.pc = "publishing" /\ job' = Free
        /\ \/ decisions' = decisions
           \/ decisions' = Append(decisions, [reports |-> job.reports,
                               override |-> job.override, confirmed |-> FALSE])
    BY <1>8 DEF PublishFails
  <2>2. (\A a \in Agents : Unused(a, reports[a])') /\ UnusedVeto(override.id)'
    <3>1. (\A a \in Agents : Unused(a, reports[a])) /\ UnusedVeto(override.id)
      BY <2>1 DEF UInv, Fresh
    <3>2. CASE decisions' = decisions
      BY <2>1, <3>1, <3>2 DEF Unused, UnusedVeto
    <3>3. CASE decisions' = Append(decisions, [reports |-> job.reports,
                               override |-> job.override, confirmed |-> FALSE])
      <4>1. /\ Len(decisions) \in Nat
            /\ DOMAIN decisions = 1..Len(decisions) /\ DOMAIN decisions' = 1..(Len(decisions) + 1)
            /\ \A i \in 1..Len(decisions) : decisions'[i] = decisions[i]
            /\ decisions'[Len(decisions) + 1].confirmed = FALSE
        BY <1>0, <3>3, Published
      <4> QED BY <2>1, <3>1, <4>1 DEF Unused, UnusedVeto
    <3> QED BY <2>1, <3>2, <3>3
  <2>3. /\ UsedOnce'
        /\ \A i \in DOMAIN decisions' : /\ \A a \in Agents : decisions'[i].reports[a] <= Len(received)
                                        /\ decisions'[i].override.id <= Len(received)
    <3>1. CASE decisions' = decisions
      BY <3>1 DEF UInv, UsedOnce, Issued
    <3> QED BY <1>6, <2>1, <3>1
  <2>4. Issued'
    <3>1. Len(received) \in Nat /\ Len(received') = Len(received)
      BY <1>0, <2>1, Facts
    <3>2. /\ \A a \in Agents : reports'[a] <= Len(received) /\ job'.reports[a] <= Len(received)
          /\ override'.id <= Len(received) /\ job'.override.id <= Len(received)
      BY <1>free, <2>1, <3>1 DEF UInv, Issued
    <3> QED BY <2>3, <3>1, <3>2 DEF Issued
  <2>5. Fresh'
    <3>1. \A a \in Agents : job'.reports[a] = 0
      BY <1>free, <2>1
    <3>2. job'.override.id = 0 /\ job'.pc = "free"
      BY <1>free, <2>1
    <3>3. UnusedVeto(job.override.id)' /\ \A a \in Agents : Unused(a, job.reports[a])'
      BY <3>1, <3>2 DEF Unused, UnusedVeto
    <3> QED BY <2>2, <3>3 DEF Fresh
  <2> QED BY <1>0, <2>3, <2>4, <2>5 DEF UInv
<1>9. CASE CleanUp
  <2>1. /\ UNCHANGED <<received, decisions>> /\ job.pc = "saving" /\ job' = Free
        /\ override' = NoOverride
        /\ \A a \in Agents : reports'[a] = IF job.reports[a] # 0 THEN 0 ELSE reports[a]
    BY <1>9 DEF CleanUp, Kept
  <2>2. Issued'
    BY <1>0, <1>free, <2>1, Facts DEF UInv, Issued
  <2>3. Fresh'
    BY <1>free, <2>1 DEF UInv, Fresh, Unused, UnusedVeto
  <2>4. UsedOnce'
    BY <2>1 DEF UInv, UsedOnce
  <2> QED BY <1>0, <2>2, <2>3, <2>4 DEF UInv
<1>10. CASE Restart
  <2>1. /\ reports' = NoReports /\ override' = NoOverride /\ job' = Free
        /\ received' = <<>> /\ decisions' = <<>>
    BY <1>10 DEF Restart
  <2> QED BY <1>0, <1>free, <2>1 DEF UInv, Issued, Fresh, Unused, UnusedVeto, UsedOnce
<1>11. CASE UNCHANGED vars
  <2>1. UNCHANGED <<reports, override, job, received, decisions>>
    BY <1>11 DEF vars
  <2> QED BY <1>0, <2>1 DEF UInv, Issued, Fresh, Unused, UnusedVeto, UsedOnce
<1> QED BY <1>1, <1>2, <1>3, <1>4, <1>5, <1>7, <1>8, <1>9, <1>10, <1>11 DEF Next, Decide

\* No report and no override is behind two confirmed decisions.
THEOREM NothingIsUsedTwice == Spec => []UsedOnce
<1>1. UInv => UsedOnce
  BY DEF UInv
<1> QED BY UsedOnceInit, UsedOnceNext, <1>1, PTL DEF Spec

----------------------------------------------------------------------------
(* Reports are kept *)

Used(a, n) == \E i \in DOMAIN decisions : decisions[i].reports[a] = n

\* What is held of an agent is its newest report, and so is what the decision under way
\* has of it, unless that one came too late for the decision or is used already.
Held ==
    \A n \in DOMAIN received : \A a \in Agents : Newest(n, {a}) =>
        /\ reports[a] \in {0, n}
        /\ ~received[n].shadowed /\ job.reports[a] # 0 => job.reports[a] = n \/ Used(a, n)

\* A decision that is being saved has been published.
Saved == job.pc = "saving" => \E i \in DOMAIN decisions : decisions[i].reports = job.reports

HInv == Typed /\ Held /\ Saved /\ ReportsAreKept

LEMMA HeldInit == Init => HInv
BY TypedInit DEF Init, HInv, Held, Saved, ReportsAreKept, Free

\* A report that is the newest of its agent after a message arrived was so before, or it is
\* that message.
LEMMA NewestAfter ==
    ASSUME Typed, NEW kind \in Agents \cup {"override", "safe"}, NEW shadowed \in BOOLEAN,
           Receive(kind, shadowed), NEW n \in DOMAIN received', NEW a \in Agents,
           Newest(n, {a})'
    PROVE  \/ n = Len(received') /\ kind = a /\ received'[n].shadowed = shadowed
           \/ n \in DOMAIN received /\ Newest(n, {a}) /\ kind # a /\ received'[n] = received[n]
<1>1. /\ Len(received) \in Nat /\ Len(received') = Len(received) + 1
      /\ DOMAIN received = 1..Len(received) /\ DOMAIN received' = 1..(Len(received) + 1)
      /\ \A i \in 1..Len(received) : received'[i] = received[i]
      /\ received'[Len(received')].kind = kind /\ received'[Len(received')].shadowed = shadowed
  <2>1. received'[Len(received')] = [kind |-> kind, shadowed |-> shadowed]
    BY ReceiveType
  <2>2. /\ Len(received) \in Nat /\ Len(received') = Len(received) + 1
        /\ DOMAIN received = 1..Len(received) /\ DOMAIN received' = 1..(Len(received) + 1)
        /\ \A i \in 1..Len(received) : received'[i] = received[i]
    BY ReceiveType
  <2> QED BY <2>1, <2>2
<1>2. /\ received'[n].kind = a
      /\ \A m \in (n + 1)..Len(received') : received'[m].kind # a
  BY DEF Newest
<1>3. CASE n = Len(received')
  BY <1>1, <1>2, <1>3
<1>4. CASE n # Len(received')
  <2>1. n \in 1..Len(received)
    BY <1>1, <1>4
  <2>2. Len(received') \in (n + 1)..Len(received')
    BY <1>1, <2>1
  <2>3. kind # a
    BY <1>1, <1>2, <2>2
  <2>4. \A m \in (n + 1)..Len(received) : received[m].kind # a
    BY <1>1, <1>2, <2>1
  <2>5. received[n].kind = a
    BY <1>1, <1>2, <2>1
  <2> QED BY <1>1, <2>1, <2>3, <2>4, <2>5 DEF Newest
<1> QED BY <1>3, <1>4

LEMMA KeptMessages ==
    ASSUME HInv, Typed', decisions' = decisions,
           NEW kind \in Agents \cup {"override", "safe"}, NEW shadowed \in BOOLEAN,
           Receive(kind, shadowed),
           kind \in Agents => shadowed = Shadowed(kind),
           \A a \in Agents : reports'[a] = IF kind = a THEN Len(received') ELSE reports[a],
           \/ job' = job
           \/ job.pc = "free" /\ job' = Decision(reports', override')
    PROVE  HInv'
<1>1. Typed
  BY DEF HInv
<1>2. ASSUME NEW n \in DOMAIN received', NEW a \in Agents, Newest(n, {a})'
      PROVE  /\ reports'[a] \in {0, n}
             /\ ~received'[n].shadowed => reports'[a] = n \/ Used(a, n)'
             /\ ~received'[n].shadowed /\ job'.reports[a] # 0 => job'.reports[a] = n \/ Used(a, n)'
  <2>1. CASE n = Len(received') /\ kind = a /\ received'[n].shadowed = shadowed
    <3>1. reports'[a] = n /\ shadowed = (job.reports[a] # 0)
      BY <2>1 DEF Shadowed
    <3>2. CASE job' = job
      BY <2>1, <3>1, <3>2
    <3>3. CASE job' = Decision(reports', override')
      BY <3>1, <3>3 DEF Decision
    <3> QED BY <3>1, <3>2, <3>3
  <2>2. CASE n \in DOMAIN received /\ Newest(n, {a}) /\ kind # a /\ received'[n] = received[n]
    <3>1. /\ reports[a] \in {0, n} /\ reports'[a] = reports[a]
          /\ ~received[n].shadowed => reports[a] = n \/ Used(a, n)
          /\ ~received[n].shadowed /\ job.reports[a] # 0 => job.reports[a] = n \/ Used(a, n)
      BY <2>2 DEF HInv, Held, ReportsAreKept, Used
    <3>2. Used(a, n)' <=> Used(a, n)
      BY DEF Used
    <3>3. CASE job' = job
      BY <2>2, <3>1, <3>2, <3>3
    <3>4. CASE job' = Decision(reports', override')
      <4>1. job'.reports = reports'
        BY <3>4 DEF Decision
      <4> QED BY <2>2, <3>1, <3>2, <4>1
    <3> QED BY <3>3, <3>4
  <2> QED BY <1>1, <1>2, <2>1, <2>2, NewestAfter
<1>3. Held' /\ ReportsAreKept'
  BY <1>2 DEF Held, ReportsAreKept, Used
<1>4. Saved'
  BY DEF HInv, Saved, Decision
<1> QED BY <1>3, <1>4 DEF HInv

\* While messages, reports and history stay as they are, so does what is known of them.
LEMMA KeptOtherwise ==
    ASSUME HInv, Typed', UNCHANGED <<reports, received, decisions>>,
           job'.reports \in {reports, job.reports, NoReports},
           job'.pc = "saving" => \E i \in DOMAIN decisions : decisions[i].reports = job'.reports
    PROVE  HInv'
<1>1. ReportsAreKept' /\ Saved'
  BY DEF HInv, ReportsAreKept, Newest, Saved
<1>2. ASSUME NEW n \in DOMAIN received, NEW a \in Agents, Newest(n, {a})
      PROVE  /\ reports[a] \in {0, n}
             /\ ~received[n].shadowed /\ job'.reports[a] # 0 => job'.reports[a] = n \/ Used(a, n)
  <2>1. NoReports[a] = 0
    BY DEF NoReports
  <2> QED BY <1>2, <2>1 DEF HInv, Held, ReportsAreKept, Used
<1>3. Held'
  BY <1>2 DEF Held, Newest, Used
<1> QED BY <1>1, <1>3 DEF HInv

\* Publishing adds a decision to the history and leaves the older ones in place.
LEMMA KeptPublished ==
    ASSUME HInv, Typed', UNCHANGED <<reports, received>>, NEW sure \in BOOLEAN,
           decisions' = Append(decisions, [reports |-> job.reports, override |-> job.override,
                                           confirmed |-> sure]),
           job'.reports \in {job.reports, NoReports},
           job'.pc = "saving" => job'.reports = job.reports
    PROVE  HInv'
<1>1. /\ Len(decisions) \in Nat
      /\ DOMAIN decisions = 1..Len(decisions) /\ DOMAIN decisions' = 1..(Len(decisions) + 1)
      /\ \A i \in 1..Len(decisions) : decisions'[i] = decisions[i]
      /\ decisions'[Len(decisions) + 1].reports = job.reports
  BY Published DEF HInv
<1>2. \A a \in Agents, n \in DOMAIN received : Used(a, n) => Used(a, n)'
  BY <1>1 DEF Used
<1>3. Saved'
  BY <1>1 DEF Saved
<1>4. ASSUME NEW n \in DOMAIN received, NEW a \in Agents, Newest(n, {a})
      PROVE  /\ reports[a] \in {0, n}
             /\ ~received[n].shadowed => reports[a] = n \/ Used(a, n)'
             /\ ~received[n].shadowed /\ job'.reports[a] # 0 => job'.reports[a] = n \/ Used(a, n)'
  <2>1. NoReports[a] = 0
    BY DEF NoReports
  <2>2. /\ reports[a] \in {0, n}
        /\ ~received[n].shadowed => reports[a] = n \/ Used(a, n)
        /\ ~received[n].shadowed /\ job.reports[a] # 0 => job.reports[a] = n \/ Used(a, n)
    BY <1>4 DEF HInv, Held, ReportsAreKept, Used
  <2> QED BY <1>2, <2>1, <2>2
<1>5. Held' /\ ReportsAreKept'
  BY <1>4 DEF Held, ReportsAreKept, Newest, Used
<1> QED BY <1>3, <1>5 DEF HInv

LEMMA HeldNext == HInv /\ [Next]_vars => HInv'
<1> SUFFICES ASSUME HInv, [Next]_vars PROVE HInv'
  OBVIOUS
<1>0. Typed /\ Typed'
  BY TypedNext DEF HInv
<1>free. Free.reports = NoReports /\ Free.pc = "free"
  BY DEF Free
<1>1. ASSUME NEW a \in Agents, Report(a) PROVE HInv'
  <2>1. Receive(a, Shadowed(a)) /\ Shadowed(a) \in BOOLEAN
    BY <1>1 DEF Report, Shadowed
  <2>2. /\ decisions' = decisions
        /\ \A b \in Agents : reports'[b] = IF a = b THEN Len(received') ELSE reports[b]
    BY <1>0, <1>1, Facts DEF Report
  <2>3. job' = job \/ (job.pc = "free" /\ job' = Decision(reports', override'))
    BY <1>1 DEF Report, MakeDecision
  <2> QED BY <1>0, <2>1, <2>2, <2>3, KeptMessages
<1>2. ASSUME NEW severity \in Severities \ {"none"}, RiskOverride(severity) PROVE HInv'
  <2>1. Receive("override", FALSE) /\ "override" \notin Agents
    BY <1>2 DEF RiskOverride, Agents
  <2>2. decisions' = decisions /\ reports' = reports
    BY <1>2 DEF RiskOverride
  <2>3. job' = job \/ (job.pc = "free" /\ job' = Decision(reports', override'))
    BY <1>2, <2>2 DEF RiskOverride, MakeDecision
  <2>4. \A b \in Agents : reports'[b] = IF "override" = b THEN Len(received') ELSE reports[b]
    BY <2>1, <2>2
  <2> QED BY <1>0, <2>1, <2>2, <2>3, <2>4, KeptMessages
<1>3. CASE RiskSafe
  <2>1. Receive("safe", FALSE) /\ "safe" \notin Agents
    BY <1>3 DEF RiskSafe, Agents
  <2>2. decisions' = decisions /\ reports' = reports /\ job' = job
    BY <1>3 DEF RiskSafe
  <2>3. \A b \in Agents : reports'[b] = IF "safe" = b THEN Len(received') ELSE reports[b]
    BY <2>1, <2>2
  <2> QED BY <1>0, <2>1, <2>2, <2>3, KeptMessages
<1>4. CASE Acquire
  <2>1. /\ UNCHANGED <<reports, received, decisions>>
        /\ job'.reports = reports /\ job'.pc # "saving"
    BY <1>4 DEF Acquire, Decision
  <2> QED BY <1>0, <2>1, KeptOtherwise
<1>5. CASE Answer
  <2>1. /\ UNCHANGED <<reports, received, decisions>>
        /\ job'.reports = job.reports /\ job'.pc = "publishing"
    BY <1>0, <1>5 DEF Answer, Typed, TypeOK, Job
  <2> QED BY <1>0, <2>1, KeptOtherwise
<1>6. CASE Publish
  <2>1. /\ UNCHANGED <<reports, received>> /\ job'.reports = job.reports
        /\ decisions' = Append(decisions, [reports |-> job.reports, override |-> job.override,
                                           confirmed |-> TRUE])
    BY <1>0, <1>6 DEF Publish, Typed, TypeOK, Job
  <2> QED BY <1>0, <2>1, KeptPublished
<1>7. CASE PublishFails
  <2>1. /\ UNCHANGED <<reports, received>> /\ job'.reports = NoReports /\ job'.pc # "saving"
        /\ \/ decisions' = decisions
           \/ decisions' = Append(decisions, [reports |-> job.reports,
                               override |-> job.override, confirmed |-> FALSE])
    BY <1>free, <1>7 DEF PublishFails
  <2>2. CASE decisions' = decisions
    BY <1>0, <2>1, <2>2, KeptOtherwise
  <2>3. CASE decisions' = Append(decisions, [reports |-> job.reports,
                               override |-> job.override, confirmed |-> FALSE])
    BY <1>0, <2>1, <2>3, KeptPublished
  <2> QED BY <2>1, <2>2, <2>3
<1>8. CASE CleanUp
  <2>1. /\ UNCHANGED <<received, decisions>> /\ job.pc = "saving"
        /\ job'.reports = NoReports /\ job'.pc # "saving"
        /\ \A a \in Agents : reports'[a] = IF job.reports[a] # 0 THEN 0 ELSE reports[a]
    BY <1>free, <1>8 DEF CleanUp, Kept
  <2>2. PICK i \in DOMAIN decisions : decisions[i].reports = job.reports
    BY <2>1 DEF HInv, Saved
  <2>3. ASSUME NEW n \in DOMAIN received, NEW a \in Agents, Newest(n, {a})
        PROVE  /\ reports'[a] \in {0, n}
               /\ ~received[n].shadowed => reports'[a] = n \/ Used(a, n)
               /\ job'.reports[a] = 0
    <3>1. /\ reports[a] \in {0, n}
          /\ ~received[n].shadowed => reports[a] = n \/ Used(a, n)
          /\ ~received[n].shadowed /\ job.reports[a] # 0 => job.reports[a] = n \/ Used(a, n)
      BY <2>3 DEF HInv, Held, ReportsAreKept, Used
    <3>2. job.reports[a] = n => Used(a, n)
      BY <2>2 DEF Used
    <3>3. NoReports[a] = 0
      BY DEF NoReports
    <3> QED BY <2>1, <3>1, <3>2, <3>3
  <2>4. Held' /\ ReportsAreKept'
    BY <2>1, <2>3 DEF Held, ReportsAreKept, Newest, Used
  <2>5. Saved'
    BY <2>1 DEF Saved
  <2> QED BY <1>0, <2>4, <2>5 DEF HInv
<1>9. CASE Restart
  <2>1. received' = <<>> /\ job'.pc # "saving"
    BY <1>free, <1>9 DEF Restart
  <2> QED BY <1>0, <2>1 DEF HInv, Held, Saved, ReportsAreKept
<1>10. CASE UNCHANGED vars
  <2>1. UNCHANGED <<reports, job, received, decisions>>
    BY <1>10 DEF vars
  <2> QED BY <1>0, <2>1, KeptOtherwise DEF HInv, Saved
<1> QED BY <1>1, <1>2, <1>3, <1>4, <1>5, <1>6, <1>7, <1>8, <1>9, <1>10 DEF Next, Decide

\* No report is lost but in the one way that the clean-up has: it came while a decision with
\* an older report of the same agent was being made.
THEOREM NoReportIsLost == Spec => []ReportsAreKept
<1>1. HInv => ReportsAreKept
  BY DEF HInv
<1> QED BY HeldInit, HeldNext, <1>1, PTL DEF Spec
=============================================================================
