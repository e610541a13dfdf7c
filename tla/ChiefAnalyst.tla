---------------------------- MODULE ChiefAnalyst ----------------------------
(***************************************************************************)
(* The chief analyst (agents/chief_analyst.py): it keeps the newest report *)
(* of each agent and the newest risk override, and decides when the        *)
(* reports are complete or an override arrives.                            *)
(*                                                                         *)
(* Every message is handled by an asyncio task of its own, up to           *)
(* MaxConcurrent at a time.  A task runs until it has to wait: for         *)
(* _decide_lock, for the language models, for Redis.  Messages are handled *)
(* in between, and the decision under way works with copies of what it     *)
(* found when it began.                                                    *)
(***************************************************************************)
EXTENDS Integers, Sequences

CONSTANTS MaxConcurrent, \* max_concurrent_msgs: 100 by default
          MaxMessages    \* bound of the model: messages that arrive

ASSUME ChiefAssumption == MaxConcurrent \in Nat \ {0} /\ MaxMessages \in Nat

VARIABLES reports,  \* _reports: the number of the message, 0 for none
          override, \* _risk_override
          job,      \* the decision of the task that holds _decide_lock
          waiting,  \* how many tasks wait for the lock
          received, \* history: the messages that were handled, in order
          decisions \* history: the decisions that were published, in order

vars == <<reports, override, job, waiting, received, decisions>>

Agents     == {"macro", "signal", "trace"}
Severities == {"none", "warning", "critical"}

NoReports  == [a \in Agents |-> 0]
NoOverride == [id |-> 0, severity |-> "none"]

\* pc: "thinking" in build_chief_decision, "publishing" up to the answer of Redis,
\* "saving" in the database and the notifier, "free" when nobody holds the lock.
Free == [pc |-> "free", reports |-> NoReports, override |-> NoOverride]

Init == /\ reports = NoReports /\ override = NoOverride
        /\ job = Free /\ waiting = 0
        /\ received = <<>> /\ decisions = <<>>

----------------------------------------------------------------------------
(* Messages *)

\* A decision on copies of the reports and the override; a critical one needs no model.
Decision(found, veto) ==
    [pc |-> IF veto.severity = "critical" THEN "publishing" ELSE "thinking",
     reports |-> found, override |-> veto]

\* fault: the message loop does not wait for a free slot
FaultyMayHandle == TRUE

\* The semaphore of the message loop.
MayHandle == waiting + (IF job.pc = "free" THEN 0 ELSE 1) < MaxConcurrent

\* async with _decide_lock: the task goes on at once if nobody holds it or waits for it.
MakeDecision(found, veto) ==
    IF job.pc = "free" /\ waiting = 0
    THEN job' = Decision(found, veto) /\ UNCHANGED waiting
    ELSE waiting' = waiting + 1 /\ UNCHANGED job

\* The decision under way, which will drop what it has used, has used a report of agent a.
Shadowed(a) == job.reports[a] # 0

Receive(kind, shadowed) ==
    /\ MayHandle
    /\ Len(received) < MaxMessages
    /\ received' = Append(received, [kind |-> kind, shadowed |-> shadowed])

Report(a) ==
    /\ Receive(a, Shadowed(a))
    /\ reports' = [reports EXCEPT ![a] = Len(received')]
    /\ IF \A b \in Agents : reports'[b] # 0
       THEN MakeDecision(reports', override)
       ELSE UNCHANGED <<job, waiting>>
    /\ UNCHANGED <<override, decisions>>

RiskOverride(severity) ==
    /\ Receive("override", FALSE)
    /\ override' = [id |-> Len(received'), severity |-> severity]
    /\ MakeDecision(reports, override')
    /\ UNCHANGED <<reports, decisions>>

RiskSafe ==
    /\ Receive("safe", FALSE)
    /\ override' = NoOverride
    /\ UNCHANGED <<reports, job, waiting, decisions>>

----------------------------------------------------------------------------
(* The decision *)

\* The first of the tasks that wait gets the lock that another one has given back.
Acquire ==
    /\ job.pc = "free" /\ waiting > 0
    /\ waiting' = waiting - 1
    /\ job' = Decision(reports, override)
    /\ UNCHANGED <<reports, override, received, decisions>>

\* A model answers, or the rules, or the error that stands for a decision to hold.
Answer ==
    /\ job.pc = "thinking"
    /\ job' = [job EXCEPT !.pc = "publishing"]
    /\ UNCHANGED <<reports, override, waiting, received, decisions>>

Publish ==
    /\ job.pc = "publishing"
    /\ decisions' = Append(decisions, [reports |-> job.reports, override |-> job.override,
                                       confirmed |-> TRUE])
    /\ job' = [job EXCEPT !.pc = "saving"]
    /\ UNCHANGED <<reports, override, waiting, received>>

\* fault: an error does not give back the lock
FaultyPublishFails ==
    /\ job.pc = "publishing"
    /\ job' = [job EXCEPT !.pc = "failed"]
    /\ UNCHANGED <<reports, override, waiting, received, decisions>>

\* Redis raises an error, before or after it has passed the decision on.  The error ends
\* the task, and what the decision has used stays where it is.
PublishFails ==
    /\ job.pc = "publishing"
    /\ decisions' \in {decisions, Append(decisions, [reports |-> job.reports,
                                    override |-> job.override, confirmed |-> FALSE])}
    /\ job' = Free
    /\ UNCHANGED <<reports, override, waiting, received>>

\* fault: nothing is dropped
FaultyKept == reports

\* fault: everything is dropped
FaultyKeptNothing == NoReports

\* What is left of the reports: those of the agents that the decision had none of.
Kept == [a \in Agents |-> IF job.reports[a] # 0 THEN 0 ELSE reports[a]]

CleanUp ==
    /\ job.pc = "saving"
    /\ reports' = Kept
    /\ override' = NoOverride
    /\ job' = Free
    /\ UNCHANGED <<waiting, received, decisions>>

Decide == Acquire \/ Answer \/ Publish \/ PublishFails \/ CleanUp

\* The chief analyst keeps nothing: a new process begins as the first one did, and what is
\* said of messages and decisions is said of those of one process.
Restart == /\ reports' = NoReports /\ override' = NoOverride
           /\ job' = Free /\ waiting' = 0
           /\ received' = <<>> /\ decisions' = <<>>

Next == \/ \E a \in Agents : Report(a)
        \/ \E severity \in Severities \ {"none"} : RiskOverride(severity)
        \/ RiskSafe
        \/ Decide
        \/ Restart

Spec == Init /\ [][Next]_vars

\* asyncio runs every task that is ready, and requests to models and to Redis end.
FairSpec == Spec /\ WF_vars(Decide)

----------------------------------------------------------------------------
(* Properties *)

Ids      == 0..MaxMessages
Override == [id : Ids, severity : Severities]
Message  == [kind : Agents \cup {"override", "safe"}, shadowed : BOOLEAN]
Job      == [pc : {"free", "thinking", "publishing", "saving"}, reports : [Agents -> Ids],
             override : Override]
Outcome  == [reports : [Agents -> Ids], override : Override, confirmed : BOOLEAN]

TypeOK ==
    /\ reports \in [Agents -> Ids]
    /\ override \in Override
    /\ job \in Job
    /\ waiting \in 0..(MaxConcurrent - IF job.pc = "free" THEN 0 ELSE 1)
    /\ received \in Seq(Message)
    /\ decisions \in Seq(Outcome)

\* No report and no override is behind two decisions, although messages keep arriving and
\* tasks queue up while a decision is made.  An error of Redis leaves everything in place,
\* so a decision whose publication was not confirmed may be made again.
UsedOnce ==
    \A i, j \in DOMAIN decisions :
        i < j /\ decisions[i].confirmed =>
            /\ \A a \in Agents : decisions[i].reports[a] = 0
                                 \/ decisions[i].reports[a] # decisions[j].reports[a]
            /\ decisions[i].override.id = 0 \/ decisions[i].override.id # decisions[j].override.id

\* message n is the newest of its kinds
Newest(n, kinds) == received[n].kind \in kinds /\ \A m \in (n + 1)..Len(received) : received[m].kind \notin kinds

\* A report is kept until a decision has used it or a newer one has replaced it, unless it
\* came while a decision with an older report of the same agent was being made.
ReportsAreKept ==
    \A n \in DOMAIN received : \A a \in Agents :
        Newest(n, {a}) /\ ~received[n].shadowed =>
            reports[a] = n \/ \E i \in DOMAIN decisions : decisions[i].reports[a] = n

\* Every decision comes to an end and gives back the lock, also when Redis fails: otherwise
\* no other message would ever be decided on.
DecisionsEnd == job.pc # "free" ~> job.pc = "free"

\* A decision rests on reports of all three agents, as _try_decide says, or on an override.
GroundedDecisions ==
    \A i \in DOMAIN decisions :
        \/ decisions[i].override # NoOverride
        \/ \A a \in Agents : decisions[i].reports[a] # 0

\* An override is decided on, as the class says, unless the risk agent has replaced it or
\* withdrawn it: until then it is there for the next decision or used by one.
VetoesAreHeeded ==
    \A n \in DOMAIN received :
        Newest(n, {"override", "safe"}) /\ received[n].kind = "override" =>
            \/ n \in {override.id, job.override.id}
            \/ \E i \in DOMAIN decisions : decisions[i].override.id = n
=============================================================================
