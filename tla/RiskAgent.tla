----------------------------- MODULE RiskAgent -----------------------------
(***************************************************************************)
(* The risk agent (agents/risk_agent.py): it keeps the newest report of    *)
(* each of the other agents and judges them on every report that arrives.  *)
(* The message loop of agents/base_agent.py starts a task for each report, *)
(* up to MaxConcurrent at a time.  A task runs up to its first await; then *)
(* others run, change the reports, and overtake it.                        *)
(***************************************************************************)
EXTENDS Integers, FiniteSets

CONSTANTS Tasks,         \* the tasks there may be at a time: max_concurrent_msgs
          MaxReports     \* bound of the model: reports that arrive

VARIABLES latest,   \* _latest_reports
          task,     \* where each task stands
          arrived,  \* history: how many reports arrived
          flagged   \* history: what latest calls for was published, or lost on the way

RiskAgentAssumption == MaxReports \in Nat

vars == <<latest, task, arrived, flagged>>

Missing == "missing"
\* What the checks read of a report: the risk appetite below 0.35, between, or above 0.65;
\* the direction of the money; whether a strong bearish divergence is among the signals.
Contents == [macro  |-> {"fear", "calm", "greed"},
             trace  |-> {"bullish", "neutral", "bearish"},
             signal |-> {"plain", "divergent"}]
Agents == DOMAIN Contents

\* pc: the check whose K-lines are asked for, then "publish" with the verdict.
Idle == [pc |-> "idle", verdict |-> "none", seen |-> [a \in Agents |-> Missing]]

Init == /\ latest = [a \in Agents |-> Missing]
        /\ task = [t \in Tasks |-> Idle]
        /\ arrived = 0 /\ flagged = TRUE

\* _check_conflict
Conflict(r) == \/ r.macro = "fear"  /\ r.trace = "bullish"
               \/ r.macro = "greed" /\ r.trace = "bearish"

\* _check_bearish_divergence
Divergence(r) == r.signal = "divergent"

\* The reports call for an override, whatever the K-lines say.
Calls(r) == Conflict(r) \/ Divergence(r)

Goto(t, s) == task' = [task EXCEPT ![t] = s]

\* fault: the checks are made after an await, on what the task brought along
FaultyReceive(t, agent, content) ==
    /\ task[t].pc = "idle" /\ arrived < MaxReports
    /\ arrived' = arrived + 1
    /\ latest' = [latest EXCEPT ![agent] = content]
    /\ flagged' = ~Calls(latest')
    /\ Goto(t, [pc |-> IF Calls(latest) THEN "publish" ELSE "atr",
                verdict |-> IF Calls(latest) THEN "override" ELSE "none", seen |-> latest'])

\* process_message up to its first await.  Without a signal report there are no K-lines to
\* ask for.
Receive(t, agent, content) ==
    /\ task[t].pc = "idle" /\ arrived < MaxReports
    /\ arrived' = arrived + 1
    /\ latest' = [latest EXCEPT ![agent] = content]
    /\ flagged' = ~Calls(latest')
    /\ Goto(t, CASE Calls(latest')           -> [pc |-> "publish", verdict |-> "override", seen |-> latest']
                 [] ~Calls(latest') /\ latest'.signal = Missing -> [pc |-> "publish", verdict |-> "safe", seen |-> latest']
                 [] OTHER                    -> [pc |-> "atr", verdict |-> "none", seen |-> latest'])

\* The check that follows once the K-lines of one show nothing.
After == [atr |-> "drop", drop |-> "decline", decline |-> "publish"]

\* The K-lines come: too few of them, or nothing to see in them, or a stop, a drop of 7% or
\* three falling days.  Each check reads the symbol anew from the newest signal report.
KlinesCome(t, breached) ==
    /\ task[t].pc \in DOMAIN After
    /\ Goto(t, IF breached THEN [task[t] EXCEPT !.pc = "publish", !.verdict = "override"]
               ELSE [task[t] EXCEPT !.pc = After[@], !.verdict = IF task[t].pc = "decline" THEN "safe" ELSE "none"])
    /\ UNCHANGED <<latest, arrived, flagged>>

\* _emit_override or _emit_safe.  Afterwards the override is recorded (RiskManager).
Publish(t) ==
    /\ task[t].pc = "publish"
    /\ Goto(t, Idle)
    /\ flagged' = (flagged \/ (task[t].verdict = "override" /\ task[t].seen = latest))
    /\ UNCHANGED <<latest, arrived>>

\* Redis fails: _process_safe logs the error and gives the slot back.
Fails(t) ==
    /\ task[t].pc # "idle"
    /\ flagged' = (flagged \/ task[t].pc = "publish")
    /\ Goto(t, Idle)
    /\ UNCHANGED <<latest, arrived>>

Next == \E t \in Tasks : \/ \E agent \in Agents : \E content \in Contents[agent] : Receive(t, agent, content)
                         \/ \E breached \in BOOLEAN : KlinesCome(t, breached)
                         \/ Publish(t) \/ Fails(t)

Spec == Init /\ [][Next]_vars

----------------------------------------------------------------------------
(* Properties *)

TypeOK == /\ \A a \in Agents : latest[a] \in Contents[a] \cup {Missing}
          /\ \A t \in Tasks : /\ task[t].pc \in {"idle", "publish"} \cup DOMAIN After
                              /\ task[t].verdict \in {"none", "override", "safe"}
          /\ arrived \in 0..MaxReports /\ flagged \in BOOLEAN

\* Reports that contradict each other never stand without an override: it was published, or
\* Redis refused it, or a task that has seen these very reports is about to publish it.
ConflictsAreFlagged ==
    flagged \/ \E t \in Tasks : task[t].pc = "publish" /\ task[t].verdict = "override" /\ task[t].seen = latest
=============================================================================
