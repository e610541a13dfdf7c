----------------------------- MODULE Heartbeats -----------------------------
(***************************************************************************)
(* The life of the agents (agents/base_agent.py, core/bus.py, main.py):    *)
(* each has a task that writes its heartbeat to Redis with an expiry, one  *)
(* that listens for messages and one that watches the heartbeats of the    *)
(* others and reports on events:system those that went down or came back.  *)
(* A task that fails ends start(), but not the other tasks.                *)
(*                                                                         *)
(* A step of time is heartbeat_interval.  Time may pass while a task is    *)
(* due: all tasks share one event loop, which a slow call holds up.        *)
(***************************************************************************)
EXTENDS Integers, FiniteSets

CONSTANTS Agents,
          Watchers,  \* bound of the model: agents whose watching is followed
          Beaters,   \* bound of the model: agents whose heartbeat is followed
          Expiry,    \* of a heartbeat: 15 s, 3 steps
          Round,     \* heartbeat_timeout, between two checks: 15 s, 3 steps
          Threshold  \* _monitor_miss_threshold: 3

HeartbeatsAssumption == /\ Watchers \subseteq Agents /\ Beaters \subseteq Agents
                        /\ {Expiry, Round, Threshold} \subseteq Nat \ {0}

VARIABLES tasks,    \* the tasks of each agent that go on
          started,  \* "yes", and then how start() ended: "failed" or "stopped"
          key,      \* steps until a heartbeat expires; 0 when it is not there
          beatDue,  \* the agents whose next heartbeat is due
          checkIn,  \* steps until an agent checks the others
          missed,   \* _missed_heartbeats; it is not told apart beyond the threshold
          told      \* the last event each watcher published about an agent

vars == <<tasks, started, key, beatDue, checkIn, missed, told>>

Tasks == {"beat", "listen", "watch"}
Pairs == {p \in Watchers \X Beaters : p[1] # p[2]}

Init == /\ tasks = [a \in Agents |-> Tasks] /\ started = [a \in Agents |-> "yes"]
        /\ key = [a \in Beaters |-> 0] /\ beatDue = Beaters
        /\ checkIn = [a \in Watchers |-> Round]
        /\ missed = [p \in Pairs |-> 0] /\ told = [p \in Pairs |-> "none"]

\* _heartbeat_loop writes the heartbeat and sleeps; a write that fails is logged.
Beat(a, works) ==
    /\ a \in beatDue /\ "beat" \in tasks[a]
    /\ key' = [key EXCEPT ![a] = IF works THEN Expiry ELSE @]
    /\ beatDue' = beatDue \ {a}
    /\ UNCHANGED <<tasks, started, checkIn, missed, told>>

\* fault: the count starts again once the agent is reported
FaultyCounted(count, alive) == IF alive \/ count + 1 = Threshold THEN 0 ELSE count + 1

Counted(count, alive) == IF alive THEN 0 ELSE IF count < Threshold THEN count + 1 ELSE count

Event(count, alive, before) ==
    IF ~alive /\ count + 1 = Threshold THEN "AGENT_DOWN"
    ELSE IF alive /\ count >= Threshold THEN "AGENT_UP" ELSE before

\* A round of _monitor_heartbeats.
Check(a) ==
    /\ "watch" \in tasks[a] /\ checkIn[a] = 0
    /\ checkIn' = [checkIn EXCEPT ![a] = Round]
    /\ missed' = [p \in Pairs |-> IF p[1] = a THEN Counted(missed[p], key[p[2]] > 0) ELSE missed[p]]
    /\ told' = [p \in Pairs |-> IF p[1] = a THEN Event(missed[p], key[p[2]] > 0, told[p]) ELSE told[p]]
    /\ UNCHANGED <<tasks, started, key, beatDue>>

\* Redis fails in a round, or when the messages are subscribed to: the error ends the task and
\* start(), which reports AGENT_STOPPED if it can.
Fails(a, task) ==
    /\ task \in tasks[a] /\ task # "beat" /\ started[a] = "yes"
    /\ task = "watch" => a \in Watchers /\ checkIn[a] = 0
    /\ tasks' = [tasks EXCEPT ![a] = @ \ {task}]
    /\ started' = [started EXCEPT ![a] = "failed"]
    /\ UNCHANGED <<key, beatDue, checkIn, missed, told>>

\* Redis fails while the agent listens: _message_loop logs the error and is through, and
\* start() goes on waiting for the others.
Deafen(a) ==
    /\ "listen" \in tasks[a]
    /\ tasks' = [tasks EXCEPT ![a] = @ \ {"listen"}]
    /\ UNCHANGED <<started, key, beatDue, checkIn, missed, told>>

\* lifespan cancels the start() of every agent that has not ended, and with it its tasks.
Shutdown ==
    /\ tasks' = [a \in Agents |-> IF started[a] = "yes" THEN {} ELSE tasks[a]]
    /\ started' = [a \in Agents |-> IF started[a] = "yes" THEN "stopped" ELSE started[a]]
    /\ UNCHANGED <<key, beatDue, checkIn, missed, told>>

Tick ==
    /\ key' = [a \in Beaters |-> IF key[a] > 0 THEN key[a] - 1 ELSE 0]
    /\ beatDue' = Beaters
    /\ checkIn' = [a \in Watchers |-> IF checkIn[a] > 0 THEN checkIn[a] - 1 ELSE 0]
    /\ UNCHANGED <<tasks, started, missed, told>>

Next == \/ \E a \in Beaters, works \in BOOLEAN : Beat(a, works)
        \/ \E a \in Watchers : Check(a)
        \/ \E a \in Agents, task \in Tasks : Fails(a, task)
        \/ \E a \in Agents : Deafen(a)
        \/ Shutdown
        \/ Tick

Fairness == WF_vars(Tick) /\ \A a \in Watchers : WF_vars(Check(a))

Spec == Init /\ [][Next]_vars /\ Fairness

----------------------------------------------------------------------------
(* Properties *)

TypeOK == /\ \A a \in Agents : tasks[a] \subseteq Tasks /\ started[a] \in {"yes", "failed", "stopped"}
          /\ \A a \in Beaters : key[a] \in 0..Expiry
          /\ \A p \in Pairs : missed[p] \in 0..Threshold /\ told[p] \in {"none", "AGENT_DOWN", "AGENT_UP"}

\* What a watcher has said of an agent comes to be true: an agent whose heartbeat stays away
\* is reported down, and one whose heartbeat is back is not left so.
ReportsConverge ==
    \A p \in Pairs :
        /\ <>[](key[p[2]] = 0 /\ "watch" \in tasks[p[1]]) => <>[](told[p] = "AGENT_DOWN")
        /\ <>[](key[p[2]] > 0 /\ "watch" \in tasks[p[1]]) => <>[](told[p] # "AGENT_DOWN")
=============================================================================
