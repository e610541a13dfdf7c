---------------------------- MODULE RiskManager ----------------------------
(***************************************************************************)
(* The risk manager (core/risk_manager.py).  Its state and the history of  *)
(* overrides are two keys in Redis, each read, changed and written back    *)
(* with awaits in between, by the tasks of the risk agent that record an   *)
(* override and by those that look for a level to heal: the hourly loop    *)
(* and every request for the status or a position.                         *)
(*                                                                         *)
(* Times are kept as ages, in steps that tell the cooldown and the day     *)
(* apart.  Old is every age beyond a day.                                  *)
(***************************************************************************)
EXTENDS Integers, Sequences, FiniteSets, SequencesExt

CONSTANTS Recorders,    \* tasks of the risk agent in record_override
          Healers,      \* the hourly loop and requests for the status
          Elevated,     \* elevated_threshold: 3
          Critical,     \* critical_threshold: 5
          Cooldown,     \* cooldown_minutes: 60
          Day,          \* the 24 hours after which a level heals
          MaxHistory,   \* max_override_history: 100
          MaxOverrides  \* bound of the model: overrides that are recorded

RiskAssumption == /\ {Elevated, Critical, Cooldown, Day, MaxHistory, MaxOverrides} \subseteq Nat \ {0}
                  /\ Elevated < Critical /\ Cooldown <= Day

VARIABLES saved,   \* risk:state in Redis
          history, \* risk:overrides in Redis: the numbers of the overrides
          call,    \* where each recorder stands
          heal,    \* where each healer stands
          issued,  \* history: overrides so far
          alone,   \* history: those that were recorded while nothing else was written
          crisis   \* history: age of the newest critical override whose save nobody raced with

vars == <<saved, history, call, heal, issued, alone, crisis>>

Old   == Day + 1
Never == Day + 2  \* the event is not on record

Severities == {"warning", "critical"}
RiskState == [level : {"normal", "elevated", "critical"}, daily : 0..MaxOverrides, total : 0..MaxOverrides,
              circuit : {"none", "daily_drop", "override_count"}, last : 0..Never, crit : 0..Never]
NewState == [level |-> "normal", daily |-> 0, total |-> 0, circuit |-> "none", last |-> Never, crit |-> Never]

NoHistory == <<>>
\* pc: "append" with the history read, "update" when it is written, "save" with the state read.
Idle == [pc |-> "idle", id |-> 0, severity |-> "warning", events |-> NoHistory, state |-> NewState,
         solo |-> FALSE]
Rest == [pc |-> "idle", state |-> NewState]

Init == /\ saved = NewState /\ history = NoHistory
        /\ call = [c \in Recorders |-> Idle] /\ heal = [h \in Healers |-> Rest]
        /\ issued = 0 /\ alone = {} /\ crisis = Never

----------------------------------------------------------------------------
(* Recording an override *)

\* A day without an override ends the day's count.
Renewed(s) == IF s.last = Old THEN [s EXCEPT !.daily = 0] ELSE s

Counted(s) == [Renewed(s) EXCEPT !.daily = @ + 1, !.total = @ + 1, !.last = 0]

\* _update_risk_state.  A critical override on record keeps the level up: as it is while the
\* override is fresh, elevated afterwards.
Updated(s, severity) ==
    LET n == Counted(s)
        At(level, circuit) == [n EXCEPT !.level = level, !.circuit = circuit]
    IN  IF severity = "critical"     THEN [At("critical", "daily_drop") EXCEPT !.crit = 0]
        ELSE IF n.daily >= Critical  THEN At("critical", "override_count")
        ELSE IF n.daily >= Elevated  THEN At("elevated", "none")
        ELSE IF n.crit = Never       THEN At("normal", "none")
        ELSE IF n.crit > Cooldown    THEN At("elevated", "none")
        ELSE n

\* record_override up to its first await.
Record(c, severity) ==
    /\ call[c].pc = "idle" /\ issued < MaxOverrides
    /\ issued' = issued + 1
    /\ LET quiet == \A d \in Recorders : call[d].pc = "idle"
       IN  call' = [d \in Recorders |->
               IF d = c THEN [Idle EXCEPT !.pc = "append", !.id = issued + 1, !.severity = severity,
                                          !.events = history,
                                          !.solo = quiet /\ \A h \in Healers : heal[h].pc = "idle"]
               ELSE [call[d] EXCEPT !.solo = FALSE]]
    /\ UNCHANGED <<saved, history, heal, alone, crisis>>

Appended(events, id) ==
    LET longer == Append(events, id) IN
    IF Len(longer) > MaxHistory THEN SubSeq(longer, Len(longer) - MaxHistory + 1, Len(longer)) ELSE longer

\* _append_override writes the history back.
SaveHistory(c) ==
    /\ call[c].pc = "append"
    /\ history' = Appended(call[c].events, call[c].id)
    /\ call' = [call EXCEPT ![c].pc = "update", ![c].events = NoHistory]
    /\ UNCHANGED <<saved, heal, issued, alone, crisis>>

LoadState(c) ==
    /\ call[c].pc = "update"
    /\ call' = [call EXCEPT ![c].pc = "save", ![c].state = Updated(saved, call[c].severity)]
    /\ UNCHANGED <<saved, history, heal, issued, alone, crisis>>

\* Nobody else holds a copy of the state that it has yet to save.
Unraced(c) == /\ \A d \in Recorders \ {c} : call[d].pc # "save"
              /\ \A h \in Healers : heal[h].pc # "save"

SaveState(c) ==
    /\ call[c].pc = "save"
    /\ saved' = call[c].state
    /\ crisis' = IF call[c].severity = "critical" /\ Unraced(c) THEN call[c].state.crit ELSE crisis
    /\ alone' = IF call[c].solo THEN alone \cup {call[c].id} ELSE alone
    /\ call' = [call EXCEPT ![c] = Idle]
    /\ UNCHANGED <<history, heal, issued>>

\* Redis fails in any of these steps: the agent swallows the error.
RecordFails(c) ==
    /\ call[c].pc # "idle"
    /\ call' = [call EXCEPT ![c] = Idle]
    /\ UNCHANGED <<saved, history, heal, issued, alone, crisis>>

----------------------------------------------------------------------------
(* Healing *)

\* fault: the counter is healed, the level is not
FaultyHealed(s) == [s EXCEPT !.daily = 0, !.circuit = "none"]

Healed(s) == [s EXCEPT !.daily = 0, !.level = "normal", !.circuit = "none"]

\* fault: the level heals after the cooldown
FaultyMayHeal(s) == s.last \in (Cooldown + 1)..Old

MayHeal(s) == s.last = Old

\* get_risk_state and clear_daily_counters up to the save in _auto_heal.  Without it nothing
\* is saved: clear_daily_counters then clears the counter of its copy of the state only.
LoadToHeal(h) ==
    /\ heal[h].pc = "idle" /\ MayHeal(saved)
    /\ heal' = [heal EXCEPT ![h] = [pc |-> "save", state |-> Healed(saved)]]
    /\ call' = [c \in Recorders |-> [call[c] EXCEPT !.solo = FALSE]]
    /\ UNCHANGED <<saved, history, issued, alone, crisis>>

SaveHealed(h) ==
    /\ heal[h].pc = "save"
    /\ saved' = heal[h].state
    /\ heal' = [heal EXCEPT ![h] = Rest]
    /\ UNCHANGED <<history, call, issued, alone, crisis>>

HealFails(h) ==
    /\ heal[h].pc = "save"
    /\ heal' = [heal EXCEPT ![h] = Rest]
    /\ UNCHANGED <<saved, history, call, issued, alone, crisis>>

Older(age) == IF age < Old THEN age + 1 ELSE age
Aged(s) == [s EXCEPT !.last = Older(@), !.crit = Older(@)]

Tick == /\ saved' = Aged(saved)
        /\ call' = [c \in Recorders |-> [call[c] EXCEPT !.state = Aged(@)]]
        /\ heal' = [h \in Healers |-> [heal[h] EXCEPT !.state = Aged(@)]]
        /\ crisis' = Older(crisis)
        /\ UNCHANGED <<history, issued, alone>>

Next == \/ \E c \in Recorders : \/ \E severity \in Severities : Record(c, severity)
                                \/ SaveHistory(c) \/ LoadState(c) \/ SaveState(c) \/ RecordFails(c)
        \/ \E h \in Healers : LoadToHeal(h) \/ SaveHealed(h) \/ HealFails(h)
        \/ Tick

\* The hourly loop goes on for ever, and Redis is not down whenever it saves.
Fairness == /\ WF_vars(Tick)
            /\ \E h \in Healers : WF_vars(LoadToHeal(h)) /\ SF_vars(SaveHealed(h))

Spec == Init /\ [][Next]_vars /\ Fairness

----------------------------------------------------------------------------
(* Properties *)

TypeOK == /\ saved \in RiskState /\ issued \in 0..MaxOverrides /\ crisis \in 0..Never
          /\ history \in Seq(1..MaxOverrides) /\ Len(history) <= MaxHistory
          /\ \A c \in Recorders : call[c].state \in RiskState /\ call[c].pc \in {"idle", "append", "update", "save"}
          /\ \A h \in Healers : heal[h].state \in RiskState /\ heal[h].pc \in {"idle", "save"}

\* A critical override whose save nobody raced with is heeded for a day, whatever is recorded,
\* healed or saved from older copies afterwards: the level is not normal.  Until the cooldown is
\* over it stays critical, unless so many overrides are counted that the count gives the level.
\* A save that somebody raced with can be lost to a copy loaded before it, level and all.
CriticalIsHeeded ==
    /\ crisis <= Day => saved.level # "normal"
    /\ crisis <= Cooldown => saved.level = "critical" \/ saved.daily >= Elevated

\* A level above normal has its reason on record: positions are cut only while it stands.
LevelsAreExplained ==
    /\ saved.level = "elevated" => saved.circuit = "none" /\ (saved.daily >= Elevated \/ saved.crit # Never)
    /\ saved.level = "critical" => \/ saved.circuit = "daily_drop" /\ saved.crit # Never
                                   \/ saved.circuit = "override_count" /\ saved.daily >= Critical

\* What is lost is lost in races: an override that was recorded while nobody else wrote is
\* counted, and in the history until enough newer ones have displaced it.
LossesAreRaces ==
    /\ saved.total >= Cardinality(alone)
    /\ \A id \in alone : id \in ToSet(history)
                         \/ Cardinality({n \in ToSet(history) : n > id}) = MaxHistory

\* A day without overrides brings the level back to normal, though saves may fail.
HealsInTime == (saved.last = Old) ~> (saved.level = "normal" \/ saved.last < Old)
=============================================================================
