----------------------------- MODULE Background -----------------------------
(***************************************************************************)
(* The tasks that go on beside the requests and must get somewhere: the    *)
(* custody loop of the Go program; and of the Python service the healing   *)
(* of the risk level, the heartbeats of the agents and the preloading of   *)
(* K-lines.  They share no state that the modules follow, so they stand    *)
(* side by side and not in all their interleavings: part says which one    *)
(* moves, and the others stay as they started.                             *)
(***************************************************************************)
EXTENDS Integers

CONSTANTS Recorders, Healers, Elevated, Critical, Cooldown, RiskDay, MaxHistory, MaxOverrides, \* RiskManager
          Agents, Watchers, Beaters, Expiry, Round, Threshold,                  \* Heartbeats
          Hot, Warm, Fetches, Slots, WarmSlots, ProviderTTL, AnalyzeTTL, PrefetchTTL, \* Klines
          Codes, Loop, Admins, Inputs, Signals, Instants, Manual, Window, GatewayStatuses,
          AllowLiveCustody, MaxOrders, MaxManual                                \* Custody

VARIABLES part,
          saved, history, call, heal, issued, alone, crisis,      \* RiskManager
          tasks, started, key, beatDue, checkIn, missed, told,    \* Heartbeats
          redis, known, fetching, queue, phase, tried,            \* Klines
          live, custody, book, file, lock, run, update, tick      \* Custody

Risk   == INSTANCE RiskManager WITH Day <- RiskDay
Hearts == INSTANCE Heartbeats
Data   == INSTANCE Klines WITH Tasks <- Fetches, task <- fetching
Loops  == INSTANCE Custody WITH Symbols <- Codes

ASSUME ConstantsAreSound == /\ Risk!RiskAssumption /\ Hearts!HeartbeatsAssumption
                            /\ Data!KlinesAssumption /\ Loops!CustodyAssumption

riskVars   == <<saved, history, call, heal, issued, alone, crisis>>
heartsVars == <<tasks, started, key, beatDue, checkIn, missed, told>>
dataVars   == <<redis, known, fetching, queue, phase, tried>>
loopVars   == <<live, custody, book, file, lock, run, update, tick>>
vars       == <<part, riskVars, heartsVars, dataVars, loopVars>>

Init == /\ part \in {"risk", "hearts", "data", "loops"}
        /\ Risk!Init /\ Hearts!Init /\ Data!Init /\ Loops!Init
        /\ live => part = "loops"  \* which broker there is makes no difference to the others

InRisk(A)   == part = "risk"   /\ A /\ UNCHANGED <<part, heartsVars, dataVars, loopVars>>
InHearts(A) == part = "hearts" /\ A /\ UNCHANGED <<part, riskVars, dataVars, loopVars>>
InData(A)   == part = "data"   /\ A /\ UNCHANGED <<part, riskVars, heartsVars, loopVars>>
InLoops(A)  == part = "loops"  /\ A /\ UNCHANGED <<part, riskVars, heartsVars, dataVars>>

Next == \/ InRisk(Risk!Next)
        \/ InHearts(Hearts!Next)
        \/ InData(Data!Next)
        \/ InLoops(Loops!Next)

\* The fairness of each part while it is the one that moves.
Fairness ==
    /\ WF_vars(InRisk(Risk!Tick))
    /\ \A h \in Healers : /\ WF_vars(InRisk(Risk!LoadToHeal(h)))
                          /\ SF_vars(InRisk(Risk!SaveHealed(h)))
    /\ WF_vars(InHearts(Hearts!Tick))
    /\ \A a \in Watchers : WF_vars(InHearts(Hearts!Check(a)))
    /\ SF_vars(InData(Data!Startup))
    /\ \A t \in Fetches : SF_vars(InData(Data!Ask(t) \/ Data!Ends(t)))
    /\ \A r \in Loops!Runners : SF_vars(InLoops(Loops!Step(r)))

Spec == Init /\ [][Next]_vars /\ Fairness

----------------------------------------------------------------------------
(* The properties of the parts *)

\* The type invariants of the modules; RiskManager's is in Services.
TypeOK == Hearts!TypeOK /\ Data!TypeOK /\ Loops!TypeOK

\* A day without overrides heals the level.
HealsInTime == part = "risk" => Risk!HealsInTime
\* What a watcher has said of another agent comes to be true.
ReportsConverge == part = "hearts" => Hearts!ReportsConverge
\* Cached K-lines are as the abstract cache promises, whichever layer filled it.
KlinesAreBounded == Data!KlinesAreBounded
\* The preloading gets round to every stock, whatever fails on the way.
EveryStockIsTried == part = "data" => Data!EveryStockIsTried
\* A run of custody never undoes a change of the settings.
RunsKeepSettings == Loops!RunsKeepSettings
\* Every run of custody ends and gives back the mutex.
EveryRunEnds == Loops!EveryRunEnds
=============================================================================
