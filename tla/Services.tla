------------------------------ MODULE Services ------------------------------
(***************************************************************************)
(* What the Python service does on requests and messages: overrides and    *)
(* judgements of risk, the chain of models behind their breakers, market   *)
(* scans, paper accounts, backtests and the health of strategies, replays, *)
(* rate limits and position sizes, what is read from K-lines, decisions,   *)
(* reports, rounds of macro data and the list of watched stocks.  These    *)
(* share no state that the modules follow, so they stand side by side and  *)
(* not in all their interleavings: part says which one moves, and the      *)
(* others stay as they started.                                            *)
(***************************************************************************)
EXTENDS Integers

CONSTANTS Recorders, Healers, Elevated, Critical, Cooldown, Day, MaxHistory, MaxOverrides, \* RiskManager
          Judges, MaxReports,                                         \* RiskAgent
          Callers, Providers, Advice, Threshold, Recovery, Trials,    \* LLMChain
          Scans, ListTTL, RedisTTL,                                   \* Scanner
          Shares, SharePrices, Cash, KeptOrders, MaxOrders,           \* PaperAccounts
          TestPrices, InitialCapital, MinTrades, TestBars, Combinations, Windows, \* Backtest
          Evaluators, MaxEvaluations,                                 \* Strategies
          Replays, Replayed, ReplayBars,                              \* Replay
          DefaultRpm, HeavyRpm, Minute,                               \* RateLimits
          Capitals, LotPrices, Returns, Probabilities,                \* Sizing
          Values, Readings, Moves, Changes,                           \* Decisions
          Closes, Volumes, Quiet, Before, SignBars,                   \* Detectors
          Stocks, Handlers, ReportTTL, MaxUpdates,                    \* Reports
          ShortTTL, LongTTL, Interval, MaxRound,                      \* Macro
          Watchable, Editors, MaxAdds                                 \* Watchlist

VARIABLES part,
          saved, history, call, heal, issued, alone, crisis,          \* RiskManager
          latest, judging, arrived, flagged,                          \* RiskAgent
          breakers, asking, tentative,                                \* LLMChain
          list, stored, scan, answer,                                 \* Scanner
          account, file, followed, whole,                             \* PaperAccounts
          strategy, mode, runner, bars, round, flat, outcome, since,  \* Backtest
          strategy_losses, evaluation, evaluations, streak, raced,    \* Strategies
          running, replay, progress, shared, stopped,                 \* Replay
          bucket, passed,                                             \* RateLimits
          level, asked, suggested,                                    \* Sizing
          request, severity, decision,                                \* Decisions
          klines, days, quoted,                                       \* Detectors
          raw, provider, events, handler, reported, cached, muddled,  \* Reports
          macro, collecting, report, strained,                        \* Macro
          rows, calls, known, names, adds, promised, mingled          \* Watchlist

Risk     == INSTANCE RiskManager
Agent    == INSTANCE RiskAgent WITH Tasks <- Judges, task <- judging
Chain    == INSTANCE LLMChain WITH Actions <- Advice, task <- asking, trial <- tentative
Lists    == INSTANCE Scanner
Accounts == INSTANCE PaperAccounts WITH Symbols <- Shares, Prices <- SharePrices, InitialCapital <- Cash
Test     == INSTANCE Backtest WITH Prices <- TestPrices, MaxBars <- TestBars, trial <- round
Strat    == INSTANCE Strategies
Play     == INSTANCE Replay WITH Requests <- Replays, Stocks <- Replayed, MaxBars <- ReplayBars
Limits   == INSTANCE RateLimits
Size     == INSTANCE Sizing WITH Prices <- LotPrices
Verdicts == INSTANCE Decisions WITH Signals <- Readings
Signs    == INSTANCE Detectors WITH MaxBars <- SignBars
Told     == INSTANCE Reports WITH Tasks <- Handlers, klines <- raw, task <- handler, latest <- reported
Rounds   == INSTANCE Macro WITH entry <- macro, round <- collecting
Watched  == INSTANCE Watchlist WITH Symbols <- Watchable, Requests <- Editors, request <- calls, stored <- names

ASSUME ConstantsAreSound ==
    /\ Risk!RiskAssumption /\ Agent!RiskAgentAssumption /\ Chain!BreakerAssumption
    /\ Chain!ChainAssumption /\ Lists!ScannerAssumption /\ Accounts!AccountsAssumption
    /\ Test!BacktestAssumption /\ Strat!StrategiesAssumption
    /\ Play!ReplayAssumption /\ Limits!RateLimitsAssumption /\ Size!SizingAssumption
    /\ Verdicts!DecisionsAssumption /\ Signs!DetectorsAssumption /\ Told!ReportsAssumption
    /\ Rounds!MacroAssumption /\ Watched!WatchlistAssumption

riskVars     == <<saved, history, call, heal, issued, alone, crisis>>
agentVars    == <<latest, judging, arrived, flagged>>
chainVars    == <<breakers, asking, tentative>>
listsVars    == <<list, stored, scan, answer>>
accountsVars == <<account, file, followed, whole>>
testVars     == <<strategy, mode, runner, bars, round, flat, outcome, since>>
stratVars    == <<strategy_losses, evaluation, evaluations, streak, raced>>
playVars     == <<running, replay, progress, shared, stopped>>
limitsVars   == <<bucket, passed>>
sizeVars     == <<level, asked, suggested>>
verdictsVars == <<request, severity, decision>>
signsVars    == <<klines, days, quoted>>
toldVars     == <<raw, provider, events, handler, reported, cached, muddled>>
roundsVars   == <<macro, collecting, report, strained>>
watchedVars  == <<rows, calls, known, names, adds, promised, mingled>>
vars == <<part, riskVars, agentVars, chainVars, listsVars, accountsVars, testVars, stratVars,
          playVars, limitsVars, sizeVars, verdictsVars, signsVars, toldVars, roundsVars, watchedVars>>

\* What the parts that do not move have for a request and a question.
Nobody      == [path |-> "agents", reports |-> {}, factors |-> Verdicts!NoFactors, signals |-> {},
                moves |-> {}, change |-> 0, cached |-> TRUE]
AnyQuestion == CHOOSE q \in Size!Questions : TRUE

\* Where there is a choice of initial states it is left to the part it belongs to.
Init ==
    /\ part \in {"risk", "agent", "chain", "lists", "accounts", "test", "strat", "play",
                "limits", "size", "verdicts", "signs", "told", "rounds", "watched"}
    /\ Risk!Init /\ Agent!Init /\ Chain!Init /\ Lists!Init /\ Accounts!Init
    /\ Strat!Init /\ Play!Init /\ Limits!Init /\ Told!Init /\ Rounds!Init /\ Watched!Init
    /\ Test!Init /\ (part = "test" \/ <<strategy, mode>> = <<"risk", "plain">>)
    /\ IF part = "size" THEN Size!Init ELSE level = "normal" /\ asked = AnyQuestion /\ suggested = Size!Nothing
    /\ IF part = "verdicts" THEN Verdicts!Init
       ELSE request = Nobody /\ severity = "unknown" /\ decision = Verdicts!Pending
    /\ IF part = "signs" THEN Signs!Init ELSE klines = Signs!Flat(1, 0) /\ days = 0 /\ quoted = FALSE

\* Only the variables of one part change.
Others ==
    /\ UNCHANGED part
    /\ IF part = "risk" THEN TRUE ELSE UNCHANGED riskVars
    /\ IF part = "agent" THEN TRUE ELSE UNCHANGED agentVars
    /\ IF part = "chain" THEN TRUE ELSE UNCHANGED chainVars
    /\ IF part = "lists" THEN TRUE ELSE UNCHANGED listsVars
    /\ IF part = "accounts" THEN TRUE ELSE UNCHANGED accountsVars
    /\ IF part = "test" THEN TRUE ELSE UNCHANGED testVars
    /\ IF part = "strat" THEN TRUE ELSE UNCHANGED stratVars
    /\ IF part = "play" THEN TRUE ELSE UNCHANGED playVars
    /\ IF part = "limits" THEN TRUE ELSE UNCHANGED limitsVars
    /\ IF part = "size" THEN TRUE ELSE UNCHANGED sizeVars
    /\ IF part = "verdicts" THEN TRUE ELSE UNCHANGED verdictsVars
    /\ IF part = "signs" THEN TRUE ELSE UNCHANGED signsVars
    /\ IF part = "told" THEN TRUE ELSE UNCHANGED toldVars
    /\ IF part = "rounds" THEN TRUE ELSE UNCHANGED roundsVars
    /\ IF part = "watched" THEN TRUE ELSE UNCHANGED watchedVars

InRisk     == part = "risk" /\ Risk!Next /\ Others
InAgent    == part = "agent" /\ Agent!Next /\ Others
InChain    == part = "chain" /\ Chain!Next /\ Others
InLists    == part = "lists" /\ Lists!Next /\ Others
InAccounts == part = "accounts" /\ Accounts!Next /\ Others
InTest     == part = "test" /\ Test!Next /\ Others
InStrat    == part = "strat" /\ Strat!Next /\ Others
InPlay     == part = "play" /\ Play!Next /\ Others
InLimits   == part = "limits" /\ Limits!Next /\ Others
InSize     == part = "size" /\ Size!Next /\ Others
InVerdicts == part = "verdicts" /\ Verdicts!Next /\ Others
InSigns    == part = "signs" /\ Signs!Next /\ Others
InTold     == part = "told" /\ Told!Next /\ Others
InRounds   == part = "rounds" /\ Rounds!Next /\ Others
InWatched  == part = "watched" /\ Watched!Next /\ Others

Next == InRisk \/ InAgent \/ InChain \/ InLists \/ InAccounts \/ InTest \/ InStrat \/ InPlay
        \/ InLimits \/ InSize \/ InVerdicts \/ InSigns \/ InTold \/ InRounds \/ InWatched

Spec == Init /\ [][Next]_vars

----------------------------------------------------------------------------
(* The properties of the parts *)

\* It is enough to look at the part that moves.
Of(name, P) == part = name => P

\* The type invariants of the modules.
TypeOK == /\ Of("risk", Risk!TypeOK) /\ Of("agent", Agent!TypeOK) /\ Of("chain", Chain!TypeOK)
          /\ Of("lists", Lists!TypeOK) /\ Of("accounts", Accounts!TypeOK) /\ Of("test", Test!TypeOK)
          /\ Of("strat", Strat!TypeOK) /\ Of("play", Play!TypeOK) /\ Of("limits", Limits!TypeOK)
          /\ Of("size", Size!TypeOK) /\ Of("verdicts", Verdicts!TypeOK) /\ Of("signs", Signs!TypeOK)
          /\ Of("told", Told!TypeOK) /\ Of("rounds", Rounds!TypeOK) /\ Of("watched", Watched!TypeOK)

\* A critical override that was saved without a race keeps the level up for a day, whatever is
\* saved after it, and a level above normal has its reasons on record.
LevelsAreEarned == Of("risk", Risk!CriticalIsHeeded /\ Risk!LevelsAreExplained)
\* Contradictory reports never stand without an override.
ConflictsAreFlagged == Of("agent", Agent!ConflictsAreFlagged)
\* A breaker that is half open lets few requests through and does not stay so for good.
BreakersRecover == Of("chain", Chain!TrialsAreFew /\ Chain!NeverStuck /\ Chain!OpensInTime)
\* The list of stocks is as the abstract cache promises, whichever layer filled it.
ListIsBounded == Lists!ListIsBounded
\* Orders and trades account for the money, in the paper account and in a backtest.
BooksBalance == Of("accounts", Accounts!BooksBalance) /\ Of("test", Test!BooksClose)
\* No position is larger than the rules allow, or is held below its stop.
PositionsAreSound == Of("test", Test!PositionsAreSound) /\ Of("size", Size!SuggestionsAreCautious)
\* What nothing else ran beside is complete: overrides are counted, evaluations and replays
\* go to the end, reports are of the K-lines that are there, and a stock that was added stays
\* in the list.
LoneCallsAreComplete ==
    /\ Of("risk", Risk!LossesAreRaces)
    /\ Of("strat", Strat!SeriesAreCounted)
    /\ Of("play", Play!LoneReplaysAreComplete)
    /\ Of("told", Told!LoneReportsAreCurrent)
    /\ Of("watched", Watched!LoneAddsStay /\ Watched!NamesAreRight)
\* Decisions follow from what they are said to rest on: the index is there between rounds
\* and is not diluted, what is read from K-lines does not contradict itself, risk is heeded,
\* and the rules want two reports to agree.
DecisionsAreGrounded ==
    /\ Of("rounds", Rounds!MacroIsBridged)
    /\ Of("signs", Signs!CopiesAgree /\ Signs!HitsAreCoherent /\ Signs!BullsNeedARise)
    /\ Of("verdicts", Verdicts!RulesNeedAgreement /\ Verdicts!IndexIsUndiluted /\ Verdicts!RiskIsHeeded)
\* No more requests pass than a full bucket and what is refilled.
PassesAreBounded == Of("limits", Limits!PassesAreBounded)
=============================================================================
