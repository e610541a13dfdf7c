----------------------------- MODULE Decisions -----------------------------
(***************************************************************************)
(* What a decision is made of: the index of the market's appetite for risk *)
(* (agents/macro_agent.py), the check of risk (core/chief_decision.py) and *)
(* the rules that decide when no model answers (core/llm_factory.py).  The *)
(* agents decide on an override of the risk agent, the API on a check of   *)
(* its own (services/analyzer.py).                                         *)
(*                                                                         *)
(* Strengths of signals are in 1/10, the index and confidences in 1/100,   *)
(* scores in fractions whose denominators are kept.                        *)
(***************************************************************************)
EXTENDS Sums, FiniteSets

CONSTANTS Values,  \* of a factor of the index, in 1/10
          Signals, \* that a signal report may hold: strategies and detectors
          Moves,   \* that a trace report may hold
          Changes  \* of the price in a day, in percent

Signal == [type : {"divergence", "other"}, direction : {"bullish", "bearish"}, strength : 1..10]
DecisionsAssumption == Values \subseteq 0..10 /\ Signals \cup Moves \subseteq Signal /\ Changes \subseteq Int

VARIABLES request,  \* who asks, and on which reports
          severity, \* of the risk
          decision

vars == <<request, severity, decision>>

Factors == {"breadth", "sector", "position"}
Agents  == {"macro", "signal", "trace"}
Actions == {"BUY", "SELL", "HOLD", "WAIT"}
Pending == [by |-> "nobody", action |-> "HOLD", confidence |-> 0]

\* The agents may decide without some of the reports, after an override; the API makes all
\* three itself, without the index: it looks for it where nobody writes it.
NoFactors == [f \in {} |-> 0]
Of(agent, reports, sets) == IF agent \in reports THEN SUBSET sets ELSE {{}}
Requests ==
    (UNION {[path : {"agents"}, reports : {reports},
             factors : IF "macro" \in reports THEN UNION {[F -> Values] : F \in SUBSET Factors} ELSE {NoFactors},
             signals : Of("signal", reports, Signals), moves : Of("trace", reports, Moves),
             change : {0}, cached : {TRUE}] : reports \in SUBSET Agents})
    \cup
    [path : {"api"}, reports : {Agents}, factors : {NoFactors},
     signals : SUBSET Signals, moves : SUBSET Moves, change : Changes, cached : BOOLEAN]

Init == request \in Requests /\ severity = "unknown" /\ decision = Pending

\* _compute_rai_score: weights in 1/10 of the factors that are there
Weights(there) ==
    CASE there = Factors                 -> [f \in there |-> IF f = "breadth" THEN 4 ELSE 3]
      [] there = {"sector", "position"}  -> [f \in there |-> 5]
      [] there \in {{f} : f \in Factors} -> [f \in there |-> 10]
      [] OTHER                           -> [f \in there |-> IF f = "breadth" THEN 6 ELSE 4]

\* What a factor adds to the index.
Share(factors, f) == IF f \in DOMAIN factors THEN Weights(DOMAIN factors)[f] * factors[f] ELSE 0

Missing == -1
Index(r) ==
    CASE r.path = "api" \/ "macro" \notin r.reports -> Missing
      [] OTHER -> IF DOMAIN r.factors = {} THEN 50
                  ELSE Share(r.factors, "breadth") + Share(r.factors, "sector") + Share(r.factors, "position")

\* The sum of the strengths, which are counted.
Strength(signals, direction) ==
    Total([n \in 1..10 |-> n * Cardinality({s \in signals : s.direction = direction /\ s.strength = n})], 10)

\* evaluate_risk_sync
Direction(r) == IF r.change > 0 THEN "bullish" ELSE IF r.change < 0 THEN "bearish" ELSE "neutral"
Risk(r) ==
    CASE r.change <= -7 -> "critical"
      [] \E s \in r.signals : s.type = "divergence" /\ s.strength >= 5 -> "critical"
      [] Index(r) # Missing /\ Index(r) < 35 /\ Direction(r) = "bullish" -> "warning"
      [] Index(r) # Missing /\ Index(r) > 65 /\ Direction(r) = "bearish" -> "warning"
      [] OTHER -> "none"

Assess ==
    /\ severity = "unknown"
    /\ severity' \in IF request.path = "api" THEN {Risk(request)} ELSE {"none", "warning", "critical"}
    /\ UNCHANGED <<request, decision>>

\* The balance of signals is a fraction of balance and mass.
Balance(signals) == Strength(signals, "bullish") - Strength(signals, "bearish")
Larger(m, n)     == IF m > n THEN m ELSE n
Mass(signals)    == Larger(10, Strength(signals, "bullish") + Strength(signals, "bearish"))

\* RuleBasedAnalyzer.analyze: index and signals count 0.25 each, the trace 0.3.  A report of
\* risk, which would count as well, is never among the reports.  The score is a fraction of
\* score and whole.
Whole(r) == 200 * Mass(r.signals) * Mass(r.moves)
Tilt(r)  == IF Index(r) = Missing THEN 0 ELSE Index(r) - 50
Score(r) == Tilt(r) * Mass(r.signals) * Mass(r.moves)
            + 50 * Balance(r.signals) * Mass(r.moves) + 60 * Balance(r.moves) * Mass(r.signals)

AbsOf(n) == IF n < 0 THEN -n ELSE n

\* fault: a score at the threshold is enough
FaultyRule(r) ==
    CASE 10 * Score(r) >= 3 * Whole(r)     -> "BUY"
      [] 10 * Score(r) <= -3 * Whole(r)    -> "SELL"
      [] 10 * AbsOf(Score(r)) < Whole(r) -> "WAIT"
      [] OTHER                           -> "HOLD"

Rule(r) ==
    CASE 10 * Score(r) > 3 * Whole(r)      -> "BUY"
      [] 10 * Score(r) < -3 * Whole(r)     -> "SELL"
      [] 10 * AbsOf(Score(r)) < Whole(r) -> "WAIT"
      [] OTHER                           -> "HOLD"

\* What the chain may answer: a model's opinion, or what the rules say; and what stands for
\* it when there is no chain.
Opinions(r) ==
    [by : {"model"}, action : Actions, confidence : {50, 100}]
    \cup {[by |-> "rules", action |-> Rule(r), confidence |-> (100 * AbsOf(Score(r))) \div Whole(r)],
          [by |-> "dummy", action |-> "HOLD", confidence |-> 30]}

\* build_chief_decision: a warning lowers the confidence of what is there of a chain.
Lowered(opinion) == IF opinion.by = "dummy" THEN opinion
                    ELSE [opinion EXCEPT !.confidence = (3 * @) \div 10]

\* The API has no decision when the signal agent has left no signals in the cache: the
\* confidence it then computes with is None, and the error is only logged.
Decide ==
    /\ severity # "unknown" /\ decision = Pending
    /\ request.cached
    /\ IF severity = "critical"
       THEN decision' = [by |-> "veto", action |-> "WAIT", confidence |-> 0]
       ELSE \E opinion \in Opinions(request) :
                decision' = IF severity = "warning" THEN Lowered(opinion) ELSE opinion
    /\ UNCHANGED <<request, severity>>

Next == Assess \/ Decide

Spec == Init /\ [][Next]_vars

----------------------------------------------------------------------------
(* Properties *)

TypeOK == /\ request \in Requests
          /\ severity \in {"unknown", "none", "warning", "critical"}
          /\ decision.action \in Actions /\ decision.confidence \in 0..100

\* The rules never buy or sell on the word of one agent, however strong: two of the three
\* reports lean that way.  Turned round, the reports lead to the opposite.
Opposite(direction) == IF direction = "bullish" THEN "bearish" ELSE "bullish"
Turned(signals) == {[s EXCEPT !.direction = Opposite(s.direction)] : s \in signals}
Mirror(r) == [r EXCEPT !.factors = [f \in DOMAIN r.factors |-> 10 - r.factors[f]],
                       !.signals = Turned(r.signals), !.moves = Turned(r.moves)]
Leaning(r) == {a \in Agents : CASE a = "macro"  -> Tilt(r) > 0
                                [] a = "signal" -> Balance(r.signals) > 0
                                [] a = "trace"  -> Balance(r.moves) > 0}
RulesNeedAgreement ==
    decision.by = "rules" =>
        /\ decision.action = "BUY" => Cardinality(Leaning(request)) >= 2
        /\ decision.action = "SELL" => Cardinality(Leaning(Mirror(request))) >= 2
        /\ (Rule(Mirror(request)) = "SELL") = (decision.action = "BUY")
        /\ (Rule(Mirror(request)) = "BUY") = (decision.action = "SELL")

\* A factor that is missing does not dilute the index: it lies between those that are there.
IndexIsUndiluted ==
    Index(request) # Missing /\ DOMAIN request.factors # {} =>
        /\ \E f \in DOMAIN request.factors : 10 * request.factors[f] <= Index(request)
        /\ \E f \in DOMAIN request.factors : 10 * request.factors[f] >= Index(request)

\* Critical risk never leads to a trade, and a decision under a warning is not confident.
RiskIsHeeded ==
    decision # Pending =>
        /\ severity = "critical" => decision.action = "WAIT" /\ decision.confidence = 0
        /\ severity = "warning" => decision.confidence <= 40
        /\ request.path = "api" /\ request.change <= -7 => decision.by = "veto"
=============================================================================
