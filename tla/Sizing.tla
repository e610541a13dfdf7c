------------------------------- MODULE Sizing -------------------------------
(***************************************************************************)
(* The size of a position that is suggested (core/position_sizing.py,      *)
(* core/risk_manager.py): a share of the capital by the Kelly formula or   *)
(* in equal parts, cut by the level of risk and then to whole lots.        *)
(*                                                                         *)
(* Shares of the capital are in 1/10000, to which the code rounds them.    *)
(* Division rounds down where the code rounds to the nearest.              *)
(***************************************************************************)
EXTENDS Integers

CONSTANTS Capitals, Prices,
          Probabilities, \* of a win, in 1/10000
          Returns        \* average win and average loss that occur, above 0

Unit == 10000 \* all of the capital, and certainty

SizingAssumption == /\ {Capitals, Prices, Returns} \subseteq SUBSET (Nat \ {0})
                    /\ Probabilities \subseteq 0..Unit

VARIABLES level, asked, suggested

vars == <<level, asked, suggested>>

Levels == {"normal", "elevated", "critical"}
\* The statistics of a Kelly suggestion may be missing.
Questions == [method : {"kelly", "equal", "parity", "other"}, capital : Capitals, price : Prices,
              probability : Probabilities, win : Returns, loss : Returns, known : BOOLEAN]

Nothing == [pct |-> 0, shares |-> 0]

Init == level \in Levels /\ asked \in Questions /\ suggested = Nothing

Lot    == 100
MaxPct == Unit \div 4 \* no position is above a quarter of the capital

AtMost(n, limit) == IF n > limit THEN limit ELSE n

\* p - (1 - p) / b, with b = win / loss
Edge(q) == q.probability - ((Unit - q.probability) * q.loss) \div q.win

\* kelly_criterion with half of the Kelly fraction
Kelly(q) == IF q.probability = 0 \/ Edge(q) <= 0 THEN 0 ELSE AtMost(Edge(q) \div 2, MaxPct)

\* equal_weight: the API never says how many stocks there are, and takes 5.
EqualWeight == AtMost(Unit \div 5, MaxPct)

\* _risk_multiplier
RiskDivisor(l) == CASE l = "normal" -> 1 [] l = "elevated" -> 2 [] l = "critical" -> 4

\* get_position_suggestion.  A suggestion needs its statistics; those of a risk parity cannot
\* be given through the API.
Suggestion(q, l) ==
    LET pct == CASE q.method = "kelly" -> Kelly(q)
                 [] q.method = "equal" -> EqualWeight
                 [] OTHER              -> Unit \div 10
        cut == AtMost(pct \div RiskDivisor(l), MaxPct)
    IN  IF q.method = "parity" \/ (q.method = "kelly" /\ ~q.known) THEN Nothing
        ELSE [pct |-> cut, shares |-> ((q.capital * cut) \div (Unit * q.price * Lot)) * Lot]

Suggest == suggested' = Suggestion(asked, level) /\ UNCHANGED <<level, asked>>

Next == Suggest

Spec == Init /\ [][Next]_vars

----------------------------------------------------------------------------
(* Properties *)

TypeOK == level \in Levels /\ asked \in Questions /\ suggested.pct \in 0..MaxPct /\ suggested.shares \in Nat

\* A suggestion never costs more than its share of the capital, is of whole lots, is for
\* nothing when the expected return is not positive, and is no larger at a higher risk.
SuggestionsAreCautious ==
    /\ suggested.shares * asked.price * Unit <= asked.capital * suggested.pct
    /\ suggested.shares % Lot = 0
    /\ suggested.shares > 0 /\ asked.method = "kelly" =>
           asked.known /\ asked.probability * asked.win > (Unit - asked.probability) * asked.loss
    /\ suggested # Nothing =>
           /\ level = "critical" => suggested.shares <= Suggestion(asked, "elevated").shares
           /\ level = "elevated" => suggested.shares <= Suggestion(asked, "normal").shares
=============================================================================
