----------------------------- MODULE Detectors -----------------------------
(***************************************************************************)
(* What is read from the K-lines of a stock: the anomalies the trace agent *)
(* looks for (agents/trace_agent.py), the copy of two of them in the       *)
(* analysis of the API (services/analyzer.py), and the checks of the       *)
(* strategies (core/strategies.py).  Each compares the last bar with means *)
(* and extremes of its own stretch of the bars before.                     *)
(***************************************************************************)
EXTENDS Sums, FiniteSetsExt, Sequences

CONSTANTS Closes, Volumes, \* of a bar
          Quiet,           \* how many bars without a change come first
          Before,          \* the close of those
          MaxBars          \* bound of the model: bars that follow

DetectorsAssumption == /\ Closes \cup {Before} \subseteq Nat \ {0} /\ Volumes \subseteq Nat
                       /\ Quiet \subseteq Nat \ {0} /\ MaxBars \in Nat

VARIABLES klines, \* the bars, the last day's at the end
          days,   \* history: bars that followed the quiet ones
          quoted  \* whether the last bar has the live price

vars == <<klines, days, quoted>>

Flat(n, volume) == [i \in 1..n |-> [close |-> Before, high |-> Before, low |-> Before, volume |-> volume]]

Init == /\ \E n \in Quiet, v \in Volumes \cup {0} : klines = Flat(n, v)
        /\ days = 0 /\ quoted = FALSE

\* _standardize_kline: a day more
Bar(close, volume) ==
    /\ days < MaxBars /\ ~quoted
    /\ days' = days + 1
    /\ klines' = Append(klines, [close |-> close, high |-> close, low |-> close, volume |-> volume])
    /\ UNCHANGED quoted

\* _apply_tencent_quote: the live price takes the place of the last close.
Quoted(bar, price) == [bar EXCEPT !.close = price, !.high = Max({@, price}), !.low = Min({@, price})]
Quote(price) ==
    /\ ~quoted /\ quoted' = TRUE
    /\ klines' = [klines EXCEPT ![Len(klines)] = Quoted(@, price)]
    /\ UNCHANGED days

Next == \/ \E c \in Closes, v \in Volumes : Bar(c, v)
        \/ \E c \in Closes : Quote(c)

Spec == Init /\ [][Next]_vars

----------------------------------------------------------------------------
(* Means and extremes.  Bars are counted from the last one, which is 1. *)

Has(n)  == Len(klines) >= n
Back(k) == klines[Len(klines) + 1 - k]

CloseSum(from, to)  == Total([i \in 1..(to - from + 1) |-> Back(from + i - 1).close], to - from + 1)
VolumeSum(from, to) == Total([i \in 1..(to - from + 1) |-> Back(from + i - 1).volume], to - from + 1)
Highest(from, to)   == Max({Back(k).high : k \in from..to})
Lowest(from, to)    == Min({Back(k).low : k \in from..to})

\* The last volume is more than percent of the mean of others.
Busy(percent, from, to) ==
    /\ VolumeSum(from, to) > 0
    /\ 100 * Back(1).volume * (to - from + 1) > percent * VolumeSum(from, to)

\* The close has moved by more than percent in four days.
Rose(percent) == 100 * (Back(1).close - Back(5).close) > percent * Back(5).close
Fell(percent) == 100 * (Back(5).close - Back(1).close) > percent * Back(5).close

\* _calc_rsi as a fraction: of all moves in 14 days, those upwards; half where nothing moved.
Moved(k)  == Back(k).close - Back(k + 1).close
Gains(k)  == Total([i \in 1..14 |-> IF Moved(k + i - 1) > 0 THEN Moved(k + i - 1) ELSE 0], 14)
Losses(k) == Total([i \in 1..14 |-> IF Moved(k + i - 1) < 0 THEN -Moved(k + i - 1) ELSE 0], 14)
Rsi(k) == IF Gains(k) + Losses(k) = 0 THEN [num |-> 1, den |-> 2]
          ELSE [num |-> Gains(k), den |-> Gains(k) + Losses(k)]

----------------------------------------------------------------------------
(* The trace agent *)

Mark(type, direction, strength) == [type |-> type, direction |-> direction, strength |-> strength]

\* Marks in 1/10; that of a spike depends on its size and is left to Weight.
Spike == IF Has(3) /\ Busy(200, 2, Len(klines))
         THEN {Mark("spike", IF Back(1).close > Back(2).close THEN "bullish" ELSE "bearish", 0)} ELSE {}

\* Volumes against the mean of the four days before, which may be 0: then nothing is said.
Divergence ==
    IF ~Has(5) \/ VolumeSum(2, 5) = 0 THEN {}
    ELSE IF Rose(3) /\ 5 * 4 * Back(1).volume < 4 * VolumeSum(2, 5) THEN {Mark("weak_volume", "bearish", 5)}
    ELSE IF Fell(3) /\ Busy(150, 2, 5) THEN {Mark("high_volume", "bearish", 6)} ELSE {}

Trend ==
    IF ~Has(20) \/ 20 * 10 * VolumeSum(1, 5) <= 12 * 5 * VolumeSum(1, 20) THEN {}
    ELSE IF Back(1).close > Back(5).close THEN {Mark("uptrend", "bullish", 6)}
    ELSE {Mark("downtrend", "bearish", 5)}

\* The mean volume may be 0 here.
RangeBreakout ==
    IF ~Has(20) \/ 10 * 19 * Back(1).volume <= 13 * VolumeSum(2, 20) THEN {}
    ELSE IF Back(1).close > Highest(2, 20) THEN {Mark("breakout", "bullish", 7)}
    ELSE IF Back(1).close < Lowest(2, 20) THEN {Mark("breakdown", "bearish", 7)} ELSE {}

\* _trace_symbol: what each detector has found
Found        == IF ~Has(10) THEN <<>> ELSE <<Spike, Divergence, Trend, RangeBreakout>>
TraceSignals == UNION {Found[i] : i \in DOMAIN Found}

\* _determine_direction weighs the strengths: that of a spike is a fraction of the volume
\* before, and 0.8 at most.
Weight(s) == LET before == VolumeSum(2, Len(klines))
             IN  IF s.type = "spike"
                 THEN Min({8 * before, 3 * (Back(1).volume * (Len(klines) - 1) - before)})
                 ELSE s.strength * Max({before, 1})
Voice(marks, direction) == IF \E s \in marks : s.direction = direction THEN Weight(CHOOSE s \in marks : TRUE) ELSE 0
Vote(direction) == Total([i \in DOMAIN Found |-> Voice(Found[i], direction)], Len(Found))
TraceDirection == CASE Vote("bullish") > Vote("bearish") -> "bullish"
                    [] Vote("bearish") > Vote("bullish") -> "bearish"
                    [] OTHER -> "neutral"

----------------------------------------------------------------------------
(* The analysis of the API *)

Above(percent, from, to) ==
    LET mean == VolumeSum(from, to)
    IN  mean > 0 /\ mean * percent < 100 * (to - from + 1) * Back(1).volume

AnalyzerSignals ==
    LET weak == Has(5) /\ VolumeSum(2, 5) > 0 /\ Rose(3) /\ 100 * 4 * Back(1).volume < 80 * VolumeSum(2, 5)
        high == Has(5) /\ ~weak /\ Fell(3) /\ Above(150, 2, 5)
    IN  {m \in {Mark("spike", IF Back(1).close > Back(2).close THEN "bullish" ELSE "bearish", 0)} :
                Has(3) /\ Above(200, 2, Len(klines))}
        \cup {m \in {Mark("weak_volume", "bearish", 5)} : weak}
        \cup {m \in {Mark("high_volume", "bearish", 6)} : high}

----------------------------------------------------------------------------
(* The strategies *)

Hit(strategy) ==
    CASE strategy = "breakout" ->
            Has(22) /\ Busy(110, 2, 21) /\ Back(1).close > Highest(2, 21) /\ Back(1).close > Back(2).close
      [] strategy = "oversold" -> Has(15) /\ 100 * Rsi(1).num < 30 * Rsi(1).den /\ Fell(2)
      [] strategy = "strength" -> Has(21) /\ Busy(120, 2, 21) /\ Rose(1)
      [] strategy = "risk" ->
            Has(21) /\ 100 * Rsi(1).num > 60 * Rsi(1).den /\ Back(1).close < Back(2).close /\ Busy(110, 2, 20)
      [] strategy = "ma_golden_cross" ->
            /\ Has(22) /\ Busy(100, 2, 21)
            /\ 4 * CloseSum(2, 6) <= CloseSum(2, 21) /\ 4 * CloseSum(1, 5) > CloseSum(1, 20)
      [] strategy = "volume_breakout" -> Has(21) /\ Busy(150, 2, 21) /\ Rose(2)
      [] strategy = "rsi_reversal" ->
            /\ Has(16) /\ 100 * Rsi(1).num < 30 * Rsi(1).den
            /\ 1000 * (Rsi(1).num * Rsi(2).den - Rsi(2).num * Rsi(1).den) > 15 * Rsi(1).den * Rsi(2).den

Strategies == {"breakout", "oversold", "strength", "risk", "ma_golden_cross", "volume_breakout", "rsi_reversal"}
Hits == {s \in Strategies : Hit(s)}

----------------------------------------------------------------------------
(* Properties *)

TypeOK == /\ days \in 0..MaxBars /\ quoted \in BOOLEAN
          /\ \A i \in DOMAIN klines : /\ klines[i].close \in klines[i].low..klines[i].high
                                      /\ klines[i].volume \in Nat

\* The copy in the analysis of the API sees what the trace agent sees.
CopiesAgree ==
    Has(10) => AnalyzerSignals = {s \in TraceSignals : s.type \in {"spike", "weak_volume", "high_volume"}}

\* The strategies that buy on a rise, and those that buy on a fall, are never hit together;
\* neither is the one that sells beside those that buy on a new high or on exhaustion.
HitsAreCoherent ==
    /\ ~(Hits \cap {"strength", "volume_breakout"} # {} /\ "oversold" \in Hits)
    /\ "risk" \in Hits => Hits \cap {"breakout", "oversold", "rsi_reversal"} = {}
    /\ "volume_breakout" \in Hits => "strength" \in Hits

\* The trace agent does not speak for buying a stock that fell both in a day and in four.
BullsNeedARise ==
    TraceDirection = "bullish" => Back(1).close > Back(2).close \/ Back(1).close > Back(5).close
=============================================================================
