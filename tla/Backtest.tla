------------------------------ MODULE Backtest ------------------------------
(***************************************************************************)
(* A backtest of one strategy on one stock (backtest/runner.py,            *)
(* backtest/strategy_backtest.py): bars are stepped through, positions are *)
(* bought on the strategy's signal and sold on its signal, at a stop, or   *)
(* at the end.  A backtest is run once with the default parameters, once   *)
(* for each combination of a grid, or over rolling windows with the best   *)
(* of them.                                                                *)
(*                                                                         *)
(* Prices are in tenths, money in millionths, so that a slippage of 0.1%   *)
(* and a commission of 0.03% are whole numbers; the code computes with     *)
(* floating point and rounds what it reports.  Of the indicators only the  *)
(* signal remains, of the result what the properties speak of.             *)
(***************************************************************************)
EXTENDS Sums, Sequences, FiniteSets, FiniteSetsExt

CONSTANTS Prices,         \* prices that occur, in tenths
          InitialCapital, \* in millionths; 100_000 in the code
          MinTrades,      \* MIN_TRADES_FOR_RESULT
          MaxBars,        \* bound of the model: bars a strategy trades on
          Combinations,   \* bound of the model: combinations of the parameter grid
          Windows         \* bound of the model: rolling windows

BacktestAssumption == /\ Prices \subseteq Nat \ {0} /\ InitialCapital \in Nat \ {0}
                      /\ {MinTrades, MaxBars, Combinations, Windows} \subseteq Nat \ {0}

VARIABLES strategy, \* the strategy that is tested
          mode,     \* "plain", "optimize" or "rolling"
          runner,   \* the PortfolioRunner: account, position and statistics
          bars,     \* bars stepped through
          trial,    \* combinations and windows that are through
          flat,     \* a rolling window had no Sharpe ratio
          outcome,  \* what the caller gets
          since     \* history: the bars after the one the open position was bought on

vars == <<strategy, mode, runner, bars, trial, flat, outcome, since>>

\* What the signal functions may say: sizes are in twentieths of the capital.
Hold == [action |-> "HOLD", size |-> 0]
Sell == [action |-> "SELL", size |-> 0]
Buy(size) == [action |-> "BUY", size |-> size]
Signals == [breakout        |-> {Hold, Buy(5)},
            oversold        |-> {Hold, Buy(4)},
            strength        |-> {Hold, Buy(6)},
            risk            |-> {Hold, Sell},
            ma_golden_cross |-> {Hold, Buy(5), Sell},
            volume_breakout |-> {Hold, Buy(4)},
            rsi_reversal    |-> {Hold, Buy(4)}]
Strategies == DOMAIN Signals

Bars == {b \in [high : Prices, low : Prices, close : Prices] : b.low <= b.close /\ b.close <= b.high}

\* Positions are in lots of 100; avg and top are the cost and the highest price of a lot.
\* equity and quote belong to the last point of the equity curve, moves says that the curve
\* is not flat.
NewRunner == [capital |-> InitialCapital, lots |-> 0, avg |-> 0, top |-> 0, pnls |-> <<>>,
              wins |-> 0, losses |-> 0, most_wins |-> 0, most_losses |-> 0,
              equity |-> InitialCapital, quote |-> 0, moves |-> FALSE]

Init == /\ strategy \in Strategies /\ mode \in {"plain", "optimize", "rolling"}
        /\ runner = NewRunner /\ bars = 0 /\ trial = 0
        /\ flat = FALSE /\ outcome = "running" /\ since = <<>>

----------------------------------------------------------------------------
(* The runner *)

Value(price)  == price * 10000000  \* of a lot
Bought(price) == price * 10010000  \* with slippage
Paid(price)   == price * 10013003  \* with slippage and commission
Earned(price) == price * 9987003   \* of a lot that is sold

\* fault: the highest price follows the closing prices
FaultyStepped(r, bar) == [r EXCEPT !.top = IF r.lots > 0 THEN Max({@, Value(bar.close)}) ELSE @,
                                   !.equity = r.capital + r.lots * Value(bar.close), !.quote = bar.close]

\* step
Stepped(r, bar) ==
    LET equity == r.capital + r.lots * Value(bar.close)
    IN  [r EXCEPT !.top = IF r.lots > 0 THEN Max({@, Value(bar.high)}) ELSE @,
                  !.equity = equity, !.quote = bar.close,
                  !.moves = @ \/ equity # InitialCapital]

\* buy, of a runner without a position
Entered(r, price, size) ==
    LET lots == ((r.capital \div 20) * size) \div Bought(price)
        cost == lots * Paid(price)
    IN  [r EXCEPT !.capital = @ - cost, !.lots = lots, !.avg = Paid(price), !.top = Paid(price)]

\* The signal is for a lot at least, and costs and commission stay within 30% of the capital.
Affordable(r, price, size) ==
    LET lots == ((r.capital \div 20) * size) \div Bought(price)
    IN  lots > 0 /\ lots * Paid(price) <= 3 * (r.capital \div 10)

\* The statistics of a sale.
Booked(r, pnl) ==
    IF pnl > 0 THEN [r EXCEPT !.pnls = Append(@, pnl), !.wins = @ + 1, !.losses = 0,
                              !.most_wins = Max({@, r.wins + 1})]
    ELSE [r EXCEPT !.pnls = Append(@, pnl), !.losses = @ + 1, !.wins = 0,
                   !.most_losses = Max({@, r.losses + 1})]

\* sell, of the whole position
Sold(r, price) ==
    [Booked(r, r.lots * (Earned(price) - r.avg))
        EXCEPT !.capital = @ + r.lots * Earned(price), !.lots = 0, !.avg = 0, !.top = 0]

Less5(value) == value - value \div 20

\* check_exits: 5% below the cost; or, once the price was 15% above it, 5% below the top.
Stopped(r, bar) ==
    \/ Value(bar.low) <= Less5(r.avg)
    \/ r.top > r.avg + 3 * (r.avg \div 20) /\ Value(bar.low) <= Less5(r.top)

Exited(r, bar) == IF r.lots > 0 /\ Stopped(r, bar) THEN Sold(r, bar.close) ELSE r

Signalled(r, bar, signal) ==
    CASE signal.action = "BUY" /\ r.lots = 0 /\ Affordable(r, bar.close, signal.size) ->
            Entered(r, bar.close, signal.size)
      [] signal.action = "SELL" /\ r.lots > 0 -> Sold(r, bar.close)
      [] OTHER -> r

----------------------------------------------------------------------------
(* Backtests *)

\* One bar of _run_single_backtest: step, exits, signal.  A position that was sold at its stop
\* may be bought back on the same bar.
Bar(bar, signal) ==
    /\ outcome = "running" /\ bars < MaxBars
    /\ bars' = bars + 1
    /\ LET exited == Exited(Stepped(runner, bar), bar)
       IN  /\ runner' = Signalled(exited, bar, signal)
           /\ since' = IF runner.lots > 0 /\ exited.lots > 0 /\ runner'.lots > 0 THEN Append(since, bar) ELSE <<>>
    /\ UNCHANGED <<strategy, mode, trial, flat, outcome>>

\* finalize sells what is left, at the last price of the equity curve.
Finalized(r) == IF r.lots > 0 THEN Sold(r, r.quote) ELSE r

\* The runner of the next backtest is a new one.
NextBacktest == runner' = NewRunner /\ bars' = 0 /\ since' = <<>>
LastBacktest == runner' = Finalized(runner) /\ since' = <<>> /\ UNCHANGED bars

\* Only a backtest with the default parameters has to have enough trades.
FinishPlain ==
    /\ outcome = "running" /\ bars = MaxBars /\ mode = "plain"
    /\ LastBacktest
    /\ outcome' = IF Len(runner'.pnls) >= MinTrades THEN "ranked" ELSE "left out"
    /\ UNCHANGED <<strategy, mode, trial, flat>>

\* One combination of _optimize_strategy; the best one is the result, or the parameters of
\* the windows, however few its trades.
FinishCombination ==
    /\ outcome = "running" /\ bars = MaxBars /\ mode \in {"optimize", "rolling"} /\ trial < Combinations
    /\ trial' = trial + 1
    /\ IF trial' = Combinations /\ mode = "optimize"
       THEN LastBacktest /\ outcome' = "ranked"
       ELSE NextBacktest /\ UNCHANGED outcome
    /\ UNCHANGED <<strategy, mode, flat>>

\* A window of run_rolling_backtest.  The Sharpe ratio of a window whose equity did not move
\* is None, and the mean of the ratios fails with one None among them.
FinishWindow ==
    /\ outcome = "running" /\ bars = MaxBars /\ mode = "rolling" /\ trial >= Combinations
    /\ trial' = trial + 1
    /\ flat' = (flat \/ ~runner.moves)
    /\ IF trial' = Combinations + Windows
       THEN LastBacktest /\ outcome' = IF flat' THEN "failed" ELSE "averaged"
       ELSE NextBacktest /\ UNCHANGED outcome
    /\ UNCHANGED <<strategy, mode>>

Done == outcome \in {"ranked", "left out", "averaged", "failed"} /\ UNCHANGED vars

Next == \/ \E bar \in Bars : \E signal \in Signals[strategy] : Bar(bar, signal)
        \/ FinishPlain
        \/ FinishCombination
        \/ FinishWindow
        \/ Done

Spec == Init /\ [][Next]_vars

----------------------------------------------------------------------------
(* Properties *)

TypeOK == /\ runner.capital \in Nat /\ {runner.lots, runner.avg, runner.top} \subseteq Nat
          /\ runner.lots = 0 <=> runner.avg = 0
          /\ {runner.moves, flat} \subseteq BOOLEAN /\ bars \in 0..MaxBars
          /\ trial \in 0..(Combinations + Windows)
          /\ outcome \in {"running", "ranked", "left out", "averaged", "failed"}

\* The longest series of wins and losses, as the sales have them.
Longest(won) == Max({n \in 0..Len(runner.pnls) :
    \E i \in 0..(Len(runner.pnls) - n) : \A j \in (i + 1)..(i + n) : (runner.pnls[j] > 0) = won})

\* What was earned and what is invested account for the capital, trade after trade: no
\* commission or slippage is left out of the profit and loss, and the longest series of
\* wins and losses are those of the sales.
BooksClose ==
    /\ runner.capital + runner.lots * runner.avg = InitialCapital + Total(runner.pnls, Len(runner.pnls))
    /\ runner.most_wins = Longest(TRUE) /\ runner.most_losses = Longest(FALSE)

\* An open position has cost at most 30% of the capital it was bought from, commission
\* included, and has never been below its stop since: 5% below its cost, or below the
\* highest price once that was 15% above the cost.
PositionsAreSound ==
    /\ runner.lots * runner.avg <= 3 * ((runner.capital + runner.lots * runner.avg) \div 10)
    /\ runner.lots > 0 => \A i \in DOMAIN since :
           LET top == Max({runner.avg} \cup {Value(since[j].high) : j \in 1..i}) IN
           /\ Value(since[i].low) > Less5(runner.avg)
           /\ top > runner.avg + 3 * (runner.avg \div 20) => Value(since[i].low) > Less5(top)
=============================================================================
