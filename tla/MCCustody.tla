---------------------------- MODULE MCCustody ----------------------------
(* Custody of one stock: a ticker, an administrator, a trader, two days. *)
EXTENDS Custody

CONSTANTS loop, a, b, s, x

MCInput(enabled, names) ==
    [enabled |-> enabled, symbols |-> names, sides |-> Sides, buy |-> 80, sell |-> 0,
     interval |-> 300, lastRun |-> Never]
\* The stock named twice beside a code that is none, or a single entry switched off.
MCInputs   == {MCInput(TRUE, <<s, x, s>>), MCInput(FALSE, <<s>>)}
MCOn       == {MCInput(TRUE, <<s, x, s>>)}
MCSignals  == {[side |-> "BUY", score |-> 85]}
\* A trader who buys the same stock.
MCManual   == {[symbol |-> s, side |-> "BUY"]}
\* Monday morning, and Tuesday just before the opening.
MCFewInstants == <<570, 2009>>
MCFinal    == {"PENDING", "CANCELED"}
MCAll      == Working \cup Ended
==========================================================================
