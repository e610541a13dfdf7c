---------------------------- MODULE MCBackground ----------------------------
(***************************************************************************)
(* Background on a small instance, whose constants background.cfg gives.   *)
(***************************************************************************)
EXTENDS Background

\* Settings that change while custody runs: the stock named twice beside a code that is none,
\* or custody switched off.
Input(enabled, names) == [enabled |-> enabled, symbols |-> names, sides |-> {"BUY", "SELL"}, buy |-> 80,
                          sell |-> 0, interval |-> 300, lastRun |-> -1]
MCInputs  == {Input(TRUE, <<"s", "x", "s">>), Input(FALSE, <<"s">>)}
MCSignals == {[side |-> "BUY", score |-> 85]}

\* A Monday morning and Tuesday before the opening.
MCInstants == <<570, 2009>>
=============================================================================
