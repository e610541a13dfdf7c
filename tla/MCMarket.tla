----------------------------- MODULE MCMarket -----------------------------
(* Two calls over two stocks. *)
EXTENDS Market, TLC

CONSTANTS c1, c2, a, b

MCSymmetry == Permutations({c1, c2}) \cup Permutations({a, b})
===========================================================================
