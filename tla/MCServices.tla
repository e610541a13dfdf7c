----------------------------- MODULE MCServices -----------------------------
(***************************************************************************)
(* Services on small instances, whose constants services.cfg gives.        *)
(***************************************************************************)
EXTENDS Services, TLC

\* The callers of the chain differ in nothing.
Symmetry == Permutations(Callers)

\* Numbers below zero cannot be written in the .cfg.
MCChanges == {-10, -7, 3}

\* Every kind of signal, and the strongest move there is.
Signal(type, direction, strength) == [type |-> type, direction |-> direction, strength |-> strength]
MCReadings == {Signal("divergence", "bearish", 6), Signal("divergence", "bearish", 3),
               Signal("other", "bullish", 7), Signal("other", "bearish", 7)}
MCMoves    == {Signal("other", "bullish", 10), Signal("other", "bearish", 6)}
=============================================================================
