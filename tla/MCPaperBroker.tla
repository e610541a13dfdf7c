--------------------------- MODULE MCPaperBroker ---------------------------
(* PaperBroker on one stock, two callers and money for two board lots. *)
EXTENDS PaperBroker, TLC

CONSTANTS c1, s1, u, v

MCCash == 232 * Yuan
MCOrder(cid, side, type, qty, limit) ==
    [cid |-> cid, symbol |-> s1, side |-> side, type |-> type, qty |-> qty, limit |-> limit]

\* A named buy, a buy that may rest, a sale of the lot, a sale of one share whose fee
\* exceeds its worth, and a buy of half a lot, which is refused.
MCRequests == {MCOrder(c1, "BUY", "", 100, 0), MCOrder(NoCid, "BUY", "LIMIT", 100, 100),
               MCOrder(NoCid, "SELL", "LIMIT", 100, 110),
               MCOrder(c1, "SELL", "MARKET", 1, 0), MCOrder(NoCid, "BUY", "MARKET", 50, 0)}
\* For the run with fairness: one buy that may rest, one sale.
MCFewRequests == {MCOrder(c1, "BUY", "LIMIT", 100, 100), MCOrder(NoCid, "SELL", "MARKET", 1, 0)}
MCPrices   == {0, 100, 110}
MCSymmetry == Permutations({u, v})
=============================================================================
