---------------------------- MODULE PaperLedger ----------------------------
(***************************************************************************)
(* The pure part of the paper broker of internal/trading/paper.go: what an *)
(* order request must look like, when an order can trade at a price, and   *)
(* what a fill does to the cash and the holdings.                          *)
(*                                                                         *)
(* Prices are whole fen (0.01 yuan).  The two fee rates are per 10000, so  *)
(* with money counted in 1/10000 of a fen every amount of the code is an   *)
(* integer and nothing has to be rounded.  One such unit is 0.000001 yuan, *)
(* the tolerance of the code's funds check.                                *)
(***************************************************************************)
EXTENDS Integers, Sequences

CONSTANTS Symbols,     \* the six-digit stock codes
          ClientIds,   \* client order ids that callers choose
          InitialCash  \* 1_000_000 yuan in the code

ASSUME LedgerAssumption == /\ InitialCash \in Nat
                           /\ ClientIds \cap Nat = {}

RateBase       == 10000
CommissionRate == 3
StampRate      == 5
LotSize        == 100
MaxQuantity    == 10000000
Yuan           == 100 * RateBase
MinCommission  == 5 * Yuan
CashTolerance  == 1

Statuses == {"PENDING", "FILLED", "CANCELED", "REJECTED"}
Terminal == Statuses \ {"PENDING"}
NoCid    == 0   \* a request that leaves client_order_id empty
NoType   == ""  \* and one that leaves order_type empty
NoLimit  == 0   \* a nil limit price; 0 and below are refused alike

\* An order whose caller chose no client id gets a random one: its own number.
Order == [id : Nat, cid : ClientIds \cup Nat, symbol : Symbols,
          side : {"BUY", "SELL"}, type : {"MARKET", "LIMIT"}, qty : Nat,
          limit : Int, status : Statuses, price : Int]

TradingState == [cash : Int, pos : [Symbols -> Int], orders : Seq(Order)]

SeedState == [cash |-> InitialCash, pos |-> [s \in Symbols |-> 0], orders |-> <<>>]

----------------------------------------------------------------------------
(* validateOrderRequest: an empty type means MARKET, and MARKET drops the limit. *)

FaultyOrderType(req) == req.type   \* fault: the type is left as the caller sent it

OrderType(req)  == IF req.type = NoType THEN "MARKET" ELSE req.type
OrderLimit(req) == IF OrderType(req) = "LIMIT" THEN req.limit ELSE NoLimit

ValidRequest(req) ==
    /\ req.symbol \in Symbols
    /\ req.side \in {"BUY", "SELL"}
    /\ req.type \in {NoType, "MARKET", "LIMIT"}
    /\ 0 < req.qty /\ req.qty <= MaxQuantity
    /\ req.side = "BUY" => req.qty % LotSize = 0
    /\ req.type = "LIMIT" => req.limit > 0

Marketable(o, p) ==
    \/ o.type = "MARKET"
    \/ o.side = "BUY"  /\ p <= o.limit
    \/ o.side = "SELL" /\ p >= o.limit

----------------------------------------------------------------------------
(* fillPaperOrder *)

Amount(p, q)     == RateBase * (p * q)
Commission(p, q) == LET fee == CommissionRate * (p * q)
                    IN  IF fee < MinCommission THEN MinCommission ELSE fee
StampDuty(p, q)  == StampRate * (p * q)

\* What a fill of order o at price p adds to the cash and to the holding.
CashDelta(o, p) ==
    IF o.side = "BUY"
    THEN -(Amount(p, o.qty) + Commission(p, o.qty))
    ELSE Amount(p, o.qty) - Commission(p, o.qty) - StampDuty(p, o.qty)
ShareDelta(o)   == IF o.side = "BUY" THEN o.qty ELSE -o.qty

\* fault: a sale is not checked against the holding
FaultyCanFill(st, o, p) ==
    o.side = "SELL" \/ st.cash + CashTolerance + CashDelta(o, p) >= 0

CanFill(st, o, p) ==
    \/ o.side = "BUY"  /\ st.cash + CashTolerance + CashDelta(o, p) >= 0
    \/ o.side = "SELL" /\ st.pos[o.symbol] >= o.qty

FillLedger(st, o, p) ==
    [st EXCEPT !.cash = @ + CashDelta(o, p), !.pos[o.symbol] = @ + ShareDelta(o)]
=============================================================================
