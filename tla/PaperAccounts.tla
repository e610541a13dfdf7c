--------------------------- MODULE PaperAccounts ---------------------------
(***************************************************************************)
(* The paper trading of the Python service (core/paper_trader.py): an      *)
(* account that follows the decisions of the models, kept in memory and in *)
(* a file that is rewritten after every order.  A failed save is logged    *)
(* and the order stands; a restart goes on from the file.                  *)
(*                                                                         *)
(* Money is counted in units of 1/10000, so that the commission of 0.03%   *)
(* is a whole number; the code computes with floating point.               *)
(***************************************************************************)
EXTENDS Sums, Sequences

CONSTANTS Symbols,
          Prices,         \* prices of a share that occur
          InitialCapital, \* 100_000
          KeptOrders,     \* orders of an account that are saved: 200
          MaxOrders       \* bound of the model: decisions that are followed

AccountsAssumption == /\ Prices \subseteq Nat \ {0} /\ KeptOrders \in Nat \ {0}
                      /\ InitialCapital \in Nat /\ MaxOrders \in Nat

VARIABLES account, \* the default account in memory; NoAccount before its first use
          file,    \* the account in data/paper_accounts.json
          followed,\* history: decisions so far
          whole    \* history: no order of the account was dropped from the file

vars == <<account, file, followed, whole>>

Unit == 10000
Lot  == 100
Flat == [quantity |-> 0, basis |-> 0]

\* A position of 0 shares is one that is not there.
NewAccount == [capital |-> InitialCapital * Unit, positions |-> [s \in Symbols |-> Flat], orders |-> <<>>]
NoAccount  == [capital |-> 0, positions |-> [s \in Symbols |-> Flat], orders |-> <<>>]

Init == /\ account = NoAccount /\ file = NoAccount
        /\ followed = 0 /\ whole = TRUE

Cost(order) == order.price * order.quantity * Unit
Commission(order) == order.price * order.quantity * 3

\* fault: the commission of a purchase is not paid
FaultyBought(a, o) ==
    [capital |-> a.capital - Cost(o), orders |-> Append(a.orders, o),
     positions |-> [a.positions EXCEPT ![o.symbol] = [quantity |-> @.quantity + o.quantity, basis |-> @.basis + Cost(o)]]]

\* execute_buy.  avg_cost is basis / quantity.
Bought(a, o) ==
    [capital |-> a.capital - Cost(o) - Commission(o), orders |-> Append(a.orders, o),
     positions |-> [a.positions EXCEPT ![o.symbol] = [quantity |-> @.quantity + o.quantity, basis |-> @.basis + Cost(o)]]]

\* execute_sell, of the whole position
Sold(a, o) ==
    [capital |-> a.capital + Cost(o) - Commission(o), orders |-> Append(a.orders, o),
     positions |-> [a.positions EXCEPT ![o.symbol] = Flat]]

\* can_buy: 5% of the capital are left alone.
CanBuy(a, o) == Cost(o) + Commission(o) <= a.capital - (a.capital + 19) \div 20

\* The quantity of a purchase: a fifth of the capital, weighed with the confidence (0, half
\* or full), in lots; single shares, and at least one, of a stock whose lot is more than the
\* capital.
Sized(a, price, confidence) ==
    LET shares == (confidence * a.capital) \div (10 * price * Unit) IN
    IF price * Lot * Unit > a.capital THEN IF shares > 1 THEN shares ELSE 1
    ELSE (shares \div Lot) * Lot

\* What _save_to_disk writes of an account.
Saved(a) == [a EXCEPT !.orders = IF Len(@) <= KeptOrders THEN @
                                 ELSE SubSeq(@, Len(@) - KeptOrders + 1, Len(@))]

\* Memory goes on whether the save works or not.
Save(a, works) == account' = a /\ file' = IF works THEN Saved(a) ELSE file

\* get_or_create_account; a created account is saved at once.
Opened == IF account = NoAccount THEN NewAccount ELSE account
OpenedFile(works) == IF account = NoAccount /\ works THEN Saved(NewAccount) ELSE file

Follow(order, works) ==
    CASE order.action = "NOTE" -> Save([Opened EXCEPT !.orders = Append(@, order)], works)
      [] order.action = "BUY"  -> IF CanBuy(Opened, order) THEN Save(Bought(Opened, order), works)
                                  ELSE Save(Opened, works)
      [] order.action = "SELL" -> IF order.quantity > 0 THEN Save(Sold(Opened, order), works)
                                  ELSE Save(Opened, works)

\* execute_signal.  HOLD and WAIT leave a note; a purchase without confidence, or of less
\* than a lot, comes to nothing and is not saved.
ExecuteSignal(symbol, decision, price, confidence, works) ==
    LET Order(action, quantity) == [symbol |-> symbol, action |-> action, price |-> price, quantity |-> quantity]
        size == Sized(Opened, price, confidence)
    IN  /\ followed < MaxOrders /\ followed' = followed + 1
        /\ CASE decision = "BUY" /\ (confidence = 0 \/ size = 0) ->
                  account' = Opened /\ file' = OpenedFile(works)
             [] decision = "BUY" /\ confidence > 0 /\ size > 0 -> Follow(Order("BUY", size), works)
             [] decision = "SELL" -> Follow(Order("SELL", Opened.positions[symbol].quantity), works)
             [] decision = "HOLD" -> Follow(Order("NOTE", 0), works)
        /\ UNCHANGED whole

\* A valuation at the quotes of the day creates the account and changes nothing else of it.
Value(works) == account' = Opened /\ file' = OpenedFile(works) /\ UNCHANGED <<followed, whole>>

----------------------------------------------------------------------------

\* _load_from_disk
Loaded == file

\* The process stops and starts again.
Restart == /\ account' = Loaded
           /\ whole' = (whole /\ (Len(file.orders) < KeptOrders \/ file = account))
           /\ UNCHANGED <<file, followed>>

Next == \/ \E s \in Symbols, d \in {"BUY", "SELL", "HOLD"}, p \in Prices, confidence \in 0..2, works \in BOOLEAN :
               ExecuteSignal(s, d, p, confidence, works)
        \/ \E works \in BOOLEAN : Value(works)
        \/ Restart

Spec == Init /\ [][Next]_vars

----------------------------------------------------------------------------
(* Properties *)

TypeOK == /\ \A a \in {account, file} : /\ a.capital \in Nat /\ Len(a.orders) <= MaxOrders
                                        /\ \A s \in Symbols : a.positions[s] \in [quantity : Nat, basis : Nat]
          /\ Len(file.orders) <= KeptOrders
          /\ followed \in 0..MaxOrders /\ whole \in BOOLEAN

\* What an order brings in, and how many shares of s.
Earned(o) == CASE o.action = "BUY"  -> -(Cost(o) + Commission(o))
               [] o.action = "SELL" -> Cost(o) - Commission(o)
               [] OTHER             -> 0
Moved(o, s) == CASE o.symbol = s /\ o.action = "BUY"  -> o.quantity
                 [] o.symbol = s /\ o.action = "SELL" -> -o.quantity
                 [] OTHER                             -> 0

\* The i-th order is a purchase of s, and no sale of s follows.
Stands(orders, i, s) ==
    /\ orders[i].symbol = s /\ orders[i].action = "BUY"
    /\ \A j \in (i + 1)..Len(orders) : ~(orders[j].symbol = s /\ orders[j].action = "SELL")

\* Capital and positions follow from the orders alone.
Explained(a) ==
    LET n == Len(a.orders) IN
    /\ a.capital = InitialCapital * Unit + Total([i \in 1..n |-> Earned(a.orders[i])], n)
    /\ \A s \in Symbols : a.positions[s] =
           [quantity |-> Total([i \in 1..n |-> Moved(a.orders[i], s)], n),
            basis    |-> Total([i \in 1..n |-> IF Stands(a.orders, i, s) THEN Cost(a.orders[i]) ELSE 0], n)]

\* Capital and positions are what the orders make of the initial capital, in memory and in
\* the file, after failed saves and restarts, as long as the file has all the orders.
BooksBalance ==
    \A a \in {account} \cup (IF Len(file.orders) < KeptOrders THEN {file} ELSE {}) :
        whole /\ a # NoAccount => Explained(a)
=============================================================================
