SPECIFICATION Spec
CONSTANTS
  c1 = c1
  s1 = s1
  u = u
  v = v
  Clients = {u, v}
  Symbols = {s1}
  ClientIds = {c1}
  InitialCash <- MCCash
  Requests <- MCRequests
  Prices <- MCPrices
  MaxHistory = 3
  MaxOrders = 3
SYMMETRY MCSymmetry
INVARIANTS TypeOK BooksBalance Solvent AckedIsFinal RepeatsAreRaces
PROPERTIES OneFillAtATime CallsAreAtomic
