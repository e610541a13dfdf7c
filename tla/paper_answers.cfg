SPECIFICATION FairSpec
CONSTANTS
  c1 = c1
  s1 = s1
  u = u
  v = v
  Clients = {u, v}
  Symbols = {s1}
  ClientIds = {c1}
  InitialCash <- MCCash
  Requests <- MCFewRequests
  Prices <- MCPrices
  MaxHistory = 2
  MaxOrders = 3
INVARIANT AckedIsKept
PROPERTY EveryCallReturns
