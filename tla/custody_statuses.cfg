SPECIFICATION Spec
CONSTANTS
  loop = loop
  a = a
  b = b
  s = s
  x = x
  Symbols = {s}
  Loop = loop
  Admins = {a}
  Inputs <- MCInputs
  Manual <- MCManual
  Signals <- MCSignals
  Instants <- MCFewInstants
  Window = 1
  GatewayStatuses <- MCAll
  AllowLiveCustody = TRUE
  MaxOrders = 2
  MaxManual = 1
INVARIANT OncePerDay
