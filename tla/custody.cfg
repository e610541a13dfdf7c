SPECIFICATION Spec
CONSTANTS
  loop = loop
  a = a
  b = b
  s = s
  x = x
  Symbols = {s}
  Loop = loop
  Admins = {a}
  Inputs <- MCOn
  Manual <- MCManual
  Signals <- MCSignals
  Instants <- MCFewInstants
  Window = 1
  GatewayStatuses <- MCFinal
  AllowLiveCustody = TRUE
  MaxOrders = 3
  MaxManual = 1
INVARIANT OncePerDay
