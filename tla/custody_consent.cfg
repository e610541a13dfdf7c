SPECIFICATION Spec
CONSTANTS
  loop = loop
  a = a
  b = b
  s = s
  x = x
  Symbols = {s}
  Loop = loop
  Admins = {a, b}
  Inputs <- MCInputs
  Manual <- MCManual
  Signals <- MCSignals
  Instants <- MCFewInstants
  Window = 1
  GatewayStatuses <- MCFinal
  AllowLiveCustody = TRUE
  MaxOrders = 0
  MaxManual = 0
PROPERTY SwitchedOnByConsent
