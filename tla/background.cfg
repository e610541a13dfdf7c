SPECIFICATION Spec
CONSTANTS
  \* Two overrides at once and an hourly loop; a day of two steps, the cooldown of one.
  Recorders = {"r1", "r2"}
  Healers = {"h1"}
  Elevated = 1
  Critical = 2
  Cooldown = 1
  RiskDay = 2
  MaxHistory = 1
  MaxOverrides = 2
  \* One agent watches another; the times are those of the code.
  Agents = {"a1", "a2"}
  Watchers = {"a1"}
  Beaters = {"a2"}
  Expiry = 3
  Round = 3
  Threshold = 3
  \* A stock of each kind, two fetches, one slot to wait for.
  Hot = {"h"}
  Warm = {"w"}
  Fetches = {"t1", "t2"}
  Slots = 1
  WarmSlots = 1
  ProviderTTL = 1
  AnalyzeTTL = 1
  PrefetchTTL = 2
  \* Custody of one stock by the ticker and an administrator.  Orders with the gateway are
  \* not allowed: its runs are declined.
  Codes = {"s"}
  Loop = "loop"
  Admins = {"a"}
  Inputs <- MCInputs
  Manual = {}
  Signals <- MCSignals
  Instants <- MCInstants
  Window = 1
  GatewayStatuses = {"PENDING", "CANCELED"}
  AllowLiveCustody = FALSE
  MaxOrders = 1
  MaxManual = 0
INVARIANT TypeOK
PROPERTIES HealsInTime ReportsConverge KlinesAreBounded EveryStockIsTried RunsKeepSettings EveryRunEnds
