SPECIFICATION Spec
CONSTANTS
  \* Two overrides at once and an hourly loop; a day of two steps, the cooldown of one.
  Recorders = {"r1", "r2"}
  Healers = {"h1"}
  Elevated = 2
  Critical = 3
  Cooldown = 1
  Day = 2
  MaxHistory = 1
  MaxOverrides = 3
  \* Two tasks, and reports enough for each agent to change its mind.
  Judges = {"t1", "t2"}
  MaxReports = 6
  \* Three analyses over two providers; with two, disagreement changes nothing.
  Callers = {c1, c2, c3}
  Providers = 2
  Advice = {"buy"}
  Threshold = 2
  Recovery = 1
  Trials = 2
  \* Two scans, times to live that differ.
  Scans = {"s1", "s2"}
  ListTTL = 2
  RedisTTL = 3
  \* Two stocks, one of which is too dear for a lot; three orders, of which two are saved.
  Shares = {"s1", "s2"}
  SharePrices = {4, 25}
  Cash = 2000
  KeptOrders = 2
  MaxOrders = 3
  \* Prices between which a stop, a trailing stop and a series of wins are possible.
  TestPrices = {9, 10, 12}
  InitialCapital = 1001000000
  MinTrades = 2
  TestBars = 4
  Combinations = 2
  Windows = 2
  \* Two evaluations at a time, four in all.
  Evaluators = {"e1", "e2"}
  MaxEvaluations = 4
  \* Two replays of two bars.
  Replays = {"q1", "q2"}
  Replayed = {"s1", "s2"}
  ReplayBars = 2
  \* A minute of three steps, few tokens.
  DefaultRpm = 3
  HeavyRpm = 2
  Minute = 3
  \* Odds for and against, lots that are affordable and not.
  Capitals = {1000, 20000}
  LotPrices = {1, 7, 30}
  Returns = {2, 3, 10}
  Probabilities = {0, 3000, 5000, 6500, 10000}
  \* Factors that lean either way, and changes that stop trading and do not.
  Values = {2, 9}
  Readings <- MCReadings
  Moves <- MCMoves
  Changes <- MCChanges
  \* Bars enough for the breakouts and the means of twenty days, or hardly any; falls and
  \* rises on both sides of the thresholds.
  Closes = {95, 96, 103, 104}
  Volumes = {5, 30}
  Quiet = {8, 21}
  Before = 100
  SignBars = 2
  \* Two analyses of a stock at a time, K-lines that change once.
  Stocks = {"s1"}
  Handlers = {"t1", "t2"}
  ReportTTL = 2
  MaxUpdates = 2
  \* Units of 150 seconds.
  ShortTTL = 2
  LongTTL = 8
  Interval = 4
  MaxRound = 1
  \* Two requests at a time, additions enough for the id of a row to be used again.
  Watchable = {"s1", "s2"}
  Editors = {"q1", "q2"}
  MaxAdds = 3
SYMMETRY Symmetry
INVARIANTS TypeOK LevelsAreEarned ConflictsAreFlagged BreakersRecover BooksBalance PositionsAreSound LoneCallsAreComplete PassesAreBounded DecisionsAreGrounded
PROPERTY ListIsBounded
CHECK_DEADLOCK FALSE
