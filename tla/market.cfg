SPECIFICATION Spec
CONSTANTS
  c1 = c1
  c2 = c2
  a = a
  b = b
  Callers = {c1, c2}
  Symbols = {a, b}
  QuoteTTL = 1
  KlineTTL = 1
  Kept = 1
  MaxClock = 1
  MaxCalls = 3
SYMMETRY MCSymmetry
INVARIANTS TypeOK AnswersAreFresh AnalysesAreRecent ConfirmedIsSaved
