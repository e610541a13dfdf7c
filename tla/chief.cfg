SPECIFICATION FairSpec
CONSTANTS
  MaxConcurrent = 3
  MaxMessages = 5
INVARIANTS TypeOK UsedOnce ReportsAreKept
PROPERTY DecisionsEnd
