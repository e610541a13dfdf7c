SPECIFICATION Spec
CONSTANTS
  MaxConcurrent = 3
  MaxMessages = 5
INVARIANT GroundedDecisions
