SPECIFICATION MCFairSpec
CONSTANTS
  MaxCalls = 3
  MaxEvents = 1
  NestLimit = 1
  None = None
INVARIANT OrderKept
INVARIANT OneOutcome
INVARIANT NothingForgotten
INVARIANT StateAgrees
PROPERTY StepsRight
PROPERTY EverythingEnds
CHECK_DEADLOCK FALSE
