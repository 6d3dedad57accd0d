SPECIFICATION Spec
CONSTANTS
  Requests = {1, 2, 3}
  MaxGenerations = 2
INVARIANT OwnRequestsCount
CHECK_DEADLOCK FALSE
