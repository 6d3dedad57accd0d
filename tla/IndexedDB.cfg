SPECIFICATION MCFairSpec
CONSTANTS
  s1 = s1
  s2 = s2
  i1 = i1
  i2 = i2
  red = red
  blue = blue
  r1 = r1
  r2 = r2
  r3 = r3
  r4 = r4
  Stores = {s1, s2}
  Indexes = {i1, i2}
  StoreOf <- OneStore
  Unique = {i1, i2}
  Existing = {i1}
  GenMax = 2
  Values = {red, blue}
  Txs = {1, 2}
  Plans <- SomePlans
  Menu <- SomeRequests
  MaxOneByOne = 1
  MaxRequests = 2
  MaxTimers = 1
  CommitFails = TRUE
  None = None
  Requests = {r1, r2, r3, r4}
  Deletes = {r4}
  Wants <- Versions
  MaxTxs = 1
  KeyMax = 2
  Directions = {"next", "nextunique", "prev", "prevunique"}
  Ranges <- SomeRanges
  MaxChanges = 2
INVARIANT TransactionsConsistent
INVARIANT ConnectionsConsistent
INVARIANT CursorsConsistent
PROPERTY Serialisable
PROPERTY EverythingEnds
CHECK_DEADLOCK FALSE
