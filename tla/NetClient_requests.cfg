SPECIFICATION FairSpec
CONSTANTS
  Fetches = {f1, f2}
  Socks = {}
  TooBig = {f2}
  Background = FALSE
  Garbage = TRUE
  Crashes = TRUE
  MaxProgress = 2
INVARIANT NoRequestLost
INVARIANT CallbackAccounted
INVARIANT DoneAtMostOnce
PROPERTY ProgressBeforeDone
PROPERTY DoneUnlessAborted
CHECK_DEADLOCK FALSE
