SPECIFICATION FairSpec
CONSTANTS
  Fetches = {f1}
  Socks = {s1, s2}
  TooBig = {}
  Background = TRUE
  Garbage = TRUE
  Crashes = TRUE
  MaxProgress = 1
INVARIANT TypeOK
INVARIANT ClosedAtMostOnce
PROPERTY EventuallyClosed
CHECK_DEADLOCK FALSE
