SPECIFICATION FairSpec
CONSTANTS
  None = None
  Home = Home
  Docs = {p1, p2}
  MaxFrag = 1
  FirstUrls <- OneDoc
  LinkUrls <- Everything
  UserOps = {"go", "open", "home", "reload", "stop"}
  ScriptOps = {"go", "push", "replace", "fragment", "assign", "reload"}
  Patient = FALSE
  FetchesFail = TRUE
  MaxOps = 2
  MaxCrashes = 1
INVARIANT LastNavigationWins
PROPERTY NewestDocument
PROPERTY LoadingEnds
PROPERTY CrashHandled
CHECK_DEADLOCK FALSE
