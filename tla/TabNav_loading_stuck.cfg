SPECIFICATION FairSpec
CONSTANTS
  None = None
  Home = Home
  Docs = {p1}
  MaxFrag = 1
  FirstUrls <- Plain
  LinkUrls <- Everything
  UserOps = {"open", "go"}
  ScriptOps = {}
  Patient = TRUE
  FetchesFail = FALSE
  MaxOps = 3
  MaxCrashes = 0
PROPERTY LoadingAlwaysEnds
CHECK_DEADLOCK FALSE
