SPECIFICATION MCSpec
CONSTANTS
  None = None
  Home = Home
  Docs = {p1, p2}
  MaxFrag = 0
  FirstUrls <- OneDoc
  LinkUrls <- Plain
  UserOps = {"open", "go"}
  ScriptOps = {"push", "replace", "assign", "go"}
  Patient = TRUE
  FetchesFail = FALSE
  MaxOps = 5
  MaxCrashes = 0
INVARIANT StateAgrees
PROPERTY StepsRight
CHECK_DEADLOCK FALSE
