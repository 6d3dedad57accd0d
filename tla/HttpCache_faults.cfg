SPECIFICATION MCFairSpec
CONSTANTS
  Urls = {u1}
  Langs = {"de", "en"}
  Requests <- PerLanguage
  Kinds <- EveryKind
  Tasks = {t1, t2}
  Savers = {}
  Closers = {c1}
  MemBudget = 1
  MemEntryMax = 1
  DiskBudget = 10
  DiskEntryMax = 3
  HasDisk = TRUE
  WritesFail = TRUE
  ReadsFail = TRUE
  DeletesFail = FALSE
  IndexSavesFail = TRUE
  FlushesTimeOut = TRUE
  MaxStores = 3
  MaxRestarts = 1
  None = None
  Parts = {"tasks", "shutdown"}
INVARIANT TiersAccounted
INVARIANT EntriesReachable
INVARIANT SlotsReadable
INVARIANT NoOrphanFiles
PROPERTY WritesSettle
CHECK_DEADLOCK FALSE
