SPECIFICATION MCSpec
CONSTANTS
  Urls = {u1, u2}
  Langs = {"de"}
  Requests <- PerLanguage
  Kinds <- PlainOnly
  Tasks = {t1, t2}
  Savers = {}
  Closers = {}
  MemBudget = 1
  MemEntryMax = 1
  DiskBudget = 10
  DiskEntryMax = 3
  HasDisk = TRUE
  WritesFail = FALSE
  ReadsFail = FALSE
  DeletesFail = FALSE
  IndexSavesFail = FALSE
  FlushesTimeOut = FALSE
  MaxStores = 3
  MaxRestarts = 0
  None = None
  Parts = {"all"}
INVARIANT ServesLatest
CHECK_DEADLOCK FALSE
