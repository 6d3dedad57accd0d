SPECIFICATION MCSpec
CONSTANTS
  Urls = {u1, u2}
  Langs = {"de"}
  Requests <- PerLanguage
  Kinds <- PlainOnly
  Tasks = {t1}
  Savers = {s1}
  Closers = {}
  MemBudget = 1
  MemEntryMax = 1
  DiskBudget = 5
  DiskEntryMax = 3
  HasDisk = TRUE
  WritesFail = FALSE
  ReadsFail = FALSE
  DeletesFail = TRUE
  IndexSavesFail = FALSE
  FlushesTimeOut = FALSE
  MaxStores = 3
  MaxRestarts = 2
  None = None
  Parts = {"all", "url"}
INVARIANT SlotsNameTheirFile
INVARIANT IndexPersisted
INVARIANT ServesLatest
CHECK_DEADLOCK FALSE
