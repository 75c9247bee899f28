SPECIFICATION FairTransfersSpec
CONSTANTS
  None = None
  Readers = {"r1", "r2"}
  Size = 3
  Windows <- ShortWindows
  ReportEvery = 2
  MaxChunk = 2
  MaxLoads = 1
  MaxPushes = 1
INVARIANTS
  FetchesExact
  StatsExact
  UpgradesKeep
  BundleWhole
  ImportWhole
  ArchiveWhole
PROPERTIES
  TransfersEnd
CHECK_DEADLOCK FALSE
