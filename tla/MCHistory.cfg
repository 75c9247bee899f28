SPECIFICATION HistorySpec
CONSTANTS
  None = None
  Commits = {1, 2, 3, 4}
  HeadCommit = 1
  Histories <- AnyHistory
  Queries <- AnyPage
  ConfirmBatch = 2
  StreamBatch = 2
INVARIANTS
  LogSound
  BlameSound
PROPERTIES
  ImplementsLogOrder
  ImplementsOwners
  WalksEnd
CHECK_DEADLOCK FALSE
