SPECIFICATION AbsentSpec
CONSTANTS
  None = None
  Commits = {1, 2, 3, 4}
  HeadCommit = 1
  Histories <- Pathless
  Queries <- PathPages
  ConfirmBatch = 2
  StreamBatch = 2
INVARIANT
  AbsentPathIsEmpty
CHECK_DEADLOCK FALSE
