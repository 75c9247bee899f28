SPECIFICATION PastEndSpec
CONSTANTS
  None = None
  Readers = {"r1", "r2", "r3"}
  PageSize = 2
  FileLen = 2
  Limit = 2
  Reads <- PastEndReads
  Readahead <- ReadsAhead
INVARIANT NeverPanics
CHECK_DEADLOCK FALSE
