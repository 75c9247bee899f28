SPECIFICATION CachesSpec
CONSTANTS
  None = None
  Readers = {"r1", "r2", "r3"}
  PageSize = 2
  FileLen = 5
  Limit = 2
  Reads <- FewReads
  Readahead <- ReadsAhead
INVARIANTS
  PagesShared
PROPERTIES
  CachesEnd
CHECK_DEADLOCK FALSE
