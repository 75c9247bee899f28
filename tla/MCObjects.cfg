SPECIFICATION ObjectsSpec
CONSTANTS
  None = None
  Corrupt = Corrupt
  Clients = {"c1", "c2"}
  Ids = {1, 2, 3, 4, 5, 6}
  Size <- SizeOf
  Packs <- TwoPacks
  Present = {"a", "b"}
  Listings <- OneListing
  Loose = {}
  Pushes = {}
  Repacks <- OneRepack
  Lookups = 3
  Limit = 3
INVARIANTS
  LookupsSound
  PacksReadBack
  DiffExact
  GraphFileTrue
  AttributesExact
PROPERTIES
  ImplementsLru
  LookupsEnd
CHECK_DEADLOCK FALSE
