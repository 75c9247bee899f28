SPECIFICATION FairSpec
CONSTANTS
  Lookups = {l1, l2, l3}
  Clears = {c1}
  a = a
  b = b
  big = big
  Ids = {a, big}
  Malformed = {}
  Junk = Junk
  None = None
  Size <- SizeDef
  Limit = 2
PROPERTY
  ImplementsLookup
