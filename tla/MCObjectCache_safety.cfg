SPECIFICATION Spec
CONSTANTS
  Lookups = {l1, l2, l3}
  Clears = {c1}
  a = a
  b = b
  big = big
  Ids = {a, b, big}
  Malformed = {b}
  Junk = Junk
  None = None
  Size <- SizeDef
  Limit = 2
SYMMETRY LookupSymmetry
INVARIANTS
  TypeOK
  SingleFlight
  WaitersHaveOwner
  InFlightNotHeld
  OnlyVerified
  MemoryBounded
