SPECIFICATION Spec
CONSTANTS
  t1 = t1
  t2 = t2
  k = k
  l = l
  m = m
  c1 = c1
  c2 = c2
  c3 = c3
  s1 = s1
  s2 = s2
  Tabs = {t1}
  Lookups = {k}
  TabOf <- TabOfDef
  Clearers = {t1}
  Commits = {c1, c2, c3}
  Files <- FilesDef
  Settings = {s1, s2}
  NoFilter = NoFilter
  None = None
  MayAbort = FALSE
  QueueBound = 2
INVARIANT
  StoreComplete
