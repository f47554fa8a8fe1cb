SPECIFICATION Spec
CONSTANTS
  t1 = t1  t2 = t2  t3 = t3  t4 = t4  i1 = i1  i2 = i2  i3 = i3
  Scraper = {t1, t2}
  DSN = {d1}
  Server = {i1, i2}
  Version = {v1, v2}
  TornVersion = {v1, v2}
  Namespace = {n1}
  UserNamespace = {u1}
  GoodContent = {good}
  BadContent = {bad}
  MaxConns = 2
  DisableDefaultMetrics = FALSE
  DisableSettingsMetrics = TRUE
  AutoDiscoverDatabases = FALSE
  UserQueriesPath = TRUE
  None = None
  Rebuilding = Rebuilding
SYMMETRY Interchangeable
INVARIANTS TypeOK NothingHeldAfterReturn MapsCoherent NoCircularWait
  LoadSampleTellsTheTruth LoadSamplesCurrent
PROPERTIES MapsFrozenDuringScrape NoPoolOverwritten ImplementsVersionedMaps
