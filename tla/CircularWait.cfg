SPECIFICATION Spec
CONSTANTS
  t1 = t1  t2 = t2  t3 = t3  t4 = t4  i1 = i1  i2 = i2  i3 = i3
  Scraper = {t1, t2, t3, t4}
  DSN = {d1}
  Server = {i1}
  Version = {v1, v2}
  TornVersion = {}
  Namespace = {n1}
  UserNamespace = {u1}
  GoodContent = {good}
  BadContent = {}
  MaxConns = 3
  DisableDefaultMetrics = FALSE
  DisableSettingsMetrics = TRUE
  AutoDiscoverDatabases = FALSE
  UserQueriesPath = FALSE
  None = None
  Rebuilding = Rebuilding
SYMMETRY Interchangeable
INVARIANT NoCircularWait
