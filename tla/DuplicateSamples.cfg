SPECIFICATION Spec
CONSTANTS
  Host = {"h", "pod"}
  Port = {5432, 5433}
  DefaultServer <- MCDefaultServer
  Database = {"a", "b", "c"}
  Environment <- MCEnvironment
  LastAttempt = 1
  MaxScrapes = 2
INVARIANT NoDuplicateMetrics
CHECK_DEADLOCK FALSE
