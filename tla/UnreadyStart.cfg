SPECIFICATION Spec
CONSTANTS
  Host = {"h", "pod"}
  Port = {5432, 5433}
  DefaultServer <- MCDefaultServer
  Database = {"a", "b", "c"}
  Environment <- MCEnvironment
  LastAttempt = 60
  MaxScrapes = 2
INVARIANT ReadyBeforeServing
CHECK_DEADLOCK FALSE
