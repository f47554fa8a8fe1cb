SPECIFICATION FairSpec
CONSTANTS
  Host = {"h", "pod"}
  Port = {5432, 5433}
  DefaultServer <- MCDefaultServer
  Database = {"a", "b", "c"}
  Environment <- MCEnvironment
  LastAttempt = 1
  MaxScrapes = 3
INVARIANTS TypeOK GaugesTellTheTruth DiscoveryOnServers
  OneReadinessConn DescribeNotStuck
PROPERTIES ProcessAdvances StartupEnds CollectReturns
CHECK_DEADLOCK FALSE
