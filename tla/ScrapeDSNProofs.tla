-------------------------- MODULE ScrapeDSNProofs --------------------------
(***************************************************************************)
(* What ScrapeDSN guarantees for any number of goroutines, DSNs, servers,  *)
(* versions and namespaces, and any pool size.  The inductive invariant    *)
(* Inv says, for each position in the code, what its goroutine holds, and  *)
(* that the maps of a server are whole except between the two assignments  *)
(* that replace them.  Each of its parts has a lemma that one step keeps   *)
(* it; the properties of ScrapeDSN follow from Inv without further         *)
(* induction.                                                              *)
(***************************************************************************)
EXTENDS ScrapeDSN, FiniteSetTheorems, TLAPS

USE NoneAssumption

\* Where a call of Acquire goes on holding a connection.
LEMMA AcquiresType == \A p \in Acquires : p[1] \in AcquirePC /\ p[2] \in ConnPC
  BY DEF Acquires, AcquirePC, ConnPC, CheckPC

\* The keys of a metric map are namespaces.
LEMMA NamespacesType ==
  \A m \in Maps \cup {None} : Namespaces(m) \in SUBSET (Namespace \cup UserNamespace)
  BY DEF Namespaces

\* At most one goroutine is past the announcement of Lock on one server.
LEMMA OneWriter == 
  ASSUME LockInv, NEW t \in Scraper, NEW u \in Scraper, NEW i \in Server, srv[t] = i, srv[u] = i,
         pc[t] \in WritePC \cup {"lockWait"}, pc[u] \in WritePC \cup {"lockWait"}
  PROVE t = u
  BY DEF LockInv
\* addQueries merges into maps that exist, so the result is again a map.
LEMMA AddQueriesTypes ==
  ASSUME TypeOK, FrameInv, LockInv, MapsInv, NEW t \in Scraper, AddQueries(t)
  PROVE  /\ metricMap' \in [Server -> Maps \cup {None}]
         /\ queryOverrides' \in [Server -> Maps \cup {None}]
         /\ userErr' \in SUBSET Content
<1> DEFINE i == srv[t]
<1>0. pc[t] = "addQueries"
  BY DEF AddQueries
<1>1. i \in Server /\ read[t] \in Content
  BY <1>0 DEF TypeOK, FrameInv
<1>4. metricMap[i] \in Maps
  BY <1>0, <1>1 DEF TypeOK, MapsInv
<1>2. queryOverrides[i] = metricMap[i]
  <2>1. \A u \in Scraper : srv[u] = i => pc[u] # "overrides"
    BY <1>0, <1>1, OneWriter DEF WritePC
  <2> QED
    BY <1>1, <2>1 DEF MapsInv, Whole
<1>3. Merged(metricMap[i]) \in Maps
  BY <1>4 DEF Maps, Merged
<1> QED
  BY <1>1, <1>4, <1>2, <1>3 DEF AddQueries, TypeOK, mapVars

\* The initial state is well typed.
LEMMA TypeInit == Init => TypeOK
  BY DEF Init, TypeOK, PC, Content

\* Every step keeps the types.  Positions matter: a DSN or server is looked up
\* only where FrameInv says the goroutine has one.
LEMMA TypeStep == TypeOK /\ FrameInv /\ LockInv /\ MapsInv /\ [Next]_vars => TypeOK'
<1> SUFFICES ASSUME TypeOK, FrameInv, LockInv, MapsInv, [Next]_vars PROVE TypeOK'
  OBVIOUS
<1> USE DEF serversVars, mapVars, lockVars, envVars, frameVars, Goto, Return, Release, TypeOK, FrameInv, PC, GetPC, AcquirePC, ReadPC, ConnPC, CheckPC, WritePC
<1>1. CASE UNCHANGED vars
  BY <1>1 DEF vars
<1>2. ASSUME NEW t \in Scraper, Acquire(t) PROVE TypeOK'
  BY <1>2, AcquiresType DEF Acquire
<1>3. ASSUME NEW t \in Scraper, NEW d \in DSN, Begin(t, d) PROVE TypeOK'
  BY <1>3 DEF Begin
<1>4. ASSUME NEW t \in Scraper, ServersStep(t) PROVE TypeOK'
  <2>1. CASE LockServers(t)
    BY <2>1 DEF LockServers
  <2>2. CASE NewServerFails(t)
    BY <2>2 DEF NewServerFails
  <2>3. CASE PingAnswered(t)
    BY <2>3 DEF PingAnswered
  <2>4. CASE PingFails(t)
    BY <2>4 DEF PingFails
  <2>5. CASE GotServer(t)
    BY <2>5 DEF GotServer
  <2>6. CASE QueryDatabases(t)
    BY <2>6 DEF QueryDatabases
  <2>7. ASSUME NEW i \in Server, NewServer(t, i) PROVE TypeOK'
    BY <2>7 DEF NewServer
  <2> QED
    BY <1>4, <2>1, <2>2, <2>3, <2>4, <2>5, <2>6, <2>7 DEF ServersStep
<1>5. ASSUME NEW t \in Scraper, MapVersionsStep(t) PROVE TypeOK'
  <2>1. CASE VersionRead(t)
    BY <2>1 DEF VersionRead
  <2>2. CASE VersionFails(t)
    BY <2>2 DEF VersionFails
  <2>3. CASE CheckVersion(t)
    BY <2>3 DEF CheckVersion
  <2>4. CASE LockMaps(t)
    BY <2>4 DEF LockMaps, Announce
  <2>5. CASE MapsLocked(t)
    BY <2>5 DEF MapsLocked
  <2>6. CASE RebuildMetricMap(t)
    BY <2>6 DEF RebuildMetricMap, Maps
  <2>7. CASE RebuildOverrides(t)
    BY <2>7 DEF RebuildOverrides, Maps, NewOverrides, ResetSamples
  <2>8. CASE ReadUserQueries(t)
    BY <2>8 DEF ReadUserQueries
  <2>9. CASE AddQueries(t)
    BY <2>9, AddQueriesTypes DEF AddQueries
  <2>10. CASE UnlockMaps(t)
    BY <2>10 DEF UnlockMaps, Queued
  <2>11. CASE ReleaseVersionConn(t)
    BY <2>11 DEF ReleaseVersionConn
  <2> QED
    BY <1>5, <2>1, <2>2, <2>3, <2>4, <2>5, <2>6, <2>7, <2>8, <2>9, <2>10, <2>11 DEF MapVersionsStep
<1>6. ASSUME NEW t \in Scraper, ServerScrapeStep(t) PROVE TypeOK'
  <2>1. CASE RLockMaps(t)
    <3>1. srv[t] \in Server
      BY <2>1 DEF RLockMaps
    <3>2. readers' \in [Server -> SUBSET Scraper] /\ pc' \in [Scraper -> PC]
      BY <2>1, <3>1 DEF RLockMaps
    <3> QED
      BY <2>1, <3>2 DEF RLockMaps
  <2>2. CASE BeginScrape(t)
    BY <2>2, NamespacesType DEF BeginScrape
  <2>3. CASE QueryReturns(t)
    BY <2>3 DEF QueryReturns
  <2>4. CASE QueryFails(t)
    BY <2>4 DEF QueryFails
  <2>5. CASE EndScrape(t)
    BY <2>5 DEF EndScrape
  <2>6. ASSUME NEW n \in Namespace \cup UserNamespace, BeginNamespace(t, n) PROVE TypeOK'
    BY <2>6 DEF BeginNamespace
  <2> QED
    BY <1>6, <2>1, <2>2, <2>3, <2>4, <2>5, <2>6 DEF ServerScrapeStep
<1>7. ASSUME NEW d \in DSN, NEW v \in Version, Upgrade(d, v) PROVE TypeOK'
  BY <1>7 DEF Upgrade
<1>8. ASSUME NEW c \in Content, EditFile(c) PROVE TypeOK'
  BY <1>8 DEF EditFile
<1> QED
  BY <1>1, <1>2, <1>3, <1>4, <1>5, <1>6, <1>7, <1>8 DEF Next, ScraperStep

\* Every step keeps what the position says of the local variables.
LEMMA FrameStep == TypeOK /\ FrameInv /\ [Next]_vars => FrameInv'
<1> SUFFICES ASSUME TypeOK, FrameInv, [Next]_vars PROVE FrameInv'
  OBVIOUS
<1> USE DEF serversVars, mapVars, lockVars, envVars, frameVars, Goto, Return, Release, TypeOK, FrameInv, PC, GetPC, AcquirePC, ReadPC, ConnPC, CheckPC, WritePC
<1>1. CASE UNCHANGED vars
  BY <1>1 DEF vars
<1>2. ASSUME NEW t \in Scraper, Acquire(t) PROVE FrameInv'
  BY <1>2 DEF Acquire, Acquires
<1>3. ASSUME NEW t \in Scraper, NEW d \in DSN, Begin(t, d) PROVE FrameInv'
  BY <1>3 DEF Begin
<1>4. ASSUME NEW t \in Scraper, ServersStep(t) PROVE FrameInv'
  <2>1. CASE LockServers(t)
    BY <2>1 DEF LockServers
  <2>2. CASE NewServerFails(t)
    BY <2>2 DEF NewServerFails
  <2>3. CASE PingAnswered(t)
    BY <2>3 DEF PingAnswered
  <2>4. CASE PingFails(t)
    BY <2>4 DEF PingFails
  <2>5. CASE GotServer(t)
    BY <2>5 DEF GotServer
  <2>6. CASE QueryDatabases(t)
    BY <2>6 DEF QueryDatabases
  <2>7. ASSUME NEW i \in Server, NewServer(t, i) PROVE FrameInv'
    BY <2>7 DEF NewServer
  <2> QED
    BY <1>4, <2>1, <2>2, <2>3, <2>4, <2>5, <2>6, <2>7 DEF ServersStep
<1>5. ASSUME NEW t \in Scraper, MapVersionsStep(t) PROVE FrameInv'
  <2>1. CASE VersionRead(t)
    BY <2>1 DEF VersionRead
  <2>2. CASE VersionFails(t)
    BY <2>2 DEF VersionFails
  <2>3. CASE CheckVersion(t)
    BY <2>3 DEF CheckVersion
  <2>4. CASE LockMaps(t)
    BY <2>4 DEF LockMaps, Announce
  <2>5. CASE MapsLocked(t)
    BY <2>5 DEF MapsLocked
  <2>6. CASE RebuildMetricMap(t)
    BY <2>6 DEF RebuildMetricMap
  <2>7. CASE RebuildOverrides(t)
    BY <2>7 DEF RebuildOverrides
  <2>8. CASE ReadUserQueries(t)
    BY <2>8 DEF ReadUserQueries
  <2>9. CASE AddQueries(t)
    BY <2>9 DEF AddQueries
  <2>10. CASE UnlockMaps(t)
    BY <2>10 DEF UnlockMaps, Queued
  <2>11. CASE ReleaseVersionConn(t)
    BY <2>11 DEF ReleaseVersionConn
  <2> QED
    BY <1>5, <2>1, <2>2, <2>3, <2>4, <2>5, <2>6, <2>7, <2>8, <2>9, <2>10, <2>11 DEF MapVersionsStep
<1>6. ASSUME NEW t \in Scraper, ServerScrapeStep(t) PROVE FrameInv'
  <2>1. CASE RLockMaps(t)
    BY <2>1 DEF RLockMaps
  <2>2. CASE BeginScrape(t)
    BY <2>2 DEF BeginScrape
  <2>3. CASE QueryReturns(t)
    BY <2>3 DEF QueryReturns
  <2>4. CASE QueryFails(t)
    BY <2>4 DEF QueryFails
  <2>5. CASE EndScrape(t)
    BY <2>5 DEF EndScrape
  <2>6. ASSUME NEW n \in Namespace \cup UserNamespace, BeginNamespace(t, n) PROVE FrameInv'
    BY <2>6 DEF BeginNamespace
  <2> QED
    BY <1>6, <2>1, <2>2, <2>3, <2>4, <2>5, <2>6 DEF ServerScrapeStep
<1>7. ASSUME NEW d \in DSN, NEW v \in Version, Upgrade(d, v) PROVE FrameInv'
  BY <1>7 DEF Upgrade
<1>8. ASSUME NEW c \in Content, EditFile(c) PROVE FrameInv'
  BY <1>8 DEF EditFile
<1> QED
  BY <1>1, <1>2, <1>3, <1>4, <1>5, <1>6, <1>7, <1>8 DEF Next, ScraperStep

\* Every step keeps Servers.m with the goroutine inside GetServer, and the
\* entry that goroutine has looked up.
LEMMA RegistryStep == TypeOK /\ FrameInv /\ RegistryInv /\ [Next]_vars => RegistryInv'
<1> SUFFICES ASSUME TypeOK, FrameInv, RegistryInv, [Next]_vars PROVE RegistryInv'
  OBVIOUS
<1> USE DEF serversVars, mapVars, lockVars, envVars, frameVars, Goto, Return, Release, TypeOK, FrameInv, RegistryInv, PC, GetPC, AcquirePC, ReadPC, ConnPC, CheckPC, WritePC
<1>1. CASE UNCHANGED vars
  BY <1>1 DEF vars
<1>2. ASSUME NEW t \in Scraper, Acquire(t) PROVE RegistryInv'
  BY <1>2 DEF Acquire, Acquires
<1>3. ASSUME NEW t \in Scraper, NEW d \in DSN, Begin(t, d) PROVE RegistryInv'
  BY <1>3 DEF Begin
<1>4. ASSUME NEW t \in Scraper, ServersStep(t) PROVE RegistryInv'
  <2>1. CASE LockServers(t)
    BY <2>1 DEF LockServers, ServersUnlocked
  <2>2. CASE NewServerFails(t)
    BY <2>2 DEF NewServerFails
  <2>3. CASE PingAnswered(t)
    BY <2>3 DEF PingAnswered
  <2>4. CASE PingFails(t)
    BY <2>4 DEF PingFails
  <2>5. CASE GotServer(t)
    BY <2>5 DEF GotServer
  <2>6. CASE QueryDatabases(t)
    BY <2>6 DEF QueryDatabases
  <2>7. ASSUME NEW i \in Server, NewServer(t, i) PROVE RegistryInv'
    BY <2>7 DEF NewServer
  <2> QED
    BY <1>4, <2>1, <2>2, <2>3, <2>4, <2>5, <2>6, <2>7 DEF ServersStep
<1>5. ASSUME NEW t \in Scraper, MapVersionsStep(t) PROVE RegistryInv'
  <2>1. CASE VersionRead(t)
    BY <2>1 DEF VersionRead
  <2>2. CASE VersionFails(t)
    BY <2>2 DEF VersionFails
  <2>3. CASE CheckVersion(t)
    BY <2>3 DEF CheckVersion
  <2>4. CASE LockMaps(t)
    BY <2>4 DEF LockMaps, Announce
  <2>5. CASE MapsLocked(t)
    BY <2>5 DEF MapsLocked
  <2>6. CASE RebuildMetricMap(t)
    BY <2>6 DEF RebuildMetricMap
  <2>7. CASE RebuildOverrides(t)
    BY <2>7 DEF RebuildOverrides
  <2>8. CASE ReadUserQueries(t)
    BY <2>8 DEF ReadUserQueries
  <2>9. CASE AddQueries(t)
    BY <2>9 DEF AddQueries
  <2>10. CASE UnlockMaps(t)
    BY <2>10 DEF UnlockMaps, Queued
  <2>11. CASE ReleaseVersionConn(t)
    BY <2>11 DEF ReleaseVersionConn
  <2> QED
    BY <1>5, <2>1, <2>2, <2>3, <2>4, <2>5, <2>6, <2>7, <2>8, <2>9, <2>10, <2>11 DEF MapVersionsStep
<1>6. ASSUME NEW t \in Scraper, ServerScrapeStep(t) PROVE RegistryInv'
  <2>1. CASE RLockMaps(t)
    BY <2>1 DEF RLockMaps
  <2>2. CASE BeginScrape(t)
    BY <2>2 DEF BeginScrape
  <2>3. CASE QueryReturns(t)
    BY <2>3 DEF QueryReturns
  <2>4. CASE QueryFails(t)
    BY <2>4 DEF QueryFails
  <2>5. CASE EndScrape(t)
    BY <2>5 DEF EndScrape
  <2>6. ASSUME NEW n \in Namespace \cup UserNamespace, BeginNamespace(t, n) PROVE RegistryInv'
    BY <2>6 DEF BeginNamespace
  <2> QED
    BY <1>6, <2>1, <2>2, <2>3, <2>4, <2>5, <2>6 DEF ServerScrapeStep
<1>7. ASSUME NEW d \in DSN, NEW v \in Version, Upgrade(d, v) PROVE RegistryInv'
  BY <1>7 DEF Upgrade
<1>8. ASSUME NEW c \in Content, EditFile(c) PROVE RegistryInv'
  BY <1>8 DEF EditFile
<1> QED
  BY <1>1, <1>2, <1>3, <1>4, <1>5, <1>6, <1>7, <1>8 DEF Next, ScraperStep

\* Every step keeps the correspondence between positions and what is held of
\* the pools and mappingMtx, and the exclusion of readers by an active writer.
LEMMA LockStep == TypeOK /\ FrameInv /\ LockInv /\ [Next]_vars => LockInv'
<1> SUFFICES ASSUME TypeOK, FrameInv, LockInv, [Next]_vars PROVE LockInv'
  OBVIOUS
<1> USE DEF serversVars, mapVars, lockVars, envVars, frameVars, Goto, Return, Release, TypeOK, FrameInv, LockInv, PC, GetPC, AcquirePC, ReadPC, ConnPC, CheckPC, WritePC
<1>1. CASE UNCHANGED vars
  BY <1>1 DEF vars
<1>2. ASSUME NEW t \in Scraper, Acquire(t) PROVE LockInv'
  BY <1>2 DEF Acquire, Acquires
<1>3. ASSUME NEW t \in Scraper, NEW d \in DSN, Begin(t, d) PROVE LockInv'
  BY <1>3 DEF Begin
<1>4. ASSUME NEW t \in Scraper, ServersStep(t) PROVE LockInv'
  <2>1. CASE LockServers(t)
    BY <2>1 DEF LockServers
  <2>2. CASE NewServerFails(t)
    BY <2>2 DEF NewServerFails
  <2>3. CASE PingAnswered(t)
    BY <2>3 DEF PingAnswered
  <2>4. CASE PingFails(t)
    BY <2>4 DEF PingFails, AcquireFails
  <2>5. CASE GotServer(t)
    BY <2>5 DEF GotServer
  <2>6. CASE QueryDatabases(t)
    BY <2>6 DEF QueryDatabases, AcquireFails
  <2>7. ASSUME NEW i \in Server, NewServer(t, i) PROVE LockInv'
    BY <2>7 DEF NewServer
  <2> QED
    BY <1>4, <2>1, <2>2, <2>3, <2>4, <2>5, <2>6, <2>7 DEF ServersStep
<1>5. ASSUME NEW t \in Scraper, MapVersionsStep(t) PROVE LockInv'
  <2>1. CASE VersionRead(t)
    BY <2>1 DEF VersionRead
  <2>2. CASE VersionFails(t)
    BY <2>2 DEF VersionFails, AcquireFails
  <2>3. CASE CheckVersion(t)
    BY <2>3 DEF CheckVersion
  <2>4. CASE LockMaps(t)
    BY <2>4 DEF LockMaps, Announce
  <2>5. CASE MapsLocked(t)
    BY <2>5 DEF MapsLocked, Drained
  <2>6. CASE RebuildMetricMap(t)
    BY <2>6 DEF RebuildMetricMap
  <2>7. CASE RebuildOverrides(t)
    BY <2>7 DEF RebuildOverrides
  <2>8. CASE ReadUserQueries(t)
    BY <2>8 DEF ReadUserQueries
  <2>9. CASE AddQueries(t)
    BY <2>9 DEF AddQueries
  <2>10. CASE UnlockMaps(t)
    BY <2>10 DEF UnlockMaps, Queued
  <2>11. CASE ReleaseVersionConn(t)
    BY <2>11 DEF ReleaseVersionConn
  <2> QED
    BY <1>5, <2>1, <2>2, <2>3, <2>4, <2>5, <2>6, <2>7, <2>8, <2>9, <2>10, <2>11 DEF MapVersionsStep
<1>6. ASSUME NEW t \in Scraper, ServerScrapeStep(t) PROVE LockInv'
  <2>1. CASE RLockMaps(t)
    BY <2>1 DEF RLockMaps
  <2>2. CASE BeginScrape(t)
    BY <2>2 DEF BeginScrape
  <2>3. CASE QueryReturns(t)
    BY <2>3 DEF QueryReturns
  <2>4. CASE QueryFails(t)
    BY <2>4 DEF QueryFails, AcquireFails
  <2>5. CASE EndScrape(t)
    BY <2>5 DEF EndScrape
  <2>6. ASSUME NEW n \in Namespace \cup UserNamespace, BeginNamespace(t, n) PROVE LockInv'
    BY <2>6 DEF BeginNamespace
  <2> QED
    BY <1>6, <2>1, <2>2, <2>3, <2>4, <2>5, <2>6 DEF ServerScrapeStep
<1>7. ASSUME NEW d \in DSN, NEW v \in Version, Upgrade(d, v) PROVE LockInv'
  BY <1>7 DEF Upgrade
<1>8. ASSUME NEW c \in Content, EditFile(c) PROVE LockInv'
  BY <1>8 DEF EditFile
<1> QED
  BY <1>1, <1>2, <1>3, <1>4, <1>5, <1>6, <1>7, <1>8 DEF Next, ScraperStep

\* A map is never nil.
LEMMA MapsNotNone == \A m \in Maps : m # None
  OBVIOUS

\* Neither is the one a rebuild starts from.
LEMMA FreshMap == \A v \in Version : [ver |-> v, user |-> FALSE] # None
<1>1. \A v \in Version : [ver |-> v, user |-> FALSE] \in Maps
  BY DEF Maps
<1> QED
  BY <1>1, MapsNotNone

\* Merging the user queries keeps the version.
LEMMA MergedMap == \A m \in Maps : Merged(m) # None /\ Merged(m).ver = m.ver
<1>1. \A m \in Maps : Merged(m) \in Maps /\ Merged(m).ver = m.ver
  BY DEF Maps, Merged
<1> QED
  BY <1>1, MapsNotNone

\* The first assignment tears the maps of one server, whose writer knows it.
LEMMA RebuildMetricMapKeepsMapsInv ==
  ASSUME TypeOK, FrameInv, LockInv, MapsInv, NEW t \in Scraper, RebuildMetricMap(t)
  PROVE  MapsInv'
<1> DEFINE i == srv[t]
<1>1. i \in Server /\ ver[t] \in Version /\ pc[t] = "metricMap"
  BY DEF TypeOK, FrameInv, RebuildMetricMap, WritePC
<1>2. \A u \in Scraper : srv[u] = i /\ pc[u] \in WritePC => u = t
  BY <1>1, OneWriter DEF WritePC
<1>3. /\ metricMap' = [metricMap EXCEPT ![i] = [ver |-> ver[t], user |-> FALSE]]
      /\ pc' = [pc EXCEPT ![t] = "overrides"]
      /\ UNCHANGED <<queryOverrides, lastMapVersion, srv, ver>>
  BY DEF RebuildMetricMap, Goto, frameVars
<1>4. [ver |-> ver[t], user |-> FALSE] # None
  BY <1>1, FreshMap
<1>5. ASSUME NEW u \in Scraper
      PROVE  /\ pc'[u] = "overrides" =>
                  metricMap'[srv[u]] = [ver |-> ver[u], user |-> FALSE]
             /\ pc'[u] \in {"readFile", "addQueries", "unlock"} =>
                  metricMap'[srv[u]] # None
  <2>1. CASE u = t
    BY <1>1, <1>3, <2>1 DEF TypeOK
  <2>2. CASE u # t /\ srv[u] # i
    BY <1>3, <2>2 DEF TypeOK, MapsInv
  <2>3. CASE u # t /\ srv[u] = i
    BY <1>2, <1>3, <2>3 DEF TypeOK, WritePC
  <2> QED
    BY <2>1, <2>2, <2>3
<1>6. ASSUME NEW j \in Server, \A u \in Scraper : srv[u] = j => pc'[u] # "overrides"
      PROVE  Whole(j)'
  <2>1. j # i
    BY <1>1, <1>3, <1>6 DEF TypeOK
  <2>2. \A u \in Scraper : srv[u] = j => pc[u] # "overrides"
    BY <1>3, <1>6, <2>1 DEF TypeOK
  <2> QED
    BY <1>3, <2>1, <2>2 DEF TypeOK, MapsInv, Whole
<1> QED
  BY <1>3, <1>5, <1>6 DEF MapsInv

\* The second makes them whole again, for the version the writer has read.
LEMMA RebuildOverridesKeepsMapsInv ==
  ASSUME TypeOK, FrameInv, LockInv, MapsInv, NEW t \in Scraper, RebuildOverrides(t)
  PROVE  MapsInv'
<1> DEFINE i == srv[t]
<1>1. i \in Server /\ ver[t] \in Version /\ pc[t] = "overrides"
  BY DEF TypeOK, FrameInv, RebuildOverrides, WritePC
<1>2. \A u \in Scraper : srv[u] = i /\ pc[u] \in WritePC => u = t
  BY <1>1, OneWriter DEF WritePC
<1>3. /\ queryOverrides' = [queryOverrides EXCEPT ![i] = [ver |-> ver[t], user |-> FALSE]]
      /\ lastMapVersion' = [lastMapVersion EXCEPT ![i] = ver[t]]
      /\ \/ pc' = [pc EXCEPT ![t] = "readFile"]
         \/ pc' = [pc EXCEPT ![t] = "unlock"]
      /\ UNCHANGED <<metricMap, srv, ver>>
  BY DEF RebuildOverrides, NewOverrides, Goto, frameVars
<1>4. metricMap[i] = [ver |-> ver[t], user |-> FALSE] /\ metricMap[i] # None
  BY <1>1, FreshMap DEF MapsInv
<1>5. ASSUME NEW u \in Scraper
      PROVE  /\ pc'[u] = "overrides" =>
                  metricMap'[srv[u]] = [ver |-> ver[u], user |-> FALSE]
             /\ pc'[u] \in {"readFile", "addQueries", "unlock"} =>
                  metricMap'[srv[u]] # None
  BY <1>3, <1>4 DEF TypeOK, MapsInv
<1>6. ASSUME NEW j \in Server, \A u \in Scraper : srv[u] = j => pc'[u] # "overrides"
      PROVE  Whole(j)'
  <2>1. CASE j = i
    BY <1>1, <1>3, <1>4, <2>1 DEF TypeOK, Whole
  <2>2. CASE j # i
    <3>1. \A u \in Scraper : srv[u] = j => pc[u] # "overrides"
      BY <1>3, <1>6, <2>2 DEF TypeOK
    <3> QED
      BY <1>3, <2>2, <3>1 DEF TypeOK, MapsInv, Whole
  <2> QED
    BY <2>1, <2>2
<1> QED
  BY <1>3, <1>5, <1>6 DEF MapsInv

\* The user queries are merged into both maps or into neither.
LEMMA AddQueriesKeepsMapsInv ==
  ASSUME TypeOK, FrameInv, LockInv, MapsInv, NEW t \in Scraper, AddQueries(t)
  PROVE  MapsInv'
<1> DEFINE i == srv[t]
<1>1. i \in Server /\ pc[t] = "addQueries"
  BY DEF TypeOK, FrameInv, AddQueries
<1>2. \A u \in Scraper : srv[u] = i /\ pc[u] \in WritePC => u = t
  BY <1>1, OneWriter DEF WritePC
<1>3. \A u \in Scraper : srv[u] = i => pc[u] # "overrides"
  BY <1>1, <1>2 DEF WritePC
<1>4. /\ pc' = [pc EXCEPT ![t] = "unlock"]
      /\ UNCHANGED <<lastMapVersion, srv, ver>>
  BY DEF AddQueries, Goto, frameVars
<1>5. CASE UNCHANGED <<metricMap, queryOverrides>>
  <2>1. \A u \in Scraper : pc'[u] = "overrides" <=> pc[u] = "overrides"
    BY <1>1, <1>4 DEF TypeOK
  <2>2. metricMap[i] # None
    BY <1>1 DEF MapsInv
  <2> QED
    BY <1>4, <1>5, <2>1, <2>2 DEF TypeOK, MapsInv, Whole
<1>6. CASE /\ metricMap' = [metricMap EXCEPT ![i] = Merged(@)]
           /\ queryOverrides' = [queryOverrides EXCEPT ![i] = Merged(@)]
  <2>1. Whole(i) /\ metricMap[i] \in Maps
    <3>1. metricMap[i] # None
      BY <1>1 DEF MapsInv
    <3>2. metricMap[i] \in Maps
      BY <1>1, <3>1 DEF TypeOK
    <3> QED
      BY <1>1, <1>3, <3>2 DEF MapsInv
  <2>2. Merged(metricMap[i]) # None /\ Merged(metricMap[i]).ver = metricMap[i].ver
    BY <2>1, MergedMap
  <2>3. ASSUME NEW u \in Scraper
        PROVE  /\ pc'[u] = "overrides" =>
                    metricMap'[srv[u]] = [ver |-> ver[u], user |-> FALSE]
               /\ pc'[u] \in {"readFile", "addQueries", "unlock"} =>
                    metricMap'[srv[u]] # None
    <3>1. CASE u = t
      BY <1>1, <1>4, <1>6, <2>2, <3>1 DEF TypeOK
    <3>2. CASE u # t /\ srv[u] # i
      BY <1>4, <1>6, <3>2 DEF TypeOK, MapsInv
    <3>3. CASE u # t /\ srv[u] = i
      BY <1>2, <1>4, <3>3 DEF TypeOK, WritePC
    <3> QED
      BY <3>1, <3>2, <3>3
  <2>4. ASSUME NEW j \in Server, \A u \in Scraper : srv[u] = j => pc'[u] # "overrides"
        PROVE  Whole(j)'
    <3>1. CASE j = i
      BY <1>1, <1>4, <1>6, <2>1, <2>2, <3>1 DEF TypeOK, Whole
    <3>2. CASE j # i
      <4>1. \A u \in Scraper : srv[u] = j => pc[u] # "overrides"
        BY <1>4, <2>4, <3>2 DEF TypeOK
      <4> QED
        BY <1>4, <1>6, <3>2, <4>1 DEF TypeOK, MapsInv, Whole
    <3> QED
      BY <3>1, <3>2
  <2> QED
    BY <1>4, <2>3, <2>4 DEF MapsInv
<1> QED
  BY <1>5, <1>6 DEF AddQueries

\* Unlock finds the maps whole, and moves queued readers only.
LEMMA UnlockMapsKeepsMapsInv ==
  ASSUME TypeOK, MapsInv, NEW t \in Scraper, UnlockMaps(t)
  PROVE  MapsInv'
<1>1. /\ \A u \in Scraper : pc'[u] = pc[u] \/ pc'[u] \in {"release", "locked"}
      /\ \A u \in Scraper : pc'[u] = "overrides" <=> pc[u] = "overrides"
      /\ UNCHANGED <<metricMap, queryOverrides, lastMapVersion, srv, ver>>
  BY DEF TypeOK, UnlockMaps, Queued, mapVars, frameVars
<1> QED
  BY <1>1 DEF MapsInv, Whole

\* A step of t outside the rebuild, or between its last three positions, that
\* leaves the maps alone.
LEMMA MapsUntouched ==
  ASSUME MapsInv, NEW t \in Scraper,
         UNCHANGED <<metricMap, queryOverrides, lastMapVersion>>,
         \A u \in Scraper \ {t} : pc'[u] = pc[u] /\ srv'[u] = srv[u] /\ ver'[u] = ver[u],
         pc[t] # "overrides", pc'[t] # "overrides",
         pc'[t] \in {"readFile", "addQueries", "unlock"} =>
           srv'[t] = srv[t] /\ pc[t] \in {"readFile", "addQueries", "unlock"}
  PROVE  MapsInv'
<1>1. ASSUME NEW u \in Scraper, pc'[u] = "overrides"
      PROVE  metricMap'[srv'[u]] = [ver |-> ver'[u], user |-> FALSE]
  BY <1>1 DEF MapsInv
<1>2. ASSUME NEW u \in Scraper, pc'[u] \in {"readFile", "addQueries", "unlock"}
      PROVE  metricMap'[srv'[u]] # None
  BY <1>2 DEF MapsInv
<1>3. ASSUME NEW i \in Server, \A u \in Scraper : srv'[u] = i => pc'[u] # "overrides"
      PROVE  Whole(i)'
  <2>1. \A u \in Scraper : srv[u] = i => pc[u] # "overrides"
    BY <1>3
  <2> QED
    BY <2>1 DEF MapsInv, Whole
<1> QED
  BY <1>1, <1>2, <1>3 DEF MapsInv

\* Every step keeps the maps whole outside the window of one writer.
LEMMA MapsStep == TypeOK /\ FrameInv /\ LockInv /\ MapsInv /\ [Next]_vars => MapsInv'
<1> SUFFICES ASSUME TypeOK, FrameInv, LockInv, MapsInv, [Next]_vars PROVE MapsInv'
  OBVIOUS
<1> USE DEF mapVars, frameVars, Goto, Return, TypeOK
<1>1. CASE UNCHANGED vars
  BY <1>1 DEF vars, MapsInv, Whole
<1>2. ASSUME NEW t \in Scraper, Acquire(t) PROVE MapsInv'
  <2>1. pc[t] # "overrides" /\ pc'[t] \in {"ping", "list", "version", "settings", "namespace"}
    BY <1>2 DEF Acquire, Acquires, AcquirePC
  <2> QED
    BY <1>2, <2>1, MapsUntouched DEF Acquire
<1>3. ASSUME NEW t \in Scraper, NEW d \in DSN, Begin(t, d) PROVE MapsInv'
  BY <1>3, MapsUntouched DEF Begin
<1>4. ASSUME NEW t \in Scraper, ServersStep(t) PROVE MapsInv'
  <2>1. CASE LockServers(t)
    BY <2>1, MapsUntouched DEF LockServers
  <2>2. CASE NewServerFails(t)
    BY <2>2, MapsUntouched DEF NewServerFails
  <2>3. CASE PingAnswered(t)
    BY <2>3, MapsUntouched DEF PingAnswered
  <2>4. CASE PingFails(t)
    BY <2>4, MapsUntouched DEF PingFails
  <2>5. CASE GotServer(t)
    BY <2>5, MapsUntouched DEF GotServer
  <2>6. CASE QueryDatabases(t)
    BY <2>6, MapsUntouched DEF QueryDatabases
  <2>7. ASSUME NEW i \in Server, NewServer(t, i) PROVE MapsInv'
    BY <2>7, MapsUntouched DEF NewServer
  <2> QED
    BY <1>4, <2>1, <2>2, <2>3, <2>4, <2>5, <2>6, <2>7 DEF ServersStep
<1>5. ASSUME NEW t \in Scraper, MapVersionsStep(t) PROVE MapsInv'
  <2>1. CASE VersionRead(t)
    BY <2>1, MapsUntouched DEF VersionRead
  <2>2. CASE VersionFails(t)
    BY <2>2, MapsUntouched DEF VersionFails
  <2>3. CASE CheckVersion(t)
    BY <2>3, MapsUntouched DEF CheckVersion
  <2>4. CASE LockMaps(t)
    BY <2>4, MapsUntouched DEF LockMaps, Announce
  <2>5. CASE MapsLocked(t)
    BY <2>5, MapsUntouched DEF MapsLocked
  <2>6. CASE RebuildMetricMap(t)
    BY <2>6, RebuildMetricMapKeepsMapsInv
  <2>7. CASE RebuildOverrides(t)
    BY <2>7, RebuildOverridesKeepsMapsInv
  <2>8. CASE ReadUserQueries(t)
    BY <2>8, MapsUntouched DEF ReadUserQueries
  <2>9. CASE AddQueries(t)
    BY <2>9, AddQueriesKeepsMapsInv
  <2>10. CASE UnlockMaps(t)
    BY <2>10, UnlockMapsKeepsMapsInv
  <2>11. CASE ReleaseVersionConn(t)
    BY <2>11, MapsUntouched DEF ReleaseVersionConn
  <2> QED
    BY <1>5, <2>1, <2>2, <2>3, <2>4, <2>5, <2>6, <2>7, <2>8, <2>9, <2>10, <2>11 DEF MapVersionsStep
<1>6. ASSUME NEW t \in Scraper, ServerScrapeStep(t) PROVE MapsInv'
  <2>1. CASE RLockMaps(t)
    BY <2>1, MapsUntouched DEF RLockMaps
  <2>2. CASE BeginScrape(t)
    BY <2>2, MapsUntouched DEF BeginScrape
  <2>3. CASE QueryReturns(t)
    BY <2>3, MapsUntouched DEF QueryReturns
  <2>4. CASE QueryFails(t)
    BY <2>4, MapsUntouched DEF QueryFails
  <2>5. CASE EndScrape(t)
    BY <2>5, MapsUntouched DEF EndScrape
  <2>6. ASSUME NEW n \in Namespace \cup UserNamespace, BeginNamespace(t, n) PROVE MapsInv'
    BY <2>6, MapsUntouched DEF BeginNamespace
  <2> QED
    BY <1>6, <2>1, <2>2, <2>3, <2>4, <2>5, <2>6 DEF ServerScrapeStep
<1>7. ASSUME NEW d \in DSN, NEW v \in Version, Upgrade(d, v) PROVE MapsInv'
  BY <1>7 DEF Upgrade, MapsInv, Whole
<1>8. ASSUME NEW c \in Content, EditFile(c) PROVE MapsInv'
  BY <1>8 DEF EditFile, MapsInv, Whole
<1> QED
  BY <1>1, <1>2, <1>3, <1>4, <1>5, <1>6, <1>7, <1>8 DEF Next, ScraperStep

\* The invariant holds initially.
LEMMA InitInv == Init => Inv
<1> SUFFICES ASSUME Init PROVE Inv
  OBVIOUS
<1>1. TypeOK
  BY TypeInit
<1>2. FrameInv
  BY DEF Init, FrameInv, WritePC
<1>3. RegistryInv
  BY DEF Init, RegistryInv, GetPC
<1>4. LockInv
  BY DEF Init, LockInv, ConnPC, CheckPC, ReadPC, WritePC
<1>5. MapsInv
  BY DEF Init, MapsInv, Whole
<1> QED
  BY <1>1, <1>2, <1>3, <1>4, <1>5 DEF Inv

\* Every step keeps the invariant.
LEMMA StepInv == Inv /\ [Next]_vars => Inv'
  BY TypeStep, FrameStep, RegistryStep, LockStep, MapsStep DEF Inv

\* The inductive invariant holds of every behaviour of the scrapes.
THEOREM InvHolds == Spec => []Inv
  BY InitInv, StepInv, PTL DEF Spec

\* Every variable of the scrapes keeps its type.
THEOREM TypeCorrect == Spec => []TypeOK
<1>1. Inv => TypeOK
  BY DEF Inv
<1> QED
  BY <1>1, InvHolds, PTL

\* A reader excludes a writer, and without one the maps are whole.
LEMMA CoherentStep == Inv => MapsCoherent
<1> SUFFICES ASSUME Inv, NEW i \in Server, readers[i] # {} PROVE Whole(i)
  BY DEF MapsCoherent
<1>1. \A t \in Scraper : srv[t] = i => pc[t] # "overrides"
  BY DEF Inv, LockInv, WritePC
<1> QED
  BY <1>1 DEF Inv, MapsInv

\* An idle goroutine is at a position that holds nothing.
LEMMA ReturnStep == Inv => NothingHeldAfterReturn
  BY DEF Inv, RegistryInv, LockInv, NothingHeldAfterReturn, GetPC, ConnPC, CheckPC, ReadPC, WritePC

\* A goroutine waits for a connection without holding one of the same pool, so
\* the others hold fewer than there are goroutines.
LEMMA CountStep ==
  ASSUME Cardinality(Scraper) <= MaxConns PROVE Inv => NoCircularWait
<1> SUFFICES ASSUME Inv, NEW t \in Scraper, NEW i \in Server,
                    t \in readers[i], pc[t] \in AcquirePC
             PROVE  Available(i)
  BY DEF NoCircularWait
<1>1. t \notin conns[i]
  BY DEF Inv, LockInv, AcquirePC, ConnPC, CheckPC, WritePC
<1>2. conns[i] \subseteq Scraper \ {t}
  BY <1>1 DEF Inv, TypeOK
<1>3. IsFiniteSet(Scraper \ {t}) /\ Cardinality(Scraper \ {t}) = Cardinality(Scraper) - 1
  BY ScraperAssumption, FS_RemoveElement
<1>4. Cardinality(conns[i]) <= Cardinality(Scraper) - 1
  BY <1>2, <1>3, FS_Subset
<1>5. Cardinality(conns[i]) \in Nat /\ Cardinality(Scraper) \in Nat
  BY <1>2, <1>3, ScraperAssumption, FS_Subset, FS_CardinalityType
<1> QED
  BY <1>4, <1>5, PoolAssumption DEF Available, PoolSize

\* Only a writer assigns the maps, and a writer excludes readers.
LEMMA FrozenStep == Inv /\ [Next]_vars =>
  \A i \in Server : readers[i] # {} =>
    UNCHANGED <<metricMap[i], queryOverrides[i], lastMapVersion[i]>>
<1> SUFFICES ASSUME Inv, [Next]_vars, NEW i \in Server, readers[i] # {}
             PROVE  UNCHANGED <<metricMap[i], queryOverrides[i], lastMapVersion[i]>>
  OBVIOUS
<1>1. \A t \in Scraper : pc[t] \in WritePC => srv[t] # i
  BY DEF Inv, LockInv
<1>2. CASE UNCHANGED mapVars
  BY <1>2 DEF mapVars
<1>3. ASSUME NEW t \in Scraper,
             RebuildMetricMap(t) \/ RebuildOverrides(t) \/ AddQueries(t)
      PROVE  UNCHANGED <<metricMap[i], queryOverrides[i], lastMapVersion[i]>>
  <2>1. srv[t] # i
    BY <1>1, <1>3 DEF RebuildMetricMap, RebuildOverrides, AddQueries, WritePC
  <2> QED
    BY <1>3, <2>1 DEF Inv, TypeOK, RebuildMetricMap, RebuildOverrides, AddQueries
<1> QED
  BY <1>2, <1>3 DEF Next, ScraperStep, Begin, Upgrade, EditFile, Acquire,
     ServersStep, LockServers, NewServerFails, PingAnswered, PingFails, GotServer,
     QueryDatabases, NewServer,
     MapVersionsStep, VersionRead, VersionFails, CheckVersion, LockMaps, MapsLocked,
     ReadUserQueries, UnlockMaps, ReleaseVersionConn,
     ServerScrapeStep, RLockMaps, BeginScrape, BeginNamespace, QueryReturns,
     QueryFails, EndScrape, vars

\* Of all steps only NewServer and a failed Ping assign Servers.servers.
LEMMA RegistryChange == Inv /\ [Next]_vars =>
  \A d \in DSN : registry[d] # None /\ registry'[d] # registry[d] =>
       /\ registry'[d] = None
       /\ \E t \in Scraper : /\ mutex = t /\ dsn[t] = d /\ srv[t] = registry[d]
                             /\ pc[t] \in {"pingAcquire", "ping"}
<1> SUFFICES ASSUME Inv, [Next]_vars, NEW d \in DSN,
                    registry[d] # None, registry'[d] # registry[d]
             PROVE  /\ registry'[d] = None
                    /\ \E t \in Scraper :
                         /\ mutex = t /\ dsn[t] = d /\ srv[t] = registry[d]
                         /\ pc[t] \in {"pingAcquire", "ping"}
  OBVIOUS
<1>1. \/ \E t \in Scraper : PingFails(t)
      \/ \E t \in Scraper, i \in Server : NewServer(t, i)
  BY DEF Next, ScraperStep, Begin, Upgrade, EditFile, Acquire,
     ServersStep, LockServers, NewServerFails, PingAnswered, GotServer,
     QueryDatabases,
     MapVersionsStep, VersionRead, VersionFails, CheckVersion, LockMaps, MapsLocked,
     RebuildMetricMap, RebuildOverrides, AddQueries,
     ReadUserQueries, UnlockMaps, ReleaseVersionConn,
     ServerScrapeStep, RLockMaps, BeginScrape, BeginNamespace, QueryReturns,
     QueryFails, EndScrape, vars, serversVars
<1>2. \A t \in Scraper, i \in Server : ~NewServer(t, i)
  BY DEF NewServer, Inv, TypeOK, FrameInv, RegistryInv
<1>3. PICK t \in Scraper : PingFails(t)
  BY <1>1, <1>2
<1> QED
  BY <1>3 DEF PingFails, Inv, TypeOK, FrameInv, RegistryInv, GetPC

\* Whichever way scrapeDSN or queryDatabases returns, the goroutine has given
\* back every connection, both sides of mappingMtx, and Servers.m.
THEOREM AllReturned == Spec => []NothingHeldAfterReturn
  BY InvHolds, ReturnStep, PTL

\* Whatever versions concurrent checks see, a scrape runs with a metric map,
\* query overrides and version that come from one rebuild.
THEOREM ScrapesCoherent == Spec => []MapsCoherent
  BY InvHolds, CoherentStep, PTL

\* No step changes the maps of a server while a scrape iterates over them.
THEOREM MapsFrozen == Spec => MapsFrozenDuringScrape
<1>1. Inv /\ [Next]_vars =>
        [\A i \in Server : readers[i] # {} =>
           UNCHANGED <<metricMap[i], queryOverrides[i], lastMapVersion[i]>>]_vars
  BY FrozenStep
<1> QED
  BY <1>1, InvHolds, PTL DEF Spec, MapsFrozenDuringScrape

\* An entry of Servers.servers, and with it a connection pool, is never replaced
\* by another: it leaves only by the failed Ping of a goroutine holding Servers.m.
THEOREM PoolsKept == Spec => NoPoolOverwritten
<1>1. Inv /\ [Next]_vars =>
        [\A d \in DSN : registry[d] # None /\ registry'[d] # registry[d] =>
           /\ registry'[d] = None
           /\ \E t \in Scraper : /\ mutex = t /\ dsn[t] = d /\ srv[t] = registry[d]
                                 /\ pc[t] \in {"pingAcquire", "ping"}]_vars
  BY RegistryChange
<1> QED
  BY <1>1, InvHolds, PTL DEF Spec, NoPoolOverwritten

\* With no more concurrent scrapes than MaxConns, no scrape that holds the read
\* lock can find its pool exhausted by goroutines waiting for that lock.
THEOREM PoolSuffices ==
  ASSUME Cardinality(Scraper) <= MaxConns
  PROVE  Spec => []NoCircularWait
<1>1. Inv => NoCircularWait
  BY CountStep
<1> QED
  BY <1>1, InvHolds, PTL
============================================================================
