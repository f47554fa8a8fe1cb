---------------------------- MODULE OverlapProofs --------------------------
(***************************************************************************)
(* What the overlap of scrapes costs: which maps a scrape may run with,    *)
(* and what user_queries_load_error may say, when scrapes overlap as they  *)
(* like, when one server is scraped, and when one scrape runs at a time.   *)
(***************************************************************************)
EXTENDS ScrapeDSNProofs, ScrapeHistory

----------------------------------------------------------------------------
(* One goroutine, over any DSNs, servers, versions, upgrades and files.    *)

OneScraper == \A t, u \in Scraper : t = u

\* Positions before the version is known, and after the maps are made for it.
Unversioned == {"idle", "get", "connect", "pingAcquire", "ping", "got",
                "listAcquire", "list", "versionAcquire", "version"}
Versioned == {"readFile", "addQueries", "unlock", "release", "rlock", "rlockWait"}
               \cup ReadPC

VersionInv == \A t \in Scraper :
  /\ pc[t] \in Unversioned => ver[t] = None
  /\ pc[t] \in Versioned /\ ver[t] # None => lastMapVersion[srv[t]] = ver[t]

\* The goroutine begins without a version.
LEMMA SequentialInit == Init => VersionInv
  BY DEF Init, VersionInv, Versioned, ReadPC

\* Each step of the only goroutine keeps the maps those of its version.
LEMMA VersionStep ==
  ASSUME OneScraper, Inv, VersionInv, [Next]_vars
  PROVE  VersionInv'
<1>. USE DEF serversVars, mapVars, lockVars, envVars, frameVars, Goto, Return,
             Versioned, Unversioned, ReadPC
<1>0. TypeOK /\ FrameInv
  BY DEF Inv
<1>. SUFFICES ASSUME NEW t \in Scraper
     PROVE  /\ pc'[t] \in Unversioned => ver'[t] = None
            /\ pc'[t] \in Versioned /\ ver'[t] # None => lastMapVersion'[srv'[t]] = ver'[t]
  BY DEF VersionInv
<1>1. /\ pc[t] \in Unversioned => ver[t] = None
      /\ pc[t] \in Versioned /\ ver[t] # None => lastMapVersion[srv[t]] = ver[t]
  BY DEF VersionInv
<1>2. \A u \in Scraper : u = t
  BY DEF OneScraper
<1>3. /\ pc \in [Scraper -> PC] /\ ver \in [Scraper -> Version \cup {None}]
      /\ srv \in [Scraper -> Server \cup {None}]
      /\ lastMapVersion \in [Server -> Version \cup {None}]
  BY <1>0 DEF TypeOK
<1>4. CASE UNCHANGED vars
  BY <1>1, <1>4 DEF vars
<1>5. CASE \E d \in DSN, v \in Version : Upgrade(d, v)
  BY <1>1, <1>5 DEF Upgrade
<1>6. CASE \E c \in Content : EditFile(c)
  BY <1>1, <1>6 DEF EditFile
<1>7. CASE \E d \in DSN : Begin(t, d)
  BY <1>1, <1>3, <1>7 DEF Begin
<1>8. CASE Acquire(t)
  BY <1>1, <1>3, <1>8 DEF Acquire, Acquires
<1>9. CASE ServersStep(t)
  BY <1>1, <1>3, <1>9
  DEF ServersStep, LockServers, NewServer, NewServerFails, PingAnswered, PingFails,
      GotServer, QueryDatabases, AcquirePC, AcquireFails
<1>10. CASE MapVersionsStep(t)
  <2>1. CASE VersionRead(t) \/ VersionFails(t)
    BY <1>1, <1>3, <2>1 DEF VersionRead, VersionFails, AcquireFails
  <2>2. CASE CheckVersion(t)
    <3>1. Storing(t) = {}
      BY <1>2, <2>2 DEF Storing, CheckVersion
    <3>. QED  BY <1>1, <1>3, <2>2, <3>1 DEF CheckVersion, Outdated
  <2>3. CASE LockMaps(t) \/ MapsLocked(t) \/ RebuildMetricMap(t)
    BY <1>1, <1>3, <2>3 DEF LockMaps, MapsLocked, RebuildMetricMap
  <2>4. CASE RebuildOverrides(t)
    <3>1. srv[t] \in Server
      BY <1>0, <1>3, <2>4 DEF FrameInv, RebuildOverrides
    <3>. QED  BY <1>3, <2>4, <3>1 DEF RebuildOverrides
  <2>5. CASE ReadUserQueries(t) \/ AddQueries(t)
    BY <1>1, <1>3, <2>5 DEF ReadUserQueries, AddQueries
  <2>6. CASE UnlockMaps(t) \/ ReleaseVersionConn(t)
    BY <1>1, <1>3, <2>6 DEF UnlockMaps, ReleaseVersionConn
  <2>. QED  BY <1>10, <2>1, <2>2, <2>3, <2>4, <2>5, <2>6 DEF MapVersionsStep
<1>11. CASE ServerScrapeStep(t)
  <2>1. CASE RLockMaps(t)
    BY <1>1, <1>3, <2>1 DEF RLockMaps
  <2>2. CASE BeginScrape(t) \/ \E n \in Namespace \cup UserNamespace : BeginNamespace(t, n)
    BY <1>1, <1>3, <2>2 DEF BeginScrape, BeginNamespace
  <2>3. CASE QueryReturns(t) \/ QueryFails(t)
    BY <1>1, <1>3, <2>3 DEF QueryReturns, QueryFails, AcquireFails
  <2>4. CASE EndScrape(t)
    BY <1>3, <2>4 DEF EndScrape
  <2>. QED  BY <1>11, <2>1, <2>2, <2>3, <2>4 DEF ServerScrapeStep
<1>. QED
  BY <1>2, <1>4, <1>5, <1>6, <1>7, <1>8, <1>9, <1>10, <1>11 DEF Next, ScraperStep

\* While scrapes do not overlap, each runs with the maps of the version it has
\* just read, if the database still has that version (exporter.go:154-166).
THEOREM CheckedVersionScraped ==
  ASSUME OneScraper
  PROVE  Spec => []ScrapedWithCheckedVersion
<1>1. Inv /\ VersionInv => ScrapedWithCheckedVersion
  <2>. SUFFICES ASSUME Inv, VersionInv, NEW t \in Scraper, srv[t] # None,
                       t \in readers[srv[t]], ver[t] # None
               PROVE  lastMapVersion[srv[t]] = ver[t]
    BY DEF ScrapedWithCheckedVersion
  <2>1. srv[t] \in Server
    BY DEF Inv, TypeOK
  <2>2. pc[t] \in Versioned
    BY <2>1 DEF Inv, LockInv, Versioned
  <2>. QED  BY <2>2 DEF VersionInv
<1>2. Spec => []VersionInv
  BY InvHolds, SequentialInit, VersionStep, PTL DEF Spec
<1>. QED  BY <1>1, <1>2, InvHolds, PTL

----------------------------------------------------------------------------
(* Overlapping scrapes: stale maps.                                        *)

Coming(t) == \E u \in Scraper \ {t} : srv[u] = srv[t] /\ pc[u] = "overrides"

OvertakenInv == \A t \in Scraper :
  /\ pc[t] \in Unversioned => ver[t] = None
  /\ pc[t] \in Versioned /\ ver[t] # None /\ ~overtaken[t] =>
       lastMapVersion[srv[t]] = ver[t] \/ Coming(t)

\* A version is stored by the step that leaves "overrides", and by no other.
LEMMA StoresStore ==
  ASSUME Inv, [Next]_vars
  PROVE  /\ \A i \in Server : \/ lastMapVersion'[i] = lastMapVersion[i]
                              \/ \E w \in Scraper : srv[w] = i /\ Stores(w)
         /\ \A w \in Scraper : Stores(w) => lastMapVersion'[srv[w]] = ver[w]
         /\ \A w \in Scraper : pc[w] = "overrides" => srv'[w] = srv[w] /\ ver'[w] = ver[w]
<1>. USE DEF serversVars, mapVars, lockVars, envVars, frameVars, Goto, Return, Stores
<1>0. /\ pc \in [Scraper -> PC] /\ ver \in [Scraper -> Version \cup {None}]
      /\ srv \in [Scraper -> Server \cup {None}]
      /\ lastMapVersion \in [Server -> Version \cup {None}]
  BY DEF Inv, TypeOK
<1>1. CASE UNCHANGED vars
  BY <1>1 DEF vars
<1>2. CASE \/ \E d \in DSN, v \in Version : Upgrade(d, v)
           \/ \E c \in Content : EditFile(c)
  BY <1>2 DEF Upgrade, EditFile
<1>3. ASSUME NEW t \in Scraper, \E d \in DSN : Begin(t, d)
      PROVE  UNCHANGED <<lastMapVersion, srv, ver>> /\ \A w \in Scraper : ~Stores(w)
  BY <1>0, <1>3 DEF Begin
<1>4. ASSUME NEW t \in Scraper, ScraperStep(t), ~RebuildOverrides(t)
      PROVE  /\ UNCHANGED lastMapVersion
             /\ \A w \in Scraper : ~Stores(w)
             /\ \A w \in Scraper : pc[w] = "overrides" => srv'[w] = srv[w] /\ ver'[w] = ver[w]
  <2>1. CASE Acquire(t)
    BY <1>0, <2>1 DEF Acquire, AcquirePC
  <2>2. CASE ServersStep(t)
    BY <1>0, <2>2
    DEF ServersStep, LockServers, NewServer, NewServerFails, PingAnswered, PingFails,
        GotServer, QueryDatabases
  <2>3. CASE ServerScrapeStep(t)
    BY <1>0, <2>3
    DEF ServerScrapeStep, RLockMaps, BeginScrape, BeginNamespace, QueryReturns, QueryFails,
        EndScrape
  <2>4. CASE MapVersionsStep(t)
    BY <1>0, <1>4, <2>4
    DEF MapVersionsStep, VersionRead, VersionFails, CheckVersion, LockMaps, MapsLocked,
        RebuildMetricMap, ReadUserQueries, AddQueries, UnlockMaps, Queued,
        ReleaseVersionConn
  <2>. QED  BY <1>4, <2>1, <2>2, <2>3, <2>4 DEF ScraperStep
<1>5. ASSUME NEW t \in Scraper, RebuildOverrides(t)
      PROVE  /\ lastMapVersion' = [lastMapVersion EXCEPT ![srv[t]] = ver[t]]
             /\ srv[t] \in Server /\ UNCHANGED <<srv, ver>>
             /\ Stores(t) /\ \A w \in Scraper : Stores(w) => w = t
  BY <1>0, <1>5 DEF RebuildOverrides, Inv, FrameInv
<1>. QED  BY <1>0, <1>1, <1>2, <1>3, <1>4, <1>5 DEF Next

\* How a goroutine gets past the comparison with the version it has read.
LEMMA PastCheck ==
  ASSUME Inv, [Next]_vars, NEW t \in Scraper, pc[t] \in Unversioned => ver[t] = None
  PROVE  /\ pc'[t] \in Unversioned => ver'[t] = None
         /\ pc'[t] \in Versioned /\ ver'[t] # None =>
              /\ srv'[t] = srv[t] /\ ver'[t] = ver[t]
              /\ \/ pc[t] \in Versioned \/ Stores(t)
                 \/ lastMapVersion[srv[t]] = ver[t] \/ Coming(t)
<1>. USE DEF serversVars, mapVars, lockVars, envVars, frameVars, Goto, Return,
             Versioned, Unversioned, ReadPC, Stores
<1>0. /\ pc \in [Scraper -> PC] /\ ver \in [Scraper -> Version \cup {None}]
      /\ srv \in [Scraper -> Server \cup {None}]
  BY DEF Inv, TypeOK
<1>1. CASE UNCHANGED vars
  BY <1>1 DEF vars
<1>2. CASE \/ \E d \in DSN, v \in Version : Upgrade(d, v)
           \/ \E c \in Content : EditFile(c)
  BY <1>2 DEF Upgrade, EditFile
<1>3. CASE \E u \in Scraper, d \in DSN : Begin(u, d)
  BY <1>0, <1>3 DEF Begin
<1>4. ASSUME NEW u \in Scraper, ScraperStep(u), u # t
      PROVE  /\ srv'[t] = srv[t] /\ ver'[t] = ver[t]
             /\ pc'[t] = pc[t] \/ (pc[t] = "rlockWait" /\ pc'[t] = "locked")
  <2>1. CASE Acquire(u)
    BY <1>0, <1>4, <2>1 DEF Acquire
  <2>2. CASE ServersStep(u)
    BY <1>0, <1>4, <2>2
    DEF ServersStep, LockServers, NewServer, NewServerFails, PingAnswered, PingFails,
        GotServer, QueryDatabases
  <2>3. CASE ServerScrapeStep(u)
    BY <1>0, <1>4, <2>3
    DEF ServerScrapeStep, RLockMaps, BeginScrape, BeginNamespace, QueryReturns, QueryFails,
        EndScrape
  <2>4. CASE MapVersionsStep(u)
    BY <1>0, <1>4, <2>4
    DEF MapVersionsStep, VersionRead, VersionFails, CheckVersion, LockMaps, MapsLocked,
        RebuildMetricMap, RebuildOverrides, ReadUserQueries, AddQueries, UnlockMaps, Queued,
        ReleaseVersionConn
  <2>. QED  BY <1>4, <2>1, <2>2, <2>3, <2>4 DEF ScraperStep
<1>5. CASE Acquire(t)
  BY <1>0, <1>5 DEF Acquire, Acquires
<1>6. CASE ServersStep(t)
  BY <1>0, <1>6
  DEF ServersStep, LockServers, NewServer, NewServerFails, PingAnswered, PingFails,
      GotServer, QueryDatabases, AcquirePC, AcquireFails
<1>7. CASE CheckVersion(t)
  <2>1. \A u \in Storing(t) : u \in Scraper \ {t} /\ srv[u] = srv[t] /\ pc[u] = "overrides"
    BY <1>7 DEF CheckVersion, Storing
  <2>. QED  BY <1>0, <1>7, <2>1 DEF CheckVersion, Outdated, Coming
<1>8. CASE VersionRead(t) \/ VersionFails(t)
  BY <1>0, <1>8 DEF VersionRead, VersionFails, AcquireFails
<1>9. CASE \/ LockMaps(t) \/ MapsLocked(t) \/ RebuildMetricMap(t) \/ RebuildOverrides(t)
           \/ ReadUserQueries(t) \/ AddQueries(t) \/ UnlockMaps(t) \/ ReleaseVersionConn(t)
  BY <1>0, <1>9
  DEF LockMaps, MapsLocked, RebuildMetricMap, RebuildOverrides, ReadUserQueries, AddQueries,
      UnlockMaps, ReleaseVersionConn
<1>10. CASE ServerScrapeStep(t)
  BY <1>0, <1>10
  DEF ServerScrapeStep, RLockMaps, BeginScrape, BeginNamespace, QueryReturns, QueryFails,
      EndScrape, AcquireFails
<1>. QED
  BY <1>1, <1>2, <1>3, <1>4, <1>5, <1>6, <1>7, <1>8, <1>9, <1>10
  DEF Next, ScraperStep, MapVersionsStep

\* The history only watches: what it adds to a behaviour of the scrapes is itself.
LEMMA HistoryImplements == HistorySpec => Spec
<1>1. HistoryInit => Init
  BY DEF HistoryInit
<1>2. [HistoryNext]_<<vars, overtaken>> => [Next]_vars
  BY DEF HistoryNext
<1>. QED  BY <1>1, <1>2, PTL DEF HistorySpec, Spec

\* Initially nobody carries a version.
LEMMA OvertakenInit == Init => OvertakenInv
  BY DEF Init, OvertakenInv, Versioned, ReadPC

\* A scrape that nobody has overtaken keeps the maps of its version, or the
\* goroutine that was storing them when it compared is still to do so.
LEMMA OvertakenStep ==
  ASSUME Inv, OvertakenInv, [HistoryNext]_<<vars, overtaken>>
  PROVE  OvertakenInv'
<1>1. [Next]_vars
  BY DEF HistoryNext
<1>2. CASE UNCHANGED <<vars, overtaken>>
  BY <1>2 DEF vars, frameVars, mapVars, OvertakenInv, Coming
<1>3. ASSUME Remember, NEW t \in Scraper
      PROVE  /\ pc'[t] \in Unversioned => ver'[t] = None
             /\ pc'[t] \in Versioned /\ ver'[t] # None /\ ~overtaken'[t] =>
                  lastMapVersion'[srv'[t]] = ver'[t] \/ Coming(t)'
  <2>0. pc[t] \in Unversioned => ver[t] = None
    BY DEF OvertakenInv
  <2>1. pc'[t] \in Unversioned => ver'[t] = None
    BY <1>1, <2>0, PastCheck
  <2>2. ASSUME pc'[t] \in Versioned, ver'[t] # None, ~overtaken'[t]
        PROVE  lastMapVersion'[srv'[t]] = ver'[t] \/ Coming(t)'
    <3>1. /\ srv'[t] = srv[t] /\ ver'[t] = ver[t]
          /\ \/ pc[t] \in Versioned \/ Stores(t)
             \/ lastMapVersion[srv[t]] = ver[t] \/ Coming(t)
      BY <1>1, <2>0, <2>2, PastCheck
    <3>2. /\ ~overtaken[t]
          /\ \A u \in Scraper \ {t} : srv[u] = srv[t] => ~Stores(u)
      BY <1>3, <2>2 DEF Remember
    <3>3. CASE Stores(t)
      BY <1>1, <3>1, <3>3, StoresStore
    <3>4. CASE ~Stores(t)
      <4>1. srv[t] \in Server
        <5>1. Inv'
          BY <1>1, StepInv
        <5>2. srv'[t] # None /\ srv'[t] \in Server \cup {None}
          BY <2>2, <5>1 DEF Inv, TypeOK, FrameInv, Versioned, ReadPC
        <5>. QED  BY <3>1, <5>2
      <4>2. lastMapVersion'[srv[t]] = lastMapVersion[srv[t]]
        BY <1>1, <3>2, <3>4, <4>1, StoresStore
      <4>3. lastMapVersion[srv[t]] = ver[t] \/ Coming(t)
        BY <2>2, <3>1, <3>2, <3>4 DEF OvertakenInv
      <4>4. CASE Coming(t)
        <5>1. PICK u \in Scraper \ {t} : srv[u] = srv[t] /\ pc[u] = "overrides"
          BY <4>4 DEF Coming
        <5>2. pc'[u] = "overrides" /\ srv'[u] = srv'[t]
          BY <1>1, <3>1, <3>2, <5>1, StoresStore DEF Stores
        <5>. QED  BY <5>1, <5>2 DEF Coming
      <4>. QED  BY <3>1, <4>2, <4>3, <4>4
    <3>. QED  BY <3>3, <3>4
  <2>. QED  BY <2>1, <2>2
<1>. QED  BY <1>2, <1>3 DEF HistoryNext, OvertakenInv

\* However scrapes overlap, one runs with other maps than those of the version
\* it has read only if another goroutine has stored a version in between: the
\* comparison outside mappingMtx (exporter.go:154) lets nothing else through.
THEOREM StaleOnlyByOvertaking == HistorySpec => []StaleOnlyIfOvertaken
<1>1. Inv /\ OvertakenInv => StaleOnlyIfOvertaken
  <2>. SUFFICES ASSUME Inv, OvertakenInv, NEW t \in Scraper, srv[t] # None,
                       t \in readers[srv[t]], ver[t] # None, ~overtaken[t]
               PROVE  lastMapVersion[srv[t]] = ver[t]
    BY DEF StaleOnlyIfOvertaken
  <2>1. srv[t] \in Server
    BY DEF Inv, TypeOK
  <2>2. pc[t] \in Versioned
    BY <2>1 DEF Inv, LockInv, Versioned
  <2>3. ~Coming(t)
    BY <2>1 DEF Inv, LockInv, Coming, WritePC
  <2>. QED  BY <2>2, <2>3 DEF OvertakenInv
<1>2. HistoryInit => OvertakenInv
  BY OvertakenInit DEF HistoryInit
<1>3. HistorySpec => []Inv
  BY HistoryImplements, InvHolds, PTL
<1>4. HistorySpec => []OvertakenInv
  BY <1>2, <1>3, OvertakenStep, PTL DEF HistorySpec
<1>. QED  BY <1>1, <1>3, <1>4, PTL

----------------------------------------------------------------------------
(* Overlapping scrapes: the samples of the loads.                          *)

LoadPC == {"overrides", "readFile", "addQueries"}

\* A step that is part of no rebuild but its end: who loads, and what has been
\* loaded, is the same after it.
Quiet ==
  /\ UNCHANGED <<metricMap, userErr>>
  /\ \A u \in Scraper : \/ pc'[u] = pc[u] /\ srv'[u] = srv[u]
                        \/ pc[u] \notin LoadPC /\ pc'[u] \notin LoadPC

\* All steps are quiet but those of a rebuild.
LEMMA LoadsLoad ==
  ASSUME Inv, [Next]_vars
  PROVE  \/ Quiet /\ (UNCHANGED created \/ \E t \in Scraper, i \in Server : NewServer(t, i))
         \/ /\ UNCHANGED created
            /\ \E t \in Scraper : \/ RebuildMetricMap(t) \/ RebuildOverrides(t)
                                  \/ ReadUserQueries(t) \/ AddQueries(t)
<1>. USE DEF serversVars, mapVars, lockVars, envVars, frameVars, Goto, Return, Quiet
<1>0. /\ pc \in [Scraper -> PC] /\ srv \in [Scraper -> Server \cup {None}]
      /\ created \in SUBSET Server
  BY DEF Inv, TypeOK
<1>1. CASE UNCHANGED vars
  BY <1>1 DEF vars
<1>2. CASE \/ \E d \in DSN, v \in Version : Upgrade(d, v)
           \/ \E c \in Content : EditFile(c)
  BY <1>2 DEF Upgrade, EditFile
<1>3. CASE \E t \in Scraper, d \in DSN : Begin(t, d)
  BY <1>0, <1>3 DEF Begin, LoadPC
<1>4. CASE \E t \in Scraper : Acquire(t)
  BY <1>0, <1>4 DEF Acquire, Acquires, LoadPC
<1>5. CASE \E t \in Scraper : ServersStep(t)
  BY <1>0, <1>5
  DEF ServersStep, LockServers, NewServer, NewServerFails, PingAnswered, PingFails,
      GotServer, QueryDatabases, AcquireFails, AcquirePC, LoadPC
<1>6. CASE \E t \in Scraper : UnlockMaps(t)
  BY <1>0, <1>6 DEF UnlockMaps, Queued, LoadPC
<1>7. ASSUME NEW t \in Scraper, MapVersionsStep(t), ~UnlockMaps(t)
      PROVE  UNCHANGED created /\ (Quiet \/ RebuildMetricMap(t) \/ RebuildOverrides(t)
                                       \/ ReadUserQueries(t) \/ AddQueries(t))
  <2>1. CASE RebuildMetricMap(t) \/ RebuildOverrides(t) \/ ReadUserQueries(t) \/ AddQueries(t)
    BY <2>1 DEF RebuildMetricMap, RebuildOverrides, ReadUserQueries, AddQueries
  <2>2. CASE \/ VersionRead(t) \/ VersionFails(t) \/ CheckVersion(t) \/ LockMaps(t)
             \/ MapsLocked(t) \/ ReleaseVersionConn(t)
    BY <1>0, <2>2
    DEF VersionRead, VersionFails, AcquireFails, AcquirePC, CheckVersion, LockMaps,
        MapsLocked, ReleaseVersionConn, LoadPC
  <2>. QED  BY <1>7, <2>1, <2>2 DEF MapVersionsStep
<1>8. CASE \E t \in Scraper : ServerScrapeStep(t)
  BY <1>0, <1>8
  DEF ServerScrapeStep, RLockMaps, BeginScrape, BeginNamespace, QueryReturns, QueryFails,
      EndScrape, AcquireFails, AcquirePC, LoadPC
<1>. QED  BY <1>1, <1>2, <1>3, <1>4, <1>5, <1>6, <1>7, <1>8 DEF Next, ScraperStep

CreatedInv ==
  /\ \A t \in Scraper : srv[t] \in created \cup {None}
  /\ \A d \in DSN : registry[d] \in created \cup {None}
  /\ \A i \in Server \ created : metricMap[i] = None

SampleOf(i) == \E c \in Content : userErr = {c} /\ (metricMap[i].user <=> c \in GoodContent)

SampleInv == \A i \in Server : created = {i} /\ UserQueriesPath =>
  /\ \A t \in Scraper : srv[t] = i /\ pc[t] \in {"readFile", "addQueries"} =>
       userErr = {} /\ ~metricMap[i].user
  /\ metricMap[i] # None /\ (\A t \in Scraper : srv[t] = i => pc[t] \notin LoadPC) =>
       SampleOf(i)

\* Nobody has a server, and no server has maps.
LEMMA SampleInit == Init => CreatedInv /\ SampleInv
  BY DEF Init, CreatedInv, SampleInv

\* Only servers that NewServer has returned are registered, held or given maps.
LEMMA CreatedStep ==
  ASSUME Inv, CreatedInv, [Next]_vars
  PROVE  CreatedInv'
<1>. USE DEF serversVars, mapVars, lockVars, envVars, frameVars, Goto, Return
<1>0. TypeOK /\ FrameInv
  BY DEF Inv
<1>1. ASSUME UNCHANGED <<registry, created, srv>>,
             \A i \in Server \ created : metricMap'[i] = metricMap[i]
      PROVE  CreatedInv'
  BY <1>1 DEF CreatedInv
<1>2. CASE UNCHANGED vars
  BY <1>1, <1>2 DEF vars
<1>3. CASE \/ \E d \in DSN, v \in Version : Upgrade(d, v)
           \/ \E c \in Content : EditFile(c)
           \/ \E t \in Scraper, d \in DSN : Begin(t, d)
  BY <1>1, <1>3 DEF Upgrade, EditFile, Begin
<1>4. ASSUME NEW t \in Scraper, ScraperStep(t)
      PROVE  CreatedInv'
  <2>1. CASE Acquire(t)
    BY <1>1, <2>1 DEF Acquire
  <2>2. CASE NewServerFails(t) \/ PingFails(t) \/ QueryDatabases(t) \/ EndScrape(t)
    BY <1>0, <2>2 DEF NewServerFails, PingFails, QueryDatabases, EndScrape, TypeOK, CreatedInv
  <2>3. CASE LockServers(t)
    BY <1>0, <2>3 DEF LockServers, TypeOK, FrameInv, CreatedInv
  <2>4. ASSUME NEW i \in Server, NewServer(t, i)
        PROVE  CreatedInv'
    BY <1>0, <2>4 DEF NewServer, TypeOK, FrameInv, CreatedInv
  <2>5. CASE PingAnswered(t) \/ GotServer(t)
    BY <1>1, <2>5 DEF PingAnswered, GotServer
  <2>6. CASE RebuildMetricMap(t) \/ AddQueries(t)
    <3>1. srv[t] \in created
      BY <1>0, <2>6 DEF RebuildMetricMap, AddQueries, FrameInv, CreatedInv
    <3>. QED  BY <1>0, <1>1, <2>6, <3>1 DEF RebuildMetricMap, AddQueries, TypeOK
  <2>7. CASE \/ VersionRead(t) \/ VersionFails(t) \/ CheckVersion(t) \/ LockMaps(t)
             \/ MapsLocked(t) \/ RebuildOverrides(t) \/ ReadUserQueries(t) \/ UnlockMaps(t)
             \/ ReleaseVersionConn(t)
    BY <1>1, <2>7
    DEF VersionRead, VersionFails, CheckVersion, LockMaps, MapsLocked, RebuildOverrides,
        ReadUserQueries, UnlockMaps, ReleaseVersionConn
  <2>8. CASE \/ RLockMaps(t) \/ BeginScrape(t) \/ QueryReturns(t) \/ QueryFails(t)
             \/ \E n \in Namespace \cup UserNamespace : BeginNamespace(t, n)
    BY <1>1, <2>8 DEF RLockMaps, BeginScrape, BeginNamespace, QueryReturns, QueryFails
  <2>. QED
    BY <1>4, <2>1, <2>2, <2>3, <2>4, <2>5, <2>6, <2>7, <2>8
    DEF ScraperStep, ServersStep, MapVersionsStep, ServerScrapeStep
<1>. QED  BY <1>2, <1>3, <1>4 DEF Next

\* While there is one server, only its writer touches the sample: between the
\* reset and the load there is none and the maps lack the user's queries, and
\* the load sets both.
LEMMA SampleStep ==
  ASSUME Inv, CreatedInv, SampleInv, [Next]_vars
  PROVE  SampleInv'
<1>. USE DEF serversVars, mapVars, lockVars, envVars, frameVars, Goto, Return
<1>0. TypeOK /\ FrameInv /\ LockInv /\ MapsInv
  BY DEF Inv
<1>1. CASE Quiet /\ UNCHANGED created
  BY <1>1 DEF Quiet, SampleInv, SampleOf, LoadPC
<1>2. ASSUME NEW t \in Scraper
      PROVE  (\E i \in Server : NewServer(t, i)) \/ RebuildMetricMap(t)
               \/ RebuildOverrides(t) \/ ReadUserQueries(t) \/ AddQueries(t) => SampleInv'
  <2>0. ASSUME UNCHANGED created,
               \A i \in Server : created = {i} /\ UserQueriesPath =>
                 /\ srv'[t] = i /\ pc'[t] \in LoadPC
                 /\ userErr' = {} /\ ~metricMap'[i].user
        PROVE  SampleInv'
    BY <2>0 DEF SampleInv
  <2>3. ASSUME NEW i \in Server, NewServer(t, i)
        PROVE  SampleInv'
    <3>. SUFFICES ASSUME NEW j \in Server, created' = {j}
         PROVE  /\ \A u \in Scraper : srv'[u] = j => pc'[u] \notin LoadPC
                /\ metricMap'[j] = None
      BY DEF SampleInv, LoadPC
    <3>1. j = i /\ created = {}
      BY <2>3 DEF NewServer
    <3>2. metricMap[i] = None /\ \A u \in Scraper : srv[u] = None
      BY <3>1 DEF CreatedInv
    <3>. QED  BY <1>0, <2>3, <3>1, <3>2, NoneAssumption DEF NewServer, TypeOK, LoadPC
  <2>4. CASE RebuildMetricMap(t)
    <3>. SUFFICES ASSUME NEW i \in Server, created = {i}, UserQueriesPath
         PROVE  /\ srv'[t] = i /\ pc'[t] = "overrides"
                /\ \A u \in Scraper : srv'[u] = i => pc'[u] \notin {"readFile", "addQueries"}
      BY <2>4 DEF RebuildMetricMap, SampleInv, LoadPC
    <3>1. srv[t] = i
      BY <1>0, <2>4 DEF RebuildMetricMap, FrameInv, CreatedInv
    <3>2. \A u \in Scraper : srv[u] = i /\ pc[u] \in WritePC => u = t
      BY <1>0, <2>4, <3>1, OneWriter DEF RebuildMetricMap, WritePC
    <3>. QED  BY <1>0, <2>4, <3>1, <3>2 DEF RebuildMetricMap, TypeOK, WritePC
  <2>5. CASE RebuildOverrides(t)
    <3>1. ASSUME NEW i \in Server, created = {i}, UserQueriesPath
          PROVE  /\ srv'[t] = i /\ pc'[t] \in LoadPC
                 /\ userErr' = {} /\ ~metricMap'[i].user
      <4>1. srv[t] = i
        BY <1>0, <2>5, <3>1 DEF RebuildOverrides, FrameInv, CreatedInv
      <4>2. pc[t] = "overrides" /\ pc'[t] = "readFile" /\ userErr' = {}
        BY <1>0, <2>5, <3>1 DEF RebuildOverrides, ResetSamples, TypeOK
      <4>3. metricMap'[i] = [ver |-> ver[t], user |-> FALSE]
        BY <1>0, <2>5, <4>1, <4>2 DEF RebuildOverrides, MapsInv
      <4>. QED  BY <2>5, <4>1, <4>2, <4>3 DEF RebuildOverrides, LoadPC
    <3>. QED  BY <2>0, <2>5, <3>1 DEF RebuildOverrides
  <2>6. CASE ReadUserQueries(t)
    <3>1. ASSUME NEW i \in Server, created = {i}, UserQueriesPath
          PROVE  /\ srv'[t] = i /\ pc'[t] \in LoadPC
                 /\ userErr' = {} /\ ~metricMap'[i].user
      <4>1. srv[t] = i
        BY <1>0, <2>6, <3>1 DEF ReadUserQueries, FrameInv, CreatedInv
      <4>2. userErr = {} /\ ~metricMap[i].user
        BY <2>6, <3>1, <4>1 DEF ReadUserQueries, SampleInv
      <4>. QED  BY <1>0, <2>6, <4>1, <4>2 DEF ReadUserQueries, TypeOK, LoadPC
    <3>. QED  BY <2>0, <2>6, <3>1 DEF ReadUserQueries
  <2>7. CASE AddQueries(t)
    <3>. SUFFICES ASSUME NEW i \in Server, created = {i}, UserQueriesPath
         PROVE  /\ \A u \in Scraper : srv'[u] = i => pc'[u] \notin {"readFile", "addQueries"}
                /\ SampleOf(i)'
      BY <2>7 DEF AddQueries, SampleInv, LoadPC
    <3>1. srv[t] = i /\ pc[t] = "addQueries" /\ read[t] \in Content
      BY <1>0, <2>7 DEF AddQueries, FrameInv, CreatedInv, TypeOK
    <3>2. \A u \in Scraper : srv[u] = i /\ pc[u] \in WritePC => u = t
      BY <1>0, <3>1, OneWriter DEF WritePC
    <3>3. userErr' = {read[t]} /\ ~metricMap[i].user
      BY <2>7, <3>1 DEF AddQueries, SampleInv
    <3>4. metricMap'[i].user <=> read[t] \in GoodContent
      BY <1>0, <2>7, <3>1, <3>3 DEF AddQueries, Merged, TypeOK
    <3>5. \A u \in Scraper : srv'[u] = i => pc'[u] \notin {"readFile", "addQueries"}
      BY <1>0, <2>7, <3>1, <3>2 DEF AddQueries, TypeOK, WritePC
    <3>. QED  BY <3>1, <3>3, <3>4, <3>5 DEF SampleOf
  <2>. QED  BY <2>3, <2>4, <2>5, <2>6, <2>7
<1>. QED  BY <1>1, <1>2, LoadsLoad

\* However its scrapes overlap, user_queries_load_error has for the only server
\* the one sample of the load its maps come from, and tells whether they have
\* the user's queries (exporter.go:170-187).
THEOREM LoadSampleTrue == Spec => []LoadSampleTellsTheTruth
<1>1. Inv /\ SampleInv => LoadSampleTellsTheTruth
  <2>. SUFFICES ASSUME Inv, SampleInv, NEW i \in Server, created = {i}, UserQueriesPath,
                       metricMap[i] # None, ~Writing(i)
               PROVE  SampleOf(i)
    BY DEF LoadSampleTellsTheTruth, SampleOf
  <2>1. \A t \in Scraper : srv[t] = i => pc[t] \notin WritePC
    BY NoneAssumption DEF Inv, LockInv, Writing
  <2>. QED  BY <2>1 DEF SampleInv, LoadPC, WritePC
<1>2. Spec => [](CreatedInv /\ SampleInv)
  BY InvHolds, SampleInit, CreatedStep, SampleStep, PTL DEF Spec
<1>. QED  BY <1>1, <1>2, InvHolds, PTL

\* A sample comes from a server whose maps were made by the load that set it, and
\* which nobody is loading again, unless the reset is due.
Source(i, c) ==
  /\ metricMap[i] # None
  /\ \A t \in Scraper : srv[t] = i => pc[t] \notin {"readFile", "addQueries"}
  /\ \/ \E t \in Scraper : srv[t] = i /\ pc[t] = "overrides"
     \/ metricMap[i].user <=> c \in GoodContent

SourceInv ==
  /\ \A t \in Scraper : pc[t] \in {"readFile", "addQueries"} =>
       UserQueriesPath /\ ~metricMap[srv[t]].user
  /\ UserQueriesPath \/ userErr = {}
  /\ \A c \in userErr : \E i \in Server : Source(i, c)
  /\ UserQueriesPath /\ (\E i \in Server : metricMap[i] # None)
       /\ (\A t \in Scraper : pc[t] \notin LoadPC) => userErr # {}

\* No server has maps, and there is no sample.
LEMMA SourceInit == Init => SourceInv
  BY DEF Init, SourceInv

\* A reset leaves no sample to account for; a load accounts for its own, and
\* cannot touch the maps that account for the others.
LEMMA SourceStep ==
  ASSUME Inv, SourceInv, [Next]_vars
  PROVE  SourceInv'
<1>. USE DEF serversVars, mapVars, lockVars, envVars, frameVars, Goto, Return
<1>0. TypeOK /\ FrameInv /\ LockInv /\ MapsInv
  BY DEF Inv
<1>1. CASE Quiet
  <2>1. \A i \in Server, c \in userErr : Source(i, c) => Source(i, c)'
    BY <1>1 DEF Quiet, Source, LoadPC
  <2>. QED  BY <1>1, <2>1 DEF Quiet, SourceInv, LoadPC
<1>2. ASSUME NEW t \in Scraper, RebuildMetricMap(t)
      PROVE  SourceInv'
  <2>1. pc[t] = "metricMap" /\ srv[t] \in Server /\ pc' = [pc EXCEPT ![t] = "overrides"]
    BY <1>0, <1>2 DEF RebuildMetricMap, FrameInv, TypeOK
  <2>2. \A u \in Scraper : pc[u] \in {"readFile", "addQueries"} => srv[u] # srv[t]
    BY <1>0, <2>1, OneWriter DEF WritePC
  <2>3. metricMap'[srv[t]] # None
    <3>1. ver[t] \in Version
      BY <1>0, <2>1 DEF FrameInv, TypeOK, WritePC
    <3>. QED  BY <1>0, <1>2, <2>1, <3>1, FreshMap DEF RebuildMetricMap, TypeOK
  <2>4. \A i \in Server, c \in userErr : Source(i, c) => Source(i, c)'
    BY <1>0, <1>2, <2>1, <2>2, <2>3 DEF RebuildMetricMap, Source, TypeOK
  <2>5. \A u \in Scraper : pc'[u] \in {"readFile", "addQueries"} =>
          UserQueriesPath /\ ~metricMap'[srv'[u]].user
    BY <1>0, <1>2, <2>1, <2>2 DEF RebuildMetricMap, SourceInv, FrameInv, TypeOK
  <2>. QED  BY <1>0, <1>2, <2>1, <2>4, <2>5 DEF RebuildMetricMap, SourceInv, TypeOK, LoadPC
<1>3. ASSUME NEW t \in Scraper, RebuildOverrides(t)
      PROVE  SourceInv'
  <2>1. pc[t] = "overrides" /\ UNCHANGED <<metricMap, srv>>
    BY <1>3 DEF RebuildOverrides
  <2>2. ~metricMap[srv[t]].user
    <3>1. metricMap[srv[t]] = [ver |-> ver[t], user |-> FALSE]
      BY <1>0, <2>1 DEF MapsInv
    <3>. QED  BY <3>1
  <2>3. CASE UserQueriesPath
    <3>1. userErr' = {} /\ pc' = [pc EXCEPT ![t] = "readFile"]
      BY <1>3, <2>3 DEF RebuildOverrides, ResetSamples
    <3>. QED  BY <1>0, <2>1, <2>2, <2>3, <3>1 DEF SourceInv, TypeOK, LoadPC
  <2>4. CASE ~UserQueriesPath
    <3>1. UNCHANGED userErr /\ pc' = [pc EXCEPT ![t] = "unlock"]
      BY <1>3, <2>4 DEF RebuildOverrides
    <3>. QED  BY <1>0, <2>1, <2>4, <3>1 DEF SourceInv, TypeOK
  <2>. QED  BY <2>3, <2>4
<1>4. ASSUME NEW t \in Scraper, ReadUserQueries(t)
      PROVE  SourceInv'
  <2>1. /\ pc[t] = "readFile" /\ pc' = [pc EXCEPT ![t] = "addQueries"]
        /\ UNCHANGED <<metricMap, userErr, srv>>
    BY <1>4 DEF ReadUserQueries
  <2>2. \A i \in Server, c \in userErr : Source(i, c) => Source(i, c)'
    BY <1>0, <2>1 DEF Source, TypeOK
  <2>. QED  BY <1>0, <2>1, <2>2 DEF SourceInv, TypeOK, LoadPC
<1>5. ASSUME NEW t \in Scraper, AddQueries(t)
      PROVE  SourceInv'
  <2>1. /\ pc[t] = "addQueries" /\ pc' = [pc EXCEPT ![t] = "unlock"]
        /\ userErr' = userErr \cup {read[t]} /\ UNCHANGED srv
    BY <1>5 DEF AddQueries
  <2>2. srv[t] \in Server /\ UserQueriesPath /\ ~metricMap[srv[t]].user
    BY <1>0, <2>1 DEF FrameInv, SourceInv, TypeOK
  <2>3. \A u \in Scraper : u # t /\ pc[u] \in WritePC => srv[u] # srv[t]
    BY <1>0, <2>1, <2>2, OneWriter DEF WritePC
  <2>4. \A i \in Server : i # srv[t] => metricMap'[i] = metricMap[i]
    BY <1>0, <1>5, <2>2 DEF AddQueries, TypeOK
  <2>5. \A i \in Server, c \in userErr : Source(i, c) => Source(i, c)'
    BY <1>0, <2>1, <2>4 DEF Source, TypeOK
  <2>6. Source(srv[t], read[t])'
    <3>1. metricMap'[srv[t]] # None
      <4>1. Inv'
        BY StepInv
      <4>. QED  BY <1>0, <2>1, <4>1 DEF Inv, MapsInv, TypeOK
    <3>2. metricMap'[srv[t]].user <=> read[t] \in GoodContent
      BY <1>0, <1>5, <2>2 DEF AddQueries, Merged, TypeOK
    <3>3. \A u \in Scraper : srv[u] = srv[t] => pc'[u] \notin {"readFile", "addQueries"}
      BY <1>0, <2>1, <2>3 DEF TypeOK, WritePC
    <3>4. read'[t] = read[t]
      BY <1>5 DEF AddQueries
    <3>. QED  BY <2>1, <3>1, <3>2, <3>3, <3>4 DEF Source
  <2>7. \A u \in Scraper : pc'[u] \in {"readFile", "addQueries"} =>
          UserQueriesPath /\ ~metricMap'[srv'[u]].user
    <3>. SUFFICES ASSUME NEW u \in Scraper, pc'[u] \in {"readFile", "addQueries"}
         PROVE  ~metricMap'[srv[u]].user
      BY <2>1, <2>2
    <3>1. u # t /\ pc[u] \in {"readFile", "addQueries"}
      BY <1>0, <2>1 DEF TypeOK
    <3>2. srv[u] # srv[t] /\ srv[u] \in Server
      BY <1>0, <2>3, <3>1 DEF FrameInv, TypeOK, WritePC
    <3>. QED  BY <2>4, <3>1, <3>2 DEF SourceInv
  <2>8. \A c \in userErr' : \E i \in Server : Source(i, c)'
    BY <1>5, <2>1, <2>2, <2>5, <2>6 DEF AddQueries, SourceInv
  <2>. QED  BY <2>1, <2>2, <2>7, <2>8 DEF SourceInv
<1>. QED  BY <1>1, <1>2, <1>3, <1>4, <1>5, LoadsLoad

\* Whatever loads of however many servers overlap, each sample is true of the maps
\* that some server has, and no reset is the last word (exporter.go:170-187).
THEOREM SamplesCurrent == Spec => []LoadSamplesCurrent
<1>1. Inv /\ SourceInv => LoadSamplesCurrent
  <2>. SUFFICES ASSUME Inv, SourceInv PROVE LoadSamplesCurrent
    OBVIOUS
  <2>1. (\A i \in Server : ~Writing(i)) => \A t \in Scraper : pc[t] \notin WritePC
    BY NoneAssumption DEF Inv, TypeOK, FrameInv, LockInv, Writing, WritePC
  <2>. QED  BY <2>1 DEF SourceInv, Source, LoadSamplesCurrent, LoadPC, WritePC
<1>2. Spec => []SourceInv
  BY InvHolds, SourceInit, SourceStep, PTL DEF Spec
<1>. QED  BY <1>1, <1>2, InvHolds, PTL
============================================================================
