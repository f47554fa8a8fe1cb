----------------------------- MODULE ScrapeDSN -----------------------------
(***************************************************************************)
(* The concurrent core of the exporter: any number of Collect calls inside *)
(* scrapeDSN and discoverDatabaseDSNs, over the Servers, the query maps    *)
(* and the connection pools they share.                                    *)
(***************************************************************************)
EXTENDS ServerScrape

CONSTANT Rebuilding   \* value of the maps while they are rebuilt (VersionedMaps)
ASSUME RebuildingAssumption == Rebuilding # None /\ Rebuilding \notin Maps

Init ==
  /\ registry = [d \in DSN |-> None] /\ mutex = None /\ created = {}
  /\ conns = [i \in Server |-> {}]
  /\ metricMap = [i \in Server |-> None]
  /\ queryOverrides = [i \in Server |-> None]
  /\ lastMapVersion = [i \in Server |-> None]
  /\ userErr = {}
  /\ writer = [i \in Server |-> None] /\ readers = [i \in Server |-> {}]
  /\ dbVersion \in [DSN -> Version] /\ file \in Content
  /\ pc = [t \in Scraper |-> "idle"]
  /\ dsn = [t \in Scraper |-> None] /\ srv = [t \in Scraper |-> None]
  /\ ver = [t \in Scraper |-> None] /\ read = [t \in Scraper |-> None]
  /\ todo = [t \in Scraper |-> {}] /\ failed = [t \in Scraper |-> FALSE]

\* The database behind d is upgraded, or fails over to another version.
Upgrade(d, v) ==
  /\ v # dbVersion[d]
  /\ dbVersion' = [dbVersion EXCEPT ![d] = v]
  /\ UNCHANGED <<serversVars, conns, mapVars, lockVars, file, pc, frameVars>>

\* Somebody edits the user queries file.
EditFile(c) ==
  /\ UserQueriesPath /\ c # file
  /\ file' = c
  /\ UNCHANGED <<serversVars, conns, mapVars, lockVars, dbVersion, pc, frameVars>>

ScraperStep(t) ==
  Acquire(t) \/ ServersStep(t) \/ MapVersionsStep(t) \/ ServerScrapeStep(t)

Next ==
  \/ \E t \in Scraper : ScraperStep(t) \/ \E d \in DSN : Begin(t, d)
  \/ \E d \in DSN, v \in Version : Upgrade(d, v)
  \/ \E c \in Content : EditFile(c)

Spec == Init /\ [][Next]_vars

\* A scrape that has begun is driven by its goroutine: queries end, with an
\* answer or an error, and the waits on mutexes and pools are starvation free.
FairSpec == Spec /\ \A t \in Scraper : SF_vars(ScraperStep(t))

----------------------------------------------------------------------------
\* Every variable holds a value of its type.
TypeOK ==
  /\ registry \in [DSN -> Server \cup {None}]
  /\ mutex \in Scraper \cup {None}
  /\ created \in SUBSET Server
  /\ conns \in [Server -> SUBSET Scraper]
  /\ metricMap \in [Server -> Maps \cup {None}]
  /\ queryOverrides \in [Server -> Maps \cup {None}]
  /\ lastMapVersion \in [Server -> Version \cup {None}]
  /\ userErr \in SUBSET Content
  /\ writer \in [Server -> Scraper \cup {None}]
  /\ readers \in [Server -> SUBSET Scraper]
  /\ dbVersion \in [DSN -> Version] /\ file \in Content
  /\ pc \in [Scraper -> PC]
  /\ dsn \in [Scraper -> DSN \cup {None}]
  /\ srv \in [Scraper -> Server \cup {None}]
  /\ ver \in [Scraper -> Version \cup {None}]
  /\ read \in [Scraper -> Content \cup {None}]
  /\ todo \in [Scraper -> SUBSET (Namespace \cup UserNamespace)]
  /\ failed \in [Scraper -> BOOLEAN]

\* Which position holds what: the inductive invariant of the proofs.
FrameInv == \A t \in Scraper :
  /\ pc[t] # "idle" => dsn[t] # None
  /\ srv[t] = None <=> pc[t] \in {"idle", "get", "connect"}
  /\ pc[t] \in WritePC \cup {"check", "lock", "lockWait"} => ver[t] # None
  /\ pc[t] = "addQueries" => read[t] # None

RegistryInv == \A t \in Scraper :
  /\ mutex = t <=> pc[t] \in GetPC
  /\ pc[t] = "connect" => registry[dsn[t]] = None
  /\ pc[t] \in {"pingAcquire", "ping"} => registry[dsn[t]] = srv[t]

LockInv == \A t \in Scraper, i \in Server :
  /\ t \in conns[i]   <=> srv[t] = i /\ pc[t] \in ConnPC
  /\ t \in readers[i] <=> srv[t] = i /\ pc[t] \in ReadPC
  /\ writer[i] = t    <=> srv[t] = i /\ pc[t] \in WritePC \cup {"lockWait"}
  /\ srv[t] = i /\ pc[t] \in WritePC => readers[i] = {}

Whole(i) ==
  /\ queryOverrides[i] = metricMap[i]
  /\ metricMap[i] = None => lastMapVersion[i] = None
  /\ metricMap[i] # None => metricMap[i].ver = lastMapVersion[i]

MapsInv ==
  /\ \A t \in Scraper :
       /\ pc[t] = "overrides" =>
            metricMap[srv[t]] = [ver |-> ver[t], user |-> FALSE]
       /\ pc[t] \in {"readFile", "addQueries", "unlock"} =>
            metricMap[srv[t]] # None
  /\ \A i \in Server :
       (\A t \in Scraper : srv[t] = i => pc[t] # "overrides") => Whole(i)

Inv == TypeOK /\ FrameInv /\ RegistryInv /\ LockInv /\ MapsInv

\* A goroutine that has left scrapeDSN, by whichever of its returns, has given
\* back everything: no connection of any pool, no side of any mappingMtx, not
\* Servers.m.  (The releases are spread over defers and explicit unlocks.)
NothingHeldAfterReturn ==
  \A t \in Scraper : pc[t] = "idle" =>
    /\ mutex # t
    /\ \A i \in Server : t \notin conns[i] /\ t \notin readers[i] /\ writer[i] # t

\* While any goroutine scrapes a server, the maps it iterates do not change,
\* whatever versions other goroutines see meanwhile.
MapsFrozenDuringScrape ==
  [][\A i \in Server : readers[i] # {} =>
       UNCHANGED <<metricMap[i], queryOverrides[i], lastMapVersion[i]>>]_vars

\* The maps a scrape runs with belong together: the metrics, the queries that
\* replace the default ones and lastMapVersion come from one rebuild.
MapsCoherent == \A i \in Server : readers[i] # {} => Whole(i)

\* A connection pool that is in use by its DSN is never replaced by a second
\* one: an entry leaves Servers.servers only when its own ping failed.
NoPoolOverwritten ==
  [][\A d \in DSN : registry[d] # None /\ registry'[d] # registry[d] =>
       /\ registry'[d] = None
       /\ \E t \in Scraper : /\ mutex = t /\ dsn[t] = d /\ srv[t] = registry[d]
                             /\ pc[t] \in {"pingAcquire", "ping"}]_vars

\* checkMapVersions waits for mappingMtx with a connection in hand; Scrape waits
\* for a connection with mappingMtx read-locked.  The two never wait for each
\* other: while a reader waits for a connection, one is free or is held by
\* somebody who does not wait for the lock.
NoCircularWait ==
  \A t \in Scraper, i \in Server :
    t \in readers[i] /\ pc[t] \in AcquirePC =>
      Available(i) \/ \E u \in conns[i] : pc[u] \notin {"lock", "lockWait"}

\* Every scrapeDSN that has begun returns, so that Collect answers.
ScrapeReturns == \A t \in Scraper : pc[t] # "idle" ~> pc[t] = "idle"

\* However checks overlap and overwrite one another's maps: once the version of
\* a database stays at v and its server goes on being checked, the server's
\* maps are for good those of v.
MapsConverge ==
  \A i \in Server, v \in Version :
    /\ <>[](\A d \in DSN : dbVersion[d] = v)
    /\ []<>(\E t \in Scraper : pc[t] = "check" /\ srv[t] = i)
    => <>[](lastMapVersion[i] = v)

\* A scrape whose check read the version that the database still has runs with
\* the maps of that version: "If mismatch on scrape, then maps are recalculated."
\* (postgres_server.go, of lastMapVersion)
ScrapedWithCheckedVersion ==
  \A t \in Scraper :
    /\ srv[t] # None /\ t \in readers[srv[t]]
    /\ ver[t] # None /\ ver[t] = dbVersion[dsn[t]]
    => lastMapVersion[srv[t]] = ver[t]

\* A scrape that returns success has had maps to scrape with.
SuccessMeansScraped ==
  \A t \in Scraper : pc[t] = "loop" /\ todo[t] = {} /\ ~failed[t] =>
    metricMap[srv[t]] # None

Writing(i) == writer[i] # None /\ pc[writer[i]] \in WritePC

\* The gauge vector is the exporter's, the loads are the servers': a load for one
\* server resets the samples of the others (exporter.go:170).  Whatever loads of
\* however many servers overlap, each sample is true of the maps that some server,
\* perhaps an evicted one, has, unless the reset for their successors is due.  And
\* no reset is the last word: with maps made and no load under way, there is a
\* sample.
LoadSamplesCurrent ==
  /\ \A c \in userErr : \E i \in Server :
       /\ metricMap[i] # None
       /\ \/ \E t \in Scraper : srv[t] = i /\ pc[t] = "overrides"
          \/ metricMap[i].user <=> c \in GoodContent
  /\ UserQueriesPath /\ (\E i \in Server : metricMap[i] # None)
       /\ (\A i \in Server : ~Writing(i)) => userErr # {}

\* "Whether the user queries file was loaded and parsed successfully"
\* (exporter.go:356): however scrapes overlap, as long as there is one server
\* the gauge has the sample of the load its maps come from, and these have the
\* user's queries exactly when the sample says so.
LoadSampleTellsTheTruth ==
  \A i \in Server :
    created = {i} /\ UserQueriesPath /\ metricMap[i] # None /\ ~Writing(i) =>
      \E c \in Content : userErr = {c} /\ (metricMap[i].user <=> c \in GoodContent)

----------------------------------------------------------------------------
(* Refinement: the maps of a server, seen from outside mappingMtx.         *)

mapsSeen == [i \in Server |->
  IF Writing(i) THEN Rebuilding
  ELSE IF queryOverrides[i] = metricMap[i] THEN metricMap[i] ELSE "torn"]

Abstract == INSTANCE VersionedMaps
  WITH User <- Scraper, Object <- Server, maps <- mapsSeen, users <- readers

\* The mutex discipline of checkMapVersions and Server.Scrape implements the
\* whole-map replacement of VersionedMaps.
ImplementsVersionedMaps == Abstract!Spec
============================================================================
