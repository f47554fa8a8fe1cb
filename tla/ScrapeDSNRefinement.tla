----------------------- MODULE ScrapeDSNRefinement ------------------------
(***************************************************************************)
(* ScrapeDSN implements VersionedMaps: seen through mapsSeen, the steps of *)
(* checkMapVersions inside mappingMtx are one Rebuild, stutters, and one   *)
(* Publish; RLock and RUnlock are Join and Leave; every other step of a    *)
(* goroutine, and of its environment, is a stutter.                        *)
(***************************************************************************)
EXTENDS ScrapeDSNProofs

USE NoneAssumption

\* No maps and no readers, on both levels.
LEMMA AbstractInit == Init => Abstract!Init
  BY DEF Init, Abstract!Init, mapsSeen, Writing

\* The owner of mappingMtx that is active is the goroutine positioned there.
LEMMA WritingSrv ==
  ASSUME Inv, NEW i \in Server
  PROVE  Writing(i) <=> \E t \in Scraper : srv[t] = i /\ pc[t] \in WritePC
<1>1. ASSUME Writing(i) PROVE \E t \in Scraper : srv[t] = i /\ pc[t] \in WritePC
  <2>1. writer[i] \in Scraper
    BY <1>1 DEF Writing, Inv, TypeOK
  <2>2. srv[writer[i]] = i
    BY <2>1 DEF Inv, LockInv
  <2> QED
    BY <1>1, <2>1, <2>2 DEF Writing
<1>2. ASSUME NEW t \in Scraper, srv[t] = i, pc[t] \in WritePC PROVE Writing(i)
  <2>1. writer[i] = t
    BY <1>2 DEF Inv, LockInv
  <2> QED
    BY <1>2, <2>1 DEF Writing
<1> QED
  BY <1>1, <1>2

\* Outside a rebuild, the maps seen are the metric map.
LEMMA SeenWhole ==
  ASSUME Inv, NEW i \in Server, ~Writing(i)
  PROVE  mapsSeen[i] = metricMap[i] /\ mapsSeen[i] # Rebuilding
<1>1. \A t \in Scraper : srv[t] = i => pc[t] # "overrides"
  BY WritingSrv DEF WritePC
<1>2. Whole(i)
  BY <1>1 DEF Inv, MapsInv
<1>3. mapsSeen[i] = metricMap[i]
  BY <1>2 DEF mapsSeen, Whole
<1>4. metricMap[i] # Rebuilding
  BY RebuildingAssumption DEF Inv, TypeOK
<1> QED
  BY <1>3, <1>4

\* A step that changes no maps and moves nobody in or out of a rebuild.
LEMMA SeenUnchanged ==
  ASSUME Inv, UNCHANGED <<metricMap, queryOverrides, writer>>,
         \A t \in Scraper : pc[t] \in WritePC <=> pc'[t] \in WritePC
  PROVE  UNCHANGED mapsSeen
<1>1. \A i \in Server : writer[i] # None => writer[i] \in Scraper
  BY DEF Inv, TypeOK
<1>2. \A i \in Server : Writing(i)' <=> Writing(i)
  BY <1>1 DEF Writing
<1> QED
  BY <1>2 DEF mapsSeen

\* A step of the one goroutine that rebuilds a server's maps.
LEMMA SeenRebuild ==
  ASSUME Inv, NEW t \in Scraper, pc[t] \in WritePC, pc'[t] \in WritePC,
         \A u \in Scraper : u # t => pc'[u] = pc[u],
         UNCHANGED writer,
         \A j \in Server : j # srv[t] => UNCHANGED <<metricMap[j], queryOverrides[j]>>
  PROVE  UNCHANGED mapsSeen
<1>1. \A i \in Server : writer[i] # None => writer[i] \in Scraper
  BY DEF Inv, TypeOK
<1>2. \A i \in Server : Writing(i)' <=> Writing(i)
  BY <1>1 DEF Writing
<1>3. \A i \in Server : i = srv[t] => Writing(i)
  BY WritingSrv
<1>4. \A i \in Server : mapsSeen'[i] = mapsSeen[i]
  BY <1>2, <1>3 DEF mapsSeen
<1> QED
  BY <1>4 DEF mapsSeen

\* Once the readers have left, getting the lock begins the abstract rebuild.
LEMMA RebuildBegins ==
  ASSUME Inv, NEW t \in Scraper, MapsLocked(t)
  PROVE  Abstract!Rebuild(srv[t]) /\ srv[t] \in Server
<1> DEFINE i == srv[t]
<1>1. pc[t] = "lockWait" /\ i \in Server
  BY DEF MapsLocked, Inv, TypeOK, FrameInv
<1>2. /\ readers[i] = {} /\ pc' = [pc EXCEPT ![t] = "metricMap"]
      /\ UNCHANGED <<metricMap, queryOverrides, writer, readers, srv>>
  BY DEF MapsLocked, Drained, Goto, mapVars, lockVars, frameVars
<1>3. writer[i] = t
  BY <1>1 DEF Inv, LockInv
<1>4. ~Writing(i) /\ Writing(i)'
  <2>1. ~Writing(i)
    BY <1>1, <1>3 DEF Writing, WritePC
  <2>2. writer'[i] = t /\ pc'[t] = "metricMap"
    BY <1>2, <1>3 DEF Inv, TypeOK
  <2>3. Writing(i)'
    <3>1. t # None /\ "metricMap" \in WritePC
      BY DEF WritePC
    <3> QED
      BY <1>2, <2>2, <3>1 DEF Writing
  <2> QED
    BY <2>1, <2>3
<1>5. \A j \in Server : j # i => writer[j] # t
  BY <1>1 DEF Inv, LockInv
<1>6. \A j \in Server : j # i => (Writing(j)' <=> Writing(j))
  BY <1>1, <1>2, <1>5 DEF Writing, Inv, TypeOK
<1>7. mapsSeen' = [mapsSeen EXCEPT ![i] = Rebuilding]
  <2>1. mapsSeen'[i] = Rebuilding
    BY <1>1, <1>2, <1>4 DEF mapsSeen
  <2>2. \A j \in Server : j # i => mapsSeen'[j] = mapsSeen[j]
    BY <1>2, <1>6 DEF mapsSeen
  <2> QED
    BY <1>1, <2>1, <2>2 DEF mapsSeen
<1>8. mapsSeen[i] # Rebuilding
  BY <1>1, <1>4, SeenWhole
<1> QED
  BY <1>1, <1>2, <1>7, <1>8 DEF Abstract!Rebuild

\* Unlock publishes the maps, which are whole by then, and admits the readers
\* that queued.
LEMMA RebuildEnds ==
  ASSUME Inv, Inv', NEW t \in Scraper, UnlockMaps(t)
  PROVE  Abstract!Publish(srv[t]) /\ srv[t] \in Server
<1> DEFINE i == srv[t]
<1>1. pc[t] = "unlock" /\ i \in Server
  BY DEF UnlockMaps, Inv, TypeOK, FrameInv
<1>2. /\ writer' = [writer EXCEPT ![i] = None]
      /\ readers' = [readers EXCEPT ![i] = @ \cup Queued(i)]
      /\ \A u \in Scraper : u # t => (pc'[u] \in WritePC <=> pc[u] \in WritePC)
      /\ UNCHANGED <<metricMap, queryOverrides, srv>>
  BY DEF UnlockMaps, mapVars, frameVars, WritePC, Queued
<1>3. Writing(i)
  BY <1>1, WritingSrv DEF WritePC
<1>4. ~Writing(i)'
  BY <1>1, <1>2 DEF Writing, Inv, TypeOK
<1>5. \A j \in Server : j # i => writer'[j] = writer[j] /\ writer[j] # t
  BY <1>1, <1>2 DEF Inv, TypeOK, LockInv
<1>6. \A j \in Server : j # i => (Writing(j)' <=> Writing(j))
  BY <1>2, <1>5 DEF Writing, Inv, TypeOK
<1>7. Whole(i) /\ metricMap[i] \in Maps
  <2>1. \A u \in Scraper : srv[u] = i => pc[u] # "overrides"
    BY <1>1, OneWriter DEF Inv, WritePC
  <2>2. metricMap[i] # None
    BY <1>1 DEF Inv, MapsInv
  <2> QED
    BY <1>1, <2>1, <2>2 DEF Inv, TypeOK, MapsInv
<1>8. mapsSeen' = [mapsSeen EXCEPT ![i] = metricMap[i]]
  BY <1>1, <1>2, <1>4, <1>6, <1>7 DEF mapsSeen, Whole
<1>9. mapsSeen[i] = Rebuilding
  BY <1>1, <1>3 DEF mapsSeen
<1>10. readers' = [readers EXCEPT ![i] = readers[i] \cup Queued(i)]
       /\ readers[i] \cup Queued(i) \in SUBSET Scraper
  BY <1>1, <1>2 DEF Inv, TypeOK, Queued
<1> QED
  BY <1>1, <1>7, <1>8, <1>9, <1>10 DEF Abstract!Publish, Abstract!Snapshot, Maps

\* RLock joins the users of the maps, or queues.
LEMMA ReaderJoins ==
  ASSUME Inv, NEW t \in Scraper, RLockMaps(t)
  PROVE  \/ Abstract!Join(t, srv[t]) /\ srv[t] \in Server
         \/ UNCHANGED <<mapsSeen, readers>>
<1>1. pc[t] = "rlock" /\ srv[t] \in Server
  BY DEF RLockMaps, Inv, TypeOK, FrameInv
<1>2. \A u \in Scraper : pc[u] \in WritePC <=> pc'[u] \in WritePC
  BY <1>1 DEF RLockMaps, Goto, WritePC, Inv, TypeOK
<1>3. UNCHANGED mapsSeen
  BY <1>2, SeenUnchanged DEF RLockMaps, mapVars
<1>4. CASE writer[srv[t]] = None
  <2>1. mapsSeen[srv[t]] # Rebuilding
    BY <1>1, <1>4, SeenWhole DEF Writing
  <2> QED
    BY <1>1, <1>3, <1>4, <2>1 DEF RLockMaps, Abstract!Join
<1>5. CASE writer[srv[t]] # None
  BY <1>3, <1>5 DEF RLockMaps
<1> QED
  BY <1>4, <1>5

\* The deferred RUnlock leaves them.
LEMMA ReaderLeaves ==
  ASSUME Inv, NEW t \in Scraper, EndScrape(t)
  PROVE  Abstract!Leave(t, srv[t]) /\ srv[t] \in Server
<1>1. pc[t] = "loop" /\ srv[t] \in Server
  BY DEF EndScrape, Inv, TypeOK, FrameInv
<1>2. t \in readers[srv[t]]
  BY <1>1 DEF Inv, LockInv, ReadPC
<1>3. \A u \in Scraper : pc[u] \in WritePC <=> pc'[u] \in WritePC
  BY <1>1 DEF EndScrape, Return, Goto, WritePC, Inv, TypeOK
<1>4. UNCHANGED mapsSeen
  BY <1>3, SeenUnchanged DEF EndScrape, mapVars
<1> QED
  BY <1>1, <1>2, <1>4 DEF EndScrape, Abstract!Leave

\* Between Lock and Unlock the rebuild is not visible.
LEMMA WriterStutters ==
  ASSUME Inv, NEW t \in Scraper,
         \/ RebuildMetricMap(t) \/ RebuildOverrides(t)
         \/ ReadUserQueries(t) \/ AddQueries(t)
  PROVE  UNCHANGED <<mapsSeen, readers>>
<1>1. pc[t] \in WritePC /\ pc'[t] \in WritePC /\ srv[t] \in Server
  BY DEF RebuildMetricMap, RebuildOverrides, ReadUserQueries, AddQueries, Goto,
         WritePC, Inv, TypeOK, FrameInv
<1>2. /\ \A u \in Scraper : u # t => pc'[u] = pc[u]
      /\ UNCHANGED <<writer, readers>>
  BY DEF RebuildMetricMap, RebuildOverrides, ReadUserQueries, AddQueries, Goto,
         lockVars, Inv, TypeOK
<1>3. \A j \in Server : j # srv[t] => UNCHANGED <<metricMap[j], queryOverrides[j]>>
  BY DEF RebuildMetricMap, RebuildOverrides, ReadUserQueries, AddQueries, mapVars,
         Inv, TypeOK
<1> QED
  BY <1>1, <1>2, <1>3, SeenRebuild

\* Announcing a writer changes no maps.
LEMMA LockStutters ==
  ASSUME Inv, NEW t \in Scraper, LockMaps(t)
  PROVE  UNCHANGED <<mapsSeen, readers>>
<1> DEFINE i == srv[t]
<1>1. pc[t] = "lock" /\ i \in Server /\ writer[i] = None
  BY DEF LockMaps, Announce, Inv, TypeOK, FrameInv, WritePC
<1>2. /\ pc' = [pc EXCEPT ![t] = "lockWait"] /\ writer' = [writer EXCEPT ![i] = t]
      /\ UNCHANGED <<metricMap, queryOverrides, readers, srv>>
  BY DEF LockMaps, Announce, Goto, mapVars, frameVars
<1>3. ~Writing(i) /\ ~Writing(i)'
  <2>1. writer'[i] = t /\ pc'[t] = "lockWait"
    BY <1>1, <1>2 DEF Inv, TypeOK
  <2> QED
    BY <1>1, <1>2, <2>1 DEF Writing, WritePC
<1>4. \A j \in Server : j # i => (Writing(j)' <=> Writing(j))
  <2>1. \A j \in Server : j # i => writer'[j] = writer[j] /\ writer[j] # t
    BY <1>1, <1>2 DEF Inv, TypeOK, LockInv, WritePC
  <2> QED
    BY <1>2, <2>1 DEF Writing, Inv, TypeOK
<1>5. \A j \in Server : Writing(j)' <=> Writing(j)
  BY <1>2, <1>3, <1>4
<1> QED
  BY <1>2, <1>5 DEF mapsSeen

\* The steps that touch neither mappingMtx nor what it guards.
OtherStep(t) ==
  \/ Acquire(t) \/ ServersStep(t) \/ VersionRead(t) \/ VersionFails(t)
  \/ CheckVersion(t) \/ ReleaseVersionConn(t) \/ BeginScrape(t) \/ QueryReturns(t)
  \/ QueryFails(t) \/ \E n \in Namespace \cup UserNamespace : BeginNamespace(t, n)
  \/ \E d \in DSN : Begin(t, d)

\* Connections, pings and queries do not concern the maps.
LEMMA OtherStutters ==
  ASSUME Inv, NEW t \in Scraper, OtherStep(t)
  PROVE  UNCHANGED <<mapsSeen, readers>>
<1>1. /\ pc[t] \notin WritePC /\ pc'[t] \notin WritePC
      /\ \A u \in Scraper : u # t => pc'[u] = pc[u]
  BY DEF OtherStep, Acquire, ServersStep, VersionRead, VersionFails, CheckVersion,
         ReleaseVersionConn, BeginScrape, QueryReturns, QueryFails, BeginNamespace,
         Begin, LockServers, NewServerFails, PingAnswered, PingFails, GotServer,
         QueryDatabases, NewServer, Return, Goto, WritePC, Acquires, Inv, TypeOK
<1>2. UNCHANGED <<metricMap, queryOverrides, writer, readers>>
  BY DEF OtherStep, Acquire, ServersStep, VersionRead, VersionFails, CheckVersion,
         ReleaseVersionConn, BeginScrape, QueryReturns, QueryFails, BeginNamespace,
         Begin, LockServers, NewServerFails, PingAnswered, PingFails, GotServer,
         QueryDatabases, NewServer, mapVars, lockVars
<1> QED
  BY <1>1, <1>2, SeenUnchanged

\* Every step is a step of VersionedMaps or a stutter.
LEMMA AbstractStep ==
  Inv /\ Inv' /\ [Next]_vars => [Abstract!Next]_<<mapsSeen, readers>>
<1> SUFFICES ASSUME Inv, Inv', [Next]_vars
             PROVE  Abstract!Next \/ UNCHANGED <<mapsSeen, readers>>
  OBVIOUS
<1>1. ASSUME \/ UNCHANGED vars
             \/ \E d \in DSN, v \in Version : Upgrade(d, v)
             \/ \E c \in Content : EditFile(c)
      PROVE  UNCHANGED <<mapsSeen, readers>>
  <2>1. UNCHANGED <<metricMap, queryOverrides, writer, pc, readers>>
    BY <1>1 DEF vars, mapVars, lockVars, Upgrade, EditFile
  <2> QED
    BY <2>1, SeenUnchanged
<1>2. ASSUME NEW t \in Scraper, ScraperStep(t) \/ \E d \in DSN : Begin(t, d)
      PROVE  Abstract!Next \/ UNCHANGED <<mapsSeen, readers>>
  <2>1. CASE OtherStep(t)
    BY <2>1, OtherStutters
  <2>2. CASE RebuildMetricMap(t) \/ RebuildOverrides(t)
             \/ ReadUserQueries(t) \/ AddQueries(t)
    BY <2>2, WriterStutters
  <2>3. CASE LockMaps(t)
    BY <2>3, LockStutters
  <2>4. CASE MapsLocked(t)
    BY <2>4, RebuildBegins DEF Abstract!Next
  <2>5. CASE UnlockMaps(t)
    BY <2>5, RebuildEnds DEF Abstract!Next
  <2>6. CASE RLockMaps(t)
    BY <2>6, ReaderJoins DEF Abstract!Next
  <2>7. CASE EndScrape(t)
    BY <2>7, ReaderLeaves DEF Abstract!Next
  <2> QED
    BY <1>2, <2>1, <2>2, <2>3, <2>4, <2>5, <2>6, <2>7
    DEF ScraperStep, OtherStep, MapVersionsStep, ServerScrapeStep
<1>3. \/ UNCHANGED vars
      \/ \E t \in Scraper : ScraperStep(t) \/ \E d \in DSN : Begin(t, d)
      \/ \E d \in DSN, v \in Version : Upgrade(d, v)
      \/ \E c \in Content : EditFile(c)
  BY DEF Next
<1> QED
  BY <1>1, <1>2, <1>3

\* The mutex discipline of checkMapVersions and Server.Scrape replaces the maps of
\* a server as a whole, never under a scrape, for any number of goroutines.
THEOREM Refinement == Spec => ImplementsVersionedMaps
<1>1. Init => Abstract!Init
  BY AbstractInit
<1>2. Inv /\ Inv' /\ [Next]_vars => [Abstract!Next]_<<mapsSeen, readers>>
  BY AbstractStep
<1> QED
  BY <1>1, <1>2, InvHolds, PTL DEF Spec, ImplementsVersionedMaps, Abstract!Spec
============================================================================
