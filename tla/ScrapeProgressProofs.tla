------------------------ MODULE ScrapeProgressProofs -----------------------
(***************************************************************************)
(* Why scrapes end and maps settle, for any number of goroutines, servers  *)
(* and versions and any pool size: the only way in which all the scrapes   *)
(* can come to wait; the steps a scrape has left; the maps that stay; and  *)
(* the queries that a scrape makes, as QueryCall has them.                 *)
(***************************************************************************)
EXTENDS ScrapeDSNProofs, ScrapeProgress

USE NoneAssumption

----------------------------------------------------------------------------
(* Waiting.                                                                *)

\* A goroutine queues at RLock behind a writer, which lets it in.
QueueInv == \A t \in Scraper : pc[t] = "rlockWait" => writer[srv[t]] # None

\* Nobody queues when the process starts.
LEMMA QueueInit == Init => QueueInv
  BY DEF Init, QueueInv

\* Only Unlock takes the writer away, and with it the queue.
LEMMA QueueStep == Inv /\ QueueInv /\ [Next]_vars => QueueInv'
<1>. SUFFICES ASSUME Inv, QueueInv, [Next]_vars PROVE QueueInv'
  OBVIOUS
<1>. USE DEF serversVars, mapVars, lockVars, envVars, frameVars, Goto, Return
<1>0. /\ pc \in [Scraper -> PC] /\ srv \in [Scraper -> Server \cup {None}]
      /\ writer \in [Server -> Scraper \cup {None}]
  BY DEF Inv, TypeOK
<1>1. ASSUME UNCHANGED writer,
             \A u \in Scraper : pc'[u] = "rlockWait" =>
               \/ pc[u] = "rlockWait" /\ srv'[u] = srv[u]
               \/ srv'[u] = srv[u] /\ writer[srv[u]] # None
      PROVE  QueueInv'
  BY <1>1 DEF QueueInv
<1>2. CASE UNCHANGED vars
  BY <1>1, <1>2 DEF vars
<1>3. CASE \/ \E d \in DSN, v \in Version : Upgrade(d, v)
           \/ \E c \in Content : EditFile(c)
  BY <1>1, <1>3 DEF Upgrade, EditFile
<1>4. ASSUME NEW t \in Scraper, \E d \in DSN : Begin(t, d)
      PROVE  QueueInv'
  BY <1>0, <1>1, <1>4 DEF Begin
<1>5. ASSUME NEW t \in Scraper, ScraperStep(t)
      PROVE  QueueInv'
  <2>1. CASE Acquire(t)
    BY <1>0, <1>1, <2>1 DEF Acquire, Acquires
  <2>2. CASE ServersStep(t)
    BY <1>0, <1>1, <2>2
    DEF ServersStep, LockServers, NewServer, NewServerFails, PingAnswered, PingFails,
        GotServer, QueryDatabases
  <2>3. CASE ServerScrapeStep(t)
    BY <1>0, <1>1, <2>3
    DEF ServerScrapeStep, RLockMaps, BeginScrape, BeginNamespace, QueryReturns, QueryFails,
        EndScrape
  <2>4. CASE LockMaps(t)
    <3>1. srv[t] \in Server
      BY <1>0, <2>4 DEF LockMaps, Inv, FrameInv
    <3>2. \A i \in Server : writer'[i] = writer[i] \/ writer'[i] = t
      BY <1>0, <2>4 DEF LockMaps, Announce
    <3>3. \A u \in Scraper : pc'[u] = "rlockWait" => pc[u] = "rlockWait" /\ srv'[u] = srv[u]
      BY <1>0, <2>4 DEF LockMaps
    <3>4. \A u \in Scraper : pc[u] = "rlockWait" => srv[u] \in Server
      BY <1>0 DEF Inv, FrameInv
    <3>. QED  BY <3>2, <3>3, <3>4 DEF QueueInv
  <2>5. CASE UnlockMaps(t)
    <3>1. \A u \in Scraper : pc'[u] = "rlockWait" =>
            pc[u] = "rlockWait" /\ srv[u] # srv[t] /\ srv'[u] = srv[u]
      BY <2>5 DEF UnlockMaps, Queued
    <3>2. \A i \in Server : i # srv[t] => writer'[i] = writer[i]
      BY <1>0, <2>5 DEF UnlockMaps
    <3>3. \A u \in Scraper : pc[u] = "rlockWait" => srv[u] \in Server
      BY <1>0 DEF Inv, FrameInv
    <3>. QED  BY <3>1, <3>2, <3>3 DEF QueueInv
  <2>6. CASE \/ VersionRead(t) \/ VersionFails(t) \/ CheckVersion(t) \/ MapsLocked(t)
             \/ RebuildMetricMap(t) \/ RebuildOverrides(t) \/ ReadUserQueries(t)
             \/ AddQueries(t) \/ ReleaseVersionConn(t)
    BY <1>0, <1>1, <2>6
    DEF VersionRead, VersionFails, CheckVersion, MapsLocked, RebuildMetricMap,
        RebuildOverrides, ReadUserQueries, AddQueries, ReleaseVersionConn
  <2>. QED  BY <1>5, <2>1, <2>2, <2>3, <2>4, <2>5, <2>6 DEF ScraperStep, MapVersionsStep
<1>. QED  BY <1>2, <1>3, <1>4, <1>5 DEF Next

\* If all wait, it is for a writer that waits for a reader that waits for the
\* connections of goroutines that wait for the writer; without that, the holder
\* of a connection or of Servers.m does not wait.
LEMMA WaitingIsCircular == Inv /\ QueueInv => OnlyDeadlock
<1>. SUFFICES ASSUME Inv, QueueInv, NoCircularWait,
                     NEW a \in Scraper, pc[a] # "idle",
                     \A t \in Scraper : pc[t] # "idle" => Waits(t)
              PROVE  FALSE
  BY DEF OnlyDeadlock, SomebodyRuns
<1>0. TypeOK /\ FrameInv /\ RegistryInv /\ LockInv
  BY DEF Inv
<1>1. ASSUME NEW i \in Server
      PROVE  writer[i] = None
  <2>. SUFFICES ASSUME writer[i] # None PROVE FALSE
    OBVIOUS
  <2>1. PICK w \in Scraper : writer[i] = w
    BY <1>0 DEF TypeOK
  <2>2. srv[w] = i /\ pc[w] \in WritePC \cup {"lockWait"}
    BY <1>0, <2>1 DEF LockInv
  <2>3. pc[w] = "lockWait" /\ readers[i] # {}
    BY <2>2 DEF Waits, WritePC, AcquirePC, Drained
  <2>4. PICK r \in Scraper : r \in readers[i]
    BY <1>0, <2>3 DEF TypeOK
  <2>5. srv[r] = i /\ pc[r] \in ReadPC
    BY <1>0, <2>4 DEF LockInv
  <2>6. pc[r] \in AcquirePC /\ ~Available(i)
    BY <2>5 DEF Waits, ReadPC, AcquirePC
  <2>7. PICK u \in conns[i] : pc[u] \notin {"lock", "lockWait"}
    BY <2>4, <2>6 DEF NoCircularWait
  <2>8. u \in Scraper /\ pc[u] \in ConnPC
    BY <1>0, <2>7 DEF TypeOK, LockInv
  <2>. QED  BY <2>7, <2>8 DEF Waits, ConnPC, CheckPC, WritePC, AcquirePC
<1>2. ASSUME NEW t \in Scraper, pc[t] # "idle"
      PROVE  \/ pc[t] = "get" /\ mutex # None
             \/ pc[t] \in AcquirePC /\ ~Available(srv[t]) /\ srv[t] \in Server
  <2>1. pc[t] \notin {"get", "connect"} => srv[t] \in Server
    BY <1>0, <1>2 DEF TypeOK, FrameInv
  <2>2. pc[t] # "rlockWait"
    BY <1>1, <2>1 DEF QueueInv
  <2>3. pc[t] # "lockWait"
    <3>. SUFFICES ASSUME pc[t] = "lockWait" PROVE FALSE
      OBVIOUS
    <3>1. srv[t] \in Server /\ writer[srv[t]] = t
      BY <1>0, <2>1 DEF LockInv
    <3>. QED  BY <1>1, <3>1
  <2>4. ~(pc[t] = "lock" /\ writer[srv[t]] # None)
    BY <1>1, <2>1
  <2>. QED  BY <1>2, <2>1, <2>2, <2>3, <2>4 DEF Waits, AcquirePC
<1>3. ASSUME NEW i \in Server
      PROVE  Available(i)
  <2>1. ASSUME NEW u \in conns[i] PROVE FALSE
    <3>1. u \in Scraper /\ pc[u] \in ConnPC
      BY <1>0, <2>1 DEF TypeOK, LockInv
    <3>. QED  BY <1>2, <3>1 DEF ConnPC, CheckPC, WritePC, AcquirePC
  <2>2. conns[i] = {} /\ Cardinality({}) = 0
    BY <2>1, FS_EmptySet
  <2>. QED  BY <2>2, PoolAssumption DEF Available, PoolSize
<1>4. pc[a] = "get" /\ mutex # None
  BY <1>2, <1>3
<1>5. PICK m \in Scraper : mutex = m
  BY <1>0, <1>4 DEF TypeOK
<1>6. pc[m] \in GetPC
  BY <1>0, <1>5 DEF RegistryInv
<1>7. pc[m] \in {"connect", "pingAcquire", "ping"}
  BY <1>6 DEF GetPC
<1>. QED  BY <1>2, <1>3, <1>7 DEF AcquirePC

\* Whatever scrapes do with the pools, Servers.m and both sides of mappingMtx, all
\* of them wait in one way only, the one that NoCircularWait rules out
\* (servers.go:24-44, exporter.go:127-200, postgres_server.go:85-135).
THEOREM DeadlockIsCircular == Spec => []OnlyDeadlock
<1>1. Spec => []QueueInv
  BY InvHolds, QueueInit, QueueStep, PTL DEF Spec
<1>. QED  BY <1>1, WaitingIsCircular, InvHolds, PTL

\* With no more scrapes at once than a pool has connections, they never do.
THEOREM DeadlockFree ==
  ASSUME Cardinality(Scraper) <= MaxConns
  PROVE  Spec => []SomebodyRuns
<1>1. NoCircularWait /\ OnlyDeadlock => SomebodyRuns
  BY DEF OnlyDeadlock
<1>. QED  BY <1>1, DeadlockIsCircular, PoolSuffices, PTL

----------------------------------------------------------------------------
(* Steps left.                                                             *)

\* A path through the positions.
LEMMA Path ==
  /\ PositionsLeft("get") = 22           /\ PositionsLeft("connect") = 21
  /\ PositionsLeft("pingAcquire") = 20   /\ PositionsLeft("ping") = 19
  /\ PositionsLeft("got") = 18           /\ PositionsLeft("versionAcquire") = 17
  /\ PositionsLeft("version") = 16       /\ PositionsLeft("check") = 15
  /\ PositionsLeft("lock") = 14          /\ PositionsLeft("lockWait") = 13
  /\ PositionsLeft("metricMap") = 12     /\ PositionsLeft("overrides") = 11
  /\ PositionsLeft("readFile") = 10      /\ PositionsLeft("addQueries") = 9
  /\ PositionsLeft("unlock") = 8         /\ PositionsLeft("release") = 7
  /\ PositionsLeft("rlock") = 6          /\ PositionsLeft("rlockWait") = 5
  /\ PositionsLeft("locked") = 4         /\ PositionsLeft("settingsAcquire") = 3
  /\ PositionsLeft("namespaceAcquire") = 3 /\ PositionsLeft("listAcquire") = 3
  /\ PositionsLeft("settings") = 2       /\ PositionsLeft("namespace") = 2
  /\ PositionsLeft("list") = 2           /\ PositionsLeft("loop") = 1
  /\ PositionsLeft("idle") = 0
  /\ \A p \in PC : PositionsLeft(p) \in Nat
  BY DEF PositionsLeft, PC, AcquirePC, ReadPC, ConnPC, CheckPC, WritePC, GetPC

\* There are finitely many namespaces left at any time.
LEMMA NamespacesFinite ==
  ASSUME TypeOK, NEW t \in Scraper
  PROVE  /\ NamespacesLeft(t) \subseteq Namespace \cup UserNamespace
         /\ IsFiniteSet(NamespacesLeft(t)) /\ Cardinality(NamespacesLeft(t)) \in Nat
<1>1. IsFiniteSet(Namespace \cup UserNamespace)
  BY NamespaceAssumption, FS_Union
<1>2. NamespacesLeft(t) \subseteq Namespace \cup UserNamespace
  BY DEF NamespacesLeft, TypeOK
<1>. QED  BY <1>1, <1>2, FS_Subset, FS_CardinalityType

\* StepsLeft counts, before a step and after it.
LEMMA StepsLeftType ==
  ASSUME TypeOK, TypeOK', NEW t \in Scraper
  PROVE  StepsLeft(t) \in Nat /\ StepsLeft(t)' \in Nat
<1>1. Cardinality(NamespacesLeft(t)) \in Nat
  BY NamespacesFinite
<1>2. Cardinality(NamespacesLeft(t)') \in Nat
  <2>1. IsFiniteSet(Namespace \cup UserNamespace)
    BY NamespaceAssumption, FS_Union
  <2>2. NamespacesLeft(t)' \subseteq Namespace \cup UserNamespace
    BY DEF NamespacesLeft, TypeOK
  <2>. QED  BY <2>1, <2>2, FS_Subset, FS_CardinalityType
<1>3. PositionsLeft(pc[t]) \in Nat /\ PositionsLeft(pc'[t]) \in Nat
  BY Path DEF TypeOK
<1>. QED  BY <1>1, <1>2, <1>3 DEF StepsLeft

\* Farther along the path, with no namespace more to do.
LEMMA FartherOn ==
  ASSUME TypeOK, TypeOK', NEW t \in Scraper,
         NamespacesLeft(t)' \subseteq NamespacesLeft(t),
         PositionsLeft(pc'[t]) < PositionsLeft(pc[t])
  PROVE  StepsLeft(t)' < StepsLeft(t)
<1>1. Cardinality(NamespacesLeft(t)') <= Cardinality(NamespacesLeft(t))
  BY NamespacesFinite, FS_Subset
<1>2. Cardinality(NamespacesLeft(t)') \in Nat /\ Cardinality(NamespacesLeft(t)) \in Nat
  BY <1>1, NamespacesFinite, FS_Subset, FS_CardinalityType
<1>3. PositionsLeft(pc'[t]) \in Nat /\ PositionsLeft(pc[t]) \in Nat
  BY Path DEF TypeOK
<1>. QED  BY <1>1, <1>2, <1>3 DEF StepsLeft

\* A namespace less to do is worth the two steps back to its queries.
LEMMA NamespaceBegun ==
  ASSUME TypeOK, TypeOK', NEW t \in Scraper,
         NEW n \in Namespace \cup UserNamespace, BeginNamespace(t, n)
  PROVE  StepsLeft(t)' < StepsLeft(t)
<1>1. pc[t] = "loop" /\ n \in todo[t] /\ pc'[t] = "namespaceAcquire" /\ todo'[t] = todo[t] \ {n}
  BY DEF BeginNamespace, Goto, TypeOK
<1>2. /\ NamespacesLeft(t) = todo[t] /\ NamespacesLeft(t)' = todo[t] \ {n}
      /\ PositionsLeft(pc[t]) = 1 /\ PositionsLeft(pc'[t]) = 3
  BY <1>1, Path DEF NamespacesLeft, BeforeQueries, CheckPC, WritePC
<1>3. IsFiniteSet(todo[t]) /\ Cardinality(todo[t]) \in Nat
  BY <1>2, NamespacesFinite
<1>4. Cardinality(todo[t] \ {n}) = Cardinality(todo[t]) - 1
  BY <1>1, <1>3, FS_RemoveElement
<1>. QED  BY <1>2, <1>3, <1>4 DEF StepsLeft

\* No step puts a namespace back: before the queries all are to be done, from
\* then on those in todo.
LEMMA NamespacesKept ==
  ASSUME NEW t \in Scraper, TypeOK,
         \/ pc[t] \in BeforeQueries /\ (pc'[t] \in BeforeQueries \/ todo'[t] \subseteq Namespace \cup UserNamespace)
         \/ pc[t] \notin BeforeQueries /\ pc'[t] \notin BeforeQueries /\ todo'[t] \subseteq todo[t]
  PROVE  NamespacesLeft(t)' \subseteq NamespacesLeft(t)
  BY DEF NamespacesLeft, TypeOK

\* Every step of a goroutine takes it farther.
LEMMA StepAdvances ==
  ASSUME Inv, Inv', NEW t \in Scraper, ScraperStep(t)
  PROVE  StepsLeft(t)' < StepsLeft(t)
<1>. USE DEF Goto, frameVars
<1>0. /\ TypeOK /\ TypeOK' /\ pc \in [Scraper -> PC]
      /\ todo \in [Scraper -> SUBSET (Namespace \cup UserNamespace)]
      /\ todo' \in [Scraper -> SUBSET (Namespace \cup UserNamespace)]
  BY DEF Inv, TypeOK
<1>1. CASE \E n \in Namespace \cup UserNamespace : BeginNamespace(t, n)
  BY <1>0, <1>1, NamespaceBegun
<1>2. ASSUME pc[t] \in BeforeQueries, PositionsLeft(pc'[t]) < PositionsLeft(pc[t])
      PROVE  StepsLeft(t)' < StepsLeft(t)
  BY <1>0, <1>2, NamespacesKept, FartherOn
<1>3. ASSUME pc[t] \notin BeforeQueries, pc'[t] \notin BeforeQueries, todo'[t] \subseteq todo[t],
             PositionsLeft(pc'[t]) < PositionsLeft(pc[t])
      PROVE  StepsLeft(t)' < StepsLeft(t)
  BY <1>0, <1>3, NamespacesKept, FartherOn
<1>. USE DEF BeforeQueries, CheckPC, WritePC
<1>4. CASE Acquire(t)
  BY <1>0, <1>2, <1>3, <1>4, Path DEF Acquire, Acquires
<1>5. CASE Return(t) /\ pc[t] # "idle"
  <2>1. pc'[t] = "idle" /\ todo'[t] = {}
    BY <1>0, <1>5 DEF Return
  <2>2. PositionsLeft(pc[t]) > 0
    BY <1>0, <1>5 DEF PositionsLeft, PC, AcquirePC, ReadPC, ConnPC, GetPC
  <2>. QED  BY <1>2, <1>3, <2>1, <2>2, Path
<1>6. CASE ServersStep(t)
  <2>1. CASE NewServerFails(t) \/ PingFails(t) \/ QueryDatabases(t)
    BY <1>5, <2>1 DEF NewServerFails, PingFails, QueryDatabases
  <2>2. CASE LockServers(t) \/ PingAnswered(t) \/ \E i \in Server : NewServer(t, i)
    BY <1>0, <1>2, <2>2, Path DEF LockServers, PingAnswered, NewServer
  <2>3. CASE GotServer(t)
    BY <1>0, <1>2, <2>3, Path DEF GotServer
  <2>. QED  BY <1>6, <2>1, <2>2, <2>3 DEF ServersStep
<1>7. CASE MapVersionsStep(t)
  <2>1. CASE VersionRead(t) \/ VersionFails(t) \/ CheckVersion(t)
    BY <1>0, <1>2, <2>1, Path DEF VersionRead, VersionFails, CheckVersion
  <2>2. CASE LockMaps(t) \/ MapsLocked(t) \/ RebuildMetricMap(t) \/ RebuildOverrides(t)
    BY <1>0, <1>2, <2>2, Path DEF LockMaps, MapsLocked, RebuildMetricMap, RebuildOverrides
  <2>3. CASE ReadUserQueries(t) \/ AddQueries(t) \/ UnlockMaps(t) \/ ReleaseVersionConn(t)
    BY <1>0, <1>2, <2>3, Path DEF ReadUserQueries, AddQueries, UnlockMaps, ReleaseVersionConn
  <2>. QED  BY <1>7, <2>1, <2>2, <2>3 DEF MapVersionsStep
<1>8. CASE RLockMaps(t) \/ BeginScrape(t)
  BY <1>0, <1>2, <1>8, Path DEF RLockMaps, BeginScrape
<1>9. CASE QueryReturns(t) \/ QueryFails(t)
  BY <1>0, <1>3, <1>9, Path DEF QueryReturns, QueryFails
<1>10. CASE EndScrape(t)
  BY <1>5, <1>10 DEF EndScrape
<1>. QED  BY <1>1, <1>4, <1>6, <1>7, <1>8, <1>9, <1>10 DEF ScraperStep, ServerScrapeStep

\* The steps of another goroutine leave this one where it is, or let it in.
LEMMA OthersDoNotDelay ==
  ASSUME Inv, Inv', NEW t \in Scraper, NEW u \in Scraper, u # t,
         ScraperStep(u) \/ \E d \in DSN : Begin(u, d)
  PROVE  StepsLeft(t)' <= StepsLeft(t)
<1>. USE DEF Goto, Return, frameVars
<1>0. /\ TypeOK /\ TypeOK' /\ pc \in [Scraper -> PC]
      /\ todo \in [Scraper -> SUBSET (Namespace \cup UserNamespace)]
  BY DEF Inv, TypeOK
<1>1. ASSUME pc'[t] = pc[t], todo'[t] = todo[t]
      PROVE  StepsLeft(t)' <= StepsLeft(t)
  <2>1. StepsLeft(t)' = StepsLeft(t)
    BY <1>1 DEF StepsLeft, NamespacesLeft
  <2>2. StepsLeft(t) \in Nat
    BY <1>0, StepsLeftType
  <2>. QED  BY <2>1, <2>2
<1>2. CASE UnlockMaps(u)
  <2>1. CASE pc'[t] = pc[t]
    BY <1>1, <1>2, <2>1 DEF UnlockMaps
  <2>2. CASE pc'[t] # pc[t]
    <3>1. pc[t] = "rlockWait" /\ pc'[t] = "locked"
      BY <1>0, <1>2, <2>2 DEF UnlockMaps, Queued
    <3>2. NamespacesLeft(t)' \subseteq NamespacesLeft(t)
      BY <3>1 DEF NamespacesLeft, BeforeQueries
    <3>3. StepsLeft(t)' < StepsLeft(t)
      BY <1>0, <3>1, <3>2, Path, FartherOn
    <3>4. StepsLeft(t)' \in Nat /\ StepsLeft(t) \in Nat
      BY <1>0, StepsLeftType
    <3>. QED  BY <3>3, <3>4
  <2>. QED  BY <2>1, <2>2
<1>3. CASE ~UnlockMaps(u)
  <2>1. pc'[t] = pc[t] /\ todo'[t] = todo[t]
    BY <1>0, <1>3
    DEF ScraperStep, Begin, Acquire, ServersStep, LockServers, NewServer, NewServerFails,
        PingAnswered, PingFails, GotServer, QueryDatabases, MapVersionsStep, VersionRead,
        VersionFails, CheckVersion, LockMaps, MapsLocked, RebuildMetricMap,
        RebuildOverrides, ReadUserQueries, AddQueries, ReleaseVersionConn,
        ServerScrapeStep, RLockMaps, BeginScrape, BeginNamespace, QueryReturns,
        QueryFails, EndScrape
  <2>. QED  BY <1>1, <2>1
<1>. QED  BY <1>2, <1>3

\* A scrapeDSN takes at most 22 steps and three for each namespace, whatever fails:
\* each leaves it fewer, and no step of another goroutine adds to them
\* (exporter.go:127-200, :287-301, postgres_server.go:108-135, queries.go:397-418).
THEOREM Advances == Spec => ScrapeAdvances
<1>1. ASSUME Inv, Inv', [Next]_vars, NEW t \in Scraper, pc[t] # "idle"
      PROVE  /\ StepsLeft(t)' <= StepsLeft(t)
             /\ ScraperStep(t) => StepsLeft(t)' < StepsLeft(t)
  <2>0. StepsLeft(t) \in Nat /\ StepsLeft(t)' \in Nat
    BY <1>1, StepsLeftType DEF Inv
  <2>1. CASE ScraperStep(t)
    BY <1>1, <2>0, <2>1, StepAdvances
  <2>2. CASE \E u \in Scraper \ {t} : ScraperStep(u) \/ \E d \in DSN : Begin(u, d)
    BY <1>1, <2>2, <2>1, OthersDoNotDelay
  <2>3. CASE UNCHANGED <<pc, todo>>
    <3>1. StepsLeft(t)' = StepsLeft(t)
      BY <2>3 DEF StepsLeft, NamespacesLeft
    <3>. QED  BY <2>0, <2>1, <3>1
  <2>4. CASE UNCHANGED vars
    BY <2>3, <2>4 DEF vars, frameVars
  <2>5. CASE \/ \E d \in DSN, v \in Version : Upgrade(d, v)
             \/ \E c \in Content : EditFile(c)
    BY <2>3, <2>5 DEF Upgrade, EditFile, frameVars
  <2>6. ~ \E d \in DSN : Begin(t, d)
    BY <1>1 DEF Begin
  <2>. QED  BY <1>1, <2>1, <2>2, <2>4, <2>5, <2>6 DEF Next
<1>2. Inv /\ Inv' /\ [Next]_vars =>
        [\A t \in Scraper : pc[t] # "idle" =>
           /\ StepsLeft(t)' <= StepsLeft(t)
           /\ ScraperStep(t) => StepsLeft(t)' < StepsLeft(t)]_vars
  BY <1>1
<1>. QED  BY <1>2, InvHolds, PTL DEF Spec, ScrapeAdvances

----------------------------------------------------------------------------
(* Settling.                                                               *)

\* Until it has read a version, a goroutine carries none.
Unread == {"idle", "get", "connect", "pingAcquire", "ping", "got",
           "listAcquire", "list", "versionAcquire", "version"}
UnreadInv == \A t \in Scraper : pc[t] \in Unread => ver[t] = None

\* No goroutine carries a version when the process starts.
LEMMA UnreadInit == Init => UnreadInv
  BY DEF Init, UnreadInv

\* A version is carried until scrapeDSN returns, and no farther.
LEMMA UnreadStep == Inv /\ UnreadInv /\ [Next]_vars => UnreadInv'
<1>. SUFFICES ASSUME Inv, UnreadInv, [Next]_vars PROVE UnreadInv'
  OBVIOUS
<1>. USE DEF envVars, frameVars, Goto, Return, Unread
<1>0. pc \in [Scraper -> PC] /\ ver \in [Scraper -> Version \cup {None}]
  BY DEF Inv, TypeOK
<1>1. ASSUME \A u \in Scraper : pc'[u] \in Unread =>
               (pc[u] \in Unread /\ ver'[u] = ver[u]) \/ ver'[u] = None
      PROVE  UnreadInv'
  BY <1>1 DEF UnreadInv
<1>2. CASE UNCHANGED vars
  BY <1>1, <1>2 DEF vars
<1>3. CASE \/ \E d \in DSN, v \in Version : Upgrade(d, v)
           \/ \E c \in Content : EditFile(c)
  BY <1>1, <1>3 DEF Upgrade, EditFile
<1>4. ASSUME NEW t \in Scraper, \E d \in DSN : Begin(t, d)
      PROVE  UnreadInv'
  BY <1>0, <1>1, <1>4 DEF Begin
<1>5. ASSUME NEW t \in Scraper, ScraperStep(t)
      PROVE  UnreadInv'
  <2>1. CASE Acquire(t)
    BY <1>0, <1>1, <2>1 DEF Acquire, Acquires
  <2>2. CASE ServersStep(t)
    BY <1>0, <1>1, <2>2
    DEF ServersStep, LockServers, NewServer, NewServerFails, PingAnswered, PingFails,
        GotServer, QueryDatabases
  <2>3. CASE ServerScrapeStep(t)
    BY <1>0, <1>1, <2>3
    DEF ServerScrapeStep, RLockMaps, BeginScrape, BeginNamespace, QueryReturns, QueryFails,
        EndScrape
  <2>4. CASE MapVersionsStep(t)
    BY <1>0, <1>1, <2>4
    DEF MapVersionsStep, VersionRead, VersionFails, CheckVersion, LockMaps, MapsLocked,
        RebuildMetricMap, RebuildOverrides, ReadUserQueries, AddQueries, UnlockMaps,
        Queued, ReleaseVersionConn
  <2>. QED  BY <1>5, <2>1, <2>2, <2>3, <2>4 DEF ScraperStep
<1>. QED  BY <1>2, <1>3, <1>4, <1>5 DEF Next

\* Who gets a server has no version yet; who reads one reads v; who rebuilds
\* stores what it has read.
LEMMA SettledStep ==
  ASSUME Inv, UnreadInv, [Next]_vars, NEW i \in Server, NEW v \in Version,
         Settled(i, v), UNCHANGED dbVersion
  PROVE  Settled(i, v)'
<1>. USE DEF serversVars, mapVars, lockVars, envVars, frameVars, Goto, Return
<1>0. /\ pc \in [Scraper -> PC] /\ ver \in [Scraper -> Version \cup {None}]
      /\ srv \in [Scraper -> Server \cup {None}] /\ dsn \in [Scraper -> DSN \cup {None}]
      /\ lastMapVersion \in [Server -> Version \cup {None}]
      /\ registry \in [DSN -> Server \cup {None}]
  BY DEF Inv, TypeOK
<1>1. ASSUME UNCHANGED lastMapVersion,
             \A u \in Scraper : srv'[u] = i => ver'[u] \in {None, v}
      PROVE  Settled(i, v)'
  BY <1>1 DEF Settled
<1>2. \A u \in Scraper : srv[u] = i => ver[u] \in {None, v}
  BY DEF Settled
<1>3. ASSUME UNCHANGED <<lastMapVersion, srv, ver>>
      PROVE  Settled(i, v)'
  BY <1>1, <1>2, <1>3
<1>4. CASE UNCHANGED vars
  BY <1>3, <1>4 DEF vars
<1>5. CASE \/ \E d \in DSN, w \in Version : Upgrade(d, w)
           \/ \E c \in Content : EditFile(c)
  BY <1>3, <1>5 DEF Upgrade, EditFile
<1>6. ASSUME NEW t \in Scraper, \E d \in DSN : Begin(t, d)
      PROVE  Settled(i, v)'
  BY <1>3, <1>6 DEF Begin
<1>7. ASSUME NEW t \in Scraper, ScraperStep(t)
      PROVE  Settled(i, v)'
  <2>1. CASE Acquire(t)
    BY <1>3, <2>1 DEF Acquire
  <2>2. CASE ServersStep(t)
    <3>1. CASE NewServerFails(t) \/ PingFails(t) \/ QueryDatabases(t)
      BY <1>0, <1>1, <1>2, NoneAssumption, <3>1
      DEF NewServerFails, PingFails, QueryDatabases
    <3>2. CASE LockServers(t) \/ \E j \in Server : NewServer(t, j)
      <4>1. ver[t] = None
        BY <3>2 DEF LockServers, NewServer, UnreadInv, Unread
      <4>. QED  BY <1>0, <1>1, <1>2, <3>2, <4>1 DEF LockServers, NewServer
    <3>3. CASE PingAnswered(t) \/ GotServer(t)
      BY <1>3, <3>3 DEF PingAnswered, GotServer
    <3>. QED  BY <2>2, <3>1, <3>2, <3>3 DEF ServersStep
  <2>3. CASE VersionRead(t)
    <3>1. dsn[t] \in DSN
      BY <1>0, <2>3 DEF VersionRead, Inv, FrameInv
    <3>2. dbVersion[dsn[t]] = v
      BY <3>1 DEF Settled
    <3>. QED  BY <1>0, <1>1, <1>2, <2>3, <3>2 DEF VersionRead
  <2>4. CASE RebuildOverrides(t)
    <3>1. srv[t] \in Server /\ ver[t] # None
      BY <1>0, <2>4 DEF RebuildOverrides, Inv, FrameInv, WritePC
    <3>2. lastMapVersion'[i] = v
      BY <1>0, <1>2, <2>4, <3>1 DEF RebuildOverrides, Settled
    <3>3. UNCHANGED <<srv, ver>>
      BY <2>4 DEF RebuildOverrides
    <3>. QED  BY <1>2, <3>2, <3>3 DEF Settled
  <2>5. CASE \/ VersionFails(t) \/ CheckVersion(t) \/ LockMaps(t) \/ MapsLocked(t)
             \/ RebuildMetricMap(t) \/ ReadUserQueries(t) \/ AddQueries(t)
             \/ UnlockMaps(t) \/ ReleaseVersionConn(t)
    BY <1>3, <2>5
    DEF VersionFails, CheckVersion, LockMaps, MapsLocked, RebuildMetricMap,
        ReadUserQueries, AddQueries, UnlockMaps, ReleaseVersionConn
  <2>6. CASE \/ RLockMaps(t) \/ BeginScrape(t) \/ QueryReturns(t) \/ QueryFails(t)
             \/ \E n \in Namespace \cup UserNamespace : BeginNamespace(t, n)
    BY <1>3, <2>6 DEF RLockMaps, BeginScrape, QueryReturns, QueryFails, BeginNamespace
  <2>7. CASE EndScrape(t)
    BY <1>0, <1>1, <1>2, NoneAssumption, <2>7 DEF EndScrape
  <2>. QED
    BY <1>7, <2>1, <2>2, <2>3, <2>4, <2>5, <2>6, <2>7
    DEF ScraperStep, MapVersionsStep, ServerScrapeStep
<1>. QED  BY <1>4, <1>5, <1>6, <1>7 DEF Next

\* Once a server's maps are those of the version that the databases report, and
\* no check under way has read another one, they stay so until an upgrade: no
\* check, overlapping, failing or torn, replaces them by others
\* (exporter.go:154-166).
THEOREM MapsStaySettled == Spec => StaysSettled
<1>1. Inv /\ UnreadInv /\ [Next]_vars =>
        [\A i \in Server, v \in Version :
           Settled(i, v) /\ UNCHANGED dbVersion => Settled(i, v)']_vars
  BY SettledStep
<1>2. Spec => []UnreadInv
  BY InvHolds, UnreadInit, UnreadStep, PTL DEF Spec
<1>. QED  BY <1>1, <1>2, InvHolds, PTL DEF Spec, StaysSettled

----------------------------------------------------------------------------
(* Refinement: the queries of a scrape are calls as QueryCall has them.    *)

QueryPC == {"settings", "namespace"}

HoldingInv == queryHolding = {t \in Scraper : pc[t] \in QueryPC}

\* While a scrape has mappingMtx read-locked, it holds connections for queries.
LEMMA HoldingQueries == Inv => HoldingInv
<1>. SUFFICES ASSUME Inv, NEW t \in Scraper
             PROVE  pc[t] \in ReadPC /\ t \in conns[srv[t]] <=> pc[t] \in QueryPC
  BY DEF queryHolding, HoldingInv
<1>1. ASSUME pc[t] \in ReadPC
      PROVE  t \in conns[srv[t]] <=> pc[t] \in QueryPC
  <2>1. srv[t] \in Server
    BY <1>1 DEF ReadPC, Inv, FrameInv, TypeOK
  <2>2. t \in conns[srv[t]] <=> pc[t] \in ConnPC
    BY <2>1 DEF Inv, LockInv
  <2>. QED  BY <1>1, <2>2 DEF ReadPC, ConnPC, CheckPC, WritePC, QueryPC
<1>. QED  BY <1>1 DEF QueryPC, ReadPC

\* What a step of one goroutine changes, seen from the calls.
LEMMA CallsSeen ==
  ASSUME HoldingInv, HoldingInv', NEW t \in Scraper,
         \A u \in Scraper \ {t} : PhaseAt(pc'[u]) = PhaseAt(pc[u]) /\ failed'[u] = failed[u]
  PROVE  /\ queryPhase' = [queryPhase EXCEPT ![t] = PhaseAt(pc'[t])]
         /\ queryPhase[t] = PhaseAt(pc[t])
         /\ queryHolding' = IF pc'[t] \in QueryPC THEN queryHolding \cup {t}
                            ELSE queryHolding \ {t}
         /\ queryFailed' = IF failed'[t] THEN queryFailed \cup {t} ELSE queryFailed \ {t}
<1>1. queryPhase' = [queryPhase EXCEPT ![t] = PhaseAt(pc'[t])] /\ queryPhase[t] = PhaseAt(pc[t])
  BY DEF queryPhase
<1>2. \A u \in Scraper \ {t} : pc'[u] \in QueryPC <=> pc[u] \in QueryPC
  BY DEF PhaseAt, QueryPC
<1>3. queryHolding' = IF pc'[t] \in QueryPC THEN queryHolding \cup {t}
                      ELSE queryHolding \ {t}
  BY <1>2 DEF HoldingInv
<1>4. queryFailed' = IF failed'[t] THEN queryFailed \cup {t} ELSE queryFailed \ {t}
  BY DEF queryFailed
<1>. QED  BY <1>1, <1>3, <1>4

\* Seen from the calls, positions fall into four groups.
LEMMA Phases ==
  /\ \A p \in {"settingsAcquire", "namespaceAcquire"} : PhaseAt(p) = "acquiring"
  /\ \A p \in QueryPC : PhaseAt(p) = "running"
  /\ \A p \in PC \ ({"settingsAcquire", "namespaceAcquire"} \cup QueryPC) : PhaseAt(p) = "idle"
  BY DEF PhaseAt, QueryPC

\* A step that moves one goroutine outside its queries.
LEMMA CallStutters ==
  ASSUME Inv, HoldingInv, HoldingInv', NEW t \in Scraper,
         \A u \in Scraper \ {t} : PhaseAt(pc'[u]) = PhaseAt(pc[u]) /\ failed'[u] = failed[u],
         PhaseAt(pc'[t]) = PhaseAt(pc[t]), pc[t] \notin QueryPC, pc'[t] \notin QueryPC,
         failed'[t] = failed[t]
  PROVE  UNCHANGED <<queryPhase, queryHolding, queryFailed>>
<1>1. queryPhase' = queryPhase
  BY CallsSeen DEF queryPhase
<1>2. queryHolding' = queryHolding
  BY CallsSeen DEF HoldingInv
<1>3. queryFailed' = queryFailed
  BY CallsSeen DEF queryFailed
<1>. QED  BY <1>1, <1>2, <1>3

\* A goroutine that returns has no query under way, and reports its errors.
LEMMA CallReports ==
  ASSUME Inv, HoldingInv, HoldingInv', NEW t \in Scraper, Return(t),
         PhaseAt(pc[t]) = "idle", pc[t] \notin QueryPC
  PROVE  Queries!Reports(t)
<1>1. pc'[t] = "idle" /\ ~failed'[t] /\ PhaseAt("idle") = "idle"
  BY Phases DEF Return, Goto, Inv, TypeOK, PC, QueryPC
<1>2. \A u \in Scraper \ {t} : PhaseAt(pc'[u]) = PhaseAt(pc[u]) /\ failed'[u] = failed[u]
  BY DEF Return, Goto, Inv, TypeOK
<1>3. queryPhase[t] = "idle" /\ queryPhase' = queryPhase
  BY <1>1, <1>2, CallsSeen DEF queryPhase
<1>4. queryHolding' = queryHolding
  BY <1>1, <1>2, CallsSeen DEF HoldingInv, QueryPC
<1>5. queryFailed' = queryFailed \ {t}
  BY <1>1, <1>2, CallsSeen
<1>. QED  BY <1>3, <1>4, <1>5 DEF Queries!Reports

\* Each step of a goroutine is one of its call, or none.
LEMMA CallStep ==
  ASSUME Inv, HoldingInv, HoldingInv', NEW t \in Scraper,
         ScraperStep(t) \/ \E d \in DSN : Begin(t, d)
  PROVE  Queries!Next \/ UNCHANGED <<queryPhase, queryHolding, queryFailed>>
<1>. USE DEF Goto, frameVars
<1>0. /\ pc \in [Scraper -> PC] /\ failed \in [Scraper -> BOOLEAN]
      /\ todo \in [Scraper -> SUBSET (Namespace \cup UserNamespace)]
  BY DEF Inv, TypeOK
<1>1. CASE Return(t) /\ PhaseAt(pc[t]) = "idle" /\ pc[t] \notin QueryPC
  BY <1>1, CallReports DEF Queries!Next
<1>2. ASSUME UNCHANGED failed, \A u \in Scraper \ {t} : PhaseAt(pc'[u]) = PhaseAt(pc[u]),
             PhaseAt(pc'[t]) = PhaseAt(pc[t]), pc[t] \notin QueryPC, pc'[t] \notin QueryPC
      PROVE  UNCHANGED <<queryPhase, queryHolding, queryFailed>>
  BY <1>2, CallStutters
<1>3. ASSUME UNCHANGED failed, \A u \in Scraper \ {t} : pc'[u] = pc[u],
             PhaseAt(pc[t]) = "idle", pc[t] \notin QueryPC,
             pc'[t] \in {"settingsAcquire", "namespaceAcquire"}
      PROVE  Queries!Ask(t)
  <2>1. PhaseAt(pc'[t]) = "acquiring" /\ pc'[t] \notin QueryPC
    BY <1>3, Phases DEF QueryPC
  <2>2. queryPhase[t] = "idle" /\ queryPhase' = [queryPhase EXCEPT ![t] = "acquiring"]
    BY <1>3, <2>1, CallsSeen
  <2>3. queryHolding' = queryHolding /\ queryFailed' = queryFailed
    BY <1>3, <2>1, CallsSeen DEF HoldingInv, queryFailed
  <2>. QED  BY <2>2, <2>3 DEF Queries!Ask
<1>4. CASE Acquire(t)
  <2>1. UNCHANGED failed /\ \A u \in Scraper \ {t} : pc'[u] = pc[u]
    BY <1>0, <1>4 DEF Acquire
  <2>2. CASE pc[t] \in {"settingsAcquire", "namespaceAcquire"}
    <3>1. pc'[t] \in QueryPC /\ PhaseAt(pc[t]) = "acquiring" /\ PhaseAt(pc'[t]) = "running"
      BY <1>0, <1>4, <2>2, Phases DEF Acquire, Acquires, QueryPC
    <3>2. UNCHANGED queryFailed
      BY <2>1 DEF queryFailed
    <3>. QED  BY <2>1, <3>1, <3>2, CallsSeen DEF Queries!Next, Queries!Acquired
  <2>3. CASE pc[t] \notin {"settingsAcquire", "namespaceAcquire"}
    BY <1>0, <1>2, <1>4, <2>1, <2>3, Phases
    DEF Acquire, Acquires, QueryPC, AcquirePC, PC, ConnPC, CheckPC
  <2>. QED  BY <2>2, <2>3
<1>5. CASE QueryReturns(t)
  <2>1. UNCHANGED failed /\ pc'[t] = "loop" /\ \A u \in Scraper \ {t} : pc'[u] = pc[u]
    BY <1>0, <1>5 DEF QueryReturns
  <2>2. PhaseAt(pc[t]) = "running" /\ PhaseAt("loop") = "idle" /\ "loop" \notin QueryPC
    BY <1>5, Phases DEF QueryReturns, QueryPC, PC, ReadPC
  <2>3. UNCHANGED queryFailed
    BY <2>1 DEF queryFailed
  <2>. QED  BY <2>1, <2>2, <2>3, CallsSeen DEF Queries!Next, Queries!Answered
<1>6. CASE QueryFails(t)
  <2>1. failed'[t] /\ pc'[t] = "loop"
        /\ \A u \in Scraper \ {t} : pc'[u] = pc[u] /\ failed'[u] = failed[u]
    BY <1>0, <1>6 DEF QueryFails
  <2>2. /\ PhaseAt(pc[t]) \in {"acquiring", "running"}
        /\ PhaseAt("loop") = "idle" /\ "loop" \notin QueryPC
    BY <1>6, Phases DEF QueryFails, QueryPC, PC, ReadPC
  <2>. QED  BY <2>1, <2>2, CallsSeen DEF Queries!Next, Queries!Fails
<1>7. CASE BeginScrape(t) \/ \E n \in Namespace \cup UserNamespace : BeginNamespace(t, n)
  <2>1. /\ UNCHANGED failed /\ \A u \in Scraper \ {t} : pc'[u] = pc[u]
        /\ pc[t] \in {"locked", "loop"}
        /\ pc'[t] \in {"loop", "settingsAcquire", "namespaceAcquire"}
    BY <1>0, <1>7 DEF BeginScrape, BeginNamespace
  <2>2. /\ PhaseAt("locked") = "idle" /\ PhaseAt("loop") = "idle"
        /\ {"locked", "loop"} \cap QueryPC = {}
    BY Phases DEF QueryPC, PC, ReadPC
  <2>. QED  BY <1>2, <1>3, <2>1, <2>2 DEF Queries!Next
<1>8. CASE NewServerFails(t) \/ PingFails(t) \/ QueryDatabases(t) \/ EndScrape(t)
  <2>1. Return(t) /\ pc[t] \in {"connect", "ping", "pingAcquire", "list", "listAcquire", "loop"}
    BY <1>8 DEF NewServerFails, PingFails, QueryDatabases, EndScrape
  <2>2. PhaseAt(pc[t]) = "idle" /\ pc[t] \notin QueryPC
    BY <2>1, Phases DEF QueryPC, PC, ReadPC, ConnPC, AcquirePC, GetPC
  <2>. QED  BY <1>1, <2>1, <2>2
<1>9. CASE UnlockMaps(t)
  <2>1. /\ UNCHANGED failed /\ pc[t] = "unlock" /\ pc'[t] = "release"
        /\ \A u \in Scraper \ {t} :
             pc'[u] = pc[u] \/ (pc[u] = "rlockWait" /\ pc'[u] = "locked")
    BY <1>0, <1>9 DEF UnlockMaps, Queued
  <2>2. /\ \A p \in {"unlock", "release", "rlockWait", "locked"} : PhaseAt(p) = "idle"
        /\ {"unlock", "release"} \cap QueryPC = {}
    BY Phases DEF QueryPC, PC, ReadPC, ConnPC, CheckPC, WritePC
  <2>. QED  BY <1>2, <2>1, <2>2
<1>10. CASE \/ LockServers(t) \/ PingAnswered(t) \/ GotServer(t) \/ RLockMaps(t)
            \/ \E i \in Server : NewServer(t, i)
            \/ \E d \in DSN : Begin(t, d)
  <2>1. /\ UNCHANGED failed /\ \A u \in Scraper \ {t} : pc'[u] = pc[u]
        /\ {pc[t], pc'[t]} \subseteq
             {"idle", "get", "connect", "pingAcquire", "ping", "got", "versionAcquire",
              "listAcquire", "rlock", "rlockWait", "locked"}
    BY <1>0, <1>10 DEF LockServers, PingAnswered, GotServer, RLockMaps, NewServer, Begin
  <2>2. PhaseAt(pc[t]) = "idle" /\ PhaseAt(pc'[t]) = "idle" /\ {pc[t], pc'[t]} \cap QueryPC = {}
    BY <2>1, Phases DEF QueryPC, PC, ReadPC, ConnPC, AcquirePC, GetPC
  <2>. QED  BY <1>2, <2>1, <2>2
<1>11. CASE MapVersionsStep(t) /\ ~UnlockMaps(t)
  <2>1. /\ UNCHANGED failed /\ \A u \in Scraper \ {t} : pc'[u] = pc[u]
        /\ {pc[t], pc'[t]} \subseteq CheckPC \cup {"versionAcquire", "rlock"}
    BY <1>0, <1>11
    DEF MapVersionsStep, VersionRead, VersionFails, CheckVersion, LockMaps, MapsLocked,
        RebuildMetricMap, RebuildOverrides, ReadUserQueries, AddQueries,
        ReleaseVersionConn, CheckPC, WritePC
  <2>2. PhaseAt(pc[t]) = "idle" /\ PhaseAt(pc'[t]) = "idle" /\ {pc[t], pc'[t]} \cap QueryPC = {}
    BY <2>1, Phases DEF QueryPC, PC, ConnPC, CheckPC, WritePC, AcquirePC
  <2>. QED  BY <1>2, <2>1, <2>2
<1>. QED
  BY <1>4, <1>5, <1>6, <1>7, <1>8, <1>9, <1>10, <1>11
  DEF ScraperStep, ServersStep, MapVersionsStep, ServerScrapeStep

\* Upgrades and edits concern no call.
LEMMA CallsImplemented ==
  Inv /\ HoldingInv /\ HoldingInv' /\ [Next]_vars =>
    [Queries!Next]_<<queryPhase, queryHolding, queryFailed>>
<1>. SUFFICES ASSUME Inv, HoldingInv, HoldingInv', [Next]_vars
             PROVE  Queries!Next \/ UNCHANGED <<queryPhase, queryHolding, queryFailed>>
  OBVIOUS
<1>1. CASE \E t \in Scraper : ScraperStep(t) \/ \E d \in DSN : Begin(t, d)
  BY <1>1, CallStep
<1>2. CASE UNCHANGED <<pc, failed>>
  BY <1>2 DEF queryPhase, HoldingInv, queryFailed
<1>3. CASE UNCHANGED vars
  BY <1>2, <1>3 DEF vars, frameVars
<1>4. CASE \/ \E d \in DSN, v \in Version : Upgrade(d, v)
           \/ \E c \in Content : EditFile(c)
  BY <1>2, <1>4 DEF Upgrade, EditFile, frameVars
<1>. QED  BY <1>1, <1>3, <1>4 DEF Next

\* Of the connections of all pools, a scrape that has mappingMtx read-locked holds
\* one exactly while one of its queries runs, and a query that fails, to connect
\* or to answer, marks the scrape failed until it returns
\* (postgres_server.go:108-135, pg_setting.go:19-57, queries.go:280-394).
THEOREM QueriesAreCalls == Spec => ImplementsQueryCall
<1>1. Init => Queries!Init
  BY DEF Init, Queries!Init, queryPhase, queryHolding, queryFailed, PhaseAt, ReadPC
<1>2. Inv /\ HoldingInv /\ HoldingInv' /\ [Next]_vars =>
        [Queries!Next]_<<queryPhase, queryHolding, queryFailed>>
  BY CallsImplemented
<1>3. Spec => []HoldingInv
  BY InvHolds, HoldingQueries, PTL
<1>. QED  BY <1>1, <1>2, <1>3, InvHolds, PTL DEF Spec, ImplementsQueryCall, Queries!Spec
============================================================================
