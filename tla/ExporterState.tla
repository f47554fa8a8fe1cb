--------------------------- MODULE ExporterState ---------------------------
(***************************************************************************)
(* The state that concurrent scrapes of pgx_exporter share, and the two    *)
(* libraries through which they share it: the pgxpool connection pool of a *)
(* Server and the sync.RWMutex that guards its query maps.                 *)
(*                                                                         *)
(* A scraper is one goroutine inside Exporter.Collect.  It works on one    *)
(* DSN at a time; pc says where in scrapeDSN (or discoverDatabaseDSNs) it  *)
(* is.  A Server is the identity of one *Server value: a DSN whose entry   *)
(* is evicted and re-created gets another identity, and goroutines that    *)
(* already hold the old pointer go on using it.                            *)
(***************************************************************************)
EXTENDS Naturals, FiniteSets

CONSTANTS
  Scraper,                 \* goroutines that may be inside Collect at once
  DSN,                     \* data source names, configured and discovered
  Server,                  \* *Server identities; bounds how many are created
  Version,                 \* versions the databases may report
  TornVersion,             \* those that can be read while lastMapVersion is
                           \* being stored, though neither old nor new
  Namespace,               \* namespaces of builtinMetricMaps
  UserNamespace,           \* namespaces the user queries file adds
  GoodContent,             \* user query files that load
  BadContent,              \* user query files that cannot be read or parsed
  MaxConns,                \* config.MaxConns of every pool
  DisableDefaultMetrics, DisableSettingsMetrics, AutoDiscoverDatabases,
  UserQueriesPath,         \* options: is each one given?
  None

Content == GoodContent \cup BadContent

\* What makeDescMap, makeQueryOverrideMap and addQueries computed a map from:
\* a version, and whether the user's queries were merged in.
Maps == [ver : Version, user : BOOLEAN]

ASSUME NoneAssumption ==
  /\ None \notin Scraper /\ None \notin DSN /\ None \notin Server
  /\ None \notin Version /\ None \notin Maps /\ None \notin Content
ASSUME PoolAssumption == MaxConns \in Nat \ {0}
ASSUME ScraperAssumption == IsFiniteSet(Scraper)
ASSUME NamespaceAssumption == IsFiniteSet(Namespace) /\ IsFiniteSet(UserNamespace)
ASSUME OptionAssumption ==
  /\ DisableDefaultMetrics \in BOOLEAN /\ DisableSettingsMetrics \in BOOLEAN
  /\ AutoDiscoverDatabases \in BOOLEAN /\ UserQueriesPath \in BOOLEAN

VARIABLES
  registry,        \* Servers.servers: DSN -> Server, or None
  mutex,           \* holder of Servers.m
  created,         \* servers NewServer has returned
  conns,           \* Server -> scrapers holding a connection of its pool
  metricMap,       \* Server.metricMap, None while nil
  queryOverrides,  \* Server.queryOverrides
  lastMapVersion,  \* Server.lastMapVersion
  writer,          \* goroutine that owns or waits to own mappingMtx
  readers,         \* goroutines inside RLock..RUnlock of mappingMtx
  userErr,         \* contents whose hash labels a userQueriesError sample
  dbVersion,       \* environment: version each database reports now
  file,            \* environment: what the user queries file contains
  pc, dsn, srv,    \* per scraper: position, its DSN, its *Server
  ver,             \* the version checkMapVersions read (None: it failed)
  read,            \* the file contents checkMapVersions read
  todo,            \* namespaces the scrape has still to query
  failed           \* does scrapeDSN have an error to return?

serversVars == <<registry, mutex, created>>
mapVars     == <<metricMap, queryOverrides, lastMapVersion, userErr>>
lockVars    == <<writer, readers>>
envVars     == <<dbVersion, file>>
frameVars   == <<dsn, srv, ver, read, todo, failed>>
vars == <<serversVars, conns, mapVars, lockVars, envVars, pc, frameVars>>

\* A call of Acquire, and where the code goes on with the connection.
Acquires == {<<"pingAcquire", "ping">>, <<"listAcquire", "list">>,
             <<"versionAcquire", "version">>, <<"settingsAcquire", "settings">>,
             <<"namespaceAcquire", "namespace">>}
AcquirePC == {"pingAcquire", "listAcquire", "versionAcquire",
              "settingsAcquire", "namespaceAcquire"}

WritePC == {"metricMap", "overrides", "readFile", "addQueries", "unlock"}
ReadPC  == {"locked", "settingsAcquire", "settings", "loop", "namespaceAcquire", "namespace"}
CheckPC == {"version", "check", "lock", "lockWait", "release"} \cup WritePC
ConnPC  == {"ping", "list", "settings", "namespace"} \cup CheckPC
GetPC   == {"connect", "pingAcquire", "ping"}
PC == {"idle", "get", "got", "rlock", "rlockWait"}
        \cup AcquirePC \cup ReadPC \cup ConnPC \cup GetPC

Goto(t, p) == pc' = [pc EXCEPT ![t] = p]

\* scrapeDSN (or queryDatabases) returns to the loop over DSNs.
Return(t) ==
  /\ Goto(t, "idle")
  /\ dsn'    = [dsn    EXCEPT ![t] = None]
  /\ srv'    = [srv    EXCEPT ![t] = None]
  /\ ver'    = [ver    EXCEPT ![t] = None]
  /\ read'   = [read   EXCEPT ![t] = None]
  /\ todo'   = [todo   EXCEPT ![t] = {}]
  /\ failed' = [failed EXCEPT ![t] = FALSE]

----------------------------------------------------------------------------
(* pgxpool.  Acquire hands out an idle connection or opens one while fewer *)
(* than MaxConns exist, and otherwise waits, without a deadline, for a     *)
(* Release.  It fails only when opening fails, hence with room in the pool.*)

SingleConnection == 1
PoolSize == MaxConns

Available(i) == Cardinality(conns[i]) < PoolSize

Acquire(t) ==
  /\ pc[t] \in AcquirePC
  /\ Available(srv[t])
  /\ conns' = [conns EXCEPT ![srv[t]] = @ \cup {t}]
  /\ \E p \in Acquires : pc[t] = p[1] /\ Goto(t, p[2])
  /\ UNCHANGED <<serversVars, mapVars, lockVars, envVars, frameVars>>

AcquireFails(t) == pc[t] \in AcquirePC /\ Available(srv[t])

Release(t) == conns' = [conns EXCEPT ![srv[t]] = @ \ {t}]

----------------------------------------------------------------------------
(* sync.RWMutex.  Lock announces the writer, which keeps new readers out,  *)
(* then waits for the readers inside.  Unlock lets in every reader that    *)
(* queued meanwhile, before the next writer.                               *)

Announce(t) == writer[srv[t]] = None /\ writer' = [writer EXCEPT ![srv[t]] = t]

Drained(i) == readers[i] = {}

Queued(i) == {u \in Scraper : srv[u] = i /\ pc[u] = "rlockWait"}
============================================================================
