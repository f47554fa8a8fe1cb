# pgx_exporter in TLA+

pgx_exporter is a Prometheus exporter: for each scrape it asks one or more
PostgreSQL servers for their statistics and turns the answers into metrics. These
modules model one exporter process: how it starts, what happens inside it while
scrapes overlap, how the answer to one query becomes samples, and what a request is
told of the scrape. TLC checks them on small instances; TLAPS proves the invariants and
action properties of the passing runs for all values of the constants.

Paths below are relative to `internal/pgxexporter/` unless they name another directory.

## 1. Inventory of the system

| Part | Source | State it keeps | Operations |
|---|---|---|---|
| Exporter | `exporter.go` | options, gauges `up`, `last_scrape_error`, `last_scrape_duration_seconds`, counter `scrapes_total`, gauge vector `user_queries_load_error`, its `Servers` | `Collect`, `Describe`, `scrape`, `discoverDatabaseDSNs`, `scrapeDSN`, `checkMapVersions` |
| Servers | `servers.go` | map DSN -> `*Server` under the mutex `m` | `GetServer`, `Close` |
| Server | `postgres_server.go` | pgxpool of 3 connections, `metricMap`, `queryOverrides`, `lastMapVersion`, RWMutex `mappingMtx` | `NewServer`, `Ping`, `Scrape`, `Close` |
| Namespace queries | `queries.go` | none of their own | `queryNamespaceMappings`, `queryNamespaceMapping`, `queryDatabases`, `addQueries` |
| Version tables | `queries.go`, `metric_maps.go` | constant tables | `makeQueryOverrideMap`, `makeDescMap` |
| Settings | `pg_setting.go` | none | `querySettings`, `normaliseUnit`, `metric` |
| Startup | `cmd/pgx_exporter/main.go`, `utils.go` | the loop index and the connection of the readiness check | `main`, `WaitForDatabaseReadiness`, registration with `Describe` |
| Data sources | `utils.go`, `exporter.go` | the environment | `getDataSources`, `parseFingerprint`, the DSNs of discovery |
| Text utilities | `utils.go` | none | label and version parsing, `loggableDSN`, `DBToFloat64`, `DBToString` |

**How they interact.** `main` reads the data sources, waits for the first database,
and registers the exporter, which makes the registry call `Describe`: it runs a first
`Collect` and forwards the descriptors of its metrics from a goroutine of its own. Only
then does `main` serve. The HTTP handler calls `Exporter.Collect`, one goroutine per
request; nothing serialises requests. `scrape` lists the DSNs (with auto-discovery by
asking each configured server for its databases) and calls `scrapeDSN` for each.
`scrapeDSN` obtains a `*Server` from `Servers`, lets `checkMapVersions` compare the
database's version with that of the server's query maps and rebuild these when they
differ, and runs `Server.Scrape`. Between goroutines are shared: the registry (mutex
`Servers.m`), per server the pool (a blocking `Acquire`) and the maps (`mappingMtx`),
and the gauges. Samples leave through a channel; the gauges leave through the same
channel as references, whose values are read when the gatherer takes them.

**What is hard.**

* *Lock order.* `checkMapVersions` takes a connection, then the write lock; `Scrape`
  takes the read lock, then connections. Both resources are bounded and waited for
  without a deadline.
* *Check then act.* The version is compared with `lastMapVersion` before the lock is
  taken, without synchronisation, and never again under it.
* *Multi-step rebuild.* Three fields are replaced one after the other, then the user's
  queries are merged into two of them, or into none.
* *Partial failure.* Each query may fail; the scrape goes on, and every path must
  give back its connection and its lock. A failed ping evicts the server while other
  goroutines go on using it.
* *Streams.* An answer may break off between rows.
* *Shared results.* `up` and `last_scrape_error` are set by one scrape and read for the
  answer of another.
* *Goroutines of startup.* `Describe` closes one channel, waits for another and must not
  outlive its caller's; the readiness loop opens connections until one answers.
* *Versions.* Two tables encode the same version boundaries independently.

What makes each part correct:

* Servers: one pool per DSN at a time; an entry goes only when its ping failed.
* Server: maps replaced as a whole and never during a scrape; everything given back.
* Exporter: every scrape ends; scrapes run with the maps of the database's version;
  the error gauges tell the truth.
* Collect: the gauges say of a scrape what their help texts promise, whatever overlaps;
  no metric is sent twice; discovery stays on the configured servers.
* Startup: it ends; only a database that has answered is served; nothing it opened and
  nobody it started is left over.
* Row queries: each convertible metric value of each row becomes one sample, a value that
  does not convert costs only itself, a broken answer is an error, units are comparable.
* Tables: exactly one query per version and namespace; columns agree with queries.

`PROJECT.json` lists every part with its status, and every hazard at its line.

## 2. Modules

```
VersionedMaps                        abstract: what the maps promise
QueryCall                            abstract: what a scrape relies on in a query
      ^ implemented by (QueryCall also by RowQueries)
ScrapeHistory    <- MCScrapeHistory  who has stored a version under a scrape (history variable)
ScrapeProgress   <- MCScrapeDSN      waiting, steps left, settled maps, queries as calls
ScrapeDSN                            composition, properties, refinement mapping
  ServerScrape     Server.Scrape
    MapVersions      checkMapVersions, addQueries
      Servers          GetServer, NewServer, Ping, queryDatabases
        ExporterState    shared state, pgxpool, sync.RWMutex
ScrapeDSNProofs, ScrapeDSNRefinement proofs about ScrapeDSN
ScrapeProgressProofs                 proofs about ScrapeProgress
OverlapProofs                        proofs of what overlap costs, and of what it does not

RowQueries       <- MCRowQueries     one call that reads rows, properties
  NamespaceQuery   queryNamespaceMapping
    QueryMaps        version tables, makeDescMap, makeQueryOverrideMap
  SettingsQuery    querySettings, normaliseUnit, metric
  DatabasesQuery   queryDatabases
    RowStream        what the three have in common: connection, rows, returns
QueryMapsProofs, RowQueriesProofs    proofs about the tables and the calls

ProcessProgress  <- MCProcess        Describe's rendezvous, steps left
Process                              composition, properties
  Collect          Collect, scrape, discoverDatabaseDSNs
    Startup          main, WaitForDatabaseReadiness
      DataSources      DSNs, getDataSources, parseFingerprint
ProcessProofs, ProcessProgressProofs proofs about Process and ProcessProgress
```

The three compositions are levels of one system. `Process` sees a `scrapeDSN` as its
outcome; `ScrapeDSN` models it step by step and sees a query as a connection held and an
outcome; `RowQueries` models the query row by row. `QueryCall` is the seam between the last
two: a call acquires one connection, holds it while its query runs and no longer, and ends
with an answer or an error that the scrape reports. Both levels are shown to implement it,
so what `ScrapeDSN` takes for one step is what the rows of `RowQueries` amount to. (A
unit that `normaliseUnit` does not know panics; only `RowQueries` has that step, the end of
the process.) A `scrapeDSN` that succeeds with maps that are nil or empty sends no metric,
which is why the outcome `ok` of `Collect!ScrapeDSN` may leave the answer as it was.

**State.** A scraper is a goroutine inside `Collect`; `pc[t]` is its place in
`scrapeDSN` or `discoverDatabaseDSNs`, between two operations on shared state. A
`Server` is the identity of one `*Server` value: `registry` maps a DSN to the current
one, so an evicted server lives on in `srv[t]` of those who hold it. The set `Server`
bounds how many are created; when all are used, `NewServer` only fails. A map is
abstracted to what it was computed from: a version, and whether the user's queries
are in it (`Maps`); nothing else of it influences control. `userErr` is the set of
label values of `user_queries_load_error`.

| Action (module) | Code |
|---|---|
| `Begin`, `LockServers`, `NewServer`, `NewServerFails` (Servers) | `servers.go:24-37`, `postgres_server.go:45-76` |
| `Acquire`, `PingAnswered`, `PingFails` | `postgres_server.go:85-100`, `servers.go:38-42` |
| `GotServer`, `QueryDatabases` | `exporter.go:255-265`, `queries.go:248-276` |
| `VersionRead`, `VersionFails` (MapVersions) | `exporter.go:127-148` |
| `CheckVersion`, `LockMaps`, `MapsLocked` | `exporter.go:154-156` |
| `RebuildMetricMap`, `RebuildOverrides` | `exporter.go:158-170` |
| `ReadUserQueries`, `AddQueries` | `exporter.go:173-187`, `queries.go:157-246` |
| `UnlockMaps`, `ReleaseVersionConn` | `exporter.go:190`, the deferred `conn.Release` of line 134 |
| `RLockMaps`, `BeginScrape`, `EndScrape` (ServerScrape) | `postgres_server.go:108-126` |
| `BeginNamespace`, `QueryReturns`, `QueryFails` | `queries.go:397-418`, `pg_setting.go:19-52` |
| `Upgrade`, `EditFile` (ScrapeDSN) | environment: the database, the file |

`CheckVersion` is the unsynchronised read of `lastMapVersion`. While another goroutine
is about to store it (`Storing`), the read may yield the old value, the new one or, the
struct being several words, a mix; `TornVersion` are the versions such a mix may equal.
The Go runtime's failure on concurrent map access cannot arise: `metricMap` is only
compared with nil outside the lock.

**Libraries** (external in the map, modelled by their use): `pgxpool.Acquire` hands out
a connection while fewer than `MaxConns` are out, otherwise waits, and fails only when
it would have to open one; `RWMutex` as in the Go runtime: an announced writer keeps new
readers out, `Unlock` admits all readers that queued before the next writer.

**RowQueries** is one call of `queryNamespaceMapping`, `querySettings` or `queryDatabases`,
from `Acquire` to the deferred `Release`, while the environment chooses the answer row by
row and may break it off. `emitted` is a ghost: the samples (for `queryDatabases`, the
names) with the row and column they come from. The samples of a row go out in one step;
nobody observes the channel in between.

| Action (module) | Code |
|---|---|
| `Acquire`, `AcquireFails`, `Query`, `QueryFails`, `RowFails`, `RowsEnd` (RowStream) | `queries.go:249-276`, `:282-345`, `pg_setting.go:21-47` |
| `QueryDisabled`, `QueryNamespace`, `FirstRow`, `NextRow`, `ValuesFail` (NamespaceQuery) | `queries.go:281-393` |
| `NextSetting`, `UnknownUnit`, `ScanSettingFails` (SettingsQuery) | `pg_setting.go:40-151` |
| `NextDatabase`, `ScanDatabaseFails` (DatabasesQuery) | `queries.go:266-275` |

`queryNamespaceMapping` runs for `pg_stat_replication`, the namespace that has all kinds of
columns: a label with and without a version range, discarded columns, one metric per
dialect. Columns carry just the kind of value that `DBToFloat64` tells apart. A setting is
its type, its unit and a whole number; a value is `thousandths * 2^exp2 / 1000`, so that
milliseconds and terabytes stay exact without large integers. The reference definition
`Quantity` defines every unit by the one below it, as PostgreSQL's documentation does, while
`Thousandths` and `Power` follow the factors of the source.

**Process.** `main` is the position of the main goroutine, `forwarder` that of the goroutine
`Describe` starts, `pc[n]` that of the scrape `scrapes_total` counts as the n-th: the first
belongs to `Describe`, the others to requests. `by` and `log` of a gauge, `log[n]`,
`before[n]` and `answered` are ghosts: who set the gauge, with which outcomes; which scrapes
were over when this one began; whether a readiness ping was ever answered.

| Action (module) | Code |
|---|---|
| `DumpMaps`, `GetDataSources`, `Listen` (Startup) | `cmd/pgx_exporter/main.go:50-93`, `utils.go:227-275` |
| `WaitForDatabaseReadiness`, `Connects`, `ConnectFails`, `PingSucceeds`, `ReadinessPingFails` | `utils.go:322-363` |
| `BeginScrape`, `Discover`, `Discovered` (Collect) | `exporter.go:204-217`, `:246-285` |
| `ScrapeDSN`, `SetUp`, `SetError` | `exporter.go:219-243` |
| `SendGauge` | `exporter.go:88-97` |
| `Describe`, `DescribeCollects`, `CloseMetricCh`, `DescribeReturns`, `Forward`, `ForwarderEnds` (Process) | `exporter.go:99-124` |
| `Request` | the HTTP handler, `main.go:81` |

A DSN is host, port, database and a form, which says what `url.Parse` and `pgx.ParseConfig`
make of it: a URI; a URI that `url.URL.String` spells differently (so that discovery meets
the same database twice); key=value pairs, which are a path to `url.Parse`; pairs with a
colon, which it rejects; a bare name, what discovery leaves of key=value pairs, which pgx
rejects or sends to its default server, depending on its version; and what both reject. One
environment stands for environment variables and flags together. Of the five values
`Collect` sends at its end the two that could be stale in a way that matters are kept. A
gauge is sent by reference: `SendGauge` reads at the latest moment the gatherer allows.

Details the model has and no property judges: `up` and `error` of one answer may come from
two different overlapping scrapes; a configured DSN that `url.Parse` rejects leaves the
scrape under discovery without counting as an error (`up` 0, `last_scrape_error` 0);
key=value DSNs lose their host under discovery, which is why `DiscoveryOnServers` speaks of
URIs; the check for an empty list of sources (`main.go:57`) cannot succeed, since
`getDataSources` always yields one; the URI it builds does not escape the credentials.

## 3. Runs

| Run | Instance | States | Checks |
|---|---|---|---|
| `scrape_safety` | 2 scrapers, 1 DSN, 2 servers, 2 versions, pool 2, good and bad file | 1,022,596 | `TypeOK`, `NothingHeldAfterReturn`, `MapsCoherent`, `NoCircularWait`, `MapsFrozenDuringScrape`, `NoPoolOverwritten`, `ImplementsVersionedMaps`, `LoadSampleTellsTheTruth`, `LoadSamplesCurrent` |
| `scrape_liveness` | the same without user queries or symmetry, with the history variable | 172,320 | `StaleOnlyIfOvertaken`, `OnlyDeadlock`, `ScrapeAdvances`, `StaysSettled`, `ImplementsQueryCall`, `ScrapeReturns`, `MapsConverge` |
| `sequential_scrape` | 1 scraper, 2 DSNs, 3 servers, discovery, settings, user queries | 354,528 | `ScrapedWithCheckedVersion` |
| `namespace_query` | the three row calls; 5 versions, answers of up to 2 of 5 columns, every unit and an unknown one, 3 rows | 552,069 | `TypeOK`, `ConnReturned`, `LaterRowsComplete`, `LagOfTheDialect`, `SettingsConverted`, `OtherAnswersDelivered`, `ImplementsQueryCall` |
| `process` | 11 environments, 2 readiness rounds, Describe and 2 requests | 238,413 | `TypeOK`, `GaugesTellTheTruth`, `DiscoveryOnServers`, `OneReadinessConn`, `DescribeNotStuck`, `ProcessAdvances`, `StartupEnds`, `CollectReturns` |
| `circular_wait` | 4 scrapers, 1 server, pool 3 | violated | `NoCircularWait` |
| `stale_maps` | 2 scrapers, 1 server | violated | `ScrapedWithCheckedVersion` |
| `empty_success` | 1 scraper, 1 server | violated | `SuccessMeansScraped` |
| `first_row_lost` | as `namespace_query`, 2 rows | violated | `EveryRowEmitted` |
| `broken_answer` | as `namespace_query`, 2 rows | violated | `BrokenIsError` |
| `unready_start` | as `process`, the code's 61 rounds | violated | `ReadyBeforeServing` |
| `duplicate_samples` | as `process` | violated | `NoDuplicateMetrics` |

**Why the bounds suffice.** Two scrapers give every pair of positions, among them two
rebuilds of one server, a rebuild during a scrape and an eviction under a scrape; two
servers let one DSN have an old and a new pointer in use; two versions are enough for
old/new/old. The invariants proved in section 5 hold for any number. `circular_wait`
uses the code's own pool size and the least number of scrapers that exhausts it. In
`sequential_scrape` three servers allow one eviction beside two DSNs. In `scrape_liveness` the
pool suffices for the scrapers, so that `OnlyDeadlock` says there that some scraper can
always go on; that more scrapers can wait for one another in `circular_wait`'s way only is
what `DeadlockIsCircular` proves for every pool. The versions of
`namespace_query` stand on both sides of each boundary of the tables, with a patch and a
minor release between them; a second and a third row are those a property about "later
rows" needs; the settings are every unit the source names with -1 and another number, so
all branches of the conversion run. In `process` the environments are one per path through
`getDataSources` and per form of DSN; three databases, of which one or two are excluded, let
discovery find none, one that is configured already, and a new one; three scrapes are
`Describe`'s and two that overlap each other (a gauge set by one and read by the other);
`LastAttempt` 1 gives a first and a last round, and `unready_start` runs the code's 60.
Symmetry of scrapers and servers is used only in runs without liveness.
`CHECK_DEADLOCK FALSE` appears in the runs of `RowQueries`, whose call returns, and of
`Process`, which may exit or crash at startup and, once the bound `MaxScrapes` is used up,
has answered its last request.

**Fairness.** `FairSpec` is strong fairness of each scraper's own steps: queries end with
an answer or an error, and the mutexes hand over eventually (Go's do). Beginning a
scrape, upgrading a database and editing the file are not fair. The pool's queue gets no
credit: in the run there are at most as many scrapers as connections, so `Acquire` never
waits. A query that never ends is excluded; the code sets no deadline on any of them,
which `PROJECT.json` lists as a hazard of `Servers.m`.

In `Process` the main goroutine, the forwarder and each scrape are weakly fair: these are
goroutines of a Go program, the gatherer always receives, and network calls end with an
answer or an error. A `scrapeDSN`, one step here, ends as well; by `ScrapeReturns` that is
so while at most `MaxConns` scrapes overlap, and `circular_wait` shows what can happen
beyond, so `CollectReturns` says no more than that. Requests are not fair. Weak fairness is enough because no step of one
goroutine disables another's: a rendezvous is one step of both.

`MapsConverge` is what is left of "maps of the right version" once scrapes overlap: the
unsynchronised comparison may leave a server with old maps, but only until the next check.
`ScrapedWithCheckedVersion` is the stronger statement and holds for one scrape at a time.
In between is `StaleOnlyIfOvertaken`, which holds however scrapes overlap: a scrape runs with
maps of another version than it has read only if another goroutine has stored a version into
its server after the reading. To say so, `ScrapeHistory` adds the history variable
`overtaken`, which no action reads; `FairHistorySpec` has the fairness of `FairSpec`.

`LoadSampleTellsTheTruth` says what `user_queries_load_error` means while the process has
created one server: reset, merge and sample are one critical section, so that the one sample
is true of the maps whenever `mappingMtx` is not written. The gauge vector is the exporter's
and not the server's, so with a second server, be it the same DSN after an eviction, a reset
for one removes the other's sample, and overlapping loads leave two. What remains then is
`LoadSamplesCurrent`: each sample is true of the maps that some server has, perhaps one that
has been evicted, and once a server has maps and no load is under way there is a sample. What
does not remain is that each failed load is reported: a good load of another server hides it.
A failed load is not retried before the next rebuild of its maps.

The liveness properties have counterparts without fairness that the prover can reach.
`ScrapeReturns` has two: each step of a scrape leaves it fewer steps, and no step of another
gives it any back (`ScrapeAdvances`); of the scrapes some can go on unless they wait in a
circle (`OnlyDeadlock`). `Waits`, which the latter speaks of, collects the guards that depend
on other goroutines; that it has them all is read off the actions. `MapsConverge` has its
safety half in `StaysSettled`, which speaks of `lastMapVersion`: once it agrees with the
databases, and with every version a goroutine carries, it stays, although a goroutine that
has compared already, or has read a torn version, may yet make the maps anew for it. `StartupEnds` and `CollectReturns` have `ProcessAdvances` and `DescribeNotStuck`.

## 4. What the violated properties show

* **`circular_wait`.** Four overlapping requests after an upgrade: three hold the pool's
  three connections and wait for `mappingMtx`; the fourth holds it for reading and waits
  for a connection. None has a deadline: all later scrapes of this server hang as well.
  `ScrapeReturns` and the theorem `PoolSuffices` give the other side: with at most
  `MaxConns` overlapping scrapes it cannot happen.
* **`stale_maps`.** A goroutine that read the old version before an upgrade takes the lock
  after another has rebuilt the maps for the new one, and rebuilds them for the old. By
  `StaleOnlyIfOvertaken` it always takes such a store after the scrape read its version: a
  comparison, even with a torn version, does not lead to other maps without one.
* **`empty_success`.** A new server whose version cannot be read has no maps; the scrape
  exports nothing and counts as success.
* **`first_row_lost`.** The row consumed to learn the columns is never emitted. Namespaces
  of a single row (`pg_stat_bgwriter`, `pg_postmaster` in `queries.yaml`) are empty.
* **`broken_answer`.** `rows.Err()` is not read, by any of the three calls: a truncated
  answer is a success, and a truncated list of databases drops the rest from the scrape.
* **`unready_start`.** The loop ends after its 61st failure without reaching the error that
  it would return at `i > 60`: `main` goes on to register and serve.
* **`duplicate_samples`.** Discovery yields a DSN per database, but the label `server` has
  host and port only: `pg_static` and every `pg_settings` metric are sent twice with equal
  labels, which a registry answers with an error.

## 5. Proofs

All from the named assumptions of the modules. `ExporterState`, `ScrapeDSN`: `None` and
`Rebuilding` are distinct from the other values, `MaxConns` is a positive number, scrapers
and namespaces are finitely many, the options are Booleans. `RowStream`, `NamespaceQuery`,
`SettingsQuery`: `MaxRows` is positive, versions are triples of naturals, a non-Boolean
setting is an integer. `DataSources`, `Startup`, `Collect`: databases are finitely many,
pgx's default server is a server, an environment has the types of one, `LastAttempt` is a
natural number and `MaxScrapes` a positive one.

`ScrapeDSNProofs` proves `Inv` inductive (`InvHolds`). `TypeOK` says nothing of who
holds what, so `Inv` adds, for every position of a goroutine:

* `FrameInv`: which local variables are set there;
* `RegistryInv`: `Servers.m` is held exactly from `connect` to `ping`, and its holder's
  server is the registered one;
* `LockInv`: the exact set of positions that hold a connection, the read lock or the
  write lock, and that writers past their wait see no reader;
* `MapsInv`: maps and version agree (`Whole`) unless somebody is between
  `RebuildMetricMap` and `RebuildOverrides`.

The last is not inductive without `LockInv` (a second writer could interleave), nor
`LockInv` without `FrameInv` (a release acts on `srv[t]`). From `Inv` follow
`TypeCorrect`, `AllReturned` (`NothingHeldAfterReturn`), `ScrapesCoherent`
(`MapsCoherent`), `MapsFrozen` (only a writer assigns maps, a writer excludes readers),
`PoolsKept` (`NoPoolOverwritten`), and `PoolSuffices` (`NoCircularWait` when
`Cardinality(Scraper) <= MaxConns`: a reader that waits holds no connection, so at most
`MaxConns - 1` are out).

`ScrapeDSNRefinement` proves `Spec => ImplementsVersionedMaps`. The maps of the abstract
specification are `Rebuilding` while a writer is past its wait, otherwise the concrete
maps; its users are the readers. `MapsLocked` maps to `Rebuild`, `UnlockMaps` to `Publish`,
`RLockMaps` to `Join`, `EndScrape` to `Leave`, all else to a stutter.

`ScrapeProgressProofs` says why scrapes end, for any number of them and any pool size.

* `DeadlockIsCircular`: with `QueueInv` (a goroutine queues at `RLock` only behind a writer)
  suppose that all scrapes wait. A writer would wait for a reader, the reader for a
  connection, and the holders of the connections, unless all of them wait for the writer,
  can go on. So there is no writer; then holders of connections go on, hence no connection
  is held; then the holder of `Servers.m` goes on. With `PoolSuffices` this gives
  `DeadlockFree`: with at most `MaxConns` overlapping scrapes some scrape can always go on.
* `Advances`: `StepsLeft` counts the positions to come, at most 22, and three steps for each
  namespace left. `NamespaceBegun` shows that the loop pays for the three with a namespace
  (this needs `NamespaceAssumption`: a map of the program is finite), and
  `OthersDoNotDelay` that a step of another goroutine moves nobody but the readers whom
  `Unlock` lets in, forwards.
* `MapsStaySettled`: with `UnreadInv` (a goroutine carries no version before it has read
  one) a check in a settled state either finds its version stored, or reads a torn one and
  stores the same version again.
* `QueriesAreCalls`: a step of a scrape's query is the step of `QueryCall` of that name. Its
  `HoldingInv`, that a reader holds a connection exactly in `settings` and `namespace`,
  follows from `LockInv`.

`QueryMapsProofs` proves, for every version, that the ranges of a namespace's queries are
disjoint (`RangesDisjoint`, the source's open TODO at `queries.go:25`) and leave none out
(`RangesExhaustive`), that the first match is the only one (`QueryForUnique`), and that the
lag column of the chosen query is the one `builtinMetricMaps` keeps (`LagAgrees`).

`OverlapProofs` says which maps a scrape runs with and what the load samples mean. For a
single scraper, that is, as long as scrapes do not overlap: `CheckedVersionScraped`. With
one goroutine nobody is between the two stores when it compares versions, so `Storing` is
empty, and the version it read is the maps' version from `RebuildOverrides`
or the comparison up to `EndScrape`. For any number of scrapes:

* `StaleOnlyByOvertaking`, a theorem of `HistorySpec`, which implements `Spec`
  (`HistoryImplements`). `StaleOnlyIfOvertaken` is not inductive: a goroutine may pass the
  comparison because the version it reads is just being stored, before it is there. So
  `OvertakenInv` says, from the comparison to `EndScrape`, that a goroutine not overtaken
  finds its version stored, or that somebody at its server is still to store one
  (`Coming`), who will overtake it. A reader has its version, because `LockInv` keeps
  whoever is about to store away from readers. `StoresStore` says that only the step out of
  `overrides` stores a version, `PastCheck` how a goroutine gets past the comparison.
* `LoadSampleTrue`. `CreatedInv` says that only created servers are registered, held or
  given maps, so that the first server starts without a sample that could be another's.
  `SampleInv` adds what holds between reset and load: there is no sample, and the maps lack
  the user's queries. That no second goroutine resets or loads in between is `OneWriter`.
* `SamplesCurrent`, for any number of servers. `LoadSamplesCurrent` is not inductive: the
  maps that account for a sample could be those of a load that has reset the samples and is
  about to merge. `SourceInv` therefore has the server of a sample (`Source`) outside of such
  a load, and says that a loading server's maps lack the user's queries. `LoadsLoad`, which
  both proofs use, says that only the four steps of a rebuild touch maps and samples.

`RowQueriesProofs` proves all invariants of `namespace_query` for answers of any length, any
columns, versions and settings: `TypeCorrect`, `ConnectionBack`, `LaterRows`, `LagMatches`
(by `LagAgrees`), `SettingsRight` and `Delivered`. Its `Inv` has a part per call:
`LaterRowsComplete` alone is not inductive, since a sample might wait for a row to come, so
`NamespaceInv` adds that nothing is emitted or counted for a row not yet sent;
`SettingsInv` says that each sample is the metric of its row, from which
`NormalisedIsQuantity`, the case distinction over the units, gives the quantity;
`DeliveredInv` says that every row has its sample until one is rejected. The steps that
neither send nor emit share a lemma (`QuietInv`). `CallsAreCalls` is the other
implementation of `QueryCall`: between `Acquire` and the return every row is a stutter
(`RowsAreSilent`), and each return is an answer or an error that gives the connection back
(`AnswerAnswers`, `ErrorFails`); that an answer never follows an error of the same call
comes from the part of `Inv` for all calls (`StreamInv`).

`ProcessProofs` proves all invariants of `process` for any environment, number of attempts
and number of requests. `Inv` adds to the types, per scrape:

* `ListInv`: the list is finite, and what is left to do and what was sent is part of it;
* `CountInv`: errors and the DSNs left to do fit in the list; while only failures to
  connect are logged, these and the DSNs left to do *are* the list, otherwise they are
  fewer. That is what makes `connectionErrorsCount >= len(dsns)` the test of `up`, the
  empty list included;
* `OrderInv`: the scrapes before this one are over, and none of them has set `up` or
  `error` since this one did;

and `MainInv` for the main goroutine: one connection exactly in `ping`, and no scrape before
`Describe`. A step of one scrape changes the others' parts in no way but through the gauges
(`OthersStay`). From `Inv` follow `TypeCorrect`, `GaugesTrue` and `OneConnection`.
`DiscoveryStaysOnServers` needs a second invariant, `AllDiscovery`: while discovery goes on
a configured URI is in the list or yet to be asked, and what else is in the list is a
database, not excluded, of a configured server.

`ProcessProgressProofs` adds `DescribeInv` (the forwarder lives as long as `main` may wait
for it, and a scrape that has begun is not idle again), from which `DescribeRuns` says that
the goroutines around `Describe`'s two channels never all wait; and `AskedInv` (discovery
has finitely many servers left to ask), from which `Advances` says that each step brings
`main`, or its scrape, nearer to the end in the lexicographic order of its stage and the
DSNs left in it: discovery may add DSNs, but only before the loop over them begins.

**Model-checked only.** The liveness properties `ScrapeReturns`, `MapsConverge`,
`StartupEnds` and `CollectReturns`: liveness under fairness is beyond the prover, which
proves their counterparts of section 3 instead. `ScrapeReturns` is also the check on
`Waits`: a wait missing from it at which all scrapes can stop would violate it.

## 6. Not modelled

* Formatting, help texts, label values, constant labels (`parseConstLabels`), log lines and
  `loggableDSN`, the printing of `-dumpmaps`, the version metric, the duration's value.
* `Servers.Close` and `CloseAllServers`: `main` defers them, then leaves through `log.Fatal`.
* Crashes of the process other than those of `getDataSources` and of an unknown unit (a nil
  pool configuration, type assertions of `addQueries`): nothing is persisted, so a restart
  is the initial state.
* The YAML of user queries: a file is good or bad as a whole, as `addQueries` treats it.
* The same DSN configured twice, and settings that are no whole number.
* `fetchPod` and the option `BuildURI`, which nothing uses; re-exports for tests.

## 7. What could come next

1. *Refinement of scrapeDSN*: an abstract `scrapeDSN` call with `Collect!ScrapeDSN`'s
   outcomes, implemented by the steps from `Begin` to `EndScrape`, as `QueryCall` is by the
   rows: it would close the seam between `Process` and `ScrapeDSN`.
2. *Conversions*: `DBToFloat64`, `DBToString` and the conversions `makeDescMap` prepares for
   MAPPEDMETRIC and DURATION columns, as operators over classified values.
3. *addQueries*: the shape of a user queries file and the merge into both maps per namespace.
