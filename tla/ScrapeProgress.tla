--------------------------- MODULE ScrapeProgress --------------------------
(***************************************************************************)
(* What makes scrapes end and maps settle, stated without fairness: where  *)
(* goroutines wait and for whom, how many steps a scrape has left, which   *)
(* maps are never replaced again; and what a scrape relies on in a query.  *)
(***************************************************************************)
EXTENDS ScrapeDSN

\* The places where a goroutine inside scrapeDSN stops until another goes on: the
\* guards of its actions that depend on others.
Waits(t) ==
  \/ pc[t] = "get" /\ mutex # None
  \/ pc[t] \in AcquirePC /\ ~Available(srv[t])
  \/ pc[t] = "lock" /\ writer[srv[t]] # None
  \/ pc[t] = "lockWait" /\ ~Drained(srv[t])
  \/ pc[t] = "rlockWait"

SomebodyRuns ==
  (\E t \in Scraper : pc[t] # "idle") => \E t \in Scraper : pc[t] # "idle" /\ ~Waits(t)

\* Of Servers.m, the pools and both sides of every mappingMtx, scrapes can come
\* to wait for one another in one way only: a scrape waits for a connection of a
\* pool whose connections are all held by checks that wait for its mappingMtx.
OnlyDeadlock == NoCircularWait => SomebodyRuns

----------------------------------------------------------------------------
(* The most steps a goroutine takes until scrapeDSN returns: a path through *)
(* the positions, and three steps for each namespace.                       *)

BeforeQueries == {"get", "connect", "pingAcquire", "ping", "got", "rlock", "rlockWait",
                  "versionAcquire", "locked"} \cup CheckPC

PositionsLeft(p) ==
  CASE p = "get" -> 22            [] p = "connect" -> 21       [] p = "pingAcquire" -> 20
    [] p = "ping" -> 19           [] p = "got" -> 18           [] p = "versionAcquire" -> 17
    [] p = "version" -> 16        [] p = "check" -> 15         [] p = "lock" -> 14
    [] p = "lockWait" -> 13       [] p = "metricMap" -> 12     [] p = "overrides" -> 11
    [] p = "readFile" -> 10       [] p = "addQueries" -> 9     [] p = "unlock" -> 8
    [] p = "release" -> 7         [] p = "rlock" -> 6          [] p = "rlockWait" -> 5
    [] p = "locked" -> 4
    [] p \in {"settingsAcquire", "namespaceAcquire", "listAcquire"} -> 3
    [] p \in {"settings", "namespace", "list"} -> 2
    [] p = "loop" -> 1            [] OTHER -> 0

NamespacesLeft(t) ==
  IF pc[t] \in BeforeQueries THEN Namespace \cup UserNamespace ELSE todo[t]

StepsLeft(t) == PositionsLeft(pc[t]) + 3 * Cardinality(NamespacesLeft(t))

\* Whatever overlaps it, whatever fails and whatever is rebuilt meanwhile, no
\* step of a scrape is taken back: each leaves it fewer steps, so that nothing
\* but waiting keeps it from returning.
ScrapeAdvances ==
  [][\A t \in Scraper : pc[t] # "idle" =>
       /\ StepsLeft(t)' <= StepsLeft(t)
       /\ ScraperStep(t) => StepsLeft(t)' < StepsLeft(t)]_vars

----------------------------------------------------------------------------
\* The server's maps are those of the version that the databases report, and
\* no goroutine that has the server carries another one.
Settled(i, v) ==
  /\ \A d \in DSN : dbVersion[d] = v
  /\ \A t \in Scraper : srv[t] = i => ver[t] \in {None, v}
  /\ lastMapVersion[i] = v

\* Once settled, the version of the maps stays until the next upgrade.  Checks
\* that fail, read a torn version, or rebuild what another one has just rebuilt
\* do not change it; they may make the maps anew, but for the same version.
StaysSettled ==
  [][\A i \in Server, v \in Version :
       Settled(i, v) /\ UNCHANGED dbVersion => Settled(i, v)']_vars

----------------------------------------------------------------------------
PhaseAt(p) ==
  CASE p \in {"settingsAcquire", "namespaceAcquire"} -> "acquiring"
    [] p \in {"settings", "namespace"} -> "running"
    [] OTHER -> "idle"

queryPhase   == [t \in Scraper |-> PhaseAt(pc[t])]
queryHolding == {t \in Scraper : pc[t] \in ReadPC /\ t \in conns[srv[t]]}
queryFailed  == {t \in Scraper : failed[t]}

Queries == INSTANCE QueryCall WITH
  User <- Scraper, phase <- queryPhase, holding <- queryHolding, failed <- queryFailed

\* While it has mappingMtx read-locked, a scrape holds a connection just during
\* its queries, and what a query fails at is reported when the scrape ends.
ImplementsQueryCall == Queries!Spec
============================================================================
