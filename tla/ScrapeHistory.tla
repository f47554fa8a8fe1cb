---------------------------- MODULE ScrapeHistory ---------------------------
(***************************************************************************)
(* ScrapeDSN with a history variable, which remembers of each scrape       *)
(* whether its maps were replaced under it: what the comparison with       *)
(* lastMapVersion outside mappingMtx can cost, and what it cannot.         *)
(***************************************************************************)
EXTENDS ScrapeProgress

VARIABLE overtaken   \* Scraper -> has another goroutine stored a version into
                     \* its server since it read the version it carries?

Stores(u) == pc[u] = "overrides" /\ pc'[u] # "overrides"

Remember ==
  overtaken' = [t \in Scraper |->
    /\ ver'[t] # None
    /\ overtaken[t] \/ \E u \in Scraper \ {t} : srv[u] = srv[t] /\ Stores(u)]

HistoryInit == Init /\ overtaken = [t \in Scraper |-> FALSE]
HistoryNext == Next /\ Remember
HistorySpec == HistoryInit /\ [][HistoryNext]_<<vars, overtaken>>
FairHistorySpec == HistorySpec /\ \A t \in Scraper : SF_vars(ScraperStep(t))

\* A scrape runs with other maps than those of the version it has read only
\* after another goroutine has stored one in the meantime: the comparison, not
\* repeated under the lock and made on a version that is perhaps being stored,
\* lets nothing else through (postgres_server.go:25, exporter.go:154).
StaleOnlyIfOvertaken ==
  \A t \in Scraper :
    srv[t] # None /\ t \in readers[srv[t]] /\ ver[t] # None /\ ~overtaken[t] =>
      lastMapVersion[srv[t]] = ver[t]
============================================================================
