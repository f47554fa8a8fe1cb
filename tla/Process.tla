------------------------------- MODULE Process -----------------------------
(***************************************************************************)
(* The exporter process: main starts up, registers the exporter, whose     *)
(* Describe runs the first Collect with a forwarding goroutine, and then   *)
(* serves requests, each of which runs a Collect of its own.               *)
(***************************************************************************)
EXTENDS Collect

vars == <<startup, collect, forwarder>>

Init == StartupInit /\ CollectInit /\ forwarder = "none"

\* NewExporter, MustRegister and Describe up to e.Collect(metricCh).
Describe ==
  /\ main = "register"
  /\ main' = "describe" /\ forwarder' = "receiving" /\ attempt' = 0
  /\ UNCHANGED <<config, waiting, answered, collect>>

DescribeCollects ==
  /\ main = "describe" /\ totalScrapes = 0
  /\ BeginScrape(1)
  /\ UNCHANGED startup

\* close(metricCh), once Collect has returned.
CloseMetricCh ==
  /\ main = "describe" /\ pc[1] = "returned"
  /\ main' = "described"
  /\ UNCHANGED <<config, attempt, waiting, answered, collect, forwarder>>

\* <-doneCh.  The registry then closes the channel of descriptors.
DescribeReturns ==
  /\ main = "described" /\ forwarder = "done"
  /\ main' = "listen"
  /\ UNCHANGED <<config, attempt, waiting, answered, collect, forwarder>>

ForwardOnce ==
  /\ forwarder = "holding"
  /\ forwarder' = "done"
  /\ UNCHANGED <<startup, collect>>

\* ch <- m.Desc()
Forward ==
  /\ forwarder = "holding"
  /\ forwarder' = "receiving"
  /\ UNCHANGED <<startup, collect>>

\* metricCh is closed and empty: close(doneCh).
ForwarderEnds ==
  /\ forwarder = "receiving" /\ main = "described"
  /\ forwarder' = "done"
  /\ UNCHANGED <<startup, collect>>

\* A request for metrics; requests overlap as they like.
Request ==
  /\ main = "serve"
  /\ \E n \in Scrape : BeginScrape(n)
  /\ UNCHANGED startup

MainStep ==
  \/ StartupStep /\ UNCHANGED <<collect, forwarder>>
  \/ Describe \/ DescribeCollects \/ CloseMetricCh \/ DescribeReturns

ForwarderStep == Forward \/ ForwarderEnds

ScrapeStep(n) == CollectStep(n) /\ UNCHANGED startup

Next == MainStep \/ ForwarderStep \/ Request \/ \E n \in Scrape : ScrapeStep(n)

\* The goroutines run; requests come or do not.
Fairness ==
  /\ WF_vars(MainStep) /\ WF_vars(ForwarderStep)
  /\ \A n \in Scrape : WF_vars(ScrapeStep(n))

Spec == Init /\ [][Next]_vars
FairSpec == Spec /\ Fairness

----------------------------------------------------------------------------
ScrapeTypeOK(n) ==
  /\ pc[n] \in {"idle", "discover", "scrape", "scraped", "send_error", "send_up", "returned"}
  /\ asked[n] \subseteq Dsn /\ list[n] \subseteq Dsn
  /\ todo[n] \subseteq list[n] /\ out[n] \subseteq list[n]
  /\ connErrors[n] <= errors[n] /\ errors[n] <= Cardinality(list[n])
  /\ log[n] \subseteq {"ok", "error", "connect"} /\ before[n] \subseteq Scrape

\* Every variable holds a value of its type.
TypeOK ==
  /\ main \in {"start", "configured", "sleep", "ping", "register", "describe",
               "described", "listen", "serve", "exited", "crashed"}
  /\ dsns \in Seq(Dsn) /\ autoDiscover \in BOOLEAN
  /\ excluded \subseteq Database
  /\ attempt \in 0 .. LastAttempt + 1 /\ waiting \in 0 .. LastAttempt + 1
  /\ answered \in BOOLEAN
  /\ totalScrapes \in 0 .. MaxScrapes
  /\ psqlUp \in Gauge /\ error \in Gauge
  /\ forwarder \in {"none", "receiving", "holding", "done"}
  /\ \A n \in Scrape : ScrapeTypeOK(n)

Truth(b) == IF b THEN 1 ELSE 0

\* What a request is answered with was set by its own scrape or by one that
\* overlaps it, never by an earlier one, and says of that scrape what the help
\* texts promise (exporter.go:344, :350), whenever the gatherer reads it.
GaugesTellTheTruth ==
  /\ error.value  = Truth(error.log \cap {"error", "connect"} # {})
  /\ psqlUp.value = Truth(psqlUp.log \cap {"ok", "error"} # {})
  /\ \A n \in Scrape :
       /\ pc[n] = "send_error" => error.by \notin before[n]
       /\ pc[n] \in {"send_error", "send_up"} => psqlUp.by \notin before[n]

\* Version and settings of a DSN are labelled with its fingerprint only.
DuplicateFree(n) ==
  \A d, e \in out[n] : Fingerprint(d) = Fingerprint(e) => d = e

\* "Collect implements prometheus.Collector": no scrape sends a metric twice
\* with the same labels, which the registry would answer with an error.
NoDuplicateMetrics == \A n \in Scrape \ {1} : DuplicateFree(n)

\* Discovery adds to URIs only DSNs of databases, not excluded, on a server
\* that is configured, and loses no configured URI (README.md:163-168).
DiscoveryOnServers ==
  \A n \in Scrape :
    pc[n] = "scrape" /\ (\A i \in DOMAIN dsns : dsns[i].form \in {"uri", "escaped"}) =>
      /\ Range(dsns) \subseteq list[n]
      /\ \A d \in list[n] \ Range(dsns) :
           /\ d.database \notin excluded
           /\ \E i \in DOMAIN dsns : Fingerprint(d) = Fingerprint(dsns[i])

\* Readiness checks do not pile up connections: at most one is open, however
\* many pings have failed.
OneReadinessConn == waiting <= 1

\* main ends up serving, or the process ends.
StartupEnds == <>(main \in {"serve", "exited", "crashed"})

\* Every Collect that begins returns.
CollectReturns == \A n \in Scrape : (totalScrapes >= n) ~> (pc[n] = "returned")

\* "could not connect to a database" (main.go:63): the exporter serves only a
\* database that has answered.
ReadyBeforeServing == main = "serve" => answered
============================================================================
