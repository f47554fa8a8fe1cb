------------------------------ MODULE Collect ------------------------------
(***************************************************************************)
(* Exporter.Collect: scrape, with discoverDatabaseDSNs, then the gauges.   *)
(* Scrape n is the n-th that totalScrapes counts; the first is the one     *)
(* that Describe runs, every later one answers an HTTP request.  What      *)
(* scrapeDSN does is module ScrapeDSN: here it ends in one of its outcomes.*)
(* A gauge is sent by reference and read when the gatherer takes it off    *)
(* the channel, in the order of sending: here both happen at once, at any  *)
(* time.                                                                   *)
(***************************************************************************)
EXTENDS Startup, Functions

CONSTANT MaxScrapes     \* bound on totalScrapes

ASSUME MaxScrapesAssumption == MaxScrapes \in Nat \ {0}

Scrape == 1 .. MaxScrapes

VARIABLES
  totalScrapes,
  pc,               \* position of each scrape
  asked,            \* configured DSNs that discovery has yet to ask
  list,             \* the local dsns of scrape
  todo,             \* those yet to be scraped
  errors, connErrors, \* errorsCount, connectionErrorsCount
  out,              \* DSNs whose samples the scrape has sent
  log,              \* outcomes of the scrape so far
  before,           \* scrapes that had returned when this one began
  psqlUp, error,    \* gauges: value, the scrape that set it, and its outcomes
  forwarder         \* goroutine of Describe, which receives the first scrape's

collect == <<totalScrapes, pc, asked, list, todo, errors, connErrors, out, log,
             before, psqlUp, error>>

Gauge == [value : {0, 1}, by : 0 .. MaxScrapes,
          log : SUBSET {"ok", "error", "connect"}]

CollectInit ==
  /\ totalScrapes = 0 /\ pc = [n \in Scrape |-> "idle"]
  /\ asked = [n \in Scrape |-> {}] /\ list = asked /\ todo = asked
  /\ out = asked /\ log = asked /\ before = asked
  /\ errors = [n \in Scrape |-> 0] /\ connErrors = errors
  /\ psqlUp = [value |-> 0, by |-> 0, log |-> {}] /\ error = psqlUp

\* ch <- m: Describe's channel is a rendezvous with its forwarder; the
\* gatherer's goroutine is always there to receive.
Send(n) ==
  IF n = 1 THEN forwarder = "receiving" /\ forwarder' = "holding"
           ELSE UNCHANGED forwarder

BeginScrape(n) ==
  /\ totalScrapes < MaxScrapes /\ n = totalScrapes + 1
  /\ totalScrapes' = n
  /\ before' = [before EXCEPT ![n] = {m \in Scrape : pc[m] = "returned"}]
  /\ IF autoDiscover
       THEN /\ pc' = [pc EXCEPT ![n] = "discover"]
            /\ asked' = [asked EXCEPT ![n] = Range(dsns)]
            /\ UNCHANGED <<list, todo>>
       ELSE /\ pc' = [pc EXCEPT ![n] = "scrape"]
            /\ list' = [list EXCEPT ![n] = Range(dsns)]
            /\ todo' = [todo EXCEPT ![n] = Range(dsns)]
            /\ UNCHANGED asked
  /\ UNCHANGED <<errors, connErrors, out, log, psqlUp, error, forwarder>>

DiscoveredWithExcluded(d, names) == {d} \cup {WithPath(d, name) : name \in names}

DiscoveredFrom(d, names) ==
  {d} \cup {WithPath(d, name) : name \in names \ excluded}

\* One round of discovery: nothing if url.Parse fails; the configured DSN, and,
\* if GetServer and queryDatabases succeed, one for each name they yield that is
\* not excluded.  The list of names may be cut short.
Discover(n, d) ==
  /\ pc[n] = "discover" /\ d \in asked[n]
  /\ asked' = [asked EXCEPT ![n] = @ \ {d}]
  /\ IF UrlParses(d)
       THEN \E names \in SUBSET Database :
              /\ ConfigParses(d) \/ names = {}
              /\ list' = [list EXCEPT ![n] = @ \cup DiscoveredFrom(d, names)]
       ELSE UNCHANGED list
  /\ UNCHANGED <<totalScrapes, pc, todo, errors, connErrors, out, log, before,
                 psqlUp, error, forwarder>>

Discovered(n) ==
  /\ pc[n] = "discover" /\ asked[n] = {}
  /\ pc' = [pc EXCEPT ![n] = "scrape"]
  /\ todo' = [todo EXCEPT ![n] = list[n]]
  /\ UNCHANGED <<totalScrapes, asked, list, errors, connErrors, out, log, before,
                 psqlUp, error, forwarder>>

CountOtherError(outcome) == IF outcome = "error" THEN 1 ELSE 0

\* errorsCount counts every error, those to connect too.
CountError(outcome) == IF outcome = "ok" THEN 0 ELSE 1

\* scrapeDSN: "ok" or "error", with samples sent or none; or "connect", an
\* ErrorConnectToServer, the only outcome of a DSN that pgx does not parse.
ScrapeDSN(n, d, outcome) ==
  /\ pc[n] = "scrape" /\ d \in todo[n]
  /\ outcome # "connect" => ConfigParses(d)
  /\ todo' = [todo EXCEPT ![n] = @ \ {d}]
  /\ log' = [log EXCEPT ![n] = @ \cup {outcome}]
  /\ errors' = [errors EXCEPT ![n] = @ + CountError(outcome)]
  /\ connErrors' = [connErrors EXCEPT ![n] = @ + IF outcome = "connect" THEN 1 ELSE 0]
  /\ \/ outcome # "connect" /\ Send(n) /\ out' = [out EXCEPT ![n] = @ \cup {d}]
     \/ UNCHANGED <<out, forwarder>>
  /\ UNCHANGED <<totalScrapes, pc, asked, list, before, psqlUp, error>>

Up(n) == IF connErrors[n] >= Cardinality(list[n]) THEN 0 ELSE 1

SetUp(n) ==
  /\ pc[n] = "scrape" /\ todo[n] = {}
  /\ pc' = [pc EXCEPT ![n] = "scraped"]
  /\ psqlUp' = [value |-> Up(n), by |-> n, log |-> log[n]]
  /\ UNCHANGED <<totalScrapes, asked, list, todo, errors, connErrors, out, log,
                 before, error, forwarder>>

\* The local variables end with scrape.
ScrapeReturns(n) ==
  /\ pc' = [pc EXCEPT ![n] = "send_error"]
  /\ list' = [list EXCEPT ![n] = {}] /\ out' = [out EXCEPT ![n] = {}]
  /\ errors' = [errors EXCEPT ![n] = 0] /\ connErrors' = [connErrors EXCEPT ![n] = 0]
  /\ log' = [log EXCEPT ![n] = {}]
  /\ UNCHANGED <<totalScrapes, asked, todo, before, psqlUp, forwarder>>

SetErrorOnly(n) ==
  /\ pc[n] = "scraped"
  /\ error' = IF errors[n] = 0 THEN error ELSE [value |-> 1, by |-> n, log |-> log[n]]
  /\ ScrapeReturns(n)

\* The last gauge, duration, is set as scrape returns.
SetError(n) ==
  /\ pc[n] = "scraped"
  /\ error' = [value |-> IF errors[n] = 0 THEN 0 ELSE 1, by |-> n, log |-> log[n]]
  /\ ScrapeReturns(n)

\* duration, totalScrapes, error, psqlUp and userQueriesError, of which the
\* third and the fourth are told apart: here their values are read.
SendGauge(n) ==
  /\ Send(n)
  /\ \/ pc[n] = "send_error" /\ pc' = [pc EXCEPT ![n] = "send_up"]
     \/ pc[n] = "send_up"    /\ pc' = [pc EXCEPT ![n] = "returned"]
  /\ UNCHANGED <<totalScrapes, asked, list, todo, errors, connErrors, out, log,
                 before, psqlUp, error>>

CollectStep(n) ==
  \/ \E d \in asked[n] : Discover(n, d)
  \/ Discovered(n)
  \/ \E d \in todo[n], outcome \in {"ok", "error", "connect"} : ScrapeDSN(n, d, outcome)
  \/ SetUp(n) \/ SetError(n) \/ SendGauge(n)
============================================================================
