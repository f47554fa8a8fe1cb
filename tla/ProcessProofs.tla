---------------------------- MODULE ProcessProofs --------------------------
(* Proofs about Process, for any environment, any number of attempts and   *)
(* any number of scrapes.                                                  *)
EXTENDS Process, FiniteSetTheorems, TLAPS

MainPosition == {"start", "configured", "sleep", "ping", "register", "describe",
                 "described", "listen", "serve", "exited", "crashed"}
Position == {"idle", "discover", "scrape", "scraped", "send_error", "send_up", "returned"}
Outcome  == {"ok", "error", "connect"}

MainTypes ==
  /\ main \in MainPosition
  /\ dsns \in Seq(Dsn) /\ autoDiscover \in BOOLEAN /\ excluded \subseteq Database
  /\ attempt \in 0 .. LastAttempt + 1 /\ waiting \in 0 .. 1 /\ answered \in BOOLEAN
  /\ forwarder \in {"none", "receiving", "holding", "done"}

ScrapeTypes ==
  /\ totalScrapes \in 0 .. MaxScrapes
  /\ pc \in [Scrape -> Position]
  /\ asked \in [Scrape -> SUBSET Dsn] /\ list \in [Scrape -> SUBSET Dsn]
  /\ todo \in [Scrape -> SUBSET Dsn] /\ out \in [Scrape -> SUBSET Dsn]
  /\ errors \in [Scrape -> Nat] /\ connErrors \in [Scrape -> Nat]
  /\ log \in [Scrape -> SUBSET Outcome] /\ before \in [Scrape -> SUBSET Scrape]
  /\ psqlUp \in Gauge /\ error \in Gauge

\* Main's own counters, and no scrape before Describe.
MainInv ==
  /\ main \in {"start", "configured", "sleep", "ping"} => attempt <= LastAttempt
  /\ main \in {"start", "configured", "sleep"} => waiting = 0
  /\ main = "ping" => waiting = 1
  /\ main \in {"start", "configured", "sleep", "ping", "register"} => totalScrapes = 0

\* The list of a scrape, and what is left of it.
ListInv(n) ==
  /\ IsFiniteSet(list[n]) /\ todo[n] \subseteq list[n] /\ out[n] \subseteq list[n]
  /\ n > totalScrapes => pc[n] = "idle"
  /\ pc[n] = "idle" => list[n] = {}
  /\ pc[n] # "scrape" => todo[n] = {}
  /\ pc[n] = "discover" => autoDiscover

\* The counters agree with the outcomes: errors are those that are not "ok", and
\* as long as nothing was reached, all that is done failed to connect.
CountInv(n) ==
  /\ pc[n] \in {"idle", "discover"} =>
       log[n] = {} /\ errors[n] = 0 /\ connErrors[n] = 0
  /\ connErrors[n] <= errors[n]
  /\ errors[n] + Cardinality(todo[n]) <= Cardinality(list[n])
  /\ errors[n] = 0 <=> log[n] \cap {"error", "connect"} = {}
  /\ pc[n] = "scrape" =>
       IF log[n] \cap {"ok", "error"} = {}
         THEN connErrors[n] + Cardinality(todo[n]) = Cardinality(list[n])
         ELSE connErrors[n] + Cardinality(todo[n]) < Cardinality(list[n])

\* The scrapes before this one are over, and none of them set the gauges since
\* this one has.
OrderInv(n) ==
  /\ \A m \in before[n] : pc[m] = "returned"
  /\ pc[n] = "send_error" => error.by \notin before[n]
  /\ pc[n] \in {"scraped", "send_error", "send_up"} => psqlUp.by \notin before[n]

GaugeInv ==
  /\ error.value  = Truth(error.log \cap {"error", "connect"} # {})
  /\ psqlUp.value = Truth(psqlUp.log \cap {"ok", "error"} # {})

ScrapesInv ==
  /\ ScrapeTypes /\ GaugeInv
  /\ \A n \in Scrape : ListInv(n) /\ CountInv(n) /\ OrderInv(n)

Inv == MainTypes /\ MainInv /\ ScrapesInv

----------------------------------------------------------------------------
\* A path set on a DSN gives a DSN.
LEMMA WithPathType ==
  ASSUME NEW d \in Dsn, NEW name \in Database
  PROVE  WithPath(d, name) \in Dsn
  BY SourceAssumption DEF WithPath, Dsn, Form

\* A round of discovery adds finitely many DSNs.
LEMMA DiscoveredFinite ==
  ASSUME NEW d \in Dsn, NEW names \in SUBSET Database
  PROVE  DiscoveredFrom(d, names) \subseteq Dsn /\ IsFiniteSet(DiscoveredFrom(d, names))
<1>1. IsFiniteSet(names \ excluded)
  BY FS_Subset, SourceAssumption
<1>2. IsFiniteSet({WithPath(d, name) : name \in names \ excluded})
  <2>. DEFINE S == names \ excluded
              T == {WithPath(d, name) : name \in S}
              f == [name \in S |-> WithPath(d, name)]
  <2>1. f \in Surjection(S, T)
    BY DEF Surjection
  <2>. QED  BY <2>1, <1>1, FS_Surjection
<1>3. IsFiniteSet({d})
  BY FS_Singleton
<1>4. IsFiniteSet(DiscoveredFrom(d, names))
  BY <1>2, <1>3, FS_Union DEF DiscoveredFrom
<1>5. DiscoveredFrom(d, names) \subseteq Dsn
  BY WithPathType DEF DiscoveredFrom
<1>. QED  BY <1>4, <1>5

\* The environment yields DSNs.
LEMMA DataSourcesType ==
  ASSUME NEW env \in Environment
  PROVE  DataSources(env) \in Seq(Dsn)
<1>1. env.name \in Seq(Dsn) /\ env.uri \in Dsn
  BY StartupAssumption
<1>2. BuiltURI(env) \in Dsn
  BY StartupAssumption DEF BuiltURI, Dsn, Form
<1>3. <<env.uri>> \in Seq(Dsn) /\ <<BuiltURI(env)>> \in Seq(Dsn)
  BY <1>1, <1>2
<1>. QED  BY <1>1, <1>3 DEF DataSources

\* A list has finitely many members.
LEMMA RangeFinite ==
  ASSUME dsns \in Seq(Dsn)
  PROVE  Range(dsns) \subseteq Dsn /\ IsFiniteSet(Range(dsns))
<1>1. IsFiniteSet(1 .. Len(dsns))
  BY FS_Interval
<1>2. dsns \in Surjection(1 .. Len(dsns), Range(dsns))
  BY DEF Surjection, Range
<1>3. IsFiniteSet(Range(dsns))
  BY <1>1, <1>2, FS_Surjection
<1>4. Range(dsns) \subseteq Dsn
  BY DEF Range
<1>. QED  BY <1>3, <1>4

\* Inv holds when the process starts.
LEMMA InitInv == Init => Inv
<1>. SUFFICES ASSUME Init PROVE Inv
  OBVIOUS
<1>. USE DEF Init, StartupInit, CollectInit
<1>1. MainTypes
  <2>1. autoDiscover \in BOOLEAN /\ answered \in BOOLEAN
    OBVIOUS
  <2>. QED  BY <2>1, StartupAssumption DEF MainTypes, MainPosition
<1>2. ScrapeTypes
  <2>1. psqlUp \in Gauge /\ error \in Gauge
    BY MaxScrapesAssumption DEF Gauge
  <2>2. pc \in [Scrape -> Position] /\ totalScrapes \in 0 .. MaxScrapes
    BY MaxScrapesAssumption DEF Position
  <2>3. \A S : asked \in [Scrape -> SUBSET S]
    OBVIOUS
  <2>4. errors \in [Scrape -> Nat] /\ connErrors = errors
    OBVIOUS
  <2>. QED  BY <2>1, <2>2, <2>3, <2>4 DEF ScrapeTypes
<1>3. MainInv
  BY StartupAssumption DEF MainInv
<1>4. GaugeInv
  BY DEF GaugeInv, Truth
<1>5. \A n \in Scrape : ListInv(n)
  BY FS_EmptySet DEF ListInv, Scrape
<1>6. \A n \in Scrape : CountInv(n)
  BY FS_EmptySet DEF CountInv
<1>7. \A n \in Scrape : OrderInv(n)
  BY DEF OrderInv
<1>. QED  BY <1>1, <1>2, <1>3, <1>4, <1>5, <1>6, <1>7 DEF Inv, ScrapesInv

\* What main does without configuring anything leaves the scrapes alone.
LEMMA ScrapesStay ==
  ASSUME ScrapesInv, UNCHANGED <<config, collect>>
  PROVE  ScrapesInv'
<1>. USE DEF config, collect
<1>1. ScrapeTypes' /\ GaugeInv'
  BY DEF ScrapesInv, ScrapeTypes, GaugeInv
<1>2. ASSUME NEW n \in Scrape
      PROVE  ListInv(n)' /\ CountInv(n)' /\ OrderInv(n)'
  BY DEF ScrapesInv, ListInv, CountInv, OrderInv
<1>. QED  BY <1>1, <1>2 DEF ScrapesInv

\* A step of scrape n leaves the others alone.
LEMMA OthersStay ==
  ASSUME ScrapesInv, NEW n \in Scrape, pc[n] # "returned",
         totalScrapes' \in Nat, totalScrapes' >= totalScrapes,
         UNCHANGED config,
         \A m \in Scrape \ {n} :
           /\ pc'[m] = pc[m] /\ list'[m] = list[m] /\ todo'[m] = todo[m]
           /\ out'[m] = out[m] /\ log'[m] = log[m] /\ before'[m] = before[m]
           /\ errors'[m] = errors[m] /\ connErrors'[m] = connErrors[m],
         error'.by \in {error.by, n}, psqlUp'.by \in {psqlUp.by, n}
  PROVE  \A m \in Scrape \ {n} : ListInv(m)' /\ CountInv(m)' /\ OrderInv(m)'
<1>. SUFFICES ASSUME NEW m \in Scrape \ {n}
             PROVE  ListInv(m)' /\ CountInv(m)' /\ OrderInv(m)'
  OBVIOUS
<1>0. ListInv(m) /\ CountInv(m) /\ OrderInv(m) /\ ScrapeTypes
  BY DEF ScrapesInv
<1>1. ListInv(m)'
  <2>1. m > totalScrapes' => m > totalScrapes
    BY <1>0 DEF ScrapeTypes, Scrape
  <2>. QED  BY <1>0, <2>1 DEF ListInv, config
<1>2. CountInv(m)'
  BY <1>0 DEF CountInv
<1>3. OrderInv(m)'
  <2>1. n \notin before[m] /\ before[m] \subseteq Scrape
    BY <1>0 DEF OrderInv, ScrapeTypes
  <2>. QED  BY <1>0, <2>1 DEF OrderInv
<1>. QED  BY <1>1, <1>2, <1>3

\* The configuration is read while no scrape has begun.
LEMMA ConfigurationInv ==
  ASSUME Inv, GetDataSources, UNCHANGED <<collect, forwarder>>
  PROVE  Inv'
<1>. USE DEF GetDataSources
<1>0. MainTypes /\ MainInv /\ ScrapesInv
  BY DEF Inv
<1>1. PICK env \in Environment :
        IF Panics(env)
          THEN main' = "crashed" /\ UNCHANGED config
          ELSE /\ main' = "configured"
               /\ dsns' = DataSources(env)
               /\ autoDiscover' = env.autoDiscover /\ excluded' = env.excluded
  OBVIOUS
<1>2. MainTypes'
  <2>1. env.autoDiscover \in BOOLEAN /\ env.excluded \subseteq Database
    BY StartupAssumption
  <2>2. autoDiscover' \in BOOLEAN
    BY <1>0, <1>1, <2>1 DEF MainTypes, config
  <2>3. answered' \in BOOLEAN
    BY <1>0 DEF MainTypes
  <2>. QED  BY <1>0, <1>1, <2>1, <2>2, <2>3, DataSourcesType
            DEF MainTypes, MainPosition, config
<1>3. MainInv'
  BY <1>0, <1>1 DEF MainInv, collect
<1>4. ScrapesInv'
  <2>. USE DEF collect
  <2>1. totalScrapes = 0
    BY <1>0 DEF MainInv
  <2>2. ScrapeTypes' /\ GaugeInv'
    BY <1>0 DEF ScrapesInv, ScrapeTypes, GaugeInv
  <2>3. ASSUME NEW n \in Scrape
        PROVE  ListInv(n)' /\ CountInv(n)' /\ OrderInv(n)'
    <3>1. pc[n] = "idle" /\ list[n] = {}
      BY <1>0, <2>1 DEF ScrapesInv, ListInv, Scrape
    <3>. QED  BY <1>0, <3>1 DEF ScrapesInv, ListInv, CountInv, OrderInv
  <2>. QED  BY <2>2, <2>3 DEF ScrapesInv
<1>. QED  BY <1>2, <1>3, <1>4 DEF Inv

\* The other steps of main, and those of the forwarder.
LEMMA MainInvStep ==
  ASSUME Inv, MainStep \/ ForwarderStep, ~DescribeCollects
  PROVE  Inv'
<1>. USE DEF config, collect
<1>0. MainTypes /\ MainInv /\ ScrapesInv
  BY DEF Inv
<1>1. CASE GetDataSources /\ UNCHANGED <<collect, forwarder>>
  BY <1>1, ConfigurationInv
<1>2. ASSUME UNCHANGED <<config, collect>>, MainTypes', MainInv'
      PROVE  Inv'
  BY <1>0, <1>2, ScrapesStay DEF Inv
<1>. USE <1>0, StartupAssumption DEF MainTypes, MainInv, MainPosition
<1>3. CASE DumpMaps /\ UNCHANGED <<collect, forwarder>>
  BY <1>2, <1>3 DEF DumpMaps
<1>4. CASE WaitForDatabaseReadiness /\ UNCHANGED <<collect, forwarder>>
  BY <1>2, <1>4 DEF WaitForDatabaseReadiness
<1>5. CASE Connects /\ UNCHANGED <<collect, forwarder>>
  BY <1>2, <1>5 DEF Connects
<1>6. CASE ConnectFails /\ UNCHANGED <<collect, forwarder>>
  BY <1>2, <1>6 DEF ConnectFails, NextAttempt
<1>7. CASE PingSucceeds /\ UNCHANGED <<collect, forwarder>>
  BY <1>2, <1>7 DEF PingSucceeds
<1>8. CASE ReadinessPingFails /\ UNCHANGED <<collect, forwarder>>
  BY <1>2, <1>8 DEF ReadinessPingFails, NextAttempt
<1>9. CASE Listen /\ UNCHANGED <<collect, forwarder>>
  BY <1>2, <1>9 DEF Listen
<1>10. CASE Describe
  BY <1>2, <1>10 DEF Describe
<1>11. CASE CloseMetricCh
  BY <1>2, <1>11 DEF CloseMetricCh
<1>12. CASE DescribeReturns
  BY <1>2, <1>12 DEF DescribeReturns
<1>13. CASE Forward
  BY <1>2, <1>13 DEF Forward, startup
<1>14. CASE ForwarderEnds
  BY <1>2, <1>14 DEF ForwarderEnds, startup
<1>. QED
  BY <1>1, <1>3, <1>4, <1>5, <1>6, <1>7, <1>8, <1>9, <1>10, <1>11, <1>12, <1>13, <1>14
  DEF MainStep, StartupStep, ForwarderStep

\* A step of a scrape, which may send, preserves what concerns main.
LEMMA MainStays ==
  ASSUME Inv, NEW n \in Scrape, UNCHANGED <<startup, totalScrapes>>,
         Send(n) \/ UNCHANGED forwarder
  PROVE  MainTypes' /\ MainInv'
BY DEF Inv, MainTypes, MainInv, Send, startup, config

\* The scrape that begins is the next one, and was idle.
LEMMA BeginInv ==
  ASSUME Inv, NEW n \in Scrape, BeginScrape(n), UNCHANGED startup,
         main \in {"describe", "serve"}
  PROVE  Inv'
<1>. USE DEF BeginScrape
<1>0. /\ ScrapesInv /\ ScrapeTypes /\ ListInv(n) /\ CountInv(n) /\ OrderInv(n)
      /\ MainTypes /\ MainInv /\ MaxScrapes \in Nat
  BY MaxScrapesAssumption DEF Inv, ScrapesInv
<1>1. pc[n] = "idle" /\ list[n] = {} /\ todo[n] = {} /\ out[n] = {}
  BY <1>0 DEF ListInv, ScrapeTypes, Scrape
<1>2. Range(dsns) \subseteq Dsn /\ IsFiniteSet(Range(dsns))
  BY <1>0, RangeFinite DEF MainTypes
<1>3. MainTypes' /\ MainInv'
  BY <1>0 DEF MainTypes, MainInv, startup, config
<1>4. ScrapeTypes'
  <2>1. pc' \in [Scrape -> Position] /\ before' \in [Scrape -> SUBSET Scrape]
    BY <1>0 DEF ScrapeTypes, Position
  <2>2. /\ asked' \in [Scrape -> SUBSET Dsn] /\ list' \in [Scrape -> SUBSET Dsn]
        /\ todo' \in [Scrape -> SUBSET Dsn]
    BY <1>0, <1>2 DEF ScrapeTypes
  <2>3. totalScrapes' \in 0 .. MaxScrapes
    BY <1>0 DEF ScrapeTypes
  <2>. QED  BY <1>0, <2>1, <2>2, <2>3 DEF ScrapeTypes
<1>5. GaugeInv'
  BY <1>0 DEF GaugeInv, ScrapesInv
<1>6. ListInv(n)'
  <2>1. CASE autoDiscover
    <3>1. /\ pc'[n] = "discover" /\ totalScrapes' = n /\ n \in Nat
          /\ list'[n] = {} /\ todo'[n] = {} /\ out'[n] = {}
      BY <1>0, <1>1, <2>1 DEF ScrapeTypes, Scrape
    <3>2. autoDiscover'
      BY <2>1 DEF startup, config
    <3>. QED  BY <3>1, <3>2, FS_EmptySet DEF ListInv
  <2>2. CASE ~autoDiscover
    BY <1>0, <1>1, <1>2, <2>2 DEF ListInv, ScrapeTypes, Scrape, startup, config
  <2>. QED  BY <2>1, <2>2
<1>7. CountInv(n)'
  <2>1. Cardinality(Range(dsns)) \in Nat
    BY <1>2, FS_CardinalityType
  <2>2. CASE autoDiscover
    BY <1>0, <1>1, <2>2 DEF CountInv, ScrapeTypes
  <2>3. CASE ~autoDiscover
    BY <1>0, <1>1, <2>1, <2>3 DEF CountInv, ScrapeTypes
  <2>. QED  BY <2>2, <2>3
<1>8. OrderInv(n)'
  BY <1>0, <1>1 DEF OrderInv, ScrapeTypes
<1>9. \A m \in Scrape \ {n} : ListInv(m)' /\ CountInv(m)' /\ OrderInv(m)'
  <2>1. \A m \in Scrape \ {n} :
          /\ pc'[m] = pc[m] /\ list'[m] = list[m] /\ todo'[m] = todo[m]
          /\ out'[m] = out[m] /\ log'[m] = log[m] /\ before'[m] = before[m]
          /\ errors'[m] = errors[m] /\ connErrors'[m] = connErrors[m]
    BY <1>0 DEF ScrapeTypes
  <2>. QED  BY <1>0, <1>1, <2>1, OthersStay DEF ScrapeTypes, startup
<1>. QED  BY <1>3, <1>4, <1>5, <1>6, <1>7, <1>8, <1>9 DEF Inv, ScrapesInv

\* What a round of discovery adds to the list of n.
LEMMA DiscoverInv ==
  ASSUME Inv, NEW n \in Scrape, NEW d \in asked[n], Discover(n, d), UNCHANGED startup
  PROVE  Inv'
<1>. USE DEF Discover
<1>0. /\ ScrapesInv /\ ScrapeTypes /\ ListInv(n) /\ CountInv(n) /\ OrderInv(n)
      /\ GaugeInv /\ d \in Dsn
  BY DEF Inv, ScrapesInv, ScrapeTypes
<1>1. PICK more \in SUBSET Dsn :
        IsFiniteSet(more) /\ list' = [list EXCEPT ![n] = @ \cup more]
  <2>1. CASE UrlParses(d)
    <3>1. PICK names \in SUBSET Database :
            list' = [list EXCEPT ![n] = @ \cup DiscoveredFrom(d, names)]
      BY <2>1
    <3>. QED  BY <1>0, <3>1, DiscoveredFinite
  <2>2. CASE ~UrlParses(d)
    BY <1>0, <2>2, FS_EmptySet DEF ScrapeTypes
  <2>. QED  BY <2>1, <2>2
<1>2. list[n] \subseteq list'[n] /\ IsFiniteSet(list'[n])
  BY <1>0, <1>1, FS_Union DEF ScrapeTypes, ListInv
<1>3. MainTypes' /\ MainInv'
  BY MainStays
<1>4. ScrapeTypes' /\ GaugeInv'
  BY <1>0, <1>1 DEF ScrapeTypes, GaugeInv
<1>5. ListInv(n)'
  BY <1>0, <1>2 DEF ListInv, startup, config
<1>6. CountInv(n)'
  <2>1. todo[n] = {} /\ Cardinality({}) = 0
    BY <1>0, FS_EmptySet DEF ListInv
  <2>2. Cardinality(list'[n]) \in Nat
    BY <1>2, FS_CardinalityType
  <2>. QED  BY <1>0, <2>1, <2>2 DEF CountInv
<1>7. OrderInv(n)'
  BY <1>0 DEF OrderInv
<1>8. \A m \in Scrape \ {n} : ListInv(m)' /\ CountInv(m)' /\ OrderInv(m)'
  <2>1. \A m \in Scrape \ {n} : list'[m] = list[m]
    BY <1>0, <1>1 DEF ScrapeTypes
  <2>. QED  BY <1>0, <2>1, OthersStay DEF ScrapeTypes, startup
<1>. QED  BY <1>3, <1>4, <1>5, <1>6, <1>7, <1>8 DEF Inv, ScrapesInv

\* When discovery is over, the list is what is left to be scraped.
LEMMA DiscoveredInv ==
  ASSUME Inv, NEW n \in Scrape, Discovered(n), UNCHANGED startup
  PROVE  Inv'
<1>. USE DEF Discovered
<1>0. /\ ScrapesInv /\ ScrapeTypes /\ ListInv(n) /\ CountInv(n) /\ OrderInv(n)
      /\ GaugeInv
  BY DEF Inv, ScrapesInv, ScrapeTypes
<1>1. MainTypes' /\ MainInv'
  BY MainStays
<1>2. ScrapeTypes' /\ GaugeInv'
  BY <1>0 DEF ScrapeTypes, GaugeInv, Position
<1>3. ListInv(n)'
  BY <1>0 DEF ListInv, ScrapeTypes, startup, config
<1>4. CountInv(n)'
  <2>1. Cardinality(list[n]) \in Nat
    BY <1>0, FS_CardinalityType DEF ListInv
  <2>. QED  BY <1>0, <2>1 DEF CountInv, ScrapeTypes
<1>5. OrderInv(n)'
  BY <1>0 DEF OrderInv, ScrapeTypes
<1>6. \A m \in Scrape \ {n} : ListInv(m)' /\ CountInv(m)' /\ OrderInv(m)'
  <2>1. \A m \in Scrape \ {n} : pc'[m] = pc[m] /\ todo'[m] = todo[m]
    BY <1>0 DEF ScrapeTypes
  <2>. QED  BY <1>0, <2>1, OthersStay DEF ScrapeTypes, startup
<1>. QED  BY <1>1, <1>2, <1>3, <1>4, <1>5, <1>6 DEF Inv, ScrapesInv

\* An outcome is counted, logged, and leaves one DSN less to scrape.
LEMMA OutcomeInv ==
  ASSUME Inv, NEW n \in Scrape, NEW d \in todo[n], NEW outcome \in Outcome,
         ScrapeDSN(n, d, outcome), UNCHANGED startup
  PROVE  Inv'
<1>. USE DEF ScrapeDSN
<1>0. /\ ScrapesInv /\ ScrapeTypes /\ ListInv(n) /\ CountInv(n) /\ OrderInv(n)
      /\ GaugeInv /\ d \in Dsn /\ d \in list[n]
  BY DEF Inv, ScrapesInv, ScrapeTypes, ListInv
<1>1. MainTypes' /\ MainInv'
  BY MainStays
<1>2. /\ todo'[n] = todo[n] \ {d} /\ log'[n] = log[n] \cup {outcome}
      /\ errors'[n] = errors[n] + CountError(outcome)
      /\ connErrors'[n] = connErrors[n] + IF outcome = "connect" THEN 1 ELSE 0
      /\ out'[n] = out[n] \/ out'[n] = out[n] \cup {d}
      /\ pc[n] = "scrape" /\ UNCHANGED <<pc, list>>
  BY <1>0 DEF ScrapeTypes
<1>3. ScrapeTypes'
  <2>1. errors' \in [Scrape -> Nat] /\ connErrors' \in [Scrape -> Nat]
    BY <1>0 DEF ScrapeTypes, CountError
  <2>2. todo' \in [Scrape -> SUBSET Dsn] /\ log' \in [Scrape -> SUBSET Outcome]
    BY <1>0 DEF ScrapeTypes
  <2>3. out' \in [Scrape -> SUBSET Dsn]
    BY <1>0 DEF ScrapeTypes
  <2>. QED  BY <1>0, <2>1, <2>2, <2>3 DEF ScrapeTypes
<1>4. GaugeInv'
  BY <1>0 DEF GaugeInv
<1>5. ListInv(n)'
  BY <1>0, <1>2 DEF ListInv, startup, config
<1>6. CountInv(n)'
  <2>1. IsFiniteSet(todo[n])
    BY <1>0, FS_Subset DEF ListInv
  <2>2. Cardinality(todo'[n]) = Cardinality(todo[n]) - 1 /\ Cardinality(todo[n]) \in Nat
    BY <1>2, <2>1, FS_RemoveElement, FS_CardinalityType
  <2>3. Cardinality(list[n]) \in Nat
    BY <1>0, FS_CardinalityType DEF ListInv
  <2>4. errors[n] \in Nat /\ connErrors[n] \in Nat /\ log[n] \subseteq Outcome
    BY <1>0 DEF ScrapeTypes
  <2>5. connErrors[n] + Cardinality(todo[n]) <= Cardinality(list[n])
    <3>. HIDE DEF ScrapeDSN
    <3>. QED  BY <1>0, <1>2, <2>2, <2>3, <2>4 DEF CountInv
  <2>. HIDE DEF ScrapeDSN
  <2>6. CASE outcome = "ok"
    <3>1. /\ log'[n] \cap {"ok", "error"} # {}
          /\ log'[n] \cap {"error", "connect"} = log[n] \cap {"error", "connect"}
      BY <1>2, <2>6
    <3>2. errors'[n] = errors[n] /\ connErrors'[n] = connErrors[n]
      BY <1>2, <2>4, <2>6 DEF CountError
    <3>. QED  BY <1>0, <1>2, <2>2, <2>3, <2>4, <2>5, <3>1, <3>2 DEF CountInv
  <2>7. CASE outcome = "error"
    <3>1. log'[n] \cap {"ok", "error"} # {} /\ log'[n] \cap {"error", "connect"} # {}
      BY <1>2, <2>7
    <3>2. errors'[n] = errors[n] + 1 /\ connErrors'[n] = connErrors[n]
      BY <1>2, <2>4, <2>7 DEF CountError
    <3>. QED  BY <1>0, <1>2, <2>2, <2>3, <2>4, <2>5, <3>1, <3>2 DEF CountInv
  <2>8. CASE outcome = "connect"
    <3>1. /\ log'[n] \cap {"ok", "error"} = {} <=> log[n] \cap {"ok", "error"} = {}
          /\ log'[n] \cap {"error", "connect"} # {}
      BY <1>2, <2>8
    <3>2. errors'[n] = errors[n] + 1 /\ connErrors'[n] = connErrors[n] + 1
      BY <1>2, <2>4, <2>8 DEF CountError
    <3>. QED  BY <1>0, <1>2, <2>2, <2>3, <2>4, <2>5, <3>1, <3>2 DEF CountInv
  <2>. QED  BY <2>6, <2>7, <2>8 DEF Outcome
<1>7. OrderInv(n)'
  BY <1>0 DEF OrderInv
<1>8. \A m \in Scrape \ {n} : ListInv(m)' /\ CountInv(m)' /\ OrderInv(m)'
  <2>1. \A m \in Scrape \ {n} :
          /\ todo'[m] = todo[m] /\ out'[m] = out[m] /\ log'[m] = log[m]
          /\ errors'[m] = errors[m] /\ connErrors'[m] = connErrors[m]
    BY <1>0 DEF ScrapeTypes
  <2>. QED  BY <1>0, <2>1, OthersStay DEF ScrapeTypes, startup
<1>. QED  BY <1>1, <1>3, <1>4, <1>5, <1>6, <1>7, <1>8 DEF Inv, ScrapesInv

\* The gauge up is 0 exactly when nothing but failures to connect is logged.
LEMMA SetUpInv ==
  ASSUME Inv, NEW n \in Scrape, SetUp(n), UNCHANGED startup
  PROVE  Inv'
<1>. USE DEF SetUp
<1>0. /\ ScrapesInv /\ ScrapeTypes /\ ListInv(n) /\ CountInv(n) /\ OrderInv(n)
      /\ GaugeInv
  BY DEF Inv, ScrapesInv, ScrapeTypes
<1>1. MainTypes' /\ MainInv'
  BY MainStays
<1>2. ScrapeTypes'
  <2>1. psqlUp' \in Gauge
    BY <1>0, MaxScrapesAssumption DEF Gauge, ScrapeTypes, Up, Outcome, Scrape
  <2>2. pc' \in [Scrape -> Position]
    BY <1>0 DEF ScrapeTypes, Position
  <2>. QED  BY <1>0, <2>1, <2>2 DEF ScrapeTypes
<1>3. GaugeInv'
  <2>1. Cardinality(todo[n]) = 0
    BY FS_EmptySet
  <2>2. Cardinality(list[n]) \in Nat /\ connErrors[n] \in Nat
    BY <1>0, FS_CardinalityType DEF ListInv, ScrapeTypes
  <2>3. connErrors[n] >= Cardinality(list[n]) <=> log[n] \cap {"ok", "error"} = {}
    BY <1>0, <2>1, <2>2 DEF CountInv
  <2>. QED  BY <1>0, <2>3 DEF GaugeInv, Up, Truth
<1>4. ListInv(n)' /\ CountInv(n)'
  BY <1>0 DEF ListInv, CountInv, ScrapeTypes, startup, config
<1>5. OrderInv(n)'
  <2>1. n \notin before[n]
    BY <1>0 DEF OrderInv
  <2>. QED  BY <1>0, <2>1 DEF OrderInv, ScrapeTypes
<1>6. \A m \in Scrape \ {n} : ListInv(m)' /\ CountInv(m)' /\ OrderInv(m)'
  <2>1. \A m \in Scrape \ {n} : pc'[m] = pc[m]
    BY <1>0 DEF ScrapeTypes
  <2>. QED  BY <1>0, <2>1, OthersStay DEF ScrapeTypes, startup
<1>. QED  BY <1>1, <1>2, <1>3, <1>4, <1>5, <1>6 DEF Inv, ScrapesInv

\* The gauge error is 0 exactly when only successes are logged.
LEMMA SetErrorInv ==
  ASSUME Inv, NEW n \in Scrape, SetError(n), UNCHANGED startup
  PROVE  Inv'
<1>. USE DEF SetError, ScrapeReturns
<1>0. /\ ScrapesInv /\ ScrapeTypes /\ ListInv(n) /\ CountInv(n) /\ OrderInv(n)
      /\ GaugeInv
  BY DEF Inv, ScrapesInv, ScrapeTypes
<1>1. MainTypes' /\ MainInv'
  BY MainStays
<1>2. ScrapeTypes'
  <2>1. error' \in Gauge
    BY <1>0, MaxScrapesAssumption DEF Gauge, ScrapeTypes, Outcome, Scrape
  <2>2. /\ pc' \in [Scrape -> Position]
        /\ list' \in [Scrape -> SUBSET Dsn] /\ out' \in [Scrape -> SUBSET Dsn]
        /\ errors' \in [Scrape -> Nat] /\ connErrors' \in [Scrape -> Nat]
        /\ log' \in [Scrape -> SUBSET Outcome]
    BY <1>0 DEF ScrapeTypes, Position
  <2>. QED  BY <1>0, <2>1, <2>2 DEF ScrapeTypes
<1>3. GaugeInv'
  BY <1>0 DEF GaugeInv, CountInv, Truth
<1>4. /\ pc'[n] = "send_error" /\ list'[n] = {} /\ out'[n] = {} /\ todo'[n] = {}
      /\ errors'[n] = 0 /\ connErrors'[n] = 0 /\ log'[n] = {}
  BY <1>0 DEF ScrapeTypes, ListInv
<1>5. ListInv(n)' /\ CountInv(n)'
  BY <1>0, <1>4, FS_EmptySet DEF ListInv, CountInv, startup, config
<1>6. OrderInv(n)'
  <2>1. n \notin before[n]
    BY <1>0 DEF OrderInv
  <2>. QED  BY <1>0, <2>1 DEF OrderInv, ScrapeTypes
<1>7. \A m \in Scrape \ {n} : ListInv(m)' /\ CountInv(m)' /\ OrderInv(m)'
  <2>1. \A m \in Scrape \ {n} :
          /\ pc'[m] = pc[m] /\ list'[m] = list[m] /\ out'[m] = out[m]
          /\ log'[m] = log[m] /\ errors'[m] = errors[m]
          /\ connErrors'[m] = connErrors[m]
    BY <1>0 DEF ScrapeTypes
  <2>. QED  BY <1>0, <2>1, OthersStay DEF ScrapeTypes, startup
<1>. QED  BY <1>1, <1>2, <1>3, <1>5, <1>6, <1>7 DEF Inv, ScrapesInv

\* Sending a gauge to the registry changes no gauge and no other scrape.
LEMMA SendGaugeInv ==
  ASSUME Inv, NEW n \in Scrape, SendGauge(n), UNCHANGED startup
  PROVE  Inv'
<1>. USE DEF SendGauge
<1>0. /\ ScrapesInv /\ ScrapeTypes /\ ListInv(n) /\ CountInv(n) /\ OrderInv(n)
      /\ GaugeInv
  BY DEF Inv, ScrapesInv, ScrapeTypes
<1>1. MainTypes' /\ MainInv'
  BY MainStays
<1>2. ScrapeTypes' /\ GaugeInv'
  BY <1>0 DEF ScrapeTypes, GaugeInv, Position
<1>3. ListInv(n)' /\ CountInv(n)'
  BY <1>0 DEF ListInv, CountInv, ScrapeTypes, startup, config
<1>4. OrderInv(n)'
  BY <1>0 DEF OrderInv, ScrapeTypes
<1>5. \A m \in Scrape \ {n} : ListInv(m)' /\ CountInv(m)' /\ OrderInv(m)'
  <2>1. \A m \in Scrape \ {n} : pc'[m] = pc[m]
    BY <1>0 DEF ScrapeTypes
  <2>. QED  BY <1>0, <2>1, OthersStay DEF ScrapeTypes, startup
<1>. QED  BY <1>1, <1>2, <1>3, <1>4, <1>5 DEF Inv, ScrapesInv

----------------------------------------------------------------------------
\* A stuttering step.
LEMMA StutterInv == Inv /\ UNCHANGED vars => Inv'
<1>. SUFFICES ASSUME Inv, UNCHANGED vars PROVE Inv'
  OBVIOUS
<1>1. MainTypes' /\ MainInv'
  BY DEF Inv, MainTypes, MainInv, vars, startup, config, collect
<1>2. ScrapesInv'
  BY ScrapesStay DEF Inv, vars, startup
<1>. QED  BY <1>1, <1>2 DEF Inv

\* Every step of the process preserves Inv.
LEMMA NextInv == Inv /\ [Next]_vars => Inv'
<1>. SUFFICES ASSUME Inv, [Next]_vars PROVE Inv'
  OBVIOUS
<1>1. CASE MainStep \/ ForwarderStep
  <2>1. CASE DescribeCollects
    <3>1. 1 \in Scrape
      BY MaxScrapesAssumption DEF Scrape
    <3>. QED  BY <2>1, <3>1, BeginInv DEF DescribeCollects
  <2>2. CASE ~DescribeCollects
    BY <1>1, <2>2, MainInvStep
  <2>. QED  BY <2>1, <2>2
<1>2. CASE Request
  BY <1>2, BeginInv DEF Request
<1>3. ASSUME NEW n \in Scrape, ScrapeStep(n)
      PROVE  Inv'
  <2>. USE DEF ScrapeStep
  <2>1. CASE \E d \in asked[n] : Discover(n, d)
    BY <1>3, <2>1, DiscoverInv
  <2>2. CASE Discovered(n)
    BY <1>3, <2>2, DiscoveredInv
  <2>3. CASE \E d \in todo[n], outcome \in Outcome : ScrapeDSN(n, d, outcome)
    BY <1>3, <2>3, OutcomeInv
  <2>4. CASE SetUp(n)
    BY <1>3, <2>4, SetUpInv
  <2>5. CASE SetError(n)
    BY <1>3, <2>5, SetErrorInv
  <2>6. CASE SendGauge(n)
    BY <1>3, <2>6, SendGaugeInv
  <2>. QED  BY <1>3, <2>1, <2>2, <2>3, <2>4, <2>5, <2>6 DEF CollectStep, Outcome
<1>4. CASE UNCHANGED vars
  BY <1>4, StutterInv
<1>. QED  BY <1>1, <1>2, <1>3, <1>4 DEF Next

\* Inv holds in every reachable state.
THEOREM Invariance == Spec => []Inv
  BY InitInv, NextInv, PTL DEF Spec

\* Every variable of the process holds a value of its type, and the counters of
\* scrape (exporter.go:219-243) never exceed the length of its list.
THEOREM TypeCorrect == Spec => []TypeOK
<1>1. Inv => TypeOK
  <2>. SUFFICES ASSUME Inv PROVE TypeOK
    OBVIOUS
  <2>1. MainTypes /\ ScrapeTypes /\ LastAttempt \in Nat
    BY StartupAssumption DEF Inv, ScrapesInv
  <2>2. ASSUME NEW n \in Scrape
        PROVE  ScrapeTypeOK(n)
    <3>1. ListInv(n) /\ CountInv(n)
      BY DEF Inv, ScrapesInv
    <3>2. Cardinality(list[n]) \in Nat /\ Cardinality(todo[n]) \in Nat
      BY <3>1, FS_Subset, FS_CardinalityType DEF ListInv
    <3>3. errors[n] \in Nat /\ connErrors[n] \in Nat /\ asked[n] \subseteq Dsn
          /\ list[n] \subseteq Dsn /\ log[n] \subseteq Outcome /\ before[n] \subseteq Scrape
          /\ pc[n] \in Position
      BY <2>1 DEF ScrapeTypes
    <3>4. errors[n] <= Cardinality(list[n]) /\ connErrors[n] <= errors[n]
      BY <3>1, <3>2, <3>3 DEF CountInv
    <3>. QED  BY <3>1, <3>3, <3>4 DEF ScrapeTypeOK, ListInv, Position, Outcome
  <2>. QED  BY <2>1, <2>2 DEF TypeOK, MainTypes, ScrapeTypes, MainPosition
<1>. QED  BY <1>1, Invariance, PTL

\* What a request reads from the gauges up and error is true of a scrape that
\* is not over before the request (exporter.go:231-243, :88-97).
THEOREM GaugesTrue == Spec => []GaugesTellTheTruth
<1>1. Inv => GaugesTellTheTruth
  BY DEF Inv, ScrapesInv, GaugeInv, OrderInv, GaugesTellTheTruth
<1>. QED  BY <1>1, Invariance, PTL

\* However long the database does not answer, WaitForDatabaseReadiness
\* (utils.go:328-359) holds one connection at most.
THEOREM OneConnection == Spec => []OneReadinessConn
<1>1. Inv => OneReadinessConn
  BY DEF Inv, MainTypes, OneReadinessConn
<1>. QED  BY <1>1, Invariance, PTL

----------------------------------------------------------------------------
(* Discovery: what a list holds besides the configured URIs.               *)
OnlyURIs == \A i \in DOMAIN dsns : dsns[i].form \in {"uri", "escaped"}

Legitimate(d) ==
  /\ d.database \notin excluded
  /\ \E i \in DOMAIN dsns : Fingerprint(d) = Fingerprint(dsns[i])

DiscoveryInv(n) ==
  pc[n] \in {"discover", "scrape"} =>
    /\ pc[n] = "discover" => /\ asked[n] \subseteq Range(dsns)
                             /\ Range(dsns) \subseteq list[n] \cup asked[n]
    /\ pc[n] = "scrape" => Range(dsns) \subseteq list[n]
    /\ \A d \in list[n] \ Range(dsns) : Legitimate(d)

AllDiscovery == OnlyURIs => \A n \in Scrape : DiscoveryInv(n)

\* A DSN that discovery makes of a configured URI is of the same server.
LEMMA DiscoveredLegitimate ==
  ASSUME OnlyURIs, NEW i \in DOMAIN dsns, NEW names \in SUBSET Database,
         dsns \in Seq(Dsn), NEW e \in DiscoveredFrom(dsns[i], names), e # dsns[i]
  PROVE  Legitimate(e)
<1>1. PICK name \in names \ excluded : e = WithPath(dsns[i], name)
  BY DEF DiscoveredFrom
<1>2. dsns[i] \in Dsn /\ dsns[i].form \in {"uri", "escaped"}
  BY DEF OnlyURIs
<1>3. e = [dsns[i] EXCEPT !.form = "uri", !.database = name]
  BY <1>1, <1>2 DEF WithPath
<1>4. e.host = dsns[i].host /\ e.port = dsns[i].port /\ e.database = name
  BY <1>2, <1>3 DEF Dsn
<1>. QED  BY <1>1, <1>4 DEF Legitimate, Fingerprint

\* No scrape has a list when the process starts.
LEMMA DiscoveryInvInit == Init => AllDiscovery
  BY DEF Init, CollectInit, AllDiscovery, DiscoveryInv

\* While discovery goes on, every configured URI is in the list or yet to be
\* asked, and what is in the list besides is legitimate.
LEMMA DiscoveryInvNext == Inv /\ AllDiscovery /\ [Next]_vars => AllDiscovery'
<1>. SUFFICES ASSUME Inv, AllDiscovery, [Next]_vars, OnlyURIs', NEW n \in Scrape,
                     pc'[n] \in {"discover", "scrape"}
              PROVE  DiscoveryInv(n)'
  BY DEF AllDiscovery, DiscoveryInv
<1>0. /\ ScrapeTypes /\ dsns \in Seq(Dsn) /\ ListInv(n)
      /\ main = "start" => pc[n] = "idle"
  BY DEF Inv, ScrapesInv, MainTypes, MainInv, ListInv, Scrape
<1>1. CASE GetDataSources /\ UNCHANGED <<collect, forwarder>>
  BY <1>0, <1>1 DEF GetDataSources, collect
<1>2. ASSUME UNCHANGED config
      PROVE  OnlyURIs /\ (DiscoveryInv(n) \/ pc[n] \notin {"discover", "scrape"})
  BY <1>2 DEF OnlyURIs, config, AllDiscovery
<1>3. ASSUME UNCHANGED <<config, pc, asked, list>>
      PROVE  DiscoveryInv(n)'
  BY <1>2, <1>3 DEF DiscoveryInv, Legitimate, config
<1>4. CASE MainStep /\ ~DescribeCollects
  <2>1. CASE StartupStep /\ UNCHANGED <<collect, forwarder>>
    <3>1. GetDataSources \/ UNCHANGED config
      BY <2>1 DEF StartupStep, DumpMaps, WaitForDatabaseReadiness, Connects,
                  ConnectFails, PingSucceeds, ReadinessPingFails, Listen
    <3>2. UNCHANGED <<pc, asked, list>>
      BY <2>1 DEF collect
    <3>. QED  BY <1>1, <1>3, <2>1, <3>1, <3>2
  <2>2. CASE Describe \/ CloseMetricCh \/ DescribeReturns
    <3>1. UNCHANGED config /\ UNCHANGED collect
      BY <2>2 DEF Describe, CloseMetricCh, DescribeReturns
    <3>2. UNCHANGED <<pc, asked, list>>
      BY <3>1 DEF collect
    <3>. QED  BY <1>3, <3>1, <3>2
  <2>. QED  BY <1>4, <2>1, <2>2 DEF MainStep
<1>5. CASE ForwarderStep
  BY <1>3, <1>5 DEF ForwarderStep, Forward, ForwarderEnds, startup, collect
<1>6. CASE UNCHANGED vars
  BY <1>3, <1>6 DEF vars, startup, collect
<1>7. ASSUME NEW m \in Scrape, BeginScrape(m), UNCHANGED startup
      PROVE  DiscoveryInv(n)'
  <2>1. UNCHANGED config
    BY <1>7 DEF startup
  <2>2. CASE m # n
    BY <1>0, <1>2, <1>7, <2>1, <2>2
    DEF BeginScrape, ScrapeTypes, DiscoveryInv, Legitimate, config
  <2>3. CASE m = n
    <3>1. list[n] = {}
      BY <1>0, <1>7, <2>3 DEF BeginScrape, ScrapeTypes, ListInv, Scrape
    <3>2. CASE autoDiscover
      <4>1. pc'[n] = "discover" /\ asked'[n] = Range(dsns) /\ list'[n] = {}
        BY <1>0, <1>7, <2>3, <3>1, <3>2 DEF BeginScrape, ScrapeTypes
      <4>. QED  BY <2>1, <4>1 DEF DiscoveryInv, config
    <3>3. CASE ~autoDiscover
      <4>1. pc'[n] = "scrape" /\ list'[n] = Range(dsns)
        BY <1>0, <1>7, <2>3, <3>1, <3>3 DEF BeginScrape, ScrapeTypes
      <4>. QED  BY <2>1, <4>1 DEF DiscoveryInv, config
    <3>. QED  BY <3>2, <3>3
  <2>. QED  BY <2>2, <2>3
<1>8. ASSUME NEW m \in Scrape, ScrapeStep(m)
      PROVE  DiscoveryInv(n)'
  <2>1. UNCHANGED config
    BY <1>8 DEF ScrapeStep, startup
  <2>2. ASSUME NEW d \in asked[m], Discover(m, d)
        PROVE  DiscoveryInv(n)'
    <3>1. CASE m # n
      BY <1>0, <1>2, <2>1, <2>2, <3>1
      DEF Discover, ScrapeTypes, DiscoveryInv, Legitimate, config
    <3>2. CASE m = n
      <4>1. OnlyURIs /\ DiscoveryInv(n) /\ pc[n] = "discover"
        BY <1>2, <2>1, <2>2, <3>2 DEF Discover
      <4>2. PICK i \in DOMAIN dsns : d = dsns[i]
        BY <2>2, <3>2, <4>1 DEF DiscoveryInv, Range
      <4>3. UrlParses(d)
        BY <4>1, <4>2 DEF OnlyURIs, UrlParses
      <4>4. PICK names \in SUBSET Database :
              list'[n] = list[n] \cup DiscoveredFrom(d, names)
        BY <1>0, <2>2, <3>2, <4>3 DEF Discover, ScrapeTypes
      <4>5. asked'[n] = asked[n] \ {d} /\ pc'[n] = "discover"
        BY <1>0, <2>2, <3>2, <4>1 DEF Discover, ScrapeTypes
      <4>6. d \in list'[n] /\ d \in Range(dsns)
        BY <4>2, <4>4 DEF DiscoveredFrom, Range
      <4>7. ASSUME NEW e \in list'[n] \ Range(dsns)
            PROVE  Legitimate(e)
        BY <1>0, <4>1, <4>2, <4>4, <4>6, <4>7, DiscoveredLegitimate DEF DiscoveryInv
      <4>. QED  BY <2>1, <4>1, <4>4, <4>5, <4>6, <4>7 DEF DiscoveryInv, Legitimate, config
    <3>. QED  BY <3>1, <3>2
  <2>3. CASE Discovered(m)
    BY <1>0, <1>2, <2>1, <2>3 DEF Discovered, ScrapeTypes, DiscoveryInv, Legitimate, config
  <2>4. CASE \E d \in todo[m], outcome \in Outcome : ScrapeDSN(m, d, outcome)
    BY <1>3, <2>1, <2>4 DEF ScrapeDSN
  <2>5. CASE SetUp(m)
    BY <1>0, <1>2, <2>1, <2>5 DEF SetUp, ScrapeTypes, DiscoveryInv, Legitimate, config
  <2>6. CASE SetError(m)
    BY <1>0, <1>2, <2>1, <2>6
    DEF SetError, ScrapeReturns, ScrapeTypes, DiscoveryInv, Legitimate, config
  <2>7. CASE SendGauge(m)
    BY <1>0, <1>2, <2>1, <2>7 DEF SendGauge, ScrapeTypes, DiscoveryInv, Legitimate, config
  <2>. QED  BY <1>8, <2>2, <2>3, <2>4, <2>5, <2>6, <2>7 DEF ScrapeStep, CollectStep, Outcome
<1>. QED
  <2>1. CASE DescribeCollects
    <3>1. 1 \in Scrape
      BY MaxScrapesAssumption DEF Scrape
    <3>. QED  BY <1>7, <2>1, <3>1 DEF DescribeCollects
  <2>2. CASE Request
    BY <1>7, <2>2 DEF Request
  <2>. QED  BY <1>4, <1>5, <1>6, <1>8, <2>1, <2>2 DEF Next

\* With configured URIs only, a scrape's list holds all of them, and besides
\* them only databases, not excluded, of their servers (exporter.go:246-285).
THEOREM DiscoveryStaysOnServers == Spec => []DiscoveryOnServers
<1>1. Inv /\ AllDiscovery => DiscoveryOnServers
  BY DEF AllDiscovery, DiscoveryInv, DiscoveryOnServers, OnlyURIs, Legitimate
<1>2. Spec => []AllDiscovery
  BY Invariance, DiscoveryInvInit, DiscoveryInvNext, PTL DEF Spec
<1>. QED  BY <1>1, <1>2, Invariance, PTL
============================================================================
