------------------------ MODULE ProcessProgressProofs ----------------------
(***************************************************************************)
(* Why main comes to serve and every Collect returns, for any environment, *)
(* any number of attempts and any number of scrapes.                       *)
(***************************************************************************)
EXTENDS ProcessProofs, ProcessProgress

----------------------------------------------------------------------------
(* Describe and its forwarder.                                             *)

\* A scrape that has begun is not idle again, and the forwarder takes what is
\* sent until the channel is closed.
DescribeInv ==
  /\ main \in {"describe", "described"} => forwarder # "none"
  /\ main = "describe" => forwarder # "done"
  /\ \A n \in Scrape : n <= totalScrapes => pc[n] # "idle"

\* Nothing has begun.
LEMMA DescribeInit == Init => DescribeInv
  BY DEF Init, StartupInit, CollectInit, DescribeInv, Scrape

\* Main's steps, the forwarder's, and a scrape's.
LEMMA DescribeStep == Inv /\ DescribeInv /\ [Next]_vars => DescribeInv'
<1>. SUFFICES ASSUME Inv, DescribeInv, [Next]_vars PROVE DescribeInv'
  OBVIOUS
<1>0. ScrapeTypes /\ MainTypes
  BY DEF Inv, ScrapesInv
<1>1. CASE StartupStep /\ UNCHANGED <<collect, forwarder>>
  <2>1. UNCHANGED <<totalScrapes, pc, forwarder>>
    BY <1>1 DEF collect
  <2>2. main' \notin {"describe", "described"}
    BY <1>1, <1>0
    DEF StartupStep, DumpMaps, GetDataSources, WaitForDatabaseReadiness, Connects,
        ConnectFails, NextAttempt, PingSucceeds, ReadinessPingFails, Listen
  <2>. QED  BY <2>1, <2>2 DEF DescribeInv
<1>2. CASE Describe \/ CloseMetricCh \/ DescribeReturns
  <2>1. UNCHANGED <<totalScrapes, pc>>
    BY <1>2 DEF Describe, CloseMetricCh, DescribeReturns, collect
  <2>. QED  BY <1>2, <2>1 DEF Describe, CloseMetricCh, DescribeReturns, DescribeInv
<1>3. CASE ForwarderStep
  <2>1. UNCHANGED <<main, totalScrapes, pc>>
    BY <1>3 DEF ForwarderStep, Forward, ForwarderEnds, startup, collect
  <2>. QED  BY <1>3, <2>1 DEF ForwarderStep, Forward, ForwarderEnds, DescribeInv
<1>4. ASSUME NEW n \in Scrape, BeginScrape(n), UNCHANGED startup
      PROVE  DescribeInv'
  <2>1. UNCHANGED <<main, forwarder>> /\ totalScrapes' = n /\ n = totalScrapes + 1
    BY <1>4 DEF BeginScrape, startup
  <2>2. \A m \in Scrape : pc'[m] = pc[m] \/ pc'[m] # "idle"
    BY <1>0, <1>4 DEF BeginScrape, ScrapeTypes
  <2>3. pc'[n] # "idle"
    BY <1>0, <1>4 DEF BeginScrape, ScrapeTypes
  <2>4. \A m \in Scrape : m <= totalScrapes' => m <= totalScrapes \/ m = n
    BY <1>0, <2>1 DEF ScrapeTypes, Scrape
  <2>. QED  BY <2>1, <2>2, <2>3, <2>4 DEF DescribeInv
<1>5. ASSUME NEW n \in Scrape, ScrapeStep(n)
      PROVE  DescribeInv'
  <2>1. UNCHANGED <<main, totalScrapes>> /\ (UNCHANGED forwarder \/ forwarder' = "holding")
    BY <1>5
    DEF ScrapeStep, CollectStep, Discover, Discovered, ScrapeDSN, SetUp, SetError,
        ScrapeReturns, SendGauge, Send, startup
  <2>2. \A m \in Scrape : pc'[m] = pc[m] \/ pc'[m] # "idle"
    BY <1>0, <1>5
    DEF ScrapeStep, CollectStep, Discover, Discovered, ScrapeDSN, SetUp, SetError,
        ScrapeReturns, SendGauge, ScrapeTypes
  <2>. QED  BY <2>1, <2>2 DEF DescribeInv
<1>6. CASE UNCHANGED vars
  BY <1>6 DEF vars, startup, collect, DescribeInv
<1>7. 1 \in Scrape
  BY MaxScrapesAssumption DEF Scrape
<1>. QED
  BY <1>1, <1>2, <1>3, <1>4, <1>5, <1>6, <1>7 DEF Next, MainStep, DescribeCollects, Request

\* Describe (exporter.go:100-123) does not get stuck on its channels, whatever the
\* scrape in it sends.
THEOREM DescribeRuns == Spec => []DescribeNotStuck
<1>1. Inv /\ DescribeInv => DescribeNotStuck
  <2>. SUFFICES ASSUME Inv, DescribeInv, main \in {"describe", "described"},
                       ~(main = "describe" /\ totalScrapes = 0), forwarder # "holding"
                PROVE  \/ main = "describe" /\ pc[1] = "returned"
                       \/ main = "described" /\ forwarder \in {"receiving", "done"}
                       \/ forwarder = "receiving" /\ pc[1] \notin {"idle", "returned"}
    BY DEF DescribeNotStuck
  <2>1. forwarder \in {"receiving", "done"}
    BY DEF Inv, MainTypes, DescribeInv
  <2>2. CASE main = "describe"
    <3>1. forwarder = "receiving"
      BY <2>1, <2>2 DEF DescribeInv
    <3>2. 1 \in Scrape /\ 1 <= totalScrapes
      BY <2>2, MaxScrapesAssumption DEF Inv, ScrapesInv, ScrapeTypes, Scrape
    <3>. QED  BY <2>2, <3>1, <3>2 DEF DescribeInv
  <2>. QED  BY <2>1, <2>2
<1>2. Spec => []DescribeInv
  BY Invariance, DescribeInit, DescribeStep, PTL DEF Spec
<1>. QED  BY <1>1, <1>2, Invariance, PTL

----------------------------------------------------------------------------
(* What is left to do.                                                     *)

\* The configured DSNs that discovery has yet to ask are finitely many.
AskedInv == \A n \in Scrape : IsFiniteSet(asked[n])

\* There are none at first.
LEMMA AskedInit == Init => AskedInv
  BY FS_EmptySet DEF Init, CollectInit, AskedInv

\* Then the configured ones, and fewer with each round.
LEMMA AskedStep == Inv /\ AskedInv /\ [Next]_vars => AskedInv'
<1>. SUFFICES ASSUME Inv, AskedInv, [Next]_vars, NEW n \in Scrape
             PROVE  IsFiniteSet(asked'[n])
  BY DEF AskedInv
<1>0. asked \in [Scrape -> SUBSET Dsn] /\ IsFiniteSet(asked[n]) /\ IsFiniteSet(Range(dsns))
  BY RangeFinite DEF Inv, MainTypes, ScrapesInv, ScrapeTypes, AskedInv
<1>1. CASE asked'[n] \subseteq asked[n]
  BY <1>0, <1>1, FS_Subset
<1>2. CASE asked'[n] = Range(dsns)
  BY <1>0, <1>2
<1>3. ASSUME NEW m \in Scrape, BeginScrape(m)
      PROVE  asked'[n] \subseteq asked[n] \/ asked'[n] = Range(dsns)
  BY <1>0, <1>3 DEF BeginScrape
<1>4. ASSUME NEW m \in Scrape, ScrapeStep(m)
      PROVE  asked'[n] \subseteq asked[n]
  BY <1>0, <1>4
  DEF ScrapeStep, CollectStep, Discover, Discovered, ScrapeDSN, SetUp, SetError,
      ScrapeReturns, SendGauge
<1>5. CASE \/ ForwarderStep \/ UNCHANGED vars \/ Describe \/ CloseMetricCh
           \/ DescribeReturns \/ (StartupStep /\ UNCHANGED <<collect, forwarder>>)
  <2>1. UNCHANGED collect
    BY <1>5 DEF ForwarderStep, Forward, ForwarderEnds, vars, Describe, CloseMetricCh,
                DescribeReturns
  <2>. QED  BY <1>1, <2>1 DEF collect
<1>6. 1 \in Scrape
  BY MaxScrapesAssumption DEF Scrape
<1>. QED
  BY <1>1, <1>2, <1>3, <1>4, <1>5, <1>6 DEF Next, MainStep, DescribeCollects, Request

\* The stages of a scrape.
LEMMA Stages ==
  ASSUME NEW n \in Scrape
  PROVE  /\ pc[n] = "idle"       => StagesLeft(n) = 6
         /\ pc[n] = "discover"   => StagesLeft(n) = 5
         /\ pc[n] = "scrape"     => StagesLeft(n) = 4
         /\ pc[n] = "scraped"    => StagesLeft(n) = 3
         /\ pc[n] = "send_error" => StagesLeft(n) = 2
         /\ pc[n] = "send_up"    => StagesLeft(n) = 1
         /\ pc'[n] = "discover"   => StagesLeft(n)' = 5
         /\ pc'[n] = "scrape"     => StagesLeft(n)' = 4
         /\ pc'[n] = "scraped"    => StagesLeft(n)' = 3
         /\ pc'[n] = "send_error" => StagesLeft(n)' = 2
         /\ pc'[n] = "send_up"    => StagesLeft(n)' = 1
         /\ pc'[n] = "returned"   => StagesLeft(n)' = 0
  BY DEF StagesLeft

\* Each step of a scrape takes it nearer to its return.
LEMMA ScrapeNearer ==
  ASSUME Inv, AskedInv, NEW n \in Scrape, ScrapeStep(n)
  PROVE  Nearer(n)
<1>0. /\ pc \in [Scrape -> Position] /\ asked \in [Scrape -> SUBSET Dsn]
      /\ todo \in [Scrape -> SUBSET Dsn] /\ IsFiniteSet(asked[n]) /\ IsFiniteSet(todo[n])
  BY FS_Subset DEF Inv, ScrapesInv, ScrapeTypes, ListInv, AskedInv
<1>1. Cardinality(asked[n]) \in Nat /\ Cardinality(todo[n]) \in Nat
  BY <1>0, FS_CardinalityType
<1>2. ASSUME NEW d \in asked[n], Discover(n, d)
      PROVE  Nearer(n)
  <2>1. /\ pc[n] = "discover" /\ pc'[n] = "discover"
        /\ asked'[n] = asked[n] \ {d} /\ todo'[n] = todo[n]
    BY <1>0, <1>2 DEF Discover
  <2>2. Cardinality(asked[n] \ {d}) = Cardinality(asked[n]) - 1
    BY <1>0, FS_RemoveElement
  <2>3. DsnsLeft(n)' < DsnsLeft(n)
    BY <1>1, <2>1, <2>2 DEF DsnsLeft
  <2>. QED  BY <2>1, <2>3, Stages DEF Nearer
<1>3. ASSUME NEW d \in todo[n], NEW outcome \in Outcome, ScrapeDSN(n, d, outcome)
      PROVE  Nearer(n)
  <2>1. /\ pc[n] = "scrape" /\ pc'[n] = "scrape"
        /\ todo'[n] = todo[n] \ {d} /\ asked'[n] = asked[n]
    BY <1>0, <1>3 DEF ScrapeDSN
  <2>2. Cardinality(todo[n] \ {d}) = Cardinality(todo[n]) - 1
    BY <1>0, FS_RemoveElement
  <2>3. DsnsLeft(n)' < DsnsLeft(n)
    BY <1>1, <2>1, <2>2 DEF DsnsLeft
  <2>. QED  BY <2>1, <2>3, Stages DEF Nearer
<1>4. CASE Discovered(n) \/ SetUp(n) \/ SetError(n) \/ SendGauge(n)
  <2>1. \/ pc[n] = "discover"   /\ pc'[n] = "scrape"
        \/ pc[n] = "scrape"     /\ pc'[n] = "scraped"
        \/ pc[n] = "scraped"    /\ pc'[n] = "send_error"
        \/ pc[n] = "send_error" /\ pc'[n] = "send_up"
        \/ pc[n] = "send_up"    /\ pc'[n] = "returned"
    BY <1>0, <1>4 DEF Discovered, SetUp, SetError, ScrapeReturns, SendGauge
  <2>. QED  BY <2>1, Stages DEF Nearer
<1>. QED  BY <1>2, <1>3, <1>4 DEF ScrapeStep, CollectStep, Outcome

\* A step of another scrape does not concern this one; that it begins is a step.
LEMMA OthersUnchanged ==
  ASSUME Inv, NEW n \in Scrape,
         \/ \E m \in Scrape \ {n} : ScrapeStep(m)
         \/ \E m \in Scrape : BeginScrape(m)
         \/ UNCHANGED collect
  PROVE  Nearer(n) \/ UNCHANGED <<StagesLeft(n), DsnsLeft(n)>>
<1>0. /\ pc \in [Scrape -> Position] /\ asked \in [Scrape -> SUBSET Dsn]
      /\ todo \in [Scrape -> SUBSET Dsn]
  BY DEF Inv, ScrapesInv, ScrapeTypes
<1>1. ASSUME pc'[n] = pc[n], asked'[n] = asked[n], todo'[n] = todo[n]
      PROVE  UNCHANGED <<StagesLeft(n), DsnsLeft(n)>>
  BY <1>1 DEF StagesLeft, DsnsLeft
<1>2. CASE BeginScrape(n)
  <2>1. ListInv(n) /\ totalScrapes \in Nat
    BY DEF Inv, ScrapesInv, ScrapeTypes
  <2>2. pc[n] = "idle"
    BY <1>2, <2>1 DEF BeginScrape, ListInv
  <2>3. pc'[n] \in {"discover", "scrape"}
    BY <1>0, <1>2 DEF BeginScrape
  <2>. QED  BY <2>2, <2>3, Stages DEF Nearer
<1>3. CASE \E m \in Scrape \ {n} : BeginScrape(m)
  BY <1>0, <1>1, <1>3 DEF BeginScrape
<1>4. CASE \E m \in Scrape \ {n} : ScrapeStep(m)
  BY <1>0, <1>1, <1>4
  DEF ScrapeStep, CollectStep, Discover, Discovered, ScrapeDSN, SetUp, SetError,
      ScrapeReturns, SendGauge
<1>5. CASE UNCHANGED collect
  BY <1>1, <1>5 DEF collect
<1>. QED  BY <1>2, <1>3, <1>4, <1>5

\* Each step of main has fewer after it.
LEMMA MainNearer ==
  ASSUME Inv, MainStep
  PROVE  MainLeft' < MainLeft
<1>0. /\ MainInv /\ attempt \in Nat /\ LastAttempt \in Nat /\ totalScrapes \in Nat
  BY StartupAssumption DEF Inv, MainTypes, ScrapesInv, ScrapeTypes
<1>. USE <1>0 DEF MainLeft
<1>1. CASE DumpMaps \/ GetDataSources \/ WaitForDatabaseReadiness
  <2>1. attempt' = attempt /\ attempt <= LastAttempt
    BY <1>1 DEF DumpMaps, GetDataSources, WaitForDatabaseReadiness, MainInv
  <2>2. attempt = 0 \/ attempt > 0
    OBVIOUS
  <2>. QED  BY <1>1, <2>1, <2>2 DEF DumpMaps, GetDataSources, WaitForDatabaseReadiness
<1>2. CASE Connects \/ PingSucceeds
  BY <1>2 DEF Connects, PingSucceeds, MainInv
<1>3. CASE ConnectFails \/ ReadinessPingFails
  BY <1>3 DEF ConnectFails, ReadinessPingFails, NextAttempt, MainInv
<1>4. CASE Listen
  BY <1>4 DEF Listen
<1>5. CASE Describe \/ CloseMetricCh \/ DescribeReturns
  <2>1. main = "describe" /\ pc[1] = "returned" => totalScrapes # 0
    BY MaxScrapesAssumption DEF Inv, ScrapesInv, ListInv, Scrape
  <2>. QED  BY <1>5, <2>1 DEF Describe, CloseMetricCh, DescribeReturns, collect
<1>6. CASE DescribeCollects
  BY <1>6 DEF DescribeCollects, BeginScrape, startup
<1>. QED  BY <1>1, <1>2, <1>3, <1>4, <1>5, <1>6 DEF MainStep, StartupStep

\* What is not a step of main does not concern it.
LEMMA MainUnchanged ==
  ASSUME [Next]_vars, ~MainStep
  PROVE  MainLeft' = MainLeft
<1>1. UNCHANGED <<main, attempt>> /\ (UNCHANGED totalScrapes \/ main = "serve")
  BY DEF Next, vars, ForwarderStep, Forward, ForwarderEnds, Request, ScrapeStep,
         CollectStep, Discover, Discovered, ScrapeDSN, SetUp, SetError, ScrapeReturns,
         SendGauge, startup, collect
<1>. QED  BY <1>1 DEF MainLeft

\* Starting up takes at most two steps for each readiness attempt and ten more, a
\* Collect takes one for each DSN it asks and each it scrapes and five more, and
\* nothing that overlaps adds to either
\* (main.go:36-93, utils.go:328-359, exporter.go:89-123, :204-285).
THEOREM Advances == Spec => ProcessAdvances
<1>1. ASSUME Inv, AskedInv, [Next]_vars
      PROVE  /\ MainStep => MainLeft' < MainLeft
             /\ ~MainStep => MainLeft' = MainLeft
             /\ \A n \in Scrape :
                  /\ ScrapeStep(n) => Nearer(n)
                  /\ Nearer(n) \/ UNCHANGED <<StagesLeft(n), DsnsLeft(n)>>
  <2>1. (MainStep => MainLeft' < MainLeft) /\ (~MainStep => MainLeft' = MainLeft)
    BY <1>1, MainNearer, MainUnchanged
  <2>2. ASSUME NEW n \in Scrape
        PROVE  /\ ScrapeStep(n) => Nearer(n)
               /\ Nearer(n) \/ UNCHANGED <<StagesLeft(n), DsnsLeft(n)>>
    <3>1. CASE ScrapeStep(n)
      BY <1>1, <3>1, ScrapeNearer
    <3>2. CASE MainStep \/ ForwarderStep \/ Request \/ UNCHANGED vars
      <4>1. 1 \in Scrape
        BY MaxScrapesAssumption DEF Scrape
      <4>2. UNCHANGED collect \/ \E m \in Scrape : BeginScrape(m)
        BY <3>2, <4>1
        DEF MainStep, Describe, DescribeCollects, CloseMetricCh, DescribeReturns,
            ForwarderStep, Forward, ForwarderEnds, Request, vars
      <4>3. Nearer(n) \/ UNCHANGED <<StagesLeft(n), DsnsLeft(n)>>
        BY <1>1, <4>2, OthersUnchanged
      <4>. QED  BY <3>1, <4>3
    <3>3. CASE \E m \in Scrape \ {n} : ScrapeStep(m)
      BY <1>1, <3>1, <3>3, OthersUnchanged
    <3>. QED  BY <1>1, <3>1, <3>2, <3>3 DEF Next
  <2>. QED  BY <2>1, <2>2
<1>2. Spec => []AskedInv
  BY Invariance, AskedInit, AskedStep, PTL DEF Spec
<1>3. Inv /\ AskedInv /\ [Next]_vars =>
        [/\ MainStep => MainLeft' < MainLeft
         /\ ~MainStep => MainLeft' = MainLeft
         /\ \A n \in Scrape :
              /\ ScrapeStep(n) => Nearer(n)
              /\ Nearer(n) \/ UNCHANGED <<StagesLeft(n), DsnsLeft(n)>>]_vars
  BY <1>1
<1>. QED  BY <1>2, <1>3, Invariance, PTL DEF Spec, ProcessAdvances
============================================================================
