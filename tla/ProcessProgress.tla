--------------------------- MODULE ProcessProgress -------------------------
(***************************************************************************)
(* What makes main come to serve and a Collect return, stated without      *)
(* fairness: who goes on while Describe waits, and how much is left to do. *)
(***************************************************************************)
EXTENDS Process

\* Describe, its forwarder and the Collect between them, over a channel without
\* a buffer and one that is closed, never all wait: one of them has a step.
DescribeNotStuck ==
  main \in {"describe", "described"} =>
    \/ main = "describe" /\ totalScrapes = 0
    \/ main = "describe" /\ pc[1] = "returned"
    \/ main = "described" /\ forwarder \in {"receiving", "done"}
    \/ forwarder = "holding"
    \/ forwarder = "receiving" /\ pc[1] \notin {"idle", "returned"}

----------------------------------------------------------------------------
\* Steps that main has left, at most two of them for each attempt.
MainLeft ==
  CASE main = "start"      -> 2 * LastAttempt + 10
    [] main = "configured" -> 2 * LastAttempt + 9
    [] main = "sleep"      -> 2 * (LastAttempt - attempt) + 8
    [] main = "ping"       -> 2 * (LastAttempt - attempt) + 7
    [] main = "register"   -> 6
    [] main = "describe"   -> IF totalScrapes = 0 THEN 5 ELSE 4
    [] main = "described"  -> 3
    [] main = "listen"     -> 2
    [] OTHER               -> 0

\* The loops of scrape have a DSN less to do each time round; between them, and
\* after them, the stages come one after another.
StagesLeft(n) ==
  CASE pc[n] = "idle" -> 6     [] pc[n] = "discover" -> 5    [] pc[n] = "scrape" -> 4
    [] pc[n] = "scraped" -> 3  [] pc[n] = "send_error" -> 2  [] pc[n] = "send_up" -> 1
    [] OTHER -> 0
DsnsLeft(n) == Cardinality(asked[n]) + Cardinality(todo[n])

Nearer(n) ==
  \/ StagesLeft(n)' < StagesLeft(n)
  \/ StagesLeft(n)' = StagesLeft(n) /\ DsnsLeft(n)' < DsnsLeft(n)

\* Whatever DSNs discovery adds, whatever fails, and however requests overlap:
\* each step takes main, or its scrape, nearer to the end, and none takes
\* another scrape or main farther from it.
ProcessAdvances ==
  [][/\ MainStep => MainLeft' < MainLeft
     /\ ~MainStep => MainLeft' = MainLeft
     /\ \A n \in Scrape :
          /\ ScrapeStep(n) => Nearer(n)
          /\ Nearer(n) \/ UNCHANGED <<StagesLeft(n), DsnsLeft(n)>>]_vars
============================================================================
