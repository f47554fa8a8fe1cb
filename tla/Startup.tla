------------------------------ MODULE Startup ------------------------------
(***************************************************************************)
(* The main goroutine: main() up to the HTTP server, with                  *)
(* WaitForDatabaseReadiness.  MustRegister describes the exporter: module  *)
(* Process.                                                                *)
(***************************************************************************)
EXTENDS DataSources

CONSTANTS
  LastAttempt,      \* the readiness loop's last index, 60 in the code
  Environment       \* environment variables and flags to be started with

ASSUME StartupAssumption ==
  /\ LastAttempt \in Nat
  /\ \A env \in Environment :
       /\ env.name \in Seq(Dsn) /\ env.uri \in Dsn /\ env.hostname \in Host
       /\ env.autoDiscover \in BOOLEAN /\ env.excluded \subseteq Database

VARIABLES
  main,             \* position of the main goroutine
  dsns,             \* e.dsn
  autoDiscover,     \* e.autoDiscoverDatabases
  excluded,         \* e.excludeDatabases
  attempt,          \* i of the readiness loop
  waiting,          \* connections of WaitForDatabaseReadiness still open
  answered          \* has a readiness ping succeeded?

config == <<dsns, autoDiscover, excluded>>
startup == <<main, config, attempt, waiting, answered>>

StartupInit ==
  /\ main = "start" /\ dsns = <<>> /\ autoDiscover = FALSE /\ excluded = {}
  /\ attempt = 0 /\ waiting = 0 /\ answered = FALSE

\* PrintExporterMaps, return.
DumpMaps ==
  /\ main = "start" /\ \E env \in Environment : env.onlyDumpMaps
  /\ main' = "exited"
  /\ UNCHANGED <<config, attempt, waiting, answered>>

GetDataSources ==
  /\ main = "start"
  /\ \E env \in Environment :
       /\ ~env.onlyDumpMaps
       /\ IF Panics(env)
            THEN main' = "crashed" /\ UNCHANGED config
            ELSE /\ main' = "configured"
                 /\ dsns' = DataSources(env)
                 /\ autoDiscover' = env.autoDiscover /\ excluded' = env.excluded
  /\ UNCHANGED <<attempt, waiting, answered>>

\* pgx.ParseConfig of the first DSN; its error is fatal to main.
WaitForDatabaseReadiness ==
  /\ main = "configured"
  /\ main' = IF ConfigParses(dsns[1]) THEN "sleep" ELSE "exited"
  /\ UNCHANGED <<config, attempt, waiting, answered>>

SameAttempt == UNCHANGED attempt /\ main' = "sleep"

\* i > 60 is an error, at either place that tests it; otherwise continue, and
\* out of the loop after its last round, to return nil.
NextAttempt ==
  /\ attempt' = attempt + 1
  /\ main' = IF attempt > LastAttempt THEN "exited"
             ELSE IF attempt < LastAttempt THEN "sleep" ELSE "register"

Connects ==
  /\ main = "sleep"
  /\ main' = "ping" /\ waiting' = waiting + 1
  /\ UNCHANGED <<config, attempt, answered>>

ConnectFails ==
  /\ main = "sleep"
  /\ NextAttempt
  /\ UNCHANGED <<config, waiting, answered>>

\* break; nobody closes the connection.
PingSucceeds ==
  /\ main = "ping"
  /\ main' = "register" /\ answered' = TRUE
  /\ UNCHANGED <<config, attempt, waiting>>

PingFailsUnclosed ==
  /\ main = "ping"
  /\ NextAttempt
  /\ UNCHANGED <<config, waiting, answered>>

ReadinessPingFails ==
  /\ main = "ping"
  /\ waiting' = waiting - 1
  /\ NextAttempt
  /\ UNCHANGED <<config, answered>>

\* http.ListenAndServe, which returns only when it cannot listen.
Listen ==
  /\ main = "listen"
  /\ main' \in {"serve", "exited"}
  /\ UNCHANGED <<config, attempt, waiting, answered>>

StartupStep ==
  \/ DumpMaps \/ GetDataSources \/ WaitForDatabaseReadiness \/ Connects
  \/ ConnectFails \/ PingSucceeds \/ ReadinessPingFails \/ Listen
============================================================================
