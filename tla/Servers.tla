------------------------------ MODULE Servers ------------------------------
(***************************************************************************)
(* Servers.GetServer, NewServer and Server.Ping, and the one caller of     *)
(* GetServer besides scrapeDSN: discoverDatabaseDSNs with queryDatabases.  *)
(* Servers.m is held from the lookup until after the Ping, across both     *)
(* network calls, so one slow database delays the scrapes of all.          *)
(***************************************************************************)
EXTENDS ExporterState

\* Collect's loop, or discoverDatabaseDSNs', reaches the DSN d.
Begin(t, d) ==
  /\ pc[t] = "idle"
  /\ Goto(t, "get")
  /\ dsn' = [dsn EXCEPT ![t] = d]
  /\ UNCHANGED <<serversVars, conns, mapVars, lockVars, envVars,
                 srv, ver, read, todo, failed>>

Unguarded == TRUE
ServersUnlocked == mutex = None

\* s.m.Lock() and the lookup of the DSN.
LockServers(t) ==
  /\ pc[t] = "get"
  /\ ServersUnlocked
  /\ mutex' = t
  /\ IF registry[dsn[t]] = None
       THEN Goto(t, "connect") /\ UNCHANGED srv
       ELSE /\ Goto(t, "pingAcquire")
            /\ srv' = [srv EXCEPT ![t] = registry[dsn[t]]]
  /\ UNCHANGED <<registry, created, conns, mapVars, lockVars, envVars,
                 dsn, ver, read, todo, failed>>

\* NewServer succeeds and its result is entered under the DSN.
NewServer(t, i) ==
  /\ pc[t] = "connect"
  /\ i \notin created
  /\ created' = created \cup {i}
  /\ registry' = [registry EXCEPT ![dsn[t]] = i]
  /\ srv' = [srv EXCEPT ![t] = i]
  /\ Goto(t, "pingAcquire")
  /\ UNCHANGED <<mutex, conns, mapVars, lockVars, envVars,
                 dsn, ver, read, todo, failed>>

\* NewServer fails: GetServer, and with it scrapeDSN, returns the error.
NewServerFails(t) ==
  /\ pc[t] = "connect"
  /\ mutex' = None
  /\ Return(t)
  /\ UNCHANGED <<registry, created, conns, mapVars, lockVars, envVars>>

\* The second ping is answered; connection and Servers.m are given back.
PingAnswered(t) ==
  /\ pc[t] = "ping"
  /\ Release(t)
  /\ mutex' = None
  /\ Goto(t, "got")
  /\ UNCHANGED <<registry, created, mapVars, lockVars, envVars, frameVars>>

\* Ping has no connection or no answer: the entry is deleted, its pool stays
\* open, and GetServer returns the error.
PingFails(t) ==
  /\ pc[t] = "ping" \/ (pc[t] = "pingAcquire" /\ AcquireFails(t))
  /\ Release(t)
  /\ registry' = [registry EXCEPT ![dsn[t]] = None]
  /\ mutex' = None
  /\ Return(t)
  /\ UNCHANGED <<created, mapVars, lockVars, envVars>>

\* GetServer returned: its caller goes on to checkMapVersions, or to
\* queryDatabases when it is discoverDatabaseDSNs.
GotServer(t) ==
  /\ pc[t] = "got"
  /\ \/ Goto(t, "versionAcquire")
     \/ AutoDiscoverDatabases /\ Goto(t, "listAcquire")
  /\ UNCHANGED <<serversVars, conns, mapVars, lockVars, envVars, frameVars>>

\* queryDatabases returns, with names or with an error that is only logged.
QueryDatabases(t) ==
  /\ pc[t] = "list" \/ (pc[t] = "listAcquire" /\ AcquireFails(t))
  /\ Release(t)
  /\ Return(t)
  /\ UNCHANGED <<serversVars, mapVars, lockVars, envVars>>

ServersStep(t) ==
  \/ LockServers(t) \/ NewServerFails(t) \/ PingAnswered(t) \/ PingFails(t)
  \/ GotServer(t) \/ QueryDatabases(t)
  \/ \E i \in Server : NewServer(t, i)
============================================================================
