---------------------------- MODULE MapVersions ----------------------------
(***************************************************************************)
(* Exporter.checkMapVersions: read the server's version and, when it is    *)
(* not the one the query maps were made for, rebuild them under mappingMtx.*)
(* The connection the version was read on is held throughout, while the    *)
(* goroutine waits for the lock as well.                                   *)
(***************************************************************************)
EXTENDS Servers

\* SELECT version() is answered with a version that parses.
VersionRead(t) ==
  /\ pc[t] = "version"
  /\ ver' = [ver EXCEPT ![t] = dbVersion[dsn[t]]]
  /\ Goto(t, "check")
  /\ UNCHANGED <<serversVars, conns, mapVars, lockVars, envVars,
                 dsn, srv, read, todo, failed>>

\* No connection, no answer or no version in it: the error is logged and
\* scrapeDSN goes on to Server.Scrape.
VersionFailsUnnoticed(t) ==
  /\ pc[t] = "version"
  /\ Goto(t, "check")
  /\ UNCHANGED <<serversVars, conns, mapVars, lockVars, envVars, frameVars>>

VersionFailsKeepingConn(t) ==
  /\ pc[t] = "version" \/ (pc[t] = "versionAcquire" /\ AcquireFails(t))
  /\ Goto(t, "rlock")
  /\ UNCHANGED <<serversVars, conns, mapVars, lockVars, envVars, frameVars>>

VersionFails(t) ==
  /\ pc[t] = "version" \/ (pc[t] = "versionAcquire" /\ AcquireFails(t))
  /\ Release(t)
  /\ Goto(t, "rlock")
  /\ UNCHANGED <<serversVars, mapVars, lockVars, envVars, frameVars>>

\* The test is made outside mappingMtx.  A version that another goroutine is
\* just storing, field after field, may be read as old, as new or as a mix.
NeverBuilt(t) == metricMap[srv[t]] = None
Outdated(t) == ver[t] # lastMapVersion[srv[t]] \/ metricMap[srv[t]] = None

Storing(t) == {u \in Scraper : srv[u] = srv[t] /\ pc[u] = "overrides"}

CheckVersion(t) ==
  /\ pc[t] = "check"
  /\ \/ /\ Outdated(t) \/ Storing(t) # {}
        /\ Goto(t, "lock")
     \/ /\ \/ ~Outdated(t)
           \/ \E u \in Storing(t) : ver[t] \in TornVersion \cup {ver[u]}
        /\ Goto(t, "release")
  /\ UNCHANGED <<serversVars, conns, mapVars, lockVars, envVars, frameVars>>

LockMaps(t) ==
  /\ pc[t] = "lock"
  /\ Announce(t)
  /\ Goto(t, "lockWait")
  /\ UNCHANGED <<serversVars, conns, mapVars, readers, envVars, frameVars>>

EnterWithoutDraining(t) ==
  /\ pc[t] = "lockWait"
  /\ Goto(t, "metricMap")
  /\ UNCHANGED <<serversVars, conns, mapVars, lockVars, envVars, frameVars>>

MapsLocked(t) ==
  /\ pc[t] = "lockWait"
  /\ Drained(srv[t])
  /\ Goto(t, "metricMap")
  /\ UNCHANGED <<serversVars, conns, mapVars, lockVars, envVars, frameVars>>

\* makeDescMap, or an empty map without the default metrics.
RebuildMetricMap(t) ==
  /\ pc[t] = "metricMap"
  /\ metricMap' = [metricMap EXCEPT ![srv[t]] = [ver |-> ver[t], user |-> FALSE]]
  /\ Goto(t, "overrides")
  /\ UNCHANGED <<serversVars, conns, queryOverrides, lastMapVersion, userErr,
                 lockVars, envVars, frameVars>>

\* makeQueryOverrideMap, the version, and userQueriesError.Reset().
KeepSamples == userErr
ResetSamples == {}

KeepOverrides(t) == IF queryOverrides[srv[t]] = None
                      THEN [ver |-> ver[t], user |-> FALSE]
                      ELSE queryOverrides[srv[t]]
NewOverrides(t) == [ver |-> ver[t], user |-> FALSE]

RebuildOverrides(t) ==
  /\ pc[t] = "overrides"
  /\ queryOverrides' = [queryOverrides EXCEPT ![srv[t]] = NewOverrides(t)]
  /\ lastMapVersion' = [lastMapVersion EXCEPT ![srv[t]] = ver[t]]
  /\ IF UserQueriesPath
       THEN userErr' = ResetSamples /\ Goto(t, "readFile")
       ELSE UNCHANGED userErr /\ Goto(t, "unlock")
  /\ UNCHANGED <<serversVars, conns, metricMap, lockVars, envVars, frameVars>>

ReadUserQueries(t) ==
  /\ pc[t] = "readFile"
  /\ read' = [read EXCEPT ![t] = file]
  /\ Goto(t, "addQueries")
  /\ UNCHANGED <<serversVars, conns, mapVars, lockVars, envVars,
                 dsn, srv, ver, todo, failed>>

\* addQueries merges into both maps or, on an error, into neither; then the
\* sample of this file's hash is set, to 1 exactly when it is BadContent.
Merged(m) == [ver |-> m.ver, user |-> TRUE]

AddQueries(t) ==
  /\ pc[t] = "addQueries"
  /\ userErr' = userErr \cup {read[t]}
  /\ IF read[t] \in GoodContent
       THEN /\ metricMap' = [metricMap EXCEPT ![srv[t]] = Merged(@)]
            /\ queryOverrides' = [queryOverrides EXCEPT ![srv[t]] = Merged(@)]
       ELSE UNCHANGED <<metricMap, queryOverrides>>
  /\ Goto(t, "unlock")
  /\ UNCHANGED <<serversVars, conns, lastMapVersion, lockVars, envVars, frameVars>>

UnlockMaps(t) ==
  /\ pc[t] = "unlock"
  /\ writer' = [writer EXCEPT ![srv[t]] = None]
  /\ readers' = [readers EXCEPT ![srv[t]] = @ \cup Queued(srv[t])]
  /\ pc' = [u \in Scraper |->
              IF u = t THEN "release"
              ELSE IF u \in Queued(srv[t]) THEN "locked" ELSE pc[u]]
  /\ UNCHANGED <<serversVars, conns, mapVars, envVars, frameVars>>

\* The deferred conn.Release().
ReleaseVersionConn(t) ==
  /\ pc[t] = "release"
  /\ Release(t)
  /\ Goto(t, "rlock")
  /\ UNCHANGED <<serversVars, mapVars, lockVars, envVars, frameVars>>

MapVersionsStep(t) ==
  \/ VersionRead(t) \/ VersionFails(t) \/ CheckVersion(t)
  \/ LockMaps(t) \/ MapsLocked(t) \/ RebuildMetricMap(t) \/ RebuildOverrides(t)
  \/ ReadUserQueries(t) \/ AddQueries(t) \/ UnlockMaps(t) \/ ReleaseVersionConn(t)
============================================================================
