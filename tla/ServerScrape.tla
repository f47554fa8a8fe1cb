---------------------------- MODULE ServerScrape ---------------------------
(***************************************************************************)
(* Server.Scrape: querySettings and queryNamespaceMappings under the read  *)
(* lock of mappingMtx, each query on a connection of its own.              *)
(***************************************************************************)
EXTENDS MapVersions

RLockMaps(t) ==
  /\ pc[t] = "rlock"
  /\ IF writer[srv[t]] = None
       THEN /\ readers' = [readers EXCEPT ![srv[t]] = @ \cup {t}]
            /\ Goto(t, "locked")
       ELSE UNCHANGED readers /\ Goto(t, "rlockWait")
  /\ UNCHANGED <<serversVars, conns, mapVars, writer, envVars, frameVars>>

\* The keys of metricMap that queryNamespaceMappings ranges over.
Namespaces(m) ==
  IF m = None THEN {}
  ELSE (IF DisableDefaultMetrics THEN {} ELSE Namespace)
         \cup (IF m.user THEN UserNamespace ELSE {})

BeginScrape(t) ==
  /\ pc[t] = "locked"
  /\ todo' = [todo EXCEPT ![t] = Namespaces(metricMap[srv[t]])]
  /\ Goto(t, IF DisableSettingsMetrics THEN "loop" ELSE "settingsAcquire")
  /\ UNCHANGED <<serversVars, conns, mapVars, lockVars, envVars,
                 dsn, srv, ver, read, failed>>

BeginNamespaceAgain(t, n) ==
  /\ pc[t] = "loop"
  /\ n \in todo[t]
  /\ Goto(t, "namespaceAcquire")
  /\ UNCHANGED <<serversVars, conns, mapVars, lockVars, envVars, frameVars>>

BeginNamespace(t, n) ==
  /\ pc[t] = "loop"
  /\ n \in todo[t]
  /\ todo' = [todo EXCEPT ![t] = @ \ {n}]
  /\ Goto(t, "namespaceAcquire")
  /\ UNCHANGED <<serversVars, conns, mapVars, lockVars, envVars,
                 dsn, srv, ver, read, failed>>

\* querySettings or queryNamespaceMapping returns nil.
QueryReturns(t) ==
  /\ pc[t] \in {"settings", "namespace"}
  /\ Release(t)
  /\ Goto(t, "loop")
  /\ UNCHANGED <<serversVars, mapVars, lockVars, envVars, frameVars>>

QueryFailsKeepingConn(t) ==
  /\ pc[t] \in {"settings", "namespace"}
  /\ failed' = [failed EXCEPT ![t] = TRUE]
  /\ Goto(t, "loop")
  /\ UNCHANGED <<serversVars, conns, mapVars, lockVars, envVars,
                 dsn, srv, ver, read, todo>>

\* It returns an error: the scrape goes on and reports it at the end.
QueryFails(t) ==
  /\ \/ pc[t] \in {"settings", "namespace"}
     \/ pc[t] \in {"settingsAcquire", "namespaceAcquire"} /\ AcquireFails(t)
  /\ Release(t)
  /\ failed' = [failed EXCEPT ![t] = TRUE]
  /\ Goto(t, "loop")
  /\ UNCHANGED <<serversVars, mapVars, lockVars, envVars,
                 dsn, srv, ver, read, todo>>

EndScrapeKeepingRLock(t) ==
  /\ pc[t] = "loop"
  /\ todo[t] = {}
  /\ Return(t)
  /\ UNCHANGED <<serversVars, conns, mapVars, lockVars, envVars>>

EndScrape(t) ==
  /\ pc[t] = "loop"
  /\ todo[t] = {}
  /\ readers' = [readers EXCEPT ![srv[t]] = @ \ {t}]
  /\ Return(t)
  /\ UNCHANGED <<serversVars, conns, mapVars, writer, envVars>>

ServerScrapeStep(t) ==
  \/ RLockMaps(t) \/ BeginScrape(t) \/ QueryReturns(t) \/ QueryFails(t)
  \/ EndScrape(t)
  \/ \E n \in Namespace \cup UserNamespace : BeginNamespace(t, n)
============================================================================
