------------------------------ MODULE QueryCall ----------------------------
(***************************************************************************)
(* What a scrape relies on when it calls querySettings or                  *)
(* queryNamespaceMapping: the call acquires one connection, holds it while *)
(* its query runs and no longer, and ends with an answer or with an error, *)
(* which the scrape reports when it ends.  ScrapeDSN implements it with a  *)
(* query that takes one step, RowQueries with one that streams rows.       *)
(***************************************************************************)
CONSTANT User

VARIABLES
  phase,     \* User -> where its call is
  holding,   \* users with a connection for their query
  failed     \* users with an error to report

Init ==
  /\ phase \in [User -> {"idle", "acquiring"}]
  /\ holding = {} /\ failed = {}

Ask(u) ==
  /\ phase[u] = "idle"
  /\ phase' = [phase EXCEPT ![u] = "acquiring"]
  /\ UNCHANGED <<holding, failed>>

Acquired(u) ==
  /\ phase[u] = "acquiring"
  /\ phase' = [phase EXCEPT ![u] = "running"]
  /\ holding' = holding \cup {u}
  /\ UNCHANGED failed

Answered(u) ==
  /\ phase[u] = "running"
  /\ phase' = [phase EXCEPT ![u] = "idle"]
  /\ holding' = holding \ {u}
  /\ UNCHANGED failed

\* No connection, or no complete answer.
Fails(u) ==
  /\ phase[u] \in {"acquiring", "running"}
  /\ phase' = [phase EXCEPT ![u] = "idle"]
  /\ holding' = holding \ {u}
  /\ failed' = failed \cup {u}

\* The call panics, and ends the process.
Crashes(u) ==
  /\ phase[u] = "running"
  /\ phase' = [phase EXCEPT ![u] = "crashed"]
  /\ holding' = holding \ {u}
  /\ UNCHANGED failed

\* The scrape ends, and reports its errors.
Reports(u) ==
  /\ phase[u] = "idle"
  /\ failed' = failed \ {u}
  /\ UNCHANGED <<phase, holding>>

Next == \E u \in User :
  Ask(u) \/ Acquired(u) \/ Answered(u) \/ Fails(u) \/ Crashes(u) \/ Reports(u)

Spec == Init /\ [][Next]_<<phase, holding, failed>>
============================================================================
