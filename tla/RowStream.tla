------------------------------ MODULE RowStream ----------------------------
(***************************************************************************)
(* What the three calls that read rows from PostgreSQL have in common:     *)
(* queryNamespaceMapping, querySettings and queryDatabases acquire a       *)
(* connection, defer its release, send a query, and take rows until        *)
(* rows.Next() is false.  The database may break the answer off between    *)
(* two rows.                                                               *)
(***************************************************************************)
EXTENDS Naturals, Sequences

CONSTANT MaxRows    \* bound on the rows of an answer

ASSUME MaxRowsAssumption == MaxRows \in Nat \ {0}

Call == {"namespace", "settings", "databases"}

VARIABLES
  call,        \* which of the calls this is
  pc,
  conn,        \* is a connection of the pool held?
  sent,        \* the rows the database has sent
  broken,      \* did the answer end in an error?
  emitted,     \* samples sent to Prometheus; for databases, the names collected
  result       \* "none" while running, then "ok" or "error"

stream == <<call, pc, conn, sent, broken, emitted, result>>

StreamInit ==
  /\ call \in Call
  /\ pc = "acquire" /\ conn = FALSE /\ sent = <<>>
  /\ broken = FALSE /\ emitted = {} /\ result = "none"

\* return, and the deferred rows.Close and conn.Release.
ReturnKeepingConn(r) == pc' = "returned" /\ result' = r /\ UNCHANGED conn
Return(r) == pc' = "returned" /\ result' = r /\ conn' = FALSE

Acquire ==
  /\ pc = "acquire"
  /\ pc' = "query" /\ conn' = TRUE
  /\ UNCHANGED <<call, sent, broken, emitted, result>>

AcquireFails ==
  /\ pc = "acquire"
  /\ Return("error")
  /\ UNCHANGED <<call, sent, broken, emitted>>

Query(next) ==
  /\ pc = "query"
  /\ pc' = next
  /\ UNCHANGED <<call, conn, sent, broken, emitted, result>>

QueryFails ==
  /\ pc = "query"
  /\ Return("error")
  /\ UNCHANGED <<call, sent, broken, emitted>>

MoreRows == pc = "rows" /\ Len(sent) < MaxRows

\* rows.Values() or rows.Scan() fails on a row.
RowFails ==
  /\ MoreRows
  /\ broken' = TRUE
  /\ Return("error")
  /\ UNCHANGED <<call, sent>>

\* rows.Next() is false, at the end of the answer or because it broke off:
\* rows.Err() is never asked which.
RowsEnd ==
  /\ pc \in {"first", "rows"}
  /\ broken' \in BOOLEAN
  /\ Return("ok")
  /\ UNCHANGED <<call, sent, emitted>>
============================================================================
