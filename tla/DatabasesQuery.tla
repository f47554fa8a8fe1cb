--------------------------- MODULE DatabasesQuery --------------------------
(* queryDatabases: the names of the databases of a server, for discovery.  *)
EXTENDS RowStream

CONSTANT Name       \* names of databases

NextDatabase ==
  /\ MoreRows
  /\ \E name \in Name :
       /\ sent' = Append(sent, name)
       /\ emitted' = emitted \cup {[row |-> Len(sent) + 1, name |-> name]}
  /\ UNCHANGED <<call, pc, conn, broken, result>>

ScanDatabaseKeepingNames == RowFails /\ UNCHANGED emitted

\* The caller gets nil, not the names read so far.
ScanDatabaseFails == RowFails /\ emitted' = {}

QueryDatabases ==
  /\ call = "databases"
  /\ \/ Acquire \/ AcquireFails \/ Query("rows") \/ QueryFails
     \/ NextDatabase \/ ScanDatabaseFails \/ RowsEnd
============================================================================
