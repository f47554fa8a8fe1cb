----------------------------- MODULE QueryMaps -----------------------------
(***************************************************************************)
(* The tables that adapt the exporter to a PostgreSQL version, and the     *)
(* functions that specialise them: makeQueryOverrideMap chooses a query,   *)
(* makeDescMap a meaning for every column.                                 *)
(*                                                                         *)
(* A version is <<major, minor, patch>>: parseVersion never yields a       *)
(* pre-release.  Query texts are abstracted to their position in the table *)
(* and the version-specific columns they add; help texts are left out.     *)
(***************************************************************************)
EXTENDS Naturals

SemVer == Nat \X Nat \X Nat

\* Precedence of semantic versions, field by field.
LT(v, w) ==
  \/ v[1] < w[1]
  \/ v[1] = w[1] /\ v[2] < w[2]
  \/ v[1] = w[1] /\ v[2] = w[2] /\ v[3] < w[3]

V0  == <<0, 0, 0>>
V92 == <<9, 2, 0>>
V10 == <<10, 0, 0>>

----------------------------------------------------------------------------
(* queryOverrides: for each namespace, the queries and their ranges.       *)

Overridden == {"pg_locks", "pg_stat_replication", "pg_stat_activity"}

\* Positions of the queries of a namespace, and versionRange of each.
QueryDefs == 1 .. 3

OverlappingRange(name, k, v) ==
  \/ name = "pg_locks"            /\ k = 1 /\ LT(V0, v)
  \/ name = "pg_stat_replication" /\ k = 1 /\ ~LT(v, V10)
  \/ name = "pg_stat_replication" /\ k = 2 /\ LT(v, V10)
  \/ name = "pg_stat_replication" /\ k = 3 /\ LT(v, V92)
  \/ name = "pg_stat_activity"    /\ k = 1 /\ ~LT(v, V92)
  \/ name = "pg_stat_activity"    /\ k = 2 /\ LT(v, V92)

VersionRange(name, k, v) ==
  \/ name = "pg_locks"            /\ k = 1 /\ LT(V0, v)
  \/ name = "pg_stat_replication" /\ k = 1 /\ ~LT(v, V10)
  \/ name = "pg_stat_replication" /\ k = 2 /\ ~LT(v, V92) /\ LT(v, V10)
  \/ name = "pg_stat_replication" /\ k = 3 /\ LT(v, V92)
  \/ name = "pg_stat_activity"    /\ k = 1 /\ ~LT(v, V92)
  \/ name = "pg_stat_activity"    /\ k = 2 /\ LT(v, V92)

\* makeQueryOverrideMap: the first query whose range has the version.  0 stands
\* for the empty query, which disables the namespace.
Disabled == 0
Matching(name, v) == {k \in QueryDefs : VersionRange(name, k, v)}
QueryFor(name, v) ==
  IF Matching(name, v) = {} THEN Disabled
  ELSE CHOOSE k \in Matching(name, v) : \A j \in Matching(name, v) : k <= j

----------------------------------------------------------------------------
(* builtinMetricMaps of pg_stat_replication, one column of each kind.      *)

Columns == {"application_name", "slot_name", "procpid", "pid",
            "pg_xlog_location_diff", "pg_wal_lsn_diff"}
LabelColumns   == {"application_name", "slot_name"}   \* usage LABEL
DiscardColumns == {"procpid", "pid"}                  \* usage DISCARD

\* supportedVersions of a column.
SupportedVersions(c, v) ==
  /\ c = "procpid" => LT(v, V92)
  /\ c \in {"slot_name", "pid", "pg_xlog_location_diff"} => ~LT(v, V92)
  /\ c = "pg_xlog_location_diff" => LT(v, V10)
  /\ c = "pg_wal_lsn_diff" => ~LT(v, V10)

\* The column with the replication lag that the k-th query adds.
LagColumn(k) == {c \in Columns : \/ k = 1 /\ c = "pg_wal_lsn_diff"
                                 \/ k = 2 /\ c = "pg_xlog_location_diff"}

\* makeDescMap.  Every LABEL column becomes a label of the namespace, whether
\* the version has it or not; a column is discarded when it is unsupported, or
\* not a metric; any other column is a metric.
VariableLabels == LabelColumns
DiscardIgnoringVersion(c, v) == c \in LabelColumns \cup DiscardColumns
Discard(c, v) == ~SupportedVersions(c, v) \/ c \in LabelColumns \cup DiscardColumns
============================================================================
