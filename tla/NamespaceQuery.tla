--------------------------- MODULE NamespaceQuery --------------------------
(***************************************************************************)
(* queryNamespaceMapping for pg_stat_replication, from Acquire to Release, *)
(* while the database streams rows and may break off.                      *)
(*                                                                         *)
(* A value is what DBToFloat64 tells apart: "number", "null" (NaN) and     *)
(* "text" that is not a number.  A label is represented by the position of *)
(* the column its value is taken from.                                     *)
(***************************************************************************)
EXTENDS QueryMaps, RowStream, FiniteSets

CONSTANTS
  Version,     \* versions the maps were made for
  Result       \* column sequences the query may return

ASSUME QueryAssumption == Version \subseteq SemVer /\ Result \subseteq Seq(STRING)

Value == {"number", "null", "text"}

\* The query of the namespace in queryOverrides: the built-in one, or what the
\* user's file put in its place, which may be empty.
UserQuery == 4
Queries(v) == {QueryFor("pg_stat_replication", v), UserQuery, Disabled}

VARIABLES
  ver, query,  \* lastMapVersion of the server, and the query of its maps
  cols,        \* columnNames
  nonfatal     \* columns of rows in nonfatalErrors

namespace == <<ver, query, cols, nonfatal>>

Rows == [1 .. Len(cols) -> Value]

NamespaceInit ==
  /\ ver \in Version /\ query \in Queries(ver)
  /\ cols = <<>> /\ nonfatal = {}

\* query == "" && found: nothing to query on this version.
QueryDisabled ==
  /\ pc = "query" /\ query = Disabled
  /\ Return("ok")
  /\ UNCHANGED <<call, sent, broken, emitted, namespace>>

QueryNamespace ==
  /\ query # Disabled
  /\ Query("first") \/ QueryFails
  /\ UNCHANGED namespace

\* The first loop: rows.Next() once, to learn the columns, then break.
FirstRow ==
  /\ pc = "first"
  /\ \E cs \in Result :
       /\ query = UserQuery \/ LagColumn(query) \subseteq {cs[i] : i \in DOMAIN cs}
       /\ cols' = cs
  /\ \E row \in [1 .. Len(cols') -> Value] : sent' = <<row>>
  /\ pc' = "rows"
  /\ UNCHANGED <<call, ver, query, conn, broken, emitted, nonfatal, result>>

Indices(c) == {i \in 1 .. Len(cols) : cols[i] = c}

\* columnIdx[label]: the last position of the column, and 0 in Go, here the
\* first position, for a label that is not a column of the answer.
ColumnIdx(c) ==
  IF Indices(c) = {} THEN 1
  ELSE CHOOSE i \in Indices(c) : \A j \in Indices(c) : j <= i

\* DBToFloat64.
Float(v) == v \in {"number", "null"}

\* A column is a metric of the maps, or unknown and then reported untyped.
MetricColumn(i) == cols[i] \in Columns => ~Discard(cols[i], ver)
LabelSources == [l \in VariableLabels |-> ColumnIdx(l)]

SampleFromZero(k, i) == [row |-> k, column |-> i - 1, labels |-> LabelSources]

Sample(k, i) == [row |-> k, column |-> i, labels |-> LabelSources]

SamplesUntilError(k, row) ==
  {Sample(k, i) : i \in {j \in DOMAIN row :
     MetricColumn(j) /\ \A h \in 1 .. j : Float(row[h])}}

Samples(k, row) ==
  {Sample(k, i) : i \in {j \in DOMAIN row : MetricColumn(j) /\ Float(row[j])}}

\* The second loop, once round: every column of one row.
NextRow ==
  /\ MoreRows
  /\ \E row \in Rows :
       LET k == Len(sent) + 1 IN
       /\ sent' = Append(sent, row)
       /\ emitted' = emitted \cup Samples(k, row)
       /\ nonfatal' = nonfatal \cup {<<k, i>> : i \in {j \in DOMAIN row :
                                       MetricColumn(j) /\ ~Float(row[j])}}
  /\ UNCHANGED <<call, ver, query, pc, conn, cols, broken, result>>

\* rows.Values() fails on a row: the samples already emitted stay emitted, the
\* non-fatal errors collected so far are dropped.
ValuesFail ==
  /\ RowFails
  /\ nonfatal' = {}
  /\ UNCHANGED <<emitted, ver, query, cols>>

QueryNamespaceMapping ==
  /\ call = "namespace"
  /\ \/ (Acquire \/ AcquireFails \/ RowsEnd) /\ UNCHANGED namespace
     \/ QueryDisabled \/ QueryNamespace \/ FirstRow \/ NextRow \/ ValuesFail
============================================================================
