-------------------------- MODULE QueryMapsProofs --------------------------
(***************************************************************************)
(* What the version tables promise for every version there may ever be.    *)
(***************************************************************************)
EXTENDS QueryMaps, TLAPS

\* The queries of a namespace have disjoint ranges: "there are no overlaps" is
\* left as a TODO above queryOverrides, and no test checks it.
THEOREM RangesDisjoint ==
  ASSUME NEW name \in Overridden, NEW v \in SemVer,
         NEW j \in QueryDefs, NEW k \in QueryDefs,
         VersionRange(name, j, v), VersionRange(name, k, v)
  PROVE  j = k
  BY DEF Overridden, SemVer, QueryDefs, VersionRange, LT, V0, V92, V10

\* The ranges leave no version out but 0.0.0, which no server reports: no
\* built-in namespace is ever disabled for lack of a query.
THEOREM RangesExhaustive ==
  ASSUME NEW name \in Overridden, NEW v \in SemVer, v # V0
  PROVE  Matching(name, v) # {}
<1>1. LT(V0, v)
  BY DEF SemVer, LT, V0
<1>2. \E k \in QueryDefs : VersionRange(name, k, v)
  BY <1>1 DEF Overridden, QueryDefs, VersionRange
<1> QED
  BY <1>2 DEF Matching

\* Where one query matches, makeQueryOverrideMap chooses it.
LEMMA QueryForUnique ==
  ASSUME NEW name \in Overridden, NEW v \in SemVer,
         NEW k \in QueryDefs, VersionRange(name, k, v)
  PROVE  QueryFor(name, v) = k
<1>1. Matching(name, v) = {k}
  BY RangesDisjoint DEF Matching
<1>2. k <= k
  BY DEF QueryDefs
<1> QED
  BY <1>1, <1>2 DEF QueryFor

\* For every version, the lag column added by the query chosen for
\* pg_stat_replication is just the metric its column map has for that version.
THEOREM LagAgrees ==
  ASSUME NEW v \in SemVer
  PROVE  {c \in Columns : ~Discard(c, v)} = LagColumn(QueryFor("pg_stat_replication", v))
<1>1. "pg_stat_replication" \in Overridden
  BY DEF Overridden
<1>2. LT(v, V92) => LT(v, V10)
  BY DEF SemVer, LT, V92, V10
<1>3. CASE ~LT(v, V10)
  <2>1. QueryFor("pg_stat_replication", v) = 1
    BY <1>1, <1>3, QueryForUnique DEF VersionRange, QueryDefs
  <2> QED
    BY <1>2, <1>3, <2>1 DEF Discard, SupportedVersions, LagColumn, Columns,
       LabelColumns, DiscardColumns
<1>4. CASE ~LT(v, V92) /\ LT(v, V10)
  <2>1. QueryFor("pg_stat_replication", v) = 2
    BY <1>1, <1>4, QueryForUnique DEF VersionRange, QueryDefs
  <2> QED
    BY <1>4, <2>1 DEF Discard, SupportedVersions, LagColumn, Columns,
       LabelColumns, DiscardColumns
<1>5. CASE LT(v, V92)
  <2>1. QueryFor("pg_stat_replication", v) = 3
    BY <1>1, <1>5, QueryForUnique DEF VersionRange, QueryDefs
  <2> QED
    BY <1>2, <1>5, <2>1 DEF Discard, SupportedVersions, LagColumn, Columns,
       LabelColumns, DiscardColumns
<1> QED
  BY <1>3, <1>4, <1>5
============================================================================
