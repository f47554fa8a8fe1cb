----------------------------- MODULE RowQueries ----------------------------
(* One call that reads rows, whichever of the three it is, from Acquire to *)
(* Release, while the database streams rows and may break off.             *)
EXTENDS NamespaceQuery, SettingsQuery, DatabasesQuery

vars == <<stream, namespace>>

\* querySettings and queryDatabases use none of the maps.
Init ==
  /\ StreamInit /\ NamespaceInit
  /\ call # "namespace" =>
       /\ ver = (CHOOSE v \in Version : TRUE) /\ query = Disabled

Next ==
  \/ QueryNamespaceMapping
  \/ QuerySettings /\ UNCHANGED namespace
  \/ QueryDatabases /\ UNCHANGED namespace

Spec == Init /\ [][Next]_vars

----------------------------------------------------------------------------
SampleTypeOK ==
  CASE call = "namespace" ->
         /\ sent \in Seq(Rows)
         /\ \A s \in emitted : s.row \in 1 .. Len(sent) /\ s.column \in 1 .. Len(cols)
         /\ nonfatal \subseteq (1 .. Len(sent)) \X (1 .. Len(cols))
    [] call = "settings"  ->
         /\ sent \in Seq(Setting)
         /\ \A s \in emitted : s.row \in 1 .. Len(sent) /\ s.metric.unit \in {"", "seconds", "bytes"}
    [] call = "databases" ->
         /\ sent \in Seq(Name)
         /\ \A s \in emitted : s.row \in 1 .. Len(sent) /\ s.name \in Name

\* Every variable holds a value of its type.
TypeOK ==
  /\ call \in Call /\ ver \in Version /\ query \in Queries(ver)
  /\ pc \in {"acquire", "query", "first", "rows", "returned", "crashed"}
  /\ conn \in BOOLEAN /\ broken \in BOOLEAN
  /\ cols \in Result \cup {<<>>} /\ Len(sent) <= MaxRows
  /\ result \in {"none", "ok", "error"}
  /\ SampleTypeOK

\* Whichever return or panic ends it, the call gives its connection back; it
\* holds one on every other position after Acquire.
ConnReturned == conn <=> pc \in {"query", "first", "rows"}

\* From the second row on, a column that does not convert costs no other column
\* and no other row its sample: each metric value is emitted, or counted among
\* the non-fatal errors of a call that does not fail, and nothing else is.
LaterRowsComplete ==
  call = "namespace" =>
  \A k \in 2 .. Len(sent), i \in 1 .. Len(cols) :
    LET metric == MetricColumn(i) IN
    /\ Sample(k, i) \in emitted <=> metric /\ Float(sent[k][i])
    /\ <<k, i>> \in nonfatal    <=>
         metric /\ ~Float(sent[k][i]) /\ result # "error"

\* Tables agree: while the built-in query runs, the maps have as a metric just
\* the lag column it adds for this version, and the other dialect's is discarded.
LagOfTheDialect ==
  call = "namespace" /\ pc = "rows" /\ query # UserQuery =>
    {c \in Columns : ~Discard(c, ver)} = LagColumn(query)

\* The units of PostgreSQL's documentation, each defined by the one below it.
MilliSeconds ==
  LET s == 1000  min == 60 * s  h == 60 * min  d == 24 * h
  IN  [ms |-> 1, s |-> s, min |-> min, h |-> h, d |-> d]
Log2Bytes ==
  LET kB == 10  MB == kB + 10  GB == MB + 10  TB == GB + 10
  IN  [u \in SizeUnits |->
         CASE u = "B"    -> 0       [] u = "kB"   -> kB      [] u = "MB"   -> MB
           [] u = "GB"   -> GB      [] u = "TB"   -> TB      [] u = "8kB"  -> 3 + kB
           [] u = "16kB" -> 4 + kB  [] u = "32kB" -> 5 + kB  [] u = "16MB" -> 4 + MB
           [] u = "32MB" -> 5 + MB  [] u = "64MB" -> 6 + MB]

Quantity(s) ==
  IF s.unit \in DOMAIN MilliSeconds
    THEN [thousandths |-> s.setting * MilliSeconds[s.unit], exp2 |-> 0]
  ELSE IF s.unit \in DOMAIN Log2Bytes
    THEN [thousandths |-> 1000 * s.setting, exp2 |-> Log2Bytes[s.unit]]
  ELSE Number(s.setting)

\* A sample of a numeric setting is the setting's quantity in seconds or bytes,
\* so settings in different units compare; -1, which stands for "disabled", is
\* -1 in every unit (pg_setting.go:101, :114).
SettingsConverted ==
  call = "settings" =>
    \A e \in emitted :
      LET s == sent[e.row] IN
      s.vartype # "bool" =>
        e.metric.value = IF s.setting = -1 THEN Number(-1) ELSE Quantity(s)

\* Unlike queryNamespaceMapping, the other two deliver every row of an answer
\* that did not break off, and queryDatabases nothing of one that it rejects.
OtherAnswersDelivered ==
  /\ call # "namespace" /\ result = "ok" /\ ~broken =>
       {e.row : e \in emitted} = 1 .. Len(sent)
  /\ call = "databases" /\ result = "error" => emitted = {}

Phase == CASE pc = "acquire" -> "acquiring"
           [] pc \in {"query", "first", "rows"} -> "running"
           [] pc = "crashed" -> "crashed"
           [] OTHER -> "idle"

callPhase   == [u \in {"caller"} |-> Phase]
callHolding == {u \in {"caller"} : conn}
callFailed  == {u \in {"caller"} : result = "error"}

Calls == INSTANCE QueryCall WITH
  User <- {"caller"}, phase <- callPhase, holding <- callHolding, failed <- callFailed

\* Row by row, each of the three calls is what a scrape takes it for: one that
\* acquires a connection, holds it while the query runs and gives it back with
\* an answer or an error, or in a panic (ScrapeProgress refines the same).
ImplementsQueryCall == Calls!Spec

\* A query that answered completely has had every row of it emitted.
EveryRowEmitted ==
  call = "namespace" /\ result = "ok" /\ ~broken =>
    \A k \in 1 .. Len(sent), i \in 1 .. Len(cols) :
      MetricColumn(i) /\ Float(sent[k][i]) => Sample(k, i) \in emitted

\* "Returns fatal errors if the scrape fails": a broken answer is an error.
BrokenIsError == broken => result = "error"
============================================================================
