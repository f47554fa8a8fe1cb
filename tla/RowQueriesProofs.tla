-------------------------- MODULE RowQueriesProofs -------------------------
(* Proofs about RowQueries, for answers of any length, any columns, any     *)
(* versions and any settings.                                              *)
EXTENDS RowQueries, QueryMapsProofs

\* Where a call stands before it has taken a row.
Asking == {"acquire", "query", "first"}

StreamInv ==
  /\ call \in Call
  /\ pc \in Asking \cup {"rows", "returned", "crashed"}
  /\ conn <=> pc \in {"query", "first", "rows"}
  /\ pc \in Asking => sent = <<>> /\ emitted = {} /\ nonfatal = {}
  /\ pc \in Asking \cup {"rows", "crashed"} => result = "none"

\* The maps in force, and the query made of them.
MapsInv ==
  /\ ver \in SemVer /\ query \in Queries(ver)
  /\ cols \in Seq(STRING)
  /\ pc \in {"first", "rows"} /\ call = "namespace" => query # Disabled

\* What has been emitted is of rows that were sent, with their columns.
NamespaceInv ==
  /\ sent \in Seq(Rows)
  /\ \A s \in emitted : s.row \in 1 .. Len(sent)
  /\ \A k \in Nat, i \in Nat : <<k, i>> \in nonfatal => k \in 1 .. Len(sent)
  /\ LaterRowsComplete

SettingsInv ==
  /\ sent \in Seq(Setting)
  /\ \A e \in emitted :
       /\ e.row \in 1 .. Len(sent) /\ e.metric = Metric(sent[e.row])
       /\ Recognised(sent[e.row])

\* Every row but one that was rejected has been emitted.
DeliveredInv ==
  /\ pc # "crashed" /\ result # "error" =>
       \A k \in 1 .. Len(sent) : \E e \in emitted : e.row = k
  /\ \A e \in emitted : e.row \in 1 .. Len(sent)
  /\ call = "databases" /\ result = "error" => emitted = {}

Inv ==
  /\ StreamInv /\ MapsInv
  /\ call = "namespace" => NamespaceInv
  /\ call = "settings"  => SettingsInv
  /\ call = "databases" => sent \in Seq(Name)
  /\ call # "namespace" => DeliveredInv

----------------------------------------------------------------------------
\* A unit of size is the power of two that PostgreSQL's documentation says.
LEMMA PowersAgree == \A u \in SizeUnits : Power(u) = Log2Bytes[u]
  BY DEF SizeUnits, Power, Log2Bytes

\* A unit of time is the number of milliseconds it is.
LEMMA ThousandthsAgree ==
  /\ DOMAIN MilliSeconds = TimeUnits
  /\ \A u \in TimeUnits : Thousandths(u) = MilliSeconds[u] /\ Power(u) = 0
  BY DEF TimeUnits, Thousandths, MilliSeconds, Power

\* The number that normaliseUnit computes is the quantity of the setting.
LEMMA NormalisedIsQuantity ==
  ASSUME NEW s, s.setting \in Int
  PROVE  NormaliseUnit(s) = IF s.setting = -1 THEN Number(-1) ELSE Quantity(s)
<1>1. CASE s.unit \in TimeUnits
  BY <1>1, ThousandthsAgree DEF NormaliseUnit, Quantity
<1>2. CASE s.unit \in SizeUnits
  <2>1. s.unit \notin TimeUnits /\ Thousandths(s.unit) = 1000
    BY <1>2 DEF SizeUnits, TimeUnits, Thousandths
  <2>2. DOMAIN Log2Bytes = SizeUnits
    BY DEF Log2Bytes
  <2>. QED  BY <1>2, <2>1, <2>2, PowersAgree, ThousandthsAgree DEF NormaliseUnit, Quantity
<1>3. CASE s.unit \notin TimeUnits /\ s.unit \notin SizeUnits
  <2>1. Thousandths(s.unit) = 1000
    BY <1>3 DEF SizeUnits, TimeUnits, Thousandths
  <2>2. Power(s.unit) = 0
    BY <1>3 DEF SizeUnits, TimeUnits, Power
  <2>3. DOMAIN Log2Bytes = SizeUnits
    BY DEF Log2Bytes
  <2>4. s.setting * Thousandths(s.unit) = 1000 * s.setting
    BY <2>1
  <2>5. Quantity(s) = Number(s.setting)
    BY <1>3, <2>3, ThousandthsAgree DEF Quantity
  <2>. QED  BY <2>1, <2>2, <2>4, <2>5 DEF NormaliseUnit, Number
<1>. QED  BY <1>1, <1>2, <1>3

\* A call begins with nothing sent or emitted.
LEMMA InitInv == Init => Inv
<1>. SUFFICES ASSUME Init PROVE Inv
  OBVIOUS
<1>. USE DEF Init, StreamInit, NamespaceInit
<1>1. StreamInv
  BY DEF StreamInv, Asking
<1>2. MapsInv
  BY QueryAssumption DEF MapsInv, Queries
<1>3. NamespaceInv /\ SettingsInv /\ DeliveredInv /\ sent \in Seq(Name)
  BY DEF NamespaceInv, SettingsInv, DeliveredInv, LaterRowsComplete
<1>. QED  BY <1>1, <1>2, <1>3 DEF Inv

----------------------------------------------------------------------------
\* A step common to the calls: it sends and emits nothing, and stops at most.
Quiet ==
  /\ UNCHANGED <<call, sent, emitted, namespace>>
  /\ \/ pc = "acquire" /\ pc' = "query" /\ conn' = TRUE /\ UNCHANGED result
     \/ /\ pc = "query" /\ pc' \in {"first", "rows"} /\ UNCHANGED <<conn, result>>
        /\ pc' = "first" => query # Disabled
        /\ pc' = "rows" <=> call # "namespace"
     \/ pc \in {"acquire", "query"} /\ Return("error")
     \/ pc \in {"query", "first", "rows"} /\ Return("ok")

\* While the columns stay, so do the samples they make.
LEMMA SamplesStay ==
  ASSUME UNCHANGED <<cols, ver>>
  PROVE  \A k, i : Sample(k, i)' = Sample(k, i) /\ MetricColumn(i)' = MetricColumn(i)
  BY DEF Sample, LabelSources, ColumnIdx, Indices, MetricColumn, Discard, SupportedVersions

\* While the rows, the samples and the columns stay, the later rows stay
\* complete, unless the call fails: then it drops the non-fatal errors.
LEMMA LaterRowsStay ==
  ASSUME LaterRowsComplete, call = "namespace", UNCHANGED <<cols, ver, sent, emitted>>,
         result # "error",
         \/ nonfatal' = nonfatal /\ result' # "error"
         \/ nonfatal' = {} /\ result' = "error"
  PROVE  LaterRowsComplete'
<1>1. \A k, i : Sample(k, i)' = Sample(k, i) /\ MetricColumn(i)' = MetricColumn(i)
  BY SamplesStay
<1>. SUFFICES ASSUME NEW k \in 2 .. Len(sent), NEW i \in 1 .. Len(cols)
     PROVE  /\ Sample(k, i) \in emitted <=> MetricColumn(i) /\ Float(sent[k][i])
            /\ <<k, i>> \in nonfatal' <=>
                 MetricColumn(i) /\ ~Float(sent[k][i]) /\ result' # "error"
  BY <1>1 DEF LaterRowsComplete, Float
<1>2. /\ Sample(k, i) \in emitted <=> MetricColumn(i) /\ Float(sent[k][i])
      /\ <<k, i>> \in nonfatal <=> MetricColumn(i) /\ ~Float(sent[k][i])
  BY DEF LaterRowsComplete
<1>. QED  BY <1>2

\* A quiet step preserves Inv.
LEMMA QuietInv == Inv /\ Quiet => Inv'
<1>. SUFFICES ASSUME Inv, Quiet PROVE Inv'
  OBVIOUS
<1>. USE DEF Quiet, namespace, Return
<1>1. StreamInv'
  BY DEF Inv, StreamInv, Asking
<1>2. MapsInv'
  BY DEF Inv, StreamInv, MapsInv
<1>3. ASSUME call = "namespace" PROVE NamespaceInv'
  <2>1. LaterRowsComplete'
    <3>1. (result' = "error" /\ Len(sent) = 0) \/ (result' # "error" /\ result # "error")
      BY DEF Inv, StreamInv, Asking
    <3>2. CASE Len(sent) = 0
      BY <3>2 DEF LaterRowsComplete
    <3>3. CASE result' # "error" /\ result # "error"
      <4>1. LaterRowsComplete /\ UNCHANGED <<cols, ver, sent, emitted, nonfatal>>
        BY <1>3 DEF Inv, NamespaceInv
      <4>. HIDE DEF Quiet
      <4>. QED  BY <1>3, <3>3, <4>1, LaterRowsStay
    <3>. QED  BY <3>1, <3>2, <3>3
  <2>2. sent' \in Seq(Rows')
    BY <1>3 DEF Inv, NamespaceInv, Rows
  <2>. QED  BY <1>3, <2>1, <2>2 DEF Inv, NamespaceInv
<1>4. ASSUME call = "settings" PROVE SettingsInv'
  BY <1>4 DEF Inv, SettingsInv
<1>5. ASSUME call # "namespace" PROVE DeliveredInv'
  BY <1>5 DEF Inv, StreamInv, DeliveredInv, Asking
<1>. QED  BY <1>1, <1>2, <1>3, <1>4, <1>5 DEF Inv

\* The row that tells the columns is sent, and not emitted.
LEMMA FirstRowInv ==
  ASSUME Inv, call = "namespace", FirstRow
  PROVE  Inv'
<1>. USE DEF FirstRow
<1>1. sent = <<>> /\ emitted = {} /\ nonfatal = {} /\ result = "none"
  BY DEF Inv, StreamInv, Asking
<1>2. PICK row \in [1 .. Len(cols') -> Value] : sent' = <<row>>
  OBVIOUS
<1>3. cols' \in Seq(STRING)
  BY QueryAssumption
<1>4. StreamInv'
  BY <1>1 DEF Inv, StreamInv, Asking
<1>5. MapsInv'
  BY <1>3 DEF Inv, MapsInv
<1>6. NamespaceInv'
  <2>1. row \in Rows'
    BY <1>2 DEF Rows
  <2>2. sent' \in Seq(Rows') /\ Len(sent') = 1
    BY <1>2, <2>1
  <2>3. LaterRowsComplete'
    BY <1>1, <2>2 DEF LaterRowsComplete
  <2>. QED  BY <1>1, <2>2, <2>3 DEF NamespaceInv
<1>. QED  BY <1>4, <1>5, <1>6 DEF Inv

\* A later row adds the samples of its convertible metrics, and no other.
LEMMA NextRowInv ==
  ASSUME Inv, call = "namespace", NextRow
  PROVE  Inv'
<1>. USE DEF NextRow, MoreRows
<1>0. StreamInv /\ MapsInv /\ NamespaceInv
  BY DEF Inv
<1>1. PICK row \in Rows :
        /\ sent' = Append(sent, row)
        /\ emitted' = emitted \cup Samples(Len(sent) + 1, row)
        /\ nonfatal' = nonfatal \cup {<<Len(sent) + 1, i>> :
             i \in {j \in DOMAIN row : MetricColumn(j) /\ ~Float(row[j])}}
  OBVIOUS
<1>. DEFINE last == Len(sent) + 1
<1>2. Len(sent) \in Nat /\ Len(cols) \in Nat /\ DOMAIN row = 1 .. Len(cols)
  BY <1>0 DEF NamespaceInv, MapsInv, Rows
<1>3. /\ sent' \in Seq(Rows) /\ Len(sent') = last /\ sent'[last] = row
      /\ \A k \in 1 .. Len(sent) : sent'[k] = sent[k]
  BY <1>0, <1>1, <1>2 DEF NamespaceInv
<1>4. StreamInv' /\ MapsInv'
  BY <1>0 DEF StreamInv, MapsInv, Asking
<1>5. /\ \A k, i : Sample(k, i).row = k
      /\ \A k, j, h, i : Sample(k, j) = Sample(h, i) <=> k = h /\ j = i
  BY DEF Sample
<1>6. /\ \A s \in emitted' : s.row \in 1 .. Len(sent')
      /\ \A k \in Nat, i \in Nat : <<k, i>> \in nonfatal' => k \in 1 .. Len(sent')
  BY <1>0, <1>1, <1>2, <1>3, <1>5 DEF NamespaceInv, Samples
<1>7. LaterRowsComplete'
  <2>. SUFFICES ASSUME NEW k \in 2 .. last, NEW i \in 1 .. Len(cols)
       PROVE  /\ Sample(k, i) \in emitted' <=> MetricColumn(i) /\ Float(sent'[k][i])
              /\ <<k, i>> \in nonfatal' <=>
                   MetricColumn(i) /\ ~Float(sent'[k][i]) /\ result' # "error"
    <3>1. UNCHANGED <<cols, ver>> /\ Len(sent') = last
      BY <1>3
    <3>2. \A k, i : Sample(k, i)' = Sample(k, i) /\ MetricColumn(i)' = MetricColumn(i)
      BY <3>1, SamplesStay
    <3>. HIDE DEF NextRow, last
    <3>. QED  BY <3>1, <3>2 DEF LaterRowsComplete, Float
  <2>1. result' # "error" /\ result # "error"
    BY <1>0 DEF StreamInv
  <2>2. CASE k = last
    <3>1. Sample(k, i) \notin emitted /\ <<k, i>> \notin nonfatal
      BY <1>0, <1>2, <1>5, <2>2 DEF NamespaceInv
    <3>2. Sample(k, i) \in Samples(last, row) <=> MetricColumn(i) /\ Float(row[i])
      BY <1>2, <1>5, <2>2 DEF Samples
    <3>3. <<k, i>> \in nonfatal' <=> MetricColumn(i) /\ ~Float(row[i])
      BY <1>1, <1>2, <2>2, <3>1
    <3>. QED  BY <1>1, <1>3, <2>1, <2>2, <3>1, <3>2, <3>3
  <2>3. CASE k # last
    <3>1. k \in 2 .. Len(sent) /\ sent'[k] = sent[k]
      BY <1>2, <1>3, <2>3
    <3>2. Sample(k, i) \in emitted' <=> Sample(k, i) \in emitted
      BY <1>1, <1>5, <2>3 DEF Samples
    <3>3. <<k, i>> \in nonfatal' <=> <<k, i>> \in nonfatal
      BY <1>1, <2>3
    <3>4. /\ Sample(k, i) \in emitted <=> MetricColumn(i) /\ Float(sent[k][i])
          /\ <<k, i>> \in nonfatal <=> MetricColumn(i) /\ ~Float(sent[k][i])
      BY <1>0, <2>1, <3>1 DEF NamespaceInv, LaterRowsComplete
    <3>. QED  BY <2>1, <3>1, <3>2, <3>3, <3>4
  <2>. QED  BY <2>2, <2>3
<1>8. sent' \in Seq(Rows')
  BY <1>3 DEF Rows
<1>. QED  BY <1>4, <1>6, <1>7, <1>8 DEF Inv, NamespaceInv

\* A row that fails drops the non-fatal errors and keeps the samples.
LEMMA ValuesFailInv ==
  ASSUME Inv, call = "namespace", ValuesFail
  PROVE  Inv'
<1>. USE DEF ValuesFail, RowFails, MoreRows, Return
<1>0. StreamInv /\ MapsInv /\ NamespaceInv
  BY DEF Inv
<1>1. StreamInv' /\ MapsInv'
  BY <1>0 DEF StreamInv, MapsInv, Asking
<1>2. LaterRowsComplete'
  <2>1. /\ LaterRowsComplete /\ result # "error" /\ result' = "error"
        /\ UNCHANGED <<cols, ver, sent, emitted>> /\ nonfatal' = {}
    BY <1>0 DEF NamespaceInv, StreamInv
  <2>. HIDE DEF ValuesFail
  <2>. QED  BY <2>1, LaterRowsStay
<1>3. NamespaceInv'
  BY <1>0, <1>2 DEF NamespaceInv, Rows
<1>. QED  BY <1>1, <1>3 DEF Inv

\* A row of an answer, with what is emitted of it.
LEMMA DeliverRow ==
  ASSUME NEW S, sent \in Seq(S), NEW x \in S, NEW e, e.row = Len(sent) + 1,
         sent' = Append(sent, x), emitted' = emitted \cup {e},
         \A f \in emitted : f.row \in 1 .. Len(sent),
         \A k \in 1 .. Len(sent) : \E f \in emitted : f.row = k
  PROVE  /\ sent' \in Seq(S) /\ Len(sent') = Len(sent) + 1
         /\ sent'[Len(sent) + 1] = x
         /\ \A k \in 1 .. Len(sent) : sent'[k] = sent[k]
         /\ \A f \in emitted' : f.row \in 1 .. Len(sent')
         /\ \A k \in 1 .. Len(sent') : \E f \in emitted' : f.row = k
<1>1. Len(sent) \in Nat /\ sent' \in Seq(S) /\ Len(sent') = Len(sent) + 1
  OBVIOUS
<1>2. sent'[Len(sent) + 1] = x /\ \A k \in 1 .. Len(sent) : sent'[k] = sent[k]
  OBVIOUS
<1>3. \A f \in emitted' : f.row \in 1 .. Len(sent')
  BY <1>1
<1>4. ASSUME NEW k \in 1 .. Len(sent') PROVE \E f \in emitted' : f.row = k
  <2>1. CASE k = Len(sent) + 1
    BY <2>1
  <2>2. CASE k \in 1 .. Len(sent)
    BY <2>2
  <2>. QED  BY <1>1, <2>1, <2>2
<1>. QED  BY <1>1, <1>2, <1>3, <1>4

\* Each setting yields its metric, converted.
LEMMA NextSettingInv ==
  ASSUME Inv, call = "settings", NextSetting, UNCHANGED namespace
  PROVE  Inv'
<1>. USE DEF NextSetting, MoreRows, namespace
<1>0. StreamInv /\ MapsInv /\ SettingsInv /\ DeliveredInv /\ result = "none"
  BY DEF Inv, StreamInv
<1>1. PICK s \in Setting :
        /\ Recognised(s) /\ sent' = Append(sent, s)
        /\ emitted' = emitted \cup {[row |-> Len(sent) + 1, metric |-> Metric(s)]}
  OBVIOUS
<1>2. StreamInv' /\ MapsInv'
  BY <1>0 DEF StreamInv, MapsInv, Asking
<1>3. /\ sent' \in Seq(Setting) /\ Len(sent') = Len(sent) + 1
      /\ sent'[Len(sent) + 1] = s
      /\ \A k \in 1 .. Len(sent) : sent'[k] = sent[k]
      /\ \A f \in emitted' : f.row \in 1 .. Len(sent')
      /\ \A k \in 1 .. Len(sent') : \E f \in emitted' : f.row = k
  BY <1>0, <1>1, DeliverRow DEF SettingsInv, DeliveredInv
<1>4. SettingsInv'
  <2>. SUFFICES ASSUME NEW e \in emitted'
       PROVE  e.metric = Metric(sent'[e.row]) /\ Recognised(sent'[e.row])
    BY <1>3 DEF SettingsInv, Metric, Recognised
  <2>1. CASE e \in emitted
    BY <1>0, <1>3, <2>1 DEF SettingsInv
  <2>2. CASE e = [row |-> Len(sent) + 1, metric |-> Metric(s)]
    BY <1>1, <1>3, <2>2
  <2>. QED  BY <1>1, <2>1, <2>2
<1>5. DeliveredInv'
  BY <1>3 DEF DeliveredInv
<1>. QED  BY <1>2, <1>4, <1>5 DEF Inv

\* A row of a setting that ends the call, with an error or a panic.
LEMMA LastSettingInv ==
  ASSUME Inv, call = "settings", UnknownUnit \/ ScanSettingFails, UNCHANGED namespace
  PROVE  Inv'
<1>. USE DEF UnknownUnit, ScanSettingFails, RowFails, Return, MoreRows, namespace
<1>0. StreamInv /\ MapsInv /\ SettingsInv /\ DeliveredInv
  BY DEF Inv
<1>1. StreamInv' /\ MapsInv'
  BY <1>0 DEF StreamInv, MapsInv, Asking
<1>2. /\ sent' \in Seq(Setting) /\ Len(sent') >= Len(sent) /\ Len(sent) \in Nat
      /\ \A k \in 1 .. Len(sent) : sent'[k] = sent[k]
      /\ emitted' = emitted
  BY <1>0 DEF SettingsInv
<1>3. SettingsInv'
  <2>. SUFFICES ASSUME NEW e \in emitted
       PROVE  /\ e.row \in 1 .. Len(sent')
              /\ e.metric = Metric(sent'[e.row]) /\ Recognised(sent'[e.row])
    BY <1>2 DEF SettingsInv, Metric, Recognised
  <2>. QED  BY <1>0, <1>2 DEF SettingsInv
<1>4. DeliveredInv'
  BY <1>0, <1>2 DEF DeliveredInv
<1>. QED  BY <1>1, <1>3, <1>4 DEF Inv

\* A name is collected; a name that cannot be read discards the others.
LEMMA DatabaseInv ==
  ASSUME Inv, call = "databases", NextDatabase \/ ScanDatabaseFails, UNCHANGED namespace
  PROVE  Inv'
<1>. USE DEF MoreRows, namespace
<1>0. /\ StreamInv /\ MapsInv /\ DeliveredInv /\ sent \in Seq(Name)
  BY DEF Inv
<1>1. CASE NextDatabase
  <2>0. result = "none"
    BY <1>0, <1>1 DEF NextDatabase, StreamInv
  <2>1. PICK name \in Name :
          /\ sent' = Append(sent, name)
          /\ emitted' = emitted \cup {[row |-> Len(sent) + 1, name |-> name]}
    BY <1>1 DEF NextDatabase
  <2>2. /\ sent' \in Seq(Name)
        /\ \A f \in emitted' : f.row \in 1 .. Len(sent')
        /\ \A k \in 1 .. Len(sent') : \E f \in emitted' : f.row = k
    BY <1>0, <1>1, <2>0, <2>1, DeliverRow DEF NextDatabase, DeliveredInv
  <2>3. StreamInv' /\ MapsInv'
    BY <1>0, <1>1 DEF NextDatabase, StreamInv, MapsInv, Asking
  <2>4. DeliveredInv'
    BY <1>1, <2>0, <2>2 DEF NextDatabase, DeliveredInv
  <2>. QED  BY <1>1, <2>2, <2>3, <2>4 DEF Inv, NextDatabase
<1>2. CASE ScanDatabaseFails
  <2>. USE DEF ScanDatabaseFails, RowFails, Return
  <2>1. StreamInv' /\ MapsInv'
    BY <1>0, <1>2 DEF StreamInv, MapsInv, Asking
  <2>2. DeliveredInv'
    BY <1>2 DEF DeliveredInv
  <2>. QED  BY <1>0, <1>2, <2>1, <2>2 DEF Inv
<1>. QED  BY <1>1, <1>2

\* Every step of a call preserves Inv.
LEMMA NextInv == Inv /\ [Next]_vars => Inv'
<1>. SUFFICES ASSUME Inv, [Next]_vars PROVE Inv'
  OBVIOUS
<1>0. StreamInv
  BY DEF Inv
<1>1. CASE QueryNamespaceMapping
  <2>. USE DEF QueryNamespaceMapping
  <2>1. CASE FirstRow \/ NextRow \/ ValuesFail
    BY <1>1, <2>1, FirstRowInv, NextRowInv, ValuesFailInv
  <2>2. CASE (Acquire \/ AcquireFails \/ RowsEnd) /\ UNCHANGED namespace
    BY <1>0, <2>2, QuietInv DEF Acquire, AcquireFails, RowsEnd, Return, Quiet
  <2>3. CASE QueryDisabled \/ QueryNamespace
    <3>1. call = "namespace"
      BY <1>1
    <3>. QED  BY <2>3, <3>1, QuietInv
              DEF QueryDisabled, QueryNamespace, Query, QueryFails, Return, Quiet
  <2>. QED  BY <1>1, <2>1, <2>2, <2>3
<1>2. CASE (QuerySettings \/ QueryDatabases) /\ UNCHANGED namespace
  <2>1. call # "namespace" /\ UNCHANGED namespace
    BY <1>2 DEF QuerySettings, QueryDatabases
  <2>2. CASE call = "settings" /\ (NextSetting \/ UnknownUnit \/ ScanSettingFails)
    BY <2>1, <2>2, NextSettingInv, LastSettingInv
  <2>3. CASE call = "databases" /\ (NextDatabase \/ ScanDatabaseFails)
    BY <2>1, <2>3, DatabaseInv
  <2>4. CASE Acquire \/ AcquireFails \/ Query("rows") \/ QueryFails \/ RowsEnd
    BY <1>0, <2>1, <2>4, QuietInv
    DEF Acquire, AcquireFails, Query, QueryFails, RowsEnd, Return, Quiet
  <2>. QED  BY <1>2, <2>2, <2>3, <2>4 DEF QuerySettings, QueryDatabases
<1>3. CASE UNCHANGED vars
  <2>. USE <1>3 DEF vars, stream, namespace
  <2>1. StreamInv' /\ MapsInv'
    BY DEF Inv, StreamInv, MapsInv
  <2>2. call = "namespace" => NamespaceInv'
    <3>1. LaterRowsComplete' = LaterRowsComplete
      BY SamplesStay DEF LaterRowsComplete
    <3>. QED  BY <3>1 DEF Inv, NamespaceInv, Rows
  <2>3. (call = "settings" => SettingsInv') /\ (call # "namespace" => DeliveredInv')
    BY DEF Inv, SettingsInv, DeliveredInv
  <2>. QED  BY <2>1, <2>2, <2>3 DEF Inv
<1>. QED  BY <1>1, <1>2, <1>3 DEF Next

\* Inv holds in every reachable state.
THEOREM Invariance == Spec => []Inv
  BY InitInv, NextInv, PTL DEF Spec

\* Whichever return of the three calls is taken, the connection is back
\* (queries.go:252-276, :281-393, pg_setting.go:19-52).
THEOREM ConnectionBack == Spec => []ConnReturned
<1>1. Inv => ConnReturned
  BY DEF Inv, StreamInv, ConnReturned, Asking
<1>. QED  BY <1>1, Invariance, PTL

\* For answers of any length and any columns, each metric value after the first
\* row is emitted or counted, and nothing else is (queries.go:333-392).
THEOREM LaterRows == Spec => []LaterRowsComplete
<1>1. Inv => LaterRowsComplete
  BY DEF Inv, NamespaceInv, LaterRowsComplete
<1>. QED  BY <1>1, Invariance, PTL

\* For every version, the query that runs and the maps that read its answer are
\* of one dialect (queries.go:26-74, metric_maps.go).
THEOREM LagMatches == Spec => []LagOfTheDialect
<1>1. Inv => LagOfTheDialect
  <2>. SUFFICES ASSUME Inv, call = "namespace", pc = "rows", query # UserQuery
               PROVE  {c \in Columns : ~Discard(c, ver)} = LagColumn(query)
    BY DEF LagOfTheDialect
  <2>1. ver \in SemVer /\ query = QueryFor("pg_stat_replication", ver)
    BY DEF Inv, MapsInv, Queries
  <2>. QED  BY <2>1, LagAgrees
<1>. QED  BY <1>1, Invariance, PTL

\* For every setting, in every unit that normaliseUnit knows, the sample is the
\* quantity in seconds or bytes (pg_setting.go:54-151).
THEOREM SettingsRight == Spec => []SettingsConverted
<1>1. Inv => SettingsConverted
  <2>. SUFFICES ASSUME Inv, call = "settings", NEW e \in emitted,
                       sent[e.row].vartype # "bool"
               PROVE  e.metric.value =
                        IF sent[e.row].setting = -1 THEN Number(-1) ELSE Quantity(sent[e.row])
    BY DEF SettingsConverted
  <2>1. /\ sent[e.row] \in Setting /\ e.metric = Metric(sent[e.row])
        /\ UnitKnown(sent[e.row])
    BY DEF Inv, SettingsInv, Recognised
  <2>2. sent[e.row].setting \in Int
    BY <2>1, SettingAssumption DEF IsSetting
  <2>3. e.metric.value = NormaliseUnit(sent[e.row])
    BY <2>1 DEF Metric
  <2>. QED  BY <2>1, <2>2, <2>3, NormalisedIsQuantity
<1>. QED  BY <1>1, Invariance, PTL

\* Settings and databases are delivered from the first row of an answer on, and
\* no database of an answer that was rejected (queries.go:262-276).
THEOREM Delivered == Spec => []OtherAnswersDelivered
<1>1. Inv => OtherAnswersDelivered
  BY DEF Inv, StreamInv, DeliveredInv, OtherAnswersDelivered, Asking
<1>. QED  BY <1>1, Invariance, PTL

----------------------------------------------------------------------------
\* What TypeOK says beyond Inv: the columns of what has been emitted.
ColumnInv ==
  /\ call \in Call /\ ver \in Version /\ Len(sent) <= MaxRows
  /\ conn \in BOOLEAN /\ broken \in BOOLEAN /\ result \in {"none", "ok", "error"}
  /\ cols \in Result \cup {<<>>}
  /\ call = "namespace" =>
       /\ \A s \in emitted : s.column \in 1 .. Len(cols)
       /\ nonfatal \subseteq (1 .. Len(sent)) \X (1 .. Len(cols))
  /\ call = "databases" => \A s \in emitted : s.name \in Name

\* The columns hold from the start.
LEMMA ColumnInvInit == Init => ColumnInv
<1>. SUFFICES ASSUME Init PROVE ColumnInv
  OBVIOUS
<1>. USE DEF Init, StreamInit, NamespaceInit
<1>1. conn \in BOOLEAN /\ broken \in BOOLEAN
  OBVIOUS
<1>2. Len(sent) = 0
  OBVIOUS
<1>. QED  BY <1>1, <1>2, MaxRowsAssumption DEF ColumnInv

\* Every step preserves them.
LEMMA ColumnInvNext == Inv /\ ColumnInv /\ [Next]_vars => ColumnInv'
<1>. SUFFICES ASSUME Inv, ColumnInv, [Next]_vars PROVE ColumnInv'
  OBVIOUS
<1>. USE MaxRowsAssumption DEF ColumnInv
<1>0. StreamInv /\ MapsInv
  BY DEF Inv
<1>1. ASSUME UNCHANGED <<call, ver, cols, sent, emitted, nonfatal>>,
             conn' \in BOOLEAN, broken' \in BOOLEAN, result' \in {"none", "ok", "error"}
      PROVE  ColumnInv'
  BY <1>1
<1>2. CASE FirstRow
  BY <1>0, <1>2 DEF FirstRow, StreamInv, Asking
<1>3. CASE call = "namespace" /\ NextRow
  <2>1. PICK row \in Rows :
          /\ sent' = Append(sent, row)
          /\ emitted' = emitted \cup Samples(Len(sent) + 1, row)
          /\ nonfatal' = nonfatal \cup {<<Len(sent) + 1, i>> :
               i \in {j \in DOMAIN row : MetricColumn(j) /\ ~Float(row[j])}}
    BY <1>3 DEF NextRow
  <2>2. /\ Len(sent) \in Nat /\ Len(sent') = Len(sent) + 1 /\ Len(sent) < MaxRows
        /\ DOMAIN row = 1 .. Len(cols)
    BY <1>3, <2>1 DEF Inv, NamespaceInv, Rows, NextRow, MoreRows
  <2>3. \A s \in emitted' : s.column \in 1 .. Len(cols)
    BY <1>3, <2>1, <2>2 DEF Samples, Sample
  <2>4. nonfatal' \subseteq (1 .. Len(sent')) \X (1 .. Len(cols))
    BY <1>3, <2>1, <2>2
  <2>. QED  BY <1>3, <2>2, <2>3, <2>4 DEF NextRow
<1>4. CASE call = "namespace" /\ ValuesFail
  BY <1>4 DEF ValuesFail, RowFails, Return
<1>5. CASE call = "settings" /\ (NextSetting \/ UnknownUnit) /\ UNCHANGED namespace
  <2>1. sent \in Seq(Setting)
    BY <1>5 DEF Inv, SettingsInv
  <2>2. PICK s \in Setting : sent' = Append(sent, s)
    BY <1>5 DEF NextSetting, UnknownUnit
  <2>3. Len(sent') <= MaxRows
    BY <1>5, <2>1, <2>2 DEF NextSetting, UnknownUnit, MoreRows
  <2>4. conn' \in BOOLEAN
    BY <1>5 DEF NextSetting, UnknownUnit
  <2>. QED  BY <1>5, <2>3, <2>4 DEF NextSetting, UnknownUnit, namespace
<1>6. CASE call = "databases" /\ NextDatabase /\ UNCHANGED namespace
  <2>1. sent \in Seq(Name)
    BY <1>6 DEF Inv
  <2>2. Len(sent') <= MaxRows
    BY <1>6, <2>1 DEF NextDatabase, MoreRows
  <2>. QED  BY <1>6, <2>1, <2>2 DEF NextDatabase, namespace
<1>7. CASE call = "databases" /\ ScanDatabaseFails /\ UNCHANGED namespace
  BY <1>7 DEF ScanDatabaseFails, RowFails, Return, namespace
<1>8. CASE call = "settings" /\ ScanSettingFails /\ UNCHANGED namespace
  BY <1>1, <1>8 DEF ScanSettingFails, RowFails, Return, namespace
<1>9. CASE (Acquire \/ AcquireFails \/ Query("rows") \/ QueryFails \/ RowsEnd)
             /\ UNCHANGED namespace
  BY <1>1, <1>9 DEF Acquire, AcquireFails, Query, QueryFails, RowsEnd, Return, namespace
<1>10. CASE QueryDisabled \/ QueryNamespace
  BY <1>1, <1>10 DEF QueryDisabled, QueryNamespace, Query, QueryFails, Return, namespace
<1>11. CASE UNCHANGED vars
  BY <1>1, <1>11 DEF vars, stream, namespace
<1>. QED
  BY <1>2, <1>3, <1>4, <1>5, <1>6, <1>7, <1>8, <1>9, <1>10, <1>11
  DEF Next, QueryNamespaceMapping, QuerySettings, QueryDatabases

\* Every variable of a call holds a value of its type: in particular, what it
\* has emitted names a row that was sent and a column that the answer has.
THEOREM TypeCorrect == Spec => []TypeOK
<1>1. Inv /\ ColumnInv => TypeOK
  <2>. SUFFICES ASSUME Inv, ColumnInv PROVE TypeOK
    OBVIOUS
  <2>1. /\ call = "namespace" => NamespaceInv
        /\ call = "settings" => SettingsInv
        /\ call = "databases" => sent \in Seq(Name)
        /\ call # "namespace" => DeliveredInv
    BY DEF Inv
  <2>2. ASSUME NEW s PROVE Metric(s).unit \in {"", "seconds", "bytes"}
    BY DEF Metric, BaseUnit
  <2>3. SampleTypeOK
    <3>1. CASE call = "namespace"
      BY <2>1, <3>1 DEF SampleTypeOK, NamespaceInv, ColumnInv
    <3>2. CASE call = "settings"
      BY <2>1, <2>2, <3>2 DEF SampleTypeOK, SettingsInv
    <3>3. CASE call = "databases"
      BY <2>1, <3>3 DEF SampleTypeOK, DeliveredInv, ColumnInv
    <3>. QED  BY <3>1, <3>2, <3>3 DEF ColumnInv, Call
  <2>4. conn \in BOOLEAN
    BY DEF ColumnInv
  <2>. QED  BY <2>3, <2>4 DEF TypeOK, Inv, StreamInv, MapsInv, ColumnInv, Asking
<1>2. Spec => []ColumnInv
  BY Invariance, ColumnInvInit, ColumnInvNext, PTL DEF Spec
<1>. QED  BY <1>1, <1>2, Invariance, PTL

----------------------------------------------------------------------------
(* Refinement: what the callers of the three calls take them for.          *)

\* A step inside the call, or out of it.
LEMMA CallSeen ==
  /\ callPhase["caller"] = Phase /\ DOMAIN callPhase = {"caller"}
  /\ \A p : [callPhase EXCEPT !["caller"] = p] = [u \in {"caller"} |-> p]
  BY DEF callPhase

\* Taking rows, or sending the query, is nothing to the caller.
LEMMA RowsAreSilent ==
  ASSUME pc \in {"query", "first", "rows"}, pc' \in {"query", "first", "rows"},
         UNCHANGED <<conn, result>>
  PROVE  UNCHANGED <<callPhase, callHolding, callFailed>>
  BY DEF callPhase, callHolding, callFailed, Phase

\* A return with an error, from wherever it is.
LEMMA ErrorFails ==
  ASSUME Inv, pc \in {"acquire", "query", "first", "rows"}, Return("error")
  PROVE  Calls!Fails("caller")
<1>1. Phase \in {"acquiring", "running"} /\ Phase' = "idle"
  BY DEF Phase, Return
<1>2. callPhase' = [callPhase EXCEPT !["caller"] = "idle"]
  BY <1>1 DEF callPhase
<1>3. callHolding' = callHolding \ {"caller"} /\ callFailed' = callFailed \cup {"caller"}
  BY DEF callHolding, callFailed, Return
<1>. QED  BY <1>1, <1>2, <1>3, CallSeen DEF Calls!Fails

\* A return with an answer.
LEMMA AnswerAnswers ==
  ASSUME Inv, pc \in {"query", "first", "rows"}, Return("ok")
  PROVE  Calls!Answered("caller")
<1>1. Phase = "running" /\ Phase' = "idle"
  BY DEF Phase, Return
<1>2. callPhase' = [callPhase EXCEPT !["caller"] = "idle"]
  BY <1>1 DEF callPhase
<1>3. callHolding' = callHolding \ {"caller"}
  BY DEF callHolding, Return
<1>4. callFailed' = callFailed
  BY DEF callFailed, Return, Inv, StreamInv, Asking
<1>. QED  BY <1>1, <1>2, <1>3, <1>4, CallSeen DEF Calls!Answered

\* Each step of each call is a step of QueryCall, or a stutter.
LEMMA CallStep ==
  Inv /\ [Next]_vars => [Calls!Next]_<<callPhase, callHolding, callFailed>>
<1>. SUFFICES ASSUME Inv, [Next]_vars
             PROVE  Calls!Next \/ UNCHANGED <<callPhase, callHolding, callFailed>>
  OBVIOUS
<1>1. CASE Acquire
  <2>1. Phase = "acquiring" /\ Phase' = "running"
    BY <1>1 DEF Acquire, Phase
  <2>2. callPhase' = [callPhase EXCEPT !["caller"] = "running"]
    BY <2>1 DEF callPhase
  <2>3. callHolding' = callHolding \cup {"caller"} /\ callFailed' = callFailed
    BY <1>1 DEF Acquire, callHolding, callFailed
  <2>. QED  BY <2>1, <2>2, <2>3, CallSeen DEF Calls!Next, Calls!Acquired
<1>2. CASE AcquireFails \/ QueryFails \/ RowFails
  <2>1. pc \in {"acquire", "query", "rows"} /\ Return("error")
    BY <1>2 DEF AcquireFails, QueryFails, RowFails, MoreRows
  <2>. QED  BY <2>1, ErrorFails DEF Calls!Next
<1>3. CASE RowsEnd \/ QueryDisabled
  <2>1. pc \in {"query", "first", "rows"} /\ Return("ok")
    BY <1>3 DEF RowsEnd, QueryDisabled
  <2>. QED  BY <2>1, AnswerAnswers DEF Calls!Next
<1>4. CASE \/ Query("rows") \/ Query("first") \/ FirstRow \/ NextRow
           \/ NextSetting \/ NextDatabase
  <2>1. /\ pc \in {"query", "first", "rows"} /\ pc' \in {"query", "first", "rows"}
        /\ UNCHANGED <<conn, result>>
    BY <1>4 DEF Query, FirstRow, NextRow, NextSetting, NextDatabase, MoreRows
  <2>. QED  BY <2>1, RowsAreSilent
<1>5. CASE UnknownUnit
  <2>1. Phase = "running" /\ Phase' = "crashed"
    BY <1>5 DEF UnknownUnit, MoreRows, Phase
  <2>2. callPhase' = [callPhase EXCEPT !["caller"] = "crashed"]
    BY <2>1 DEF callPhase
  <2>3. callHolding' = callHolding \ {"caller"} /\ callFailed' = callFailed
    BY <1>5 DEF UnknownUnit, callHolding, callFailed
  <2>. QED  BY <2>1, <2>2, <2>3, CallSeen DEF Calls!Next, Calls!Crashes
<1>6. CASE UNCHANGED vars
  BY <1>6 DEF vars, stream, callPhase, callHolding, callFailed, Phase
<1>. QED
  BY <1>1, <1>2, <1>3, <1>4, <1>5, <1>6
  DEF Next, QueryNamespaceMapping, QueryNamespace, ValuesFail, QuerySettings,
      ScanSettingFails, QueryDatabases, ScanDatabaseFails

\* For any answer, broken off or not, querySettings, queryNamespaceMapping and
\* queryDatabases acquire a connection once, hold it from then until they return or
\* panic, and end with an answer, an error, or the process
\* (queries.go:248-277, :280-394, pg_setting.go:19-57).
THEOREM CallsAreCalls == Spec => ImplementsQueryCall
<1>1. Init => Calls!Init
  BY DEF Init, StreamInit, Calls!Init, callPhase, callHolding, callFailed, Phase
<1>2. Inv /\ [Next]_vars => [Calls!Next]_<<callPhase, callHolding, callFailed>>
  BY CallStep
<1>. QED  BY <1>1, <1>2, Invariance, PTL DEF Spec, ImplementsQueryCall, Calls!Spec
============================================================================
