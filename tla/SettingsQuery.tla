--------------------------- MODULE SettingsQuery ---------------------------
(***************************************************************************)
(* querySettings, with normaliseUnit and metric of pgSetting.              *)
(*                                                                         *)
(* A number is thousandths * 2^exp2 / 1000: integers that stay small.      *)
(***************************************************************************)
EXTENDS RowStream, Integers

CONSTANT Setting    \* rows of pg_settings: vartype, unit and setting

\* A Boolean setting is "on" or "off"; the others are whole numbers here.
IsSetting(s) ==
  /\ s.vartype \in {"bool", "integer", "real"} /\ s.unit \in STRING
  /\ IF s.vartype = "bool" THEN s.setting \in {"on", "off"} ELSE s.setting \in Int

ASSUME SettingAssumption == \A s \in Setting : IsSetting(s)

TimeUnits == {"ms", "s", "min", "h", "d"}
SizeUnits == {"B", "kB", "MB", "GB", "TB",
              "8kB", "16kB", "32kB", "16MB", "32MB", "64MB"}

UnitKnown(s) == s.unit \in {""} \cup TimeUnits \cup SizeUnits

BaseUnit(u) ==
  CASE u \in TimeUnits -> "seconds" [] u \in SizeUnits -> "bytes" [] OTHER -> ""

\* Thousandths of a second in a unit of time: val /= 1000, val *= 60, ...
Thousandths(u) ==
  CASE u = "ms"  -> 1
    [] u = "min" -> 1000 * 60
    [] u = "h"   -> 1000 * 60 * 60
    [] u = "d"   -> 1000 * 60 * 60 * 24
    [] OTHER     -> 1000

\* val *= math.Pow(2, _).
Power(u) ==
  CASE u = "kB" -> 10   [] u = "MB" -> 20   [] u = "GB" -> 30   [] u = "TB" -> 40
    [] u = "8kB" -> 13  [] u = "16kB" -> 14 [] u = "32kB" -> 15
    [] u = "16MB" -> 24 [] u = "32MB" -> 25 [] u = "64MB" -> 26
    [] OTHER -> 0

Number(n) == [thousandths |-> 1000 * n, exp2 |-> 0]

ScaledAlways(s) ==
  [thousandths |-> s.setting * Thousandths(s.unit), exp2 |-> Power(s.unit)]

\* normaliseUnit of a unit it knows: -1 is special and not modified.
NormaliseUnit(s) ==
  IF s.setting = -1 THEN Number(-1)
  ELSE [thousandths |-> s.setting * Thousandths(s.unit), exp2 |-> Power(s.unit)]

\* metric: a Boolean counts 0 or 1, whatever its unit.
Metric(s) ==
  IF s.vartype = "bool"
    THEN [unit |-> "", value |-> Number(IF s.setting = "on" THEN 1 ELSE 0)]
    ELSE [unit |-> BaseUnit(s.unit), value |-> NormaliseUnit(s)]

Recognised(s) == s.vartype = "bool" \/ UnitKnown(s)

NextSetting ==
  /\ MoreRows
  /\ \E s \in Setting :
       /\ Recognised(s)
       /\ sent' = Append(sent, s)
       /\ emitted' = emitted \cup {[row |-> Len(sent) + 1, metric |-> Metric(s)]}
  /\ UNCHANGED <<call, pc, conn, broken, result>>

\* metric panics on a unit it does not know: the deferred calls run, nobody
\* recovers, the process ends.
UnknownUnit ==
  /\ MoreRows
  /\ \E s \in Setting : ~Recognised(s) /\ sent' = Append(sent, s)
  /\ pc' = "crashed" /\ conn' = FALSE
  /\ UNCHANGED <<call, broken, emitted, result>>

ScanSettingFails == RowFails /\ UNCHANGED emitted

QuerySettings ==
  /\ call = "settings"
  /\ \/ Acquire \/ AcquireFails \/ Query("rows") \/ QueryFails
     \/ NextSetting \/ UnknownUnit \/ ScanSettingFails \/ RowsEnd
============================================================================
