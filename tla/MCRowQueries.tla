---------------------------- MODULE MCRowQueries ---------------------------
(* Instances of RowQueries for TLC: versions on both sides of each boundary *)
(* of the tables; answers of up to two columns, among them a column no map  *)
(* mentions; settings in every unit the source names, the unit of a server  *)
(* built with blocks of 4kB, 0 and the special -1.                          *)
EXTENDS RowQueries

MCVersion == {<<9, 1, 24>>, <<9, 2, 0>>, <<9, 6, 17>>, <<10, 0, 0>>, <<12, 3, 0>>}
MCColumn == {"application_name", "pid", "pg_xlog_location_diff",
             "pg_wal_lsn_diff", "unknown"}
MCResult == {<<c>> : c \in MCColumn}
              \cup {cd \in MCColumn \X MCColumn : cd[1] # cd[2]}

MCSetting ==
  {[vartype |-> "integer", unit |-> u, setting |-> n] :
     u \in TimeUnits \cup SizeUnits \cup {"", "4kB"}, n \in {-1, 3}}
  \cup {[vartype |-> "real", unit |-> "ms", setting |-> 0]}
  \cup {[vartype |-> "bool", unit |-> "", setting |-> b] : b \in {"on", "off"}}
============================================================================
