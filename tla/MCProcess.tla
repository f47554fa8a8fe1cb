------------------------------ MODULE MCProcess ----------------------------
(* Instances of Process for TLC.                                           *)
EXTENDS ProcessProgress

On(f, h, p, db) == [form |-> f, host |-> h, port |-> p, database |-> db]

Plain == [name |-> <<>>, missing |-> FALSE, special |-> FALSE,
          uri |-> On("uri", "h", 5432, "a"), hostname |-> "pod",
          buildURI |-> FALSE, autoDiscover |-> FALSE, excluded |-> {"c"}, onlyDumpMaps |-> FALSE]
Named(s) == [Plain EXCEPT !.name = s]
MCDefaultServer == <<"pod", 5432>>
Discovering(env) == [env EXCEPT !.autoDiscover = TRUE]

\* One server; two on one host; one in other spellings; and the variables that
\* stand in for DATA_SOURCE_NAME, good and bad.
MCEnvironment ==
  {Named(<<On("uri", "h", 5432, "a"), On("escaped", "h", 5433, "a")>>),
   Named(<<On("pairs", "h", 5432, "a")>>),
   Named(<<On("broken", "h", 5432, "a")>>),
   Discovering(Named(<<On("uri", "h", 5432, "a")>>)),
   [Discovering(Named(<<On("pairs", "h", 5432, "a")>>))
      EXCEPT !.excluded = {"b", "c"}],
   [Discovering(Named(<<On("escaped", "h", 5432, "a")>>))
      EXCEPT !.excluded = {"b", "c"}],
   Discovering(Named(<<On("colon", "h", 5432, "a")>>)),
   [Plain EXCEPT !.buildURI = TRUE],
   [Plain EXCEPT !.missing = TRUE],
   [Plain EXCEPT !.buildURI = TRUE, !.special = TRUE],
   [Plain EXCEPT !.onlyDumpMaps = TRUE]}
============================================================================
