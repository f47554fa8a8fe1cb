--------------------------- MODULE VersionedMaps ---------------------------
(***************************************************************************)
(* What Server.mappingMtx, metricMap and queryOverrides promise together:  *)
(* each server has at most one complete set of query maps; it is replaced  *)
(* as a whole, only while nobody scrapes with it, and a scrape works with  *)
(* one and the same set from its start to its end.                         *)
(***************************************************************************)
CONSTANTS User, Object, Version, None, Rebuilding

VARIABLES
  maps,    \* Object -> None, Rebuilding, or [ver, user]
  users    \* Object -> the goroutines scraping with its maps

Snapshot == [ver : Version, user : BOOLEAN]

Init ==
  /\ maps  = [o \in Object |-> None]
  /\ users = [o \in Object |-> {}]

Rebuild(o) ==
  /\ users[o] = {}
  /\ maps[o] # Rebuilding
  /\ maps' = [maps EXCEPT ![o] = Rebuilding]
  /\ UNCHANGED users

\* The new maps are published; goroutines that waited for them go on.
Publish(o) ==
  /\ maps[o] = Rebuilding
  /\ \E m \in Snapshot : maps' = [maps EXCEPT ![o] = m]
  /\ \E W \in SUBSET User : users' = [users EXCEPT ![o] = W]

Join(u, o) ==
  /\ maps[o] # Rebuilding
  /\ users' = [users EXCEPT ![o] = @ \cup {u}]
  /\ UNCHANGED maps

Leave(u, o) ==
  /\ u \in users[o]
  /\ users' = [users EXCEPT ![o] = @ \ {u}]
  /\ UNCHANGED maps

Next == \E o \in Object :
  \/ Rebuild(o) \/ Publish(o)
  \/ \E u \in User : Join(u, o) \/ Leave(u, o)

Spec == Init /\ [][Next]_<<maps, users>>
============================================================================
