---------------------------- MODULE MCDataStore -----------------------------
(***************************************************************************)
(* The data store with a few runs.                                         *)
(***************************************************************************)
EXTENDS DataStore

Scheduled == {"refresh", "pregame"}
AllWriters == {"refresh", "seed", "statcast"}
Pages == {"pages"}
Nobody == {}

\* Two values that are no dump: a unit is written for a first or a second save.
NoDump == {<<0, 2>>}
NoTables == {<<0, 3>>}

=============================================================================
