---------------------------- MODULE SchemaHistory ----------------------------
(***************************************************************************)
(* What migrateSchema promises the owner of a database: the schema has a   *)
(* version, it goes up by one at a time, and each step up runs the script  *)
(* of the new version, for the first and only time, in the same instant.   *)
(* No connection, lock, failure or crash shows.                            *)
(***************************************************************************)
EXTENDS Naturals

CONSTANTS
  MaxVersion,  \* the schema versions are 1..MaxVersion
  ScriptLen    \* statements in each migration script

VARIABLES
  version,     \* the version of the schema
  runs         \* runs[v][i]: how often statement i of script v took effect

Times(v, n) == runs[v] = [i \in 1..ScriptLen |-> n]

Init ==
  /\ version = 0
  /\ runs = [v \in 1..MaxVersion |-> [i \in 1..ScriptLen |-> 0]]

Migrate ==
  /\ version < MaxVersion
  /\ Times(version + 1, 0)
  /\ version' = version + 1
  /\ runs' = [runs EXCEPT ![version + 1] = [i \in 1..ScriptLen |-> 1]]

Spec == Init /\ [][Migrate]_<<version, runs>>
=============================================================================
