-------------------------- MODULE MigrationLedger --------------------------
(***************************************************************************)
(* What the versioned migrations of app/db.py promise to everyone who      *)
(* opens the store, without claims, instances or failures: the statements  *)
(* of a version reach the schema only after every earlier version is       *)
(* complete, and a version is recorded as applied only once all of its     *)
(* statements did; neither is ever undone.  Migrations implements it.      *)
(***************************************************************************)
EXTENDS Integers

CONSTANTS NVersions,   \* migrations in the list, applied in order
          NStmts       \* statements of each migration

VARIABLES schema,      \* schema[v]: the statements of v the database has run
          applied      \* the versions recorded with a non-NULL applied_at

lvars == <<schema, applied>>

Versions == 1..NVersions
Stmts == 1..NStmts

LedgerInit ==
    /\ schema = [v \in Versions |-> {}]
    /\ applied = {}

RunStatement(v, s) ==
    /\ \A w \in 1..(v - 1) : schema[w] = Stmts
    /\ schema' = [schema EXCEPT ![v] = @ \cup {s}]
    /\ UNCHANGED applied

RecordApplied(v) ==
    /\ schema[v] = Stmts
    /\ applied' = applied \cup {v}
    /\ UNCHANGED schema

LedgerNext ==
    \E v \in Versions : RecordApplied(v) \/ \E s \in Stmts : RunStatement(v, s)

LedgerSpec == LedgerInit /\ [][LedgerNext]_lvars
=============================================================================
