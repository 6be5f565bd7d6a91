-------------------------------- MODULE Rows --------------------------------
(***************************************************************************)
(* Tables with an INTEGER PRIMARY KEY, as functions from ids to rows: what *)
(* INSERT and DELETE do to them.  SQLite gives one more than the largest   *)
(* id in use, so that the id of a deleted row may be given again.          *)
(***************************************************************************)
EXTENDS Integers, FiniteSetsExt, Functions

NextId(table) == 1 + Max({0} \cup DOMAIN table)
WithRow(table, row) ==
    [id \in DOMAIN table \cup {NextId(table)} |-> IF id \in DOMAIN table THEN table[id] ELSE row]
Without(table, ids) == Restrict(table, DOMAIN table \ ids)
=============================================================================
