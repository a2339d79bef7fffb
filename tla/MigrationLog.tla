---------------------------- MODULE MigrationLog ----------------------------
(***************************************************************************)
(* What startup promises about the database schema (storage.go:67, "applies *)
(* embedded migrations in filename order, recording each"): however many   *)
(* connectors start, fail and start again, the schema goes through the     *)
(* migrations one at a time, in order, each exactly once, and its record   *)
(* moves with it. ConnectorLife is shown to implement it.                  *)
(***************************************************************************)
EXTENDS Naturals, Sequences

CONSTANT Known   \* the migrations that some binary embeds, by number

VARIABLES log,       \* the migrations the schema went through, in order
          recorded   \* the rows of schema_migrations

vars == <<log, recorded>>

InOrder(k) == [i \in 1..k |-> i]

Init == \E k \in {0} \cup Known : log = InOrder(k) /\ recorded = 1..k

Apply == LET next == Len(log) + 1 IN
         /\ next \in Known
         /\ log' = InOrder(next)
         /\ recorded' = recorded \cup {next}

Spec == Init /\ [][Apply]_vars
=============================================================================
