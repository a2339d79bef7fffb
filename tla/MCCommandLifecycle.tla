-------------------------- MODULE MCCommandLifecycle --------------------------
(***************************************************************************)
(* One device of each kind: one that polls, one the connector pushes to,   *)
(* and one that takes no commands.                                         *)
(***************************************************************************)
EXTENDS CommandLifecycle

CONSTANTS e1, p1, o1

MCEdge  == {e1}
MCPush  == {p1}
MCOther == {o1}
=============================================================================
