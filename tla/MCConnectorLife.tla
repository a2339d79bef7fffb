--------------------------- MODULE MCConnectorLife ---------------------------
(***************************************************************************)
(* A rolling update: a pod of the old version, whose binary embeds two     *)
(* migrations, and one of the new version, which adds a third. The first   *)
(* and the third create tables, as 0001_init.sql does, and cannot run      *)
(* twice; the second stands for a change of data, which can.               *)
(***************************************************************************)
EXTENDS ConnectorLife

CONSTANTS old, new

MCPods == {old, new}
MCEmbedded == [p \in MCPods |-> IF p = old THEN 2 ELSE 3]
MCRerunnable == {2}

\* The old pod is there to start, fail and stop beside the new one: what runs
\* in a pod that serves does not touch the other.
MCFollowed == [p \in MCPods |-> IF p = new THEN Goroutines ELSE {}]

Variables(url, key, alpha, credentials) ==
  [databaseURL |-> url, key |-> key, alphaURL |-> alpha, alphaCredentials |-> credentials]

MCEnvironments == {
  Variables(TRUE, "valid", TRUE, TRUE),
  Variables(TRUE, "valid", TRUE, FALSE),
  Variables(TRUE, "bad", FALSE, TRUE),
  Variables(FALSE, "valid", FALSE, TRUE)}
=============================================================================
