---------------------------- MODULE MCEdgeDelivery ----------------------------
(***************************************************************************)
(* Two events, one of which the handler refuses, and a snapshot through a  *)
(* queue of two; two requests in the connector at a time, so that a late   *)
(* one overlaps its own retry; one client of the live feed.                *)
(***************************************************************************)
EXTENDS EdgeDelivery

CONSTANTS e1, e2, t1, h1, h2, s1

MCEvents == {e1, e2}
MCRefused == {e2}
MCSnapshots == {t1}
MCCalls == {h1, h2}
MCStreams == {s1}
MCNone == {}
=============================================================================
