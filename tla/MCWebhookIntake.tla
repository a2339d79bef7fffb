--------------------------- MODULE MCWebhookIntake ---------------------------
(***************************************************************************)
(* A hazard, an invalid hazard, a heartbeat and an unparsable delivery,    *)
(* in two handlers at a time. (No event that betagrid.Parse builds fails   *)
(* Validate today; the invalid one exercises the handler's branch for it,  *)
(* webhook.go:123-128.)                                                    *)
(***************************************************************************)
EXTENDS WebhookIntake, TLC

CONSTANTS hazard, invalid, beat, junk, h1, h2

MCEvents == {hazard, invalid}
MCMalformed == {invalid}
MCHeartbeats == {beat}
MCGarbage == {junk}
MCCalls == {h1, h2}
MCNone == {}
MCSymmetry == Permutations(MCCalls)
=============================================================================
