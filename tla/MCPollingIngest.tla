--------------------------- MODULE MCPollingIngest ---------------------------
(***************************************************************************)
(* Two good alerts; or a good one and one that cannot be normalized.       *)
(***************************************************************************)
EXTENDS PollingIngest

CONSTANTS e1, e2, bad, p

MCGood == {e1, e2}
MCMixed == {e1, bad}
MCBad == {bad}
MCCalls == {p}
MCNone == {}
=============================================================================
