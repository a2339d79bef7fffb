--------------------------- MODULE MCProviderAccess ---------------------------
(***************************************************************************)
(* Two goroutines; one unit of time is the clients' timeout, and a token   *)
(* is due for refresh after two.                                           *)
(***************************************************************************)
EXTENDS ProviderAccess, TLC

CONSTANTS poller, dispatch

MCCallers == {poller, dispatch}
MCSymmetry == Permutations(MCCallers)
=============================================================================
