--------------------------- MODULE MCEventPipeline ---------------------------
(***************************************************************************)
(* Two well-formed events, a malformed one, three goroutines (so that two  *)
(* copies of one event overlap with another event) and two streams.        *)
(***************************************************************************)
EXTENDS EventPipeline

CONSTANTS e1, e2, bad, h1, h2, h3, s1, s2

MCEvents == {e1, e2, bad}
MCMalformed == {bad}
MCCalls == {h1, h2, h3}
MCStreams == {s1, s2}
=============================================================================
