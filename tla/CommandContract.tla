--------------------------- MODULE CommandContract ---------------------------
(***************************************************************************)
(* What the connector promises about a cloud-to-device command, whatever   *)
(* moves it: the lifecycle of internal/domain (CanTransition, "the single  *)
(* source of truth for the state machine") and the rule that only a        *)
(* command that really left the connector may ever be called DELIVERED.    *)
(* CommandLifecycle is shown to implement it.                              *)
(***************************************************************************)
CONSTANT Commands

VARIABLES st,    \* st[c]: the command's state, "NONE" before it is enqueued
          out    \* the commands handed to their device or provider so far

vars == <<st, out>>

CommandStates == {"PENDING", "DELIVERED", "ACKNOWLEDGED", "FAILED"}

\* domain.CanTransition: whether a command may move from one state to another.
CanTransition(from, to) ==
  \/ from = "PENDING"   /\ to \in {"DELIVERED", "FAILED"}
  \/ from = "DELIVERED" /\ to \in {"ACKNOWLEDGED", "FAILED"}

Init == /\ st = [c \in Commands |-> "NONE"]
        /\ out = {}

\* One command's share of a step: it is left alone, enqueued, or moved along
\* an edge of the state machine.
Moves(c) ==
  \/ st'[c] = st[c]
  \/ st[c] = "NONE" /\ st'[c] = "PENDING"
  \/ CanTransition(st[c], st'[c])

\* A step may move several commands (a poll claims a batch, the reaper fails
\* a batch). Handing out is irrevocable, needs an enqueued command, and is
\* what makes the move to DELIVERED legal.
Next ==
  /\ \A c \in Commands : Moves(c)
  /\ out \subseteq out'
  /\ \A c \in out' \ out : st'[c] # "NONE"
  /\ \A c \in Commands :
        st'[c] # st[c] /\ st'[c] = "DELIVERED" => c \in out'

Spec == Init /\ [][Next]_vars
=============================================================================
