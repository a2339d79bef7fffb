------------------------- MODULE MCHazardConfirmation -------------------------
(***************************************************************************)
(* One guarded type whose window and cooldown overlap in every way within  *)
(* six instants, and one type without a policy.                            *)
(***************************************************************************)
EXTENDS HazardConfirmation

CONSTANTS fire, other

MCTypes == {fire, other}
MCGuarded == {fire}
MCMin == [t \in MCGuarded |-> 1]
MCHits == [t \in MCGuarded |-> 3]
MCWindow == [t \in MCGuarded |-> 2]
MCCooldown == [t \in MCGuarded |-> 2]
=============================================================================
