------------------------- MODULE MC_OutcomeDelivery -------------------------
(* Instances of OutcomeDelivery for TLC; the bounds are in the configurations. *)
EXTENDS OutcomeDelivery, TLC
=============================================================================
