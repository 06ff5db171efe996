--------------------------- MODULE MC_DncChecker ---------------------------
(* Instances of DncChecker for TLC; the bounds are in the configurations. *)
EXTENDS DncChecker, TLC
=============================================================================
