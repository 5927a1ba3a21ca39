------------------------- MODULE MCServiceRollout -------------------------
(* Instances of ServiceRollout for TLC. *)
EXTENDS ServiceRolloutRefinement
===========================================================================
