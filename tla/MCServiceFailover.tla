------------------------ MODULE MCServiceFailover ------------------------
(* Instances of ServiceFailover for TLC. *)
EXTENDS ServiceFailover
===========================================================================
