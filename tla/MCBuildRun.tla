---------------------------- MODULE MCBuildRun ----------------------------
(* Instances of BuildRun for TLC. *)
EXTENDS BuildRun
===========================================================================
