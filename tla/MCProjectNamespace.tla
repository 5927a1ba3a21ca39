------------------------ MODULE MCProjectNamespace ------------------------
(* Instances of ProjectNamespace for TLC. *)
EXTENDS ProjectNamespace
===========================================================================
