------------------------- MODULE MCKudeploySystem -------------------------
(* Instances of KudeploySystem for TLC. *)
EXTENDS KudeploySystem
===========================================================================
