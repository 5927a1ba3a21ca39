----------------------- MODULE MCDeploymentRuntime -----------------------
(* Instances of DeploymentRuntime for TLC. *)
EXTENDS DeploymentRuntime
===========================================================================
