--------------------- MODULE ServiceRolloutRefinement ---------------------
(***************************************************************************)
(* The Service reconciler keeps the promises of Rollout.  Everything is    *)
(* read off the stored objects: the caches, the queue, the reconcile in    *)
(* progress, the env Secret and the account are its own business.          *)
(***************************************************************************)
EXTENDS ServiceRollout

\* The versions are numbered without gaps: as many as the last one's number.
ReleasedCount ==
    CHOOSE n \in 0 .. MaxVersion : \A v \in Versions : Exists(v) <=> v <= n

Abstract == INSTANCE Rollout WITH
    wanted   <- Stored(service).generation,
    released <- [v \in 1 .. ReleasedCount |-> Stored(deployment[v]).spec],
    proven   <- proven,
    traffic  <- IF Stored(kubeService) = Absent THEN 0 ELSE Stored(kubeService).selector,
    status   <- [observed |-> Stored(service).observed,
                 latest   |-> Stored(service).latest,
                 active   |-> Stored(service).active]

\* Every step of the Service controller, its users and its watches is a step of
\* Rollout or changes nothing Rollout knows about.
ImplementsRollout == Abstract!Spec
===========================================================================
