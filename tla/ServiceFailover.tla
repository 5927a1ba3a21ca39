------------------------- MODULE ServiceFailover -------------------------
(***************************************************************************)
(* The Service reconciler under leader election (cmd/main.go): a manager   *)
(* loses its lease in the middle of a reconcile, the next one starts over  *)
(* with its own cache and queue, and the write the first was about to send *)
(* reaches the API server whenever it will.  The lease fences nothing.     *)
(*                                                                         *)
(* What the first one was about to write it computes from its own copies,  *)
(* by the operators of ServiceRollout.  A late labels Update needs a       *)
(* current copy, and a late env Secret or ServiceAccount is what the next  *)
(* manager writes as well: neither is told apart here.                     *)
(***************************************************************************)
EXTENDS ServiceRollout

CONSTANT MaxTakeOvers  \* bound: managers that lose their lease

\* The Service has had its first version.
ASSUME TakeOverAssumption == MaxTakeOvers \in Nat /\ MaxVersion # 0

VARIABLES
    late,      \* the reconcile of the deposed manager whose write is under way, and
               \* the Kubernetes Service as that manager saw it
    takeOvers  \* how much of the bound is used up

failoverVars == <<vars, late, takeOvers>>

NothingLate == [run |-> Idle, seen |-> Absent]

\* ServiceRollout as the deposed manager sees it.
Deposed == INSTANCE ServiceRollout WITH
    run <- late.run, kubeService <- <<late.seen, Stored(kubeService)>>

\* The Service is at rest with its first version: the spec is about to be edited.
FailoverInit ==
    /\ service = Fresh([managed |-> TRUE, generation |-> 1, observed |-> 1, latest |-> 1,
                        hash |-> Empty, active |-> 1, reason |-> "DeploymentReady"])
    /\ secret = Fresh([owned |-> TRUE, data |-> Empty])
    /\ account = Fresh("present")
    /\ kubeService = Fresh([selector |-> 1, ports |-> 1])
    /\ deployment = [v \in Versions |->
                        Fresh(IF v = 1 THEN [spec |-> 1, ready |-> TRUE] ELSE Absent)]
    /\ queued = FALSE
    /\ run = Idle
    /\ proven = {1}
    /\ spent = [env |-> 0, readiness |-> 0, faults |-> 0]
    /\ late = NothingLate
    /\ takeOvers = 0
---------------------------------------------------------------------------
TakeOver ==
    /\ run.step \in {"deployment", "kubeService", "status"}
    /\ late = NothingLate
    /\ takeOvers < MaxTakeOvers
    /\ late' = [run |-> run, seen |-> Cached(kubeService)]
    /\ takeOvers' = takeOvers + 1
    /\ run' = Idle
    /\ queued' = TRUE
    /\ UNCHANGED <<objects, proven, spent>>

Landed ==
    /\ late' = NothingLate
    /\ UNCHANGED <<secret, account, queued, run, proven, spent, takeOvers>>

\* A Create, which does nothing to a Deployment that is there by now.
LateCreate ==
    /\ late.run.step = "deployment"
    /\ LET v == NextVersion(late.run.local)
       IN  /\ v \in Versions
           /\ deployment' =
                IF Stored(deployment[v]) # Absent THEN deployment
                ELSE [deployment EXCEPT
                        ![v] = Put(@, [spec |-> late.run.local.generation, ready |-> FALSE])]
    /\ UNCHANGED <<service, kubeService>>
    /\ Landed

LateKubeService ==
    /\ late.run.step = "kubeService"
    /\ kubeService' = Put(kubeService, Deposed!PatchedKubeService)
    /\ UNCHANGED <<service, deployment>>
    /\ Landed

LateStatus ==
    /\ late.run.step = "status"
    /\ service' = Put(service,
                      MergedStatus(late.run.local, Deposed!WantedStatus(late.run.local),
                                   Stored(service)))
    /\ UNCHANGED <<kubeService, deployment>>
    /\ Landed

LateWrite == LateCreate \/ LateKubeService \/ LateStatus

FailoverNext ==
    \/ Next /\ UNCHANGED <<late, takeOvers>>
    \/ TakeOver
    \/ LateWrite

FailoverSafety == FailoverInit /\ [][FailoverNext]_failoverVars
---------------------------------------------------------------------------
\* Versions have no gaps and no later one captures an older spec, even when a deposed
\* manager creates its version last.
VersionsStayOrdered ==
    /\ \A v \in Versions : v <= Stored(service).latest => Exists(v)
    /\ \A v, w \in Versions :
          Exists(w) /\ v < w
              => Exists(v) /\ Stored(deployment[v]).spec <= Stored(deployment[w]).spec

\* The next manager repairs what the late write of the last one did to the status or to
\* the stable Service, also when it had come to rest before.
RestsRepaired == Quiescent /\ late = NothingLate => Converged
===========================================================================
