------------------------- MODULE ServiceLifecycle -------------------------
(***************************************************************************)
(* The end of a Service, and the beginning of the next one of its name.    *)
(* The Service reconciler puts no finalizer on a Service: a deleted one is *)
(* gone at once, the garbage collector takes what it owned one by one, and *)
(* a Service of the same name may be there before it is done.  Objects are *)
(* read, patched and queued by name; only owner references know which      *)
(* Service is meant.  The namespace may end as well.                       *)
(*                                                                         *)
(* These are the steps of ServiceRollout, reduced to one spec and one env: *)
(* a Service needs a version as long as its status observes none, and that *)
(* version is number 1.  Services are made with the labels they need.  The *)
(* env Secret and the account are kept as the stable Service is, by the    *)
(* same calls, and left out.                                               *)
(***************************************************************************)
EXTENDS ApiObject, Naturals

CONSTANTS
    Absent,       \* the object does not exist
    MaxServices,  \* bound: Services of the name, one after the other
    MaxChanges,   \* bound: changes of readiness and owned objects deleted by hand
    MaxFaults,    \* bound: failed requests and ignored conflicts
    MaxLag        \* bound: events the cache has yet to receive when anybody but the
                  \* reconciler acts

ASSUME BoundsAssumption ==
    /\ MaxServices \in Nat \ {0}
    /\ MaxChanges \in Nat
    /\ MaxFaults \in Nat
    /\ MaxLag \in Nat \ {0}
---------------------------------------------------------------------------
VARIABLES
    service,     \* versions of the Kudeploy Service, cached to stored
    kubeService, \* of the stable Kubernetes Service
    deployment,  \* of the Kudeploy Deployment of version 1
    namespace,   \* "live" or "terminating"
    made,        \* Services made so far; the newest has this uid
    queued,      \* the Service's key waits in the work queue
    run,         \* the reconcile in progress
    spent        \* how much of each bound is used up

objects == <<service, kubeService, deployment, namespace>>
vars == <<objects, made, queued, run, spent>>

Uids == 1 .. MaxServices
Reasons == {"none", "DeploymentProgressing", "DeploymentReady", "DeploymentNotFound"}

\* released: observedGeneration, latestVersion, latestDeploymentName and
\* latestEnvSecretHash, which are assigned together.  active: activeVersion and
\* activeDeploymentName.
ServiceVersions ==
    [uid : Uids, released : BOOLEAN, active : BOOLEAN, reason : Reasons]

\* selects: the selector names the Deployment.
KubeServiceVersions == [owner : Uids, selects : BOOLEAN]
DeploymentVersions == [owner : Uids, ready : BOOLEAN]

ASSUME AbsentAssumption ==
    Absent \notin ServiceVersions \cup KubeServiceVersions \cup DeploymentVersions

NewService(uid) == [uid |-> uid, released |-> FALSE, active |-> FALSE, reason |-> "none"]

Steps == {"idle", "lookup", "deployment", "kubeService", "status"}
Plans == {"none", "version", "missing", "progressing", "promote"}
Runs == [step : Steps, plan : Plans, local : ServiceVersions]

Idle == [step |-> "idle", plan |-> "none", local |-> NewService(1)]

Init ==
    /\ service = Fresh(NewService(1))
    /\ kubeService = Fresh(Absent)
    /\ deployment = Fresh(Absent)
    /\ namespace = "live"
    /\ made = 1
    /\ queued = TRUE
    /\ run = Idle
    /\ spent = [changes |-> 0, faults |-> 0]
---------------------------------------------------------------------------
(***************************************************************************)
(* Reconcile                                                               *)
(***************************************************************************)
\* Mutant: a Service that is not found is reconciled all the same.
ReadServiceOrNot ==
    /\ run.step = "idle"
    /\ queued
    /\ LET found == IF Cached(service) = Absent THEN NewService(made) ELSE Cached(service)
       IN  run' = [step |-> IF found.released THEN "lookup" ELSE "deployment",
                   plan |-> IF found.released THEN "none" ELSE "version",
                   local |-> found]
    /\ queued' = FALSE
    /\ UNCHANGED <<objects, made, spent>>

\* A Service being deleted counts as gone.
ReadService ==
    /\ run.step = "idle"
    /\ queued
    /\ run' = IF Cached(service) = Absent THEN Idle
              ELSE [step |-> IF Cached(service).released THEN "lookup" ELSE "deployment",
                    plan |-> IF Cached(service).released THEN "none" ELSE "version",
                    local |-> Cached(service)]
    /\ queued' = FALSE
    /\ UNCHANGED <<objects, made, spent>>

GoOn(step) == run' = [run EXCEPT !.step = step] /\ UNCHANGED queued

\* An error ends the reconcile and queues the key again.
Retry == run' = Idle /\ queued' = TRUE

\* A Create: refused without an error where the namespace is terminating, and of no
\* effect where the object exists already.
Created(history, version) ==
    IF namespace = "live" /\ Stored(history) = Absent THEN Put(history, version) ELSE history

\* activeDeploymentSelector, or the selector of a promotion.
WantedKubeService ==
    [owner |-> run.local.uid, selects |-> run.plan = "promote" \/ run.local.active]

\* The owner references and the selector of the merge patch; whose the Service found is,
\* is not asked.
PatchedKubeService ==
    [owner |-> Merged(Cached(kubeService).owner, WantedKubeService.owner,
                      Stored(kubeService).owner),
     selects |-> Merged(Cached(kubeService).selects, WantedKubeService.selects,
                        Stored(kubeService).selects)]

\* createOrUpdateKubernetesService.  A Patch of what is gone is an error.
EnsureKubeService ==
    /\ run.step = "kubeService"
    /\ IF Cached(kubeService) = Absent
          THEN kubeService' = Created(kubeService, WantedKubeService) /\ GoOn("status")
       ELSE IF Stored(kubeService) = Absent
          THEN Retry /\ UNCHANGED kubeService
       ELSE kubeService' = Put(kubeService, PatchedKubeService) /\ GoOn("status")
    /\ UNCHANGED <<service, deployment, namespace, made, spent>>

\* createKudeployDeployment: one that exists is left alone, whoever it belongs to.
CreateDeployment ==
    /\ run.step = "deployment"
    /\ deployment' = IF Cached(deployment) # Absent THEN deployment
                     ELSE Created(deployment, [owner |-> run.local.uid, ready |-> FALSE])
    /\ GoOn("kubeService")
    /\ UNCHANGED <<service, kubeService, namespace, made, spent>>

PlanFor(found) ==
    IF found = Absent THEN "missing"
    ELSE IF found.ready THEN "promote" ELSE "progressing"

\* The Get of the latest Deployment in reconcileServiceTraffic.
LookUpLatest ==
    /\ run.step = "lookup"
    /\ run' = [run EXCEPT !.plan = PlanFor(Cached(deployment)),
                          !.step = IF Cached(deployment) = Absent THEN "status" ELSE "kubeService"]
    /\ UNCHANGED <<objects, made, queued, spent>>

\* Mutant: the Ready condition tells the plan for the reason.
PlanForReason(local) == [local EXCEPT !.released = TRUE, !.reason = run.plan]

WantedStatus(local) ==
    CASE run.plan = "version" ->
            [local EXCEPT !.released = TRUE, !.reason = "DeploymentProgressing"]
      [] run.plan = "missing" -> [local EXCEPT !.reason = "DeploymentNotFound"]
      [] run.plan = "progressing" -> [local EXCEPT !.reason = "DeploymentProgressing"]
      [] run.plan = "promote" ->
            [local EXCEPT !.active = TRUE, !.reason = "DeploymentReady"]

\* patchServiceStatus: by name, so it may land on a later Service; on none it fails.
PatchStatus ==
    /\ run.step = "status"
    /\ IF Stored(service) = Absent
          THEN queued' = TRUE /\ UNCHANGED service
          ELSE LET wanted == WantedStatus(run.local)
               IN  /\ service' = Put(service, [Stored(service) EXCEPT
                          !.released = Merged(run.local.released, wanted.released, @),
                          !.active = Merged(run.local.active, wanted.active, @),
                          !.reason = Merged(run.local.reason, wanted.reason, @)])
                   /\ UNCHANGED queued
    /\ run' = Idle
    /\ UNCHANGED <<kubeService, deployment, namespace, made, spent>>

\* ignoreConflict: somebody wrote the Service meanwhile, and nothing is retried.
PatchStatusConflict ==
    /\ run.step = "status"
    /\ Stored(service) \notin {Absent, run.local}
    /\ spent.faults < MaxFaults
    /\ run' = Idle
    /\ spent' = [spent EXCEPT !.faults = @ + 1]
    /\ UNCHANGED <<objects, made, queued>>

Fail ==
    /\ run.step # "idle"
    /\ spent.faults < MaxFaults
    /\ Retry
    /\ spent' = [spent EXCEPT !.faults = @ + 1]
    /\ UNCHANGED <<objects, made>>

Reconcile ==
    \/ ReadService
    \/ CreateDeployment \/ EnsureKubeService \/ LookUpLatest \/ PatchStatus
---------------------------------------------------------------------------
(***************************************************************************)
(* Watch events.  An owner reference is mapped to a key by its name.       *)
(***************************************************************************)
DeliverService ==
    /\ Pending(service)
    /\ service' = Deliver(service)
    /\ queued' = TRUE
    /\ UNCHANGED <<kubeService, deployment, namespace, made, run, spent>>

\* Mutant: the stable Service is not watched.
DeliverKubeServiceUnqueued ==
    /\ Pending(kubeService)
    /\ kubeService' = Deliver(kubeService)
    /\ UNCHANGED <<service, deployment, namespace, made, queued, run, spent>>

DeliverKubeService ==
    /\ Pending(kubeService)
    /\ kubeService' = Deliver(kubeService)
    /\ queued' = TRUE
    /\ UNCHANGED <<service, deployment, namespace, made, run, spent>>

DeliverDeployment ==
    /\ Pending(deployment)
    /\ deployment' = Deliver(deployment)
    /\ queued' = TRUE
    /\ UNCHANGED <<service, kubeService, namespace, made, run, spent>>

Resync ==
    /\ ~queued
    /\ queued' = TRUE
    /\ UNCHANGED <<objects, made, run, spent>>
---------------------------------------------------------------------------
(***************************************************************************)
(* Users, the Deployment controller, the garbage collector, the Namespace  *)
(* controller.                                                             *)
(***************************************************************************)
EventsUnderWay == Len(service) + Len(deployment) + Len(kubeService) - 3

CacheKeepsUp == EventsUnderWay <= MaxLag

DeleteService ==
    /\ Stored(service) # Absent
    /\ CacheKeepsUp
    /\ service' = Put(service, Absent)
    /\ UNCHANGED <<kubeService, deployment, namespace, made, queued, run, spent>>

MakeService ==
    /\ Stored(service) = Absent
    /\ CacheKeepsUp
    /\ namespace = "live"
    /\ made < MaxServices
    /\ made' = made + 1
    /\ service' = Put(service, NewService(made'))
    /\ UNCHANGED <<kubeService, deployment, namespace, queued, run, spent>>

DeleteKubeService ==
    /\ Stored(kubeService) # Absent
    /\ CacheKeepsUp
    /\ spent.changes < MaxChanges
    /\ kubeService' = Put(kubeService, Absent)
    /\ spent' = [spent EXCEPT !.changes = @ + 1]
    /\ UNCHANGED <<service, deployment, namespace, made, queued, run>>

DeleteDeployment ==
    /\ Stored(deployment) # Absent
    /\ CacheKeepsUp
    /\ spent.changes < MaxChanges
    /\ deployment' = Put(deployment, Absent)
    /\ spent' = [spent EXCEPT !.changes = @ + 1]
    /\ UNCHANGED <<service, kubeService, namespace, made, queued, run>>

WithOtherReadiness(version) == [version EXCEPT !.ready = ~ version.ready]

ChangeReadiness ==
    /\ Stored(deployment) # Absent
    /\ CacheKeepsUp
    /\ spent.changes < MaxChanges
    /\ deployment' = Put(deployment, WithOtherReadiness(Stored(deployment)))
    /\ spent' = [spent EXCEPT !.changes = @ + 1]
    /\ UNCHANGED <<service, kubeService, namespace, made, queued, run>>

DeleteNamespace ==
    /\ namespace = "live"
    /\ CacheKeepsUp
    /\ namespace' = "terminating"
    /\ UNCHANGED <<service, kubeService, deployment, made, queued, run, spent>>

\* What has an owner that is not there, and everything in a namespace that ends.
Orphan(version) ==
    /\ version # Absent
    /\ \/ namespace = "terminating"
       \/ Stored(service) = Absent
       \/ Stored(service) # Absent /\ Stored(service).uid # version.owner

CollectKubeService ==
    /\ Orphan(Stored(kubeService))
    /\ CacheKeepsUp
    /\ kubeService' = Put(kubeService, Absent)
    /\ UNCHANGED <<service, deployment, namespace, made, queued, run, spent>>

CollectDeployment ==
    /\ Orphan(Stored(deployment))
    /\ CacheKeepsUp
    /\ deployment' = Put(deployment, Absent)
    /\ UNCHANGED <<service, kubeService, namespace, made, queued, run, spent>>

CleanUp ==
    \/ CollectKubeService \/ CollectDeployment
    \/ namespace = "terminating" /\ DeleteService

Others ==
    \/ DeleteService \/ MakeService \/ DeleteNamespace
    \/ DeleteKubeService \/ DeleteDeployment \/ ChangeReadiness
---------------------------------------------------------------------------
Next ==
    \/ Reconcile \/ PatchStatusConflict \/ Fail
    \/ DeliverService \/ DeliverKubeService \/ DeliverDeployment
    \/ Resync
    \/ CleanUp \/ Others

Safety == Init /\ [][Next]_vars

\* The worker, the watches and the collectors go on; users, Deployments and faults
\* need not.
Fairness ==
    /\ WF_vars(Reconcile)
    /\ WF_vars(DeliverService)
    /\ WF_vars(DeliverDeployment)
    /\ WF_vars(DeliverKubeService)
    /\ WF_vars(CleanUp)

Spec == Safety /\ Fairness
---------------------------------------------------------------------------
TypeOK ==
    /\ service \in Histories(ServiceVersions \cup {Absent})
    /\ kubeService \in Histories(KubeServiceVersions \cup {Absent})
    /\ deployment \in Histories(DeploymentVersions \cup {Absent})
    /\ namespace \in {"live", "terminating"}
    /\ made \in Uids
    /\ queued \in BOOLEAN
    /\ run \in Runs
    /\ spent \in [changes : Nat, faults : Nat]

NothingLeft == Stored(deployment) = Absent /\ Stored(kubeService) = Absent

Owned(version, uid) == version # Absent /\ version.owner = uid

\* What the Service wants is there and is its own, and its status says what is so.  One
\* whose Deployment is missing says that, and no more is promised of it.
Settled ==
    IF Stored(service) = Absent THEN NothingLeft
    ELSE LET s == Stored(service)
             d == Stored(deployment)
         IN  /\ s.released
             /\ IF s.reason = "DeploymentNotFound" THEN d = Absent
                ELSE /\ Owned(d, s.uid)
                     /\ s.reason = IF d.ready THEN "DeploymentReady"
                                   ELSE "DeploymentProgressing"
                     /\ Owned(Stored(kubeService), s.uid)
                     /\ Stored(kubeService).selects = s.active

Quiescent ==
    /\ run.step = "idle" /\ ~queued
    /\ ~Pending(service) /\ ~Pending(deployment)
    /\ ~Pending(kubeService)
    /\ ~Orphan(Stored(deployment)) /\ ~Orphan(Stored(kubeService))
    /\ namespace = "terminating" => Stored(service) = Absent

\* Deleted, made again, adopted from a stale copy, collected late, refused by a namespace
\* that ends: a Service never comes to rest without what it wants or with a wrong answer.
RestsSettled == Quiescent => Settled

\* A Service that stays deleted leaves nothing behind, though a reconcile that still
\* sees it makes its objects anew; nor does a namespace that ends.
DeletedServiceEnds == <>[](Stored(service) = Absent) => <>[]NothingLeft

\* api/v1alpha1/service_types.go:106: latestDeploymentName is the newest Kudeploy
\* Deployment created for this Service.
LatestIsItsOwn ==
    Quiescent /\ Stored(service) # Absent
        => Owned(Stored(deployment), Stored(service).uid)
===========================================================================
