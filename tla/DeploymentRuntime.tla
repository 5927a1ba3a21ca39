------------------------ MODULE DeploymentRuntime ------------------------
(***************************************************************************)
(* The Deployment reconciler of internal/controller/                       *)
(* deployment_controller.go: one Kudeploy Deployment, which is one version *)
(* of a Service; the clone it keeps of the Service's env Secret; and the   *)
(* Kubernetes Deployment that runs it.  Users edit and delete any of them, *)
(* the Service's Secret changes under way, Kubernetes reports              *)
(* availability, and the whole namespace may be deleted.                   *)
(*                                                                         *)
(* A Secret is its data.  The spec of the Kubernetes Deployment is the     *)
(* spec it was built from.                                                 *)
(***************************************************************************)
EXTENDS ApiObject, Naturals

CONSTANTS
    EnvData,      \* contents of the Service env Secret
    FirstData,    \* its first content, which is none
    Absent,       \* the object does not exist
    MaxSpec,      \* bound: specs of the Kudeploy Deployment
    MaxChanges,   \* bound: edits of the Deployment and of the env Secret, and edits,
                  \* deletions and changes of availability of the Kubernetes Deployment
    MaxFaults,    \* bound: failed requests and ignored conflicts
    MaxLag        \* bound: events the cache has yet to receive when anybody but the
                  \* reconciler acts

ASSUME FirstDataAssumption == FirstData \in EnvData

ASSUME BoundsAssumption ==
    /\ MaxSpec \in Nat \ {0}
    /\ MaxChanges \in Nat
    /\ MaxFaults \in Nat
    /\ MaxLag \in Nat \ {0}
---------------------------------------------------------------------------
VARIABLES
    owner,      \* versions of the Kudeploy Deployment, cached to stored
    source,     \* of the Service env Secret
    clone,      \* of the Deployment env Secret
    kube,       \* of the Kubernetes Deployment
    namespace,  \* of the namespace they are in
    queued,     \* the Deployment's key waits in the work queue
    run,        \* the reconcile in progress
    served,     \* the Kubernetes Deployment has been available
    spent       \* how much of each bound is used up

objects == <<owner, source, clone, kube, namespace>>
vars == <<objects, queued, run, served, spent>>

Reports == {"none", "progressing", "available"}

OwnerVersions == [labelled : BOOLEAN, spec : 1 .. MaxSpec, ready : Reports]
KubeVersions == [spec : 1 .. MaxSpec, available : BOOLEAN]

ASSUME AbsentAssumption ==
    Absent \notin OwnerVersions \cup KubeVersions \cup EnvData \cup {"live", "terminating"}

NewOwner(labelled) == [labelled |-> labelled, spec |-> 1, ready |-> "none"]

Steps == {"idle", "get", "env", "kube", "report"}
Runs == [step : Steps, local : OwnerVersions]

Idle == [step |-> "idle", local |-> NewOwner(TRUE)]

\* The Service reconciler has made the Deployment, with its labels, and the env Secret,
\* which the cache need not show yet; a Deployment made by a user has no labels.
Init ==
    /\ owner \in {Fresh(NewOwner(labelled)) : labelled \in BOOLEAN}
    /\ source \in {Fresh(FirstData), <<Absent, FirstData>>}
    /\ clone = Fresh(Absent)
    /\ kube = Fresh(Absent)
    /\ namespace = Fresh("live")
    /\ queued = TRUE
    /\ run = Idle
    /\ served = FALSE
    /\ spent = [changes |-> 0, faults |-> 0]
---------------------------------------------------------------------------
(***************************************************************************)
(* Reconcile                                                               *)
(***************************************************************************)
Starts == run.step = "idle" /\ queued

\* A Deployment being deleted counts as gone.  namespaceIsTerminating: a namespace that
\* is not found counts as terminating.
Proceeds == Cached(owner) # Absent /\ Cached(namespace) = "live"

\* ensureDeploymentMetadata.
NeedsMetadata == ~Cached(owner).labelled

SkipDeployment ==
    /\ Starts
    /\ ~Proceeds
    /\ queued' = FALSE
    /\ UNCHANGED <<objects, run, served, spent>>

ReadDeployment ==
    /\ Starts
    /\ Proceeds
    /\ ~NeedsMetadata
    /\ run' = [step |-> "env", local |-> Cached(owner)]
    /\ queued' = FALSE
    /\ UNCHANGED <<objects, served, spent>>

\* The Update of the labels, which needs a current copy.
LabelDeployment ==
    /\ Starts
    /\ Proceeds
    /\ NeedsMetadata
    /\ Cached(owner) = Stored(owner)
    /\ owner' = Put(owner, [Stored(owner) EXCEPT !.labelled = TRUE])
    /\ run' = [Idle EXCEPT !.step = "get"]
    /\ queued' = FALSE
    /\ UNCHANGED <<source, clone, kube, namespace, served, spent>>

LabelFails ==
    /\ Starts
    /\ Proceeds
    /\ NeedsMetadata
    /\ Cached(owner) # Stored(owner)
    /\ UNCHANGED vars

\* An error ends the reconcile and queues the key again.
Retry == run' = Idle /\ queued' = TRUE

GoOn(step) == run' = [run EXCEPT !.step = step] /\ UNCHANGED queued

\* Mutant: the error of the Get is dropped.
GetUnchecked ==
    /\ run.step = "get"
    /\ run' = [step |-> "env", local |-> Cached(owner)]
    /\ UNCHANGED <<objects, queued, served, spent>>

\* The Get after the Update reads the cache; not found is an error.
GetLabelled ==
    /\ run.step = "get"
    /\ IF Cached(owner) = Absent
          THEN Retry
          ELSE run' = [step |-> "env", local |-> Cached(owner)] /\ UNCHANGED queued
    /\ UNCHANGED <<objects, served, spent>>

\* A Create: refused without an error where the namespace is terminating, and of no
\* effect where the object exists already.
Created(history, version) ==
    IF Stored(namespace) = "live" /\ Stored(history) = Absent
       THEN Put(history, version) ELSE history

\* In a namespace that is gone altogether a Create is an error.
GoOnCreated(step) == IF Stored(namespace) = Absent THEN Retry ELSE GoOn(step)

\* createOrUpdateDeploymentEnvSecret: copy the Service's Secret, once.
CloneEnv ==
    /\ run.step = "env"
    /\ Cached(source) # Absent
    /\ Cached(clone) = Absent
    /\ clone' = Created(clone, Cached(source))
    /\ GoOnCreated("kube")
    /\ UNCHANGED <<owner, source, kube, namespace, served, spent>>

\* A clone that is there keeps its data; only its metadata is patched.
KeepClone ==
    /\ run.step = "env"
    /\ Cached(source) # Absent
    /\ Cached(clone) # Absent
    /\ IF Stored(clone) = Absent THEN Retry ELSE GoOn("kube")
    /\ UNCHANGED <<objects, served, spent>>

\* Mutant: a Deployment needs no env Secret.
GoWithoutSource ==
    /\ run.step = "env"
    /\ Cached(source) = Absent
    /\ GoOn("kube")
    /\ UNCHANGED <<objects, served, spent>>

\* Mutant: nobody tries again.
GiveUpWithoutSource ==
    /\ run.step = "env"
    /\ Cached(source) = Absent
    /\ run' = Idle
    /\ UNCHANGED <<objects, queued, served, spent>>

\* Mutant: a Secret that is not found counts as an empty one.
CloneNothing ==
    /\ run.step = "env"
    /\ Cached(source) = Absent
    /\ clone' = Created(clone, FirstData)
    /\ GoOnCreated("kube")
    /\ UNCHANGED <<owner, source, kube, namespace, served, spent>>

\* Without the Service's Secret the reconcile fails, until the cache shows it.
MissSource ==
    /\ run.step = "env"
    /\ Cached(source) = Absent
    /\ Retry
    /\ UNCHANGED <<objects, served, spent>>

\* createOrUpdateKubernetesDeployment.
CreateKube ==
    /\ run.step = "kube"
    /\ Cached(kube) = Absent
    /\ kube' = Created(kube, [spec |-> run.local.spec, available |-> FALSE])
    /\ GoOnCreated("report")
    /\ UNCHANGED <<owner, source, clone, namespace, served, spent>>

\* Nothing is sent if the cached one is as it should be.
KeepKube ==
    /\ run.step = "kube"
    /\ Cached(kube) # Absent
    /\ Cached(kube).spec = run.local.spec
    /\ GoOn("report")
    /\ UNCHANGED <<objects, served, spent>>

PatchKube ==
    /\ run.step = "kube"
    /\ Cached(kube) # Absent
    /\ Cached(kube).spec # run.local.spec
    /\ IF Stored(kube) = Absent
          THEN Retry /\ UNCHANGED kube
          ELSE kube' = Put(kube, [Stored(kube) EXCEPT !.spec = run.local.spec]) /\ GoOn("report")
    /\ UNCHANGED <<owner, source, clone, namespace, served, spent>>

\* The Get after the Create may not find it: done, the watch event brings it back.
FindNoKube ==
    /\ run.step = "report"
    /\ Cached(kube) = Absent
    /\ run' = Idle
    /\ UNCHANGED <<objects, queued, served, spent>>

\* Mutant: a Kubernetes Deployment that is there is available.
AnyReport == "available"

\* isKubernetesDeploymentAvailable.
Report == IF Cached(kube).available THEN "available" ELSE "progressing"

\* updateDeploymentStatus: a merge patch by name; without a Deployment it is an error.
PatchStatus ==
    /\ run.step = "report"
    /\ Cached(kube) # Absent
    /\ IF Stored(owner) = Absent
          THEN queued' = TRUE /\ UNCHANGED owner
          ELSE /\ owner' = Put(owner, [Stored(owner) EXCEPT
                                 !.ready = Merged(run.local.ready, Report, @)])
               /\ UNCHANGED queued
    /\ run' = Idle
    /\ UNCHANGED <<source, clone, kube, namespace, served, spent>>

\* ignoreConflict: somebody wrote the Deployment meanwhile, and nothing is retried.
PatchStatusConflict ==
    /\ run.step = "report"
    /\ Cached(kube) # Absent
    /\ Stored(owner) # run.local
    /\ spent.faults < MaxFaults
    /\ run' = Idle
    /\ spent' = [spent EXCEPT !.faults = @ + 1]
    /\ UNCHANGED <<objects, queued, served>>

\* Any other error, before or after its write, and the death of the process.
Fail ==
    /\ run.step # "idle"
    /\ spent.faults < MaxFaults
    /\ Retry
    /\ spent' = [spent EXCEPT !.faults = @ + 1]
    /\ UNCHANGED <<objects, served>>

Reconcile ==
    \/ SkipDeployment \/ ReadDeployment \/ LabelDeployment \/ LabelFails \/ GetLabelled
    \/ CloneEnv \/ KeepClone \/ MissSource
    \/ CreateKube \/ KeepKube \/ PatchKube \/ FindNoKube \/ PatchStatus
---------------------------------------------------------------------------
(***************************************************************************)
(* Watch events: SetupWithManager watches the Deployment and what it owns, *)
(* the clone and the Kubernetes Deployment.  The Service's Secret and the  *)
(* namespace only reach the cache.                                         *)
(***************************************************************************)
DeliverOwner ==
    /\ Pending(owner)
    /\ owner' = Deliver(owner)
    /\ queued' = TRUE
    /\ UNCHANGED <<source, clone, kube, namespace, run, served, spent>>

DeliverClone ==
    /\ Pending(clone)
    /\ clone' = Deliver(clone)
    /\ queued' = TRUE
    /\ UNCHANGED <<owner, source, kube, namespace, run, served, spent>>

\* Mutant: Kubernetes Deployments are not watched.
DeliverKubeUnqueued ==
    /\ Pending(kube)
    /\ kube' = Deliver(kube)
    /\ UNCHANGED <<owner, source, clone, namespace, queued, run, served, spent>>

DeliverKube ==
    /\ Pending(kube)
    /\ kube' = Deliver(kube)
    /\ queued' = TRUE
    /\ UNCHANGED <<owner, source, clone, namespace, run, served, spent>>

DeliverSource ==
    /\ Pending(source)
    /\ source' = Deliver(source)
    /\ UNCHANGED <<owner, clone, kube, namespace, queued, run, served, spent>>

DeliverNamespace ==
    /\ Pending(namespace)
    /\ namespace' = Deliver(namespace)
    /\ UNCHANGED <<owner, source, clone, kube, queued, run, served, spent>>

Resync ==
    /\ ~queued
    /\ queued' = TRUE
    /\ UNCHANGED <<objects, run, served, spent>>
---------------------------------------------------------------------------
(***************************************************************************)
(* Users, the Kubernetes Deployment controller, the garbage collector and  *)
(* the namespace controller.                                               *)
(***************************************************************************)
CacheKeepsUp ==
    Len(owner) + Len(source) + Len(clone) + Len(kube) + Len(namespace) - 5 <= MaxLag

MayChange == CacheKeepsUp /\ spent.changes < MaxChanges

EditSpec ==
    /\ Stored(owner) # Absent
    /\ Stored(owner).spec < MaxSpec
    /\ MayChange
    /\ owner' = Put(owner, [Stored(owner) EXCEPT !.spec = @ + 1])
    /\ spent' = [spent EXCEPT !.changes = @ + 1]
    /\ UNCHANGED <<source, clone, kube, namespace, queued, run, served>>

EditEnv(data) ==
    /\ Stored(source) \notin {Absent, data}
    /\ MayChange
    /\ source' = Put(source, data)
    /\ spent' = [spent EXCEPT !.changes = @ + 1]
    /\ UNCHANGED <<owner, clone, kube, namespace, queued, run, served>>

Drift(spec) ==
    /\ Stored(kube) # Absent
    /\ Stored(kube).spec # spec
    /\ MayChange
    /\ kube' = Put(kube, [Stored(kube) EXCEPT !.spec = spec])
    /\ spent' = [spent EXCEPT !.changes = @ + 1]
    /\ UNCHANGED <<owner, source, clone, namespace, queued, run, served>>

WithOtherAvailability(version) == [version EXCEPT !.available = ~ version.available]

ChangeAvailability ==
    /\ Stored(kube) # Absent
    /\ MayChange
    /\ kube' = Put(kube, WithOtherAvailability(Stored(kube)))
    /\ served' = TRUE
    /\ spent' = [spent EXCEPT !.changes = @ + 1]
    /\ UNCHANGED <<owner, source, clone, namespace, queued, run>>

DeleteKube ==
    /\ Stored(kube) # Absent
    /\ MayChange
    /\ kube' = Put(kube, Absent)
    /\ spent' = [spent EXCEPT !.changes = @ + 1]
    /\ UNCHANGED <<owner, source, clone, namespace, queued, run, served>>

DeleteOwner ==
    /\ Stored(owner) # Absent
    /\ CacheKeepsUp
    /\ owner' = Put(owner, Absent)
    /\ UNCHANGED <<source, clone, kube, namespace, queued, run, served, spent>>

DeleteNamespace ==
    /\ Stored(namespace) = "live"
    /\ CacheKeepsUp
    /\ namespace' = Put(namespace, "terminating")
    /\ UNCHANGED <<owner, source, clone, kube, queued, run, served, spent>>

\* What the Deployment owned goes with it, and everything goes with the namespace.
OwnerGone == Stored(owner) = Absent \/ Stored(namespace) # "live"

CollectClone ==
    /\ Stored(clone) # Absent
    /\ OwnerGone
    /\ CacheKeepsUp
    /\ clone' = Put(clone, Absent)
    /\ UNCHANGED <<owner, source, kube, namespace, queued, run, served, spent>>

CollectKube ==
    /\ Stored(kube) # Absent
    /\ OwnerGone
    /\ CacheKeepsUp
    /\ kube' = Put(kube, Absent)
    /\ UNCHANGED <<owner, source, clone, namespace, queued, run, served, spent>>

SweepSource ==
    /\ Stored(source) # Absent
    /\ Stored(namespace) = "terminating"
    /\ CacheKeepsUp
    /\ source' = Put(source, Absent)
    /\ UNCHANGED <<owner, clone, kube, namespace, queued, run, served, spent>>

FinishNamespace ==
    /\ Stored(namespace) = "terminating"
    /\ Stored(owner) = Absent /\ Stored(source) = Absent
    /\ Stored(clone) = Absent /\ Stored(kube) = Absent
    /\ namespace' = Put(namespace, Absent)
    /\ UNCHANGED <<owner, source, clone, kube, queued, run, served, spent>>

CleanUp ==
    \/ CollectClone \/ CollectKube \/ SweepSource \/ FinishNamespace
    \/ Stored(namespace) = "terminating" /\ DeleteOwner

Others ==
    \/ EditSpec
    \/ \E data \in EnvData : EditEnv(data)
    \/ \E spec \in 1 .. MaxSpec : Drift(spec)
    \/ ChangeAvailability \/ DeleteKube
    \/ DeleteOwner \/ DeleteNamespace
---------------------------------------------------------------------------
Next ==
    \/ Reconcile \/ PatchStatusConflict \/ Fail
    \/ DeliverOwner \/ DeliverClone \/ DeliverKube \/ DeliverSource \/ DeliverNamespace
    \/ Resync
    \/ CleanUp \/ Others

Safety == Init /\ [][Next]_vars

\* The worker goes on, watch events arrive, and Kubernetes collects what is to go.
\* Users need not do anything, nor need anything become available or fail.
Fairness ==
    /\ WF_vars(Reconcile)
    /\ WF_vars(DeliverOwner)
    /\ WF_vars(DeliverClone)
    /\ WF_vars(DeliverKube)
    /\ WF_vars(DeliverSource)
    /\ WF_vars(DeliverNamespace)
    /\ WF_vars(CleanUp)

Spec == Safety /\ Fairness
---------------------------------------------------------------------------
(***************************************************************************)
(* Properties                                                              *)
(***************************************************************************)
\* Every variable has its type.
TypeOK ==
    /\ owner \in Histories(OwnerVersions \cup {Absent})
    /\ source \in Histories(EnvData \cup {Absent})
    /\ clone \in Histories(EnvData \cup {Absent})
    /\ kube \in Histories(KubeVersions \cup {Absent})
    /\ namespace \in Histories({"live", "terminating", Absent})
    /\ queued \in BOOLEAN
    /\ run \in Runs
    /\ served \in BOOLEAN
    /\ spent \in [changes : Nat, faults : Nat]

\* A version keeps the env it was first given, however often the Service's Secret
\* changes and the reconcile is repeated: its pods all see one env.
CloneNeverChanges ==
    [][Stored(clone) # Absent => Stored(clone') \in {Stored(clone), Absent}]_vars

\* VersionEnv, as the API server has it.
Env == INSTANCE VersionEnv WITH clone <- Stored(clone), alive <- ~OwnerGone

\* The version's env is what the rest of the system counts on: given once, from what the
\* cache shows of the Service's env Secret, and never again while the version lives.
ImplementsVersionEnv == Env!Spec

\* A Kubernetes Deployment, whose pods mount the clone, is not there without it: the
\* refused, failed and repeated requests in between never get it there first.
KubeHasItsClone ==
    Stored(kube) # Absent /\ ~OwnerGone => Stored(clone) # Absent

\* The Deployment calls itself Ready, which is what gives it traffic, only if its
\* Kubernetes Deployment was available at some time.
ReadyWasServed ==
    Stored(owner) # Absent /\ Stored(owner).ready = "available" => served

\* What the Deployment wants is there and reported, or all of it is gone.
Converged ==
    IF OwnerGone
       THEN Stored(clone) = Absent /\ Stored(kube) = Absent
       ELSE /\ Stored(clone) # Absent
            /\ Stored(kube) # Absent
            /\ Stored(kube).spec = Stored(owner).spec
            /\ Stored(owner).labelled
            /\ Stored(owner).ready =
                  IF Stored(kube).available THEN "available" ELSE "progressing"

Quiescent ==
    /\ run.step = "idle" /\ ~queued
    /\ ~Pending(owner) /\ ~Pending(source) /\ ~Pending(clone)
    /\ ~Pending(kube) /\ ~Pending(namespace)
    /\ Stored(namespace) # "terminating"
    /\ OwnerGone => Stored(clone) = Absent /\ Stored(kube) = Absent

\* The reconciler never comes to rest short of that.
RestsConverged == Quiescent => Converged

\* When users and Kubernetes stop changing things, it gets there.
Converges == <>[]Converged
===========================================================================
