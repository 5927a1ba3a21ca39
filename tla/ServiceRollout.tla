-------------------------- MODULE ServiceRollout --------------------------
(***************************************************************************)
(* The Service reconciler of internal/controller/service_controller.go:    *)
(* one Kudeploy Service, the objects its controller owns (the env Secret,  *)
(* the runtime ServiceAccount, the stable Kubernetes Service and one       *)
(* Kudeploy Deployment per version), the work queue that runs Reconcile,   *)
(* and everyone else who touches these objects: the user who edits the     *)
(* spec or the env Secret, and the Deployment controller that reports      *)
(* readiness.                                                              *)
(*                                                                         *)
(* A reconcile is a sequence of steps, each one read of the cache and the  *)
(* write that follows it; users, the Deployment controller and watch       *)
(* events interleave between any two steps.                                *)
(*                                                                         *)
(* The content of a spec is its metadata.generation: two specs differ iff  *)
(* their generations do.  A version stands for the Deployment named after  *)
(* it, 0 for the empty name.  The env hash stands for the data it hashes.  *)
(***************************************************************************)
EXTENDS ApiObject, Naturals, FiniteSetsExt

CONSTANTS
    EnvData,              \* contents the user may give the env Secret
    Empty,                \* the content of a Secret the controller created
    NoHash,               \* status.latestEnvSecretHash never set
    Absent,               \* the object does not exist
    MaxVersion,           \* bound: versions of the Service
    MaxGeneration,        \* bound: edits of the Service spec, plus one
    MaxEdits,             \* bound: edits of the Service spec and of the env Secret
    MaxReadinessChanges,  \* bound: changes of Deployment readiness
    MaxFaults,            \* bound: failed requests and ignored conflicts
    MaxLag                \* bound: events the cache has yet to receive when anybody but
                          \* the reconciler acts

ASSUME ValuesAssumption ==
    /\ Empty \in EnvData
    /\ NoHash \notin EnvData

ASSUME BoundsAssumption ==
    /\ MaxVersion \in Nat
    /\ MaxGeneration \in Nat \ {0}
    /\ MaxEdits \in Nat
    /\ MaxReadinessChanges \in Nat
    /\ MaxFaults \in Nat
    /\ MaxLag \in Nat \ {0}
---------------------------------------------------------------------------
VARIABLES
    service,      \* versions of the Kudeploy Service, cached to stored
    secret,       \* of its env Secret
    account,      \* of its runtime ServiceAccount
    kubeService,  \* of the stable Kubernetes Service
    deployment,   \* deployment[v]: of the Kudeploy Deployment of version v
    queued,       \* the Service's key waits in the work queue
    run,          \* the reconcile in progress
    proven,       \* versions whose Deployment has been ready at some time
    spent         \* how much of each bound is used up

objects == <<service, secret, account, kubeService, deployment>>
vars == <<objects, queued, run, proven, spent>>

Versions == 1 .. MaxVersion
Hashes == EnvData \cup {NoHash}
Reasons == {"none", "DeploymentProgressing", "DeploymentReady", "DeploymentNotFound"}

\* The parts of a Service the reconciler reads or writes: whether the managed
\* labels are there, metadata.generation, and the status.
ServiceVersions ==
    [managed : BOOLEAN, generation : Nat \ {0}, observed : Nat, latest : 0 .. MaxVersion,
     hash : Hashes, active : 0 .. MaxVersion, reason : Reasons]

SecretVersions == [owned : BOOLEAN, data : EnvData]
KubeServiceVersions == [selector : 0 .. MaxVersion, ports : Nat]
DeploymentVersions == [spec : Nat, ready : BOOLEAN]

ASSUME AbsentAssumption ==
    Absent \notin SecretVersions \cup KubeServiceVersions \cup DeploymentVersions
                    \cup {"present"}

NewService ==
    [managed |-> FALSE, generation |-> 1, observed |-> 0, latest |-> 0,
     hash |-> NoHash, active |-> 0, reason |-> "none"]

(***************************************************************************)
(* What a reconcile knows: the step it is about to take, its copy of the   *)
(* Service, the env hash it computed, and where it is heading:             *)
(*   "version"   reconcileNewServiceVersion                                *)
(*   "missing", "progressing", "promote"  the three ends of                *)
(*               reconcileServiceTraffic                                   *)
(***************************************************************************)
Steps == {"idle", "get", "env", "lookup", "account", "deployment", "kubeService", "status"}
Plans == {"none", "version", "missing", "progressing", "promote"}
Runs == [step : Steps, plan : Plans, local : ServiceVersions, hash : Hashes]

Idle == [step |-> "idle", plan |-> "none", local |-> NewService, hash |-> NoHash]

\* The call that follows a call: the two functions make theirs in different orders.
After(step, plan) ==
    CASE step = "account"     -> IF plan = "version" THEN "deployment" ELSE "status"
      [] step = "deployment"  -> "kubeService"
      [] step = "kubeService" -> IF plan = "version" THEN "status" ELSE "account"

Advance == run' = [run EXCEPT !.step = After(run.step, run.plan)]
---------------------------------------------------------------------------
\* The user may have made the env Secret before the Service.
Init ==
    /\ service = Fresh(NewService)
    /\ secret \in {Fresh(Absent)} \cup
                  {Fresh([owned |-> FALSE, data |-> d]) : d \in EnvData}
    /\ account = Fresh(Absent)
    /\ kubeService = Fresh(Absent)
    /\ deployment = [v \in Versions |-> Fresh(Absent)]
    /\ queued = TRUE
    /\ run = Idle
    /\ proven = {}
    /\ spent = [env |-> 0, readiness |-> 0, faults |-> 0]
---------------------------------------------------------------------------
(***************************************************************************)
(* Reconcile: the Service read from the cache, its labels, its env Secret. *)
(***************************************************************************)
\* Mutant: the version is the generation.
VersionFromGeneration(local) == local.generation

NextVersion(local) == local.latest + 1

\* Mutant: a version whose Deployment the cache does not show is made again.
NeedsVersionSeen(local, hash) ==
    \/ local.observed # local.generation
    \/ local.hash # hash
    \/ local.latest # 0 /\ Cached(deployment[local.latest]) = Absent

NeedsNewVersion(local, hash) ==
    \/ local.observed # local.generation
    \/ local.hash # hash

\* ensureServiceMetadata.
NeedsMetadata == ~Cached(service).managed

\* The cached Service has its labels: go on with it.
ReadService ==
    /\ run.step = "idle"
    /\ queued
    /\ ~NeedsMetadata
    /\ run' = [Idle EXCEPT !.step = "env", !.local = Cached(service)]
    /\ queued' = FALSE
    /\ UNCHANGED <<objects, proven, spent>>

\* It has not: Update them, which succeeds only if the copy is current.
LabelService ==
    /\ run.step = "idle"
    /\ queued
    /\ NeedsMetadata
    /\ Cached(service) = Stored(service)
    /\ service' = Put(service, [Stored(service) EXCEPT !.managed = TRUE])
    /\ run' = [Idle EXCEPT !.step = "get"]
    /\ queued' = FALSE
    /\ UNCHANGED <<secret, account, kubeService, deployment, proven, spent>>

\* The Update conflicts: Requeue, which leaves the key in the queue.
LabelConflict ==
    /\ run.step = "idle"
    /\ queued
    /\ NeedsMetadata
    /\ Cached(service) # Stored(service)
    /\ UNCHANGED vars

\* The Get after the Update reads the cache, which may not show it yet.
GetLabelled ==
    /\ run.step = "get"
    /\ run' = [run EXCEPT !.step = "env", !.local = Cached(service)]
    /\ UNCHANGED <<objects, queued, proven, spent>>

\* The Secret createOrUpdateServiceEnvSecret leaves behind.
AdoptedSecret ==
    IF Stored(secret) = Absent THEN [owned |-> TRUE, data |-> Empty]
    ELSE IF Cached(secret) = Absent THEN Stored(secret)    \* AlreadyExists is ignored
    ELSE [Stored(secret) EXCEPT !.owned = Merged(Cached(secret).owned, TRUE, @)]

\* The hash is taken of what the function returns: the object it meant to
\* create, or the server's answer to the Patch, which is the stored data.
ReturnedData == IF Cached(secret) = Absent THEN Empty ELSE AdoptedSecret.data

EnsureEnvSecret ==
    /\ run.step = "env"
    /\ secret' = Put(secret, AdoptedSecret)
    /\ run' = IF NeedsNewVersion(run.local, ReturnedData)
                 THEN [run EXCEPT !.step = "account", !.plan = "version",
                                  !.hash = ReturnedData]
                 ELSE [run EXCEPT !.step = "lookup", !.hash = ReturnedData]
    /\ UNCHANGED <<service, account, kubeService, deployment, queued, proven, spent>>

(***************************************************************************)
(* The calls both functions make.                                          *)
(***************************************************************************)
\* createOrUpdateRuntimeServiceAccount.  What it patches is always the same.
EnsureAccount ==
    /\ run.step = "account"
    /\ account' = Put(account, "present")
    /\ Advance
    /\ UNCHANGED <<service, secret, kubeService, deployment, queued, proven, spent>>

\* Mutant: a Deployment of that version is overwritten.
OverwriteDeployment ==
    /\ run.step = "deployment"
    /\ LET v == NextVersion(run.local)
       IN  /\ v \in Versions
           /\ deployment' = [deployment EXCEPT
                 ![v] = Put(@, [spec |-> run.local.generation, ready |-> FALSE])]
    /\ Advance
    /\ UNCHANGED <<service, secret, account, kubeService, queued, proven, spent>>

\* createKudeployDeployment: one that exists, cached or not, is left alone.
CreateDeployment ==
    /\ run.step = "deployment"
    /\ LET v == NextVersion(run.local)
       IN  /\ v \in Versions
           /\ deployment' =
                IF Stored(deployment[v]) # Absent THEN deployment
                ELSE [deployment EXCEPT
                        ![v] = Put(@, [spec |-> run.local.generation, ready |-> FALSE])]
    /\ Advance
    /\ UNCHANGED <<service, secret, account, kubeService, queued, proven, spent>>

\* Mutant: the promotion routes to the version after the one it looked up.
SelectorOneAhead ==
    IF run.plan = "promote" THEN NextVersion(run.local) ELSE run.local.active

\* activeDeploymentSelector, or the new selector of a promotion.
WantedSelector ==
    IF run.plan = "promote" THEN run.local.latest ELSE run.local.active

\* createOrUpdateKubernetesService: selector and ports, as merged fields.
WantedKubeService ==
    [selector |-> WantedSelector, ports |-> run.local.generation]

PatchedKubeService ==
    IF Stored(kubeService) = Absent THEN WantedKubeService
    ELSE IF Cached(kubeService) = Absent THEN Stored(kubeService)  \* AlreadyExists
    ELSE [Stored(kubeService) EXCEPT
             !.selector = Merged(Cached(kubeService).selector,
                                 WantedKubeService.selector, @),
             !.ports = Merged(Cached(kubeService).ports, WantedKubeService.ports, @)]

EnsureKubeService ==
    /\ run.step = "kubeService"
    /\ kubeService' = Put(kubeService, PatchedKubeService)
    /\ Advance
    /\ UNCHANGED <<service, secret, account, deployment, queued, proven, spent>>

\* Mutant: the readiness of the Deployment is not asked.
PlanWithoutReadiness(found) == IF found = Absent THEN "missing" ELSE "promote"

\* The Get of the latest Deployment in reconcileServiceTraffic.
PlanFor(found) ==
    IF found = Absent THEN "missing"
    ELSE IF found.ready THEN "promote" ELSE "progressing"

LatestFound ==
    IF run.local.latest = 0 THEN Absent ELSE Cached(deployment[run.local.latest])

LookUpLatest ==
    /\ run.step = "lookup"
    /\ run' = [run EXCEPT !.plan = PlanFor(LatestFound),
                          !.step = IF LatestFound = Absent THEN "status" ELSE "kubeService"]
    /\ UNCHANGED <<objects, queued, proven, spent>>

(***************************************************************************)
(* patchServiceStatus, and what each function assigns before it.           *)
(***************************************************************************)
WantedStatus(local) ==
    CASE run.plan = "version" ->
            [local EXCEPT !.observed = local.generation,
                          !.latest = NextVersion(local),
                          !.hash = run.hash,
                          !.reason = "DeploymentProgressing"]
      [] run.plan = "missing" -> [local EXCEPT !.reason = "DeploymentNotFound"]
      [] run.plan = "progressing" -> [local EXCEPT !.reason = "DeploymentProgressing"]
      [] run.plan = "promote" ->
            [local EXCEPT !.active = local.latest, !.reason = "DeploymentReady"]

\* Mutant: the whole status is replaced, not merged.
ReplacedStatus(local, wanted, stored) ==
    [wanted EXCEPT !.managed = stored.managed, !.generation = stored.generation]

MergedStatus(local, wanted, stored) ==
    [stored EXCEPT
        !.observed = Merged(local.observed, wanted.observed, @),
        !.latest = Merged(local.latest, wanted.latest, @),
        !.hash = Merged(local.hash, wanted.hash, @),
        !.active = Merged(local.active, wanted.active, @),
        !.reason = Merged(local.reason, wanted.reason, @)]

PatchStatus ==
    /\ run.step = "status"
    /\ service' = Put(service,
                      MergedStatus(run.local, WantedStatus(run.local), Stored(service)))
    /\ run' = Idle
    /\ UNCHANGED <<secret, account, kubeService, deployment, queued, proven, spent>>

\* ignoreConflict: somebody wrote the Service meanwhile, and nothing is retried.
PatchStatusConflict ==
    /\ run.step = "status"
    /\ Stored(service) # run.local
    /\ spent.faults < MaxFaults
    /\ run' = Idle
    /\ spent' = [spent EXCEPT !.faults = @ + 1]
    /\ UNCHANGED <<objects, queued, proven>>

\* Any other error, before or after its write, and the death of the process: the
\* reconcile ends where it is and the key is queued again.
Fail ==
    /\ run.step # "idle"
    /\ spent.faults < MaxFaults
    /\ run' = Idle
    /\ queued' = TRUE
    /\ spent' = [spent EXCEPT !.faults = @ + 1]
    /\ UNCHANGED <<objects, proven>>

Reconcile ==
    \/ ReadService \/ LabelService \/ LabelConflict \/ GetLabelled
    \/ EnsureEnvSecret \/ EnsureAccount \/ CreateDeployment \/ EnsureKubeService
    \/ LookUpLatest \/ PatchStatus
---------------------------------------------------------------------------
(***************************************************************************)
(* Watch events: SetupWithManager watches the Service and what it owns.    *)
(***************************************************************************)
\* Mutant: the event of a changed Service is not queued.
DeliverServiceUnqueued ==
    /\ Pending(service)
    /\ service' = Deliver(service)
    /\ UNCHANGED <<secret, account, kubeService, deployment, queued, run, proven, spent>>

DeliverService ==
    /\ Pending(service)
    /\ service' = Deliver(service)
    /\ queued' = TRUE
    /\ UNCHANGED <<secret, account, kubeService, deployment, run, proven, spent>>

\* An object without an owner reference maps to no Service.
IsOwned(version) == version # Absent /\ version.owned

DeliverSecret ==
    /\ Pending(secret)
    /\ secret' = Deliver(secret)
    /\ queued' = (queued \/ IsOwned(Cached(secret)) \/ IsOwned(Cached(secret')))
    /\ UNCHANGED <<service, account, kubeService, deployment, run, proven, spent>>

DeliverAccount ==
    /\ Pending(account)
    /\ account' = Deliver(account)
    /\ queued' = TRUE
    /\ UNCHANGED <<service, secret, kubeService, deployment, run, proven, spent>>

\* Mutant: the stable Service is not watched.
DeliverKubeServiceUnqueued ==
    /\ Pending(kubeService)
    /\ kubeService' = Deliver(kubeService)
    /\ UNCHANGED <<service, secret, account, deployment, queued, run, proven, spent>>

DeliverKubeService ==
    /\ Pending(kubeService)
    /\ kubeService' = Deliver(kubeService)
    /\ queued' = TRUE
    /\ UNCHANGED <<service, secret, account, deployment, run, proven, spent>>

\* Mutant: Deployments are not watched.
DeliverDeploymentUnqueued(v) ==
    /\ Pending(deployment[v])
    /\ deployment' = [deployment EXCEPT ![v] = Deliver(@)]
    /\ UNCHANGED <<service, secret, account, kubeService, queued, run, proven, spent>>

DeliverDeployment(v) ==
    /\ Pending(deployment[v])
    /\ deployment' = [deployment EXCEPT ![v] = Deliver(@)]
    /\ queued' = TRUE
    /\ UNCHANGED <<service, secret, account, kubeService, run, proven, spent>>

\* The informers replay every object of their caches every ten hours.
Resync ==
    /\ ~queued
    /\ queued' = TRUE
    /\ UNCHANGED <<objects, run, proven, spent>>

Watch ==
    \/ DeliverService \/ DeliverSecret \/ DeliverAccount \/ DeliverKubeService
    \/ \E v \in Versions : DeliverDeployment(v)
---------------------------------------------------------------------------
(***************************************************************************)
(* The others: the user and the Deployment controller.                     *)
(***************************************************************************)
EventsUnderWay ==
    Len(service) + Len(secret) + Len(account) + Len(kubeService) - 4
        + MapThenSumSet(LAMBDA v : Len(deployment[v]) - 1, Versions)

CacheKeepsUp == EventsUnderWay <= MaxLag

\* The first generation is no edit.
EditsLeft == Stored(service).generation - 1 + spent.env < MaxEdits

EditSpec ==
    /\ Stored(service).generation < MaxGeneration
    /\ EditsLeft
    /\ CacheKeepsUp
    /\ service' = Put(service, [Stored(service) EXCEPT !.generation = @ + 1])
    /\ UNCHANGED <<secret, account, kubeService, deployment, queued, run, proven, spent>>

EditEnv(data) ==
    /\ Stored(secret) # Absent
    /\ Stored(secret).data # data
    /\ EditsLeft
    /\ CacheKeepsUp
    /\ secret' = Put(secret, [Stored(secret) EXCEPT !.data = data])
    /\ spent' = [spent EXCEPT !.env = @ + 1]
    /\ UNCHANGED <<service, account, kubeService, deployment, queued, run, proven>>

WithOtherReadiness(version) == [version EXCEPT !.ready = ~ version.ready]

ChangeReadiness(v) ==
    /\ Stored(deployment[v]) # Absent
    /\ spent.readiness < MaxReadinessChanges
    /\ CacheKeepsUp
    /\ deployment' = [deployment EXCEPT
                         ![v] = Put(@, WithOtherReadiness(Stored(@)))]
    /\ proven' = proven \cup {v}
    /\ spent' = [spent EXCEPT !.readiness = @ + 1]
    /\ UNCHANGED <<service, secret, account, kubeService, queued, run>>

Others ==
    \/ EditSpec
    \/ \E data \in EnvData : EditEnv(data)
    \/ \E v \in Versions : ChangeReadiness(v)
---------------------------------------------------------------------------
Next == Reconcile \/ PatchStatusConflict \/ Fail \/ Watch \/ Resync \/ Others

Safety == Init /\ [][Next]_vars

\* The worker goes on with a reconcile and takes a waiting key, and watch events arrive.
\* Nobody has to edit, to fail or to resync.
Fairness == WF_vars(Reconcile) /\ WF_vars(Watch)

Spec == Safety /\ Fairness
---------------------------------------------------------------------------
(***************************************************************************)
(* Properties                                                              *)
(***************************************************************************)
\* Every variable has its type, so that every name the controller forms, reads
\* or routes to stands for a version it could have created.
TypeOK ==
    /\ service \in Histories(ServiceVersions)
    /\ secret \in Histories(SecretVersions \cup {Absent})
    /\ account \in Histories({Absent, "present"})
    /\ kubeService \in Histories(KubeServiceVersions \cup {Absent})
    /\ deployment \in [Versions -> Histories(DeploymentVersions \cup {Absent})]
    /\ queued \in BOOLEAN
    /\ run \in Runs
    /\ proven \subseteq Versions
    /\ spent \in [env : Nat, readiness : Nat, faults : Nat]

Exists(v) == Stored(deployment[v]) # Absent

\* Versions are numbered without gaps: every version up to status.latestVersion has
\* its Deployment, at most the next one exists before the status says so, and a
\* later version never captures an older spec.  Stale reads, failed requests and
\* restarts between creating the Deployment and patching the status all threaten it.
VersionsInOrder ==
    /\ \A v \in Versions : v <= Stored(service).latest => Exists(v)
    /\ \A v \in Versions : Exists(v) => v <= Stored(service).latest + 1
    /\ \A v, w \in Versions :
          Exists(v) /\ Exists(w) /\ v < w
              => Stored(deployment[v]).spec <= Stored(deployment[w]).spec

\* Nobody's edit is released twice: the first spec, each edit of it and each edit of the
\* env cause one version at most.  The hash is taken of one copy of the Secret or another,
\* and compared with that of a status that may be old, by a reconcile that repeats what
\* an earlier one did and could not record.
VersionsHaveCauses ==
    \A v \in Versions : Exists(v) => v <= Stored(service).generation + spent.env

\* Traffic goes, and the status says it goes, only to a version whose Deployment has
\* been ready: a new version gets none before it proves itself.
TrafficOnlyToProven ==
    /\ Stored(service).active \in proven \cup {0}
    /\ Stored(kubeService) # Absent => Stored(kubeService).selector \in proven \cup {0}

\* The Service is as its spec and its env Secret want it.
Converged ==
    LET s == Stored(service)
        k == Stored(kubeService)
    IN  /\ s.observed = s.generation
        /\ Stored(secret) # Absent /\ s.hash = Stored(secret).data
        /\ Stored(account) # Absent
        /\ k # Absent /\ k.ports = s.generation /\ k.selector = s.active
        /\ s.latest \in Versions /\ Exists(s.latest)
        /\ IF Stored(deployment[s.latest]).ready
               THEN s.active = s.latest /\ s.reason = "DeploymentReady"
               ELSE s.reason = "DeploymentProgressing"

\* Nothing is left to do: no reconcile, no key in the queue, no event under way.
Quiescent ==
    /\ run.step = "idle" /\ ~queued
    /\ ~Pending(service) /\ ~Pending(secret) /\ ~Pending(account)
    /\ ~Pending(kubeService)
    /\ \A v \in Versions : ~Pending(deployment[v])

\* The controller never comes to rest on a wrong answer: whatever was stale, merged,
\* ignored or overwritten on the way, some event brings it back until all is right.
RestsConverged == Quiescent => Converged

\* No write takes the status back: a reconcile from a stale copy may repeat an
\* observed generation, a version or a promotion, and never undoes a later one.
StatusNeverGoesBack ==
    [][/\ Stored(service').observed >= Stored(service).observed
       /\ Stored(service').latest >= Stored(service).latest
       /\ Stored(service').active >= Stored(service).active]_vars

\* When users and Deployments stop changing, the Service gets where it should be.
Converges == <>[]Converged

(***************************************************************************)
(* What the repository says of the program, and the program does not do.   *)
(***************************************************************************)
\* api/v1alpha1/service_types.go:98: observedGeneration is the latest generation
\* reconciled by the controller, so when it is current the latest Deployment has it.
ObservedSpecIsDeployed ==
    Quiescent => Stored(deployment[Stored(service).latest]).spec = Stored(service).observed

\* api/v1alpha1/service_types.go:118: activeVersion is the version currently
\* receiving traffic, so traffic is there already, or ahead when the status follows.
ActiveVersionReceivesTraffic ==
    Stored(kubeService) # Absent /\ Stored(kubeService).selector # 0
        => Stored(kubeService).selector >= Stored(service).active

\* service_controller_test.go:331: a changed spec keeps traffic on the previous
\* active version, so the ports of the stable Service are that version's.
PortsFitSelectedVersion ==
    Stored(kubeService) # Absent /\ Stored(kubeService).selector # 0
        => Stored(kubeService).ports = Stored(deployment[Stored(kubeService).selector]).spec
===========================================================================
