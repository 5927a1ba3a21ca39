---------------------- MODULE ServiceLifecycleProofs ----------------------
(***************************************************************************)
(* Theorems about ServiceLifecycle, for every value of its constants: any  *)
(* number of Services of one name, of changes to what they own, and of     *)
(* faults.                                                                 *)
(***************************************************************************)
EXTENDS ServiceLifecycle, ApiObjectTheorems
---------------------------------------------------------------------------
(* Types *)

\* A reconcile is on its way to a version exactly when its copy has none.
RunInv ==
    /\ run.step \in {"idle", "lookup"} => run.plan = "none"
    /\ run.step = "deployment" => run.plan = "version"
    /\ run.step = "kubeService" => run.plan \in {"version", "progressing", "promote"}
    /\ run.step = "status" => run.plan # "none"
    /\ run.step # "idle" => (run.local.released <=> run.plan # "version")

TypeInv == TypeOK /\ RunInv

\* A Service as it is made has its type.
LEMMA NewServiceType == \A uid \in Uids : NewService(uid) \in ServiceVersions
  BY DEF NewService, ServiceVersions, Reasons

\* The state of a manager that does nothing has its type.
LEMMA IdleType == Idle \in Runs
  <1>1. 1 \in Uids
    BY BoundsAssumption DEF Uids
  <1>. QED BY <1>1, NewServiceType DEF Idle, Runs, Steps, Plans

\* The first Service has just been made.
LEMMA InitType == Init => TypeInv
  <1>. SUFFICES ASSUME Init PROVE TypeInv
    OBVIOUS
  <1>1. 1 \in Uids
    BY BoundsAssumption DEF Uids
  <1>2. service \in Histories(ServiceVersions \cup {Absent})
    BY <1>1, NewServiceType, FreshHistory DEF Init
  <1>3. /\ kubeService \in Histories(KubeServiceVersions \cup {Absent})
        /\ deployment \in Histories(DeploymentVersions \cup {Absent})
    BY FreshHistory DEF Init
  <1>4. run \in Runs /\ RunInv
    BY IdleType DEF Init, Idle, RunInv
  <1>. QED BY <1>1, <1>2, <1>3, <1>4 DEF Init, TypeInv, TypeOK

\* What a reconcile reads has its type.
LEMMA ReadsType ==
    ASSUME TypeInv
    PROVE  /\ Cached(service) \in ServiceVersions \cup {Absent}
           /\ Stored(service) \in ServiceVersions \cup {Absent}
           /\ Cached(kubeService) \in KubeServiceVersions \cup {Absent}
           /\ Stored(kubeService) \in KubeServiceVersions \cup {Absent}
           /\ Cached(deployment) \in DeploymentVersions \cup {Absent}
           /\ Stored(deployment) \in DeploymentVersions \cup {Absent}
           /\ run.local \in ServiceVersions /\ run.step \in Steps /\ run.plan \in Plans
  BY HistoryEnds DEF TypeInv, TypeOK, Runs

\* What it writes has its type too.
LEMMA WritesType ==
    ASSUME TypeInv
    PROVE  /\ WantedKubeService \in KubeServiceVersions
           /\ Stored(kubeService) # Absent /\ Cached(kubeService) # Absent
                 => PatchedKubeService \in KubeServiceVersions
           /\ [owner |-> run.local.uid, ready |-> FALSE] \in DeploymentVersions
  <1>. USE ReadsType
  <1>1. /\ run.local.uid \in Uids
        /\ (run.plan = "promote" \/ run.local.active) \in BOOLEAN
    BY DEF ServiceVersions
  <1>2. WantedKubeService \in KubeServiceVersions
    BY <1>1 DEF WantedKubeService, KubeServiceVersions
  <1>3. ASSUME Stored(kubeService) # Absent, Cached(kubeService) # Absent
        PROVE  PatchedKubeService \in KubeServiceVersions
    BY <1>2, <1>3 DEF PatchedKubeService, KubeServiceVersions, Merged
  <1>. QED BY <1>1, <1>2, <1>3 DEF DeploymentVersions

\* The status a reconcile wants is one.
LEMMA WantedType ==
    ASSUME TypeInv, run.plan # "none"
    PROVE  /\ WantedStatus(run.local) \in ServiceVersions
           /\ WantedStatus(run.local).uid = run.local.uid
           /\ WantedStatus(run.local).released
                 = (run.plan = "version" \/ run.local.released)
           /\ WantedStatus(run.local).active = (run.plan = "promote" \/ run.local.active)
           /\ WantedStatus(run.local).reason =
                 CASE run.plan \in {"version", "progressing"} -> "DeploymentProgressing"
                   [] run.plan = "missing" -> "DeploymentNotFound"
                   [] run.plan = "promote" -> "DeploymentReady"
  <1>. USE ReadsType
  <1>1. CASE run.plan = "version"
    BY <1>1 DEF WantedStatus, ServiceVersions, Reasons
  <1>2. CASE run.plan = "missing"
    BY <1>2 DEF WantedStatus, ServiceVersions, Reasons
  <1>3. CASE run.plan = "progressing"
    BY <1>3 DEF WantedStatus, ServiceVersions, Reasons
  <1>4. CASE run.plan = "promote"
    BY <1>4 DEF WantedStatus, ServiceVersions, Reasons
  <1>. QED BY <1>1, <1>2, <1>3, <1>4 DEF Plans

\* What the server makes of a status patch, field by field.
LEMMA PatchedType ==
    ASSUME TypeInv, run.step = "status", Stored(service) # Absent, PatchStatus
    PROVE  \E s \in ServiceVersions :
              /\ service' = Put(service, s)
              /\ s.uid = Stored(service).uid
              /\ Stored(service) = run.local =>
                    LET w == WantedStatus(run.local)
                    IN  s.released = w.released /\ s.active = w.active /\ s.reason = w.reason
  <1>. DEFINE old == Stored(service)
              l == run.local
              w == WantedStatus(l)
              s == [old EXCEPT !.released = Merged(l.released, w.released, @),
                               !.active = Merged(l.active, w.active, @),
                               !.reason = Merged(l.reason, w.reason, @)]
  <1>1. old \in ServiceVersions /\ l \in ServiceVersions /\ w \in ServiceVersions
    BY ReadsType, WantedType DEF TypeInv, RunInv
  <1>. HIDE DEF w
  <1>2. /\ Merged(l.released, w.released, old.released) \in BOOLEAN
        /\ Merged(l.active, w.active, old.active) \in BOOLEAN
        /\ Merged(l.reason, w.reason, old.reason) \in Reasons
    BY <1>1 DEF Merged, ServiceVersions
  <1>3. /\ s \in ServiceVersions /\ s.uid = old.uid
        /\ s.released = Merged(l.released, w.released, old.released)
        /\ s.active = Merged(l.active, w.active, old.active)
        /\ s.reason = Merged(l.reason, w.reason, old.reason)
    BY <1>1, <1>2 DEF ServiceVersions
  <1>4. service' = Put(service, s)
    BY DEF PatchStatus, w
  <1>. HIDE DEF s
  <1>5. old = l => s.released = w.released /\ s.active = w.active /\ s.reason = w.reason
    BY <1>3 DEF Merged
  <1>. QED BY <1>3, <1>4, <1>5 DEF w

\* Each object is left alone, written, or shown by the cache as it next was; and the key
\* is queued when the cache shows anything new.
LEMMA StepWrites ==
    ASSUME TypeInv, [Next]_vars
    PROVE  /\ \/ service' = service
              \/ \E s \in ServiceVersions \cup {Absent} : service' = Put(service, s)
              \/ Pending(service) /\ service' = Deliver(service) /\ queued' = TRUE
           /\ \/ kubeService' = kubeService
              \/ \E k \in KubeServiceVersions \cup {Absent} :
                    kubeService' = Put(kubeService, k)
              \/ Pending(kubeService) /\ kubeService' = Deliver(kubeService)
                 /\ queued' = TRUE
           /\ \/ deployment' = deployment
              \/ \E d \in DeploymentVersions \cup {Absent} : deployment' = Put(deployment, d)
              \/ Pending(deployment) /\ deployment' = Deliver(deployment) /\ queued' = TRUE
  <1>. DEFINE WroteService ==
                  \/ service' = service
                  \/ \E s \in ServiceVersions \cup {Absent} : service' = Put(service, s)
                  \/ Pending(service) /\ service' = Deliver(service) /\ queued' = TRUE
              WroteKubeService ==
                  \/ kubeService' = kubeService
                  \/ \E k \in KubeServiceVersions \cup {Absent} :
                        kubeService' = Put(kubeService, k)
                  \/ Pending(kubeService) /\ kubeService' = Deliver(kubeService)
                     /\ queued' = TRUE
              WroteDeployment ==
                  \/ deployment' = deployment
                  \/ \E d \in DeploymentVersions \cup {Absent} :
                        deployment' = Put(deployment, d)
                  \/ Pending(deployment) /\ deployment' = Deliver(deployment)
                     /\ queued' = TRUE
  <1>1. CASE \/ ReadService \/ LookUpLatest \/ PatchStatusConflict \/ Fail \/ Resync
             \/ DeleteNamespace \/ UNCHANGED vars
    BY <1>1 DEF ReadService, LookUpLatest, PatchStatusConflict, Fail, Resync,
                DeleteNamespace, vars, objects
  <1>2. CASE CreateDeployment
    <2>1. service' = service /\ kubeService' = kubeService
      BY <1>2 DEF CreateDeployment
    <2>2. WroteDeployment
      BY <1>2, WritesType DEF CreateDeployment, Created
    <2>. QED BY <2>1, <2>2
  <1>3. CASE EnsureKubeService
    <2>1. service' = service /\ deployment' = deployment
      BY <1>3 DEF EnsureKubeService
    <2>2. WroteKubeService
      BY <1>3, WritesType DEF EnsureKubeService, Created
    <2>. QED BY <2>1, <2>2
  <1>4. CASE PatchStatus
    <2>1. kubeService' = kubeService /\ deployment' = deployment /\ run.step = "status"
      BY <1>4 DEF PatchStatus
    <2>2. CASE Stored(service) = Absent
      BY <1>4, <2>1, <2>2 DEF PatchStatus
    <2>3. CASE Stored(service) # Absent
      <3>1. WroteService
        BY <1>4, <2>1, <2>3, PatchedType
      <3>. QED BY <2>1, <3>1
    <2>. QED BY <2>2, <2>3
  <1>5. CASE DeliverService \/ DeliverKubeService \/ DeliverDeployment
    BY <1>5 DEF DeliverService, DeliverKubeService, DeliverDeployment
  <1>6. CASE DeleteService \/ DeleteKubeService \/ DeleteDeployment
    BY <1>6 DEF DeleteService, DeleteKubeService, DeleteDeployment
  <1>7. CASE CollectKubeService \/ CollectDeployment
    BY <1>7 DEF CollectKubeService, CollectDeployment
  <1>8. CASE MakeService
    <2>1. made + 1 \in Uids
      BY <1>8, BoundsAssumption DEF MakeService, TypeInv, TypeOK, Uids
    <2>. QED BY <1>8, <2>1, NewServiceType DEF MakeService
  <1>9. CASE ChangeReadiness
    <2>1. WithOtherReadiness(Stored(deployment)) \in DeploymentVersions
      BY <1>9, ReadsType DEF ChangeReadiness, WithOtherReadiness, DeploymentVersions
    <2>. QED BY <1>9, <2>1 DEF ChangeReadiness
  <1>. QED
    BY <1>1, <1>2, <1>3, <1>4, <1>5, <1>6, <1>7, <1>8, <1>9
    DEF Next, Reconcile, CleanUp, Others

\* Every step keeps the types: one case per action for the reconcile in progress.
LEMMA StepType == TypeInv /\ [Next]_vars => TypeInv'
  <1>. SUFFICES ASSUME TypeInv, [Next]_vars PROVE TypeInv'
    OBVIOUS
  <1>. USE ReadsType
  <1>1. /\ service' \in Histories(ServiceVersions \cup {Absent})
        /\ kubeService' \in Histories(KubeServiceVersions \cup {Absent})
        /\ deployment' \in Histories(DeploymentVersions \cup {Absent})
    <2>1. service' \in Histories(ServiceVersions \cup {Absent})
      <3>1. service \in Histories(ServiceVersions \cup {Absent})
        BY DEF TypeInv, TypeOK
      <3>2. /\ \A s \in ServiceVersions \cup {Absent} :
                  Put(service, s) \in Histories(ServiceVersions \cup {Absent})
            /\ Pending(service) => Deliver(service) \in Histories(ServiceVersions \cup {Absent})
        BY <3>1, PutHistory, DeliverHistory
      <3>. QED BY <3>1, <3>2, StepWrites
    <2>2. kubeService' \in Histories(KubeServiceVersions \cup {Absent})
      <3>1. kubeService \in Histories(KubeServiceVersions \cup {Absent})
        BY DEF TypeInv, TypeOK
      <3>2. /\ \A k \in KubeServiceVersions \cup {Absent} :
                  Put(kubeService, k) \in Histories(KubeServiceVersions \cup {Absent})
            /\ Pending(kubeService) =>
                  Deliver(kubeService) \in Histories(KubeServiceVersions \cup {Absent})
        BY <3>1, PutHistory, DeliverHistory
      <3>. QED BY <3>1, <3>2, StepWrites
    <2>3. deployment' \in Histories(DeploymentVersions \cup {Absent})
      <3>1. deployment \in Histories(DeploymentVersions \cup {Absent})
        BY DEF TypeInv, TypeOK
      <3>2. /\ \A d \in DeploymentVersions \cup {Absent} :
                  Put(deployment, d) \in Histories(DeploymentVersions \cup {Absent})
            /\ Pending(deployment) =>
                  Deliver(deployment) \in Histories(DeploymentVersions \cup {Absent})
        BY <3>1, PutHistory, DeliverHistory
      <3>. QED BY <3>1, <3>2, StepWrites
    <2>. QED BY <2>1, <2>2, <2>3
  <1>2. /\ namespace' \in {"live", "terminating"}
        /\ made' \in Uids
        /\ queued' \in BOOLEAN
        /\ spent' \in [changes : Nat, faults : Nat]
    <2>1. CASE ReadService \/ CreateDeployment \/ EnsureKubeService \/ LookUpLatest
      BY <2>1 DEF ReadService, CreateDeployment, EnsureKubeService, LookUpLatest, Retry,
                  GoOn, objects, TypeInv, TypeOK
    <2>2. CASE PatchStatus \/ PatchStatusConflict \/ Fail
      <3>1. namespace' = namespace /\ made' = made
        BY <2>2 DEF PatchStatus, PatchStatusConflict, Fail, objects
      <3>2. queued' \in BOOLEAN
        BY <2>2 DEF PatchStatus, PatchStatusConflict, Fail, Retry, TypeInv, TypeOK
      <3>3. spent' \in [changes : Nat, faults : Nat]
        BY <2>2 DEF PatchStatus, PatchStatusConflict, Fail, TypeInv, TypeOK
      <3>. QED BY <3>1, <3>2, <3>3 DEF TypeInv, TypeOK
    <2>3. CASE \/ DeliverService \/ DeliverKubeService \/ DeliverDeployment \/ Resync
               \/ CollectKubeService \/ CollectDeployment \/ DeleteService \/ DeleteNamespace
               \/ UNCHANGED vars
      BY <2>3 DEF DeliverService, DeliverKubeService, DeliverDeployment, Resync,
                  CollectKubeService, CollectDeployment, DeleteService, DeleteNamespace,
                  vars, objects, TypeInv, TypeOK
    <2>4. CASE MakeService
      BY <2>4, BoundsAssumption DEF MakeService, TypeInv, TypeOK, Uids
    <2>5. CASE DeleteKubeService \/ DeleteDeployment \/ ChangeReadiness
      BY <2>5 DEF DeleteKubeService, DeleteDeployment, ChangeReadiness, TypeInv, TypeOK
    <2>. QED BY <2>1, <2>2, <2>3, <2>4, <2>5 DEF Next, Reconcile, CleanUp, Others
  <1>3. run' \in Runs /\ RunInv'
    <2>1. CASE ReadService
      <3>1. CASE Cached(service) = Absent
        BY <2>1, <3>1, IdleType DEF ReadService, Idle, RunInv
      <3>2. CASE Cached(service) # Absent
        BY <2>1, <3>2 DEF ReadService, RunInv, Runs, Steps, Plans, ServiceVersions
      <3>. QED BY <3>1, <3>2
    <2>2. CASE CreateDeployment
      BY <2>2 DEF CreateDeployment, GoOn, TypeInv, TypeOK, RunInv, Runs, Steps
    <2>3. CASE EnsureKubeService
      <3>1. CASE run' = Idle
        BY <3>1, IdleType DEF RunInv, Idle
      <3>2. CASE run' = [run EXCEPT !.step = "status"]
        BY <2>3, <3>2 DEF EnsureKubeService, TypeInv, TypeOK, RunInv, Runs, Steps
      <3>. QED BY <2>3, <3>1, <3>2 DEF EnsureKubeService, GoOn, Retry
    <2>4. CASE LookUpLatest
      BY <2>4 DEF LookUpLatest, PlanFor, TypeInv, TypeOK, RunInv, Runs, Steps, Plans
    <2>5. CASE run' = Idle
      BY <2>5, IdleType DEF RunInv, Idle
    <2>6. CASE run' = run
      BY <2>6 DEF TypeInv, TypeOK, RunInv
    <2>7. \/ ReadService \/ CreateDeployment \/ EnsureKubeService \/ LookUpLatest
          \/ run' = Idle \/ run' = run
      BY DEF Next, Reconcile, PatchStatus, PatchStatusConflict, Fail, Retry,
             DeliverService, DeliverKubeService, DeliverDeployment, Resync, CleanUp, CollectKubeService, CollectDeployment,
             Others, DeleteService, MakeService, DeleteNamespace, DeleteKubeService,
             DeleteDeployment, ChangeReadiness, vars
    <2>. QED BY <2>1, <2>2, <2>3, <2>4, <2>5, <2>6, <2>7
  <1>. QED BY <1>1, <1>2, <1>3 DEF TypeInv, TypeOK

\* Type correctness, whichever Service of the name the controller takes for which.
LEMMA TypeInvariant == Safety => []TypeInv
  BY InitType, StepType, PTL DEF Safety

THEOREM TypeCorrect == Safety => []TypeOK
  BY TypeInvariant, PTL DEF TypeInv
---------------------------------------------------------------------------
(* At rest *)

\* A reconcile that no event has come after goes by what the cache shows,
CopyCurrent == run.step # "idle" => run.local = Cached(service)

\* and what it decided, it would decide again.
PlanCurrent ==
    run.plan \in {"missing", "progressing", "promote"} => run.plan = PlanFor(Cached(deployment))

\* The stable Service is as the reconcile wanted it, unless an event of it is under way or
\* the namespace took no new one.
KubeServiceDone ==
    /\ run.step = "status" /\ run.plan # "missing"
    /\ ~Pending(kubeService) /\ namespace = "live"
    => Stored(kubeService) = WantedKubeService

\* What a status says of the Deployment.
ReasonFor(found) ==
    IF found = Absent THEN "DeploymentNotFound"
    ELSE IF found.ready THEN "DeploymentReady" ELSE "DeploymentProgressing"

\* When the reconcile has ended, the Service has a version, and its status is right but
\* for what an event of a child under way will tell.
Answered ==
    run.step = "idle" /\ ~Pending(service) /\ Stored(service) # Absent =>
        LET s == Stored(service)
        IN  /\ s.released
            /\ ~Pending(deployment) => s.reason = ReasonFor(Stored(deployment))
            /\ /\ ~Pending(kubeService) /\ namespace = "live"
               /\ s.reason # "DeploymentNotFound"
               => Stored(kubeService) = [owner |-> s.uid, selects |-> s.active]

Calm == CopyCurrent /\ PlanCurrent /\ KubeServiceDone /\ Answered

\* What makes RestsSettled inductive.
RestInv == ~queued => Calm

\* As long as no key is queued, the caches stand still.
LEMMA QuietSteps ==
    ASSUME TypeInv, [Next]_vars, ~queued'
    PROVE  /\ Cached(service') = Cached(service)
           /\ ~Pending(service') => service' = service
           /\ Cached(kubeService') = Cached(kubeService)
           /\ ~Pending(kubeService') => kubeService' = kubeService
           /\ Cached(deployment') = Cached(deployment)
           /\ ~Pending(deployment') => deployment' = deployment
  <1>1. /\ service \in Histories(ServiceVersions \cup {Absent})
        /\ kubeService \in Histories(KubeServiceVersions \cup {Absent})
        /\ deployment \in Histories(DeploymentVersions \cup {Absent})
    BY DEF TypeInv, TypeOK
  <1>2. \/ service' = service
        \/ \E s \in ServiceVersions \cup {Absent} : service' = Put(service, s)
    BY StepWrites
  <1>3. \/ kubeService' = kubeService
        \/ \E k \in KubeServiceVersions \cup {Absent} : kubeService' = Put(kubeService, k)
    BY StepWrites
  <1>4. \/ deployment' = deployment
        \/ \E d \in DeploymentVersions \cup {Absent} : deployment' = Put(deployment, d)
    BY StepWrites
  <1>5. Cached(service') = Cached(service) /\ (~Pending(service') => service' = service)
    BY <1>1, <1>2, WrittenOnly
  <1>6. /\ Cached(kubeService') = Cached(kubeService)
        /\ ~Pending(kubeService') => kubeService' = kubeService
    BY <1>1, <1>3, WrittenOnly
  <1>7. /\ Cached(deployment') = Cached(deployment)
        /\ ~Pending(deployment') => deployment' = deployment
    BY <1>1, <1>4, WrittenOnly
  <1>. QED BY <1>5, <1>6, <1>7

\* A reconcile of what the cache shows begins: or it ends at once, because the cache
\* shows no Service.
LEMMA ReadIsCalm == ASSUME TypeInv, ReadService PROVE Calm'
  <1>1. service' = service /\ run.step = "idle"
    BY DEF ReadService, objects
  <1>2. CASE Cached(service) = Absent
    <2>1. run' = Idle
      BY <1>2 DEF ReadService
    <2>2. ~Pending(service) => Stored(service) = Absent
      BY <1>2, CurrentCache DEF TypeInv, TypeOK
    <2>. QED
      BY <1>1, <2>1, <2>2
      DEF Calm, CopyCurrent, PlanCurrent, KubeServiceDone, Answered, Idle
  <1>3. CASE Cached(service) # Absent
    <2>1. /\ run'.step \in {"lookup", "deployment"} /\ run'.plan \in {"none", "version"}
          /\ run'.local = Cached(service)
      BY <1>3 DEF ReadService
    <2>. QED
      BY <1>1, <2>1 DEF Calm, CopyCurrent, PlanCurrent, KubeServiceDone, Answered
  <1>. QED BY <1>2, <1>3

\* What createOrUpdateKubernetesService leaves behind is what it wanted, if no event tells
\* of it and the namespace takes it.
LEMMA EnsuredIsCalm ==
    ASSUME TypeInv, Calm, EnsureKubeService, ~queued'
    PROVE  Calm'
  <1>1. /\ run.step = "kubeService" /\ service' = service /\ deployment' = deployment
        /\ namespace' = namespace
        /\ kubeService \in Histories(KubeServiceVersions \cup {Absent})
    BY DEF EnsureKubeService, TypeInv, TypeOK
  <1>2. run' = [run EXCEPT !.step = "status"]
    BY DEF EnsureKubeService, GoOn, Retry
  <1>3. /\ run'.step = "status" /\ run'.plan = run.plan /\ run'.local = run.local
        /\ WantedKubeService' = WantedKubeService
    BY <1>2 DEF TypeInv, TypeOK, Runs, WantedKubeService
  <1>4. ASSUME ~Pending(kubeService'), namespace = "live"
        PROVE  Stored(kubeService') = WantedKubeService
    <2>1. CASE Cached(kubeService) = Absent
      <3>1. kubeService' = Created(kubeService, WantedKubeService)
        BY <2>1 DEF EnsureKubeService
      <3>2. CASE Stored(kubeService) = Absent
        BY <1>1, <1>4, <3>1, <3>2, WritesType, PutHistory DEF Created
      <3>3. CASE Stored(kubeService) # Absent
        <4>1. kubeService' = kubeService
          BY <3>1, <3>3 DEF Created
        <4>. QED BY <1>1, <1>4, <2>1, <3>3, <4>1, CurrentCache
      <3>. QED BY <3>2, <3>3
    <2>2. CASE Cached(kubeService) # Absent
      <3>1. Stored(kubeService) # Absent
        BY <2>2 DEF EnsureKubeService, Retry
      <3>2. kubeService' = Put(kubeService, PatchedKubeService)
            /\ PatchedKubeService \in KubeServiceVersions
        BY <2>2, <3>1, WritesType DEF EnsureKubeService
      <3>3. Stored(kubeService') = PatchedKubeService
            /\ Cached(kubeService) = Stored(kubeService)
            /\ PatchedKubeService = Stored(kubeService)
        BY <1>1, <1>4, <3>2, PutHistory, PutPending, CurrentCache
      <3>4. /\ PatchedKubeService.owner = WantedKubeService.owner
            /\ PatchedKubeService.selects = WantedKubeService.selects
        BY <3>3 DEF PatchedKubeService, Merged
      <3>. QED BY <3>2, <3>3, <3>4, WritesType DEF KubeServiceVersions
    <2>. QED BY <2>1, <2>2
  <1>5. KubeServiceDone'
    BY <1>1, <1>3, <1>4 DEF KubeServiceDone
  <1>. QED
    BY <1>1, <1>3, <1>5 DEF Calm, CopyCurrent, PlanCurrent, Answered

\* A patch that changes nothing found the status right; any other is an event.
LEMMA PatchedIsCalm ==
    ASSUME TypeInv, Calm, PatchStatus, ~queued'
    PROVE  Calm'
  <1>1. /\ run.step = "status" /\ run' = Idle /\ kubeService' = kubeService
        /\ deployment' = deployment /\ namespace' = namespace /\ run.plan # "none"
        /\ Stored(service) # Absent
    BY DEF PatchStatus, TypeInv, RunInv
  <1>2. ASSUME ~Pending(service')
        PROVE  LET s == Stored(service')
               IN  /\ s.released
                   /\ ~Pending(deployment) => s.reason = ReasonFor(Stored(deployment))
                   /\ /\ ~Pending(kubeService) /\ namespace = "live"
                      /\ s.reason # "DeploymentNotFound"
                      => Stored(kubeService) = [owner |-> s.uid, selects |-> s.active]
    <2>. DEFINE w == WantedStatus(run.local)
    <2>1. PICK s \in ServiceVersions :
              /\ service' = Put(service, s)
              /\ s.uid = Stored(service).uid
              /\ Stored(service) = run.local =>
                    s.released = w.released /\ s.active = w.active /\ s.reason = w.reason
      BY <1>1, PatchedType
    <2>. HIDE DEF w
    <2>2. service \in Histories(ServiceVersions \cup {Absent})
      BY DEF TypeInv, TypeOK
    <2>3. s = Stored(service) /\ Stored(service') = s /\ Cached(service) = Stored(service)
      BY <1>2, <2>1, <2>2, PutHistory, PutPending, CurrentCache
    <2>4. s = run.local
      BY <1>1, <2>3 DEF Calm, CopyCurrent
    <2>5. s.released = w.released /\ s.active = w.active /\ s.reason = w.reason
      BY <2>1, <2>3, <2>4
    <2>6. /\ w.released = (run.plan = "version" \/ run.local.released)
          /\ w.active = (run.plan = "promote" \/ run.local.active)
          /\ w.reason = CASE run.plan \in {"version", "progressing"} -> "DeploymentProgressing"
                          [] run.plan = "missing" -> "DeploymentNotFound"
                          [] run.plan = "promote" -> "DeploymentReady"
      BY <1>1, WantedType DEF w
    <2>7. s.released /\ run.plan # "version"
      BY <1>1, <2>4, <2>5, <2>6 DEF TypeInv, RunInv
    <2>8. run.plan \in {"missing", "progressing", "promote"}
          /\ run.plan = PlanFor(Cached(deployment))
      BY <1>1, <2>7, ReadsType DEF Plans, Calm, PlanCurrent
    <2>9. s.reason = ReasonFor(Cached(deployment))
      BY <2>5, <2>6, <2>8 DEF PlanFor, ReasonFor
    <2>10. ~Pending(deployment) => s.reason = ReasonFor(Stored(deployment))
      BY <2>9, CurrentCache DEF TypeInv, TypeOK
    <2>11. ASSUME ~Pending(kubeService), namespace = "live", s.reason # "DeploymentNotFound"
           PROVE  Stored(kubeService) = [owner |-> s.uid, selects |-> s.active]
      <3>1. run.plan # "missing"
        BY <2>5, <2>6, <2>11
      <3>2. Stored(kubeService) = WantedKubeService
        BY <1>1, <2>11, <3>1 DEF Calm, KubeServiceDone
      <3>. QED BY <2>4, <2>5, <2>6, <3>2 DEF WantedKubeService
    <2>. QED BY <2>3, <2>7, <2>10, <2>11
  <1>3. Answered'
    BY <1>1, <1>2 DEF Answered
  <1>. QED
    BY <1>1, <1>3 DEF Calm, CopyCurrent, PlanCurrent, KubeServiceDone, Idle

\* What anybody else does is an event under way.
LEMMA OthersAreCalm ==
    ASSUME TypeInv, Calm, [Next]_vars, ~queued', run' = run,
           namespace' = "live" => namespace = "live"
    PROVE  Calm'
  <1>1. CopyCurrent'
    BY QuietSteps DEF Calm, CopyCurrent
  <1>2. PlanCurrent'
    BY QuietSteps DEF Calm, PlanCurrent
  <1>3. KubeServiceDone'
    BY QuietSteps DEF Calm, KubeServiceDone, WantedKubeService
  <1>4. Answered'
    BY QuietSteps DEF Calm, Answered
  <1>. QED BY <1>1, <1>2, <1>3, <1>4 DEF Calm

\* Every step keeps it.
LEMMA StepRest == TypeInv /\ RestInv /\ [Next]_vars => RestInv'
  <1>. SUFFICES ASSUME TypeInv, RestInv, [Next]_vars, ~queued' PROVE Calm'
    BY DEF RestInv
  <1>1. CASE ReadService
    BY <1>1, ReadIsCalm
  <1>. SUFFICES ASSUME ~ReadService PROVE Calm'
    BY <1>1
  <1>2. ~queued
    BY DEF Next, Reconcile, ReadService, CreateDeployment, EnsureKubeService, LookUpLatest,
           PatchStatus, PatchStatusConflict, Fail, Retry, GoOn, DeliverService, DeliverKubeService,
           DeliverDeployment, Resync, CleanUp, CollectKubeService, CollectDeployment, Others,
           DeleteService, MakeService, DeleteNamespace, DeleteKubeService, DeleteDeployment,
           ChangeReadiness, vars
  <1>3. Calm
    BY <1>2 DEF RestInv
  <1>4. CASE CreateDeployment
    <2>1. /\ run'.step = "kubeService" /\ run'.plan = "version" /\ run'.local = run.local
          /\ run.step # "idle" /\ service' = service
      BY <1>4 DEF CreateDeployment, GoOn, TypeInv, TypeOK, RunInv, Runs
    <2>. QED
      BY <1>3, <2>1 DEF Calm, CopyCurrent, PlanCurrent, KubeServiceDone, Answered
  <1>5. CASE EnsureKubeService
    BY <1>3, <1>5, EnsuredIsCalm
  <1>6. CASE LookUpLatest
    <2>1. /\ run'.plan = PlanFor(Cached(deployment)) /\ run'.local = run.local
          /\ run'.step \in {"status", "kubeService"}
          /\ run'.step = "status" => run'.plan = "missing"
          /\ run.step # "idle" /\ service' = service /\ deployment' = deployment
      BY <1>6 DEF LookUpLatest, PlanFor, objects, TypeInv, TypeOK, Runs
    <2>. QED
      BY <1>3, <2>1 DEF Calm, CopyCurrent, PlanCurrent, KubeServiceDone, Answered
  <1>7. CASE PatchStatus
    BY <1>3, <1>7, PatchedIsCalm
  <1>8. CASE PatchStatusConflict
    <2>1. /\ run' = Idle /\ service' = service /\ run.step # "idle"
          /\ Stored(service) # run.local
      BY <1>8 DEF PatchStatusConflict, objects
    <2>2. Pending(service)
      BY <1>3, <2>1, CurrentCache DEF Calm, CopyCurrent, TypeInv, TypeOK
    <2>. QED
      BY <2>1, <2>2 DEF Calm, CopyCurrent, PlanCurrent, KubeServiceDone, Answered, Idle
  <1>9. CASE run' = run /\ (namespace' = "live" => namespace = "live")
    BY <1>3, <1>9, OthersAreCalm
  <1>10. \/ CreateDeployment \/ EnsureKubeService \/ LookUpLatest \/ PatchStatus
         \/ PatchStatusConflict
         \/ run' = run /\ (namespace' = "live" => namespace = "live")
    BY DEF Next, Reconcile, Fail, Retry, DeliverService, DeliverKubeService,
           DeliverDeployment, Resync, CleanUp, CollectKubeService, CollectDeployment, Others,
           DeleteService, MakeService, DeleteNamespace, DeleteKubeService, DeleteDeployment,
           ChangeReadiness, vars, objects
  <1>. QED BY <1>4, <1>5, <1>6, <1>7, <1>8, <1>9, <1>10

\* A Service of the name never comes to rest without what it wants or with a wrong
\* answer, however often it is deleted and made again and whatever is collected late.
THEOREM RestsAreSettled == Safety => []RestsSettled
  <1>1. Init => RestInv
    BY DEF Init, RestInv
  <1>2. TypeInv /\ RestInv => RestsSettled
    <2>. SUFFICES ASSUME TypeInv, RestInv, Quiescent PROVE Settled
      BY DEF RestsSettled
    <2>1. CASE Stored(service) = Absent
      BY <2>1 DEF Quiescent, Orphan, Settled, NothingLeft
    <2>2. CASE Stored(service) # Absent
      <3>. DEFINE s == Stored(service)
                  d == Stored(deployment)
                  k == Stored(kubeService)
      <3>1. /\ s.released /\ s.reason = ReasonFor(d)
            /\ s.reason # "DeploymentNotFound" => k = [owner |-> s.uid, selects |-> s.active]
        BY <2>2, ReadsType DEF Quiescent, RestInv, Calm, Answered, TypeInv, TypeOK
      <3>2. d # Absent => d.owner = s.uid
        BY <2>2 DEF Quiescent, Orphan
      <3>3. [owner |-> s.uid, selects |-> s.active] # Absent
        BY <2>2, ReadsType, AbsentAssumption DEF ServiceVersions, KubeServiceVersions
      <3>4. CASE s.reason = "DeploymentNotFound"
        BY <2>2, <3>1, <3>4 DEF Settled, ReasonFor
      <3>5. CASE s.reason # "DeploymentNotFound"
        <4>1. d # Absent /\ s.reason = IF d.ready THEN "DeploymentReady"
                                       ELSE "DeploymentProgressing"
          BY <3>1, <3>5 DEF ReasonFor
        <4>2. Owned(d, s.uid) /\ Owned(k, s.uid) /\ k.selects = s.active
          BY <3>1, <3>2, <3>3, <3>5, <4>1 DEF Owned
        <4>. QED BY <2>2, <3>1, <3>5, <4>1, <4>2 DEF Settled
      <3>. QED BY <3>4, <3>5
    <2>. QED BY <2>1, <2>2
  <1>. QED BY <1>1, <1>2, StepRest, TypeInvariant, PTL DEF Safety
===========================================================================
