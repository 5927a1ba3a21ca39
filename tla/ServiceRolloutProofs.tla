----------------------- MODULE ServiceRolloutProofs -----------------------
(***************************************************************************)
(* Theorems about ServiceRollout, for every value of its constants: any    *)
(* number of versions, edits, readiness changes and faults; among them     *)
(* that it implements Rollout.                                             *)
(***************************************************************************)
EXTENDS ServiceRolloutRefinement, ApiObjectTheorems
---------------------------------------------------------------------------
(* Types *)

\* Once it calls out, a reconcile knows where it is heading, and not before; one that
\* has created a Deployment stays within the versions there are.
RunInv ==
    /\ run.step = "get" => run.plan = "none"
    /\ run.step \in {"account", "deployment", "kubeService", "status"} => run.plan # "none"
    /\ run.plan = "version" /\ run.step \in {"kubeService", "status"}
          => NextVersion(run.local) \in Versions

TypeInv == TypeOK /\ RunInv

\* The first state has the types: nothing is written, no reconcile runs.
LEMMA InitType == Init => TypeInv
  <1>. SUFFICES ASSUME Init PROVE TypeInv
    OBVIOUS
  <1>1. NewService \in ServiceVersions
    BY BoundsAssumption DEF NewService, ServiceVersions, Hashes, Reasons
  <1>2. service \in Histories(ServiceVersions)
    BY <1>1, FreshHistory DEF Init
  <1>3. secret \in Histories(SecretVersions \cup {Absent})
    <2>1. CASE secret = Fresh(Absent)
      BY <2>1, FreshHistory
    <2>2. CASE \E d \in EnvData : secret = Fresh([owned |-> FALSE, data |-> d])
      <3>1. PICK d \in EnvData : secret = Fresh([owned |-> FALSE, data |-> d])
        BY <2>2
      <3>2. [owned |-> FALSE, data |-> d] \in SecretVersions \cup {Absent}
        BY DEF SecretVersions
      <3>. QED BY <3>1, <3>2, FreshHistory
    <2>. QED BY <2>1, <2>2 DEF Init
  <1>4. /\ account \in Histories({Absent, "present"})
        /\ kubeService \in Histories(KubeServiceVersions \cup {Absent})
        /\ deployment \in [Versions -> Histories(DeploymentVersions \cup {Absent})]
    BY FreshHistory DEF Init
  <1>5. run \in Runs /\ RunInv
    BY <1>1 DEF Init, Idle, Runs, Steps, Plans, Hashes, RunInv
  <1>. QED BY <1>2, <1>3, <1>4, <1>5 DEF Init, TypeInv, TypeOK

\* What a reconcile reads of the objects, and the status it wants, have their types.
LEMMA ReadsType ==
    ASSUME TypeInv
    PROVE  /\ Cached(service) \in ServiceVersions /\ Stored(service) \in ServiceVersions
           /\ Cached(secret) \in SecretVersions \cup {Absent}
           /\ Stored(secret) \in SecretVersions \cup {Absent}
           /\ Cached(kubeService) \in KubeServiceVersions \cup {Absent}
           /\ Stored(kubeService) \in KubeServiceVersions \cup {Absent}
           /\ \A v \in Versions :
                 /\ Cached(deployment[v]) \in DeploymentVersions \cup {Absent}
                 /\ Stored(deployment[v]) \in DeploymentVersions \cup {Absent}
           /\ run.local \in ServiceVersions /\ run.hash \in Hashes
           /\ run.step \in Steps /\ run.plan \in Plans
  BY HistoryEnds DEF TypeInv, TypeOK, Runs

\* The status patchServiceStatus sends, and what the server makes of it, are a status.
LEMMA StatusType ==
    ASSUME TypeInv, run.step = "status"
    PROVE  /\ WantedStatus(run.local) \in ServiceVersions
           /\ MergedStatus(run.local, WantedStatus(run.local), Stored(service))
                 \in ServiceVersions
  <1>1. run.plan \in Plans \ {"none"}
    BY ReadsType DEF TypeInv, RunInv
  <1>2. WantedStatus(run.local) \in ServiceVersions
    <2>1. CASE run.plan = "version"
      <3>1. NextVersion(run.local) \in 0 .. MaxVersion
        BY <2>1, BoundsAssumption DEF TypeInv, RunInv, Versions
      <3>. QED
        BY <2>1, <3>1, ReadsType DEF WantedStatus, ServiceVersions, Reasons
    <2>2. CASE run.plan = "missing"
      BY <2>2, ReadsType DEF WantedStatus, ServiceVersions, Reasons
    <2>3. CASE run.plan = "progressing"
      BY <2>3, ReadsType DEF WantedStatus, ServiceVersions, Reasons
    <2>4. CASE run.plan = "promote"
      BY <2>4, ReadsType DEF WantedStatus, ServiceVersions, Reasons
    <2>. QED BY <1>1, <2>1, <2>2, <2>3, <2>4 DEF Plans
  <1>3. MergedStatus(run.local, WantedStatus(run.local), Stored(service)) \in ServiceVersions
    BY <1>2, ReadsType DEF MergedStatus, Merged, ServiceVersions
  <1>. QED BY <1>2, <1>3

\* A reconcile that has made one of its calls goes on with the next one.
LEMMA AdvanceType ==
    ASSUME TypeInv, Advance, run.step \in {"account", "deployment", "kubeService"},
           run.plan = "version" /\ run.step = "deployment"
              => NextVersion(run.local) \in Versions
    PROVE  run' \in Runs /\ RunInv'
  <1>1. After(run.step, run.plan) \in {"deployment", "kubeService", "status", "account"}
    BY DEF After
  <1>2. run' \in Runs /\ run'.step = After(run.step, run.plan)
        /\ run'.plan = run.plan /\ run'.local = run.local
    BY <1>1 DEF TypeInv, TypeOK, Advance, Runs, Steps
  <1>3. run.plan = "version" /\ run'.step \in {"kubeService", "status"}
           => run.step \in {"deployment", "kubeService"}
    BY <1>2 DEF After
  <1>. QED BY <1>1, <1>2, <1>3 DEF TypeInv, RunInv, NextVersion

\* Each write puts a version of the object's type.
LEMMA StepType == TypeInv /\ [Next]_vars => TypeInv'
  <1>. SUFFICES ASSUME TypeInv, [Next]_vars PROVE TypeInv'
    OBVIOUS
  <1>. USE ReadsType
  <1>1. CASE ReadService
    <2>1. run' \in Runs /\ RunInv'
      BY <1>1 DEF ReadService, Idle, RunInv, Runs, Steps, Plans, Hashes
    <2>. QED BY <1>1, <2>1 DEF ReadService, objects, TypeInv, TypeOK
  <1>2. CASE LabelService
    <2>1. [Stored(service) EXCEPT !.managed = TRUE] \in ServiceVersions
      BY DEF ServiceVersions
    <2>2. service' \in Histories(ServiceVersions)
      BY <1>2, <2>1, PutHistory DEF LabelService, TypeInv, TypeOK
    <2>3. NewService \in ServiceVersions
      BY BoundsAssumption DEF NewService, ServiceVersions, Hashes, Reasons
    <2>4. run' \in Runs /\ RunInv'
      BY <1>2, <2>3 DEF LabelService, Idle, RunInv, Runs, Steps, Plans, Hashes
    <2>. QED BY <1>2, <2>2, <2>4 DEF LabelService, TypeInv, TypeOK
  <1>3. CASE LabelConflict
    BY <1>3 DEF LabelConflict, vars, objects, TypeInv, TypeOK, RunInv
  <1>4. CASE GetLabelled
    <2>1. run' \in Runs /\ RunInv'
      BY <1>4 DEF GetLabelled, RunInv, TypeInv, TypeOK, Runs, Steps
    <2>. QED BY <1>4, <2>1 DEF GetLabelled, objects, TypeInv, TypeOK
  <1>5. CASE EnsureEnvSecret
    <2>1. AdoptedSecret \in SecretVersions /\ ReturnedData \in EnvData
      <3>1. CASE Stored(secret) = Absent
        BY <3>1, ValuesAssumption DEF AdoptedSecret, ReturnedData, SecretVersions
      <3>2. CASE Stored(secret) # Absent /\ Cached(secret) = Absent
        BY <3>2, ValuesAssumption DEF AdoptedSecret, ReturnedData
      <3>3. CASE Stored(secret) # Absent /\ Cached(secret) # Absent
        <4>1. Merged(Cached(secret).owned, TRUE, Stored(secret).owned) \in BOOLEAN
          BY <3>3, Zenon DEF Merged, SecretVersions
        <4>. QED BY <3>3, <4>1 DEF AdoptedSecret, ReturnedData, SecretVersions
      <3>. QED BY <3>1, <3>2, <3>3
    <2>2. secret' \in Histories(SecretVersions \cup {Absent})
      BY <1>5, <2>1, PutHistory DEF EnsureEnvSecret, TypeInv, TypeOK
    <2>3. run' \in Runs /\ RunInv'
      BY <1>5, <2>1
      DEF EnsureEnvSecret, RunInv, TypeInv, TypeOK, Runs, Steps, Plans, Hashes
    <2>. QED BY <1>5, <2>2, <2>3 DEF EnsureEnvSecret, TypeInv, TypeOK
  <1>6. CASE EnsureAccount
    <2>1. account' \in Histories({Absent, "present"})
      BY <1>6, PutHistory DEF EnsureAccount, TypeInv, TypeOK
    <2>2. run' \in Runs /\ RunInv'
      BY <1>6, AdvanceType DEF EnsureAccount
    <2>. QED BY <1>6, <2>1, <2>2 DEF EnsureAccount, TypeInv, TypeOK
  <1>7. CASE CreateDeployment
    <2>. DEFINE v == NextVersion(run.local)
    <2>1. v \in Versions
      BY <1>7 DEF CreateDeployment
    <2>2. [spec |-> run.local.generation, ready |-> FALSE]
             \in DeploymentVersions \cup {Absent}
      BY DEF ServiceVersions, DeploymentVersions
    <2>3. deployment' \in [Versions -> Histories(DeploymentVersions \cup {Absent})]
      BY <1>7, <2>1, <2>2, PutHistory DEF CreateDeployment, TypeInv, TypeOK
    <2>4. run' \in Runs /\ RunInv'
      BY <1>7, <2>1, AdvanceType DEF CreateDeployment
    <2>. QED BY <1>7, <2>3, <2>4 DEF CreateDeployment, TypeInv, TypeOK
  <1>8. CASE EnsureKubeService
    <2>1. WantedKubeService \in KubeServiceVersions
      BY DEF WantedKubeService, WantedSelector, ServiceVersions, KubeServiceVersions
    <2>2. PatchedKubeService \in KubeServiceVersions
      <3>1. CASE Stored(kubeService) = Absent \/ Cached(kubeService) = Absent
        BY <2>1, <3>1 DEF PatchedKubeService
      <3>2. CASE Stored(kubeService) # Absent /\ Cached(kubeService) # Absent
        BY <2>1, <3>2 DEF PatchedKubeService, KubeServiceVersions, Merged
      <3>. QED BY <3>1, <3>2
    <2>3. kubeService' \in Histories(KubeServiceVersions \cup {Absent})
      BY <1>8, <2>2, PutHistory DEF EnsureKubeService, TypeInv, TypeOK
    <2>4. run' \in Runs /\ RunInv'
      BY <1>8, AdvanceType DEF EnsureKubeService
    <2>. QED BY <1>8, <2>3, <2>4 DEF EnsureKubeService, TypeInv, TypeOK
  <1>9. CASE LookUpLatest
    <2>1. PlanFor(LatestFound) \in {"missing", "promote", "progressing"}
      BY DEF PlanFor
    <2>2. run' \in Runs /\ RunInv'
      BY <1>9, <2>1 DEF LookUpLatest, RunInv, TypeInv, TypeOK, Runs, Steps, Plans
    <2>. QED BY <1>9, <2>2 DEF LookUpLatest, objects, TypeInv, TypeOK
  <1>10. CASE PatchStatus
    <2>1. service' \in Histories(ServiceVersions)
      BY <1>10, StatusType, PutHistory DEF PatchStatus, TypeInv, TypeOK
    <2>2. NewService \in ServiceVersions
      BY BoundsAssumption DEF NewService, ServiceVersions, Hashes, Reasons
    <2>3. run' \in Runs /\ RunInv'
      BY <1>10, <2>2 DEF PatchStatus, Idle, RunInv, Runs, Steps, Plans, Hashes
    <2>. QED BY <1>10, <2>1, <2>3 DEF PatchStatus, TypeInv, TypeOK
  <1>11. CASE PatchStatusConflict \/ Fail
    <2>1. NewService \in ServiceVersions
      BY BoundsAssumption DEF NewService, ServiceVersions, Hashes, Reasons
    <2>2. run' \in Runs /\ RunInv'
      BY <1>11, <2>1
      DEF PatchStatusConflict, Fail, Idle, RunInv, Runs, Steps, Plans, Hashes
    <2>3. spent' \in [env : Nat, readiness : Nat, faults : Nat]
      BY <1>11 DEF PatchStatusConflict, Fail, TypeInv, TypeOK
    <2>. QED BY <1>11, <2>2, <2>3 DEF PatchStatusConflict, Fail, objects, TypeInv, TypeOK
  <1>12. CASE Watch
    <2>1. CASE DeliverService
      BY <2>1, DeliverHistory DEF DeliverService, TypeInv, TypeOK, RunInv
    <2>2. CASE DeliverSecret
      BY <2>2, DeliverHistory DEF DeliverSecret, TypeInv, TypeOK, RunInv
    <2>3. CASE DeliverAccount
      BY <2>3, DeliverHistory DEF DeliverAccount, TypeInv, TypeOK, RunInv
    <2>4. CASE DeliverKubeService
      BY <2>4, DeliverHistory DEF DeliverKubeService, TypeInv, TypeOK, RunInv
    <2>5. ASSUME NEW v \in Versions, DeliverDeployment(v) PROVE TypeInv'
      BY <2>5, DeliverHistory DEF DeliverDeployment, TypeInv, TypeOK, RunInv
    <2>. QED BY <1>12, <2>1, <2>2, <2>3, <2>4, <2>5 DEF Watch
  <1>13. CASE Resync
    BY <1>13 DEF Resync, objects, TypeInv, TypeOK, RunInv
  <1>14. CASE EditSpec
    <2>1. [Stored(service) EXCEPT !.generation = @ + 1] \in ServiceVersions
      BY DEF ServiceVersions
    <2>2. service' \in Histories(ServiceVersions)
      BY <1>14, <2>1, PutHistory DEF EditSpec, TypeInv, TypeOK
    <2>. QED BY <1>14, <2>2 DEF EditSpec, TypeInv, TypeOK, RunInv
  <1>15. ASSUME NEW data \in EnvData, EditEnv(data) PROVE TypeInv'
    <2>1. [Stored(secret) EXCEPT !.data = data] \in SecretVersions
      BY <1>15 DEF EditEnv, SecretVersions
    <2>2. secret' \in Histories(SecretVersions \cup {Absent})
      BY <1>15, <2>1, PutHistory DEF EditEnv, TypeInv, TypeOK
    <2>3. spent' \in [env : Nat, readiness : Nat, faults : Nat]
      BY <1>15 DEF EditEnv, TypeInv, TypeOK
    <2>. QED BY <1>15, <2>2, <2>3 DEF EditEnv, TypeInv, TypeOK, RunInv
  <1>16. ASSUME NEW v \in Versions, ChangeReadiness(v) PROVE TypeInv'
    <2>1. WithOtherReadiness(Stored(deployment[v])) \in DeploymentVersions
      BY <1>16 DEF ChangeReadiness, WithOtherReadiness, DeploymentVersions
    <2>2. deployment' \in [Versions -> Histories(DeploymentVersions \cup {Absent})]
      <3>1. deployment[v] \in Histories(DeploymentVersions \cup {Absent})
        BY DEF TypeInv, TypeOK
      <3>2. Put(deployment[v], WithOtherReadiness(Stored(deployment[v])))
               \in Histories(DeploymentVersions \cup {Absent})
        BY <2>1, <3>1, PutHistory
      <3>. QED BY <1>16, <3>2 DEF ChangeReadiness, TypeInv, TypeOK
    <2>3. spent' \in [env : Nat, readiness : Nat, faults : Nat]
      BY <1>16 DEF ChangeReadiness, TypeInv, TypeOK
    <2>4. proven' \subseteq Versions
      BY <1>16 DEF ChangeReadiness, TypeInv, TypeOK
    <2>. QED BY <1>16, <2>2, <2>3, <2>4 DEF ChangeReadiness, TypeInv, TypeOK, RunInv
  <1>17. CASE UNCHANGED vars
    BY <1>17 DEF vars, objects, TypeInv, TypeOK, RunInv
  <1>. QED
    BY <1>1, <1>2, <1>3, <1>4, <1>5, <1>6, <1>7, <1>8, <1>9, <1>10, <1>11, <1>12,
       <1>13, <1>14, <1>15, <1>16, <1>17
    DEF Next, Reconcile, Others

\* The types, and what a reconcile in progress knows, hold in every state.
LEMMA TypeInvariant == Safety => []TypeInv
  <1>. QED BY InitType, StepType, PTL DEF Safety

\* Whatever is read stale, fails or is edited meanwhile, every name the controller
\* forms and every selector it writes stands for a version it could have created.
THEOREM TypeCorrect == Safety => []TypeOK
  <1>1. TypeInv => TypeOK
    BY DEF TypeInv
  <1>. QED BY <1>1, TypeInvariant, PTL
---------------------------------------------------------------------------
(* Traffic *)

\* "Honest" versions of the objects name, as active, selected or ready, only
\* versions that have been ready.
HonestServices(past) == {s \in ServiceVersions : s.active \in past \cup {0}}
HonestKubeServices(past) == {k \in KubeServiceVersions : k.selector \in past \cup {0}}
HonestDeployments(v, past) == {d \in DeploymentVersions : d.ready => v \in past}

\* All versions are honest, those the caches still have to see included, and so is
\* what the reconcile in progress read of them.
HonestInv ==
    /\ service \in Histories(HonestServices(proven))
    /\ kubeService \in Histories(HonestKubeServices(proven) \cup {Absent})
    /\ \A v \in Versions :
          deployment[v] \in Histories(HonestDeployments(v, proven) \cup {Absent})
    /\ run.local \in HonestServices(proven)
    /\ run.plan = "promote" => run.local.latest \in proven

\* No version names an unproven Deployment before any Deployment exists.
LEMMA InitHonest == Init => HonestInv
  <1>. SUFFICES ASSUME Init PROVE HonestInv
    OBVIOUS
  <1>1. NewService \in HonestServices(proven)
    BY BoundsAssumption DEF NewService, HonestServices, ServiceVersions, Hashes, Reasons
  <1>2. service \in Histories(HonestServices(proven))
    BY <1>1, FreshHistory DEF Init
  <1>3. kubeService \in Histories(HonestKubeServices(proven) \cup {Absent})
    BY FreshHistory DEF Init
  <1>4. ASSUME NEW v \in Versions
        PROVE  deployment[v] \in Histories(HonestDeployments(v, proven) \cup {Absent})
    BY FreshHistory DEF Init
  <1>5. run.local \in HonestServices(proven) /\ run.plan # "promote"
    BY <1>1 DEF Init, Idle
  <1>. QED BY <1>2, <1>3, <1>4, <1>5 DEF HonestInv

\* More versions become proven, and none stops being: honest versions stay honest.
LEMMA MoreProven ==
    ASSUME NEW p, NEW q, p \subseteq q
    PROVE  /\ HonestServices(p) \subseteq HonestServices(q)
           /\ HonestKubeServices(p) \subseteq HonestKubeServices(q)
           /\ \A v : HonestDeployments(v, p) \subseteq HonestDeployments(v, q)
  BY DEF HonestServices, HonestKubeServices, HonestDeployments

\* Whatever a reconcile reads of the Service or the Kubernetes Service is honest.
LEMMA ReadsHonest ==
    ASSUME TypeInv, HonestInv
    PROVE  /\ Cached(service) \in HonestServices(proven)
           /\ Stored(service) \in HonestServices(proven)
           /\ Cached(kubeService) \in HonestKubeServices(proven) \cup {Absent}
           /\ Stored(kubeService) \in HonestKubeServices(proven) \cup {Absent}
           /\ \A v \in Versions :
                 /\ Cached(deployment[v]) \in HonestDeployments(v, proven) \cup {Absent}
                 /\ Stored(deployment[v]) \in HonestDeployments(v, proven) \cup {Absent}
  BY HistoryEnds DEF HonestInv

\* No step writes an unproven version into a selector or a status: one case per action.
LEMMA StepHonest == TypeInv /\ HonestInv /\ [Next]_vars => HonestInv'
  <1>. SUFFICES ASSUME TypeInv, HonestInv, [Next]_vars PROVE HonestInv'
    OBVIOUS
  <1>. USE ReadsType, ReadsHonest
  <1>0. NewService \in HonestServices(proven)
    BY BoundsAssumption DEF NewService, HonestServices, ServiceVersions, Hashes, Reasons
  <1>1. CASE ReadService \/ GetLabelled
    <2>1. run'.local = Cached(service) /\ run'.plan = "none"
      BY <1>1 DEF ReadService, GetLabelled, Idle, TypeInv, TypeOK, RunInv, Runs
    <2>. QED BY <1>1, <2>1 DEF ReadService, GetLabelled, objects, HonestInv
  <1>2. CASE LabelService
    <2>1. [Stored(service) EXCEPT !.managed = TRUE] \in HonestServices(proven)
      BY DEF ServiceVersions, HonestServices
    <2>2. service' \in Histories(HonestServices(proven))
      BY <1>2, <2>1, PutHistory DEF LabelService, HonestInv
    <2>. QED BY <1>0, <1>2, <2>2 DEF LabelService, Idle, HonestInv
  <1>3. CASE LabelConflict \/ UNCHANGED vars
    BY <1>3 DEF LabelConflict, vars, objects, HonestInv
  <1>4. CASE EnsureEnvSecret
    BY <1>4 DEF EnsureEnvSecret, HonestInv, TypeInv, TypeOK, Runs
  <1>5. CASE EnsureAccount
    BY <1>5 DEF EnsureAccount, Advance, HonestInv, TypeInv, TypeOK, Runs
  <1>6. CASE CreateDeployment
    <2>. DEFINE v == NextVersion(run.local)
                new == [spec |-> run.local.generation, ready |-> FALSE]
    <2>1. v \in Versions
      BY <1>6 DEF CreateDeployment
    <2>2. new \in HonestDeployments(v, proven)
      BY DEF ServiceVersions, DeploymentVersions, HonestDeployments
    <2>3. Put(deployment[v], new) \in Histories(HonestDeployments(v, proven) \cup {Absent})
      BY <2>1, <2>2, PutHistory DEF HonestInv
    <2>4. ASSUME NEW w \in Versions
          PROVE  deployment'[w] \in Histories(HonestDeployments(w, proven) \cup {Absent})
      BY <1>6, <2>1, <2>3 DEF CreateDeployment, HonestInv, TypeInv, TypeOK
    <2>. QED
      BY <1>6, <2>4 DEF CreateDeployment, Advance, HonestInv, TypeInv, TypeOK, Runs
  <1>7. CASE EnsureKubeService
    <2>1. WantedKubeService \in HonestKubeServices(proven)
      BY DEF WantedKubeService, WantedSelector, ServiceVersions, KubeServiceVersions,
             HonestServices, HonestKubeServices, HonestInv
    <2>2. PatchedKubeService \in HonestKubeServices(proven)
      <3>1. CASE Stored(kubeService) = Absent \/ Cached(kubeService) = Absent
        BY <2>1, <3>1 DEF PatchedKubeService
      <3>2. CASE Stored(kubeService) # Absent /\ Cached(kubeService) # Absent
        BY <2>1, <3>2
        DEF PatchedKubeService, HonestKubeServices, KubeServiceVersions, Merged
      <3>. QED BY <3>1, <3>2
    <2>3. kubeService' \in Histories(HonestKubeServices(proven) \cup {Absent})
      BY <1>7, <2>2, PutHistory DEF EnsureKubeService, HonestInv
    <2>. QED
      BY <1>7, <2>3 DEF EnsureKubeService, Advance, HonestInv, TypeInv, TypeOK, Runs
  <1>8. CASE LookUpLatest
    <2>1. PlanFor(LatestFound) = "promote" => run.local.latest \in proven
      BY DEF PlanFor, LatestFound, HonestDeployments, ServiceVersions, Versions
    <2>. QED BY <1>8, <2>1 DEF LookUpLatest, objects, HonestInv, TypeInv, TypeOK, Runs
  <1>9. CASE PatchStatus
    <2>. DEFINE new == MergedStatus(run.local, WantedStatus(run.local), Stored(service))
    <2>1. new \in ServiceVersions
      BY <1>9, StatusType DEF PatchStatus
    <2>2. new.active \in proven \cup {0}
      <3>1. run.plan \in Plans \ {"none"}
        BY <1>9 DEF PatchStatus, TypeInv, RunInv
      <3>2. WantedStatus(run.local).active \in proven \cup {0}
        BY <3>1 DEF Plans, WantedStatus, HonestInv, HonestServices, ServiceVersions
      <3>. QED BY <3>2 DEF MergedStatus, Merged, HonestServices, ServiceVersions
    <2>3. service' \in Histories(HonestServices(proven))
      BY <1>9, <2>1, <2>2, PutHistory DEF PatchStatus, HonestInv, HonestServices
    <2>. QED BY <1>0, <1>9, <2>3 DEF PatchStatus, Idle, HonestInv
  <1>10. CASE PatchStatusConflict \/ Fail
    <2>1. run'.local = NewService /\ run'.plan = "none"
      BY <1>10 DEF PatchStatusConflict, Fail, Idle
    <2>. QED BY <1>0, <1>10, <2>1 DEF PatchStatusConflict, Fail, objects, HonestInv
  <1>11. CASE Watch
    <2>1. CASE DeliverService
      BY <2>1, DeliverHistory DEF DeliverService, HonestInv
    <2>2. CASE DeliverSecret \/ DeliverAccount
      BY <2>2 DEF DeliverSecret, DeliverAccount, HonestInv
    <2>3. CASE DeliverKubeService
      BY <2>3, DeliverHistory DEF DeliverKubeService, HonestInv
    <2>4. ASSUME NEW v \in Versions, DeliverDeployment(v) PROVE HonestInv'
      <3>1. Deliver(deployment[v]) \in Histories(HonestDeployments(v, proven) \cup {Absent})
        BY <2>4, DeliverHistory DEF DeliverDeployment, HonestInv
      <3>2. ASSUME NEW w \in Versions
            PROVE  deployment'[w] \in Histories(HonestDeployments(w, proven) \cup {Absent})
        BY <2>4, <3>1 DEF DeliverDeployment, HonestInv, TypeInv, TypeOK
      <3>. QED BY <2>4, <3>2 DEF DeliverDeployment, HonestInv
    <2>. QED BY <1>11, <2>1, <2>2, <2>3, <2>4 DEF Watch
  <1>12. CASE Resync \/ \E data \in EnvData : EditEnv(data)
    BY <1>12 DEF Resync, EditEnv, objects, HonestInv
  <1>13. CASE EditSpec
    <2>1. [Stored(service) EXCEPT !.generation = @ + 1] \in HonestServices(proven)
      BY DEF ServiceVersions, HonestServices
    <2>2. service' \in Histories(HonestServices(proven))
      BY <1>13, <2>1, PutHistory DEF EditSpec, HonestInv
    <2>. QED BY <1>13, <2>2 DEF EditSpec, HonestInv
  <1>14. ASSUME NEW v \in Versions, ChangeReadiness(v) PROVE HonestInv'
    <2>1. proven \subseteq proven' /\ v \in proven'
      BY <1>14 DEF ChangeReadiness
    <2>2. /\ HonestServices(proven) \subseteq HonestServices(proven')
          /\ HonestKubeServices(proven) \cup {Absent}
                \subseteq HonestKubeServices(proven') \cup {Absent}
          /\ \A w \in Versions : HonestDeployments(w, proven) \cup {Absent}
                \subseteq HonestDeployments(w, proven') \cup {Absent}
      BY <2>1, MoreProven
    <2>3. service' \in Histories(HonestServices(proven'))
          /\ kubeService' \in Histories(HonestKubeServices(proven') \cup {Absent})
      BY <1>14, <2>2, LargerHistories DEF ChangeReadiness, HonestInv
    <2>4. WithOtherReadiness(Stored(deployment[v])) \in HonestDeployments(v, proven')
      BY <1>14, <2>1
      DEF ChangeReadiness, WithOtherReadiness, HonestDeployments, DeploymentVersions
    <2>5. ASSUME NEW w \in Versions
          PROVE  deployment[w] \in Histories(HonestDeployments(w, proven') \cup {Absent})
      <3>1. deployment[w] \in Histories(HonestDeployments(w, proven) \cup {Absent})
        BY DEF HonestInv
      <3>. QED BY <2>2, <3>1, LargerHistories
    <2>6. Put(deployment[v], WithOtherReadiness(Stored(deployment[v])))
             \in Histories(HonestDeployments(v, proven') \cup {Absent})
      BY <2>4, <2>5, PutHistory
    <2>7. ASSUME NEW w \in Versions
          PROVE  deployment'[w] \in Histories(HonestDeployments(w, proven') \cup {Absent})
      BY <1>14, <2>5, <2>6 DEF ChangeReadiness, TypeInv, TypeOK
    <2>. QED BY <1>14, <2>1, <2>2, <2>3, <2>7 DEF ChangeReadiness, HonestInv
  <1>. QED
    BY <1>1, <1>2, <1>3, <1>4, <1>5, <1>6, <1>7, <1>8, <1>9, <1>10, <1>11, <1>12,
       <1>13, <1>14
    DEF Next, Reconcile, Others

\* The versions named in selectors and statuses, old copies included, are proven ones.
LEMMA HonestInvariant == Safety => []HonestInv
  <1>. QED BY TypeInvariant, InitHonest, StepHonest, PTL DEF Safety

\* A version receives traffic, or is called active, only if its Deployment has been
\* ready, in whatever order reads, writes, edits and failures come.
THEOREM OnlyProvenVersionsGetTraffic == Safety => []TrafficOnlyToProven
  <1>1. TypeInv /\ HonestInv => TrafficOnlyToProven
    BY ReadsHonest DEF TrafficOnlyToProven, HonestServices, HonestKubeServices
  <1>. QED BY <1>1, TypeInvariant, HonestInvariant, PTL
---------------------------------------------------------------------------
(* Order *)

\* t is s or a later version of the Service.
Follows(s, t) ==
    /\ s.generation <= t.generation
    /\ s.observed <= t.observed
    /\ s.latest <= t.latest
    /\ s.active <= t.active

\* The versions the cache still has to see come one after the other.
Ascends(history) ==
    \A i, j \in 1 .. Len(history) : i <= j => Follows(history[i], history[j])

\* A reconcile has read its copy of the Service.
HasCopy == run.step \notin {"idle", "get"}

\* What the server stores is at most what a reconcile from this copy would write.
\* This is why a stale copy does no harm: it repeats the writes made since.
WithinReach(status, copy) ==
    /\ status.observed <= copy.generation
    /\ status.latest <= NextVersion(copy)
    /\ status.active <= copy.latest

AtMostOneWriteAhead(copy) ==
    /\ WithinReach(Stored(service), copy)
    /\ \A v \in Versions :
          Exists(v) => v <= NextVersion(copy) /\ Stored(deployment[v]).spec <= copy.generation

\* A reconcile on its way to a new version has created its Deployment.
HasCreated == HasCopy /\ run.plan = "version" /\ run.step \in {"kubeService", "status"}

OrderInv ==
    /\ Ascends(service)
    /\ AtMostOneWriteAhead(Cached(service))
    /\ HasCopy => Follows(run.local, Cached(service)) /\ AtMostOneWriteAhead(run.local)
    /\ HasCreated => Exists(NextVersion(run.local))
    /\ VersionsInOrder

\* Before the first reconcile no version exists, and none is claimed.
LEMMA InitOrder == Init => OrderInv
  <1>. SUFFICES ASSUME Init PROVE OrderInv
    OBVIOUS
  <1>1. NewService \in ServiceVersions
    BY BoundsAssumption DEF NewService, ServiceVersions, Hashes, Reasons
  <1>2. /\ Len(service) = 1 /\ service[1] = NewService
        /\ Cached(service) = NewService /\ Stored(service) = NewService
    BY <1>1, FreshHistory DEF Init
  <1>3. Ascends(service)
    BY <1>2 DEF Ascends, Follows, NewService
  <1>4. \A v \in Versions : ~Exists(v)
    BY FreshHistory DEF Init, Exists
  <1>5. AtMostOneWriteAhead(Cached(service)) /\ VersionsInOrder
    BY <1>2, <1>4
    DEF AtMostOneWriteAhead, WithinReach, VersionsInOrder, NextVersion, NewService, Versions
  <1>6. ~HasCopy
    BY DEF Init, Idle, HasCopy
  <1>. QED BY <1>3, <1>5, <1>6 DEF OrderInv, HasCreated

\* Later statuses of a Service follow earlier ones, over any number of writes.
LEMMA FollowsIsTransitive ==
    ASSUME NEW r \in ServiceVersions, NEW s \in ServiceVersions, NEW t \in ServiceVersions,
           Follows(r, s), Follows(s, t)
    PROVE  Follows(r, t)
  BY BoundsAssumption DEF Follows, ServiceVersions

\* The stored Service is as new as the cached one, which may be stale.
LEMMA StoredFollowsCached ==
    ASSUME NEW h \in Histories(ServiceVersions), Ascends(h)
    PROVE  Follows(Cached(h), Stored(h))
  <1>1. Len(h) \in Nat \ {0}
    BY HistoryEnds
  <1>. QED BY <1>1 DEF Ascends, Cached, Stored, Histories

\* A write that follows what is stored keeps the versions of the Service in order.
LEMMA PutAscends ==
    ASSUME NEW h \in Histories(ServiceVersions), NEW s \in ServiceVersions,
           Ascends(h), Follows(Stored(h), s)
    PROVE  Ascends(Put(h, s))
  <1>1. Len(h) \in Nat \ {0} /\ Stored(h) \in ServiceVersions
        /\ \A i \in 1 .. Len(h) : h[i] \in ServiceVersions
    BY HistoryEnds DEF Histories
  <1>2. \A i \in 1 .. Len(h) : Follows(h[i], Stored(h))
    BY <1>1 DEF Ascends, Stored
  <1>3. \A i \in 1 .. Len(h) : Follows(h[i], s)
    BY <1>1, <1>2, FollowsIsTransitive
  <1>4. Follows(s, s)
    BY BoundsAssumption DEF Follows, ServiceVersions
  <1>. SUFFICES ASSUME NEW i \in 1 .. Len(Put(h, s)), NEW j \in 1 .. Len(Put(h, s)), i <= j
                PROVE  Follows(Put(h, s)[i], Put(h, s)[j])
    BY DEF Ascends
  <1>5. \/ i \in 1 .. Len(h) /\ Put(h, s)[i] = h[i]
        \/ i = Len(Put(h, s)) /\ Put(h, s)[i] = s
    BY PutVersions
  <1>6. \/ j \in 1 .. Len(h) /\ Put(h, s)[j] = h[j]
        \/ j = Len(Put(h, s)) /\ Put(h, s)[j] = s
    BY PutVersions
  <1>7. Len(Put(h, s)) \in Nat
    BY PutHistory, HistoryEnds
  <1>8. CASE i = Len(Put(h, s)) /\ Put(h, s)[i] = s
    BY <1>4, <1>7, <1>8
  <1>9. CASE i \in 1 .. Len(h) /\ Put(h, s)[i] = h[i]
    BY <1>3, <1>6, <1>9 DEF Ascends
  <1>. QED BY <1>5, <1>8, <1>9

\* What the cache has yet to see is in order after it has seen one more version.
LEMMA DeliverAscends ==
    ASSUME NEW h \in Histories(ServiceVersions), Ascends(h), Pending(h)
    PROVE  Ascends(Deliver(h)) /\ Follows(Cached(h), Cached(Deliver(h)))
  <1>1. Len(h) \in Nat \ {0}
    BY HistoryEnds
  <1>2. Follows(Cached(h), Cached(Deliver(h)))
    <2>1. Cached(h) = h[1]
      BY DEF Cached, Histories
    <2>. QED BY <1>1, <2>1, DeliverHistory DEF Ascends
  <1>3. Ascends(Deliver(h))
    <2>. SUFFICES ASSUME NEW i \in 1 .. Len(Deliver(h)), NEW j \in 1 .. Len(Deliver(h)),
                         i <= j
                  PROVE  Follows(Deliver(h)[i], Deliver(h)[j])
      BY DEF Ascends
    <2>1. /\ Len(Deliver(h)) = Len(h) - 1
          /\ Deliver(h)[i] = h[i + 1] /\ Deliver(h)[j] = h[j + 1]
      BY DeliverHistory
    <2>2. i + 1 \in 1 .. Len(h) /\ j + 1 \in 1 .. Len(h) /\ i + 1 <= j + 1
      BY <1>1, <2>1
    <2>. QED BY <2>1, <2>2 DEF Ascends
  <1>. QED BY <1>2, <1>3

\* A step that leaves the Service and the specs of the Deployments alone keeps the
\* order, if the reconcile keeps its copy and does not skip the Deployment.
LEMMA SameOrder ==
    ASSUME OrderInv,
           service' = service,
           \A v \in Versions : Exists(v)' <=> Exists(v),
           \A v \in Versions :
              Exists(v) => Stored(deployment[v])'.spec = Stored(deployment[v]).spec,
           HasCopy' => HasCopy /\ run'.local = run.local,
           HasCreated' => HasCreated,
           HasCreated => NextVersion(run.local) \in Versions
    PROVE  OrderInv'
  <1>1. \A copy : AtMostOneWriteAhead(copy) => AtMostOneWriteAhead(copy)'
    BY DEF AtMostOneWriteAhead, WithinReach, NextVersion
  <1>2. VersionsInOrder'
    BY DEF OrderInv, VersionsInOrder
  <1>3. HasCopy' => Follows(run.local, Cached(service))' /\ AtMostOneWriteAhead(run.local)'
    BY <1>1 DEF OrderInv, AtMostOneWriteAhead, WithinReach, Follows, NextVersion
  <1>4. HasCreated' => Exists(NextVersion(run.local))'
    <2>. SUFFICES ASSUME HasCreated' PROVE Exists(NextVersion(run.local))'
      OBVIOUS
    <2>1. HasCreated /\ run'.local = run.local
      BY DEF HasCreated
    <2>2. Exists(NextVersion(run.local)) /\ NextVersion(run.local) \in Versions
      BY <2>1 DEF OrderInv
    <2>3. NextVersion(run.local)' = NextVersion(run.local)
      BY <2>1 DEF NextVersion
    <2>. QED BY <2>2, <2>3 DEF Exists
  <1>. QED BY <1>1, <1>2, <1>3, <1>4 DEF OrderInv, AtMostOneWriteAhead, NextVersion

\* A write of the Service that takes nothing back, announces only versions that have
\* their Deployment, and stays within reach of whoever is to write next.
LEMMA WriteOrder ==
    ASSUME TypeInv, OrderInv,
           NEW s \in ServiceVersions,
           service' = Put(service, s), deployment' = deployment,
           Follows(Stored(service), s),
           WithinReach(s, Cached(service)),
           \A v \in Versions : v <= s.latest => Exists(v),
           HasCopy' => HasCopy /\ run'.local = run.local /\ WithinReach(s, run.local),
           HasCreated' => HasCreated
    PROVE  OrderInv'
  <1>1. service \in Histories(ServiceVersions) /\ Ascends(service)
    BY DEF TypeInv, TypeOK, OrderInv
  <1>2. Stored(service') = s /\ Cached(service') = Cached(service) /\ Ascends(service')
    BY <1>1, PutHistory, PutAscends
  <1>3. \A v \in Versions : (Exists(v)' <=> Exists(v))
                            /\ Stored(deployment[v])' = Stored(deployment[v])
    BY DEF Exists
  <1>4. AtMostOneWriteAhead(Cached(service))'
    BY <1>2, <1>3 DEF OrderInv, AtMostOneWriteAhead, WithinReach, NextVersion
  <1>5. HasCopy' => Follows(run.local, Cached(service))' /\ AtMostOneWriteAhead(run.local)'
    BY <1>2, <1>3 DEF OrderInv, AtMostOneWriteAhead, WithinReach, NextVersion, Follows
  <1>6. HasCreated' => Exists(NextVersion(run.local))'
    BY DEF OrderInv, HasCreated, Exists, NextVersion
  <1>7. VersionsInOrder'
    <2>1. s.latest \in Nat /\ Stored(service).latest \in Nat
          /\ Stored(service).latest <= s.latest
      BY ReadsType, BoundsAssumption DEF ServiceVersions, Follows
    <2>2. \A v \in Versions : v \in Nat
      BY BoundsAssumption DEF Versions
    <2>. QED BY <1>2, <1>3, <2>1, <2>2 DEF OrderInv, VersionsInOrder
  <1>. QED BY <1>2, <1>4, <1>5, <1>6, <1>7 DEF OrderInv

\* A reconcile that has just copied the cached Service.
LEMMA CopyOrder ==
    ASSUME TypeInv, OrderInv, service' = service, deployment' = deployment,
           run'.local = Cached(service), run'.step = "env"
    PROVE  OrderInv'
  <1>1. Follows(Cached(service), Cached(service))
    BY ReadsType, BoundsAssumption DEF Follows, ServiceVersions
  <1>2. AtMostOneWriteAhead(Cached(service))' /\ VersionsInOrder' /\ Ascends(service)'
    BY DEF OrderInv, AtMostOneWriteAhead, WithinReach, NextVersion, Exists,
           VersionsInOrder, Ascends, Follows
  <1>3. Follows(run.local, Cached(service))' /\ AtMostOneWriteAhead(run.local)'
    BY <1>1, <1>2 DEF Follows, AtMostOneWriteAhead, WithinReach, NextVersion
  <1>. QED BY <1>2, <1>3 DEF OrderInv, HasCreated

\* The cache moves on: what was within reach of the older version stays so.
LEMMA DeliverOrder ==
    ASSUME TypeInv, OrderInv, DeliverService PROVE OrderInv'
  <1>1. /\ service \in Histories(ServiceVersions) /\ Ascends(service) /\ Pending(service)
        /\ service' = Deliver(service) /\ deployment' = deployment /\ run' = run
    BY DEF DeliverService, TypeInv, TypeOK, OrderInv
  <1>2. /\ Stored(service') = Stored(service) /\ service' \in Histories(ServiceVersions)
        /\ Ascends(service') /\ Follows(Cached(service), Cached(service'))
    BY <1>1, DeliverHistory, DeliverAscends
  <1>3. Cached(service') \in ServiceVersions
    BY <1>2, HistoryEnds
  <1>4. \A copy : AtMostOneWriteAhead(copy) => AtMostOneWriteAhead(copy)'
    BY <1>1, <1>2 DEF AtMostOneWriteAhead, WithinReach, NextVersion, Exists
  <1>5. AtMostOneWriteAhead(Cached(service))'
    <2>1. /\ Stored(service).observed <= Cached(service).generation
          /\ Stored(service).latest <= Cached(service).latest + 1
          /\ Stored(service).active <= Cached(service).latest
      BY DEF OrderInv, AtMostOneWriteAhead, WithinReach, NextVersion
    <2>2. WithinReach(Stored(service), Cached(service'))
      BY <1>2, <1>3, <2>1, ReadsType, BoundsAssumption
      DEF WithinReach, NextVersion, Follows, ServiceVersions
    <2>3. ASSUME NEW v \in Versions, Exists(v)
          PROVE  v <= NextVersion(Cached(service'))
                 /\ Stored(deployment[v]).spec <= Cached(service').generation
      <3>1. v <= Cached(service).latest + 1
            /\ Stored(deployment[v]).spec <= Cached(service).generation
        BY <2>3 DEF OrderInv, AtMostOneWriteAhead, NextVersion
      <3>2. v \in Nat /\ Stored(deployment[v]).spec \in Nat
        BY <2>3, ReadsType, BoundsAssumption DEF Versions, Exists, DeploymentVersions
      <3>. QED
        BY <1>2, <1>3, <3>1, <3>2, ReadsType, BoundsAssumption
        DEF NextVersion, Follows, ServiceVersions
    <2>. QED BY <1>1, <1>2, <2>2, <2>3 DEF AtMostOneWriteAhead, Exists
  <1>6. HasCopy => Follows(run.local, Cached(service'))
    BY <1>2, <1>3, FollowsIsTransitive, ReadsType DEF OrderInv
  <1>7. VersionsInOrder'
    BY <1>1, <1>2 DEF OrderInv, VersionsInOrder, Exists
  <1>8. HasCopy' => Follows(run.local, Cached(service))' /\ AtMostOneWriteAhead(run.local)'
    BY <1>1, <1>4, <1>6 DEF OrderInv, HasCopy, AtMostOneWriteAhead, WithinReach,
                            NextVersion, Exists
  <1>9. HasCreated' => Exists(NextVersion(run.local))'
    BY <1>1 DEF OrderInv, HasCreated, HasCopy, Exists, NextVersion
  <1>. QED BY <1>2, <1>5, <1>7, <1>8, <1>9 DEF OrderInv

\* The next version's Deployment, if nobody has made it: the one before exists, none
\* after does, and all captured specs no newer than this copy's.
LEMMA CreateOrder ==
    ASSUME TypeInv, OrderInv, CreateDeployment, NEW v, v = NextVersion(run.local)
    PROVE  OrderInv'
  <1>. DEFINE new == [spec |-> run.local.generation, ready |-> FALSE]
  <1>1. /\ v \in Versions /\ HasCopy /\ service' = service /\ run'.local = run.local
        /\ run'.plan = run.plan /\ run'.step = "kubeService"
    BY DEF CreateDeployment, HasCopy, Advance, After, TypeInv, TypeOK, Runs
  <1>2. HasCopy'
    BY <1>1 DEF HasCopy
  <1>3. CASE Exists(v)
    <2>1. deployment' = deployment
      BY <1>3 DEF CreateDeployment, Exists
    <2>2. Ascends(service)' /\ AtMostOneWriteAhead(Cached(service))' /\ VersionsInOrder'
      BY <1>1, <2>1 DEF OrderInv, AtMostOneWriteAhead, WithinReach, NextVersion,
                        VersionsInOrder, Exists, Ascends
    <2>3. Follows(run.local, Cached(service))' /\ AtMostOneWriteAhead(run.local)'
      BY <1>1, <2>1 DEF OrderInv, AtMostOneWriteAhead, WithinReach, NextVersion,
                        Exists, Follows
    <2>. QED BY <1>1, <1>2, <1>3, <2>1, <2>2, <2>3 DEF OrderInv, Exists, NextVersion
  <1>4. CASE ~Exists(v)
    <2>1. new \in DeploymentVersions
      BY ReadsType DEF ServiceVersions, DeploymentVersions
    <2>2. Stored(Put(deployment[v], new)) = new
      BY <1>1, <2>1, PutHistory DEF TypeInv, TypeOK
    <2>3. deployment' = [deployment EXCEPT ![v] = Put(deployment[v], new)]
      BY <1>4 DEF CreateDeployment, Exists
    <2>4. /\ Stored(deployment'[v]) = new
          /\ \A w \in Versions \ {v} : deployment'[w] = deployment[w]
      BY <1>1, <2>2, <2>3 DEF TypeInv, TypeOK
    <2>5. /\ Exists(v)' /\ Stored(deployment[v])'.spec = run.local.generation
          /\ \A w \in Versions \ {v} : /\ Exists(w)' <=> Exists(w)
                                       /\ Stored(deployment[w])' = Stored(deployment[w])
      <3>1. new # Absent
        BY <2>1, AbsentAssumption
      <3>2. Exists(v)' /\ Stored(deployment[v])'.spec = run.local.generation
        BY <2>4, <3>1 DEF Exists
      <3>3. ASSUME NEW w \in Versions \ {v}
            PROVE  (Exists(w)' <=> Exists(w)) /\ Stored(deployment[w])' = Stored(deployment[w])
        BY <2>4 DEF Exists
      <3>. QED BY <3>2, <3>3
    <2>6. /\ run.local.latest \in Nat /\ Stored(service).latest \in Nat
          /\ Cached(service).latest \in Nat /\ run.local.generation \in Nat
          /\ Cached(service).generation \in Nat /\ \A w \in Versions : w \in Nat
      BY ReadsType, BoundsAssumption DEF ServiceVersions, Versions
    <2>7. /\ run.local.latest <= Cached(service).latest
          /\ run.local.generation <= Cached(service).generation
          /\ \A w \in Versions : Exists(w) => w <= v
                   /\ Stored(deployment[w]).spec <= run.local.generation
      BY <1>1 DEF OrderInv, Follows, AtMostOneWriteAhead
    <2>8. Stored(service).latest < v
      BY <1>1, <1>4, <2>6 DEF OrderInv, VersionsInOrder
    <2>9. v <= Stored(service).latest + 1
      <3>1. Follows(Cached(service), Stored(service))
        BY StoredFollowsCached DEF OrderInv, TypeInv, TypeOK
      <3>. QED BY <2>6, <2>7, <3>1 DEF Follows, NextVersion
    <2>10. VersionsInOrder'
      <3>1. \A w \in Versions : w <= Stored(service').latest => Exists(w)'
        BY <1>1, <2>5, <2>6, <2>8 DEF OrderInv, VersionsInOrder
      <3>2. \A w \in Versions : Exists(w)' => w <= Stored(service').latest + 1
        BY <1>1, <2>5, <2>9 DEF OrderInv, VersionsInOrder
      <3>3. ASSUME NEW w \in Versions, NEW x \in Versions, Exists(w)', Exists(x)', w < x
            PROVE  Stored(deployment'[w]).spec <= Stored(deployment'[x]).spec
        <4>1. CASE x = v
          BY <2>5, <2>6, <2>7, <3>3, <4>1
        <4>2. CASE x # v /\ w = v
          BY <2>5, <2>6, <2>7, <3>3, <4>2
        <4>3. CASE x # v /\ w # v
          BY <2>5, <3>3, <4>3 DEF OrderInv, VersionsInOrder
        <4>. QED BY <4>1, <4>2, <4>3
      <3>. QED BY <3>1, <3>2, <3>3 DEF VersionsInOrder
    <2>11. AtMostOneWriteAhead(run.local)'
      BY <1>1, <2>5, <2>6, <2>7
      DEF OrderInv, AtMostOneWriteAhead, WithinReach, NextVersion
    <2>12. AtMostOneWriteAhead(Cached(service))'
      BY <1>1, <2>5, <2>6, <2>7
      DEF OrderInv, AtMostOneWriteAhead, WithinReach, NextVersion
    <2>13. Ascends(service)' /\ Follows(run.local, Cached(service))'
      BY <1>1 DEF OrderInv, Ascends, Follows
    <2>14. HasCreated' => Exists(NextVersion(run.local))'
      BY <1>1, <2>5 DEF Exists, NextVersion
    <2>. QED BY <2>10, <2>11, <2>12, <2>13, <2>14 DEF OrderInv
  <1>. QED BY <1>3, <1>4

\* What patchServiceStatus stores: the status the reconcile wants, in every field it
\* changes, and never less than what is there.
LEMMA PatchedStatus ==
    ASSUME TypeInv, OrderInv, run.step = "status",
           NEW s, s = MergedStatus(run.local, WantedStatus(run.local), Stored(service))
    PROVE  /\ s \in ServiceVersions
           /\ Follows(Stored(service), s)
           /\ WithinReach(s, run.local)
           /\ WithinReach(s, Cached(service))
           /\ \A v \in Versions : v <= s.latest => Exists(v)
  <1>. DEFINE l == run.local
              old == Stored(service)
              c == Cached(service)
  <1>1. s \in ServiceVersions
    BY StatusType
  <1>2. HasCopy /\ run.plan \in Plans \ {"none"}
    BY ReadsType DEF TypeInv, RunInv, HasCopy
  <1>3. /\ s.generation = old.generation
        /\ s.observed = old.observed \/ s.observed = l.generation
        /\ s.latest = old.latest \/ (run.plan = "version" /\ s.latest = NextVersion(l))
        /\ s.active = old.active \/ s.active = l.latest
    BY <1>2, ReadsType
    DEF MergedStatus, Merged, WantedStatus, Plans, ServiceVersions
  <1>4. /\ old.observed <= l.generation /\ old.latest <= NextVersion(l)
        /\ old.active <= l.latest
    BY <1>2 DEF OrderInv, AtMostOneWriteAhead, WithinReach
  <1>5. l.generation <= c.generation /\ l.latest <= c.latest
    BY <1>2 DEF OrderInv, Follows
  <1>6. l \in ServiceVersions /\ old \in ServiceVersions /\ c \in ServiceVersions
    BY ReadsType
  <1>7. Follows(old, s)
    BY <1>3, <1>4, <1>6, BoundsAssumption DEF Follows, NextVersion, ServiceVersions
  <1>8. WithinReach(s, l)
    BY <1>3, <1>4, <1>6, BoundsAssumption DEF WithinReach, NextVersion, ServiceVersions
  <1>9. WithinReach(s, c)
    BY <1>1, <1>5, <1>6, <1>8, BoundsAssumption DEF WithinReach, NextVersion, ServiceVersions
  <1>10. ASSUME NEW v \in Versions, v <= s.latest PROVE Exists(v)
    <2>1. CASE s.latest = old.latest
      BY <1>10, <2>1 DEF OrderInv, VersionsInOrder
    <2>2. CASE run.plan = "version" /\ s.latest = NextVersion(l)
      <3>1. Exists(NextVersion(l))
        BY <1>2, <2>2 DEF OrderInv, HasCreated
      <3>2. l.latest <= old.latest
        <4>1. Follows(c, old)
          BY StoredFollowsCached DEF OrderInv, TypeInv, TypeOK
        <4>. QED BY <1>5, <1>6, <4>1, BoundsAssumption DEF Follows, ServiceVersions
      <3>3. v \in Nat /\ l.latest \in Nat /\ old.latest \in Nat
        BY <1>6, BoundsAssumption DEF ServiceVersions, Versions
      <3>4. v = NextVersion(l) \/ v <= old.latest
        BY <1>10, <2>2, <3>2, <3>3 DEF NextVersion
      <3>. QED BY <3>1, <3>4 DEF OrderInv, VersionsInOrder
    <2>. QED BY <1>3, <2>1, <2>2
  <1>. QED BY <1>1, <1>7, <1>8, <1>9, <1>10

\* No step of controller, user or watch breaks the order: one case per action.
LEMMA StepOrder == TypeInv /\ OrderInv /\ [Next]_vars => OrderInv'
  <1>. SUFFICES ASSUME TypeInv, OrderInv, [Next]_vars PROVE OrderInv'
    OBVIOUS
  <1>. USE ReadsType
  <1>1. HasCreated => NextVersion(run.local) \in Versions
    BY DEF HasCreated, TypeInv, RunInv
  <1>2. Follows(Stored(service), Stored(service))
        /\ WithinReach(Stored(service), Cached(service))
    BY BoundsAssumption DEF Follows, ServiceVersions, OrderInv, AtMostOneWriteAhead
  <1>3. CASE ReadService \/ GetLabelled
    <2>1. /\ run'.local = Cached(service) /\ run'.step = "env"
          /\ service' = service /\ deployment' = deployment
      BY <1>3 DEF ReadService, GetLabelled, Idle, TypeInv, TypeOK, Runs, objects
    <2>. QED BY <2>1, CopyOrder
  <1>4. CASE LabelService
    <2>. DEFINE s == [Stored(service) EXCEPT !.managed = TRUE]
    <2>1. /\ s \in ServiceVersions /\ s.latest = Stored(service).latest
          /\ Follows(Stored(service), s) /\ WithinReach(s, Cached(service))
      BY <1>2 DEF ServiceVersions, Follows, WithinReach
    <2>2. ~HasCopy' /\ service' = Put(service, s) /\ deployment' = deployment
      BY <1>4 DEF LabelService, Idle, HasCopy
    <2>3. \A v \in Versions : v <= s.latest => Exists(v)
      BY <2>1 DEF OrderInv, VersionsInOrder
    <2>. HIDE DEF s
    <2>. QED BY <2>1, <2>2, <2>3, WriteOrder DEF HasCreated
  <1>5. CASE CreateDeployment
    BY <1>5, CreateOrder
  <1>6. CASE PatchStatus
    <2>1. PICK s : s = MergedStatus(run.local, WantedStatus(run.local), Stored(service))
      OBVIOUS
    <2>2. /\ s \in ServiceVersions /\ Follows(Stored(service), s)
          /\ WithinReach(s, Cached(service)) /\ \A v \in Versions : v <= s.latest => Exists(v)
      BY <1>6, <2>1, PatchedStatus DEF PatchStatus
    <2>3. ~HasCopy' /\ service' = Put(service, s) /\ deployment' = deployment
      BY <1>6, <2>1 DEF PatchStatus, Idle, HasCopy
    <2>. QED BY <2>2, <2>3, WriteOrder DEF HasCreated
  <1>7. CASE EditSpec
    <2>. DEFINE s == [Stored(service) EXCEPT !.generation = @ + 1]
    <2>1. /\ s \in ServiceVersions /\ s.latest = Stored(service).latest
          /\ Follows(Stored(service), s)
          /\ \A copy : WithinReach(s, copy) <=> WithinReach(Stored(service), copy)
      BY <1>2, BoundsAssumption DEF ServiceVersions, Follows, WithinReach
    <2>2. service' = Put(service, s) /\ deployment' = deployment /\ run' = run
      BY <1>7 DEF EditSpec
    <2>3. \A v \in Versions : v <= s.latest => Exists(v)
      BY <2>1 DEF OrderInv, VersionsInOrder
    <2>4. HasCopy' => HasCopy /\ run'.local = run.local /\ WithinReach(s, run.local)
      BY <2>1, <2>2 DEF HasCopy, OrderInv, AtMostOneWriteAhead
    <2>5. HasCreated' => HasCreated
      BY <2>2 DEF HasCreated, HasCopy
    <2>. HIDE DEF s
    <2>. QED BY <1>2, <2>1, <2>2, <2>3, <2>4, <2>5, WriteOrder
  <1>8. CASE DeliverService
    BY <1>8, DeliverOrder
  <1>9. CASE EnsureEnvSecret \/ EnsureAccount \/ EnsureKubeService \/ LookUpLatest
    <2>1. service' = service /\ deployment' = deployment /\ HasCopy /\ run'.local = run.local
      BY <1>9 DEF EnsureEnvSecret, EnsureAccount, EnsureKubeService, LookUpLatest, HasCopy,
                  Advance, objects, TypeInv, TypeOK, Runs
    <2>2. HasCreated' => HasCreated
      <3>1. CASE EnsureEnvSecret \/ LookUpLatest
        BY <3>1 DEF EnsureEnvSecret, LookUpLatest, HasCreated, PlanFor, TypeInv, TypeOK,
                    RunInv, Runs
      <3>2. CASE EnsureAccount \/ EnsureKubeService
        BY <2>1, <3>2 DEF EnsureAccount, EnsureKubeService, Advance, After, HasCreated,
                          TypeInv, TypeOK, Runs
      <3>. QED BY <1>9, <3>1, <3>2
    <2>. QED BY <1>1, <2>1, <2>2, SameOrder DEF Exists
  <1>10. CASE PatchStatusConflict \/ Fail
    <2>1. service' = service /\ deployment' = deployment /\ ~HasCopy'
      BY <1>10 DEF PatchStatusConflict, Fail, Idle, HasCopy, objects
    <2>. QED BY <1>1, <2>1, SameOrder DEF Exists, HasCreated
  <1>11. CASE \/ LabelConflict \/ DeliverSecret \/ DeliverAccount \/ DeliverKubeService
              \/ Resync \/ (\E data \in EnvData : EditEnv(data)) \/ UNCHANGED vars
    <2>1. service' = service /\ deployment' = deployment /\ run' = run
      BY <1>11 DEF LabelConflict, DeliverSecret, DeliverAccount, DeliverKubeService,
                   Resync, EditEnv, vars, objects
    <2>. QED BY <1>1, <2>1, SameOrder DEF Exists, HasCreated, HasCopy
  <1>12. ASSUME NEW v \in Versions, DeliverDeployment(v) \/ ChangeReadiness(v)
         PROVE  OrderInv'
    <2>1. service' = service /\ run' = run
      BY <1>12 DEF DeliverDeployment, ChangeReadiness
    <2>2. \A w \in Versions \ {v} : deployment'[w] = deployment[w]
      BY <1>12 DEF DeliverDeployment, ChangeReadiness, TypeInv, TypeOK
    <2>3. deployment[v] \in Histories(DeploymentVersions \cup {Absent})
      BY DEF TypeInv, TypeOK
    <2>4. /\ Stored(deployment'[v]) # Absent <=> Stored(deployment[v]) # Absent
          /\ Stored(deployment[v]) # Absent
                => Stored(deployment'[v]).spec = Stored(deployment[v]).spec
      <3>1. CASE DeliverDeployment(v)
        BY <2>3, <3>1, DeliverHistory DEF DeliverDeployment, TypeInv, TypeOK
      <3>2. CASE ChangeReadiness(v)
        <4>1. WithOtherReadiness(Stored(deployment[v])) \in DeploymentVersions
              /\ WithOtherReadiness(Stored(deployment[v])).spec = Stored(deployment[v]).spec
          BY <3>2 DEF ChangeReadiness, WithOtherReadiness, DeploymentVersions
        <4>2. Stored(deployment'[v]) = WithOtherReadiness(Stored(deployment[v]))
          BY <2>3, <3>2, <4>1, PutHistory DEF ChangeReadiness, TypeInv, TypeOK
        <4>3. Stored(deployment'[v]) # Absent
          BY <4>1, <4>2, AbsentAssumption
        <4>. QED BY <3>2, <4>1, <4>2, <4>3 DEF ChangeReadiness
      <3>. QED BY <1>12, <3>1, <3>2
    <2>. QED BY <1>1, <2>1, <2>2, <2>4, SameOrder DEF Exists, HasCreated, HasCopy
  <1>. QED
    BY <1>3, <1>4, <1>5, <1>6, <1>7, <1>8, <1>9, <1>10, <1>11, <1>12
    DEF Next, Reconcile, Watch, Others

\* The order of versions and statuses holds in every state.
LEMMA OrderInvariant == Safety => []OrderInv
  <1>. QED BY TypeInvariant, InitOrder, StepOrder, PTL DEF Safety

\* Versions are numbered without gaps and capture specs in the order they were made,
\* although the next version is computed from a status that may be stale.
THEOREM VersionsStayInOrder == Safety => []VersionsInOrder
  <1>1. OrderInv => VersionsInOrder
    BY DEF OrderInv
  <1>. QED BY <1>1, OrderInvariant, PTL

\* What a step does to the stored Service: it follows the one before.
LEMMA StepFollows ==
    TypeInv /\ OrderInv /\ [Next]_vars => Follows(Stored(service), Stored(service'))
  <1>. SUFFICES ASSUME TypeInv, OrderInv, [Next]_vars
                PROVE  Follows(Stored(service), Stored(service'))
    OBVIOUS
  <1>0. Stored(service) \in ServiceVersions
    BY ReadsType
  <1>1. Follows(Stored(service), Stored(service)) /\ service \in Histories(ServiceVersions)
    <2>1. Follows(Stored(service), Stored(service))
      BY <1>0, BoundsAssumption DEF Follows, ServiceVersions
    <2>. QED BY <2>1 DEF TypeInv, TypeOK
  <1>2. CASE LabelService
    <2>. DEFINE s == [Stored(service) EXCEPT !.managed = TRUE]
    <2>1. s \in ServiceVersions /\ Follows(Stored(service), s)
      BY <1>0, <1>1 DEF ServiceVersions, Follows
    <2>. QED BY <1>1, <1>2, <2>1, PutHistory DEF LabelService
  <1>3. CASE EditSpec
    <2>. DEFINE s == [Stored(service) EXCEPT !.generation = @ + 1]
    <2>1. s \in ServiceVersions /\ Follows(Stored(service), s)
      BY <1>0, BoundsAssumption DEF ServiceVersions, Follows
    <2>. QED BY <1>1, <1>3, <2>1, PutHistory DEF EditSpec
  <1>4. CASE PatchStatus
    <2>1. PICK s : s = MergedStatus(run.local, WantedStatus(run.local), Stored(service))
      OBVIOUS
    <2>2. s \in ServiceVersions /\ Follows(Stored(service), s)
      BY <1>4, <2>1, PatchedStatus DEF PatchStatus
    <2>. QED BY <1>1, <1>4, <2>1, <2>2, PutHistory DEF PatchStatus
  <1>5. CASE DeliverService
    BY <1>1, <1>5, DeliverHistory DEF DeliverService
  <1>6. CASE service' = service
    BY <1>1, <1>6
  <1>7. \/ LabelService \/ EditSpec \/ PatchStatus \/ DeliverService
        \/ service' = service
    BY DEF Next, Reconcile, Watch, Others, ReadService, LabelConflict, GetLabelled,
           EnsureEnvSecret, EnsureAccount, CreateDeployment, EnsureKubeService, LookUpLatest,
           PatchStatusConflict, Fail, DeliverSecret, DeliverAccount, DeliverKubeService,
           DeliverDeployment, Resync, EditEnv, ChangeReadiness, vars, objects
  <1>. QED BY <1>2, <1>3, <1>4, <1>5, <1>6, <1>7

\* A status patch computed from a stale copy repeats what was written since, or adds to
\* it: observedGeneration, latestVersion and activeVersion never go back.
THEOREM StatusOnlyMovesForward == Safety => StatusNeverGoesBack
  <1>. DEFINE Forward == /\ Stored(service').observed >= Stored(service).observed
                         /\ Stored(service').latest >= Stored(service).latest
                         /\ Stored(service').active >= Stored(service).active
  <1>1. TypeInv /\ OrderInv /\ TypeInv' /\ [Next]_vars => [Forward]_vars
    <2>. SUFFICES ASSUME TypeInv, OrderInv, TypeInv', [Next]_vars PROVE Forward
      OBVIOUS
    <2>1. Stored(service) \in ServiceVersions /\ Stored(service') \in ServiceVersions
      BY HistoryEnds DEF TypeInv, TypeOK
    <2>. QED BY <2>1, StepFollows, BoundsAssumption DEF Follows, ServiceVersions
  <1>. QED BY <1>1, TypeInvariant, OrderInvariant, PTL DEF Safety, StatusNeverGoesBack
---------------------------------------------------------------------------
(* At rest *)

\* A Secret the user made that the controller has not adopted.  One that the controller
\* made or adopted never becomes foreign again.
Foreign == {s \in SecretVersions : ~s.owned}
StaysAdopted ==
    Stored(secret) \in Foreign => \A i \in 1 .. Len(secret) : secret[i] \in Foreign

\* An observed spec has a version.
ObservedHasVersion == Stored(service).observed # 0 => Stored(service).latest # 0

\* A reconcile that no event has come after goes by what the cache shows.
CopyCurrent == HasCopy => run.local = Cached(service)

\* What it decided, it would decide again.
PlanCurrent ==
    /\ run.step \in {"env", "lookup"} => run.plan = "none"
    /\ HasCopy /\ run.step # "env" /\ run.plan # "version" =>
          ~NeedsNewVersion(run.local, run.hash)
    /\ run.plan \in {"missing", "progressing", "promote"} => run.plan = PlanFor(LatestFound)

\* The Secret is the controller's once a reconcile has looked at it, so that the event of
\* a later edit queues the key; without one under way its data are those of the hash.
SecretSeen ==
    run.step \notin {"get", "env"} =>
        /\ Stored(secret) \in SecretVersions /\ Stored(secret).owned
        /\ run.step # "idle" /\ ~Pending(secret) => run.hash = Stored(secret).data

Serving == run.plan \in {"progressing", "promote"}

\* What a reconcile of the traffic has called for is there, or the event that tells
\* otherwise is under way.
KubeServiceDone ==
    Serving /\ run.step \in {"account", "status"} /\ ~Pending(kubeService) =>
        Stored(kubeService) = WantedKubeService

AccountDone == Serving /\ run.step = "status" => Stored(account) # Absent

\* When it has ended, the Service is what Converged asks for, but for what an event of
\* the Secret or of the Kubernetes Service under way will tell.
Settled ==
    /\ run.step = "idle" /\ ~Pending(service)
    /\ \A v \in Versions : ~Pending(deployment[v])
    => LET s == Stored(service)
           k == Stored(kubeService)
       IN  /\ s.observed = s.generation
           /\ ~Pending(secret) => s.hash = Stored(secret).data
           /\ Stored(account) # Absent
           /\ ~Pending(kubeService) =>
                 k # Absent /\ k.ports = s.generation /\ k.selector = s.active
           /\ s.latest \in Versions /\ Exists(s.latest)
           /\ IF Stored(deployment[s.latest]).ready
                  THEN s.active = s.latest /\ s.reason = "DeploymentReady"
                  ELSE s.reason = "DeploymentProgressing"

Calm ==
    /\ CopyCurrent /\ PlanCurrent /\ SecretSeen /\ KubeServiceDone /\ AccountDone
    /\ Settled

\* What makes RestsConverged inductive.
RestInv ==
    /\ StaysAdopted
    /\ ObservedHasVersion
    /\ ~queued => Calm

\* At first no reconcile has been, and the key is queued.
LEMMA InitRest == Init => RestInv
  <1>. SUFFICES ASSUME Init PROVE RestInv
    OBVIOUS
  <1>1. Stored(service) = NewService
    BY DEF Init, Stored, Fresh
  <1>2. StaysAdopted
    <2>1. PICK s : secret = Fresh(s)
      BY DEF Init
    <2>. QED BY <2>1 DEF StaysAdopted, Stored, Fresh
  <1>. QED BY <1>1, <1>2 DEF Init, RestInv, ObservedHasVersion, NewService

\* The Secret a reconcile leaves behind is the controller's.
LEMMA AdoptedIsOwned ==
    ASSUME TypeInv, StaysAdopted
    PROVE  AdoptedSecret \in SecretVersions /\ AdoptedSecret.owned
  <1>. USE ReadsType, AbsentAssumption
  <1>1. CASE Stored(secret) = Absent
    BY <1>1, ValuesAssumption DEF AdoptedSecret, SecretVersions
  <1>. SUFFICES ASSUME Stored(secret) # Absent
                PROVE  AdoptedSecret \in SecretVersions /\ AdoptedSecret.owned
    BY <1>1
  <1>2. Stored(secret) \in Foreign => Cached(secret) \in Foreign
    <2>1. secret \in Histories(SecretVersions \cup {Absent}) /\ Len(secret) \in Nat \ {0}
      BY HistoryEnds DEF TypeInv, TypeOK
    <2>2. 1 \in 1 .. Len(secret) /\ Cached(secret) = secret[1]
      BY <2>1 DEF Histories, Cached
    <2>. QED BY <2>2 DEF StaysAdopted
  <1>3. CASE Cached(secret) = Absent
    BY <1>2, <1>3 DEF AdoptedSecret, Foreign
  <1>4. CASE Cached(secret) # Absent
    <2>1. /\ Merged(Cached(secret).owned, TRUE, Stored(secret).owned) \in BOOLEAN
          /\ Merged(Cached(secret).owned, TRUE, Stored(secret).owned)
      <3>1. /\ Stored(secret) \in SecretVersions /\ Cached(secret) \in SecretVersions
            /\ Stored(secret).owned \/ ~Cached(secret).owned
        BY <1>2, <1>4 DEF Foreign
      <3>2. Cached(secret).owned \in BOOLEAN /\ Stored(secret).owned \in BOOLEAN
        BY <3>1 DEF SecretVersions
      <3>. QED BY <3>1, <3>2, Zenon DEF Merged
    <2>. QED BY <1>4, <2>1 DEF AdoptedSecret, SecretVersions
  <1>. QED BY <1>3, <1>4

\* Nobody takes the Secret from the controller.
LEMMA StepAdopted == TypeInv /\ StaysAdopted /\ [Next]_vars => StaysAdopted'
  <1>. SUFFICES ASSUME TypeInv, StaysAdopted, [Next]_vars PROVE StaysAdopted'
    OBVIOUS
  <1>. DEFINE S == SecretVersions \cup {Absent}
  <1>1. /\ secret \in Histories(S)
        /\ Stored(secret) \in Foreign => \A i \in 1 .. Len(secret) : secret[i] \in Foreign
    BY DEF TypeInv, TypeOK, StaysAdopted
  <1>2. CASE EnsureEnvSecret
    <2>1. AdoptedSecret \in S /\ AdoptedSecret \notin Foreign
      BY AdoptedIsOwned DEF Foreign
    <2>. QED BY <1>1, <1>2, <2>1, NeverBack DEF EnsureEnvSecret, StaysAdopted
  <1>3. ASSUME NEW data \in EnvData, EditEnv(data) PROVE StaysAdopted'
    <2>. DEFINE s == [Stored(secret) EXCEPT !.data = data]
    <2>1. s \in S /\ (s \in Foreign => Stored(secret) \in Foreign)
      BY <1>3, ReadsType DEF EditEnv, SecretVersions, Foreign
    <2>2. secret' = Put(secret, s)
      BY <1>3 DEF EditEnv
    <2>. HIDE DEF s
    <2>. QED BY <1>1, <2>1, <2>2, NeverBack DEF StaysAdopted
  <1>4. CASE DeliverSecret
    BY <1>1, <1>4, NeverBack DEF DeliverSecret, StaysAdopted
  <1>5. CASE secret' = secret
    BY <1>5 DEF StaysAdopted
  <1>6. \/ EnsureEnvSecret \/ DeliverSecret \/ secret' = secret
        \/ \E data \in EnvData : EditEnv(data)
    BY DEF Next, Reconcile, Watch, Others, ReadService, LabelService, LabelConflict,
           GetLabelled, EnsureAccount, CreateDeployment, EnsureKubeService, LookUpLatest,
           PatchStatus, PatchStatusConflict, Fail, DeliverService, DeliverAccount,
           DeliverKubeService, DeliverDeployment, Resync, EditSpec, ChangeReadiness, vars,
           objects
  <1>. QED BY <1>2, <1>3, <1>4, <1>5, <1>6

\* A status is patched with the observed generation and the version together.
LEMMA StepObserved ==
    TypeInv /\ ObservedHasVersion /\ [Next]_vars => ObservedHasVersion'
  <1>. SUFFICES ASSUME TypeInv, ObservedHasVersion, [Next]_vars PROVE ObservedHasVersion'
    OBVIOUS
  <1>. USE ReadsType
  <1>0. service \in Histories(ServiceVersions)
    BY DEF TypeInv, TypeOK
  <1>1. CASE LabelService
    <2>. DEFINE s == [Stored(service) EXCEPT !.managed = TRUE]
    <2>1. /\ s \in ServiceVersions /\ service' = Put(service, s)
          /\ s.observed = Stored(service).observed /\ s.latest = Stored(service).latest
      BY <1>1 DEF LabelService, ServiceVersions
    <2>. HIDE DEF s
    <2>. QED BY <1>0, <2>1, PutHistory DEF ObservedHasVersion
  <1>2. CASE EditSpec
    <2>. DEFINE s == [Stored(service) EXCEPT !.generation = @ + 1]
    <2>1. /\ s \in ServiceVersions /\ service' = Put(service, s)
          /\ s.observed = Stored(service).observed /\ s.latest = Stored(service).latest
      BY <1>2 DEF EditSpec, ServiceVersions
    <2>. HIDE DEF s
    <2>. QED BY <1>0, <2>1, PutHistory DEF ObservedHasVersion
  <1>3. CASE PatchStatus
    <2>. DEFINE s == MergedStatus(run.local, WantedStatus(run.local), Stored(service))
    <2>1. s \in ServiceVersions /\ service' = Put(service, s)
      BY <1>3, StatusType DEF PatchStatus
    <2>2. s.observed # 0 => s.latest # 0
      <3>1. CASE run.plan = "version"
        <4>1. WantedStatus(run.local).latest = run.local.latest + 1
          BY <3>1 DEF WantedStatus, NextVersion, ServiceVersions
        <4>2. s.latest = run.local.latest + 1
          BY <4>1, BoundsAssumption DEF MergedStatus, Merged, ServiceVersions
        <4>. QED BY <4>2, BoundsAssumption DEF ServiceVersions
      <3>2. CASE run.plan # "version"
        <4>1. run.plan \in {"missing", "progressing", "promote"}
          BY <1>3, <3>2 DEF PatchStatus, TypeInv, RunInv, Plans
        <4>2. /\ WantedStatus(run.local).latest = run.local.latest
              /\ WantedStatus(run.local).observed = run.local.observed
          BY <4>1 DEF WantedStatus, ServiceVersions
        <4>3. s.observed = Stored(service).observed /\ s.latest = Stored(service).latest
          BY <4>2 DEF MergedStatus, Merged, ServiceVersions
        <4>. QED BY <4>3 DEF ObservedHasVersion
      <3>. QED BY <3>1, <3>2
    <2>. HIDE DEF s
    <2>. QED BY <1>0, <2>1, <2>2, PutHistory DEF ObservedHasVersion
  <1>4. CASE DeliverService
    BY <1>0, <1>4, DeliverHistory DEF DeliverService, ObservedHasVersion
  <1>5. CASE service' = service
    BY <1>5 DEF ObservedHasVersion
  <1>6. \/ LabelService \/ EditSpec \/ PatchStatus \/ DeliverService
        \/ service' = service
    BY DEF Next, Reconcile, Watch, Others, ReadService, LabelConflict, GetLabelled,
           EnsureEnvSecret, EnsureAccount, CreateDeployment, EnsureKubeService, LookUpLatest,
           PatchStatusConflict, Fail, DeliverSecret, DeliverAccount, DeliverKubeService,
           DeliverDeployment, Resync, EditEnv, ChangeReadiness, vars, objects
  <1>. QED BY <1>1, <1>2, <1>3, <1>4, <1>5, <1>6

\* What createOrUpdateKubernetesService stores is a Kubernetes Service.
LEMMA PatchedType ==
    ASSUME TypeInv
    PROVE  /\ WantedKubeService \in KubeServiceVersions
           /\ PatchedKubeService \in KubeServiceVersions
  <1>. USE ReadsType
  <1>1. WantedKubeService \in KubeServiceVersions
    BY DEF WantedKubeService, WantedSelector, ServiceVersions, KubeServiceVersions
  <1>2. CASE Stored(kubeService) = Absent \/ Cached(kubeService) = Absent
    BY <1>1, <1>2 DEF PatchedKubeService
  <1>3. CASE Stored(kubeService) # Absent /\ Cached(kubeService) # Absent
    BY <1>1, <1>3 DEF PatchedKubeService, KubeServiceVersions, Merged
  <1>. QED BY <1>1, <1>2, <1>3

\* As long as no key is queued, the caches of the Service, the Kubernetes Service and the
\* Deployments stand still.
LEMMA QuietSteps ==
    ASSUME TypeInv, [Next]_vars, ~queued'
    PROVE  /\ Cached(service') = Cached(service)
           /\ ~Pending(service') => service' = service
           /\ Cached(kubeService') = Cached(kubeService)
           /\ ~Pending(kubeService') => kubeService' = kubeService
           /\ \A v \in Versions :
                 /\ Cached(deployment'[v]) = Cached(deployment[v])
                 /\ ~Pending(deployment'[v]) => deployment'[v] = deployment[v]
  <1>. USE ReadsType
  <1>0. /\ service \in Histories(ServiceVersions)
        /\ kubeService \in Histories(KubeServiceVersions \cup {Absent})
        /\ deployment \in [Versions -> Histories(DeploymentVersions \cup {Absent})]
    BY DEF TypeInv, TypeOK
  <1>1. TypeInv'
    BY StepType
  <1>2. ~ (DeliverService \/ DeliverKubeService \/ \E v \in Versions : DeliverDeployment(v))
    BY DEF DeliverService, DeliverKubeService, DeliverDeployment
  <1>3. service' = service \/ \E s \in ServiceVersions : service' = Put(service, s)
    <2>1. CASE LabelService
      BY <2>1 DEF LabelService, ServiceVersions
    <2>2. CASE EditSpec
      BY <2>2 DEF EditSpec, ServiceVersions
    <2>3. CASE PatchStatus
      BY <2>3, StatusType DEF PatchStatus
    <2>4. CASE service' = service
      BY <2>4
    <2>5. LabelService \/ EditSpec \/ PatchStatus \/ service' = service
      BY <1>2
      DEF Next, Reconcile, Watch, Others, ReadService, LabelConflict, GetLabelled,
          EnsureEnvSecret, EnsureAccount, CreateDeployment, EnsureKubeService, LookUpLatest,
          PatchStatusConflict, Fail, DeliverSecret, DeliverAccount, Resync, EditEnv,
          ChangeReadiness, vars, objects
    <2>. QED BY <2>1, <2>2, <2>3, <2>4, <2>5
  <1>4. \/ kubeService' = kubeService
        \/ \E k \in KubeServiceVersions \cup {Absent} : kubeService' = Put(kubeService, k)
    <2>1. CASE EnsureKubeService
      BY <2>1, PatchedType DEF EnsureKubeService
    <2>2. CASE kubeService' = kubeService
      BY <2>2
    <2>3. EnsureKubeService \/ kubeService' = kubeService
      BY <1>2
      DEF Next, Reconcile, Watch, Others, ReadService, LabelService, LabelConflict,
          GetLabelled, EnsureEnvSecret, EnsureAccount, CreateDeployment, LookUpLatest,
          PatchStatus, PatchStatusConflict, Fail, DeliverSecret, DeliverAccount, Resync,
          EditSpec, EditEnv, ChangeReadiness, vars, objects
    <2>. QED BY <2>1, <2>2, <2>3
  <1>5. ASSUME NEW v \in Versions
        PROVE  \/ deployment'[v] = deployment[v]
               \/ \E d \in DeploymentVersions : deployment'[v] = Put(deployment[v], d)
    <2>1. CASE CreateDeployment
      <3>1. [spec |-> run.local.generation, ready |-> FALSE] \in DeploymentVersions
        BY DEF ServiceVersions, DeploymentVersions
      <3>. QED BY <1>0, <2>1, <3>1 DEF CreateDeployment
    <2>2. ASSUME NEW w \in Versions, ChangeReadiness(w)
          PROVE  \/ deployment'[v] = deployment[v]
                 \/ \E d \in DeploymentVersions : deployment'[v] = Put(deployment[v], d)
      <3>1. WithOtherReadiness(Stored(deployment[w])) \in DeploymentVersions
        BY <2>2 DEF ChangeReadiness, WithOtherReadiness, DeploymentVersions
      <3>. QED BY <1>0, <2>2, <3>1 DEF ChangeReadiness
    <2>3. CASE deployment' = deployment
      BY <2>3
    <2>4. \/ CreateDeployment \/ deployment' = deployment
          \/ \E w \in Versions : ChangeReadiness(w)
      BY <1>2
      DEF Next, Reconcile, Watch, Others, ReadService, LabelService, LabelConflict,
          GetLabelled, EnsureEnvSecret, EnsureAccount, EnsureKubeService, LookUpLatest,
          PatchStatus, PatchStatusConflict, Fail, DeliverSecret, DeliverAccount, Resync,
          EditSpec, EditEnv, vars, objects
    <2>. QED BY <2>1, <2>2, <2>3, <2>4
  <1>6. /\ Cached(service') = Cached(service)
        /\ ~Pending(service') => service' = service
    BY <1>0, <1>3, WrittenOnly
  <1>7. /\ Cached(kubeService') = Cached(kubeService)
        /\ ~Pending(kubeService') => kubeService' = kubeService
    BY <1>0, <1>4, WrittenOnly
  <1>8. ASSUME NEW v \in Versions
        PROVE  /\ Cached(deployment'[v]) = Cached(deployment[v])
               /\ ~Pending(deployment'[v]) => deployment'[v] = deployment[v]
    <2>1. deployment[v] \in Histories(DeploymentVersions \cup {Absent})
      BY <1>0
    <2>2. \/ deployment'[v] = deployment[v]
          \/ \E d \in DeploymentVersions \cup {Absent} :
                deployment'[v] = Put(deployment[v], d)
      BY <1>5
    <2>. QED BY <2>1, <2>2, WrittenOnly
  <1>. QED BY <1>6, <1>7, <1>8

\* What a step that queues nothing does to the reconcile and to what it may do next.
LEMMA QuietRuns ==
    ASSUME TypeInv, [Next]_vars, ~queued'
    PROVE  \/ /\ ~queued /\ run' = run /\ account' = account
              /\ \/ secret' = secret \/ DeliverSecret
                 \/ \E data \in EnvData : EditEnv(data)
           \/ run'.step = "get" /\ run'.plan = "none"
           \/ run'.step = "env" /\ run'.plan = "none" /\ run'.local = Cached(service)
           \/ ~queued /\ EnsureEnvSecret
           \/ ~queued /\ EnsureAccount
           \/ ~queued /\ CreateDeployment
           \/ ~queued /\ EnsureKubeService
           \/ ~queued /\ LookUpLatest
           \/ ~queued /\ PatchStatus
           \/ ~queued /\ PatchStatusConflict
  <1>1. CASE ReadService
    BY <1>1 DEF ReadService, Idle
  <1>2. CASE LabelService
    BY <1>2 DEF LabelService, Idle
  <1>3. CASE GetLabelled
    BY <1>3 DEF GetLabelled, TypeInv, TypeOK, Runs, RunInv
  <1>4. \/ ReadService \/ LabelService \/ GetLabelled
        \/ /\ ~queued /\ run' = run /\ account' = account
           /\ \/ secret' = secret \/ DeliverSecret
              \/ \E data \in EnvData : EditEnv(data)
        \/ ~queued /\ EnsureEnvSecret
        \/ ~queued /\ EnsureAccount
        \/ ~queued /\ CreateDeployment
        \/ ~queued /\ EnsureKubeService
        \/ ~queued /\ LookUpLatest
        \/ ~queued /\ PatchStatus
        \/ ~queued /\ PatchStatusConflict
    BY DEF Next, Reconcile, Watch, Others, LabelConflict, EnsureEnvSecret, EnsureAccount,
           CreateDeployment, EnsureKubeService, LookUpLatest, PatchStatus,
           PatchStatusConflict, Fail, DeliverService, DeliverSecret, DeliverAccount,
           DeliverKubeService, DeliverDeployment, Resync, EditSpec, EditEnv,
           ChangeReadiness, vars, objects
  <1>. QED BY <1>1, <1>2, <1>3, <1>4

\* The copy of a reconcile, and what it decided on it.
LEMMA StepPlan ==
    ASSUME TypeInv, RestInv, [Next]_vars, ~queued'
    PROVE  CopyCurrent' /\ PlanCurrent'
  <1>. USE ReadsType, QuietSteps
  <1>0. ~queued => CopyCurrent /\ PlanCurrent
    BY DEF RestInv, Calm
  <1>1. run.local \in ServiceVersions /\ run \in Runs
    BY DEF TypeInv, TypeOK
  <1>2. ASSUME run'.local = run.local PROVE LatestFound' = LatestFound
    <2>1. run.local.latest # 0 => run.local.latest \in Versions
      BY <1>1, BoundsAssumption DEF ServiceVersions, Versions
    <2>. QED BY <1>2, <2>1 DEF LatestFound
  <1>3. CASE /\ ~queued /\ run'.local = run.local /\ run'.hash = run.hash
             /\ run'.plan = run.plan /\ run.step \notin {"idle", "get", "env", "lookup"}
             /\ run'.step \notin {"idle", "get", "env", "lookup"}
    BY <1>0, <1>2, <1>3 DEF CopyCurrent, PlanCurrent, HasCopy, NeedsNewVersion
  <1>4. CASE ~queued /\ run' = run
    BY <1>0, <1>2, <1>4 DEF CopyCurrent, PlanCurrent, HasCopy, NeedsNewVersion
  <1>5. CASE run'.step = "get" /\ run'.plan = "none"
    BY <1>5 DEF CopyCurrent, PlanCurrent, HasCopy
  <1>6. CASE run'.step = "env" /\ run'.plan = "none" /\ run'.local = Cached(service)
    BY <1>6 DEF CopyCurrent, PlanCurrent, HasCopy
  <1>7. CASE ~queued /\ EnsureEnvSecret
    <2>1. run'.local = run.local /\ run.local = Cached(service) /\ run.plan = "none"
      BY <1>0, <1>1, <1>7 DEF EnsureEnvSecret, CopyCurrent, PlanCurrent, HasCopy, Runs
    <2>2. CASE NeedsNewVersion(run.local, ReturnedData)
      <3>1. run'.step = "account" /\ run'.plan = "version"
        BY <1>1, <1>7, <2>2 DEF EnsureEnvSecret, Runs
      <3>. QED BY <2>1, <3>1 DEF CopyCurrent, PlanCurrent
    <2>3. CASE ~NeedsNewVersion(run.local, ReturnedData)
      <3>1. run'.step = "lookup" /\ run'.plan = "none" /\ run'.hash = ReturnedData
        BY <1>1, <1>7, <2>1, <2>3 DEF EnsureEnvSecret, Runs
      <3>. QED BY <2>1, <2>3, <3>1 DEF CopyCurrent, PlanCurrent, NeedsNewVersion
    <2>. QED BY <2>2, <2>3
  <1>8. CASE ~queued /\ (EnsureAccount \/ CreateDeployment \/ EnsureKubeService)
    <2>1. /\ run.step \in {"account", "deployment", "kubeService"}
          /\ run'.step = After(run.step, run.plan)
          /\ run'.local = run.local /\ run'.hash = run.hash /\ run'.plan = run.plan
      BY <1>1, <1>8 DEF EnsureAccount, CreateDeployment, EnsureKubeService, Advance, Runs
    <2>2. run'.step \in {"account", "deployment", "kubeService", "status"}
      BY <2>1 DEF After
    <2>. QED BY <1>3, <1>8, <2>1, <2>2
  <1>9. CASE ~queued /\ LookUpLatest
    <2>1. /\ run'.local = run.local /\ run'.hash = run.hash
          /\ run'.plan = PlanFor(LatestFound) /\ run'.step \in {"status", "kubeService"}
          /\ HasCopy /\ run.plan = "none" /\ run.step = "lookup"
      BY <1>0, <1>1, <1>9 DEF LookUpLatest, HasCopy, PlanCurrent, Runs
    <2>. QED BY <1>0, <1>2, <1>9, <2>1 DEF CopyCurrent, PlanCurrent, HasCopy, NeedsNewVersion
  <1>10. CASE ~queued /\ (PatchStatus \/ PatchStatusConflict)
    BY <1>10 DEF PatchStatus, PatchStatusConflict, Idle, CopyCurrent, PlanCurrent, HasCopy
  <1>. QED BY <1>4, <1>5, <1>6, <1>7, <1>8, <1>9, <1>10, QuietRuns

\* The Secret of a reconcile.
LEMMA StepSecret ==
    ASSUME TypeInv, RestInv, [Next]_vars, ~queued'
    PROVE  SecretSeen'
  <1>. USE ReadsType
  <1>0. ~queued => SecretSeen
    BY DEF RestInv, Calm
  <1>1. run \in Runs /\ secret \in Histories(SecretVersions \cup {Absent}) /\ StaysAdopted
    BY DEF TypeInv, TypeOK, RestInv
  <1>2. CASE /\ ~queued /\ secret' = secret /\ run'.hash = run.hash
             /\ run.step \notin {"idle", "get", "env"}
    BY <1>0, <1>2 DEF SecretSeen
  <1>3. CASE ~queued /\ secret' = secret /\ run' = run
    BY <1>0, <1>3 DEF SecretSeen
  <1>4. CASE run'.step \in {"get", "env"}
    BY <1>4 DEF SecretSeen
  <1>5. CASE ~queued /\ run' = run /\ DeliverSecret
    <2>1. /\ Stored(secret') = Stored(secret)
          /\ secret' \in Histories(SecretVersions \cup {Absent})
      BY <1>1, <1>5, DeliverHistory DEF DeliverSecret
    <2>2. ~IsOwned(Cached(secret'))
      BY <1>5 DEF DeliverSecret
    <2>3. ~Pending(secret') => ~IsOwned(Stored(secret))
      BY <2>1, <2>2, CurrentCache
    <2>4. run.step \notin {"get", "env"} => IsOwned(Stored(secret))
      BY <1>0, <1>5, AbsentAssumption DEF SecretSeen, IsOwned
    <2>. QED BY <1>0, <1>5, <2>1, <2>3, <2>4 DEF SecretSeen
  <1>6. ASSUME ~queued, run' = run, NEW data \in EnvData, EditEnv(data) PROVE SecretSeen'
    <2>. DEFINE s == [Stored(secret) EXCEPT !.data = data]
    <2>1. /\ s \in SecretVersions /\ s.owned = Stored(secret).owned
          /\ s # Stored(secret) /\ secret' = Put(secret, s)
      BY <1>6 DEF EditEnv, SecretVersions
    <2>. HIDE DEF s
    <2>2. Stored(secret') = s /\ Pending(secret')
      BY <1>1, <2>1, PutHistory, PutPending
    <2>. QED BY <1>0, <1>6, <2>1, <2>2 DEF SecretSeen
  <1>7. CASE EnsureEnvSecret
    <2>1. /\ secret' = Put(secret, AdoptedSecret)
          /\ run'.step # "idle" /\ run'.hash = ReturnedData
      BY <1>1, <1>7 DEF EnsureEnvSecret, Runs
    <2>2. AdoptedSecret \in SecretVersions /\ AdoptedSecret.owned
      BY <1>1, AdoptedIsOwned
    <2>3. Stored(secret') = AdoptedSecret
      BY <1>1, <2>1, <2>2, PutHistory
    <2>4. ASSUME ~Pending(secret') PROVE ReturnedData = Stored(secret').data
      <3>1. ~Pending(secret) /\ AdoptedSecret = Stored(secret)
        BY <1>1, <2>1, <2>2, <2>4, PutPending
      <3>2. Cached(secret) = AdoptedSecret
        BY <1>1, <3>1, CurrentCache
      <3>. QED BY <2>2, <2>3, <3>2, AbsentAssumption DEF ReturnedData
    <2>. QED BY <2>1, <2>2, <2>3, <2>4 DEF SecretSeen
  <1>8. CASE ~queued /\ (EnsureAccount \/ CreateDeployment \/ EnsureKubeService
                            \/ LookUpLatest)
    BY <1>1, <1>2, <1>8 DEF EnsureAccount, CreateDeployment, EnsureKubeService, LookUpLatest,
                            Advance, Runs, objects
  <1>9. CASE ~queued /\ (PatchStatus \/ PatchStatusConflict)
    BY <1>0, <1>9 DEF PatchStatus, PatchStatusConflict, Idle, objects, SecretSeen
  <1>. QED BY <1>3, <1>4, <1>5, <1>6, <1>7, <1>8, <1>9, QuietRuns

\* The Kubernetes Service and the account of a reconcile of the traffic.
LEMMA StepServing ==
    ASSUME TypeInv, RestInv, [Next]_vars, ~queued'
    PROVE  KubeServiceDone' /\ AccountDone'
  <1>. USE ReadsType, QuietSteps
  <1>0. ~queued => KubeServiceDone /\ AccountDone
    BY DEF RestInv, Calm
  <1>1. /\ run \in Runs /\ kubeService \in Histories(KubeServiceVersions \cup {Absent})
        /\ account \in Histories({Absent, "present"})
    BY DEF TypeInv, TypeOK
  <1>2. CASE ~queued /\ run' = run /\ account' = account
    BY <1>0, <1>2 DEF KubeServiceDone, AccountDone, Serving, WantedKubeService, WantedSelector
  <1>3. CASE \/ run'.step \notin {"account", "status"}
             \/ run'.plan \notin {"progressing", "promote"}
    BY <1>3 DEF KubeServiceDone, AccountDone, Serving
  <1>4. CASE EnsureEnvSecret
    BY <1>1, <1>3, <1>4 DEF EnsureEnvSecret, Runs
  <1>5. CASE ~queued /\ EnsureAccount
    <2>1. run'.local = run.local /\ run'.plan = run.plan
      BY <1>1, <1>5 DEF EnsureAccount, Advance, Runs
    <2>2. Stored(account') = "present"
      BY <1>1, <1>5, PutHistory DEF EnsureAccount
    <2>3. AccountDone'
      BY <2>2, AbsentAssumption DEF AccountDone
    <2>4. run.step = "account"
      BY <1>5 DEF EnsureAccount
    <2>. QED
      BY <1>0, <1>5, <2>1, <2>3, <2>4
      DEF KubeServiceDone, Serving, WantedKubeService, WantedSelector
  <1>6. CASE CreateDeployment
    BY <1>1, <1>3, <1>6 DEF CreateDeployment, Advance, After, Runs
  <1>7. CASE EnsureKubeService
    <2>1. /\ run'.local = run.local /\ run'.plan = run.plan
          /\ run'.step = IF run.plan = "version" THEN "status" ELSE "account"
          /\ kubeService' = Put(kubeService, PatchedKubeService)
      BY <1>1, <1>7 DEF EnsureKubeService, Advance, After, Runs
    <2>2. AccountDone'
      BY <2>1 DEF AccountDone, Serving
    <2>3. WantedKubeService' = WantedKubeService
      BY <2>1 DEF WantedKubeService, WantedSelector
    <2>4. ASSUME ~Pending(kubeService') PROVE Stored(kubeService') = WantedKubeService
      <3>1. /\ ~Pending(kubeService) /\ PatchedKubeService = Stored(kubeService)
            /\ Stored(kubeService') = PatchedKubeService
        BY <1>1, <2>1, <2>4, PatchedType, PutPending, PutHistory
      <3>2. Cached(kubeService) = Stored(kubeService)
        BY <1>1, <3>1, CurrentCache
      <3>3. CASE Stored(kubeService) = Absent
        BY <3>1, <3>3 DEF PatchedKubeService
      <3>4. CASE Stored(kubeService) # Absent
        <4>. DEFINE k == Stored(kubeService)
                    w == WantedKubeService
        <4>1. k \in KubeServiceVersions /\ w \in KubeServiceVersions
          BY <3>4, PatchedType
        <4>2. PatchedKubeService = [k EXCEPT !.selector = w.selector, !.ports = w.ports]
          BY <3>2, <3>4 DEF PatchedKubeService, Merged
        <4>3. PatchedKubeService = w
          BY <4>1, <4>2 DEF KubeServiceVersions
        <4>. QED BY <3>1, <4>3
      <3>. QED BY <3>3, <3>4
    <2>. QED BY <2>2, <2>3, <2>4 DEF KubeServiceDone
  <1>8. CASE LookUpLatest
    <2>1. CASE LatestFound = Absent
      <3>1. run'.plan = "missing"
        BY <1>1, <1>8, <2>1 DEF LookUpLatest, PlanFor, Runs
      <3>. QED BY <1>3, <3>1
    <2>2. CASE LatestFound # Absent
      BY <1>1, <1>3, <1>8, <2>2 DEF LookUpLatest, Runs
    <2>. QED BY <2>1, <2>2
  <1>9. CASE PatchStatus \/ PatchStatusConflict
    BY <1>3, <1>9 DEF PatchStatus, PatchStatusConflict, Idle
  <1>10. CASE run'.plan = "none"
    BY <1>3, <1>10
  <1>. QED BY <1>2, <1>4, <1>5, <1>6, <1>7, <1>8, <1>9, <1>10, QuietRuns

\* The versions the status counts are there.
LatestExist == \A v \in Versions : v <= Stored(service).latest => Exists(v)

\* A patch that no event follows leaves the Service settled.
LEMMA PatchSettles ==
    ASSUME TypeInv, RestInv, LatestExist, [Next]_vars, ~queued', ~queued, PatchStatus
    PROVE  Settled'
  <1>. USE ReadsType
  <1>. SUFFICES ASSUME ~Pending(service'), \A v \in Versions : ~Pending(deployment'[v])
                PROVE  Settled'
    BY DEF Settled
  <1>. DEFINE s == Stored(service)
              m == MergedStatus(run.local, WantedStatus(run.local), s)
  <1>1. /\ run.step = "status" /\ service' = Put(service, m) /\ run'.step = "idle"
        /\ UNCHANGED <<secret, account, kubeService, deployment>>
    BY DEF PatchStatus, Idle
  <1>2. /\ m \in ServiceVersions /\ service \in Histories(ServiceVersions)
        /\ s \in ServiceVersions /\ run.plan \in Plans \ {"none"}
    BY <1>1, StatusType DEF TypeInv, TypeOK, RunInv
  <1>3. service' = service /\ m = s /\ ~Pending(service)
    BY <1>1, <1>2, PutPending
  <1>4. run.local = s
    BY <1>1, <1>2, <1>3, CurrentCache DEF RestInv, Calm, CopyCurrent, HasCopy
  <1>5. /\ m.latest = WantedStatus(s).latest /\ m.active = WantedStatus(s).active
        /\ m.reason = WantedStatus(s).reason
    BY <1>2, <1>4 DEF MergedStatus, Merged, ServiceVersions
  <1>6. run.plan # "version"
    <2>1. run.plan = "version" => WantedStatus(s).latest = s.latest + 1
      BY <1>2 DEF WantedStatus, NextVersion, ServiceVersions
    <2>. QED BY <1>2, <1>3, <1>5, <2>1, BoundsAssumption DEF ServiceVersions
  <1>7. /\ s.observed = s.generation /\ s.hash = run.hash
        /\ run.plan = PlanFor(LatestFound)
    BY <1>1, <1>2, <1>4, <1>6
    DEF RestInv, Calm, PlanCurrent, HasCopy, NeedsNewVersion, Plans
  <1>8. s.latest \in Versions
    <2>1. s.latest # 0
      BY <1>2, <1>7 DEF RestInv, ObservedHasVersion, ServiceVersions
    <2>. QED BY <1>2, <2>1, BoundsAssumption DEF ServiceVersions, Versions
  <1>9. Exists(s.latest)
    BY <1>2, <1>8, BoundsAssumption DEF LatestExist, ServiceVersions, Versions
  <1>10. LatestFound = Stored(deployment[s.latest]) /\ LatestFound # Absent
    <2>1. deployment[s.latest] \in Histories(DeploymentVersions \cup {Absent})
      BY <1>8 DEF TypeInv, TypeOK
    <2>2. ~Pending(deployment[s.latest])
      BY <1>1, <1>8
    <2>3. Cached(deployment[s.latest]) = Stored(deployment[s.latest])
      BY <2>1, <2>2, CurrentCache
    <2>4. s.latest # 0
      BY <1>8, BoundsAssumption DEF Versions
    <2>. QED BY <1>4, <1>9, <2>3, <2>4 DEF LatestFound, Exists
  <1>11. Serving
    BY <1>7, <1>10 DEF PlanFor, Serving
  <1>12. IF Stored(deployment[s.latest]).ready
             THEN s.active = s.latest /\ s.reason = "DeploymentReady"
             ELSE s.reason = "DeploymentProgressing"
    <2>1. CASE Stored(deployment[s.latest]).ready
      <3>1. run.plan = "promote"
        BY <1>7, <1>10, <2>1 DEF PlanFor
      <3>2. WantedStatus(s).active = s.latest /\ WantedStatus(s).reason = "DeploymentReady"
        BY <1>2, <3>1 DEF WantedStatus, ServiceVersions
      <3>. QED BY <1>3, <1>5, <2>1, <3>2
    <2>2. CASE ~Stored(deployment[s.latest]).ready
      <3>1. run.plan = "progressing"
        BY <1>7, <1>10, <2>2 DEF PlanFor
      <3>2. WantedStatus(s).reason = "DeploymentProgressing"
        BY <1>2, <3>1 DEF WantedStatus, ServiceVersions
      <3>. QED BY <1>3, <1>5, <2>2, <3>2
    <2>. QED BY <2>1, <2>2
  <1>13. ~Pending(secret) => s.hash = Stored(secret).data
    BY <1>1, <1>7 DEF RestInv, Calm, SecretSeen
  <1>14. Stored(account) # Absent
    BY <1>1, <1>11 DEF RestInv, Calm, AccountDone
  <1>15. ASSUME ~Pending(kubeService)
         PROVE  /\ Stored(kubeService) # Absent /\ Stored(kubeService).ports = s.generation
                /\ Stored(kubeService).selector = s.active
    <2>1. Stored(kubeService) = WantedKubeService
      BY <1>1, <1>11, <1>15 DEF RestInv, Calm, KubeServiceDone
    <2>2. WantedKubeService.ports = s.generation /\ WantedKubeService.selector = s.active
      <3>1. run.plan = "promote" => s.active = s.latest
        BY <1>7, <1>10, <1>12 DEF PlanFor
      <3>. QED BY <1>4, <3>1 DEF WantedKubeService, WantedSelector
    <2>. QED BY <2>1, <2>2, PatchedType, AbsentAssumption
  <1>. HIDE DEF m
  <1>. QED
    BY <1>1, <1>3, <1>7, <1>8, <1>9, <1>12, <1>13, <1>14, <1>15 DEF Settled, Exists

\* The Service stays settled, and is when a reconcile ends.
LEMMA StepSettled ==
    ASSUME TypeInv, RestInv, LatestExist, [Next]_vars, ~queued'
    PROVE  Settled'
  <1>. USE ReadsType, QuietSteps
  <1>1. CASE run'.step # "idle"
    BY <1>1 DEF Settled
  <1>2. CASE /\ ~queued /\ run' = run /\ account' = account
             /\ \/ secret' = secret \/ DeliverSecret
                \/ \E data \in EnvData : EditEnv(data)
    <2>. SUFFICES ASSUME run.step = "idle", ~Pending(service'),
                         \A v \in Versions : ~Pending(deployment'[v])
                  PROVE  Settled'
      BY <1>2 DEF Settled
    <2>1. service' = service /\ \A v \in Versions : deployment'[v] = deployment[v]
      OBVIOUS
    <2>2. Settled /\ SecretSeen
      BY <1>2 DEF RestInv, Calm
    <2>3. ~Pending(service) /\ \A v \in Versions : ~Pending(deployment[v])
      BY <2>1
    <2>4. ~Pending(secret') => Stored(service).hash = Stored(secret').data
      <3>1. ~Pending(secret') => secret' = secret
        <4>1. secret \in Histories(SecretVersions \cup {Absent})
          BY DEF TypeInv, TypeOK
        <4>2. CASE secret' = secret
          BY <4>2
        <4>3. CASE DeliverSecret
          <5>1. /\ Stored(secret') = Stored(secret)
                /\ secret' \in Histories(SecretVersions \cup {Absent})
            BY <4>1, <4>3, DeliverHistory DEF DeliverSecret
          <5>2. ~Pending(secret') => Cached(secret') = Stored(secret)
            BY <5>1, CurrentCache
          <5>3. IsOwned(Stored(secret)) /\ ~IsOwned(Cached(secret'))
            BY <2>2, <4>3, AbsentAssumption DEF SecretSeen, IsOwned, DeliverSecret
          <5>. QED BY <5>2, <5>3
        <4>4. ASSUME NEW data \in EnvData, EditEnv(data)
              PROVE  ~Pending(secret') => secret' = secret
          <5>1. [Stored(secret) EXCEPT !.data = data] \in SecretVersions
            BY <4>4 DEF EditEnv, SecretVersions
          <5>. QED BY <4>1, <4>4, <5>1, PutPending DEF EditEnv
        <4>5. secret' = secret \/ DeliverSecret \/ \E data \in EnvData : EditEnv(data)
          BY <1>2
        <4>. QED BY <4>2, <4>3, <4>4, <4>5
      <3>. QED BY <2>2, <2>3, <3>1 DEF Settled
    <2>5. ~Pending(kubeService') => kubeService' = kubeService
      OBVIOUS
    <2>. QED BY <1>2, <2>1, <2>2, <2>3, <2>4, <2>5 DEF Settled, Exists
  <1>3. CASE run'.step \in {"get", "env"}
    BY <1>1, <1>3
  <1>4. CASE EnsureEnvSecret \/ EnsureAccount \/ CreateDeployment \/ EnsureKubeService
             \/ LookUpLatest
    <2>1. run'.step # "idle"
      BY <1>4 DEF EnsureEnvSecret, EnsureAccount, CreateDeployment, EnsureKubeService,
                  LookUpLatest, Advance, After, TypeInv, TypeOK, Runs
    <2>. QED BY <1>1, <2>1
  <1>5. CASE ~queued /\ PatchStatus
    BY <1>5, PatchSettles
  <1>6. CASE ~queued /\ PatchStatusConflict
    <2>1. Stored(service) # Cached(service) /\ service' = service
      BY <1>6 DEF PatchStatusConflict, objects, RestInv, Calm, CopyCurrent, HasCopy
    <2>2. Pending(service')
      BY <2>1, CurrentCache DEF TypeInv, TypeOK
    <2>. QED BY <2>2 DEF Settled
  <1>. QED BY <1>2, <1>3, <1>4, <1>5, <1>6, QuietRuns

\* A step of the controller, a user or a watch keeps all of it.
LEMMA StepRest ==
    ASSUME TypeInv, RestInv, LatestExist, [Next]_vars
    PROVE  RestInv'
  <1>1. StaysAdopted' /\ ObservedHasVersion'
    BY StepAdopted, StepObserved DEF RestInv
  <1>2. ASSUME ~queued' PROVE Calm'
    BY <1>2, StepPlan, StepSecret, StepServing, StepSettled DEF Calm
  <1>. QED BY <1>1, <1>2 DEF RestInv

\* Whatever happens, a Service at rest is as its spec and its Secret want it, or some
\* event is under way.
LEMMA RestInvariant == Safety => []RestInv
  <1>1. TypeInv /\ OrderInv /\ RestInv /\ [Next]_vars => RestInv'
    <2>1. OrderInv => LatestExist
      BY DEF OrderInv, VersionsInOrder, LatestExist
    <2>. QED BY <2>1, StepRest
  <1>. QED BY <1>1, InitRest, TypeInvariant, OrderInvariant, PTL DEF Safety

\* At rest is what Converged asks for.
LEMMA RestIsConverged == TypeInv /\ RestInv => RestsConverged
  <1>. SUFFICES ASSUME TypeInv, RestInv, Quiescent PROVE Converged
    BY DEF RestsConverged
  <1>1. Settled /\ SecretSeen
    BY DEF Quiescent, RestInv, Calm
  <1>2. Stored(secret) # Absent
    BY <1>1, AbsentAssumption DEF Quiescent, SecretSeen
  <1>. QED BY <1>1, <1>2 DEF Quiescent, Settled, Converged

\* The controller never comes to rest on a wrong answer: whatever was read stale, merged,
\* ignored, failed or overwritten on the way, a Service nothing is under way to has its
\* version deployed, its Kubernetes Service on the ports of its spec, and traffic where
\* its status says.
THEOREM RestsAreConverged == Safety => []RestsConverged
  <1>. QED BY RestIsConverged, TypeInvariant, RestInvariant, PTL
---------------------------------------------------------------------------
(* Refinement *)

Inv == TypeInv /\ HonestInv /\ OrderInv

Specs == [v \in 1 .. ReleasedCount |-> Stored(deployment[v]).spec]

\* The versions are 1 .. ReleasedCount: that number is there, and there is no other.
LEMMA CountReleased ==
    Inv => /\ ReleasedCount \in 0 .. MaxVersion
           /\ \A v \in Versions : Exists(v) <=> v <= ReleasedCount
           /\ ReleasedCount \in {Stored(service).latest, Stored(service).latest + 1}
  <1>. SUFFICES ASSUME Inv
                PROVE  /\ ReleasedCount \in 0 .. MaxVersion
                       /\ \A v \in Versions : Exists(v) <=> v <= ReleasedCount
                       /\ ReleasedCount \in {Stored(service).latest,
                                              Stored(service).latest + 1}
    OBVIOUS
  <1>1. Stored(service).latest \in 0 .. MaxVersion
    BY ReadsType DEF Inv, ServiceVersions
  <1>2. PICK n \in 0 .. MaxVersion :
           /\ \A v \in Versions : Exists(v) <=> v <= n
           /\ n \in {Stored(service).latest, Stored(service).latest + 1}
    <2>. DEFINE m == Stored(service).latest + 1
    <2>1. CASE m \in Versions /\ Exists(m)
      <3>1. \A v \in Versions : Exists(v) <=> v <= m
        BY <1>1, <2>1, BoundsAssumption DEF Inv, OrderInv, VersionsInOrder, Versions
      <3>. QED BY <1>1, <2>1, <3>1, BoundsAssumption DEF Versions
    <2>2. CASE ~(m \in Versions /\ Exists(m))
      <3>1. \A v \in Versions : Exists(v) <=> v <= Stored(service).latest
        BY <1>1, <2>2, BoundsAssumption DEF Inv, OrderInv, VersionsInOrder, Versions
      <3>. QED BY <1>1, <3>1
    <2>. QED BY <2>1, <2>2
  <1>3. /\ ReleasedCount \in 0 .. MaxVersion
        /\ \A v \in Versions : Exists(v) <=> v <= ReleasedCount
    BY <1>2 DEF ReleasedCount
  <1>4. ReleasedCount = n
    <2>1. ASSUME NEW i \in 0 .. MaxVersion, NEW j \in 0 .. MaxVersion, i < j,
                 \A v \in Versions : v <= i <=> v <= j
          PROVE  FALSE
      <3>1. j \in Versions
        BY <2>1, BoundsAssumption DEF Versions
      <3>. QED BY <2>1, <3>1, BoundsAssumption
    <2>. QED BY <1>2, <1>3, <2>1, BoundsAssumption
  <1>. QED BY <1>2, <1>3, <1>4

\* The same count in the next state, where createKudeployDeployment may have added one.
LEMMA CountReleasedNext ==
    Inv' => /\ ReleasedCount' \in 0 .. MaxVersion
            /\ \A v \in Versions : Exists(v)' <=> v <= ReleasedCount'
            /\ ReleasedCount' \in {Stored(service').latest, Stored(service').latest + 1}
  <1>1. (Inv => /\ ReleasedCount \in 0 .. MaxVersion
                /\ \A v \in Versions : Exists(v) <=> v <= ReleasedCount
                /\ ReleasedCount \in {Stored(service).latest,
                                       Stored(service).latest + 1})'
    BY CountReleased, PTL
  <1>. QED BY <1>1

\* The specs captured by the Deployments form the sequence of releases.
LEMMA SpecsSequence ==
    ASSUME Inv
    PROVE  Specs \in Seq(Nat) /\ Len(Specs) = ReleasedCount
  <1>1. ReleasedCount \in Nat
    BY CountReleased, BoundsAssumption
  <1>2. \A v \in 1 .. ReleasedCount : Stored(deployment[v]).spec \in Nat
    <2>. SUFFICES ASSUME NEW v \in 1 .. ReleasedCount
                  PROVE  Stored(deployment[v]).spec \in Nat
      OBVIOUS
    <2>1. v \in Versions /\ Exists(v)
      BY CountReleased, BoundsAssumption DEF Versions
    <2>. QED BY <2>1, ReadsType DEF Inv, Exists, DeploymentVersions
  <1>3. Specs \in [1 .. ReleasedCount -> Nat]
    BY <1>2 DEF Specs
  <1>. QED BY <1>1, <1>3, SeqDef, LenProperties

\* Where no Deployment is made, nothing is released.
LEMMA SameReleased ==
    ASSUME Inv, Inv',
           \A v \in Versions : Exists(v)' <=> Exists(v),
           \A v \in Versions :
              Exists(v) => Stored(deployment[v])'.spec = Stored(deployment[v]).spec
    PROVE  ReleasedCount' = ReleasedCount /\ Specs' = Specs
  <1>1. ReleasedCount' = ReleasedCount
    BY DEF ReleasedCount
  <1>2. \A v \in 1 .. ReleasedCount : v \in Versions /\ Exists(v)
    BY CountReleased, BoundsAssumption DEF Versions
  <1>. QED BY <1>1, <1>2 DEF Specs

\* The Deployment of the next version is a release.
LEMMA CreateReleases ==
    ASSUME Inv, Inv', CreateDeployment
    PROVE  Abstract!Release \/ UNCHANGED Abstract!vars
  <1>. DEFINE spec == run.local.generation
              n == ReleasedCount
  <1>1. PICK v \in Versions : v = NextVersion(run.local)
    BY DEF CreateDeployment
  <1>2. /\ service' = service /\ kubeService' = kubeService /\ proven' = proven
        /\ HasCopy /\ spec \in Nat /\ run.local.latest \in Nat
    BY ReadsType, BoundsAssumption
    DEF CreateDeployment, HasCopy, Inv, ServiceVersions
  <1>3. CASE Exists(v)
    <2>1. deployment' = deployment
      BY <1>1, <1>3 DEF CreateDeployment, Exists
    <2>2. ReleasedCount' = ReleasedCount /\ Specs' = Specs
      BY <2>1, SameReleased DEF Exists
    <2>. QED BY <1>2, <2>1, <2>2 DEF Abstract!vars, Specs
  <1>4. CASE ~Exists(v)
    <2>. DEFINE new == [spec |-> spec, ready |-> FALSE]
    <2>1. new \in DeploymentVersions
      BY <1>2 DEF DeploymentVersions
    <2>2. /\ deployment' = [deployment EXCEPT ![v] = Put(deployment[v], new)]
          /\ Stored(Put(deployment[v], new)) = new
      BY <1>1, <1>4, <2>1, PutHistory DEF CreateDeployment, Exists, Inv, TypeInv, TypeOK
    <2>3. /\ Stored(deployment'[v]) = new
          /\ \A w \in Versions \ {v} : deployment'[w] = deployment[w]
      BY <2>2 DEF Inv, TypeInv, TypeOK
    <2>4. /\ n \in Nat /\ n < v
          /\ n \in {Stored(service).latest, Stored(service).latest + 1}
          /\ Stored(service).latest \in Nat /\ v \in Nat
      BY <1>4, CountReleased, ReadsType, BoundsAssumption
      DEF Inv, ServiceVersions, Versions
    <2>5. v <= Stored(service).latest + 1
      <3>1. Follows(run.local, Cached(service)) /\ Follows(Cached(service), Stored(service))
        BY <1>2, StoredFollowsCached DEF Inv, OrderInv, TypeInv, TypeOK
      <3>2. Cached(service).latest \in Nat
        BY ReadsType, BoundsAssumption DEF Inv, ServiceVersions
      <3>. QED BY <1>1, <1>2, <2>4, <3>1, <3>2 DEF Follows, NextVersion
    <2>6. n = Stored(service).latest /\ v = n + 1
      BY <2>4, <2>5
    <2>7. ReleasedCount' = n + 1
      <3>1. Exists(v)'
        BY <2>1, <2>3, AbsentAssumption DEF Exists
      <3>2. v <= ReleasedCount'
        BY <3>1, CountReleasedNext
      <3>3. ReleasedCount' \in {Stored(service).latest, Stored(service).latest + 1}
        BY <1>2, CountReleasedNext
      <3>. QED BY <2>4, <2>6, <3>2, <3>3
    <2>8. Specs' = Append(Specs, spec)
      <3>0. PICK a : a = Append(Specs, spec)
        OBVIOUS
      <3>1. Specs \in Seq(Nat) /\ Len(Specs) = n
        BY SpecsSequence
      <3>2. Specs' = [w \in 1 .. n + 1 |-> Stored(deployment'[w]).spec]
        BY <2>7 DEF Specs
      <3>3. \A w \in 1 .. n : Stored(deployment'[w]).spec = Specs[w]
        <4>1. \A w \in 1 .. n : w \in Versions \ {v}
          BY <2>4, <2>6, CountReleased, BoundsAssumption DEF Versions
        <4>. QED BY <2>3, <4>1 DEF Specs
      <3>4. Stored(deployment'[n + 1]).spec = spec
        BY <2>3, <2>6
      <3>5. a \in Seq(Nat) /\ Len(a) = n + 1
        BY <1>2, <3>0, <3>1, AppendProperties
      <3>6. a \in [1 .. n + 1 -> Nat]
        BY <3>5, LenProperties
      <3>7. ASSUME NEW w \in 1 .. n + 1 PROVE Stored(deployment'[w]).spec = a[w]
        <4>1. CASE w \in 1 .. n
          BY <1>2, <3>0, <3>1, <3>3, <4>1, AppendProperties
        <4>2. CASE w = n + 1
          BY <1>2, <3>0, <3>1, <3>4, <4>2, AppendProperties
        <4>. QED BY <2>4, <4>1, <4>2
      <3>8. a = [w \in 1 .. n + 1 |-> Stored(deployment'[w]).spec]
        BY <3>6, <3>7
      <3>. QED BY <3>0, <3>2, <3>8
    <2>9. /\ spec \in 1 .. Stored(service).generation
          /\ \A w \in 1 .. n : Specs[w] <= spec
      <3>1. Follows(run.local, Cached(service)) /\ Follows(Cached(service), Stored(service))
        BY <1>2, StoredFollowsCached DEF Inv, OrderInv, TypeInv, TypeOK
      <3>2. /\ run.local \in ServiceVersions /\ Cached(service) \in ServiceVersions
            /\ Stored(service) \in ServiceVersions
        BY ReadsType DEF Inv
      <3>3. spec \in 1 .. Stored(service).generation
        BY <3>1, <3>2 DEF Follows, ServiceVersions
      <3>4. ASSUME NEW w \in 1 .. n PROVE Specs[w] <= spec
        <4>1. w \in Versions /\ Exists(w)
          BY <2>4, CountReleased, BoundsAssumption DEF Versions
        <4>. QED BY <1>2, <4>1 DEF Specs, Inv, OrderInv, AtMostOneWriteAhead
      <3>. QED BY <3>3, <3>4
    <2>10. Len(Specs) = n
      BY SpecsSequence
    <2>. QED
      BY <1>2, <2>6, <2>8, <2>9, <2>10 DEF Abstract!Release, Abstract!Released, Specs
  <1>. QED BY <1>3, <1>4

\* Where no Deployment is made and the Service and its traffic stay, nothing happens.
LEMMA Stutters ==
    ASSUME Inv, Inv', proven' = proven, kubeService' = kubeService,
           deployment' = deployment, Stored(service') = Stored(service)
    PROVE  UNCHANGED Abstract!vars
  <1>1. ReleasedCount' = ReleasedCount /\ Specs' = Specs
    BY SameReleased DEF Exists
  <1>. QED BY <1>1 DEF Abstract!vars, Specs

\* A status patch announces the version made, promotes the version looked up, or says
\* nothing that counts here.
LEMMA PatchRefines ==
    ASSUME Inv, Inv', PatchStatus
    PROVE  Abstract!Announce \/ Abstract!Promote \/ UNCHANGED Abstract!vars
  <1>. DEFINE l == run.local
              old == Stored(service)
  <1>1. PICK s : s = MergedStatus(l, WantedStatus(l), old)
    OBVIOUS
  <1>2. /\ s \in ServiceVersions /\ Follows(old, s) /\ WithinReach(s, l)
        /\ \A v \in Versions : v <= s.latest => Exists(v)
    BY <1>1, PatchedStatus DEF Inv, PatchStatus
  <1>3. Stored(service') = s /\ deployment' = deployment /\ kubeService' = kubeService
        /\ proven' = proven
    BY <1>1, <1>2, PutHistory DEF PatchStatus, Inv, TypeInv, TypeOK
  <1>4. ReleasedCount' = ReleasedCount /\ Specs' = Specs
    BY <1>3, SameReleased DEF Exists
  <1>5. l \in ServiceVersions /\ old \in ServiceVersions /\ s.generation = old.generation
    BY <1>1, ReadsType DEF Inv, MergedStatus, ServiceVersions
  <1>6. run.plan \in Plans \ {"none"} /\ HasCopy
    BY ReadsType DEF Inv, TypeInv, RunInv, PatchStatus, HasCopy
  <1>7. l.generation <= old.generation
    <2>1. Follows(l, Cached(service)) /\ Follows(Cached(service), old)
      BY <1>6, StoredFollowsCached DEF Inv, OrderInv, TypeInv, TypeOK
    <2>2. Cached(service) \in ServiceVersions
      BY ReadsType DEF Inv
    <2>. QED BY <1>5, <2>1, <2>2 DEF Follows, ServiceVersions
  <1>8. CASE run.plan = "version"
    <2>1. s.latest = NextVersion(l) /\ s.active = old.active
      <3>1. /\ WantedStatus(l).latest = NextVersion(l) /\ WantedStatus(l).active = l.active
            /\ NextVersion(l) # l.latest
        <4>1. NextVersion(l) # l.latest
          BY <1>5, BoundsAssumption DEF NextVersion, ServiceVersions
        <4>2. WantedStatus(l) = [l EXCEPT !.observed = l.generation, !.latest = NextVersion(l),
                                          !.hash = run.hash,
                                          !.reason = "DeploymentProgressing"]
          BY <1>8 DEF WantedStatus
        <4>. QED BY <1>5, <4>1, <4>2 DEF ServiceVersions
      <3>2. /\ s.latest = Merged(l.latest, WantedStatus(l).latest, old.latest)
            /\ s.active = Merged(l.active, WantedStatus(l).active, old.active)
        BY <1>1, <1>5 DEF MergedStatus, ServiceVersions
      <3>. QED BY <3>1, <3>2 DEF Merged
    <2>2. ReleasedCount = s.latest
      <3>1. NextVersion(l) \in Versions /\ Exists(NextVersion(l))
        BY <1>6, <1>8 DEF PatchStatus, Inv, OrderInv, HasCreated, TypeInv, RunInv
      <3>2. NextVersion(l) <= ReleasedCount
        BY <3>1, CountReleased
      <3>3. CASE ReleasedCount = 0
        BY <2>1, <3>1, <3>2, <3>3, BoundsAssumption DEF Versions
      <3>4. CASE ReleasedCount # 0
        <4>1. ReleasedCount \in Versions /\ Exists(ReleasedCount)
          BY <3>4, CountReleased, BoundsAssumption DEF Versions
        <4>2. ReleasedCount <= NextVersion(l)
          BY <1>6, <4>1 DEF Inv, OrderInv, AtMostOneWriteAhead
        <4>. QED BY <2>1, <3>1, <3>2, <4>1, <4>2, BoundsAssumption DEF Versions
      <3>. QED BY <3>3, <3>4
    <2>3. s.observed \in old.observed .. old.generation
      BY <1>2, <1>5, <1>7 DEF Follows, WithinReach, ServiceVersions
    <2>4. Len(Specs) = ReleasedCount
      BY SpecsSequence
    <2>5. Abstract!Announce
      BY <1>3, <1>4, <1>5, <2>1, <2>2, <2>3, <2>4 DEF Abstract!Announce, Specs
    <2>. QED BY <2>5
  <1>9. CASE run.plan = "promote"
    <2>1. s.latest = old.latest /\ s.observed = old.observed
          /\ s.active \in {old.active, l.latest}
      BY <1>1, <1>5, <1>9 DEF MergedStatus, Merged, WantedStatus, ServiceVersions
    <2>2. CASE s.active = old.active
      BY <1>3, <1>4, <1>5, <2>1, <2>2 DEF Abstract!vars, Specs
    <2>3. CASE s.active = l.latest
      <3>1. l.latest \in proven /\ l.latest >= old.active
        BY <1>2, <1>5, <1>9, <2>3, BoundsAssumption
        DEF Follows, Inv, HonestInv, ServiceVersions
      <3>2. Abstract!Promote
        BY <1>3, <1>4, <1>5, <2>1, <2>3, <3>1 DEF Abstract!Promote, Specs
      <3>. QED BY <3>2
    <2>. QED BY <2>1, <2>2, <2>3
  <1>10. CASE run.plan \in {"missing", "progressing"}
    <2>1. s.latest = old.latest /\ s.observed = old.observed /\ s.active = old.active
      BY <1>1, <1>5, <1>10 DEF MergedStatus, Merged, WantedStatus, ServiceVersions
    <2>. QED BY <1>3, <1>4, <1>5, <2>1 DEF Abstract!vars, Specs
  <1>. QED BY <1>6, <1>8, <1>9, <1>10 DEF Plans

\* Deployments that come to be ready, or are seen by the cache, are no release.
LEMMA DeploymentRefines ==
    ASSUME Inv, Inv', NEW v \in Versions, DeliverDeployment(v) \/ ChangeReadiness(v)
    PROVE  Abstract!Prove \/ UNCHANGED Abstract!vars
  <1>1. service' = service /\ kubeService' = kubeService
        /\ \A w \in Versions \ {v} : deployment'[w] = deployment[w]
    BY DEF DeliverDeployment, ChangeReadiness, Inv, TypeInv, TypeOK
  <1>2. deployment[v] \in Histories(DeploymentVersions \cup {Absent})
    BY DEF Inv, TypeInv, TypeOK
  <1>3. CASE DeliverDeployment(v)
    <2>1. Stored(deployment'[v]) = Stored(deployment[v]) /\ proven' = proven
      BY <1>2, <1>3, DeliverHistory DEF DeliverDeployment, Inv, TypeInv, TypeOK
    <2>2. ReleasedCount' = ReleasedCount /\ Specs' = Specs
      BY <1>1, <2>1, SameReleased DEF Exists
    <2>. QED BY <1>1, <2>1, <2>2 DEF Abstract!vars, Specs
  <1>4. CASE ChangeReadiness(v)
    <2>. DEFINE d == Stored(deployment[v])
    <2>1. d \in DeploymentVersions
      BY <1>4, ReadsType DEF ChangeReadiness, Inv
    <2>2. WithOtherReadiness(d) \in DeploymentVersions /\ WithOtherReadiness(d).spec = d.spec
      BY <2>1 DEF WithOtherReadiness, DeploymentVersions
    <2>3. Stored(deployment'[v]) = WithOtherReadiness(d) /\ proven' = proven \cup {v}
      BY <1>2, <1>4, <2>2, PutHistory DEF ChangeReadiness, Inv, TypeInv, TypeOK
    <2>4. Stored(deployment'[v]) # Absent /\ Stored(deployment[v]) # Absent
      BY <2>1, <2>2, <2>3, AbsentAssumption
    <2>5. ReleasedCount' = ReleasedCount /\ Specs' = Specs
      BY <1>1, <2>2, <2>3, <2>4, SameReleased DEF Exists
    <2>6. v \in 1 .. Len(Specs)
      <3>1. Exists(v) /\ v \in Nat \ {0}
        BY <2>4, BoundsAssumption DEF Exists, Versions
      <3>2. v <= ReleasedCount
        BY <3>1, CountReleased
      <3>. QED BY <3>1, <3>2, CountReleased, SpecsSequence, BoundsAssumption
    <2>. QED
      BY <1>1, <2>3, <2>5, <2>6 DEF Abstract!Prove, Abstract!Released, Specs
  <1>. QED BY <1>3, <1>4

\* Each step of the reconciler, its users and its watches is a step of Rollout or a stutter.
LEMMA StepRefines == Inv /\ Inv' /\ [Next]_vars => [Abstract!Next]_(Abstract!vars)
  <1>. SUFFICES ASSUME Inv, Inv', [Next]_vars
                PROVE  Abstract!Next \/ UNCHANGED Abstract!vars
    OBVIOUS
  <1>. USE DEF Abstract!Next
  <1>1. CASE CreateDeployment
    BY <1>1, CreateReleases
  <1>2. CASE PatchStatus
    BY <1>2, PatchRefines
  <1>3. CASE EnsureKubeService
    <2>1. /\ service' = service /\ deployment' = deployment /\ proven' = proven
      BY <1>3 DEF EnsureKubeService
    <2>2. ReleasedCount' = ReleasedCount /\ Specs' = Specs
      BY <2>1, SameReleased DEF Exists
    <2>3. TrafficOnlyToProven'
      <3>1. Inv' => Stored(kubeService') \in HonestKubeServices(proven') \cup {Absent}
        BY HistoryEnds DEF Inv, HonestInv
      <3>2. Inv' => Stored(service').active \in proven' \cup {0}
        BY HistoryEnds DEF Inv, HonestInv, HonestServices
      <3>. QED BY <3>1, <3>2 DEF TrafficOnlyToProven, HonestKubeServices
    <2>4. Abstract!RouteTraffic
      BY <2>1, <2>2, <2>3 DEF Abstract!RouteTraffic, TrafficOnlyToProven, Specs
    <2>. QED BY <2>4
  <1>4. CASE EditSpec
    <2>. DEFINE s == [Stored(service) EXCEPT !.generation = @ + 1]
    <2>1. s \in ServiceVersions
      BY ReadsType DEF Inv, ServiceVersions
    <2>2. Stored(service') = s
      BY <1>4, <2>1, PutHistory DEF EditSpec, Inv, TypeInv, TypeOK
    <2>3. /\ s.generation = Stored(service).generation + 1
          /\ s.observed = Stored(service).observed /\ s.latest = Stored(service).latest
          /\ s.active = Stored(service).active
      BY ReadsType DEF Inv, ServiceVersions
    <2>4. deployment' = deployment /\ kubeService' = kubeService /\ proven' = proven
      BY <1>4 DEF EditSpec
    <2>5. ReleasedCount' = ReleasedCount /\ Specs' = Specs
      BY <2>4, SameReleased DEF Exists
    <2>6. Abstract!Want
      BY <2>2, <2>3, <2>4, <2>5 DEF Abstract!Want, Specs
    <2>. QED BY <2>6
  <1>5. CASE LabelService
    <2>. DEFINE s == [Stored(service) EXCEPT !.managed = TRUE]
    <2>1. s \in ServiceVersions
      BY ReadsType DEF Inv, ServiceVersions
    <2>2. Stored(service') = s
      BY <1>5, <2>1, PutHistory DEF LabelService, Inv, TypeInv, TypeOK
    <2>3. /\ s.generation = Stored(service).generation
          /\ s.observed = Stored(service).observed /\ s.latest = Stored(service).latest
          /\ s.active = Stored(service).active
      BY ReadsType DEF Inv, ServiceVersions
    <2>4. deployment' = deployment /\ kubeService' = kubeService /\ proven' = proven
      BY <1>5 DEF LabelService
    <2>5. ReleasedCount' = ReleasedCount /\ Specs' = Specs
      BY <2>4, SameReleased DEF Exists
    <2>. QED BY <2>2, <2>3, <2>4, <2>5 DEF Abstract!vars, Specs
  <1>6. CASE DeliverService
    BY <1>6, DeliverHistory, Stutters DEF DeliverService, Inv, TypeInv, TypeOK
  <1>7. CASE DeliverKubeService
    <2>1. Stored(kubeService') = Stored(kubeService)
      BY <1>7, DeliverHistory DEF DeliverKubeService, Inv, TypeInv, TypeOK
    <2>2. service' = service /\ deployment' = deployment /\ proven' = proven
      BY <1>7 DEF DeliverKubeService
    <2>3. ReleasedCount' = ReleasedCount /\ Specs' = Specs
      BY <2>2, SameReleased DEF Exists
    <2>. QED BY <2>1, <2>2, <2>3 DEF Abstract!vars, Specs
  <1>8. ASSUME NEW v \in Versions, DeliverDeployment(v) \/ ChangeReadiness(v)
        PROVE  Abstract!Next \/ UNCHANGED Abstract!vars
    BY <1>8, DeploymentRefines
  <1>9. CASE /\ service' = service /\ deployment' = deployment
             /\ kubeService' = kubeService /\ proven' = proven
    BY <1>9, Stutters
  <1>10. \/ CreateDeployment \/ PatchStatus \/ EnsureKubeService \/ EditSpec \/ LabelService
         \/ DeliverService \/ DeliverKubeService
         \/ \E v \in Versions : DeliverDeployment(v) \/ ChangeReadiness(v)
         \/ /\ service' = service /\ deployment' = deployment
            /\ kubeService' = kubeService /\ proven' = proven
    BY DEF Next, Reconcile, Watch, Others, ReadService, LabelConflict, GetLabelled,
           EnsureEnvSecret, EnsureAccount, LookUpLatest, PatchStatusConflict, Fail,
           DeliverSecret, DeliverAccount, Resync, EditEnv, vars, objects
  <1>. QED BY <1>1, <1>2, <1>3, <1>4, <1>5, <1>6, <1>7, <1>8, <1>9, <1>10

\* A Service nobody has reconciled is a rollout with nothing released.
LEMMA InitRefines == Init => Abstract!Init
  <1>. SUFFICES ASSUME Init PROVE Abstract!Init
    OBVIOUS
  <1>1. Inv
    BY InitType, InitHonest, InitOrder DEF Inv
  <1>2. Stored(service) = NewService /\ Stored(kubeService) = Absent /\ proven = {}
    BY FreshHistory DEF Init, Fresh, Stored
  <1>3. \A v \in Versions : ~Exists(v)
    BY FreshHistory DEF Init, Exists
  <1>4. ReleasedCount = 0
    <2>1. CASE ReleasedCount # 0
      BY <1>1, <1>3, <2>1, CountReleased, BoundsAssumption DEF Versions
    <2>. QED BY <2>1
  <1>5. Specs = <<>>
    BY <1>1, <1>4, SpecsSequence, EmptySeq
  <1>. QED BY <1>2, <1>5 DEF Abstract!Init, NewService, Specs

\* Everything the reconciler makes of its stale reads, ignored errors and restarts is a
\* rollout: numbered releases of ever newer specs, traffic to proven versions only,
\* a status that follows and never goes back.
THEOREM RolloutIsImplemented == Safety => ImplementsRollout
  <1>1. Inv /\ Inv' /\ [Next]_vars => [Abstract!Next]_(Abstract!vars)
    BY StepRefines
  <1>2. TypeInv /\ HonestInv /\ OrderInv => Inv
    BY DEF Inv
  <1>. QED
    BY <1>1, <1>2, InitRefines, TypeInvariant, HonestInvariant, OrderInvariant, PTL
    DEF Safety, ImplementsRollout, Abstract!Spec
===========================================================================
