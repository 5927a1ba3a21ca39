---------------------- MODULE ServiceCompositionProofs ----------------------
(***************************************************************************)
(* Theorems about the two modules that set the Service reconciler among    *)
(* others, for every value of their constants: KudeploySystem, where the   *)
(* Deployment reconciler works on the same Service, and ServiceFailover,   *)
(* where a second manager does.                                            *)
(***************************************************************************)
EXTENDS KudeploySystem, ServiceFailover, ServiceRolloutProofs
---------------------------------------------------------------------------
(***************************************************************************)
(* The Deployment reconciler                                               *)
(*                                                                         *)
(* Seen by the Service reconciler, it is one of the others it was always   *)
(* proved against; so what was proved of the rollout holds in the system,  *)
(* and with it what neither proves alone.                                  *)
(***************************************************************************)
\* The Deployment reconciler does to the Service reconciler's objects only what
\* ServiceRollout allows.
LEMMA SystemSteps == [SystemNext]_systemVars => [Next]_vars
  <1>. SUFFICES ASSUME [SystemNext]_systemVars PROVE [Next]_vars
    OBVIOUS
  <1>1. CASE ServiceSide
    BY <1>1 DEF ServiceSide, Next, Others
  <1>2. CASE \E v \in Versions : GiveEnv(v)
    BY <1>2 DEF GiveEnv
  <1>3. CASE \E v \in Versions : ReportReadiness(v)
    BY <1>3 DEF ReportReadiness, Next, Others
  <1>4. CASE \E data \in EnvData : ChangeEnv(data)
    BY <1>4 DEF ChangeEnv, Next, Others
  <1>5. CASE ChangeSpec
    BY <1>5 DEF ChangeSpec, Next, Others
  <1>6. CASE UNCHANGED systemVars
    BY <1>6 DEF systemVars
  <1>. QED BY <1>1, <1>2, <1>3, <1>4, <1>5, <1>6 DEF SystemNext

\* All that was proved of the rollout of a Service holds in the system.
THEOREM SystemIsARollout == SystemSafety => Safety
  BY SystemSteps, PTL DEF SystemSafety, SystemInit, Safety

\* The status does not go back there either.
THEOREM SystemStatusOnlyMovesForward == SystemSafety => StatusNeverGoesBack
  BY SystemIsARollout, StatusOnlyMovesForward, PTL

\* A version that has been ready has its env, and keeps it.
EnvInv ==
    /\ DOMAIN clone = Versions
    /\ \A v \in proven : v \in Versions /\ HasEnv(v)

\* Nothing has been ready at first.
LEMMA InitEnv == SystemInit => EnvInv
  BY DEF SystemInit, Init, EnvInv

\* Every step keeps it: the Deployment reconciler gives the env before it reports, and
\* never takes it back.
LEMMA StepEnv == EnvInv /\ [SystemNext]_systemVars => EnvInv'
  <1>. SUFFICES ASSUME EnvInv, [SystemNext]_systemVars PROVE EnvInv'
    OBVIOUS
  <1>1. CASE ServiceSide
    <2>1. proven' = proven
      BY <1>1
      DEF ServiceSide, Reconcile, ReadService, LabelService, LabelConflict, GetLabelled,
          EnsureEnvSecret, EnsureAccount, CreateDeployment, EnsureKubeService, LookUpLatest,
          PatchStatus, PatchStatusConflict, Fail, Watch, DeliverService, DeliverSecret,
          DeliverAccount, DeliverKubeService, DeliverDeployment, Resync, vars
    <2>. QED BY <1>1, <2>1 DEF ServiceSide, EnvInv, HasEnv
  <1>2. CASE \E v \in Versions : GiveEnv(v)
    <2>1. PICK v \in Versions : GiveEnv(v)
      BY <1>2
    <2>2. clone' = [clone EXCEPT ![v] = Env(v)!Copy] /\ Env(v)!Copy # Absent
      BY <2>1 DEF GiveEnv, Env!Clonable, Env!Copy
    <2>. QED BY <2>1, <2>2 DEF GiveEnv, EnvInv, HasEnv, vars
  <1>3. CASE \E v \in Versions : ReportReadiness(v)
    BY <1>3 DEF ReportReadiness, ChangeReadiness, EnvInv, HasEnv
  <1>4. CASE \E data \in EnvData : ChangeEnv(data)
    BY <1>4 DEF ChangeEnv, EditEnv, EnvInv, HasEnv
  <1>5. CASE ChangeSpec
    BY <1>5 DEF ChangeSpec, EditSpec, EnvInv, HasEnv
  <1>6. CASE UNCHANGED systemVars
    BY <1>6 DEF systemVars, vars, EnvInv, HasEnv
  <1>. QED BY <1>1, <1>2, <1>3, <1>4, <1>5, <1>6 DEF SystemNext

\* The stable Service routes to no version that has not been given its env, however the
\* two reconcilers, their caches and their failures interleave.
THEOREM TrafficGetsItsEnv == SystemSafety => []TrafficHasItsEnv
  <1>1. TrafficOnlyToProven /\ EnvInv => TrafficHasItsEnv
    BY DEF TrafficOnlyToProven, EnvInv, TrafficHasItsEnv
  <1>2. SystemSafety => []TrafficOnlyToProven
    BY SystemIsARollout, OnlyProvenVersionsGetTraffic, PTL
  <1>. QED
    BY <1>1, <1>2, InitEnv, StepEnv, PTL DEF SystemSafety
---------------------------------------------------------------------------
(***************************************************************************)
(* A deposed manager                                                       *)
(*                                                                         *)
(* Its write is computed from older copies than the run in progress goes   *)
(* by, so every invariant is kept for both.                                *)
(***************************************************************************)
\* What a deposed manager may still be about to write.
LateType ==
    /\ late \in [run : Runs, seen : KubeServiceVersions \cup {Absent}]
    /\ late.run.step \in {"deployment", "kubeService", "status"} => late.run.plan # "none"
    /\ late.run.plan = "version" /\ late.run.step \in {"kubeService", "status"}
          => NextVersion(late.run.local) \in Versions

\* It is honest too: it routes only to versions that have been ready.
LateHonest ==
    /\ late.run.local \in HonestServices(proven)
    /\ late.run.plan = "promote" => late.run.local.latest \in proven
    /\ late.seen \in HonestKubeServices(proven) \cup {Absent}

\* The versions a status counts are there, with specs no newer than its own.
Backed(status) ==
    /\ status.generation <= Stored(service).generation
    /\ \A v \in Versions : v <= status.latest =>
          Exists(v) /\ Stored(deployment[v]).spec <= status.generation

\* A reconcile whose next write is beyond the Deployment has its version.
HasMade(r) ==
    r.plan = "version" /\ r.step \in {"kubeService", "status"} => Exists(NextVersion(r.local))

\* That is so of every status a manager may still go by, the deposed one included.
FailoverOrder ==
    /\ \A i \in 1 .. Len(service) : Backed(service[i])
    /\ Backed(run.local) /\ HasMade(run)
    /\ Backed(late.run.local) /\ HasMade(late.run)
    /\ \A v \in Versions : Exists(v) => Stored(deployment[v]).spec <= Stored(service).generation
    /\ VersionsStayOrdered

FailoverInv ==
    TypeInv /\ LateType /\ HonestInv /\ LateHonest /\ FailoverOrder /\ RestInv

\* What the server makes of a status patch, field by field.
LEMMA MergedFields ==
    ASSUME NEW l \in ServiceVersions, NEW w \in ServiceVersions, NEW s \in ServiceVersions,
           NEW m, m = MergedStatus(l, w, s)
    PROVE  /\ m \in ServiceVersions /\ m.generation = s.generation
           /\ m.observed = s.observed \/ (w.observed # l.observed /\ m.observed = w.observed)
           /\ m.latest = IF w.latest = l.latest THEN s.latest ELSE w.latest
           /\ m.active = s.active \/ (w.active # l.active /\ m.active = w.active)
  <1>1. m \in ServiceVersions
    BY DEF MergedStatus, Merged, ServiceVersions
  <1>2. /\ m.generation = s.generation
        /\ m.observed = Merged(l.observed, w.observed, s.observed)
        /\ m.latest = Merged(l.latest, w.latest, s.latest)
        /\ m.active = Merged(l.active, w.active, s.active)
    BY DEF MergedStatus, ServiceVersions
  <1>. QED BY <1>1, <1>2 DEF Merged

\* The status a reconcile wants, the one that is under way or the deposed one.
WantedFields(r, w) ==
    /\ w \in ServiceVersions
    /\ w.observed # r.local.observed => r.plan = "version"
    /\ w.latest = IF r.plan = "version" THEN NextVersion(r.local) ELSE r.local.latest
    /\ w.active # r.local.active => r.plan = "promote" /\ w.active = r.local.latest

LEMMA RunWants ==
    ASSUME TypeInv, run.step = "status"
    PROVE  WantedFields(run, WantedStatus(run.local))
  <1>1. run.plan \in Plans \ {"none"} /\ run.local \in ServiceVersions
    BY ReadsType DEF TypeInv, RunInv
  <1>2. WantedStatus(run.local) \in ServiceVersions
    BY StatusType
  <1>. QED BY <1>1, <1>2 DEF WantedFields, WantedStatus, ServiceVersions, Plans

LEMMA LateWants ==
    ASSUME TypeInv, LateType, late.run.step = "status"
    PROVE  WantedFields(late.run, Deposed!WantedStatus(late.run.local))
  <1>. DEFINE l == late.run.local
              w == Deposed!WantedStatus(l)
  <1>1. /\ late.run.plan \in Plans \ {"none"} /\ l \in ServiceVersions
        /\ late.run.hash \in Hashes
        /\ late.run.plan = "version" => NextVersion(l) \in 0 .. MaxVersion
    BY BoundsAssumption DEF LateType, Runs, Versions
  <1>2. w \in ServiceVersions
    <2>1. CASE late.run.plan = "version"
      BY <1>1, <2>1 DEF Deposed!WantedStatus, Deposed!NextVersion, NextVersion,
                        ServiceVersions, Reasons
    <2>2. CASE late.run.plan \in {"missing", "progressing", "promote"}
      BY <1>1, <2>2 DEF Deposed!WantedStatus, ServiceVersions, Reasons
    <2>. QED BY <1>1, <2>1, <2>2 DEF Plans
  <1>. QED
    BY <1>1, <1>2
    DEF WantedFields, Deposed!WantedStatus, Deposed!NextVersion, NextVersion,
        ServiceVersions, Plans

\* The Kubernetes Service the deposed manager writes.
LEMMA LateKubeType ==
    ASSUME TypeInv, LateType
    PROVE  /\ Deposed!PatchedKubeService \in KubeServiceVersions
           /\ LateHonest /\ HonestInv =>
                 Deposed!PatchedKubeService \in HonestKubeServices(proven)
  <1>. USE ReadsType
  <1>. DEFINE h == <<late.seen, Stored(kubeService)>>
              w == Deposed!WantedKubeService
  <1>1. /\ Deposed!Cached(h) = late.seen /\ Deposed!Stored(h) = Stored(kubeService)
        /\ \A x, y, z : Deposed!Merged(x, y, z) = Merged(x, y, z)
    BY DEF Deposed!Cached, Deposed!Stored, Deposed!Merged, Merged
  <1>2. /\ w \in KubeServiceVersions
        /\ LateHonest => w \in HonestKubeServices(proven)
    BY DEF LateType, Runs, Deposed!WantedKubeService, Deposed!WantedSelector,
           ServiceVersions, KubeServiceVersions, LateHonest, HonestServices,
           HonestKubeServices
  <1>3. /\ late.seen \in KubeServiceVersions \cup {Absent}
        /\ HonestInv => Stored(kubeService) \in HonestKubeServices(proven) \cup {Absent}
    BY ReadsHonest DEF LateType
  <1>. HIDE DEF w
  <1>4. CASE Stored(kubeService) = Absent \/ late.seen = Absent
    BY <1>1, <1>2, <1>3, <1>4 DEF Deposed!PatchedKubeService, w
  <1>5. CASE Stored(kubeService) # Absent /\ late.seen # Absent
    <2>. DEFINE k == Stored(kubeService)
                m == [k EXCEPT !.selector = Merged(late.seen.selector, w.selector, @),
                               !.ports = Merged(late.seen.ports, w.ports, @)]
    <2>1. Deposed!PatchedKubeService = m
      BY <1>1, <1>5 DEF Deposed!PatchedKubeService, w
    <2>2. m \in KubeServiceVersions /\ m.selector \in {k.selector, w.selector}
      BY <1>2, <1>5 DEF KubeServiceVersions, Merged
    <2>. HIDE DEF m
    <2>. QED BY <1>2, <1>3, <1>5, <2>1, <2>2 DEF HonestKubeServices
  <1>. QED BY <1>4, <1>5

\* The first reconcile of a manager, and no write under way.
LEMMA InitFailover == FailoverInit => TypeInv /\ LateType /\ HonestInv /\ LateHonest
  <1>. SUFFICES ASSUME FailoverInit PROVE TypeInv /\ LateType /\ HonestInv /\ LateHonest
    OBVIOUS
  <1>. DEFINE s == [managed |-> TRUE, generation |-> 1, observed |-> 1, latest |-> 1,
                    hash |-> Empty, active |-> 1, reason |-> "DeploymentReady"]
              d(v) == IF v = 1 THEN [spec |-> 1, ready |-> TRUE] ELSE Absent
  <1>1. NewService \in HonestServices(proven)
    BY BoundsAssumption DEF NewService, HonestServices, ServiceVersions, Hashes, Reasons
  <1>2. s \in HonestServices({1})
    BY BoundsAssumption, ValuesAssumption, TakeOverAssumption
    DEF HonestServices, ServiceVersions, Hashes, Reasons
  <1>3. service = Fresh(s) /\ proven = {1} /\ run = Idle /\ late = NothingLate
    BY DEF FailoverInit
  <1>. HIDE DEF s
  <1>4. service \in Histories(HonestServices(proven))
    BY <1>2, <1>3, FreshHistory
  <1>5. service \in Histories(ServiceVersions)
    BY <1>4, LargerHistories DEF HonestServices
  <1>6. secret \in Histories(SecretVersions \cup {Absent})
    BY ValuesAssumption, FreshHistory DEF FailoverInit, SecretVersions
  <1>7. [selector |-> 1, ports |-> 1] \in HonestKubeServices(proven)
    BY <1>3, BoundsAssumption, TakeOverAssumption DEF HonestKubeServices, KubeServiceVersions
  <1>8. kubeService \in Histories(HonestKubeServices(proven) \cup {Absent})
    BY <1>7, FreshHistory DEF FailoverInit
  <1>9. kubeService \in Histories(KubeServiceVersions \cup {Absent})
    BY <1>8, LargerHistories DEF HonestKubeServices
  <1>10. ASSUME NEW v \in Versions
         PROVE  deployment[v] \in Histories(HonestDeployments(v, proven) \cup {Absent})
    <2>1. d(v) \in HonestDeployments(v, proven) \cup {Absent}
      BY <1>3 DEF HonestDeployments, DeploymentVersions
    <2>2. deployment[v] = Fresh(d(v))
      BY DEF FailoverInit
    <2>. QED BY <2>1, <2>2, FreshHistory
  <1>11. deployment \in [Versions -> Histories(DeploymentVersions \cup {Absent})]
    <2>1. ASSUME NEW v \in Versions
          PROVE  d(v) \in DeploymentVersions \cup {Absent}
      BY DEF DeploymentVersions
    <2>2. deployment = [v \in Versions |-> Fresh(d(v))]
      BY DEF FailoverInit
    <2>. HIDE DEF d
    <2>. QED BY <2>1, <2>2, FreshHistory
  <1>12. account \in Histories({Absent, "present"})
    BY FreshHistory DEF FailoverInit
  <1>13. Idle \in Runs /\ Idle.step = "idle" /\ Idle.plan = "none" /\ Idle.local = NewService
    BY <1>1 DEF Idle, Runs, Steps, Plans, Hashes, HonestServices
  <1>14. TypeInv
    <2>1. queued = FALSE /\ spent = [env |-> 0, readiness |-> 0, faults |-> 0]
      BY DEF FailoverInit
    <2>2. proven \subseteq Versions
      BY <1>3, BoundsAssumption, TakeOverAssumption DEF Versions
    <2>. QED
      BY <1>3, <1>5, <1>6, <1>9, <1>11, <1>12, <1>13, <2>1, <2>2
      DEF TypeInv, TypeOK, RunInv
  <1>15. LateType /\ LateHonest
    BY <1>1, <1>3, <1>13 DEF LateType, LateHonest, NothingLate
  <1>16. HonestInv
    BY <1>1, <1>3, <1>4, <1>8, <1>10, <1>13 DEF HonestInv
  <1>. QED BY <1>14, <1>15, <1>16

\* What a late write, or none, does to the objects.
LEMMA LateWrites ==
    ASSUME TypeInv, LateType, LateWrite
    PROVE  /\ UNCHANGED <<secret, account, queued, run, proven, spent>>
           /\ late' = NothingLate
           /\ \/ service' = service
              \/ /\ late.run.step = "status" /\ UNCHANGED <<kubeService, deployment>>
                 /\ \E w \in ServiceVersions :
                       /\ WantedFields(late.run, w)
                       /\ service' = Put(service,
                                         MergedStatus(late.run.local, w, Stored(service)))
           /\ \/ kubeService' = kubeService
              \/ \E k \in KubeServiceVersions :
                    /\ kubeService' = Put(kubeService, k)
                    /\ HonestInv /\ LateHonest => k \in HonestKubeServices(proven)
           /\ \/ deployment' = deployment
              \/ /\ late.run.step = "deployment" /\ UNCHANGED <<service, kubeService>>
                 /\ NextVersion(late.run.local) \in Versions
                 /\ Stored(deployment[NextVersion(late.run.local)]) = Absent
                 /\ deployment' = [deployment EXCEPT
                       ![NextVersion(late.run.local)] =
                           Put(@, [spec |-> late.run.local.generation, ready |-> FALSE])]
  <1>1. CASE LateCreate
    BY <1>1 DEF LateCreate, Landed
  <1>2. CASE LateKubeService
    BY <1>2, LateKubeType DEF LateKubeService, Landed
  <1>3. CASE LateStatus
    <2>1. WantedFields(late.run, Deposed!WantedStatus(late.run.local))
      BY <1>3, LateWants DEF LateStatus
    <2>2. Deposed!WantedStatus(late.run.local) \in ServiceVersions
      BY <2>1 DEF WantedFields
    <2>3. /\ UNCHANGED <<secret, account, queued, run, proven, spent, kubeService, deployment>>
          /\ late' = NothingLate /\ late.run.step = "status"
          /\ service' = Put(service,
                MergedStatus(late.run.local, Deposed!WantedStatus(late.run.local),
                             Stored(service)))
      BY <1>3 DEF LateStatus, Landed
    <2>. QED BY <2>1, <2>2, <2>3
  <1>. QED BY <1>1, <1>2, <1>3 DEF LateWrite

\* What a step of the failover is.
LEMMA FailoverSteps ==
    ASSUME [FailoverNext]_failoverVars
    PROVE  \/ [Next]_vars /\ late' = late
           \/ TakeOver
           \/ LateWrite
  BY DEF FailoverNext, failoverVars

\* The next manager starts from the types, and a late write puts what has them.
LEMMA StepFailoverType ==
    TypeInv /\ LateType /\ [FailoverNext]_failoverVars => TypeInv' /\ LateType'
  <1>. SUFFICES ASSUME TypeInv, LateType, [FailoverNext]_failoverVars
                PROVE  TypeInv' /\ LateType'
    OBVIOUS
  <1>. USE ReadsType
  <1>0. Idle \in Runs /\ Idle.step = "idle" /\ Idle.plan = "none"
    BY BoundsAssumption DEF Idle, Runs, Steps, Plans, Hashes, NewService, ServiceVersions,
                            Reasons
  <1>1. CASE [Next]_vars /\ late' = late
    <2>1. TypeInv'
      BY <1>1, StepType
    <2>. QED BY <1>1, <2>1 DEF LateType, NextVersion
  <1>2. CASE TakeOver
    <2>1. /\ UNCHANGED <<objects, proven, spent>> /\ run' = Idle /\ queued' = TRUE
          /\ late' = [run |-> run, seen |-> Cached(kubeService)]
      BY <1>2 DEF TakeOver
    <2>2. TypeInv'
      BY <1>0, <2>1 DEF TypeInv, TypeOK, RunInv, objects
    <2>3. LateType'
      BY <2>1 DEF TypeInv, TypeOK, RunInv, LateType, NextVersion
    <2>. QED BY <2>2, <2>3
  <1>3. CASE LateWrite
    <2>1. /\ UNCHANGED <<secret, account, queued, run, proven, spent>>
          /\ late' = NothingLate
      BY <1>3, LateWrites
    <2>2. LateType'
      BY <1>0, <2>1 DEF LateType, NothingLate
    <2>3. service' \in Histories(ServiceVersions)
      <3>1. CASE service' = service
        BY <3>1 DEF TypeInv, TypeOK
      <3>2. ASSUME NEW w \in ServiceVersions,
                   service' = Put(service, MergedStatus(late.run.local, w, Stored(service)))
            PROVE  service' \in Histories(ServiceVersions)
        <4>1. MergedStatus(late.run.local, w, Stored(service)) \in ServiceVersions
          BY MergedFields DEF LateType, Runs
        <4>. QED BY <3>2, <4>1, PutHistory DEF TypeInv, TypeOK
      <3>. QED BY <1>3, <3>1, <3>2, LateWrites
    <2>4. kubeService' \in Histories(KubeServiceVersions \cup {Absent})
      <3>1. CASE kubeService' = kubeService
        BY <3>1 DEF TypeInv, TypeOK
      <3>2. ASSUME NEW k \in KubeServiceVersions, kubeService' = Put(kubeService, k)
            PROVE  kubeService' \in Histories(KubeServiceVersions \cup {Absent})
        BY <3>2, PutHistory DEF TypeInv, TypeOK
      <3>. QED BY <1>3, <3>1, <3>2, LateWrites
    <2>5. deployment' \in [Versions -> Histories(DeploymentVersions \cup {Absent})]
      <3>. DEFINE v == NextVersion(late.run.local)
                  d == [spec |-> late.run.local.generation, ready |-> FALSE]
      <3>1. CASE deployment' = deployment
        BY <3>1 DEF TypeInv, TypeOK
      <3>2. CASE v \in Versions /\ deployment' = [deployment EXCEPT ![v] = Put(@, d)]
        <4>1. d \in DeploymentVersions \cup {Absent}
          BY DEF LateType, Runs, ServiceVersions, DeploymentVersions
        <4>2. deployment \in [Versions -> Histories(DeploymentVersions \cup {Absent})]
          BY DEF TypeInv, TypeOK
        <4>. HIDE DEF v, d
        <4>3. Put(deployment[v], d) \in Histories(DeploymentVersions \cup {Absent})
          BY <3>2, <4>1, <4>2, PutHistory
        <4>. QED BY <3>2, <4>2, <4>3
      <3>. QED BY <1>3, <3>1, <3>2, LateWrites
    <2>6. TypeOK /\ RunInv
      BY DEF TypeInv
    <2>7. TypeOK'
      BY <2>1, <2>3, <2>4, <2>5, <2>6 DEF TypeOK
    <2>8. RunInv'
      BY <2>1, <2>6 DEF RunInv, NextVersion
    <2>. QED BY <2>2, <2>7, <2>8 DEF TypeInv
  <1>. QED BY <1>1, <1>2, <1>3, FailoverSteps

\* A deposed manager routes, late, only to what has been ready.
LEMMA StepFailoverHonest ==
    TypeInv /\ LateType /\ HonestInv /\ LateHonest /\ [FailoverNext]_failoverVars
        => HonestInv' /\ LateHonest'
  <1>. SUFFICES ASSUME TypeInv, LateType, HonestInv, LateHonest,
                       [FailoverNext]_failoverVars
                PROVE  HonestInv' /\ LateHonest'
    OBVIOUS
  <1>. USE ReadsType, ReadsHonest
  <1>0. /\ NewService \in HonestServices(proven)
        /\ Idle.local = NewService /\ Idle.plan = "none"
    BY BoundsAssumption DEF NewService, HonestServices, ServiceVersions, Hashes, Reasons, Idle
  <1>1. CASE [Next]_vars /\ late' = late
    <2>1. HonestInv'
      BY <1>1, StepHonest
    <2>2. proven \subseteq proven'
      <3>1. CASE \E v \in Versions : ChangeReadiness(v)
        BY <3>1 DEF ChangeReadiness
      <3>2. CASE proven' = proven
        BY <3>2
      <3>3. (\E v \in Versions : ChangeReadiness(v)) \/ proven' = proven
        BY <1>1
        DEF Next, Reconcile, Watch, Others, ReadService, LabelService, LabelConflict,
            GetLabelled, EnsureEnvSecret, EnsureAccount, CreateDeployment, EnsureKubeService,
            LookUpLatest, PatchStatus, PatchStatusConflict, Fail, DeliverService,
            DeliverSecret, DeliverAccount, DeliverKubeService, DeliverDeployment, Resync,
            EditSpec, EditEnv, vars
      <3>. QED BY <3>1, <3>2, <3>3
    <2>3. LateHonest'
      BY <1>1, <2>2, MoreProven DEF LateHonest
    <2>. QED BY <2>1, <2>3
  <1>2. CASE TakeOver
    <2>1. /\ UNCHANGED <<service, kubeService, deployment, proven>> /\ run' = Idle
          /\ late' = [run |-> run, seen |-> Cached(kubeService)]
      BY <1>2 DEF TakeOver, objects
    <2>2. HonestInv'
      BY <1>0, <2>1 DEF HonestInv
    <2>3. LateHonest'
      BY <2>1 DEF HonestInv, LateHonest
    <2>. QED BY <2>2, <2>3
  <1>3. CASE LateWrite
    <2>1. UNCHANGED <<run, proven>> /\ late' = NothingLate
      BY <1>3, LateWrites
    <2>2. LateHonest'
      BY <1>0, <2>1 DEF LateHonest, NothingLate
    <2>3. service' \in Histories(HonestServices(proven))
      <3>1. CASE service' = service
        BY <3>1 DEF HonestInv
      <3>2. ASSUME NEW w \in ServiceVersions, WantedFields(late.run, w),
                   service' = Put(service, MergedStatus(late.run.local, w, Stored(service)))
            PROVE  service' \in Histories(HonestServices(proven))
        <4>1. PICK m : m = MergedStatus(late.run.local, w, Stored(service))
          OBVIOUS
        <4>2. /\ m \in ServiceVersions
              /\ m.active = Stored(service).active
                    \/ (w.active # late.run.local.active /\ m.active = w.active)
          BY <4>1, MergedFields DEF LateType, Runs
        <4>3. m \in HonestServices(proven)
          BY <3>2, <4>2 DEF WantedFields, LateHonest, HonestServices
        <4>. QED BY <3>2, <4>1, <4>3, PutHistory DEF HonestInv
      <3>. QED BY <1>3, <3>1, <3>2, LateWrites
    <2>4. kubeService' \in Histories(HonestKubeServices(proven) \cup {Absent})
      <3>1. CASE kubeService' = kubeService
        BY <3>1 DEF HonestInv
      <3>2. ASSUME NEW k \in HonestKubeServices(proven), kubeService' = Put(kubeService, k)
            PROVE  kubeService' \in Histories(HonestKubeServices(proven) \cup {Absent})
        BY <3>2, PutHistory DEF HonestInv
      <3>. QED BY <1>3, <3>1, <3>2, LateWrites
    <2>5. ASSUME NEW u \in Versions
          PROVE  deployment'[u] \in Histories(HonestDeployments(u, proven) \cup {Absent})
      <3>. DEFINE v == NextVersion(late.run.local)
                  d == [spec |-> late.run.local.generation, ready |-> FALSE]
      <3>1. CASE deployment' = deployment
        BY <3>1 DEF HonestInv
      <3>2. CASE v \in Versions /\ deployment' = [deployment EXCEPT ![v] = Put(@, d)]
        <4>1. d \in HonestDeployments(v, proven) \cup {Absent}
          BY DEF LateType, Runs, ServiceVersions, DeploymentVersions, HonestDeployments
        <4>2. deployment[v] \in Histories(HonestDeployments(v, proven) \cup {Absent})
          BY <3>2 DEF HonestInv
        <4>. HIDE DEF v, d
        <4>3. Put(deployment[v], d) \in Histories(HonestDeployments(v, proven) \cup {Absent})
          BY <4>1, <4>2, PutHistory
        <4>. QED BY <3>2, <4>3 DEF HonestInv, TypeInv, TypeOK
      <3>. QED BY <1>3, <3>1, <3>2, LateWrites
    <2>. QED BY <2>1, <2>2, <2>3, <2>4, <2>5 DEF HonestInv
  <1>. QED BY <1>1, <1>2, <1>3, FailoverSteps

\* Every version of the Service is one; the one stored is among them.
LEMMA ServiceEnds ==
    ASSUME TypeInv
    PROVE  /\ Len(service) \in 1 .. Len(service) /\ Stored(service) = service[Len(service)]
           /\ 1 \in 1 .. Len(service) /\ Cached(service) = service[1]
           /\ \A i \in 1 .. Len(service) : service[i] \in ServiceVersions
  <1>1. service \in Seq(ServiceVersions) /\ Len(service) \in Nat \ {0}
    BY HistoryEnds DEF TypeInv, TypeOK, Histories
  <1>. QED BY <1>1 DEF Stored, Cached

\* A step that leaves the versions what they are, and puts into the Service, if anything,
\* the newest generation and a version there is.
LEMMA SameVersions ==
    ASSUME TypeInv, TypeInv', LateType, FailoverOrder,
           \A v \in Versions : /\ Exists(v)' <=> Exists(v)
                               /\ Exists(v) => Stored(deployment'[v]).spec
                                                   = Stored(deployment[v]).spec,
           Stored(service).generation <= Stored(service').generation,
           \A i \in 1 .. Len(service') :
              \/ \E j \in 1 .. Len(service) : service'[i] = service[j]
              \/ /\ service'[i].generation = Stored(service').generation
                 /\ \A v \in Versions : v <= service'[i].latest => Exists(v),
           run'.local \in {run.local, Cached(service), NewService},
           late'.run.local \in {late.run.local, run.local, NewService},
           HasMade(run)', HasMade(late.run)'
    PROVE  FailoverOrder'
  <1>. USE ReadsType
  <1>0. /\ Stored(service').generation \in Nat \ {0} /\ Stored(service).generation \in Nat
        /\ \A v \in Versions : Exists(v) => Stored(deployment[v]).spec \in Nat
        /\ \A v \in Versions : v \in Nat \ {0}
        /\ NewService \in ServiceVersions
        /\ late.run.local \in ServiceVersions
    <2>1. Stored(service') \in ServiceVersions /\ Stored(service) \in ServiceVersions
      BY HistoryEnds DEF TypeInv, TypeOK
    <2>2. \A v \in Versions : Exists(v) => Stored(deployment[v]) \in DeploymentVersions
      BY DEF Exists
    <2>3. NewService \in ServiceVersions
      BY BoundsAssumption DEF NewService, ServiceVersions, Hashes, Reasons
    <2>4. late.run.local \in ServiceVersions
      BY DEF LateType, Runs
    <2>5. /\ Stored(service').generation \in Nat \ {0} /\ Stored(service).generation \in Nat
          /\ \A v \in Versions : Exists(v) => Stored(deployment[v]).spec \in Nat
      BY <2>1, <2>2 DEF ServiceVersions, DeploymentVersions
    <2>6. \A v \in Versions : v \in Nat \ {0}
      BY BoundsAssumption DEF Versions
    <2>. QED BY <2>3, <2>4, <2>5, <2>6
  <1>1. ASSUME NEW c \in ServiceVersions, Backed(c)
        PROVE  /\ c.generation <= Stored(service').generation
               /\ \A v \in Versions : v <= c.latest =>
                     Exists(v)' /\ Stored(deployment'[v]).spec <= c.generation
    <2>1. c.generation \in Nat
      BY DEF ServiceVersions
    <2>. QED BY <1>0, <1>1, <2>1 DEF Backed
  <1>2. Backed(NewService)
    <2>1. NewService.generation = 1 /\ NewService.latest = 0
      BY DEF NewService
    <2>2. Stored(service).generation \in Nat \ {0}
      BY DEF ServiceVersions
    <2>. QED BY <1>0, <2>1, <2>2 DEF Backed
  <1>3. \A v \in Versions : Exists(v)' =>
           Stored(deployment'[v]).spec <= Stored(service').generation
    BY <1>0 DEF FailoverOrder
  <1>4. ASSUME NEW i \in 1 .. Len(service')
        PROVE  Backed(service[i])'
    <2>1. CASE \E j \in 1 .. Len(service) : service'[i] = service[j]
      <3>1. PICK j \in 1 .. Len(service) : service'[i] = service[j]
        BY <2>1
      <3>2. service[j] \in ServiceVersions /\ Backed(service[j])
        BY ServiceEnds DEF FailoverOrder
      <3>. QED BY <1>1, <3>1, <3>2 DEF Backed, Exists
    <2>2. CASE /\ service'[i].generation = Stored(service').generation
               /\ \A v \in Versions : v <= service'[i].latest => Exists(v)
      BY <1>0, <1>3, <2>2 DEF Backed, Exists
    <2>. QED BY <2>1, <2>2
  <1>5. Backed(Cached(service)) /\ Backed(run.local) /\ Backed(late.run.local)
    BY ServiceEnds DEF FailoverOrder
  <1>6. Backed(run.local)'
    BY <1>0, <1>1, <1>2, <1>5 DEF Backed, Exists
  <1>7. Backed(late.run.local)'
    BY <1>0, <1>1, <1>2, <1>5 DEF Backed, Exists
  <1>8. VersionsStayOrdered'
    <2>1. Backed(Stored(service))'
      <3>1. /\ Len(service') \in 1 .. Len(service')
            /\ Stored(service') = service'[Len(service')]
        <4>1. service' \in Histories(ServiceVersions)
          BY DEF TypeInv, TypeOK
        <4>. QED BY <4>1, HistoryEnds DEF Stored
      <3>. QED BY <1>4, <3>1
    <2>. QED BY <2>1 DEF Backed, FailoverOrder, VersionsStayOrdered, Exists
  <1>. QED BY <1>3, <1>4, <1>6, <1>7, <1>8 DEF FailoverOrder, Exists

\* A version that is created is the next one, and has a spec no older than those before.
LEMMA VersionMade ==
    ASSUME TypeInv, FailoverOrder, service' = service,
           NEW l \in ServiceVersions, Backed(l), NextVersion(l) \in Versions,
           ~Exists(NextVersion(l)),
           deployment' = [deployment EXCEPT
               ![NextVersion(l)] = Put(@, [spec |-> l.generation, ready |-> FALSE])]
    PROVE  /\ \A v \in Versions : Exists(v) =>
                 Exists(v)' /\ Stored(deployment'[v]).spec = Stored(deployment[v]).spec
           /\ \A v \in Versions : Exists(v)' =>
                 Stored(deployment'[v]).spec <= Stored(service').generation
           /\ Exists(NextVersion(l))'
           /\ VersionsStayOrdered'
  <1>. USE ReadsType
  <1>. DEFINE n == NextVersion(l)
              d == [spec |-> l.generation, ready |-> FALSE]
  <1>1. d \in DeploymentVersions /\ d.spec = l.generation /\ d # Absent
    <2>1. d \in DeploymentVersions /\ d.spec = l.generation
      BY DEF ServiceVersions, DeploymentVersions
    <2>. QED BY <2>1, AbsentAssumption
  <1>2. deployment \in [Versions -> Histories(DeploymentVersions \cup {Absent})]
    BY DEF TypeInv, TypeOK
  <1>3. n \in Versions /\ deployment' = [deployment EXCEPT ![n] = Put(@, d)]
    OBVIOUS
  <1>. HIDE DEF d
  <1>4. Stored(deployment'[n]) = d /\ \A v \in Versions \ {n} : deployment'[v] = deployment[v]
    BY <1>1, <1>2, <1>3, PutHistory
  <1>5. \A v \in Versions : Exists(v)' <=> Exists(v) \/ v = n
    BY <1>1, <1>4 DEF Exists
  <1>6. \A v \in Versions : v < n => v <= l.latest
    BY BoundsAssumption DEF NextVersion, ServiceVersions, Versions
  <1>7. \A v \in Versions : v < n => Exists(v) /\ Stored(deployment[v]).spec <= l.generation
    BY <1>6 DEF Backed
  <1>8. \A v \in Versions : Exists(v) => v < n
    <2>1. ASSUME NEW v \in Versions, Exists(v), ~(v < n) PROVE FALSE
      <3>1. v = n \/ n < v
        BY <1>3, <2>1, BoundsAssumption DEF Versions
      <3>2. ~Exists(n)
        OBVIOUS
      <3>. QED BY <1>3, <2>1, <3>1, <3>2 DEF FailoverOrder, VersionsStayOrdered
    <2>. QED BY <2>1
  <1>. HIDE DEF n
  <1>9. \A v \in Versions : v <= Stored(service').latest => Exists(v)'
    BY <1>5 DEF FailoverOrder, VersionsStayOrdered
  <1>10. ASSUME NEW v \in Versions, NEW w \in Versions, Exists(w)', v < w
         PROVE  Exists(v)' /\ Stored(deployment'[v]).spec <= Stored(deployment'[w]).spec
    <2>1. CASE w = n
      BY <1>1, <1>4, <1>5, <1>7, <1>10, <2>1, BoundsAssumption DEF Versions
    <2>2. CASE w # n
      <3>1. Exists(w) /\ w < n /\ v < n /\ v # n
        BY <1>3, <1>5, <1>8, <1>10, <2>2, BoundsAssumption DEF Versions
      <3>. QED BY <1>4, <1>5, <1>10, <2>2, <3>1 DEF FailoverOrder, VersionsStayOrdered
    <2>. QED BY <2>1, <2>2
  <1>11. VersionsStayOrdered'
    BY <1>9, <1>10 DEF VersionsStayOrdered, Exists
  <1>12. \A v \in Versions : Exists(v)' =>
            Stored(deployment'[v]).spec <= Stored(service').generation
    BY <1>1, <1>4, <1>5 DEF FailoverOrder, Backed
  <1>13. \A v \in Versions : Exists(v) =>
            Exists(v)' /\ Stored(deployment'[v]).spec = Stored(deployment[v]).spec
    <2>1. ~Exists(n)
      BY DEF n
    <2>. QED BY <1>4, <1>5, <2>1
  <1>. QED BY <1>3, <1>5, <1>11, <1>12, <1>13 DEF n

\* A reconcile that makes a version, of either manager.
LEMMA MoreVersions ==
    ASSUME TypeInv, LateType, FailoverOrder, service' = service,
           NEW l \in ServiceVersions, Backed(l), NextVersion(l) \in Versions,
           deployment' = IF Exists(NextVersion(l)) THEN deployment
                         ELSE [deployment EXCEPT
                                 ![NextVersion(l)] =
                                     Put(@, [spec |-> l.generation, ready |-> FALSE])],
           run'.local = run.local, late'.run.local \in {late.run.local, NewService},
           run' = run \/ run.local = l,
           late' = late \/ late' = NothingLate
    PROVE  FailoverOrder'
  <1>. USE ReadsType
  <1>0. /\ Stored(service).generation \in Nat \ {0}
        /\ \A v \in Versions : v \in Nat \ {0}
        /\ NewService \in ServiceVersions /\ late.run.local \in ServiceVersions
    BY BoundsAssumption DEF ServiceVersions, Versions, NewService, Hashes, Reasons, LateType,
                            Runs
  <1>1. /\ \A v \in Versions : Exists(v) =>
              Exists(v)' /\ Stored(deployment'[v]).spec = Stored(deployment[v]).spec
        /\ \A v \in Versions : Exists(v)' =>
              Stored(deployment'[v]).spec <= Stored(service').generation
        /\ Exists(NextVersion(l))'
        /\ VersionsStayOrdered'
    <2>1. CASE Exists(NextVersion(l))
      BY <2>1 DEF FailoverOrder, VersionsStayOrdered, Exists
    <2>2. CASE ~Exists(NextVersion(l))
      BY <2>2, VersionMade
    <2>. QED BY <2>1, <2>2
  <1>2. ASSUME NEW c \in ServiceVersions, Backed(c)
        PROVE  /\ c.generation <= Stored(service').generation
               /\ \A v \in Versions : v <= c.latest =>
                     Exists(v)' /\ Stored(deployment'[v]).spec <= c.generation
    BY <1>1, <1>2 DEF Backed
  <1>3. Backed(NewService)
    BY <1>0 DEF Backed, NewService
  <1>4. ASSUME NEW i \in 1 .. Len(service') PROVE Backed(service[i])'
    <2>1. service[i] \in ServiceVersions /\ Backed(service[i])
      BY ServiceEnds DEF FailoverOrder
    <2>. QED BY <1>2, <2>1 DEF Backed, Exists
  <1>5. Backed(run.local)' /\ Backed(late.run.local)'
    BY <1>0, <1>2, <1>3 DEF FailoverOrder, Backed, Exists
  <1>6. HasMade(run)'
    <2>1. CASE run' = run
      BY <1>1, <2>1, BoundsAssumption DEF HasMade, FailoverOrder, TypeInv, RunInv, Exists
    <2>2. CASE run.local = l
      BY <1>1, <2>2 DEF HasMade, Exists, NextVersion
    <2>. QED BY <2>1, <2>2
  <1>7. HasMade(late.run)'
    <2>1. CASE late' = late
      BY <1>1, <2>1 DEF HasMade, FailoverOrder, LateType, Exists
    <2>2. CASE late' = NothingLate
      BY <2>2 DEF NothingLate, Idle, HasMade
    <2>. QED BY <2>1, <2>2
  <1>. QED BY <1>1, <1>4, <1>5, <1>6, <1>7 DEF FailoverOrder, Exists

\* A step of a manager in office goes by its copy, or by what the cache shows.
LEMMA RunGoesOn ==
    ASSUME TypeInv, [Next]_vars
    PROVE  /\ run'.local \in {run.local, Cached(service), NewService}
           /\ run'.plan = "version" /\ run'.step \in {"kubeService", "status"} =>
                 \/ CreateDeployment
                 \/ /\ run.plan = "version" /\ run.step \in {"kubeService", "status"}
                    /\ run'.local = run.local
  <1>0. run \in Runs
    BY DEF TypeInv, TypeOK
  <1>1. CASE ReadService \/ GetLabelled \/ LabelService
    BY <1>0, <1>1 DEF ReadService, GetLabelled, LabelService, Idle, Runs
  <1>2. CASE EnsureEnvSecret \/ LookUpLatest
    <2>1. /\ run'.local = run.local
          /\ run'.plan # "version" \/ run'.step \notin {"kubeService", "status"}
      BY <1>0, <1>2 DEF EnsureEnvSecret, LookUpLatest, PlanFor, Runs
    <2>. QED BY <2>1
  <1>3. CASE EnsureAccount \/ CreateDeployment \/ EnsureKubeService
    BY <1>0, <1>3 DEF EnsureAccount, CreateDeployment, EnsureKubeService, Advance, After, Runs
  <1>4. CASE PatchStatus \/ PatchStatusConflict \/ Fail
    BY <1>4 DEF PatchStatus, PatchStatusConflict, Fail, Idle
  <1>5. CASE run' = run
    BY <1>5
  <1>. QED
    BY <1>1, <1>2, <1>3, <1>4, <1>5
    DEF Next, Reconcile, Watch, Others, LabelConflict, DeliverService, DeliverSecret,
        DeliverAccount, DeliverKubeService, DeliverDeployment, Resync, EditSpec, EditEnv,
        ChangeReadiness, vars

\* Only createKudeployDeployment makes a version, and nobody changes the spec of one.
LEMMA DeploymentsGoOn ==
    ASSUME TypeInv, [Next]_vars, ~CreateDeployment, NEW v \in Versions
    PROVE  /\ Exists(v)' <=> Exists(v)
           /\ Exists(v) => Stored(deployment'[v]).spec = Stored(deployment[v]).spec
  <1>. USE ReadsType
  <1>0. /\ deployment \in [Versions -> Histories(DeploymentVersions \cup {Absent})]
        /\ deployment[v] \in Histories(DeploymentVersions \cup {Absent})
    BY DEF TypeInv, TypeOK
  <1>1. CASE deployment'[v] = deployment[v]
    BY <1>1 DEF Exists
  <1>2. CASE DeliverDeployment(v)
    BY <1>0, <1>2, DeliverHistory DEF DeliverDeployment, Exists
  <1>3. CASE ChangeReadiness(v)
    <2>. DEFINE d == WithOtherReadiness(Stored(deployment[v]))
    <2>1. d \in DeploymentVersions /\ d.spec = Stored(deployment[v]).spec
      BY <1>3 DEF ChangeReadiness, WithOtherReadiness, DeploymentVersions
    <2>2. deployment'[v] = Put(deployment[v], d) /\ Exists(v)
      BY <1>0, <1>3 DEF ChangeReadiness, Exists
    <2>. HIDE DEF d
    <2>. QED BY <1>0, <2>1, <2>2, PutHistory, AbsentAssumption DEF Exists
  <1>4. CASE \E w \in Versions \ {v} : DeliverDeployment(w) \/ ChangeReadiness(w)
    BY <1>0, <1>1, <1>4 DEF DeliverDeployment, ChangeReadiness
  <1>5. \/ deployment' = deployment
        \/ \E w \in Versions : DeliverDeployment(w) \/ ChangeReadiness(w)
    BY DEF Next, Reconcile, Watch, Others, ReadService, LabelService, LabelConflict,
           GetLabelled, EnsureEnvSecret, EnsureAccount, EnsureKubeService, LookUpLatest,
           PatchStatus, PatchStatusConflict, Fail, DeliverService, DeliverSecret,
           DeliverAccount, DeliverKubeService, Resync, EditSpec, EditEnv, vars, objects
  <1>. QED BY <1>1, <1>2, <1>3, <1>4, <1>5

\* What a write puts into the Service is of the newest generation, and counts versions
\* that are there.
LEMMA WriteCounts ==
    ASSUME TypeInv, FailoverOrder, NEW s \in ServiceVersions, service' = Put(service, s),
           Stored(service).generation <= s.generation,
           \A v \in Versions : v <= s.latest => Exists(v)
    PROVE  /\ Stored(service).generation <= Stored(service').generation
           /\ \A i \in 1 .. Len(service') :
                 \/ \E j \in 1 .. Len(service) : service'[i] = service[j]
                 \/ /\ service'[i].generation = Stored(service').generation
                    /\ \A v \in Versions : v <= service'[i].latest => Exists(v)
  <1>1. service \in Histories(ServiceVersions)
    BY DEF TypeInv, TypeOK
  <1>2. Stored(service') = s
    BY <1>1, PutHistory
  <1>3. \A i \in 1 .. Len(service') :
           (\E j \in 1 .. Len(service) : service'[i] = service[j]) \/ service'[i] = s
    BY <1>1, PutVersions
  <1>. QED BY <1>2, <1>3

\* A status patch of either manager is such a write.
LEMMA PatchCounts ==
    ASSUME TypeInv, FailoverOrder, NEW r \in Runs, NEW w, WantedFields(r, w), HasMade(r),
           r.step = "status", Backed(r.local),
           service' = Put(service, MergedStatus(r.local, w, Stored(service)))
    PROVE  /\ Stored(service).generation <= Stored(service').generation
           /\ \A i \in 1 .. Len(service') :
                 \/ \E j \in 1 .. Len(service) : service'[i] = service[j]
                 \/ /\ service'[i].generation = Stored(service').generation
                    /\ \A v \in Versions : v <= service'[i].latest => Exists(v)
  <1>1. PICK m : m = MergedStatus(r.local, w, Stored(service))
    OBVIOUS
  <1>2. r.local \in ServiceVersions /\ w \in ServiceVersions /\ Stored(service) \in ServiceVersions
    BY ReadsType DEF WantedFields, Runs
  <1>3. /\ m \in ServiceVersions /\ m.generation = Stored(service).generation
        /\ m.latest = IF w.latest = r.local.latest THEN Stored(service).latest ELSE w.latest
    BY <1>1, <1>2, MergedFields
  <1>4. ASSUME NEW v \in Versions, v <= m.latest PROVE Exists(v)
    <2>1. CASE m.latest = Stored(service).latest
      BY <1>4, <2>1 DEF FailoverOrder, VersionsStayOrdered
    <2>2. CASE m.latest # Stored(service).latest
      <3>1. r.plan = "version" /\ m.latest = NextVersion(r.local)
        BY <1>3, <2>2 DEF WantedFields
      <3>2. Exists(NextVersion(r.local))
        BY <3>1 DEF HasMade
      <3>3. v = NextVersion(r.local) \/ v <= r.local.latest
        BY <1>2, <1>4, <3>1, BoundsAssumption DEF NextVersion, ServiceVersions, Versions
      <3>. QED BY <3>2, <3>3 DEF Backed
    <2>. QED BY <2>1, <2>2
  <1>5. Stored(service).generation <= m.generation
    BY <1>2, <1>3 DEF ServiceVersions
  <1>. QED BY <1>1, <1>3, <1>4, <1>5, WriteCounts

\* The versions of the Service after a step of a manager in office.
LEMMA ServiceGoesOn ==
    ASSUME TypeInv, FailoverOrder, [Next]_vars
    PROVE  /\ Stored(service).generation <= Stored(service').generation
           /\ \A i \in 1 .. Len(service') :
                 \/ \E j \in 1 .. Len(service) : service'[i] = service[j]
                 \/ /\ service'[i].generation = Stored(service').generation
                    /\ \A v \in Versions : v <= service'[i].latest => Exists(v)
  <1>. USE ReadsType
  <1>0. /\ service \in Histories(ServiceVersions) /\ Stored(service) \in ServiceVersions
        /\ Stored(service).generation \in Nat
    BY DEF TypeInv, TypeOK, ServiceVersions
  <1>1. CASE LabelService \/ EditSpec
    <2>. DEFINE Counts(s) == /\ s \in ServiceVersions /\ s.latest = Stored(service).latest
                             /\ Stored(service).generation <= s.generation
    <2>1. Counts([Stored(service) EXCEPT !.managed = TRUE])
      <3>. DEFINE s == [Stored(service) EXCEPT !.managed = TRUE]
      <3>1. /\ s \in ServiceVersions /\ s.latest = Stored(service).latest
            /\ s.generation = Stored(service).generation
        BY <1>0 DEF ServiceVersions
      <3>. QED BY <1>0, <3>1
    <2>2. Counts([Stored(service) EXCEPT !.generation = @ + 1])
      <3>. DEFINE s == [Stored(service) EXCEPT !.generation = @ + 1]
      <3>1. /\ s \in ServiceVersions /\ s.latest = Stored(service).latest
            /\ s.generation = Stored(service).generation + 1
        BY <1>0 DEF ServiceVersions
      <3>. QED BY <1>0, <3>1
    <2>3. PICK s : service' = Put(service, s) /\ Counts(s)
      BY <1>1, <2>1, <2>2 DEF LabelService, EditSpec
    <2>4. \A v \in Versions : v <= s.latest => Exists(v)
      BY <2>3 DEF FailoverOrder, VersionsStayOrdered
    <2>. QED BY <2>3, <2>4, WriteCounts
  <1>2. CASE PatchStatus
    <2>1. run \in Runs /\ HasMade(run) /\ Backed(run.local)
      BY DEF TypeInv, TypeOK, FailoverOrder
    <2>. QED BY <1>2, <2>1, RunWants, PatchCounts DEF PatchStatus
  <1>3. CASE DeliverService
    <2>1. /\ Stored(service') = Stored(service) /\ Len(service') = Len(service) - 1
          /\ \A i \in 1 .. Len(service') : service'[i] = service[i + 1]
          /\ Len(service) \in Nat
      BY <1>0, <1>3, DeliverHistory, HistoryEnds DEF DeliverService
    <2>2. \A i \in 1 .. Len(service') : i + 1 \in 1 .. Len(service)
      BY <2>1
    <2>. QED BY <1>0, <2>1, <2>2
  <1>4. CASE service' = service
    BY <1>0, <1>4
  <1>5. LabelService \/ EditSpec \/ PatchStatus \/ DeliverService \/ service' = service
    BY DEF Next, Reconcile, Watch, Others, ReadService, LabelConflict, GetLabelled,
           EnsureEnvSecret, EnsureAccount, CreateDeployment, EnsureKubeService, LookUpLatest,
           PatchStatusConflict, Fail, DeliverSecret, DeliverAccount, DeliverKubeService,
           DeliverDeployment, Resync, EditEnv, ChangeReadiness, vars, objects
  <1>. QED BY <1>1, <1>2, <1>3, <1>4, <1>5

\* No step of either manager breaks the order of the versions.
LEMMA StepFailoverOrder ==
    TypeInv /\ LateType /\ FailoverOrder /\ [FailoverNext]_failoverVars => FailoverOrder'
  <1>. SUFFICES ASSUME TypeInv, LateType, FailoverOrder, [FailoverNext]_failoverVars
                PROVE  FailoverOrder'
    OBVIOUS
  <1>0. /\ TypeInv' /\ run.local \in ServiceVersions /\ late.run.local \in ServiceVersions
        /\ run \in Runs /\ late.run \in Runs
    BY StepFailoverType, ReadsType DEF LateType, Runs, TypeInv, TypeOK
  <1>1. CASE [Next]_vars /\ late' = late /\ CreateDeployment
    <2>1. /\ service' = service /\ run'.local = run.local
          /\ NextVersion(run.local) \in Versions
          /\ deployment' = IF Exists(NextVersion(run.local)) THEN deployment
                           ELSE [deployment EXCEPT
                                   ![NextVersion(run.local)] =
                                     Put(@, [spec |-> run.local.generation, ready |-> FALSE])]
      BY <1>0, <1>1 DEF CreateDeployment, Advance, Exists, Runs
    <2>2. Backed(run.local)
      BY DEF FailoverOrder
    <2>. QED BY <1>0, <1>1, <2>1, <2>2, MoreVersions
  <1>2. CASE [Next]_vars /\ late' = late /\ ~CreateDeployment
    <2>1. \A v \in Versions : /\ Exists(v)' <=> Exists(v)
                              /\ Exists(v) => Stored(deployment'[v]).spec
                                                  = Stored(deployment[v]).spec
      BY <1>2, DeploymentsGoOn
    <2>2. HasMade(run)'
      <3>1. CASE ~(run'.plan = "version" /\ run'.step \in {"kubeService", "status"})
        BY <3>1 DEF HasMade
      <3>2. CASE run'.plan = "version" /\ run'.step \in {"kubeService", "status"}
        <4>1. /\ run.plan = "version" /\ run.step \in {"kubeService", "status"}
              /\ run'.local = run.local
          BY <1>2, <3>2, RunGoesOn
        <4>2. Exists(NextVersion(run.local)) /\ NextVersion(run.local) \in Versions
          BY <4>1 DEF HasMade, FailoverOrder, TypeInv, RunInv
        <4>. QED BY <2>1, <4>1, <4>2 DEF HasMade, Exists, NextVersion
      <3>. QED BY <3>1, <3>2
    <2>3. HasMade(late.run)'
      BY <1>2, <2>1 DEF HasMade, FailoverOrder, LateType, Exists
    <2>. QED BY <1>0, <1>2, <2>1, <2>2, <2>3, RunGoesOn, ServiceGoesOn, SameVersions
  <1>3. CASE TakeOver
    <2>1. /\ UNCHANGED <<service, deployment>> /\ run' = Idle /\ late'.run = run
      BY <1>3 DEF TakeOver, objects
    <2>2. HasMade(run)' /\ HasMade(late.run)'
      BY <2>1 DEF HasMade, Idle, FailoverOrder, Exists
    <2>3. Stored(service).generation <= Stored(service').generation
      BY <2>1, ReadsType DEF ServiceVersions
    <2>. QED BY <1>0, <2>1, <2>2, <2>3, SameVersions DEF Exists, Idle
  <1>4. CASE LateWrite
    <2>0. /\ run' = run /\ late' = NothingLate /\ late'.run.local = NewService
          /\ HasMade(late.run)'
      BY <1>4, LateWrites DEF NothingLate, Idle, HasMade
    <2>1. CASE deployment' = deployment
      <3>1. HasMade(run)'
        BY <2>0, <2>1 DEF HasMade, FailoverOrder, Exists
      <3>2. CASE service' = service
        <4>1. Stored(service).generation <= Stored(service').generation
          BY <3>2, ReadsType DEF ServiceVersions
        <4>. QED BY <1>0, <2>0, <2>1, <3>1, <3>2, <4>1, SameVersions DEF Exists
      <3>3. ASSUME late.run.step = "status", NEW w \in ServiceVersions,
                   WantedFields(late.run, w),
                   service' = Put(service, MergedStatus(late.run.local, w, Stored(service)))
            PROVE  FailoverOrder'
        <4>1. HasMade(late.run) /\ Backed(late.run.local)
          BY DEF FailoverOrder
        <4>2. /\ Stored(service).generation <= Stored(service').generation
              /\ \A i \in 1 .. Len(service') :
                    \/ \E j \in 1 .. Len(service) : service'[i] = service[j]
                    \/ /\ service'[i].generation = Stored(service').generation
                       /\ \A v \in Versions : v <= service'[i].latest => Exists(v)
          BY <1>0, <3>3, <4>1, PatchCounts
        <4>. QED BY <1>0, <2>0, <2>1, <3>1, <4>2, SameVersions DEF Exists
      <3>. QED BY <1>4, <3>2, <3>3, LateWrites
    <2>2. CASE /\ service' = service
               /\ NextVersion(late.run.local) \in Versions
               /\ Stored(deployment[NextVersion(late.run.local)]) = Absent
               /\ deployment' = [deployment EXCEPT
                     ![NextVersion(late.run.local)] =
                         Put(@, [spec |-> late.run.local.generation, ready |-> FALSE])]
      <3>1. Backed(late.run.local)
        BY DEF FailoverOrder
      <3>. QED BY <1>0, <2>0, <2>2, <3>1, MoreVersions DEF Exists
    <2>. QED BY <1>4, <2>1, <2>2, LateWrites
  <1>. QED BY <1>1, <1>2, <1>3, <1>4, FailoverSteps

\* The order, and the rest, of the Service whose manager is about to be deposed.
LEMMA InitFailoverInv == FailoverInit => FailoverInv
  <1>. SUFFICES ASSUME FailoverInit PROVE FailoverInv
    OBVIOUS
  <1>0. TypeInv /\ LateType /\ HonestInv /\ LateHonest
    BY InitFailover
  <1>. DEFINE s == [managed |-> TRUE, generation |-> 1, observed |-> 1, latest |-> 1,
                    hash |-> Empty, active |-> 1, reason |-> "DeploymentReady"]
  <1>1. /\ service = Fresh(s) /\ run = Idle /\ late = NothingLate
        /\ secret = Fresh([owned |-> TRUE, data |-> Empty]) /\ account = Fresh("present")
        /\ kubeService = Fresh([selector |-> 1, ports |-> 1])
        /\ \A v \in Versions :
              deployment[v] = Fresh(IF v = 1 THEN [spec |-> 1, ready |-> TRUE] ELSE Absent)
    BY DEF FailoverInit
  <1>2. \A x : Stored(Fresh(x)) = x /\ Cached(Fresh(x)) = x /\ Len(Fresh(x)) = 1
               /\ Fresh(x)[1] = x
    BY DEF Stored, Cached, Fresh
  <1>3. /\ Stored(service) = s /\ Stored(account) # Absent
        /\ Stored(secret) = [owned |-> TRUE, data |-> Empty]
        /\ Stored(kubeService) = [selector |-> 1, ports |-> 1]
    BY <1>1, <1>2, AbsentAssumption
  <1>4. 1 \in Versions /\ \A v \in Versions : v \in Nat \ {0}
    BY BoundsAssumption, TakeOverAssumption DEF Versions
  <1>5. /\ \A v \in Versions : Exists(v) <=> v = 1
        /\ Stored(deployment[1]) = [spec |-> 1, ready |-> TRUE]
    <2>1. [spec |-> 1, ready |-> TRUE] \in DeploymentVersions
      BY DEF DeploymentVersions
    <2>. QED BY <1>1, <1>2, <1>4, <2>1, AbsentAssumption DEF Exists
  <1>6. FailoverOrder
    <2>1. Backed(s) /\ Backed(NewService)
      BY <1>3, <1>4, <1>5 DEF Backed, NewService
    <2>2. run.local = NewService /\ late.run.local = NewService /\ HasMade(run)
          /\ HasMade(late.run)
      BY <1>1 DEF NothingLate, Idle, HasMade
    <2>3. \A i \in 1 .. Len(service) : service[i] = s
      BY <1>1, <1>2
    <2>4. VersionsStayOrdered
      BY <1>3, <1>4, <1>5 DEF VersionsStayOrdered
    <2>5. \A v \in Versions : Exists(v) => Stored(deployment[v]).spec <= Stored(service).generation
      BY <1>3, <1>5
    <2>. QED BY <2>1, <2>2, <2>3, <2>4, <2>5 DEF FailoverOrder
  <1>7. StaysAdopted /\ ObservedHasVersion
    BY <1>3 DEF StaysAdopted, ObservedHasVersion, Foreign
  <1>8. Calm
    <2>1. CopyCurrent /\ PlanCurrent /\ KubeServiceDone /\ AccountDone
      BY <1>1 DEF CopyCurrent, PlanCurrent, KubeServiceDone, AccountDone, HasCopy, Serving,
                  Idle
    <2>2. SecretSeen
      <3>1. run.step = "idle"
        BY <1>1 DEF Idle
      <3>2. [owned |-> TRUE, data |-> Empty] \in SecretVersions
        BY ValuesAssumption DEF SecretVersions
      <3>. QED BY <1>3, <3>1, <3>2 DEF SecretSeen
    <2>3. Settled
      <3>1. Stored(kubeService) # Absent
        <4>1. [selector |-> 1, ports |-> 1] \in KubeServiceVersions
          BY <1>4, BoundsAssumption DEF KubeServiceVersions, Versions
        <4>. QED BY <1>3, <4>1, AbsentAssumption
      <3>. QED BY <1>3, <1>4, <1>5, <3>1 DEF Settled
    <2>. QED BY <2>1, <2>2, <2>3 DEF Calm
  <1>. QED BY <1>0, <1>6, <1>7, <1>8 DEF FailoverInv, RestInv

\* A late write is under way to the cache, or changes nothing: what the manager in office
\* knows of the objects, and what a settled Service is, stay.
LEMMA StepFailoverRest ==
    TypeInv /\ LateType /\ FailoverOrder /\ RestInv /\ [FailoverNext]_failoverVars => RestInv'
  <1>. SUFFICES ASSUME TypeInv, LateType, FailoverOrder, RestInv, [FailoverNext]_failoverVars
                PROVE  RestInv'
    OBVIOUS
  <1>. USE ReadsType
  <1>1. CASE [Next]_vars /\ late' = late
    <2>1. LatestExist
      BY DEF FailoverOrder, VersionsStayOrdered, LatestExist
    <2>. QED BY <1>1, <2>1, StepRest
  <1>2. CASE TakeOver
    BY <1>2 DEF TakeOver, objects, RestInv, StaysAdopted, ObservedHasVersion
  <1>3. CASE LateWrite
    <2>0. /\ service \in Histories(ServiceVersions)
          /\ kubeService \in Histories(KubeServiceVersions \cup {Absent})
          /\ deployment \in [Versions -> Histories(DeploymentVersions \cup {Absent})]
      BY DEF TypeInv, TypeOK
    <2>1. UNCHANGED <<secret, account, queued, run>>
      BY <1>3, LateWrites
    <2>2. /\ Cached(service') = Cached(service)
          /\ ~Pending(service') => service' = service
          /\ ObservedHasVersion'
      <3>1. CASE service' = service
        BY <3>1 DEF RestInv, ObservedHasVersion
      <3>2. ASSUME NEW w \in ServiceVersions, WantedFields(late.run, w),
                   service' = Put(service, MergedStatus(late.run.local, w, Stored(service)))
            PROVE  /\ Cached(service') = Cached(service)
                   /\ ~Pending(service') => service' = service
                   /\ ObservedHasVersion'
        <4>1. PICK m : m = MergedStatus(late.run.local, w, Stored(service))
          OBVIOUS
        <4>2. late.run.local \in ServiceVersions
          BY DEF LateType, Runs
        <4>3. /\ m \in ServiceVersions
              /\ \/ m.observed = Stored(service).observed
                 \/ w.observed # late.run.local.observed
              /\ m.latest = IF w.latest = late.run.local.latest THEN Stored(service).latest
                            ELSE w.latest
          BY <4>1, <4>2, MergedFields
        <4>4. m.observed # 0 => m.latest # 0
          <5>1. CASE late.run.plan = "version"
            BY <3>2, <4>2, <4>3, <5>1, BoundsAssumption
            DEF WantedFields, NextVersion, ServiceVersions
          <5>2. CASE late.run.plan # "version"
            BY <3>2, <4>3, <5>2 DEF WantedFields, RestInv, ObservedHasVersion
          <5>. QED BY <5>1, <5>2
        <4>5. Cached(service') = Cached(service) /\ (~Pending(service') => service' = service)
          BY <2>0, <3>2, <4>1, <4>3, WrittenOnly
        <4>. QED BY <2>0, <3>2, <4>1, <4>3, <4>4, <4>5, PutHistory DEF ObservedHasVersion
      <3>. QED BY <1>3, <3>1, <3>2, LateWrites
    <2>3. /\ Cached(kubeService') = Cached(kubeService)
          /\ ~Pending(kubeService') => kubeService' = kubeService
      <3>1. \/ kubeService' = kubeService
            \/ \E k \in KubeServiceVersions \cup {Absent} : kubeService' = Put(kubeService, k)
        BY <1>3, LateWrites
      <3>. QED BY <2>0, <3>1, WrittenOnly
    <2>4. ASSUME NEW v \in Versions
          PROVE  /\ Cached(deployment'[v]) = Cached(deployment[v])
                 /\ ~Pending(deployment'[v]) => deployment'[v] = deployment[v]
      <3>. DEFINE d == [spec |-> late.run.local.generation, ready |-> FALSE]
      <3>1. d \in DeploymentVersions \cup {Absent}
        BY DEF LateType, Runs, ServiceVersions, DeploymentVersions
      <3>2. \/ deployment' = deployment
            \/ deployment' = [deployment EXCEPT ![NextVersion(late.run.local)] = Put(@, d)]
        BY <1>3, LateWrites
      <3>. HIDE DEF d
      <3>3. deployment'[v] = deployment[v] \/ deployment'[v] = Put(deployment[v], d)
        BY <2>0, <3>2
      <3>4. deployment[v] \in Histories(DeploymentVersions \cup {Absent})
        BY <2>0
      <3>. QED BY <3>1, <3>3, <3>4, WrittenOnly
    <2>5. StaysAdopted'
      BY <2>1 DEF RestInv, StaysAdopted
    <2>6. ASSUME ~queued' PROVE Calm'
      <3>1. Calm
        BY <2>1, <2>6 DEF RestInv
      <3>2. LatestFound' = LatestFound
        <4>1. run.local.latest # 0 => run.local.latest \in Versions
          BY BoundsAssumption DEF ServiceVersions, Versions
        <4>. QED BY <2>1, <2>4, <4>1 DEF LatestFound
      <3>3. CopyCurrent' /\ PlanCurrent'
        BY <2>1, <2>2, <3>1, <3>2
        DEF Calm, CopyCurrent, PlanCurrent, HasCopy, NeedsNewVersion
      <3>4. SecretSeen' /\ AccountDone' /\ KubeServiceDone'
        BY <2>1, <2>3, <3>1
        DEF Calm, SecretSeen, AccountDone, KubeServiceDone, Serving, WantedKubeService,
            WantedSelector
      <3>5. Settled'
        <4>. SUFFICES ASSUME run.step = "idle", ~Pending(service'),
                             \A v \in Versions : ~Pending(deployment'[v])
                      PROVE  Settled'
          BY <2>1 DEF Settled
        <4>1. service' = service /\ \A v \in Versions : deployment'[v] = deployment[v]
          BY <2>2, <2>4
        <4>2. ~Pending(service) /\ \A v \in Versions : ~Pending(deployment[v])
          BY <4>1
        <4>. QED BY <2>1, <2>3, <3>1, <4>1, <4>2 DEF Calm, Settled, Exists
      <3>. QED BY <3>3, <3>4, <3>5 DEF Calm
    <2>. QED BY <2>2, <2>5, <2>6 DEF RestInv
  <1>. QED BY <1>1, <1>2, <1>3, FailoverSteps

\* Two managers, the deposed one about to write, keep all of it.
LEMMA FailoverInvariant == FailoverSafety => []FailoverInv
  <1>1. FailoverInv /\ [FailoverNext]_failoverVars => FailoverInv'
    BY StepFailoverType, StepFailoverHonest, StepFailoverOrder, StepFailoverRest
    DEF FailoverInv
  <1>. QED BY <1>1, InitFailoverInv, PTL DEF FailoverSafety

\* The write of a manager that lost its lease may come whenever it will, and the lease
\* fences nothing: versions stay without gaps, none captures an older spec than one
\* before it.
THEOREM FailoverKeepsOrder == FailoverSafety => []VersionsStayOrdered
  <1>1. FailoverInv => VersionsStayOrdered
    BY DEF FailoverInv, FailoverOrder
  <1>. QED BY <1>1, FailoverInvariant, PTL

\* Nor does such a write route traffic to a version that never was ready.
THEOREM FailoverTrafficIsProven == FailoverSafety => []TrafficOnlyToProven
  <1>1. FailoverInv => TrafficOnlyToProven
    BY ReadsHonest
    DEF FailoverInv, TrafficOnlyToProven, HonestServices, HonestKubeServices
  <1>. QED BY <1>1, FailoverInvariant, PTL

\* What it does to the status or to the stable Service, the manager in office repairs
\* before the Service comes to rest.
THEOREM FailoverIsRepaired == FailoverSafety => []RestsRepaired
  <1>1. FailoverInv => RestsRepaired
    BY RestIsConverged DEF FailoverInv, RestsConverged, RestsRepaired
  <1>. QED BY <1>1, FailoverInvariant, PTL
---------------------------------------------------------------------------
(***************************************************************************)
(* Edits of the env                                                        *)
(*                                                                         *)
(* Why an edit that met no work in progress is rolled out: no status the   *)
(* Service reconciler still goes by takes a version with an older env for  *)
(* the one the Secret wants.                                               *)
(***************************************************************************)
\* The data whose hash this is are those of the Secret.
HasData(hash) == Stored(secret) # Absent /\ hash = Stored(secret).data

\* From this status reconcileNewServiceVersion is called.
Needs(status) == status.observed # status.generation \/ ~HasData(status.hash)

\* The env of this version is of before an edit.
Outdated(v) == HasEnv(v) /\ ~HasData(clone[v])

\* A status that is stored, or that somebody still goes by.  If it needs a version then
\* for the newest spec, and the stored one needs it too unless it counts it already; and
\* it counts every outdated version, but as the latest only if it needs another.
GoesBy(status) ==
    /\ Needs(status) => status.generation = Stored(service).generation
    /\ Needs(status) =>
          (Needs(Stored(service)) <=> status.latest = Stored(service).latest)
    /\ HasData(status.hash) => HasData(Stored(service).hash)
    /\ Stored(secret) = Absent => status.hash = NoHash
    /\ \A v \in Versions :
          Outdated(v) => v <= status.latest /\ (~Needs(status) => v # status.latest)

\* Until the cache shows the Secret the controller made, nobody has edited it.
MadeEmpty ==
    Stored(secret) # Absent =>
        \A i \in 1 .. Len(secret) : secret[i] = Absent => Stored(secret).data = Empty

\* A version ahead of the status is there only as long as the status needs one.
NoneAhead ==
    \A v \in Versions : Exists(v) /\ Stored(service).latest < v => Needs(Stored(service))

Releasing ==
    /\ \A i \in 1 .. Len(service) : GoesBy(service[i])
    /\ HasCopy => GoesBy(run.local)
    /\ run.plan = "version" => HasCopy /\ Needs(run.local)
    /\ run.step = "deployment" => run.plan = "version"
    /\ run.step \notin {"idle", "get", "env"} => HasData(run.hash)
    /\ MadeEmpty
    /\ NoneAhead

\* A Deployment the cache shows is there, and so is one that has its env.
StaysThere ==
    \A v \in Versions :
        /\ Stored(deployment[v]) \in {Absent} =>
              \A i \in 1 .. Len(deployment[v]) : deployment[v][i] \in {Absent}
        /\ HasEnv(v) => Exists(v)

\* What makes CalmEditsAreReleased inductive.
ReleaseInv == StaysThere /\ (~disturbed => Releasing)

\* At first there is no hash, no version and no env.
LEMMA InitRelease == SystemInit => ReleaseInv
  <1>. SUFFICES ASSUME SystemInit PROVE ReleaseInv
    OBVIOUS
  <1>1. /\ Len(service) = 1 /\ service[1] = NewService /\ Stored(service) = NewService
        /\ run = Idle
    BY FreshHistory DEF SystemInit, Init
  <1>2. \A v \in Versions : /\ Len(deployment[v]) = 1 /\ deployment[v][1] = Absent
                            /\ ~Exists(v) /\ ~HasEnv(v)
    BY FreshHistory DEF SystemInit, Init, Exists, HasEnv
  <1>3. StaysThere
    BY <1>2 DEF StaysThere
  <1>4. MadeEmpty
    <2>1. PICK s : secret = Fresh(s)
      BY DEF SystemInit, Init
    <2>. QED BY <2>1 DEF MadeEmpty, Stored, Fresh
  <1>5. GoesBy(NewService)
    BY <1>1, <1>2 DEF GoesBy, Outdated, NewService
  <1>6. NoneAhead /\ ~HasCopy /\ run.plan # "version" /\ run.step = "idle"
    BY <1>1, <1>2 DEF NoneAhead, HasCopy, Idle
  <1>7. \A i \in 1 .. Len(service) : GoesBy(service[i])
    BY <1>1, <1>5
  <1>. QED BY <1>3, <1>4, <1>6, <1>7 DEF ReleaseInv, Releasing

\* Every step of the system leaves every version where it is.
LEMMA StepStays ==
    TypeInv /\ EnvInv /\ StaysThere /\ [SystemNext]_systemVars => StaysThere'
  <1>. SUFFICES ASSUME TypeInv, EnvInv, StaysThere, [SystemNext]_systemVars,
                       NEW v \in Versions
                PROVE  /\ Stored(deployment'[v]) \in {Absent} =>
                             \A i \in 1 .. Len(deployment'[v]) :
                                 deployment'[v][i] \in {Absent}
                       /\ HasEnv(v)' => Exists(v)'
    BY DEF StaysThere
  <1>. USE ReadsType
  <1>0. [Next]_vars
    BY SystemSteps
  <1>1. /\ deployment \in [Versions -> Histories(DeploymentVersions \cup {Absent})]
        /\ deployment[v] \in Histories(DeploymentVersions \cup {Absent})
    BY DEF TypeInv, TypeOK
  <1>2. Stored(deployment[v]) \in {Absent} =>
            \A i \in 1 .. Len(deployment[v]) : deployment[v][i] \in {Absent}
    BY DEF StaysThere
  <1>3. \/ deployment'[v] = deployment[v]
        \/ Pending(deployment[v]) /\ deployment'[v] = Deliver(deployment[v])
        \/ \E d \in DeploymentVersions : deployment'[v] = Put(deployment[v], d)
    <2>1. CASE CreateDeployment
      <3>. DEFINE d == [spec |-> run.local.generation, ready |-> FALSE]
      <3>1. d \in DeploymentVersions
        BY DEF ServiceVersions, DeploymentVersions
      <3>2. deployment'[v] = deployment[v] \/ deployment'[v] = Put(deployment[v], d)
        BY <1>1, <2>1 DEF CreateDeployment
      <3>. QED BY <3>1, <3>2
    <2>2. CASE \E w \in Versions : DeliverDeployment(w)
      BY <1>1, <2>2 DEF DeliverDeployment
    <2>3. ASSUME NEW w \in Versions, ChangeReadiness(w)
          PROVE  deployment'[v] = deployment[v]
                 \/ \E d \in DeploymentVersions : deployment'[v] = Put(deployment[v], d)
      <3>. DEFINE d == WithOtherReadiness(Stored(deployment[w]))
      <3>1. d \in DeploymentVersions
        BY <2>3 DEF ChangeReadiness, WithOtherReadiness, DeploymentVersions
      <3>2. deployment'[v] = deployment[v] \/ deployment'[v] = Put(deployment[v], d)
        BY <1>1, <2>3 DEF ChangeReadiness
      <3>. QED BY <3>1, <3>2
    <2>4. \/ CreateDeployment \/ deployment' = deployment
          \/ \E w \in Versions : DeliverDeployment(w) \/ ChangeReadiness(w)
      BY <1>0
      DEF Next, Reconcile, Watch, Others, ReadService, LabelService, LabelConflict,
          GetLabelled, EnsureEnvSecret, EnsureAccount, EnsureKubeService, LookUpLatest,
          PatchStatus, PatchStatusConflict, Fail, DeliverService, DeliverSecret,
          DeliverAccount, DeliverKubeService, Resync, EditSpec, EditEnv, vars, objects
    <2>. QED BY <2>1, <2>2, <2>3, <2>4
  <1>4. Stored(deployment'[v]) \in {Absent} =>
            \A i \in 1 .. Len(deployment'[v]) : deployment'[v][i] \in {Absent}
    <2>1. CASE Pending(deployment[v]) /\ deployment'[v] = Deliver(deployment[v])
      BY <1>1, <1>2, <2>1, NeverBack
    <2>2. ASSUME NEW d \in DeploymentVersions, deployment'[v] = Put(deployment[v], d)
          PROVE  Stored(deployment'[v]) \notin {Absent}
      BY <1>1, <2>2, PutHistory, AbsentAssumption
    <2>. QED BY <1>2, <1>3, <2>1, <2>2
  <1>5. Exists(v) => Exists(v)'
    <2>1. \A d \in DeploymentVersions : Stored(Put(deployment[v], d)) = d
      BY <1>1, PutHistory
    <2>. QED BY <1>1, <1>3, <2>1, DeliverHistory, AbsentAssumption DEF Exists
  <1>6. HasEnv(v)' => Exists(v)'
    <2>1. CASE clone'[v] = clone[v]
      BY <1>5, <2>1 DEF HasEnv, StaysThere
    <2>2. CASE Cached(deployment[v]) # Absent
      <3>1. Cached(deployment[v]) = deployment[v][1] /\ 1 \in 1 .. Len(deployment[v])
        BY <1>1, HistoryEnds DEF Cached, Histories
      <3>. QED BY <1>2, <1>5, <2>2, <3>1 DEF Exists
    <2>3. clone' = clone \/ \E w \in Versions : GiveEnv(w)
      BY DEF SystemNext, ServiceSide, ReportReadiness, ChangeEnv, ChangeSpec, systemVars
    <2>4. ASSUME NEW w \in Versions, GiveEnv(w)
          PROVE  clone'[v] = clone[v] \/ Cached(deployment[v]) # Absent
      BY <2>4 DEF GiveEnv, EnvInv
    <2>. QED BY <2>1, <2>2, <2>3, <2>4
  <1>. QED BY <1>4, <1>6

\* Whoever changes neither the status nor the Secret, and goes by no other status than
\* before, changes nothing here.
LEMMA SameRelease ==
    ASSUME Releasing,
           Stored(service') = Stored(service), Stored(secret') = Stored(secret),
           \A v \in Versions : (Exists(v)' => Exists(v)) /\ (Outdated(v)' => Outdated(v)),
           \A i \in 1 .. Len(service') :
               \E j \in 1 .. Len(service) : service'[i] = service[j],
           HasCopy' => \/ HasCopy /\ run'.local = run.local
                       \/ \E j \in 1 .. Len(service) : run'.local = service[j],
           run'.plan = "version" => run.plan = "version" /\ HasCopy' /\ run'.local = run.local,
           run'.step = "deployment" => run'.plan = "version",
           run'.step \notin {"idle", "get", "env"} =>
               run.step \notin {"idle", "get", "env"} /\ run'.hash = run.hash,
           MadeEmpty'
    PROVE  Releasing'
  <1>1. \A h : HasData(h)' <=> HasData(h)
    BY DEF HasData
  <1>2. \A c : Needs(c)' <=> Needs(c)
    BY <1>1 DEF Needs
  <1>3. Needs(Stored(service))' <=> Needs(Stored(service))
    BY DEF Needs, HasData
  <1>4. \A c : GoesBy(c) => GoesBy(c)'
    BY <1>1, <1>2, <1>3 DEF GoesBy, HasData
  <1>5. ASSUME NEW i \in 1 .. Len(service'), NEW c, c = service'[i]
        PROVE  GoesBy(c)'
    BY <1>4, <1>5 DEF Releasing
  <1>6. ASSUME HasCopy', NEW c, c = run'.local PROVE GoesBy(c)'
    BY <1>4, <1>6 DEF Releasing
  <1>7. (run.plan = "version")' => HasCopy' /\ Needs(run.local)'
    <2>. SUFFICES ASSUME run'.plan = "version", NEW c, c = run.local PROVE Needs(c)'
      BY DEF Needs, HasData
    <2>. QED BY <1>2 DEF Releasing
  <1>8. (run.step \notin {"idle", "get", "env"})' => HasData(run.hash)'
    BY DEF Releasing, HasData
  <1>9. NoneAhead'
    BY <1>3 DEF Releasing, NoneAhead
  <1>10. (\A i \in 1 .. Len(service) : GoesBy(service[i]))'
    BY <1>5 DEF GoesBy, Needs, HasData, Outdated, HasEnv
  <1>11. HasCopy' => GoesBy(run.local)'
    BY <1>6 DEF GoesBy, Needs, HasData, Outdated, HasEnv
  <1>. QED BY <1>7, <1>8, <1>9, <1>10, <1>11 DEF Releasing

\* A write of the status, if what it counts is as true of it as of the status stored.
LEMMA WriteRelease ==
    ASSUME TypeInv, Releasing, NEW s \in ServiceVersions,
           service' = Put(service, s), secret' = secret, deployment' = deployment,
           clone' = clone, run'.step \in {"idle", "get"}, run'.plan = "none",
           s.generation = Stored(service).generation,
           \A i \in 1 .. Len(service) :
               Needs(service[i]) => (Needs(s) <=> service[i].latest = s.latest),
           HasData(Stored(service).hash) => HasData(s.hash),
           Stored(secret) = Absent => s.hash = NoHash,
           \A v \in Versions : Outdated(v) => v <= s.latest /\ (~Needs(s) => v # s.latest),
           \A v \in Versions : Exists(v) /\ s.latest < v => Needs(s)
    PROVE  Releasing'
  <1>1. service \in Histories(ServiceVersions) /\ Stored(service') = s
    BY PutHistory DEF TypeInv, TypeOK
  <1>2. \A h : HasData(h)' <=> HasData(h)
    BY DEF HasData
  <1>3. \A c : Needs(c)' <=> Needs(c)
    BY <1>2 DEF Needs
  <1>4. \A v \in Versions : (Outdated(v)' <=> Outdated(v)) /\ (Exists(v)' <=> Exists(v))
    BY DEF Outdated, HasEnv, HasData, Exists
  <1>5. Needs(Stored(service))' <=> Needs(s)
    BY <1>1 DEF Needs, HasData
  <1>6. HasData(Stored(service).hash)' <=> HasData(s.hash)
    BY <1>1 DEF HasData
  <1>7. ASSUME NEW i \in 1 .. Len(service), NEW c, c = service[i] PROVE GoesBy(c)'
    <2>1. GoesBy(c) /\ (Needs(c) => (Needs(s) <=> c.latest = s.latest))
      BY <1>7 DEF Releasing
    <2>. QED BY <1>1, <1>2, <1>3, <1>4, <1>5, <1>6, <2>1 DEF GoesBy
  <1>8. GoesBy(s)'
    BY <1>1, <1>2, <1>3, <1>4, <1>5, <1>6 DEF GoesBy
  <1>9. ASSUME NEW i \in 1 .. Len(service'), NEW c, c = service'[i] PROVE GoesBy(c)'
    <2>1. \/ i \in 1 .. Len(service) /\ c = service[i]
          \/ c = s
      BY <1>1, <1>9, PutVersions
    <2>. QED BY <1>7, <1>8, <2>1
  <1>10. (\A i \in 1 .. Len(service) : GoesBy(service[i]))'
    BY <1>9 DEF GoesBy, Needs, HasData, Outdated, HasEnv
  <1>11. NoneAhead'
    BY <1>1, <1>4, <1>5 DEF NoneAhead
  <1>12. ~HasCopy' /\ MadeEmpty'
    BY DEF HasCopy, Releasing, MadeEmpty
  <1>. QED BY <1>10, <1>11, <1>12 DEF Releasing

\* patchServiceStatus: after a new version the status needs none, and it counts one more
\* than any that is outdated; otherwise it says of versions and hash what it said.
LEMMA PatchRelease ==
    ASSUME TypeInv, OrderInv, Releasing, PatchStatus, clone' = clone
    PROVE  Releasing'
  <1>. DEFINE l == run.local
              old == Stored(service)
              s == MergedStatus(l, WantedStatus(l), old)
  <1>1. /\ run.step = "status" /\ service' = Put(service, s) /\ run' = Idle
        /\ secret' = secret /\ deployment' = deployment
    BY DEF PatchStatus
  <1>2. l \in ServiceVersions /\ old \in ServiceVersions /\ s \in ServiceVersions
    BY <1>1, ReadsType, StatusType
  <1>3. HasCopy /\ run.plan \in Plans \ {"none"} /\ HasData(run.hash) /\ GoesBy(l)
    BY <1>1, ReadsType DEF HasCopy, TypeInv, RunInv, Releasing
  <1>4. /\ s.generation = old.generation
        /\ s.observed = Merged(l.observed, WantedStatus(l).observed, old.observed)
        /\ s.latest = Merged(l.latest, WantedStatus(l).latest, old.latest)
        /\ s.hash = Merged(l.hash, WantedStatus(l).hash, old.hash)
    BY <1>2 DEF MergedStatus, ServiceVersions
  <1>5. ASSUME NEW i \in 1 .. Len(service)
        PROVE  GoesBy(service[i]) /\ service[i].latest <= old.latest
               /\ service[i] \in ServiceVersions
    <2>1. service \in Histories(ServiceVersions) /\ Len(service) \in Nat \ {0}
      BY HistoryEnds DEF TypeInv, TypeOK
    <2>2. service[i] \in ServiceVersions /\ Len(service) \in 1 .. Len(service)
          /\ i <= Len(service)
      BY <2>1 DEF Histories
    <2>3. service[i].latest <= old.latest
      BY <2>2 DEF OrderInv, Ascends, Follows, Stored
    <2>. QED BY <2>2, <2>3 DEF Releasing
  <1>6. Stored(secret) # Absent
    BY <1>3 DEF HasData
  <1>7. CASE run.plan = "version"
    <2>1. /\ WantedStatus(l).observed = l.generation
          /\ WantedStatus(l).latest = l.latest + 1
          /\ WantedStatus(l).hash = run.hash
      BY <1>2, <1>7 DEF WantedStatus, NextVersion, ServiceVersions
    <2>2. Needs(l)
      BY <1>7 DEF Releasing
    <2>3. s.latest = l.latest + 1
      BY <1>2, <1>4, <2>1, BoundsAssumption DEF Merged, ServiceVersions
    <2>4. HasData(s.hash)
      BY <1>3, <1>4, <2>1 DEF Merged, GoesBy
    <2>5. /\ old.observed <= l.generation /\ old.latest <= l.latest + 1
          /\ l.latest <= old.latest /\ l.observed <= old.observed
          /\ \A v \in Versions : Exists(v) => v <= l.latest + 1
      <3>1. Follows(l, Cached(service)) /\ Follows(Cached(service), old)
        BY <1>3, StoredFollowsCached DEF OrderInv, TypeInv, TypeOK
      <3>2. Follows(l, old)
        BY <1>2, <3>1, ReadsType, FollowsIsTransitive
      <3>. QED
        BY <1>3, <3>2
        DEF OrderInv, AtMostOneWriteAhead, WithinReach, NextVersion, Follows
    <2>6. l.generation = s.generation
      BY <1>3, <1>4, <2>2 DEF GoesBy
    <2>7. s.observed = s.generation
      BY <1>2, <1>4, <2>1, <2>5, <2>6 DEF Merged, ServiceVersions
    <2>8. ~Needs(s)
      BY <2>4, <2>7 DEF Needs
    <2>9. ASSUME NEW i \in 1 .. Len(service), Needs(service[i])
          PROVE  service[i].latest # s.latest
      <3>. SUFFICES ASSUME service[i].latest = s.latest PROVE FALSE
        OBVIOUS
      <3>1. old.latest = s.latest
        <4>1. l.latest \in Nat /\ old.latest \in Nat
          BY <1>2, BoundsAssumption DEF ServiceVersions
        <4>2. l.latest + 1 <= old.latest
          BY <1>5, <2>3
        <4>. QED BY <2>3, <2>5, <4>1, <4>2
      <3>2. ~Needs(old)
        BY <1>2, <1>3, <2>2, <2>3, <3>1, BoundsAssumption DEF GoesBy, ServiceVersions
      <3>. QED BY <1>5, <2>9, <3>1, <3>2 DEF GoesBy
    <2>10. ASSUME NEW v \in Versions, Outdated(v) PROVE v <= s.latest /\ v # s.latest
      BY <1>2, <1>3, <2>3, <2>10, BoundsAssumption DEF GoesBy, ServiceVersions, Versions
    <2>11. \A v \in Versions : Exists(v) => ~(s.latest < v)
      BY <1>2, <2>3, <2>5, BoundsAssumption DEF ServiceVersions, Versions
    <2>. HIDE DEF s
    <2>. QED
      BY <1>1, <1>2, <1>4, <1>6, <2>4, <2>8, <2>9, <2>10, <2>11, WriteRelease DEF Idle
  <1>8. CASE run.plan # "version"
    <2>1. /\ WantedStatus(l).observed = l.observed /\ WantedStatus(l).latest = l.latest
          /\ WantedStatus(l).hash = l.hash
      BY <1>2, <1>3, <1>8 DEF WantedStatus, Plans, ServiceVersions
    <2>2. s.observed = old.observed /\ s.latest = old.latest /\ s.hash = old.hash
      BY <1>4, <2>1 DEF Merged
    <2>3. Needs(s) <=> Needs(old)
      BY <1>4, <2>2 DEF Needs
    <2>4. GoesBy(old)
      <3>1. Len(service) \in 1 .. Len(service) /\ old = service[Len(service)]
        BY HistoryEnds DEF TypeInv, TypeOK, Stored
      <3>. QED BY <1>5, <3>1
    <2>5. \A v \in Versions : Exists(v) /\ old.latest < v => Needs(old)
      BY DEF Releasing, NoneAhead
    <2>6. \A i \in 1 .. Len(service) :
              Needs(service[i]) => (Needs(old) <=> service[i].latest = old.latest)
      BY <1>5 DEF GoesBy
    <2>7. \A v \in Versions :
              Outdated(v) => v <= old.latest /\ (~Needs(old) => v # old.latest)
      BY <2>4 DEF GoesBy
    <2>. HIDE DEF s
    <2>. QED
      BY <1>1, <1>2, <1>4, <1>6, <2>2, <2>3, <2>5, <2>6, <2>7, WriteRelease DEF Idle
  <1>. QED BY <1>7, <1>8

\* createOrUpdateServiceEnvSecret makes the Secret empty, and changes the data of none; the
\* hash is of its data, whether the cache shows it or not.
LEMMA SecretRelease ==
    ASSUME TypeInv, StaysAdopted, Releasing, EnsureEnvSecret, clone' = clone
    PROVE  Releasing'
  <1>. DEFINE a == AdoptedSecret
  <1>1. /\ run.step = "env" /\ HasCopy /\ service' = service /\ deployment' = deployment
        /\ run'.local = run.local /\ HasCopy' /\ run'.hash = ReturnedData
        /\ run'.step \in {"account", "lookup"}
        /\ run'.plan = "version" =>
              run.plan = "version" \/ NeedsNewVersion(run.local, ReturnedData)
    BY DEF EnsureEnvSecret, HasCopy, TypeInv, TypeOK, Runs
  <1>2. a \in SecretVersions
    BY AdoptedIsOwned
  <1>3. secret' = Put(secret, a) /\ Stored(secret') = a /\ a # Absent
    BY <1>2, PutHistory, AbsentAssumption DEF EnsureEnvSecret, TypeInv, TypeOK
  <1>4. a.data = IF Stored(secret) = Absent THEN Empty ELSE Stored(secret).data
    BY ReadsType DEF AdoptedSecret, SecretVersions
  <1>5. ReturnedData = a.data
    <2>1. Cached(secret) = secret[1] /\ 1 \in 1 .. Len(secret)
      BY HistoryEnds DEF TypeInv, TypeOK, Cached, Histories
    <2>2. Cached(secret) = Absent /\ Stored(secret) # Absent => Stored(secret).data = Empty
      BY <2>1 DEF Releasing, MadeEmpty
    <2>. QED BY <1>4, <2>2 DEF ReturnedData
  <1>. HIDE DEF a
  <1>6. \A h : HasData(h)' <=> h = a.data
    BY <1>3 DEF HasData
  <1>7. \A h : \/ HasData(h)' <=> HasData(h)
               \/ Stored(secret) = Absent /\ a.data = Empty /\ ~HasData(h)
    BY <1>4, <1>6 DEF HasData
  <1>8. ASSUME NEW c, GoesBy(c) PROVE HasData(c.hash)' <=> HasData(c.hash)
    <2>1. NoHash # Empty
      BY ValuesAssumption
    <2>. QED BY <1>6, <1>7, <1>8, <2>1 DEF GoesBy
  <1>9. ASSUME NEW c, GoesBy(c) PROVE Needs(c)' <=> Needs(c)
    BY <1>8, <1>9 DEF Needs
  <1>10. GoesBy(Stored(service))
    <2>1. Len(service) \in 1 .. Len(service) /\ Stored(service) = service[Len(service)]
      BY HistoryEnds DEF TypeInv, TypeOK, Stored
    <2>. QED BY <2>1 DEF Releasing
  <1>11. PICK old : old = Stored(service)
    OBVIOUS
  <1>12. Stored(service') = old /\ GoesBy(old)
    BY <1>1, <1>10, <1>11
  <1>13. (Needs(old)' <=> Needs(old)) /\ (HasData(old.hash)' <=> HasData(old.hash))
    BY <1>8, <1>9, <1>12
  <1>14. (Needs(Stored(service))' <=> Needs(old)')
         /\ (HasData(Stored(service).hash)' <=> HasData(old.hash)')
    BY <1>12 DEF Needs, HasData
  <1>15. \A v \in Versions : Outdated(v)' => Outdated(v)
    <2>. SUFFICES ASSUME NEW v \in Versions, Outdated(v)' PROVE Outdated(v)
      OBVIOUS
    <2>1. clone[v] # Absent /\ ~HasData(clone[v])'
      BY DEF Outdated, HasEnv, HasData
    <2>. QED BY <1>7, <2>1 DEF Outdated, HasEnv, HasData
  <1>16. ASSUME NEW c, GoesBy(c) PROVE GoesBy(c)'
    BY <1>3, <1>8, <1>9, <1>11, <1>12, <1>13, <1>14, <1>15, <1>16 DEF GoesBy
  <1>17. (\A i \in 1 .. Len(service) : GoesBy(service[i]))'
    <2>1. ASSUME NEW i \in 1 .. Len(service), NEW c, c = service[i] PROVE GoesBy(c)'
      BY <1>16, <2>1 DEF Releasing
    <2>. QED BY <1>1, <2>1 DEF GoesBy, Needs, HasData, Outdated, HasEnv
  <1>18. PICK l : l = run.local
    OBVIOUS
  <1>19. GoesBy(l)' /\ (run'.plan = "version" => Needs(l)')
    <2>1. GoesBy(l)
      BY <1>1, <1>18 DEF Releasing
    <2>2. CASE run.plan = "version"
      BY <1>9, <1>16, <1>18, <2>1, <2>2 DEF Releasing
    <2>3. CASE NeedsNewVersion(run.local, ReturnedData)
      BY <1>5, <1>6, <1>16, <1>18, <2>1, <2>3 DEF NeedsNewVersion, Needs
    <2>. QED BY <1>1, <1>16, <2>1, <2>2, <2>3
  <1>20. GoesBy(run.local)' /\ ((run.plan = "version")' => HasCopy' /\ Needs(run.local)')
    BY <1>1, <1>18, <1>19 DEF GoesBy, Needs, HasData, Outdated, HasEnv
  <1>21. HasData(run.hash)'
    BY <1>1, <1>3, <1>5 DEF HasData
  <1>22. MadeEmpty'
    <2>. SUFFICES ASSUME NEW i \in 1 .. Len(secret'), secret'[i] = Absent
                  PROVE  a.data = Empty
      BY <1>3 DEF MadeEmpty
    <2>1. \/ i \in 1 .. Len(secret) /\ secret'[i] = secret[i]
          \/ secret'[i] = a
      BY <1>2, <1>3, PutVersions DEF TypeInv, TypeOK
    <2>. QED BY <1>3, <1>4, <2>1 DEF Releasing, MadeEmpty
  <1>23. NoneAhead'
    BY <1>1, <1>11, <1>12, <1>13, <1>14 DEF Releasing, NoneAhead, Exists
  <1>. QED BY <1>1, <1>17, <1>20, <1>21, <1>22, <1>23 DEF Releasing

\* createKudeployDeployment makes a version only where the status needs one.
LEMMA CreateRelease ==
    ASSUME TypeInv, OrderInv, Releasing, CreateDeployment, clone' = clone
    PROVE  Releasing'
  <1>. DEFINE l == run.local
              old == Stored(service)
              new == [spec |-> l.generation, ready |-> FALSE]
  <1>1. /\ run.step = "deployment" /\ run.plan = "version" /\ HasCopy
        /\ NextVersion(l) \in Versions /\ service' = service /\ secret' = secret
        /\ run'.local = l /\ run'.plan = run.plan /\ run'.hash = run.hash
        /\ run'.step = "kubeService" /\ HasCopy'
    BY DEF CreateDeployment, HasCopy, Advance, After, Releasing, TypeInv, TypeOK, Runs
  <1>2. l \in ServiceVersions /\ old \in ServiceVersions
    BY ReadsType
  <1>3. ASSUME NEW v \in Versions, Exists(v)', v # l.latest + 1 PROVE Exists(v)
    BY <1>3 DEF CreateDeployment, Exists, NextVersion, TypeInv, TypeOK
  <1>4. old.latest < l.latest + 1 => Needs(old)
    <2>1. Follows(l, Cached(service)) /\ Follows(Cached(service), old)
      BY <1>1, StoredFollowsCached DEF OrderInv, TypeInv, TypeOK
    <2>2. l.latest <= old.latest
      BY <1>2, <2>1, ReadsType, FollowsIsTransitive DEF Follows
    <2>3. l.latest \in Nat /\ old.latest \in Nat
      BY <1>2, BoundsAssumption DEF ServiceVersions
    <2>4. GoesBy(l) /\ Needs(l)
      BY <1>1 DEF Releasing
    <2>. QED BY <2>2, <2>3, <2>4 DEF GoesBy
  <1>5. \A v \in Versions : Exists(v)' /\ old.latest < v => Needs(old)
    BY <1>3, <1>4 DEF Releasing, NoneAhead
  <1>6. /\ \A h : HasData(h)' <=> HasData(h)
        /\ \A c : Needs(c)' <=> Needs(c)
        /\ Needs(Stored(service))' <=> Needs(old)
    BY <1>1 DEF HasData, Needs
  <1>7. \A c : GoesBy(c) => GoesBy(c)'
    BY <1>1, <1>6 DEF GoesBy, Outdated, HasEnv, HasData
  <1>8. (\A i \in 1 .. Len(service) : GoesBy(service[i]))'
    BY <1>1, <1>7 DEF Releasing, GoesBy, Needs, HasData, Outdated, HasEnv
  <1>9. GoesBy(run.local)' /\ Needs(run.local)' /\ HasData(run.hash)'
    BY <1>1, <1>7 DEF Releasing, GoesBy, Needs, HasData, Outdated, HasEnv
  <1>10. NoneAhead' /\ MadeEmpty'
    BY <1>1, <1>5, <1>6 DEF NoneAhead, MadeEmpty, Releasing
  <1>. QED BY <1>1, <1>8, <1>9, <1>10 DEF Releasing

\* At rest the Service needs no version, and counts every version that has its env.
LEMMA RestNeedsNothing ==
    ASSUME TypeInv, RestInv, StaysThere, Releasing, AllAtRest
    PROVE  /\ Len(service) = 1 /\ service[1] = Stored(service)
           /\ Len(secret) = 1 /\ secret[1] = Stored(secret) /\ Stored(secret) # Absent
           /\ ~Needs(Stored(service)) /\ GoesBy(Stored(service)) /\ run.step = "idle"
           /\ Stored(service).latest \in Versions /\ HasEnv(Stored(service).latest)
           /\ \A v \in Versions : HasEnv(v) => v <= Stored(service).latest
  <1>1. Quiescent /\ Converged
    BY RestIsConverged DEF RestsConverged, AllAtRest
  <1>2. /\ service \in Histories(ServiceVersions) /\ ~Pending(service)
        /\ secret \in Histories(SecretVersions \cup {Absent}) /\ ~Pending(secret)
    BY <1>1 DEF TypeInv, TypeOK, Quiescent
  <1>3. /\ Len(service) = 1 /\ service[1] = Stored(service)
        /\ Len(secret) = 1 /\ secret[1] = Stored(secret)
    BY <1>2, CurrentCache DEF Stored
  <1>4. GoesBy(Stored(service)) /\ ~Needs(Stored(service)) /\ Stored(secret) # Absent
    BY <1>1, <1>3 DEF Releasing, Converged, Needs, HasData
  <1>5. Stored(service).latest \in Versions /\ HasEnv(Stored(service).latest)
    BY <1>1 DEF Converged, AllAtRest
  <1>6. ASSUME NEW v \in Versions, HasEnv(v) PROVE v <= Stored(service).latest
    BY <1>4, <1>5, <1>6, BoundsAssumption DEF StaysThere, Releasing, NoneAhead, Versions
  <1>. QED BY <1>1, <1>3, <1>4, <1>5, <1>6 DEF Quiescent

\* An edit of the env at rest: the Service needs a version, newer than any there is.
LEMMA EnvEditRelease ==
    ASSUME TypeInv, RestInv, StaysThere, Releasing, AllAtRest,
           NEW data \in EnvData, EditEnv(data), clone' = clone
    PROVE  Releasing'
  <1>. DEFINE x == [Stored(secret) EXCEPT !.data = data]
              s == Stored(service)
  <1>1. /\ Stored(secret) \in SecretVersions /\ data # Stored(secret).data
        /\ secret' = Put(secret, x) /\ service' = service /\ run' = run
        /\ deployment' = deployment
    BY ReadsType DEF EditEnv
  <1>2. x \in SecretVersions /\ x.data = data
    BY <1>1 DEF SecretVersions
  <1>. HIDE DEF x
  <1>3. Stored(secret') = x /\ x # Absent
    BY <1>1, <1>2, PutHistory, AbsentAssumption DEF TypeInv, TypeOK
  <1>4. \A h : HasData(h)' <=> h = data
    BY <1>2, <1>3 DEF HasData
  <1>5. /\ Len(service) = 1 /\ service[1] = s /\ run.step = "idle"
        /\ s.hash = Stored(secret).data
        /\ \A v \in Versions : HasEnv(v) => v <= s.latest
    BY RestNeedsNothing DEF Needs, HasData
  <1>6. ~HasData(s.hash)'
    BY <1>1, <1>4, <1>5
  <1>7. /\ Needs(Stored(service))' /\ GoesBy(Stored(service))'
    <2>1. Needs(Stored(service))' /\ ~HasData(Stored(service).hash)'
      BY <1>1, <1>6 DEF Needs, HasData
    <2>2. \A v \in Versions : Outdated(v)' => HasEnv(v)
      BY DEF Outdated, HasEnv
    <2>. QED BY <1>1, <1>3, <1>5, <2>1, <2>2 DEF GoesBy
  <1>8. (\A i \in 1 .. Len(service) : GoesBy(service[i]))'
    <2>1. \A i \in 1 .. Len(service') : service'[i] = Stored(service')
      BY <1>1, <1>5
    <2>. QED BY <1>7, <2>1 DEF GoesBy, Needs, HasData, Outdated, HasEnv
  <1>9. MadeEmpty'
    <2>. SUFFICES ASSUME NEW i \in 1 .. Len(secret') PROVE secret'[i] # Absent
      BY DEF MadeEmpty
    <2>1. \/ i \in 1 .. Len(secret) /\ secret'[i] = secret[i]
          \/ secret'[i] = x
      BY <1>1, <1>2, PutVersions DEF TypeInv, TypeOK
    <2>2. Len(secret) = 1 /\ secret[1] # Absent
      BY RestNeedsNothing
    <2>. QED BY <1>3, <2>1, <2>2
  <1>10. NoneAhead'
    BY <1>7 DEF NoneAhead
  <1>11. run.plan # "version" /\ ~HasCopy
    BY <1>5 DEF Releasing, HasCopy
  <1>. QED BY <1>1, <1>5, <1>8, <1>9, <1>10, <1>11 DEF Releasing, HasCopy

\* An edit of the spec at rest: only from now on does the status need a version.
LEMMA SpecEditRelease ==
    ASSUME TypeInv, RestInv, StaysThere, Releasing, AllAtRest, EditSpec, clone' = clone
    PROVE  Releasing'
  <1>. DEFINE old == Stored(service)
              s == [old EXCEPT !.generation = @ + 1]
  <1>1. /\ service' = Put(service, s) /\ secret' = secret /\ run' = run
        /\ deployment' = deployment
    BY DEF EditSpec
  <1>2. old \in ServiceVersions
    BY ReadsType
  <1>3. /\ s \in ServiceVersions /\ s.observed = old.observed /\ s.hash = old.hash
        /\ s.latest = old.latest /\ s.generation = old.generation + 1
        /\ old.generation \in Nat
    BY <1>2, BoundsAssumption DEF ServiceVersions
  <1>. HIDE DEF s
  <1>4. Stored(service') = s
    BY <1>1, <1>3, PutHistory DEF TypeInv, TypeOK
  <1>5. /\ Len(service) = 1 /\ service[1] = old /\ run.step = "idle"
        /\ ~Needs(old) /\ HasData(old.hash) /\ Stored(secret) # Absent
        /\ \A v \in Versions : Outdated(v) => v <= old.latest /\ v # old.latest
    BY RestNeedsNothing DEF Needs, HasData, GoesBy
  <1>6. Needs(s)
    BY <1>3, <1>5 DEF Needs
  <1>7. /\ \A h : HasData(h)' <=> HasData(h)
        /\ \A c : Needs(c)' <=> Needs(c)
        /\ \A v \in Versions : Outdated(v)' <=> Outdated(v)
    BY <1>1 DEF HasData, Needs, Outdated, HasEnv
  <1>8. Needs(Stored(service))' /\ HasData(Stored(service).hash)'
    BY <1>3, <1>4, <1>5, <1>6, <1>7 DEF Needs, HasData
  <1>9. ASSUME NEW i \in 1 .. Len(service'), NEW c, c = service'[i] PROVE GoesBy(c)'
    <2>1. c = old \/ c = s
      <3>1. \/ i \in 1 .. Len(service) /\ c = service[i]
            \/ c = s
        BY <1>1, <1>3, <1>9, PutVersions DEF TypeInv, TypeOK
      <3>. QED BY <1>5, <3>1
    <2>. QED BY <1>1, <1>3, <1>4, <1>5, <1>6, <1>7, <1>8, <2>1 DEF GoesBy
  <1>10. (\A i \in 1 .. Len(service) : GoesBy(service[i]))'
    BY <1>9 DEF GoesBy, Needs, HasData, Outdated, HasEnv
  <1>11. NoneAhead' /\ MadeEmpty'
    BY <1>1, <1>8 DEF NoneAhead, MadeEmpty, Releasing
  <1>12. run.plan # "version" /\ ~HasCopy
    BY <1>5 DEF Releasing, HasCopy
  <1>. QED BY <1>1, <1>5, <1>10, <1>11, <1>12 DEF Releasing, HasCopy

\* What the Deployment reconciler does here: a copy of the current Secret outdates no
\* version, and readiness concerns none.
LEMMA DeploymentSideRelease ==
    ASSUME TypeInv, EnvInv, Releasing, NEW v \in Versions,
           \/ GiveEnv(v) /\ ~disturbed'
           \/ ReportReadiness(v)
    PROVE  Releasing'
  <1>1. service' = service /\ secret' = secret /\ run' = run
    BY DEF GiveEnv, ReportReadiness, ChangeReadiness, vars, objects
  <1>2. \A w \in Versions : Exists(w)' <=> Exists(w)
    <2>1. CASE GiveEnv(v)
      BY <2>1 DEF GiveEnv, vars, objects, Exists
    <2>2. CASE ReportReadiness(v)
      <3>1. [Next]_vars /\ ~CreateDeployment
        BY <2>2 DEF ReportReadiness, ChangeReadiness, CreateDeployment, Next, Others, Advance,
                    After, TypeInv, TypeOK, Runs
      <3>. QED BY <3>1, DeploymentsGoOn
    <2>. QED BY <2>1, <2>2
  <1>3. \A w \in Versions : Outdated(w)' => Outdated(w)
    <2>1. CASE GiveEnv(v) /\ ~disturbed'
      <3>1. /\ clone' = [clone EXCEPT ![v] = Env(v)!Copy]
            /\ Env(v)!Copy # Absent /\ Env(v)!Copy = Stored(SecretData)
        BY <2>1 DEF GiveEnv, Env!Clonable, Env!Copy
      <3>2. Stored(SecretData) = IF Stored(secret) = Absent THEN Absent
                                 ELSE Stored(secret).data
        <4>1. /\ secret \in Seq(SecretVersions \cup {Absent})
              /\ Len(secret) \in Nat \ {0}
          BY HistoryEnds DEF TypeInv, TypeOK, Histories
        <4>2. DOMAIN secret = 1 .. Len(secret) /\ Len(secret) \in DOMAIN secret
          BY <4>1
        <4>3. SecretData \in Seq(EnvData \cup {Absent}) /\ Len(SecretData) = Len(secret)
          BY <4>1, <4>2 DEF SecretData, SecretVersions
        <4>. QED BY <4>2, <4>3 DEF Stored, SecretData
      <3>3. HasData(Env(v)!Copy)
        BY <3>1, <3>2 DEF HasData
      <3>. QED BY <1>1, <3>1, <3>3 DEF Outdated, HasEnv, HasData, EnvInv
    <2>2. CASE ReportReadiness(v)
      BY <1>1, <2>2 DEF ReportReadiness, Outdated, HasEnv, HasData
    <2>. QED BY <2>1, <2>2
  <1>4. MadeEmpty'
    BY <1>1 DEF Releasing, MadeEmpty
  <1>5. HasCopy' => HasCopy
    BY <1>1 DEF HasCopy
  <1>. QED
    BY <1>1, <1>2, <1>3, <1>4, <1>5, SameRelease DEF Releasing, HasCopy

\* What the Service reconciler does here, and what the cache is told.
LEMMA ServiceSideRelease ==
    ASSUME TypeInv, OrderInv, StaysAdopted, Releasing, ServiceSide
    PROVE  Releasing'
  <1>1. clone' = clone
    BY DEF ServiceSide
  <1>2. /\ service \in Histories(ServiceVersions) /\ Len(service) \in Nat \ {0}
        /\ secret \in Histories(SecretVersions \cup {Absent})
    BY HistoryEnds DEF TypeInv, TypeOK
  <1>3. [Next]_vars
    BY DEF ServiceSide, Next
  <1>4. secret' = secret => MadeEmpty'
    BY DEF Releasing, MadeEmpty
  <1>5. Stored(secret') = Stored(secret) =>
            \A v \in Versions : Outdated(v)' => Outdated(v)
    BY <1>1 DEF Outdated, HasEnv, HasData
  <1>6. ~CreateDeployment => \A v \in Versions : Exists(v)' => Exists(v)
    BY <1>3, DeploymentsGoOn
  <1>7. CASE ReadService \/ GetLabelled
    <2>1. Cached(service) = service[1] /\ 1 \in 1 .. Len(service)
      BY <1>2 DEF Cached, Histories
    <2>2. /\ service' = service /\ secret' = secret /\ deployment' = deployment
          /\ run'.local = service[1] /\ run'.step = "env" /\ run'.plan = "none"
      <3>1. CASE ReadService
        BY <2>1, <3>1 DEF ReadService, Idle, objects
      <3>2. CASE GetLabelled
        BY <2>1, <3>2 DEF GetLabelled, objects, TypeInv, TypeOK, RunInv, Runs
      <3>. QED BY <1>7, <3>1, <3>2
    <2>. QED BY <1>4, <1>5, <2>1, <2>2, SameRelease DEF Exists
  <1>8. CASE LabelService
    <2>. DEFINE old == Stored(service)
                s == [old EXCEPT !.managed = TRUE]
    <2>1. old \in ServiceVersions
      BY ReadsType
    <2>2. /\ s \in ServiceVersions /\ s.generation = old.generation
          /\ s.observed = old.observed /\ s.latest = old.latest /\ s.hash = old.hash
      BY <2>1 DEF ServiceVersions
    <2>3. /\ service' = Put(service, s) /\ secret' = secret /\ deployment' = deployment
          /\ run'.step = "get" /\ run'.plan = "none"
      BY <1>8 DEF LabelService, Idle
    <2>. HIDE DEF s
    <2>4. Needs(s) <=> Needs(old)
      BY <2>2 DEF Needs
    <2>5. GoesBy(old) /\ \A i \in 1 .. Len(service) : GoesBy(service[i])
      <3>1. Len(service) \in 1 .. Len(service) /\ old = service[Len(service)]
        BY <1>2 DEF Stored
      <3>. QED BY <3>1 DEF Releasing
    <2>6. \A i \in 1 .. Len(service) :
              Needs(service[i]) => (Needs(s) <=> service[i].latest = s.latest)
      BY <2>2, <2>4, <2>5 DEF GoesBy
    <2>7. /\ HasData(old.hash) => HasData(s.hash)
          /\ Stored(secret) = Absent => s.hash = NoHash
          /\ \A v \in Versions : Outdated(v) => v <= s.latest /\ (~Needs(s) => v # s.latest)
          /\ \A v \in Versions : Exists(v) /\ s.latest < v => Needs(s)
      BY <2>2, <2>4, <2>5 DEF GoesBy, Releasing, NoneAhead
    <2>. QED BY <1>1, <2>2, <2>3, <2>6, <2>7, WriteRelease
  <1>9. CASE EnsureEnvSecret
    BY <1>1, <1>9, SecretRelease
  <1>10. CASE CreateDeployment
    BY <1>1, <1>10, CreateRelease
  <1>11. CASE PatchStatus
    BY <1>1, <1>11, PatchRelease
  <1>12. CASE EnsureAccount \/ EnsureKubeService \/ LookUpLatest
    <2>1. /\ service' = service /\ secret' = secret /\ HasCopy /\ run'.local = run.local
          /\ run'.hash = run.hash /\ HasCopy'
          /\ run.step \notin {"idle", "get", "env"}
      BY <1>12 DEF EnsureAccount, EnsureKubeService, LookUpLatest, HasCopy, Advance, After,
                   objects, TypeInv, TypeOK, Runs
    <2>2. /\ run'.plan = "version" => run.plan = "version"
          /\ run'.step = "deployment" => run'.plan = "version"
      <3>1. CASE EnsureAccount \/ EnsureKubeService
        BY <3>1 DEF EnsureAccount, EnsureKubeService, Advance, After, TypeInv, TypeOK, Runs
      <3>2. CASE LookUpLatest
        BY <3>2 DEF LookUpLatest, PlanFor, TypeInv, TypeOK, Runs
      <3>. QED BY <1>12, <3>1, <3>2
    <2>3. deployment' = deployment
      BY <1>12 DEF EnsureAccount, EnsureKubeService, LookUpLatest, objects
    <2>. QED BY <1>4, <1>5, <2>1, <2>2, <2>3, SameRelease DEF Exists
  <1>13. CASE PatchStatusConflict \/ Fail
    <2>1. /\ service' = service /\ secret' = secret /\ deployment' = deployment
          /\ run' = Idle
      BY <1>13 DEF PatchStatusConflict, Fail, objects
    <2>2. ~HasCopy' /\ run'.plan = "none" /\ run'.step = "idle"
      BY <2>1 DEF HasCopy, Idle
    <2>. QED BY <1>4, <1>5, <2>1, <2>2, SameRelease DEF Exists
  <1>14. CASE DeliverService
    <2>1. /\ Stored(service') = Stored(service) /\ secret' = secret /\ run' = run
          /\ \A i \in 1 .. Len(service') : \E j \in 1 .. Len(service) :
                 service'[i] = service[j]
      <3>1. Pending(service) /\ service' = Deliver(service)
        BY <1>14 DEF DeliverService
      <3>2. \A i \in 1 .. Len(service') :
                i + 1 \in 1 .. Len(service) /\ service'[i] = service[i + 1]
        BY <1>2, <3>1, DeliverHistory
      <3>. QED BY <1>2, <1>14, <3>1, <3>2, DeliverHistory DEF DeliverService
    <2>2. (HasCopy' => HasCopy) /\ deployment' = deployment
      BY <1>14, <2>1 DEF HasCopy, DeliverService
    <2>. QED BY <1>4, <1>5, <2>1, <2>2, SameRelease DEF Exists, Releasing, HasCopy
  <1>15. CASE DeliverSecret
    <2>1. /\ Stored(secret') = Stored(secret) /\ service' = service /\ run' = run
          /\ deployment' = deployment
      BY <1>2, <1>15, DeliverHistory DEF DeliverSecret
    <2>2. MadeEmpty'
      <3>1. \A i \in 1 .. Len(secret') :
                i + 1 \in 1 .. Len(secret) /\ secret'[i] = secret[i + 1]
        BY <1>2, <1>15, HistoryEnds, DeliverHistory DEF DeliverSecret
      <3>. QED BY <2>1, <3>1 DEF Releasing, MadeEmpty
    <2>3. HasCopy' => HasCopy
      BY <2>1 DEF HasCopy
    <2>. QED BY <1>5, <2>1, <2>2, <2>3, SameRelease DEF Exists, Releasing, HasCopy
  <1>16. CASE \/ LabelConflict \/ DeliverAccount \/ DeliverKubeService \/ Resync
              \/ \E v \in Versions : DeliverDeployment(v)
    <2>1. service' = service /\ secret' = secret /\ run' = run /\ ~CreateDeployment
      BY <1>16 DEF LabelConflict, DeliverAccount, DeliverKubeService, Resync, vars, objects,
                   DeliverDeployment, CreateDeployment, Advance, After, TypeInv, TypeOK, Runs
    <2>2. HasCopy' => HasCopy
      BY <2>1 DEF HasCopy
    <2>. QED BY <1>4, <1>5, <1>6, <2>1, <2>2, SameRelease DEF Releasing, HasCopy
  <1>. QED
    BY <1>7, <1>8, <1>9, <1>10, <1>11, <1>12, <1>13, <1>14, <1>15, <1>16
    DEF ServiceSide, Reconcile, Watch

\* Every step keeps it, one that disturbs because nothing is claimed from then on.
LEMMA StepRelease ==
    TypeInv /\ OrderInv /\ RestInv /\ EnvInv /\ ReleaseInv /\ [SystemNext]_systemVars
        => ReleaseInv'
  <1>. SUFFICES ASSUME TypeInv, OrderInv, RestInv, EnvInv, ReleaseInv,
                       [SystemNext]_systemVars
                PROVE  ReleaseInv'
    OBVIOUS
  <1>1. StaysThere'
    BY StepStays DEF ReleaseInv
  <1>. SUFFICES ASSUME ~disturbed' PROVE Releasing'
    BY <1>1 DEF ReleaseInv
  <1>2. StaysAdopted /\ StaysThere
    BY DEF RestInv, ReleaseInv
  <1>3. ~disturbed
    BY DEF SystemNext, ServiceSide, GiveEnv, ReportReadiness, ChangeEnv, ChangeSpec,
           systemVars
  <1>4. Releasing
    BY <1>3 DEF ReleaseInv
  <1>5. CASE ServiceSide
    BY <1>2, <1>4, <1>5, ServiceSideRelease
  <1>6. ASSUME NEW v \in Versions, GiveEnv(v) \/ ReportReadiness(v)
        PROVE  Releasing'
    BY <1>4, <1>6, DeploymentSideRelease
  <1>7. ASSUME NEW data \in EnvData, ChangeEnv(data) PROVE Releasing'
    BY <1>2, <1>4, <1>7, EnvEditRelease DEF ChangeEnv
  <1>8. CASE ChangeSpec
    BY <1>2, <1>4, <1>8, SpecEditRelease DEF ChangeSpec
  <1>9. CASE UNCHANGED systemVars
    BY <1>4, <1>9
    DEF systemVars, vars, objects, Releasing, GoesBy, Needs, HasData, Outdated, HasEnv,
        HasCopy, MadeEmpty, NoneAhead, Exists
  <1>. QED BY <1>5, <1>6, <1>7, <1>8, <1>9 DEF SystemNext

\* An edit of the env that met no work in progress is rolled out: the latest version has
\* the env the Secret holds and the status has its hash, however the two reconcilers,
\* their caches and their failures interleave from then on.
THEOREM CalmEditsAreRolledOut == SystemSafety => []CalmEditsAreReleased
  <1>1. TypeInv /\ RestInv /\ ReleaseInv => CalmEditsAreReleased
    <2>. SUFFICES ASSUME TypeInv, RestInv, ReleaseInv, AllAtRest, ~disturbed
                  PROVE  LET latest == Stored(service).latest
                         IN  /\ clone[latest] = Stored(secret).data
                             /\ clone[latest] = Stored(service).hash
      BY DEF CalmEditsAreReleased
    <2>1. StaysThere /\ Releasing
      BY DEF ReleaseInv
    <2>. QED
      BY <2>1, RestNeedsNothing DEF GoesBy, Needs, Outdated, HasData
  <1>2. SystemSafety => []TypeInv /\ []OrderInv /\ []RestInv
    BY SystemIsARollout, TypeInvariant, OrderInvariant, RestInvariant, PTL
  <1>3. SystemSafety => []EnvInv
    BY InitEnv, StepEnv, PTL DEF SystemSafety
  <1>. QED
    BY <1>1, <1>2, <1>3, InitRelease, StepRelease, PTL DEF SystemSafety
===========================================================================
