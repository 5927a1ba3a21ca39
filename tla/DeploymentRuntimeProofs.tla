----------------------- MODULE DeploymentRuntimeProofs -----------------------
(***************************************************************************)
(* Theorems about DeploymentRuntime, for every value of its constants: any *)
(* number of specs, of env contents, of edits and of faults.               *)
(***************************************************************************)
EXTENDS DeploymentRuntime, ApiObjectTheorems
---------------------------------------------------------------------------
(* Types *)

NamespaceVersions == {"live", "terminating", Absent}

\* A new Deployment and the idle worker have their types.
LEMMA NewTypes ==
    /\ \A labelled \in BOOLEAN : NewOwner(labelled) \in OwnerVersions
    /\ Idle \in Runs
  <1>1. \A labelled \in BOOLEAN : NewOwner(labelled) \in OwnerVersions
    BY BoundsAssumption DEF NewOwner, OwnerVersions, Reports
  <1>. QED BY <1>1 DEF Idle, Runs, Steps

\* The first state has the types.
LEMMA InitType == Init => TypeOK
  <1>. SUFFICES ASSUME Init PROVE TypeOK
    OBVIOUS
  <1>1. owner \in Histories(OwnerVersions \cup {Absent})
    <2>1. PICK labelled \in BOOLEAN : owner = Fresh(NewOwner(labelled))
      BY DEF Init
    <2>. QED BY <2>1, NewTypes, FreshHistory
  <1>2. source \in Histories(EnvData \cup {Absent})
    <2>1. Fresh(FirstData) \in Histories(EnvData \cup {Absent})
      BY FirstDataAssumption, FreshHistory
    <2>2. <<Absent, FirstData>> \in Histories(EnvData \cup {Absent})
      BY FirstDataAssumption DEF Histories
    <2>. QED BY <2>1, <2>2 DEF Init
  <1>3. /\ clone \in Histories(EnvData \cup {Absent})
        /\ kube \in Histories(KubeVersions \cup {Absent})
    BY FreshHistory DEF Init
  <1>4. namespace \in Histories(NamespaceVersions)
    <2>1. "live" \in NamespaceVersions
      BY DEF NamespaceVersions
    <2>. QED BY <2>1, FreshHistory DEF Init
  <1>. QED BY <1>1, <1>2, <1>3, <1>4, NewTypes DEF Init, TypeOK, NamespaceVersions

\* What a reconcile reads has its type.
LEMMA ReadsType ==
    ASSUME TypeOK
    PROVE  /\ Cached(owner) \in OwnerVersions \cup {Absent}
           /\ Stored(owner) \in OwnerVersions \cup {Absent}
           /\ Cached(source) \in EnvData \cup {Absent}
           /\ Stored(source) \in EnvData \cup {Absent}
           /\ Cached(clone) \in EnvData \cup {Absent}
           /\ Stored(clone) \in EnvData \cup {Absent}
           /\ Cached(kube) \in KubeVersions \cup {Absent}
           /\ Stored(kube) \in KubeVersions \cup {Absent}
           /\ Stored(namespace) \in NamespaceVersions
           /\ run.local \in OwnerVersions /\ run.step \in Steps
  BY HistoryEnds DEF TypeOK, Runs, NamespaceVersions

\* Whatever of its type is written to an object, its versions keep their type, and what
\* is written is what is stored.
LEMMA Writes ==
    ASSUME TypeOK
    PROVE  /\ \A o \in OwnerVersions \cup {Absent} :
                 /\ Put(owner, o) \in Histories(OwnerVersions \cup {Absent})
                 /\ Stored(Put(owner, o)) = o
           /\ \A d \in EnvData \cup {Absent} :
                 /\ Put(source, d) \in Histories(EnvData \cup {Absent})
                 /\ Put(clone, d) \in Histories(EnvData \cup {Absent})
                 /\ Stored(Put(clone, d)) = d
           /\ \A k \in KubeVersions \cup {Absent} :
                 /\ Put(kube, k) \in Histories(KubeVersions \cup {Absent})
                 /\ Stored(Put(kube, k)) = k
           /\ \A n \in NamespaceVersions :
                 /\ Put(namespace, n) \in Histories(NamespaceVersions)
                 /\ Stored(Put(namespace, n)) = n
  <1>1. namespace \in Histories(NamespaceVersions)
    BY DEF TypeOK, NamespaceVersions
  <1>. QED BY <1>1, PutHistory DEF TypeOK

\* The versions the reconciler, the users and Kubernetes make of the ones they find.
LEMMA EditedTypes ==
    /\ \A o \in OwnerVersions :
          /\ [o EXCEPT !.labelled = TRUE] \in OwnerVersions
          /\ o.spec < MaxSpec => [o EXCEPT !.spec = @ + 1] \in OwnerVersions
          /\ \A r \in Reports : [o EXCEPT !.ready = r] \in OwnerVersions
    /\ \A k \in KubeVersions :
          /\ \A spec \in 1 .. MaxSpec : [k EXCEPT !.spec = spec] \in KubeVersions
          /\ WithOtherAvailability(k) \in KubeVersions
    /\ \A spec \in 1 .. MaxSpec : [spec |-> spec, available |-> FALSE] \in KubeVersions
  <1>1. ASSUME NEW o \in OwnerVersions
        PROVE  /\ [o EXCEPT !.labelled = TRUE] \in OwnerVersions
               /\ o.spec < MaxSpec => [o EXCEPT !.spec = @ + 1] \in OwnerVersions
               /\ \A r \in Reports : [o EXCEPT !.ready = r] \in OwnerVersions
    <2>1. o.spec < MaxSpec => o.spec + 1 \in 1 .. MaxSpec
      BY BoundsAssumption DEF OwnerVersions
    <2>. QED BY <2>1 DEF OwnerVersions
  <1>2. ASSUME NEW k \in KubeVersions
        PROVE  /\ \A spec \in 1 .. MaxSpec : [k EXCEPT !.spec = spec] \in KubeVersions
               /\ WithOtherAvailability(k) \in KubeVersions
    BY <1>2 DEF KubeVersions, WithOtherAvailability
  <1>. QED BY <1>1, <1>2 DEF KubeVersions

\* Steps that change no object, and leave the worker idle or at a later step.
LEMMA RunSteps ==
    ASSUME TypeOK
    PROVE  /\ Retry => run' \in Runs /\ queued' \in BOOLEAN
           /\ \A step \in Steps : GoOn(step) => run' \in Runs /\ queued' \in BOOLEAN
           /\ \A step \in Steps : GoOnCreated(step) => run' \in Runs /\ queued' \in BOOLEAN
  <1>1. Retry => run' \in Runs /\ queued' \in BOOLEAN
    BY NewTypes DEF Retry
  <1>2. ASSUME NEW step \in Steps, GoOn(step)
        PROVE  run' \in Runs /\ queued' \in BOOLEAN
    BY <1>2 DEF GoOn, TypeOK, Runs
  <1>. QED BY <1>1, <1>2 DEF GoOnCreated

\* Each write puts a version of the object's type.
LEMMA StepType == TypeOK /\ [Next]_vars => TypeOK'
  <1>. SUFFICES ASSUME TypeOK, [Next]_vars PROVE TypeOK'
    OBVIOUS
  <1>. USE ReadsType, Writes, NewTypes
  <1>1. CASE SkipDeployment \/ LabelFails \/ Resync \/ FindNoKube \/ UNCHANGED vars
    BY <1>1 DEF SkipDeployment, LabelFails, Resync, FindNoKube, TypeOK, vars, objects
  <1>2. CASE ReadDeployment
    <2>1. run' \in Runs
      BY <1>2 DEF ReadDeployment, Proceeds, Runs, Steps
    <2>. QED BY <1>2, <2>1 DEF ReadDeployment, TypeOK, objects
  <1>3. CASE LabelDeployment
    <2>1. owner' \in Histories(OwnerVersions \cup {Absent})
      BY <1>3, EditedTypes DEF LabelDeployment, Proceeds
    <2>2. run' \in Runs
      BY <1>3 DEF LabelDeployment, Idle, Runs, Steps
    <2>. QED BY <1>3, <2>1, <2>2 DEF LabelDeployment, TypeOK
  <1>4. CASE GetLabelled
    <2>1. run' \in Runs /\ queued' \in BOOLEAN
      BY <1>4, RunSteps DEF GetLabelled, Runs, Steps, TypeOK
    <2>. QED BY <1>4, <2>1 DEF GetLabelled, TypeOK, objects
  <1>5. CASE CloneEnv
    <2>1. clone' \in Histories(EnvData \cup {Absent})
      BY <1>5 DEF CloneEnv, Created, TypeOK
    <2>2. run' \in Runs /\ queued' \in BOOLEAN
      BY <1>5, RunSteps DEF CloneEnv, Steps
    <2>. QED BY <1>5, <2>1, <2>2 DEF CloneEnv, TypeOK
  <1>6. CASE KeepClone
    <2>1. run' \in Runs /\ queued' \in BOOLEAN
      BY <1>6, RunSteps DEF KeepClone, Steps
    <2>. QED BY <1>6, <2>1 DEF KeepClone, TypeOK, objects
  <1>7. CASE MissSource
    <2>1. run' \in Runs /\ queued' \in BOOLEAN
      BY <1>7, RunSteps DEF MissSource
    <2>. QED BY <1>7, <2>1 DEF MissSource, TypeOK, objects
  <1>8. CASE CreateKube
    <2>1. run.local.spec \in 1 .. MaxSpec
      BY DEF OwnerVersions
    <2>2. kube' \in Histories(KubeVersions \cup {Absent})
      BY <1>8, <2>1, EditedTypes DEF CreateKube, Created, TypeOK
    <2>3. run' \in Runs /\ queued' \in BOOLEAN
      BY <1>8, RunSteps DEF CreateKube, Steps
    <2>. QED BY <1>8, <2>2, <2>3 DEF CreateKube, TypeOK
  <1>9. CASE KeepKube
    <2>1. run' \in Runs /\ queued' \in BOOLEAN
      BY <1>9, RunSteps DEF KeepKube, Steps
    <2>. QED BY <1>9, <2>1 DEF KeepKube, TypeOK, objects
  <1>10. CASE PatchKube
    <2>1. run.local.spec \in 1 .. MaxSpec
      BY DEF OwnerVersions
    <2>2. kube' \in Histories(KubeVersions \cup {Absent})
      <3>1. CASE Stored(kube) = Absent
        BY <1>10, <3>1 DEF PatchKube, TypeOK
      <3>2. CASE Stored(kube) # Absent
        <4>1. [Stored(kube) EXCEPT !.spec = run.local.spec] \in KubeVersions
          BY <2>1, <3>2, EditedTypes
        <4>. QED BY <1>10, <3>2, <4>1 DEF PatchKube
      <3>. QED BY <3>1, <3>2
    <2>3. run' \in Runs /\ queued' \in BOOLEAN
      BY <1>10, RunSteps DEF PatchKube, Steps
    <2>. QED BY <1>10, <2>2, <2>3 DEF PatchKube, TypeOK
  <1>11. CASE PatchStatus
    <2>1. CASE Stored(owner) = Absent
      BY <1>11, <2>1 DEF PatchStatus, TypeOK
    <2>2. CASE Stored(owner) # Absent
      <3>1. Merged(run.local.ready, Report, Stored(owner).ready) \in Reports
        BY <2>2 DEF Merged, Report, Reports, OwnerVersions
      <3> DEFINE merged == Merged(run.local.ready, Report, Stored(owner).ready)
      <3>2. [Stored(owner) EXCEPT !.ready = merged] \in OwnerVersions
        BY <2>2, <3>1, EditedTypes
      <3>3. owner' = Put(owner, [Stored(owner) EXCEPT !.ready = merged])
        BY <1>11, <2>2 DEF PatchStatus
      <3> HIDE DEF merged
      <3>4. owner' \in Histories(OwnerVersions \cup {Absent})
        BY <3>2, <3>3
      <3>. QED BY <1>11, <2>2, <3>4 DEF PatchStatus, TypeOK
    <2>. QED BY <2>1, <2>2
  <1>12. CASE PatchStatusConflict \/ Fail
    <2>1. spent' \in [changes : Nat, faults : Nat]
      BY <1>12 DEF PatchStatusConflict, Fail, TypeOK
    <2>. QED BY <1>12, <2>1 DEF PatchStatusConflict, Fail, Retry, TypeOK, objects
  <1>13. CASE DeliverOwner \/ DeliverClone \/ DeliverKube \/ DeliverSource
    <2>1. CASE DeliverOwner
      BY <2>1, DeliverHistory DEF DeliverOwner, TypeOK
    <2>2. CASE DeliverClone
      BY <2>2, DeliverHistory DEF DeliverClone, TypeOK
    <2>3. CASE DeliverKube
      BY <2>3, DeliverHistory DEF DeliverKube, TypeOK
    <2>4. CASE DeliverSource
      BY <2>4, DeliverHistory DEF DeliverSource, TypeOK
    <2>. QED BY <1>13, <2>1, <2>2, <2>3, <2>4
  <1>14. CASE DeliverNamespace
    BY <1>14, DeliverHistory DEF DeliverNamespace, TypeOK
  <1>15. CASE EditSpec
    <2>1. owner' \in Histories(OwnerVersions \cup {Absent})
      BY <1>15, EditedTypes DEF EditSpec
    <2>2. spent' \in [changes : Nat, faults : Nat]
      BY <1>15 DEF EditSpec, TypeOK
    <2>. QED BY <1>15, <2>1, <2>2 DEF EditSpec, TypeOK
  <1>16. CASE \E data \in EnvData : EditEnv(data)
    <2>1. PICK data \in EnvData : EditEnv(data)
      BY <1>16
    <2>2. source' \in Histories(EnvData \cup {Absent})
      BY <2>1 DEF EditEnv
    <2>3. spent' \in [changes : Nat, faults : Nat]
      BY <2>1 DEF EditEnv, TypeOK
    <2>. QED BY <2>1, <2>2, <2>3 DEF EditEnv, TypeOK
  <1>17. CASE \E spec \in 1 .. MaxSpec : Drift(spec)
    <2>1. PICK spec \in 1 .. MaxSpec : Drift(spec)
      BY <1>17
    <2>2. kube' \in Histories(KubeVersions \cup {Absent})
      BY <2>1, EditedTypes DEF Drift
    <2>3. spent' \in [changes : Nat, faults : Nat]
      BY <2>1 DEF Drift, TypeOK
    <2>. QED BY <2>1, <2>2, <2>3 DEF Drift, TypeOK
  <1>18. CASE ChangeAvailability
    <2>1. kube' \in Histories(KubeVersions \cup {Absent})
      BY <1>18, EditedTypes DEF ChangeAvailability
    <2>2. spent' \in [changes : Nat, faults : Nat]
      BY <1>18 DEF ChangeAvailability, TypeOK
    <2>. QED BY <1>18, <2>1, <2>2 DEF ChangeAvailability, TypeOK
  <1>19. CASE DeleteOwner \/ DeleteKube
    <2>1. CASE DeleteOwner
      BY <2>1 DEF DeleteOwner, TypeOK
    <2>2. CASE DeleteKube
      <3>1. spent' \in [changes : Nat, faults : Nat]
        BY <2>2 DEF DeleteKube, TypeOK
      <3>. QED BY <2>2, <3>1 DEF DeleteKube, TypeOK
    <2>. QED BY <1>19, <2>1, <2>2
  <1>20. CASE DeleteNamespace \/ FinishNamespace
    BY <1>20 DEF DeleteNamespace, FinishNamespace, TypeOK, NamespaceVersions
  <1>21. CASE CollectClone \/ CollectKube \/ SweepSource
    BY <1>21 DEF CollectClone, CollectKube, SweepSource, TypeOK
  <1>. QED
    BY <1>1, <1>2, <1>3, <1>4, <1>5, <1>6, <1>7, <1>8, <1>9, <1>10, <1>11, <1>12, <1>13,
       <1>14, <1>15, <1>16, <1>17, <1>18, <1>19, <1>20, <1>21
    DEF Next, Reconcile, CleanUp, Others

\* DeploymentRuntime is well typed: no spec, report or step but those there are.
THEOREM TypeCorrect == Spec => []TypeOK
  BY InitType, StepType, PTL DEF Spec, Safety
---------------------------------------------------------------------------
(* The clone *)

\* A step leaves the clone alone, makes it where there is none, or collects it where
\* the owner is gone; what is gone does not come back.
CloneStep ==
    /\ Stored(clone) # Absent /\ Stored(clone') # Stored(clone)
          => Stored(clone') = Absent /\ OwnerGone
    /\ OwnerGone => OwnerGone'

\* Every step is of that kind.
LEMMA CloneSteps == TypeOK /\ [Next]_vars => CloneStep
  <1>. SUFFICES ASSUME TypeOK, [Next]_vars PROVE CloneStep
    OBVIOUS
  <1>. USE ReadsType, Writes
  <1>1. CASE owner' = owner /\ clone' = clone /\ namespace' = namespace
    BY <1>1 DEF CloneStep, OwnerGone
  <1>2. CASE LabelDeployment
    <2>1. Stored(owner) # Absent
      BY <1>2 DEF LabelDeployment, Proceeds
    <2>. QED BY <1>2, <2>1 DEF LabelDeployment, CloneStep, OwnerGone
  <1>3. CASE CloneEnv
    BY <1>3 DEF CloneEnv, Created, CloneStep, OwnerGone
  <1>4. CASE PatchStatus
    BY <1>4 DEF PatchStatus, CloneStep, OwnerGone
  <1>5. CASE DeliverOwner
    <2>1. Stored(owner') = Stored(owner)
      BY <1>5, DeliverHistory DEF DeliverOwner, TypeOK
    <2>. QED BY <1>5, <2>1 DEF DeliverOwner, CloneStep, OwnerGone
  <1>6. CASE DeliverClone
    <2>1. Stored(clone') = Stored(clone)
      BY <1>6, DeliverHistory DEF DeliverClone, TypeOK
    <2>. QED BY <1>6, <2>1 DEF DeliverClone, CloneStep, OwnerGone
  <1>7. CASE DeliverNamespace
    <2>1. Stored(namespace') = Stored(namespace)
      BY <1>7, DeliverHistory DEF DeliverNamespace, TypeOK
    <2>. QED BY <1>7, <2>1 DEF DeliverNamespace, CloneStep, OwnerGone
  <1>8. CASE EditSpec
    BY <1>8 DEF EditSpec, CloneStep, OwnerGone
  <1>9. CASE DeleteOwner
    BY <1>9 DEF DeleteOwner, CloneStep, OwnerGone
  <1>10. CASE DeleteNamespace
    <2>1. Stored(namespace') = "terminating"
      BY <1>10 DEF DeleteNamespace, NamespaceVersions
    <2>. QED BY <1>10, <2>1 DEF DeleteNamespace, CloneStep, OwnerGone
  <1>11. CASE CollectClone
    BY <1>11 DEF CollectClone, CloneStep, OwnerGone
  <1>12. CASE FinishNamespace
    BY <1>12 DEF FinishNamespace, CloneStep, OwnerGone
  <1>. QED
    BY <1>1, <1>2, <1>3, <1>4, <1>5, <1>6, <1>7, <1>8, <1>9, <1>10, <1>11, <1>12
    DEF Next, Reconcile, CleanUp, Others, SkipDeployment, ReadDeployment, LabelFails,
        GetLabelled, KeepClone, MissSource, CreateKube, KeepKube, PatchKube, FindNoKube,
        PatchStatusConflict, Fail, DeliverKube, DeliverSource, Resync, EditEnv, Drift,
        ChangeAvailability, DeleteKube, CollectKube, SweepSource, objects, vars

\* A version keeps the env it was given: the clone only ever goes, and it goes with
\* its owner.
THEOREM CloneIsNeverRewritten == Spec => CloneNeverChanges
  <1>1. CloneStep => (Stored(clone) # Absent => Stored(clone') \in {Stored(clone), Absent})
    BY DEF CloneStep
  <1>. QED BY <1>1, TypeCorrect, CloneSteps, PTL DEF Spec, Safety, CloneNeverChanges

\* The reconcile that is about to create the Kubernetes Deployment has seen to the
\* clone, and nothing but the end of its owner takes the clone away.
CloneInv ==
    /\ run.step = "kube" => OwnerGone \/ Stored(clone) # Absent
    /\ KubeHasItsClone

\* Nothing is there at first.
LEMMA InitClone == Init => CloneInv
  <1>. SUFFICES ASSUME Init PROVE CloneInv
    OBVIOUS
  <1>1. Stored(kube) = Absent
    BY FreshHistory DEF Init
  <1>. QED BY <1>1 DEF Init, Idle, CloneInv, KubeHasItsClone

\* Where the Kubernetes Deployment comes from.
LEMMA KubeSteps ==
    ASSUME TypeOK, [Next]_vars, Stored(kube) = Absent, Stored(kube') # Absent
    PROVE  CreateKube
  <1>. USE ReadsType, Writes
  <1>1. CASE kube' = kube
    BY <1>1
  <1>2. CASE PatchKube \/ (\E spec \in 1 .. MaxSpec : Drift(spec)) \/ ChangeAvailability
    BY <1>2 DEF PatchKube, Drift, ChangeAvailability
  <1>3. CASE DeliverKube
    <2>1. Stored(kube') = Stored(kube)
      BY <1>3, DeliverHistory DEF DeliverKube, TypeOK
    <2>. QED BY <2>1
  <1>4. CASE CollectKube \/ DeleteKube
    BY <1>4 DEF CollectKube, DeleteKube
  <1>. QED
    BY <1>1, <1>2, <1>3, <1>4
    DEF Next, Reconcile, CleanUp, Others, SkipDeployment, ReadDeployment, LabelDeployment,
        LabelFails, GetLabelled, CloneEnv, KeepClone, MissSource, KeepKube, FindNoKube,
        PatchStatus, PatchStatusConflict, Fail, DeliverOwner, DeliverClone, DeliverSource,
        DeliverNamespace, Resync, EditSpec, EditEnv, DeleteOwner, DeleteNamespace,
        CollectClone, SweepSource, FinishNamespace, objects, vars

\* Who gets to the step that creates the Kubernetes Deployment.
LEMMA KubeStepSteps ==
    ASSUME [Next]_vars, run'.step = "kube", run.step # "kube"
    PROVE  CloneEnv \/ KeepClone
  <1>1. Idle.step # "kube"
    BY DEF Idle
  <1>2. CASE run' = run
    BY <1>2
  <1>3. CASE ReadDeployment \/ LabelDeployment \/ GetLabelled
    <2>1. CASE ReadDeployment
      BY <2>1 DEF ReadDeployment
    <2>2. CASE LabelDeployment
      BY <2>2 DEF LabelDeployment, Idle
    <2>3. CASE GetLabelled
      BY <1>1, <2>3 DEF GetLabelled, Retry
    <2>. QED BY <1>3, <2>1, <2>2, <2>3
  <1>4. CASE MissSource \/ FindNoKube \/ PatchStatus \/ PatchStatusConflict \/ Fail
    BY <1>1, <1>4 DEF MissSource, FindNoKube, PatchStatus, PatchStatusConflict, Fail, Retry
  <1>5. CASE CreateKube \/ KeepKube \/ PatchKube
    BY <1>5 DEF CreateKube, KeepKube, PatchKube
  <1>. QED
    BY <1>2, <1>3, <1>4, <1>5
    DEF Next, Reconcile, CleanUp, Others, SkipDeployment, LabelFails, DeliverOwner,
        DeliverClone, DeliverKube, DeliverSource, DeliverNamespace, Resync, EditSpec, EditEnv,
        Drift, ChangeAvailability, DeleteKube, DeleteOwner, DeleteNamespace, CollectClone,
        CollectKube, SweepSource, FinishNamespace, objects, vars

\* Every step keeps the invariant of the clone.
LEMMA StepClone == TypeOK /\ CloneInv /\ [Next]_vars => CloneInv'
  <1>. SUFFICES ASSUME TypeOK, CloneInv, [Next]_vars PROVE CloneInv'
    OBVIOUS
  <1>1. CloneStep
    BY CloneSteps
  <1>2. OwnerGone \/ Stored(clone) # Absent => OwnerGone' \/ Stored(clone') # Absent
    BY <1>1 DEF CloneStep
  <1>3. ASSUME run'.step = "kube" PROVE OwnerGone' \/ Stored(clone') # Absent
    <2>1. CASE run.step = "kube"
      BY <1>2, <2>1 DEF CloneInv
    <2>2. CASE CloneEnv
      <3>1. Stored(clone') # Absent \/ Stored(namespace) # "live"
        BY <2>2, ReadsType, Writes DEF CloneEnv, Created
      <3>. QED BY <1>1, <3>1 DEF CloneStep, OwnerGone
    <2>3. CASE KeepClone
      <3>1. Stored(clone) # Absent
        <4>1. Idle.step # "kube"
          BY DEF Idle
        <4>. QED BY <1>3, <2>3, <4>1 DEF KeepClone, Retry
      <3>. QED BY <1>2, <3>1
    <2>. QED BY <1>3, <2>1, <2>2, <2>3, KubeStepSteps
  <1>4. ASSUME Stored(kube') # Absent, ~OwnerGone' PROVE Stored(clone') # Absent
    <2>1. CASE Stored(kube) # Absent
      BY <1>1, <1>2, <1>4, <2>1 DEF CloneStep, CloneInv, KubeHasItsClone
    <2>2. CASE Stored(kube) = Absent
      <3>1. CreateKube
        BY <1>4, <2>2, KubeSteps
      <3>. QED BY <1>2, <1>4, <3>1 DEF CreateKube, CloneInv
    <2>. QED BY <2>1, <2>2
  <1>. QED BY <1>3, <1>4 DEF CloneInv, KubeHasItsClone, OwnerGone

\* No Kubernetes Deployment runs without the env its pods mount, whatever was refused,
\* failed or repeated on the way.
THEOREM CloneComesFirst == Spec => []KubeHasItsClone
  <1>1. CloneInv => KubeHasItsClone
    BY DEF CloneInv
  <1>. QED
    BY <1>1, InitType, StepType, InitClone, StepClone, PTL DEF Spec, Safety
---------------------------------------------------------------------------
(* The promise to the rest of the system *)

\* Every step is one of VersionEnv, or leaves the env of the version alone.
LEMMA EnvSteps == TypeOK /\ [Next]_vars => [Env!Next]_(Stored(clone))
  <1>. SUFFICES ASSUME TypeOK, [Next]_vars, Stored(clone') # Stored(clone)
                PROVE  Env!Next
    BY DEF vars
  <1>. USE ReadsType, Writes
  <1>1. CASE CloneEnv
    <2>1. Stored(clone) = Absent /\ Stored(clone') = Cached(source)
      BY <1>1 DEF CloneEnv, Created
    <2>. QED BY <1>1, <2>1
      DEF CloneEnv, Env!Next, Env!Clone, Env!Clonable, Env!Copy, Env!Cached, Cached
  <1>2. CASE CollectClone
    BY <1>2 DEF CollectClone, Env!Next, Env!Collect
  <1>3. CASE DeliverClone
    <2>1. Stored(clone') = Stored(clone)
      BY <1>3, DeliverHistory DEF DeliverClone, TypeOK
    <2>. QED BY <2>1
  <1>4. CASE clone' = clone
    BY <1>4
  <1>. QED
    BY <1>1, <1>2, <1>3, <1>4
    DEF Next, Reconcile, CleanUp, Others, SkipDeployment, ReadDeployment, LabelDeployment,
        LabelFails, GetLabelled, KeepClone, MissSource, CreateKube, KeepKube, PatchKube,
        FindNoKube, PatchStatus, PatchStatusConflict, Fail, DeliverOwner, DeliverKube,
        DeliverSource, DeliverNamespace, Resync, EditSpec, EditEnv, Drift,
        ChangeAvailability, DeleteKube, DeleteOwner, DeleteNamespace, CollectKube,
        SweepSource, FinishNamespace, objects, vars

\* The reconciler implements VersionEnv: each version is given its env once, from what
\* the cache shows of the Service's env Secret.
THEOREM EnvIsGivenOnce == Spec => ImplementsVersionEnv
  <1>1. Init => Env!Init
    BY FreshHistory DEF Init, Env!Init
  <1>. QED
    BY <1>1, TypeCorrect, EnvSteps, PTL DEF Spec, Safety, ImplementsVersionEnv, Env!Spec
---------------------------------------------------------------------------
(* The report *)

\* Versions that claim to be available only if something has been.
HonestOwners(was) == {o \in OwnerVersions : o.ready = "available" => was = TRUE}
HonestKubes(was) == {k \in KubeVersions : k.available = TRUE => was = TRUE}

\* Whatever the cache may still show, and the copy the reconcile goes by, is honest.
ServedInv ==
    /\ owner \in Histories(HonestOwners(served) \cup {Absent})
    /\ kube \in Histories(HonestKubes(served) \cup {Absent})
    /\ run.local \in HonestOwners(served)

\* Nothing claims anything at first.
LEMMA InitServed == Init => ServedInv
  <1>. SUFFICES ASSUME Init PROVE ServedInv
    OBVIOUS
  <1>1. \A labelled \in BOOLEAN : NewOwner(labelled) \in HonestOwners(served)
    BY NewTypes DEF NewOwner, HonestOwners
  <1>2. owner \in Histories(HonestOwners(served) \cup {Absent})
    <2>1. PICK labelled \in BOOLEAN : owner = Fresh(NewOwner(labelled))
      BY DEF Init
    <2>. QED BY <1>1, <2>1, FreshHistory
  <1>3. kube \in Histories(HonestKubes(served) \cup {Absent})
    BY FreshHistory DEF Init
  <1>4. run.local = NewOwner(TRUE)
    BY DEF Init, Idle
  <1>. QED BY <1>1, <1>2, <1>3, <1>4 DEF ServedInv

\* What the cache shows and the server stores is honest, and so is what is written.
LEMMA HonestHistories ==
    ASSUME ServedInv
    PROVE  /\ Cached(owner) \in HonestOwners(served) \cup {Absent}
           /\ Stored(owner) \in HonestOwners(served) \cup {Absent}
           /\ Cached(kube) \in HonestKubes(served) \cup {Absent}
           /\ Stored(kube) \in HonestKubes(served) \cup {Absent}
           /\ \A o \in HonestOwners(served) \cup {Absent} :
                 Put(owner, o) \in Histories(HonestOwners(served) \cup {Absent})
           /\ \A k \in HonestKubes(served) \cup {Absent} :
                 Put(kube, k) \in Histories(HonestKubes(served) \cup {Absent})
           /\ NewOwner(TRUE) \in HonestOwners(served) /\ Idle.local \in HonestOwners(served)
  <1>1. NewOwner(TRUE) \in HonestOwners(served)
    BY NewTypes DEF NewOwner, HonestOwners
  <1>2. Idle.local = NewOwner(TRUE)
    BY DEF Idle
  <1>. QED BY <1>1, <1>2, HistoryEnds, PutHistory DEF ServedInv

\* An edit that makes no claim leaves an honest version honest.
LEMMA HonestEdits ==
    /\ \A o \in HonestOwners(served) :
          /\ [o EXCEPT !.labelled = TRUE] \in HonestOwners(served)
          /\ o.spec < MaxSpec => [o EXCEPT !.spec = @ + 1] \in HonestOwners(served)
          /\ \A r \in Reports : (r = "available" => served = TRUE)
                => [o EXCEPT !.ready = r] \in HonestOwners(served)
    /\ \A k \in HonestKubes(served), spec \in 1 .. MaxSpec :
          [k EXCEPT !.spec = spec] \in HonestKubes(served)
    /\ \A spec \in 1 .. MaxSpec :
          [spec |-> spec, available |-> FALSE] \in HonestKubes(served)
  <1>1. ASSUME NEW o \in HonestOwners(served)
        PROVE  /\ [o EXCEPT !.labelled = TRUE] \in HonestOwners(served)
               /\ o.spec < MaxSpec => [o EXCEPT !.spec = @ + 1] \in HonestOwners(served)
               /\ \A r \in Reports : (r = "available" => served = TRUE)
                     => [o EXCEPT !.ready = r] \in HonestOwners(served)
    <2>1. o \in OwnerVersions /\ (o.ready = "available" => served = TRUE)
      BY DEF HonestOwners
    <2>2. /\ [o EXCEPT !.labelled = TRUE].ready = o.ready
          /\ [o EXCEPT !.spec = @ + 1].ready = o.ready
          /\ \A r \in Reports : [o EXCEPT !.ready = r].ready = r
      BY <2>1 DEF OwnerVersions
    <2>. QED BY <2>1, <2>2, EditedTypes DEF HonestOwners
  <1>2. ASSUME NEW k \in HonestKubes(served), NEW spec \in 1 .. MaxSpec
        PROVE  [k EXCEPT !.spec = spec] \in HonestKubes(served)
    BY EditedTypes DEF HonestKubes, KubeVersions
  <1>3. ASSUME NEW spec \in 1 .. MaxSpec
        PROVE  [spec |-> spec, available |-> FALSE] \in HonestKubes(served)
    BY EditedTypes DEF HonestKubes
  <1>. QED BY <1>1, <1>2, <1>3

\* What a reconcile goes by is what it went by, a new copy of what the cache shows, or
\* nothing.
LEMMA LocalSteps ==
    ASSUME TypeOK, [Next]_vars
    PROVE  \/ run'.local \in {run.local, Idle.local}
           \/ run'.local = Cached(owner) /\ Cached(owner) # Absent
  <1>1. Retry => run'.local = Idle.local
    BY DEF Retry
  <1>2. \A step \in Steps : GoOn(step) => run'.local = run.local
    BY DEF GoOn, TypeOK, Runs
  <1>3. \A step \in Steps : GoOnCreated(step) => run'.local \in {run.local, Idle.local}
    BY <1>1, <1>2 DEF GoOnCreated
  <1>4. CASE run' = run \/ run' = Idle
    BY <1>4
  <1>5. CASE ReadDeployment \/ GetLabelled
    <2>1. CASE ReadDeployment
      BY <2>1 DEF ReadDeployment, Proceeds
    <2>2. CASE GetLabelled
      BY <1>1, <2>2 DEF GetLabelled
    <2>. QED BY <1>5, <2>1, <2>2
  <1>6. CASE LabelDeployment
    BY <1>6 DEF LabelDeployment, Idle
  <1>7. CASE CloneEnv \/ KeepClone \/ MissSource
    BY <1>1, <1>2, <1>3, <1>7 DEF CloneEnv, KeepClone, MissSource, Steps
  <1>8. CASE CreateKube \/ KeepKube \/ PatchKube
    BY <1>1, <1>2, <1>3, <1>8 DEF CreateKube, KeepKube, PatchKube, Steps
  <1>9. CASE Fail
    BY <1>1, <1>9 DEF Fail
  <1>. QED
    BY <1>4, <1>5, <1>6, <1>7, <1>8, <1>9
    DEF Next, Reconcile, CleanUp, Others, SkipDeployment, LabelFails, FindNoKube, PatchStatus,
        PatchStatusConflict, DeliverOwner, DeliverClone, DeliverKube, DeliverSource,
        DeliverNamespace, Resync, EditSpec, EditEnv, Drift, ChangeAvailability, DeleteKube,
        DeleteOwner, DeleteNamespace, CollectClone, CollectKube, SweepSource,
        FinishNamespace, objects, vars

\* The step that reports writes what the cache shows of the Kubernetes Deployment.
LEMMA HonestReport ==
    ASSUME TypeOK, ServedInv, PatchStatus
    PROVE  owner' \in Histories(HonestOwners(served) \cup {Absent})
  <1>. USE HonestHistories
  <1>1. CASE Stored(owner) = Absent
    BY <1>1 DEF PatchStatus, ServedInv
  <1>2. CASE Stored(owner) # Absent
    <2> DEFINE merged == Merged(run.local.ready, Report, Stored(owner).ready)
    <2>1. Report \in Reports /\ (Report = "available" => served = TRUE)
      BY DEF PatchStatus, Report, Reports, HonestKubes, KubeVersions
    <2>2. /\ Stored(owner).ready \in Reports
          /\ Stored(owner).ready = "available" => served = TRUE
      BY <1>2 DEF HonestOwners, OwnerVersions
    <2>3. merged \in Reports /\ (merged = "available" => served = TRUE)
      BY <2>1, <2>2 DEF Merged
    <2>4. owner' = Put(owner, [Stored(owner) EXCEPT !.ready = merged])
      BY <1>2 DEF PatchStatus
    <2> HIDE DEF merged
    <2>5. [Stored(owner) EXCEPT !.ready = merged] \in HonestOwners(served)
      BY <1>2, <2>3, HonestEdits
    <2>. QED BY <2>4, <2>5
  <1>. QED BY <1>1, <1>2

\* Every step keeps the versions of the Deployment honest; what has been honest stays so
\* when something becomes available.
LEMMA StepServed == TypeOK /\ ServedInv /\ [Next]_vars => ServedInv'
  <1>. SUFFICES ASSUME TypeOK, ServedInv, [Next]_vars PROVE ServedInv'
    OBVIOUS
  <1>. USE HonestHistories
  <1>1. run'.local \in HonestOwners(served)
    BY LocalSteps DEF ServedInv
  <1>2. CASE ChangeAvailability
    <2>1. served' = TRUE /\ owner' = owner
      BY <1>2 DEF ChangeAvailability
    <2>2. HonestOwners(served) \cup {Absent} \subseteq HonestOwners(served') \cup {Absent}
      BY <2>1 DEF HonestOwners
    <2>3. KubeVersions \cup {Absent} \subseteq HonestKubes(served') \cup {Absent}
      BY <2>1 DEF HonestKubes
    <2>4. kube' \in Histories(KubeVersions \cup {Absent})
      BY StepType DEF TypeOK
    <2>5. owner' \in Histories(HonestOwners(served') \cup {Absent})
      BY <2>1, <2>2, LargerHistories DEF ServedInv
    <2>6. kube' \in Histories(HonestKubes(served') \cup {Absent})
      BY <2>3, <2>4, LargerHistories
    <2>7. run'.local \in HonestOwners(served')
      BY <1>1, <2>1 DEF HonestOwners
    <2>. QED BY <2>5, <2>6, <2>7 DEF ServedInv
  <1>3. CASE served' = served /\ owner' = owner /\ kube' = kube
    BY <1>1, <1>3 DEF ServedInv
  <1>4. CASE LabelDeployment \/ EditSpec \/ DeleteOwner \/ PatchStatus \/ DeliverOwner
    <2>1. served' = served /\ kube' = kube
      BY <1>4 DEF LabelDeployment, EditSpec, DeleteOwner, PatchStatus, DeliverOwner
    <2>2. owner' \in Histories(HonestOwners(served) \cup {Absent})
      <3>1. CASE LabelDeployment
        BY <3>1, HonestEdits DEF LabelDeployment, Proceeds
      <3>2. CASE EditSpec
        BY <3>2, HonestEdits DEF EditSpec
      <3>3. CASE DeleteOwner
        BY <3>3 DEF DeleteOwner
      <3>4. CASE DeliverOwner
        BY <3>4, DeliverHistory DEF DeliverOwner, ServedInv
      <3>. QED BY <1>4, <3>1, <3>2, <3>3, <3>4, HonestReport
    <2>. QED BY <1>1, <2>1, <2>2 DEF ServedInv
  <1>5. CASE \/ CreateKube \/ PatchKube \/ (\E spec \in 1 .. MaxSpec : Drift(spec))
             \/ CollectKube \/ DeleteKube \/ DeliverKube
    <2>1. served' = served /\ owner' = owner
      BY <1>5 DEF CreateKube, PatchKube, Drift, CollectKube, DeleteKube, DeliverKube
    <2>2. run.local.spec \in 1 .. MaxSpec
      BY ReadsType DEF OwnerVersions
    <2>3. kube' \in Histories(HonestKubes(served) \cup {Absent})
      <3>1. CASE CreateKube
        BY <2>2, <3>1, HonestEdits DEF CreateKube, Created, ServedInv
      <3>2. CASE PatchKube
        <4>1. CASE Stored(kube) = Absent
          BY <3>2, <4>1 DEF PatchKube, ServedInv
        <4>2. CASE Stored(kube) # Absent
          <5>1. [Stored(kube) EXCEPT !.spec = run.local.spec] \in HonestKubes(served)
            BY <2>2, <4>2, HonestEdits
          <5>. QED BY <3>2, <4>2, <5>1 DEF PatchKube
        <4>. QED BY <4>1, <4>2
      <3>3. CASE \E spec \in 1 .. MaxSpec : Drift(spec)
        <4>1. PICK spec \in 1 .. MaxSpec : Drift(spec)
          BY <3>3
        <4>. QED BY <4>1, HonestEdits DEF Drift
      <3>4. CASE CollectKube \/ DeleteKube
        BY <3>4 DEF CollectKube, DeleteKube
      <3>5. CASE DeliverKube
        BY <3>5, DeliverHistory DEF DeliverKube, ServedInv
      <3>. QED BY <1>5, <3>1, <3>2, <3>3, <3>4, <3>5
    <2>. QED BY <1>1, <2>1, <2>3 DEF ServedInv
  <1>. QED
    BY <1>2, <1>3, <1>4, <1>5
    DEF Next, Reconcile, CleanUp, Others, SkipDeployment, ReadDeployment, LabelFails,
        GetLabelled, CloneEnv, KeepClone, MissSource, KeepKube, FindNoKube,
        PatchStatusConflict, Fail, DeliverClone, DeliverSource, DeliverNamespace, Resync,
        EditEnv, DeleteNamespace, CollectClone, SweepSource, FinishNamespace, objects, vars

\* Ready, which is what gives a version its traffic, is never claimed for one that was
\* not available before, however old the copies are that the claim was made from.
THEOREM ReadyIsEarned == Spec => []ReadyWasServed
  <1>1. TypeOK /\ ServedInv => ReadyWasServed
    BY HonestHistories DEF TypeOK, HonestOwners, ReadyWasServed
  <1>. QED
    BY <1>1, InitType, StepType, InitServed, StepServed, PTL DEF Spec, Safety
---------------------------------------------------------------------------
(* At rest *)

\* What is deleted does not come back: neither the Deployment nor a namespace that lives.
NoneReturns ==
    /\ Stored(owner) \in OwnerVersions => \A i \in 1 .. Len(owner) : owner[i] \in OwnerVersions
    /\ Stored(namespace) \in {"live"} =>
          \A i \in 1 .. Len(namespace) : namespace[i] \in {"live"}

\* A reconcile that no event has come after goes by what the cache shows, and its
\* Deployment has its labels, or the event of that write is under way.
CopyCurrent ==
    /\ run.step = "get" => Pending(owner)
    /\ run.step \in {"env", "kube", "report"} =>
          run.local = Cached(owner) /\ (Cached(owner).labelled \/ Pending(owner))

\* What it has done by then is there, or the event that tells otherwise is under way.
CloneDone ==
    run.step \in {"kube", "report", "idle"} /\ ~Pending(clone) => Stored(clone) # Absent

KubeDone ==
    run.step \in {"report", "idle"} /\ ~Pending(kube) =>
        Stored(kube) # Absent /\ Stored(kube).spec = Cached(owner).spec

Reported ==
    run.step = "idle" /\ ~Pending(owner) /\ ~Pending(kube) =>
        /\ Stored(owner).labelled
        /\ Stored(owner).ready = IF Stored(kube).available THEN "available" ELSE "progressing"

\* What makes RestsConverged inductive, for a Deployment that lives.
RestInv ==
    /\ NoneReturns
    /\ ~queued /\ ~OwnerGone => CopyCurrent /\ CloneDone /\ KubeDone /\ Reported

\* The first reconcile is still in the queue.
LEMMA InitRest == Init => RestInv
  <1>. SUFFICES ASSUME Init PROVE RestInv
    OBVIOUS
  <1>1. \A v : Stored(Fresh(v)) = v /\ Len(Fresh(v)) = 1 /\ Fresh(v)[1] = v
    BY DEF Stored, Fresh
  <1>2. NoneReturns
    <2>1. PICK v : owner = Fresh(v)
      BY DEF Init
    <2>2. namespace = Fresh("live")
      BY DEF Init
    <2>. QED BY <1>1, <2>1, <2>2 DEF NoneReturns
  <1>. QED BY <1>2 DEF Init, RestInv

\* The Deployment is written only where there is one.
LEMMA OwnerSteps ==
    ASSUME TypeOK, [Next]_vars
    PROVE  \/ owner' = owner
           \/ DeliverOwner
           \/ /\ Stored(owner) \in OwnerVersions
              /\ \E o \in OwnerVersions \cup {Absent} : owner' = Put(owner, o)
  <1>. USE ReadsType, EditedTypes
  <1>1. CASE LabelDeployment
    BY <1>1 DEF LabelDeployment, Proceeds
  <1>2. CASE PatchStatus
    <2>. DEFINE ready == Merged(run.local.ready, Report, Stored(owner).ready)
    <2>1. Stored(owner) # Absent => ready \in Reports
      BY DEF Merged, Report, Reports, OwnerVersions
    <2>2. Stored(owner) # Absent => owner' = Put(owner, [Stored(owner) EXCEPT !.ready = ready])
      BY <1>2 DEF PatchStatus
    <2>3. Stored(owner) = Absent => owner' = owner
      BY <1>2 DEF PatchStatus
    <2>. HIDE DEF ready
    <2>. QED BY <2>1, <2>2, <2>3
  <1>3. CASE EditSpec
    BY <1>3 DEF EditSpec
  <1>4. CASE DeleteOwner
    BY <1>4 DEF DeleteOwner
  <1>. QED
    BY <1>1, <1>2, <1>3, <1>4
    DEF Next, Reconcile, CleanUp, Others, SkipDeployment, ReadDeployment, LabelFails,
        GetLabelled, CloneEnv, KeepClone, MissSource, CreateKube, KeepKube, PatchKube,
        FindNoKube, PatchStatusConflict, Fail, DeliverClone, DeliverKube, DeliverSource,
        DeliverNamespace, Resync, EditEnv, Drift, ChangeAvailability, DeleteKube,
        DeleteNamespace, CollectClone, CollectKube, SweepSource, FinishNamespace, objects, vars

\* A namespace is only ever written to end it.
LEMMA NamespaceSteps ==
    ASSUME TypeOK, [Next]_vars
    PROVE  \/ namespace' = namespace
           \/ Pending(namespace) /\ namespace' = Deliver(namespace)
           \/ \E n \in NamespaceVersions \ {"live"} : namespace' = Put(namespace, n)
  <1>1. CASE DeleteNamespace
    BY <1>1 DEF DeleteNamespace, NamespaceVersions
  <1>2. CASE FinishNamespace
    BY <1>2, AbsentAssumption DEF FinishNamespace, NamespaceVersions
  <1>3. CASE DeliverNamespace
    BY <1>3 DEF DeliverNamespace
  <1>. QED
    BY <1>1, <1>2, <1>3
    DEF Next, Reconcile, CleanUp, Others, SkipDeployment, ReadDeployment, LabelDeployment,
        LabelFails, GetLabelled, CloneEnv, KeepClone, MissSource, CreateKube, KeepKube,
        PatchKube, FindNoKube, PatchStatus, PatchStatusConflict, Fail, DeliverOwner,
        DeliverClone, DeliverKube, DeliverSource, Resync, EditSpec, EditEnv, Drift,
        ChangeAvailability, DeleteKube, DeleteOwner, CollectClone, CollectKube, SweepSource,
        objects, vars

\* The clone and the Kubernetes Deployment are written or delivered.
LEMMA ChildSteps ==
    ASSUME TypeOK, [Next]_vars
    PROVE  /\ \/ clone' = clone \/ DeliverClone
              \/ \E d \in EnvData \cup {Absent} : clone' = Put(clone, d)
           /\ \/ kube' = kube \/ DeliverKube
              \/ \E k \in KubeVersions \cup {Absent} : kube' = Put(kube, k)
  <1>. USE ReadsType, EditedTypes
  <1>1. \/ clone' = clone \/ DeliverClone
        \/ \E d \in EnvData \cup {Absent} : clone' = Put(clone, d)
    <2>1. CASE CloneEnv
      BY <2>1 DEF CloneEnv, Created
    <2>2. CASE CollectClone
      BY <2>2 DEF CollectClone
    <2>. QED
      BY <2>1, <2>2
      DEF Next, Reconcile, CleanUp, Others, SkipDeployment, ReadDeployment, LabelDeployment,
          LabelFails, GetLabelled, KeepClone, MissSource, CreateKube, KeepKube, PatchKube,
          FindNoKube, PatchStatus, PatchStatusConflict, Fail, DeliverOwner, DeliverKube,
          DeliverSource, DeliverNamespace, Resync, EditSpec, EditEnv, Drift,
          ChangeAvailability, DeleteKube, DeleteOwner, DeleteNamespace, CollectKube,
          SweepSource, FinishNamespace, objects, vars
  <1>2. \/ kube' = kube \/ DeliverKube
        \/ \E k \in KubeVersions \cup {Absent} : kube' = Put(kube, k)
    <2>0. run.local.spec \in 1 .. MaxSpec
      BY DEF OwnerVersions
    <2>1. CASE CreateKube
      BY <2>0, <2>1 DEF CreateKube, Created
    <2>2. CASE PatchKube
      BY <2>0, <2>2 DEF PatchKube
    <2>3. ASSUME NEW spec \in 1 .. MaxSpec, Drift(spec)
          PROVE  \E k \in KubeVersions \cup {Absent} : kube' = Put(kube, k)
      BY <2>3 DEF Drift
    <2>4. CASE ChangeAvailability
      BY <2>4 DEF ChangeAvailability
    <2>5. CASE DeleteKube \/ CollectKube
      BY <2>5 DEF DeleteKube, CollectKube
    <2>. QED
      BY <2>1, <2>2, <2>3, <2>4, <2>5
      DEF Next, Reconcile, CleanUp, Others, SkipDeployment, ReadDeployment, LabelDeployment,
          LabelFails, GetLabelled, CloneEnv, KeepClone, MissSource, KeepKube, FindNoKube,
          PatchStatus, PatchStatusConflict, Fail, DeliverOwner, DeliverClone, DeliverSource,
          DeliverNamespace, Resync, EditSpec, EditEnv, DeleteOwner, DeleteNamespace,
          CollectClone, SweepSource, FinishNamespace, objects, vars
  <1>. QED BY <1>1, <1>2

\* What is deleted stays deleted.
LEMMA StepReturns == TypeOK /\ NoneReturns /\ [Next]_vars => NoneReturns'
  <1>. SUFFICES ASSUME TypeOK, NoneReturns, [Next]_vars PROVE NoneReturns'
    OBVIOUS
  <1>0. /\ owner \in Histories(OwnerVersions \cup {Absent})
        /\ namespace \in Histories(NamespaceVersions)
    BY DEF TypeOK, NamespaceVersions
  <1>1. Stored(owner') \in OwnerVersions =>
           \A i \in 1 .. Len(owner') : owner'[i] \in OwnerVersions
    <2>1. Stored(owner) \in OwnerVersions =>
             \A i \in 1 .. Len(owner) : owner[i] \in OwnerVersions
      BY DEF NoneReturns
    <2>. QED BY <1>0, <2>1, OwnerSteps, NeverBack DEF DeliverOwner
  <1>2. Stored(namespace') \in {"live"} =>
           \A i \in 1 .. Len(namespace') : namespace'[i] \in {"live"}
    <2>1. Stored(namespace) \in {"live"} =>
             \A i \in 1 .. Len(namespace) : namespace[i] \in {"live"}
      BY DEF NoneReturns
    <2>. QED BY <1>0, <2>1, NamespaceSteps, NeverBack
  <1>. QED BY <1>1, <1>2 DEF NoneReturns

\* As long as no key is queued, the cache of what is watched stands still.
LEMMA QuietSteps ==
    ASSUME TypeOK, [Next]_vars, ~queued'
    PROVE  /\ Cached(owner') = Cached(owner)
           /\ Cached(kube') = Cached(kube)
           /\ Pending(owner) => Pending(owner')
           /\ Pending(clone) => Pending(clone')
           /\ Pending(kube) => Pending(kube')
           /\ ~Pending(owner') => owner' = owner
           /\ ~Pending(clone') => clone' = clone
           /\ ~Pending(kube') => kube' = kube
  <1>1. ~ (DeliverOwner \/ DeliverClone \/ DeliverKube)
    BY DEF DeliverOwner, DeliverClone, DeliverKube
  <1>2. /\ owner \in Histories(OwnerVersions \cup {Absent})
        /\ clone \in Histories(EnvData \cup {Absent})
        /\ kube \in Histories(KubeVersions \cup {Absent})
    BY DEF TypeOK
  <1>3. /\ Cached(owner') = Cached(owner)
        /\ Pending(owner) => Pending(owner')
        /\ ~Pending(owner') => owner' = owner
    BY <1>1, <1>2, OwnerSteps, WrittenOnly
  <1>4. /\ Pending(clone) => Pending(clone')
        /\ ~Pending(clone') => clone' = clone
    BY <1>1, <1>2, ChildSteps, WrittenOnly
  <1>5. /\ Cached(kube') = Cached(kube)
        /\ Pending(kube) => Pending(kube')
        /\ ~Pending(kube') => kube' = kube
    BY <1>1, <1>2, ChildSteps, WrittenOnly
  <1>. QED BY <1>3, <1>4, <1>5

\* Where a reconcile that goes on without an error is next.
LEMMA GoesOn ==
    ASSUME TypeOK, ~queued'
    PROVE  /\ ~Retry
           /\ \A step \in Steps : GoOn(step) \/ GoOnCreated(step) =>
                 run'.step = step /\ run'.local = run.local /\ ~queued
  <1>1. ~Retry
    BY DEF Retry
  <1>2. \A step \in Steps : GoOn(step) =>
           run'.step = step /\ run'.local = run.local /\ ~queued
    BY DEF GoOn, TypeOK, Runs
  <1>. QED BY <1>1, <1>2 DEF GoOnCreated

\* A step that queues nothing keeps what a reconcile of a living Deployment knows and has
\* done: one case per action.
LEMMA StepCalm ==
    ASSUME TypeOK, RestInv, [Next]_vars, ~queued', ~OwnerGone'
    PROVE  CopyCurrent' /\ CloneDone' /\ KubeDone' /\ Reported'
  <1>. USE ReadsType
  <1>0. /\ ~OwnerGone /\ Stored(owner) \in OwnerVersions /\ Cached(owner) \in OwnerVersions
        /\ Cached(namespace) = "live" /\ Stored(namespace) = "live"
    <2>1. ~OwnerGone
      BY CloneSteps DEF CloneStep
    <2>2. /\ Cached(owner) = owner[1] /\ 1 \in 1 .. Len(owner)
          /\ Cached(namespace) = namespace[1] /\ 1 \in 1 .. Len(namespace)
      BY HistoryEnds DEF TypeOK, Histories, Cached
    <2>. QED BY <2>1, <2>2 DEF OwnerGone, RestInv, NoneReturns
  <1>1. /\ owner \in Histories(OwnerVersions \cup {Absent})
        /\ clone \in Histories(EnvData \cup {Absent})
        /\ kube \in Histories(KubeVersions \cup {Absent})
    BY DEF TypeOK
  <1>2. /\ ~Pending(owner) => Cached(owner) = Stored(owner)
        /\ ~Pending(clone) => Cached(clone) = Stored(clone)
        /\ ~Pending(kube) => Cached(kube) = Stored(kube)
    BY <1>1, CurrentCache
  <1>. USE QuietSteps
  <1>3. CASE ReadDeployment
    BY <1>0, <1>3 DEF ReadDeployment, NeedsMetadata, objects, CopyCurrent, CloneDone, KubeDone,
                      Reported
  <1>4. CASE LabelDeployment
    <2>. DEFINE o == [Stored(owner) EXCEPT !.labelled = TRUE]
    <2>1. o \in OwnerVersions /\ o.labelled # Stored(owner).labelled
      BY <1>0, <1>4 DEF LabelDeployment, NeedsMetadata, OwnerVersions
    <2>2. owner' = Put(owner, o) /\ run'.step = "get"
      BY <1>4 DEF LabelDeployment, Idle
    <2>. HIDE DEF o
    <2>3. Pending(owner')
      BY <1>1, <2>1, <2>2, PutPending
    <2>. QED BY <2>2, <2>3 DEF CopyCurrent, CloneDone, KubeDone, Reported
  <1>5. CASE GetLabelled
    <2>1. run'.step = "env" /\ run'.local = Cached(owner) /\ ~queued /\ owner' = owner
          /\ run.step = "get"
      BY <1>0, <1>5, AbsentAssumption DEF GetLabelled, objects
    <2>. QED BY <1>0, <2>1 DEF RestInv, CopyCurrent, CloneDone, KubeDone, Reported
  <1>6. CASE CloneEnv \/ KeepClone
    <2>1. /\ run.step = "env" /\ run'.step = "kube" /\ run'.local = run.local /\ ~queued
          /\ owner' = owner
      BY <1>6, GoesOn DEF CloneEnv, KeepClone, objects, Steps
    <2>2. ~Pending(clone') => Stored(clone') # Absent
      <3>1. CASE CloneEnv
        <4>1. ~Pending(clone') => clone' = clone /\ Stored(clone) = Absent
          BY <1>2, <3>1 DEF CloneEnv
        <4>2. Stored(clone) = Absent => clone' = Put(clone, Cached(source))
          BY <1>0, <3>1 DEF CloneEnv, Created
        <4>. QED BY <3>1, <4>1, <4>2, Writes DEF CloneEnv
      <3>2. CASE KeepClone
        BY <1>2, <3>2 DEF KeepClone, objects
      <3>. QED BY <1>6, <3>1, <3>2
    <2>3. CopyCurrent
      BY <1>0, <2>1 DEF RestInv
    <2>. QED BY <2>1, <2>2, <2>3 DEF CopyCurrent, CloneDone, KubeDone, Reported
  <1>7. CASE CreateKube \/ KeepKube \/ PatchKube
    <2>1. /\ run.step = "kube" /\ run'.step = "report" /\ run'.local = run.local /\ ~queued
          /\ owner' = owner /\ clone' = clone
      BY <1>7, GoesOn DEF CreateKube, KeepKube, PatchKube, objects, Steps
    <2>2. CopyCurrent /\ CloneDone /\ run.local = Cached(owner)
      BY <1>0, <2>1 DEF RestInv, CopyCurrent
    <2>3. ~Pending(kube') => Stored(kube') # Absent /\ Stored(kube').spec = run.local.spec
      <3>. SUFFICES ASSUME ~Pending(kube')
                    PROVE  Stored(kube') # Absent /\ Stored(kube').spec = run.local.spec
        OBVIOUS
      <3>1. kube' = kube /\ ~Pending(kube) /\ Cached(kube) = Stored(kube)
        BY <1>2
      <3>2. CASE CreateKube
        <4>. DEFINE k == [spec |-> run.local.spec, available |-> FALSE]
        <4>1. k \in KubeVersions
          BY EditedTypes DEF OwnerVersions
        <4>2. kube' = Put(kube, k) /\ Stored(kube) = Absent
          BY <1>0, <3>1, <3>2 DEF CreateKube, Created
        <4>. HIDE DEF k
        <4>3. Stored(kube) = k
          BY <3>1, <4>1, <4>2, Writes
        <4>. QED BY <4>1, <4>2, <4>3, AbsentAssumption
      <3>3. CASE KeepKube
        BY <3>1, <3>3 DEF KeepKube
      <3>4. CASE PatchKube
        <4>. DEFINE k == [Stored(kube) EXCEPT !.spec = run.local.spec]
        <4>1. Stored(kube) \in KubeVersions /\ Stored(kube).spec # run.local.spec
          BY <3>1, <3>4 DEF PatchKube
        <4>2. k \in KubeVersions /\ k.spec = run.local.spec
          BY <4>1 DEF KubeVersions, OwnerVersions
        <4>3. kube' = Put(kube, k)
          BY <3>4, <4>1, AbsentAssumption DEF PatchKube
        <4>. HIDE DEF k
        <4>. QED BY <3>1, <4>1, <4>2, <4>3, Writes
      <3>. QED BY <1>7, <3>2, <3>3, <3>4
    <2>. QED BY <2>1, <2>2, <2>3 DEF CopyCurrent, CloneDone, KubeDone, Reported
  <1>8. CASE FindNoKube
    <2>1. /\ UNCHANGED <<owner, clone, kube>> /\ run'.step = "idle" /\ ~queued
          /\ run.step = "report" /\ Cached(kube) = Absent
      BY <1>8 DEF FindNoKube, objects, Idle
    <2>2. CloneDone /\ KubeDone
      BY <1>0, <2>1 DEF RestInv
    <2>3. Pending(kube)
      BY <1>2, <2>1, <2>2 DEF KubeDone
    <2>. QED BY <2>1, <2>2, <2>3 DEF CopyCurrent, CloneDone, KubeDone, Reported
  <1>9. CASE PatchStatusConflict
    <2>1. /\ UNCHANGED <<owner, clone, kube>> /\ run'.step = "idle" /\ ~queued
          /\ run.step = "report" /\ Stored(owner) # run.local
      BY <1>9 DEF PatchStatusConflict, objects, Idle
    <2>2. CopyCurrent /\ CloneDone /\ KubeDone
      BY <1>0, <2>1 DEF RestInv
    <2>3. Pending(owner)
      BY <1>2, <2>1, <2>2 DEF CopyCurrent
    <2>. QED BY <2>1, <2>2, <2>3 DEF CopyCurrent, CloneDone, KubeDone, Reported
  <1>10. CASE PatchStatus
    <2>. DEFINE ready == Merged(run.local.ready, Report, Stored(owner).ready)
                o == [Stored(owner) EXCEPT !.ready = ready]
    <2>1. /\ owner' = Put(owner, o) /\ UNCHANGED <<clone, kube>>
          /\ run'.step = "idle" /\ run.step = "report" /\ ~queued
      BY <1>0, <1>10, AbsentAssumption DEF PatchStatus, Idle
    <2>2. CopyCurrent /\ CloneDone /\ KubeDone
      BY <1>0, <2>1 DEF RestInv
    <2>3. o \in OwnerVersions /\ o.ready = ready
      BY <1>0 DEF Merged, Report, Reports, OwnerVersions
    <2>4. CloneDone' /\ KubeDone'
      BY <2>1, <2>2 DEF CloneDone, KubeDone
    <2>. HIDE DEF o
    <2>5. ASSUME ~Pending(owner'), ~Pending(kube')
          PROVE  /\ Stored(owner').labelled
                 /\ Stored(owner').ready =
                       IF Stored(kube').available THEN "available" ELSE "progressing"
      <3>1. owner' = owner /\ o = Stored(owner) /\ Cached(owner) = Stored(owner)
        BY <1>1, <1>2, <2>1, <2>3, <2>5, PutPending
      <3>2. run.local = Stored(owner) /\ Stored(owner).labelled
        BY <2>1, <2>2, <2>5, <3>1 DEF CopyCurrent
      <3>3. Stored(owner).ready = Report
        BY <2>3, <3>1, <3>2 DEF Merged
      <3>4. Cached(kube) = Stored(kube)
        BY <1>2, <2>1, <2>5
      <3>. QED BY <2>1, <3>1, <3>2, <3>3, <3>4 DEF Report
    <2>. QED BY <2>1, <2>4, <2>5 DEF CopyCurrent, Reported
  <1>11. CASE run' = run /\ queued' = queued
    <2>1. CopyCurrent /\ CloneDone /\ KubeDone /\ Reported
      BY <1>0, <1>11 DEF RestInv
    <2>. QED BY <1>11, <2>1 DEF CopyCurrent, CloneDone, KubeDone, Reported
  <1>12. ~ (SkipDeployment \/ MissSource \/ Fail \/ DeliverOwner \/ DeliverClone
            \/ DeliverKube \/ Resync)
    BY <1>0, GoesOn, AbsentAssumption
    DEF SkipDeployment, Proceeds, MissSource, Fail, DeliverOwner, DeliverClone, DeliverKube,
        Resync
  <1>. QED
    BY <1>3, <1>4, <1>5, <1>6, <1>7, <1>8, <1>9, <1>10, <1>11, <1>12
    DEF Next, Reconcile, CleanUp, Others, LabelFails, DeliverSource, DeliverNamespace,
        EditSpec, EditEnv, Drift, ChangeAvailability, DeleteKube, DeleteOwner, DeleteNamespace,
        CollectClone, CollectKube, SweepSource, FinishNamespace, objects, vars

\* In every reachable state all of the invariant holds.
LEMMA RestInvariant == Spec => []RestInv
  <1>1. TypeOK /\ RestInv /\ [Next]_vars => RestInv'
    <2>. SUFFICES ASSUME TypeOK, RestInv, [Next]_vars PROVE RestInv'
      OBVIOUS
    <2>1. NoneReturns'
      BY StepReturns DEF RestInv
    <2>. QED BY <2>1, StepCalm DEF RestInv
  <1>. QED BY <1>1, InitRest, TypeCorrect, PTL DEF Spec, Safety

\* The reconciler never comes to rest short of what the Deployment wants: when nothing is
\* under way, the clone, the Kubernetes Deployment and the report are as they should be.
THEOREM RestsAreConverged == Spec => []RestsConverged
  <1>1. TypeOK /\ RestInv => RestsConverged
    <2>. SUFFICES ASSUME TypeOK, RestInv, Quiescent PROVE Converged
      BY DEF RestsConverged
    <2>1. CASE OwnerGone
      BY <2>1 DEF Quiescent, Converged
    <2>2. CASE ~OwnerGone
      <3>1. CopyCurrent /\ CloneDone /\ KubeDone /\ Reported
        BY <2>2 DEF RestInv, Quiescent
      <3>2. Cached(owner) = Stored(owner)
        BY CurrentCache DEF Quiescent, TypeOK
      <3>. QED BY <2>2, <3>1, <3>2 DEF Quiescent, Converged, CloneDone, KubeDone, Reported
    <2>. QED BY <2>1, <2>2
  <1>. QED BY <1>1, TypeCorrect, RestInvariant, PTL
==============================================================================
