---------------------- MODULE ProjectNamespaceProofs ----------------------
(***************************************************************************)
(* Theorems about ProjectNamespace, for every value of its constants: any  *)
(* number of Projects of a name, of Namespaces users make or delete, and   *)
(* of faults.                                                              *)
(***************************************************************************)
EXTENDS ProjectNamespace, ApiObjectTheorems
---------------------------------------------------------------------------
(* Types *)

\* A new Project, a new Namespace and the idle worker have their types.
LEMMA NewTypes ==
    /\ NewProject(1) \in ProjectVersions
    /\ \A managed \in BOOLEAN : NewNamespace(managed) \in NamespaceVersions
    /\ Idle \in Runs
  <1>1. NewProject(1) \in ProjectVersions
    BY BoundsAssumption DEF NewProject, ProjectVersions, Reasons
  <1>2. \A managed \in BOOLEAN : NewNamespace(managed) \in NamespaceVersions
    BY DEF NewNamespace, NamespaceVersions
  <1>. QED BY <1>1, <1>2 DEF Idle, Runs, Steps, EnsureSteps, DeleteSteps, Reasons

\* The first state has the types.
LEMMA InitType == Init => TypeOK
  <1>. SUFFICES ASSUME Init PROVE TypeOK
    OBVIOUS
  <1>1. project \in Histories(ProjectVersions \cup {Absent})
    BY NewTypes, FreshHistory DEF Init
  <1>2. namespace \in Histories(NamespaceVersions \cup {Absent})
    <2>1. \A v \in {Absent, NewNamespace(TRUE), NewNamespace(FALSE)} :
             v \in NamespaceVersions \cup {Absent}
      BY NewTypes
    <2>2. \A v \in {Absent, NewNamespace(TRUE), NewNamespace(FALSE)} :
             Fresh(v) \in Histories(NamespaceVersions \cup {Absent})
      BY <2>1, FreshHistory
    <2>. QED BY <2>2 DEF Init
  <1>3. spent \in [projects : 1 .. MaxProjects, foreign : Nat, deletes : Nat, faults : Nat]
    BY BoundsAssumption DEF Init
  <1>. QED BY <1>1, <1>2, <1>3, NewTypes DEF Init, TypeOK

\* What a reconcile reads has its type.
LEMMA ReadsType ==
    ASSUME TypeOK
    PROVE  /\ Cached(project) \in ProjectVersions \cup {Absent}
           /\ Stored(project) \in ProjectVersions \cup {Absent}
           /\ Cached(namespace) \in NamespaceVersions \cup {Absent}
           /\ Stored(namespace) \in NamespaceVersions \cup {Absent}
           /\ run.local \in ProjectVersions /\ run.reason \in Reasons /\ run.step \in Steps
  BY HistoryEnds DEF TypeOK, Runs

\* A Project or a Namespace keeps its type when somebody changes one of its fields.
LEMMA EditedTypes ==
    /\ \A p \in ProjectVersions :
          /\ [p EXCEPT !.finalizer = TRUE] \in ProjectVersions
          /\ [p EXCEPT !.deleting = TRUE] \in ProjectVersions
          /\ \A reason \in Reasons : [p EXCEPT !.reason = reason] \in ProjectVersions
    /\ \A n \in NamespaceVersions : [n EXCEPT !.deleting = TRUE] \in NamespaceVersions
  BY DEF ProjectVersions, NamespaceVersions

\* Whatever of its type is written to an object, its versions keep their type.
LEMMA WritesType ==
    ASSUME TypeOK
    PROVE  /\ \A p \in ProjectVersions \cup {Absent} :
                 Put(project, p) \in Histories(ProjectVersions \cup {Absent})
           /\ \A n \in NamespaceVersions \cup {Absent} :
                 Put(namespace, n) \in Histories(NamespaceVersions \cup {Absent})
  BY PutHistory DEF TypeOK

\* Each write puts a version of the object's type.
LEMMA StepType == TypeOK /\ [Next]_vars => TypeOK'
  <1>. SUFFICES ASSUME TypeOK, [Next]_vars PROVE TypeOK'
    OBVIOUS
  <1>. USE ReadsType, WritesType, NewTypes, EditedTypes
  <1>1. CASE SkipProject \/ AddFinalizerFails \/ Resync
    BY <1>1 DEF SkipProject, AddFinalizerFails, Resync, TypeOK, vars
  <1>2. CASE ReadProject
    <2>1. run' \in Runs
      BY <1>2, AbsentAssumption DEF ReadProject, Idle, Runs, Steps, EnsureSteps, DeleteSteps
    <2>. QED BY <1>2, <2>1 DEF ReadProject, TypeOK
  <1>3. CASE AddFinalizer
    <2>1. project' \in Histories(ProjectVersions \cup {Absent})
      BY <1>3 DEF AddFinalizer, NeedsFinalizer, TypeOK
    <2>2. run' \in Runs
      BY <1>3 DEF AddFinalizer, Idle, Runs, Steps, EnsureSteps, DeleteSteps
    <2>. QED BY <1>3, <2>1, <2>2 DEF AddFinalizer, TypeOK
  <1>4. CASE GetFinalized
    <2>1. run' \in Runs /\ queued' \in BOOLEAN
      BY <1>4 DEF GetFinalized, Runs, Steps, EnsureSteps, DeleteSteps, TypeOK
    <2>. QED BY <1>4, <2>1 DEF GetFinalized, TypeOK
  <1>5. CASE CreateNamespace
    <2>1. namespace' \in Histories(NamespaceVersions \cup {Absent})
      BY <1>5 DEF CreateNamespace, TypeOK
    <2>2. run' \in Runs /\ queued' \in BOOLEAN
      BY <1>5 DEF CreateNamespace, Report, Runs, Steps, EnsureSteps, DeleteSteps, Reasons, TypeOK
    <2>. QED BY <1>5, <2>1, <2>2 DEF CreateNamespace, TypeOK
  <1>6. CASE CheckNamespace \/ LookForNamespace
    <2>1. run' \in Runs
      <3>1. CASE CheckNamespace
        BY <3>1 DEF CheckNamespace, Report, Runs, Steps, EnsureSteps, DeleteSteps, Reasons,
                    TypeOK
      <3>2. CASE LookForNamespace
        BY <3>2 DEF LookForNamespace, Runs, Steps, EnsureSteps, DeleteSteps, TypeOK
      <3>. QED BY <1>6, <3>1, <3>2
    <2>. QED BY <1>6, <2>1 DEF CheckNamespace, LookForNamespace, TypeOK
  <1>7. CASE PatchStatus
    <2>1. CASE Stored(project) = Absent
      BY <1>7, <2>1 DEF PatchStatus, TypeOK
    <2>2. CASE Stored(project) # Absent
      <3>1. Merged(run.local.reason, run.reason, Stored(project).reason) \in Reasons
        BY <2>2 DEF Merged, ProjectVersions
      <3>2. project' \in Histories(ProjectVersions \cup {Absent})
        BY <1>7, <2>2, <3>1 DEF PatchStatus, TypeOK
      <3>. QED BY <1>7, <2>2, <3>2 DEF PatchStatus, TypeOK
    <2>. QED BY <2>1, <2>2
  <1>8. CASE PatchStatusConflict \/ Fail
    <2>1. spent' \in [projects : 1 .. MaxProjects, foreign : Nat, deletes : Nat, faults : Nat]
      BY <1>8 DEF PatchStatusConflict, Fail, TypeOK
    <2>. QED BY <1>8, <2>1 DEF PatchStatusConflict, Fail, TypeOK
  <1>9. CASE RemoveFinalizer
    <2>1. project' \in Histories(ProjectVersions \cup {Absent})
      BY <1>9 DEF RemoveFinalizer, TypeOK
    <2>. QED BY <1>9, <2>1 DEF RemoveFinalizer, TypeOK
  <1>10. CASE DeleteNamespace
    <2>1. namespace' \in Histories(NamespaceVersions \cup {Absent})
      BY <1>10 DEF DeleteNamespace, Terminated, TypeOK
    <2>. QED BY <1>10, <2>1 DEF DeleteNamespace, TypeOK
  <1>11. CASE DeliverProject
    BY <1>11, DeliverHistory DEF DeliverProject, TypeOK
  <1>12. CASE DeliverNamespace
    BY <1>12, DeliverHistory DEF DeliverNamespace, TypeOK
  <1>13. CASE DeleteProject
    <2>1. project' \in Histories(ProjectVersions \cup {Absent})
      BY <1>13 DEF DeleteProject, TypeOK
    <2>. QED BY <1>13, <2>1 DEF DeleteProject, TypeOK
  <1>14. CASE CreateProject
    <2>1. spent.projects + 1 \in 1 .. MaxProjects
      BY <1>14, BoundsAssumption DEF CreateProject, TypeOK
    <2>2. NewProject(spent.projects + 1) \in ProjectVersions
      BY <2>1 DEF NewProject, ProjectVersions, Reasons
    <2>3. project' \in Histories(ProjectVersions \cup {Absent})
      BY <1>14, <2>2 DEF CreateProject, TypeOK
    <2>4. spent' \in [projects : 1 .. MaxProjects, foreign : Nat, deletes : Nat, faults : Nat]
      BY <1>14, <2>1 DEF CreateProject, TypeOK
    <2>. QED BY <1>14, <2>3, <2>4 DEF CreateProject, TypeOK
  <1>15. CASE CreateForeignNamespace
    <2>1. spent' \in [projects : 1 .. MaxProjects, foreign : Nat, deletes : Nat, faults : Nat]
      BY <1>15 DEF CreateForeignNamespace, TypeOK
    <2>. QED BY <1>15, <2>1 DEF CreateForeignNamespace, TypeOK
  <1>16. CASE DeleteNamespaceByHand
    <2>1. spent' \in [projects : 1 .. MaxProjects, foreign : Nat, deletes : Nat, faults : Nat]
      BY <1>16 DEF DeleteNamespaceByHand, TypeOK
    <2>. QED BY <1>16, <2>1 DEF DeleteNamespaceByHand, TypeOK
  <1>17. CASE FinishNamespace
    BY <1>17 DEF FinishNamespace, TypeOK
  <1>18. CASE UNCHANGED vars
    BY <1>18 DEF vars, TypeOK
  <1>. QED
    BY <1>1, <1>2, <1>3, <1>4, <1>5, <1>6, <1>7, <1>8, <1>9, <1>10, <1>11, <1>12, <1>13,
       <1>14, <1>15, <1>16, <1>17, <1>18 DEF Next, Reconcile, Others

\* ProjectNamespace is well typed: every uid, reason and step is one of those there are.
THEOREM TypeCorrect == Spec => []TypeOK
  BY InitType, StepType, PTL DEF Spec
---------------------------------------------------------------------------
(* The finalizer *)

\* The Project has its finalizer, or has it and is not being deleted.
Bound(p) == p # Absent /\ p.finalizer
Live(p) == Bound(p) /\ ~p.deleting

\* One version may come before another: later Projects have larger uids, and a Project
\* that is being deleted never comes back to life.
Precedes(p, q) ==
    /\ p.uid <= q.uid
    /\ p.deleting => ~Live(q) /\ (~q.finalizer => p.uid < q.uid)

\* The versions the cache still has to see, of at most count Projects.  The last
\* conjunct is why a stale copy does no harm: as long as it can show a Project alive,
\* the Project is there and has its finalizer.
Orderly(history, count) ==
    /\ \A i \in 1 .. Len(history) : history[i] # Absent =>
          history[i].uid <= count /\ (history[i].deleting => history[i].finalizer)
    /\ \A i, j \in 1 .. Len(history) :
          i <= j /\ history[i] # Absent /\ history[j] # Absent
              => Precedes(history[i], history[j])
    /\ \A i \in 1 .. Len(history) : Live(history[i]) => Bound(Stored(history))

\* A reconcile that goes on has a bound Project, and one that ends a Project knows that
\* nothing it may still read shows one alive.
FinalizerInv ==
    /\ Orderly(project, spent.projects)
    /\ run.step \in EnsureSteps => Bound(Stored(project))
    /\ run.step \in DeleteSteps => \A i \in 1 .. Len(project) : ~Live(project[i])

\* The first Project has no finalizer, and no reconcile runs.
LEMMA InitFinalizer == Init => FinalizerInv
  <1>. SUFFICES ASSUME Init PROVE FinalizerInv
    OBVIOUS
  <1>1. Len(project) = 1 /\ project[1] = NewProject(1)
    BY FreshHistory DEF Init
  <1>2. Orderly(project, spent.projects)
    BY <1>1 DEF Init, Orderly, Precedes, Live, Bound, NewProject
  <1>. QED BY <1>2 DEF Init, Idle, FinalizerInv, EnsureSteps, DeleteSteps

\* How a reconcile goes on once it has its copy of the Project.
LEMMA RunSteps ==
    ASSUME TypeOK
    PROVE  /\ GetFinalized =>
                 run.step = "get" /\ ((run' = Idle /\ queued') \/ run'.step = "ensure")
           /\ CheckNamespace =>
                 /\ run.step = "ensure" /\ run'.step \in {"create", "status"}
                 /\ run'.local = run.local
           /\ CreateNamespace =>
                 /\ run.step = "create"
                 /\ \/ run' = Idle /\ queued'
                    \/ run'.step = "status" /\ run'.local = run.local /\ queued' = queued
           /\ LookForNamespace =>
                 /\ run.step = "delete"
                 /\ \/ run' = Idle /\ queued'
                    \/ /\ run'.step \in {"release", "terminate"}
                       /\ run'.local = run.local /\ queued' = queued
           /\ Idle.step = "idle"
  <1>0. run \in [step : Steps, local : ProjectVersions, reason : Reasons]
    BY DEF TypeOK, Runs
  <1>1. GetFinalized => run.step = "get" /\ ((run' = Idle /\ queued') \/ run'.step = "ensure")
    BY <1>0 DEF GetFinalized
  <1>2. CheckNamespace => /\ run.step = "ensure" /\ run'.step \in {"create", "status"}
                          /\ run'.local = run.local
    BY <1>0 DEF CheckNamespace, Report
  <1>3. CreateNamespace =>
           /\ run.step = "create"
           /\ \/ run' = Idle /\ queued'
              \/ run'.step = "status" /\ run'.local = run.local /\ queued' = queued
    BY <1>0 DEF CreateNamespace, Report
  <1>4. LookForNamespace =>
           /\ run.step = "delete"
           /\ \/ run' = Idle /\ queued'
              \/ /\ run'.step \in {"release", "terminate"}
                 /\ run'.local = run.local /\ queued' = queued
    BY <1>0 DEF LookForNamespace
  <1>. QED BY <1>1, <1>2, <1>3, <1>4 DEF Idle

\* What the cache shows and what is stored are the first and the last version.
LEMMA Ends ==
    ASSUME TypeOK
    PROVE  /\ Len(project) \in Nat /\ 1 \in 1 .. Len(project) /\ Len(project) \in 1 .. Len(project)
           /\ Cached(project) = project[1] /\ Stored(project) = project[Len(project)]
           /\ \A i \in 1 .. Len(project) : project[i] \in ProjectVersions \cup {Absent}
           /\ spent.projects \in Nat /\ \A p \in ProjectVersions : p.uid \in Nat
  BY DEF TypeOK, Histories, Cached, Stored, ProjectVersions

\* A written Project shows its earlier versions and the new one.
LEMMA WriteVersions ==
    ASSUME TypeOK, NEW p \in ProjectVersions \cup {Absent}
    PROVE  \A i \in 1 .. Len(Put(project, p)) :
              \/ i \in 1 .. Len(project) /\ Put(project, p)[i] = project[i]
              \/ i = Len(Put(project, p)) /\ Put(project, p)[i] = p
  BY PutVersions DEF TypeOK

\* A version may be written if every earlier one may come before it, and if it is bound
\* in case any of them is alive.
LEMMA WriteOrderly ==
    ASSUME TypeOK, NEW count \in Nat, spent.projects <= count,
           NEW p \in ProjectVersions \cup {Absent},
           Orderly(project, spent.projects),
           p # Absent =>
              /\ p.uid <= count
              /\ p.deleting => p.finalizer
              /\ \A i \in 1 .. Len(project) :
                    project[i] # Absent => Precedes(project[i], p),
           \A i \in 1 .. Len(project) : Live(project[i]) => Bound(p)
    PROVE  Orderly(Put(project, p), count)
  <1>. DEFINE h == Put(project, p)
  <1>. USE Ends
  <1>1. \A i \in 1 .. Len(h) :
           \/ i \in 1 .. Len(project) /\ h[i] = project[i]
           \/ i = Len(h) /\ h[i] = p
    BY WriteVersions
  <1>2. Stored(h) = p
    BY PutHistory DEF TypeOK
  <1>3. \A i \in 1 .. Len(h) : h[i] # Absent =>
           h[i].uid <= count /\ (h[i].deleting => h[i].finalizer)
    BY <1>1 DEF Orderly
  <1>4. ASSUME NEW i \in 1 .. Len(h), NEW j \in 1 .. Len(h), i <= j,
               h[i] # Absent, h[j] # Absent
        PROVE  Precedes(h[i], h[j])
    <2>1. CASE h[j] = p /\ h[i] = p
      BY <2>1, <1>4 DEF Precedes, Live, Bound
    <2>2. CASE h[j] = p /\ i \in 1 .. Len(project) /\ h[i] = project[i]
      BY <2>2, <1>4
    <2>3. CASE j \in 1 .. Len(project) /\ h[j] = project[j]
               /\ i \in 1 .. Len(project) /\ h[i] = project[i]
      BY <2>3, <1>4 DEF Orderly
    <2>4. CASE j \in 1 .. Len(project) /\ h[j] = project[j] /\ i = Len(h) /\ h[i] = p
      <3>1. i = j
        BY <2>4, <1>4 DEF Put, TypeOK, Histories
      <3>. QED BY <2>4, <3>1, <1>4 DEF Precedes, Live, Bound
    <2>. QED BY <1>1, <2>1, <2>2, <2>3, <2>4
  <1>5. \A i \in 1 .. Len(h) : Live(h[i]) => Bound(Stored(h))
    BY <1>1, <1>2 DEF Live
  <1>. QED BY <1>3, <1>4, <1>5 DEF Orderly

\* A watch event only takes the first version away.
LEMMA DeliverOrderly ==
    ASSUME TypeOK, Pending(project), Orderly(project, spent.projects)
    PROVE  /\ Orderly(Deliver(project), spent.projects)
           /\ Stored(Deliver(project)) = Stored(project)
           /\ \A i \in 1 .. Len(Deliver(project)) :
                 i + 1 \in 1 .. Len(project) /\ Deliver(project)[i] = project[i + 1]
  <1>1. /\ Stored(Deliver(project)) = Stored(project)
        /\ \A i \in 1 .. Len(Deliver(project)) :
              i + 1 \in 1 .. Len(project) /\ Deliver(project)[i] = project[i + 1]
    BY DeliverHistory, Ends DEF TypeOK
  <1>2. \A i \in 1 .. Len(Deliver(project)) :
           Deliver(project)[i] # Absent =>
              /\ Deliver(project)[i].uid <= spent.projects
              /\ Deliver(project)[i].deleting => Deliver(project)[i].finalizer
    BY <1>1 DEF Orderly
  <1>3. ASSUME NEW i \in 1 .. Len(Deliver(project)), NEW j \in 1 .. Len(Deliver(project)),
               i <= j, Deliver(project)[i] # Absent, Deliver(project)[j] # Absent
        PROVE  Precedes(Deliver(project)[i], Deliver(project)[j])
    <2>1. i + 1 <= j + 1
      BY <1>3
    <2>. QED BY <1>1, <1>3, <2>1 DEF Orderly
  <1>4. \A i \in 1 .. Len(Deliver(project)) :
           Live(Deliver(project)[i]) => Bound(Stored(Deliver(project)))
    BY <1>1 DEF Orderly
  <1>. QED BY <1>1, <1>2, <1>3, <1>4 DEF Orderly

\* A write that keeps what the Project is bound by keeps all of the invariant.
LEMMA EditKeeps ==
    ASSUME TypeOK, FinalizerInv, NEW p \in ProjectVersions,
           Stored(project) # Absent, p.uid = Stored(project).uid,
           Stored(project).finalizer = p.finalizer,
           Stored(project).deleting => p.deleting,
           p.deleting => Stored(project).deleting \/ p.finalizer
    PROVE  /\ Orderly(Put(project, p), spent.projects)
           /\ Bound(Stored(project)) => Bound(Stored(Put(project, p)))
           /\ (\A i \in 1 .. Len(project) : ~Live(project[i]))
                 => \A i \in 1 .. Len(Put(project, p)) : ~Live(Put(project, p)[i])
  <1>. USE Ends
  <1>. DEFINE last == Len(project)
  <1>1. Orderly(project, spent.projects) /\ Stored(project) \in ProjectVersions
    BY DEF FinalizerInv
  <1>2. Live(p) => Live(Stored(project))
    BY <1>1 DEF Live, Bound
  <1>3. \A i \in 1 .. last : project[i] # Absent => Precedes(project[i], Stored(project))
    BY <1>1, AbsentAssumption DEF Orderly
  <1>4. \A i \in 1 .. last : project[i] # Absent => Precedes(project[i], p)
    BY <1>2, <1>3 DEF Precedes
  <1>5. p.uid <= spent.projects /\ (p.deleting => p.finalizer)
    BY <1>1, AbsentAssumption DEF Orderly
  <1>6. \A i \in 1 .. last : Live(project[i]) => Bound(p)
    BY <1>1, AbsentAssumption DEF Orderly, Bound
  <1>7. Orderly(Put(project, p), spent.projects)
    BY <1>1, <1>4, <1>5, <1>6, WriteOrderly
  <1>8. Stored(Put(project, p)) = p
    BY PutHistory DEF TypeOK
  <1>9. \A i \in 1 .. Len(Put(project, p)) :
           \/ i \in 1 .. last /\ Put(project, p)[i] = project[i]
           \/ Put(project, p)[i] = p
    BY WriteVersions
  <1>10. Bound(Stored(project)) => Bound(p)
    BY AbsentAssumption DEF Bound
  <1>. QED BY <1>1, <1>2, <1>7, <1>8, <1>9, <1>10

\* Nothing that can happen lets a Project go while a reconcile goes on with it: one case
\* per action.
LEMMA StepFinalizer == TypeOK /\ FinalizerInv /\ [Next]_vars => FinalizerInv'
  <1>. SUFFICES ASSUME TypeOK, FinalizerInv, [Next]_vars PROVE FinalizerInv'
    OBVIOUS
  <1>. USE Ends, ReadsType, RunSteps DEF EnsureSteps, DeleteSteps
  <1>0. Orderly(project, spent.projects)
    BY DEF FinalizerInv
  <1>1. CASE SkipProject \/ AddFinalizerFails \/ Resync \/ DeliverNamespace
             \/ CreateForeignNamespace \/ DeleteNamespaceByHand \/ FinishNamespace
             \/ UNCHANGED vars
    <2>1. project' = project /\ spent'.projects = spent.projects /\ run' = run
      BY <1>1 DEF SkipProject, AddFinalizerFails, Resync, DeliverNamespace,
                  CreateForeignNamespace, DeleteNamespaceByHand, FinishNamespace, vars, TypeOK
    <2>. QED BY <2>1 DEF FinalizerInv
  <1>2. CASE ReadProject
    <2>1. project' = project /\ spent' = spent
          /\ run'.step = IF Cached(project).deleting THEN "delete" ELSE "ensure"
      BY <1>2 DEF ReadProject, Idle
    <2>2. CASE Cached(project).deleting
      <3>1. \A i \in 1 .. Len(project) : ~Live(project[i])
        BY <1>0, <1>2, <2>2 DEF ReadProject, Orderly, Precedes, Live, Bound
      <3>. QED BY <1>0, <2>1, <2>2, <3>1 DEF FinalizerInv
    <2>3. CASE ~Cached(project).deleting
      <3>1. Live(project[1])
        BY <1>2, <2>3 DEF ReadProject, Live, Bound
      <3>2. Bound(Stored(project))
        BY <1>0, <3>1 DEF Orderly
      <3>. QED BY <1>0, <2>1, <2>3, <3>2 DEF FinalizerInv
    <2>. QED BY <2>2, <2>3
  <1>3. CASE AddFinalizer
    <2>. DEFINE p == [Stored(project) EXCEPT !.finalizer = TRUE]
    <2>1. Cached(project) = Stored(project) /\ Stored(project) \in ProjectVersions
          /\ ~Stored(project).finalizer /\ ~Stored(project).deleting
          /\ Stored(project) # Absent
      BY <1>3 DEF AddFinalizer, NeedsFinalizer
    <2>2. p \in ProjectVersions /\ p.finalizer /\ p.uid = Stored(project).uid /\ ~p.deleting
      BY <2>1 DEF ProjectVersions
    <2>8. project' = Put(project, p) /\ spent' = spent /\ run'.step = "get"
      BY <1>3 DEF AddFinalizer, Idle
    <2>. HIDE DEF p
    <2>3. ASSUME NEW i \in 1 .. Len(project), project[i] # Absent
          PROVE  Precedes(project[i], p)
      <3>1. Precedes(Stored(project), project[i]) /\ Precedes(project[i], Stored(project))
        BY <1>0, <2>1, <2>3 DEF Orderly
      <3>2. project[i].uid \in Nat /\ Stored(project).uid \in Nat
        BY <2>1, <2>3
      <3>3. ~project[i].deleting
        BY <2>1, <3>1, <3>2 DEF Precedes
      <3>. QED BY <2>2, <3>1, <3>3 DEF Precedes
    <2>4. p.uid <= spent.projects
      BY <1>0, <2>1, <2>2 DEF Orderly
    <2>5. Bound(p)
      BY <2>2, AbsentAssumption DEF Bound
    <2>6. Orderly(Put(project, p), spent.projects)
      BY <1>0, <2>2, <2>3, <2>4, <2>5, WriteOrderly
    <2>7. Stored(Put(project, p)) = p
      BY <2>2, PutHistory DEF TypeOK
    <2>. QED BY <2>5, <2>6, <2>7, <2>8 DEF FinalizerInv
  <1>4. CASE GetFinalized \/ CreateNamespace \/ CheckNamespace \/ LookForNamespace
    <2>1. project' = project /\ spent' = spent
      BY <1>4 DEF GetFinalized, CreateNamespace, CheckNamespace, LookForNamespace
    <2>. QED BY <1>4, <2>1 DEF FinalizerInv
  <1>5. CASE PatchStatus
    <2>1. spent' = spent /\ run'.step = "idle" /\ run.step = "status"
      BY <1>5 DEF PatchStatus, Idle
    <2>. DEFINE p == [Stored(project) EXCEPT
                        !.reason = Merged(run.local.reason, run.reason, @)]
    <2>2. Stored(project) # Absent /\ project' = Put(project, p)
      BY <1>5, <2>1 DEF PatchStatus, FinalizerInv, Bound
    <2>3. Merged(run.local.reason, run.reason, Stored(project).reason) \in Reasons
      BY <2>2 DEF Merged, ProjectVersions
    <2>4. p \in ProjectVersions /\ p.uid = Stored(project).uid
          /\ p.finalizer = Stored(project).finalizer /\ p.deleting = Stored(project).deleting
      BY <2>2, <2>3 DEF ProjectVersions
    <2>5. Orderly(project', spent.projects)
      BY <2>2, <2>4, EditKeeps
    <2>. QED BY <2>1, <2>5 DEF FinalizerInv
  <1>6. CASE PatchStatusConflict \/ Fail
    <2>1. project' = project /\ spent'.projects = spent.projects /\ run'.step = "idle"
      BY <1>6 DEF PatchStatusConflict, Fail, Idle, TypeOK
    <2>. QED BY <1>0, <2>1 DEF FinalizerInv
  <1>7. CASE RemoveFinalizer
    <2>1. spent' = spent /\ run'.step = "idle" /\ run.step = "release"
          /\ project' \in {project, Put(project, Absent)}
      BY <1>7 DEF RemoveFinalizer, Idle
    <2>2. Orderly(Put(project, Absent), spent.projects)
      BY <1>0, <2>1, WriteOrderly DEF FinalizerInv
    <2>. QED BY <1>0, <2>1, <2>2 DEF FinalizerInv
  <1>8. CASE DeleteNamespace
    BY <1>0, <1>8 DEF DeleteNamespace, Idle, FinalizerInv
  <1>9. CASE DeliverProject
    <2>1. project' = Deliver(project) /\ run' = run /\ spent' = spent
      BY <1>9 DEF DeliverProject
    <2>2. /\ Orderly(project', spent.projects)
          /\ Stored(project') = Stored(project)
          /\ \A i \in 1 .. Len(project') :
                i + 1 \in 1 .. Len(project) /\ project'[i] = project[i + 1]
      BY <1>0, <1>9, <2>1, DeliverOrderly DEF DeliverProject
    <2>. QED BY <2>1, <2>2 DEF FinalizerInv
  <1>10. CASE DeleteProject
    <2>1. spent' = spent /\ run' = run /\ Stored(project) \in ProjectVersions
          /\ ~Stored(project).deleting
      BY <1>10 DEF DeleteProject
    <2>2. CASE Stored(project).finalizer
      <3>. DEFINE p == [Stored(project) EXCEPT !.deleting = TRUE]
      <3>1. project' = Put(project, p)
        BY <1>10, <2>2 DEF DeleteProject
      <3>2. p \in ProjectVersions /\ p.uid = Stored(project).uid
            /\ p.finalizer = Stored(project).finalizer /\ p.deleting
        BY <2>1 DEF ProjectVersions
      <3>3. Stored(project) # Absent
        BY <1>10 DEF DeleteProject
      <3>4. /\ Orderly(project', spent.projects)
            /\ Bound(Stored(project)) => Bound(Stored(project'))
            /\ (\A i \in 1 .. Len(project) : ~Live(project[i]))
                  => \A i \in 1 .. Len(project') : ~Live(project'[i])
        BY <2>2, <3>1, <3>2, <3>3, EditKeeps
      <3>. QED BY <2>1, <3>4 DEF FinalizerInv
    <2>3. CASE ~Stored(project).finalizer
      <3>1. project' = Put(project, Absent)
        BY <1>10, <2>3 DEF DeleteProject
      <3>2. ~Bound(Stored(project))
        BY <2>3 DEF Bound
      <3>3. \A i \in 1 .. Len(project) : ~Live(project[i])
        BY <1>0, <3>2 DEF Orderly
      <3>4. Orderly(project', spent.projects)
        BY <1>0, <3>1, <3>3, WriteOrderly
      <3>5. \A i \in 1 .. Len(project') : ~Live(project'[i])
        BY <3>1, <3>3, WriteVersions DEF Live, Bound
      <3>. QED BY <2>1, <3>2, <3>4, <3>5 DEF FinalizerInv
    <2>. QED BY <2>2, <2>3
  <1>11. CASE CreateProject
    <2>. DEFINE p == NewProject(spent.projects + 1)
    <2>1. run' = run /\ project' = Put(project, p) /\ spent'.projects = spent.projects + 1
          /\ ~Bound(Stored(project))
      BY <1>11 DEF CreateProject, TypeOK, Bound
    <2>2. p \in ProjectVersions /\ p.uid = spent.projects + 1 /\ ~p.finalizer /\ ~p.deleting
      BY <1>11, BoundsAssumption DEF CreateProject, TypeOK, NewProject, ProjectVersions, Reasons
    <2>3. \A i \in 1 .. Len(project) : ~Live(project[i])
      BY <1>0, <2>1 DEF Orderly
    <2>4. ASSUME NEW i \in 1 .. Len(project), project[i] # Absent
          PROVE  Precedes(project[i], p)
      <3>1. project[i].uid <= spent.projects /\ project[i].uid \in Nat
        BY <1>0, <2>4 DEF Orderly
      <3>. QED BY <2>2, <3>1 DEF Precedes, Live, Bound
    <2>5. Orderly(project', spent'.projects)
      BY <1>0, <2>1, <2>2, <2>3, <2>4, WriteOrderly
    <2>6. \A i \in 1 .. Len(project') : ~Live(project'[i])
      <3>1. ~Live(p)
        BY <2>2 DEF Live, Bound
      <3>. QED BY <2>1, <2>2, <2>3, <3>1, WriteVersions
    <2>. QED BY <2>1, <2>5, <2>6 DEF FinalizerInv
  <1>. QED
    BY <1>1, <1>2, <1>3, <1>4, <1>5, <1>6, <1>7, <1>8, <1>9, <1>10, <1>11
    DEF Next, Reconcile, Others

\* In every reachable state the types hold, and so does the invariant of the finalizer.
LEMMA Invariant == Spec => [](TypeOK /\ FinalizerInv)
  BY InitType, InitFinalizer, StepType, StepFinalizer, PTL DEF Spec
---------------------------------------------------------------------------
(* What may happen to the Namespace and the Project in one step *)

\* The Namespace a write leaves stored.
LEMMA StoredNamespace ==
    ASSUME TypeOK, NEW n \in NamespaceVersions \cup {Absent}
    PROVE  Stored(Put(namespace, n)) = n
  BY PutHistory DEF TypeOK

\* The stored Namespace changes in five ways only.
LEMMA NamespaceSteps ==
    ASSUME TypeOK, [Next]_vars
    PROVE  \/ Stored(namespace') = Stored(namespace)
           \/ CreateNamespace /\ Stored(namespace) = Absent
           \/ CreateForeignNamespace /\ Stored(namespace') = NewNamespace(FALSE)
           \/ DeleteNamespace /\ Stored(namespace) # Absent
           \/ spent' # spent
           \/ FinishNamespace /\ Stored(namespace).deleting /\ Stored(namespace') = Absent
  <1>. USE StoredNamespace, NewTypes
  <1>1. CASE CreateNamespace
    BY <1>1 DEF CreateNamespace
  <1>2. CASE CreateForeignNamespace
    BY <1>2 DEF CreateForeignNamespace
  <1>3. CASE DeleteNamespaceByHand
    <2>1. spent' # spent
      <3>1. spent'.deletes = spent.deletes + 1 /\ spent.deletes \in Nat
        BY <1>3 DEF DeleteNamespaceByHand, TypeOK
      <3>. QED BY <3>1
    <2>. QED BY <2>1
  <1>4. CASE DeleteNamespace
    BY <1>4 DEF DeleteNamespace, Terminated
  <1>5. CASE FinishNamespace
    BY <1>5 DEF FinishNamespace
  <1>6. CASE DeliverNamespace
    BY <1>6, DeliverHistory DEF DeliverNamespace, TypeOK
  <1>7. CASE namespace' = namespace
    BY <1>7
  <1>8. \/ CreateNamespace \/ CreateForeignNamespace \/ DeleteNamespaceByHand
        \/ DeleteNamespace \/ FinishNamespace \/ DeliverNamespace
        \/ namespace' = namespace
    BY DEF Next, Reconcile, Others, SkipProject, ReadProject, AddFinalizer, AddFinalizerFails,
           GetFinalized, CheckNamespace, LookForNamespace, PatchStatus, RemoveFinalizer, PatchStatusConflict,
           Fail, DeliverProject, Resync, DeleteProject, CreateProject, vars
  <1>. QED BY <1>1, <1>2, <1>3, <1>4, <1>5, <1>6, <1>7, <1>8

\* When a Namespace of ours comes to be, its Project is there with the finalizer, though
\* the reconcile that creates it knows an old copy of the Project only.
THEOREM NamespaceNeedsFinalizer == Spec => CreatesUnderFinalizer
  <1>. DEFINE Created == Stored(namespace) = Absent /\ OurNamespace(Stored(namespace'))
                            => Stored(project) # Absent /\ Stored(project).finalizer
  <1>1. TypeOK /\ FinalizerInv /\ [Next]_vars => [Created]_vars
    <2>. SUFFICES ASSUME TypeOK, FinalizerInv, [Next]_vars,
                         Stored(namespace) = Absent, OurNamespace(Stored(namespace'))
                  PROVE  Bound(Stored(project))
      BY DEF Bound
    <2>1. CASE CreateNamespace
      BY <2>1 DEF CreateNamespace, FinalizerInv, EnsureSteps
    <2>2. CASE spent' # spent
      <3>1. Stored(namespace') \in {Stored(namespace), NewNamespace(FALSE)} \/ CreateNamespace
        <4>1. CASE CreateForeignNamespace
          BY <4>1, StoredNamespace, NewTypes DEF CreateForeignNamespace
        <4>2. CASE CreateProject \/ Fail \/ PatchStatusConflict
          BY <4>2 DEF CreateProject, Fail, PatchStatusConflict
        <4>3. ~DeleteNamespaceByHand
          BY DEF DeleteNamespaceByHand
        <4>4. CreateForeignNamespace \/ CreateProject \/ Fail \/ PatchStatusConflict
              \/ DeleteNamespaceByHand
          BY <2>2 DEF Next, Reconcile, Others, SkipProject, ReadProject, AddFinalizer,
                 AddFinalizerFails, GetFinalized, CreateNamespace, CheckNamespace, LookForNamespace, PatchStatus,
                 RemoveFinalizer, DeleteNamespace, DeliverProject, DeliverNamespace, Resync,
                 DeleteProject, FinishNamespace, vars
        <4>. QED BY <4>1, <4>2, <4>3, <4>4
      <3>. QED BY <2>1, <3>1 DEF OurNamespace, NewNamespace
    <2>. QED BY <2>1, <2>2, NamespaceSteps DEF OurNamespace, NewNamespace
  <1>. QED BY <1>1, Invariant, PTL DEF Spec, CreatesUnderFinalizer

\* A reconcile that deletes has a copy no version after which is alive, so that the
\* Project of its name does not live, whichever it is.
THEOREM LiveProjectsAreSpared == Spec => SparesLiveProjects
  <1>. DEFINE Spared ==
          ReconcilerDeletes => ~ /\ Stored(project) # Absent
                                 /\ Stored(project).finalizer
                                 /\ ~Stored(project).deleting
  <1>1. TypeOK /\ FinalizerInv /\ [Next]_vars => [Spared]_vars
    <2>. SUFFICES ASSUME TypeOK, FinalizerInv, [Next]_vars, ReconcilerDeletes
                  PROVE  ~Live(Stored(project))
      BY DEF Live, Bound
    <2>1. Stored(namespace') # Stored(namespace)
      BY DEF ReconcilerDeletes
    <2>2. ~ (CreateNamespace /\ Stored(namespace) = Absent)
      BY DEF ReconcilerDeletes
    <2>3. ~ (CreateForeignNamespace /\ Stored(namespace') = NewNamespace(FALSE))
      BY DEF ReconcilerDeletes, NewNamespace
    <2>4. DeleteNamespace
      BY <2>1, <2>2, <2>3, NamespaceSteps DEF ReconcilerDeletes
    <2>5. run.step \in DeleteSteps
      BY <2>4 DEF DeleteNamespace, DeleteSteps
    <2>. QED BY <2>5, Ends DEF FinalizerInv
  <1>. QED BY <1>1, Invariant, PTL DEF Spec, SparesLiveProjects
---------------------------------------------------------------------------
(* At rest *)

\* While no event of the Project has come since a reconcile began, its copy is what the
\* cache shows: alive, unless it is the reconcile of a deletion.
CopyCurrent ==
    ~queued =>
        /\ run.step = "get" => Pending(project)
        /\ run.step \in EnsureSteps => Cached(project) # Absent /\ ~Cached(project).deleting
        /\ run.step \notin {"idle", "get"} => run.local = Cached(project)

\* The stored Project is the latest of its name.
LatestProject == Stored(project) # Absent => Stored(project).uid = spent.projects

\* The first Project of the name lives, and no user deleted a Namespace.
Undisturbed ==
    /\ spent.projects = 1 /\ spent.deletes = 0
    /\ Stored(project) # Absent /\ ~Stored(project).deleting

\* Then no reconcile deletes it either: a Namespace that is there stays as it is.
NamespaceStays ==
    /\ run.step \in DeleteSteps => ~Undisturbed
    /\ Undisturbed => \A i \in 1 .. Len(namespace) : namespace[i] # Absent =>
                         namespace[i] = Stored(namespace) /\ ~namespace[i].deleting

\* The reason a status gives is right about the Namespace.
Tells(reason) ==
    /\ Stored(namespace) # Absent
    /\ reason = IF Stored(namespace).managed THEN "NamespaceReady" ELSE "NamespaceConflict"

\* Without a reconcile, a key in the queue and an event of the Project, its status is told.
Settled ==
    run.step = "idle" /\ ~queued /\ ~Pending(project) /\ Stored(project) # Absent =>
        /\ Live(Stored(project))
        /\ Stored(project).reason # "none"
        /\ Undisturbed => Tells(Stored(project).reason)

\* What makes RestsTruthful inductive: what the reconcile under way knows, and what the
\* one that came to rest left behind.
RestInv ==
    /\ CopyCurrent
    /\ LatestProject
    /\ NamespaceStays
    /\ run.step = "status" /\ Undisturbed => Tells(run.reason)
    /\ Settled

\* The first reconcile is still in the queue.
LEMMA InitRest == Init => RestInv
  <1>. SUFFICES ASSUME Init PROVE RestInv
    OBVIOUS
  <1>1. \A v : Stored(Fresh(v)) = v /\ Len(Fresh(v)) = 1 /\ Fresh(v)[1] = v
    BY DEF Stored, Fresh
  <1>2. /\ Stored(project) = NewProject(1) /\ queued /\ run.step = "idle"
        /\ spent.projects = 1
    BY <1>1 DEF Init, Idle
  <1>3. namespace[1] = Stored(namespace) /\ Len(namespace) = 1
        /\ (Stored(namespace) # Absent => ~Stored(namespace).deleting)
    BY <1>1 DEF Init, NewNamespace
  <1>4. NamespaceStays
    BY <1>2, <1>3 DEF NamespaceStays, DeleteSteps
  <1>. QED BY <1>2, <1>4 DEF RestInv, CopyCurrent, LatestProject, Settled, NewProject,
                             EnsureSteps

\* The step a reconcile begins with, and the one it ends with.
LEMMA StepOfRun ==
    /\ Idle.step = "idle"
    /\ ReadProject => run'.step \in {"delete", "ensure"}
    /\ AddFinalizer => run'.step = "get"
  <1>1. ReadProject => run'.step = IF Cached(project).deleting THEN "delete" ELSE "ensure"
    BY DEF ReadProject, Idle
  <1>. QED BY <1>1 DEF AddFinalizer, Idle

\* A user's deletion or creation writes a version of the Project.
LEMMA UserWrites ==
    ASSUME TypeOK, DeleteProject \/ CreateProject
    PROVE  \E p \in ProjectVersions \cup {Absent} : project' = Put(project, p)
  <1>1. CASE DeleteProject
    BY <1>1, ReadsType, EditedTypes DEF DeleteProject
  <1>2. CASE CreateProject
    <2>1. spent.projects + 1 \in 1 .. MaxProjects
      BY <1>2, BoundsAssumption DEF CreateProject, TypeOK
    <2>2. NewProject(spent.projects + 1) \in ProjectVersions
      BY <2>1 DEF NewProject, ProjectVersions, Reasons
    <2>. QED BY <1>2, <2>2 DEF CreateProject
  <1>. QED BY <1>1, <1>2

\* Until an event comes the cache of the Project stands still, and so does the copy.
LEMMA StepCopy == TypeOK /\ FinalizerInv /\ RestInv /\ [Next]_vars => CopyCurrent'
  <1>. SUFFICES ASSUME TypeOK, FinalizerInv, RestInv, [Next]_vars PROVE CopyCurrent'
    OBVIOUS
  <1>0. CopyCurrent /\ run \in [step : Steps, local : ProjectVersions, reason : Reasons]
        /\ project \in Histories(ProjectVersions \cup {Absent})
    BY DEF RestInv, TypeOK, Runs
  <1>1. CASE queued'
    BY <1>1 DEF CopyCurrent
  <1>2. CASE run'.step = "idle"
    BY <1>2 DEF CopyCurrent, EnsureSteps
  <1>3. CASE UNCHANGED <<project, queued, run>>
    BY <1>0, <1>3 DEF CopyCurrent
  <1>4. CASE ReadProject
    BY <1>4 DEF ReadProject, Idle, CopyCurrent, EnsureSteps
  <1>5. CASE AddFinalizer
    <2>. DEFINE p == [Stored(project) EXCEPT !.finalizer = TRUE]
    <2>1. project' = Put(project, p) /\ run'.step = "get" /\ Cached(project) = Stored(project)
          /\ Cached(project) # Absent /\ ~Cached(project).deleting
          /\ Cached(project) \in ProjectVersions /\ ~Cached(project).finalizer
      BY <1>5, ReadsType DEF AddFinalizer, NeedsFinalizer, Idle
    <2>2. p \in ProjectVersions /\ p # Stored(project)
      BY <2>1 DEF ProjectVersions
    <2>3. Pending(project') /\ Cached(project') = Cached(project)
      BY <1>0, <2>1, <2>2, PutHistory, PutPending
    <2>. QED BY <2>1, <2>3 DEF CopyCurrent
  <1>6. CASE GetFinalized
    <2>1. CASE Cached(project) = Absent
      BY <1>6, <2>1 DEF GetFinalized, CopyCurrent
    <2>2. CASE Cached(project) # Absent
      BY <1>0, <1>6, <2>2 DEF GetFinalized, CopyCurrent, EnsureSteps
    <2>. QED BY <2>1, <2>2
  <1>7. CASE CreateNamespace \/ CheckNamespace \/ LookForNamespace
    <2>1. \/ queued' \/ run'.step = "idle"
          \/ /\ queued' = queued /\ run.step \notin {"idle", "get"}
             /\ run'.step # "get" /\ run'.local = run.local
             /\ run'.step \in EnsureSteps => run.step \in EnsureSteps
      BY <1>7, RunSteps DEF CheckNamespace, EnsureSteps
    <2>2. project' = project
      BY <1>7 DEF CreateNamespace, CheckNamespace, LookForNamespace
    <2>. QED BY <1>0, <1>1, <1>2, <2>1, <2>2 DEF CopyCurrent
  <1>8. CASE DeleteProject \/ CreateProject
    <2>1. PICK p \in ProjectVersions \cup {Absent} : project' = Put(project, p)
      BY <1>8, UserWrites
    <2>2. Cached(project') = Cached(project) /\ (Pending(project) => Pending(project'))
      BY <1>0, <2>1, PutHistory, PutPending
    <2>3. queued' = queued /\ run' = run
      BY <1>8 DEF DeleteProject, CreateProject
    <2>. QED BY <1>0, <2>2, <2>3 DEF CopyCurrent
  <1>9. CASE PatchStatus \/ PatchStatusConflict \/ RemoveFinalizer \/ DeleteNamespace \/ Fail
    BY <1>2, <1>9 DEF PatchStatus, PatchStatusConflict, RemoveFinalizer, DeleteNamespace, Fail,
                      Idle
  <1>10. CASE SkipProject \/ DeliverProject \/ Resync
    BY <1>1, <1>2, <1>10 DEF SkipProject, Starts, DeliverProject, Resync
  <1>11. CASE \/ AddFinalizerFails \/ DeliverNamespace \/ CreateForeignNamespace
              \/ DeleteNamespaceByHand \/ FinishNamespace \/ UNCHANGED vars
    BY <1>3, <1>11 DEF AddFinalizerFails, DeliverNamespace, CreateForeignNamespace,
                       DeleteNamespaceByHand, FinishNamespace, vars
  <1>. QED
    BY <1>4, <1>5, <1>6, <1>7, <1>8, <1>9, <1>10, <1>11 DEF Next, Reconcile, Others

\* What a step does to the stored Project and to the counts of Projects and of deletions
\* by hand: only CreateProject makes a Project, and what is being deleted stays so.
LEMMA ProjectSteps ==
    ASSUME TypeOK, [Next]_vars
    PROVE  \/ /\ CreateProject
              /\ spent'.projects = spent.projects + 1
              /\ Stored(project') \in ProjectVersions
              /\ Stored(project').uid = spent'.projects
           \/ /\ spent'.projects = spent.projects
              /\ spent'.deletes = spent.deletes \/ spent'.deletes = spent.deletes + 1
              /\ Stored(project') = Absent
           \/ /\ spent'.projects = spent.projects
              /\ spent'.deletes = spent.deletes \/ spent'.deletes = spent.deletes + 1
              /\ Stored(project) \in ProjectVersions /\ Stored(project') \in ProjectVersions
              /\ Stored(project').uid = Stored(project).uid
              /\ Stored(project).deleting => Stored(project').deleting
  <1>. USE ReadsType, EditedTypes
  <1>0. /\ project \in Histories(ProjectVersions \cup {Absent})
        /\ spent \in [projects : 1 .. MaxProjects, foreign : Nat, deletes : Nat, faults : Nat]
    BY DEF TypeOK
  <1>1. ASSUME NEW p \in ProjectVersions \cup {Absent} PROVE Stored(Put(project, p)) = p
    BY <1>0, PutHistory
  <1>2. CASE AddFinalizer
    <2>1. project' = Put(project, [Stored(project) EXCEPT !.finalizer = TRUE])
          /\ Stored(project) \in ProjectVersions /\ spent' = spent
      BY <1>2 DEF AddFinalizer, NeedsFinalizer
    <2>. DEFINE p == [Stored(project) EXCEPT !.finalizer = TRUE]
    <2>2. p \in ProjectVersions /\ p.uid = Stored(project).uid
          /\ p.deleting = Stored(project).deleting
      BY <2>1 DEF ProjectVersions
    <2>. HIDE DEF p
    <2>3. Stored(project') = p
      BY <1>1, <2>1, <2>2 DEF p
    <2>. QED BY <2>1, <2>2, <2>3
  <1>3. CASE PatchStatus /\ Stored(project) # Absent
    <2>. DEFINE reason == Merged(run.local.reason, run.reason, Stored(project).reason)
    <2>1. project' = Put(project, [Stored(project) EXCEPT !.reason = reason])
          /\ Stored(project) \in ProjectVersions /\ spent' = spent
      BY <1>3 DEF PatchStatus
    <2>2. reason \in Reasons
      BY <2>1 DEF Merged, ProjectVersions
    <2>. HIDE DEF reason
    <2>. DEFINE p == [Stored(project) EXCEPT !.reason = reason]
    <2>3. p \in ProjectVersions /\ p.uid = Stored(project).uid
          /\ p.deleting = Stored(project).deleting
      BY <2>1, <2>2 DEF ProjectVersions
    <2>4. project' = Put(project, p)
      BY <2>1
    <2>. HIDE DEF p
    <2>5. Stored(project') = p
      BY <1>1, <2>3, <2>4
    <2>. QED BY <2>1, <2>3, <2>5
  <1>4. CASE RemoveFinalizer
    <2>1. spent' = spent /\ project' \in {project, Put(project, Absent)}
      BY <1>4 DEF RemoveFinalizer
    <2>. QED BY <1>1, <2>1
  <1>5. CASE DeliverProject
    <2>1. spent' = spent /\ Stored(project') = Stored(project)
      BY <1>0, <1>5, DeliverHistory DEF DeliverProject
    <2>. QED BY <2>1
  <1>6. CASE DeleteProject
    <2>1. spent' = spent /\ Stored(project) \in ProjectVersions
      BY <1>6 DEF DeleteProject
    <2>2. CASE Stored(project).finalizer
      <3>. DEFINE p == [Stored(project) EXCEPT !.deleting = TRUE]
      <3>1. p \in ProjectVersions /\ p.uid = Stored(project).uid /\ p.deleting
        BY <2>1 DEF ProjectVersions
      <3>2. project' = Put(project, p)
        BY <1>6, <2>2 DEF DeleteProject
      <3>. HIDE DEF p
      <3>3. Stored(project') = p
        BY <1>1, <3>1, <3>2
      <3>. QED BY <2>1, <3>1, <3>3
    <2>3. CASE ~Stored(project).finalizer
      BY <1>1, <1>6, <2>1, <2>3 DEF DeleteProject
    <2>. QED BY <2>2, <2>3
  <1>7. CASE CreateProject
    <2>1. spent.projects + 1 \in 1 .. MaxProjects /\ spent'.projects = spent.projects + 1
      BY <1>0, <1>7, BoundsAssumption DEF CreateProject
    <2>2. NewProject(spent.projects + 1) \in ProjectVersions
      BY <2>1 DEF NewProject, ProjectVersions, Reasons
    <2>3. Stored(project') = NewProject(spent.projects + 1)
      BY <1>1, <1>7, <2>2 DEF CreateProject
    <2>. QED BY <1>7, <2>1, <2>2, <2>3 DEF NewProject
  <1>8. CASE /\ project' = project /\ spent'.projects = spent.projects
             /\ spent'.deletes = spent.deletes \/ spent'.deletes = spent.deletes + 1
    BY <1>8
  <1>9. CASE Fail \/ PatchStatusConflict \/ CreateForeignNamespace \/ DeleteNamespaceByHand
    <2>1. project' = project /\ spent'.projects = spent.projects
          /\ (spent'.deletes = spent.deletes \/ spent'.deletes = spent.deletes + 1)
      BY <1>0, <1>9 DEF Fail, PatchStatusConflict, CreateForeignNamespace, DeleteNamespaceByHand
    <2>. QED BY <1>8, <2>1
  <1>10. CASE project' = project /\ spent' = spent
    BY <1>8, <1>10
  <1>11. \/ AddFinalizer \/ (PatchStatus /\ Stored(project) # Absent) \/ RemoveFinalizer
         \/ DeliverProject \/ DeleteProject \/ CreateProject \/ Fail \/ PatchStatusConflict
         \/ CreateForeignNamespace \/ DeleteNamespaceByHand
         \/ project' = project /\ spent' = spent
    <2>1. CASE PatchStatus
      BY <2>1 DEF PatchStatus
    <2>. QED
      BY <2>1
      DEF Next, Reconcile, Others, SkipProject, ReadProject, AddFinalizerFails, GetFinalized,
          CreateNamespace, CheckNamespace, LookForNamespace, DeleteNamespace, DeliverNamespace, Resync,
          FinishNamespace, vars
  <1>. QED
    BY <1>2, <1>3, <1>4, <1>5, <1>6, <1>7, <1>9, <1>10, <1>11

\* The stored Project stays the latest.
LEMMA StepLatest == TypeOK /\ LatestProject /\ [Next]_vars => LatestProject'
  BY ProjectSteps, AbsentAssumption DEF LatestProject

\* What is undisturbed has always been.
LEMMA UndisturbedBefore ==
    ASSUME TypeOK, [Next]_vars, Undisturbed'
    PROVE  Undisturbed /\ ~CreateProject /\ ~DeleteNamespaceByHand
  <1>1. spent \in [projects : 1 .. MaxProjects, foreign : Nat, deletes : Nat, faults : Nat]
    BY DEF TypeOK
  <1>2. ~CreateProject
    BY <1>1, BoundsAssumption DEF Undisturbed, CreateProject
  <1>3. ~DeleteNamespaceByHand
    BY <1>1, BoundsAssumption DEF Undisturbed, DeleteNamespaceByHand
  <1>. QED BY <1>1, <1>2, <1>3, ProjectSteps, AbsentAssumption DEF Undisturbed

\* Without users who delete it, a Namespace of the first Project stays as it is: the
\* reconcile of a deletion only runs when that Project is being deleted.
LEMMA StepNamespaceStays ==
    TypeOK /\ FinalizerInv /\ RestInv /\ [Next]_vars => NamespaceStays'
  <1>. SUFFICES ASSUME TypeOK, FinalizerInv, RestInv, [Next]_vars, Undisturbed'
                PROVE  /\ run'.step \notin DeleteSteps
                       /\ \A i \in 1 .. Len(namespace') : namespace'[i] # Absent =>
                             namespace'[i] = Stored(namespace') /\ ~namespace'[i].deleting
    BY DEF NamespaceStays
  <1>0. /\ Undisturbed /\ ~CreateProject /\ ~DeleteNamespaceByHand
        /\ run \in [step : Steps, local : ProjectVersions, reason : Reasons]
        /\ namespace \in Histories(NamespaceVersions \cup {Absent})
    BY UndisturbedBefore DEF TypeOK, Runs
  <1>1. /\ run.step \notin DeleteSteps
        /\ \A i \in 1 .. Len(namespace) : namespace[i] # Absent =>
              namespace[i] = Stored(namespace) /\ ~namespace[i].deleting
    BY <1>0 DEF RestInv, NamespaceStays
  <1>2. run'.step \notin DeleteSteps
    <2>1. CASE ReadProject
      <3>1. Cached(project) \in ProjectVersions /\ project' = project
            /\ run'.step = IF Cached(project).deleting THEN "delete" ELSE "ensure"
        BY <2>1, ReadsType DEF ReadProject, Idle
      <3>2. Precedes(Cached(project), Stored(project)) /\ Stored(project).uid = 1
            /\ Stored(project) # Absent /\ ~Stored(project).deleting
        BY <1>0, <3>1, Ends, AbsentAssumption
        DEF FinalizerInv, Orderly, Undisturbed, RestInv, LatestProject
      <3>3. Cached(project).uid \in Nat /\ Cached(project).uid >= 1
        BY <3>1, BoundsAssumption DEF ProjectVersions
      <3>. QED BY <3>1, <3>2, <3>3 DEF Precedes, Live, Bound, DeleteSteps
    <2>2. CASE GetFinalized \/ CreateNamespace \/ CheckNamespace
      BY <2>2, RunSteps DEF DeleteSteps
    <2>3. ~LookForNamespace
      BY <1>1, RunSteps DEF DeleteSteps
    <2>4. CASE AddFinalizer \/ PatchStatus \/ PatchStatusConflict \/ RemoveFinalizer
               \/ DeleteNamespace \/ Fail
      BY <2>4 DEF AddFinalizer, PatchStatus, PatchStatusConflict, RemoveFinalizer,
                  DeleteNamespace, Fail, Idle, DeleteSteps
    <2>5. CASE run' = run
      BY <1>1, <2>5
    <2>6. \/ ReadProject \/ GetFinalized \/ CreateNamespace \/ CheckNamespace \/ AddFinalizer
          \/ PatchStatus \/ PatchStatusConflict \/ RemoveFinalizer \/ DeleteNamespace \/ Fail
          \/ run' = run
      BY <2>3 DEF Next, Reconcile, Others, SkipProject, AddFinalizerFails, DeliverProject,
             DeliverNamespace, Resync, DeleteProject, CreateProject, CreateForeignNamespace,
             DeleteNamespaceByHand, FinishNamespace, vars
    <2>. QED BY <2>1, <2>2, <2>3, <2>4, <2>5, <2>6
  <1>3. CASE Stored(namespace) = Absent /\ (CreateNamespace \/ CreateForeignNamespace)
    <2>1. PICK managed \in BOOLEAN : namespace' = Put(namespace, NewNamespace(managed))
      BY <1>3 DEF CreateNamespace, CreateForeignNamespace
    <2>2. NewNamespace(managed) \in NamespaceVersions \cup {Absent}
      BY NewTypes
    <2>3. \A i \in 1 .. Len(namespace) : namespace[i] = Absent
      BY <1>1, <1>3
    <2>4. Stored(namespace') = NewNamespace(managed)
      BY <1>0, <2>1, <2>2, PutHistory
    <2>5. \A i \in 1 .. Len(namespace') :
             namespace'[i] = Absent \/ namespace'[i] = NewNamespace(managed)
      BY <1>0, <2>1, <2>2, <2>3, PutVersions
    <2>6. ~NewNamespace(managed).deleting
      BY DEF NewNamespace
    <2>. QED BY <1>2, <2>4, <2>5, <2>6
  <1>4. CASE DeliverNamespace
    <2>1. /\ Stored(namespace') = Stored(namespace)
          /\ Len(namespace') = Len(namespace) - 1 /\ Len(namespace) \in Nat
          /\ \A i \in 1 .. Len(namespace') : namespace'[i] = namespace[i + 1]
      BY <1>0, <1>4, DeliverHistory, HistoryEnds DEF DeliverNamespace
    <2>2. \A i \in 1 .. Len(namespace') : i + 1 \in 1 .. Len(namespace)
      BY <2>1
    <2>. QED BY <1>1, <1>2, <2>1, <2>2
  <1>5. CASE namespace' = namespace
    BY <1>1, <1>2, <1>5
  <1>6. \/ Stored(namespace) = Absent /\ (CreateNamespace \/ CreateForeignNamespace)
        \/ DeliverNamespace \/ namespace' = namespace
    <2>1. ~DeleteNamespace
      BY <1>1 DEF DeleteNamespace, DeleteSteps
    <2>2. ~FinishNamespace
      <3>1. Len(namespace) \in 1 .. Len(namespace)
        BY <1>0, HistoryEnds
      <3>. QED BY <1>1, <3>1 DEF FinishNamespace, Stored
    <2>3. CASE CreateNamespace \/ CreateForeignNamespace
      BY <2>3 DEF CreateNamespace, CreateForeignNamespace
    <2>. QED
      BY <1>0, <2>1, <2>2, <2>3
      DEF Next, Reconcile, Others, SkipProject, ReadProject, AddFinalizer, AddFinalizerFails,
          GetFinalized, CheckNamespace, LookForNamespace, PatchStatus, RemoveFinalizer, PatchStatusConflict,
          Fail, DeliverProject, Resync, DeleteProject, vars
  <1>. QED BY <1>3, <1>4, <1>5, <1>6

\* While undisturbed, a Namespace that is there is stored unchanged by every step.
LEMMA NamespaceKept ==
    ASSUME TypeOK, FinalizerInv, RestInv, [Next]_vars, Undisturbed'
    PROVE  Stored(namespace) # Absent => Stored(namespace') = Stored(namespace)
  <1>1. Undisturbed /\ ~DeleteNamespaceByHand /\ run.step \notin DeleteSteps
    BY UndisturbedBefore DEF RestInv, NamespaceStays
  <1>2. namespace \in Histories(NamespaceVersions \cup {Absent})
    BY DEF TypeOK
  <1>3. Stored(namespace) # Absent => ~Stored(namespace).deleting
    <2>1. Len(namespace) \in 1 .. Len(namespace)
      BY <1>2, HistoryEnds
    <2>. QED BY <1>1, <2>1 DEF RestInv, NamespaceStays, Stored
  <1>4. CASE DeliverNamespace
    BY <1>2, <1>4, DeliverHistory DEF DeliverNamespace
  <1>5. ~DeleteNamespace
    BY <1>1 DEF DeleteNamespace, DeleteSteps
  <1>. QED
    BY <1>1, <1>3, <1>4, <1>5
    DEF Next, Reconcile, Others, SkipProject, ReadProject, AddFinalizer, AddFinalizerFails,
        GetFinalized, CreateNamespace, CheckNamespace, LookForNamespace, PatchStatus, RemoveFinalizer,
        PatchStatusConflict, Fail, DeliverProject, Resync, DeleteProject,
        CreateProject, CreateForeignNamespace, FinishNamespace, vars

\* Whoever reports a Namespace has seen it.
LEMMA StepReport ==
    TypeOK /\ FinalizerInv /\ RestInv /\ [Next]_vars
       => (run.step = "status" /\ Undisturbed => Tells(run.reason))'
  <1>. SUFFICES ASSUME TypeOK, FinalizerInv, RestInv, [Next]_vars,
                       run'.step = "status", Undisturbed'
                PROVE  Tells(run.reason)'
    OBVIOUS
  <1>0. /\ Undisturbed /\ NamespaceStays
        /\ run \in [step : Steps, local : ProjectVersions, reason : Reasons]
        /\ namespace \in Histories(NamespaceVersions \cup {Absent})
    BY UndisturbedBefore DEF TypeOK, Runs, RestInv
  <1>1. CASE CheckNamespace
    <2>1. Cached(namespace) = Stored(namespace) /\ Cached(namespace) # Absent
      <3>1. 1 \in 1 .. Len(namespace) /\ Cached(namespace) = namespace[1]
        BY <1>0, HistoryEnds DEF Histories, Cached
      <3>2. Cached(namespace) # Absent
        BY <1>0, <1>1 DEF CheckNamespace
      <3>. QED BY <1>0, <3>1, <3>2 DEF NamespaceStays
    <2>. QED BY <1>0, <1>1, <2>1 DEF CheckNamespace, Report, Tells
  <1>2. CASE CreateNamespace
    <2>1. Stored(namespace) = Absent
      BY <1>2, StepOfRun DEF CreateNamespace
    <2>2. NewNamespace(TRUE) \in NamespaceVersions /\ NewNamespace(TRUE) # Absent
      BY NewTypes, AbsentAssumption
    <2>3. namespace' = Put(namespace, NewNamespace(TRUE)) /\ run'.reason = "NamespaceReady"
      BY <1>0, <1>2, <2>1 DEF CreateNamespace, Report
    <2>4. Stored(namespace') = NewNamespace(TRUE)
      BY <2>2, <2>3, StoredNamespace
    <2>5. NewNamespace(TRUE).managed
      BY DEF NewNamespace
    <2>. QED BY <2>2, <2>3, <2>4, <2>5 DEF Tells
  <1>3. CASE run' = run
    BY <1>0, <1>3, NamespaceKept DEF RestInv, Tells
  <1>4. run' = run \/ CheckNamespace \/ CreateNamespace
    <2>1. ~ (GetFinalized \/ LookForNamespace)
      BY RunSteps
    <2>2. ~ReadProject
      BY StepOfRun
    <2>3. ~ (AddFinalizer \/ PatchStatus \/ PatchStatusConflict \/ RemoveFinalizer
             \/ DeleteNamespace \/ Fail)
      BY DEF AddFinalizer, PatchStatus, PatchStatusConflict, RemoveFinalizer,
             DeleteNamespace, Fail, Idle
    <2>. QED
      BY <2>1, <2>2, <2>3
      DEF Next, Reconcile, Others, SkipProject, AddFinalizerFails, DeliverProject,
          DeliverNamespace, Resync, DeleteProject, CreateProject, CreateForeignNamespace,
          DeleteNamespaceByHand, FinishNamespace, vars
  <1>. QED BY <1>1, <1>2, <1>3, <1>4

\* What is at rest has been told: one case per way to come to rest.
LEMMA StepSettled == TypeOK /\ FinalizerInv /\ RestInv /\ [Next]_vars => Settled'
  <1>. SUFFICES ASSUME TypeOK, FinalizerInv, RestInv, [Next]_vars,
                       run'.step = "idle", ~queued', ~Pending(project'),
                       Stored(project') # Absent
                PROVE  /\ Live(Stored(project'))
                       /\ Stored(project').reason # "none"
                       /\ Undisturbed' => Tells(Stored(project).reason)'
    BY DEF Settled
  <1>. USE ReadsType
  <1>0. /\ CopyCurrent /\ Settled
        /\ project \in Histories(ProjectVersions \cup {Absent})
    BY DEF TypeOK, RestInv
  <1>1. CASE project' = project /\ queued' = queued /\ run' = run
    <2>1. Undisturbed' => Undisturbed /\ Stored(namespace') = Stored(namespace)
      <3>1. ASSUME Undisturbed' PROVE Tells(Stored(project).reason) /\ Undisturbed
        BY <1>0, <1>1, <3>1, UndisturbedBefore DEF Settled
      <3>. QED BY <3>1, NamespaceKept DEF Tells
    <2>. QED BY <1>0, <1>1, <2>1 DEF Settled, Tells
  <1>2. CASE PatchStatus
    <2>. DEFINE reason == Merged(run.local.reason, run.reason, Stored(project).reason)
                p == [Stored(project) EXCEPT !.reason = reason]
    <2>1. /\ Stored(project) \in ProjectVersions /\ project' = Put(project, p)
          /\ queued' = queued /\ run.step = "status" /\ run.step \in EnsureSteps
      BY <1>2 DEF PatchStatus, EnsureSteps
    <2>2. p \in ProjectVersions /\ p.reason = reason
      BY <2>1 DEF Merged, ProjectVersions
    <2>3. project' = project /\ p = Stored(project) /\ Cached(project) = Stored(project)
      BY <1>0, <2>1, <2>2, PutPending, CurrentCache
    <2>4. run.local = Stored(project) /\ ~Stored(project).deleting
      BY <1>0, <2>1, <2>3 DEF CopyCurrent
    <2>5. Stored(project).reason = run.reason
      BY <2>2, <2>3, <2>4 DEF Merged
    <2>6. run.reason # "none"
      BY <2>1 DEF TypeOK, Runs
    <2>7. Live(Stored(project))
      BY <2>1, <2>4 DEF FinalizerInv, Live
    <2>8. Undisturbed' => Tells(run.reason)
      BY <2>1, UndisturbedBefore DEF RestInv
    <2>9. namespace' = namespace
      BY <1>2 DEF PatchStatus
    <2>. QED BY <2>3, <2>5, <2>6, <2>7, <2>8, <2>9 DEF Tells
  <1>3. CASE SkipProject
    <2>1. project' = project /\ Cached(project) = Stored(project)
      BY <1>0, <1>3, CurrentCache DEF SkipProject
    <2>. QED BY <1>3, <2>1, Ends DEF SkipProject, FinalizerInv, Orderly
  <1>4. ~PatchStatusConflict
    <2>. SUFFICES ASSUME PatchStatusConflict PROVE FALSE
      OBVIOUS
    <2>1. project' = project /\ queued' = queued /\ run.step = "status"
          /\ Stored(project) # run.local
      BY DEF PatchStatusConflict
    <2>. QED BY <1>0, <2>1, CurrentCache DEF CopyCurrent
  <1>5. ~RemoveFinalizer
    <2>. SUFFICES ASSUME RemoveFinalizer PROVE FALSE
      OBVIOUS
    <2>1. project' = Put(project, Absent)
      BY DEF RemoveFinalizer
    <2>. QED BY <1>0, <2>1, PutHistory
  <1>6. CASE DeleteProject \/ CreateProject
    <2>1. queued' = queued /\ run' = run
      BY <1>6 DEF DeleteProject, CreateProject
    <2>2. PICK p \in ProjectVersions \cup {Absent} : project' = Put(project, p)
      BY <1>6, UserWrites
    <2>3. project' = project
      BY <1>0, <2>2, PutPending
    <2>. QED BY <1>1, <2>1, <2>3
  <1>7. CASE run' = run /\ UNCHANGED <<project, queued>>
    BY <1>1, <1>7
  <1>8. \/ SkipProject \/ PatchStatus \/ DeleteProject \/ CreateProject
        \/ run' = run /\ UNCHANGED <<project, queued>>
    <2>1. ~ (ReadProject \/ AddFinalizer)
      BY StepOfRun
    <2>2. ~ (DeleteNamespace \/ Fail \/ DeliverProject \/ Resync)
      BY DEF DeleteNamespace, Fail, DeliverProject, Resync
    <2>3. ~ (GetFinalized \/ CreateNamespace \/ CheckNamespace \/ LookForNamespace)
      BY RunSteps
    <2>. QED
      BY <1>4, <1>5, <2>1, <2>2, <2>3
      DEF Next, Reconcile, Others, AddFinalizerFails, DeliverNamespace,
          CreateForeignNamespace, DeleteNamespaceByHand, FinishNamespace, vars
  <1>. QED BY <1>2, <1>3, <1>6, <1>7, <1>8

\* In every reachable state all of the invariant holds.
LEMMA RestInvariant == Spec => []RestInv
  <1>1. TypeOK /\ FinalizerInv /\ RestInv /\ [Next]_vars => RestInv'
    <2>. SUFFICES ASSUME TypeOK, FinalizerInv, RestInv, [Next]_vars PROVE RestInv'
      OBVIOUS
    <2>1. LatestProject'
      BY StepLatest DEF RestInv
    <2>. QED BY <2>1, StepCopy, StepNamespaceStays, StepReport, StepSettled DEF RestInv
  <1>. QED BY <1>1, InitRest, Invariant, PTL DEF Spec

\* When all has come to rest, no Project is left being deleted, and the status of a
\* first Project tells what Namespace there is.
THEOREM RestTellsTheTruth == Spec => []RestsTruthful
  <1>1. TypeOK /\ RestInv => RestsTruthful
    <2>. SUFFICES ASSUME TypeOK, RestInv, Quiescent, Stored(project) # Absent
                  PROVE  /\ ~Stored(project).deleting
                         /\ Stored(project).finalizer
                         /\ Stored(project).reason # "none"
                         /\ Stored(project).uid = 1 /\ spent.deletes = 0 =>
                               Tells(Stored(project).reason)
      BY DEF RestsTruthful, Tells
    <2>1. /\ Live(Stored(project))
          /\ Stored(project).reason # "none"
          /\ Undisturbed => Tells(Stored(project).reason)
      BY DEF RestInv, Settled, Quiescent
    <2>. QED BY <2>1 DEF Live, Bound, RestInv, LatestProject, Undisturbed
  <1>. QED BY <1>1, TypeCorrect, RestInvariant, PTL
===========================================================================
