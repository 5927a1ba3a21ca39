------------------------- MODULE ProjectNamespace -------------------------
(***************************************************************************)
(* The Project reconciler of internal/controller/project_controller.go:    *)
(* one Project name, the cluster-wide Namespace of the same name, and the  *)
(* finalizer that ties the end of the one to the end of the other.  Users  *)
(* create and delete the Project, and Namespaces of that name of their     *)
(* own; the Namespace controller takes its time to finish a deletion.      *)
(*                                                                         *)
(* Only Projects are watched: what happens to the Namespace reaches the    *)
(* cache and queues nothing.                                               *)
(***************************************************************************)
EXTENDS ApiObject, Naturals

CONSTANTS
    Absent,             \* the object does not exist
    MaxProjects,        \* bound: Projects of that name, one after the other
    MaxForeign,         \* bound: Namespaces users create themselves
    MaxDeletes,         \* bound: Namespaces users delete themselves
    MaxFaults           \* bound: failed requests and ignored conflicts

ASSUME BoundsAssumption ==
    /\ MaxProjects \in Nat \ {0}
    /\ MaxForeign \in Nat
    /\ MaxDeletes \in Nat
    /\ MaxFaults \in Nat
---------------------------------------------------------------------------
VARIABLES
    project,    \* versions of the Project, cached to stored
    namespace,  \* of the Namespace of its name
    queued,     \* the Project's key waits in the work queue
    run,        \* the reconcile in progress
    spent       \* how much of each bound is used up

vars == <<project, namespace, queued, run, spent>>

Reasons == {"none", "NamespaceReady", "NamespaceConflict"}

\* uid tells one Project from a later one of the same name.
ProjectVersions ==
    [uid : 1 .. MaxProjects, finalizer : BOOLEAN, deleting : BOOLEAN, reason : Reasons]

\* managed: both labels of isManagedNamespace are there.
NamespaceVersions == [managed : BOOLEAN, deleting : BOOLEAN]

ASSUME AbsentAssumption == Absent \notin ProjectVersions \cup NamespaceVersions

NewProject(uid) ==
    [uid |-> uid, finalizer |-> FALSE, deleting |-> FALSE, reason |-> "none"]

NewNamespace(managed) == [managed |-> managed, deleting |-> FALSE]

\* A reconcile knows its step, its copy of the Project and the reason to report.
EnsureSteps == {"get", "ensure", "create", "status"}
DeleteSteps == {"delete", "release", "terminate"}
Steps == {"idle"} \cup EnsureSteps \cup DeleteSteps
Runs ==
    {r \in [step : Steps, local : ProjectVersions, reason : Reasons] :
        /\ r.step \in DeleteSteps => r.local.deleting
        /\ r.step = "status" => r.reason # "none"}

Idle == [step |-> "idle", local |-> NewProject(1), reason |-> "none"]

\* The Namespace may be there first: somebody's own, or left by an earlier Project.
Init ==
    /\ project = Fresh(NewProject(1))
    /\ namespace \in {Fresh(Absent), Fresh(NewNamespace(TRUE)), Fresh(NewNamespace(FALSE))}
    /\ queued = TRUE
    /\ run = Idle
    /\ spent = [projects |-> 1, foreign |-> 0, deletes |-> 0, faults |-> 0]
---------------------------------------------------------------------------
(***************************************************************************)
(* Reconcile                                                               *)
(***************************************************************************)
Starts == run.step = "idle" /\ queued

\* Not found, or going away without the finalizer: nothing to do.
SkipProject ==
    /\ Starts
    /\ \/ Cached(project) = Absent
       \/ Cached(project) # Absent /\ Cached(project).deleting /\ ~Cached(project).finalizer
    /\ queued' = FALSE
    /\ UNCHANGED <<project, namespace, run, spent>>

\* Mutant: the test of the deletion timestamp is the wrong way round.
ReadProjectReversed ==
    /\ Starts
    /\ Cached(project) # Absent
    /\ Cached(project).finalizer
    /\ run' = [Idle EXCEPT !.step = IF Cached(project).deleting THEN "ensure" ELSE "delete",
                           !.local = Cached(project)]
    /\ queued' = FALSE
    /\ UNCHANGED <<project, namespace, spent>>

ReadProject ==
    /\ Starts
    /\ Cached(project) # Absent
    /\ Cached(project).finalizer
    /\ run' = [Idle EXCEPT !.step = IF Cached(project).deleting THEN "delete" ELSE "ensure",
                           !.local = Cached(project)]
    /\ queued' = FALSE
    /\ UNCHANGED <<project, namespace, spent>>

NeedsFinalizer ==
    Cached(project) # Absent /\ ~Cached(project).deleting /\ ~Cached(project).finalizer

\* Mutant: the finalizer is added to the copy and never sent.
ForgetFinalizer ==
    /\ Starts
    /\ NeedsFinalizer
    /\ Cached(project) = Stored(project)
    /\ run' = [Idle EXCEPT !.step = "get"]
    /\ queued' = FALSE
    /\ UNCHANGED <<project, namespace, spent>>

\* Add the finalizer; the Update succeeds only if the copy is current.
AddFinalizer ==
    /\ Starts
    /\ NeedsFinalizer
    /\ Cached(project) = Stored(project)
    /\ project' = Put(project, [Stored(project) EXCEPT !.finalizer = TRUE])
    /\ run' = [Idle EXCEPT !.step = "get"]
    /\ queued' = FALSE
    /\ UNCHANGED <<namespace, spent>>

\* Otherwise it conflicts, or finds no Project: the key stays in the queue.
AddFinalizerFails ==
    /\ Starts
    /\ NeedsFinalizer
    /\ Cached(project) # Stored(project)
    /\ UNCHANGED vars

\* The Get after the Update reads the cache again, and does not ask again whether
\* the Project is being deleted.  Not found is an error.
GetFinalized ==
    /\ run.step = "get"
    /\ IF Cached(project) = Absent
          THEN run' = Idle /\ queued' = TRUE
          ELSE /\ run' = [run EXCEPT !.step = "ensure", !.local = Cached(project)]
               /\ UNCHANGED queued
    /\ UNCHANGED <<project, namespace, spent>>

Report(reason) == run' = [run EXCEPT !.step = "status", !.reason = reason]

\* Mutant: any Namespace of that name will do.
AnyNamespace ==
    /\ run.step = "ensure"
    /\ IF Cached(namespace) = Absent THEN run' = [run EXCEPT !.step = "create"]
       ELSE Report("NamespaceReady")
    /\ UNCHANGED <<project, namespace, queued, spent>>

\* The Namespace is in the cache: one that is not managed is left alone and reported.
CheckNamespace ==
    /\ run.step = "ensure"
    /\ IF Cached(namespace) = Absent THEN run' = [run EXCEPT !.step = "create"]
       ELSE Report(IF Cached(namespace).managed THEN "NamespaceReady" ELSE "NamespaceConflict")
    /\ UNCHANGED <<project, namespace, queued, spent>>

\* It is not: Create it, or Requeue if the server has one by now.
CreateNamespace ==
    /\ run.step = "create"
    /\ IF Stored(namespace) = Absent
          THEN /\ namespace' = Put(namespace, NewNamespace(TRUE))
               /\ Report("NamespaceReady")
               /\ UNCHANGED queued
          ELSE run' = Idle /\ queued' = TRUE /\ UNCHANGED namespace
    /\ UNCHANGED <<project, spent>>

\* updateProjectStatus: a merge patch by name; without a Project it is an error.
PatchStatus ==
    /\ run.step = "status"
    /\ IF Stored(project) = Absent
          THEN queued' = TRUE /\ UNCHANGED project
          ELSE /\ project' = Put(project, [Stored(project) EXCEPT
                                   !.reason = Merged(run.local.reason, run.reason, @)])
               /\ UNCHANGED queued
    /\ run' = Idle
    /\ UNCHANGED <<namespace, spent>>

\* ignoreConflict: somebody wrote the Project meanwhile, and nothing is retried.
PatchStatusConflict ==
    /\ run.step = "status"
    /\ Stored(project) # run.local
    /\ spent.faults < MaxFaults
    /\ run' = Idle
    /\ spent' = [spent EXCEPT !.faults = @ + 1]
    /\ UNCHANGED <<project, namespace, queued>>

(***************************************************************************)
(* reconcileDelete                                                         *)
(***************************************************************************)
OurNamespace(version) == version # Absent /\ version.managed

\* Mutant: a Namespace that is going away counts as gone.
NoLiveNamespaceOfOurs ==
    ~ (OurNamespace(Cached(namespace)) /\ ~Cached(namespace).deleting)

NoNamespaceOfOurs == ~OurNamespace(Cached(namespace))

\* The Get: without a Namespace of ours the finalizer goes, one that is going away is
\* waited for, and one that lives is deleted.
LookForNamespace ==
    /\ run.step = "delete"
    /\ IF NoNamespaceOfOurs
          THEN run' = [run EXCEPT !.step = "release"] /\ UNCHANGED queued
       ELSE IF Cached(namespace).deleting
          THEN run' = Idle /\ queued' = TRUE
       ELSE run' = [run EXCEPT !.step = "terminate"] /\ UNCHANGED queued
    /\ UNCHANGED <<project, namespace, spent>>

\* Give up the finalizer, which ends the Project.  A copy that is not current is a
\* conflict, and the error is retried.
RemoveFinalizer ==
    /\ run.step = "release"
    /\ IF run.local = Stored(project)
          THEN project' = Put(project, Absent) /\ UNCHANGED queued
          ELSE queued' = TRUE /\ UNCHANGED project
    /\ run' = Idle
    /\ UNCHANGED <<namespace, spent>>

\* What a Delete by name leaves behind, whichever Namespace has the name by now.
Terminated ==
    IF Stored(namespace) = Absent THEN namespace
    ELSE Put(namespace, [Stored(namespace) EXCEPT !.deleting = TRUE])

\* Mutant: the reconcile is not repeated until the Namespace is gone.
DeleteNamespaceOnce ==
    /\ run.step = "terminate"
    /\ namespace' = Terminated
    /\ run' = Idle
    /\ UNCHANGED <<project, queued, spent>>

\* Requeue until it is gone.
DeleteNamespace ==
    /\ run.step = "terminate"
    /\ namespace' = Terminated
    /\ run' = Idle
    /\ queued' = TRUE
    /\ UNCHANGED <<project, spent>>

\* Any other error, before or after its write, and the death of the process.
Fail ==
    /\ run.step # "idle"
    /\ spent.faults < MaxFaults
    /\ run' = Idle
    /\ queued' = TRUE
    /\ spent' = [spent EXCEPT !.faults = @ + 1]
    /\ UNCHANGED <<project, namespace>>

Reconcile ==
    \/ SkipProject \/ ReadProject \/ AddFinalizer \/ AddFinalizerFails \/ GetFinalized
    \/ CheckNamespace \/ CreateNamespace \/ PatchStatus
    \/ LookForNamespace \/ RemoveFinalizer \/ DeleteNamespace
---------------------------------------------------------------------------
DeliverProject ==
    /\ Pending(project)
    /\ project' = Deliver(project)
    /\ queued' = TRUE
    /\ UNCHANGED <<namespace, run, spent>>

\* Nobody watches Namespaces: the cache of Get follows and no key is queued.
DeliverNamespace ==
    /\ Pending(namespace)
    /\ namespace' = Deliver(namespace)
    /\ UNCHANGED <<project, queued, run, spent>>

Resync ==
    /\ ~queued
    /\ queued' = TRUE
    /\ UNCHANGED <<project, namespace, run, spent>>
---------------------------------------------------------------------------
(***************************************************************************)
(* Users and the Namespace controller                                      *)
(***************************************************************************)
\* Deleting a Project without the finalizer removes it at once.
DeleteProject ==
    /\ Stored(project) # Absent
    /\ ~Stored(project).deleting
    /\ project' = Put(project, IF Stored(project).finalizer
                                  THEN [Stored(project) EXCEPT !.deleting = TRUE]
                                  ELSE Absent)
    /\ UNCHANGED <<namespace, queued, run, spent>>

CreateProject ==
    /\ Stored(project) = Absent
    /\ spent.projects < MaxProjects
    /\ project' = Put(project, NewProject(spent.projects + 1))
    /\ spent' = [spent EXCEPT !.projects = @ + 1]
    /\ UNCHANGED <<namespace, queued, run>>

CreateForeignNamespace ==
    /\ Stored(namespace) = Absent
    /\ spent.foreign < MaxForeign
    /\ namespace' = Put(namespace, NewNamespace(FALSE))
    /\ spent' = [spent EXCEPT !.foreign = @ + 1]
    /\ UNCHANGED <<project, queued, run>>

DeleteNamespaceByHand ==
    /\ Stored(namespace) # Absent
    /\ ~Stored(namespace).deleting
    /\ spent.deletes < MaxDeletes
    /\ namespace' = Put(namespace, [Stored(namespace) EXCEPT !.deleting = TRUE])
    /\ spent' = [spent EXCEPT !.deletes = @ + 1]
    /\ UNCHANGED <<project, queued, run>>

\* The Namespace controller has removed everything in it.
FinishNamespace ==
    /\ Stored(namespace) # Absent
    /\ Stored(namespace).deleting
    /\ namespace' = Put(namespace, Absent)
    /\ UNCHANGED <<project, queued, run, spent>>

Others ==
    \/ DeleteProject \/ CreateProject
    \/ CreateForeignNamespace \/ DeleteNamespaceByHand \/ FinishNamespace
---------------------------------------------------------------------------
Next ==
    \/ Reconcile \/ PatchStatusConflict \/ Fail
    \/ DeliverProject \/ DeliverNamespace \/ Resync
    \/ Others

\* The worker goes on, watch events arrive, and the Namespace controller finishes
\* what it was asked to delete.  Users need not do anything, nor need anything fail.
Fairness ==
    /\ WF_vars(Reconcile)
    /\ WF_vars(DeliverProject)
    /\ WF_vars(DeliverNamespace)
    /\ WF_vars(FinishNamespace)

Spec == Init /\ [][Next]_vars /\ Fairness
---------------------------------------------------------------------------
(***************************************************************************)
(* Properties                                                              *)
(***************************************************************************)
\* Every variable has its type.
TypeOK ==
    /\ project \in Histories(ProjectVersions \cup {Absent})
    /\ namespace \in Histories(NamespaceVersions \cup {Absent})
    /\ queued \in BOOLEAN
    /\ run \in Runs
    /\ spent \in [projects : 1 .. MaxProjects, foreign : Nat, deletes : Nat, faults : Nat]

\* CreateNamespace never runs ahead of the finalizer: when a managed Namespace comes
\* to be, its Project is stored with the finalizer, even if a user deleted the Project
\* after the reconcile read it.  Otherwise nothing would ever delete the Namespace.
CreatesUnderFinalizer ==
    [][Stored(namespace) = Absent /\ OurNamespace(Stored(namespace'))
          => Stored(project) # Absent /\ Stored(project).finalizer]_vars

\* A step that asks for the Namespace to be deleted, and is no user's.
ReconcilerDeletes ==
    /\ spent' = spent
    /\ Stored(namespace) # Absent /\ ~Stored(namespace).deleting
    /\ Stored(namespace') # Absent /\ Stored(namespace').deleting

\* Delete and Get go by name, and the copy of the Project may be one of a Project that
\* is gone: still no Namespace is deleted while the Project of its name, which may be
\* another one by now, lives and has had its finalizer from a reconcile.
SparesLiveProjects ==
    [][ReconcilerDeletes =>
          ~ /\ Stored(project) # Absent
            /\ Stored(project).finalizer
            /\ ~Stored(project).deleting]_vars

Quiescent ==
    /\ run.step = "idle" /\ ~queued
    /\ ~Pending(project) /\ ~Pending(namespace)
    /\ Stored(namespace) # Absent => ~Stored(namespace).deleting

\* When all has come to rest, a Project being deleted is gone, and the status of one
\* that lives tells what Namespace there is.  Two cases are left out: the second Project
\* of a name may have taken for its own the Namespace that the first one's reconcile
\* deleted afterwards, and nobody looks again after a Namespace deleted by hand.
RestsTruthful ==
    Quiescent /\ Stored(project) # Absent =>
        /\ ~Stored(project).deleting
        /\ Stored(project).finalizer
        /\ Stored(project).reason # "none"
        /\ Stored(project).uid = 1 /\ spent.deletes = 0 =>
              /\ Stored(namespace) # Absent
              /\ Stored(project).reason =
                    IF Stored(namespace).managed THEN "NamespaceReady"
                                                 ELSE "NamespaceConflict"

\* A Project being deleted whose Namespace the cache shows, and no reconcile has looked
\* for it too early: whoever looks now will find it.
KnowsItsNamespace ==
    /\ Stored(project) # Absent /\ Stored(project).deleting
    /\ \A i \in DOMAIN namespace : OurNamespace(namespace[i])
    /\ run.step # "release"

\* It takes its Namespace along: the Namespace goes, however often that is asked for and
\* interrupted, and the finalizer holds the Project until then.  A Namespace the cache
\* has yet to show is left behind; nothing in the repository says that it is not.
NamespaceGoesFirst ==
    KnowsItsNamespace ~> Stored(project) # Absent /\ ~OurNamespace(Stored(namespace))

\* A Project that is being deleted ends, and is not kept by its finalizer for ever.
DeletedProjectEnds ==
    []<>~ (Stored(project) # Absent /\ Stored(project).deleting)

(***************************************************************************)
(* What the repository says of the program, and the program does not do.   *)
(***************************************************************************)
\* project_controller.go:109: a Ready Project reports that its Namespace is managed
\* by Kudeploy, so there is one.
ReadyProjectHasNamespace ==
    Quiescent /\ Stored(project) # Absent /\ Stored(project).reason = "NamespaceReady"
        => OurNamespace(Stored(namespace))

\* project_controller_test.go:93: a same-name Namespace that is not managed is left as
\* it is, here by a Project that is being deleted.
UnmanagedNamespaceIsSpared ==
    [][ReconcilerDeletes => Stored(namespace).managed]_vars
===========================================================================
