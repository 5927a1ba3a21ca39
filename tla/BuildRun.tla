----------------------------- MODULE BuildRun -----------------------------
(***************************************************************************)
(* The BuildRun reconciler of internal/controller/buildrun_controller.go:  *)
(* one BuildRun name, the Secret its spec refers to, the ServiceAccount    *)
(* made for its build, and the Tekton PipelineRun that is the build.       *)
(* Users create and delete the BuildRun and the Secret, Tekton carries out *)
(* the PipelineRun.                                                        *)
(*                                                                         *)
(* A BuildRun that refers to two Secrets is missing one if it is missing   *)
(* either, and one that refers to none has a Secret that is always there.  *)
(***************************************************************************)
EXTENDS ApiObject, Naturals

CONSTANTS
    Absent,            \* the object does not exist
    MaxBuildRuns,      \* bound: BuildRuns of that name, one after the other
    MaxChanges,        \* bound: creations and deletions of the Secret, pruned PipelineRuns
    MaxFaults,         \* bound: failed requests and ignored conflicts
    MaxLag             \* bound: events the cache has yet to receive when anybody but
                       \* the reconciler acts

ASSUME BoundsAssumption ==
    /\ MaxBuildRuns \in Nat \ {0}
    /\ MaxChanges \in Nat
    /\ MaxFaults \in Nat
    /\ MaxLag \in Nat \ {0}
---------------------------------------------------------------------------
VARIABLES
    buildRun,     \* versions of the BuildRun, cached to stored
    secret,       \* of the Secret it refers to
    account,      \* of its ServiceAccount
    pipelineRun,  \* of its PipelineRun
    queued,       \* the BuildRun's key waits in the work queue
    run,          \* the reconcile in progress
    builds,       \* builds[uid]: PipelineRuns made for that BuildRun and not pruned
    spent         \* how much of each bound is used up

objects == <<buildRun, secret, account, pipelineRun>>
vars == <<objects, queued, run, builds, spent>>

Uids == 1 .. MaxBuildRuns
Results == {"none", "running", "succeeded", "failed"}
Reasons ==
    {"none", "SecretNotFound", "PipelineRunCreated", "PipelineRunRunning",
     "PipelineRunSucceeded", "PipelineRunFailed"}

\* managed: the labels and the finalizer are there.  uid tells a BuildRun from a later
\* one of the same name, and owner names the BuildRun an object was made for.
BuildRunVersions == [uid : Uids, managed : BOOLEAN, deleting : BOOLEAN, reason : Reasons]
AccountVersions == [owner : Uids]
PipelineRunVersions == [owner : Uids, result : Results]

ASSUME AbsentAssumption ==
    Absent \notin BuildRunVersions \cup AccountVersions \cup PipelineRunVersions

NewBuildRun(uid) ==
    [uid |-> uid, managed |-> FALSE, deleting |-> FALSE, reason |-> "none"]

Steps == {"idle", "get", "secret", "missing", "account", "pipelineRun", "report",
          "deletePipelineRun", "deleteAccount", "finalize"}
Deletion == {"deletePipelineRun", "deleteAccount", "finalize"}
Runs ==
    {r \in [step : Steps, local : BuildRunVersions] : r.step \in Deletion => r.local.deleting}

Idle == [step |-> "idle", local |-> NewBuildRun(1)]

Init ==
    /\ buildRun = Fresh(NewBuildRun(1))
    /\ secret \in {Fresh(Absent), Fresh("present")}
    /\ account = Fresh(Absent)
    /\ pipelineRun = Fresh(Absent)
    /\ queued = TRUE
    /\ run = Idle
    /\ builds = [uid \in Uids |-> 0]
    /\ spent = [buildRuns |-> 1, secrets |-> 0, pruned |-> 0, faults |-> 0]
---------------------------------------------------------------------------
(***************************************************************************)
(* Reconcile                                                               *)
(***************************************************************************)
Starts == run.step = "idle" /\ queued

\* An error ends the reconcile and queues the key again.
Retry == run' = Idle /\ queued' = TRUE

GoOn(step) == run' = [run EXCEPT !.step = step] /\ UNCHANGED queued

SkipBuildRun ==
    /\ Starts
    /\ \/ Cached(buildRun) = Absent
       \/ Cached(buildRun) # Absent /\ Cached(buildRun).deleting /\ ~Cached(buildRun).managed
    /\ queued' = FALSE
    /\ UNCHANGED <<objects, run, builds, spent>>

\* Mutant: the test of the deletion timestamp is the wrong way round.
ReadBuildRunReversed ==
    /\ Starts
    /\ Cached(buildRun) # Absent
    /\ Cached(buildRun).managed
    /\ run' = [step |-> IF Cached(buildRun).deleting THEN "secret" ELSE "deletePipelineRun",
               local |-> Cached(buildRun)]
    /\ queued' = FALSE
    /\ UNCHANGED <<objects, builds, spent>>

\* Mutant: a BuildRun that is being deleted is left alone.
ReadLiveBuildRun ==
    /\ Starts
    /\ Cached(buildRun) # Absent
    /\ Cached(buildRun).managed
    /\ run' = IF Cached(buildRun).deleting THEN run
              ELSE [step |-> "secret", local |-> Cached(buildRun)]
    /\ queued' = FALSE
    /\ UNCHANGED <<objects, builds, spent>>

ReadBuildRun ==
    /\ Starts
    /\ Cached(buildRun) # Absent
    /\ Cached(buildRun).managed
    /\ run' = [step |-> IF Cached(buildRun).deleting THEN "deletePipelineRun" ELSE "secret",
               local |-> Cached(buildRun)]
    /\ queued' = FALSE
    /\ UNCHANGED <<objects, builds, spent>>

NeedsMetadata ==
    Cached(buildRun) # Absent /\ ~Cached(buildRun).deleting /\ ~Cached(buildRun).managed

\* ensureBuildRunMetadata and the Update, which needs a current copy.
LabelBuildRun ==
    /\ Starts
    /\ NeedsMetadata
    /\ Cached(buildRun) = Stored(buildRun)
    /\ buildRun' = Put(buildRun, [Stored(buildRun) EXCEPT !.managed = TRUE])
    /\ run' = [Idle EXCEPT !.step = "get"]
    /\ queued' = FALSE
    /\ UNCHANGED <<secret, account, pipelineRun, builds, spent>>

LabelFails ==
    /\ Starts
    /\ NeedsMetadata
    /\ Cached(buildRun) # Stored(buildRun)
    /\ UNCHANGED vars

\* The Get after the Update reads the cache; not found is an error.
GetLabelled ==
    /\ run.step = "get"
    /\ IF Cached(buildRun) = Absent
          THEN Retry
          ELSE run' = [step |-> "secret", local |-> Cached(buildRun)] /\ UNCHANGED queued
    /\ UNCHANGED <<objects, builds, spent>>

\* missingSecret.
CheckSecret ==
    /\ run.step = "secret"
    /\ GoOn(IF Cached(secret) = Absent THEN "missing" ELSE "account")
    /\ UNCHANGED <<objects, builds, spent>>

\* Mutant: these errors are ignored as those of the status are.
EnsureAccountIgnoringConflict ==
    /\ run.step = "account"
    /\ account' = IF Cached(account) = Stored(account)
                     THEN Put(account, [owner |-> run.local.uid]) ELSE account
    /\ GoOn("pipelineRun")
    /\ UNCHANGED <<buildRun, secret, pipelineRun, builds, spent>>

\* createOrUpdateBuildRunServiceAccount: an account the cache does not show yet, and
\* one whose cached copy is not current, are errors.
EnsureAccount ==
    /\ run.step = "account"
    /\ IF Cached(account) = Stored(account)
          THEN account' = Put(account, [owner |-> run.local.uid]) /\ GoOn("pipelineRun")
          ELSE Retry /\ UNCHANGED account
    /\ UNCHANGED <<buildRun, secret, pipelineRun, builds, spent>>

NewPipelineRun == [owner |-> run.local.uid, result |-> "none"]

\* Mutant: what the cache does not show is made anew.
ReplacePipelineRun ==
    /\ run.step = "pipelineRun"
    /\ Cached(pipelineRun) = Absent
    /\ pipelineRun' = Put(pipelineRun, NewPipelineRun)
    /\ builds' = [builds EXCEPT ![run.local.uid] = @ + 1]
    /\ GoOn("report")
    /\ UNCHANGED <<buildRun, secret, account, spent>>

\* createPipelineRun: one that is there already, cached or not, is left alone.
CreatePipelineRun ==
    /\ run.step = "pipelineRun"
    /\ Cached(pipelineRun) = Absent
    /\ IF Stored(pipelineRun) = Absent
          THEN /\ pipelineRun' = Put(pipelineRun, NewPipelineRun)
               /\ builds' = [builds EXCEPT ![run.local.uid] = @ + 1]
          ELSE UNCHANGED <<pipelineRun, builds>>
    /\ GoOn("report")
    /\ UNCHANGED <<buildRun, secret, account, spent>>

\* Mutant: a failed build is started anew.
RebuildFailed ==
    /\ run.step = "pipelineRun"
    /\ Cached(pipelineRun) # Absent
    /\ pipelineRun' = IF Cached(pipelineRun).result = "failed"
                         THEN Put(pipelineRun, NewPipelineRun) ELSE pipelineRun
    /\ GoOn("report")
    /\ UNCHANGED <<buildRun, secret, account, builds, spent>>

KeepPipelineRun ==
    /\ run.step = "pipelineRun"
    /\ Cached(pipelineRun) # Absent
    /\ GoOn("report")
    /\ UNCHANGED <<objects, builds, spent>>

\* buildRunConditionFromPipelineRun.
ReasonFor(result) ==
    CASE result = "none"      -> "PipelineRunCreated"
      [] result = "running"   -> "PipelineRunRunning"
      [] result = "succeeded" -> "PipelineRunSucceeded"
      [] result = "failed"    -> "PipelineRunFailed"

\* A merge patch of the status by name; without a BuildRun it is an error.
Patched(reason) ==
    /\ IF Stored(buildRun) = Absent
          THEN queued' = TRUE /\ UNCHANGED buildRun
          ELSE /\ buildRun' = Put(buildRun, [Stored(buildRun) EXCEPT
                                    !.reason = Merged(run.local.reason, reason, @)])
               /\ UNCHANGED queued
    /\ run' = Idle

ReportMissing ==
    /\ run.step = "missing"
    /\ Patched("SecretNotFound")
    /\ UNCHANGED <<secret, account, pipelineRun, builds, spent>>

\* The Get after the Create reads the cache, and not found is an error.
FindNoPipelineRun ==
    /\ run.step = "report"
    /\ Cached(pipelineRun) = Absent
    /\ Retry
    /\ UNCHANGED <<objects, builds, spent>>

ReportPipelineRun ==
    /\ run.step = "report"
    /\ Cached(pipelineRun) # Absent
    /\ Patched(ReasonFor(Cached(pipelineRun).result))
    /\ UNCHANGED <<secret, account, pipelineRun, builds, spent>>

\* ignoreConflict: somebody wrote the BuildRun meanwhile, and nothing is retried.
PatchStatusConflict ==
    /\ run.step \in {"missing", "report"}
    /\ Stored(buildRun) # run.local
    /\ spent.faults < MaxFaults
    /\ run' = Idle
    /\ spent' = [spent EXCEPT !.faults = @ + 1]
    /\ UNCHANGED <<objects, queued, builds>>

(***************************************************************************)
(* reconcileDelete                                                         *)
(***************************************************************************)
DeletePipelineRun ==
    /\ run.step = "deletePipelineRun"
    /\ pipelineRun' = Put(pipelineRun, Absent)
    /\ GoOn("deleteAccount")
    /\ UNCHANGED <<buildRun, secret, account, builds, spent>>

\* Mutant: an account the cache does not show is not deleted.
DeleteCachedAccount ==
    /\ run.step = "deleteAccount"
    /\ account' = IF Cached(account) = Absent THEN account ELSE Put(account, Absent)
    /\ GoOn("finalize")
    /\ UNCHANGED <<buildRun, secret, pipelineRun, builds, spent>>

DeleteAccount ==
    /\ run.step = "deleteAccount"
    /\ account' = Put(account, Absent)
    /\ GoOn("finalize")
    /\ UNCHANGED <<buildRun, secret, pipelineRun, builds, spent>>

\* Give up the finalizer, which ends the BuildRun.  A conflict is an error here.
Finalize ==
    /\ run.step = "finalize"
    /\ IF run.local = Stored(buildRun)
          THEN /\ buildRun' = Put(buildRun, Absent)
               /\ run' = Idle
               /\ UNCHANGED queued
          ELSE Retry /\ UNCHANGED buildRun
    /\ UNCHANGED <<secret, account, pipelineRun, builds, spent>>

\* Any other error, before or after its write, and the death of the process.
Fail ==
    /\ run.step # "idle"
    /\ spent.faults < MaxFaults
    /\ Retry
    /\ spent' = [spent EXCEPT !.faults = @ + 1]
    /\ UNCHANGED <<objects, builds>>

Reconcile ==
    \/ SkipBuildRun \/ ReadBuildRun \/ LabelBuildRun \/ LabelFails \/ GetLabelled
    \/ CheckSecret \/ EnsureAccount \/ CreatePipelineRun \/ KeepPipelineRun
    \/ ReportMissing \/ FindNoPipelineRun \/ ReportPipelineRun
    \/ DeletePipelineRun \/ DeleteAccount \/ Finalize
---------------------------------------------------------------------------
(***************************************************************************)
(* Watch events: SetupWithManager watches the BuildRun, the ServiceAccount *)
(* and the PipelineRun.  Secrets only reach the cache.                     *)
(***************************************************************************)
DeliverBuildRun ==
    /\ Pending(buildRun)
    /\ buildRun' = Deliver(buildRun)
    /\ queued' = TRUE
    /\ UNCHANGED <<secret, account, pipelineRun, run, builds, spent>>

DeliverAccount ==
    /\ Pending(account)
    /\ account' = Deliver(account)
    /\ queued' = TRUE
    /\ UNCHANGED <<buildRun, secret, pipelineRun, run, builds, spent>>

\* Mutant: PipelineRuns are not watched.
DeliverPipelineRunUnqueued ==
    /\ Pending(pipelineRun)
    /\ pipelineRun' = Deliver(pipelineRun)
    /\ UNCHANGED <<buildRun, secret, account, queued, run, builds, spent>>

DeliverPipelineRun ==
    /\ Pending(pipelineRun)
    /\ pipelineRun' = Deliver(pipelineRun)
    /\ queued' = TRUE
    /\ UNCHANGED <<buildRun, secret, account, run, builds, spent>>

DeliverSecret ==
    /\ Pending(secret)
    /\ secret' = Deliver(secret)
    /\ UNCHANGED <<buildRun, account, pipelineRun, queued, run, builds, spent>>

Resync ==
    /\ ~queued
    /\ queued' = TRUE
    /\ UNCHANGED <<objects, run, builds, spent>>
---------------------------------------------------------------------------
(***************************************************************************)
(* Users and Tekton                                                        *)
(***************************************************************************)
CacheKeepsUp ==
    Len(buildRun) + Len(secret) + Len(account) + Len(pipelineRun) - 4 <= MaxLag

CreateBuildRun ==
    /\ Stored(buildRun) = Absent
    /\ CacheKeepsUp
    /\ spent.buildRuns < MaxBuildRuns
    /\ buildRun' = Put(buildRun, NewBuildRun(spent.buildRuns + 1))
    /\ spent' = [spent EXCEPT !.buildRuns = @ + 1]
    /\ UNCHANGED <<secret, account, pipelineRun, queued, run, builds>>

\* Deleting a BuildRun without the finalizer removes it at once.
DeleteBuildRun ==
    /\ Stored(buildRun) # Absent
    /\ ~Stored(buildRun).deleting
    /\ CacheKeepsUp
    /\ buildRun' = Put(buildRun, IF Stored(buildRun).managed
                                    THEN [Stored(buildRun) EXCEPT !.deleting = TRUE]
                                    ELSE Absent)
    /\ UNCHANGED <<secret, account, pipelineRun, queued, run, builds, spent>>

ChangesLeft == spent.secrets + spent.pruned < MaxChanges /\ CacheKeepsUp

ChangeSecret ==
    /\ ChangesLeft
    /\ secret' = Put(secret, IF Stored(secret) = Absent THEN "present" ELSE Absent)
    /\ spent' = [spent EXCEPT !.secrets = @ + 1]
    /\ UNCHANGED <<buildRun, account, pipelineRun, queued, run, builds>>

NextResults(result) ==
    CASE result = "none"    -> {"running"}
      [] result = "running" -> {"succeeded", "failed"}
      [] OTHER              -> {}

Build ==
    /\ Stored(pipelineRun) # Absent
    /\ CacheKeepsUp
    /\ \E result \in NextResults(Stored(pipelineRun).result) :
          pipelineRun' = Put(pipelineRun, [Stored(pipelineRun) EXCEPT !.result = result])
    /\ UNCHANGED <<buildRun, secret, account, queued, run, builds, spent>>

Finished == {"succeeded", "failed"}

\* Tekton's pruner, or a user, removes a PipelineRun that is done.
Prune ==
    /\ Stored(pipelineRun) # Absent
    /\ Stored(pipelineRun).result \in Finished
    /\ ChangesLeft
    /\ pipelineRun' = Put(pipelineRun, Absent)
    /\ builds' = [builds EXCEPT ![Stored(pipelineRun).owner] = @ - 1]
    /\ spent' = [spent EXCEPT !.pruned = @ + 1]
    /\ UNCHANGED <<buildRun, secret, account, queued, run>>
---------------------------------------------------------------------------
Next ==
    \/ Reconcile \/ PatchStatusConflict \/ Fail
    \/ DeliverBuildRun \/ DeliverAccount \/ DeliverPipelineRun \/ DeliverSecret
    \/ Resync
    \/ CreateBuildRun \/ DeleteBuildRun \/ ChangeSecret \/ Build \/ Prune

\* The worker goes on and watch events arrive.  Tekton need not come to an end, users
\* need not do anything, nor need anything fail.
Fairness ==
    /\ WF_vars(Reconcile)
    /\ WF_vars(DeliverBuildRun)
    /\ WF_vars(DeliverAccount)
    /\ WF_vars(DeliverPipelineRun)
    /\ WF_vars(DeliverSecret)

Safety == Init /\ [][Next]_vars

Spec == Safety /\ Fairness
---------------------------------------------------------------------------
(***************************************************************************)
(* Properties                                                              *)
(***************************************************************************)
\* Every variable has its type.
TypeOK ==
    /\ buildRun \in Histories(BuildRunVersions \cup {Absent})
    /\ secret \in Histories({Absent, "present"})
    /\ account \in Histories(AccountVersions \cup {Absent})
    /\ pipelineRun \in Histories(PipelineRunVersions \cup {Absent})
    /\ queued \in BOOLEAN
    /\ run \in Runs
    /\ builds \in [Uids -> Nat]
    /\ spent \in [buildRuns : Uids, secrets : Nat, pruned : Nat, faults : Nat]

\* A BuildRun is built once: stale caches, failed requests and restarts repeat the
\* reconcile, and never the build; it is made anew only if it was pruned, and then once.
BuildsOnce == \A uid \in Uids : builds[uid] <= 1

\* A build never lacks its ServiceAccount, neither while both come to be nor while both
\* are deleted, nor does it run with the account of an earlier BuildRun.
BuildHasItsAccount ==
    Stored(pipelineRun) # Absent
        => Stored(account) # Absent /\ Stored(account).owner = Stored(pipelineRun).owner

\* When a BuildRun that carries the finalizer ends, nothing made for it is left, even
\* if the cache has never shown it.
LeavesNothing ==
    [][Stored(buildRun) # Absent /\ Stored(buildRun).managed /\ Stored(buildRun') = Absent
          => Stored(pipelineRun) = Absent /\ Stored(account) = Absent]_vars

\* The result of a build, once reported, is not taken back, unless a Secret that has
\* gone missing hides it or the build is pruned, and so made again.  A second BuildRun
\* of the name may report the result of the first one's build until the cache shows that
\* build deleted.
ResultStays ==
    [][Stored(buildRun) # Absent /\ Stored(buildRun).uid = 1
       /\ Stored(buildRun).reason \in {ReasonFor(result) : result \in Finished}
       /\ spent.pruned = 0 /\ Stored(buildRun') # Absent
          => Stored(buildRun').reason \in {Stored(buildRun).reason, "SecretNotFound"}]_vars

Quiescent ==
    /\ run.step = "idle" /\ ~queued
    /\ ~Pending(buildRun) /\ ~Pending(secret) /\ ~Pending(account) /\ ~Pending(pipelineRun)

\* When all has come to rest, a BuildRun being deleted is gone, and one that lives has
\* a build of its own and reports its result, unless it reports a missing Secret.
RestsTruthful ==
    Quiescent /\ Stored(buildRun) # Absent =>
        /\ ~Stored(buildRun).deleting /\ Stored(buildRun).managed
        /\ \/ Stored(buildRun).reason = "SecretNotFound"
           \/ /\ Stored(pipelineRun) # Absent
              /\ Stored(pipelineRun).owner = Stored(buildRun).uid
              /\ Stored(buildRun).reason = ReasonFor(Stored(pipelineRun).result)

\* A BuildRun that is being deleted ends, whatever its deletion has to repeat.
DeletedBuildRunEnds ==
    []<>~ (Stored(buildRun) # Absent /\ Stored(buildRun).deleting)

(***************************************************************************)
(* What the repository says of the program, and the program does not do.   *)
(***************************************************************************)
\* buildrun_controller.go:107: the status says that the Secret does not exist, so at
\* rest it does not.
ReportedSecretIsMissing ==
    Quiescent /\ Stored(buildRun) # Absent /\ Stored(buildRun).reason = "SecretNotFound"
        => Stored(secret) = Absent
===========================================================================
