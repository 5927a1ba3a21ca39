-------------------------- MODULE BuildRunProofs --------------------------
(***************************************************************************)
(* Theorems about BuildRun, for every value of its constants: any number   *)
(* of BuildRuns of a name, of changes of their Secret, of pruned builds,   *)
(* and of faults.                                                          *)
(***************************************************************************)
EXTENDS BuildRun, ApiObjectTheorems
---------------------------------------------------------------------------
(* The invariant *)

\* The BuildRun carries the finalizer, or carries it and is not being deleted.
Bound(b) == b # Absent /\ b.managed
Live(b) == Bound(b) /\ ~b.deleting

\* One version may come before another: later BuildRuns have larger uids, and one that
\* is being deleted stays so.
Precedes(p, q) == p.uid <= q.uid /\ (p.uid = q.uid /\ p.deleting => q.deleting)

\* The versions the cache still has to see, of at most count BuildRuns.  As long as it
\* can show one alive, that one is there and carries the finalizer.
Orderly(history, count) ==
    /\ \A i \in 1 .. Len(history) : history[i] # Absent => history[i].uid <= count
    /\ \A i, j \in 1 .. Len(history) :
          i <= j /\ history[i] # Absent /\ history[j] # Absent
              => Precedes(history[i], history[j])
    /\ \A i \in 1 .. Len(history) :
          Live(history[i]) => Bound(Stored(history)) /\ Stored(history).uid = history[i].uid

\* No other BuildRun can be seen any more, or yet.
OnlyOf(history, uid) ==
    \A i \in 1 .. Len(history) : history[i] # Absent => history[i].uid = uid

\* That BuildRun can be seen as being deleted only, if at all.
AllDeleting(history, uid) ==
    \A i \in 1 .. Len(history) :
        history[i] # Absent /\ history[i].uid = uid => history[i].deleting

\* A build made for that BuildRun is still there.
HasItsBuild(uid) ==
    builds[uid] = 1 => Stored(pipelineRun) # Absent /\ Stored(pipelineRun).owner = uid

Working == {"secret", "missing", "account", "pipelineRun", "report"}

\* A BuildRun whose build is gone without having been pruned is only seen as being
\* deleted, so that no reconcile makes the build anew.
CountInv ==
    \A uid \in Uids :
        /\ builds[uid] <= 1
        /\ uid > spent.buildRuns => builds[uid] = 0
        /\ HasItsBuild(uid) \/ AllDeleting(buildRun, uid)

\* What was made for a BuildRun is there only while the BuildRun is.
ChildrenInv ==
    /\ Stored(pipelineRun) # Absent =>
          /\ builds[Stored(pipelineRun).owner] = 1
          /\ Stored(account) # Absent
          /\ OnlyOf(buildRun, Stored(pipelineRun).owner)
          /\ run.step \notin {"idle", "get"} => run.local.uid = Stored(pipelineRun).owner
    /\ Stored(account) # Absent =>
          Bound(Stored(buildRun)) /\ Stored(buildRun).uid = Stored(account).owner

\* What a reconcile knows of the server, though it has only read the cache.
RunInv ==
    /\ run.step \in Working =>
          /\ Bound(Stored(buildRun))
          /\ OnlyOf(buildRun, run.local.uid)
          /\ HasItsBuild(run.local.uid)
    /\ run.step = "get" =>
          /\ Bound(Stored(buildRun))
          /\ OnlyOf(buildRun, Stored(buildRun).uid)
          /\ HasItsBuild(Stored(buildRun).uid)
    /\ run.step = "pipelineRun" => Stored(account) # Absent
    /\ run.step \in Deletion =>
          run.local.uid <= spent.buildRuns /\ AllDeleting(buildRun, run.local.uid)
    /\ run.step \in {"deleteAccount", "finalize"} => Stored(pipelineRun) = Absent
    /\ run.step = "finalize" => Stored(account) = Absent

BuildInv ==
    /\ Orderly(buildRun, spent.buildRuns)
    /\ CountInv
    /\ ChildrenInv
    /\ RunInv
---------------------------------------------------------------------------
(* Types *)

Spents == [buildRuns : Uids, secrets : Nat, pruned : Nat, faults : Nat]

\* A new BuildRun and the idle worker have their types.
LEMMA NewTypes ==
    /\ \A uid \in Uids : NewBuildRun(uid) \in BuildRunVersions
    /\ Idle \in Runs /\ Idle.step = "idle"
    /\ 1 \in Uids
  <1>1. 1 \in Uids
    BY BoundsAssumption DEF Uids
  <1>2. \A uid \in Uids : NewBuildRun(uid) \in BuildRunVersions
    BY DEF NewBuildRun, BuildRunVersions, Reasons
  <1>. QED BY <1>1, <1>2 DEF Idle, Runs, Steps, Deletion

\* What a reconcile reads has its type.
LEMMA ReadsType ==
    ASSUME TypeOK
    PROVE  /\ Cached(buildRun) \in BuildRunVersions \cup {Absent}
           /\ Stored(buildRun) \in BuildRunVersions \cup {Absent}
           /\ Stored(account) \in AccountVersions \cup {Absent}
           /\ Cached(pipelineRun) \in PipelineRunVersions \cup {Absent}
           /\ Stored(pipelineRun) \in PipelineRunVersions \cup {Absent}
           /\ run.local \in BuildRunVersions /\ run.step \in Steps
  BY HistoryEnds DEF TypeOK, Runs

\* The fields of a version have their types, and a uid is a number.
LEMMA FieldTypes ==
    /\ \A b \in BuildRunVersions : b # Absent /\ b.uid \in Uids /\ b.reason \in Reasons
          /\ b.deleting \in BOOLEAN /\ b.managed \in BOOLEAN
    /\ \A p \in PipelineRunVersions : p # Absent /\ p.owner \in Uids /\ p.result \in Results
    /\ \A a \in AccountVersions : a # Absent /\ a.owner \in Uids
    /\ \A uid \in Uids : uid \in Nat
  BY AbsentAssumption DEF BuildRunVersions, PipelineRunVersions, AccountVersions, Uids

\* A BuildRun or a PipelineRun keeps its type when one of its fields changes.
LEMMA EditedTypes ==
    /\ \A b \in BuildRunVersions :
          /\ [b EXCEPT !.managed = TRUE] \in BuildRunVersions
          /\ [b EXCEPT !.deleting = TRUE] \in BuildRunVersions
          /\ \A reason \in Reasons : [b EXCEPT !.reason = reason] \in BuildRunVersions
    /\ \A p \in PipelineRunVersions : \A result \in Results :
          [p EXCEPT !.result = result] \in PipelineRunVersions
  BY DEF BuildRunVersions, PipelineRunVersions

\* Whatever of its type is written to an object, its versions keep their type.
LEMMA WritesType ==
    ASSUME TypeOK
    PROVE  /\ \A b \in BuildRunVersions \cup {Absent} :
                 Put(buildRun, b) \in Histories(BuildRunVersions \cup {Absent})
           /\ \A a \in AccountVersions \cup {Absent} :
                 Put(account, a) \in Histories(AccountVersions \cup {Absent})
           /\ \A p \in PipelineRunVersions \cup {Absent} :
                 Put(pipelineRun, p) \in Histories(PipelineRunVersions \cup {Absent})
           /\ \A s \in {Absent, "present"} :
                 Put(secret, s) \in Histories({Absent, "present"})
  BY PutHistory DEF TypeOK

\* The first state has the types.
LEMMA InitType == Init => TypeOK
  <1>. SUFFICES ASSUME Init PROVE TypeOK
    OBVIOUS
  <1>1. buildRun \in Histories(BuildRunVersions \cup {Absent})
    BY NewTypes, FreshHistory DEF Init
  <1>2. \A v \in {Absent, "present"} : Fresh(v) \in Histories({Absent, "present"})
    BY FreshHistory
  <1>3. account \in Histories(AccountVersions \cup {Absent})
        /\ pipelineRun \in Histories(PipelineRunVersions \cup {Absent})
    BY FreshHistory DEF Init
  <1>4. spent \in Spents
    BY NewTypes DEF Init, Spents
  <1>. QED BY <1>1, <1>2, <1>3, <1>4, NewTypes DEF Init, TypeOK, Spents

\* A reconcile that goes on to a step that is no deletion keeps its type.
LEMMA GoOnType ==
    ASSUME TypeOK, NEW step \in Steps \ Deletion
    PROVE  [run EXCEPT !.step = step] \in Runs
  BY DEF TypeOK, Runs

\* What the reconciler reports is one of the reasons.
LEMMA ReasonType == \A result \in Results : ReasonFor(result) \in Reasons
  BY DEF Results, ReasonFor, Reasons

\* A patch of the status keeps the types.
LEMMA PatchedType ==
    ASSUME TypeOK, NEW reason \in Reasons, Patched(reason)
    PROVE  /\ buildRun' \in Histories(BuildRunVersions \cup {Absent})
           /\ run' \in Runs /\ queued' \in BOOLEAN
  <1>. USE ReadsType, NewTypes
  <1>1. CASE Stored(buildRun) = Absent
    BY <1>1 DEF Patched, TypeOK
  <1>2. CASE Stored(buildRun) # Absent
    <2>1. Merged(run.local.reason, reason, Stored(buildRun).reason) \in Reasons
      BY <1>2, FieldTypes DEF Merged
    <2>2. buildRun' \in Histories(BuildRunVersions \cup {Absent})
      BY <1>2, <2>1, EditedTypes, WritesType DEF Patched
    <2>. QED BY <1>2, <2>2 DEF Patched, TypeOK
  <1>. QED BY <1>1, <1>2

\* Each write puts a version of the object's type, and what is pruned was counted.
LEMMA StepType == TypeOK /\ BuildInv /\ [Next]_vars => TypeOK'
  <1>. SUFFICES ASSUME TypeOK, BuildInv, [Next]_vars PROVE TypeOK'
    OBVIOUS
  <1>. USE ReadsType, NewTypes
  <1>1. CASE SkipBuildRun \/ LabelFails \/ Resync
    BY <1>1 DEF SkipBuildRun, LabelFails, Resync, TypeOK, vars, objects
  <1>2. CASE ReadBuildRun
    <2>1. run' \in Runs
      BY <1>2 DEF ReadBuildRun, Runs, Steps, Deletion
    <2>. QED BY <1>2, <2>1 DEF ReadBuildRun, TypeOK, objects
  <1>3. CASE LabelBuildRun
    <2>1. Stored(buildRun) \in BuildRunVersions
      BY <1>3 DEF LabelBuildRun, NeedsMetadata
    <2>2. buildRun' \in Histories(BuildRunVersions \cup {Absent})
      BY <1>3, <2>1, EditedTypes, WritesType DEF LabelBuildRun
    <2>3. run' \in Runs
      BY <1>3 DEF LabelBuildRun, Idle, Runs, Steps, Deletion
    <2>. QED BY <1>3, <2>2, <2>3 DEF LabelBuildRun, TypeOK
  <1>4. CASE GetLabelled
    <2>1. CASE Cached(buildRun) = Absent
      BY <1>4, <2>1 DEF GetLabelled, Retry, TypeOK, objects
    <2>2. CASE Cached(buildRun) # Absent
      <3>1. run' \in Runs
        BY <1>4, <2>2 DEF GetLabelled, Runs, Steps, Deletion
      <3>. QED BY <1>4, <2>2, <3>1 DEF GetLabelled, TypeOK, objects
    <2>. QED BY <2>1, <2>2
  <1>5. CASE CheckSecret \/ KeepPipelineRun
    <2>1. run' \in Runs
      BY <1>5, GoOnType DEF CheckSecret, KeepPipelineRun, GoOn, Steps, Deletion
    <2>. QED BY <1>5, <2>1 DEF CheckSecret, KeepPipelineRun, GoOn, TypeOK, objects
  <1>6. CASE EnsureAccount
    <2>1. [owner |-> run.local.uid] \in AccountVersions
      BY FieldTypes DEF AccountVersions
    <2>2. account' \in Histories(AccountVersions \cup {Absent})
      BY <1>6, <2>1, WritesType DEF EnsureAccount, TypeOK
    <2>3. run' \in Runs /\ queued' \in BOOLEAN
      BY <1>6, GoOnType DEF EnsureAccount, Retry, GoOn, Steps, Deletion, TypeOK
    <2>. QED BY <1>6, <2>2, <2>3 DEF EnsureAccount, TypeOK
  <1>7. CASE CreatePipelineRun
    <2>1. NewPipelineRun \in PipelineRunVersions
      BY FieldTypes DEF NewPipelineRun, PipelineRunVersions, Results
    <2>2. pipelineRun' \in Histories(PipelineRunVersions \cup {Absent})
      BY <1>7, <2>1, WritesType DEF CreatePipelineRun, TypeOK
    <2>3. builds' \in [Uids -> Nat]
      BY <1>7, FieldTypes DEF CreatePipelineRun, TypeOK
    <2>4. run' \in Runs
      BY <1>7, GoOnType DEF CreatePipelineRun, GoOn, Steps, Deletion
    <2>. QED BY <1>7, <2>2, <2>3, <2>4 DEF CreatePipelineRun, GoOn, TypeOK
  <1>8. CASE ReportMissing
    <2>1. "SecretNotFound" \in Reasons
      BY DEF Reasons
    <2>. QED BY <1>8, <2>1, PatchedType DEF ReportMissing, TypeOK
  <1>9. CASE ReportPipelineRun
    <2>1. ReasonFor(Cached(pipelineRun).result) \in Reasons
      BY <1>9, FieldTypes, ReasonType DEF ReportPipelineRun
    <2>. QED BY <1>9, <2>1, PatchedType DEF ReportPipelineRun, TypeOK
  <1>10. CASE FindNoPipelineRun
    BY <1>10 DEF FindNoPipelineRun, Retry, TypeOK, objects
  <1>11. CASE PatchStatusConflict \/ Fail
    <2>1. spent' \in Spents
      BY <1>11 DEF PatchStatusConflict, Fail, TypeOK, Spents
    <2>2. run' \in Runs /\ queued' \in BOOLEAN
      BY <1>11 DEF PatchStatusConflict, Fail, Retry, TypeOK
    <2>. QED BY <1>11, <2>1, <2>2 DEF PatchStatusConflict, Fail, TypeOK, objects, Spents
  <1>12. CASE DeletePipelineRun \/ DeleteAccount
    <2>1. run' \in Runs
      BY <1>12 DEF DeletePipelineRun, DeleteAccount, GoOn, TypeOK, Runs, Steps, Deletion
    <2>2. pipelineRun' \in Histories(PipelineRunVersions \cup {Absent})
          /\ account' \in Histories(AccountVersions \cup {Absent})
      BY <1>12, WritesType DEF DeletePipelineRun, DeleteAccount, TypeOK
    <2>. QED BY <1>12, <2>1, <2>2 DEF DeletePipelineRun, DeleteAccount, GoOn, TypeOK
  <1>13. CASE Finalize
    <2>1. buildRun' \in Histories(BuildRunVersions \cup {Absent})
      BY <1>13, WritesType DEF Finalize, TypeOK
    <2>. QED BY <1>13, <2>1 DEF Finalize, Retry, TypeOK
  <1>14. CASE DeliverBuildRun \/ DeliverAccount \/ DeliverPipelineRun \/ DeliverSecret
    <2>1. /\ Pending(buildRun) =>
               Deliver(buildRun) \in Histories(BuildRunVersions \cup {Absent})
          /\ Pending(account) => Deliver(account) \in Histories(AccountVersions \cup {Absent})
          /\ Pending(pipelineRun) =>
               Deliver(pipelineRun) \in Histories(PipelineRunVersions \cup {Absent})
          /\ Pending(secret) => Deliver(secret) \in Histories({Absent, "present"})
      BY DeliverHistory DEF TypeOK
    <2>. QED BY <1>14, <2>1
             DEF DeliverBuildRun, DeliverAccount, DeliverPipelineRun, DeliverSecret, TypeOK
  <1>15. CASE CreateBuildRun
    <2>1. spent.buildRuns + 1 \in Uids
      BY <1>15, BoundsAssumption DEF CreateBuildRun, TypeOK, Uids
    <2>2. buildRun' \in Histories(BuildRunVersions \cup {Absent})
      BY <1>15, <2>1, WritesType DEF CreateBuildRun
    <2>3. spent' \in Spents
      BY <1>15, <2>1 DEF CreateBuildRun, TypeOK, Spents
    <2>. QED BY <1>15, <2>2, <2>3 DEF CreateBuildRun, TypeOK, Spents
  <1>16. CASE DeleteBuildRun
    <2>1. buildRun' \in Histories(BuildRunVersions \cup {Absent})
      BY <1>16, EditedTypes, WritesType DEF DeleteBuildRun
    <2>. QED BY <1>16, <2>1 DEF DeleteBuildRun, TypeOK
  <1>17. CASE ChangeSecret
    <2>1. secret' \in Histories({Absent, "present"})
      BY <1>17, WritesType DEF ChangeSecret
    <2>2. spent' \in Spents
      BY <1>17 DEF ChangeSecret, TypeOK, Spents
    <2>. QED BY <1>17, <2>1, <2>2 DEF ChangeSecret, TypeOK, Spents
  <1>18. CASE Build
    <2>1. PICK result \in NextResults(Stored(pipelineRun).result) :
             pipelineRun' = Put(pipelineRun, [Stored(pipelineRun) EXCEPT !.result = result])
      BY <1>18 DEF Build
    <2>2. result \in Results
      BY <2>1 DEF NextResults, Results
    <2>3. pipelineRun' \in Histories(PipelineRunVersions \cup {Absent})
      BY <1>18, <2>1, <2>2, EditedTypes, WritesType DEF Build
    <2>. QED BY <1>18, <2>3 DEF Build, TypeOK
  <1>19. CASE Prune
    <2>1. pipelineRun' \in Histories(PipelineRunVersions \cup {Absent})
      BY <1>19, WritesType DEF Prune
    <2>2. builds[Stored(pipelineRun).owner] = 1
      BY <1>19 DEF Prune, BuildInv, ChildrenInv
    <2>3. builds' \in [Uids -> Nat]
      BY <1>19, <2>2, FieldTypes DEF Prune, TypeOK
    <2>4. spent' \in Spents
      BY <1>19 DEF Prune, TypeOK, Spents
    <2>. QED BY <1>19, <2>1, <2>3, <2>4 DEF Prune, TypeOK, Spents
  <1>20. CASE UNCHANGED vars
    BY <1>20 DEF vars, objects, TypeOK
  <1>. QED
    BY <1>1, <1>2, <1>3, <1>4, <1>5, <1>6, <1>7, <1>8, <1>9, <1>10, <1>11, <1>12, <1>13,
       <1>14, <1>15, <1>16, <1>17, <1>18, <1>19, <1>20 DEF Next, Reconcile
---------------------------------------------------------------------------
(* What a write, or a watch event, does to the versions of the BuildRun *)

\* What the cache shows and what is stored are the first and the last version.
LEMMA Ends ==
    ASSUME TypeOK
    PROVE  /\ Len(buildRun) \in Nat /\ 1 \in 1 .. Len(buildRun)
           /\ Len(buildRun) \in 1 .. Len(buildRun)
           /\ Cached(buildRun) = buildRun[1] /\ Stored(buildRun) = buildRun[Len(buildRun)]
           /\ \A i \in 1 .. Len(buildRun) : buildRun[i] \in BuildRunVersions \cup {Absent}
           /\ spent.buildRuns \in Nat /\ builds \in [Uids -> Nat]
  BY FieldTypes DEF TypeOK, Histories, Cached, Stored

\* A written BuildRun shows its earlier versions and the new one.
LEMMA WriteVersions ==
    ASSUME TypeOK, NEW b \in BuildRunVersions \cup {Absent}
    PROVE  /\ Stored(Put(buildRun, b)) = b
           /\ \A i \in 1 .. Len(Put(buildRun, b)) :
                 \/ i \in 1 .. Len(buildRun) /\ Put(buildRun, b)[i] = buildRun[i]
                 \/ i = Len(Put(buildRun, b)) /\ Put(buildRun, b)[i] = b
  BY PutVersions, PutHistory DEF TypeOK

\* A version may be written if every earlier one may come before it, and if it goes on
\* with whichever of them is alive.
LEMMA WriteOrderly ==
    ASSUME TypeOK, NEW count \in Nat, spent.buildRuns <= count,
           NEW b \in BuildRunVersions \cup {Absent},
           Orderly(buildRun, spent.buildRuns),
           b # Absent =>
              /\ b.uid <= count
              /\ \A i \in 1 .. Len(buildRun) :
                    buildRun[i] # Absent => Precedes(buildRun[i], b),
           \A i \in 1 .. Len(buildRun) :
              Live(buildRun[i]) => Bound(b) /\ b.uid = buildRun[i].uid
    PROVE  Orderly(Put(buildRun, b), count)
  <1>. DEFINE h == Put(buildRun, b)
  <1>. USE Ends, FieldTypes
  <1>1. \A i \in 1 .. Len(h) :
           \/ i \in 1 .. Len(buildRun) /\ h[i] = buildRun[i]
           \/ i = Len(h) /\ h[i] = b
    BY WriteVersions
  <1>2. Stored(h) = b
    BY WriteVersions
  <1>3. \A i \in 1 .. Len(h) : h[i] # Absent => h[i].uid <= count
    BY <1>1 DEF Orderly
  <1>4. ASSUME NEW i \in 1 .. Len(h), NEW j \in 1 .. Len(h), i <= j,
               h[i] # Absent, h[j] # Absent
        PROVE  Precedes(h[i], h[j])
    <2>1. CASE h[j] = b /\ h[i] = b
      BY <2>1, <1>4 DEF Precedes
    <2>2. CASE h[j] = b /\ i \in 1 .. Len(buildRun) /\ h[i] = buildRun[i]
      BY <2>2, <1>4
    <2>3. CASE j \in 1 .. Len(buildRun) /\ h[j] = buildRun[j]
               /\ i \in 1 .. Len(buildRun) /\ h[i] = buildRun[i]
      BY <2>3, <1>4 DEF Orderly
    <2>4. CASE j \in 1 .. Len(buildRun) /\ h[j] = buildRun[j] /\ i = Len(h) /\ h[i] = b
      <3>1. i = j
        BY <2>4, <1>4 DEF Put, TypeOK, Histories
      <3>. QED BY <2>4, <3>1, <1>4 DEF Precedes
    <2>. QED BY <1>1, <2>1, <2>2, <2>3, <2>4
  <1>5. \A i \in 1 .. Len(h) :
           Live(h[i]) => Bound(Stored(h)) /\ Stored(h).uid = h[i].uid
    BY <1>1, <1>2 DEF Live
  <1>. QED BY <1>3, <1>4, <1>5 DEF Orderly

\* A watch event only takes the first version away.
LEMMA DeliverOrderly ==
    ASSUME TypeOK, Pending(buildRun), Orderly(buildRun, spent.buildRuns)
    PROVE  /\ Orderly(Deliver(buildRun), spent.buildRuns)
           /\ Stored(Deliver(buildRun)) = Stored(buildRun)
           /\ \A i \in 1 .. Len(Deliver(buildRun)) :
                 i + 1 \in 1 .. Len(buildRun) /\ Deliver(buildRun)[i] = buildRun[i + 1]
  <1>. DEFINE h == Deliver(buildRun)
  <1>1. /\ Stored(h) = Stored(buildRun)
        /\ \A i \in 1 .. Len(h) : i + 1 \in 1 .. Len(buildRun) /\ h[i] = buildRun[i + 1]
    BY DeliverHistory, Ends DEF TypeOK
  <1>. HIDE DEF h
  <1>2. \A i \in 1 .. Len(h) : h[i] # Absent => h[i].uid <= spent.buildRuns
    BY <1>1 DEF Orderly
  <1>3. ASSUME NEW i \in 1 .. Len(h), NEW j \in 1 .. Len(h), i <= j,
               h[i] # Absent, h[j] # Absent
        PROVE  Precedes(h[i], h[j])
    <2>1. i + 1 <= j + 1
      BY <1>3
    <2>. QED BY <1>1, <1>3, <2>1 DEF Orderly
  <1>4. \A i \in 1 .. Len(h) : Live(h[i]) => Bound(Stored(h)) /\ Stored(h).uid = h[i].uid
    BY <1>1 DEF Orderly
  <1>. QED BY <1>1, <1>2, <1>3, <1>4 DEF Orderly, h

\* A write that goes on with the stored BuildRun keeps all that is known of its versions.
LEMMA EditKeeps ==
    ASSUME TypeOK, Orderly(buildRun, spent.buildRuns), NEW b \in BuildRunVersions,
           Stored(buildRun) # Absent, b.uid = Stored(buildRun).uid,
           Stored(buildRun).managed => b.managed,
           Stored(buildRun).deleting => b.deleting
    PROVE  /\ Orderly(Put(buildRun, b), spent.buildRuns)
           /\ Stored(Put(buildRun, b)) = b
           /\ Bound(Stored(buildRun)) => Bound(b)
           /\ \A uid \in Uids :
                 /\ OnlyOf(buildRun, uid) => OnlyOf(Put(buildRun, b), uid)
                 /\ AllDeleting(buildRun, uid) => AllDeleting(Put(buildRun, b), uid)
  <1>. USE Ends, FieldTypes
  <1>1. Stored(buildRun) \in BuildRunVersions
    OBVIOUS
  <1>2. \A i \in 1 .. Len(buildRun) :
           buildRun[i] # Absent => Precedes(buildRun[i], Stored(buildRun))
    BY DEF Orderly
  <1>3. \A i \in 1 .. Len(buildRun) : buildRun[i] # Absent => Precedes(buildRun[i], b)
    BY <1>2 DEF Precedes
  <1>4. b.uid <= spent.buildRuns
    BY DEF Orderly
  <1>5. \A i \in 1 .. Len(buildRun) :
           Live(buildRun[i]) => Bound(b) /\ b.uid = buildRun[i].uid
    BY DEF Orderly, Bound
  <1>6. Orderly(Put(buildRun, b), spent.buildRuns)
    BY <1>3, <1>4, <1>5, WriteOrderly
  <1>7. /\ Stored(Put(buildRun, b)) = b
        /\ \A i \in 1 .. Len(Put(buildRun, b)) :
              \/ i \in 1 .. Len(buildRun) /\ Put(buildRun, b)[i] = buildRun[i]
              \/ Put(buildRun, b)[i] = b
    BY WriteVersions
  <1>8. ASSUME NEW uid \in Uids, OnlyOf(buildRun, uid) PROVE OnlyOf(Put(buildRun, b), uid)
    BY <1>7, <1>8 DEF OnlyOf
  <1>9. ASSUME NEW uid \in Uids, AllDeleting(buildRun, uid)
        PROVE  AllDeleting(Put(buildRun, b), uid)
    <2>1. b.uid = uid => b.deleting
      BY <1>9 DEF AllDeleting
    <2>. QED BY <1>7, <1>9, <2>1 DEF AllDeleting
  <1>. QED BY <1>6, <1>7, <1>8, <1>9 DEF Bound
---------------------------------------------------------------------------
(* Every step keeps the invariant *)

\* The first BuildRun has no build, and no reconcile runs.
LEMMA InitBuild == Init => BuildInv
  <1>. SUFFICES ASSUME Init PROVE BuildInv
    OBVIOUS
  <1>1. /\ Len(buildRun) = 1 /\ buildRun[1] = NewBuildRun(1)
        /\ Stored(account) = Absent /\ Stored(pipelineRun) = Absent
    BY FreshHistory DEF Init
  <1>2. Orderly(buildRun, spent.buildRuns)
    BY <1>1 DEF Init, Orderly, Precedes, Live, Bound, NewBuildRun
  <1>3. CountInv
    BY DEF Init, CountInv, HasItsBuild
  <1>4. ChildrenInv
    BY <1>1 DEF ChildrenInv
  <1>5. RunInv
    BY DEF Init, Idle, RunInv, Working, Deletion
  <1>. QED BY <1>2, <1>3, <1>4, <1>5 DEF BuildInv

\* A step that makes no version of the three objects, and at most ends the reconcile,
\* leaves the invariant alone.
LEMMA NothingMoves ==
    ASSUME TypeOK, BuildInv, buildRun' = buildRun, builds' = builds,
           spent'.buildRuns = spent.buildRuns, Stored(account') = Stored(account),
           Stored(pipelineRun') = Stored(pipelineRun), run' \in {run, Idle}
    PROVE  BuildInv'
  <1>1. Orderly(buildRun, spent.buildRuns)'
    BY DEF BuildInv
  <1>2. CountInv'
    BY DEF BuildInv, CountInv, HasItsBuild
  <1>3. ChildrenInv'
    BY NewTypes DEF BuildInv, ChildrenInv
  <1>4. RunInv'
    BY NewTypes DEF BuildInv, RunInv, Working, Deletion, HasItsBuild
  <1>. QED BY <1>1, <1>2, <1>3, <1>4 DEF BuildInv

\* What is known of a BuildRun the cache shows alive: no other one is to be seen, and
\* its build, if made, is there.
LEMMA LiveRead ==
    ASSUME TypeOK, BuildInv, Live(Cached(buildRun))
    PROVE  /\ Bound(Stored(buildRun))
           /\ Stored(buildRun).uid = Cached(buildRun).uid
           /\ OnlyOf(buildRun, Cached(buildRun).uid)
           /\ HasItsBuild(Cached(buildRun).uid)
  <1>. USE Ends, FieldTypes
  <1>1. Cached(buildRun) \in BuildRunVersions /\ Live(buildRun[1])
    BY ReadsType DEF Live, Bound
  <1>2. Bound(Stored(buildRun)) /\ Stored(buildRun).uid = Cached(buildRun).uid
    BY <1>1 DEF BuildInv, Orderly
  <1>3. ASSUME NEW i \in 1 .. Len(buildRun), buildRun[i] # Absent
        PROVE  buildRun[i].uid = Cached(buildRun).uid
    <2>1. Precedes(buildRun[1], buildRun[i]) /\ Precedes(buildRun[i], buildRun[Len(buildRun)])
      BY <1>1, <1>2, <1>3 DEF BuildInv, Orderly, Bound
    <2>. QED BY <1>1, <1>2, <1>3, <2>1 DEF Precedes
  <1>4. ~AllDeleting(buildRun, Cached(buildRun).uid)
    BY <1>1 DEF AllDeleting, Live, Bound
  <1>. QED BY <1>1, <1>2, <1>3, <1>4 DEF OnlyOf, BuildInv, CountInv

\* A reconcile that starts, or that goes on after it labelled the BuildRun, knows the
\* server well enough.
LEMMA StepRead == TypeOK /\ BuildInv /\ (ReadBuildRun \/ GetLabelled) => BuildInv'
  <1>. SUFFICES ASSUME TypeOK, BuildInv, ReadBuildRun \/ GetLabelled PROVE BuildInv'
    OBVIOUS
  <1>. USE Ends, FieldTypes, ReadsType
  <1>1. buildRun' = buildRun /\ account' = account /\ pipelineRun' = pipelineRun
        /\ builds' = builds /\ spent' = spent
    BY DEF ReadBuildRun, GetLabelled, objects
  <1>2. Orderly(buildRun, spent.buildRuns)' /\ CountInv'
    BY <1>1 DEF BuildInv, CountInv, HasItsBuild
  <1>3. CASE GetLabelled /\ Cached(buildRun) = Absent
    BY <1>1, <1>3, NothingMoves DEF GetLabelled, Retry
  <1>4. CASE GetLabelled /\ Cached(buildRun) # Absent
    <2>1. run' = [step |-> "secret", local |-> Cached(buildRun)] /\ run.step = "get"
      BY <1>4 DEF GetLabelled
    <2>2. Bound(Stored(buildRun)) /\ OnlyOf(buildRun, Stored(buildRun).uid)
          /\ HasItsBuild(Stored(buildRun).uid)
      BY <2>1 DEF BuildInv, RunInv
    <2>3. Cached(buildRun).uid = Stored(buildRun).uid
      BY <1>4, <2>2 DEF OnlyOf
    <2>4. Stored(pipelineRun) # Absent => Stored(pipelineRun).owner = Cached(buildRun).uid
      BY <1>4 DEF BuildInv, ChildrenInv, OnlyOf
    <2>5. ChildrenInv'
      BY <1>1, <2>1, <2>4 DEF BuildInv, ChildrenInv
    <2>6. RunInv'
      BY <1>1, <2>1, <2>2, <2>3 DEF RunInv, Working, Deletion, HasItsBuild
    <2>. QED BY <1>2, <2>5, <2>6 DEF BuildInv
  <1>5. CASE ReadBuildRun
    <2>. DEFINE b == Cached(buildRun)
    <2>1. b # Absent /\ b.managed /\ run'.local = b
          /\ run'.step = IF b.deleting THEN "deletePipelineRun" ELSE "secret"
      BY <1>5 DEF ReadBuildRun
    <2>2. Stored(pipelineRun) # Absent => Stored(pipelineRun).owner = b.uid
      BY <2>1 DEF BuildInv, ChildrenInv, OnlyOf
    <2>3. ChildrenInv'
      BY <1>1, <2>1, <2>2 DEF BuildInv, ChildrenInv
    <2>4. CASE b.deleting
      <3>1. ASSUME NEW i \in 1 .. Len(buildRun), buildRun[i] # Absent, buildRun[i].uid = b.uid
            PROVE  buildRun[i].deleting
        <4>1. Precedes(buildRun[1], buildRun[i])
          BY <2>1, <3>1 DEF BuildInv, Orderly
        <4>. QED BY <2>4, <3>1, <4>1 DEF Precedes
      <3>2. AllDeleting(buildRun, b.uid) /\ b.uid <= spent.buildRuns
        BY <2>1, <3>1 DEF AllDeleting, BuildInv, Orderly
      <3>3. RunInv'
        BY <1>1, <2>1, <2>4, <3>2 DEF RunInv, Working, Deletion
      <3>. QED BY <1>2, <2>3, <3>3 DEF BuildInv
    <2>5. CASE ~b.deleting
      <3>1. Live(b)
        BY <2>1, <2>5 DEF Live, Bound
      <3>2. Bound(Stored(buildRun)) /\ OnlyOf(buildRun, b.uid) /\ HasItsBuild(b.uid)
        BY <3>1, LiveRead
      <3>3. RunInv'
        BY <1>1, <2>1, <2>5, <3>2 DEF RunInv, Working, Deletion, HasItsBuild
      <3>. QED BY <1>2, <2>3, <3>3 DEF BuildInv
    <2>. QED BY <2>4, <2>5
  <1>. QED BY <1>3, <1>4, <1>5

\* The steps that make the ServiceAccount and the PipelineRun.
LEMMA StepEnsure ==
    TypeOK /\ BuildInv
        /\ (CheckSecret \/ EnsureAccount \/ CreatePipelineRun \/ KeepPipelineRun) => BuildInv'
  <1>. SUFFICES ASSUME TypeOK, BuildInv,
                       CheckSecret \/ EnsureAccount \/ CreatePipelineRun \/ KeepPipelineRun
                PROVE  BuildInv'
    OBVIOUS
  <1>. USE Ends, FieldTypes, ReadsType
  <1>0. /\ buildRun' = buildRun /\ spent' = spent /\ run.step \in Working
        /\ run \in [step : Steps, local : BuildRunVersions]
    BY DEF CheckSecret, EnsureAccount, CreatePipelineRun, KeepPipelineRun, objects, Working,
           TypeOK, Runs
  <1>1. /\ Bound(Stored(buildRun)) /\ OnlyOf(buildRun, run.local.uid)
        /\ HasItsBuild(run.local.uid) /\ Stored(buildRun).uid = run.local.uid
    BY <1>0 DEF BuildInv, RunInv, OnlyOf, Bound
  <1>2. CASE CheckSecret \/ KeepPipelineRun
    <2>1. /\ account' = account /\ pipelineRun' = pipelineRun /\ builds' = builds
          /\ run'.step \in {"missing", "account", "report"} /\ run'.local = run.local
      BY <1>0, <1>2 DEF CheckSecret, KeepPipelineRun, GoOn, objects
    <2>2. Orderly(buildRun, spent.buildRuns)' /\ CountInv'
      BY <1>0, <2>1 DEF BuildInv, CountInv, HasItsBuild
    <2>3. ChildrenInv'
      BY <1>0, <2>1 DEF BuildInv, ChildrenInv, Working
    <2>4. RunInv'
      BY <1>0, <1>1, <2>1 DEF RunInv, Working, Deletion, HasItsBuild
    <2>. QED BY <2>2, <2>3, <2>4 DEF BuildInv
  <1>3. CASE EnsureAccount /\ Cached(account) # Stored(account)
    BY <1>0, <1>3, NothingMoves DEF EnsureAccount, Retry
  <1>4. CASE EnsureAccount /\ Cached(account) = Stored(account)
    <2>. DEFINE a == [owner |-> run.local.uid]
    <2>1. a \in AccountVersions
      BY DEF AccountVersions
    <2>2. /\ Stored(account') = a /\ a # Absent /\ a.owner = run.local.uid
          /\ pipelineRun' = pipelineRun /\ builds' = builds
          /\ run'.step = "pipelineRun" /\ run'.local = run.local
      BY <1>0, <1>4, <2>1, PutHistory DEF EnsureAccount, GoOn, TypeOK
    <2>3. Orderly(buildRun, spent.buildRuns)' /\ CountInv'
      BY <1>0, <2>2 DEF BuildInv, CountInv, HasItsBuild
    <2>4. ChildrenInv'
      BY <1>0, <1>1, <2>2 DEF BuildInv, ChildrenInv, Working
    <2>5. RunInv'
      BY <1>0, <1>1, <2>2 DEF RunInv, Working, Deletion, HasItsBuild
    <2>. QED BY <2>3, <2>4, <2>5 DEF BuildInv
  <1>5. CASE CreatePipelineRun /\ Stored(pipelineRun) # Absent
    <2>1. /\ account' = account /\ pipelineRun' = pipelineRun /\ builds' = builds
          /\ run'.step = "report" /\ run'.local = run.local
      BY <1>0, <1>5 DEF CreatePipelineRun, GoOn
    <2>2. Orderly(buildRun, spent.buildRuns)' /\ CountInv'
      BY <1>0, <2>1 DEF BuildInv, CountInv, HasItsBuild
    <2>3. ChildrenInv'
      BY <1>0, <2>1 DEF BuildInv, ChildrenInv, Working
    <2>4. RunInv'
      BY <1>0, <1>1, <2>1 DEF RunInv, Working, Deletion, HasItsBuild
    <2>. QED BY <2>2, <2>3, <2>4 DEF BuildInv
  <1>6. CASE CreatePipelineRun /\ Stored(pipelineRun) = Absent
    <2>. DEFINE u == run.local.uid
    <2>1. NewPipelineRun \in PipelineRunVersions /\ NewPipelineRun.owner = u
      BY DEF NewPipelineRun, PipelineRunVersions, Results
    <2>2. Stored(pipelineRun') = NewPipelineRun /\ NewPipelineRun # Absent
      BY <1>6, <2>1, PutHistory DEF CreatePipelineRun, TypeOK
    <2>3. /\ account' = account /\ builds' = [builds EXCEPT ![u] = @ + 1]
          /\ run'.step = "report" /\ run'.local = run.local /\ run.step = "pipelineRun"
      BY <1>0, <1>6 DEF CreatePipelineRun, GoOn
    <2>4. u \in Uids /\ builds[u] = 0 /\ u <= spent.buildRuns
      <3>1. builds[u] <= 1 /\ builds[u] # 1 /\ builds[u] \in Nat
        BY <1>1, <1>6 DEF BuildInv, CountInv, HasItsBuild
      <3>2. u <= spent.buildRuns
        BY <1>1 DEF BuildInv, Orderly, Bound
      <3>. QED BY <3>1, <3>2
    <2>5. builds'[u] = 1 /\ \A uid \in Uids : uid # u => builds'[uid] = builds[uid]
      BY <2>3, <2>4
    <2>6. \A uid \in Uids : HasItsBuild(uid)' \/ AllDeleting(buildRun, uid)'
      <3>1. ASSUME NEW uid \in Uids, uid = u PROVE HasItsBuild(uid)'
        BY <2>1, <2>2, <3>1 DEF HasItsBuild
      <3>2. ASSUME NEW uid \in Uids, uid # u
            PROVE  HasItsBuild(uid)' \/ AllDeleting(buildRun, uid)'
        <4>1. CASE HasItsBuild(uid)
          BY <1>6, <2>5, <3>2, <4>1 DEF HasItsBuild
        <4>2. CASE AllDeleting(buildRun, uid)
          BY <1>0, <4>2
        <4>. QED BY <4>1, <4>2 DEF BuildInv, CountInv
      <3>. QED BY <3>1, <3>2
    <2>7. CountInv'
      BY <1>0, <2>4, <2>5, <2>6 DEF BuildInv, CountInv
    <2>8. Stored(account) # Absent /\ Orderly(buildRun, spent.buildRuns)'
      BY <1>0, <2>3 DEF BuildInv, RunInv
    <2>9. ChildrenInv'
      BY <1>0, <1>1, <2>1, <2>2, <2>3, <2>5, <2>8 DEF BuildInv, ChildrenInv
    <2>10. RunInv'
      BY <1>0, <1>1, <2>1, <2>2, <2>3 DEF RunInv, Working, Deletion, HasItsBuild
    <2>. QED BY <2>7, <2>8, <2>9, <2>10 DEF BuildInv
  <1>. QED BY <1>2, <1>3, <1>4, <1>5, <1>6

\* A write that goes on with the stored BuildRun keeps the invariant, but for what a
\* reconcile that begins a new step has yet to show.
LEMMA EditStep ==
    ASSUME TypeOK, BuildInv, NEW b \in BuildRunVersions,
           Stored(buildRun) # Absent, b.uid = Stored(buildRun).uid,
           Stored(buildRun).managed => b.managed,
           Stored(buildRun).deleting => b.deleting,
           buildRun' = Put(buildRun, b), account' = account, pipelineRun' = pipelineRun,
           builds' = builds, spent' = spent, run' = run \/ run'.step \in {"idle", "get"}
    PROVE  /\ Orderly(buildRun, spent.buildRuns)' /\ CountInv' /\ ChildrenInv'
           /\ run' = run \/ run'.step = "idle" => BuildInv'
  <1>. USE Ends, FieldTypes, ReadsType
  <1>1. /\ Orderly(buildRun', spent.buildRuns)
        /\ Stored(buildRun') = b
        /\ Bound(Stored(buildRun)) => Bound(b)
        /\ \A uid \in Uids :
              /\ OnlyOf(buildRun, uid) => OnlyOf(buildRun', uid)
              /\ AllDeleting(buildRun, uid) => AllDeleting(buildRun', uid)
    BY EditKeeps DEF BuildInv
  <1>2. CountInv'
    BY <1>1 DEF BuildInv, CountInv, HasItsBuild
  <1>3. ChildrenInv'
    BY <1>1 DEF BuildInv, ChildrenInv
  <1>4. CASE run' = run
    <2>1. RunInv'
      BY <1>1, <1>4 DEF BuildInv, RunInv, HasItsBuild
    <2>. QED BY <1>1, <1>2, <1>3, <1>4, <2>1 DEF BuildInv
  <1>5. CASE run' # run /\ run'.step = "idle"
    <2>1. RunInv'
      BY <1>5 DEF RunInv, Working, Deletion
    <2>. QED BY <1>1, <1>2, <1>3, <2>1 DEF BuildInv
  <1>6. CASE run' # run /\ run'.step = "get"
    BY <1>1, <1>2, <1>3, <1>6
  <1>. QED BY <1>4, <1>5, <1>6

\* The labels: the copy they are put on is current, so that no other BuildRun is seen.
LEMMA StepLabel == TypeOK /\ BuildInv /\ LabelBuildRun => BuildInv'
  <1>. SUFFICES ASSUME TypeOK, BuildInv, LabelBuildRun PROVE BuildInv'
    OBVIOUS
  <1>. USE Ends, FieldTypes, ReadsType
  <1>. DEFINE v == Stored(buildRun)
              b == [Stored(buildRun) EXCEPT !.managed = TRUE]
  <1>1. /\ v # Absent /\ v \in BuildRunVersions /\ Cached(buildRun) = v /\ ~v.deleting
        /\ buildRun' = Put(buildRun, b) /\ run'.step = "get"
        /\ account' = account /\ pipelineRun' = pipelineRun
        /\ builds' = builds /\ spent' = spent
    BY DEF LabelBuildRun, NeedsMetadata, Idle
  <1>2. b \in BuildRunVersions /\ b.uid = v.uid /\ b.managed /\ b.deleting = v.deleting
    BY <1>1, EditedTypes DEF BuildRunVersions
  <1>. HIDE DEF b
  <1>3. Orderly(buildRun, spent.buildRuns)' /\ CountInv' /\ ChildrenInv'
    BY <1>1, <1>2, EditStep
  <1>4. ASSUME NEW i \in 1 .. Len(buildRun), buildRun[i] # Absent
        PROVE  buildRun[i].uid = v.uid
    <2>1. Precedes(buildRun[1], buildRun[i]) /\ Precedes(buildRun[i], buildRun[Len(buildRun)])
      BY <1>1, <1>4 DEF BuildInv, Orderly
    <2>. QED BY <1>1, <1>4, <2>1 DEF Precedes
  <1>5. OnlyOf(buildRun, v.uid) /\ ~AllDeleting(buildRun, v.uid)
    BY <1>1, <1>4 DEF OnlyOf, AllDeleting
  <1>6. HasItsBuild(v.uid)
    BY <1>1, <1>5 DEF BuildInv, CountInv
  <1>7. Stored(buildRun') = b /\ OnlyOf(buildRun', b.uid)
    BY <1>1, <1>2, <1>5, EditKeeps DEF BuildInv
  <1>8. RunInv'
    BY <1>1, <1>2, <1>6, <1>7 DEF RunInv, Working, Deletion, HasItsBuild, Bound
  <1>. QED BY <1>3, <1>8 DEF BuildInv

\* A patch of the status.
LEMMA StepPatched ==
    ASSUME TypeOK, BuildInv, NEW reason \in Reasons, Patched(reason),
           account' = account, pipelineRun' = pipelineRun, builds' = builds, spent' = spent
    PROVE  BuildInv'
  <1>1. CASE Stored(buildRun) = Absent
    BY <1>1, NothingMoves DEF Patched
  <1>2. CASE Stored(buildRun) # Absent
    <2>. DEFINE r == Merged(run.local.reason, reason, Stored(buildRun).reason)
                b == [Stored(buildRun) EXCEPT !.reason = r]
    <2>1. Stored(buildRun) \in BuildRunVersions /\ r \in Reasons
      BY <1>2, ReadsType, FieldTypes DEF Merged
    <2>2. /\ b \in BuildRunVersions /\ b.uid = Stored(buildRun).uid
          /\ b.managed = Stored(buildRun).managed /\ b.deleting = Stored(buildRun).deleting
      BY <2>1, EditedTypes DEF BuildRunVersions
    <2>3. buildRun' = Put(buildRun, b) /\ run'.step = "idle"
      BY <1>2, NewTypes DEF Patched
    <2>. QED BY <1>2, <2>2, <2>3, EditStep
  <1>. QED BY <1>1, <1>2

\* A BuildRun ends when nothing made for it is left, and none is seen alive any more.
LEMMA StepEnd ==
    ASSUME TypeOK, BuildInv, buildRun' = Put(buildRun, Absent),
           \A i \in 1 .. Len(buildRun) : ~Live(buildRun[i]),
           Stored(pipelineRun) = Absent, Stored(account) = Absent,
           run' \in {run, Idle}, run' = Idle \/ ~Bound(Stored(buildRun)),
           account' = account, pipelineRun' = pipelineRun, builds' = builds, spent' = spent
    PROVE  BuildInv'
  <1>. USE Ends, FieldTypes, ReadsType
  <1>1. Orderly(buildRun, spent.buildRuns)'
    BY WriteOrderly DEF BuildInv
  <1>2. \A uid \in Uids : AllDeleting(buildRun, uid) => AllDeleting(buildRun', uid)
    BY WriteVersions DEF AllDeleting
  <1>3. CountInv'
    BY <1>2 DEF BuildInv, CountInv, HasItsBuild
  <1>4. ChildrenInv'
    BY DEF ChildrenInv
  <1>5. RunInv'
    <2>1. CASE run' = Idle
      BY <2>1, NewTypes DEF RunInv, Working, Deletion
    <2>2. CASE run' = run /\ ~Bound(Stored(buildRun))
      BY <1>2, <2>2 DEF BuildInv, RunInv, Working, Deletion
    <2>. QED BY <2>1, <2>2
  <1>. QED BY <1>1, <1>3, <1>4, <1>5 DEF BuildInv

\* reconcileDelete.
LEMMA StepReconcileDelete ==
    TypeOK /\ BuildInv /\ (DeletePipelineRun \/ DeleteAccount \/ Finalize) => BuildInv'
  <1>. SUFFICES ASSUME TypeOK, BuildInv, DeletePipelineRun \/ DeleteAccount \/ Finalize
                PROVE  BuildInv'
    OBVIOUS
  <1>. USE Ends, FieldTypes, ReadsType
  <1>0. run.step \in Deletion /\ run \in [step : Steps, local : BuildRunVersions]
        /\ spent' = spent /\ builds' = builds
    BY DEF DeletePipelineRun, DeleteAccount, Finalize, Deletion, TypeOK, Runs
  <1>1. AllDeleting(buildRun, run.local.uid) /\ run.local.uid <= spent.buildRuns
    BY <1>0 DEF BuildInv, RunInv
  <1>2. CASE DeletePipelineRun
    <2>1. /\ buildRun' = buildRun /\ account' = account
          /\ run'.step = "deleteAccount" /\ run'.local = run.local
          /\ run.step \notin {"idle", "get"}
      BY <1>0, <1>2 DEF DeletePipelineRun, GoOn
    <2>2. Stored(pipelineRun') = Absent
      BY <1>2, PutHistory DEF DeletePipelineRun, TypeOK
    <2>3. ASSUME NEW uid \in Uids PROVE HasItsBuild(uid)' \/ AllDeleting(buildRun, uid)'
      <3>1. CASE builds[uid] = 1 /\ HasItsBuild(uid)
        <4>1. uid = run.local.uid
          BY <2>1, <3>1 DEF HasItsBuild, BuildInv, ChildrenInv
        <4>. QED BY <1>1, <2>1, <4>1
      <3>2. CASE builds[uid] # 1
        BY <1>0, <3>2 DEF HasItsBuild
      <3>3. CASE AllDeleting(buildRun, uid)
        BY <2>1, <3>3
      <3>. QED BY <3>1, <3>2, <3>3 DEF BuildInv, CountInv
    <2>4. Orderly(buildRun, spent.buildRuns)' /\ CountInv'
      BY <1>0, <2>1, <2>3 DEF BuildInv, CountInv
    <2>5. ChildrenInv'
      BY <2>1, <2>2 DEF BuildInv, ChildrenInv
    <2>6. RunInv'
      BY <1>0, <1>1, <2>1, <2>2 DEF RunInv, Working, Deletion
    <2>. QED BY <2>4, <2>5, <2>6 DEF BuildInv
  <1>3. CASE DeleteAccount
    <2>1. /\ buildRun' = buildRun /\ pipelineRun' = pipelineRun
          /\ run'.step = "finalize" /\ run'.local = run.local /\ run.step = "deleteAccount"
      BY <1>0, <1>3 DEF DeleteAccount, GoOn
    <2>2. Stored(account') = Absent /\ Stored(pipelineRun) = Absent
      BY <1>3, <2>1, PutHistory DEF DeleteAccount, TypeOK, BuildInv, RunInv
    <2>3. Orderly(buildRun, spent.buildRuns)' /\ CountInv'
      BY <1>0, <2>1 DEF BuildInv, CountInv, HasItsBuild
    <2>4. ChildrenInv'
      BY <2>1, <2>2 DEF ChildrenInv
    <2>5. RunInv'
      BY <1>0, <1>1, <2>1, <2>2 DEF RunInv, Working, Deletion
    <2>. QED BY <2>3, <2>4, <2>5 DEF BuildInv
  <1>4. CASE Finalize /\ run.local # Stored(buildRun)
    BY <1>4, NothingMoves DEF Finalize, Retry
  <1>5. CASE Finalize /\ run.local = Stored(buildRun)
    <2>1. /\ buildRun' = Put(buildRun, Absent) /\ run' = Idle /\ run.step = "finalize"
          /\ account' = account /\ pipelineRun' = pipelineRun
      BY <1>5 DEF Finalize
    <2>2. Stored(pipelineRun) = Absent /\ Stored(account) = Absent
      BY <2>1 DEF BuildInv, RunInv
    <2>3. ASSUME NEW i \in 1 .. Len(buildRun) PROVE ~Live(buildRun[i])
      <3>1. Live(buildRun[i]) => buildRun[i].uid = run.local.uid /\ buildRun[i] # Absent
        BY <1>5 DEF BuildInv, Orderly, Live, Bound
      <3>. QED BY <1>1, <3>1 DEF AllDeleting, Live
    <2>4. run' \in {run, Idle} /\ (run' = Idle \/ ~Bound(Stored(buildRun)))
      BY <2>1
    <2>5. \A i \in 1 .. Len(buildRun) : ~Live(buildRun[i])
      BY <2>3
    <2>. QED BY <1>0, <2>1, <2>2, <2>4, <2>5, StepEnd
  <1>. QED BY <1>2, <1>3, <1>4, <1>5

\* A watch event of the BuildRun.
LEMMA StepDeliver == TypeOK /\ BuildInv /\ DeliverBuildRun => BuildInv'
  <1>. SUFFICES ASSUME TypeOK, BuildInv, DeliverBuildRun PROVE BuildInv'
    OBVIOUS
  <1>. USE Ends, FieldTypes
  <1>1. /\ Pending(buildRun) /\ buildRun' = Deliver(buildRun) /\ account' = account
        /\ pipelineRun' = pipelineRun /\ run' = run /\ builds' = builds /\ spent' = spent
    BY DEF DeliverBuildRun
  <1>2. /\ Orderly(buildRun', spent.buildRuns)
        /\ Stored(buildRun') = Stored(buildRun)
        /\ \A i \in 1 .. Len(buildRun') :
              i + 1 \in 1 .. Len(buildRun) /\ buildRun'[i] = buildRun[i + 1]
    BY <1>1, DeliverOrderly DEF BuildInv
  <1>3. ASSUME NEW uid, OnlyOf(buildRun, uid) PROVE OnlyOf(buildRun', uid)
    BY <1>2, <1>3 DEF OnlyOf
  <1>4. ASSUME NEW uid, AllDeleting(buildRun, uid) PROVE AllDeleting(buildRun', uid)
    BY <1>2, <1>4 DEF AllDeleting
  <1>5. CountInv'
    BY <1>1, <1>4 DEF BuildInv, CountInv, HasItsBuild
  <1>6. ChildrenInv'
    BY <1>1, <1>2, <1>3 DEF BuildInv, ChildrenInv
  <1>7. RunInv'
    BY <1>1, <1>2, <1>3, <1>4 DEF BuildInv, RunInv, HasItsBuild
  <1>. QED BY <1>1, <1>2, <1>5, <1>6, <1>7 DEF BuildInv

\* A user makes a BuildRun of the name: no build was ever made for its uid.
LEMMA StepCreate == TypeOK /\ BuildInv /\ CreateBuildRun => BuildInv'
  <1>. SUFFICES ASSUME TypeOK, BuildInv, CreateBuildRun PROVE BuildInv'
    OBVIOUS
  <1>. USE Ends, FieldTypes, ReadsType
  <1>. DEFINE n == spent.buildRuns + 1
              b == NewBuildRun(n)
  <1>1. /\ Stored(buildRun) = Absent /\ buildRun' = Put(buildRun, b) /\ run' = run
        /\ account' = account /\ pipelineRun' = pipelineRun /\ builds' = builds
        /\ spent'.buildRuns = n
    BY DEF CreateBuildRun, TypeOK
  <1>2. n \in Uids /\ b \in BuildRunVersions /\ b.uid = n /\ ~b.managed /\ ~b.deleting
    BY BoundsAssumption, NewTypes DEF CreateBuildRun, Uids, NewBuildRun
  <1>. HIDE DEF b
  <1>3. ~Bound(Stored(buildRun)) /\ \A i \in 1 .. Len(buildRun) : ~Live(buildRun[i])
    BY <1>1 DEF Bound, BuildInv, Orderly
  <1>4. \A i \in 1 .. Len(buildRun) : buildRun[i] # Absent => buildRun[i].uid < n
    BY DEF BuildInv, Orderly
  <1>5. \A i \in 1 .. Len(buildRun) : buildRun[i] # Absent => Precedes(buildRun[i], b)
    BY <1>2, <1>4 DEF Precedes
  <1>6. Orderly(Put(buildRun, b), n)
    BY <1>2, <1>3, <1>5, WriteOrderly DEF BuildInv
  <1>7. Stored(account) = Absent /\ Stored(pipelineRun) = Absent
    BY <1>3 DEF BuildInv, ChildrenInv
  <1>8. ASSUME NEW uid \in Uids, uid # n, AllDeleting(buildRun, uid)
        PROVE  AllDeleting(buildRun', uid)
    BY <1>1, <1>2, <1>8, WriteVersions DEF AllDeleting
  <1>9. CountInv'
    <2>1. builds[n] = 0
      BY <1>2 DEF BuildInv, CountInv
    <2>2. HasItsBuild(n)
      BY <2>1 DEF HasItsBuild
    <2>3. ASSUME NEW uid \in Uids
          PROVE  /\ builds[uid] <= 1
                 /\ uid > n => builds[uid] = 0
                 /\ HasItsBuild(uid) \/ AllDeleting(buildRun', uid)
      BY <1>8, <2>2 DEF BuildInv, CountInv
    <2>. QED BY <1>1, <2>3 DEF CountInv, HasItsBuild
  <1>10. ChildrenInv'
    BY <1>1, <1>7 DEF ChildrenInv
  <1>11. RunInv'
    <2>1. run.step \in Deletion =>
             run.local.uid <= n /\ AllDeleting(buildRun', run.local.uid)
      <3>1. run.step \in Deletion => run.local.uid <= spent.buildRuns /\ run.local.uid # n
        BY DEF BuildInv, RunInv
      <3>. QED BY <1>8, <3>1 DEF BuildInv, RunInv
    <2>. QED BY <1>1, <1>3, <2>1 DEF BuildInv, RunInv
  <1>. QED BY <1>1, <1>6, <1>9, <1>10, <1>11 DEF BuildInv

\* Tekton works on the PipelineRun, or somebody prunes it.
LEMMA StepTekton == TypeOK /\ BuildInv /\ (Build \/ Prune) => BuildInv'
  <1>. SUFFICES ASSUME TypeOK, BuildInv, Build \/ Prune PROVE BuildInv'
    OBVIOUS
  <1>. USE Ends, FieldTypes, ReadsType
  <1>. DEFINE p == Stored(pipelineRun)
  <1>1. /\ p \in PipelineRunVersions /\ buildRun' = buildRun /\ account' = account
        /\ run' = run /\ spent'.buildRuns = spent.buildRuns
    BY DEF Build, Prune, TypeOK
  <1>2. builds[p.owner] = 1
    BY <1>1 DEF BuildInv, ChildrenInv
  <1>3. CASE Build
    <2>1. PICK result \in NextResults(p.result) :
             pipelineRun' = Put(pipelineRun, [p EXCEPT !.result = result])
      BY <1>3 DEF Build
    <2>2. result \in Results
      BY <2>1 DEF NextResults, Results
    <2>. DEFINE q == [p EXCEPT !.result = result]
    <2>3. q \in PipelineRunVersions /\ q.owner = p.owner
      BY <1>1, <2>2, EditedTypes DEF PipelineRunVersions
    <2>. HIDE DEF q
    <2>4. /\ Stored(pipelineRun') = q /\ q # Absent
          /\ builds' = builds
      <3>1. pipelineRun' = Put(pipelineRun, q)
        BY <2>1 DEF q
      <3>2. Stored(Put(pipelineRun, q)) = q
        BY <2>3, PutHistory DEF TypeOK
      <3>. QED BY <1>3, <2>3, <3>1, <3>2 DEF Build
    <2>5. Orderly(buildRun, spent.buildRuns)' /\ CountInv'
      BY <1>1, <2>3, <2>4 DEF BuildInv, CountInv, HasItsBuild
    <2>6. ChildrenInv'
      BY <1>1, <2>3, <2>4 DEF BuildInv, ChildrenInv
    <2>7. RunInv'
      BY <1>1, <2>3, <2>4 DEF BuildInv, RunInv, HasItsBuild
    <2>. QED BY <2>5, <2>6, <2>7 DEF BuildInv
  <1>4. CASE Prune
    <2>1. builds' = [builds EXCEPT ![p.owner] = @ - 1]
      BY <1>4 DEF Prune
    <2>2. Stored(pipelineRun') = Absent
      BY <1>4, PutHistory DEF Prune, TypeOK
    <2>3. builds'[p.owner] = 0 /\ \A uid \in Uids : uid # p.owner => builds'[uid] = builds[uid]
      BY <1>1, <1>2, <2>1
    <2>4. ASSUME NEW uid \in Uids, HasItsBuild(uid) PROVE HasItsBuild(uid)'
      BY <1>1, <2>3, <2>4 DEF HasItsBuild
    <2>5. CountInv'
      <3>1. ASSUME NEW uid \in Uids
            PROVE  builds'[uid] <= 1 /\ (uid > spent.buildRuns => builds'[uid] = 0)
        BY <2>3 DEF BuildInv, CountInv
      <3>2. ASSUME NEW uid \in Uids PROVE HasItsBuild(uid)' \/ AllDeleting(buildRun, uid)
        BY <2>4 DEF BuildInv, CountInv
      <3>. QED BY <1>1, <3>1, <3>2 DEF CountInv
    <2>6. ChildrenInv'
      BY <1>1, <2>2 DEF BuildInv, ChildrenInv
    <2>7. RunInv'
      <3>1. run.step \in Working => HasItsBuild(run.local.uid)'
        <4>1. ASSUME NEW uid \in Uids, uid = run.local.uid, run.step \in Working
              PROVE  HasItsBuild(uid)'
          BY <2>4, <4>1 DEF BuildInv, RunInv
        <4>. QED BY <1>1, <4>1
      <3>2. run.step = "get" => HasItsBuild(Stored(buildRun).uid)'
        <4>1. ASSUME NEW uid \in Uids, uid = Stored(buildRun).uid, run.step = "get"
              PROVE  HasItsBuild(uid)'
          BY <2>4, <4>1 DEF BuildInv, RunInv
        <4>2. run.step = "get" => Stored(buildRun).uid \in Uids
          BY DEF BuildInv, RunInv, Bound
        <4>. QED BY <1>1, <4>1, <4>2
      <3>. QED BY <1>1, <2>2, <3>1, <3>2 DEF BuildInv, RunInv
    <2>. QED BY <1>1, <2>5, <2>6, <2>7 DEF BuildInv
  <1>. QED BY <1>3, <1>4

\* A user deletes the BuildRun: without the finalizer it ends, and nothing was made.
LEMMA StepDeleteBuildRun == TypeOK /\ BuildInv /\ DeleteBuildRun => BuildInv'
  <1>. SUFFICES ASSUME TypeOK, BuildInv, DeleteBuildRun PROVE BuildInv'
    OBVIOUS
  <1>. USE Ends, FieldTypes, ReadsType
  <1>1. /\ Stored(buildRun) \in BuildRunVersions /\ account' = account
        /\ pipelineRun' = pipelineRun /\ run' = run /\ builds' = builds /\ spent' = spent
    BY DEF DeleteBuildRun
  <1>2. CASE Stored(buildRun).managed
    <2>. DEFINE b == [Stored(buildRun) EXCEPT !.deleting = TRUE]
    <2>1. /\ b \in BuildRunVersions /\ b.uid = Stored(buildRun).uid
          /\ b.managed = Stored(buildRun).managed /\ b.deleting
      BY <1>1, EditedTypes DEF BuildRunVersions
    <2>2. buildRun' = Put(buildRun, b)
      BY <1>2 DEF DeleteBuildRun
    <2>. QED BY <1>1, <2>1, <2>2, EditStep
  <1>3. CASE ~Stored(buildRun).managed
    <2>1. buildRun' = Put(buildRun, Absent) /\ ~Bound(Stored(buildRun))
      BY <1>3 DEF DeleteBuildRun, Bound
    <2>2. Stored(account) = Absent /\ Stored(pipelineRun) = Absent
      BY <2>1 DEF BuildInv, ChildrenInv
    <2>3. \A i \in 1 .. Len(buildRun) : ~Live(buildRun[i])
      BY <2>1 DEF BuildInv, Orderly
    <2>. QED BY <1>1, <2>1, <2>2, <2>3, StepEnd
  <1>. QED BY <1>2, <1>3

\* Every step keeps the invariant.
LEMMA StepBuild == TypeOK /\ BuildInv /\ [Next]_vars => BuildInv'
  <1>. SUFFICES ASSUME TypeOK, BuildInv, [Next]_vars PROVE BuildInv'
    OBVIOUS
  <1>1. CASE SkipBuildRun \/ LabelFails \/ FindNoPipelineRun \/ Resync \/ DeliverSecret
             \/ UNCHANGED vars
    BY <1>1, NothingMoves
    DEF SkipBuildRun, LabelFails, FindNoPipelineRun, Retry, Resync, DeliverSecret, vars, objects
  <1>2. CASE PatchStatusConflict \/ Fail \/ ChangeSecret
    <2>1. spent'.buildRuns = spent.buildRuns
      BY <1>2 DEF PatchStatusConflict, Fail, ChangeSecret, TypeOK
    <2>. QED BY <1>2, <2>1, NothingMoves
             DEF PatchStatusConflict, Fail, Retry, ChangeSecret, objects
  <1>3. CASE DeliverAccount \/ DeliverPipelineRun
    <2>1. Stored(account') = Stored(account) /\ Stored(pipelineRun') = Stored(pipelineRun)
      BY <1>3, DeliverHistory DEF DeliverAccount, DeliverPipelineRun, TypeOK
    <2>. QED BY <1>3, <2>1, NothingMoves DEF DeliverAccount, DeliverPipelineRun
  <1>4. CASE ReportMissing
    <2>1. "SecretNotFound" \in Reasons
      BY DEF Reasons
    <2>. QED BY <1>4, <2>1, StepPatched DEF ReportMissing
  <1>5. CASE ReportPipelineRun
    <2>1. ReasonFor(Cached(pipelineRun).result) \in Reasons
      BY <1>5, ReadsType, FieldTypes, ReasonType DEF ReportPipelineRun
    <2>. QED BY <1>5, <2>1, StepPatched DEF ReportPipelineRun
  <1>. QED
    BY <1>1, <1>2, <1>3, <1>4, <1>5, StepRead, StepLabel, StepEnsure, StepReconcileDelete,
       StepDeliver, StepCreate, StepDeleteBuildRun, StepTekton DEF Next, Reconcile

\* In every reachable state the types hold, and so does the invariant.
LEMMA Invariant == Spec => [](TypeOK /\ BuildInv)
  BY InitType, InitBuild, StepType, StepBuild, PTL DEF Spec, Safety
---------------------------------------------------------------------------
(* What is guaranteed *)

\* BuildRun is well typed, and no count of builds falls below zero, however often builds
\* are pruned.
THEOREM TypeCorrect == Spec => []TypeOK
  BY Invariant, PTL

\* Stale caches, failed requests and restarts repeat a reconcile and never the build.
THEOREM NoBuildIsRepeated == Spec => []BuildsOnce
  <1>1. BuildInv => BuildsOnce
    BY DEF BuildInv, CountInv, BuildsOnce
  <1>. QED BY <1>1, Invariant, PTL

\* A build always has the ServiceAccount of its own BuildRun.
THEOREM BuildsHaveAccounts == Spec => []BuildHasItsAccount
  <1>1. TypeOK /\ BuildInv => BuildHasItsAccount
    <2>. SUFFICES ASSUME TypeOK, BuildInv, Stored(pipelineRun) # Absent
                  PROVE  Stored(account) # Absent
                         /\ Stored(account).owner = Stored(pipelineRun).owner
      BY DEF BuildHasItsAccount
    <2>1. Stored(account) # Absent /\ OnlyOf(buildRun, Stored(pipelineRun).owner)
      BY DEF BuildInv, ChildrenInv
    <2>2. Stored(buildRun) # Absent /\ Stored(buildRun).uid = Stored(account).owner
      BY <2>1 DEF BuildInv, ChildrenInv, Bound
    <2>. QED BY <2>1, <2>2, Ends DEF OnlyOf
  <1>. QED BY <1>1, Invariant, PTL

\* A BuildRun that carries the finalizer ends only when nothing made for it is left on
\* the server, whatever the cache shows.
THEOREM NothingIsLeft == Spec => LeavesNothing
  <1>. DEFINE Left ==
          Stored(buildRun) # Absent /\ Stored(buildRun).managed /\ Stored(buildRun') = Absent
             => Stored(pipelineRun) = Absent /\ Stored(account) = Absent
  <1>1. TypeOK /\ BuildInv /\ [Next]_vars => [Left]_vars
    <2>. SUFFICES ASSUME TypeOK, BuildInv, [Next]_vars, Stored(buildRun) # Absent,
                         Stored(buildRun).managed, Stored(buildRun') = Absent
                  PROVE  Stored(pipelineRun) = Absent /\ Stored(account) = Absent
      OBVIOUS
    <2>. USE ReadsType, FieldTypes
    <2>1. ASSUME NEW b \in BuildRunVersions, buildRun' = Put(buildRun, b) PROVE FALSE
      BY <2>1, WriteVersions
    <2>2. CASE LabelBuildRun
      BY <2>1, <2>2, EditedTypes DEF LabelBuildRun
    <2>3. CASE ReportMissing
      <3>1. Merged(run.local.reason, "SecretNotFound", Stored(buildRun).reason) \in Reasons
        BY DEF Merged, Reasons
      <3>. QED BY <2>1, <2>3, <3>1, EditedTypes DEF ReportMissing, Patched
    <2>4. CASE ReportPipelineRun
      <3>1. ReasonFor(Cached(pipelineRun).result) \in Reasons
        BY <2>4, ReasonType DEF ReportPipelineRun
      <3>2. Merged(run.local.reason, ReasonFor(Cached(pipelineRun).result),
                   Stored(buildRun).reason) \in Reasons
        BY <3>1 DEF Merged
      <3>. QED BY <2>1, <2>4, <3>2, EditedTypes DEF ReportPipelineRun, Patched
    <2>5. CASE Finalize
      BY <2>5 DEF Finalize, BuildInv, RunInv
    <2>6. CASE DeliverBuildRun
      BY <2>6, DeliverHistory DEF DeliverBuildRun, TypeOK
    <2>7. CASE DeleteBuildRun
      BY <2>1, <2>7, EditedTypes DEF DeleteBuildRun
    <2>8. CASE CreateBuildRun
      BY <2>8 DEF CreateBuildRun
    <2>9. CASE buildRun' = buildRun
      BY <2>9
    <2>10. \/ LabelBuildRun \/ ReportMissing \/ ReportPipelineRun \/ Finalize
           \/ DeliverBuildRun \/ DeleteBuildRun \/ CreateBuildRun \/ buildRun' = buildRun
      BY DEF Next, Reconcile, SkipBuildRun, ReadBuildRun, LabelFails, GetLabelled, CheckSecret,
             EnsureAccount, CreatePipelineRun, KeepPipelineRun, FindNoPipelineRun,
             DeletePipelineRun, DeleteAccount, PatchStatusConflict, Fail, DeliverAccount,
             DeliverPipelineRun, DeliverSecret, Resync, ChangeSecret, Build, Prune, vars, objects
    <2>. QED BY <2>2, <2>3, <2>4, <2>5, <2>6, <2>7, <2>8, <2>9, <2>10
  <1>. QED BY <1>1, Invariant, PTL DEF Spec, Safety, LeavesNothing
---------------------------------------------------------------------------
(* What the steps write *)

\* The BuildRun that is there goes on as b; its reason changes only to what a reconcile
\* reports, and only one that carries the finalizer begins to be deleted.
GoesOnAs(b) ==
    /\ Stored(buildRun) \in BuildRunVersions /\ spent' = spent
    /\ buildRun' = Put(buildRun, b)
    /\ b.uid = Stored(buildRun).uid
    /\ Stored(buildRun).managed => b.managed
    /\ b.deleting => Stored(buildRun).deleting \/ b.managed
    /\ \/ b.reason \in {Stored(buildRun).reason, "SecretNotFound"}
       \/ /\ Cached(pipelineRun) \in PipelineRunVersions
          /\ b.reason = ReasonFor(Cached(pipelineRun).result)

\* A BuildRun is made by users, goes on while it is there, or is ended.
LEMMA BuildRunSteps ==
    ASSUME TypeOK, [Next]_vars
    PROVE  \/ CreateBuildRun
           \/ DeliverBuildRun
           \/ buildRun' = buildRun /\ spent'.buildRuns = spent.buildRuns
           \/ buildRun' = Put(buildRun, Absent) /\ spent' = spent
           \/ \E b \in BuildRunVersions : GoesOnAs(b)
  <1>. USE ReadsType, FieldTypes
  <1>1. CASE LabelBuildRun
    <2>. DEFINE b == [Stored(buildRun) EXCEPT !.managed = TRUE]
    <2>1. Stored(buildRun) \in BuildRunVersions /\ buildRun' = Put(buildRun, b) /\ spent' = spent
      BY <1>1 DEF LabelBuildRun, NeedsMetadata
    <2>2. /\ b \in BuildRunVersions /\ b.uid = Stored(buildRun).uid /\ b.managed
          /\ b.reason = Stored(buildRun).reason
      BY <2>1 DEF BuildRunVersions
    <2>. HIDE DEF b
    <2>. QED BY <2>1, <2>2 DEF GoesOnAs
  <1>2. ASSUME NEW reason \in Reasons, Patched(reason), spent' = spent,
               \/ reason = "SecretNotFound"
               \/ /\ Cached(pipelineRun) \in PipelineRunVersions
                  /\ reason = ReasonFor(Cached(pipelineRun).result)
        PROVE  buildRun' = buildRun \/ \E b \in BuildRunVersions : GoesOnAs(b)
    <2>1. CASE Stored(buildRun) = Absent
      BY <1>2, <2>1 DEF Patched
    <2>2. CASE Stored(buildRun) # Absent
      <3>. DEFINE r == Merged(run.local.reason, reason, Stored(buildRun).reason)
                  b == [Stored(buildRun) EXCEPT !.reason = r]
      <3>1. Stored(buildRun) \in BuildRunVersions /\ buildRun' = Put(buildRun, b)
        BY <1>2, <2>2 DEF Patched
      <3>2. r \in {reason, Stored(buildRun).reason} /\ r \in Reasons
        BY <3>1 DEF Merged
      <3>. HIDE DEF r
      <3>3. /\ b \in BuildRunVersions /\ b.uid = Stored(buildRun).uid /\ b.reason = r
            /\ b.managed = Stored(buildRun).managed /\ b.deleting = Stored(buildRun).deleting
        BY <3>1, <3>2 DEF BuildRunVersions
      <3>. HIDE DEF b
      <3>. QED BY <1>2, <3>1, <3>2, <3>3 DEF GoesOnAs
    <2>. QED BY <2>1, <2>2
  <1>3. CASE ReportMissing
    <2>1. "SecretNotFound" \in Reasons
      BY DEF Reasons
    <2>. QED BY <1>2, <1>3, <2>1 DEF ReportMissing
  <1>4. CASE ReportPipelineRun
    <2>1. ReasonFor(Cached(pipelineRun).result) \in Reasons
      BY <1>4, ReasonType DEF ReportPipelineRun
    <2>. QED BY <1>2, <1>4, <2>1 DEF ReportPipelineRun
  <1>5. CASE Finalize
    BY <1>5 DEF Finalize
  <1>6. CASE DeleteBuildRun
    <2>. DEFINE b == [Stored(buildRun) EXCEPT !.deleting = TRUE]
    <2>1. Stored(buildRun) \in BuildRunVersions /\ spent' = spent
          /\ buildRun' = Put(buildRun, IF Stored(buildRun).managed THEN b ELSE Absent)
      BY <1>6 DEF DeleteBuildRun
    <2>2. /\ b \in BuildRunVersions /\ b.uid = Stored(buildRun).uid
          /\ b.managed = Stored(buildRun).managed /\ b.reason = Stored(buildRun).reason
      BY <2>1 DEF BuildRunVersions
    <2>. HIDE DEF b
    <2>. QED BY <2>1, <2>2 DEF GoesOnAs
  <1>7. CASE PatchStatusConflict \/ Fail \/ ChangeSecret \/ Prune
    BY <1>7 DEF PatchStatusConflict, Fail, ChangeSecret, Prune, TypeOK, objects
  <1>8. CASE buildRun' = buildRun /\ spent' = spent
    BY <1>8
  <1>9. \/ LabelBuildRun \/ ReportMissing \/ ReportPipelineRun \/ Finalize
        \/ DeliverBuildRun \/ DeleteBuildRun \/ CreateBuildRun
        \/ PatchStatusConflict \/ Fail \/ ChangeSecret \/ Prune
        \/ buildRun' = buildRun /\ spent' = spent
    BY DEF Next, Reconcile, SkipBuildRun, ReadBuildRun, LabelFails, GetLabelled, CheckSecret,
           EnsureAccount, CreatePipelineRun, KeepPipelineRun, FindNoPipelineRun,
           DeletePipelineRun, DeleteAccount, DeliverAccount, DeliverPipelineRun,
           DeliverSecret, Resync, Build, vars, objects
  <1>. QED BY <1>1, <1>3, <1>4, <1>5, <1>6, <1>7, <1>8, <1>9

\* The PipelineRun is made where there is none, goes through its results, or is deleted.
LEMMA PipelineRunSteps ==
    ASSUME TypeOK, [Next]_vars
    PROVE  \/ CreatePipelineRun /\ Stored(pipelineRun) = Absent
           \/ Prune
           \/ /\ builds' = builds
              /\ \/ pipelineRun' = pipelineRun \/ DeliverPipelineRun \/ Build
                 \/ DeletePipelineRun
  <1>1. CASE CreatePipelineRun
    BY <1>1 DEF CreatePipelineRun
  <1>2. CASE DeletePipelineRun
    BY <1>2 DEF DeletePipelineRun
  <1>3. CASE DeliverPipelineRun
    BY <1>3 DEF DeliverPipelineRun
  <1>4. CASE Build
    BY <1>4 DEF Build
  <1>5. CASE pipelineRun' = pipelineRun /\ builds' = builds
    BY <1>5
  <1>6. \/ CreatePipelineRun \/ DeletePipelineRun \/ DeliverPipelineRun \/ Build \/ Prune
        \/ pipelineRun' = pipelineRun /\ builds' = builds
    BY DEF Next, Reconcile, SkipBuildRun, ReadBuildRun, LabelBuildRun, LabelFails, GetLabelled,
           CheckSecret, EnsureAccount, KeepPipelineRun, ReportMissing, FindNoPipelineRun,
           ReportPipelineRun, Finalize, DeleteAccount, PatchStatusConflict, Fail,
           DeliverBuildRun, DeliverAccount, DeliverSecret, Resync, CreateBuildRun,
           DeleteBuildRun, ChangeSecret, vars, objects
  <1>. QED BY <1>1, <1>2, <1>3, <1>4, <1>5, <1>6

\* Whichever of the two it is, a step that does not deliver it writes it or leaves it alone.
LEMMA Written ==
    ASSUME TypeOK, [Next]_vars
    PROVE  /\ \/ buildRun' = buildRun \/ DeliverBuildRun
              \/ \E b \in BuildRunVersions \cup {Absent} : buildRun' = Put(buildRun, b)
           /\ \/ pipelineRun' = pipelineRun \/ DeliverPipelineRun
              \/ \E p \in PipelineRunVersions \cup {Absent} : pipelineRun' = Put(pipelineRun, p)
  <1>. USE ReadsType, FieldTypes
  <1>1. CASE CreateBuildRun
    <2>1. spent.buildRuns + 1 \in Uids
      BY <1>1, BoundsAssumption DEF CreateBuildRun, TypeOK, Uids
    <2>2. NewBuildRun(spent.buildRuns + 1) \in BuildRunVersions
      BY <2>1, NewTypes
    <2>. QED BY <1>1, <2>2 DEF CreateBuildRun
  <1>2. CASE CreatePipelineRun
    <2>1. NewPipelineRun \in PipelineRunVersions
      BY DEF NewPipelineRun, PipelineRunVersions, Results
    <2>. QED BY <1>2, <2>1 DEF CreatePipelineRun
  <1>3. CASE Build
    <2>1. PICK result \in NextResults(Stored(pipelineRun).result) :
             pipelineRun' = Put(pipelineRun, [Stored(pipelineRun) EXCEPT !.result = result])
      BY <1>3 DEF Build
    <2>2. result \in Results
      BY <2>1 DEF NextResults, Results
    <2>3. [Stored(pipelineRun) EXCEPT !.result = result] \in PipelineRunVersions
      BY <1>3, <2>2, EditedTypes DEF Build
    <2>. QED BY <1>3, <2>1, <2>3 DEF Build
  <1>4. CASE Prune
    BY <1>4 DEF Prune
  <1>5. \/ buildRun' = buildRun \/ DeliverBuildRun \/ CreateBuildRun
        \/ \E b \in BuildRunVersions \cup {Absent} : buildRun' = Put(buildRun, b)
    BY BuildRunSteps DEF GoesOnAs
  <1>6. \/ pipelineRun' = pipelineRun \/ DeliverPipelineRun \/ Build \/ Prune
        \/ CreatePipelineRun
        \/ \E p \in PipelineRunVersions \cup {Absent} : pipelineRun' = Put(pipelineRun, p)
    BY PipelineRunSteps DEF DeletePipelineRun
  <1>7. /\ CreateBuildRun => pipelineRun' = pipelineRun
        /\ CreatePipelineRun \/ Build \/ Prune => buildRun' = buildRun
    BY DEF CreateBuildRun, CreatePipelineRun, Build, Prune
  <1>. QED BY <1>1, <1>2, <1>3, <1>4, <1>5, <1>6, <1>7
---------------------------------------------------------------------------
(* At rest *)

\* Only a BuildRun that carries the finalizer can be there and be being deleted.
Held == Stored(buildRun) # Absent /\ Stored(buildRun).deleting => Stored(buildRun).managed

\* A reconcile that no event has come after goes by what the cache shows, and its
\* BuildRun carries the finalizer, or the event of that write is under way.
CopyCurrent ==
    /\ run.step = "get" =>
          Pending(buildRun) /\ Cached(buildRun) # Absent /\ ~Cached(buildRun).deleting
    /\ run.step \in Working =>
          /\ run.local = Cached(buildRun) /\ ~run.local.deleting
          /\ run.local.managed \/ Pending(buildRun)
    /\ run.step \in Deletion => run.local = Cached(buildRun)

\* A build it has made or seen is there, or the event that tells otherwise is under way.
BuildSeen == run.step = "report" /\ ~Pending(pipelineRun) => Stored(pipelineRun) # Absent

\* When it has ended, the status tells of the Secret or of the build.
Reported ==
    run.step = "idle" /\ ~Pending(buildRun) /\ ~Pending(pipelineRun)
    /\ Stored(buildRun) # Absent =>
        /\ ~Stored(buildRun).deleting /\ Stored(buildRun).managed
        /\ \/ Stored(buildRun).reason = "SecretNotFound"
           \/ /\ Stored(pipelineRun) # Absent
              /\ Stored(buildRun).reason = ReasonFor(Stored(pipelineRun).result)

\* What makes RestsTruthful inductive.
RestInv ==
    /\ Held
    /\ ~queued => CopyCurrent /\ BuildSeen /\ Reported

\* The first reconcile is still in the queue.
LEMMA InitRest == Init => RestInv
  <1>. SUFFICES ASSUME Init PROVE RestInv
    OBVIOUS
  <1>1. Stored(buildRun) = NewBuildRun(1)
    BY DEF Init, Stored, Fresh
  <1>. QED BY <1>1 DEF Init, RestInv, Held, NewBuildRun

\* A BuildRun that begins to be deleted carries the finalizer, and keeps it.
LEMMA StepHeld == TypeOK /\ Held /\ [Next]_vars => Held'
  <1>. SUFFICES ASSUME TypeOK, Held, [Next]_vars PROVE Held'
    OBVIOUS
  <1>. USE ReadsType, FieldTypes
  <1>1. CASE CreateBuildRun
    <2>. DEFINE b == NewBuildRun(spent.buildRuns + 1)
    <2>1. spent.buildRuns + 1 \in Uids
      BY <1>1, BoundsAssumption DEF CreateBuildRun, TypeOK, Uids
    <2>2. b \in BuildRunVersions /\ ~b.deleting
      BY <2>1, NewTypes DEF NewBuildRun
    <2>3. buildRun' = Put(buildRun, b)
      BY <1>1 DEF CreateBuildRun
    <2>. HIDE DEF b
    <2>. QED BY <2>2, <2>3, WriteVersions DEF Held
  <1>2. CASE DeliverBuildRun
    BY <1>2, DeliverHistory DEF DeliverBuildRun, TypeOK, Held
  <1>3. CASE buildRun' = buildRun
    BY <1>3 DEF Held
  <1>4. CASE buildRun' = Put(buildRun, Absent)
    BY <1>4, WriteVersions DEF Held
  <1>5. ASSUME NEW b \in BuildRunVersions, GoesOnAs(b) PROVE Held'
    <2>1. Stored(buildRun') = b
      BY <1>5, WriteVersions DEF GoesOnAs
    <2>. QED BY <1>5, <2>1 DEF GoesOnAs, Held
  <1>. QED BY <1>1, <1>2, <1>3, <1>4, <1>5, BuildRunSteps

\* As long as no key is queued, the cache of what is watched stands still.
LEMMA QuietSteps ==
    ASSUME TypeOK, [Next]_vars, ~queued'
    PROVE  /\ Cached(buildRun') = Cached(buildRun)
           /\ Pending(buildRun) => Pending(buildRun')
           /\ ~Pending(buildRun') => buildRun' = buildRun
           /\ Pending(pipelineRun) => Pending(pipelineRun')
           /\ ~Pending(pipelineRun') => pipelineRun' = pipelineRun
  <1>1. ~ (DeliverBuildRun \/ DeliverPipelineRun)
    BY DEF DeliverBuildRun, DeliverPipelineRun
  <1>2. /\ buildRun \in Histories(BuildRunVersions \cup {Absent})
        /\ pipelineRun \in Histories(PipelineRunVersions \cup {Absent})
    BY DEF TypeOK
  <1>3. /\ Cached(buildRun') = Cached(buildRun)
        /\ Pending(buildRun) => Pending(buildRun')
        /\ ~Pending(buildRun') => buildRun' = buildRun
    BY <1>1, <1>2, Written, WrittenOnly
  <1>4. /\ Pending(pipelineRun) => Pending(pipelineRun')
        /\ ~Pending(pipelineRun') => pipelineRun' = pipelineRun
    BY <1>1, <1>2, Written, WrittenOnly
  <1>. QED BY <1>3, <1>4

\* Where a reconcile that goes on without an error is next.
LEMMA GoesOn ==
    ASSUME TypeOK, ~queued'
    PROVE  /\ ~Retry
           /\ \A step \in Steps : GoOn(step) =>
                 run'.step = step /\ run'.local = run.local /\ ~queued
  BY DEF Retry, GoOn, TypeOK, Runs

\* A patch that no event follows has put its reason into the BuildRun the cache shows.
LEMMA QuietPatch ==
    ASSUME TypeOK, [Next]_vars, ~queued', CopyCurrent, run.step \in Working,
           NEW reason \in Reasons, Patched(reason), ~Pending(buildRun')
    PROVE  /\ buildRun' = buildRun /\ Stored(buildRun) \in BuildRunVersions
           /\ ~Stored(buildRun).deleting /\ Stored(buildRun).managed
           /\ Stored(buildRun).reason = reason
  <1>. USE ReadsType, FieldTypes
  <1>. DEFINE r == Merged(run.local.reason, reason, Stored(buildRun).reason)
              b == [Stored(buildRun) EXCEPT !.reason = r]
  <1>1. Stored(buildRun) \in BuildRunVersions /\ buildRun' = Put(buildRun, b)
    BY DEF Patched
  <1>2. b \in BuildRunVersions /\ b.reason = r
    BY <1>1 DEF Merged, BuildRunVersions
  <1>3. buildRun' = buildRun /\ b = Stored(buildRun) /\ Cached(buildRun) = Stored(buildRun)
    BY <1>1, <1>2, PutPending, CurrentCache DEF TypeOK
  <1>4. run.local = Stored(buildRun) /\ ~run.local.deleting /\ run.local.managed
    BY <1>3 DEF CopyCurrent
  <1>5. Stored(buildRun).reason = reason
    BY <1>2, <1>3, <1>4 DEF Merged
  <1>. QED BY <1>1, <1>3, <1>4, <1>5

\* A step that queues nothing keeps what a reconcile knows and has done: one case per
\* action.
LEMMA StepCalm ==
    ASSUME TypeOK, BuildInv, RestInv, [Next]_vars, ~queued'
    PROVE  CopyCurrent' /\ BuildSeen' /\ Reported'
  <1>. USE ReadsType, FieldTypes, QuietSteps
  <1>0. /\ buildRun \in Histories(BuildRunVersions \cup {Absent})
        /\ pipelineRun \in Histories(PipelineRunVersions \cup {Absent})
        /\ ~Pending(buildRun) => Cached(buildRun) = Stored(buildRun)
        /\ ~Pending(pipelineRun) => Cached(pipelineRun) = Stored(pipelineRun)
    BY CurrentCache DEF TypeOK
  <1>1. CASE SkipBuildRun
    <2>1. /\ run'.step = "idle" /\ buildRun' = buildRun
          /\ \/ Cached(buildRun) = Absent
             \/ Cached(buildRun).deleting /\ ~Cached(buildRun).managed
      BY <1>1 DEF SkipBuildRun, Starts, objects
    <2>2. Stored(buildRun) # Absent => Pending(buildRun)
      BY <1>0, <2>1 DEF RestInv, Held
    <2>. QED BY <2>1, <2>2 DEF CopyCurrent, BuildSeen, Reported, Working, Deletion
  <1>2. CASE ReadBuildRun
    <2>1. /\ run'.step = IF Cached(buildRun).deleting THEN "deletePipelineRun" ELSE "secret"
          /\ run'.local = Cached(buildRun) /\ Cached(buildRun).managed
      BY <1>2 DEF ReadBuildRun
    <2>. QED BY <2>1 DEF CopyCurrent, BuildSeen, Reported, Working, Deletion
  <1>3. CASE LabelBuildRun
    <2>. DEFINE b == [Stored(buildRun) EXCEPT !.managed = TRUE]
    <2>1. /\ Stored(buildRun) \in BuildRunVersions /\ ~Stored(buildRun).managed
          /\ Cached(buildRun) = Stored(buildRun) /\ ~Cached(buildRun).deleting
          /\ buildRun' = Put(buildRun, b) /\ run'.step = "get"
      BY <1>3 DEF LabelBuildRun, NeedsMetadata, Idle
    <2>2. b \in BuildRunVersions /\ b # Stored(buildRun)
      BY <2>1 DEF BuildRunVersions
    <2>. HIDE DEF b
    <2>3. Pending(buildRun')
      BY <1>0, <2>1, <2>2, PutPending
    <2>. QED BY <2>1, <2>3 DEF CopyCurrent, BuildSeen, Reported, Working, Deletion
  <1>4. CASE GetLabelled
    <2>1. /\ run.step = "get" /\ run'.step = "secret" /\ run'.local = Cached(buildRun)
          /\ ~queued /\ buildRun' = buildRun
      BY <1>4, GoesOn DEF GetLabelled, objects
    <2>. QED BY <2>1 DEF RestInv, CopyCurrent, BuildSeen, Reported, Working, Deletion
  <1>5. CASE CheckSecret \/ EnsureAccount \/ CreatePipelineRun \/ KeepPipelineRun
    <2>1. /\ run.step \in Working /\ run'.step \in Working /\ run'.local = run.local
          /\ run'.step = "report" => CreatePipelineRun \/ KeepPipelineRun
          /\ ~queued /\ buildRun' = buildRun
      <3>1. CASE CheckSecret
        BY <3>1, GoesOn DEF CheckSecret, objects, Working, Steps
      <3>2. CASE EnsureAccount
        BY <3>2, GoesOn DEF EnsureAccount, Working, Steps
      <3>3. CASE CreatePipelineRun \/ KeepPipelineRun
        BY <3>3, GoesOn DEF CreatePipelineRun, KeepPipelineRun, objects, Working, Steps
      <3>. QED BY <1>5, <3>1, <3>2, <3>3
    <2>2. CopyCurrent'
      BY <2>1 DEF RestInv, CopyCurrent, Working, Deletion
    <2>3. ASSUME run'.step = "report", ~Pending(pipelineRun')
          PROVE  Stored(pipelineRun') # Absent
      <3>1. CASE KeepPipelineRun
        BY <1>0, <2>3, <3>1 DEF KeepPipelineRun
      <3>2. CASE CreatePipelineRun
        <4>1. NewPipelineRun \in PipelineRunVersions
          BY DEF NewPipelineRun, PipelineRunVersions, Results
        <4>2. Stored(pipelineRun) = Absent => pipelineRun' = Put(pipelineRun, NewPipelineRun)
          BY <3>2 DEF CreatePipelineRun
        <4>. QED BY <1>0, <2>3, <4>1, <4>2, PutHistory
      <3>. QED BY <2>1, <2>3, <3>1, <3>2
    <2>. QED BY <2>1, <2>2, <2>3 DEF BuildSeen, Reported, Working
  <1>6. CASE ReportMissing \/ ReportPipelineRun
    <2>1. /\ run'.step = "idle" /\ run.step \in Working
          /\ pipelineRun' = pipelineRun
      BY <1>6, NewTypes DEF ReportMissing, ReportPipelineRun, Patched, Working
    <2>2. PICK reason \in Reasons :
             /\ Patched(reason)
             /\ \/ reason = "SecretNotFound"
                \/ /\ Cached(pipelineRun) # Absent
                   /\ reason = ReasonFor(Cached(pipelineRun).result)
      <3>1. CASE ReportMissing
        BY <3>1 DEF ReportMissing, Reasons
      <3>2. CASE ReportPipelineRun
        BY <3>2, ReasonType DEF ReportPipelineRun
      <3>. QED BY <1>6, <3>1, <3>2
    <2>3. Stored(buildRun') # Absent /\ ~Pending(buildRun') => ~queued
      BY <2>2 DEF Patched
    <2>4. Reported'
      <3>. SUFFICES ASSUME ~Pending(buildRun'), ~Pending(pipelineRun'),
                           Stored(buildRun') # Absent
                    PROVE  Reported'
        BY DEF Reported
      <3>1. CopyCurrent
        BY <2>3 DEF RestInv
      <3>2. /\ buildRun' = buildRun
            /\ ~Stored(buildRun).deleting /\ Stored(buildRun).managed
            /\ Stored(buildRun).reason = reason
        BY <2>1, <2>2, <3>1, QuietPatch
      <3>. QED BY <1>0, <2>1, <2>2, <3>2 DEF Reported
    <2>. QED BY <2>1, <2>4 DEF CopyCurrent, BuildSeen, Working, Deletion
  <1>7. CASE PatchStatusConflict
    <2>1. /\ run'.step = "idle" /\ buildRun' = buildRun /\ ~queued
          /\ run.step \in Working /\ Stored(buildRun) # run.local
      BY <1>7, NewTypes DEF PatchStatusConflict, Working, objects
    <2>2. Pending(buildRun)
      BY <1>0, <2>1 DEF RestInv, CopyCurrent
    <2>. QED BY <2>1, <2>2 DEF CopyCurrent, BuildSeen, Reported, Working, Deletion
  <1>8. CASE DeletePipelineRun \/ DeleteAccount
    <2>1. /\ run.step \in Deletion /\ run'.step \in Deletion /\ run'.local = run.local
          /\ ~queued /\ buildRun' = buildRun
      BY <1>8, GoesOn DEF DeletePipelineRun, DeleteAccount, Deletion, Steps
    <2>. QED BY <2>1 DEF RestInv, CopyCurrent, BuildSeen, Reported, Working, Deletion
  <1>9. CASE Finalize
    <2>1. run'.step = "idle" /\ Stored(buildRun') = Absent
      BY <1>9, GoesOn, NewTypes, WriteVersions DEF Finalize
    <2>. QED BY <2>1 DEF CopyCurrent, BuildSeen, Reported, Working, Deletion
  <1>10. CASE run' = run /\ queued' = queued
    BY <1>10 DEF RestInv, CopyCurrent, BuildSeen, Reported
  <1>11. ~ (FindNoPipelineRun \/ Fail \/ DeliverBuildRun \/ DeliverAccount
            \/ DeliverPipelineRun \/ Resync)
    BY GoesOn DEF FindNoPipelineRun, Fail, DeliverBuildRun, DeliverAccount,
                  DeliverPipelineRun, Resync
  <1>. QED
    BY <1>1, <1>2, <1>3, <1>4, <1>5, <1>6, <1>7, <1>8, <1>9, <1>10, <1>11
    DEF Next, Reconcile, LabelFails, DeliverSecret, CreateBuildRun, DeleteBuildRun,
        ChangeSecret, Build, Prune, vars

\* In every reachable state all of the invariant holds.
LEMMA RestInvariant == Spec => []RestInv
  <1>1. TypeOK /\ BuildInv /\ RestInv /\ [Next]_vars => RestInv'
    <2>. SUFFICES ASSUME TypeOK, BuildInv, RestInv, [Next]_vars PROVE RestInv'
      OBVIOUS
    <2>1. Held'
      BY StepHeld DEF RestInv
    <2>. QED BY <2>1, StepCalm DEF RestInv
  <1>. QED BY <1>1, InitRest, Invariant, PTL DEF Spec, Safety

\* When all has come to rest, no BuildRun is left being deleted, and one that lives has a
\* build of its own and reports its result, unless it reports a missing Secret.
THEOREM RestTellsTheTruth == Spec => []RestsTruthful
  <1>1. TypeOK /\ BuildInv /\ RestInv => RestsTruthful
    <2>. SUFFICES ASSUME TypeOK, BuildInv, RestInv, Quiescent, Stored(buildRun) # Absent
                  PROVE  /\ Reported
                         /\ Stored(pipelineRun) # Absent =>
                               Stored(pipelineRun).owner = Stored(buildRun).uid
      BY DEF RestsTruthful, Quiescent, Reported
    <2>1. Stored(pipelineRun) # Absent => OnlyOf(buildRun, Stored(pipelineRun).owner)
      BY DEF BuildInv, ChildrenInv
    <2>. QED BY <2>1, Ends DEF RestInv, Quiescent, OnlyOf
  <1>. QED BY <1>1, Invariant, RestInvariant, PTL
---------------------------------------------------------------------------
(* A reported result *)

\* The first BuildRun of the name, and no build pruned yet.
First == spent.buildRuns = 1 /\ spent.pruned = 0

\* The stored BuildRun is the latest of its name.
LatestBuildRun == Stored(buildRun) # Absent => Stored(buildRun).uid = spent.buildRuns

FinalReasons == {ReasonFor(result) : result \in Finished}

\* Before the build is made no PipelineRun can be seen, nor was a result reported.
NotYetBuilt ==
    First /\ builds[1] = 0 =>
        /\ \A i \in 1 .. Len(pipelineRun) : pipelineRun[i] = Absent
        /\ Stored(buildRun) # Absent => Stored(buildRun).reason \notin FinalReasons

\* A result that a version of the PipelineRun shows, every later version shows.
ResultIsLast ==
    First => \A i, j \in 1 .. Len(pipelineRun) :
        i <= j /\ pipelineRun[i] # Absent /\ pipelineRun[i].result \in Finished
        /\ pipelineRun[j] # Absent => pipelineRun[j].result = pipelineRun[i].result

\* Once a result is reported, no other can be seen any more.
ReportedIsSeen ==
    First /\ Stored(buildRun) # Absent /\ Stored(buildRun).reason \in FinalReasons =>
        \A i \in 1 .. Len(pipelineRun) : pipelineRun[i] # Absent =>
            ReasonFor(pipelineRun[i].result) = Stored(buildRun).reason

\* What makes ResultStays inductive.
ResultInv == LatestBuildRun /\ NotYetBuilt /\ ResultIsLast /\ ReportedIsSeen

\* A final reason is that of one result, and no other reason is.
LEMMA FinalResults ==
    /\ \A result \in Results : ReasonFor(result) \in FinalReasons => result \in Finished
    /\ \A r, s \in Results : ReasonFor(r) = ReasonFor(s) => r = s
    /\ "SecretNotFound" \notin FinalReasons /\ "none" \notin FinalReasons
    /\ ReasonFor("none") \notin FinalReasons
    /\ \A result \in Finished : NextResults(result) = {}
  BY DEF FinalReasons, Finished, Results, ReasonFor, NextResults

\* No PipelineRun was made, and no result reported, at first.
LEMMA InitResult == Init => ResultInv
  <1>. SUFFICES ASSUME Init PROVE ResultInv
    OBVIOUS
  <1>1. /\ Stored(buildRun) = NewBuildRun(1)
        /\ Len(pipelineRun) = 1 /\ pipelineRun[1] = Absent
    BY DEF Init, Stored, Fresh
  <1>2. NewBuildRun(1).uid = 1 /\ NewBuildRun(1).reason = "none"
    BY DEF NewBuildRun
  <1>. QED
    BY <1>1, <1>2, FinalResults
    DEF Init, ResultInv, LatestBuildRun, NotYetBuilt, ResultIsLast, ReportedIsSeen

\* The stored BuildRun stays the latest.
LEMMA StepLatest == TypeOK /\ LatestBuildRun /\ [Next]_vars => LatestBuildRun'
  <1>. SUFFICES ASSUME TypeOK, LatestBuildRun, [Next]_vars PROVE LatestBuildRun'
    OBVIOUS
  <1>. USE ReadsType, FieldTypes
  <1>1. CASE CreateBuildRun
    <2>. DEFINE n == spent.buildRuns + 1
                b == NewBuildRun(n)
    <2>1. n \in Uids /\ spent'.buildRuns = n
      BY <1>1, BoundsAssumption DEF CreateBuildRun, TypeOK, Uids
    <2>2. b \in BuildRunVersions /\ b.uid = n
      BY <2>1, NewTypes DEF NewBuildRun
    <2>3. buildRun' = Put(buildRun, b)
      BY <1>1 DEF CreateBuildRun
    <2>. HIDE DEF b
    <2>. QED BY <2>1, <2>2, <2>3, WriteVersions DEF LatestBuildRun
  <1>2. CASE DeliverBuildRun
    BY <1>2, DeliverHistory DEF DeliverBuildRun, TypeOK, LatestBuildRun
  <1>3. CASE buildRun' = buildRun /\ spent'.buildRuns = spent.buildRuns
    BY <1>3 DEF LatestBuildRun
  <1>4. CASE buildRun' = Put(buildRun, Absent)
    BY <1>4, WriteVersions DEF LatestBuildRun
  <1>5. ASSUME NEW b \in BuildRunVersions, GoesOnAs(b) PROVE LatestBuildRun'
    <2>1. Stored(buildRun') = b
      BY <1>5, WriteVersions DEF GoesOnAs
    <2>. QED BY <1>5, <2>1 DEF GoesOnAs, LatestBuildRun
  <1>. QED BY <1>1, <1>2, <1>3, <1>4, <1>5, BuildRunSteps

\* Until the second BuildRun comes or a build is pruned, it was so before.
LEMMA FirstBefore ==
    ASSUME TypeOK, [Next]_vars, First'
    PROVE  First /\ ~CreateBuildRun /\ ~Prune
  <1>1. /\ spent.buildRuns \in Nat \ {0} /\ spent.pruned \in Nat
        /\ spent \in [buildRuns : Uids, secrets : Nat, pruned : Nat, faults : Nat]
    BY DEF TypeOK, Uids
  <1>2. ~CreateBuildRun
    BY <1>1 DEF CreateBuildRun, First
  <1>3. ~Prune
    BY <1>1 DEF Prune, First
  <1>4. spent'.buildRuns = spent.buildRuns
    BY <1>2, BuildRunSteps DEF DeliverBuildRun, GoesOnAs
  <1>5. spent'.pruned = spent.pruned
    BY <1>1, <1>2, <1>3
    DEF Next, Reconcile, SkipBuildRun, ReadBuildRun, LabelBuildRun, LabelFails, GetLabelled,
        CheckSecret, EnsureAccount, CreatePipelineRun, KeepPipelineRun, ReportMissing,
        FindNoPipelineRun, ReportPipelineRun, Finalize, DeletePipelineRun, DeleteAccount,
        PatchStatusConflict, Fail, DeliverBuildRun, DeliverAccount, DeliverPipelineRun,
        DeliverSecret, Resync, DeleteBuildRun, ChangeSecret, Build, vars
  <1>. QED BY <1>2, <1>3, <1>4, <1>5 DEF First

\* What the first BuildRun's status may come to say: what it said, that the Secret is
\* missing, or what a version of the PipelineRun shows.
LEMMA ReasonSteps ==
    ASSUME TypeOK, [Next]_vars, ~CreateBuildRun, Stored(buildRun') # Absent
    PROVE  /\ Stored(buildRun) # Absent /\ Stored(buildRun).reason \in Reasons
           /\ \/ Stored(buildRun').reason \in {Stored(buildRun).reason, "SecretNotFound"}
              \/ /\ Cached(pipelineRun) \in PipelineRunVersions
                 /\ pipelineRun' = pipelineRun
                 /\ Stored(buildRun').reason = ReasonFor(Cached(pipelineRun).result)
  <1>. USE ReadsType, FieldTypes
  <1>1. CASE DeliverBuildRun
    BY <1>1, DeliverHistory DEF DeliverBuildRun, TypeOK
  <1>2. CASE buildRun' = buildRun
    BY <1>2
  <1>3. ~ (buildRun' = Put(buildRun, Absent))
    BY WriteVersions
  <1>4. ASSUME NEW b \in BuildRunVersions, GoesOnAs(b), buildRun' # buildRun
        PROVE  /\ Stored(buildRun) # Absent
               /\ \/ Stored(buildRun').reason \in {Stored(buildRun).reason, "SecretNotFound"}
                  \/ /\ Cached(pipelineRun) \in PipelineRunVersions
                     /\ pipelineRun' = pipelineRun
                     /\ Stored(buildRun').reason = ReasonFor(Cached(pipelineRun).result)
    <2>1. Stored(buildRun') = b
      BY <1>4, WriteVersions DEF GoesOnAs
    <2>2. pipelineRun' = pipelineRun
      BY <1>4, PipelineRunSteps
      DEF CreatePipelineRun, Prune, DeliverPipelineRun, Build, DeletePipelineRun
    <2>. QED BY <1>4, <2>1, <2>2 DEF GoesOnAs
  <1>5. buildRun' # buildRun /\ ~DeliverBuildRun => \E b \in BuildRunVersions : GoesOnAs(b)
    BY <1>3, BuildRunSteps
  <1>. QED BY <1>1, <1>2, <1>4, <1>5

\* The versions of the PipelineRun, of which the cache shows the first.
LEMMA PipelineRunEnds ==
    ASSUME TypeOK
    PROVE  /\ pipelineRun \in Histories(PipelineRunVersions \cup {Absent})
           /\ Len(pipelineRun) \in Nat /\ 1 \in 1 .. Len(pipelineRun)
           /\ Len(pipelineRun) \in 1 .. Len(pipelineRun)
           /\ Cached(pipelineRun) = pipelineRun[1]
           /\ Stored(pipelineRun) = pipelineRun[Len(pipelineRun)]
           /\ \A i \in 1 .. Len(pipelineRun) :
                 pipelineRun[i] \in PipelineRunVersions \cup {Absent}
  BY DEF TypeOK, Histories, Cached, Stored

\* The build of the first BuildRun is made when there was none.
LEMMA CreatesFirst ==
    ASSUME TypeOK, BuildInv, ResultInv, First, CreatePipelineRun, Stored(pipelineRun) = Absent
    PROVE  /\ builds[1] = 0 /\ builds'[1] # 0
           /\ NewPipelineRun \in PipelineRunVersions /\ NewPipelineRun.result = "none"
           /\ pipelineRun' = Put(pipelineRun, NewPipelineRun) /\ buildRun' = buildRun
  <1>. USE Ends, ReadsType, FieldTypes
  <1>1. /\ NewPipelineRun \in PipelineRunVersions /\ NewPipelineRun.result = "none"
        /\ pipelineRun' = Put(pipelineRun, NewPipelineRun) /\ buildRun' = buildRun
        /\ builds' = [builds EXCEPT ![run.local.uid] = @ + 1]
        /\ run.step \in Working
    BY DEF CreatePipelineRun, NewPipelineRun, PipelineRunVersions, Results, Working
  <1>2. /\ Bound(Stored(buildRun)) /\ OnlyOf(buildRun, run.local.uid)
        /\ HasItsBuild(run.local.uid)
    BY <1>1 DEF BuildInv, RunInv
  <1>3. run.local.uid = 1 /\ 1 \in Uids
    BY <1>2 DEF Bound, OnlyOf, ResultInv, LatestBuildRun, First
  <1>4. builds[1] \in Nat /\ builds[1] <= 1 /\ builds[1] # 1
    BY <1>2, <1>3 DEF HasItsBuild, BuildInv, CountInv
  <1>5. builds[1] = 0
    BY <1>4
  <1>. QED BY <1>1, <1>3, <1>5

\* The result of the first BuildRun's build is shown by all versions after it, and it is
\* what was reported: one case per way to write the PipelineRun.
LEMMA StepResult ==
    TypeOK /\ BuildInv /\ ResultInv /\ [Next]_vars
        => NotYetBuilt' /\ ResultIsLast' /\ ReportedIsSeen'
  <1>. SUFFICES ASSUME TypeOK, BuildInv, ResultInv, [Next]_vars, First'
                PROVE  NotYetBuilt' /\ ResultIsLast' /\ ReportedIsSeen'
    BY DEF NotYetBuilt, ResultIsLast, ReportedIsSeen
  <1>. USE FieldTypes, PipelineRunEnds
  <1>0. First /\ ~CreateBuildRun /\ ~Prune /\ NotYetBuilt /\ ResultIsLast /\ ReportedIsSeen
    BY FirstBefore DEF ResultInv
  <1>1. CASE pipelineRun' = pipelineRun /\ builds' = builds
    <2>1. ResultIsLast'
      BY <1>0, <1>1 DEF ResultIsLast
    <2>2. NotYetBuilt'
      BY <1>0, <1>1, ReasonSteps, FinalResults DEF NotYetBuilt
    <2>3. ReportedIsSeen'
      <3>. SUFFICES ASSUME Stored(buildRun') # Absent, Stored(buildRun').reason \in FinalReasons,
                           NEW i \in 1 .. Len(pipelineRun), pipelineRun[i] # Absent
                    PROVE  ReasonFor(pipelineRun[i].result) = Stored(buildRun').reason
        BY <1>1 DEF ReportedIsSeen
      <3>1. CASE Stored(buildRun').reason \in {Stored(buildRun).reason, "SecretNotFound"}
        BY <1>0, <3>1, ReasonSteps, FinalResults DEF ReportedIsSeen
      <3>2. CASE /\ Cached(pipelineRun) \in PipelineRunVersions
                 /\ Stored(buildRun').reason = ReasonFor(Cached(pipelineRun).result)
        <4>1. pipelineRun[1].result \in Finished /\ pipelineRun[1] # Absent
          BY <3>2, FinalResults
        <4>2. pipelineRun[i].result = pipelineRun[1].result
          BY <1>0, <4>1 DEF ResultIsLast
        <4>. QED BY <3>2, <4>2
      <3>. QED BY <1>0, <3>1, <3>2, ReasonSteps
    <2>. QED BY <2>1, <2>2, <2>3
  <1>2. CASE CreatePipelineRun /\ Stored(pipelineRun) = Absent
    <2>1. /\ builds[1] = 0 /\ builds'[1] # 0
          /\ NewPipelineRun \in PipelineRunVersions /\ NewPipelineRun.result = "none"
          /\ pipelineRun' = Put(pipelineRun, NewPipelineRun) /\ buildRun' = buildRun
      BY <1>0, <1>2, CreatesFirst
    <2>2. ASSUME NEW i \in 1 .. Len(pipelineRun')
          PROVE  pipelineRun'[i] = Absent \/ pipelineRun'[i].result = "none"
      BY <1>0, <2>1, <2>2, PutVersions DEF NotYetBuilt
    <2>3. NotYetBuilt'
      BY <2>1 DEF NotYetBuilt
    <2>4. ResultIsLast'
      BY <2>2 DEF ResultIsLast, Finished
    <2>5. ReportedIsSeen'
      BY <1>0, <2>1 DEF ReportedIsSeen, NotYetBuilt
    <2>. QED BY <2>3, <2>4, <2>5
  <1>3. CASE DeliverPipelineRun
    <2>1. /\ buildRun' = buildRun /\ builds' = builds
          /\ \A i \in 1 .. Len(pipelineRun') :
                i + 1 \in 1 .. Len(pipelineRun) /\ pipelineRun'[i] = pipelineRun[i + 1]
      BY <1>3, DeliverHistory DEF DeliverPipelineRun
    <2>2. NotYetBuilt'
      BY <1>0, <2>1 DEF NotYetBuilt
    <2>3. ResultIsLast'
      <3>1. ASSUME NEW i \in 1 .. Len(pipelineRun'), NEW j \in 1 .. Len(pipelineRun'), i <= j,
                   pipelineRun'[i] # Absent, pipelineRun'[i].result \in Finished,
                   pipelineRun'[j] # Absent
            PROVE  pipelineRun'[j].result = pipelineRun'[i].result
        <4>1. i + 1 <= j + 1
          BY <3>1
        <4>. QED BY <1>0, <2>1, <3>1, <4>1 DEF ResultIsLast
      <3>. QED BY <3>1 DEF ResultIsLast
    <2>4. ReportedIsSeen'
      BY <1>0, <2>1 DEF ReportedIsSeen
    <2>. QED BY <2>2, <2>3, <2>4
  <1>4. CASE Build \/ DeletePipelineRun
    <2>1. /\ buildRun' = buildRun /\ builds' = builds
          /\ \E p \in PipelineRunVersions \cup {Absent} :
                /\ pipelineRun' = Put(pipelineRun, p)
                /\ p # Absent => /\ Stored(pipelineRun) # Absent
                                 /\ Stored(pipelineRun).result \notin Finished
      <3>1. CASE DeletePipelineRun
        BY <3>1, PipelineRunSteps DEF DeletePipelineRun
      <3>2. CASE Build
        <4>1. /\ buildRun' = buildRun /\ builds' = builds
              /\ Stored(pipelineRun) \in PipelineRunVersions
          BY <3>2 DEF Build
        <4>2. PICK result \in NextResults(Stored(pipelineRun).result) :
                 pipelineRun' = Put(pipelineRun, [Stored(pipelineRun) EXCEPT !.result = result])
          BY <3>2 DEF Build
        <4>3. result \in Results
          BY <4>2 DEF NextResults, Results
        <4>4. [Stored(pipelineRun) EXCEPT !.result = result] \in PipelineRunVersions
          BY <4>1, <4>3, EditedTypes
        <4>. QED BY <4>1, <4>2, <4>4, FinalResults
      <3>. QED BY <1>4, <3>1, <3>2
    <2>2. PICK p \in PipelineRunVersions \cup {Absent} :
                /\ pipelineRun' = Put(pipelineRun, p)
                /\ p # Absent => /\ Stored(pipelineRun) # Absent
                                 /\ Stored(pipelineRun).result \notin Finished
      BY <2>1
    <2>3. \A i \in 1 .. Len(pipelineRun') :
             \/ i \in 1 .. Len(pipelineRun) /\ pipelineRun'[i] = pipelineRun[i]
             \/ i = Len(pipelineRun') /\ pipelineRun'[i] = p
      BY <2>2, PutVersions
    <2>4. NotYetBuilt'
      BY <1>0, <2>1, <2>2, <2>3 DEF NotYetBuilt
    <2>5. ResultIsLast'
      <3>1. ASSUME NEW i \in 1 .. Len(pipelineRun'), NEW j \in 1 .. Len(pipelineRun'), i <= j,
                   pipelineRun'[i] # Absent, pipelineRun'[i].result \in Finished,
                   pipelineRun'[j] # Absent
            PROVE  pipelineRun'[j].result = pipelineRun'[i].result
        <4>1. CASE j \in 1 .. Len(pipelineRun) /\ pipelineRun'[j] = pipelineRun[j]
          <5>1. CASE i \in 1 .. Len(pipelineRun) /\ pipelineRun'[i] = pipelineRun[i]
            BY <1>0, <3>1, <4>1, <5>1 DEF ResultIsLast
          <5>2. CASE i = Len(pipelineRun')
            BY <3>1, <5>2
          <5>. QED BY <2>3, <5>1, <5>2
        <4>2. CASE j = Len(pipelineRun') /\ pipelineRun'[j] = p
          <5>1. CASE i \in 1 .. Len(pipelineRun) /\ pipelineRun'[i] = pipelineRun[i]
            <6>1. Stored(pipelineRun) # Absent => Stored(pipelineRun).result = pipelineRun[i].result
              BY <1>0, <3>1, <5>1 DEF ResultIsLast
            <6>. QED BY <2>2, <3>1, <4>2, <5>1, <6>1
          <5>2. CASE i = Len(pipelineRun')
            BY <4>2, <5>2
          <5>. QED BY <2>3, <5>1, <5>2
        <4>. QED BY <2>3, <4>1, <4>2
      <3>. QED BY <3>1 DEF ResultIsLast
    <2>6. ReportedIsSeen'
      <3>1. Stored(buildRun) # Absent /\ Stored(buildRun).reason \in FinalReasons => p = Absent
        <4>. SUFFICES ASSUME Stored(buildRun) # Absent, Stored(buildRun).reason \in FinalReasons,
                             p # Absent
                      PROVE  FALSE
          OBVIOUS
        <4>1. ReasonFor(Stored(pipelineRun).result) \in FinalReasons
              /\ Stored(pipelineRun) \in PipelineRunVersions
          BY <1>0, <2>2 DEF ReportedIsSeen
        <4>. QED BY <2>2, <4>1, FinalResults
      <3>. QED BY <1>0, <2>1, <2>3, <3>1 DEF ReportedIsSeen
    <2>. QED BY <2>4, <2>5, <2>6
  <1>. QED BY <1>0, <1>1, <1>2, <1>3, <1>4, PipelineRunSteps

\* In every reachable state all of the invariant holds.
LEMMA ResultInvariant == Spec => []ResultInv
  <1>1. TypeOK /\ BuildInv /\ ResultInv /\ [Next]_vars => ResultInv'
    BY StepLatest, StepResult DEF ResultInv
  <1>. QED BY <1>1, InitResult, Invariant, PTL DEF Spec, Safety

\* The result of a build, once reported, is not taken back: a stale cache shows no other,
\* unless the build was pruned or another BuildRun has taken the name.
THEOREM ReportedResultStays == Spec => ResultStays
  <1>. DEFINE Stays ==
          Stored(buildRun) # Absent /\ Stored(buildRun).uid = 1
          /\ Stored(buildRun).reason \in {ReasonFor(result) : result \in Finished}
          /\ spent.pruned = 0 /\ Stored(buildRun') # Absent
             => Stored(buildRun').reason \in {Stored(buildRun).reason, "SecretNotFound"}
  <1>1. TypeOK /\ ResultInv /\ [Next]_vars => [Stays]_vars
    <2>. SUFFICES ASSUME TypeOK, ResultInv, [Next]_vars, Stored(buildRun) # Absent,
                         Stored(buildRun).uid = 1, Stored(buildRun).reason \in FinalReasons,
                         spent.pruned = 0, Stored(buildRun') # Absent
                  PROVE  Stored(buildRun').reason \in {Stored(buildRun).reason, "SecretNotFound"}
      BY DEF FinalReasons
    <2>1. First /\ ~CreateBuildRun /\ ReportedIsSeen
      BY DEF ResultInv, LatestBuildRun, First, CreateBuildRun
    <2>2. Cached(pipelineRun) \in PipelineRunVersions =>
             ReasonFor(Cached(pipelineRun).result) = Stored(buildRun).reason
      BY <2>1, PipelineRunEnds, FieldTypes DEF ReportedIsSeen
    <2>. QED BY <2>1, <2>2, ReasonSteps
  <1>. QED BY <1>1, Invariant, ResultInvariant, PTL DEF Spec, Safety, ResultStays
===========================================================================
