# Verification of the Kudeploy controller

TLA+ models of the controllers in `internal/controller`, TLC configurations that check them on small
instances, and TLAPS proofs of what matters most for every size of instance. `PROJECT.json` links each
definition to the lines of code it stands for. Paths below are relative to the repository.

## The system

Kudeploy is a Kubernetes operator built on controller-runtime. `cmd/main.go` starts one manager with four
reconcilers. Each has one worker and a work queue of object keys, **reads from an informer cache** and
**writes to the API server**. The cache is one for all of them (`mgr.GetClient()`); otherwise reconcilers meet only
through stored objects and watch events. With leader election a manager that loses its lease exits, and another one
starts over from what is stored.

| Part | State it keeps | Operations | What must be right |
|---|---|---|---|
| Service reconciler (`service_controller.go`) | labels and status of the Service; env Secret, runtime ServiceAccount, stable Kubernetes Service, one Kudeploy Deployment per version | label, ensure env Secret, create a version or route traffic, patch status | versions have no gaps and are never rewritten; traffic goes only to versions that were ready and have their env; the status never goes back; it comes to rest only when all is as the spec wants, also after the Service was deleted and made again |
| Deployment reconciler (`deployment_controller.go`) | labels and conditions of a Deployment; the clone of the env Secret; the Kubernetes Deployment | label, clone env, create or patch the Kubernetes Deployment, report readiness | the clone never changes; nothing runs without it; Ready is not reported without ever having been available; what was owned goes with the owner |
| BuildRun reconciler (`buildrun_controller.go`) | labels, finalizer, conditions of a BuildRun; ServiceAccount; PipelineRun | label, check Secrets, ensure account, create build, report, delete | a BuildRun is built once; a build has its account; deletion leaves nothing and ends |
| Project reconciler (`project_controller.go`) | finalizer and condition of a Project; its Namespace | add finalizer, create or check the Namespace, report, delete | no Namespace without a finalizer to remove it; a living Project keeps its Namespace; deletion ends |
| Conflict handling (`errors.go`) | none | `ignoreConflict` | a dropped conflict must not lose an update for good |
| Names (`naming.go`), env hash and names of Secrets (`env_secret.go`), metadata (`metadata.go`) | none | pure functions | different things have different names and hashes; names are valid; what the user set survives |
| Manager (`cmd/main.go`) | a lease | start the reconcilers, exit when the lease is lost | a write that lands after the lease was lost is harmless or repaired |

The parts interact by stored objects: the Service reconciler creates Deployments and the env Secret; the Deployment
reconciler clones that Secret and reports readiness in the Deployment's status, which queues the Service; the
Project reconciler makes the Namespace everything else lives in, and its deletion takes all of them down. Tekton
carries out PipelineRuns; Kubernetes runs Deployments, collects what lost its owner and empties Namespaces.

Hard behaviours, listed with their lines under `hazards` in `PROJECT.json`:

- *stale reads*: every `Get` may return an old version, and the reconciler acts on it several calls later;
- *unfenced writes*: status and child objects are merge-patched without a resourceVersion, so only fields that differ
  from the **cached** copy are sent, on top of whatever is stored;
- *swallowed answers*: AlreadyExists, conflicts of status patches and Creates refused by a terminating namespace
  count as done;
- *partial failure*: any call may fail, or the process die, between two writes; the next reconcile has only the
  stored objects to go by;
- *missing watches*: Secrets a spec refers to, Namespaces, and Secrets nobody owns queue nothing;
- *life after deletion*: an object of the same name may come while the caches still show its predecessor.

## Modules

| Module | What it is |
|---|---|
| `ApiObject` | one API object as the client sees it: the sequence of its versions from the cached one to the stored one. A write appends, a watch event drops the head, `Merged` is one field of a merge patch |
| `ServiceRollout` | the Service reconciler on a Service that lives, with its users, the Deployment controller and its watches |
| `Rollout` | the abstract specification: numbered, immutable versions; traffic only to proven ones; a status that follows |
| `ServiceRolloutRefinement` | the refinement mapping: `Rollout` read off the stored objects |
| `ServiceFailover` | `ServiceRollout` under two managers: one loses its lease in the middle of a reconcile, and its next write lands at any later time |
| `ServiceLifecycle` | a Service deleted and made again, what it owned, the garbage collector, and a namespace that ends; one spec, one version |
| `DeploymentRuntime` | the Deployment reconciler, with availability, the garbage collector and the namespace |
| `VersionEnv` | the abstract specification of a version's env: given once, from what the cache shows, taken only with the version |
| `KudeploySystem` | `ServiceRollout` and the Deployment reconciler, as `VersionEnv` has it, on one cache |
| `BuildRun` | the BuildRun reconciler, with Tekton, its pruner and the Secrets of users |
| `ProjectNamespace` | the Project reconciler, with the Namespace controller and other people's Namespaces |
| `ChildNames`, `Metadata`, `EnvSecret`, `Ports` | the pure functions: `childName` and its callers on sequences of characters, the merging of labels, the text that is hashed, the ports on both sides |
| `ChildObjects` | these functions, on every input |
| `MC*` | the instances TLC runs |
| `ApiObjectTheorems` | lemmas on histories of an object, which the proofs of all reconcilers cite |
| `ServiceRolloutProofs` | the Service reconciler: its invariants, where it rests, and the refinement of `Rollout` |
| `ServiceCompositionProofs` | what becomes of these together with the Deployment reconciler (`KudeploySystem`) and under failover (`ServiceFailover`) |
| `ServiceLifecycleProofs`, `DeploymentRuntimeProofs`, `BuildRunProofs`, `ProjectNamespaceProofs`, `ChildObjectTheorems` | the theorems of the module of that name |

How they fit together: `DeploymentRuntime` implements `VersionEnv`, and `KudeploySystem` uses `VersionEnv` for the
Deployment reconciler; `ServiceRollout` implements `Rollout`, and `KudeploySystem` and `ServiceFailover` extend
`ServiceRollout`. `ServiceLifecycle` takes the same steps with owner references added and with specs, env and version
numbers removed, because all together is more than TLC can visit. `ServiceFailover` computes a late write with the
operators of `ServiceRollout`, instantiated for what the deposed manager knew.

In the models of reconcilers an action is one step of `Reconcile`: a cached read together with the write that follows
it and the assignments in between; in `ProjectNamespace` the `Get` of the Namespace and what is done about it are two
steps, because a property asks what may come between them. Anything else (a user, another controller, a watch event)
may come between two steps. `run` is what the goroutine knows: the step it is at and its local copy of the object.
`queued` is the key in the work queue; taking it clears it, and an error or an event sets it. `Fail` is any error
return and the death of the process: the local state is lost and the key is queued (a restarted process lists
everything), before or after the write it stopped at, because steps are that small. `PatchStatusConflict` is
`ignoreConflict`: the write is lost and the key is *not* queued.

Data is reduced to what the properties tell apart. The content of a Service's spec is its generation; a Secret is its
data and its hash *is* the data; a name stands for what it names; labels and finalizers are one flag; `ChildObjects`
looks at what these stand for. Definitions marked `Mutant` in a comment are not part of the model: they are plausible
bugs, and `PROJECT.json` says which property each of them breaks.

## What the runs check

Bounds are the constants `Max...` of each module. They limit only what users, Kubernetes and faults do, never the
reconciler. `MaxLag` is the number of watch events that may be under way when somebody else acts: caches may lag by
that many versions, by more after the reconciler's own writes, and every shorter lag is explored as well.

| Run | Bounds | Shows |
|---|---|---|
| `rollout_edits` | 1 edit of the spec or of the env, so 2 versions, 1 readiness change, 1 fault, lag 2, Secret made by a user or not | `VersionsInOrder`, `TrafficOnlyToProven`; `RestsConverged`: whatever was stale, ignored or lost, the reconciler comes to rest only where spec, versions, traffic and status agree; `ImplementsRollout`; `Converges` |
| `rollout_failover` | 1 lost lease, 3 versions, 3 generations, 1 readiness change, lag 3 | `VersionsStayOrdered`, `TrafficOnlyToProven`, and `RestsRepaired`: the watch event of a late write brings the new manager back |
| `system_env` | 2 env contents, 1 edit of the env or the spec, 1 readiness change, 3 versions, 1 fault, lag 3, Secret made by a user or not | `VersionsHaveCauses`: the first spec and every edit release one version at most; `StatusNeverGoesBack`; `TrafficHasItsEnv`; `CalmEditsAreReleased`: when both reconcilers rest, the latest version runs the Secret's content and the status has its hash |
| `service_lifecycle` | 2 Services of a name, 1 change, 1 fault, lag 2 | `RestsSettled`, `DeletedServiceEnds` |
| `deployment_runtime` | 2 specs, 2 changes, 1 fault, lag 3 | `KubeHasItsClone`, `ReadyWasServed`, `RestsConverged`, `ImplementsVersionEnv`, `Converges`, through deletion of the Kubernetes Deployment, of the owner and of the namespace |
| `buildrun_lifecycle` | 2 BuildRuns of a name, 1 change of the Secret or pruned PipelineRun, 1 fault, lag 2 | `BuildsOnce`, `BuildHasItsAccount`, `LeavesNothing`, `ResultStays`, `RestsTruthful`; a deleted BuildRun ends |
| `project_lifecycle` | 2 Projects of a name, 1 foreign Namespace, 1 deletion by hand, 1 fault | `CreatesUnderFinalizer`; `SparesLiveProjects`: deletion goes by names and old copies, and still takes no Namespace from a living Project; `NamespaceGoesFirst`: a Namespace the cache shows is gone before its Project; `RestsTruthful`; a deleted Project ends |
| `child_objects` | names of up to 6 characters out of 3 with 7 for 63, values of up to 2 bytes, 2 ports | `NamesAreWellFormed`, `ChildrenHaveOneParent`, `MetadataIsMerged`, `EditsChangeTheHash`, `PortsMeet` |

Why these are enough: the second version (spec, Service, build, Project) is the one that can meet stale traces of the
first; in `system_env` a third version is what a second release of the one edit would be; one fault or ignored
conflict at any step, before or after its write, leaves every partial state there is; two edits of one object
(`rollout_failover`) let a merge patch meet both the value it read and a later one; one late write is all a manager
that has exited can have under way, having one worker per reconciler. The names are scaled with the alphabet, so that
every cut, every dash at a cut, every collision of hashes and every name that looks like a cut one occurs.
`CreateDeployment` asks for a version up to `MaxVersion`; deadlock is checked, and none is found, so the guard never
stops a reconcile in these instances.

### Where the code and what is said of it differ

Four runs expect a violation; the quotations are in `findings`.

1. `rollout_observed` – a reconcile that reads an edited spec together with a status older than the version just
   created computes that version's number again, keeps its Deployment with the old spec (`service_controller.go:254`)
   and records the new generation as observed. The edit is never rolled out.
2. `rollout_active` – with the same mixture of a new generation and an old status, the selector of the previous active
   version is written again after a promotion, while the status names the promoted one.
3. `system_hash` – the user edits the env Secret. The Service reconciler, whose cache has yet to show the edit, hashes
   what the server returns to its Patch, the new content; the Deployment reconciler copies the old content, which is
   what the cache shows. When the event of the edit comes, its hash is recorded already, and the version keeps the old
   env. (An edit between hash and copy is harmless: its event finds another hash, and a new version is made.)
4. `service_recreated` – a Service made under the name of a deleted one takes the predecessor's Deployment for its own
   or inherits its status from a late patch. The garbage collector removes the Deployment, and the version is
   not made again. The status then says `DeploymentNotFound` until the spec is edited.

Four more are kept with their configurations, to be run by hand (`tlc -config rollout_ports.cfg MCServiceRollout`, and
so on); TLC finds each of them violated:

5. `rollout_ports.cfg`, `PortsFitSelectedVersion` – `service_controller_test.go:331` speaks of traffic kept on the previous
   active version, but the ports of the new spec reach the stable Service while its selector is still on that version.
6. `project_ready.cfg`, `ReadyProjectHasNamespace` – Namespaces are not watched, so a Project whose Namespace was
   deleted stays Ready.
7. `buildrun_secret.cfg`, `ReportedSecretIsMissing` – Secrets are not watched, so a BuildRun made before its Secret
   reports it missing after it was made. (A periodic resync, every ten hours, ends both 6 and 7.)
8. `project_foreign.cfg`, `UnmanagedNamespaceIsSpared` – `project_controller_test.go:93` wants an unmanaged Namespace
   left alone. `reconcileDelete` deletes by name what it saw in the cache; when the managed Namespace goes in between,
   or went without the cache showing it, and somebody has made one of that name, theirs is deleted.

Under failover two things that hold of one manager do not: a late status patch can take the status back
(`StatusNeverGoesBack`), and a late Create can leave a version two ahead of the status; `rollout_failover` therefore
checks what remains, and that all is repaired. `RestsConverged` of the Service does not see 1, since it compares the
recorded generation; `ObservedSpecIsDeployed` is the property that does.

### Exceptions granted

Some properties name a case in which the code does not do what one would want, and hold in all others:

- `NamespaceGoesFirst` begins where every copy of the Namespace, cached or stored, is a managed one: `reconcileDelete`
  trusts the cache, and a Namespace it has yet to show is left behind. `SparesLiveProjects` is about Projects that live;
  finding 8 is what may happen to somebody else's Namespace.
- `RestsTruthful` of the Project speaks of the first Project of its name and of Namespaces not deleted by hand.
- `ResultStays` speaks of the first BuildRun and of builds not pruned: the second BuildRun may report the first one's
  result until the cache shows that build deleted, and a pruned build is made again.
- `CalmEditsAreReleased` speaks of edits that meet no work in progress and of versions whose env did not come from a
  cache behind the Secret; finding 3 is what happens otherwise. Edits of the spec disturb as well (`ChangeSpec`), because of
  finding 1: a spec edit read with an old status leaves behind a version ahead of the status, everything comes to rest,
  and an env edit made much later asks for the number of that version, finds it made with the old env and is lost. That
  takes two edits, while `system_env` has one; the theorem covers any number, and its proof is how the case was met.
- `RestsSettled` accepts a Service that says `DeploymentNotFound`; finding 4 is how one gets there.
- `ChildrenHaveOneParent` excuses parents whose hashes collide, a parent called like the cut name of another, and a
  Service called like a version of another one without its `service-`; `EditsChangeTheHash` excuses a NUL in a value.

### Fairness

Weak fairness of the reconciler's steps: there is one worker, it is always running, and every error is retried. Weak
fairness of the watch events (of any in `ServiceRollout`, where each leaves one event less, of each elsewhere): informers
re-list after a broken connection. Weak fairness of Kubernetes' own cleanup
(garbage collector, namespace controller). No fairness of users, of Tekton, of readiness or of failures, so nothing
that is said to happen depends on them; no fairness of `Resync` either, since its period is ten hours. The `Max...`
bounds on edits and faults are what "when everybody else stops" means in `Converges`.

## What is proved

Every invariant and, the liveness properties apart, every action property that a passing run checks is a theorem, with
one exception, `VersionsHaveCauses`. A theorem holds for every value of the constants that satisfies the assumptions
named in the modules:

- bounds are natural numbers, and positive where the first object needs one;
- `Absent` is none of the values an object can have, nor one of the few words that stand for a child without fields
  (`AbsentAssumption`; the words are in it because a history of `"present"` and `Absent` must be readable);
- a Service under failover may have at least one version (`TakeOverAssumption`): with none, the bound would stop every
  reconcile before its write;
- names (`NamingAssumption`, `HashAssumption`): a suffix and a hash leave room for a character and a dash, neither ends in a
  dash, and the prefixes of the two kinds of accounts begin differently. 63, 8 hexadecimal digits, `-env`, `-00001`,
  `service-` and `buildrun-` satisfy it;
- keys of a Secret have no NUL and are sorted without repetition (`SecretAssumption`); a port is not 0 (`PortAssumption`).
  Both are what the API server accepts.

| Module | Theorem | Says |
|---|---|---|
| `ServiceRolloutProofs` | `TypeCorrect` | `Safety => []TypeOK` |
| | `OnlyProvenVersionsGetTraffic` | `Safety => []TrafficOnlyToProven` |
| | `VersionsStayInOrder` | `Safety => []VersionsInOrder` |
| | `StatusOnlyMovesForward` | `Safety => StatusNeverGoesBack` |
| | `RestsAreConverged` | `Safety => []RestsConverged` |
| | `RolloutIsImplemented` | `Safety => ImplementsRollout` |
| `ServiceCompositionProofs` | `SystemIsARollout` | `SystemSafety => Safety` of `ServiceRollout` |
| | `SystemStatusOnlyMovesForward` | `SystemSafety => StatusNeverGoesBack` |
| | `TrafficGetsItsEnv` | `SystemSafety => []TrafficHasItsEnv` |
| | `CalmEditsAreRolledOut` | `SystemSafety => []CalmEditsAreReleased` |
| | `FailoverKeepsOrder` | `FailoverSafety => []VersionsStayOrdered` |
| | `FailoverTrafficIsProven` | `FailoverSafety => []TrafficOnlyToProven` |
| | `FailoverIsRepaired` | `FailoverSafety => []RestsRepaired` |
| `ServiceLifecycleProofs` | `TypeCorrect` | `Safety => []TypeOK` |
| | `RestsAreSettled` | `Safety => []RestsSettled` |
| `DeploymentRuntimeProofs` | `TypeCorrect` | `Spec => []TypeOK` |
| | `CloneIsNeverRewritten` | `Spec => CloneNeverChanges` |
| | `EnvIsGivenOnce` | `Spec => ImplementsVersionEnv` |
| | `CloneComesFirst` | `Spec => []KubeHasItsClone` |
| | `ReadyIsEarned` | `Spec => []ReadyWasServed` |
| | `RestsAreConverged` | `Spec => []RestsConverged` |
| `BuildRunProofs` | `TypeCorrect` | `Spec => []TypeOK` |
| | `NoBuildIsRepeated` | `Spec => []BuildsOnce` |
| | `BuildsHaveAccounts` | `Spec => []BuildHasItsAccount` |
| | `NothingIsLeft` | `Spec => LeavesNothing` |
| | `ReportedResultStays` | `Spec => ResultStays` |
| | `RestTellsTheTruth` | `Spec => []RestsTruthful` |
| `ProjectNamespaceProofs` | `TypeCorrect` | `Spec => []TypeOK` |
| | `NamespaceNeedsFinalizer` | `Spec => CreatesUnderFinalizer` |
| | `LiveProjectsAreSpared` | `Spec => SparesLiveProjects` |
| | `RestTellsTheTruth` | `Spec => []RestsTruthful` |
| `ChildObjectTheorems` | `NamesFit` | no child name is longer than `MaxLength` |
| | `SharedNamesAreExcused` | parents share a child name only by a collision of hashes or an impostor |
| | `NamesAreAccepted` | `Spec => []NamesAreWellFormed` |
| | `ChildrenAreTheirOwn` | `Spec => []ChildrenHaveOneParent` |
| | `MergingSettles` | merging settles and touches only its own, for all maps |
| | `LabelsSettle` | `Spec => []MetadataIsMerged` |
| | `RoutedPortsAreOpen` | `Spec => []PortsMeet` |
| | `EditsAreNoticed` | `Spec => []EditsChangeTheHash` |

The theorems of the Service are about `Safety`, which is `Spec` without its fairness; the others do not use fairness
either.

**Service.** None of these is inductive as it stands, because what a reconcile does depends on what its cache showed
it, possibly long ago. The inductive invariants therefore speak of *every version the cache may still show* and of the
local copy of the reconcile in progress: `RunInv` (what a step says about the plan and the numbers it will use),
`HonestInv` (every version of the Service, every Deployment seen ready and every selector names a proven version or
none) and `OrderInv` (along the history of the Service generation, observed generation, latest and active version only
grow, and the local copy lies between some version of the history and the stored one). From `OrderInv` a merge patch
of a stale copy is either a field the reconcile left alone, which keeps the stored value, or a field it changed, and
then the value is at least the stored one. The refinement needs the same invariants: a Deployment is only created when
it is the next version, so `ReleasedCount` grows by one.

**Where a reconciler rests.** `RestsConverged`, `RestsTruthful` and `RestsSettled` say that nothing is wrong when
nothing is left to do, and nothing about that is inductive: an error is mended by an event that may be far away. What
is inductive is that *whoever knows something old will be told*. Each of the invariants (`RestInv`) has the same
shape: for every object the reconcile reads, either the key is queued, or an event for the object is under way, or
what the reconcile has taken note of at its present step, or has left behind at its end, is what the object now is. So
a step that reads an object gets the last case, a write of anybody makes the second, and a merge patch that leaves a
field out because the cache has it already is safe only because the cache differs from the server in no other way than
by events to come. A status conflict that is ignored comes from a write whose event is under way. At rest the first
two cases are gone, and what is left is `Converged`. For the BuildRun the invariant also says whose PipelineRun the
cache may still show, for the Project that no reconcile deletes the Namespace of the first Project while that Project
lives.

**Project.** `FinalizerInv` says that uids grow along the history of the Project, that a Project being deleted never
comes back to life, and that as long as the cache can show a Project alive, the stored one is there with its
finalizer. A reconcile on its way to create the Namespace therefore has a bound Project, and one that deletes, which
began with a copy that is being deleted, knows that no Project alive is stored or will be shown: not even one made
later under the name, since that would have to get its finalizer from this very worker. `LiveProjectsAreSpared` is
that.

**BuildRun.** All four follow from one invariant, `BuildInv`. Along the history uids grow, a BuildRun being deleted
stays so, and as long as the cache can show one alive, that one is stored with its finalizer. If a build of a uid was
made and is gone, and was not pruned, every version of that uid still to be seen is being deleted, so that no
reconcile that would make the build again can start (`CountInv`). A PipelineRun is stored only with its account, only
while its BuildRun is stored, and only while no other BuildRun of the name is to be seen (`ChildrenInv`); a reconcile
past its read knows all this of the uid it read (`RunInv`). `ReportedResultStays` needs two things more (`ResultInv`):
a finished result in any version of the first BuildRun is that of its PipelineRun, which does not change any more, and
no reconcile holds a copy from which it would compute another. The types need the invariant as well: what is pruned
must have been counted, or the count would fall below zero.

**Deployment.** `CloneInv`: a reconcile about to create the Kubernetes Deployment has found or made the clone, or its
owner is gone, and what is gone stays gone (`CloneStep`). `ServedInv`: no version of the Deployment or of the
Kubernetes Deployment that any cache may still show, nor the local copy, claims to be available unless something has
been.

`EnvIsGivenOnce` needs no more than types: each step either leaves the clone alone, makes it from the cached Secret
when there is none, or collects it after its owner.

**System.** A step of `KudeploySystem` is a step of `ServiceRollout` or leaves it alone, so that `TrafficOnlyToProven`
holds of the system; and a version is proven only by a report that comes after its env, which is never taken away. The
stable Service selects proven versions, hence versions with their env.

That the status never goes back follows from the same step simulation, and so would `RestsConverged` of the Service,
which is not stated again.
`CalmEditsAreRolledOut` needs an invariant of its own, `ReleaseInv`. As long as no edit has met work in progress,
there is at most one thing that anybody who is behind can be behind by: every status the reconcile may go by names the
content the Secret has or had at the last rest, every version up to the stored one runs what the status says or is
still to be given it, and no version is ahead of the status except the one the reconcile at work has just made.
`disturbed` must be set by spec edits for the last of these.

**Failover.** `FailoverInv` carries the order and the proven versions over to the copy the deposed manager left
behind: a late write is the write of a reconcile that was correct when it was interrupted, so its version is one a
manager could have created then, and its selector names a version that was proven then and still is. It may take the
status back, so that `OrderInv` does not hold; what remains is that versions up to the status exist and that specs
grow with versions. The repair is the rest invariant again: a late write makes an event like any other.

**Service lifecycle.** `RestInv` says what holds while no key is queued: the caches stand still then, so a reconcile
under way has the cached Service as its copy and would decide again what it decided, and when it has ended its status
is right about the Deployment and the Kubernetes Service is the one the status asks for. The last two hold unless an
event of the child is under way, and the Kubernetes Service may be missing where the namespace refuses it, or when the
status says that the Deployment could not be made.

**Names, labels, ports, env.** A cut name ends in the hash of its parent and the suffix, and both have a fixed length,
so that equal names have equal hashes (`SameMiddles`). Trimming keeps a beginning of a name (`TrimmedName`), which
gives its length and its first character, by which the two kinds of accounts differ; its last is that of the suffix or
of the hash. A parent has no dash at its ends, and neither has a child (`ChildrenOfParents`), so that a child can be a
parent. That different contents have different texts (`EditsAreNoticed`) is shown by reading a text from its end: the
part after the last NUL but one is the value (`LastPart`), the part before it the key, and then the rest is the text
of one key less. What a recursive function computes is shown to exist, and to be what its equation says, by taking the
least number for which it would fail (`LeastNatural`, `CountUp`), because the induction theorems of the library take
an operator as a parameter, which no installed prover can instantiate.

Only model-checked: liveness (`Converges` of the Service and of the Deployment reconciler, `DeletedBuildRunEnds`,
`DeletedProjectEnds`, `NamespaceGoesFirst`, `DeletedServiceEnds`), because liveness under fairness and ENABLED are beyond
TLAPS; and `VersionsHaveCauses`, whose proof would need to know, of every copy of a status still about, which of the
edits it counts. It was also checked with three edits. What the
four runs that expect a violation show is a counterexample each, which needs no proof.

## Not modelled

- Service: a user who makes or deletes the env Secret while the Service runs; deletion of a Service with several
  versions, or of its env Secret or account by hand. `status.serviceAccountName`, `lastTransitionTime`, single labels.
- Deployment: re-creation under its name; users who delete the clone. An owner that is being deleted in the foreground
  counts as gone. The namespace is in the cache from the start.
- BuildRun: deletion of the account or of a running PipelineRun by others; finalizers on a PipelineRun; patches without
  effect after the API server filled in defaults. The "not found" branches of the `Get` after the finalizer's `Update` cannot be
  reached, since the finalizer keeps the object.
- Failover of the Deployment, BuildRun and Project reconcilers: `Fail` has the restart, not the late write.
- MD5 and SHA-256: parameters, or taken to be injective.
- Flags, probes, TLS, manifests, generated code: no behaviour of their own.

## Plan

1. A late write in `BuildRun` and `ProjectNamespace`, where Create and Delete are not repeatable as patches are.
2. A user who makes the env Secret after the Service, and one who deletes it, in `KudeploySystem`.
3. Proofs: what the abstract specifications `Rollout` and `VersionEnv` promise by themselves (a version never changes, its
   env neither), so that it can be read off the refinements; that the Deployment reconciler in `KudeploySystem` keeps
   `CloneComesFirst` by refinement and not by its guard.
