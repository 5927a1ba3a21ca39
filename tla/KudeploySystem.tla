-------------------------- MODULE KudeploySystem --------------------------
(***************************************************************************)
(* The Service reconciler and the Deployment reconciler at work on one     *)
(* Service, with the one cache both read through mgr.GetClient().  The     *)
(* first hashes the env Secret, records the hash and makes a version; the  *)
(* second gives the version its env: a copy of the Secret, which it reads  *)
(* when its turn comes.                                                    *)
(*                                                                         *)
(* The Deployment reconciler appears by what VersionEnv says of it, which  *)
(* DeploymentRuntime implements, and by the order its theorem              *)
(* CloneComesFirst keeps: a version is not ready before it has its env.    *)
(***************************************************************************)
EXTENDS ServiceRollout

VARIABLES
    clone,      \* clone[v]: the env of version v, or Absent
    disturbed   \* an edit of the spec or the env met work in progress, or a version
                \* got its env from a cache that had yet to show an edit

systemVars == <<vars, clone, disturbed>>

SecretData ==
    [i \in DOMAIN secret |-> IF secret[i] = Absent THEN Absent ELSE secret[i].data]

Env(v) == INSTANCE VersionEnv WITH
    source <- SecretData, clone <- clone[v], alive <- Stored(deployment[v]) # Absent

HasEnv(v) == clone[v] # Absent

SystemInit ==
    /\ Init
    /\ clone = [v \in Versions |-> Absent]
    /\ disturbed = FALSE
---------------------------------------------------------------------------
\* The Deployment reconciler, which needs to see the Deployment and the Secret.
GiveEnv(v) ==
    /\ Cached(deployment[v]) # Absent
    /\ Env(v)!Clonable
    /\ clone' = [clone EXCEPT ![v] = Env(v)!Copy]
    /\ disturbed' = (disturbed \/ Env(v)!Copy # Stored(SecretData))
    /\ UNCHANGED vars

\* What the Deployment reconciler reports, once the version has its env.
ReportReadiness(v) ==
    /\ HasEnv(v)
    /\ ChangeReadiness(v)
    /\ UNCHANGED <<clone, disturbed>>

\* Neither reconciler has anything to do.
AllAtRest == Quiescent /\ \A v \in Versions : Exists(v) => HasEnv(v)

ChangeEnv(data) ==
    /\ EditEnv(data)
    /\ disturbed' = (disturbed \/ ~AllAtRest)
    /\ UNCHANGED clone

ChangeSpec ==
    /\ EditSpec
    /\ disturbed' = (disturbed \/ ~AllAtRest)
    /\ UNCHANGED clone

ServiceSide ==
    /\ Reconcile \/ PatchStatusConflict \/ Fail \/ Watch \/ Resync
    /\ UNCHANGED <<clone, disturbed>>

SystemNext ==
    \/ ServiceSide
    \/ \E v \in Versions : GiveEnv(v) \/ ReportReadiness(v)
    \/ \E data \in EnvData : ChangeEnv(data)
    \/ ChangeSpec

SystemSafety == SystemInit /\ [][SystemNext]_systemVars
---------------------------------------------------------------------------
(***************************************************************************)
(* Properties                                                              *)
(***************************************************************************)
\* Traffic goes only to a version that has its env, whatever either reconciler read
\* too early: two controllers, a report and a merge patch lie between the copy of a
\* Secret and the selector.
TrafficHasItsEnv ==
    Stored(kubeService) # Absent /\ Stored(kubeService).selector # 0
        => HasEnv(Stored(kubeService).selector)

\* An edit of the env Secret is rolled out: when both reconcilers have come to rest the
\* latest version runs with the Secret's content and the status has its hash.  That
\* holds as long as no version got its env from a cache behind the Secret and no edit
\* met work in progress, an edit of the spec included: one that does may leave behind
\* a version ahead of the status, and the next edit of the env finds that one made.
\* Without these provisos the code does not keep it.
CalmEditsAreReleased ==
    AllAtRest /\ ~disturbed
        => LET latest == Stored(service).latest
           IN  clone[latest] = Stored(secret).data /\ clone[latest] = Stored(service).hash

\* api/v1alpha1/service_types.go:110: latestEnvSecretHash is the data hash of the
\* Service env Secret used for the latest Deployment.
HashIsOfLatestEnv ==
    AllAtRest => Stored(service).hash = clone[Stored(service).latest]
===========================================================================
