---------------------------- MODULE ChildNames ----------------------------
(***************************************************************************)
(* The names a reconciler gives the objects it makes (naming.go and its    *)
(* callers).  They carry everything: objects are found, adopted, patched   *)
(* and deleted by name.  A name is a sequence of characters, because what  *)
(* is cut, where, and what two names then share, is the question.          *)
(***************************************************************************)
EXTENDS Integers, Sequences

CONSTANTS
    MaxLength,         \* kubernetesNameMaxLength
    HashLength,        \* childNameHashLength
    Hash(_),           \* the first HashLength hex digits of the MD5 of a name
    Dash,              \* "-"
    ServicePrefix,     \* "service-"
    BuildRunPrefix,    \* buildRunSAPrefix
    EnvSuffix,         \* "-env"
    VersionSuffix(_)   \* fmt.Sprintf("-%05d", version)

\* strings.TrimRight(name, "-").
TrimDashes(name) ==
    LET kept == {n \in 0 .. Len(name) : \A i \in n + 1 .. Len(name) : name[i] = Dash}
    IN  SubSeq(name, 1, CHOOSE n \in kept : \A m \in kept : n <= m)

Room(suffix) == MaxLength - Len(suffix) - HashLength - 1

FitsWhole(parent, suffix) == Len(parent) + Len(suffix) <= MaxLength

\* What is left of a parent that is too long.
Prefix(parent, suffix) ==
    IF Room(suffix) <= 0 THEN <<>> ELSE TrimDashes(SubSeq(parent, 1, Room(suffix)))

\* Mutant: a long parent is cut and not hashed.
CutOnly(parent, suffix) ==
    IF FitsWhole(parent, suffix) THEN parent \o suffix
    ELSE SubSeq(parent, 1, MaxLength - Len(suffix)) \o suffix

\* Mutant: the dashes at the cut are kept, and none is put before the hash.
CutAtDash(parent, suffix) ==
    IF FitsWhole(parent, suffix) THEN parent \o suffix
    ELSE Hash(parent) \o SubSeq(parent, 1, Room(suffix) + 1) \o suffix

childName(parent, suffix) ==
    IF FitsWhole(parent, suffix) THEN parent \o suffix
    ELSE IF Prefix(parent, suffix) = <<>> THEN Hash(parent) \o suffix
    ELSE Prefix(parent, suffix) \o <<Dash>> \o Hash(parent) \o suffix

serviceVersionName(service, version) == childName(service, VersionSuffix(version))

serviceEnvSecretNameFor(service) == childName(ServicePrefix \o service, EnvSuffix)

deploymentEnvSecretNameFor(deployment) == childName(deployment, EnvSuffix)

runtimeServiceAccountNameFor(service) == childName(ServicePrefix \o service, <<>>)

buildRunServiceAccountNameFor(buildRun) == childName(BuildRunPrefix \o buildRun, <<>>)
---------------------------------------------------------------------------
\* A label of at most MaxLength characters that neither begins nor ends with a dash.
WellFormed(name) ==
    /\ Len(name) \in 1 .. MaxLength
    /\ name[1] # Dash
    /\ name[Len(name)] # Dash

\* One of them is cut to a name the other one has in full.
Impersonates(parent, other, suffix) ==
    /\ ~FitsWhole(other, suffix)
    /\ parent \o suffix = childName(other, suffix)

\* Why two parents may have one child name: nothing but their hashes, or a name chosen
\* to look like a cut one, lets them.
ExcusablyShared(parent, other, suffix) ==
    \/ parent = other
    \/ Hash(parent) = Hash(other)
    \/ Impersonates(parent, other, suffix)
    \/ Impersonates(other, parent, suffix)
===========================================================================
