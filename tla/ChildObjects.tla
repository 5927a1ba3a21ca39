--------------------------- MODULE ChildObjects ---------------------------
(***************************************************************************)
(* How the reconcilers name, label and fill the objects they make: the     *)
(* functions of ChildNames, Metadata, EnvSecret and Ports, each on every   *)
(* input.  There is no behaviour: a state is an input.                     *)
(***************************************************************************)
EXTENDS Integers, Sequences, ChildNames, Metadata, EnvSecret, Ports

CONSTANTS
    Chars,         \* the characters of a name
    LongestName,   \* bound: of the name of a Service or a BuildRun
    Versions,      \* of a Service
    Labels,        \* keys of labels, of annotations as well
    LabelValues,
    SortedKeys,    \* every key an env Secret may have, in the order of sort.Strings
    Bytes,
    LongestValue,  \* bound: of a value in an env Secret
    PortNumbers,
    MostPorts      \* bound: ports of a Service

VARIABLE input

Strings(chars, longest) == UNION {[1 .. n -> chars] : n \in 0 .. longest}
Maps(keys, values) == UNION {[domain -> values] : domain \in SUBSET keys}

Names == {name \in Strings(Chars, LongestName) :
             Len(name) > 0 /\ name[1] # Dash /\ name[Len(name)] # Dash}

ManagedLabels == {key \in Labels : isManagedLabel(key)}

Contents == Maps(ToSet(SortedKeys), Strings(Bytes, LongestValue))

PortLists ==
    UNION {[1 .. n -> [port : PortNumbers, targetPort : PortNumbers \cup {0}]] :
              n \in 0 .. MostPorts}

\* Every name another is formed from.
Parents ==
    Names \cup {ServicePrefix \o name : name \in Names}
          \cup {BuildRunPrefix \o name : name \in Names}
          \cup {serviceVersionName(name, version) : name \in Names, version \in Versions}

Endings == {<<>>, EnvSuffix} \cup {VersionSuffix(version) : version \in Versions}

\* A suffix and a hash leave room for a character and a dash, a suffix does not end in a
\* dash, and the two kinds of accounts begin differently.
ASSUME NamingAssumption ==
    /\ MaxLength \in Nat /\ HashLength \in Nat \ {0}
    /\ Dash \in Chars /\ LongestName \in Nat
    /\ \A suffix \in Endings :
          /\ suffix \in Seq(Chars) /\ Room(suffix) > 0
          /\ suffix # <<>> => suffix[Len(suffix)] # Dash
    /\ \A prefix \in {ServicePrefix, BuildRunPrefix} :
          prefix \in Seq(Chars) \ {<<>>} /\ prefix[1] # Dash
    /\ ServicePrefix[1] # BuildRunPrefix[1]

\* A hash is made of hexadecimal digits.
ASSUME HashAssumption ==
    \A parent \in Parents : Hash(parent) \in [1 .. HashLength -> Chars \ {Dash}]

\* No key of a Secret has a NUL in it, and none occurs twice.
ASSUME SecretAssumption ==
    /\ LongestValue \in Nat
    /\ SortedKeys \in Seq(Seq(Bytes \ {Nul}))
    /\ IsInjective(SortedKeys)

ASSUME PortAssumption == PortNumbers \subseteq Nat \ {0} /\ MostPorts \in Nat

Inputs ==
    [kind : {"name"}, name : Names]
        \cup [kind : {"labels"}, desired : Maps(ManagedLabels, LabelValues),
              current : Maps(Labels, LabelValues)]
        \cup [kind : {"env"}, data : Contents]
        \cup [kind : {"ports"}, ports : PortLists]

Init == input \in Inputs

Next == UNCHANGED input

Spec == Init /\ [][Next]_input
---------------------------------------------------------------------------
\* Every name formed from a Service or a BuildRun is one the API server accepts, however
\* long the parent is and wherever it is cut.
NamesAreWellFormed ==
    input.kind = "name" => \A version \in Versions :
        LET deployment == serviceVersionName(input.name, version)
        IN  \A name \in {deployment, deploymentEnvSecretNameFor(deployment),
                         serviceEnvSecretNameFor(input.name),
                         runtimeServiceAccountNameFor(input.name),
                         buildRunServiceAccountNameFor(input.name)} :
               WellFormed(name)

\* Two Services share a Deployment, an env Secret or an account only if their hashes
\* collide or one is called like the cut name of the other; no Service shares an account
\* with a BuildRun; and a Service and a version of another one share an env Secret only
\* if the Service is called after the version, without the prefix the other Service's
\* name happens to begin with.
ChildrenHaveOneParent ==
    input.kind = "name" => \A other \in Names, version \in Versions :
        LET name == input.name
            mine == ServicePrefix \o name
            others == ServicePrefix \o other
            deployment == serviceVersionName(other, version)
        IN  /\ serviceVersionName(name, version) = deployment
                  => ExcusablyShared(name, other, VersionSuffix(version))
            /\ serviceEnvSecretNameFor(name) = serviceEnvSecretNameFor(other)
                  => ExcusablyShared(mine, others, EnvSuffix)
            /\ runtimeServiceAccountNameFor(name) = runtimeServiceAccountNameFor(other)
                  => ExcusablyShared(mine, others, <<>>)
            /\ runtimeServiceAccountNameFor(name) # buildRunServiceAccountNameFor(other)
            /\ serviceEnvSecretNameFor(name) = deploymentEnvSecretNameFor(deployment)
                  => ExcusablyShared(mine, deployment, EnvSuffix)

\* Merging labels and annotations comes to rest after one write, takes away no label of
\* a user and leaves no stale one of the controller.
MetadataIsMerged ==
    input.kind = "labels" =>
        /\ Settles(input.desired, input.current)
        /\ TouchesOnlyItsOwn(input.desired, input.current)

\* An edited env Secret has another hash, so that its edit is noticed.
EditsChangeTheHash ==
    input.kind = "env" => \A other \in Contents : ToldApart(input.data, other, SortedKeys)

\* What the Service reconciler routes to, the Deployment reconciler opened.
PortsMeet == input.kind = "ports" => LeadToContainers(input.ports)
===========================================================================
