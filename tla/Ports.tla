------------------------------- MODULE Ports -------------------------------
(***************************************************************************)
(* The ports of a Service spec, twice: on the stable Kubernetes Service,   *)
(* which the Service reconciler builds, and on the containers, which the   *)
(* Deployment reconciler builds.  Names matter to Kubernetes only in being *)
(* different, so port-%d is the number in it.                              *)
(***************************************************************************)
EXTENDS Naturals, SequencesExt

\* Mutant: what is omitted stays omitted.
GivenTarget(port) == port.targetPort

targetPortFor(port) == IF port.targetPort = 0 THEN port.port ELSE port.targetPort

servicePortsFor(ports) ==
    [i \in DOMAIN ports |->
        [name |-> ports[i].port, port |-> ports[i].port,
         targetPort |-> targetPortFor(ports[i])]]

containerPortsFor(ports) == [i \in DOMAIN ports |-> targetPortFor(ports[i])]

\* Every port of the stable Service leads to a port the containers have, never to port
\* 0, and has a name of its own if the spec names no port twice.
LeadToContainers(ports) ==
    LET stable == servicePortsFor(ports)
        numbers == [i \in DOMAIN ports |-> ports[i].port]
        names == [i \in DOMAIN stable |-> stable[i].name]
    IN  /\ \A i \in DOMAIN stable :
              stable[i].targetPort \in ToSet(containerPortsFor(ports)) \ {0}
        /\ IsInjective(numbers) => IsInjective(names)
===========================================================================
