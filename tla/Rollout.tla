----------------------------- MODULE Rollout -----------------------------
(***************************************************************************)
(* What the rollout of one Service promises, with no cache, no queue and   *)
(* no reconcile: specs are released as numbered versions, each one fixed   *)
(* when it is released; a version that has been ready may receive traffic; *)
(* the status follows and never goes back.                                 *)
(***************************************************************************)
EXTENDS Naturals, Sequences

VARIABLES
    wanted,     \* the generation of the spec the user wants
    released,   \* released[v]: the spec of version v
    proven,     \* the versions that have been ready
    traffic,    \* the version that receives traffic, 0 for none
    status      \* what the Service says: observed spec, latest and active version

vars == <<wanted, released, proven, traffic, status>>

Released == 1 .. Len(released)

Init ==
    /\ wanted = 1
    /\ released = <<>>
    /\ proven = {}
    /\ traffic = 0
    /\ status = [observed |-> 0, latest |-> 0, active |-> 0]

Want ==
    /\ wanted' = wanted + 1
    /\ UNCHANGED <<released, proven, traffic, status>>

\* One version at a time, and never an older spec than the one before.
Release ==
    /\ Len(released) = status.latest
    /\ \E spec \in 1 .. wanted :
          /\ \A v \in Released : released[v] <= spec
          /\ released' = Append(released, spec)
    /\ UNCHANGED <<wanted, proven, traffic, status>>

Prove ==
    /\ \E v \in Released : proven' = proven \cup {v}
    /\ UNCHANGED <<wanted, released, traffic, status>>

RouteTraffic ==
    /\ traffic' \in proven \cup {0}
    /\ UNCHANGED <<wanted, released, proven, status>>

\* The status may run ahead of what was released: an edit that comes between the
\* release of a version and its announcement can be counted as observed.
Announce ==
    /\ \E observed \in status.observed .. wanted :
          status' = [observed |-> observed, latest |-> Len(released),
                     active |-> status.active]
    /\ UNCHANGED <<wanted, released, proven, traffic>>

Promote ==
    /\ \E v \in proven :
          /\ v >= status.active
          /\ status' = [status EXCEPT !.active = v]
    /\ UNCHANGED <<wanted, released, proven, traffic>>

Next == Want \/ Release \/ Prove \/ RouteTraffic \/ Announce \/ Promote

Spec == Init /\ [][Next]_vars
==========================================================================
