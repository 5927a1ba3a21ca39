---------------------------- MODULE VersionEnv ----------------------------
(***************************************************************************)
(* What the Deployment reconciler promises about the env of one version:   *)
(* its pods get a copy of the Service's env Secret, as the cache shows it  *)
(* at that moment; the copy is made once and never changed; and it goes    *)
(* only when the version goes.                                             *)
(***************************************************************************)
EXTENDS ApiObject

CONSTANT Absent

VARIABLES
    source,  \* versions of the content of the Service's env Secret
    clone,   \* the content of the version's copy, or Absent
    alive    \* the version is there to stay

Init == clone = Absent

Clonable == clone = Absent /\ Cached(source) # Absent

Copy == Cached(source)

Clone == Clonable /\ clone' = Copy

Collect == ~alive /\ clone' = Absent

Next == Clone \/ Collect

Spec == Init /\ [][Next]_clone
===========================================================================
