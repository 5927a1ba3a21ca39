-------------------------- MODULE MCChildObjects --------------------------
(***************************************************************************)
(* An instance of ChildObjects for TLC.  The lengths are scaled down with  *)
(* the alphabet, so that every cut and every collision there can be        *)
(* happens on names of a few characters.                                   *)
(***************************************************************************)
EXTENDS ChildObjects

\* One hex digit for eight, with collisions.
OneDigit(parent) ==
    LET dashes == SelectSeq(parent, LAMBDA c : c = Dash)
    IN  IF (Len(parent) + Len(dashes)) % 2 = 0 THEN <<"1">> ELSE <<"s">>

Service == <<"s", Dash>>
BuildRun == <<"1", Dash>>
Env == <<Dash, "s">>
Suffix(version) == <<Dash, ToString(version)>>

NotOfTheTeam(key) == key # "team"

SomeKeys == <<<<1>>, <<1, 1>>, <<1, 1, 1>>>>
===========================================================================
