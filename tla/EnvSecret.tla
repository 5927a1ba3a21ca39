---------------------------- MODULE EnvSecret ----------------------------
(***************************************************************************)
(* What envSecretHash hashes (env_secret.go): the keys of a Secret in      *)
(* order, each with its value, and a NUL byte after each of them.  The     *)
(* hash itself, SHA-256, is taken to tell every two such texts apart.      *)
(* The content of a Secret is a function from its keys to its values.      *)
(***************************************************************************)
EXTENDS Naturals, SequencesExt

CONSTANT Nul

\* Mutant: nothing closes a value.
OpenEntry(key, value) == key \o <<Nul>> \o value

Entry(key, value) == key \o <<Nul>> \o value \o <<Nul>>

\* sortedKeys: every key a Secret may have, in the order of sort.Strings.
HashedText(data, sortedKeys) ==
    LET written[n \in 0 .. Len(sortedKeys)] ==
            IF n = 0 THEN <<>>
            ELSE LET key == sortedKeys[n]
                 IN  IF key \in DOMAIN data THEN written[n - 1] \o Entry(key, data[key])
                     ELSE written[n - 1]
    IN  written[Len(sortedKeys)]

HasNul(data) == \E key \in DOMAIN data : Nul \in ToSet(data[key])

\* Two contents have one hash only if they are the same, or a value has a NUL in it.
ToldApart(data, other, sortedKeys) ==
    HashedText(data, sortedKeys) = HashedText(other, sortedKeys)
        => data = other \/ HasNul(data) \/ HasNul(other)
===========================================================================
