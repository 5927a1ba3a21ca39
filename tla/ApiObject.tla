---------------------------- MODULE ApiObject ----------------------------
(***************************************************************************)
(* One Kubernetes API object as a controller-runtime client sees it.       *)
(*                                                                         *)
(* The manager's client reads from an informer cache and writes to the API *)
(* server (cmd/main.go wires both through mgr.GetClient()).  The cache of  *)
(* an object shows one of the versions the server has stored, never goes   *)
(* back to an earlier one, and shows the newest in the end.  Hence an      *)
(* object is the sequence of its versions from the cached one, the head,   *)
(* to the stored one, the last: a write appends, a watch event drops the   *)
(* head.  "The object does not exist" is a version like any other.         *)
(*                                                                         *)
(* None of this is code of the repository: it is the client library and    *)
(* the API server, as internal/controller uses them.                       *)
(***************************************************************************)
EXTENDS Naturals, Sequences

Histories(Versions) == Seq(Versions) \ {<<>>}

\* A version sequence nobody has anything new to tell about: cache = server.
Fresh(version) == <<version>>

Cached(history) == Head(history)

Stored(history) == history[Len(history)]

Pending(history) == Len(history) > 1

\* A write that changes nothing makes no new version and no event.
Put(history, version) ==
    IF version = Stored(history) THEN history ELSE Append(history, version)

Deliver(history) == Tail(history)

\* One field of Patch(obj, client.MergeFrom(original)): the request carries the
\* field only if the caller changed it, and then overwrites what is stored.
Merged(original, mine, stored) == IF mine # original THEN mine ELSE stored
==========================================================================
