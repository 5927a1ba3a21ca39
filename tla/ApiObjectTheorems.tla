------------------------ MODULE ApiObjectTheorems ------------------------
(* What writing and delivering do to the version sequence of an object. *)
EXTENDS ApiObject, SequenceTheorems, TLAPS

\* The cache and the server hold versions of the object.
LEMMA HistoryEnds ==
    ASSUME NEW S, NEW h \in Histories(S)
    PROVE  Cached(h) \in S /\ Stored(h) \in S /\ Len(h) \in Nat \ {0}
  BY DEF Histories, Cached, Stored

\* An object nobody has written is the same in the cache and on the server.
LEMMA FreshHistory ==
    ASSUME NEW S, NEW v \in S
    PROVE  /\ Fresh(v) \in Histories(S)
           /\ Cached(Fresh(v)) = v /\ Stored(Fresh(v)) = v
           /\ Len(Fresh(v)) = 1 /\ Fresh(v)[1] = v
  BY DEF Histories, Cached, Stored, Fresh

\* A write is what the server stores from then on, and the cache does not see it.
LEMMA PutHistory ==
    ASSUME NEW S, NEW h \in Histories(S), NEW v \in S
    PROVE  /\ Put(h, v) \in Histories(S)
           /\ Stored(Put(h, v)) = v
           /\ Cached(Put(h, v)) = Cached(h)
  <1>1. CASE v = Stored(h)
    BY <1>1 DEF Put
  <1>2. CASE v # Stored(h)
    BY <1>2 DEF Put, Histories, Cached, Stored
  <1>. QED BY <1>1, <1>2

\* Every version of a written object is an earlier one, where it was, or the new one.
LEMMA PutVersions ==
    ASSUME NEW S, NEW h \in Histories(S), NEW v \in S,
           NEW i \in 1 .. Len(Put(h, v))
    PROVE  \/ i \in 1 .. Len(h) /\ Put(h, v)[i] = h[i]
           \/ i = Len(Put(h, v)) /\ Put(h, v)[i] = v
  <1>1. CASE v = Stored(h)
    BY <1>1 DEF Put
  <1>2. CASE v # Stored(h)
    BY <1>2 DEF Put, Histories
  <1>. QED BY <1>1, <1>2

\* A cache nothing is under way to shows what the server stores.
LEMMA CurrentCache ==
    ASSUME NEW S, NEW h \in Histories(S), ~Pending(h)
    PROVE  Cached(h) = Stored(h) /\ Len(h) = 1
  <1>1. Len(h) \in Nat \ {0}
    BY HistoryEnds
  <1>2. Len(h) = 1
    BY <1>1 DEF Pending, Histories
  <1>. QED BY <1>2 DEF Histories, Cached, Stored

\* After a write an event is under way, unless none was and the write changed nothing.
LEMMA PutPending ==
    ASSUME NEW S, NEW h \in Histories(S), NEW v \in S
    PROVE  /\ Pending(h) => Pending(Put(h, v))
           /\ ~Pending(Put(h, v)) => ~Pending(h) /\ Put(h, v) = h /\ v = Stored(h)
  <1>1. CASE v = Stored(h)
    BY <1>1 DEF Put
  <1>2. CASE v # Stored(h)
    <2>1. Put(h, v) = Append(h, v) /\ Len(h) \in Nat \ {0}
      BY <1>2, HistoryEnds DEF Put
    <2>2. Len(Append(h, v)) = Len(h) + 1
      BY DEF Histories
    <2>. QED BY <2>1, <2>2 DEF Pending
  <1>. QED BY <1>1, <1>2

\* A watch event moves the cache on by one version and leaves the server alone.
LEMMA DeliverHistory ==
    ASSUME NEW S, NEW h \in Histories(S), Pending(h)
    PROVE  /\ Deliver(h) \in Histories(S)
           /\ Stored(Deliver(h)) = Stored(h)
           /\ 2 \in 1 .. Len(h) /\ Cached(Deliver(h)) = h[2]
           /\ Len(Deliver(h)) = Len(h) - 1
           /\ \A i \in 1 .. Len(Deliver(h)) : Deliver(h)[i] = h[i + 1]
  <1>1. h \in Seq(S) /\ Len(h) \in Nat /\ Len(h) > 1
    BY DEF Histories, Pending
  <1>2. /\ Tail(h) \in Seq(S) /\ Len(Tail(h)) = Len(h) - 1
        /\ \A i \in 1 .. Len(h) - 1 : Tail(h)[i] = h[i + 1]
    BY <1>1
  <1>3. Len(Tail(h)) \in 1 .. Len(h) - 1
    BY <1>1, <1>2
  <1>4. Tail(h) # <<>>
    BY <1>1, <1>2, EmptySeq
  <1>5. Head(Tail(h)) = h[2] /\ Tail(h)[Len(Tail(h))] = h[Len(h)]
    BY <1>1, <1>2, <1>3, <1>4
  <1>. QED BY <1>1, <1>2, <1>3, <1>4, <1>5 DEF Histories, Deliver, Cached, Stored

\* While nothing is delivered the cache shows what it showed, and an object with no event
\* under way has not been written.
LEMMA WrittenOnly ==
    ASSUME NEW S, NEW h \in Histories(S), NEW k,
           k = h \/ \E v \in S : k = Put(h, v)
    PROVE  /\ Cached(k) = Cached(h)
           /\ Pending(h) => Pending(k)
           /\ ~Pending(k) => k = h
  <1>1. CASE k = h
    BY <1>1
  <1>2. ASSUME NEW v \in S, k = Put(h, v)
        PROVE  /\ Cached(k) = Cached(h)
               /\ Pending(h) => Pending(k)
               /\ ~Pending(k) => k = h
    BY <1>2, PutHistory, PutPending
  <1>. QED BY <1>1, <1>2

\* What only ever stops being among T: if the stored version is, all that the cache may
\* still show are, and a write or a watch event keeps it that way.
LEMMA NeverBack ==
    ASSUME NEW S, NEW h \in Histories(S), NEW T,
           Stored(h) \in T => \A i \in 1 .. Len(h) : h[i] \in T
    PROVE  /\ \A v \in S : v \notin T \/ Stored(h) \in T =>
                 (Stored(Put(h, v)) \in T =>
                     \A i \in 1 .. Len(Put(h, v)) : Put(h, v)[i] \in T)
           /\ Pending(h) =>
                 (Stored(Deliver(h)) \in T =>
                     \A i \in 1 .. Len(Deliver(h)) : Deliver(h)[i] \in T)
  <1>1. ASSUME NEW v \in S, v \notin T \/ Stored(h) \in T, Stored(Put(h, v)) \in T
        PROVE  \A i \in 1 .. Len(Put(h, v)) : Put(h, v)[i] \in T
    <2>1. v \in T
      BY <1>1, PutHistory
    <2>. QED BY <1>1, <2>1, PutVersions
  <1>2. ASSUME Pending(h), Stored(Deliver(h)) \in T
        PROVE  \A i \in 1 .. Len(Deliver(h)) : Deliver(h)[i] \in T
    <2>1. /\ Stored(Deliver(h)) = Stored(h)
          /\ Len(Deliver(h)) = Len(h) - 1 /\ Len(h) \in Nat
          /\ \A i \in 1 .. Len(Deliver(h)) : Deliver(h)[i] = h[i + 1]
      BY <1>2, DeliverHistory, HistoryEnds
    <2>2. \A i \in 1 .. Len(Deliver(h)) : i + 1 \in 1 .. Len(h)
      BY <2>1
    <2>. QED BY <1>2, <2>1, <2>2
  <1>. QED BY <1>1, <1>2

\* A sequence of versions from a set is one from any larger set.
LEMMA LargerHistories ==
    ASSUME NEW S, NEW T, S \subseteq T, NEW h \in Histories(S)
    PROVE  h \in Histories(T)
  BY DEF Histories
==========================================================================
