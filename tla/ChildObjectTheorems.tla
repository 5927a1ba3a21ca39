----------------------- MODULE ChildObjectTheorems -----------------------
(***************************************************************************)
(* What holds of the names, the labels, the env Secrets and the ports of   *)
(* children whatever the lengths and the characters of names, the hash,    *)
(* the labels, the content and the ports are.                              *)
(***************************************************************************)
EXTENDS ChildObjects, WellFoundedInduction, SequenceTheorems, TLAPS
---------------------------------------------------------------------------
(* Names *)

\* A set of natural numbers has a least one.
LEMMA LeastNatural ==
    ASSUME NEW S \in SUBSET Nat, S # {}
    PROVE  \E n \in S : \A m \in S : n <= m
  <1>1. PICK n \in S : \A m \in S : <<m, n>> \notin OpToRel(<, Nat)
    BY NatLessThanWellFounded, WFMin
  <1>2. \A m \in S : ~(m < n)
    BY <1>1 DEF OpToRel
  <1>. QED BY <1>2

\* Trimming leaves a beginning of the name, and not nothing if that is no dash.
LEMMA TrimmedName ==
    ASSUME NEW C, NEW name \in Seq(C)
    PROVE  /\ TrimDashes(name) \in Seq(C) /\ Len(TrimDashes(name)) \in 0 .. Len(name)
           /\ TrimDashes(name) # <<>> => TrimDashes(name)[1] = name[1]
           /\ name # <<>> /\ name[1] # Dash => TrimDashes(name) # <<>>
  <1> DEFINE kept == {n \in 0 .. Len(name) : \A i \in n + 1 .. Len(name) : name[i] = Dash}
             n == CHOOSE n \in kept : \A m \in kept : n <= m
  <1>1. Len(name) \in kept
    OBVIOUS
  <1>2. kept \in SUBSET Nat
    OBVIOUS
  <1>3. TrimDashes(name) = SubSeq(name, 1, n)
    BY DEF TrimDashes
  <1> HIDE DEF kept
  <1>4. \E m \in kept : \A k \in kept : m <= k
    BY <1>1, <1>2, LeastNatural
  <1>5. n \in kept
    BY <1>4
  <1> HIDE DEF n
  <1>6. n \in 0 .. Len(name) /\ \A i \in n + 1 .. Len(name) : name[i] = Dash
    BY <1>5 DEF kept
  <1>7. name # <<>> /\ name[1] # Dash => n # 0
    <2>1. name # <<>> => 1 \in 1 .. Len(name)
      OBVIOUS
    <2>. QED BY <1>6, <2>1
  <1>8. SubSeq(name, 1, n) \in Seq(C) /\ Len(SubSeq(name, 1, n)) = n
    BY <1>6
  <1>9. n # 0 => SubSeq(name, 1, n)[1] = name[1]
    BY <1>6
  <1>. QED BY <1>3, <1>6, <1>7, <1>8, <1>9

\* Where two names end alike, they are alike.
LEMMA SameEnds ==
    ASSUME NEW C, NEW a \in Seq(C), NEW b \in Seq(C), NEW s \in Seq(C), NEW t \in Seq(C),
           Len(s) = Len(t), a \o s = b \o t
    PROVE  a = b /\ s = t
  <1>1. /\ Len(a \o s) = Len(a) + Len(s) /\ Len(b \o t) = Len(b) + Len(t)
    BY ConcatProperties
  <1>2. Len(a) = Len(b)
    <2>1. Len(a) \in Nat /\ Len(b) \in Nat /\ Len(s) \in Nat
      OBVIOUS
    <2>. QED BY <1>1, <2>1
  <1>3. ASSUME NEW i \in 1 .. Len(a) PROVE a[i] = b[i]
    <2>1. (a \o s)[i] = a[i] /\ (b \o t)[i] = b[i]
      BY <1>2
    <2>. QED BY <2>1
  <1>4. ASSUME NEW i \in 1 .. Len(s) PROVE s[i] = t[i]
    <2>1. (a \o s)[Len(a) + i] = s[i] /\ (b \o t)[Len(b) + i] = t[i]
      OBVIOUS
    <2>. QED BY <1>2, <2>1
  <1>. QED BY <1>2, <1>3, <1>4, SeqEqual

\* Three parts of a name make a name.
LEMMA ThreeParts ==
    ASSUME NEW C, NEW a \in Seq(C), NEW h \in Seq(C), NEW s \in Seq(C)
    PROVE  /\ (a \o h) \o s \in Seq(C)
           /\ Len((a \o h) \o s) = Len(a) + Len(h) + Len(s)
  <1>1. a \o h \in Seq(C) /\ Len(a \o h) = Len(a) + Len(h)
    BY ConcatProperties
  <1> DEFINE ah == a \o h
  <1> HIDE DEF ah
  <1>2. ah \o s \in Seq(C) /\ Len(ah \o s) = Len(ah) + Len(s)
    BY <1>1, ConcatProperties DEF ah
  <1>. QED BY <1>1, <1>2 DEF ah

\* The middle parts of names that end in the same suffix are the same.
LEMMA SameMiddles ==
    ASSUME NEW C, NEW a \in Seq(C), NEW b \in Seq(C), NEW h \in Seq(C), NEW k \in Seq(C),
           NEW s \in Seq(C), Len(h) = Len(k), (a \o h) \o s = (b \o k) \o s
    PROVE  h = k
  <1> DEFINE ah == a \o h
             bk == b \o k
  <1>1. ah \in Seq(C) /\ bk \in Seq(C)
    BY ConcatProperties
  <1>2. ah \o s = bk \o s
    OBVIOUS
  <1> HIDE DEF ah, bk
  <1>3. ah = bk
    BY <1>1, <1>2, SameEnds
  <1>4. a \o h = b \o k
    BY <1>3 DEF ah, bk
  <1>5. a = b /\ h = k
    BY <1>4, SameEnds, ZenonT(60)
  <1>. QED BY <1>5

\* The first character of a name is that of its first part.
LEMMA FirstOf ==
    ASSUME NEW C, NEW a \in Seq(C), NEW b \in Seq(C), a # <<>>
    PROVE  a \o b # <<>> /\ (a \o b)[1] = a[1]
  OBVIOUS

\* The last character of a name is that of its last part.
LEMMA LastOf ==
    ASSUME NEW C, NEW a \in Seq(C), NEW b \in Seq(C)
    PROVE  /\ b # <<>> => (a \o b)[Len(a \o b)] = b[Len(b)]
           /\ b = <<>> => a \o b = a
  <1>1. ASSUME b # <<>> PROVE (a \o b)[Len(a \o b)] = b[Len(b)]
    <2>1. Len(a \o b) = Len(a) + Len(b) /\ Len(b) \in Nat \ {0} /\ Len(a) \in Nat
      BY <1>1
    <2>2. (a \o b)[Len(a) + Len(b)] = b[Len(b)]
      BY <2>1
    <2>. QED BY <2>1, <2>2
  <1>. QED BY <1>1

\* A hash has its length, and leaves room for the suffix.
Fitting(parent, suffix) ==
    /\ MaxLength \in Nat /\ HashLength \in Nat
    /\ Dash \in Chars /\ parent \in Seq(Chars) /\ suffix \in Seq(Chars)
    /\ Hash(parent) \in Seq(Chars) /\ Len(Hash(parent)) = HashLength
    /\ HashLength + Len(suffix) <= MaxLength

\* A name that is cut ends in its hash and its suffix, is not too long, and begins like
\* its parent if there is room for that.
LEMMA CutName ==
    ASSUME NEW parent, NEW suffix, Fitting(parent, suffix), ~FitsWhole(parent, suffix)
    PROVE  \E cut \in Seq(Chars) :
              /\ childName(parent, suffix) = (cut \o Hash(parent)) \o suffix
              /\ Len(cut) + HashLength + Len(suffix) <= MaxLength
              /\ cut # <<>> => parent # <<>> /\ cut[1] = parent[1]
              /\ Room(suffix) > 0 /\ parent # <<>> /\ parent[1] # Dash => cut # <<>>
  <1> DEFINE prefix == Prefix(parent, suffix)
  <1>1. /\ parent \in Seq(Chars) /\ suffix \in Seq(Chars) /\ Hash(parent) \in Seq(Chars)
        /\ <<Dash>> \in Seq(Chars) /\ Len(parent) \in Nat /\ Len(suffix) \in Nat
    BY DEF Fitting
  <1> DEFINE kept == SubSeq(parent, 1, Room(suffix))
  <1>2. Room(suffix) > 0 =>
           /\ Room(suffix) \in Int /\ Room(suffix) <= Len(parent)
           /\ Room(suffix) + 1 + HashLength + Len(suffix) <= MaxLength
    BY <1>1 DEF Fitting, Room, FitsWhole
  <1>3. Room(suffix) > 0 =>
           /\ kept \in Seq(Chars) /\ Len(kept) = Room(suffix) /\ kept # <<>>
           /\ parent # <<>> /\ kept[1] = parent[1]
    BY <1>1, <1>2
  <1>4. Room(suffix) > 0 => prefix = TrimDashes(kept)
    BY <1>1, <1>2 DEF Prefix
  <1>5. Room(suffix) \in Int /\ (prefix # <<>> => Room(suffix) > 0)
    BY <1>1 DEF Prefix, Room, Fitting
  <1> HIDE DEF kept
  <1>6. Room(suffix) > 0 =>
           /\ prefix \in Seq(Chars) /\ Len(prefix) \in 0 .. Room(suffix)
           /\ prefix # <<>> => prefix[1] = parent[1]
           /\ parent[1] # Dash => prefix # <<>>
    BY <1>3, <1>4, TrimmedName
  <1>7. CASE prefix = <<>>
    <2>1. <<>> \o Hash(parent) = Hash(parent)
      BY <1>1
    <2>2. childName(parent, suffix) = (<<>> \o Hash(parent)) \o suffix
      BY <1>7, <2>1 DEF childName
    <2>3. Len(<<>>) + HashLength + Len(suffix) <= MaxLength
      BY DEF Fitting
    <2> HIDE DEF prefix
    <2>4. ~(Room(suffix) > 0 /\ parent # <<>> /\ parent[1] # Dash)
      BY <1>6, <1>7
    <2>5. WITNESS <<>> \in Seq(Chars)
    <2>. QED BY <2>2, <2>3, <2>4
  <1>8. CASE prefix # <<>>
    <2>1. childName(parent, suffix) = ((prefix \o <<Dash>>) \o Hash(parent)) \o suffix
      BY <1>8 DEF childName
    <2> HIDE DEF prefix
    <2>2. Room(suffix) > 0
      BY <1>5, <1>8
    <2>3. prefix \in Seq(Chars) /\ Len(prefix) \in 0 .. Room(suffix) /\ prefix[1] = parent[1]
      BY <1>6, <1>8, <2>2
    <2> DEFINE cut == prefix \o <<Dash>>
    <2>4. cut \in Seq(Chars) /\ Len(cut) = Len(prefix) + 1
      BY <1>1, <2>3
    <2>5. cut # <<>> /\ cut[1] = parent[1]
      BY <1>1, <1>8, <2>3, FirstOf
    <2> HIDE DEF cut
    <2>6. Len(cut) + HashLength + Len(suffix) <= MaxLength
      <3>1. MaxLength \in Nat /\ HashLength \in Nat
        BY DEF Fitting
      <3>. QED BY <1>1, <1>2, <1>5, <2>2, <2>3, <2>4, <3>1
    <2>7. childName(parent, suffix) = (cut \o Hash(parent)) \o suffix
      BY <2>1 DEF cut
    <2>8. parent # <<>>
      BY <1>3, <2>2
    <2>. QED BY <2>4, <2>5, <2>6, <2>7, <2>8
  <1>. QED BY <1>7, <1>8

\* No name a reconciler forms is longer than the API server takes, however long its
\* parent and whatever was trimmed.
THEOREM NamesFit ==
    ASSUME NEW parent, NEW suffix, Fitting(parent, suffix)
    PROVE  /\ childName(parent, suffix) \in Seq(Chars)
           /\ Len(childName(parent, suffix)) <= MaxLength
  <1>1. parent \in Seq(Chars) /\ suffix \in Seq(Chars) /\ Hash(parent) \in Seq(Chars)
    BY DEF Fitting
  <1>2. CASE FitsWhole(parent, suffix)
    BY <1>1, <1>2 DEF childName, FitsWhole
  <1>3. CASE ~FitsWhole(parent, suffix)
    <2>1. PICK cut \in Seq(Chars) :
              /\ childName(parent, suffix) = (cut \o Hash(parent)) \o suffix
              /\ Len(cut) + HashLength + Len(suffix) <= MaxLength
      BY <1>3, CutName
    <2>2. /\ (cut \o Hash(parent)) \o suffix \in Seq(Chars)
          /\ Len((cut \o Hash(parent)) \o suffix) = Len(cut) + Len(Hash(parent)) + Len(suffix)
      BY <1>1, ThreeParts
    <2>3. Len(Hash(parent)) = HashLength
      BY DEF Fitting
    <2>. QED BY <2>1, <2>2, <2>3
  <1>. QED BY <1>2, <1>3

\* Two parents share a child name only if their hashes collide or one of them is called
\* like the cut name of the other.
THEOREM SharedNamesAreExcused ==
    ASSUME NEW parent, NEW other, NEW suffix, Fitting(parent, suffix), Fitting(other, suffix),
           childName(parent, suffix) = childName(other, suffix)
    PROVE  ExcusablyShared(parent, other, suffix)
  <1>1. /\ parent \in Seq(Chars) /\ other \in Seq(Chars) /\ suffix \in Seq(Chars)
        /\ Hash(parent) \in Seq(Chars) /\ Hash(other) \in Seq(Chars)
        /\ Len(Hash(parent)) = Len(Hash(other))
    BY DEF Fitting
  <1>2. CASE FitsWhole(parent, suffix) /\ FitsWhole(other, suffix)
    <2>1. parent \o suffix = other \o suffix
      BY <1>2 DEF childName
    <2>2. parent = other
      BY <1>1, <2>1, SameEnds
    <2>. QED BY <2>2 DEF ExcusablyShared
  <1>3. CASE FitsWhole(parent, suffix) /\ ~FitsWhole(other, suffix)
    BY <1>3 DEF childName, Impersonates, ExcusablyShared
  <1>4. CASE ~FitsWhole(parent, suffix) /\ FitsWhole(other, suffix)
    BY <1>4 DEF childName, Impersonates, ExcusablyShared
  <1>5. CASE ~FitsWhole(parent, suffix) /\ ~FitsWhole(other, suffix)
    <2>1. PICK a \in Seq(Chars) : childName(parent, suffix) = (a \o Hash(parent)) \o suffix
      BY <1>5, CutName
    <2>2. PICK b \in Seq(Chars) : childName(other, suffix) = (b \o Hash(other)) \o suffix
      BY <1>5, CutName
    <2>3. (a \o Hash(parent)) \o suffix = (b \o Hash(other)) \o suffix
      BY <2>1, <2>2
    <2>4. Hash(parent) = Hash(other)
      BY <1>1, <2>3, SameMiddles
    <2>. QED BY <2>4 DEF ExcusablyShared
  <1>. QED BY <1>2, <1>3, <1>4, <1>5

\* A name with no dash at either end.
Ended(name) == name # <<>> /\ name[1] # Dash /\ name[Len(name)] # Dash

\* If there is room for it, the first character of the parent stays.
LEMMA FirstStays ==
    ASSUME NEW parent, NEW suffix, Fitting(parent, suffix), Room(suffix) > 0,
           parent # <<>>, parent[1] # Dash
    PROVE  childName(parent, suffix)[1] = parent[1]
  <1>1. parent \in Seq(Chars) /\ suffix \in Seq(Chars) /\ Hash(parent) \in Seq(Chars)
    BY DEF Fitting
  <1>2. CASE FitsWhole(parent, suffix)
    BY <1>1, <1>2, FirstOf DEF childName
  <1>3. CASE ~FitsWhole(parent, suffix)
    <2>1. PICK cut \in Seq(Chars) :
              /\ childName(parent, suffix) = (cut \o Hash(parent)) \o suffix
              /\ cut # <<>> /\ cut[1] = parent[1]
      BY <1>3, CutName
    <2> DEFINE hashed == cut \o Hash(parent)
    <2>2. hashed \in Seq(Chars) /\ hashed # <<>> /\ hashed[1] = cut[1]
      BY <1>1, <2>1, FirstOf
    <2>3. childName(parent, suffix) = hashed \o suffix
      BY <2>1
    <2> HIDE DEF hashed
    <2>4. (hashed \o suffix)[1] = hashed[1]
      BY <1>1, <2>2, FirstOf
    <2>. QED BY <2>1, <2>2, <2>3, <2>4
  <1>. QED BY <1>2, <1>3

\* A child name ends in its suffix, or like its parent or a hash if it has none.
LEMMA LastStays ==
    ASSUME NEW parent, NEW suffix, Fitting(parent, suffix), Ended(parent),
           Ended(Hash(parent)), suffix # <<>> => suffix[Len(suffix)] # Dash
    PROVE  LET name == childName(parent, suffix)
           IN  Len(name) > 0 /\ name[Len(name)] # Dash
  <1> DEFINE name == childName(parent, suffix)
  <1>1. parent \in Seq(Chars) /\ suffix \in Seq(Chars) /\ Hash(parent) \in Seq(Chars)
    BY DEF Fitting
  <1>2. ASSUME NEW a \in Seq(Chars), Len(a) > 0, a[Len(a)] # Dash
        PROVE  Len(a \o suffix) > 0 /\ (a \o suffix)[Len(a \o suffix)] # Dash
    <2>1. Len(a \o suffix) > 0
      BY <1>1, <1>2
    <2>. QED BY <1>1, <1>2, <2>1, LastOf
  <1>3. CASE FitsWhole(parent, suffix)
    <2>1. name = parent \o suffix
      BY <1>3 DEF childName
    <2>2. Len(parent) > 0 /\ parent[Len(parent)] # Dash
      BY <1>1 DEF Ended
    <2>. QED BY <1>1, <1>2, <2>1, <2>2
  <1>4. CASE ~FitsWhole(parent, suffix)
    <2>1. PICK cut \in Seq(Chars) :
              childName(parent, suffix) = (cut \o Hash(parent)) \o suffix
      BY <1>4, CutName
    <2> DEFINE hashed == cut \o Hash(parent)
    <2>2. /\ hashed \in Seq(Chars) /\ Len(hashed) > 0
          /\ hashed[Len(hashed)] = Hash(parent)[Len(Hash(parent))]
      BY <1>1, LastOf DEF Ended
    <2>3. name = hashed \o suffix
      BY <2>1
    <2>4. hashed[Len(hashed)] # Dash
      BY <2>2 DEF Ended
    <2> HIDE DEF hashed, name
    <2>5. name \in Seq(Chars) /\ Len(name) > 0 /\ name[Len(name)] # Dash
      BY <1>1, <1>2, <2>2, <2>3, <2>4
    <2>. QED BY <2>5 DEF name
  <1>. QED BY <1>3, <1>4

\* A child of a parent with no dash at its ends is accepted.
LEMMA ChildIsWellFormed ==
    ASSUME NEW parent, NEW suffix, Fitting(parent, suffix), Room(suffix) > 0, Ended(parent),
           Ended(Hash(parent)), suffix # <<>> => suffix[Len(suffix)] # Dash
    PROVE  WellFormed(childName(parent, suffix))
  <1> DEFINE name == childName(parent, suffix)
  <1>1. name \in Seq(Chars) /\ Len(name) <= MaxLength
    BY NamesFit
  <1>2. Len(name) > 0 /\ name[Len(name)] # Dash
    BY LastStays
  <1>3. name[1] # Dash
    BY FirstStays DEF Ended
  <1>4. MaxLength \in Nat
    BY DEF Fitting
  <1> HIDE DEF name
  <1>5. Len(name) \in 1 .. MaxLength
    BY <1>1, <1>2, <1>4
  <1>6. WellFormed(name)
    BY <1>2, <1>3, <1>5 DEF WellFormed
  <1>. QED BY <1>6 DEF name
\* The name of a Service or a BuildRun has no dash at its ends.
LEMMA NamesAreEnded ==
    ASSUME NEW name \in Names
    PROVE  name \in Seq(Chars) /\ Ended(name)
  <1>1. PICK n \in 0 .. LongestName : name \in [1 .. n -> Chars]
    BY DEF Names, Strings
  <1>2. name \in Seq(Chars)
    BY <1>1, NamingAssumption
  <1>3. Len(name) > 0 /\ name[1] # Dash /\ name[Len(name)] # Dash
    BY DEF Names
  <1>. QED BY <1>2, <1>3 DEF Ended

\* A hash has its length, and no dash at its ends.
LEMMA HashesAreEnded ==
    ASSUME NEW parent \in Parents
    PROVE  /\ Hash(parent) \in Seq(Chars) /\ Len(Hash(parent)) = HashLength
           /\ Ended(Hash(parent))
  <1> DEFINE h == Hash(parent)
  <1>1. h \in [1 .. HashLength -> Chars \ {Dash}] /\ HashLength \in Nat \ {0}
    BY HashAssumption, NamingAssumption
  <1> HIDE DEF h
  <1>2. h \in Seq(Chars \ {Dash}) /\ Len(h) = HashLength
    BY <1>1
  <1>3. h \in Seq(Chars)
    BY <1>2
  <1>4. 1 \in 1 .. HashLength /\ HashLength \in 1 .. HashLength
    BY <1>1
  <1>5. h[1] # Dash /\ h[Len(h)] # Dash /\ h # <<>>
    BY <1>1, <1>2, <1>4
  <1>. QED BY <1>2, <1>3, <1>5 DEF Ended, h

\* Whatever is formed from a parent with no dash at its ends is accepted, and has none.
LEMMA ChildrenOfParents ==
    ASSUME NEW parent \in Parents, parent \in Seq(Chars), Ended(parent),
           NEW suffix \in Endings
    PROVE  /\ Fitting(parent, suffix)
           /\ childName(parent, suffix) \in Seq(Chars)
           /\ WellFormed(childName(parent, suffix))
           /\ Ended(childName(parent, suffix))
  <1>1. /\ suffix \in Seq(Chars) /\ Room(suffix) > 0
        /\ suffix # <<>> => suffix[Len(suffix)] # Dash
        /\ MaxLength \in Nat /\ HashLength \in Nat /\ Dash \in Chars
    BY NamingAssumption
  <1>2. HashLength + Len(suffix) <= MaxLength
    BY <1>1 DEF Room
  <1>3. Fitting(parent, suffix)
    BY <1>1, <1>2, HashesAreEnded DEF Fitting
  <1>4. WellFormed(childName(parent, suffix))
    BY <1>1, <1>3, HashesAreEnded, ChildIsWellFormed
  <1>5. childName(parent, suffix) \in Seq(Chars)
    BY <1>3, NamesFit
  <1>6. Ended(childName(parent, suffix))
    BY <1>4, <1>5, <1>1 DEF Ended, WellFormed
  <1>. QED BY <1>3, <1>4, <1>5, <1>6

\* No parent has a dash at its ends: neither a name, nor one with a prefix, nor the name
\* of a version.
LEMMA ParentsAreEnded ==
    ASSUME NEW parent \in Parents
    PROVE  parent \in Seq(Chars) /\ Ended(parent)
  <1>1. CASE parent \in Names
    BY <1>1, NamesAreEnded
  <1>2. ASSUME NEW prefix \in {ServicePrefix, BuildRunPrefix}, NEW name \in Names,
               parent = prefix \o name
        PROVE  parent \in Seq(Chars) /\ Ended(parent)
    <2>1. prefix \in Seq(Chars) /\ prefix # <<>> /\ prefix[1] # Dash
      BY NamingAssumption
    <2>2. name \in Seq(Chars) /\ name # <<>> /\ name[Len(name)] # Dash
      BY NamesAreEnded DEF Ended
    <2>3. prefix \o name # <<>> /\ (prefix \o name)[1] = prefix[1]
      BY <2>1, <2>2, FirstOf
    <2>4. (prefix \o name)[Len(prefix \o name)] = name[Len(name)]
      BY <2>1, <2>2, LastOf
    <2>. QED BY <1>2, <2>1, <2>2, <2>3, <2>4 DEF Ended
  <1>3. ASSUME NEW name \in Names, NEW version \in Versions,
               parent = serviceVersionName(name, version)
        PROVE  parent \in Seq(Chars) /\ Ended(parent)
    <2>1. name \in Parents /\ VersionSuffix(version) \in Endings
      BY DEF Parents, Endings
    <2>2. parent = childName(name, VersionSuffix(version))
      BY <1>3 DEF serviceVersionName
    <2>. QED BY <2>1, <2>2, NamesAreEnded, ChildrenOfParents
  <1>. QED BY <1>1, <1>2, <1>3 DEF Parents

\* The names of the children of one parent.
LEMMA ChildrenFit ==
    ASSUME NEW parent \in Parents, NEW suffix \in Endings
    PROVE  Fitting(parent, suffix) /\ WellFormed(childName(parent, suffix))
  BY ParentsAreEnded, ChildrenOfParents

\* What names are formed from, and the suffixes.
LEMMA FormedNames ==
    ASSUME NEW name \in Names, NEW version \in Versions
    PROVE  /\ name \in Parents /\ serviceVersionName(name, version) \in Parents
           /\ ServicePrefix \o name \in Parents /\ BuildRunPrefix \o name \in Parents
           /\ <<>> \in Endings /\ EnvSuffix \in Endings /\ VersionSuffix(version) \in Endings
  <1> DEFINE services == {ServicePrefix \o n : n \in Names}
             runs == {BuildRunPrefix \o n : n \in Names}
             deployments == {serviceVersionName(n, v) : n \in Names, v \in Versions}
  <1>1. Parents = Names \cup services \cup runs \cup deployments
    BY DEF Parents
  <1>2. /\ ServicePrefix \o name \in services /\ BuildRunPrefix \o name \in runs
        /\ serviceVersionName(name, version) \in deployments
    OBVIOUS
  <1> HIDE DEF services, runs, deployments
  <1>3. <<>> \in Endings /\ EnvSuffix \in Endings /\ VersionSuffix(version) \in Endings
    BY DEF Endings
  <1>. QED BY <1>1, <1>2, <1>3, Zenon

\* An input stays what it is.
LEMMA InputsStay == Spec => [](input \in Inputs)
  <1>1. Init => input \in Inputs
    BY DEF Init
  <1>2. input \in Inputs /\ [Next]_input => (input \in Inputs)'
    BY DEF Next
  <1>. QED BY <1>1, <1>2, PTL DEF Spec

\* The name of an input that is a name.
LEMMA NameInput ==
    ASSUME input \in Inputs, input.kind = "name"
    PROVE  input.name \in Names
  BY DEF Inputs

\* Every name formed from a Service or a BuildRun is one the API server accepts, whatever
\* the alphabet, the hash, the lengths and the name.
THEOREM NamesAreAccepted == Spec => []NamesAreWellFormed
  <1>1. ASSUME input \in Inputs
        PROVE  NamesAreWellFormed
    <2> SUFFICES ASSUME input.kind = "name", NEW version \in Versions
                 PROVE  LET deployment == serviceVersionName(input.name, version)
                        IN  \A name \in {deployment, deploymentEnvSecretNameFor(deployment),
                                         serviceEnvSecretNameFor(input.name),
                                         runtimeServiceAccountNameFor(input.name),
                                         buildRunServiceAccountNameFor(input.name)} :
                               WellFormed(name)
      BY DEF NamesAreWellFormed
    <2>1. input.name \in Names
      BY <1>1, NameInput
    <2>2. /\ input.name \in Parents /\ serviceVersionName(input.name, version) \in Parents
          /\ ServicePrefix \o input.name \in Parents
          /\ BuildRunPrefix \o input.name \in Parents
      BY <2>1, FormedNames
    <2>3. <<>> \in Endings /\ EnvSuffix \in Endings /\ VersionSuffix(version) \in Endings
      BY <2>1, FormedNames
    <2>4. WellFormed(serviceVersionName(input.name, version))
      BY <2>2, <2>3, ChildrenFit DEF serviceVersionName
    <2>5. WellFormed(deploymentEnvSecretNameFor(serviceVersionName(input.name, version)))
      BY <2>2, <2>3, ChildrenFit DEF deploymentEnvSecretNameFor
    <2>6. WellFormed(serviceEnvSecretNameFor(input.name))
      BY <2>2, <2>3, ChildrenFit DEF serviceEnvSecretNameFor
    <2>7. WellFormed(runtimeServiceAccountNameFor(input.name))
      BY <2>2, <2>3, ChildrenFit DEF runtimeServiceAccountNameFor
    <2>8. WellFormed(buildRunServiceAccountNameFor(input.name))
      BY <2>2, <2>3, ChildrenFit DEF buildRunServiceAccountNameFor
    <2>. QED BY <2>4, <2>5, <2>6, <2>7, <2>8
  <1>2. [](input \in Inputs) => []NamesAreWellFormed
    BY <1>1, PTL
  <1>. QED BY <1>2, InputsStay, PTL

\* Services share a child, or a child and a version of another, only for the reasons
\* named; an account is never one of a Service and of a BuildRun.
THEOREM ChildrenAreTheirOwn == Spec => []ChildrenHaveOneParent
  <1>1. ASSUME input \in Inputs
        PROVE  ChildrenHaveOneParent
    <2> SUFFICES ASSUME input.kind = "name", NEW other \in Names, NEW version \in Versions
                 PROVE  LET name == input.name
                            mine == ServicePrefix \o name
                            others == ServicePrefix \o other
                            deployment == serviceVersionName(other, version)
                        IN  /\ serviceVersionName(name, version) = deployment
                                  => ExcusablyShared(name, other, VersionSuffix(version))
                            /\ serviceEnvSecretNameFor(name) = serviceEnvSecretNameFor(other)
                                  => ExcusablyShared(mine, others, EnvSuffix)
                            /\ runtimeServiceAccountNameFor(name)
                                  = runtimeServiceAccountNameFor(other)
                                  => ExcusablyShared(mine, others, <<>>)
                            /\ runtimeServiceAccountNameFor(name)
                                  # buildRunServiceAccountNameFor(other)
                            /\ serviceEnvSecretNameFor(name)
                                  = deploymentEnvSecretNameFor(deployment)
                                  => ExcusablyShared(mine, deployment, EnvSuffix)
      BY DEF ChildrenHaveOneParent
    <2> DEFINE name == input.name
               mine == ServicePrefix \o name
               others == ServicePrefix \o other
               run == BuildRunPrefix \o other
               deployment == serviceVersionName(other, version)
    <2>1. name \in Names
      BY <1>1, NameInput
    <2>2. /\ name \in Parents /\ other \in Parents /\ mine \in Parents /\ others \in Parents
          /\ run \in Parents /\ deployment \in Parents
      BY <2>1, FormedNames
    <2>3. <<>> \in Endings /\ EnvSuffix \in Endings /\ VersionSuffix(version) \in Endings
      BY <2>1, FormedNames
    <2>4. ASSUME NEW a \in Parents, NEW b \in Parents, NEW suffix \in Endings,
                 childName(a, suffix) = childName(b, suffix)
          PROVE  ExcusablyShared(a, b, suffix)
      BY <2>4, ChildrenFit, SharedNamesAreExcused
    <2>5. serviceVersionName(name, version) = deployment
             => ExcusablyShared(name, other, VersionSuffix(version))
      BY <2>2, <2>3, <2>4 DEF serviceVersionName
    <2>6. serviceEnvSecretNameFor(name) = serviceEnvSecretNameFor(other)
             => ExcusablyShared(mine, others, EnvSuffix)
      BY <2>2, <2>3, <2>4 DEF serviceEnvSecretNameFor
    <2>7. runtimeServiceAccountNameFor(name) = runtimeServiceAccountNameFor(other)
             => ExcusablyShared(mine, others, <<>>)
      BY <2>2, <2>3, <2>4 DEF runtimeServiceAccountNameFor
    <2>8. serviceEnvSecretNameFor(name) = deploymentEnvSecretNameFor(deployment)
             => ExcusablyShared(mine, deployment, EnvSuffix)
      BY <2>2, <2>3, <2>4 DEF serviceEnvSecretNameFor, deploymentEnvSecretNameFor
    <2>9. runtimeServiceAccountNameFor(name) # buildRunServiceAccountNameFor(other)
      <3>1. /\ ServicePrefix \in Seq(Chars) /\ ServicePrefix # <<>>
            /\ BuildRunPrefix \in Seq(Chars) /\ BuildRunPrefix # <<>>
            /\ ServicePrefix[1] # BuildRunPrefix[1] /\ Room(<<>>) > 0
        BY <2>3, NamingAssumption
      <3>2. name \in Seq(Chars) /\ other \in Seq(Chars)
        BY <2>1, NamesAreEnded
      <3>3. mine[1] = ServicePrefix[1] /\ run[1] = BuildRunPrefix[1]
        BY <3>1, <3>2, FirstOf
      <3> HIDE DEF mine, run, name
      <3>4. childName(mine, <<>>)[1] = mine[1]
        BY <2>2, <2>3, <3>1, ChildrenFit, ParentsAreEnded, FirstStays DEF Ended
      <3>5. childName(run, <<>>)[1] = run[1]
        BY <2>2, <2>3, <3>1, ChildrenFit, ParentsAreEnded, FirstStays DEF Ended
      <3>6. childName(mine, <<>>) # childName(run, <<>>)
        BY <3>1, <3>3, <3>4, <3>5
      <3>. QED BY <3>6 DEF runtimeServiceAccountNameFor, buildRunServiceAccountNameFor, mine, run
    <2>. QED BY <2>5, <2>6, <2>7, <2>8, <2>9
  <1>2. [](input \in Inputs) => []ChildrenHaveOneParent
    BY <1>1, PTL
  <1>. QED BY <1>2, InputsStay, PTL
---------------------------------------------------------------------------
(* Labels and annotations *)

\* Whatever was there, a merge gives the controller's labels the values it wants, leaves
\* no stale one of them and none of a user out, and there is nothing left to change.
THEOREM MergingSettles ==
    ASSUME NEW K, NEW V, NEW D \in SUBSET K, NEW E \in SUBSET K,
           NEW desired \in [D -> V], NEW current \in [E -> V]
    PROVE  Settles(desired, current) /\ TouchesOnlyItsOwn(desired, current)
  <1>1. Settles(desired, current)
    BY DEF Settles, mergeManagedLabels, mergeMetadata, mergeMetadataFunc
  <1>2. TouchesOnlyItsOwn(desired, current)
    BY DEF TouchesOnlyItsOwn, mergeManagedLabels, mergeMetadata, mergeMetadataFunc
  <1>. QED BY <1>1, <1>2

\* The labels and annotations of a child after a reconcile are as the reconciler wants
\* them, and the next one writes nothing.
THEOREM LabelsSettle == Spec => []MetadataIsMerged
  <1>1. ASSUME input \in Inputs
        PROVE  MetadataIsMerged
    <2> SUFFICES ASSUME input.kind = "labels"
                 PROVE  /\ Settles(input.desired, input.current)
                        /\ TouchesOnlyItsOwn(input.desired, input.current)
      BY DEF MetadataIsMerged
    <2>1. /\ input.desired \in Maps(ManagedLabels, LabelValues)
          /\ input.current \in Maps(Labels, LabelValues)
      BY <1>1 DEF Inputs
    <2>2. ManagedLabels \subseteq Labels
      BY DEF ManagedLabels
    <2>3. PICK D \in SUBSET Labels : input.desired \in [D -> LabelValues]
      BY <2>1, <2>2 DEF Maps
    <2>4. PICK E \in SUBSET Labels : input.current \in [E -> LabelValues]
      BY <2>1 DEF Maps
    <2>. QED BY <2>3, <2>4, MergingSettles
  <1>2. [](input \in Inputs) => []MetadataIsMerged
    BY <1>1, PTL
  <1>. QED BY <1>2, InputsStay, PTL
---------------------------------------------------------------------------
(* Ports *)

\* Whatever the ports of a Service are, each leads to an open port of its containers, and
\* no two have one name unless the spec names a port twice.
THEOREM RoutedPortsAreOpen == Spec => []PortsMeet
  <1>1. ASSUME input \in Inputs
        PROVE  PortsMeet
    <2> SUFFICES ASSUME input.kind = "ports"
                 PROVE  LeadToContainers(input.ports)
      BY DEF PortsMeet
    <2> DEFINE ports == input.ports
    <2>1. ports \in PortLists
      BY <1>1 DEF Inputs
    <2> HIDE DEF ports
    <2>2. PICK n \in 0 .. MostPorts :
             ports \in [1 .. n -> [port : PortNumbers, targetPort : PortNumbers \cup {0}]]
      BY <2>1 DEF PortLists
    <2>3. ASSUME NEW i \in DOMAIN ports
          PROVE  /\ servicePortsFor(ports)[i].targetPort = containerPortsFor(ports)[i]
                 /\ servicePortsFor(ports)[i].name = ports[i].port
                 /\ containerPortsFor(ports)[i] # 0
      BY <2>2, PortAssumption
         DEF servicePortsFor, containerPortsFor, targetPortFor
    <2>4. DOMAIN servicePortsFor(ports) = DOMAIN ports
          /\ DOMAIN containerPortsFor(ports) = DOMAIN ports
      BY DEF servicePortsFor, containerPortsFor
    <2>5. LeadToContainers(ports)
      BY <2>3, <2>4 DEF LeadToContainers, ToSet, IsInjective
    <2>. QED BY <2>5 DEF ports
  <1>2. [](input \in Inputs) => []PortsMeet
    BY <1>1, PTL
  <1>. QED BY <1>2, InputsStay, PTL
---------------------------------------------------------------------------
(* The content of an env Secret *)

\* The bytes of a hashed text.
Octets == Bytes \cup {Nul}

Keys == Seq(Bytes \ {Nul})

NulFree(text) == \A i \in 1 .. Len(text) : text[i] # Nul

\* Nothing, or a text that ends in a NUL.
Closed(text) == text # <<>> => text[Len(text)] = Nul

\* What holds of 0 and of the successor of what it holds of holds up to any bound.
LEMMA CountUp ==
    ASSUME NEW bound \in Nat, NEW T, 0 \in T, \A n \in 1 .. bound : n - 1 \in T => n \in T
    PROVE  \A n \in 0 .. bound : n \in T
  <1> DEFINE outside == {n \in 0 .. bound : n \notin T}
  <1> SUFFICES ASSUME outside # {} PROVE FALSE
    OBVIOUS
  <1>1. outside \in SUBSET Nat
    OBVIOUS
  <1>2. PICK n \in outside : \A m \in outside : n <= m
    BY <1>1, LeastNatural
  <1>3. n \in 1 .. bound /\ n - 1 \in 0 .. bound /\ ~(n <= n - 1)
    BY <1>2
  <1>4. n - 1 \in T
    BY <1>2, <1>3
  <1>. QED BY <1>2, <1>3, <1>4

\* The order in which three texts are joined does not matter.
LEMMA TextsAssociate ==
    ASSUME NEW a \in Seq(Octets), NEW b \in Seq(Octets), NEW c \in Seq(Octets)
    PROVE  a \o (b \o c) = (a \o b) \o c
  BY ConcatAssociative

\* What ends in a NUL.
LEMMA ClosedByNul ==
    ASSUME NEW a \in Seq(Octets), NEW nul, nul = <<Nul>>
    PROVE  a \o nul \in Seq(Octets) /\ a \o nul # <<>> /\ Closed(a \o nul)
  <1>1. nul \in Seq(Octets) /\ nul # <<>> /\ nul[Len(nul)] = Nul
    BY DEF Octets
  <1>2. (a \o nul)[Len(a \o nul)] = nul[Len(nul)]
    BY <1>1, LastOf
  <1>3. a \o nul \in Seq(Octets) /\ a \o nul # <<>>
    BY <1>1
  <1>. QED BY <1>1, <1>2, <1>3 DEF Closed

\* The parts of an entry.
LEMMA EntryParts ==
    ASSUME NEW before \in Seq(Octets), NEW key \in Seq(Octets), NEW value \in Seq(Octets)
    PROVE  /\ Entry(key, value) \in Seq(Octets)
           /\ before \o Entry(key, value) \in Seq(Octets)
           /\ before \o Entry(key, value)
                 = (((before \o key) \o <<Nul>>) \o value) \o <<Nul>>
           /\ before \o Entry(key, value) # <<>>
           /\ Closed(before \o Entry(key, value))
  <1> DEFINE nul == <<Nul>>
  <1>1. nul \in Seq(Octets) /\ nul # <<>> /\ nul[Len(nul)] = Nul
    BY DEF Octets
  <1> HIDE DEF nul
  <1> DEFINE kn == key \o nul
  <1>2. kn \in Seq(Octets) /\ before \o kn = (before \o key) \o nul
    BY <1>1, ConcatAssociative
  <1> HIDE DEF kn
  <1> DEFINE knv == kn \o value
  <1>3. knv \in Seq(Octets)
    BY <1>2, ConcatProperties
  <1>9. before \o knv = (before \o kn) \o value
    BY <1>2, TextsAssociate
  <1> HIDE DEF knv
  <1> DEFINE entry == knv \o nul
  <1>4. entry \in Seq(Octets)
    BY <1>1, <1>3, ConcatProperties
  <1>10. before \o entry = (before \o knv) \o nul
    BY <1>1, <1>3, TextsAssociate
  <1> HIDE DEF entry
  <1>11. before \o knv \in Seq(Octets)
    BY <1>3, ConcatProperties
  <1>6. before \o entry \in Seq(Octets) /\ before \o entry # <<>> /\ Closed(before \o entry)
    BY <1>10, <1>11, ClosedByNul DEF nul
  <1>7. Entry(key, value) = entry
    BY DEF Entry, entry, knv, kn, nul
  <1>8. before \o entry = (((before \o key) \o nul) \o value) \o nul
    BY <1>2, <1>9, <1>10
  <1>. QED BY <1>4, <1>6, <1>7, <1>8 DEF nul

\* Where two texts end alike, they are alike.
LEMMA SameTextEnds ==
    ASSUME NEW a \in Seq(Octets), NEW b \in Seq(Octets), NEW s \in Seq(Octets),
           NEW t \in Seq(Octets), Len(s) = Len(t)
    PROVE  a \o s = b \o t => a = b /\ s = t
  BY SameEnds

\* A text, another one, and a NUL.
Closing(before, text) == (before \o text) \o <<Nul>>

\* An entry after what was written before it.
After(before, key, value) == before \o Entry(key, value)

\* An entry closes its key, then its value.
LEMMA EntryCloses ==
    ASSUME NEW before \in Seq(Octets), NEW key \in Seq(Octets), NEW value \in Seq(Octets)
    PROVE  /\ After(before, key, value) = Closing(Closing(before, key), value)
           /\ After(before, key, value) \in Seq(Octets) \ {<<>>}
           /\ Closed(After(before, key, value))
  BY EntryParts DEF Closing, After

\* The end of a text from its last NUL on is the longest.
LEMMA NoLongerEnd ==
    ASSUME NEW a \in Seq(Octets), NEW b \in Seq(Octets), NEW s \in Seq(Octets),
           NEW t \in Seq(Octets), a \o s = b \o t, Closed(a), NulFree(t)
    PROVE  Len(t) <= Len(s)
  <1> SUFFICES ASSUME Len(s) < Len(t) PROVE FALSE
    OBVIOUS
  <1>1. Len(a) + Len(s) = Len(b) + Len(t)
    <2>1. Len(a \o s) = Len(a) + Len(s) /\ Len(b \o t) = Len(b) + Len(t)
      BY ConcatProperties
    <2>. QED BY <2>1
  <1>2. Len(a) \in 1 .. Len(a) /\ a # <<>> /\ Len(a) - Len(b) \in 1 .. Len(t)
    BY <1>1
  <1>3. a[Len(a)] = Nul
    BY <1>2 DEF Closed
  <1>4. (a \o s)[Len(a)] = a[Len(a)]
    BY <1>2
  <1>5. (b \o t)[Len(a)] = t[Len(a) - Len(b)]
    BY <1>2
  <1>. QED BY <1>2, <1>3, <1>4, <1>5 DEF NulFree

\* A text can be cut after its last NUL in one way.
LEMMA LastPart ==
    ASSUME NEW a \in Seq(Octets), NEW b \in Seq(Octets), NEW s \in Seq(Octets),
           NEW t \in Seq(Octets), Closed(a), Closed(b), NulFree(s), NulFree(t)
    PROVE  a \o s = b \o t => a = b /\ s = t
  <1>1. ASSUME a \o s = b \o t
        PROVE  Len(s) = Len(t)
    <2>1. Len(t) <= Len(s)
      BY <1>1, NoLongerEnd
    <2>2. Len(s) <= Len(t)
      <3>1. b \o t = a \o s
        BY <1>1
      <3>. QED BY <3>1, NoLongerEnd
    <2>. QED BY <2>1, <2>2
  <1>. QED BY <1>1, SameTextEnds

\* The last text that was closed can be told from the closed text.
LEMMA ClosingsToldApart ==
    ASSUME NEW a \in Seq(Octets), NEW b \in Seq(Octets), NEW s \in Seq(Octets),
           NEW t \in Seq(Octets), Closed(a), Closed(b), NulFree(s), NulFree(t)
    PROVE  /\ Closing(a, s) \in Seq(Octets) /\ Closed(Closing(a, s))
           /\ Closing(a, s) = Closing(b, t) => a = b /\ s = t
  <1> DEFINE nul == <<Nul>>
             as == a \o s
             bt == b \o t
  <1>1. nul \in Seq(Octets) /\ as \in Seq(Octets) /\ bt \in Seq(Octets)
    BY ConcatProperties DEF Octets
  <1>2. as = bt => a = b /\ s = t
    BY LastPart
  <1>3. Closing(a, s) = as \o nul /\ Closing(b, t) = bt \o nul
    BY DEF Closing
  <1> HIDE DEF as, bt
  <1>4. as \o nul \in Seq(Octets) /\ Closed(as \o nul)
    BY <1>1, ClosedByNul
  <1> HIDE DEF nul
  <1>5. as \o nul = bt \o nul => as = bt
    BY <1>1, SameTextEnds, Zenon
  <1>. QED BY <1>2, <1>3, <1>4, <1>5, Zenon

\* Texts that end in an entry are the same only if their entries are.
LEMMA EntriesToldApart ==
    ASSUME NEW a \in Seq(Octets), NEW b \in Seq(Octets), Closed(a), Closed(b),
           NEW key \in Seq(Octets), NEW value \in Seq(Octets), NulFree(key), NulFree(value),
           NEW other \in Seq(Octets), NEW its \in Seq(Octets), NulFree(other), NulFree(its)
    PROVE  After(a, key, value) = After(b, other, its)
              => a = b /\ key = other /\ value = its
  <1> DEFINE ak == Closing(a, key)
             bo == Closing(b, other)
  <1>1. After(a, key, value) = Closing(ak, value) /\ After(b, other, its) = Closing(bo, its)
    BY EntryCloses
  <1>2. ak \in Seq(Octets) /\ Closed(ak) /\ bo \in Seq(Octets) /\ Closed(bo)
    BY ClosingsToldApart
  <1>3. ak = bo => a = b /\ key = other
    BY ClosingsToldApart
  <1> HIDE DEF ak, bo
  <1>4. Closing(ak, value) = Closing(bo, its) => ak = bo /\ value = its
    BY <1>2, ClosingsToldApart
  <1>. QED BY <1>1, <1>3, <1>4

\* The keys of Secrets.
LEMMA KeysOfSecrets ==
    /\ SortedKeys \in Seq(Keys) /\ Len(SortedKeys) \in Nat
    /\ \A n \in 1 .. Len(SortedKeys) :
          SortedKeys[n] \in Seq(Octets) /\ NulFree(SortedKeys[n])
    /\ \A m, n \in 1 .. Len(SortedKeys) : SortedKeys[m] = SortedKeys[n] => m = n
  <1>1. SortedKeys \in Seq(Keys) /\ Len(SortedKeys) \in Nat
    BY SecretAssumption DEF Keys
  <1>2. ASSUME NEW n \in 1 .. Len(SortedKeys)
        PROVE  SortedKeys[n] \in Seq(Octets) /\ NulFree(SortedKeys[n])
    <2> DEFINE key == SortedKeys[n]
    <2>1. key \in Keys
      BY <1>1
    <2> HIDE DEF key
    <2>2. \A i \in 1 .. Len(key) : key[i] \in Bytes \ {Nul}
      BY <2>1 DEF Keys
    <2>3. key \in Seq(Octets)
      BY <2>1 DEF Keys, Octets
    <2>. QED BY <2>2, <2>3 DEF NulFree, key
  <1>3. \A m, n \in 1 .. Len(SortedKeys) : SortedKeys[m] = SortedKeys[n] => m = n
    <2>1. DOMAIN SortedKeys = 1 .. Len(SortedKeys)
      BY <1>1
    <2>. QED BY <2>1, SecretAssumption DEF IsInjective
  <1>. QED BY <1>1, <1>2, <1>3

\* A content has keys among the sorted ones, and texts for values.
LEMMA ContentsOfSecrets ==
    ASSUME NEW data \in Contents
    PROVE  /\ data = [key \in DOMAIN data |-> data[key]]
           /\ DOMAIN data \subseteq {SortedKeys[n] : n \in 1 .. Len(SortedKeys)}
           /\ \A key \in DOMAIN data : data[key] \in Seq(Octets)
  <1>1. PICK D \in SUBSET ToSet(SortedKeys) : data \in [D -> Strings(Bytes, LongestValue)]
    BY DEF Contents, Maps
  <1>2. ToSet(SortedKeys) = {SortedKeys[n] : n \in 1 .. Len(SortedKeys)}
    BY KeysOfSecrets DEF ToSet
  <1>3. ASSUME NEW value \in Strings(Bytes, LongestValue)
        PROVE  value \in Seq(Octets)
    <2>1. PICK n \in 0 .. LongestValue : value \in [1 .. n -> Bytes]
      BY DEF Strings
    <2>2. n \in Nat
      BY SecretAssumption
    <2>. QED BY <2>1, <2>2 DEF Octets
  <1>. QED BY <1>1, <1>2, <1>3

\* The values of a content without a NUL.
LEMMA ValuesAreNulFree ==
    ASSUME NEW data \in Contents, ~HasNul(data)
    PROVE  \A key \in DOMAIN data : NulFree(data[key])
  <1> SUFFICES ASSUME NEW key \in DOMAIN data, NEW i \in 1 .. Len(data[key]),
                      data[key][i] = Nul
               PROVE  FALSE
    BY DEF NulFree
  <1>1. data[key] \in Seq(Octets)
    BY ContentsOfSecrets
  <1>2. Nul \in ToSet(data[key])
    BY <1>1 DEF ToSet
  <1>. QED BY <1>2 DEF HasNul

\* What is written when the n-th key has its turn, after what was written before.
WrittenNext(data, n, before) ==
    IF SortedKeys[n] \in DOMAIN data
    THEN After(before, SortedKeys[n], data[SortedKeys[n]]) ELSE before

\* The texts written for the first keys, one after the other.
WrittenOf(data, last, written) ==
    /\ written \in [0 .. last -> Seq(Octets)]
    /\ written[0] = <<>>
    /\ \A n \in 1 .. last : written[n] = WrittenNext(data, n, written[n - 1])

\* Every key has its turn.
LEMMA WrittenNextIsText ==
    ASSUME NEW data \in Contents, NEW n \in 1 .. Len(SortedKeys), NEW before \in Seq(Octets)
    PROVE  WrittenNext(data, n, before) \in Seq(Octets)
  <1>1. CASE SortedKeys[n] \in DOMAIN data
    <2>1. SortedKeys[n] \in Seq(Octets) /\ data[SortedKeys[n]] \in Seq(Octets)
      BY <1>1, KeysOfSecrets, ContentsOfSecrets
    <2>2. After(before, SortedKeys[n], data[SortedKeys[n]]) \in Seq(Octets)
      BY <2>1, EntryCloses
    <2>. QED BY <1>1, <2>2 DEF WrittenNext
  <1>2. CASE SortedKeys[n] \notin DOMAIN data
    BY <1>2 DEF WrittenNext
  <1>. QED BY <1>1, <1>2

\* The texts can be written one after the other, however many keys there are.
LEMMA TextsExist ==
    ASSUME NEW data \in Contents
    PROVE  \A last \in 0 .. Len(SortedKeys) : \E written : WrittenOf(data, last, written)
  <1> DEFINE T == {last \in 0 .. Len(SortedKeys) : \E written : WrittenOf(data, last, written)}
  <1>1. 0 \in T
    <2>1. WrittenOf(data, 0, [n \in 0 .. 0 |-> <<>>])
      BY DEF WrittenOf
    <2>. QED BY <2>1, KeysOfSecrets
  <1>2. ASSUME NEW last \in 1 .. Len(SortedKeys), last - 1 \in T
        PROVE  last \in T
    <2>1. PICK w : WrittenOf(data, last - 1, w)
      BY <1>2
    <2>2. /\ w \in [0 .. last - 1 -> Seq(Octets)] /\ w[0] = <<>>
          /\ \A n \in 1 .. last - 1 : w[n] = WrittenNext(data, n, w[n - 1])
      BY <2>1 DEF WrittenOf
    <2> DEFINE text == WrittenNext(data, last, w[last - 1])
               written == [n \in 0 .. last |-> IF n = last THEN text ELSE w[n]]
    <2>3. last - 1 \in 0 .. last - 1
      BY KeysOfSecrets
    <2>4. text \in Seq(Octets)
      BY <2>2, <2>3, WrittenNextIsText
    <2> HIDE DEF text
    <2>5. written \in [0 .. last -> Seq(Octets)] /\ written[0] = <<>>
      BY <2>2, <2>4, KeysOfSecrets
    <2>6. ASSUME NEW n \in 1 .. last
          PROVE  written[n] = WrittenNext(data, n, written[n - 1])
      <3>1. n - 1 \in 0 .. last - 1 /\ n \in 0 .. last /\ n - 1 \in 0 .. last
        BY KeysOfSecrets
      <3>2. written[n - 1] = w[n - 1]
        BY <3>1
      <3>3. CASE n = last
        BY <3>1, <3>2, <3>3 DEF text
      <3>4. CASE n # last
        <4>1. n \in 1 .. last - 1 /\ written[n] = w[n]
          BY <3>1, <3>4
        <4>. QED BY <2>2, <3>2, <4>1
      <3>. QED BY <3>3, <3>4
    <2> HIDE DEF written
    <2>7. WrittenOf(data, last, written)
      BY <2>5, <2>6 DEF WrittenOf
    <2>. QED BY <2>7
  <1> HIDE DEF T
  <1>3. \A last \in 0 .. Len(SortedKeys) : last \in T
    BY <1>1, <1>2, KeysOfSecrets, CountUp
  <1>. QED BY <1>3 DEF T

\* The text that is hashed is the last of them.
LEMMA HashedTextIsWritten ==
    ASSUME NEW data \in Contents
    PROVE  \E written : /\ WrittenOf(data, Len(SortedKeys), written)
                        /\ HashedText(data, SortedKeys) = written[Len(SortedKeys)]
  <1> DEFINE last == Len(SortedKeys)
             Body(w) == [n \in 0 .. last |->
                            IF n = 0 THEN <<>>
                            ELSE LET key == SortedKeys[n]
                                 IN  IF key \in DOMAIN data
                                     THEN w[n - 1] \o Entry(key, data[key])
                                     ELSE w[n - 1]]
             written == CHOOSE w : w = Body(w)
  <1>1. HashedText(data, SortedKeys) = written[last]
    BY DEF HashedText
  <1>2. last \in Nat
    BY KeysOfSecrets
  <1>3. ASSUME NEW w, w = Body(w)
        PROVE  /\ w[0] = <<>> /\ w = [n \in 0 .. last |-> w[n]]
               /\ \A n \in 1 .. last : w[n] = WrittenNext(data, n, w[n - 1])
    <2>1. w[0] = <<>>
      BY <1>2, <1>3
    <2>2. DOMAIN w = 0 .. last /\ w = [n \in 0 .. last |-> w[n]]
      BY <1>3
    <2>3. ASSUME NEW n \in 1 .. last PROVE w[n] = WrittenNext(data, n, w[n - 1])
      <3>1. n \in 0 .. last /\ n # 0
        BY <1>2
      <3>2. w[n] = Body(w)[n]
        BY <1>3
      <3>. QED BY <3>1, <3>2 DEF WrittenNext, After
    <2>. QED BY <2>1, <2>2, <2>3
  <1>4. PICK w : WrittenOf(data, last, w)
    BY <1>2, TextsExist
  <1>5. w = Body(w)
    <2>1. w \in [0 .. last -> Seq(Octets)] /\ w[0] = <<>>
      BY <1>4 DEF WrittenOf
    <2>2. ASSUME NEW n \in 0 .. last PROVE w[n] = Body(w)[n]
      <3>1. CASE n = 0
        BY <2>1, <3>1
      <3>2. CASE n # 0
        <4>1. n \in 1 .. last
          BY <1>2, <3>2
        <4>2. w[n] = WrittenNext(data, n, w[n - 1])
          BY <1>4, <4>1 DEF WrittenOf
        <4>. QED BY <3>2, <4>2 DEF WrittenNext, After
      <3>. QED BY <3>1, <3>2
    <2> HIDE DEF last
    <2>. QED BY <2>1, <2>2
  <1>6. written = Body(written)
    BY <1>5
  <1> HIDE DEF written, Body
  <1>7. /\ written[0] = <<>> /\ written = [n \in 0 .. last |-> written[n]]
        /\ \A n \in 1 .. last : written[n] = WrittenNext(data, n, written[n - 1])
    BY <1>3, <1>6
  <1> DEFINE T == {n \in 0 .. last : written[n] \in Seq(Octets)}
  <1>8. 0 \in T
    BY <1>2, <1>7
  <1>9. ASSUME NEW n \in 1 .. last, n - 1 \in T
        PROVE  n \in T
    <2>1. written[n - 1] \in Seq(Octets) /\ written[n] = WrittenNext(data, n, written[n - 1])
      BY <1>7, <1>9
    <2>2. written[n] \in Seq(Octets)
      BY <2>1, WrittenNextIsText
    <2>. QED BY <1>2, <2>2
  <1> HIDE DEF T
  <1>10. \A n \in 0 .. last : n \in T
    BY <1>2, <1>8, <1>9, CountUp
  <1>11. \A n \in 0 .. last : written[n] \in Seq(Octets)
    BY <1>10 DEF T
  <1>12. WrittenOf(data, last, written)
    BY <1>7, <1>11 DEF WrittenOf
  <1>. QED BY <1>1, <1>12

\* What is written for the first keys is nothing, or ends in the entry of one of them.
LEMMA LastEntry ==
    ASSUME NEW data \in Contents, NEW written,
           WrittenOf(data, Len(SortedKeys), written)
    PROVE  \A n \in 0 .. Len(SortedKeys) :
              /\ Closed(written[n])
              /\ \/ written[n] = <<>>
                 \/ \E m \in 1 .. n :
                       /\ SortedKeys[m] \in DOMAIN data
                       /\ written[n] = After(written[m - 1], SortedKeys[m], data[SortedKeys[m]])
  <1> DEFINE last == Len(SortedKeys)
             Ends(n) == \/ written[n] = <<>>
                        \/ \E m \in 1 .. n :
                              /\ SortedKeys[m] \in DOMAIN data
                              /\ written[n] = After(written[m - 1], SortedKeys[m],
                                                     data[SortedKeys[m]])
             T == {n \in 0 .. last : Closed(written[n]) /\ Ends(n)}
  <1>1. /\ last \in Nat /\ written \in [0 .. last -> Seq(Octets)] /\ written[0] = <<>>
        /\ \A n \in 1 .. last : written[n] = WrittenNext(data, n, written[n - 1])
    BY KeysOfSecrets DEF WrittenOf
  <1>2. 0 \in T
    <2>1. 0 \in 0 .. last /\ Closed(written[0])
      BY <1>1 DEF Closed
    <2>2. Ends(0)
      BY <1>1
    <2>. QED BY <2>1, <2>2
  <1>3. ASSUME NEW n \in 1 .. last, n - 1 \in T
        PROVE  n \in T
    <2>1. n - 1 \in 0 .. last /\ n \in 0 .. last /\ n \in 1 .. n /\ n - 1 \in Nat
      BY <1>1
    <2>2. written[n - 1] \in Seq(Octets)
      BY <1>1, <2>1
    <2>3. CASE SortedKeys[n] \in DOMAIN data
      <3>1. written[n] = After(written[n - 1], SortedKeys[n], data[SortedKeys[n]])
        BY <1>1, <2>3 DEF WrittenNext
      <3>2. SortedKeys[n] \in Seq(Octets) /\ data[SortedKeys[n]] \in Seq(Octets)
        BY <2>3, KeysOfSecrets, ContentsOfSecrets
      <3>3. Closed(After(written[n - 1], SortedKeys[n], data[SortedKeys[n]]))
        BY <2>2, <3>2, EntryCloses
      <3>. QED BY <2>1, <2>3, <3>1, <3>3
    <2>4. CASE SortedKeys[n] \notin DOMAIN data
      <3>1. written[n] = written[n - 1]
        BY <1>1, <2>4 DEF WrittenNext
      <3>2. Closed(written[n - 1]) /\ Ends(n - 1)
        BY <1>3
      <3>3. \A m \in 1 .. n - 1 : m \in 1 .. n
        BY <1>1
      <3>. QED BY <2>1, <3>1, <3>2, <3>3
    <2>. QED BY <2>3, <2>4
  <1> HIDE DEF T
  <1>4. \A n \in 0 .. last : n \in T
    BY <1>1, <1>2, <1>3, CountUp
  <1>. QED BY <1>4 DEF T

\* Two contents treat a key alike.
Alike(data, other, key) ==
    /\ key \in DOMAIN data <=> key \in DOMAIN other
    /\ key \in DOMAIN data => data[key] = other[key]

\* A content that is written has an entry only where another one has it that is written
\* to the same text.
LEMMA NoEntryAlone ==
    ASSUME NEW data \in Contents, NEW other \in Contents, ~HasNul(data), ~HasNul(other),
           NEW written, NEW its, WrittenOf(data, Len(SortedKeys), written),
           WrittenOf(other, Len(SortedKeys), its),
           NEW n \in 1 .. Len(SortedKeys), written[n] = its[n],
           SortedKeys[n] \in DOMAIN data
    PROVE  SortedKeys[n] \in DOMAIN other
  <1> DEFINE last == Len(SortedKeys)
             key == SortedKeys[n]
  <1> SUFFICES ASSUME key \notin DOMAIN other PROVE FALSE
    OBVIOUS
  <1>1. /\ last \in Nat /\ written \in [0 .. last -> Seq(Octets)]
        /\ its \in [0 .. last -> Seq(Octets)]
    BY KeysOfSecrets DEF WrittenOf
  <1>2. n - 1 \in 0 .. last /\ n - 1 \in Nat /\ n \in 0 .. last
    BY <1>1
  <1>3. written[n] = After(written[n - 1], key, data[key]) /\ its[n] = its[n - 1]
    BY DEF WrittenOf, WrittenNext
  <1>4. /\ key \in Seq(Octets) /\ NulFree(key)
        /\ data[key] \in Seq(Octets) /\ NulFree(data[key])
    BY KeysOfSecrets, ContentsOfSecrets, ValuesAreNulFree
  <1>5. written[n - 1] \in Seq(Octets) /\ Closed(written[n - 1])
    BY <1>1, <1>2, LastEntry
  <1>6. its[n - 1] # <<>>
    <2>1. After(written[n - 1], key, data[key]) # <<>>
      BY <1>4, <1>5, EntryCloses
    <2>. QED BY <1>3, <2>1, Zenon
  <1>13. \/ its[n - 1] = <<>>
         \/ \E m \in 1 .. n - 1 :
               /\ SortedKeys[m] \in DOMAIN other
               /\ its[n - 1] = After(its[m - 1], SortedKeys[m], other[SortedKeys[m]])
    BY <1>2, LastEntry
  <1>7. PICK m \in 1 .. n - 1 :
           /\ SortedKeys[m] \in DOMAIN other
           /\ its[n - 1] = After(its[m - 1], SortedKeys[m], other[SortedKeys[m]])
    BY <1>6, <1>13, Zenon
  <1>8. m \in 1 .. last /\ m # n /\ m - 1 \in 0 .. last
    BY <1>1
  <1>9. /\ SortedKeys[m] \in Seq(Octets) /\ NulFree(SortedKeys[m])
        /\ other[SortedKeys[m]] \in Seq(Octets) /\ NulFree(other[SortedKeys[m]])
    BY <1>7, <1>8, KeysOfSecrets, ContentsOfSecrets, ValuesAreNulFree
  <1>10. its[m - 1] \in Seq(Octets) /\ Closed(its[m - 1])
    BY <1>1, <1>8, LastEntry
  <1>11. After(written[n - 1], key, data[key])
            = After(its[m - 1], SortedKeys[m], other[SortedKeys[m]])
    BY <1>3, <1>7
  <1>12. key = SortedKeys[m]
    <2> DEFINE a == written[n - 1]
               b == its[m - 1]
               mine == SortedKeys[m]
               value == data[key]
               theirs == other[mine]
    <2>1. /\ a \in Seq(Octets) /\ Closed(a) /\ b \in Seq(Octets) /\ Closed(b)
          /\ value \in Seq(Octets) /\ NulFree(value)
          /\ theirs \in Seq(Octets) /\ NulFree(theirs)
          /\ mine \in Seq(Octets) /\ NulFree(mine) /\ key \in Seq(Octets) /\ NulFree(key)
      BY <1>4, <1>5, <1>9, <1>10
    <2>2. After(a, key, value) = After(b, mine, theirs)
      BY <1>11
    <2> HIDE DEF a, b, mine, value, theirs, key
    <2>3. After(a, key, value) = After(b, mine, theirs) => key = mine
      BY <2>1, EntriesToldApart
    <2>4. key = mine
      BY <2>2, <2>3, Zenon
    <2>. QED BY <2>4 DEF mine
  <1>. QED BY <1>8, <1>12, KeysOfSecrets

\* Contents whose texts are the same treat every key alike.
LEMMA WrittenAlike ==
    ASSUME NEW data \in Contents, NEW other \in Contents, ~HasNul(data), ~HasNul(other),
           NEW written, NEW its, WrittenOf(data, Len(SortedKeys), written),
           WrittenOf(other, Len(SortedKeys), its),
           written[Len(SortedKeys)] = its[Len(SortedKeys)]
    PROVE  \A n \in 1 .. Len(SortedKeys) : Alike(data, other, SortedKeys[n])
  <1> DEFINE last == Len(SortedKeys)
             Agree(n) == \A m \in 1 .. n : Alike(data, other, SortedKeys[m])
             T == {n \in 0 .. last : written[n] = its[n] => Agree(n)}
  <1>1. /\ last \in Nat /\ written \in [0 .. last -> Seq(Octets)]
        /\ its \in [0 .. last -> Seq(Octets)]
    BY KeysOfSecrets DEF WrittenOf
  <1>2. 0 \in T
    BY <1>1
  <1>3. ASSUME NEW n \in 1 .. last, n - 1 \in T
        PROVE  n \in T
    <2> DEFINE key == SortedKeys[n]
    <2>1. n - 1 \in 0 .. last /\ n \in 0 .. last
      BY <1>1
    <2> SUFFICES ASSUME written[n] = its[n] PROVE Agree(n)
      BY <2>1
    <2>2. key \in DOMAIN data <=> key \in DOMAIN other
      <3>1. its[n] = written[n]
        OBVIOUS
      <3>2. key \in DOMAIN data => key \in DOMAIN other
        BY NoEntryAlone
      <3>3. key \in DOMAIN other => key \in DOMAIN data
        BY <3>1, NoEntryAlone
      <3>. QED BY <3>2, <3>3
    <2>3. written[n - 1] = its[n - 1] /\ Alike(data, other, key)
      <3>1. CASE key \notin DOMAIN data
        BY <2>2, <3>1 DEF WrittenOf, WrittenNext, Alike
      <3>2. CASE key \in DOMAIN data
        <4>1. /\ key \in Seq(Octets) /\ NulFree(key)
              /\ data[key] \in Seq(Octets) /\ NulFree(data[key])
              /\ other[key] \in Seq(Octets) /\ NulFree(other[key])
          BY <2>2, <3>2, KeysOfSecrets, ContentsOfSecrets, ValuesAreNulFree
        <4>2. /\ written[n - 1] \in Seq(Octets) /\ Closed(written[n - 1])
              /\ its[n - 1] \in Seq(Octets) /\ Closed(its[n - 1])
          BY <1>1, <2>1, LastEntry
        <4>3. /\ written[n] = After(written[n - 1], key, data[key])
              /\ its[n] = After(its[n - 1], key, other[key])
          BY <2>2, <3>2 DEF WrittenOf, WrittenNext
        <4>4. After(written[n - 1], key, data[key]) = After(its[n - 1], key, other[key])
          BY <4>3
        <4>5. written[n - 1] = its[n - 1] /\ data[key] = other[key]
          <5> DEFINE a == written[n - 1]
                     b == its[n - 1]
                     value == data[key]
                     theirs == other[key]
          <5>1. /\ a \in Seq(Octets) /\ Closed(a) /\ b \in Seq(Octets) /\ Closed(b)
                /\ value \in Seq(Octets) /\ NulFree(value)
                /\ theirs \in Seq(Octets) /\ NulFree(theirs)
                /\ key \in Seq(Octets) /\ NulFree(key)
            BY <4>1, <4>2
          <5>2. After(a, key, value) = After(b, key, theirs)
            BY <4>4
          <5> HIDE DEF a, b, value, theirs, key
          <5>3. After(a, key, value) = After(b, key, theirs) => a = b /\ value = theirs
            BY <5>1, EntriesToldApart
          <5>4. a = b /\ value = theirs
            BY <5>2, <5>3, Zenon
          <5>. QED BY <5>4 DEF a, b, value, theirs
        <4>. QED BY <2>2, <4>5 DEF Alike
      <3>. QED BY <3>1, <3>2
    <2>4. Agree(n - 1)
      BY <1>3, <2>3
    <2>5. \A m \in 1 .. n : m = n \/ m \in 1 .. n - 1
      BY <1>1
    <2>. QED BY <2>3, <2>4, <2>5
  <1> HIDE DEF T
  <1>4. \A n \in 0 .. last : n \in T
    BY <1>1, <1>2, <1>3, CountUp
  <1>5. last \in T /\ last \in 0 .. last
    BY <1>1, <1>4
  <1>. QED BY <1>5 DEF T

\* Whatever the content of an env Secret is and whatever it is changed to, the text that
\* is hashed changes with it, unless a value has a NUL in it.
THEOREM EditsAreNoticed == Spec => []EditsChangeTheHash
  <1>1. ASSUME NEW data \in Contents, NEW other \in Contents
        PROVE  ToldApart(data, other, SortedKeys)
    <2> SUFFICES ASSUME HashedText(data, SortedKeys) = HashedText(other, SortedKeys),
                        ~HasNul(data), ~HasNul(other)
                 PROVE  data = other
      BY DEF ToldApart
    <2>1. PICK written : /\ WrittenOf(data, Len(SortedKeys), written)
                         /\ HashedText(data, SortedKeys) = written[Len(SortedKeys)]
      BY HashedTextIsWritten
    <2>2. PICK its : /\ WrittenOf(other, Len(SortedKeys), its)
                     /\ HashedText(other, SortedKeys) = its[Len(SortedKeys)]
      BY HashedTextIsWritten
    <2>3. \A n \in 1 .. Len(SortedKeys) : Alike(data, other, SortedKeys[n])
      BY <2>1, <2>2, WrittenAlike
    <2>4. /\ \A key \in DOMAIN data : key \in DOMAIN other /\ data[key] = other[key]
          /\ \A key \in DOMAIN other : key \in DOMAIN data
      BY <2>3, ContentsOfSecrets DEF Alike
    <2>5. DOMAIN data = DOMAIN other
      BY <2>4
    <2>6. data = [key \in DOMAIN data |-> data[key]]
          /\ other = [key \in DOMAIN other |-> other[key]]
      BY ContentsOfSecrets
    <2>. QED BY <2>4, <2>5, <2>6
  <1>2. ASSUME input \in Inputs
        PROVE  EditsChangeTheHash
    <2>1. input.kind = "env" => input.data \in Contents
      BY <1>2 DEF Inputs
    <2>. QED BY <1>1, <2>1 DEF EditsChangeTheHash
  <1>3. [](input \in Inputs) => []EditsChangeTheHash
    BY <1>2, PTL
  <1>. QED BY <1>3, InputsStay, PTL
===========================================================================
