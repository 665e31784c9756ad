--------------------------- MODULE SnapshotProofs ---------------------------
(***************************************************************************)
(* What the repository pilots read, for any number of pilots and models,   *)
(* any trees, edits and limits, and any orders in which a file system      *)
(* returns the entries of a directory: first what the model's operators on *)
(* sequences, names and trees do, then what a look keeps, then that a      *)
(* snapshot tells the truth, and at last that two pilots that saw the same *)
(* unchanged tree have the same snapshot.                                  *)
(***************************************************************************)
EXTENDS RepositoryPilotProofs, FiniteSetTheorems, SequenceTheorems, FunctionTheorems,
        WellFoundedInduction

-----------------------------------------------------------------------------
(* Orders of a finite set.                                                 *)

\* However the file system returns the entries, they are all there, once.
LEMMA OrderHasAll ==
    ASSUME NEW S, IsFiniteSet(S), NEW order \in SetToSeqs(S)
    PROVE  /\ Cardinality(S) \in Nat
           /\ order \in Seq(S) /\ Len(order) = Cardinality(S)
           /\ DOMAIN order = 1..Cardinality(S)
           /\ ToSet(order) = S
           /\ \A i, j \in DOMAIN order : order[i] = order[j] => i = j
<1> DEFINE n == Cardinality(S)
<1>1. n \in Nat
  BY FS_CardinalityType
<1>2. order \in [1..n -> S] /\ \A i, j \in 1..n : order[i] = order[j] => i = j
  <2>1. order \in [1..n -> S] /\ \A i, j \in 1..n : i # j => order[i] # order[j]
    BY DEF SetToSeqs
  <2> QED BY <2>1
<1>3. order \in Injection(1..n, S)
  <2> HIDE DEF n
  <2> QED BY <1>2, Fun_IsInj
<1>4. Cardinality(1..n) = n
  BY <1>1, FS_Interval
<1>5. order \in Surjection(1..n, S)
  BY <1>3, <1>4, FS_Injection
<1> HIDE DEF n
<1>6. ToSet(order) = S
  <2>1. \A x \in S : \E i \in 1..n : order[i] = x
    BY <1>5 DEF Surjection
  <2> QED BY <1>2, <2>1 DEF ToSet
<1>7. order \in Seq(S) /\ Len(order) = n
  BY <1>1, <1>2
<1> QED BY <1>1, <1>2, <1>6, <1>7 DEF n

\* A finite set of numbers has an ascending order: each has the place that is
\* the number of those that are no greater.
LEMMA AscendingOrders ==
    ASSUME NEW S \in SUBSET Nat, IsFiniteSet(S)
    PROVE  /\ Ascending(S) \in SetToSeqs(S)
           /\ \A i, j \in DOMAIN Ascending(S) : i < j => Ascending(S)[i] < Ascending(S)[j]
<1> DEFINE n == Cardinality(S)
           Below(x) == {y \in S : y <= x}
           rank == [x \in S |-> Cardinality(Below(x))]
<1>1. n \in Nat /\ Cardinality(1..n) = n /\ IsFiniteSet(1..n)
  BY FS_CardinalityType, FS_Interval
<1>2. \A x \in S : IsFiniteSet(Below(x)) /\ Cardinality(Below(x)) \in 1..n
  <2>1. SUFFICES ASSUME NEW x \in S PROVE IsFiniteSet(Below(x)) /\ Cardinality(Below(x)) \in 1..n
    OBVIOUS
  <2>2. Below(x) \in SUBSET S /\ x \in Below(x)
    OBVIOUS
  <2> HIDE DEF Below
  <2>3. IsFiniteSet(Below(x)) /\ Cardinality(Below(x)) <= n
    BY <2>2, FS_Subset
  <2>4. Cardinality(Below(x)) \in Nat /\ Cardinality(Below(x)) # 0
    BY <2>2, <2>3, FS_CardinalityType, FS_EmptySet
  <2> QED BY <1>1, <2>3, <2>4
<1>3. \A x, y \in S : x < y => Cardinality(Below(x)) < Cardinality(Below(y))
  <2>1. SUFFICES ASSUME NEW x \in S, NEW y \in S, x < y
                 PROVE  Cardinality(Below(x)) < Cardinality(Below(y))
    OBVIOUS
  <2>2. Below(x) \in SUBSET Below(y) /\ y \in Below(y) /\ y \notin Below(x)
    <3>1. x \in Nat /\ y \in Nat /\ \A z \in S : z \in Nat
      OBVIOUS
    <3>2. \A z \in S : z <= x => z <= y
      BY <2>1, <3>1
    <3>3. y <= y /\ ~ (y <= x)
      BY <2>1, <3>1
    <3> QED BY <3>2, <3>3
  <2> HIDE DEF Below
  <2>3. Cardinality(Below(x)) <= Cardinality(Below(y))
        /\ (Cardinality(Below(y)) = Cardinality(Below(x)) => Below(y) = Below(x))
    BY <1>2, <2>2, FS_Subset
  <2>4. Cardinality(Below(x)) \in Nat /\ Cardinality(Below(y)) \in Nat
    BY <1>2
  <2> QED BY <2>2, <2>3, <2>4
<1> HIDE DEF Below
<1>4. rank \in [S -> 1..n] /\ \A x, y \in S : x < y => rank[x] < rank[y]
  BY <1>2, <1>3
<1> HIDE DEF rank
<1>5. \A x, y \in S : rank[x] = rank[y] => x = y
  <2>1. \A x \in S : rank[x] \in Nat /\ x \in Nat
    BY <1>1, <1>4
  <2> QED BY <1>4, <2>1
<1>6. rank \in Injection(S, 1..n)
  BY <1>4, <1>5, Fun_IsInj
<1>7. rank \in Surjection(S, 1..n)
  BY <1>1, <1>6, FS_Injection DEF n
<1> DEFINE order == [i \in 1..n |-> CHOOSE x \in S : rank[x] = i]
<1>8. \A i \in 1..n : order[i] \in S /\ rank[order[i]] = i
  <2>1. \A i \in 1..n : \E x \in S : rank[x] = i
    BY <1>7 DEF Surjection
  <2> QED BY <2>1
<1>9. order \in [1..n -> S]
  BY <1>8
<1> HIDE DEF order
<1>10. \A i, j \in 1..n : i < j => order[i] < order[j]
  <2>1. SUFFICES ASSUME NEW i \in 1..n, NEW j \in 1..n, i < j PROVE order[i] < order[j]
    OBVIOUS
  <2>2. /\ order[i] \in S /\ order[j] \in S
        /\ rank[order[i]] = i /\ rank[order[j]] = j
    BY <1>8
  <2>3. order[i] # order[j]
    BY <2>1, <2>2
  <2>4. order[j] < order[i] => j < i
    BY <1>4, <2>2
  <2>5. order[i] \in Nat /\ order[j] \in Nat
    BY <2>2
  <2>6. i \in Nat /\ j \in Nat
    BY <1>1
  <2> QED BY <2>1, <2>3, <2>4, <2>5, <2>6
<1>11. order \in SetToSeqs(S)
  <2>1. \A i, j \in 1..n : i # j => order[i] # order[j]
    BY <1>8
  <2> QED BY <1>9, <2>1 DEF SetToSeqs, n
<1>12. DOMAIN order = 1..n
  BY <1>9
<1>13. \E o \in SetToSeqs(S) : \A i, j \in DOMAIN o : i < j => o[i] < o[j]
  BY <1>10, <1>11, <1>12
<1> QED BY <1>13 DEF Ascending

\* The places that are kept, in their order.
LEMMA PathsOfAre ==
    ASSUME NEW directory \in Seq(Nat), NEW names \in Seq(Nat), NEW kept \in SUBSET DOMAIN names
    PROVE  /\ PathsOf(directory, names, kept) \in Seq(Seq(Nat))
           /\ ToSet(PathsOf(directory, names, kept)) = {Append(directory, names[i]) : i \in kept}
           /\ (\A i, j \in DOMAIN names : names[i] = names[j] => i = j) =>
                 IsInjective(PathsOf(directory, names, kept))
<1> DEFINE n == Cardinality(kept)
           places == Ascending(kept)
           paths == PathsOf(directory, names, kept)
<1>1. kept \in SUBSET Nat /\ IsFiniteSet(kept)
  <2>1. DOMAIN names = 1..Len(names) /\ Len(names) \in Nat
    OBVIOUS
  <2>2. IsFiniteSet(DOMAIN names)
    BY <2>1, FS_Interval
  <2> QED BY <2>1, <2>2, FS_Subset
<1>2. places \in SetToSeqs(kept)
  BY <1>1, AscendingOrders
<1>3. /\ n \in Nat /\ DOMAIN places = 1..n
      /\ \A i \in 1..n : places[i] \in kept
      /\ \A i, j \in 1..n : places[i] = places[j] => i = j
      /\ \A k \in kept : \E i \in 1..n : places[i] = k
  <2>1. /\ n \in Nat /\ DOMAIN places = 1..n /\ ToSet(places) = kept
        /\ \A i, j \in DOMAIN places : places[i] = places[j] => i = j
    BY <1>1, <1>2, OrderHasAll
  <2> QED BY <2>1 DEF ToSet
<1> HIDE DEF n, places
<1>4. paths = [i \in 1..n |-> Append(directory, names[places[i]])]
  BY DEF PathsOf, n, places
<1>5. \A i \in 1..n : names[places[i]] \in Nat
  BY <1>3
<1>6. \A i \in 1..n : Append(directory, names[places[i]]) \in Seq(Nat)
  BY <1>5
<1>7. paths \in Seq(Seq(Nat)) /\ DOMAIN paths = 1..n
  BY <1>3, <1>4, <1>6
<1>8. ToSet(paths) = {Append(directory, names[i]) : i \in kept}
  <2> HIDE DEF paths
  <2>1. ToSet(paths) = {Append(directory, names[places[i]]) : i \in 1..n}
    BY <1>4, <1>7 DEF ToSet
  <2> QED BY <1>3, <2>1
<1>9. ASSUME \A i, j \in DOMAIN names : names[i] = names[j] => i = j
      PROVE  IsInjective(paths)
  <2>1. SUFFICES ASSUME NEW i \in 1..n, NEW j \in 1..n,
                        Append(directory, names[places[i]]) = Append(directory, names[places[j]])
                 PROVE  i = j
    BY <1>4 DEF IsInjective
  <2>2. names[places[i]] = names[places[j]]
    BY <1>5, <2>1, AppendInjective
  <2> QED BY <1>3, <1>9, <2>2
<1> QED BY <1>7, <1>8, <1>9

-----------------------------------------------------------------------------
(* Sequences and their elements.                                           *)

LEMMA ConcatParts ==
    ASSUME NEW S, NEW a \in Seq(S), NEW b \in Seq(S)
    PROVE  /\ a \o b \in Seq(S) /\ Len(a \o b) = Len(a) + Len(b)
           /\ ToSet(a \o b) = ToSet(a) \cup ToSet(b)
           /\ \A i \in DOMAIN (a \o b) :
                 \/ i \in DOMAIN a /\ (a \o b)[i] = a[i]
                 \/ i \notin DOMAIN a /\ i - Len(a) \in DOMAIN b /\ (a \o b)[i] = b[i - Len(a)]
<1> DEFINE c == a \o b
<1>1. /\ c \in Seq(S) /\ Len(c) = Len(a) + Len(b)
      /\ \A i \in 1..(Len(a) + Len(b)) : c[i] = IF i <= Len(a) THEN a[i] ELSE b[i - Len(a)]
  BY ConcatProperties
<1>2. /\ Len(a) \in Nat /\ DOMAIN a = 1..Len(a)
      /\ Len(b) \in Nat /\ DOMAIN b = 1..Len(b)
  OBVIOUS
<1> HIDE DEF c
<1>3. DOMAIN c = 1..(Len(a) + Len(b))
  BY <1>1
<1>4. \A i \in DOMAIN c :
         \/ i \in DOMAIN a /\ c[i] = a[i]
         \/ i \notin DOMAIN a /\ i - Len(a) \in DOMAIN b /\ c[i] = b[i - Len(a)]
  BY <1>1, <1>2, <1>3
<1>5. /\ \A i \in DOMAIN a : i \in DOMAIN c /\ c[i] = a[i]
      /\ \A i \in DOMAIN b : Len(a) + i \in DOMAIN c /\ c[Len(a) + i] = b[i]
  BY <1>1, <1>2, <1>3
<1>6. ToSet(c) = ToSet(a) \cup ToSet(b)
  BY <1>4, <1>5 DEF ToSet
<1> QED BY <1>1, <1>4, <1>6 DEF c

LEMMA FrontParts ==
    ASSUME NEW S, NEW s \in Seq(S), s # <<>>
    PROVE  /\ Front(s) \in Seq(S) /\ Last(s) \in S
           /\ ToSet(s) = ToSet(Front(s)) \cup {Last(s)}
           /\ Len(s) \in DOMAIN s
           /\ \A i \in DOMAIN Front(s) : i \in DOMAIN s /\ i # Len(s) /\ Front(s)[i] = s[i]
<1> DEFINE n == Len(s)
<1>1. n \in Nat \ {0} /\ DOMAIN s = 1..n
  BY EmptySeq
<1>2. /\ Front(s) \in Seq(S) /\ Len(Front(s)) = n - 1
      /\ \A i \in 1..(n - 1) : Front(s)[i] = s[i]
  BY <1>1 DEF Front
<1>3. DOMAIN Front(s) = 1..(n - 1)
  BY <1>1, <1>2
<1>4. Last(s) = s[n] /\ n \in DOMAIN s
  BY <1>1 DEF Last
<1> HIDE DEF n
<1>5. ToSet(s) = ToSet(Front(s)) \cup {Last(s)}
  <2>1. \A i \in DOMAIN s : i \in DOMAIN Front(s) \/ i = n
    BY <1>1, <1>3
  <2>2. \A i \in DOMAIN Front(s) : i \in DOMAIN s /\ i # n
    BY <1>1, <1>3
  <2> QED BY <1>2, <1>3, <1>4, <2>1, <2>2 DEF ToSet
<1> QED BY <1>1, <1>2, <1>3, <1>4, <1>5 DEF n

LEMMA ReverseParts ==
    ASSUME NEW S, NEW s \in Seq(S)
    PROVE  /\ Reverse(s) \in Seq(S)
           /\ ToSet(Reverse(s)) = ToSet(s)
           /\ \A i, j \in DOMAIN Reverse(s) :
                 /\ Len(s) - i + 1 \in DOMAIN s /\ Reverse(s)[i] = s[Len(s) - i + 1]
                 /\ Len(s) - i + 1 = Len(s) - j + 1 => i = j
<1> DEFINE n == Len(s)
<1>1. n \in Nat /\ DOMAIN s = 1..n
  OBVIOUS
<1>2. \A i \in 1..n : (n - i) + 1 \in 1..n
  BY <1>1
<1>3. Reverse(s) = [i \in 1..n |-> s[(n - i) + 1]]
  BY DEF Reverse
<1> HIDE DEF n
<1>4. \A i \in 1..n : s[(n - i) + 1] \in S
  BY <1>2 DEF n
<1>5. Reverse(s) \in Seq(S) /\ DOMAIN Reverse(s) = 1..n
  BY <1>1, <1>3, <1>4
<1>6. ToSet(Reverse(s)) = ToSet(s)
  <2>1. ToSet(Reverse(s)) \subseteq ToSet(s)
    BY <1>1, <1>2, <1>3, <1>5 DEF ToSet
  <2>2. ASSUME NEW i \in 1..n PROVE s[i] \in ToSet(Reverse(s))
    <3>1. (n - i) + 1 \in 1..n /\ (n - ((n - i) + 1)) + 1 = i
      BY <1>1
    <3>2. Reverse(s)[(n - i) + 1] = s[i]
      BY <1>3, <3>1
    <3> QED BY <1>5, <3>1, <3>2 DEF ToSet
  <2> QED BY <1>1, <2>1, <2>2 DEF ToSet
<1>7. \A i, j \in 1..n : (n - i) + 1 = (n - j) + 1 => i = j
  BY <1>1
<1> QED BY <1>1, <1>2, <1>3, <1>5, <1>6, <1>7 DEF n

LEMMA ElementsAre ==
    ASSUME NEW S, NEW s \in Seq(S)
    PROVE  \A e \in ToSet(s) : e \in S
BY DEF ToSet

\* Prefixes, element by element.
LEMMA PrefixMeans ==
    ASSUME NEW S, NEW a \in Seq(S), NEW b \in Seq(S)
    PROVE  IsPrefix(a, b) <=> Len(a) <= Len(b) /\ \A i \in 1..Len(a) : a[i] = b[i]
<1>1. Len(a) \in Nat /\ Len(b) \in Nat
  OBVIOUS
<1>2. SubSeq(a, 1, Len(a)) = a
  BY SubSeqFull
<1>3. ASSUME Len(a) <= Len(b)
      PROVE  (a = SubSeq(b, 1, Len(a))) <=> \A i \in 1..Len(a) : a[i] = b[i]
  <2>1. /\ SubSeq(b, 1, Len(a)) \in Seq(S) /\ Len(SubSeq(b, 1, Len(a))) = Len(a)
        /\ \A i \in 1..Len(a) : SubSeq(b, 1, Len(a))[i] = b[i]
    BY <1>1, <1>3
  <2> QED BY <2>1, SeqEqual
<1> QED BY <1>2, <1>3 DEF IsPrefix

LEMMA PrefixOfPath ==
    ASSUME NEW d \in Seq(Nat), NEW x \in Seq(Nat), NEW n \in Nat
    PROVE  /\ IsPrefix(d, d) /\ IsPrefix(d, Append(d, n))
           /\ Append(d, n) # d /\ ~IsPrefix(Append(d, n), d)
           /\ IsPrefix(Append(d, n), x) => IsPrefix(d, x)
           /\ IsPrefix(x, Append(d, n)) => x = Append(d, n) \/ IsPrefix(x, d)
<1>1. Len(d) \in Nat /\ Len(x) \in Nat
  OBVIOUS
<1> DEFINE c == Append(d, n)
<1>2. /\ c \in Seq(Nat) /\ Len(c) = Len(d) + 1
      /\ \A i \in 1..Len(d) : c[i] = d[i]
      /\ c[Len(d) + 1] = n
  BY AppendProperties
<1> HIDE DEF c
<1>3. IsPrefix(d, d) /\ IsPrefix(d, c)
  <2>1. Len(d) <= Len(d) /\ Len(d) <= Len(c) /\ \A i \in 1..Len(d) : d[i] = c[i]
    BY <1>1, <1>2
  <2> QED BY <1>2, <2>1, PrefixMeans
<1>4. c # d /\ ~IsPrefix(c, d)
  BY <1>1, <1>2, PrefixMeans
<1>5. IsPrefix(c, x) => IsPrefix(d, x)
  <2>1. \A i \in 1..Len(d) : i \in 1..Len(c)
    BY <1>1, <1>2
  <2> QED BY <1>1, <1>2, <2>1, PrefixMeans, SMTT(40)
<1>6. ASSUME IsPrefix(x, c) PROVE x = c \/ IsPrefix(x, d)
  <2>1. Len(x) <= Len(d) + 1 /\ \A i \in 1..Len(x) : x[i] = c[i]
    BY <1>2, <1>6, PrefixMeans
  <2>2. CASE Len(x) = Len(d) + 1
    BY <1>2, <2>1, <2>2, SeqEqual
  <2>3. CASE Len(x) <= Len(d)
    <3>1. \A i \in 1..Len(x) : i \in 1..Len(d)
      BY <1>1, <2>3
    <3> QED BY <1>2, <2>1, <2>3, <3>1, PrefixMeans
  <2> QED BY <1>1, <2>1, <2>2, <2>3
<1> QED BY <1>3, <1>4, <1>5, <1>6 DEF c

LEMMA LastOfPath ==
    ASSUME NEW d \in Seq(Nat), NEW n \in Nat
    PROVE  /\ Append(d, n) \in Seq(Nat) /\ Last(Append(d, n)) = n
           /\ ToSet(Append(d, n)) = ToSet(d) \cup {n}
<1> DEFINE c == Append(d, n)
<1>1. /\ Len(d) \in Nat /\ DOMAIN d = 1..Len(d)
      /\ c \in Seq(Nat) /\ Len(c) = Len(d) + 1 /\ c[Len(d) + 1] = n
      /\ \A i \in 1..Len(d) : c[i] = d[i]
  BY AppendProperties
<1> HIDE DEF c
<1>2. DOMAIN c = 1..(Len(d) + 1)
  BY <1>1
<1>3. \A i \in DOMAIN c : (i \in DOMAIN d /\ c[i] = d[i]) \/ c[i] = n
  <2>1. \A i \in DOMAIN c : i \in DOMAIN d \/ i = Len(d) + 1
    BY <1>1, <1>2
  <2> QED BY <1>1, <2>1
<1>4. /\ \A i \in DOMAIN d : i \in DOMAIN c /\ c[i] = d[i]
      /\ Len(d) + 1 \in DOMAIN c
  BY <1>1, <1>2
<1>5. ToSet(c) = ToSet(d) \cup {n}
  BY <1>1, <1>3, <1>4 DEF ToSet
<1> QED BY <1>1, <1>5 DEF Last, c

\* The next directory on the way to a path.
LEMMA NextOnTheWay ==
    ASSUME NEW d \in Seq(Nat), NEW x \in Seq(Nat), IsPrefix(d, x), d # x
    PROVE  \E n \in Nat : /\ IsPrefix(Append(d, n), x)
                          /\ Append(d, n) = SubSeq(x, 1, Len(d) + 1)
                          /\ Len(d) + 1 \in 1..Len(x)
                          /\ n \in ToSet(x)
<1>1. /\ Len(d) \in Nat /\ Len(x) \in Nat /\ Len(d) <= Len(x)
      /\ \A i \in 1..Len(d) : d[i] = x[i]
  BY PrefixMeans
<1>2. Len(d) # Len(x)
  BY <1>1, SeqEqual
<1> DEFINE k == Len(d) + 1
           n == x[k]
           c == Append(d, n)
<1>3. k \in 1..Len(x) /\ n \in Nat /\ n \in ToSet(x)
  <2>1. k \in 1..Len(x)
    BY <1>1, <1>2
  <2> QED BY <2>1 DEF ToSet
<1>4. /\ c \in Seq(Nat) /\ Len(c) = k
      /\ \A i \in 1..Len(d) : c[i] = d[i]
      /\ c[k] = n
  BY <1>3, AppendProperties
<1> HIDE DEF c
<1>5. \A i \in 1..k : c[i] = x[i]
  <2>1. \A i \in 1..k : i \in 1..Len(d) \/ i = k
    BY <1>1
  <2> QED BY <1>1, <1>4, <2>1
<1>6. IsPrefix(c, x)
  BY <1>3, <1>4, <1>5, PrefixMeans, SMTT(40)
<1>7. c = SubSeq(x, 1, k)
  <2>1. SubSeq(x, 1, k) \in Seq(Nat) /\ Len(SubSeq(x, 1, k)) = k
        /\ \A i \in 1..k : SubSeq(x, 1, k)[i] = x[i]
    BY <1>1, <1>3
  <2> QED BY <1>4, <1>5, <2>1, SeqEqual
<1> QED BY <1>3, <1>6, <1>7 DEF c

-----------------------------------------------------------------------------
(* A directory and what is in it.                                          *)

LEMMA EntriesAre ==
    ASSUME NEW t \in Trees, NEW d \in Seq(Nat)
    PROVE  /\ IsFiniteSet(Entries(t, d)) /\ Entries(t, d) \in SUBSET Nat
           /\ \A n \in Nat : n \in Entries(t, d) <=> Append(d, n) \in DOMAIN t
<1> DEFINE inside == {path \in DOMAIN t : path # <<>> /\ Front(path) = d}
           f == [path \in inside |-> Last(path)]
<1>1. Entries(t, d) = {Last(path) : path \in inside}
  BY DEF Entries
<1>2. DOMAIN t \subseteq Seq(Nat) /\ IsFiniteSet(DOMAIN t)
  BY TreesAssumption
<1>3. \A path \in inside : Last(path) \in Nat /\ path = Append(d, Last(path))
  <2>1. SUFFICES ASSUME NEW path \in inside PROVE Last(path) \in Nat /\ path = Append(d, Last(path))
    OBVIOUS
  <2>2. path \in Seq(Nat) /\ path # <<>> /\ Front(path) = d
    BY <1>2
  <2>3. PICK s \in Seq(Nat), n \in Nat : path = Append(s, n)
    BY <2>2, SequenceEmptyOrAppend
  <2>4. Len(path) = Len(s) + 1 /\ Len(s) \in Nat /\ path[Len(s) + 1] = n
    BY <2>3, AppendProperties
  <2>5. Last(path) = n
    BY <2>4 DEF Last
  <2>6. Front(path) = s
    <3>1. Front(path) = SubSeq(path, 1, Len(s))
      BY <2>4 DEF Front
    <3>2. /\ SubSeq(path, 1, Len(s)) \in Seq(Nat) /\ Len(SubSeq(path, 1, Len(s))) = Len(s)
          /\ \A i \in 1..Len(s) : SubSeq(path, 1, Len(s))[i] = path[i]
      BY <2>2, <2>4
    <3>3. \A i \in 1..Len(s) : path[i] = s[i]
      BY <2>3, AppendProperties
    <3> QED BY <3>1, <3>2, <3>3, SeqEqual
  <2> QED BY <2>2, <2>3, <2>5, <2>6
<1>4. ASSUME NEW n \in Nat PROVE n \in Entries(t, d) <=> Append(d, n) \in DOMAIN t
  <2> DEFINE c == Append(d, n)
  <2>1. c \in Seq(Nat) /\ c # <<>> /\ Len(c) = Len(d) + 1 /\ Len(d) \in Nat
        /\ c[Len(d) + 1] = n /\ \A i \in 1..Len(d) : c[i] = d[i]
    BY AppendProperties
  <2> HIDE DEF c
  <2>2. Last(c) = n /\ Front(c) = d
    <3>1. Front(c) = SubSeq(c, 1, Len(d))
      BY <2>1 DEF Front
    <3>2. /\ SubSeq(c, 1, Len(d)) \in Seq(Nat) /\ Len(SubSeq(c, 1, Len(d))) = Len(d)
          /\ \A i \in 1..Len(d) : SubSeq(c, 1, Len(d))[i] = c[i]
      BY <2>1
    <3> QED BY <2>1, <3>1, <3>2, SeqEqual DEF Last
  <2>3. c \in DOMAIN t => n \in Entries(t, d)
    BY <1>1, <2>1, <2>2
  <2>4. n \in Entries(t, d) => c \in DOMAIN t
    BY <1>1, <1>3 DEF c
  <2> QED BY <2>3, <2>4 DEF c
<1>5. IsFiniteSet(inside)
  BY <1>2, FS_Subset
<1>6. f \in Surjection(inside, Entries(t, d))
  BY <1>1 DEF Surjection
<1>7. IsFiniteSet(Entries(t, d))
  BY <1>5, <1>6, FS_Surjection
<1> QED BY <1>1, <1>3, <1>4, <1>7

\* A listing that is not refused has every entry once, in whatever order they
\* were returned.
LEMMA ListingIs ==
    ASSUME NEW t \in Trees, NEW d \in Seq(Nat), NEW order \in SetToSeqs(Entries(t, d)), NEW room
    PROVE  /\ Len(order) = Cardinality(Entries(t, d)) /\ Len(order) \in Nat
           /\ Listing(order, room) = IF Cardinality(Entries(t, d)) > room THEN None
                                     ELSE Ascending(Entries(t, d))
           /\ Listing(order, room) # None =>
                 /\ Listing(order, room) \in Seq(Nat)
                 /\ ToSet(Listing(order, room)) = Entries(t, d)
                 /\ \A i, j \in DOMAIN Listing(order, room) :
                       Listing(order, room)[i] = Listing(order, room)[j] => i = j
<1> DEFINE E == Entries(t, d)
<1>1. IsFiniteSet(E) /\ E \in SUBSET Nat
  BY EntriesAre
<1>2. Len(order) = Cardinality(E) /\ Cardinality(E) \in Nat /\ ToSet(order) = E
  BY <1>1, OrderHasAll
<1>3. Ascending(E) \in SetToSeqs(E)
  BY <1>1, AscendingOrders
<1>4. /\ Ascending(E) \in Seq(E) /\ ToSet(Ascending(E)) = E
      /\ \A i, j \in DOMAIN Ascending(E) : Ascending(E)[i] = Ascending(E)[j] => i = j
  BY <1>1, <1>3, OrderHasAll
<1>5. Ascending(E) \in Seq(Nat)
  BY <1>1, <1>4, SeqMonotonic
<1>6. Listing(order, room) = IF Cardinality(E) > room THEN None ELSE Ascending(E)
  BY <1>2 DEF Listing
<1> HIDE DEF E
<1>7. Listing(order, room) # None => Listing(order, room) = Ascending(E)
  BY <1>6
<1> QED BY <1>2, <1>4, <1>5, <1>6, <1>7 DEF E

\* The children of a directory that are visited, and those that are taken.
LEMMA ChildrenAre ==
    ASSUME NEW t, NEW d \in Seq(Nat), NEW names \in Seq(Nat),
           \A i, j \in DOMAIN names : names[i] = names[j] => i = j
    PROVE  LET dirs  == ChildDirectories(t, d, names)
               files == RegularFiles(t, d, names)
           IN  /\ dirs \in Seq(Seq(Nat)) /\ IsInjective(dirs)
               /\ files \in Seq(Seq(Nat)) /\ IsInjective(files)
               /\ \A path : path \in ToSet(dirs) <=>
                     \E n \in ToSet(names) : /\ path = Append(d, n) /\ n \notin ExcludedNames
                                             /\ t[path].kind \in {"dir", "closed"}
               /\ \A path : path \in ToSet(files) <=>
                     \E n \in ToSet(names) : /\ path = Append(d, n) /\ t[path].kind = "file"
                                             /\ n \notin ExcludedNames \cup SecretNames
<1> DEFINE visited == {i \in DOMAIN names : /\ t[Append(d, names[i])].kind \in {"dir", "closed"}
                                            /\ names[i] \notin ExcludedNames}
           taken == {i \in DOMAIN names : /\ t[Append(d, names[i])].kind = "file"
                                          /\ names[i] \notin ExcludedNames \cup SecretNames}
<1>1. ChildDirectories(t, d, names) = PathsOf(d, names, visited)
  BY DEF ChildDirectories
<1>2. RegularFiles(t, d, names) = PathsOf(d, names, taken)
  BY DEF RegularFiles
<1>3. visited \in SUBSET DOMAIN names /\ taken \in SUBSET DOMAIN names
  OBVIOUS
<1> DEFINE dirs == PathsOf(d, names, visited)
           files == PathsOf(d, names, taken)
<1>4. /\ dirs \in Seq(Seq(Nat)) /\ IsInjective(dirs)
      /\ ToSet(dirs) = {Append(d, names[i]) : i \in visited}
  <2> HIDE DEF visited
  <2> QED BY <1>3, PathsOfAre
<1>5. /\ files \in Seq(Seq(Nat)) /\ IsInjective(files)
      /\ ToSet(files) = {Append(d, names[i]) : i \in taken}
  <2> HIDE DEF taken
  <2> QED BY <1>3, PathsOfAre
<1> HIDE DEF dirs, files
<1>6. \A path : path \in ToSet(dirs) <=>
         \E n \in ToSet(names) : /\ path = Append(d, n) /\ n \notin ExcludedNames
                                 /\ t[path].kind \in {"dir", "closed"}
  BY <1>4 DEF ToSet
<1>7. \A path : path \in ToSet(files) <=>
         \E n \in ToSet(names) : /\ path = Append(d, n) /\ t[path].kind = "file"
                                 /\ n \notin ExcludedNames \cup SecretNames
  BY <1>5 DEF ToSet
<1> QED BY <1>1, <1>2, <1>4, <1>5, <1>6, <1>7 DEF dirs, files


-----------------------------------------------------------------------------
(* One directory more.                                                     *)

LEMMA WayIsThere ==
    ASSUME NEW t \in Trees, NEW x \in DOMAIN t, NEW d \in Seq(Nat), IsPrefix(d, x), d # x
    PROVE  d \in DOMAIN t /\ t[d].kind \in {"dir", "closed"}
<1>1. x \in Seq(Nat)
  BY TreesAssumption
<1>2. /\ Len(d) \in Nat /\ Len(x) \in Nat /\ Len(d) <= Len(x)
      /\ \A i \in 1..Len(d) : d[i] = x[i]
  BY <1>1, PrefixMeans
<1>3. Len(d) # Len(x)
  BY <1>1, <1>2, SeqEqual
<1>4. Len(d) \in 0..(Len(x) - 1)
  BY <1>2, <1>3
<1>5. SubSeq(x, 1, Len(d)) = d
  <2>1. /\ SubSeq(x, 1, Len(d)) \in Seq(Nat) /\ Len(SubSeq(x, 1, Len(d))) = Len(d)
        /\ \A i \in 1..Len(d) : SubSeq(x, 1, Len(d))[i] = x[i]
    BY <1>1, <1>2
  <2> QED BY <1>2, <2>1, SeqEqual
<1> QED BY <1>4, <1>5, TreesAssumption

\* The last of what is pending overlaps with nothing before it.
LEMMA LastIsApart ==
    ASSUME NEW pending \in Seq(Seq(Nat)), pending # <<>>,
           \A i, j \in DOMAIN pending : IsPrefix(pending[i], pending[j]) => i = j
    PROVE  /\ \A e \in ToSet(Front(pending)) :
                 ~IsPrefix(e, Last(pending)) /\ ~IsPrefix(Last(pending), e)
           /\ \A i, j \in DOMAIN Front(pending) :
                 IsPrefix(Front(pending)[i], Front(pending)[j]) => i = j
<1>1. /\ Len(pending) \in DOMAIN pending
      /\ \A i \in DOMAIN Front(pending) :
            i \in DOMAIN pending /\ i # Len(pending) /\ Front(pending)[i] = pending[i]
  BY FrontParts
<1> QED BY <1>1 DEF Last, ToSet

\* The directory is gone.
LEMMA SkippingCovers ==
    ASSUME NEW t \in Trees, NEW pending \in Seq(Seq(Nat)), pending # <<>>,
           NEW found \in Seq(Seq(Nat)), NEW cut,
           Covers(pending, found, t, cut), ~Is(t, Last(pending), "dir")
    PROVE  Covers(Front(pending), found, t, cut)
<1> DEFINE d == Last(pending)
<1>1. /\ d \in Seq(Nat) /\ ToSet(pending) = ToSet(Front(pending)) \cup {d}
  BY FrontParts
<1>2. d \notin DOMAIN t
  BY <1>1 DEF Covers, Is
<1>3. \A path \in Observable(t) : ~IsPrefix(d, path)
  BY <1>1, <1>2, WayIsThere DEF Observable
<1>4. \A i, j \in DOMAIN Front(pending) : IsPrefix(Front(pending)[i], Front(pending)[j]) => i = j
  BY LastIsApart DEF Covers
<1> HIDE DEF d
<1> QED BY <1>1, <1>3, <1>4 DEF Covers

\* The scan ends, with all that was found or with the first of it.
LEMMA EndingCovers ==
    ASSUME NEW t, NEW pending, NEW found, NEW cut, Covers(pending, found, t, cut)
    PROVE  /\ pending = <<>> => Covers(<<>>, found, t, cut)
           /\ Covers(<<>>, found, t, TRUE)
<1> DEFINE none == <<>>
<1>1. DOMAIN none = {} /\ ToSet(none) = {}
  BY DEF ToSet
<1> HIDE DEF none
<1>2. Covers(none, found, t, TRUE)
  BY <1>1 DEF Covers
<1> QED BY <1>2 DEF none

LEMMA CuttingCovers ==
    ASSUME NEW t, NEW found \in Seq(Seq(Nat)), NEW k \in Nat, k <= Len(found), IsInjective(found)
    PROVE  Covers(<<>>, SubSeq(found, 1, k), t, TRUE)
<1> DEFINE none == <<>>
           first == SubSeq(found, 1, k)
<1>1. DOMAIN none = {} /\ ToSet(none) = {}
  BY DEF ToSet
<1>2. first \in Seq(Seq(Nat)) /\ Len(first) = k /\ \A i \in 1..k : first[i] = found[i]
  OBVIOUS
<1>3. DOMAIN first = 1..k /\ DOMAIN found = 1..Len(found) /\ Len(found) \in Nat
  BY <1>2
<1> HIDE DEF none, first
<1>4. IsInjective(first)
  <2>1. \A i \in 1..k : i \in DOMAIN found
    BY <1>3
  <2> QED BY <1>2, <1>3, <2>1 DEF IsInjective
<1>5. Covers(none, first, t, TRUE)
  BY <1>1, <1>4 DEF Covers
<1> QED BY <1>5 DEF none, first

\* A directory gives way to its children.
LEMMA ScanningCovers ==
    ASSUME NEW t \in Trees, Readable(t), NEW pending \in Seq(Seq(Nat)), pending # <<>>,
           NEW found \in Seq(Seq(Nat)), NEW cut, NEW names \in Seq(Nat),
           Covers(pending, found, t, cut), Is(t, Last(pending), "dir"),
           ToSet(Last(pending)) \cap ExcludedNames = {},
           ToSet(names) = Entries(t, Last(pending)),
           \A i, j \in DOMAIN names : names[i] = names[j] => i = j
    PROVE  LET dirs  == ChildDirectories(t, Last(pending), names)
               files == RegularFiles(t, Last(pending), names)
           IN  Covers(Front(pending) \o Reverse(dirs), found \o files, t, cut)
<1> DEFINE d == Last(pending)
           front == Front(pending)
           dirs == ChildDirectories(t, d, names)
           files == RegularFiles(t, d, names)
           back == Reverse(dirs)
           at(n) == Append(d, n)
           child(path) == \E n \in Nat : path = at(n) /\ path \in DOMAIN t
<1>1. /\ d \in Seq(Nat) /\ front \in Seq(Seq(Nat))
      /\ ToSet(pending) = ToSet(front) \cup {d}
      /\ \A e \in ToSet(front) : e \in Seq(Nat)
  <2>1. /\ d \in Seq(Nat) /\ front \in Seq(Seq(Nat))
        /\ ToSet(pending) = ToSet(front) \cup {d}
    BY FrontParts
  <2> HIDE DEF front
  <2> QED BY <2>1, ElementsAre
<1>2. /\ dirs \in Seq(Seq(Nat)) /\ IsInjective(dirs) /\ files \in Seq(Seq(Nat)) /\ IsInjective(files)
      /\ \A path : path \in ToSet(dirs) <=>
            \E n \in ToSet(names) : /\ path = at(n) /\ n \notin ExcludedNames
                                    /\ t[path].kind \in {"dir", "closed"}
      /\ \A path : path \in ToSet(files) <=>
            \E n \in ToSet(names) : /\ path = at(n) /\ t[path].kind = "file"
                                    /\ n \notin ExcludedNames \cup SecretNames
  BY <1>1, ChildrenAre
<1>3. \A n : n \in ToSet(names) <=> n \in Nat /\ at(n) \in DOMAIN t
  BY <1>1, EntriesAre
<1>p. \A n \in Nat : \A x \in Seq(Nat) :
         /\ at(n) \in Seq(Nat) /\ Last(at(n)) = n /\ at(n) # d /\ ~IsPrefix(at(n), d)
         /\ IsPrefix(at(n), x) => IsPrefix(d, x)
         /\ IsPrefix(x, at(n)) => x = at(n) \/ IsPrefix(x, d)
         /\ IsPrefix(d, at(n)) /\ ToSet(at(n)) = ToSet(d) \cup {n}
  <2>1. SUFFICES ASSUME NEW n \in Nat, NEW x \in Seq(Nat)
                 PROVE  /\ at(n) \in Seq(Nat) /\ Last(at(n)) = n /\ at(n) # d /\ ~IsPrefix(at(n), d)
                        /\ IsPrefix(at(n), x) => IsPrefix(d, x)
                        /\ IsPrefix(x, at(n)) => x = at(n) \/ IsPrefix(x, d)
                        /\ IsPrefix(d, at(n)) /\ ToSet(at(n)) = ToSet(d) \cup {n}
    OBVIOUS
  <2>2. /\ at(n) # d /\ ~IsPrefix(at(n), d)
        /\ IsPrefix(at(n), x) => IsPrefix(d, x)
        /\ IsPrefix(x, at(n)) => x = at(n) \/ IsPrefix(x, d)
        /\ IsPrefix(d, at(n))
    <3> HIDE DEF d
    <3> QED BY <1>1, PrefixOfPath
  <2>3. at(n) \in Seq(Nat) /\ Last(at(n)) = n /\ ToSet(at(n)) = ToSet(d) \cup {n}
    <3> HIDE DEF d
    <3> QED BY <1>1, LastOfPath
  <2> QED BY <2>2, <2>3
<1>4. /\ back \in Seq(Seq(Nat)) /\ ToSet(back) = ToSet(dirs)
      /\ \A i, j \in DOMAIN back : back[i] = back[j] => i = j
  <2>1. /\ back \in Seq(Seq(Nat)) /\ ToSet(back) = ToSet(dirs)
        /\ \A i, j \in DOMAIN back :
              /\ Len(dirs) - i + 1 \in DOMAIN dirs /\ back[i] = dirs[Len(dirs) - i + 1]
              /\ Len(dirs) - i + 1 = Len(dirs) - j + 1 => i = j
    BY <1>2, ReverseParts
  <2> HIDE DEF dirs, back
  <2> QED BY <1>2, <2>1 DEF IsInjective
<1>5. /\ \A e \in ToSet(front) : ~IsPrefix(e, d) /\ ~IsPrefix(d, e)
      /\ \A i, j \in DOMAIN front : IsPrefix(front[i], front[j]) => i = j
  BY LastIsApart DEF Covers
<1>6. t[d].kind = "dir" /\ d \in DOMAIN t
  BY DEF Is
<1> DEFINE after == front \o back
           all == found \o files
<1>7. /\ ToSet(after) = ToSet(front) \cup ToSet(dirs)
      /\ \A i \in DOMAIN after :
            \/ i \in DOMAIN front /\ after[i] = front[i]
            \/ i \notin DOMAIN front /\ i - Len(front) \in DOMAIN back /\ after[i] = back[i - Len(front)]
      /\ after \in Seq(Seq(Nat)) /\ Len(front) \in Nat
  <2>1. front \in Seq(Seq(Nat)) /\ back \in Seq(Seq(Nat)) /\ ToSet(back) = ToSet(dirs)
    BY <1>1, <1>4
  <2>2. Len(front) \in Nat
    BY <2>1
  <2> HIDE DEF front, back, dirs
  <2> QED BY <2>1, <2>2, ConcatParts
<1>8. /\ ToSet(all) = ToSet(found) \cup ToSet(files)
      /\ \A i \in DOMAIN all :
            \/ i \in DOMAIN found /\ all[i] = found[i]
            \/ i \notin DOMAIN found /\ i - Len(found) \in DOMAIN files /\ all[i] = files[i - Len(found)]
      /\ all \in Seq(Seq(Nat)) /\ Len(found) \in Nat
  <2>1. files \in Seq(Seq(Nat)) /\ Len(found) \in Nat
    BY <1>2
  <2> HIDE DEF files
  <2> QED BY <2>1, ConcatParts
<1>c. Covers(pending, found, t, cut)
  OBVIOUS
<1> HIDE DEF front, dirs, files, back, after, all, d, at
<1>9. \A path : path \in ToSet(dirs) => child(path)
  BY <1>2, <1>3
<1>10. \A path : path \in ToSet(files) => child(path)
  BY <1>2, <1>3
<1>11. \A path \in ToSet(found) : ~IsPrefix(d, path) /\ path \in Seq(Nat)
  BY <1>c, <1>1, ElementsAre DEF Covers
<1>12. \A path, e : child(path) /\ e \in ToSet(front) => ~IsPrefix(e, path) /\ ~IsPrefix(path, e)
  <2>1. SUFFICES ASSUME NEW n \in Nat, NEW e \in ToSet(front), at(n) \in DOMAIN t
                 PROVE  ~IsPrefix(e, at(n)) /\ ~IsPrefix(at(n), e)
    OBVIOUS
  <2>2. e \in Seq(Nat) /\ ~IsPrefix(e, d) /\ ~IsPrefix(d, e)
    BY <1>1, <1>5
  <2>3. e # at(n)
    BY <1>p, <2>2
  <2> QED BY <1>p, <2>2, <2>3
<1>13. \A path, e : child(path) /\ e \in ToSet(found) => path # e /\ ~IsPrefix(path, e)
  <2>1. SUFFICES ASSUME NEW n \in Nat, NEW e \in ToSet(found)
                 PROVE  at(n) # e /\ ~IsPrefix(at(n), e)
    OBVIOUS
  <2>2. e \in Seq(Nat) /\ ~IsPrefix(d, e)
    BY <1>11
  <2> QED BY <1>p, <2>2, SMTT(40)
<1>14. \A path, other : child(path) /\ child(other) /\ IsPrefix(path, other) => path = other
  <2>1. SUFFICES ASSUME NEW n \in Nat, NEW m \in Nat, IsPrefix(at(n), at(m))
                 PROVE  at(n) = at(m)
    OBVIOUS
  <2> QED BY <1>1, <1>p, <2>1
<1>15. IsInjective(all)
  <2>1. SUFFICES ASSUME NEW i \in DOMAIN all, NEW j \in DOMAIN all, all[i] = all[j] PROVE i = j
    BY DEF IsInjective
  <2>2. \A k \in DOMAIN found : found[k] \in ToSet(found)
    BY DEF ToSet
  <2>3. \A k \in DOMAIN files : files[k] \in ToSet(files)
    BY DEF ToSet
  <2>4. IsInjective(found) /\ IsInjective(files)
    BY <1>2, <1>c DEF Covers
  <2>5. CASE i \in DOMAIN found /\ j \in DOMAIN found
    BY <1>8, <2>1, <2>4, <2>5 DEF IsInjective
  <2>6. CASE i \notin DOMAIN found /\ j \notin DOMAIN found
    <3>1. i - Len(found) = j - Len(found)
      BY <1>8, <2>1, <2>4, <2>6 DEF IsInjective
    <3>2. i \in Int /\ j \in Int
      BY <1>8
    <3> QED BY <1>8, <3>1, <3>2
  <2>7. CASE i \in DOMAIN found <=> j \notin DOMAIN found
    BY <1>8, <1>10, <1>13, <2>1, <2>2, <2>3, <2>7
  <2> QED BY <2>5, <2>6, <2>7
<1>16. \A i, j \in DOMAIN after : IsPrefix(after[i], after[j]) => i = j
  <2>1. SUFFICES ASSUME NEW i \in DOMAIN after, NEW j \in DOMAIN after, IsPrefix(after[i], after[j])
                 PROVE  i = j
    OBVIOUS
  <2>2. \A k \in DOMAIN front : front[k] \in ToSet(front)
    BY DEF ToSet
  <2>3. \A k \in DOMAIN back : child(back[k])
    BY <1>4, <1>9 DEF ToSet
  <2>5. CASE i \in DOMAIN front /\ j \in DOMAIN front
    BY <1>5, <1>7, <2>1, <2>5
  <2>6. CASE i \notin DOMAIN front /\ j \notin DOMAIN front
    <3>1. i - Len(front) = j - Len(front)
      BY <1>4, <1>7, <1>14, <2>1, <2>3, <2>6
    <3>2. i \in Int /\ j \in Int
      BY <1>7
    <3> QED BY <1>7, <3>1, <3>2
  <2>7. CASE i \in DOMAIN front <=> j \notin DOMAIN front
    BY <1>7, <1>12, <2>1, <2>2, <2>3, <2>7
  <2> QED BY <2>5, <2>6, <2>7
<1>17. ASSUME NEW e \in ToSet(after)
       PROVE  /\ e \in DOMAIN t => t[e].kind = "dir"
              /\ \A path \in ToSet(all) : ~IsPrefix(e, path)
  <2>1. CASE e \in ToSet(front)
    <3>1. e \in DOMAIN t => t[e].kind = "dir"
      BY <1>1, <1>c, <2>1 DEF Covers
    <3>2. \A path \in ToSet(found) : ~IsPrefix(e, path)
      BY <1>1, <1>c, <2>1 DEF Covers
    <3>3. \A path \in ToSet(files) : ~IsPrefix(e, path)
      BY <1>10, <1>12, <2>1
    <3> QED BY <1>8, <3>1, <3>2, <3>3
  <2>2. CASE e \in ToSet(dirs)
    <3>1. e \in DOMAIN t /\ t[e].kind = "dir"
      BY <1>2, <1>9, <2>2 DEF Readable
    <3>2. \A path \in ToSet(found) : ~IsPrefix(e, path)
      BY <1>9, <1>13, <2>2
    <3>3. \A path \in ToSet(files) : ~IsPrefix(e, path)
      <4>1. SUFFICES ASSUME NEW path \in ToSet(files), IsPrefix(e, path) PROVE FALSE
        OBVIOUS
      <4>2. path = e
        BY <1>9, <1>10, <1>14, <2>2, <4>1
      <4>3. t[path].kind = "file"
        BY <1>2
      <4> QED BY <3>1, <4>2, <4>3
    <3> QED BY <1>8, <3>1, <3>2, <3>3
  <2> QED BY <1>7, <2>1, <2>2
<1>18. ASSUME NEW path \in ToSet(files) PROVE path \in Observable(t)
  <2>1. PICK n \in Nat : /\ path = at(n) /\ t[path].kind = "file"
                         /\ n \notin ExcludedNames \cup SecretNames /\ path \in DOMAIN t
    BY <1>2, <1>3
  <2>2. ToSet(path) = ToSet(d) \cup {n} /\ Last(path) = n
    BY <1>1, <1>p, <2>1
  <2>3. ToSet(d) \cap ExcludedNames = {}
    BY DEF d
  <2> QED BY <2>1, <2>2, <2>3 DEF Observable
<1>19. ASSUME ~cut, NEW path \in Observable(t), path \notin ToSet(all)
       PROVE  \E e \in ToSet(after) : IsPrefix(e, path)
  <2>1. PICK e \in ToSet(pending) : IsPrefix(e, path)
    BY <1>8, <1>c, <1>19 DEF Covers
  <2>2. CASE e \in ToSet(front)
    BY <1>7, <2>1, <2>2
  <2>3. CASE e = d
    <3>1. /\ path \in DOMAIN t /\ path \in Seq(Nat) /\ t[path].kind = "file"
          /\ ToSet(path) \cap ExcludedNames = {} /\ Last(path) \notin SecretNames
      BY TreesAssumption DEF Observable
    <3>2. d # path
      BY <1>6, <3>1
    <3>3. PICK n \in Nat : /\ IsPrefix(at(n), path) /\ n \in ToSet(path)
      BY <1>1, <2>1, <2>3, <3>1, <3>2, NextOnTheWay DEF at
    <3> DEFINE c == at(n)
    <3>4. c \in Seq(Nat) /\ Last(c) = n
      BY <1>1, <1>p
    <3> HIDE DEF c
    <3>5. n \notin ExcludedNames
      BY <3>1, <3>3
    <3>6. CASE c = path
      <4>1. n \in ToSet(names)
        BY <1>3, <3>1, <3>6 DEF c
      <4>2. path \in ToSet(files)
        BY <1>2, <3>1, <3>4, <3>5, <3>6, <4>1 DEF c
      <4> QED BY <1>8, <1>19, <4>2
    <3>7. CASE c # path
      <4>1. c \in DOMAIN t /\ t[c].kind \in {"dir", "closed"}
        BY <3>1, <3>3, <3>4, <3>7, WayIsThere DEF c
      <4>2. n \in ToSet(names)
        BY <1>3, <4>1 DEF c
      <4>3. c \in ToSet(dirs)
        BY <1>2, <3>5, <4>1, <4>2 DEF c
      <4> QED BY <1>7, <3>3, <4>3 DEF c
    <3> QED BY <3>6, <3>7
  <2> QED BY <1>1, <2>1, <2>2, <2>3
<1>20. Covers(after, all, t, cut)
  <2>1. ~cut => ToSet(found) \subseteq Observable(t)
    BY <1>c DEF Covers
  <2> QED BY <1>8, <1>15, <1>16, <1>17, <1>18, <1>19, <2>1 DEF Covers
<1> QED BY <1>20 DEF after, all, front, back, dirs, files, d

-----------------------------------------------------------------------------
(* What a step does to the pilot's part in the scan.                       *)

LEMMA LooksFields ==
    ASSUME TypeOK, NEW p \in Pilots, NEW f, DOMAIN f \subseteq PilotFields \ {"saw"},
           Sets(p, Looking(p) ++ f)
    PROVE  /\ \A q \in Pilots \ {p} : pilot'[q] = pilot[q]
           /\ pilot'[p].saw = pilot[p].saw \cup {tree}
           /\ \A x \in DOMAIN f : pilot'[p][x] = f[x]
           /\ \A x \in PilotFields \ (DOMAIN f \cup {"saw"}) : pilot'[p][x] = pilot[p][x]
<1> DEFINE look == Looking(p)
           all == look ++ f
<1>1. DOMAIN look = {"saw"} /\ look["saw"] = pilot[p].saw \cup {tree}
  BY DEF Looking
<1> HIDE DEF look
<1>2. /\ DOMAIN all = {"saw"} \cup DOMAIN f
      /\ all["saw"] = look["saw"]
      /\ \A x \in DOMAIN f : all[x] = f[x]
  <2>1. DOMAIN all = DOMAIN look \cup DOMAIN f
    BY OverrideDomain, Zenon
  <2>2. \A x \in DOMAIN look : all[x] = look[x]
    BY OverrideFirst, Zenon
  <2>3. \A x \in DOMAIN f \ DOMAIN look : all[x] = f[x]
    BY OverrideSecond, Zenon
  <2> QED BY <1>1, <2>1, <2>2, <2>3
<1>3. Sets(p, all)
  BY DEF look
<1> HIDE DEF all
<1>4. /\ \A q \in Pilots \ {p} : pilot'[q] = pilot[q]
      /\ \A x \in DOMAIN all : pilot'[p][x] = all[x]
      /\ \A x \in PilotFields \ DOMAIN all : pilot'[p][x] = pilot[p][x]
  BY <1>3, SetsFields
<1> QED BY <1>1, <1>2, <1>4

LEMMA ReturnedFields ==
    ASSUME NEW f, DOMAIN f \subseteq {"files", "files_truncated"}
    PROVE  /\ DOMAIN ScanReturned(f) = DOMAIN f \cup {"pc", "pending", "visited", "scanned"}
           /\ ScanReturned(f).pc = "stat" /\ ScanReturned(f).pending = <<>>
           /\ ScanReturned(f).visited = 0 /\ ScanReturned(f).scanned = 0
           /\ \A x \in DOMAIN f : ScanReturned(f)[x] = f[x]
<1> DEFINE rest == [pc |-> "stat", pending |-> <<>>, visited |-> 0, scanned |-> 0]
<1>1. /\ DOMAIN rest = {"pc", "pending", "visited", "scanned"}
      /\ rest.pc = "stat" /\ rest.pending = <<>> /\ rest.visited = 0 /\ rest.scanned = 0
  OBVIOUS
<1>2. ScanReturned(f) = f ++ rest
  BY DEF ScanReturned
<1> HIDE DEF rest
<1>3. DOMAIN (f ++ rest) = DOMAIN f \cup DOMAIN rest
  BY OverrideDomain, Zenon
<1>4. \A x \in DOMAIN f : (f ++ rest)[x] = f[x]
  BY OverrideFirst, Zenon
<1>5. \A x \in DOMAIN rest \ DOMAIN f : (f ++ rest)[x] = rest[x]
  BY OverrideSecond, Zenon
<1> QED BY <1>1, <1>2, <1>3, <1>4, <1>5

\* The pilot is through with reading, and past the claim of its run; what it
\* saw stays if it called a model.
LeavingStep(p) ==
    /\ \A q \in Pilots \ {p} : pilot'[q] = pilot[q]
    /\ pilot'[p].pc \notin Reading \cup {"observer"}
    /\ pilot'[p].model = pilot[p].model
    /\ pilot'[p].called = pilot[p].called \/ pilot[p].pc \in {"observer", "analyst"}
    /\ pilot'[p].called => pilot'[p].saw = pilot[p].saw
    /\ pilot'[p].pc = "analyst" => pilot'[p].called

LEMMA EndIsLeaving ==
    ASSUME TypeOK, NEW p \in Pilots, NEW status, NEW fields,
           DOMAIN fields \subseteq {"refused", "called", "saw"},
           "called" \in DOMAIN fields =>
              /\ pilot[p].pc \in {"observer", "analyst"}
              /\ "saw" \in DOMAIN fields /\ fields["saw"] = pilot[p].saw,
           "saw" \in DOMAIN fields => "called" \in DOMAIN fields,
           EndsWith(p, status, fields)
    PROVE  LeavingStep(p) /\ pilot'[p].pc = "ended"
<1> DEFINE end ==
      [pc |-> "ended", status |-> status, pending |-> <<>>, files |-> <<>>,
       visited |-> 0, scanned |-> 0, size |-> 0, remaining |-> 0, tokens |-> 0,
       saw |-> IF pilot[p].called THEN pilot[p].saw ELSE {},
       files_truncated |-> pilot[p].files_truncated /\ pilot[p].name # None,
       records |-> IF pilot[p].name = None THEN <<>> ELSE pilot[p].records,
       draft |-> IF pilot[p].name = None THEN None ELSE pilot[p].draft]
           all == fields ++ end
<1>1. Sets(p, all)
  BY DEF EndsWith
<1>2. /\ DOMAIN end = {"pc", "status", "pending", "files", "visited", "scanned", "size", "remaining",
                       "tokens", "saw", "files_truncated", "records", "draft"}
      /\ end.pc = "ended"
      /\ pilot[p].called => end.saw = pilot[p].saw
  OBVIOUS
<1> HIDE DEF end
<1>3. /\ DOMAIN all = DOMAIN fields \cup DOMAIN end
      /\ \A x \in DOMAIN fields : all[x] = fields[x]
      /\ \A x \in DOMAIN end \ DOMAIN fields : all[x] = end[x]
  <2>1. DOMAIN all = DOMAIN fields \cup DOMAIN end
    BY OverrideDomain, Zenon
  <2>2. \A x \in DOMAIN fields : all[x] = fields[x]
    BY OverrideFirst, SMTT(40)
  <2>3. \A x \in DOMAIN end \ DOMAIN fields : all[x] = end[x]
    BY OverrideSecond
  <2> QED BY <2>1, <2>2, <2>3
<1> HIDE DEF all
<1>4. /\ \A q \in Pilots \ {p} : pilot'[q] = pilot[q]
      /\ \A x \in DOMAIN all : pilot'[p][x] = all[x]
      /\ \A x \in PilotFields \ DOMAIN all : pilot'[p][x] = pilot[p][x]
  BY <1>1, SetsFields
<1>5. pilot'[p].pc = "ended" /\ pilot'[p].model = pilot[p].model
  <2>1. "pc" \in DOMAIN all /\ all["pc"] = "ended" /\ "model" \notin DOMAIN all
    BY <1>2, <1>3
  <2> QED BY <1>4, <2>1 DEF PilotFields
<1>6. CASE "called" \in DOMAIN fields
  <2>1. "saw" \in DOMAIN all /\ all["saw"] = pilot[p].saw
    BY <1>3, <1>6
  <2> QED BY <1>4, <1>5, <1>6, <2>1 DEF LeavingStep, Reading
<1>7. CASE "called" \notin DOMAIN fields
  <2>1. "saw" \in DOMAIN all /\ (pilot[p].called => all["saw"] = pilot[p].saw) /\ "called" \notin DOMAIN all
    BY <1>2, <1>3, <1>7
  <2>2. pilot'[p].called = pilot[p].called
    BY <1>4, <2>1 DEF PilotFields
  <2> QED BY <1>4, <1>5, <2>1, <2>2 DEF LeavingStep, Reading
<1> QED BY <1>6, <1>7

LEMMA EndsIsLeaving ==
    ASSUME TypeOK, NEW p \in Pilots, NEW status, Ends(p, status)
    PROVE  LeavingStep(p) /\ pilot'[p].pc = "ended"
<1> DEFINE none == <<>>
<1>1. DOMAIN none = {} /\ EndsWith(p, status, none)
  BY DEF Ends
<1> HIDE DEF none
<1> QED BY <1>1, EndIsLeaving

\* What is set next leaves what was seen alone.
LEMMA SetsIsLeaving ==
    ASSUME TypeOK, NEW p \in Pilots, NEW fields, Sets(p, fields),
           "pc" \in DOMAIN fields, fields["pc"] \in PilotStates \ (Reading \cup {"observer", "analyst"}),
           DOMAIN fields \cap {"model", "called", "saw"} = {}
    PROVE  LeavingStep(p)
<1>1. /\ \A q \in Pilots \ {p} : pilot'[q] = pilot[q]
      /\ \A x \in DOMAIN fields : pilot'[p][x] = fields[x]
      /\ \A x \in PilotFields \ DOMAIN fields : pilot'[p][x] = pilot[p][x]
  BY SetsFields
<1>2. /\ pilot'[p].model = pilot[p].model /\ pilot'[p].called = pilot[p].called
      /\ pilot'[p].saw = pilot[p].saw
  BY <1>1 DEF PilotFields
<1> QED BY <1>1, <1>2 DEF LeavingStep

LEMMA CallModelIsLeaving ==
    ASSUME TypeOK, NEW p \in Pilots, CallModel(p)
    PROVE  LeavingStep(p)
<1>1. pilot[p].pc \in {"observer", "analyst"}
  BY DEF CallModel
<1>2. PICK result : Takes(p, result)
  BY DEF CallModel
<1> DEFINE reasons == ModelResultReasons(result, Identity(p), Call)
           total == pilot[p].tokens + result.input_tokens + result.output_tokens
           called == [called |-> TRUE, saw |-> pilot[p].saw]
           refused == [refused |-> reasons]
           analyst == [pc |-> "analyst", tokens |-> total]
           compile == [pc |-> "compile", tokens |-> 0, draft |-> result.output]
<1>3. /\ DOMAIN called = {"called", "saw"} /\ called["saw"] = pilot[p].saw /\ called["called"] = TRUE
      /\ DOMAIN refused = {"refused"}
      /\ DOMAIN analyst = {"pc", "tokens"} /\ analyst["pc"] = "analyst"
      /\ DOMAIN compile = {"pc", "tokens", "draft"} /\ compile["pc"] = "compile"
  OBVIOUS
<1>4. \/ \E status : EndsWith(p, status, called)
      \/ EndsWith(p, "BLOCK", refused ++ called)
      \/ Sets(p, analyst ++ called)
      \/ Sets(p, compile)
  BY <1>2 DEF Takes
<1> HIDE DEF called, refused, analyst, compile, reasons
<1>5. CASE \E status : EndsWith(p, status, called)
  BY <1>1, <1>3, <1>5, EndIsLeaving
<1>6. CASE EndsWith(p, "BLOCK", refused ++ called)
  <2> DEFINE fields == refused ++ called
  <2>1. DOMAIN fields = DOMAIN refused \cup DOMAIN called
    BY OverrideDomain, Zenon
  <2>2. \A x \in DOMAIN called \ DOMAIN refused : fields[x] = called[x]
    BY OverrideSecond, Zenon
  <2>3. EndsWith(p, "BLOCK", fields)
    BY <1>6
  <2> HIDE DEF fields
  <2>4. DOMAIN fields = {"refused", "called", "saw"} /\ fields["saw"] = pilot[p].saw
    BY <1>3, <2>1, <2>2
  <2> QED BY <1>1, <2>3, <2>4, EndIsLeaving
<1>7. CASE Sets(p, analyst ++ called)
  <2> DEFINE fields == analyst ++ called
  <2>1. DOMAIN fields = DOMAIN analyst \cup DOMAIN called
    BY OverrideDomain, Zenon
  <2>2. \A x \in DOMAIN called \ DOMAIN analyst : fields[x] = called[x]
    BY OverrideSecond, Zenon
  <2>3. \A x \in DOMAIN analyst : fields[x] = analyst[x]
    BY OverrideFirst, Zenon
  <2>4. Sets(p, fields)
    BY <1>7
  <2> HIDE DEF fields
  <2>5. /\ DOMAIN fields = {"pc", "tokens", "called", "saw"} /\ fields["saw"] = pilot[p].saw
        /\ fields["pc"] = "analyst" /\ fields["called"] = TRUE
    BY <1>3, <2>1, <2>2, <2>3
  <2>6. /\ \A q \in Pilots \ {p} : pilot'[q] = pilot[q]
        /\ \A x \in DOMAIN fields : pilot'[p][x] = fields[x]
        /\ \A x \in PilotFields \ DOMAIN fields : pilot'[p][x] = pilot[p][x]
    BY <2>4, SetsFields
  <2>7. /\ pilot'[p].model = pilot[p].model /\ pilot'[p].pc = "analyst" /\ pilot'[p].called = TRUE
        /\ pilot'[p].saw = pilot[p].saw
    BY <2>5, <2>6 DEF PilotFields
  <2> QED BY <1>1, <2>6, <2>7 DEF LeavingStep, Reading
<1>8. CASE Sets(p, compile)
  <2>1. compile["pc"] \in PilotStates \ (Reading \cup {"observer", "analyst"})
    BY <1>3 DEF PilotStates, Reading, Unnamed
  <2> QED BY <1>3, <1>8, <2>1, SetsIsLeaving
<1> QED BY <1>4, <1>5, <1>6, <1>7, <1>8

\* The steps that follow the claim of the run.
Follows(p) ==
    \/ CallModel(p) \/ Expire(p) \/ Compile(p) \/ ClaimEffect(p)
    \/ StartWrite(p) \/ FinishWrite(p) \/ Publish(p) \/ WriteFails(p) \/ Settle(p) \/ Crash(p)

LEMMA FollowsIsLeaving ==
    ASSUME TypeOK, NEW p \in Pilots, Follows(p)
    PROVE  LeavingStep(p) /\ tree' = tree /\ runKeys' = runKeys
<1>1. \A pc \in {"write", "writing", "replace", "settle"} : Sets(p, [pc |-> pc]) => LeavingStep(p)
  <2>1. SUFFICES ASSUME NEW pc \in {"write", "writing", "replace", "settle"}, Sets(p, [pc |-> pc])
                 PROVE  LeavingStep(p)
    OBVIOUS
  <2> DEFINE fields == [pc |-> pc]
  <2>2. DOMAIN fields = {"pc"} /\ fields["pc"] = pc /\ Sets(p, fields)
    BY <2>1
  <2>3. pc \in PilotStates \ (Reading \cup {"observer", "analyst"})
    BY DEF PilotStates, Reading, Claimed
  <2> HIDE DEF fields
  <2> QED BY <2>2, <2>3, SetsIsLeaving
<1>2. \A name : Sets(p, [pc |-> "act", name |-> name]) => LeavingStep(p)
  <2>1. SUFFICES ASSUME NEW name, Sets(p, [pc |-> "act", name |-> name]) PROVE LeavingStep(p)
    OBVIOUS
  <2> DEFINE fields == [pc |-> "act", name |-> name]
  <2>2. DOMAIN fields = {"pc", "name"} /\ fields["pc"] = "act" /\ Sets(p, fields)
    BY <2>1
  <2>3. "act" \in PilotStates \ (Reading \cup {"observer", "analyst"})
    BY DEF PilotStates, Reading
  <2> HIDE DEF fields
  <2> QED BY <2>2, <2>3, SetsIsLeaving
<1>3. \A status : Ends(p, status) => LeavingStep(p)
  BY EndsIsLeaving
<1>4. tree' = tree /\ runKeys' = runKeys
  BY DEF Follows, CallModel, Expire, Compile, ClaimEffect, StartWrite, FinishWrite, Publish,
         WriteFails, Settle, Crash
<1>5. CASE CallModel(p)
  BY <1>4, <1>5, CallModelIsLeaving
<1>6. CASE Expire(p) \/ WriteFails(p) \/ Settle(p) \/ Crash(p)
  BY <1>3, <1>4, <1>6 DEF Expire, WriteFails, Settle, Crash
<1>7. CASE Compile(p)
  BY <1>2, <1>3, <1>4, <1>7 DEF Compile
<1>8. CASE ClaimEffect(p) \/ StartWrite(p) \/ FinishWrite(p) \/ Publish(p)
  BY <1>1, <1>3, <1>4, <1>8 DEF ClaimEffect, StartWrite, FinishWrite, Publish
<1> QED BY <1>5, <1>6, <1>7, <1>8 DEF Follows

-----------------------------------------------------------------------------
(* What a record says of a file.                                           *)

LEMMA LeastOfTwo ==
    ASSUME NEW m \in Nat, NEW n \in Nat
    PROVE  /\ Least({m, n}) \in {m, n} /\ Least({m, n}) \in Nat
           /\ Least({m, n}) <= m /\ Least({m, n}) <= n
<1>1. \E x \in {m, n} : \A y \in {m, n} : x <= y
  OBVIOUS
<1>2. Least({m, n}) \in {m, n} /\ \A y \in {m, n} : Least({m, n}) <= y
  BY <1>1 DEF Least
<1> QED BY <1>2

LEMMA PrefixIs ==
    ASSUME NEW S, NEW bytes \in Seq(S), NEW n \in Nat
    PROVE  /\ Prefix(bytes, n) \in Seq(S) /\ Len(Prefix(bytes, n)) <= n
           /\ Len(Prefix(bytes, n)) <= Len(bytes)
           /\ Len(bytes) <= n => Prefix(bytes, n) = bytes
           /\ Len(Prefix(bytes, n)) >= Len(bytes) => Prefix(bytes, n) = bytes
<1> DEFINE k == Least({n, Len(bytes)})
<1>1. Len(bytes) \in Nat
  OBVIOUS
<1>2. k \in {n, Len(bytes)} /\ k \in Nat /\ k <= n /\ k <= Len(bytes)
  BY <1>1, LeastOfTwo
<1>3. Prefix(bytes, n) = SubSeq(bytes, 1, k)
  BY DEF Prefix
<1> HIDE DEF k
<1>4. SubSeq(bytes, 1, k) \in Seq(S) /\ Len(SubSeq(bytes, 1, k)) = k
  BY <1>1, <1>2
<1>5. k = Len(bytes) => SubSeq(bytes, 1, k) = bytes
  BY SubSeqFull
<1> QED BY <1>1, <1>2, <1>3, <1>4, <1>5

LEMMA RecordIs ==
    ASSUME NEW S, NEW bytes \in Seq(S), NEW path, NEW size \in Nat, NEW remaining \in Nat
    PROVE  LET record == FileRecord(path, size, bytes, remaining)
           IN  /\ record.path = path /\ record.size = size
               /\ record.sha256_scope = "full" => record.sha256 = bytes
               /\ Excerpted(record) \in 0..remaining /\ Excerpted(record) <= MaxExcerptBytes
               /\ record.excerpt # None /\ ~record.excerpt_truncated /\ size = Len(bytes)
                     => record.excerpt = bytes
<1> DEFINE hashed == Prefix(bytes, MaxHashBytes)
           least == Least({MaxExcerptBytes, remaining})
           excerpt == Excerpt(hashed, remaining)
           base == [path |-> path, size |-> size, sha256 |-> hashed,
                    sha256_scope |-> IF Len(bytes) > MaxHashBytes THEN "prefix" ELSE "full"]
           text == Last(path) \in TextNames /\ remaining > 0
           more == IF text THEN [excerpt |-> excerpt, excerpt_truncated |-> Len(excerpt) < size]
                   ELSE [excerpt |-> None]
           record == base ++ more
<1>1. FileRecord(path, size, bytes, remaining) = record
  BY DEF FileRecord
<1>2. MaxHashBytes \in Nat /\ MaxExcerptBytes \in Nat /\ Len(bytes) \in Nat
  BY LimitsAssumption
<1>3. /\ hashed \in Seq(S) /\ Len(hashed) <= Len(bytes)
      /\ Len(bytes) <= MaxHashBytes => hashed = bytes
      /\ Len(hashed) >= Len(bytes) => hashed = bytes
  BY <1>2, PrefixIs
<1>4. least \in Nat /\ least <= MaxExcerptBytes /\ least <= remaining
  BY <1>2, LeastOfTwo
<1>5. excerpt = Prefix(hashed, least)
  BY DEF Excerpt
<1> HIDE DEF hashed, least, excerpt
<1>6. /\ excerpt \in Seq(S) /\ Len(excerpt) <= least /\ Len(excerpt) <= Len(hashed)
      /\ Len(excerpt) >= Len(hashed) => excerpt = hashed
  BY <1>3, <1>4, <1>5, PrefixIs
<1>7. /\ Len(excerpt) \in Nat /\ Len(hashed) \in Nat
      /\ Len(excerpt) >= Len(bytes) => excerpt = bytes
  <2>1. Len(excerpt) \in Nat /\ Len(hashed) \in Nat
    BY <1>3, <1>6
  <2> QED BY <1>2, <1>3, <1>6, <2>1
<1>8. /\ DOMAIN base = {"path", "size", "sha256", "sha256_scope"}
      /\ base.path = path /\ base.size = size /\ base.sha256 = hashed
      /\ base.sha256_scope = "full" => ~(Len(bytes) > MaxHashBytes)
  OBVIOUS
<1>9. \/ /\ DOMAIN more = {"excerpt", "excerpt_truncated"}
         /\ more.excerpt = excerpt /\ more.excerpt_truncated = (Len(excerpt) < size)
      \/ DOMAIN more = {"excerpt"} /\ more.excerpt = None
  OBVIOUS
<1> HIDE DEF base, more, text
<1>10. /\ \A x \in DOMAIN base : record[x] = base[x]
       /\ \A x \in DOMAIN more \ DOMAIN base : record[x] = more[x]
  <2>1. \A x \in DOMAIN base : (base ++ more)[x] = base[x]
    BY OverrideFirst, Zenon
  <2>2. \A x \in DOMAIN more \ DOMAIN base : (base ++ more)[x] = more[x]
    BY OverrideSecond, Zenon
  <2> QED BY <2>1, <2>2
<1> HIDE DEF record
<1>11. /\ record.path = path /\ record.size = size /\ record.sha256 = hashed
       /\ record.sha256_scope = "full" => ~(Len(bytes) > MaxHashBytes)
  BY <1>8, <1>10
<1>12. \/ record.excerpt = excerpt /\ record.excerpt_truncated = (Len(excerpt) < size)
       \/ record.excerpt = None
  BY <1>8, <1>9, <1>10
<1>13. record.sha256_scope = "full" => record.sha256 = bytes
  BY <1>2, <1>3, <1>11
<1>14. Excerpted(record) \in 0..remaining /\ Excerpted(record) <= MaxExcerptBytes
  <2>1. Excerpted(record) = 0 \/ Excerpted(record) = Len(excerpt)
    BY <1>12 DEF Excerpted
  <2> QED BY <1>2, <1>4, <1>6, <1>7, <2>1
<1>15. record.excerpt # None /\ ~record.excerpt_truncated /\ size = Len(bytes) => record.excerpt = bytes
  <2>1. size = Len(bytes) /\ ~(Len(excerpt) < size) => excerpt = bytes
    BY <1>2, <1>7
  <2> QED BY <1>12, <2>1, Zenon
<1> QED BY <1>1, <1>11, <1>13, <1>14, <1>15

LEMMA SpendsMore ==
    ASSUME NEW S, NEW records \in Seq(S), NEW record, NEW total \in Nat,
           Excerpted(record) \in Nat, Spends(records, total)
    PROVE  Spends(Append(records, record), total + Excerpted(record))
<1> DEFINE n == Len(records)
           all == Append(records, record)
           e == Excerpted(record)
<1>1. n \in Nat
  OBVIOUS
<1>2. /\ Len(all) = n + 1 /\ all[n + 1] = record
      /\ \A i \in 1..n : all[i] = records[i]
  <2>1. records \in Seq(S \cup {record}) /\ record \in S \cup {record}
    BY SeqMonotonic
  <2> QED BY <2>1, AppendProperties
<1>3. PICK spent \in [0..n -> 0..total] :
        /\ spent[0] = 0 /\ spent[n] = total
        /\ \A i \in 1..n : spent[i] = spent[i - 1] + Excerpted(records[i])
  BY DEF Spends
<1> DEFINE more == [i \in 0..(n + 1) |-> IF i = n + 1 THEN total + e ELSE spent[i]]
<1> HIDE DEF n, all, e
<1>4. e \in Nat
  BY DEF e
<1>5. more \in [0..(n + 1) -> 0..(total + e)]
  <2>1. \A i \in 0..n : spent[i] \in 0..(total + e)
    BY <1>1, <1>3, <1>4
  <2> QED BY <1>1, <1>4, <2>1
<1>6. more[0] = 0 /\ more[n + 1] = total + e
  BY <1>1, <1>3
<1>7. ASSUME NEW i \in 1..(n + 1)
      PROVE  more[i] = more[i - 1] + Excerpted(all[i])
  <2>1. CASE i = n + 1
    <3>1. more[i - 1] = total
      BY <1>1, <1>3, <2>1
    <3>2. Excerpted(all[i]) = e
      BY <1>2, <2>1 DEF e
    <3> QED BY <1>6, <2>1, <3>1, <3>2
  <2>2. CASE i \in 1..n
    <3>1. more[i] = spent[i] /\ more[i - 1] = spent[i - 1] /\ all[i] = records[i]
      BY <1>1, <1>2, <2>2
    <3> QED BY <1>3, <2>2, <3>1
  <2> QED BY <1>1, <2>1, <2>2
<1> HIDE DEF more
<1>8. Spends(all, total + e)
  BY <1>2, <1>5, <1>6, <1>7 DEF Spends
<1> QED BY <1>8 DEF all, e

LEMMA FunctionIsSequence ==
    ASSUME NEW S, NEW n \in Nat, NEW f \in [1..n -> S]
    PROVE  f \in Seq(S) /\ Len(f) = n
OBVIOUS

\* The file that was read first is the one that was to be read next.
LEMMA ReadingKeepsFound ==
    ASSUME NEW S, NEW records \in Seq(S), NEW record, NEW files \in Seq(Seq(Nat)), files # <<>>,
           record.path = Head(files)
    PROVE  Paths(Append(records, record)) \o Tail(files) = Paths(records) \o files
<1> DEFINE n == Len(records)
           m == Len(files)
           all == Append(records, record)
           old == Paths(records)
           new == Paths(all)
           rest == Tail(files)
           T == S \cup {record}
           P == {x.path : x \in T} \cup Seq(Nat)
<1>1. records \in Seq(T) /\ record \in T
  BY SeqMonotonic
<1>2. /\ all \in Seq(T) /\ Len(all) = n + 1 /\ all[n + 1] = record /\ n \in Nat
      /\ \A i \in 1..n : all[i] = records[i]
  BY <1>1, AppendProperties
<1>3. m \in Nat \ {0} /\ Head(files) = files[1]
  BY EmptySeq
<1>4. rest \in Seq(Seq(Nat)) /\ Len(rest) = m - 1 /\ \A i \in 1..(m - 1) : rest[i] = files[i + 1]
  BY HeadTailProperties
<1>5. DOMAIN records = 1..n /\ DOMAIN all = 1..(n + 1)
  BY <1>2
<1>6. \A i \in 1..n : records[i] \in T
  BY <1>1
<1>7. \A i \in 1..(n + 1) : all[i] \in T
  BY <1>2
<1>8. old = [i \in 1..n |-> records[i].path] /\ new = [i \in 1..(n + 1) |-> all[i].path]
  BY <1>5 DEF Paths
<1>9. /\ old \in Seq(P) /\ Len(old) = n /\ new \in Seq(P) /\ Len(new) = n + 1
  <2>1. \A x \in T : x.path \in P
    OBVIOUS
  <2> HIDE DEF P, T
  <2>2. old \in [1..n -> P] /\ new \in [1..(n + 1) -> P]
    BY <1>6, <1>7, <1>8, <2>1
  <2> HIDE DEF old, new, n, all
  <2> QED BY <1>2, <2>2, FunctionIsSequence
<1>10. files \in Seq(P) /\ rest \in Seq(P)
  <2>1. Seq(Nat) \subseteq P
    OBVIOUS
  <2> HIDE DEF P
  <2> QED BY <1>4, <2>1, SeqMonotonic
<1> HIDE DEF n, m, all, old, new, rest, P, T
<1>11. /\ new \o rest \in Seq(P) /\ Len(new \o rest) = (n + 1) + (m - 1)
       /\ \A i \in 1..((n + 1) + (m - 1)) :
             (new \o rest)[i] = IF i <= n + 1 THEN new[i] ELSE rest[i - (n + 1)]
  <2>1. /\ new \o rest \in Seq(P) /\ Len(new \o rest) = Len(new) + Len(rest)
        /\ \A i \in 1..(Len(new) + Len(rest)) :
              (new \o rest)[i] = IF i <= Len(new) THEN new[i] ELSE rest[i - Len(new)]
    BY <1>9, <1>10, ConcatProperties
  <2>2. Len(new) = n + 1 /\ Len(rest) = m - 1
    BY <1>4, <1>9
  <2> QED BY <2>1, <2>2
<1>12. /\ old \o files \in Seq(P) /\ Len(old \o files) = n + m
       /\ \A i \in 1..(n + m) : (old \o files)[i] = IF i <= n THEN old[i] ELSE files[i - n]
  BY <1>9, <1>10, ConcatProperties DEF m
<1>13. ASSUME NEW i \in 1..(n + m)
       PROVE  (new \o rest)[i] = (old \o files)[i]
  <2>0. i \in 1..((n + 1) + (m - 1))
    BY <1>2, <1>3
  <2>1. CASE i <= n
    <3>1. new[i] = old[i]
      BY <1>2, <1>8, <2>1
    <3>2. i <= n + 1
      BY <1>2, <2>1
    <3> QED BY <1>11, <1>12, <2>0, <2>1, <3>1, <3>2
  <2>2. CASE i = n + 1
    <3>1. new[i] = Head(files)
      BY <1>2, <1>8, <2>2
    <3>2. i - n = 1 /\ ~(i <= n)
      BY <1>2, <2>2
    <3>3. (old \o files)[i] = files[1]
      BY <1>12, <3>2
    <3>4. (new \o rest)[i] = new[i]
      BY <1>2, <1>11, <2>0, <2>2
    <3> QED BY <1>3, <3>1, <3>3, <3>4
  <2>3. CASE i > n + 1
    <3>1. i - (n + 1) \in 1..(m - 1) /\ (i - (n + 1)) + 1 = i - n
      BY <1>2, <1>3, <2>3
    <3>2. rest[i - (n + 1)] = files[i - n]
      BY <1>4, <3>1
    <3>3. ~(i <= n + 1) /\ ~(i <= n)
      BY <1>2, <2>3
    <3> QED BY <1>11, <1>12, <2>0, <3>2, <3>3
  <2>4. i <= n \/ i = n + 1 \/ i > n + 1
    <3>1. n \in Int /\ i \in Int
      BY <1>2
    <3> QED BY <3>1
  <2> QED BY <2>1, <2>2, <2>3, <2>4
<1>14. new \o rest = old \o files
  <2>1. (n + 1) + (m - 1) = n + m
    BY <1>2, <1>3
  <2> QED BY <1>11, <1>12, <1>13, <2>1, SeqEqual
<1> QED BY <1>14 DEF new, old, rest, all

\* Before the first file was read, and after the last.
LEMMA NothingRead ==
    ASSUME NEW files \in Seq(Seq(Nat))
    PROVE  Paths(<<>>) \o files = files
<1>1. Paths(<<>>) = <<>>
  BY DEF Paths
<1> QED BY <1>1, ConcatEmptySeq

LEMMA AllRead ==
    ASSUME NEW S, NEW records \in Seq(S)
    PROVE  Paths(records) \o <<>> = Paths(records)
<1> DEFINE P == {x.path : x \in S}
           n == Len(records)
<1>1. n \in Nat /\ DOMAIN records = 1..n /\ \A i \in 1..n : records[i].path \in P
  OBVIOUS
<1>2. Paths(records) = [i \in 1..n |-> records[i].path]
  BY <1>1 DEF Paths
<1> HIDE DEF P, n
<1>3. Paths(records) \in Seq(P)
  BY <1>1, <1>2
<1> QED BY <1>3, ConcatEmptySeq


\* The run is claimed and the models are asked, or it was claimed before.
ClaimingRun(p) ==
    /\ \A q \in Pilots \ {p} : pilot'[q] = pilot[q]
    /\ pilot'[p].pc = "observer" /\ pilot'[p].model = pilot[p].model
    /\ pilot'[p].called = pilot[p].called /\ pilot'[p].saw = pilot[p].saw
    /\ RunKey(p) \notin runKeys

LEMMA ClaimRunSteps ==
    ASSUME TypeOK, NEW p \in Pilots, ClaimRun(p)
    PROVE  /\ ClaimingRun(p) \/ LeavingStep(p)
           /\ pilot[p].pc = "claim" /\ tree' = tree /\ runKeys' = runKeys \cup {RunKey(p)}
<1>1. pilot[p].pc = "claim" /\ tree' = tree /\ runKeys' = runKeys \cup {RunKey(p)}
  BY DEF ClaimRun
<1>2. CASE RunKey(p) \in runKeys
  BY <1>1, <1>2, EndsIsLeaving DEF ClaimRun
<1>3. CASE RunKey(p) \notin runKeys
  <2> DEFINE fields == [pc |-> "observer", remaining |-> 0]
  <2>1. Sets(p, fields)
    BY <1>3 DEF ClaimRun
  <2>2. DOMAIN fields = {"pc", "remaining"} /\ fields["pc"] = "observer"
    OBVIOUS
  <2> HIDE DEF fields
  <2>3. /\ \A q \in Pilots \ {p} : pilot'[q] = pilot[q]
        /\ \A x \in DOMAIN fields : pilot'[p][x] = fields[x]
        /\ \A x \in PilotFields \ DOMAIN fields : pilot'[p][x] = pilot[p][x]
    BY <2>1, SetsFields
  <2> QED BY <1>1, <1>3, <2>2, <2>3 DEF ClaimingRun, PilotFields
<1> QED BY <1>1, <1>2, <1>3

-----------------------------------------------------------------------------
(* Reading, one look at a time.                                            *)

ScanFields == {"pc", "pending", "files", "visited", "scanned", "files_truncated", "size",
               "remaining", "records"}

\* n is s but for the fields of f.
After(s, f, n) ==
    /\ \A x \in DOMAIN f : n[x] = f[x]
    /\ \A x \in ScanFields \ DOMAIN f : n[x] = s[x]

\* What a process at s sets next, if it looks at tree t.
MayLook(s) == s.pc = "scan" /\ s.pending # <<>> /\ s.visited < MaxDirectories
Turned(t, s, f) ==
    \/ s.pc = "scan" /\ s.pending = <<>> /\ f = ScanReturned(<<>>)
    \/ /\ s.pc = "scan" /\ s.pending # <<>> /\ s.visited >= MaxDirectories
       /\ f = ScanReturned([files_truncated |-> TRUE])
    \/ MayLook(s) /\ ~Is(t, Last(s.pending), "dir") /\ f = Skipped(s)
    \/ /\ MayLook(s) /\ Is(t, Last(s.pending), "dir")
       /\ \E order \in SetToSeqs(Entries(t, Last(s.pending))) : f = Scanned(s, t, order)
    \/ s.pc = "stat" /\ s.files = <<>> /\ f = [pc |-> "claim"]
    \/ /\ s.pc = "stat" /\ s.files # <<>> /\ Head(s.files) \in DOMAIN t
       /\ f = [pc |-> "read", size |-> Len(t[Head(s.files)].bytes)]
    \/ s.pc = "read" /\ Is(t, Head(s.files), "file") /\ f = Recorded(s, t)

\* The pilot goes on reading; what it saw has the tree that it read.
ReadingStep(p) ==
    /\ \A q \in Pilots \ {p} : pilot'[q] = pilot[q]
    /\ pilot'[p].model = pilot[p].model /\ pilot'[p].called = pilot[p].called
    /\ pilot[p].saw \subseteq pilot'[p].saw
    /\ \E f : /\ After(pilot[p], f, pilot'[p])
              /\ Turned(tree, pilot[p], f)
              /\ \A t : pilot'[p].saw \subseteq {t} => Turned(t, pilot[p], f)

LEMMA TurnFields ==
    ASSUME NEW t, NEW s, NEW f, Turned(t, s, f)
    PROVE  DOMAIN f \subseteq ScanFields
<1>1. CASE \E g : DOMAIN g \subseteq {"files", "files_truncated"} /\ f = ScanReturned(g)
  <2>1. PICK g : DOMAIN g \subseteq {"files", "files_truncated"} /\ f = ScanReturned(g)
    BY <1>1
  <2>2. DOMAIN f = DOMAIN g \cup {"pc", "pending", "visited", "scanned"}
    BY <2>1, ReturnedFields
  <2> QED BY <2>1, <2>2 DEF ScanFields
<1>2. DOMAIN Skipped(s) \subseteq ScanFields
  BY DEF Skipped, ScanFields
<1>3. \A order : \/ \E g : /\ DOMAIN g \subseteq {"files", "files_truncated"}
                           /\ Scanned(s, t, order) = ScanReturned(g)
                 \/ DOMAIN Scanned(s, t, order) \subseteq ScanFields
  <2>1. SUFFICES ASSUME NEW order
                 PROVE  \/ \E g : /\ DOMAIN g \subseteq {"files", "files_truncated"}
                                  /\ Scanned(s, t, order) = ScanReturned(g)
                        \/ DOMAIN Scanned(s, t, order) \subseteq ScanFields
    OBVIOUS
  <2>2. DOMAIN [files_truncated |-> TRUE] \subseteq {"files", "files_truncated"}
    OBVIOUS
  <2>3. \A a : DOMAIN [files_truncated |-> TRUE, files |-> a] \subseteq {"files", "files_truncated"}
    OBVIOUS
  <2>4. \A a, b, c, d : DOMAIN [visited |-> a, files |-> b, scanned |-> c, pending |-> d]
                          \subseteq ScanFields
    BY DEF ScanFields
  <2> QED BY <2>2, <2>3, <2>4 DEF Scanned
<1>4. /\ DOMAIN [pc |-> "claim"] \subseteq ScanFields
      /\ \A a : DOMAIN [pc |-> "read", size |-> a] \subseteq ScanFields
      /\ DOMAIN Recorded(s, t) \subseteq ScanFields
  BY DEF ScanFields, Recorded
<1>5. \/ f \in {ScanReturned(<<>>), ScanReturned([files_truncated |-> TRUE]), Skipped(s),
                [pc |-> "claim"], Recorded(s, t)}
      \/ \E order : f = Scanned(s, t, order)
      \/ \E a : f = [pc |-> "read", size |-> a]
  BY DEF Turned
<1>6. /\ DOMAIN <<>> \subseteq {"files", "files_truncated"}
      /\ DOMAIN [files_truncated |-> TRUE] \subseteq {"files", "files_truncated"}
  <2>1. DOMAIN <<>> = {}
    OBVIOUS
  <2> QED BY <2>1
<1> QED BY <1>1, <1>2, <1>3, <1>4, <1>5, <1>6

LEMMA LookIsReading ==
    ASSUME TypeOK, NEW p \in Pilots, NEW f, Turned(tree, pilot[p], f), Sets(p, Looking(p) ++ f)
    PROVE  ReadingStep(p)
<1>1. DOMAIN f \subseteq ScanFields
  BY TurnFields
<1>2. ScanFields \subseteq PilotFields \ {"saw", "model", "called"}
  BY DEF ScanFields, PilotFields
<1>3. /\ \A q \in Pilots \ {p} : pilot'[q] = pilot[q]
      /\ pilot'[p].saw = pilot[p].saw \cup {tree}
      /\ \A x \in DOMAIN f : pilot'[p][x] = f[x]
      /\ \A x \in PilotFields \ (DOMAIN f \cup {"saw"}) : pilot'[p][x] = pilot[p][x]
  BY <1>1, <1>2, LooksFields
<1>4. After(pilot[p], f, pilot'[p])
  BY <1>2, <1>3 DEF After
<1>5. pilot'[p].model = pilot[p].model /\ pilot'[p].called = pilot[p].called
  BY <1>1, <1>2, <1>3 DEF PilotFields
<1>6. \A t : pilot'[p].saw \subseteq {t} => t = tree
  BY <1>3
<1> QED BY <1>3, <1>4, <1>5, <1>6 DEF ReadingStep

LEMMA MoveIsReading ==
    ASSUME TypeOK, NEW p \in Pilots, NEW f, \A t : Turned(t, pilot[p], f), Sets(p, f)
    PROVE  ReadingStep(p)
<1>1. DOMAIN f \subseteq ScanFields
  BY TurnFields
<1>2. ScanFields \subseteq PilotFields \ {"saw", "model", "called"}
  BY DEF ScanFields, PilotFields
<1>3. /\ \A q \in Pilots \ {p} : pilot'[q] = pilot[q]
      /\ \A x \in DOMAIN f : pilot'[p][x] = f[x]
      /\ \A x \in PilotFields \ DOMAIN f : pilot'[p][x] = pilot[p][x]
  BY SetsFields
<1>4. After(pilot[p], f, pilot'[p])
  BY <1>2, <1>3 DEF After
<1>5. /\ pilot'[p].model = pilot[p].model /\ pilot'[p].called = pilot[p].called
      /\ pilot'[p].saw = pilot[p].saw
  BY <1>1, <1>2, <1>3 DEF PilotFields
<1> QED BY <1>3, <1>4, <1>5 DEF ReadingStep

LEMMA ReadingSteps ==
    ASSUME TypeOK, NEW p \in Pilots,
           \/ ScanEnds(p) \/ SkipDirectory(p) \/ ScanDirectory(p) \/ StatFile(p) \/ ReadFile(p)
    PROVE  /\ ReadingStep(p) \/ LeavingStep(p)
           /\ pilot[p].pc \in {"scan", "stat", "read"} /\ tree' = tree /\ runKeys' = runKeys
<1> DEFINE s == pilot[p]
<1>1. pilot[p].pc \in {"scan", "stat", "read"} /\ tree' = tree /\ runKeys' = runKeys
  BY DEF ScanEnds, SkipDirectory, ScanDirectory, Visits, StatFile, ReadFile
<1>2. CASE ScanEnds(p)
  <2>1. PICK f : (\A t : Turned(t, s, f)) /\ Sets(p, f)
    <3>1. CASE s.pending = <<>>
      <4>1. s.pc = "scan" /\ Sets(p, ScanReturned(<<>>))
        BY <1>2, <3>1 DEF ScanEnds
      <4>2. \A t : Turned(t, s, ScanReturned(<<>>))
        BY <3>1, <4>1 DEF Turned
      <4> QED BY <4>1, <4>2
    <3>2. CASE s.pending # <<>>
      <4>1. /\ s.pc = "scan" /\ s.visited >= MaxDirectories
            /\ Sets(p, ScanReturned([files_truncated |-> TRUE]))
        BY <1>2, <3>2 DEF ScanEnds
      <4>2. \A t : Turned(t, s, ScanReturned([files_truncated |-> TRUE]))
        BY <3>2, <4>1 DEF Turned
      <4> QED BY <4>1, <4>2
    <3> QED BY <3>1, <3>2
  <2> QED BY <1>1, <2>1, MoveIsReading
<1>3. CASE SkipDirectory(p)
  <2>1. Turned(tree, s, Skipped(s)) /\ Sets(p, Looking(p) ++ Skipped(s))
    BY <1>3 DEF SkipDirectory, Visits, Turned, MayLook
  <2> QED BY <1>1, <2>1, LookIsReading
<1>4. CASE ScanDirectory(p)
  <2>1. PICK order \in SetToSeqs(Entries(tree, Last(s.pending))) :
          Sets(p, Looking(p) ++ Scanned(s, tree, order))
    BY <1>4 DEF ScanDirectory
  <2>2. Turned(tree, s, Scanned(s, tree, order))
    BY <1>4 DEF ScanDirectory, Visits, Turned, MayLook
  <2> QED BY <1>1, <2>1, <2>2, LookIsReading
<1>5. CASE StatFile(p)
  <2>1. CASE s.files = <<>>
    <3>1. (\A t : Turned(t, s, [pc |-> "claim"])) /\ Sets(p, [pc |-> "claim"])
      BY <1>5, <2>1 DEF StatFile, Turned
    <3> QED BY <1>1, <3>1, MoveIsReading
  <2>2. CASE s.files # <<>> /\ Head(s.files) \notin DOMAIN tree
    <3>1. Ends(p, "raised")
      BY <1>5, <2>2 DEF StatFile
    <3> QED BY <1>1, <3>1, EndsIsLeaving
  <2>3. CASE s.files # <<>> /\ Head(s.files) \in DOMAIN tree
    <3> DEFINE f == [pc |-> "read", size |-> Len(tree[Head(s.files)].bytes)]
    <3>1. Turned(tree, s, f) /\ Sets(p, Looking(p) ++ f)
      BY <1>5, <2>3 DEF StatFile, Turned
    <3> HIDE DEF f
    <3> QED BY <1>1, <3>1, LookIsReading
  <2> QED BY <2>1, <2>2, <2>3
<1>6. CASE ReadFile(p)
  <2>1. CASE Is(tree, Head(s.files), "file")
    <3>1. Turned(tree, s, Recorded(s, tree)) /\ Sets(p, Looking(p) ++ Recorded(s, tree))
      BY <1>6, <2>1 DEF ReadFile, Turned
    <3> QED BY <1>1, <3>1, LookIsReading
  <2>2. CASE ~Is(tree, Head(s.files), "file")
    <3>1. Ends(p, "raised")
      BY <1>6, <2>2 DEF ReadFile
    <3> QED BY <1>1, <3>1, EndsIsLeaving
  <2> QED BY <2>1, <2>2
<1> QED BY <1>1, <1>2, <1>3, <1>4, <1>5, <1>6


-----------------------------------------------------------------------------
(* What a look keeps.                                                      *)

\* In the scan nothing was read yet.
LEMMA FoundInScan ==
    ASSUME NEW s, s.records = <<>>, s.files \in Seq(Seq(Nat))
    PROVE  Found(s) = s.files
BY NothingRead DEF Found

\* Paths that may be shown.
Allowed(path) == ToSet(path) \cap ExcludedNames = {} /\ Last(path) \notin SecretNames

\* Only what is pending and what was found differ.
GoesOn(s, n) ==
    /\ n.pc \in {"scan", "stat"}
    /\ n.visited \in Nat /\ n.size = s.size /\ n.remaining = s.remaining /\ n.records = s.records
    /\ n.pending \in Seq(Seq(Nat))
    /\ n.pc # "scan" => n.pending = <<>>
    /\ n.files \in Seq(Seq(Nat)) /\ Len(n.files) <= MaxFiles
    /\ \A path \in ToSet(n.pending) : ToSet(path) \cap ExcludedNames = {}
    /\ \A path \in ToSet(n.files) : Allowed(path)

LEMMA StaysInScan ==
    ASSUME NEW s, s.pc = "scan", ScanIsBounded(s), NEW n, GoesOn(s, n)
    PROVE  ScanIsBounded(n) /\ Found(n) = n.files /\ Found(s) = s.files
           /\ s.pc \in Reading /\ n.pc \in Reading
<1>a. /\ n.pc \in {"scan", "stat"}
      /\ n.visited \in Nat /\ n.size = s.size /\ n.remaining = s.remaining /\ n.records = s.records
      /\ n.pending \in Seq(Seq(Nat)) /\ (n.pc # "scan" => n.pending = <<>>)
      /\ n.files \in Seq(Seq(Nat)) /\ Len(n.files) <= MaxFiles
      /\ \A path \in ToSet(n.pending) : ToSet(path) \cap ExcludedNames = {}
      /\ \A path \in ToSet(n.files) : Allowed(path)
  BY DEF GoesOn
<1>1. s.pc \in Reading /\ n.pc \in Reading
  BY <1>a DEF Reading
<1>2. /\ s.size \in Nat /\ s.remaining \in 0..MaxTotalExcerptBytes
      /\ s.records = <<>> /\ s.records \in Seq(ToSet(s.records)) /\ s.files \in Seq(Seq(Nat))
      /\ \A i \in DOMAIN s.records : Excerpted(s.records[i]) <= MaxExcerptBytes
      /\ Spends(s.records, MaxTotalExcerptBytes - s.remaining)
  BY <1>1 DEF ScanIsBounded
<1>3. Found(n) = n.files /\ Found(s) = s.files
  BY <1>a, <1>2, FoundInScan
<1>4. n.pc # "read" /\ n.pc # "claim"
  BY <1>a
<1>5. ScanIsBounded(n)
  BY <1>a, <1>1, <1>2, <1>3, <1>4 DEF ScanIsBounded, Allowed
<1> QED BY <1>1, <1>3, <1>5

\* What is bounded while a directory is scanned.
LEMMA BoundedInScan ==
    ASSUME NEW s, s.pc = "scan", ScanIsBounded(s)
    PROVE  /\ s.visited \in Nat /\ s.pending \in Seq(Seq(Nat)) /\ s.files \in Seq(Seq(Nat))
           /\ Len(s.files) <= MaxFiles /\ Found(s) = s.files /\ s.records = <<>>
           /\ \A path \in ToSet(s.pending) : ToSet(path) \cap ExcludedNames = {}
           /\ \A path \in ToSet(s.files) : Allowed(path)
           /\ s.pc \in Reading
<1>1. s.pc \in Reading
  BY DEF Reading
<1>2. s.records = <<>> /\ s.files \in Seq(Seq(Nat))
  BY <1>1 DEF ScanIsBounded
<1>3. Found(s) = s.files
  BY <1>2, FoundInScan
<1> QED BY <1>1, <1>2, <1>3 DEF ScanIsBounded, Allowed

LEMMA NothingPending == /\ ToSet(<<>>) = {} /\ <<>> \in Seq(Seq(Nat))
BY DEF ToSet

\* The scan returns with all that it found.
LEMMA ReturnKeeps ==
    ASSUME NEW t \in Trees, NEW s, s.pc = "scan", ScanIsBounded(s),
           NEW g, NEW n, After(s, ScanReturned(g), n),
           \/ s.pending = <<>> /\ g = <<>>
           \/ g = [files_truncated |-> TRUE]
    PROVE  ScanIsBounded(n) /\ (Readable(t) /\ ScanIsTrue(s, t) => ScanIsTrue(n, t))
<1>1. /\ s.visited \in Nat /\ s.pending \in Seq(Seq(Nat)) /\ s.files \in Seq(Seq(Nat))
      /\ Len(s.files) <= MaxFiles /\ Found(s) = s.files /\ s.records = <<>>
      /\ \A path \in ToSet(s.files) : Allowed(path)
      /\ s.pc \in Reading
  BY BoundedInScan
<1>2. \/ s.pending = <<>> /\ DOMAIN g = {}
      \/ DOMAIN g = {"files_truncated"} /\ g["files_truncated"] = TRUE
  <2>1. DOMAIN <<>> = {}
    OBVIOUS
  <2>2. DOMAIN [files_truncated |-> TRUE] = {"files_truncated"}
        /\ [files_truncated |-> TRUE]["files_truncated"] = TRUE
    OBVIOUS
  <2> QED BY <2>1, <2>2
<1> DEFINE f == ScanReturned(g)
<1>3. /\ DOMAIN f = DOMAIN g \cup {"pc", "pending", "visited", "scanned"}
      /\ f.pc = "stat" /\ f.pending = <<>> /\ f.visited = 0
      /\ \A x \in DOMAIN g : f[x] = g[x]
  BY <1>2, ReturnedFields
<1>4. After(s, f, n)
  OBVIOUS
<1> HIDE DEF f
<1>5. /\ n.pc = "stat" /\ n.pending = <<>> /\ n.visited = 0 /\ n.size = s.size
      /\ n.remaining = s.remaining /\ n.records = s.records /\ n.files = s.files
  BY <1>2, <1>3, <1>4 DEF After, ScanFields
<1>6. \/ s.pending = <<>> /\ n.files_truncated = s.files_truncated
      \/ n.files_truncated = TRUE
  BY <1>2, <1>3, <1>4 DEF After, ScanFields
<1>7. ScanIsBounded(n) /\ Found(n) = s.files /\ n.pc \in Reading
  <2>1. ToSet(n.pending) = {} /\ n.pending \in Seq(Seq(Nat))
    BY <1>5, NothingPending
  <2>2. /\ n.pc \in {"scan", "stat"} /\ n.visited \in Nat /\ n.files \in Seq(Seq(Nat))
        /\ n.pc # "scan" => n.pending = <<>>
        /\ Len(n.files) <= MaxFiles
        /\ \A path \in ToSet(n.pending) : ToSet(path) \cap ExcludedNames = {}
        /\ \A path \in ToSet(n.files) : Allowed(path)
    BY <1>1, <1>5, <2>1
  <2>3. n.size = s.size /\ n.remaining = s.remaining /\ n.records = s.records /\ n.files = s.files
    BY <1>5
  <2>4. GoesOn(s, n)
    BY <2>1, <2>2, <2>3 DEF GoesOn
  <2>5. Found(n) = n.files
    BY <2>4, StaysInScan
  <2> QED BY <2>3, <2>4, <2>5, StaysInScan
<1>8. ASSUME ScanIsTrue(s, t) PROVE ScanIsTrue(n, t)
  <2>1. Covers(s.pending, s.files, t, s.files_truncated)
    BY <1>1, <1>8 DEF ScanIsTrue
  <2>2. Covers(<<>>, s.files, t, n.files_truncated)
    <3>1. CASE s.pending = <<>> /\ n.files_truncated = s.files_truncated
      BY <2>1, <3>1
    <3>2. CASE n.files_truncated = TRUE
      BY <2>1, <3>2, EndingCovers
    <3> QED BY <1>6, <3>1, <3>2
  <2>3. \A i : i \notin DOMAIN <<>>
    OBVIOUS
  <2> QED BY <1>1, <1>5, <1>7, <2>2, <2>3 DEF ScanIsTrue
<1> QED BY <1>7, <1>8

LEMMA SkipKeeps ==
    ASSUME NEW t \in Trees, NEW s, ScanIsBounded(s), MayLook(s), ~Is(t, Last(s.pending), "dir"),
           NEW n, After(s, Skipped(s), n)
    PROVE  ScanIsBounded(n) /\ (Readable(t) /\ ScanIsTrue(s, t) => ScanIsTrue(n, t))
<1>0. s.pc = "scan" /\ s.pending # <<>>
  BY DEF MayLook
<1>1. /\ s.visited \in Nat /\ s.pending \in Seq(Seq(Nat)) /\ s.files \in Seq(Seq(Nat))
      /\ Len(s.files) <= MaxFiles /\ Found(s) = s.files /\ s.records = <<>>
      /\ \A path \in ToSet(s.pending) : ToSet(path) \cap ExcludedNames = {}
      /\ \A path \in ToSet(s.files) : Allowed(path)
      /\ s.pc \in Reading
  BY <1>0, BoundedInScan
<1>2. /\ n.pc = "scan" /\ n.pending = Front(s.pending) /\ n.visited = s.visited + 1
      /\ n.size = s.size /\ n.remaining = s.remaining /\ n.records = s.records
      /\ n.files = s.files /\ n.files_truncated = s.files_truncated
  BY <1>0 DEF After, Skipped, ScanFields
<1>3. Front(s.pending) \in Seq(Seq(Nat)) /\ ToSet(Front(s.pending)) \subseteq ToSet(s.pending)
  <2> DEFINE pending == s.pending
  <2>1. pending \in Seq(Seq(Nat)) /\ pending # <<>>
    BY <1>0, <1>1
  <2> HIDE DEF pending
  <2>2. Front(pending) \in Seq(Seq(Nat)) /\ ToSet(pending) = ToSet(Front(pending)) \cup {Last(pending)}
    BY <2>1, FrontParts
  <2> QED BY <2>2 DEF pending
<1>4. ScanIsBounded(n) /\ Found(n) = s.files /\ n.pc \in Reading
  <2>1. n.visited \in Nat /\ \A path \in ToSet(n.pending) : ToSet(path) \cap ExcludedNames = {}
    BY <1>1, <1>2, <1>3
  <2>2. /\ n.pc \in {"scan", "stat"} /\ n.files \in Seq(Seq(Nat))
        /\ n.pc # "scan" => n.pending = <<>>
        /\ Len(n.files) <= MaxFiles /\ n.pending \in Seq(Seq(Nat))
        /\ \A path \in ToSet(n.files) : Allowed(path)
    BY <1>1, <1>2, <1>3
  <2>3. GoesOn(s, n)
    BY <1>2, <2>1, <2>2 DEF GoesOn
  <2>4. Found(n) = n.files
    BY <1>0, <2>3, StaysInScan
  <2> QED BY <1>0, <1>2, <2>3, <2>4, StaysInScan
<1>5. ASSUME ScanIsTrue(s, t) PROVE ScanIsTrue(n, t)
  <2>1. Covers(s.pending, s.files, t, s.files_truncated)
    BY <1>1, <1>5 DEF ScanIsTrue
  <2>2. Covers(n.pending, Found(n), t, n.files_truncated)
    BY <1>0, <1>1, <1>2, <1>4, <2>1, SkippingCovers
  <2>3. \A i : i \notin DOMAIN <<>>
    OBVIOUS
  <2> QED BY <1>1, <1>2, <1>4, <2>2, <2>3 DEF ScanIsTrue
<1> QED BY <1>4, <1>5


LEMMA ScanKeeps ==
    ASSUME NEW t \in Trees, NEW s, ScanIsBounded(s), MayLook(s), Is(t, Last(s.pending), "dir"),
           NEW order \in SetToSeqs(Entries(t, Last(s.pending))),
           NEW n, After(s, Scanned(s, t, order), n)
    PROVE  ScanIsBounded(n) /\ (Readable(t) /\ ScanIsTrue(s, t) => ScanIsTrue(n, t))
<1>0. s.pc = "scan" /\ s.pending # <<>>
  BY DEF MayLook
<1>1. /\ s.visited \in Nat /\ s.pending \in Seq(Seq(Nat)) /\ s.files \in Seq(Seq(Nat))
      /\ Len(s.files) <= MaxFiles /\ Found(s) = s.files /\ s.records = <<>>
      /\ \A path \in ToSet(s.pending) : ToSet(path) \cap ExcludedNames = {}
      /\ \A path \in ToSet(s.files) : Allowed(path)
      /\ s.pc \in Reading
  BY <1>0, BoundedInScan
<1> DEFINE pending == s.pending
           d == Last(pending)
           room == Least({MaxEntries - s.scanned, MaxDirectoryEntries})
           names == Listing(order, room)
           dirs == ChildDirectories(t, d, names)
           more == RegularFiles(t, d, names)
           found == s.files \o more
           after == Front(pending) \o Reverse(dirs)
           cut == [files_truncated |-> TRUE]
           first == SubSeq(found, 1, MaxFiles)
           cutAt == [files_truncated |-> TRUE, files |-> first]
           next == [visited |-> s.visited + 1, files |-> found, scanned |-> s.scanned + Len(order),
                    pending |-> after]
<1>2. /\ Front(pending) \in Seq(Seq(Nat)) /\ d \in Seq(Nat)
      /\ ToSet(pending) = ToSet(Front(pending)) \cup {d}
  <2>1. pending \in Seq(Seq(Nat)) /\ pending # <<>>
    BY <1>0, <1>1
  <2> HIDE DEF pending
  <2> QED BY <2>1, FrontParts
<1>3. names # None =>
        /\ names \in Seq(Nat) /\ ToSet(names) = Entries(t, d)
        /\ \A i, j \in DOMAIN names : names[i] = names[j] => i = j
  <2> HIDE DEF room
  <2> QED BY <1>2, ListingIs
<1>4. Scanned(s, t, order) = IF names = None THEN ScanReturned(cut)
                             ELSE IF Len(found) > MaxFiles THEN ScanReturned(cutAt) ELSE next
  BY DEF Scanned
<1>5. CASE names = None
  <2>1. After(s, ScanReturned(cut), n)
    BY <1>4, <1>5
  <2> QED BY <1>0, <2>1, ReturnKeeps
<1>6. CASE names # None
  <2>1. /\ names \in Seq(Nat) /\ ToSet(names) = Entries(t, d)
        /\ \A i, j \in DOMAIN names : names[i] = names[j] => i = j
    BY <1>3, <1>6
  <2> HIDE DEF names
  <2>2. /\ dirs \in Seq(Seq(Nat)) /\ more \in Seq(Seq(Nat))
        /\ \A path : path \in ToSet(dirs) =>
              \E name \in ToSet(names) : path = Append(d, name) /\ name \notin ExcludedNames
        /\ \A path : path \in ToSet(more) =>
              \E name \in ToSet(names) : /\ path = Append(d, name)
                                         /\ name \notin ExcludedNames \cup SecretNames
    <3>1. /\ dirs \in Seq(Seq(Nat)) /\ more \in Seq(Seq(Nat))
          /\ \A path : path \in ToSet(dirs) <=>
                \E name \in ToSet(names) : /\ path = Append(d, name) /\ name \notin ExcludedNames
                                           /\ t[path].kind \in {"dir", "closed"}
          /\ \A path : path \in ToSet(more) <=>
                \E name \in ToSet(names) : /\ path = Append(d, name) /\ t[path].kind = "file"
                                           /\ name \notin ExcludedNames \cup SecretNames
      <4> HIDE DEF d
      <4> QED BY <1>2, <2>1, ChildrenAre
    <3> HIDE DEF d, dirs, more
    <3> QED BY <3>1
  <2>3. \A name \in ToSet(names) :
          /\ Last(Append(d, name)) = name
          /\ ToSet(Append(d, name)) = ToSet(d) \cup {name}
    <3>1. \A name \in ToSet(names) : name \in Nat
      BY <2>1, ElementsAre
    <3> HIDE DEF d
    <3> QED BY <1>2, <3>1, LastOfPath
  <2>4. ToSet(d) \cap ExcludedNames = {}
    BY <1>1, <1>2
  <2>5. \A path \in ToSet(dirs) : ToSet(path) \cap ExcludedNames = {}
    <3>1. SUFFICES ASSUME NEW path \in ToSet(dirs) PROVE ToSet(path) \cap ExcludedNames = {}
      OBVIOUS
    <3>2. PICK name \in ToSet(names) : path = Append(d, name) /\ name \notin ExcludedNames
      BY <2>2
    <3>3. ToSet(path) = ToSet(d) \cup {name}
      BY <2>3, <3>2
    <3> QED BY <2>4, <3>2, <3>3
  <2>6. \A path \in ToSet(more) : Allowed(path)
    <3>1. SUFFICES ASSUME NEW path \in ToSet(more) PROVE Allowed(path)
      OBVIOUS
    <3>2. PICK name \in ToSet(names) :
            path = Append(d, name) /\ name \notin ExcludedNames \cup SecretNames
      BY <2>2
    <3>3. ToSet(path) = ToSet(d) \cup {name} /\ Last(path) = name
      BY <2>3, <3>2
    <3> QED BY <2>4, <3>2, <3>3 DEF Allowed
  <2> HIDE DEF dirs, more
  <2>7. Reverse(dirs) \in Seq(Seq(Nat)) /\ ToSet(Reverse(dirs)) = ToSet(dirs)
    BY <2>2, ReverseParts
  <2>8. after \in Seq(Seq(Nat)) /\ ToSet(after) = ToSet(Front(pending)) \cup ToSet(dirs)
    <3> DEFINE front == Front(pending)
               back == Reverse(dirs)
    <3>1. front \in Seq(Seq(Nat)) /\ back \in Seq(Seq(Nat))
      BY <1>2, <2>7
    <3> HIDE DEF front, back
    <3>2. front \o back \in Seq(Seq(Nat)) /\ ToSet(front \o back) = ToSet(front) \cup ToSet(back)
      BY <3>1, ConcatParts
    <3> QED BY <2>7, <3>2 DEF front, back
  <2>9. found \in Seq(Seq(Nat)) /\ ToSet(found) = ToSet(s.files) \cup ToSet(more)
        /\ Len(found) \in Nat
    <3> DEFINE old == s.files
    <3>1. old \in Seq(Seq(Nat))
      BY <1>1
    <3> HIDE DEF old
    <3>2. old \o more \in Seq(Seq(Nat)) /\ ToSet(old \o more) = ToSet(old) \cup ToSet(more)
      BY <2>2, <3>1, ConcatParts
    <3>3. Len(old \o more) \in Nat
      BY <3>2
    <3> QED BY <3>2, <3>3 DEF old
  <2>10. \A path \in ToSet(found) : Allowed(path)
    BY <1>1, <2>6, <2>9
  <2>11. ASSUME Readable(t), ScanIsTrue(s, t)
         PROVE  Covers(after, found, t, s.files_truncated)
    <3>1. Covers(pending, s.files, t, s.files_truncated)
      BY <1>1, <2>11 DEF ScanIsTrue
    <3>2. Is(t, Last(pending), "dir") /\ ToSet(Last(pending)) \cap ExcludedNames = {}
      BY <2>4
    <3>3. pending \in Seq(Seq(Nat)) /\ pending # <<>> /\ ToSet(names) = Entries(t, Last(pending))
      BY <1>0, <1>1, <2>1
    <3> DEFINE old == s.files
               truncated == s.files_truncated
    <3>4. Covers(pending, old, t, truncated) /\ old \in Seq(Seq(Nat))
      BY <1>1, <3>1
    <3> HIDE DEF pending, old, truncated
    <3>5. Covers(Front(pending) \o Reverse(ChildDirectories(t, Last(pending), names)),
                 old \o RegularFiles(t, Last(pending), names), t, truncated)
      BY <2>1, <2>11, <3>2, <3>3, <3>4, ScanningCovers
    <3> QED BY <3>5 DEF old, truncated, dirs, more
  <2> HIDE DEF found, after
  <2>12. CASE Len(found) > MaxFiles
    <3>1. After(s, ScanReturned(cutAt), n)
      BY <1>4, <1>6, <2>12
    <3>2. DOMAIN cutAt = {"files_truncated", "files"}
          /\ cutAt["files_truncated"] = TRUE /\ cutAt["files"] = first
      OBVIOUS
    <3>3. MaxFiles \in Nat /\ MaxFiles <= Len(found)
      BY <2>9, <2>12, LimitsAssumption
    <3>4. /\ first \in Seq(Seq(Nat)) /\ Len(first) = MaxFiles
          /\ \A i \in 1..MaxFiles : first[i] = found[i]
      BY <2>9, <3>3
    <3>5. ToSet(first) \subseteq ToSet(found)
      <4>1. DOMAIN first = 1..MaxFiles /\ \A i \in 1..MaxFiles : i \in DOMAIN found
        BY <2>9, <3>3, <3>4
      <4> HIDE DEF first
      <4> QED BY <3>4, <4>1 DEF ToSet
    <3>c. IsInjective(found) => Covers(<<>>, first, t, TRUE)
      BY <2>9, <3>3, CuttingCovers
    <3> DEFINE f == ScanReturned(cutAt)
    <3> HIDE DEF cutAt, first
    <3>6. /\ DOMAIN f = {"files_truncated", "files", "pc", "pending", "visited", "scanned"}
          /\ f.pc = "stat" /\ f.pending = <<>> /\ f.visited = 0
          /\ f.files = first /\ f.files_truncated = TRUE
      BY <3>2, ReturnedFields, ZenonT(40)
    <3>7. After(s, f, n)
      BY <3>1
    <3> HIDE DEF f
    <3>8. /\ n.pc = "stat" /\ n.pending = <<>> /\ n.visited = 0 /\ n.size = s.size
          /\ n.remaining = s.remaining /\ n.records = s.records /\ n.files = first
          /\ n.files_truncated = TRUE
      BY <3>6, <3>7 DEF After, ScanFields
    <3>9. ScanIsBounded(n) /\ Found(n) = n.files /\ n.pc \in Reading
      <4>1. ToSet(n.pending) = {} /\ n.pending \in Seq(Seq(Nat))
        BY <3>8, NothingPending
      <4>2. /\ n.pc \in {"scan", "stat"} /\ n.visited \in Nat /\ n.files \in Seq(Seq(Nat))
            /\ n.pc # "scan" => n.pending = <<>>
            /\ Len(n.files) <= MaxFiles
            /\ \A path \in ToSet(n.pending) : ToSet(path) \cap ExcludedNames = {}
            /\ \A path \in ToSet(n.files) : Allowed(path)
        BY <2>10, <3>3, <3>4, <3>5, <3>8, <4>1
      <4>3. n.size = s.size /\ n.remaining = s.remaining /\ n.records = s.records
        BY <3>8
      <4>4. GoesOn(s, n)
        BY <4>1, <4>2, <4>3 DEF GoesOn
      <4> QED BY <1>0, <4>4, StaysInScan
    <3>10. ASSUME Readable(t), ScanIsTrue(s, t) PROVE ScanIsTrue(n, t)
      <4>1. IsInjective(found)
        BY <2>11, <3>10 DEF Covers
      <4>2. Covers(n.pending, Found(n), t, n.files_truncated)
        BY <3>8, <3>9, <3>c, <4>1
      <4>3. \A i : i \notin DOMAIN <<>>
        OBVIOUS
      <4> QED BY <1>1, <3>8, <3>9, <4>2, <4>3 DEF ScanIsTrue
    <3> QED BY <3>9, <3>10
  <2>13. CASE ~(Len(found) > MaxFiles)
    <3>1. After(s, next, n)
      BY <1>4, <1>6, <2>13
    <3>2. /\ DOMAIN next = {"visited", "files", "scanned", "pending"}
          /\ next["visited"] = s.visited + 1 /\ next["files"] = found /\ next["pending"] = after
      OBVIOUS
    <3> HIDE DEF next
    <3>3. /\ n.pc = "scan" /\ n.pending = after /\ n.visited = s.visited + 1
          /\ n.size = s.size /\ n.remaining = s.remaining /\ n.records = s.records
          /\ n.files = found /\ n.files_truncated = s.files_truncated
      BY <1>0, <3>1, <3>2 DEF After, ScanFields
    <3>4. ScanIsBounded(n) /\ Found(n) = n.files /\ n.pc \in Reading
      <4>1. /\ n.pc \in {"scan", "stat"} /\ n.visited \in Nat /\ n.files \in Seq(Seq(Nat))
            /\ n.pc # "scan" => n.pending = <<>>
            /\ n.pending \in Seq(Seq(Nat))
            /\ Len(n.files) <= MaxFiles
            /\ \A path \in ToSet(n.files) : Allowed(path)
        BY <1>1, <2>8, <2>9, <2>10, <2>13, <3>3, LimitsAssumption, SMTT(40)
      <4>2. \A path \in ToSet(n.pending) : ToSet(path) \cap ExcludedNames = {}
        BY <1>1, <1>2, <2>5, <2>8, <3>3
      <4>3. n.size = s.size /\ n.remaining = s.remaining /\ n.records = s.records
        BY <3>3
      <4>4. GoesOn(s, n)
        BY <4>1, <4>2, <4>3 DEF GoesOn
      <4> QED BY <1>0, <4>4, StaysInScan
    <3>5. ASSUME Readable(t), ScanIsTrue(s, t) PROVE ScanIsTrue(n, t)
      <4>1. Covers(n.pending, Found(n), t, n.files_truncated)
        BY <2>11, <3>3, <3>4, <3>5
      <4>2. \A i : i \notin DOMAIN <<>>
        OBVIOUS
      <4> QED BY <1>1, <3>3, <3>4, <4>1, <4>2 DEF ScanIsTrue
    <3> QED BY <3>4, <3>5
  <2> QED BY <2>12, <2>13
<1> QED BY <1>5, <1>6


\* Between two looks at files.
LEMMA BoundedOutOfScan ==
    ASSUME NEW s, s.pc \in {"stat", "read"}, ScanIsBounded(s)
    PROVE  /\ s.visited \in Nat /\ s.size \in Nat /\ s.remaining \in 0..MaxTotalExcerptBytes
           /\ s.pending = <<>> /\ s.files \in Seq(Seq(Nat))
           /\ s.records \in Seq(ToSet(s.records)) /\ Found(s) \in Seq(Seq(Nat))
           /\ s.pc = "read" => s.files # <<>>
           /\ Len(Found(s)) <= MaxFiles
           /\ \A path \in ToSet(Found(s)) : Allowed(path)
           /\ \A i \in DOMAIN s.records : Excerpted(s.records[i]) <= MaxExcerptBytes
           /\ Spends(s.records, MaxTotalExcerptBytes - s.remaining)
           /\ s.pc \in Reading
<1>1. s.pc \in Reading /\ s.pc # "scan"
  BY DEF Reading
<1>2. /\ s.visited \in Nat /\ s.size \in Nat /\ s.remaining \in 0..MaxTotalExcerptBytes
      /\ s.pending = <<>> /\ s.files \in Seq(Seq(Nat))
      /\ s.records \in Seq(ToSet(s.records)) /\ Found(s) \in Seq(Seq(Nat))
      /\ s.pc = "read" => s.files # <<>>
      /\ Len(Found(s)) <= MaxFiles
      /\ \A i \in DOMAIN s.records : Excerpted(s.records[i]) <= MaxExcerptBytes
      /\ Spends(s.records, MaxTotalExcerptBytes - s.remaining)
  BY <1>1 DEF ScanIsBounded
<1>3. \A path \in ToSet(Found(s)) : Allowed(path)
  BY <1>1 DEF ScanIsBounded, Allowed
<1> QED BY <1>1, <1>2, <1>3

\* What was found stays, but for a file that is a record now.
ReadsOn(s, n) ==
    /\ n.pc \in {"stat", "read", "claim"}
    /\ n.visited = s.visited /\ n.pending = s.pending /\ n.files_truncated = s.files_truncated
    /\ n.size \in Nat /\ n.remaining \in 0..MaxTotalExcerptBytes
    /\ n.files \in Seq(Seq(Nat)) /\ n.records \in Seq(ToSet(n.records))
    /\ n.pc = "read" => n.files # <<>>
    /\ n.pc = "claim" => n.files = <<>>
    /\ Found(n) = Found(s)
    /\ \A i \in DOMAIN n.records : Excerpted(n.records[i]) <= MaxExcerptBytes
    /\ Spends(n.records, MaxTotalExcerptBytes - n.remaining)

LEMMA StaysOutOfScan ==
    ASSUME NEW s, s.pc \in {"stat", "read"}, ScanIsBounded(s), NEW n, ReadsOn(s, n)
    PROVE  ScanIsBounded(n) /\ n.pc \in Reading
<1>1. /\ s.visited \in Nat /\ s.pending = <<>> /\ Found(s) \in Seq(Seq(Nat))
      /\ Len(Found(s)) <= MaxFiles
      /\ \A path \in ToSet(Found(s)) : Allowed(path)
  BY BoundedOutOfScan
<1>2. /\ n.pc \in {"stat", "read", "claim"}
      /\ n.visited = s.visited /\ n.pending = s.pending
      /\ n.size \in Nat /\ n.remaining \in 0..MaxTotalExcerptBytes
      /\ n.files \in Seq(Seq(Nat)) /\ n.records \in Seq(ToSet(n.records))
      /\ n.pc = "read" => n.files # <<>>
      /\ n.pc = "claim" => n.files = <<>>
      /\ Found(n) = Found(s)
      /\ \A i \in DOMAIN n.records : Excerpted(n.records[i]) <= MaxExcerptBytes
      /\ Spends(n.records, MaxTotalExcerptBytes - n.remaining)
  BY DEF ReadsOn
<1>3. n.pc \in Reading /\ n.pc # "scan"
  BY <1>2 DEF Reading
<1>4. ToSet(n.pending) = {} /\ n.pending \in Seq(Seq(Nat))
  BY <1>1, <1>2, NothingPending
<1>5. /\ n.visited \in Nat /\ Found(n) \in Seq(Seq(Nat)) /\ Len(Found(n)) <= MaxFiles
      /\ n.pending = <<>>
      /\ \A path \in ToSet(n.pending) \cup ToSet(Found(n)) : ToSet(path) \cap ExcludedNames = {}
      /\ \A path \in ToSet(Found(n)) : Last(path) \notin SecretNames
  <2>1. \A path \in ToSet(Found(n)) : Allowed(path)
    BY <1>1, <1>2
  <2> QED BY <1>1, <1>2, <1>4, <2>1 DEF Allowed
<1> QED BY <1>2, <1>3, <1>4, <1>5 DEF ScanIsBounded

LEMMA StatKeeps ==
    ASSUME NEW t \in Trees, NEW s, s.pc = "stat", ScanIsBounded(s), NEW f, NEW n, After(s, f, n),
           \/ s.files = <<>> /\ f = [pc |-> "claim"]
           \/ /\ s.files # <<>> /\ Head(s.files) \in DOMAIN t
              /\ f = [pc |-> "read", size |-> Len(t[Head(s.files)].bytes)]
    PROVE  ScanIsBounded(n) /\ (Readable(t) /\ ScanIsTrue(s, t) => ScanIsTrue(n, t))
<1>1. /\ s.visited \in Nat /\ s.size \in Nat /\ s.remaining \in 0..MaxTotalExcerptBytes
      /\ s.pending = <<>> /\ s.files \in Seq(Seq(Nat))
      /\ s.records \in Seq(ToSet(s.records))
      /\ \A i \in DOMAIN s.records : Excerpted(s.records[i]) <= MaxExcerptBytes
      /\ Spends(s.records, MaxTotalExcerptBytes - s.remaining)
      /\ s.pc \in Reading
  BY BoundedOutOfScan
<1>2. Head(s.files) \in DOMAIN t => Len(t[Head(s.files)].bytes) \in Nat
  BY TreesAssumption
<1>3. \/ /\ s.files = <<>> /\ n.pc = "claim" /\ n.size = s.size
      \/ /\ s.files # <<>> /\ n.pc = "read"
         /\ n.size = Len(t[Head(s.files)].bytes) /\ n.size \in Nat
  <2>1. CASE s.files = <<>> /\ f = [pc |-> "claim"]
    BY <2>1 DEF After, ScanFields
  <2>2. CASE /\ s.files # <<>> /\ Head(s.files) \in DOMAIN t
             /\ f = [pc |-> "read", size |-> Len(t[Head(s.files)].bytes)]
    BY <1>2, <2>2 DEF After, ScanFields
  <2> QED BY <2>1, <2>2
<1>4. DOMAIN f \subseteq {"pc", "size"}
  OBVIOUS
<1>5. /\ n.visited = s.visited /\ n.pending = s.pending /\ n.files_truncated = s.files_truncated
      /\ n.remaining = s.remaining /\ n.files = s.files /\ n.records = s.records
  BY <1>4 DEF After, ScanFields
<1>6. Found(n) = Found(s)
  BY <1>5 DEF Found
<1>7. ReadsOn(s, n)
  BY <1>1, <1>3, <1>5, <1>6 DEF ReadsOn
<1>8. ScanIsBounded(n) /\ n.pc \in Reading
  BY <1>7, StaysOutOfScan
<1>9. ASSUME ScanIsTrue(s, t) PROVE ScanIsTrue(n, t)
  BY <1>1, <1>3, <1>5, <1>6, <1>9 DEF ScanIsTrue
<1> QED BY <1>8, <1>9

LEMMA ReadKeeps ==
    ASSUME NEW t \in Trees, NEW s, s.pc = "read", ScanIsBounded(s), Is(t, Head(s.files), "file"),
           NEW n, After(s, Recorded(s, t), n)
    PROVE  ScanIsBounded(n) /\ (Readable(t) /\ ScanIsTrue(s, t) => ScanIsTrue(n, t))
<1>1. /\ s.visited \in Nat /\ s.size \in Nat /\ s.remaining \in 0..MaxTotalExcerptBytes
      /\ s.pending = <<>> /\ s.files \in Seq(Seq(Nat)) /\ s.files # <<>>
      /\ s.records \in Seq(ToSet(s.records))
      /\ \A i \in DOMAIN s.records : Excerpted(s.records[i]) <= MaxExcerptBytes
      /\ Spends(s.records, MaxTotalExcerptBytes - s.remaining)
      /\ s.pc \in Reading
  BY BoundedOutOfScan
<1> DEFINE path == Head(s.files)
           bytes == t[path].bytes
           record == FileRecord(path, s.size, bytes, s.remaining)
           used == IF record.excerpt = None THEN 0 ELSE Len(record.excerpt)
           f == [pc |-> "stat", files |-> Tail(s.files), size |-> 0,
                 records |-> Append(s.records, record), remaining |-> s.remaining - used]
<1>2. bytes \in Seq(ToSet(bytes))
  BY TreesAssumption DEF Is
<1>3. Recorded(s, t) = f /\ used = Excerpted(record)
  BY DEF Recorded, Excerpted
<1>4. MaxTotalExcerptBytes \in Nat
  BY LimitsAssumption
<1>5. /\ record.path = path /\ record.size = s.size
      /\ record.sha256_scope = "full" => record.sha256 = bytes
      /\ Excerpted(record) \in 0..s.remaining /\ Excerpted(record) <= MaxExcerptBytes
      /\ record.excerpt # None /\ ~record.excerpt_truncated /\ s.size = Len(bytes)
            => record.excerpt = bytes
  <2> DEFINE size == s.size
             remaining == s.remaining
  <2>1. size \in Nat /\ remaining \in Nat
    BY <1>1, <1>4
  <2> HIDE DEF bytes, path, size, remaining
  <2>2. LET made == FileRecord(path, size, bytes, remaining)
        IN  /\ made.path = path /\ made.size = size
            /\ made.sha256_scope = "full" => made.sha256 = bytes
            /\ Excerpted(made) \in 0..remaining /\ Excerpted(made) <= MaxExcerptBytes
            /\ made.excerpt # None /\ ~made.excerpt_truncated /\ size = Len(bytes)
                  => made.excerpt = bytes
    BY <1>2, <2>1, RecordIs
  <2> QED BY <2>2 DEF size, remaining
<1> HIDE DEF bytes, record, used
<1>6. /\ DOMAIN f = {"pc", "files", "size", "records", "remaining"}
      /\ f["pc"] = "stat" /\ f["files"] = Tail(s.files) /\ f["size"] = 0
      /\ f["records"] = Append(s.records, record) /\ f["remaining"] = s.remaining - used
  OBVIOUS
<1>7. After(s, f, n)
  BY <1>3
<1> HIDE DEF f
<1>8. /\ n.pc = "stat" /\ n.files = Tail(s.files) /\ n.size = 0
      /\ n.records = Append(s.records, record) /\ n.remaining = s.remaining - Excerpted(record)
      /\ n.visited = s.visited /\ n.pending = s.pending /\ n.files_truncated = s.files_truncated
  BY <1>3, <1>6, <1>7 DEF After, ScanFields
<1> DEFINE old == s.records
           new == Append(old, record)
<1>9. /\ new \in Seq(ToSet(new)) /\ DOMAIN new = 1..(Len(old) + 1) /\ DOMAIN old = 1..Len(old)
      /\ Len(old) \in Nat
      /\ \A i \in DOMAIN new : (i \in DOMAIN old /\ new[i] = old[i]) \/ new[i] = record
  <2>1. old \in Seq(ToSet(old) \cup {record}) /\ record \in ToSet(old) \cup {record}
    <3>1. old \in Seq(ToSet(old))
      BY <1>1
    <3> HIDE DEF old
    <3> QED BY <3>1, SeqMonotonic
  <2> DEFINE T == ToSet(old) \cup {record}
  <2> HIDE DEF old, T
  <2>2. /\ new \in Seq(T) /\ Len(new) = Len(old) + 1
        /\ \A i \in 1..Len(old) : new[i] = old[i]
        /\ new[Len(old) + 1] = record
        /\ Len(old) \in Nat /\ DOMAIN old = 1..Len(old)
    BY <2>1, AppendProperties DEF T
  <2> HIDE DEF new
  <2>3. DOMAIN new = 1..(Len(old) + 1)
    BY <2>2
  <2>4. new \in Seq(ToSet(new))
    <3>1. \A i \in 1..(Len(old) + 1) : new[i] \in ToSet(new)
      BY <2>3 DEF ToSet
    <3> QED BY <2>2, <2>3, <3>1
  <2>5. \A i \in DOMAIN new : i \in DOMAIN old \/ i = Len(old) + 1
    BY <2>2, <2>3
  <2> QED BY <2>2, <2>3, <2>4, <2>5
<1>10. Tail(s.files) \in Seq(Seq(Nat))
  BY <1>1, HeadTailProperties
<1>11. new \o <<>> = new
  OBVIOUS
<1>12. Found(n) = Found(s)
  <2> DEFINE files == s.files
  <2>1. files \in Seq(Seq(Nat)) /\ files # <<>> /\ record.path = Head(files)
        /\ old \in Seq(ToSet(old))
    BY <1>1, <1>5
  <2> HIDE DEF files, old
  <2>2. Paths(new) \o Tail(files) = Paths(old) \o files
    BY <2>1, ReadingKeepsFound
  <2> QED BY <1>8, <2>2 DEF Found, files, old
<1>13. Spends(new, MaxTotalExcerptBytes - n.remaining)
  <2> DEFINE total == MaxTotalExcerptBytes - s.remaining
  <2>1. total \in Nat /\ Spends(old, total) /\ old \in Seq(ToSet(old)) /\ Excerpted(record) \in Nat
    BY <1>1, <1>4, <1>5
  <2>2. MaxTotalExcerptBytes - n.remaining = total + Excerpted(record)
    BY <1>1, <1>4, <1>5, <1>8
  <2> HIDE DEF total, old
  <2>3. Spends(new, total + Excerpted(record))
    BY <2>1, SpendsMore
  <2> QED BY <2>2, <2>3
<1>14. n.remaining \in 0..MaxTotalExcerptBytes
  <2> DEFINE before == s.remaining
             spent == Excerpted(record)
  <2>1. before \in 0..MaxTotalExcerptBytes /\ spent \in 0..before
    BY <1>1, <1>5
  <2>2. n.remaining = before - spent
    BY <1>8
  <2> HIDE DEF before, spent
  <2>3. before - spent \in 0..MaxTotalExcerptBytes
    BY <1>4, <2>1
  <2> QED BY <2>2, <2>3
<1>15. \A i \in DOMAIN new : Excerpted(new[i]) <= MaxExcerptBytes
  BY <1>1, <1>5, <1>9
<1>16. ReadsOn(s, n)
  <2>1. n.records = new
    BY <1>8
  <2>2. n.records \in Seq(ToSet(n.records))
    BY <1>9, <2>1
  <2> HIDE DEF new
  <2> QED BY <1>8, <1>10, <1>12, <1>13, <1>14, <1>15, <2>1, <2>2 DEF ReadsOn
<1>17. ScanIsBounded(n) /\ n.pc \in Reading
  BY <1>16, StaysOutOfScan
<1>18. ASSUME ScanIsTrue(s, t) PROVE ScanIsTrue(n, t)
  <2>1. /\ Covers(s.pending, Found(s), t, s.files_truncated) /\ s.size = Len(bytes)
        /\ \A i \in DOMAIN old : IsRecordOf(old[i], t)
    BY <1>1, <1>18 DEF ScanIsTrue, bytes
  <2>2. IsRecordOf(record, t)
    BY <1>5, <2>1 DEF IsRecordOf, bytes
  <2>3. \A i \in DOMAIN new : IsRecordOf(new[i], t)
    BY <1>9, <2>1, <2>2
  <2>4. n.records = new
    BY <1>8
  <2> HIDE DEF new, old
  <2> QED BY <1>8, <1>12, <2>1, <2>3, <2>4 DEF ScanIsTrue
<1> QED BY <1>17, <1>18

\* Whatever a process sees next, what it found stays bounded, and true.
LEMMA TurnKeeps ==
    ASSUME NEW t \in Trees, NEW s, ScanIsBounded(s), NEW f, Turned(t, s, f), NEW n, After(s, f, n)
    PROVE  ScanIsBounded(n) /\ (Readable(t) /\ ScanIsTrue(s, t) => ScanIsTrue(n, t))
<1>1. CASE s.pc = "scan" /\ s.pending = <<>> /\ f = ScanReturned(<<>>)
  BY <1>1, ReturnKeeps
<1>2. CASE s.pc = "scan" /\ f = ScanReturned([files_truncated |-> TRUE])
  BY <1>2, ReturnKeeps
<1>3. CASE MayLook(s) /\ ~Is(t, Last(s.pending), "dir") /\ f = Skipped(s)
  BY <1>3, SkipKeeps
<1>4. CASE /\ MayLook(s) /\ Is(t, Last(s.pending), "dir")
           /\ \E order \in SetToSeqs(Entries(t, Last(s.pending))) : f = Scanned(s, t, order)
  BY <1>4, ScanKeeps
<1>5. CASE s.pc = "stat" /\ s.files = <<>> /\ f = [pc |-> "claim"]
  BY <1>5, StatKeeps
<1>6. CASE /\ s.pc = "stat" /\ s.files # <<>> /\ Head(s.files) \in DOMAIN t
           /\ f = [pc |-> "read", size |-> Len(t[Head(s.files)].bytes)]
  BY <1>6, StatKeeps
<1>7. CASE s.pc = "read" /\ Is(t, Head(s.files), "file") /\ f = Recorded(s, t)
  BY <1>7, ReadKeeps
<1> QED BY <1>1, <1>2, <1>3, <1>4, <1>5, <1>6, <1>7 DEF Turned


-----------------------------------------------------------------------------
(* Why snapshots tell the truth.                                           *)

LEMMA StartSnapshots == Init => SnapshotInv
<1> SUFFICES ASSUME Init PROVE SnapshotInv
  OBVIOUS
<1>1. PICK model \in [Pilots -> Models] :
        pilot = [p \in Pilots |->
                  [pc |-> "scan", model |-> model[p], pending |-> << <<>> >>, files |-> <<>>,
                   visited |-> 0, scanned |-> 0, files_truncated |-> FALSE, size |-> 0,
                   remaining |-> MaxTotalExcerptBytes, records |-> <<>>, tokens |-> 0,
                   draft |-> None, name |-> None, status |-> None,
                   saw |-> {}, called |-> FALSE, refused |-> {}]]
  BY DEF Init
<1>2. SUFFICES ASSUME NEW p \in Pilots
               PROVE  /\ ScanIsBounded(pilot[p])
                      /\ \A t \in Trees : Readable(t) => ScanIsTrue(pilot[p], t)
  BY DEF Init, SnapshotInv
<1> DEFINE s == pilot[p]
           none == <<>>
           root == << none >>
<1>3. /\ s.pc = "scan" /\ s.pending = root /\ s.files = none /\ s.visited = 0
      /\ s.files_truncated = FALSE /\ s.size = 0 /\ s.remaining = MaxTotalExcerptBytes
      /\ s.records = none
  BY <1>1
<1>4. DOMAIN none = {} /\ ToSet(none) = {} /\ Len(none) = 0
      /\ none \in Seq(Nat) /\ none \in Seq(Seq(Nat)) /\ none \in Seq({})
  BY DEF ToSet
<1>5. DOMAIN root = {1} /\ ToSet(root) = {none} /\ root[1] = none /\ root \in Seq(Seq(Nat))
  BY DEF ToSet
<1>6. MaxFiles \in Nat /\ MaxTotalExcerptBytes \in Nat
  BY LimitsAssumption
<1> HIDE DEF s, none, root
<1>7. Found(s) = none
  <2>1. s.records = <<>>
    BY <1>3 DEF none
  <2> QED BY <1>3, <1>4, <2>1, FoundInScan
<1>8. Spends(none, 0)
  <2> DEFINE spent == [i \in 0..0 |-> 0]
  <2>1. spent \in [0..0 -> 0..0] /\ spent[0] = 0
    OBVIOUS
  <2>2. \A i \in 1..0 : FALSE
    OBVIOUS
  <2> HIDE DEF spent
  <2> QED BY <1>4, <2>1, <2>2 DEF Spends
<1>9. ScanIsBounded(s)
  <2>1. MaxTotalExcerptBytes - s.remaining = 0 /\ s.remaining \in 0..MaxTotalExcerptBytes
    BY <1>3, <1>6
  <2>2. s.records = <<>>
    BY <1>3 DEF none
  <2>3. \A path \in ToSet(s.pending) \cup ToSet(Found(s)) : ToSet(path) \cap ExcludedNames = {}
    BY <1>3, <1>4, <1>5, <1>7
  <2>4. s.pc # "read" /\ s.pc # "claim"
    BY <1>3
  <2> QED BY <1>3, <1>4, <1>5, <1>6, <1>7, <1>8, <2>1, <2>2, <2>3, <2>4 DEF ScanIsBounded
<1>10. ASSUME NEW t \in Trees, Readable(t) PROVE ScanIsTrue(s, t)
  <2>1. IsInjective(none)
    BY <1>4 DEF IsInjective
  <2>2. none \in DOMAIN t => t[none].kind = "dir"
    BY <1>10, TreesAssumption DEF Readable, none
  <2>3. \A path \in Observable(t) : IsPrefix(none, path)
    <3>1. \A path \in Observable(t) : path \in Seq(Nat)
      BY TreesAssumption DEF Observable
    <3>2. \A path \in Seq(Nat) : IsPrefix(none, path)
      <4>1. SUFFICES ASSUME NEW path \in Seq(Nat) PROVE IsPrefix(none, path)
        OBVIOUS
      <4>2. Len(none) <= Len(path) /\ \A i \in 1..Len(none) : none[i] = path[i]
        BY <1>4
      <4> QED BY <1>4, <4>2, PrefixMeans
    <3> QED BY <3>1, <3>2
  <2>4. Covers(root, none, t, FALSE)
    BY <1>4, <1>5, <2>1, <2>2, <2>3 DEF Covers
  <2> QED BY <1>3, <1>4, <1>7, <2>4 DEF ScanIsTrue
<1> QED BY <1>9, <1>10 DEF s

LEMMA StepKeepsSnapshots ==
    ASSUME TypeOK, SnapshotInv, [Next]_vars
    PROVE  SnapshotInv'
<1> DEFINE Kept(p) == /\ ScanIsBounded(pilot'[p])
                      /\ \A t \in Trees : Readable(t) /\ pilot'[p].saw \subseteq {t}
                                             => ScanIsTrue(pilot'[p], t)
<1>1. tree \in Trees /\ \A p \in Pilots : pilot'[p] = pilot[p] => Kept(p)
  BY DEF SnapshotInv
<1>2. ASSUME NEW p \in Pilots, ReadingStep(p) PROVE Kept(p)
  <2>1. PICK f : /\ After(pilot[p], f, pilot'[p]) /\ Turned(tree, pilot[p], f)
                 /\ \A t : pilot'[p].saw \subseteq {t} => Turned(t, pilot[p], f)
    BY <1>2 DEF ReadingStep
  <2>2. ScanIsBounded(pilot[p]) /\ pilot[p].saw \subseteq pilot'[p].saw
    BY <1>2 DEF SnapshotInv, ReadingStep
  <2>3. ScanIsBounded(pilot'[p])
    BY <1>1, <2>1, <2>2, TurnKeeps
  <2>4. ASSUME NEW t \in Trees, Readable(t), pilot'[p].saw \subseteq {t}
        PROVE  ScanIsTrue(pilot'[p], t)
    <3>1. ScanIsTrue(pilot[p], t)
      BY <2>2, <2>4 DEF SnapshotInv
    <3>2. Turned(t, pilot[p], f)
      BY <2>1, <2>4
    <3> QED BY <2>1, <2>2, <2>4, <3>1, <3>2, TurnKeeps
  <2> QED BY <2>3, <2>4
<1>3. ASSUME NEW p \in Pilots, pilot'[p].pc \notin Reading PROVE Kept(p)
  BY <1>3 DEF ScanIsBounded, ScanIsTrue
<1>4. CASE pilot' = pilot /\ tree' \in Trees
  BY <1>1, <1>4 DEF SnapshotInv
<1>5. ASSUME NEW p \in Pilots,
             \/ ScanEnds(p) \/ SkipDirectory(p) \/ ScanDirectory(p) \/ StatFile(p) \/ ReadFile(p)
      PROVE  SnapshotInv'
  <2>1. (ReadingStep(p) \/ LeavingStep(p)) /\ tree' = tree
    BY <1>5, ReadingSteps
  <2>2. Kept(p) /\ \A q \in Pilots \ {p} : pilot'[q] = pilot[q]
    BY <1>2, <1>3, <2>1 DEF ReadingStep, LeavingStep
  <2> HIDE DEF Kept
  <2>3. \A q \in Pilots : Kept(q)
    BY <1>1, <2>2
  <2> QED BY <1>1, <2>1, <2>3 DEF SnapshotInv, Kept
<1>6. ASSUME NEW p \in Pilots, ClaimRun(p) \/ Follows(p)
      PROVE  SnapshotInv'
  <2>1. /\ tree' = tree /\ pilot'[p].pc \notin Reading
        /\ \A q \in Pilots \ {p} : pilot'[q] = pilot[q]
    <3>1. CASE Follows(p)
      BY <3>1, FollowsIsLeaving DEF LeavingStep
    <3>2. CASE ClaimRun(p)
      BY <3>2, ClaimRunSteps DEF ClaimingRun, LeavingStep, Reading
    <3> QED BY <1>6, <3>1, <3>2
  <2>2. Kept(p)
    BY <1>3, <2>1
  <2> HIDE DEF Kept
  <2>3. \A q \in Pilots : Kept(q)
    BY <1>1, <2>1, <2>2
  <2> QED BY <1>1, <2>1, <2>3 DEF SnapshotInv, Kept
<1>7. CASE EditTree
  BY <1>4, <1>7 DEF EditTree
<1>8. CASE AllEnded
  BY <1>1, <1>4, <1>8 DEF AllEnded, vars
<1>9. CASE UNCHANGED vars
  BY <1>1, <1>4, <1>9 DEF vars
<1> QED BY <1>5, <1>6, <1>7, <1>8, <1>9 DEF Next, Follows

\* While a directory tree is edited, its files vanish or are closed, and the
\* scan runs into its limits: whatever a pilot reads is bounded; and if every
\* look found the same tree, then what is pending and what was found cover it.
THEOREM SnapshotInvHolds ==
    ASSUME DigestsAreExact
    PROVE  Spec => []SnapshotInv
<1>1. Init => SnapshotInv
  BY StartSnapshots
<1>2. PilotInv => TypeOK
  BY DEF PilotInv
<1>3. TypeOK /\ SnapshotInv /\ [Next]_vars => SnapshotInv'
  BY StepKeepsSnapshots
<1> QED BY <1>1, <1>2, <1>3, PilotInvHolds, PTL DEF Spec

\* collect_repository_snapshot of repository_pilot.py: what the models are shown
\* is bounded whatever happens to the tree, and of a tree that did not change it
\* is the truth.
THEOREM SnapshotTellsTheTruthHolds ==
    ASSUME DigestsAreExact
    PROVE  Spec => []SnapshotTellsTheTruth
<1>1. ASSUME SnapshotInv PROVE SnapshotTellsTheTruth
  <2>1. SUFFICES ASSUME NEW p \in Pilots, pilot[p].pc = "claim"
                 PROVE  /\ Bounded(pilot[p].records)
                        /\ \A t \in Trees : pilot[p].saw = {t} /\ Readable(t) =>
                              /\ IsInjective(Paths(pilot[p].records))
                              /\ ~pilot[p].files_truncated =>
                                    ToSet(Paths(pilot[p].records)) = Observable(t)
                              /\ \A i \in DOMAIN pilot[p].records : IsRecordOf(pilot[p].records[i], t)
    BY DEF SnapshotTellsTheTruth
  <2> DEFINE s == pilot[p]
             records == s.records
             paths == Paths(records)
  <2>2. /\ ScanIsBounded(s) /\ s.pc \in Reading /\ s.pc = "claim"
        /\ \A t \in Trees : Readable(t) /\ s.saw \subseteq {t} => ScanIsTrue(s, t)
    BY <1>1, <2>1 DEF SnapshotInv, Reading
  <2> HIDE DEF s
  <2>3. /\ s.remaining \in 0..MaxTotalExcerptBytes /\ s.files = <<>> /\ s.pending = <<>>
        /\ records \in Seq(ToSet(records)) /\ Len(Found(s)) <= MaxFiles
        /\ \A path \in ToSet(Found(s)) :
              ToSet(path) \cap ExcludedNames = {} /\ Last(path) \notin SecretNames
        /\ \A i \in DOMAIN records : Excerpted(records[i]) <= MaxExcerptBytes
        /\ Spends(records, MaxTotalExcerptBytes - s.remaining)
    BY <2>2 DEF ScanIsBounded
  <2> HIDE DEF records
  <2>4. Found(s) = paths
    BY <2>3, AllRead DEF Found, records
  <2>5. Len(paths) = Len(records) /\ DOMAIN records = DOMAIN paths
        /\ \A i \in DOMAIN records : paths[i] = records[i].path
    <3> DEFINE n == Len(records)
               S == {records[i].path : i \in 1..n}
    <3>1. n \in Nat /\ DOMAIN records = 1..n
      BY <2>3
    <3> HIDE DEF n
    <3>2. paths \in [1..n -> S] /\ \A i \in 1..n : paths[i] = records[i].path
      BY <3>1 DEF Paths
    <3> HIDE DEF paths, S
    <3>3. Len(paths) = n /\ DOMAIN paths = 1..n
      BY <3>1, <3>2
    <3> QED BY <3>1, <3>2, <3>3 DEF n
  <2> HIDE DEF paths
  <2>6. Bounded(records)
    <3>1. \A i \in DOMAIN records : paths[i] \in ToSet(paths)
      BY <2>5 DEF ToSet
    <3>2. \A i \in DOMAIN records : /\ ToSet(records[i].path) \cap ExcludedNames = {}
                                    /\ Last(records[i].path) \notin SecretNames
      BY <2>3, <2>4, <2>5, <3>1
    <3>3. MaxTotalExcerptBytes - s.remaining \in 0..MaxTotalExcerptBytes
      <4>1. MaxTotalExcerptBytes \in Nat
        BY LimitsAssumption
      <4> QED BY <2>3, <4>1
    <3>4. Len(records) <= MaxFiles
      BY <2>3, <2>4, <2>5
    <3> QED BY <2>3, <3>2, <3>3, <3>4 DEF Bounded
  <2>7. ASSUME NEW t \in Trees, s.saw = {t}, Readable(t)
        PROVE  /\ IsInjective(paths)
               /\ ~s.files_truncated => ToSet(paths) = Observable(t)
               /\ \A i \in DOMAIN records : IsRecordOf(records[i], t)
    <3>1. ScanIsTrue(s, t)
      BY <2>2, <2>7
    <3>2. /\ Covers(<<>>, paths, t, s.files_truncated)
          /\ \A i \in DOMAIN records : IsRecordOf(records[i], t)
      BY <2>2, <2>3, <2>4, <3>1 DEF ScanIsTrue, records
    <3>3. ToSet(<<>>) = {}
      BY NothingPending
    <3>4. IsInjective(paths)
      BY <3>2 DEF Covers
    <3>5. ~s.files_truncated => ToSet(paths) = Observable(t)
      BY <3>2, <3>3 DEF Covers
    <3> QED BY <3>2, <3>4, <3>5
  <2> QED BY <2>6, <2>7 DEF s, records, paths
<1> QED BY <1>1, SnapshotInvHolds, PTL


-----------------------------------------------------------------------------
(* What is read of an unchanged tree is the same, whoever reads it.        *)

\* A set of numbers that is not empty has a least one.
LEMMA Smallest ==
    ASSUME NEW S \in SUBSET Nat, S # {}
    PROVE  \E n \in S : \A m \in S : n <= m
<1>1. IsWellFoundedOn(OpToRel(<, Nat), Nat)
  BY NatLessThanWellFounded
<1>2. PICK n \in S : \A m \in S : ~(<<m, n>> \in OpToRel(<, Nat))
  BY <1>1, WFMin
<1>3. \A m \in S : ~(m < n)
  BY <1>2 DEF OpToRel
<1>4. \A m \in S : m \in Nat /\ n \in Nat
  OBVIOUS
<1> QED BY <1>3, <1>4

\* Whatever order the file system returns, there is one way on.
LEMMA OneTurn ==
    ASSUME NEW t \in Trees, NEW s, ScanIsBounded(s), NEW f, NEW g, Turned(t, s, f), Turned(t, s, g)
    PROVE  f = g
<1>1. CASE s.pc # "scan"
  BY <1>1 DEF Turned, MayLook
<1>2. CASE s.pc = "scan"
  <2>1. s.visited \in Nat /\ s.pending \in Seq(Seq(Nat))
    BY <1>2, BoundedInScan
  <2>2. MaxDirectories \in Nat
    BY LimitsAssumption
  <2>3. s.visited >= MaxDirectories <=> ~(s.visited < MaxDirectories)
    BY <2>1, <2>2
  <2>4. CASE ~MayLook(s) \/ ~Is(t, Last(s.pending), "dir")
    BY <1>2, <2>3, <2>4 DEF Turned, MayLook
  <2>5. CASE MayLook(s) /\ Is(t, Last(s.pending), "dir")
    <3> DEFINE d == Last(s.pending)
               room == Least({MaxEntries - s.scanned, MaxDirectoryEntries})
    <3>1. d \in Seq(Nat)
      <4> DEFINE pending == s.pending
      <4>1. pending \in Seq(Seq(Nat)) /\ pending # <<>>
        BY <2>1, <2>5 DEF MayLook
      <4> HIDE DEF pending
      <4>2. Last(pending) \in Seq(Nat)
        BY <4>1, FrontParts
      <4> QED BY <4>2 DEF pending
    <3>2. PICK a \in SetToSeqs(Entries(t, d)), b \in SetToSeqs(Entries(t, d)) :
            f = Scanned(s, t, a) /\ g = Scanned(s, t, b)
      BY <1>2, <2>3, <2>5 DEF Turned, MayLook
    <3>3. Len(a) = Len(b) /\ Listing(a, room) = Listing(b, room)
      <4> HIDE DEF room, d
      <4> QED BY <3>1, ListingIs
    <3> QED BY <3>2, <3>3 DEF Scanned
  <2> QED BY <2>4, <2>5
<1> QED BY <1>1, <1>2

\* Reading goes on until what was read is claimed.
LEMMA TurnReads ==
    ASSUME NEW t, NEW s, NEW f, Turned(t, s, f), NEW n, After(s, f, n)
    PROVE  n.pc \in Reading /\ s.pc # "claim"
<1>1. DOMAIN f \subseteq ScanFields
  BY TurnFields
<1>2. /\ ScanReturned(<<>>).pc = "stat" /\ "pc" \in DOMAIN ScanReturned(<<>>)
      /\ ScanReturned([files_truncated |-> TRUE]).pc = "stat"
      /\ "pc" \in DOMAIN ScanReturned([files_truncated |-> TRUE])
      /\ \A a : /\ ScanReturned([files_truncated |-> TRUE, files |-> a]).pc = "stat"
                /\ "pc" \in DOMAIN ScanReturned([files_truncated |-> TRUE, files |-> a])
  <2>1. DOMAIN <<>> \subseteq {"files", "files_truncated"}
    <3>1. DOMAIN <<>> = {}
      OBVIOUS
    <3> QED BY <3>1
  <2>2. /\ DOMAIN [files_truncated |-> TRUE] \subseteq {"files", "files_truncated"}
        /\ \A a : DOMAIN [files_truncated |-> TRUE, files |-> a] \subseteq {"files", "files_truncated"}
    OBVIOUS
  <2>3. \A g : DOMAIN g \subseteq {"files", "files_truncated"} =>
          ScanReturned(g).pc = "stat" /\ "pc" \in DOMAIN ScanReturned(g)
    BY ReturnedFields
  <2> QED BY <2>1, <2>2, <2>3, Zenon
<1>3. /\ "pc" \notin DOMAIN Skipped(s)
      /\ "pc" \in DOMAIN Recorded(s, t) /\ Recorded(s, t).pc = "stat"
  BY DEF Skipped, Recorded
<1>4. \A order : \/ "pc" \notin DOMAIN Scanned(s, t, order)
                 \/ /\ "pc" \in DOMAIN Scanned(s, t, order)
                    /\ Scanned(s, t, order).pc = "stat"
  BY <1>2 DEF Scanned
<1>5. \/ "pc" \in DOMAIN f /\ f.pc \in {"stat", "read", "claim"}
      \/ "pc" \notin DOMAIN f /\ s.pc = "scan"
  BY <1>2, <1>3, <1>4 DEF Turned, MayLook
<1>6. n.pc \in Reading
  BY <1>5 DEF After, ScanFields, Reading
<1>7. s.pc # "claim"
  BY DEF Turned, MayLook
<1> QED BY <1>6, <1>7

Part(s) == [x \in ScanFields |-> s[x]]

\* The first n looks at a tree that stays t.
Looks(t, n, looks) ==
    /\ DOMAIN looks = 0..n
    /\ \A i \in 0..n : looks[i] = Part(looks[i]) /\ ScanIsBounded(looks[i])
    /\ looks[0].pc = "scan" /\ looks[0].pending = << <<>> >> /\ looks[0].files = <<>>
    /\ looks[0].visited = 0 /\ looks[0].scanned = 0 /\ looks[0].files_truncated = FALSE
    /\ looks[0].size = 0 /\ looks[0].remaining = MaxTotalExcerptBytes /\ looks[0].records = <<>>
    /\ \A i \in 0..(n - 1) : \E f : Turned(t, looks[i], f) /\ After(looks[i], f, looks[i + 1])

\* What a process at s has read is what is to be read of t.
Comes(t, s) == \E n \in Nat : \E looks : Looks(t, n, looks) /\ looks[n] = Part(s)

LEMMA PartIsBounded ==
    ASSUME NEW s, ScanIsBounded(s)
    PROVE  ScanIsBounded(Part(s))
<1> DEFINE u == Part(s)
<1>1. /\ u.pc = s.pc /\ u.visited = s.visited /\ u.size = s.size /\ u.remaining = s.remaining
      /\ u.pending = s.pending /\ u.files = s.files /\ u.records = s.records
  BY DEF Part, ScanFields
<1> HIDE DEF u
<1>2. Found(u) = Found(s)
  BY <1>1 DEF Found
<1>3. ScanIsBounded(u)
  BY <1>1, <1>2 DEF ScanIsBounded
<1> QED BY <1>3 DEF u

LEMMA PartTurns ==
    ASSUME NEW t, NEW s, NEW f, Turned(t, s, f)
    PROVE  Turned(t, Part(s), f)
<1> DEFINE u == Part(s)
<1>1. /\ u.pc = s.pc /\ u.visited = s.visited /\ u.size = s.size /\ u.remaining = s.remaining
      /\ u.pending = s.pending /\ u.files = s.files /\ u.records = s.records
      /\ u.scanned = s.scanned
  BY DEF Part, ScanFields
<1> HIDE DEF u
<1>2. Skipped(u) = Skipped(s) /\ Recorded(u, t) = Recorded(s, t)
  BY <1>1 DEF Skipped, Recorded
<1>3. \A order : Scanned(u, t, order) = Scanned(s, t, order)
  BY <1>1 DEF Scanned
<1>4. Turned(t, u, f)
  BY <1>1, <1>2, <1>3 DEF Turned, MayLook
<1> QED BY <1>4 DEF u

LEMMA PartsAreOne ==
    ASSUME NEW s, NEW f, DOMAIN f \subseteq ScanFields, NEW u, NEW v,
           u = Part(u), v = Part(v), After(s, f, u), After(s, f, v)
    PROVE  u = v
<1>1. \A x \in ScanFields : u[x] = v[x]
  BY DEF After
<1>2. Part(u) = Part(v)
  BY <1>1 DEF Part
<1> QED BY <1>2

LEMMA LooksAreOne ==
    ASSUME NEW t \in Trees, NEW n \in Nat, NEW a, NEW b, NEW m \in Nat, Looks(t, n, a), Looks(t, m, b)
    PROVE  \A i \in Nat : i <= n /\ i <= m => a[i] = b[i]
<1> DEFINE S == {i \in Nat : i <= n /\ i <= m /\ a[i] # b[i]}
<1>1. SUFFICES ASSUME S # {} PROVE FALSE
  OBVIOUS
<1>2. PICK k \in S : \A j \in S : k <= j
  BY <1>1, Smallest
<1>3. k \in Nat /\ k <= n /\ k <= m /\ a[k] # b[k]
  OBVIOUS
<1>4. CASE k = 0
  <2>1. 0 \in 0..n /\ 0 \in 0..m
    OBVIOUS
  <2>2. \A x \in ScanFields : a[0][x] = b[0][x]
    BY DEF Looks, ScanFields
  <2>3. a[0] = Part(a[0]) /\ b[0] = Part(b[0])
    BY <2>1 DEF Looks
  <2>4. Part(a[0]) = Part(b[0])
    BY <2>2 DEF Part
  <2> QED BY <1>3, <1>4, <2>3, <2>4
<1>5. CASE k # 0
  <2> DEFINE j == k - 1
  <2>1. /\ j \in Nat /\ j + 1 = k /\ j < k /\ j \in 0..(n - 1) /\ j \in 0..(m - 1)
        /\ j \in 0..n /\ k \in 0..n /\ k \in 0..m /\ j <= n /\ j <= m
    BY <1>3, <1>5
  <2>2. a[j] = b[j]
    <3>1. j \notin S
      BY <1>2, <1>3, <2>1
    <3> QED BY <2>1, <3>1
  <2> HIDE DEF j, S
  <2>3. PICK f : Turned(t, a[j], f) /\ After(a[j], f, a[k])
    BY <2>1 DEF Looks
  <2>4. PICK g : Turned(t, b[j], g) /\ After(b[j], g, b[k])
    BY <2>1 DEF Looks
  <2>5. ScanIsBounded(a[j]) /\ a[k] = Part(a[k]) /\ b[k] = Part(b[k])
    BY <2>1 DEF Looks
  <2>6. f = g /\ DOMAIN f \subseteq ScanFields
    BY <2>2, <2>3, <2>4, <2>5, OneTurn, TurnFields
  <2>7. a[k] = b[k]
    BY <2>2, <2>3, <2>4, <2>5, <2>6, PartsAreOne
  <2> QED BY <1>3, <2>7
<1> QED BY <1>4, <1>5

\* Two processes that saw nothing but t claim the same.
LEMMA OneEnd ==
    ASSUME NEW t \in Trees, NEW s, NEW u, Comes(t, s), Comes(t, u), s.pc = "claim", u.pc = "claim"
    PROVE  Part(s) = Part(u)
<1>a. PICK n \in Nat : \E a : Looks(t, n, a) /\ a[n] = Part(s)
  BY DEF Comes
<1>b. PICK m \in Nat : \E b : Looks(t, m, b) /\ b[m] = Part(u)
  BY DEF Comes
<1>1. PICK a : Looks(t, n, a) /\ a[n] = Part(s)
  BY <1>a
<1>2. PICK b : Looks(t, m, b) /\ b[m] = Part(u)
  BY <1>b
<1>3. \A i \in Nat : i <= n /\ i <= m => a[i] = b[i]
  BY <1>1, <1>2, LooksAreOne
<1>4. a[n].pc = "claim" /\ b[m].pc = "claim"
  BY <1>1, <1>2 DEF Part, ScanFields
<1>5. ~(n < m)
  <2>1. SUFFICES ASSUME n < m PROVE FALSE
    OBVIOUS
  <2>2. n \in 0..(m - 1) /\ a[n] = b[n]
    BY <1>3, <2>1
  <2>3. PICK f : Turned(t, b[n], f) /\ After(b[n], f, b[n + 1])
    BY <1>2, <2>2 DEF Looks
  <2> QED BY <1>4, <2>2, <2>3, TurnReads
<1>6. ~(m < n)
  <2>1. SUFFICES ASSUME m < n PROVE FALSE
    OBVIOUS
  <2>2. m \in 0..(n - 1) /\ a[m] = b[m]
    BY <1>3, <2>1
  <2>3. PICK f : Turned(t, a[m], f) /\ After(a[m], f, a[m + 1])
    BY <1>1, <2>2 DEF Looks
  <2> QED BY <1>4, <2>2, <2>3, TurnReads
<1>7. n = m
  BY <1>5, <1>6
<1> QED BY <1>1, <1>2, <1>3, <1>7

LEMMA ComesFurther ==
    ASSUME NEW t \in Trees, NEW s, Comes(t, s), ScanIsBounded(s),
           NEW f, Turned(t, s, f), NEW n, After(s, f, n)
    PROVE  Comes(t, n)
<1>a. PICK k \in Nat : \E a : Looks(t, k, a) /\ a[k] = Part(s)
  BY DEF Comes
<1>1. PICK a : Looks(t, k, a) /\ a[k] = Part(s)
  BY <1>a
<1> DEFINE b == [i \in 0..(k + 1) |-> IF i = k + 1 THEN Part(n) ELSE a[i]]
<1>2. DOMAIN b = 0..(k + 1) /\ b[k + 1] = Part(n) /\ \A i \in 0..k : b[i] = a[i]
  OBVIOUS
<1> HIDE DEF b
<1>3. Part(Part(n)) = Part(n)
  BY DEF Part
<1>4. ScanIsBounded(Part(n))
  <2>1. ScanIsBounded(n)
    BY TurnKeeps
  <2> QED BY <2>1, PartIsBounded
<1>5. After(Part(s), f, Part(n)) /\ Turned(t, Part(s), f)
  <2>1. DOMAIN f \subseteq ScanFields
    BY TurnFields
  <2>2. After(Part(s), f, Part(n))
    BY <2>1 DEF After, Part
  <2> QED BY <2>2, PartTurns
<1>6. \A i \in 0..(k + 1) : b[i] = Part(b[i]) /\ ScanIsBounded(b[i])
  <2>1. \A i \in 0..(k + 1) : i \in 0..k \/ i = k + 1
    OBVIOUS
  <2> QED BY <1>1, <1>2, <1>3, <1>4, <2>1 DEF Looks
<1>7. b[0] = a[0]
  BY <1>2
<1>8. ASSUME NEW i \in 0..((k + 1) - 1)
      PROVE  \E g : Turned(t, b[i], g) /\ After(b[i], g, b[i + 1])
  <2>1. CASE i = k
    <3>1. b[i] = Part(s) /\ b[i + 1] = Part(n)
      BY <1>1, <1>2, <2>1
    <3> QED BY <1>5, <3>1
  <2>2. CASE i # k
    <3>1. i \in 0..(k - 1) /\ i \in 0..k /\ i + 1 \in 0..k
      BY <2>2
    <3>2. b[i] = a[i] /\ b[i + 1] = a[i + 1]
      BY <1>2, <3>1
    <3>3. \E g : Turned(t, a[i], g) /\ After(a[i], g, a[i + 1])
      BY <1>1, <3>1 DEF Looks
    <3> QED BY <3>2, <3>3
  <2> QED BY <2>1, <2>2
<1>9. Looks(t, k + 1, b)
  BY <1>1, <1>2, <1>6, <1>7, <1>8 DEF Looks
<1> QED BY <1>2, <1>9 DEF Comes


-----------------------------------------------------------------------------
(* Why an unchanged tree is observed once.                                 *)

Asked(s) == s.pc = "observer" \/ s.called

\* What a process at s claimed, for the model.
Claim(model, s) == <<model, [files |-> s.records, files_truncated |-> s.files_truncated]>>

\* What is read of tree t is claimed for the model.
Known(keys, model, t) == \E s : Comes(t, s) /\ s.pc = "claim" /\ Claim(model, s) \in keys

ObservedInv ==
    /\ \A p \in Pilots :
          /\ pilot[p].pc \in Reading => ~pilot[p].called
          /\ pilot[p].pc = "analyst" => pilot[p].called
          /\ \A t \in Trees : pilot[p].saw \subseteq {t} =>
                /\ pilot[p].pc \in Reading => Comes(t, pilot[p])
                /\ Asked(pilot[p]) => Known(runKeys, pilot[p].model, t)
    /\ \A p, q \in Pilots : \A t \in Trees :
          /\ p # q /\ pilot[p].model = pilot[q].model
          /\ pilot[p].saw \subseteq {t} /\ pilot[q].saw \subseteq {t}
          => ~(Asked(pilot[p]) /\ Asked(pilot[q]))

LEMMA StartObserved == Init => ObservedInv
<1> SUFFICES ASSUME Init PROVE ObservedInv
  OBVIOUS
<1>1. PICK model \in [Pilots -> Models] :
        pilot = [p \in Pilots |->
                  [pc |-> "scan", model |-> model[p], pending |-> << <<>> >>, files |-> <<>>,
                   visited |-> 0, scanned |-> 0, files_truncated |-> FALSE, size |-> 0,
                   remaining |-> MaxTotalExcerptBytes, records |-> <<>>, tokens |-> 0,
                   draft |-> None, name |-> None, status |-> None,
                   saw |-> {}, called |-> FALSE, refused |-> {}]]
  BY DEF Init
<1>2. ASSUME NEW p \in Pilots
      PROVE  /\ pilot[p].pc = "scan" /\ pilot[p].pending = << <<>> >> /\ pilot[p].files = <<>>
             /\ pilot[p].visited = 0 /\ pilot[p].scanned = 0 /\ pilot[p].files_truncated = FALSE
             /\ pilot[p].size = 0 /\ pilot[p].remaining = MaxTotalExcerptBytes
             /\ pilot[p].records = <<>> /\ ~pilot[p].called
  BY <1>1
<1>3. \A p \in Pilots : ~Asked(pilot[p]) /\ pilot[p].pc # "analyst" /\ ~pilot[p].called
  BY <1>2 DEF Asked
<1>4. ASSUME NEW p \in Pilots, NEW t PROVE Comes(t, pilot[p])
  <2> DEFINE s == pilot[p]
             u == Part(s)
             looks == [i \in 0..0 |-> u]
  <2>1. /\ s.pc = "scan" /\ s.pending = << <<>> >> /\ s.files = <<>>
        /\ s.visited = 0 /\ s.scanned = 0 /\ s.files_truncated = FALSE
        /\ s.size = 0 /\ s.remaining = MaxTotalExcerptBytes /\ s.records = <<>>
    BY <1>2
  <2>2. ScanIsBounded(s)
    BY StartSnapshots DEF SnapshotInv
  <2>3. ScanIsBounded(u)
    BY <2>2, PartIsBounded
  <2> HIDE DEF s
  <2>4. /\ u.pc = "scan" /\ u.pending = << <<>> >> /\ u.files = <<>>
        /\ u.visited = 0 /\ u.scanned = 0 /\ u.files_truncated = FALSE
        /\ u.size = 0 /\ u.remaining = MaxTotalExcerptBytes /\ u.records = <<>>
    BY <2>1 DEF Part, ScanFields
  <2>5. u = Part(u)
    BY DEF Part
  <2>6. DOMAIN looks = 0..0 /\ \A i \in 0..0 : looks[i] = u
    OBVIOUS
  <2>7. \A i \in 0..(0 - 1) : FALSE
    OBVIOUS
  <2> DEFINE first == u
  <2> HIDE DEF u, looks
  <2>8. Looks(t, 0, looks)
    BY <2>3, <2>4, <2>5, <2>6, <2>7 DEF Looks
  <2> QED BY <2>6, <2>8 DEF Comes, u, s
<1> QED BY <1>3, <1>4 DEF ObservedInv

\* What holds of all pilots before a step of one of them, and of the claims.
LEMMA OthersObserved ==
    ASSUME ObservedInv, NEW p \in Pilots, \A q \in Pilots \ {p} : pilot'[q] = pilot[q],
           runKeys \subseteq runKeys',
           pilot'[p].model = pilot[p].model,
           pilot'[p].pc \in Reading => ~pilot'[p].called,
           pilot'[p].pc = "analyst" => pilot'[p].called,
           \A t \in Trees : pilot'[p].saw \subseteq {t} =>
              /\ pilot'[p].pc \in Reading => Comes(t, pilot'[p])
              /\ Asked(pilot'[p]) =>
                    /\ Known(runKeys', pilot[p].model, t)
                    /\ \/ Asked(pilot[p]) /\ pilot[p].saw \subseteq {t}
                       \/ ~Known(runKeys, pilot[p].model, t)
    PROVE  ObservedInv'
<1>1. \A model, t : Known(runKeys, model, t) => Known(runKeys', model, t)
  BY DEF Known
<1>2. \A q \in Pilots \ {p} : Asked(pilot'[q]) <=> Asked(pilot[q])
  BY DEF Asked
<1>3. ASSUME NEW q \in Pilots
      PROVE  /\ pilot'[q].pc \in Reading => ~pilot'[q].called
             /\ pilot'[q].pc = "analyst" => pilot'[q].called
             /\ \A t \in Trees : pilot'[q].saw \subseteq {t} =>
                   /\ pilot'[q].pc \in Reading => Comes(t, pilot'[q])
                   /\ Asked(pilot'[q]) => Known(runKeys', pilot'[q].model, t)
  <2>1. CASE q = p
    BY <2>1
  <2>2. CASE q # p
    BY <1>1, <1>2, <2>2 DEF ObservedInv
  <2> QED BY <2>1, <2>2
<1>4. ASSUME NEW q \in Pilots \ {p}, NEW t \in Trees, pilot'[p].model = pilot'[q].model,
             pilot'[p].saw \subseteq {t}, pilot'[q].saw \subseteq {t}, Asked(pilot'[p]), Asked(pilot'[q])
      PROVE  FALSE
  <2>1. Known(runKeys, pilot[p].model, t) /\ Asked(pilot[q]) /\ pilot[q].saw \subseteq {t}
        /\ pilot[p].model = pilot[q].model
    BY <1>2, <1>4 DEF ObservedInv
  <2>2. Asked(pilot[p]) /\ pilot[p].saw \subseteq {t}
    BY <1>4, <2>1
  <2> QED BY <2>1, <2>2 DEF ObservedInv
<1>5. ASSUME NEW q \in Pilots, NEW r \in Pilots, NEW t \in Trees, q # r,
             pilot'[q].model = pilot'[r].model,
             pilot'[q].saw \subseteq {t}, pilot'[r].saw \subseteq {t}, Asked(pilot'[q]), Asked(pilot'[r])
      PROVE  FALSE
  <2>1. CASE q = p
    BY <1>4, <1>5, <2>1
  <2>2. CASE r = p
    BY <1>4, <1>5, <2>2
  <2>3. CASE q # p /\ r # p
    BY <1>2, <1>5, <2>3 DEF ObservedInv
  <2> QED BY <2>1, <2>2, <2>3
<1> QED BY <1>3, <1>5 DEF ObservedInv

LEMMA StepKeepsObserved ==
    ASSUME TypeOK, SnapshotInv, ObservedInv, [Next]_vars
    PROVE  ObservedInv'
<1>1. ASSUME NEW p \in Pilots, ReadingStep(p), runKeys' = runKeys,
             pilot[p].pc \in {"scan", "stat", "read"}
      PROVE  ObservedInv'
  <2>1. PICK f : /\ After(pilot[p], f, pilot'[p]) /\ Turned(tree, pilot[p], f)
                 /\ \A t : pilot'[p].saw \subseteq {t} => Turned(t, pilot[p], f)
    BY <1>1 DEF ReadingStep
  <2>2. /\ \A q \in Pilots \ {p} : pilot'[q] = pilot[q]
        /\ pilot'[p].model = pilot[p].model /\ pilot'[p].called = pilot[p].called
        /\ pilot[p].saw \subseteq pilot'[p].saw
    BY <1>1 DEF ReadingStep
  <2>3. pilot'[p].pc \in Reading
    BY <2>1, TurnReads
  <2>4. pilot[p].pc \in Reading /\ ~pilot'[p].called
    BY <1>1, <2>2 DEF Reading, ObservedInv
  <2>5. ~Asked(pilot'[p]) /\ pilot'[p].pc # "analyst"
    BY <2>3, <2>4 DEF Asked, Reading
  <2>6. ASSUME NEW t \in Trees, pilot'[p].saw \subseteq {t} PROVE Comes(t, pilot'[p])
    <3>1. Comes(t, pilot[p]) /\ Turned(t, pilot[p], f) /\ ScanIsBounded(pilot[p])
      BY <2>1, <2>2, <2>4, <2>6 DEF ObservedInv, SnapshotInv
    <3> QED BY <2>1, <3>1, ComesFurther
  <2> QED BY <1>1, <2>2, <2>4, <2>5, <2>6, OthersObserved
<1>2. ASSUME NEW p \in Pilots, LeavingStep(p), runKeys \subseteq runKeys'
      PROVE  ObservedInv'
  <2>1. /\ \A q \in Pilots \ {p} : pilot'[q] = pilot[q]
        /\ pilot'[p].pc \notin Reading \cup {"observer"}
        /\ pilot'[p].model = pilot[p].model
        /\ pilot'[p].called = pilot[p].called \/ pilot[p].pc \in {"observer", "analyst"}
        /\ pilot'[p].called => pilot'[p].saw = pilot[p].saw
        /\ pilot'[p].pc = "analyst" => pilot'[p].called
    BY <1>2 DEF LeavingStep
  <2>2. Asked(pilot'[p]) => Asked(pilot[p]) /\ pilot'[p].saw = pilot[p].saw
    BY <2>1 DEF Asked, ObservedInv
  <2>3. \A model, t : Known(runKeys, model, t) => Known(runKeys', model, t)
    BY <1>2 DEF Known
  <2>4. \A t \in Trees : pilot'[p].saw \subseteq {t} /\ Asked(pilot'[p]) =>
          Known(runKeys', pilot[p].model, t) /\ Asked(pilot[p]) /\ pilot[p].saw \subseteq {t}
    BY <2>2, <2>3 DEF ObservedInv
  <2> QED BY <1>2, <2>1, <2>4, OthersObserved
<1>3. ASSUME NEW p \in Pilots, ClaimingRun(p), pilot[p].pc = "claim",
             runKeys' = runKeys \cup {RunKey(p)}
      PROVE  ObservedInv'
  <2>1. /\ \A q \in Pilots \ {p} : pilot'[q] = pilot[q]
        /\ pilot'[p].pc = "observer" /\ pilot'[p].model = pilot[p].model
        /\ pilot'[p].called = pilot[p].called /\ pilot'[p].saw = pilot[p].saw
        /\ RunKey(p) \notin runKeys
    BY <1>3 DEF ClaimingRun
  <2>2. pilot'[p].pc \notin Reading /\ pilot'[p].pc # "analyst"
    BY <2>1 DEF Reading
  <2>3. RunKey(p) = Claim(pilot[p].model, pilot[p])
    BY DEF RunKey, Snapshot, Claim
  <2>4. ASSUME NEW t \in Trees, pilot'[p].saw \subseteq {t}
        PROVE  Known(runKeys', pilot[p].model, t) /\ ~Known(runKeys, pilot[p].model, t)
    <3>1. Comes(t, pilot[p])
      BY <1>3, <2>1, <2>4 DEF ObservedInv, Reading
    <3>2. Known(runKeys', pilot[p].model, t)
      <4>1. \E s : Comes(t, s) /\ s.pc = "claim" /\ Claim(pilot[p].model, s) \in runKeys'
        BY <1>3, <2>3, <3>1
      <4> QED BY <2>1, <4>1 DEF Known
    <3>3. ASSUME NEW s, Comes(t, s), s.pc = "claim", Claim(pilot[p].model, s) \in runKeys
          PROVE  FALSE
      <4>1. Part(s) = Part(pilot[p])
        BY <1>3, <3>1, <3>3, OneEnd
      <4>2. s.records = Part(s).records /\ s.files_truncated = Part(s).files_truncated
        BY DEF Part, ScanFields
      <4>3. /\ pilot[p].records = Part(pilot[p]).records
            /\ pilot[p].files_truncated = Part(pilot[p]).files_truncated
        BY DEF Part, ScanFields
      <4>4. Claim(pilot[p].model, s) = Claim(pilot[p].model, pilot[p])
        BY <4>1, <4>2, <4>3 DEF Claim
      <4> QED BY <2>1, <2>3, <3>3, <4>4
    <3> QED BY <3>2, <3>3 DEF Known
  <2> QED BY <1>3, <2>1, <2>2, <2>4, OthersObserved
<1>4. CASE pilot' = pilot /\ runKeys' = runKeys
  BY <1>4 DEF ObservedInv, Asked, Known
<1>5. ASSUME NEW p \in Pilots,
             \/ ScanEnds(p) \/ SkipDirectory(p) \/ ScanDirectory(p) \/ StatFile(p) \/ ReadFile(p)
      PROVE  ObservedInv'
  BY <1>1, <1>2, <1>5, ReadingSteps
<1>6. ASSUME NEW p \in Pilots, ClaimRun(p)
      PROVE  ObservedInv'
  BY <1>2, <1>3, <1>6, ClaimRunSteps
<1>7. ASSUME NEW p \in Pilots, Follows(p)
      PROVE  ObservedInv'
  BY <1>2, <1>7, FollowsIsLeaving
<1>8. CASE EditTree
  BY <1>4, <1>8 DEF EditTree
<1>9. CASE AllEnded
  BY <1>4, <1>9 DEF AllEnded, vars
<1>10. CASE UNCHANGED vars
  BY <1>4, <1>10 DEF vars
<1> QED BY <1>5, <1>6, <1>7, <1>8, <1>9, <1>10 DEF Next, Follows

\* run_repository_pilot of repository_pilot.py: the snapshot of an unchanged
\* tree is one, in whatever order its entries were returned and wherever the
\* limits of the scan fell, and whoever claims it first asks the models.
THEOREM UnchangedTreeIsObservedOnceHolds ==
    ASSUME DigestsAreExact
    PROVE  Spec => []UnchangedTreeIsObservedOnce
<1>1. Init => ObservedInv
  BY StartObserved
<1>2. PilotInv => TypeOK
  BY DEF PilotInv
<1>3. TypeOK /\ SnapshotInv /\ ObservedInv /\ [Next]_vars => ObservedInv'
  BY StepKeepsObserved
<1>4. ASSUME ObservedInv PROVE UnchangedTreeIsObservedOnce
  <2>1. SUFFICES ASSUME NEW p \in Pilots, NEW q \in Pilots, p # q,
                        pilot[p].model = pilot[q].model, pilot[p].saw = pilot[q].saw,
                        NEW t \in Trees, pilot[p].saw = {t}, pilot[p].called, pilot[q].called
                 PROVE  FALSE
    BY DEF UnchangedTreeIsObservedOnce
  <2>2. Asked(pilot[p]) /\ Asked(pilot[q])
    BY <2>1 DEF Asked
  <2> QED BY <1>4, <2>1, <2>2 DEF ObservedInv
<1> QED BY <1>1, <1>2, <1>3, <1>4, PilotInvHolds, SnapshotInvHolds, PTL DEF Spec

=============================================================================
