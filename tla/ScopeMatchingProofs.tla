------------------------- MODULE ScopeMatchingProofs -------------------------
(***************************************************************************)
(* Theorems about normalizing and matching paths, for any alphabet of      *)
(* pieces, any length of path and any kMaxPathSegments.                    *)
(*                                                                         *)
(* The pieces of a path are weighed, names with 1 and ".." with -1.  Which *)
(* pieces stay is read off the weights of its intervals (StaysByBalance),  *)
(* and so is how one more piece changes that (SkippedStaying,              *)
(* AddedStaying, TakenBackStaying).  The loop keeps its array equal to the *)
(* list of those that stay (Leads), which is the inductive invariant.      *)
(***************************************************************************)
EXTENDS ScopeMatching, FiniteSetTheorems, Extremes

-----------------------------------------------------------------------------
\* The i-th of a set of numbers, and how many of them lie in an interval.

\* kept lists the n numbers of S from the least on.
Lists(kept, n, S) ==
    /\ kept \in [1..n -> S]
    /\ \A i, j \in 1..n : i < j => kept[i] < kept[j]
    /\ \A m \in S : \E i \in 1..n : kept[i] = m

\* Such a list counts the set, and finds its i-th number.
LEMMA ListCounts ==
    ASSUME NEW S \in SUBSET Nat, NEW n \in Nat, NEW kept, Lists(kept, n, S)
    PROVE  /\ Cardinality(S) = n
           /\ \A i \in 1..n : Cardinality({m \in S : m <= kept[i]}) = i
<1>1. /\ kept \in [1..n -> S]
      /\ \A i, j \in 1..n : i < j => kept[i] < kept[j]
      /\ \A m \in S : \E i \in 1..n : kept[i] = m
  BY DEF Lists
<1>2. \A i \in 1..n : kept[i] \in Nat
  BY <1>1
<1>3. \A i, j \in 1..n : kept[i] = kept[j] => i = j
  <2> TAKE i, j \in 1..n
  <2>1. i < j \/ j < i \/ i = j
    OBVIOUS
  <2>2. kept[i] \in Nat /\ kept[j] \in Nat
    BY <1>2
  <2>3. QED
    BY <1>1, <2>1, <2>2
<1>4. Cardinality(S) = n
  <2>1. kept \in Bijection(1..n, S)
    BY <1>1, <1>3 DEF Bijection, Injection, Surjection, IsInjective
  <2>2. QED
    BY <2>1, FS_CountingElements DEF ExistsBijection
<1>5. ASSUME NEW i \in 1..n PROVE Cardinality({m \in S : m <= kept[i]}) = i
  <2> DEFINE T == {m \in S : m <= kept[i]}
             f == [j \in 1..i |-> kept[j]]
  <2>1. \A j \in 1..i : j \in 1..n /\ j <= i /\ (j < i => kept[j] < kept[i])
    BY <1>1
  <2>2. \A j \in 1..i : kept[j] \in S /\ kept[j] <= kept[i]
    <3> TAKE j \in 1..i
    <3>1. kept[j] \in S /\ kept[j] \in Nat /\ kept[i] \in Nat
      BY <1>1, <1>2, <2>1
    <3>2. j = i \/ kept[j] < kept[i]
      BY <2>1
    <3>3. QED
      BY <3>1, <3>2
  <2>3. f \in [1..i -> T]
    BY <2>2
  <2>4. \A j, k \in 1..i : f[j] = f[k] => j = k
    BY <1>3, <2>1
  <2>5. ASSUME NEW m \in T PROVE \E j \in 1..i : f[j] = m
    <3>1. PICK j \in 1..n : kept[j] = m
      BY <1>1
    <3>2. ~(i < j)
      <4>1. m <= kept[i] /\ m \in Nat /\ kept[i] \in Nat
        BY <1>2
      <4>2. i < j => kept[i] < kept[j]
        BY <1>1
      <4>3. QED
        BY <3>1, <4>1, <4>2
    <3>3. j \in 1..i
      BY <3>2
    <3>4. QED
      BY <3>1, <3>3
  <2> HIDE DEF f, T
  <2>6. f \in Bijection(1..i, T) /\ i \in Nat
    BY <2>3, <2>4, <2>5 DEF Bijection, Injection, Surjection, IsInjective
  <2>7. Cardinality(T) = i
    BY <2>6, FS_CountingElements DEF ExistsBijection
  <2>8. QED
    BY <2>7 DEF T
<1>6. QED
  BY <1>4, <1>5

LEMMA NthOfList ==
    ASSUME NEW S \in SUBSET Nat, NEW n \in Nat, NEW kept, Lists(kept, n, S), NEW i \in 1..n
    PROVE  Nth(S, i) = kept[i]
<1>1. Cardinality({m \in S : m <= kept[i]}) = i /\ kept[i] \in S
  <2>1. \A j \in 1..n : Cardinality({m \in S : m <= kept[j]}) = j
    BY ListCounts
  <2>2. kept[i] \in S
    BY DEF Lists
  <2>3. QED
    BY <2>1, <2>2
<1>2. \A k \in S : Cardinality({m \in S : m <= k}) = i => k = kept[i]
  <2> TAKE k \in S
  <2>1. PICK j \in 1..n : kept[j] = k
    BY DEF Lists
  <2>2. Cardinality({m \in S : m <= kept[j]}) = j
    BY ListCounts
  <2>3. QED
    BY <2>1, <2>2
<1>3. QED
  BY <1>1, <1>2 DEF Nth

\* A number above all the others comes last.
LEMMA ListMore ==
    ASSUME NEW S \in SUBSET Nat, NEW n \in Nat, NEW kept, Lists(kept, n, S),
           NEW x \in Nat, \A m \in S : m < x
    PROVE  Lists([i \in 1..(n + 1) |-> IF i = n + 1 THEN x ELSE kept[i]], n + 1, S \cup {x})
<1> DEFINE more == [i \in 1..(n + 1) |-> IF i = n + 1 THEN x ELSE kept[i]]
<1>1. \A i \in 1..(n + 1) : i # n + 1 => i \in 1..n /\ kept[i] \in S
  <2>1. \A i \in 1..(n + 1) : i # n + 1 => i \in 1..n
    OBVIOUS
  <2>2. QED
    BY <2>1 DEF Lists
<1>2. more \in [1..(n + 1) -> S \cup {x}]
  BY <1>1
<1>3. \A i, j \in 1..(n + 1) : i < j => more[i] < more[j]
  <2> TAKE i, j \in 1..(n + 1)
  <2>1. CASE j = n + 1 /\ i # n + 1
    <3>1. more[j] = x /\ more[i] = kept[i] /\ kept[i] \in S
      BY <1>1, <2>1
    <3>2. QED
      BY <3>1
  <2>2. CASE j # n + 1 /\ i # n + 1
    <3>1. more[j] = kept[j] /\ more[i] = kept[i] /\ i \in 1..n /\ j \in 1..n
      BY <1>1, <2>2
    <3>2. QED
      BY <3>1 DEF Lists
  <2>3. CASE i = n + 1
    BY <2>3
  <2>4. QED
    BY <2>1, <2>2, <2>3
<1>4. ASSUME NEW m \in S \cup {x} PROVE \E i \in 1..(n + 1) : more[i] = m
  <2>1. CASE m \in S
    <3>1. PICK i \in 1..n : kept[i] = m
      BY <2>1 DEF Lists
    <3>2. i \in 1..(n + 1) /\ i # n + 1
      OBVIOUS
    <3>3. QED
      BY <3>1, <3>2
  <2>2. CASE m = x
    <3>1. n + 1 \in 1..(n + 1)
      OBVIOUS
    <3>2. QED
      BY <2>2, <3>1
  <2>3. QED
    BY <2>1, <2>2
<1>5. QED
  BY <1>2, <1>3, <1>4 DEF Lists

\* The last one is the greatest, and the list without it lists the others.
LEMMA ListLess ==
    ASSUME NEW S \in SUBSET Nat, NEW n \in Nat, n >= 1, NEW kept, Lists(kept, n, S)
    PROVE  /\ kept[n] \in S /\ \A m \in S : m <= kept[n]
           /\ Lists([i \in 1..(n - 1) |-> kept[i]], n - 1, S \ {kept[n]})
<1> DEFINE less == [i \in 1..(n - 1) |-> kept[i]]
<1>0. n \in 1..n /\ \A i \in 1..(n - 1) : i \in 1..n /\ i < n
  OBVIOUS
<1>1. /\ kept \in [1..n -> S]
      /\ \A i, j \in 1..n : i < j => kept[i] < kept[j]
      /\ \A m \in S : \E i \in 1..n : kept[i] = m
  BY DEF Lists
<1>2. kept[n] \in S /\ kept[n] \in Nat
  BY <1>0, <1>1
<1>3. \A i \in 1..(n - 1) : kept[i] \in S \ {kept[n]}
  <2> TAKE i \in 1..(n - 1)
  <2>1. kept[i] \in S /\ kept[i] < kept[n]
    BY <1>0, <1>1
  <2>2. QED
    BY <1>2, <2>1
<1>4. ASSUME NEW m \in S PROVE m <= kept[n] /\ (m # kept[n] => \E i \in 1..(n - 1) : kept[i] = m)
  <2>1. PICK i \in 1..n : kept[i] = m
    BY <1>1
  <2>2. CASE i = n
    BY <1>2, <2>1, <2>2
  <2>3. CASE i # n
    <3>1. i \in 1..(n - 1)
      BY <2>3
    <3>2. kept[i] < kept[n] /\ m \in Nat
      BY <1>0, <1>1, <3>1
    <3>3. QED
      BY <1>2, <2>1, <3>1, <3>2
  <2>4. QED
    BY <2>2, <2>3
<1>5. less \in [1..(n - 1) -> S \ {kept[n]}]
  BY <1>3
<1>6. \A i, j \in 1..(n - 1) : i < j => less[i] < less[j]
  BY <1>0, <1>1
<1>7. \A m \in S \ {kept[n]} : \E i \in 1..(n - 1) : less[i] = m
  BY <1>4
<1>8. Lists(less, n - 1, S \ {kept[n]})
  BY <1>5, <1>6, <1>7 DEF Lists
<1>9. QED
  BY <1>2, <1>4, <1>8

\* How many of T lie in an interval adds up over its parts.
Count(T, i, j) == Cardinality({n \in i..j : n \in T})

LEMMA CountType ==
    ASSUME NEW T, NEW i \in Int, NEW j \in Int
    PROVE  /\ IsFiniteSet({n \in i..j : n \in T}) /\ Count(T, i, j) \in Nat
           /\ i > j => Count(T, i, j) = 0
           /\ i = j => Count(T, i, j) = IF i \in T THEN 1 ELSE 0
<1> DEFINE C == {n \in i..j : n \in T}
<1>1. IsFiniteSet(C)
  <2>1. IsFiniteSet(i..j)
    BY FS_Interval
  <2>2. C \in SUBSET (i..j)
    OBVIOUS
  <2>3. QED
    BY <2>1, <2>2, FS_Subset
<1>2. Cardinality(C) \in Nat
  BY <1>1, FS_CardinalityType
<1>3. i > j => Cardinality(C) = 0
  <2>1. i > j => C = {}
    OBVIOUS
  <2>2. QED
    BY <2>1, FS_EmptySet
<1>4. i = j => Cardinality(C) = IF i \in T THEN 1 ELSE 0
  <2>1. i = j => C = IF i \in T THEN {i} ELSE {}
    OBVIOUS
  <2>2. Cardinality({i}) = 1 /\ Cardinality({}) = 0
    BY FS_EmptySet, FS_Singleton
  <2>3. QED
    BY <2>1, <2>2
<1>5. QED
  BY <1>1, <1>2, <1>3, <1>4 DEF Count

LEMMA CountSplit ==
    ASSUME NEW T, NEW i \in Int, NEW j \in Int, NEW k \in Int, i <= j + 1, j <= k
    PROVE  Count(T, i, k) = Count(T, i, j) + Count(T, j + 1, k)
<1> DEFINE A == {n \in i..j : n \in T}
           B == {n \in (j + 1)..k : n \in T}
<1>1. {n \in i..k : n \in T} = A \cup B /\ A \cap B = {}
  OBVIOUS
<1>2. IsFiniteSet(A) /\ IsFiniteSet(B) /\ Cardinality(A) \in Nat /\ Cardinality(B) \in Nat
  <2>1. j + 1 \in Int
    OBVIOUS
  <2>2. QED
    BY <2>1, CountType DEF Count
<1> HIDE DEF A, B
<1>3. Cardinality(A \cup B) = Cardinality(A) + Cardinality(B) - Cardinality(A \cap B)
  BY <1>2, FS_Union
<1>4. Cardinality(A \cap B) = 0
  BY <1>1, FS_EmptySet
<1>5. Cardinality(A \cup B) = Cardinality(A) + Cardinality(B)
  BY <1>2, <1>3, <1>4
<1>6. QED
  BY <1>1, <1>5 DEF Count, A, B

\* What is true of a path however much of it was read.
Front1(segments) ==
    \A i \in DOMAIN segments :
        segments[i] = DotDot => \A j \in 1..i : segments[j] = DotDot

Agree(path) ==
    IF path.deepest <= kMaxPathSegments THEN path.out = path.segments ELSE path.out = TooMany

\* Climbing back out of a segment removes the last one.
LEMMA FrontProperties ==
    ASSUME NEW S, NEW s \in Seq(S), s # <<>>
    PROVE  /\ Front(s) \in Seq(S)
           /\ Len(Front(s)) = Len(s) - 1
           /\ DOMAIN Front(s) = 1..(Len(s) - 1)
           /\ \A i \in 1..(Len(s) - 1) : Front(s)[i] = s[i]
<1>1. Len(s) \in Nat /\ Len(s) >= 1
  OBVIOUS
<1>2. Front(s) = SubSeq(s, 1, Len(s) - 1)
  BY DEF Front
<1>3. \A i \in 1..(Len(s) - 1) : s[i] \in S
  BY <1>1
<1>4. SubSeq(s, 1, Len(s) - 1) = [i \in 1..(Len(s) - 1) |-> s[i]]
  BY <1>1
<1>5. [i \in 1..(Len(s) - 1) |-> s[i]] \in Seq(S)
  BY <1>1, <1>3
<1>6. Front(s) = [i \in 1..(Len(s) - 1) |-> s[i]]
  BY <1>2, <1>4
<1>7. /\ DOMAIN Front(s) = 1..(Len(s) - 1)
      /\ \A i \in 1..(Len(s) - 1) : Front(s)[i] = s[i]
  BY <1>6
<1>8. Len(Front(s)) = Len(s) - 1 /\ Front(s) \in Seq(S)
  BY <1>1, <1>5, <1>6, <1>7
<1>9. QED
  BY <1>7, <1>8

\* The pieces that are dropped and the one that climbs are different.
LEMMA DotDotIsNotSkipped == ~IsSkipped(DotDot)
BY DEF IsSkipped, DotDot, Dot, Empty

\* One round of normalize_path_segment() keeps the climbs in front.
LEMMA NormalizedProperties ==
    ASSUME NEW s \in Seq(Kept), NEW piece \in Pieces, Front1(s)
    PROVE  /\ Normalized(s, piece) \in Seq(Kept)
           /\ Len(Normalized(s, piece)) <= Len(s) + 1
           /\ Front1(Normalized(s, piece))
<1>1. CASE IsSkipped(piece)
  <2>1. Normalized(s, piece) = s
    BY <1>1, DotDotIsNotSkipped DEF Normalized
  <2>2. QED
    BY <2>1
<1>2. CASE piece = DotDot /\ CanClimb(s)
  <2>1. s # <<>> /\ ~IsSkipped(piece)
    BY <1>2 DEF CanClimb, IsSkipped, DotDot, Dot, Empty
  <2>2. Normalized(s, piece) = Front(s)
    BY <1>2, <2>1 DEF Normalized
  <2>3. QED
    BY <2>1, <2>2, FrontProperties DEF Front1
<1>3. CASE ~IsSkipped(piece) /\ ~(piece = DotDot /\ CanClimb(s))
  <2>1. Normalized(s, piece) = Append(s, piece)
    BY <1>3 DEF Normalized
  <2>0. piece \in Kept
    BY <1>3 DEF Kept, IsSkipped
  <2>2. /\ Append(s, piece) \in Seq(Kept) /\ Len(Append(s, piece)) = Len(s) + 1
        /\ DOMAIN Append(s, piece) = 1..(Len(s) + 1) /\ DOMAIN s = 1..Len(s) /\ Len(s) \in Nat
        /\ \A i \in 1..Len(s) : Append(s, piece)[i] = s[i]
        /\ Append(s, piece)[Len(s) + 1] = piece
    BY <2>0
  <2>3. piece = DotDot => \A j \in 1..Len(s) : s[j] = DotDot
    <3>1. CASE s = <<>>
      BY <3>1
    <3>2. CASE s # <<>> /\ piece = DotDot
      <4>1. s[Len(s)] = DotDot /\ Len(s) \in DOMAIN s
        BY <1>3, <2>2, <3>2 DEF CanClimb, Last
      <4>2. QED
        BY <4>1 DEF Front1
    <3>3. QED
      BY <3>1, <3>2
  <2>4. Front1(Append(s, piece))
    <3> SUFFICES ASSUME NEW i \in 1..(Len(s) + 1), Append(s, piece)[i] = DotDot,
                        NEW j \in 1..i
                 PROVE  Append(s, piece)[j] = DotDot
      BY <2>2 DEF Front1
    <3>1. CASE i <= Len(s)
      BY <2>2, <3>1 DEF Front1
    <3>2. CASE i = Len(s) + 1
      BY <2>2, <2>3, <3>2
    <3>3. QED
      BY <2>2, <3>1, <3>2
  <2>5. QED
    BY <2>1, <2>2, <2>4
<1>4. QED
  BY <1>1, <1>2, <1>3

\* One round of the other loop does the same, until the array is full.
LEMMA StoredProperties ==
    ASSUME NEW s \in Seq(Kept), NEW piece \in Pieces, Len(s) <= kMaxPathSegments
    PROVE  Stored(s, piece) = IF Len(Normalized(s, piece)) <= kMaxPathSegments
                              THEN Normalized(s, piece) ELSE TooMany
<1>0. s # TooMany /\ Len(s) \in Nat /\ kMaxPathSegments \in Nat
  BY ScopeAssumption
<1>1. CASE IsSkipped(piece)
  <2>1. Normalized(s, piece) = s
    BY <1>1, DotDotIsNotSkipped DEF Normalized
  <2>2. QED
    BY <1>0, <1>1, <2>1 DEF Stored
<1>2. CASE piece = DotDot /\ CanClimb(s)
  <2>1. s # <<>> /\ ~IsSkipped(piece)
    BY <1>2 DEF CanClimb, IsSkipped, DotDot, Dot, Empty
  <2>2. Normalized(s, piece) = Front(s) /\ Stored(s, piece) = Front(s)
    BY <1>0, <1>2, <2>1 DEF Normalized, Stored
  <2>3. Len(Front(s)) = Len(s) - 1
    BY <2>1, FrontProperties
  <2>4. QED
    BY <1>0, <2>2, <2>3
<1>3. CASE ~IsSkipped(piece) /\ ~(piece = DotDot /\ CanClimb(s))
  <2>1. Normalized(s, piece) = Append(s, piece)
    BY <1>3 DEF Normalized
  <2>2. Stored(s, piece) = IF Len(s) >= kMaxPathSegments THEN TooMany ELSE Append(s, piece)
    BY <1>0, <1>3 DEF Stored
  <2>3. Len(Append(s, piece)) = Len(s) + 1
    OBVIOUS
  <2>4. QED
    BY <1>0, <2>1, <2>2, <2>3
<1>4. QED
  BY <1>1, <1>2, <1>3


-----------------------------------------------------------------------------
\* Where a path leads.  Names count 1 and climbs -1.

Balance(read, i, j) == Names(read, i, j) - Ups(read, i, j)

Weight(piece) == IF piece = DotDot THEN -1 ELSE IF IsName(piece) THEN 1 ELSE 0

Staying(read) == {n \in DOMAIN read : Stays(read, n)}

LEMMA WeightType ==
    ASSUME NEW piece
    PROVE  /\ Weight(piece) \in {-1, 0, 1}
           /\ Weight(piece) = -1 <=> piece = DotDot
           /\ Weight(piece) = 1 <=> IsName(piece)
           /\ Weight(piece) = 0 <=> IsSkipped(piece)
BY DEF Weight, IsName, IsSkipped, DotDot, Dot, Empty

LEMMA BalanceType ==
    ASSUME NEW read, NEW i \in Int, NEW j \in Int
    PROVE  /\ Names(read, i, j) \in Nat /\ Ups(read, i, j) \in Nat
           /\ Balance(read, i, j) \in Int
           /\ i > j => Balance(read, i, j) = 0
           /\ i = j => Balance(read, i, j) = Weight(read[i])
<1> DEFINE N == {n \in Int : IsName(read[n])}
           U == {n \in Int : read[n] = DotDot}
<1>1. Names(read, i, j) = Count(N, i, j) /\ Ups(read, i, j) = Count(U, i, j)
  <2>1. {n \in i..j : IsName(read[n])} = {n \in i..j : n \in N}
    OBVIOUS
  <2>2. {n \in i..j : read[n] = DotDot} = {n \in i..j : n \in U}
    OBVIOUS
  <2>3. QED
    BY <2>1, <2>2 DEF Names, Ups, Count
<1>2. (i \in N <=> IsName(read[i])) /\ (i \in U <=> read[i] = DotDot)
  OBVIOUS
<1>3. IsName(read[i]) => read[i] # DotDot
  BY DEF IsName
<1> HIDE DEF N, U
<1>4. /\ Count(N, i, j) \in Nat /\ Count(U, i, j) \in Nat
      /\ i > j => Count(N, i, j) = 0 /\ Count(U, i, j) = 0
      /\ i = j => /\ Count(N, i, j) = IF i \in N THEN 1 ELSE 0
                  /\ Count(U, i, j) = IF i \in U THEN 1 ELSE 0
  BY CountType
<1>5. QED
  BY <1>1, <1>2, <1>3, <1>4 DEF Balance, Weight

LEMMA BalanceSplit ==
    ASSUME NEW read, NEW i \in Int, NEW j \in Int, NEW k \in Int, i <= j + 1, j <= k
    PROVE  Balance(read, i, k) = Balance(read, i, j) + Balance(read, j + 1, k)
<1> DEFINE N == {n \in Int : IsName(read[n])}
           U == {n \in Int : read[n] = DotDot}
<1>1. ASSUME NEW l \in Int, NEW m \in Int
      PROVE  Names(read, l, m) = Count(N, l, m) /\ Ups(read, l, m) = Count(U, l, m)
  <2>1. {n \in l..m : IsName(read[n])} = {n \in l..m : n \in N}
    OBVIOUS
  <2>2. {n \in l..m : read[n] = DotDot} = {n \in l..m : n \in U}
    OBVIOUS
  <2>3. QED
    BY <2>1, <2>2 DEF Names, Ups, Count
<1> HIDE DEF N, U
<1>2. /\ Count(N, i, k) = Count(N, i, j) + Count(N, j + 1, k)
      /\ Count(U, i, k) = Count(U, i, j) + Count(U, j + 1, k)
  BY CountSplit
<1>3. j + 1 \in Int
  OBVIOUS
<1>4. \A l, m \in Int : Count(N, l, m) \in Nat /\ Count(U, l, m) \in Nat
  BY CountType
<1>5. QED
  BY <1>1, <1>2, <1>3, <1>4 DEF Balance

\* Only the pieces of the interval count.
LEMMA BalanceSame ==
    ASSUME NEW read, NEW other, NEW i \in Int, NEW j \in Int,
           \A n \in i..j : other[n] = read[n]
    PROVE  Balance(other, i, j) = Balance(read, i, j)
<1>1. {n \in i..j : IsName(other[n])} = {n \in i..j : IsName(read[n])}
  OBVIOUS
<1>2. {n \in i..j : other[n] = DotDot} = {n \in i..j : read[n] = DotDot}
  OBVIOUS
<1>3. QED
  BY <1>1, <1>2 DEF Balance, Names, Ups

\* What stays, by the balance.
LEMMA StaysByBalance ==
    ASSUME NEW read, NEW n \in Nat, Len(read) \in Nat
    PROVE  Stays(read, n) <=>
              \/ /\ IsName(read[n])
                 /\ \A j \in (n + 1)..Len(read) : Balance(read, n + 1, j) >= 0
              \/ /\ read[n] = DotDot
                 /\ \A i \in 1..n : Balance(read, i, n) < 0
<1>1. \A j \in (n + 1)..Len(read) :
         Ups(read, n + 1, j) <= Names(read, n + 1, j) <=> Balance(read, n + 1, j) >= 0
  <2> TAKE j \in (n + 1)..Len(read)
  <2>1. n + 1 \in Int /\ j \in Int
    OBVIOUS
  <2>2. Ups(read, n + 1, j) \in Nat /\ Names(read, n + 1, j) \in Nat
    BY <2>1, BalanceType
  <2>3. QED
    BY <2>2 DEF Balance
<1>2. \A i \in 1..n : Ups(read, i, n) > Names(read, i, n) <=> Balance(read, i, n) < 0
  <2> TAKE i \in 1..n
  <2>1. n \in Int /\ i \in Int
    OBVIOUS
  <2>2. Ups(read, i, n) \in Nat /\ Names(read, i, n) \in Nat
    BY <2>1, BalanceType
  <2>3. QED
    BY <2>2 DEF Balance
<1>3. QED
  BY <1>1, <1>2 DEF Stays

\* If there are more names than climbs from i to the end, a name stays from i on.
LEMMA SurplusStays ==
    ASSUME NEW read, Len(read) \in Nat, DOMAIN read = 1..Len(read),
           NEW i \in 1..Len(read), Balance(read, i, Len(read)) > 0
    PROVE  \E n \in Staying(read) : n >= i /\ IsName(read[n])
<1> DEFINE L == Len(read)
           surplus == {m \in 1..L : m >= i /\ Balance(read, m, L) > 0}
<1>0. L \in Nat /\ L \in Int /\ i \in surplus /\ surplus \in SUBSET (0..L) /\ surplus # {}
  OBVIOUS
<1>1. PICK n : n = Max(surplus)
  OBVIOUS
<1>2. n \in surplus /\ \A m \in surplus : m <= n
  BY <1>0, <1>1, MaxProperties
<1>3. n \in 1..L /\ n >= i /\ Balance(read, n, L) > 0 /\ n \in Int /\ n + 1 \in Int /\ n <= L
  BY <1>0, <1>2
<1> HIDE DEF L
<1>4. ASSUME NEW m \in (n + 1)..(L + 1) PROVE Balance(read, m, L) <= 0
  <2>1. m \in Int /\ L \in Int /\ Balance(read, m, L) \in Int
    BY <1>0, <1>3, BalanceType
  <2>2. CASE m = L + 1
    <3>1. m > L
      BY <1>0, <2>2
    <3>2. Balance(read, m, L) = 0
      BY <2>1, <3>1, BalanceType
    <3>3. QED
      BY <3>2
  <2>3. CASE m # L + 1
    <3>1. m \in 1..L /\ m >= i /\ ~(m <= n)
      BY <1>0, <1>3, <2>3
    <3>2. m \notin surplus
      BY <1>2, <3>1
    <3>3. QED
      BY <2>1, <3>1, <3>2
  <2>4. QED
    BY <2>2, <2>3
<1>5. Balance(read, n, L) = Balance(read, n, n) + Balance(read, n + 1, L)
  BY <1>0, <1>3, BalanceSplit
<1>6. Balance(read, n, n) = Weight(read[n])
  BY <1>3, BalanceType
<1>7. Balance(read, n + 1, L) <= 0 /\ Balance(read, n + 1, L) \in Int
  <2>1. n + 1 \in (n + 1)..(L + 1)
    BY <1>0, <1>3
  <2>2. Balance(read, n + 1, L) \in Int
    BY <1>0, <1>3, BalanceType
  <2>3. QED
    BY <1>4, <2>1, <2>2
<1>8. Weight(read[n]) = 1 /\ Balance(read, n + 1, L) = 0
  BY <1>3, <1>5, <1>6, <1>7, WeightType
<1>9. IsName(read[n])
  BY <1>8, WeightType
<1>10. ASSUME NEW j \in (n + 1)..L PROVE Balance(read, n + 1, j) >= 0
  <2>1. j \in Int /\ j + 1 \in (n + 1)..(L + 1) /\ j + 1 \in Int /\ n + 1 <= j + 1 /\ j <= L
    BY <1>0, <1>3
  <2>2. Balance(read, n + 1, L) = Balance(read, n + 1, j) + Balance(read, j + 1, L)
    BY <1>0, <1>3, <2>1, BalanceSplit
  <2>3. Balance(read, j + 1, L) <= 0
    BY <1>4, <2>1
  <2>4. Balance(read, n + 1, j) \in Int
    BY <1>3, <2>1, BalanceType
  <2>5. Balance(read, j + 1, L) \in Int
    BY <1>0, <2>1, BalanceType
  <2>6. QED
    BY <1>8, <2>2, <2>3, <2>4, <2>5
<1>11. Stays(read, n)
  <2>1. n \in Nat
    BY <1>3
  <2>2. QED
    BY <1>9, <1>10, <2>1, StaysByBalance DEF L
<1>12. QED
  BY <1>3, <1>9, <1>11 DEF Staying, L

\* One more piece adds its weight to every interval that reaches the end.
LEMMA BalanceReadOn ==
    ASSUME NEW read \in Seq(Pieces), NEW piece \in Pieces
    PROVE  LET more == Append(read, piece)
           IN  /\ Len(read) \in Nat /\ DOMAIN read = 1..Len(read)
               /\ Len(more) = Len(read) + 1 /\ DOMAIN more = 1..(Len(read) + 1)
               /\ more[Len(read) + 1] = piece /\ \A n \in 1..Len(read) : more[n] = read[n]
               /\ \A i, j \in 1..Len(read) : Balance(more, i, j) = Balance(read, i, j)
               /\ \A i \in 1..(Len(read) + 1) :
                     Balance(more, i, Len(read) + 1) = Balance(read, i, Len(read)) + Weight(piece)
<1> DEFINE more == Append(read, piece)
           L == Len(read)
<1>1. /\ L \in Nat /\ DOMAIN read = 1..L /\ Len(more) = L + 1 /\ DOMAIN more = 1..(L + 1)
      /\ more[L + 1] = piece /\ \A n \in 1..L : more[n] = read[n]
      /\ L \in Int /\ L + 1 \in Int
  OBVIOUS
<1> HIDE DEF more, L
<1>2. ASSUME NEW i \in Int, NEW j \in Int, i >= 1, j <= L
      PROVE  Balance(more, i, j) = Balance(read, i, j)
  <2>1. \A n \in i..j : n \in 1..L
    BY <1>1, <1>2
  <2>2. \A n \in i..j : more[n] = read[n]
    BY <1>1, <2>1
  <2>3. QED
    BY <2>2, BalanceSame
<1>3. ASSUME NEW i \in 1..(L + 1)
      PROVE  Balance(more, i, L + 1) = Balance(read, i, L) + Weight(piece)
  <2>1. i \in Int /\ i >= 1 /\ i <= L + 1 /\ L <= L + 1 /\ L <= L
    BY <1>1
  <2>2. Balance(more, i, L + 1) = Balance(more, i, L) + Balance(more, L + 1, L + 1)
    BY <1>1, <2>1, BalanceSplit
  <2>3. Balance(more, L + 1, L + 1) = Weight(more[L + 1])
    BY <1>1, BalanceType
  <2>4. Balance(more, i, L) = Balance(read, i, L)
    BY <1>1, <1>2, <2>1
  <2>5. QED
    BY <1>1, <2>2, <2>3, <2>4
<1>4. \A i, j \in 1..L : i \in Int /\ j \in Int /\ i >= 1 /\ j <= L
  BY <1>1
<1>5. QED
  BY <1>1, <1>2, <1>3, <1>4 DEF more, L

\* Which pieces stay, once another piece was read.
LEMMA StayingReadOn ==
    ASSUME NEW read \in Seq(Pieces), NEW piece \in Pieces
    PROVE  LET after == Staying(Append(read, piece))
               L     == Len(read)
           IN  /\ Staying(read) \in SUBSET (1..L) /\ after \in SUBSET (1..(L + 1))
               /\ \A n \in Staying(read) : IsName(read[n]) \/ read[n] = DotDot
               /\ \A n \in 1..L : ~IsName(read[n]) => (n \in after <=> n \in Staying(read))
               /\ \A n \in 1..L : IsName(read[n]) =>
                     (n \in after <=> /\ n \in Staying(read)
                                      /\ Balance(read, n + 1, L) + Weight(piece) >= 0)
               /\ \A n \in Staying(read) : IsName(read[n]) => Balance(read, n + 1, L) >= 0
               /\ L + 1 \in after <=>
                     \/ IsName(piece)
                     \/ piece = DotDot /\ \A i \in 1..L : Balance(read, i, L) <= 0
<1> DEFINE more == Append(read, piece)
           L == Len(read)
<1>1. /\ L \in Nat /\ DOMAIN read = 1..L /\ Len(more) = L + 1 /\ DOMAIN more = 1..(L + 1)
      /\ more[L + 1] = piece /\ \A n \in 1..L : more[n] = read[n]
      /\ \A i, j \in 1..L : Balance(more, i, j) = Balance(read, i, j)
      /\ \A i \in 1..(L + 1) : Balance(more, i, L + 1) = Balance(read, i, L) + Weight(piece)
  BY BalanceReadOn
<1> HIDE DEF more, L
<1>2. L \in Int /\ L + 1 \in Int /\ L + 1 \in Nat /\ L + 1 \in 1..(L + 1)
  BY <1>1
<1>3. Weight(piece) \in {-1, 0, 1} /\ (IsName(piece) => piece # DotDot)
  BY WeightType DEF IsName
<1>4. ASSUME NEW n \in 1..L
      PROVE  /\ n \in Staying(read) <=> Stays(read, n)
             /\ n \in Staying(more) <=> Stays(more, n)
             /\ n \in Nat /\ n + 1 \in 1..(L + 1) /\ more[n] = read[n]
             /\ Balance(read, n + 1, L) \in Int
  <2>1. n \in Nat /\ n + 1 \in 1..(L + 1) /\ n + 1 \in Int /\ n \in 1..(L + 1)
    BY <1>1
  <2>2. Balance(read, n + 1, L) \in Int
    BY <1>2, <2>1, BalanceType
  <2>3. QED
    BY <1>1, <2>1, <2>2 DEF Staying
<1>5. ASSUME NEW n \in 1..L
      PROVE  /\ Stays(read, n) <=>
                  \/ IsName(read[n]) /\ \A j \in (n + 1)..L : Balance(read, n + 1, j) >= 0
                  \/ read[n] = DotDot /\ \A i \in 1..n : Balance(read, i, n) < 0
             /\ Stays(more, n) <=>
                  \/ IsName(read[n]) /\ \A j \in (n + 1)..(L + 1) : Balance(more, n + 1, j) >= 0
                  \/ read[n] = DotDot /\ \A i \in 1..n : Balance(read, i, n) < 0
  <2>1. n \in Nat /\ more[n] = read[n]
    BY <1>4
  <2>2. Stays(read, n) <=>
                  \/ IsName(read[n]) /\ \A j \in (n + 1)..L : Balance(read, n + 1, j) >= 0
                  \/ read[n] = DotDot /\ \A i \in 1..n : Balance(read, i, n) < 0
    BY <1>1, <2>1, StaysByBalance DEF L
  <2>3. Len(more) \in Nat
    BY <1>1
  <2>4. Stays(more, n) <=>
                  \/ IsName(more[n]) /\ \A j \in (n + 1)..Len(more) : Balance(more, n + 1, j) >= 0
                  \/ more[n] = DotDot /\ \A i \in 1..n : Balance(more, i, n) < 0
    BY <2>1, <2>3, StaysByBalance
  <2>5. \A i \in 1..n : Balance(more, i, n) = Balance(read, i, n)
    <3>1. \A i \in 1..n : i \in 1..L
      BY <1>1
    <3>2. QED
      BY <1>1, <3>1
  <2>6. QED
    BY <1>1, <2>1, <2>2, <2>4, <2>5
<1>6. ASSUME NEW n \in Staying(read) PROVE n \in 1..L /\ (IsName(read[n]) \/ read[n] = DotDot)
  <2>1. n \in 1..L
    BY <1>1 DEF Staying
  <2>2. QED
    BY <1>4, <1>5, <2>1
<1>7. ASSUME NEW n \in 1..L, ~IsName(read[n])
      PROVE  n \in Staying(more) <=> n \in Staying(read)
  BY <1>4, <1>5, <1>7
<1>8. ASSUME NEW n \in Staying(read), IsName(read[n]) PROVE Balance(read, n + 1, L) >= 0
  <2>1. n \in 1..L /\ read[n] # DotDot
    BY <1>6, <1>8 DEF IsName
  <2>2. \A j \in (n + 1)..L : Balance(read, n + 1, j) >= 0
    BY <1>4, <1>5, <2>1
  <2>3. CASE n = L
    <3>1. n + 1 > L /\ n + 1 \in Int
      BY <1>1, <2>3
    <3>2. Balance(read, n + 1, L) = 0
      BY <1>2, <3>1, BalanceType
    <3>3. QED
      BY <3>2
  <2>4. CASE n # L
    <3>1. L \in (n + 1)..L
      BY <1>1, <2>1, <2>4
    <3>2. QED
      BY <2>2, <3>1
  <2>5. QED
    BY <2>3, <2>4
<1>9. ASSUME NEW n \in 1..L, IsName(read[n])
      PROVE  n \in Staying(more) <=> /\ n \in Staying(read)
                                     /\ Balance(read, n + 1, L) + Weight(piece) >= 0
  <2>1. read[n] # DotDot
    BY <1>9 DEF IsName
  <2>2. Balance(more, n + 1, L + 1) = Balance(read, n + 1, L) + Weight(piece)
    BY <1>1, <1>4
  <2>3. \A j \in (n + 1)..(L + 1) : j \in (n + 1)..L \/ j = L + 1
    BY <1>1
  <2>4. L + 1 \in (n + 1)..(L + 1) /\ \A j \in (n + 1)..L : j \in (n + 1)..(L + 1)
    BY <1>1
  <2>5. \A j \in (n + 1)..L : Balance(more, n + 1, j) = Balance(read, n + 1, j)
    <3>1. \A j \in (n + 1)..L : n + 1 \in 1..L /\ j \in 1..L
      BY <1>1
    <3>2. QED
      BY <1>1, <3>1
  <2>6. (\A j \in (n + 1)..(L + 1) : Balance(more, n + 1, j) >= 0)
           <=> /\ \A j \in (n + 1)..L : Balance(read, n + 1, j) >= 0
               /\ Balance(read, n + 1, L) + Weight(piece) >= 0
    BY <2>2, <2>3, <2>4, <2>5
  <2>7. QED
    BY <1>4, <1>5, <1>9, <2>1, <2>6
<1>10. L + 1 \in Staying(more) <=>
          \/ IsName(piece)
          \/ piece = DotDot /\ \A i \in 1..L : Balance(read, i, L) <= 0
  <2>1. L + 1 \in Staying(more) <=> Stays(more, L + 1)
    BY <1>1, <1>2 DEF Staying
  <2>2. Stays(more, L + 1) <=>
           \/ IsName(piece) /\ \A j \in (L + 2)..(L + 1) : Balance(more, L + 2, j) >= 0
           \/ piece = DotDot /\ \A i \in 1..(L + 1) : Balance(more, i, L + 1) < 0
    <3>1. Len(more) \in Nat /\ L + 1 + 1 = L + 2
      BY <1>1
    <3>2. Stays(more, L + 1) <=>
           \/ /\ IsName(more[L + 1])
              /\ \A j \in (L + 1 + 1)..Len(more) : Balance(more, L + 1 + 1, j) >= 0
           \/ more[L + 1] = DotDot /\ \A i \in 1..(L + 1) : Balance(more, i, L + 1) < 0
      BY <1>2, <3>1, StaysByBalance
    <3>3. QED
      BY <1>1, <3>1, <3>2
  <2>3. (L + 2)..(L + 1) = {}
    BY <1>1
  <2>4. ASSUME piece = DotDot
        PROVE  (\A i \in 1..(L + 1) : Balance(more, i, L + 1) < 0)
                  <=> \A i \in 1..L : Balance(read, i, L) <= 0
    <3>1. Weight(piece) = -1
      BY <2>4, WeightType
    <3>2. \A i \in 1..L : Balance(more, i, L + 1) < 0 <=> Balance(read, i, L) <= 0
      <4> TAKE i \in 1..L
      <4>1. i \in Int /\ i \in 1..(L + 1)
        BY <1>1
      <4>2. Balance(read, i, L) \in Int
        BY <1>2, <4>1, BalanceType
      <4>3. Balance(more, i, L + 1) = Balance(read, i, L) + Weight(piece)
        BY <1>1, <4>1
      <4>4. QED
        BY <3>1, <4>2, <4>3
    <3>3. Balance(more, L + 1, L + 1) < 0
      <4>1. Balance(more, L + 1, L + 1) = Weight(more[L + 1])
        BY <1>2, BalanceType
      <4>2. QED
        BY <1>1, <3>1, <4>1
    <3>4. \A i \in 1..(L + 1) : i \in 1..L \/ i = L + 1
      BY <1>1
    <3>5. \A i \in 1..L : i \in 1..(L + 1)
      BY <1>1
    <3>6. QED
      BY <3>2, <3>3, <3>4, <3>5
  <2>5. QED
    BY <2>1, <2>2, <2>3, <2>4
<1>11. Staying(read) \in SUBSET (1..L) /\ Staying(more) \in SUBSET (1..(L + 1))
  BY <1>1 DEF Staying
<1>12. QED
  BY <1>6, <1>7, <1>8, <1>9, <1>10, <1>11 DEF more, L

\* A piece that is dropped changes nothing, ...
LEMMA SkippedStaying ==
    ASSUME NEW read \in Seq(Pieces), NEW piece \in Pieces, IsSkipped(piece)
    PROVE  Staying(Append(read, piece)) = Staying(read)
<1> DEFINE L == Len(read)
           after == Staying(Append(read, piece))
<1>1. Weight(piece) = 0 /\ ~IsName(piece) /\ piece # DotDot /\ L \in Nat
  BY WeightType, DotDotIsNotSkipped DEF IsName
<1>2. /\ Staying(read) \in SUBSET (1..L) /\ after \in SUBSET (1..(L + 1))
      /\ \A n \in 1..L : ~IsName(read[n]) => (n \in after <=> n \in Staying(read))
      /\ \A n \in 1..L : IsName(read[n]) =>
            (n \in after <=> n \in Staying(read) /\ Balance(read, n + 1, L) + Weight(piece) >= 0)
      /\ \A n \in Staying(read) : IsName(read[n]) => Balance(read, n + 1, L) >= 0
      /\ L + 1 \notin after
  BY <1>1, StayingReadOn
<1> HIDE DEF after, L
<1>3. ASSUME NEW n \in 1..L PROVE n \in after <=> n \in Staying(read)
  <2>1. n + 1 \in Int /\ L \in Int
    BY <1>1
  <2>2. Balance(read, n + 1, L) \in Int
    BY <2>1, BalanceType
  <2>3. QED
    BY <1>1, <1>2, <2>2
<1>4. \A n \in 1..(L + 1) : n \in 1..L \/ n = L + 1
  BY <1>1
<1>5. after = Staying(read)
  BY <1>2, <1>3, <1>4
<1>6. QED
  BY <1>5 DEF after

\* ... a name stays, and so does a climb that finds no name to take back, ...
LEMMA AddedStaying ==
    ASSUME NEW read \in Seq(Pieces), NEW piece \in Pieces, ~IsSkipped(piece),
           piece = DotDot => \A n \in Staying(read) : ~IsName(read[n])
    PROVE  Staying(Append(read, piece)) = Staying(read) \cup {Len(read) + 1}
<1> DEFINE L == Len(read)
           after == Staying(Append(read, piece))
<1>1. /\ L \in Nat /\ L \in Int /\ (IsName(piece) \/ piece = DotDot)
      /\ DOMAIN read = 1..L
      /\ IsName(piece) => Weight(piece) = 1
  BY WeightType DEF IsName
<1>2. /\ Staying(read) \in SUBSET (1..L) /\ after \in SUBSET (1..(L + 1))
      /\ \A n \in 1..L : ~IsName(read[n]) => (n \in after <=> n \in Staying(read))
      /\ \A n \in 1..L : IsName(read[n]) =>
            (n \in after <=> n \in Staying(read) /\ Balance(read, n + 1, L) + Weight(piece) >= 0)
      /\ \A n \in Staying(read) : IsName(read[n]) => Balance(read, n + 1, L) >= 0
      /\ L + 1 \in after <=>
            \/ IsName(piece)
            \/ piece = DotDot /\ \A i \in 1..L : Balance(read, i, L) <= 0
  BY StayingReadOn
<1>3. L + 1 \in after
  <2>1. ASSUME piece = DotDot, NEW i \in 1..L PROVE Balance(read, i, L) <= 0
    <3>1. Balance(read, i, L) \in Int
      BY <1>1, BalanceType
    <3>2. ~(Balance(read, i, L) > 0)
      BY <1>1, <2>1, SurplusStays
    <3>3. QED
      BY <3>1, <3>2
  <2>2. QED
    BY <1>1, <1>2, <2>1
<1> HIDE DEF after, L
<1>4. ASSUME NEW n \in 1..L PROVE n \in after <=> n \in Staying(read)
  <2>1. n + 1 \in Int
    BY <1>1
  <2>2. Balance(read, n + 1, L) \in Int
    BY <1>1, <2>1, BalanceType
  <2>3. CASE IsName(piece)
    BY <1>1, <1>2, <2>2, <2>3
  <2>4. CASE piece = DotDot
    BY <1>2, <2>4
  <2>5. QED
    BY <1>1, <2>3, <2>4
<1>5. \A n \in 1..(L + 1) : n \in 1..L \/ n = L + 1
  BY <1>1
<1>6. after = Staying(read) \cup {L + 1}
  BY <1>2, <1>3, <1>4, <1>5
<1>7. QED
  BY <1>6 DEF after, L

\* ... and any other climb takes back the last piece that stayed.
LEMMA TakenBackStaying ==
    ASSUME NEW read \in Seq(Pieces), DotDot \in Pieces,
           NEW k \in Staying(read), IsName(read[k]), \A n \in Staying(read) : n <= k
    PROVE  Staying(Append(read, DotDot)) = Staying(read) \ {k}
<1> DEFINE L == Len(read)
           after == Staying(Append(read, DotDot))
<1>1. /\ L \in Nat /\ L \in Int /\ DOMAIN read = 1..L /\ Weight(DotDot) = -1 /\ ~IsName(DotDot)
  BY WeightType DEF IsName
<1>2. /\ Staying(read) \in SUBSET (1..L) /\ after \in SUBSET (1..(L + 1))
      /\ \A n \in 1..L : ~IsName(read[n]) => (n \in after <=> n \in Staying(read))
      /\ \A n \in 1..L : IsName(read[n]) =>
            (n \in after <=> n \in Staying(read) /\ Balance(read, n + 1, L) + Weight(DotDot) >= 0)
      /\ \A n \in Staying(read) : IsName(read[n]) => Balance(read, n + 1, L) >= 0
      /\ L + 1 \in after <=>
            \/ IsName(DotDot)
            \/ DotDot = DotDot /\ \A i \in 1..L : Balance(read, i, L) <= 0
  BY StayingReadOn
<1>3. k \in 1..L /\ k \in Int /\ k + 1 \in Int /\ k - 1 \in Int
  BY <1>1, <1>2
<1>4. Balance(read, k + 1, L) = 0
  <2>1. Balance(read, k + 1, L) \in Int /\ Balance(read, k + 1, L) >= 0
    BY <1>1, <1>2, <1>3, BalanceType
  <2>2. CASE k = L
    <3>1. k + 1 > L
      BY <1>1, <2>2
    <3>2. QED
      BY <1>1, <1>3, <3>1, BalanceType
  <2>3. CASE k # L
    <3>1. k + 1 \in 1..L
      <4>1. L \in Nat
        BY <1>1
      <4>2. QED
        BY <1>3, <2>3, <4>1
    <3>2. ~(Balance(read, k + 1, L) > 0)
      <4>1. SUFFICES ASSUME Balance(read, k + 1, L) > 0 PROVE FALSE
        OBVIOUS
      <4>2. PICK n \in Staying(read) : n >= k + 1
        BY <1>1, <3>1, <4>1, SurplusStays
      <4>3. n <= k /\ n \in Int
        BY <1>2
      <4>4. QED
        BY <1>3, <4>2, <4>3
    <3>3. QED
      BY <2>1, <3>2
  <2>4. QED
    BY <2>2, <2>3
<1> HIDE DEF after, L
<1>5. Balance(read, k, L) = 1
  <2>1. Balance(read, k, L) = Balance(read, k, k) + Balance(read, k + 1, L)
    <3>1. k <= k + 1 /\ k <= L
      BY <1>1, <1>3
    <3>2. QED
      BY <1>1, <1>3, <3>1, BalanceSplit
  <2>2. Balance(read, k, k) = 1
    BY <1>3, BalanceType, WeightType
  <2>3. QED
    BY <1>4, <2>1, <2>2
<1>6. L + 1 \notin after
  BY <1>1, <1>2, <1>3, <1>5
<1>7. k \notin after
  BY <1>1, <1>2, <1>3, <1>4
<1>8. ASSUME NEW n \in 1..L, n # k PROVE n \in after <=> n \in Staying(read)
  <2>1. CASE ~IsName(read[n])
    BY <1>2, <2>1
  <2>2. CASE IsName(read[n]) /\ n \in Staying(read)
    <3>1. n < k /\ n + 1 \in Int /\ n + 1 <= k /\ k - 1 <= L /\ k <= L /\ n + 1 <= k - 1 + 1
          /\ k - 1 + 1 = k
      <4>1. n <= k
        BY <2>2
      <4>2. QED
        BY <1>1, <1>3, <1>8, <4>1
    <3>2. Balance(read, n + 1, L) = Balance(read, n + 1, k - 1) + Balance(read, k, L)
      <4>1. Balance(read, n + 1, L)
              = Balance(read, n + 1, k - 1) + Balance(read, k - 1 + 1, L)
        BY <1>1, <1>3, <3>1, BalanceSplit
      <4>2. QED
        BY <3>1, <4>1
    <3>3. Balance(read, n + 1, k - 1) \in Int /\ Balance(read, n + 1, k - 1) >= 0
      <4>1. Balance(read, n + 1, k - 1) \in Int
        BY <1>3, <3>1, BalanceType
      <4>2. CASE n + 1 > k - 1
        <5>1. Balance(read, n + 1, k - 1) = 0
          BY <1>3, <3>1, <4>2, BalanceType
        <5>2. QED
          BY <5>1
      <4>3. CASE n + 1 <= k - 1
        <5>1. Stays(read, n) /\ n \in Nat
          BY <2>2 DEF Staying
        <5>2. \A j \in (n + 1)..L : Balance(read, n + 1, j) >= 0
          <6>1. read[n] # DotDot
            BY <2>2 DEF IsName
          <6>2. QED
            BY <1>1, <5>1, <6>1, StaysByBalance DEF L
        <5>3. k - 1 \in (n + 1)..L
          BY <1>1, <1>3, <3>1, <4>3
        <5>4. QED
          BY <4>1, <5>2, <5>3
      <4>4. QED
        BY <1>3, <3>1, <4>2, <4>3
    <3>4. Balance(read, n + 1, L) + Weight(DotDot) >= 0
      BY <1>1, <1>5, <3>2, <3>3
    <3>5. QED
      BY <1>2, <2>2, <3>4
  <2>3. CASE IsName(read[n]) /\ n \notin Staying(read)
    BY <1>2, <2>3
  <2>4. QED
    BY <2>1, <2>2, <2>3
<1>9. \A n \in 1..(L + 1) : n \in 1..L \/ n = L + 1
  BY <1>1
<1>10. after = Staying(read) \ {k}
  BY <1>2, <1>6, <1>7, <1>8, <1>9
<1>11. QED
  BY <1>10 DEF after

\* The segments of a path are the pieces that stay, in their order.
Leads(path) ==
    \E kept : /\ Lists(kept, Len(path.segments), Staying(path.read))
              /\ \A i \in 1..Len(path.segments) : path.segments[i] = path.read[kept[i]]

LEMMA LeadsIf ==
    ASSUME NEW path, NEW read, NEW s, path.read = read, path.segments = s,
           \E kept : /\ Lists(kept, Len(s), Staying(read))
                     /\ \A i \in 1..Len(s) : s[i] = read[kept[i]]
    PROVE  Leads(path)
BY DEF Leads

\* So they are what the path is resolved to.
LEMMA LeadsToResolved ==
    ASSUME NEW path \in Paths, Leads(path)
    PROVE  path.segments = Resolved(path.read)
<1> DEFINE n == Len(path.segments)
           S == Staying(path.read)
<1>1. path.segments \in Seq(Kept) /\ path.read \in Seq(Pieces)
  BY DEF Paths
<1>2. n \in Nat /\ S \in SUBSET Nat /\ DOMAIN path.segments = 1..n
      /\ path.segments = [i \in 1..n |-> path.segments[i]]
  BY <1>1 DEF Staying
<1>3. PICK kept : /\ Lists(kept, n, S)
                  /\ \A i \in 1..n : path.segments[i] = path.read[kept[i]]
  BY DEF Leads
<1> HIDE DEF n, S
<1>4. Cardinality(S) = n
  BY <1>2, <1>3, ListCounts
<1>5. \A i \in 1..n : Nth(S, i) = kept[i]
  BY <1>2, <1>3, NthOfList
<1>6. path.segments = [i \in 1..n |-> path.read[Nth(S, i)]]
  BY <1>2, <1>3, <1>5
<1>7. Resolved(path.read) = [i \in 1..Cardinality(S) |-> path.read[Nth(S, i)]]
  BY DEF Resolved, Staying, S
<1>8. QED
  BY <1>4, <1>6, <1>7

\* One round of normalize_path_segment() keeps it so.
LEMMA ReadOnLeads ==
    ASSUME NEW path \in Paths, Front1(path.segments), Leads(path), NEW piece \in Pieces
    PROVE  Leads(ReadPiece(path, piece))
<1> DEFINE read == path.read
           s == path.segments
           n == Len(s)
           S == Staying(read)
           L == Len(read)
           more == Append(read, piece)
<1>1. /\ s \in Seq(Kept) /\ read \in Seq(Pieces) /\ n \in Nat /\ L \in Nat
      /\ DOMAIN s = 1..n /\ S \in SUBSET (1..L) /\ S \in SUBSET Nat
      /\ \A m \in 1..L : more[m] = read[m]
      /\ more[L + 1] = piece
      /\ \A k \in S : IsName(read[k]) \/ read[k] = DotDot
  <2>1. s \in Seq(Kept) /\ read \in Seq(Pieces)
    BY DEF Paths
  <2>2. S \in SUBSET (1..L) /\ \A k \in S : IsName(read[k]) \/ read[k] = DotDot
    BY <2>1, StayingReadOn
  <2>3. QED
    BY <2>1, <2>2
<1>2. PICK kept : Lists(kept, n, S) /\ \A i \in 1..n : s[i] = read[kept[i]]
  BY DEF Leads
<1>3. /\ ReadPiece(path, piece).read = more
      /\ ReadPiece(path, piece).segments = Normalized(s, piece)
  BY DEF ReadPiece
<1> HIDE DEF n, s, read, S, L, more
<1>4. SUFFICES \E k : /\ Lists(k, Len(Normalized(s, piece)), Staying(more))
                      /\ \A i \in 1..Len(Normalized(s, piece)) : Normalized(s, piece)[i] = more[k[i]]
  BY <1>3, LeadsIf
<1>5. \A i \in 1..n : kept[i] \in S /\ kept[i] \in 1..L /\ more[kept[i]] = s[i]
  BY <1>1, <1>2 DEF Lists
<1>6. CASE IsSkipped(piece)
  <2>1. Normalized(s, piece) = s
    BY <1>6, DotDotIsNotSkipped DEF Normalized
  <2>2. Staying(more) = S
    BY <1>1, <1>6, SkippedStaying DEF more, S
  <2>3. QED
    BY <1>2, <1>5, <2>1, <2>2 DEF n
<1>7. CASE piece = DotDot /\ CanClimb(s)
  <2>1. s # <<>> /\ ~IsSkipped(piece) /\ s[n] # DotDot
    BY <1>7, DotDotIsNotSkipped DEF CanClimb, Last, n
  <2>2. Normalized(s, piece) = Front(s)
    BY <1>7, <2>1 DEF Normalized
  <2>3. Len(Front(s)) = n - 1 /\ \A i \in 1..(n - 1) : Front(s)[i] = s[i]
    BY <1>1, <2>1, FrontProperties DEF n
  <2>4. n >= 1 /\ n \in 1..n
    BY <1>1, <2>1 DEF n
  <2>5. /\ kept[n] \in S /\ \A m \in S : m <= kept[n]
        /\ Lists([i \in 1..(n - 1) |-> kept[i]], n - 1, S \ {kept[n]})
    BY <1>1, <1>2, <2>4, ListLess
  <2>6. IsName(read[kept[n]])
    BY <1>1, <1>2, <2>1, <2>4, <2>5
  <2>7. Staying(more) = S \ {kept[n]}
    BY <1>1, <1>7, <2>5, <2>6, TakenBackStaying DEF S, more
  <2> DEFINE k == [i \in 1..(n - 1) |-> kept[i]]
  <2>8. \A i \in 1..(n - 1) : i \in 1..n /\ k[i] = kept[i]
    BY <1>1
  <2> HIDE DEF k
  <2>9. \A i \in 1..(n - 1) : Front(s)[i] = more[k[i]]
    BY <1>5, <2>3, <2>8
  <2>10. QED
    BY <2>2, <2>3, <2>5, <2>7, <2>9 DEF k
<1>8. CASE ~IsSkipped(piece) /\ ~(piece = DotDot /\ CanClimb(s))
  <2>1. Normalized(s, piece) = Append(s, piece)
    BY <1>8 DEF Normalized
  <2>2. /\ Len(Append(s, piece)) = n + 1 /\ Append(s, piece)[n + 1] = piece
        /\ \A i \in 1..n : Append(s, piece)[i] = s[i]
    BY <1>1 DEF n
  <2>3. ASSUME piece = DotDot, NEW m \in S PROVE ~IsName(read[m])
    <3>1. PICK i \in 1..n : kept[i] = m
      BY <1>2 DEF Lists
    <3>2. s # <<>> /\ n \in 1..n /\ i \in 1..n
      BY <1>1, <3>1 DEF n
    <3>3. s[n] = DotDot
      BY <1>8, <2>3, <3>2 DEF CanClimb, Last, n
    <3>4. s[i] = DotDot
      BY <1>1, <3>2, <3>3 DEF Front1, s
    <3>5. read[m] = DotDot
      BY <1>2, <3>1, <3>4
    <3>6. QED
      BY <3>5 DEF IsName
  <2>4. Staying(more) = S \cup {L + 1}
    BY <1>1, <1>8, <2>3, AddedStaying DEF S, more, L
  <2> DEFINE k == [i \in 1..(n + 1) |-> IF i = n + 1 THEN L + 1 ELSE kept[i]]
  <2> DEFINE longer == Append(s, piece)
  <2>5. Lists(k, n + 1, S \cup {L + 1})
    <3>1. L + 1 \in Nat /\ \A m \in S : m < L + 1
      BY <1>1
    <3>2. QED
      BY <1>1, <1>2, <3>1, ListMore
  <2>6. \A i \in 1..(n + 1) : (i = n + 1 /\ k[i] = L + 1) \/ (i \in 1..n /\ k[i] = kept[i])
    BY <1>1
  <2> HIDE DEF k, longer
  <2>7. \A i \in 1..(n + 1) : longer[i] = more[k[i]]
    <3> TAKE i \in 1..(n + 1)
    <3>0. longer[n + 1] = piece /\ \A j \in 1..n : longer[j] = s[j]
      BY <2>2 DEF longer
    <3>1. CASE i = n + 1 /\ k[i] = L + 1
      BY <1>1, <3>0, <3>1
    <3>2. CASE i \in 1..n /\ k[i] = kept[i]
      BY <1>5, <3>0, <3>2
    <3>3. QED
      BY <2>6, <3>1, <3>2
  <2>8. QED
    BY <2>1, <2>2, <2>4, <2>5, <2>7 DEF longer
<1>9. QED
  BY <1>6, <1>7, <1>8

PathInv(path) ==
    /\ path \in Paths
    /\ Front1(path.segments)
    /\ Agree(path)
    /\ Leads(path)
    /\ Len(path.segments) <= path.deepest

ScopeInv == PathInv(granted) /\ PathInv(requested)

\* Reading one more piece preserves what is true of a path.
LEMMA ReadPreserves ==
    ASSUME NEW path, PathInv(path), NEW piece \in Pieces
    PROVE  PathInv(ReadPiece(path, piece))
<1> DEFINE next == ReadPiece(path, piece)
           segments == Normalized(path.segments, piece)
<1>1. /\ path.read \in Seq(Pieces) /\ path.segments \in Seq(Kept)
      /\ path.out \in Seq(Kept) \cup {TooMany} /\ path.deepest \in Nat
      /\ Front1(path.segments) /\ Agree(path) /\ Len(path.segments) <= path.deepest
      /\ Len(path.segments) \in Nat /\ kMaxPathSegments \in Nat
  BY ScopeAssumption DEF PathInv, Paths
<1>2. /\ segments \in Seq(Kept) /\ Len(segments) <= Len(path.segments) + 1
      /\ Front1(segments) /\ Len(segments) \in Nat
  BY <1>1, NormalizedProperties
<1>3. /\ next.read = Append(path.read, piece) /\ next.segments = segments
      /\ next.out = Stored(path.out, piece)
      /\ next.deepest = IF Len(segments) > path.deepest THEN Len(segments) ELSE path.deepest
      /\ next = [read |-> next.read, segments |-> next.segments, out |-> next.out,
                 deepest |-> next.deepest]
  BY DEF ReadPiece
<1> HIDE DEF next, segments
<1>4. Agree(next)
  <2>1. CASE path.deepest <= kMaxPathSegments
    <3>1. path.out = path.segments /\ Len(path.segments) <= kMaxPathSegments
      BY <1>1, <2>1 DEF Agree
    <3>2. next.out = IF Len(segments) <= kMaxPathSegments THEN segments ELSE TooMany
      BY <1>1, <1>3, <3>1, StoredProperties DEF segments
    <3>3. next.deepest <= kMaxPathSegments <=> Len(segments) <= kMaxPathSegments
      BY <1>1, <1>2, <1>3, <2>1
    <3>4. QED
      BY <1>3, <3>2, <3>3 DEF Agree
  <2>2. CASE path.deepest > kMaxPathSegments
    <3>1. path.out = TooMany
      BY <1>1, <2>2 DEF Agree
    <3>2. next.out = TooMany
      BY <1>3, <3>1 DEF Stored
    <3>3. ~(next.deepest <= kMaxPathSegments)
      BY <1>1, <1>2, <1>3, <2>2
    <3>4. QED
      BY <3>2, <3>3 DEF Agree
  <2>3. QED
    BY <1>1, <2>1, <2>2
<1>5. next.deepest \in Nat /\ Len(segments) <= next.deepest
  BY <1>1, <1>2, <1>3
<1>6. next.out \in Seq(Kept) \cup {TooMany}
  BY <1>2, <1>3, <1>4 DEF Agree
<1>7. next \in Paths
  <2>1. next.read \in Seq(Pieces)
    BY <1>1, <1>3
  <2>2. [read |-> next.read, segments |-> next.segments, out |-> next.out,
         deepest |-> next.deepest] \in Paths
    BY <1>2, <1>3, <1>5, <1>6, <2>1 DEF Paths
  <2>3. QED
    BY <1>3, <2>2
<1>8. Leads(next)
  BY ReadOnLeads DEF PathInv, next
<1>9. QED
  BY <1>2, <1>3, <1>4, <1>5, <1>7, <1>8 DEF PathInv, next

-----------------------------------------------------------------------------
\* escapes_root().

\* A path climbs above its root if and only if its first segment says so.
LEMMA ClimbsShows ==
    ASSUME NEW path \in Paths, Front1(path.segments), Leads(path)
    PROVE  Climbs(path.read) <=> path.segments # <<>> /\ path.segments[1] = DotDot
<1> DEFINE read == path.read
           s == path.segments
           n == Len(s)
           L == Len(read)
<1>1. /\ s \in Seq(Kept) /\ n \in Nat /\ L \in Nat /\ L \in Int
      /\ DOMAIN s = 1..n /\ DOMAIN read = 1..L
      /\ s # <<>> <=> n >= 1
  BY DEF Paths
<1>2. PICK kept : Lists(kept, n, Staying(read)) /\ \A i \in 1..n : s[i] = read[kept[i]]
  BY DEF Leads
<1> HIDE DEF n, s, read, L
<1>3. Climbs(read) <=> \E j \in 1..L : Balance(read, 1, j) < 0
  <2>1. \A j \in 1..L : Ups(read, 1, j) > Names(read, 1, j) <=> Balance(read, 1, j) < 0
    <3> TAKE j \in 1..L
    <3>1. 1 \in Int /\ j \in Int
      OBVIOUS
    <3>2. Ups(read, 1, j) \in Nat /\ Names(read, 1, j) \in Nat
      BY <3>1, BalanceType
    <3>3. QED
      BY <3>2 DEF Balance
  <2>2. QED
    BY <1>1, <2>1 DEF Climbs
<1>4. ASSUME s # <<>>, s[1] = DotDot PROVE Climbs(read)
  <2>1. 1 \in 1..n
    BY <1>1, <1>4
  <2>2. kept[1] \in Staying(read) /\ read[kept[1]] = DotDot
    BY <1>2, <1>4, <2>1 DEF Lists
  <2>3. kept[1] \in 1..L /\ kept[1] \in Nat /\ Stays(read, kept[1])
    BY <1>1, <2>2 DEF Staying
  <2>4. ~IsName(read[kept[1]])
    BY <2>2 DEF IsName
  <2>5. \A i \in 1..kept[1] : Balance(read, i, kept[1]) < 0
    BY <1>1, <2>3, <2>4, StaysByBalance DEF L
  <2>6. 1 \in 1..kept[1]
    BY <2>3
  <2>7. QED
    BY <1>3, <2>3, <2>5, <2>6
<1>5. ASSUME NEW j \in 1..L, Balance(read, 1, j) < 0 PROVE s # <<>> /\ s[1] = DotDot
  <2> DEFINE below == {k \in 1..L : Balance(read, 1, k) < 0}
  <2>1. PICK m : m = Min(below)
    OBVIOUS
  <2>2. m \in below /\ \A k \in below : m <= k
    <3>1. below \in SUBSET Nat /\ below # {}
      BY <1>5
    <3>2. QED
      BY <2>1, <3>1, MinProperties
  <2>3. m \in 1..L /\ m \in Int /\ m \in Nat /\ Balance(read, 1, m) < 0
    BY <2>2
  <2>4. ASSUME NEW k \in 0..(m - 1) PROVE Balance(read, 1, k) >= 0 /\ Balance(read, 1, k) \in Int
    <3>1. k \in Int /\ 1 \in Int
      OBVIOUS
    <3>2. Balance(read, 1, k) \in Int /\ (1 > k => Balance(read, 1, k) = 0)
      BY <3>1, BalanceType
    <3>3. CASE k = 0
      BY <3>2, <3>3
    <3>4. CASE k # 0
      <4>1. k \in 1..L /\ ~(m <= k)
        BY <1>1, <2>3, <3>4
      <4>2. k \notin below
        BY <2>2, <4>1
      <4>3. QED
        BY <3>2, <4>1, <4>2
    <3>5. QED
      BY <3>3, <3>4
  <2> HIDE DEF below
  <2>5. ASSUME NEW i \in 1..m PROVE Balance(read, i, m) < 0
    <3>1. i - 1 \in 0..(m - 1) /\ i - 1 \in Int /\ 1 <= i - 1 + 1 /\ i - 1 <= m /\ i - 1 + 1 = i
          /\ i \in Int /\ 1 \in Int
      BY <2>3
    <3>2. Balance(read, 1, m) = Balance(read, 1, i - 1) + Balance(read, i - 1 + 1, m)
      BY <2>3, <3>1, BalanceSplit
    <3>3. Balance(read, i, m) \in Int
      BY <2>3, <3>1, BalanceType
    <3>4. QED
      BY <2>3, <2>4, <3>1, <3>2, <3>3
  <2>6. read[m] = DotDot
    <3>1. m \in 1..m
      BY <2>3
    <3>2. Balance(read, m, m) < 0
      BY <2>5, <3>1
    <3>3. Balance(read, m, m) = Weight(read[m])
      BY <2>3, BalanceType
    <3>4. QED
      BY <3>2, <3>3, WeightType
  <2>7. m \in Staying(read)
    BY <1>1, <2>3, <2>5, <2>6, StaysByBalance DEF Staying, L
  <2>8. PICK i \in 1..n : kept[i] = m
    BY <1>2, <2>7 DEF Lists
  <2>9. s[i] = DotDot /\ i \in DOMAIN s /\ 1 \in 1..i /\ n >= 1
    BY <1>1, <1>2, <2>6, <2>8
  <2>10. s[1] = DotDot
    BY <2>9 DEF Front1, s
  <2>11. QED
    BY <1>1, <2>9, <2>10
<1>6. QED
  BY <1>3, <1>4, <1>5 DEF read, s

LEMMA EscapesLeaves == PathInv(requested) => EscapesIffItLeaves
<1> SUFFICES ASSUME PathInv(requested) PROVE EscapesIffItLeaves
  OBVIOUS
<1>1. requested.segments = Resolved(requested.read)
  BY LeadsToResolved DEF PathInv
<1>2. Climbs(requested.read)
         <=> requested.segments # <<>> /\ requested.segments[1] = DotDot
  BY ClimbsShows DEF PathInv
<1>3. QED
  BY <1>1, <1>2 DEF EscapesIffItLeaves, escapes_root, IsAbsolute

-----------------------------------------------------------------------------
\* Wildcards.

LEMMA BeforeDoubleStarIs ==
    ASSUME NEW S, NEW s \in Seq(S)
    PROVE  BeforeDoubleStar(s) = {i \in DOMAIN s : \A j \in 1..i : s[j] # DoubleStar}
<1> DEFINE I == {i \in 1..Len(s) : s[i] = DoubleStar}
<1>1. DOMAIN s = 1..Len(s) /\ Len(s) \in Nat /\ I \in SUBSET Nat
  OBVIOUS
<1>2. BeforeDoubleStar(s) = LET i == IF I # {} THEN Min(I) ELSE 0
                            IN  IF i = 0 THEN DOMAIN s ELSE 1..(i - 1)
  BY DEF BeforeDoubleStar, SelectInSeq
<1>3. CASE I = {}
  <2>1. \A i \in DOMAIN s : \A j \in 1..i : j \in 1..Len(s)
    BY <1>1
  <2>2. \A j \in 1..Len(s) : s[j] # DoubleStar
    BY <1>3
  <2>3. QED
    BY <1>2, <1>3, <2>1, <2>2
<1>4. CASE I # {}
  <2>1. PICK m : m = Min(I)
    OBVIOUS
  <2>2. m \in I /\ \A k \in I : m <= k
    BY <1>1, <1>4, <2>1, MinProperties
  <2>3. m \in 1..Len(s) /\ s[m] = DoubleStar
    BY <2>2
  <2>4. BeforeDoubleStar(s) = 1..(m - 1)
    BY <1>2, <1>4, <2>1, <2>3
  <2>5. ASSUME NEW i \in 1..(m - 1) PROVE i \in DOMAIN s /\ \A j \in 1..i : s[j] # DoubleStar
    <3>1. i \in 1..Len(s) /\ \A j \in 1..i : j \in 1..Len(s) /\ ~(m <= j)
      BY <1>1, <2>3
    <3>2. \A j \in 1..i : j \notin I
      BY <2>2, <3>1
    <3>3. QED
      BY <1>1, <3>1, <3>2
  <2>6. ASSUME NEW i \in DOMAIN s, \A j \in 1..i : s[j] # DoubleStar PROVE i \in 1..(m - 1)
    <3>1. m \notin 1..i
      BY <2>3, <2>6
    <3>2. QED
      BY <1>1, <2>3, <3>1
  <2>7. QED
    BY <2>4, <2>5, <2>6
<1>5. QED
  BY <1>3, <1>4

\* A pattern without a '*' matches itself only.
LEMMA LiteralMatches ==
    ASSUME NEW S, NEW pattern \in Seq(S), NEW piece, \A n \in DOMAIN pattern : pattern[n] # "*",
           segment_matches(pattern, piece)
    PROVE  pattern = piece
<1>1. {n \in 1..Len(pattern) : pattern[n] = "*"} = {}
  OBVIOUS
<1>2. SelectInSeq(pattern, LAMBDA c : c = "*") = 0
  BY <1>1 DEF SelectInSeq
<1>3. QED
  BY <1>2 DEF segment_matches

LEMMA StarsAreNotLiteral ==
    /\ \E n \in DOMAIN Star : Star[n] = "*"
    /\ \E n \in DOMAIN DoubleStar : DoubleStar[n] = "*"
    /\ Star # DoubleStar /\ Star # Empty /\ DoubleStar # Empty
    /\ Star \notin Verbs /\ DoubleStar \notin Verbs /\ Empty \notin Verbs
    /\ \A v \in Verbs : v \in Seq(Range(v)) /\ \A n \in DOMAIN v : v[n] # "*"
<1>1. DOMAIN Star = {1} /\ Star[1] = "*" /\ DOMAIN DoubleStar = {1, 2} /\ DoubleStar[1] = "*"
  BY DEF Star, DoubleStar
<1>2. Star # DoubleStar /\ Star # Empty /\ DoubleStar # Empty
  BY DEF Star, DoubleStar, Empty
<1>3. Star \notin Verbs /\ DoubleStar \notin Verbs /\ Empty \notin Verbs
  BY DEF Star, DoubleStar, Empty, Verbs
<1>4. ASSUME NEW v \in Verbs PROVE v \in Seq(Range(v)) /\ \A n \in DOMAIN v : v[n] # "*"
  <2>1. v = <<"r">> \/ v = <<"w">>
    BY DEF Verbs
  <2>2. DOMAIN v = {1} /\ (v[1] = "r" \/ v[1] = "w") /\ v = <<v[1]>>
    BY <2>1
  <2>3. v \in Seq(Range(v))
    <3>1. Range(v) = {v[1]}
      BY <2>2 DEF Range
    <3>2. \A x : <<x>> \in Seq({x})
      OBVIOUS
    <3>3. QED
      BY <2>2, <3>1, <3>2
  <2>4. QED
    BY <2>2, <2>3
<1>5. QED
  BY <1>1, <1>2, <1>3, <1>4

\* A literal segment of a pattern is matched by itself only, ...
LEMMA GlobLiteral ==
    ASSUME NEW p, NEW t, NEW S, p.out \in Seq(S), t.out \in Seq(S),
           \A piece \in S : piece \in Seq(Range(piece)), path_glob_matches(p, t), NEW i \in LiteralPrefix(p.out)
    PROVE  i \in DOMAIN t.out /\ t.out[i] = p.out[i]
<1>1. i \in DOMAIN p.out /\ \A j \in 1..i : \A n \in DOMAIN p.out[j] : p.out[j][n] # "*"
  BY DEF LiteralPrefix
<1>2. /\ DOMAIN p.out = 1..Len(p.out) /\ DOMAIN t.out = 1..Len(t.out)
      /\ Len(t.out) \in Nat /\ Len(p.out) \in Nat /\ p.out[i] \in Seq(Range(p.out[i]))
  BY <1>1
<1>3. \A j \in 1..i : p.out[j] # DoubleStar /\ p.out[j] # Star
  BY <1>1, StarsAreNotLiteral
<1>4. i \in BeforeDoubleStar(p.out)
  BY <1>1, <1>3, BeforeDoubleStarIs
<1>5. i <= Len(t.out) /\ (p.out[i] = Star \/ segment_matches(p.out[i], t.out[i]))
  BY <1>4 DEF path_glob_matches
<1>6. i \in 1..i
  BY <1>1, <1>2
<1>7. p.out[i] = t.out[i]
  BY <1>1, <1>2, <1>3, <1>5, <1>6, LiteralMatches
<1>8. QED
  BY <1>1, <1>2, <1>5, <1>7

\* ... and without "**" there are as many segments on either side.
LEMMA GlobLength ==
    ASSUME NEW p, NEW t, path_glob_matches(p, t), ~HasDoubleStar(p.out)
    PROVE  Len(p.out) = Len(t.out)
BY DEF path_glob_matches

\* What matching two scopes means for one pair of their segments.
RawOf(path) == IF Len(path.read) = 1 THEN path.read[1] ELSE Empty

Glob(p, t) == p.out # TooMany /\ t.out # TooMany /\ path_glob_matches(p, t)

Granted(p, t) == RawOf(p) = Star \/ Glob(p, t)

LEMMA ScopeMatches ==
    ASSUME NEW S, NEW g \in Seq(S), NEW r \in Seq(S), scope_matches(g, r)
    PROVE  /\ \A i \in DOMAIN g : (\A j \in 1..i : RawOf(g[j]) # DoubleStar)
                 => i <= Len(r) /\ Granted(g[i], r[i])
           /\ (\E i \in DOMAIN g : RawOf(g[i]) = DoubleStar) \/ Len(g) = Len(r)
<1> DEFINE raw == [i \in DOMAIN g |-> IF Len(g[i].read) = 1 THEN g[i].read[1] ELSE Empty]
<1>1. DOMAIN g = 1..Len(g) /\ Len(g) \in Nat
  OBVIOUS
<1>2. DOMAIN raw = DOMAIN g /\ \A i \in DOMAIN g : raw[i] = RawOf(g[i])
  BY DEF RawOf
<1>3. raw \in Seq({RawOf(g[i]) : i \in DOMAIN g})
  <2>1. raw \in [1..Len(g) -> {RawOf(g[i]) : i \in DOMAIN g}]
    BY <1>1, <1>2
  <2>2. QED
    BY <1>1, <2>1
<1>4. /\ \A i \in BeforeDoubleStar(raw) :
           /\ i <= Len(r)
           /\ \/ raw[i] = Star
              \/ g[i].out # TooMany /\ r[i].out # TooMany /\ path_glob_matches(g[i], r[i])
      /\ HasDoubleStar(raw) \/ Len(g) = Len(r)
  BY DEF scope_matches
<1> HIDE DEF raw
<1>5. BeforeDoubleStar(raw) = {i \in DOMAIN raw : \A j \in 1..i : raw[j] # DoubleStar}
  BY <1>3, BeforeDoubleStarIs
<1>6. ASSUME NEW i \in DOMAIN g, \A j \in 1..i : RawOf(g[j]) # DoubleStar
      PROVE  i <= Len(r) /\ Granted(g[i], r[i])
  <2>1. \A j \in 1..i : j \in DOMAIN g
    BY <1>1
  <2>2. \A j \in 1..i : raw[j] # DoubleStar
    BY <1>2, <1>6, <2>1
  <2>3. i \in BeforeDoubleStar(raw)
    BY <1>2, <1>5, <2>2
  <2>4. raw[i] = RawOf(g[i])
    BY <1>2
  <2>5. QED
    BY <1>4, <2>3, <2>4 DEF Granted, Glob
<1>7. (\E i \in DOMAIN g : RawOf(g[i]) = DoubleStar) \/ Len(g) = Len(r)
  BY <1>2, <1>4 DEF HasDoubleStar
<1>8. QED
  BY <1>6, <1>7

LEMMA Pairing ==
    ASSUME NEW x, NEW y
    PROVE  <<x>> \o <<y>> = <<x, y>>
<1> DEFINE S == {x, y}
           c == <<x>> \o <<y>>
<1>1. <<x>> \in Seq(S) /\ <<y>> \in Seq(S) /\ <<x, y>> \in Seq(S)
  OBVIOUS
<1>2. c \in Seq(S) /\ Len(c) = 2 /\ c[1] = x /\ c[2] = y
  BY <1>1
<1> HIDE DEF c
<1>3. c = [i \in 1..2 |-> c[i]]
  BY <1>2
<1>4. \A i \in 1..2 : i = 1 \/ i = 2
  OBVIOUS
<1>5. \A i \in 1..2 : c[i] = <<x, y>>[i]
  BY <1>2, <1>4
<1>6. <<x, y>> = [i \in 1..2 |-> <<x, y>>[i]]
  BY <1>1
<1>7. QED
  BY <1>3, <1>5, <1>6 DEF c

\* The verb and the path that a scope is made of.
LEMMA ScopeShape ==
    ASSUME NEW verb, NEW path
    PROVE  /\ verb = Empty /\ IsBlank(path) => ScopeOf(verb, path) = <<>>
           /\ verb = Empty /\ ~IsBlank(path) => ScopeOf(verb, path) = <<path>>
           /\ verb # Empty /\ IsBlank(path) => ScopeOf(verb, path) = <<Word(verb)>>
           /\ verb # Empty /\ ~IsBlank(path) => ScopeOf(verb, path) = <<Word(verb), path>>
<1>1. <<Word(verb)>> \o <<path>> = <<Word(verb), path>>
  BY Pairing
<1>2. <<Word(verb)>> \o <<>> = <<Word(verb)>> /\ <<>> \o <<path>> = <<path>>
      /\ <<>> \o <<>> = <<>>
  OBVIOUS
<1>3. QED
  BY <1>1, <1>2, Zenon DEF ScopeOf

LEMMA WordFacts ==
    ASSUME NEW w
    PROVE  Word(w).read = <<w>> /\ Word(w).out = <<w>> /\ RawOf(Word(w)) = w
BY DEF Word, RawOf

\* v and w are the verbs of the grant and of the request, p and q the paths.
LEMMA MatchCases ==
    ASSUME NEW v, NEW w, NEW p, NEW q, v # DoubleStar,
           scope_matches(ScopeOf(v, p), ScopeOf(w, q))
    PROVE  /\ v # Empty => \/ w # Empty /\ Granted(Word(v), Word(w))
                           \/ w = Empty /\ ~IsBlank(q) /\ Granted(Word(v), q)
           /\ \/ IsBlank(p)
              \/ RawOf(p) = DoubleStar
              \/ v = Empty /\ w # Empty /\ IsBlank(q) /\ Granted(p, Word(w))
              \/ (v = Empty <=> w = Empty) /\ ~IsBlank(q) /\ Granted(p, q)
<1> DEFINE g == ScopeOf(v, p)
           r == ScopeOf(w, q)
           S == {Word(v), Word(w), p, q}
<1>1. /\ v = Empty /\ IsBlank(p) => g = <<>>
      /\ v = Empty /\ ~IsBlank(p) => g = <<p>>
      /\ v # Empty /\ IsBlank(p) => g = <<Word(v)>>
      /\ v # Empty /\ ~IsBlank(p) => g = <<Word(v), p>>
      /\ w = Empty /\ IsBlank(q) => r = <<>>
      /\ w = Empty /\ ~IsBlank(q) => r = <<q>>
      /\ w # Empty /\ IsBlank(q) => r = <<Word(w)>>
      /\ w # Empty /\ ~IsBlank(q) => r = <<Word(w), q>>
  BY ScopeShape
<1>2. scope_matches(g, r) /\ RawOf(Word(v)) = v
  BY WordFacts
<1> HIDE DEF g, r
<1>3. g \in Seq(S) /\ r \in Seq(S)
  <2>1. /\ Word(v) \in S /\ Word(w) \in S /\ p \in S /\ q \in S
    OBVIOUS
  <2> HIDE DEF S
  <2>2. \A x, y \in S : <<x>> \in Seq(S) /\ <<x, y>> \in Seq(S)
    OBVIOUS
  <2>3. <<>> \in Seq(S)
    OBVIOUS
  <2>4. QED
    BY <1>1, <2>1, <2>2, <2>3, Zenon
<1>4. /\ \A i \in DOMAIN g : (\A j \in 1..i : RawOf(g[j]) # DoubleStar)
                 => i <= Len(r) /\ Granted(g[i], r[i])
      /\ (\E i \in DOMAIN g : RawOf(g[i]) = DoubleStar) \/ Len(g) = Len(r)
  BY <1>2, <1>3, ScopeMatches
<1> HIDE DEF S
<1>5. ASSUME 1 \in DOMAIN g, RawOf(g[1]) # DoubleStar PROVE 1 <= Len(r) /\ Granted(g[1], r[1])
  BY <1>4, <1>5
<1>6. ASSUME 2 \in DOMAIN g, RawOf(g[1]) # DoubleStar, RawOf(g[2]) # DoubleStar
      PROVE  2 <= Len(r) /\ Granted(g[2], r[2])
  <2>1. \A j \in 1..2 : j = 1 \/ j = 2
    OBVIOUS
  <2>2. QED
    BY <1>4, <1>6, <2>1
<1>7. CASE v = Empty /\ ~IsBlank(p)
  <2>1. g = <<p>> /\ 1 \in DOMAIN g /\ DOMAIN g = {1} /\ Len(g) = 1 /\ g[1] = p
    BY <1>1, <1>7
  <2>2. SUFFICES ASSUME RawOf(p) # DoubleStar
                 PROVE  \/ v = Empty /\ w # Empty /\ IsBlank(q) /\ Granted(p, Word(w))
                        \/ (v = Empty <=> w = Empty) /\ ~IsBlank(q) /\ Granted(p, q)
    BY <1>7
  <2>3. Granted(p, r[1]) /\ Len(r) = 1
    BY <1>4, <1>5, <2>1, <2>2
  <2>4. QED
    BY <1>1, <1>7, <2>3
<1>8. CASE v # Empty /\ IsBlank(p)
  <2>1. g = <<Word(v)>> /\ 1 \in DOMAIN g /\ g[1] = Word(v)
    BY <1>1, <1>8
  <2>2. Granted(Word(v), r[1]) /\ 1 <= Len(r)
    BY <1>2, <1>5, <2>1
  <2>3. QED
    BY <1>1, <1>8, <2>2
<1>9. CASE v # Empty /\ ~IsBlank(p)
  <2>1. g = <<Word(v), p>> /\ DOMAIN g = {1, 2} /\ g[1] = Word(v) /\ g[2] = p /\ Len(g) = 2
    BY <1>1, <1>9
  <2>2. Granted(Word(v), r[1]) /\ 1 <= Len(r)
    BY <1>2, <1>5, <2>1
  <2>3. RawOf(p) # DoubleStar => Granted(p, r[2]) /\ 2 <= Len(r)
    BY <1>2, <1>6, <2>1
  <2>4. QED
    BY <1>1, <1>9, <2>2, <2>3
<1>10. QED
  BY <1>7, <1>8, <1>9

\* Every segment of a path is one of the pieces that were read.
LEMMA SegmentsWereRead ==
    ASSUME NEW path \in Paths, Leads(path), NEW i \in DOMAIN path.segments
    PROVE  /\ path.segments[i] \in Range(path.read) /\ path.segments[i] \in Kept
           /\ path.segments[i] \in Seq(Range(path.segments[i]))
<1>1. /\ path.segments \in Seq(Kept) /\ path.read \in Seq(Pieces)
      /\ i \in 1..Len(path.segments)
  BY DEF Paths
<1>2. PICK kept : /\ Lists(kept, Len(path.segments), Staying(path.read))
                  /\ \A k \in 1..Len(path.segments) : path.segments[k] = path.read[kept[k]]
  BY DEF Leads
<1>3. kept[i] \in DOMAIN path.read
  BY <1>1, <1>2 DEF Lists, Staying
<1>4. path.segments[i] \in Range(path.read)
  BY <1>1, <1>2, <1>3 DEF Range
<1>5. path.segments[i] \in Kept
  BY <1>1
<1>6. QED
  BY <1>4, <1>5, ScopeAssumption DEF Kept

\* A path that is not there, or a wildcard by itself, spells nothing out.
LEMMA NothingSpelledOut ==
    ASSUME NEW path \in Paths, Leads(path), IsBlank(path) \/ RawOf(path) \in {Star, DoubleStar}
    PROVE  LiteralPrefix(path.segments) = {}
<1> SUFFICES ASSUME NEW i \in LiteralPrefix(path.segments) PROVE FALSE
  OBVIOUS
<1>1. i \in DOMAIN path.segments /\ path.segments \in Seq(Kept) /\ path.read \in Seq(Pieces)
  BY DEF LiteralPrefix, Paths
<1>2. path.segments[i] \in Range(path.read) /\ path.segments[i] # Empty
  BY <1>1, SegmentsWereRead DEF Kept
<1>3. PICK n \in DOMAIN path.read : path.segments[i] = path.read[n]
  BY <1>2 DEF Range
<1>4. CASE IsBlank(path)
  <2>1. path.read = <<>> \/ path.read = <<Empty>>
    BY <1>4 DEF IsBlank
  <2>2. path.read[n] = Empty
    BY <1>3, <2>1
  <2>3. QED
    BY <1>2, <1>3, <2>2
<1>5. CASE RawOf(path) \in {Star, DoubleStar}
  <2>1. Len(path.read) = 1 /\ path.read[1] \in {Star, DoubleStar}
    BY <1>5, StarsAreNotLiteral DEF RawOf
  <2>2. n = 1
    BY <1>1, <2>1
  <2>3. path.segments[i] \in {Star, DoubleStar}
    BY <1>3, <2>1, <2>2
  <2>4. i \in 1..i
    BY <1>1
  <2>5. \A k \in DOMAIN path.segments[i] : path.segments[i][k] # "*"
    BY <2>4 DEF LiteralPrefix
  <2>6. QED
    BY <2>3, <2>5, StarsAreNotLiteral
<1>6. QED
  BY <1>4, <1>5

\* A path that was not given up is matched by its segments.
LEMMA OutIsSegments ==
    ASSUME NEW path, PathInv(path), path.out # TooMany
    PROVE  /\ path \in Paths /\ Leads(path) /\ path.deepest <= kMaxPathSegments
           /\ path.out = path.segments /\ path.out \in Seq(Kept)
BY DEF PathInv, Agree, Paths

LEMMA PiecesAreSequences == \A piece \in Kept \cup Verbs : piece \in Seq(Range(piece))
BY ScopeAssumption, StarsAreNotLiteral DEF Kept

\* What the grant's path spells out is what the request leads through, ...
LEMMA GlobSegments ==
    ASSUME NEW p, NEW t, PathInv(p), PathInv(t), Glob(p, t), NEW i \in LiteralPrefix(p.segments)
    PROVE  i \in DOMAIN t.segments /\ t.segments[i] = p.segments[i]
<1>1. /\ p.out = p.segments /\ p.out \in Seq(Kept) /\ t.out = t.segments /\ t.out \in Seq(Kept)
      /\ path_glob_matches(p, t)
  BY OutIsSegments DEF Glob
<1>2. \A piece \in Kept : piece \in Seq(Range(piece))
  BY PiecesAreSequences
<1>3. i \in LiteralPrefix(p.out)
  BY <1>1
<1>4. i \in DOMAIN t.out /\ t.out[i] = p.out[i]
  BY <1>1, <1>2, <1>3, GlobLiteral
<1>5. QED
  BY <1>1, <1>4

\* ... a verb matches that verb only, ...
LEMMA WordIsLiteral ==
    ASSUME NEW v \in Verbs
    PROVE  /\ Word(v).out \in Seq(Kept \cup Verbs) /\ Word(v).out = <<v>>
           /\ 1 \in LiteralPrefix(Word(v).out) /\ RawOf(Word(v)) # Star
<1>1. Word(v).out = <<v>> /\ RawOf(Word(v)) = v
  BY WordFacts
<1>2. <<v>> \in Seq(Kept \cup Verbs) /\ DOMAIN <<v>> = {1} /\ <<v>>[1] = v
  OBVIOUS
<1>3. 1..1 = {1}
  OBVIOUS
<1>4. \A n \in DOMAIN v : v[n] # "*"
  BY StarsAreNotLiteral
<1>5. 1 \in LiteralPrefix(<<v>>)
  BY <1>2, <1>3, <1>4 DEF LiteralPrefix
<1>6. QED
  BY <1>1, <1>2, <1>5, StarsAreNotLiteral

LEMMA VerbMatchesVerb ==
    ASSUME NEW v \in Verbs, NEW w \in Verbs, Granted(Word(v), Word(w))
    PROVE  v = w
<1>1. /\ Word(v).out \in Seq(Kept \cup Verbs) /\ Word(v).out = <<v>>
      /\ 1 \in LiteralPrefix(Word(v).out) /\ RawOf(Word(v)) # Star
      /\ Word(w).out \in Seq(Kept \cup Verbs) /\ Word(w).out = <<w>>
  BY WordIsLiteral
<1>2. path_glob_matches(Word(v), Word(w))
  BY <1>1 DEF Granted, Glob
<1> DEFINE p == Word(v)
           t == Word(w)
           S == Kept \cup Verbs
<1>3. \A piece \in S : piece \in Seq(Range(piece))
  BY PiecesAreSequences
<1> HIDE DEF p, t, S
<1>4. 1 \in DOMAIN t.out /\ t.out[1] = p.out[1]
  <2>1. p.out \in Seq(S) /\ t.out \in Seq(S) /\ 1 \in LiteralPrefix(p.out) /\ path_glob_matches(p, t)
    BY <1>1, <1>2 DEF p, t, S
  <2>2. \A i \in LiteralPrefix(p.out) : i \in DOMAIN t.out /\ t.out[i] = p.out[i]
    BY <1>3, <2>1, GlobLiteral
  <2>3. QED
    BY <2>1, <2>2
<1>5. QED
  BY <1>1, <1>4 DEF p, t

\* ... or a path in which a piece is spelled like it, and the other way round.
LEMMA VerbMatchesPath ==
    ASSUME NEW v \in Verbs, NEW q, PathInv(q), Granted(Word(v), q)
    PROVE  v \in Range(q.read)
<1>1. /\ Word(v).out \in Seq(Kept \cup Verbs) /\ Word(v).out = <<v>>
      /\ 1 \in LiteralPrefix(Word(v).out) /\ RawOf(Word(v)) # Star
  BY WordIsLiteral
<1>2. path_glob_matches(Word(v), q) /\ q.out # TooMany
  BY <1>1 DEF Granted, Glob
<1>3. q.out = q.segments /\ q.out \in Seq(Kept) /\ q \in Paths /\ Leads(q)
  BY <1>2, OutIsSegments
<1>4. q.out \in Seq(Kept \cup Verbs)
  BY <1>3
<1>5. 1 \in DOMAIN q.out /\ q.out[1] = Word(v).out[1]
  BY <1>1, <1>2, <1>4, PiecesAreSequences, GlobLiteral
<1>6. q.segments[1] = v /\ 1 \in DOMAIN q.segments
  BY <1>1, <1>3, <1>5
<1>7. QED
  BY <1>3, <1>6, SegmentsWereRead

LEMMA PathMatchesVerb ==
    ASSUME NEW p, PathInv(p), NEW w \in Verbs, Glob(p, Word(w)), NEW i \in LiteralPrefix(p.segments)
    PROVE  w \in Range(p.read)
<1>1. Word(w).out \in Seq(Kept \cup Verbs) /\ Word(w).out = <<w>>
  BY WordIsLiteral
<1>2. path_glob_matches(p, Word(w)) /\ p.out # TooMany
  BY DEF Glob
<1>3. p.out = p.segments /\ p.out \in Seq(Kept) /\ p \in Paths /\ Leads(p)
  BY <1>2, OutIsSegments
<1>4. p.out \in Seq(Kept \cup Verbs) /\ i \in LiteralPrefix(p.out)
  BY <1>3
<1>5. i \in DOMAIN Word(w).out /\ Word(w).out[i] = p.out[i]
  BY <1>1, <1>2, <1>4, PiecesAreSequences, GlobLiteral
<1>6. w = p.segments[i] /\ i \in DOMAIN p.segments
  <2>1. DOMAIN <<w>> = {1} /\ <<w>>[1] = w
    OBVIOUS
  <2>2. i \in DOMAIN p.segments
    BY DEF LiteralPrefix
  <2>3. QED
    BY <1>1, <1>3, <1>5, <2>1, <2>2
<1>7. QED
  BY <1>3, <1>6, SegmentsWereRead

LEMMA Confined == PathInv(granted) /\ PathInv(requested) => MatchIsConfined
<1> SUFFICES ASSUME PathInv(granted), PathInv(requested), NEW verbs \in Matching, Comparable(verbs)
             PROVE  /\ verbs[1] \in Verbs => verbs[2] = verbs[1]
                    /\ \A i \in LiteralPrefix(granted.segments) :
                          /\ i \in DOMAIN requested.segments
                          /\ requested.segments[i] = granted.segments[i]
  <2>1. ASSUME PathInv(granted), PathInv(requested)
        PROVE  /\ granted.segments = Resolved(granted.read)
               /\ requested.segments = Resolved(requested.read)
    BY <2>1, LeadsToResolved DEF PathInv
  <2>2. QED
    BY <2>1 DEF MatchIsConfined
<1> DEFINE v == verbs[1]
           w == verbs[2]
<1>1. /\ v \in Verbs \cup {Empty, Star} /\ w \in Verbs \cup {Empty}
      /\ scope_matches(ScopeOf(v, granted), ScopeOf(w, requested))
  BY DEF Matching
<1>2. \/ v = Empty <=> w = Empty
      \/ Verbs \cap (Range(granted.read) \cup Range(requested.read)) = {}
  BY DEF Comparable
<1> HIDE DEF v, w
<1>3. v # DoubleStar /\ Star # Empty /\ DoubleStar # Empty /\ Star \notin Verbs /\ Empty \notin Verbs
  BY <1>1, StarsAreNotLiteral
<1>4. /\ v # Empty => \/ w # Empty /\ Granted(Word(v), Word(w))
                      \/ w = Empty /\ ~IsBlank(requested) /\ Granted(Word(v), requested)
      /\ \/ IsBlank(granted)
         \/ RawOf(granted) = DoubleStar
         \/ v = Empty /\ w # Empty /\ IsBlank(requested) /\ Granted(granted, Word(w))
         \/ (v = Empty <=> w = Empty) /\ ~IsBlank(requested) /\ Granted(granted, requested)
  BY <1>1, <1>3, MatchCases
<1>5. ASSUME v \in Verbs PROVE w = v
  <2>1. CASE w # Empty
    <3>1. w \in Verbs /\ Granted(Word(v), Word(w))
      BY <1>1, <1>3, <1>4, <1>5, <2>1
    <3>2. QED
      BY <1>5, <3>1, VerbMatchesVerb
  <2>2. CASE w = Empty
    <3>1. v # Empty /\ Granted(Word(v), requested)
      BY <1>3, <1>4, <1>5, <2>2
    <3>2. v \in Range(requested.read)
      BY <1>5, <3>1, VerbMatchesPath
    <3>3. QED
      BY <1>2, <1>5, <2>2, <3>1, <3>2
  <2>3. QED
    BY <2>1, <2>2
<1>6. ASSUME NEW i \in LiteralPrefix(granted.segments)
      PROVE  i \in DOMAIN requested.segments /\ requested.segments[i] = granted.segments[i]
  <2>1. ~IsBlank(granted) /\ RawOf(granted) # DoubleStar /\ RawOf(granted) # Star
    BY <1>6, NothingSpelledOut DEF PathInv
  <2>2. CASE v = Empty /\ w # Empty /\ Granted(granted, Word(w))
    <3>1. w \in Verbs /\ Glob(granted, Word(w))
      BY <1>1, <2>1, <2>2 DEF Granted
    <3>2. w \in Range(granted.read)
      BY <3>1, PathMatchesVerb
    <3>3. QED
      BY <1>2, <2>2, <3>1, <3>2
  <2>3. CASE Granted(granted, requested)
    <3>1. Glob(granted, requested)
      BY <2>1, <2>3 DEF Granted
    <3>2. QED
      BY <3>1, GlobSegments
  <2>4. QED
    BY <1>4, <2>1, <2>2, <2>3
<1>7. QED
  BY <1>5, <1>6 DEF v, w

LEMMA SpansOne == PathInv(granted) /\ PathInv(requested) => StarSpansOneSegment
<1> SUFFICES ASSUME PathInv(granted), PathInv(requested),
                    ~IsBlank(granted), granted.read # <<Star>>, ~HasDoubleStar(granted.read),
                    NEW verbs \in Matching, verbs[1] = Empty <=> verbs[2] = Empty
             PROVE  /\ Len(requested.segments) = Len(granted.segments)
                    /\ granted.deepest <= kMaxPathSegments
                    /\ requested.deepest <= kMaxPathSegments
  BY DEF StarSpansOneSegment
<1> DEFINE v == verbs[1]
           w == verbs[2]
<1>1. /\ v \in Verbs \cup {Empty, Star} /\ w \in Verbs \cup {Empty}
      /\ scope_matches(ScopeOf(v, granted), ScopeOf(w, requested))
      /\ v = Empty <=> w = Empty
  BY DEF Matching
<1> HIDE DEF v, w
<1>2. v # DoubleStar
  BY <1>1, StarsAreNotLiteral
<1>3. RawOf(granted) # DoubleStar /\ RawOf(granted) # Star
  <2>1. granted.read \in Seq(Pieces)
    BY DEF PathInv, Paths
  <2>2. Len(granted.read) = 1 => 1 \in DOMAIN granted.read /\ granted.read = <<granted.read[1]>>
    BY <2>1
  <2>3. Len(granted.read) = 1 => granted.read[1] # DoubleStar /\ granted.read[1] # Star
    BY <2>2 DEF HasDoubleStar
  <2>4. QED
    BY <2>3, StarsAreNotLiteral DEF RawOf
<1>4. Granted(granted, requested)
  <2>1. \/ IsBlank(granted)
        \/ RawOf(granted) = DoubleStar
        \/ v = Empty /\ w # Empty /\ IsBlank(requested) /\ Granted(granted, Word(w))
        \/ (v = Empty <=> w = Empty) /\ ~IsBlank(requested) /\ Granted(granted, requested)
    BY <1>1, <1>2, MatchCases
  <2>2. QED
    BY <1>1, <1>3, <2>1
<1>5. Glob(granted, requested)
  BY <1>3, <1>4 DEF Granted
<1>6. /\ granted.out = granted.segments /\ requested.out = requested.segments
      /\ granted \in Paths /\ Leads(granted)
      /\ granted.deepest <= kMaxPathSegments /\ requested.deepest <= kMaxPathSegments
      /\ path_glob_matches(granted, requested)
  BY <1>5, OutIsSegments DEF Glob
<1>7. ~HasDoubleStar(granted.out)
  <2>1. SUFFICES ASSUME NEW i \in DOMAIN granted.segments, granted.segments[i] = DoubleStar
                 PROVE  FALSE
    BY <1>6 DEF HasDoubleStar
  <2>2. DoubleStar \in Range(granted.read)
    BY <1>6, <2>1, SegmentsWereRead
  <2>3. QED
    BY <2>2 DEF HasDoubleStar, Range
<1>8. QED
  BY <1>6, <1>7, GlobLength
\* The inductive invariant holds of both paths.
LEMMA ScopeInvariant == Spec => []ScopeInv
<1>1. Init => ScopeInv
  <2>1. PathInv(NothingRead)
    <3>1. kMaxPathSegments \in Nat
      BY ScopeAssumption
    <3>2. NothingRead \in Paths
      BY DEF NothingRead, Paths
    <3>3. Leads(NothingRead)
      <4>1. NothingRead.read = <<>> /\ NothingRead.segments = <<>>
        BY DEF NothingRead
      <4>2. Staying(<<>>) = {} /\ Len(<<>>) = 0
        BY DEF Staying
      <4>3. Lists(<<>>, 0, {})
        BY DEF Lists
      <4>4. \A i \in 1..0 : FALSE
        OBVIOUS
      <4>5. QED
        BY <4>1, <4>2, <4>3, <4>4, LeadsIf
    <3>4. QED
      BY <3>1, <3>2, <3>3 DEF NothingRead, PathInv, Front1, Agree
  <2>2. QED
    BY <2>1 DEF Init, ScopeInv
<1>2. ScopeInv /\ [Next]_vars => ScopeInv'
  <2> SUFFICES ASSUME ScopeInv, [Next]_vars PROVE ScopeInv'
    OBVIOUS
  <2>1. CASE UNCHANGED vars
    BY <2>1 DEF vars, ScopeInv
  <2>2. ASSUME NEW piece \in GrantPieces, ReadGranted(piece) PROVE ScopeInv'
    <3>1. PathInv(ReadPiece(granted, piece))
      BY ReadPreserves DEF ScopeInv, Pieces
    <3>2. QED
      BY <2>2, <3>1 DEF ReadGranted, ScopeInv
  <2>3. ASSUME NEW piece \in RequestPieces, ReadRequested(piece) PROVE ScopeInv'
    <3>1. PathInv(ReadPiece(requested, piece))
      BY ReadPreserves DEF ScopeInv, Pieces
    <3>2. QED
      BY <2>3, <3>1 DEF ReadRequested, ScopeInv
  <2>4. QED
    BY <2>1, <2>2, <2>3 DEF Next
<1>3. QED
  BY <1>1, <1>2, PTL DEF Spec

\* Neither normalizer leaves an empty or a "." segment in its result.
THEOREM ScopeTyping == Spec => []TypeOK
<1>1. ScopeInv => TypeOK
  BY DEF ScopeInv, PathInv, TypeOK
<1>2. QED
  BY <1>1, ScopeInvariant, PTL

\* The allocation-free normalizer of the matching and the one that makes the
\* resource the host executes never disagree about a path, of whatever length:
\* the first one gives the path up or both make the same segments.
THEOREM NormalizersAlwaysAgree == Spec => []NormalizersAgree
<1>1. ScopeInv => NormalizersAgree
  BY DEF ScopeInv, PathInv, Agree, NormalizersAgree
<1>2. QED
  BY <1>1, ScopeInvariant, PTL

\* A normalized path climbs only in front, so escapes_root() need not look
\* further than its first segment.
THEOREM NormalizedClimbsInFront == Spec => []ClimbsInFront
<1>1. ScopeInv => ClimbsInFront
  BY DEF ScopeInv, PathInv, Front1, ClimbsInFront
<1>2. QED
  BY <1>1, ScopeInvariant, PTL

\* However ".." , "." and empty pieces are mixed in a path, normalize_path_segment()
\* ends with the segments the path leads through: the names no later ".." takes
\* back and the ".." that leave the root, in their order.
THEOREM PathsNormalizeToResolved == Spec => []NormalizesToResolved
<1>1. ScopeInv => NormalizesToResolved
  BY LeadsToResolved DEF ScopeInv, PathInv, NormalizesToResolved
<1>2. QED
  BY <1>1, ScopeInvariant, PTL

\* escapes_root(), which looks at the front of a normalized path only, refuses
\* exactly the paths that leave their root on the way, wherever they end.
THEOREM EscapesAreTold == Spec => []EscapesIffItLeaves
<1>1. ScopeInv => EscapesIffItLeaves
  BY EscapesLeaves DEF ScopeInv
<1>2. QED
  BY <1>1, ScopeInvariant, PTL

\* A request that scope_matches() finds in a grant is under everything the grant
\* spells out, and without "**" it is neither longer nor shorter than the grant.
THEOREM WildcardsStayConfined == Spec => []WildcardsAreConfined
<1>1. ScopeInv => WildcardsAreConfined
  BY Confined, SpansOne DEF ScopeInv, WildcardsAreConfined
<1>2. QED
  BY <1>1, ScopeInvariant, PTL
=============================================================================
