------------------------------ MODULE Extremes ------------------------------
(***************************************************************************)
(* Facts about the least and the greatest element of a set of numbers,     *)
(* which the scanners of several modules look for, and about the folds     *)
(* those scanners are written with.                                        *)
(***************************************************************************)
EXTENDS Integers, FiniteSetsExt, WellFoundedInduction, TLAPS

\* A nonempty set of numbers has a least one...
LEMMA MinProperties ==
    ASSUME NEW S \in SUBSET Nat, S # {}
    PROVE  Min(S) \in S /\ \A y \in S : Min(S) <= y
<1> DEFINE R == {ss \in Nat \X Nat : ss[1] < ss[2]}
<1>1. IsWellFoundedOn(R, Nat)
  BY NatLessThanWellFounded DEF OpToRel
<1>2. PICK x \in S : \A y \in S : ~ (<<y, x>> \in R)
  <2> HIDE DEF R
  <2>1. QED
    BY <1>1, WFMin
<1>3. \A y \in S : x <= y
  <2> TAKE y \in S
  <2>1. x \in Nat /\ y \in Nat /\ <<y, x>> \in Nat \X Nat
    OBVIOUS
  <2>2. ~(<<y, x>>[1] < <<y, x>>[2])
    BY <1>2, <2>1
  <2>3. QED
    BY <2>1, <2>2
<1>4. QED
  BY <1>3 DEF Min

\* ... and, if it is bounded, a greatest.
LEMMA MaxProperties ==
    ASSUME NEW b \in Nat, NEW S \in SUBSET (0..b), S # {}
    PROVE  Max(S) \in S /\ \A y \in S : y <= Max(S)
<1> DEFINE T == {k \in 0..b : b - k \in S}
<1>1. T \in SUBSET Nat /\ T # {}
  <2>1. PICK y \in S : TRUE
    OBVIOUS
  <2>2. b - y \in 0..b /\ b - (b - y) = y
    BY <2>1
  <2>3. QED
    BY <2>1, <2>2
<1>2. PICK m : m = Min(T)
  OBVIOUS
<1>3. m \in T /\ \A y \in T : m <= y
  BY <1>1, <1>2, MinProperties
<1>4. b - m \in S
  BY <1>3
<1>5. \A y \in S : y <= b - m
  <2> TAKE y \in S
  <2>1. y \in 0..b /\ b - y \in 0..b /\ b - (b - y) = y
    OBVIOUS
  <2>2. b - y \in T
    BY <2>1
  <2>3. m <= b - y /\ m \in 0..b
    BY <1>3, <2>2
  <2>4. QED
    BY <2>1, <2>3
<1>6. \E x \in S : \A y \in S : x >= y
  BY <1>4, <1>5
<1>7. QED
  BY <1>6 DEF Max

\* The greatest element is known by its properties.
LEMMA MaxIs ==
    ASSUME NEW S \in SUBSET Int, NEW m \in S, \A y \in S : y <= m
    PROVE  Max(S) = m
<1>1. \A x \in S : (\A y \in S : x >= y) => x = m
  OBVIOUS
<1>2. \E x \in S : \A y \in S : x >= y
  OBVIOUS
<1>3. QED
  BY <1>1 DEF Max

-----------------------------------------------------------------------------
\* Induction over numbers and folds, by the least counterexample.

\* Induction up to n, for a set of numbers.
LEMMA UpTo ==
    ASSUME NEW n \in Nat, NEW S, 0 \in S, \A k \in 1..n : k - 1 \in S => k \in S
    PROVE  \A k \in 0..n : k \in S
<1> DEFINE bad == {k \in 0..n : k \notin S}
<1>1. SUFFICES ASSUME bad # {} PROVE FALSE
  OBVIOUS
<1>2. PICK m : m = Min(bad)
  OBVIOUS
<1>3. m \in bad /\ \A y \in bad : m <= y
  <2>1. bad \in SUBSET Nat
    OBVIOUS
  <2>2. QED
    BY <1>1, <1>2, <2>1, MinProperties
<1>4. m \in 1..n /\ m - 1 \in 0..n
  BY <1>3
<1>5. m - 1 \in S
  BY <1>3, <1>4
<1>6. QED
  BY <1>3, <1>4, <1>5

\* The greatest of 1..n is n.
LEMMA MaxOfInterval ==
    ASSUME NEW n \in Nat, n >= 1
    PROVE  Max(1..n) = n /\ (1..n) \ {n} = 1..(n - 1)
<1>1. 1..n \in SUBSET Int /\ n \in 1..n /\ \A y \in 1..n : y <= n
  OBVIOUS
<1>2. Max(1..n) = n
  BY <1>1, MaxIs
<1>3. QED
  BY <1>2

\* f folds the numbers of each set of them from base on, from the least to the
\* greatest, by g.
IsFold(f, n, base, g) ==
    \A s \in SUBSET (1..n) :
        f[s] = IF s = {} THEN base ELSE g[<<Max(s), f[s \ {Max(s)}]>>]

\* Such an f exists: it is built up from the subsets of 1..(k - 1) to those of 1..k.
LEMMA FoldExists ==
    ASSUME NEW n \in Nat, NEW T, NEW base \in T, NEW g \in [(1..n) \X T -> T]
    PROVE  \E f \in [SUBSET (1..n) -> T] : IsFold(f, n, base, g)
<1> DEFINE S == {k \in 0..n : \E f \in [SUBSET (1..k) -> T] : IsFold(f, k, base, g)}
<1>1. 0 \in S
  <2> DEFINE f == [s \in SUBSET (1..0) |-> base]
  <2>1. f \in [SUBSET (1..0) -> T] /\ \A s \in SUBSET (1..0) : s = {} /\ f[s] = base
    OBVIOUS
  <2> HIDE DEF f
  <2>2. IsFold(f, 0, base, g)
    BY <2>1 DEF IsFold
  <2>3. QED
    BY <2>1, <2>2
<1>2. ASSUME NEW k \in 1..n, k - 1 \in S PROVE k \in S
  <2>1. PICK f \in [SUBSET (1..(k - 1)) -> T] : IsFold(f, k - 1, base, g)
    BY <1>2
  <2> DEFINE h == [s \in SUBSET (1..k) |-> IF k \in s THEN g[<<k, f[s \ {k}]>>] ELSE f[s]]
  <2>2. ASSUME NEW s \in SUBSET (1..k)
        PROVE  /\ k \in s => s \ {k} \in SUBSET (1..(k - 1)) /\ Max(s) = k
               /\ k \notin s => s \in SUBSET (1..(k - 1))
    <3>1. \A i \in s : i \in 1..k /\ (i # k => i \in 1..(k - 1))
      OBVIOUS
    <3>2. ASSUME k \in s PROVE Max(s) = k
      <4>1. s \in SUBSET Int /\ \A y \in s : y <= k
        BY <3>1
      <4>2. QED
        BY <3>2, <4>1, MaxIs
    <3>3. QED
      BY <3>1, <3>2
  <2>3. h \in [SUBSET (1..k) -> T]
    <3>1. ASSUME NEW s \in SUBSET (1..k)
          PROVE  (IF k \in s THEN g[<<k, f[s \ {k}]>>] ELSE f[s]) \in T
      <4>1. CASE k \in s
        <5>1. f[s \ {k}] \in T
          BY <2>2, <4>1
        <5>2. <<k, f[s \ {k}]>> \in (1..n) \X T
          BY <5>1
        <5> DEFINE p == <<k, f[s \ {k}]>>
        <5> HIDE DEF p
        <5>3. g[p] \in T
          BY <5>2 DEF p
        <5>4. QED
          BY <4>1, <5>3 DEF p
      <4>2. CASE k \notin s
        BY <2>2, <4>2
      <4>3. QED
        BY <4>1, <4>2
    <3>2. QED
      BY <3>1
  <2>4. ASSUME NEW s \in SUBSET (1..k)
        PROVE  h[s] = IF s = {} THEN base ELSE g[<<Max(s), h[s \ {Max(s)}]>>]
    <3>1. CASE k \in s
      <4>1. h[s] = g[<<k, f[s \ {k}]>>] /\ Max(s) = k /\ s # {}
        BY <2>2, <3>1
      <4>2. s \ {k} \in SUBSET (1..k) /\ k \notin s \ {k}
        OBVIOUS
      <4>3. h[s \ {k}] = f[s \ {k}]
        BY <4>2
      <4> HIDE DEF h
      <4>4. QED
        BY <4>1, <4>3
    <3>2. CASE k \notin s
      <4>1. h[s] = f[s] /\ s \in SUBSET (1..(k - 1))
        BY <2>2, <3>2
      <4>2. s \ {Max(s)} \in SUBSET (1..k) /\ k \notin s \ {Max(s)}
        BY <3>2
      <4>3. h[s \ {Max(s)}] = f[s \ {Max(s)}]
        BY <4>2
      <4>4. f[s] = IF s = {} THEN base ELSE g[<<Max(s), f[s \ {Max(s)}]>>]
        BY <2>1, <4>1 DEF IsFold
      <4> HIDE DEF h
      <4>5. QED
        BY <4>1, <4>3, <4>4
    <3>3. QED
      BY <3>1, <3>2
  <2> HIDE DEF h
  <2>5. IsFold(h, k, base, g)
    BY <2>4 DEF IsFold
  <2>6. QED
    BY <2>3, <2>5
<1> HIDE DEF S
<1>3. n \in S
  BY <1>1, <1>2, UpTo
<1>4. QED
  BY <1>3 DEF S

\* A fold of a sequence goes through the prefixes of its domain.
LEMMA FoldSteps ==
    ASSUME NEW n \in Nat
    PROVE  \A k \in 1..n : /\ 1..k \in SUBSET (1..n) /\ 1..k # {}
                           /\ Max(1..k) = k /\ (1..k) \ {k} = 1..(k - 1)
<1> TAKE k \in 1..n
<1>1. k \in Nat /\ k >= 1
  OBVIOUS
<1>2. Max(1..k) = k /\ (1..k) \ {k} = 1..(k - 1)
  BY <1>1, MaxOfInterval
<1>3. QED
  BY <1>2

-----------------------------------------------------------------------------
\* Folds over sequences: a fold is the last of the values it runs through.

\* f folds by g wherever it stays in T.
FoldsInto(f, n, T, base, g) ==
    /\ f[{}] = base
    /\ \A c \in SUBSET (1..n) :
          c # {} /\ f[c \ {Max(c)}] \in T => f[c] = g[<<Max(c), f[c \ {Max(c)}]>>]

\* r[k] is what f makes of the first k numbers, which is what a loop that does g
\* holds after k rounds.
IsRun(r, f, n, T, base, g) ==
    /\ r \in [0..n -> T] /\ r[0] = base /\ r[n] = f[1..n]
    /\ \A k \in 1..n : r[k] = g[<<k, r[k - 1]>>]

LEMMA FoldRuns ==
    ASSUME NEW n \in Nat, NEW T, NEW base \in T, NEW g \in [(1..n) \X T -> T], NEW f,
           FoldsInto(f, n, T, base, g)
    PROVE  \E r : IsRun(r, f, n, T, base, g)
<1> DEFINE r == [k \in 0..n |-> f[1..k]]
           S == {k \in 0..n : r[k] \in T}
<1>1. 1..0 = {} /\ 0 \in 0..n /\ n \in 0..n /\ r[0] = base /\ r[n] = f[1..n]
  BY DEF FoldsInto
<1>2. ASSUME NEW k \in 1..n, r[k - 1] \in T
      PROVE  r[k] = g[<<k, r[k - 1]>>] /\ r[k] \in T
  <2>1. 1..k \in SUBSET (1..n) /\ 1..k # {} /\ Max(1..k) = k /\ (1..k) \ {k} = 1..(k - 1)
    BY FoldSteps
  <2>2. r[k] = f[1..k] /\ r[k - 1] = f[1..(k - 1)]
    OBVIOUS
  <2> HIDE DEF r
  <2>3. r[k] = g[<<k, r[k - 1]>>]
    BY <1>2, <2>1, <2>2 DEF FoldsInto
  <2>4. g[<<k, r[k - 1]>>] \in T
    <3> DEFINE p == <<k, r[k - 1]>>
    <3>1. p \in (1..n) \X T
      BY <1>2
    <3> HIDE DEF p
    <3>2. g[p] \in T
      BY <3>1
    <3>3. QED
      BY <3>2 DEF p
  <2>5. QED
    BY <2>3, <2>4
<1> HIDE DEF r
<1>3. \A k \in 0..n : k \in S
  <2>1. 0 \in S
    BY <1>1
  <2>2. \A k \in 1..n : k - 1 \in S => k \in S
    <3>1. ASSUME NEW k \in 1..n, k - 1 \in S PROVE k \in S
      <4>1. k \in 0..n /\ r[k - 1] \in T
        BY <3>1
      <4>2. r[k] \in T
        BY <1>2, <4>1
      <4>3. QED
        BY <4>1, <4>2
    <3>2. QED
      BY <3>1
  <2> HIDE DEF S
  <2>3. QED
    BY <2>1, <2>2, UpTo
<1>4. \A k \in 0..n : r[k] \in T
  BY <1>3
<1>5. r \in [0..n -> T]
  BY <1>4 DEF r
<1>6. \A k \in 1..n : r[k] = g[<<k, r[k - 1]>>]
  <2>1. \A k \in 1..n : k - 1 \in 0..n
    OBVIOUS
  <2>2. QED
    BY <1>2, <1>4, <2>1
<1>7. QED
  BY <1>1, <1>5, <1>6 DEF IsRun

LEMMA MaxInside ==
    ASSUME NEW n \in Nat, NEW c \in SUBSET (1..n), c # {}
    PROVE  Max(c) \in 1..n
<1>1. c \in SUBSET (0..n)
  OBVIOUS
<1>2. QED
  BY <1>1, MaxProperties

\* f recurs on the maximum, as FoldFunction's own recursive function does, in T.
IsRecursive(f, n, T, base, g) ==
    /\ f = [c \in SUBSET (1..n) |-> IF c = {} THEN base ELSE g[<<Max(c), f[c \ {Max(c)}]>>]]
    /\ \A c \in SUBSET (1..n) : c # {} => Max(c) \in 1..n /\ f[c \ {Max(c)}] \in T

\* The f of FoldExists, in the form a recursive function is defined in.
LEMMA FoldForm ==
    ASSUME NEW n \in Nat, NEW T, NEW base \in T, NEW g \in [(1..n) \X T -> T]
    PROVE  \E f : IsRecursive(f, n, T, base, g)
<1>1. PICK f \in [SUBSET (1..n) -> T] : IsFold(f, n, base, g)
  BY FoldExists
<1>2. f = [c \in SUBSET (1..n) |-> f[c]]
  OBVIOUS
<1>3. f = [c \in SUBSET (1..n) |-> IF c = {} THEN base ELSE g[<<Max(c), f[c \ {Max(c)}]>>]]
  BY <1>1, <1>2 DEF IsFold
<1>4. ASSUME NEW c \in SUBSET (1..n), c # {}
      PROVE  Max(c) \in 1..n /\ f[c \ {Max(c)}] \in T
  <2>1. c \in SUBSET (0..n)
    OBVIOUS
  <2>2. Max(c) \in c
    BY <1>4, <2>1, MaxProperties
  <2>3. QED
    BY <2>2
<1>5. QED
  BY <1>3, <1>4 DEF IsRecursive
=============================================================================
