------------------------- MODULE Sha256StreamProofs -------------------------
(***************************************************************************)
(* Proofs about Sha256Stream, for blocks of any size and inputs of any     *)
(* length: nothing that update() is given is lost, the digest is that of   *)
(* the padded message however it was cut, and compute() nests the hashes   *)
(* as RFC 2104 has it.                                                     *)
(*                                                                         *)
(* No set holds every byte, for a digest has bytes that name the blocks it *)
(* is of; so a sequence is typed by its own range (IsSequence), and the    *)
(* lemmas of the first part restate what the library says of Seq(S).       *)
(***************************************************************************)
EXTENDS Sha256Stream, SequenceTheorems, TLAPS

-----------------------------------------------------------------------------
(* Sequences without a set of elements.                                    *)

LEMMA SequenceOfSome == ASSUME NEW S, NEW s \in Seq(S) PROVE IsSequence(s)
BY RangeOfSeq, SeqOfRange DEF IsSequence

LEMMA SequenceParts ==
    ASSUME NEW s, IsSequence(s)
    PROVE  /\ Len(s) \in Nat
           /\ DOMAIN s = 1..Len(s)
           /\ s = [i \in 1..Len(s) |-> s[i]]
<1>1. s \in [1..Len(s) -> Range(s)] /\ Len(s) \in Nat /\ DOMAIN s = 1..Len(s)
  BY LenProperties DEF IsSequence
<1>2. QED
  BY <1>1

\* Two sequences in one Seq(S), which is what the library asks for.
LEMMA CommonSet ==
    ASSUME NEW s, IsSequence(s), NEW t, IsSequence(t)
    PROVE  s \in Seq(Range(s) \cup Range(t)) /\ t \in Seq(Range(s) \cup Range(t))
<1>1. \A S, T : \A r \in Seq(S) : r \in Seq(S \cup T) /\ r \in Seq(T \cup S)
  OBVIOUS
<1>2. QED
  BY <1>1 DEF IsSequence

LEMMA EqualSequences ==
    ASSUME NEW s, IsSequence(s), NEW t, IsSequence(t),
           Len(s) = Len(t), \A i \in 1..Len(s) : s[i] = t[i]
    PROVE  s = t
BY CommonSet, SeqEqual

LEMMA Concatenation ==
    ASSUME NEW s, IsSequence(s), NEW t, IsSequence(t)
    PROVE  /\ IsSequence(s \o t)
           /\ Len(s \o t) = Len(s) + Len(t)
           /\ \A i \in 1..Len(s) : (s \o t)[i] = s[i]
           /\ \A i \in 1..Len(t) : (s \o t)[Len(s) + i] = t[i]
<1>1. PICK S : s \in Seq(S) /\ t \in Seq(S)
  BY CommonSet
<1>2. /\ s \o t \in Seq(S)
      /\ Len(s \o t) = Len(s) + Len(t)
      /\ \A i \in 1..Len(s) + Len(t) :
            (s \o t)[i] = IF i <= Len(s) THEN s[i] ELSE t[i - Len(s)]
  BY <1>1, ConcatProperties
<1>3. Len(s) \in Nat /\ Len(t) \in Nat
  BY SequenceParts
<1>4. IsSequence(s \o t)
  BY <1>2, SequenceOfSome
<1>5. QED
  BY <1>2, <1>3, <1>4

LEMMA Associativity ==
    ASSUME NEW s, IsSequence(s), NEW t, IsSequence(t), NEW u, IsSequence(u)
    PROVE  (s \o t) \o u = s \o (t \o u)
<1>1. PICK S : s \in Seq(S) /\ t \in Seq(S)
  BY CommonSet
<1>2. \A T, V : \A r \in Seq(T) : r \in Seq(T \cup V) /\ r \in Seq(V \cup T)
  OBVIOUS
<1>3. s \in Seq(S \cup Range(u)) /\ t \in Seq(S \cup Range(u)) /\ u \in Seq(S \cup Range(u))
  BY <1>1, <1>2 DEF IsSequence
<1>4. QED
  BY <1>3, ConcatAssociative

LEMMA Nothing ==
    /\ IsSequence(<<>>) /\ Len(<<>>) = 0
    /\ \A s : IsSequence(s) => s \o <<>> = s /\ <<>> \o s = s
<1>1. IsSequence(<<>>) /\ Len(<<>>) = 0
  BY EmptySeq, SequenceOfSome
<1>2. QED
  BY <1>1, ConcatEmptySeq DEF IsSequence

LEMMA Slice ==
    ASSUME NEW s, IsSequence(s), NEW m \in 1..Len(s) + 1, NEW n \in (m - 1)..Len(s)
    PROVE  /\ IsSequence(SubSeq(s, m, n))
           /\ Len(SubSeq(s, m, n)) = n - m + 1
           /\ \A i \in 1..(n - m + 1) : SubSeq(s, m, n)[i] = s[m + i - 1]
<1>1. Len(s) \in Nat /\ \A i \in 1..Len(s) : s[i] \in Range(s)
  BY SequenceParts DEF Range
<1>2. m \in Int /\ n \in Int /\ m..n \subseteq 1..Len(s) /\ n >= m - 1
  BY <1>1
<1>3. /\ SubSeq(s, m, n) \in Seq(Range(s))
      /\ Len(SubSeq(s, m, n)) = IF m <= n THEN n - m + 1 ELSE 0
      /\ \A i \in 1..(n - m + 1) : SubSeq(s, m, n)[i] = s[m + i - 1]
  <2>1. \A i \in m..n : s[i] \in Range(s)
    BY <1>1, <1>2
  <2>2. QED
    BY <1>2, <2>1, SubSeqProperties
<1>4. IsSequence(SubSeq(s, m, n))
  BY <1>3, SequenceOfSome
<1>5. QED
  BY <1>2, <1>3, <1>4

LEMMA Prefix ==
    ASSUME NEW s, IsSequence(s), NEW n \in 0..Len(s)
    PROVE  /\ IsSequence(SubSeq(s, 1, n))
           /\ Len(SubSeq(s, 1, n)) = n
           /\ \A i \in 1..n : SubSeq(s, 1, n)[i] = s[i]
<1>1. Len(s) \in Nat /\ n \in Nat
  BY SequenceParts
<1>2. 1 \in 1..Len(s) + 1 /\ n \in (1 - 1)..Len(s)
  BY <1>1
<1>3. /\ IsSequence(SubSeq(s, 1, n))
      /\ Len(SubSeq(s, 1, n)) = n - 1 + 1
      /\ \A i \in 1..(n - 1 + 1) : SubSeq(s, 1, n)[i] = s[1 + i - 1]
  BY <1>2, Slice
<1>4. QED
  BY <1>1, <1>3

LEMMA WholeSlice == ASSUME NEW s, IsSequence(s) PROVE SubSeq(s, 1, Len(s)) = s
BY SubSeqFull DEF IsSequence

\* A function on 1..n is a sequence.
LEMMA Tabulated ==
    ASSUME NEW n \in Nat, NEW f, f = [i \in 1..n |-> f[i]]
    PROVE  IsSequence(f) /\ Len(f) = n /\ DOMAIN f = 1..n
<1>1. f \in [1..n -> Range(f)] /\ DOMAIN f = 1..n
  BY DEF Range
<1>2. f \in Seq(Range(f))
  BY <1>1
<1>3. Len(f) = n
  BY <1>1, <1>2, LenProperties
<1>4. QED
  BY <1>1, <1>2, <1>3 DEF IsSequence

LEMMA Cut ==
    ASSUME NEW s, IsSequence(s), NEW n \in 0..Len(s)
    PROVE  SubSeq(s, 1, n) \o SubSeq(s, n + 1, Len(s)) = s
<1>1. Len(s) \in Nat
  BY SequenceParts
<1> DEFINE a == SubSeq(s, 1, n)
           b == SubSeq(s, n + 1, Len(s))
<1>2. IsSequence(a) /\ Len(a) = n /\ \A i \in 1..n : a[i] = s[i]
  BY Prefix
<1>3. IsSequence(b) /\ Len(b) = Len(s) - n /\ \A i \in 1..(Len(s) - n) : b[i] = s[n + i]
  <2>1. n + 1 \in 1..Len(s) + 1 /\ Len(s) \in (n + 1 - 1)..Len(s)
    BY <1>1
  <2>2. IsSequence(b) /\ Len(b) = Len(s) - (n + 1) + 1
        /\ \A i \in 1..(Len(s) - (n + 1) + 1) : b[i] = s[n + 1 + i - 1]
    BY <2>1, Slice
  <2>3. QED
    BY <1>1, <2>2
<1> HIDE DEF a, b
<1>4. /\ IsSequence(a \o b) /\ Len(a \o b) = Len(s)
      /\ \A i \in 1..n : (a \o b)[i] = a[i]
      /\ \A i \in 1..(Len(s) - n) : (a \o b)[n + i] = b[i]
  BY <1>1, <1>2, <1>3, Concatenation
<1>5. \A i \in 1..Len(s) : (a \o b)[i] = s[i]
  <2>1. SUFFICES ASSUME NEW i \in 1..Len(s) PROVE (a \o b)[i] = s[i]
    OBVIOUS
  <2>. i \in Int /\ n \in Int
    BY <1>1
  <2>2. CASE i <= n
    BY <1>1, <1>2, <1>4, <2>2
  <2>3. CASE i > n
    <3>1. i - n \in 1..(Len(s) - n) /\ n + (i - n) = i
      BY <1>1, <2>3
    <3>2. (a \o b)[n + (i - n)] = s[n + (i - n)]
      BY <1>3, <1>4, <3>1
    <3>3. QED
      BY <3>1, <3>2
  <2>4. i <= n \/ i > n
    OBVIOUS
  <2>5. QED
    BY <2>2, <2>3, <2>4
<1>6. a \o b = s
  BY <1>4, <1>5, EqualSequences
<1>7. QED
  BY <1>6 DEF a, b

-----------------------------------------------------------------------------
(* Arithmetic of the padding.                                              *)

LEMMA Vanishes ==
    ASSUME NEW B \in Nat \ {0}, NEW d \in Int, NEW m \in 0..(B - 1), NEW r \in 0..(B - 1),
           B * d = m - r
    PROVE  d = 0
<1>1. CASE d >= 1
  <2>1. B * d >= B
    BY <1>1
  <2>2. QED
    BY <2>1
<1>2. CASE d <= -1
  <2>1. B * d <= -B
    BY <1>2
  <2>2. QED
    BY <2>1
<1>3. QED
  BY <1>1, <1>2

LEMMA Remainder ==
    ASSUME NEW B \in Nat \ {0}, NEW k \in Nat, NEW r \in 0..(B - 1)
    PROVE  (B * k + r) % B = r
<1> DEFINE x == B * k + r
           q == x \div B
           m == x % B
<1>1. x \in Nat /\ B * k \in Nat
  OBVIOUS
<1>2. q \in Nat /\ m \in 0..(B - 1) /\ x = B * q + m
  BY <1>1
<1>3. B * (k - q) = B * k - B * q
  BY <1>2
<1>4. B * q \in Nat
  BY <1>2
<1>5. B * (k - q) = m - r
  BY <1>1, <1>2, <1>3, <1>4
<1> HIDE DEF q, m
<1>6. k - q = 0
  BY <1>2, <1>5, Vanishes
<1>7. m = r
  BY <1>2, <1>5, <1>6
<1>8. QED
  BY <1>7 DEF m

\* What is missing to the next multiple of the block.
LEMMA Missing ==
    ASSUME NEW B \in Nat \ {0}, NEW k \in Nat, NEW r \in 1..B
    PROVE  (B - ((B * k + r) % B)) % B = B - r
<1>1. CASE r < B
  <2>1. (B * k + r) % B = r
    BY <1>1, Remainder
  <2>2. B - r \in 0..(B - 1)
    OBVIOUS
  <2>3. (B - r) % B = B - r
    BY <2>2
  <2>4. QED
    BY <2>1, <2>3
<1>2. CASE r = B
  <2>1. B * k + B = B * (k + 1) + 0 /\ k + 1 \in Nat
    OBVIOUS
  <2>2. 0 \in 0..(B - 1)
    OBVIOUS
  <2>3. (B * (k + 1) + 0) % B = 0
    BY <2>1, <2>2, Remainder
  <2>4. (B * k + r) % B = 0
    BY <1>2, <2>1, <2>3
  <2>5. B % B = 0
    OBVIOUS
  <2>6. QED
    BY <1>2, <2>4, <2>5
<1>3. QED
  BY <1>1, <1>2

-----------------------------------------------------------------------------
(* The padding as finalize() writes it and as FIPS 180-4 describes it.     *)

LEMMA Constants ==
    /\ Block \in Nat \ {0} /\ LengthBytes \in Nat \ {0} /\ DigestSize \in Nat \ {0}
    /\ LengthBytes < Block /\ DigestSize <= Block
BY StreamAssumption

\* A tail of a message: n bytes, the mark, z zeros and the length.
IsTail(t, b, n, z, bits) ==
    /\ IsSequence(t) /\ Len(t) = n + 1 + z + LengthBytes
    /\ \A i \in 1..n : t[i] = b[i]
    /\ t[n + 1] = Plain(128)
    /\ \A i \in 1..z : t[n + 1 + i] = Plain(0)
    /\ \A i \in 1..LengthBytes : t[n + 1 + z + i] = LengthAt(bits, i)

PaddedBy(m, z, bits) == m \o Mark \o ZeroBytes(z) \o LengthField(bits)

TailOf(b, n, z, bits) == SubSeq(b, 1, n) \o Mark \o ZeroBytes(z) \o LengthField(bits)

LEMMA TailParts ==
    ASSUME NEW t, NEW b, IsSequence(b), NEW n \in 0..Len(b), NEW z \in Nat, NEW bits \in Nat,
           IsTail(t, b, n, z, bits)
    PROVE  t = TailOf(b, n, z, bits)
<1> DEFINE B == SubSeq(b, 1, n)
           P == Mark
           Z == ZeroBytes(z)
           L == LengthField(bits)
<1> USE Constants
<1>0. n \in Nat
  BY SequenceParts
<1>1. IsSequence(B) /\ Len(B) = n /\ \A i \in 1..n : B[i] = b[i]
  BY Prefix
<1>2. IsSequence(P) /\ Len(P) = 1 /\ P[1] = Plain(128)
  <2>1. P \in Seq({Plain(128)}) /\ Len(P) = 1 /\ P[1] = Plain(128)
    BY DEF Mark
  <2>2. QED
    BY <2>1, SequenceOfSome
<1>3. IsSequence(Z) /\ Len(Z) = z /\ \A i \in 1..z : Z[i] = Plain(0)
  BY Tabulated DEF ZeroBytes
<1>4. IsSequence(L) /\ Len(L) = LengthBytes /\ \A i \in 1..LengthBytes : L[i] = LengthAt(bits, i)
  BY Tabulated DEF LengthField
<1> HIDE DEF B, P, Z, L
<1>5. /\ IsSequence(B \o P) /\ Len(B \o P) = n + 1
      /\ \A i \in 1..n : (B \o P)[i] = b[i]
      /\ (B \o P)[n + 1] = Plain(128)
  <2>1. /\ IsSequence(B \o P)
        /\ Len(B \o P) = Len(B) + Len(P)
        /\ \A i \in 1..Len(B) : (B \o P)[i] = B[i]
        /\ \A i \in 1..Len(P) : (B \o P)[Len(B) + i] = P[i]
    <3>1. IsSequence(B)
      BY <1>1
    <3>2. IsSequence(P)
      BY <1>2
    <3>3. QED
      BY <3>1, <3>2, Concatenation
  <2>2. QED
    BY <1>0, <1>1, <1>2, <2>1
<1>6. /\ IsSequence(B \o P \o Z) /\ Len(B \o P \o Z) = n + 1 + z
      /\ \A i \in 1..(n + 1) : (B \o P \o Z)[i] = (B \o P)[i]
      /\ \A i \in 1..z : (B \o P \o Z)[n + 1 + i] = Plain(0)
  <2>1. /\ IsSequence(B \o P \o Z)
        /\ Len(B \o P \o Z) = Len(B \o P) + Len(Z)
        /\ \A i \in 1..Len(B \o P) : (B \o P \o Z)[i] = (B \o P)[i]
        /\ \A i \in 1..Len(Z) : (B \o P \o Z)[Len(B \o P) + i] = Z[i]
    <3>1. IsSequence(B \o P)
      BY <1>5
    <3>2. IsSequence(Z)
      BY <1>3
    <3>3. QED
      BY <3>1, <3>2, Concatenation
  <2>2. QED
    BY <1>0, <1>3, <1>5, <2>1
<1> DEFINE R == B \o P \o Z \o L
<1>7. /\ IsSequence(R) /\ Len(R) = n + 1 + z + LengthBytes
      /\ \A i \in 1..(n + 1 + z) : R[i] = (B \o P \o Z)[i]
      /\ \A i \in 1..LengthBytes : R[n + 1 + z + i] = LengthAt(bits, i)
  <2>1. /\ IsSequence(R)
        /\ Len(R) = Len(B \o P \o Z) + Len(L)
        /\ \A i \in 1..Len(B \o P \o Z) : R[i] = (B \o P \o Z)[i]
        /\ \A i \in 1..Len(L) : R[Len(B \o P \o Z) + i] = L[i]
    <3>1. IsSequence(B \o P \o Z)
      BY <1>6
    <3>2. IsSequence(L)
      BY <1>4
    <3>3. QED
      BY <3>1, <3>2, Concatenation
  <2>2. QED
    BY <1>0, <1>4, <1>6, <2>1
<1> HIDE DEF R
<1>8. n \in Nat
  BY SequenceParts
<1>9. \A i \in 1..Len(t) : t[i] = R[i]
  <2> SUFFICES ASSUME NEW i \in 1..Len(t) PROVE t[i] = R[i]
    OBVIOUS
  <2>1. Len(t) = n + 1 + z + LengthBytes
    BY DEF IsTail
  <2>2. CASE i \in 1..n
    BY <1>5, <1>6, <1>7, <1>8, <2>2 DEF IsTail
  <2>3. CASE i = n + 1
    BY <1>5, <1>6, <1>7, <1>8, <2>3 DEF IsTail
  <2>4. CASE i \in (n + 2)..(n + 1 + z)
    <3>1. PICK j \in 1..z : i = n + 1 + j
      <4>1. i - n - 1 \in 1..z /\ i = n + 1 + (i - n - 1)
        BY <1>8, <2>4
      <4>2. QED
        BY <4>1
    <3>2. t[n + 1 + j] = Plain(0) /\ (B \o P \o Z)[n + 1 + j] = Plain(0)
      BY <1>6, <3>1 DEF IsTail
    <3>3. n + 1 + j \in 1..(n + 1 + z)
      BY <1>8, <3>1
    <3>4. R[n + 1 + j] = Plain(0)
      BY <1>7, <3>2, <3>3
    <3>5. QED
      BY <3>1, <3>2, <3>4
  <2>5. CASE i \in (n + 2 + z)..(n + 1 + z + LengthBytes)
    <3>1. PICK j \in 1..LengthBytes : i = n + 1 + z + j
      <4>1. i - n - 1 - z \in 1..LengthBytes /\ i = n + 1 + z + (i - n - 1 - z)
        BY <1>8, <2>5
      <4>2. QED
        BY <4>1
    <3>2. QED
      BY <1>7, <3>1 DEF IsTail
  <2>6. QED
    BY <1>8, <2>1, <2>2, <2>3, <2>4, <2>5
<1>10. t = R
  BY <1>7, <1>9, EqualSequences DEF IsTail
<1>11. QED
  BY <1>10 DEF R, B, P, Z, L, TailOf

\* What stands before a tail joins its first part.
Joined(s, t) == s \o t

LEMMA JoinedIsAssociative ==
    \A x, y, w : IsSequence(x) /\ IsSequence(y) /\ IsSequence(w) =>
        Joined(Joined(x, y), w) = Joined(x, Joined(y, w))
<1> SUFFICES ASSUME NEW x, NEW y, NEW w, IsSequence(x), IsSequence(y), IsSequence(w)
             PROVE  Joined(Joined(x, y), w) = Joined(x, Joined(y, w))
  OBVIOUS
<1>1. (x \o y) \o w = x \o (y \o w)
  BY Associativity
<1>2. QED
  BY <1>1 DEF Joined

LEMMA JoinedIsSequence ==
    \A x, y : IsSequence(x) /\ IsSequence(y) => IsSequence(Joined(x, y))
BY Concatenation DEF Joined

LEMMA JoinedTail ==
    \A s, b, p, z, l :
        IsSequence(s) /\ IsSequence(b) /\ IsSequence(p) /\ IsSequence(z) /\ IsSequence(l) =>
            Joined(s, Joined(Joined(Joined(b, p), z), l))
              = Joined(Joined(Joined(Joined(s, b), p), z), l)
BY JoinedIsAssociative, JoinedIsSequence

LEMMA TailOnMessage ==
    ASSUME NEW st, IsSequence(st), NEW b, IsSequence(b), NEW n \in 0..Len(b),
           NEW z \in Nat, NEW bits \in Nat
    PROVE  Joined(st, TailOf(b, n, z, bits)) = PaddedBy(Joined(st, SubSeq(b, 1, n)), z, bits)
<1>1. IsSequence(SubSeq(b, 1, n))
  BY Prefix
<1>2. IsSequence(Mark)
  <2>1. Mark \in Seq({Plain(128)})
    BY DEF Mark
  <2>2. QED
    BY <2>1, SequenceOfSome
<1>3. IsSequence(ZeroBytes(z))
  BY Tabulated DEF ZeroBytes
<1>4. IsSequence(LengthField(bits))
  BY Constants, Tabulated DEF LengthField
<1>5. QED
  <2>1. PICK B, Z, L : B = SubSeq(b, 1, n) /\ Z = ZeroBytes(z) /\ L = LengthField(bits)
    OBVIOUS
  <2>2. Joined(st, Joined(Joined(Joined(B, Mark), Z), L))
          = Joined(Joined(Joined(Joined(st, B), Mark), Z), L)
    BY <1>1, <1>2, <1>3, <1>4, <2>1, JoinedTail
  <2>3. QED
    BY <2>1, <2>2 DEF Joined, TailOf, PaddedBy

\* The zeros that finalize() writes are as many as the standard asks for.
LEMMA Zeros ==
    ASSUME NEW B \in Nat \ {0}, NEW l \in Nat, NEW k \in Nat, NEW n \in Nat, NEW z \in Nat,
           n + 1 + l + z \in {B, 2 * B}, z < B
    PROVE  (B - ((B * k + (n + 1 + l)) % B)) % B = z
<1>1. CASE n + 1 + l + z = B
  <2>1. n + 1 + l \in 1..B /\ z = B - (n + 1 + l)
    BY <1>1
  <2>2. QED
    BY <2>1, Missing
<1>2. CASE n + 1 + l + z = 2 * B
  <2>1. PICK r : r = n + 1 + l - B
    OBVIOUS
  <2>2. r \in 1..B /\ z = B - r
    BY <1>2, <2>1
  <2>3. B * (k + 1) = B * k + B /\ B * k \in Nat
    OBVIOUS
  <2>4. B * (k + 1) + r = B * k + (n + 1 + l) /\ k + 1 \in Nat
    BY <2>1, <2>3
  <2>5. (B - ((B * (k + 1) + r) % B)) % B = B - r
    BY <2>2, <2>4, Missing
  <2>6. QED
    BY <2>2, <2>4, <2>5
<1>3. QED
  BY <1>1, <1>2

\* Whole blocks and a tail behind them, of the right number of zeros, are the padded
\* message.
LEMMA PaddedMessage ==
    ASSUME NEW st, IsSequence(st), NEW k \in Nat, Len(st) = Block * k,
           NEW b, IsSequence(b), NEW n \in Nat, n <= Len(b),
           NEW t, NEW z \in Nat, IsTail(t, b, n, z, 8 * (Len(st) + n)),
           n + 1 + LengthBytes + z \in {Block, 2 * Block}, z < Block
    PROVE  st \o t = Padded(st \o SubSeq(b, 1, n))
<1>0. Len(st) \in Nat /\ Len(b) \in Nat
  BY SequenceParts
<1>1. n \in 0..Len(b)
  BY <1>0
<1>2. PICK bits : bits = 8 * (Len(st) + n)
  OBVIOUS
<1>3. bits \in Nat
  BY <1>0, <1>2
<1>3a. IsTail(t, b, n, z, bits)
  BY <1>2
<1>4. PICK m : m = st \o SubSeq(b, 1, n)
  OBVIOUS
<1>5. Len(m) = Len(st) + n
  <2>1. IsSequence(SubSeq(b, 1, n)) /\ Len(SubSeq(b, 1, n)) = n
    BY <1>1, Prefix
  <2>2. QED
    BY <1>4, <2>1, Concatenation
<1>6. (Block - ((Len(m) + 1 + LengthBytes) % Block)) % Block = z
  <2>1. Block * k \in Nat /\ Len(m) + 1 + LengthBytes = Block * k + (n + 1 + LengthBytes)
    BY <1>0, <1>5, Constants
  <2>2. (Block - ((Block * k + (n + 1 + LengthBytes)) % Block)) % Block = z
    BY Constants, Zeros
  <2>3. QED
    BY <2>1, <2>2
<1>7. st \o t = PaddedBy(m, z, bits)
  <2>1. t = TailOf(b, n, z, bits)
    BY <1>1, <1>3, <1>3a, TailParts
  <2>2. Joined(st, TailOf(b, n, z, bits)) = PaddedBy(Joined(st, SubSeq(b, 1, n)), z, bits)
    BY <1>1, <1>3, TailOnMessage
  <2>3. QED
    BY <1>4, <2>1, <2>2 DEF Joined
<1>8. bits = 8 * Len(m)
  BY <1>2, <1>5
<1>9. Padded(m) = PaddedBy(m, z, bits)
  BY <1>6, <1>8 DEF Padded, PaddedBy
<1>10. QED
  BY <1>4, <1>7, <1>9

-----------------------------------------------------------------------------
(* Bytes on their way through the buffer.                                  *)

LEMMA NoBytes ==
    ASSUME NEW s, IsSequence(s), NEW m \in 1..Len(s) + 1
    PROVE  SubSeq(s, m, m - 1) = <<>>
<1>1. Len(s) \in Nat
  BY SequenceParts
<1>2. m - 1 \in (m - 1)..Len(s)
  BY <1>1
<1>3. PICK t : t = SubSeq(s, m, m - 1)
  OBVIOUS
<1>4. IsSequence(t) /\ Len(t) = 0
  BY <1>1, <1>2, <1>3, Slice
<1>5. t = <<>>
  BY <1>4, Nothing, EqualSequences
<1>6. QED
  BY <1>3, <1>5

LEMMA CutSlice ==
    ASSUME NEW s, IsSequence(s), NEW m \in 1..Len(s) + 1, NEW j \in (m - 1)..Len(s)
    PROVE  SubSeq(s, m, Len(s)) = SubSeq(s, m, j) \o SubSeq(s, j + 1, Len(s))
<1>1. Len(s) \in Nat
  BY SequenceParts
<1>2. PICK a, b, c : a = SubSeq(s, m, j) /\ b = SubSeq(s, j + 1, Len(s)) /\ c = SubSeq(s, m, Len(s))
  OBVIOUS
<1>3. IsSequence(a) /\ Len(a) = j - m + 1 /\ \A i \in 1..(j - m + 1) : a[i] = s[m + i - 1]
  BY <1>2, Slice
<1>4. IsSequence(b) /\ Len(b) = Len(s) - j /\ \A i \in 1..(Len(s) - j) : b[i] = s[j + i]
  <2>1. j + 1 \in 1..Len(s) + 1 /\ Len(s) \in (j + 1 - 1)..Len(s)
    BY <1>1
  <2>2. /\ IsSequence(SubSeq(s, j + 1, Len(s)))
        /\ Len(SubSeq(s, j + 1, Len(s))) = Len(s) - (j + 1) + 1
        /\ \A i \in 1..(Len(s) - (j + 1) + 1) : SubSeq(s, j + 1, Len(s))[i] = s[j + 1 + i - 1]
    BY <2>1, Slice
  <2>3. QED
    BY <1>1, <1>2, <2>2
<1>5. IsSequence(c) /\ Len(c) = Len(s) - m + 1
      /\ \A i \in 1..(Len(s) - m + 1) : c[i] = s[m + i - 1]
  <2>1. Len(s) \in (m - 1)..Len(s)
    BY <1>1
  <2>2. c = SubSeq(s, m, Len(s))
    BY <1>2
  <2>3. /\ IsSequence(SubSeq(s, m, Len(s)))
        /\ Len(SubSeq(s, m, Len(s))) = Len(s) - m + 1
        /\ \A i \in 1..(Len(s) - m + 1) : SubSeq(s, m, Len(s))[i] = s[m + i - 1]
    BY <2>1, Slice
  <2>4. QED
    BY <2>2, <2>3
<1>6. /\ IsSequence(a \o b) /\ Len(a \o b) = Len(a) + Len(b)
      /\ \A i \in 1..Len(a) : (a \o b)[i] = a[i]
      /\ \A i \in 1..Len(b) : (a \o b)[Len(a) + i] = b[i]
  <2>1. IsSequence(a)
    BY <1>3
  <2>2. IsSequence(b)
    BY <1>4
  <2>3. QED
    BY <2>1, <2>2, Concatenation
<1>6a. PICK d : d = a \o b
  OBVIOUS
<1>7. \A i \in 1..Len(c) : c[i] = d[i]
  <2>1. SUFFICES ASSUME NEW i \in 1..Len(c) PROVE c[i] = d[i]
    OBVIOUS
  <2>2. i \in Int /\ c[i] = s[m + i - 1]
    BY <1>1, <1>5
  <2>3. CASE i <= j - m + 1
    BY <1>1, <1>3, <1>6, <1>6a, <2>2, <2>3
  <2>4. CASE i > j - m + 1
    <3>1. PICK q \in 1..(Len(s) - j) : i = j - m + 1 + q
      <4>1. i - (j - m + 1) \in 1..(Len(s) - j) /\ i = j - m + 1 + (i - (j - m + 1))
        BY <1>1, <1>5, <2>4
      <4>2. QED
        BY <4>1
    <3>2. d[i] = b[q] /\ b[q] = s[j + q]
      BY <1>3, <1>4, <1>6, <1>6a, <3>1
    <3>3. j + q = m + i - 1
      BY <3>1
    <3>4. QED
      BY <2>2, <3>2, <3>3
  <2>5. QED
    BY <1>1, <2>2, <2>3, <2>4
<1>8. Len(c) = Len(d)
  BY <1>1, <1>3, <1>4, <1>5, <1>6, <1>6a
<1>9. c = d
  BY <1>5, <1>6, <1>6a, <1>7, <1>8, EqualSequences
<1>10. QED
  BY <1>2, <1>6a, <1>9

\* What is copied to the buffer stands there behind what it held.
LEMMA CopiedBytes ==
    ASSUME IsSequence(buf), Len(buf) = Block, NEW n \in 0..Block,
           NEW x, IsSequence(x), n + Len(x) <= Block,
           NEW c, c = Copied(x, n)
    PROVE  /\ IsSequence(c) /\ Len(c) = Block
           /\ SubSeq(c, 1, n + Len(x)) = SubSeq(buf, 1, n) \o x
<1>1. Len(x) \in Nat /\ Block \in Nat
  BY Constants, SequenceParts
<1>2. IsSequence(c) /\ Len(c) = Block
  BY <1>1, Tabulated DEF Copied
<1>3. \A i \in 1..Block : c[i] = IF i \in (n + 1)..(n + Len(x)) THEN x[i - n] ELSE buf[i]
  BY DEF Copied
<1>4. PICK a, d, e : a = SubSeq(buf, 1, n) /\ d = a \o x /\ e = SubSeq(c, 1, n + Len(x))
  OBVIOUS
<1>5. n \in 0..Len(buf) /\ n + Len(x) \in 0..Len(c)
  BY <1>1, <1>2
<1>6. IsSequence(a) /\ Len(a) = n /\ \A i \in 1..n : a[i] = buf[i]
  BY <1>4, <1>5, Prefix
<1>7. IsSequence(e) /\ Len(e) = n + Len(x) /\ \A i \in 1..(n + Len(x)) : e[i] = c[i]
  BY <1>2, <1>4, <1>5, Prefix
<1>8. /\ IsSequence(d) /\ Len(d) = Len(a) + Len(x)
      /\ \A i \in 1..Len(a) : d[i] = a[i]
      /\ \A i \in 1..Len(x) : d[Len(a) + i] = x[i]
  BY <1>4, <1>6, Concatenation
<1>9. \A i \in 1..Len(e) : e[i] = d[i]
  <2>1. SUFFICES ASSUME NEW i \in 1..(n + Len(x)) PROVE e[i] = d[i]
    BY <1>7
  <2>2. e[i] = c[i] /\ i \in 1..Block
    BY <1>1, <1>7
  <2>3. CASE i <= n
    BY <1>1, <1>3, <1>6, <1>8, <2>2, <2>3
  <2>4. CASE i > n
    <3>1. i \in (n + 1)..(n + Len(x)) /\ i - n \in 1..Len(x) /\ n + (i - n) = i
      BY <1>1, <2>4
    <3>2. c[i] = x[i - n]
      BY <1>3, <2>2, <3>1
    <3>3. d[n + (i - n)] = x[i - n]
      BY <1>6, <1>8, <3>1
    <3>4. QED
      BY <2>2, <3>1, <3>2, <3>3
  <2>5. QED
    BY <1>1, <2>3, <2>4
<1>10. e = d
  BY <1>1, <1>6, <1>7, <1>8, <1>9, EqualSequences
<1>11. QED
  BY <1>2, <1>4, <1>10

-----------------------------------------------------------------------------
(* What holds of a context between any two steps of its calls.             *)

Sequences ==
    /\ IsSequence(state) /\ IsSequence(data) /\ IsSequence(fed)
    /\ IsSequence(buf) /\ IsSequence(digest)

\* Only whole blocks are hashed before finalize().
Whole == ~finalized => \E k \in Nat : Len(state) = Block * k

Between ==
    /\ step = "idle" => data = <<>>
    /\ step = "top" => pos = 0

ContextInv ==
    Sequences /\ TypeOK /\ NothingIsLost /\ Whole /\ Between /\ DigestIgnoresCuts

LEMMA UpdateStarts ==
    ASSUME ContextInv, NEW bytes, IsSequence(bytes), update(bytes)
    PROVE  ContextInv'
<1> USE DEF ContextInv
<1>0. /\ step = "idle" /\ data = <<>> /\ data' = bytes /\ pos' = 0 /\ step' = "top"
      /\ UNCHANGED <<state, count, buf, buf_len, digest, finalized>>
      /\ fed' = IF finalized THEN fed ELSE fed \o bytes
  BY DEF update, context, Between
<1>1. Len(bytes) \in Nat
  BY SequenceParts
<1>2. IsSequence(fed) /\ IsSequence(fed \o bytes)
  BY Concatenation DEF Sequences
<1>3. Sequences'
  BY <1>0, <1>2 DEF Sequences
<1>4. TypeOK'
  BY <1>0, <1>1 DEF TypeOK
<1>5. NothingIsLost'
  <2>1. SUFFICES ASSUME ~finalized PROVE NothingIsLost'
    BY <1>0 DEF NothingIsLost
  <2>2. pos' + 1 = 1 /\ pos + 1 = 1
    BY <1>0, Nothing DEF TypeOK
  <2>3. SubSeq(data, 1, 0) = <<>> /\ Len(data) = 0
    BY <1>0, Nothing, NoBytes
  <2>4. fed = state \o SubSeq(buf, 1, buf_len) \o SubSeq(data, pos + 1, Len(data))
        /\ count = 8 * Len(state)
    BY <2>1 DEF NothingIsLost
  <2>4a. SubSeq(data, pos + 1, Len(data)) = <<>>
    BY <2>2, <2>3
  <2>4b. fed = state \o SubSeq(buf, 1, buf_len) \o <<>>
    BY <2>4, <2>4a
  <2>5. IsSequence(SubSeq(buf, 1, buf_len))
    BY Prefix DEF TypeOK, Sequences
  <2>6. IsSequence(state \o SubSeq(buf, 1, buf_len))
    BY <2>5, Concatenation DEF Sequences
  <2>7. fed = state \o SubSeq(buf, 1, buf_len)
    BY <2>4b, <2>6, Nothing
  <2>8. SubSeq(bytes, 1, Len(bytes)) = bytes
    BY WholeSlice
  <2>9. fed' = state' \o SubSeq(buf', 1, buf_len') \o SubSeq(data', pos' + 1, Len(data'))
    BY <1>0, <2>1, <2>2, <2>7, <2>8
  <2>10. QED
    BY <1>0, <2>4, <2>9 DEF NothingIsLost
<1>6. Whole' /\ Between'
  BY <1>0 DEF Whole, Between
<1>7. DigestIgnoresCuts'
  BY <1>0 DEF DigestIgnoresCuts
<1>8. QED
  BY <1>3, <1>4, <1>5, <1>6, <1>7

LEMMA JoinedMiddle ==
    \A s, a, x, y :
        IsSequence(s) /\ IsSequence(a) /\ IsSequence(x) /\ IsSequence(y) =>
            Joined(Joined(s, a), Joined(x, y)) = Joined(Joined(s, Joined(a, x)), y)
BY JoinedIsAssociative, JoinedIsSequence

LEMMA WholeAgain ==
    ASSUME NEW s, IsSequence(s), NEW b, IsSequence(b), Len(b) = Block,
           NEW k \in Nat, Len(s) = Block * k
    PROVE  /\ Len(s \o b) = Len(s) + Block
           /\ \E j \in Nat : Len(s \o b) = Block * j
<1>1. Len(s \o b) = Len(s) + Block
  BY Concatenation
<1>2. Block * (k + 1) = Block * k + Block /\ k + 1 \in Nat
  BY Constants
<1>3. QED
  BY <1>1, <1>2

LEMMA BufferIsTopped ==
    ASSUME ContextInv, TopUp
    PROVE  ContextInv'
<1> USE DEF ContextInv
<1>1. PICK take : take = IF Len(data) < Block - buf_len THEN Len(data) ELSE Block - buf_len
  OBVIOUS
<1>2. PICK x : x = SubSeq(data, 1, take)
  OBVIOUS
<1>3. /\ step = "top" /\ buf_len > 0 /\ step' = "blocks"
      /\ UNCHANGED <<digest, finalized, data, fed>>
      /\ buf' = Copied(x, buf_len) /\ pos' = take
      /\ buf_len' = IF buf_len + take = Block THEN 0 ELSE buf_len + take
      /\ state' = IF buf_len + take = Block THEN state \o buf' ELSE state
      /\ count' = IF buf_len + take = Block THEN count + Block * 8 ELSE count
  BY <1>1, <1>2 DEF TopUp, need
<1>4. Len(data) \in Nat /\ Len(state) \in Nat /\ Block \in Nat \ {0} /\ buf_len \in 0..Block
  BY SequenceParts, Constants DEF Sequences, TypeOK
<1>5. take \in 0..Len(data) /\ buf_len + take <= Block
      /\ (buf_len + take < Block => take = Len(data))
  BY <1>1, <1>4
<1>6. IsSequence(x) /\ Len(x) = take
  BY <1>2, <1>5, Prefix DEF Sequences
<1>7. PICK c : c = buf'
  OBVIOUS
<1>8. /\ IsSequence(c) /\ Len(c) = Block
      /\ SubSeq(c, 1, buf_len + take) = SubSeq(buf, 1, buf_len) \o x
  <2>1. IsSequence(buf) /\ Len(buf) = Block
    BY DEF Sequences, TypeOK
  <2>2. c = Copied(x, buf_len) /\ buf_len + Len(x) <= Block
    BY <1>3, <1>5, <1>6, <1>7
  <2>3. QED
    BY <1>4, <1>6, <2>1, <2>2, CopiedBytes
<1>9. Sequences'
  <2>1. IsSequence(state \o c)
    BY <1>8, Concatenation DEF Sequences
  <2>2. QED
    BY <1>3, <1>7, <1>8, <2>1 DEF Sequences
<1>10. TypeOK'
  BY <1>3, <1>4, <1>5, <1>7, <1>8 DEF TypeOK
<1>11. ASSUME ~finalized PROVE NothingIsLost' /\ Whole'
  <2>1. PICK A, y : A = SubSeq(buf, 1, buf_len) /\ y = SubSeq(data, take + 1, Len(data))
    OBVIOUS
  <2>2. IsSequence(A)
    BY <2>1, <1>4, Prefix DEF TypeOK, Sequences
  <2>3. IsSequence(y) /\ data = x \o y
    <3>1. take + 1 \in 1..Len(data) + 1 /\ Len(data) \in (take + 1 - 1)..Len(data)
      BY <1>4, <1>5
    <3>2. IsSequence(SubSeq(data, take + 1, Len(data)))
      BY <3>1, Slice DEF Sequences
    <3>3. SubSeq(data, 1, take) \o SubSeq(data, take + 1, Len(data)) = data
      BY <1>5, Cut DEF Sequences
    <3>4. QED
      BY <1>2, <2>1, <3>2, <3>3
  <2>4. fed = Joined(Joined(state, A), data)
    <3>1. pos + 1 = 1
      BY <1>3 DEF Between
    <3>2. SubSeq(data, 1, Len(data)) = data
      BY WholeSlice DEF Sequences
    <3>3. QED
      BY <1>11, <2>1, <3>1, <3>2 DEF NothingIsLost, Joined
  <2>5. fed = Joined(Joined(state, Joined(A, x)), y)
    <3>1. data = Joined(x, y)
      BY <2>3 DEF Joined
    <3>2. IsSequence(state)
      BY DEF Sequences
    <3>3. Joined(Joined(state, A), Joined(x, y)) = Joined(Joined(state, Joined(A, x)), y)
      BY <1>6, <2>2, <2>3, <3>2, JoinedMiddle
    <3>4. QED
      BY <2>4, <3>1, <3>3
  <2>6. count = 8 * Len(state) /\ \E k \in Nat : Len(state) = Block * k
    BY <1>11 DEF NothingIsLost, Whole
  <2>7. SubSeq(data', pos' + 1, Len(data')) = y
    BY <1>3, <2>1
  <2>8. CASE buf_len + take < Block
    <3>1. SubSeq(c, 1, buf_len') = Joined(A, x) /\ state' = state /\ count' = count
      BY <1>3, <1>4, <1>5, <1>8, <2>1, <2>8 DEF Joined
    <3>2. fed' = state' \o SubSeq(buf', 1, buf_len') \o SubSeq(data', pos' + 1, Len(data'))
      BY <1>3, <1>7, <2>5, <2>7, <3>1 DEF Joined
    <3>3. pos' = Len(data')
      BY <1>3, <1>5, <2>8
    <3>4. QED
      BY <2>6, <3>1, <3>2, <3>3 DEF NothingIsLost, Whole
  <2>9. CASE buf_len + take = Block
    <3>1. state' = state \o c /\ buf_len' = 0 /\ count' = count + Block * 8
      BY <1>3, <1>7, <2>9
    <3>2. c = Joined(A, x)
      <4>1. SubSeq(c, 1, Len(c)) = c
        BY <1>8, WholeSlice
      <4>2. QED
        BY <1>8, <2>1, <2>9, <4>1 DEF Joined
    <3>3. SubSeq(c, 1, 0) = <<>>
      BY <1>8, Nothing, NoBytes
    <3>4. state' = Joined(state, Joined(A, x)) /\ state' \o <<>> = state'
      <4>1. IsSequence(state')
        BY <1>9 DEF Sequences
      <4>2. QED
        BY <3>1, <3>2, <4>1, Nothing DEF Joined
    <3>5. fed' = state' \o SubSeq(buf', 1, buf_len') \o SubSeq(data', pos' + 1, Len(data'))
      BY <1>3, <1>7, <2>5, <2>7, <3>1, <3>3, <3>4 DEF Joined
    <3>6. Len(state \o c) = Len(state) + Block /\ \E j \in Nat : Len(state \o c) = Block * j
      BY <1>8, <2>6, WholeAgain DEF Sequences
    <3>7. count' = 8 * Len(state')
      BY <1>4, <2>6, <3>1, <3>6
    <3>8. QED
      BY <3>1, <3>5, <3>6, <3>7 DEF NothingIsLost, Whole
  <2>10. QED
    BY <1>4, <1>5, <2>8, <2>9
<1>12. NothingIsLost' /\ Whole'
  BY <1>3, <1>11 DEF NothingIsLost, Whole
<1>13. Between' /\ DigestIgnoresCuts'
  BY <1>3 DEF Between, DigestIgnoresCuts
<1>14. QED
  BY <1>9, <1>10, <1>12, <1>13

LEMMA NothingToTop ==
    ASSUME ContextInv, NothingToTopUp
    PROVE  ContextInv'
<1>1. /\ UNCHANGED <<state, count, buf, buf_len, digest, finalized, data, pos, fed>>
      /\ step = "top" /\ step' = "blocks" /\ buf_len = 0
  BY DEF NothingToTopUp, context
<1>2. Block > 0
  BY Constants
<1>3. TypeOK'
  BY <1>1, <1>2 DEF ContextInv, TypeOK
<1>4. QED
  BY <1>1, <1>3 DEF ContextInv, Sequences, NothingIsLost, Whole, Between, DigestIgnoresCuts

LEMMA BlockIsAbsorbed ==
    ASSUME ContextInv, AbsorbBlock
    PROVE  ContextInv'
<1> USE DEF ContextInv
<1>1. PICK b : b = SubSeq(data, pos + 1, pos + Block)
  OBVIOUS
<1>2. /\ step = "blocks" /\ pos + Block <= Len(data)
      /\ UNCHANGED <<buf, buf_len, digest, finalized, data, step, fed>>
      /\ state' = state \o b /\ count' = count + Block * 8 /\ pos' = pos + Block
  BY <1>1 DEF AbsorbBlock
<1>3. /\ Len(data) \in Nat /\ Len(state) \in Nat /\ Block \in Nat \ {0}
      /\ pos \in 0..Len(data) /\ buf_len \in 0..Block
  BY SequenceParts, Constants DEF Sequences, TypeOK
<1>3a. IsSequence(data)
  BY DEF Sequences
<1>4. PICK first, last : first = pos + 1 /\ last = pos + Block
  OBVIOUS
<1>4a. first \in 1..Len(data) + 1
  BY <1>2, <1>3, <1>4
<1>4b. last \in (first - 1)..Len(data)
  BY <1>2, <1>3, <1>4
<1>5. IsSequence(b) /\ Len(b) = Block
  <2>1. IsSequence(SubSeq(data, first, last))
        /\ Len(SubSeq(data, first, last)) = last - first + 1
    BY <1>3a, <1>4a, <1>4b, Slice
  <2>2. QED
    BY <1>1, <1>3, <1>4, <2>1
<1>6. Sequences'
  <2>1. IsSequence(state \o b)
    BY <1>5, Concatenation DEF Sequences
  <2>2. QED
    BY <1>2, <2>1 DEF Sequences
<1>7. TypeOK'
  BY <1>2, <1>3 DEF TypeOK
<1>8. ASSUME ~finalized PROVE NothingIsLost' /\ Whole'
  <2>1. buf_len = 0
    BY <1>2, <1>3, <1>8 DEF NothingIsLost
  <2>2. SubSeq(buf, 1, 0) = <<>>
    BY Nothing, NoBytes DEF Sequences, TypeOK
  <2>3. PICK y : y = SubSeq(data, pos + Block + 1, Len(data))
    OBVIOUS
  <2>4. SubSeq(data, pos + 1, Len(data)) = Joined(b, y)
    <3>1. SubSeq(data, first, Len(data))
            = SubSeq(data, first, last) \o SubSeq(data, last + 1, Len(data))
      BY <1>3a, <1>4a, <1>4b, CutSlice
    <3>2. QED
      BY <1>1, <1>4, <2>3, <3>1 DEF Joined
  <2>5. IsSequence(y)
    <3>1. pos + Block + 1 \in 1..Len(data) + 1 /\ Len(data) \in (pos + Block + 1 - 1)..Len(data)
      BY <1>2, <1>3
    <3>2. QED
      BY <2>3, <3>1, Slice DEF Sequences
  <2>6. IsSequence(state) /\ state \o <<>> = state
    BY Nothing DEF Sequences
  <2>7. fed = Joined(state, Joined(b, y))
    <3>1. fed = state \o SubSeq(buf, 1, 0) \o Joined(b, y)
      BY <1>8, <2>1, <2>4 DEF NothingIsLost
    <3>2. QED
      BY <2>2, <2>6, <3>1 DEF Joined
  <2>8. fed = Joined(Joined(state, b), y)
    BY <1>5, <2>5, <2>6, <2>7, JoinedIsAssociative
  <2>9. IsSequence(state \o b) /\ (state \o b) \o <<>> = state \o b
    BY <1>5, <2>6, Concatenation, Nothing
  <2>10. fed' = state' \o SubSeq(buf', 1, buf_len') \o SubSeq(data', pos' + 1, Len(data'))
    BY <1>2, <2>1, <2>2, <2>3, <2>8, <2>9 DEF Joined
  <2>11. count = 8 * Len(state) /\ \E k \in Nat : Len(state) = Block * k
    BY <1>8 DEF NothingIsLost, Whole
  <2>12. Len(state \o b) = Len(state) + Block /\ \E j \in Nat : Len(state \o b) = Block * j
    BY <1>5, <2>6, <2>11, WholeAgain
  <2>13. count' = 8 * Len(state')
    BY <1>2, <1>3, <2>11, <2>12
  <2>14. NothingIsLost'
    <3>1. buf_len' = 0
      BY <1>2, <2>1
    <3>2. QED
      BY <2>10, <2>13, <3>1 DEF NothingIsLost
  <2>15. QED
    BY <1>2, <2>12, <2>14 DEF Whole
<1>9. NothingIsLost' /\ Whole'
  BY <1>2, <1>8 DEF NothingIsLost, Whole
<1>10. Between' /\ DigestIgnoresCuts'
  BY <1>2 DEF Between, DigestIgnoresCuts
<1>11. QED
  BY <1>6, <1>7, <1>9, <1>10

LEMMA RestIsKept ==
    ASSUME ContextInv, KeepRest
    PROVE  ContextInv'
<1> USE DEF ContextInv
<1>1. PICK x : x = SubSeq(data, pos + 1, Len(data))
  OBVIOUS
<1>2. /\ step = "blocks" /\ pos + Block > Len(data)
      /\ IF pos < Len(data) THEN buf' = Copied(x, 0) /\ buf_len' = Len(data) - pos
         ELSE UNCHANGED <<buf, buf_len>>
      /\ data' = <<>> /\ pos' = 0 /\ step' = "idle"
      /\ UNCHANGED <<state, count, digest, finalized, fed>>
  BY <1>1 DEF KeepRest
<1>3. /\ Len(data) \in Nat /\ Len(state) \in Nat /\ Block \in Nat \ {0}
      /\ pos \in 0..Len(data) /\ buf_len \in 0..Block
  BY SequenceParts, Constants DEF Sequences, TypeOK
<1>4. IsSequence(x) /\ Len(x) = Len(data) - pos
  <2>1. pos + 1 \in 1..Len(data) + 1 /\ Len(data) \in (pos + 1 - 1)..Len(data)
    BY <1>3
  <2>2. IsSequence(SubSeq(data, pos + 1, Len(data)))
        /\ Len(SubSeq(data, pos + 1, Len(data))) = Len(data) - (pos + 1) + 1
    BY <2>1, Slice DEF Sequences
  <2>3. QED
    BY <1>1, <1>3, <2>2
<1>4a. PICK c : c = buf'
  OBVIOUS
<1>5. IsSequence(buf) /\ Len(buf) = Block /\ SubSeq(buf, 1, 0) = <<>>
  BY Nothing, NoBytes DEF Sequences, TypeOK
<1>6. ASSUME pos < Len(data)
      PROVE  IsSequence(c) /\ Len(c) = Block /\ SubSeq(c, 1, buf_len') = x
  <2>1. c = Copied(x, 0) /\ 0 \in 0..Block /\ 0 + Len(x) <= Block
    BY <1>2, <1>3, <1>4, <1>4a, <1>6
  <2>2. /\ IsSequence(c) /\ Len(c) = Block
        /\ SubSeq(c, 1, 0 + Len(x)) = SubSeq(buf, 1, 0) \o x
    BY <1>4, <1>5, <2>1, CopiedBytes
  <2>3. 0 + Len(x) = buf_len' /\ <<>> \o x = x
    BY <1>2, <1>3, <1>4, <1>6, Nothing
  <2>4. QED
    BY <1>5, <2>2, <2>3
<1>7. Sequences'
  BY <1>2, <1>4a, <1>5, <1>6, Nothing DEF Sequences
<1>8. TypeOK'
  <2>1. Len(buf') = Block
    BY <1>2, <1>4a, <1>5, <1>6
  <2>2. buf_len' \in 0..Block /\ (~finalized => buf_len' < Block)
    BY <1>2, <1>3 DEF TypeOK
  <2>3. QED
    BY <1>2, <2>1, <2>2, Nothing DEF TypeOK
<1>9. ASSUME ~finalized PROVE NothingIsLost'
  <2>1. fed = state \o SubSeq(buf, 1, buf_len) \o x /\ count = 8 * Len(state)
    BY <1>1, <1>9 DEF NothingIsLost
  <2>2. IsSequence(SubSeq(buf, 1, buf_len))
    BY <1>3, <1>5, Prefix
  <2>3. IsSequence(state \o SubSeq(buf, 1, buf_len))
    BY <2>2, Concatenation DEF Sequences
  <2>4. fed = state \o SubSeq(buf', 1, buf_len')
    <3>1. CASE pos < Len(data)
      <4>1. buf_len = 0
        BY <1>2, <1>3, <1>9, <3>1 DEF NothingIsLost
      <4>2. state \o <<>> = state
        BY Nothing DEF Sequences
      <4>3. QED
        BY <1>4a, <1>5, <1>6, <2>1, <3>1, <4>1, <4>2
    <3>2. CASE pos = Len(data)
      <4>1. x = <<>>
        BY <1>1, <1>3, <3>2, NoBytes DEF Sequences
      <4>2. buf' = buf /\ buf_len' = buf_len
        BY <1>2, <1>3, <3>2
      <4>3. fed = state \o SubSeq(buf, 1, buf_len) \o <<>>
        BY <2>1, <4>1
      <4>4. fed = state \o SubSeq(buf, 1, buf_len)
        BY <2>3, <4>3, Nothing
      <4>5. QED
        BY <4>2, <4>4
    <3>3. pos < Len(data) \/ pos = Len(data)
      BY <1>3
    <3>4. QED
      BY <3>1, <3>2, <3>3
  <2>5. IsSequence(fed) /\ fed \o <<>> = fed
    BY Nothing DEF Sequences
  <2>6. SubSeq(data', pos' + 1, Len(data')) = <<>>
    <3>1. Len(data') = 0 /\ pos' + 1 = 1 /\ 1 - 1 = 0
      BY <1>2, Nothing
    <3>2. SubSeq(<<>>, 1, 0) = <<>>
      BY <3>1, Nothing, NoBytes
    <3>3. QED
      BY <1>2, <3>1, <3>2
  <2>7. fed' = state' \o SubSeq(buf', 1, buf_len') \o SubSeq(data', pos' + 1, Len(data'))
    BY <1>2, <2>4, <2>5, <2>6
  <2>8. QED
    BY <1>2, <2>1, <2>7 DEF NothingIsLost
<1>10. NothingIsLost'
  BY <1>2, <1>9 DEF NothingIsLost
<1>11. Whole' /\ Between' /\ DigestIgnoresCuts'
  BY <1>2 DEF Whole, Between, DigestIgnoresCuts
<1>12. QED
  BY <1>7, <1>8, <1>10, <1>11

Marked(n) == [buf EXCEPT ![n + 1] = Plain(128)]

LEMMA MarkedBytes ==
    ASSUME IsSequence(buf), Len(buf) = Block, NEW n \in 0..(Block - 1)
    PROVE  \A i \in 1..Block : Marked(n)[i] = IF i = n + 1 THEN Plain(128) ELSE buf[i]
<1>1. DOMAIN buf = 1..Block
  BY SequenceParts
<1>2. QED
  BY <1>1 DEF Marked

LEMMA TailInOneBlock ==
    ASSUME IsSequence(buf), Len(buf) = Block,
           NEW n \in 0..(Block - 1), n + 1 <= Block - LengthBytes, NEW bits,
           NEW t, t = WithLength(Zeroed(Marked(n), n + 2, Block - LengthBytes), bits)
    PROVE  IsSequence(t) /\ Len(t) = Block /\ IsTail(t, buf, n, Block - LengthBytes - n - 1, bits)
<1>1. Block \in Nat /\ LengthBytes \in Nat /\ n \in Nat
  BY Constants
<1>2. \A i \in 1..Block :
        t[i] = IF i > Block - LengthBytes THEN LengthAt(bits, i - (Block - LengthBytes))
               ELSE IF i \in (n + 2)..(Block - LengthBytes) THEN Plain(0) ELSE Marked(n)[i]
  BY DEF WithLength, Zeroed
<1>3. IsSequence(t) /\ Len(t) = Block
  BY <1>1, Tabulated DEF WithLength
<1>4. \A i \in 1..n : t[i] = buf[i]
  BY <1>1, <1>2, MarkedBytes
<1>5. t[n + 1] = Plain(128)
  <2>1. n + 1 \in 1..Block /\ ~(n + 1 > Block - LengthBytes)
        /\ n + 1 \notin (n + 2)..(Block - LengthBytes)
    BY <1>1
  <2>2. QED
    BY <1>2, <2>1, MarkedBytes
<1>6. PICK z : z = Block - LengthBytes - n - 1
  OBVIOUS
<1>7. \A i \in 1..z : t[n + 1 + i] = Plain(0)
  <2>1. SUFFICES ASSUME NEW i \in 1..z PROVE t[n + 1 + i] = Plain(0)
    OBVIOUS
  <2>2. n + 1 + i \in 1..Block /\ n + 1 + i \in (n + 2)..(Block - LengthBytes)
        /\ ~(n + 1 + i > Block - LengthBytes)
    BY <1>1, <1>6
  <2>3. QED
    BY <1>2, <2>2
<1>8. \A i \in 1..LengthBytes : t[n + 1 + z + i] = LengthAt(bits, i)
  <2>1. SUFFICES ASSUME NEW i \in 1..LengthBytes PROVE t[n + 1 + z + i] = LengthAt(bits, i)
    OBVIOUS
  <2>2. PICK j : j = n + 1 + z + i
    OBVIOUS
  <2>3. j \in 1..Block /\ j > Block - LengthBytes /\ j - (Block - LengthBytes) = i
    BY <1>1, <1>6, <2>2, Constants
  <2>4. QED
    BY <1>2, <2>2, <2>3
<1>9. Block = n + 1 + z + LengthBytes
  BY <1>1, <1>6
<1>10. IsTail(t, buf, n, z, bits)
  BY <1>3, <1>4, <1>5, <1>7, <1>8, <1>9 DEF IsTail
<1>11. QED
  BY <1>3, <1>6, <1>10

LEMMA TailInTwoBlocks ==
    ASSUME IsSequence(buf), Len(buf) = Block,
           NEW n \in 0..(Block - 1), n + 1 > Block - LengthBytes, NEW bits,
           NEW f, f = Zeroed(Marked(n), n + 2, Block),
           NEW l, l = WithLength(Zeroed(f, 1, Block - LengthBytes), bits)
    PROVE  /\ IsSequence(f) /\ Len(f) = Block /\ IsSequence(l) /\ Len(l) = Block
           /\ IsTail(f \o l, buf, n, 2 * Block - LengthBytes - n - 1, bits)
<1>1. Block \in Nat /\ LengthBytes \in Nat /\ n \in Nat
  BY Constants
<1>2. \A i \in 1..Block : f[i] = IF i \in (n + 2)..Block THEN Plain(0) ELSE Marked(n)[i]
  BY DEF Zeroed
<1>3. \A i \in 1..Block :
        l[i] = IF i > Block - LengthBytes THEN LengthAt(bits, i - (Block - LengthBytes))
               ELSE Plain(0)
  BY <1>1 DEF WithLength, Zeroed
<1>4. IsSequence(f) /\ Len(f) = Block
  BY <1>1, Tabulated DEF Zeroed
<1>5. IsSequence(l) /\ Len(l) = Block
  BY <1>1, Tabulated DEF WithLength
<1>6. PICK t, z : t = f \o l /\ z = 2 * Block - LengthBytes - n - 1
  OBVIOUS
<1>7. /\ IsSequence(t) /\ Len(t) = 2 * Block
      /\ \A i \in 1..Block : t[i] = f[i]
      /\ \A i \in 1..Block : t[Block + i] = l[i]
  <2>1. /\ IsSequence(f \o l) /\ Len(f \o l) = Len(f) + Len(l)
        /\ \A i \in 1..Len(f) : (f \o l)[i] = f[i]
        /\ \A i \in 1..Len(l) : (f \o l)[Len(f) + i] = l[i]
    BY <1>4, <1>5, Concatenation
  <2>2. Len(f) = Block /\ Len(l) = Block /\ Block + Block = 2 * Block /\ t = f \o l
    BY <1>1, <1>4, <1>5, <1>6
  <2>3. IsSequence(t) /\ Len(t) = 2 * Block
    BY <2>1, <2>2
  <2>4. \A i \in 1..Block : t[i] = f[i]
    BY <2>1, <2>2
  <2>5. \A i \in 1..Block : t[Block + i] = l[i]
    BY <2>1, <2>2
  <2>6. QED
    BY <2>3, <2>4, <2>5
<1>8. \A i \in 1..n : t[i] = buf[i]
  BY <1>1, <1>2, <1>7, MarkedBytes
<1>9. t[n + 1] = Plain(128)
  <2>1. n + 1 \in 1..Block /\ n + 1 \notin (n + 2)..Block
    BY <1>1
  <2>2. QED
    BY <1>2, <1>7, <2>1, MarkedBytes
<1>10. \A i \in 1..z : t[n + 1 + i] = Plain(0)
  <2>1. SUFFICES ASSUME NEW i \in 1..z PROVE t[n + 1 + i] = Plain(0)
    OBVIOUS
  <2>2. PICK j : j = n + 1 + i
    OBVIOUS
  <2>3. CASE j <= Block
    <3>1. j \in 1..Block /\ j \in (n + 2)..Block
      BY <1>1, <2>2, <2>3
    <3>2. QED
      BY <1>2, <1>7, <2>2, <3>1
  <2>4. CASE j > Block
    <3>1. PICK q \in 1..Block : j = Block + q /\ ~(q > Block - LengthBytes)
      <4>1. /\ j - Block \in 1..Block /\ j = Block + (j - Block)
            /\ ~(j - Block > Block - LengthBytes)
        BY <1>1, <1>6, <2>2, <2>4
      <4>2. QED
        BY <4>1
    <3>2. t[j] = l[q] /\ l[q] = Plain(0)
      BY <1>3, <1>7, <3>1
    <3>3. QED
      BY <2>2, <3>2
  <2>5. j <= Block \/ j > Block
    BY <1>1, <2>2
  <2>6. QED
    BY <2>3, <2>4, <2>5
<1>11. \A i \in 1..LengthBytes : t[n + 1 + z + i] = LengthAt(bits, i)
  <2>1. SUFFICES ASSUME NEW i \in 1..LengthBytes PROVE t[n + 1 + z + i] = LengthAt(bits, i)
    OBVIOUS
  <2>2. PICK q : q = Block - LengthBytes + i
    OBVIOUS
  <2>3. /\ q \in 1..Block /\ q > Block - LengthBytes /\ q - (Block - LengthBytes) = i
        /\ n + 1 + z + i = Block + q
    BY <1>1, <1>6, <2>2, Constants
  <2>4. l[q] = LengthAt(bits, i)
    BY <1>3, <2>3
  <2>5. QED
    BY <1>7, <2>3, <2>4
<1>12. Len(t) = n + 1 + z + LengthBytes
  BY <1>1, <1>6, <1>7
<1>13. IsTail(t, buf, n, z, bits)
  BY <1>7, <1>8, <1>9, <1>10, <1>11, <1>12 DEF IsTail
<1>14. QED
  BY <1>4, <1>5, <1>6, <1>13

LEMMA DigestBytes ==
    ASSUME NEW blocks
    PROVE  IsSequence(DigestOf(blocks)) /\ Len(DigestOf(blocks)) = DigestSize
BY Constants, Tabulated DEF DigestOf

LEMMA ContextFinalized ==
    ASSUME ContextInv, Finalize
    PROVE  ContextInv'
<1> USE DEF ContextInv
<1>1. PICK total, f, l :
        /\ total = count + buf_len * 8
        /\ f = Zeroed(Marked(buf_len), buf_len + 2, Block)
        /\ l = IF NeedsBlock(buf_len + 1)
               THEN WithLength(Zeroed(f, 1, Block - LengthBytes), total)
               ELSE WithLength(Zeroed(Marked(buf_len), buf_len + 2, Block - LengthBytes), total)
  OBVIOUS
<1>2. /\ step = "idle" /\ ~finalized
      /\ state' = (IF NeedsBlock(buf_len + 1) THEN state \o f ELSE state) \o l
      /\ buf' = l /\ buf_len' = Block /\ digest' = DigestOf(state') /\ finalized' = TRUE
      /\ UNCHANGED <<count, data, pos, step, fed>>
  BY <1>1 DEF Finalize, Marked, call
<1>3. /\ IsSequence(buf) /\ Len(buf) = Block /\ IsSequence(state)
      /\ buf_len \in 0..(Block - 1) /\ buf_len \in Nat /\ Len(state) \in Nat
      /\ Block \in Nat /\ LengthBytes \in Nat /\ LengthBytes < Block /\ LengthBytes > 0
  BY <1>2, Constants, SequenceParts DEF Sequences, TypeOK
<1>4. total = 8 * (Len(state) + buf_len)
  BY <1>1, <1>2, <1>3 DEF NothingIsLost
<1>5. PICK k \in Nat : Len(state) = Block * k
  BY <1>2 DEF Whole
<1>6. /\ IsSequence(state') /\ IsSequence(l) /\ Len(l) = Block
      /\ state' = Padded(state \o SubSeq(buf, 1, buf_len))
  <2>1. CASE NeedsBlock(buf_len + 1)
    <3>1. buf_len + 1 > Block - LengthBytes
      BY <2>1 DEF NeedsBlock
    <3>2. PICK t, z : t = f \o l /\ z = 2 * Block - LengthBytes - buf_len - 1
      OBVIOUS
    <3>3. l = WithLength(Zeroed(f, 1, Block - LengthBytes), total)
      BY <1>1, <2>1
    <3>4. /\ IsSequence(f) /\ Len(f) = Block /\ IsSequence(l) /\ Len(l) = Block
          /\ IsTail(f \o l, buf, buf_len, 2 * Block - LengthBytes - buf_len - 1, total)
      BY <1>1, <1>3, <3>1, <3>3, TailInTwoBlocks
    <3>5. IsTail(t, buf, buf_len, z, 8 * (Len(state) + buf_len))
      BY <1>4, <3>2, <3>4
    <3>6. z \in Nat /\ z < Block /\ buf_len + 1 + LengthBytes + z \in {Block, 2 * Block}
      BY <1>3, <3>1, <3>2
    <3>7. buf_len <= Len(buf)
      BY <1>3
    <3>8. state \o t = Padded(state \o SubSeq(buf, 1, buf_len))
      BY <1>3, <1>5, <3>5, <3>6, <3>7, PaddedMessage
    <3>9. (state \o f) \o l = state \o (f \o l)
      <4>1. IsSequence(state)
        BY <1>3
      <4>2. IsSequence(f)
        BY <3>4
      <4>3. IsSequence(l)
        BY <3>4
      <4>4. Joined(Joined(state, f), l) = Joined(state, Joined(f, l))
        BY <4>1, <4>2, <4>3, JoinedIsAssociative
      <4>5. QED
        BY <4>4 DEF Joined
    <3>10. IsSequence(state \o f)
      BY <1>3, <3>4, Concatenation
    <3>11. IsSequence((state \o f) \o l)
      BY <3>4, <3>10, Concatenation
    <3>12. state' = (state \o f) \o l
      BY <1>2, <2>1
    <3>13. QED
      BY <3>2, <3>4, <3>8, <3>9, <3>11, <3>12
  <2>2. CASE ~NeedsBlock(buf_len + 1)
    <3>1. buf_len + 1 <= Block - LengthBytes
      BY <1>3, <2>2 DEF NeedsBlock
    <3>2. PICK z : z = Block - LengthBytes - buf_len - 1
      OBVIOUS
    <3>3. l = WithLength(Zeroed(Marked(buf_len), buf_len + 2, Block - LengthBytes), total)
      BY <1>1, <2>2
    <3>4. /\ IsSequence(l) /\ Len(l) = Block
          /\ IsTail(l, buf, buf_len, Block - LengthBytes - buf_len - 1, total)
      BY <1>3, <3>1, <3>3, TailInOneBlock
    <3>5. IsTail(l, buf, buf_len, z, 8 * (Len(state) + buf_len))
      BY <1>4, <3>2, <3>4
    <3>6. z \in Nat /\ z < Block /\ buf_len + 1 + LengthBytes + z \in {Block, 2 * Block}
      BY <1>3, <3>1, <3>2
    <3>7. buf_len <= Len(buf)
      BY <1>3
    <3>8. state \o l = Padded(state \o SubSeq(buf, 1, buf_len))
      BY <1>3, <1>5, <3>5, <3>6, <3>7, PaddedMessage
    <3>9. state' = state \o l
      BY <1>2, <2>2
    <3>10. IsSequence(state \o l)
      BY <1>3, <3>4, Concatenation
    <3>11. QED
      BY <3>4, <3>8, <3>9, <3>10
  <2>3. QED
    BY <2>1, <2>2
<1>7. fed = state \o SubSeq(buf, 1, buf_len)
  <2>1. data = <<>> /\ pos = 0
    BY <1>2, Nothing DEF Between, TypeOK
  <2>2. Len(data) = 0 /\ pos + 1 = 1 /\ SubSeq(data, 1, 0) = <<>>
    BY <2>1, Nothing, NoBytes
  <2>3. SubSeq(data, pos + 1, Len(data)) = <<>>
    BY <2>2
  <2>4. fed = state \o SubSeq(buf, 1, buf_len) \o <<>>
    BY <1>2, <2>3 DEF NothingIsLost
  <2>5. IsSequence(SubSeq(buf, 1, buf_len))
    BY <1>3, Prefix
  <2>6. IsSequence(state \o SubSeq(buf, 1, buf_len))
    BY <1>3, <2>5, Concatenation
  <2>7. QED
    BY <2>4, <2>6, Nothing
<1>8. DigestIgnoresCuts'
  BY <1>2, <1>6, <1>7 DEF DigestIgnoresCuts, Hash
<1>9. IsSequence(digest') /\ Len(digest') = DigestSize
  BY <1>2, DigestBytes
<1>10. Sequences'
  BY <1>2, <1>6, <1>9 DEF Sequences
<1>11. TypeOK'
  BY <1>2, <1>3, <1>6, <1>9 DEF TypeOK
<1>12. NothingIsLost' /\ Whole' /\ Between'
  BY <1>2 DEF NothingIsLost, Whole, Between
<1>13. QED
  BY <1>8, <1>10, <1>11, <1>12

\* The first digest of a context: DIGEST_SIZE zeros.
LEMMA FreshContext ==
    ASSUME NEW junk, NEW b, b = [i \in 1..Block |-> junk],
           NEW d, d = [i \in 1..DigestSize |-> Plain(0)]
    PROVE  IsSequence(b) /\ Len(b) = Block /\ IsSequence(d) /\ Len(d) = DigestSize
BY Constants, Tabulated

LEMMA NothingYet ==
    ASSUME NEW b, IsSequence(b), Len(b) = Block
    PROVE  <<>> \o SubSeq(b, 1, 0) \o SubSeq(<<>>, 1, Len(<<>>)) = <<>>
<1>1. SubSeq(b, 1, 0) = <<>>
  BY Nothing, NoBytes, SequenceParts
<1>2. SubSeq(<<>>, 1, Len(<<>>)) = <<>>
  BY Nothing, WholeSlice
<1>3. QED
  BY <1>1, <1>2, Nothing

\* A context that nothing was fed to.
Fresh ==
    /\ state = <<>> /\ count = 0 /\ buf_len = 0 /\ finalized = FALSE /\ fed = <<>>
    /\ data = <<>> /\ pos = 0 /\ step = "idle"
    /\ IsSequence(buf) /\ Len(buf) = Block /\ IsSequence(digest) /\ Len(digest) = DigestSize

LEMMA EmptyContext == Fresh => ContextInv
<1> SUFFICES ASSUME Fresh PROVE ContextInv
  OBVIOUS
<1> USE DEF Fresh
<1>1. Sequences
  BY Nothing DEF Sequences
<1>2. TypeOK
  <2>1. Block \in Nat /\ Block > 0 /\ Len(data) = 0
    BY Constants, Nothing
  <2>2. buf_len \in 0..Block /\ buf_len < Block
    BY <2>1
  <2>3. pos \in 0..Len(data)
    BY <2>1
  <2>4. step \in {"idle", "top", "blocks"} /\ finalized \in BOOLEAN
    OBVIOUS
  <2>5. Len(buf) = Block /\ Len(digest) = DigestSize
    OBVIOUS
  <2>6. QED
    BY <2>2, <2>3, <2>4, <2>5, Zenon DEF TypeOK
<1>3. NothingIsLost
  <2>1. <<>> \o SubSeq(buf, 1, 0) \o SubSeq(<<>>, 1, Len(<<>>)) = <<>>
    BY NothingYet
  <2>2. pos + 1 = 1
    OBVIOUS
  <2>3. fed = state \o SubSeq(buf, 1, buf_len) \o SubSeq(data, pos + 1, Len(data))
    BY <2>1, <2>2
  <2>4. count = 8 * Len(state)
    BY Nothing
  <2>5. QED
    BY <2>3, <2>4 DEF NothingIsLost
<1>4. Whole
  <2>1. Len(state) = Block * 0
    BY Nothing, Constants
  <2>2. QED
    BY <2>1 DEF Whole
<1>5. Between /\ DigestIgnoresCuts
  BY DEF Between, DigestIgnoresCuts
<1>6. QED
  BY <1>1, <1>2, <1>3, <1>4, <1>5 DEF ContextInv

LEMMA EmptyContextNext == Fresh' => ContextInv'
BY EmptyContext, PTL

LEMMA ContextReset ==
    ASSUME ContextInv, reset
    PROVE  ContextInv'
<1>1. /\ step = "idle" /\ state' = <<>> /\ count' = 0 /\ buf_len' = 0 /\ finalized' = FALSE
      /\ fed' = <<>> /\ UNCHANGED <<buf, digest, data, pos, step>>
  BY DEF reset, call
<1>2. data = <<>> /\ pos = 0
  BY <1>1, Nothing DEF ContextInv, Between, TypeOK
<1>3. IsSequence(buf) /\ Len(buf) = Block /\ IsSequence(digest) /\ Len(digest) = DigestSize
  BY DEF ContextInv, Sequences, TypeOK
<1>4. QED
  BY <1>1, <1>2, <1>3, EmptyContextNext DEF Fresh

-----------------------------------------------------------------------------
(* compute(): what it feeds to the three contexts, one after another.      *)

HmacKey(key) == KeyBlock(IF TooLong(key) THEN Hash(key) ELSE key)

\* What the context of this stage is the hash of.
Expected(stage, key, message) ==
    IF stage = "key" THEN key
    ELSE IF stage = "inner" THEN Xored(HmacKey(key), 54) \o message
    ELSE Xored(HmacKey(key), 92) \o Hash(Xored(HmacKey(key), 54) \o message)

Ahead(todo) ==
    IF todo = <<>> THEN <<>> ELSE IF Len(todo) = 1 THEN todo[1] ELSE todo[1] \o todo[2]

ToBeFed(todo) ==
    \/ todo = <<>>
    \/ \E x : IsSequence(x) /\ todo = <<x>>
    \/ \E x, y : IsSequence(x) /\ IsSequence(y) /\ todo = <<x, y>>

Names == {"stage", "key", "message", "block", "todo", "result"}

Fields(h) == DOMAIN h = Names /\ h = [f \in Names |-> h[f]]

HmacTypes(h) ==
    /\ Fields(h) /\ IsSequence(h.key) /\ IsSequence(h.message) /\ ToBeFed(h.todo)
    /\ h.stage \in {"none", "key", "inner", "outer", "done"}
    /\ h.stage \in {"none", "done"} => h.todo = <<>>
    /\ h.stage = "key" => TooLong(h.key)
    /\ h.stage \in {"inner", "outer"} => h.block = HmacKey(h.key)

\* What was fed and what is still ahead are what the context is to hash.
HmacFed(h, f) ==
    h.stage \in {"key", "inner", "outer"} =>
        f \o Ahead(h.todo) = Expected(h.stage, h.key, h.message)

Nested(h) ==
    h.stage = "done" => h.result = Hash(Expected("outer", h.key, h.message))

\* A context of compute() is finalized only when all was fed.
AllFed == hmac.stage # "none" /\ finalized => step = "idle" /\ hmac.todo = <<>>

StreamInv ==
    ContextInv /\ IsSequence(input) /\ HmacTypes(hmac) /\ HmacFed(hmac, fed) /\ Nested(hmac)
      /\ AllFed

LEMMA Tuples ==
    /\ \A x : <<x>> # <<>> /\ Head(<<x>>) = x /\ Tail(<<x>>) = <<>> /\ Len(<<x>>) = 1
              /\ <<x>>[1] = x
    /\ \A x, y : <<x, y>> # <<>> /\ Head(<<x, y>>) = x /\ Tail(<<x, y>>) = <<y>>
                 /\ Len(<<x, y>>) = 2 /\ <<x, y>>[1] = x /\ <<x, y>>[2] = y
OBVIOUS

LEMMA OneMore ==
    ASSUME NEW todo, ToBeFed(todo), todo # <<>>, NEW f, IsSequence(f)
    PROVE  /\ IsSequence(Head(todo)) /\ ToBeFed(Tail(todo))
           /\ (f \o Head(todo)) \o Ahead(Tail(todo)) = f \o Ahead(todo)
<1>1. CASE \E x : IsSequence(x) /\ todo = <<x>>
  <2>1. PICK x : IsSequence(x) /\ todo = <<x>>
    BY <1>1
  <2>2. Head(todo) = x /\ Tail(todo) = <<>> /\ Ahead(todo) = x
    BY <2>1, Tuples DEF Ahead
  <2>3. Ahead(Tail(todo)) = <<>> /\ ToBeFed(Tail(todo))
    BY <2>2 DEF Ahead, ToBeFed
  <2>4. IsSequence(f \o x)
    BY <2>1, Concatenation
  <2>5. (f \o x) \o <<>> = f \o x
    BY <2>4, Nothing
  <2>6. QED
    BY <2>1, <2>2, <2>3, <2>5
<1>2. CASE \E x, y : IsSequence(x) /\ IsSequence(y) /\ todo = <<x, y>>
  <2>1. PICK x, y : IsSequence(x) /\ IsSequence(y) /\ todo = <<x, y>>
    BY <1>2
  <2>2. Head(todo) = x /\ Tail(todo) = <<y>> /\ Ahead(todo) = x \o y
    BY <2>1, Tuples DEF Ahead
  <2>3. Ahead(Tail(todo)) = y
    BY <2>2, Tuples DEF Ahead
  <2>4. ToBeFed(Tail(todo))
    BY <2>1, <2>2 DEF ToBeFed
  <2>5. Joined(Joined(f, x), y) = Joined(f, Joined(x, y))
    BY <2>1, JoinedIsAssociative
  <2>6. QED
    BY <2>1, <2>2, <2>3, <2>4, <2>5 DEF Joined
<1>3. QED
  BY <1>1, <1>2 DEF ToBeFed

LEMMA KeyBlocks ==
    /\ \A key : IsSequence(KeyBlock(key))
    /\ \A block, pad : IsSequence(Xored(block, pad))
    /\ \A message : IsSequence(Hash(message))
BY Constants, Tabulated, DigestBytes DEF KeyBlock, Xored, Hash

\* A new context begins; hmac goes to the next stage with two things to feed.
LEMMA TwoAhead ==
    ASSUME NEW x, IsSequence(x), NEW y, IsSequence(y)
    PROVE  ToBeFed(<<x, y>>) /\ <<>> \o Ahead(<<x, y>>) = x \o y
<1>1. Ahead(<<x, y>>) = x \o y
  BY Tuples DEF Ahead
<1>2. IsSequence(x \o y)
  BY Concatenation
<1>3. <<>> \o (x \o y) = x \o y
  BY <1>2, Nothing
<1>4. QED
  BY <1>1, <1>3 DEF ToBeFed

LEMMA InnerFields ==
    ASSUME NEW h, Fields(h), NEW b, NEW g, g = Inner(h, b)
    PROVE  /\ Fields(g) /\ g.stage = "inner" /\ g.key = h.key /\ g.message = h.message
           /\ g.block = b /\ g.todo = <<Xored(b, 54), h.message>>
BY DEF Fields, Names, Inner

LEMMA OuterFields ==
    ASSUME NEW h, Fields(h), NEW d, NEW g, g = Outer(h, d)
    PROVE  /\ Fields(g) /\ g.stage = "outer" /\ g.key = h.key /\ g.message = h.message
           /\ g.block = h.block /\ g.todo = <<Xored(h.block, 92), d>>
BY DEF Fields, Names, Outer

LEMMA InnerBegins ==
    ASSUME NEW h, Fields(h), IsSequence(h.key), IsSequence(h.message),
           NEW g, g = Inner(h, HmacKey(h.key))
    PROVE  HmacTypes(g) /\ HmacFed(g, <<>>) /\ Nested(g) /\ g.stage = "inner"
<1>1. PICK b, x : b = HmacKey(h.key) /\ x = Xored(b, 54)
  OBVIOUS
<1>2. /\ Fields(g) /\ g.stage = "inner" /\ g.key = h.key
      /\ g.message = h.message /\ g.block = b /\ g.todo = <<x, h.message>>
  BY <1>1, InnerFields
<1>3. IsSequence(x)
  BY <1>1, KeyBlocks
<1>4. ToBeFed(<<x, h.message>>) /\ <<>> \o Ahead(<<x, h.message>>) = x \o h.message
  BY <1>3, TwoAhead
<1>5. HmacTypes(g)
  BY <1>1, <1>2, <1>4 DEF HmacTypes
<1>6. HmacFed(g, <<>>)
  <2>1. Expected("inner", h.key, h.message) = x \o h.message
    BY <1>1 DEF Expected
  <2>2. QED
    BY <1>2, <1>4, <2>1 DEF HmacFed
<1>7. Nested(g)
  BY <1>2 DEF Nested
<1>8. QED
  BY <1>2, <1>5, <1>6, <1>7

LEMMA OuterBegins ==
    ASSUME NEW h, HmacTypes(h), h.stage = "inner",
           NEW d, d = Hash(Expected("inner", h.key, h.message)),
           NEW g, g = Outer(h, d)
    PROVE  HmacTypes(g) /\ HmacFed(g, <<>>) /\ Nested(g) /\ g.stage = "outer"
<1>1. PICK x : x = Xored(h.block, 92)
  OBVIOUS
<1>2. /\ Fields(g) /\ g.stage = "outer" /\ g.key = h.key
      /\ g.message = h.message /\ g.block = h.block /\ g.todo = <<x, d>>
  BY <1>1, OuterFields DEF HmacTypes
<1>3. IsSequence(x) /\ IsSequence(d)
  BY <1>1, KeyBlocks
<1>4. ToBeFed(<<x, d>>) /\ <<>> \o Ahead(<<x, d>>) = x \o d
  BY <1>3, TwoAhead
<1>5. HmacTypes(g)
  BY <1>2, <1>4 DEF HmacTypes
<1>6. HmacFed(g, <<>>)
  <2>1. h.block = HmacKey(h.key)
    BY DEF HmacTypes
  <2>2. Expected("outer", h.key, h.message) = x \o d
    BY <1>1, <2>1 DEF Expected
  <2>3. QED
    BY <1>2, <1>4, <2>2 DEF HmacFed
<1>7. Nested(g)
  BY <1>2 DEF Nested
<1>8. QED
  BY <1>2, <1>5, <1>6, <1>7

LEMMA StreamBegins == Init => StreamInv
<1> SUFFICES ASSUME Init PROVE StreamInv
  OBVIOUS
<1>1. PICK junk : buf = [i \in 1..Block |-> junk]
  BY DEF Init
<1>2. /\ state = <<>> /\ count = 0 /\ buf_len = 0 /\ finalized = FALSE /\ fed = <<>>
      /\ data = <<>> /\ pos = 0 /\ step = "idle"
      /\ digest = [i \in 1..DigestSize |-> Plain(0)]
  BY DEF Init
<1>3. ContextInv
  BY <1>1, <1>2, FreshContext, EmptyContext DEF Fresh
<1>4. AllFed
  BY <1>2 DEF AllFed
<1>5. CASE hmac = NoHmac /\ input \in Inputs
  <2>1. /\ hmac.stage = "none" /\ hmac.key = <<>> /\ hmac.message = <<>>
        /\ hmac.block = <<>> /\ hmac.todo = <<>> /\ hmac.result = <<>>
    BY <1>5 DEF NoHmac
  <2>2. Fields(hmac)
    BY <1>5 DEF Fields, Names, NoHmac
  <2>3. IsSequence(input)
    BY <1>5, StreamAssumption
  <2>4. HmacTypes(hmac)
    BY <2>1, <2>2, Nothing DEF HmacTypes, ToBeFed
  <2>5. HmacFed(hmac, fed) /\ Nested(hmac)
    BY <2>1 DEF HmacFed, Nested
  <2>6. QED
    BY <1>3, <1>4, <2>3, <2>4, <2>5 DEF StreamInv
<1>6. CASE input = <<>> /\ \E km \in KeysAndMessages : hmac = Computing(km[1], km[2])
  <2>1. PICK key, message :
          hmac = Computing(key, message) /\ IsSequence(key) /\ IsSequence(message)
    BY <1>6, StreamAssumption
  <2>2. PICK h : h = [stage |-> "key", key |-> key, message |-> message, block |-> <<>>,
                      todo |-> <<key>>, result |-> <<>>]
    OBVIOUS
  <2>3. /\ h.stage = "key" /\ h.key = key /\ h.message = message /\ h.block = <<>>
        /\ h.todo = <<key>> /\ h.result = <<>>
    BY <2>2
  <2>4. Fields(h)
    BY <2>2 DEF Fields, Names
  <2>5. hmac = IF TooLong(key) THEN h ELSE Inner(h, KeyBlock(key))
    BY <2>1, <2>2 DEF Computing
  <2>6. IsSequence(input)
    BY <1>6, Nothing
  <2>7. HmacTypes(hmac) /\ HmacFed(hmac, <<>>) /\ Nested(hmac)
    <3>1. CASE TooLong(key)
      <4>1. hmac = h
        BY <2>5, <3>1
      <4>2. ToBeFed(<<key>>) /\ Ahead(<<key>>) = key /\ <<>> \o key = key
        BY <2>1, Tuples, Nothing DEF Ahead, ToBeFed
      <4>3. HmacTypes(hmac)
        BY <2>1, <2>3, <2>4, <3>1, <4>1, <4>2 DEF HmacTypes
      <4>4. HmacFed(hmac, <<>>)
        BY <2>3, <4>1, <4>2 DEF HmacFed, Expected
      <4>5. Nested(hmac)
        BY <2>3, <4>1 DEF Nested
      <4>6. QED
        BY <4>3, <4>4, <4>5
    <3>2. CASE ~TooLong(key)
      <4>1. hmac = Inner(h, HmacKey(h.key))
        BY <2>3, <2>5, <3>2 DEF HmacKey
      <4>2. QED
        BY <2>1, <2>3, <2>4, <4>1, InnerBegins
    <3>3. QED
      BY <3>1, <3>2
  <2>8. QED
    BY <1>2, <1>3, <1>4, <2>6, <2>7 DEF StreamInv
<1>7. QED
  BY <1>5, <1>6 DEF Init

LEMMA StreamStep == StreamInv /\ [Next]_vars => StreamInv'
<1> SUFFICES ASSUME StreamInv, [Next]_vars PROVE StreamInv'
  OBVIOUS
<1> USE DEF StreamInv
<1>1. CASE UNCHANGED vars
  BY <1>1 DEF vars, context, call, AllFed, ContextInv, Sequences, TypeOK, NothingIsLost, Whole,
     Between, DigestIgnoresCuts
<1>2. CASE Feed
  <2>1. PICK n \in 0..Len(input) :
          update(SubSeq(input, 1, n)) /\ input' = SubSeq(input, n + 1, Len(input))
    BY <1>2 DEF Feed
  <2>2. hmac.stage = "none" /\ hmac' = hmac
    BY <1>2 DEF Feed
  <2>3. IsSequence(SubSeq(input, 1, n))
    BY Prefix
  <2>4. ContextInv'
    BY <2>1, <2>3, UpdateStarts
  <2>5. IsSequence(input')
    <3>1. n + 1 \in 1..Len(input) + 1 /\ Len(input) \in (n + 1 - 1)..Len(input)
      BY SequenceParts
    <3>2. IsSequence(SubSeq(input, n + 1, Len(input)))
      BY <3>1, Slice
    <3>3. QED
      BY <2>1, <3>2
  <2>6. HmacFed(hmac', fed') /\ AllFed'
    BY <2>2 DEF HmacFed, AllFed
  <2>7. QED
    BY <2>2, <2>4, <2>5, <2>6
<1>3. CASE TakeDigest
  <2>1. hmac.stage = "none" /\ UNCHANGED <<input, hmac>> /\ Finalize
    BY <1>3 DEF TakeDigest
  <2>2. ContextInv'
    BY <2>1, ContextFinalized
  <2>3. HmacFed(hmac', fed') /\ AllFed'
    BY <2>1 DEF HmacFed, AllFed
  <2>4. QED
    BY <2>1, <2>2, <2>3
<1>4. CASE StartAgain
  <2>1. hmac.stage = "none" /\ hmac' = hmac /\ input' \in Inputs /\ reset
    BY <1>4 DEF StartAgain
  <2>2. ContextInv'
    BY <2>1, ContextReset
  <2>3. IsSequence(input')
    BY <2>1, StreamAssumption
  <2>4. HmacFed(hmac', fed') /\ AllFed'
    BY <2>1 DEF HmacFed, AllFed
  <2>5. QED
    BY <2>1, <2>2, <2>3, <2>4
<1>5. CASE FinalizeAgain
  BY <1>1, <1>5 DEF FinalizeAgain
<1>6. CASE TopUp \/ NothingToTopUp \/ AbsorbBlock \/ KeepRest
  <2>1. ContextInv'
    BY <1>6, BufferIsTopped, NothingToTop, BlockIsAbsorbed, RestIsKept
  <2>2. UNCHANGED <<input, hmac, fed, finalized>> /\ step # "idle"
    BY <1>6 DEF TopUp, NothingToTopUp, AbsorbBlock, KeepRest, context
  <2>3. AllFed'
    BY <2>2 DEF AllFed
  <2>4. QED
    BY <2>1, <2>2, <2>3
<1>7. CASE NextUpdate
  <2>1. /\ hmac.todo # <<>> /\ update(Head(hmac.todo)) /\ input' = input
        /\ hmac' = [hmac EXCEPT !.todo = Tail(hmac.todo)]
    BY <1>7 DEF NextUpdate
  <2>2. hmac.stage \in {"key", "inner", "outer"} /\ ~finalized
    BY <2>1 DEF HmacTypes, AllFed
  <2>3. /\ Fields(hmac') /\ hmac'.stage = hmac.stage /\ hmac'.key = hmac.key
        /\ hmac'.message = hmac.message /\ hmac'.block = hmac.block
        /\ hmac'.todo = Tail(hmac.todo)
    BY <2>1 DEF HmacTypes, Fields, Names
  <2>4. PICK todo, x : todo = hmac.todo /\ x = Head(todo)
    OBVIOUS
  <2>5. ToBeFed(todo) /\ todo # <<>> /\ IsSequence(fed)
    BY <2>1, <2>4 DEF HmacTypes, ContextInv, Sequences
  <2>6. /\ IsSequence(x) /\ ToBeFed(Tail(todo))
        /\ (fed \o x) \o Ahead(Tail(todo)) = fed \o Ahead(todo)
    BY <2>4, <2>5, OneMore
  <2>7. ContextInv'
    BY <2>1, <2>4, <2>6, UpdateStarts
  <2>8. fed' = fed \o x /\ finalized' = finalized
    BY <2>1, <2>2, <2>4 DEF update, context
  <2>9. HmacTypes(hmac')
    BY <2>2, <2>3, <2>4, <2>6 DEF HmacTypes
  <2>10. HmacFed(hmac', fed')
    BY <2>2, <2>3, <2>4, <2>6, <2>8 DEF HmacFed
  <2>11. Nested(hmac') /\ AllFed'
    BY <2>2, <2>3, <2>8 DEF Nested, AllFed
  <2>12. QED
    BY <2>1, <2>7, <2>9, <2>10, <2>11
<1>8. CASE FinishHash
  <2>1. /\ hmac.stage \in {"key", "inner", "outer"} /\ hmac.todo = <<>> /\ Finalize
        /\ UNCHANGED <<input, hmac>>
    BY <1>8 DEF FinishHash
  <2>2. ContextInv'
    BY <2>1, ContextFinalized
  <2>3. fed' = fed /\ step = "idle" /\ step' = step
    BY <2>1 DEF Finalize, call
  <2>4. AllFed'
    BY <2>1, <2>3 DEF AllFed
  <2>5. QED
    BY <2>1, <2>2, <2>3, <2>4
<1>9. CASE NextHash
  <2>1. finalized /\ UNCHANGED <<data, pos, step, input>>
    BY <1>9 DEF NextHash, call
  <2>2. ASSUME hmac.stage \in {"key", "inner", "outer"}
        PROVE  /\ step = "idle" /\ data = <<>> /\ pos = 0
               /\ digest = Hash(Expected(hmac.stage, hmac.key, hmac.message))
    <3>1. step = "idle" /\ hmac.todo = <<>>
      BY <2>1, <2>2 DEF AllFed
    <3>2. data = <<>> /\ pos = 0
      BY <3>1, Nothing DEF ContextInv, Between, TypeOK
    <3>3. fed \o <<>> = fed /\ Ahead(hmac.todo) = <<>>
      BY <3>1, Nothing DEF ContextInv, Sequences, Ahead
    <3>4. fed = Expected(hmac.stage, hmac.key, hmac.message)
      BY <2>2, <3>3 DEF HmacFed
    <3>5. QED
      BY <2>1, <3>1, <3>2, <3>4 DEF ContextInv, DigestIgnoresCuts
  <2>3. ASSUME NewContext, hmac.stage \in {"key", "inner", "outer"}
        PROVE  ContextInv' /\ fed' = <<>> /\ AllFed'
    <3>1. PICK junk : buf' = [i \in 1..Block |-> junk]
      BY <2>3 DEF NewContext
    <3>2. /\ state' = <<>> /\ count' = 0 /\ buf_len' = 0 /\ finalized' = FALSE /\ fed' = <<>>
          /\ digest' = [i \in 1..DigestSize |-> Plain(0)]
      BY <2>3 DEF NewContext
    <3>3. IsSequence(buf') /\ Len(buf') = Block /\ IsSequence(digest') /\ Len(digest') = DigestSize
      BY <3>1, <3>2, FreshContext
    <3>4. ContextInv'
      BY <2>1, <2>2, <2>3, <3>2, <3>3, EmptyContextNext DEF Fresh
    <3>5. QED
      BY <3>2, <3>4 DEF AllFed
  <2>4. CASE hmac.stage = "key" /\ hmac' = Inner(hmac, KeyBlock(digest)) /\ NewContext
    <3>1. KeyBlock(digest) = HmacKey(hmac.key)
      BY <2>2, <2>4 DEF Expected, HmacKey, HmacTypes
    <3>2. HmacTypes(hmac') /\ HmacFed(hmac', <<>>) /\ Nested(hmac')
      BY <2>4, <3>1, InnerBegins DEF HmacTypes
    <3>3. QED
      BY <2>1, <2>3, <2>4, <3>2
  <2>5. CASE hmac.stage = "inner" /\ hmac' = Outer(hmac, digest) /\ NewContext
    <3>1. digest = Hash(Expected("inner", hmac.key, hmac.message))
      BY <2>2, <2>5
    <3>2. HmacTypes(hmac') /\ HmacFed(hmac', <<>>) /\ Nested(hmac')
      BY <2>5, <3>1, OuterBegins
    <3>3. QED
      BY <2>1, <2>3, <2>5, <3>2
  <2>6. CASE /\ hmac.stage = "outer" /\ hmac' = [hmac EXCEPT !.stage = "done", !.result = digest]
             /\ UNCHANGED <<context, fed>>
    <3>1. digest = Hash(Expected("outer", hmac.key, hmac.message))
      BY <2>2, <2>6
    <3>2. /\ Fields(hmac') /\ hmac'.stage = "done" /\ hmac'.key = hmac.key
          /\ hmac'.message = hmac.message /\ hmac'.todo = hmac.todo /\ hmac'.result = digest
      BY <2>6 DEF HmacTypes, Fields, Names
    <3>3. step = "idle" /\ hmac.todo = <<>>
      BY <2>1, <2>6 DEF AllFed
    <3>4. HmacTypes(hmac')
      BY <3>2, <3>3 DEF HmacTypes
    <3>5. HmacFed(hmac', fed') /\ Nested(hmac') /\ AllFed'
      BY <2>1, <3>1, <3>2, <3>3 DEF HmacFed, Nested, AllFed
    <3>6. ContextInv'
      BY <2>1, <2>6 DEF context, ContextInv, Sequences, TypeOK, NothingIsLost, Whole, Between,
         DigestIgnoresCuts
    <3>7. QED
      BY <2>1, <3>4, <3>5, <3>6
  <2>7. QED
    BY <1>9, <2>4, <2>5, <2>6 DEF NextHash
<1>10. QED
  BY <1>1, <1>2, <1>3, <1>4, <1>5, <1>6, <1>7, <1>8, <1>9 DEF Next

LEMMA StreamInvariant == Spec => []StreamInv
BY StreamBegins, StreamStep, PTL DEF Spec

-----------------------------------------------------------------------------
\* The buffer is never overrun, and finalize() finds room for its 0x80.
THEOREM StreamTypes == Spec => []TypeOK
<1>1. StreamInv => TypeOK
  BY DEF StreamInv, ContextInv
<1>2. QED
  BY <1>1, StreamInvariant, PTL

\* update() loses no byte and hashes none twice, wherever it is interrupted.
THEOREM StreamLosesNothing == Spec => []NothingIsLost
<1>1. StreamInv => NothingIsLost
  BY DEF StreamInv, ContextInv
<1>2. QED
  BY <1>1, StreamInvariant, PTL

\* The digest is that of the padded message, for blocks, inputs and cuts of any size.
THEOREM StreamDigestIgnoresCuts == Spec => []DigestIgnoresCuts
<1>1. StreamInv => DigestIgnoresCuts
  BY DEF StreamInv, ContextInv
<1>2. QED
  BY <1>1, StreamInvariant, PTL

\* compute() is the HMAC of RFC 2104 for keys and messages of any length.
THEOREM StreamHmacIsNested == Spec => []HmacIsNested
<1>1. StreamInv => HmacIsNested
  BY DEF StreamInv, Nested, HmacIsNested, Expected, HmacKey, TooLong
<1>2. QED
  BY <1>1, StreamInvariant, PTL
=============================================================================
