---------------------------- MODULE Sha256Stream ----------------------------
(***************************************************************************)
(* class SHA256 and HMAC_SHA256::compute() (sha256.hpp): input is taken in *)
(* by update() in pieces of any size, kept in buf_ until a block is full,  *)
(* and padded by finalize().  A block is not hashed here but added to      *)
(* `state`, which stands for state_: the compression function is taken to  *)
(* tell any two sequences of blocks apart.                                 *)
(***************************************************************************)
EXTENDS Integers, Sequences, SequencesExt

CONSTANTS
    Block,           \* BLOCK_SIZE: 64 in the code
    LengthBytes,     \* bytes of the length in the last block: 8 in the code
    DigestSize,      \* DIGEST_SIZE: 32 in the code
    Junk,            \* what memory that nobody has written may hold
    Inputs,          \* inputs fed to a context by its user
    KeysAndMessages  \* the pairs <<key, message>> compute() is called with

IsSequence(s) == s \in Seq(Range(s))

ASSUME StreamAssumption ==
    /\ \A s \in Inputs : IsSequence(s)
    /\ \A km \in KeysAndMessages : IsSequence(km[1]) /\ IsSequence(km[2])
    /\ {Block, LengthBytes, DigestSize} \subseteq Nat \ {0}
    /\ LengthBytes < Block /\ DigestSize <= Block
    /\ Junk # {}

\* A byte: a number, or a byte of a digest; pad is what it was xored with.
Plain(n) == [pad |-> 0, n |-> n, of |-> <<>>, at |-> 0]

DigestOf(blocks) == [i \in 1..DigestSize |-> [pad |-> 0, n |-> 0, of |-> blocks, at |-> i]]

VARIABLES
    state, count, buf, buf_len, digest, finalized,  \* the members of a context
    data, pos, step, \* the update() running: its argument, how far it is, and where
    input,           \* what the user of a context still has to feed
    hmac,            \* compute(): [stage, key, message, block, todo, result]
    fed              \* history: what was fed before finalize()

context == <<state, count, buf, buf_len, digest, finalized>>
call    == <<data, pos, step>>
vars    == <<context, call, input, hmac, fed>>

\* Operators named Mutant... are variants of the definition that follows them
\* with a bug in it; they show which property notices that bug.

-----------------------------------------------------------------------------
\* update(): memcpy() to buf_ from place `from` on.
Copied(bytes, from) ==
    [i \in 1..Block |-> IF i \in (from + 1)..(from + Len(bytes)) THEN bytes[i - from] ELSE buf[i]]

update(bytes) ==
    /\ step = "idle"
    /\ data' = bytes /\ pos' = 0 /\ step' = "top"
    /\ fed' = IF finalized THEN fed ELSE fed \o bytes
    /\ UNCHANGED context

MutantForgetsFilled == Block

need == Block - buf_len

\* A partly filled buffer first...
TopUp ==
    /\ step = "top" /\ buf_len > 0
    /\ LET take == IF Len(data) < need THEN Len(data) ELSE need
           full == buf_len + take = Block
       IN  /\ buf' = Copied(SubSeq(data, 1, take), buf_len)
           /\ pos' = take
           /\ buf_len' = IF full THEN 0 ELSE buf_len + take
           /\ state' = IF full THEN state \o buf' ELSE state
           /\ count' = IF full THEN count + Block * 8 ELSE count
    /\ step' = "blocks"
    /\ UNCHANGED <<digest, finalized, data, input, hmac, fed>>

NothingToTopUp ==
    /\ step = "top" /\ buf_len = 0
    /\ step' = "blocks"
    /\ UNCHANGED <<context, data, pos, input, hmac, fed>>

\* ... then whole blocks straight from the argument...
AbsorbBlock ==
    /\ step = "blocks" /\ pos + Block <= Len(data)
    /\ state' = state \o SubSeq(data, pos + 1, pos + Block)
    /\ count' = count + Block * 8
    /\ pos' = pos + Block
    /\ UNCHANGED <<buf, buf_len, digest, finalized, data, step, input, hmac, fed>>

MutantKeepsAlways ==
    /\ step = "blocks" /\ pos + Block > Len(data)
    /\ buf' = Copied(SubSeq(data, pos + 1, Len(data)), 0)
    /\ buf_len' = Len(data) - pos
    /\ data' = <<>> /\ pos' = 0 /\ step' = "idle"
    /\ UNCHANGED <<state, count, digest, finalized, input, hmac, fed>>

\* ... and what is left is kept for the next call.
KeepRest ==
    /\ step = "blocks" /\ pos + Block > Len(data)
    /\ IF pos < Len(data)
       THEN /\ buf' = Copied(SubSeq(data, pos + 1, Len(data)), 0)
            /\ buf_len' = Len(data) - pos
       ELSE UNCHANGED <<buf, buf_len>>
    /\ data' = <<>> /\ pos' = 0 /\ step' = "idle"
    /\ UNCHANGED <<state, count, digest, finalized, input, hmac, fed>>

-----------------------------------------------------------------------------
\* finalize(): 0x80, zeros up to the length, in a block of their own if the length
\* does not fit behind, and the length in bits.
Zeroed(bytes, from, to) ==
    [i \in 1..Block |-> IF i \in from..to THEN Plain(0) ELSE bytes[i]]

\* The most significant byte first.
LengthAt(bits, i) == Plain((bits \div (256 ^ (LengthBytes - i))) % 256)

WithLength(bytes, bits) ==
    [i \in 1..Block |-> IF i > Block - LengthBytes THEN LengthAt(bits, i - (Block - LengthBytes))
                        ELSE bytes[i]]

MutantFits(length) == length > Block - LengthBytes + 1

NeedsBlock(length) == length > Block - LengthBytes

Finalize ==
    /\ step = "idle" /\ ~finalized
    /\ LET total  == count + buf_len * 8
           marked == [buf EXCEPT ![buf_len + 1] = Plain(128)]
           filled == Zeroed(marked, buf_len + 2, Block)
           last   == IF NeedsBlock(buf_len + 1)
                     THEN WithLength(Zeroed(filled, 1, Block - LengthBytes), total)
                     ELSE WithLength(Zeroed(marked, buf_len + 2, Block - LengthBytes), total)
       IN  /\ state' = (IF NeedsBlock(buf_len + 1) THEN state \o filled ELSE state) \o last
           /\ buf' = last
    /\ buf_len' = Block
    /\ digest' = DigestOf(state')
    /\ finalized' = TRUE
    /\ UNCHANGED <<count, call, fed>>

\* A second finalize() returns digest_ and changes nothing.
FinalizeAgain == step = "idle" /\ finalized /\ UNCHANGED vars

\* reset(), which leaves buf_ and digest_ as they are.
reset ==
    /\ step = "idle"
    /\ state' = <<>> /\ count' = 0 /\ buf_len' = 0 /\ finalized' = FALSE
    /\ fed' = <<>>
    /\ UNCHANGED <<buf, digest, call>>

-----------------------------------------------------------------------------
\* The user of a context feeds an input in pieces, empty ones too, takes the
\* digest of what was fed when it likes, goes on feeding or starts again.
Feed ==
    /\ hmac.stage = "none"
    /\ \E n \in 0..Len(input) :
         /\ update(SubSeq(input, 1, n))
         /\ input' = SubSeq(input, n + 1, Len(input))
    /\ UNCHANGED hmac

TakeDigest == hmac.stage = "none" /\ Finalize /\ UNCHANGED <<input, hmac>>

StartAgain == hmac.stage = "none" /\ reset /\ input' \in Inputs /\ UNCHANGED hmac

\* compute(): the digest of a key that is longer than a block takes its place; then
\* the inner hash over ipad and message, the outer one over opad and the digest of
\* the inner; each in a context of its own.
KeyBlock(key) == [i \in 1..Block |-> IF i <= Len(key) THEN key[i] ELSE Plain(0)]

Xored(block, pad) == [i \in 1..Block |-> [block[i] EXCEPT !.pad = pad]]

Inner(h, block) ==
    [h EXCEPT !.stage = "inner", !.block = block, !.todo = <<Xored(block, 54), h.message>>]

Outer(h, inner_digest) ==
    [h EXCEPT !.stage = "outer", !.todo = <<Xored(h.block, 92), inner_digest>>]

MutantHashesAtBlock(key) == Len(key) >= Block

TooLong(key) == Len(key) > Block

Computing(key, message) ==
    LET h == [stage |-> "key", key |-> key, message |-> message, block |-> <<>>,
              todo |-> <<key>>, result |-> <<>>]
    IN  IF TooLong(key) THEN h ELSE Inner(h, KeyBlock(key))

NewContext ==
    /\ state' = <<>> /\ count' = 0 /\ buf_len' = 0 /\ finalized' = FALSE
    /\ digest' = [i \in 1..DigestSize |-> Plain(0)]
    /\ \E junk \in Junk : buf' = [i \in 1..Block |-> junk]
    /\ fed' = <<>>

NextUpdate ==
    /\ hmac.todo # <<>> /\ update(Head(hmac.todo))
    /\ hmac' = [hmac EXCEPT !.todo = Tail(@)]
    /\ UNCHANGED input

FinishHash ==
    /\ hmac.stage \in {"key", "inner", "outer"} /\ hmac.todo = <<>> /\ Finalize
    /\ UNCHANGED <<input, hmac>>

NextHash ==
    /\ finalized
    /\ \/ hmac.stage = "key" /\ hmac' = Inner(hmac, KeyBlock(digest)) /\ NewContext
       \/ hmac.stage = "inner" /\ hmac' = Outer(hmac, digest) /\ NewContext
       \/ /\ hmac.stage = "outer" /\ hmac' = [hmac EXCEPT !.stage = "done", !.result = digest]
          /\ UNCHANGED <<context, fed>>
    /\ UNCHANGED <<call, input>>

NoHmac == [stage |-> "none", key |-> <<>>, message |-> <<>>, block |-> <<>>, todo |-> <<>>,
           result |-> <<>>]

Init ==
    /\ state = <<>> /\ count = 0 /\ buf_len = 0 /\ finalized = FALSE
    /\ digest = [i \in 1..DigestSize |-> Plain(0)]
    /\ \E junk \in Junk : buf = [i \in 1..Block |-> junk]
    /\ data = <<>> /\ pos = 0 /\ step = "idle"
    /\ fed = <<>>
    /\ \/ hmac = NoHmac /\ input \in Inputs
       \/ input = <<>> /\ \E km \in KeysAndMessages : hmac = Computing(km[1], km[2])

Next ==
    \/ Feed \/ TakeDigest \/ StartAgain \/ FinalizeAgain
    \/ TopUp \/ NothingToTopUp \/ AbsorbBlock \/ KeepRest
    \/ NextUpdate \/ FinishHash \/ NextHash

Spec == Init /\ [][Next]_vars

-----------------------------------------------------------------------------
\* The buffer is never overrun, and finalize() finds room for its 0x80.
TypeOK ==
    /\ buf_len \in 0..Block
    /\ ~finalized /\ step # "top" => buf_len < Block
    /\ pos \in 0..Len(data)
    /\ step \in {"idle", "top", "blocks"}
    /\ finalized \in BOOLEAN
    /\ Len(buf) = Block /\ Len(digest) = DigestSize

\* Between two steps of update() every byte that was fed is hashed, in the buffer, or
\* still ahead in the argument, once and in its place; and count_ counts the hashed.
NothingIsLost ==
    ~finalized =>
        /\ fed = state \o SubSeq(buf, 1, buf_len) \o SubSeq(data, pos + 1, Len(data))
        /\ count = 8 * Len(state)
        /\ step = "blocks" /\ buf_len > 0 => pos = Len(data)

\* FIPS 180-4: a one bit, the least number of zeros that makes whole blocks of it
\* together with the length, and the length.
Mark == <<Plain(128)>>

ZeroBytes(n) == [i \in 1..n |-> Plain(0)]

LengthField(bits) == [i \in 1..LengthBytes |-> LengthAt(bits, i)]

Padded(message) ==
    LET short == Len(message) + 1 + LengthBytes
    IN  message \o Mark \o ZeroBytes((Block - (short % Block)) % Block)
          \o LengthField(8 * Len(message))

Hash(message) == DigestOf(Padded(message))

\* The digest is that of the bytes fed before finalize(), however they were cut into
\* calls of update(), and stays so whatever is called afterwards, up to reset().
DigestIgnoresCuts == finalized => digest = Hash(fed)

\* RFC 2104: compute() is H(key ^ opad, H(key ^ ipad, message)), a key that is longer
\* than a block replaced by its digest.
HmacIsNested ==
    hmac.stage = "done" =>
        LET key   == KeyBlock(IF Len(hmac.key) > Block THEN Hash(hmac.key) ELSE hmac.key)
            inner == Hash(Xored(key, 54) \o hmac.message)
        IN  hmac.result = Hash(Xored(key, 92) \o inner)
=============================================================================
