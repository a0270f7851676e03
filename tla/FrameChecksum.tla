--------------------------- MODULE FrameChecksum ---------------------------
(***************************************************************************)
(* The CHK field: stamp_chk() and compute_chk() of chk.hpp, the canonical  *)
(* form they share (parser_v2.hpp) and the comparison evaluate() makes     *)
(* (middleware.hpp).  A frame is stamped, delivered, perhaps not as it was *)
(* sent, and parsed and compared where it arrives.                         *)
(*                                                                         *)
(* The word "digest" stands for the SHA-256 of `hashed`, the canonical     *)
(* form of the frame that is sent; no two forms share a digest.            *)
(***************************************************************************)
EXTENDS FrameParsing

CONSTANT Deliveries(_)      \* what may arrive when a frame was sent

VARIABLES
    hashed,    \* the form whose digest was written into the frame
    received   \* a parser in TOLERANT mode, where the frame arrives

Marker == <<"CHK", ":", "sha256", ":">>

ASSUME ChecksumAssumption ==
    /\ {"sha256", "digest"} \subseteq Words
    /\ \A frame \in Frames : \A n \in DOMAIN frame : "digest" \notin Range(frame[n])

\* Operators named Mutant... are variants of the definition that follows them
\* with a bug in it; they show which property notices that bug.

-----------------------------------------------------------------------------
\* Where the marker begins, or 0; a line after the first is never looked at.
MarkerIn(line) ==
    LET places == {i \in 1..(Len(line) - Len(Marker) + 1) :
                      SubSeq(line, i, i + Len(Marker) - 1) = Marker}
    IN  IF places = {} THEN 0 ELSE Min(places)

HasMarker(frame) == frame # <<>> /\ MarkerIn(Head(frame)) # 0

\* The value ends in front of a blank or a carriage return, or with the line.
WithValue(line, value) ==
    LET start == MarkerIn(line) + Len(Marker)
        ends  == {i \in DOMAIN line : i >= start /\ line[i] \in {" ", "cr"}}
        end   == IF ends = {} THEN Len(line) + 1 ELSE Min(ends)
    IN  SubSeq(line, 1, start - 1) \o value \o SubSeq(line, end, Len(line))

WithChk(frame, value) ==
    IF HasMarker(frame) THEN <<WithValue(Head(frame), value)>> \o Tail(frame) ELSE frame

MutantKeepsValue(frame) == frame

MutantBlanksLine(frame) ==
    IF HasMarker(frame)
    THEN <<SubSeq(Head(frame), 1, MarkerIn(Head(frame)) + Len(Marker) - 1)>> \o Tail(frame)
    ELSE frame

\* Everything but CHK's own value.
canonical_for_chk(frame) == WithChk(frame, <<>>)

\* What stamp_chk() hashes, and the frame it returns.
HashedBy(frame) == canonical_for_chk(WithChk(frame, <<>>))

stamp_chk(frame) == WithChk(frame, <<"digest">>)

compute_chk(frame) ==
    <<"sha256", ":">> \o IF canonical_for_chk(frame) = hashed THEN <<"digest">> ELSE <<"other">>

\* The check of evaluate(), of the frame a parser was given and the header it read.
Verified(p) == p.header["CHK"] = compute_chk(p.payload)

\* Whoever alters a frame under way does not compute a checksum for what he makes of it:
\* "other" stands for the digest of another form, and CHK is no signature.
ASSUME DeliveriesAssumption ==
    \A frame \in Frames : \A delivered \in Deliveries(stamp_chk(frame)) :
        /\ delivered \in Seq(Text)
        /\ \A n \in DOMAIN delivered : "other" \notin Range(delivered[n])

-----------------------------------------------------------------------------
StampedInit ==
    \E frame \in Frames :
        /\ Reads(stamp_chk(frame))
        /\ hashed = HashedBy(frame)
        /\ \E delivered \in Deliveries(stamp_chk(frame)) : received = Start("TOLERANT", delivered)

StampedNext ==
    /\ Next
    /\ Step(received, received') \/ (Stopped(received) /\ UNCHANGED received)
    /\ UNCHANGED hashed

StampedSpec == StampedInit /\ [][StampedNext]_<<vars, hashed, received>>

-----------------------------------------------------------------------------
HeaderRead(p) == p.phase \in {"body", "done"} /\ ~Oversized(p) /\ p.payload # <<>>

\* The marker begins a token of line 1, in which no quote and no return stands, and
\* CHK is named nowhere else.
IsPlainChk(frame) ==
    /\ HasMarker(frame)
    /\ MarkerIn(trim(Head(frame))) \in {1} \cup
         {i + 1 : i \in {i \in DOMAIN trim(Head(frame)) : trim(Head(frame))[i] = " "}}
    /\ Quote \notin Range(Head(frame)) /\ "cr" \notin Range(trim(Head(frame)))
    /\ \A n \in DOMAIN frame : \A i \in DOMAIN frame[n] :
         frame[n][i] = "CHK" => n = 1 /\ i = MarkerIn(Head(frame))

\* Whoever stamps a frame and whoever compares it agree on what is hashed: a frame
\* with one CHK:sha256: field, on its first line, verifies once it is stamped; a
\* frame that stamp_chk() returns unchanged never does, CHK on a later line included.
StampedFramesVerify ==
    /\ HeaderRead(tolerant) /\ IsPlainChk(tolerant.payload) => Verified(tolerant)
    /\ ~HasMarker(tolerant.payload) => ~Verified(tolerant)

\* A frame that verifies where it arrives is read there like the one that was sent,
\* header, statements and diagnostics: what was lost, doubled, exchanged or changed
\* under way does not pass, whatever fields, quotes or markers the header holds.
AlterationsAreNoticed ==
    Verified(received) => received = [tolerant EXCEPT !.payload = received.payload]
=============================================================================
