--------------------------- MODULE MCFrameParsing ---------------------------
(***************************************************************************)
(* An instance of FrameChecksum for TLC: all frames of a header and a few  *)
(* lines, each line one of those that take a path of their own through the *)
(* parser; and the accidents a short frame may meet under way.             *)
(***************************************************************************)
EXTENDS FrameChecksum

CONSTANT MaxBody, MaxOddBody, MaxAltered

S == " "
Q == "\""
B == "\\"

RoleLines ==
    { <<"[", "EXEC", "]">>,
      <<"[", "EXEC">>,                                         \* no bracket
      <<"[", "EXEC", S, "tgt", ":", "a">>,                     \* no bracket, a pair
      <<"[", "]">>,
      <<"[", S, "b", "]">>,
      <<"[", "EXEC", "]", S, "tgt", ":", Q, "a">>,             \* no closing quote
      <<"[", "EXEC", "]", S, "tgt", ":", "a", S, "tgt", "=", "b">>,
      <<S, "[", "EXEC", "]", "tab">>,
      <<"[", "READ", "]", S, "tgt", ":", "a", ";", "cap", "=", "a">> }

PairLines ==
    { <<"tgt", ":", "a">>,
      <<"tgt", "=", Q, "a", B, "n", S, ":", Q>>,
      <<"tgt">>,                                               \* no separator
      <<Q, "tgt">>,                                            \* no separator, open quote
      <<"act", ":", Q, "a">>,
      <<"act", ":", B, Q, "a", S, "tgt", ":", "b">>,
      <<"REQID", ":", "b">> }                                  \* or a header line

ToolLines ==
    { <<"!", "run">>,
      <<"!", S, "run", S, ">", "a">>,
      <<"!", "run", "[", "a", "=", "b", ";", "a", "=", "1", "]">>,
      <<"!", "run", "[", "a", "=", Q, "]", Q, "]", ">", S, "b">>,
      <<"!", "run", "[", "a", "=", "b">>,                      \* no bracket
      <<"!", "run", "[", "a", "]">>,                           \* an argument without '='
      <<"!", "run", "[", Q, "a", "]">> }                       \* a quote hides the bracket

Plain ==
    { <<>>, <<"[", "EXEC", "]">>, <<"[", "b", "]", S, "tgt", ":", Q, "a">>,
      <<"tgt", ":", "a">>, <<"act", ":", "a">>, <<Q, "tgt">>, <<"!", "run">>, <<"!", "a">> }

Lines == RoleLines \cup PairLines \cup ToolLines \cup Plain

Ids  == <<"AGT", ":", "a", S, "REQID", ":", "a">>
Chk  == <<"CHK", ":", "sha256", ":", "a">>
Full == <<"VER", ":", "1", S>> \o Chk \o <<S>> \o Ids

Headers ==
    { <<Full>>,
      <<SubSeq(Full, 1, 13), <<S>>, <<"REQID", ":", "a", "tab">>>>,
      <<SubSeq(Full, 1, 13)>>,                                 \* no REQID
      <<Full \o <<S, "HR", ":", "a">>>>,                       \* no number
      <<Full \o <<S, "tgt", S, "HR", ":", "1">>>> }            \* no header field

\* The marker at the end, on a line of its own, twice, in another field, in quotes,
\* a return behind the value, and none.
ChkHeaders ==
    { <<<<"VER", ":", "1", S>> \o Ids \o <<S>> \o SubSeq(Chk, 1, 4)>>,
      <<<<"VER", ":", "1", S>> \o Ids, Chk>>,
      <<Chk \o <<S>> \o Full>>,
      <<Full \o <<S>> \o Chk>>,
      <<<<"UID", ":">> \o Full>>,
      <<<<"UID", ":">> \o Chk \o <<S>> \o Full>>,
      <<<<"VER", ":", Q>> \o Chk \o <<Q, S>> \o Ids>>,
      <<<<"VER", ":", "1", S>> \o Chk \o <<"cr", S>> \o Ids>>,
      <<<<"VER", ":", "1", S, "CHK", ":", "a", S>> \o Ids>>,
      <<Full, Chk>> }

Bodies(lines, n) == UNION {[1..m -> lines] : m \in 0..n}

ShortFrames ==
    {header \o body : header \in Headers \cup ChkHeaders, body \in Bodies(Plain, 1)}

MCFrames ==
    { <<>>, <<Full, Full, Full, Full>> }
      \cup {header \o body : header \in Headers, body \in Bodies(Lines, MaxOddBody)}
      \cup {<<Full>> \o body : body \in Bodies(Plain, MaxBody)}
      \cup ShortFrames \cup {WithReturns(frame) : frame \in ShortFrames}

-----------------------------------------------------------------------------
\* A line lost, one sent twice, two exchanged, the end cut off, a word changed, white
\* space behind the first line or every line.
Lost(frame)      == {RemoveAt(frame, n) : n \in DOMAIN frame}
Twice(frame)     == {InsertAt(frame, n, frame[n]) : n \in DOMAIN frame}
Exchanged(frame) == {[frame EXCEPT ![n] = frame[n + 1], ![n + 1] = frame[n]] :
                        n \in 1..(Len(frame) - 1)}
CutOff(frame)    == {[frame EXCEPT ![Len(frame)] = SubSeq(@, 1, i)] :
                        i \in 0..(Len(Last(frame)) - 1)}
Changed(frame)   ==
    UNION {{[frame EXCEPT ![n][i] = "b"] : i \in {i \in DOMAIN frame[n] : frame[n][i] \in Words}} :
              n \in DOMAIN frame}
Padded(frame)    == {[frame EXCEPT ![1] = Append(@, a)] : a \in White} \cup {WithReturns(frame)}

MCDeliveries(frame) ==
    {frame} \cup IF frame # <<>> /\ Len(frame) <= MaxAltered
                THEN Lost(frame) \cup Twice(frame) \cup Exchanged(frame) \cup CutOff(frame)
                       \cup Changed(frame) \cup Padded(frame)
                ELSE {}
=============================================================================
