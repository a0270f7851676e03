---------------------------- MODULE ScopeMatching ----------------------------
(***************************************************************************)
(* Paths and scopes of SimpleJWTValidator (middleware.hpp): the two loops  *)
(* that normalize a path, the matching of a granted scope against a        *)
(* requested one, and escapes_root().                                      *)
(*                                                                         *)
(* A path is the sequence of its pieces, what is between one separator and *)
(* the next ('/' or '\'); a piece is the sequence of its characters.  The  *)
(* specification reads two paths, the one of a grant and the one of a      *)
(* request, piece by piece: a step is one round of the loop of             *)
(* normalize_path_segment() and one of normalize_segments() on that piece. *)
(***************************************************************************)
EXTENDS Integers, Sequences, FiniteSets, SequencesExt

CONSTANTS
    GrantPieces, RequestPieces,  \* the pieces of the paths
    Letters,                     \* the characters that may name a drive
    kMaxPathSegments,
    TooMany,                     \* kTooManySegments, for an array that is none
    MaxPieces                    \* bound: pieces of both paths together

Empty == <<>>
Dot == <<".">>
DotDot == <<".", ".">>
Star == <<"*">>
DoubleStar == <<"*", "*">>

Pieces == GrantPieces \cup RequestPieces

\* The pieces a normalized path is made of.
Kept == Pieces \ {Empty, Dot}

ASSUME ScopeAssumption ==
    /\ kMaxPathSegments \in Nat
    /\ MaxPieces \in Nat
    /\ \A piece \in Pieces : piece \in Seq(Range(piece))
    /\ TooMany \notin Seq(Kept)

VARIABLES
    granted, requested  \* [read, segments, out, deepest]: the pieces read, what
                        \* each of the two loops has made of them, and the most
                        \* segments there ever were

vars == <<granted, requested>>

Paths == [read : Seq(Pieces), segments : Seq(Kept), out : Seq(Kept) \cup {TooMany},
          deepest : Nat]

TypeOK == granted \in Paths /\ requested \in Paths

NothingRead == [read |-> <<>>, segments |-> <<>>, out |-> <<>>, deepest |-> 0]

Init == granted = NothingRead /\ requested = NothingRead

-----------------------------------------------------------------------------
\* Operators named Mutant... are variants of the definition that follows them
\* with a bug in it; they show which property notices that bug.
MutantKeepsDots(piece) == piece = Empty

IsSkipped(piece) == piece \in {Empty, Dot}

CanClimb(segments) == segments # <<>> /\ Last(segments) # DotDot

MutantPopsClimb(segments, piece) ==
    IF IsSkipped(piece) THEN segments
    ELSE IF piece = DotDot /\ segments # <<>> THEN Front(segments)
    ELSE Append(segments, piece)

\* One round of the loop of normalize_path_segment().
Normalized(segments, piece) ==
    IF IsSkipped(piece) THEN segments
    ELSE IF piece = DotDot /\ CanClimb(segments) THEN Front(segments)
    ELSE Append(segments, piece)

MutantTruncates(out, piece) ==
    IF IsSkipped(piece) THEN out
    ELSE IF piece = DotDot /\ CanClimb(out) THEN Front(out)
    ELSE IF Len(out) >= kMaxPathSegments THEN out ELSE Append(out, piece)

\* One round of the loop of normalize_segments(): the same into an array of
\* kMaxPathSegments; a path that needs more is given up.
Stored(out, piece) ==
    IF out = TooMany \/ IsSkipped(piece) THEN out
    ELSE IF piece = DotDot /\ CanClimb(out) THEN Front(out)
    ELSE IF Len(out) >= kMaxPathSegments THEN TooMany ELSE Append(out, piece)

\* Both loops take the next piece of the path.
ReadPiece(path, piece) ==
    LET segments == Normalized(path.segments, piece)
    IN  [read     |-> Append(path.read, piece),
         segments |-> segments,
         out      |-> Stored(path.out, piece),
         deepest  |-> IF Len(segments) > path.deepest THEN Len(segments) ELSE path.deepest]

MayRead == Len(granted.read) + Len(requested.read) < MaxPieces

ReadGranted(piece) ==
    /\ MayRead
    /\ granted' = ReadPiece(granted, piece)
    /\ UNCHANGED requested

ReadRequested(piece) ==
    /\ MayRead
    /\ requested' = ReadPiece(requested, piece)
    /\ UNCHANGED granted

Next ==
    \/ \E piece \in GrantPieces : ReadGranted(piece)
    \/ \E piece \in RequestPieces : ReadRequested(piece)

Spec == Init /\ [][Next]_vars

-----------------------------------------------------------------------------
\* A path that begins with a separator.
IsAbsolute(path) == Len(path.read) >= 2 /\ path.read[1] = Empty

\* A '*' in a piece stands for any part of that piece; only the first one does.
segment_matches(pattern, piece) ==
    LET star   == SelectInSeq(pattern, LAMBDA c : c = "*")
        prefix == SubSeq(pattern, 1, star - 1)
        suffix == SubSeq(pattern, star + 1, Len(pattern))
    IN  IF star = 0
        THEN pattern = piece
        ELSE /\ Len(piece) >= Len(prefix) + Len(suffix)
             /\ IsPrefix(prefix, piece)
             /\ IsSuffix(suffix, piece)

\* What comes before the first "**" of a sequence, and whether there is one.
BeforeDoubleStar(s) ==
    LET i == SelectInSeq(s, LAMBDA x : x = DoubleStar)
    IN  IF i = 0 THEN DOMAIN s ELSE 1..(i - 1)

HasDoubleStar(s) == \E i \in DOMAIN s : s[i] = DoubleStar

MutantMatchesPrefix(p, t) ==
    /\ IsAbsolute(p) = IsAbsolute(t)
    /\ \A i \in BeforeDoubleStar(p.out) :
         i <= Len(t.out) /\ (p.out[i] = Star \/ segment_matches(p.out[i], t.out[i]))

\* path_glob_matches_segs(): '*' is one segment, '**' all that remain.
path_glob_matches(p, t) ==
    /\ IsAbsolute(p) = IsAbsolute(t)
    /\ \A i \in BeforeDoubleStar(p.out) :
         i <= Len(t.out) /\ (p.out[i] = Star \/ segment_matches(p.out[i], t.out[i]))
    /\ HasDoubleStar(p.out) \/ Len(p.out) = Len(t.out)

\* A scope is the sequence of its ':'-delimited segments, each of them a path.
\* "**" grants everything from there on; "*" any one segment.
scope_matches(g, r) ==
    LET raw == [i \in DOMAIN g |-> IF Len(g[i].read) = 1 THEN g[i].read[1] ELSE Empty]
    IN  /\ \A i \in BeforeDoubleStar(raw) :
             /\ i <= Len(r)
             /\ \/ raw[i] = Star
                \/ g[i].out # TooMany /\ r[i].out # TooMany /\ path_glob_matches(g[i], r[i])
        /\ HasDoubleStar(raw) \/ Len(g) = Len(r)

MutantForgetsAbsolute(path) ==
    \/ path.segments # <<>> /\ path.segments[1] = DotDot
    \/ /\ path.segments # <<>>
       /\ Len(path.segments[1]) >= 2
       /\ path.segments[1][1] \in Letters /\ path.segments[1][2] = ":"

\* escapes_root() of the string normalize_path_segment() makes: it begins with
\* "..", with a separator or with a drive.
escapes_root(path) ==
    \/ IsAbsolute(path)
    \/ path.segments # <<>> /\ path.segments[1] = DotDot
    \/ /\ path.segments # <<>>
       /\ Len(path.segments[1]) >= 2
       /\ path.segments[1][1] \in Letters /\ path.segments[1][2] = ":"

-----------------------------------------------------------------------------
\* What a path means, without a stack.  Like brackets, a ".." cancels the last
\* name before it that is not cancelled yet.
IsName(piece) == ~IsSkipped(piece) /\ piece # DotDot

Ups(read, i, j) == Cardinality({n \in i..j : read[n] = DotDot})

Names(read, i, j) == Cardinality({n \in i..j : IsName(read[n])})

Stays(read, n) ==
    \/ /\ IsName(read[n])
       /\ \A j \in (n + 1)..Len(read) : Ups(read, n + 1, j) <= Names(read, n + 1, j)
    \/ /\ read[n] = DotDot
       /\ \A i \in 1..n : Ups(read, i, n) > Names(read, i, n)

\* The i-th of a set of numbers, from the least on.
Nth(numbers, i) ==
    CHOOSE n \in numbers : Cardinality({m \in numbers : m <= n}) = i

Resolved(read) ==
    LET kept == {n \in DOMAIN read : Stays(read, n)}
    IN  [i \in 1..Cardinality(kept) |-> read[Nth(kept, i)]]

Climbs(read) == \E j \in DOMAIN read : Ups(read, 1, j) > Names(read, 1, j)

\* The segments a path is turned into are the ones it leads through: every name
\* that no later ".." takes back and every ".." that leaves the root.
NormalizesToResolved ==
    \A path \in {granted, requested} : path.segments = Resolved(path.read)

\* normalize_segments(), which "replaces" normalize_path_segment() when scopes
\* are matched, makes the same of a path or gives it up; and it gives up only a
\* path that once had more segments than the array holds.
NormalizersAgree ==
    \A path \in {granted, requested} :
        IF path.deepest <= kMaxPathSegments THEN path.out = path.segments
                                            ELSE path.out = TooMany

\* A ".." that was not cancelled has only such ".." before it, so looking at the
\* front of a normalized path is enough to see that it climbs.
ClimbsInFront ==
    \A path \in {granted, requested} :
        \A i \in DOMAIN path.segments :
            path.segments[i] = DotDot => \A j \in 1..i : path.segments[j] = DotDot

\* escapes_root() refuses a path exactly if, followed piece by piece, it is
\* above its root at some point, or it starts at another root.
EscapesIffItLeaves ==
    escapes_root(requested) <=>
        \/ Climbs(requested.read)
        \/ Len(requested.read) >= 2 /\ requested.read[1] = Empty
        \/ LET names == Resolved(requested.read)
           IN  /\ names # <<>> /\ Len(names[1]) >= 2
               /\ names[1][1] \in Letters /\ names[1][2] = ":"

\* A scope is a path, or a verb and a path; "verb:" has no second segment.
IsBlank(path) == path.read \in {<<>>, <<Empty>>}

Word(w) == [read |-> <<w>>, segments |-> <<w>>, out |-> <<w>>, deepest |-> 1]

ScopeOf(verb, path) ==
    (IF verb = Empty THEN <<>> ELSE <<Word(verb)>>) \o (IF IsBlank(path) THEN <<>> ELSE <<path>>)

Verbs == {<<"r">>, <<"w">>}

\* The verbs with which the grant's path matches the request's.
Matching ==
    {verbs \in (Verbs \cup {Empty, Star}) \X (Verbs \cup {Empty}) :
        scope_matches(ScopeOf(verbs[1], granted), ScopeOf(verbs[2], requested))}

\* A scope of one segment does not tell a verb from a path.  Where one scope has a
\* verb and the other has none, what follows is about paths without such a name.
Comparable(verbs) ==
    \/ verbs[1] = Empty <=> verbs[2] = Empty
    \/ Verbs \cap (Range(granted.read) \cup Range(requested.read)) = {}

\* The segments of a path before the first one with a '*' in it.
LiteralPrefix(segments) ==
    {i \in DOMAIN segments : \A j \in 1..i : \A n \in DOMAIN segments[j] : segments[j][n] # "*"}

\* A request that a grant matches has the grant's verb and leads through every
\* segment the grant spells out, however ".." is used in either path.
MatchIsConfined ==
    \A verbs \in Matching : Comparable(verbs) =>
        /\ verbs[1] \in Verbs => verbs[2] = verbs[1]
        /\ \A i \in LiteralPrefix(Resolved(granted.read)) :
              /\ i \in DOMAIN Resolved(requested.read)
              /\ Resolved(requested.read)[i] = Resolved(granted.read)[i]

\* '*' never crosses a separator and no segment is dropped on the way to a
\* decision: without "**", a path that matches a path of a grant has exactly as
\* many segments, and neither ever had more than kMaxPathSegments.
StarSpansOneSegment ==
    (/\ ~IsBlank(granted) /\ granted.read # <<Star>>
     /\ ~HasDoubleStar(granted.read))
    => \A verbs \in Matching :
         (verbs[1] = Empty <=> verbs[2] = Empty) =>
             /\ Len(requested.segments) = Len(granted.segments)
             /\ granted.deepest <= kMaxPathSegments
             /\ requested.deepest <= kMaxPathSegments

\* What a wildcard stands for keeps to the place where the grant has it: a matched
\* request stays under the grant's own segments, and one '*' is one segment.
WildcardsAreConfined == MatchIsConfined /\ StarSpansOneSegment
=============================================================================
