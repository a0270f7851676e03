---------------------------- MODULE FrameParsing ----------------------------
(***************************************************************************)
(* Three parsers read the same frame line by line: one in STRICT mode, one *)
(* in TOLERANT mode, and one in TOLERANT mode whose copy has a carriage    *)
(* return at the end of every line.  analyze_and_recover() of              *)
(* fallback_recovery.hpp classifies what the TOLERANT parser returns, and  *)
(* the SchemaValidator judges it.                                          *)
(***************************************************************************)
EXTENDS SchemaValidator, FiniteSets

CONSTANT Frames             \* the frames read

VARIABLES strict, tolerant, crlf

vars == <<strict, tolerant, crlf>>

ASSUME FramesAssumption == Frames \subseteq Seq(Text)

WithReturns(frame) == [n \in DOMAIN frame |-> Append(frame[n], "cr")]

Reads(frame) ==
    /\ strict = Start("STRICT", frame)
    /\ tolerant = Start("TOLERANT", frame)
    /\ crlf = Start("TOLERANT", WithReturns(frame))

Init == \E frame \in Frames : Reads(frame)

Next ==
    /\ Step(strict, strict') \/ (Stopped(strict) /\ UNCHANGED strict)
    /\ Step(tolerant, tolerant') \/ (Stopped(tolerant) /\ UNCHANGED tolerant)
    /\ Step(crlf, crlf') \/ (Stopped(crlf) /\ UNCHANGED crlf)

Spec == Init /\ [][Next]_vars

TypeOK == ParserTypeOK(strict) /\ ParserTypeOK(tolerant) /\ ParserTypeOK(crlf)

-----------------------------------------------------------------------------
\* analyze_and_recover(): it counts the diagnostics and the statements it finds
\* something in.
Recovered(ast) ==
    {k \in DOMAIN ast.statements :
        LET s == ast.statements[k]
        IN  s.role # <<>> \/ DOMAIN s.kvpairs # {} \/ s.tool_calls # <<>>}

RecoveryAction(ast) ==
    IF ast.diagnostic = {} THEN "NO_ERROR"
    ELSE IF Recovered(ast) = {} THEN "COMPLETE_FAILURE"
    ELSE "REPARSE_SUGGESTED"

-----------------------------------------------------------------------------
\* The lines of which something was made up or thrown away: a quote or a bracket
\* was added, or the second of two values was kept.
Repaired ==
    {d.line : d \in {d \in tolerant.diagnostic : d.kind \in {"quote", "bracket", "duplicate"}}}

Entries(statements) == {statements[k] : k \in DOMAIN statements}

\* A statement is trusted exactly if the parser repaired none of its lines: a
\* repair quarantines the statement it was made in, not the one before or after.
HealedIsQuarantined ==
    /\ \A s \in Entries(tolerant.statements) : s.lines \cap Repaired = {}
    /\ \A s \in Entries(tolerant.healed_draft) : s.lines \cap Repaired # {}

LinesWith(s, Test(_)) == {n \in s.lines : Test(trim(tolerant.payload[n]))}

\* A statement begins with its role line, the only one it has, and keeps every
\* tool call of its lines; a tool call never moves to another role.
CallsStayWithTheirRole ==
    \A s \in Entries(tolerant.statements) \cup Entries(tolerant.healed_draft) :
        /\ Cardinality(LinesWith(s, IsRoleLine)) <= 1
        /\ s.role # <<>> => LinesWith(s, IsRoleLine) # {}
        /\ Len(s.tool_calls) = Cardinality(LinesWith(s, IsToolLine))

\* Line n is behind the header: one of the lines from 2 to n is neither blank nor a
\* header field on a line of its own.
BehindHeader(payload, n) ==
    \E m \in 2..n :
        LET line == trim(payload[m]) IN line # <<>> /\ ~is_header_continuation(line)

IsBodyLine(payload, n) == BehindHeader(payload, n) /\ trim(payload[n]) # <<>>

\* Each line of the body that was read is in exactly one statement, blank ones apart,
\* and no line of the header is in any: none is lost or read again where the stream is
\* sought back to the first line of the body.
NoLineIsLost ==
    LET built == Entries(tolerant.statements) \cup Entries(tolerant.healed_draft)
                   \cup {tolerant.current_stmt}
    IN  \A n \in 1..tolerant.at :
            Cardinality({s \in built : n \in s.lines})
                = IF IsBodyLine(tolerant.payload, n) THEN 1 ELSE 0

\* Whom a line is charged to: the statement that is trusted or quarantined is the
\* one that was built from it.
LinesAreAttributed == HealedIsQuarantined /\ CallsStayWithTheirRole /\ NoLineIsLost

\* At each line, the STRICT parser has thrown exactly if the TOLERANT one has
\* something for recovery to do or misses a required field that only STRICT
\* enforces; until then, and in the end if it never throws, both have read the
\* same and nothing was healed.
ModesAgree ==
    IF strict.phase = "threw"
    THEN RecoveryAction(tolerant) # "NO_ERROR" \/ MissingField(tolerant.header)
    ELSE /\ strict = [tolerant EXCEPT !.mode = "STRICT"]
         /\ RecoveryAction(tolerant) = "NO_ERROR"
         /\ tolerant.healed_draft = <<>>

\* A frame sent with CRLF is read like one sent with LF, header fields and all (if
\* the added bytes do not take it over the limit): a carriage return left in REQID
\* would give the same request another identity for replay protection.
LineEndingsDoNotMatter ==
    ~Oversized(tolerant) /\ ~Oversized(crlf) => crlf = [tolerant EXCEPT !.payload = crlf.payload]

-----------------------------------------------------------------------------
\* What the text of the frame says, without parsing it.

BodyLine(n) == trim(tolerant.payload[n])
RoleLineNumbers == {n \in 2..Len(tolerant.payload) : IsRoleLine(BodyLine(n))}
Block(n) ==
    {m \in n..Len(tolerant.payload) : \A r \in RoleLineNumbers : r \in n..m => r = n}

\* Behind the '[', up to the first ']' or, if there is none, to the first blank.
RoleOn(line) ==
    LET bracket == Find(line, "]")
        blank   == Find(line, " ")
        end     == IF bracket # 0 THEN bracket ELSE IF blank # 0 THEN blank ELSE Len(line) + 1
    IN  SubSeq(line, 2, end - 1)

\* The first thing behind the '!'.
Calls(line, tool) ==
    \E i \in 2..Len(line) : line[i] = tool /\ \A j \in 2..(i - 1) : line[j] \in White

Mentions(line, field) ==
    \E i \in 1..(Len(line) - 1) : line[i] = field /\ line[i + 1] \in {":", "="}

BlockKeepsToSchema(n, schema, inband) ==
    /\ \A k \in DOMAIN schema.required :
          \E m \in Block(n) : Mentions(BodyLine(m), schema.required[k])
    /\ \A m \in Block(n) :
          IsToolLine(BodyLine(m)) => \E tool \in schema.tools : Calls(BodyLine(m), tool)
    /\ inband /\ Pointers \cap Range(schema.required) # {} =>
          \E m \in Block(n) : HasCapability(BodyLine(m))

\* A frame the validator calls valid, healed statements included, has no tool line
\* that the role line above it may not use or that stands above all role lines, and
\* between a known role line and the next all that role requires.  And a header
\* the STRICT parser lets pass never fails validation.
ValidFramesKeepToSchema ==
    /\ \A inband \in BOOLEAN :
          tolerant.phase = "done" /\ validate(tolerant, inband).valid =>
              /\ \A n \in 2..Len(tolerant.payload) : IsToolLine(BodyLine(n)) =>
                    \E r \in RoleLineNumbers : n \in Block(r)
              /\ \A n \in RoleLineNumbers :
                    LET role == RoleOn(BodyLine(n))
                    IN  /\ role # <<>>
                        /\ role \in DOMAIN Schemas =>
                              BlockKeepsToSchema(n, Schemas[role], inband)
    /\ strict.phase = "done" => HeaderErrors(strict.header) = {}
=============================================================================
