------------------------- MODULE FrameParsingProofs -------------------------
(***************************************************************************)
(* Proofs about FrameParsing, for any words, frames and size limit: the    *)
(* two modes agree, and so do the two line endings; lines are attributed   *)
(* to the statements they belong to; a parser's record keeps its type; a   *)
(* stamped frame verifies, and an altered one does not, or is read as it   *)
(* was sent (FrameChecksum).                                               *)
(***************************************************************************)
EXTENDS FrameChecksum, FiniteSetTheorems, Extremes

Fields == {"mode", "payload", "at", "mark", "phase", "header_line", "header", "current_stmt",
           "has_role", "current_stmt_healed", "statements", "healed_draft",
           "recovery_attempted", "diagnostic"}

IsParser(p) == p = [f \in Fields |-> p[f]]

\* A STRICT parser p and a TOLERANT one t that have read the same lines.
SameButMode(p, t) ==
    /\ p = [t EXCEPT !.mode = "STRICT"]
    /\ t.diagnostic = {} /\ t.healed_draft = <<>> /\ t.current_stmt_healed = FALSE

ModesRelated(p, t) ==
    /\ IsParser(t) /\ t.mode = "TOLERANT"
    /\ IF p.phase = "threw"
       THEN \/ t.diagnostic # {}
            \/ t.phase \in {"body", "done"} /\ MissingField(t.header)
       ELSE SameButMode(p, t)

-----------------------------------------------------------------------------
\* The guards: at most one action is enabled.

LEMMA Guards ==
  ASSUME NEW p, NEW q
  PROVE  /\ Refuse(p, q) => p.phase = "start" /\ (Oversized(p) \/ p.payload = <<>>)
         /\ ReadHeaderLine(p, q) => p.phase = "start" /\ ~Oversized(p) /\ p.payload # <<>>
         /\ FoldLine(p, q) => p.phase = "header" /\ BelongsToHeader(p)
         /\ ParseHeader(p, q) => p.phase = "header" /\ ~BelongsToHeader(p)
         /\ SkipBlank(p, q) => p.phase = "body" /\ MoreLines(p) /\ Probe(p) = <<>>
         /\ ReadRole(p, q) => p.phase = "body" /\ MoreLines(p) /\ IsRoleLine(Probe(p))
         /\ ReadTool(p, q) => p.phase = "body" /\ MoreLines(p) /\ IsToolLine(Probe(p))
         /\ ReadPairs(p, q) => /\ p.phase = "body" /\ MoreLines(p) /\ Probe(p) # <<>>
                               /\ ~IsRoleLine(Probe(p)) /\ ~IsToolLine(Probe(p))
         /\ Finish(p, q) => p.phase = "body" /\ ~MoreLines(p)
  BY Zenon DEF Refuse, ReadHeaderLine, FoldLine, ParseHeader, SkipBlank, ReadRole, ReadTool,
               ReadPairs, Finish

LEMMA SameView ==
  ASSUME NEW p, NEW t, IsParser(t), SameButMode(p, t)
  PROVE  /\ \A f \in Fields \ {"mode"} : p[f] = t[f]
         /\ p.mode = "STRICT"
         /\ Probe(p) = Probe(t) /\ MoreLines(p) = MoreLines(t)
         /\ BelongsToHeader(p) = BelongsToHeader(t)
         /\ Oversized(p) = Oversized(t)
<1>1. \A f \in Fields \ {"mode"} : p[f] = t[f]
  BY DEF IsParser, SameButMode
<1>2. p.mode = "STRICT"
  BY DEF IsParser, SameButMode, Fields
<1>3. p.payload = t.payload /\ p.at = t.at
  BY <1>1 DEF Fields
<1>4. QED
  BY <1>1, <1>2, <1>3, Zenon DEF Probe, MoreLines, BelongsToHeader, Oversized

\* What Reporting() does with the same r and errors in both modes.
LEMMA ReportingRelated ==
  ASSUME NEW p, NEW t, IsParser(t), t.mode = "TOLERANT", SameButMode(p, t),
         NEW r, NEW u, NEW errors, IsParser(u), u.mode = "TOLERANT",
         errors = {} => SameButMode(r, u),
         u.diagnostic = {},
         u.phase # "threw"
  PROVE  ModesRelated(Reporting(p, r, errors), Reporting(t, u, errors))
<1>1. p.mode = "STRICT" /\ p = [f \in Fields |-> p[f]]
  BY SameView DEF SameButMode, IsParser
<1> DEFINE noted == {[line |-> u.at, kind |-> e] : e \in errors}
           t2 == [u EXCEPT !.diagnostic = @ \cup noted]
<1>2. Reporting(t, u, errors) = t2
  BY DEF Reporting
<1>3. IsParser(t2) /\ t2.mode = "TOLERANT" /\ t2.diagnostic = noted
  BY DEF IsParser, Fields
<1>4. CASE errors # {}
  <2>1. Reporting(p, r, errors).phase = "threw"
    BY <1>1, <1>4 DEF Reporting, Fields
  <2>2. noted # {}
    BY <1>4
  <2>3. QED
    BY <1>2, <1>3, <2>1, <2>2 DEF ModesRelated
<1>5. CASE errors = {}
  <2>1. noted = {} /\ {[line |-> r.at, kind |-> e] : e \in errors} = {}
    BY <1>5
  <2>2. t2 = u
    BY <2>1 DEF IsParser
  <2>3. SameButMode(r, u)
    BY <1>5
  <2>4. r.diagnostic = {} /\ r = [f \in Fields |-> r[f]]
    BY <2>3 DEF SameButMode, IsParser, Fields
  <2>5. Reporting(p, r, errors) = r
    BY <1>5, <2>1, <2>4 DEF Reporting
  <2>6. r.phase # "threw"
    BY <2>3 DEF SameButMode, IsParser, Fields
  <2>7. QED
    BY <1>2, <2>2, <2>3, <2>5, <2>6 DEF ModesRelated
<1>6. QED
  BY <1>4, <1>5

\* Errors, the same or not, make STRICT throw and TOLERANT take note.
LEMMA ReportingThrows ==
  ASSUME NEW p, NEW t, IsParser(t), t.mode = "TOLERANT", SameButMode(p, t),
         NEW r, NEW u, NEW d, NEW e, IsParser(u), u.mode = "TOLERANT", d # {}, e # {}
  PROVE  ModesRelated(Reporting(p, r, d), Reporting(t, u, e))
<1>1. p.mode = "STRICT" /\ p = [f \in Fields |-> p[f]]
  BY SameView DEF SameButMode, IsParser
<1>2. Reporting(p, r, d).phase = "threw"
  BY <1>1 DEF Reporting, Fields
<1> DEFINE noted == {[line |-> u.at, kind |-> k] : k \in e}
<1>3. Reporting(t, u, e) = [u EXCEPT !.diagnostic = @ \cup noted]
  BY DEF Reporting
<1>4. noted # {}
  OBVIOUS
<1> HIDE DEF noted
<1>5. QED
  BY <1>2, <1>3, <1>4 DEF ModesRelated, IsParser, Fields

\* Both charge the line they read to the current statement.
LEMMA ChargedRelated ==
  ASSUME NEW r, NEW u, IsParser(u), SameButMode(r, u), NEW errors, errors = {}
  PROVE  SameButMode(Charged(r, errors), Charged(u, errors))
<1>1. ~Heals(errors)
  BY DEF Heals
<1>2. r = [f \in Fields |-> r[f]] /\ \A f \in Fields \ {"mode"} : r[f] = u[f]
  BY DEF SameButMode, IsParser
<1>3. r.at = u.at /\ r.current_stmt = u.current_stmt /\ r.current_stmt_healed = FALSE
      /\ u.current_stmt_healed = FALSE
  BY <1>2 DEF Fields, SameButMode
<1> DEFINE stmt == [u.current_stmt EXCEPT !.lines = @ \cup {u.at + 1}]
           flag == u.current_stmt_healed \/ Heals(errors)
           at   == u.at + 1
<1>4. Charged(r, errors) = [r EXCEPT !.at = at, !.current_stmt = stmt, !.current_stmt_healed = flag]
  BY <1>3, Zenon DEF Charged
<1>5. Charged(u, errors) = [u EXCEPT !.at = at, !.current_stmt = stmt, !.current_stmt_healed = flag]
  BY Zenon DEF Charged
<1>6. flag = FALSE
  BY <1>1, <1>3
<1> HIDE DEF stmt, flag, at
<1>7. QED
  BY <1>4, <1>5, <1>6 DEF SameButMode, IsParser, Fields

LEMMA ChargedIsParser ==
  ASSUME NEW u, IsParser(u), NEW errors
  PROVE  /\ IsParser(Charged(u, errors))
         /\ Charged(u, errors).mode = u.mode
         /\ Charged(u, errors).diagnostic = u.diagnostic
         /\ Charged(u, errors).phase = u.phase
  BY DEF Charged, IsParser, Fields

LEMMA FlushedRelated ==
  ASSUME NEW p, NEW t, IsParser(t), t.mode = "TOLERANT", SameButMode(p, t)
  PROVE  /\ SameButMode(Flushed(p), Flushed(t)) /\ SameButMode(Pushed(p), Pushed(t))
         /\ IsParser(Flushed(t)) /\ IsParser(Pushed(t))
         /\ Flushed(t).mode = "TOLERANT" /\ Pushed(t).mode = "TOLERANT"
         /\ Flushed(t).phase = t.phase /\ Pushed(t).phase = t.phase
         /\ HasStatement(p) = HasStatement(t)
<1>1. \A f \in Fields \ {"mode"} : p[f] = t[f]
  BY SameView
<1>2. /\ p.has_role = t.has_role /\ p.current_stmt = t.current_stmt
      /\ p.statements = t.statements
      /\ p.current_stmt_healed = FALSE /\ t.current_stmt_healed = FALSE
  BY <1>1 DEF Fields, SameButMode
<1>3. HasStatement(p) = HasStatement(t)
  BY <1>2, Zenon DEF HasStatement
<1> DEFINE longer == Append(t.statements, t.current_stmt)
<1>4. Pushed(p) = [p EXCEPT !.statements = longer] /\ Pushed(t) = [t EXCEPT !.statements = longer]
  BY <1>2 DEF Pushed
<1> HIDE DEF longer
<1>5. SameButMode(Pushed(p), Pushed(t)) /\ IsParser(Pushed(t)) /\ Pushed(t).mode = "TOLERANT"
      /\ Pushed(t).phase = t.phase
  BY <1>4 DEF SameButMode, IsParser, Fields
<1> DEFINE fresh == EmptyStatement
<1> HIDE DEF fresh
<1>6. CASE HasStatement(t)
  <2>1. /\ Flushed(p) = [Pushed(p) EXCEPT !.current_stmt = fresh, !.current_stmt_healed = FALSE]
        /\ Flushed(t) = [Pushed(t) EXCEPT !.current_stmt = fresh, !.current_stmt_healed = FALSE]
    BY <1>3, <1>6, Zenon DEF Flushed, fresh
  <2> DEFINE a == Pushed(p)
             b == Pushed(t)
             c == Flushed(p)
             d == Flushed(t)
  <2>2. /\ c = [a EXCEPT !.current_stmt = fresh, !.current_stmt_healed = FALSE]
        /\ d = [b EXCEPT !.current_stmt = fresh, !.current_stmt_healed = FALSE]
        /\ SameButMode(a, b) /\ IsParser(b) /\ b.mode = "TOLERANT" /\ b.phase = t.phase
    BY <1>5, <2>1
  <2> HIDE DEF a, b, c, d
  <2>3. SameButMode(c, d) /\ IsParser(d) /\ d.mode = "TOLERANT" /\ d.phase = t.phase
    <3>1. /\ IsParser(d) /\ d.mode = "TOLERANT" /\ d.diagnostic = {} /\ d.healed_draft = <<>>
          /\ d.current_stmt_healed = FALSE /\ d.phase = t.phase
      BY <2>2 DEF SameButMode, IsParser, Fields
    <3>2. c = [d EXCEPT !.mode = "STRICT"]
      BY <2>2 DEF SameButMode, IsParser, Fields
    <3>3. QED
      BY <3>1, <3>2 DEF SameButMode
  <2>4. QED
    BY <1>3, <1>5, <2>3 DEF c, d
<1>7. CASE ~HasStatement(t)
  BY <1>3, <1>5, <1>7 DEF Flushed
<1>8. QED
  BY <1>6, <1>7

-----------------------------------------------------------------------------
\* One lemma for each action that both parsers take.

LEMMA RefuseRelated ==
  ASSUME NEW p, NEW t, IsParser(t), t.mode = "TOLERANT", SameButMode(p, t),
         NEW p2, NEW t2, Refuse(p, p2), Refuse(t, t2)
  PROVE  ModesRelated(p2, t2)
<1> DEFINE r == [p EXCEPT !.phase = "done"]
           u == [t EXCEPT !.phase = "done"]
<1>1. IsParser(u) /\ u.mode = "TOLERANT"
  BY DEF IsParser, Fields
<1>2. PICK d : d # {} /\ p2 = Reporting(p, r, d)
  BY Zenon DEF Refuse
<1>3. PICK e : e # {} /\ t2 = Reporting(t, u, e)
  BY Zenon DEF Refuse
<1> HIDE DEF r, u
<1>4. ModesRelated(Reporting(p, r, d), Reporting(t, u, e))
  BY <1>1, <1>2, <1>3, ReportingThrows
<1>5. QED
  BY <1>2, <1>3, <1>4, Zenon

LEMMA HeaderRelated ==
  ASSUME NEW p, NEW t, IsParser(t), t.mode = "TOLERANT", SameButMode(p, t),
         NEW p2, NEW t2, p.phase # "threw",
         \/ ReadHeaderLine(p, p2) /\ ReadHeaderLine(t, t2)
         \/ FoldLine(p, p2) /\ FoldLine(t, t2)
         \/ SkipBlank(p, p2) /\ SkipBlank(t, t2)
  PROVE  ModesRelated(p2, t2)
<1>1. /\ Probe(p) = Probe(t) /\ p.at = t.at /\ p.header_line = t.header_line
      /\ p.phase = t.phase
  BY SameView DEF Fields
<1> DEFINE probe == Probe(t)
           folded == IF probe = <<>> THEN t.header_line ELSE t.header_line \o <<" ">> \o probe
           at == t.at + 1
<1>2. CASE ReadHeaderLine(p, p2) /\ ReadHeaderLine(t, t2)
  <2>1. /\ p2 = [p EXCEPT !.phase = "header", !.at = 1, !.mark = 1, !.header_line = probe]
        /\ t2 = [t EXCEPT !.phase = "header", !.at = 1, !.mark = 1, !.header_line = probe]
    BY <1>1, <1>2, Zenon DEF ReadHeaderLine
  <2> HIDE DEF probe
  <2>2. IsParser(t2) /\ SameButMode(p2, t2) /\ t2.mode = "TOLERANT" /\ p2.phase = "header"
    BY <2>1 DEF IsParser, SameButMode, Fields
  <2>3. QED
    BY <2>2 DEF ModesRelated
<1>3. CASE FoldLine(p, p2) /\ FoldLine(t, t2)
  <2>1. /\ p2 = [p EXCEPT !.at = at, !.mark = at, !.header_line = folded]
        /\ t2 = [t EXCEPT !.at = at, !.mark = at, !.header_line = folded]
    BY <1>1, <1>3, Zenon DEF FoldLine
  <2> HIDE DEF folded, at
  <2>2. /\ IsParser(t2) /\ SameButMode(p2, t2) /\ t2.mode = "TOLERANT"
        /\ p2.phase = t.phase
    BY <1>1, <2>1 DEF IsParser, SameButMode, Fields
  <2>3. QED
    BY <1>1, <2>2 DEF ModesRelated
<1>4. CASE SkipBlank(p, p2) /\ SkipBlank(t, t2)
  <2>1. p2 = [p EXCEPT !.at = at] /\ t2 = [t EXCEPT !.at = at]
    BY <1>1, <1>4, Zenon DEF SkipBlank
  <2> HIDE DEF at
  <2>2. /\ IsParser(t2) /\ SameButMode(p2, t2) /\ t2.mode = "TOLERANT"
        /\ p2.phase = t.phase
    BY <1>1, <2>1 DEF IsParser, SameButMode, Fields
  <2>3. QED
    BY <1>1, <2>2 DEF ModesRelated
<1>5. QED
  BY <1>2, <1>3, <1>4

LEMMA ParseHeaderRelated ==
  ASSUME NEW p, NEW t, IsParser(t), t.mode = "TOLERANT", SameButMode(p, t),
         NEW p2, NEW t2, ParseHeader(p, p2), ParseHeader(t, t2)
  PROVE  ModesRelated(p2, t2)
<1>1. p.mode = "STRICT" /\ p.header_line = t.header_line /\ p.mark = t.mark
  BY SameView DEF Fields
<1> DEFINE header == parseHeader(t.header_line)
           r == [p EXCEPT !.phase = "body", !.at = t.mark, !.header = header.fields]
           u == [t EXCEPT !.phase = "body", !.at = t.mark, !.header = header.fields]
<1>2. /\ p2 = Reporting(p, r, header.errors \cup ErrorIf(MissingField(header.fields), "missing"))
      /\ t2 = Reporting(t, u, header.errors \cup ErrorIf(FALSE, "missing"))
  <2>1. p2 = Reporting(p, r, header.errors \cup
                               ErrorIf(p.mode = "STRICT" /\ MissingField(header.fields), "missing"))
    BY <1>1, Zenon DEF ParseHeader
  <2>2. t2 = Reporting(t, u, header.errors \cup
                               ErrorIf(t.mode = "STRICT" /\ MissingField(header.fields), "missing"))
    BY Zenon DEF ParseHeader
  <2>3. t.mode # "STRICT"
    OBVIOUS
  <2>4. (p.mode = "STRICT" /\ MissingField(header.fields)) = MissingField(header.fields)
    BY <1>1 DEF MissingField
  <2>5. (t.mode = "STRICT" /\ MissingField(header.fields)) = FALSE
    BY <2>3
  <2>6. QED
    BY <2>1, <2>2, <2>4, <2>5, Zenon
<1> HIDE DEF header
<1>3. /\ IsParser(u) /\ u.mode = "TOLERANT" /\ u.diagnostic = {} /\ SameButMode(r, u)
      /\ r.phase = "body" /\ u.header = header.fields /\ u.phase = "body"
  BY SameView DEF IsParser, SameButMode, Fields
<1> HIDE DEF r, u
<1>4. header.errors \cup ErrorIf(FALSE, "missing") = header.errors
  BY DEF ErrorIf
<1>5. CASE ~MissingField(header.fields)
  <2>1. p2 = Reporting(p, r, header.errors) /\ t2 = Reporting(t, u, header.errors)
    BY <1>2, <1>4, <1>5 DEF ErrorIf
  <2>2. u.phase # "threw"
    BY <1>3
  <2>3. QED
    BY <1>3, <2>1, <2>2, ReportingRelated, Zenon
<1>6. CASE MissingField(header.fields) /\ header.errors # {}
  <2>1. header.errors \cup ErrorIf(MissingField(header.fields), "missing") # {}
    BY <1>6
  <2>2. QED
    BY <1>2, <1>3, <1>4, <1>6, <2>1, ReportingThrows, Zenon
<1>7. CASE MissingField(header.fields) /\ header.errors = {}
  <2>1. t2 = [u EXCEPT !.diagnostic = @ \cup {}]
    BY <1>2, <1>4, <1>7 DEF Reporting
  <2>2. t2 = u
    BY <1>3, <2>1 DEF IsParser
  <2>3. p2 = [p EXCEPT !.phase = "threw"]
    BY <1>1, <1>2, <1>7 DEF Reporting, ErrorIf
  <2>4. p2.phase = "threw"
    BY <2>3 DEF SameButMode, IsParser, Fields
  <2>5. QED
    BY <1>3, <1>7, <2>2, <2>4 DEF ModesRelated
<1>8. QED
  BY <1>5, <1>6, <1>7

\* The parsers agree on r and u before they charge the line they have read.
LEMMA ReadRelated ==
  ASSUME NEW p, NEW t, IsParser(t), t.mode = "TOLERANT", SameButMode(p, t),
         NEW r, NEW u, IsParser(u), u.mode = "TOLERANT", SameButMode(r, u), u.phase # "threw",
         NEW errors
  PROVE  ModesRelated(Reporting(p, Charged(r, errors), errors),
                      Reporting(t, Charged(u, errors), errors))
<1> DEFINE a == Charged(r, errors)
           b == Charged(u, errors)
<1>1. IsParser(b) /\ b.mode = "TOLERANT" /\ b.diagnostic = {} /\ b.phase # "threw"
  BY ChargedIsParser DEF SameButMode
<1>2. errors = {} => SameButMode(a, b)
  BY ChargedRelated
<1> HIDE DEF a, b
<1>3. ModesRelated(Reporting(p, a, errors), Reporting(t, b, errors))
  BY <1>1, <1>2, ReportingRelated
<1>4. QED
  BY <1>3, Zenon DEF a, b

LEMMA BodyRelated ==
  ASSUME NEW p, NEW t, IsParser(t), t.mode = "TOLERANT", SameButMode(p, t),
         NEW p2, NEW t2, t.phase # "threw",
         \/ ReadRole(p, p2) /\ ReadRole(t, t2)
         \/ ReadTool(p, p2) /\ ReadTool(t, t2)
         \/ ReadPairs(p, p2) /\ ReadPairs(t, t2)
  PROVE  ModesRelated(p2, t2)
<1> DEFINE probe == Probe(t)
           stmt  == t.current_stmt
<1>1. Probe(p) = probe /\ p.current_stmt = stmt
  BY SameView DEF Fields
<1> HIDE DEF probe, stmt
<1>2. CASE ReadRole(p, p2) /\ ReadRole(t, t2)
  <2> DEFINE r == Flushed(p)
             u == Flushed(t)
             built == WithRole(u.current_stmt, probe)
             errors == RoleErrors(u.current_stmt, probe)
             r1 == [r EXCEPT !.current_stmt = built, !.has_role = TRUE]
             u1 == [u EXCEPT !.current_stmt = built, !.has_role = TRUE]
  <2>1. SameButMode(r, u) /\ IsParser(u) /\ u.mode = "TOLERANT" /\ u.phase # "threw"
    BY FlushedRelated
  <2>2. r.current_stmt = u.current_stmt
    BY <2>1, SameView DEF Fields
  <2>3. p2 = Reporting(p, Charged(r1, errors), errors)
    BY <1>1, <1>2, <2>2, Zenon DEF ReadRole
  <2>4. t2 = Reporting(t, Charged(u1, errors), errors)
    BY <1>2, Zenon DEF ReadRole, probe
  <2> HIDE DEF r, u, built, errors
  <2>5. /\ SameButMode(r1, u1) /\ IsParser(u1) /\ u1.mode = "TOLERANT" /\ u1.phase # "threw"
    BY <2>1 DEF SameButMode, IsParser, Fields
  <2> HIDE DEF r1, u1
  <2>6. QED
    BY <2>3, <2>4, <2>5, ReadRelated
<1>3. CASE ReadTool(p, p2) /\ ReadTool(t, t2)
  <2> DEFINE tool == parseToolCall(Requoted(probe))
             errors == QuoteError(probe) \cup tool.errors
             built == [stmt EXCEPT !.tool_calls = Append(@, tool.call)]
             r1 == [p EXCEPT !.current_stmt = built]
             u1 == [t EXCEPT !.current_stmt = built]
  <2>1. p2 = Reporting(p, Charged(r1, errors), errors)
    BY <1>1, <1>3, Zenon DEF ReadTool
  <2>2. t2 = Reporting(t, Charged(u1, errors), errors)
    BY <1>3, Zenon DEF ReadTool, probe, stmt
  <2> HIDE DEF built, errors
  <2>3. /\ SameButMode(r1, u1) /\ IsParser(u1) /\ u1.mode = "TOLERANT" /\ u1.phase # "threw"
    BY DEF SameButMode, IsParser, Fields
  <2> HIDE DEF r1, u1
  <2>4. QED
    BY <2>1, <2>2, <2>3, ReadRelated
<1>4. CASE ReadPairs(p, p2) /\ ReadPairs(t, t2)
  <2> DEFINE pairs == parseKVPairs(Requoted(probe), stmt.kvpairs)
             errors == QuoteError(probe) \cup pairs.errors
             built == [stmt EXCEPT !.kvpairs = pairs.pairs]
             r1 == [p EXCEPT !.current_stmt = built]
             u1 == [t EXCEPT !.current_stmt = built]
  <2>1. p2 = Reporting(p, Charged(r1, errors), errors)
    BY <1>1, <1>4, Zenon DEF ReadPairs
  <2>2. t2 = Reporting(t, Charged(u1, errors), errors)
    BY <1>4, Zenon DEF ReadPairs, probe, stmt
  <2> HIDE DEF built, errors
  <2>3. /\ SameButMode(r1, u1) /\ IsParser(u1) /\ u1.mode = "TOLERANT" /\ u1.phase # "threw"
    BY DEF SameButMode, IsParser, Fields
  <2> HIDE DEF r1, u1
  <2>4. QED
    BY <2>1, <2>2, <2>3, ReadRelated
<1>5. QED
  BY <1>2, <1>3, <1>4

LEMMA FinishRelated ==
  ASSUME NEW p, NEW t, IsParser(t), t.mode = "TOLERANT", SameButMode(p, t),
         NEW p2, NEW t2, Finish(p, p2), Finish(t, t2)
  PROVE  ModesRelated(p2, t2)
<1> DEFINE r == IF HasStatement(t) THEN Pushed(p) ELSE p
           u == IF HasStatement(t) THEN Pushed(t) ELSE t
<1>1. SameButMode(r, u) /\ IsParser(u) /\ u.mode = "TOLERANT"
  BY FlushedRelated
<1>2. p2 = [r EXCEPT !.phase = "done"] /\ t2 = [u EXCEPT !.phase = "done"]
  BY FlushedRelated, Zenon DEF Finish
<1> HIDE DEF r, u
<1>3. SameButMode(p2, t2) /\ IsParser(t2) /\ t2.mode = "TOLERANT" /\ p2.phase = "done"
  BY <1>1, <1>2 DEF SameButMode, IsParser, Fields
<1>4. QED
  BY <1>3 DEF ModesRelated

LEMMA StepRelated ==
  ASSUME NEW p, NEW t, IsParser(t), t.mode = "TOLERANT", SameButMode(p, t),
         NEW p2, NEW t2, Step(p, p2), Step(t, t2)
  PROVE  ModesRelated(p2, t2)
<1>1. /\ p.phase = t.phase /\ p.payload = t.payload /\ Probe(p) = Probe(t)
      /\ MoreLines(p) = MoreLines(t) /\ BelongsToHeader(p) = BelongsToHeader(t)
      /\ Oversized(p) = Oversized(t)
  BY SameView DEF Fields
<1>2. /\ ~(IsRoleLine(Probe(t)) /\ IsToolLine(Probe(t)))
      /\ Probe(t) = <<>> => ~IsRoleLine(Probe(t)) /\ ~IsToolLine(Probe(t))
  BY DEF IsRoleLine, IsToolLine
<1>3. t.phase # "threw"
  BY Guards DEF Step
<1>4. CASE Refuse(p, p2)
  <2>1. Refuse(t, t2)
    BY <1>1, <1>4, Guards DEF Step
  <2>2. QED
    BY <1>4, <2>1, RefuseRelated
<1>5. CASE ReadHeaderLine(p, p2) \/ FoldLine(p, p2) \/ SkipBlank(p, p2)
  <2>1. \/ ReadHeaderLine(p, p2) /\ ReadHeaderLine(t, t2)
        \/ FoldLine(p, p2) /\ FoldLine(t, t2)
        \/ SkipBlank(p, p2) /\ SkipBlank(t, t2)
    BY <1>1, <1>2, <1>5, Guards DEF Step
  <2>2. QED
    BY <1>1, <1>3, <2>1, HeaderRelated
<1>6. CASE ParseHeader(p, p2)
  <2>1. ParseHeader(t, t2)
    BY <1>1, <1>6, Guards DEF Step
  <2>2. QED
    BY <1>6, <2>1, ParseHeaderRelated
<1>7. CASE ReadRole(p, p2) \/ ReadTool(p, p2) \/ ReadPairs(p, p2)
  <2>1. \/ ReadRole(p, p2) /\ ReadRole(t, t2)
        \/ ReadTool(p, p2) /\ ReadTool(t, t2)
        \/ ReadPairs(p, p2) /\ ReadPairs(t, t2)
    BY <1>1, <1>2, <1>7, Guards DEF Step
  <2>2. QED
    BY <1>3, <2>1, BodyRelated
<1>8. CASE Finish(p, p2)
  <2>1. Finish(t, t2)
    BY <1>1, <1>8, Guards DEF Step
  <2>2. QED
    BY <1>8, <2>1, FinishRelated
<1>9. QED
  BY <1>4, <1>5, <1>6, <1>7, <1>8 DEF Step

-----------------------------------------------------------------------------
\* After STRICT has thrown, TOLERANT goes on alone.

LEMMA FlushedKeeps ==
  ASSUME NEW t, IsParser(t)
  PROVE  \A u \in {Flushed(t), Pushed(t)} :
           /\ IsParser(u) /\ u.mode = t.mode
           /\ u.diagnostic = t.diagnostic /\ u.header = t.header /\ u.phase = t.phase
           /\ u.payload = t.payload
<1> DEFINE keeps(u) == /\ IsParser(u) /\ u.mode = t.mode
                       /\ u.diagnostic = t.diagnostic /\ u.header = t.header /\ u.phase = t.phase
                       /\ u.payload = t.payload
           longer == Append(t.statements, t.current_stmt)
           draft == Append(t.healed_draft, t.current_stmt)
           fresh == EmptyStatement
<1>1. \/ Pushed(t) = [t EXCEPT !.statements = longer]
      \/ Pushed(t) = [t EXCEPT !.healed_draft = draft, !.recovery_attempted = TRUE]
  BY Zenon DEF Pushed
<1> HIDE DEF longer, draft
<1>2. keeps(Pushed(t))
  BY <1>1 DEF IsParser, Fields
<1>3. \/ Flushed(t) = [Pushed(t) EXCEPT !.current_stmt = fresh, !.current_stmt_healed = FALSE]
      \/ Flushed(t) = t
  BY Zenon DEF Flushed
<1> HIDE DEF fresh
<1>4. keeps(Flushed(t))
  BY <1>2, <1>3 DEF IsParser, Fields
<1>5. QED
  BY <1>2, <1>4

\* TOLERANT notes errors and goes on as u.
LEMMA ReportingKeeps ==
  ASSUME NEW t, t.mode = "TOLERANT", NEW u, IsParser(u), u.mode = "TOLERANT", NEW errors,
         NEW t2, t2 = Reporting(t, u, errors)
  PROVE  /\ IsParser(t2) /\ t2.mode = "TOLERANT"
         /\ u.diagnostic \subseteq t2.diagnostic
         /\ t2.header = u.header /\ t2.phase = u.phase /\ t2.payload = u.payload
<1> DEFINE noted == {[line |-> u.at, kind |-> k] : k \in errors}
<1>1. t2 = [u EXCEPT !.diagnostic = @ \cup noted]
  BY DEF Reporting
<1> HIDE DEF noted
<1>2. QED
  BY <1>1 DEF IsParser, Fields

LEMMA TolerantKeeps ==
  ASSUME NEW t, IsParser(t), t.mode = "TOLERANT", NEW t2, Step(t, t2)
  PROVE  /\ IsParser(t2) /\ t2.mode = "TOLERANT" /\ t2.payload = t.payload
         /\ t.diagnostic \subseteq t2.diagnostic
         /\ t.phase \in {"body", "done"} => t2.phase \in {"body", "done"} /\ t2.header = t.header
<1> DEFINE Goal == /\ IsParser(t2) /\ t2.mode = "TOLERANT" /\ t2.payload = t.payload
                   /\ t.diagnostic \subseteq t2.diagnostic
                   /\ t.phase \in {"body", "done"} =>
                        t2.phase \in {"body", "done"} /\ t2.header = t.header
<1>1. CASE Refuse(t, t2)
  <2> DEFINE u == [t EXCEPT !.phase = "done"]
  <2>1. /\ IsParser(u) /\ u.mode = "TOLERANT" /\ u.diagnostic = t.diagnostic
        /\ t.phase = "start" /\ u.payload = t.payload
    BY <1>1, Guards DEF IsParser, Fields
  <2>2. PICK d : t2 = Reporting(t, u, d)
    BY <1>1, Zenon DEF Refuse
  <2> HIDE DEF u
  <2>3. QED
    BY <2>1, <2>2, ReportingKeeps
<1>2. CASE ReadHeaderLine(t, t2)
  <2> DEFINE probe == Probe(t)
  <2>1. /\ t.phase = "start"
        /\ t2 = [t EXCEPT !.phase = "header", !.at = 1, !.mark = 1, !.header_line = probe]
    BY <1>2, Zenon DEF ReadHeaderLine
  <2> HIDE DEF probe
  <2>2. QED
    BY <2>1 DEF IsParser, Fields
<1>3. CASE FoldLine(t, t2)
  <2> DEFINE folded == IF Probe(t) = <<>> THEN t.header_line
                       ELSE t.header_line \o <<" ">> \o Probe(t)
             at == t.at + 1
  <2>1. t.phase = "header" /\ t2 = [t EXCEPT !.at = at, !.mark = at, !.header_line = folded]
    BY <1>3, Zenon DEF FoldLine
  <2> HIDE DEF at, folded
  <2>2. QED
    BY <2>1 DEF IsParser, Fields
<1>4. CASE ParseHeader(t, t2)
  <2> DEFINE header == parseHeader(t.header_line).fields
             u == [t EXCEPT !.phase = "body", !.at = t.mark, !.header = header]
  <2>1. t.phase = "header" /\ \E d : t2 = Reporting(t, u, d)
    BY <1>4, Zenon DEF ParseHeader
  <2> HIDE DEF header
  <2>2. IsParser(u) /\ u.mode = "TOLERANT" /\ u.diagnostic = t.diagnostic /\ u.payload = t.payload
    BY DEF IsParser, Fields
  <2> HIDE DEF u
  <2>3. QED
    BY <2>1, <2>2, ReportingKeeps
<1>5. CASE SkipBlank(t, t2)
  <2> DEFINE at == t.at + 1
  <2>1. t2 = [t EXCEPT !.at = at]
    BY <1>5, Zenon DEF SkipBlank
  <2> HIDE DEF at
  <2>2. QED
    BY <2>1 DEF IsParser, Fields
<1>6. CASE ReadRole(t, t2) \/ ReadTool(t, t2) \/ ReadPairs(t, t2)
  <2>1. PICK stmt, d : \/ t2 = Reporting(t, Charged([Flushed(t) EXCEPT !.current_stmt = stmt,
                                                                       !.has_role = TRUE], d), d)
                       \/ t2 = Reporting(t, Charged([t EXCEPT !.current_stmt = stmt], d), d)
    BY <1>6, Zenon DEF ReadRole, ReadTool, ReadPairs
  <2> DEFINE f == Flushed(t)
             r == [f EXCEPT !.current_stmt = stmt, !.has_role = TRUE]
             u == [t EXCEPT !.current_stmt = stmt]
  <2>2. IsParser(f) /\ f.mode = "TOLERANT" /\ f.diagnostic = t.diagnostic /\ f.header = t.header
        /\ f.phase = t.phase /\ f.payload = t.payload
    BY FlushedKeeps
  <2> HIDE DEF f
  <2>3. \A q \in {r, u} : /\ IsParser(q) /\ q.mode = "TOLERANT" /\ q.diagnostic = t.diagnostic
                          /\ q.header = t.header /\ q.phase = t.phase /\ q.payload = t.payload
    BY <2>2 DEF IsParser, Fields
  <2>4. PICK q \in {r, u} : t2 = Reporting(t, Charged(q, d), d)
    BY <2>1, Zenon DEF f
  <2> HIDE DEF r, u
  <2> DEFINE c == Charged(q, d)
  <2>5. IsParser(c) /\ c.mode = "TOLERANT" /\ c.diagnostic = t.diagnostic /\ c.header = t.header
        /\ c.phase = t.phase /\ c.payload = t.payload
    BY <2>3, <2>4 DEF Charged, IsParser, Fields
  <2>6. t2 = Reporting(t, c, d)
    BY <2>4
  <2> HIDE DEF c
  <2>7. QED
    BY <2>5, <2>6, ReportingKeeps
<1>7. CASE Finish(t, t2)
  <2> DEFINE u == IF HasStatement(t) THEN Pushed(t) ELSE t
  <2>1. IsParser(u) /\ u.mode = "TOLERANT" /\ u.diagnostic = t.diagnostic /\ u.header = t.header
        /\ u.payload = t.payload
    BY FlushedKeeps
  <2>2. t2 = [u EXCEPT !.phase = "done"]
    BY <1>7, Zenon DEF Finish
  <2> HIDE DEF u
  <2>3. QED
    BY <2>1, <2>2 DEF IsParser, Fields
<1>8. QED
  BY <1>1, <1>2, <1>3, <1>4, <1>5, <1>6, <1>7, Zenon DEF Step

LEMMA StartOfEither ==
  ASSUME NEW frame, NEW p, NEW t,
         p = Start("STRICT", frame), t = Start("TOLERANT", frame)
  PROVE  IsParser(t) /\ p = [t EXCEPT !.mode = "STRICT"]
<1>1. IsParser(p) /\ p.mode = "STRICT"
  BY DEF Start, IsParser, Fields
<1>2. IsParser(t)
  BY DEF Start, IsParser, Fields
<1> DEFINE blank == EmptyStatement
           unset == NoFields
<1>3. /\ p.payload = frame /\ p.at = 0 /\ p.mark = 0 /\ p.phase = "start" /\ p.header_line = <<>>
      /\ p.header = unset /\ p.current_stmt = blank /\ p.has_role = FALSE
      /\ p.current_stmt_healed = FALSE /\ p.statements = <<>> /\ p.healed_draft = <<>>
      /\ p.recovery_attempted = FALSE /\ p.diagnostic = {}
  BY DEF Start
<1>4. /\ t.payload = frame /\ t.at = 0 /\ t.mark = 0 /\ t.phase = "start" /\ t.header_line = <<>>
      /\ t.header = unset /\ t.current_stmt = blank /\ t.has_role = FALSE
      /\ t.current_stmt_healed = FALSE /\ t.statements = <<>> /\ t.healed_draft = <<>>
      /\ t.recovery_attempted = FALSE /\ t.diagnostic = {}
  BY DEF Start
<1> HIDE DEF blank, unset
<1>5. \A f \in Fields \ {"mode"} : p[f] = t[f]
  BY <1>3, <1>4 DEF Fields
<1>6. p = [t EXCEPT !.mode = "STRICT"]
  BY <1>1, <1>2, <1>5 DEF IsParser, Fields
<1>7. QED
  BY <1>2, <1>6

-----------------------------------------------------------------------------
\* STRICT throws exactly where TOLERANT has something to report or lets a missing
\* field pass; up to there both read the same.  ModesRelated is inductive because
\* diagnostics are never withdrawn and the header is not set again.
THEOREM ModesAlwaysAgree == Spec => []ModesAgree
<1> DEFINE Inv == ModesRelated(strict, tolerant)
<1>1. Init => Inv
  <2> SUFFICES ASSUME Init PROVE Inv
    OBVIOUS
  <2>1. PICK frame : strict = Start("STRICT", frame) /\ tolerant = Start("TOLERANT", frame)
    BY Zenon DEF Init, Reads
  <2>2. IsParser(tolerant) /\ tolerant.mode = "TOLERANT" /\ strict.phase = "start"
    BY <2>1 DEF Start, IsParser, Fields
  <2>3. strict = [tolerant EXCEPT !.mode = "STRICT"]
    BY <2>1, StartOfEither
  <2>4. SameButMode(strict, tolerant)
    BY <2>1, <2>3 DEF Start, EmptyStatement, SameButMode
  <2>5. QED
    BY <2>2, <2>4 DEF ModesRelated
<1>2. Inv /\ [Next]_vars => Inv'
  <2> SUFFICES ASSUME Inv, [Next]_vars PROVE Inv'
    OBVIOUS
  <2> DEFINE s == strict
             t == tolerant
             s2 == strict'
             t2 == tolerant'
  <2>1. CASE UNCHANGED vars
    BY <2>1 DEF vars
  <2>2. CASE Next
    <3>1. /\ Step(s, s2) \/ (Stopped(s) /\ s2 = s)
          /\ Step(t, t2) \/ (Stopped(t) /\ t2 = t)
      BY <2>2 DEF Next
    <3>2. ModesRelated(s, t)
      OBVIOUS
    <3>3. ModesRelated(s2, t2)
      <4> HIDE DEF s, t, s2, t2, Inv
      <4>1. CASE s.phase = "threw"
        <5>1. s2 = s
          BY <3>1, <4>1, Guards DEF Step
        <5>2. QED
          BY <3>1, <3>2, <4>1, <5>1, TolerantKeeps DEF ModesRelated
      <4>2. CASE s.phase # "threw"
        <5>1. IsParser(t) /\ t.mode = "TOLERANT" /\ SameButMode(s, t) /\ s.phase = t.phase
          BY <3>2, <4>2, SameView DEF ModesRelated, Fields
        <5>2. CASE t.phase = "done"
          <6>1. s2 = s /\ t2 = t
            BY <3>1, <5>1, <5>2, Guards DEF Step
          <6>2. QED
            BY <3>2, <6>1
        <5>3. CASE t.phase # "done"
          <6>1. Step(s, s2) /\ Step(t, t2)
            BY <3>1, <4>2, <5>1, <5>3 DEF Stopped
          <6>2. QED
            BY <5>1, <6>1, StepRelated
        <5>4. QED
          BY <5>2, <5>3
      <4>3. QED
        BY <4>1, <4>2
    <3>4. QED
      BY <3>3
  <2>3. QED
    BY <2>1, <2>2
<1>3. Inv => ModesAgree
  BY DEF ModesRelated, SameButMode, ModesAgree, RecoveryAction
<1>4. QED
  BY <1>1, <1>2, <1>3, PTL DEF Spec

-----------------------------------------------------------------------------
\* A parser t and a parser c whose copy of the frame has a carriage return at the end
\* of every line.  At the end of a line it is white space, so both see the same.

LEMMA TrimIgnoresReturn ==
  ASSUME NEW s \in Text
  PROVE  trim(Append(s, "cr")) = trim(s)
<1> DEFINE long   == Append(s, "cr")
           ink(l) == {i \in DOMAIN l : l[i] \notin White}
<1>1. /\ s \in Seq(Atoms) /\ Len(s) \in Nat /\ DOMAIN s = 1..Len(s)
      /\ DOMAIN long = 1..(Len(s) + 1)
      /\ long[Len(s) + 1] = "cr" /\ \A i \in 1..Len(s) : long[i] = s[i]
  BY DEF Text
<1>2. "cr" \in White
  BY DEF White
<1>3. ink(long) = ink(s)
  <2>1. \A i \in 1..(Len(s) + 1) : i \in 1..Len(s) \/ i = Len(s) + 1
    BY <1>1
  <2>2. 1..Len(s) \subseteq 1..(Len(s) + 1)
    BY <1>1
  <2> HIDE DEF long
  <2>3. QED
    BY <1>1, <1>2, <2>1, <2>2
<1>4. PICK set : set = ink(s)
  OBVIOUS
<1>5. set \subseteq 1..Len(s)
  BY <1>1, <1>4
<1>6. /\ trim(long) = IF set = {} THEN <<>> ELSE SubSeq(long, Min(set), Max(set))
      /\ trim(s) = IF set = {} THEN <<>> ELSE SubSeq(s, Min(set), Max(set))
  <2> HIDE DEF long
  <2>1. QED
    BY <1>3, <1>4, Zenon DEF trim
<1>7. CASE set = {}
  BY <1>6, <1>7
<1>8. CASE set # {}
  <2>1. PICK m \in 1..Len(s), n \in 1..Len(s) : m = Min(set) /\ n = Max(set)
    <3>1. set \in SUBSET Nat /\ set \in SUBSET (0..Len(s))
      BY <1>1, <1>5
    <3>2. Min(set) \in set
      BY <1>8, <3>1, MinProperties
    <3>3. Max(set) \in set
      BY <1>1, <1>8, <3>1, MaxProperties
    <3>4. QED
      BY <1>5, <3>2, <3>3
  <2>2. SubSeq(long, m, n) = SubSeq(s, m, n)
    BY <1>1
  <2>3. QED
    BY <1>6, <1>8, <2>1, <2>2
<1>9. QED
  BY <1>7, <1>8

Aligned(t, c) == IsParser(t) /\ t.mode = "TOLERANT" /\ c = [t EXCEPT !.payload = c.payload]

\* Two frames whose lines are the same once they are trimmed.
TrimAlike(sent, came) ==
    /\ sent \in Seq(Text) /\ came \in Seq(Text) /\ Len(came) = Len(sent)
    /\ \A n \in 1..Len(sent) : trim(came[n]) = trim(sent[n])

SameLines(t, c) ==
    /\ TrimAlike(t.payload, c.payload)
    /\ {t.at, t.mark} \subseteq Nat /\ (t.phase = "start" => t.at = 0)

LEMMA AlignedView ==
  ASSUME NEW t, NEW c, Aligned(t, c), SameLines(t, c)
  PROVE  /\ IsParser(c) /\ \A f \in Fields \ {"payload"} : c[f] = t[f]
         /\ MoreLines(c) = MoreLines(t) /\ (c.payload = <<>> <=> t.payload = <<>>)
         /\ MoreLines(t) => Probe(c) = Probe(t)
         /\ BelongsToHeader(c) = BelongsToHeader(t)
<1>1. IsParser(c)
  BY DEF Aligned, IsParser, Fields
<1>2. \A f \in Fields \ {"payload"} : c[f] = t[f]
  BY DEF Aligned, IsParser, Fields
<1>3. c.at = t.at
  BY <1>2 DEF Fields
<1> DEFINE frame == t.payload
           long  == c.payload
<1>4. /\ frame \in Seq(Text) /\ long \in Seq(Text) /\ Len(frame) \in Nat /\ Len(long) = Len(frame)
      /\ \A n \in 1..Len(frame) : trim(long[n]) = trim(frame[n])
  BY DEF SameLines, TrimAlike
<1> HIDE DEF frame, long
<1>6. long = <<>> <=> frame = <<>>
  BY <1>4
<1>7. MoreLines(c) = MoreLines(t)
  BY <1>3, <1>4 DEF MoreLines, frame, long
<1>8. ASSUME MoreLines(t) PROVE Probe(c) = Probe(t)
  <2>1. t.at + 1 \in 1..Len(frame)
    BY <1>4, <1>8 DEF MoreLines, SameLines, frame
  <2>2. QED
    BY <1>3, <1>4, <2>1 DEF Probe, frame, long
<1>9. BelongsToHeader(c) = BelongsToHeader(t)
  BY <1>7, <1>8 DEF BelongsToHeader
<1>10. QED
  BY <1>1, <1>2, <1>6, <1>7, <1>8, <1>9 DEF frame, long

\* Updates by the same values keep the two aligned.
Together(t, c) == Aligned(t, c) /\ SameLines(t, c)

LEMMA ReportingTogether ==
  ASSUME NEW t, NEW c, t.mode = "TOLERANT", c.mode = "TOLERANT",
         NEW u, NEW v, Together(u, v), NEW errors
  PROVE  Together(Reporting(t, u, errors), Reporting(c, v, errors))
<1>1. \A f \in Fields \ {"payload"} : v[f] = u[f]
  BY AlignedView DEF Together
<1>2. v.at = u.at
  BY <1>1 DEF Fields
<1> DEFINE noted == {[line |-> u.at, kind |-> e] : e \in errors}
           t2 == Reporting(t, u, errors)
           c2 == Reporting(c, v, errors)
<1>3. /\ t2 = [u EXCEPT !.diagnostic = @ \cup noted]
      /\ c2 = [v EXCEPT !.diagnostic = @ \cup noted]
  BY <1>2 DEF Reporting
<1> HIDE DEF noted, t2, c2
<1>4. Aligned(t2, c2) /\ SameLines(t2, c2)
  BY <1>3 DEF Together, Aligned, SameLines, IsParser, Fields
<1>5. QED
  BY <1>4 DEF Together, t2, c2

LEMMA ChargedTogether ==
  ASSUME NEW u, NEW v, Together(u, v), u.phase # "start", NEW errors
  PROVE  Together(Charged(u, errors), Charged(v, errors))
<1>1. \A f \in Fields \ {"payload"} : v[f] = u[f]
  BY AlignedView DEF Together
<1>2. /\ v.at = u.at /\ v.current_stmt = u.current_stmt
      /\ v.current_stmt_healed = u.current_stmt_healed
  BY <1>1 DEF Fields
<1> DEFINE stmt == [u.current_stmt EXCEPT !.lines = @ \cup {u.at + 1}]
           flag == u.current_stmt_healed \/ Heals(errors)
           at   == u.at + 1
           t2   == Charged(u, errors)
           c2   == Charged(v, errors)
<1>3. t2 = [u EXCEPT !.at = at, !.current_stmt = stmt, !.current_stmt_healed = flag]
  BY Zenon DEF Charged
<1>4. c2 = [v EXCEPT !.at = at, !.current_stmt = stmt, !.current_stmt_healed = flag]
  BY <1>2, Zenon DEF Charged
<1>5. u.at \in Nat /\ at \in Nat
  BY DEF Together, SameLines
<1> HIDE DEF stmt, flag, at, t2, c2
<1>6. Aligned(t2, c2) /\ SameLines(t2, c2)
  BY <1>3, <1>4, <1>5 DEF Together, Aligned, SameLines, IsParser, Fields
<1>7. QED
  BY <1>6 DEF Together, t2, c2

LEMMA FlushedTogether ==
  ASSUME NEW t, NEW c, Together(t, c)
  PROVE  /\ Together(Flushed(t), Flushed(c)) /\ Together(Pushed(t), Pushed(c))
         /\ HasStatement(c) = HasStatement(t)
<1>1. \A f \in Fields \ {"payload"} : c[f] = t[f]
  BY AlignedView DEF Together
<1>2. /\ c.has_role = t.has_role /\ c.current_stmt = t.current_stmt
      /\ c.statements = t.statements /\ c.healed_draft = t.healed_draft
      /\ c.current_stmt_healed = t.current_stmt_healed
  BY <1>1 DEF Fields
<1>3. HasStatement(c) = HasStatement(t)
  BY <1>2, Zenon DEF HasStatement
<1> DEFINE longer == Append(t.statements, t.current_stmt)
           draft  == Append(t.healed_draft, t.current_stmt)
           a == Pushed(t)
           b == Pushed(c)
<1>4. \/ a = [t EXCEPT !.statements = longer] /\ b = [c EXCEPT !.statements = longer]
      \/ /\ a = [t EXCEPT !.healed_draft = draft, !.recovery_attempted = TRUE]
         /\ b = [c EXCEPT !.healed_draft = draft, !.recovery_attempted = TRUE]
  BY <1>2 DEF Pushed
<1> HIDE DEF longer, draft, a, b
<1>5. Aligned(a, b) /\ SameLines(a, b)
  <2>1. CASE a = [t EXCEPT !.statements = longer] /\ b = [c EXCEPT !.statements = longer]
    BY <2>1 DEF Together, Aligned, SameLines, IsParser, Fields
  <2>2. CASE /\ a = [t EXCEPT !.healed_draft = draft, !.recovery_attempted = TRUE]
             /\ b = [c EXCEPT !.healed_draft = draft, !.recovery_attempted = TRUE]
    BY <2>2 DEF Together, Aligned, SameLines, IsParser, Fields
  <2>3. QED
    BY <1>4, <2>1, <2>2
<1> DEFINE fresh == EmptyStatement
           d == [a EXCEPT !.current_stmt = fresh, !.current_stmt_healed = FALSE]
           e == [b EXCEPT !.current_stmt = fresh, !.current_stmt_healed = FALSE]
<1> HIDE DEF fresh
<1>6. Aligned(d, e) /\ SameLines(d, e)
  BY <1>5 DEF Aligned, SameLines, IsParser, Fields
<1>7. IF HasStatement(t) THEN Flushed(t) = d /\ Flushed(c) = e ELSE Flushed(t) = t /\ Flushed(c) = c
  BY <1>3, Zenon DEF Flushed, a, b, fresh
<1> HIDE DEF d, e
<1>8. QED
  BY <1>3, <1>5, <1>6, <1>7 DEF Together, a, b

LEMMA StepTogether ==
  ASSUME NEW t, NEW c, Together(t, c), ~Oversized(t), ~Oversized(c),
         NEW t2, NEW c2, Step(t, t2), Step(c, c2)
  PROVE  Together(t2, c2)
<1>1. \A f \in Fields \ {"payload"} : c[f] = t[f]
  BY AlignedView DEF Together
<1>2. /\ c.phase = t.phase /\ c.at = t.at /\ c.mark = t.mark /\ c.header_line = t.header_line
      /\ c.mode = "TOLERANT" /\ t.mode = "TOLERANT" /\ c.current_stmt = t.current_stmt
  BY <1>1 DEF Fields, Together, Aligned
<1>3. /\ MoreLines(c) = MoreLines(t) /\ (c.payload = <<>> <=> t.payload = <<>>)
      /\ MoreLines(t) => Probe(c) = Probe(t)
      /\ BelongsToHeader(c) = BelongsToHeader(t)
  BY AlignedView DEF Together
<1>4. /\ ~(IsRoleLine(Probe(t)) /\ IsToolLine(Probe(t)))
      /\ Probe(t) = <<>> => ~IsRoleLine(Probe(t)) /\ ~IsToolLine(Probe(t))
  BY DEF IsRoleLine, IsToolLine
<1>5. t.at \in Nat
  BY DEF Together, SameLines
<1> DEFINE probe == Probe(t)
           stmt  == t.current_stmt
           at    == t.at + 1
<1>6. at \in Nat
  BY <1>5
<1>7. CASE Refuse(t, t2)
  <2> DEFINE u == [t EXCEPT !.phase = "done"]
             v == [c EXCEPT !.phase = "done"]
  <2>1. Refuse(c, c2)
    BY <1>2, <1>3, <1>7, Guards DEF Step
  <2>2. t2 = Reporting(t, u, {"empty"}) /\ c2 = Reporting(c, v, {"empty"})
    BY <1>7, <2>1, Zenon DEF Refuse
  <2> HIDE DEF u, v
  <2>3. Together(u, v)
    BY DEF u, v, Together, Aligned, SameLines, IsParser, Fields
  <2>4. QED
    BY <1>2, <2>2, <2>3, ReportingTogether
<1>8. CASE ReadHeaderLine(t, t2)
  <2>1. ReadHeaderLine(c, c2)
    BY <1>2, <1>3, <1>8, Guards DEF Step
  <2>2. Probe(c) = probe
    <3>1. t.payload # <<>> /\ t.payload \in Seq(Text) /\ t.at = 0
      BY <1>8, Guards DEF Together, SameLines, TrimAlike
    <3>2. MoreLines(t)
      BY <3>1 DEF MoreLines
    <3>3. QED
      BY <1>3, <3>2
  <2>3. /\ t2 = [t EXCEPT !.phase = "header", !.at = 1, !.mark = 1, !.header_line = probe]
        /\ c2 = [c EXCEPT !.phase = "header", !.at = 1, !.mark = 1, !.header_line = probe]
    BY <1>8, <2>1, <2>2, Zenon DEF ReadHeaderLine
  <2> HIDE DEF probe
  <2>4. IsParser(t) /\ c = [t EXCEPT !.payload = c.payload] /\ TrimAlike(t.payload, c.payload)
    BY DEF Together, Aligned, SameLines
  <2>5. /\ t2.at = 1 /\ t2.mark = 1 /\ t2.phase = "header" /\ t2.mode = "TOLERANT"
        /\ t2.payload = t.payload /\ c2.payload = c.payload /\ IsParser(t2)
    BY <1>2, <2>3, <2>4 DEF IsParser, Fields
  <2>6. c2 = [t2 EXCEPT !.payload = c2.payload]
    BY <2>3, <2>4 DEF IsParser, Fields
  <2>7. QED
    BY <2>4, <2>5, <2>6 DEF Together, Aligned, SameLines
<1>9. CASE FoldLine(t, t2)
  <2> DEFINE folded == IF probe = <<>> THEN t.header_line ELSE t.header_line \o <<" ">> \o probe
  <2>1. FoldLine(c, c2)
    BY <1>2, <1>3, <1>9, Guards DEF Step
  <2>2. Probe(c) = probe
    BY <1>3, <1>9 DEF FoldLine, BelongsToHeader
  <2>3. /\ t2 = [t EXCEPT !.at = at, !.mark = at, !.header_line = folded]
        /\ c2 = [c EXCEPT !.at = at, !.mark = at, !.header_line = folded]
    BY <1>2, <1>9, <2>1, <2>2, Zenon DEF FoldLine
  <2>4. t.phase = "header"
    BY <1>9, Guards
  <2> HIDE DEF probe, folded, at
  <2>5. QED
    BY <1>6, <2>3, <2>4 DEF Together, Aligned, SameLines, IsParser, Fields
<1>10. CASE ParseHeader(t, t2)
  <2> DEFINE header == parseHeader(t.header_line)
             errors == header.errors \cup ErrorIf(FALSE, "missing")
             u == [t EXCEPT !.phase = "body", !.at = t.mark, !.header = header.fields]
             v == [c EXCEPT !.phase = "body", !.at = t.mark, !.header = header.fields]
  <2>1. ParseHeader(c, c2)
    BY <1>2, <1>3, <1>10, Guards DEF Step
  <2>2. /\ (t.mode = "STRICT" /\ MissingField(header.fields)) = FALSE
        /\ (c.mode = "STRICT" /\ MissingField(header.fields)) = FALSE
    BY <1>2
  <2>3. t2 = Reporting(t, u, header.errors \cup
                               ErrorIf(t.mode = "STRICT" /\ MissingField(header.fields), "missing"))
    BY <1>10, Zenon DEF ParseHeader
  <2>4. c2 = Reporting(c, v, header.errors \cup
                               ErrorIf(c.mode = "STRICT" /\ MissingField(header.fields), "missing"))
    BY <1>2, <2>1, Zenon DEF ParseHeader
  <2>5. t2 = Reporting(t, u, errors) /\ c2 = Reporting(c, v, errors)
    BY <2>2, <2>3, <2>4, Zenon
  <2> HIDE DEF header, errors, u, v
  <2>6. Together(u, v)
    BY DEF u, v, Together, Aligned, SameLines, IsParser, Fields
  <2>7. QED
    BY <1>2, <2>5, <2>6, ReportingTogether
<1>11. CASE SkipBlank(t, t2)
  <2>1. SkipBlank(c, c2)
    BY <1>2, <1>3, <1>4, <1>11, Guards DEF Step
  <2>2. t2 = [t EXCEPT !.at = at] /\ c2 = [c EXCEPT !.at = at]
    BY <1>2, <1>11, <2>1, Zenon DEF SkipBlank
  <2>3. t.phase = "body"
    BY <1>11, Guards
  <2> HIDE DEF at
  <2>4. QED
    BY <1>6, <2>2, <2>3 DEF Together, Aligned, SameLines, IsParser, Fields
<1>12. CASE ReadRole(t, t2)
  <2> DEFINE r == Flushed(t)
             w == Flushed(c)
             built == WithRole(r.current_stmt, probe)
             errors == RoleErrors(r.current_stmt, probe)
             u == [r EXCEPT !.current_stmt = built, !.has_role = TRUE]
             v == [w EXCEPT !.current_stmt = built, !.has_role = TRUE]
  <2>1. ReadRole(c, c2) /\ Probe(c) = probe
    BY <1>2, <1>3, <1>4, <1>12, Guards DEF Step
  <2>2. Together(r, w)
    BY FlushedTogether
  <2>3. w.current_stmt = r.current_stmt
    BY <2>2, AlignedView DEF Together, Fields
  <2>4. t2 = Reporting(t, Charged(u, errors), errors)
    BY <1>12, Zenon DEF ReadRole
  <2>5. c2 = Reporting(c, Charged(v, errors), errors)
    BY <2>1, <2>3, Zenon DEF ReadRole
  <2>6. r.phase = "body"
    <3>1. t.phase = "body" /\ IsParser(t)
      BY <1>12, Guards DEF Together, Aligned
    <3>2. QED
      BY <3>1, FlushedKeeps
  <2> HIDE DEF r, w, built, errors
  <2>7. Together(u, v) /\ u.phase # "start"
    BY <2>2, <2>6 DEF Together, Aligned, SameLines, IsParser, Fields
  <2> HIDE DEF u, v
  <2>8. Together(Charged(u, errors), Charged(v, errors))
    BY <2>7, ChargedTogether
  <2>9. QED
    BY <1>2, <2>4, <2>5, <2>8, ReportingTogether
<1>13. CASE ReadTool(t, t2) \/ ReadPairs(t, t2)
  <2> DEFINE tool == parseToolCall(Requoted(probe))
             pairs == parseKVPairs(Requoted(probe), stmt.kvpairs)
  <2>1. /\ ReadTool(c, c2) <=> ReadTool(t, t2)
        /\ ReadPairs(c, c2) <=> ReadPairs(t, t2)
        /\ Probe(c) = probe
    BY <1>2, <1>3, <1>4, <1>13, Guards DEF Step
  <2>2. PICK built, errors : /\ t2 = Reporting(t, Charged([t EXCEPT !.current_stmt = built], errors), errors)
                            /\ c2 = Reporting(c, Charged([c EXCEPT !.current_stmt = built], errors), errors)
    <3>1. CASE ReadTool(t, t2)
      <4> DEFINE built == [stmt EXCEPT !.tool_calls = Append(@, tool.call)]
                 errors == QuoteError(probe) \cup tool.errors
      <4>1. t2 = Reporting(t, Charged([t EXCEPT !.current_stmt = built], errors), errors)
        BY <3>1, Zenon DEF ReadTool
      <4>2. c2 = Reporting(c, Charged([c EXCEPT !.current_stmt = built], errors), errors)
        BY <1>2, <2>1, <3>1, Zenon DEF ReadTool
      <4>3. QED
        BY <4>1, <4>2, Zenon
    <3>2. CASE ReadPairs(t, t2)
      <4> DEFINE built == [stmt EXCEPT !.kvpairs = pairs.pairs]
                 errors == QuoteError(probe) \cup pairs.errors
      <4>1. t2 = Reporting(t, Charged([t EXCEPT !.current_stmt = built], errors), errors)
        BY <3>2, Zenon DEF ReadPairs
      <4>2. c2 = Reporting(c, Charged([c EXCEPT !.current_stmt = built], errors), errors)
        BY <1>2, <2>1, <3>2, Zenon DEF ReadPairs
      <4>3. QED
        BY <4>1, <4>2, Zenon
    <3>3. QED
      BY <1>13, <3>1, <3>2
  <2> DEFINE u == [t EXCEPT !.current_stmt = built]
             v == [c EXCEPT !.current_stmt = built]
  <2>3. Together(u, v) /\ u.phase # "start"
    <3>1. t.phase = "body"
      BY <1>13, Guards
    <3>2. QED
      BY <3>1 DEF Together, Aligned, SameLines, IsParser, Fields
  <2> HIDE DEF u, v
  <2>4. Together(Charged(u, errors), Charged(v, errors))
    BY <2>3, ChargedTogether
  <2>5. t2 = Reporting(t, Charged(u, errors), errors) /\ c2 = Reporting(c, Charged(v, errors), errors)
    BY <2>2 DEF u, v
  <2>6. QED
    BY <1>2, <2>4, <2>5, ReportingTogether
<1>14. CASE Finish(t, t2)
  <2> DEFINE u == IF HasStatement(t) THEN Pushed(t) ELSE t
             v == IF HasStatement(t) THEN Pushed(c) ELSE c
  <2>1. Finish(c, c2)
    BY <1>2, <1>3, <1>14, Guards DEF Step
  <2>2. Together(u, v)
    BY FlushedTogether
  <2>3. t2 = [u EXCEPT !.phase = "done"] /\ c2 = [v EXCEPT !.phase = "done"]
    BY <1>14, <2>1, FlushedTogether, Zenon DEF Finish
  <2> HIDE DEF u, v
  <2>4. QED
    BY <2>2, <2>3 DEF Together, Aligned, SameLines, IsParser, Fields
<1>15. QED
  BY <1>7, <1>8, <1>9, <1>10, <1>11, <1>12, <1>13, <1>14 DEF Step

LEMMA StartTogether ==
  ASSUME NEW frame, NEW long, TrimAlike(frame, long), NEW t, NEW c,
         t = Start("TOLERANT", frame), c = Start("TOLERANT", long)
  PROVE  Together(t, c) /\ IsParser(c) /\ c.mode = "TOLERANT"
<1>1. IsParser(t) /\ t.mode = "TOLERANT" /\ IsParser(c) /\ c.mode = "TOLERANT"
  BY DEF Start, IsParser, Fields
<1> DEFINE blank == EmptyStatement
           unset == NoFields
<1>2. /\ t.payload = frame /\ t.at = 0 /\ t.mark = 0 /\ t.phase = "start" /\ t.header_line = <<>>
      /\ t.header = unset /\ t.current_stmt = blank /\ t.has_role = FALSE
      /\ t.current_stmt_healed = FALSE /\ t.statements = <<>> /\ t.healed_draft = <<>>
      /\ t.recovery_attempted = FALSE /\ t.diagnostic = {}
  BY DEF Start
<1>3. /\ c.payload = long /\ c.at = 0 /\ c.mark = 0 /\ c.phase = "start" /\ c.header_line = <<>>
      /\ c.header = unset /\ c.current_stmt = blank /\ c.has_role = FALSE
      /\ c.current_stmt_healed = FALSE /\ c.statements = <<>> /\ c.healed_draft = <<>>
      /\ c.recovery_attempted = FALSE /\ c.diagnostic = {}
  BY DEF Start
<1> HIDE DEF blank, unset
<1>4. \A f \in Fields \ {"payload"} : c[f] = t[f]
  <2>1. c.mode = t.mode
    BY <1>1
  <2>2. /\ c.at = t.at /\ c.mark = t.mark /\ c.phase = t.phase /\ c.header_line = t.header_line
        /\ c.header = t.header /\ c.current_stmt = t.current_stmt
        /\ c.has_role = t.has_role /\ c.current_stmt_healed = t.current_stmt_healed
        /\ c.statements = t.statements /\ c.healed_draft = t.healed_draft
        /\ c.recovery_attempted = t.recovery_attempted /\ c.diagnostic = t.diagnostic
    BY <1>2, <1>3
  <2>3. QED
    BY <2>1, <2>2, Zenon DEF Fields
<1>5. c = [t EXCEPT !.payload = c.payload]
  BY <1>1, <1>4 DEF IsParser, Fields
<1>6. SameLines(t, c)
  BY <1>2, <1>3 DEF SameLines
<1>7. QED
  BY <1>1, <1>5, <1>6 DEF Together, Aligned

LEMMA ReturnsTrimAlike ==
  ASSUME NEW frame \in Frames
  PROVE  TrimAlike(frame, WithReturns(frame))
<1> DEFINE long == WithReturns(frame)
<1>1. frame \in Seq(Text) /\ Len(frame) \in Nat /\ DOMAIN frame = 1..Len(frame)
  BY FramesAssumption
<1>2. long = [n \in 1..Len(frame) |-> Append(frame[n], "cr")]
  BY <1>1 DEF WithReturns
<1>3. ASSUME NEW n \in 1..Len(frame)
      PROVE  Append(frame[n], "cr") \in Text /\ trim(Append(frame[n], "cr")) = trim(frame[n])
  <2>1. frame[n] \in Text /\ "cr" \in Atoms
    BY <1>1 DEF Atoms, Punctuation, White
  <2>2. QED
    BY <2>1, TrimIgnoresReturn DEF Text
<1> HIDE DEF long
<1>4. long \in Seq(Text) /\ Len(long) = Len(frame)
      /\ \A n \in 1..Len(frame) : trim(long[n]) = trim(frame[n])
  BY <1>1, <1>2, <1>3
<1>5. QED
  BY <1>1, <1>4 DEF TrimAlike, long

\* A frame sent with CRLF is read like one sent with LF, whatever its words and its
\* length: at every line the two parsers differ in the text they read alone.
THEOREM LineEndingsNeverMatter == Spec => []LineEndingsDoNotMatter
<1> DEFINE Inv == /\ IsParser(tolerant) /\ tolerant.mode = "TOLERANT"
                  /\ IsParser(crlf) /\ crlf.mode = "TOLERANT"
                  /\ ~Oversized(tolerant) /\ ~Oversized(crlf) => Together(tolerant, crlf)
<1>1. Init => Inv
  <2> SUFFICES ASSUME Init PROVE Inv
    OBVIOUS
  <2>1. PICK frame \in Frames : /\ tolerant = Start("TOLERANT", frame)
                               /\ crlf = Start("TOLERANT", WithReturns(frame))
    BY Zenon DEF Init, Reads
  <2>2. Together(tolerant, crlf) /\ IsParser(crlf) /\ crlf.mode = "TOLERANT"
    BY <2>1, StartTogether, ReturnsTrimAlike
  <2>3. QED
    BY <2>2 DEF Together, Aligned
<1>2. Inv /\ [Next]_vars => Inv'
  <2> SUFFICES ASSUME Inv, [Next]_vars PROVE Inv'
    OBVIOUS
  <2> DEFINE t == tolerant
             c == crlf
             t2 == tolerant'
             c2 == crlf'
  <2>1. CASE UNCHANGED vars
    BY <2>1 DEF vars
  <2>2. CASE Next
    <3>1. /\ Step(t, t2) \/ (Stopped(t) /\ t2 = t)
          /\ Step(c, c2) \/ (Stopped(c) /\ c2 = c)
      BY <2>2 DEF Next
    <3> HIDE DEF t, c, t2, c2, Inv
    <3>2. /\ IsParser(t) /\ t.mode = "TOLERANT"
          /\ IsParser(c) /\ c.mode = "TOLERANT"
          /\ ~Oversized(t) /\ ~Oversized(c) => Together(t, c)
      BY DEF Inv, t, c
    <3>3. /\ IsParser(t2) /\ t2.mode = "TOLERANT" /\ t2.payload = t.payload
          /\ IsParser(c2) /\ c2.mode = "TOLERANT" /\ c2.payload = c.payload
      BY <3>1, <3>2, TolerantKeeps
    <3>4. ASSUME ~Oversized(t2), ~Oversized(c2) PROVE Together(t2, c2)
      <4>1. ~Oversized(t) /\ ~Oversized(c)
        BY <3>3, <3>4 DEF Oversized
      <4>2. Together(t, c)
        BY <3>2, <4>1
      <4>3. c.phase = t.phase
        BY <4>2, AlignedView DEF Together, Fields
      <4>4. CASE Stopped(t)
        <5>1. t2 = t /\ c2 = c
          BY <3>1, <4>3, <4>4, Guards DEF Stopped, Step
        <5>2. QED
          BY <4>2, <5>1
      <4>5. CASE ~Stopped(t)
        <5>1. Step(t, t2) /\ Step(c, c2)
          BY <3>1, <4>3, <4>5 DEF Stopped
        <5>2. QED
          BY <4>1, <4>2, <5>1, StepTogether
      <4>6. QED
        BY <4>4, <4>5
    <3>5. QED
      BY <3>3, <3>4 DEF Inv, t2, c2
  <2>3. QED
    BY <2>1, <2>2
<1>3. Inv => LineEndingsDoNotMatter
  BY DEF Together, Aligned, LineEndingsDoNotMatter
<1>4. QED
  BY <1>1, <1>2, <1>3, PTL DEF Spec

-----------------------------------------------------------------------------
\* Which statement a line went into.  Besides the property, the invariant says that
\* nothing was built before the body, that the statement at hand is one of its own
\* while lines are read and carries the flag its repaired lines call for, and that it
\* has no role line unless has_role is set, which makes the next one flush it.

StatementFields == {"role", "kvpairs", "tool_calls", "lines"}

IsBuilt(s) == s = [f \in StatementFields |-> s[f]]

Listed(list) == list \in Seq(Entries(list))

Pushes(p) == Entries(p.statements) \cup Entries(p.healed_draft)

RoleLinesIn(payload, lines) == {n \in lines : IsRoleLine(trim(payload[n]))}
ToolLinesIn(payload, lines) == {n \in lines : IsToolLine(trim(payload[n]))}

\* What a statement owes to the lines it was built from.
BuiltFromLines(payload, s) ==
    /\ IsBuilt(s) /\ Listed(s.tool_calls)
    /\ Cardinality(RoleLinesIn(payload, s.lines)) <= 1
    /\ s.role # <<>> => RoleLinesIn(payload, s.lines) # {}
    /\ Len(s.tool_calls) = Cardinality(ToolLinesIn(payload, s.lines))

RepairedIn(p) ==
    {d.line : d \in {d \in p.diagnostic : d.kind \in {"quote", "bracket", "duplicate"}}}

Shaped(p) ==
    /\ IsParser(p) /\ p.mode = "TOLERANT"
    /\ p.payload \in Seq(Text) /\ p.at \in 0..Len(p.payload)
    /\ Listed(p.statements) /\ Listed(p.healed_draft)
    /\ p.current_stmt_healed \in BOOLEAN /\ p.has_role \in BOOLEAN
    /\ p.phase \in {"start", "header"} =>
          Pushes(p) = {} /\ p.current_stmt = EmptyStatement /\ ~p.current_stmt_healed
    /\ p.phase = "start" => p.at = 0 /\ p.diagnostic = {}
    /\ p.phase \in {"header", "body"} => p.at >= 1

\* Where the lines went that were read so far.
Attributed(p) ==
    /\ \A s \in Pushes(p) \cup {p.current_stmt} :
          s.lines \subseteq 2..p.at /\ BuiltFromLines(p.payload, s)
    /\ \A s, t \in Pushes(p) \cup {p.current_stmt} : s = t \/ s.lines \cap t.lines = {}
    /\ \A n \in 2..p.at :
          IsBodyLine(p.payload, n) <=> \E s \in Pushes(p) \cup {p.current_stmt} : n \in s.lines

\* And their repairs.
Quarantined(p) ==
    /\ RepairedIn(p) \subseteq 0..p.at
    /\ \A s \in Entries(p.statements) : s.lines \cap RepairedIn(p) = {}
    /\ \A s \in Entries(p.healed_draft) : s.lines \cap RepairedIn(p) # {}

\* While lines are read, the statement at hand is one of its own.
AtHand(p) ==
    p.phase = "body" =>
        /\ p.current_stmt_healed <=> p.current_stmt.lines \cap RepairedIn(p) # {}
        /\ \A s \in Pushes(p) : s.lines \cap p.current_stmt.lines = {}
        /\ RoleLinesIn(p.payload, p.current_stmt.lines) # {} => p.has_role

\* While the header is read, the mark is behind the last line taken for it; the body
\* is entered at its first line.
Entered(p) ==
    /\ p.phase = "header" => p.mark = p.at
    /\ p.phase = "body" /\ MoreLines(p) => BehindHeader(p.payload, p.at + 1)

LinesInv(p) == Shaped(p) /\ Attributed(p) /\ Quarantined(p) /\ AtHand(p) /\ Entered(p)

\* A list grows by its new last entry.
LEMMA AppendedEntry ==
  ASSUME NEW list, Listed(list), NEW x
  PROVE  /\ Listed(Append(list, x))
         /\ Entries(Append(list, x)) = Entries(list) \cup {x}
         /\ Len(Append(list, x)) = Len(list) + 1 /\ Len(list) \in Nat
<1> DEFINE S == Entries(list) \cup {x}
           more == Append(list, x)
<1>1. list \in Seq(S) /\ x \in S
  BY DEF Listed
<1>2. /\ more \in Seq(S) /\ Len(more) = Len(list) + 1 /\ Len(list) \in Nat
      /\ DOMAIN more = 1..(Len(list) + 1) /\ DOMAIN list = 1..Len(list)
      /\ \A k \in 1..Len(list) : more[k] = list[k]
      /\ more[Len(list) + 1] = x
  BY <1>1
<1> HIDE DEF more
<1>3. Entries(more) = S
  <2>1. Entries(more) \subseteq S
    BY <1>2 DEF Entries
  <2>2. ASSUME NEW y \in Entries(list) PROVE y \in Entries(more)
    BY <1>2 DEF Entries
  <2>3. x \in Entries(more)
    BY <1>2 DEF Entries
  <2>4. QED
    BY <2>1, <2>2, <2>3
<1>4. QED
  BY <1>2, <1>3 DEF Listed, more

LEMMA NoEntries == Listed(<<>>) /\ Entries(<<>>) = {}
BY DEF Listed, Entries

\* A line is a role line or a tool line, not both.
LEMMA OneKindOfLine ==
  ASSUME NEW line
  PROVE  ~(IsRoleLine(line) /\ IsToolLine(line))
BY DEF IsRoleLine, IsToolLine

\* Lines before p.at + 1 keep what they are when line p.at + 1 is added.
LEMMA AddedLine ==
  ASSUME NEW payload, NEW at \in Nat, NEW lines, lines \subseteq 2..at
  PROVE  LET n     == at + 1
             roles == RoleLinesIn(payload, lines)
             tools == ToolLinesIn(payload, lines)
         IN  /\ RoleLinesIn(payload, lines \cup {n})
                  = IF IsRoleLine(trim(payload[n])) THEN roles \cup {n} ELSE roles
             /\ ToolLinesIn(payload, lines \cup {n})
                  = IF IsToolLine(trim(payload[n])) THEN tools \cup {n} ELSE tools
             /\ n \notin lines /\ n \notin roles /\ n \notin tools
             /\ IsFiniteSet(roles) /\ IsFiniteSet(tools)
             /\ Cardinality(roles \cup {n}) = Cardinality(roles) + 1
             /\ Cardinality(tools \cup {n}) = Cardinality(tools) + 1
             /\ Cardinality(roles) \in Nat /\ Cardinality(tools) \in Nat
<1> DEFINE n     == at + 1
           roles == RoleLinesIn(payload, lines)
           tools == ToolLinesIn(payload, lines)
<1>1. n \notin lines /\ roles \subseteq 2..at /\ tools \subseteq 2..at
  <2>1. n \notin lines
    OBVIOUS
  <2>2. roles \subseteq lines /\ tools \subseteq lines
    BY Zenon DEF RoleLinesIn, ToolLinesIn
  <2>3. QED
    BY <2>1, <2>2
<1>2. IsFiniteSet(2..at)
  BY FS_Interval
<1>3. IsFiniteSet(roles) /\ IsFiniteSet(tools)
  BY <1>1, <1>2, FS_Subset
<1>4. n \notin roles /\ n \notin tools
  BY <1>1
<1>5. /\ Cardinality(roles \cup {n}) = Cardinality(roles) + 1
      /\ Cardinality(tools \cup {n}) = Cardinality(tools) + 1
  BY <1>3, <1>4, FS_AddElement
<1>6. Cardinality(roles) \in Nat /\ Cardinality(tools) \in Nat
  BY <1>3, FS_CardinalityType
<1>7. RoleLinesIn(payload, lines \cup {n})
        = IF IsRoleLine(trim(payload[n])) THEN roles \cup {n} ELSE roles
  BY Zenon DEF RoleLinesIn
<1>8. ToolLinesIn(payload, lines \cup {n})
        = IF IsToolLine(trim(payload[n])) THEN tools \cup {n} ELSE tools
  BY Zenon DEF ToolLinesIn
<1>9. QED
  BY <1>1, <1>3, <1>4, <1>5, <1>6, <1>7, <1>8

LEMMA EmptyIsBuilt ==
  ASSUME NEW payload
  PROVE  BuiltFromLines(payload, EmptyStatement) /\ EmptyStatement.lines = {}
<1>1. /\ EmptyStatement.lines = {} /\ EmptyStatement.role = <<>>
      /\ EmptyStatement.tool_calls = <<>> /\ IsBuilt(EmptyStatement)
  BY DEF EmptyStatement, IsBuilt, StatementFields
<1>2. RoleLinesIn(payload, {}) = {} /\ ToolLinesIn(payload, {}) = {}
  BY Zenon DEF RoleLinesIn, ToolLinesIn
<1>3. Cardinality({}) = 0 /\ Len(<<>>) = 0
  BY FS_EmptySet
<1> DEFINE e == EmptyStatement
<1>4. /\ IsBuilt(e) /\ Listed(e.tool_calls) /\ e.role = <<>>
      /\ RoleLinesIn(payload, e.lines) = {}
      /\ ToolLinesIn(payload, e.lines) = {} /\ Len(e.tool_calls) = 0
  BY <1>1, <1>2, <1>3, NoEntries
<1> HIDE DEF e
<1>5. Cardinality(RoleLinesIn(payload, e.lines)) <= 1
  BY <1>3, <1>4
<1>6. BuiltFromLines(payload, e)
  BY <1>3, <1>4, <1>5, Zenon DEF BuiltFromLines
<1>7. QED
  BY <1>1, <1>6 DEF e

\* push_current_stmt(), as the only thing that changes what was pushed.
LEMMA PushedAttributes ==
  ASSUME NEW p, LinesInv(p), p.phase = "body", NEW q, q = Pushed(p)
  PROVE  /\ IsParser(q) /\ \A f \in Fields \ {"statements", "healed_draft", "recovery_attempted"} :
                               q[f] = p[f]
         /\ Listed(q.statements) /\ Listed(q.healed_draft)
         /\ Pushes(q) = Pushes(p) \cup {p.current_stmt}
         /\ Quarantined(q)
<1> DEFINE c == p.current_stmt
           longer == Append(p.statements, c)
           draft == Append(p.healed_draft, c)
<1>1. /\ IsParser(p) /\ Listed(p.statements) /\ Listed(p.healed_draft)
      /\ p.current_stmt_healed \in BOOLEAN
      /\ p.current_stmt_healed <=> c.lines \cap RepairedIn(p) # {}
  BY DEF LinesInv, Shaped, AtHand
<1>2. /\ Listed(longer) /\ Entries(longer) = Entries(p.statements) \cup {c}
      /\ Listed(draft) /\ Entries(draft) = Entries(p.healed_draft) \cup {c}
  BY <1>1, AppendedEntry
<1>3. \/ p.current_stmt_healed /\ q = [p EXCEPT !.healed_draft = draft, !.recovery_attempted = TRUE]
      \/ ~p.current_stmt_healed /\ q = [p EXCEPT !.statements = longer]
  BY Zenon DEF Pushed
<1> HIDE DEF longer, draft, c
<1>4. CASE p.current_stmt_healed /\ q = [p EXCEPT !.healed_draft = draft, !.recovery_attempted = TRUE]
  <2>1. /\ IsParser(q) /\ q.healed_draft = draft
        /\ \A f \in Fields \ {"healed_draft", "recovery_attempted"} : q[f] = p[f]
    BY <1>1, <1>4 DEF IsParser, Fields
  <2>2. q.statements = p.statements /\ q.diagnostic = p.diagnostic /\ q.at = p.at
    BY <2>1 DEF Fields
  <2>3. Pushes(q) = Pushes(p) \cup {c}
    BY <1>2, <2>1, <2>2 DEF Pushes
  <2>4. RepairedIn(q) = RepairedIn(p)
    BY <2>2 DEF RepairedIn
  <2>5. Quarantined(q)
    BY <1>1, <1>2, <1>4, <2>1, <2>2, <2>4 DEF Quarantined, LinesInv
  <2>6. QED
    BY <1>1, <1>2, <2>1, <2>2, <2>3, <2>5 DEF c
<1>5. CASE ~p.current_stmt_healed /\ q = [p EXCEPT !.statements = longer]
  <2>1. /\ IsParser(q) /\ q.statements = longer
        /\ \A f \in Fields \ {"statements"} : q[f] = p[f]
    BY <1>1, <1>5 DEF IsParser, Fields
  <2>2. q.healed_draft = p.healed_draft /\ q.diagnostic = p.diagnostic /\ q.at = p.at
    BY <2>1 DEF Fields
  <2>3. Pushes(q) = Pushes(p) \cup {c}
    BY <1>2, <2>1, <2>2 DEF Pushes
  <2>4. RepairedIn(q) = RepairedIn(p)
    BY <2>2 DEF RepairedIn
  <2>5. Quarantined(q)
    BY <1>1, <1>2, <1>5, <2>1, <2>2, <2>4 DEF Quarantined, LinesInv
  <2>6. QED
    BY <1>1, <1>2, <2>1, <2>2, <2>3, <2>5 DEF c
<1>6. QED
  BY <1>3, <1>4, <1>5
LEMMA FlushedAttributes ==
  ASSUME NEW p, LinesInv(p), p.phase = "body", NEW q, q = Flushed(p)
  PROVE  /\ LinesInv(q) /\ q.phase = "body" /\ q.at = p.at /\ q.payload = p.payload
         /\ RoleLinesIn(q.payload, q.current_stmt.lines) = {}
         /\ q.diagnostic = p.diagnostic
<1> DEFINE c == p.current_stmt
           fresh == EmptyStatement
           r == Pushed(p)
<1>1. CASE HasStatement(p)
  <2>1. q = [r EXCEPT !.current_stmt = fresh, !.current_stmt_healed = FALSE]
    BY <1>1, Zenon DEF Flushed
  <2>2. /\ IsParser(r)
        /\ \A f \in Fields \ {"statements", "healed_draft", "recovery_attempted"} : r[f] = p[f]
        /\ Listed(r.statements) /\ Listed(r.healed_draft)
        /\ Pushes(r) = Pushes(p) \cup {c}
        /\ Quarantined(r)
    BY PushedAttributes
  <2> HIDE DEF r, fresh, c
  <2>3. /\ IsParser(q) /\ q.current_stmt = fresh /\ q.current_stmt_healed = FALSE
        /\ \A f \in Fields \ {"current_stmt", "current_stmt_healed"} : q[f] = r[f]
    BY <2>1, <2>2 DEF IsParser, Fields
  <2>4. /\ q.mode = p.mode /\ q.payload = p.payload /\ q.at = p.at /\ q.phase = p.phase
        /\ q.mark = p.mark /\ q.diagnostic = p.diagnostic /\ q.diagnostic = r.diagnostic /\ q.at = r.at
        /\ q.has_role = p.has_role
        /\ q.statements = r.statements /\ q.healed_draft = r.healed_draft
    BY <2>2, <2>3 DEF Fields
  <2>5. Pushes(q) = Pushes(p) \cup {c}
    BY <2>2, <2>4 DEF Pushes
  <2>6. fresh.lines = {} /\ BuiltFromLines(p.payload, fresh)
    BY EmptyIsBuilt DEF fresh
  <2>7. Shaped(q)
    BY <2>2, <2>3, <2>4 DEF LinesInv, Shaped
  <2>8. Attributed(q)
    <3>1. \A s \in Pushes(p) \cup {c} : s.lines \subseteq 2..p.at /\ BuiltFromLines(p.payload, s)
      BY DEF LinesInv, Attributed, c
    <3>2. \A s, t \in Pushes(p) \cup {c} : s = t \/ s.lines \cap t.lines = {}
      BY DEF LinesInv, Attributed, c
    <3>3. \A n \in 2..p.at :
            IsBodyLine(p.payload, n) <=> \E s \in Pushes(p) \cup {c} : n \in s.lines
      BY Zenon DEF LinesInv, Attributed, c
    <3>4. \A s \in Pushes(q) \cup {q.current_stmt} : s \in Pushes(p) \cup {c} \/ s = fresh
      BY <2>3, <2>5
    <3>5. \A s \in Pushes(q) \cup {q.current_stmt} :
            s.lines \subseteq 2..q.at /\ BuiltFromLines(q.payload, s)
      BY <2>4, <2>6, <3>1, <3>4
    <3>6. \A s, t \in Pushes(q) \cup {q.current_stmt} : s = t \/ s.lines \cap t.lines = {}
      BY <2>6, <3>2, <3>4
    <3>7. \A n \in 2..q.at : IsBodyLine(q.payload, n) <=>
                              \E s \in Pushes(q) \cup {q.current_stmt} : n \in s.lines
      <4>1. Pushes(p) \cup {c} \subseteq Pushes(q) \cup {q.current_stmt}
        BY <2>5
      <4>2. \A n : (\E s \in Pushes(q) \cup {q.current_stmt} : n \in s.lines)
                  <=> \E s \in Pushes(p) \cup {c} : n \in s.lines
        BY <2>6, <3>4, <4>1
      <4>3. QED
        BY <2>4, <3>3, <4>2
    <3>8. QED
      BY <3>5, <3>6, <3>7, Zenon DEF Attributed
  <2>9. Quarantined(q)
    <3>1. RepairedIn(q) = RepairedIn(r)
      BY <2>4 DEF RepairedIn
    <3>2. QED
      BY <2>2, <2>4, <3>1 DEF Quarantined
  <2>10. RoleLinesIn(q.payload, q.current_stmt.lines) = {}
    BY <2>3, <2>6, Zenon DEF RoleLinesIn
  <2>11. AtHand(q)
    BY <2>3, <2>6, <2>10 DEF AtHand
  <2>12. Entered(q)
    BY <2>4 DEF LinesInv, Entered, MoreLines
  <2>13. QED
    BY <2>4, <2>7, <2>8, <2>9, <2>10, <2>11, <2>12 DEF LinesInv
<1>2. CASE ~HasStatement(p)
  <2>1. q = p
    BY <1>2, Zenon DEF Flushed
  <2>2. ~p.has_role
    BY <1>2 DEF HasStatement
  <2>3. RoleLinesIn(p.payload, p.current_stmt.lines) = {}
    BY <2>2 DEF LinesInv, AtHand
  <2>4. QED
    BY <2>1, <2>3
<1>3. QED
  BY <1>1, <1>2

\* What lies behind the header stays behind it.
LEMMA BehindGrows ==
  ASSUME NEW payload, NEW m \in Nat, NEW n \in Nat, m <= n, BehindHeader(payload, m)
  PROVE  BehindHeader(payload, n)
<1>1. 2..m \subseteq 2..n
  OBVIOUS
<1>2. QED
  BY <1>1, Zenon DEF BehindHeader

WithStatement(p, stmt, role) == [p EXCEPT !.current_stmt = stmt, !.has_role = role]

WithLine(stmt, n) == [stmt EXCEPT !.lines = @ \cup {n}]

\* p has read its next line into the statement s and noted the errors on it.
ReadInto(p, s, role, errors) ==
    [p EXCEPT !.at = @ + 1, !.current_stmt = s, !.has_role = role,
              !.current_stmt_healed = @ \/ Heals(errors),
              !.diagnostic = @ \cup {[line |-> p.at + 1, kind |-> e] : e \in errors}]

\* The line behind p is read into the statement s, which was p's current one but for
\* its contents, and the errors on that line are noted; it is the line's statement from
\* then on.
LEMMA ChargedLine ==
  ASSUME NEW p, LinesInv(p), p.phase = "body", MoreLines(p), Probe(p) # <<>>,
         NEW s, s.lines = p.current_stmt.lines \cup {p.at + 1}, BuiltFromLines(p.payload, s),
         NEW role \in BOOLEAN, p.has_role \/ IsRoleLine(Probe(p)) => role,
         NEW errors,
         NEW q, q = ReadInto(p, s, role, errors)
  PROVE  LinesInv(q)
<1> DEFINE n == p.at + 1
           c == p.current_stmt
           noted == {[line |-> n, kind |-> e] : e \in errors}
           healed == p.current_stmt_healed \/ Heals(errors)
<1>1. /\ IsParser(p) /\ p.mode = "TOLERANT"
      /\ p.payload \in Seq(Text) /\ p.at \in 0..Len(p.payload)
      /\ Listed(p.statements) /\ Listed(p.healed_draft)
      /\ p.current_stmt_healed \in BOOLEAN
  BY DEF LinesInv, Shaped
<1>2. n \in 0..Len(p.payload) /\ n - 1 = p.at /\ p.at \in Nat
  BY <1>1 DEF MoreLines
<1>3. q = [p EXCEPT !.at = n, !.current_stmt = s, !.has_role = role,
                    !.current_stmt_healed = healed, !.diagnostic = p.diagnostic \cup noted]
  BY DEF ReadInto
<1>4. /\ p.at >= 1
      /\ p.current_stmt_healed <=> c.lines \cap RepairedIn(p) # {}
      /\ \A t \in Pushes(p) : t.lines \cap c.lines = {}
      /\ RoleLinesIn(p.payload, c.lines) # {} => p.has_role
  BY DEF LinesInv, Shaped, AtHand
<1>5. healed \in BOOLEAN
  BY <1>1 DEF Heals
<1>6. c.lines \subseteq 2..p.at
  BY DEF LinesInv, Attributed
<1>7. s.lines = c.lines \cup {n}
  OBVIOUS
<1> HIDE DEF n, noted, healed, c
<1>8. /\ IsParser(q) /\ q.at = n /\ q.current_stmt = s /\ q.has_role = role
      /\ q.current_stmt_healed = healed /\ q.diagnostic = p.diagnostic \cup noted
      /\ q.mode = p.mode /\ q.payload = p.payload /\ q.phase = p.phase
      /\ q.statements = p.statements /\ q.healed_draft = p.healed_draft
  BY <1>1, <1>3 DEF IsParser, Fields
<1>9. Pushes(q) = Pushes(p)
  BY <1>8 DEF Pushes
<1>10. RepairedIn(q) = RepairedIn(p) \cup (IF Heals(errors) THEN {n} ELSE {})
  <2> DEFINE kinds == {"quote", "bracket", "duplicate"}
  <2>1. Heals(errors) <=> \E e \in errors : e \in kinds
    BY DEF Heals
  <2> HIDE DEF kinds
  <2>2. {d.line : d \in {d \in noted : d.kind \in kinds}} = IF Heals(errors) THEN {n} ELSE {}
    <3>1. \A d \in noted : d.line = n /\ d.kind \in errors
      BY DEF noted
    <3>2. \A e \in errors : \E d \in noted : d.kind = e
      <4> TAKE e \in errors
      <4>1. [line |-> n, kind |-> e] \in noted /\ [line |-> n, kind |-> e].kind = e
        BY DEF noted
      <4>2. QED
        BY <4>1
    <3>3. QED
      BY <2>1, <3>1, <3>2
  <2>3. QED
    BY <1>8, <2>2 DEF RepairedIn, kinds
<1>11. \A t \in Pushes(p) : t.lines \subseteq 2..p.at /\ BuiltFromLines(p.payload, t)
  BY DEF LinesInv, Attributed
<1>12. \A t \in Pushes(p) : n \notin t.lines
  BY <1>2, <1>11
<1>13. n \notin c.lines /\ n \notin RepairedIn(p) /\ RepairedIn(p) \subseteq 0..p.at
  BY <1>2, <1>6 DEF LinesInv, Quarantined
<1>14. Shaped(q)
  <2>1. /\ q.phase = "body" /\ q.at >= 1 /\ q.current_stmt_healed \in BOOLEAN
        /\ q.has_role \in BOOLEAN
    BY <1>2, <1>4, <1>5, <1>8
  <2>2. /\ IsParser(q) /\ q.mode = "TOLERANT" /\ q.payload \in Seq(Text)
        /\ Listed(q.statements) /\ Listed(q.healed_draft) /\ q.at \in 0..Len(q.payload)
    BY <1>1, <1>2, <1>8
  <2>3. QED
    BY <2>1, <2>2 DEF Shaped
<1>15. Attributed(q)
  <2>1. \A t \in Pushes(q) \cup {q.current_stmt} :
            t.lines \subseteq 2..q.at /\ BuiltFromLines(q.payload, t)
    BY <1>2, <1>4, <1>6, <1>7, <1>8, <1>9, <1>11 DEF n
  <2>2. \A t \in Pushes(p) : t.lines \cap s.lines = {}
    BY <1>4, <1>7, <1>12
  <2>3. \A t, u \in Pushes(p) : t = u \/ t.lines \cap u.lines = {}
    BY DEF LinesInv, Attributed
  <2>4. \A t, u \in Pushes(q) \cup {q.current_stmt} : t = u \/ t.lines \cap u.lines = {}
    BY <1>8, <1>9, <2>2, <2>3
  <2>5. \A m \in 2..q.at : IsBodyLine(q.payload, m) <=>
                            \E t \in Pushes(q) \cup {q.current_stmt} : m \in t.lines
    <3>1. \A m \in 2..p.at :
            IsBodyLine(p.payload, m) <=> \E t \in Pushes(p) \cup {c} : m \in t.lines
      BY Zenon DEF LinesInv, Attributed, c
    <3>2. \A m \in 2..q.at : (m \in 2..p.at /\ m # n) \/ m = n
      BY <1>2, <1>8
    <3>3. \A m : m # n => ((\E t \in Pushes(q) \cup {q.current_stmt} : m \in t.lines)
                             <=> \E t \in Pushes(p) \cup {c} : m \in t.lines)
      BY <1>7, <1>8, <1>9
    <3>4. n \in q.current_stmt.lines
      BY <1>7, <1>8
    <3>5. q.payload = p.payload
      BY <1>8
    <3>6. IsBodyLine(p.payload, n)
      <4>1. BehindHeader(p.payload, n)
        BY Zenon DEF LinesInv, Entered, n
      <4>2. trim(p.payload[n]) # <<>>
        BY Zenon DEF Probe, n
      <4>3. QED
        BY <4>1, <4>2, Zenon DEF IsBodyLine
    <3>7. QED
      BY <3>1, <3>2, <3>3, <3>4, <3>5, <3>6
  <2>6. QED
    BY <2>1, <2>4, <2>5, Zenon DEF Attributed
<1>16. Quarantined(q)
  <2>1. RepairedIn(q) \subseteq 0..q.at
    <3>1. 0..p.at \subseteq 0..n /\ n \in 0..n
      BY <1>2
    <3>2. QED
      BY <1>8, <1>10, <1>13, <3>1
  <2>2. \A t \in Pushes(p) : t.lines \cap RepairedIn(q) = t.lines \cap RepairedIn(p)
    BY <1>10, <1>12
  <2>3. /\ \A t \in Entries(p.statements) : t.lines \cap RepairedIn(p) = {}
        /\ \A t \in Entries(p.healed_draft) : t.lines \cap RepairedIn(p) # {}
    BY DEF LinesInv, Quarantined
  <2>4. QED
    BY <1>8, <2>1, <2>2, <2>3 DEF Quarantined, Pushes
<1>17. AtHand(q)
  <2>1. q.current_stmt_healed <=> q.current_stmt.lines \cap RepairedIn(q) # {}
    <3>1. s.lines \cap RepairedIn(q) = (c.lines \cap RepairedIn(p))
                                        \cup (IF Heals(errors) THEN {n} ELSE {})
      BY <1>7, <1>10, <1>13
    <3>2. healed <=> s.lines \cap RepairedIn(q) # {}
      BY <1>4, <3>1 DEF healed
    <3>3. QED
      BY <1>8, <3>2
  <2>2. \A t \in Pushes(q) : t.lines \cap q.current_stmt.lines = {}
    BY <1>4, <1>7, <1>8, <1>9, <1>12
  <2>3. RoleLinesIn(q.payload, q.current_stmt.lines) # {} => q.has_role
    <3>1. RoleLinesIn(q.payload, q.current_stmt.lines)
            = IF IsRoleLine(trim(p.payload[n])) THEN RoleLinesIn(p.payload, c.lines) \cup {n}
                                                ELSE RoleLinesIn(p.payload, c.lines)
      <4>1. RoleLinesIn(p.payload, c.lines \cup {p.at + 1})
              = IF IsRoleLine(trim(p.payload[p.at + 1]))
                THEN RoleLinesIn(p.payload, c.lines) \cup {p.at + 1}
                ELSE RoleLinesIn(p.payload, c.lines)
        BY <1>2, <1>6, AddedLine
      <4>2. QED
        BY <1>7, <1>8, <4>1 DEF n
    <3>2. Probe(p) = trim(p.payload[n])
      BY Zenon DEF Probe, n
    <3>3. QED
      BY <1>4, <1>8, <3>1, <3>2
  <2>4. QED
    BY <2>1, <2>2, <2>3 DEF AtHand
<1>18. Entered(q)
  <2> SUFFICES ASSUME MoreLines(q) PROVE BehindHeader(p.payload, n + 1)
    BY <1>8 DEF Entered
  <2>1. BehindHeader(p.payload, n)
    BY Zenon DEF LinesInv, Entered, n
  <2>2. n \in Nat /\ n + 1 \in Nat /\ n <= n + 1
    BY <1>2
  <2>3. QED
    BY <2>1, <2>2, BehindGrows
<1>19. QED
  BY <1>14, <1>15, <1>16, <1>17, <1>18 DEF LinesInv

\* What the three actions that read a line of the body do, as ChargedLine states it.
LEMMA ChargedForm ==
  ASSUME NEW t, t.mode = "TOLERANT", NEW p, IsParser(p), p.mode = "TOLERANT",
         NEW stmt, IsBuilt(stmt), NEW role, NEW errors,
         NEW q, q = Reporting(t, Charged(WithStatement(p, stmt, role), errors), errors)
  PROVE  q = ReadInto(p, WithLine(stmt, p.at + 1), role, errors)
<1> DEFINE n == p.at + 1
           r == [p EXCEPT !.current_stmt = stmt, !.has_role = role]
           heals == Heals(errors)
           c == [r EXCEPT !.at = n, !.current_stmt.lines = @ \cup {n},
                          !.current_stmt_healed = @ \/ heals]
           noted == {[line |-> n, kind |-> e] : e \in errors}
           s == WithLine(stmt, n)
<1>1. r.at = p.at /\ IsParser(r) /\ r.mode = "TOLERANT"
  BY DEF IsParser, Fields
<1>2. c = Charged(r, errors)
  BY <1>1, Zenon DEF Charged, WithStatement
<1>3. c.at = n
  BY <1>1 DEF IsParser, Fields
<1>4. q = Reporting(t, c, errors)
  BY <1>2, Zenon DEF WithStatement
<1>5. q = [c EXCEPT !.diagnostic = @ \cup noted]
  <2> HIDE DEF c
  <2>1. q = [c EXCEPT !.diagnostic = @ \cup {[line |-> c.at, kind |-> e] : e \in errors}]
    BY <1>4 DEF Reporting
  <2>2. QED
    BY <1>3, <2>1
<1> HIDE DEF noted, heals, n
<1>6. q = [p EXCEPT !.at = n, !.current_stmt = s, !.has_role = role,
                    !.current_stmt_healed = @ \/ heals, !.diagnostic = @ \cup noted]
  BY <1>5 DEF IsParser, Fields, IsBuilt, StatementFields, WithLine
<1>7. QED
  BY <1>6 DEF n, noted, heals, ReadInto

LEMMA ReadRoleAttributes ==
  ASSUME NEW p, LinesInv(p), NEW q, ReadRole(p, q)
  PROVE  LinesInv(q)
<1> DEFINE r == Flushed(p)
           n == p.at + 1
           line == Probe(p)
           stmt == WithRole(r.current_stmt, line)
           errors == RoleErrors(r.current_stmt, line)
           s == WithLine(stmt, n)
           yes == TRUE
<1>1. p.phase = "body" /\ MoreLines(p) /\ IsRoleLine(line)
  BY Guards
<1>2. q = Reporting(p, Charged(WithStatement(r, stmt, yes), errors), errors)
  BY Zenon DEF ReadRole, WithStatement
<1>3. /\ LinesInv(r) /\ r.phase = "body" /\ r.at = p.at /\ r.payload = p.payload
      /\ RoleLinesIn(r.payload, r.current_stmt.lines) = {}
  BY <1>1, FlushedAttributes
<1>4. Probe(r) = line /\ MoreLines(r) /\ line # <<>>
  BY <1>1, <1>3 DEF Probe, MoreLines, IsRoleLine
<1> DEFINE c == r.current_stmt
<1> HIDE DEF r
<1>5. /\ IsParser(p) /\ p.mode = "TOLERANT" /\ IsParser(r) /\ r.mode = "TOLERANT" /\ r.at \in Nat
      /\ c.lines \subseteq 2..r.at /\ BuiltFromLines(r.payload, c)
  BY <1>3 DEF LinesInv, Shaped, Attributed
<1>6. /\ IsBuilt(stmt) /\ stmt.lines = c.lines /\ stmt.tool_calls = c.tool_calls
  <2> DEFINE name == stmt.role
             pairs == stmt.kvpairs
  <2>1. \E x, y : stmt = [c EXCEPT !.role = x, !.kvpairs = y]
    BY Zenon DEF WithRole
  <2> HIDE DEF stmt
  <2>2. QED
    BY <1>5, <2>1 DEF BuiltFromLines, IsBuilt, StatementFields
<1> HIDE DEF stmt, errors, line, yes
<1>7. IsBuilt(s) /\ s.lines = c.lines \cup {n} /\ s.tool_calls = c.tool_calls
  BY <1>6 DEF IsBuilt, StatementFields, WithLine
<1>8. BuiltFromLines(r.payload, s)
  <2>1. trim(r.payload[n]) = line
    BY <1>3, <1>4, Zenon DEF Probe
  <2>2. ~IsToolLine(line)
    BY <1>1, OneKindOfLine
  <2>3. /\ RoleLinesIn(r.payload, c.lines \cup {n}) = {n}
        /\ ToolLinesIn(r.payload, c.lines \cup {n}) = ToolLinesIn(r.payload, c.lines)
    <3>1. /\ RoleLinesIn(r.payload, c.lines \cup {n})
                = IF IsRoleLine(trim(r.payload[n])) THEN RoleLinesIn(r.payload, c.lines) \cup {n}
                                                    ELSE RoleLinesIn(r.payload, c.lines)
          /\ ToolLinesIn(r.payload, c.lines \cup {n})
                = IF IsToolLine(trim(r.payload[n])) THEN ToolLinesIn(r.payload, c.lines) \cup {n}
                                                    ELSE ToolLinesIn(r.payload, c.lines)
      <4>1. n = r.at + 1
        BY <1>3
      <4> HIDE DEF n, c
      <4>2. /\ RoleLinesIn(r.payload, c.lines \cup {r.at + 1})
                  = IF IsRoleLine(trim(r.payload[r.at + 1]))
                    THEN RoleLinesIn(r.payload, c.lines) \cup {r.at + 1}
                    ELSE RoleLinesIn(r.payload, c.lines)
            /\ ToolLinesIn(r.payload, c.lines \cup {r.at + 1})
                  = IF IsToolLine(trim(r.payload[r.at + 1]))
                    THEN ToolLinesIn(r.payload, c.lines) \cup {r.at + 1}
                    ELSE ToolLinesIn(r.payload, c.lines)
        BY <1>5, AddedLine
      <4>3. QED
        BY <4>1, <4>2
    <3>2. QED
      BY <1>1, <1>3, <2>1, <2>2, <3>1
  <2>4. Cardinality({n}) = 1
    BY FS_Singleton
  <2>5. QED
    <3>1. /\ Listed(c.tool_calls)
          /\ Len(c.tool_calls) = Cardinality(ToolLinesIn(r.payload, c.lines))
      BY <1>5 DEF BuiltFromLines
    <3> HIDE DEF s, c, n
    <3>2. /\ Cardinality(RoleLinesIn(r.payload, s.lines)) <= 1
          /\ RoleLinesIn(r.payload, s.lines) # {}
          /\ Len(s.tool_calls) = Cardinality(ToolLinesIn(r.payload, s.lines))
      <4>1. RoleLinesIn(r.payload, s.lines) = {n}
        BY <1>7, <2>3
      <4>2. Cardinality({n}) <= 1 /\ {n} # {}
        BY <2>4
      <4>3. QED
        BY <1>7, <2>3, <3>1, <4>1, <4>2
    <3>3. QED
      BY <1>7, <3>1, <3>2 DEF BuiltFromLines
<1>9. q = ReadInto(r, s, yes, errors)
  <2>1. n = r.at + 1
    BY <1>3
  <2>2. q = ReadInto(r, WithLine(stmt, r.at + 1), yes, errors)
    BY <1>2, <1>5, <1>6, ChargedForm
  <2> HIDE DEF n
  <2>3. QED
    BY <2>1, <2>2
<1> HIDE DEF s, c, n
<1>10. s.lines = r.current_stmt.lines \cup {r.at + 1}
  BY <1>3, <1>7 DEF c, n
<1>11. yes \in BOOLEAN /\ yes
  BY DEF yes
<1>12. QED
  BY <1>3, <1>4, <1>8, <1>9, <1>10, <1>11, ChargedLine

LEMMA ReadToolAttributes ==
  ASSUME NEW p, LinesInv(p), NEW q, ReadTool(p, q)
  PROVE  LinesInv(q)
<1> DEFINE n == p.at + 1
           line == Probe(p)
           tool == parseToolCall(Requoted(line))
           errors == QuoteError(line) \cup tool.errors
           c == p.current_stmt
           stmt == [c EXCEPT !.tool_calls = Append(@, tool.call)]
           s == WithLine(stmt, n)
<1>1. p.phase = "body" /\ MoreLines(p) /\ IsToolLine(line)
  BY Guards
<1>2. q = Reporting(p, Charged([p EXCEPT !.current_stmt.tool_calls = Append(@, tool.call)], errors),
                    errors)
  BY Zenon DEF ReadTool
<1>3. /\ IsParser(p) /\ p.mode = "TOLERANT" /\ p.at \in Nat
      /\ c.lines \subseteq 2..p.at /\ BuiltFromLines(p.payload, c)
  BY DEF LinesInv, Shaped, Attributed
<1> HIDE DEF tool, errors, line
<1>4. /\ IsBuilt(c) /\ Listed(c.tool_calls)
  BY <1>3 DEF BuiltFromLines
<1> DEFINE calls == Append(c.tool_calls, tool.call)
<1>5. Listed(calls) /\ Len(calls) = Len(c.tool_calls) + 1 /\ Len(c.tool_calls) \in Nat
  BY <1>4, AppendedEntry
<1>6. IsBuilt(stmt) /\ stmt.lines = c.lines /\ stmt.tool_calls = calls /\ stmt.role = c.role
  <2> HIDE DEF calls
  <2>1. stmt = [c EXCEPT !.tool_calls = calls]
    BY DEF calls
  <2>2. QED
    BY <1>4, <2>1 DEF IsBuilt, StatementFields
<1>7. [p EXCEPT !.current_stmt.tool_calls = Append(@, tool.call)]
        = [p EXCEPT !.current_stmt = stmt, !.has_role = p.has_role]
  BY <1>3 DEF IsParser, Fields
<1> HIDE DEF stmt, calls
<1>8. /\ IsBuilt(s) /\ s.lines = c.lines \cup {n} /\ s.tool_calls = calls /\ s.role = c.role
  BY <1>6 DEF IsBuilt, StatementFields, WithLine
<1>9. BuiltFromLines(p.payload, s)
  <2>1. trim(p.payload[n]) = line
    BY Zenon DEF Probe, line
  <2>2. ~IsRoleLine(line)
    BY <1>1, OneKindOfLine
  <2> DEFINE tools == ToolLinesIn(p.payload, c.lines)
  <2>3. /\ RoleLinesIn(p.payload, c.lines \cup {n}) = RoleLinesIn(p.payload, c.lines)
        /\ ToolLinesIn(p.payload, c.lines \cup {n}) = tools \cup {n}
        /\ Cardinality(tools \cup {n}) = Cardinality(tools) + 1
    <3>1. /\ RoleLinesIn(p.payload, c.lines \cup {n})
                = IF IsRoleLine(trim(p.payload[n])) THEN RoleLinesIn(p.payload, c.lines) \cup {n}
                                                    ELSE RoleLinesIn(p.payload, c.lines)
          /\ ToolLinesIn(p.payload, c.lines \cup {n})
                = IF IsToolLine(trim(p.payload[n])) THEN tools \cup {n} ELSE tools
          /\ Cardinality(tools \cup {n}) = Cardinality(tools) + 1
      BY <1>3, AddedLine
    <3>2. QED
      BY <1>1, <2>1, <2>2, <3>1
  <2>4. QED
    BY <1>3, <1>5, <1>8, <2>3 DEF BuiltFromLines
<1>10. q = ReadInto(p, s, p.has_role, errors)
  <2>1. q = Reporting(p, Charged(WithStatement(p, stmt, p.has_role), errors), errors)
    BY <1>2, <1>7 DEF WithStatement
  <2> HIDE DEF c
  <2>2. QED
    BY <1>3, <1>6, <2>1, ChargedForm
<1>11. /\ s.lines = p.current_stmt.lines \cup {p.at + 1}
       /\ p.has_role \in BOOLEAN /\ (p.has_role \/ IsRoleLine(Probe(p)) => p.has_role)
       /\ Probe(p) # <<>>
  BY <1>1, <1>8, OneKindOfLine DEF LinesInv, Shaped, line, IsToolLine
<1> HIDE DEF s, c, n
<1>12. QED
  BY <1>1, <1>9, <1>10, <1>11, ChargedLine

LEMMA ReadPairsAttributes ==
  ASSUME NEW p, LinesInv(p), NEW q, ReadPairs(p, q)
  PROVE  LinesInv(q)
<1> DEFINE n == p.at + 1
           line == Probe(p)
           c == p.current_stmt
           pairs == parseKVPairs(Requoted(line), c.kvpairs)
           errors == QuoteError(line) \cup pairs.errors
           stmt == [c EXCEPT !.kvpairs = pairs.pairs]
           s == WithLine(stmt, n)
<1>1. p.phase = "body" /\ MoreLines(p) /\ ~IsRoleLine(line) /\ ~IsToolLine(line) /\ line # <<>>
  BY Guards
<1>2. q = Reporting(p, Charged([p EXCEPT !.current_stmt.kvpairs = pairs.pairs], errors), errors)
  BY Zenon DEF ReadPairs
<1>3. /\ IsParser(p) /\ p.mode = "TOLERANT" /\ p.at \in Nat
      /\ c.lines \subseteq 2..p.at /\ BuiltFromLines(p.payload, c)
  BY DEF LinesInv, Shaped, Attributed
<1> HIDE DEF pairs, errors, line
<1>4. /\ IsBuilt(c)
  BY <1>3 DEF BuiltFromLines
<1>6. IsBuilt(stmt) /\ stmt.lines = c.lines /\ stmt.tool_calls = c.tool_calls /\ stmt.role = c.role
  BY <1>4 DEF IsBuilt, StatementFields
<1>7. [p EXCEPT !.current_stmt.kvpairs = pairs.pairs]
        = [p EXCEPT !.current_stmt = stmt, !.has_role = p.has_role]
  BY <1>3 DEF IsParser, Fields
<1> HIDE DEF stmt
<1>8. /\ IsBuilt(s) /\ s.lines = c.lines \cup {n} /\ s.tool_calls = c.tool_calls /\ s.role = c.role
  BY <1>6 DEF IsBuilt, StatementFields, WithLine
<1>9. BuiltFromLines(p.payload, s)
  <2>1. trim(p.payload[n]) = line
    BY Zenon DEF Probe, line
  <2>3. /\ RoleLinesIn(p.payload, c.lines \cup {n}) = RoleLinesIn(p.payload, c.lines)
        /\ ToolLinesIn(p.payload, c.lines \cup {n}) = ToolLinesIn(p.payload, c.lines)
    <3>1. /\ RoleLinesIn(p.payload, c.lines \cup {n})
                = IF IsRoleLine(trim(p.payload[n])) THEN RoleLinesIn(p.payload, c.lines) \cup {n}
                                                    ELSE RoleLinesIn(p.payload, c.lines)
          /\ ToolLinesIn(p.payload, c.lines \cup {n})
                = IF IsToolLine(trim(p.payload[n])) THEN ToolLinesIn(p.payload, c.lines) \cup {n}
                                                    ELSE ToolLinesIn(p.payload, c.lines)
      BY <1>3, AddedLine
    <3>2. QED
      BY <1>1, <2>1, <3>1
  <2>4. QED
    BY <1>3, <1>8, <2>3 DEF BuiltFromLines
<1>10. q = ReadInto(p, s, p.has_role, errors)
  <2>1. q = Reporting(p, Charged(WithStatement(p, stmt, p.has_role), errors), errors)
    BY <1>2, <1>7 DEF WithStatement
  <2> HIDE DEF c
  <2>2. QED
    BY <1>3, <1>6, <2>1, ChargedForm
<1>11. /\ s.lines = p.current_stmt.lines \cup {p.at + 1}
       /\ p.has_role \in BOOLEAN /\ (p.has_role \/ IsRoleLine(Probe(p)) => p.has_role)
       /\ Probe(p) # <<>>
  BY <1>1, <1>8 DEF LinesInv, Shaped, line
<1> HIDE DEF s, c, n
<1>12. QED
  BY <1>1, <1>9, <1>10, <1>11, ChargedLine

LEMMA FinishAttributes ==
  ASSUME NEW p, LinesInv(p), NEW q, Finish(p, q)
  PROVE  LinesInv(q)
<1> DEFINE r == IF HasStatement(p) THEN Pushed(p) ELSE p
           c == p.current_stmt
<1>1. p.phase = "body" /\ q = [r EXCEPT !.phase = "done"]
  BY Zenon DEF Finish
<1>2. /\ IsParser(p) /\ p.mode = "TOLERANT" /\ p.payload \in Seq(Text) /\ p.at \in 0..Len(p.payload)
      /\ Listed(p.statements) /\ Listed(p.healed_draft)
      /\ p.current_stmt_healed \in BOOLEAN /\ p.has_role \in BOOLEAN
      /\ Quarantined(p)
  BY DEF LinesInv, Shaped
<1>3. /\ IsParser(r)
      /\ \A f \in Fields \ {"statements", "healed_draft", "recovery_attempted"} : r[f] = p[f]
      /\ Listed(r.statements) /\ Listed(r.healed_draft)
      /\ Pushes(r) \cup {c} = Pushes(p) \cup {c}
      /\ Quarantined(r)
  BY <1>1, <1>2, PushedAttributes
<1> HIDE DEF r, c
<1>4. /\ IsParser(q) /\ q.phase = "done" /\ \A f \in Fields \ {"phase"} : q[f] = r[f]
  BY <1>1, <1>3 DEF IsParser, Fields
<1>5. /\ q.mode = p.mode /\ q.payload = p.payload /\ q.at = p.at /\ q.current_stmt = c
      /\ q.current_stmt_healed = p.current_stmt_healed /\ q.has_role = p.has_role
      /\ q.statements = r.statements /\ q.healed_draft = r.healed_draft
      /\ q.diagnostic = r.diagnostic /\ q.at = r.at
  BY <1>3, <1>4 DEF Fields, c
<1>6. Pushes(q) \cup {q.current_stmt} = Pushes(p) \cup {p.current_stmt}
  BY <1>3, <1>5 DEF Pushes, c
<1>7. Shaped(q)
  BY <1>2, <1>3, <1>4, <1>5 DEF Shaped
<1>8. Attributed(q)
  BY <1>5, <1>6, Zenon DEF LinesInv, Attributed
<1>9. Quarantined(q)
  <2>1. RepairedIn(q) = RepairedIn(r)
    BY <1>5 DEF RepairedIn
  <2>2. QED
    BY <1>3, <1>5, <2>1 DEF Quarantined
<1>10. AtHand(q) /\ Entered(q)
  BY <1>4 DEF AtHand, Entered
<1>11. QED
  BY <1>7, <1>8, <1>9, <1>10 DEF LinesInv

\* Before the body nothing was built: it is enough that no line of the body was read.
LEMMA NothingBuilt ==
  ASSUME NEW q, Shaped(q), Pushes(q) = {}, q.current_stmt = EmptyStatement,
         ~q.current_stmt_healed, RepairedIn(q) \subseteq 0..q.at, Entered(q),
         ~BehindHeader(q.payload, q.at)
  PROVE  LinesInv(q)
<1> DEFINE e == EmptyStatement
<1>1. e.lines = {} /\ BuiltFromLines(q.payload, e)
  BY EmptyIsBuilt
<1>2. q.current_stmt = e
  OBVIOUS
<1> HIDE DEF e
<1>3. Attributed(q)
  <2>1. \A n \in 2..q.at : ~IsBodyLine(q.payload, n)
    <3>1. q.at \in Nat
      BY DEF Shaped
    <3>2. \A n \in 2..q.at : ~BehindHeader(q.payload, n)
      BY <3>1, BehindGrows
    <3>3. QED
      BY <3>2 DEF IsBodyLine
  <2>2. QED
    BY <1>1, <1>2, <2>1 DEF Attributed
<1>4. Quarantined(q)
  BY DEF Quarantined, Pushes
<1>5. RoleLinesIn(q.payload, e.lines) = {}
  BY <1>1, Zenon DEF RoleLinesIn
<1>6. AtHand(q)
  BY <1>1, <1>2, <1>5 DEF AtHand
<1>7. QED
  BY <1>3, <1>4, <1>6 DEF LinesInv

LEMMA StartAttributes ==
  ASSUME NEW frame \in Seq(Text), NEW q, q = Start("TOLERANT", frame)
  PROVE  LinesInv(q)
<1> DEFINE e == EmptyStatement
           unset == NoFields
<1>1. /\ IsParser(q) /\ q.mode = "TOLERANT"
  BY DEF Start, IsParser, Fields
<1>2. /\ q.payload = frame /\ q.at = 0 /\ q.phase = "start"
      /\ q.current_stmt = e /\ q.has_role = FALSE
      /\ q.current_stmt_healed = FALSE /\ q.statements = <<>> /\ q.healed_draft = <<>>
      /\ q.diagnostic = {}
  BY DEF Start
<1> HIDE DEF e, unset
<1>3. Pushes(q) = {} /\ RepairedIn(q) = {}
  BY <1>2, NoEntries DEF Pushes, RepairedIn
<1>4. q.at \in 0..Len(q.payload) /\ q.payload \in Seq(Text)
  BY <1>2
<1>5. Shaped(q)
  BY <1>1, <1>2, <1>3, <1>4, NoEntries DEF Shaped, e
<1>6. Entered(q)
  BY <1>2 DEF Entered
<1>7. ~BehindHeader(q.payload, q.at)
  BY <1>2 DEF BehindHeader
<1>8. QED
  BY <1>2, <1>3, <1>5, <1>6, <1>7, NothingBuilt DEF e

\* Trimming takes a part of the line.
LEMMA TrimType ==
  ASSUME NEW A, NEW s \in Seq(A)
  PROVE  trim(s) \in Seq(A)
<1> DEFINE ink == {i \in DOMAIN s : s[i] \notin White}
<1>1. CASE ink = {}
  BY <1>1 DEF trim
<1>2. CASE ink # {}
  <2>1. Len(s) \in Nat /\ DOMAIN s = 1..Len(s) /\ ink \subseteq 0..Len(s) /\ ink \subseteq Nat
    OBVIOUS
  <2>2. Min(ink) \in ink /\ Max(ink) \in ink
    BY <1>2, <2>1, MinProperties, MaxProperties
  <2>3. Min(ink) \in 1..Len(s) /\ Max(ink) \in 1..Len(s)
    BY <2>1, <2>2
  <2> DEFINE a == Min(ink)
             b == Max(ink)
  <2>4. trim(s) = SubSeq(s, a, b)
    BY <1>2, Zenon DEF trim
  <2> HIDE DEF a, b, ink
  <2>5. SubSeq(s, a, b) \in Seq(A)
    BY <2>3 DEF a, b
  <2>6. QED
    BY <2>4, <2>5
<1>3. QED
  BY <1>1, <1>2

\* Role lines and tool lines behind the first line are lines of the body.
LEMMA StatementLine ==
  ASSUME NEW payload \in Seq(Text), NEW n \in 2..Len(payload),
         IsRoleLine(trim(payload[n])) \/ IsToolLine(trim(payload[n]))
  PROVE  IsBodyLine(payload, n)
<1> DEFINE line == trim(payload[n])
<1>1. line \in Seq(Atoms)
  <2>1. payload[n] \in Seq(Atoms)
    BY DEF Text
  <2>2. QED
    BY <2>1, TrimType
<1> HIDE DEF line
<1>2. line # <<>> /\ line[1] \in {"[", "!"}
  BY <1>1 DEF IsRoleLine, IsToolLine, line
<1>3. "[" \notin HeaderKeys /\ "!" \notin HeaderKeys
  BY DEF HeaderKeys
<1>4. is_header_continuation(line) => line[1] \in HeaderKeys
  BY Zenon DEF is_header_continuation
<1>5. ~is_header_continuation(line)
  BY <1>2, <1>3, <1>4
<1>6. n \in 2..n
  OBVIOUS
<1>7. QED
  BY <1>2, <1>5, <1>6, Zenon DEF IsBodyLine, BehindHeader, line

LEMMA HeaderAttributes ==
  ASSUME NEW p, LinesInv(p), p.phase \in {"start", "header"}, NEW q,
         Refuse(p, q) \/ ReadHeaderLine(p, q) \/ FoldLine(p, q) \/ ParseHeader(p, q)
  PROVE  LinesInv(q)
<1> DEFINE e == EmptyStatement
<1>1. /\ IsParser(p) /\ p.mode = "TOLERANT" /\ p.payload \in Seq(Text) /\ p.at \in 0..Len(p.payload)
      /\ Listed(p.statements) /\ Listed(p.healed_draft)
      /\ p.current_stmt_healed \in BOOLEAN /\ p.has_role \in BOOLEAN
      /\ Pushes(p) = {} /\ p.current_stmt = e /\ ~p.current_stmt_healed
      /\ p.phase = "start" => p.at = 0 /\ p.diagnostic = {}
      /\ p.phase = "header" => p.at >= 1
      /\ RepairedIn(p) \subseteq 0..p.at
  BY DEF LinesInv, Shaped, Quarantined
<1>2. ~BehindHeader(p.payload, p.at)
  <2>1. \A s \in Pushes(p) \cup {p.current_stmt} : s.lines = {}
    BY <1>1, EmptyIsBuilt
  <2>2. \A n \in 2..p.at : ~IsBodyLine(p.payload, n)
    BY <2>1, Zenon DEF LinesInv, Attributed
  <2> SUFFICES ASSUME NEW n \in 2..p.at, trim(p.payload[n]) # <<>>,
                      ~is_header_continuation(trim(p.payload[n]))
               PROVE  FALSE
    BY Zenon DEF BehindHeader
  <2>3. n \in 2..n
    OBVIOUS
  <2>4. IsBodyLine(p.payload, n)
    BY <2>3, Zenon DEF IsBodyLine, BehindHeader
  <2>5. QED
    BY <2>2, <2>4
<1> HIDE DEF e
<1> DEFINE Same(r) == /\ IsParser(r) /\ r.mode = "TOLERANT" /\ r.payload = p.payload
                      /\ r.statements = p.statements /\ r.healed_draft = p.healed_draft
                      /\ r.current_stmt = p.current_stmt /\ r.has_role = p.has_role
                      /\ r.current_stmt_healed = p.current_stmt_healed
<1>3. ASSUME NEW r, Same(r), r.at \in 0..Len(r.payload), RepairedIn(r) \subseteq 0..r.at,
             r.phase \in {"header", "body"} => r.at >= 1, r.phase # "start", Entered(r),
             ~BehindHeader(p.payload, r.at)
      PROVE  LinesInv(r)
  <2>1. Pushes(r) = {}
    BY <1>1, <1>3 DEF Pushes
  <2>2. Shaped(r)
    BY <1>1, <1>3, <2>1 DEF Shaped, e
  <2>3. QED
    BY <1>1, <1>3, <2>1, <2>2, NothingBuilt DEF e
<1>4. ASSUME NEW r, Same(r), r.at = p.at, r.diagnostic = p.diagnostic, NEW errors,
             r.phase = "done" \/ (p.phase = "header" /\ r.phase = "body"), Entered(r),
             q = Reporting(p, r, errors)
      PROVE  LinesInv(q)
  <2> DEFINE noted == {[line |-> r.at, kind |-> k] : k \in errors}
  <2>1. q = [r EXCEPT !.diagnostic = @ \cup noted]
    BY <1>1, <1>4 DEF Reporting
  <2>2. \A d \in noted : d.line = r.at
    OBVIOUS
  <2> HIDE DEF noted
  <2>3. /\ Same(q) /\ q.at = p.at /\ q.phase = r.phase /\ q.diagnostic = p.diagnostic \cup noted
    BY <1>4, <2>1 DEF IsParser, Fields
  <2>4. RepairedIn(q) \subseteq RepairedIn(p) \cup {p.at}
    BY <1>4, <2>2, <2>3 DEF RepairedIn
  <2>5. RepairedIn(q) \subseteq 0..q.at /\ q.at \in 0..Len(q.payload)
    BY <1>1, <2>3, <2>4
  <2>6. q.phase # "start" /\ (q.phase \in {"header", "body"} => q.at >= 1)
    BY <1>1, <1>4, <2>3
  <2>7. Entered(q)
    BY <1>4, <2>3 DEF Entered, MoreLines
  <2> HIDE DEF Same
  <2>8. QED
    BY <1>2, <1>3, <2>3, <2>5, <2>6, <2>7
<1>5. CASE Refuse(p, q)
  <2> DEFINE r == [p EXCEPT !.phase = "done"]
  <2>1. PICK errors : q = Reporting(p, r, errors)
    BY <1>5, Zenon DEF Refuse
  <2>2. Same(r) /\ r.at = p.at /\ r.diagnostic = p.diagnostic /\ r.phase = "done"
    BY <1>1 DEF IsParser, Fields
  <2>3. Entered(r)
    BY <2>2 DEF Entered
  <2> HIDE DEF r, Same
  <2>4. QED
    BY <1>4, <2>1, <2>2, <2>3
<1>6. CASE ReadHeaderLine(p, q)
  <2> DEFINE probe == Probe(p)
  <2>1. /\ p.phase = "start" /\ p.payload # <<>>
        /\ q = [p EXCEPT !.phase = "header", !.at = 1, !.mark = 1, !.header_line = probe]
    BY <1>6, Zenon DEF ReadHeaderLine
  <2> HIDE DEF probe
  <2>2. Same(q) /\ q.at = 1 /\ q.mark = 1 /\ q.phase = "header" /\ q.diagnostic = p.diagnostic
    BY <1>1, <2>1 DEF IsParser, Fields
  <2>3. 1 \in 0..Len(p.payload)
    BY <1>1, <2>1
  <2>4. RepairedIn(q) \subseteq 0..q.at
    BY <1>1, <2>1, <2>2 DEF RepairedIn
  <2>5. Entered(q) /\ ~BehindHeader(p.payload, q.at)
    BY <2>2 DEF Entered, BehindHeader
  <2>6. q.at \in 0..Len(q.payload) /\ q.at >= 1 /\ q.phase # "start"
    BY <2>2, <2>3
  <2> HIDE DEF Same
  <2>7. QED
    BY <1>3, <2>2, <2>4, <2>5, <2>6
<1>7. CASE FoldLine(p, q)
  <2> DEFINE folded == IF Probe(p) = <<>> THEN p.header_line
                       ELSE p.header_line \o <<" ">> \o Probe(p)
             n == p.at + 1
  <2>1. /\ p.phase = "header" /\ BelongsToHeader(p)
        /\ q = [p EXCEPT !.at = n, !.mark = n, !.header_line = folded]
    BY <1>7, Zenon DEF FoldLine
  <2>2. n \in 0..Len(p.payload) /\ n >= 1 /\ 0..p.at \subseteq 0..n
        /\ \A m \in 2..n : m \in 2..p.at \/ m = n
    BY <1>1, <2>1 DEF BelongsToHeader, MoreLines
  <2>3. trim(p.payload[n]) = <<>> \/ is_header_continuation(trim(p.payload[n]))
    BY <2>1, Zenon DEF BelongsToHeader, Probe
  <2>4. ~BehindHeader(p.payload, n)
    BY <1>2, <2>2, <2>3, Zenon DEF BehindHeader
  <2> HIDE DEF n, folded
  <2>5. Same(q) /\ q.at = n /\ q.mark = n /\ q.phase = "header" /\ q.diagnostic = p.diagnostic
    BY <1>1, <2>1 DEF IsParser, Fields
  <2>6. RepairedIn(q) \subseteq 0..q.at
    BY <1>1, <2>2, <2>5 DEF RepairedIn
  <2>7. Entered(q) /\ ~BehindHeader(p.payload, q.at)
    BY <2>4, <2>5 DEF Entered
  <2>8. q.at \in 0..Len(q.payload) /\ q.at >= 1 /\ q.phase # "start"
    BY <2>2, <2>5
  <2> HIDE DEF Same
  <2>9. QED
    BY <1>3, <2>5, <2>6, <2>7, <2>8
<1>8. CASE ParseHeader(p, q)
  <2> DEFINE header == parseHeader(p.header_line).fields
             r == [p EXCEPT !.phase = "body", !.at = p.mark, !.header = header]
  <2>1. PICK errors : p.phase = "header" /\ ~BelongsToHeader(p) /\ q = Reporting(p, r, errors)
    BY <1>8, Zenon DEF ParseHeader
  <2> HIDE DEF header
  <2>2. p.mark = p.at
    BY <2>1 DEF LinesInv, Entered
  <2>3. Same(r) /\ r.at = p.at /\ r.diagnostic = p.diagnostic /\ r.phase = "body"
    BY <1>1, <2>2 DEF IsParser, Fields
  <2>4. Entered(r)
    <3> SUFFICES ASSUME MoreLines(p) PROVE BehindHeader(p.payload, p.at + 1)
      BY <2>3 DEF Entered, MoreLines
    <3>1. Probe(p) # <<>> /\ ~is_header_continuation(Probe(p))
      BY <2>1 DEF BelongsToHeader
    <3>2. p.at + 1 \in 2..(p.at + 1)
      BY <1>1, <2>1
    <3>3. QED
      BY <3>1, <3>2, Zenon DEF BehindHeader, Probe
  <2> HIDE DEF r, Same
  <2>5. QED
    BY <1>4, <2>1, <2>3, <2>4
<1>9. QED
  BY <1>5, <1>6, <1>7, <1>8

LEMMA SkipBlankAttributes ==
  ASSUME NEW p, LinesInv(p), NEW q, SkipBlank(p, q)
  PROVE  LinesInv(q)
<1> DEFINE n == p.at + 1
<1>1. p.phase = "body" /\ MoreLines(p) /\ Probe(p) = <<>> /\ q = [p EXCEPT !.at = n]
  BY Zenon DEF SkipBlank
<1>2. /\ IsParser(p) /\ p.mode = "TOLERANT" /\ p.payload \in Seq(Text) /\ p.at \in 0..Len(p.payload)
      /\ Listed(p.statements) /\ Listed(p.healed_draft)
      /\ p.current_stmt_healed \in BOOLEAN /\ p.has_role \in BOOLEAN /\ p.at >= 1
  BY <1>1 DEF LinesInv, Shaped
<1>3. n \in 0..Len(p.payload) /\ n >= 1 /\ 0..p.at \subseteq 0..n /\ 2..p.at \subseteq 2..n
      /\ \A m \in 2..n : m \in 2..p.at \/ m = n
  BY <1>1, <1>2 DEF MoreLines
<1>4. ~IsBodyLine(p.payload, n) /\ BehindHeader(p.payload, n)
  BY <1>1, Zenon DEF Probe, IsBodyLine, LinesInv, Entered
<1> HIDE DEF n
<1>5. /\ IsParser(q) /\ q.at = n /\ \A f \in Fields \ {"at"} : q[f] = p[f]
  BY <1>1, <1>2 DEF IsParser, Fields
<1>6. /\ q.mode = p.mode /\ q.payload = p.payload /\ q.phase = p.phase
      /\ q.current_stmt = p.current_stmt /\ q.has_role = p.has_role
      /\ q.current_stmt_healed = p.current_stmt_healed
      /\ q.statements = p.statements /\ q.healed_draft = p.healed_draft
      /\ q.diagnostic = p.diagnostic
  BY <1>5 DEF Fields
<1>7. Pushes(q) = Pushes(p) /\ RepairedIn(q) = RepairedIn(p)
  BY <1>6 DEF Pushes, RepairedIn
<1>8. Shaped(q)
  BY <1>1, <1>2, <1>3, <1>5, <1>6 DEF Shaped
<1>9. Attributed(q)
  <2>1. \A s \in Pushes(p) \cup {p.current_stmt} :
          s.lines \subseteq 2..p.at /\ BuiltFromLines(p.payload, s)
    BY DEF LinesInv, Attributed
  <2>2. \A s \in Pushes(q) \cup {q.current_stmt} :
          s.lines \subseteq 2..q.at /\ BuiltFromLines(q.payload, s)
    BY <1>3, <1>5, <1>6, <1>7, <2>1
  <2>3. \A s, t \in Pushes(q) \cup {q.current_stmt} : s = t \/ s.lines \cap t.lines = {}
    BY <1>6, <1>7 DEF LinesInv, Attributed
  <2>4. \A m \in 2..p.at : IsBodyLine(p.payload, m) <=>
                            \E s \in Pushes(p) \cup {p.current_stmt} : m \in s.lines
    BY Zenon DEF LinesInv, Attributed
  <2>5. \A s \in Pushes(p) \cup {p.current_stmt} : n \notin s.lines
    BY <1>2, <2>1 DEF n
  <2>6. \A m \in 2..q.at : IsBodyLine(q.payload, m) <=>
                            \E s \in Pushes(q) \cup {q.current_stmt} : m \in s.lines
    BY <1>3, <1>4, <1>5, <1>6, <1>7, <2>4, <2>5
  <2>7. QED
    BY <2>2, <2>3, <2>6, Zenon DEF Attributed
<1>10. Quarantined(q)
  BY <1>3, <1>5, <1>6, <1>7 DEF LinesInv, Quarantined
<1>11. AtHand(q)
  BY <1>6, <1>7 DEF LinesInv, AtHand
<1>12. Entered(q)
  <2> SUFFICES BehindHeader(p.payload, n + 1)
    BY <1>1, <1>5, <1>6 DEF Entered
  <2>1. n \in Nat /\ n + 1 \in Nat /\ n <= n + 1
    BY <1>3
  <2>2. QED
    BY <1>4, <2>1, BehindGrows
<1>13. QED
  BY <1>8, <1>9, <1>10, <1>11, <1>12 DEF LinesInv

LEMMA StepAttributes ==
  ASSUME NEW p, LinesInv(p), NEW q, Step(p, q)
  PROVE  LinesInv(q)
<1>1. CASE Refuse(p, q) \/ ReadHeaderLine(p, q) \/ FoldLine(p, q) \/ ParseHeader(p, q)
  <2>1. p.phase \in {"start", "header"}
    BY <1>1, Guards
  <2>2. QED
    BY <1>1, <2>1, HeaderAttributes
<1>2. QED
  BY <1>1, SkipBlankAttributes, ReadRoleAttributes, ReadToolAttributes, ReadPairsAttributes,
     FinishAttributes DEF Step

-----------------------------------------------------------------------------
\* However lines are healed, skipped and flushed, each line of the body is in one
\* statement and no line of the header in any, calls stay with their role, and a
\* statement is trusted exactly if none of its lines was repaired.
THEOREM LinesAlwaysAttributed == Spec => []LinesAreAttributed
<1> DEFINE Inv == LinesInv(tolerant)
<1>1. Init => Inv
  <2> SUFFICES ASSUME Init PROVE Inv
    OBVIOUS
  <2>1. PICK frame \in Frames : tolerant = Start("TOLERANT", frame)
    BY Zenon DEF Init, Reads
  <2>2. frame \in Seq(Text)
    BY FramesAssumption
  <2>3. QED
    BY <2>1, <2>2, StartAttributes
<1>2. Inv /\ [Next]_vars => Inv'
  <2> SUFFICES ASSUME Inv, [Next]_vars PROVE Inv'
    OBVIOUS
  <2> DEFINE t == tolerant
             t2 == tolerant'
  <2>1. Step(t, t2) \/ t2 = t
    BY DEF Next, vars
  <2>2. LinesInv(t)
    OBVIOUS
  <2>3. LinesInv(t2)
    <3> HIDE DEF t, t2, Inv
    <3>1. QED
      BY <2>1, <2>2, StepAttributes
  <2>4. QED
    BY <2>3
<1>3. Inv => LinesAreAttributed
  <2> SUFFICES ASSUME Inv PROVE LinesAreAttributed
    OBVIOUS
  <2> DEFINE t == tolerant
             built == Pushes(t) \cup {t.current_stmt}
  <2>1. Shaped(t) /\ Attributed(t) /\ Quarantined(t)
    BY DEF LinesInv
  <2>2. HealedIsQuarantined
    BY <2>1 DEF Quarantined, HealedIsQuarantined, Repaired, RepairedIn
  <2>3. CallsStayWithTheirRole
    <3>1. \A s : /\ LinesWith(s, IsRoleLine) = RoleLinesIn(t.payload, s.lines)
                 /\ LinesWith(s, IsToolLine) = ToolLinesIn(t.payload, s.lines)
      BY Zenon DEF LinesWith, RoleLinesIn, ToolLinesIn
    <3>2. \A s \in Pushes(t) : BuiltFromLines(t.payload, s)
      BY <2>1 DEF Attributed
    <3>3. QED
      BY <3>1, <3>2 DEF CallsStayWithTheirRole, BuiltFromLines, Pushes
  <2>4. NoLineIsLost
    <3> DEFINE with(n) == {s \in built : n \in s.lines}
    <3>1. SUFFICES ASSUME NEW n \in 1..t.at
                   PROVE  Cardinality(with(n)) = IF IsBodyLine(t.payload, n) THEN 1 ELSE 0
      BY Zenon DEF NoLineIsLost, Pushes
    <3>2. IsBodyLine(t.payload, n) <=> \E s \in built : n \in s.lines
      <4>1. CASE n = 1
        <5>1. ~IsBodyLine(t.payload, n)
          BY <4>1 DEF IsBodyLine, BehindHeader
        <5>2. \A s \in built : n \notin s.lines
          BY <2>1, <4>1 DEF Attributed
        <5>3. QED
          BY <5>1, <5>2
      <4>2. CASE n \in 2..t.at
        BY <2>1, <4>2, Zenon DEF Attributed
      <4>3. n = 1 \/ n \in 2..t.at
        BY <2>1, <3>1 DEF Shaped
      <4>4. QED
        BY <4>1, <4>2, <4>3
    <3>3. CASE IsBodyLine(t.payload, n)
      <4>1. PICK s \in built : n \in s.lines
        BY <3>2, <3>3
      <4>2. \A u \in built : n \in u.lines => u = s
        BY <2>1, <4>1 DEF Attributed
      <4>3. with(n) = {s}
        BY <4>1, <4>2
      <4>4. QED
        BY <3>3, <4>3, FS_Singleton
    <3>4. CASE ~IsBodyLine(t.payload, n)
      <4>1. with(n) = {}
        BY <3>2, <3>4
      <4>2. QED
        BY <3>4, <4>1, FS_EmptySet
    <3>5. QED
      BY <3>3, <3>4
  <2>5. QED
    BY <2>2, <2>3, <2>4 DEF LinesAreAttributed
<1>4. QED
  BY <1>1, <1>2, <1>3, PTL DEF Spec

-----------------------------------------------------------------------------
\* The types of what the scanners return.

Quotes == [open : BOOLEAN, escape : BOOLEAN]

LEMMA AfterAtomType ==
    ASSUME NEW q \in Quotes, NEW a
    PROVE  AfterAtom(q, a) \in Quotes
<1>1. [q EXCEPT !.escape = FALSE] \in Quotes
  BY DEF Quotes
<1>2. ((a = Quote) # q.open) \in BOOLEAN /\ (a = Backslash /\ q.open) \in BOOLEAN
  BY DEF Quotes
<1>3. [open |-> (a = Quote) # q.open, escape |-> a = Backslash /\ q.open] \in Quotes
  BY <1>2, Zenon DEF Quotes
<1>4. QED
  BY <1>1, <1>3 DEF AfterAtom

\* The scan of lex_split(), over texts of any atoms A.
Splits(A) == [tokens : Seq(Seq(A)), current : Seq(A), quote : Quotes]
NoTokens == [tokens |-> <<>>, current |-> <<>>, quote |-> Unquoted]
Kept(l) == IF l.current = <<>> THEN l.tokens ELSE Append(l.tokens, l.current)
SplitStep(l, a, delim) ==
    IF a = delim /\ ~l.quote.open
    THEN [l EXCEPT !.tokens = Kept(l), !.current = <<>>]
    ELSE [l EXCEPT !.current = Append(@, a), !.quote = AfterAtom(@, a)]

LEMMA NoTokensType ==
    ASSUME NEW A
    PROVE  NoTokens \in Splits(A)
  BY DEF NoTokens, Splits, Quotes, Unquoted

LEMMA SplitStepType ==
    ASSUME NEW A, NEW l \in Splits(A), NEW a \in A, NEW delim
    PROVE  SplitStep(l, a, delim) \in Splits(A) /\ Kept(l) \in Seq(Seq(A))
<1>1. Kept(l) \in Seq(Seq(A))
  BY DEF Kept, Splits
<1>0. /\ l.tokens \in Seq(Seq(A)) /\ l.current \in Seq(A) /\ l.quote \in Quotes /\ <<>> \in Seq(A)
      /\ Append(l.current, a) \in Seq(A)
  BY DEF Splits
<1>2. [l EXCEPT !.tokens = Kept(l), !.current = <<>>] \in Splits(A)
  BY <1>0, <1>1 DEF Splits
<1>3. [l EXCEPT !.current = Append(@, a), !.quote = AfterAtom(@, a)] \in Splits(A)
  <2>1. AfterAtom(l.quote, a) \in Quotes
    BY AfterAtomType DEF Splits
  <2>2. QED
    BY <1>0, <2>1 DEF Splits
<1>4. QED
  BY <1>1, <1>2, <1>3 DEF SplitStep

\* lex_split() steps over one atom after the other.
LEMMA LexSplitSteps ==
    ASSUME NEW A, NEW s \in Seq(A), NEW delim
    PROVE  \E r \in [0..Len(s) -> Splits(A)] :
              /\ r[0] = NoTokens
              /\ \A k \in 1..Len(s) : r[k] = SplitStep(r[k - 1], s[k], delim)
              /\ lex_split(s, delim) = Kept(r[Len(s)])
<1> DEFINE n == Len(s)
           T == Splits(A)
           Folds(f) == f = [c \in SUBSET DOMAIN s |->
                              IF c = {} THEN NoTokens
                              ELSE SplitStep(f[c \ {Max(c)}], s[Max(c)], delim)]
           iter == CHOOSE f : Folds(f)
           g == [p \in (1..n) \X T |-> SplitStep(p[2], s[p[1]], delim)]
<1>1. lex_split(s, delim) = Kept(iter[DOMAIN s])
  BY Zenon DEF lex_split, SplitStep, Kept, NoTokens, FoldLeft, MapThenFoldSet
<1>2. n \in Nat /\ DOMAIN s = 1..n /\ \A k \in 1..n : s[k] \in A
  OBVIOUS
<1>3. NoTokens \in T /\ \A x \in T, a \in A : SplitStep(x, a, delim) \in T
  BY NoTokensType, SplitStepType
<1> HIDE DEF n, T
<1>4. /\ g \in [(1..n) \X T -> T]
      /\ \A k \in 1..n, x \in T : g[<<k, x>>] = SplitStep(x, s[k], delim)
  BY <1>2, <1>3
<1> HIDE DEF g
<1>5. \E f : Folds(f)
  <2>1. PICK f : IsRecursive(f, n, T, NoTokens, g)
    BY <1>2, <1>3, <1>4, FoldForm
  <2>2. \A c \in SUBSET (1..n) : f[c] = IF c = {} THEN NoTokens
                                        ELSE SplitStep(f[c \ {Max(c)}], s[Max(c)], delim)
    BY <1>4, <2>1 DEF IsRecursive
  <2>3. f = [c \in SUBSET (1..n) |-> f[c]]
    BY <2>1 DEF IsRecursive
  <2>4. Folds(f)
    BY <1>2, <2>2, <2>3
  <2>5. QED
    BY <2>4
<1>6. Folds(iter)
  <2> HIDE DEF Folds
  <2>1. QED
    BY <1>5
<1> HIDE DEF iter
<1>7. \A c \in SUBSET (1..n) : iter[c] = IF c = {} THEN NoTokens
                                         ELSE SplitStep(iter[c \ {Max(c)}], s[Max(c)], delim)
  BY <1>2, <1>6
<1>8. FoldsInto(iter, n, T, NoTokens, g)
  <2>1. \A c \in SUBSET (1..n) : c # {} => Max(c) \in 1..n
    BY <1>2, MaxInside
  <2>2. {} \in SUBSET (1..n)
    OBVIOUS
  <2>3. QED
    BY <1>4, <1>7, <2>1, <2>2 DEF FoldsInto
<1>9. PICK r : IsRun(r, iter, n, T, NoTokens, g)
  BY <1>2, <1>3, <1>4, <1>8, FoldRuns
<1>10. \A k \in 1..n : r[k] = SplitStep(r[k - 1], s[k], delim)
  <2>1. \A k \in 1..n : r[k - 1] \in T
    BY <1>2, <1>9 DEF IsRun
  <2>2. QED
    BY <1>4, <1>9, <2>1 DEF IsRun
<1>11. QED
  BY <1>1, <1>2, <1>9, <1>10 DEF n, T, IsRun

LEMMA SubSeqType ==
    ASSUME NEW A, NEW s \in Seq(A), NEW a \in Nat, a >= 1, NEW b \in Int, b <= Len(s)
    PROVE  SubSeq(s, a, b) \in Seq(A)
<1>1. Len(s) \in Nat
  OBVIOUS
<1>2. CASE b < a
  <2>1. SubSeq(s, a, b) = <<>>
    BY <1>1, <1>2
  <2>2. QED
    BY <2>1
<1>3. CASE ~(b < a)
  <2>1. a \in 1..Len(s) /\ b \in 1..Len(s)
    BY <1>1, <1>3
  <2>2. QED
    BY <2>1
<1>4. QED
  BY <1>2, <1>3

LEMMA FindPlace ==
    ASSUME NEW A, NEW s \in Seq(A), NEW a
    PROVE  /\ Find(s, a) \in 0..Len(s)
           /\ Find(s, a) # 0 => s[Find(s, a)] = a
<1> DEFINE I == {i \in 1..Len(s) : s[i] = a}
<1>1. Len(s) \in Nat /\ I \in SUBSET Nat
  OBVIOUS
<1>2. Find(s, a) = IF I # {} THEN Min(I) ELSE 0
  BY Zenon DEF Find, SelectInSeq
<1>3. CASE I # {}
  <2>1. Min(I) \in I
    <3> HIDE DEF I
    <3>1. QED
      BY <1>1, <1>3, MinProperties
  <2>2. Find(s, a) \in I
    BY <1>2, <1>3, <2>1
  <2>3. QED
    BY <1>1, <2>2
<1>4. CASE I = {}
  BY <1>1, <1>2, <1>4
<1>5. QED
  BY <1>3, <1>4

LEMMA PartsType ==
    ASSUME NEW A, NEW s \in Seq(A), NEW i \in 0..Len(s)
    PROVE  Before(s, i) \in Seq(A) /\ After(s, i) \in Seq(A) /\ Len(After(s, i)) = Len(s) - i
<1>1. Len(s) \in Nat
  OBVIOUS
<1>2. SubSeq(s, 1, i - 1) \in Seq(A) /\ SubSeq(s, i + 1, Len(s)) \in Seq(A)
  BY <1>1, SubSeqType
<1>3. Len(SubSeq(s, i + 1, Len(s))) = Len(s) - i
  BY <1>1
<1>4. QED
  BY <1>2, <1>3 DEF Before, After

\* Pairs: a function from some texts to texts.
Maps(A) == UNION {[K -> Seq(A)] : K \in SUBSET Seq(A)}

LEMMA MapsAre ==
    ASSUME NEW A, NEW m
    PROVE  m \in Maps(A) <=> /\ DOMAIN m \in SUBSET Seq(A)
                             /\ m \in [DOMAIN m -> Seq(A)]
  BY DEF Maps

LEMMA MapsGrow ==
    ASSUME NEW A, NEW m \in Maps(A), NEW k \in Seq(A), NEW v \in Seq(A)
    PROVE  WithPair(m, k, v) \in Maps(A)
<1> DEFINE w == WithPair(m, k, v)
<1>1. w = [x \in {k} \cup DOMAIN m |-> IF x = k THEN v ELSE m[x]]
  BY DEF WithPair
<1>2. DOMAIN m \in SUBSET Seq(A) /\ m \in [DOMAIN m -> Seq(A)]
  BY MapsAre
<1>3. DOMAIN w \in SUBSET Seq(A) /\ w \in [DOMAIN w -> Seq(A)]
  BY <1>1, <1>2
<1> HIDE DEF w
<1>4. w \in Maps(A)
  BY <1>3, MapsAre
<1>5. QED
  BY <1>4 DEF w

Storing(A) == [pairs : Maps(A), errors : SUBSET {"malformed", "duplicate"}]

LEMMA SeparatorPlace ==
    ASSUME NEW A, NEW token \in Seq(A)
    PROVE  /\ Separator(token) \in 0..Len(token)
           /\ Separator(token) # 0 => token[Separator(token)] \in {":", "="}
<1> DEFINE colon == Find(token, ":")
           equals == Find(token, "=")
           bare == equals > 1 /\ \A i \in 1..(equals - 1) : token[i] \in Words
           found == ({colon} \cup IF bare THEN {equals} ELSE {}) \ {0}
<1>1. /\ Len(token) \in Nat /\ colon \in 0..Len(token) /\ equals \in 0..Len(token)
      /\ colon # 0 => token[colon] = ":"
      /\ equals # 0 => token[equals] = "="
  BY FindPlace
<1>2. Separator(token) = IF found = {} THEN 0 ELSE Min(found)
  BY Zenon DEF Separator
<1> HIDE DEF colon, equals, bare
<1>3. /\ found \in SUBSET (0..Len(token)) /\ found \in SUBSET Nat
      /\ \A i \in found : token[i] \in {":", "="}
  BY <1>1
<1> HIDE DEF found
<1>4. found # {} => Min(found) \in found
  BY <1>3, MinProperties
<1>5. CASE found = {}
  <2>1. Separator(token) = 0
    BY <1>2, <1>5
  <2>2. QED
    BY <1>1, <2>1
<1>6. CASE found # {}
  <2>1. Separator(token) \in found
    BY <1>2, <1>4, <1>6
  <2>2. QED
    BY <1>3, <2>1
<1>7. QED
  BY <1>5, <1>6

\* The scan of unquote_and_unescape(): a set of atoms that has all that an escape puts in.
Unescapes == [escape : BOOLEAN, out : Seq(Atoms)]
NothingOut == [escape |-> FALSE, out |-> <<>>]
UnescapeStep(u, a) ==
    IF u.escape
    THEN [escape |-> FALSE,
          out |-> u.out \o (IF a \in DOMAIN Escapes THEN <<Escapes[a]>> ELSE <<Backslash, a>>)]
    ELSE IF a = Backslash THEN [u EXCEPT !.escape = TRUE]
    ELSE [u EXCEPT !.out = Append(@, a)]

LEMMA UnescapeStepType ==
    ASSUME NEW u \in Unescapes, NEW a \in Atoms
    PROVE  UnescapeStep(u, a) \in Unescapes
<1>1. u.out \in Seq(Atoms) /\ u.escape \in BOOLEAN /\ u = [escape |-> u.escape, out |-> u.out]
  BY DEF Unescapes
<1>2. Backslash \in Atoms /\ \A b \in DOMAIN Escapes : Escapes[b] \in Atoms
  BY DEF Escapes, Atoms, Punctuation, White, Quote, Backslash
<1> DEFINE more == IF a \in DOMAIN Escapes THEN <<Escapes[a]>> ELSE <<Backslash, a>>
<1>3. more \in Seq(Atoms)
  BY <1>2
<1> HIDE DEF more
<1>4. [escape |-> FALSE, out |-> u.out \o more] \in Unescapes
  BY <1>1, <1>3 DEF Unescapes
<1>5. [u EXCEPT !.escape = TRUE] \in Unescapes
  BY <1>1 DEF Unescapes
<1>6. [u EXCEPT !.out = Append(@, a)] \in Unescapes
  <2>1. Append(u.out, a) \in Seq(Atoms)
    BY <1>1
  <2>2. QED
    BY <1>1, <2>1 DEF Unescapes
<1>7. QED
  BY <1>4, <1>5, <1>6 DEF UnescapeStep, more

\* The scan itself, of a text within quotes.
Unescaped(s) ==
    LET step(u, a) ==
            IF u.escape
            THEN [escape |-> FALSE,
                  out |-> u.out \o (IF a \in DOMAIN Escapes THEN <<Escapes[a]>>
                                    ELSE <<Backslash, a>>)]
            ELSE IF a = Backslash THEN [u EXCEPT !.escape = TRUE]
            ELSE [u EXCEPT !.out = Append(@, a)]
    IN  FoldLeft(step, [escape |-> FALSE, out |-> <<>>], s)

LEMMA UnescapedSteps ==
    ASSUME NEW s \in Text
    PROVE  \E r \in [0..Len(s) -> Unescapes] :
              /\ r[0] = NothingOut
              /\ \A k \in 1..Len(s) : r[k] = UnescapeStep(r[k - 1], s[k])
              /\ Unescaped(s) = r[Len(s)]
<1> DEFINE n == Len(s)
           T == Unescapes
           Folds(f) == f = [c \in SUBSET DOMAIN s |->
                              IF c = {} THEN NothingOut
                              ELSE UnescapeStep(f[c \ {Max(c)}], s[Max(c)])]
           iter == CHOOSE f : Folds(f)
           g == [p \in (1..n) \X T |-> UnescapeStep(p[2], s[p[1]])]
<1>1. Unescaped(s) = iter[DOMAIN s]
  BY Zenon DEF Unescaped, UnescapeStep, NothingOut, FoldLeft, MapThenFoldSet
<1>2. n \in Nat /\ DOMAIN s = 1..n /\ \A k \in 1..n : s[k] \in Atoms
  BY DEF Text
<1>3. NothingOut \in T /\ \A x \in T, a \in Atoms : UnescapeStep(x, a) \in T
  <2>1. NothingOut \in T
    BY DEF NothingOut, Unescapes
  <2>2. QED
    BY <2>1, UnescapeStepType
<1> HIDE DEF n, T
<1>4. /\ g \in [(1..n) \X T -> T]
      /\ \A k \in 1..n, x \in T : g[<<k, x>>] = UnescapeStep(x, s[k])
  BY <1>2, <1>3
<1> HIDE DEF g
<1>5. \E f : Folds(f)
  <2>1. PICK f : IsRecursive(f, n, T, NothingOut, g)
    BY <1>2, <1>3, <1>4, FoldForm
  <2>2. \A c \in SUBSET (1..n) : f[c] = IF c = {} THEN NothingOut
                                        ELSE UnescapeStep(f[c \ {Max(c)}], s[Max(c)])
    BY <1>4, <2>1 DEF IsRecursive
  <2>3. f = [c \in SUBSET (1..n) |-> f[c]]
    BY <2>1 DEF IsRecursive
  <2>4. Folds(f)
    BY <1>2, <2>2, <2>3
  <2>5. QED
    BY <2>4
<1>6. Folds(iter)
  <2> HIDE DEF Folds
  <2>1. QED
    BY <1>5
<1> HIDE DEF iter
<1>7. \A c \in SUBSET (1..n) : iter[c] = IF c = {} THEN NothingOut
                                         ELSE UnescapeStep(iter[c \ {Max(c)}], s[Max(c)])
  BY <1>2, <1>6
<1>8. FoldsInto(iter, n, T, NothingOut, g)
  <2>1. \A c \in SUBSET (1..n) : c # {} => Max(c) \in 1..n
    BY <1>2, MaxInside
  <2>2. {} \in SUBSET (1..n)
    OBVIOUS
  <2>3. QED
    BY <1>4, <1>7, <2>1, <2>2 DEF FoldsInto
<1>9. PICK r : IsRun(r, iter, n, T, NothingOut, g)
  BY <1>2, <1>3, <1>4, <1>8, FoldRuns
<1>10. \A k \in 1..n : r[k] = UnescapeStep(r[k - 1], s[k])
  <2>1. \A k \in 1..n : r[k - 1] \in T
    BY <1>2, <1>9 DEF IsRun
  <2>2. QED
    BY <1>4, <1>9, <2>1 DEF IsRun
<1>11. QED
  BY <1>1, <1>2, <1>9, <1>10 DEF n, T, IsRun

LEMMA UnescapedType ==
    ASSUME NEW s \in Text
    PROVE  Unescaped(s) \in Unescapes
<1>1. PICK r \in [0..Len(s) -> Unescapes] : Unescaped(s) = r[Len(s)]
  BY UnescapedSteps
<1>2. Len(s) \in Nat
  BY DEF Text
<1>3. QED
  BY <1>1, <1>2

LEMMA UnquoteType ==
    ASSUME NEW v \in Text
    PROVE  unquote_and_unescape(v) \in Text
<1> DEFINE inner == Unescaped(SubSeq(v, 2, Len(v) - 1))
<1>1. unquote_and_unescape(v) =
        IF Len(v) < 2 \/ Head(v) # Quote \/ Last(v) # Quote THEN v
        ELSE IF inner.escape THEN Append(inner.out, Backslash)
        ELSE inner.out
  BY Zenon DEF unquote_and_unescape, Unescaped
<1>2. SubSeq(v, 2, Len(v) - 1) \in Text
  <2>1. Len(v) \in Nat /\ Len(v) - 1 \in Int /\ Len(v) - 1 <= Len(v)
    BY DEF Text
  <2>2. QED
    BY <2>1, SubSeqType DEF Text
<1>3. inner.out \in Seq(Atoms) /\ Backslash \in Atoms
  BY <1>2, UnescapedType DEF Unescapes, Atoms, Punctuation, White, Backslash
<1> HIDE DEF inner
<1>4. QED
  BY <1>1, <1>3 DEF Text

\* Storing a token keeps a map of texts one.
LEMMA StoredType ==
    ASSUME NEW r \in Storing(Atoms), NEW token \in Text, NEW sep \in 0..Len(token)
    PROVE  Stored(r, token, sep) \in Storing(Atoms)
<1> DEFINE key == Before(token, sep)
           value == unquote_and_unescape(After(token, sep))
<1>1. key \in Seq(Atoms) /\ value \in Seq(Atoms)
  BY PartsType, UnquoteType DEF Text
<1>2. r.pairs \in Maps(Atoms) /\ r.errors \in SUBSET {"malformed", "duplicate"}
      /\ r = [pairs |-> r.pairs, errors |-> r.errors]
  BY DEF Storing
<1> DEFINE pairs == WithPair(r.pairs, key, value)
           errors == r.errors \cup ErrorIf(key \in DOMAIN r.pairs, "duplicate")
<1>3. pairs \in Maps(Atoms)
  BY <1>1, <1>2, MapsGrow
<1>4. errors \in SUBSET {"malformed", "duplicate"}
  BY <1>2 DEF ErrorIf
<1>5. Stored(r, token, sep) = IF sep = 0 THEN [r EXCEPT !.errors = @ \cup {"malformed"}]
                              ELSE [pairs |-> pairs, errors |-> errors]
  BY Zenon DEF Stored
<1>6. [r EXCEPT !.errors = @ \cup {"malformed"}] \in Storing(Atoms)
  BY <1>2 DEF Storing
<1> HIDE DEF pairs, errors
<1>7. [pairs |-> pairs, errors |-> errors] \in Storing(Atoms)
  BY <1>3, <1>4 DEF Storing
<1>8. QED
  BY <1>5, <1>6, <1>7

\* The tokens of a line are texts of its atoms.
LEMMA LexSplitType ==
    ASSUME NEW A, NEW s \in Seq(A), NEW delim
    PROVE  lex_split(s, delim) \in Seq(Seq(A))
<1>1. PICK r \in [0..Len(s) -> Splits(A)] : lex_split(s, delim) = Kept(r[Len(s)])
  BY LexSplitSteps
<1>2. Len(s) \in 0..Len(s)
  OBVIOUS
<1>3. r[Len(s)] \in Splits(A)
  BY <1>2
<1>4. ASSUME NEW l \in Splits(A) PROVE Kept(l) \in Seq(Seq(A))
  BY DEF Splits, Kept
<1>5. QED
  BY <1>1, <1>3, <1>4

\* Storing one token after another, each cut at its first '=' or where Separator() says.
Cut(token, any) == IF any THEN Separator(token) ELSE Find(token, "=")

StoreStep(r, token, any) == Stored(r, token, Cut(token, any))

\* Under one name, the two folds.
StoredAll(tokens, onto, any) ==
    IF any THEN FoldLeft(LAMBDA r, token : Stored(r, token, Separator(token)), onto, tokens)
    ELSE FoldLeft(LAMBDA r, token : Stored(r, token, Find(token, "=")), onto, tokens)

LEMMA StoreStepType ==
    ASSUME NEW r \in Storing(Atoms), NEW token \in Text, NEW any \in BOOLEAN
    PROVE  StoreStep(r, token, any) \in Storing(Atoms)
<1>1. Cut(token, any) \in 0..Len(token)
  BY FindPlace, SeparatorPlace DEF Cut, Text
<1>2. QED
  BY <1>1, StoredType DEF StoreStep

LEMMA StoredAllSteps ==
    ASSUME NEW s \in Seq(Text), NEW onto \in Storing(Atoms), NEW any \in BOOLEAN
    PROVE  \E r \in [0..Len(s) -> Storing(Atoms)] :
              /\ r[0] = onto
              /\ \A k \in 1..Len(s) : r[k] = StoreStep(r[k - 1], s[k], any)
              /\ StoredAll(s, onto, any) = r[Len(s)]
<1> DEFINE n == Len(s)
           T == Storing(Atoms)
           Folds(f) == f = [c \in SUBSET DOMAIN s |->
                              IF c = {} THEN onto ELSE StoreStep(f[c \ {Max(c)}], s[Max(c)], any)]
           iter == CHOOSE f : Folds(f)
           g == [p \in (1..n) \X T |-> StoreStep(p[2], s[p[1]], any)]
<1>1. StoredAll(s, onto, any) = iter[DOMAIN s]
  <2>1. CASE any = TRUE
    BY <2>1, Zenon DEF StoredAll, StoreStep, Cut, FoldLeft, MapThenFoldSet
  <2>2. CASE any = FALSE
    BY <2>2, Zenon DEF StoredAll, StoreStep, Cut, FoldLeft, MapThenFoldSet
  <2>3. QED
    BY <2>1, <2>2
<1>2. n \in Nat /\ DOMAIN s = 1..n /\ \A k \in 1..n : s[k] \in Text
  OBVIOUS
<1>3. onto \in T /\ \A x \in T, token \in Text : StoreStep(x, token, any) \in T
  BY StoreStepType
<1> HIDE DEF n, T
<1>4. /\ g \in [(1..n) \X T -> T]
      /\ \A k \in 1..n, x \in T : g[<<k, x>>] = StoreStep(x, s[k], any)
  BY <1>2, <1>3
<1> HIDE DEF g
<1>5. \E f : Folds(f)
  <2>1. PICK f : IsRecursive(f, n, T, onto, g)
    BY <1>2, <1>3, <1>4, FoldForm
  <2>2. \A c \in SUBSET (1..n) : f[c] = IF c = {} THEN onto
                                        ELSE StoreStep(f[c \ {Max(c)}], s[Max(c)], any)
    BY <1>4, <2>1 DEF IsRecursive
  <2>3. f = [c \in SUBSET (1..n) |-> f[c]]
    BY <2>1 DEF IsRecursive
  <2>4. Folds(f)
    BY <1>2, <2>2, <2>3
  <2>5. QED
    BY <2>4
<1>6. Folds(iter)
  <2> HIDE DEF Folds
  <2>1. QED
    BY <1>5
<1> HIDE DEF iter
<1>7. \A c \in SUBSET (1..n) : iter[c] = IF c = {} THEN onto
                                         ELSE StoreStep(iter[c \ {Max(c)}], s[Max(c)], any)
  BY <1>2, <1>6
<1>8. FoldsInto(iter, n, T, onto, g)
  <2>1. \A c \in SUBSET (1..n) : c # {} => Max(c) \in 1..n
    BY <1>2, MaxInside
  <2>2. {} \in SUBSET (1..n)
    OBVIOUS
  <2>3. QED
    BY <1>4, <1>7, <2>1, <2>2 DEF FoldsInto
<1>9. PICK r : IsRun(r, iter, n, T, onto, g)
  BY <1>2, <1>3, <1>4, <1>8, FoldRuns
<1>10. \A k \in 1..n : r[k] = StoreStep(r[k - 1], s[k], any)
  <2>1. \A k \in 1..n : r[k - 1] \in T
    BY <1>2, <1>9 DEF IsRun
  <2>2. QED
    BY <1>4, <1>9, <2>1 DEF IsRun
<1>11. QED
  BY <1>1, <1>2, <1>9, <1>10 DEF n, T, IsRun

LEMMA StoredAllType ==
    ASSUME NEW s \in Seq(Text), NEW onto \in Storing(Atoms), NEW any \in BOOLEAN
    PROVE  StoredAll(s, onto, any) \in Storing(Atoms)
<1>1. PICK r \in [0..Len(s) -> Storing(Atoms)] : StoredAll(s, onto, any) = r[Len(s)]
  BY StoredAllSteps
<1>2. Len(s) \in Nat
  OBVIOUS
<1>3. QED
  BY <1>1, <1>2

LEMMA OntoType ==
    ASSUME NEW m \in Maps(Atoms)
    PROVE  Onto(m) \in Storing(Atoms)
  BY DEF Onto, Storing

LEMMA ParseKVPairsType ==
    ASSUME NEW line \in Text, NEW m \in Maps(Atoms)
    PROVE  parseKVPairs(line, m) \in Storing(Atoms)
<1>1. lex_split(line, " ") \in Seq(Text)
  BY LexSplitType DEF Text
<1>2. parseKVPairs(line, m) = StoredAll(lex_split(line, " "), Onto(m), TRUE)
  BY Zenon DEF parseKVPairs, StoredAll
<1>3. QED
  BY <1>1, <1>2, OntoType, StoredAllType

\* The scan of parseToolCall() for the bracket that closes the arguments.
Scans == [at : Nat, quote : Quotes, found : BOOLEAN]
ScanStart(start) == [at |-> start, quote |-> Unquoted, found |-> FALSE]
ScanStep(b, a) ==
    IF b.found THEN b
    ELSE [at |-> b.at + 1, quote |-> AfterAtom(b.quote, a), found |-> a = "]" /\ ~b.quote.open]
ScanEnd(s, start) ==
    LET step(b, a) == IF b.found THEN b
                      ELSE [at |-> b.at + 1, quote |-> AfterAtom(b.quote, a),
                            found |-> a = "]" /\ ~b.quote.open]
    IN  FoldLeft(step, [at |-> start, quote |-> Unquoted, found |-> FALSE], s)

LEMMA ScanStepType ==
    ASSUME NEW b \in Scans, NEW a
    PROVE  ScanStep(b, a) \in Scans /\ b.at \in Nat /\ ScanStep(b, a).at \in {b.at, b.at + 1}
<1>1. b.at \in Nat /\ b.quote \in Quotes /\ b.found \in BOOLEAN
  BY DEF Scans
<1>2. AfterAtom(b.quote, a) \in Quotes /\ (a = "]" /\ ~b.quote.open) \in BOOLEAN
  BY <1>1, AfterAtomType
<1> DEFINE quote == AfterAtom(b.quote, a)
           found == a = "]" /\ ~b.quote.open
<1>3. ScanStep(b, a) = IF b.found THEN b ELSE [at |-> b.at + 1, quote |-> quote, found |-> found]
  BY Zenon DEF ScanStep
<1>4. quote \in Quotes /\ found \in BOOLEAN
  BY <1>2
<1> HIDE DEF quote, found
<1>5. QED
  BY <1>1, <1>3, <1>4 DEF Scans

LEMMA ScanEndPlace ==
    ASSUME NEW A, NEW s \in Seq(A), NEW start \in Nat
    PROVE  ScanEnd(s, start).at \in start..(start + Len(s))
<1> DEFINE n == Len(s)
           T == Scans
           base == ScanStart(start)
           Folds(f) == f = [c \in SUBSET DOMAIN s |->
                              IF c = {} THEN base ELSE ScanStep(f[c \ {Max(c)}], s[Max(c)])]
           iter == CHOOSE f : Folds(f)
           g == [p \in (1..n) \X T |-> ScanStep(p[2], s[p[1]])]
<1>1. ScanEnd(s, start) = iter[DOMAIN s]
  BY Zenon DEF ScanEnd, ScanStep, ScanStart, FoldLeft, MapThenFoldSet
<1>2. n \in Nat /\ DOMAIN s = 1..n
  OBVIOUS
<1>3. base \in T /\ base.at = start /\ \A x \in T : \A a : ScanStep(x, a) \in T
  <2>1. base \in T /\ base.at = start
    BY DEF ScanStart, Scans, Quotes, Unquoted
  <2>2. QED
    BY <2>1, ScanStepType
<1> HIDE DEF n, T, base
<1>4. /\ g \in [(1..n) \X T -> T]
      /\ \A k \in 1..n, x \in T : g[<<k, x>>] = ScanStep(x, s[k])
  BY <1>2, <1>3
<1> HIDE DEF g
<1>5. \E f : Folds(f)
  <2>1. PICK f : IsRecursive(f, n, T, base, g)
    BY <1>2, <1>3, <1>4, FoldForm
  <2>2. \A c \in SUBSET (1..n) : f[c] = IF c = {} THEN base
                                        ELSE ScanStep(f[c \ {Max(c)}], s[Max(c)])
    BY <1>4, <2>1 DEF IsRecursive
  <2>3. f = [c \in SUBSET (1..n) |-> f[c]]
    BY <2>1 DEF IsRecursive
  <2>4. Folds(f)
    BY <1>2, <2>2, <2>3
  <2>5. QED
    BY <2>4
<1>6. Folds(iter)
  <2> HIDE DEF Folds
  <2>1. QED
    BY <1>5
<1> HIDE DEF iter
<1>7. \A c \in SUBSET (1..n) : iter[c] = IF c = {} THEN base
                                         ELSE ScanStep(iter[c \ {Max(c)}], s[Max(c)])
  BY <1>2, <1>6
<1>8. FoldsInto(iter, n, T, base, g)
  <2>1. \A c \in SUBSET (1..n) : c # {} => Max(c) \in 1..n
    BY <1>2, MaxInside
  <2>2. {} \in SUBSET (1..n)
    OBVIOUS
  <2>3. QED
    BY <1>4, <1>7, <2>1, <2>2 DEF FoldsInto
<1>9. PICK r : IsRun(r, iter, n, T, base, g)
  BY <1>2, <1>3, <1>4, <1>8, FoldRuns
<1> DEFINE S == {k \in 0..n : r[k].at \in start..(start + k)}
<1>10. ASSUME NEW k \in 1..n, k - 1 \in S PROVE k \in S
  <2>1. k - 1 \in 0..n /\ k \in 0..n /\ r[k - 1] \in T /\ r[k - 1].at \in start..(start + (k - 1))
    BY <1>10, <1>9 DEF IsRun
  <2>2. r[k] = ScanStep(r[k - 1], s[k])
    BY <1>4, <1>9, <2>1 DEF IsRun
  <2>3. r[k].at \in {r[k - 1].at, r[k - 1].at + 1}
    BY <2>1, <2>2, ScanStepType DEF T
  <2>4. QED
    BY <2>1, <2>3
<1>11. 0 \in S
  BY <1>2, <1>3, <1>9 DEF IsRun
<1> HIDE DEF S
<1>12. n \in S
  BY <1>2, <1>10, <1>11, UpTo
<1>13. QED
  BY <1>1, <1>2, <1>9, <1>12 DEF S, n, IsRun

LEMMA BracketPlace ==
    ASSUME NEW A, NEW line \in Seq(A), NEW start \in 0..Len(line)
    PROVE  BracketEnd(line, start) \in 0..Len(line)
<1> DEFINE last == ScanEnd(After(line, start), start)
<1>1. BracketEnd(line, start) = IF last.found THEN last.at ELSE 0
  BY Zenon DEF BracketEnd, ScanEnd
<1>2. After(line, start) \in Seq(A) /\ Len(After(line, start)) = Len(line) - start
      /\ Len(line) \in Nat /\ start \in Nat
  BY PartsType
<1>3. last.at \in start..(start + (Len(line) - start))
  BY <1>2, ScanEndPlace
<1> HIDE DEF last
<1>4. last.at \in 0..Len(line)
  BY <1>2, <1>3
<1>5. QED
  BY <1>1, <1>4

Call == [name : Text, args : Maps(Atoms), method : {m \in Seq(Text) : Len(m) <= 1}]

LEMMA NoPairsType == NoPairs \in Maps(Atoms)
<1>1. NoPairs \in [{} -> Seq(Atoms)] /\ {} \in SUBSET Seq(Atoms)
  BY DEF NoPairs
<1>2. QED
  BY <1>1 DEF Maps

LEMMA ParseToolCallType ==
    ASSUME NEW line \in Text
    PROVE  /\ parseToolCall(line).call \in Call
           /\ parseToolCall(line).errors \in SUBSET {"malformed", "duplicate", "unclosed"}
<1> DEFINE start  == Find(line, "[")
           end    == IF start = 0 THEN 0 ELSE BracketEnd(line, start)
           inside == lex_split(SubSeq(line, start + 1, end - 1), ";")
           args   == IF end = 0 THEN Onto(NoPairs) ELSE StoredAll(inside, Onto(NoPairs), FALSE)
           behind == Find(After(line, end), ">")
           marker == IF start = 0 THEN Find(line, ">")
                     ELSE IF end = 0 \/ behind = 0 THEN 0 ELSE end + behind
           nameTo == IF start # 0 THEN start ELSE IF marker # 0 THEN marker ELSE Len(line) + 1
           name   == trim(SubSeq(line, 2, nameTo - 1))
           method == IF marker = 0 THEN NoMethod ELSE <<trim(After(line, marker))>>
           errors == args.errors \cup ErrorIf(start # 0 /\ end = 0, "unclosed")
<1>1. parseToolCall(line) =
        [call |-> [name |-> name, args |-> args.pairs, method |-> method], errors |-> errors]
  BY Zenon DEF parseToolCall, StoredAll
<1>2. Len(line) \in Nat /\ line \in Seq(Atoms) /\ start \in 0..Len(line)
  BY FindPlace DEF Text
<1>3. end \in 0..Len(line)
  BY <1>2, BracketPlace
<1> HIDE DEF end
<1>4. SubSeq(line, start + 1, end - 1) \in Seq(Atoms)
  BY <1>2, <1>3, SubSeqType
<1>5. inside \in Seq(Text)
  BY <1>4, LexSplitType DEF Text
<1> HIDE DEF inside
<1>6. args \in Storing(Atoms)
  BY <1>5, NoPairsType, OntoType, StoredAllType
<1> HIDE DEF args
<1>7. After(line, end) \in Seq(Atoms) /\ behind \in 0..(Len(line) - end)
  BY <1>2, <1>3, PartsType, FindPlace
<1>8. marker \in 0..Len(line)
  <2>1. Find(line, ">") \in 0..Len(line)
    BY <1>2, FindPlace
  <2> HIDE DEF start, behind
  <2>2. QED
    BY <1>2, <1>3, <1>7, <2>1
<1> HIDE DEF marker
<1>9. nameTo - 1 \in Int /\ nameTo - 1 <= Len(line)
  BY <1>2, <1>8
<1> HIDE DEF nameTo, start
<1>10. name \in Text
  <2>1. SubSeq(line, 2, nameTo - 1) \in Seq(Atoms)
    BY <1>2, <1>9, SubSeqType
  <2>2. QED
    BY <2>1, TrimType DEF Text
<1> HIDE DEF name
<1>11. method \in Seq(Text) /\ Len(method) <= 1
  <2>1. After(line, marker) \in Seq(Atoms)
    BY <1>2, <1>8, PartsType
  <2>2. trim(After(line, marker)) \in Text
    BY <2>1, TrimType DEF Text
  <2>3. QED
    BY <2>2 DEF NoMethod
<1> HIDE DEF method
<1>12. args.pairs \in Maps(Atoms) /\ args.errors \in SUBSET {"malformed", "duplicate"}
  BY <1>6 DEF Storing
<1>13. errors \in SUBSET {"malformed", "duplicate", "unclosed"}
  BY <1>12 DEF ErrorIf
<1> HIDE DEF errors
<1>14. [name |-> name, args |-> args.pairs, method |-> method] \in Call
  BY <1>10, <1>11, <1>12 DEF Call
<1>15. QED
  BY <1>1, <1>13, <1>14

\* The header's fields are texts of the atoms of its line.
Setting(A) == [fields : [HeaderKeys -> Seq(A)], errors : SUBSET {"header"}]

LEMMA SetFieldType ==
    ASSUME NEW A, NEW r \in Setting(A), NEW token \in Seq(A)
    PROVE  SetField(r, token) \in Setting(A)
<1> DEFINE colon == Find(token, ":")
           key == Before(token, colon)
           val == After(token, colon)
<1>1. SetField(r, token) =
        IF colon = 0 \/ Len(key) # 1 \/ key[1] \notin HeaderKeys
        THEN [r EXCEPT !.errors = @ \cup {"header"}]
        ELSE IF key[1] = "HR" /\ (val = <<>> \/ val[1] \notin Numbers)
        THEN [r EXCEPT !.fields["HR"] = <<>>, !.errors = @ \cup {"header"}]
        ELSE [r EXCEPT !.fields[key[1]] = IF key[1] = "HR" THEN <<val[1]>> ELSE val]
  BY Zenon DEF SetField
<1>2. key \in Seq(A) /\ val \in Seq(A)
  BY FindPlace, PartsType
<1>3. r.fields \in [HeaderKeys -> Seq(A)] /\ r.errors \in SUBSET {"header"}
      /\ r = [fields |-> r.fields, errors |-> r.errors]
  BY DEF Setting
<1> HIDE DEF colon, key, val
<1>4. [r EXCEPT !.errors = @ \cup {"header"}] \in Setting(A)
  BY <1>3 DEF Setting
<1>5. ASSUME NEW k \in HeaderKeys, NEW v \in Seq(A)
      PROVE  /\ [r EXCEPT !.fields[k] = v] \in Setting(A)
             /\ [r EXCEPT !.fields[k] = v, !.errors = @ \cup {"header"}] \in Setting(A)
  <2> DEFINE f == r.fields
             e == r.errors
             h == [f EXCEPT ![k] = v]
  <2>1. h \in [HeaderKeys -> Seq(A)] /\ e \cup {"header"} \in SUBSET {"header"}
        /\ e \in SUBSET {"header"}
    BY <1>3
  <2>2. r = [fields |-> f, errors |-> e]
    BY <1>3
  <2> HIDE DEF f, e
  <2>3. [r EXCEPT !.fields[k] = v] = [fields |-> h, errors |-> e]
    BY <2>2
  <2>4. [r EXCEPT !.fields[k] = v, !.errors = @ \cup {"header"}]
          = [fields |-> h, errors |-> e \cup {"header"}]
    <3> DEFINE E == r.errors \cup {"header"}
    <3>1. E = e \cup {"header"}
      BY <2>2
    <3> HIDE DEF E
    <3>2. [r EXCEPT !.fields[k] = v, !.errors = E]
            = [[r EXCEPT !.fields[k] = v] EXCEPT !.errors = E]
      BY <2>2
    <3> HIDE DEF h
    <3>3. [[fields |-> h, errors |-> e] EXCEPT !.errors = E] = [fields |-> h, errors |-> E]
      OBVIOUS
    <3>4. QED
      BY <2>3, <3>1, <3>2, <3>3 DEF E
  <2> HIDE DEF h
  <2>5. QED
    BY <2>1, <2>3, <2>4 DEF Setting
<1>6. [r EXCEPT !.fields["HR"] = <<>>, !.errors = @ \cup {"header"}] \in Setting(A)
  <2>1. "HR" \in HeaderKeys /\ <<>> \in Seq(A)
    BY DEF HeaderKeys
  <2>2. QED
    BY <1>5, <2>1, Zenon
<1>7. CASE ~(colon = 0 \/ Len(key) # 1 \/ key[1] \notin HeaderKeys)
           /\ ~(key[1] = "HR" /\ (val = <<>> \/ val[1] \notin Numbers))
  <2> DEFINE v == IF key[1] = "HR" THEN <<val[1]>> ELSE val
  <2>1. v \in Seq(A)
    <3>1. CASE key[1] = "HR"
      <4>1. val # <<>>
        BY <1>7, <3>1
      <4>2. val[1] \in A
        BY <1>2, <4>1
      <4>3. QED
        BY <3>1, <4>2
    <3>2. CASE key[1] # "HR"
      BY <1>2, <3>2
    <3>3. QED
      BY <3>1, <3>2
  <2>2. SetField(r, token) = [r EXCEPT !.fields[key[1]] = v]
    BY <1>1, <1>7, Zenon
  <2> HIDE DEF v
  <2>3. QED
    BY <1>5, <1>7, <2>1, <2>2
<1>8. QED
  BY <1>1, <1>4, <1>6, <1>7, Zenon

NothingSet == [fields |-> NoFields, errors |-> {}]

\* Setting one field after another.
LEMMA SetFieldSteps ==
    ASSUME NEW A, NEW s \in Seq(Seq(A))
    PROVE  \E r \in [0..Len(s) -> Setting(A)] :
              /\ r[0] = NothingSet
              /\ \A k \in 1..Len(s) : r[k] = SetField(r[k - 1], s[k])
              /\ FoldLeft(SetField, NothingSet, s) = r[Len(s)]
<1> DEFINE n == Len(s)
           T == Setting(A)
           Folds(f) == f = [c \in SUBSET DOMAIN s |->
                              IF c = {} THEN NothingSet ELSE SetField(f[c \ {Max(c)}], s[Max(c)])]
           iter == CHOOSE f : Folds(f)
           g == [p \in (1..n) \X T |-> SetField(p[2], s[p[1]])]
<1>1. FoldLeft(SetField, NothingSet, s) = iter[DOMAIN s]
  BY Zenon DEF FoldLeft, MapThenFoldSet
<1>2. n \in Nat /\ DOMAIN s = 1..n /\ \A k \in 1..n : s[k] \in Seq(A)
  OBVIOUS
<1>3. NothingSet \in T /\ \A x \in T, token \in Seq(A) : SetField(x, token) \in T
  <2>1. NothingSet \in T
    BY DEF NothingSet, Setting, NoFields
  <2>2. QED
    BY <2>1, SetFieldType
<1> HIDE DEF n, T
<1>4. /\ g \in [(1..n) \X T -> T]
      /\ \A k \in 1..n, x \in T : g[<<k, x>>] = SetField(x, s[k])
  BY <1>2, <1>3
<1> HIDE DEF g
<1>5. \E f : Folds(f)
  <2>1. PICK f : IsRecursive(f, n, T, NothingSet, g)
    BY <1>2, <1>3, <1>4, FoldForm
  <2>2. \A c \in SUBSET (1..n) : f[c] = IF c = {} THEN NothingSet
                                        ELSE SetField(f[c \ {Max(c)}], s[Max(c)])
    BY <1>4, <2>1 DEF IsRecursive
  <2>3. f = [c \in SUBSET (1..n) |-> f[c]]
    BY <2>1 DEF IsRecursive
  <2>4. Folds(f)
    BY <1>2, <2>2, <2>3
  <2>5. QED
    BY <2>4
<1>6. Folds(iter)
  <2> HIDE DEF Folds
  <2>1. QED
    BY <1>5
<1> HIDE DEF iter
<1>7. \A c \in SUBSET (1..n) : iter[c] = IF c = {} THEN NothingSet
                                         ELSE SetField(iter[c \ {Max(c)}], s[Max(c)])
  BY <1>2, <1>6
<1>8. FoldsInto(iter, n, T, NothingSet, g)
  <2>1. \A c \in SUBSET (1..n) : c # {} => Max(c) \in 1..n
    BY <1>2, MaxInside
  <2>2. {} \in SUBSET (1..n)
    OBVIOUS
  <2>3. QED
    BY <1>4, <1>7, <2>1, <2>2 DEF FoldsInto
<1>9. PICK r : IsRun(r, iter, n, T, NothingSet, g)
  BY <1>2, <1>3, <1>4, <1>8, FoldRuns
<1>10. \A k \in 1..n : r[k] = SetField(r[k - 1], s[k])
  <2>1. \A k \in 1..n : r[k - 1] \in T
    BY <1>2, <1>9 DEF IsRun
  <2>2. QED
    BY <1>4, <1>9, <2>1 DEF IsRun
<1>11. QED
  BY <1>1, <1>2, <1>9, <1>10 DEF n, T, IsRun

LEMMA ParseHeaderType ==
    ASSUME NEW A, NEW line \in Seq(A)
    PROVE  parseHeader(line) \in Setting(A)
<1> DEFINE s == lex_split(line, " ")
<1>1. s \in Seq(Seq(A)) /\ parseHeader(line) = FoldLeft(SetField, NothingSet, s)
  BY LexSplitType, Zenon DEF parseHeader, NothingSet
<1> HIDE DEF s
<1>2. PICK r \in [0..Len(s) -> Setting(A)] : FoldLeft(SetField, NothingSet, s) = r[Len(s)]
  BY <1>1, SetFieldSteps
<1>3. Len(s) \in 0..Len(s)
  BY <1>1
<1>4. QED
  BY <1>1, <1>2, <1>3

-----------------------------------------------------------------------------
\* The record of a parser keeps its type.

Built(n) == [role : Text, kvpairs : Maps(Atoms), tool_calls : Seq(Call), lines : SUBSET (1..n)]

Kinds == {"oversized", "empty", "header", "quote", "bracket", "malformed", "duplicate",
          "unclosed"}

Notes(n) == [line : 0..n, kind : Kinds]

\* ParserTypeOK, with what the scanners make of a line.
ParserTyped(p) ==
    /\ IsParser(p)
    /\ p.mode \in {"STRICT", "TOLERANT"}
    /\ p.payload \in Seq(Text)
    /\ p.at \in 0..Len(p.payload)
    /\ p.mark \in 0..Len(p.payload)
    /\ p.phase \in {"start", "header", "body", "done", "threw"}
    /\ p.phase = "start" => p.at = 0
    /\ p.header_line \in Text
    /\ p.header \in [HeaderKeys -> Text]
    /\ p.current_stmt \in Built(Len(p.payload))
    /\ p.statements \in Seq(Built(Len(p.payload)))
    /\ p.healed_draft \in Seq(Built(Len(p.payload)))
    /\ {p.has_role, p.current_stmt_healed, p.recovery_attempted} \subseteq BOOLEAN
    /\ p.recovery_attempted = (p.healed_draft # <<>>)
    /\ p.diagnostic \subseteq Notes(Len(p.payload))

LEMMA BuiltIsStatement ==
    ASSUME NEW payload \in Seq(Text), NEW s \in Built(Len(payload))
    PROVE  IsStatement(s, payload)
<1>1. ASSUME NEW m \in Maps(Atoms) PROVE IsMap(m)
  <2>1. DOMAIN m \in SUBSET Seq(Atoms) /\ m \in [DOMAIN m -> Seq(Atoms)]
    BY MapsAre
  <2>2. QED
    BY <2>1 DEF IsMap, Text
<1>2. s.role \in Text /\ s.kvpairs \in Maps(Atoms) /\ s.tool_calls \in Seq(Call)
      /\ s.lines \in SUBSET (1..Len(payload))
  BY DEF Built
<1>3. ASSUME NEW k \in DOMAIN s.tool_calls
      PROVE  /\ s.tool_calls[k].name \in Text /\ IsMap(s.tool_calls[k].args)
             /\ s.tool_calls[k].method \in Seq(Text) /\ Len(s.tool_calls[k].method) <= 1
  <2>1. s.tool_calls[k] \in Call
    BY <1>2
  <2>2. s.tool_calls[k].args \in Maps(Atoms)
    BY <2>1 DEF Call
  <2>3. QED
    BY <1>1, <2>1, <2>2 DEF Call
<1>4. DOMAIN payload = 1..Len(payload)
  OBVIOUS
<1>5. QED
  BY <1>1, <1>2, <1>3, <1>4 DEF IsStatement

LEMMA TypedIsTypeOK ==
    ASSUME NEW p, ParserTyped(p)
    PROVE  ParserTypeOK(p)
<1> DEFINE B == Built(Len(p.payload))
<1>1. p.payload \in Seq(Text) /\ p.current_stmt \in B /\ p.statements \in Seq(B)
      /\ p.healed_draft \in Seq(B)
  BY DEF ParserTyped
<1>2. \A s \in B : IsStatement(s, p.payload)
  BY <1>1, BuiltIsStatement
<1> HIDE DEF B
<1>3. Range(p.statements) \subseteq B /\ Range(p.healed_draft) \subseteq B
  BY <1>1 DEF Range
<1>4. \A s \in {p.current_stmt} \cup Range(p.statements) \cup Range(p.healed_draft) :
         IsStatement(s, p.payload)
  BY <1>1, <1>2, <1>3
<1>5. QED
  BY <1>4 DEF ParserTyped, ParserTypeOK, Notes, Kinds

-----------------------------------------------------------------------------
LEMMA ReportingTyped ==
    ASSUME NEW p, ParserTyped(p), NEW r, NEW errors,
           p.mode = "STRICT" => r.mode = "STRICT",
           ~(p.mode = "STRICT" /\ errors # {}) => ParserTyped(r) /\ errors \subseteq Kinds
    PROVE  ParserTyped(Reporting(p, r, errors))
<1>1. CASE p.mode = "STRICT" /\ errors # {}
  <2> DEFINE q == [p EXCEPT !.phase = "threw"]
  <2>1. Reporting(p, r, errors) = q
    BY <1>1 DEF Reporting
  <2>2. ParserTyped(q)
    BY DEF ParserTyped, IsParser, Fields
  <2>3. QED
    BY <2>1, <2>2
<1>2. CASE ~(p.mode = "STRICT" /\ errors # {})
  <2> DEFINE noted == {[line |-> r.at, kind |-> e] : e \in errors}
             q == [r EXCEPT !.diagnostic = @ \cup noted]
  <2>1. ParserTyped(r) /\ errors \subseteq Kinds
    BY <1>2
  <2>2. Reporting(p, r, errors) = q
    BY <1>2, Zenon DEF Reporting
  <2>3. noted \subseteq Notes(Len(r.payload))
    BY <2>1 DEF Notes, ParserTyped
  <2> HIDE DEF noted
  <2>4. ParserTyped(q)
    BY <2>1, <2>3 DEF ParserTyped, IsParser, Fields
  <2>5. QED
    BY <2>2, <2>4
<1>3. QED
  BY <1>1, <1>2

LEMMA ChargedTyped ==
    ASSUME NEW r, ParserTyped(r), r.phase = "body", MoreLines(r), NEW errors
    PROVE  ParserTyped(Charged(r, errors)) /\ Charged(r, errors).mode = r.mode
<1> DEFINE c == Charged(r, errors)
           n == Len(r.payload)
           lines == r.current_stmt.lines \cup {r.at + 1}
           stmt == [r.current_stmt EXCEPT !.lines = lines]
           healed == r.current_stmt_healed \/ Heals(errors)
<1>1. n \in Nat /\ r.at \in 0..n /\ r.at < n /\ r.current_stmt \in Built(n)
      /\ r.current_stmt_healed \in BOOLEAN
  BY DEF ParserTyped, MoreLines
<1>2. lines \subseteq 1..n
  BY <1>1 DEF Built
<1>3. stmt \in Built(n)
  <2> HIDE DEF lines, n
  <2>1. QED
    BY <1>1, <1>2 DEF Built
<1>4. healed \in BOOLEAN
  OBVIOUS
<1> DEFINE at == r.at + 1
           q == [r EXCEPT !.at = at, !.current_stmt = stmt, !.current_stmt_healed = healed]
<1>5. c = q
  BY DEF Charged, ParserTyped, IsParser, Fields
<1>6. at \in 0..n
  BY <1>1
<1> HIDE DEF c, stmt, healed, at
<1>7. ParserTyped(q) /\ q.mode = r.mode
  BY <1>3, <1>4, <1>6 DEF ParserTyped, IsParser, Fields
<1>8. QED
  BY <1>5, <1>7 DEF c

LEMMA EmptyTyped == ASSUME NEW n PROVE EmptyStatement \in Built(n)
  BY NoPairsType DEF EmptyStatement, Built, Text

LEMMA PushedTyped ==
    ASSUME NEW p, ParserTyped(p)
    PROVE  /\ ParserTyped(Pushed(p))
           /\ \A f \in {"mode", "payload", "at", "phase"} : Pushed(p)[f] = p[f]
<1> DEFINE B == Built(Len(p.payload))
           s == p.current_stmt
<1>1. s \in B /\ p.statements \in Seq(B) /\ p.healed_draft \in Seq(B)
  BY DEF ParserTyped
<1> HIDE DEF B
<1>2. Append(p.healed_draft, s) \in Seq(B) /\ Append(p.statements, s) \in Seq(B)
      /\ Append(p.healed_draft, s) # <<>>
  BY <1>1
<1> HIDE DEF s
<1>3. CASE p.current_stmt_healed
  <2> DEFINE list == Append(p.healed_draft, s)
             q == [p EXCEPT !.healed_draft = list, !.recovery_attempted = TRUE]
  <2>1. Pushed(p) = q
    BY <1>3, Zenon DEF Pushed, s
  <2>2. list \in Seq(B) /\ list # <<>>
    BY <1>2
  <2> HIDE DEF list
  <2>3. ParserTyped(q) /\ \A f \in {"mode", "payload", "at", "phase"} : q[f] = p[f]
    BY <2>2 DEF ParserTyped, IsParser, Fields, B
  <2>4. QED
    BY <2>1, <2>3
<1>4. CASE ~p.current_stmt_healed
  <2> DEFINE list == Append(p.statements, s)
             q == [p EXCEPT !.statements = list]
  <2>1. Pushed(p) = q
    BY <1>4, Zenon DEF Pushed, s
  <2>2. list \in Seq(B)
    BY <1>2
  <2> HIDE DEF list
  <2>3. ParserTyped(q) /\ \A f \in {"mode", "payload", "at", "phase"} : q[f] = p[f]
    BY <2>2 DEF ParserTyped, IsParser, Fields, B
  <2>4. QED
    BY <2>1, <2>3
<1>5. QED
  BY <1>3, <1>4

LEMMA FlushedTyped ==
    ASSUME NEW p, ParserTyped(p)
    PROVE  /\ ParserTyped(Flushed(p))
           /\ \A f \in {"mode", "payload", "at", "phase"} : Flushed(p)[f] = p[f]
<1> DEFINE r == Pushed(p)
           q == [r EXCEPT !.current_stmt = EmptyStatement, !.current_stmt_healed = FALSE]
<1>1. ParserTyped(r) /\ \A f \in {"mode", "payload", "at", "phase"} : r[f] = p[f]
  BY PushedTyped
<1>2. Flushed(p) = IF HasStatement(p) THEN q ELSE p
  BY Zenon DEF Flushed
<1> HIDE DEF r
<1>3. EmptyStatement \in Built(Len(r.payload))
  BY EmptyTyped
<1> DEFINE e == EmptyStatement
<1> HIDE DEF e
<1>4. ParserTyped(q) /\ \A f \in {"mode", "payload", "at", "phase"} : q[f] = r[f]
  BY <1>1, <1>3 DEF ParserTyped, IsParser, Fields
<1>5. QED
  BY <1>1, <1>2, <1>4

-----------------------------------------------------------------------------
\* The scanners of the body.

LEMMA ProbeType ==
    ASSUME NEW p, ParserTyped(p), MoreLines(p)
    PROVE  Probe(p) \in Text
<1>1. p.at + 1 \in 1..Len(p.payload) /\ p.payload \in Seq(Text)
  BY DEF ParserTyped, MoreLines
<1>2. p.payload[p.at + 1] \in Text
  BY <1>1
<1>3. QED
  BY <1>2, TrimType DEF Probe, Text

LEMMA RequotedType ==
    ASSUME NEW line \in Text
    PROVE  Requoted(line) \in Text
<1>1. Quote \in Atoms
  BY DEF Atoms, Punctuation, Quote
<1>2. Append(line, Quote) \in Text
  BY <1>1 DEF Text
<1>3. QED
  BY <1>2, Zenon DEF Requoted

LEMMA RebracketedType ==
    ASSUME NEW line \in Text
    PROVE  Rebracketed(line) \in Text
<1> DEFINE space == Find(line, " ")
           front == Before(line, space)
           back == SubSeq(line, space, Len(line))
<1>1. Rebracketed(line) = IF Find(line, "]") # 0 THEN line
                          ELSE IF space = 0 THEN Append(line, "]")
                          ELSE front \o <<"]">> \o back
  BY Zenon DEF Rebracketed
<1>2. line \in Seq(Atoms) /\ Len(line) \in Nat
  BY DEF Text
<1>3. space \in 0..Len(line)
  BY <1>2, FindPlace
<1>4. "]" \in Atoms
  BY DEF Atoms, Punctuation
<1>5. Append(line, "]") \in Seq(Atoms) /\ <<"]">> \in Seq(Atoms)
  BY <1>2, <1>4
<1>6. front \in Seq(Atoms)
  BY <1>2, <1>3, PartsType
<1> HIDE DEF space
<1>7. ASSUME space # 0 PROVE back \in Seq(Atoms)
  <2>1. space \in Nat /\ space >= 1 /\ Len(line) \in Int /\ Len(line) <= Len(line)
    BY <1>2, <1>3, <1>7
  <2>2. QED
    BY <1>2, <2>1, SubSeqType
<1> HIDE DEF front, back, space
<1> DEFINE bracket == <<"]">>
<1>8. bracket \in Seq(Atoms)
  BY <1>5
<1> HIDE DEF bracket
<1>9. space # 0 => front \o bracket \o back \in Seq(Atoms)
  BY <1>6, <1>7, <1>8
<1>10. QED
  BY <1>1, <1>2, <1>5, <1>9 DEF Text, bracket

LEMMA WithRoleType ==
    ASSUME NEW n, NEW s \in Built(n), NEW line \in Text
    PROVE  /\ WithRole(s, line) \in Built(n)
           /\ RoleErrors(s, line) \subseteq Kinds
<1> DEFINE whole == Rebracketed(Requoted(line))
           end == Find(whole, "]")
           name == SubSeq(whole, 2, end - 1)
           result == parseKVPairs(After(whole, end), s.kvpairs)
<1>1. whole \in Seq(Atoms) /\ Len(whole) \in Nat
  BY RequotedType, RebracketedType DEF Text
<1> HIDE DEF whole
<1>2. end \in 0..Len(whole)
  BY <1>1, FindPlace
<1>3. name \in Text /\ After(whole, end) \in Text
  <2>1. After(whole, end) \in Seq(Atoms)
    BY <1>1, <1>2, PartsType
  <2>2. end - 1 \in Int /\ end - 1 <= Len(whole)
    BY <1>1, <1>2
  <2>3. name \in Seq(Atoms)
    BY <1>1, <2>2, SubSeqType
  <2>4. QED
    BY <2>1, <2>3 DEF Text
<1>4. s.kvpairs \in Maps(Atoms) /\ s = [f \in StatementFields |-> s[f]]
  BY DEF Built, StatementFields
<1>5. result \in Storing(Atoms)
  BY <1>3, <1>4, ParseKVPairsType
<1>6. result.pairs \in Maps(Atoms) /\ result.errors \subseteq {"malformed", "duplicate"}
  BY <1>5 DEF Storing
<1>7. WithRole(s, line) = [s EXCEPT !.role = name, !.kvpairs = result.pairs]
  BY <1>4, Zenon DEF WithRole, whole
<1>8. RoleErrors(s, line) = QuoteError(line) \cup ErrorIf(Find(Requoted(line), "]") = 0, "bracket")
                              \cup result.errors
  BY Zenon DEF RoleErrors, whole
<1> HIDE DEF name, result
<1>9. WithRole(s, line) \in Built(n)
  BY <1>3, <1>6, <1>7 DEF Built
<1>10. QED
  BY <1>6, <1>8, <1>9 DEF QuoteError, ErrorIf, Kinds

LEMMA StepTyped ==
    ASSUME NEW p, ParserTyped(p), NEW q, Step(p, q)
    PROVE  ParserTyped(q)
<1>1. CASE Refuse(p, q)
  <2> DEFINE r == [p EXCEPT !.phase = "done"]
  <2>1. q = Reporting(p, r, {"oversized"}) \/ q = Reporting(p, r, {"empty"})
    BY <1>1 DEF Refuse
  <2>2. ParserTyped(r) /\ r.mode = p.mode
    BY DEF ParserTyped, IsParser, Fields
  <2>3. {"oversized"} \subseteq Kinds /\ {"empty"} \subseteq Kinds
    BY DEF Kinds
  <2> HIDE DEF r
  <2>4. QED
    BY <2>1, <2>2, <2>3, ReportingTyped
<1>2. CASE ReadHeaderLine(p, q)
  <2>1. /\ q = [p EXCEPT !.phase = "header", !.at = 1, !.mark = 1, !.header_line = Probe(p)]
        /\ p.payload # <<>>
        /\ p.phase = "start" /\ p.payload \in Seq(Text) /\ Len(p.payload) \in Nat
    BY <1>2 DEF ReadHeaderLine, ParserTyped
  <2>2. 1 \in 0..Len(p.payload)
    BY <2>1
  <2>3. MoreLines(p)
    BY <2>1 DEF ParserTyped, MoreLines
  <2> DEFINE line == Probe(p)
  <2>4. line \in Text
    BY <2>3, ProbeType
  <2> HIDE DEF line
  <2>5. q = [p EXCEPT !.phase = "header", !.at = 1, !.mark = 1, !.header_line = line]
    BY <2>1 DEF line
  <2>6. QED
    BY <2>2, <2>4, <2>5 DEF ParserTyped, IsParser, Fields
<1>3. CASE FoldLine(p, q)
  <2> DEFINE line == IF Probe(p) = <<>> THEN p.header_line ELSE p.header_line \o <<" ">> \o Probe(p)
             at == p.at + 1
  <2>1. /\ p.phase = "header" /\ MoreLines(p)
        /\ q = [p EXCEPT !.at = at, !.mark = at, !.header_line = line]
    BY <1>3, Zenon DEF FoldLine, BelongsToHeader
  <2>2. line \in Text
    <3>1. Probe(p) \in Seq(Atoms) /\ p.header_line \in Seq(Atoms)
      BY <2>1, ProbeType DEF Text, ParserTyped
    <3>2. " " \in Atoms
      BY DEF Atoms, Punctuation, White
    <3>3. <<" ">> \in Seq(Atoms)
      <4>1. \A a \in Atoms : <<a>> \in Seq(Atoms)
        OBVIOUS
      <4>2. QED
        BY <3>2, <4>1, Zenon
    <3> DEFINE probe == Probe(p)
               space == <<" ">>
    <3>4. space \in Seq(Atoms) /\ probe \in Seq(Atoms) /\ p.header_line \in Seq(Atoms)
      BY <3>1, <3>3, Zenon
    <3> HIDE DEF probe, space
    <3>5. p.header_line \o space \o probe \in Seq(Atoms)
      BY <3>4
    <3>6. QED
      BY <3>1, <3>5, Zenon DEF Text, probe, space
  <2>3. at \in 0..Len(p.payload)
    BY <2>1 DEF ParserTyped, MoreLines
  <2> HIDE DEF line, at
  <2>4. QED
    BY <2>1, <2>2, <2>3 DEF ParserTyped, IsParser, Fields
<1>4. CASE ParseHeader(p, q)
  <2> DEFINE header == parseHeader(p.header_line)
             fields == header.fields
             r == [p EXCEPT !.phase = "body", !.at = p.mark, !.header = fields]
             missing == p.mode = "STRICT" /\ MissingField(fields)
             errors == header.errors \cup ErrorIf(missing, "missing")
  <2>1. q = Reporting(p, r, errors)
    BY <1>4, Zenon DEF ParseHeader
  <2>2. fields \in [HeaderKeys -> Text] /\ header.errors \subseteq {"header"}
    <3>1. p.header_line \in Seq(Atoms)
      BY DEF ParserTyped, Text
    <3>2. header \in Setting(Atoms)
      BY <3>1, ParseHeaderType
    <3> HIDE DEF header
    <3>3. QED
      BY <3>2 DEF Setting, Text
  <2> HIDE DEF header
  <2>3. ~(p.mode = "STRICT" /\ errors # {}) => errors \subseteq Kinds
    BY <2>2 DEF ErrorIf, Kinds
  <2> HIDE DEF fields, errors
  <2>4. ParserTyped(r) /\ r.mode = p.mode
    BY <2>2 DEF ParserTyped, IsParser, Fields
  <2> HIDE DEF r
  <2>5. QED
    BY <2>1, <2>3, <2>4, ReportingTyped
<1>5. CASE SkipBlank(p, q)
  <2> DEFINE at == p.at + 1
  <2>1. p.phase = "body" /\ q = [p EXCEPT !.at = at] /\ MoreLines(p)
    BY <1>5 DEF SkipBlank
  <2>2. at \in 0..Len(p.payload)
    BY <2>1 DEF ParserTyped, MoreLines
  <2> HIDE DEF at
  <2>3. QED
    BY <2>1, <2>2 DEF ParserTyped, IsParser, Fields
<1>6. CASE ReadRole(p, q)
  <2> DEFINE r == Flushed(p)
             line == Probe(p)
             stmt == WithRole(r.current_stmt, line)
             errors == RoleErrors(r.current_stmt, line)
             s == [r EXCEPT !.current_stmt = stmt, !.has_role = TRUE]
  <2>1. p.phase = "body" /\ MoreLines(p) /\ q = Reporting(p, Charged(s, errors), errors)
    BY <1>6, Zenon DEF ReadRole
  <2>2. ParserTyped(r) /\ r.mode = p.mode /\ r.at = p.at /\ r.payload = p.payload
        /\ r.phase = p.phase
    BY FlushedTyped
  <2>3. line \in Text
    BY <2>1, ProbeType
  <2> HIDE DEF r, line
  <2>4. stmt \in Built(Len(r.payload)) /\ errors \subseteq Kinds
    <3>1. r.current_stmt \in Built(Len(r.payload))
      BY <2>2 DEF ParserTyped
    <3> DEFINE n == Len(r.payload)
               c == r.current_stmt
    <3> HIDE DEF n
    <3>2. c \in Built(n)
      BY <3>1 DEF n
    <3> HIDE DEF c
    <3>3. WithRole(c, line) \in Built(n) /\ RoleErrors(c, line) \subseteq Kinds
      BY <2>3, <3>2, WithRoleType
    <3>4. QED
      BY <3>3 DEF c, n
  <2> HIDE DEF stmt, errors
  <2>5. ParserTyped(s) /\ s.mode = r.mode /\ s.at = r.at /\ s.payload = r.payload
        /\ s.phase = r.phase
    BY <2>2, <2>4 DEF ParserTyped, IsParser, Fields
  <2> HIDE DEF s
  <2>6. MoreLines(s)
    BY <2>1, <2>2, <2>5 DEF MoreLines
  <2>7. ParserTyped(Charged(s, errors)) /\ Charged(s, errors).mode = p.mode
    BY <2>1, <2>2, <2>5, <2>6, ChargedTyped
  <2>8. QED
    BY <2>1, <2>4, <2>7, ReportingTyped
<1>7. CASE ReadTool(p, q)
  <2> DEFINE line == Requoted(Probe(p))
             tool == parseToolCall(line)
             call == tool.call
             errors == QuoteError(Probe(p)) \cup tool.errors
             s == [p EXCEPT !.current_stmt.tool_calls = Append(@, call)]
  <2>1. p.phase = "body" /\ MoreLines(p) /\ q = Reporting(p, Charged(s, errors), errors)
    BY <1>7, Zenon DEF ReadTool
  <2>2. line \in Text
    BY <2>1, ProbeType, RequotedType
  <2> HIDE DEF line
  <2>3. call \in Call /\ tool.errors \subseteq {"malformed", "duplicate", "unclosed"}
    BY <2>2, ParseToolCallType
  <2> HIDE DEF tool
  <2>4. errors \subseteq Kinds
    BY <2>3 DEF QuoteError, ErrorIf, Kinds
  <2> HIDE DEF call, errors
  <2> DEFINE calls == Append(p.current_stmt.tool_calls, call)
             stmt == [p.current_stmt EXCEPT !.tool_calls = calls]
             r == [p EXCEPT !.current_stmt = stmt]
  <2>5. stmt \in Built(Len(p.payload))
    <3>1. p.current_stmt \in Built(Len(p.payload)) /\ p.current_stmt.tool_calls \in Seq(Call)
      BY DEF ParserTyped, Built
    <3>2. calls \in Seq(Call)
      BY <2>3, <3>1
    <3> DEFINE c == p.current_stmt
    <3> HIDE DEF calls, c
    <3>3. [c EXCEPT !.tool_calls = calls] \in Built(Len(p.payload))
      BY <3>1, <3>2 DEF Built, c
    <3>4. QED
      BY <3>3 DEF c
  <2>6. s = r
    BY DEF ParserTyped, IsParser, Fields
  <2> HIDE DEF stmt, s
  <2>7. ParserTyped(r) /\ r.mode = p.mode /\ r.at = p.at /\ r.payload = p.payload
        /\ r.phase = p.phase
    BY <2>5 DEF ParserTyped, IsParser, Fields
  <2> HIDE DEF r
  <2>8. MoreLines(s)
    BY <2>1, <2>6, <2>7 DEF MoreLines
  <2>9. ParserTyped(Charged(s, errors)) /\ Charged(s, errors).mode = p.mode
    BY <2>1, <2>6, <2>7, <2>8, ChargedTyped
  <2>10. QED
    BY <2>1, <2>4, <2>9, ReportingTyped
<1>8. CASE ReadPairs(p, q)
  <2> DEFINE line == Requoted(Probe(p))
             result == parseKVPairs(line, p.current_stmt.kvpairs)
             pairs == result.pairs
             errors == QuoteError(Probe(p)) \cup result.errors
             s == [p EXCEPT !.current_stmt.kvpairs = pairs]
  <2>1. p.phase = "body" /\ MoreLines(p) /\ q = Reporting(p, Charged(s, errors), errors)
    BY <1>8, Zenon DEF ReadPairs
  <2>2. line \in Text
    BY <2>1, ProbeType, RequotedType
  <2> HIDE DEF line
  <2>3. pairs \in Maps(Atoms) /\ result.errors \subseteq {"malformed", "duplicate"}
    <3>1. p.current_stmt.kvpairs \in Maps(Atoms)
      BY DEF ParserTyped, Built
    <3>2. result \in Storing(Atoms)
      BY <2>2, <3>1, ParseKVPairsType
    <3> HIDE DEF result
    <3>3. QED
      BY <3>2 DEF Storing
  <2> HIDE DEF result
  <2>4. errors \subseteq Kinds
    BY <2>3 DEF QuoteError, ErrorIf, Kinds
  <2> HIDE DEF pairs, errors
  <2> DEFINE stmt == [p.current_stmt EXCEPT !.kvpairs = pairs]
             r == [p EXCEPT !.current_stmt = stmt]
  <2>5. stmt \in Built(Len(p.payload))
    <3> DEFINE c == p.current_stmt
    <3>1. c \in Built(Len(p.payload))
      BY DEF ParserTyped
    <3> HIDE DEF c
    <3>2. [c EXCEPT !.kvpairs = pairs] \in Built(Len(p.payload))
      BY <2>3, <3>1 DEF Built
    <3>3. QED
      BY <3>2 DEF c
  <2>6. s = r
    BY DEF ParserTyped, IsParser, Fields
  <2> HIDE DEF stmt, s
  <2>7. ParserTyped(r) /\ r.mode = p.mode /\ r.at = p.at /\ r.payload = p.payload
        /\ r.phase = p.phase
    BY <2>5 DEF ParserTyped, IsParser, Fields
  <2> HIDE DEF r
  <2>8. MoreLines(s)
    BY <2>1, <2>6, <2>7 DEF MoreLines
  <2>9. ParserTyped(Charged(s, errors)) /\ Charged(s, errors).mode = p.mode
    BY <2>1, <2>6, <2>7, <2>8, ChargedTyped
  <2>10. QED
    BY <2>1, <2>4, <2>9, ReportingTyped
<1>9. CASE Finish(p, q)
  <2> DEFINE r == IF HasStatement(p) THEN Pushed(p) ELSE p
  <2>1. q = [r EXCEPT !.phase = "done"]
    BY <1>9, Zenon DEF Finish
  <2>2. ParserTyped(r)
    BY PushedTyped
  <2> HIDE DEF r
  <2>3. QED
    BY <2>1, <2>2 DEF ParserTyped, IsParser, Fields
<1>10. QED
  BY <1>1, <1>2, <1>3, <1>4, <1>5, <1>6, <1>7, <1>8, <1>9 DEF Step

LEMMA StartTyped ==
    ASSUME NEW mode \in {"STRICT", "TOLERANT"}, NEW frame \in Seq(Text)
    PROVE  ParserTyped(Start(mode, frame))
<1> DEFINE p == Start(mode, frame)
           e == EmptyStatement
<1>1. e \in Built(Len(frame)) /\ NoFields \in [HeaderKeys -> Text] /\ <<>> \in Text
  BY EmptyTyped DEF NoFields, Text
<1>2. 0 \in 0..Len(frame) /\ \A S : <<>> \in Seq(S)
  OBVIOUS
<1> HIDE DEF e
<1>3. QED
  BY <1>1, <1>2 DEF Start, ParserTyped, IsParser, Fields, e

\* The record of a parser keeps its type in any frame, whatever its lines hold.
THEOREM ParserTypeCorrect == Spec => []TypeOK
<1> DEFINE Inv == ParserTyped(strict) /\ ParserTyped(tolerant) /\ ParserTyped(crlf)
<1>1. Init => Inv
  <2> SUFFICES ASSUME Init PROVE Inv
    OBVIOUS
  <2>1. PICK frame \in Frames : Reads(frame)
    BY DEF Init
  <2>2. frame \in Seq(Text)
    BY FramesAssumption
  <2>3. WithReturns(frame) \in Seq(Text)
    <3>1. "cr" \in Atoms
      BY DEF Atoms, Punctuation, White
    <3> DEFINE n == Len(frame)
    <3>2. n \in Nat /\ DOMAIN frame = 1..n
      BY <2>2
    <3>3. \A i \in 1..n : Append(frame[i], "cr") \in Text
      BY <2>2, <3>1 DEF Text
    <3> HIDE DEF n
    <3>4. WithReturns(frame) = [i \in 1..n |-> Append(frame[i], "cr")]
      BY <3>2 DEF WithReturns
    <3>5. QED
      BY <3>2, <3>3, <3>4
  <2> DEFINE long == WithReturns(frame)
  <2> HIDE DEF long
  <2>4. ParserTyped(Start("STRICT", frame)) /\ ParserTyped(Start("TOLERANT", frame))
        /\ ParserTyped(Start("TOLERANT", long))
    BY <2>2, <2>3, StartTyped DEF long
  <2>5. QED
    BY <2>1, <2>4 DEF Reads, long
<1>2. Inv /\ [Next]_vars => Inv'
  <2> SUFFICES ASSUME Inv, [Next]_vars PROVE Inv'
    OBVIOUS
  <2>1. \A p, q : ParserTyped(p) /\ (Step(p, q) \/ q = p) => ParserTyped(q)
    BY StepTyped
  <2>2. /\ Step(strict, strict') \/ strict' = strict
        /\ Step(tolerant, tolerant') \/ tolerant' = tolerant
        /\ Step(crlf, crlf') \/ crlf' = crlf
    BY DEF Next, vars
  <2> DEFINE s == strict  t == tolerant  c == crlf
             s2 == strict'  t2 == tolerant'  c2 == crlf'
  <2>3. ParserTyped(s2) /\ ParserTyped(t2) /\ ParserTyped(c2)
    <3>1. ParserTyped(s) /\ ParserTyped(t) /\ ParserTyped(c)
      OBVIOUS
    <3> HIDE DEF s, t, c, s2, t2, c2
    <3>2. QED
      BY <2>1, <2>2, <3>1 DEF s, t, c, s2, t2, c2
  <2>4. QED
    BY <2>3
<1>3. Inv => TypeOK
  BY TypedIsTypeOK DEF TypeOK
<1>4. QED
  BY <1>1, <1>2, <1>3, PTL DEF Spec

-----------------------------------------------------------------------------
\* The marker, and a line with another value behind it.

\* Where the least of a set of numbers is.
LEMMA MinIs ==
    ASSUME NEW S \in SUBSET Nat, NEW m \in S, \A y \in S : m <= y
    PROVE  Min(S) = m
<1>1. Min(S) \in S /\ \A y \in S : Min(S) <= y
  BY MinProperties
<1>2. Min(S) \in Nat /\ m \in Nat /\ Min(S) <= m /\ m <= Min(S)
  BY <1>1
<1>3. QED
  BY <1>2

\* What ends a value, for chk.hpp.
Ends == {" ", "cr"}

\* The marker stands at i.
MarkerAt(line, i) ==
    /\ i \in 1..(Len(line) - 3)
    /\ line[i] = "CHK" /\ line[i + 1] = ":" /\ line[i + 2] = "sha256" /\ line[i + 3] = ":"

LEMMA MarkerAtIs ==
    ASSUME NEW A, NEW line \in Seq(A), NEW i \in 1..(Len(line) - 3)
    PROVE  SubSeq(line, i, i + Len(Marker) - 1) = Marker <=> MarkerAt(line, i)
<1> DEFINE s == SubSeq(line, i, i + 3)
<1>1. Len(line) \in Nat /\ i \in Nat /\ i + Len(Marker) - 1 = i + 3 /\ Len(Marker) = 4
  BY DEF Marker
<1>2. s \in Seq(A) /\ Len(s) = 4 /\ s[1] = line[i] /\ s[2] = line[i + 1] /\ s[3] = line[i + 2]
      /\ s[4] = line[i + 3]
  BY <1>1
<1> HIDE DEF s
<1>3. s = <<s[1], s[2], s[3], s[4]>>
  BY <1>2
<1>4. s = Marker <=> s[1] = "CHK" /\ s[2] = ":" /\ s[3] = "sha256" /\ s[4] = ":"
  BY <1>3 DEF Marker
<1>5. SubSeq(line, i, i + Len(Marker) - 1) = s
  BY <1>1 DEF s
<1>6. QED
  BY <1>2, <1>4, <1>5 DEF MarkerAt

\* MarkerIn() finds the first marker.
LEMMA MarkerInIs ==
    ASSUME NEW A, NEW line \in Seq(A)
    PROVE  /\ \A i : MarkerAt(line, i) => MarkerIn(line) # 0
           /\ MarkerIn(line) # 0 =>
                /\ MarkerAt(line, MarkerIn(line))
                /\ \A i \in 1..(MarkerIn(line) - 1) : ~MarkerAt(line, i)
           /\ \A m : MarkerAt(line, m) /\ (\A i \in 1..(m - 1) : ~MarkerAt(line, i))
                       => MarkerIn(line) = m
<1> DEFINE places == {i \in 1..(Len(line) - Len(Marker) + 1) :
                         SubSeq(line, i, i + Len(Marker) - 1) = Marker}
<1>1. Len(line) \in Nat /\ Len(line) - Len(Marker) + 1 = Len(line) - 3
  BY DEF Marker
<1>2. MarkerIn(line) = IF places = {} THEN 0 ELSE Min(places)
  BY Zenon DEF MarkerIn
<1>3. \A i : i \in places <=> MarkerAt(line, i)
  <2>1. \A i \in 1..(Len(line) - 3) :
           SubSeq(line, i, i + Len(Marker) - 1) = Marker <=> MarkerAt(line, i)
    BY MarkerAtIs
  <2>2. \A i : MarkerAt(line, i) => i \in 1..(Len(line) - 3)
    BY DEF MarkerAt
  <2>3. QED
    BY <1>1, <2>1, <2>2
<1>4. places \in SUBSET Nat /\ 0 \notin places /\ places \in SUBSET (1..(Len(line) - 3))
  BY <1>1
<1> HIDE DEF places
<1>5. places # {} => Min(places) \in places /\ \A y \in places : Min(places) <= y
  BY <1>4, MinProperties
<1>6. \A i : MarkerAt(line, i) => MarkerIn(line) # 0
  BY <1>2, <1>3, <1>4, <1>5
<1>7. ASSUME MarkerIn(line) # 0
      PROVE  /\ MarkerAt(line, MarkerIn(line))
             /\ \A i \in 1..(MarkerIn(line) - 1) : ~MarkerAt(line, i)
  <2>1. MarkerIn(line) = Min(places) /\ places # {}
    BY <1>2, <1>7
  <2> DEFINE m == MarkerIn(line)
  <2>2. m \in places /\ \A y \in places : m <= y
    BY <1>5, <2>1
  <2> HIDE DEF m
  <2>3. MarkerAt(line, m) /\ m \in Nat
    BY <1>3, <1>4, <2>2
  <2>4. ASSUME NEW i \in 1..(m - 1), MarkerAt(line, i) PROVE FALSE
    <3>1. i \in places
      BY <1>3, <2>4
    <3>2. m <= i /\ i <= m - 1 /\ i \in Int
      BY <2>2, <2>3, <3>1
    <3>3. QED
      BY <2>3, <3>2
  <2>5. QED
    BY <2>3, <2>4 DEF m
<1>8. ASSUME NEW m, MarkerAt(line, m), \A i \in 1..(m - 1) : ~MarkerAt(line, i)
      PROVE  MarkerIn(line) = m
  <2>1. m \in places /\ \A y \in places : m <= y
    <3>1. m \in places /\ m \in Nat
      BY <1>3, <1>4, <1>8
    <3>2. ASSUME NEW y \in places, y < m PROVE FALSE
      <4>1. y \in 1..(m - 1) /\ MarkerAt(line, y)
        BY <1>3, <1>4, <3>1, <3>2
      <4>2. QED
        BY <1>8, <4>1
    <3>3. \A y \in places : y \in Nat
      BY <1>4
    <3>4. QED
      BY <3>1, <3>2, <3>3
  <2>2. Min(places) = m
    BY <1>4, <2>1, MinIs
  <2>3. QED
    BY <1>2, <2>1, <2>2
<1>9. QED
  BY <1>6, <1>7, <1>8

\* Where the value that begins at start ends.
ValueEnd(line, start) ==
    LET ends == {i \in DOMAIN line : i >= start /\ line[i] \in {" ", "cr"}}
    IN  IF ends = {} THEN Len(line) + 1 ELSE Min(ends)

\* The value that begins at start ends in front of e.
EndsAt(line, start, e) ==
    /\ e \in start..(Len(line) + 1)
    /\ \A i \in start..(e - 1) : line[i] \notin Ends
    /\ e <= Len(line) => line[e] \in Ends

LEMMA ValueEndIs ==
    ASSUME NEW A, NEW line \in Seq(A), NEW start \in 1..(Len(line) + 1)
    PROVE  /\ EndsAt(line, start, ValueEnd(line, start))
           /\ \A e : EndsAt(line, start, e) => ValueEnd(line, start) = e
<1> DEFINE ends == {i \in DOMAIN line : i >= start /\ line[i] \in Ends}
<1>1. ValueEnd(line, start) = IF ends = {} THEN Len(line) + 1 ELSE Min(ends)
  BY Zenon DEF ValueEnd, Ends
<1>2. Len(line) \in Nat /\ DOMAIN line = 1..Len(line) /\ start \in Nat
  OBVIOUS
<1>3. /\ \A i : i \in ends <=> i \in start..Len(line) /\ line[i] \in Ends
      /\ ends \in SUBSET Nat
  BY <1>2
<1> HIDE DEF ends
<1>4. ends # {} => Min(ends) \in ends /\ \A y \in ends : Min(ends) <= y
  BY <1>3, MinProperties
<1>5. EndsAt(line, start, ValueEnd(line, start))
  <2>1. CASE ends = {}
    <3>1. \A i \in start..Len(line) : line[i] \notin Ends
      BY <1>3, <2>1
    <3>2. QED
      BY <1>1, <1>2, <2>1, <3>1 DEF EndsAt
  <2>2. CASE ends # {}
    <3> DEFINE e == Min(ends)
    <3>1. e \in ends /\ (\A y \in ends : e <= y) /\ ValueEnd(line, start) = e
      BY <1>1, <1>4, <2>2
    <3> HIDE DEF e
    <3>2. e \in start..Len(line) /\ line[e] \in Ends
      BY <1>3, <3>1
    <3>3. ASSUME NEW i \in start..(e - 1), line[i] \in Ends PROVE FALSE
      <4>1. i \in start..Len(line) /\ i < e
        BY <1>2, <3>2, <3>3
      <4>2. i \in ends
        BY <1>3, <3>3, <4>1
      <4>3. QED
        BY <1>2, <3>1, <3>2, <4>1, <4>2
    <3>4. QED
      BY <1>2, <3>1, <3>2, <3>3 DEF EndsAt
  <2>3. QED
    BY <2>1, <2>2
<1>6. ASSUME NEW e, EndsAt(line, start, e), NEW d, EndsAt(line, start, d), d < e
      PROVE  FALSE
  <2>1. d \in start..(e - 1) /\ d <= Len(line)
    BY <1>2, <1>6 DEF EndsAt
  <2>2. QED
    BY <1>6, <2>1 DEF EndsAt
<1>7. ASSUME NEW e, EndsAt(line, start, e) PROVE ValueEnd(line, start) = e
  <2> DEFINE d == ValueEnd(line, start)
  <2>1. EndsAt(line, start, d)
    BY <1>5
  <2> HIDE DEF d
  <2>2. d \in Int /\ e \in Int
    BY <1>2, <1>7, <2>1 DEF EndsAt
  <2>3. ~(d < e) /\ ~(e < d)
    BY <1>6, <1>7, <2>1
  <2>4. QED
    BY <2>2, <2>3 DEF d
<1>8. QED
  BY <1>5, <1>7

LEMMA SliceIs ==
    ASSUME NEW A, NEW s \in Seq(A), NEW a \in 1..(Len(s) + 1), NEW b \in (a - 1)..Len(s)
    PROVE  /\ SubSeq(s, a, b) \in Seq(A)
           /\ Len(SubSeq(s, a, b)) = b - a + 1
           /\ \A i \in 1..(b - a + 1) : SubSeq(s, a, b)[i] = s[a + i - 1]
<1>1. Len(s) \in Nat /\ a \in Nat /\ b \in Int
  OBVIOUS
<1>2. CASE b = a - 1
  <2>1. SubSeq(s, a, b) = <<>>
    BY <1>1, <1>2
  <2>2. QED
    BY <1>1, <1>2, <2>1
<1>3. CASE b # a - 1
  <2>1. a \in 1..Len(s) /\ b \in 1..Len(s) /\ a <= b
    BY <1>1, <1>3
  <2>2. QED
    BY <1>1, <2>1
<1>4. QED
  BY <1>2, <1>3

\* Two sequences are the same if their items are.
LEMMA SameItems ==
    ASSUME NEW A, NEW s \in Seq(A), NEW t \in Seq(A), Len(s) = Len(t),
           \A i \in 1..Len(s) : s[i] = t[i]
    PROVE  s = t
  OBVIOUS

\* A line with another value: what stands where.
IsRewritten(w, line, m, e, v) ==
    /\ m \in 1..(Len(line) - 3) /\ e \in (m + 4)..(Len(line) + 1)
    /\ Len(w) = m + 3 + Len(v) + (Len(line) + 1 - e)
    /\ \A i \in 1..(m + 3) : w[i] = line[i]
    /\ \A i \in 1..Len(v) : w[m + 3 + i] = v[i]
    /\ \A i \in 1..(Len(line) + 1 - e) : w[m + 3 + Len(v) + i] = line[e + i - 1]

LEMMA WithValueForm ==
    ASSUME NEW A, NEW line \in Seq(A), MarkerIn(line) # 0, NEW v \in Seq(A)
    PROVE  /\ WithValue(line, v) \in Seq(A)
           /\ IsRewritten(WithValue(line, v), line, MarkerIn(line),
                          ValueEnd(line, MarkerIn(line) + 4), v)
<1> DEFINE m == MarkerIn(line)
           e == ValueEnd(line, m + 4)
           w == WithValue(line, v)
           front == SubSeq(line, 1, m + 3)
           back == SubSeq(line, e, Len(line))
<1>1. Len(line) \in Nat /\ Len(v) \in Nat
  OBVIOUS
<1>2. m \in 1..(Len(line) - 3)
  BY MarkerInIs DEF MarkerAt
<1>3. m + 4 \in 1..(Len(line) + 1)
  BY <1>1, <1>2
<1>4. EndsAt(line, m + 4, e)
  BY <1>3, ValueEndIs
<1>5. e \in (m + 4)..(Len(line) + 1) /\ e \in 1..(Len(line) + 1)
  BY <1>1, <1>2, <1>4 DEF EndsAt
<1>6. w = front \o v \o back
  <2> DEFINE start == MarkerIn(line) + Len(Marker)
  <2>1. w = SubSeq(line, 1, start - 1) \o v \o SubSeq(line, ValueEnd(line, start), Len(line))
    BY Zenon DEF WithValue, ValueEnd
  <2>2. start = m + 4
    BY DEF Marker
  <2> HIDE DEF start
  <2>3. start - 1 = m + 3
    BY <1>2, <2>2
  <2>4. QED
    BY <2>1, <2>2, <2>3
<1>7. front \in Seq(A) /\ Len(front) = m + 3 /\ \A i \in 1..(m + 3) : front[i] = line[i]
  <2>1. 1 \in 1..(Len(line) + 1) /\ m + 3 \in (1 - 1)..Len(line) /\ m \in Int
        /\ (m + 3) - 1 + 1 = m + 3
    BY <1>1, <1>2
  <2>2. front \in Seq(A) /\ Len(front) = (m + 3) - 1 + 1
        /\ \A i \in 1..((m + 3) - 1 + 1) : front[i] = line[1 + i - 1]
    BY <2>1, SliceIs
  <2> HIDE DEF front
  <2>3. \A i \in 1..(m + 3) : 1 + i - 1 = i
    BY <2>1
  <2>4. QED
    BY <2>1, <2>2, <2>3
<1>8. back \in Seq(A) /\ Len(back) = Len(line) + 1 - e
      /\ \A i \in 1..(Len(line) + 1 - e) : back[i] = line[e + i - 1]
  <2>1. Len(line) \in (e - 1)..Len(line) /\ Len(line) - e + 1 = Len(line) + 1 - e
    BY <1>1, <1>5
  <2>2. back \in Seq(A) /\ Len(back) = Len(line) - e + 1
        /\ \A i \in 1..(Len(line) - e + 1) : back[i] = line[e + i - 1]
    BY <1>5, <2>1, SliceIs
  <2>3. QED
    BY <2>1, <2>2
<1> DEFINE k == Len(line) + 1 - e
           both == front \o v
<1>9. w = both \o back /\ k \in Nat
  BY <1>1, <1>5, <1>6
<1> HIDE DEF front, back, w, m, e
<1>10. /\ both \in Seq(A) /\ Len(both) = m + 3 + Len(v)
       /\ \A i \in 1..(m + 3) : both[i] = line[i]
       /\ \A i \in 1..Len(v) : both[m + 3 + i] = v[i]
  BY <1>1, <1>2, <1>7
<1> HIDE DEF both
<1>11. Len(back) = k /\ m + 3 \in Nat
  BY <1>2, <1>8
<1> HIDE DEF k
<1>12. w \in Seq(A) /\ Len(w) = m + 3 + Len(v) + k
  <2>1. both \in Seq(A) /\ back \in Seq(A) /\ w = both \o back
    BY <1>8, <1>9, <1>10
  <2>2. w \in Seq(A) /\ Len(w) = Len(both) + Len(back)
    BY <2>1
  <2>3. QED
    BY <1>10, <1>11, <2>2
<1>13. \A i \in 1..(m + 3) : w[i] = line[i]
  BY <1>1, <1>8, <1>9, <1>10, <1>11
<1>14. ASSUME NEW i \in 1..Len(v) PROVE w[m + 3 + i] = v[i]
  <2>1. m + 3 + i \in 1..Len(both)
    BY <1>1, <1>10, <1>11
  <2>2. w[m + 3 + i] = both[m + 3 + i]
    BY <1>8, <1>9, <1>10, <2>1
  <2>3. QED
    BY <1>10, <2>2
<1>15. ASSUME NEW i \in 1..k PROVE w[m + 3 + Len(v) + i] = line[e + i - 1]
  <2> DEFINE n == Len(both)
  <2>1. n \in Nat /\ m + 3 + Len(v) + i = n + i
    BY <1>10
  <2>2. w[n + i] = back[i]
    BY <1>8, <1>9, <1>10, <1>11
  <2>3. back[i] = line[e + i - 1]
    BY <1>8 DEF k
  <2>4. QED
    BY <2>1, <2>2, <2>3
<1>16. IsRewritten(w, line, m, e, v)
  BY <1>2, <1>5, <1>12, <1>13, <1>14, <1>15 DEF IsRewritten, k
<1>17. QED
  BY <1>12, <1>16 DEF w, m, e

\* The marker of a line is where it was whatever the value, and the value that was
\* put in is found again.
LEMMA ValueStaysPut ==
    ASSUME NEW A, NEW line \in Seq(A), MarkerIn(line) # 0, NEW v \in Seq(A),
           \A i \in 1..Len(v) : v[i] \notin Ends
    PROVE  /\ MarkerIn(WithValue(line, v)) = MarkerIn(line)
           /\ ValueEnd(WithValue(line, v), MarkerIn(line) + 4) = MarkerIn(line) + 4 + Len(v)
<1> DEFINE m == MarkerIn(line)
           e == ValueEnd(line, m + 4)
           w == WithValue(line, v)
<1>0. w \in Seq(A) /\ IsRewritten(w, line, m, e, v)
  BY WithValueForm
<1> HIDE DEF e, w
<1>1. /\ m \in 1..(Len(line) - 3) /\ e \in (m + 4)..(Len(line) + 1)
      /\ w \in Seq(A)
      /\ Len(w) = m + 3 + Len(v) + (Len(line) + 1 - e)
      /\ \A i \in 1..(m + 3) : w[i] = line[i]
      /\ \A i \in 1..Len(v) : w[m + 3 + i] = v[i]
      /\ \A i \in 1..(Len(line) + 1 - e) : w[m + 3 + Len(v) + i] = line[e + i - 1]
  BY <1>0 DEF IsRewritten
<1>2. MarkerAt(line, m) /\ \A i \in 1..(m - 1) : ~MarkerAt(line, i)
  BY MarkerInIs
<1>3. EndsAt(line, m + 4, e)
  <2>1. m + 4 \in 1..(Len(line) + 1)
    BY <1>1
  <2>2. QED
    BY <2>1, ValueEndIs DEF e
<1>4. Len(line) \in Nat /\ Len(v) \in Nat /\ Len(w) \in Nat /\ m \in Nat /\ e \in Nat
  BY <1>1
<1> HIDE DEF m
<1>5. ASSUME NEW i \in 1..m PROVE MarkerAt(w, i) <=> MarkerAt(line, i)
  <2>1. /\ i \in 1..(Len(line) - 3) /\ i \in 1..(Len(w) - 3)
        /\ i \in 1..(m + 3) /\ i + 1 \in 1..(m + 3) /\ i + 2 \in 1..(m + 3) /\ i + 3 \in 1..(m + 3)
    <3>1. m <= Len(line) - 3 /\ Len(w) >= m + 3 /\ i \in Nat /\ i >= 1 /\ i <= m
      BY <1>1, <1>4
    <3>2. QED
      BY <1>4, <3>1
  <2>2. w[i] = line[i] /\ w[i + 1] = line[i + 1] /\ w[i + 2] = line[i + 2] /\ w[i + 3] = line[i + 3]
    BY <1>1, <2>1
  <2>3. QED
    BY <2>1, <2>2 DEF MarkerAt
<1>6. MarkerIn(w) = m
  <2>1. m \in 1..m /\ \A i \in 1..(m - 1) : i \in 1..m
    BY <1>1, <1>4
  <2>2. MarkerAt(w, m) /\ \A i \in 1..(m - 1) : ~MarkerAt(w, i)
    BY <1>2, <1>5, <2>1
  <2>3. QED
    BY <1>1, <2>2, MarkerInIs
<1> DEFINE f == m + 4 + Len(v)
<1>7. EndsAt(w, m + 4, f)
  <2>1. f \in (m + 4)..(Len(w) + 1)
    BY <1>1, <1>4
  <2>2. ASSUME NEW i \in (m + 4)..(f - 1) PROVE w[i] \notin Ends
    <3>1. i - (m + 3) \in 1..Len(v) /\ m + 3 + (i - (m + 3)) = i
      BY <1>4
    <3>2. QED
      BY <1>1, <3>1
  <2>3. ASSUME f <= Len(w) PROVE w[f] \in Ends
    <3>1. 1 \in 1..(Len(line) + 1 - e) /\ m + 3 + Len(v) + 1 = f /\ e + 1 - 1 = e /\ e <= Len(line)
      BY <1>1, <1>4, <2>3
    <3>2. w[f] = line[e]
      BY <1>1, <3>1
    <3>3. QED
      BY <1>3, <3>1, <3>2 DEF EndsAt
  <2> HIDE DEF f
  <2>4. QED
    BY <2>1, <2>2, <2>3 DEF EndsAt
<1>8. ValueEnd(w, m + 4) = f
  <2>1. m + 4 \in 1..(Len(w) + 1)
    BY <1>1, <1>4
  <2>2. QED
    BY <1>1, <1>7, <2>1, ValueEndIs
<1>9. QED
  BY <1>6, <1>8 DEF m, w

\* The second value replaces the first: only the last one put in counts.
LEMMA LastValueCounts ==
    ASSUME NEW A, NEW line \in Seq(A), MarkerIn(line) # 0, NEW v \in Seq(A), NEW x \in Seq(A),
           \A i \in 1..Len(v) : v[i] \notin Ends
    PROVE  WithValue(WithValue(line, v), x) = WithValue(line, x)
<1> DEFINE m == MarkerIn(line)
           e == ValueEnd(line, m + 4)
           w == WithValue(line, v)
           a == WithValue(w, x)
           b == WithValue(line, x)
           f == m + 4 + Len(v)
<1>1. w \in Seq(A) /\ IsRewritten(w, line, m, e, v)
  BY WithValueForm
<1>2. /\ m \in 1..(Len(line) - 3) /\ e \in (m + 4)..(Len(line) + 1)
      /\ w \in Seq(A)
      /\ Len(w) = m + 3 + Len(v) + (Len(line) + 1 - e)
      /\ \A i \in 1..(m + 3) : w[i] = line[i]
      /\ \A i \in 1..(Len(line) + 1 - e) : w[m + 3 + Len(v) + i] = line[e + i - 1]
  <2> HIDE DEF w, m, e
  <2>1. QED
    BY <1>1 DEF IsRewritten
<1>3. /\ b \in Seq(A)
      /\ Len(b) = m + 3 + Len(x) + (Len(line) + 1 - e)
      /\ \A i \in 1..(m + 3) : b[i] = line[i]
      /\ \A i \in 1..Len(x) : b[m + 3 + i] = x[i]
      /\ \A i \in 1..(Len(line) + 1 - e) : b[m + 3 + Len(x) + i] = line[e + i - 1]
  <2>1. b \in Seq(A) /\ IsRewritten(b, line, m, e, x)
    BY WithValueForm
  <2> HIDE DEF b, m, e
  <2>2. QED
    BY <2>1 DEF IsRewritten
<1>4. MarkerIn(w) = m /\ ValueEnd(w, m + 4) = f
  BY ValueStaysPut
<1>5. m # 0
  OBVIOUS
<1> HIDE DEF m, e, w, f
<1>6. /\ a \in Seq(A)
      /\ Len(a) = m + 3 + Len(x) + (Len(w) + 1 - f)
      /\ \A i \in 1..(m + 3) : a[i] = w[i]
      /\ \A i \in 1..Len(x) : a[m + 3 + i] = x[i]
      /\ \A i \in 1..(Len(w) + 1 - f) : a[m + 3 + Len(x) + i] = w[f + i - 1]
  <2>1. a \in Seq(A) /\ IsRewritten(a, w, MarkerIn(w), ValueEnd(w, MarkerIn(w) + 4), x)
    BY <1>2, <1>4, <1>5, WithValueForm
  <2> HIDE DEF a
  <2>2. QED
    BY <1>4, <2>1 DEF IsRewritten
<1> HIDE DEF a, b
<1>7. /\ Len(line) \in Nat /\ Len(v) \in Nat /\ Len(x) \in Nat /\ m \in Nat /\ e \in Nat
      /\ f = m + 4 + Len(v)
  BY <1>2 DEF f
<1> DEFINE k == Len(line) + 1 - e
<1>8. k \in Nat /\ Len(w) + 1 - f = k /\ Len(a) = m + 3 + Len(x) + k /\ Len(b) = m + 3 + Len(x) + k
      /\ k = Len(line) + 1 - e
  BY <1>2, <1>3, <1>6, <1>7
<1> HIDE DEF k
<1>9. ASSUME NEW i \in 1..Len(a) PROVE a[i] = b[i]
  <2>1. CASE i \in 1..(m + 3)
    BY <1>2, <1>3, <1>6, <2>1
  <2>2. CASE i \in (m + 4)..(m + 3 + Len(x))
    <3>1. i - (m + 3) \in 1..Len(x) /\ m + 3 + (i - (m + 3)) = i
      BY <1>7, <2>2
    <3>2. QED
      BY <1>3, <1>6, <3>1
  <2>3. CASE i \in (m + 4 + Len(x))..(m + 3 + Len(x) + k)
    <3> DEFINE j == i - (m + 3 + Len(x))
    <3>1. j \in 1..k /\ m + 3 + Len(x) + j = i /\ f + j - 1 = m + 3 + Len(v) + j
      BY <1>7, <1>8, <2>3
    <3> HIDE DEF j
    <3>2. a[i] = w[f + j - 1]
      BY <1>6, <1>8, <3>1
    <3>3. w[m + 3 + Len(v) + j] = line[e + j - 1]
      BY <1>2, <1>8, <3>1
    <3>4. b[i] = line[e + j - 1]
      BY <1>3, <1>8, <3>1
    <3>5. QED
      BY <3>1, <3>2, <3>3, <3>4
  <2>4. i \in 1..(m + 3) \/ i \in (m + 4)..(m + 3 + Len(x))
          \/ i \in (m + 4 + Len(x))..(m + 3 + Len(x) + k)
    BY <1>7, <1>8
  <2>5. QED
    BY <2>1, <2>2, <2>3, <2>4
<1>10. a = b
  BY <1>3, <1>6, <1>8, <1>9, SameItems
<1>11. QED
  BY <1>10 DEF a, b, w

-----------------------------------------------------------------------------
\* lex_split() and the field, by itself in a line.

Blank == " "

\* The field that stamp_chk() writes, and the atoms that are no name of it.
Field == <<"CHK", ":", "sha256", ":", "digest">>
Nameless == Atoms \ {"CHK"}

\* The field stands at m of line h, by itself, and there is no other.
PlainAt(h, m) ==
    /\ m \in 1..(Len(h) - 4)
    /\ \A j \in 1..5 : h[m + j - 1] = Field[j]
    /\ m # 1 => h[m - 1] = Blank
    /\ m + 5 <= Len(h) => h[m + 5] = Blank
    /\ \A i \in 1..Len(h) : h[i] = "CHK" => i = m
    /\ \A i \in 1..m : h[i] # Quote

LEMMA FieldAtoms ==
    /\ Field \in Seq({"CHK", ":", "sha256", "digest"}) /\ Len(Field) = 5
    /\ \A j \in 1..5 : Field[j] # Blank /\ Field[j] # Quote
<1>1. Field \in Seq({"CHK", ":", "sha256", "digest"}) /\ Len(Field) = 5
  BY DEF Field
<1>2. \A a \in {"CHK", ":", "sha256", "digest"} : a # Blank /\ a # Quote
  BY Zenon DEF Blank, Quote
<1>3. \A j \in 1..5 : Field[j] \in {"CHK", ":", "sha256", "digest"}
  BY <1>1
<1>4. QED
  BY <1>1, <1>2, <1>3

LEMMA BlankIsNameless == Blank \in Nameless /\ Blank \in Atoms /\ Blank # Quote
<1>1. Blank \in Punctuation /\ Blank # Quote /\ Blank # "CHK"
  BY Zenon DEF Blank, Punctuation, White, Quote
<1>2. QED
  BY <1>1 DEF Nameless, Atoms

LEMMA StaysUnquoted ==
    ASSUME NEW a, a # Quote
    PROVE  AfterAtom(Unquoted, a) = Unquoted
<1>1. ((a = Quote) # FALSE) = FALSE /\ (a = Backslash /\ FALSE) = FALSE
  OBVIOUS
<1>2. Unquoted.escape = FALSE /\ Unquoted.open = FALSE
  BY DEF Unquoted
<1>3. AfterAtom(Unquoted, a) =
        [open |-> (a = Quote) # Unquoted.open, escape |-> a = Backslash /\ Unquoted.open]
  BY <1>2, Zenon DEF AfterAtom
<1>4. QED
  BY <1>1, <1>2, <1>3, Zenon DEF Unquoted

LEMMA SplitStepFacts ==
    ASSUME NEW A, NEW l \in Splits(A), NEW a \in A, NEW delim
    PROVE  /\ ~l.quote.open /\ a = delim =>
                /\ SplitStep(l, a, delim).tokens = Kept(l)
                /\ SplitStep(l, a, delim).current = <<>>
                /\ SplitStep(l, a, delim).quote = l.quote
           /\ ~(~l.quote.open /\ a = delim) =>
                /\ SplitStep(l, a, delim).tokens = l.tokens
                /\ SplitStep(l, a, delim).current = Append(l.current, a)
                /\ SplitStep(l, a, delim).quote = AfterAtom(l.quote, a)
<1>1. l = [tokens |-> l.tokens, current |-> l.current, quote |-> l.quote]
  BY DEF Splits
<1> DEFINE kept == Kept(l)
           next == AfterAtom(l.quote, a)
<1>2. SplitStep(l, a, delim) =
        IF a = delim /\ ~l.quote.open THEN [l EXCEPT !.tokens = kept, !.current = <<>>]
        ELSE [l EXCEPT !.current = Append(@, a), !.quote = next]
  BY Zenon DEF SplitStep
<1> HIDE DEF kept, next
<1>3. QED
  BY <1>1, <1>2 DEF kept, next

\* What lex_split() has after k atoms: before the field, in it, behind it.
Early(l) == l.quote = Unquoted /\ l.tokens \in Seq(Seq(Nameless)) /\ l.current \in Seq(Nameless)
Within(l, j) ==
    l.quote = Unquoted /\ l.tokens \in Seq(Seq(Nameless)) /\ l.current = SubSeq(Field, 1, j)
HasField(tokens) ==
    /\ tokens \in Seq(Seq(Nameless) \cup {Field})
    /\ \E i \in DOMAIN tokens : tokens[i] = Field
Late(l) == HasField(l.tokens) /\ l.current \in Seq(Nameless)

LEMMA EarlyStep ==
    ASSUME NEW l \in Splits(Atoms), Early(l), NEW a \in Nameless, a # Quote
    PROVE  /\ Early(SplitStep(l, a, Blank))
           /\ a = Blank => SplitStep(l, a, Blank).current = <<>>
<1> DEFINE q == SplitStep(l, a, Blank)
<1>1. a \in Atoms /\ l.quote = Unquoted /\ ~l.quote.open
  BY DEF Nameless, Early, Unquoted
<1>2. CASE a = Blank
  <2>1. q.tokens = Kept(l) /\ q.current = <<>> /\ q.quote = l.quote
    BY <1>1, <1>2, SplitStepFacts
  <2>2. Kept(l) \in Seq(Seq(Nameless))
    BY DEF Early, Kept
  <2> HIDE DEF q
  <2>3. QED
    BY <1>1, <2>1, <2>2 DEF Early, q
<1>3. CASE a # Blank
  <2>1. q.tokens = l.tokens /\ q.current = Append(l.current, a) /\ q.quote = AfterAtom(l.quote, a)
    BY <1>1, <1>3, SplitStepFacts
  <2>2. q.quote = Unquoted
    BY <1>1, <2>1, StaysUnquoted
  <2> HIDE DEF q
  <2>3. QED
    BY <1>3, <2>1, <2>2 DEF Early, q
<1>4. QED
  BY <1>2, <1>3

LEMMA PrefixGrows ==
    ASSUME NEW A, NEW s \in Seq(A), NEW j \in 1..Len(s)
    PROVE  Append(SubSeq(s, 1, j - 1), s[j]) = SubSeq(s, 1, j)
<1> DEFINE t == SubSeq(s, 1, j - 1)
           u == SubSeq(s, 1, j)
<1>1. Len(s) \in Nat /\ j \in Int /\ 1 \in 1..(Len(s) + 1)
      /\ j - 1 \in (1 - 1)..Len(s) /\ j \in (1 - 1)..Len(s) /\ s[j] \in A
  OBVIOUS
<1>2. t \in Seq(A) /\ Len(t) = (j - 1) - 1 + 1
      /\ \A i \in 1..((j - 1) - 1 + 1) : t[i] = s[1 + i - 1]
  BY <1>1, SliceIs
<1>3. u \in Seq(A) /\ Len(u) = j - 1 + 1 /\ \A i \in 1..(j - 1 + 1) : u[i] = s[1 + i - 1]
  BY <1>1, SliceIs
<1> HIDE DEF t, u
<1>4. Append(t, s[j]) \in Seq(A) /\ Len(Append(t, s[j])) = Len(u)
  BY <1>1, <1>2, <1>3
<1>5. \A i \in 1..Len(u) : Append(t, s[j])[i] = u[i]
  BY <1>1, <1>2, <1>3
<1>6. Append(t, s[j]) = u
  BY <1>3, <1>4, <1>5, SameItems
<1>7. QED
  BY <1>6 DEF t, u

LEMMA FieldPrefix ==
    /\ SubSeq(Field, 1, 0) = <<>> /\ SubSeq(Field, 1, 5) = Field
    /\ \A j \in 1..5 : Append(SubSeq(Field, 1, j - 1), Field[j]) = SubSeq(Field, 1, j)
<1>1. Field \in Seq({"CHK", ":", "sha256", "digest"}) /\ Len(Field) = 5
  BY FieldAtoms
<1>2. SubSeq(Field, 1, 0) = <<>> /\ SubSeq(Field, 1, 5) = Field
  BY <1>1
<1>3. QED
  BY <1>1, <1>2, PrefixGrows

LEMMA WithinStep ==
    ASSUME NEW l \in Splits(Atoms), NEW j \in 1..5, Within(l, j - 1), Field[j] \in Atoms
    PROVE  Within(SplitStep(l, Field[j], Blank), j)
<1> DEFINE a == Field[j]
           q == SplitStep(l, a, Blank)
<1>1. a # Blank /\ a # Quote
  BY FieldAtoms
<1>2. q.tokens = l.tokens /\ q.current = Append(l.current, a) /\ q.quote = AfterAtom(l.quote, a)
  BY <1>1, SplitStepFacts
<1>3. q.quote = Unquoted
  BY <1>1, <1>2, StaysUnquoted DEF Within
<1>4. q.current = SubSeq(Field, 1, j)
  BY <1>2, FieldPrefix DEF Within
<1> HIDE DEF q
<1>5. QED
  BY <1>2, <1>3, <1>4 DEF Within, q

LEMMA HasFieldGrows ==
    ASSUME NEW tokens, NEW token
    PROVE  /\ tokens \in Seq(Seq(Nameless)) => HasField(Append(tokens, Field))
           /\ HasField(tokens) /\ token \in Seq(Nameless) => HasField(Append(tokens, token))
<1> DEFINE S == Seq(Nameless) \cup {Field}
<1>1. ASSUME tokens \in Seq(Seq(Nameless)) PROVE HasField(Append(tokens, Field))
  <2>1. tokens \in Seq(S) /\ Field \in S /\ Len(tokens) \in Nat
    BY <1>1
  <2> HIDE DEF S
  <2>2. Append(tokens, Field) \in Seq(S) /\ Append(tokens, Field)[Len(tokens) + 1] = Field
        /\ Len(tokens) + 1 \in DOMAIN Append(tokens, Field)
    BY <2>1
  <2>3. QED
    BY <2>2 DEF HasField, S
<1>2. ASSUME HasField(tokens), token \in Seq(Nameless) PROVE HasField(Append(tokens, token))
  <2>1. PICK i \in DOMAIN tokens : tokens[i] = Field
    BY <1>2 DEF HasField
  <2>2. tokens \in Seq(S) /\ token \in S
    BY <1>2 DEF HasField
  <2> HIDE DEF S
  <2>3. Append(tokens, token) \in Seq(S) /\ Append(tokens, token)[i] = Field
        /\ i \in DOMAIN Append(tokens, token)
    BY <2>1, <2>2
  <2>4. QED
    BY <2>3 DEF HasField, S
<1>3. QED
  BY <1>1, <1>2

LEMMA FieldIsKept ==
    ASSUME NEW l, Within(l, 5)
    PROVE  HasField(Kept(l))
<1>1. l.current = Field /\ Field # <<>> /\ l.tokens \in Seq(Seq(Nameless))
  BY FieldPrefix DEF Within, Field
<1>2. Kept(l) = Append(l.tokens, Field)
  BY <1>1 DEF Kept
<1>3. QED
  BY <1>1, <1>2, HasFieldGrows

LEMMA LateKeeps ==
    ASSUME NEW l, Late(l)
    PROVE  HasField(Kept(l))
  BY HasFieldGrows DEF Late, Kept

LEMMA FieldFollowed ==
    ASSUME NEW l \in Splits(Atoms), Within(l, 5)
    PROVE  Late(SplitStep(l, Blank, Blank))
<1> DEFINE q == SplitStep(l, Blank, Blank)
<1>1. ~l.quote.open /\ Blank \in Atoms
  BY BlankIsNameless DEF Within, Unquoted
<1>2. q.tokens = Kept(l) /\ q.current = <<>>
  BY <1>1, SplitStepFacts
<1> HIDE DEF q
<1>3. QED
  BY <1>2, FieldIsKept DEF Late, q

LEMMA LateStep ==
    ASSUME NEW l \in Splits(Atoms), Late(l), NEW a \in Nameless
    PROVE  Late(SplitStep(l, a, Blank))
<1> DEFINE q == SplitStep(l, a, Blank)
<1>1. a \in Atoms
  BY DEF Nameless
<1>2. \/ q.tokens = Kept(l) /\ q.current = <<>>
      \/ q.tokens = l.tokens /\ q.current = Append(l.current, a)
  BY <1>1, SplitStepFacts
<1> HIDE DEF q
<1>3. q.current \in Seq(Nameless)
  <2> DEFINE c == l.current
  <2>1. c \in Seq(Nameless)
    BY DEF Late
  <2> HIDE DEF c
  <2>2. Append(c, a) \in Seq(Nameless) /\ <<>> \in Seq(Nameless)
    BY <2>1
  <2>3. QED
    BY <1>2, <2>2 DEF c
<1>4. HasField(q.tokens)
  BY <1>2, LateKeeps DEF Late
<1>5. QED
  BY <1>3, <1>4 DEF Late, q

\* Where lex_split() stands in a line that has the field at m, after k atoms.
SplitsField(l, h, m, k) ==
    /\ k <= m - 1 => Early(l)
    /\ k = m - 1 => l.current = <<>>
    /\ m <= k /\ k <= m + 4 => Within(l, k - m + 1)
    /\ m + 5 <= k => Late(l)

LEMMA PlainAtoms ==
    ASSUME NEW h \in Seq(Atoms), NEW m, PlainAt(h, m), NEW k \in 1..Len(h)
    PROVE  /\ m \in Nat /\ m >= 1 /\ m + 4 <= Len(h) /\ Len(h) \in Nat
           /\ k <= m => h[k] # Quote
           /\ k # m => h[k] \in Nameless
           /\ m <= k /\ k <= m + 4 => h[k] = Field[k - m + 1]
           /\ k = m - 1 \/ k = m + 5 => h[k] = Blank
<1>1. m \in 1..(Len(h) - 4) /\ Len(h) \in Nat /\ h[k] \in Atoms
  BY DEF PlainAt
<1>2. h[k] = "CHK" => k = m
  BY DEF PlainAt
<1>3. ASSUME m <= k, k <= m + 4 PROVE h[k] = Field[k - m + 1]
  <2>1. k - m + 1 \in 1..5 /\ m + (k - m + 1) - 1 = k
    BY <1>1, <1>3
  <2>2. h[m + (k - m + 1) - 1] = Field[k - m + 1]
    BY <2>1 DEF PlainAt
  <2>3. QED
    BY <2>1, <2>2
<1>4. k = m - 1 \/ k = m + 5 => h[k] = Blank
  <2>1. m # 1 => h[m - 1] = Blank
    BY DEF PlainAt
  <2>2. m + 5 <= Len(h) => h[m + 5] = Blank
    BY DEF PlainAt
  <2>3. QED
    BY <1>1, <2>1, <2>2
<1>5. k <= m => h[k] # Quote
  <2>1. \A i \in 1..m : h[i] # Quote
    BY DEF PlainAt
  <2>2. QED
    BY <1>1, <2>1
<1>6. QED
  BY <1>1, <1>2, <1>3, <1>4, <1>5 DEF Nameless

LEMMA SplitsFieldStep ==
    ASSUME NEW h \in Seq(Atoms), NEW m, PlainAt(h, m), NEW k \in 1..Len(h),
           NEW l \in Splits(Atoms), SplitsField(l, h, m, k - 1)
    PROVE  SplitsField(SplitStep(l, h[k], Blank), h, m, k)
<1> DEFINE a == h[k]
           q == SplitStep(l, a, Blank)
<1>1. /\ m \in Nat /\ m >= 1 /\ k \in Nat /\ k >= 1 /\ a \in Atoms
      /\ k <= m => a # Quote
      /\ k # m => a \in Nameless
      /\ m <= k /\ k <= m + 4 => a = Field[k - m + 1]
      /\ k = m - 1 \/ k = m + 5 => a = Blank
  BY PlainAtoms
<1> HIDE DEF a
<1>2. CASE k <= m - 1
  <2>1. Early(l) /\ a \in Nameless /\ a # Quote
    BY <1>1, <1>2 DEF SplitsField
  <2>2. Early(q) /\ (a = Blank => q.current = <<>>)
    BY <2>1, EarlyStep
  <2> HIDE DEF q
  <2>3. SplitsField(q, h, m, k)
    BY <1>1, <1>2, <2>2 DEF SplitsField
  <2>4. QED
    BY <2>3 DEF q, a
<1>3. CASE m <= k /\ k <= m + 4
  <2>1. k - m + 1 \in 1..5 /\ a = Field[k - m + 1] /\ (k - 1) - m + 1 = (k - m + 1) - 1
    BY <1>1, <1>3
  <2>2. Within(l, (k - m + 1) - 1)
    <3>1. CASE k = m
      <4>1. Early(l) /\ l.current = <<>>
        BY <1>1, <3>1 DEF SplitsField
      <4>2. Within(l, 0)
        BY <4>1, FieldPrefix DEF Early, Within
      <4>3. QED
        BY <1>1, <3>1, <4>2
    <3>2. CASE k # m
      <4>1. m <= k - 1 /\ k - 1 <= m + 4
        BY <1>1, <1>3, <3>2
      <4>2. QED
        BY <2>1, <4>1 DEF SplitsField
    <3>3. QED
      BY <3>1, <3>2
  <2>3. Within(q, k - m + 1)
    <3> DEFINE j == k - m + 1
    <3>1. j \in 1..5 /\ a = Field[j] /\ Within(l, j - 1) /\ Field[j] \in Atoms
      BY <1>1, <2>1, <2>2
    <3> HIDE DEF j, q
    <3>2. Within(SplitStep(l, Field[j], Blank), j)
      BY <3>1, WithinStep
    <3>3. QED
      BY <3>1, <3>2 DEF j, q
  <2> HIDE DEF q
  <2>4. SplitsField(q, h, m, k)
    BY <1>1, <1>3, <2>3 DEF SplitsField
  <2>5. QED
    BY <2>4 DEF q, a
<1>4. CASE m + 5 <= k
  <2>1. Late(q)
    <3>1. CASE k = m + 5
      <4>1. (k - 1) - m + 1 = 5 /\ m <= k - 1 /\ k - 1 <= m + 4 /\ a = Blank
        BY <1>1, <3>1
      <4>2. Within(l, 5)
        BY <4>1 DEF SplitsField
      <4>3. QED
        BY <4>1, <4>2, FieldFollowed
    <3>2. CASE k # m + 5
      <4>1. m + 5 <= k - 1 /\ a \in Nameless
        BY <1>1, <1>4, <3>2
      <4>2. QED
        BY <4>1, LateStep DEF SplitsField
    <3>3. QED
      BY <3>1, <3>2
  <2> HIDE DEF q
  <2>2. SplitsField(q, h, m, k)
    BY <1>1, <1>4, <2>1 DEF SplitsField
  <2>3. QED
    BY <2>2 DEF q, a
<1>5. QED
  BY <1>1, <1>2, <1>3, <1>4

\* lex_split() makes a token of the field, and no other that names it.
LEMMA PlainSplits ==
    ASSUME NEW h \in Seq(Atoms), NEW m, PlainAt(h, m)
    PROVE  HasField(lex_split(h, Blank))
<1> DEFINE n == Len(h)
<1>1. PICK r \in [0..Len(h) -> Splits(Atoms)] :
         /\ r[0] = NoTokens
         /\ \A k \in 1..Len(h) : r[k] = SplitStep(r[k - 1], h[k], Blank)
         /\ lex_split(h, Blank) = Kept(r[Len(h)])
  BY LexSplitSteps
<1> DEFINE S == {k \in 0..n : SplitsField(r[k], h, m, k)}
<1>2. n \in Nat /\ m \in Nat /\ m >= 1 /\ m + 4 <= n
  BY DEF PlainAt
<1>3. 0 \in S
  <2>1. Early(r[0]) /\ r[0].current = <<>>
    BY <1>1 DEF NoTokens, Early
  <2>2. SplitsField(r[0], h, m, 0)
    BY <1>2, <2>1 DEF SplitsField
  <2>3. QED
    BY <1>2, <2>2
<1>4. \A k \in 1..n : k - 1 \in S => k \in S
  <2>1. SUFFICES ASSUME NEW k \in 1..n, k - 1 \in S PROVE SplitsField(r[k], h, m, k)
    BY <1>2
  <2> DEFINE l == r[k - 1]
  <2>2. l \in Splits(Atoms) /\ SplitsField(l, h, m, k - 1) /\ r[k] = SplitStep(l, h[k], Blank)
    BY <1>1, <2>1
  <2> HIDE DEF l
  <2>3. QED
    BY <2>2, SplitsFieldStep
<1>5. n \in S
  <2> HIDE DEF S
  <2>1. \A k \in 0..n : k \in S
    BY <1>2, <1>3, <1>4, UpTo
  <2>2. QED
    BY <1>2, <2>1
<1>6. Within(r[n], 5) \/ Late(r[n])
  <2>1. SplitsField(r[n], h, m, n)
    BY <1>5
  <2>2. CASE n = m + 4
    <3>1. n - m + 1 = 5 /\ m <= n /\ n <= m + 4
      BY <1>2, <2>2
    <3>2. QED
      BY <2>1, <3>1 DEF SplitsField
  <2>3. CASE n # m + 4
    BY <1>2, <2>1, <2>3 DEF SplitsField
  <2>4. QED
    BY <2>2, <2>3
<1>7. QED
  BY <1>1, <1>6, FieldIsKept, LateKeeps

-----------------------------------------------------------------------------
\* parseHeader() and the field.

LEMMA FindFirst ==
    ASSUME NEW A, NEW s \in Seq(A), NEW a, NEW i \in 1..Len(s), s[i] = a
    PROVE  Find(s, a) \in 1..i
<1> DEFINE I == {j \in 1..Len(s) : s[j] = a}
<1>1. Len(s) \in Nat /\ I \in SUBSET Nat /\ i \in I
  OBVIOUS
<1>2. Find(s, a) = IF I # {} THEN Min(I) ELSE 0
  BY Zenon DEF Find, SelectInSeq
<1>3. \A j \in I : j \in 1..Len(s)
  OBVIOUS
<1> HIDE DEF I
<1>4. I # {} /\ Min(I) \in I /\ Min(I) <= i
  BY <1>1, MinProperties
<1>5. Min(I) \in 1..i
  <2>1. Min(I) \in 1..Len(s)
    BY <1>3, <1>4
  <2>2. QED
    BY <1>1, <1>4, <2>1
<1>6. QED
  BY <1>1, <1>2, <1>5

\* A token is about a field if it has the field's name in front of its first colon.
Names(token, name) ==
    LET colon == Find(token, ":")
    IN  colon # 0 /\ Len(Before(token, colon)) = 1 /\ Before(token, colon)[1] = name

LEMMA SetFieldFacts ==
    ASSUME NEW A, NEW r \in Setting(A), NEW token \in Seq(A)
    PROVE  SetField(r, token).fields["CHK"] =
              IF Names(token, "CHK") THEN After(token, Find(token, ":")) ELSE r.fields["CHK"]
<1> DEFINE colon == Find(token, ":")
           key == Before(token, colon)
           val == After(token, colon)
<1>1. SetField(r, token) =
        IF colon = 0 \/ Len(key) # 1 \/ key[1] \notin HeaderKeys
        THEN [r EXCEPT !.errors = @ \cup {"header"}]
        ELSE IF key[1] = "HR" /\ (val = <<>> \/ val[1] \notin Numbers)
        THEN [r EXCEPT !.fields["HR"] = <<>>, !.errors = @ \cup {"header"}]
        ELSE [r EXCEPT !.fields[key[1]] = IF key[1] = "HR" THEN <<val[1]>> ELSE val]
  BY Zenon DEF SetField
<1>2. Names(token, "CHK") <=> colon # 0 /\ Len(key) = 1 /\ key[1] = "CHK"
  BY DEF Names
<1>3. r.fields \in [HeaderKeys -> Seq(A)]
      /\ r = [fields |-> r.fields, errors |-> r.errors]
  BY DEF Setting
<1>4. "CHK" \in HeaderKeys /\ "HR" \in HeaderKeys
  BY DEF HeaderKeys
<1> HIDE DEF colon, key, val
<1>5. [r EXCEPT !.errors = @ \cup {"header"}].fields["CHK"] = r.fields["CHK"]
  BY <1>3
<1>6. ASSUME NEW k \in HeaderKeys, NEW v
      PROVE  [r EXCEPT !.fields[k] = v].fields["CHK"] = IF k = "CHK" THEN v ELSE r.fields["CHK"]
  BY <1>3, <1>4
<1>7. [r EXCEPT !.fields["HR"] = <<>>, !.errors = @ \cup {"header"}].fields["CHK"]
        = r.fields["CHK"]
  <2> DEFINE E == r.errors \cup {"header"}
             q == [r EXCEPT !.fields["HR"] = <<>>]
  <2>1. q.fields["CHK"] = r.fields["CHK"]
    BY <1>4, <1>6
  <2>2. [r EXCEPT !.fields["HR"] = <<>>, !.errors = E] = [q EXCEPT !.errors = E]
    <3> DEFINE f == r.fields
               e == r.errors
    <3>0. r = [fields |-> f, errors |-> e]
      BY <1>3
    <3> HIDE DEF f, e, E
    <3>1. ASSUME NEW k, NEW v, NEW x
          PROVE  [r EXCEPT !.fields[k] = v, !.errors = x]
                         = [[r EXCEPT !.fields[k] = v] EXCEPT !.errors = x]
      BY <3>0
    <3> HIDE DEF E
    <3>2. QED
      BY <3>1, Zenon
  <2>3. q = [fields |-> q.fields, errors |-> q.errors]
    <3> DEFINE f == r.fields
               e == r.errors
    <3>1. r = [fields |-> f, errors |-> e]
      BY <1>3
    <3> HIDE DEF f, e
    <3>2. ASSUME NEW g PROVE [[fields |-> f, errors |-> e] EXCEPT !.fields = g]
                                = [fields |-> g, errors |-> e]
      OBVIOUS
    <3>3. q = [[fields |-> f, errors |-> e] EXCEPT !.fields = [f EXCEPT !["HR"] = <<>>]]
      BY <3>1
    <3> HIDE DEF q
    <3>4. q = [fields |-> [f EXCEPT !["HR"] = <<>>], errors |-> e]
      BY <3>2, <3>3
    <3>5. QED
      BY <3>4
  <2> HIDE DEF q, E
  <2>4. [q EXCEPT !.errors = E].fields = q.fields
    BY <2>3
  <2>5. QED
    BY <2>1, <2>2, <2>4 DEF E
<1>8. CASE Names(token, "CHK")
  <2>1. key[1] = "CHK" /\ ~(colon = 0 \/ Len(key) # 1 \/ key[1] \notin HeaderKeys)
        /\ key[1] # "HR"
    BY <1>2, <1>4, <1>8
  <2>2. SetField(r, token) = [r EXCEPT !.fields[key[1]] = val]
    BY <1>1, <2>1, Zenon
  <2>3. QED
    BY <1>6, <1>8, <2>1, <2>2 DEF colon, val
<1>9. CASE ~Names(token, "CHK")
  <2>1. CASE colon = 0 \/ Len(key) # 1 \/ key[1] \notin HeaderKeys
    BY <1>1, <1>5, <1>9, <2>1, Zenon
  <2>2. CASE ~(colon = 0 \/ Len(key) # 1 \/ key[1] \notin HeaderKeys)
             /\ key[1] = "HR" /\ (val = <<>> \/ val[1] \notin Numbers)
    BY <1>1, <1>7, <1>9, <2>2, Zenon
  <2>3. CASE ~(colon = 0 \/ Len(key) # 1 \/ key[1] \notin HeaderKeys)
             /\ ~(key[1] = "HR" /\ (val = <<>> \/ val[1] \notin Numbers))
    <3> DEFINE v == IF key[1] = "HR" THEN <<val[1]>> ELSE val
    <3>1. SetField(r, token) = [r EXCEPT !.fields[key[1]] = v]
      BY <1>1, <2>3, Zenon
    <3>2. key[1] \in HeaderKeys /\ key[1] # "CHK"
      BY <1>2, <1>9, <2>3
    <3> HIDE DEF v
    <3>3. QED
      BY <1>6, <1>9, <3>1, <3>2
  <2>4. QED
    BY <2>1, <2>2, <2>3
<1>10. QED
  BY <1>8, <1>9

\* The value of the field, as the parser reads it.
Digest == <<"sha256", ":", "digest">>

LEMMA FieldNames == Names(Field, "CHK") /\ After(Field, Find(Field, ":")) = Digest
<1>1. Field \in Seq({"CHK", ":", "sha256", "digest"}) /\ Len(Field) = 5
      /\ Field[1] = "CHK" /\ Field[2] = ":" /\ Field[3] = "sha256" /\ Field[4] = ":"
      /\ Field[5] = "digest"
  BY DEF Field
<1>2. Find(Field, ":") \in 1..2 /\ Field[Find(Field, ":")] = ":"
  <2>1. Find(Field, ":") \in 1..2
    BY <1>1, FindFirst
  <2>2. Find(Field, ":") # 0 => Field[Find(Field, ":")] = ":"
    BY <1>1, FindPlace
  <2>3. QED
    BY <2>1, <2>2
<1>3. Find(Field, ":") = 2
  BY <1>1, <1>2
<1>4. Before(Field, 2) = <<"CHK">>
  <2> DEFINE s == SubSeq(Field, 1, 1)
             S == {"CHK", ":", "sha256", "digest"}
  <2>1. 1 \in 1..(Len(Field) + 1) /\ 1 \in (1 - 1)..Len(Field)
    BY <1>1
  <2>2. s \in Seq(S) /\ Len(s) = 1 - 1 + 1 /\ \A i \in 1..(1 - 1 + 1) : s[i] = Field[1 + i - 1]
    BY <1>1, <2>1, SliceIs
  <2>3. Before(Field, 2) = s
    BY DEF Before
  <2> HIDE DEF s, S
  <2>4. s = <<"CHK">>
    BY <1>1, <2>2
  <2>5. QED
    BY <2>3, <2>4
<1>5. After(Field, 2) = Digest
  <2> DEFINE s == SubSeq(Field, 3, 5)
             S == {"CHK", ":", "sha256", "digest"}
  <2>1. 3 \in 1..(Len(Field) + 1) /\ 5 \in (3 - 1)..Len(Field)
    BY <1>1
  <2>2. s \in Seq(S) /\ Len(s) = 5 - 3 + 1 /\ \A i \in 1..(5 - 3 + 1) : s[i] = Field[3 + i - 1]
    BY <1>1, <2>1, SliceIs
  <2>3. Digest \in Seq(S) /\ Len(Digest) = 3 /\ Digest[1] = "sha256" /\ Digest[2] = ":"
        /\ Digest[3] = "digest"
    BY DEF Digest
  <2>4. After(Field, 2) = s
    BY <1>1 DEF After
  <2> HIDE DEF s, S
  <2>5. Len(s) = Len(Digest) /\ \A i \in 1..3 : s[i] = Digest[i]
    BY <1>1, <2>2, <2>3
  <2>6. s = Digest
    BY <2>2, <2>3, <2>5, SameItems
  <2>7. QED
    BY <2>4, <2>6
<1>6. QED
  BY <1>3, <1>4, <1>5 DEF Names

LEMMA NamelessNames ==
    ASSUME NEW token \in Seq(Nameless)
    PROVE  ~Names(token, "CHK")
<1> DEFINE colon == Find(token, ":")
<1>1. colon \in 0..Len(token)
  BY FindPlace
<1>2. Before(token, colon) \in Seq(Nameless)
  BY <1>1, PartsType
<1>3. "CHK" \notin Nameless
  BY DEF Nameless
<1> DEFINE key == Before(token, colon)
<1> HIDE DEF key
<1>4. Len(key) = 1 => key[1] \in Nameless
  BY <1>2 DEF key
<1>5. QED
  BY <1>3, <1>4 DEF Names, key, colon

LEMMA FieldIsSet ==
    ASSUME NEW s, HasField(s), Field \in Seq(Atoms)
    PROVE  FoldLeft(SetField, NothingSet, s).fields["CHK"] = Digest
<1>1. PICK at \in DOMAIN s : s[at] = Field
  BY DEF HasField
<1>2. s \in Seq(Seq(Nameless) \cup {Field})
  BY DEF HasField
<1>3. s \in Seq(Seq(Atoms)) /\ Len(s) \in Nat /\ DOMAIN s = 1..Len(s)
      /\ \A k \in 1..Len(s) : s[k] \in Seq(Nameless) \cup {Field}
  <2> DEFINE S == Seq(Nameless) \cup {Field}
  <2>1. S \subseteq Seq(Atoms)
    BY DEF Nameless
  <2>2. s \in Seq(S)
    BY <1>2
  <2> HIDE DEF S
  <2>3. s \in Seq(Seq(Atoms)) /\ Len(s) \in Nat /\ DOMAIN s = 1..Len(s)
        /\ \A k \in 1..Len(s) : s[k] \in S
    BY <2>1, <2>2
  <2>4. QED
    BY <2>3 DEF S
<1>4. PICK r \in [0..Len(s) -> Setting(Atoms)] :
         /\ r[0] = NothingSet
         /\ \A k \in 1..Len(s) : r[k] = SetField(r[k - 1], s[k])
         /\ FoldLeft(SetField, NothingSet, s) = r[Len(s)]
  BY <1>3, SetFieldSteps
<1> DEFINE S == {k \in 0..Len(s) : at <= k => r[k].fields["CHK"] = Digest}
<1>5. 0 \in S
  BY <1>1, <1>3
<1>6. \A k \in 1..Len(s) : k - 1 \in S => k \in S
  <2>1. SUFFICES ASSUME NEW k \in 1..Len(s), k - 1 \in S, at <= k
                 PROVE  r[k].fields["CHK"] = Digest
    BY <1>3
  <2>2. r[k - 1] \in Setting(Atoms) /\ s[k] \in Seq(Atoms) /\ r[k] = SetField(r[k - 1], s[k])
    <3>1. k - 1 \in 0..Len(s) /\ k \in 1..Len(s)
      BY <1>3
    <3>2. r[k - 1] \in Setting(Atoms)
      BY <3>1
    <3>3. s[k] \in Seq(Atoms)
      BY <1>3, <3>1
    <3>4. QED
      BY <1>4, <3>1, <3>2, <3>3
  <2>3. r[k].fields["CHK"] = IF Names(s[k], "CHK") THEN After(s[k], Find(s[k], ":"))
                             ELSE r[k - 1].fields["CHK"]
    BY <2>2, SetFieldFacts
  <2>4. CASE s[k] = Field
    BY <2>3, <2>4, FieldNames
  <2>5. CASE s[k] # Field
    <3>1. ~Names(s[k], "CHK")
      BY <1>3, <2>5, NamelessNames
    <3>2. at <= k - 1
      BY <1>1, <1>3, <2>1, <2>5
    <3>3. QED
      BY <2>1, <2>3, <3>1, <3>2
  <2>6. QED
    BY <2>4, <2>5
<1>7. \A k \in 0..Len(s) : k \in S
  <2> HIDE DEF S
  <2>1. QED
    BY <1>3, <1>5, <1>6, UpTo
<1>8. QED
  BY <1>1, <1>3, <1>4, <1>7

\* The parser reads the digest out of a header line with the field in plain sight.
LEMMA PlainIsRead ==
    ASSUME NEW h \in Seq(Atoms), NEW m, PlainAt(h, m)
    PROVE  parseHeader(h).fields["CHK"] = Digest
<1> DEFINE s == lex_split(h, " ")
<1>1. parseHeader(h) = FoldLeft(SetField, NothingSet, s)
  BY Zenon DEF parseHeader, NothingSet
<1>2. HasField(s)
  BY PlainSplits, Zenon DEF Blank
<1>3. Field \in Seq(Atoms)
  <2>1. m \in 1..(Len(h) - 4) /\ \A j \in 1..5 : h[m + j - 1] = Field[j]
    BY DEF PlainAt
  <2>2. \A j \in 1..5 : m + j - 1 \in 1..Len(h)
    BY <2>1
  <2>3. \A j \in 1..5 : Field[j] \in Atoms
    <3>1. ASSUME NEW j \in 1..5 PROVE Field[j] \in Atoms
      <4>1. h[m + j - 1] \in Atoms
        BY <2>2
      <4>2. QED
        BY <2>1, <4>1
    <3>2. QED
      BY <3>1
  <2>4. Len(Field) = 5 /\ Field = [j \in 1..5 |-> Field[j]]
    BY DEF Field
  <2>5. QED
    BY <2>3, <2>4
<1> HIDE DEF s
<1>4. QED
  BY <1>1, <1>2, <1>3, FieldIsSet

-----------------------------------------------------------------------------
\* From the frame that is stamped to the header that is read.

\* What is trimmed away is blank.
LEMMA TrimSpans ==
    ASSUME NEW A, NEW s \in Seq(A), NEW q \in 1..Len(s), s[q] \notin White
    PROVE  \E a \in 1..Len(s), b \in 1..Len(s) :
              /\ a <= b /\ trim(s) = SubSeq(s, a, b)
              /\ \A i \in 1..Len(s) : s[i] \notin White => a <= i /\ i <= b
<1> DEFINE ink == {i \in DOMAIN s : s[i] \notin White}
           a == Min(ink)
           b == Max(ink)
<1>1. Len(s) \in Nat /\ DOMAIN s = 1..Len(s) /\ ink \subseteq 0..Len(s) /\ ink \subseteq Nat
      /\ q \in ink
  OBVIOUS
<1>2. trim(s) = SubSeq(s, a, b)
  BY <1>1, Zenon DEF trim
<1>3. \A i : i \in ink <=> i \in 1..Len(s) /\ s[i] \notin White
  BY <1>1
<1> HIDE DEF ink
<1>4. /\ a \in ink /\ \A i \in ink : a <= i
      /\ b \in ink /\ \A i \in ink : i <= b
  BY <1>1, MinProperties, MaxProperties
<1> HIDE DEF a, b
<1>5. QED
  BY <1>2, <1>3, <1>4

LEMMA WordsAreInk ==
    /\ "CHK" \in Words /\ "CHK" \notin White /\ "digest" \notin White
    /\ "digest" \notin Ends /\ "digest" \in Atoms /\ "CHK" # Blank
<1>1. "CHK" \in Words /\ "digest" \in Words
  BY ParserAssumption, ChecksumAssumption DEF HeaderKeys
<1>2. White \subseteq Punctuation /\ Ends \subseteq White /\ Blank \in White
  BY Zenon DEF Punctuation, White, Ends, Blank
<1>3. \A a \in Words : a \notin Punctuation
  BY ParserAssumption
<1>4. "CHK" \notin Punctuation /\ "digest" \notin Punctuation
  BY <1>1, <1>3
<1>5. QED
  BY <1>1, <1>2, <1>4 DEF Atoms

\* The field stands at p.
FieldFrom(w, p) == \A j \in 1..5 : w[p + j - 1] = Field[j]

\* A line of a frame that stamp_chk() wrote the digest into.
LEMMA DigestIsWritten ==
    ASSUME NEW line \in Seq(Atoms), MarkerIn(line) # 0, NEW w, w = WithValue(line, <<"digest">>),
           NEW p, p = MarkerIn(line)
    PROVE  /\ w \in Seq(Atoms) /\ MarkerIn(w) = p /\ p \in 1..(Len(w) - 4)
           /\ FieldFrom(w, p)
           /\ p + 5 <= Len(w) => w[p + 5] \in Ends
<1> DEFINE v == <<"digest">>
           e == ValueEnd(line, p + 4)
<1>1. v \in Seq(Atoms) /\ Len(v) = 1 /\ v[1] = "digest" /\ \A i \in 1..Len(v) : v[i] \notin Ends
  BY WordsAreInk
<1> HIDE DEF v
<1>2. w = WithValue(line, v)
  BY DEF v
<1>3. w \in Seq(Atoms) /\ IsRewritten(w, line, p, e, v)
  BY <1>1, <1>2, WithValueForm
<1>4. MarkerIn(w) = p
  BY <1>1, <1>2, ValueStaysPut
<1>5. MarkerAt(line, p)
  BY MarkerInIs
<1>6. p + 4 \in 1..(Len(line) + 1) /\ Len(line) \in Nat /\ p \in Nat
  BY <1>5 DEF MarkerAt
<1>7. EndsAt(line, p + 4, e)
  BY <1>6, ValueEndIs
<1> HIDE DEF e
<1>8. /\ e \in (p + 4)..(Len(line) + 1) /\ p \in 1..(Len(line) - 3)
      /\ Len(w) = p + 4 + (Len(line) + 1 - e)
      /\ \A i \in 1..(p + 3) : w[i] = line[i]
      /\ w[p + 3 + 1] = v[1]
      /\ \A i \in 1..(Len(line) + 1 - e) : w[p + 3 + 1 + i] = line[e + i - 1]
  BY <1>1, <1>3, <1>6 DEF IsRewritten
<1>9. /\ w[p] = "CHK" /\ w[p + 1] = ":" /\ w[p + 2] = "sha256" /\ w[p + 3] = ":"
      /\ w[p + 4] = "digest"
  <2>1. w[p] = line[p] /\ w[p + 1] = line[p + 1] /\ w[p + 2] = line[p + 2] /\ w[p + 3] = line[p + 3]
    <3>1. {p, p + 1, p + 2, p + 3} \subseteq 1..(p + 3)
      BY <1>6, <1>8
    <3>2. QED
      BY <1>8, <3>1
  <2>2. w[p + 4] = "digest"
    BY <1>1, <1>6, <1>8
  <2>3. QED
    BY <1>5, <2>1, <2>2 DEF MarkerAt
<1>10. \A j \in 1..5 : w[p + j - 1] = Field[j]
  <2>1. Field[1] = "CHK" /\ Field[2] = ":" /\ Field[3] = "sha256" /\ Field[4] = ":"
        /\ Field[5] = "digest"
    BY DEF Field
  <2>2. p + 1 - 1 = p /\ p + 2 - 1 = p + 1 /\ p + 3 - 1 = p + 2 /\ p + 4 - 1 = p + 3
        /\ p + 5 - 1 = p + 4
    BY <1>6
  <2>3. \A j \in 1..5 : j = 1 \/ j = 2 \/ j = 3 \/ j = 4 \/ j = 5
    OBVIOUS
  <2>4. QED
    BY <1>9, <2>1, <2>2, <2>3
<1>11. ASSUME p + 5 <= Len(w) PROVE w[p + 5] \in Ends
  <2>1. e <= Len(line) /\ 1 \in 1..(Len(line) + 1 - e)
    BY <1>6, <1>8, <1>11
  <2>2. w[p + 3 + 1 + 1] = line[e + 1 - 1]
    BY <1>8, <2>1
  <2>3. w[p + 5] = line[e]
    BY <1>6, <1>8, <2>2
  <2>4. line[e] \in Ends
    BY <1>7, <2>1 DEF EndsAt
  <2>5. QED
    BY <2>3, <2>4
<1>12. p \in 1..(Len(w) - 4)
  BY <1>6, <1>8
<1>13. QED
  BY <1>3, <1>4, <1>10, <1>11, <1>12 DEF FieldFrom

LEMMA StampedIsPlain ==
    ASSUME NEW line \in Seq(Atoms), MarkerIn(line) # 0, NEW w, w = WithValue(line, <<"digest">>),
           Quote \notin Range(w), "cr" \notin Range(trim(w)),
           \A i \in 1..Len(w) : w[i] = "CHK" => i = MarkerIn(w),
           \/ MarkerIn(trim(w)) = 1
           \/ \E i \in DOMAIN trim(w) : trim(w)[i] = Blank /\ MarkerIn(trim(w)) = i + 1
    PROVE  \E m : PlainAt(trim(w), m)
<1> DEFINE t == trim(w)
<1>0. PICK p : p = MarkerIn(line)
  OBVIOUS
<1>1. /\ w \in Seq(Atoms) /\ MarkerIn(w) = p /\ p \in 1..(Len(w) - 4)
      /\ \A j \in 1..5 : w[p + j - 1] = Field[j]
      /\ p + 5 <= Len(w) => w[p + 5] \in Ends
  <2> HIDE DEF t
  <2>1. line \in Seq(Atoms) /\ MarkerIn(line) # 0 /\ w = WithValue(line, <<"digest">>)
    OBVIOUS
  <2>2. w \in Seq(Atoms) /\ MarkerIn(w) = p
    BY <1>0, DigestIsWritten, <2>1
  <2>3. p \in 1..(Len(w) - 4)
    BY <1>0, DigestIsWritten, <2>1
  <2>4. FieldFrom(w, p)
    BY <1>0, DigestIsWritten, <2>1
  <2>5. p + 5 <= Len(w) => w[p + 5] \in Ends
    BY <1>0, DigestIsWritten, <2>1
  <2>6. QED
    BY <2>2, <2>3, <2>4, <2>5 DEF FieldFrom
<1>2. Len(w) \in Nat /\ p \in Nat /\ p \in 1..Len(w) /\ p + 4 \in 1..Len(w)
  BY <1>1
<1>3. w[p] \notin White /\ w[p + 4] \notin White
  <2>1. Field[1] = "CHK" /\ Field[5] = "digest" /\ 1 \in 1..5 /\ 5 \in 1..5
        /\ p + 1 - 1 = p /\ p + 5 - 1 = p + 4
    BY <1>2 DEF Field
  <2>2. w[p] = "CHK" /\ w[p + 4] = "digest"
    BY <1>1, <2>1
  <2>3. QED
    BY <2>2, WordsAreInk
<1>4. PICK a \in 1..Len(w), b \in 1..Len(w) :
         /\ a <= b /\ t = SubSeq(w, a, b)
         /\ \A i \in 1..Len(w) : w[i] \notin White => a <= i /\ i <= b
  BY <1>1, <1>2, <1>3, TrimSpans
<1> HIDE DEF t
<1>5. a <= p /\ p + 4 <= b
  BY <1>2, <1>3, <1>4
<1>6. t \in Seq(Atoms) /\ Len(t) = b - a + 1 /\ \A i \in 1..(b - a + 1) : t[i] = w[a + i - 1]
  <2>1. a \in 1..(Len(w) + 1) /\ b \in (a - 1)..Len(w)
    BY <1>2, <1>4
  <2>2. QED
    <3>1. SubSeq(w, a, b) \in Seq(Atoms) /\ Len(SubSeq(w, a, b)) = b - a + 1
          /\ \A i \in 1..(b - a + 1) : SubSeq(w, a, b)[i] = w[a + i - 1]
      BY <1>1, <2>1, SliceIs
    <3>2. QED
      BY <1>4, <3>1, Zenon
<1> DEFINE m == p - a + 1
<1>7. m \in 1..(Len(t) - 4) /\ a + m - 1 = p /\ Len(t) \in Nat /\ DOMAIN t = 1..Len(t)
  BY <1>2, <1>4, <1>5, <1>6
<1>8. \A i \in 1..Len(t) : t[i] = w[a + i - 1] /\ a + i - 1 \in 1..Len(w)
  BY <1>2, <1>4, <1>6
<1>9. ASSUME NEW i \in 1..Len(t), t[i] = "CHK" PROVE i = m
  <2>1. a + i - 1 = p
    BY <1>1, <1>8, <1>9
  <2>2. QED
    BY <1>2, <1>4, <2>1
<1>10. ASSUME NEW j \in 1..5 PROVE t[m + j - 1] = Field[j]
  <2>1. m + j - 1 \in 1..Len(t) /\ a + (m + j - 1) - 1 = p + j - 1
    BY <1>2, <1>4, <1>7
  <2>2. QED
    BY <1>1, <1>8, <2>1
<1>11. \A i \in 1..Len(t) : t[i] # Quote /\ t[i] # "cr"
  <2>1. \A i \in 1..Len(w) : w[i] # Quote
    <3>1. \A i \in DOMAIN w : w[i] \in Range(w)
      BY Zenon DEF Range
    <3>2. DOMAIN w = 1..Len(w)
      BY <1>1
    <3>3. QED
      BY <3>1, <3>2
  <2>2. \A i \in 1..Len(t) : t[i] # "cr"
    <3>1. \A i \in DOMAIN t : t[i] \in Range(t)
      BY Zenon DEF Range
    <3>2. "cr" \notin Range(t)
      BY DEF t
    <3>3. QED
      BY <1>7, <3>1, <3>2
  <2>3. QED
    BY <1>8, <2>1, <2>2
<1>12. MarkerIn(t) = m
  <2>1. MarkerAt(t, m)
    <3>1. t[m] = Field[1] /\ t[m + 1] = Field[2] /\ t[m + 2] = Field[3] /\ t[m + 3] = Field[4]
      <4>1. m + 1 - 1 = m /\ m + 2 - 1 = m + 1 /\ m + 3 - 1 = m + 2 /\ m + 4 - 1 = m + 3
        BY <1>7
      <4>2. t[m + 1 - 1] = Field[1] /\ t[m + 2 - 1] = Field[2] /\ t[m + 3 - 1] = Field[3]
            /\ t[m + 4 - 1] = Field[4]
        BY <1>10
      <4>3. QED
        BY <4>1, <4>2
    <3>2. m \in 1..(Len(t) - 3)
      BY <1>7
    <3>3. QED
      BY <3>1, <3>2 DEF MarkerAt, Field
  <2>2. \A i \in 1..(m - 1) : ~MarkerAt(t, i)
    <3>1. \A i \in 1..(m - 1) : i \in 1..Len(t) /\ i # m
      BY <1>7
    <3>2. QED
      BY <1>9, <3>1 DEF MarkerAt
  <2> HIDE DEF m
  <2>3. QED
    BY <1>6, <2>1, <2>2, MarkerInIs
<1>13. m # 1 => t[m - 1] = Blank
  <2>1. MarkerIn(t) = 1 \/ \E i \in 1..Len(t) : t[i] = Blank /\ MarkerIn(t) = i + 1
    BY <1>7 DEF t
  <2> HIDE DEF m
  <2>2. ASSUME m # 1 PROVE t[m - 1] = Blank
    <3>1. PICK i \in 1..Len(t) : t[i] = Blank /\ m = i + 1
      BY <1>12, <2>1, <2>2
    <3>2. m - 1 = i
      BY <3>1
    <3>3. QED
      BY <3>1, <3>2
  <2>3. QED
    BY <2>2
<1>14. ASSUME m + 5 <= Len(t) PROVE t[m + 5] = Blank
  <2>1. m + 5 \in 1..Len(t) /\ a + (m + 5) - 1 = p + 5 /\ p + 5 <= Len(w)
    BY <1>2, <1>4, <1>6, <1>7, <1>14
  <2>2. t[m + 5] = w[p + 5]
    BY <1>8, <2>1
  <2>3. t[m + 5] \in Ends /\ t[m + 5] # "cr"
    BY <1>1, <1>11, <2>1, <2>2
  <2>4. \A x \in Ends : x = Blank \/ x = "cr"
    BY Zenon DEF Ends, Blank
  <2>5. QED
    BY <2>3, <2>4
<1>15. \A i \in 1..m : t[i] # Quote
  BY <1>7, <1>11
<1> HIDE DEF m
<1>16. PlainAt(t, m)
  BY <1>7, <1>9, <1>10, <1>13, <1>14, <1>15 DEF PlainAt
<1>17. QED
  BY <1>16 DEF t

\* A line that is folded into the header does not move the field.
LEMMA PlainGrows ==
    ASSUME NEW h \in Seq(Atoms), NEW m, PlainAt(h, m), NEW x \in Seq(Nameless), NEW s, s = <<Blank>>
    PROVE  h \o s \o x \in Seq(Atoms) /\ PlainAt(h \o s \o x, m)
<1> DEFINE t == h \o s \o x
<1>1. s \in Seq(Atoms) /\ Len(s) = 1 /\ s[1] = Blank /\ x \in Seq(Atoms)
  BY BlankIsNameless DEF Nameless
<1>2. Len(h) \in Nat /\ Len(x) \in Nat
  OBVIOUS
<1>3. /\ t \in Seq(Atoms) /\ Len(t) = Len(h) + 1 + Len(x)
      /\ \A i \in 1..Len(h) : t[i] = h[i]
      /\ t[Len(h) + 1] = Blank
      /\ \A i \in 1..Len(x) : t[Len(h) + 1 + i] = x[i]
  BY <1>1, <1>2
<1> HIDE DEF t
<1>4. /\ m \in 1..(Len(h) - 4) /\ \A j \in 1..5 : h[m + j - 1] = Field[j]
      /\ m # 1 => h[m - 1] = Blank
      /\ m + 5 <= Len(h) => h[m + 5] = Blank
      /\ \A i \in 1..Len(h) : h[i] = "CHK" => i = m
      /\ \A i \in 1..m : h[i] # Quote
  BY DEF PlainAt
<1>5. m \in Nat /\ m \in 1..(Len(t) - 4)
  BY <1>2, <1>3, <1>4
<1>6. ASSUME NEW j \in 1..5 PROVE t[m + j - 1] = Field[j]
  <2>1. m + j - 1 \in 1..Len(h)
    BY <1>2, <1>4
  <2>2. QED
    BY <1>3, <1>4, <2>1
<1>7. m # 1 => t[m - 1] = Blank
  <2>1. m # 1 => m - 1 \in 1..Len(h)
    BY <1>2, <1>4
  <2>2. QED
    BY <1>3, <1>4, <2>1
<1>8. ASSUME m + 5 <= Len(t) PROVE t[m + 5] = Blank
  <2>1. m + 5 \in 1..Len(h) \/ m + 5 = Len(h) + 1
    BY <1>2, <1>4, <1>5
  <2>2. QED
    BY <1>3, <1>4, <2>1
<1>9. ASSUME NEW i \in 1..Len(t), t[i] = "CHK" PROVE i = m
  <2>1. CASE i \in 1..Len(h)
    BY <1>3, <1>4, <1>9, <2>1
  <2>2. CASE i = Len(h) + 1
    BY <1>3, <1>9, <2>2, WordsAreInk
  <2>3. CASE i > Len(h) + 1
    <3> DEFINE k == i - (Len(h) + 1)
    <3>1. k \in 1..Len(x) /\ Len(h) + 1 + k = i
      BY <1>2, <1>3, <2>3
    <3>2. x[k] = "CHK" /\ x[k] \in Nameless
      BY <1>3, <1>9, <3>1
    <3>3. QED
      BY <3>2 DEF Nameless
  <2>4. QED
    BY <1>2, <1>3, <2>1, <2>2, <2>3
<1>10. \A i \in 1..m : t[i] # Quote
  <2>1. \A i \in 1..m : i \in 1..Len(h)
    BY <1>2, <1>4
  <2>2. QED
    BY <1>3, <1>4, <2>1
<1>11. PlainAt(t, m)
  BY <1>5, <1>6, <1>7, <1>8, <1>9, <1>10 DEF PlainAt
<1>12. QED
  BY <1>3, <1>11 DEF t

\* The atoms that frames have before they are stamped.
Untold == Atoms \ {"digest"}

\* What is known of the lines of a stamped frame.
Honest(payload) ==
    /\ IsPlainChk(payload) =>
          /\ payload # <<>> /\ \E m : PlainAt(trim(payload[1]), m)
          /\ \A n \in 2..Len(payload) : trim(payload[n]) \in Seq(Nameless)
    /\ ~HasMarker(payload) => payload \in Seq(Seq(Untold))

LEMMA NewHead ==
    ASSUME NEW A, NEW s \in Seq(A), s # <<>>, NEW x \in A, NEW t, t = <<x>> \o Tail(s)
    PROVE  /\ t \in Seq(A) /\ t # <<>> /\ Head(t) = x /\ Tail(t) = Tail(s)
           /\ Len(t) = Len(s) /\ \A n \in 2..Len(s) : t[n] = s[n]
<1>1. Len(s) \in Nat /\ Len(s) >= 1
  OBVIOUS
<1> DEFINE r == Tail(s)
<1>2. r \in Seq(A) /\ Len(r) = Len(s) - 1 /\ \A n \in 1..(Len(s) - 1) : r[n] = s[n + 1]
  BY <1>1
<1> HIDE DEF r
<1> DEFINE h == <<x>>
<1>3. h \in Seq(A) /\ Len(h) = 1 /\ h[1] = x
  OBVIOUS
<1>4. t = h \o r
  BY DEF r
<1> HIDE DEF h
<1>5. /\ t \in Seq(A) /\ Len(t) = 1 + Len(r) /\ t[1] = x
      /\ \A n \in 1..Len(r) : t[1 + n] = r[n]
  BY <1>2, <1>3, <1>4
<1>6. Tail(t) \in Seq(A) /\ Len(Tail(t)) = Len(r)
      /\ \A n \in 1..Len(r) : Tail(t)[n] = r[n]
  BY <1>1, <1>2, <1>5
<1>7. Tail(t) = r
  <2> DEFINE u == Tail(t)
  <2>1. u \in Seq(A) /\ r \in Seq(A) /\ Len(u) = Len(r) /\ \A n \in 1..Len(u) : u[n] = r[n]
    BY <1>2, <1>6
  <2> HIDE DEF u
  <2>2. u = r
    BY <2>1, SameItems
  <2>3. QED
    BY <2>2 DEF u
<1>8. ASSUME NEW n \in 2..Len(s) PROVE t[n] = s[n]
  <2>1. n - 1 \in 1..(Len(s) - 1) /\ 1 + (n - 1) = n /\ (n - 1) + 1 = n
    BY <1>1
  <2>2. t[1 + (n - 1)] = r[n - 1] /\ r[n - 1] = s[(n - 1) + 1]
    BY <1>2, <1>5, <2>1
  <2>3. QED
    BY <2>1, <2>2
<1>9. t # <<>> /\ Head(t) = x /\ Len(t) = Len(s)
  BY <1>1, <1>2, <1>5
<1>10. QED
  BY <1>5, <1>7, <1>8, <1>9 DEF r

\* The value last written counts, whatever was written before.
LEMMA LastChkCounts ==
    ASSUME NEW frame \in Seq(Text), NEW v \in Text, NEW x \in Text,
           \A i \in 1..Len(v) : v[i] \notin Ends
    PROVE  /\ WithChk(frame, v) \in Seq(Text)
           /\ HasMarker(WithChk(frame, v)) <=> HasMarker(frame)
           /\ WithChk(WithChk(frame, v), x) = WithChk(frame, x)
<1>1. CASE ~HasMarker(frame)
  <2>1. WithChk(frame, v) = frame
    BY <1>1 DEF WithChk
  <2>2. QED
    BY <2>1
<1>2. CASE HasMarker(frame)
  <2> DEFINE line == Head(frame)
             w == WithValue(line, v)
             p == WithChk(frame, v)
  <2>1. frame # <<>> /\ line \in Seq(Atoms) /\ MarkerIn(line) # 0
    BY <1>2 DEF HasMarker, Text
  <2>2. v \in Seq(Atoms) /\ x \in Seq(Atoms)
    BY DEF Text
  <2>3. p = <<w>> \o Tail(frame)
    BY <1>2, Zenon DEF WithChk
  <2>4. w \in Seq(Atoms) /\ MarkerIn(w) = MarkerIn(line) /\ WithValue(w, x) = WithValue(line, x)
    <3> HIDE DEF line
    <3>1. QED
      BY <2>1, <2>2, WithValueForm, ValueStaysPut, LastValueCounts
  <2>5. w \in Text
    BY <2>4 DEF Text
  <2> HIDE DEF w, p
  <2>6. p \in Seq(Text) /\ p # <<>> /\ Head(p) = w /\ Tail(p) = Tail(frame)
    BY <2>1, <2>3, <2>5, NewHead
  <2>7. HasMarker(p)
    BY <2>1, <2>4, <2>6 DEF HasMarker
  <2>8. WithChk(p, x) = <<WithValue(w, x)>> \o Tail(frame)
    BY <2>6, <2>7, Zenon DEF WithChk
  <2>9. WithChk(frame, x) = <<WithValue(line, x)>> \o Tail(frame)
    BY <1>2, Zenon DEF WithChk
  <2>10. QED
    BY <1>2, <2>4, <2>6, <2>7, <2>8, <2>9 DEF p
<1>3. QED
  BY <1>1, <1>2

DigestAlone == <<"digest">>

LEMMA DigestIsText ==
    /\ DigestAlone \in Text /\ \A i \in 1..Len(DigestAlone) : DigestAlone[i] \notin Ends
    /\ <<>> \in Text /\ \A i \in 1..Len(<<>>) : <<>>[i] \notin Ends
  BY WordsAreInk DEF DigestAlone, Text

\* Both ends hash the same form of a frame.
LEMMA SameFormHashed ==
    ASSUME NEW frame \in Seq(Text)
    PROVE  /\ stamp_chk(frame) \in Seq(Text)
           /\ HasMarker(stamp_chk(frame)) <=> HasMarker(frame)
           /\ canonical_for_chk(stamp_chk(frame)) = HashedBy(frame)
<1> DEFINE e == <<>>
<1>1. stamp_chk(frame) = WithChk(frame, DigestAlone)
  BY DEF stamp_chk, DigestAlone
<1>2. \A f : canonical_for_chk(f) = WithChk(f, e)
  BY DEF canonical_for_chk
<1>3. HashedBy(frame) = canonical_for_chk(WithChk(frame, e))
  BY DEF HashedBy
<1>4. e \in Text /\ \A i \in 1..Len(e) : e[i] \notin Ends
  BY DigestIsText
<1> HIDE DEF e
<1>5. WithChk(WithChk(frame, e), e) = WithChk(frame, e)
  BY <1>4, LastChkCounts
<1>6. /\ WithChk(frame, DigestAlone) \in Seq(Text)
      /\ HasMarker(WithChk(frame, DigestAlone)) <=> HasMarker(frame)
      /\ WithChk(WithChk(frame, DigestAlone), e) = WithChk(frame, e)
  BY <1>4, DigestIsText, LastChkCounts
<1>7. QED
  BY <1>1, <1>2, <1>3, <1>5, <1>6

LEMMA StampedIsHonest ==
    ASSUME NEW frame \in Frames, NEW p, p = stamp_chk(frame)
    PROVE  Honest(p)
<1>1. frame \in Seq(Text) /\ \A n \in DOMAIN frame : "digest" \notin Range(frame[n])
  BY FramesAssumption, ChecksumAssumption
<1>2. p \in Seq(Text) /\ (HasMarker(p) <=> HasMarker(frame))
  BY <1>1, SameFormHashed
<1>3. p = WithChk(frame, DigestAlone)
  BY DEF stamp_chk, DigestAlone
<1>4. ASSUME ~HasMarker(p) PROVE p \in Seq(Seq(Untold))
  <2>1. p = frame
    BY <1>2, <1>3, <1>4 DEF WithChk
  <2>2. ASSUME NEW n \in DOMAIN frame PROVE frame[n] \in Seq(Untold)
    <3>1. frame[n] \in Seq(Atoms) /\ "digest" \notin Range(frame[n])
      BY <1>1, <2>2 DEF Text
    <3> DEFINE l == frame[n]
    <3>2. \A i \in DOMAIN l : l[i] \in Range(l)
      BY Zenon DEF Range
    <3> HIDE DEF l
    <3>3. l \in Seq(Atoms) /\ \A i \in DOMAIN l : l[i] # "digest"
      BY <3>1, <3>2 DEF l
    <3>4. l \in Seq(Untold)
      BY <3>3 DEF Untold
    <3>5. QED
      BY <3>4 DEF l
  <2>3. QED
    BY <1>1, <2>1, <2>2
<1>5. ASSUME IsPlainChk(p)
      PROVE  /\ p # <<>> /\ \E m : PlainAt(trim(p[1]), m)
             /\ \A n \in 2..Len(p) : trim(p[n]) \in Seq(Nameless)
  <2> DEFINE line == Head(frame)
             w == Head(p)
             t == trim(w)
  <2>1. HasMarker(p) /\ HasMarker(frame)
    BY <1>2, <1>5 DEF IsPlainChk
  <2>2. frame # <<>> /\ p # <<>> /\ MarkerIn(line) # 0 /\ line \in Seq(Atoms) /\ line \in Text
    BY <1>1, <2>1 DEF HasMarker, Text
  <2>3. w = WithValue(line, DigestAlone)
    <3> DEFINE x == WithValue(line, DigestAlone)
    <3>1. p = <<x>> \o Tail(frame)
      BY <1>3, <2>1, Zenon DEF WithChk
    <3>2. x \in Text
      BY <2>2, WithValueForm, DigestIsText DEF Text
    <3> HIDE DEF x
    <3>3. Head(p) = x
      BY <1>1, <2>2, <3>1, <3>2, NewHead
    <3>4. QED
      BY <3>3 DEF x
  <2>4. w = p[1] /\ Len(p) \in Nat /\ Len(p) >= 1 /\ DOMAIN p = 1..Len(p) /\ w \in Seq(Atoms)
    BY <1>2, <2>2 DEF Text
  <2>5. /\ MarkerIn(t) \in {1} \cup {i + 1 : i \in {i \in DOMAIN t : t[i] = Blank}}
        /\ Quote \notin Range(w) /\ "cr" \notin Range(t)
        /\ \A n \in DOMAIN p : \A i \in DOMAIN p[n] :
              p[n][i] = "CHK" => n = 1 /\ i = MarkerIn(w)
    BY <1>5, Zenon DEF IsPlainChk, Blank
  <2> HIDE DEF t, w, line
  <2>6. MarkerIn(t) = 1 \/ \E i \in DOMAIN t : t[i] = Blank /\ MarkerIn(t) = i + 1
    BY <2>5
  <2>7. \A i \in 1..Len(w) : w[i] = "CHK" => i = MarkerIn(w)
    BY <2>4, <2>5
  <2>8. \E m : PlainAt(trim(w), m)
    BY <2>2, <2>3, <2>5, <2>6, <2>7, StampedIsPlain DEF t, DigestAlone
  <2>9. ASSUME NEW n \in 2..Len(p) PROVE trim(p[n]) \in Seq(Nameless)
    <3> DEFINE l == p[n]
    <3>1. n \in DOMAIN p /\ n # 1
      BY <2>4
    <3>2. l \in Seq(Atoms) /\ \A i \in DOMAIN l : l[i] # "CHK"
      BY <1>2, <2>5, <3>1 DEF Text
    <3> HIDE DEF l
    <3>3. l \in Seq(Nameless)
      BY <3>2 DEF Nameless
    <3>4. trim(l) \in Seq(Nameless)
      BY <3>3, TrimType
    <3>5. QED
      BY <3>4 DEF l
  <2>10. QED
    BY <2>2, <2>4, <2>8, <2>9
<1>6. QED
  BY <1>4, <1>5 DEF Honest

\* What a parser has read of the header of a stamped frame.
HeaderTold(t) ==
    /\ ParserTyped(t) /\ t.mode = "TOLERANT"
    /\ t.phase = "header" => t.at >= 1
    /\ IsPlainChk(t.payload) =>
          /\ t.phase = "header" => \E m : PlainAt(t.header_line, m)
          /\ HeaderRead(t) => t.header["CHK"] = Digest
    /\ ~HasMarker(t.payload) =>
          /\ t.phase = "header" => t.header_line \in Seq(Untold)
          /\ t.header \in [HeaderKeys -> Seq(Untold)]

LEMMA HonestProbe ==
    ASSUME NEW t, HeaderTold(t), Honest(t.payload), MoreLines(t)
    PROVE  /\ IsPlainChk(t.payload) =>
                 /\ t.at = 0 => \E m : PlainAt(Probe(t), m)
                 /\ t.at >= 1 => Probe(t) \in Seq(Nameless)
           /\ ~HasMarker(t.payload) => Probe(t) \in Seq(Untold)
<1> DEFINE p == t.payload
           n == t.at + 1
<1>1. p \in Seq(Text) /\ t.at \in 0..Len(p) /\ Probe(t) = trim(p[n]) /\ t.at < Len(p)
  BY DEF HeaderTold, ParserTyped, Probe, MoreLines
<1>2. n \in 1..Len(p) /\ (t.at = 0 => n = 1) /\ (t.at >= 1 => n \in 2..Len(p))
  BY <1>1
<1> HIDE DEF n
<1>3. ASSUME IsPlainChk(p)
      PROVE  /\ t.at = 0 => \E m : PlainAt(Probe(t), m)
             /\ t.at >= 1 => Probe(t) \in Seq(Nameless)
  <2>1. /\ \E m : PlainAt(trim(p[1]), m)
        /\ \A k \in 2..Len(p) : trim(p[k]) \in Seq(Nameless)
    BY <1>3 DEF Honest
  <2>2. QED
    BY <1>1, <1>2, <2>1
<1>4. ASSUME ~HasMarker(p) PROVE Probe(t) \in Seq(Untold)
  <2>1. p \in Seq(Seq(Untold))
    BY <1>4 DEF Honest
  <2>2. p[n] \in Seq(Untold)
    BY <1>2, <2>1
  <2>3. QED
    BY <1>1, <2>2, TrimType
<1>5. QED
  BY <1>3, <1>4

LEMMA HeaderStepTold ==
    ASSUME NEW t, HeaderTold(t), Honest(t.payload), NEW u, Step(t, u)
    PROVE  HeaderTold(u) /\ u.payload = t.payload
<1>1. ParserTyped(t) /\ IsParser(t) /\ t.mode = "TOLERANT"
  BY DEF HeaderTold, ParserTyped
<1>2. /\ ParserTyped(u) /\ u.mode = "TOLERANT" /\ u.payload = t.payload
      /\ t.phase \in {"body", "done"} => u.phase \in {"body", "done"} /\ u.header = t.header
  BY <1>1, StepTyped, TolerantKeeps
<1>3. Oversized(u) = Oversized(t)
  BY <1>2 DEF Oversized
<1>4. CASE Refuse(t, u)
  <2> DEFINE r == [t EXCEPT !.phase = "done"]
  <2>1. /\ Oversized(t) \/ t.payload = <<>>
        /\ u = Reporting(t, r, {"oversized"}) \/ u = Reporting(t, r, {"empty"})
    BY <1>4, Zenon DEF Refuse
  <2>2. IsParser(r) /\ r.mode = "TOLERANT" /\ r.phase = "done" /\ r.header = t.header
    BY <1>1 DEF IsParser, Fields
  <2> HIDE DEF r
  <2>3. u.phase = "done" /\ u.header = t.header
    BY <1>1, <2>1, <2>2, ReportingKeeps
  <2>4. ~HeaderRead(u)
    BY <1>2, <1>3, <2>1 DEF HeaderRead
  <2>5. QED
    BY <1>2, <2>3, <2>4 DEF HeaderTold
<1>5. CASE ReadHeaderLine(t, u)
  <2> DEFINE line == Probe(t)
  <2>1. /\ t.phase = "start" /\ t.payload # <<>>
        /\ u = [t EXCEPT !.phase = "header", !.at = 1, !.mark = 1, !.header_line = line]
    BY <1>5 DEF ReadHeaderLine
  <2>2. t.at = 0 /\ MoreLines(t)
    BY <1>1, <2>1 DEF ParserTyped, MoreLines
  <2>3. /\ IsPlainChk(t.payload) => \E m : PlainAt(line, m)
        /\ ~HasMarker(t.payload) => line \in Seq(Untold)
    BY <2>2, HonestProbe
  <2> HIDE DEF line
  <2>4. u.phase = "header" /\ u.at = 1 /\ u.header_line = line /\ u.header = t.header
    BY <1>1, <2>1 DEF IsParser, Fields
  <2>5. ~HeaderRead(u)
    BY <2>4 DEF HeaderRead
  <2>6. QED
    BY <1>2, <2>3, <2>4, <2>5 DEF HeaderTold
<1>6. CASE FoldLine(t, u)
  <2> DEFINE line == Probe(t)
             blank == <<" ">>
             whole == IF line = <<>> THEN t.header_line ELSE t.header_line \o blank \o line
  <2>1. t.phase = "header" /\ MoreLines(t)
        /\ u = [t EXCEPT !.at = @ + 1, !.mark = t.at + 1, !.header_line = whole]
    BY <1>6, Zenon DEF FoldLine, BelongsToHeader
  <2>2. t.at >= 1 /\ t.at \in Nat
    BY <1>1, <2>1 DEF HeaderTold, ParserTyped
  <2>3. /\ IsPlainChk(t.payload) => line \in Seq(Nameless)
        /\ ~HasMarker(t.payload) => line \in Seq(Untold)
    BY <2>1, <2>2, HonestProbe
  <2>4. blank = <<Blank>>
    BY Zenon DEF Blank
  <2>5. t.header_line \in Seq(Atoms)
    BY <1>1 DEF ParserTyped, Text
  <2> HIDE DEF line, blank
  <2>6. ASSUME IsPlainChk(t.payload) PROVE \E m : PlainAt(whole, m)
    <3>1. PICK m : PlainAt(t.header_line, m)
      BY <2>1, <2>6 DEF HeaderTold
    <3>2. PlainAt(t.header_line \o blank \o line, m)
      BY <2>3, <2>4, <2>5, <2>6, <3>1, PlainGrows
    <3>3. QED
      BY <3>1, <3>2
  <2>7. ASSUME ~HasMarker(t.payload) PROVE whole \in Seq(Untold)
    <3> DEFINE h == t.header_line
    <3>1. h \in Seq(Untold) /\ line \in Seq(Untold)
      BY <2>1, <2>3, <2>7 DEF HeaderTold
    <3>2. Blank \in Untold
      <4>1. Blank # "digest"
        BY Zenon DEF Blank
      <4>2. QED
        BY <4>1, BlankIsNameless DEF Untold
    <3>3. blank \in Seq(Untold)
      BY <2>4, <3>2
    <3> HIDE DEF h
    <3>4. h \o blank \o line \in Seq(Untold)
      BY <3>1, <3>3
    <3>5. QED
      BY <3>1, <3>4 DEF h
  <2> HIDE DEF whole
  <2>8. u.phase = "header" /\ u.at = t.at + 1 /\ u.header_line = whole /\ u.header = t.header
    BY <1>1, <2>1 DEF IsParser, Fields
  <2>9. ~HeaderRead(u) /\ u.at >= 1
    BY <2>2, <2>8 DEF HeaderRead
  <2>10. QED
    BY <1>2, <2>6, <2>7, <2>8, <2>9 DEF HeaderTold
<1>7. CASE ParseHeader(t, u)
  <2> DEFINE h == parseHeader(t.header_line)
             fields == h.fields
             missing == t.mode = "STRICT" /\ MissingField(fields)
             errors == h.errors \cup ErrorIf(missing, "missing")
             r == [t EXCEPT !.phase = "body", !.at = t.mark, !.header = fields]
  <2>1. t.phase = "header" /\ u = Reporting(t, r, errors)
    BY <1>7, Zenon DEF ParseHeader
  <2>2. t.header_line \in Seq(Atoms)
    BY <1>1 DEF ParserTyped, Text
  <2>3. ASSUME IsPlainChk(t.payload) PROVE fields["CHK"] = Digest
    <3>1. PICK m : PlainAt(t.header_line, m)
      BY <2>1, <2>3 DEF HeaderTold
    <3>2. QED
      BY <2>2, <3>1, PlainIsRead
  <2>4. ASSUME ~HasMarker(t.payload) PROVE fields \in [HeaderKeys -> Seq(Untold)]
    <3>1. t.header_line \in Seq(Untold)
      BY <2>1, <2>4 DEF HeaderTold
    <3>2. h \in Setting(Untold)
      BY <3>1, ParseHeaderType
    <3> HIDE DEF h
    <3>3. QED
      BY <3>2 DEF Setting
  <2> HIDE DEF fields, errors
  <2>5. IsParser(r) /\ r.mode = "TOLERANT" /\ r.phase = "body" /\ r.header = fields
    BY <1>1 DEF IsParser, Fields
  <2> HIDE DEF r
  <2>6. u.phase = "body" /\ u.header = fields
    BY <1>1, <2>1, <2>5, ReportingKeeps
  <2>7. QED
    BY <1>2, <2>3, <2>4, <2>6 DEF HeaderTold
<1>8. CASE SkipBlank(t, u) \/ ReadRole(t, u) \/ ReadTool(t, u) \/ ReadPairs(t, u) \/ Finish(t, u)
  <2>1. t.phase = "body"
    BY <1>8, Guards
  <2>2. u.phase \in {"body", "done"} /\ u.header = t.header
    BY <1>2, <2>1
  <2>3. HeaderRead(u) => HeaderRead(t)
    BY <1>2, <1>3, <2>1 DEF HeaderRead
  <2>4. QED
    BY <1>2, <2>2, <2>3 DEF HeaderTold
<1>9. QED
  BY <1>2, <1>4, <1>5, <1>6, <1>7, <1>8 DEF Step

LEMMA Joined ==
    ASSUME NEW A, NEW f \in Seq(A), NEW g \in Seq(A)
    PROVE  /\ f \o g \in Seq(A) /\ Len(f \o g) = Len(f) + Len(g)
           /\ \A i \in 1..Len(f) : (f \o g)[i] = f[i]
           /\ \A i \in 1..(Len(f) + Len(g)) : i > Len(f) => (f \o g)[i] = g[i - Len(f)]
  OBVIOUS

LEMMA TwoAndOne ==
    ASSUME NEW A, NEW f \in Seq(A), Len(f) = 2, NEW g \in Seq(A), Len(g) = 1
    PROVE  f \o g = <<f[1], f[2], g[1]>>
<1>1. PICK s : s = f \o g
  OBVIOUS
<1>2. s \in Seq(A) /\ Len(s) = Len(f) + Len(g)
  BY <1>1, Joined
<1>3. \A i \in 1..Len(f) : s[i] = f[i]
  BY <1>1, Joined
<1>4. \A i \in 1..(Len(f) + Len(g)) : i > Len(f) => s[i] = g[i - Len(f)]
  BY <1>1, Joined
<1>5. Len(s) = 3 /\ s[1] = f[1] /\ s[2] = f[2] /\ s[3] = g[1]
  BY <1>2, <1>3, <1>4
<1>6. s = <<s[1], s[2], s[3]>>
  BY <1>2, <1>5
<1>7. QED
  BY <1>1, <1>5, <1>6

LEMMA StartTold ==
    ASSUME NEW p \in Seq(Text), NEW t, t = Start("TOLERANT", p)
    PROVE  HeaderTold(t) /\ t.payload = p
<1>1. ParserTyped(t)
  BY StartTyped
<1>2. t.mode = "TOLERANT" /\ t.phase = "start" /\ t.payload = p /\ t.header = NoFields
  BY DEF Start
<1>3. NoFields \in [HeaderKeys -> Seq(Untold)]
  <2>1. \A S : <<>> \in Seq(S)
    OBVIOUS
  <2>2. QED
    BY <2>1 DEF NoFields
<1>4. QED
  BY <1>1, <1>2, <1>3 DEF HeaderTold, HeaderRead

\* A frame with one field CHK:sha256: in plain sight on its first line verifies once it is
\* stamped, one that stamp_chk() leaves alone does not, whatever frames there are.
THEOREM StampedAlwaysVerify == StampedSpec => []StampedFramesVerify
<1> DEFINE Inv == /\ HeaderTold(tolerant) /\ Honest(tolerant.payload)
                  /\ canonical_for_chk(tolerant.payload) = hashed
<1>1. StampedInit => Inv
  <2> SUFFICES ASSUME StampedInit PROVE Inv
    OBVIOUS
  <2>1. PICK frame \in Frames : Reads(stamp_chk(frame)) /\ hashed = HashedBy(frame)
    BY Zenon DEF StampedInit
  <2> DEFINE p == stamp_chk(frame)
             t == tolerant
  <2>2. p \in Seq(Text) /\ canonical_for_chk(p) = HashedBy(frame)
    BY SameFormHashed, FramesAssumption
  <2>3. Honest(p)
    BY StampedIsHonest
  <2>4. t = Start("TOLERANT", p)
    BY <2>1, Zenon DEF Reads
  <2> HIDE DEF p, t
  <2>5. HeaderTold(t) /\ t.payload = p
    BY <2>2, <2>4, StartTold
  <2>6. QED
    BY <2>1, <2>2, <2>3, <2>5 DEF t
<1>2. Inv /\ [StampedNext]_<<vars, hashed, received>> => Inv'
  <2> SUFFICES ASSUME Inv, [StampedNext]_<<vars, hashed, received>> PROVE Inv'
    OBVIOUS
  <2>1. (Step(tolerant, tolerant') \/ tolerant' = tolerant) /\ hashed' = hashed
    BY Zenon DEF StampedNext, Next, vars
  <2> DEFINE t == tolerant  u == tolerant'
  <2>2. HeaderTold(t) /\ Honest(t.payload)
    OBVIOUS
  <2>3. Step(t, u) \/ u = t
    BY <2>1
  <2> HIDE DEF t, u
  <2>4. HeaderTold(u) /\ u.payload = t.payload
    BY <2>2, <2>3, HeaderStepTold
  <2>5. QED
    BY <2>1, <2>2, <2>4 DEF t, u
<1>3. Inv => StampedFramesVerify
  <2> SUFFICES ASSUME Inv PROVE StampedFramesVerify
    OBVIOUS
  <2> DEFINE t == tolerant
  <2>1. compute_chk(t.payload) = Digest
    <3>1. canonical_for_chk(t.payload) = hashed
      OBVIOUS
    <3>2. compute_chk(t.payload) = <<"sha256", ":">> \o <<"digest">>
      BY <3>1, Zenon DEF compute_chk
    <3>3. <<"sha256", ":">> \o <<"digest">> = Digest
      <4> DEFINE f == <<"sha256", ":">>
                 g == <<"digest">>
                 S == {"sha256", ":", "digest"}
      <4>1. f \in Seq(S) /\ Len(f) = 2 /\ f[1] = "sha256" /\ f[2] = ":"
            /\ g \in Seq(S) /\ Len(g) = 1 /\ g[1] = "digest"
        OBVIOUS
      <4>2. Digest \in Seq(S) /\ Len(Digest) = 3 /\ Digest[1] = "sha256" /\ Digest[2] = ":"
            /\ Digest[3] = "digest"
        BY DEF Digest
      <4> HIDE DEF f, g, S
      <4>3. f \o g = <<f[1], f[2], g[1]>>
        BY <4>1, TwoAndOne
      <4>4. f \o g = Digest
        BY <4>1, <4>3 DEF Digest
      <4>5. QED
        BY <4>4 DEF f, g
    <3>4. QED
      BY <3>2, <3>3
  <2>2. HeaderTold(t)
    OBVIOUS
  <2> HIDE DEF t
  <2>3. HeaderRead(t) /\ IsPlainChk(t.payload) => Verified(t)
    BY <2>1, <2>2 DEF HeaderTold, Verified
  <2>4. ~HasMarker(t.payload) => ~Verified(t)
    <3>1. ASSUME ~HasMarker(t.payload) PROVE t.header["CHK"] # Digest
      <4>1. t.header["CHK"] \in Seq(Untold)
        <5>1. "CHK" \in HeaderKeys
          BY DEF HeaderKeys
        <5>2. QED
          BY <2>2, <3>1, <5>1 DEF HeaderTold
      <4>2. ASSUME NEW s \in Seq(Untold), Len(s) = 3 PROVE s[3] # "digest"
        <5>1. s[3] \in Untold
          BY <4>2
        <5>2. QED
          BY <5>1 DEF Untold
      <4>3. Len(Digest) = 3 /\ Digest[3] = "digest"
        BY DEF Digest
      <4>4. QED
        BY <4>1, <4>2, <4>3
    <3>2. QED
      BY <2>1, <3>1 DEF Verified
  <2>5. QED
    BY <2>3, <2>4 DEF StampedFramesVerify, t
<1>4. QED
  BY <1>1, <1>2, <1>3, PTL DEF StampedSpec

-----------------------------------------------------------------------------
\* Where the tokens of a header line come from.

\* t is what stands from a to b in h, by itself.
StandsAt(h, t, a, b) ==
    /\ a \in 1..Len(h) /\ b \in a..Len(h) /\ Len(t) = b - a + 1
    /\ \A j \in 1..Len(t) : t[j] = h[a + j - 1]
    /\ a # 1 => h[a - 1] = Blank
    /\ b # Len(h) => h[b + 1] = Blank

StandsIn(h, t) == \E a \in 1..Len(h), b \in 1..Len(h) : StandsAt(h, t, a, b)

\* What lex_split() holds after k atoms of h.
Spans(l, h, k) ==
    /\ \A n \in 1..Len(l.tokens) : StandsIn(h, l.tokens[n])
    /\ Len(l.current) <= k
    /\ \A j \in 1..Len(l.current) : l.current[j] = h[k - Len(l.current) + j]
    /\ Len(l.current) # k => h[k - Len(l.current)] = Blank

LEMMA KeptStand ==
    ASSUME NEW h \in Seq(Atoms), NEW l \in Splits(Atoms), NEW k \in 0..Len(h), Spans(l, h, k),
           k # Len(h) => h[k + 1] = Blank
    PROVE  Kept(l) \in Seq(Seq(Atoms)) /\ \A n \in 1..Len(Kept(l)) : StandsIn(h, Kept(l)[n])
<1> DEFINE c == l.current
           ts == l.tokens
<1>1. c \in Seq(Atoms) /\ ts \in Seq(Seq(Atoms)) /\ Len(h) \in Nat /\ Len(c) \in Nat
      /\ Len(ts) \in Nat
  BY DEF Splits
<1>2. /\ \A n \in 1..Len(ts) : StandsIn(h, ts[n])
      /\ Len(c) <= k
      /\ \A j \in 1..Len(c) : c[j] = h[k - Len(c) + j]
      /\ Len(c) # k => h[k - Len(c)] = Blank
  BY DEF Spans
<1>3. Kept(l) = IF c = <<>> THEN ts ELSE Append(ts, c)
  BY DEF Kept
<1> HIDE DEF c, ts
<1>4. ASSUME c # <<>> PROVE StandsIn(h, c)
  <2> DEFINE a == k - Len(c) + 1
  <2>1. Len(c) >= 1 /\ a \in 1..Len(h) /\ k \in a..Len(h) /\ Len(c) = k - a + 1 /\ k \in 1..Len(h)
    BY <1>1, <1>2, <1>4
  <2>2. ASSUME NEW j \in 1..Len(c) PROVE c[j] = h[a + j - 1]
    <3>1. a + j - 1 = k - Len(c) + j
      BY <1>1
    <3>2. QED
      BY <1>2, <3>1
  <2>3. a # 1 => h[a - 1] = Blank
    <3>1. a - 1 = k - Len(c)
      BY <1>1
    <3>2. QED
      BY <1>1, <1>2, <3>1
  <2> HIDE DEF a
  <2>4. StandsAt(h, c, a, k)
    BY <2>1, <2>2, <2>3 DEF StandsAt
  <2>5. QED
    BY <2>1, <2>4 DEF StandsIn
<1>5. CASE c = <<>>
  BY <1>1, <1>2, <1>3, <1>5
<1>6. CASE c # <<>>
  <2> DEFINE u == Append(ts, c)
  <2>1. u \in Seq(Seq(Atoms)) /\ Len(u) = Len(ts) + 1 /\ u[Len(ts) + 1] = c
        /\ \A n \in 1..Len(ts) : u[n] = ts[n]
    BY <1>1
  <2>2. Kept(l) = u
    BY <1>3, <1>6
  <2> HIDE DEF u
  <2>3. ASSUME NEW n \in 1..Len(u) PROVE StandsIn(h, u[n])
    <3>1. n \in 1..Len(ts) \/ n = Len(ts) + 1
      BY <1>1, <2>1
    <3>2. QED
      BY <1>2, <1>4, <1>6, <2>1, <3>1
  <2>4. QED
    BY <2>1, <2>2, <2>3
<1>7. QED
  BY <1>5, <1>6

LEMMA SpansStep ==
    ASSUME NEW h \in Seq(Atoms), NEW l \in Splits(Atoms), NEW k \in 1..Len(h), Spans(l, h, k - 1),
           NEW u, u = SplitStep(l, h[k], Blank)
    PROVE  Spans(u, h, k)
<1> DEFINE c == l.current
           a == h[k]
<1>1. c \in Seq(Atoms) /\ l.tokens \in Seq(Seq(Atoms)) /\ Len(h) \in Nat /\ Len(c) \in Nat
      /\ a \in Atoms /\ k \in Nat
  BY DEF Splits
<1>2. /\ \A n \in 1..Len(l.tokens) : StandsIn(h, l.tokens[n])
      /\ Len(c) <= k - 1
      /\ \A j \in 1..Len(c) : c[j] = h[k - 1 - Len(c) + j]
      /\ Len(c) # k - 1 => h[k - 1 - Len(c)] = Blank
  BY DEF Spans
<1> HIDE DEF c, a
<1>3. CASE ~l.quote.open /\ a = Blank
  <2>1. u.tokens = Kept(l) /\ u.current = <<>>
    BY <1>1, <1>3, SplitStepFacts DEF a
  <2>2. \A n \in 1..Len(Kept(l)) : StandsIn(h, Kept(l)[n])
    <3>1. k - 1 \in 0..Len(h) /\ (k - 1) + 1 = k
      BY <1>1
    <3>2. h[(k - 1) + 1] = Blank
      BY <1>3, <3>1 DEF a
    <3>3. QED
      BY <3>1, <3>2, KeptStand
  <2>3. Len(u.current) = 0 /\ k - 0 = k /\ h[k] = Blank
    BY <1>1, <1>3, <2>1 DEF a
  <2>4. QED
    BY <1>1, <2>1, <2>2, <2>3 DEF Spans
<1>4. CASE ~(~l.quote.open /\ a = Blank)
  <2> DEFINE d == Append(c, a)
  <2>1. u.tokens = l.tokens /\ u.current = d
    BY <1>1, <1>4, SplitStepFacts DEF a, c
  <2>2. Len(d) = Len(c) + 1 /\ d[Len(c) + 1] = a /\ \A j \in 1..Len(c) : d[j] = c[j]
    BY <1>1
  <2> HIDE DEF d
  <2>3. ASSUME NEW j \in 1..Len(d) PROVE d[j] = h[k - Len(d) + j]
    <3>1. j \in 1..Len(c) \/ j = Len(c) + 1
      BY <1>1, <2>2
    <3>2. CASE j \in 1..Len(c)
      <4>1. k - Len(d) + j = k - 1 - Len(c) + j
        BY <1>1, <2>2, <3>2
      <4>2. QED
        BY <1>2, <2>2, <3>2, <4>1
    <3>3. CASE j = Len(c) + 1
      <4>1. k - Len(d) + j = k
        BY <1>1, <2>2, <3>3
      <4>2. QED
        BY <2>2, <3>3, <4>1 DEF a
    <3>4. QED
      BY <3>1, <3>2, <3>3
  <2>4. Len(d) <= k /\ (Len(d) # k => h[k - Len(d)] = Blank)
    <3>1. k - Len(d) = k - 1 - Len(c)
      BY <1>1, <2>2
    <3>2. QED
      BY <1>1, <1>2, <2>2, <3>1
  <2>5. QED
    BY <1>2, <2>1, <2>3, <2>4 DEF Spans
<1>5. QED
  BY <1>3, <1>4

\* A token stands by itself in the line that is split.
LEMMA TokensStand ==
    ASSUME NEW h \in Seq(Atoms)
    PROVE  /\ lex_split(h, Blank) \in Seq(Seq(Atoms))
           /\ \A n \in 1..Len(lex_split(h, Blank)) : StandsIn(h, lex_split(h, Blank)[n])
<1> DEFINE n == Len(h)
<1>1. PICK r \in [0..Len(h) -> Splits(Atoms)] :
         /\ r[0] = NoTokens
         /\ \A k \in 1..Len(h) : r[k] = SplitStep(r[k - 1], h[k], Blank)
         /\ lex_split(h, Blank) = Kept(r[Len(h)])
  BY LexSplitSteps
<1> DEFINE S == {k \in 0..n : Spans(r[k], h, k)}
<1>2. n \in Nat
  OBVIOUS
<1>3. 0 \in S
  <2>1. r[0].tokens = <<>> /\ r[0].current = <<>>
    BY <1>1 DEF NoTokens
  <2>2. Len(<<>>) = 0
    OBVIOUS
  <2>3. Spans(r[0], h, 0)
    BY <2>1, <2>2 DEF Spans
  <2>4. QED
    BY <1>2, <2>3
<1>4. \A k \in 1..n : k - 1 \in S => k \in S
  <2>1. SUFFICES ASSUME NEW k \in 1..n, k - 1 \in S PROVE Spans(r[k], h, k)
    BY <1>2
  <2> DEFINE l == r[k - 1]
  <2>2. l \in Splits(Atoms) /\ Spans(l, h, k - 1) /\ r[k] = SplitStep(l, h[k], Blank)
    BY <1>1, <2>1
  <2> HIDE DEF l
  <2>3. QED
    BY <2>2, SpansStep
<1>5. Spans(r[n], h, n)
  <2> HIDE DEF S
  <2>1. \A k \in 0..n : k \in S
    BY <1>2, <1>3, <1>4, UpTo
  <2>2. n \in S
    BY <1>2, <2>1
  <2>3. QED
    BY <2>2 DEF S
<1> DEFINE l == r[n]
<1>6. l \in Splits(Atoms) /\ n \in 0..Len(h) /\ lex_split(h, Blank) = Kept(l) /\ Spans(l, h, n)
  BY <1>1, <1>2, <1>5
<1> HIDE DEF l
<1>7. Kept(l) \in Seq(Seq(Atoms)) /\ \A k \in 1..Len(Kept(l)) : StandsIn(h, Kept(l)[k])
  BY <1>6, KeptStand
<1>8. QED
  BY <1>6, <1>7

\* A token with the name and the digest is the field.
LEMMA TokenIsField ==
    ASSUME NEW t \in Seq(Atoms), Names(t, "CHK"), After(t, Find(t, ":")) = Digest
    PROVE  Len(t) = 5 /\ \A j \in 1..5 : t[j] = Field[j]
<1> DEFINE c == Find(t, ":")
<1>1. c \in 1..Len(t) /\ t[c] = ":" /\ Len(t) \in Nat
  <2>1. c \in 0..Len(t) /\ (c # 0 => t[c] = ":")
    BY FindPlace
  <2>2. c # 0
    BY DEF Names
  <2>3. QED
    BY <2>1, <2>2
<1>2. Len(Before(t, c)) = 1 /\ Before(t, c)[1] = "CHK" /\ After(t, c) = Digest
  BY DEF Names
<1> HIDE DEF c
<1>3. c = 2 /\ t[1] = "CHK"
  <2> DEFINE s == SubSeq(t, 1, c - 1)
  <2>1. 1 \in 1..(Len(t) + 1) /\ c - 1 \in (1 - 1)..Len(t)
    BY <1>1
  <2>2. Len(s) = (c - 1) - 1 + 1 /\ \A i \in 1..((c - 1) - 1 + 1) : s[i] = t[1 + i - 1]
    BY <2>1, SliceIs
  <2>3. Before(t, c) = s
    BY DEF Before
  <2> HIDE DEF s
  <2>4. c = 2
    <3>1. Len(s) = 1
      BY <1>2, <2>3
    <3>2. 1 = (c - 1) - 1 + 1
      BY <2>2, <3>1, Zenon
    <3>3. QED
      BY <1>1, <3>2
  <2>5. s[1] = t[1]
    <3>1. 1 \in 1..((c - 1) - 1 + 1) /\ 1 + 1 - 1 = 1
      BY <2>4
    <3>2. QED
      BY <2>2, <3>1
  <2>6. QED
    BY <1>2, <2>3, <2>4, <2>5
<1>4. Len(t) = 5 /\ t[3] = "sha256" /\ t[4] = ":" /\ t[5] = "digest"
  <2> DEFINE s == SubSeq(t, 3, Len(t))
  <2>1. 3 \in 1..(Len(t) + 1) /\ Len(t) \in (3 - 1)..Len(t)
    BY <1>1, <1>3
  <2>2. Len(s) = Len(t) - 3 + 1 /\ \A i \in 1..(Len(t) - 3 + 1) : s[i] = t[3 + i - 1]
    BY <2>1, SliceIs
  <2>3. After(t, 2) = s
    BY DEF After
  <2> HIDE DEF s
  <2>4. s = Digest
    BY <1>2, <1>3, <2>3
  <2>5. Len(Digest) = 3 /\ Digest[1] = "sha256" /\ Digest[2] = ":" /\ Digest[3] = "digest"
    BY DEF Digest
  <2>6. Len(t) = 5
    <3>1. Len(s) = 3
      BY <2>4, <2>5
    <3>2. 3 = Len(t) - 3 + 1
      BY <2>2, <3>1, Zenon
    <3>3. QED
      BY <1>1, <3>2
  <2>7. s[1] = t[3] /\ s[2] = t[4] /\ s[3] = t[5]
    <3>1. \A i \in 1..3 : s[i] = t[3 + i - 1]
      BY <2>2, <2>6
    <3>2. QED
      BY <3>1
  <2>8. QED
    BY <2>4, <2>5, <2>6, <2>7
<1>5. Field[1] = "CHK" /\ Field[2] = ":" /\ Field[3] = "sha256" /\ Field[4] = ":"
      /\ Field[5] = "digest"
  BY DEF Field
<1>6. t[1] = Field[1] /\ t[2] = Field[2] /\ t[3] = Field[3] /\ t[4] = Field[4] /\ t[5] = Field[5]
  BY <1>1, <1>3, <1>4, <1>5
<1>7. \A j \in 1..5 : j = 1 \/ j = 2 \/ j = 3 \/ j = 4 \/ j = 5
  OBVIOUS
<1>8. QED
  BY <1>4, <1>6, <1>7

\* The field stands at m of h, by itself.
Alone(h, m) ==
    /\ m \in 1..(Len(h) - 4) /\ FieldFrom(h, m)
    /\ m # 1 => h[m - 1] = Blank
    /\ m + 5 <= Len(h) => h[m + 5] = Blank

\* A header in which the digest was read has the field by itself.
LEMMA DigestIsAlone ==
    ASSUME NEW h \in Seq(Atoms), parseHeader(h).fields["CHK"] = Digest
    PROVE  \E m : Alone(h, m)
<1> DEFINE s == lex_split(h, Blank)
<1>1. s \in Seq(Seq(Atoms)) /\ \A n \in 1..Len(s) : StandsIn(h, s[n])
  BY TokensStand
<1>2. parseHeader(h) = FoldLeft(SetField, NothingSet, s)
  BY Zenon DEF parseHeader, NothingSet, Blank
<1> HIDE DEF s
<1>3. PICK r \in [0..Len(s) -> Setting(Atoms)] :
         /\ r[0] = NothingSet
         /\ \A k \in 1..Len(s) : r[k] = SetField(r[k - 1], s[k])
         /\ FoldLeft(SetField, NothingSet, s) = r[Len(s)]
  BY <1>1, SetFieldSteps
<1> DEFINE Told(t) == Names(t, "CHK") /\ After(t, Find(t, ":")) = Digest
           S == {k \in 0..Len(s) : r[k].fields["CHK"] = Digest => \E n \in 1..Len(s) : Told(s[n])}
<1>4. Len(s) \in Nat
  BY <1>1
<1>5. 0 \in S
  <2>1. r[0].fields["CHK"] = <<>>
    <3>1. "CHK" \in HeaderKeys
      BY DEF HeaderKeys
    <3>2. QED
      BY <1>3, <3>1 DEF NothingSet, NoFields
  <2>2. Digest # <<>>
    BY DEF Digest
  <2>3. QED
    BY <1>4, <2>1, <2>2
<1>6. \A k \in 1..Len(s) : k - 1 \in S => k \in S
  <2>1. SUFFICES ASSUME NEW k \in 1..Len(s), k - 1 \in S, r[k].fields["CHK"] = Digest
                 PROVE  \E n \in 1..Len(s) : Told(s[n])
    BY <1>4
  <2>2. r[k - 1] \in Setting(Atoms) /\ s[k] \in Seq(Atoms) /\ r[k] = SetField(r[k - 1], s[k])
    <3>1. k - 1 \in 0..Len(s)
      BY <1>4
    <3>2. r[k - 1] \in Setting(Atoms)
      BY <3>1
    <3>3. s[k] \in Seq(Atoms)
      BY <1>1
    <3>4. QED
      BY <1>3, <3>2, <3>3
  <2>3. r[k].fields["CHK"] = IF Names(s[k], "CHK") THEN After(s[k], Find(s[k], ":"))
                             ELSE r[k - 1].fields["CHK"]
    BY <2>2, SetFieldFacts
  <2>4. CASE Names(s[k], "CHK")
    BY <2>1, <2>3, <2>4
  <2>5. CASE ~Names(s[k], "CHK")
    BY <2>1, <2>3, <2>5
  <2>6. QED
    BY <2>4, <2>5
<1>7. \E n \in 1..Len(s) : Told(s[n])
  <2>1. \A k \in 0..Len(s) : k \in S
    <3> HIDE DEF S
    <3>1. QED
      BY <1>4, <1>5, <1>6, UpTo
  <2>2. Len(s) \in S
    BY <1>4, <2>1
  <2>3. QED
    BY <1>2, <1>3, <2>2
<1>8. PICK n \in 1..Len(s) : Told(s[n])
  BY <1>7
<1> DEFINE t == s[n]
<1>9. t \in Seq(Atoms) /\ StandsIn(h, t) /\ Names(t, "CHK") /\ After(t, Find(t, ":")) = Digest
  BY <1>1, <1>8
<1> HIDE DEF t
<1>10. Len(t) = 5 /\ \A j \in 1..5 : t[j] = Field[j]
  BY <1>9, TokenIsField
<1>11. PICK a \in 1..Len(h), b \in 1..Len(h) : StandsAt(h, t, a, b)
  BY <1>9 DEF StandsIn
<1>12. b = a + 4 /\ a \in 1..(Len(h) - 4) /\ Len(h) \in Nat
  <2>1. Len(t) = b - a + 1 /\ a \in 1..Len(h) /\ b \in a..Len(h)
    BY <1>11 DEF StandsAt
  <2>2. Len(t) = 5 /\ Len(h) \in Nat
    BY <1>10
  <2>3. 5 = b - a + 1
    BY <2>1, <2>2
  <2>4. QED
    BY <2>1, <2>2, <2>3
<1>13. \A j \in 1..5 : h[a + j - 1] = Field[j]
  BY <1>10, <1>11 DEF StandsAt
<1>14. a # 1 => h[a - 1] = Blank
  BY <1>11 DEF StandsAt
<1>15. a + 5 <= Len(h) => h[a + 5] = Blank
  <2>1. b + 1 = a + 5 /\ (a + 5 <= Len(h) => b # Len(h))
    BY <1>12
  <2>2. QED
    BY <1>11, <2>1 DEF StandsAt
<1>16. Alone(h, a)
  BY <1>12, <1>13, <1>14, <1>15 DEF Alone, FieldFrom
<1>17. QED
  BY <1>16

\* Folding a line into the header joins no field together.
LEMMA AloneInPart ==
    ASSUME NEW f \in Seq(Atoms), NEW g \in Seq(Atoms), NEW whole, whole = f \o <<Blank>> \o g,
           NEW m, Alone(whole, m)
    PROVE  Alone(f, m) \/ Alone(g, m - Len(f) - 1)
<1> DEFINE blank == <<Blank>>
           both == f \o blank
           n == Len(f)
<1>1. Len(blank) = 1 /\ blank[1] = Blank /\ blank \in Seq(Atoms) /\ n \in Nat /\ Len(g) \in Nat
  BY BlankIsNameless
<1> HIDE DEF blank
<1>2. /\ both \in Seq(Atoms) /\ Len(both) = n + 1
      /\ both[n + 1] = Blank /\ \A i \in 1..n : both[i] = f[i]
  <2>1. /\ both \in Seq(Atoms) /\ Len(both) = Len(f) + Len(blank)
        /\ \A i \in 1..Len(f) : both[i] = f[i]
        /\ \A i \in 1..(Len(f) + Len(blank)) : i > Len(f) => both[i] = blank[i - Len(f)]
    BY <1>1, Joined
  <2>2. n + 1 \in 1..(Len(f) + Len(blank)) /\ n + 1 > Len(f) /\ n + 1 - Len(f) = 1
    BY <1>1
  <2>3. QED
    BY <1>1, <2>1, <2>2
<1>3. whole = both \o g
  BY DEF blank
<1> HIDE DEF both
<1>4. /\ Len(whole) = n + 1 + Len(g) /\ \A i \in 1..(n + 1) : whole[i] = both[i]
      /\ \A i \in 1..Len(g) : whole[n + 1 + i] = g[i]
  BY <1>2, <1>3
<1>5. whole[n + 1] = Blank /\ \A i \in 1..n : whole[i] = f[i]
  <2>1. n + 1 \in 1..(n + 1) /\ \A i \in 1..n : i \in 1..(n + 1)
    BY <1>1
  <2>2. QED
    BY <1>2, <1>4, <2>1
<1>6. /\ m \in 1..(Len(whole) - 4) /\ \A j \in 1..5 : whole[m + j - 1] = Field[j]
      /\ m # 1 => whole[m - 1] = Blank
      /\ m + 5 <= Len(whole) => whole[m + 5] = Blank
  BY DEF Alone, FieldFrom
<1> HIDE DEF n
<1>7. m + 4 <= n \/ m >= n + 2
  <2>1. SUFFICES ASSUME ~(m + 4 <= n), ~(m >= n + 2) PROVE FALSE
    OBVIOUS
  <2> DEFINE j == n + 2 - m
  <2>2. j \in 1..5 /\ m + j - 1 = n + 1
    BY <1>1, <1>4, <1>6, <2>1
  <2> HIDE DEF j
  <2>3. whole[n + 1] = Field[j]
    BY <1>6, <2>2
  <2>4. QED
    BY <1>5, <2>2, <2>3, FieldAtoms
<1>8. CASE m + 4 <= n
  <2>1. m \in 1..(n - 4)
    BY <1>1, <1>4, <1>6, <1>8
  <2>2. ASSUME NEW j \in 1..5 PROVE f[m + j - 1] = Field[j]
    <3>1. m + j - 1 \in 1..n
      BY <1>1, <2>1
    <3>2. QED
      BY <1>5, <1>6, <3>1
  <2>3. ASSUME m # 1 PROVE f[m - 1] = Blank
    <3>1. m - 1 \in 1..n
      BY <1>1, <2>1, <2>3
    <3>2. QED
      BY <1>5, <1>6, <2>3, <3>1
  <2>4. ASSUME m + 5 <= n PROVE f[m + 5] = Blank
    <3>1. m + 5 \in 1..n /\ m + 5 <= Len(whole)
      BY <1>1, <1>4, <2>1, <2>4
    <3>2. QED
      BY <1>5, <1>6, <3>1
  <2>5. Alone(f, m)
    BY <2>1, <2>2, <2>3, <2>4 DEF Alone, FieldFrom, n
  <2>6. QED
    BY <2>5
<1>9. CASE m >= n + 2
  <2> DEFINE k == m - n - 1
  <2>1. k \in 1..(Len(g) - 4) /\ m = n + 1 + k
    BY <1>1, <1>4, <1>6, <1>9
  <2> HIDE DEF k
  <2>2. ASSUME NEW j \in 1..5 PROVE g[k + j - 1] = Field[j]
    <3>1. k + j - 1 \in 1..Len(g) /\ n + 1 + (k + j - 1) = m + j - 1
      BY <1>1, <2>1
    <3>2. QED
      BY <1>4, <1>6, <3>1
  <2>3. ASSUME k # 1 PROVE g[k - 1] = Blank
    <3>1. k - 1 \in 1..Len(g) /\ n + 1 + (k - 1) = m - 1 /\ m # 1
      BY <1>1, <2>1, <2>3
    <3>2. QED
      BY <1>4, <1>6, <3>1
  <2>4. ASSUME k + 5 <= Len(g) PROVE g[k + 5] = Blank
    <3>1. k + 5 \in 1..Len(g) /\ n + 1 + (k + 5) = m + 5 /\ m + 5 <= Len(whole)
      BY <1>1, <1>4, <2>1, <2>4
    <3>2. QED
      BY <1>4, <1>6, <3>1
  <2>5. Alone(g, k)
    BY <2>1, <2>2, <2>3, <2>4 DEF Alone, FieldFrom
  <2>6. QED
    BY <2>5 DEF k, n
<1>10. QED
  BY <1>7, <1>8, <1>9

\* The word "other" stands for a digest of another form.
Unforged == Atoms \ {"other"}

\* Some line of a frame shows the field by itself.
Shown(payload) == \E n \in 1..Len(payload) : \E m : Alone(trim(payload[n]), m)

\* Where the header of a frame comes from that was delivered.
HeaderTraced(t) ==
    /\ ParserTyped(t) /\ t.mode = "TOLERANT"
    /\ t.payload \in Seq(Seq(Unforged))
    /\ t.phase = "header" =>
          /\ t.header_line \in Seq(Unforged) /\ ~Oversized(t)
          /\ \A m : Alone(t.header_line, m) => Shown(t.payload)
    /\ t.header \in [HeaderKeys -> Seq(Unforged)]
    /\ t.header["CHK"] = Digest =>
          t.phase \in {"body", "done"} /\ ~Oversized(t) /\ Shown(t.payload)

LEMMA BlankIsUnforged == Blank \in Unforged
<1>1. Blank # "other"
  BY Zenon DEF Blank
<1>2. QED
  BY <1>1, BlankIsNameless DEF Unforged

LEMMA ProbeTraced ==
    ASSUME NEW t, HeaderTraced(t), MoreLines(t)
    PROVE  /\ Probe(t) \in Seq(Unforged) /\ Probe(t) \in Seq(Atoms)
           /\ \A m : Alone(Probe(t), m) => Shown(t.payload)
<1> DEFINE p == t.payload
           n == t.at + 1
<1>1. p \in Seq(Seq(Unforged)) /\ t.at \in 0..Len(p) /\ Probe(t) = trim(p[n]) /\ t.at < Len(p)
  BY DEF HeaderTraced, ParserTyped, Probe, MoreLines
<1>2. n \in 1..Len(p)
  BY <1>1
<1> HIDE DEF n
<1>3. p[n] \in Seq(Unforged)
  BY <1>1, <1>2
<1>4. Probe(t) \in Seq(Unforged)
  BY <1>1, <1>3, TrimType
<1>5. Probe(t) \in Seq(Atoms)
  <2> DEFINE w == Probe(t)
  <2>1. w \in Seq(Unforged) /\ Unforged \subseteq Atoms
    BY <1>4 DEF Unforged
  <2> HIDE DEF w
  <2>2. w \in Seq(Atoms)
    BY <2>1
  <2>3. QED
    BY <2>2 DEF w
<1>6. \A m : Alone(Probe(t), m) => Shown(p)
  BY <1>1, <1>2 DEF Shown
<1>7. QED
  BY <1>4, <1>5, <1>6

LEMMA HeaderStepTraced ==
    ASSUME NEW t, HeaderTraced(t), NEW u, Step(t, u)
    PROVE  HeaderTraced(u) /\ u.payload = t.payload
<1>1. ParserTyped(t) /\ IsParser(t) /\ t.mode = "TOLERANT"
  BY DEF HeaderTraced, ParserTyped
<1>2. /\ ParserTyped(u) /\ u.mode = "TOLERANT" /\ u.payload = t.payload
      /\ t.phase \in {"body", "done"} => u.phase \in {"body", "done"} /\ u.header = t.header
  BY <1>1, StepTyped, TolerantKeeps
<1>3. Oversized(u) = Oversized(t)
  BY <1>2 DEF Oversized
<1>4. /\ t.phase = "header" =>
           /\ t.header_line \in Seq(Unforged) /\ ~Oversized(t)
           /\ \A m : Alone(t.header_line, m) => Shown(t.payload)
      /\ t.header \in [HeaderKeys -> Seq(Unforged)]
      /\ t.header["CHK"] = Digest =>
           t.phase \in {"body", "done"} /\ ~Oversized(t) /\ Shown(t.payload)
      /\ u.payload \in Seq(Seq(Unforged))
  BY <1>2 DEF HeaderTraced
<1>5. CASE Refuse(t, u)
  <2> DEFINE r == [t EXCEPT !.phase = "done"]
  <2>1. /\ t.phase = "start"
        /\ u = Reporting(t, r, {"oversized"}) \/ u = Reporting(t, r, {"empty"})
    BY <1>5, Zenon DEF Refuse
  <2>2. IsParser(r) /\ r.mode = "TOLERANT" /\ r.phase = "done" /\ r.header = t.header
    BY <1>1 DEF IsParser, Fields
  <2> HIDE DEF r
  <2>3. u.phase = "done" /\ u.header = t.header
    BY <1>1, <2>1, <2>2, ReportingKeeps
  <2>4. u.header["CHK"] # Digest
    BY <1>4, <2>1, <2>3
  <2>5. QED
    BY <1>2, <1>4, <2>3, <2>4 DEF HeaderTraced
<1>6. CASE ReadHeaderLine(t, u)
  <2> DEFINE line == Probe(t)
  <2>1. /\ t.phase = "start" /\ t.payload # <<>> /\ ~Oversized(t)
        /\ u = [t EXCEPT !.phase = "header", !.at = 1, !.mark = 1, !.header_line = line]
    BY <1>6 DEF ReadHeaderLine
  <2>2. MoreLines(t)
    BY <1>1, <2>1 DEF ParserTyped, MoreLines
  <2>3. line \in Seq(Unforged) /\ \A m : Alone(line, m) => Shown(t.payload)
    BY <2>2, ProbeTraced
  <2> HIDE DEF line
  <2>4. u.phase = "header" /\ u.header_line = line /\ u.header = t.header
    BY <1>1, <2>1 DEF IsParser, Fields
  <2>5. u.header["CHK"] # Digest
    BY <1>4, <2>1, <2>4
  <2>6. QED
    BY <1>2, <1>3, <1>4, <2>1, <2>3, <2>4, <2>5 DEF HeaderTraced
<1>7. CASE FoldLine(t, u)
  <2> DEFINE line == Probe(t)
             blank == <<" ">>
             h == t.header_line
             whole == IF line = <<>> THEN h ELSE h \o blank \o line
  <2>1. t.phase = "header" /\ MoreLines(t)
        /\ u = [t EXCEPT !.at = @ + 1, !.mark = t.at + 1, !.header_line = whole]
    BY <1>7, Zenon DEF FoldLine, BelongsToHeader
  <2>2. /\ line \in Seq(Unforged) /\ line \in Seq(Atoms)
        /\ \A m : Alone(line, m) => Shown(t.payload)
    BY <2>1, ProbeTraced
  <2>3. blank = <<Blank>>
    BY Zenon DEF Blank
  <2>4. h \in Seq(Atoms) /\ h \in Seq(Unforged) /\ ~Oversized(t)
        /\ \A m : Alone(h, m) => Shown(t.payload)
    BY <1>1, <1>4, <2>1 DEF ParserTyped, Text
  <2> HIDE DEF line, blank, h
  <2>5. blank \in Seq(Unforged)
    BY <2>3, BlankIsUnforged
  <2>6. whole \in Seq(Unforged)
    BY <2>2, <2>4, <2>5
  <2>7. ASSUME NEW m, Alone(whole, m) PROVE Shown(t.payload)
    <3>1. CASE line = <<>>
      BY <2>4, <2>7, <3>1
    <3>2. CASE line # <<>>
      <4>1. PICK w : w = h \o <<Blank>> \o line
        OBVIOUS
      <4>2. Alone(w, m)
        BY <2>3, <2>7, <3>2, <4>1
      <4>3. Alone(h, m) \/ Alone(line, m - Len(h) - 1)
        BY <2>2, <2>4, <4>1, <4>2, AloneInPart
      <4>4. QED
        BY <2>2, <2>4, <4>3
    <3>3. QED
      BY <3>1, <3>2
  <2> HIDE DEF whole
  <2>8. u.phase = "header" /\ u.header_line = whole /\ u.header = t.header
    BY <1>1, <2>1 DEF IsParser, Fields
  <2>9. u.header["CHK"] # Digest
    BY <1>4, <2>1, <2>8
  <2>10. QED
    BY <1>2, <1>3, <1>4, <2>4, <2>6, <2>7, <2>8, <2>9 DEF HeaderTraced
<1>8. CASE ParseHeader(t, u)
  <2> DEFINE h == parseHeader(t.header_line)
             fields == h.fields
             missing == t.mode = "STRICT" /\ MissingField(fields)
             errors == h.errors \cup ErrorIf(missing, "missing")
             r == [t EXCEPT !.phase = "body", !.at = t.mark, !.header = fields]
  <2>1. t.phase = "header" /\ u = Reporting(t, r, errors)
    BY <1>8, Zenon DEF ParseHeader
  <2>2. t.header_line \in Seq(Atoms) /\ t.header_line \in Seq(Unforged)
    BY <1>1, <1>4, <2>1 DEF ParserTyped, Text
  <2>3. ASSUME fields["CHK"] = Digest PROVE Shown(t.payload)
    <3>1. \E m : Alone(t.header_line, m)
      BY <2>2, <2>3, DigestIsAlone
    <3>2. QED
      BY <1>4, <2>1, <3>1
  <2>4. fields \in [HeaderKeys -> Seq(Unforged)]
    <3>1. h \in Setting(Unforged)
      BY <2>2, ParseHeaderType
    <3> HIDE DEF h
    <3>2. QED
      BY <3>1 DEF Setting
  <2> HIDE DEF fields, errors
  <2>5. IsParser(r) /\ r.mode = "TOLERANT" /\ r.phase = "body" /\ r.header = fields
    BY <1>1 DEF IsParser, Fields
  <2> HIDE DEF r
  <2>6. u.phase = "body" /\ u.header = fields
    BY <1>1, <2>1, <2>5, ReportingKeeps
  <2>7. QED
    BY <1>2, <1>3, <1>4, <2>1, <2>3, <2>4, <2>6 DEF HeaderTraced
<1>9. CASE SkipBlank(t, u) \/ ReadRole(t, u) \/ ReadTool(t, u) \/ ReadPairs(t, u) \/ Finish(t, u)
  <2>1. t.phase = "body"
    BY <1>9, Guards
  <2>2. u.phase \in {"body", "done"} /\ u.header = t.header
    BY <1>2, <2>1
  <2>3. QED
    BY <1>2, <1>3, <1>4, <2>2 DEF HeaderTraced
<1>10. QED
  BY <1>2, <1>5, <1>6, <1>7, <1>8, <1>9 DEF Step

LEMMA StartTraced ==
    ASSUME NEW p \in Seq(Text), p \in Seq(Seq(Unforged)), NEW t, t = Start("TOLERANT", p)
    PROVE  HeaderTraced(t) /\ t.payload = p
<1>1. ParserTyped(t)
  BY StartTyped
<1>2. t.mode = "TOLERANT" /\ t.phase = "start" /\ t.payload = p /\ t.header = NoFields
  BY DEF Start
<1>3. NoFields \in [HeaderKeys -> Seq(Unforged)] /\ NoFields["CHK"] # Digest
  <2>1. \A S : <<>> \in Seq(S)
    OBVIOUS
  <2>2. "CHK" \in HeaderKeys /\ <<>> # Digest
    BY DEF HeaderKeys, Digest
  <2>3. QED
    BY <2>1, <2>2 DEF NoFields
<1>4. QED
  BY <1>1, <1>2, <1>3 DEF HeaderTraced

\* `came` is the line w, in which the field stands at p, but for the value behind the
\* marker, which ends in front of e; the digest is nowhere else in w.
Revalued(w, came, p, e) ==
    /\ w \in Seq(Atoms) /\ came \in Seq(Atoms)
    /\ p \in 1..(Len(w) - 4) /\ FieldFrom(w, p)
    /\ \A i \in 1..Len(w) : w[i] = "digest" => i = p + 4
    /\ e \in (p + 4)..(Len(came) + 1)
    /\ \A i \in (p + 4)..(e - 1) : came[i] \notin Ends
    /\ \A i \in 1..(p + 3) : came[i] = w[i]
    /\ Len(came) + 1 - e = Len(w) - p - 4
    /\ \A i \in 1..(Len(w) - p - 4) : came[e + i - 1] = w[p + 4 + i]

\* Lines of one canonical form differ in the value only.
LEMMA SameFormRevalued ==
    ASSUME NEW line \in Seq(Untold), MarkerIn(line) # 0, NEW w, w = WithValue(line, DigestAlone),
           NEW came \in Seq(Atoms), MarkerIn(came) # 0,
           WithValue(came, <<>>) = WithValue(w, <<>>)
    PROVE  \E p, e : Revalued(w, came, p, e)
<1> DEFINE p == MarkerIn(line)
           v == <<>>
           d == DigestAlone
           end == ValueEnd(line, p + 4)
<1>1. /\ d \in Seq(Atoms) /\ Len(d) = 1 /\ d[1] = "digest" /\ \A i \in 1..Len(d) : d[i] \notin Ends
      /\ v \in Seq(Atoms) /\ Len(v) = 0 /\ \A i \in 1..Len(v) : v[i] \notin Ends
      /\ line \in Seq(Atoms) /\ Len(line) \in Nat
  <2>1. line \in Seq(Atoms)
    BY DEF Untold
  <2>2. d \in Seq(Atoms) /\ Len(d) = 1 /\ d[1] = "digest" /\ \A i \in 1..Len(d) : d[i] \notin Ends
    BY WordsAreInk DEF DigestAlone
  <2>3. QED
    BY <2>1, <2>2
<1> HIDE DEF d
<1>2. /\ w \in Seq(Atoms) /\ MarkerIn(w) = p /\ p \in 1..(Len(w) - 4) /\ FieldFrom(w, p)
  <2>1. w = WithValue(line, <<"digest">>)
    BY DEF DigestAlone
  <2>2. QED
    BY <1>1, <2>1, DigestIsWritten
<1>3. /\ IsRewritten(w, line, p, end, d)
      /\ ValueEnd(w, p + 4) = p + 4 + Len(d)
  <2>1. w = WithValue(line, d)
    BY DEF d
  <2>2. IsRewritten(w, line, p, end, d)
    BY <1>1, <2>1, WithValueForm
  <2>3. ValueEnd(w, p + 4) = p + 4 + Len(d)
    BY <1>1, <2>1, ValueStaysPut
  <2>4. QED
    BY <2>2, <2>3
<1> HIDE DEF end, p, v
<1>4. /\ p \in 1..(Len(line) - 3) /\ end \in (p + 4)..(Len(line) + 1)
      /\ Len(w) = p + 3 + 1 + (Len(line) + 1 - end)
      /\ \A i \in 1..(p + 3) : w[i] = line[i]
      /\ \A i \in 1..(Len(line) + 1 - end) : w[p + 3 + 1 + i] = line[end + i - 1]
  BY <1>1, <1>3 DEF IsRewritten
<1>5. ASSUME NEW i \in 1..Len(w), w[i] = "digest" PROVE i = p + 4
  <2>1. \A k \in 1..Len(line) : line[k] # "digest"
    <3>1. \A k \in 1..Len(line) : line[k] \in Untold
      OBVIOUS
    <3>2. QED
      BY <3>1 DEF Untold
  <2>2. CASE i \in 1..(p + 3)
    <3>1. i \in 1..Len(line)
      BY <1>1, <1>4, <2>2
    <3>2. QED
      BY <1>4, <1>5, <2>1, <2>2, <3>1
  <2>3. CASE i > p + 4
    <3> DEFINE k == i - (p + 4)
    <3>1. k \in 1..(Len(line) + 1 - end) /\ p + 3 + 1 + k = i /\ end + k - 1 \in 1..Len(line)
      BY <1>1, <1>4, <2>3
    <3> HIDE DEF k
    <3>2. QED
      BY <1>4, <1>5, <2>1, <3>1
  <2>4. QED
    BY <1>1, <1>4, <2>2, <2>3
<1> DEFINE q == MarkerIn(came)
           e == ValueEnd(came, q + 4)
           c == WithValue(came, v)
<1>6. IsRewritten(c, came, q, e, v) /\ MarkerIn(c) = q
  BY <1>1, WithValueForm, ValueStaysPut
<1>7. c = WithValue(w, v)
  BY DEF v
<1>8. IsRewritten(c, w, p, p + 5, v) /\ MarkerIn(c) = p
  <2>1. MarkerIn(w) # 0 /\ ValueEnd(w, MarkerIn(w) + 4) = p + 5
    BY <1>1, <1>2, <1>3
  <2>2. IsRewritten(WithValue(w, v), w, MarkerIn(w), ValueEnd(w, MarkerIn(w) + 4), v)
    BY <1>1, <1>2, <2>1, WithValueForm
  <2>3. MarkerIn(WithValue(w, v)) = MarkerIn(w)
    BY <1>1, <1>2, <2>1, ValueStaysPut
  <2>4. QED
    BY <1>2, <1>7, <2>1, <2>2, <2>3
<1>9. q = p
  BY <1>6, <1>8
<1>10. EndsAt(came, p + 4, e)
  <2>1. MarkerAt(came, q)
    BY MarkerInIs
  <2>2. q + 4 \in 1..(Len(came) + 1)
    BY <2>1 DEF MarkerAt
  <2>3. EndsAt(came, q + 4, e)
    BY <2>2, ValueEndIs
  <2>4. QED
    BY <1>9, <2>3
<1> HIDE DEF q, e, c
<1>11. /\ e \in (p + 4)..(Len(came) + 1)
       /\ \A i \in (p + 4)..(e - 1) : came[i] \notin Ends
  BY <1>10 DEF EndsAt
<1>12. /\ Len(c) = p + 3 + (Len(came) + 1 - e)
       /\ \A i \in 1..(p + 3) : c[i] = came[i]
       /\ \A i \in 1..(Len(came) + 1 - e) : c[p + 3 + i] = came[e + i - 1]
  <2>1. /\ Len(c) = p + 3 + 0 + (Len(came) + 1 - e)
        /\ \A i \in 1..(p + 3) : c[i] = came[i]
        /\ \A i \in 1..(Len(came) + 1 - e) : c[p + 3 + 0 + i] = came[e + i - 1]
    BY <1>1, <1>6, <1>9 DEF IsRewritten
  <2>2. p + 3 + 0 = p + 3
    BY <1>4
  <2>3. QED
    BY <2>1, <2>2
<1>13. /\ Len(c) = p + 3 + (Len(w) + 1 - (p + 5))
       /\ \A i \in 1..(p + 3) : c[i] = w[i]
       /\ \A i \in 1..(Len(w) + 1 - (p + 5)) : c[p + 3 + i] = w[p + 5 + i - 1]
  <2>1. /\ Len(c) = p + 3 + 0 + (Len(w) + 1 - (p + 5))
        /\ \A i \in 1..(p + 3) : c[i] = w[i]
        /\ \A i \in 1..(Len(w) + 1 - (p + 5)) : c[p + 3 + 0 + i] = w[p + 5 + i - 1]
    BY <1>1, <1>8 DEF IsRewritten
  <2>2. p + 3 + 0 = p + 3
    BY <1>4
  <2>3. QED
    BY <2>1, <2>2
<1>14. Len(w) \in Nat /\ Len(came) \in Nat /\ p \in Nat /\ e \in Nat
  BY <1>2, <1>4, <1>11
<1>15. Len(came) + 1 - e = Len(w) - p - 4
  <2>1. p + 3 + (Len(came) + 1 - e) = p + 3 + (Len(w) + 1 - (p + 5))
    BY <1>12, <1>13
  <2>2. QED
    BY <1>14, <2>1
<1>16. ASSUME NEW i \in 1..(Len(w) - p - 4) PROVE came[e + i - 1] = w[p + 4 + i]
  <2>1. i \in 1..(Len(came) + 1 - e) /\ i \in 1..(Len(w) + 1 - (p + 5)) /\ p + 5 + i - 1 = p + 4 + i
    BY <1>14, <1>15
  <2>2. QED
    BY <1>12, <1>13, <2>1
<1>17. \A i \in 1..(p + 3) : came[i] = w[i]
  BY <1>12, <1>13
<1>18. Revalued(w, came, p, e)
  BY <1>2, <1>5, <1>11, <1>15, <1>16, <1>17 DEF Revalued
<1>19. QED
  BY <1>18

\* What is trimmed is what has ink, for two lines that have it in one place.
LEMMA SameInk ==
    ASSUME NEW A, NEW s \in Seq(A), NEW t \in Seq(A), NEW b \in 0..Len(s), b <= Len(t),
           \A i \in 1..b : s[i] = t[i],
           \A i \in 1..Len(s) : i > b => s[i] \in White,
           \A i \in 1..Len(t) : i > b => t[i] \in White
    PROVE  trim(s) = trim(t)
<1> DEFINE ink(l) == {i \in DOMAIN l : l[i] \notin White}
<1>1. Len(s) \in Nat /\ Len(t) \in Nat /\ DOMAIN s = 1..Len(s) /\ DOMAIN t = 1..Len(t) /\ b \in Nat
  OBVIOUS
<1>2. \A i : i \in ink(s) <=> i \in 1..b /\ s[i] \notin White
  BY <1>1
<1>3. \A i : i \in ink(t) <=> i \in 1..b /\ t[i] \notin White
  BY <1>1
<1>4. ink(s) = ink(t)
  <2>1. \A i : i \in ink(s) <=> i \in ink(t)
    BY <1>2, <1>3
  <2> HIDE DEF ink
  <2>2. QED
    BY <2>1
<1>5. PICK set : set = ink(s)
  OBVIOUS
<1>6. set \subseteq 1..b
  BY <1>2, <1>5
<1>7. /\ trim(s) = IF set = {} THEN <<>> ELSE SubSeq(s, Min(set), Max(set))
      /\ trim(t) = IF set = {} THEN <<>> ELSE SubSeq(t, Min(set), Max(set))
  BY <1>4, <1>5, Zenon DEF trim
<1>8. CASE set = {}
  BY <1>7, <1>8
<1>9. CASE set # {}
  <2>1. PICK m \in 1..b, n \in 1..b : m = Min(set) /\ n = Max(set)
    <3>1. set \in SUBSET Nat /\ set \in SUBSET (0..b)
      BY <1>1, <1>6
    <3>2. Min(set) \in set
      BY <1>9, <3>1, MinProperties
    <3>3. Max(set) \in set
      BY <1>1, <1>9, <3>1, MaxProperties
    <3>4. QED
      BY <1>6, <3>2, <3>3
  <2>2. SubSeq(s, m, n) = SubSeq(t, m, n)
    BY <1>1
  <2>3. QED
    BY <1>7, <1>9, <2>1, <2>2
<1>10. QED
  BY <1>8, <1>9

\* If the line that came shows the field by itself, it has the digest behind the marker:
\* it is the line that was sent, but for white space at its end.
LEMMA ShownIsSent ==
    ASSUME NEW w, NEW came, NEW p, NEW e, Revalued(w, came, p, e), NEW m, Alone(trim(came), m)
    PROVE  trim(came) = trim(w) /\ Len(w) <= Len(came)
<1> DEFINE t == trim(came)
<1>1. /\ w \in Seq(Atoms) /\ came \in Seq(Atoms)
      /\ p \in 1..(Len(w) - 4) /\ FieldFrom(w, p)
      /\ \A i \in 1..Len(w) : w[i] = "digest" => i = p + 4
      /\ e \in (p + 4)..(Len(came) + 1)
      /\ \A i \in (p + 4)..(e - 1) : came[i] \notin Ends
      /\ \A i \in 1..(p + 3) : came[i] = w[i]
      /\ Len(came) + 1 - e = Len(w) - p - 4
      /\ \A i \in 1..(Len(w) - p - 4) : came[e + i - 1] = w[p + 4 + i]
  BY DEF Revalued
<1>2. Len(w) \in Nat /\ Len(came) \in Nat /\ p \in Nat /\ e \in Nat /\ p \in 1..Len(came)
  BY <1>1
<1>3. /\ w[p] = "CHK" /\ w[p + 1] # Blank /\ w[p + 2] # Blank /\ w[p + 3] # Blank
      /\ w[p + 4] = "digest" /\ w[p] # Blank
  <2>1. \A j \in 1..5 : w[p + j - 1] = Field[j] /\ Field[j] # Blank
    BY <1>1, FieldAtoms DEF FieldFrom
  <2>2. p + 1 - 1 = p /\ p + 2 - 1 = p + 1 /\ p + 3 - 1 = p + 2 /\ p + 4 - 1 = p + 3
        /\ p + 5 - 1 = p + 4
    BY <1>2
  <2>3. /\ w[p + 1 - 1] = Field[1] /\ w[p + 2 - 1] # Blank /\ w[p + 3 - 1] # Blank
        /\ w[p + 4 - 1] # Blank /\ w[p + 5 - 1] = Field[5] /\ Field[1] # Blank
    BY <2>1
  <2>4. Field[1] = "CHK" /\ Field[5] = "digest"
    BY DEF Field
  <2>5. QED
    BY <2>2, <2>3, <2>4
<1>4. came[p] = "CHK" /\ came[p] \notin White
  <2>1. p \in 1..(p + 3)
    BY <1>2
  <2>2. QED
    BY <1>1, <1>3, <2>1, WordsAreInk
<1>5. PICK a \in 1..Len(came), b \in 1..Len(came) :
         /\ a <= b /\ t = SubSeq(came, a, b)
         /\ \A i \in 1..Len(came) : came[i] \notin White => a <= i /\ i <= b
  BY <1>1, <1>2, <1>4, TrimSpans
<1>6. /\ m \in 1..(Len(t) - 4) /\ FieldFrom(t, m)
      /\ m # 1 => t[m - 1] = Blank
      /\ m + 5 <= Len(t) => t[m + 5] = Blank
  BY DEF Alone
<1> HIDE DEF t
<1>7. Len(t) = b - a + 1 /\ \A i \in 1..(b - a + 1) : t[i] = came[a + i - 1]
  <2>1. a \in 1..(Len(came) + 1) /\ b \in (a - 1)..Len(came)
    BY <1>2, <1>5
  <2>2. Len(SubSeq(came, a, b)) = b - a + 1
        /\ \A i \in 1..(b - a + 1) : SubSeq(came, a, b)[i] = came[a + i - 1]
    BY <1>1, <2>1, SliceIs
  <2>3. QED
    BY <1>5, <2>2, Zenon
<1>8. a \in Nat /\ b \in Nat /\ m \in Nat /\ a <= p
  BY <1>2, <1>4, <1>5, <1>6
<1> DEFINE q == a + m - 1
<1>9. q \in a..(b - 4) /\ q \in Nat
  BY <1>2, <1>6, <1>7, <1>8
<1>10. came[q + 4] = "digest"
  <2>1. m + 4 \in 1..(b - a + 1) /\ a + (m + 4) - 1 = q + 4 /\ m + 5 - 1 = m + 4
    BY <1>6, <1>7, <1>8
  <2>2. t[m + 5 - 1] = Field[5] /\ Field[5] = "digest"
    BY <1>6 DEF FieldFrom, Field
  <2>3. QED
    BY <1>7, <2>1, <2>2
<1>11. q # a => came[q - 1] = Blank
  <2>1. ASSUME q # a PROVE came[q - 1] = Blank
    <3>1. m # 1 /\ m - 1 \in 1..(b - a + 1) /\ a + (m - 1) - 1 = q - 1
      BY <1>6, <1>7, <1>8, <2>1
    <3>2. QED
      BY <1>6, <1>7, <3>1
  <2>2. QED
    BY <2>1
<1>12. q + 5 <= b => came[q + 5] = Blank
  <2>1. ASSUME q + 5 <= b PROVE came[q + 5] = Blank
    <3>1. m + 5 \in 1..(b - a + 1) /\ m + 5 <= Len(t) /\ a + (m + 5) - 1 = q + 5
      BY <1>6, <1>7, <1>8, <2>1
    <3>2. QED
      BY <1>6, <1>7, <3>1
  <2>2. QED
    BY <2>1
<1> HIDE DEF q
<1>13. q + 4 \in (p + 4)..(e - 1)
  <2>1. CASE q + 4 <= p + 3
    <3>1. q + 4 \in 1..(p + 3) /\ q + 4 \in 1..Len(w)
      BY <1>1, <1>2, <1>9, <2>1
    <3>2. w[q + 4] = "digest" /\ q + 4 # p + 4
      BY <1>1, <1>2, <1>9, <1>10, <2>1, <3>1
    <3>3. QED
      BY <1>1, <3>1, <3>2
  <2>2. CASE q + 4 >= e
    <3> DEFINE k == q + 4 - e + 1
    <3>1. k \in 1..(Len(w) - p - 4) /\ e + k - 1 = q + 4 /\ p + 4 + k \in 1..Len(w)
          /\ p + 4 + k # p + 4
      <4>1. b <= Len(came) /\ q + 4 <= Len(came)
        BY <1>2, <1>5, <1>8, <1>9
      <4>2. k >= 1 /\ k <= Len(came) + 1 - e /\ k \in Int
        BY <1>2, <1>9, <2>2, <4>1
      <4>3. k \in 1..(Len(w) - p - 4)
        BY <1>1, <1>2, <4>2
      <4>4. QED
        BY <1>2, <1>9, <4>3
    <3> HIDE DEF k
    <3>2. w[p + 4 + k] = "digest"
      BY <1>1, <1>10, <3>1
    <3>3. QED
      BY <1>1, <3>1, <3>2
  <2>3. QED
    BY <1>2, <1>9, <2>1, <2>2
<1>14. q = p
  <2>1. SUFFICES ASSUME q > p PROVE FALSE
    BY <1>2, <1>9, <1>13
  <2>2. came[q - 1] = Blank
    BY <1>2, <1>8, <1>9, <1>11, <2>1
  <2>3. CASE q - 1 >= p + 4
    <3>1. q - 1 \in (p + 4)..(e - 1) /\ Blank \in Ends
      <4>1. q - 1 \in (p + 4)..(e - 1)
        BY <1>2, <1>9, <1>13, <2>3
      <4>2. Blank \in Ends
        BY Zenon DEF Blank, Ends
      <4>3. QED
        BY <4>1, <4>2
    <3>2. QED
      BY <1>1, <2>2, <3>1
  <2>4. CASE q - 1 < p + 4
    <3>1. q - 1 = p \/ q - 1 = p + 1 \/ q - 1 = p + 2 \/ q - 1 = p + 3
      BY <1>2, <1>9, <2>1, <2>4
    <3>2. q - 1 \in 1..(p + 3)
      BY <1>2, <3>1
    <3>3. came[q - 1] = w[q - 1]
      BY <1>1, <3>2
    <3>4. QED
      BY <1>3, <2>2, <3>1, <3>3
  <2>5. QED
    BY <1>2, <1>9, <2>3, <2>4
<1>15. came[p + 4] = "digest" /\ e >= p + 5 /\ p + 4 <= b
  BY <1>2, <1>8, <1>9, <1>10, <1>13, <1>14
<1>16. Len(w) <= Len(came)
  BY <1>1, <1>2, <1>15
<1>17. CASE p + 5 <= b
  <2>1. came[p + 5] = Blank
    BY <1>12, <1>14, <1>17
  <2>2. e = p + 5
    <3>1. Blank \in Ends
      BY Zenon DEF Blank, Ends
    <3>2. ~(p + 5 \in (p + 4)..(e - 1))
      BY <1>1, <2>1, <3>1
    <3>3. QED
      BY <1>2, <1>15, <3>2
  <2>3. Len(w) = Len(came)
    BY <1>1, <1>2, <2>2
  <2>4. ASSUME NEW i \in 1..Len(w) PROVE w[i] = came[i]
    <3>1. CASE i \in 1..(p + 3)
      BY <1>1, <3>1
    <3>2. CASE i = p + 4
      BY <1>3, <1>15, <3>2
    <3>3. CASE i > p + 4
      <4> DEFINE k == i - (p + 4)
      <4>1. k \in 1..(Len(w) - p - 4) /\ e + k - 1 = i /\ p + 4 + k = i
        BY <1>2, <2>2, <3>3
      <4> HIDE DEF k
      <4>2. QED
        BY <1>1, <4>1
    <3>4. QED
      BY <1>2, <3>1, <3>2, <3>3
  <2>5. w = came
    BY <1>1, <2>3, <2>4, SameItems
  <2>6. QED
    BY <1>16, <2>5
<1>18. CASE ~(p + 5 <= b)
  <2>1. b = p + 4
    BY <1>2, <1>8, <1>15, <1>18
  <2>2. ASSUME NEW i \in 1..Len(came), i > p + 4 PROVE came[i] \in White
    BY <1>5, <1>8, <2>1, <2>2
  <2>3. ASSUME NEW i \in 1..Len(w), i > p + 4 PROVE w[i] \in White
    <3> DEFINE k == i - (p + 4)
    <3>1. k \in 1..(Len(w) - p - 4) /\ p + 4 + k = i /\ e + k - 1 \in 1..Len(came)
          /\ e + k - 1 > p + 4
      BY <1>1, <1>2, <1>15, <2>3
    <3> HIDE DEF k
    <3>2. came[e + k - 1] = w[i]
      BY <1>1, <3>1
    <3>3. QED
      BY <2>2, <3>1, <3>2
  <2>4. ASSUME NEW i \in 1..(p + 4) PROVE came[i] = w[i]
    <3>1. i \in 1..(p + 3) \/ i = p + 4
      BY <1>2
    <3>2. QED
      BY <1>1, <1>3, <1>15, <3>1
  <2>5. p + 4 \in 0..Len(came) /\ p + 4 <= Len(w)
    BY <1>1, <1>2, <1>5, <2>1
  <2>6. trim(came) = trim(w)
    BY <1>1, <2>2, <2>3, <2>4, <2>5, SameInk
  <2>7. QED
    BY <1>16, <2>6
<1>19. QED
  BY <1>17, <1>18

\* Size() adds up the lines.
SizeStep(n, line) == n + Len(line) + 1

LEMMA SizeSteps ==
    ASSUME NEW s \in Seq(Text)
    PROVE  \E r \in [0..Len(s) -> Nat] :
              /\ r[0] = 0
              /\ \A k \in 1..Len(s) : r[k] = r[k - 1] + Len(s[k]) + 1
              /\ Size(s) = r[Len(s)]
<1> DEFINE n == Len(s)
           T == Nat
           Folds(f) == f = [c \in SUBSET DOMAIN s |->
                              IF c = {} THEN 0 ELSE SizeStep(f[c \ {Max(c)}], s[Max(c)])]
           iter == CHOOSE f : Folds(f)
           g == [p \in (1..n) \X T |-> SizeStep(p[2], s[p[1]])]
<1>1. Size(s) = iter[DOMAIN s]
  BY Zenon DEF Size, SizeStep, FoldLeft, MapThenFoldSet
<1>2. n \in Nat /\ DOMAIN s = 1..n /\ \A k \in 1..n : s[k] \in Text
  OBVIOUS
<1>3. 0 \in T /\ \A x \in T, line \in Text : SizeStep(x, line) \in T
  BY DEF SizeStep, Text
<1> HIDE DEF n
<1>4. /\ g \in [(1..n) \X T -> T]
      /\ \A k \in 1..n, x \in T : g[<<k, x>>] = SizeStep(x, s[k])
  <2> HIDE DEF T
  <2>1. QED
    BY <1>2, <1>3
<1> HIDE DEF g
<1>5. \E f : Folds(f)
  <2>1. PICK f : IsRecursive(f, n, T, 0, g)
    <3> HIDE DEF T
    <3>1. QED
      BY <1>2, <1>3, <1>4, FoldForm
  <2> HIDE DEF T
  <2>2. \A c \in SUBSET (1..n) : f[c] = IF c = {} THEN 0
                                        ELSE SizeStep(f[c \ {Max(c)}], s[Max(c)])
    BY <1>4, <2>1 DEF IsRecursive
  <2>3. f = [c \in SUBSET (1..n) |-> f[c]]
    BY <2>1 DEF IsRecursive
  <2>4. Folds(f)
    BY <1>2, <2>2, <2>3
  <2>5. QED
    BY <2>4
<1>6. Folds(iter)
  <2> HIDE DEF Folds
  <2>1. QED
    BY <1>5
<1> HIDE DEF iter, T
<1>7. \A c \in SUBSET (1..n) : iter[c] = IF c = {} THEN 0
                                         ELSE SizeStep(iter[c \ {Max(c)}], s[Max(c)])
  BY <1>2, <1>6
<1>8. FoldsInto(iter, n, T, 0, g)
  <2>1. \A c \in SUBSET (1..n) : c # {} => Max(c) \in 1..n
    BY <1>2, MaxInside
  <2>2. {} \in SUBSET (1..n)
    OBVIOUS
  <2>3. QED
    BY <1>4, <1>7, <2>1, <2>2 DEF FoldsInto
<1>9. PICK r : IsRun(r, iter, n, T, 0, g)
  BY <1>2, <1>3, <1>4, <1>8, FoldRuns
<1>10. \A k \in 1..n : r[k] = SizeStep(r[k - 1], s[k])
  <2>1. \A k \in 1..n : r[k - 1] \in T
    BY <1>2, <1>9 DEF IsRun
  <2>2. QED
    BY <1>4, <1>9, <2>1 DEF IsRun
<1>11. r \in [0..Len(s) -> Nat] /\ r[0] = 0 /\ Size(s) = r[Len(s)]
  BY <1>1, <1>2, <1>9 DEF n, T, IsRun
<1>12. QED
  BY <1>10, <1>11 DEF n, SizeStep

\* A frame whose lines are no shorter is no smaller.
LEMMA SizeGrows ==
    ASSUME NEW s \in Seq(Text), NEW t \in Seq(Text), Len(s) = Len(t),
           \A n \in 1..Len(s) : Len(s[n]) <= Len(t[n])
    PROVE  Size(s) \in Nat /\ Size(t) \in Nat /\ Size(s) <= Size(t)
<1> DEFINE n == Len(s)
<1>1. n \in Nat /\ n = Len(t)
  OBVIOUS
<1>2. PICK f \in [0..n -> Nat] :
        /\ f[0] = 0 /\ \A k \in 1..n : f[k] = f[k - 1] + Len(s[k]) + 1
        /\ Size(s) = f[n]
  BY SizeSteps
<1>3. PICK g \in [0..n -> Nat] :
        /\ g[0] = 0 /\ \A k \in 1..n : g[k] = g[k - 1] + Len(t[k]) + 1
        /\ Size(t) = g[n]
  BY <1>1, SizeSteps
<1>4. \A k \in 1..n : Len(s[k]) \in Nat /\ Len(t[k]) \in Nat /\ Len(s[k]) <= Len(t[k])
  BY <1>1 DEF Text
<1> HIDE DEF n
<1> DEFINE S == {k \in 0..n : f[k] <= g[k]}
<1>5. 0 \in S
  BY <1>1, <1>2, <1>3
<1>6. ASSUME NEW k \in 1..n, k - 1 \in S PROVE k \in S
  <2>1. k - 1 \in 0..n /\ k \in 0..n
    BY <1>1
  <2>2. f[k - 1] \in Nat /\ g[k - 1] \in Nat /\ f[k - 1] <= g[k - 1]
    BY <1>6, <2>1
  <2>3. f[k] = f[k - 1] + Len(s[k]) + 1 /\ g[k] = g[k - 1] + Len(t[k]) + 1
    BY <1>2, <1>3
  <2>4. f[k] <= g[k]
    BY <1>4, <2>2, <2>3
  <2>5. QED
    BY <2>1, <2>4
<1>7. \A k \in 0..n : k \in S
  <2> HIDE DEF S
  <2>1. QED
    BY <1>1, <1>5, <1>6, UpTo
<1>8. n \in 0..n
  BY <1>1
<1>9. QED
  BY <1>2, <1>3, <1>7, <1>8

LEMMA FieldHasDigest ==
    ASSUME NEW s, s \in Seq(Untold), NEW m
    PROVE  ~Alone(s, m)
<1>1. SUFFICES ASSUME Alone(s, m) PROVE FALSE
  OBVIOUS
<1>2. m \in 1..(Len(s) - 4) /\ \A j \in 1..5 : s[m + j - 1] = Field[j]
  BY <1>1 DEF Alone, FieldFrom
<1>3. s[m + 5 - 1] = "digest" /\ m + 5 - 1 \in 1..Len(s)
  BY <1>2 DEF Field
<1>4. s[m + 5 - 1] \in Untold
  BY <1>3
<1>5. QED
  BY <1>3, <1>4 DEF Untold

\* What came, hashes like what was sent and shows the field, is what was sent, line by
\* line, but for white space.
LEMMA CameAsSent ==
    ASSUME NEW frame \in Frames, NEW sent, sent = stamp_chk(frame),
           NEW came \in Seq(Text), canonical_for_chk(came) = HashedBy(frame), Shown(came)
    PROVE  TrimAlike(sent, came) /\ Size(sent) <= Size(came) /\ Size(sent) \in Nat
             /\ Size(came) \in Nat
<1> DEFINE e == <<>>
           d == DigestAlone
<1>1. frame \in Seq(Text) /\ frame \in Seq(Seq(Untold))
  <2>1. frame \in Seq(Text) /\ \A n \in DOMAIN frame : "digest" \notin Range(frame[n])
    BY FramesAssumption, ChecksumAssumption
  <2>2. ASSUME NEW n \in DOMAIN frame PROVE frame[n] \in Seq(Untold)
    <3>1. frame[n] \in Seq(Atoms) /\ "digest" \notin Range(frame[n])
      BY <2>1, <2>2 DEF Text
    <3> DEFINE l == frame[n]
    <3>2. \A i \in DOMAIN l : l[i] \in Range(l)
      BY Zenon DEF Range
    <3> HIDE DEF l
    <3>3. l \in Seq(Atoms) /\ \A i \in DOMAIN l : l[i] # "digest"
      BY <3>1, <3>2 DEF l
    <3>4. l \in Seq(Untold)
      BY <3>3 DEF Untold
    <3>5. QED
      BY <3>4 DEF l
  <2>3. QED
    BY <2>1, <2>2
<1>2. /\ sent \in Seq(Text) /\ (HasMarker(sent) <=> HasMarker(frame))
      /\ canonical_for_chk(sent) = HashedBy(frame)
  BY <1>1, SameFormHashed
<1>3. \A f : canonical_for_chk(f) = WithChk(f, e)
  BY DEF canonical_for_chk
<1>4. sent = WithChk(frame, d)
  BY DEF stamp_chk, DigestAlone
<1>5. e \in Text /\ (\A i \in 1..Len(e) : e[i] \notin Ends) /\ d \in Text
  BY DigestIsText
<1> HIDE DEF e, d
<1>6. /\ HasMarker(WithChk(came, e)) <=> HasMarker(came)
      /\ HasMarker(WithChk(sent, e)) <=> HasMarker(sent)
  BY <1>2, <1>5, LastChkCounts
<1>7. WithChk(came, e) = WithChk(sent, e) /\ (HasMarker(came) <=> HasMarker(frame))
  BY <1>2, <1>3, <1>6
<1>8. CASE ~HasMarker(frame)
  <2>1. came = sent
    BY <1>2, <1>7, <1>8 DEF WithChk
  <2>2. TrimAlike(sent, came)
    BY <1>2, <2>1 DEF TrimAlike
  <2>3. \A n \in 1..Len(sent) : Len(sent[n]) \in Nat /\ Len(sent[n]) <= Len(came[n])
    BY <1>2, <2>1 DEF Text
  <2>4. QED
    BY <1>2, <2>1, <2>2, <2>3, SizeGrows
<1>9. CASE HasMarker(frame)
  <2> DEFINE line == Head(frame)
             w == WithValue(line, d)
             long == Head(came)
  <2>1. /\ frame # <<>> /\ line \in Seq(Untold) /\ line \in Seq(Atoms) /\ MarkerIn(line) # 0
        /\ came # <<>> /\ long \in Seq(Atoms) /\ MarkerIn(long) # 0
    BY <1>1, <1>7, <1>9 DEF HasMarker, Text
  <2>2. w \in Seq(Atoms) /\ w \in Text
    <3> HIDE DEF line
    <3>1. QED
      BY <1>5, <2>1, WithValueForm DEF Text
  <2>3. sent = <<w>> \o Tail(frame)
    BY <1>4, <1>9, Zenon DEF WithChk
  <2> HIDE DEF w
  <2>4. /\ sent # <<>> /\ Head(sent) = w /\ Tail(sent) = Tail(frame) /\ Len(sent) = Len(frame)
        /\ \A n \in 2..Len(frame) : sent[n] = frame[n]
    <3>1. frame \in Seq(Text) /\ frame # <<>>
      BY <1>1, <2>1
    <3> HIDE DEF line
    <3>2. QED
      BY <2>2, <2>3, <3>1, NewHead
  <2> DEFINE x == WithValue(w, e)
             y == WithValue(long, e)
             hs == WithChk(sent, e)
             hc == WithChk(came, e)
  <2>5. hs = <<x>> \o Tail(sent) /\ hc = <<y>> \o Tail(came)
    BY <1>2, <1>7, <1>9, <2>4, Zenon DEF WithChk
  <2>6. x \in Text /\ y \in Text
    <3>1. MarkerIn(w) # 0
      BY <1>2, <1>9, <2>4 DEF HasMarker
    <3> HIDE DEF long
    <3>2. QED
      BY <1>5, <2>1, <2>2, <3>1, WithValueForm DEF Text
  <2> HIDE DEF x, y, hs, hc
  <2>7. /\ Head(hs) = x /\ Tail(hs) = Tail(sent) /\ Len(hs) = Len(sent)
        /\ \A n \in 2..Len(sent) : hs[n] = sent[n]
    BY <1>2, <2>4, <2>5, <2>6, NewHead
  <2>8. /\ Head(hc) = y /\ Tail(hc) = Tail(came) /\ Len(hc) = Len(came)
        /\ \A n \in 2..Len(came) : hc[n] = came[n]
    BY <2>1, <2>5, <2>6, NewHead
  <2>9. x = y /\ Len(came) = Len(sent) /\ \A n \in 2..Len(sent) : came[n] = sent[n]
    BY <1>7, <2>7, <2>8 DEF hs, hc
  <2>10. came[1] = long /\ sent[1] = w /\ Len(sent) \in Nat /\ Len(sent) >= 1
    BY <1>2, <2>1, <2>4
  <2>11. PICK n \in 1..Len(came) : \E m : Alone(trim(came[n]), m)
    BY DEF Shown
  <2>12. n = 1
    <3>1. SUFFICES ASSUME n \in 2..Len(sent) PROVE FALSE
      BY <2>9, <2>10
    <3>2. came[n] = frame[n] /\ frame[n] \in Seq(Untold)
      BY <1>1, <2>4, <2>9, <3>1
    <3>3. trim(came[n]) \in Seq(Untold)
      BY <3>2, TrimType
    <3>4. QED
      BY <2>11, <3>3, FieldHasDigest
  <2>13. PICK m : Alone(trim(long), m)
    BY <2>10, <2>11, <2>12
  <2>14. PICK p, f : Revalued(w, long, p, f)
    <3>1. WithValue(long, <<>>) = WithValue(w, <<>>)
      BY <2>9 DEF x, y, e
    <3>2. w = WithValue(line, DigestAlone)
      BY DEF w, d
    <3> HIDE DEF line, long
    <3>3. QED
      BY <2>1, <3>1, <3>2, SameFormRevalued
  <2>15. trim(long) = trim(w) /\ Len(w) <= Len(long)
    BY <2>13, <2>14, ShownIsSent
  <2>16. TrimAlike(sent, came)
    <3>1. \A k \in 1..Len(sent) : k = 1 \/ k \in 2..Len(sent)
      BY <2>10
    <3>2. \A k \in 1..Len(sent) : trim(came[k]) = trim(sent[k])
      BY <2>9, <2>10, <2>15, <3>1
    <3>3. QED
      BY <1>2, <2>9, <3>2 DEF TrimAlike
  <2>17. \A k \in 1..Len(sent) : Len(sent[k]) <= Len(came[k])
    <3>1. \A k \in 1..Len(sent) : k = 1 \/ k \in 2..Len(sent)
      BY <2>10
    <3>2. \A k \in 2..Len(sent) : came[k] = sent[k] /\ Len(sent[k]) \in Nat
      <4>1. \A k \in 2..Len(sent) : k \in 1..Len(sent)
        BY <2>10
      <4>2. QED
        BY <1>2, <2>9, <4>1 DEF Text
    <3>3. QED
      BY <2>10, <2>9, <2>15, <3>1, <3>2
  <2>18. QED
    BY <1>2, <2>9, <2>16, <2>17, SizeGrows
<1>10. QED
  BY <1>8, <1>9

LEMMA DeliveredText ==
    ASSUME NEW frame \in Frames, NEW came \in Deliveries(stamp_chk(frame))
    PROVE  came \in Seq(Text) /\ came \in Seq(Seq(Unforged))
<1>1. came \in Seq(Text) /\ \A n \in DOMAIN came : "other" \notin Range(came[n])
  BY DeliveriesAssumption
<1>2. ASSUME NEW n \in DOMAIN came PROVE came[n] \in Seq(Unforged)
  <2>1. came[n] \in Seq(Atoms) /\ "other" \notin Range(came[n])
    BY <1>1, <1>2 DEF Text
  <2> DEFINE l == came[n]
  <2>2. \A i \in DOMAIN l : l[i] \in Range(l)
    BY Zenon DEF Range
  <2> HIDE DEF l
  <2>3. l \in Seq(Atoms) /\ \A i \in DOMAIN l : l[i] # "other"
    BY <2>1, <2>2 DEF l
  <2>4. l \in Seq(Unforged)
    BY <2>3 DEF Unforged
  <2>5. QED
    BY <2>4 DEF l
<1>3. QED
  BY <1>1, <1>2

\* A header that verifies holds the digest, of the form that was hashed.
LEMMA VerifiedHolds ==
    ASSUME NEW t, HeaderTraced(t), Verified(t)
    PROVE  canonical_for_chk(t.payload) = hashed /\ t.header["CHK"] = Digest
<1> DEFINE f == <<"sha256", ":">>
           v == t.header["CHK"]
           S == {"sha256", ":", "digest", "other"}
<1>1. v = f \o (IF canonical_for_chk(t.payload) = hashed THEN <<"digest">> ELSE <<"other">>)
  BY Zenon DEF Verified, compute_chk
<1>2. /\ f \in Seq(S) /\ Len(f) = 2 /\ f[1] = "sha256" /\ f[2] = ":"
      /\ <<"digest">> \in Seq(S) /\ Len(<<"digest">>) = 1 /\ <<"digest">>[1] = "digest"
      /\ <<"other">> \in Seq(S) /\ Len(<<"other">>) = 1 /\ <<"other">>[1] = "other"
  OBVIOUS
<1>3. v \in Seq(Unforged)
  <2>1. "CHK" \in HeaderKeys
    BY DEF HeaderKeys
  <2>2. QED
    BY <2>1 DEF HeaderTraced
<1> HIDE DEF f, v, S
<1>4. ASSUME canonical_for_chk(t.payload) # hashed PROVE FALSE
  <2>1. v = f \o <<"other">>
    BY <1>1, <1>4
  <2>2. v = <<f[1], f[2], "other">>
    BY <1>2, <2>1, TwoAndOne
  <2>3. Len(v) = 3 /\ v[3] = "other"
    BY <2>2
  <2>4. v[3] \in Unforged
    BY <1>3, <2>3
  <2>5. QED
    BY <2>3, <2>4 DEF Unforged
<1>5. v = f \o <<"digest">>
  BY <1>1, <1>4
<1>6. v = <<f[1], f[2], "digest">>
  BY <1>2, <1>5, TwoAndOne
<1>7. QED
  BY <1>2, <1>4, <1>6 DEF v, Digest

\* Two parsers, of the frame sent and of the frame that came, in one step.
LEMMA BothStepTogether ==
    ASSUME NEW t, NEW c, Together(t, c), ~Oversized(t), ~Oversized(c), NEW u, NEW d,
           Step(t, u) \/ (Stopped(t) /\ u = t), Step(c, d) \/ (Stopped(c) /\ d = c)
    PROVE  Together(u, d)
<1>1. c.phase = t.phase
  BY AlignedView DEF Together, Fields
<1>2. CASE Stopped(t)
  <2>1. u = t /\ d = c
    BY <1>1, <1>2, Guards DEF Stopped, Step
  <2>2. QED
    BY <2>1
<1>3. CASE ~Stopped(t)
  <2>1. Step(t, u) /\ Step(c, d)
    BY <1>1, <1>3 DEF Stopped
  <2>2. QED
    BY <2>1, StepTogether
<1>4. QED
  BY <1>2, <1>3

\* What verifies where it arrives is read as it was sent, whatever frames are sent and
\* whatever happens to them under way, but that someone computes a checksum.
THEOREM AlterationsAlwaysNoticed == StampedSpec => []AlterationsAreNoticed
<1> DEFINE Relates(sent, came) ==
               canonical_for_chk(came) = hashed /\ Shown(came) =>
                   /\ TrimAlike(sent, came) /\ Size(sent) <= Size(came)
                   /\ Size(sent) \in Nat /\ Size(came) \in Nat
           Fit(t, c) == ~Oversized(t) /\ ~Oversized(c) /\ TrimAlike(t.payload, c.payload)
           Inv == /\ HeaderTraced(received)
                  /\ IsParser(tolerant) /\ tolerant.mode = "TOLERANT"
                  /\ Relates(tolerant.payload, received.payload)
                  /\ Fit(tolerant, received) => Together(tolerant, received)
<1>1. StampedInit => Inv
  <2> SUFFICES ASSUME StampedInit PROVE Inv
    OBVIOUS
  <2>1. PICK frame \in Frames : /\ Reads(stamp_chk(frame)) /\ hashed = HashedBy(frame)
                               /\ \E delivered \in Deliveries(stamp_chk(frame)) :
                                     received = Start("TOLERANT", delivered)
    BY Zenon DEF StampedInit
  <2>2. PICK came \in Deliveries(stamp_chk(frame)) : received = Start("TOLERANT", came)
    BY <2>1
  <2>3. came \in Seq(Text) /\ came \in Seq(Seq(Unforged))
    BY DeliveredText
  <2> DEFINE sent == stamp_chk(frame)
             t == tolerant
             c == received
  <2>4. c = Start("TOLERANT", came) /\ t = Start("TOLERANT", sent)
    BY <2>1, <2>2, Zenon DEF Reads
  <2>5. sent \in Seq(Text)
    BY SameFormHashed, FramesAssumption
  <2>6. Relates(sent, came)
    BY <2>1, <2>3, CameAsSent
  <2> HIDE DEF t, c, sent
  <2>7. HeaderTraced(c) /\ c.payload = came
    BY <2>3, <2>4, StartTraced
  <2>8. IsParser(t) /\ t.mode = "TOLERANT" /\ t.payload = sent
    BY <2>4 DEF Start, IsParser, Fields
  <2>9. Fit(t, c) => Together(t, c)
    BY <2>4, <2>7, <2>8, StartTogether
  <2> HIDE DEF Fit
  <2>10. Relates(t.payload, c.payload)
    BY <2>6, <2>7, <2>8
  <2> HIDE DEF Relates
  <2>11. QED
    BY <2>7, <2>8, <2>9, <2>10 DEF t, c
<1>2. Inv /\ [StampedNext]_<<vars, hashed, received>> => Inv'
  <2> SUFFICES ASSUME Inv, [StampedNext]_<<vars, hashed, received>> PROVE Inv'
    OBVIOUS
  <2>1. CASE UNCHANGED <<vars, hashed, received>>
    <3>1. tolerant' = tolerant /\ received' = received /\ hashed' = hashed
      BY <2>1 DEF vars
    <3>2. QED
      BY <3>1
  <2>2. CASE StampedNext
    <3> DEFINE t == tolerant
               c == received
               u == tolerant'
               d == received'
    <3>1. /\ Step(t, u) \/ (Stopped(t) /\ u = t)
          /\ Step(c, d) \/ (Stopped(c) /\ d = c)
          /\ hashed' = hashed
      BY <2>2, Zenon DEF StampedNext, Next
    <3>2. /\ HeaderTraced(c) /\ IsParser(t) /\ t.mode = "TOLERANT"
          /\ Relates(t.payload, c.payload) /\ (Fit(t, c) => Together(t, c))
      OBVIOUS
    <3> HIDE DEF t, c, u, d
    <3>3. IsParser(u) /\ u.mode = "TOLERANT" /\ u.payload = t.payload
      BY <3>1, <3>2, TolerantKeeps
    <3>4. HeaderTraced(d) /\ d.payload = c.payload
      BY <3>1, <3>2, HeaderStepTraced
    <3>5. ASSUME Fit(u, d) PROVE Together(u, d)
      <4>1. Fit(t, c)
        BY <3>3, <3>4, <3>5 DEF Oversized
      <4>2. QED
        BY <3>1, <3>2, <4>1, BothStepTogether
    <3>6. canonical_for_chk(d.payload) = hashed' /\ Shown(d.payload) =>
             /\ TrimAlike(u.payload, d.payload) /\ Size(u.payload) <= Size(d.payload)
             /\ Size(u.payload) \in Nat /\ Size(d.payload) \in Nat
      BY <3>1, <3>2, <3>3, <3>4
    <3>7. QED
      BY <3>3, <3>4, <3>5, <3>6 DEF u, d
  <2>3. QED
    BY <2>1, <2>2
<1>3. Inv => AlterationsAreNoticed
  <2> SUFFICES ASSUME Inv, Verified(received)
               PROVE  received = [tolerant EXCEPT !.payload = received.payload]
    BY DEF AlterationsAreNoticed
  <2> DEFINE t == tolerant
             c == received
  <2>1. /\ HeaderTraced(c) /\ Verified(c)
        /\ Relates(t.payload, c.payload) /\ (Fit(t, c) => Together(t, c))
    OBVIOUS
  <2> HIDE DEF t, c
  <2>2. canonical_for_chk(c.payload) = hashed /\ c.header["CHK"] = Digest
    BY <2>1, VerifiedHolds
  <2>3. ~Oversized(c) /\ Shown(c.payload)
    BY <2>1, <2>2 DEF HeaderTraced
  <2>4. TrimAlike(t.payload, c.payload) /\ ~Oversized(t)
    <3>1. /\ TrimAlike(t.payload, c.payload) /\ Size(t.payload) <= Size(c.payload)
          /\ Size(t.payload) \in Nat /\ Size(c.payload) \in Nat
      BY <2>1, <2>2, <2>3
    <3>2. QED
      BY <2>3, <3>1, ParserAssumption DEF Oversized
  <2>5. Together(t, c)
    BY <2>1, <2>3, <2>4
  <2>6. c = [t EXCEPT !.payload = c.payload]
    BY <2>5 DEF Together, Aligned
  <2>7. QED
    BY <2>6 DEF t, c
<1>4. QED
  BY <1>1, <1>2, <1>3, PTL DEF StampedSpec

-----------------------------------------------------------------------------
\* What the lines of a frame that validation lets pass say.  First, a line that stands in
\* another says no more than the other does.

\* s stands in w.
Inside(s, w) ==
    \E o \in 0..Len(w) : o + Len(s) <= Len(w) /\ \A i \in 1..Len(s) : s[i] = w[o + i]

LEMMA InsideSays ==
    ASSUME NEW s \in Seq(Atoms), NEW w \in Seq(Atoms), Inside(s, w)
    PROVE  /\ \A x : Mentions(s, x) => Mentions(w, x)
           /\ HasCapability(s) => HasCapability(w)
<1>1. PICK o \in 0..Len(w) : o + Len(s) <= Len(w) /\ \A i \in 1..Len(s) : s[i] = w[o + i]
  BY DEF Inside
<1>2. Len(s) \in Nat /\ Len(w) \in Nat /\ o \in Nat
  BY <1>1
<1>3. ASSUME NEW i \in 1..(Len(s) - 1)
      PROVE  o + i \in 1..(Len(w) - 1) /\ s[i] = w[o + i] /\ s[i + 1] = w[o + i + 1]
  <2>1. i \in 1..Len(s) /\ i + 1 \in 1..Len(s) /\ o + (i + 1) = o + i + 1
    BY <1>2, <1>3
  <2>2. o + i \in 1..(Len(w) - 1)
    BY <1>1, <1>2, <1>3
  <2>3. s[i + 1] = w[o + (i + 1)] /\ s[i] = w[o + i]
    BY <1>1, <2>1
  <2>4. QED
    BY <2>1, <2>2, <2>3
<1>4. ASSUME NEW x, Mentions(s, x) PROVE Mentions(w, x)
  <2>1. PICK i \in 1..(Len(s) - 1) : s[i] = x /\ s[i + 1] \in {":", "="}
    BY <1>4 DEF Mentions
  <2>2. QED
    BY <1>3, <2>1 DEF Mentions
<1>5. ASSUME HasCapability(s) PROVE HasCapability(w)
  <2>1. PICK i \in 1..(Len(s) - 1) : s[i] = "cap" /\ s[i + 1] = "="
    BY <1>5 DEF HasCapability
  <2>2. QED
    BY <1>3, <2>1 DEF HasCapability
<1>6. QED
  BY <1>4, <1>5

\* The quote that is put in says nothing.
LEMMA RequotedSays ==
    ASSUME NEW line \in Seq(Atoms)
    PROVE  /\ \A x : Mentions(Requoted(line), x) => Mentions(line, x)
           /\ HasCapability(Requoted(line)) => HasCapability(line)
<1> DEFINE w == Append(line, Quote)
<1>1. Requoted(line) = line \/ Requoted(line) = w
  BY Zenon DEF Requoted
<1>2. Len(line) \in Nat /\ Len(w) = Len(line) + 1 /\ w[Len(line) + 1] = Quote
      /\ \A i \in 1..Len(line) : w[i] = line[i]
  OBVIOUS
<1>3. Quote \notin {":", "="}
  BY DEF Quote
<1> HIDE DEF w
<1>4. ASSUME NEW i \in 1..(Len(w) - 1), w[i + 1] \in {":", "="}
      PROVE  i \in 1..(Len(line) - 1) /\ w[i] = line[i] /\ w[i + 1] = line[i + 1]
  <2>1. i # Len(line)
    BY <1>2, <1>3, <1>4
  <2>2. i \in 1..(Len(line) - 1) /\ i \in 1..Len(line) /\ i + 1 \in 1..Len(line)
    BY <1>2, <2>1
  <2>3. QED
    BY <1>2, <2>2
<1>5. ASSUME NEW x, Mentions(w, x) PROVE Mentions(line, x)
  <2>1. PICK i \in 1..(Len(w) - 1) : w[i] = x /\ w[i + 1] \in {":", "="}
    BY <1>5 DEF Mentions
  <2>2. i \in 1..(Len(line) - 1) /\ line[i] = x /\ line[i + 1] \in {":", "="}
    BY <1>4, <2>1
  <2>3. QED
    BY <2>2 DEF Mentions
<1>6. ASSUME HasCapability(w) PROVE HasCapability(line)
  <2>1. PICK i \in 1..(Len(w) - 1) : w[i] = "cap" /\ w[i + 1] = "="
    BY <1>6 DEF HasCapability
  <2>2. i \in 1..(Len(line) - 1) /\ line[i] = "cap" /\ line[i + 1] = "="
    BY <1>4, <2>1
  <2>3. QED
    BY <2>2 DEF HasCapability
<1>7. QED
  BY <1>1, <1>5, <1>6

LEMMA SliceInside ==
    ASSUME NEW A, NEW s \in Seq(A), NEW a \in 1..(Len(s) + 1)
    PROVE  Inside(SubSeq(s, a, Len(s)), s)
<1> DEFINE t == SubSeq(s, a, Len(s))
<1>1. Len(s) \in Nat /\ a \in Nat
  OBVIOUS
<1>2. Len(t) = Len(s) - a + 1 /\ \A i \in 1..(Len(s) - a + 1) : t[i] = s[a + i - 1]
  <2>1. Len(s) \in (a - 1)..Len(s)
    BY <1>1
  <2>2. QED
    BY <2>1, SliceIs
<1> HIDE DEF t
<1>3. a - 1 \in 0..Len(s) /\ a - 1 + Len(t) <= Len(s)
  BY <1>1, <1>2
<1>4. \A i \in 1..Len(t) : t[i] = s[(a - 1) + i]
  <2>1. ASSUME NEW i \in 1..Len(t) PROVE t[i] = s[(a - 1) + i]
    <3>1. i \in 1..(Len(s) - a + 1) /\ a + i - 1 = (a - 1) + i
      BY <1>1, <1>2
    <3>2. QED
      BY <1>2, <3>1
  <2>2. QED
    BY <2>1
<1>5. Inside(t, s)
  BY <1>3, <1>4 DEF Inside
<1>6. QED
  BY <1>5 DEF t

\* Where the first of something is.
LEMMA FindIs ==
    ASSUME NEW A, NEW s \in Seq(A), NEW a, NEW i \in 1..Len(s), s[i] = a,
           \A j \in 1..(i - 1) : s[j] # a
    PROVE  Find(s, a) = i
<1>1. Find(s, a) \in 1..i /\ i \in Nat /\ Len(s) \in Nat
  BY FindFirst
<1>2. s[Find(s, a)] = a
  BY <1>1, FindPlace
<1>3. ~(Find(s, a) \in 1..(i - 1))
  BY <1>2
<1>4. QED
  BY <1>1, <1>3

\* Where a role ends: at e in w, x being w with the bracket put in.
RoleEndsAt(w, x, e) ==
    /\ Find(w, "]") # 0 => e = Find(w, "]")
    /\ Find(w, "]") = 0 /\ Find(w, Blank) # 0 => e = Find(w, Blank)
    /\ Find(w, "]") = 0 /\ Find(w, Blank) = 0 => e = Len(w) + 1
    /\ SubSeq(x, 2, e - 1) = SubSeq(w, 2, e - 1)

\* The bracket of a role line that has none goes in front of the first blank or behind
\* the line; what is behind the bracket stands in the line.
LEMMA Bracketed ==
    ASSUME NEW w \in Seq(Atoms), NEW whole, whole = Rebracketed(w), NEW e, e = Find(whole, "]"),
           NEW b, b = Find(w, Blank), NEW c, c = Find(w, "]")
    PROVE  /\ RoleEndsAt(w, whole, e)
           /\ After(whole, e) \in Seq(Atoms) /\ Inside(After(whole, e), w)
           /\ e \in 1..(Len(w) + 1)
<1> DEFINE n == Len(w)
           r == "]"
<1> SUFFICES /\ c # 0 => e = c
             /\ c = 0 /\ b # 0 => e = b
             /\ c = 0 /\ b = 0 => e = Len(w) + 1
             /\ SubSeq(whole, 2, e - 1) = SubSeq(w, 2, e - 1)
             /\ After(whole, e) \in Seq(Atoms) /\ Inside(After(whole, e), w)
             /\ e \in 1..(Len(w) + 1)
  BY Zenon DEF RoleEndsAt
<1>1. n \in Nat /\ c \in 0..n /\ b \in 0..n /\ r \in Atoms /\ whole \in Seq(Atoms)
      /\ Len(whole) \in Nat
  <2>1. r \in Atoms
    BY DEF Atoms, Punctuation
  <2>2. whole \in Seq(Atoms)
    BY RebracketedType DEF Text
  <2>3. QED
    BY <2>1, <2>2, FindPlace
<1>2. whole = IF c # 0 THEN w ELSE IF b = 0 THEN Append(w, r)
              ELSE Before(w, b) \o <<r>> \o SubSeq(w, b, n)
  BY Zenon DEF Rebracketed, Blank
<1>3. CASE c # 0
  <2>1. whole = w /\ e = c
    BY <1>2, <1>3
  <2>2. After(whole, e) = SubSeq(w, c + 1, n) /\ c + 1 \in 1..(n + 1) /\ c \in 0..n
    BY <1>1, <2>1 DEF After
  <2>3. Inside(SubSeq(w, c + 1, n), w)
    BY <2>2, SliceInside
  <2>4. After(whole, e) \in Seq(Atoms)
    BY <2>1, <2>2, PartsType
  <2>5. e \in 1..(Len(w) + 1)
    BY <1>1, <1>3, <2>1
  <2>6. c # 0 /\ e = c
    BY <1>3, <2>1
  <2>7. SubSeq(whole, 2, e - 1) = SubSeq(w, 2, e - 1)
    BY <2>1, Zenon
  <2>8. Inside(After(whole, e), w)
    BY <2>2, <2>3, Zenon
  <2>9. QED
    BY <2>4, <2>5, <2>6, <2>7, <2>8
<1>4. ASSUME c = 0 PROVE \A i \in 1..n : w[i] # r
  <2>1. SUFFICES ASSUME NEW i \in 1..n, w[i] = r PROVE FALSE
    OBVIOUS
  <2>2. Find(w, r) \in 1..i
    BY <2>1, FindFirst
  <2>3. QED
    BY <1>4, <2>2
<1>5. CASE c = 0 /\ b = 0
  <2>1. whole = Append(w, r)
    BY <1>2, <1>5
  <2>2. Len(whole) = n + 1 /\ whole[n + 1] = r /\ \A i \in 1..n : whole[i] = w[i]
    BY <1>1, <2>1
  <2>3. e = n + 1
    <3>1. n + 1 \in 1..Len(whole) /\ \A j \in 1..(n + 1 - 1) : whole[j] # r
      BY <1>1, <1>4, <1>5, <2>2
    <3>2. QED
      BY <1>1, <2>2, <3>1, FindIs
  <2>4. SubSeq(whole, 2, n) = SubSeq(w, 2, n)
    BY <1>1, <2>1
  <2>5. After(whole, e) = <<>>
    BY <1>1, <2>2, <2>3 DEF After
  <2>6. Inside(<<>>, w) /\ <<>> \in Seq(Atoms)
    BY <1>1 DEF Inside
  <2>7. e - 1 = n
    BY <1>1, <2>3
  <2>8. e \in 1..(Len(w) + 1)
    BY <1>1, <2>3
  <2>9. c = 0 /\ b = 0 /\ e = Len(w) + 1
    BY <1>5, <2>3
  <2>10. SubSeq(whole, 2, e - 1) = SubSeq(w, 2, e - 1)
    BY <2>4, <2>7, Zenon
  <2>11. After(whole, e) \in Seq(Atoms) /\ Inside(After(whole, e), w)
    BY <2>5, <2>6, Zenon
  <2>12. QED
    BY <2>8, <2>9, <2>10, <2>11
<1>6. CASE c = 0 /\ b # 0
  <2> DEFINE f == Before(w, b)
             bracket == <<r>>
             g == SubSeq(w, b, n)
  <2>1. whole = f \o bracket \o g
    BY <1>2, <1>6
  <2>2. Len(f) = b - 1 /\ f \in Seq(Atoms) /\ \A i \in 1..(b - 1) : f[i] = w[i]
    BY <1>1, <1>6 DEF Before
  <2>3. Len(g) = n - b + 1 /\ g \in Seq(Atoms)
    BY <1>1, <1>6
  <2>4. Len(bracket) = 1 /\ bracket[1] = r /\ bracket \in Seq(Atoms)
    BY <1>1
  <2> HIDE DEF f, g, bracket
  <2> DEFINE k == f \o bracket
  <2>5. k \in Seq(Atoms) /\ Len(k) = b /\ k[b] = r /\ \A i \in 1..(b - 1) : k[i] = w[i]
    <3>1. k \in Seq(Atoms) /\ Len(k) = Len(f) + 1 /\ k[Len(f) + 1] = bracket[1]
          /\ \A i \in 1..Len(f) : k[i] = f[i]
      <4>1. PICK j : j = f \o bracket
        OBVIOUS
      <4>2. /\ j \in Seq(Atoms) /\ Len(j) = Len(f) + Len(bracket)
            /\ \A i \in 1..Len(f) : j[i] = f[i]
            /\ \A i \in 1..(Len(f) + Len(bracket)) : i > Len(f) => j[i] = bracket[i - Len(f)]
        BY <2>2, <2>4, <4>1, Joined
      <4>3. Len(f) \in Nat /\ Len(f) + 1 - Len(f) = 1
        BY <2>2
      <4>4. j[Len(f) + 1] = bracket[1]
        BY <2>4, <4>2, <4>3
      <4>5. QED
        BY <2>4, <4>1, <4>2, <4>4 DEF k
    <3>2. b - 1 + 1 = b
      BY <1>1
    <3> HIDE DEF k
    <3>3. QED
      BY <2>2, <2>4, <3>1, <3>2
  <2> HIDE DEF k
  <2>6. /\ Len(whole) = n + 1
        /\ \A i \in 1..b : whole[i] = k[i]
        /\ \A i \in 1..(n - b + 1) : whole[b + i] = g[i]
    <3>1. whole = k \o g
      BY <2>1 DEF k
    <3>2. /\ Len(whole) = Len(k) + Len(g)
          /\ \A i \in 1..Len(k) : whole[i] = k[i]
          /\ \A i \in 1..Len(g) : whole[Len(k) + i] = g[i]
      BY <2>3, <2>5, <3>1
    <3>3. b + (n - b + 1) = n + 1
      BY <1>1
    <3>4. QED
      BY <2>3, <2>5, <3>2, <3>3
  <2>7. e = b
    <3>1. b \in 1..Len(whole) /\ whole[b] = r
      BY <1>1, <1>6, <2>5, <2>6
    <3>2. \A j \in 1..(b - 1) : whole[j] = w[j] /\ j \in 1..n
      BY <1>1, <2>5, <2>6
    <3>3. \A j \in 1..(b - 1) : whole[j] # r
      BY <1>4, <1>6, <3>2
    <3>4. QED
      BY <1>1, <3>1, <3>3, FindIs
  <2>8. SubSeq(whole, 2, b - 1) = SubSeq(w, 2, b - 1)
    <3>1. \A i \in 1..(b - 1) : whole[i] = w[i]
      BY <1>1, <2>5, <2>6
    <3>2. b - 1 \in 0..n /\ b - 1 \in 0..Len(whole)
      BY <1>1, <1>6, <2>6
    <3>3. QED
      BY <1>1, <3>1, <3>2
  <2>9. After(whole, b) = g
    <3> DEFINE t == SubSeq(whole, b + 1, Len(whole))
    <3>1. b + 1 \in 1..(Len(whole) + 1) /\ Len(whole) \in ((b + 1) - 1)..Len(whole)
      BY <1>1, <1>6, <2>6
    <3>2. /\ Len(t) = Len(whole) - (b + 1) + 1
          /\ \A i \in 1..(Len(whole) - (b + 1) + 1) : t[i] = whole[(b + 1) + i - 1]
      BY <1>1, <3>1, SliceIs
    <3>3. t \in Seq(Atoms)
      BY <1>1, <1>6, <2>6, SubSeqType
    <3> HIDE DEF t
    <3>4. Len(t) = Len(g)
      BY <1>1, <2>3, <2>6, <3>2
    <3>5. \A i \in 1..Len(t) : t[i] = g[i]
      <4>1. SUFFICES ASSUME NEW i \in 1..Len(t) PROVE t[i] = g[i]
        OBVIOUS
      <4>2. /\ i \in 1..(Len(whole) - (b + 1) + 1) /\ i \in 1..(n - b + 1)
            /\ (b + 1) + i - 1 = b + i
        BY <1>1, <2>3, <2>6, <3>2, <3>4
      <4>3. QED
        BY <2>6, <3>2, <4>2
    <3>6. t = g
      BY <2>3, <3>3, <3>4, <3>5, SameItems
    <3>7. QED
      BY <3>6 DEF After, t
  <2>10. Inside(g, w)
    <3>1. b \in 1..(n + 1)
      BY <1>1, <1>6
    <3>2. QED
      BY <3>1, SliceInside DEF g
  <2>11. b \in 1..(n + 1)
    BY <1>1, <1>6
  <2>12. QED
    BY <1>6, <2>3, <2>7, <2>8, <2>9, <2>10, <2>11
<1>7. QED
  BY <1>3, <1>5, <1>6

-----------------------------------------------------------------------------
\* The role on a role line: the scan of HasOpenQuote().
OpenStep(q, a) == IF q.escape THEN [q EXCEPT !.escape = FALSE]
                  ELSE [open |-> (a = Quote) # q.open, escape |-> a = Backslash]

LEMMA OpenStepType ==
    ASSUME NEW q \in Quotes, NEW a
    PROVE  OpenStep(q, a) \in Quotes /\ (~q.open /\ a # Quote => ~OpenStep(q, a).open)
<1>1. q = [open |-> q.open, escape |-> q.escape] /\ q.open \in BOOLEAN /\ q.escape \in BOOLEAN
  BY DEF Quotes
<1> DEFINE x == (a = Quote) # q.open
           y == a = Backslash
<1>2. x \in BOOLEAN /\ y \in BOOLEAN /\ (~q.open /\ a # Quote => ~x)
  BY <1>1
<1> HIDE DEF x, y
<1>3. OpenStep(q, a) = IF q.escape THEN [q EXCEPT !.escape = FALSE]
                       ELSE [open |-> x, escape |-> y]
  BY Zenon DEF OpenStep, x, y
<1>4. CASE q.escape
  <2>1. OpenStep(q, a) = [q EXCEPT !.escape = FALSE]
    BY <1>3, <1>4
  <2>2. [q EXCEPT !.escape = FALSE] \in Quotes /\ [q EXCEPT !.escape = FALSE].open = q.open
    BY DEF Quotes
  <2>3. QED
    BY <1>1, <2>1, <2>2
<1>5. CASE ~q.escape
  <2>1. OpenStep(q, a) = [open |-> x, escape |-> y]
    BY <1>3, <1>5
  <2>2. [open |-> x, escape |-> y] \in Quotes
    BY <1>2, Zenon DEF Quotes
  <2>3. OpenStep(q, a).open = x
    BY <2>1
  <2>4. QED
    BY <1>2, <2>1, <2>2, <2>3
<1>6. QED
  BY <1>4, <1>5

LEMMA OpenSteps ==
    ASSUME NEW s \in Seq(Atoms)
    PROVE  \E r \in [0..Len(s) -> Quotes] :
              /\ r[0] = Unquoted
              /\ \A k \in 1..Len(s) : r[k] = OpenStep(r[k - 1], s[k])
              /\ HasOpenQuote(s) = r[Len(s)].open
<1> DEFINE n == Len(s)
           T == Quotes
           Folds(f) == f = [c \in SUBSET DOMAIN s |->
                              IF c = {} THEN Unquoted ELSE OpenStep(f[c \ {Max(c)}], s[Max(c)])]
           iter == CHOOSE f : Folds(f)
           g == [p \in (1..n) \X T |-> OpenStep(p[2], s[p[1]])]
<1>1. HasOpenQuote(s) = iter[DOMAIN s].open
  BY Zenon DEF HasOpenQuote, OpenStep, Unquoted, FoldLeft, MapThenFoldSet
<1>2. n \in Nat /\ DOMAIN s = 1..n /\ \A k \in 1..n : s[k] \in Atoms
  OBVIOUS
<1>3. Unquoted \in T /\ \A x \in T, a \in Atoms : OpenStep(x, a) \in T
  <2>1. Unquoted \in T
    BY DEF Unquoted, Quotes
  <2>2. QED
    BY <2>1, OpenStepType
<1> HIDE DEF n, T
<1>4. /\ g \in [(1..n) \X T -> T]
      /\ \A k \in 1..n, x \in T : g[<<k, x>>] = OpenStep(x, s[k])
  BY <1>2, <1>3
<1> HIDE DEF g
<1>5. \E f : Folds(f)
  <2>1. PICK f : IsRecursive(f, n, T, Unquoted, g)
    BY <1>2, <1>3, <1>4, FoldForm
  <2>2. \A c \in SUBSET (1..n) : f[c] = IF c = {} THEN Unquoted
                                        ELSE OpenStep(f[c \ {Max(c)}], s[Max(c)])
    BY <1>4, <2>1 DEF IsRecursive
  <2>3. f = [c \in SUBSET (1..n) |-> f[c]]
    BY <2>1 DEF IsRecursive
  <2>4. Folds(f)
    BY <1>2, <2>2, <2>3
  <2>5. QED
    BY <2>4
<1>6. Folds(iter)
  <2> HIDE DEF Folds
  <2>1. QED
    BY <1>5
<1> HIDE DEF iter
<1>7. \A c \in SUBSET (1..n) : iter[c] = IF c = {} THEN Unquoted
                                         ELSE OpenStep(iter[c \ {Max(c)}], s[Max(c)])
  BY <1>2, <1>6
<1>8. FoldsInto(iter, n, T, Unquoted, g)
  <2>1. \A c \in SUBSET (1..n) : c # {} => Max(c) \in 1..n
    BY <1>2, MaxInside
  <2>2. {} \in SUBSET (1..n)
    OBVIOUS
  <2>3. QED
    BY <1>4, <1>7, <2>1, <2>2 DEF FoldsInto
<1>9. PICK r : IsRun(r, iter, n, T, Unquoted, g)
  BY <1>2, <1>3, <1>4, <1>8, FoldRuns
<1>10. \A k \in 1..n : r[k] = OpenStep(r[k - 1], s[k])
  <2>1. \A k \in 1..n : r[k - 1] \in T
    BY <1>2, <1>9 DEF IsRun
  <2>2. QED
    BY <1>4, <1>9, <2>1 DEF IsRun
<1>11. QED
  BY <1>1, <1>2, <1>9, <1>10 DEF n, T, IsRun

\* Only a quote opens one.
LEMMA OpenNeedsQuote ==
    ASSUME NEW s \in Seq(Atoms), \A i \in 1..Len(s) : s[i] # Quote
    PROVE  ~HasOpenQuote(s)
<1>1. PICK r \in [0..Len(s) -> Quotes] :
         /\ r[0] = Unquoted
         /\ \A k \in 1..Len(s) : r[k] = OpenStep(r[k - 1], s[k])
         /\ HasOpenQuote(s) = r[Len(s)].open
  BY OpenSteps
<1> DEFINE n == Len(s)
           S == {k \in 0..n : ~r[k].open}
<1>2. n \in Nat
  OBVIOUS
<1>3. 0 \in S
  BY <1>1, <1>2 DEF Unquoted
<1>4. ASSUME NEW k \in 1..n, k - 1 \in S PROVE k \in S
  <2>1. r[k - 1] \in Quotes /\ ~r[k - 1].open /\ r[k] = OpenStep(r[k - 1], s[k]) /\ s[k] # Quote
    BY <1>1, <1>2, <1>4
  <2>2. ~r[k].open
    BY <2>1, OpenStepType
  <2>3. QED
    BY <1>2, <2>2
<1>5. \A k \in 0..n : k \in S
  <2> HIDE DEF S
  <2>1. QED
    BY <1>2, <1>3, <1>4, UpTo
<1>6. n \in S
  BY <1>2, <1>5
<1>7. QED
  BY <1>1, <1>6

LEMMA SchemaNames ==
    ASSUME NEW role \in DOMAIN Schemas
    PROVE  Len(role) = 1 /\ role[1] # Quote /\ role # <<>>
<1>1. DOMAIN Schemas = {<<"EXEC">>, <<"CODER">>, <<"READ">>, <<"PLAN">>}
  BY DEF Schemas
<1>2. \E name \in {"EXEC", "CODER", "READ", "PLAN"} : role = <<name>>
  BY <1>1
<1>3. PICK name \in {"EXEC", "CODER", "READ", "PLAN"} : role = <<name>>
  BY <1>2
<1>4. name # Quote
  BY <1>3 DEF Quote
<1>5. QED
  BY <1>3, <1>4

\* The role that parse() reads.
RoleRead(line) ==
    LET whole == Rebracketed(Requoted(line))
    IN  SubSeq(whole, 2, Find(whole, "]") - 1)

\* It is the one on the line, unless both are no role of a schema.
LEMMA RoleIsRead ==
    ASSUME NEW line \in Seq(Atoms), IsRoleLine(line)
    PROVE  /\ RoleRead(line) # <<>> => RoleOn(line) # <<>>
           /\ RoleOn(line) \in DOMAIN Schemas => RoleRead(line) = RoleOn(line)
<1> DEFINE r == "]"
           n == Len(line)
           b == Find(line, Blank)
           c == Find(line, r)
           end == IF c # 0 THEN c ELSE IF b # 0 THEN b ELSE n + 1
           w == Requoted(line)
           whole == Rebracketed(w)
           e == Find(whole, r)
           wb == Find(w, Blank)
           wc == Find(w, r)
<1>1. n \in Nat /\ b \in 0..n /\ c \in 0..n /\ n >= 1 /\ line[1] = "["
  BY FindPlace DEF IsRoleLine
<1>2. RoleOn(line) = SubSeq(line, 2, end - 1) /\ RoleRead(line) = SubSeq(whole, 2, e - 1)
  BY Zenon DEF RoleOn, RoleRead, Blank
<1>3. w \in Seq(Atoms)
  BY RequotedType DEF Text
<1>4. /\ wc # 0 => e = wc
      /\ wc = 0 /\ wb # 0 => e = wb
      /\ wc = 0 /\ wb = 0 => e = Len(w) + 1
      /\ SubSeq(whole, 2, e - 1) = SubSeq(w, 2, e - 1)
  <2>1. RoleEndsAt(w, whole, e)
    <3> HIDE DEF w
    <3>1. PICK v \in Seq(Atoms) : v = w
      BY <1>3
    <3>2. PICK x : x = Rebracketed(v)
      OBVIOUS
    <3>3. PICK y : y = Find(x, "]")
      OBVIOUS
    <3>4. RoleEndsAt(v, x, y)
      BY <3>2, <3>3, Bracketed
    <3>5. QED
      BY <3>1, <3>2, <3>3, <3>4, Zenon
  <2>2. QED
    BY <2>1, Zenon DEF RoleEndsAt
<1>5. CASE ~HasOpenQuote(line)
  <2>1. w = line
    BY <1>5, Zenon DEF Requoted
  <2>2. wb = b /\ wc = c
    BY <2>1
  <2> HIDE DEF w, whole, wb, wc, b, c
  <2>3. e = end
    BY <1>4, <2>1, <2>2
  <2> HIDE DEF e, end
  <2>4. RoleRead(line) = RoleOn(line)
    BY <1>2, <1>4, <2>1, <2>3
  <2>5. QED
    BY <2>4
<1>6. CASE HasOpenQuote(line)
  <2>1. w = Append(line, Quote)
    BY <1>6, Zenon DEF Requoted
  <2> HIDE DEF w
  <2>2. Len(w) = n + 1 /\ w[n + 1] = Quote /\ \A i \in 1..n : w[i] = line[i]
    BY <1>1, <2>1
  <2>3. Quote # r /\ Quote # Blank
    BY Zenon DEF Quote, Blank
  <2>4. ASSUME NEW a, a # Quote PROVE Find(w, a) = Find(line, a)
    <3>1. CASE Find(line, a) # 0
      <4> DEFINE f == Find(line, a)
      <4>1. f \in 1..n /\ line[f] = a
        BY <1>1, <3>1, FindPlace
      <4>2. \A j \in 1..(f - 1) : line[j] # a
        <5>1. SUFFICES ASSUME NEW j \in 1..(f - 1), line[j] = a PROVE FALSE
          OBVIOUS
        <5>2. j \in 1..n
          BY <1>1, <4>1, <5>1
        <5>3. f \in 1..j
          BY <5>1, <5>2, FindFirst
        <5>4. QED
          BY <4>1, <5>1, <5>3
      <4> HIDE DEF f
      <4>3. f \in 1..Len(w) /\ w[f] = a /\ \A j \in 1..(f - 1) : w[j] # a
        BY <1>1, <2>2, <4>1, <4>2
      <4>4. Find(w, a) = f
        BY <1>3, <4>3, FindIs
      <4>5. QED
        BY <4>4 DEF f
    <3>2. CASE Find(line, a) = 0
      <4>1. Find(w, a) \in 0..Len(w) /\ (Find(w, a) # 0 => w[Find(w, a)] = a)
        BY <1>3, FindPlace
      <4>2. SUFFICES ASSUME NEW f \in 1..Len(w), w[f] = a PROVE FALSE
        BY <2>2, <3>2, <4>1
      <4>3. f \in 1..n /\ line[f] = a
        BY <1>1, <2>2, <2>4, <4>2
      <4>4. Find(line, a) \in 1..f
        BY <4>3, FindFirst
      <4>5. QED
        BY <3>2, <4>4
    <3>3. QED
      BY <3>1, <3>2
  <2>5. wc = c /\ wb = b
    BY <2>3, <2>4
  <2> HIDE DEF whole, wb, wc, b, c
  <2>6. CASE c # 0 \/ b # 0
    <3>1. e = end /\ end \in 1..n
      BY <1>1, <1>4, <2>5, <2>6
    <3> HIDE DEF e, end
    <3>2. SubSeq(w, 2, end - 1) = SubSeq(line, 2, end - 1)
      BY <1>1, <1>3, <2>2, <3>1
    <3>3. QED
      BY <1>2, <1>4, <3>1, <3>2
  <2>7. CASE c = 0 /\ b = 0
    <3>1. end = n + 1
      BY <2>7
    <3> HIDE DEF e, end
    <3>2. RoleOn(line) = SubSeq(line, 2, n)
      BY <1>1, <1>2, <3>1
    <3>3. PICK i \in 1..n : line[i] = Quote
      BY <1>6, OpenNeedsQuote
    <3>4. i # 1
      BY <1>1, <3>3 DEF Quote
    <3> DEFINE t == SubSeq(line, 2, n)
    <3>5. Len(t) = n - 1 /\ \A k \in 1..(n - 1) : t[k] = line[k + 1]
      <4>1. 2 \in 1..(n + 1) /\ n \in (2 - 1)..n
        BY <1>1
      <4>2. Len(t) = n - 2 + 1 /\ \A k \in 1..(n - 2 + 1) : t[k] = line[2 + k - 1]
        BY <4>1, SliceIs
      <4>3. n - 2 + 1 = n - 1 /\ \A k \in Int : 2 + k - 1 = k + 1
        BY <1>1
      <4> HIDE DEF t
      <4>4. QED
        BY <4>2, <4>3
    <3> HIDE DEF t
    <3>6. i - 1 \in 1..(n - 1) /\ t[i - 1] = Quote
      <4>1. i - 1 \in 1..(n - 1) /\ (i - 1) + 1 = i
        BY <1>1, <3>4
      <4>2. QED
        BY <3>3, <3>5, <4>1
    <3>7. t # <<>>
      BY <1>1, <3>5, <3>6
    <3>8. t \notin DOMAIN Schemas
      <4>1. SUFFICES ASSUME t \in DOMAIN Schemas PROVE FALSE
        OBVIOUS
      <4>2. Len(t) = 1 /\ t[1] # Quote
        BY <4>1, SchemaNames
      <4>3. n - 1 = 1 /\ i - 1 \in 1..(n - 1)
        BY <3>5, <3>6, <4>2, Zenon
      <4>4. i - 1 = 1
        <5>1. n \in Nat /\ i \in Nat
          BY <1>1
        <5> HIDE DEF n
        <5>2. QED
          BY <4>3, <5>1
      <4>5. QED
        BY <3>6, <4>2, <4>4
    <3>9. QED
      BY <3>2, <3>7, <3>8 DEF t
  <2>8. QED
    BY <2>6, <2>7
<1>7. QED
  BY <1>5, <1>6

-----------------------------------------------------------------------------
\* Unescaping brings no capability about that the value does not show.

\* What unescaping has put out after k atoms of s: it makes no "cap=" of what is none.
SaysNoMore(u, s, k) ==
    /\ HasCapability(u.out) => HasCapability(s)
    /\ u.out # <<>> /\ u.out[Len(u.out)] = "cap" /\ ~u.escape => k # 0 /\ s[k] = "cap"

IsGrown(more, out, a) ==
    /\ Len(more) = Len(out) + 1 /\ more[Len(out) + 1] = a
    /\ \A i \in 1..Len(out) : more[i] = out[i]

LEMMA GrownBy ==
    ASSUME NEW A, NEW out \in Seq(A), NEW a \in A
    PROVE  IsGrown(Append(out, a), out, a) /\ Append(out, a) \in Seq(A)
  BY DEF IsGrown

LEMMA GrownCapability ==
    ASSUME NEW A, NEW out \in Seq(A), NEW a, NEW more, IsGrown(more, out, a),
           HasCapability(more)
    PROVE  HasCapability(out) \/ (out # <<>> /\ out[Len(out)] = "cap" /\ a = "=")
<1>1. Len(more) = Len(out) + 1 /\ Len(out) \in Nat /\ more[Len(out) + 1] = a
      /\ \A i \in 1..Len(out) : more[i] = out[i]
  BY DEF IsGrown
<1>2. PICK i \in 1..(Len(more) - 1) : more[i] = "cap" /\ more[i + 1] = "="
  BY DEF HasCapability
<1>3. CASE i = Len(out)
  BY <1>1, <1>2, <1>3
<1>4. CASE i # Len(out)
  <2>1. i \in 1..(Len(out) - 1) /\ i \in 1..Len(out) /\ i + 1 \in 1..Len(out)
    BY <1>1, <1>2, <1>4
  <2>2. out[i] = "cap" /\ out[i + 1] = "="
    BY <1>1, <1>2, <2>1
  <2>3. QED
    BY <2>1, <2>2 DEF HasCapability
<1>5. QED
  BY <1>3, <1>4

LEMMA EscapesSayNothing ==
    ASSUME NEW a \in DOMAIN Escapes
    PROVE  Escapes[a] \notin {"cap", "="}
<1>1. a \in {"n", "t", "r", Quote, Backslash}
  BY DEF Escapes
<1>2. Escapes[a] = "newline" \/ Escapes[a] = "tab" \/ Escapes[a] = "cr" \/ Escapes[a] = a
  BY <1>1, Zenon DEF Escapes
<1>3. CASE Escapes[a] = a
  BY <1>1, <1>3 DEF Quote, Backslash
<1>4. QED
  BY <1>2, <1>3

LEMMA UnescapeStepSays ==
    ASSUME NEW s \in Seq(Atoms), NEW k \in 1..Len(s), NEW u \in Unescapes, SaysNoMore(u, s, k - 1),
           NEW v, v = UnescapeStep(u, s[k])
    PROVE  SaysNoMore(v, s, k)
<1> DEFINE a == s[k]
           out == u.out
<1>1. /\ out \in Seq(Atoms) /\ u.escape \in BOOLEAN /\ a \in Atoms /\ k \in Nat /\ k # 0
      /\ Len(s) \in Nat /\ Len(out) \in Nat
      /\ u = [escape |-> u.escape, out |-> out]
      /\ HasCapability(out) => HasCapability(s)
      /\ out # <<>> /\ out[Len(out)] = "cap" /\ ~u.escape => k - 1 # 0 /\ s[k - 1] = "cap"
  BY DEF Unescapes, SaysNoMore
<1>2. v = IF u.escape
          THEN [escape |-> FALSE,
                out |-> out \o (IF a \in DOMAIN Escapes THEN <<Escapes[a]>>
                                ELSE <<Backslash, a>>)]
          ELSE IF a = Backslash THEN [u EXCEPT !.escape = TRUE]
          ELSE [u EXCEPT !.out = Append(@, a)]
  BY Zenon DEF UnescapeStep
<1>3. Backslash \in Atoms /\ Backslash \notin {"cap", "="}
  BY DEF Backslash, Atoms, Punctuation
<1> HIDE DEF a, out
<1>4. CASE u.escape /\ a \in DOMAIN Escapes
  <2> DEFINE x == Escapes[a]
             more == Append(out, x)
  <2>1. x \in Atoms /\ x \notin {"cap", "="}
    BY <1>4, EscapesSayNothing DEF Escapes, Atoms, Punctuation, White, Quote, Backslash
  <2>2. v = [escape |-> FALSE, out |-> out \o <<x>>]
    BY <1>2, <1>4
  <2> HIDE DEF x
  <2>3. out \o <<x>> = more /\ more \in Seq(Atoms) /\ Len(more) = Len(out) + 1
        /\ more[Len(out) + 1] = x
    BY <1>1, <2>1
  <2>4. v.out = more
    BY <2>2, <2>3
  <2> HIDE DEF more
  <2>5. HasCapability(more) => HasCapability(out)
    <3>1. IsGrown(more, out, x)
      BY <1>1, <2>1, GrownBy DEF more
    <3>2. QED
      BY <1>1, <2>1, <3>1, GrownCapability
  <2>6. more[Len(more)] # "cap"
    BY <2>1, <2>3
  <2>7. QED
    BY <1>1, <2>4, <2>5, <2>6 DEF SaysNoMore
<1>5. CASE u.escape /\ a \notin DOMAIN Escapes
  <2> DEFINE more == Append(out, Backslash)
             most == Append(more, a)
  <2>1. v = [escape |-> FALSE, out |-> out \o <<Backslash, a>>]
    BY <1>2, <1>5
  <2>2. out \o <<Backslash, a>> = most /\ most \in Seq(Atoms) /\ more \in Seq(Atoms)
        /\ Len(more) = Len(out) + 1 /\ more[Len(out) + 1] = Backslash
        /\ Len(most) = Len(more) + 1 /\ most[Len(more) + 1] = a
    BY <1>1, <1>3
  <2>3. v.out = most /\ v.escape = FALSE
    BY <2>1, <2>2
  <2> HIDE DEF more, most
  <2>4. HasCapability(most) => HasCapability(more)
    <3>1. more[Len(more)] # "cap"
      BY <1>3, <2>2
    <3>2. IsGrown(most, more, a)
      BY <1>1, <2>2, GrownBy DEF most
    <3>3. QED
      BY <2>2, <3>1, <3>2, GrownCapability
  <2>5. HasCapability(more) => HasCapability(out)
    <3>1. Backslash # "="
      BY <1>3
    <3>2. IsGrown(more, out, Backslash)
      BY <1>1, <1>3, GrownBy DEF more
    <3>3. QED
      BY <1>1, <3>1, <3>2, GrownCapability
  <2>6. most[Len(most)] = a
    BY <2>2
  <2>7. QED
    BY <1>1, <2>3, <2>4, <2>5, <2>6 DEF SaysNoMore, a
<1>6. CASE ~u.escape /\ a = Backslash
  <2>1. v.out = out /\ v.escape = TRUE
    BY <1>1, <1>2, <1>6
  <2>2. QED
    BY <1>1, <2>1 DEF SaysNoMore
<1>7. CASE ~u.escape /\ a # Backslash
  <2> DEFINE more == Append(out, a)
  <2>1. v.out = more /\ v.escape = FALSE
    BY <1>1, <1>2, <1>7
  <2>2. more \in Seq(Atoms) /\ Len(more) = Len(out) + 1 /\ more[Len(out) + 1] = a
    BY <1>1
  <2> HIDE DEF more
  <2>3. ASSUME HasCapability(more) PROVE HasCapability(s)
    <3>1. CASE HasCapability(out)
      BY <1>1, <3>1, Zenon
    <3>2. CASE out # <<>> /\ out[Len(out)] = "cap" /\ a = "="
      <4>1. k - 1 # 0 /\ s[k - 1] = "cap"
        BY <1>1, <1>7, <3>2
      <4>2. k - 1 \in 1..(Len(s) - 1) /\ (k - 1) + 1 = k
        BY <1>1, <4>1
      <4>3. s[(k - 1) + 1] = "="
        BY <3>2, <4>2 DEF a
      <4>4. QED
        BY <4>1, <4>2, <4>3 DEF HasCapability
    <3>3. IsGrown(more, out, a)
      BY <1>1, GrownBy DEF more
    <3>4. QED
      BY <1>1, <2>3, <3>1, <3>2, <3>3, GrownCapability
  <2>4. more[Len(more)] = a
    BY <2>2
  <2>5. QED
    BY <1>1, <2>1, <2>3, <2>4 DEF SaysNoMore, a
<1>8. QED
  BY <1>1, <1>4, <1>5, <1>6, <1>7

LEMMA UnescapedSays ==
    ASSUME NEW s \in Seq(Atoms), HasCapability(Unescaped(s).out)
    PROVE  HasCapability(s)
<1>1. PICK r \in [0..Len(s) -> Unescapes] :
         /\ r[0] = NothingOut
         /\ \A k \in 1..Len(s) : r[k] = UnescapeStep(r[k - 1], s[k])
         /\ Unescaped(s) = r[Len(s)]
  BY UnescapedSteps DEF Text
<1> DEFINE n == Len(s)
           S == {k \in 0..n : SaysNoMore(r[k], s, k)}
<1>2. n \in Nat
  OBVIOUS
<1>3. 0 \in S
  <2>1. r[0].out = <<>>
    BY <1>1 DEF NothingOut
  <2>2. ~HasCapability(<<>>)
    BY DEF HasCapability
  <2>3. SaysNoMore(r[0], s, 0)
    BY <2>1, <2>2 DEF SaysNoMore
  <2>4. QED
    BY <1>2, <2>3
<1>4. ASSUME NEW k \in 1..n, k - 1 \in S PROVE k \in S
  <2>1. /\ r[k - 1] \in Unescapes /\ SaysNoMore(r[k - 1], s, k - 1)
        /\ r[k] = UnescapeStep(r[k - 1], s[k])
    BY <1>1, <1>2, <1>4
  <2>2. SaysNoMore(r[k], s, k)
    BY <2>1, UnescapeStepSays
  <2>3. QED
    BY <1>2, <2>2
<1>5. \A k \in 0..n : k \in S
  <2> HIDE DEF S
  <2>1. QED
    BY <1>2, <1>3, <1>4, UpTo
<1>6. n \in S
  BY <1>2, <1>5
<1>7. SaysNoMore(r[n], s, n)
  BY <1>6
<1>8. QED
  BY <1>1, <1>7 DEF SaysNoMore

LEMMA NoCapabilityGrown ==
    ASSUME NEW out \in Seq(Atoms), NEW a \in Atoms, a # "=", NEW more, more = Append(out, a),
           HasCapability(more)
    PROVE  HasCapability(out)
<1>1. IsGrown(more, out, a)
  BY GrownBy
<1>2. QED
  BY <1>1, GrownCapability

LEMMA UnquoteSays ==
    ASSUME NEW v \in Seq(Atoms), HasCapability(unquote_and_unescape(v))
    PROVE  HasCapability(v)
<1> DEFINE s == SubSeq(v, 2, Len(v) - 1)
           inner == Unescaped(s)
           w == unquote_and_unescape(v)
<1>1. w = IF Len(v) < 2 \/ Head(v) # Quote \/ Last(v) # Quote THEN v
          ELSE IF inner.escape THEN Append(inner.out, Backslash)
          ELSE inner.out
  BY Zenon DEF unquote_and_unescape, Unescaped
<1>2. s \in Seq(Atoms) /\ Len(v) \in Nat
  <2>1. Len(v) \in Nat /\ Len(v) - 1 \in Int /\ Len(v) - 1 <= Len(v)
    OBVIOUS
  <2>2. QED
    BY <2>1, SubSeqType
<1>3. HasCapability(w)
  OBVIOUS
<1>4. inner.out \in Seq(Atoms) /\ Backslash \in Atoms /\ Backslash # "="
  BY <1>2, UnescapedType DEF Unescapes, Atoms, Punctuation, White, Backslash, Text
<1>5. HasCapability(inner.out) => HasCapability(s)
  BY <1>2, UnescapedSays
<1> HIDE DEF inner, w
<1>6. CASE w = v
  BY <1>3, <1>6
<1>7. CASE w # v
  <2>1. ~(Len(v) < 2)
    BY <1>1, <1>7
  <2>2. HasCapability(inner.out)
    <3> DEFINE more == Append(inner.out, Backslash)
    <3>1. w = inner.out \/ w = more
      BY <1>1, <1>7
    <3>2. PICK o : o = inner.out
      OBVIOUS
    <3>3. PICK z : z = more
      OBVIOUS
    <3> HIDE DEF more
    <3>4. o \in Seq(Atoms) /\ z = Append(o, Backslash)
      BY <1>4, <3>2, <3>3 DEF more
    <3>5. HasCapability(z) => HasCapability(o)
      BY <1>4, <3>4, NoCapabilityGrown
    <3>6. HasCapability(more) => HasCapability(inner.out)
      BY <3>2, <3>3, <3>5, Zenon
    <3>7. QED
      BY <1>3, <3>1, <3>6, Zenon
  <2>3. Inside(s, v)
    <3>1. Len(s) = Len(v) - 2 /\ \A i \in 1..Len(s) : s[i] = v[1 + i]
      <4>1. 2 \in 1..(Len(v) + 1) /\ Len(v) - 1 \in (2 - 1)..Len(v)
        BY <1>2, <2>1
      <4>2. /\ Len(s) = (Len(v) - 1) - 2 + 1
            /\ \A i \in 1..((Len(v) - 1) - 2 + 1) : s[i] = v[2 + i - 1]
        BY <4>1, SliceIs
      <4>3. (Len(v) - 1) - 2 + 1 = Len(v) - 2 /\ \A i \in Int : 2 + i - 1 = 1 + i
        BY <1>2
      <4> HIDE DEF s
      <4>4. QED
        BY <4>2, <4>3
    <3> HIDE DEF s
    <3>2. 1 \in 0..Len(v) /\ 1 + Len(s) <= Len(v)
      BY <1>2, <2>1, <3>1
    <3>3. QED
      BY <3>1, <3>2 DEF Inside
  <2> HIDE DEF s
  <2>4. QED
    BY <1>2, <1>5, <2>2, <2>3, InsideSays
<1>8. QED
  BY <1>6, <1>7

-----------------------------------------------------------------------------
\* The pairs and the tool name that are read of a line.

\* A pair whose name is one word was there before, or the line mentions that word; and
\* it holds no capability that the line does not.
PairsTold(line, m, pairs) ==
    \A x : <<x>> \in DOMAIN pairs =>
        \/ <<x>> \in DOMAIN m /\ pairs[<<x>>] = m[<<x>>]
        \/ Mentions(line, x) /\ (HasCapability(pairs[<<x>>]) => HasCapability(line))

\* A token that stands in a line and has a name of one word.
LEMMA TokenSays ==
    ASSUME NEW line \in Seq(Atoms), NEW token \in Seq(Atoms), StandsIn(line, token),
           NEW sep, sep = Separator(token), sep # 0, NEW x, Before(token, sep) = <<x>>
    PROVE  /\ Mentions(line, x)
           /\ HasCapability(After(token, sep)) => HasCapability(line)
<1>1. PICK a \in 1..Len(line), b \in 1..Len(line) : StandsAt(line, token, a, b)
  BY DEF StandsIn
<1>2. /\ a \in 1..Len(line) /\ b \in a..Len(line) /\ Len(token) = b - a + 1
      /\ \A j \in 1..Len(token) : token[j] = line[a + j - 1]
      /\ Len(line) \in Nat /\ a \in Nat /\ b \in Nat
  BY <1>1 DEF StandsAt
<1>3. sep \in 1..Len(token) /\ token[sep] \in {":", "="}
  BY <1>2, SeparatorPlace
<1>4. sep = 2 /\ token[1] = x
  <2> DEFINE key == SubSeq(token, 1, sep - 1)
  <2>1. key = <<x>>
    BY DEF Before
  <2>2. Len(key) = sep - 1 /\ \A i \in 1..(sep - 1) : key[i] = token[i]
    BY <1>2, <1>3
  <2> HIDE DEF key
  <2>3. Len(key) = 1 /\ key[1] = x
    BY <2>1
  <2>4. sep - 1 = 1 /\ sep \in Nat
    <3>1. sep \in Nat
      BY <1>2, <1>3
    <3>2. sep - 1 = 1
      BY <2>2, <2>3, Zenon
    <3>3. QED
      BY <3>1, <3>2
  <2>5. 1 \in 1..(sep - 1)
    BY <2>4
  <2>6. key[1] = token[1]
    BY <2>2, <2>5, Zenon
  <2>7. QED
    BY <2>3, <2>4, <2>6
<1>5. Inside(token, line)
  <2>1. a - 1 \in 0..Len(line) /\ (a - 1) + Len(token) <= Len(line)
    BY <1>2
  <2>2. \A j \in 1..Len(token) : token[j] = line[(a - 1) + j]
    <3>1. \A j \in 1..Len(token) : a + j - 1 = (a - 1) + j
      BY <1>2
    <3>2. QED
      BY <1>2, <3>1
  <2>3. QED
    BY <2>1, <2>2 DEF Inside
<1>6. Mentions(token, x)
  <2>1. 1 \in 1..(Len(token) - 1) /\ token[1 + 1] \in {":", "="}
    BY <1>2, <1>3, <1>4
  <2>2. QED
    BY <1>4, <2>1 DEF Mentions
<1>7. After(token, sep) \in Seq(Atoms) /\ Inside(After(token, sep), token)
  <2>1. sep + 1 \in 1..(Len(token) + 1) /\ sep \in 0..Len(token)
    BY <1>2, <1>3
  <2>2. Inside(SubSeq(token, sep + 1, Len(token)), token)
    BY <2>1, SliceInside
  <2>3. QED
    BY <2>1, <2>2, PartsType DEF After
<1>8. QED
  BY <1>5, <1>6, <1>7, InsideSays

LEMMA StoreStepTells ==
    ASSUME NEW line \in Seq(Atoms), NEW token \in Seq(Atoms), StandsIn(line, token),
           NEW m, NEW r, PairsTold(line, m, r.pairs),
           r \in Storing(Atoms)
    PROVE  PairsTold(line, m, StoreStep(r, token, TRUE).pairs)
<1> DEFINE sep == Separator(token)
           key == Before(token, sep)
           back == After(token, sep)
           value == unquote_and_unescape(back)
           more == WithPair(r.pairs, key, value)
<1>0. PICK q : q = StoreStep(r, token, TRUE)
  OBVIOUS
<1> SUFFICES PairsTold(line, m, q.pairs)
  BY <1>0, Zenon
<1>1. q = IF sep = 0 THEN [r EXCEPT !.errors = @ \cup {"malformed"}]
          ELSE [pairs |-> more,
                errors |-> r.errors \cup ErrorIf(key \in DOMAIN r.pairs, "duplicate")]
  BY <1>0, Zenon DEF StoreStep, Stored, Cut
<1>2. r = [pairs |-> r.pairs, errors |-> r.errors]
  BY DEF Storing
<1>3. sep \in 0..Len(token) /\ back \in Seq(Atoms)
  BY SeparatorPlace, PartsType
<1>4. CASE sep = 0
  <2>1. q.pairs = r.pairs
    BY <1>1, <1>2, <1>4
  <2>2. QED
    BY <2>1, Zenon
<1>5. CASE sep # 0
  <2>1. ASSUME NEW x, key = <<x>>
        PROVE  Mentions(line, x) /\ (HasCapability(value) => HasCapability(line))
    <3>1. Mentions(line, x) /\ (HasCapability(back) => HasCapability(line))
      <4>1. PICK s : s = Separator(token)
        OBVIOUS
      <4>2. s # 0 /\ Before(token, s) = <<x>> /\ After(token, s) = back
        BY <1>5, <2>1, <4>1, Zenon
      <4> HIDE DEF sep, back
      <4>3. Mentions(line, x) /\ (HasCapability(After(token, s)) => HasCapability(line))
        BY <4>1, <4>2, TokenSays
      <4>4. QED
        BY <4>2, <4>3, Zenon
    <3> HIDE DEF back
    <3>2. HasCapability(value) => HasCapability(back)
      BY <1>3, UnquoteSays
    <3>3. QED
      BY <3>1, <3>2
  <2>2. q.pairs = more
    <3> HIDE DEF sep, key, more
    <3>1. \E errors : q = [pairs |-> more, errors |-> errors]
      BY <1>1, <1>5, Zenon
    <3>2. QED
      BY <3>1
  <2> HIDE DEF key, value
  <2>3. /\ DOMAIN more = {key} \cup DOMAIN r.pairs
        /\ \A k \in DOMAIN more : more[k] = IF k = key THEN value ELSE r.pairs[k]
    BY DEF WithPair
  <2> HIDE DEF more
  <2>4. ASSUME NEW x, <<x>> \in DOMAIN more
        PROVE  \/ <<x>> \in DOMAIN m /\ more[<<x>>] = m[<<x>>]
               \/ Mentions(line, x) /\ (HasCapability(more[<<x>>]) => HasCapability(line))
    <3>1. PICK k : k = <<x>>
      OBVIOUS
    <3>2. CASE k = key
      BY <2>1, <2>3, <2>4, <3>1, <3>2
    <3>3. CASE k # key
      <4>1. k \in DOMAIN r.pairs /\ more[k] = r.pairs[k]
        BY <2>3, <2>4, <3>1, <3>3
      <4>2. \/ k \in DOMAIN m /\ r.pairs[k] = m[k]
            \/ Mentions(line, x) /\ (HasCapability(r.pairs[k]) => HasCapability(line))
        BY <3>1, <4>1, Zenon DEF PairsTold
      <4>3. QED
        BY <3>1, <4>1, <4>2
    <3>4. QED
      BY <3>2, <3>3
  <2>5. PairsTold(line, m, more)
    BY <2>4, Zenon DEF PairsTold
  <2>6. QED
    BY <2>2, <2>5, Zenon
<1>6. QED
  BY <1>4, <1>5

\* What a line adds to the pairs, it mentions.
LEMMA ParsedTells ==
    ASSUME NEW line \in Seq(Atoms), NEW m \in Maps(Atoms)
    PROVE  PairsTold(line, m, parseKVPairs(line, m).pairs)
<1> DEFINE tokens == lex_split(line, Blank)
           n == Len(tokens)
           onto == Onto(m)
           yes == TRUE
<1>1. parseKVPairs(line, m) = StoredAll(tokens, onto, yes)
  BY Zenon DEF parseKVPairs, StoredAll, Blank
<1>2. tokens \in Seq(Seq(Atoms)) /\ \A k \in 1..n : StandsIn(line, tokens[k])
  BY TokensStand
<1> HIDE DEF tokens
<1>3. onto \in Storing(Atoms) /\ onto.pairs = m
  BY OntoType DEF Onto
<1> HIDE DEF onto
<1>4. PICK r \in [0..n -> Storing(Atoms)] :
         /\ r[0] = onto
         /\ \A k \in 1..n : r[k] = StoreStep(r[k - 1], tokens[k], yes)
         /\ StoredAll(tokens, onto, yes) = r[n]
  BY <1>2, <1>3, StoredAllSteps DEF Text
<1> DEFINE S == {k \in 0..n : PairsTold(line, m, r[k].pairs)}
<1>5. n \in Nat /\ \A k \in 1..n : tokens[k] \in Seq(Atoms)
  BY <1>2
<1> HIDE DEF n
<1>6. 0 \in S
  <2>1. PairsTold(line, m, m)
    BY DEF PairsTold
  <2>2. QED
    BY <1>3, <1>4, <1>5, <2>1
<1>7. ASSUME NEW k \in 1..n, k - 1 \in S PROVE k \in S
  <2>1. /\ r[k - 1] \in Storing(Atoms) /\ PairsTold(line, m, r[k - 1].pairs)
        /\ r[k] = StoreStep(r[k - 1], tokens[k], TRUE)
        /\ tokens[k] \in Seq(Atoms) /\ StandsIn(line, tokens[k])
    BY <1>2, <1>4, <1>5, <1>7
  <2>2. PairsTold(line, m, r[k].pairs)
    <3>1. PairsTold(line, m, StoreStep(r[k - 1], tokens[k], TRUE).pairs)
      BY <2>1, StoreStepTells
    <3>2. QED
      BY <2>1, <3>1, Zenon
  <2>3. QED
    BY <1>5, <2>2
<1>8. \A k \in 0..n : k \in S
  <2> HIDE DEF S
  <2>1. QED
    BY <1>5, <1>6, <1>7, UpTo
<1>9. n \in S
  BY <1>5, <1>8
<1>10. PairsTold(line, m, r[n].pairs)
  BY <1>9
<1>11. QED
  BY <1>1, <1>4, <1>10

\* The name that parse() reads on a tool line.
ToolRead(line) == parseToolCall(Requoted(line)).call.name

LEMMA ToolIsRead ==
    ASSUME NEW line \in Seq(Atoms), IsToolLine(line), NEW t, t # Quote, ToolRead(line) = <<t>>
    PROVE  Calls(line, t)
<1> DEFINE w == Requoted(line)
           n == Len(line)
<1>1. w \in Seq(Atoms) /\ n \in Nat /\ Len(w) \in Nat
  BY RequotedType DEF Text
<1>2. /\ Len(w) >= n /\ \A i \in 1..n : w[i] = line[i]
      /\ \A i \in 1..Len(w) : i <= n \/ w[i] = Quote
  <2>1. CASE w = line
    BY <1>1, <2>1
  <2>2. CASE w # line
    <3>1. w = Append(line, Quote)
      BY <2>2, Zenon DEF Requoted
    <3> HIDE DEF w
    <3>2. Len(w) = n + 1 /\ w[n + 1] = Quote /\ \A i \in 1..n : w[i] = line[i]
      BY <1>1, <3>1
    <3>3. QED
      BY <1>1, <3>2
  <2>3. QED
    BY <2>1, <2>2
<1> HIDE DEF w
<1>3. PICK e \in 0..Len(w) : ToolRead(line) = trim(SubSeq(w, 2, e))
  <2> DEFINE start  == Find(w, "[")
             end    == IF start = 0 THEN 0 ELSE BracketEnd(w, start)
             behind == Find(After(w, end), ">")
             marker == IF start = 0 THEN Find(w, ">")
                       ELSE IF end = 0 \/ behind = 0 THEN 0 ELSE end + behind
             nameTo == IF start # 0 THEN start ELSE IF marker # 0 THEN marker ELSE Len(w) + 1
  <2>1. ToolRead(line) = trim(SubSeq(w, 2, nameTo - 1))
    BY Zenon DEF ToolRead, parseToolCall, w
  <2>2. start \in 0..Len(w) /\ Find(w, ">") \in 0..Len(w)
    BY <1>1, FindPlace
  <2>3. nameTo \in 1..(Len(w) + 1)
    <3> HIDE DEF start, end
    <3>1. QED
      BY <1>1, <2>2
  <2> HIDE DEF nameTo
  <2>4. nameTo - 1 \in 0..Len(w)
    BY <1>1, <2>3
  <2>5. QED
    BY <2>1, <2>4
<1> DEFINE z == SubSeq(w, 2, e)
<1>4. z \in Seq(Atoms)
  BY <1>1, SubSeqType
<1>5. trim(z) = <<t>>
  BY <1>3
<1>6. e >= 1 /\ Len(z) = e - 1 /\ \A i \in 1..(e - 1) : z[i] = w[i + 1]
  <2>1. CASE e = 0
    <3>1. z = <<>>
      BY <1>1, <2>1
    <3>2. {i \in DOMAIN z : z[i] \notin White} = {}
      BY <3>1
    <3>3. trim(z) = <<>>
      BY <3>2, Zenon DEF trim
    <3>4. QED
      BY <1>5, <3>3
  <2>2. CASE e # 0
    <3>1. 2 \in 1..(Len(w) + 1) /\ e \in (2 - 1)..Len(w)
      BY <1>1, <2>2
    <3>2. Len(z) = e - 2 + 1 /\ \A i \in 1..(e - 2 + 1) : z[i] = w[2 + i - 1]
      BY <1>1, <3>1, SliceIs
    <3> HIDE DEF z
    <3>3. e - 2 + 1 = e - 1 /\ \A i \in Int : 2 + i - 1 = i + 1
      BY <1>1
    <3>4. QED
      BY <2>2, <3>2, <3>3
  <2>3. QED
    BY <2>1, <2>2
<1> HIDE DEF z
<1>7. PICK q \in 1..Len(z) : z[q] \notin White
  <2>1. SUFFICES ASSUME \A q \in 1..Len(z) : z[q] \in White PROVE FALSE
    OBVIOUS
  <2>2. {i \in DOMAIN z : z[i] \notin White} = {}
    BY <1>4, <2>1
  <2>3. trim(z) = <<>>
    BY <2>2, Zenon DEF trim
  <2>4. QED
    BY <1>5, <2>3
<1>8. PICK a \in 1..Len(z), b \in 1..Len(z) :
         /\ a <= b /\ trim(z) = SubSeq(z, a, b)
         /\ \A i \in 1..Len(z) : z[i] \notin White => a <= i /\ i <= b
  BY <1>4, <1>7, TrimSpans
<1>9. z[a] = t
  <2>1. a \in 1..(Len(z) + 1) /\ b \in (a - 1)..Len(z)
    BY <1>1, <1>6, <1>8
  <2>2. Len(SubSeq(z, a, b)) = b - a + 1
        /\ \A i \in 1..(b - a + 1) : SubSeq(z, a, b)[i] = z[a + i - 1]
    BY <1>4, <2>1, SliceIs
  <2> DEFINE one == <<t>>
  <2>3. SubSeq(z, a, b) = one
    BY <1>5, <1>8
  <2>4. Len(one) = 1 /\ one[1] = t
    OBVIOUS
  <2> HIDE DEF one
  <2>5. 1 \in 1..(b - a + 1) /\ a + 1 - 1 = a
    BY <1>1, <1>6, <1>8
  <2>6. one[1] = z[a + 1 - 1]
    BY <2>2, <2>3, <2>5, Zenon
  <2>7. QED
    BY <2>4, <2>5, <2>6
<1>10. a + 1 \in 2..n /\ line[a + 1] = t
  <2>1. w[a + 1] = t /\ a + 1 \in 1..Len(w)
    BY <1>1, <1>6, <1>8, <1>9
  <2>2. a + 1 <= n
    BY <1>2, <2>1
  <2>3. QED
    BY <1>1, <1>2, <1>8, <2>1, <2>2
<1>11. ASSUME NEW j \in 2..((a + 1) - 1) PROVE line[j] \in White
  <2>1. j - 1 \in 1..Len(z) /\ j - 1 < a /\ j \in 1..n /\ (j - 1) + 1 = j /\ j - 1 \in 1..(e - 1)
    BY <1>1, <1>6, <1>8, <1>10, <1>11
  <2>2. z[j - 1] = line[j]
    BY <1>2, <1>6, <2>1
  <2>3. z[j - 1] \in White
    BY <1>8, <2>1
  <2>4. QED
    BY <2>2, <2>3
<1>12. QED
  BY <1>10, <1>11 DEF Calls

-----------------------------------------------------------------------------
\* What a statement holds comes from its lines.

\* Line m of s is not above its role line.
Beneath(payload, s, m) == m \in s.lines /\ \A n \in RoleLinesIn(payload, s.lines) : n <= m

\* The role is the one on the role line, each pair with a name of one word and each
\* capability stands on a line beneath it, each tool line beneath it has its call, and no
\* role line lies between.
Backed(payload, s) ==
    /\ \A n \in RoleLinesIn(payload, s.lines) : s.role = RoleRead(trim(payload[n]))
    /\ \A x : <<x>> \in DOMAIN s.kvpairs =>
          /\ \E m : Beneath(payload, s, m) /\ Mentions(trim(payload[m]), x)
          /\ HasCapability(s.kvpairs[<<x>>]) =>
                \E m : Beneath(payload, s, m) /\ HasCapability(trim(payload[m]))
    /\ \A m \in ToolLinesIn(payload, s.lines) :
          /\ Beneath(payload, s, m)
          /\ \E call \in Entries(s.tool_calls) : call.name = ToolRead(trim(payload[m]))
    /\ \A n \in RoleLinesIn(payload, s.lines), m \in s.lines, r \in Nat :
          n < r /\ r <= m => ~IsRoleLine(trim(payload[r]))

\* No role line was read since the one of the statement at hand.
Latest(payload, s, at) ==
    \A n \in RoleLinesIn(payload, s.lines), r \in Nat :
        n < r /\ r <= at => ~IsRoleLine(trim(payload[r]))

LEMMA EmptyBacked ==
    ASSUME NEW payload, NEW at
    PROVE  Backed(payload, EmptyStatement) /\ Latest(payload, EmptyStatement, at)
<1> DEFINE e == EmptyStatement
<1>1. e.lines = {} /\ DOMAIN e.kvpairs = {}
  BY DEF EmptyStatement, NoPairs
<1> HIDE DEF e
<1>2. RoleLinesIn(payload, e.lines) = {} /\ ToolLinesIn(payload, e.lines) = {}
  BY <1>1, Zenon DEF RoleLinesIn, ToolLinesIn
<1>3. Backed(payload, e)
  BY <1>1, <1>2, Zenon DEF Backed
<1>4. Latest(payload, e, at)
  BY <1>2, Zenon DEF Latest
<1>5. QED
  BY <1>3, <1>4 DEF e

\* A statement s that got line n, which is the next one, where it was c.
LEMMA GrownBacked ==
    ASSUME NEW payload, NEW at \in Nat, NEW c, c.lines \subseteq 2..at, Backed(payload, c),
           Latest(payload, c, at), NEW n, n = at + 1, NEW line, line = trim(payload[n]),
           NEW s, s.lines = c.lines \cup {n},
           IsRoleLine(line) =>
              /\ RoleLinesIn(payload, c.lines) = {} /\ ToolLinesIn(payload, c.lines) = {}
              /\ DOMAIN c.kvpairs = {} /\ s.role = RoleRead(line),
           ~IsRoleLine(line) => s.role = c.role,
           PairsTold(line, c.kvpairs, s.kvpairs),
           Entries(c.tool_calls) \subseteq Entries(s.tool_calls),
           IsToolLine(line) => \E call \in Entries(s.tool_calls) : call.name = ToolRead(line)
    PROVE  Backed(payload, s) /\ Latest(payload, s, n)
<1> DEFINE R(lines) == RoleLinesIn(payload, lines)
           T(lines) == ToolLinesIn(payload, lines)
<1>1. /\ \A k : k \in R(s.lines) <=> k \in R(c.lines) \/ (k = n /\ IsRoleLine(line))
      /\ \A k : k \in T(s.lines) <=> k \in T(c.lines) \/ (k = n /\ IsToolLine(line))
  <2>1. \A k : k \in s.lines <=> k \in c.lines \/ k = n
    OBVIOUS
  <2>2. \A lines : \A k : k \in R(lines) <=> k \in lines /\ IsRoleLine(trim(payload[k]))
    BY Zenon DEF RoleLinesIn
  <2>3. \A lines : \A k : k \in T(lines) <=> k \in lines /\ IsToolLine(trim(payload[k]))
    BY Zenon DEF ToolLinesIn
  <2>4. \A k : k \in R(s.lines) <=> k \in R(c.lines) \/ (k = n /\ IsRoleLine(line))
    BY <2>1, <2>2, Zenon
  <2>5. \A k : k \in T(s.lines) <=> k \in T(c.lines) \/ (k = n /\ IsToolLine(line))
    BY <2>1, <2>3, Zenon
  <2>6. QED
    BY <2>4, <2>5
<1>2. R(c.lines) \subseteq c.lines /\ T(c.lines) \subseteq c.lines
  BY Zenon DEF RoleLinesIn, ToolLinesIn
<1>3. /\ n \in s.lines /\ n \in Nat
      /\ \A m \in c.lines : m \in s.lines /\ m \in Nat /\ m < n
      /\ \A m \in s.lines : m \in Nat /\ m <= n
  OBVIOUS
<1>4. ~(IsRoleLine(line) /\ IsToolLine(line))
  BY OneKindOfLine
<1>5. Beneath(payload, s, n)
  <2>1. \A m \in R(s.lines) : m <= n
    BY <1>1, <1>2, <1>3
  <2>2. QED
    BY <1>3, <2>1 DEF Beneath
<1>6. ASSUME NEW m, Beneath(payload, c, m), ~IsRoleLine(line) PROVE Beneath(payload, s, m)
  <2>1. m \in c.lines /\ \A k \in R(c.lines) : k <= m
    BY <1>6, Zenon DEF Beneath
  <2>2. \A k \in R(s.lines) : k <= m
    BY <1>1, <1>6, <2>1, Zenon
  <2>3. m \in s.lines
    BY <1>3, <2>1
  <2>4. QED
    BY <2>2, <2>3, Zenon DEF Beneath
<1>7. \A k \in R(s.lines) : s.role = RoleRead(trim(payload[k]))
  <2>1. CASE IsRoleLine(line)
    <3>1. R(c.lines) = {} /\ s.role = RoleRead(line)
      BY <2>1, Zenon
    <3>2. \A k \in R(s.lines) : k = n
      BY <1>1, <3>1, Zenon
    <3>3. QED
      BY <3>1, <3>2, Zenon
  <2>2. CASE ~IsRoleLine(line)
    <3>1. s.role = c.role /\ \A k \in R(c.lines) : c.role = RoleRead(trim(payload[k]))
      BY <2>2, Zenon DEF Backed
    <3>2. QED
      BY <1>1, <2>2, <3>1, Zenon
  <2>3. QED
    BY <2>1, <2>2
<1>8. ASSUME NEW x, <<x>> \in DOMAIN s.kvpairs
      PROVE  /\ \E m : Beneath(payload, s, m) /\ Mentions(trim(payload[m]), x)
             /\ HasCapability(s.kvpairs[<<x>>]) =>
                   \E m : Beneath(payload, s, m) /\ HasCapability(trim(payload[m]))
  <2>1. \/ <<x>> \in DOMAIN c.kvpairs /\ s.kvpairs[<<x>>] = c.kvpairs[<<x>>]
        \/ Mentions(line, x) /\ (HasCapability(s.kvpairs[<<x>>]) => HasCapability(line))
    BY <1>8, Zenon DEF PairsTold
  <2>2. CASE <<x>> \in DOMAIN c.kvpairs /\ s.kvpairs[<<x>>] = c.kvpairs[<<x>>]
    <3>1. ~IsRoleLine(line)
      BY <2>2
    <3>2. \E m : Beneath(payload, c, m) /\ Mentions(trim(payload[m]), x)
      BY <2>2, Zenon DEF Backed
    <3>3. HasCapability(c.kvpairs[<<x>>]) =>
             \E m : Beneath(payload, c, m) /\ HasCapability(trim(payload[m]))
      BY <2>2, Zenon DEF Backed
    <3>4. QED
      BY <1>6, <2>2, <3>1, <3>2, <3>3, Zenon
  <2>3. CASE Mentions(line, x) /\ (HasCapability(s.kvpairs[<<x>>]) => HasCapability(line))
    BY <1>5, <2>3, Zenon
  <2>4. QED
    BY <2>1, <2>2, <2>3
<1>9. ASSUME NEW m \in T(s.lines)
      PROVE  /\ Beneath(payload, s, m)
             /\ \E call \in Entries(s.tool_calls) : call.name = ToolRead(trim(payload[m]))
  <2>1. CASE m = n /\ IsToolLine(line)
    BY <1>5, <2>1, Zenon
  <2>2. CASE m \in T(c.lines)
    <3>1. ~IsRoleLine(line)
      BY <2>2
    <3>2. /\ Beneath(payload, c, m)
          /\ \E call \in Entries(c.tool_calls) : call.name = ToolRead(trim(payload[m]))
      BY <2>2, Zenon DEF Backed
    <3>3. QED
      BY <1>6, <3>1, <3>2
  <2>3. QED
    BY <1>1, <1>9, <2>1, <2>2
<1>10. ASSUME NEW k \in R(s.lines), NEW r \in Nat, k < r, r <= n
       PROVE  ~IsRoleLine(trim(payload[r]))
  <2>1. CASE IsRoleLine(line)
    <3>1. k = n
      <4>1. R(c.lines) = {}
        BY <2>1, Zenon
      <4>2. QED
        BY <1>1, <1>10, <4>1, Zenon
    <3>2. QED
      BY <1>3, <1>10, <3>1
  <2>2. CASE ~IsRoleLine(line)
    <3>1. k \in R(c.lines)
      BY <1>1, <1>10, <2>2, Zenon
    <3>2. CASE r = n
      BY <2>2, <3>2
    <3>3. CASE r # n
      <4>1. r <= at
        BY <1>10, <3>3
      <4>2. QED
        BY <1>10, <3>1, <4>1, Zenon DEF Latest
    <3>4. QED
      BY <3>2, <3>3
  <2>3. QED
    BY <2>1, <2>2
<1>11. Latest(payload, s, n)
  BY <1>10, Zenon DEF Latest
<1>12. ASSUME NEW k \in R(s.lines), NEW m \in s.lines, NEW r \in Nat, k < r, r <= m
       PROVE  ~IsRoleLine(trim(payload[r]))
  <2>1. r <= n
    BY <1>3, <1>12
  <2>2. QED
    BY <1>10, <1>12, <2>1
<1>13. Backed(payload, s)
  BY <1>7, <1>8, <1>9, <1>12, Zenon DEF Backed
<1>14. QED
  BY <1>11, <1>13

-----------------------------------------------------------------------------
\* Everything read of a frame that has a version is in a statement that was pushed.
AllPushed(p) ==
    /\ p.at = Len(p.payload)
    /\ \/ p.current_stmt \in Pushes(p)
       \/ /\ RoleLinesIn(p.payload, p.current_stmt.lines) = {}
          /\ ToolLinesIn(p.payload, p.current_stmt.lines) = {}

\* What the statements built so far say, their lines say.
TextTold(p) ==
    /\ \A s \in Pushes(p) \cup {p.current_stmt} : Backed(p.payload, s)
    /\ p.phase \in {"start", "header"} => p.header["VER"] = <<>>
    /\ p.phase = "body" => Latest(p.payload, p.current_stmt, p.at)
    /\ p.phase = "done" /\ p.header["VER"] # <<>> => AllPushed(p)

LEMMA FlushedTold ==
    ASSUME NEW p, LinesInv(p), TextTold(p), p.phase = "body", NEW q, q = Flushed(p)
    PROVE  /\ TextTold(q) /\ q.header = p.header
           /\ RoleLinesIn(q.payload, q.current_stmt.lines) = {}
           /\ ToolLinesIn(q.payload, q.current_stmt.lines) = {}
           /\ DOMAIN q.current_stmt.kvpairs = {}
<1> DEFINE c == p.current_stmt
           fresh == EmptyStatement
           r == Pushed(p)
<1>1. /\ LinesInv(q) /\ q.phase = "body" /\ q.at = p.at /\ q.payload = p.payload
      /\ RoleLinesIn(q.payload, q.current_stmt.lines) = {}
  BY FlushedAttributes
<1>2. CASE HasStatement(p)
  <2>1. q = [r EXCEPT !.current_stmt = fresh, !.current_stmt_healed = FALSE]
    BY <1>2, Zenon DEF Flushed
  <2>2. /\ IsParser(r)
        /\ \A f \in Fields \ {"statements", "healed_draft", "recovery_attempted"} : r[f] = p[f]
        /\ Pushes(r) = Pushes(p) \cup {c}
    BY PushedAttributes
  <2> HIDE DEF r, fresh, c
  <2>3. /\ q.current_stmt = fresh
        /\ \A f \in Fields \ {"current_stmt", "current_stmt_healed"} : q[f] = r[f]
    BY <2>1, <2>2 DEF IsParser, Fields
  <2>4. /\ q.header = p.header
        /\ q.statements = r.statements /\ q.healed_draft = r.healed_draft
    BY <2>2, <2>3 DEF Fields
  <2>5. Pushes(q) = Pushes(p) \cup {c}
    BY <2>2, <2>4 DEF Pushes
  <2>6. fresh.lines = {} /\ DOMAIN fresh.kvpairs = {}
    BY DEF fresh, EmptyStatement, NoPairs
  <2>7. ToolLinesIn(q.payload, q.current_stmt.lines) = {}
    BY <2>3, <2>6, Zenon DEF ToolLinesIn
  <2>8. Backed(p.payload, fresh) /\ Latest(p.payload, fresh, p.at)
    BY EmptyBacked DEF fresh
  <2>9. \A s \in Pushes(q) \cup {q.current_stmt} : Backed(q.payload, s)
    <3>1. \A s \in Pushes(p) \cup {c} : Backed(p.payload, s)
      BY Zenon DEF TextTold, c
    <3>2. \A s \in Pushes(q) \cup {q.current_stmt} : s \in Pushes(p) \cup {c} \/ s = fresh
      BY <2>3, <2>5
    <3>3. QED
      BY <1>1, <2>8, <3>1, <3>2
  <2>10. TextTold(q)
    BY <1>1, <2>3, <2>8, <2>9 DEF TextTold
  <2>11. QED
    BY <1>1, <2>3, <2>4, <2>6, <2>7, <2>10
<1>3. CASE ~HasStatement(p)
  <2>1. q = p
    BY <1>3, Zenon DEF Flushed
  <2>2. DOMAIN c.kvpairs = {} /\ c.tool_calls = <<>>
    BY <1>3, Zenon DEF HasStatement
  <2>3. Entries(c.tool_calls) = {}
    BY <2>2, NoEntries
  <2>4. Backed(p.payload, c)
    BY Zenon DEF TextTold
  <2>5. ToolLinesIn(p.payload, c.lines) = {}
    BY <2>3, <2>4, Zenon DEF Backed
  <2>6. QED
    BY <1>1, <2>1, <2>2, <2>5
<1>4. QED
  BY <1>2, <1>3

LEMMA ReadIntoFields ==
    ASSUME NEW p, IsParser(p), NEW s, NEW role, NEW errors, NEW q, q = ReadInto(p, s, role, errors)
    PROVE  /\ q.at = p.at + 1 /\ q.current_stmt = s /\ q.payload = p.payload
           /\ q.phase = p.phase /\ q.header = p.header /\ Pushes(q) = Pushes(p)
<1> DEFINE n == p.at + 1
           healed == p.current_stmt_healed \/ Heals(errors)
           noted == p.diagnostic \cup {[line |-> p.at + 1, kind |-> e] : e \in errors}
<1>1. q = [p EXCEPT !.at = n, !.current_stmt = s, !.has_role = role,
                    !.current_stmt_healed = healed, !.diagnostic = noted]
  BY DEF ReadInto
<1> HIDE DEF n, healed, noted
<1>2. /\ q.at = n /\ q.current_stmt = s /\ q.payload = p.payload
      /\ q.phase = p.phase /\ q.header = p.header
      /\ q.statements = p.statements /\ q.healed_draft = p.healed_draft
  BY <1>1 DEF IsParser, Fields
<1>3. Pushes(q) = Pushes(p)
  BY <1>2 DEF Pushes
<1>4. QED
  BY <1>2, <1>3 DEF n

\* One more line was read into the statement at hand.
LEMMA LineTold ==
    ASSUME NEW p, LinesInv(p), TextTold(p), p.phase = "body",
           NEW line, line = Probe(p), NEW c, c = p.current_stmt,
           IsRoleLine(line) =>
              /\ RoleLinesIn(p.payload, c.lines) = {} /\ ToolLinesIn(p.payload, c.lines) = {}
              /\ DOMAIN c.kvpairs = {},
           NEW s, s.lines = c.lines \cup {p.at + 1},
           IsRoleLine(line) => s.role = RoleRead(line),
           ~IsRoleLine(line) => s.role = c.role,
           PairsTold(line, c.kvpairs, s.kvpairs),
           Entries(c.tool_calls) \subseteq Entries(s.tool_calls),
           IsToolLine(line) => \E call \in Entries(s.tool_calls) : call.name = ToolRead(line),
           NEW role, NEW errors, NEW q, q = ReadInto(p, s, role, errors)
    PROVE  TextTold(q)
<1> DEFINE n == p.at + 1
           payload == p.payload
<1>1. IsParser(p) /\ p.at \in Nat /\ c.lines \subseteq 2..p.at
  BY DEF LinesInv, Shaped, Attributed
<1>2. /\ q.at = n /\ q.current_stmt = s /\ q.payload = p.payload
      /\ q.phase = "body" /\ Pushes(q) = Pushes(p)
  BY <1>1, ReadIntoFields
<1>3. line = trim(payload[n])
  BY Zenon DEF Probe
<1>4. Backed(payload, c) /\ Latest(payload, c, p.at)
  BY Zenon DEF TextTold
<1>5. Backed(payload, s) /\ Latest(payload, s, n)
  <2> DEFINE at == p.at
  <2>1. at \in Nat /\ n = at + 1 /\ c.lines \subseteq 2..at /\ Latest(payload, c, at)
        /\ s.lines = c.lines \cup {n}
    BY <1>1, <1>4
  <2>2. IsRoleLine(line) =>
              /\ RoleLinesIn(payload, c.lines) = {} /\ ToolLinesIn(payload, c.lines) = {}
              /\ DOMAIN c.kvpairs = {} /\ s.role = RoleRead(line)
    OBVIOUS
  <2> HIDE DEF at, n, payload
  <2>3. QED
    BY <1>3, <1>4, <2>1, <2>2, GrownBacked
<1> HIDE DEF n
<1>6. \A t \in Pushes(p) : Backed(payload, t)
  BY Zenon DEF TextTold
<1>7. \A t \in Pushes(q) \cup {q.current_stmt} : Backed(q.payload, t)
  BY <1>2, <1>5, <1>6
<1>8. QED
  BY <1>2, <1>5, <1>7 DEF TextTold

\* What a part of the line says, the line says.
LEMMA PartTells ==
    ASSUME NEW part, NEW line, NEW m, NEW pairs, PairsTold(part, m, pairs),
           \A x : Mentions(part, x) => Mentions(line, x),
           HasCapability(part) => HasCapability(line)
    PROVE  PairsTold(line, m, pairs)
  BY Zenon DEF PairsTold

-----------------------------------------------------------------------------
\* The actions that read a line of the body.

\* What a parser has read in its body.
Told(p) == ParserTyped(p) /\ LinesInv(p) /\ TextTold(p)

LEMMA ReadRoleTold ==
    ASSUME NEW p, Told(p), NEW q, ReadRole(p, q)
    PROVE  TextTold(q)
<1> DEFINE r == Flushed(p)
           line == Probe(p)
           stmt == WithRole(r.current_stmt, line)
           errors == RoleErrors(r.current_stmt, line)
           yes == TRUE
           c == r.current_stmt
           whole == Rebracketed(Requoted(line))
           end == Find(whole, "]")
           part == After(whole, end)
           pairs == parseKVPairs(part, c.kvpairs).pairs
           name == RoleRead(line)
<1>1. p.phase = "body" /\ MoreLines(p) /\ IsRoleLine(line)
  BY Guards
<1>2. q = Reporting(p, Charged(WithStatement(r, stmt, yes), errors), errors)
  BY Zenon DEF ReadRole, WithStatement
<1>3. ParserTyped(p) /\ LinesInv(p) /\ TextTold(p)
  BY DEF Told
<1>4. LinesInv(r) /\ r.phase = "body" /\ r.at = p.at /\ r.payload = p.payload
  BY <1>1, <1>3, FlushedAttributes
<1>5. /\ TextTold(r)
      /\ RoleLinesIn(r.payload, c.lines) = {} /\ ToolLinesIn(r.payload, c.lines) = {}
      /\ DOMAIN c.kvpairs = {}
  BY <1>1, <1>3, FlushedTold
<1>6. c.kvpairs \in Maps(Atoms)
  <2>1. ParserTyped(r)
    BY <1>3, FlushedTyped
  <2> HIDE DEF r
  <2>2. QED
    BY <2>1 DEF ParserTyped, Built
<1>7. Probe(r) = line
  BY <1>4 DEF Probe
<1>8. line \in Text
  BY <1>1, <1>3, ProbeType
<1>9. stmt = [c EXCEPT !.role = name, !.kvpairs = pairs]
  BY Zenon DEF WithRole, RoleRead
<1>10. PairsTold(line, c.kvpairs, pairs)
  <2> DEFINE w == Requoted(line)
  <2>1. line \in Seq(Atoms) /\ w \in Seq(Atoms)
    BY <1>8, RequotedType DEF Text
  <2>2. part \in Seq(Atoms) /\ Inside(part, w)
    <3>1. whole = Rebracketed(w)
      OBVIOUS
    <3> HIDE DEF w, whole, end
    <3>2. After(whole, end) \in Seq(Atoms) /\ Inside(After(whole, end), w)
      BY <2>1, <3>1, Bracketed DEF end
    <3>3. QED
      BY <3>2
  <2>3. PairsTold(part, c.kvpairs, pairs)
    BY <1>6, <2>2, ParsedTells
  <2> HIDE DEF part, w
  <2>4. /\ \A x : Mentions(part, x) => Mentions(w, x)
        /\ HasCapability(part) => HasCapability(w)
    BY <2>1, <2>2, InsideSays
  <2>5. /\ \A x : Mentions(w, x) => Mentions(line, x)
        /\ HasCapability(w) => HasCapability(line)
    BY <2>1, RequotedSays DEF w
  <2>6. QED
    BY <2>3, <2>4, <2>5, PartTells, Zenon
<1> HIDE DEF r, stmt, errors, line, yes, pairs, name
<1>11. IsParser(p) /\ p.mode = "TOLERANT" /\ IsParser(r) /\ r.mode = "TOLERANT" /\ IsBuilt(c)
  BY <1>3, <1>4 DEF LinesInv, Shaped, Attributed, BuiltFromLines
<1>12. /\ IsBuilt(stmt) /\ stmt.lines = c.lines /\ stmt.tool_calls = c.tool_calls
       /\ stmt.role = name /\ stmt.kvpairs = pairs
  BY <1>9, <1>11 DEF IsBuilt, StatementFields
<1> DEFINE s == WithLine(stmt, r.at + 1)
<1>13. /\ s.lines = c.lines \cup {r.at + 1} /\ s.tool_calls = c.tool_calls
       /\ s.role = name /\ s.kvpairs = pairs
  BY <1>12 DEF IsBuilt, StatementFields, WithLine
<1>14. q = ReadInto(r, s, yes, errors)
  <2> HIDE DEF c
  <2>1. QED
    BY <1>2, <1>11, <1>12, ChargedForm
<1>15. ~IsToolLine(line)
  BY <1>1, OneKindOfLine
<1>16. PairsTold(line, c.kvpairs, s.kvpairs)
  BY <1>10, <1>13
<1>17. IsRoleLine(line) /\ s.role = RoleRead(line)
  BY <1>1, <1>13 DEF name
<1>18. Entries(c.tool_calls) \subseteq Entries(s.tool_calls)
  BY <1>13
<1>19. s.lines = c.lines \cup {r.at + 1} /\ c = r.current_stmt /\ line = Probe(r)
  BY <1>7, <1>13
<1> HIDE DEF s, c
<1>20. QED
  BY <1>4, <1>5, <1>14, <1>15, <1>16, <1>17, <1>18, <1>19, LineTold

LEMMA ReadToolTold ==
    ASSUME NEW p, Told(p), NEW q, ReadTool(p, q)
    PROVE  TextTold(q)
<1> DEFINE line == Probe(p)
           tool == parseToolCall(Requoted(line))
           errors == QuoteError(line) \cup tool.errors
           c == p.current_stmt
           calls == Append(c.tool_calls, tool.call)
           stmt == [c EXCEPT !.tool_calls = calls]
           role == p.has_role
<1>1. p.phase = "body" /\ MoreLines(p) /\ IsToolLine(line)
  BY Guards
<1>2. q = Reporting(p, Charged([p EXCEPT !.current_stmt.tool_calls = Append(@, tool.call)], errors),
                    errors)
  BY Zenon DEF ReadTool
<1>3. LinesInv(p) /\ TextTold(p)
  BY DEF Told
<1>4. tool.call.name = ToolRead(line)
  BY Zenon DEF ToolRead
<1> HIDE DEF tool, errors, line
<1>5. IsParser(p) /\ p.mode = "TOLERANT" /\ IsBuilt(c) /\ Listed(c.tool_calls)
  BY <1>3 DEF LinesInv, Shaped, Attributed, BuiltFromLines
<1>6. Entries(calls) = Entries(c.tool_calls) \cup {tool.call}
  BY <1>5, AppendedEntry
<1>7. [p EXCEPT !.current_stmt.tool_calls = Append(@, tool.call)] = WithStatement(p, stmt, role)
  BY <1>5 DEF IsParser, Fields, WithStatement
<1> HIDE DEF calls
<1>8. /\ IsBuilt(stmt) /\ stmt.lines = c.lines /\ stmt.tool_calls = calls
      /\ stmt.role = c.role /\ stmt.kvpairs = c.kvpairs
  BY <1>5 DEF IsBuilt, StatementFields
<1> HIDE DEF stmt, role
<1> DEFINE s == WithLine(stmt, p.at + 1)
<1>9. /\ s.lines = c.lines \cup {p.at + 1} /\ s.tool_calls = calls
      /\ s.role = c.role /\ s.kvpairs = c.kvpairs
  BY <1>8 DEF IsBuilt, StatementFields, WithLine
<1>10. q = ReadInto(p, s, role, errors)
  <2>1. q = Reporting(p, Charged(WithStatement(p, stmt, role), errors), errors)
    BY <1>2, <1>7
  <2> HIDE DEF c
  <2>2. QED
    BY <1>5, <1>8, <2>1, ChargedForm
<1>11. ~IsRoleLine(line)
  BY <1>1, OneKindOfLine
<1>12. PairsTold(line, c.kvpairs, s.kvpairs)
  BY <1>9, Zenon DEF PairsTold
<1>13. /\ Entries(c.tool_calls) \subseteq Entries(s.tool_calls)
       /\ \E call \in Entries(s.tool_calls) : call.name = ToolRead(line)
  BY <1>4, <1>6, <1>9
<1>14. c = p.current_stmt /\ line = Probe(p) /\ s.lines = c.lines \cup {p.at + 1} /\ s.role = c.role
  BY <1>9 DEF line
<1> HIDE DEF s, c
<1>15. QED
  BY <1>1, <1>3, <1>10, <1>11, <1>12, <1>13, <1>14, LineTold

LEMMA ReadPairsTold ==
    ASSUME NEW p, Told(p), NEW q, ReadPairs(p, q)
    PROVE  TextTold(q)
<1> DEFINE line == Probe(p)
           c == p.current_stmt
           w == Requoted(line)
           parsed == parseKVPairs(w, c.kvpairs)
           pairs == parsed.pairs
           errors == QuoteError(line) \cup parsed.errors
           stmt == [c EXCEPT !.kvpairs = pairs]
           role == p.has_role
<1>1. p.phase = "body" /\ MoreLines(p) /\ ~IsRoleLine(line) /\ ~IsToolLine(line)
  BY Guards
<1>2. q = Reporting(p, Charged([p EXCEPT !.current_stmt.kvpairs = pairs], errors), errors)
  BY Zenon DEF ReadPairs
<1>3. ParserTyped(p) /\ LinesInv(p) /\ TextTold(p)
  BY DEF Told
<1>4. PairsTold(line, c.kvpairs, pairs)
  <2>1. line \in Text
    BY <1>1, <1>3, ProbeType
  <2>2. line \in Seq(Atoms) /\ w \in Seq(Atoms) /\ c.kvpairs \in Maps(Atoms)
    BY <1>3, <2>1, RequotedType DEF Text, ParserTyped, Built
  <2>3. PairsTold(w, c.kvpairs, pairs)
    <3> HIDE DEF w
    <3>1. QED
      BY <2>2, ParsedTells
  <2>4. /\ \A x : Mentions(w, x) => Mentions(line, x)
        /\ HasCapability(w) => HasCapability(line)
    BY <2>2, RequotedSays
  <2>5. QED
    BY <2>3, <2>4, PartTells, Zenon
<1> HIDE DEF parsed, errors, line
<1>5. IsParser(p) /\ p.mode = "TOLERANT" /\ IsBuilt(c)
  BY <1>3 DEF LinesInv, Shaped, Attributed, BuiltFromLines
<1> HIDE DEF pairs
<1>6. [p EXCEPT !.current_stmt.kvpairs = pairs] = WithStatement(p, stmt, role)
  BY <1>5 DEF IsParser, Fields, WithStatement
<1>7. /\ IsBuilt(stmt) /\ stmt.lines = c.lines /\ stmt.tool_calls = c.tool_calls
      /\ stmt.role = c.role /\ stmt.kvpairs = pairs
  BY <1>5 DEF IsBuilt, StatementFields
<1> HIDE DEF stmt, role
<1> DEFINE s == WithLine(stmt, p.at + 1)
<1>8. /\ s.lines = c.lines \cup {p.at + 1} /\ s.tool_calls = c.tool_calls
      /\ s.role = c.role /\ s.kvpairs = pairs
  BY <1>7 DEF IsBuilt, StatementFields, WithLine
<1>9. q = ReadInto(p, s, role, errors)
  <2>1. q = Reporting(p, Charged(WithStatement(p, stmt, role), errors), errors)
    BY <1>2, <1>6
  <2> HIDE DEF c
  <2>2. QED
    BY <1>5, <1>7, <2>1, ChargedForm
<1>10. PairsTold(line, c.kvpairs, s.kvpairs)
  BY <1>4, <1>8
<1>11. /\ c = p.current_stmt /\ line = Probe(p) /\ s.lines = c.lines \cup {p.at + 1}
       /\ s.role = c.role /\ Entries(c.tool_calls) \subseteq Entries(s.tool_calls)
  BY <1>8 DEF line
<1> HIDE DEF s, c
<1>12. QED
  BY <1>1, <1>3, <1>9, <1>10, <1>11, LineTold

LEMMA SkipBlankTold ==
    ASSUME NEW p, LinesInv(p), TextTold(p), NEW q, SkipBlank(p, q)
    PROVE  TextTold(q)
<1> DEFINE n == p.at + 1
           c == p.current_stmt
<1>1. p.phase = "body" /\ MoreLines(p) /\ Probe(p) = <<>> /\ q = [p EXCEPT !.at = n]
  BY Zenon DEF SkipBlank
<1>2. IsParser(p) /\ p.at \in Nat
  BY DEF LinesInv, Shaped
<1>3. ~IsRoleLine(trim(p.payload[n]))
  BY <1>1, Zenon DEF Probe, IsRoleLine
<1>4. Latest(p.payload, c, p.at)
  BY <1>1, Zenon DEF TextTold
<1>5. Latest(p.payload, c, n)
  <2> SUFFICES ASSUME NEW k \in RoleLinesIn(p.payload, c.lines), NEW r \in Nat, k < r, r <= n
               PROVE  ~IsRoleLine(trim(p.payload[r]))
    BY Zenon DEF Latest
  <2>1. r = n \/ r <= p.at
    BY <1>2
  <2>2. QED
    BY <1>3, <1>4, <2>1 DEF Latest
<1> HIDE DEF n, c
<1>6. /\ q.at = n /\ q.current_stmt = c /\ q.payload = p.payload /\ q.phase = p.phase
      /\ q.statements = p.statements /\ q.healed_draft = p.healed_draft
  BY <1>1, <1>2 DEF IsParser, Fields, c
<1>7. Pushes(q) = Pushes(p)
  BY <1>6 DEF Pushes
<1>8. \A s \in Pushes(q) \cup {q.current_stmt} : Backed(q.payload, s)
  BY <1>6, <1>7, Zenon DEF TextTold, c
<1>9. QED
  BY <1>1, <1>5, <1>6, <1>8 DEF TextTold

LEMMA FinishTold ==
    ASSUME NEW p, LinesInv(p), TextTold(p), NEW q, Finish(p, q)
    PROVE  TextTold(q)
<1> DEFINE r == IF HasStatement(p) THEN Pushed(p) ELSE p
           c == p.current_stmt
           roles == RoleLinesIn(p.payload, c.lines)
           tools == ToolLinesIn(p.payload, c.lines)
<1>1. p.phase = "body" /\ ~MoreLines(p) /\ q = [r EXCEPT !.phase = "done"]
  BY Zenon DEF Finish
<1>2. IsParser(p) /\ p.at \in 0..Len(p.payload) /\ Len(p.payload) \in Nat
  BY DEF LinesInv, Shaped
<1>3. /\ IsParser(r)
      /\ \A f \in Fields \ {"statements", "healed_draft", "recovery_attempted"} : r[f] = p[f]
      /\ Pushes(r) \cup {c} = Pushes(p) \cup {c}
      /\ HasStatement(p) => c \in Pushes(r)
  BY <1>1, <1>2, PushedAttributes
<1>4. ~HasStatement(p) => roles = {} /\ tools = {}
  <2> SUFFICES ASSUME ~HasStatement(p) PROVE roles = {} /\ tools = {}
    OBVIOUS
  <2>1. ~p.has_role /\ c.tool_calls = <<>>
    BY Zenon DEF HasStatement
  <2>2. roles = {}
    BY <1>1, <2>1 DEF LinesInv, AtHand
  <2>3. Entries(c.tool_calls) = {}
    BY <2>1, NoEntries
  <2>4. Backed(p.payload, c)
    BY Zenon DEF TextTold
  <2>5. tools = {}
    BY <2>3, <2>4, Zenon DEF Backed
  <2>6. QED
    BY <2>2, <2>5
<1>5. p.at = Len(p.payload)
  BY <1>1, <1>2 DEF MoreLines
<1> HIDE DEF r, c
<1>6. /\ q.phase = "done" /\ \A f \in Fields \ {"phase"} : q[f] = r[f]
  BY <1>1, <1>3 DEF IsParser, Fields
<1>7. /\ q.payload = p.payload /\ q.at = p.at /\ q.current_stmt = c
      /\ q.statements = r.statements /\ q.healed_draft = r.healed_draft
  BY <1>3, <1>6 DEF Fields, c
<1>8. Pushes(q) = Pushes(r)
  BY <1>7 DEF Pushes
<1>9. AllPushed(q)
  BY <1>3, <1>4, <1>5, <1>7, <1>8 DEF AllPushed
<1>10. \A s \in Pushes(p) \cup {c} : Backed(p.payload, s)
  BY Zenon DEF TextTold, c
<1>11. \A s \in Pushes(q) \cup {q.current_stmt} : Backed(q.payload, s)
  BY <1>3, <1>7, <1>8, <1>10
<1>12. QED
  BY <1>6, <1>9, <1>11 DEF TextTold

LEMMA HeaderSteps ==
    ASSUME NEW p, LinesInv(p), TextTold(p), p.phase \in {"start", "header"}, NEW q,
           Refuse(p, q) \/ ReadHeaderLine(p, q) \/ FoldLine(p, q) \/ ParseHeader(p, q)
    PROVE  TextTold(q)
<1> DEFINE e == EmptyStatement
           Same(r) == /\ IsParser(r) /\ r.payload = p.payload /\ r.current_stmt = p.current_stmt
                      /\ r.statements = p.statements /\ r.healed_draft = p.healed_draft
<1>1. /\ IsParser(p) /\ p.mode = "TOLERANT" /\ Pushes(p) = {} /\ p.current_stmt = e
      /\ p.header["VER"] = <<>>
  BY DEF LinesInv, Shaped, TextTold
<1>2. Same(p)
  BY <1>1
<1>3. \A at : Backed(p.payload, e) /\ Latest(p.payload, e, at)
  BY EmptyBacked
<1> HIDE DEF e
<1>4. ASSUME NEW r, Same(r), r.phase = "body" \/ r.header = p.header PROVE TextTold(r)
  <2>1. Pushes(r) = {} /\ r.current_stmt = e /\ r.payload = p.payload
    BY <1>1, <1>4 DEF Pushes
  <2>2. \A s \in Pushes(r) \cup {r.current_stmt} : Backed(r.payload, s)
    BY <1>3, <2>1
  <2>3. Latest(r.payload, r.current_stmt, r.at)
    BY <1>3, <2>1
  <2>4. r.phase # "body" => r.header["VER"] = <<>>
    BY <1>1, <1>4
  <2>5. QED
    BY <2>2, <2>3, <2>4 DEF TextTold
<1>5. ASSUME NEW r, Same(r), NEW errors, q = Reporting(p, r, errors)
      PROVE  Same(q) /\ q.phase = r.phase /\ q.header = r.header
  <2> DEFINE noted == {[line |-> r.at, kind |-> k] : k \in errors}
  <2>1. q = [r EXCEPT !.diagnostic = @ \cup noted]
    BY <1>1, <1>5 DEF Reporting
  <2> HIDE DEF noted
  <2>2. QED
    BY <1>5, <2>1 DEF IsParser, Fields
<1>6. CASE Refuse(p, q)
  <2> DEFINE r == [p EXCEPT !.phase = "done"]
  <2>1. PICK errors : q = Reporting(p, r, errors)
    BY <1>6, Zenon DEF Refuse
  <2>2. Same(r) /\ r.header = p.header
    BY <1>1 DEF IsParser, Fields
  <2> HIDE DEF r, Same
  <2>3. QED
    BY <1>4, <1>5, <2>1, <2>2
<1>7. CASE ReadHeaderLine(p, q)
  <2> DEFINE probe == Probe(p)
  <2>1. q = [p EXCEPT !.phase = "header", !.at = 1, !.mark = 1, !.header_line = probe]
    BY <1>7, Zenon DEF ReadHeaderLine
  <2> HIDE DEF probe
  <2>2. Same(q) /\ q.header = p.header
    BY <1>1, <2>1 DEF IsParser, Fields
  <2> HIDE DEF Same
  <2>3. QED
    BY <1>4, <2>2
<1>8. CASE FoldLine(p, q)
  <2> DEFINE folded == IF Probe(p) = <<>> THEN p.header_line
                       ELSE p.header_line \o <<" ">> \o Probe(p)
             n == p.at + 1
  <2>1. q = [p EXCEPT !.at = n, !.mark = n, !.header_line = folded]
    BY <1>8, Zenon DEF FoldLine
  <2> HIDE DEF n, folded
  <2>2. Same(q) /\ q.header = p.header
    BY <1>1, <2>1 DEF IsParser, Fields
  <2> HIDE DEF Same
  <2>3. QED
    BY <1>4, <2>2
<1>9. CASE ParseHeader(p, q)
  <2> DEFINE header == parseHeader(p.header_line).fields
             r == [p EXCEPT !.phase = "body", !.at = p.mark, !.header = header]
  <2>1. PICK errors : q = Reporting(p, r, errors)
    BY <1>9, Zenon DEF ParseHeader
  <2> HIDE DEF header
  <2>2. Same(r) /\ r.phase = "body"
    BY <1>1 DEF IsParser, Fields
  <2> HIDE DEF r, Same
  <2>3. QED
    BY <1>4, <1>5, <2>1, <2>2
<1>10. QED
  BY <1>6, <1>7, <1>8, <1>9

LEMMA StepKeepsTold ==
    ASSUME NEW p, Told(p), NEW q, Step(p, q)
    PROVE  Told(q)
<1>1. ParserTyped(p) /\ LinesInv(p) /\ TextTold(p)
  BY DEF Told
<1>2. ParserTyped(q) /\ LinesInv(q)
  BY <1>1, StepTyped, StepAttributes
<1>3. CASE Refuse(p, q) \/ ReadHeaderLine(p, q) \/ FoldLine(p, q) \/ ParseHeader(p, q)
  <2>1. p.phase \in {"start", "header"}
    BY <1>3, Guards
  <2>2. TextTold(q)
    BY <1>1, <1>3, <2>1, HeaderSteps
  <2>3. QED
    BY <1>2, <2>2 DEF Told
<1>4. TextTold(q)
  BY <1>1, <1>3, SkipBlankTold, ReadRoleTold, ReadToolTold, ReadPairsTold, FinishTold DEF Step, Told
<1>5. QED
  BY <1>2, <1>4 DEF Told

LEMMA FreshTold ==
    ASSUME NEW frame \in Seq(Text), NEW p, p = Start("TOLERANT", frame)
    PROVE  Told(p)
<1>1. ParserTyped(p)
  BY StartTyped
<1>2. LinesInv(p)
  BY StartAttributes
<1>3. p.phase = "start" /\ p.header = NoFields
  BY DEF Start
<1>4. p.header["VER"] = <<>>
  BY <1>3 DEF NoFields, HeaderKeys
<1>5. Pushes(p) = {} /\ p.current_stmt = EmptyStatement
  BY <1>2, <1>3 DEF LinesInv, Shaped
<1>6. Backed(p.payload, p.current_stmt)
  BY <1>5, EmptyBacked
<1>7. TextTold(p)
  BY <1>3, <1>4, <1>5, <1>6 DEF TextTold
<1>8. QED
  BY <1>1, <1>2, <1>7 DEF Told

-----------------------------------------------------------------------------
\* What STRICT asks of a header, and what validate() asks of statements.

\* A parser in STRICT mode that got past the header has all required fields.
HeaderComplete(p) ==
    /\ IsParser(p) /\ p.mode = "STRICT"
    /\ p.phase \in {"body", "done"} => ~MissingField(p.header)

\* STRICT throws, or goes on as r.
LEMMA StrictReporting ==
    ASSUME NEW p, IsParser(p), p.mode = "STRICT", NEW r, IsParser(r), r.mode = "STRICT",
           NEW errors, NEW q, q = Reporting(p, r, errors)
    PROVE  /\ IsParser(q) /\ q.mode = "STRICT"
           /\ \/ q.phase = "threw"
              \/ errors = {} /\ q.phase = r.phase /\ q.header = r.header
<1> DEFINE noted == {[line |-> r.at, kind |-> k] : k \in errors}
<1>1. CASE errors # {}
  <2>1. q = [p EXCEPT !.phase = "threw"]
    BY <1>1 DEF Reporting
  <2>2. QED
    BY <2>1 DEF IsParser, Fields
<1>2. CASE errors = {}
  <2>1. q = [r EXCEPT !.diagnostic = @ \cup noted]
    BY <1>2 DEF Reporting
  <2> HIDE DEF noted
  <2>2. QED
    BY <1>2, <2>1 DEF IsParser, Fields
<1>3. QED
  BY <1>1, <1>2

LEMMA StepComplete ==
    ASSUME NEW p, HeaderComplete(p), NEW q, Step(p, q)
    PROVE  HeaderComplete(q)
<1>1. IsParser(p) /\ p.mode = "STRICT" /\ (p.phase \in {"body", "done"} => ~MissingField(p.header))
  BY DEF HeaderComplete
<1>2. ASSUME NEW r, IsParser(r), r.mode = "STRICT", NEW errors, q = Reporting(p, r, errors),
             errors = {} /\ r.phase \in {"body", "done"} => ~MissingField(r.header)
      PROVE  HeaderComplete(q)
  <2>1. /\ IsParser(q) /\ q.mode = "STRICT"
        /\ \/ q.phase = "threw"
           \/ errors = {} /\ q.phase = r.phase /\ q.header = r.header
    BY <1>1, <1>2, StrictReporting
  <2>2. QED
    BY <1>2, <2>1 DEF HeaderComplete
<1>3. CASE Refuse(p, q)
  <2> DEFINE r == [p EXCEPT !.phase = "done"]
  <2>1. q = Reporting(p, r, {"oversized"}) \/ q = Reporting(p, r, {"empty"})
    BY <1>3, Zenon DEF Refuse
  <2>2. IsParser(r) /\ r.mode = "STRICT"
    BY <1>1 DEF IsParser, Fields
  <2> HIDE DEF r
  <2>3. QED
    BY <1>2, <2>1, <2>2
<1>4. CASE ReadHeaderLine(p, q)
  <2> DEFINE probe == Probe(p)
  <2>1. q = [p EXCEPT !.phase = "header", !.at = 1, !.mark = 1, !.header_line = probe]
    BY <1>4, Zenon DEF ReadHeaderLine
  <2> HIDE DEF probe
  <2>2. QED
    BY <1>1, <2>1 DEF HeaderComplete, IsParser, Fields
<1>5. CASE FoldLine(p, q)
  <2> DEFINE folded == IF Probe(p) = <<>> THEN p.header_line
                       ELSE p.header_line \o <<" ">> \o Probe(p)
             n == p.at + 1
  <2>1. p.phase = "header" /\ q = [p EXCEPT !.at = n, !.mark = n, !.header_line = folded]
    BY <1>5, Zenon DEF FoldLine
  <2> HIDE DEF n, folded
  <2>2. QED
    BY <1>1, <2>1 DEF HeaderComplete, IsParser, Fields
<1>6. CASE ParseHeader(p, q)
  <2> DEFINE h == parseHeader(p.header_line)
             fields == h.fields
             missing == p.mode = "STRICT" /\ MissingField(fields)
             errors == h.errors \cup ErrorIf(missing, "missing")
             r == [p EXCEPT !.phase = "body", !.at = p.mark, !.header = fields]
  <2>1. q = Reporting(p, r, errors)
    BY <1>6, Zenon DEF ParseHeader
  <2>2. errors = {} => ~MissingField(fields)
    <3>1. MissingField(fields) => missing
      BY <1>1
    <3>2. missing => errors # {}
      BY Zenon DEF ErrorIf
    <3>3. QED
      BY <3>1, <3>2, Zenon
  <2> HIDE DEF fields, errors
  <2>3. IsParser(r) /\ r.mode = "STRICT" /\ r.header = fields
    BY <1>1 DEF IsParser, Fields
  <2> HIDE DEF r
  <2>4. errors = {} /\ r.phase \in {"body", "done"} => ~MissingField(r.header)
    BY <2>2, <2>3, Zenon
  <2>5. QED
    BY <1>2, <2>1, <2>3, <2>4
<1>7. CASE SkipBlank(p, q)
  <2> DEFINE n == p.at + 1
  <2>1. p.phase = "body" /\ q = [p EXCEPT !.at = n]
    BY <1>7, Zenon DEF SkipBlank
  <2> HIDE DEF n
  <2>2. QED
    BY <1>1, <2>1 DEF HeaderComplete, IsParser, Fields
<1>8. CASE ReadRole(p, q) \/ ReadTool(p, q) \/ ReadPairs(p, q)
  <2>1. PICK stmt, d : \/ q = Reporting(p, Charged([Flushed(p) EXCEPT !.current_stmt = stmt,
                                                                      !.has_role = TRUE], d), d)
                       \/ q = Reporting(p, Charged([p EXCEPT !.current_stmt = stmt], d), d)
    BY <1>8, Zenon DEF ReadRole, ReadTool, ReadPairs
  <2>2. p.phase = "body"
    BY <1>8, Guards
  <2> DEFINE f == Flushed(p)
             r == [f EXCEPT !.current_stmt = stmt, !.has_role = TRUE]
             u == [p EXCEPT !.current_stmt = stmt]
  <2>3. IsParser(f) /\ f.mode = "STRICT" /\ f.header = p.header /\ f.phase = p.phase
    BY <1>1, FlushedKeeps
  <2> HIDE DEF f
  <2>4. \A v \in {r, u} : /\ IsParser(v) /\ v.mode = "STRICT"
                          /\ v.header = p.header /\ v.phase = p.phase
    BY <1>1, <2>3 DEF IsParser, Fields
  <2>5. PICK v \in {r, u} : q = Reporting(p, Charged(v, d), d)
    BY <2>1, Zenon DEF f
  <2> HIDE DEF r, u
  <2> DEFINE c == Charged(v, d)
  <2>6. IsParser(c) /\ c.mode = "STRICT" /\ c.header = p.header
    BY <2>4, <2>5 DEF Charged, IsParser, Fields
  <2>7. q = Reporting(p, c, d)
    BY <2>5
  <2> HIDE DEF c
  <2>8. QED
    BY <1>1, <1>2, <2>2, <2>6, <2>7
<1>9. CASE Finish(p, q)
  <2> DEFINE u == IF HasStatement(p) THEN Pushed(p) ELSE p
  <2>1. IsParser(u) /\ u.mode = "STRICT" /\ u.header = p.header
    BY <1>1, FlushedKeeps
  <2>2. p.phase = "body" /\ q = [u EXCEPT !.phase = "done"]
    BY <1>9, Zenon DEF Finish
  <2> HIDE DEF u
  <2>3. QED
    BY <1>1, <2>1, <2>2 DEF HeaderComplete, IsParser, Fields
<1>10. QED
  BY <1>3, <1>4, <1>5, <1>6, <1>7, <1>8, <1>9, Zenon DEF Step

\* What validate() asks of a header is part of what the STRICT parser asks.
LEMMA CompleteIsValid ==
    ASSUME NEW p, HeaderComplete(p), p.phase = "done"
    PROVE  HeaderErrors(p.header) = {}
<1> DEFINE order == <<"VER", "AGT", "REQID">>
           missing == {i \in DOMAIN order : p.header[order[i]] = <<>>}
<1>1. ~MissingField(p.header)
  BY DEF HeaderComplete
<1>2. \A k \in Required : p.header[k] # <<>>
  BY <1>1 DEF MissingField
<1>3. \A i \in DOMAIN order : order[i] \in Required
  BY DEF Required
<1>4. missing = {}
  BY <1>2, <1>3
<1>5. QED
  BY <1>4, Zenon DEF HeaderErrors

\* What a valid frame says of its header and of each statement, trusted or healed.
LEMMA ValidMeans ==
    ASSUME NEW p, NEW inband \in BOOLEAN, validate(p, inband).valid
    PROVE  /\ p.header["VER"] # <<>>
           /\ \A s \in Pushes(p) : validate_statement(s, inband) = {}
<1> DEFINE header == HeaderErrors(p.header)
           built == StatementErrors(p.statements, inband)
           healed == StatementErrors(p.healed_draft, inband)
           errors == IF header # {} THEN header ELSE built \cup healed
<1>1. validate(p, inband) = [valid |-> errors = {}, errors |-> errors]
  BY Zenon DEF validate
<1>2. errors = {}
  <2> HIDE DEF errors
  <2>1. [valid |-> errors = {}, errors |-> errors].valid = (errors = {})
    OBVIOUS
  <2>2. QED
    BY <1>1, <2>1, Zenon
<1>3. header = {} /\ built = {} /\ healed = {}
  BY <1>2, Zenon
<1>4. p.header["VER"] # <<>>
  <2> DEFINE order == <<"VER", "AGT", "REQID">>
             missing == {i \in DOMAIN order : p.header[order[i]] = <<>>}
  <2>1. header = IF missing = {} THEN {} ELSE {[kind |-> "header", name |-> order[Min(missing)]]}
    BY Zenon DEF HeaderErrors
  <2>2. missing = {}
    BY <1>3, <2>1, Zenon
  <2>3. 1 \in DOMAIN order /\ order[1] = "VER"
    OBVIOUS
  <2>4. QED
    BY <2>2, <2>3
<1>5. ASSUME NEW s \in Pushes(p) PROVE validate_statement(s, inband) = {}
  <2>1. CASE s \in Entries(p.statements)
    <3>1. PICK k \in DOMAIN p.statements : s = p.statements[k]
      BY <2>1, Zenon DEF Entries
    <3>2. QED
      BY <1>3, <3>1, Zenon DEF StatementErrors
  <2>2. CASE s \in Entries(p.healed_draft)
    <3>1. PICK k \in DOMAIN p.healed_draft : s = p.healed_draft[k]
      BY <2>2, Zenon DEF Entries
    <3>2. QED
      BY <1>3, <3>1, Zenon DEF StatementErrors
  <2>3. QED
    BY <1>5, <2>1, <2>2, Zenon DEF Pushes
<1>6. QED
  BY <1>4, <1>5

LEMMA SchemaKept ==
    ASSUME NEW s, NEW schema, NEW inband \in BOOLEAN, SchemaErrors(s, schema, inband) = {}
    PROVE  /\ \A i \in DOMAIN schema.required : <<schema.required[i]>> \in DOMAIN s.kvpairs
           /\ \A t \in Range(s.tool_calls) : \E n \in schema.tools : t.name = <<n>>
           /\ inband => \A i \in DOMAIN schema.required : schema.required[i] \in Pointers =>
                           HasCapability(s.kvpairs[<<schema.required[i]>>])
<1> DEFINE Named(i) == <<schema.required[i]>>
           missing  == {i \in DOMAIN schema.required : Named(i) \notin DOMAIN s.kvpairs}
           reached  == IF missing = {} THEN DOMAIN schema.required ELSE 1..(Min(missing) - 1)
           bare     == {i \in reached : /\ schema.required[i] \in Pointers
                                        /\ ~HasCapability(s.kvpairs[Named(i)])}
           refused  == {t \in Range(s.tool_calls) : t.name \notin {<<n>> : n \in schema.tools}}
           Bare     == {[kind |-> "capability", name |-> Named(i)] : i \in bare}
           Missing  == {[kind |-> "field", name |-> Named(Min(missing))]}
           Refused  == {[kind |-> "tool", name |-> t.name] : t \in refused}
<1>1. SchemaErrors(s, schema, inband)
        = (IF inband THEN Bare ELSE {}) \cup (IF missing # {} THEN Missing ELSE Refused)
  BY Zenon DEF SchemaErrors
<1>2. /\ inband => Bare = {}
      /\ missing # {} => Missing = {}
      /\ missing = {} => Refused = {}
  <2> HIDE DEF Bare, Missing, Refused, missing
  <2>1. QED
    BY <1>1, Zenon
<1>3. missing = {}
  BY <1>2, Zenon
<1>4. refused = {}
  BY <1>2, <1>3, Zenon
<1>5. inband => bare = {}
  BY <1>2, Zenon
<1>6. reached = DOMAIN schema.required
  BY <1>3, Zenon
<1>7. QED
  BY <1>3, <1>4, <1>5, <1>6, Zenon

-----------------------------------------------------------------------------
\* What that says of the blocks of role lines.

\* A line at or beneath the role line of its statement is in the block of that role line.
LEMMA InBlock ==
    ASSUME NEW s, s.lines \subseteq 2..Len(tolerant.payload), tolerant.payload \in Seq(Text),
           Backed(tolerant.payload, s),
           NEW n \in RoleLinesIn(tolerant.payload, s.lines), NEW m, Beneath(tolerant.payload, s, m)
    PROVE  n \in RoleLineNumbers /\ m \in Block(n) /\ n <= m
<1> DEFINE payload == tolerant.payload
           top == Len(payload)
<1>1. top \in Nat /\ s.lines \subseteq 2..top
  OBVIOUS
<1>2. n \in s.lines /\ IsRoleLine(BodyLine(n))
  BY Zenon DEF RoleLinesIn, BodyLine
<1>3. m \in s.lines /\ n <= m
  BY Zenon DEF Beneath
<1>4. ASSUME NEW r \in RoleLineNumbers, r \in n..m PROVE r = n
  <2>1. IsRoleLine(BodyLine(r)) /\ r \in Nat
    BY <1>1 DEF RoleLineNumbers
  <2>2. n < r /\ r <= m => ~IsRoleLine(BodyLine(r))
    BY <1>3, <2>1, Zenon DEF Backed, BodyLine
  <2>3. n \in Nat /\ m \in Nat
    BY <1>1, <1>2, <1>3
  <2>4. QED
    BY <1>4, <2>1, <2>2, <2>3
<1> HIDE DEF top
<1>5. n \in 2..top /\ m \in n..top
  BY <1>1, <1>2, <1>3
<1>6. n \in RoleLineNumbers
  BY <1>2, <1>5 DEF RoleLineNumbers, top
<1>7. m \in Block(n)
  BY <1>4, <1>5, Zenon DEF Block, top
<1>8. QED
  BY <1>3, <1>6, <1>7

\* Two role lines do not share a line of their blocks.
LEMMA OneBlock ==
    ASSUME tolerant.payload \in Seq(Text), NEW n \in RoleLineNumbers, NEW r \in RoleLineNumbers,
           NEW m \in Block(n), m \in Block(r)
    PROVE  r = n
<1>1. Len(tolerant.payload) \in Nat
  OBVIOUS
<1>2. n \in Nat /\ r \in Nat
  BY <1>1 DEF RoleLineNumbers
<1>3. m \in n..Len(tolerant.payload) /\ \A k \in RoleLineNumbers : k \in n..m => k = n
  BY Zenon DEF Block
<1>4. m \in r..Len(tolerant.payload) /\ \A k \in RoleLineNumbers : k \in r..m => k = r
  BY Zenon DEF Block
<1>5. r \in n..m \/ n \in r..m
  BY <1>1, <1>2, <1>3, <1>4
<1>6. QED
  BY <1>3, <1>4, <1>5

LEMMA SchemaTools ==
    ASSUME NEW role \in DOMAIN Schemas, NEW a \in Schemas[role].tools
    PROVE  a # Quote
<1> DEFINE tools == {"run", "exec", "call", "read", "write", "gen", "plan", "break"}
<1>1. DOMAIN Schemas = {<<"EXEC">>, <<"CODER">>, <<"READ">>, <<"PLAN">>}
  BY DEF Schemas
<1>2. /\ Schemas[<<"EXEC">>].tools \subseteq tools /\ Schemas[<<"CODER">>].tools \subseteq tools
      /\ Schemas[<<"READ">>].tools \subseteq tools /\ Schemas[<<"PLAN">>].tools \subseteq tools
  BY DEF Schemas
<1>3. a \in tools
  BY <1>1, <1>2
<1>4. QED
  BY <1>3 DEF Quote

LEMMA ValidFrameKeeps ==
    ASSUME Told(tolerant), tolerant.phase = "done", NEW inband \in BOOLEAN,
           validate(tolerant, inband).valid
    PROVE  /\ \A n \in 2..Len(tolerant.payload) : IsToolLine(BodyLine(n)) =>
                 \E r \in RoleLineNumbers : n \in Block(r)
           /\ \A n \in RoleLineNumbers :
                 LET role == RoleOn(BodyLine(n))
                 IN  /\ role # <<>>
                     /\ role \in DOMAIN Schemas => BlockKeepsToSchema(n, Schemas[role], inband)
<1> DEFINE p == tolerant
           payload == p.payload
           top == Len(payload)
<1>1. LinesInv(p) /\ TextTold(p)
  BY DEF Told
<1>2. p.header["VER"] # <<>> /\ \A s \in Pushes(p) : validate_statement(s, inband) = {}
  BY ValidMeans
<1>3. AllPushed(p) /\ payload \in Seq(Text)
  BY <1>1, <1>2 DEF TextTold, LinesInv, Shaped
<1>4. ASSUME NEW n \in 2..top, IsRoleLine(BodyLine(n)) \/ IsToolLine(BodyLine(n))
      PROVE  \E s \in Pushes(p) : n \in s.lines
  <2>1. p.at = top
    BY <1>3 DEF AllPushed
  <2>2. PICK s \in Pushes(p) \cup {p.current_stmt} : n \in s.lines
    <3>1. IsBodyLine(payload, n)
      BY <1>3, <1>4, StatementLine DEF BodyLine
    <3>2. QED
      BY <1>1, <1>4, <2>1, <3>1, Zenon DEF LinesInv, Attributed
  <2>3. \/ n \in RoleLinesIn(payload, s.lines)
        \/ n \in ToolLinesIn(payload, s.lines)
    BY <1>4, <2>2, Zenon DEF RoleLinesIn, ToolLinesIn, BodyLine
  <2>4. s \in Pushes(p)
    BY <1>3, <2>2, <2>3 DEF AllPushed
  <2>5. QED
    BY <2>2, <2>4
<1>5. ASSUME NEW s \in Pushes(p)
      PROVE  /\ s.lines \subseteq 2..top /\ Backed(payload, s)
             /\ s.role # <<>> /\ RoleLinesIn(payload, s.lines) # {}
  <2>1. s.lines \subseteq 2..p.at /\ BuiltFromLines(payload, s)
    BY <1>1, <1>5, Zenon DEF LinesInv, Attributed
  <2>2. s.role # <<>>
    <3> DEFINE unnamed == {[kind |-> "role", name |-> <<>>]}
    <3>1. unnamed # {}
      OBVIOUS
    <3> HIDE DEF unnamed
    <3>2. s.role = <<>> => validate_statement(s, inband) = unnamed
      BY Zenon DEF validate_statement, unnamed
    <3>3. QED
      BY <1>2, <1>5, <3>1, <3>2
  <2>3. Backed(payload, s)
    BY <1>1, <1>5, Zenon DEF TextTold
  <2>4. QED
    BY <1>3, <2>1, <2>2, <2>3 DEF BuiltFromLines, AllPushed
<1>6. ASSUME NEW s \in Pushes(p), NEW n \in RoleLinesIn(payload, s.lines), NEW m,
             Beneath(payload, s, m)
      PROVE  n \in RoleLineNumbers /\ m \in Block(n) /\ n <= m
  BY <1>3, <1>5, <1>6, InBlock
<1>7. ASSUME NEW m \in 2..top, IsToolLine(BodyLine(m))
      PROVE  \E s \in Pushes(p), r \in RoleLineNumbers :
                /\ r \in s.lines /\ m \in Block(r)
                /\ \E call \in Entries(s.tool_calls) : call.name = ToolRead(BodyLine(m))
  <2>1. PICK s \in Pushes(p) : m \in s.lines
    BY <1>4, <1>7
  <2>2. m \in ToolLinesIn(payload, s.lines)
    BY <1>7, <2>1, Zenon DEF ToolLinesIn, BodyLine
  <2>3. /\ Beneath(payload, s, m)
        /\ \E call \in Entries(s.tool_calls) : call.name = ToolRead(BodyLine(m))
    BY <1>5, <2>2, Zenon DEF Backed, BodyLine
  <2>4. PICK r \in RoleLinesIn(payload, s.lines) : TRUE
    BY <1>5
  <2>5. r \in RoleLineNumbers /\ m \in Block(r)
    BY <1>6, <2>3
  <2>6. r \in s.lines
    BY <2>4, Zenon DEF RoleLinesIn
  <2>7. QED
    BY <2>3, <2>5, <2>6, Zenon
<1>8. ASSUME NEW n \in RoleLineNumbers
      PROVE  /\ RoleOn(BodyLine(n)) # <<>>
             /\ RoleOn(BodyLine(n)) \in DOMAIN Schemas =>
                   BlockKeepsToSchema(n, Schemas[RoleOn(BodyLine(n))], inband)
  <2> DEFINE line == BodyLine(n)
             role == RoleOn(line)
             schema == Schemas[role]
  <2>1. n \in 2..top /\ IsRoleLine(line)
    BY DEF RoleLineNumbers
  <2>2. PICK s \in Pushes(p) : n \in s.lines
    BY <1>4, <2>1
  <2>3. n \in RoleLinesIn(payload, s.lines)
    BY <2>1, <2>2, Zenon DEF RoleLinesIn, BodyLine
  <2>4. s.role = RoleRead(line) /\ s.role # <<>>
    BY <1>5, <2>3, Zenon DEF Backed, BodyLine
  <2>5. \A m \in 1..top : BodyLine(m) \in Seq(Atoms)
    BY <1>3, TrimType DEF BodyLine, Text
  <2>6. line \in Seq(Atoms)
    BY <1>3, <2>1, <2>5
  <2> HIDE DEF line
  <2>7. role # <<>> /\ (role \in DOMAIN Schemas => s.role = role)
    BY <2>1, <2>4, <2>6, RoleIsRead
  <2>8. ASSUME role \in DOMAIN Schemas PROVE BlockKeepsToSchema(n, schema, inband)
    <3>1. s.role = role
      BY <2>7, <2>8
    <3> HIDE DEF role
    <3>2. SchemaErrors(s, schema, inband) = {}
      BY <1>2, <2>4, <2>8, <3>1, Zenon DEF validate_statement
    <3>3. /\ \A i \in DOMAIN schema.required : <<schema.required[i]>> \in DOMAIN s.kvpairs
          /\ \A t \in Range(s.tool_calls) : \E a \in schema.tools : t.name = <<a>>
          /\ inband => \A i \in DOMAIN schema.required : schema.required[i] \in Pointers =>
                          HasCapability(s.kvpairs[<<schema.required[i]>>])
      BY <3>2, SchemaKept
    <3>4. \A a \in schema.tools : a # Quote
      BY <2>8, SchemaTools
    <3> HIDE DEF schema
    <3>5. ASSUME NEW k \in DOMAIN schema.required
          PROVE  \E m \in Block(n) : Mentions(BodyLine(m), schema.required[k])
      <4>1. PICK m : Beneath(payload, s, m) /\ Mentions(BodyLine(m), schema.required[k])
        BY <1>5, <3>3, <3>5, Zenon DEF Backed, BodyLine
      <4>2. m \in Block(n)
        BY <1>6, <2>3, <4>1
      <4>3. QED
        BY <4>1, <4>2
    <3>6. ASSUME NEW m \in Block(n), IsToolLine(BodyLine(m))
          PROVE  \E tool \in schema.tools : Calls(BodyLine(m), tool)
      <4>1. m \in n..top
        BY <3>6, Zenon DEF Block
      <4>2. m \in 2..top /\ m \in 1..top
        BY <1>3, <2>1, <4>1
      <4>3. PICK u \in Pushes(p), r \in RoleLineNumbers :
                /\ r \in u.lines /\ m \in Block(r)
                /\ \E call \in Entries(u.tool_calls) : call.name = ToolRead(BodyLine(m))
        BY <1>7, <3>6, <4>2
      <4>4. r = n
        BY <1>3, <1>8, <3>6, <4>3, OneBlock
      <4>5. u = s
        BY <1>1, <2>2, <4>3, <4>4, Zenon DEF LinesInv, Attributed
      <4>6. PICK call \in Range(s.tool_calls) : call.name = ToolRead(BodyLine(m))
        BY <4>3, <4>5, Zenon DEF Entries, Range
      <4>7. PICK tool \in schema.tools : call.name = <<tool>>
        BY <3>3
      <4>8. BodyLine(m) \in Seq(Atoms)
        BY <2>5, <4>2
      <4>9. Calls(BodyLine(m), tool)
        BY <3>4, <3>6, <4>6, <4>7, <4>8, ToolIsRead
      <4>10. QED
        BY <4>9
    <3>7. ASSUME inband, Pointers \cap Range(schema.required) # {}
          PROVE  \E m \in Block(n) : HasCapability(BodyLine(m))
      <4>1. PICK i \in DOMAIN schema.required : schema.required[i] \in Pointers
        BY <3>7, Zenon DEF Range
      <4>2. /\ <<schema.required[i]>> \in DOMAIN s.kvpairs
            /\ HasCapability(s.kvpairs[<<schema.required[i]>>])
        BY <3>3, <3>7, <4>1, Zenon
      <4>3. PICK m : Beneath(payload, s, m) /\ HasCapability(BodyLine(m))
        BY <1>5, <4>2, Zenon DEF Backed, BodyLine
      <4>4. m \in Block(n)
        BY <1>6, <2>3, <4>3
      <4>5. QED
        BY <4>3, <4>4
    <3>8. QED
      BY <3>5, <3>6, <3>7, Zenon DEF BlockKeepsToSchema
  <2>9. QED
    BY <2>7, <2>8 DEF line
<1>9. ASSUME NEW n \in 2..top, IsToolLine(BodyLine(n))
      PROVE  \E r \in RoleLineNumbers : n \in Block(r)
  BY <1>7, <1>9
<1>10. QED
  BY <1>8, <1>9, Zenon

-----------------------------------------------------------------------------
\* A frame the validator calls valid keeps to the schemas of the roles it names, as one
\* reads it in its lines, and STRICT lets no header pass that the validator refuses.
\* Told is inductive because each step of a parser puts into a statement only what the
\* line it read says, and lines go into a statement in their order.
THEOREM ValidAlwaysKeepToSchema == Spec => []ValidFramesKeepToSchema
<1> DEFINE Inv == Told(tolerant) /\ HeaderComplete(strict)
<1>1. Init => Inv
  <2> SUFFICES ASSUME Init PROVE Inv
    OBVIOUS
  <2>1. PICK frame \in Frames : /\ strict = Start("STRICT", frame)
                                /\ tolerant = Start("TOLERANT", frame)
    BY Zenon DEF Init, Reads
  <2>2. frame \in Seq(Text)
    BY FramesAssumption
  <2>3. Told(tolerant)
    BY <2>1, <2>2, FreshTold
  <2>4. IsParser(strict) /\ strict.mode = "STRICT" /\ strict.phase = "start"
    BY <2>1 DEF Start, IsParser, Fields
  <2>5. HeaderComplete(strict)
    BY <2>4 DEF HeaderComplete
  <2>6. QED
    BY <2>3, <2>5
<1>2. Inv /\ [Next]_vars => Inv'
  <2> SUFFICES ASSUME Inv, [Next]_vars PROVE Inv'
    OBVIOUS
  <2> DEFINE s == strict
             t == tolerant
             s2 == strict'
             t2 == tolerant'
  <2>1. /\ Step(s, s2) \/ s2 = s
        /\ Step(t, t2) \/ t2 = t
    BY DEF Next, vars
  <2>2. Told(t) /\ HeaderComplete(s)
    OBVIOUS
  <2>3. Told(t2) /\ HeaderComplete(s2)
    <3> HIDE DEF s, t, s2, t2, Inv
    <3>1. QED
      BY <2>1, <2>2, StepKeepsTold, StepComplete
  <2>4. QED
    BY <2>3
<1>3. Inv => ValidFramesKeepToSchema
  BY ValidFrameKeeps, CompleteIsValid, Zenon DEF ValidFramesKeepToSchema
<1>4. QED
  BY <1>1, <1>2, <1>3, PTL DEF Spec
=============================================================================
