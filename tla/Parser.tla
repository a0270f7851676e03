------------------------------- MODULE Parser -------------------------------
(***************************************************************************)
(* LLMTOPParser (parser_v2.hpp): parse() over the lines of a frame, with   *)
(* the helpers that cut a line into tokens.                                *)
(*                                                                         *)
(* A line is a sequence of atoms: a word (letters, digits, '_'; never two  *)
(* in a row), or one character that the parser looks for.  Keys, values,   *)
(* roles and names are sequences of atoms, a map of pairs is a function.   *)
(* A parser is a record, and an action a relation between the parser p     *)
(* before and the parser q after it, so that several can run on one frame. *)
(***************************************************************************)
EXTENDS Integers, Sequences, FiniteSetsExt, SequencesExt

CONSTANTS
    Words, Numbers,        \* Numbers: the words std::stoi reads
    MaxSize                \* max_size_, in atoms

Quote == "\""
Backslash == "\\"
\* Operators named Mutant... are variants of the definition that follows them
\* with a bug in it; they show which property notices that bug.

White == {" ", "tab", "cr"}
Punctuation == {"[", "]", "!", ">", ":", ";", "=", "newline", Quote, Backslash} \cup White
Atoms == Words \cup Punctuation
Text == Seq(Atoms)

HeaderKeys == {"VER", "CHK", "AGT", "UID", "TIM", "REQID", "FALLBACK", "HR"}
Required == {"VER", "CHK", "AGT", "REQID"}

ASSUME ParserAssumption ==
    /\ HeaderKeys \subseteq Words /\ Numbers \subseteq Words
    /\ Words \cap Punctuation = {}
    /\ MaxSize \in Nat

NoPairs == [k \in {} |-> <<>>]
NoMethod == <<>>          \* std::optional as a sequence of at most one

\* lines: which lines of the payload were read into the statement (history).
EmptyStatement == [role |-> <<>>, kvpairs |-> NoPairs, tool_calls |-> <<>>, lines |-> {}]

-----------------------------------------------------------------------------
\* Lines.

Find(s, a) == SelectInSeq(s, LAMBDA b : b = a)     \* 0 for npos
Before(s, i) == SubSeq(s, 1, i - 1)
After(s, i) == SubSeq(s, i + 1, Len(s))

trim(s) ==
    LET ink == {i \in DOMAIN s : s[i] \notin White}
    IN  IF ink = {} THEN <<>> ELSE SubSeq(s, Min(ink), Max(ink))

is_header_continuation(s) ==
    LET colon == Find(s, ":")
    IN  /\ Find(s, " ") = 0
        /\ colon = 2 /\ s[1] \in HeaderKeys

\* The scan of parse() for an unclosed quote: '\' escapes everywhere.
HasOpenQuote(line) ==
    LET step(q, a) == IF q.escape THEN [q EXCEPT !.escape = FALSE]
                      ELSE [open |-> (a = Quote) # q.open, escape |-> a = Backslash]
    IN  FoldLeft(step, [open |-> FALSE, escape |-> FALSE], line).open

\* The scan of lex_split() and parseToolCall(): '\' escapes inside quotes only.
Unquoted == [open |-> FALSE, escape |-> FALSE]

AfterAtom(q, a) ==
    IF q.escape THEN [q EXCEPT !.escape = FALSE]
    ELSE [open |-> (a = Quote) # q.open, escape |-> a = Backslash /\ q.open]

lex_split(s, delim) ==
    LET kept(l)    == IF l.current = <<>> THEN l.tokens ELSE Append(l.tokens, l.current)
        step(l, a) == IF a = delim /\ ~l.quote.open
                      THEN [l EXCEPT !.tokens = kept(l), !.current = <<>>]
                      ELSE [l EXCEPT !.current = Append(@, a), !.quote = AfterAtom(@, a)]
    IN  kept(FoldLeft(step, [tokens |-> <<>>, current |-> <<>>, quote |-> Unquoted], s))

\* After '\': a word stands for its letter n, t or r only if it is that word.
Escapes ==
    [a \in {"n", "t", "r", Quote, Backslash} |->
        CASE a = "n" -> "newline" [] a = "t" -> "tab" [] a = "r" -> "cr" [] OTHER -> a]

unquote_and_unescape(v) ==
    LET step(u, a) ==
            IF u.escape
            THEN [escape |-> FALSE,
                  out |-> u.out \o (IF a \in DOMAIN Escapes THEN <<Escapes[a]>>
                                    ELSE <<Backslash, a>>)]
            ELSE IF a = Backslash THEN [u EXCEPT !.escape = TRUE]
            ELSE [u EXCEPT !.out = Append(@, a)]
        inner == FoldLeft(step, [escape |-> FALSE, out |-> <<>>], SubSeq(v, 2, Len(v) - 1))
    IN  IF Len(v) < 2 \/ Head(v) # Quote \/ Last(v) # Quote THEN v
        ELSE IF inner.escape THEN Append(inner.out, Backslash)
        ELSE inner.out

-----------------------------------------------------------------------------
\* Pairs: of a statement and of a tool call.  A result is what was stored and the
\* kinds of errors handed to handleError().

ErrorIf(condition, kind) == IF condition THEN {kind} ELSE {}

\* Where key and value meet: the first ':', or '=' after a bare identifier.
Separator(token) ==
    LET colon  == Find(token, ":")
        equals == Find(token, "=")
        bare   == equals > 1 /\ \A i \in 1..(equals - 1) : token[i] \in Words
        found  == ({colon} \cup IF bare THEN {equals} ELSE {}) \ {0}
    IN  IF found = {} THEN 0 ELSE Min(found)

\* A map with an entry assigned, whether or not it had the key.
WithPair(pairs, key, value) ==
    [k \in {key} \cup DOMAIN pairs |-> IF k = key THEN value ELSE pairs[k]]

Stored(r, token, sep) ==
    LET key == Before(token, sep)
    IN  IF sep = 0
        THEN [r EXCEPT !.errors = @ \cup {"malformed"}]
        ELSE [pairs  |-> WithPair(r.pairs, key, unquote_and_unescape(After(token, sep))),
              errors |-> r.errors \cup ErrorIf(key \in DOMAIN r.pairs, "duplicate")]

Onto(pairs) == [pairs |-> pairs, errors |-> {}]

parseKVPairs(line, kvpairs) ==
    FoldLeft(LAMBDA r, token : Stored(r, token, Separator(token)),
             Onto(kvpairs), lex_split(line, " "))

\* The first ']' after position start that is not in quotes, or 0.
BracketEnd(line, start) ==
    LET step(b, a) == IF b.found THEN b
                      ELSE [at |-> b.at + 1, quote |-> AfterAtom(b.quote, a),
                            found |-> a = "]" /\ ~b.quote.open]
        last       == FoldLeft(step, [at |-> start, quote |-> Unquoted, found |-> FALSE],
                               After(line, start))
    IN  IF last.found THEN last.at ELSE 0

parseToolCall(line) ==
    LET start  == Find(line, "[")
        end    == IF start = 0 THEN 0 ELSE BracketEnd(line, start)
        args   == IF end = 0 THEN Onto(NoPairs)
                  ELSE FoldLeft(LAMBDA r, arg : Stored(r, arg, Find(arg, "=")), Onto(NoPairs),
                                lex_split(SubSeq(line, start + 1, end - 1), ";"))
        marker == IF start = 0 THEN Find(line, ">")
                  ELSE IF end = 0 \/ Find(After(line, end), ">") = 0 THEN 0
                  ELSE end + Find(After(line, end), ">")
        nameTo == IF start # 0 THEN start ELSE IF marker # 0 THEN marker ELSE Len(line) + 1
    IN  [call   |-> [name   |-> trim(SubSeq(line, 2, nameTo - 1)),
                     args   |-> args.pairs,
                     method |-> IF marker = 0 THEN NoMethod ELSE <<trim(After(line, marker))>>],
         errors |-> args.errors \cup ErrorIf(start # 0 /\ end = 0, "unclosed")]

-----------------------------------------------------------------------------
\* The header: each token sets its field; HR is read as a number.

SetField(r, token) ==
    LET colon == Find(token, ":")
        key   == Before(token, colon)
        val   == After(token, colon)
    IN  IF colon = 0 \/ Len(key) # 1 \/ key[1] \notin HeaderKeys
        THEN [r EXCEPT !.errors = @ \cup {"header"}]
        ELSE IF key[1] = "HR" /\ (val = <<>> \/ val[1] \notin Numbers)
        THEN [r EXCEPT !.fields["HR"] = <<>>, !.errors = @ \cup {"header"}]
        ELSE [r EXCEPT !.fields[key[1]] = IF key[1] = "HR" THEN <<val[1]>> ELSE val]

NoFields == [k \in HeaderKeys |-> <<>>]

parseHeader(header_line) ==
    FoldLeft(SetField, [fields |-> NoFields, errors |-> {}], lex_split(header_line, " "))

MissingField(fields) == \E k \in Required : fields[k] = <<>>

-----------------------------------------------------------------------------
\* parse().

Size(payload) == FoldLeft(LAMBDA n, line : n + Len(line) + 1, 0, payload)

Start(mode, payload) ==
    [mode                |-> mode,
     payload             |-> payload,
     at                  |-> 0,          \* lines taken from the stream
     mark                |-> 0,          \* where parse() will seek back to, in lines
     phase               |-> "start",
     header_line         |-> <<>>,
     header              |-> NoFields,
     current_stmt        |-> EmptyStatement,
     has_role            |-> FALSE,
     current_stmt_healed |-> FALSE,
     statements          |-> <<>>,
     healed_draft        |-> <<>>,
     recovery_attempted  |-> FALSE,
     diagnostic          |-> {}]

Stopped(p) == p.phase \in {"done", "threw"}

\* The next line, trimmed.
Probe(p) == trim(p.payload[p.at + 1])
MoreLines(p) == p.at < Len(p.payload)

MutantQuotePasses(p, r, errors) ==
    IF p.mode = "STRICT" /\ errors \ {"quote"} # {}
    THEN [p EXCEPT !.phase = "threw"]
    ELSE [r EXCEPT !.diagnostic = @ \cup {[line |-> r.at, kind |-> e] : e \in errors}]

\* p goes on as r, having called handleError() for each of errors; in STRICT mode
\* the first one throws.
Reporting(p, r, errors) ==
    IF p.mode = "STRICT" /\ errors # {}
    THEN [p EXCEPT !.phase = "threw"]
    ELSE [r EXCEPT !.diagnostic = @ \cup {[line |-> r.at, kind |-> e] : e \in errors}]

Oversized(p) == Size(p.payload) > MaxSize

Refuse(p, q) ==
    /\ p.phase = "start"
    /\ \/ /\ Oversized(p)
          /\ q = Reporting(p, [p EXCEPT !.phase = "done"], {"oversized"})
       \/ /\ p.payload = <<>>
          /\ q = Reporting(p, [p EXCEPT !.phase = "done"], {"empty"})

MutantKeepsReturn(p, q) ==
    /\ p.phase = "start" /\ ~Oversized(p) /\ p.payload # <<>>
    /\ q = [p EXCEPT !.phase = "header", !.at = 1, !.mark = 1, !.header_line = p.payload[1]]

ReadHeaderLine(p, q) ==
    /\ p.phase = "start" /\ ~Oversized(p) /\ p.payload # <<>>
    /\ q = [p EXCEPT !.phase = "header", !.at = 1, !.mark = 1, !.header_line = Probe(p)]

BelongsToHeader(p) ==
    MoreLines(p) /\ (Probe(p) = <<>> \/ is_header_continuation(Probe(p)))

MutantForgetsMark(p, q) ==
    /\ p.phase = "header" /\ BelongsToHeader(p)
    /\ q = [p EXCEPT !.at = @ + 1,
                     !.header_line = IF Probe(p) = <<>> THEN @ ELSE @ \o <<" ">> \o Probe(p)]

FoldLine(p, q) ==
    /\ p.phase = "header" /\ BelongsToHeader(p)
    /\ q = [p EXCEPT !.at = @ + 1, !.mark = p.at + 1,
                     !.header_line = IF Probe(p) = <<>> THEN @ ELSE @ \o <<" ">> \o Probe(p)]

\* The line that ended the loop is given back: reading goes on at the mark.
ParseHeader(p, q) ==
    /\ p.phase = "header" /\ ~BelongsToHeader(p)
    /\ LET header  == parseHeader(p.header_line)
           missing == p.mode = "STRICT" /\ MissingField(header.fields)
       IN  q = Reporting(p, [p EXCEPT !.phase = "body", !.at = p.mark,
                                      !.header = header.fields],
                         header.errors \cup ErrorIf(missing, "missing"))

HasStatement(p) ==
    p.has_role \/ DOMAIN p.current_stmt.kvpairs # {} \/ p.current_stmt.tool_calls # <<>>

MutantForgetsAttempt(p) ==
    IF p.current_stmt_healed
    THEN [p EXCEPT !.healed_draft = Append(@, p.current_stmt)]
    ELSE [p EXCEPT !.statements = Append(@, p.current_stmt)]

\* push_current_stmt().
Pushed(p) ==
    IF p.current_stmt_healed
    THEN [p EXCEPT !.healed_draft = Append(@, p.current_stmt), !.recovery_attempted = TRUE]
    ELSE [p EXCEPT !.statements = Append(@, p.current_stmt)]

Flushed(p) ==
    IF HasStatement(p)
    THEN [Pushed(p) EXCEPT !.current_stmt = EmptyStatement, !.current_stmt_healed = FALSE]
    ELSE p

SkipBlank(p, q) ==
    /\ p.phase = "body" /\ MoreLines(p) /\ Probe(p) = <<>>
    /\ q = [p EXCEPT !.at = @ + 1]

IsRoleLine(line) == line # <<>> /\ Head(line) = "["
IsToolLine(line) == line # <<>> /\ Head(line) = "!"

\* The errors that set current_stmt_healed where they are reported: a quote or a
\* bracket is put in, the second of two values kept.  In STRICT mode they throw.
Heals(errors) == errors \cap {"quote", "bracket", "duplicate"} # {}

\* The line just read belongs to the current statement, and so do its repairs.
Charged(p, errors) ==
    [p EXCEPT !.at = @ + 1,
              !.current_stmt.lines = @ \cup {p.at + 1},
              !.current_stmt_healed = @ \/ Heals(errors)]

Requoted(line) == IF HasOpenQuote(line) THEN Append(line, Quote) ELSE line

Rebracketed(line) ==
    LET space == Find(line, " ")
    IN  IF Find(line, "]") # 0 THEN line
        ELSE IF space = 0 THEN Append(line, "]")
        ELSE Before(line, space) \o <<"]">> \o SubSeq(line, space, Len(line))

QuoteError(line) == ErrorIf(HasOpenQuote(line), "quote")

\* A role line sets the role and the pairs behind it.
WithRole(statement, line) ==
    LET whole == Rebracketed(Requoted(line))
        end   == Find(whole, "]")
    IN  [statement EXCEPT !.role = SubSeq(whole, 2, end - 1),
                          !.kvpairs = parseKVPairs(After(whole, end), @).pairs]

RoleErrors(statement, line) ==
    LET whole == Rebracketed(Requoted(line))
    IN  QuoteError(line)
          \cup ErrorIf(Find(Requoted(line), "]") = 0, "bracket")
          \cup parseKVPairs(After(whole, Find(whole, "]")), statement.kvpairs).errors

MutantHealsFirst(p, q) ==
    /\ p.phase = "body" /\ MoreLines(p) /\ IsRoleLine(Probe(p))
    /\ LET r      == Flushed([p EXCEPT !.current_stmt_healed = @ \/ HasOpenQuote(Probe(p))])
           errors == RoleErrors(r.current_stmt, Probe(p))
       IN  q = Reporting(p, Charged([r EXCEPT !.current_stmt = WithRole(@, Probe(p)),
                                              !.has_role = TRUE],
                                    errors \ {"quote"}),
                         errors)

ReadRole(p, q) ==
    /\ p.phase = "body" /\ MoreLines(p) /\ IsRoleLine(Probe(p))
    /\ LET r      == Flushed(p)
           errors == RoleErrors(r.current_stmt, Probe(p))
       IN  q = Reporting(p, Charged([r EXCEPT !.current_stmt = WithRole(@, Probe(p)),
                                              !.has_role = TRUE],
                                    errors),
                         errors)

ReadTool(p, q) ==
    /\ p.phase = "body" /\ MoreLines(p) /\ IsToolLine(Probe(p))
    /\ LET tool   == parseToolCall(Requoted(Probe(p)))
           errors == QuoteError(Probe(p)) \cup tool.errors
       IN  q = Reporting(p, Charged([p EXCEPT !.current_stmt.tool_calls = Append(@, tool.call)],
                                    errors),
                         errors)

ReadPairs(p, q) ==
    /\ p.phase = "body" /\ MoreLines(p)
    /\ Probe(p) # <<>> /\ ~IsRoleLine(Probe(p)) /\ ~IsToolLine(Probe(p))
    /\ LET pairs  == parseKVPairs(Requoted(Probe(p)), p.current_stmt.kvpairs)
           errors == QuoteError(Probe(p)) \cup pairs.errors
       IN  q = Reporting(p, Charged([p EXCEPT !.current_stmt.kvpairs = pairs.pairs], errors),
                         errors)

Finish(p, q) ==
    /\ p.phase = "body" /\ ~MoreLines(p)
    /\ q = [(IF HasStatement(p) THEN Pushed(p) ELSE p) EXCEPT !.phase = "done"]

Step(p, q) ==
    \/ Refuse(p, q)
    \/ ReadHeaderLine(p, q)
    \/ FoldLine(p, q)
    \/ ParseHeader(p, q)
    \/ SkipBlank(p, q)
    \/ ReadRole(p, q)
    \/ ReadTool(p, q)
    \/ ReadPairs(p, q)
    \/ Finish(p, q)

-----------------------------------------------------------------------------
IsMap(m) == \A key \in DOMAIN m : key \in Text /\ m[key] \in Text

IsStatement(s, payload) ==
    /\ s.role \in Text
    /\ IsMap(s.kvpairs)
    /\ \A k \in DOMAIN s.tool_calls :
          /\ s.tool_calls[k].name \in Text
          /\ IsMap(s.tool_calls[k].args)
          /\ s.tool_calls[k].method \in Seq(Text) /\ Len(s.tool_calls[k].method) <= 1
    /\ s.lines \subseteq DOMAIN payload

ParserTypeOK(p) ==
    /\ p.mode \in {"STRICT", "TOLERANT"}
    /\ p.payload \in Seq(Text)
    /\ {p.at, p.mark} \subseteq 0..Len(p.payload)
    /\ p.phase \in {"start", "header", "body", "done", "threw"}
    /\ p.header_line \in Text
    /\ p.header \in [HeaderKeys -> Text]
    /\ \A s \in {p.current_stmt} \cup Range(p.statements) \cup Range(p.healed_draft) :
          IsStatement(s, p.payload)
    /\ {p.has_role, p.current_stmt_healed, p.recovery_attempted} \subseteq BOOLEAN
    /\ p.recovery_attempted = (p.healed_draft # <<>>)
    /\ p.diagnostic \subseteq [line : 0..Len(p.payload),
                               kind : {"oversized", "empty", "header", "quote", "bracket",
                                       "malformed", "duplicate", "unclosed"}]
=============================================================================
