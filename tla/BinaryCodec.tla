---------------------------- MODULE BinaryCodec ----------------------------
(***************************************************************************)
(* BinaryEncoder (binary_encoder.hpp): a host puts a header and the        *)
(* statements it builds into one buffer; the buffer, perhaps cut short on  *)
(* its way, is decoded by another host the way fuzzer.cpp does it: the     *)
(* header, then one statement after another until the buffer is used up.   *)
(*                                                                         *)
(* Bytes are numbers and texts sequences of them, so a byte may be taken   *)
(* for an opcode, a length or a letter.  The map with the pairs of the     *)
(* statement at hand, the one being built and then the one being decoded,  *)
(* is the ordered_map of OrderedMap.                                       *)
(***************************************************************************)
EXTENDS OrderedMap

CONSTANTS
    Base,            \* what one byte of a length counts to: 128 in the code
    MaxLength,       \* the largest uint32_t
    Headers, Roles, ToolLists,  \* what is sent: see CodecAssumption
    Garbage,         \* buffers that no encoder made
    MaxPairs,        \* bound: pairs encoded in a behaviour
    MaxStatements,   \* bound: statements encoded in a behaviour
    MaxBuffer        \* bound: bytes encoded in a behaviour

VARIABLES
    phase,           \* "build", "wire", "header", "statement", "done", "refused"
    buffer, pos,     \* pos counts the bytes already read
    fields,          \* what decode_header() has read: <<[op, value], ...>>
    role, tool_calls,  \* of the statement being decoded
    received,        \* the statements decoded
    sent             \* history: [fields, statements, buffer] as encoded

statement == <<role, tool_calls>>
codecVars == <<vars, phase, buffer, pos, fields, statement, received, sent>>

Byte == 0..255
Text == Seq(Byte)

Continued == 128     \* the bit of a length byte that another one follows

OP_FALLBACK == 7  OP_HR == 8  OP_ROLE == 16  OP_TOOL_NAME == 32  OP_TOOL_ARG == 33
OP_TOOL_METHOD == 34  OP_KV == 35  OP_END_STATEMENT == 126

\* The statement fields that have an opcode of their own.
field_keys ==
    [op \in (17..21) \cup (24..29) |->
        CASE op = 17 -> <<116, 103, 116>> [] op = 18 -> <<97, 99, 116>>      \* tgt, act
          [] op = 19 -> <<71, 76>>        [] op = 20 -> <<84, 68>>           \* GL, TD
          [] op = 21 -> <<99, 116, 120>>  [] op = 24 -> <<101, 114, 114>>    \* ctx, err
          [] op = 25 -> <<114, 101, 113>> [] op = 26 -> <<100, 101, 112>>    \* req, dep
          [] op = 27 -> <<102, 110>>      [] op = 28 -> <<99, 108, 115>>     \* fn, cls
          [] op = 29 -> <<118, 97, 114>>]                                    \* var

FieldOpcodes(key) == {op \in DOMAIN field_keys : field_keys[op] = key}

Magic == <<76, 76, 77, 84>>

NoMethod == <<>>     \* std::optional as a sequence of at most one

\* Operators named Mutant... are variants of the definition that follows them
\* with a bug in it; they show which property notices that bug.

\* The texts whose length is a uint32_t.
Sendable == {text \in Text : Len(text) <= MaxLength}

\* A length of five bytes reaches every uint32_t; the arguments of a tool call are an
\* ordered_map, in which no key comes twice.
ASSUME CodecAssumption ==
    /\ Base \in {2, 4, 8, 16, 32, 64, Continued}
    /\ MaxLength \in 1..(Base * Base * Base * Base * Base - 1)
    /\ Headers \subseteq [texts : [1..6 -> Sendable], fallback : Sendable, hr : 0..9]
    /\ Roles \subseteq Sendable
    /\ ToolLists \subseteq
         Seq([name : Sendable, method : {m \in Seq(Sendable) : Len(m) <= 1},
              args : Seq([key : Sendable, value : Sendable])])
    /\ \A tools \in ToolLists : \A t \in DOMAIN tools :
         \A i, j \in DOMAIN tools[t].args :
            tools[t].args[i].key = tools[t].args[j].key => i = j
    /\ Garbage \subseteq Text
    /\ Keys \subseteq Sendable /\ Values \subseteq Sendable
    /\ {MaxPairs, MaxStatements, MaxBuffer} \subseteq Nat

-----------------------------------------------------------------------------
\* Encoding.

\* What is left of a length after each of the at most five shifts.
Shifted(value) ==
    LET next(n) == n \div Base
    IN  << value, next(value), next(next(value)), next(next(next(value))),
           next(next(next(next(value)))) >>

MutantOneByteMore(value) ==
    LET left == Shifted(value)
        size == CHOOSE n \in 1..5 : left[n] <= Base /\ \A m \in 1..(n - 1) : left[m] > Base
    IN  [i \in 1..size |-> (left[i] % Base) + (IF i < size THEN Continued ELSE 0)]

\* Least significant digit first; every byte but the last is marked.
encode_varint(value) ==
    LET left == Shifted(value)
        size == CHOOSE n \in 1..5 : left[n] < Base /\ \A m \in 1..(n - 1) : left[m] >= Base
    IN  [i \in 1..size |-> (left[i] % Base) + (IF i < size THEN Continued ELSE 0)]

Lengthened(text) == encode_varint(Len(text)) \o text

encode_string(op, value) == <<op>> \o Lengthened(value)

encode_kvpair(op, key, value) == <<op>> \o Lengthened(key) \o Lengthened(value)

\* The header's fields as they are encoded: six always, the others if set.
HeaderFields(h) ==
    [op \in 1..6 |-> [op |-> op, value |-> h.texts[op]]]
      \o (IF h.fallback = <<>> THEN <<>> ELSE <<[op |-> OP_FALLBACK, value |-> h.fallback]>>)
      \o (IF h.hr = 0 THEN <<>> ELSE <<[op |-> OP_HR, value |-> <<48 + h.hr>>]>>)

encode_header(h) ==
    Magic \o <<1>> \o FlattenSeq([i \in DOMAIN HeaderFields(h) |->
        encode_string(HeaderFields(h)[i].op, HeaderFields(h)[i].value)])

EncodedPair(pair) ==
    IF FieldOpcodes(pair.key) = {} THEN encode_kvpair(OP_KV, pair.key, pair.value)
    ELSE encode_string(CHOOSE op \in FieldOpcodes(pair.key) : TRUE, pair.value)

EncodedTool(tool) ==
    encode_string(OP_TOOL_NAME, tool.name)
      \o (IF tool.method = NoMethod THEN <<>> ELSE encode_string(OP_TOOL_METHOD, tool.method[1]))
      \o FlattenSeq([i \in DOMAIN tool.args |->
            encode_kvpair(OP_TOOL_ARG, tool.args[i].key, tool.args[i].value)])

encode_statement(name, kvpairs, tools) ==
    encode_string(OP_ROLE, name)
      \o FlattenSeq([i \in DOMAIN kvpairs |-> EncodedPair(kvpairs[i])])
      \o FlattenSeq([i \in DOMAIN tools |-> EncodedTool(tools[i])])
      \o <<OP_END_STATEMENT>>

-----------------------------------------------------------------------------
\* Decoding.  A result is whether nothing was thrown, what was read, and the
\* position behind it.

Refused(at) == [ok |-> FALSE, value |-> 0, pos |-> at]

\* How many bytes the loop of decode_varint() reads: up to the first that is not
\* marked; all that are left, if those are no more than five and all marked; or
\* it throws at the sixth (0 here).
VarintSize(b, at) ==
    LET ends == {n \in 1..5 : at + n <= Len(b) /\ b[at + n] < Continued}
    IN  IF ends # {} THEN Min(ends)
        ELSE IF Len(b) - at <= 5 THEN Len(b) - at
        ELSE 0

\* The digits that were read, put together in 64 bits.
VarintValue(b, at, size) ==
    LET digit(n) == IF n <= size THEN b[at + n] % Base ELSE 0
    IN  digit(1) + Base * (digit(2) + Base * (digit(3) + Base * (digit(4) + Base * digit(5))))

MutantNothingIsZero(b, at) ==
    LET size  == VarintSize(b, at)
        value == VarintValue(b, at, size)
    IN  IF at >= Len(b) THEN [ok |-> TRUE, value |-> 0, pos |-> at]
        ELSE IF size = 0 \/ value > MaxLength THEN Refused(at)
        ELSE [ok |-> TRUE, value |-> value, pos |-> at + size]

decode_varint(b, at) ==
    LET size  == VarintSize(b, at)
        value == VarintValue(b, at, size)
    IN  IF at >= Len(b) \/ size = 0 \/ value > MaxLength THEN Refused(at)
        ELSE [ok |-> TRUE, value |-> value, pos |-> at + size]

MutantTakesWhatIsThere(b, at) ==
    LET length == decode_varint(b, at)
        end    == length.pos + length.value
    IN  IF ~length.ok THEN Refused(at)
        ELSE [ok |-> TRUE, value |-> SubSeq(b, length.pos + 1, Min({end, Len(b)})), pos |-> end]

\* A length and the text of that length.
DecodedText(b, at) ==
    LET length == decode_varint(b, at)
        end    == length.pos + length.value
    IN  IF ~length.ok \/ end > Len(b) THEN Refused(at)
        ELSE [ok |-> TRUE, value |-> SubSeq(b, length.pos + 1, end), pos |-> end]

\* Both skip the opcode the caller has looked at.
decode_string(b, at) == DecodedText(b, at + 1)

decode_kvpair(b, at) ==
    LET key == DecodedText(b, at + 1)
        val == DecodedText(b, key.pos)
    IN  IF ~key.ok \/ ~val.ok THEN Refused(at)
        ELSE [ok |-> TRUE, value |-> [key |-> key.value, value |-> val.value], pos |-> val.pos]

-----------------------------------------------------------------------------
CodecInit ==
    /\ Init
    /\ phase = "build" /\ pos = 0
    /\ \E h \in Headers :
         /\ buffer = encode_header(h)
         /\ sent = [fields |-> HeaderFields(h), statements |-> <<>>, buffer |-> encode_header(h)]
    /\ fields = <<>> /\ received = <<>>
    /\ role = <<>> /\ tool_calls = <<>>

PairsSent == FoldLeft(LAMBDA n, s : n + Len(s.kvpairs), 0, sent.statements)

\* The host fills the map of its next statement.
BuildStatement ==
    /\ phase = "build" /\ Len(sent.statements) < MaxStatements
    /\ Next
    /\ sent.statements = <<>> \/ PairsSent + Len(data') <= MaxPairs
    /\ UNCHANGED <<phase, buffer, pos, fields, statement, received, sent>>

EncodeStatement(name, tools) ==
    /\ phase = "build" /\ Len(sent.statements) < MaxStatements
    /\ PairsSent + Len(data) <= MaxPairs
    /\ buffer' = buffer \o encode_statement(name, data, tools)
    /\ Len(buffer') <= MaxBuffer
    /\ sent' = [sent EXCEPT !.buffer = buffer',
                            !.statements = Append(@, [role |-> name, kvpairs |-> data,
                                                      tool_calls |-> tools])]
    /\ clear
    /\ UNCHANGED <<phase, pos, fields, statement, received>>

\* The buffer arrives, whole or cut short; or one arrives that no encoder made.
Deliver ==
    /\ phase = "build" /\ data = <<>>
    /\ phase' = "wire"
    /\ \/ \E n \in 0..Len(buffer) : buffer' = SubSeq(buffer, 1, n)
       \/ sent.statements = <<>> /\ buffer' \in Garbage
    /\ UNCHANGED <<vars, pos, fields, statement, received, sent>>

Refuse ==
    /\ phase' = "refused"
    /\ UNCHANGED <<vars, buffer, pos, fields, statement, received, sent>>

\* decode_header(): five bytes, the last of which is not looked at.
HasMagic == Len(buffer) >= 5 /\ SubSeq(buffer, 1, 4) = Magic

DecodeMagic ==
    /\ phase = "wire"
    /\ \/ ~HasMagic /\ Refuse
       \/ /\ HasMagic
          /\ phase' = "header" /\ pos' = 5
          /\ UNCHANGED <<vars, buffer, fields, statement, received, sent>>

op_byte == buffer[pos + 1]

AtHeaderField == pos < Len(buffer) /\ op_byte < OP_ROLE

DecodeHeaderField ==
    /\ phase = "header" /\ AtHeaderField
    /\ LET text == decode_string(buffer, pos)
       IN  \/ (op_byte \notin 1..OP_HR \/ ~text.ok) /\ Refuse
           \/ /\ op_byte \in 1..OP_HR /\ text.ok
              /\ fields' = Append(fields, [op |-> op_byte, value |-> text.value])
              /\ pos' = text.pos
              /\ UNCHANGED <<vars, phase, buffer, statement, received, sent>>

EndHeader ==
    /\ phase = "header" /\ ~AtHeaderField
    /\ phase' = IF pos < Len(buffer) THEN "statement" ELSE "done"
    /\ UNCHANGED <<vars, buffer, pos, fields, statement, received, sent>>

\* decode_statement(), one round of its loop at a time.
AtOpcode(codes) == phase = "statement" /\ pos < Len(buffer) /\ op_byte \in codes

\* The round that ends at `end` was the last: the next statement, if there are
\* bytes left, begins with nothing.
FinishStatement(end) ==
    /\ received' = Append(received, [role |-> role, kvpairs |-> data, tool_calls |-> tool_calls])
    /\ role' = <<>> /\ tool_calls' = <<>> /\ clear
    /\ pos' = end
    /\ phase' = IF end < Len(buffer) THEN "statement" ELSE "done"
    /\ UNCHANGED <<buffer, fields, sent>>

DecodeEnd == AtOpcode({OP_END_STATEMENT}) /\ FinishStatement(pos + 1)

\* The buffer ends before its end marker: the statement so far is returned.
RunOut == phase = "statement" /\ pos >= Len(buffer) /\ FinishStatement(pos)

GoOnBehind(text) ==
    /\ text.ok
    /\ pos' = text.pos
    /\ UNCHANGED <<phase, buffer, fields, received, sent>>

DecodeRole ==
    /\ AtOpcode({OP_ROLE})
    /\ LET text == decode_string(buffer, pos)
       IN  /\ GoOnBehind(text)
           /\ role' = text.value
           /\ UNCHANGED <<vars, tool_calls>>

DecodeToolName ==
    /\ AtOpcode({OP_TOOL_NAME})
    /\ LET text == decode_string(buffer, pos)
       IN  /\ GoOnBehind(text)
           /\ tool_calls' = Append(tool_calls,
                                   [name |-> text.value, method |-> NoMethod, args |-> <<>>])
           /\ UNCHANGED <<vars, role>>

DecodeToolMethod ==
    /\ AtOpcode({OP_TOOL_METHOD}) /\ tool_calls # <<>>
    /\ LET text == decode_string(buffer, pos)
       IN  /\ GoOnBehind(text)
           /\ tool_calls' = [tool_calls EXCEPT ![Len(tool_calls)].method = <<text.value>>]
           /\ UNCHANGED <<vars, role>>

\* m[k] = v on the ordered_map of a tool call's arguments.
Assigned(pairs, pair) ==
    IF \E i \in DOMAIN pairs : pairs[i].key = pair.key
    THEN [i \in DOMAIN pairs |-> IF pairs[i].key = pair.key THEN pair ELSE pairs[i]]
    ELSE Append(pairs, pair)

DecodeToolArg ==
    /\ AtOpcode({OP_TOOL_ARG}) /\ tool_calls # <<>>
    /\ LET pair == decode_kvpair(buffer, pos)
       IN  /\ GoOnBehind(pair)
           /\ tool_calls' = [tool_calls EXCEPT ![Len(tool_calls)].args = Assigned(@, pair.value)]
           /\ UNCHANGED <<vars, role>>

DecodePair ==
    /\ AtOpcode({OP_KV})
    /\ LET pair == decode_kvpair(buffer, pos)
       IN  /\ GoOnBehind(pair)
           /\ insert_or_assign(pair.value.key, pair.value.value)
           /\ UNCHANGED statement

DecodeField ==
    /\ AtOpcode(DOMAIN field_keys)
    /\ LET text == decode_string(buffer, pos)
       IN  /\ GoOnBehind(text)
           /\ insert_or_assign(field_keys[op_byte], text.value)
           /\ UNCHANGED statement

\* What decode_statement() throws for.
MayDecode ==
    CASE op_byte = OP_END_STATEMENT -> TRUE
      [] op_byte \in {OP_TOOL_METHOD} -> tool_calls # <<>> /\ decode_string(buffer, pos).ok
      [] op_byte \in {OP_TOOL_ARG} -> tool_calls # <<>> /\ decode_kvpair(buffer, pos).ok
      [] op_byte = OP_KV -> decode_kvpair(buffer, pos).ok
      [] op_byte \in {OP_ROLE, OP_TOOL_NAME} \cup DOMAIN field_keys -> decode_string(buffer, pos).ok
      [] OTHER -> FALSE

RefuseStatement == phase = "statement" /\ pos < Len(buffer) /\ ~MayDecode /\ Refuse

DecodeStatement ==
    \/ DecodeEnd \/ RunOut \/ RefuseStatement
    \/ DecodeRole \/ DecodePair \/ DecodeField
    \/ DecodeToolName \/ DecodeToolMethod \/ DecodeToolArg

CodecNext ==
    \/ BuildStatement
    \/ \E name \in Roles, tools \in ToolLists : EncodeStatement(name, tools)
    \/ Deliver
    \/ DecodeMagic \/ DecodeHeaderField \/ EndHeader
    \/ DecodeStatement

CodecSpec == CodecInit /\ [][CodecNext]_codecVars

-----------------------------------------------------------------------------
IsPairs(pairs) == pairs \in Seq([key : Text, value : Text])

IsTools(tools) == tools \in Seq([name : Text, method : Seq(Text),
                                 args : Seq([key : Text, value : Text])])

\* The decoder never reads behind the buffer, whatever bytes it is given, and what it
\* makes of them are texts.
CodecTypeOK ==
    /\ phase \in {"build", "wire", "header", "statement", "done", "refused"}
    /\ buffer \in Text
    /\ pos \in 0..Len(buffer)
    /\ fields \in Seq([op : 1..OP_HR, value : Text])
    /\ IsPairs(data) /\ role \in Text /\ IsTools(tool_calls)
    /\ received \in Seq([role : Text, kvpairs : Seq([key : Text, value : Text]),
                         tool_calls : Seq([name : Text, method : Seq(Text),
                                           args : Seq([key : Text, value : Text])])])

Intact == buffer = sent.buffer

\* A buffer that arrives whole is never refused and decodes to what was encoded: the
\* fields of the header, every pair in its order, every tool call with its method
\* and its arguments.
RoundTrip ==
    Intact => /\ phase # "refused"
              /\ phase = "done" => fields = sent.fields /\ received = sent.statements

\* What a message says, one text after another.
Item(what, key, value) == [what |-> what, key |-> key, value |-> value]

PairItems(what, pairs) == [i \in DOMAIN pairs |-> Item(what, pairs[i].key, pairs[i].value)]

ToolItems(tool) ==
    <<Item("tool", <<>>, tool.name)>>
      \o [i \in DOMAIN tool.method |-> Item("method", <<>>, tool.method[i])]
      \o PairItems("arg", tool.args)

StatementItems(s) ==
    <<Item("role", <<>>, s.role)>> \o PairItems("pair", s.kvpairs)
      \o FlattenSeq([i \in DOMAIN s.tool_calls |-> ToolItems(s.tool_calls[i])])

Items(header, statements) ==
    [i \in DOMAIN header |-> Item("header", <<header[i].op>>, header[i].value)]
      \o FlattenSeq([i \in DOMAIN statements |-> StatementItems(statements[i])])

Got == Items(fields, received)
Meant == Items(sent.fields, sent.statements)

\* A buffer cut short is refused or loses only its end: what decodes is what the
\* encoder put first, but the last text may come out empty (see NothingIsMadeUp).
CutsLoseOnlyTheEnd ==
    phase = "done" /\ IsPrefix(buffer, sent.buffer) /\ Got # <<>> =>
        /\ IsPrefix(Front(Got), Meant)
        /\ Last(Got) \in {Meant[Len(Got)], [Meant[Len(Got)] EXCEPT !.value = <<>>]}

\* "Every other underflow in this decoder throws" (decode_varint): a text that was
\* cut off is never passed off as another one.
NothingIsMadeUp ==
    phase = "done" /\ IsPrefix(buffer, sent.buffer) => IsPrefix(Got, Meant)
=============================================================================
