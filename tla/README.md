# Verification of LLM-TOP

LLM-TOP is a compact text protocol in which a language model states what it
wants to do: a header line, then statements with a role, key/value pairs and
tool calls. The C++20 library under `src/` parses such a frame, heals or rejects
what is malformed, validates it, and decides in a middleware which of its
pointers and tool calls the host may execute. This directory holds TLA+ models
of that library, their TLC configurations and TLAPS proofs.

All code is header-only; line numbers in `PROJECT.json` refer to `src/`.

## Inventory

| Component | State | Operations | Hard behaviour |
|---|---|---|---|
| `IdempotencyStore` (`middleware.hpp`) | `seen_requests_`, `history_`, `mutex_` | `record_request`, `is_replayed`, `clear` | clock moves during a call, capacity, expiry order |
| `LLMTOPMiddleware` (`middleware.hpp`) | three atomic flags, session grants under `session_mutex_`, the store | `evaluate`, `grant_session_capability`, `revoke_session_capabilities`, `set_*`, `clear_idempotency_store` | threads evaluate while the host reconfigures; several looks at the same flag; partial failure |
| `SimpleJWTValidator` (`middleware.hpp`) | verifiers, expected issuer and audience | `verify`, `create_token`, `register_verifier` | expiry read from the clock at each use |
| path and scope matching (`middleware.hpp`) | none (pure) | `normalize_path_segment`, `normalize_segments`, `segment_matches`, `path_glob_matches_segs`, `scope_matches`, `escapes_root` | two normalizers that must agree, `..`, the segment limit |
| `ordered_map` (`parser_v2.hpp`) | `data_`, `index_` | `operator[]`, `at`, `find`, `insert_or_assign`, `erase`, `clear` | index kept in step with a deque |
| `LLMTOPParser` (`parser_v2.hpp`) | current statement, heal flag, stream position | `parse` and its helpers, STRICT and TOLERANT | which statement a heal is charged to, header folding |
| `SchemaValidator` (`schema_validator.hpp`) | role schemas | `validate` | which errors are reported |
| `FallbackRecoveryManager` (`fallback_recovery.hpp`) | none | `analyze_and_recover` | classification of half-healed frames |
| checksum stamping (`chk.hpp`) | none (pure) | `canonical_for_chk`, `compute_chk`, `stamp_chk` | which line carries CHK, what is hashed on each side |
| `SHA256`, `HMAC_SHA256` (`sha256.hpp`) | `state_`, `count_`, `buf_`, `buf_len_`, `digest_`, `finalized_` | `update`, `finalize`, `reset`, `compute` | block buffering at every fill, padding, reuse after `finalize` |
| `BinaryEncoder` (`binary_encoder.hpp`) | read position | `encode_*`, `decode_*` | truncation, varint limits, foreign buffers |
| `Cl100kTokenizer` (`tokenizer.hpp`) | ranks; per-call nodes and heap | `encode`, `decode` | stale heap entries, tie order |
| tools, tests, fuzzer, scripts | - | - | not modelled |

How they interact: a host feeds text to the parser (or binary data to the
encoder, which yields the same `Statement`); the validator and the recovery
manager read the AST; the middleware reads the AST, recomputes the checksum, asks
the validator of tokens and its own grants with the scope matcher, records the
request id in the store, and returns an `ExecutionPlan`. Only the middleware and
the store are shared by threads. Nothing is persisted, so there is no crash
recovery to model: a restart loses store and grants together.

What makes each correct: the **store** accepts a key at most once per time to
live and never trades a live guard for space; the **middleware** approves only
what a grant or token covers, authorizes only whole frames, does not burn ids of
rejected requests, and always returns; **scope matching** turns a path into what
it means and never lets a match leave the grant's literal part; **ordered_map**
is a map that remembers insertion order; the **parser** must trust only what it
did not heal; **codec** and **tokenizer** must be inverses and equal to their
naive references; the **recovery** classification must follow from the AST;
the **checksum** must verify what was stamped and nothing that reads differently,
and the **hash** must not depend on how its input was cut into calls.

## Modules

| Module | Models |
|---|---|
| `ReplayGuard` | abstract: what the store promises - guards with a time to live, answers to calls |
| `IdempotencyStore` | the store; one step per reading of the clock inside a call |
| `IdempotencyStoreProofs` | invariants of the store and its refinement of `ReplayGuard` |
| `Middleware` | EXTENDS `IdempotencyStore`: threads in `evaluate()`, and the host |
| `MiddlewareProofs` | it uses the store only through its operations; its invariants for any number of threads |
| `ScopeMatching` | both path normalizers as loops, segment and path globs, scopes, `escapes_root` |
| `ScopeMatchingProofs` | the two loops agree, a normalized path is what the path means, escapes are told, matches are confined |
| `InsertionOrder` | abstract: a map that remembers the order of its keys |
| `OrderedMap` | `ordered_map` and its refinement of `InsertionOrder` |
| `Parser` | `LLMTOPParser::parse()` and its scanners, as actions relating a parser record before and after |
| `FrameParsing` | three parsers in lockstep on one frame (STRICT, TOLERANT, TOLERANT with CRLF), the action `analyze_and_recover()` chooses, and the validator's verdict |
| `SchemaValidator` | EXTENDS `Parser`: the schemas and `validate()` over an AST |
| `FrameParsingProofs` | the STRICT and the TOLERANT parser agree; line endings do not matter; lines and repairs are charged to the right statement; a stamped frame verifies, an altered one does not unless it is read as it was sent; a valid one keeps to the schemas that its text names |
| `PairMerge` | abstract: the rescanning `reference_bpe()` of `test_tokenizer.cpp` |
| `Tokenizer`, `TokenizerProofs` | `encode()`: the pre-token split and the heap-driven merge loop, `decode()`; refinement of `PairMerge`, the split against the pattern, decoding |
| `Extremes` | facts for these proofs on the least and the greatest of a set of numbers, and on folds |
| `BinaryCodec` | EXTENDS `OrderedMap`: a host encodes, the buffer may be cut or be foreign, another host decodes |
| `BinaryCodecProofs` | the map's invariant and its refinement; the decoder stays within any buffer; what is encoded is decoded; a cut costs only the end |
| `FrameChecksum` | EXTENDS `FrameParsing`: a frame is stamped, delivered perhaps altered, parsed and compared |
| `Sha256Stream`, `Sha256StreamProofs` | `class SHA256` and `HMAC_SHA256::compute()`; losslessness, digest and HMAC against FIPS 180-4 and RFC 2104 |
| `MC*` | the instances that TLC checks |

### The store

`seen_requests` and `history` are `seen_requests_` and `history_`; `mutex` is the
thread inside. `record_request()` is `BeginRecord` (lock), any number of
`PruneExpired`, one `EndPrune`, and one of `AnswerReplay`,
`AnswerCapacityExceeded`, `AnswerRecorded` (unlock); the clock (`Tick`) may move
between any two, because `get_unix_timestamp()` is called once for each entry
tested and once for the timestamp. `is_replayed()` reads the clock once and is one
step. The stored checksum is never read and is left out. `StepBack` is a wall clock
set back; it is part of `SkewedSpec` only.

The refinement maps `seen_requests_` to the abstract guards. A refusal is decided,
for `ReplayGuard`, when pruning ends, the last moment at which all guards of the
map are known to be live: this is `GuardAnswer`.

### The middleware

A thread's `evaluate()` is a sequence of steps, one for each look at something
shared: the checksum flag (`CheckFrame`), the enforcement flag (`ReadEnforced`),
the store (`Lookup`), the proxy flag (`DecideCheck`, `EnterProxy`), the grants,
once for each scope asked (`AskProxy`), the enforcement flag again (`Consume`),
and the store's own steps (`CallRecord` to `RefuseRecord`). Conditions on the
frame alone join the step that follows. Early returns are `Reject`: they leave what
the plan has approved so far in it, as the code does; only the two refusals after
`record_request()` clear `approved_actions`, and nothing clears
`approved_pointers` and `approved_tools`.

Abstractions: a frame is its header identity, whether its checksum is right, and
the sequence of its checks, pointers before tools in each statement; a resource
arrives normalized, with whether it escapes; scope matching is the relation
`ScopeMatches` (see `ScopeMatching`); a token is whether its signature verifies,
subject, expiry and scope (`verify`). An identifier is a sequence of characters only for the
sake of the `':'` that joins the store's key. The vector of an agent's grants is a
set: it is only searched. `executed`, `epoch`, `held`, `uncovered`, `started` are history
variables of the properties.

### Scope matching

A path is the sequence of pieces between separators, so both separators are one
and an absolute path begins with an empty piece. Each step reads one piece of the
grant's or the request's path and takes one round of the loops of
`normalize_path_segment()` and `normalize_segments()`. Matching is defined on what
the loops left. Resources with a `':'` in a piece other than a drive are not
modelled. The meaning of a path (`Resolved`) is stated without a stack: a `..`
cancels the nearest name before it that is not cancelled, like brackets.

### ordered_map

`data` and `index` with the code's operations; positions count from one.
`m[k] = v` is `insert_or_assign`; `m[k]` read alone is `subscript`. `at` and `find` change nothing.

### The parser

`Parser` has no variables: a parser is a record of the locals of `parse()` and the
fields of its AST, and an action is a relation between the record before and after.
So `FrameParsing` runs three of them on one frame at the same pace. `at` counts
lines taken from the stream and `mark` the position that `tellg()` gave, in lines; the first
line is `ReadHeaderLine`, each line folded into the header or blank in front of the body
`FoldLine`, which moves the mark behind it, and `ParseHeader` goes on at the mark, as
`seekg(mark)` does: the line that ended the loop is read again. (Behind a last line
without a newline `tellg()` fails and nothing more is read, as at the end of the lines here.)
One body line is one step: `ReadRole` flushes
the previous statement, heals quote and bracket, and reads role and pairs;
`ReadTool` and `ReadPairs` do the rest. Each computes the errors it hands to
`handleError()`, and `Reporting` either throws (STRICT) or notes them (TOLERANT).

Abstractions: a line is a sequence of atoms, a word or one of the characters the
parser looks for; every loop over characters is a fold over atoms. Diagnostics are
a set of line and kind instead of a joined text. Pairs are a function (their
order is `OrderedMap`'s subject). `HR` is kept as the word read, an `HR` that is no
number as an empty field. Every line ends in a newline, which counts in its size.
`lines` of a statement is a history: the lines it was built from.

`SchemaValidator` has the four schemas as the code sets them up and computes the
set of errors; `validate_statement()` leaves at the first missing field, and so
does `SchemaErrors`. Warnings are left out. `ValidFramesKeepToSchema` compares the verdict with the
text of the frame (`Block`, `RoleOn`, `Calls`, `Mentions`), read without the parser: a call
that the parser moved to another role, or a draft that was not looked at, shows
there.

### The tokenizer

`encode()` takes one pre-token at a time (`TakePretoken`, with `next_pretoken()` as
the first alternative that matches). `EncodeByte` is the branch for a whole
pre-token of one byte; else `BuildNodes` makes the list of nodes and queues every
pair the table knows, and each round of the merge loop is `MergePair` or
`DropStale`, by whether the popped entry is still current. `PutOut` walks the list.
`PairMerge` has no heap: it merges the leftmost pair of least rank until none is
left. Letters, digits, blanks, newlines and so on are classes of bytes; ranks are a
table from byte strings, an input; reading it from base64 is left out.

### The binary codec

The host builds the pairs of a statement in an `ordered_map` (`BuildStatement` is the
step of `OrderedMap`) and encodes it (`EncodeStatement`). `Deliver` cuts the buffer
anywhere, or replaces it with one that no encoder made. Decoding is one step for
each round of the loops of `decode_header()` and `decode_statement()`, with `pos` the
read position; the loop over statements is the fuzzer's (`fuzzer.cpp:249-275`), whose
catch is `phase = "refused"`. A text, its length and its opcode are read by one
operator each, which is refused exactly where the code throws.

Abstractions: the digit of a varint is base `Base` instead of 128, so that lengths of
several bytes are short; the mark is still the bit of 128, and the limits of five
bytes and of 32 bits (`MaxLength`) are the code's. `Shifted` lists what the loop of
`encode_varint()` has left of a length in each of its rounds. The pairs of a tool call's
arguments are assigned directly (`Assigned`). The compression ratio is left out. A buffer
that ends before `OP_END_STATEMENT` is returned as a whole statement (`RunOut`), as the
code does.

### The checksum line

`stamp_chk()` and `canonical_for_chk()` work on the text, `Verified` on the header
that the parser read; their agreement is the subject, so the module runs the parser
on both ends. The digest is one word that stands for the SHA-256 of the canonical form that
was hashed, and another word for any other form, which nobody computes and writes into a frame
under way (`DeliveriesAssumption`). `Deliveries` is what may arrive:
lines lost, doubled or exchanged, a line cut off, a word changed, blanks added.

### The hash

`update()` is `TopUp` or `NothingToTopUp`, any number of `AbsorbBlock`, and `KeepRest`;
`finalize()`, `reset()` and the constructor are one step each. The compression function is left
out: `state` is the sequence of the bytes compressed so far, so two digests are
equal exactly if the same blocks went in. A byte is a number, or the place of a byte in
a digest, with what it was xored with. `buf_` begins with what the memory holds (`Junk`). A context
that was finalized and is fed again goes on with `buf_len_` at the block size, as in the code:
`update()` then tops up nothing and compresses the padding block once more; the stored digest is
returned until `reset()`.

## Runs

| Run | Bounds | Shows |
|---|---|---|
| `store` | 2 threads, 3 keys, room for 2, TTL 2, clock to 5 | typing, map/deque consistency, capacity, expiry order, refinement of `ReplayGuard` |
| `replay` | 2 threads, 4 frames (two of one id, one of them using a token twice that may run out before either use, one without an agent), 3 evaluations, 2 host operations, room for 1, TTL 2, clock to 3 | at most one authorization per time to live; live guards survive a full store; rejected requests burn nothing; a replay refusal is justified; an expired token approves nothing |
| `grants` | 2 threads, 7 frames (pointer and tool, healed, anonymous, mangled, escaping, token of another agent, token for another scope), 2 evaluations, 2 host operations, 4 setups; with fairness | approvals covered, denials justified, authorized plans complete; every evaluation returns |
| `scopes` | 8 pieces for requests, 7 for grants, 6 pieces together, limit 2 | normalization against meaning, agreement of the two normalizers, escape, confinement of matches |
| `codec` | 4 keys (two with an opcode, one empty), 3 values, 2 headers, 2 lists of tool calls, 2 statements with 2 pairs, every cut, 9 foreign buffers; base 2, lengths to 20 | round trip; a cut loses only the end; the decoder stays within the buffer; the map remembers insertion order |
| `tokenizer` | all texts of up to five of nine classes of bytes with one table; all texts of two letters with every order of up to three merges | the split follows the pattern (indents apart), merging is the reference's, the output decodes to the text |
| `frames` | five headers, each with up to two lines of 27 kinds; one header with up to four lines of eight kinds; frames at, above and below the size limit; headers with every placement of CHK, and altered deliveries of them | every line of the body is in exactly one statement and no line of the header in any, repairs are charged to the statement they were made in, no call changes its role or is lost, the modes agree, line endings do not matter, a frame called valid keeps to the schemas of the roles in its text; a stamped frame verifies, an altered one does not |
| `hashing` | blocks of 4 with a length of 2, digests of 3, inputs of 10 bytes in every cut; keys around one and two blocks, messages of up to 9 bytes | nothing is lost between calls, the digest is that of FIPS 180-4 whatever the cuts, the HMAC that of RFC 2104 |
| `truncated` | as `codec`, one statement with one pair | violates `NothingIsMadeUp` |
| `rejected` | one evaluation, no host operation | violates `RejectedApprovesNothing` |
| `colons` | two frames whose keys collide | violates `ReplayRefusalJustified` |
| `indents` | texts with two blanks before a word | violates `SplitFollowsPattern` |

Why the bounds are enough: the store's capacity is smaller than the number of
keys and the time to live shorter than the clock's range, so replay, expiry,
re-recording and refusal at capacity all occur, also inside one call of another
thread. Two threads are what a race over one id takes, a third evaluation is the
one after an expiry. Two grants or revocations fall between any two of the three
questions about a pointer. Four
body lines hold a statement, a healed one and a line between them, and two of any
kind are what a repair and its neighbour take; the size limit is one that the
added carriage returns cross, so both sides of it occur. Five bytes are the longest
alternative of the pattern with what precedes and follows it. Six pieces let a `..` cancel across another one and put
a path over the limit of two and back. In base 2 a length of 2 already takes two
bytes, 20 takes the five that are the limit and 21 is out of range; the shortest message
that the cuts must go through holds every opcode group. A hash input of two blocks and a
half has whole blocks, a partly filled buffer, and both sides of the bound
at which padding needs a block of its own; the proofs cover every size. `CHECK_DEADLOCK FALSE` is set where the
number of evaluations, host operations, pieces, statements or bytes is bounded: the instance then
has nothing left to do. The thread symmetry is sound because no constant or
property tells the two threads apart; `grants`, which checks liveness, does not use it.

**Fairness.** `FairSpec` is weak fairness of each thread's steps inside
`evaluate()`. A thread waits only for `mutex_` and `session_mutex_`; they are held
over finite loops without callbacks, so a running thread gets on. Nothing is
assumed of the clock, of the host, or of calls being made. Weak fairness is enough
although the mutex may be taken again and again, because evaluations are finite
in number in the instance; the code promises no more, `std::mutex` being unfair.

## What the violations show

- `rejected`: the fuzzer and a middleware test say a rejected plan approves
  nothing; a frame whose first check passes and second fails returns with the
  first one's approval still in `approved_pointers`. A host that executes these
  lists must look at `authorized` first.
- `colons`: the README promises `(agent_id, reqid)` tuples; the key is the two
  joined with `':'`, which both may contain, so agent `a` with id `b:1` and agent
  `a:b` with id `1` are one.
- `truncated`: the comment in `decode_varint()` says every underflow throws; a
  varint cut after a marked byte does not, because the loop ends with the buffer and the partial
  value is used. If that value is 0, the text is decoded as empty. No longer text is
  made up, and no other part of the message changes (`CutsLoseOnlyTheEnd`).

- `indents`: the comment above `next_pretoken()` quotes the pattern of cl100k_base,
  in which `\s+(?!\S)` leaves the last blank of a run to the word that follows; the
  code returns the whole run. Token counts of indented text differ.

Disagreements that were noticed while reading and are not runs, because they are
about wording or need no interleaving:

- The comment that `history_` is chronological holds only if the wall clock is
  never set back. `SkewedSpec` lets it: `HistoryMatchesMap` and `WithinCapacity` hold all
  the same (proved), and replay is still refused; the price is that an expired entry
  behind a live one stays, refuses its key, and takes up room.
- A cut just in front of an `OP_END_STATEMENT` is not noticed at all: the statement is
  returned as if it were whole.
- A frame in which only healed statements are left is a `COMPLETE_FAILURE`, though its
  `healed_draft` has them.
- A quote healed on a stray line before the first role line sets
  `current_stmt_healed`, but `HasStatement` is false if that line yielded no pair, so
  the flag is not reset and quarantines the clean role statement that follows
  (`parser_v2.hpp:318-323`). `HealedIsQuarantined` counts that line among the
  statement's lines.
- A tool call that drifted onto the statement line is still split at a `:` in its
  arguments (`parser_v2.hpp:535-548`), which the comment at 537-543 means to prevent.
- A line `[]` makes a statement without anything in it, which `fallback_recovery.hpp:22-27`
  says the parser never pushes; `Recovered` therefore keeps its condition.
- `analyze_and_recover()` counts errors by `" | "`, which a quoted token may contain.
- `validate_statement()` stops at the first missing field, against the
  comment at `schema_validator.hpp:64-65`.
- The scan for an open quote lets `\` escape everywhere (326-336), `lex_split()` only inside
  quotes (429-438): a line may be healed that the second would have split the same.
- A `CHK` on a folded header line is neither stamped nor verified (`chk.hpp`).
- A return inside line 1 right behind the value of `CHK` ends it in `chk.hpp:55`, but not the
  token of the parser, which splits at blanks: the stamped frame then never verifies.
- A malformed pair or argument leaves its statement trusted in TOLERANT mode; only
  the diagnostics tell.

## Proofs

TLAPS checks these for every value of the constants, from the named assumptions in
the modules alone.

- **Store.** Typing and `CallsOK` (only the owner of the mutex is inside a call)
  first; with them `HistoryMatchesMap` is inductive on its own under either clock:
  pruning removes an item and the entry it matches, recording adds both. A bound on
  the map follows from the bound on the deque, because the deque enumerates its
  keys. `ExpiredAtFront` is not inductive: it needs `Chronological`, timestamps in
  order and none in the future. `StoreInv` is the conjunction; it holds only while
  the clock does not go back. From it, when pruning stops every guard is live
  (`PrunedIsLive`), which makes each refusal a legal step of `ReplayGuard`;
  `StoreImplementsGuard` is the step simulation.
- **Middleware.** Every step is a step of the store's specification or leaves the store
  alone (`MiddlewareUsesStore`), so all that is proved of the store, the refinement of
  `ReplayGuard` included, holds inside `evaluate()`. `GuardInv` ties the history of
  authorizations to the guards: an authorization puts its own guard, a guard goes only
  by expiry or `clear()`. For refusals that is not enough: `RefusalDue` says that the
  guard a thread is about to be refused for was live when its call began, which
  holds because the mutex keeps others from the map since its pruning ended.
  `Follows` says that the plan is the slice of the checks looked at so far. For
  `ApprovalsCovered` and `DenialJustified`, `Asking` says where the questions about one
  pointer stand: as long as nothing uncovered the thread's check, a grant matches one of
  the scopes still ahead. That survives a grant (more match) and a revocation only
  because it takes all scopes of the agent. The theorems assume that frames are of agents
  the host knows and consist of typed checks (`MiddlewareAssumption`); the one on refusals
  assumes `KeysTellApart` besides, which the run `colons` shows to be necessary.
- **ordered_map.** `IndexMatchesData` with typing is inductive; the case that takes
  work is `erase`, where everything behind moves up by one
  (`RemoveAtProperties`). On top of it each operation is shown to be one step
  of `InsertionOrder`.
- **Codec.** For `CodecTypeOK` it is enough that reading a text ends where its length
  says, which the decoder compares with the size of the buffer before it takes the bytes. For
  `RoundTrip` and `CutsLoseOnlyTheEnd`, `CodecInv` says where decoding stands in the buffer
  that was sent, of which the one that arrived is a prefix (`ReadsWhatWasSent`): what was read is
  the beginning of the message, and the bytes ahead, those that the cut took included, are
  the encoding of exactly what is left of it - from the next header field on (`InHeader`), or
  inside a statement from its role, its next pair, the name, the method or the next argument of a
  tool call (`InStatement`). While encoding, `BuildOK` says that the buffer is the encoding of
  the history. A round of the decoder then takes one text or one pair from the front
  (`RoundByOpcode`). It is the right one because a length of at most five digits is
  read back as it was put (`VarintDecodes`, by the divisions of `DigitAndShift`), and because
  the map, like the encoder's, has each key once, so that assigning the next pair appends it.
  A read that meets the cut is refused - a length is checked against what is there before its
  bytes are taken - except where the cut falls right behind an opcode or inside a length, where
  `read_varint()` returns what it has: a text of no bytes is then read, and nothing comes after
  it (`ReadCut`, `CutStringDecodes`, `CutPairDecodes`). `HeaderCutOff` and `StatementCutOff` say that
  this text is the last thing read and that all before it is what was sent (`ShortOf`).
  `CodecAssumption` has what this takes: texts whose length is a `uint32_t`
  that five bytes can hold, a base that divides the mark, and tool arguments without a
  key twice, which an `ordered_map` cannot have.
- **Scope matching.** `ScopeInv` says of a path, however much was read: climbs only
  in front; the bounded array equals the vector unless the path once had more
  segments than the limit (`deepest`), in which case it was given up; and the vector
  lists the pieces that stay (`Leads`). The first part is what keeps a pop of one loop
  a pop of the other. For the last, names weigh 1 and `..` weighs -1: a name stays if no
  interval behind it weighs less than 0, a `..` if every interval that ends with it does.
  One more `..` then takes back the last name that stays, which is the last segment
  because climbs are in front, or stays itself if there is none (`SurplusStays`: an
  interval up to the end that weighs more than 0 has a name that stays). `escapes_root()`
  follows by looking at the first place where the weight from the start falls below 0.
  What a match implies is a case analysis over the shapes of two scopes (`MatchCases`). One
  thing is left open by a scope of a single segment: it may be a verb or a path. Where
  one side has a verb and the other none, the property is about paths without a
  piece spelled like a verb (`Comparable`); the run has such pieces and needs the condition.
- **Tokenizer.** `MergeInv` says that the active nodes tile the pre-token as a doubly
  linked list and that every pair of neighbours the table knows is queued under its
  rank; stale entries may be there as well. A merge changes two pairs and queues two.
  With it the top entry that is still current is the leftmost pair of least
  rank, which is what `PairMerge` merges, and an empty heap means nothing is left to
  merge: that is `HeapMergeImplementsRescan`. For the split, each alternative of
  `next_pretoken()` is compared with the pattern's (`SplitsLikePattern`); they differ
  on a run of two or more blanks before a word and nowhere else. That needs the classes
  of bytes to be disjoint and the space to be a blank (`TokenizerAssumption`). `DecodeInv`
  gives that the output decodes to the text: each id is the rank of one byte string.
  It assumes that no two have the same rank (`RanksAreDistinct`), which is true of the
  shipped `data/cl100k_base.tiktoken` but nothing that the constructor checks.
- **Parser.** `ModesAgree` speaks of two parsers, so its invariant `ModesRelated` does:
  they are equal but for the mode and nothing was reported or healed, or the STRICT
  one has thrown and the TOLERANT one has a diagnostic, or has passed a header
  without a required field. Both halves persist because diagnostics are never
  withdrawn and the header is set once (`TolerantKeeps`). The scanners need not be
  unfolded: equal parsers see equal lines (`SameView`). The theorem assumes nothing
  of words, frames or the size limit. `LineEndingsDoNotMatter` is about two parsers
  too: theirs differ in the text they read and in nothing else (`Together`). The
  scanners look at a line only after it was trimmed, and trimming does not see a return
  at its end (`TrimIgnoresReturn`: the last atom that is no blank is where it was,
  or there is none); the lines are as many (`AlignedView`). A frame whose added bytes
  take it over the limit is set apart: both texts must be within it.
  `LinesAreAttributed` rests on `LinesInv`: nothing is built before the body; every
  statement, built or at hand, owes its role and its calls to its own lines, each line of the
  body that was read is in one of them and no other line in any (`Attributed`); the body is
  entered at its first line, because the mark stands behind the last line taken for the header
  (`Entered`), which makes the lines that are read from there on lines of the body; the flag of the statement at hand is set exactly if one
  of its lines was repaired, and it has no role line unless `has_role` is set, so that the next
  one flushes it (`AtHand`). That is where a flag reset too early or a repair charged before the
  flush would fail.
  `ParserTypeCorrect` takes the scanners one by one: each is a fold, hence a run from its
  first value by its step (`FoldRuns`), and the step keeps a type that is stated for any set of
  atoms, so that a scanner returns nothing it was not given (`LexSplitType`,
  `ParseKVPairsType`, `ParseToolCallType`, `ParseHeaderType`); only unescaping puts in atoms of
  its own. The invariant is stronger than `TypeOK` where it is not inductive: nothing was read
  before the parser started, so that the first line may be taken as the header.
- **Validator.** `ValidFramesKeepToSchema` reads the text of a frame a second time, so its
  invariant `Told` relates what the TOLERANT parser built to the text. A statement is `Backed`
  by its lines: its role is the one on its role line; each pair with a name of one word, and
  each capability in the value of such a pair, stands on a line at or beneath that role line;
  each of its tool lines has its call; and no other role line lies between. That a scanner reads
  no more out of a line than the line says is a chain of lemmas from the line to the pair: a
  closing quote or bracket that was put in adds no name (`RequotedSays`, `Bracketed`), a token is a
  part of the line (`TokenSays`), and unescaping makes no `cap=` of what was none (`UnquoteSays`).
  `Backed` is not inductive without `Latest`, that no role line was read since the one of
  the statement at hand, which keeps what is appended to it in the block of that role line
  (`GrownBacked`). With `LinesInv`, by which each line of the body is in one statement, role and
  tool lines among them (`StatementLine`), and `AllPushed`, that none is left behind at the end, the verdict on the statements is one
  on the blocks (`ValidFrameKeeps`). For the header, `HeaderComplete` says that STRICT went
  on only with every required field, of which the validator asks some.
- **Checksum.** `StampedFramesVerify` takes two arguments. On the text, the value last written
  counts (`LastChkCounts`): the marker stays where it was and the new value ends where the old
  one did, so that both ends hash one form (`SameFormHashed`). On the header, `HeaderTold` says
  that the field stands by itself in the line read so far (`PlainAt`): trimming moves it, folding
  appends behind a blank. `lex_split()` is then before, in or behind the field
  (`SplitsField`) and makes one token of it, whose value is the one `parseHeader()` keeps.
  A frame without the marker has no word `digest` anywhere, so neither has its header. The proof
  brought up a condition: a return inside line 1, right behind the value, ends the value for
  `chk.hpp` but not the token for the parser, and the frame that `stamp_chk()` returns does not
  verify. `IsPlainChk` therefore excludes it, and the run has such a frame.
  `AlterationsAlwaysNoticed` goes the other way, from a header that verifies to the frame that
  came. Its CHK holds the digest (`VerifiedHolds`), as a token of `lex_split()`, and a token
  without blanks stands by itself in what was split (`TokensStand`, `DigestIsAlone`); folding and
  trimming join nothing, so that one line of the frame shows the field (`HeaderTraced`). That
  frame has the canonical form that was hashed. The line is therefore the first, the others have
  no digest in them, and it is the line sent but for the value behind the marker (`Revalued`);
  as it shows the digest by itself, it differs in white space at its end at most
  (`ShownIsSent`). Such frames keep the two parsers in step (`TrimAlike`, the same lemmas that
  serve the line endings), and the one sent is no larger (`SizeGrows`). A quote, a second field
  or a second marker in the header need no condition. `DeliveriesAssumption` is what CHK cannot
  do without: it is a plain hash, and whoever computes it for an altered frame passes.

- **Hash.** `StreamInv` is the invariant for every block size, length width and
  digest size that `StreamAssumption` allows. Its centre, `NothingIsLost`, says that what was fed is what was
  compressed, followed by the buffer, followed by the rest of the argument. It is not
  inductive without `Whole` (the compressed bytes are whole blocks, from which the padding
  gets its length), `Between` (no argument is left outside of calls, none is used up before
  the buffer was topped up), and that everything is a sequence. `finalize()` is then
  two cases, padding in the block at hand (`TailInOneBlock`) or in one more
  (`TailInTwoBlocks`), each equal to what FIPS 180-4 appends. For `HmacIsNested`,
  `HmacFed` says which input the context of each stage has had so far and has still to
  get, and `Nested` that the key block and inner digest found before are the right ones.

**Induction over data.** The library's induction theorems cannot be used, because they take
an operator. Where the model folds a sequence, `Extremes` does without: a fold is unfolded
to the recursive function it is defined by, that one exists is built up number by number
(`FoldExists`), and induction itself is the least counterexample (`UpTo`). A lemma cannot
take the fold's operator either, so that each fold needs one of its own.

Only model-checked: that every evaluation returns (`EveryEvaluationReturns`), because liveness under
fairness is out of the prover's reach. Every other property of a passing run is also proved.

## Not modelled

- The arithmetic of the compression function, and base64url: pure functions on words and bits,
  tested by vectors; signatures and hashes are taken as sound.
- Splitting a token at its dots and extracting its JSON claims, `create_token()`: string
  work on a flat object; the decisions of `verify()` that follow from the claims are in
  `Middleware`. `register_verifier()` is taken to run before the validator is shared.
- The text and the counts of a recovery report; the action chosen is modelled.
- Time formatting and the JSON output; diagnostics' wording, logging.
- The command line tools, benchmarks and evaluation scripts are I/O around the library; tests
  and fuzzer were read for what they expect, and the fuzzer's decode loop is the codec's host.

## Plan

Every component with state of its own or a decision that others rely on is modelled. What
remains:

1. Token claims as a machine of their own: expiry between checks, empty resource.
