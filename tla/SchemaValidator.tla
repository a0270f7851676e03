---------------------------- MODULE SchemaValidator ----------------------------
(***************************************************************************)
(* SchemaValidator (schema_validator.hpp): which frames validate() calls   *)
(* valid.  It reads the AST that Parser leaves.  Warnings, which decide    *)
(* nothing, are left out.                                                  *)
(***************************************************************************)
EXTENDS Parser

Schemas ==
    [role \in {<<"EXEC">>, <<"CODER">>, <<"READ">>, <<"PLAN">>} |->
        CASE role = <<"EXEC">>  -> [required |-> <<"tgt", "act">>, tools |-> {"run", "exec", "call"}]
          [] role = <<"CODER">> -> [required |-> <<"tgt", "act", "GL">>,
                                    tools    |-> {"read", "write", "gen"}]
          [] role = <<"READ">>  -> [required |-> <<"tgt">>, tools |-> {"read"}]
          [] role = <<"PLAN">>  -> [required |-> <<"GL">>, tools |-> {"plan", "break"}]]

Pointers == {"tgt"}          \* the fields with is_pointer

HasCapability(value) ==
    \E i \in 1..(Len(value) - 1) : value[i] = "cap" /\ value[i + 1] = "="

\* The first missing field of a header ends validation.
HeaderErrors(fields) ==
    LET order   == <<"VER", "AGT", "REQID">>
        missing == {i \in DOMAIN order : fields[order[i]] = <<>>}
    IN  IF missing = {} THEN {} ELSE {[kind |-> "header", name |-> order[Min(missing)]]}

\* Required fields in their order up to the first missing one; tools only if none
\* is missing.
SchemaErrors(stmt, schema, inband) ==
    LET Field(i) == <<schema.required[i]>>
        missing  == {i \in DOMAIN schema.required : Field(i) \notin DOMAIN stmt.kvpairs}
        reached  == IF missing = {} THEN DOMAIN schema.required ELSE 1..(Min(missing) - 1)
        bare     == {i \in reached : /\ schema.required[i] \in Pointers
                                     /\ ~HasCapability(stmt.kvpairs[Field(i)])}
        refused  == {t \in Range(stmt.tool_calls) : t.name \notin {<<n>> : n \in schema.tools}}
    IN  (IF inband THEN {[kind |-> "capability", name |-> Field(i)] : i \in bare} ELSE {})
          \cup (IF missing # {} THEN {[kind |-> "field", name |-> Field(Min(missing))]}
                ELSE {[kind |-> "tool", name |-> t.name] : t \in refused})

validate_statement(stmt, inband) ==
    IF stmt.role = <<>> THEN {[kind |-> "role", name |-> <<>>]}
    ELSE IF stmt.role \notin DOMAIN Schemas THEN {}
    ELSE SchemaErrors(stmt, Schemas[stmt.role], inband)

StatementErrors(statements, inband) ==
    UNION {validate_statement(statements[k], inband) : k \in DOMAIN statements}

MutantTrustsDrafts(ast, inband) ==
    LET header == HeaderErrors(ast.header)
        errors == IF header # {} THEN header ELSE StatementErrors(ast.statements, inband)
    IN  [valid |-> errors = {}, errors |-> errors]

\* inband: require_inband_capabilities_.
validate(ast, inband) ==
    LET header == HeaderErrors(ast.header)
        errors == IF header # {} THEN header
                  ELSE StatementErrors(ast.statements, inband)
                         \cup StatementErrors(ast.healed_draft, inband)
    IN  [valid |-> errors = {}, errors |-> errors]
================================================================================
