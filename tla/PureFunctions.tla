----------------------------- MODULE PureFunctions -----------------------------
(***************************************************************************)
(* The pure functions of the Python code, each over its small inputs: the  *)
(* prefix of a pattern, the rows of a program, the payload of a codec, the *)
(* operands of a numeric builtin, the report on a pull request.  A         *)
(* behaviour grows one such input, so that the states are the inputs, and  *)
(* the properties relate what the functions make of it to what it means.   *)
(***************************************************************************)
EXTENDS Loader, Codec, PrCheck

CONSTANTS
    PatternSet,  \* sets of tokens, each with a bound on the tokens of a pattern
    LineUnit, MaxLineUnits,
    SourceRow, MaxRows,
    PayloadByte, MaxPayload,
    Operand,
    MaxComments

ASSUME OperandAssumption == Operand \subseteq Literal

\* A row that begins as the definition of an alias has that beginning, "NAME <-", as
\* its first unit.
ASSUME RowAssumption ==
    \A r \in SourceRow :
        /\ r.name \in AliasName \cup {""} /\ r.text \in Seq(STRING)
        /\ r.name # "" => r.text # <<>> /\ r.text[1] # "\\"

ASSUME PayloadAssumption == PayloadByte \subseteq Byte

VARIABLES kind, input

vars == <<kind, input>>

Kinds == {"pattern", "line", "rows", "payload", "numbers", "pull", "comments"}

Init ==
    /\ kind \in Kinds
    /\ input = <<>>

GrowPattern ==
    /\ kind = "pattern"
    /\ \E set \in PatternSet :
          /\ Len(input) < set.max /\ Range(input) \subseteq set.tokens
          /\ \E t \in set.tokens : input' = Append(input, t)
    /\ UNCHANGED kind

GrowLine ==
    /\ kind = "line" /\ Len(input) < MaxLineUnits
    /\ \E u \in LineUnit : input' = Append(input, u)
    /\ UNCHANGED kind

GrowRows ==
    /\ kind = "rows" /\ Len(input) < MaxRows
    /\ \E r \in SourceRow :
          input' = Append(input, [name |-> r.name, text |-> r.text, line |-> Len(input) + 1])
    /\ UNCHANGED kind

GrowPayload ==
    /\ kind = "payload" /\ Len(input) < MaxPayload
    /\ \E b \in PayloadByte : input' = Append(input, b)
    /\ UNCHANGED kind

GrowNumbers ==
    /\ kind = "numbers" /\ Len(input) < 2
    /\ \E l \in Operand : input' = Append(input, l)
    /\ UNCHANGED kind

\* A pull request: the figures of its base, those of its head, the files that differ.
GrowPull ==
    /\ kind = "pull" /\ Len(input) < 3
    /\ input' \in { Append(input, part) :
                      part \in IF Len(input) < 2 THEN Costs
                              ELSE { n \in ChangedFiles : Explains(n, input[1], input[2]) } }
    /\ UNCHANGED kind

\* The comments of a pull request, from the first on: whether each is marked.
GrowComments ==
    /\ kind = "comments" /\ Len(input) < MaxComments
    /\ \E marked \in BOOLEAN : input' = Append(input, marked)
    /\ UNCHANGED kind

Next ==
    \/ GrowPattern \/ GrowLine \/ GrowRows \/ GrowPayload \/ GrowNumbers
    \/ GrowPull \/ GrowComments

Spec == Init /\ [][Next]_vars

-----------------------------------------------------------------------------
\* Rows.

Parts(r) == <<r.lhs>> \o r.mids

\* No part of a rule holds an operator of its own, none ends in the backslash
\* that would have made the operator behind it text, and together they are the row.
SplitKeepsText ==
    kind = "line" =>
        LET r == split_rule_line(input)
        IN  r.kind = "rule" =>
                /\ Joined(r) = input
                /\ \A k \in DOMAIN Parts(r) :
                      LET part == Parts(r)[k]
                      IN  /\ part # <<>> => part[Len(part)] # "\\"
                          /\ \A i \in 2 .. Len(part) - 1 :
                                part[i] = "::" /\ part[i + 1] \in Terminal \cup {"|"}
                                    => part[i - 1] = "\\"

\* A program that loads has no alias reference left in its patterns, however the
\* aliases refer to each other: the regular expression would read the name.
NoAliasLeft(rules) ==
    \A n \in DOMAIN rules :
        \A k \in DOMAIN Parts(rules[n]) : References(Parts(rules[n])[k]) = {}

\* The rules are the rows with an operator above the separator, in their order,
\* each with the operator its row was written with and the right-hand side from its
\* first letter on.
RulesAreRows(rules, rows) ==
    LET above == { i \in DOMAIN rows :
                      /\ \A j \in Separators(rows) : i < j
                      /\ has_terminal_operator(rows[i].text)
                      /\ Strip(split_rule_line(rows[i].text).lhs) # <<>> }
        order == Ascending(above)
    IN  /\ Len(rules) = Cardinality(above)
        /\ \A n \in DOMAIN rules :
              LET row == split_rule_line(rows[order[n]].text)
              IN  /\ rules[n].line = order[n] /\ rules[n].op = row.op
                  /\ rules[n].rhs = LStrip(row.rhs)

LoadsItsRows(loaded, rows) ==
    ~loaded.failed => NoAliasLeft(loaded.rules) /\ RulesAreRows(loaded.rules, rows)

\* A program loads as its rows say.
RowsAreKept ==
    /\ SplitKeepsText
    /\ kind = "rows" => LoadsItsRows(parse_program(input), input)

-----------------------------------------------------------------------------
\* Codecs.

\* What the encoders write the decoders read back, and what they write is a
\* payload: no byte of it needs another encoding.
EncodingsInvert ==
    kind = "payload" /\ Utf8(input) =>
        /\ ~pct_decode_Fails(pct_encode(input))
        /\ pct_bytes(pct_encode(input)) = input
        /\ ~b64url_decode_Fails(b64url_encode(input))
        /\ b64url_bytes(b64url_encode(input)) = input

\* A text has one spelling in Base64url: rules that compare two encoded words
\* compare the texts (interpreter.py:666).
OneBase64Spelling ==
    kind = "payload" /\ ~b64url_decode_Fails(input) =>
        b64url_encode(b64url_bytes(input)) = input

\* A byte that ends a string literal: a quotation mark no backslash escapes.
EndsLiteral(t) == \E i \in EscapeStarts(t) : t[i] = Quote

\* What `escape` writes stands inside a string literal, and `unescape` reads it back.
EscapesInvert ==
    kind = "payload" /\ ~escape_Fails(input) =>
        /\ ~EndsLiteral(pct_bytes(escape(input)))
        /\ ~unescape_Fails(escape(input))
        /\ pct_bytes(unescape(escape(input))) = pct_bytes(input)

\* The replacements of a right-hand side read it once from the left: a backslash
\* that is itself escaped escapes nothing (interpreter.py:944).
ReplacementsReadOnce ==
    kind = "payload" =>
        LET letters == [l \in {92, 110, 116, 114} |->
                            CASE l = 110 -> 10 [] l = 116 -> 9 [] l = 114 -> 13 [] OTHER -> l]
            at == Ascending(EscapeStarts(input))
            Read1(i) ==
                IF input[i] # Backslash \/ i = Len(input) THEN <<input[i]>>
                ELSE IF input[i + 1] \in DOMAIN letters THEN <<letters[input[i + 1]]>>
                ELSE <<Backslash, input[i + 1]>>
        IN  decode_replacement_escapes(input) = FlattenSeq([k \in DOMAIN at |-> Read1(at[k])])

\* What one host writes another reads as the same text.
CodecsInvert == EncodingsInvert /\ OneBase64Spelling /\ EscapesInvert /\ ReplacementsReadOnce

-----------------------------------------------------------------------------
\* Numbers.

\* A result is a literal that the next builtin reads as the same number, and two
\* numbers are equal for `numeq` exactly when their results are the same text:
\* rules compare results as text (interpreter.py:764).
NumbersHaveOneText ==
    kind = "numbers" /\ Len(input) = 2 /\ ~builtin_Fails("numeq", input[1], input[2]) =>
        LET canonical(l) == format_rational(parse_number(l))
            x == input[1]
            y == input[2]
        IN  /\ parse_number(canonical(x)) = parse_number(x)
            /\ eval_comparison("numeq", x, y) <=> canonical(x) = canonical(y)

\* The results of the arithmetic are exact: what one builtin does another undoes,
\* and the comparisons agree with the sign of the difference.
ArithmeticIsExact ==
    kind = "numbers" /\ Len(input) = 2 /\ ~builtin_Fails("sub", input[1], input[2]) =>
        LET x == input[1]
            y == input[2]
            canonical(l) == format_rational(parse_number(l))
            minus == eval_arithmetic("sub", x, y)
        IN  /\ eval_arithmetic("add", minus, y) = canonical(x)
            /\ ~builtin_Fails("div", x, y) =>
                  eval_arithmetic("mul", eval_arithmetic("div", x, y), y) = canonical(x)
            /\ eval_comparison("lt", x, y) <=> minus.minus
            /\ eval_comparison("ge", x, y) <=> ~minus.minus
            /\ eval_comparison("gt", x, y) <=> ~minus.minus /\ minus.up # 0
            /\ eval_comparison("le", x, y) <=> minus.minus \/ minus.up = 0

\* Numbers do not depend on how they were spelled or computed.
NumbersAreExact == NumbersHaveOneText /\ ArithmeticIsExact

-----------------------------------------------------------------------------
\* Pull requests.

\* The check is green exactly when the frontmatter is whole, every solution of the head
\* passes on Go, the hosts agree with it, every metric file of the base passes, and each
\* changed or new interpreter that is measured passes the common problems of the base
\* (pr_check.py:143).
GreenIsEarned ==
    kind = "pull" /\ Len(input) = 3 =>
        \A c \in Checks(input[1], input[2]) : Earned(c[1], input[3], c[2], c[3])

\* No pull request that leaves the engine as it is raises what a ruleset costs on the
\* base's common problems in silence, unless the contract of one of them changes with it
\* (pr_check.py:152).
EngineAsideRisesAreSaid == kind = "pull" /\ Len(input) = 3 => RiseIsSaid(input[3], input[1], input[2])

\* The report of a pull request says what changed, and fails when it must.
ReportIsTrue == GreenIsEarned /\ EngineAsideRisesAreSaid

\* However two jobs overlapped, and whatever other comments there are, the next job
\* writes its report into the comment that was marked first, and touches no other
\* (pr_check.py:240).
CommentIsSticky == kind = "comments" => OneComment(input)
=============================================================================
