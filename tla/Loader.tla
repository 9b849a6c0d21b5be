-------------------------------- MODULE Loader --------------------------------
(***************************************************************************)
(* From source rows to rules: _parse_program of                            *)
(* python/thuelang/interpreter.py and what it calls.  A row is a sequence  *)
(* of units: "::" is one unit, and so are an alias reference, a named      *)
(* capture, a word and a blank.  A row that begins as the definition of an *)
(* alias holds the name it would define, and its first unit is "NAME <-".  *)
(***************************************************************************)
EXTENDS Ascending, FiniteSetsExt, SequencesExt

CONSTANTS
    AliasName,       \* the alias references: $NAME
    Capture,         \* the named captures, and the name of each
    Arity,           \* the builtins and the number of their arguments
    BadAlias,        \* the alias spelling that is refused: <|NAME|>
    Unbalanced,      \* units no regular expression holds
    SyntaxError,     \* the units that must not follow "::" in a row that is no rule
    MaxSubstitutions, MaxPattern \* the two limits of alias expansion

Blank == " "
Terminal == {"=", "<", ">", "-", "!"}

\* A reference is told from what stands around it.
ASSUME AliasAssumption ==
    AliasName \cap (Terminal \cup {Blank, "::", "|", "\\", "(?:", ")"}) = {}

\* name = "" unless the row begins as the definition of an alias; line is
\* the source line.
Row == [name : AliasName \cup {""}, text : Seq(STRING), line : Nat]

-----------------------------------------------------------------------------
\* Splitting a row.

\* Mutant: a backslash in front of "::" is not looked at.
structural_op_at_Unescaped(line, i) ==
    line[i] = "::" /\ line[i + 1] \in Terminal \cup {"|"}

\* An operator: "::" and what follows it, unless a backslash stands before.
structural_op_at(line, i) ==
    /\ line[i] = "::" /\ line[i + 1] \in Terminal \cup {"|"}
    /\ i > 1 => line[i - 1] # "\\"

Structural(line) == { i \in 1 .. Len(line) - 1 : structural_op_at(line, i) }

TerminalAt(line) == { i \in Structural(line) : line[i + 1] # "|" }

has_terminal_operator(line) == TerminalAt(line) # {}

\* LHS, the texts of the "::|" steps, operator and RHS, up to and behind the
\* first operator that ends the rule.
CutAt(line, cuts) ==
    [kind |-> "rule",
     lhs |-> SubSeq(line, 1, cuts[1] - 1),
     mids |-> [k \in 1 .. Len(cuts) - 1 |-> SubSeq(line, cuts[k] + 2, cuts[k + 1] - 1)],
     op |-> line[Last(cuts) + 1],
     rhs |-> SubSeq(line, Last(cuts) + 2, Len(line))]

SplitAt(line, structural, terminal) ==
    IF structural = {} THEN [kind |-> "text"]
    ELSE IF terminal = {} THEN [kind |-> "error"]
    ELSE CutAt(line, Ascending({ i \in structural : i <= Min(terminal) }))

split_rule_line(line) == SplitAt(line, Structural(line), TerminalAt(line))

Joined(r) ==
    r.lhs \o FlattenSeq([k \in DOMAIN r.mids |-> <<"::", "|">> \o r.mids[k]])
          \o <<"::", r.op>> \o r.rhs

-----------------------------------------------------------------------------
\* Expanding aliases.

\* A reference, unless a backslash stands before it.
Refers(text, i) == text[i] \in AliasName /\ (i > 1 => text[i - 1] # "\\")

References(text) == { i \in DOMAIN text : Refers(text, i) }

\* The text with each reference replaced; aliases holds the texts defined above.
Expanded(text, aliases) ==
    FlattenSeq([i \in DOMAIN text |->
                    IF Refers(text, i) THEN aliases[text[i]] ELSE <<text[i]>>])

ExpansionFails(text, aliases) ==
    \/ \E i \in DOMAIN text : text[i] = BadAlias
    \/ \E i \in References(text) : text[i] \notin DOMAIN aliases
    \/ Cardinality(References(text)) > MaxSubstitutions
    \/ Len(Expanded(text, aliases)) > MaxPattern

Wrapped(text) == <<"(?:">> \o text \o <<")">>

Strip(text) ==
    LET inked == { i \in DOMAIN text : text[i] # Blank }
    IN  IF inked = {} THEN <<>> ELSE SubSeq(text, Min(inked), Max(inked))

\* What the rows read so far come to: the aliases, the rows that stay, an error.
Read0 == [aliases |-> <<>>, rows |-> <<>>, failed |-> FALSE]

With(aliases, name, text) ==
    [n \in DOMAIN aliases \cup {name} |-> IF n = name THEN text ELSE aliases[n]]

\* Mutant: the text of an alias is kept as it was written.
DefineAlias_Verbatim(acc, row) ==
    LET text == Strip(Tail(row.text))
    IN  IF row.name \in DOMAIN acc.aliases \/ ExpansionFails(text, acc.aliases)
        THEN [acc EXCEPT !.failed = TRUE]
        ELSE [acc EXCEPT !.aliases = With(@, row.name, Wrapped(text))]

DefineAlias(acc, row) ==
    LET text == Strip(Tail(row.text))
    IN  IF \/ row.name \in DOMAIN acc.aliases
           \/ \E i \in DOMAIN text : text[i] \in DOMAIN Capture
           \/ ExpansionFails(text, acc.aliases)
        THEN [acc EXCEPT !.failed = TRUE]
        ELSE [acc EXCEPT !.aliases =
                  With(@, row.name, Wrapped(Expanded(text, acc.aliases)))]

ExpandSplit(acc, row, r) ==
    LET parts == <<r.lhs>> \o r.mids
        expanded == [r EXCEPT !.lhs = Expanded(@, acc.aliases),
                              !.mids = [k \in DOMAIN @ |-> Expanded(@[k], acc.aliases)]]
    IN  IF Strip(row.text) = <<>> \/ r.kind = "text" THEN [acc EXCEPT !.rows = Append(@, row)]
        ELSE IF \/ r.kind = "error"
                \/ \E k \in DOMAIN parts : ExpansionFails(parts[k], acc.aliases)
        THEN [acc EXCEPT !.failed = TRUE]
        ELSE [acc EXCEPT !.rows = Append(@, [row EXCEPT !.text = Joined(expanded)])]

ExpandRow(acc, row) == ExpandSplit(acc, row, split_rule_line(row.text))

ReadRow(acc, row) ==
    IF acc.failed THEN acc
    ELSE IF row.name # "" /\ ~has_terminal_operator(row.text) THEN DefineAlias(acc, row)
    ELSE ExpandRow(acc, row)

expand_patterns(rows) ==
    LET read[n \in 0 .. Len(rows)] == IF n = 0 THEN Read0 ELSE ReadRow(read[n - 1], rows[n])
    IN  read[Len(rows)]

-----------------------------------------------------------------------------
\* Parsing an expanded row.

RStrip(text) ==
    LET inked == { i \in DOMAIN text : text[i] # Blank }
    IN  IF inked = {} THEN <<>> ELSE SubSeq(text, 1, Max(inked))

LStrip(text) ==
    LET inked == { i \in DOMAIN text : text[i] # Blank }
    IN  IF inked = {} THEN <<>> ELSE SubSeq(text, Min(inked), Len(text))

\* A bracket of an alias; behind a backslash it is a letter.
Brackets(text, bracket, n) ==
    Cardinality({ i \in 1 .. n : text[i] = bracket /\ (i > 1 => text[i - 1] # "\\") })

\* A regular expression, as far as the units tell: an operator inside an alias cuts the
\* group that stands for the alias in two.
Compiles(text) ==
    LET opened(n) == Brackets(text, "(?:", n)
        closed(n) == Brackets(text, ")", n)
    IN  /\ \A i \in DOMAIN text : text[i] \notin Unbalanced /\ closed(i) <= opened(i)
        /\ closed(Len(text)) = opened(Len(text))

Names(text) ==
    { Capture[text[i]] : i \in { j \in DOMAIN text : text[j] \in DOMAIN Capture } }

\* The words of a text, parted by blanks; a word of several units is no name.
Words(text) ==
    LET first == { i \in DOMAIN text :
                      text[i] # Blank /\ (i = 1 \/ text[i - 1] = Blank) }
        starts == Ascending(first)
        end(i) == Min({ j \in i .. Len(text) + 1 : j > Len(text) \/ text[j] = Blank })
    IN  [k \in DOMAIN starts |-> SubSeq(text, starts[k], end(starts[k]) - 1)]

\* A builtin that is known, with as many arguments as it takes, each a capture.
parse_builtin_call(rhs, names) ==
    LET w == Words(rhs)
    IN  /\ w # <<>> /\ Len(w[1]) = 1 /\ w[1][1] \in DOMAIN Arity
        /\ Len(w) = Arity[w[1][1]] + 1
        /\ \A k \in 2 .. Len(w) : Len(w[k]) = 1 /\ w[k][1] \in names

NoRule == [kind |-> "none"]
RowError == [kind |-> "error"]

RuleOf(row, r) ==
    LET lhs == RStrip(r.lhs)
        rhs == LStrip(r.rhs)
        mids == [k \in DOMAIN r.mids |-> Strip(r.mids[k])]
        names == Names(lhs) \cup UNION { Names(mids[k]) : k \in DOMAIN mids }
        misspelt == \E i \in 1 .. Len(row.text) - 1 :
                        /\ row.text[i] = "::" /\ row.text[i + 1] \in SyntaxError
                        /\ i > 1 => row.text[i - 1] # "\\"
    IN  IF Strip(row.text) \in {<<>>, <<"::", "=">>} THEN NoRule
        ELSE IF r.kind = "error" \/ (r.kind = "text" /\ misspelt) THEN RowError
        ELSE IF r.kind = "text" \/ lhs = <<>> THEN NoRule
        ELSE IF \/ \E k \in DOMAIN mids : mids[k] = <<>>
                \/ ~Compiles(lhs)
                \/ r.op = "!" /\ ~parse_builtin_call(rhs, names)
        THEN RowError
        ELSE [kind |-> "rule", lhs |-> lhs, mids |-> mids, op |-> r.op,
              rhs |-> rhs, line |-> row.line]

parse_rule(row) == RuleOf(row, split_rule_line(row.text))

Separators(rows) == { i \in DOMAIN rows : Strip(rows[i].text) = <<"::", "=">> }

ParsedRows(acc) ==
    [failed |-> acc.failed,
     parsed |-> [i \in DOMAIN acc.rows |-> parse_rule(acc.rows[i])]]

ProgramOf(read, state) ==
    [failed |-> read.failed \/ \E i \in DOMAIN read.parsed : read.parsed[i].kind = "error",
     rules |-> LET at == Ascending({ i \in DOMAIN read.parsed : read.parsed[i].kind = "rule" })
               IN  [k \in DOMAIN at |-> read.parsed[at[k]]],
     state |-> state]

\* Mutant: the program is cut at the last separator.
parse_program_LastSeparator(rows) ==
    LET cut == Max(IF Separators(rows) = {} THEN {Len(rows) + 1} ELSE Separators(rows))
    IN  ProgramOf(ParsedRows(expand_patterns(SubSeq(rows, 1, cut - 1))),
                  SubSeq(rows, cut + 1, Len(rows)))

\* The rules of the rows above the first "::=" row, and the rows below it.
parse_program(rows) ==
    LET cut == Min({Len(rows) + 1} \cup Separators(rows))
    IN  ProgramOf(ParsedRows(expand_patterns(SubSeq(rows, 1, cut - 1))),
                  SubSeq(rows, cut + 1, Len(rows)))
=============================================================================
