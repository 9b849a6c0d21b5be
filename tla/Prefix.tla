-------------------------------- MODULE Prefix --------------------------------
(***************************************************************************)
(* python/thuelang/prefix.py: the literal text that begins every match of  *)
(* a pattern.  The run loop skips the regular expression of a rule when    *)
(* this text is not in the state.  A pattern is a sequence of tokens; an   *)
(* index is 1-based.  Below it stands the reference: the words a pattern   *)
(* matches, read as RE2 reads it.                                          *)
(***************************************************************************)
EXTENDS Integers, FiniteSetsExt, SequencesExt

CONSTANTS
    Letter,    \* characters that stand for themselves
    Variants,  \* the letters each letter matches when case is folded
    ClassOf,   \* the contents of each bracket expression
    EscapeOf,  \* the character of each escape of a literal
    Spelling,  \* the characters of a token of more than one
    MaxWord    \* bound: the length of the words the reference considers

INF == -1

QuantifierOf ==
    [q \in {"*", "+", "?", "{0}", "{1}", "{2}", "{1,2}", "{2,}"} |->
        CASE q = "*" -> <<0, INF>>   [] q = "+" -> <<1, INF>> [] q = "?" -> <<0, 1>>
          [] q = "{0}" -> <<0, 0>>   [] q = "{1}" -> <<1, 1>> [] q = "{2}" -> <<2, 2>>
          [] q = "{1,2}" -> <<1, 2>> [] q = "{2,}" -> <<2, INF>>]

Repeats == DOMAIN QuantifierOf
Bare == {"*", "+", "?"}

\* What "(?...)" and "(?...:" set: multiline and fold.
FlagsOf(f, t) ==
    CASE t \in {"(?m)", "(?m:"}   -> [f EXCEPT !.multiline = TRUE]
      [] t \in {"(?-m)", "(?-m:"} -> [f EXCEPT !.multiline = FALSE]
      [] t \in {"(?mi)", "(?mi:"} -> [multiline |-> TRUE, fold |-> TRUE]
      [] t = "(?i)" -> [f EXCEPT !.fold = TRUE]
      [] OTHER -> f

SetFlags == {"(?m)", "(?-m)", "(?mi)", "(?i)"}
PerlOpen == {"(?:", "(?m:", "(?-m:", "(?mi:"}
CaptureOpen == {"(", "(?P<n>"}
ZeroWidth == {"^", "$", "\\A", "\\z", "\\b"}

NoFlags == [multiline |-> FALSE, fold |-> FALSE]

Chars(t) == IF t \in DOMAIN Spelling THEN Spelling[t] ELSE <<t>>

\* Where the "\E" of the quotation that opens at i stands, past the end if nowhere.
QuoteEnd(p, i) ==
    Min({Len(p) + 1} \cup { j \in i + 1 .. Len(p) : p[j] = "\\E" })

Quoted(p, i) ==
    FoldLeft(LAMBDA w, t : w \o Chars(t), <<>>, SubSeq(p, i + 1, QuoteEnd(p, i) - 1))

AfterQuote(p, i) == Min({QuoteEnd(p, i), Len(p)}) + 1

-----------------------------------------------------------------------------
(***************************************************************************)
(* Statuses.  "cont": what was read matches this text and nothing else.    *)
(* "stop": it matches words that begin with this text.  "block": nothing   *)
(* is known.  "cap": a capture of the empty text.                          *)
(***************************************************************************)

apply_quantifier(text, status, lo, hi) ==
    IF lo = 1 /\ hi = 1 THEN <<text, status>>
    ELSE IF status = "cap"
    THEN <<<<>>, IF lo # hi THEN "block" ELSE IF lo = 0 THEN "cont" ELSE "cap">>
    ELSE IF (status = "cont" /\ text = <<>>) \/ hi = 0 THEN <<<<>>, "cont">>
    ELSE IF lo = 0 \/ status \notin {"cont", "stop"} THEN <<<<>>, "block">>
    ELSE IF status = "stop" THEN <<text, "stop">>
    ELSE <<FlattenSeq([k \in 1 .. lo |-> text]), IF hi = lo THEN "cont" ELSE "stop">>

\* The atoms of a branch up to the first that is not "cont".
fold(atoms) ==
    LET ends == { i \in DOMAIN atoms : atoms[i][2] \in {"block", "stop"} }
        last == IF ends = {} THEN Len(atoms) ELSE Min(ends)
        text == FlattenSeq([i \in 1 .. last |-> atoms[i][1]])
        capped == \E i \in 1 .. last : atoms[i][2] = "cap"
    IN  IF ends # {}
        THEN <<text, IF text = <<>> /\ atoms[last][2] = "block" THEN "block" ELSE "stop">>
        ELSE <<text, IF text = <<>> /\ capped THEN "cap" ELSE "cont">>

\* Mutant: the text of the first branch stands for all.
common_First(folded) == <<folded[1][1], "stop">>

\* The text the branches of an alternation begin with.
common(folded) ==
    LET text == LongestCommonPrefix({ folded[i][1] : i \in DOMAIN folded })
    IN  IF text = <<>> \/ \E i \in DOMAIN folded : folded[i][2] = "block"
        THEN <<<<>>, "block">>
        ELSE <<text, IF \A i \in DOMAIN folded : folded[i] = <<text, "cont">>
                       THEN "cont" ELSE "stop">>

-----------------------------------------------------------------------------
\* The atom at p[i], what comes after it, the flags and whether the match still
\* stands at its beginning.  "bad" is the exception _Bad.
Atom(text, status, at, flags, atStart) ==
    [text |-> text, status |-> status, at |-> at, flags |-> flags, atStart |-> atStart]

Bad == Atom(<<>>, "bad", 0, NoFlags, FALSE)

Block(at, flags) == Atom(<<>>, "block", at, flags, FALSE)

class_span(c) ==
    IF ~c.negated /\ ~c.ranged /\ ~c.posix /\ Len(c.runes) = 1 THEN c.runes ELSE <<>>

\* A quantifier is taken only behind an atom; a "?" behind it makes it lazy.
quantifier(p, i) ==
    IF i > Len(p) \/ p[i] \notin Repeats THEN <<1, 1, i>>
    ELSE LET q == QuantifierOf[p[i]]
             next == IF i < Len(p) /\ p[i + 1] = "?" THEN i + 2 ELSE i + 1
         IN  <<q[1], q[2], next>>

escape_seq(p, i, flags, atStart, onePass) ==
    CASE p[i] = "\\Q" ->
            IF flags.fold /\ Quoted(p, i) # <<>> THEN Block(AfterQuote(p, i), flags)
            ELSE Atom(Quoted(p, i), "cont", AfterQuote(p, i), flags,
                      atStart /\ Quoted(p, i) = <<>>)
      [] p[i] = "\\A" /\ atStart /\ onePass -> Atom(<<>>, "cont", i + 1, flags, TRUE)
      [] p[i] \in DOMAIN EscapeOf ->
            IF flags.fold THEN Block(i + 1, flags)
            ELSE Atom(<<EscapeOf[p[i]]>>, "cont", i + 1, flags, FALSE)
      [] p[i] = "\\E" -> Bad
      [] OTHER -> Block(i + 1, flags)

RECURSIVE sequence(_, _, _, _, _, _, _)

group(p, i, flags, atStart, onePass) ==
    LET inside == sequence(p, i + 1, FlagsOf(flags, p[i]), atStart, TRUE, onePass, <<<<>>>>)
        empty == inside.status = "cont" /\ inside.text = <<>>
    IN  IF inside.status = "bad" \/ inside.at > Len(p) THEN Bad
        ELSE IF p[i] \notin PerlOpen /\ onePass THEN Block(inside.at + 1, flags)
        ELSE IF p[i] \notin PerlOpen /\ empty
        THEN Atom(<<>>, "cap", inside.at + 1, flags, atStart)
        ELSE Atom(inside.text, inside.status, inside.at + 1, flags, atStart /\ empty)

atom(p, i, flags, atStart, onePass) ==
    CASE p[i] = "^" ->
            IF flags.multiline \/ ~atStart \/ ~onePass THEN Block(i + 1, flags)
            ELSE Atom(<<>>, "cont", i + 1, flags, TRUE)
      [] p[i] \in {"$", "."} -> Block(i + 1, flags)
      [] p[i] \in DOMAIN ClassOf ->
            IF class_span(ClassOf[p[i]]) = <<>> \/ flags.fold THEN Block(i + 1, flags)
            ELSE Atom(class_span(ClassOf[p[i]]), "cont", i + 1, flags, FALSE)
      [] p[i] \in SetFlags -> Atom(<<>>, "flags", i + 1, FlagsOf(flags, p[i]), atStart)
      [] p[i] \in CaptureOpen \cup PerlOpen -> group(p, i, flags, atStart, onePass)
      [] p[i] \in {"\\Q", "\\A", "\\E", "\\z", "\\b"} \cup DOMAIN EscapeOf ->
            escape_seq(p, i, flags, atStart, onePass)
      [] p[i] \in Bare \cup {")", "|"} -> Bad
      [] OTHER -> IF flags.fold THEN Block(i + 1, flags)
                  ELSE Atom(Chars(p[i]), "cont", i + 1, flags, FALSE)

sequence(p, i, flags, atStart, inGroup, onePass, branches) ==
    IF i > Len(p) \/ (inGroup /\ p[i] = ")")
    THEN LET folded == [b \in DOMAIN branches |-> fold(branches[b])]
             r == IF Len(folded) = 1 THEN folded[1] ELSE common(folded)
         IN  Atom(r[1], r[2], i, flags, atStart)
    ELSE IF p[i] = "|"
    THEN sequence(p, i + 1, flags, TRUE, inGroup, onePass, Append(branches, <<>>))
    ELSE LET a == atom(p, i, flags, atStart, onePass)
             q == quantifier(p, a.at)
             r == apply_quantifier(a.text, a.status, q[1], q[2])
         IN  IF a.status = "bad" THEN Bad
             ELSE IF a.status = "flags"
             THEN sequence(p, a.at, a.flags, a.atStart, inGroup, onePass, branches)
             ELSE IF r = <<<<>>, "cont">>
             THEN sequence(p, q[3], a.flags, a.atStart, inGroup, onePass, branches)
             ELSE sequence(p, q[3], a.flags, a.atStart /\ r[2] = "cap", inGroup, onePass,
                           [branches EXCEPT ![Len(branches)] = Append(@, r)])

-----------------------------------------------------------------------------
\* Whether Go would compile the body to a one-pass program: anchored at its
\* beginning, and with no choice the next character does not decide.

RECURSIVE LeadingBegin(_, _, _)
LeadingBegin(p, i, multiline) ==
    /\ i <= Len(p)
    /\ \/ /\ p[i] \in PerlOpen \cup SetFlags
          /\ LeadingBegin(p, i + 1,
                 FlagsOf([multiline |-> multiline, fold |-> FALSE], p[i]).multiline)
       \/ p[i] = "\\A"
       \/ p[i] = "^" /\ ~multiline

leading_begin_text(p) == LeadingBegin(p, 1, FALSE)

end_anchored(p) ==
    /\ p # <<>>
    /\ \/ p[Len(p)] = "\\z"
       \/ /\ p[Len(p)] = "$"
          /\ \A i \in DOMAIN p : p[i] \notin {"(?m)", "(?m:", "(?mi)", "(?mi:"}

InQuote(p, i) ==
    \E q \in 1 .. i - 1 : p[q] = "\\Q" /\ \A j \in q + 1 .. i : p[j] # "\\E"

alt_present(p) == \E i \in DOMAIN p : p[i] = "|" /\ ~InQuote(p, i)

\* A class of all characters is repeated in front of another atom.
swallows_next(p) ==
    \E i \in 1 .. Len(p) - 2 :
        /\ p[i] = "[\\s\\S]" /\ p[i + 1] \in {"*", "+", "?"}
        /\ LET lazy == IF p[i + 2] = "?" THEN i + 3 ELSE i + 2
           IN  \E j \in lazy .. Len(p) :
                  /\ \A k \in lazy .. j - 1 : p[k] = ")"
                  /\ p[j] \notin {")", "\\z", "$"}

one_pass(p) ==
    /\ leading_begin_text(p)
    /\ alt_present(p) => end_anchored(p)
    /\ ~swallows_next(p)

\* The text a state without which no rule with this left-hand side matches.
literal_prefix(lhs) ==
    LET body == IF lhs # <<>> /\ lhs[1] = "^" THEN Tail(lhs) ELSE lhs
        r == sequence(body, 1, NoFlags, TRUE, FALSE, one_pass(body), <<<<>>>>)
        folded == \E i \in DOMAIN lhs : lhs[i] = "(?i)"
    IN  IF folded \/ r.status = "bad" \/ r.at # Len(body) + 1 THEN <<>> ELSE r.text

-----------------------------------------------------------------------------
(***************************************************************************)
(* The reference: how RE2 reads a pattern, and the words of at most        *)
(* MaxWord characters it matches when anchors and word boundaries are      *)
(* taken to hold anywhere, which only adds words.  A quotation is read     *)
(* character by character, so that a repetition repeats the item before    *)
(* it, whatever wrote that item.                                           *)
(***************************************************************************)
Cat(U, V) == { w \in { u \o v : u \in U, v \in V } : Len(w) <= MaxWord }

Repeat(W, lo, hi) ==
    LET power[n \in 0 .. MaxWord + 2] == IF n = 0 THEN {<<>>} ELSE Cat(power[n - 1], W)
    IN  UNION { power[n] : n \in lo .. (IF hi = INF THEN MaxWord + 2 ELSE hi) }

Single(c, fold_) ==
    IF fold_ /\ c \in DOMAIN Variants THEN { <<v>> : v \in Variants[c] } ELSE {<<c>>}

ClassWords(c, fold_) ==
    LET named == UNION { Single(c.runes[i], fold_) : i \in DOMAIN c.runes }
    IN  IF c.posix THEN { <<l>> : l \in Letter }
        ELSE IF c.negated THEN { <<l>> : l \in Letter } \ named
        ELSE named

\* done: the alternatives that are finished; head and last: the current one,
\* without its last item and that item; repeated: whether it ends in a repetition.
Fresh == [done |-> {}, head |-> {<<>>}, last |-> {<<>>}, items |-> 0, repeated |-> FALSE]

Push(r, W) ==
    [r EXCEPT !.head = Cat(r.head, r.last), !.last = W, !.items = @ + 1, !.repeated = FALSE]

WordsOf(r) == r.done \cup Cat(r.head, r.last)

Unreadable == [ok |-> FALSE, words |-> {}, at |-> 0]

RECURSIVE Read(_, _, _, _, _)
Read(p, i, flags, inGroup, r) ==
    IF i > Len(p) \/ (inGroup /\ p[i] = ")")
    THEN [ok |-> inGroup => i <= Len(p), words |-> WordsOf(r), at |-> i]
    ELSE CASE p[i] = "|" ->
                Read(p, i + 1, flags, inGroup, [Fresh EXCEPT !.done = WordsOf(r)])
           [] p[i] \in Repeats ->
                LET q == quantifier(p, i)
                IN  IF r.items = 0 \/ r.repeated THEN Unreadable
                    ELSE Read(p, q[3], flags, inGroup,
                              [r EXCEPT !.last = Repeat(@, q[1], q[2]), !.repeated = TRUE])
           [] p[i] \in SetFlags ->
                Read(p, i + 1, FlagsOf(flags, p[i]), inGroup, [r EXCEPT !.repeated = FALSE])
           [] p[i] \in CaptureOpen \cup PerlOpen ->
                LET inside == Read(p, i + 1, FlagsOf(flags, p[i]), TRUE, Fresh)
                IN  IF ~inside.ok THEN Unreadable
                    ELSE Read(p, inside.at + 1, flags, inGroup, Push(r, inside.words))
           [] p[i] \in {")", "\\E"} -> Unreadable
           [] p[i] = "\\Q" ->
                Read(p, AfterQuote(p, i), flags, inGroup,
                     FoldLeft(LAMBDA acc, c : Push(acc, Single(c, flags.fold)),
                              [r EXCEPT !.repeated = FALSE], Quoted(p, i)))
           [] OTHER ->
                LET W == CASE p[i] \in ZeroWidth -> {<<>>}
                           [] p[i] = "." -> { <<l>> : l \in Letter }
                           [] p[i] \in DOMAIN ClassOf -> ClassWords(ClassOf[p[i]], flags.fold)
                           [] p[i] \in DOMAIN EscapeOf -> Single(EscapeOf[p[i]], flags.fold)
                           [] OTHER -> Single(p[i], flags.fold)
                IN  Read(p, i + 1, flags, inGroup, Push(r, W))

Reading(lhs) == Read(lhs, 1, NoFlags, FALSE, Fresh)
=============================================================================
