------------------------------ MODULE Matching ------------------------------
(***************************************************************************)
(* The text operations the run loop of python/thuelang/interpreter.py     *)
(* uses; the other hosts use the same ones.                                *)
(* A symbol stands for one byte of the state.  A pattern is an alternation *)
(* of templates in the order of preference of a leftmost-first regexp      *)
(* engine; a template is two literal words around at most one hole, which  *)
(* is how both a "::|" step and a replacement mention a capture.  The      *)
(* captures of a rule are the words matched so far: the LHS match first,   *)
(* then one word per "::|" step; a hole names one of them by its position. *)
(***************************************************************************)
EXTENDS Integers, Sequences

CONSTANTS
    Symbol,    \* the bytes of the state
    Meta,      \* symbols that, inserted unquoted, do not compile as regexp source
    PctDecode, \* what the pctdec filter yields, on the words it accepts
    Doubled    \* the words with a backslash, each backslash doubled

ASSUME MatchingAssumption ==
    /\ Meta \subseteq Symbol
    /\ \A w \in DOMAIN PctDecode : PctDecode[w] \in Seq(Symbol)
    /\ \A w \in DOMAIN Doubled : Doubled[w] \in Seq(Symbol)

Word == Seq(Symbol)

\* ref = 0 when the template has no hole; filtered for {{name|filter}}.
Template == [pre : Word, ref : Nat, filtered : BOOLEAN, post : Word]

Pattern == Seq(Template)

(***************************************************************************)
(* Holes.  An unfiltered hole that names no capture is empty; a filtered   *)
(* one is an error.                                                        *)
(***************************************************************************)
Capture(t, groups) == IF t.ref \in DOMAIN groups THEN groups[t.ref] ELSE <<>>

Missing(t, groups) == t.ref # 0 /\ t.ref \notin DOMAIN groups

\* In a "::|" step the filter is quote: the hole matches the value literally.
Expand(t, groups) == t.pre \o Capture(t, groups) \o t.post

\* A step fails on a filtered hole without a capture, and on a verbatim
\* value that is not regexp source.
StepFails(t, groups) ==
    IF t.filtered THEN Missing(t, groups)
    ELSE \E i \in DOMAIN Capture(t, groups) : Capture(t, groups)[i] \in Meta

\* In a replacement the filter is pctdec, which refuses some values.
RenderFails(t, groups) ==
    t.filtered /\ (Missing(t, groups) \/ Capture(t, groups) \notin DOMAIN PctDecode)

\* An unfiltered hole of a replacement doubles the backslashes of the value.
Doubling(w) == IF w \in DOMAIN Doubled THEN Doubled[w] ELSE w

Render(t, groups) ==
    t.pre \o (IF t.filtered THEN PctDecode[Capture(t, groups)]
              ELSE Doubling(Capture(t, groups)))
          \o t.post

(***************************************************************************)
(* Search.  A span covers the positions at .. to of the state; the span of *)
(* an empty match is at .. at - 1.                                         *)
(***************************************************************************)
Span(s) == { m \in [at : 1 .. Len(s) + 1, to : 0 .. Len(s)] : m.to >= m.at - 1 }

Covered(s, m) == SubSeq(s, m.at, m.to)

Occurs(w, s) == \E m \in Span(s) : Covered(s, m) = w

Occurrences(p, groups, s) ==
    { m \in Span(s) : \E k \in DOMAIN p : Covered(s, m) = Expand(p[k], groups) }

\* Among the matches that start where m does, no earlier alternative matches.
FirstAlternative(p, groups, s, m) ==
    \E k \in DOMAIN p :
        /\ Covered(s, m) = Expand(p[k], groups)
        /\ \A j \in 1 .. k - 1 : \A n \in Span(s) :
              n.at = m.at => Covered(s, n) # Expand(p[j], groups)

\* The match a search returns, as a set that is empty on a miss.
FirstMatch(p, groups, s) ==
    { m \in Occurrences(p, groups, s) :
        /\ \A n \in Occurrences(p, groups, s) : m.at <= n.at
        /\ FirstAlternative(p, groups, s, m) }

\* The state with the matched span replaced.
Splice(s, m, repl) == SubSeq(s, 1, m.at - 1) \o repl \o SubSeq(s, m.to + 1, Len(s))
=============================================================================
