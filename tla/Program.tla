------------------------------ MODULE Program ------------------------------
(***************************************************************************)
(* A loaded program and the bindings it runs with: the Rule and Binding    *)
(* classes of python/thuelang/interpreter.py, a Binding with scripted      *)
(* lines or a recorded output, as the run loop sees them.                  *)
(***************************************************************************)
EXTENDS Matching

CONSTANTS
    Resource,      \* the resource names a program mentions
    Readable,      \* the bindings that serve lines
    Writable,      \* the bindings that take output
    Flaky,         \* the bindings whose host may time out or fail
    Script,        \* the lines each readable binding serves, in order
    PctEncode,     \* the canonical PCT encoding of those lines
    BuiltinTable,  \* the result of the builtin, on the values it accepts
    ErrorMarker,   \* the ERR:resource text of each name
    NotInteger,    \* the right-hand side of an exit rule that is no integer
    Programs,      \* the rule lists considered
    InitialStates  \* the states considered

Operators == {"Substitute", "Read", "Write", "Builtin", "Exit"}

\* specOK: the right-hand side of a read is a timeout and a resource name.
Rule == [op : Operators, lhs : Pattern, literalPrefix : Word, mids : Seq(Pattern),
         rhs : Template, res : Resource, specOK : BOOLEAN,
         code : Int \cup {NotInteger}, lhsLen : Nat, rhsLen : Nat]

Bindings == Readable \cup Writable

\* What literal_prefix promises: every match of the LHS begins with it.
PrefixSound(r) ==
    \A k \in DOMAIN r.lhs :
        LET w == r.lhs[k].pre \o r.lhs[k].post
        IN  /\ r.lhs[k].ref = 0
            /\ Len(r.literalPrefix) <= Len(w)
            /\ r.literalPrefix = SubSeq(w, 1, Len(r.literalPrefix))

ASSUME ProgramAssumption ==
    /\ Readable \subseteq Resource /\ Writable \subseteq Resource
    /\ Flaky \subseteq Bindings
    /\ Script \in [Readable -> Seq(DOMAIN PctEncode)]
    /\ \A l \in DOMAIN PctEncode : PctEncode[l] \in Word
    /\ \A v \in DOMAIN BuiltinTable : BuiltinTable[v] \in Word
    /\ \A n \in Resource : ErrorMarker[n] \in Word /\ ErrorMarker[n] # <<>>
    /\ NotInteger \notin Int
    /\ \A p \in Programs : p \in Seq(Rule) /\ \A i \in DOMAIN p : PrefixSound(p[i])
    /\ InitialStates \subseteq Word

-----------------------------------------------------------------------------
\* The words a search of s can capture.
Substrings(s) == { Covered(s, m) : m \in Span(s) }

\* The head of gs is what the LHS and the first n "::|" steps of r capture in
\* s, one after the other, each step seeing the captures before it.
CapturesTo(r, s, gs, n) ==
    /\ \E m \in FirstMatch(r.lhs, <<>>, s) : gs[1] = Covered(s, m)
    /\ \A k \in 1 .. n :
          LET sofar == SubSeq(gs, 1, k)
          IN  /\ \A a \in DOMAIN r.mids[k] : ~StepFails(r.mids[k][a], sofar)
              /\ \E m \in FirstMatch(r.mids[k], sofar, s) : gs[k + 1] = Covered(s, m)

Captures(r, s, gs) == CapturesTo(r, s, gs, Len(r.mids))

CaptureLists(r, s) ==
    { gs \in [1 .. Len(r.mids) + 1 -> Substrings(s)] : Captures(r, s, gs) }

Applies(r, s) == CaptureLists(r, s) # {}

\* What the first steps of r capture in s, as far as they match.
PartialLists(r, s) ==
    { gs \in UNION { [1 .. n -> Substrings(s)] : n \in 1 .. Len(r.mids) + 1 } :
        CapturesTo(r, s, gs, Len(gs) - 1) }

\* A "::|" step of r fails in s, behind the captures of the steps before it.
Breaks(r, s) ==
    \E gs \in PartialLists(r, s) :
        /\ Len(gs) <= Len(r.mids)
        /\ \E a \in DOMAIN r.mids[Len(gs)] : StepFails(r.mids[Len(gs)][a], gs)

\* A scan may pass r over.
Misses(r, s) == ~Applies(r, s) /\ ~Breaks(r, s)

\* A binding that cannot serve a line: an output stream, or a script at its
\* end, when served gives the lines it has handed out.
Dry(n, served) == n \in Readable => served[n] >= Len(Script[n])
=============================================================================
