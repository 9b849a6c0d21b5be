------------------------------ MODULE PrefixInputs ------------------------------
(***************************************************************************)
(* The patterns among the inputs of PureFunctions, and what prefix.py      *)
(* makes of them.  Prefix reads a pattern by recursion, which only TLC     *)
(* evaluates; the other functions stay within reach of a proof without it. *)
(***************************************************************************)
EXTENDS PureFunctions, Prefix

\* A quantifier stands behind an item of the pattern, where prefix.py looks for
\* one: not behind "\E" or a flag setting, no braces behind the first "^".
QuantifiersBehindItems(p) ==
    \A i \in 2 .. Len(p) :
        p[i] \in Repeats =>
            /\ p[i - 1] \notin SetFlags \cup {"\\E"}
            /\ p[i] \notin Bare => i # 2 \/ p[1] # "^"

Sound(p) ==
    LET reading == Reading(p)
    IN  reading.ok => \A w \in reading.words : IsPrefix(literal_prefix(p), w)

\* Each word a pattern matches begins with the prefix of the pattern, so that a
\* state without the prefix has no match and _match may skip the regular
\* expression (interpreter.py:1094 and prefix.py:3).
PrefixSound == kind = "pattern" /\ QuantifiersBehindItems(input) => Sound(input)

\* The same of every pattern, as prefix.py:3 has it.
PrefixSoundEverywhere == kind = "pattern" => Sound(input)
=============================================================================
