------------------------------ MODULE Rewriting ------------------------------
(***************************************************************************)
(* What a program means, apart from limits, counters and the granularity   *)
(* of the loop: docs/rfc-language.md section 7 as the hosts implement it.  *)
(* A step applies the first rule of the list that applies, unless an       *)
(* earlier one has a step that fails, at its leftmost match, and replaces  *)
(* that one span.  A run may stop after any step and   *)
(* be continued from the state it left; the only other step is the one a   *)
(* host makes when it rejects a replacement that is too long: the state    *)
(* stays, but a line that was read is gone and text that was written is    *)
(* out.                                                                    *)
(***************************************************************************)
EXTENDS Program

VARIABLES
    rules,   \* the rule list
    state,   \* the text
    next,    \* the lines each readable binding has served
    written  \* the writes each writable binding has taken

rewritingVars == <<rules, state, next, written>>

Init ==
    /\ rules \in Programs
    /\ state \in InitialStates
    /\ next = [n \in Readable |-> 0]
    /\ written = [n \in Writable |-> 0]

FirstApplicable(i) ==
    /\ Applies(rules[i], state)
    /\ \A j \in 1 .. i - 1 : Misses(rules[j], state)

\* The replacement takes effect, or the host refuses it.
Replace(m, repl) == state' \in {state, Splice(state, m, repl)}

\* The operator of r: what it does to the bindings, and the text it yields.
Operate(r, gs, m) ==
    \/ /\ r.op = "Substitute" /\ ~RenderFails(r.rhs, gs)
       /\ Replace(m, Render(r.rhs, gs))
       /\ UNCHANGED <<next, written>>
    \/ /\ r.op = "Builtin" /\ Capture(r.rhs, gs) \in DOMAIN BuiltinTable
       /\ Replace(m, BuiltinTable[Capture(r.rhs, gs)])
       /\ UNCHANGED <<next, written>>
    \/ /\ r.op = "Read" /\ ~Dry(r.res, next)
       /\ next' = [next EXCEPT ![r.res] = @ + 1]
       /\ Replace(m, PctEncode[Script[r.res][next[r.res] + 1]])
       /\ UNCHANGED written
    \/ /\ r.op = "Write" /\ r.res \in Writable
       /\ written' = [written EXCEPT ![r.res] = @ + 1]
       /\ Replace(m, <<>>)
       /\ UNCHANGED next
    \/ /\ r.op = "Write" /\ (r.res \notin Writable \/ r.res \in Flaky)
       /\ Replace(m, ErrorMarker[r.res])
       /\ UNCHANGED <<next, written>>

Rewrite(i) ==
    /\ FirstApplicable(i)
    /\ \E gs \in CaptureLists(rules[i], state),
          m \in FirstMatch(rules[i].lhs, <<>>, state) : Operate(rules[i], gs, m)
    /\ UNCHANGED rules

Next == \E i \in DOMAIN rules : Rewrite(i)

Spec == Init /\ [][Next]_rewritingVars
=============================================================================
