--------------------------- MODULE InterpreterProofs ---------------------------
(***************************************************************************)
(* Theorems about the run loop, for every program, state, script and set   *)
(* of limits: it keeps its types, it applies the first rule that applies,  *)
(* it answers 0 only in a normal form, and it implements Rewriting.  Over  *)
(* every call of run: the trace is the path of the state, the limits hold, *)
(* the counters are those of the trace, each rule is covered as often as   *)
(* the trace says, and each binding has served and taken what it says.     *)
(***************************************************************************)
EXTENDS Interpreter, SequenceTheorems, FiniteSetTheorems, TLAPS

-----------------------------------------------------------------------------
\* Filling the hole of a template yields a word.
LEMMA TemplateTypes ==
    ASSUME NEW t \in Template, NEW gs \in Seq(Word)
    PROVE  /\ Capture(t, gs) \in Word
           /\ Expand(t, gs) \in Word
           /\ ~RenderFails(t, gs) => Render(t, gs) \in Word
<1>1. Capture(t, gs) \in Word
  BY DEF Template, Capture, Word
<1>2. t.pre \in Word /\ t.post \in Word
  BY DEF Template
<1>3. Expand(t, gs) \in Word
  BY <1>1, <1>2, ConcatProperties DEF Expand, Word
<1>4. ASSUME ~RenderFails(t, gs) PROVE Render(t, gs) \in Word
  <2>1. CASE t.filtered
    <3>1. PctDecode[Capture(t, gs)] \in Word
      BY <1>4, <2>1, MatchingAssumption DEF RenderFails, Word
    <3>2. QED
      BY <2>1, <3>1, <1>2, ConcatProperties DEF Render, Word
  <2>2. CASE ~t.filtered
    <3>1. Doubling(Capture(t, gs)) \in Word
      BY <1>1, MatchingAssumption DEF Doubling, Word
    <3>2. QED
      BY <2>2, <3>1, <1>2, ConcatProperties DEF Render, Word
  <2>3. QED
    BY <2>1, <2>2
<1>5. QED
  BY <1>1, <1>3, <1>4

\* The text under a span is a word as long as the span.
LEMMA CoveredProperties ==
    ASSUME NEW s \in Word, NEW m \in Span(s)
    PROVE  /\ Covered(s, m) \in Word
           /\ Len(Covered(s, m)) = m.to - m.at + 1
           /\ \A i \in 1 .. m.to - m.at + 1 : Covered(s, m)[i] = s[m.at + i - 1]
<1>1. m.at \in Int /\ m.to \in Int /\ m.at >= 1 /\ m.to <= Len(s) /\ m.to >= m.at - 1
  BY DEF Span, Word
<1>2. \A i \in m.at .. m.to : s[i] \in Symbol
  BY <1>1 DEF Word
<1>3. QED
  BY <1>1, <1>2, SubSeqProperties DEF Covered, Word

\* Replacing a span yields a word.
LEMMA SpliceType ==
    ASSUME NEW s \in Word, NEW m \in Span(s), NEW repl \in Word
    PROVE  Splice(s, m, repl) \in Word
<1>1. m.at \in Int /\ m.to \in Int /\ m.at >= 1 /\ m.to <= Len(s) /\ m.to >= m.at - 1
      /\ m.at <= Len(s) + 1 /\ m.to >= 0 /\ Len(s) \in Nat
  BY DEF Span, Word
<1>2. SubSeq(s, 1, m.at - 1) \in Word
  <2>1. \A i \in 1 .. m.at - 1 : s[i] \in Symbol
    BY <1>1 DEF Word
  <2>2. QED
    BY <1>1, <2>1, SubSeqProperties DEF Word
<1>3. SubSeq(s, m.to + 1, Len(s)) \in Word
  <2>1. \A i \in m.to + 1 .. Len(s) : s[i] \in Symbol
    BY <1>1 DEF Word
  <2>2. QED
    BY <1>1, <2>1, SubSeqProperties DEF Word
<1>4. QED
  BY <1>2, <1>3, ConcatProperties DEF Splice, Word

\* A match lies inside the state.
LEMMA MatchInState ==
    ASSUME NEW p, NEW gs, NEW s, NEW m \in FirstMatch(p, gs, s)
    PROVE  m \in Span(s)
BY DEF FirstMatch, Occurrences

\* A search has at most one result, so what a rule captures is a function of
\* the state and the captures before it.
LEMMA MatchIsUnique ==
    ASSUME NEW p \in Pattern, NEW gs \in Seq(Word), NEW s \in Word,
           NEW m \in FirstMatch(p, gs, s), NEW n \in FirstMatch(p, gs, s)
    PROVE  m = n
<1>1. m \in Span(s) /\ n \in Span(s)
  BY DEF FirstMatch, Occurrences
<1>2. m.at = n.at
  BY <1>1 DEF FirstMatch, Span, Word
<1>3. PICK j \in DOMAIN p :
          /\ Covered(s, m) = Expand(p[j], gs)
          /\ \A i \in 1 .. j - 1 : \A l \in Span(s) :
                l.at = m.at => Covered(s, l) # Expand(p[i], gs)
  BY DEF FirstMatch, FirstAlternative
<1>4. PICK k \in DOMAIN p :
          /\ Covered(s, n) = Expand(p[k], gs)
          /\ \A i \in 1 .. k - 1 : \A l \in Span(s) :
                l.at = n.at => Covered(s, l) # Expand(p[i], gs)
  BY DEF FirstMatch, FirstAlternative
<1>5. DOMAIN p = 1 .. Len(p) /\ Len(p) \in Nat
  BY DEF Pattern
<1>6. j = k
  BY <1>1, <1>2, <1>3, <1>4, <1>5
<1>7. Len(Covered(s, m)) = Len(Covered(s, n))
  BY <1>3, <1>4, <1>6
<1>8. m.to = n.to
  BY <1>1, <1>2, <1>7, CoveredProperties DEF Span, Word
<1>9. QED
  BY <1>1, <1>2, <1>8 DEF Span

\* Every prefix of a covered text is covered by a span that starts there.
LEMMA CoveredPrefix ==
    ASSUME NEW s \in Word, NEW m \in Span(s), NEW n \in 0 .. Len(Covered(s, m))
    PROVE  \E l \in Span(s) : Covered(s, l) = SubSeq(Covered(s, m), 1, n)
<1> DEFINE w == Covered(s, m)
           l == [at |-> m.at, to |-> m.at + n - 1]
<1>1. m.at \in Int /\ m.to \in Int /\ m.at >= 1 /\ m.to <= Len(s) /\ m.to >= m.at - 1
      /\ m.at <= Len(s) + 1 /\ m.to >= 0 /\ Len(s) \in Nat
  BY DEF Span, Word
<1>2. /\ w \in Word
      /\ Len(w) = m.to - m.at + 1
      /\ \A i \in 1 .. m.to - m.at + 1 : w[i] = s[m.at + i - 1]
  BY CoveredProperties
<1> HIDE DEF w
<1>3. n \in Nat /\ n <= m.to - m.at + 1
  BY <1>1, <1>2 DEF w
<1>4. l \in Span(s) /\ l.at = m.at /\ l.to - l.at + 1 = n
  BY <1>1, <1>3 DEF Span
<1> HIDE DEF l
<1>5. /\ Covered(s, l) \in Seq(Symbol)
      /\ Len(Covered(s, l)) = n
      /\ \A i \in 1 .. n : Covered(s, l)[i] = s[m.at + i - 1]
  BY <1>4, CoveredProperties DEF Word
<1>6. /\ SubSeq(w, 1, n) \in Seq(Symbol)
      /\ Len(SubSeq(w, 1, n)) = n
      /\ \A i \in 1 .. n : SubSeq(w, 1, n)[i] = w[i]
  <2>1. \A i \in 1 .. n : w[i] \in Symbol
    BY <1>1, <1>2, <1>3 DEF Word
  <2>2. QED
    BY <1>3, <2>1, SubSeqProperties
<1>7. \A i \in 1 .. n : Covered(s, l)[i] = SubSeq(w, 1, n)[i]
  BY <1>1, <1>2, <1>3, <1>5, <1>6
<1>8. Covered(s, l) = SubSeq(w, 1, n)
  BY <1>5, <1>6, <1>7, SeqEqual
<1>9. QED
  BY <1>4, <1>8 DEF w

\* The literal prefix test never hides a match (literalPrefixOf and its use
\* in findMatchFrom): a state that does not contain the prefix has none.
THEOREM PrefixMissIsMiss ==
    ASSUME NEW r \in Rule, PrefixSound(r), NEW s \in Word,
           ~Occurs(r.literalPrefix, s)
    PROVE  FirstMatch(r.lhs, <<>>, s) = {}
<1>1. SUFFICES ASSUME NEW m \in Span(s), NEW k \in DOMAIN r.lhs,
                      Covered(s, m) = Expand(r.lhs[k], <<>>)
               PROVE  FALSE
  BY DEF FirstMatch, Occurrences
<1>2. r.lhs[k] \in Template /\ r.literalPrefix \in Word
  BY DEF Rule, Pattern
<1>3. Covered(s, m) = r.lhs[k].pre \o r.lhs[k].post
  <2>1. Capture(r.lhs[k], <<>>) = <<>>
    BY DEF Capture, PrefixSound
  <2>2. r.lhs[k].pre \in Seq(Symbol)
    BY <1>2 DEF Template, Word
  <2>3. r.lhs[k].pre \o <<>> = r.lhs[k].pre
    BY <2>2, ConcatEmptySeq
  <2>4. QED
    BY <1>1, <2>1, <2>3 DEF Expand
<1>4. /\ Len(r.literalPrefix) <= Len(Covered(s, m))
      /\ r.literalPrefix = SubSeq(Covered(s, m), 1, Len(r.literalPrefix))
  BY <1>3 DEF PrefixSound
<1>5. Len(r.literalPrefix) \in 0 .. Len(Covered(s, m))
  BY <1>2, <1>4, CoveredProperties DEF Word
<1>6. QED
  BY <1>4, <1>5, CoveredPrefix DEF Occurs

-----------------------------------------------------------------------------
\* Types.

\* A rule of a considered program is a Rule, and its prefix is sound.
LEMMA RuleType ==
    ASSUME rules \in Programs, NEW i \in DOMAIN rules
    PROVE  rules[i] \in Rule /\ PrefixSound(rules[i]) /\ Len(rules) \in Nat
           /\ DOMAIN rules = 1 .. Len(rules)
BY ProgramAssumption

\* The counters stay natural numbers.
LEMMA ChargeTypes ==
    ASSUME NEW m \in Metrics, NEW matched \in BOOLEAN, NEW s \in Word,
           state \in Word, rules[ri] \in Rule
    PROVE  /\ chargeEval(m, matched) \in Metrics
           /\ chargeStep(m) \in Metrics
           /\ noteState(m, s) \in Metrics
           /\ FreshMetrics(s) \in Metrics
<1>1. Len(s) \in Nat /\ Len(state) \in Nat
  BY DEF Word
<1>2. rules[ri].lhsLen \in Nat /\ rules[ri].rhsLen \in Nat
  BY DEF Rule
<1>0. /\ m.appliedSteps \in Nat /\ m.cost \in Nat /\ m.regexEvals \in Nat
      /\ m.regexMatches \in Nat /\ m.stateBytes \in Nat /\ m.statePeak \in Nat
  BY DEF Metrics
<1>3. chargeEval(m, matched) \in Metrics
  <2> DEFINE c == m.cost + Len(state) + rules[ri].lhsLen
             h == m.regexMatches + (IF matched THEN 1 ELSE 0)
  <2>1. c \in Nat /\ h \in Nat /\ m.regexEvals + 1 \in Nat
    BY <1>0, <1>1, <1>2
  <2>2. chargeEval(m, matched) =
          [m EXCEPT !.regexEvals = @ + 1, !.cost = c, !.regexMatches = h]
    BY DEF chargeEval, Metrics
  <2> HIDE DEF c, h
  <2>3. QED
    BY <1>0, <2>1, <2>2 DEF Metrics
<1>4. chargeStep(m) \in Metrics
  <2> DEFINE c == m.cost + rules[ri].rhsLen
  <2>1. c \in Nat /\ m.appliedSteps + 1 \in Nat
    BY <1>0, <1>2
  <2>2. chargeStep(m) = [m EXCEPT !.appliedSteps = @ + 1, !.cost = c]
    BY DEF chargeStep, Metrics
  <2> HIDE DEF c
  <2>3. QED
    BY <1>0, <2>1, <2>2 DEF Metrics
<1>5. noteState(m, s) \in Metrics
  <2> DEFINE p == IF Len(s) > m.statePeak THEN Len(s) ELSE m.statePeak
  <2>1. p \in Nat /\ m.stateBytes + Len(s) \in Nat
    BY <1>0, <1>1
  <2>2. noteState(m, s) = [m EXCEPT !.stateBytes = @ + Len(s), !.statePeak = p]
    BY DEF noteState, Metrics
  <2> HIDE DEF p
  <2>3. QED
    BY <1>0, <2>1, <2>2 DEF Metrics
<1>6. FreshMetrics(s) \in Metrics
  BY <1>1 DEF Metrics, FreshMetrics
<1>7. QED
  BY <1>3, <1>4, <1>5, <1>6

\* Recording an event leaves a trace.
LEMMA TraceType ==
    ASSUME TypeOK, pc = "mid", NEW outcome \in Outcomes, NEW repl \in Word,
           NEW after \in Word, recordTrace(outcome, repl, after)
    PROVE  trace' \in Seq(TraceEvent)
<1>1. Event(outcome, repl, after) \in TraceEvent
  BY DEF TypeOK, Event, TraceEvent
<1>2. QED
  BY <1>1, AppendProperties DEF TypeOK, recordTrace

\* The part of TypeOK that says where the loop stands.
ControlOK ==
    /\ pc \in {"idle", "probe", "mid", "done"}
    /\ ri \in 1 .. Len(rules) + 1
    /\ match \in [at : Nat \ {0}, to : Nat]
    /\ groups \in Seq(Word)
    /\ pc = "mid" => ri \in DOMAIN rules /\ match \in Span(state) /\ groups # <<>>
    /\ result.code \in Int /\ result.limit \in {"none", "steps", "evals", "state", "timeout"}

\* Going to a rule keeps the control state typed.
LEMMA ToRuleType ==
    ASSUME TypeOK, NEW i \in 1 .. Len(rules) + 1, ToRule(i), rules' = rules
    PROVE  ControlOK'
<1>1. match' \in [at : Nat \ {0}, to : Nat] /\ groups' \in Seq(Word)
  BY DEF ToRule, NoMatch
<1>2. QED
  BY <1>1 DEF TypeOK, ControlOK, ToRule

\* Returning keeps the control state typed.
LEMMA ReturnType ==
    ASSUME TypeOK, NEW code \in Int,
           NEW kind \in {"none", "steps", "evals", "state", "timeout"},
           Return(code, kind), rules' = rules
    PROVE  ControlOK'
BY DEF TypeOK, ControlOK, Return

\* setState keeps state, trace, metrics and control state typed.
LEMMA SetStateType ==
    ASSUME TypeOK, pc = "mid", NEW repl \in Word, setState(repl)
    PROVE  /\ rules' = rules /\ limits' = limits /\ runs' = runs /\ start' = start
           /\ past' = past /\ evalCount' = evalCount
           /\ state' \in Word /\ trace' \in Seq(TraceEvent) /\ metrics' \in Metrics
           /\ ControlOK'
<1> DEFINE candidate == Splice(state, match, repl)
           over == limits.bytes # Unlimited /\ Len(candidate) > limits.bytes
           after == IF over THEN state ELSE candidate
<1>1. candidate \in Word /\ state \in Word
  BY SpliceType DEF TypeOK
<1>2. rules[ri] \in Rule
  BY RuleType DEF TypeOK
<1> HIDE DEF candidate, over
<1>3. after \in Word
  BY <1>1
<1>4. /\ state' = after
      /\ recordTrace(IF over THEN "rejected" ELSE "applied", repl, after)
      /\ metrics' = IF over THEN metrics ELSE chargeStep(noteState(metrics, after))
      /\ IF over THEN Return(12, "state")
         ELSE IF Reached(metrics.appliedSteps + 1, limits.steps) THEN Return(10, "steps")
         ELSE ToRule(1)
      /\ UNCHANGED <<evalCount, hostVars>>
  BY DEF setState, candidate, over
<1> HIDE DEF after
<1>5. (IF over THEN "rejected" ELSE "applied") \in Outcomes
  BY DEF Outcomes
<1>6. trace' \in Seq(TraceEvent)
  BY <1>3, <1>4, <1>5, TraceType
<1>7. metrics' \in Metrics
  BY <1>1, <1>2, <1>3, <1>4, ChargeTypes DEF TypeOK
<1>8. rules' = rules /\ limits' = limits /\ runs' = runs /\ start' = start
      /\ past' = past /\ evalCount' = evalCount
  BY <1>4 DEF hostVars
<1>9. ControlOK'
  <2>1. Return(12, "state") => ControlOK'
    BY <1>8, ReturnType
  <2>2. Return(10, "steps") => ControlOK'
    BY <1>8, ReturnType
  <2>3. 1 \in 1 .. Len(rules) + 1
    BY RuleType DEF TypeOK
  <2>4. ToRule(1) => ControlOK'
    BY <1>8, <2>3, ToRuleType
  <2>5. QED
    BY <1>4, <2>1, <2>2, <2>4
<1>10. QED
  BY <1>3, <1>4, <1>6, <1>7, <1>8, <1>9

\* What the operators put into the state is a word.
LEMMA ReplacementTypes ==
    ASSUME TypeOK, pc = "mid"
    PROVE  /\ ~RenderFails(rules[ri].rhs, groups) => Render(rules[ri].rhs, groups) \in Word
           /\ Capture(rules[ri].rhs, groups) \in DOMAIN BuiltinTable
                => BuiltinTable[Capture(rules[ri].rhs, groups)] \in Word
           /\ \A n \in Readable : ~Dry(n, next) =>
                PctEncode[Script[n][next[n] + 1]] \in Word /\ next[n] \in Nat
           /\ ErrorMarker[rules[ri].res] \in Word
           /\ <<>> \in Word
<1>1. rules[ri] \in Rule
  BY RuleType DEF TypeOK
<1>2. rules[ri].rhs \in Template /\ rules[ri].res \in Resource
  BY <1>1 DEF Rule
<1>3. ASSUME NEW n \in Readable, ~Dry(n, next)
      PROVE  PctEncode[Script[n][next[n] + 1]] \in Word /\ next[n] \in Nat
  <2>1. next[n] \in Nat /\ next[n] < Len(Script[n])
    BY <1>3, ProgramAssumption DEF TypeOK, Dry
  <2>2. Script[n] \in Seq(DOMAIN PctEncode)
    BY ProgramAssumption
  <2>3. Script[n][next[n] + 1] \in DOMAIN PctEncode
    BY <2>1, <2>2
  <2>4. QED
    BY <2>1, <2>3, ProgramAssumption
<1>4. ~RenderFails(rules[ri].rhs, groups) => Render(rules[ri].rhs, groups) \in Word
  BY <1>2, TemplateTypes DEF TypeOK
<1>5. QED
  BY <1>2, <1>3, <1>4, ProgramAssumption DEF Word

\* Every step of the loop keeps the types.
LEMMA TypeStep == TypeOK /\ [Next]_vars => TypeOK'
<1> SUFFICES ASSUME TypeOK, [Next]_vars PROVE TypeOK'
  OBVIOUS
<1> USE DEF recordVars, bindingVars, hostVars
<1>0. state \in Word /\ <<>> \in Word /\ "error" \in Outcomes /\ "exit" \in Outcomes
      /\ rules \in Programs /\ coverage \in [DOMAIN rules -> Nat]
  BY DEF TypeOK, Word, Outcomes
<1>1. CASE Run
  <2>1. metrics' \in Metrics
    BY <1>1 DEF Run, TypeOK, FreshMetrics, Metrics, Word
  <2>2. past' \in Seq(TraceEvent) /\ trace' \in Seq(TraceEvent)
    BY <1>1, ConcatProperties DEF Run, TypeOK
  <2>3. ControlOK'
    BY <1>1, RuleType DEF Run, TypeOK, ControlOK, NoMatch, NoResult
  <2>4. QED
    BY <1>1, <2>1, <2>2, <2>3 DEF Run, TypeOK, ControlOK
<1>2. CASE Quiesce
  BY <1>2, ReturnType DEF Quiesce, TypeOK, ControlOK
<1>3. CASE EvalLimit
  BY <1>3, ReturnType DEF EvalLimit, TypeOK, ControlOK
<1>4. ASSUME pc = "probe", ri <= Len(rules), evalCount' = evalCount + 1,
             metrics' \in Metrics, ToRule(ri + 1),
             UNCHANGED <<state, trace, coverage, bindingVars, hostVars>>
      PROVE  TypeOK'
  <2>1. ri + 1 \in 1 .. Len(rules) + 1
    BY <1>4, RuleType DEF TypeOK
  <2>2. ControlOK'
    BY <1>4, <2>1, ToRuleType
  <2>3. QED
    BY <1>4, <2>2 DEF TypeOK, ControlOK
<1>5. CASE PrefixMiss
  BY <1>4, <1>5 DEF PrefixMiss, BeginProbe, TypeOK
<1>6. pc \in {"probe", "mid"} /\ ri <= Len(rules) =>
        \A b \in BOOLEAN : chargeEval(metrics, b) \in Metrics
  <2>1. ri <= Len(rules) => rules[ri] \in Rule
    BY RuleType DEF TypeOK
  <2>2. QED
    BY <2>1, ChargeTypes DEF TypeOK
<1>7. CASE SearchMiss
  BY <1>4, <1>6, <1>7 DEF SearchMiss, BeginProbe
<1>8. CASE SearchHit
  <2>1. PICK m \in FirstMatch(rules[ri].lhs, <<>>, state) :
          match' = m /\ groups' = <<Covered(state, m)>>
    BY <1>8 DEF SearchHit
  <2>2. m \in Span(state) /\ Covered(state, m) \in Word
    BY MatchInState, CoveredProperties DEF TypeOK
  <2>3. match' \in [at : Nat \ {0}, to : Nat] /\ groups' \in Seq(Word) /\ groups' # <<>>
    BY <2>1, <2>2 DEF Span, TypeOK, Word
  <2>4. ControlOK'
    BY <1>8, <2>1, <2>2, <2>3, RuleType DEF SearchHit, BeginProbe, TypeOK, ControlOK
  <2>5. metrics' \in Metrics
    BY <1>6, <1>8 DEF SearchHit, BeginProbe
  <2>6. evalCount' \in Nat /\ UNCHANGED <<state, trace, coverage, bindingVars, hostVars>>
    BY <1>8 DEF SearchHit, BeginProbe, TypeOK
  <2>7. QED
    BY <2>4, <2>5, <2>6 DEF TypeOK, ControlOK
<1>9. pc = "mid" => ri <= Len(rules) /\ ri + 1 \in 1 .. Len(rules) + 1
  BY RuleType DEF TypeOK
<1>10. CASE MidError
  <2> recordTrace("error", <<>>, state) /\ pc = "mid"
    BY <1>10 DEF MidError, BeginMid
  <2>1. trace' \in Seq(TraceEvent)
    BY <1>0, TraceType
  <2>2. ControlOK'
    BY <1>10, ReturnType DEF MidError, BeginMid
  <2>3. QED
    BY <1>10, <2>1, <2>2 DEF MidError, BeginMid, TypeOK, ControlOK
<1>11. CASE MidMiss
  <2>1. ControlOK'
    BY <1>9, <1>11, ToRuleType DEF MidMiss, BeginMid
  <2>2. QED
    BY <1>6, <1>9, <1>11, <2>1 DEF MidMiss, BeginMid, TypeOK, ControlOK
<1>12. CASE MidHit
  <2>1. PICK m \in FirstMatch(Mid, groups, state) : groups' = Append(groups, Covered(state, m))
    BY <1>12 DEF MidHit
  <2>2. Covered(state, m) \in Word
    BY MatchInState, CoveredProperties DEF TypeOK
  <2>3. groups' \in Seq(Word) /\ groups' # <<>>
    BY <2>1, <2>2, AppendProperties DEF TypeOK
  <2>4. QED
    BY <1>6, <1>9, <1>12, <2>3 DEF MidHit, BeginMid, TypeOK
<1>13. CASE StepLimit
  BY <1>13, ReturnType DEF StepLimit, TypeOK, ControlOK
<1>14. ASSUME NEW code \in Int, NEW kind \in {"none", "timeout"}, Fail(code, kind), pc = "mid"
       PROVE  TypeOK'
  <2>1. trace' \in Seq(TraceEvent)
    BY <1>0, <1>14, TraceType DEF Fail
  <2>2. ControlOK'
    BY <1>14, ReturnType DEF Fail
  <2>3. QED
    BY <1>14, <2>1, <2>2 DEF Fail, TypeOK, ControlOK
<1>15. ASSUME NEW repl \in Word, setState(repl), pc = "mid",
              coverage' \in [DOMAIN rules -> Nat],
              next' \in [Readable -> Nat], written' \in [Writable -> Nat]
       PROVE  TypeOK'
  BY <1>15, SetStateType DEF TypeOK, ControlOK
<1>16. ASSUME pc = "mid", recordRuleCoverage PROVE coverage' \in [DOMAIN rules -> Nat]
  <2>1. ri \in DOMAIN rules
    BY <1>16 DEF TypeOK
  <2>2. coverage[ri] + 1 \in Nat
    BY <1>0, <2>1
  <2>3. QED
    BY <1>0, <1>16, <2>2 DEF recordRuleCoverage
<1>17. CASE Substitute
  <2>1. CASE Fail(1, "none")
    BY <1>14, <1>17, <2>1 DEF Substitute, Matched
  <2>2. CASE /\ ~RenderFails(rules[ri].rhs, groups)
             /\ recordRuleCoverage
             /\ setState(Render(rules[ri].rhs, groups))
             /\ UNCHANGED bindingVars
    <3>1. Render(rules[ri].rhs, groups) \in Word
      BY <1>17, <2>2, ReplacementTypes DEF Substitute, Matched
    <3>2. next' \in [Readable -> Nat] /\ written' \in [Writable -> Nat]
      BY <2>2 DEF TypeOK
    <3>3. QED
      BY <1>15, <1>16, <1>17, <2>2, <3>1, <3>2 DEF Substitute, Matched
  <2>3. QED
    BY <1>17, <2>1, <2>2 DEF Substitute
<1>18. CASE ReadFails
  BY <1>14, <1>18 DEF ReadFails, Matched
<1>19. CASE ReadTimeout
  BY <1>14, <1>19 DEF ReadTimeout, Matched
<1>20. CASE ReadLine
  <2> DEFINE n == rules[ri].res
  <2>1. n \in Readable /\ ~Dry(n, next)
    BY <1>20 DEF ReadLine, Dry
  <2>2. next' \in [Readable -> Nat]
    BY <1>20, <2>1 DEF ReadLine, TypeOK
  <2>3. PctEncode[Script[n][next[n] + 1]] \in Word
    BY <1>20, <2>1, ReplacementTypes DEF ReadLine, Matched
  <2>4. QED
    BY <1>15, <1>16, <1>20, <2>2, <2>3 DEF ReadLine, Matched, TypeOK
<1>21. CASE Write
  <2> DEFINE n == rules[ri].res
  <2>1. CASE Fail(1, "none")
    BY <1>14, <1>21, <2>1 DEF Write, Matched
  <2>2. CASE setState(ErrorMarker[n]) /\ UNCHANGED <<coverage, bindingVars>>
    BY <1>15, <1>21, <2>2, ReplacementTypes DEF Write, Matched, TypeOK
  <2>3. CASE /\ n \in Writable
             /\ written' = [written EXCEPT ![n] = @ + 1]
             /\ recordRuleCoverage
             /\ setState(<<>>)
             /\ UNCHANGED next
    <3>1. written' \in [Writable -> Nat]
      BY <2>3 DEF TypeOK
    <3>2. QED
      BY <1>15, <1>16, <1>21, <2>3, <3>1, ReplacementTypes DEF Write, Matched, TypeOK
  <2>4. QED
    BY <1>21, <2>1, <2>2, <2>3 DEF Write
<1>22. CASE Builtin
  <2> DEFINE v == Capture(rules[ri].rhs, groups)
  <2>1. CASE Fail(1, "none")
    BY <1>14, <1>22, <2>1 DEF Builtin, Matched
  <2>2. CASE /\ v \in DOMAIN BuiltinTable
             /\ recordRuleCoverage
             /\ setState(BuiltinTable[v])
             /\ UNCHANGED bindingVars
    <3>1. BuiltinTable[v] \in Word
      BY <1>22, <2>2, ReplacementTypes DEF Builtin, Matched
    <3>2. next' \in [Readable -> Nat] /\ written' \in [Writable -> Nat]
      BY <2>2 DEF TypeOK
    <3>3. QED
      BY <1>15, <1>16, <1>22, <2>2, <3>1, <3>2 DEF Builtin, Matched
  <2>3. QED
    BY <1>22, <2>1, <2>2 DEF Builtin
<1>23. CASE Exit
  <2>1. pc = "mid" /\ rules[ri] \in Rule
    BY <1>23, RuleType DEF Exit, Matched, TypeOK
  <2>2. (IF rules[ri].code = NotInteger THEN 1 ELSE rules[ri].code) \in Int
    BY <2>1 DEF Rule
  <2>3. trace' \in Seq(TraceEvent)
    BY <1>0, <1>23, <2>1, TraceType DEF Exit
  <2>4. ControlOK'
    BY <1>23, <2>2, ReturnType DEF Exit
  <2>5. coverage' \in [DOMAIN rules -> Nat]
    BY <1>16, <1>23, <2>1 DEF Exit
  <2>6. UNCHANGED <<state, evalCount, metrics, bindingVars, hostVars>>
    BY <1>23 DEF Exit
  <2>7. QED
    BY <2>3, <2>4, <2>5, <2>6 DEF TypeOK, ControlOK
<1>24. CASE UNCHANGED vars
  BY <1>24 DEF vars, loopVars, TypeOK
<1>25. QED
  BY <1>1, <1>2, <1>3, <1>5, <1>7, <1>8, <1>10, <1>11, <1>12, <1>13, <1>17, <1>18,
     <1>19, <1>20, <1>21, <1>22, <1>23, <1>24 DEF Next, Loop, Apply

\* The type invariant of Run and everything it calls.
THEOREM TypeCorrect == Spec => []TypeOK
<1>1. Init => TypeOK
  <2> SUFFICES ASSUME Init PROVE TypeOK
    OBVIOUS
  <2>1. state \in Word
    BY ProgramAssumption DEF Init
  <2>2. metrics \in Metrics
    BY DEF Init, FreshMetrics, Metrics
  <2>3. 1 \in 1 .. Len(rules) + 1
    BY RuleType DEF Init
  <2>4. QED
    BY <2>1, <2>2, <2>3 DEF Init, TypeOK, NoMatch, NoResult
<1>2. QED
  BY <1>1, TypeStep, PTL DEF Spec

-----------------------------------------------------------------------------
\* Appending to the captures does not change the captures before.
LEMMA AppendPrefix ==
    ASSUME NEW gs \in Seq(Word), NEW w \in Word, NEW k \in 1 .. Len(gs)
    PROVE  /\ SubSeq(Append(gs, w), 1, k) = SubSeq(gs, 1, k)
           /\ Append(gs, w)[k] = gs[k]
<1>1. /\ Append(gs, w) \in Seq(Word)
      /\ Len(Append(gs, w)) = Len(gs) + 1
      /\ \A i \in 1 .. Len(gs) : Append(gs, w)[i] = gs[i]
  BY AppendProperties
<1>2. \A i \in 1 .. k : gs[i] \in Word /\ Append(gs, w)[i] \in Word /\ Append(gs, w)[i] = gs[i]
  BY <1>1
<1>3. /\ SubSeq(gs, 1, k) \in Seq(Word) /\ Len(SubSeq(gs, 1, k)) = k
      /\ \A i \in 1 .. k : SubSeq(gs, 1, k)[i] = gs[i]
  BY <1>2, SubSeqProperties
<1>4. /\ SubSeq(Append(gs, w), 1, k) \in Seq(Word) /\ Len(SubSeq(Append(gs, w), 1, k)) = k
      /\ \A i \in 1 .. k : SubSeq(Append(gs, w), 1, k)[i] = Append(gs, w)[i]
  BY <1>1, <1>2, SubSeqProperties
<1>5. SubSeq(Append(gs, w), 1, k) = SubSeq(gs, 1, k)
  BY <1>2, <1>3, <1>4, SeqEqual
<1>6. QED
  BY <1>1, <1>5

\* The whole of a sequence is its own prefix.
LEMMA WholePrefix ==
    ASSUME NEW gs \in Seq(Word), NEW hs \in Seq(Word), Len(gs) <= Len(hs),
           \A k \in DOMAIN gs : hs[k] = gs[k]
    PROVE  SubSeq(hs, 1, Len(gs)) = gs
<1>1. \A i \in 1 .. Len(gs) : hs[i] \in Word /\ hs[i] = gs[i]
  OBVIOUS
<1>2. /\ SubSeq(hs, 1, Len(gs)) \in Seq(Word) /\ Len(SubSeq(hs, 1, Len(gs))) = Len(gs)
      /\ \A i \in 1 .. Len(gs) : SubSeq(hs, 1, Len(gs))[i] = hs[i]
  BY <1>1, SubSeqProperties
<1>3. QED
  BY <1>1, <1>2, SeqEqual

\* A step that matches extends the captures.
LEMMA CapturesExtend ==
    ASSUME NEW r \in Rule, NEW s \in Word, NEW gs \in Seq(Word), NEW w \in Word,
           gs # <<>>, CapturesTo(r, s, gs, Len(gs) - 1), Len(gs) <= Len(r.mids),
           \A a \in DOMAIN r.mids[Len(gs)] : ~StepFails(r.mids[Len(gs)][a], gs),
           \E m \in FirstMatch(r.mids[Len(gs)], gs, s) : w = Covered(s, m)
    PROVE  CapturesTo(r, s, Append(gs, w), Len(gs))
<1> DEFINE hs == Append(gs, w)
<1>1. Len(gs) \in Nat /\ Len(gs) >= 1 /\ hs[Len(gs) + 1] = w
  BY AppendProperties, EmptySeq
<1>2. \A k \in 1 .. Len(gs) : SubSeq(hs, 1, k) = SubSeq(gs, 1, k) /\ hs[k] = gs[k]
  BY AppendPrefix
<1>3. SubSeq(hs, 1, Len(gs)) = gs
  BY <1>2, WholePrefix
<1> HIDE DEF hs
<1>4. \E m \in FirstMatch(r.lhs, <<>>, s) : hs[1] = Covered(s, m)
  BY <1>1, <1>2 DEF CapturesTo
<1>5. ASSUME NEW k \in 1 .. Len(gs)
      PROVE  /\ \A a \in DOMAIN r.mids[k] : ~StepFails(r.mids[k][a], SubSeq(hs, 1, k))
             /\ \E m \in FirstMatch(r.mids[k], SubSeq(hs, 1, k), s) : hs[k + 1] = Covered(s, m)
  <2>1. CASE k = Len(gs)
    BY <1>1, <1>3, <2>1
  <2>2. CASE k # Len(gs)
    <3>1. k \in 1 .. Len(gs) - 1 /\ hs[k + 1] = gs[k + 1] /\ SubSeq(hs, 1, k) = SubSeq(gs, 1, k)
      BY <1>1, <1>2, <2>2
    <3>2. QED
      BY <3>1 DEF CapturesTo
  <2>3. QED
    BY <2>1, <2>2
<1>6. QED
  BY <1>4, <1>5 DEF CapturesTo, hs

\* A partial list of captures is a sequence of words, and matches as far as it goes.
LEMMA PartialType ==
    ASSUME NEW r \in Rule, NEW s \in Word, NEW gs \in PartialLists(r, s)
    PROVE  /\ gs \in Seq(Word) /\ gs # <<>>
           /\ Len(gs) \in 1 .. Len(r.mids) + 1 /\ DOMAIN gs = 1 .. Len(gs)
           /\ CapturesTo(r, s, gs, Len(gs) - 1)
<1>1. PICK n \in 1 .. Len(r.mids) + 1 : gs \in [1 .. n -> Substrings(s)]
  BY DEF PartialLists
<1>2. Substrings(s) \subseteq Word
  BY CoveredProperties DEF Substrings
<1>3. Len(r.mids) \in Nat /\ n \in Nat
  BY DEF Rule
<1>4. gs \in Seq(Word) /\ Len(gs) = n
  BY <1>1, <1>2, <1>3
<1>5. QED
  BY <1>3, <1>4 DEF PartialLists

\* All captures of a rule are a partial list, with one for each step and the LHS.
LEMMA CompleteIsPartial ==
    ASSUME NEW r \in Rule, NEW s, NEW gs \in CaptureLists(r, s)
    PROVE  gs \in PartialLists(r, s) /\ Len(gs) = Len(r.mids) + 1
<1>1. Len(r.mids) \in Nat
  BY DEF Rule
<1>2. gs \in [1 .. Len(r.mids) + 1 -> Substrings(s)] /\ CapturesTo(r, s, gs, Len(r.mids))
  BY DEF CaptureLists, Captures
<1>3. gs \in Seq(Substrings(s)) /\ Len(gs) = Len(r.mids) + 1
  BY <1>1, <1>2
<1>4. Len(gs) - 1 = Len(r.mids) /\ Len(r.mids) + 1 \in 1 .. Len(r.mids) + 1
  BY <1>1, <1>3
<1>5. QED
  BY <1>2, <1>3, <1>4 DEF PartialLists

\* What the next step matches is determined by the captures so far.
LEMMA AgreeExtend ==
    ASSUME NEW r \in Rule, NEW s \in Word, NEW gs \in Seq(Word), gs # <<>>,
           NEW hs \in PartialLists(r, s), Len(gs) < Len(hs),
           \A k \in DOMAIN gs \cap DOMAIN hs : hs[k] = gs[k]
    PROVE  \E m \in FirstMatch(r.mids[Len(gs)], gs, s) : hs[Len(gs) + 1] = Covered(s, m)
<1>1. hs \in Seq(Word) /\ CapturesTo(r, s, hs, Len(hs) - 1)
  BY PartialType
<1>2. Len(gs) \in 1 .. Len(hs) - 1
  BY <1>1, EmptySeq
<1>3. SubSeq(hs, 1, Len(gs)) = gs
  BY <1>1, <1>2, WholePrefix
<1>4. QED
  BY <1>1, <1>2, <1>3 DEF CapturesTo

\* Nor does a step fail that the captures have got past.
LEMMA AgreeNoFailure ==
    ASSUME NEW r \in Rule, NEW s \in Word, NEW gs \in Seq(Word),
           CapturesTo(r, s, gs, Len(gs) - 1),
           NEW hs \in PartialLists(r, s), Len(hs) < Len(gs),
           \A k \in DOMAIN gs \cap DOMAIN hs : hs[k] = gs[k],
           NEW a \in DOMAIN r.mids[Len(hs)]
    PROVE  ~StepFails(r.mids[Len(hs)][a], hs)
<1>1. hs \in Seq(Word) /\ Len(hs) \in Nat /\ Len(hs) >= 1 /\ DOMAIN hs = 1 .. Len(hs)
  BY PartialType
<1>2. Len(hs) \in 1 .. Len(gs) - 1
  BY <1>1
<1>3. SubSeq(gs, 1, Len(hs)) = hs
  BY <1>1, <1>2, WholePrefix
<1>4. QED
  BY <1>2, <1>3 DEF CapturesTo

\* Captures that reached the last step are a capture list.
LEMMA CapturesComplete ==
    ASSUME NEW r \in Rule, NEW s \in Word, NEW gs \in Seq(Word), Len(gs) = Len(r.mids) + 1,
           CapturesTo(r, s, gs, Len(gs) - 1)
    PROVE  gs \in CaptureLists(r, s)
<1>1. Len(r.mids) \in Nat /\ Len(gs) - 1 = Len(r.mids)
  BY DEF Rule
<1>2. Captures(r, s, gs)
  BY <1>1 DEF Captures
<1>3. ASSUME NEW k \in 1 .. Len(gs) PROVE gs[k] \in Substrings(s)
  <2>1. CASE k = 1
    BY <2>1, MatchInState DEF CapturesTo, Substrings
  <2>2. CASE k # 1
    <3>1. k - 1 \in 1 .. Len(gs) - 1 /\ (k - 1) + 1 = k
      BY <1>1, <2>2
    <3>2. \E m \in FirstMatch(r.mids[k - 1], SubSeq(gs, 1, k - 1), s) : gs[k] = Covered(s, m)
      BY <3>1 DEF CapturesTo
    <3>3. QED
      BY <3>2, MatchInState DEF Substrings
  <2>3. QED
    BY <2>1, <2>2
<1>4. gs \in [1 .. Len(r.mids) + 1 -> Substrings(s)]
  BY <1>1, <1>3
<1>5. QED
  BY <1>2, <1>4 DEF CaptureLists

-----------------------------------------------------------------------------
\* Leaving the scan at a rule of the list says nothing about normal forms.
LEMMA ReturnScan ==
    ASSUME TypeOK, ri \in DOMAIN rules, rules' = rules, pc' = "done", ri' = ri
    PROVE  ScanInv'
BY RuleType DEF ScanInv, QuiescentIsNormalForm, TypeOK

\* Starting over keeps the invariant, whatever the state.
LEMMA RestartScan ==
    ASSUME TypeOK, rules' = rules, ToRule(1)
    PROVE  ScanInv'
BY DEF ScanInv, ToRule, QuiescentIsNormalForm

\* The scan passes a rule that neither applies nor fails.
LEMMA PassRule ==
    ASSUME TypeOK, ScanInv, pc \in {"probe", "mid"}, Misses(rules[ri], state),
           ToRule(ri + 1), rules' = rules, state' = state
    PROVE  ScanInv'
<1>1. ri \in Nat
  BY RuleType DEF TypeOK
<1>2. \A j \in 1 .. ri' - 1 : Misses(rules[j], state)
  BY <1>1 DEF ScanInv, ToRule
<1>3. pc' = "probe"
  BY DEF ToRule
<1>4. QED
  BY <1>2, <1>3 DEF ScanInv, QuiescentIsNormalForm

\* A rule whose LHS does not match misses.
LEMMA LhsMiss ==
    ASSUME NEW r, NEW s, FirstMatch(r.lhs, <<>>, s) = {}
    PROVE  Misses(r, s)
BY DEF Misses, Applies, CaptureLists, Captures, Breaks, PartialLists, CapturesTo

\* setState either returns or starts over.
LEMMA SetStateScan ==
    ASSUME TypeOK, pc = "mid", NEW repl \in Word, setState(repl)
    PROVE  ScanInv'
<1>1. ri \in DOMAIN rules /\ rules' = rules
  BY SetStateType DEF TypeOK
<1>2. (pc' = "done" /\ ri' = ri) \/ ToRule(1)
  BY DEF setState, Return
<1>3. QED
  BY <1>1, <1>2, ReturnScan, RestartScan

\* Every step keeps the scan invariant.
LEMMA ScanStep == TypeOK /\ ScanInv /\ [Next]_vars => ScanInv'
<1> SUFFICES ASSUME TypeOK, ScanInv, [Next]_vars PROVE ScanInv'
  OBVIOUS
<1> USE DEF recordVars, bindingVars, hostVars
<1>1. /\ pc = "mid" => ri \in DOMAIN rules
      /\ DOMAIN rules = 1 .. Len(rules) /\ Len(rules) \in Nat /\ ri \in 1 .. Len(rules) + 1
      /\ state \in Word /\ groups \in Seq(Word)
  BY RuleType DEF TypeOK
<1>2. ASSUME NEW i \in DOMAIN rules PROVE rules[i] \in Rule /\ PrefixSound(rules[i])
  BY RuleType DEF TypeOK
<1>3. CASE Run
  BY <1>3 DEF Run, ScanInv, QuiescentIsNormalForm
<1>4. CASE Quiesce
  <2>1. ri = Len(rules) + 1 /\ pc = "probe"
    BY <1>1, <1>4 DEF Quiesce
  <2>2. \A j \in DOMAIN rules : Misses(rules[j], state)
    BY <1>1, <2>1 DEF ScanInv
  <2>3. pc' = "done" /\ result' = NoResult /\ UNCHANGED <<rules, state>>
    BY <1>4 DEF Quiesce, Return, NoResult
  <2>4. QED
    BY <2>2, <2>3 DEF ScanInv, QuiescentIsNormalForm
<1>5. CASE EvalLimit
  BY <1>1, <1>5, ReturnScan DEF EvalLimit, Return
<1>6. CASE PrefixMiss
  <2>1. /\ ri \in DOMAIN rules /\ ~Occurs(rules[ri].literalPrefix, state)
        /\ pc = "probe" /\ ToRule(ri + 1) /\ rules' = rules /\ state' = state
    BY <1>1, <1>6 DEF PrefixMiss, BeginProbe
  <2>2. Misses(rules[ri], state)
    BY <1>1, <1>2, <2>1, PrefixMissIsMiss, LhsMiss
  <2>3. QED
    BY <2>1, <2>2, PassRule
<1>7. CASE SearchMiss
  <2>1. pc = "probe" /\ ToRule(ri + 1) /\ rules' = rules /\ state' = state
    BY <1>7 DEF SearchMiss, BeginProbe
  <2>2. Misses(rules[ri], state)
    BY <1>7, LhsMiss DEF SearchMiss
  <2>3. QED
    BY <2>1, <2>2, PassRule
<1>8. CASE SearchHit
  <2>1. PICK m \in FirstMatch(rules[ri].lhs, <<>>, state) :
          match' = m /\ groups' = <<Covered(state, m)>>
    BY <1>8 DEF SearchHit
  <2>2. /\ ri \in DOMAIN rules /\ pc = "probe" /\ pc' = "mid" /\ ri' = ri
        /\ rules' = rules /\ state' = state
    BY <1>1, <1>8 DEF SearchHit, BeginProbe
  <2>3. Len(groups') = 1 /\ groups'[1] = Covered(state, m) /\ DOMAIN groups' = {1}
    BY <2>1
  <2>4. rules[ri].lhs \in Pattern /\ Len(rules[ri].mids) \in Nat
    BY <1>2, <2>2 DEF Rule
  <2>5. CapturesTo(rules[ri], state, groups', Len(groups') - 1)
    BY <2>3 DEF CapturesTo
  <2>6. \A gs \in PartialLists(rules[ri], state) : gs[1] = Covered(state, m)
    <3> SUFFICES ASSUME NEW gs \in PartialLists(rules[ri], state)
                 PROVE  gs[1] = Covered(state, m)
      OBVIOUS
    <3>1. PICK n \in FirstMatch(rules[ri].lhs, <<>>, state) : gs[1] = Covered(state, n)
      BY DEF PartialLists, CapturesTo
    <3>2. <<>> \in Seq(Word)
      OBVIOUS
    <3>3. m = n
      BY <1>1, <2>4, <3>2, MatchIsUnique
    <3>4. QED
      BY <3>1, <3>3
  <2>7. \A j \in 1 .. ri - 1 : Misses(rules[j], state)
    BY <2>2 DEF ScanInv
  <2>8. QED
    BY <2>1, <2>2, <2>3, <2>4, <2>5, <2>6, <2>7 DEF ScanInv, QuiescentIsNormalForm
<1>9. CASE MidError
  BY <1>1, <1>9, ReturnScan DEF MidError, BeginMid, Return
<1>10. CASE MidMiss
  <2>1. /\ pc = "mid" /\ ToRule(ri + 1) /\ rules' = rules /\ state' = state
        /\ Len(groups) <= Len(rules[ri].mids) /\ FirstMatch(Mid, groups, state) = {}
    BY <1>10 DEF MidMiss, BeginMid
  <2>2. rules[ri] \in Rule /\ groups # <<>>
    BY <1>1, <1>2, <2>1 DEF TypeOK
  <2>3. /\ CapturesTo(rules[ri], state, groups, Len(groups) - 1)
        /\ \A gs \in PartialLists(rules[ri], state) :
              \A k \in DOMAIN groups \cap DOMAIN gs : gs[k] = groups[k]
    BY <2>1 DEF ScanInv
  <2>4. ASSUME NEW gs \in PartialLists(rules[ri], state) PROVE ~(Len(groups) < Len(gs))
    BY <1>1, <2>1, <2>2, <2>3, <2>4, AgreeExtend DEF Mid
  <2>5. ~Applies(rules[ri], state)
    <3> SUFFICES ASSUME NEW gs \in CaptureLists(rules[ri], state) PROVE FALSE
      BY DEF Applies
    <3>1. gs \in PartialLists(rules[ri], state) /\ Len(gs) = Len(rules[ri].mids) + 1
      BY <2>2, CompleteIsPartial
    <3>2. Len(rules[ri].mids) \in Nat /\ Len(groups) \in Nat
      BY <1>1, <2>2 DEF Rule
    <3>3. QED
      BY <2>1, <2>4, <3>1, <3>2
  <2>6. ~Breaks(rules[ri], state)
    <3> SUFFICES ASSUME NEW gs \in PartialLists(rules[ri], state),
                        NEW a \in DOMAIN rules[ri].mids[Len(gs)],
                        StepFails(rules[ri].mids[Len(gs)][a], gs)
                 PROVE  FALSE
      BY DEF Breaks
    <3>1. gs \in Seq(Word) /\ Len(gs) \in Nat /\ Len(groups) \in Nat
      BY <1>1, <2>2, PartialType
    <3>2. CASE Len(gs) < Len(groups)
      BY <1>1, <2>2, <2>3, <3>2, AgreeNoFailure
    <3>3. CASE Len(gs) = Len(groups)
      <4>1. \A k \in 1 .. Len(groups) : gs[k] = groups[k]
        BY <1>1, <2>3, <3>1, <3>3
      <4>2. gs = groups
        BY <1>1, <3>1, <3>3, <4>1, SeqEqual
      <4>3. \A k \in DOMAIN Mid : ~StepFails(Mid[k], groups)
        BY <1>10 DEF MidMiss
      <4>4. QED
        BY <4>2, <4>3 DEF Mid
    <3>4. QED
      BY <2>4, <3>1, <3>2, <3>3
  <2>7. QED
    BY <2>1, <2>5, <2>6, PassRule DEF Misses
<1>11. CASE MidHit
  <2>1. PICK m \in FirstMatch(Mid, groups, state) : groups' = Append(groups, Covered(state, m))
    BY <1>11 DEF MidHit
  <2>2. /\ pc = "mid" /\ pc' = "mid" /\ ri' = ri /\ match' = match
        /\ rules' = rules /\ state' = state
        /\ Len(groups) <= Len(rules[ri].mids)
        /\ \A k \in DOMAIN Mid : ~StepFails(Mid[k], groups)
    BY <1>11 DEF MidHit, BeginMid
  <2>3. rules[ri] \in Rule /\ groups # <<>>
    BY <1>1, <1>2, <2>2 DEF TypeOK
  <2>4. Covered(state, m) \in Word
    BY <1>1, MatchInState, CoveredProperties
  <2>5. rules[ri].mids[Len(groups)] \in Pattern /\ Len(rules[ri].mids) \in Nat
        /\ Len(groups) \in 1 .. Len(rules[ri].mids)
    BY <1>1, <2>2, <2>3, EmptySeq DEF Rule
  <2>6. /\ Len(groups') = Len(groups) + 1
        /\ groups'[Len(groups) + 1] = Covered(state, m)
        /\ \A k \in 1 .. Len(groups) : groups'[k] = groups[k]
        /\ DOMAIN groups' = 1 .. Len(groups) + 1
    BY <1>1, <2>1, <2>4, AppendProperties
  <2>7. CapturesTo(rules[ri], state, groups', Len(groups') - 1)
    <3>1. CapturesTo(rules[ri], state, groups, Len(groups) - 1)
      BY <2>2 DEF ScanInv
    <3>2. CapturesTo(rules[ri], state, Append(groups, Covered(state, m)), Len(groups))
      BY <1>1, <2>2, <2>3, <2>4, <3>1, CapturesExtend DEF Mid
    <3>3. Len(groups') - 1 = Len(groups)
      BY <2>5, <2>6
    <3>4. QED
      BY <2>1, <3>2, <3>3
  <2>8. ASSUME NEW gs \in PartialLists(rules[ri], state),
               NEW k \in DOMAIN groups' \cap DOMAIN gs
        PROVE  gs[k] = groups'[k]
    <3>1. \A l \in DOMAIN groups \cap DOMAIN gs : gs[l] = groups[l]
      BY <2>2 DEF ScanInv
    <3>0. DOMAIN gs = 1 .. Len(gs) /\ Len(gs) \in Nat
      BY <1>1, <2>3, PartialType
    <3>2. CASE k \in 1 .. Len(groups)
      BY <1>1, <2>6, <3>1, <3>2
    <3>3. CASE k = Len(groups) + 1
      <4>0. Len(groups) < Len(gs)
        BY <2>5, <3>0, <3>3
      <4>1. PICK n \in FirstMatch(rules[ri].mids[Len(groups)], groups, state) :
               gs[Len(groups) + 1] = Covered(state, n)
        BY <1>1, <2>3, <3>1, <4>0, AgreeExtend
      <4>2. m = n
        BY <1>1, <2>5, <4>1, MatchIsUnique DEF Mid
      <4>3. QED
        BY <2>6, <3>3, <4>1, <4>2
    <3>4. QED
      BY <2>5, <2>6, <3>2, <3>3
  <2>9. groups'[1] = Covered(state, match)
    BY <2>2, <2>5, <2>6 DEF ScanInv
  <2>10. QED
    BY <2>2, <2>5, <2>6, <2>7, <2>8, <2>9 DEF ScanInv, QuiescentIsNormalForm
<1>12. CASE StepLimit
  BY <1>1, <1>12, ReturnScan DEF StepLimit, Matched, Return
<1>13. ASSUME NEW code, NEW kind, Fail(code, kind), pc = "mid" PROVE ScanInv'
  BY <1>1, <1>13, ReturnScan DEF Fail, Return
<1>14. CASE Substitute
  BY <1>13, <1>14, ReplacementTypes, SetStateScan DEF Substitute, Matched
<1>15. CASE ReadFails
  BY <1>13, <1>15 DEF ReadFails, Matched
<1>16. CASE ReadTimeout
  BY <1>13, <1>16 DEF ReadTimeout, Matched
<1>17. CASE ReadLine
  BY <1>17, ReplacementTypes, SetStateScan DEF ReadLine, Matched, Dry
<1>18. CASE Write
  BY <1>13, <1>18, ReplacementTypes, SetStateScan DEF Write, Matched
<1>19. CASE Builtin
  BY <1>13, <1>19, ReplacementTypes, SetStateScan DEF Builtin, Matched
<1>20. CASE Exit
  BY <1>1, <1>20, ReturnScan DEF Exit, Matched, Return
<1>21. CASE UNCHANGED vars
  BY <1>21 DEF vars, loopVars, ScanInv, QuiescentIsNormalForm
<1>22. QED
  BY <1>3, <1>4, <1>5, <1>6, <1>7, <1>8, <1>9, <1>10, <1>11, <1>12, <1>14, <1>15,
     <1>16, <1>17, <1>18, <1>19, <1>20, <1>21 DEF Next, Loop, Apply

\* Initially there is no scan.
LEMMA ScanInit == Init => ScanInv
BY DEF Init, ScanInv, QuiescentIsNormalForm

\* The scan invariant holds throughout.
THEOREM ScanCorrect == Spec => []ScanInv
BY ScanInit, ScanStep, TypeCorrect, PTL DEF Spec

\* The loop rewrites with the first rule that applies, unless one before it fails (Run
\* and applyMids).
THEOREM FirstRuleWinsHolds == Spec => []FirstRuleWins
<1>1. TypeOK /\ ScanInv => FirstRuleWins
  <2> SUFFICES ASSUME TypeOK, ScanInv, pc = "mid" PROVE FirstRuleWins
    BY DEF FirstRuleWins
  <2>1. ri \in DOMAIN rules /\ state \in Word /\ groups \in Seq(Word) /\ rules[ri] \in Rule
    BY RuleType DEF TypeOK
  <2>2. Len(rules[ri].mids) \in Nat
    BY <2>1 DEF Rule
  <2>3. Len(groups) > Len(rules[ri].mids) => groups \in CaptureLists(rules[ri], state)
    BY <2>1, <2>2, CapturesComplete DEF ScanInv
  <2>4. QED
    BY <2>3 DEF ScanInv, FirstRuleWins
<1>2. QED
  BY <1>1, TypeCorrect, ScanCorrect, PTL

\* Exit code 0 without an exit rule means that no rule applies (Run's "no rule
\* changed the state" return).
THEOREM NormalForm == Spec => []QuiescentIsNormalForm
<1>1. ScanInv => QuiescentIsNormalForm
  BY DEF ScanInv
<1>2. QED
  BY <1>1, ScanCorrect, PTL

-----------------------------------------------------------------------------
\* Refinement.

\* The instance reads the text operations as this module does.
LEMMA AbstractText ==
    ASSUME NEW t, NEW gs
    PROVE  /\ Abstract!Capture(t, gs) = Capture(t, gs)
           /\ Abstract!Expand(t, gs) = Expand(t, gs)
           /\ Abstract!StepFails(t, gs) = StepFails(t, gs)
           /\ Abstract!RenderFails(t, gs) = RenderFails(t, gs)
           /\ Abstract!Render(t, gs) = Render(t, gs)
BY DEF Abstract!Capture, Abstract!Missing, Abstract!Expand, Abstract!StepFails,
       Abstract!RenderFails, Abstract!Render, Abstract!Doubling,
       Capture, Missing, Expand, StepFails, RenderFails, Render, Doubling

\* And so it reads the searches,
LEMMA AbstractSearch ==
    ASSUME NEW p, NEW gs, NEW s
    PROVE  Abstract!FirstMatch(p, gs, s) = FirstMatch(p, gs, s)
<1>1. Abstract!Span(s) = Span(s)
  BY DEF Abstract!Span, Span
<1>2. \A m : Abstract!Covered(s, m) = Covered(s, m)
  BY DEF Abstract!Covered, Covered
<1>3. Abstract!Occurrences(p, gs, s) = Occurrences(p, gs, s)
  BY <1>1, <1>2, AbstractText DEF Abstract!Occurrences, Occurrences
<1>4. \A m : Abstract!FirstAlternative(p, gs, s, m) = FirstAlternative(p, gs, s, m)
  BY <1>1, <1>2, AbstractText DEF Abstract!FirstAlternative, FirstAlternative
<1>5. QED
  BY <1>3, <1>4 DEF Abstract!FirstMatch, FirstMatch

\* and what it means for a rule to apply.
LEMMA AbstractApplies ==
    ASSUME NEW r, NEW s
    PROVE  /\ Abstract!CaptureLists(r, s) = CaptureLists(r, s)
           /\ Abstract!Misses(r, s) = Misses(r, s)
           /\ Abstract!Applies(r, s) = Applies(r, s)
<1>1. Abstract!Substrings(s) = Substrings(s)
  BY DEF Abstract!Substrings, Substrings, Abstract!Span, Span, Abstract!Covered, Covered
<1>2. ASSUME NEW gs, NEW n PROVE Abstract!CapturesTo(r, s, gs, n) = CapturesTo(r, s, gs, n)
  BY AbstractText, AbstractSearch DEF Abstract!CapturesTo, CapturesTo, Abstract!Covered, Covered
<1>3. Abstract!CaptureLists(r, s) = CaptureLists(r, s)
  BY <1>1, <1>2 DEF Abstract!CaptureLists, CaptureLists, Abstract!Captures, Captures
<1>4. Abstract!PartialLists(r, s) = PartialLists(r, s)
  BY <1>1, <1>2 DEF Abstract!PartialLists, PartialLists
<1>5. Abstract!Breaks(r, s) = Breaks(r, s)
  BY <1>4, AbstractText DEF Abstract!Breaks, Breaks
<1>6. QED
  BY <1>3, <1>5 DEF Abstract!Misses, Misses, Abstract!Applies, Applies

\* When the loop applies rule ri, so may the rewriting system, with the same
\* match and the same captures.
LEMMA AppliesRule ==
    ASSUME TypeOK, ScanInv, NEW op, Matched(op)
    PROVE  /\ ri \in DOMAIN rules /\ rules[ri].op = op
           /\ Abstract!FirstApplicable(ri)
           /\ groups \in CaptureLists(rules[ri], state)
           /\ match \in FirstMatch(rules[ri].lhs, <<>>, state)
<1>1. /\ ri \in DOMAIN rules /\ state \in Word /\ groups \in Seq(Word)
      /\ rules[ri] \in Rule /\ pc = "mid" /\ Len(groups) > Len(rules[ri].mids)
  BY RuleType DEF Matched, TypeOK
<1>2. Len(groups) = Len(rules[ri].mids) + 1
  <2>1. Len(rules[ri].mids) \in Nat /\ Len(groups) \in Nat
    BY <1>1 DEF Rule
  <2>2. Len(groups) <= Len(rules[ri].mids) + 1
    BY <1>1 DEF ScanInv
  <2>3. QED
    BY <1>1, <2>1, <2>2
<1>3. groups \in CaptureLists(rules[ri], state)
  BY <1>1, <1>2, CapturesComplete DEF ScanInv
<1>4. Abstract!FirstApplicable(ri)
  BY <1>1, <1>3, AbstractApplies DEF ScanInv, Abstract!FirstApplicable, Applies
<1>5. QED
  BY <1>1, <1>3, <1>4 DEF Matched, ScanInv

\* setState replaces the match or leaves the state.
LEMMA SetStateReplaces ==
    ASSUME NEW repl, setState(repl)
    PROVE  Abstract!Replace(match, repl) /\ rules' = rules
<1>1. state' = state \/ state' = Splice(state, match, repl)
  BY DEF setState
<1>2. rules' = rules
  BY DEF setState, hostVars
<1>3. QED
  BY <1>1, <1>2 DEF Abstract!Replace, Abstract!Splice, Splice

\* A step of the loop is a rewrite or leaves the rewriting system alone.
LEMMA RefinementStep ==
    TypeOK /\ ScanInv /\ [Next]_vars => [Abstract!Next]_(Abstract!rewritingVars)
<1> SUFFICES ASSUME TypeOK, ScanInv, [Next]_vars
             PROVE  Abstract!Next \/ UNCHANGED <<rules, state, next, written>>
  BY DEF Abstract!rewritingVars
<1> USE DEF bindingVars, hostVars
<1>1. ASSUME NEW op, Matched(op), Abstract!Operate(rules[ri], groups, match), rules' = rules
      PROVE  Abstract!Next
  BY <1>1, AppliesRule, AbstractApplies, AbstractSearch DEF Abstract!Next, Abstract!Rewrite
<1>2. ASSUME NEW code, NEW kind, Fail(code, kind)
      PROVE  UNCHANGED <<rules, state, next, written>>
  BY <1>2 DEF Fail
<1>3. CASE Run \/ Quiesce \/ EvalLimit \/ PrefixMiss \/ SearchMiss \/ SearchHit
           \/ MidError \/ MidMiss \/ MidHit \/ StepLimit
  BY <1>3 DEF Run, Quiesce, EvalLimit, PrefixMiss, SearchMiss, SearchHit, BeginProbe,
              MidError, MidMiss, MidHit, BeginMid, StepLimit
<1>4. CASE Substitute
  <2>1. CASE Fail(1, "none")
    BY <1>2, <2>1
  <2>2. CASE /\ ~RenderFails(rules[ri].rhs, groups)
             /\ setState(Render(rules[ri].rhs, groups))
             /\ UNCHANGED bindingVars
    <3>1. Matched("Substitute") /\ rules[ri].op = "Substitute"
      BY <1>4 DEF Substitute, Matched
    <3>2. Abstract!Replace(match, Render(rules[ri].rhs, groups)) /\ rules' = rules
      BY <2>2, SetStateReplaces
    <3>3. Abstract!Operate(rules[ri], groups, match)
      BY <2>2, <3>1, <3>2, AbstractText DEF Abstract!Operate
    <3>4. QED
      BY <1>1, <3>1, <3>2, <3>3
  <2>3. QED
    BY <1>4, <2>1, <2>2 DEF Substitute
<1>5. CASE ReadFails \/ ReadTimeout
  BY <1>2, <1>5 DEF ReadFails, ReadTimeout
<1>6. CASE ReadLine
  <2> DEFINE n == rules[ri].res
  <2>1. Matched("Read") /\ rules[ri].op = "Read" /\ ~Dry(n, next)
    BY <1>6 DEF ReadLine, Matched
  <2>2. /\ next' = [next EXCEPT ![n] = @ + 1] /\ UNCHANGED written
        /\ setState(PctEncode[Script[n][next[n] + 1]])
    BY <1>6 DEF ReadLine
  <2>3. Abstract!Replace(match, PctEncode[Script[n][next[n] + 1]]) /\ rules' = rules
    BY <2>2, SetStateReplaces
  <2>4. Abstract!Operate(rules[ri], groups, match)
    BY <2>1, <2>2, <2>3 DEF Abstract!Operate, Abstract!Dry, Dry
  <2>5. QED
    BY <1>1, <2>1, <2>3, <2>4
<1>7. CASE Write
  <2> DEFINE n == rules[ri].res
  <2>1. Matched("Write") /\ rules[ri].op = "Write"
    BY <1>7 DEF Write, Matched
  <2>2. CASE Fail(1, "none")
    BY <1>2, <2>2
  <2>3. CASE /\ n \notin Writable \/ n \in Flaky
             /\ setState(ErrorMarker[n])
             /\ UNCHANGED <<coverage, bindingVars>>
    <3>1. Abstract!Replace(match, ErrorMarker[n]) /\ rules' = rules
      BY <2>3, SetStateReplaces
    <3>2. Abstract!Operate(rules[ri], groups, match)
      BY <2>1, <2>3, <3>1 DEF Abstract!Operate
    <3>3. QED
      BY <1>1, <2>1, <3>1, <3>2
  <2>4. CASE /\ n \in Writable
             /\ written' = [written EXCEPT ![n] = @ + 1]
             /\ setState(<<>>)
             /\ UNCHANGED next
    <3>1. Abstract!Replace(match, <<>>) /\ rules' = rules
      BY <2>4, SetStateReplaces
    <3>2. Abstract!Operate(rules[ri], groups, match)
      BY <2>1, <2>4, <3>1 DEF Abstract!Operate
    <3>3. QED
      BY <1>1, <2>1, <3>1, <3>2
  <2>5. QED
    BY <1>7, <2>2, <2>3, <2>4 DEF Write
<1>8. CASE Builtin
  <2> DEFINE v == Capture(rules[ri].rhs, groups)
  <2>1. Matched("Builtin") /\ rules[ri].op = "Builtin"
    BY <1>8 DEF Builtin, Matched
  <2>2. CASE Fail(1, "none")
    BY <1>2, <2>2
  <2>3. CASE v \in DOMAIN BuiltinTable /\ setState(BuiltinTable[v]) /\ UNCHANGED bindingVars
    <3>1. Abstract!Replace(match, BuiltinTable[v]) /\ rules' = rules
      BY <2>3, SetStateReplaces
    <3>2. Abstract!Operate(rules[ri], groups, match)
      BY <2>1, <2>3, <3>1, AbstractText DEF Abstract!Operate
    <3>3. QED
      BY <1>1, <2>1, <3>1, <3>2
  <2>4. QED
    BY <1>8, <2>2, <2>3 DEF Builtin
<1>9. CASE Exit
  BY <1>9 DEF Exit
<1>10. CASE UNCHANGED vars
  BY <1>10 DEF vars
<1>11. QED
  BY <1>3, <1>4, <1>5, <1>6, <1>7, <1>8, <1>9, <1>10 DEF Next, Loop, Apply

\* Run implements the rewriting system of section 7 of docs/rfc-language.md.
THEOREM Refinement == Spec => ImplementsRewriting
<1>1. Init => Abstract!Init
  BY DEF Init, Abstract!Init
<1>2. QED
  BY <1>1, RefinementStep, TypeCorrect, ScanCorrect, PTL
  DEF Spec, ImplementsRewriting, Abstract!Spec

-----------------------------------------------------------------------------
\* A step of the loop leaves the records alone or appends one event to the trace.

\* Where a step leaves the loop when it records nothing.
Moves ==
    \/ pc = "probe" /\ evalCount' = evalCount + 1 /\ pc' \in {"probe", "mid"} /\ result' = result
    \/ pc = "mid" /\ evalCount' = evalCount /\ pc' \in {"probe", "mid"} /\ result' = result
    \/ /\ pc \in {"probe", "mid"} /\ evalCount' = evalCount /\ pc' = "done"
       /\ \/ result'.limit \in {"none", "evals"}
          \/ result'.limit = "steps" /\ Reached(metrics.appliedSteps, limits.steps)

\* What a search adds to the counters: a search, and a match when the probe goes on.
Searched ==
    /\ UNCHANGED <<metrics.appliedSteps, metrics.stateBytes, metrics.statePeak>>
    /\ \E hits \in {0, 1} :
          /\ metrics'.regexMatches = metrics.regexMatches + hits
          /\ metrics'.regexEvals >= metrics.regexEvals + hits
          /\ pc = "probe" /\ pc' = "mid" => hits = 1

Silent ==
    /\ UNCHANGED <<rules, state, limits, runs, start, past, trace, coverage, next, written>>
    /\ Searched
    /\ Moves

\* The bindings and the coverage after an event of rule ri.
Books(outcome, repl) ==
    LET n == rules[ri].res
        got == outcome # "error"
        read == got /\ rules[ri].op = "Read"
        took == got /\ rules[ri].op = "Write" /\ repl = <<>>
    IN  /\ coverage' = IF got /\ (rules[ri].op = "Write" => repl = <<>>)
                       THEN [coverage EXCEPT ![ri] = @ + 1] ELSE coverage
        /\ read => n \in Readable /\ repl = PctEncode[Script[n][next[n] + 1]]
        /\ next' = IF read THEN [next EXCEPT ![n] = @ + 1] ELSE next
        /\ took => n \in Writable
        /\ written' = IF took THEN [written EXCEPT ![n] = @ + 1] ELSE written

\* What a rewrite adds to the counters.
Counted(m, counted, s) ==
    /\ counted.appliedSteps = m.appliedSteps + 1
    /\ counted.stateBytes = m.stateBytes + Len(s)
    /\ counted.statePeak = IF Len(s) > m.statePeak THEN Len(s) ELSE m.statePeak
    /\ counted.regexMatches = m.regexMatches /\ counted.regexEvals = m.regexEvals

Installed(repl) ==
    /\ Counted(metrics, metrics', state')
    /\ Budget
    /\ limits.bytes # Unlimited => Len(state') <= limits.bytes
    /\ \/ pc' = "probe" /\ result' = result
       \/ /\ pc' = "done" /\ result'.limit = "steps"
          /\ Reached(metrics.appliedSteps + 1, limits.steps)

Refused(outcome, repl) ==
    /\ state' = state /\ pc' = "done"
    /\ metrics' = metrics
    /\ IF outcome = "rejected"
       THEN /\ result'.limit = "state" /\ limits.bytes # Unlimited
            /\ Len(Splice(state, match, repl)) > limits.bytes
       ELSE result'.limit \in {"none", "timeout"}

Noted(outcome, repl) ==
    /\ pc = "mid"
    /\ recordTrace(outcome, repl, state')
    /\ UNCHANGED <<rules, limits, runs, start, past, evalCount>>
    /\ Books(outcome, repl)
    /\ IF outcome = "applied" THEN Installed(repl) ELSE Refused(outcome, repl)

\* What the three operations on the counters move.
LEMMA Charged ==
    ASSUME NEW m \in Metrics, NEW matched \in BOOLEAN, NEW s \in Word,
           state \in Word, rules[ri] \in Rule
    PROVE  /\ chargeEval(m, matched).appliedSteps = m.appliedSteps
           /\ chargeEval(m, matched).stateBytes = m.stateBytes
           /\ chargeEval(m, matched).statePeak = m.statePeak
           /\ chargeEval(m, matched).regexEvals = m.regexEvals + 1
           /\ chargeEval(m, matched).regexMatches = m.regexMatches + (IF matched THEN 1 ELSE 0)
           /\ Counted(m, chargeStep(noteState(m, s)), s)
<1>1. noteState(m, s) \in Metrics
  BY ChargeTypes
<1>2. /\ chargeEval(m, matched).appliedSteps = m.appliedSteps
      /\ chargeEval(m, matched).stateBytes = m.stateBytes
      /\ chargeEval(m, matched).statePeak = m.statePeak
      /\ chargeEval(m, matched).regexEvals = m.regexEvals + 1
      /\ chargeEval(m, matched).regexMatches = m.regexMatches + (IF matched THEN 1 ELSE 0)
  BY DEF chargeEval, Metrics
<1>3. /\ noteState(m, s).appliedSteps = m.appliedSteps
      /\ noteState(m, s).stateBytes = m.stateBytes + Len(s)
      /\ noteState(m, s).statePeak = IF Len(s) > m.statePeak THEN Len(s) ELSE m.statePeak
      /\ noteState(m, s).regexMatches = m.regexMatches
      /\ noteState(m, s).regexEvals = m.regexEvals
  BY DEF noteState, Metrics
<1>4. \A n \in Metrics :
         /\ chargeStep(n).appliedSteps = n.appliedSteps + 1
         /\ chargeStep(n).stateBytes = n.stateBytes /\ chargeStep(n).statePeak = n.statePeak
         /\ chargeStep(n).regexMatches = n.regexMatches
         /\ chargeStep(n).regexEvals = n.regexEvals
  BY DEF chargeStep, Metrics
<1>5. Counted(m, chargeStep(noteState(m, s)), s)
  BY <1>1, <1>3, <1>4 DEF Counted
<1>6. QED
  BY <1>2, <1>5

\* setState notes the rewrite it installed, or the one the state limit refused.
LEMMA SetStateNotes ==
    ASSUME TypeOK, pc = "mid", Budget, NEW repl \in Word, setState(repl)
    PROVE  \E outcome \in {"applied", "rejected"} :
              /\ recordTrace(outcome, repl, state')
              /\ UNCHANGED <<rules, limits, runs, start, past, evalCount>>
              /\ IF outcome = "applied" THEN Installed(repl) ELSE Refused(outcome, repl)
<1> DEFINE candidate == Splice(state, match, repl)
           over == limits.bytes # Unlimited /\ Len(candidate) > limits.bytes
           after == IF over THEN state ELSE candidate
<1>1. candidate \in Word /\ state \in Word /\ rules[ri] \in Rule
  BY SpliceType, RuleType DEF TypeOK
<1>2. Len(candidate) \in Nat /\ limits.bytes \in Nat \cup {Unlimited}
  BY <1>1, InterpreterAssumption DEF Word, TypeOK, Limit
<1> HIDE DEF candidate
<1>3. after \in Word
  BY <1>1
<1>4. /\ state' = after
      /\ recordTrace(IF over THEN "rejected" ELSE "applied", repl, after)
      /\ metrics' = IF over THEN metrics ELSE chargeStep(noteState(metrics, after))
      /\ IF over THEN Return(12, "state")
         ELSE IF Reached(metrics.appliedSteps + 1, limits.steps) THEN Return(10, "steps")
         ELSE ToRule(1)
      /\ UNCHANGED <<evalCount, rules, limits, runs, start, past>>
  BY DEF setState, candidate, hostVars
<1>5. CASE over
  <2>1. Refused("rejected", repl)
    BY <1>4, <1>5 DEF Refused, Return, candidate
  <2>2. recordTrace("rejected", repl, state')
    BY <1>4, <1>5
  <2>3. QED
    BY <1>4, <2>1, <2>2
<1>6. CASE ~over
  <2>1. Counted(metrics, metrics', state')
    BY <1>1, <1>3, <1>4, <1>6, Charged DEF TypeOK
  <2>2. limits.bytes # Unlimited => Len(state') <= limits.bytes
    BY <1>2, <1>4, <1>6
  <2>3. \/ pc' = "probe" /\ result' = result
        \/ /\ pc' = "done" /\ result'.limit = "steps"
           /\ Reached(metrics.appliedSteps + 1, limits.steps)
    BY <1>4, <1>6 DEF Return, ToRule
  <2>4. recordTrace("applied", repl, state')
    BY <1>4, <1>6
  <2>5. QED
    BY <1>4, <2>1, <2>2, <2>3, <2>4 DEF Installed
<1>7. QED
  BY <1>5, <1>6

\* A failed operator or step is noted without a replacement.
LEMMA FailNotes ==
    ASSUME pc = "mid", NEW code, NEW kind \in {"none", "timeout"},
           recordTrace("error", <<>>, state), Return(code, kind),
           UNCHANGED <<state, evalCount, metrics, coverage, bindingVars, hostVars>>
    PROVE  Noted("error", <<>>)
<1>1. Books("error", <<>>)
  BY DEF Books, bindingVars
<1>2. Refused("error", <<>>)
  BY DEF Refused, Return
<1>3. QED
  BY <1>1, <1>2 DEF Noted, hostVars

\* A replacement is noted with what its operator does to coverage and bindings.
LEMMA RewriteNotes ==
    ASSUME TypeOK, pc = "mid", Budget, NEW repl \in Word, setState(repl),
           Books("applied", repl)
    PROVE  \E outcome \in Outcomes : Noted(outcome, repl)
<1>1. PICK outcome \in {"applied", "rejected"} :
         /\ recordTrace(outcome, repl, state')
         /\ UNCHANGED <<rules, limits, runs, start, past, evalCount>>
         /\ IF outcome = "applied" THEN Installed(repl) ELSE Refused(outcome, repl)
  BY SetStateNotes
<1>2. Books(outcome, repl)
  BY DEF Books
<1>3. QED
  BY <1>1, <1>2 DEF Noted, Outcomes

\* Each step of the loop is one of the two.
LEMMA RecordStep ==
    ASSUME TypeOK, Loop
    PROVE  Silent \/ \E outcome \in Outcomes, repl \in Word : Noted(outcome, repl)
<1> USE DEF recordVars, bindingVars, hostVars
<1>0. <<>> \in Word /\ "error" \in Outcomes /\ "exit" \in Outcomes
  BY DEF Word, Outcomes
<1>21. ASSUME metrics' = metrics, pc' # "mid" PROVE Searched
  <2>1. metrics.regexEvals \in Nat /\ metrics.regexMatches \in Nat
    BY DEF TypeOK, Metrics
  <2>2. QED
    BY <1>21, <2>1 DEF Searched
<1>1. CASE Quiesce
  <2>1. Searched
    BY <1>1, <1>21 DEF Quiesce, Return
  <2>2. QED
    BY <1>1, <2>1 DEF Quiesce, Return, Silent, Moves
<1>2. CASE EvalLimit
  <2>1. Searched
    BY <1>2, <1>21 DEF EvalLimit, Return
  <2>2. QED
    BY <1>2, <2>1 DEF EvalLimit, Return, Silent, Moves
<1>3. ASSUME NEW matched \in BOOLEAN, ri <= Len(rules), metrics' = chargeEval(metrics, matched),
             pc = "probe" /\ pc' = "mid" => matched
      PROVE  Searched
  <2>1. rules[ri] \in Rule
    BY <1>3, RuleType DEF TypeOK
  <2>2. /\ UNCHANGED <<metrics.appliedSteps, metrics.stateBytes, metrics.statePeak>>
        /\ metrics'.regexEvals = metrics.regexEvals + 1
        /\ metrics'.regexMatches = metrics.regexMatches + (IF matched THEN 1 ELSE 0)
    BY <1>3, <2>1, Charged DEF TypeOK
  <2>3. metrics.regexEvals \in Nat
    BY DEF TypeOK, Metrics
  <2>4. metrics'.regexEvals >= metrics.regexEvals + (IF matched THEN 1 ELSE 0)
    BY <2>2, <2>3
  <2>5. QED
    BY <1>3, <2>2, <2>4 DEF Searched
<1>4. pc = "mid" => ri <= Len(rules)
  BY RuleType DEF TypeOK
<1>5. CASE PrefixMiss
  <2>1. Searched
    BY <1>5, <1>21 DEF PrefixMiss, ToRule
  <2>2. QED
    BY <1>5, <2>1 DEF PrefixMiss, BeginProbe, ToRule, Silent, Moves
<1>6. CASE SearchMiss
  <2>1. Searched
    BY <1>3, <1>6 DEF SearchMiss, BeginProbe, ToRule
  <2>2. QED
    BY <1>6, <2>1 DEF SearchMiss, BeginProbe, ToRule, Silent, Moves
<1>7. CASE SearchHit
  <2>1. Searched
    BY <1>3, <1>7 DEF SearchHit, BeginProbe
  <2>2. QED
    BY <1>7, <2>1 DEF SearchHit, BeginProbe, Silent, Moves
<1>8. CASE MidError
  BY <1>0, <1>8, FailNotes DEF MidError, BeginMid
<1>9. CASE MidMiss
  <2>1. Searched
    BY <1>3, <1>4, <1>9 DEF MidMiss, BeginMid, ToRule
  <2>2. QED
    BY <1>9, <2>1 DEF MidMiss, BeginMid, ToRule, Silent, Moves
<1>10. CASE MidHit
  <2>1. Searched
    BY <1>3, <1>4, <1>10 DEF MidHit, BeginMid
  <2>2. QED
    BY <1>10, <2>1 DEF MidHit, BeginMid, Silent, Moves
<1>11. CASE StepLimit
  <2>1. Searched
    BY <1>11, <1>21 DEF StepLimit, Return
  <2>2. QED
    BY <1>11, <2>1 DEF StepLimit, Matched, Budget, Return, Silent, Moves
<1>12. ASSUME NEW code, NEW kind \in {"none", "timeout"}, Fail(code, kind), pc = "mid"
       PROVE  \E outcome \in Outcomes, repl \in Word : Noted(outcome, repl)
  BY <1>0, <1>12, FailNotes DEF Fail
<1>13. CASE Substitute
  <2>1. CASE Fail(1, "none")
    BY <1>12, <1>13, <2>1 DEF Substitute, Matched
  <2>2. CASE /\ ~RenderFails(rules[ri].rhs, groups)
             /\ recordRuleCoverage
             /\ setState(Render(rules[ri].rhs, groups))
             /\ UNCHANGED bindingVars
    <3>1. Books("applied", Render(rules[ri].rhs, groups))
      BY <1>13, <2>2 DEF Books, Substitute, Matched, recordRuleCoverage
    <3>2. QED
      BY <1>13, <2>2, <3>1, ReplacementTypes, RewriteNotes DEF Substitute, Matched
  <2>3. QED
    BY <1>13, <2>1, <2>2 DEF Substitute
<1>14. CASE ReadFails
  BY <1>12, <1>14 DEF ReadFails, Matched
<1>15. CASE ReadTimeout
  BY <1>12, <1>15 DEF ReadTimeout, Matched
<1>16. CASE ReadLine
  <2> DEFINE n == rules[ri].res
             line == PctEncode[Script[n][next[n] + 1]]
  <2>1. n \in Readable /\ ~Dry(n, next) /\ pc = "mid" /\ Budget
    BY <1>16 DEF ReadLine, Dry, Matched
  <2>2. line \in Word
    BY <2>1, ReplacementTypes
  <2>3. Books("applied", line) /\ setState(line)
    BY <1>16, <2>1 DEF ReadLine, Books, Matched, recordRuleCoverage
  <2>4. QED
    BY <2>1, <2>2, <2>3, RewriteNotes
<1>17. CASE Write
  <2> DEFINE n == rules[ri].res
  <2>0. pc = "mid" /\ Budget /\ rules[ri].op = "Write" /\ ErrorMarker[n] # <<>>
        /\ ErrorMarker[n] \in Word
    <3>1. pc = "mid" /\ Budget /\ rules[ri].op = "Write"
      BY <1>17 DEF Write, Matched
    <3>2. rules[ri].res \in Resource
      BY <3>1, RuleType DEF TypeOK, Rule
    <3>3. QED
      BY <3>1, <3>2, ProgramAssumption
  <2>1. CASE Fail(1, "none")
    BY <1>12, <2>0, <2>1
  <2>2. CASE setState(ErrorMarker[n]) /\ UNCHANGED <<coverage, bindingVars>>
    <3>1. Books("applied", ErrorMarker[n])
      BY <2>0, <2>2 DEF Books
    <3>2. QED
      BY <2>0, <2>2, <3>1, RewriteNotes
  <2>3. CASE /\ n \in Writable
             /\ written' = [written EXCEPT ![n] = @ + 1]
             /\ recordRuleCoverage
             /\ setState(<<>>)
             /\ UNCHANGED next
    <3>1. Books("applied", <<>>)
      BY <2>0, <2>3 DEF Books, recordRuleCoverage
    <3>2. QED
      BY <1>0, <2>0, <2>3, <3>1, RewriteNotes
  <2>4. QED
    BY <1>17, <2>1, <2>2, <2>3 DEF Write
<1>18. CASE Builtin
  <2> DEFINE v == Capture(rules[ri].rhs, groups)
  <2>1. CASE Fail(1, "none")
    BY <1>12, <1>18, <2>1 DEF Builtin, Matched
  <2>2. CASE /\ v \in DOMAIN BuiltinTable
             /\ recordRuleCoverage
             /\ setState(BuiltinTable[v])
             /\ UNCHANGED bindingVars
    <3>1. Books("applied", BuiltinTable[v])
      BY <1>18, <2>2 DEF Books, Builtin, Matched, recordRuleCoverage
    <3>2. QED
      BY <1>18, <2>2, <3>1, ReplacementTypes, RewriteNotes DEF Builtin, Matched
  <2>3. QED
    BY <1>18, <2>1, <2>2 DEF Builtin
<1>19. CASE Exit
  <2>1. Books("exit", <<>>)
    BY <1>19 DEF Exit, Matched, Books, recordRuleCoverage
  <2>2. Refused("exit", <<>>)
    BY <1>19 DEF Exit, Refused, Return
  <2>3. Noted("exit", <<>>)
    BY <1>19, <2>1, <2>2 DEF Exit, Matched, Noted
  <2>4. QED
    BY <1>0, <2>3
<1>20. QED
  BY <1>1, <1>2, <1>5, <1>6, <1>7, <1>8, <1>9, <1>10, <1>11, <1>13, <1>14, <1>15, <1>16,
     <1>17, <1>18, <1>19 DEF Loop, Apply

-----------------------------------------------------------------------------
\* The log over all runs grows by the event a step notes, and by nothing else.

\* Steps that record nothing leave the log alone.
LEMMA LogSilent ==
    ASSUME UNCHANGED <<trace, past>>
    PROVE  log' = log
BY DEF log

\* A new run keeps the log and begins a trace.
LEMMA LogRun ==
    ASSUME TypeOK, Run
    PROVE  log' = log /\ trace' = <<>>
BY DEF log, Run, TypeOK

\* A step that records appends its event to both.
LEMMA LogNoted ==
    ASSUME TypeOK, TypeOK', NEW outcome \in Outcomes, NEW repl \in Word, Noted(outcome, repl)
    PROVE  LET e == Event(outcome, repl, state')
           IN  /\ e \in TraceEvent
               /\ log \in Seq(TraceEvent) /\ log' = Append(log, e)
               /\ trace' = Append(trace, e)
<1> DEFINE e == Event(outcome, repl, state')
<1>1. trace \in Seq(TraceEvent) /\ past \in Seq(TraceEvent) /\ past' = past
  BY DEF TypeOK, Noted
<1>2. e \in TraceEvent
  BY DEF Noted, TypeOK, Event, TraceEvent
<1>3. trace' = Append(trace, e)
  BY DEF Noted, recordTrace
<1> HIDE DEF e
<1>4. past \o Append(trace, e) = Append(past \o trace, e)
  BY <1>1, <1>2
<1>5. QED
  BY <1>1, <1>2, <1>3, <1>4 DEF log, e

-----------------------------------------------------------------------------
\* The trace is a path.

\* The events of a run that goes on were all applied, the last event is older than
\* the probe that is under way, and a run without events has left its state alone.
PathInv ==
    /\ TraceIsPath
    /\ log # <<>> => log[Len(log)].step <= evalCount
    /\ pc = "mid" /\ log # <<>> => log[Len(log)].step < evalCount
    /\ pc \in {"probe", "mid"} => \A k \in DOMAIN trace : trace[k].outcome = "applied"
    /\ trace = <<>> => start = state

\* A step that records nothing leaves the path as it is.
LEMMA PathSilent ==
    ASSUME TypeOK, PathInv, Silent
    PROVE  PathInv'
<1>1. log' = log /\ trace' = trace /\ state' = state /\ start' = start
  BY LogSilent DEF Silent
<1>2. TraceIsPath'
  BY <1>1 DEF PathInv, TraceIsPath
<1>3. log \in Seq(TraceEvent)
  BY ConcatProperties DEF log, TypeOK
<1>4. log # <<>> => log[Len(log)].step \in Nat
  <2>1. log # <<>> => log[Len(log)] \in TraceEvent
    BY <1>3
  <2>2. QED
    BY <2>1 DEF TraceEvent
<1>5. /\ log # <<>> => log[Len(log)].step <= evalCount'
      /\ pc' = "mid" /\ log # <<>> => log[Len(log)].step < evalCount'
  <2>1. evalCount \in Nat
    BY DEF TypeOK
  <2>2. QED
    BY <1>4, <2>1 DEF PathInv, Silent, Moves
<1>6. pc' \in {"probe", "mid"} => pc \in {"probe", "mid"}
  BY DEF Silent, Moves
<1>7. QED
  BY <1>1, <1>2, <1>5, <1>6 DEF PathInv

\* An event goes on where the last one ended.
LEMMA PathNoted ==
    ASSUME TypeOK, TypeOK', PathInv,
           NEW outcome \in Outcomes, NEW repl \in Word, Noted(outcome, repl)
    PROVE  PathInv'
<1> DEFINE e == Event(outcome, repl, state')
<1>1. /\ e \in TraceEvent
      /\ log \in Seq(TraceEvent) /\ log' = Append(log, e)
      /\ trace \in Seq(TraceEvent) /\ trace' = Append(trace, e)
  BY LogNoted DEF TypeOK
<1>2. /\ e.step = evalCount /\ e.before = state /\ e.after = state' /\ e.outcome = outcome
      /\ evalCount \in Nat /\ evalCount' = evalCount /\ start' = start /\ pc = "mid"
      /\ outcome # "applied" => state' = state /\ pc' = "done"
      /\ pc' # "mid"
  BY DEF Event, Noted, Installed, Refused, TypeOK
<1> HIDE DEF e
<1>3. /\ log' \in Seq(TraceEvent) /\ Len(log') = Len(log) + 1 /\ log'[Len(log) + 1] = e
      /\ \A k \in 1 .. Len(log) : log'[k] = log[k]
      /\ DOMAIN log = 1 .. Len(log) /\ DOMAIN log' = 1 .. Len(log) + 1
      /\ log = <<>> <=> Len(log) = 0
  BY <1>1, AppendProperties
<1>4. /\ trace' \in Seq(TraceEvent) /\ Len(trace') = Len(trace) + 1 /\ trace'[Len(trace) + 1] = e
      /\ \A k \in 1 .. Len(trace) : trace'[k] = trace[k]
      /\ DOMAIN trace = 1 .. Len(trace) /\ DOMAIN trace' = 1 .. Len(trace) + 1
      /\ trace = <<>> <=> Len(trace) = 0
  BY <1>1, AppendProperties
<1>5. \A k \in DOMAIN trace : trace[k].outcome = "applied"
  BY <1>2 DEF PathInv
<1>6. log # <<>> => log[Len(log)].after = state /\ log[Len(log)].step < evalCount
  BY <1>2 DEF PathInv, TraceIsPath
<1>7. ASSUME NEW k \in 1 .. Len(log') - 1
      PROVE  log'[k].after = log'[k + 1].before /\ log'[k].step < log'[k + 1].step
  <2>1. CASE k = Len(log)
    BY <1>2, <1>3, <1>6, <2>1
  <2>2. CASE k < Len(log)
    <3>1. k \in 1 .. Len(log) - 1 /\ k + 1 \in 1 .. Len(log)
      BY <1>3, <2>2
    <3>2. log[k].after = log[k + 1].before /\ log[k].step < log[k + 1].step
      BY <3>1 DEF PathInv, TraceIsPath
    <3>3. QED
      BY <1>3, <3>1, <3>2
  <2>3. QED
    BY <1>1, <1>3, <2>1, <2>2
<1>8. \A k \in DOMAIN log' : log'[k].outcome # "applied" => log'[k].after = log'[k].before
  BY <1>2, <1>3 DEF PathInv, TraceIsPath
<1>9. \A k \in 1 .. Len(trace') - 1 : trace'[k].outcome = "applied"
  BY <1>1, <1>4, <1>5
<1>10. trace' # <<>> => trace'[1].before = start'
  BY <1>2, <1>4 DEF PathInv, TraceIsPath
<1>11. log' # <<>> => log'[Len(log')].after = state' /\ log'[Len(log')].step <= evalCount'
  BY <1>1, <1>2, <1>3
<1>12. TraceIsPath'
  BY <1>7, <1>8, <1>9, <1>10, <1>11 DEF TraceIsPath
<1>13. pc' \in {"probe", "mid"} => \A k \in DOMAIN trace' : trace'[k].outcome = "applied"
  BY <1>2, <1>4, <1>5
<1>14. trace' # <<>>
  BY <1>1, <1>4
<1>15. QED
  BY <1>2, <1>11, <1>12, <1>13, <1>14 DEF PathInv

\* Every step keeps the path.
LEMMA PathStep == TypeOK /\ TypeOK' /\ PathInv /\ [Next]_vars => PathInv'
<1> SUFFICES ASSUME TypeOK, TypeOK', PathInv, [Next]_vars PROVE PathInv'
  OBVIOUS
<1>1. CASE Run
  <2>1. log' = log /\ trace' = <<>> /\ state' = state /\ start' = state
        /\ evalCount' = evalCount /\ pc' = "probe"
    BY <1>1, LogRun DEF Run
  <2>2. QED
    BY <2>1 DEF PathInv, TraceIsPath
<1>2. CASE Loop
  BY <1>2, RecordStep, PathSilent, PathNoted
<1>3. CASE UNCHANGED vars
  <2>1. log' = log
    BY <1>3, LogSilent DEF vars, recordVars, hostVars
  <2>2. QED
    BY <1>3, <2>1 DEF vars, loopVars, recordVars, hostVars, PathInv, TraceIsPath
<1>4. QED
  BY <1>1, <1>2, <1>3 DEF Next

\* The trace with what the next event needs of it.
THEOREM TypedPath == Spec => [](TypeOK /\ PathInv)
<1>1. Init => PathInv
  <2> SUFFICES ASSUME Init PROVE PathInv
    OBVIOUS
  <2>1. log = <<>> /\ trace = <<>> /\ start = state
    BY DEF Init, log
  <2>2. QED
    BY <2>1 DEF PathInv, TraceIsPath
<1>2. QED
  BY <1>1, PathStep, TypeCorrect, PTL DEF Spec

\* The trace is the path the state took, over every run of the interpreter.
THEOREM TraceTellsPath == Spec => []TraceIsPath
<1>1. PathInv => TraceIsPath
  BY DEF PathInv
<1>2. QED
  BY <1>1, TypedPath, PTL

-----------------------------------------------------------------------------
\* The limits hold.

\* A replacement is no longer than the text it is put into allows.
LEMMA SpliceLength ==
    ASSUME NEW s \in Word, NEW m \in Span(s), NEW repl \in Word
    PROVE  Len(Splice(s, m, repl)) <= Len(s) + Len(repl)
<1>1. m.at \in 1 .. Len(s) + 1 /\ m.to \in 0 .. Len(s) /\ m.to >= m.at - 1 /\ Len(s) \in Nat
      /\ Len(repl) \in Nat
  BY DEF Span, Word
<1>2. SubSeq(s, 1, m.at - 1) \in Word /\ Len(SubSeq(s, 1, m.at - 1)) = m.at - 1
  BY <1>1 DEF Word
<1>3. SubSeq(s, m.to + 1, Len(s)) \in Word /\ Len(SubSeq(s, m.to + 1, Len(s))) = Len(s) - m.to
  BY <1>1 DEF Word
<1>4. Len(Splice(s, m, repl)) = (m.at - 1) + Len(repl) + (Len(s) - m.to)
  BY <1>1, <1>2, <1>3, ConcatProperties DEF Splice, Word
<1>5. QED
  BY <1>1, <1>4

\* The limit a run ended by is set when it ends and not before.
BudgetInv == BudgetsHold /\ (pc # "done" => result.limit = "none")

\* A step that records nothing can only end the run.
LEMMA BudgetSilent ==
    ASSUME TypeOK, PathInv, BudgetInv, Silent
    PROVE  BudgetInv'
<1>1. /\ limits' = limits /\ trace' = trace /\ state' = state
      /\ metrics'.appliedSteps = metrics.appliedSteps
      /\ metrics.appliedSteps \in Nat
      /\ limits.steps \in Nat \cup {Unlimited}
  BY InterpreterAssumption DEF Silent, Searched, TypeOK, Metrics, Limit
<1>2. pc \in {"probe", "mid"} /\ \A k \in DOMAIN trace : trace[k].outcome = "applied"
  BY DEF Silent, Moves, PathInv
<1>3. result'.limit = "steps" => metrics.appliedSteps = limits.steps
  BY <1>1, <1>2 DEF Silent, Moves, BudgetInv, BudgetsHold, Reached
<1>4. pc' # "done" => result'.limit = "none"
  BY <1>2 DEF Silent, Moves, BudgetInv
<1>5. Applied(trace)' = Applied(trace)
  BY <1>1 DEF Applied
<1>6. BudgetsHold'
  BY <1>1, <1>2, <1>3, <1>5 DEF BudgetInv, BudgetsHold
<1>7. QED
  BY <1>4, <1>6 DEF BudgetInv

\* An event keeps within the limits, or ends the run by one.
LEMMA BudgetNoted ==
    ASSUME TypeOK, TypeOK', PathInv, BudgetInv,
           NEW outcome \in Outcomes, NEW repl \in Word, Noted(outcome, repl)
    PROVE  BudgetInv'
<1> DEFINE e == Event(outcome, repl, state')
<1>1. /\ e \in TraceEvent /\ trace \in Seq(TraceEvent) /\ trace' = Append(trace, e)
  BY LogNoted DEF TypeOK
<1>2. /\ e.repl = repl /\ e.after = state' /\ e.outcome = outcome
      /\ limits' = limits /\ pc = "mid"
      /\ limits.steps \in Nat \cup {Unlimited} /\ limits.bytes \in Nat \cup {Unlimited}
      /\ metrics.appliedSteps \in Nat
  BY InterpreterAssumption DEF Event, Noted, TypeOK, Metrics, Limit
<1> HIDE DEF e
<1>3. /\ trace' \in Seq(TraceEvent) /\ trace'[Len(trace) + 1] = e
      /\ \A k \in 1 .. Len(trace) : trace'[k] = trace[k]
      /\ DOMAIN trace = 1 .. Len(trace) /\ DOMAIN trace' = 1 .. Len(trace) + 1
      /\ Len(trace) \in Nat
  BY <1>1, AppendProperties
<1>4. \A k \in DOMAIN trace : trace[k].outcome = "applied" /\ k \in Applied(trace)
  BY <1>2 DEF PathInv, Applied
<1>5. result.limit = "none"
  BY <1>2 DEF BudgetInv
<1>6. CASE outcome = "applied"
  <2>1. /\ metrics'.appliedSteps = metrics.appliedSteps + 1
        /\ ~Reached(metrics.appliedSteps, limits.steps)
        /\ limits.bytes # Unlimited => Len(state') <= limits.bytes
        /\ \/ pc' = "probe" /\ result' = result
           \/ /\ pc' = "done" /\ result'.limit = "steps"
              /\ Reached(metrics.appliedSteps + 1, limits.steps)
    BY <1>6 DEF Noted, Installed, Counted, Budget
  <2>2. /\ limits.steps # Unlimited => metrics'.appliedSteps <= limits.steps
        /\ result'.limit = "steps" => metrics'.appliedSteps = limits.steps
    BY <1>2, <1>5, <2>1 DEF Reached
  <2>3. limits.bytes # Unlimited =>
          \A k \in DOMAIN trace' : /\ Len(trace'[k].after) <= limits.bytes
                                   /\ trace'[k].outcome = "applied"
    BY <1>2, <1>3, <1>4, <1>6, <2>1 DEF BudgetInv, BudgetsHold
  <2>4. Applied(trace)' \subseteq DOMAIN trace'
    BY DEF Applied
  <2>5. BudgetsHold'
    BY <1>2, <2>2, <2>3, <2>4 DEF BudgetsHold
  <2>6. QED
    BY <1>5, <2>1, <2>5 DEF BudgetInv
<1>7. CASE outcome # "applied"
  <2>1. /\ metrics'.appliedSteps = metrics.appliedSteps /\ state' = state /\ pc' = "done"
        /\ IF outcome = "rejected"
           THEN /\ result'.limit = "state" /\ limits.bytes # Unlimited
                /\ Len(Splice(state, match, repl)) > limits.bytes
           ELSE result'.limit \in {"none", "timeout"}
    BY <1>7 DEF Noted, Refused
  <2>2. /\ limits.steps # Unlimited => metrics'.appliedSteps <= limits.steps
        /\ result'.limit # "steps"
    BY <2>1 DEF BudgetInv, BudgetsHold
  <2>3. limits.bytes # Unlimited =>
          \A k \in Applied(trace)' : Len(trace'[k].after) <= limits.bytes
    <3>1. Applied(trace)' \subseteq DOMAIN trace
      BY <1>2, <1>3, <1>7 DEF Applied
    <3>2. QED
      BY <1>3, <1>4, <3>1 DEF BudgetInv, BudgetsHold
  <2>4. outcome = "rejected" => Len(state) + Len(repl) > limits.bytes
    <3>1. Len(Splice(state, match, repl)) <= Len(state) + Len(repl)
      BY <1>2, SpliceLength DEF TypeOK
    <3>2. Splice(state, match, repl) \in Word /\ state \in Word
      BY <1>2, SpliceType DEF TypeOK
    <3>3. /\ Len(Splice(state, match, repl)) \in Nat /\ Len(state) \in Nat /\ Len(repl) \in Nat
      BY <3>2 DEF Word
    <3>4. QED
      BY <1>2, <2>1, <3>1, <3>3
  <2>5. \A k \in DOMAIN trace' : trace'[k].outcome = "rejected" =>
           result'.limit = "state" /\ Len(state') + Len(trace'[k].repl) > limits'.bytes
    BY <1>2, <1>3, <1>4, <2>1, <2>4
  <2>6. BudgetsHold'
    BY <1>2, <2>2, <2>3, <2>5 DEF BudgetsHold
  <2>7. QED
    BY <2>1, <2>6 DEF BudgetInv
<1>8. QED
  BY <1>6, <1>7

\* Every step keeps the limits.
LEMMA BudgetStep == TypeOK /\ TypeOK' /\ PathInv /\ BudgetInv /\ [Next]_vars => BudgetInv'
<1> SUFFICES ASSUME TypeOK, TypeOK', PathInv, BudgetInv, [Next]_vars PROVE BudgetInv'
  OBVIOUS
<1>1. CASE Run
  <2>1. /\ metrics'.appliedSteps = 0 /\ trace' = <<>> /\ result' = NoResult /\ limits' \in LimitChoices
    BY <1>1 DEF Run, FreshMetrics
  <2>2. limits'.steps \in Nat \cup {Unlimited}
    BY <2>1, InterpreterAssumption DEF Limit
  <2>3. result'.limit = "none"
    BY <2>1 DEF NoResult
  <2>4. BudgetsHold'
    BY <2>1, <2>2, <2>3 DEF BudgetsHold, Applied
  <2>5. QED
    BY <2>3, <2>4 DEF BudgetInv
<1>2. CASE Loop
  BY <1>2, RecordStep, BudgetSilent, BudgetNoted
<1>3. CASE UNCHANGED vars
  BY <1>3 DEF vars, loopVars, recordVars, hostVars, BudgetInv, BudgetsHold, Applied
<1>4. QED
  BY <1>1, <1>2, <1>3 DEF Next

\* No run passes its limits, and one that ends by a limit has reached it.
THEOREM LimitsHold == Spec => []BudgetsHold
<1>1. Init => BudgetInv
  <2> SUFFICES ASSUME Init PROVE BudgetInv
    OBVIOUS
  <2>1. metrics.appliedSteps = 0 /\ trace = <<>> /\ result.limit = "none"
    BY DEF Init, FreshMetrics, NoResult
  <2>2. limits.steps \in Nat \cup {Unlimited}
    BY InterpreterAssumption DEF Init, Limit
  <2>3. QED
    BY <2>1, <2>2 DEF BudgetInv, BudgetsHold, Applied
<1>2. BudgetInv => BudgetsHold
  BY DEF BudgetInv
<1>3. QED
  BY <1>1, <1>2, BudgetStep, TypedPath, PTL DEF Spec

-----------------------------------------------------------------------------
\* The counters are those of the trace.

\* One more index is one more event.
LEMMA OneMore ==
    ASSUME NEW n \in Nat, NEW S, S \subseteq 1 .. n
    PROVE  /\ Cardinality(S) \in Nat
           /\ Cardinality(S \cup {n + 1}) = Cardinality(S) + 1
<1>1. IsFiniteSet(S)
  <2>1. IsFiniteSet(1 .. n)
    BY FS_Interval
  <2>2. QED
    BY <2>1, FS_Subset
<1>2. n + 1 \notin S
  OBVIOUS
<1>3. QED
  BY <1>1, <1>2, FS_AddElement, FS_CardinalityType

\* The greatest of a set of lengths.
LEMMA MaxIs ==
    ASSUME NEW S, S \subseteq Nat, NEW m \in S, \A n \in S : m >= n
    PROVE  Max(S) = m
<1>1. \A x \in S : (\A n \in S : x >= n) => x = m
  OBVIOUS
<1>2. Max(S) \in S /\ \A n \in S : Max(S) >= n
  <2>1. \E x \in S : \A n \in S : x >= n
    OBVIOUS
  <2>2. QED
    BY <2>1, Zenon DEF Max
<1>3. QED
  BY <1>1, <1>2

\* MetricsMatchTrace, with the bytes counted in a finite set, the peak one of
\* the lengths noted, and the match that brought the loop to the rule it is at.
MetricsInv ==
    LET steps == Cardinality(Applied(trace))
    IN  /\ metrics.appliedSteps = steps
        /\ IsFiniteSet(BytesNoted(trace))
        /\ runs > 0 =>
              /\ metrics.stateBytes = Len(start) + Cardinality(BytesNoted(trace))
              /\ metrics.statePeak \in LengthsNoted
              /\ \A n \in LengthsNoted : metrics.statePeak >= n
        /\ steps <= metrics.regexMatches
        /\ pc = "mid" => steps + 1 <= metrics.regexMatches
        /\ metrics.regexMatches <= metrics.regexEvals

\* The lengths noted are numbers.
LEMMA LengthsType ==
    ASSUME TypeOK
    PROVE  LengthsNoted \subseteq Nat
<1>1. Len(start) \in Nat
  BY DEF TypeOK, Word
<1>2. \A k \in Applied(trace) : trace[k] \in TraceEvent
  BY DEF TypeOK, Applied
<1>3. \A e \in TraceEvent : Len(e.after) \in Nat
  BY DEF TraceEvent, Word
<1>4. QED
  BY <1>1, <1>2, <1>3 DEF LengthsNoted

\* A trace without events has written nothing.
LEMMA NothingNoted ==
    ASSUME trace = <<>>
    PROVE  /\ Cardinality(Applied(trace)) = 0
           /\ IsFiniteSet(BytesNoted(trace)) /\ Cardinality(BytesNoted(trace)) = 0
           /\ LengthsNoted = {Len(start)}
<1>1. Applied(trace) = {}
  BY DEF Applied
<1>2. BytesNoted(trace) = {} /\ LengthsNoted = {Len(start)}
  BY <1>1 DEF BytesNoted, LengthsNoted
<1>3. QED
  BY <1>1, <1>2, FS_EmptySet

\* What one more event adds to the three sets the counters are compared with.
LEMMA TraceNoted ==
    ASSUME TypeOK, TypeOK', NEW outcome \in Outcomes, NEW repl \in Word,
           Noted(outcome, repl), IsFiniteSet(BytesNoted(trace))
    PROVE  IF outcome = "applied"
           THEN /\ Cardinality(Applied(trace)') = Cardinality(Applied(trace)) + 1
                /\ IsFiniteSet(BytesNoted(trace)')
                /\ Cardinality(BytesNoted(trace)') = Cardinality(BytesNoted(trace)) + Len(state')
                /\ LengthsNoted' = LengthsNoted \cup {Len(state')}
           ELSE /\ Applied(trace)' = Applied(trace)
                /\ BytesNoted(trace)' = BytesNoted(trace)
                /\ LengthsNoted' = LengthsNoted
<1> DEFINE e == Event(outcome, repl, state')
           last == Len(trace) + 1
           latest == {last} \X (1 .. Len(state'))
<1>1. trace \in Seq(TraceEvent) /\ trace' = Append(trace, e) /\ e \in TraceEvent
  BY LogNoted DEF TypeOK
<1>2. e.after = state' /\ e.outcome = outcome /\ start' = start /\ Len(state') \in Nat
  BY DEF Event, Noted, TypeOK, Word
<1> HIDE DEF e
<1>3. /\ trace'[last] = e /\ Len(trace) \in Nat
      /\ \A k \in DOMAIN trace : trace'[k] = trace[k]
      /\ DOMAIN trace = 1 .. Len(trace) /\ DOMAIN trace' = DOMAIN trace \cup {last}
      /\ last \notin DOMAIN trace
  BY <1>1, AppendProperties
<1>4. Applied(trace) \subseteq 1 .. Len(trace)
  BY <1>3 DEF Applied
<1> HIDE DEF last
<1>5. Applied(trace)' = IF outcome = "applied" THEN Applied(trace) \cup {last} ELSE Applied(trace)
  <2>1. Applied(trace)' = { k \in DOMAIN trace' : trace'[k].outcome = "applied" }
    BY DEF Applied
  <2>2. \A k \in DOMAIN trace : k \in Applied(trace)' <=> k \in Applied(trace)
    BY <1>3, <2>1 DEF Applied
  <2>3. last \in Applied(trace)' <=> outcome = "applied"
    BY <1>2, <1>3, <2>1
  <2>4. Applied(trace)' \subseteq DOMAIN trace \cup {last} /\ Applied(trace) \subseteq DOMAIN trace
    BY <1>3, <2>1 DEF Applied
  <2>5. ASSUME last \in Applied(trace)' PROVE Applied(trace)' = Applied(trace) \cup {last}
    BY <1>3, <2>2, <2>4, <2>5
  <2>6. ASSUME last \notin Applied(trace)' PROVE Applied(trace)' = Applied(trace)
    BY <1>3, <2>2, <2>4, <2>6
  <2>7. QED
    BY <2>3, <2>5, <2>6
<1>6. \A k \in Applied(trace) : k # last /\ trace'[k] = trace[k]
  BY <1>3 DEF Applied
<1>7. CASE outcome = "applied"
  <2>1. Cardinality(Applied(trace)') = Cardinality(Applied(trace)) + 1
    BY <1>3, <1>4, <1>5, <1>7, OneMore DEF last
  <2>2. BytesNoted(trace)' = UNION { {k} \X (1 .. Len(trace'[k].after)) : k \in Applied(trace)' }
    BY DEF BytesNoted
  <2>3. BytesNoted(trace)' = BytesNoted(trace) \cup latest
    BY <1>2, <1>3, <1>5, <1>6, <1>7, <2>2 DEF BytesNoted
  <2>4. BytesNoted(trace) \cap latest = {}
    BY <1>6 DEF BytesNoted
  <2>5. IsFiniteSet(latest) /\ Cardinality(latest) = Len(state')
    <3>1. IsFiniteSet(1 .. Len(state')) /\ Cardinality(1 .. Len(state')) = Len(state')
      BY <1>2, FS_Interval
    <3>2. IsFiniteSet({last}) /\ Cardinality({last}) = 1
      BY FS_Singleton
    <3>3. IsFiniteSet(latest) /\ Cardinality(latest) = 1 * Len(state')
      BY <3>1, <3>2, FS_Product
    <3>4. QED
      BY <1>2, <3>3
  <2> HIDE DEF latest
  <2>6. /\ IsFiniteSet(BytesNoted(trace)')
        /\ Cardinality(BytesNoted(trace)') = Cardinality(BytesNoted(trace)) + Len(state')
    <3>1. /\ IsFiniteSet(BytesNoted(trace) \cup latest)
          /\ Cardinality(BytesNoted(trace) \cup latest) =
                Cardinality(BytesNoted(trace)) + Cardinality(latest) - Cardinality({})
      BY <2>4, <2>5, FS_Union
    <3>2. Cardinality(BytesNoted(trace)) \in Nat /\ Cardinality({}) = 0
      BY FS_CardinalityType, FS_EmptySet
    <3>3. QED
      BY <1>2, <2>3, <2>5, <3>1, <3>2
  <2>7. LengthsNoted' = {Len(start)} \cup { Len(trace'[k].after) : k \in Applied(trace)' }
    BY <1>2 DEF LengthsNoted
  <2>8. LengthsNoted' = LengthsNoted \cup {Len(state')}
    BY <1>2, <1>3, <1>5, <1>6, <1>7, <2>7 DEF LengthsNoted
  <2>9. QED
    BY <1>7, <2>1, <2>6, <2>8
<1>8. CASE outcome # "applied"
  <2>1. BytesNoted(trace)' = UNION { {k} \X (1 .. Len(trace'[k].after)) : k \in Applied(trace) }
    BY <1>5, <1>8 DEF BytesNoted
  <2>2. LengthsNoted' = {Len(start)} \cup { Len(trace'[k].after) : k \in Applied(trace) }
    BY <1>2, <1>5, <1>8 DEF LengthsNoted
  <2>3. BytesNoted(trace)' = BytesNoted(trace)
    BY <1>6, <2>1 DEF BytesNoted
  <2>4. LengthsNoted' = LengthsNoted
    BY <1>6, <2>2 DEF LengthsNoted
  <2>5. QED
    BY <1>5, <1>8, <2>3, <2>4
<1>9. QED
  BY <1>7, <1>8

\* A search leaves the three sets alone and can only add matches.
LEMMA MetricsSilent ==
    ASSUME TypeOK, TypeOK', MetricsInv, Silent
    PROVE  MetricsInv'
<1>1. /\ Applied(trace)' = Applied(trace) /\ BytesNoted(trace)' = BytesNoted(trace)
      /\ LengthsNoted' = LengthsNoted /\ start' = start /\ runs' = runs
  BY DEF Silent, Applied, BytesNoted, LengthsNoted
<1>2. PICK hits \in {0, 1} :
         /\ metrics'.regexMatches = metrics.regexMatches + hits
         /\ metrics'.regexEvals >= metrics.regexEvals + hits
         /\ pc = "probe" /\ pc' = "mid" => hits = 1
  BY DEF Silent, Searched
<1>3. pc' = "mid" => pc \in {"probe", "mid"}
  BY DEF Silent, Moves
<1>4. /\ metrics'.appliedSteps = metrics.appliedSteps
      /\ metrics'.stateBytes = metrics.stateBytes
      /\ metrics'.statePeak = metrics.statePeak
  BY DEF Silent, Searched
<1>5. /\ metrics.regexMatches \in Nat /\ metrics.regexEvals \in Nat
      /\ metrics.appliedSteps \in Nat /\ metrics'.regexEvals \in Nat
  BY DEF TypeOK, Metrics
<1>6. Cardinality(Applied(trace)) \in Nat
  BY <1>5 DEF MetricsInv
<1>7. /\ Cardinality(Applied(trace)) <= metrics'.regexMatches
      /\ pc' = "mid" => Cardinality(Applied(trace)) + 1 <= metrics'.regexMatches
      /\ metrics'.regexMatches <= metrics'.regexEvals
  BY <1>2, <1>3, <1>5, <1>6 DEF MetricsInv
<1>8. QED
  BY <1>1, <1>4, <1>7 DEF MetricsInv

\* A rewrite adds its state to the sets and to the counters; a refusal to neither.
LEMMA MetricsNoted ==
    ASSUME TypeOK, TypeOK', MetricsInv,
           NEW outcome \in Outcomes, NEW repl \in Word, Noted(outcome, repl)
    PROVE  MetricsInv'
<1>1. start' = start /\ runs' = runs /\ pc = "mid" /\ pc' # "mid"
  BY DEF Noted, Installed, Refused
<1>2. IsFiniteSet(BytesNoted(trace))
  BY DEF MetricsInv
<1>3. metrics \in Metrics /\ Len(state') \in Nat /\ Len(start) \in Nat
  <2>1. metrics \in Metrics /\ state' \in Word /\ start \in Word
    BY DEF TypeOK
  <2>2. QED
    BY <2>1 DEF Word
<1>4. CASE outcome = "applied"
  <2>1. Counted(metrics, metrics', state')
    BY <1>4 DEF Noted, Installed
  <2>2. /\ Cardinality(Applied(trace)') = Cardinality(Applied(trace)) + 1
        /\ IsFiniteSet(BytesNoted(trace)')
        /\ Cardinality(BytesNoted(trace)') = Cardinality(BytesNoted(trace)) + Len(state')
        /\ LengthsNoted' = LengthsNoted \cup {Len(state')}
    BY <1>2, <1>4, TraceNoted
  <2>3. Cardinality(Applied(trace)) \in Nat /\ Cardinality(BytesNoted(trace)) \in Nat
    BY <1>2, <1>3, FS_CardinalityType DEF MetricsInv, Metrics
  <2>4. /\ metrics'.appliedSteps = Cardinality(Applied(trace)')
        /\ Cardinality(Applied(trace)') <= metrics'.regexMatches
        /\ metrics'.regexMatches <= metrics'.regexEvals
    BY <1>1, <2>1, <2>2 DEF MetricsInv, Counted
  <2>5. ASSUME runs > 0
        PROVE  metrics'.stateBytes = Len(start) + Cardinality(BytesNoted(trace)')
    <3>1. metrics.stateBytes = Len(start) + Cardinality(BytesNoted(trace))
      BY <2>5 DEF MetricsInv
    <3>2. metrics'.stateBytes = metrics.stateBytes + Len(state')
      BY <2>1 DEF Counted
    <3>3. QED
      BY <1>3, <2>2, <2>3, <3>1, <3>2
  <2>6. ASSUME runs > 0
        PROVE  /\ metrics'.statePeak \in LengthsNoted'
               /\ \A n \in LengthsNoted' : metrics'.statePeak >= n
    <3>1. metrics.statePeak \in LengthsNoted /\ \A n \in LengthsNoted : metrics.statePeak >= n
      BY <2>6 DEF MetricsInv
    <3>2. metrics'.statePeak = IF Len(state') > metrics.statePeak
                               THEN Len(state') ELSE metrics.statePeak
      BY <2>1 DEF Counted
    <3>3. LengthsNoted \subseteq Nat
      BY LengthsType
    <3>4. metrics.statePeak \in Nat
      BY <1>3 DEF Metrics
    <3>5. QED
      BY <1>3, <2>2, <3>1, <3>2, <3>3, <3>4
  <2>7. QED
    BY <1>1, <2>2, <2>4, <2>5, <2>6 DEF MetricsInv
<1>5. CASE outcome # "applied"
  <2>1. metrics' = metrics
    BY <1>5 DEF Noted, Refused
  <2>2. /\ Applied(trace)' = Applied(trace) /\ BytesNoted(trace)' = BytesNoted(trace)
        /\ LengthsNoted' = LengthsNoted
    BY <1>2, <1>5, TraceNoted
  <2>3. QED
    BY <1>1, <2>1, <2>2 DEF MetricsInv
<1>6. QED
  BY <1>4, <1>5

\* Run resets the counters with the trace and notes the state it starts from.
LEMMA MetricsRun ==
    ASSUME TypeOK, Run
    PROVE  MetricsInv'
<1>1. trace' = <<>> /\ metrics' = FreshMetrics(state) /\ start' = state /\ pc' = "probe"
  BY DEF Run
<1>2. /\ Cardinality(Applied(trace)') = 0
      /\ IsFiniteSet(BytesNoted(trace)') /\ Cardinality(BytesNoted(trace)') = 0
      /\ LengthsNoted' = {Len(start')}
  <2>1. Applied(trace)' = {}
    BY <1>1 DEF Applied
  <2>2. BytesNoted(trace)' = {} /\ LengthsNoted' = {Len(start')}
    BY <2>1 DEF BytesNoted, LengthsNoted
  <2>3. QED
    BY <2>1, <2>2, FS_EmptySet
<1>3. Len(state) \in Nat
  BY DEF TypeOK, Word
<1>4. QED
  BY <1>1, <1>2, <1>3 DEF MetricsInv, FreshMetrics

\* The counters a run reports are those of its trace.
THEOREM CountersMatchTrace == Spec => []MetricsMatchTrace
<1>1. Init => MetricsInv
  <2> SUFFICES ASSUME Init PROVE MetricsInv
    OBVIOUS
  <2>1. trace = <<>> /\ metrics = FreshMetrics(<<>>) /\ runs = 0 /\ pc = "idle"
    BY DEF Init
  <2>2. /\ metrics.appliedSteps = 0 /\ metrics.regexMatches = 0 /\ metrics.regexEvals = 0
    BY <2>1 DEF FreshMetrics
  <2>3. QED
    BY <2>1, <2>2, NothingNoted DEF MetricsInv
<1>2. TypeOK /\ TypeOK' /\ MetricsInv /\ [Next]_vars => MetricsInv'
  <2> SUFFICES ASSUME TypeOK, TypeOK', MetricsInv, [Next]_vars
               PROVE  MetricsInv'
    OBVIOUS
  <2>1. CASE Run
    BY <2>1, MetricsRun
  <2>2. CASE Loop
    BY <2>2, RecordStep, MetricsSilent, MetricsNoted
  <2>3. CASE UNCHANGED vars
    BY <2>3 DEF vars, loopVars, recordVars, hostVars, MetricsInv, Applied, BytesNoted, LengthsNoted
  <2>4. QED
    BY <2>1, <2>2, <2>3 DEF Next
<1>3. TypeOK /\ MetricsInv => MetricsMatchTrace
  <2> SUFFICES ASSUME TypeOK, MetricsInv PROVE MetricsMatchTrace
    OBVIOUS
  <2>1. LengthsNoted \subseteq Nat
    BY LengthsType
  <2>2. runs > 0 => metrics.statePeak = Max(LengthsNoted)
    BY <2>1, MaxIs DEF MetricsInv
  <2>3. QED
    BY <2>2 DEF MetricsInv, MetricsMatchTrace
<1>4. QED
  BY <1>1, <1>2, <1>3, TypeCorrect, PTL DEF Spec

-----------------------------------------------------------------------------
\* The coverage and the bindings are those of the log.

\* The events of a rule that its coverage counts.
Covering(i) ==
    { k \in DOMAIN log :
        /\ log[k].rule = i /\ log[k].outcome # "error"
        /\ rules[i].op = "Write" => log[k].repl = <<>> }

\* What one event adds to the sets that coverage and bindings are compared with.
LEMMA SetsNoted ==
    ASSUME TypeOK, TypeOK', NEW outcome \in Outcomes, NEW repl \in Word, Noted(outcome, repl)
    PROVE  LET last == Len(log) + 1
               got == outcome # "error"
               counts == got /\ (rules[ri].op = "Write" => repl = <<>>)
           IN  /\ Len(log) \in Nat
               /\ log'[last].repl = repl
               /\ \A k \in 1 .. Len(log) : log'[k] = log[k]
               /\ \A i \in DOMAIN rules :
                     /\ Covering(i) \subseteq 1 .. Len(log)
                     /\ Covering(i)' =
                           IF i = ri /\ counts THEN Covering(i) \cup {last} ELSE Covering(i)
               /\ \A op \in Operators, n \in Resource :
                     /\ Touches(op, n) \subseteq 1 .. Len(log)
                     /\ Touches(op, n)' =
                           IF /\ rules[ri].op = op /\ rules[ri].res = n /\ got
                              /\ op = "Write" => repl = <<>>
                           THEN Touches(op, n) \cup {last} ELSE Touches(op, n)
<1> DEFINE e == Event(outcome, repl, state')
           last == Len(log) + 1
<1>1. /\ e \in TraceEvent /\ log \in Seq(TraceEvent) /\ log' = Append(log, e)
  BY LogNoted
<1>2. e.repl = repl /\ e.outcome = outcome /\ e.rule = ri /\ rules' = rules
  BY DEF Event, Noted
<1> HIDE DEF e
<1>3. /\ log'[last] = e /\ Len(log) \in Nat
      /\ \A k \in 1 .. Len(log) : log'[k] = log[k]
      /\ DOMAIN log = 1 .. Len(log) /\ DOMAIN log' = 1 .. last
  BY <1>1, AppendProperties
<1>4. DOMAIN log' = DOMAIN log \cup {last} /\ last \notin DOMAIN log
  BY <1>3
<1>5. \A i \in DOMAIN rules :
         /\ Covering(i) \subseteq 1 .. Len(log)
         /\ Covering(i)' = IF /\ i = ri /\ outcome # "error"
                              /\ rules[ri].op = "Write" => repl = <<>>
                           THEN Covering(i) \cup {last} ELSE Covering(i)
  <2> SUFFICES ASSUME NEW i \in DOMAIN rules
               PROVE  /\ Covering(i) \subseteq 1 .. Len(log)
                      /\ Covering(i)' = IF /\ i = ri /\ outcome # "error"
                                           /\ rules[ri].op = "Write" => repl = <<>>
                                        THEN Covering(i) \cup {last} ELSE Covering(i)
    OBVIOUS
  <2> HIDE DEF last
  <2>1. Covering(i) \subseteq 1 .. Len(log)
    BY <1>3 DEF Covering
  <2>2. \A k \in DOMAIN log : k \in Covering(i)' <=> k \in Covering(i)
    BY <1>2, <1>3, <1>4 DEF Covering
  <2>3. last \in Covering(i)' <=> /\ i = ri /\ outcome # "error"
                                  /\ rules[ri].op = "Write" => repl = <<>>
    BY <1>2, <1>3, <1>4 DEF Covering
  <2>4. Covering(i)' \subseteq DOMAIN log \cup {last} /\ Covering(i) \subseteq DOMAIN log
    BY <1>4 DEF Covering
  <2>5. ASSUME last \in Covering(i)' PROVE Covering(i)' = Covering(i) \cup {last}
    BY <1>4, <2>2, <2>4, <2>5
  <2>6. ASSUME last \notin Covering(i)' PROVE Covering(i)' = Covering(i)
    BY <1>4, <2>2, <2>4, <2>6
  <2>7. QED
    BY <2>1, <2>3, <2>5, <2>6
<1>6. \A op \in Operators, n \in Resource :
         /\ Touches(op, n) \subseteq 1 .. Len(log)
         /\ Touches(op, n)' = IF /\ rules[ri].op = op /\ rules[ri].res = n /\ outcome # "error"
                                 /\ op = "Write" => repl = <<>>
                              THEN Touches(op, n) \cup {last} ELSE Touches(op, n)
  <2> SUFFICES ASSUME NEW op \in Operators, NEW n \in Resource
               PROVE  /\ Touches(op, n) \subseteq 1 .. Len(log)
                      /\ Touches(op, n)' =
                            IF /\ rules[ri].op = op /\ rules[ri].res = n /\ outcome # "error"
                               /\ op = "Write" => repl = <<>>
                            THEN Touches(op, n) \cup {last} ELSE Touches(op, n)
    OBVIOUS
  <2> HIDE DEF last
  <2>1. Touches(op, n) \subseteq 1 .. Len(log)
    BY <1>3 DEF Touches
  <2>2. \A k \in DOMAIN log : k \in Touches(op, n)' <=> k \in Touches(op, n)
    BY <1>2, <1>3, <1>4 DEF Touches
  <2>3. last \in Touches(op, n)' <=> /\ rules[ri].op = op /\ rules[ri].res = n
                                     /\ outcome # "error"
                                     /\ op = "Write" => repl = <<>>
    BY <1>2, <1>3, <1>4 DEF Touches
  <2>4. Touches(op, n)' \subseteq DOMAIN log \cup {last} /\ Touches(op, n) \subseteq DOMAIN log
    BY <1>4 DEF Touches
  <2>5. ASSUME last \in Touches(op, n)' PROVE Touches(op, n)' = Touches(op, n) \cup {last}
    BY <1>4, <2>2, <2>4, <2>5
  <2>6. ASSUME last \notin Touches(op, n)' PROVE Touches(op, n)' = Touches(op, n)
    BY <1>4, <2>2, <2>4, <2>6
  <2>7. QED
    BY <2>1, <2>3, <2>5, <2>6
<1>7. QED
  BY <1>2, <1>3, <1>5, <1>6

\* Nothing is counted that the log has not.
LEMMA SetsSame ==
    ASSUME log' = log, rules' = rules
    PROVE  /\ \A i : Covering(i)' = Covering(i)
           /\ \A op, n : Touches(op, n)' = Touches(op, n)
BY DEF Covering, Touches

\* An event moves the coverage of its rule when it counts.
LEMMA CoverageNoted ==
    ASSUME TypeOK, TypeOK', CoverageMatchesTrace,
           NEW outcome \in Outcomes, NEW repl \in Word, Noted(outcome, repl)
    PROVE  CoverageMatchesTrace'
<1> DEFINE counts == outcome # "error" /\ (rules[ri].op = "Write" => repl = <<>>)
<1>1. /\ rules' = rules /\ ri \in DOMAIN rules /\ coverage \in [DOMAIN rules -> Nat]
      /\ coverage' = IF counts THEN [coverage EXCEPT ![ri] = @ + 1] ELSE coverage
  BY DEF Noted, Books, TypeOK
<1>2. Len(log) \in Nat /\ \A i \in DOMAIN rules :
         /\ Covering(i) \subseteq 1 .. Len(log)
         /\ Covering(i)' = IF i = ri /\ counts THEN Covering(i) \cup {Len(log) + 1}
                           ELSE Covering(i)
  BY SetsNoted
<1> HIDE DEF counts
<1>3. ASSUME NEW i \in DOMAIN rules PROVE coverage'[i] = Cardinality(Covering(i)')
  <2>1. coverage[i] = Cardinality(Covering(i))
    BY DEF CoverageMatchesTrace, Covering
  <2>2. CASE i = ri /\ counts
    BY <1>1, <1>2, <2>1, <2>2, OneMore
  <2>3. CASE ~(i = ri /\ counts)
    BY <1>1, <1>2, <2>1, <2>3
  <2>4. QED
    BY <2>2, <2>3
<1>4. QED
  BY <1>1, <1>3 DEF CoverageMatchesTrace, Covering

\* Each rule is covered as often as the log has it past its operator.
THEOREM CoverageIsTrace == Spec => []CoverageMatchesTrace
<1>1. Init => CoverageMatchesTrace
  <2> SUFFICES ASSUME Init PROVE CoverageMatchesTrace
    OBVIOUS
  <2>1. log = <<>> /\ \A i \in DOMAIN rules : coverage[i] = 0
    BY DEF Init, log
  <2>2. \A i : Covering(i) = {}
    BY <2>1 DEF Covering
  <2>3. QED
    BY <2>1, <2>2, FS_EmptySet DEF CoverageMatchesTrace, Covering
<1>2. TypeOK /\ TypeOK' /\ CoverageMatchesTrace /\ [Next]_vars => CoverageMatchesTrace'
  <2> SUFFICES ASSUME TypeOK, TypeOK', CoverageMatchesTrace, [Next]_vars
               PROVE  CoverageMatchesTrace'
    OBVIOUS
  <2>1. ASSUME log' = log, rules' = rules, coverage' = coverage PROVE CoverageMatchesTrace'
    BY <2>1 DEF CoverageMatchesTrace
  <2>2. CASE Run
    BY <2>1, <2>2, LogRun DEF Run
  <2>3. CASE Loop
    BY <2>1, <2>3, RecordStep, LogSilent, CoverageNoted DEF Silent
  <2>4. CASE UNCHANGED vars
    BY <2>1, <2>4, LogSilent DEF vars, recordVars, hostVars
  <2>5. QED
    BY <2>2, <2>3, <2>4 DEF Next
<1>3. QED
  BY <1>1, <1>2, TypeCorrect, PTL DEF Spec

\* A read event holds the next line of its binding.
LEMMA ReadsNoted ==
    ASSUME TypeOK, TypeOK', LinesServedOnce, NEW n \in Readable,
           NEW outcome \in Outcomes, NEW repl \in Word, Noted(outcome, repl)
    PROVE  LET reads == Touches("Read", n)'
           IN  /\ next'[n] = Cardinality(reads)
               /\ \A k \in reads : log'[k].repl =
                     PctEncode[Script[n][Cardinality({ j \in reads : j <= k })]]
<1> DEFINE before == Touches("Read", n)
           reads == Touches("Read", n)'
           last == Len(log) + 1
           served == rules[ri].op = "Read" /\ rules[ri].res = n /\ outcome # "error"
<1>1. /\ next[n] = Cardinality(before)
      /\ \A k \in before :
            log[k].repl = PctEncode[Script[n][Cardinality({ j \in before : j <= k })]]
  BY DEF LinesServedOnce
<1>2. n \in Resource /\ "Read" \in Operators
  BY ProgramAssumption DEF Operators
<1>3. /\ Len(log) \in Nat /\ log'[last].repl = repl
      /\ \A k \in 1 .. Len(log) : log'[k] = log[k]
      /\ before \subseteq 1 .. Len(log)
      /\ reads = IF served THEN before \cup {last} ELSE before
  BY <1>2, SetsNoted
<1>4. /\ served => repl = PctEncode[Script[n][next[n] + 1]] /\ next'[n] = next[n] + 1
      /\ ~served => next'[n] = next[n]
  BY DEF Noted, Books, TypeOK
<1> HIDE DEF before, reads, served
<1>5. Cardinality(before) \in Nat /\ Cardinality(before \cup {last}) = Cardinality(before) + 1
  BY <1>3, OneMore
<1>6. next'[n] = Cardinality(reads)
  BY <1>1, <1>3, <1>4, <1>5
<1>7. ASSUME NEW k \in reads
      PROVE  log'[k].repl = PctEncode[Script[n][Cardinality({ j \in reads : j <= k })]]
  <2>1. CASE k \in before
    <3>1. { j \in reads : j <= k } = { j \in before : j <= k }
      BY <1>3, <2>1
    <3>2. log'[k] = log[k]
      BY <1>3, <2>1
    <3>3. QED
      BY <1>1, <2>1, <3>1, <3>2
  <2>2. CASE k \notin before
    <3>1. k = last /\ served
      BY <1>3, <1>7, <2>2
    <3>2. { j \in reads : j <= k } = reads
      <4>1. \A j \in reads : j \in 1 .. last
        <5>1. Len(log) \in Nat
          BY <1>3
        <5>2. \A j \in reads : j \in 1 .. Len(log) \/ j = last
          BY <1>3
        <5>3. QED
          BY <5>1, <5>2
      <4>2. \A j \in reads : j <= k
        BY <1>3, <3>1, <4>1
      <4>3. QED
        BY <4>2
    <3>3. Cardinality(reads) = next[n] + 1
      BY <1>4, <1>6, <3>1
    <3>4. QED
      BY <1>3, <1>4, <3>1, <3>2, <3>3
  <2>3. QED
    BY <2>1, <2>2
<1>8. QED
  BY <1>6, <1>7 DEF reads

\* A write event counts when the binding took the text.
LEMMA WritesNoted ==
    ASSUME TypeOK, TypeOK', LinesServedOnce, NEW n \in Writable,
           NEW outcome \in Outcomes, NEW repl \in Word, Noted(outcome, repl)
    PROVE  written'[n] = Cardinality(Touches("Write", n)')
<1> DEFINE before == Touches("Write", n)
           took == /\ rules[ri].op = "Write" /\ rules[ri].res = n /\ outcome # "error"
                   /\ repl = <<>>
<1>1. written[n] = Cardinality(before)
  BY DEF LinesServedOnce
<1>2. n \in Resource /\ "Write" \in Operators
  BY ProgramAssumption DEF Operators
<1>3. /\ Len(log) \in Nat /\ before \subseteq 1 .. Len(log)
      /\ Touches("Write", n)' = IF took THEN before \cup {Len(log) + 1} ELSE before
  BY <1>2, SetsNoted
<1>4. (took => written'[n] = written[n] + 1) /\ (~took => written'[n] = written[n])
  BY DEF Noted, Books, TypeOK
<1> HIDE DEF before, took
<1>5. Cardinality(before \cup {Len(log) + 1}) = Cardinality(before) + 1
  BY <1>3, OneMore
<1>6. QED
  BY <1>1, <1>3, <1>4, <1>5

\* Each line is served once and in order, and each write that was taken is in the log.
THEOREM LinesAreServedOnce == Spec => []LinesServedOnce
<1>1. Init => LinesServedOnce
  <2> SUFFICES ASSUME Init PROVE LinesServedOnce
    OBVIOUS
  <2>1. /\ log = <<>> /\ \A n \in Readable : next[n] = 0
        /\ \A n \in Writable : written[n] = 0
    BY DEF Init, log
  <2>2. \A op, n : Touches(op, n) = {}
    BY <2>1 DEF Touches
  <2>3. QED
    BY <2>1, <2>2, FS_EmptySet DEF LinesServedOnce
<1>2. TypeOK /\ TypeOK' /\ LinesServedOnce /\ [Next]_vars => LinesServedOnce'
  <2> SUFFICES ASSUME TypeOK, TypeOK', LinesServedOnce, [Next]_vars
               PROVE  LinesServedOnce'
    OBVIOUS
  <2>1. ASSUME log' = log, rules' = rules, next' = next, written' = written
        PROVE  LinesServedOnce'
    BY <2>1, SetsSame DEF LinesServedOnce
  <2>2. CASE Run
    BY <2>1, <2>2, LogRun DEF Run, bindingVars
  <2>3. CASE Loop
    <3>1. CASE Silent
      BY <2>1, <3>1, LogSilent DEF Silent
    <3>2. ASSUME NEW outcome \in Outcomes, NEW repl \in Word, Noted(outcome, repl)
          PROVE  LinesServedOnce'
      BY <3>2, ReadsNoted, WritesNoted DEF LinesServedOnce
    <3>3. QED
      BY <2>3, <3>1, <3>2, RecordStep
  <2>4. CASE UNCHANGED vars
    BY <2>1, <2>4, LogSilent DEF vars, recordVars, hostVars, bindingVars
  <2>5. QED
    BY <2>2, <2>3, <2>4 DEF Next
<1>3. QED
  BY <1>1, <1>2, TypeCorrect, PTL DEF Spec
=============================================================================
