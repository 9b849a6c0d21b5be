----------------------------- MODULE Interpreter -----------------------------
(***************************************************************************)
(* The run loop of python/thuelang/interpreter.py: ThueInterpreter.run and *)
(* what it calls, with trace and rule coverage switched on.  Run in        *)
(* go/thuelang/interpreter.go has the same steps in the same order.  The   *)
(* attributes are the variables; one call of run is the action Run         *)
(* followed by one step per rule probe, per "::|" step and per applied     *)
(* rule, and run may be called again on the same interpreter, as an        *)
(* embedding host does to continue after a limit.  The program text is     *)
(* already loaded: rules and state are chosen initially.  An error that    *)
(* leaves run by an exception is a result with the code the command line   *)
(* makes of it: 1, or the code of LimitExceeded.                           *)
(*                                                                         *)
(* pc is where the loop stands: "idle" before the first call, "probe"      *)
(* before rule ri of the current scan, "mid" inside _apply_mids or about to  *)
(* apply rule ri, "done" after run returned.                               *)
(***************************************************************************)
EXTENDS Program, FiniteSets, FiniteSetsExt

CONSTANTS
    Unlimited,    \* a limit that is cleared
    LimitChoices, \* the limits a host may set before a run
    MaxRuns       \* bound: how often the host calls Run

Limit == Nat \cup {Unlimited}

ASSUME InterpreterAssumption ==
    /\ Unlimited \notin Nat
    /\ LimitChoices \subseteq [steps : Limit, evals : Limit, bytes : Limit]
    /\ MaxRuns \in Nat

VARIABLES
    rules,     \* self.rules
    state,     \* self.state
    limits,    \* max_steps, max_evals, max_state_bytes
    evalCount, \* eval_count
    metrics,   \* applied_steps, cost and the four other counters run resets
    trace,     \* self.trace
    coverage,  \* rule_coverage_counts, by rule index
    next,      \* line_at, the lines each binding has served
    written,   \* recorded, the writes each binding has taken
    pc, ri,    \* where the loop stands
    match,     \* the span of the LHS match
    groups,    \* the captures
    result,    \* the exit code and limit kind run ended with
    runs,      \* the calls of Run so far
    start,     \* history: the state when Run was called
    past       \* history: the traces of the earlier runs

loopVars == <<pc, ri, match, groups, result>>
recordVars == <<evalCount, metrics, trace, coverage>>
bindingVars == <<next, written>>
hostVars == <<rules, limits, runs, start, past>>
vars == <<state, loopVars, recordVars, bindingVars, hostVars>>

-----------------------------------------------------------------------------
Reached(n, limit) == limit # Unlimited /\ n >= limit

NoMatch == [at |-> 1, to |-> 0]

NoResult == [code |-> 0, limit |-> "none"]

\* Mutant: Run resets the counters but does not note the initial state.
FreshMetrics_NotNoted(s) ==
    [appliedSteps |-> 0, cost |-> 0, regexEvals |-> 0, regexMatches |-> 0,
     stateBytes |-> 0, statePeak |-> 0]

\* The counters as Run leaves them before the first rule: reset, and the
\* initial state noted.
FreshMetrics(s) ==
    [appliedSteps |-> 0, cost |-> 0, regexEvals |-> 0, regexMatches |-> 0,
     stateBytes |-> Len(s), statePeak |-> Len(s)]

chargeEval(m, matched) ==
    [m EXCEPT !.regexEvals = @ + 1,
              !.cost = @ + Len(state) + rules[ri].lhsLen,
              !.regexMatches = @ + (IF matched THEN 1 ELSE 0)]

chargeStep(m) == [m EXCEPT !.appliedSteps = @ + 1, !.cost = @ + rules[ri].rhsLen]

noteState(m, s) ==
    [m EXCEPT !.stateBytes = @ + Len(s),
              !.statePeak = IF Len(s) > @ THEN Len(s) ELSE @]

\* The outcome is "applied", "error", "rejected" (by the state limit) or "exit".
Event(outcome, repl, after) ==
    [step |-> evalCount, rule |-> ri, outcome |-> outcome,
     before |-> state, repl |-> repl, after |-> after]

recordTrace(outcome, repl, after) == trace' = Append(trace, Event(outcome, repl, after))

recordRuleCoverage == coverage' = [coverage EXCEPT ![ri] = @ + 1]

Return(code, kind) ==
    /\ pc' = "done"
    /\ result' = [code |-> code, limit |-> kind]
    /\ UNCHANGED <<ri, match, groups>>

ToRule(i) ==
    /\ pc' = "probe" /\ ri' = i
    /\ match' = NoMatch /\ groups' = <<>>
    /\ UNCHANGED result

-----------------------------------------------------------------------------
Init ==
    /\ rules \in Programs
    /\ state \in InitialStates
    /\ limits \in LimitChoices
    /\ evalCount = 0
    /\ metrics = FreshMetrics(<<>>)
    /\ trace = <<>>
    /\ coverage = [i \in DOMAIN rules |-> 0]
    /\ next = [n \in Readable |-> 0]
    /\ written = [n \in Writable |-> 0]
    /\ pc = "idle" /\ ri = 1 /\ match = NoMatch /\ groups = <<>>
    /\ result = NoResult
    /\ runs = 0
    /\ start = state
    /\ past = <<>>

\* The host sets limits and calls run.  eval_count is not reset.
Run ==
    /\ pc \in {"idle", "done"}
    /\ runs < MaxRuns
    /\ limits' \in LimitChoices
    /\ runs' = runs + 1
    /\ start' = state
    /\ past' = past \o trace
    /\ trace' = <<>>
    /\ metrics' = FreshMetrics(state)
    /\ pc' = "probe" /\ ri' = 1 /\ match' = NoMatch /\ groups' = <<>>
    /\ result' = NoResult
    /\ UNCHANGED <<rules, state, evalCount, coverage, bindingVars>>

\* A scan over all rules applied none of them.
Quiesce ==
    /\ pc = "probe" /\ ri > Len(rules)
    /\ Return(0, "none")
    /\ UNCHANGED <<state, recordVars, bindingVars, hostVars>>

EvalLimit ==
    /\ pc = "probe" /\ ri <= Len(rules)
    /\ Reached(evalCount, limits.evals)
    /\ Return(11, "evals")
    /\ UNCHANGED <<state, recordVars, bindingVars, hostVars>>

-----------------------------------------------------------------------------
\* One probe: the literal prefix first, then the search.

BeginProbe ==
    /\ pc = "probe" /\ ri <= Len(rules)
    /\ ~Reached(evalCount, limits.evals)
    /\ evalCount' = evalCount + 1
    /\ UNCHANGED <<state, trace, coverage, bindingVars, hostVars>>

\* Mutant: the literal prefix is looked for at the start of the state only.
PrefixMiss_AtStart ==
    /\ BeginProbe
    /\ \A n \in 0 .. Len(state) : SubSeq(state, 1, n) # rules[ri].literalPrefix
    /\ ToRule(ri + 1)
    /\ UNCHANGED metrics

PrefixMiss ==
    /\ BeginProbe
    /\ ~Occurs(rules[ri].literalPrefix, state)
    /\ ToRule(ri + 1)
    /\ UNCHANGED metrics

SearchMiss ==
    /\ BeginProbe
    /\ Occurs(rules[ri].literalPrefix, state)
    /\ FirstMatch(rules[ri].lhs, <<>>, state) = {}
    /\ metrics' = chargeEval(metrics, FALSE)
    /\ ToRule(ri + 1)

SearchHit ==
    /\ BeginProbe
    /\ Occurs(rules[ri].literalPrefix, state)
    /\ \E m \in FirstMatch(rules[ri].lhs, <<>>, state) :
          match' = m /\ groups' = <<Covered(state, m)>>
    /\ metrics' = chargeEval(metrics, TRUE)
    /\ pc' = "mid"
    /\ UNCHANGED <<ri, result>>

-----------------------------------------------------------------------------
\* One "::|" step of _apply_mids.

Mid == rules[ri].mids[Len(groups)]

BeginMid ==
    /\ pc = "mid" /\ Len(groups) <= Len(rules[ri].mids)
    /\ UNCHANGED <<state, evalCount, coverage, bindingVars, hostVars>>

\* Mutant: a step that fails is taken for a miss.
MidError_NextRule ==
    /\ BeginMid
    /\ \E k \in DOMAIN Mid : StepFails(Mid[k], groups)
    /\ ToRule(ri + 1)
    /\ UNCHANGED <<trace, metrics>>

MidError ==
    /\ BeginMid
    /\ \E k \in DOMAIN Mid : StepFails(Mid[k], groups)
    /\ recordTrace("error", <<>>, state)
    /\ Return(1, "none")
    /\ UNCHANGED metrics

MidMiss ==
    /\ BeginMid
    /\ \A k \in DOMAIN Mid : ~StepFails(Mid[k], groups)
    /\ FirstMatch(Mid, groups, state) = {}
    /\ metrics' = chargeEval(metrics, FALSE)
    /\ ToRule(ri + 1)
    /\ UNCHANGED trace

MidHit ==
    /\ BeginMid
    /\ \A k \in DOMAIN Mid : ~StepFails(Mid[k], groups)
    /\ \E m \in FirstMatch(Mid, groups, state) :
          groups' = Append(groups, Covered(state, m))
    /\ metrics' = chargeEval(metrics, TRUE)
    /\ UNCHANGED <<trace, pc, ri, match, result>>

-----------------------------------------------------------------------------
\* Rule ri applies: LHS and every "::|" step matched.

Matched(op) ==
    /\ pc = "mid" /\ Len(groups) > Len(rules[ri].mids)
    /\ rules[ri].op = op

\* Mutant: the step limit is only looked at after a rewrite.
Budget_AfterOnly == TRUE

Budget == ~Reached(metrics.appliedSteps, limits.steps)

\* Mutant: the step limit stops substitutions only.
StepLimit_SubstituteOnly ==
    /\ Matched("Substitute")
    /\ ~Budget
    /\ Return(10, "steps")
    /\ UNCHANGED <<state, recordVars, bindingVars, hostVars>>

StepLimit ==
    /\ \E op \in Operators \ {"Exit"} : Matched(op)
    /\ ~Budget
    /\ Return(10, "steps")
    /\ UNCHANGED <<state, recordVars, bindingVars, hostVars>>

\* The operator failed before there was a replacement.
Fail(code, kind) ==
    /\ recordTrace("error", <<>>, state)
    /\ Return(code, kind)
    /\ UNCHANGED <<state, evalCount, metrics, coverage, bindingVars, hostVars>>

\* Mutant: the scan goes on with the next rule instead of restarting.
setState_NoRestart(repl) ==
    LET candidate == Splice(state, match, repl)
    IN  /\ state' = candidate
        /\ recordTrace("applied", repl, candidate)
        /\ metrics' = chargeStep(noteState(metrics, candidate))
        /\ IF Reached(metrics.appliedSteps + 1, limits.steps) THEN Return(10, "steps")
           ELSE ToRule(ri + 1)
        /\ UNCHANGED <<evalCount, hostVars>>

\* Mutant: the oversized candidate is installed before the limit is reported.
setState_InstallsOversize(repl) ==
    LET candidate == Splice(state, match, repl)
        over == limits.bytes # Unlimited /\ Len(candidate) > limits.bytes
    IN  /\ state' = candidate
        /\ recordTrace(IF over THEN "rejected" ELSE "applied", repl,
                       IF over THEN state ELSE candidate)
        /\ metrics' = IF over THEN metrics ELSE chargeStep(noteState(metrics, candidate))
        /\ IF over THEN Return(12, "state")
           ELSE IF Reached(metrics.appliedSteps + 1, limits.steps) THEN Return(10, "steps")
           ELSE ToRule(1)
        /\ UNCHANGED <<evalCount, hostVars>>

\* _set_state and what follows it, to the end of the loop body.
setState(repl) ==
    LET candidate == Splice(state, match, repl)
        over == limits.bytes # Unlimited /\ Len(candidate) > limits.bytes
        after == IF over THEN state ELSE candidate
    IN  /\ state' = after
        /\ recordTrace(IF over THEN "rejected" ELSE "applied", repl, after)
        /\ metrics' = IF over THEN metrics ELSE chargeStep(noteState(metrics, after))
        /\ IF over THEN Return(12, "state")
           ELSE IF Reached(metrics.appliedSteps + 1, limits.steps) THEN Return(10, "steps")
           ELSE ToRule(1)
        /\ UNCHANGED <<evalCount, hostVars>>

Substitute ==
    /\ Matched("Substitute") /\ Budget
    /\ \/ /\ RenderFails(rules[ri].rhs, groups)
          /\ Fail(1, "none")
       \/ /\ ~RenderFails(rules[ri].rhs, groups)
          /\ recordRuleCoverage
          /\ setState(Render(rules[ri].rhs, groups))
          /\ UNCHANGED bindingVars

ReadFails ==
    /\ Matched("Read") /\ Budget
    /\ \/ ~rules[ri].specOK
       \/ rules[ri].res \notin Bindings
       \/ Dry(rules[ri].res, next)
       \/ rules[ri].res \in Flaky
    /\ Fail(1, "none")

\* Mutant: the line that misses the deadline is dropped.
ReadTimeout_DropsLine ==
    /\ Matched("Read") /\ Budget
    /\ rules[ri].specOK /\ rules[ri].res \in Flaky
    /\ ~Dry(rules[ri].res, next)
    /\ next' = [next EXCEPT ![rules[ri].res] = @ + 1]
    /\ recordTrace("error", <<>>, state)
    /\ Return(13, "timeout")
    /\ UNCHANGED <<state, evalCount, metrics, coverage, written, hostVars>>

ReadTimeout ==
    /\ Matched("Read") /\ Budget
    /\ rules[ri].specOK /\ rules[ri].res \in Flaky
    /\ Fail(13, "timeout")

\* Mutant: the line goes into the state without its encoding.
ReadLine_Raw ==
    /\ Matched("Read") /\ Budget
    /\ rules[ri].specOK /\ rules[ri].res \in Bindings
    /\ ~Dry(rules[ri].res, next)
    /\ LET n == rules[ri].res
       IN  /\ next' = [next EXCEPT ![n] = @ + 1]
           /\ recordRuleCoverage
           /\ setState(Script[n][next[n] + 1])
    /\ UNCHANGED written

ReadLine ==
    /\ Matched("Read") /\ Budget
    /\ rules[ri].specOK /\ rules[ri].res \in Bindings
    /\ ~Dry(rules[ri].res, next)
    /\ LET n == rules[ri].res
       IN  /\ next' = [next EXCEPT ![n] = @ + 1]
           /\ recordRuleCoverage
           /\ setState(PctEncode[Script[n][next[n] + 1]])
    /\ UNCHANGED written

\* Mutant: a failed write counts as coverage.
Write_CountsFailure ==
    /\ Matched("Write") /\ Budget
    /\ ~RenderFails(rules[ri].rhs, groups)
    /\ recordRuleCoverage
    /\ LET n == rules[ri].res
       IN  \/ /\ n \notin Writable \/ n \in Flaky
              /\ setState(ErrorMarker[n])
              /\ UNCHANGED bindingVars
           \/ /\ n \in Writable
              /\ written' = [written EXCEPT ![n] = @ + 1]
              /\ setState(<<>>)
              /\ UNCHANGED next

\* An unknown resource or a failed write is a replacement, not an error.
Write ==
    /\ Matched("Write") /\ Budget
    /\ LET n == rules[ri].res
       IN  \/ /\ RenderFails(rules[ri].rhs, groups)
              /\ Fail(1, "none")
           \/ /\ ~RenderFails(rules[ri].rhs, groups)
              /\ n \notin Writable \/ n \in Flaky
              /\ setState(ErrorMarker[n])
              /\ UNCHANGED <<coverage, bindingVars>>
           \/ /\ ~RenderFails(rules[ri].rhs, groups)
              /\ n \in Writable
              /\ written' = [written EXCEPT ![n] = @ + 1]
              /\ recordRuleCoverage
              /\ setState(<<>>)
              /\ UNCHANGED next

Builtin ==
    /\ Matched("Builtin") /\ Budget
    /\ LET t == rules[ri].rhs
           v == Capture(t, groups)
       IN  \/ /\ Missing(t, groups) \/ v \notin DOMAIN BuiltinTable
              /\ Fail(1, "none")
           \/ /\ ~Missing(t, groups) /\ v \in DOMAIN BuiltinTable
              /\ recordRuleCoverage
              /\ setState(BuiltinTable[v])
              /\ UNCHANGED bindingVars

Exit ==
    /\ Matched("Exit")
    /\ recordRuleCoverage
    /\ recordTrace("exit", <<>>, state)
    /\ Return(IF rules[ri].code = NotInteger THEN 1 ELSE rules[ri].code, "none")
    /\ UNCHANGED <<state, evalCount, metrics, bindingVars, hostVars>>

-----------------------------------------------------------------------------
Apply == Substitute \/ ReadFails \/ ReadTimeout \/ ReadLine \/ Write \/ Builtin \/ Exit

Loop ==
    \/ Quiesce \/ EvalLimit
    \/ PrefixMiss \/ SearchMiss \/ SearchHit
    \/ MidError \/ MidMiss \/ MidHit
    \/ StepLimit \/ Apply

Next == Run \/ Loop

Spec == Init /\ [][Next]_vars

\* The loop is one thread that nothing preempts for ever; the host need not
\* call Run again.
FairSpec == Spec /\ WF_vars(Loop)
-----------------------------------------------------------------------------
Outcomes == {"applied", "error", "rejected", "exit"}

TraceEvent == [step : Nat, rule : Nat, outcome : Outcomes,
               before : Word, repl : Word, after : Word]

Metrics == [appliedSteps : Nat, cost : Nat, regexEvals : Nat, regexMatches : Nat,
            stateBytes : Nat, statePeak : Nat]

\* The type invariant.
TypeOK ==
    /\ rules \in Programs
    /\ state \in Word
    /\ limits \in LimitChoices
    /\ evalCount \in Nat
    /\ metrics \in Metrics
    /\ trace \in Seq(TraceEvent) /\ past \in Seq(TraceEvent)
    /\ coverage \in [DOMAIN rules -> Nat]
    /\ next \in [Readable -> Nat]
    /\ written \in [Writable -> Nat]
    /\ pc \in {"idle", "probe", "mid", "done"}
    /\ ri \in 1 .. Len(rules) + 1
    /\ match \in [at : Nat \ {0}, to : Nat]
    /\ groups \in Seq(Word)
    /\ pc = "mid" => ri \in DOMAIN rules /\ match \in Span(state) /\ groups # <<>>
    /\ result.code \in Int /\ result.limit \in {"none", "steps", "evals", "state", "timeout"}
    /\ runs \in Nat
    /\ start \in Word

\* The loop applies a rule only when, in the very state it rewrites, that rule
\* matches with all its "::|" steps, and no earlier rule does or has a step that
\* fails.  The scan skips a rule on a literal prefix miss and leaves it half way
\* on a step's miss, and rescans from the top after every rewrite.
FirstRuleWins ==
    pc = "mid" =>
        /\ \A j \in 1 .. ri - 1 : Misses(rules[j], state)
        /\ Len(groups) > Len(rules[ri].mids) => groups \in CaptureLists(rules[ri], state)

\* Run answers 0 with no exit rule fired only when no rule applies to the
\* state it leaves, and none has a step that fails there.
QuiescentIsNormalForm ==
    (pc = "done" /\ ri > Len(rules)) =>
        /\ result = NoResult
        /\ \A j \in DOMAIN rules : Misses(rules[j], state)

\* The inductive form of the two invariants above: while a scan is under way
\* no rule before ri applies or fails, and what ri has captured is the only thing
\* it could have captured.
ScanInv ==
    /\ pc \in {"probe", "mid"} => \A j \in 1 .. ri - 1 : Misses(rules[j], state)
    /\ pc = "mid" =>
          /\ match \in FirstMatch(rules[ri].lhs, <<>>, state)
          /\ groups[1] = Covered(state, match)
          /\ Len(groups) <= Len(rules[ri].mids) + 1
          /\ CapturesTo(rules[ri], state, groups, Len(groups) - 1)
          /\ \A gs \in PartialLists(rules[ri], state) :
                \A k \in DOMAIN groups \cap DOMAIN gs : gs[k] = groups[k]
    /\ QuiescentIsNormalForm

log == past \o trace

\* The trace is the path the state took, over every run of the interpreter:
\* each event starts where the one before it ended, the last one ends in the
\* current state, only a last event of a run leaves the state alone, and the
\* probe numbers rise.
TraceIsPath ==
    /\ log # <<>> => log[Len(log)].after = state
    /\ \A k \in 1 .. Len(log) - 1 :
          /\ log[k].after = log[k + 1].before
          /\ log[k].step < log[k + 1].step
    /\ \A k \in DOMAIN log : log[k].outcome # "applied" => log[k].after = log[k].before
    /\ \A k \in 1 .. Len(trace) - 1 : trace[k].outcome = "applied"
    /\ trace # <<>> => trace[1].before = start

Applied(t) == { k \in DOMAIN t : t[k].outcome = "applied" }

\* The bytes of the states a run has written, by event and position.
BytesNoted(t) == UNION { {k} \X (1 .. Len(t[k].after)) : k \in Applied(t) }

\* The lengths of the states a run has noted, the initial one among them.
LengthsNoted == {Len(start)} \cup { Len(trace[k].after) : k \in Applied(trace) }

\* The counters a run reports are those of its trace: one applied step per
\* applied event, the state noted at the start and after each of them, and
\* no more matches than searches.
MetricsMatchTrace ==
    /\ metrics.appliedSteps = Cardinality(Applied(trace))
    /\ runs > 0 =>
          /\ metrics.stateBytes = Len(start) + Cardinality(BytesNoted(trace))
          /\ metrics.statePeak = Max(LengthsNoted)
    /\ Cardinality(Applied(trace)) <= metrics.regexMatches
    /\ metrics.regexMatches <= metrics.regexEvals

\* The events of rules with operator op on binding n that reached it.
Touches(op, n) ==
    { k \in DOMAIN log :
        /\ rules[log[k].rule].op = op /\ rules[log[k].rule].res = n
        /\ log[k].outcome # "error"
        /\ op = "Write" => log[k].repl = <<>> }

\* Every line a binding served reached the program once and in order: the
\* k-th read event that did not fail holds the k-th line, whether the state
\* limit let it into the state or not; and every write taken has its event.
LinesServedOnce ==
    /\ \A n \in Readable :
          LET reads == Touches("Read", n)
          IN  /\ next[n] = Cardinality(reads)
              /\ \A k \in reads :
                    log[k].repl = PctEncode[Script[n][Cardinality({j \in reads : j <= k})]]
    /\ \A n \in Writable : written[n] = Cardinality(Touches("Write", n))

\* The coverage count of a rule is the number of its events whose operator succeeded,
\* failed reads and writes left out.  That is what the code counts: a rewrite that the
\* state limit then refuses is among them, against README.md (CoverageCountsApplied).
CoverageMatchesTrace ==
    \A i \in DOMAIN rules :
        coverage[i] =
            Cardinality({ k \in DOMAIN log :
                /\ log[k].rule = i /\ log[k].outcome # "error"
                /\ rules[i].op = "Write" => log[k].repl = <<>> })

\* README.md, coverage: "A rule counts only after it applies."
CoverageCountsApplied ==
    \A i \in DOMAIN rules :
        coverage[i] <= Cardinality({ k \in DOMAIN log :
            log[k].rule = i /\ log[k].outcome \in {"applied", "exit"} })

\* What the limits promise the host: no run passes its step limit and a run
\* stopped by it has made exactly that many steps; a state a run has written
\* fits; a rejected replacement did not.
BudgetsHold ==
    /\ limits.steps # Unlimited => metrics.appliedSteps <= limits.steps
    /\ result.limit = "steps" => metrics.appliedSteps = limits.steps
    /\ limits.bytes # Unlimited =>
          /\ \A k \in Applied(trace) : Len(trace[k].after) <= limits.bytes
          /\ \A k \in DOMAIN trace : trace[k].outcome = "rejected" =>
                /\ result.limit = "state"
                /\ Len(state) + Len(trace[k].repl) > limits.bytes

\* Run returns when probes or steps are bounded, whatever the program.
RunReturns ==
    (pc = "probe" /\ (limits.evals # Unlimited \/ limits.steps # Unlimited)) ~> pc = "done"

\* The loop implements the rewriting system: every state change is one
\* rewrite by the first applicable rule, and calling Run again continues the
\* same derivation.
Abstract == INSTANCE Rewriting

ImplementsRewriting == Abstract!Spec
=============================================================================
