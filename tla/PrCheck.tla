-------------------------------- MODULE PrCheck --------------------------------
(***************************************************************************)
(* metrics/pr_check.py and accept.py: what a pull request is told.  The    *)
(* figures recorded in its base are compared with the runs of its head;    *)
(* the report warns, notes and fails, and one comment carries it.          *)
(*                                                                         *)
(* A key is a pair <<problem, ruleset>>.  A file is a tuple: <<"readme",   *)
(* problem, ruleset>> and <<"solution", problem, ruleset>> in a solution's *)
(* folder, <<"case", problem>> for a test or a case, <<"interpreter",      *)
(* ruleset>> for a source in langs/, <<"engine">> for the hosts and what   *)
(* measures them.  A message is <<"warning" | "failure" | "note", whom,    *)
(* why>>; whom is a key, <<ruleset>> or <<>>.                              *)
(***************************************************************************)
EXTENDS Integers, FiniteSets, FiniteSetsExt, Sequences

CONSTANTS
    Key,      \* the keys of base and head
    Figure,   \* the costs
    AnyHost   \* the hosts; "go" is the reference

ASSUME PrCheckAssumption ==
    /\ IsFiniteSet(Key) /\ \A key \in Key : key = <<key[1], key[2]>>
    /\ Figure \subseteq Nat
    /\ "go" \in AnyHost

Problems(keys) == { key[1] : key \in keys }
Rulesets(keys) == { key[2] : key \in keys }

\* classify_diff.  A solution whose README only differs is not changed.
changed_solutions(names) == { <<f[2], f[3]>> : f \in { g \in names : g[1] = "solution" } }

changed_interpreters(names) == { f[2] : f \in { g \in names : g[1] = "interpreter" } }

contract_changed(problem, names) == <<"case", problem>> \in names

-----------------------------------------------------------------------------
\* accept.py.

\* Mutant: the problems that some ruleset passes.
common_problems_Union(passing) == UNION { passing[r] : r \in DOMAIN passing }

\* The problems that every ruleset with a passing solution passes.
common_problems(passing) ==
    LET compared == { r \in DOMAIN passing : passing[r] # {} } IN
    { p \in UNION { passing[r] : r \in compared } : \A r \in compared : p \in passing[r] }

\* Costs: a function from keys.
ProblemsPassed(costs) ==
    [r \in Rulesets(DOMAIN costs) |-> { p \in Problems(DOMAIN costs) : <<p, r>> \in DOMAIN costs }]

aggregate_sum(costs, ruleset, scope) == MapThenSumSet(LAMBDA p : costs[<<p, ruleset>>], scope)

solution_change(old, new) == ~(new < old)

interpreter_change(old, new) == new > old

-----------------------------------------------------------------------------
\* runs[h][key] is [pass, cost].  go_results.
go_results(runs) == runs["go"]

\* Mutant: the hosts are compared by whether they pass.
parity_failure_PassOnly(runs) ==
    \E h \in DOMAIN runs : \E key \in DOMAIN runs[h] :
        ~runs["go"][key].pass \/ ~runs[h][key].pass

\* _require_parity.
parity_failure(runs) ==
    \E h \in DOMAIN runs : \E key \in DOMAIN runs[h] :
        ~runs["go"][key].pass \/ runs[h][key] # runs["go"][key]

\* What judge says of the solutions.  One that is gone in the head is not measured: its
\* cost is not compared, and "does not pass" is not reported of it.
SolutionMessages(names, base, measured) ==
    LET changed == changed_solutions(names)
        keys == DOMAIN base \cup DOMAIN measured
        failed == { key \in DOMAIN measured : ~measured[key].pass }
        moved == { key \in (keys \ failed) \cap changed : contract_changed(key[1], names) }
        dearer == { key \in ((DOMAIN base \cap DOMAIN measured) \ (failed \cup moved)) \cap changed :
                        solution_change(base[key], measured[key].cost) }
    IN { <<"failure", key, "does not pass">> : key \in failed }
       \cup { <<"note", key, "contract">> : key \in moved }
       \cup { <<"warning", key, "cost">> : key \in dearer }

\* The problems a ruleset is compared on: the common ones, and of these, when the base
\* has figures of it, its own.
Scope(base, ruleset) ==
    LET shared == common_problems(ProblemsPassed(base)) IN
    IF ruleset \in Rulesets(DOMAIN base)
    THEN { p \in shared : <<p, ruleset>> \in DOMAIN base }
    ELSE shared

\* The costs of the solutions that pass.
HeadCosts(measured) ==
    [key \in { k \in DOMAIN measured : measured[k].pass } |-> measured[key].cost]

\* What judge says of the interpreters.
InterpreterMessages(names, base, head) ==
    LET rulesets == changed_interpreters(names)
                        \cap (Rulesets(DOMAIN base) \cup Rulesets(DOMAIN head))
        stopped == { r \in rulesets : \E p \in Scope(base, r) : <<p, r>> \notin DOMAIN head }
        moved == { r \in rulesets \ stopped :
                      \E p \in common_problems(ProblemsPassed(base)) : contract_changed(p, names) }
        dearer == { r \in (rulesets \ (stopped \cup moved)) \cap Rulesets(DOMAIN base) :
                      interpreter_change(aggregate_sum(base, r, Scope(base, r)),
                                         aggregate_sum(head, r, Scope(base, r))) }
    IN { <<"failure", <<r>>, "stopped passing">> : r \in stopped }
       \cup { <<"note", <<r>>, "contract">> : r \in moved }
       \cup { <<"warning", <<r>>, "sum">> : r \in dearer }

judge(names, base, runs) ==
    (IF parity_failure(runs) THEN { <<"failure", <<>>, "parity">> } ELSE {})
        \cup SolutionMessages(names, base, go_results(runs))
        \cup InterpreterMessages(names, base, HeadCosts(go_results(runs)))

\* The metric files of the base: [pass, cost] of each key.
base_costs_Fails(tree) == \E key \in DOMAIN tree : ~tree[key].pass

base_costs(tree) == [key \in DOMAIN tree |-> tree[key].cost]

\* Mutant: the frontmatter and the metric files of the base are taken as they are.
measure_report_AnyLayout(layout, names, tree, runs) ==
    IF parity_failure(runs) THEN { <<"failure", <<>>, "parity">> }
    ELSE judge(names, base_costs(tree), runs)

\* measure_report.  layout: check_layout finds nothing.  measure compares the hosts as
\* well, and its exception is the report; that of base_costs ends the process, with an
\* exit status of 1 and no report.
measure_report(layout, names, tree, runs) ==
    IF ~layout THEN { <<"failure", <<>>, "frontmatter">> }
    ELSE IF parity_failure(runs) THEN { <<"failure", <<>>, "parity">> }
    ELSE IF base_costs_Fails(tree) THEN { <<"failure", <<>>, "exception">> }
    ELSE judge(names, base_costs(tree), runs)

Green(report) == \A m \in report : m[1] # "failure"

-----------------------------------------------------------------------------
\* The comment.  A comment is [id, marked, body].
Marked(comments) == { c \in comments : c.marked }

\* Mutant: the newest marked comment is taken.
comment_action_Newest(comments) ==
    IF Marked(comments) = {} THEN 0 ELSE Max({ c.id : c \in Marked(comments) })

\* The comment to change: the oldest marked one; 0 to post a new one.
comment_action(comments) ==
    IF Marked(comments) = {} THEN 0 ELSE Min({ c.id : c \in Marked(comments) })

\* The comments when post_comment has done what it decided when it listed them.
Perform(comments, chosen, body) ==
    IF chosen = 0
    THEN comments \cup { [id |-> 1 + Max({ c.id : c \in comments } \cup {0}),
                          marked |-> TRUE, body |-> body] }
    ELSE { IF c.id = chosen THEN [c EXCEPT !.body = body] ELSE c : c \in comments }

post_comment(comments, body) == Perform(comments, comment_action(comments), body)

-----------------------------------------------------------------------------
\* The pull requests: what base and head cost, the files that differ and, in the
\* runs, one host that differs or one solution that Go fails.
Costs == UNION { [keys -> Figure] : keys \in SUBSET Key }

ChangedFiles ==
    { {<<"solution", k[1], k[2]>> : k \in solutions} \cup {<<"readme", k[1], k[2]>> : k \in readmes}
        \cup {<<"interpreter", r>> : r \in interpreters} \cup {<<"case", p>> : p \in problems} :
      solutions \in SUBSET Key, readmes \in {{}, Key},
      interpreters \in SUBSET (Rulesets(Key) \ {"direct"}), problems \in SUBSET Problems(Key) }
    \cup { {<<"engine">>} \cup {<<"interpreter", r>> : r \in interpreters} :
             interpreters \in SUBSET (Rulesets(Key) \ {"direct"}) }

CostIn(costs, key) == IF key \in DOMAIN costs THEN {costs[key]} ELSE {}

\* A cost changes with the solution, its interpreter, the cases of its problem or the
\* engine.
Explains(names, base, head) ==
    \A key \in Key :
        CostIn(base, key) # CostIn(head, key) =>
            \/ <<"solution", key[1], key[2]>> \in names
            \/ DOMAIN head \cap {key} = DOMAIN base \cap {key}
               /\ \/ <<"interpreter", key[2]>> \in names
                  \/ <<"case", key[1]>> \in names
                  \/ <<"engine">> \in names

\* The metric files with these figures; those of lost do not pass.
Recorded(costs, lost) ==
    [key \in DOMAIN costs |-> [pass |-> key \notin lost, cost |-> costs[key]]]

PassingRuns(head) ==
    [h \in AnyHost |-> [key \in DOMAIN head |-> [pass |-> TRUE, cost |-> head[key]]]]

\* Some solutions fail on a host, or some cost one more there.
RunWith(head, failing, differing, host) ==
    [h \in AnyHost |-> [key \in DOMAIN head |->
        IF key \in failing /\ h = host THEN [pass |-> FALSE, cost |-> 0]
        ELSE [pass |-> TRUE,
              cost |-> IF key \in differing /\ h = host THEN head[key] + 1 ELSE head[key]]]]

RunsOf(head) ==
    { PassingRuns(head) }
    \cup { RunWith(head, {at[1]}, {}, at[2]) : at \in (DOMAIN head) \X AnyHost }
    \cup { RunWith(head, {}, {at[1]}, at[2]) : at \in (DOMAIN head) \X (AnyHost \ {"go"}) }

\* What else a pull request can be: <<layout, metric files of the base, runs>>.
Checks(base, head) ==
    { <<TRUE, Recorded(base, {}), runs>> : runs \in RunsOf(head) }
    \cup { <<TRUE, Recorded(base, {key}), PassingRuns(head)>> : key \in DOMAIN base }
    \cup { <<FALSE, Recorded(base, {}), PassingRuns(head)>> }

-----------------------------------------------------------------------------
\* What the reports are for, said without judge: CONTRIBUTING.md, "Changing a solution".
CommonInBase(base) ==
    { p \in Problems(DOMAIN base) : \A r \in Rulesets(DOMAIN base) : <<p, r>> \in DOMAIN base }

Agree(runs) ==
    \A h \in AnyHost, key \in DOMAIN runs["go"] :
        runs["go"][key].pass /\ runs[h][key] = runs["go"][key]

StillPasses(names, base, runs) ==
    \A r \in Rulesets(DOMAIN base) \cup Rulesets(DOMAIN runs["go"]), p \in CommonInBase(base) :
        <<"interpreter", r>> \in names => <<p, r>> \in DOMAIN runs["go"]

SumOver(costs, r, problems) == MapThenSumSet(LAMBDA p : costs[<<p, r>>], problems)

\* The check is green exactly when the frontmatter is whole, every solution of the head
\* passes on Go, the hosts agree with it, every metric file of the base passes, and each
\* changed or new interpreter that is measured passes the common problems of the base
\* (pr_check.py:143).
Earned(layout, names, tree, runs) ==
    Green(measure_report(layout, names, tree, runs)) =
        /\ layout
        /\ Agree(runs)
        /\ \A key \in DOMAIN tree : tree[key].pass
        /\ StillPasses(names, base_costs(tree), runs)

\* No pull request that leaves the engine as it is raises what a ruleset costs on the
\* base's common problems in silence, unless the contract of one of them changes with it:
\* the rule for changed solutions and the rule for changed interpreters leave no gap
\* (pr_check.py:152).  A change of the engine does: judge says nothing of a solution
\* whose files are those of the base.
RiseIsSaid(names, base, head) ==
    LET report == measure_report(TRUE, names, Recorded(base, {}), PassingRuns(head))
        shared == CommonInBase(base)
    IN  <<"engine">> \notin names => \A r \in Rulesets(DOMAIN base) :
            /\ \A p \in shared : <<p, r>> \in DOMAIN head /\ <<"case", p>> \notin names
            /\ SumOver(head, r, shared) > SumOver(base, r, shared)
            => \E m \in report :
                  m[1] # "note" /\ (m[2] = <<r>> \/ \E p \in shared : m[2] = <<p, r>>)

\* The comments of a pull request when its first two jobs and a later one have
\* reported; marks tells which comments there were before, and overlap whether the
\* second job listed them before the first posted.
Commented(marks) == { [id |-> i, marked |-> marks[i], body |-> "old"] : i \in DOMAIN marks }

AfterFirst(marks) == post_comment(Commented(marks), "first")

AfterSecond(marks, overlap) ==
    IF overlap THEN Perform(AfterFirst(marks), comment_action(Commented(marks)), "second")
    ELSE post_comment(AfterFirst(marks), "second")

\* However two jobs overlapped, and whatever other comments there are, the next job
\* writes its report into the comment that was marked first, and touches no other
\* (pr_check.py:240).
OneComment(marks) ==
    \A overlap \in BOOLEAN :
        LET second == AfterSecond(marks, overlap)
            third == post_comment(second, "third")
            oldest == Min({ c.id : c \in Marked(AfterFirst(marks)) })
        IN  /\ \A c \in Marked(third) : c.id = oldest => c.body = "third"
            /\ \A c \in third : c.id # oldest => c \in second
            /\ ~overlap /\ Cardinality(Marked(Commented(marks))) <= 1 =>
                  Cardinality(Marked(third)) = 1
=============================================================================
