-------------------------------- MODULE Publish --------------------------------
(***************************************************************************)
(* metrics/record.py, runs.py and publish.py: every solution is run on     *)
(* every host, one thread for each host, the results are compared, the     *)
(* metric files that changed are written, and `--publish` commits them.    *)
(* The repository is the last commit, the index and the work tree; the     *)
(* process can be killed between any two steps.                            *)
(***************************************************************************)
EXTENDS Integers, FiniteSets, Sequences

CONSTANTS
    Order,        \* the solutions, in the order discover returns them
    Host,         \* the hosts; "go" is the reference
    Version,      \* the versions of the programs
    Cost(_, _),   \* Cost(v, s): the cost of a run of s in version v
    Differs,      \* the versions in which a host other than Go costs more
    MaxCommits,   \* bound: the commits
    MaxCrashes,   \* bound: the runs of the recorder that are killed
    MaxMisses     \* bound: the samples of resident memory that are missed

Solution == { Order[i] : i \in DOMAIN Order }

\* The metric files, and a file of somebody else.
Latest == "latest"
File == Solution \cup {Latest}
Foreign == "foreign"

ASSUME PublishAssumption ==
    /\ Order \in Seq(Solution)
    /\ Latest \notin Solution /\ Foreign \notin File
    /\ "go" \in Host
    /\ MaxCommits \in Nat /\ MaxCrashes \in Nat /\ MaxMisses \in Nat
    /\ \A v \in Version, s \in Solution : Cost(v, s) \in Nat

VARIABLES
    version,  \* the version of the programs in the work tree and in the last commit
    commits,  \* the number of commits, which names the last one
    botPush,  \* whether the last push was the recorder's own
    head, work,      \* each metric file in the last commit and in the work tree
    index,    \* the files that are staged
    pc, publishing,  \* where measure is, and whether it is to commit
    named,    \* the commit it found at its start
    rows,     \* the rows of each host so far
    attempt,  \* the runs of the case each host is at
    at,       \* the solution whose metric file is next
    paths,    \* the files written
    said,     \* its last words
    crashes, misses

repoVars == <<version, commits, botPush>>
fileVars == <<head, work, index>>
runVars == <<publishing, named, rows, attempt, at, paths, said>>
boundVars == <<crashes, misses>>
vars == <<repoVars, fileVars, pc, runVars, boundVars>>

\* A row: what _finish keeps of a run.  missing: no sample of the memory.
Row(passed, cost, missing) == [pass |-> passed, cost |-> cost, missing |-> missing]
Missed(row) == Row(row.pass, row.cost, TRUE)
Rows == [pass : BOOLEAN, cost : Nat, missing : BOOLEAN]

\* A metric file holds a figure and the commit it was measured at; latest.json holds
\* the rows.  What is compared when a file is written is "figure".
Document(figure, commit) == [figure |-> figure, commit |-> commit]

\* The figure of a metric file that was cut off while it was written.
Torn == -1

\* A commit or a work tree: a document in each metric file.
IsTree(t) == t = [f \in File |-> Document(t[f].figure, t[f].commit)]

TypeOK ==
    /\ version \in Version
    /\ commits \in 0 .. MaxCommits
    /\ botPush \in BOOLEAN /\ publishing \in BOOLEAN
    /\ IsTree(head) /\ IsTree(work)
    /\ index \in SUBSET (File \cup {Foreign})
    /\ pc \in {"idle", "measure", "metrics", "latest", "add", "check", "commit"}
    /\ named \in 0 .. MaxCommits
    /\ rows \in [Host -> Seq(Rows)]
    /\ \A h \in Host : Len(rows[h]) <= Len(Order)
    /\ attempt \in [Host -> 1 .. 5]
    /\ at \in 1 .. Len(Order) + 1
    /\ paths \in SUBSET File
    /\ said \in {"nothing", "unchanged", "preview", "committed"}
    /\ crashes \in 0 .. MaxCrashes /\ misses \in 0 .. MaxMisses

Passing(v, h, s) ==
    Row(TRUE, Cost(v, s) + IF h # "go" /\ v \in Differs THEN 1 ELSE 0, FALSE)

AllRows(v) == [h \in Host |-> [k \in DOMAIN Order |-> Passing(v, h, Order[k])]]

Fresh(v) ==
    [f \in File |->
        IF f = Latest THEN Document(AllRows(v), 0) ELSE Document(Cost(v, f), 0)]

Init ==
    /\ version \in Version \ Differs
    /\ commits = 0 /\ botPush = FALSE
    /\ head = Fresh(version) /\ work = head /\ index = {}
    /\ pc = "idle" /\ publishing = FALSE /\ named = 0
    /\ rows = [h \in Host |-> <<>>] /\ attempt = [h \in Host |-> 1]
    /\ at = 1 /\ paths = {} /\ said = "nothing"
    /\ crashes = 0 /\ misses = 0

-----------------------------------------------------------------------------
\* measure of record.py: where it begins.

\* Mutant: the work tree is not looked at.
Dirty_Never == FALSE

Dirty == work # head \/ index # {}

\* A push of its own is not measured again (skip_bot_push).
Start(publish) ==
    /\ pc = "idle"
    /\ publish => ~botPush /\ ~Dirty
    /\ pc' = "measure" /\ publishing' = publish /\ named' = commits
    /\ rows' = [h \in Host |-> <<>>] /\ attempt' = [h \in Host |-> 1]
    /\ at' = 1 /\ paths' = {} /\ said' = "nothing"
    /\ UNCHANGED <<repoVars, fileVars, boundVars>>

\* An exception: measure ends where it is, and leaves what it has written.
Abort ==
    /\ pc' = "idle"
    /\ UNCHANGED <<repoVars, fileVars, runVars, boundVars>>

-----------------------------------------------------------------------------
\* The thread of a host.

Current(h) == Order[Len(rows[h]) + 1]

\* _run_measured: a run that passed without a sample is repeated, up to five times.
RunMeasured(h, row) ==
    IF row.pass /\ row.missing /\ attempt[h] < 5
    THEN attempt' = [attempt EXCEPT ![h] = @ + 1] /\ UNCHANGED rows
    ELSE /\ rows' = [rows EXCEPT ![h] = Append(@, row)]
         /\ attempt' = [attempt EXCEPT ![h] = 1]

\* A run passes, with or without a sample, or it times out; on Go that ends the thread.
RunOne(h) ==
    /\ pc = "measure" /\ Len(rows[h]) < Len(Order)
    /\ h = "go" /\ rows[h] # <<>> => rows[h][Len(rows[h])].pass
    /\ \/ /\ RunMeasured(h, Passing(version, h, Current(h)))
          /\ UNCHANGED misses
       \/ /\ misses < MaxMisses /\ misses' = misses + 1
          /\ RunMeasured(h, Missed(Passing(version, h, Current(h))))
       \/ /\ RunMeasured(h, Row(FALSE, 0, TRUE))
          /\ UNCHANGED misses
    /\ UNCHANGED <<repoVars, fileVars, pc, publishing, named, at, paths, said, crashes>>

-----------------------------------------------------------------------------
\* Comparing.

\* Mutant: only whether the runs passed is compared.
Parity_PassOnly(rs) ==
    \A h \in Host, k \in DOMAIN Order : rs[h][k].pass

Parity(rs) ==
    \A h \in Host, k \in DOMAIN Order :
        rs[h][k].pass /\ rs["go"][k].pass /\ rs[h][k].cost = rs["go"][k].cost

RequireMemory(rs) == \A h \in Host, k \in DOMAIN Order : rs[h][k].pass => ~rs[h][k].missing

Complete == \A h \in Host : Len(rows[h]) = Len(Order)

Collect ==
    /\ pc = "measure" /\ Complete /\ rows["go"][Len(Order)].pass
    /\ IF Parity(rows) /\ RequireMemory(rows)
       THEN pc' = "metrics" /\ UNCHANGED <<repoVars, fileVars, runVars, boundVars>>
       ELSE Abort

\* Mutant: the exception of a thread is never raised.
CollectFailure_Never == FALSE

\* A run that fails on Go is an exception of its thread, raised here when the other
\* threads are done.
CollectFailure ==
    /\ pc = "measure"
    /\ \A h \in Host \ {"go"} : Len(rows[h]) = Len(Order)
    /\ \E k \in DOMAIN rows["go"] : ~rows["go"][k].pass
    /\ Abort

-----------------------------------------------------------------------------
\* Writing.

\* Mutant: the commit a file names counts as a change of it.
Same_WithCommit(old, new) == old = new

Same(old, new) == old.figure = new.figure

Put(f, new) ==
    IF Same(work[f], new) THEN UNCHANGED <<work, paths>>
    ELSE work' = [work EXCEPT ![f] = new] /\ paths' = paths \cup {f}

\* _write_metrics, one solution at a time; a file that is no JSON is an exception.
WriteMetric ==
    /\ pc = "metrics" /\ at <= Len(Order)
    /\ IF work[Order[at]].figure = Torn THEN Abort
       ELSE /\ Put(Order[at], Document(rows["go"][at].cost, named))
            /\ at' = at + 1
            /\ UNCHANGED <<repoVars, head, index, pc, publishing, named, rows, attempt,
                           said, boundVars>>

MetricsWritten ==
    /\ pc = "metrics" /\ at > Len(Order)
    /\ pc' = "latest"
    /\ UNCHANGED <<repoVars, fileVars, runVars, boundVars>>

\* latest.json, without the durations and the resident memory.  It is replaced in one
\* step.  A preview ends here.
WriteLatest ==
    /\ pc = "latest"
    /\ Put(Latest, Document(rows, named))
    /\ IF publishing THEN pc' = "add" /\ UNCHANGED said
       ELSE /\ pc' = "idle"
            /\ said' = IF paths' = {} THEN "unchanged" ELSE "preview"
    /\ UNCHANGED <<repoVars, head, index, publishing, named, rows, attempt, at, boundVars>>

-----------------------------------------------------------------------------
\* commit_paths.

\* "metrics: unchanged", and no commit.
SayUnchanged ==
    /\ pc' = "idle" /\ said' = "unchanged"
    /\ UNCHANGED <<repoVars, fileVars, publishing, named, rows, attempt, at, paths, boundVars>>

NothingToCommit == pc = "add" /\ paths = {} /\ SayUnchanged

Add ==
    /\ pc = "add" /\ paths # {}
    /\ index' = index \cup paths
    /\ pc' = "check"
    /\ UNCHANGED <<repoVars, head, work, runVars, boundVars>>

Check ==
    /\ pc = "check"
    /\ IF index = {} THEN SayUnchanged
       ELSE IF index = paths
       THEN pc' = "commit" /\ UNCHANGED <<repoVars, fileVars, runVars, boundVars>>
       ELSE Abort

\* git commit takes what is staged now.
Commit ==
    /\ pc = "commit" /\ commits < MaxCommits
    /\ head' = [f \in File |-> IF f \in index THEN work[f] ELSE head[f]]
    /\ index' = {} /\ pc' = "idle" /\ said' = "committed"
    /\ commits' = commits + 1 /\ botPush' = TRUE
    /\ UNCHANGED <<version, work, publishing, named, rows, attempt, at, paths, boundVars>>

\* git fails.
GitFails == pc \in {"add", "check", "commit"} /\ paths # {} /\ Abort

Recorder ==
    \/ (\E p \in BOOLEAN : Start(p))
    \/ (\E h \in Host : RunOne(h)) \/ Collect \/ CollectFailure
    \/ WriteMetric \/ MetricsWritten \/ WriteLatest
    \/ NothingToCommit \/ Add \/ Check \/ Commit \/ GitFails

-----------------------------------------------------------------------------
\* The surroundings.

\* The process is killed (bound: MaxCrashes).
Crash ==
    /\ pc # "idle" /\ crashes < MaxCrashes
    /\ crashes' = crashes + 1
    /\ pc' = "idle"
    /\ UNCHANGED <<repoVars, fileVars, runVars, misses>>

\* It is killed while it writes a metric file.
Tear ==
    /\ pc = "metrics" /\ at <= Len(Order) /\ crashes < MaxCrashes
    /\ work[Order[at]].figure \notin {Torn, rows["go"][at].cost}
    /\ work' = [work EXCEPT ![Order[at]] = Document(Torn, named)]
    /\ crashes' = crashes + 1
    /\ pc' = "idle"
    /\ UNCHANGED <<repoVars, head, index, runVars, misses>>

\* A developer commits a version of the programs between two runs, with no metric
\* file in the commit.
Develop ==
    /\ pc = "idle" /\ commits < MaxCommits /\ index \subseteq {Foreign}
    /\ version' \in Version \ {version}
    /\ commits' = commits + 1 /\ botPush' = FALSE
    /\ index' = {} /\ UNCHANGED <<head, work, pc, runVars, boundVars>>

\* A checkout of the last commit.
Restore ==
    /\ pc = "idle" /\ Dirty
    /\ work' = head /\ index' = {}
    /\ UNCHANGED <<repoVars, head, pc, runVars, boundVars>>

\* Somebody stages a file of their own in the same work tree.
StageForeign ==
    /\ Foreign \notin index
    /\ index' = index \cup {Foreign}
    /\ UNCHANGED <<repoVars, head, work, pc, runVars, boundVars>>

Next == Recorder \/ Crash \/ Tear \/ Develop \/ Restore \/ StageForeign

Spec == Init /\ [][Next]_vars

RecorderSteps ==
    \/ Collect \/ CollectFailure \/ WriteMetric \/ MetricsWritten \/ WriteLatest
    \/ NothingToCommit \/ Add \/ Check \/ Commit \/ GitFails

\* The threads of the hosts and the recorder go on.
FairSpec ==
    /\ Spec
    /\ WF_vars(RecorderSteps)
    /\ \A h \in Host : WF_vars(RunOne(h))

-----------------------------------------------------------------------------
Recorded == [s \in Solution |-> head[s].figure]

\* The figures in the last commit are those of one version, and a publication
\* changes them in one step, whatever crashes, previews and failures of git it
\* follows (record.py:126, publish.py:127).
Public == INSTANCE Ledger WITH recorded <- Recorded
PublishesWhole == Public!Spec

\* latest.json and the metric files of a commit tell of the same runs, and the hosts
\* agree in it.
LatestAgrees ==
    \A h \in Host, k \in DOMAIN Order :
        head[Latest].figure[h][k].cost = head[Order[k]].figure

\* A commit of the recorder changes a figure in each of its files, and names the
\* commit below it, which was measured: neither a rerun nor the commit before makes
\* a commit by itself (publish.py:43).
OwnCommit == botPush' /\ commits' # commits

NoChurn ==
    [][OwnCommit => \A f \in index \ {Foreign} :
            head'[f].figure # head[f].figure /\ head'[f].commit = commits]_vars

\* What publish.py:128 says of commit_paths: "Commit exactly the metric paths."
CommitsExactly == [][OwnCommit => index = paths]_vars

\* "metrics: unchanged" is true of what it is said of: of the work tree after a preview,
\* and of the last commit as well when the run is to publish; no file that a preview or
\* a killed run left behind hides a change from a publication.  (Said by a preview it
\* tells nothing of the last commit, which an earlier preview may have left behind.)
HasFigures(tree) ==
    /\ \A k \in DOMAIN Order : tree[Order[k]].figure = Cost(version, Order[k])
    /\ tree[Latest].figure = AllRows(version)

UnchangedIsCurrent ==
    [][said' = "unchanged" /\ said # said' =>
          HasFigures(work) /\ (publishing => HasFigures(head))]_vars

\* One missed sample does not cost the measurement (runs.py:118).
MissesAreRetried ==
    pc = "measure" /\ misses < 5 =>
        \A h \in Host : \A k \in DOMAIN rows[h] : rows[h][k].pass => ~rows[h][k].missing

\* A measurement ends, also when Go fails while the other hosts run.
MeasureEnds == pc # "idle" ~> pc = "idle"
=============================================================================
