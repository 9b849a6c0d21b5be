------------------------------ MODULE PublishProofs ------------------------------
(***************************************************************************)
(* Theorems about publishing, for every list of solutions, hosts, versions *)
(* and costs: it keeps its types, what it commits is whole and a change,   *)
(* and its last words are true.  They rest on one invariant, which follows *)
(* the run of the recorder from the clean tree it starts from to its       *)
(* commit.                                                                 *)
(***************************************************************************)
EXTENDS Publish, TLAPS

\* The costs of a run that may be written are those of the programs, on each host.
Measured == pc \in {"metrics", "latest", "add", "check", "commit"}

RowsAreRuns ==
    pc # "idle" =>
        \A h \in Host : \A k \in DOMAIN rows[h] :
            rows[h][k].pass => rows[h][k].cost = Passing(version, h, Order[k]).cost

AllPassed ==
    Measured =>
        /\ rows = AllRows(version)
        /\ \A h \in Host, k \in DOMAIN Order : rows[h][k].cost = Cost(version, Order[k])

\* What is written so far are these costs.
Written ==
    /\ Measured => \A k \in DOMAIN Order :
                      k < at => work[Order[k]].figure = Cost(version, Order[k])
    /\ pc = "measure" => at = 1
    /\ pc \in {"latest", "add", "check", "commit"} => at = Len(Order) + 1
    /\ pc \in {"add", "check", "commit"} => work[Latest].figure = rows

\* A publication differs from the last commit in its own paths only, in a figure of
\* each, and these name the last commit.
OwnPaths ==
    publishing /\ pc # "idle" =>
        /\ named = commits
        /\ \A f \in File :
              IF f \in paths
              THEN work[f].figure # head[f].figure /\ work[f].commit = named
              ELSE work[f] = head[f]
        /\ pc \in {"measure", "metrics", "latest"} =>
              \A f \in paths : \E k \in DOMAIN Order : k < at /\ f = Order[k]

\* What is staged.
OwnIndex ==
    /\ pc \in {"add", "check", "commit"} => publishing
    /\ publishing /\ pc \in {"measure", "metrics", "latest", "add"} => index \subseteq {Foreign}
    /\ pc = "check" => paths \subseteq index /\ index \subseteq paths \cup {Foreign}
    /\ pc = "commit" => index \ {Foreign} = paths

\* A missed sample is kept after five attempts, and each of them is counted.
Retried ==
    \A h \in Host :
        /\ attempt[h] <= misses + 1
        /\ \A k \in DOMAIN rows[h] : rows[h][k].pass /\ rows[h][k].missing => misses >= 5

IInv == TypeOK /\ RowsAreRuns /\ AllPassed /\ Written /\ OwnPaths /\ OwnIndex /\ LatestAgrees

-----------------------------------------------------------------------------
\* Types.

\* What the proofs use of the constants: the order of the solutions and the file names.
LEMMA OrderFacts ==
    /\ Order \in Seq(Solution) /\ Len(Order) \in Nat
    /\ DOMAIN Order = 1 .. Len(Order)
    /\ \A k \in DOMAIN Order : Order[k] \in Solution /\ Order[k] \in File /\ Order[k] # Latest
    /\ Latest \in File /\ Foreign \notin File /\ "go" \in Host
    /\ MaxCommits \in Nat /\ MaxCrashes \in Nat /\ MaxMisses \in Nat
    /\ \A v \in Version, t \in Solution : Cost(v, t) \in Nat
BY PublishAssumption DEF Solution, File

\* What Put does to one file, and that it leaves the others alone.
LEMMA PutEffect ==
    ASSUME IsTree(work), NEW f \in File, NEW figure, NEW commit,
           Put(f, Document(figure, commit))
    PROVE  /\ IsTree(work')
           /\ work'[f].figure = figure
           /\ \A g \in File \ {f} : work'[g] = work[g]
           /\ \/ work[f].figure = figure /\ work'[f] = work[f] /\ paths' = paths
              \/ work[f].figure # figure /\ work'[f].commit = commit /\ paths' = paths \cup {f}
<1>1. CASE work[f].figure = figure
  <2>1. work' = work /\ paths' = paths
    BY <1>1 DEF Put, Same, Document
  <2>2. QED
    BY <1>1, <2>1 DEF IsTree
<1>2. CASE work[f].figure # figure
  <2>1. work' = [work EXCEPT ![f] = Document(figure, commit)] /\ paths' = paths \cup {f}
    BY <1>2 DEF Put, Same, Document
  <2>2. work' = [g \in File |-> IF g = f THEN Document(figure, commit)
                               ELSE Document(work[g].figure, work[g].commit)]
    BY <2>1 DEF IsTree
  <2>3. \A g \in File \ {f} : work'[g] = work[g]
    BY <2>1, <2>2 DEF IsTree
  <2>4. IsTree(work')
    BY <2>2 DEF IsTree, Document
  <2>5. QED
    BY <1>2, <2>1, <2>2, <2>3, <2>4 DEF Document
<1>3. QED
  BY <1>1, <1>2

\* A run is a row.
LEMMA PassingRow ==
    ASSUME version \in Version, NEW h \in Host, NEW t \in Solution
    PROVE  /\ Passing(version, h, t) \in Rows
           /\ Missed(Passing(version, h, t)).cost = Passing(version, h, t).cost
           /\ Passing(version, h, t).missing = FALSE
           /\ h = "go" => Passing(version, h, t).cost = Cost(version, t)
           /\ Missed(Passing(version, h, t)) \in Rows
           /\ Row(FALSE, 0, TRUE) \in Rows
<1>1. Cost(version, t) + (IF h # "go" /\ version \in Differs THEN 1 ELSE 0) \in Nat
  BY OrderFacts
<1>2. Passing(version, h, t) \in Rows /\ Row(FALSE, 0, TRUE) \in Rows
  BY <1>1 DEF Passing, Row, Rows
<1>3. Missed(Passing(version, h, t)) \in Rows
  BY <1>2 DEF Missed, Row, Rows
<1>4. Missed(Passing(version, h, t)).cost = Passing(version, h, t).cost
  BY DEF Missed, Row
<1>5. Passing(version, h, t).missing = FALSE
  BY DEF Passing, Row
<1>6. h = "go" => Passing(version, h, t).cost = Cost(version, t)
  BY OrderFacts DEF Passing, Row
<1>7. QED
  BY <1>2, <1>3, <1>4, <1>5, <1>6

\* One more run of a host keeps the rows and the attempts in their types.
LEMMA RunMeasuredTypes ==
    ASSUME TypeOK, NEW h \in Host, Len(rows[h]) < Len(Order), NEW row \in Rows,
           RunMeasured(h, row)
    PROVE  /\ rows' \in [Host -> Seq(Rows)]
           /\ \A i \in Host : Len(rows'[i]) <= Len(Order)
           /\ attempt' \in [Host -> 1 .. 5]
<1>1. rows[h] \in Seq(Rows) /\ Len(rows[h]) \in Nat /\ attempt[h] \in 1 .. 5
  BY DEF TypeOK
<1>2. CASE attempt' = [attempt EXCEPT ![h] = @ + 1] /\ UNCHANGED rows /\ attempt[h] < 5
  <2>1. attempt[h] + 1 \in 1 .. 5
    BY <1>1, <1>2
  <2>2. QED
    BY <1>2, <2>1 DEF TypeOK
<1>3. CASE /\ rows' = [rows EXCEPT ![h] = Append(@, row)]
           /\ attempt' = [attempt EXCEPT ![h] = 1]
  <2>1. Append(rows[h], row) \in Seq(Rows) /\ Len(Append(rows[h], row)) = Len(rows[h]) + 1
    BY <1>1
  <2>2. rows' \in [Host -> Seq(Rows)]
    BY <1>3, <2>1 DEF TypeOK
  <2>3. \A i \in Host : Len(rows'[i]) <= Len(Order)
    BY <1>1, <1>3, <2>1, OrderFacts DEF TypeOK
  <2>4. attempt' \in [Host -> 1 .. 5]
    BY <1>3 DEF TypeOK
  <2>5. QED
    BY <2>2, <2>3, <2>4
<1>4. QED
  BY <1>2, <1>3 DEF RunMeasured

\* The repository and the recorder start in their types.
LEMMA TypeInit == Init => TypeOK
<1> SUFFICES ASSUME Init PROVE TypeOK
  OBVIOUS
<1>1. IsTree(head) /\ work = head
  <2>1. head = [f \in File |->
                  IF f = Latest THEN Document(AllRows(version), 0)
                  ELSE Document(Cost(version, f), 0)]
    BY DEF Init, Fresh
  <2>2. \A f \in File : head[f] = Document(head[f].figure, head[f].commit)
    BY <2>1 DEF Document
  <2>3. QED
    BY <2>1, <2>2 DEF IsTree, Init
<1>2. rows \in [Host -> Seq(Rows)] /\ (\A h \in Host : Len(rows[h]) <= Len(Order))
  BY OrderFacts DEF Init
<1>3. /\ commits \in 0 .. MaxCommits /\ named \in 0 .. MaxCommits /\ at \in 1 .. Len(Order) + 1
      /\ crashes \in 0 .. MaxCrashes /\ misses \in 0 .. MaxMisses
      /\ version \in Version /\ attempt \in [Host -> 1 .. 5]
  BY OrderFacts DEF Init
<1>4. QED
  BY <1>1, <1>2, <1>3 DEF Init, TypeOK

\* Starting a recorder keeps the types.
LEMMA StartTypes == ASSUME TypeOK, NEW p \in BOOLEAN, Start(p) PROVE TypeOK'
<1>1. rows' \in [Host -> Seq(Rows)] /\ (\A h \in Host : Len(rows'[h]) <= Len(Order))
  BY OrderFacts DEF Start
<1>2. QED
  BY <1>1, OrderFacts DEF Start, TypeOK, IsTree, repoVars, fileVars, boundVars

\* The recorder only moves, or is back where it began.
LEMMA MoveTypes ==
    ASSUME TypeOK, UNCHANGED <<repoVars, fileVars, runVars, misses>>,
           pc' \in {"idle", "metrics", "latest"}, crashes' \in 0 .. MaxCrashes
    PROVE  TypeOK'
BY DEF TypeOK, IsTree, repoVars, fileVars, runVars

\* So does one that is killed or fails.
LEMMA AbortTypes == ASSUME TypeOK, Abort PROVE TypeOK'
BY MoveTypes DEF TypeOK, Abort, boundVars

\* And one that has nothing to commit.
LEMMA UnchangedTypes == ASSUME TypeOK, SayUnchanged PROVE TypeOK'
BY DEF SayUnchanged, TypeOK, IsTree, repoVars, fileVars, boundVars

\* A measured run adds a row of its type.
LEMMA RunOneTypes == ASSUME TypeOK, NEW h \in Host, RunOne(h) PROVE TypeOK'
<1>1. version \in Version /\ Len(rows[h]) < Len(Order) /\ Len(rows[h]) \in Nat
  BY DEF RunOne, TypeOK
<1>2. Current(h) \in Solution
  BY <1>1, OrderFacts DEF Current
<1>3. \E row \in Rows : RunMeasured(h, row)
  BY <1>1, <1>2, PassingRow DEF RunOne
<1>4. misses' \in 0 .. MaxMisses
  <2>1. misses' = misses \/ (misses < MaxMisses /\ misses' = misses + 1)
    BY Zenon DEF RunOne
  <2>2. QED
    BY <2>1, OrderFacts DEF TypeOK
<1>5. PICK row \in Rows : RunMeasured(h, row)
  BY <1>3
<1>6. /\ rows' \in [Host -> Seq(Rows)]
      /\ \A i \in Host : Len(rows'[i]) <= Len(Order)
      /\ attempt' \in [Host -> 1 .. 5]
  BY <1>1, <1>5, RunMeasuredTypes
<1>7. QED
  BY <1>4, <1>6 DEF RunOne, TypeOK, IsTree, repoVars, fileVars

\* Writing a document keeps the types.
LEMMA PutTypes ==
    ASSUME TypeOK, NEW f \in File, NEW figure, NEW commit, Put(f, Document(figure, commit))
    PROVE  IsTree(work') /\ paths' \in SUBSET File
BY PutEffect DEF TypeOK

\* So does a commit.
LEMMA CommitTypes == ASSUME TypeOK, Commit PROVE TypeOK'
<1>1. IsTree(head')
  <2>1. \A f \in File : head'[f] = Document(head'[f].figure, head'[f].commit)
    BY DEF Commit, TypeOK, IsTree
  <2>2. QED
    BY <2>1 DEF Commit, IsTree
<1>2. commits' \in 0 .. MaxCommits
  BY OrderFacts DEF Commit, TypeOK
<1>3. QED
  BY <1>1, <1>2 DEF Commit, TypeOK, IsTree, runVars, boundVars

\* Every step keeps the types.
LEMMA TypeStep == TypeOK /\ [Next]_vars => TypeOK'
<1> SUFFICES ASSUME TypeOK, [Next]_vars PROVE TypeOK'
  OBVIOUS
<1>1. ASSUME NEW p \in BOOLEAN, Start(p) PROVE TypeOK'
  BY <1>1, StartTypes
<1>2. ASSUME NEW h \in Host, RunOne(h) PROVE TypeOK'
  BY <1>2, RunOneTypes
<1>3. CASE Collect
  BY <1>3, AbortTypes, MoveTypes DEF Collect, TypeOK, boundVars
<1>4. CASE CollectFailure
  BY <1>4, AbortTypes DEF CollectFailure
<1>5. CASE WriteMetric
  <2>1. at \in DOMAIN Order /\ at + 1 \in 1 .. Len(Order) + 1
    BY <1>5, OrderFacts DEF WriteMetric, TypeOK
  <2>2. CASE work[Order[at]].figure = Torn
    BY <1>5, <2>2, AbortTypes DEF WriteMetric
  <2>3. CASE work[Order[at]].figure # Torn
    <3>1. IsTree(work') /\ paths' \in SUBSET File
      BY <1>5, <2>1, <2>3, OrderFacts, PutTypes DEF WriteMetric
    <3>2. QED
      BY <1>5, <2>1, <2>3, <3>1 DEF WriteMetric, TypeOK, IsTree, repoVars, boundVars
  <2>4. QED
    BY <2>2, <2>3
<1>6. CASE MetricsWritten
  BY <1>6, MoveTypes DEF MetricsWritten, TypeOK, boundVars
<1>7. CASE WriteLatest
  <2>1. IsTree(work') /\ paths' \in SUBSET File
    BY <1>7, OrderFacts, PutTypes DEF WriteLatest
  <2>2. QED
    BY <1>7, <2>1 DEF WriteLatest, TypeOK, IsTree, repoVars, boundVars
<1>8. CASE NothingToCommit
  BY <1>8, UnchangedTypes DEF NothingToCommit
<1>9. CASE Add
  BY <1>9 DEF Add, TypeOK, IsTree, repoVars, runVars, boundVars
<1>10. CASE Check
  <2>1. CASE SayUnchanged
    BY <2>1, UnchangedTypes
  <2>2. CASE pc' = "commit" /\ UNCHANGED <<repoVars, fileVars, runVars, boundVars>>
    BY <2>2 DEF TypeOK, IsTree, repoVars, fileVars, runVars, boundVars
  <2>3. CASE Abort
    BY <2>3, AbortTypes
  <2>4. QED
    BY <1>10, <2>1, <2>2, <2>3, Zenon DEF Check
<1>11. CASE Commit
  BY <1>11, CommitTypes
<1>12. CASE GitFails
  BY <1>12, AbortTypes DEF GitFails
<1>13. CASE Crash
  BY <1>13, MoveTypes, OrderFacts DEF Crash, TypeOK
<1>tear. CASE Tear
  <2>1. at \in DOMAIN Order /\ Order[at] \in File
    BY <1>tear, OrderFacts DEF Tear, TypeOK
  <2>2. work' = [f \in File |-> IF f = Order[at] THEN Document(Torn, named)
                               ELSE Document(work[f].figure, work[f].commit)]
    BY <1>tear DEF Tear, TypeOK, IsTree
  <2>3. IsTree(work')
    BY <2>2 DEF IsTree, Document
  <2>4. crashes' \in 0 .. MaxCrashes
    BY <1>tear, OrderFacts DEF Tear, TypeOK
  <2>5. QED
    BY <1>tear, <2>3, <2>4 DEF Tear, TypeOK, IsTree, repoVars, runVars
<1>14. CASE Develop
  <2>1. commits' \in 0 .. MaxCommits
    BY <1>14, OrderFacts DEF Develop, TypeOK
  <2>2. QED
    BY <1>14, <2>1 DEF Develop, TypeOK, IsTree, runVars, boundVars
<1>15. CASE Restore
  BY <1>15 DEF Restore, TypeOK, IsTree, repoVars, runVars, boundVars
<1>16. CASE StageForeign
  BY <1>16 DEF StageForeign, TypeOK, IsTree, repoVars, runVars, boundVars
<1>17. CASE UNCHANGED vars
  BY <1>17 DEF TypeOK, IsTree, vars, repoVars, fileVars, runVars, boundVars
<1>18. QED
  BY <1>1, <1>2, <1>3, <1>4, <1>5, <1>6, <1>7, <1>8, <1>9, <1>10, <1>11, <1>12, <1>13,
     <1>14, <1>15, <1>16, <1>17, <1>tear DEF Next, Recorder

\* Every variable of the recorder and of the repository keeps its type.
THEOREM TypeCorrect == Spec => []TypeOK
<1>1. Init => TypeOK
  BY TypeInit
<1>2. TypeOK /\ [Next]_vars => TypeOK'
  BY TypeStep
<1>3. QED
  BY <1>1, <1>2, PTL DEF Spec

-----------------------------------------------------------------------------
\* The invariant.

\* The invariant holds at the start.
LEMMA InvInit == Init => IInv
<1> SUFFICES ASSUME Init PROVE IInv
  OBVIOUS
<1>1. TypeOK
  BY TypeInit
<1>2. LatestAgrees
  <2> SUFFICES ASSUME NEW h \in Host, NEW k \in DOMAIN Order
               PROVE  head[Latest].figure[h][k].cost = head[Order[k]].figure
    BY DEF LatestAgrees
  <2>1. head[Latest].figure = AllRows(version)
    BY OrderFacts DEF Init, Fresh, Document
  <2>2. head[Order[k]].figure = Cost(version, Order[k])
    BY OrderFacts DEF Init, Fresh, Document
  <2>3. AllRows(version)[h][k] = Passing(version, h, Order[k])
    BY DEF AllRows
  <2>4. version \notin Differs /\ Order[k] \in Solution /\ Cost(version, Order[k]) \in Nat
    BY OrderFacts DEF Init
  <2>5. Passing(version, h, Order[k]).cost = Cost(version, Order[k])
    BY <2>4 DEF Passing, Row
  <2>6. QED
    BY <2>1, <2>2, <2>3, <2>5
<1>3. QED
  BY <1>1, <1>2 DEF Init, IInv, RowsAreRuns, AllPassed, Measured, Written, OwnPaths, OwnIndex

\* When the recorder is idle, only the last commit matters.
LEMMA InvIdle == ASSUME IInv, TypeOK', pc' = "idle", UNCHANGED head PROVE IInv'
BY DEF IInv, RowsAreRuns, AllPassed, Measured, Written, OwnPaths, OwnIndex, LatestAgrees

\* A recorder that is killed or fails leaves nothing the invariant speaks of.
LEMMA InvAbort == ASSUME IInv, TypeOK', Abort PROVE IInv'
BY InvIdle DEF Abort, fileVars

\* Nor does one that has nothing to commit.
LEMMA InvUnchanged == ASSUME IInv, TypeOK', SayUnchanged PROVE IInv'
BY InvIdle DEF SayUnchanged, fileVars

\* A recorder starts, on a clean tree when it is to publish.
LEMMA InvStart == ASSUME IInv, TypeOK', NEW p \in BOOLEAN, Start(p) PROVE IInv'
<1>1. RowsAreRuns'
  BY DEF Start, RowsAreRuns
<1>2. OwnPaths'
  BY DEF Start, OwnPaths, Dirty, repoVars, fileVars
<1>3. OwnIndex'
  BY DEF Start, OwnIndex, Dirty, repoVars, fileVars
<1>4. QED
  BY <1>1, <1>2, <1>3
     DEF Start, IInv, AllPassed, Measured, Written, LatestAgrees, fileVars

\* One more run of a host, with the cost of a passing run when it passes.
LEMMA RunOneRow ==
    ASSUME TypeOK, NEW h \in Host, RunOne(h)
    PROVE  \E row \in Rows :
              /\ RunMeasured(h, row)
              /\ row.pass => row.cost = Passing(version, h, Current(h)).cost
              /\ row.pass /\ row.missing => misses' = misses + 1
              /\ misses' \in {misses, misses + 1}
<1>1. version \in Version /\ Len(rows[h]) < Len(Order) /\ Len(rows[h]) \in Nat
  BY DEF RunOne, TypeOK
<1>2. Current(h) \in Solution
  BY <1>1, OrderFacts DEF Current
<1>3. CASE RunMeasured(h, Passing(version, h, Current(h))) /\ UNCHANGED misses
  BY <1>1, <1>2, <1>3, PassingRow
<1>4. CASE RunMeasured(h, Missed(Passing(version, h, Current(h)))) /\ misses' = misses + 1
  BY <1>1, <1>2, <1>4, PassingRow
<1>5. CASE RunMeasured(h, Row(FALSE, 0, TRUE)) /\ UNCHANGED misses
  <2>1. Row(FALSE, 0, TRUE).pass = FALSE
    BY DEF Row
  <2>2. QED
    BY <1>1, <1>2, <1>5, <2>1, PassingRow
<1>6. QED
  BY <1>3, <1>4, <1>5, Zenon DEF RunOne

\* One run is measured (measure_once).
LEMMA InvRunOne == ASSUME IInv, TypeOK', NEW h \in Host, RunOne(h) PROVE IInv'
<1>1. PICK row \in Rows :
          RunMeasured(h, row) /\ (row.pass => row.cost = Passing(version, h, Current(h)).cost)
  BY RunOneRow DEF IInv
<1>2. UNCHANGED <<repoVars, fileVars, pc, publishing, named, at, paths, said>> /\ pc = "measure"
  BY Zenon DEF RunOne
<1>3. RowsAreRuns'
  <2>1. CASE UNCHANGED rows
    BY <1>2, <2>1 DEF IInv, RowsAreRuns, repoVars
  <2>2. CASE rows' = [rows EXCEPT ![h] = Append(@, row)]
    <3> SUFFICES ASSUME NEW i \in Host, NEW k \in DOMAIN rows'[i], rows'[i][k].pass
                 PROVE  rows'[i][k].cost = Passing(version, i, Order[k]).cost
      BY <1>2 DEF RowsAreRuns, repoVars
    <3>1. rows \in [Host -> Seq(Rows)] /\ rows[h] \in Seq(Rows)
      BY DEF IInv, TypeOK
    <3>2. CASE i # h \/ k # Len(rows[h]) + 1
      <4>1. k \in DOMAIN rows[i] /\ rows'[i][k] = rows[i][k]
        BY <2>2, <3>1, <3>2
      <4>2. QED
        BY <1>2, <4>1 DEF IInv, RowsAreRuns
    <3>3. CASE i = h /\ k = Len(rows[h]) + 1
      <4>1. rows'[i][k] = row /\ Order[k] = Current(h)
        BY <2>2, <3>1, <3>3 DEF Current
      <4>2. QED
        BY <1>1, <3>3, <4>1
    <3>4. QED
      BY <3>2, <3>3
  <2>3. QED
    BY <1>1, <2>1, <2>2 DEF RunMeasured
<1>4. QED
  BY <1>2, <1>3
     DEF IInv, AllPassed, Measured, Written, OwnPaths, OwnIndex, LatestAgrees, repoVars, fileVars

\* The results of the hosts are collected and compared.
LEMMA InvCollect == ASSUME IInv, TypeOK', Collect PROVE IInv'
<1>1. CASE Abort
  BY <1>1, InvAbort
<1>2. CASE /\ Parity(rows) /\ RequireMemory(rows)
           /\ pc' = "metrics" /\ UNCHANGED <<repoVars, fileVars, runVars, boundVars>>
  <2>1. pc = "measure" /\ Complete
    BY Zenon DEF Collect
  <2>2. rows \in [Host -> Seq(Rows)] /\ version \in Version /\ DOMAIN AllRows(version) = Host
    BY DEF IInv, TypeOK, AllRows
  <2>3. ASSUME NEW h \in Host
        PROVE  DOMAIN rows[h] = DOMAIN Order /\ rows[h] \in Seq(Rows)
    BY <2>1, <2>2, OrderFacts DEF Complete
  <2>4. ASSUME NEW h \in Host, NEW k \in DOMAIN Order
        PROVE  /\ rows[h][k].cost = Cost(version, Order[k])
               /\ rows[h][k] = Passing(version, h, Order[k])
    <3>1. rows[h][k] \in Rows /\ rows["go"][k] \in Rows
      BY <2>3, OrderFacts
    <3>2. rows[h][k].pass /\ rows["go"][k].pass /\ rows[h][k].cost = rows["go"][k].cost
      BY <1>2 DEF Parity
    <3>3. ~rows[h][k].missing
      BY <1>2, <3>2 DEF RequireMemory
    <3>4. /\ rows[h][k].cost = Passing(version, h, Order[k]).cost
          /\ rows["go"][k].cost = Passing(version, "go", Order[k]).cost
      BY <2>1, <2>3, <3>2, OrderFacts DEF IInv, RowsAreRuns
    <3>5. rows[h][k].cost = Cost(version, Order[k])
      BY <2>2, <3>2, <3>4, OrderFacts, PassingRow
    <3>6. rows[h][k] = [pass |-> TRUE, cost |-> Passing(version, h, Order[k]).cost,
                        missing |-> FALSE]
      BY <3>1, <3>2, <3>3, <3>4 DEF Rows
    <3>7. QED
      BY <3>5, <3>6 DEF Passing, Row
  <2>5. rows = AllRows(version)
    <3>1. \A h \in Host : rows[h] = [k \in DOMAIN Order |-> Passing(version, h, Order[k])]
      BY <2>3, <2>4
    <3>2. QED
      BY <2>2, <3>1 DEF AllRows
  <2>6. AllPassed' /\ RowsAreRuns'
    BY <1>2, <2>1, <2>4, <2>5
       DEF AllPassed, RowsAreRuns, IInv, repoVars, runVars
  <2>7. Written'
    BY <1>2, <2>1, OrderFacts DEF IInv, Written, Measured, runVars
  <2>8. QED
    BY <1>2, <2>1, <2>6, <2>7 DEF IInv, OwnPaths, OwnIndex, LatestAgrees, repoVars, fileVars,
                                  runVars
<1>3. QED
  BY <1>1, <1>2 DEF Collect

\* One metric file is written, or found unchanged.
LEMMA InvWriteMetric ==
    ASSUME IInv, TypeOK', WriteMetric, work[Order[at]].figure # Torn
    PROVE  IInv'
<1> DEFINE f == Order[at]
           cost == rows["go"][at].cost
<1>1. pc = "metrics" /\ pc' = "metrics" /\ at \in DOMAIN Order /\ at' = at + 1
  BY OrderFacts DEF WriteMetric, IInv, TypeOK
<1>2. /\ IsTree(work')
      /\ work'[f].figure = cost
      /\ \A g \in File \ {f} : work'[g] = work[g]
      /\ \/ work[f].figure = cost /\ work'[f] = work[f] /\ paths' = paths
         \/ work[f].figure # cost /\ work'[f].commit = named /\ paths' = paths \cup {f}
  BY <1>1, OrderFacts, PutEffect DEF WriteMetric, IInv, TypeOK
<1>3. cost = Cost(version, Order[at])
  BY <1>1, OrderFacts DEF IInv, AllPassed, Measured
<1>4. Written'
  <2> SUFFICES ASSUME NEW k \in DOMAIN Order, k < at + 1
               PROVE  work'[Order[k]].figure = Cost(version, Order[k])
    BY <1>1 DEF Written, WriteMetric, repoVars
  <2>1. CASE Order[k] = f
    BY <1>2, <1>3, <2>1
  <2>2. CASE Order[k] # f
    <3>1. k < at
      BY <1>1, <2>2, OrderFacts
    <3>2. work[Order[k]].figure = Cost(version, Order[k])
      BY <1>1, <3>1 DEF IInv, Written, Measured
    <3>3. QED
      BY <1>2, <2>2, <3>2, OrderFacts
  <2>3. QED
    BY <2>1, <2>2
<1>5. OwnPaths'
  <2> SUFFICES ASSUME publishing PROVE OwnPaths'
    BY DEF OwnPaths, WriteMetric
  <2>1. /\ named = commits
        /\ \A g \in File : IF g \in paths
                             THEN work[g].figure # head[g].figure /\ work[g].commit = named
                             ELSE work[g] = head[g]
        /\ \A g \in paths : \E k \in DOMAIN Order : k < at /\ g = Order[k]
    BY <1>1 DEF IInv, OwnPaths
  <2>2. f \in paths => work[f].figure = cost
    BY <1>1, <1>3, <2>1 DEF IInv, Written, Measured
  <2>3. \A g \in paths' : \E k \in DOMAIN Order : k < at + 1 /\ g = Order[k]
    BY <1>1, <1>2, <2>1, OrderFacts
  <2>4. ASSUME NEW g \in File
        PROVE  IF g \in paths' THEN work'[g].figure # head[g].figure /\ work'[g].commit = named
               ELSE work'[g] = head[g]
    <3>1. CASE g # f
      BY <1>2, <2>1, <3>1
    <3>2. CASE g = f
      BY <1>2, <2>1, <2>2, <3>2
    <3>3. QED
      BY <3>1, <3>2
  <2>5. QED
    BY <1>1, <2>1, <2>3, <2>4 DEF OwnPaths, WriteMetric, repoVars
<1>6. QED
  BY <1>1, <1>4, <1>5
     DEF WriteMetric, IInv, RowsAreRuns, AllPassed, Measured, OwnIndex, LatestAgrees, repoVars

\* latest.json is written after them.
LEMMA InvWriteLatest == ASSUME IInv, TypeOK', WriteLatest PROVE IInv'
<1>1. CASE ~publishing
  BY <1>1, InvIdle DEF WriteLatest
<1>2. CASE publishing
  <2>1. pc = "latest" /\ pc' = "add" /\ UNCHANGED at
    BY <1>2 DEF WriteLatest
  <2>2. /\ work'[Latest].figure = rows
        /\ \A g \in File \ {Latest} : work'[g] = work[g]
        /\ \/ work[Latest].figure = rows /\ work'[Latest] = work[Latest] /\ paths' = paths
           \/ /\ work[Latest].figure # rows /\ work'[Latest].commit = named
              /\ paths' = paths \cup {Latest}
    BY OrderFacts, PutEffect DEF WriteLatest, IInv, TypeOK
  <2>3. Written'
    BY <2>1, <2>2, OrderFacts DEF IInv, Written, Measured, WriteLatest, repoVars
  <2>4. Latest \notin paths
    BY <1>2, <2>1, OrderFacts DEF IInv, OwnPaths
  <2>5. ASSUME NEW g \in File
        PROVE  IF g \in paths' THEN work'[g].figure # head[g].figure /\ work'[g].commit = named
               ELSE work'[g] = head[g]
    <3>1. CASE g # Latest
      BY <1>2, <2>1, <2>2, <3>1 DEF IInv, OwnPaths
    <3>2. CASE g = Latest
      BY <1>2, <2>1, <2>2, <2>4, <3>2 DEF IInv, OwnPaths
    <3>3. QED
      BY <3>1, <3>2
  <2>6. OwnPaths'
    BY <1>2, <2>1, <2>5 DEF IInv, OwnPaths, WriteLatest, repoVars
  <2>7. QED
    BY <2>1, <2>3, <2>6
       DEF WriteLatest, IInv, RowsAreRuns, AllPassed, Measured, OwnIndex, LatestAgrees, repoVars
<1>3. QED
  BY <1>1, <1>2

\* What is staged is committed.
LEMMA InvCommit == ASSUME IInv, TypeOK', Commit PROVE IInv'
<1>1. pc = "commit" /\ pc' = "idle" /\ publishing
  BY DEF Commit, IInv, OwnIndex
<1>2. \A f \in File : head'[f] = work[f]
  BY <1>1 DEF Commit, IInv, OwnIndex, OwnPaths
<1>3. LatestAgrees'
  BY <1>1, <1>2, OrderFacts
     DEF IInv, LatestAgrees, Written, AllPassed, Measured, Commit, runVars
<1>4. QED
  BY <1>1, <1>3 DEF IInv, RowsAreRuns, AllPassed, Measured, Written, OwnPaths, OwnIndex

\* Every step keeps the invariant.
LEMMA InvStep == IInv /\ [Next]_vars => IInv'
<1> SUFFICES ASSUME IInv, [Next]_vars PROVE IInv'
  OBVIOUS
<1>1. TypeOK'
  BY TypeStep DEF IInv
<1>2. ASSUME NEW p \in BOOLEAN, Start(p) PROVE IInv'
  BY <1>1, <1>2, InvStart
<1>3. ASSUME NEW h \in Host, RunOne(h) PROVE IInv'
  BY <1>1, <1>3, InvRunOne
<1>4. CASE Collect
  BY <1>1, <1>4, InvCollect
<1>5. CASE CollectFailure
  BY <1>1, <1>5, InvAbort DEF CollectFailure
<1>6. CASE WriteMetric
  <2>1. CASE work[Order[at]].figure = Torn
    BY <1>1, <1>6, <2>1, InvAbort DEF WriteMetric
  <2>2. CASE work[Order[at]].figure # Torn
    BY <1>1, <1>6, <2>2, InvWriteMetric
  <2>3. QED
    BY <2>1, <2>2
<1>7. CASE MetricsWritten
  <2>1. at = Len(Order) + 1
    BY <1>7, OrderFacts DEF MetricsWritten, IInv, TypeOK
  <2>2. QED
    BY <1>1, <1>7, <2>1
       DEF MetricsWritten, IInv, RowsAreRuns, AllPassed, Measured, Written, OwnPaths, OwnIndex,
           LatestAgrees, repoVars, fileVars, runVars
<1>8. CASE WriteLatest
  BY <1>1, <1>8, InvWriteLatest
<1>9. CASE NothingToCommit
  BY <1>1, <1>9, InvUnchanged DEF NothingToCommit
<1>10. CASE Add
  BY <1>1, <1>10
     DEF Add, IInv, RowsAreRuns, AllPassed, Measured, Written, OwnPaths, OwnIndex, LatestAgrees,
         repoVars, runVars
<1>11. CASE Check
  <2>1. CASE /\ index = paths /\ pc' = "commit"
             /\ UNCHANGED <<repoVars, fileVars, runVars, boundVars>>
    <3>1. index \ {Foreign} = paths /\ pc = "check"
      BY <1>11, <2>1, OrderFacts DEF IInv, TypeOK, Check
    <3>2. QED
      BY <1>1, <2>1, <3>1
         DEF IInv, RowsAreRuns, AllPassed, Measured, Written, OwnPaths, OwnIndex,
             LatestAgrees, repoVars, fileVars, runVars
  <2>2. CASE Abort
    BY <1>1, <2>2, InvAbort
  <2>3. CASE SayUnchanged
    BY <1>1, <2>3, InvUnchanged
  <2>4. QED
    BY <1>11, <2>1, <2>2, <2>3, Zenon DEF Check
<1>12. CASE Commit
  BY <1>1, <1>12, InvCommit
<1>13. CASE GitFails
  BY <1>1, <1>13, InvAbort DEF GitFails
<1>14. CASE Crash
  BY <1>1, <1>14, InvIdle DEF Crash, fileVars
<1>tear. CASE Tear
  BY <1>1, <1>tear, InvIdle DEF Tear
<1>15. CASE Develop
  BY <1>1, <1>15, InvIdle DEF Develop
<1>16. CASE Restore
  BY <1>1, <1>16, InvIdle DEF Restore
<1>17. CASE StageForeign
  BY <1>1, <1>17
     DEF StageForeign, IInv, RowsAreRuns, AllPassed, Measured, Written, OwnPaths, OwnIndex,
         LatestAgrees, repoVars, runVars
<1>18. CASE UNCHANGED vars
  BY <1>1, <1>18
     DEF vars, IInv, RowsAreRuns, AllPassed, Measured, Written, OwnPaths, OwnIndex,
         LatestAgrees, repoVars, fileVars, runVars
<1>19. QED
  BY <1>2, <1>3, <1>4, <1>5, <1>6, <1>7, <1>8, <1>9, <1>10, <1>11, <1>12, <1>13, <1>14,
     <1>15, <1>16, <1>17, <1>18, <1>tear DEF Next, Recorder

\* The invariant of measuring, writing and committing (record.py, publish.py).
THEOREM RecorderInvariant == Spec => []IInv
<1>1. QED
  BY InvInit, InvStep, PTL DEF Spec

\* In every commit, latest.json and the metric files tell of the same runs, with one
\* cost on all hosts.
THEOREM CommitsAgree == Spec => []LatestAgrees
<1>1. IInv => LatestAgrees
  BY DEF IInv
<1>2. QED
  BY <1>1, RecorderInvariant, PTL

-----------------------------------------------------------------------------
\* What a commit does.

\* What a commit of the recorder holds.
LEMMA CommitFacts ==
    ASSUME IInv, Commit
    PROVE  /\ index \ {Foreign} = paths
           /\ \A f \in paths : head'[f].figure # head[f].figure /\ head'[f].commit = commits
           /\ Recorded' = Public!Figures(version)
<1>1. pc = "commit" /\ publishing
  BY DEF Commit, IInv, OwnIndex
<1>2. index \ {Foreign} = paths /\ paths \subseteq File
  BY <1>1 DEF IInv, TypeOK, OwnIndex
<1>3. \A f \in File : head'[f] = work[f]
  BY <1>1, <1>2 DEF Commit, IInv, OwnPaths
<1>4. \A f \in paths : head'[f].figure # head[f].figure /\ head'[f].commit = commits
  BY <1>1, <1>2, <1>3 DEF IInv, OwnPaths
<1>5. \A k \in DOMAIN Order : work[Order[k]].figure = Cost(version, Order[k])
  BY <1>1, OrderFacts DEF IInv, Written, Measured
<1>6. \A s \in Solution : s \in File /\ work[s].figure = Cost(version, s)
  BY <1>5 DEF Solution, File
<1>7. Recorded' = Public!Figures(version)
  BY <1>3, <1>6 DEF Recorded, Public!Figures
<1>8. QED
  BY <1>2, <1>4, <1>7

\* Only the commits of the recorder and of a developer change the last commit.
LEMMA WhoCommits ==
    ASSUME IInv, [Next]_vars
    PROVE  \/ Commit \/ Develop
           \/ UNCHANGED <<version, head, commits>>
<1> USE DEF Abort, SayUnchanged, repoVars, fileVars
<1>1. ASSUME NEW p \in BOOLEAN, Start(p) PROVE UNCHANGED <<version, head, commits>>
  BY <1>1 DEF Start
<1>2. ASSUME NEW h \in Host, RunOne(h) PROVE UNCHANGED <<version, head, commits>>
  BY <1>2, Zenon DEF RunOne
<1>3. CASE Collect \/ CollectFailure \/ NothingToCommit \/ GitFails
  BY <1>3, Zenon DEF Collect, CollectFailure, NothingToCommit, GitFails
<1>4. CASE WriteMetric \/ MetricsWritten \/ WriteLatest
  BY <1>4, Zenon DEF WriteMetric, MetricsWritten, WriteLatest
<1>5. CASE Add \/ Check
  BY <1>5, Zenon DEF Add, Check
<1>6. CASE Crash \/ Tear \/ Restore \/ StageForeign
  BY <1>6, Zenon DEF Crash, Tear, Restore, StageForeign
<1>7. CASE UNCHANGED vars
  BY <1>7 DEF vars
<1>8. QED
  BY <1>1, <1>2, <1>3, <1>4, <1>5, <1>6, <1>7 DEF Next, Recorder

\* A publication changes all figures in one step, to those of the programs, whatever
\* was killed, previewed or staged before it.
THEOREM PublicationIsWhole == Spec => PublishesWhole
<1>1. Init => Public!Init
  <2> SUFFICES ASSUME Init PROVE Public!Init
    OBVIOUS
  <2>1. \A s \in Solution : head[s].figure = Cost(version, s)
    BY PublishAssumption DEF Init, Fresh, Document, File
  <2>2. QED
    BY <2>1 DEF Init, Public!Init, Public!Figures, Recorded
<1>2. IInv /\ [Next]_vars => [Public!Next]_Public!vars
  <2> SUFFICES ASSUME IInv, [Next]_vars PROVE [Public!Next]_Public!vars
    OBVIOUS
  <2>1. CASE Commit
    BY <2>1, CommitFacts DEF Commit, Public!Next, Public!Record
  <2>2. CASE Develop
    BY <2>2 DEF Develop, Public!Next, Public!Develop, Recorded
  <2>3. CASE UNCHANGED <<version, head, commits>>
    BY <2>3 DEF Public!vars, Recorded
  <2>4. QED
    BY <2>1, <2>2, <2>3, WhoCommits
<1>3. QED
  BY <1>1, <1>2, RecorderInvariant, PTL DEF Spec, PublishesWhole, Public!Spec

\* A commit of the recorder changes a figure in each of its files, and each names the
\* commit that was measured.
THEOREM CommitsChange == Spec => NoChurn
<1>1. IInv /\ [Next]_vars =>
        [OwnCommit => \A f \in index \ {Foreign} :
            head'[f].figure # head[f].figure /\ head'[f].commit = commits]_vars
  BY WhoCommits, CommitFacts DEF OwnCommit, Develop
<1>2. QED
  BY <1>1, RecorderInvariant, PTL DEF Spec, NoChurn

-----------------------------------------------------------------------------
\* The last words.

\* Who says "metrics: unchanged".
LEMMA WhoIsUnchanged ==
    ASSUME IInv, [Next]_vars, said' = "unchanged", said # said'
    PROVE  \/ pc = "add" /\ paths = {}
           \/ pc = "check" /\ index = {}
           \/ WriteLatest /\ ~publishing /\ paths' = {}
<1> USE DEF Abort, runVars
<1>1. ~(\E p \in BOOLEAN : Start(p)) /\ ~(\E h \in Host : RunOne(h))
  BY Zenon DEF Start, RunOne
<1>2. ~Collect /\ ~CollectFailure /\ ~GitFails
  BY Zenon DEF Collect, CollectFailure, GitFails
<1>3. ~WriteMetric /\ ~MetricsWritten /\ ~Add /\ ~Commit
  BY Zenon DEF WriteMetric, MetricsWritten, Add, Commit
<1>4. ~Crash /\ ~Tear /\ ~Develop /\ ~Restore /\ ~StageForeign
  BY Zenon DEF Crash, Tear, Develop, Restore, StageForeign
<1>5. ~UNCHANGED vars
  BY DEF vars
<1>6. NothingToCommit \/ Check \/ WriteLatest
  BY <1>1, <1>2, <1>3, <1>4, <1>5, Zenon DEF Next, Recorder
<1>7. CASE NothingToCommit
  BY <1>7 DEF NothingToCommit
<1>8. CASE Check
  BY <1>8, Zenon DEF Check
<1>9. CASE WriteLatest
  BY <1>9, Zenon DEF WriteLatest
<1>10. QED
  BY <1>6, <1>7, <1>8, <1>9

\* "unchanged" is said of figures that are those of the programs: in the work tree, and
\* in the last commit when the run is to publish.
THEOREM UnchangedIsTrue == Spec => UnchangedIsCurrent
<1>1. ASSUME IInv, [Next]_vars, said' = "unchanged", said # said'
      PROVE  HasFigures(work) /\ (publishing => HasFigures(head))
  <2>1. CASE pc = "add" /\ paths = {}
    <3>1. publishing /\ \A f \in File : work[f] = head[f]
      BY <1>1, <2>1 DEF IInv, OwnIndex, OwnPaths
    <3>2. HasFigures(work)
      BY <1>1, <2>1, OrderFacts DEF IInv, Written, AllPassed, Measured, HasFigures
    <3>3. QED
      BY <3>1, <3>2, OrderFacts DEF HasFigures
  <2>2. CASE pc = "check" /\ index = {}
    <3>1. publishing /\ \A f \in File : work[f] = head[f]
      BY <1>1, <2>2 DEF IInv, OwnIndex, OwnPaths
    <3>2. HasFigures(work)
      BY <1>1, <2>2, OrderFacts DEF IInv, Written, AllPassed, Measured, HasFigures
    <3>3. QED
      BY <3>1, <3>2, OrderFacts DEF HasFigures
  <2>3. CASE WriteLatest /\ ~publishing /\ paths' = {}
    <3>1. work[Latest].figure = rows /\ pc = "latest"
      BY <1>1, <2>3, OrderFacts, PutEffect DEF WriteLatest, IInv, TypeOK
    <3>2. HasFigures(work)
      BY <1>1, <3>1, OrderFacts DEF IInv, Written, AllPassed, Measured, HasFigures
    <3>3. QED
      BY <2>3, <3>2
  <2>4. QED
    BY <1>1, <2>1, <2>2, <2>3, WhoIsUnchanged
<1>2. IInv /\ [Next]_vars =>
        [said' = "unchanged" /\ said # said' =>
            HasFigures(work) /\ (publishing => HasFigures(head))]_vars
  BY <1>1
<1>3. QED
  BY <1>2, RecorderInvariant, PTL DEF Spec, UnchangedIsCurrent

-----------------------------------------------------------------------------
\* Missed samples.

\* Four missed samples of a host are repeated, and the samples are counted.
THEOREM RetriesCover == Spec => []MissesAreRetried
<1>1. Init => Retried
  BY OrderFacts DEF Init, Retried
<1>2. TypeOK /\ Retried /\ [Next]_vars => Retried'
  <2> SUFFICES ASSUME TypeOK, Retried, [Next]_vars PROVE Retried'
    OBVIOUS
  <2>1. misses \in Nat /\ rows \in [Host -> Seq(Rows)] /\ attempt \in [Host -> 1 .. 5]
    BY OrderFacts DEF TypeOK
  <2>2. ASSUME NEW p \in BOOLEAN, Start(p) PROVE Retried'
    BY <2>1, <2>2 DEF Start, Retried, boundVars
  <2>3. ASSUME NEW h \in Host, RunOne(h) PROVE Retried'
    <3>1. PICK row \in Rows :
              /\ RunMeasured(h, row)
              /\ row.pass /\ row.missing => misses' = misses + 1
              /\ misses' \in {misses, misses + 1}
      BY <2>3, RunOneRow
    <3>2. CASE /\ attempt' = [attempt EXCEPT ![h] = @ + 1] /\ UNCHANGED rows
               /\ row.pass /\ row.missing
      <4>1. misses' = misses + 1
        BY <3>1, <3>2
      <4>2. QED
        BY <2>1, <3>2, <4>1 DEF Retried
    <3>3. CASE /\ rows' = [rows EXCEPT ![h] = Append(@, row)]
               /\ attempt' = [attempt EXCEPT ![h] = 1]
               /\ ~(row.pass /\ row.missing /\ attempt[h] < 5)
      <4>1. ASSUME row.pass, row.missing PROVE misses' >= 5
        <5>1. misses' = misses + 1 /\ ~(attempt[h] < 5)
          BY <3>1, <3>3, <4>1, Zenon
        <5>2. attempt[h] <= misses + 1 /\ attempt[h] \in 1 .. 5
          BY <2>1 DEF Retried
        <5>3. QED
          BY <2>1, <5>1, <5>2
      <4>2. \A i \in Host : attempt'[i] <= misses' + 1
        <5>1. misses' \in Nat /\ misses' >= misses
          BY <2>1, <3>1
        <5>2. attempt' = [attempt EXCEPT ![h] = 1]
          BY <3>3
        <5>3. QED
          BY <2>1, <5>1, <5>2 DEF Retried
      <4>3. ASSUME NEW i \in Host, NEW k \in DOMAIN rows'[i],
                   rows'[i][k].pass, rows'[i][k].missing
            PROVE  misses' >= 5
        <5>1. CASE i = h /\ k = Len(rows[h]) + 1
          <6>1. rows'[i][k] = row
            BY <2>1, <3>3, <5>1
          <6>2. QED
            BY <4>1, <4>3, <6>1
        <5>2. CASE i # h \/ k # Len(rows[h]) + 1
          <6>1. k \in DOMAIN rows[i] /\ rows'[i][k] = rows[i][k]
            BY <2>1, <3>3, <5>2
          <6>2. misses >= 5
            BY <4>3, <6>1 DEF Retried
          <6>3. QED
            BY <2>1, <3>1, <6>2
        <5>3. QED
          BY <5>1, <5>2
      <4>4. QED
        BY <4>2, <4>3 DEF Retried
    <3>4. QED
      BY <3>1, <3>2, <3>3 DEF RunMeasured
  <2>4. CASE UNCHANGED <<rows, attempt, misses>>
    BY <2>4 DEF Retried
  <2>5. ASSUME ~\E p \in BOOLEAN : Start(p), ~\E h \in Host : RunOne(h)
        PROVE  UNCHANGED <<rows, attempt, misses>>
    <3> USE DEF Abort, SayUnchanged, runVars, boundVars
    <3>1. CASE Collect \/ CollectFailure \/ NothingToCommit \/ GitFails
      BY <3>1, Zenon DEF Collect, CollectFailure, NothingToCommit, GitFails
    <3>2. CASE WriteMetric \/ MetricsWritten \/ WriteLatest
      BY <3>2, Zenon DEF WriteMetric, MetricsWritten, WriteLatest
    <3>3. CASE Add \/ Check \/ Commit
      BY <3>3, Zenon DEF Add, Check, Commit
    <3>4. CASE Crash \/ Tear \/ Develop \/ Restore \/ StageForeign
      BY <3>4, Zenon DEF Crash, Tear, Develop, Restore, StageForeign
    <3>5. CASE UNCHANGED vars
      BY <3>5 DEF vars
    <3>6. QED
      BY <2>5, <3>1, <3>2, <3>3, <3>4, <3>5 DEF Next, Recorder
  <2>6. QED
    BY <2>2, <2>3, <2>4, <2>5
<1>3. TypeOK /\ Retried => MissesAreRetried
  <2> SUFFICES ASSUME TypeOK, Retried PROVE MissesAreRetried
    OBVIOUS
  <2>1. misses \in Nat /\ ~(misses < 5 /\ misses >= 5)
    BY OrderFacts DEF TypeOK
  <2>2. QED
    BY <2>1, Zenon DEF Retried, MissesAreRetried
<1>4. QED
  BY <1>1, <1>2, <1>3, TypeCorrect, PTL DEF Spec
=============================================================================
