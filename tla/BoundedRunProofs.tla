--------------------------- MODULE BoundedRunProofs ---------------------------
(***************************************************************************)
(* Theorems about a bounded run, for every deadline, program, set of bound *)
(* processes and size of input and output: what it reports is true, what   *)
(* it stops is gone, and what was asked for is written.                    *)
(***************************************************************************)
EXTENDS BoundedRun, TLAPS

\* Why the watcher is off, and what its status says.
Codes ==
    /\ runner \in {"spawned", "writing", "loop"} => reason = "none"
    /\ runner \in {"joining", "done"} => watcher = "off"
    /\ watcher = "off" /\ reason = "none" =>
          (phase = "exited" /\ watcherCode = exitCode) \/ watcherCode = 124
    /\ phase = "killed" => watcher = "off"
    /\ reason # "none" => watcher = "off"
    /\ result.kind # "none" => runner = "done" /\ result = ResultOfRun

\* The reports of a command line that has left its finally clause.
Reports ==
    /\ phase \in {"cleanup", "exited"} /\ ran => asked \subseteq tried
    /\ phase = "exited" /\ exitCode = 0 => failed = {}

\* Every piece printed is in its pipe or with its reader, and a reader that met the
\* end has them all.
Streams ==
    /\ \A s \in Stream : got[s] + pipe[s] = printed[s]
    /\ \A s \in Stream : eof[s] => pipe[s] = 0 /\ Over
    /\ punctual /\ runner = "done" => \A s \in Stream : eof[s]

\* The readers are there before a write can wait, so in a punctual run time passes
\* only when the program hangs.
Times ==
    /\ runner # "spawned" => readers
    /\ punctual /\ elapsed > 0 => hung
    /\ reason = "timeout" => elapsed > 0
    /\ watcher = "off" /\ reason = "none" =>
          (phase = "exited" /\ watcherCode = exitCode) \/ elapsed > 0

\* A write that waits for its pipe is of the run, and within the bound.
Pends ==
    pending # "none" => phase \in {"run", "killed"} /\ printed[pending] < MaxPrinted[pending]

IInv == TypeOK /\ Pends /\ Codes /\ NothingOutlivesStop /\ Reports /\ Streams /\ Times

-----------------------------------------------------------------------------
\* The bounded process.

\* What the proofs use of the constants.
LEMMA ConstantFacts ==
    /\ \A a \in Asked : a \in SUBSET Report
    /\ ExitCode \subseteq Int /\ LimitCode \subseteq Int /\ Stubborn \subseteq Bound
    /\ MaxInput \in Nat /\ \A s \in Stream : MaxPrinted[s] \in Nat
    /\ Deadline \in Nat \ {0} /\ Grace \in Nat \ {0} /\ Backstop \in Nat \ {0}
    /\ \A c \in Int : c % 256 \in Int
BY CommandAssumption, BoundedRunAssumption DEF Backstop

\* Leaving the try block moves main to its reports and touches nothing else.
LEMMA LeaveEffect ==
    ASSUME CommandTypeOK, NEW code \in Int, NEW crash \in BOOLEAN, Leave(code, crash)
    PROVE  CommandTypeOK' /\ phase' = "report" /\ UNCHANGED <<childVars, ioVars>>
BY DEF Leave, CommandTypeOK, Phases, childVars, ioVars

\* main goes on to its next phase.
LEMMA GotoEffect ==
    ASSUME CommandTypeOK, NEW p \in Phases, Goto(p), ran' \in BOOLEAN
    PROVE  CommandTypeOK' /\ phase' = p /\ UNCHANGED ioVars
BY DEF Goto, CommandTypeOK, childVars, ioVars

\* One piece more in a pipe, and printed.
LEMMA PrintEffect ==
    ASSUME CommandTypeOK, NEW s \in Stream, printed[s] < MaxPrinted[s], PutOn(s)
    PROVE  /\ pipe' \in [Stream -> 0 .. 1] /\ printed' \in [Stream -> Nat]
           /\ \A t \in Stream : printed'[t] <= MaxPrinted[t]
           /\ \A t \in Stream : printed'[t] - pipe'[t] = printed[t] - pipe[t]
<1>1. printed[s] + 1 <= MaxPrinted[s]
  BY ConstantFacts DEF CommandTypeOK
<1>2. QED
  BY <1>1, ConstantFacts DEF PutOn, CommandTypeOK

\* What one step of the process does.
LEMMA MainEffect ==
    ASSUME CommandTypeOK, Pends, Reports, Main
    PROVE  /\ CommandTypeOK' /\ Pends' /\ Reports'
           /\ ~Over /\ phase' # "killed"
           /\ \A t \in Stream : printed'[t] - pipe'[t] = printed[t] - pipe[t]
<1> DEFINE Goal ==
        /\ CommandTypeOK' /\ Pends' /\ Reports'
        /\ ~Over /\ phase' # "killed"
        /\ \A t \in Stream : printed'[t] - pipe'[t] = printed[t] - pipe[t]
<1> SUFFICES Goal
  OBVIOUS
<1>leave. ASSUME NEW code \in Int, NEW crash \in BOOLEAN, Leave(code, crash),
             phase \in {"load", "bind", "run"}, pending = "none"
      PROVE  Goal
  BY <1>leave, LeaveEffect DEF Pends, Reports, Over, ioVars
<1>values. 0 \in Int /\ 1 \in Int /\ 130 \in Int /\ TRUE \in BOOLEAN /\ FALSE \in BOOLEAN
  OBVIOUS
<1>caught. ASSUME phase \in {"load", "bind", "run"}, pending = "none", Fail \/ Crash \/ Interrupt
      PROVE  Goal
  BY <1>leave, <1>caught, <1>values, Zenon DEF Fail, Crash, Interrupt
<1>1. CASE Load
  <2>1. phase = "load" /\ pending = "none"
    BY <1>1 DEF Load, Pends
  <2>2. CASE Goto("bind") /\ UNCHANGED ran
    BY <2>1, <2>2, GotoEffect DEF Phases, CommandTypeOK, Pends, Reports, Over, ioVars
  <2>3. QED
    BY <1>1, <1>caught, <2>1, <2>2, Zenon DEF Load
<1>2. CASE ListRules
  <2>1. phase = "bind" /\ pending = "none" /\ Leave(0, FALSE)
    BY <1>2 DEF ListRules, Pends
  <2>2. QED
    BY <1>leave, <1>values, <2>1, Zenon
<1>3. CASE Bind
  <2>1. phase = "bind" /\ pending = "none"
    BY <1>3 DEF Bind, Pends
  <2>2. CASE Goto("run") /\ ran' = TRUE
    BY <2>1, <2>2, GotoEffect DEF Phases, Pends, Reports, Over, ioVars
  <2>3. QED
    BY <1>3, <1>caught, <2>1, <2>2, Zenon DEF Bind
<1>4. ASSUME NEW b \in Bound, EnsureProcess(b) PROVE Goal
  BY <1>4 DEF EnsureProcess, Running, CommandTypeOK, Pends, Reports, Over, mainVars, ioVars
<1>5. CASE ReadInput
  BY <1>5 DEF ReadInput, Running, CommandTypeOK, Pends, Reports, Over, mainVars, childVars
<1>6. ASSUME NEW s \in Stream, WriteString(s) PROVE Goal
  BY <1>6 DEF WriteString, Running, CommandTypeOK, Pends, Reports, Over, mainVars, childVars
<1>7. CASE Written
  <2>1. phase = "run" /\ pending \in Stream /\ printed[pending] < MaxPrinted[pending]
    BY <1>7 DEF Written, CommandTypeOK, Pends
  <2>2. PutOn(pending) /\ pending' = "none" /\ UNCHANGED <<mainVars, childVars, large, inPipe>>
    BY <1>7 DEF Written
  <2>3. /\ pipe' \in [Stream -> 0 .. 1] /\ printed' \in [Stream -> Nat]
        /\ \A t \in Stream : printed'[t] <= MaxPrinted[t]
        /\ \A t \in Stream : printed'[t] - pipe'[t] = printed[t] - pipe[t]
    BY <2>1, <2>2, PrintEffect
  <2>4. QED
    BY <2>1, <2>2, <2>3 DEF CommandTypeOK, Pends, Reports, Over, mainVars, childVars
<1>8. CASE Grow
  BY <1>8 DEF Grow, Running, CommandTypeOK, Pends, Reports, Over, mainVars, childVars
<1>9. CASE RunEnds
  <2>1. phase = "run" /\ pending = "none"
    BY <1>9 DEF RunEnds, Running
  <2>2. ASSUME NEW code \in {0} \cup ExitCode \cup LimitCode, Leave(code, FALSE) PROVE Goal
    <3>1. code \in Int
      BY ConstantFacts
    <3>2. QED
      BY <1>leave, <2>1, <2>2, <3>1
  <2>3. QED
    BY <1>9, <1>caught, <2>1, <2>2, Zenon DEF RunEnds
<1>10. ASSUME NEW r \in Report, WriteReport(r) PROVE Goal
  BY <1>10 DEF WriteReport, NextReport, CommandTypeOK, Pends, Reports, Over, childVars, ioVars
<1>11. CASE ReportsDone
  <2>1. phase = "report" /\ Goto("cleanup") /\ UNCHANGED ran /\ Due \subseteq tried
    BY <1>11 DEF ReportsDone
  <2>2. CommandTypeOK' /\ phase' = "cleanup" /\ UNCHANGED ioVars
    BY <2>1, GotoEffect DEF Phases, CommandTypeOK
  <2>3. ran => asked \subseteq tried
    BY <2>1 DEF Due
  <2>4. QED
    BY <2>1, <2>2, <2>3 DEF Goto, Pends, Reports, Over, ioVars
<1>12. CASE Cleanup
  BY <1>12 DEF Cleanup, CommandTypeOK, Pends, Reports, Over, mainVars, ioVars
<1>13. CASE Finish
  <2>1. /\ phase = "cleanup" /\ phase' = "exited" /\ exitCode' = Status
        /\ UNCHANGED <<asked, ran, crashed, tried, failed, childVars, pending, large, inPipe>>
    BY <1>13 DEF Finish
  <2>2. /\ pipe' \in [Stream -> 0 .. 1] /\ printed' \in [Stream -> Nat]
        /\ \A t \in Stream : printed'[t] <= MaxPrinted[t]
        /\ \A t \in Stream : printed'[t] - pipe'[t] = printed[t] - pipe[t]
    <3>1. CASE UNCHANGED <<pipe, printed>>
      BY <3>1 DEF CommandTypeOK
    <3>2. CASE printed["stderr"] # MaxPrinted["stderr"] /\ PutOn("stderr")
      <4>1. "stderr" \in Stream
        BY DEF Stream
      <4>2. printed["stderr"] < MaxPrinted["stderr"]
        BY <3>2, <4>1, ConstantFacts DEF CommandTypeOK
      <4>3. QED
        BY <3>2, <4>1, <4>2, PrintEffect
    <3>3. QED
      BY <1>13, <3>1, <3>2 DEF Finish
  <2>3. Status \in Int /\ (Status = 0 => failed = {})
    BY ConstantFacts DEF Status, CommandTypeOK
  <2>4. pending = "none"
    BY <2>1 DEF Pends
  <2>5. QED
    BY <2>1, <2>2, <2>3, <2>4 DEF CommandTypeOK, Phases, Pends, Reports, Over, childVars
<1>14. QED
  BY <1>1, <1>2, <1>3, <1>4, <1>5, <1>6, <1>7, <1>8, <1>9, <1>10, <1>11, <1>12, <1>13 DEF Main

-----------------------------------------------------------------------------
\* The invariant.

\* The invariant holds of a run that was just spawned.
LEMMA InvInit == Init => IInv
<1> SUFFICES ASSUME Init PROVE IInv
  OBVIOUS
<1>1. CommandTypeOK /\ Pends /\ Reports
  <2>1. asked \in SUBSET Report
    BY ConstantFacts DEF Init, CommandInit
  <2>2. /\ pipe \in [Stream -> 0 .. 1] /\ printed \in [Stream -> Nat]
        /\ \A s \in Stream : printed[s] <= MaxPrinted[s]
    BY ConstantFacts DEF Init, CommandInit
  <2>3. QED
    <3>1. CommandTypeOK
      <4>1. phase \in Phases /\ pending \in Stream \cup {"none"}
        BY DEF Init, CommandInit, Phases
      <4>2. ran \in BOOLEAN /\ crashed \in BOOLEAN /\ large \in BOOLEAN
        BY DEF Init, CommandInit
      <4>3. exitCode \in Int /\ inPipe \in 0 .. 1
        BY DEF Init, CommandInit
      <4>4. /\ tried \in SUBSET Report /\ failed \in SUBSET tried
            /\ started \in SUBSET Bound /\ alive \in SUBSET started
        BY DEF Init, CommandInit
      <4>5. QED
        BY <2>1, <2>2, <4>1, <4>2, <4>3, <4>4 DEF CommandTypeOK
    <3>2. Pends /\ Reports
      BY DEF Init, CommandInit, Pends, Reports
    <3>3. QED
      BY <3>1, <3>2
<1>2. TypeOK
  <2>1. /\ got \in [Stream -> Nat] /\ eof \in [Stream -> BOOLEAN]
        /\ result \in [kind : {"none", "completed", "timeout", "memory"}, code : Int]
    BY DEF Init, NoResult
  <2>2. input \in 0 .. MaxInput /\ watcherCode \in Int /\ elapsed \in Nat
    BY ConstantFacts DEF Init
  <2>3. QED
    BY <1>1, <2>1, <2>2 DEF Init, TypeOK
<1>3. Codes /\ NothingOutlivesStop
  BY DEF Init, CommandInit, NoResult, Codes, NothingOutlivesStop
<1>4. Streams
  BY DEF Init, CommandInit, Streams
<1>5. Times
  BY DEF Init, Times
<1>6. QED
  BY <1>1, <1>2, <1>3, <1>4, <1>5 DEF IInv

\* The steps of the process (main and what it calls) keep the invariant.
LEMMA InvProgram == ASSUME IInv, Program PROVE IInv'
<1>1. /\ CommandTypeOK' /\ Pends' /\ Reports'
      /\ ~Over /\ phase' # "killed"
      /\ \A t \in Stream : printed'[t] - pipe'[t] = printed[t] - pipe[t]
  BY MainEffect DEF Program, IInv, TypeOK
<1>2. UNCHANGED <<runnerVars, readerVars, watcherVars, hung, timeVars>>
  BY DEF Program
<1>3. TypeOK'
  BY <1>1, <1>2 DEF IInv, TypeOK, runnerVars, readerVars, watcherVars, timeVars
<1>4. Codes' /\ NothingOutlivesStop'
  BY <1>1, <1>2
     DEF IInv, Codes, NothingOutlivesStop, ResultOfRun, Over, runnerVars, watcherVars
<1>5. Streams'
  <2>1. \A s \in Stream : got'[s] + pipe'[s] = printed'[s]
    <3> SUFFICES ASSUME NEW s \in Stream PROVE got'[s] + pipe'[s] = printed'[s]
      OBVIOUS
    <3>1. /\ printed'[s] \in Int /\ pipe'[s] \in Int /\ printed[s] \in Int /\ pipe[s] \in Int
          /\ got[s] \in Int /\ got'[s] = got[s]
      BY <1>1, <1>2 DEF IInv, TypeOK, CommandTypeOK, readerVars
    <3>2. printed'[s] - pipe'[s] = printed[s] - pipe[s] /\ got[s] + pipe[s] = printed[s]
      BY <1>1 DEF IInv, Streams
    <3>3. QED
      BY <3>1, <3>2
  <2>2. QED
    BY <1>1, <1>2, <2>1 DEF IInv, Streams, Over, runnerVars, readerVars, timeVars
<1>6. Times'
  BY <1>1, <1>2 DEF IInv, Times, Codes, Over, runnerVars, watcherVars, timeVars
<1>7. QED
  BY <1>1, <1>3, <1>4, <1>5, <1>6 DEF IInv

\* The process and the pipes are as they were, and no thread has moved.
LEMMA InvHang == ASSUME IInv, Hang PROVE IInv'
BY DEF Hang, IInv, TypeOK, CommandTypeOK, Pends, Codes, NothingOutlivesStop, Reports, Streams,
       Times, ResultOfRun, Over, commandVars, mainVars, childVars, ioVars, runnerVars,
       readerVars, watcherVars, timeVars

\* In a punctual run all wait together only when the program hangs.
LEMMA InvTick == ASSUME IInv, Tick PROVE IInv'
<1>1. /\ UNCHANGED <<commandVars, runner, input, readers, reason, result, readerVars,
                      watcherVars, hung, punctual>>
      /\ elapsed' = elapsed + 1 /\ elapsed \in Nat /\ sampled' = FALSE
  BY DEF Tick, IInv, TypeOK
<1>2. ASSUME punctual, ~hung PROVE FALSE
  <2>1. ProgramWaits /\ RunnerWaits /\ ReadersWait /\ WatcherWaits
    BY <1>2 DEF Tick
  <2>2. watcher = "on" /\ runner \in {"writing", "loop"} /\ readers
    BY <2>1 DEF RunnerWaits, IInv, Times
  <2>3. \A s \in Stream : pipe[s] = 0
    BY <2>1, <2>2 DEF ReadersWait
  <2>4. ~Over
    BY <2>1, <2>2 DEF WatcherWaits, Over, IInv, Codes
  <2>5. "stderr" \in Stream /\ (pending # "none" => pending \in Stream)
    BY DEF IInv, TypeOK, CommandTypeOK, Stream
  <2>6. QED
    BY <1>2, <2>1, <2>3, <2>4, <2>5 DEF ProgramWaits
<1>3. Times'
  BY <1>1, <1>2
     DEF IInv, Times, commandVars, mainVars, watcherVars
<1>4. TypeOK'
  <2>1. CommandTypeOK'
    BY <1>1 DEF IInv, TypeOK, CommandTypeOK, commandVars, mainVars, childVars, ioVars
  <2>2. elapsed' \in Nat /\ sampled' \in BOOLEAN
    <3>1. elapsed' = elapsed + 1 /\ elapsed \in Nat
      BY <1>1
    <3>2. elapsed' \in Nat
      BY <3>1
    <3>3. sampled' = FALSE
      BY <1>1, Zenon
    <3>4. QED
      BY <3>2, <3>3, Zenon
  <2>3. QED
    BY <1>1, <2>1, <2>2 DEF IInv, TypeOK, readerVars, watcherVars
<1>5. Pends' /\ Codes' /\ NothingOutlivesStop' /\ Reports' /\ Streams'
  BY <1>1
     DEF IInv, Pends, Codes, NothingOutlivesStop, Reports, Streams, ResultOfRun, Over,
         commandVars, mainVars, childVars, ioVars, readerVars, watcherVars
<1>6. QED
  BY <1>3, <1>4, <1>5 DEF IInv

\* timeout(1) passes a status on.
LEMMA InvWatcherExit == ASSUME IInv, WatcherExit PROVE IInv'
BY DEF WatcherExit, IInv, TypeOK, CommandTypeOK, Pends, Codes, NothingOutlivesStop, Reports,
       Streams, Times, ResultOfRun, Over, commandVars, mainVars, childVars, ioVars, runnerVars,
       readerVars, timeVars

\* timeout(1) stops the process at the backstop.
LEMMA InvWatcherStops == ASSUME IInv, WatcherStops PROVE IInv'
<1>1. elapsed > 0 /\ watcher = "on" /\ ~Over
  BY ConstantFacts DEF WatcherStops, IInv, TypeOK
<1>2. TypeOK'
  BY DEF WatcherStops, IInv, TypeOK, CommandTypeOK, Phases, ioVars, runnerVars, readerVars, timeVars
<1>3. Codes' /\ NothingOutlivesStop'
  BY <1>1 DEF WatcherStops, IInv, Codes, NothingOutlivesStop, Over, runnerVars
<1>4. Pends' /\ Reports'
  BY <1>1 DEF WatcherStops, IInv, Pends, Reports, Over, ioVars
<1>5. Streams' /\ Times'
  BY <1>1 DEF WatcherStops, IInv, Streams, Times, Over, ioVars, runnerVars, readerVars, timeVars
<1>6. QED
  BY <1>2, <1>3, <1>4, <1>5 DEF IInv

\* The reader threads keep the invariant.
LEMMA InvReader == ASSUME IInv, NEW s \in Stream, Read(s) \/ ReadEnd(s) PROVE IInv'
<1>1. CASE Read(s)
  <2>1. /\ pipe[s] = 1 /\ pipe' = [pipe EXCEPT ![s] = 0] /\ got' = [got EXCEPT ![s] = @ + 1]
        /\ UNCHANGED <<mainVars, childVars, pending, large, inPipe, printed,
                       runnerVars, eof, watcherVars, hung, timeVars>>
    BY <1>1 DEF Read, IInv, TypeOK, CommandTypeOK
  <2>2. TypeOK' /\ Pends' /\ Reports'
    BY <2>1
       DEF IInv, TypeOK, CommandTypeOK, Pends, Reports, mainVars, childVars, runnerVars,
           watcherVars, timeVars
  <2>3. Codes' /\ NothingOutlivesStop' /\ Times'
    BY <2>1
       DEF IInv, Codes, NothingOutlivesStop, Times, ResultOfRun, Over, mainVars, childVars,
           runnerVars, watcherVars, timeVars
  <2>4. Streams'
    BY <2>1
       DEF IInv, TypeOK, CommandTypeOK, Streams, Over, mainVars, runnerVars, timeVars
  <2>5. QED
    BY <2>2, <2>3, <2>4 DEF IInv
<1>2. CASE ReadEnd(s)
  BY <1>2
     DEF ReadEnd, IInv, TypeOK, CommandTypeOK, Pends, Codes, NothingOutlivesStop, Reports,
         Streams, Times, ResultOfRun, Over, commandVars, mainVars, childVars, ioVars, runnerVars,
         watcherVars, timeVars
<1>3. QED
  BY <1>1, <1>2

\* What _kill_group leaves behind.
LEMMA KillEffect ==
    ASSUME IInv, KillGroup
    PROVE  /\ CommandTypeOK' /\ Pends' /\ Reports' /\ Over' /\ alive' = {}
           /\ watcher' = "off" /\ watcherCode' \in Int /\ (Over => phase' = phase)
           /\ UNCHANGED <<ioVars, exitCode>>
BY DEF KillGroup, IInv, TypeOK, CommandTypeOK, Phases, Pends, Reports, Over, ioVars

\* The loop stops a run (the cap or the deadline).
LEMMA InvStop ==
    ASSUME IInv, NEW why \in {"timeout", "memory"}, Stop(why), why = "timeout" => elapsed > 0
    PROVE  IInv'
<1>1. /\ runner = "loop" /\ watcher = "on" /\ KillGroup
      /\ runner' = "reaping" /\ reason' = why /\ sampled' = FALSE
      /\ UNCHANGED <<input, readers, result, readerVars, hung, timeVars>>
  BY DEF Stop
<1>2. /\ CommandTypeOK' /\ Pends' /\ Reports' /\ Over' /\ alive' = {}
      /\ watcher' = "off" /\ watcherCode' \in Int /\ (Over => phase' = phase)
      /\ UNCHANGED <<ioVars, exitCode>>
  BY <1>1, KillEffect
<1>3. TypeOK'
  BY <1>1, <1>2 DEF IInv, TypeOK, readerVars, timeVars
<1>4. Codes' /\ NothingOutlivesStop'
  BY <1>1, <1>2 DEF IInv, Codes, NothingOutlivesStop
<1>5. Streams' /\ Times'
  BY <1>1, <1>2 DEF IInv, Streams, Times, ioVars, readerVars, timeVars
<1>6. QED
  BY <1>2, <1>3, <1>4, <1>5 DEF IInv

\* Joining the readers and returning.
LEMMA InvJoin ==
    ASSUME IInv, Join(ResultOfRun), punctual => \A s \in Stream : eof[s]
    PROVE  IInv'
<1>1. /\ runner = "joining" /\ runner' = "done" /\ result' = ResultOfRun
      /\ UNCHANGED <<commandVars, input, readers, reason, sampled, readerVars, watcherVars, hung,
                     timeVars>>
  BY DEF Join
<1>2. ResultOfRun \in [kind : {"none", "completed", "timeout", "memory"}, code : Int]
  BY DEF ResultOfRun, IInv, TypeOK
<1>3. TypeOK' /\ Pends' /\ Reports'
  BY <1>1, <1>2
     DEF IInv, TypeOK, CommandTypeOK, Pends, Reports, commandVars, mainVars, childVars, ioVars,
         readerVars, watcherVars, timeVars
<1>4. Codes' /\ NothingOutlivesStop'
  BY <1>1
     DEF IInv, Codes, NothingOutlivesStop, ResultOfRun, Over, commandVars, mainVars, childVars,
         watcherVars
<1>5. Streams' /\ Times'
  BY <1>1
     DEF IInv, Streams, Times, Over, commandVars, mainVars, ioVars, readerVars, watcherVars,
         timeVars
<1>6. QED
  BY <1>3, <1>4, <1>5 DEF IInv

\* The steps of bounded_run itself keep the invariant.
LEMMA InvRunner == ASSUME IInv, Runner \/ GiveUp PROVE IInv'
<1>1. CASE StartReaders
  BY <1>1
     DEF StartReaders, IInv, TypeOK, CommandTypeOK, Pends, Codes, NothingOutlivesStop, Reports,
         Streams, Times, ResultOfRun, Over, commandVars, mainVars, childVars, ioVars, readerVars,
         watcherVars, timeVars
<1>2. CASE WriteInput
  <2>1. input - 1 \in 0 .. MaxInput
    BY <1>2, ConstantFacts DEF WriteInput, IInv, TypeOK
  <2>2. TypeOK' /\ Pends' /\ Reports'
    BY <1>2, <2>1
       DEF WriteInput, IInv, TypeOK, CommandTypeOK, Pends, Reports, mainVars, childVars,
           readerVars, watcherVars, timeVars
  <2>3. Codes' /\ NothingOutlivesStop' /\ Streams' /\ Times'
    BY <1>2
       DEF WriteInput, IInv, Codes, NothingOutlivesStop, Streams, Times, ResultOfRun, Over,
           mainVars, childVars, readerVars, watcherVars, timeVars
  <2>4. QED
    BY <2>2, <2>3 DEF IInv
<1>3. CASE InputDone
  BY <1>3
     DEF InputDone, IInv, TypeOK, CommandTypeOK, Pends, Codes, NothingOutlivesStop, Reports,
         Streams, Times, ResultOfRun, Over, mainVars, childVars, readerVars, watcherVars, timeVars
<1>4. CASE Reap
  <2>1. TypeOK'
    BY <1>4
       DEF Reap, IInv, TypeOK, CommandTypeOK, commandVars, mainVars, childVars, ioVars,
           readerVars, watcherVars, timeVars
  <2>2. Pends' /\ Codes' /\ NothingOutlivesStop' /\ Reports' /\ Streams' /\ Times'
    BY <1>4
       DEF Reap, IInv, Pends, Codes, NothingOutlivesStop, Reports, Streams, Times, ResultOfRun,
           Over, commandVars, mainVars, childVars, ioVars, readerVars, watcherVars, timeVars
  <2>3. QED
    BY <2>1, <2>2 DEF IInv
<1>5. CASE StopLarge
  BY <1>5, InvStop DEF StopLarge
<1>6. CASE StopLate
  <2>1. elapsed > 0
    BY <1>6, ConstantFacts DEF StopLate, IInv, TypeOK
  <2>2. QED
    BY <1>6, <2>1, InvStop DEF StopLate
<1>7. CASE Finished
  BY <1>7, InvJoin DEF Finished
<1>8. CASE GiveUp
  BY <1>8, InvJoin DEF GiveUp
<1>9. CASE Sample
  BY <1>9
     DEF Sample, IInv, TypeOK, CommandTypeOK, Pends, Codes, NothingOutlivesStop, Reports,
         Streams, Times, ResultOfRun, Over, commandVars, mainVars, childVars, ioVars, readerVars,
         watcherVars, timeVars
<1>10. QED
  BY <1>1, <1>2, <1>3, <1>4, <1>5, <1>6, <1>7, <1>8, <1>9 DEF Runner

\* Every step does.
LEMMA InvStep == IInv /\ [Next]_vars => IInv'
<1> SUFFICES ASSUME IInv, [Next]_vars PROVE IInv'
  OBVIOUS
<1>1. CASE UNCHANGED vars
  BY <1>1
     DEF vars, IInv, TypeOK, CommandTypeOK, Pends, Codes, NothingOutlivesStop, Reports, Streams,
         Times, ResultOfRun, Over, commandVars, mainVars, childVars, ioVars, runnerVars,
         readerVars, watcherVars, timeVars
<1>2. QED
  BY <1>1, InvProgram, InvHang, InvTick, InvWatcherExit, InvWatcherStops, InvReader, InvRunner
     DEF Next, Watcher, Reader

-----------------------------------------------------------------------------
\* What a result says of the way the run ended.
LEMMA ResultFacts ==
    ASSUME IInv, result.kind # "none"
    PROVE  /\ runner = "done" /\ watcher = "off" /\ result.code = watcherCode
           /\ result.kind = "completed" => reason = "none" /\ watcherCode \notin TimeoutStatus
           /\ result.kind = "timeout" =>
                 reason = "timeout" \/ (reason = "none" /\ watcherCode \in TimeoutStatus)
<1>1. runner = "done" /\ watcher = "off" /\ result = ResultOfRun
  BY DEF IInv, Codes
<1>2. reason \in {"none", "timeout", "memory"}
  BY DEF IInv, TypeOK
<1>3. ResultOfRun.code = watcherCode
  BY DEF ResultOfRun
<1>4. CASE reason # "none"
  <2>1. ResultOfRun.kind = reason
    BY <1>4 DEF ResultOfRun
  <2>2. QED
    BY <1>1, <1>2, <1>3, <1>4, <2>1
<1>5. CASE reason = "none" /\ watcherCode \in TimeoutStatus
  <2>1. ResultOfRun.kind = "timeout"
    BY <1>5 DEF ResultOfRun
  <2>2. QED
    BY <1>1, <1>3, <1>5, <2>1
<1>6. CASE reason = "none" /\ watcherCode \notin TimeoutStatus
  <2>1. ResultOfRun.kind = "completed"
    BY <1>6 DEF ResultOfRun
  <2>2. QED
    BY <1>1, <1>3, <1>6, <2>1
<1>7. QED
  BY <1>4, <1>5, <1>6

\* The invariant of bounded_run, timeout(1), the process and their pipes.
THEOREM RunInvariant == Spec => []IInv
<1>1. QED
  BY InvInit, InvStep, PTL DEF Spec

\* Every variable of the run and of the process keeps its type.
THEOREM TypeCorrect == Spec => []TypeOK
<1>1. IInv => TypeOK
  BY DEF IInv
<1>2. QED
  BY <1>1, RunInvariant, PTL

\* A time-out is reported of a program that hung, unless the program exited with a
\* status of timeout(1), whatever the sizes of its input and output are.
THEOREM TimeoutsAreTrue == Spec => []TimeoutIsTrueOfOtherCodes
<1>1. IInv => TimeoutIsTrueOfOtherCodes
  BY ResultFacts DEF IInv, Codes, Times, TimeoutIsTrueOfOtherCodes
<1>2. QED
  BY <1>1, RunInvariant, PTL

\* A run that completes reports the status its process ended with.
THEOREM CodesAreTrue == Spec => []CodeIsProgramsCode
<1>1. IInv => CodeIsProgramsCode
  BY ResultFacts DEF IInv, Codes, CodeIsProgramsCode, TimeoutStatus
<1>2. QED
  BY <1>1, RunInvariant, PTL

\* The output of a run that completes is all that was printed.
THEOREM OutputsAreComplete == Spec => []OutputIsComplete
<1>1. IInv => OutputIsComplete
  <2> SUFFICES ASSUME IInv, punctual, result.kind = "completed" PROVE got = printed
    BY DEF OutputIsComplete
  <2>1. \A s \in Stream : pipe[s] = 0
    BY DEF IInv, Codes, Streams
  <2>2. \A s \in Stream : got[s] = printed[s]
    BY <2>1 DEF IInv, TypeOK, CommandTypeOK, Streams
  <2>3. QED
    BY <2>2 DEF IInv, TypeOK, CommandTypeOK
<1>2. QED
  BY <1>1, RunInvariant, PTL

\* The three together: the result tells what happened.
THEOREM ResultsAreTrue == Spec => []ResultIsTrue
<1>1. TimeoutIsTrueOfOtherCodes /\ CodeIsProgramsCode /\ OutputIsComplete => ResultIsTrue
  BY DEF ResultIsTrue
<1>2. QED
  BY <1>1, TimeoutsAreTrue, CodesAreTrue, OutputsAreComplete, PTL

\* What the loop stops is gone, with every process that it started.
THEOREM StopsAreFinal == Spec => []NothingOutlivesStop
<1>1. IInv => NothingOutlivesStop
  BY DEF IInv
<1>2. QED
  BY <1>1, RunInvariant, PTL

\* A process that exits has tried its reports, and one that exits with 0 wrote them.
THEOREM ReportsAreMade == Spec => []ReportsMade
<1>1. IInv => ReportsMade
  <2>1. IInv => (phase = "exited" /\ ran => asked \subseteq tried)
    BY DEF IInv, Reports
  <2>2. IInv => (result.kind = "completed" /\ result.code = 0 => failed = {})
    BY ResultFacts DEF IInv, Reports, Codes, TimeoutStatus
  <2>3. QED
    BY <2>1, <2>2 DEF ReportsMade
<1>2. QED
  BY <1>1, RunInvariant, PTL
=============================================================================
