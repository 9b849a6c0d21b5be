------------------------------ MODULE BoundedRun ------------------------------
(***************************************************************************)
(* bounded_run of tools/run_limits.py around one Command: the runner       *)
(* thread, its two reader threads, timeout(1), the process it bounds, and  *)
(* the pipes between them, which hold one piece each.  Time is counted in  *)
(* ticks; in a punctual behaviour it passes only when every thread waits.  *)
(***************************************************************************)
EXTENDS Command

CONSTANTS
    Deadline,   \* timeout, in ticks
    Grace       \* how much later timeout(1) acts: 2 seconds and the rounding

ASSUME BoundedRunAssumption ==
    /\ Deadline \in Nat \ {0}
    /\ Grace \in Nat \ {0}

VARIABLES
    runner,     \* where bounded_run is
    input,      \* the pieces of input_text still to be written
    readers,    \* whether the reader threads are started
    got, eof,   \* the pieces each has read, and whether it has met the end
    watcher,    \* timeout(1): "on", or "off" when it has exited
    watcherCode,
    reason,     \* why the loop stopped the run
    result,     \* what bounded_run returns or raises
    sampled,    \* whether the loop has looked at the size since time last passed
    hung,       \* whether the program waits for what does not come, or loops
    elapsed,    \* the ticks since the start
    punctual

runnerVars == <<runner, input, readers, reason, result, sampled>>
readerVars == <<got, eof>>
watcherVars == <<watcher, watcherCode>>
timeVars == <<elapsed, punctual>>
vars == <<commandVars, runnerVars, readerVars, watcherVars, hung, timeVars>>

Backstop == Deadline + Grace

NoResult == [kind |-> "none", code |-> 0]

TypeOK ==
    /\ CommandTypeOK
    /\ runner \in {"spawned", "writing", "loop", "reaping", "joining", "done"}
    /\ input \in 0 .. MaxInput
    /\ readers \in BOOLEAN
    /\ got \in [Stream -> Nat]
    /\ eof \in [Stream -> BOOLEAN]
    /\ watcher \in {"on", "off"}
    /\ watcherCode \in Int
    /\ reason \in {"none", "timeout", "memory"}
    /\ result \in [kind : {"none", "completed", "timeout", "memory"}, code : Int]
    /\ sampled \in BOOLEAN /\ hung \in BOOLEAN /\ punctual \in BOOLEAN
    /\ elapsed \in Nat

Init ==
    /\ CommandInit
    /\ runner = "spawned" /\ input \in {0, MaxInput} /\ readers = FALSE
    /\ got = [s \in Stream |-> 0] /\ eof = [s \in Stream |-> FALSE]
    /\ watcher = "on" /\ watcherCode = 0
    /\ reason = "none" /\ result = NoResult /\ sampled = FALSE
    /\ hung = FALSE /\ elapsed = 0
    /\ punctual \in BOOLEAN

-----------------------------------------------------------------------------
\* The bounded process.

Program ==
    /\ ~hung /\ Main
    /\ UNCHANGED <<runnerVars, readerVars, watcherVars, hung, timeVars>>

Hang ==
    /\ Running /\ ~hung
    /\ hung' = TRUE
    /\ UNCHANGED <<commandVars, runnerVars, readerVars, watcherVars, timeVars>>

-----------------------------------------------------------------------------
\* timeout(1) exits with the status of the process.
WatcherExit ==
    /\ watcher = "on" /\ phase = "exited"
    /\ watcher' = "off" /\ watcherCode' = exitCode
    /\ UNCHANGED <<commandVars, runnerVars, readerVars, hung, timeVars>>

\* At the backstop it terminates its process group, which the processes of the
\* bindings belong to, and exits when the process is gone.
WatcherStops ==
    /\ watcher = "on" /\ elapsed >= Backstop /\ ~Over
    /\ watcher' = "off" /\ watcherCode' = 124
    /\ phase' = "killed" /\ alive' = alive \cap Stubborn
    /\ UNCHANGED <<asked, ran, exitCode, crashed, tried, failed, started, ioVars,
                   runnerVars, readerVars, hung, timeVars>>

-----------------------------------------------------------------------------
\* The reader threads: to the end of the stream, which comes when the process and
\* timeout(1), the only ones that hold it, have exited.

Read(s) ==
    /\ readers /\ pipe[s] > 0
    /\ pipe' = [pipe EXCEPT ![s] = 0] /\ got' = [got EXCEPT ![s] = @ + 1]
    /\ UNCHANGED <<mainVars, childVars, pending, large, inPipe, printed,
                   runnerVars, eof, watcherVars, hung, timeVars>>

ReadEnd(s) ==
    /\ readers /\ pipe[s] = 0 /\ Over /\ watcher = "off" /\ ~eof[s]
    /\ eof' = [eof EXCEPT ![s] = TRUE]
    /\ UNCHANGED <<commandVars, runnerVars, got, watcherVars, hung, timeVars>>

-----------------------------------------------------------------------------
\* The runner.

\* Mutant: the readers are started when the input is written.
StartReaders_AfterInput ==
    /\ \/ runner = "spawned" /\ runner' = "writing" /\ UNCHANGED readers
       \/ runner = "loop" /\ ~readers /\ readers' = TRUE /\ UNCHANGED runner
    /\ UNCHANGED <<commandVars, input, reason, result, sampled, readerVars, watcherVars, hung,
                   timeVars>>

StartReaders ==
    /\ runner = "spawned"
    /\ runner' = "writing" /\ readers' = TRUE
    /\ UNCHANGED <<commandVars, input, reason, result, sampled, readerVars, watcherVars, hung,
                   timeVars>>

\* proc.stdin.write waits for room.
WriteInput ==
    /\ runner = "writing" /\ watcher = "on" /\ input > 0 /\ inPipe = 0
    /\ inPipe' = 1 /\ input' = input - 1
    /\ UNCHANGED <<mainVars, childVars, pending, large, pipe, printed, runner, readers,
                   reason, result, sampled, readerVars, watcherVars, hung, timeVars>>

\* Mutant: a broken pipe is not caught, and the write is repeated.
InputDone_NoBreak ==
    /\ runner = "writing" /\ input = 0
    /\ runner' = "loop"
    /\ UNCHANGED <<mainVars, childVars, pending, large, inPipe, pipe, printed,
                   input, readers, reason, result, sampled, readerVars, watcherVars, hung,
                   timeVars>>

\* All is written, or the pipe is broken.
InputDone ==
    /\ runner = "writing" /\ (input = 0 \/ watcher = "off")
    /\ runner' = "loop"
    /\ UNCHANGED <<mainVars, childVars, pending, large, inPipe, pipe, printed,
                   input, readers, reason, result, sampled, readerVars, watcherVars, hung,
                   timeVars>>

\* _reap.
Reap ==
    /\ runner \in {"loop", "reaping"} /\ watcher = "off"
    /\ runner' = "joining" /\ sampled' = FALSE
    /\ UNCHANGED <<commandVars, input, readers, reason, result, readerVars, watcherVars,
                   hung, timeVars>>

\* Mutant: only timeout(1) and the process it runs are killed.
KillGroup_Leader ==
    /\ phase' = IF Over THEN phase ELSE "killed"
    /\ watcher' = "off" /\ watcherCode' = -9
    /\ UNCHANGED <<asked, ran, exitCode, crashed, tried, failed, childVars, ioVars>>

\* _kill_group: everything the run started is in the group.
KillGroup ==
    /\ phase' = IF Over THEN phase ELSE "killed"
    /\ alive' = {}
    /\ watcher' = "off" /\ watcherCode' = -9
    /\ UNCHANGED <<asked, ran, exitCode, crashed, tried, failed, started, ioVars>>


OverCap == large /\ ~Over

Stop(why) ==
    /\ runner = "loop" /\ watcher = "on"
    /\ KillGroup
    /\ runner' = "reaping" /\ reason' = why /\ sampled' = FALSE
    /\ UNCHANGED <<input, readers, result, readerVars, hung, timeVars>>

StopLarge == OverCap /\ Stop("memory")

\* The loop has looked at the size and found it below the cap.
Sample ==
    /\ runner = "loop" /\ watcher = "on" /\ ~OverCap
    /\ sampled' = TRUE
    /\ UNCHANGED <<commandVars, runner, input, readers, reason, result, readerVars,
                   watcherVars, hung, timeVars>>

\* Behind that look; the process may have grown since.
StopLate == sampled /\ elapsed >= Deadline /\ Stop("timeout")

\* Mutant: the status timeout(1) reports its own intervention with is the program's.
TimeoutStatus_None == {}

TimeoutStatus == {124, 137}

Join(r) ==
    /\ runner = "joining"
    /\ runner' = "done" /\ result' = r
    /\ UNCHANGED <<commandVars, input, readers, reason, sampled, readerVars, watcherVars,
                   hung, timeVars>>

ResultOfRun ==
    [kind |-> IF reason # "none" THEN reason
              ELSE IF watcherCode \in TimeoutStatus THEN "timeout" ELSE "completed",
     code |-> watcherCode]

\* Mutant: the readers are not waited for.
Finished_AtOnce == Join(ResultOfRun)

Finished == (\A s \in Stream : eof[s]) /\ Join(ResultOfRun)

\* A reader that takes more than five seconds is left behind, and its text with it.
GiveUp == ~punctual /\ Join(ResultOfRun)

Runner ==
    \/ StartReaders \/ WriteInput \/ InputDone
    \/ Reap \/ StopLarge \/ Sample \/ StopLate
    \/ Finished

Reader == \E s \in Stream : Read(s) \/ ReadEnd(s)

Watcher == WatcherExit \/ WatcherStops

-----------------------------------------------------------------------------
\* Time.  A program that hangs, and a runner that waits for it, let it pass; the loop
\* goes round once per tick, or more.

ProgramWaits ==
    \/ hung \/ Over
    \/ pending # "none" /\ pipe[pending] > 0
    \/ phase = "cleanup" /\ alive \subseteq Stubborn
       /\ printed["stderr"] < MaxPrinted["stderr"] /\ pipe["stderr"] > 0

RunnerWaits ==
    \/ runner = "writing" /\ watcher = "on" /\ input > 0 /\ inPipe > 0
    \/ runner = "loop" /\ watcher = "on" /\ sampled /\ elapsed < Deadline

ReadersWait ==
    \A s \in Stream :
        readers => /\ pipe[s] = 0
                   /\ Over /\ watcher = "off" => eof[s]

WatcherWaits == watcher = "off" \/ (phase # "exited" /\ elapsed < Backstop)

\* Bound: time is not counted any further than the backstop.
Tick ==
    /\ runner # "done" /\ elapsed <= Backstop
    /\ punctual => ProgramWaits /\ RunnerWaits /\ ReadersWait /\ WatcherWaits
    /\ elapsed' = elapsed + 1 /\ sampled' = FALSE
    /\ UNCHANGED <<commandVars, runner, input, readers, reason, result, readerVars,
                   watcherVars, hung, punctual>>

Next ==
    \/ Program \/ Hang
    \/ Watcher \/ Reader \/ Runner \/ GiveUp \/ Tick

Spec == Init /\ [][Next]_vars

\* Threads are scheduled, timeout(1) acts and time passes; the program may hang.
FairSpec ==
    /\ Spec
    /\ WF_vars(Program) /\ WF_vars(Runner) /\ WF_vars(Watcher) /\ WF_vars(Tick)
    /\ \A s \in Stream : WF_vars(Read(s) \/ ReadEnd(s))

-----------------------------------------------------------------------------
\* A run is reported to have timed out only when its program hung, however its
\* input and its output fill the pipes (run_limits.py:277), with one exception:
\* programs that exit with a status of timeout(1), of which CodeIsReturned is false.
TimeoutIsTrueOfOtherCodes ==
    punctual /\ result.kind = "timeout" =>
        hung \/ (phase = "exited" /\ exitCode \in TimeoutStatus)

\* "The returned code is the program's code" (run_limits.py:224): a run that was
\* stopped, by the loop or by timeout(1), never completes.
CodeIsProgramsCode ==
    result.kind = "completed" => phase = "exited" /\ result.code = exitCode

\* What the program printed is what the caller gets.
OutputIsComplete == punctual /\ result.kind = "completed" => got = printed

\* What the caller of bounded_run is told is what happened, but for that exception.
ResultIsTrue == TimeoutIsTrueOfOtherCodes /\ CodeIsProgramsCode /\ OutputIsComplete

\* run_limits.py:224: "The returned code is the program's code.  A timeout or a memory
\* cap raises RuntimeError instead of being reported as the program's exit status."
\* A program that exited, and was not stopped, has its code returned.
CodeIsReturned ==
    runner = "done" /\ phase = "exited" /\ reason = "none" => result.kind = "completed"

\* When the loop has stopped a run, no process that the run started is alive, not
\* even one that ignores its termination (run_limits.py:172).
NothingOutlivesStop == reason # "none" => Over /\ alive = {}


\* Whatever ended the run, a process that exits has tried every report it was
\* asked for (cli.py:177), and one that exits with 0 has written them.
ReportsMade ==
    /\ phase = "exited" /\ ran => asked \subseteq tried
    /\ result.kind = "completed" /\ result.code = 0 => failed = {}

\* Every run ends, also when the program reads nothing, prints for ever or hangs.
RunEndsAlways == <>(runner = "done")
=============================================================================
