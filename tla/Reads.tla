-------------------------------- MODULE Reads --------------------------------
(***************************************************************************)
(* One readable resource of a run, in one of the five hosts modelled: what *)
(* the run loop may rely on, whichever host it runs on.  The host is       *)
(* chosen once; its module says what happens, and the variables of the     *)
(* other modules keep their initial values.                                *)
(***************************************************************************)
EXTENDS ReadCall, HostBounds

CONSTANTS
    ProcLines,   \* bound: the lines of a process of the JavaScript CLI
    ProcCalls,   \* bound: the reads of it
    ProcTimeout, \* the timeout of a read of it
    ProcTooLong  \* the lines of it that exceed the payload

VARIABLES
    host,
    \* by several hosts
    reader, taken, failed, pump, pumped, tail,
    \* Python
    buffered, partTaken, stderrHeld,
    \* processes of the Go library
    outCh, exitCh, deadline,
    \* standard input of the JavaScript CLI
    worker, published, verdict, full, record, copy,
    \* processes of the JavaScript CLI
    main, issued, waited, gaveUp, queue, header, lines, seen, stdoutEnded, exited,
    waiters, pending, stalls

pythonOnly == <<buffered, partTaken, stderrHeld>>
goOnly == <<outCh, exitCh, deadline>>
stdinOnly == <<worker, published, verdict, full, record, copy>>
processOnly == <<main, issued, waited, gaveUp, queue, header, lines, seen, stdoutEnded,
                 exited, waiters, pending, stalls>>

vars == <<peerVars, callVars, host, reader, taken, failed, pump, pumped, tail,
          pythonOnly, goOnly, stdinOnly, processOnly>>

\* Only the JavaScript CLI passes lines through a buffer of fixed size.
Python == INSTANCE PythonRead WITH TooLong <- {}
GoStdin == INSTANCE GoStdin WITH TooLong <- {}
GoProcess == INSTANCE GoProcess WITH TooLong <- {}
JsStdin == INSTANCE JsStdin
JsProcess == INSTANCE JsProcess
    WITH MaxLines <- ProcLines, MaxCalls <- ProcCalls, Timeout <- ProcTimeout,
         TooLong <- ProcTooLong

Init ==
    /\ host \in {"python", "go_stdin", "go_process", "js_stdin", "js_process"}
    /\ Python!Init /\ GoStdin!Init /\ GoProcess!Init /\ JsStdin!Init /\ JsProcess!Init
    /\ buffered => host = "python"
    /\ stalls => host = "js_process"

-----------------------------------------------------------------------------
\* A step of a host is a step of its module.

InPython(step) ==
    /\ host = "python" /\ step
    /\ UNCHANGED <<host, pump, pumped, tail, goOnly, stdinOnly, processOnly>>

InGoStdin(step) ==
    /\ host = "go_stdin" /\ step
    /\ UNCHANGED <<host, reader, taken, failed, pythonOnly, goOnly, stdinOnly, processOnly>>

InGoProcess(step) ==
    /\ host = "go_process" /\ step
    /\ UNCHANGED <<host, taken, pythonOnly, stdinOnly, processOnly>>

InJsStdin(step) ==
    /\ host = "js_stdin" /\ step
    /\ UNCHANGED <<host, failed, pump, pumped, tail, pythonOnly, goOnly, processOnly>>

InJsProcess(step) ==
    /\ host = "js_process" /\ step
    /\ UNCHANGED <<host, reader, taken, pump, pumped, tail, pythonOnly, goOnly, stdinOnly>>

Next ==
    \/ InPython(Python!Next)
    \/ InGoStdin(GoStdin!Next)
    \/ InGoProcess(GoProcess!Next)
    \/ InJsStdin(JsStdin!Next)
    \/ InJsProcess(JsProcess!Next)

Spec == Init /\ [][Next]_vars

\* The fairness of each module: the thread that reads, the thread that helps it where
\* there is one of its own, and time.
Caller ==
    \/ InPython(Python!Host)
    \/ InGoStdin(GoStdin!Host)
    \/ InGoProcess(GoProcess!ReadLine)
    \/ InJsStdin(JsStdin!Reader)
    \/ InJsProcess(JsProcess!Main)

Helper ==
    \/ InGoProcess(GoProcess!Goroutine)
    \/ InJsStdin(JsStdin!Worker)
    \/ InJsProcess(JsProcess!Worker)

Time ==
    \/ InPython(Python!TimePasses)
    \/ InGoStdin(GoStdin!TimePasses)
    \/ InGoProcess(GoProcess!TimePasses)
    \/ InJsStdin(JsStdin!TimePasses)
    \/ InJsProcess(JsProcess!TimePasses)

FairSpec == Spec /\ WF_vars(Caller) /\ WF_vars(Helper) /\ WF_vars(Time)
-----------------------------------------------------------------------------
\* _read_line of the Python host keeps the promise of LineSource: each line once and
\* in order, however the descriptor is read in chunks, through the exit of a process
\* and with its stdout and stderr held by descendants.
PythonServes == [][host = "python" => Python!Promise!Next]_<<peerVars, callVars>>

\* A read of the Python host that never returns waits for good for the newline of a
\* line that was begun, or for a stderr that a descendant holds.
PythonReturns == host = "python" => Python!ReturnsUnlessStalled

\* Standard input of the Go library: a line whose reader gave up stays in the blocked
\* send, and is neither lost nor read twice.
GoStdinServes == [][host = "go_stdin" => GoStdin!Promise!Next]_<<peerVars, callVars>>

\* A punctual read of Go's standard input times out only when no line is there.
GoStdinNoFalseTimeout ==
    [][host = "go_stdin" /\ TimeRunsOut => handed = printed]_<<callVars, peerVars>>

\* Every read of Go's standard input is answered, by a line, the end or the timer.
GoStdinReturns == host = "go_stdin" => ReadsReturn

\* A process binding of the Go library serves its lines through a full channel and an
\* exit that overtakes them.
GoProcessServes == [][host = "go_process" => GoProcess!Promise!Next]_<<peerVars, callVars>>

\* Only the exit of the child extends a read of its output past the timeout, and by
\* one more at the most.
GoProcessOnlyExitExtends == host = "go_process" => GoProcess!OnlyExitExtends

\* Every read of a process of the Go library is answered.
GoProcessReturns == host = "go_process" => ReadsReturn

\* Standard input of the JavaScript CLI: no record is lost, repeated or overwritten in
\* the shared memory, and a line that exceeds it fails every later read.
JsStdinServes == [][host = "js_stdin" => JsStdin!Promise!Next]_<<peerVars, callVars>>

\* No wait on its header times out, with punctual threads, while a line is there.
JsStdinNoFalseTimeout ==
    [][host = "js_stdin" /\ TimeRunsOut => handed = printed]_<<callVars, peerVars>>

\* No record raised between the look at the header and the wait is slept through.
JsStdinReturns == host = "js_stdin" => ReadsReturn

\* Until callProc of the JavaScript CLI has once stopped waiting for its worker, every
\* answer it takes is the answer to its own request.
JsProcessOwnAnswers == host = "js_process" => JsProcess!OwnAnswers

\* Until then each line of the process is returned once and in order, except those
\* that exceed the payload, which are thrown away one by one.
JsProcessServes ==
    [][host = "js_process" => gaveUp' \/ JsProcess!Promise!Next]_<<peerVars, callVars>>

\* Every read of a process of the JavaScript CLI returns, however slow the worker.
JsProcessReturns == host = "js_process" => ReadsReturn
=============================================================================
