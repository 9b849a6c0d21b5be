------------------------------- MODULE JsProcess -------------------------------
(***************************************************************************)
(* Process bindings of the JavaScript CLI: callProc of js/src/cli.js posts *)
(* a request to a worker and waits on shared memory, and the event loop of *)
(* the worker, js/src/proc-host.cjs, reads and writes the child and raises *)
(* the header with the answer.  An answer does not say which request it is *)
(* for.  Requests are numbered here only to state the properties.          *)
(***************************************************************************)
EXTENDS ReadCall, HostBounds, Sequences, SequencesExt

VARIABLES
    main,      \* callProc: "idle", or the operation it waits for
    issued,    \* the requests so far
    waited,    \* the ticks of the write under way
    gaveUp,    \* whether callProc has ever stopped waiting
    queue,     \* the requests posted and not yet dispatched
    header,    \* the shared header and payload
    lines,     \* state.lines: line numbers, 0 for an unterminated line
    seen,      \* the complete lines the worker has read
    stdoutEnded, exited, failed,  \* the end of stdout and the exit, once seen
    waiters,   \* state.waiters: the requests of the reads, and their timers
    pending,   \* the requests whose write has not called back
    stalls     \* whether time waits for no write: the child may stop reading

mainVars == <<main, issued, waited, gaveUp>>
streamVars == <<lines, seen, stdoutEnded, exited, failed>>
workerVars == <<queue, streamVars, waiters, pending>>
jsVars == <<mainVars, header, workerVars, stalls>>
vars == <<peerVars, callVars, jsVars>>

Down == [ready |-> FALSE, request |-> 0, kind |-> "none", line |-> 0]

\* finish: a line that exceeds the payload becomes an error.
Finished(request, kind, line) ==
    [ready |-> TRUE, request |-> request,
     kind |-> IF line \in TooLong THEN "error" ELSE kind, line |-> line]

Init ==
    /\ ReadInit
    /\ main = "idle" /\ issued = 0 /\ waited = 0 /\ gaveUp = FALSE
    /\ queue = <<>> /\ header = Down
    /\ lines = <<>> /\ seen = 0
    /\ stdoutEnded = FALSE /\ exited = FALSE /\ failed = FALSE
    /\ waiters = <<>> /\ pending = {}
    /\ stalls \in {FALSE, punctual}

-----------------------------------------------------------------------------
\* The child, once ensure has spawned it; it has exited before the worker sees it.

Spawned == issued > Len(queue)

Child == Spawned /\ Peer /\ UNCHANGED jsVars

ChildExits == Spawned /\ Exit /\ UNCHANGED jsVars

-----------------------------------------------------------------------------
\* The event loop of the worker.

Kept(ls, n) == SubSeq(ls, n + 1, Len(ls))

\* deliver, with state.lines ls, state.waiters ws: lines to waiters in order, then,
\* when the process is over, its end to the waiters left.
Deliver(ls, ws) ==
    LET n == IF Len(ls) < Len(ws) THEN Len(ls) ELSE Len(ws)
        left == SubSeq(ws, n + 1, Len(ws))
        over == exited' /\ stdoutEnded' /\ left # <<>>
    IN  /\ lines' = Kept(ls, n)
        /\ waiters' = IF over THEN <<>> ELSE left
        /\ header' = IF over THEN Finished(Last(left).request, IF failed' THEN "error" ELSE "eof", 0)
                     ELSE IF n = 0 THEN header
                     ELSE Finished(ws[n].request, IF ls[n] = 0 THEN "eof" ELSE "line", ls[n])

\* The message handler.
DispatchRead ==
    /\ queue # <<>> /\ Head(queue).op = "read"
    /\ queue' = Tail(queue)
    /\ UNCHANGED <<stdoutEnded, exited, failed>>
    /\ Deliver(lines, Append(waiters, [request |-> Head(queue).request, left |-> Timeout]))
    /\ UNCHANGED <<seen, pending, mainVars, stalls, peerVars, callVars>>

DispatchWrite ==
    /\ queue # <<>> /\ Head(queue).op = "write"
    /\ queue' = Tail(queue)
    /\ IF exited
       THEN header' = Finished(Head(queue).request, "error", 0) /\ UNCHANGED pending
       ELSE pending' = pending \cup {Head(queue).request} /\ UNCHANGED header
    /\ UNCHANGED <<streamVars, waiters, mainVars, stalls, peerVars, callVars>>

\* The callback of a write: the child has read what was written, or is gone.
WriteDone ==
    /\ \E oldest \in pending :
          /\ \A request \in pending : oldest <= request
          /\ pending' = pending \ {oldest}
          /\ \E kind \in {"written"} \cup (IF gone THEN {"error"} ELSE {}) :
                header' = Finished(oldest, kind, 0)
    /\ UNCHANGED <<queue, streamVars, waiters, mainVars, stalls, peerVars, callVars>>

\* stdout 'data'.
OnData ==
    /\ seen < printed
    /\ seen' \in seen + 1 .. printed
    /\ UNCHANGED <<stdoutEnded, exited, failed>>
    /\ Deliver(lines \o [i \in 1 .. seen' - seen |-> seen + i], waiters)
    /\ UNCHANGED <<queue, pending, mainVars, stalls, peerVars, callVars>>

\* stdout 'end': what is left in the buffer counts as a line.
OnEnd ==
    /\ closed /\ seen = printed /\ ~stdoutEnded
    /\ stdoutEnded' = TRUE
    /\ UNCHANGED <<exited, failed>>
    /\ Deliver(IF partial THEN Append(lines, 0) ELSE lines, waiters)
    /\ UNCHANGED <<queue, seen, pending, mainVars, stalls, peerVars, callVars>>

\* 'exit', with either status.
OnExit ==
    /\ gone /\ ~exited
    /\ exited' = TRUE
    /\ failed' \in BOOLEAN
    /\ UNCHANGED stdoutEnded
    /\ Deliver(lines, waiters)
    /\ UNCHANGED <<queue, seen, pending, mainVars, stalls, peerVars, callVars>>

\* Mutant: the waiter of a read that timed out stays, and takes a line.
Withdraw_Stays(ws) == [ws EXCEPT ![1].left = Timeout]

\* The waiter of a read that timed out is withdrawn.
Withdraw(ws) == Tail(ws)

TimerDue == waiters # <<>> /\ Head(waiters).left = 0

\* The timer of a read; the oldest waiter is the first to be due.
TimerFires ==
    /\ TimerDue
    /\ waiters' = Withdraw(waiters)
    /\ header' = Finished(Head(waiters).request, "timeout", 0)
    /\ UNCHANGED <<queue, streamVars, pending, mainVars, stalls, peerVars, callVars>>

Worker == DispatchRead \/ DispatchWrite \/ OnData \/ OnEnd \/ OnExit \/ TimerFires

-----------------------------------------------------------------------------
\* callProc.

\* Mutant: the header is not lowered for a new request.
Lowered_Not == header

Lowered == Down

CallRead ==
    /\ main = "idle" /\ BeginCall
    /\ main' = "read" /\ issued' = issued + 1
    /\ header' = Lowered
    /\ queue' = Append(queue, [op |-> "read", request |-> issued + 1])
    /\ UNCHANGED <<waited, gaveUp, streamVars, waiters, pending, stalls>>

CallWrite ==
    /\ main = "idle" /\ issued - calls < MaxWrites
    /\ main' = "write" /\ issued' = issued + 1 /\ waited' = 0
    /\ header' = Lowered
    /\ queue' = Append(queue, [op |-> "write", request |-> issued + 1])
    /\ UNCHANGED <<gaveUp, streamVars, waiters, pending, stalls, peerVars, callVars>>

\* Mutant: callProc goes on waiting when the answer is a timeout.
ReturnRead_NotTimeout ==
    /\ main = "read" /\ header.ready /\ header.kind # "timeout"
    /\ CASE header.kind = "line" -> AnswerLine(header.line)
         [] header.kind = "error" /\ header.line # 0 -> Refused(header.line)
         [] OTHER -> Answer(header.kind)
    /\ main' = "idle"
    /\ UNCHANGED <<issued, waited, gaveUp, header, workerVars, stalls>>

\* The header is up: its payload is the answer, a line unless it is an error.
ReturnRead ==
    /\ main = "read" /\ header.ready
    /\ CASE header.kind = "line" -> AnswerLine(header.line)
         [] header.kind = "error" /\ header.line # 0 -> Refused(header.line)
         [] header.kind = "written" -> Answer("line")
         [] OTHER -> Answer(header.kind)
    /\ main' = "idle"
    /\ UNCHANGED <<issued, waited, gaveUp, header, workerVars, stalls>>

ReturnWrite ==
    /\ main = "write" /\ header.ready
    /\ main' = "idle"
    /\ UNCHANGED <<issued, waited, gaveUp, header, workerVars, stalls, peerVars, callVars>>

ReadWait == Timeout + Grace

GiveUpRead ==
    /\ main = "read" /\ ~header.ready /\ elapsed >= ReadWait
    /\ Answer("timeout")
    /\ main' = "idle" /\ gaveUp' = TRUE
    /\ UNCHANGED <<issued, waited, header, workerVars, stalls>>

GiveUpWrite ==
    /\ main = "write" /\ ~header.ready /\ waited >= WriteTimeout
    /\ main' = "idle" /\ gaveUp' = TRUE
    /\ UNCHANGED <<issued, waited, header, workerVars, stalls, peerVars, callVars>>

Main == ReturnRead \/ ReturnWrite \/ GiveUpRead \/ GiveUpWrite

-----------------------------------------------------------------------------
Busy ==
    \/ queue # <<>> \/ seen < printed
    \/ closed /\ ~stdoutEnded
    \/ gone /\ ~exited
    \/ TimerDue
    \/ pending # {} /\ ~stalls
    \/ main # "idle" /\ header.ready
    \/ main = "read" /\ elapsed >= ReadWait
    \/ main = "write" /\ waited >= WriteTimeout

\* The timers of the worker run with those of callProc.
Aged == [i \in DOMAIN waiters |-> [waiters[i] EXCEPT !.left = IF @ = 0 THEN 0 ELSE @ - 1]]

TimePasses ==
    /\ \/ Tick(Busy) /\ UNCHANGED waited
       \/ /\ main = "write" /\ waited < WriteTimeout /\ (punctual => ~Busy)
          /\ waited' = waited + 1
          /\ UNCHANGED <<peerVars, callVars>>
    /\ waiters' = Aged
    /\ UNCHANGED <<main, issued, gaveUp, header, queue, streamVars, pending, stalls>>

Next ==
    \/ Child \/ ChildExits
    \/ Worker \/ WriteDone
    \/ CallRead \/ CallWrite \/ Main
    \/ TimePasses

Spec == Init /\ [][Next]_vars

\* Both threads are scheduled and time goes on; the child owes nothing.
FairSpec == Spec /\ WF_vars(Worker) /\ WF_vars(Main) /\ WF_vars(TimePasses)
-----------------------------------------------------------------------------
\* The type invariant.
TypeOK ==
    /\ ReadTypeOK
    /\ main \in {"idle", "read", "write"}
    /\ issued \in 0 .. MaxCalls + MaxWrites
    /\ waited \in 0 .. WriteTimeout
    /\ gaveUp \in BOOLEAN
    /\ header \in [ready : BOOLEAN, request : 0 .. issued,
                   kind : Kinds \cup {"written"}, line : 0 .. MaxLines]
    /\ queue \in Seq([op : {"read", "write"}, request : 1 .. issued])
    /\ lines \in Seq(0 .. MaxLines)
    /\ seen \in 0 .. printed
    /\ stdoutEnded \in BOOLEAN /\ exited \in BOOLEAN /\ failed \in BOOLEAN
    /\ waiters \in Seq([request : 1 .. issued, left : 0 .. Timeout])
    /\ pending \subseteq 1 .. issued
    /\ stalls \in BOOLEAN

\* Until callProc has once stopped waiting for the worker, every answer it takes is
\* the answer to its own request.
OwnAnswers == (main # "idle" /\ header.ready /\ ~gaveUp) => header.request = issued

\* docs/rfc-language.md, "read": "Read exactly one newline-delimited message."  A
\* read that succeeds returns a line the process has printed.
ReadsAMessage == answer.kind = "line" => answer.line \in 1 .. printed

\* Until then it keeps the promise of LineSource, step by step.
Promise == INSTANCE LineSource
LineSourceUntilGivenUp == [][gaveUp' \/ Promise!Next]_<<peerVars, callVars>>
=============================================================================
