------------------------------- MODULE GoProcess -------------------------------
(***************************************************************************)
(* processResource of go/thuelang/process_native.go.  One goroutine reads  *)
(* the stdout of the child into a channel, another waits for the child and *)
(* sends its exit; a ReadLine selects between a line, the timer and the    *)
(* exit, and after the exit between a line and a second timer.             *)
(***************************************************************************)
EXTENDS ReadCall, HostBounds, Sequences

VARIABLES
    pump,      \* the reader of stdout: "off", "reading", "sending", "closing", "stopped"
    pumped,    \* the complete lines it has read
    outCh,     \* what it has sent: line numbers, 0 for an unterminated line
    tail,      \* whether it has read the unterminated line
    exitCh,    \* the exit: "none", "sent", "received"
    failed,    \* whether the child exited with an error
    reader,    \* ReadLine: "idle", "first" select, "second" select
    deadline   \* when the second select gives up

goVars == <<pump, pumped, outCh, tail, exitCh, failed, reader, deadline>>
vars == <<peerVars, callVars, goVars>>

Init ==
    /\ ReadInit
    /\ pump = "off" /\ pumped = 0 /\ outCh = <<>> /\ tail = FALSE
    /\ exitCh = "none" /\ failed = FALSE
    /\ reader = "idle" /\ deadline = 0

-----------------------------------------------------------------------------
\* The child, once ensureStarted has started it.

Started == pump # "off"

Child == Started /\ Peer /\ UNCHANGED goVars

ChildExits ==
    /\ Started /\ Exit
    /\ failed' \in BOOLEAN
    /\ UNCHANGED <<pump, pumped, outCh, tail, exitCh, reader, deadline>>

\* Wait returns when the child has exited and its stderr is closed, which a
\* descendant may delay.
Reaped ==
    /\ gone /\ exitCh = "none"
    /\ exitCh' = "sent"
    /\ UNCHANGED <<pump, pumped, outCh, tail, failed, reader, deadline, peerVars, callVars>>

-----------------------------------------------------------------------------
\* The reader of stdout.

CanPump == pump = "reading" /\ (pumped < printed \/ closed)

\* ReadString returned a line, the rest of the stream, or the end alone.
Pump ==
    /\ CanPump
    /\ IF pumped < printed
       THEN pump' = "sending" /\ pumped' = pumped + 1 /\ UNCHANGED tail
       ELSE /\ pump' = IF CutShort THEN "sending" ELSE "closing"
            /\ tail' = CutShort
            /\ UNCHANGED pumped
    /\ UNCHANGED <<outCh, exitCh, failed, reader, deadline, peerVars, callVars>>

\* Mutant: a full channel loses the line.
Send_NoBlock ==
    /\ pump = "sending"
    /\ outCh' = IF Len(outCh) < OutCap THEN Append(outCh, IF tail THEN 0 ELSE pumped) ELSE outCh
    /\ pump' = IF tail THEN "closing" ELSE "reading"
    /\ UNCHANGED <<pumped, tail, exitCh, failed, reader, deadline, peerVars, callVars>>

Send ==
    /\ pump = "sending" /\ Len(outCh) < OutCap
    /\ outCh' = Append(outCh, IF tail THEN 0 ELSE pumped)
    /\ pump' = IF tail THEN "closing" ELSE "reading"
    /\ UNCHANGED <<pumped, tail, exitCh, failed, reader, deadline, peerVars, callVars>>

CloseChannel ==
    /\ pump = "closing"
    /\ pump' = "stopped"
    /\ UNCHANGED <<pumped, outCh, tail, exitCh, failed, reader, deadline, peerVars, callVars>>

-----------------------------------------------------------------------------
\* ReadLine.

Call ==
    /\ BeginCall
    /\ reader' = "first"
    /\ pump' = IF Started THEN pump ELSE "reading"
    /\ UNCHANGED <<pumped, outCh, tail, exitCh, failed, deadline>>

\* A line, in either select.
Receive ==
    /\ reader # "idle" /\ outCh # <<>>
    /\ IF Head(outCh) = 0 THEN Answer("eof") ELSE AnswerLine(Head(outCh))
    /\ outCh' = Tail(outCh)
    /\ reader' = "idle"
    /\ UNCHANGED <<pump, pumped, tail, exitCh, failed, deadline>>

ExitAnswer == IF failed THEN "error" ELSE "eof"

OutClosed == pump = "stopped" /\ outCh = <<>>

\* The closed channel; only the second select knows the exit.
ReceiveClosed ==
    /\ reader # "idle" /\ OutClosed
    /\ Answer(IF reader = "second" THEN ExitAnswer ELSE "eof")
    /\ reader' = "idle"
    /\ UNCHANGED <<pump, pumped, outCh, tail, exitCh, failed, deadline>>

TimerFires ==
    /\ reader = "first" /\ elapsed >= Timeout
    /\ Answer("timeout")
    /\ reader' = "idle"
    /\ UNCHANGED <<pump, pumped, outCh, tail, exitCh, failed, deadline>>

\* Mutant: the second deadline is twice as long.
SecondDeadline_Twice == elapsed + 2 * Timeout

SecondDeadline == elapsed + Timeout

\* The exit: the lines of the child may still be on their way.  Bound: it is not
\* received more than a tick after the timer, so that the new deadline is timed.
ReceiveExit ==
    /\ reader = "first" /\ exitCh = "sent" /\ elapsed <= Timeout + 1
    /\ exitCh' = "received"
    /\ reader' = "second" /\ deadline' = SecondDeadline
    /\ UNCHANGED <<pump, pumped, outCh, tail, failed, peerVars, callVars>>

\* Mutant: after the exit the read goes on until stdout is closed.
DeadlineDue_Never == FALSE

DeadlineDue == reader = "second" /\ elapsed >= deadline

DeadlinePasses ==
    /\ DeadlineDue
    /\ Answer(ExitAnswer)
    /\ reader' = "idle"
    /\ UNCHANGED <<pump, pumped, outCh, tail, exitCh, failed, deadline>>

ReadLine ==
    Receive \/ ReceiveClosed \/ TimerFires \/ ReceiveExit \/ DeadlinePasses

-----------------------------------------------------------------------------
Busy ==
    \/ CanPump
    \/ pump = "sending" /\ Len(outCh) < OutCap
    \/ pump = "closing"
    \/ reader # "idle" /\ (outCh # <<>> \/ OutClosed)
    \/ reader = "first" /\ (exitCh = "sent" \/ elapsed >= Timeout)
    \/ DeadlineDue

TimePasses == Tick(Busy) /\ UNCHANGED goVars

Goroutine == Pump \/ Send \/ CloseChannel

Next ==
    \/ Child \/ ChildExits \/ Reaped
    \/ Goroutine
    \/ Call \/ ReadLine
    \/ TimePasses

Spec == Init /\ [][Next]_vars

\* Goroutines are scheduled and time goes on; the child owes nothing.
FairSpec == Spec /\ WF_vars(Goroutine) /\ WF_vars(ReadLine) /\ WF_vars(TimePasses)
-----------------------------------------------------------------------------
\* The type invariant.
TypeOK ==
    /\ ReadTypeOK
    /\ pump \in {"off", "reading", "sending", "closing", "stopped"}
    /\ pumped \in 0 .. MaxLines
    /\ outCh \in Seq(0 .. MaxLines) /\ Len(outCh) <= OutCap
    /\ tail \in BOOLEAN /\ failed \in BOOLEAN
    /\ exitCh \in {"none", "sent", "received"}
    /\ reader \in {"idle", "first", "second"}
    /\ deadline \in 0 .. 2 * Timeout + 1

\* Only the exit of the child extends a read past its timeout, and by one more at
\* the most.
OnlyExitExtends ==
    punctual /\ reading => elapsed <= IF reader = "second" THEN 2 * Timeout ELSE Timeout

\* The resource keeps the promise of LineSource.
Promise == INSTANCE LineSource
ImplementsLineSource == Promise!Spec
=============================================================================
