------------------------------ MODULE PythonRead ------------------------------
(***************************************************************************)
(* _read_line of python/thuelang/interpreter.py: select on the descriptor  *)
(* with the timeout, then readline.  Standard input is a text stream, whose *)
(* readline takes all there is on the descriptor and keeps what follows    *)
(* the line; select does not see what is kept.  The pipe of a process is   *)
(* unbuffered: readline takes one line and no more.  In both, readline     *)
(* waits for the newline without a timeout.  When time is up on a process  *)
(* that has failed, its stderr is read to the end, which waits, without a  *)
(* timeout too, for every descendant that holds it.                        *)
(***************************************************************************)
EXTENDS ReadCall

VARIABLES
    buffered,  \* TRUE: standard input; FALSE: a process
    reader,    \* "idle", "selecting", "reading", "draining" stderr
    taken,     \* the complete lines taken from the descriptor
    partTaken, \* whether the beginning of the next one is taken too
    failed,    \* whether the process exited with an error
    stderrHeld \* whether a descendant of the exited process holds its stderr

pyVars == <<buffered, reader, taken, partTaken, failed, stderrHeld>>
vars == <<peerVars, callVars, pyVars>>

Init ==
    /\ ReadInit
    /\ buffered \in BOOLEAN
    /\ reader = "idle" /\ taken = 0 /\ partTaken = FALSE
    /\ failed = FALSE /\ stderrHeld = FALSE

\* What the descriptor holds: lines, the beginning of one, or the end.
Unread == taken < printed \/ (partial /\ ~partTaken)
Readable == Unread \/ closed

Call ==
    /\ BeginCall
    /\ reader' = "selecting"
    /\ UNCHANGED <<buffered, taken, partTaken, failed, stderrHeld>>

SelectReady ==
    /\ reader = "selecting" /\ Readable
    /\ reader' = "reading"
    /\ UNCHANGED <<buffered, taken, partTaken, failed, stderrHeld, peerVars, callVars>>

\* Mutant: select is given no timeout.
TimeUp_Never == FALSE

TimeUp == elapsed >= Timeout

\* Nothing to read: a timeout, unless poll sees that the process has failed.
SelectTimeout ==
    /\ reader = "selecting" /\ TimeUp
    /\ IF gone /\ failed
       THEN reader' = "draining" /\ UNCHANGED <<peerVars, callVars>>
       ELSE reader' = "idle" /\ Answer("timeout")
    /\ UNCHANGED <<buffered, taken, partTaken, failed, stderrHeld>>

\* stderr.read returns when nobody holds stderr any more.
CanDrain == reader = "draining" /\ ~stderrHeld

DrainStderr ==
    /\ CanDrain
    /\ Answer("error")
    /\ reader' = "idle"
    /\ UNCHANGED <<buffered, taken, partTaken, failed, stderrHeld>>

\* readline: a line that has been taken is returned.
ReadKept ==
    /\ reader = "reading" /\ handed < taken
    /\ AnswerLine(handed + 1)
    /\ reader' = "idle"
    /\ UNCHANGED <<buffered, taken, partTaken, failed, stderrHeld>>

\* readline: otherwise it takes from the descriptor, and waits when that is empty.
\* The read of a text stream may end anywhere in what there is.
CanTake == reader = "reading" /\ handed = taken /\ Unread

Take ==
    /\ CanTake
    /\ IF taken < printed
       THEN /\ taken' \in IF buffered THEN taken + 1 .. printed ELSE {taken + 1}
            /\ partTaken' \in {FALSE, buffered /\ partial /\ taken' = printed}
       ELSE partTaken' = TRUE /\ UNCHANGED taken
    /\ UNCHANGED <<buffered, reader, failed, stderrHeld, peerVars, callVars>>

\* Mutant: a stream that has been closed counts as read.
CanEnd_WhenClosed == reader = "reading" /\ closed

\* readline: the end, with or without an unterminated line.
CanEnd == reader = "reading" /\ handed = taken /\ ~Unread /\ closed

ReadEnd ==
    /\ CanEnd
    /\ Answer("eof")
    /\ reader' = "idle"
    /\ UNCHANGED <<buffered, taken, partTaken, failed, stderrHeld>>

ProcessExit ==
    /\ ~buffered /\ Exit
    /\ failed' \in BOOLEAN /\ stderrHeld' \in BOOLEAN
    /\ UNCHANGED <<buffered, reader, taken, partTaken>>

StderrClosed ==
    /\ stderrHeld
    /\ stderrHeld' = FALSE
    /\ UNCHANGED <<buffered, reader, taken, partTaken, failed, peerVars, callVars>>

Host == SelectReady \/ SelectTimeout \/ DrainStderr \/ ReadKept \/ Take \/ ReadEnd

Busy ==
    \/ reader = "selecting" /\ (Readable \/ TimeUp)
    \/ reader = "reading" /\ handed < taken
    \/ CanTake \/ CanEnd \/ CanDrain

TimePasses == Tick(Busy) /\ UNCHANGED pyVars

Next ==
    \/ Peer /\ UNCHANGED pyVars
    \/ ProcessExit \/ StderrClosed
    \/ Call \/ Host \/ TimePasses

Spec == Init /\ [][Next]_vars

\* The host is scheduled and time goes on; the peer owes nothing.
FairSpec == Spec /\ WF_vars(Host) /\ WF_vars(TimePasses)
-----------------------------------------------------------------------------
\* The type invariant.
TypeOK ==
    /\ ReadTypeOK
    /\ buffered \in BOOLEAN
    /\ reader \in {"idle", "selecting", "reading", "draining"}
    /\ taken \in handed .. printed
    /\ partTaken \in BOOLEAN /\ failed \in BOOLEAN /\ stderrHeld \in BOOLEAN

\* The resource keeps the promise of LineSource.
Promise == INSTANCE LineSource
ImplementsLineSource == Promise!Spec

\* What a read may wait for without end: the newline of a line that was begun, and
\* the stderr of a failed process that a descendant holds.
Stalled ==
    \/ reader = "reading" /\ handed = printed /\ partial /\ ~closed
    \/ reader = "draining" /\ stderrHeld

\* A read that never returns waits for one of the two, for good.
ReturnsUnlessStalled == []<>(~reading) \/ <>[]Stalled
=============================================================================
