------------------------------- MODULE ReadCall -------------------------------
(***************************************************************************)
(* What every readable resource has in common: a peer (whatever writes the *)
(* standard input, or the child process of a process binding) that prints  *)
(* newline-terminated lines, and one caller, the run loop, that asks for   *)
(* the next line with a timeout and waits for the answer.  Line k is the   *)
(* k-th line printed.                                                      *)
(*                                                                         *)
(* Time is counted in ticks since the call.  In a punctual behaviour a    *)
(* tick passes only when no step of the host is possible, so a deadline is *)
(* never missed because a thread was slow; in the others it passes at will. *)
(***************************************************************************)
EXTENDS Naturals

CONSTANTS
    MaxLines,  \* bound: the lines the peer prints
    MaxCalls,  \* bound: the reads
    Timeout,   \* the timeout of a read, in ticks
    TooLong    \* the lines that do not fit the buffer the host shares between threads

ASSUME ReadCallAssumption ==
    /\ MaxLines \in Nat /\ MaxCalls \in Nat
    /\ Timeout \in Nat \ {0}
    /\ TooLong \subseteq 1 .. MaxLines

VARIABLES
    printed,  \* the complete lines the peer has printed
    partial,  \* whether it has printed the beginning of one more
    closed,   \* whether it has closed the stream
    gone,     \* whether it has exited
    handed,   \* the lines reads have returned, or refused and thrown away
    calls,    \* the reads so far
    reading,  \* whether a read is under way
    elapsed,  \* the ticks since it began
    answer,   \* what the last read returned
    punctual  \* whether time waits for the host

peerVars == <<printed, partial, closed, gone>>
callVars == <<handed, calls, reading, elapsed, answer, punctual>>

Kinds == {"none", "line", "timeout", "eof", "error"}

NoAnswer == [kind |-> "none", line |-> 0]

ReadTypeOK ==
    /\ printed \in 0 .. MaxLines
    /\ partial \in BOOLEAN /\ closed \in BOOLEAN /\ gone \in BOOLEAN
    /\ handed \in 0 .. MaxLines
    /\ calls \in 0 .. MaxCalls
    /\ reading \in BOOLEAN
    /\ elapsed \in Nat
    /\ answer \in [kind : Kinds, line : 0 .. MaxLines]
    /\ punctual \in BOOLEAN

ReadInit ==
    /\ printed = 0 /\ partial = FALSE /\ closed = FALSE /\ gone = FALSE
    /\ handed = 0 /\ calls = 0
    /\ reading = FALSE /\ elapsed = 0
    /\ answer = NoAnswer
    /\ punctual \in BOOLEAN

-----------------------------------------------------------------------------
\* The peer.

PrintPart ==
    /\ ~closed /\ ~partial /\ printed < MaxLines
    /\ partial' = TRUE
    /\ UNCHANGED <<printed, closed, gone, callVars>>

PrintLine ==
    /\ ~closed /\ printed < MaxLines
    /\ printed' = printed + 1 /\ partial' = FALSE
    /\ UNCHANGED <<closed, gone, callVars>>

Close ==
    /\ ~closed
    /\ closed' = TRUE
    /\ UNCHANGED <<printed, partial, gone, callVars>>

\* A process exits; its descendants may keep the stream open.
Exit ==
    /\ ~gone
    /\ gone' = TRUE /\ closed' \in {closed, TRUE}
    /\ UNCHANGED <<printed, partial, callVars>>

Peer == PrintPart \/ PrintLine \/ Close

-----------------------------------------------------------------------------
\* The caller's side of a read.

BeginCall ==
    /\ ~reading /\ calls < MaxCalls
    /\ reading' = TRUE /\ calls' = calls + 1
    /\ elapsed' = 0 /\ answer' = NoAnswer
    /\ UNCHANGED <<handed, punctual, peerVars>>

Answer(kind) ==
    /\ reading' = FALSE
    /\ answer' = [kind |-> kind, line |-> 0]
    /\ UNCHANGED <<handed, calls, elapsed, punctual, peerVars>>

AnswerLine(k) ==
    /\ reading' = FALSE
    /\ answer' = [kind |-> "line", line |-> k]
    /\ handed' = handed + 1
    /\ UNCHANGED <<calls, elapsed, punctual, peerVars>>

\* The host refuses a line it has taken: it is lost, and the read fails.
Refused(k) ==
    /\ reading' = FALSE
    /\ answer' = [kind |-> "error", line |-> k]
    /\ handed' = handed + 1
    /\ UNCHANGED <<calls, elapsed, punctual, peerVars>>

\* busy: some step of the host is possible.  Bound: a read that is not answered
\* in twice its timeout is not timed any further.
Tick(busy) ==
    /\ reading /\ elapsed <= 2 * Timeout
    /\ punctual => ~busy
    /\ elapsed' = elapsed + 1
    /\ UNCHANGED <<handed, calls, reading, answer, punctual, peerVars>>

\* The unread text of the stream ends in a line that will not be complete.
CutShort == closed /\ partial
-----------------------------------------------------------------------------
\* docs/rfc-language.md, "read": "The host waits at most `TIMEOUT` seconds for that
\* newline.  ...  That deadline applies to `stdin` and to a process read."  A
\* punctual host answers a read by then.
AnsweredInTime == (punctual /\ reading) => elapsed <= Timeout

\* When time runs out on a read, no line that was printed is still to be
\* returned.
TimeRunsOut == punctual /\ elapsed' = elapsed + 1 /\ elapsed' = Timeout

NoFalseTimeout == [][TimeRunsOut => handed = printed]_<<callVars, peerVars>>

\* Every read is answered.
ReadsReturn == []<>(~reading)
=============================================================================
