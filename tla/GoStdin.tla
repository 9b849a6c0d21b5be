-------------------------------- MODULE GoStdin --------------------------------
(***************************************************************************)
(* stdinResource of go/thuelang/resource.go.  The first ReadLine starts a  *)
(* goroutine that reads lines and sends each on an unbuffered channel; a   *)
(* ReadLine selects between that channel and its timer.  A line whose      *)
(* reader has given up stays in the blocked send.                          *)
(***************************************************************************)
EXTENDS ReadCall

VARIABLES
    pump,    \* the goroutine: "off", "reading", "sending", "stopped"
    pumped,  \* the complete lines it has read
    tail     \* whether what it sends is the unterminated end of the stream

pumpVars == <<pump, pumped, tail>>
vars == <<peerVars, callVars, pumpVars>>

Init == ReadInit /\ pump = "off" /\ pumped = 0 /\ tail = FALSE

\* ReadLine: start, and wait in the select.
Call ==
    /\ BeginCall
    /\ pump' = IF pump = "off" THEN "reading" ELSE pump
    /\ UNCHANGED <<pumped, tail>>

\* Mutant: the goroutine reads one line and no more.
CanPump_Once == pump = "reading" /\ pumped = 0 /\ (printed > 0 \/ closed)

\* ReadString returns when a line is complete or the stream has ended.
CanPump == pump = "reading" /\ (pumped < printed \/ closed)

PumpLine ==
    /\ CanPump /\ pumped < printed
    /\ pump' = "sending" /\ pumped' = pumped + 1
    /\ UNCHANGED <<tail, peerVars, callVars>>

\* The rest of the stream, sent as a line, and io.EOF.
PumpTail ==
    /\ CanPump /\ pumped = printed /\ CutShort
    /\ pump' = "sending" /\ tail' = TRUE
    /\ UNCHANGED <<pumped, peerVars, callVars>>

\* io.EOF alone closes the channel.
PumpEnd ==
    /\ CanPump /\ pumped = printed /\ ~CutShort
    /\ pump' = "stopped"
    /\ UNCHANGED <<pumped, tail, peerVars, callVars>>

\* Mutant: a read whose time is up takes the pending line with it.
Receive_ElseDrop ==
    /\ reading /\ pump = "sending"
    /\ IF tail THEN Answer("eof") /\ pump' = "stopped"
       ELSE /\ IF elapsed >= Timeout THEN Answer("timeout") ELSE AnswerLine(pumped)
            /\ pump' = "reading"
    /\ UNCHANGED <<pumped, tail>>

\* The rendezvous of the send with the select.
Receive ==
    /\ reading /\ pump = "sending"
    /\ IF tail THEN Answer("eof") /\ pump' = "stopped"
       ELSE AnswerLine(pumped) /\ pump' = "reading"
    /\ UNCHANGED <<pumped, tail>>

\* The receive from the closed channel.
ReceiveClosed == reading /\ pump = "stopped" /\ Answer("eof") /\ UNCHANGED pumpVars

\* Mutant: the timer is armed by the first line.
TimerDue_AfterLine == reading /\ elapsed >= Timeout /\ handed > 0

TimerDue == reading /\ elapsed >= Timeout

\* The timer case; when a line is there too, select takes either.
TimerFires == TimerDue /\ Answer("timeout") /\ UNCHANGED pumpVars

Busy == CanPump \/ (reading /\ pump \in {"sending", "stopped"}) \/ TimerDue

TimePasses == Tick(Busy) /\ UNCHANGED pumpVars

Host == PumpLine \/ PumpTail \/ PumpEnd \/ Receive \/ ReceiveClosed \/ TimerFires

Next == (Peer /\ UNCHANGED pumpVars) \/ Call \/ Host \/ TimePasses

Spec == Init /\ [][Next]_vars

\* Both goroutines are scheduled and time goes on; the peer owes nothing.
FairSpec == Spec /\ WF_vars(Host) /\ WF_vars(TimePasses)
-----------------------------------------------------------------------------
\* The type invariant.
TypeOK ==
    /\ ReadTypeOK
    /\ pump \in {"off", "reading", "sending", "stopped"}
    /\ pumped \in 0 .. MaxLines
    /\ tail \in BOOLEAN

\* The resource keeps the promise of LineSource.
Promise == INSTANCE LineSource
ImplementsLineSource == Promise!Spec
=============================================================================
