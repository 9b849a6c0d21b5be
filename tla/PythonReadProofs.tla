--------------------------- MODULE PythonReadProofs ---------------------------
(***************************************************************************)
(* Theorems about the reads of the Python host, for every number of lines  *)
(* and reads and every timeout: on standard input and on the pipe of a     *)
(* process, they implement LineSource.                                     *)
(***************************************************************************)
EXTENDS PythonRead, TLAPS

-----------------------------------------------------------------------------
\* The inductive invariant: lines are taken from the descriptor before they are
\* returned, from a pipe one at a time, the status of a process is known when it
\* has exited, and stderr is read when time is up.
ReaderInv ==
    /\ reading <=> reader # "idle"
    /\ failed => gone
    /\ reader = "draining" => failed /\ elapsed >= Timeout
    /\ buffered => ~failed
    /\ ~buffered => taken <= handed + 1 /\ (reader # "reading" => taken = handed)

ReadInv == TypeOK /\ ReaderInv

\* Answers are of one type.
LEMMA AnswerTypes ==
    /\ NoAnswer \in [kind : Kinds, line : 0 .. MaxLines]
    /\ \A kind \in Kinds : [kind |-> kind, line |-> 0] \in [kind : Kinds, line : 0 .. MaxLines]
  BY ReadCallAssumption DEF NoAnswer, Kinds

\* Before the first read nothing has been taken.
LEMMA ReadBegins == Init => ReadInv
<1> SUFFICES ASSUME Init PROVE ReadInv
  OBVIOUS
<1>1. /\ printed \in 0 .. MaxLines /\ handed \in 0 .. MaxLines /\ taken \in handed .. printed
      /\ calls \in 0 .. MaxCalls /\ elapsed \in Nat /\ reader = "idle" /\ answer = NoAnswer
  BY ReadCallAssumption DEF Init, ReadInit
<1>2. /\ partial \in BOOLEAN /\ closed \in BOOLEAN /\ gone \in BOOLEAN
      /\ reading \in BOOLEAN /\ punctual \in BOOLEAN
      /\ buffered \in BOOLEAN /\ partTaken \in BOOLEAN /\ failed \in BOOLEAN
      /\ stderrHeld \in BOOLEAN
  BY Zenon DEF Init, ReadInit
<1>3. TypeOK
  BY <1>1, <1>2, AnswerTypes DEF TypeOK, ReadTypeOK
<1>4. QED
  BY <1>3 DEF ReadInv, ReaderInv, Init, ReadInit

USE DEF ReadInv, TypeOK, ReadTypeOK, peerVars, callVars

\* The peer prints, a process exits, and its descendants let go of its stderr.
LEMMA PeerKeeps ==
    ASSUME ReadInv, (Peer /\ UNCHANGED pyVars) \/ ProcessExit \/ StderrClosed
    PROVE  ReadInv'
<1> USE ReadCallAssumption DEF pyVars
<1>1. CASE Peer /\ UNCHANGED pyVars
  <2>1. /\ printed' \in printed .. MaxLines
        /\ UNCHANGED <<gone, handed, calls, reading, elapsed, answer, punctual,
                       buffered, reader, taken, partTaken, failed, stderrHeld>>
    BY <1>1 DEF Peer, PrintPart, PrintLine, Close
  <2>2. partial' \in BOOLEAN /\ closed' \in BOOLEAN
    BY <1>1, Zenon DEF Peer, PrintPart, PrintLine, Close
  <2>3. printed' \in 0 .. MaxLines /\ taken' \in handed' .. printed'
    BY <2>1
  <2>4. TypeOK'
    BY <2>1, <2>2, <2>3, Zenon
  <2>5. QED
    BY <2>1, <2>4 DEF ReaderInv
<1>2. CASE ProcessExit
  <2>1. UNCHANGED <<printed, partial, callVars, buffered, reader, taken, partTaken>>
    BY <1>2 DEF ProcessExit, Exit
  <2>2. gone' = TRUE /\ ~gone /\ ~buffered
    BY <1>2 DEF ProcessExit, Exit
  <2>3. /\ gone' \in BOOLEAN /\ closed' \in BOOLEAN
        /\ failed' \in BOOLEAN /\ stderrHeld' \in BOOLEAN
    BY <1>2, Zenon DEF ProcessExit, Exit
  <2>4. TypeOK'
    BY <2>1, <2>3
  <2>5. QED
    BY <2>1, <2>2, <2>4 DEF ReaderInv
<1>3. CASE StderrClosed
  <2>1. UNCHANGED <<buffered, reader, taken, partTaken, failed, peerVars, callVars>>
    BY <1>3 DEF StderrClosed
  <2>2. stderrHeld' \in BOOLEAN
    BY <1>3, Zenon DEF StderrClosed
  <2>3. TypeOK'
    BY <2>1, <2>2
  <2>4. QED
    BY <2>1, <2>3 DEF ReaderInv
<1>4. QED
  BY <1>1, <1>2, <1>3

\* A read without a line is answered.
LEMMA AnswerKeeps ==
    ASSUME ReadInv, NEW kind \in Kinds, Answer(kind), reader' = "idle",
           UNCHANGED <<buffered, taken, partTaken, failed, stderrHeld>>,
           ~buffered => taken = handed
    PROVE  ReadInv'
<1>1. answer' \in [kind : Kinds, line : 0 .. MaxLines] /\ reading' \in BOOLEAN
  BY AnswerTypes, Zenon DEF Answer
<1>2. TypeOK'
  BY <1>1 DEF Answer
<1>3. QED
  BY <1>2 DEF Answer, ReaderInv

\* select and readline.
LEMMA HostKeeps ==
    ASSUME ReadInv, Call \/ Host
    PROVE  ReadInv'
<1> USE ReadCallAssumption
<1>1. CASE Call
  <2>1. /\ ~reading /\ calls' \in 0 .. MaxCalls /\ elapsed' \in Nat /\ reading' = TRUE
        /\ answer' = NoAnswer /\ reader' = "selecting"
        /\ UNCHANGED <<handed, punctual, peerVars, buffered, taken, partTaken, failed, stderrHeld>>
    BY <1>1 DEF Call, BeginCall
  <2>2. reading' \in BOOLEAN
    BY <2>1, Zenon
  <2>3. TypeOK'
    BY <2>1, <2>2, AnswerTypes
  <2>4. reader = "idle"
    BY <2>1 DEF ReaderInv
  <2>5. ReaderInv'
    BY <2>1, <2>4 DEF ReaderInv
  <2>6. QED
    BY <2>3, <2>5
<1>2. CASE SelectReady
  BY <1>2 DEF SelectReady, ReaderInv
<1>3. CASE SelectTimeout
  <2>1. CASE gone /\ failed
    BY <1>3, <2>1 DEF SelectTimeout, TimeUp, ReaderInv
  <2>2. CASE ~(gone /\ failed)
    <3>1. /\ Answer("timeout") /\ reader' = "idle" /\ reader = "selecting"
          /\ UNCHANGED <<buffered, taken, partTaken, failed, stderrHeld>>
      BY <1>3, <2>2 DEF SelectTimeout
    <3>2. "timeout" \in Kinds /\ (~buffered => taken = handed)
      BY <3>1 DEF Kinds, ReaderInv
    <3>3. QED
      BY <3>1, <3>2, AnswerKeeps
  <2>3. QED
    BY <2>1, <2>2
<1>4. CASE ReadKept
  <2>1. /\ handed' = handed + 1 /\ reading' = FALSE /\ reader' = "idle" /\ handed < taken
        /\ UNCHANGED <<calls, elapsed, punctual, peerVars, buffered, taken, partTaken, failed, stderrHeld>>
    BY <1>4 DEF ReadKept, AnswerLine
  <2>2. answer' \in [kind : Kinds, line : 0 .. MaxLines]
    BY <1>4 DEF ReadKept, AnswerLine, Kinds
  <2>3. reading' \in BOOLEAN
    BY <2>1, Zenon
  <2>4. TypeOK'
    BY <2>1, <2>2, <2>3
  <2>5. QED
    BY <2>1, <2>4 DEF ReaderInv
<1>5. CASE Take
  <2>1. UNCHANGED <<buffered, reader, failed, stderrHeld, peerVars, callVars>>
    BY <1>5 DEF Take
  <2>2. taken' \in handed' .. printed'
    <3>1. CASE taken < printed
      <4>1. taken' \in IF buffered THEN taken + 1 .. printed ELSE {taken + 1}
        BY <1>5, <3>1 DEF Take
      <4>2. taken' \in taken + 1 .. printed
        BY <3>1, <4>1
      <4>3. QED
        BY <2>1, <4>2
    <3>2. CASE ~(taken < printed)
      BY <1>5, <2>1, <3>2 DEF Take
    <3>3. QED
      BY <3>1, <3>2
  <2>3. partTaken' \in BOOLEAN
    <3>1. CASE taken < printed
      BY <1>5, <3>1, Zenon DEF Take
    <3>2. CASE ~(taken < printed)
      BY <1>5, <3>2, Zenon DEF Take
    <3>3. QED
      BY <3>1, <3>2
  <2>4. TypeOK'
    BY <2>1, <2>2, <2>3
  <2>5. ~buffered => taken' <= handed' + 1 /\ reader' = "reading"
    <3>1. CASE taken < printed
      <4>1. ~buffered => taken' = taken + 1
        BY <1>5, <3>1 DEF Take
      <4>2. QED
        BY <1>5, <2>1, <4>1 DEF Take, CanTake
    <3>2. CASE ~(taken < printed)
      BY <1>5, <2>1, <3>2 DEF Take, CanTake
    <3>3. QED
      BY <3>1, <3>2
  <2>6. QED
    BY <2>1, <2>4, <2>5 DEF ReaderInv
<1>6. CASE ReadEnd
  BY <1>6, AnswerKeeps DEF ReadEnd, CanEnd, Kinds
<1>7. CASE DrainStderr
  BY <1>7, AnswerKeeps DEF DrainStderr, CanDrain, Kinds, ReaderInv
<1>8. QED
  BY <1>1, <1>2, <1>3, <1>4, <1>5, <1>6, <1>7 DEF Host

\* What is taken from the descriptor and what is returned fit together, in whatever
\* pieces a text stream is read, and whenever a process exits.
THEOREM ReadInvariant == Spec => []ReadInv
<1>1. ReadInv /\ [Next]_vars => ReadInv'
  <2> SUFFICES ASSUME ReadInv, [Next]_vars PROVE ReadInv'
    OBVIOUS
  <2>1. CASE TimePasses
    <3>1. /\ elapsed' = elapsed + 1
          /\ UNCHANGED <<handed, calls, reading, answer, punctual, peerVars, pyVars>>
      BY <2>1 DEF TimePasses, Tick
    <3>2. elapsed' \in Nat /\ (elapsed >= Timeout => elapsed' >= Timeout)
      BY <3>1, ReadCallAssumption
    <3>3. TypeOK'
      BY <3>1, <3>2 DEF pyVars
    <3>4. ReaderInv'
      BY <3>1, <3>2, Zenon DEF pyVars, ReaderInv
    <3>5. QED
      BY <3>3, <3>4
  <2>2. CASE UNCHANGED vars
    BY <2>2 DEF vars, pyVars, ReaderInv
  <2>3. QED
    BY <2>1, <2>2, PeerKeeps, HostKeeps DEF Next
<1>2. QED
  BY <1>1, ReadBegins, PTL DEF Spec

-----------------------------------------------------------------------------
\* The refinement.

\* Every step of a read is a step of LineSource or none.
LEMMA PromiseStep ==
    ASSUME TooLong = {}
    PROVE  ReadInv /\ [Next]_vars => [Promise!Next]_<<Promise!peerVars, Promise!callVars>>
<1> SUFFICES ASSUME ReadInv, [Next]_vars
             PROVE  Promise!Next \/ UNCHANGED <<Promise!peerVars, Promise!callVars>>
  OBVIOUS
<1> USE DEF Promise!peerVars, Promise!callVars
<1>1. CASE Peer
  BY <1>1 DEF Peer, PrintPart, PrintLine, Close, Promise!Next, Promise!Peer,
              Promise!PrintPart, Promise!PrintLine, Promise!Close
<1>2. CASE ProcessExit
  BY <1>2 DEF ProcessExit, Exit, Promise!Next, Promise!Exit
<1>3. CASE Call
  BY <1>3 DEF Call, BeginCall, NoAnswer, Promise!Next, Promise!BeginCall, Promise!NoAnswer
<1>4. CASE SelectReady \/ Take
  BY <1>4 DEF SelectReady, Take
<1>5. CASE SelectTimeout
  <2>1. reading /\ elapsed >= Timeout
    BY <1>5 DEF SelectTimeout, TimeUp, ReaderInv
  <2>2. CASE gone /\ failed
    BY <1>5, <2>2 DEF SelectTimeout
  <2>3. CASE ~(gone /\ failed)
    <3>1. Promise!Answer("timeout")
      BY <1>5, <2>3 DEF SelectTimeout, Answer, Promise!Answer
    <3>2. QED
      BY <2>1, <3>1 DEF Promise!Next, Promise!TimedOut
  <2>4. QED
    BY <2>2, <2>3
<1>6. CASE ReadKept
  <2>1. reading /\ handed < printed /\ AnswerLine(handed + 1)
    BY <1>6 DEF ReadKept, ReaderInv
  <2>2. QED
    BY <2>1 DEF AnswerLine, Promise!AnswerLine, Promise!Next, Promise!Serve
<1>7. CASE ReadEnd
  <2>1. reading /\ Promise!Drained /\ Promise!Answer("eof")
    BY <1>7 DEF ReadEnd, CanEnd, Unread, ReaderInv, Answer, Promise!Drained, Promise!Answer
  <2>2. QED
    BY <2>1 DEF Promise!Next, Promise!End
<1>8. CASE DrainStderr
  <2>1. reading /\ gone /\ Promise!Abandoned
    BY <1>8 DEF DrainStderr, CanDrain, ReaderInv, Promise!Abandoned
  <2>2. Promise!Answer("error")
    BY <1>8 DEF DrainStderr, Answer, Promise!Answer
  <2>3. QED
    BY <2>1, <2>2 DEF Promise!Next, Promise!Fail
<1>9. CASE StderrClosed
  BY <1>9 DEF StderrClosed
<1>10. CASE TimePasses
  BY <1>10 DEF TimePasses, Tick, Promise!Next, Promise!Tick
<1>11. CASE UNCHANGED vars
  BY <1>11 DEF vars
<1>12. QED
  BY <1>1, <1>2, <1>3, <1>4, <1>5, <1>6, <1>7, <1>8, <1>9, <1>10, <1>11 DEF Next, Host

\* A read of the Python host, which takes lines of every length, returns each line
\* once and in order, from standard input or from a process, and reports an end or
\* an error only when there is one (interpreter.py:982).
THEOREM ReadKeepsPromise ==
    ASSUME TooLong = {}
    PROVE  Spec => ImplementsLineSource
<1>1. Init => Promise!Init
  BY DEF Init, ReadInit, NoAnswer, Promise!Init, Promise!ReadInit, Promise!NoAnswer
<1>2. ReadInv /\ [Next]_vars => [Promise!Next]_<<Promise!peerVars, Promise!callVars>>
  BY PromiseStep
<1>3. QED
  BY <1>1, <1>2, ReadInvariant, PTL DEF Spec, ImplementsLineSource, Promise!Spec

\* Select sees every line that a process has printed and no read has returned: only
\* the text buffer of standard input hides one from it (interpreter.py:982).
THEOREM PipeHidesNoLine ==
    Spec => [][~buffered /\ TimeRunsOut => handed = printed]_<<callVars, peerVars>>
<1>1. ReadInv /\ [Next]_vars => [~buffered /\ TimeRunsOut => handed = printed]_<<callVars, peerVars>>
  <2> SUFFICES ASSUME ReadInv, [Next]_vars, ~buffered, TimeRunsOut PROVE handed = printed
    OBVIOUS
  <2>1. TimePasses
    <3>1. elapsed' = elapsed + 1 /\ elapsed \in Nat /\ elapsed' # elapsed /\ elapsed' # 0
      BY DEF TimeRunsOut
    <3>2. Call => elapsed' = 0
      BY DEF Call, BeginCall
    <3>3. Peer \/ ProcessExit \/ StderrClosed \/ UNCHANGED vars => UNCHANGED elapsed
      BY DEF vars, StderrClosed, Peer, PrintPart, PrintLine, Close, ProcessExit, Exit
    <3>4. Host => UNCHANGED elapsed
      BY DEF Host, SelectReady, SelectTimeout, DrainStderr, ReadKept, Take, ReadEnd, Answer, AnswerLine
    <3>5. QED
      BY <3>1, <3>2, <3>3, <3>4 DEF Next
  <2>2. reading /\ ~Busy
    BY <2>1 DEF TimeRunsOut, TimePasses, Tick
  <2>3. CASE reader = "selecting"
    BY <2>2, <2>3 DEF Busy, Readable, Unread, ReaderInv
  <2>4. CASE reader = "reading"
    BY <2>2, <2>4 DEF Busy, CanTake, Unread
  <2>5. reader # "draining"
    BY <2>1, ReadCallAssumption DEF TimeRunsOut, TimePasses, Tick, ReaderInv
  <2>6. QED
    BY <2>2, <2>3, <2>4, <2>5 DEF ReaderInv
<1>2. QED
  BY <1>1, ReadInvariant, PTL DEF Spec
=============================================================================
