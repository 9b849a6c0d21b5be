----------------------------- MODULE JsStdinProofs -----------------------------
(***************************************************************************)
(* Theorems about the shared-memory handshake of the JavaScript CLI, for   *)
(* every number of lines and reads, every timeout and every set of lines   *)
(* that do not fit: it implements LineSource, and a punctual read does not *)
(* time out while a line is there.                                         *)
(***************************************************************************)
EXTENDS JsStdin, TLAPS

-----------------------------------------------------------------------------
\* The inductive invariant.

\* How far the worker is: what it has read, what of that it has published, and
\* with which verdict it goes on.
WorkerInv ==
    /\ published <= taken /\ taken <= printed
    /\ \A k \in 1 .. taken : k \notin TooLong
    /\ worker = "reading" => verdict = "line" /\ published = taken
    /\ worker \in {"filling", "raising"} => (verdict = "line" <=> published < taken)
    /\ worker = "stopped" => verdict # "line" /\ published = taken
    /\ verdict = "eof" => closed /\ taken = printed
    /\ verdict = "error" => taken + 1 \in TooLong /\ (taken < printed \/ partial)

\* Who owns the record: the worker while header[0] is 0, and what it has stored
\* there before it raises the header; the reader while it is 1.
RecordInv ==
    /\ worker = "raising" =>
          /\ ~full /\ record.kind = verdict
          /\ verdict = "line" => record.line = published + 1
    /\ ~full => handed = published /\ worker # "stopped"
    /\ full =>
          \/ /\ record.kind = "line" /\ record.line = published
             /\ handed + 1 = published /\ worker # "stopped"
          \/ /\ worker = "stopped" /\ record.kind = verdict
             /\ handed = published

\* What the reader has copied is still the record.
ReaderInv ==
    /\ reading <=> reader # "idle"
    /\ reader = "copied" => full /\ copy = record

HandshakeInv == TypeOK /\ WorkerInv /\ RecordInv /\ ReaderInv

\* Answers and records are of one type.
LEMMA AnswerTypes ==
    /\ NoAnswer \in [kind : Kinds, line : 0 .. MaxLines]
    /\ \A kind \in Kinds, k \in 0 .. MaxLines :
          [kind |-> kind, line |-> k] \in [kind : Kinds, line : 0 .. MaxLines]
BY ReadCallAssumption DEF NoAnswer, Kinds

\* The handshake begins with nothing read, published or copied.
LEMMA HandshakeInit == Init => HandshakeInv
<1> SUFFICES ASSUME Init PROVE HandshakeInv
  OBVIOUS
<1>1. TypeOK
  <2>1. /\ printed \in 0 .. MaxLines /\ handed \in 0 .. MaxLines /\ taken \in 0 .. MaxLines
        /\ calls \in 0 .. MaxCalls /\ published \in 0 .. taken /\ elapsed \in Nat
    BY ReadCallAssumption DEF Init, ReadInit
  <2>2. /\ partial \in BOOLEAN /\ closed \in BOOLEAN /\ gone \in BOOLEAN
        /\ reading \in BOOLEAN /\ punctual \in BOOLEAN /\ full \in BOOLEAN
    BY Zenon DEF Init, ReadInit
  <2>3. /\ answer = NoAnswer /\ record = NoAnswer /\ copy = NoAnswer
        /\ worker = "reading" /\ verdict = "line" /\ reader = "idle"
    BY DEF Init, ReadInit
  <2>4. QED
    BY <2>1, <2>2, <2>3, AnswerTypes, Zenon DEF TypeOK, ReadTypeOK
<1>2. WorkerInv /\ RecordInv /\ ReaderInv
  BY ReadCallAssumption DEF Init, ReadInit, WorkerInv, RecordInv, ReaderInv
<1>3. QED
  BY <1>1, <1>2 DEF HandshakeInv

USE DEF HandshakeInv, TypeOK, ReadTypeOK, peerVars, callVars

\* What the peer prints is no concern of a record that is already read.
LEMMA PeerKeeps ==
    ASSUME HandshakeInv, Peer, UNCHANGED jsVars
    PROVE  HandshakeInv'
<1> USE ReadCallAssumption DEF jsVars, workerVars, readerVars
<1>1. TypeOK'
  <2>1. printed' \in 0 .. MaxLines /\ UNCHANGED <<gone, callVars, jsVars>>
    BY DEF Peer, PrintPart, PrintLine, Close
  <2>2. partial' \in BOOLEAN /\ closed' \in BOOLEAN
    BY Zenon DEF Peer, PrintPart, PrintLine, Close
  <2>3. QED
    BY <2>1, <2>2, Zenon
<1>2. WorkerInv'
  BY DEF Peer, PrintPart, PrintLine, Close, WorkerInv
<1>3. RecordInv' /\ ReaderInv'
  BY DEF Peer, PrintPart, PrintLine, Close, RecordInv, ReaderInv
<1>4. QED
  BY <1>1, <1>2, <1>3

\* The worker reads, stores and raises only what is its own.
LEMMA WorkerKeeps ==
    ASSUME HandshakeInv, Worker
    PROVE  HandshakeInv'
<1> USE ReadCallAssumption DEF readerVars
<1>1. CASE ReadChunk
  <2>1. TypeOK'
    BY <1>1 DEF ReadChunk, WorkerInv
  <2>2. PICK upTo \in taken + 1 .. printed :
            (taken + 1 .. upTo) \cap TooLong = {} /\ taken' = upTo
    BY <1>1 DEF ReadChunk
  <2>3. \A k \in 1 .. taken' : k \notin TooLong
    BY <2>2 DEF WorkerInv
  <2>4. WorkerInv'
    BY <1>1, <2>2, <2>3 DEF ReadChunk, CanRead, WorkerInv
  <2>5. RecordInv' /\ ReaderInv'
    BY <1>1, <2>2 DEF ReadChunk, CanRead, RecordInv, ReaderInv
  <2>6. QED
    BY <2>1, <2>4, <2>5
<1>2. CASE ReadLast
  <2>1. TypeOK'
    BY <1>2 DEF ReadLast
  <2>2. WorkerInv'
    BY <1>2 DEF ReadLast, CanRead, Overlong, AtEnd, WorkerInv
  <2>3. RecordInv' /\ ReaderInv'
    BY <1>2 DEF ReadLast, CanRead, RecordInv, ReaderInv
  <2>4. QED
    BY <2>1, <2>2, <2>3
<1>3. CASE Fill
  <2>1. record' \in [kind : Kinds, line : 0 .. MaxLines]
    BY <1>3 DEF Fill, WorkerInv, Kinds
  <2>2. TypeOK'
    BY <1>3, <2>1 DEF Fill
  <2>3. WorkerInv'
    BY <1>3 DEF Fill, WorkerInv
  <2>4. RecordInv' /\ ReaderInv'
    BY <1>3 DEF Fill, WorkerInv, RecordInv, ReaderInv
  <2>5. QED
    BY <2>2, <2>3, <2>4
<1>4. CASE Raise
  <2>1. TypeOK'
    BY <1>4 DEF Raise, WorkerInv
  <2>2. WorkerInv'
    BY <1>4 DEF Raise, WorkerInv
  <2>3. RecordInv' /\ ReaderInv'
    BY <1>4 DEF Raise, WorkerInv, RecordInv, ReaderInv
  <2>4. QED
    BY <2>1, <2>2, <2>3
<1>5. QED
  BY <1>1, <1>2, <1>3, <1>4 DEF Worker

\* The reader releases a record only when it has taken it.
LEMMA ReaderKeeps ==
    ASSUME HandshakeInv, Call \/ Reader
    PROVE  HandshakeInv'
<1> USE ReadCallAssumption DEF workerVars
<1>1. CASE Call
  <2>1. TypeOK'
    BY <1>1 DEF Call, BeginCall, NoAnswer, Kinds
  <2>2. WorkerInv' /\ RecordInv' /\ ReaderInv'
    BY <1>1 DEF Call, BeginCall, WorkerInv, RecordInv, ReaderInv
  <2>3. QED
    BY <2>1, <2>2
<1>2. CASE Look \/ Sleep \/ Wake
  BY <1>2 DEF Look, Sleep, Wake, Woken, WorkerInv, RecordInv, ReaderInv
<1>3. CASE GiveUp
  <2>1. answer' \in [kind : Kinds, line : 0 .. MaxLines]
    BY <1>3 DEF GiveUp, Answer, Kinds
  <2>3. reading' \in BOOLEAN
    BY <1>3, Zenon DEF GiveUp, Answer
  <2>4. TypeOK'
    BY <1>3, <2>1, <2>3 DEF GiveUp, Answer
  <2>2. WorkerInv' /\ RecordInv' /\ ReaderInv'
    BY <1>3 DEF GiveUp, Answer, WorkerInv, RecordInv, ReaderInv
  <2>5. QED
    BY <2>2, <2>4
<1>4. CASE Return
  <2>1. CASE copy.kind = "line"
    <3>1. /\ AnswerLine(copy.line) /\ full' = FALSE
          /\ reader' = "idle" /\ UNCHANGED <<workerVars, record, copy>>
      BY <1>4, <2>1 DEF Return
    <3>2. /\ copy.line = published /\ handed + 1 = published
          /\ full /\ worker # "stopped"
      BY <1>4, <2>1 DEF Return, WorkerInv, RecordInv, ReaderInv
    <3>3. /\ handed' = published /\ handed' \in 0 .. MaxLines
          /\ answer' = [kind |-> "line", line |-> published]
      BY <3>1, <3>2 DEF AnswerLine, WorkerInv
    <3>4. reading' = FALSE /\ UNCHANGED <<calls, elapsed, punctual, peerVars>>
      BY <3>1 DEF AnswerLine
    <3>5. answer' \in [kind : Kinds, line : 0 .. MaxLines]
      BY <3>3 DEF Kinds
    <3>6. TypeOK'
      BY <3>1, <3>3, <3>4, <3>5
    <3>7. WorkerInv'
      BY <3>1, <3>4 DEF WorkerInv
    <3>8. RecordInv'
      BY <3>1, <3>2, <3>3 DEF RecordInv
    <3>9. ReaderInv'
      BY <3>1, <3>4 DEF ReaderInv
    <3>10. QED
      BY <3>6, <3>7, <3>8, <3>9
  <2>2. CASE copy.kind # "line"
    <3>1. /\ answer' = [kind |-> copy.kind, line |-> 0]
          /\ reading' = FALSE /\ reader' = "idle"
          /\ UNCHANGED <<handed, calls, elapsed, punctual, peerVars, full, workerVars,
                         record, copy>>
      BY <1>4, <2>2 DEF Return, Answer
    <3>2. answer' \in [kind : Kinds, line : 0 .. MaxLines]
      BY <3>1
    <3>3. TypeOK'
      BY <3>1, <3>2
    <3>4. WorkerInv' /\ RecordInv' /\ ReaderInv'
      BY <3>1 DEF WorkerInv, RecordInv, ReaderInv
    <3>5. QED
      BY <3>3, <3>4
  <2>3. QED
    BY <2>1, <2>2
<1>5. QED
  BY <1>1, <1>2, <1>3, <1>4 DEF Reader

\* Neither thread reads or overwrites what the other has under way, in every
\* interleaving of their accesses to the shared header.
THEOREM HandshakeInvariant == Spec => []HandshakeInv
<1>1. HandshakeInv /\ [Next]_vars => HandshakeInv'
  <2> SUFFICES ASSUME HandshakeInv, [Next]_vars PROVE HandshakeInv'
    OBVIOUS
  <2>1. CASE TimePasses
    BY <2>1 DEF TimePasses, Tick, jsVars, workerVars, readerVars, WorkerInv, RecordInv, ReaderInv
  <2>2. CASE UNCHANGED vars
    BY <2>2 DEF vars, jsVars, workerVars, readerVars, WorkerInv, RecordInv, ReaderInv
  <2>3. QED
    BY <2>1, <2>2, PeerKeeps, WorkerKeeps, ReaderKeeps DEF Next
<1>2. QED
  BY <1>1, HandshakeInit, PTL DEF Spec

-----------------------------------------------------------------------------
\* The refinement.

\* What the reader returns is what LineSource would answer: the next line, an end
\* when every line was returned, or an error about a line that does not fit.
LEMMA ReturnServes ==
    ASSUME HandshakeInv, Return
    PROVE  Promise!Serve \/ Promise!End \/ Promise!Refuse
<1>1. reading /\ full /\ copy = record
  BY DEF Return, ReaderInv
<1>2. CASE copy.kind = "line"
  <2>1. copy.line = handed + 1 /\ handed + 1 = published
    BY <1>1, <1>2 DEF WorkerInv, RecordInv
  <2>2. handed < printed /\ handed + 1 \notin TooLong
    BY <2>1, ReadCallAssumption DEF WorkerInv
  <2>3. QED
    BY <1>1, <1>2, <2>1, <2>2
    DEF Return, AnswerLine, Promise!Serve, Promise!AnswerLine, Promise!peerVars
<1>3. CASE copy.kind # "line"
  <2>1. worker = "stopped" /\ copy.kind = verdict /\ handed = taken
    BY <1>1, <1>3 DEF WorkerInv, RecordInv
  <2>2. Promise!Answer(verdict)
    BY <1>3, <2>1 DEF Return, Answer, Promise!Answer, Promise!peerVars
  <2>3. CASE verdict = "eof"
    BY <1>1, <2>1, <2>2, <2>3 DEF WorkerInv, Promise!End, Promise!Drained
  <2>4. CASE verdict = "error"
    BY <1>1, <2>1, <2>2, <2>4 DEF WorkerInv, Promise!Refuse
  <2>5. QED
    BY <1>3, <2>1, <2>3, <2>4
<1>4. QED
  BY <1>2, <1>3

\* Every step of the handshake is a step of LineSource or none.
LEMMA PromiseStep ==
    HandshakeInv /\ [Next]_vars => [Promise!Next]_<<Promise!peerVars, Promise!callVars>>
<1> SUFFICES ASSUME HandshakeInv, [Next]_vars
             PROVE  Promise!Next \/ UNCHANGED <<Promise!peerVars, Promise!callVars>>
  OBVIOUS
<1> USE DEF Promise!peerVars, Promise!callVars
<1>1. CASE Peer
  BY <1>1 DEF Peer, PrintPart, PrintLine, Close, Promise!Next, Promise!Peer,
              Promise!PrintPart, Promise!PrintLine, Promise!Close
<1>2. CASE Call
  BY <1>2 DEF Call, BeginCall, NoAnswer, Promise!Next, Promise!BeginCall, Promise!NoAnswer
<1>3. CASE Worker \/ Look \/ Sleep \/ Wake
  BY <1>3 DEF Worker, ReadChunk, ReadLast, Fill, Raise, Look, Sleep, Wake
<1>4. CASE GiveUp
  BY <1>4 DEF GiveUp, OutOfTime, Answer, ReaderInv, Promise!Next, Promise!TimedOut, Promise!Answer
<1>5. CASE Return
  BY <1>5, ReturnServes DEF Promise!Next
<1>6. CASE TimePasses
  BY <1>6 DEF TimePasses, Tick, Promise!Next, Promise!Tick
<1>7. CASE UNCHANGED vars
  BY <1>7 DEF vars
<1>8. QED
  BY <1>1, <1>2, <1>3, <1>4, <1>5, <1>6, <1>7 DEF Next, Reader

\* Standard input of the JavaScript CLI returns each line once and in order, keeps
\* a late line for the next read, and reports an end or an error only where there
\* is one (stdin-host.cjs:28, cli.js:279).
THEOREM StdinKeepsPromise == Spec => ImplementsLineSource
<1>1. Init => Promise!Init
  BY DEF Init, ReadInit, NoAnswer, Promise!Init, Promise!ReadInit, Promise!NoAnswer
<1>2. QED
  BY <1>1, PromiseStep, HandshakeInvariant, PTL
  DEF Spec, ImplementsLineSource, Promise!Spec

\* When neither thread has a step to make before the deadline, all that was printed
\* has been returned: no record is slept through (cli.js:282).
THEOREM NoLineIsSleptThrough == Spec => NoFalseTimeout
<1>1. HandshakeInv /\ [Next]_vars => [TimeRunsOut => handed = printed]_<<callVars, peerVars>>
  <2> SUFFICES ASSUME HandshakeInv, [Next]_vars, TimeRunsOut PROVE handed = printed
    OBVIOUS
  <2>1. TimePasses
    <3>1. elapsed' = elapsed + 1 /\ elapsed \in Nat /\ elapsed' # elapsed /\ elapsed' # 0
      BY DEF TimeRunsOut
    <3>2. Call => elapsed' = 0
      BY DEF Call, BeginCall
    <3>3. Peer \/ Worker \/ UNCHANGED vars => UNCHANGED elapsed
      BY DEF vars, Peer, PrintPart, PrintLine, Close, Worker, ReadChunk, ReadLast, Fill, Raise
    <3>4. Reader => UNCHANGED elapsed
      BY DEF Reader, Look, GiveUp, Sleep, Wake, Return, Answer, AnswerLine
    <3>5. QED
      BY <3>1, <3>2, <3>3, <3>4 DEF Next
  <2>2. punctual /\ reading /\ ~Busy /\ elapsed < Timeout
    BY <2>1, ReadCallAssumption DEF TimeRunsOut, TimePasses, Tick
  <2>3. reader = "asleep" /\ ~full
    BY <2>2 DEF Busy, Woken, ReaderInv
  <2>4. worker = "reading" /\ ~CanRead
    BY <2>2, <2>3 DEF Busy, RecordInv
  <2>5. QED
    BY <2>3, <2>4 DEF CanRead, WorkerInv, RecordInv
<1>2. QED
  BY <1>1, HandshakeInvariant, PTL DEF Spec, NoFalseTimeout
=============================================================================
