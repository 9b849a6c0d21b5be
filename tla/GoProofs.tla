--------------------------------- MODULE GoProofs ---------------------------------
(***************************************************************************)
(* Theorems about the resources of the Go library, for every number of     *)
(* lines and reads, every timeout and every capacity of the channel.       *)
(*                                                                         *)
(* A process binding implements LineSource, and a punctual read takes at   *)
(* most two timeouts.  Standard input, `Stdin` below, implements           *)
(* LineSource, and a punctual read does not time out while a line is       *)
(* there.  Both have a goroutine that reads the stream; its variables have *)
(* the same names in the two specifications.                               *)
(***************************************************************************)
EXTENDS GoProcess, Integers, TLAPS

-----------------------------------------------------------------------------
\* The inductive invariant.

\* The lines the goroutine has put into the channel.
Sent == IF pump = "sending" /\ ~tail THEN pumped - 1 ELSE pumped

\* What the goroutine has read, and that it stops only at the end of stdout.
PumpInv ==
    /\ pumped <= printed
    /\ pump = "sending" /\ ~tail => pumped > 0
    /\ tail \/ pump \in {"closing", "stopped"} => closed /\ pumped = printed
    /\ tail => pump \in {"sending", "closing", "stopped"}
    /\ pump = "off" => ~reading

\* The channel holds the lines that were sent and not yet returned, in order, and
\* behind them, perhaps, the unterminated one.
ChannelInv ==
    /\ \A k \in 1 .. Len(outCh) :
          outCh[k] = handed + k \/ (outCh[k] = 0 /\ k = Len(outCh) /\ tail /\ pump # "sending")
    /\ outCh # <<>> /\ outCh[Len(outCh)] = 0 => handed + Len(outCh) = Sent + 1
    /\ outCh = <<>> \/ outCh[Len(outCh)] # 0 => handed + Len(outCh) = Sent

\* What a read knows of the exit, and by when it is answered.
ReaderInv ==
    /\ reading <=> reader # "idle"
    /\ exitCh # "none" => gone
    /\ reader = "second" => exitCh = "received" /\ deadline >= Timeout
    /\ punctual /\ reader = "first" => elapsed <= Timeout
    /\ punctual /\ reader = "second" => elapsed <= deadline /\ deadline <= 2 * Timeout

ProcessInv == TypeOK /\ PumpInv /\ ChannelInv /\ ReaderInv

\* Answers are of one type.
LEMMA AnswerTypes ==
    /\ NoAnswer \in [kind : Kinds, line : 0 .. MaxLines]
    /\ \A kind \in Kinds, k \in 0 .. MaxLines :
          [kind |-> kind, line |-> k] \in [kind : Kinds, line : 0 .. MaxLines]
BY ReadCallAssumption DEF NoAnswer, Kinds

\* What is counted is a natural number, and the channel is a sequence of them.
LEMMA Numbers ==
    ASSUME TypeOK
    PROVE  /\ handed \in Nat /\ pumped \in Nat /\ printed \in Nat /\ elapsed \in Nat
           /\ deadline \in Nat /\ Timeout \in Nat /\ Timeout > 0
           /\ pumped <= MaxLines /\ printed <= MaxLines /\ MaxLines \in Nat
           /\ OutCap \in Nat /\ Len(outCh) \in Nat /\ Len(outCh) <= OutCap
           /\ outCh \in Seq(0 .. MaxLines)
           /\ \A k \in 1 .. Len(outCh) : outCh[k] \in Nat /\ outCh[k] <= MaxLines
BY ReadCallAssumption, OutCapAssumption DEF TypeOK, ReadTypeOK

\* A process binding begins with an empty channel and no goroutine.
LEMMA ProcessInit == Init => ProcessInv
<1> SUFFICES ASSUME Init PROVE ProcessInv
  OBVIOUS
<1>1. /\ printed = 0 /\ handed = 0 /\ calls = 0 /\ elapsed = 0 /\ pumped = 0
      /\ outCh = <<>> /\ deadline = 0 /\ answer = NoAnswer
      /\ pump = "off" /\ exitCh = "none" /\ reader = "idle"
  BY DEF Init, ReadInit
<1>2. /\ ~partial /\ ~closed /\ ~gone /\ ~reading /\ ~tail /\ ~failed
      /\ partial \in BOOLEAN /\ closed \in BOOLEAN /\ gone \in BOOLEAN
      /\ reading \in BOOLEAN /\ punctual \in BOOLEAN /\ tail \in BOOLEAN /\ failed \in BOOLEAN
  BY Zenon DEF Init, ReadInit
<1>3. /\ printed \in 0 .. MaxLines /\ handed \in 0 .. MaxLines /\ pumped \in 0 .. MaxLines
      /\ calls \in 0 .. MaxCalls /\ elapsed \in Nat /\ deadline \in 0 .. 2 * Timeout + 1
      /\ outCh \in Seq(0 .. MaxLines) /\ Len(outCh) <= OutCap
  BY <1>1, ReadCallAssumption, OutCapAssumption
<1>4. TypeOK
  BY <1>1, <1>2, <1>3, AnswerTypes, Zenon DEF TypeOK, ReadTypeOK
<1>5. PumpInv /\ ChannelInv /\ ReaderInv
  BY <1>1, <1>2 DEF PumpInv, ChannelInv, ReaderInv, Sent
<1>6. QED
  BY <1>4, <1>5 DEF ProcessInv

USE DEF ProcessInv, peerVars, callVars, goVars

\* What is first in the channel is the next line, or the unterminated one alone.
LEMMA HeadOfChannel ==
    ASSUME ProcessInv, outCh # <<>>
    PROVE  /\ outCh[1] # 0 => outCh[1] = handed + 1
           /\ outCh[1] = 0 => /\ Len(outCh) = 1 /\ tail /\ pump # "sending"
                              /\ handed = pumped /\ Sent = pumped
           /\ outCh[1] # 0 => handed < Sent
<1>1. PICK n \in Nat : n = Len(outCh) /\ n # 0
  BY Numbers, outCh # <<>>
<1>2. handed \in Nat /\ pumped \in Nat /\ 1 \in 1 .. n
  BY <1>1, Numbers
<1>3. /\ outCh[1] = handed + 1 \/ (outCh[1] = 0 /\ 1 = n /\ tail /\ pump # "sending")
      /\ outCh[n] = 0 => handed + n = Sent + 1
      /\ outCh[n] # 0 => handed + n = Sent
  BY <1>1, <1>2 DEF ChannelInv
<1>4. CASE outCh[1] = 0
  <2>1. outCh[1] # handed + 1
    BY <1>2, <1>4
  <2>2. n = 1 /\ tail /\ pump # "sending"
    BY <1>3, <2>1
  <2>3. Sent = pumped
    BY <2>2 DEF Sent
  <2>4. handed + 1 = pumped + 1
    BY <1>3, <1>4, <2>2, <2>3
  <2>5. handed = pumped
    BY <1>2, <2>4
  <2>6. QED
    BY <1>1, <1>4, <2>2, <2>3, <2>5, Zenon
<1>5. CASE outCh[1] # 0
  <2>1. outCh[1] = handed + 1
    BY <1>3, <1>5
  <2>2. Sent \in Int
    BY <1>2 DEF Sent
  <2>3. n = 1 => handed + n = Sent
    BY <1>3, <1>5
  <2>4. handed < Sent
    BY <1>1, <1>2, <1>3, <2>2, <2>3
  <2>5. QED
    BY <1>5, <2>1, <2>4
<1>6. QED
  BY <1>4, <1>5

\* The child prints behind what was read, and nothing once its stdout is closed.
LEMMA ChildKeeps ==
    ASSUME ProcessInv, Child \/ ChildExits \/ Reaped
    PROVE  ProcessInv'
<1>1. CASE Child
  <2>1. printed' \in 0 .. MaxLines /\ printed' >= printed /\ (closed => printed' = printed)
    BY <1>1, ReadCallAssumption
    DEF Child, Peer, PrintPart, PrintLine, Close, TypeOK, ReadTypeOK
  <2>2. partial' \in BOOLEAN /\ closed' \in BOOLEAN /\ (closed => closed')
    BY <1>1, Zenon DEF Child, Peer, PrintPart, PrintLine, Close, TypeOK, ReadTypeOK
  <2>3. UNCHANGED <<gone, callVars, goVars>>
    BY <1>1 DEF Child, Peer, PrintPart, PrintLine, Close
  <2>4. TypeOK'
    BY <2>1, <2>2, <2>3 DEF TypeOK, ReadTypeOK
  <2>8. pumped \in Nat /\ printed \in Nat /\ printed' \in Nat /\ closed \in BOOLEAN
    BY <2>1, ReadCallAssumption DEF TypeOK, ReadTypeOK
  <2>9. pumped <= printed'
    BY <2>1, <2>8 DEF PumpInv
  <2>10. tail \/ pump \in {"closing", "stopped"} => closed' /\ pumped = printed'
    BY <2>1, <2>2 DEF PumpInv
  <2>5. PumpInv'
    BY <2>3, <2>9, <2>10 DEF PumpInv
  <2>6. ChannelInv' /\ ReaderInv'
    BY <2>3 DEF ChannelInv, ReaderInv, Sent
  <2>7. QED
    BY <2>4, <2>5, <2>6
<1>2. CASE ChildExits
  <2>6. (closed' = closed \/ closed' = TRUE) /\ failed' \in BOOLEAN /\ closed \in BOOLEAN
    BY <1>2, Zenon DEF ChildExits, Exit, TypeOK, ReadTypeOK
  <2>7. closed' \in BOOLEAN
    BY <2>6
  <2>8. closed => closed'
    BY <2>6
  <2>1. closed' \in BOOLEAN /\ failed' \in BOOLEAN /\ (closed => closed')
    BY <2>6, <2>7, <2>8, Zenon
  <2>2. /\ gone' = TRUE
        /\ UNCHANGED <<printed, partial, callVars, pump, pumped, outCh, tail, exitCh,
                       reader, deadline>>
    BY <1>2 DEF ChildExits, Exit
  <2>3. TypeOK'
    BY <2>1, <2>2 DEF TypeOK, ReadTypeOK
  <2>4. PumpInv' /\ ChannelInv' /\ ReaderInv'
    BY <2>1, <2>2 DEF PumpInv, ChannelInv, ReaderInv, Sent
  <2>5. QED
    BY <2>3, <2>4
<1>3. CASE Reaped
  BY <1>3 DEF Reaped, TypeOK, ReadTypeOK, PumpInv, ChannelInv, ReaderInv, Sent
<1>4. QED
  BY <1>1, <1>2, <1>3

\* The goroutine sends each line once, behind those in the channel.
LEMMA GoroutineKeeps ==
    ASSUME ProcessInv, Goroutine
    PROVE  ProcessInv'
<1>1. CASE Pump
  <2>1. /\ pump = "reading" /\ (pumped < printed \/ closed)
        /\ UNCHANGED <<outCh, exitCh, failed, reader, deadline, peerVars, callVars>>
    BY <1>1 DEF Pump, CanPump
  <2>2. ~tail /\ Sent = pumped
    BY <2>1 DEF PumpInv, Sent
  <2>3. CASE pumped < printed
    <3>1. pump' = "sending" /\ pumped' = pumped + 1 /\ tail' = tail
      BY <1>1, <2>3 DEF Pump
    <3>2. Sent' = Sent
      BY <2>2, <3>1 DEF Sent, TypeOK
    <3>6. pumped' \in 0 .. MaxLines
      BY <2>3, <3>1, ReadCallAssumption DEF TypeOK, ReadTypeOK
    <3>3. TypeOK'
      BY <2>1, <3>1, <3>6 DEF TypeOK, ReadTypeOK
    <3>4. PumpInv' /\ ChannelInv' /\ ReaderInv'
      BY <2>1, <2>2, <2>3, <3>1, <3>2
      DEF PumpInv, ChannelInv, ReaderInv, TypeOK, ReadTypeOK
    <3>5. QED
      BY <3>3, <3>4
  <2>4. CASE ~(pumped < printed)
    <3>1. /\ pump' = IF CutShort THEN "sending" ELSE "closing"
          /\ tail' = CutShort /\ pumped' = pumped
      BY <1>1, <2>4 DEF Pump
    <3>2. tail' \in BOOLEAN
      BY <3>1, Zenon DEF CutShort, TypeOK, ReadTypeOK
    <3>3. Sent' = Sent
      BY <2>2, <3>1 DEF Sent
    <3>4. TypeOK'
      BY <2>1, <3>1, <3>2 DEF TypeOK, ReadTypeOK
    <3>8. closed /\ pumped = printed
      BY <2>1, <2>4 DEF PumpInv, TypeOK, ReadTypeOK
    <3>9. reading => pump' # "off"
      BY <3>1
    <3>10. pump' = "sending" => tail'
      BY <3>1
    <3>5. PumpInv'
      BY <2>1, <3>1, <3>2, <3>8, <3>10 DEF PumpInv
    <3>6. ChannelInv' /\ ReaderInv'
      BY <2>1, <2>2, <3>3 DEF ChannelInv, ReaderInv
    <3>7. QED
      BY <3>4, <3>5, <3>6
  <2>5. QED
    BY <2>3, <2>4
<1>2. CASE Send
  <2>0. PICK n \in Nat : n = Len(outCh)
    BY Numbers
  <2> DEFINE new == IF tail THEN 0 ELSE pumped
  <2>1. /\ pump = "sending" /\ n < OutCap /\ outCh' = Append(outCh, new)
        /\ pump' = IF tail THEN "closing" ELSE "reading"
        /\ UNCHANGED <<pumped, tail, exitCh, failed, reader, deadline, peerVars, callVars>>
    BY <1>2, <2>0 DEF Send
  <2>2. new \in 0 .. MaxLines /\ n \in Nat /\ outCh \in Seq(0 .. MaxLines)
    BY ReadCallAssumption DEF TypeOK
  <2> HIDE DEF new
  <2>3. /\ outCh' \in Seq(0 .. MaxLines) /\ Len(outCh') = n + 1 /\ outCh'[n + 1] = new
        /\ \A k \in 1 .. n : outCh'[k] = outCh[k]
    BY <2>0, <2>1, <2>2
  <2>4. \A k \in 1 .. n : outCh[k] = handed + k
    BY <2>0, <2>1 DEF ChannelInv
  <2>5. outCh = <<>> \/ outCh[n] # 0
    BY <2>0, <2>2, <2>4, Numbers
  <2>6. handed + n = Sent
    BY <2>0, <2>5 DEF ChannelInv
  <2>7. Sent' = pumped
    BY <2>1 DEF Sent
  <2>8. TypeOK'
    BY <2>1, <2>3, OutCapAssumption DEF TypeOK, ReadTypeOK
  <2>9. PumpInv' /\ ReaderInv'
    BY <2>1 DEF PumpInv, ReaderInv
  <2>10. ChannelInv'
    <3>1. CASE tail
      <4>1. new = 0 /\ Sent = pumped /\ pump' = "closing" /\ tail'
        BY <2>1, <3>1 DEF Sent, new
      <4>2. \A k \in 1 .. n + 1 :
               outCh'[k] = handed + k \/ (outCh'[k] = 0 /\ k = n + 1)
        BY <2>2, <2>3, <2>4, <4>1
      <4>3. handed + (n + 1) = Sent' + 1 /\ outCh'[n + 1] = 0 /\ outCh' # <<>>
        BY <2>2, <2>3, <2>6, <2>7, <4>1 DEF TypeOK, ReadTypeOK
      <4>4. handed' = handed /\ pump' # "sending" /\ tail' /\ Len(outCh') = n + 1
        BY <2>1, <2>3, <4>1
      <4>5. QED
        BY <4>2, <4>3, <4>4 DEF ChannelInv
    <3>2. CASE ~tail
      <4>1. new = pumped /\ pumped > 0 /\ Sent = pumped - 1
        BY <2>1, <3>2 DEF Sent, PumpInv, new
      <4>2. new = handed + n + 1
        BY <2>2, <2>6, <4>1 DEF TypeOK, ReadTypeOK
      <4>3. \A k \in 1 .. n + 1 : outCh'[k] = handed + k
        <5> SUFFICES ASSUME NEW k \in 1 .. n + 1 PROVE outCh'[k] = handed + k
          OBVIOUS
        <5>1. k \in 1 .. n \/ k = n + 1
          BY <2>2
        <5>2. QED
          BY <2>0, <2>3, <2>4, <4>2, <5>1, Numbers
      <4>4. /\ handed + (n + 1) = Sent' /\ outCh'[n + 1] # 0
            /\ handed' = handed /\ Len(outCh') = n + 1
        BY <2>1, <2>2, <2>3, <2>7, <4>1, <4>2 DEF TypeOK, ReadTypeOK
      <4>5. QED
        BY <4>3, <4>4 DEF ChannelInv
    <3>3. QED
      BY <3>1, <3>2
  <2>11. QED
    BY <2>8, <2>9, <2>10
<1>3. CASE CloseChannel
  BY <1>3 DEF CloseChannel, TypeOK, ReadTypeOK, PumpInv, ChannelInv, ReaderInv, Sent
<1>4. QED
  BY <1>1, <1>2, <1>3 DEF Goroutine

\* A read takes the head of the channel and no more.
LEMMA ReadKeeps ==
    ASSUME ProcessInv, Call \/ ReadLine
    PROVE  ProcessInv'
<1>0. ASSUME NEW kind \in Kinds, Answer(kind), reader' = "idle",
             UNCHANGED <<pump, pumped, outCh, tail, exitCh, failed, deadline>>
      PROVE  ProcessInv'
  <2>1. answer' \in [kind : Kinds, line : 0 .. MaxLines] /\ reading' = FALSE
    BY <1>0, AnswerTypes, ReadCallAssumption DEF Answer
  <2>2. UNCHANGED <<handed, calls, elapsed, punctual, peerVars>>
    BY <1>0 DEF Answer
  <2>3. TypeOK'
    BY <1>0, <2>1, <2>2 DEF TypeOK, ReadTypeOK
  <2>4. PumpInv' /\ ChannelInv' /\ ReaderInv'
    BY <1>0, <2>1, <2>2 DEF PumpInv, ChannelInv, ReaderInv, Sent
  <2>5. QED
    BY <2>3, <2>4
<1>1. CASE Call
  <2>1. /\ reading' = TRUE /\ calls' = calls + 1 /\ calls < MaxCalls
        /\ elapsed' = 0 /\ answer' = NoAnswer /\ reader' = "first"
        /\ pump' = IF Started THEN pump ELSE "reading"
        /\ UNCHANGED <<handed, punctual, peerVars, pumped, outCh, tail, exitCh, failed, deadline>>
    BY <1>1 DEF Call, BeginCall
  <2>2. TypeOK'
    BY <2>1, AnswerTypes, ReadCallAssumption DEF TypeOK, ReadTypeOK
  <2>3. PumpInv' /\ ChannelInv'
    BY <2>1 DEF PumpInv, ChannelInv, Sent, Started
  <2>4. ReaderInv'
    BY <2>1, ReadCallAssumption DEF ReaderInv
  <2>5. QED
    BY <2>2, <2>3, <2>4
<1>2. CASE Receive
  <2>0. PICK n \in Nat : n = Len(outCh)
    BY Numbers
  <2>1. /\ outCh # <<>> /\ outCh' = Tail(outCh) /\ reader' = "idle"
        /\ UNCHANGED <<pump, pumped, tail, exitCh, failed, deadline>>
    BY <1>2 DEF Receive
  <2>2. /\ n \in Nat /\ n > 0 /\ outCh \in Seq(0 .. MaxLines)
        /\ Head(outCh) = outCh[1] /\ n <= OutCap
    BY <2>0, <2>1, Numbers
  <2>3. /\ outCh' \in Seq(0 .. MaxLines) /\ Len(outCh') = n - 1
        /\ \A k \in 1 .. n - 1 : outCh'[k] = outCh[k + 1]
    BY <2>0, <2>1, <2>2
  <2>4. /\ answer' \in [kind : Kinds, line : 0 .. MaxLines] /\ reading' = FALSE
        /\ UNCHANGED <<calls, elapsed, punctual, peerVars>>
    BY <1>2, <2>2, AnswerTypes, ReadCallAssumption DEF Receive, Answer, AnswerLine, Kinds
  <2>5. PumpInv' /\ ReaderInv'
    BY <2>1, <2>4 DEF PumpInv, ReaderInv
  <2>6. Sent' = Sent
    BY <2>1 DEF Sent
  <2>7. CASE outCh[1] = 0
    <3>1. n = 1 /\ handed' = handed
      BY <1>2, <2>1, <2>0, <2>2, <2>7, HeadOfChannel DEF Receive, Answer
    <3>2. outCh' = <<>> /\ handed = Sent
      <4>1. handed = Sent
        BY <2>1, <2>7, HeadOfChannel
      <4>2. Len(outCh') = 0
        BY <2>3, <3>1
      <4>3. QED
        BY <2>3, <4>1, <4>2, Numbers
    <3>3. TypeOK'
      <4>1. outCh' \in Seq(0 .. MaxLines) /\ Len(outCh') <= OutCap
        BY <2>2, <2>3, Numbers
      <4>2. QED
        BY <2>1, <2>4, <3>1, <4>1 DEF TypeOK, ReadTypeOK
    <3>4. ChannelInv'
      BY <2>6, <3>1, <3>2 DEF ChannelInv, TypeOK, ReadTypeOK
    <3>5. QED
      BY <2>5, <3>3, <3>4
  <2>8. CASE outCh[1] # 0
    <3>1. outCh[1] = handed + 1 /\ handed' = handed + 1
      BY <1>2, <2>1, <2>2, <2>8, HeadOfChannel DEF Receive, AnswerLine
    <3>2. handed' \in 0 .. MaxLines
      <4>0. 1 \in 1 .. Len(outCh)
        BY <2>0, <2>2
      <4>1. outCh[1] \in 0 .. MaxLines
        BY <4>0, Numbers
      <4>2. QED
        BY <3>1, <4>1
    <3>3. TypeOK'
      <4>1. outCh' \in Seq(0 .. MaxLines) /\ Len(outCh') <= OutCap
        BY <2>2, <2>3, Numbers
      <4>2. QED
        BY <2>1, <2>4, <3>2, <4>1 DEF TypeOK, ReadTypeOK
    <3>4. \A k \in 1 .. Len(outCh') :
             outCh'[k] = handed' + k \/ (outCh'[k] = 0 /\ k = Len(outCh') /\ tail' /\ pump' # "sending")
      <4>1. SUFFICES ASSUME NEW k \in 1 .. n - 1
                     PROVE  outCh'[k] = handed' + k
                            \/ (outCh'[k] = 0 /\ k = n - 1 /\ tail /\ pump # "sending")
        BY <2>1, <2>2, <2>3
      <4>2. k + 1 \in 1 .. n /\ outCh'[k] = outCh[k + 1]
        BY <2>0, <2>2, <2>3
      <4>3. outCh[k + 1] = handed + (k + 1)
            \/ (outCh[k + 1] = 0 /\ k + 1 = n /\ tail /\ pump # "sending")
        BY <2>0, <4>2 DEF ChannelInv
      <4>4. QED
        BY <2>2, <3>1, <4>2, <4>3 DEF TypeOK, ReadTypeOK
    <3>5. CASE n = 1
      <4>1. outCh' = <<>> /\ handed' = Sent
        BY <2>0, <2>1, <2>2, <2>3, <2>8, <3>1, <3>5 DEF ChannelInv
      <4>2. ChannelInv'
        BY <2>6, <3>2, <4>1 DEF ChannelInv
      <4>3. QED
        BY <2>5, <3>3, <4>2
    <3>6. CASE n > 1
      <4>1. outCh'[Len(outCh')] = outCh[n] /\ handed' + Len(outCh') = handed + n
        BY <2>2, <2>3, <3>1, <3>6 DEF TypeOK, ReadTypeOK
      <4>2. ChannelInv'
        <5>1. outCh # <<>> /\ outCh' # <<>>
          <6>1. Len(outCh') # 0
            BY <2>3, <3>6
          <6>2. QED
            BY <2>1, <6>1
        <5>2. outCh'[Len(outCh')] = 0 => handed' + Len(outCh') = Sent' + 1
          BY <2>0, <2>6, <4>1, <5>1 DEF ChannelInv
        <5>3. outCh'[Len(outCh')] # 0 => handed' + Len(outCh') = Sent'
          BY <2>0, <2>6, <4>1, <5>1 DEF ChannelInv
        <5>4. QED
          BY <3>4, <5>1, <5>2, <5>3 DEF ChannelInv
      <4>3. QED
        BY <2>5, <3>3, <4>2
    <3>7. n = 1 \/ n > 1
      BY <2>2
    <3>8. QED
      BY <3>5, <3>6, <3>7
  <2>9. QED
    BY <2>7, <2>8
<1>3. CASE ReceiveClosed \/ TimerFires \/ DeadlinePasses
  <2>1. "eof" \in Kinds /\ "timeout" \in Kinds /\ ExitAnswer \in Kinds
    BY DEF Kinds, ExitAnswer
  <2>2. QED
    BY <1>0, <1>3, <2>1 DEF ReceiveClosed, TimerFires, DeadlinePasses
<1>4. CASE ReceiveExit
  <2>1. /\ reader = "first" /\ exitCh = "sent" /\ elapsed <= Timeout + 1
        /\ exitCh' = "received" /\ reader' = "second" /\ deadline' = elapsed + Timeout
        /\ UNCHANGED <<pump, pumped, outCh, tail, failed, peerVars, callVars>>
    BY <1>4 DEF ReceiveExit, SecondDeadline
  <2>2. deadline' \in 0 .. 2 * Timeout + 1 /\ deadline' >= Timeout /\ elapsed <= deadline'
    BY <2>1, ReadCallAssumption DEF TypeOK, ReadTypeOK
  <2>3. punctual => deadline' <= 2 * Timeout
    BY <2>1, ReadCallAssumption DEF ReaderInv, TypeOK, ReadTypeOK
  <2>4. TypeOK'
    BY <2>1, <2>2 DEF TypeOK, ReadTypeOK
  <2>5. PumpInv' /\ ChannelInv'
    BY <2>1 DEF PumpInv, ChannelInv, Sent
  <2>6. ReaderInv'
    BY <2>1, <2>2, <2>3 DEF ReaderInv
  <2>7. QED
    BY <2>4, <2>5, <2>6
<1>5. QED
  BY <1>1, <1>2, <1>3, <1>4 DEF ReadLine

\* In a punctual behaviour a tick does not pass over a timer that is due.
LEMMA TimeKeeps ==
    ASSUME ProcessInv, TimePasses
    PROVE  ProcessInv'
<1>1. /\ reading /\ (punctual => ~Busy) /\ elapsed' = elapsed + 1
      /\ UNCHANGED <<handed, calls, reading, answer, punctual, peerVars, goVars>>
  BY DEF TimePasses, Tick
<1>2. TypeOK' /\ PumpInv' /\ ChannelInv'
  BY <1>1 DEF TypeOK, ReadTypeOK, PumpInv, ChannelInv, Sent
<1>3. ReaderInv'
  <2>1. punctual /\ reader = "first" => elapsed < Timeout
    BY <1>1, ReadCallAssumption DEF Busy, TypeOK, ReadTypeOK
  <2>2. punctual /\ reader = "second" => elapsed < deadline
    BY <1>1 DEF Busy, DeadlineDue, TypeOK, ReadTypeOK
  <2>3. elapsed \in Nat /\ deadline \in Nat /\ Timeout \in Nat
    BY ReadCallAssumption DEF TypeOK, ReadTypeOK
  <2>4. QED
    BY <1>1, <2>1, <2>2, <2>3 DEF ReaderInv
<1>4. QED
  BY <1>2, <1>3

\* The channel holds what was printed and not yet returned, in order, whatever the
\* exit, the goroutines and the timers do.
THEOREM ProcessInvariant == Spec => []ProcessInv
<1>1. ProcessInv /\ [Next]_vars => ProcessInv'
  <2> SUFFICES ASSUME ProcessInv, [Next]_vars PROVE ProcessInv'
    OBVIOUS
  <2>1. CASE UNCHANGED vars
    BY <2>1 DEF vars, TypeOK, ReadTypeOK, PumpInv, ChannelInv, ReaderInv, Sent
  <2>2. QED
    BY <2>1, ChildKeeps, GoroutineKeeps, ReadKeeps, TimeKeeps DEF Next
<1>2. QED
  BY <1>1, ProcessInit, PTL DEF Spec

\* Whatever the child, the goroutines and the timers do, a punctual read outlasts
\* its timeout only when the exit was received in it, and then by one more at the
\* most (the second deadline, process_native.go:115).
THEOREM OnlyExitExtendsReads == Spec => []OnlyExitExtends
<1>1. ProcessInv => OnlyExitExtends
  <2> SUFFICES ASSUME ProcessInv, punctual, reading
               PROVE  elapsed <= IF reader = "second" THEN 2 * Timeout ELSE Timeout
    BY DEF OnlyExitExtends
  <2>1. reader = "first" \/ reader = "second"
    BY DEF ReaderInv, TypeOK
  <2>2. QED
    BY <2>1, ReadCallAssumption DEF ReaderInv, TypeOK, ReadTypeOK
<1>2. QED
  BY <1>1, ProcessInvariant, PTL

-----------------------------------------------------------------------------
\* The refinement.

\* What a read receives from the channel is the next line, or the end behind all.
LEMMA ReceiveServes ==
    ASSUME ProcessInv, TooLong = {}, Receive
    PROVE  Promise!Serve \/ Promise!End
<1>1. reading /\ outCh # <<>> /\ Len(outCh) \in Nat /\ Len(outCh) > 0 /\ Head(outCh) = outCh[1]
  BY DEF Receive, ReaderInv, TypeOK
<1>2. CASE outCh[1] = 0
  <2>2. closed /\ handed = printed
    BY <1>1, <1>2, HeadOfChannel DEF PumpInv
  <2>3. QED
    BY <1>1, <1>2, <2>2
    DEF Receive, Answer, Promise!End, Promise!Drained, Promise!Answer, Promise!peerVars
<1>3. CASE outCh[1] # 0
  <2>1. outCh[1] = handed + 1
    BY <1>1, <1>3, HeadOfChannel
  <2>2. handed < printed
    <3>1. handed < Sent
      BY <1>1, <1>3, HeadOfChannel
    <3>2. QED
      BY <3>1, Numbers DEF Sent, PumpInv
  <2>3. QED
    BY <1>1, <1>3, <2>1, <2>2
    DEF Receive, AnswerLine, Promise!Serve, Promise!AnswerLine, Promise!peerVars
<1>4. QED
  BY <1>2, <1>3

\* The closed channel is the end of all lines; a deadline behind the exit is the
\* end of the wait for them.
LEMMA EndServes ==
    ASSUME ProcessInv, ReceiveClosed \/ DeadlinePasses
    PROVE  Promise!End \/ Promise!Fail
<1> USE DEF Promise!peerVars, Promise!Answer, Promise!End, Promise!Fail, Promise!Drained,
            Promise!Abandoned
<1>1. reading /\ (reader = "second" => gone /\ deadline >= Timeout)
  BY DEF ReceiveClosed, DeadlinePasses, DeadlineDue, ReaderInv
<1>2. CASE ReceiveClosed
  <2>1. closed /\ handed = printed
    BY <1>2 DEF ReceiveClosed, OutClosed, ChannelInv, PumpInv, Sent, TypeOK, ReadTypeOK
  <2>2. QED
    BY <1>1, <1>2, <2>1 DEF ReceiveClosed, ExitAnswer, Answer
<1>3. CASE DeadlinePasses
  <2>1. gone /\ elapsed >= Timeout
    BY <1>1, <1>3, ReadCallAssumption DEF DeadlinePasses, DeadlineDue, TypeOK, ReadTypeOK
  <2>2. QED
    BY <1>1, <1>3, <2>1 DEF DeadlinePasses, ExitAnswer, Answer
<1>4. QED
  BY <1>2, <1>3

\* Every step of the binding is a step of LineSource or none.
LEMMA PromiseStep ==
    ASSUME TooLong = {}
    PROVE  ProcessInv /\ [Next]_vars
               => [Promise!Next]_<<Promise!peerVars, Promise!callVars>>
<1> SUFFICES ASSUME ProcessInv, [Next]_vars
             PROVE  Promise!Next \/ UNCHANGED <<Promise!peerVars, Promise!callVars>>
  OBVIOUS
<1> USE DEF Promise!peerVars, Promise!callVars
<1>1. CASE Child
  BY <1>1 DEF Child, Peer, PrintPart, PrintLine, Close, Promise!Next, Promise!Peer,
              Promise!PrintPart, Promise!PrintLine, Promise!Close
<1>2. CASE ChildExits
  BY <1>2 DEF ChildExits, Exit, Promise!Next, Promise!Exit
<1>3. CASE Call
  BY <1>3 DEF Call, BeginCall, NoAnswer, Promise!Next, Promise!BeginCall, Promise!NoAnswer
<1>4. CASE Goroutine \/ Reaped \/ ReceiveExit
  BY <1>4 DEF Goroutine, Pump, Send, CloseChannel, Reaped, ReceiveExit
<1>5. CASE Receive
  BY <1>5, ReceiveServes DEF Promise!Next
<1>6. CASE ReceiveClosed \/ DeadlinePasses
  BY <1>6, EndServes DEF Promise!Next
<1>7. CASE TimerFires
  BY <1>7 DEF TimerFires, Answer, ReaderInv, Promise!Next, Promise!TimedOut, Promise!Answer
<1>8. CASE TimePasses
  BY <1>8 DEF TimePasses, Tick, Promise!Next, Promise!Tick
<1>9. CASE UNCHANGED vars
  BY <1>9 DEF vars
<1>10. QED
  BY <1>1, <1>2, <1>3, <1>4, <1>5, <1>6, <1>7, <1>8, <1>9 DEF Next, ReadLine

\* A process binding of the Go library, which takes lines of every length, returns
\* each line once and in order through its channel, the exit of the child and both
\* timers, and reports an end only when there is one (process_native.go:95).
THEOREM ProcessKeepsPromise ==
    ASSUME TooLong = {}
    PROVE  Spec => ImplementsLineSource
<1>1. Init => Promise!Init
  BY DEF Init, ReadInit, NoAnswer, Promise!Init, Promise!ReadInit, Promise!NoAnswer
<1>2. ProcessInv /\ [Next]_vars => [Promise!Next]_<<Promise!peerVars, Promise!callVars>>
  BY PromiseStep
<1>3. QED
  BY <1>1, <1>2, ProcessInvariant, PTL
  DEF Spec, ImplementsLineSource, Promise!Spec

-----------------------------------------------------------------------------
\* Standard input, and its inductive invariant.

Stdin == INSTANCE GoStdin

\* The goroutine stops only at the end of the stream.
StdinPumpInv ==
    /\ pumped <= printed
    /\ pump = "sending" /\ ~tail => pumped > 0
    /\ pump = "stopped" \/ tail => closed /\ pumped = printed
    /\ tail => pump \in {"sending", "stopped"}
    /\ pump = "off" => ~reading

\* Of the lines it has read, the reads have returned all but the one in its send.
StdinHandedInv == handed = IF pump = "sending" /\ ~tail THEN pumped - 1 ELSE pumped

StdinInv == Stdin!TypeOK /\ StdinPumpInv /\ StdinHandedInv

\* Answers are of one type.
LEMMA StdinAnswerTypes ==
    /\ Stdin!NoAnswer \in [kind : Stdin!Kinds, line : 0 .. MaxLines]
    /\ \A kind \in Stdin!Kinds :
          [kind |-> kind, line |-> 0] \in [kind : Stdin!Kinds, line : 0 .. MaxLines]
  BY ReadCallAssumption DEF Stdin!NoAnswer, Stdin!Kinds

\* Before the first read the goroutine has not been started.
LEMMA StdinInit == Stdin!Init => StdinInv
<1> SUFFICES ASSUME Stdin!Init PROVE StdinInv
  OBVIOUS
<1>1. Stdin!TypeOK
  <2>1. /\ printed \in 0 .. MaxLines /\ handed \in 0 .. MaxLines /\ pumped \in 0 .. MaxLines
        /\ calls \in 0 .. MaxCalls /\ elapsed \in Nat
    BY ReadCallAssumption DEF Stdin!Init, Stdin!ReadInit
  <2>2. /\ partial \in BOOLEAN /\ closed \in BOOLEAN /\ gone \in BOOLEAN
        /\ reading \in BOOLEAN /\ punctual \in BOOLEAN /\ tail \in BOOLEAN
    BY Zenon DEF Stdin!Init, Stdin!ReadInit
  <2>3. answer = Stdin!NoAnswer /\ pump = "off"
    BY DEF Stdin!Init, Stdin!ReadInit
  <2>4. QED
    BY <2>1, <2>2, <2>3, StdinAnswerTypes, Zenon DEF Stdin!TypeOK, Stdin!ReadTypeOK
<1>2. StdinPumpInv /\ StdinHandedInv
  BY ReadCallAssumption DEF Stdin!Init, Stdin!ReadInit, StdinPumpInv, StdinHandedInv
<1>3. QED
  BY <1>1, <1>2 DEF StdinInv

USE DEF StdinInv, Stdin!TypeOK, Stdin!ReadTypeOK, Stdin!peerVars, Stdin!callVars

\* What the peer prints is no concern of the goroutine before it reads it.
LEMMA StdinPeerKeeps ==
    ASSUME StdinInv, Stdin!Peer, UNCHANGED Stdin!pumpVars
    PROVE  StdinInv'
<1> USE ReadCallAssumption DEF Stdin!pumpVars
<1>1. Stdin!TypeOK'
  <2>1. printed' \in 0 .. MaxLines /\ UNCHANGED <<gone, Stdin!callVars, Stdin!pumpVars>>
    BY DEF Stdin!Peer, Stdin!PrintPart, Stdin!PrintLine, Stdin!Close
  <2>2. partial' \in BOOLEAN /\ closed' \in BOOLEAN
    BY Zenon DEF Stdin!Peer, Stdin!PrintPart, Stdin!PrintLine, Stdin!Close
  <2>3. QED
    BY <2>1, <2>2, Zenon
<1>2. StdinPumpInv' /\ StdinHandedInv'
  BY DEF Stdin!Peer, Stdin!PrintPart, Stdin!PrintLine, Stdin!Close, StdinPumpInv,
         StdinHandedInv
<1>3. QED
  BY <1>1, <1>2

\* A read is answered, with a line or without one.
LEMMA StdinAnswerKeeps ==
    ASSUME StdinInv, NEW kind \in Stdin!Kinds, Stdin!Answer(kind)
    PROVE  Stdin!ReadTypeOK'
<1>1. answer' \in [kind : Stdin!Kinds, line : 0 .. MaxLines] /\ reading' \in BOOLEAN
  BY StdinAnswerTypes, Zenon DEF Stdin!Answer
<1>2. QED
  BY <1>1, Zenon DEF Stdin!Answer

\* The reads and the goroutine.
LEMMA StdinHostKeeps ==
    ASSUME StdinInv, Stdin!Call \/ Stdin!Host
    PROVE  StdinInv'
<1> USE ReadCallAssumption DEF Stdin!pumpVars
<1>1. CASE Stdin!Call
  <2>1. Stdin!TypeOK'
    <3>1. /\ calls' \in 0 .. MaxCalls /\ elapsed' \in Nat /\ reading' = TRUE
          /\ answer' = Stdin!NoAnswer /\ UNCHANGED <<handed, punctual, Stdin!peerVars>>
      BY <1>1 DEF Stdin!Call, Stdin!BeginCall
    <3>2. pump' \in {"off", "reading", "sending", "stopped"} /\ UNCHANGED <<pumped, tail>>
      BY <1>1 DEF Stdin!Call
    <3>3. reading' \in BOOLEAN
      BY <3>1, Zenon
    <3>4. UNCHANGED <<handed, punctual, printed, partial, closed, gone>>
      BY <3>1
    <3>5. QED
      BY <3>1, <3>2, <3>3, <3>4, StdinAnswerTypes
  <2>2. StdinPumpInv' /\ StdinHandedInv'
    BY <1>1 DEF Stdin!Call, Stdin!BeginCall, StdinPumpInv, StdinHandedInv
  <2>3. QED
    BY <2>1, <2>2
<1>2. CASE Stdin!PumpLine \/ Stdin!PumpTail \/ Stdin!PumpEnd
  <2>1. Stdin!TypeOK'
    <3>1. /\ pump' \in {"off", "reading", "sending", "stopped"} /\ pumped' \in 0 .. MaxLines
          /\ UNCHANGED <<Stdin!peerVars, Stdin!callVars>>
      BY <1>2 DEF Stdin!PumpLine, Stdin!PumpTail, Stdin!PumpEnd
    <3>2. tail' \in BOOLEAN
      BY <1>2, Zenon DEF Stdin!PumpLine, Stdin!PumpTail, Stdin!PumpEnd
    <3>3. QED
      BY <3>1, <3>2, Zenon
  <2>2. StdinPumpInv' /\ StdinHandedInv'
    BY <1>2 DEF Stdin!PumpLine, Stdin!PumpTail, Stdin!PumpEnd, Stdin!CanPump,
                Stdin!CutShort, StdinPumpInv, StdinHandedInv
  <2>3. QED
    BY <2>1, <2>2
<1>3. CASE Stdin!Receive
  <2>1. CASE tail
    <3>1. Stdin!Answer("eof") /\ pump' = "stopped" /\ UNCHANGED <<pumped, tail>>
      BY <1>3, <2>1 DEF Stdin!Receive
    <3>2. Stdin!TypeOK'
      BY <3>1, StdinAnswerKeeps DEF Stdin!Kinds
    <3>3. StdinPumpInv' /\ StdinHandedInv'
      BY <2>1, <3>1 DEF Stdin!Answer, StdinPumpInv, StdinHandedInv
    <3>4. QED
      BY <3>2, <3>3
  <2>2. CASE ~tail
    <3>1. /\ Stdin!AnswerLine(pumped) /\ UNCHANGED <<pumped, tail>>
          /\ pump = "sending" /\ pump' = "reading"
      BY <1>3, <2>2 DEF Stdin!Receive
    <3>2. /\ handed' = pumped /\ reading' = FALSE
          /\ UNCHANGED <<calls, elapsed, punctual, Stdin!peerVars>>
      BY <2>2, <3>1 DEF Stdin!AnswerLine, StdinHandedInv
    <3>3. answer' \in [kind : Stdin!Kinds, line : 0 .. MaxLines]
      BY <3>1 DEF Stdin!AnswerLine, Stdin!Kinds
    <3>4. Stdin!TypeOK'
      BY <3>1, <3>2, <3>3
    <3>5. StdinPumpInv' /\ StdinHandedInv'
      BY <2>2, <3>1, <3>2 DEF StdinPumpInv, StdinHandedInv
    <3>6. QED
      BY <3>4, <3>5
  <2>3. QED
    BY <2>1, <2>2
<1>4. CASE Stdin!ReceiveClosed \/ Stdin!TimerFires
  <2>1. PICK kind \in {"eof", "timeout"} : Stdin!Answer(kind)
    BY <1>4 DEF Stdin!ReceiveClosed, Stdin!TimerFires
  <2>2. UNCHANGED Stdin!pumpVars
    BY <1>4 DEF Stdin!ReceiveClosed, Stdin!TimerFires
  <2>3. Stdin!TypeOK'
    BY <2>1, <2>2, StdinAnswerKeeps DEF Stdin!Kinds
  <2>4. StdinPumpInv' /\ StdinHandedInv'
    BY <2>1, <2>2 DEF Stdin!Answer, StdinPumpInv, StdinHandedInv
  <2>5. QED
    BY <2>3, <2>4
<1>5. QED
  BY <1>1, <1>2, <1>3, <1>4 DEF Stdin!Host

\* The goroutine and the reads agree on which lines were returned, in every
\* interleaving of the two.
THEOREM StdinInvariant == Stdin!Spec => []StdinInv
<1>1. StdinInv /\ [Stdin!Next]_Stdin!vars => StdinInv'
  <2> SUFFICES ASSUME StdinInv, [Stdin!Next]_Stdin!vars PROVE StdinInv'
    OBVIOUS
  <2>1. CASE Stdin!TimePasses
    BY <2>1 DEF Stdin!TimePasses, Stdin!Tick, Stdin!pumpVars, StdinPumpInv, StdinHandedInv
  <2>2. CASE UNCHANGED Stdin!vars
    BY <2>2 DEF Stdin!vars, Stdin!pumpVars, StdinPumpInv, StdinHandedInv
  <2>3. QED
    BY <2>1, <2>2, StdinPeerKeeps, StdinHostKeeps DEF Stdin!Next
<1>2. QED
  BY <1>1, StdinInit, PTL DEF Stdin!Spec

-----------------------------------------------------------------------------
\* The refinement.

\* Every step of the goroutine and the reads is a step of LineSource or none.
LEMMA StdinPromiseStep ==
    ASSUME TooLong = {}
    PROVE  StdinInv /\ [Stdin!Next]_Stdin!vars
               => [Stdin!Promise!Next]_<<Stdin!Promise!peerVars, Stdin!Promise!callVars>>
<1> SUFFICES ASSUME StdinInv, [Stdin!Next]_Stdin!vars
             PROVE  \/ Stdin!Promise!Next
                    \/ UNCHANGED <<Stdin!Promise!peerVars, Stdin!Promise!callVars>>
  OBVIOUS
<1> USE DEF Stdin!Promise!peerVars, Stdin!Promise!callVars
<1>1. CASE Stdin!Peer
  BY <1>1 DEF Stdin!Peer, Stdin!PrintPart, Stdin!PrintLine, Stdin!Close, Stdin!Promise!Next,
              Stdin!Promise!Peer, Stdin!Promise!PrintPart, Stdin!Promise!PrintLine,
              Stdin!Promise!Close
<1>2. CASE Stdin!Call
  BY <1>2 DEF Stdin!Call, Stdin!BeginCall, Stdin!NoAnswer, Stdin!Promise!Next,
              Stdin!Promise!BeginCall, Stdin!Promise!NoAnswer
<1>3. CASE Stdin!PumpLine \/ Stdin!PumpTail \/ Stdin!PumpEnd
  BY <1>3 DEF Stdin!PumpLine, Stdin!PumpTail, Stdin!PumpEnd
<1>4. CASE Stdin!Receive
  <2>1. CASE tail
    <3>1. Stdin!Promise!Drained /\ reading /\ Stdin!Promise!Answer("eof")
      BY <1>4, <2>1 DEF Stdin!Receive, Stdin!Answer, StdinPumpInv, StdinHandedInv,
                        Stdin!Promise!Drained, Stdin!Promise!Answer
    <3>2. QED
      BY <3>1 DEF Stdin!Promise!Next, Stdin!Promise!End
  <2>2. CASE ~tail
    <3>1. reading /\ handed < printed /\ pumped = handed + 1 /\ Stdin!AnswerLine(pumped)
      BY <1>4, <2>2, ReadCallAssumption DEF Stdin!Receive, StdinPumpInv, StdinHandedInv
    <3>2. Stdin!Promise!AnswerLine(handed + 1)
      BY <3>1 DEF Stdin!AnswerLine, Stdin!Promise!AnswerLine
    <3>3. QED
      BY <3>1, <3>2 DEF Stdin!Promise!Next, Stdin!Promise!Serve
  <2>3. QED
    BY <2>1, <2>2
<1>5. CASE Stdin!ReceiveClosed
  <2>1. Stdin!Promise!Drained /\ reading /\ Stdin!Promise!Answer("eof")
    BY <1>5 DEF Stdin!ReceiveClosed, Stdin!Answer, StdinPumpInv, StdinHandedInv,
                Stdin!Promise!Drained, Stdin!Promise!Answer
  <2>2. QED
    BY <2>1 DEF Stdin!Promise!Next, Stdin!Promise!End
<1>6. CASE Stdin!TimerFires
  BY <1>6 DEF Stdin!TimerFires, Stdin!TimerDue, Stdin!Answer, Stdin!Promise!Next,
              Stdin!Promise!TimedOut, Stdin!Promise!Answer
<1>7. CASE Stdin!TimePasses
  BY <1>7 DEF Stdin!TimePasses, Stdin!Tick, Stdin!Promise!Next, Stdin!Promise!Tick
<1>8. CASE UNCHANGED Stdin!vars
  BY <1>8 DEF Stdin!vars
<1>9. QED
  BY <1>1, <1>2, <1>3, <1>4, <1>5, <1>6, <1>7, <1>8 DEF Stdin!Next, Stdin!Host

\* Standard input of the Go library, which takes lines of every length, returns each
\* line once and in order and keeps a late one for the next read (resource.go:65).
THEOREM StdinKeepsPromise ==
    ASSUME TooLong = {}
    PROVE  Stdin!Spec => Stdin!ImplementsLineSource
<1>1. Stdin!Init => Stdin!Promise!Init
  BY DEF Stdin!Init, Stdin!ReadInit, Stdin!NoAnswer, Stdin!Promise!Init,
         Stdin!Promise!ReadInit, Stdin!Promise!NoAnswer
<1>2. StdinInv /\ [Stdin!Next]_Stdin!vars
               => [Stdin!Promise!Next]_<<Stdin!Promise!peerVars, Stdin!Promise!callVars>>
  BY StdinPromiseStep
<1>3. QED
  BY <1>1, <1>2, StdinInvariant, PTL DEF Stdin!Spec, Stdin!ImplementsLineSource,
                                        Stdin!Promise!Spec

\* When neither goroutine has a step to make before the deadline, all that was
\* printed has been returned: no line is left in the channel (resource.go:65).
THEOREM NoLineIsLeft == Stdin!Spec => Stdin!NoFalseTimeout
<1>1. StdinInv /\ [Stdin!Next]_Stdin!vars
          => [Stdin!TimeRunsOut => handed = printed]_<<Stdin!callVars, Stdin!peerVars>>
  <2> SUFFICES ASSUME StdinInv, [Stdin!Next]_Stdin!vars, Stdin!TimeRunsOut
               PROVE  handed = printed
    OBVIOUS
  <2>1. Stdin!TimePasses
    <3>1. elapsed' = elapsed + 1 /\ elapsed \in Nat /\ elapsed' # elapsed /\ elapsed' # 0
      BY DEF Stdin!TimeRunsOut
    <3>2. Stdin!Call => elapsed' = 0
      BY DEF Stdin!Call, Stdin!BeginCall
    <3>3. Stdin!Peer \/ Stdin!Host \/ UNCHANGED Stdin!vars => UNCHANGED elapsed
      BY DEF Stdin!vars, Stdin!Peer, Stdin!PrintPart, Stdin!PrintLine, Stdin!Close,
             Stdin!Host, Stdin!PumpLine, Stdin!PumpTail, Stdin!PumpEnd, Stdin!Receive,
             Stdin!ReceiveClosed, Stdin!TimerFires, Stdin!Answer, Stdin!AnswerLine
    <3>4. QED
      BY <3>1, <3>2, <3>3 DEF Stdin!Next
  <2>2. reading /\ ~Stdin!Busy
    BY <2>1 DEF Stdin!TimeRunsOut, Stdin!TimePasses, Stdin!Tick
  <2>3. pump = "reading" /\ ~Stdin!CanPump
    BY <2>2 DEF Stdin!Busy, StdinPumpInv
  <2>4. QED
    BY <2>3 DEF Stdin!CanPump, StdinPumpInv, StdinHandedInv
<1>2. QED
  BY <1>1, StdinInvariant, PTL DEF Stdin!Spec, Stdin!NoFalseTimeout
=============================================================================
