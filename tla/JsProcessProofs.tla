---------------------------- MODULE JsProcessProofs ----------------------------
(***************************************************************************)
(* Theorems about a process binding of the JavaScript CLI, for every number *)
(* of lines, reads and writes and every timeout: until callProc has once   *)
(* stopped waiting for the worker, an answer it takes is the answer to its *)
(* own request, and the reads keep the promise of LineSource.              *)
(***************************************************************************)
EXTENDS JsProcess, Integers, SequenceTheorems, TLAPS

-----------------------------------------------------------------------------
\* The inductive invariant.

\* Nothing is under way.
Quiet == queue = <<>> /\ waiters = <<>> /\ pending = {}

\* The one request under way: posted, a read that waits, or a write.
Posted ==
    /\ queue = <<[op |-> main, request |-> issued]>>
    /\ waiters = <<>> /\ pending = {}

Waiting ==
    /\ main = "read" /\ queue = <<>> /\ pending = {}
    /\ Len(waiters) = 1 /\ waiters[1].request = issued
    /\ elapsed + waiters[1].left >= Timeout

Writing == main = "write" /\ queue = <<>> /\ waiters = <<>> /\ pending = {issued}

\* A request is under way from its call to its answer, and no other is.
RequestInv ==
    /\ main = "idle" => Quiet
    /\ main # "idle" /\ header.ready => Quiet /\ header.request = issued
    /\ main # "idle" /\ ~header.ready => Posted \/ Waiting \/ Writing

\* The lines the worker has given away.
Answered == main = "read" /\ header.ready
Taken ==
    IF Answered /\ (header.kind = "line" \/ (header.kind = "error" /\ header.line # 0))
    THEN handed + 1
    ELSE handed

\* What the answer to a read says is true.
HeaderInv ==
    Answered =>
      /\ header.kind \in {"line", "timeout", "eof", "error"}
      /\ header.kind = "line" => header.line = handed + 1 /\ header.line \notin TooLong
      /\ header.kind = "error" /\ header.line # 0 =>
            header.line = handed + 1 /\ header.line \in TooLong
      /\ header.kind = "timeout" => elapsed >= Timeout
      /\ header.kind = "eof" => closed /\ handed = printed
      /\ header.kind = "error" /\ header.line = 0 => gone /\ closed /\ handed = printed

\* A list of what was read up to a line and not given away: the lines behind base, in
\* order, and behind them, perhaps, the unterminated one.
Held(ls, base, upto, ended) ==
    /\ base <= upto
    /\ Len(ls) \in {upto - base, upto - base + 1}
    /\ \A k \in 1 .. Len(ls) : ls[k] = IF k <= upto - base THEN base + k ELSE 0
    /\ Len(ls) > upto - base => ended

\* No line is given away twice: one may be lost once callProc has given up, and none
\* before.
HeldInv == \E base \in Nat : Taken <= base /\ Held(lines, base, seen, stdoutEnded)
LinesInv == Held(lines, Taken, seen, stdoutEnded)

\* What the worker knows of the end is true, and a read waits only for what it has
\* not.
EndInv ==
    /\ reading <=> main = "read"
    /\ calls <= issued /\ issued <= calls + MaxWrites
    /\ stdoutEnded => closed /\ seen = printed
    /\ exited => gone
    /\ waiters # <<>> => lines = <<>> /\ ~(exited /\ stdoutEnded)

ProcessInv ==
    TypeOK /\ EndInv /\ HeldInv /\ (~gaveUp => RequestInv /\ HeaderInv /\ LinesInv)

-----------------------------------------------------------------------------
\* What the handlers are built from.

Headers == [ready : BOOLEAN, request : 0 .. issued,
            kind : Kinds \cup {"written"}, line : 0 .. MaxLines]
Requests == [op : {"read", "write"}, request : 1 .. issued]
Waiters == [request : 1 .. issued, left : 0 .. Timeout]

\* What is counted is a natural number.
LEMMA Numbers ==
    ASSUME TypeOK
    PROVE  /\ printed \in Nat /\ handed \in Nat /\ seen \in Nat /\ issued \in Nat
           /\ elapsed \in Nat /\ Timeout \in Nat /\ calls \in Nat
           /\ MaxLines \in Nat /\ MaxCalls \in Nat /\ MaxWrites \in Nat
           /\ seen <= printed /\ printed <= MaxLines
  BY ReadCallAssumption, JsProcessAssumption DEF TypeOK, ReadTypeOK

\* Answers are of one type.
LEMMA AnswerTypes ==
    ASSUME NEW kind \in Kinds, NEW line \in 0 .. MaxLines
    PROVE  [kind |-> kind, line |-> line] \in [kind : Kinds, line : 0 .. MaxLines]
  OBVIOUS

\* finish raises the header.
LEMMA FinishTypes ==
    ASSUME TypeOK, NEW request \in 0 .. issued, NEW line \in 0 .. MaxLines,
           NEW kind \in Kinds \cup {"written"}
    PROVE  Finished(request, kind, line) \in Headers
<1>1. TRUE \in BOOLEAN /\ (IF line \in TooLong THEN "error" ELSE kind) \in Kinds \cup {"written"}
  BY DEF Kinds
<1>2. QED
  BY <1>1, Zenon DEF Finished, Headers

\* An answer without a line fits.
LEMMA PlainAnswer ==
    \A request, kind :
        Finished(request, kind, 0)
            = [ready |-> TRUE, request |-> request, kind |-> kind, line |-> 0]
<1>1. 0 \notin TooLong
  BY ReadCallAssumption
<1>2. QED
  BY <1>1, Zenon DEF Finished

\* The first n lines go to the first n waiters, and nothing more can be given away;
\* when the process is over, the last waiter left gets its end.
GivenAway(n, ls, ws, S, W) ==
    /\ n <= Len(ls) /\ n <= Len(ws) /\ (n = Len(ls) \/ n = Len(ws))
    /\ lines' \in Seq(S) /\ Len(lines') = Len(ls) - n
    /\ \A i \in 1 .. Len(ls) - n : lines'[i] = ls[n + i]
    /\ \/ /\ n < Len(ws) /\ exited' /\ stdoutEnded'
          /\ waiters' = <<>>
          /\ header' = Finished(ws[Len(ws)].request, IF failed' THEN "error" ELSE "eof", 0)
       \/ /\ n = Len(ws) \/ ~(exited' /\ stdoutEnded')
          /\ waiters' \in Seq(W) /\ Len(waiters') = Len(ws) - n
          /\ \A i \in 1 .. Len(ws) - n : waiters'[i] = ws[n + i]
          /\ header' = IF n = 0 THEN header
                       ELSE Finished(ws[n].request, IF ls[n] = 0 THEN "eof" ELSE "line", ls[n])

\* deliver does that.
LEMMA Delivery ==
    ASSUME NEW S, NEW W, NEW ls \in Seq(S), NEW ws \in Seq(W), Deliver(ls, ws)
    PROVE  \E n \in Nat : GivenAway(n, ls, ws, S, W)
<1> DEFINE n == IF Len(ls) < Len(ws) THEN Len(ls) ELSE Len(ws)
           left == SubSeq(ws, n + 1, Len(ws))
           over == exited' /\ stdoutEnded' /\ left # <<>>
<1>1. /\ Len(ls) \in Nat /\ Len(ws) \in Nat /\ n \in Nat
      /\ n <= Len(ls) /\ n <= Len(ws) /\ (n = Len(ls) \/ n = Len(ws))
  OBVIOUS
<1>2. /\ lines' = SubSeq(ls, n + 1, Len(ls))
      /\ waiters' = IF over THEN <<>> ELSE left
      /\ header' = IF over THEN Finished(Last(left).request, IF failed' THEN "error" ELSE "eof", 0)
                   ELSE IF n = 0 THEN header
                   ELSE Finished(ws[n].request, IF ls[n] = 0 THEN "eof" ELSE "line", ls[n])
  BY DEF Deliver, Kept
<1> HIDE DEF n
<1>3. /\ lines' \in Seq(S) /\ Len(lines') = Len(ls) - n
      /\ \A i \in 1 .. Len(ls) - n : lines'[i] = ls[n + i]
  <2>1. \A i \in n + 1 .. Len(ls) : ls[i] \in S
    BY <1>1, ElementOfSeq
  <2>2. /\ lines' \in Seq(S)
        /\ Len(lines') = IF n + 1 <= Len(ls) THEN Len(ls) - (n + 1) + 1 ELSE 0
        /\ \A i \in 1 .. Len(ls) - (n + 1) + 1 : lines'[i] = ls[n + 1 + i - 1]
    BY <1>1, <1>2, <2>1, SubSeqProperties
  <2>3. Len(lines') = Len(ls) - n
    BY <1>1, <2>2
  <2>4. ASSUME NEW i \in 1 .. Len(ls) - n PROVE lines'[i] = ls[n + i]
    <3>1. i \in 1 .. Len(ls) - (n + 1) + 1 /\ n + 1 + i - 1 = n + i
      BY <1>1
    <3>2. QED
      BY <2>2, <3>1
  <2>5. QED
    BY <2>2, <2>3, <2>4
<1>4. /\ left \in Seq(W) /\ Len(left) = Len(ws) - n
      /\ \A i \in 1 .. Len(ws) - n : left[i] = ws[n + i]
  <2>1. \A i \in n + 1 .. Len(ws) : ws[i] \in W
    BY <1>1, ElementOfSeq
  <2>2. /\ left \in Seq(W)
        /\ Len(left) = IF n + 1 <= Len(ws) THEN Len(ws) - (n + 1) + 1 ELSE 0
        /\ \A i \in 1 .. Len(ws) - (n + 1) + 1 : left[i] = ws[n + 1 + i - 1]
    BY <1>1, <2>1, SubSeqProperties
  <2>3. Len(left) = Len(ws) - n
    BY <1>1, <2>2
  <2>4. ASSUME NEW i \in 1 .. Len(ws) - n PROVE left[i] = ws[n + i]
    <3>1. i \in 1 .. Len(ws) - (n + 1) + 1 /\ n + 1 + i - 1 = n + i
      BY <1>1
    <3>2. QED
      BY <2>2, <3>1
  <2>5. QED
    BY <2>2, <2>3, <2>4
<1> HIDE DEF left
<1>5. left # <<>> <=> n < Len(ws)
  BY <1>1, <1>4, EmptySeq
<1>6. left # <<>> => Last(left) = ws[Len(ws)]
  <2>1. SUFFICES ASSUME left # <<>> PROVE Last(left) = ws[Len(ws)]
    OBVIOUS
  <2>2. Len(ws) - n \in 1 .. Len(ws) - n /\ n + (Len(ws) - n) = Len(ws)
    BY <1>1, <1>5, <2>1
  <2>3. left[Len(ws) - n] = ws[n + (Len(ws) - n)]
    BY <1>4, <2>2
  <2>4. QED
    BY <1>4, <2>2, <2>3 DEF Last
<1>7. CASE over
  <2>1. /\ n < Len(ws) /\ exited' /\ stdoutEnded' /\ waiters' = <<>>
        /\ header' = Finished(ws[Len(ws)].request, IF failed' THEN "error" ELSE "eof", 0)
    BY <1>2, <1>5, <1>6, <1>7, Zenon
  <2>2. QED
    BY <1>1, <1>3, <2>1, Zenon DEF GivenAway
<1>8. CASE ~over
  <2>1. /\ waiters' = left
        /\ header' = IF n = 0 THEN header
                     ELSE Finished(ws[n].request, IF ls[n] = 0 THEN "eof" ELSE "line", ls[n])
        /\ left = <<>> \/ ~(exited' /\ stdoutEnded')
    BY <1>2, <1>8, Zenon
  <2>2. n = Len(ws) \/ ~(exited' /\ stdoutEnded')
    BY <1>1, <1>5, <2>1
  <2>3. QED
    BY <1>1, <1>3, <1>4, <2>1, <2>2, Zenon DEF GivenAway
<1>9. QED
  BY <1>7, <1>8

\* deliver keeps the types, and leaves a waiter only when there is nothing for it.
LEMMA DeliverTypes ==
    ASSUME TypeOK, NEW ls \in Seq(0 .. MaxLines), NEW ws \in Seq(Waiters), Deliver(ls, ws)
    PROVE  /\ lines' \in Seq(0 .. MaxLines) /\ waiters' \in Seq(Waiters) /\ header' \in Headers
           /\ waiters' # <<>> => lines' = <<>> /\ ~(exited' /\ stdoutEnded')
<1>1. PICK n \in Nat : GivenAway(n, ls, ws, 0 .. MaxLines, Waiters)
  BY Delivery
<1>2. /\ Len(ls) \in Nat /\ Len(ws) \in Nat
      /\ \A i \in 1 .. Len(ws) : ws[i].request \in 0 .. issued
      /\ \A i \in 1 .. Len(ls) : ls[i] \in 0 .. MaxLines
  <2>1. \A i \in 1 .. Len(ws) : ws[i] \in Waiters
    BY ElementOfSeq
  <2>2. \A i \in 1 .. Len(ws) : ws[i].request \in 1 .. issued
    BY <2>1 DEF Waiters
  <2>3. issued \in Nat /\ 1 .. issued \subseteq 0 .. issued
    BY Numbers
  <2>4. \A i \in 1 .. Len(ls) : ls[i] \in 0 .. MaxLines
    BY ElementOfSeq
  <2>5. QED
    BY <2>2, <2>3, <2>4
<1>3. \A request \in 0 .. issued, kind \in Kinds \cup {"written"}, line \in 0 .. MaxLines :
          Finished(request, kind, line) \in Headers
  BY FinishTypes
<1>4. header \in Headers
  BY DEF TypeOK, Headers
<1>5. 0 \in 0 .. MaxLines /\ {"line", "eof", "error"} \subseteq Kinds \cup {"written"}
  BY Numbers DEF Kinds
<1>6. CASE /\ n < Len(ws) /\ waiters' = <<>>
           /\ header' = Finished(ws[Len(ws)].request, IF failed' THEN "error" ELSE "eof", 0)
  <2>1. ws[Len(ws)].request \in 0 .. issued
    BY <1>2, <1>6
  <2>2. (IF failed' THEN "error" ELSE "eof") \in Kinds \cup {"written"}
    BY <1>5
  <2>3. header' \in Headers
    BY <1>3, <1>5, <1>6, <2>1, <2>2
  <2>4. QED
    BY <1>1, <1>6, <2>3 DEF GivenAway
<1>7. CASE /\ n = Len(ws) \/ ~(exited' /\ stdoutEnded')
           /\ waiters' \in Seq(Waiters) /\ Len(waiters') = Len(ws) - n
           /\ header' = IF n = 0 THEN header
                        ELSE Finished(ws[n].request, IF ls[n] = 0 THEN "eof" ELSE "line", ls[n])
  <2>1. CASE n = 0
    BY <1>1, <1>2, <1>4, <1>7, <2>1, EmptySeq DEF GivenAway
  <2>2. CASE n # 0
    <3>1. ws[n].request \in 0 .. issued /\ ls[n] \in 0 .. MaxLines
      BY <1>1, <1>2, <2>2 DEF GivenAway
    <3>2. (IF ls[n] = 0 THEN "eof" ELSE "line") \in Kinds \cup {"written"}
      BY <1>5
    <3>3. header' \in Headers
      BY <1>3, <1>7, <2>2, <3>1, <3>2
    <3>4. waiters' # <<>> => n # Len(ws)
      BY <1>2, <1>7, EmptySeq
    <3>5. waiters' # <<>> => lines' = <<>> /\ ~(exited' /\ stdoutEnded')
      BY <1>1, <1>2, <1>7, <3>4, EmptySeq DEF GivenAway
    <3>6. QED
      BY <1>1, <1>7, <3>3, <3>5 DEF GivenAway
  <2>3. QED
    BY <2>1, <2>2
<1>8. QED
  BY <1>1, <1>6, <1>7, Zenon DEF GivenAway

\* Without a waiter, deliver keeps the lines.
LEMMA DeliverNone ==
    ASSUME NEW S, NEW ls \in Seq(S), Deliver(ls, <<>>)
    PROVE  lines' = ls /\ waiters' = <<>> /\ header' = header
<1>1. <<>> \in Seq(Waiters) /\ Len(<<>>) = 0
  BY EmptySeq
<1>2. PICK n \in Nat : GivenAway(n, ls, <<>>, S, Waiters)
  BY <1>1, Delivery
<1>3. /\ n = 0 /\ lines' \in Seq(S) /\ Len(lines') = Len(ls)
      /\ \A i \in 1 .. Len(ls) : lines'[i] = ls[i]
  BY <1>1, <1>2 DEF GivenAway
<1>4. waiters' \in Seq(Waiters) /\ Len(waiters') = 0 /\ header' = header
  BY <1>1, <1>2, <1>3 DEF GivenAway
<1>5. QED
  BY <1>3, <1>4, SeqEqual, EmptySeq

\* Only the empty sequence has no length.
LEMMA EmptyLen ==
    ASSUME NEW S, NEW seq \in Seq(S)
    PROVE  Len(seq) \in Nat /\ (Len(seq) = 0 <=> seq = <<>>)
  BY EmptySeq

\* The one waiter there is gets the first line, or the end, or goes on waiting.
LEMMA DeliverOne ==
    ASSUME NEW S, NEW W, NEW ls \in Seq(S), NEW ws \in Seq(W), Len(ws) = 1, Deliver(ls, ws)
    PROVE  \/ /\ ls = <<>> /\ lines' = <<>> /\ waiters' = <<>> /\ exited' /\ stdoutEnded'
              /\ header' = Finished(ws[1].request, IF failed' THEN "error" ELSE "eof", 0)
           \/ /\ ls = <<>> /\ lines' = <<>> /\ header' = header
              /\ waiters' \in Seq(W) /\ Len(waiters') = 1 /\ waiters'[1] = ws[1]
           \/ /\ ls # <<>> /\ lines' \in Seq(S) /\ Len(lines') = Len(ls) - 1 /\ waiters' = <<>>
              /\ \A i \in 1 .. Len(ls) - 1 : lines'[i] = ls[1 + i]
              /\ header' = Finished(ws[1].request, IF ls[1] = 0 THEN "eof" ELSE "line", ls[1])
<1>1. PICK n \in Nat : GivenAway(n, ls, ws, S, W)
  BY Delivery
<1>2. CASE n = 0
  <2>0. Len(ls) = 0 /\ lines' \in Seq(S) /\ Len(lines') = 0
    BY <1>1, <1>2 DEF GivenAway
  <2>1. ls = <<>> /\ lines' = <<>>
    BY <2>0, EmptyLen
  <2>2. 1 \in 1 .. 1 - n /\ n + 1 = 1 /\ 1 - n = 1
    BY <1>2
  <2>3. QED
    BY <1>1, <1>2, <2>1, <2>2 DEF GivenAway
<1>3. CASE n = 1
  <2>0. Len(ls) # 0 /\ (waiters' = <<>> \/ (waiters' \in Seq(W) /\ Len(waiters') = 0))
    BY <1>1, <1>3 DEF GivenAway
  <2>1. ls # <<>>
    BY <2>0, EmptyLen
  <2>2. waiters' = <<>>
    BY <2>0, EmptyLen
  <2>3. QED
    BY <1>1, <1>3, <2>1, <2>2 DEF GivenAway
<1>4. QED
  BY <1>1, <1>2, <1>3 DEF GivenAway

-----------------------------------------------------------------------------
\* deliver gives away the lines in order, each once.

\* What finish says of the lines given away.
LEMMA TakenNext ==
    ASSUME handed \in Nat, UNCHANGED <<main, handed>>
    PROVE  /\ Taken \in {handed, handed + 1} /\ Taken' \in {handed, handed + 1}
           /\ header' = header => Taken' = Taken
           /\ \A request, kind :
                 header' = Finished(request, kind, 0) /\ kind # "line" => Taken' = handed
  BY PlainAnswer DEF Taken, Answered

\* Whatever the worker has answered before, no line is given away twice.
LEMMA DeliverHolds ==
    ASSUME TypeOK, UNCHANGED <<main, handed>>, seen' \in Nat,
           NEW ls \in Seq(0 .. MaxLines), NEW ws \in Seq(Waiters), Deliver(ls, ws),
           NEW base \in Nat, Taken <= base, Held(ls, base, seen', stdoutEnded')
    PROVE  HeldInv'
<1>0. PICK upto \in Nat : upto = seen'
  OBVIOUS
<1>1. PICK n \in Nat : GivenAway(n, ls, ws, 0 .. MaxLines, Waiters)
  BY Delivery
<1>2. handed \in Nat
  BY Numbers
<1>3. PICK len \in Nat : len = Len(ls)
  OBVIOUS
<1>10. PICK m \in Nat : upto = base + m
  <2>1. base <= upto
    BY <1>0 DEF Held
  <2>2. upto - base \in Nat /\ upto = base + (upto - base)
    BY <2>1
  <2>3. QED
    BY <2>2
<1>11. upto - base = m
  BY <1>10
<1>4. /\ len = m \/ len = m + 1
      /\ \A k \in 1 .. len : ls[k] = IF k <= m THEN base + k ELSE 0
      /\ len > m => stdoutEnded'
  BY <1>0, <1>3, <1>11, Zenon DEF Held
<1>5. /\ n <= len /\ Len(lines') = len - n
      /\ \A i \in 1 .. len - n : lines'[i] = ls[n + i]
  BY <1>1, <1>3 DEF GivenAway
<1>6. \/ \E request : header' = Finished(request, IF failed' THEN "error" ELSE "eof", 0)
      \/ n = 0 /\ header' = header
      \/ n > 0 /\ \E request : header' = Finished(request, IF ls[n] = 0 THEN "eof" ELSE "line", ls[n])
  BY <1>1 DEF GivenAway
<1>7. CASE n <= m
  <2>1. Taken' <= base + n
    <3>1. CASE \E request : header' = Finished(request, IF failed' THEN "error" ELSE "eof", 0)
      <4>1. Taken' = handed
        BY <1>2, <3>1, TakenNext
      <4>2. QED
        BY <1>2, <4>1, TakenNext
    <3>2. CASE n = 0 /\ header' = header
      BY <1>2, <3>2, TakenNext
    <3>3. CASE n > 0
      BY <1>2, <3>3, TakenNext
    <3>4. QED
      BY <1>6, <3>1, <3>2, <3>3
  <2>2. Held(lines', base + n, seen', stdoutEnded')
    <3>1. upto - (base + n) = m - n /\ base + n <= upto
      BY <1>7, <1>10
    <3>2. Len(lines') = m - n \/ Len(lines') = m - n + 1
      BY <1>4, <1>5
    <3>3. ASSUME NEW k \in 1 .. len - n
          PROVE  lines'[k] = IF k <= m - n THEN base + n + k ELSE 0
      <4>1. n + k \in 1 .. len
        BY <1>5
      <4>2. lines'[k] = IF n + k <= m THEN base + (n + k) ELSE 0
        BY <1>4, <1>5, <4>1
      <4>3. n + k <= m <=> k <= m - n
        OBVIOUS
      <4>4. base + (n + k) = base + n + k
        OBVIOUS
      <4>5. QED
        BY <4>2, <4>3, <4>4
    <3>4. Len(lines') > m - n => len > m
      BY <1>5
    <3>5. QED
      BY <1>0, <1>4, <1>5, <3>1, <3>2, <3>3, <3>4, Zenon DEF Held
  <2>3. QED
    BY <2>1, <2>2 DEF HeldInv
<1>8. CASE ~(n <= m)
  <2>0. n <= len /\ (len = m \/ len = m + 1)
    BY <1>4, <1>5
  <2>1. n = len /\ n > 0 /\ n \in 1 .. len /\ len > m
    BY <1>8, <2>0
  <2>2. ls[n] = 0 /\ stdoutEnded'
    BY <1>4, <1>8, <2>1
  <2>3. Len(lines') = 0
    BY <1>5, <2>1
  <2>4. Taken' = handed
    <3>1. CASE \E request : header' = Finished(request, IF failed' THEN "error" ELSE "eof", 0)
      BY <1>2, <3>1, TakenNext
    <3>2. CASE \E request : header' = Finished(request, IF ls[n] = 0 THEN "eof" ELSE "line", ls[n])
      BY <1>2, <2>2, <3>2, TakenNext
    <3>3. QED
      BY <1>6, <2>1, <3>1, <3>2
  <2>5. Taken' <= upto
    BY <1>2, <1>10, <2>4, TakenNext
  <2>6. Held(lines', upto, upto, stdoutEnded')
    BY <2>3 DEF Held
  <2>7. QED
    BY <1>0, <2>5, <2>6 DEF HeldInv
<1>9. QED
  BY <1>7, <1>8

\* Until callProc gives up, the one waiter there may be is that of its own read: it
\* gets the next line, or the end when there is no other.
LEMMA DeliverExact ==
    ASSUME ProcessInv, ~gaveUp, NEW upto \in Nat, upto = seen',
           NEW ls \in Seq(0 .. MaxLines), NEW ws \in Seq(Waiters), Deliver(ls, ws),
           Held(ls, Taken, upto, stdoutEnded'),
           stdoutEnded' => closed /\ upto = printed,
           exited' => gone,
           UNCHANGED <<mainVars, pending, callVars, peerVars>>,
           \/ ws = <<>> /\ waiters = <<>> /\ queue' = queue
           \/ /\ main = "read" /\ ~header.ready /\ queue' = <<>> /\ pending = {}
              /\ Len(ws) = 1 /\ ws[1].request = issued /\ elapsed + ws[1].left >= Timeout
    PROVE  RequestInv' /\ HeaderInv' /\ LinesInv'
<1> USE DEF mainVars, callVars, peerVars
<1>1. handed \in Nat /\ Taken \in Nat /\ RequestInv /\ HeaderInv
  BY Numbers DEF ProcessInv, Taken
<1>2. CASE ws = <<>> /\ waiters = <<>> /\ queue' = queue
  <2>1. lines' = ls /\ waiters' = waiters /\ header' = header
    BY <1>2, DeliverNone
  <2>2. Taken' = Taken /\ (Answered' <=> Answered)
    BY <2>1 DEF Taken, Answered
  <2>3. RequestInv'
    BY <1>1, <1>2, <2>1 DEF RequestInv, Quiet, Posted, Waiting, Writing
  <2>4. HeaderInv'
    BY <1>1, <2>1, <2>2 DEF HeaderInv
  <2>5. LinesInv'
    BY <2>1, <2>2, Zenon DEF LinesInv
  <2>6. QED
    BY <2>3, <2>4, <2>5
<1>3. CASE /\ main = "read" /\ ~header.ready /\ queue' = <<>> /\ pending = {}
           /\ Len(ws) = 1 /\ ws[1].request = issued /\ elapsed + ws[1].left >= Timeout
  <2>1. Taken = handed
    BY <1>3 DEF Taken, Answered
  <2>2. /\ Held(ls, handed, upto, stdoutEnded') /\ Len(ls) \in Nat
    BY <2>1
  <2>3. CASE /\ ls = <<>> /\ lines' = <<>> /\ waiters' = <<>> /\ exited' /\ stdoutEnded'
             /\ header' = Finished(ws[1].request, IF failed' THEN "error" ELSE "eof", 0)
    <3>1. PICK kind \in {"error", "eof"} : header' = Finished(issued, kind, 0)
      BY <1>3, <2>3
    <3>2. upto = handed /\ closed /\ handed = printed /\ gone
      BY <1>1, <2>2, <2>3 DEF Held
    <3>3. Taken' = handed
      BY <3>1, PlainAnswer DEF Taken, Answered
    <3>4. RequestInv'
      BY <1>3, <2>3, <3>1 DEF RequestInv, Quiet, Finished
    <3>5. HeaderInv'
      BY <3>1, <3>2, PlainAnswer DEF HeaderInv, Answered
    <3>6. LinesInv'
      BY <2>2, <2>3, <3>3, Zenon DEF LinesInv
    <3>7. QED
      BY <3>4, <3>5, <3>6
  <2>4. CASE /\ ls = <<>> /\ lines' = <<>> /\ header' = header
             /\ waiters' \in Seq(Waiters) /\ Len(waiters') = 1 /\ waiters'[1] = ws[1]
    <3>1. Taken' = handed
      BY <1>3, <2>4 DEF Taken, Answered
    <3>2. RequestInv'
      BY <1>3, <2>4 DEF RequestInv, Waiting
    <3>3. HeaderInv'
      BY <1>3, <2>4 DEF HeaderInv, Answered
    <3>4. LinesInv'
      BY <2>2, <2>4, <3>1, Zenon DEF LinesInv
    <3>5. QED
      BY <3>2, <3>3, <3>4
  <2>5. CASE /\ ls # <<>> /\ lines' \in Seq(0 .. MaxLines) /\ Len(lines') = Len(ls) - 1
             /\ waiters' = <<>>
             /\ \A i \in 1 .. Len(ls) - 1 : lines'[i] = ls[1 + i]
             /\ header' = Finished(ws[1].request, IF ls[1] = 0 THEN "eof" ELSE "line", ls[1])
    <3>1. PICK len \in Nat : len = Len(ls) /\ len > 0
      BY <2>5, EmptyLen
    <3>2. PICK m \in Nat : upto = handed + m
      <4>1. handed <= upto
        BY <2>2 DEF Held
      <4>2. upto - handed \in Nat /\ upto = handed + (upto - handed)
        BY <1>1, <4>1
      <4>3. QED
        BY <4>2
    <3>3. upto - handed = m
      BY <1>1, <3>2
    <3>4. /\ len = m \/ len = m + 1
          /\ \A k \in 1 .. len : ls[k] = IF k <= m THEN handed + k ELSE 0
          /\ len > m => stdoutEnded'
      BY <2>2, <3>1, <3>3, Zenon DEF Held
    <3>5. RequestInv'
      BY <1>3, <2>5 DEF RequestInv, Quiet, Finished
    <3>6. CASE m = 0
      <4>1. len = 1 /\ ls[1] = 0 /\ stdoutEnded' /\ upto = handed
        BY <1>1, <3>1, <3>2, <3>4, <3>6
      <4>2. header' = Finished(issued, "eof", 0) /\ lines' = <<>>
        BY <1>3, <2>5, <3>1, <4>1, EmptyLen
      <4>3. Taken' = handed
        BY <4>2, PlainAnswer DEF Taken, Answered
      <4>4. HeaderInv'
        BY <1>1, <4>1, <4>2, <1>3, <3>2, PlainAnswer DEF HeaderInv, Answered
      <4>5. Held(<<>>, handed, upto, stdoutEnded')
        BY <1>1, <4>1 DEF Held
      <4>6. LinesInv'
        BY <4>2, <4>3, <4>5, Zenon DEF LinesInv
      <4>7. QED
        BY <3>5, <4>4, <4>6
    <3>7. CASE m > 0
      <4>1. ls[1] = handed + 1 /\ ls[1] # 0
        BY <1>1, <3>1, <3>4, <3>7
      <4>2. header' = Finished(issued, "line", handed + 1)
        BY <1>3, <2>5, <4>1
      <4>3. Taken' = handed + 1
        BY <1>1, <1>3, <4>2 DEF Taken, Answered, Finished
      <4>4. HeaderInv'
        BY <1>1, <4>2 DEF HeaderInv, Finished
      <4>5. upto - (handed + 1) = m - 1 /\ handed + 1 <= upto
        BY <1>1, <3>2, <3>7
      <4>6. Len(lines') = len - 1 /\ (len - 1 = m - 1 \/ len - 1 = m - 1 + 1)
        BY <2>5, <3>1, <3>4
      <4>7. ASSUME NEW k \in 1 .. len - 1
            PROVE  lines'[k] = IF k <= m - 1 THEN handed + 1 + k ELSE 0
        <5>1. 1 + k \in 1 .. len /\ k \in 1 .. Len(ls) - 1
          BY <3>1
        <5>2. lines'[k] = IF 1 + k <= m THEN handed + (1 + k) ELSE 0
          BY <2>5, <3>4, <5>1
        <5>3. (1 + k <= m <=> k <= m - 1) /\ handed + (1 + k) = handed + 1 + k
          BY <1>1
        <5>4. QED
          BY <5>2, <5>3
      <4>8. len - 1 > m - 1 => stdoutEnded'
        BY <3>4
      <4>9. Held(lines', handed + 1, upto, stdoutEnded')
        BY <4>5, <4>6, <4>7, <4>8, Zenon DEF Held
      <4>10. LinesInv'
        BY <4>3, <4>9, Zenon DEF LinesInv
      <4>11. QED
        BY <3>5, <4>4, <4>10
    <3>8. QED
      BY <3>6, <3>7
  <2>6. QED
    BY <1>3, <2>3, <2>4, <2>5, DeliverOne
<1>4. QED
  BY <1>2, <1>3

-----------------------------------------------------------------------------
\* The steps of the worker and the child.

USE DEF ProcessInv, mainVars, callVars, peerVars, streamVars, workerVars, jsVars

\* What every handler that delivers keeps.
LEMMA DeliverKeeps ==
    ASSUME ProcessInv, NEW upto \in Nat, upto = seen', upto <= printed,
           NEW ls \in Seq(0 .. MaxLines), NEW ws \in Seq(Waiters), Deliver(ls, ws),
           \A base \in Nat : Held(lines, base, seen, stdoutEnded) => Held(ls, base, upto, stdoutEnded'),
           stdoutEnded' \in BOOLEAN, exited' \in BOOLEAN, failed' \in BOOLEAN,
           stdoutEnded' => closed /\ upto = printed,
           exited' => gone,
           UNCHANGED <<mainVars, pending, stalls, callVars, peerVars>>,
           queue' \in Seq(Requests),
           ~gaveUp =>
              \/ ws = <<>> /\ waiters = <<>> /\ queue' = queue
              \/ /\ main = "read" /\ ~header.ready /\ queue' = <<>> /\ pending = {}
                 /\ Len(ws) = 1 /\ ws[1].request = issued /\ elapsed + ws[1].left >= Timeout
    PROVE  ProcessInv'
<1>1. /\ lines' \in Seq(0 .. MaxLines) /\ waiters' \in Seq(Waiters) /\ header' \in Headers
      /\ waiters' # <<>> => lines' = <<>> /\ ~(exited' /\ stdoutEnded')
  BY DeliverTypes
<1>2. seen' \in 0 .. printed'
  BY Numbers
<1>3. TypeOK'
  BY <1>1, <1>2 DEF TypeOK, ReadTypeOK, Headers, Requests, Waiters
<1>4. EndInv'
  BY <1>1 DEF EndInv
<1>5. HeldInv'
  <2>1. PICK base \in Nat : Taken <= base /\ Held(lines, base, seen, stdoutEnded)
    BY DEF HeldInv
  <2>2. Held(ls, base, seen', stdoutEnded')
    BY <2>1
  <2>3. QED
    BY <2>1, <2>2, DeliverHolds
<1>6. ~gaveUp => RequestInv' /\ HeaderInv' /\ LinesInv'
  <2>1. SUFFICES ASSUME ~gaveUp PROVE RequestInv' /\ HeaderInv' /\ LinesInv'
    OBVIOUS
  <2>2. Held(ls, Taken, upto, stdoutEnded')
    <3>1. Taken \in Nat
      BY Numbers DEF Taken
    <3>2. QED
      BY <2>1, <3>1 DEF LinesInv
  <2>3. QED
    BY <2>1, <2>2, DeliverExact
<1>7. QED
  BY <1>3, <1>4, <1>5, <1>6

\* A read that waits is the one under way.
LEMMA TheWaiter ==
    ASSUME ProcessInv, ~gaveUp
    PROVE  \/ waiters = <<>>
           \/ /\ main = "read" /\ ~header.ready /\ queue = <<>> /\ pending = {}
              /\ Len(waiters) = 1 /\ waiters[1].request = issued
              /\ elapsed + waiters[1].left >= Timeout
  BY DEF RequestInv, Quiet, Posted, Waiting, Writing, TypeOK

\* The handler of a read message.
LEMMA DispatchReadKeeps ==
    ASSUME ProcessInv, DispatchRead
    PROVE  ProcessInv'
<1> DEFINE w == [request |-> Head(queue).request, left |-> Timeout]
           ws == Append(waiters, w)
<1>1. /\ queue # <<>> /\ Head(queue).op = "read" /\ queue' = Tail(queue)
      /\ UNCHANGED <<stdoutEnded, exited, failed, seen, pending, mainVars, stalls, peerVars, callVars>>
      /\ Deliver(lines, ws)
  BY DEF DispatchRead
<1>2. queue \in Seq(Requests) /\ waiters \in Seq(Waiters) /\ lines \in Seq(0 .. MaxLines)
  BY DEF TypeOK, Requests, Waiters
<1>3. Head(queue) \in Requests /\ Tail(queue) \in Seq(Requests) /\ Len(Tail(queue)) = Len(queue) - 1
  BY <1>1, <1>2, HeadTailProperties
<1>4. w \in Waiters
  BY <1>3, Numbers DEF Requests, Waiters
<1>5. /\ ws \in Seq(Waiters) /\ Len(ws) = Len(waiters) + 1
      /\ ws[Len(waiters) + 1] = w
  BY <1>2, <1>4, AppendProperties
<1> HIDE DEF ws, w
<1>6. ~gaveUp =>
         /\ main = "read" /\ ~header.ready /\ queue' = <<>> /\ pending = {}
         /\ Len(ws) = 1 /\ ws[1].request = issued /\ elapsed + ws[1].left >= Timeout
  <2>1. SUFFICES ASSUME ~gaveUp
                 PROVE  /\ main = "read" /\ ~header.ready /\ queue' = <<>> /\ pending = {}
                        /\ Len(ws) = 1 /\ ws[1].request = issued /\ elapsed + ws[1].left >= Timeout
    OBVIOUS
  <2>2. Posted /\ main # "idle" /\ ~header.ready
    BY <1>1, <2>1 DEF RequestInv, Quiet, Waiting, Writing
  <2>3. queue = <<[op |-> main, request |-> issued]>> /\ waiters = <<>> /\ pending = {}
    BY <2>2 DEF Posted
  <2>4. Head(queue) = [op |-> main, request |-> issued] /\ Tail(queue) = <<>>
    BY <2>3
  <2>5. Len(waiters) = 0 /\ ws[1] = w /\ w.request = issued /\ w.left = Timeout
    BY <1>5, <2>3, <2>4 DEF w
  <2>6. elapsed + Timeout >= Timeout
    BY Numbers
  <2>7. QED
    BY <1>1, <1>5, <2>2, <2>3, <2>4, <2>5, <2>6
<1>7. stdoutEnded \in BOOLEAN /\ exited \in BOOLEAN /\ failed \in BOOLEAN /\ seen \in Nat
      /\ seen <= printed /\ (stdoutEnded => closed /\ seen = printed) /\ (exited => gone)
  BY Numbers DEF TypeOK, EndInv
<1>8. QED
  BY <1>1, <1>2, <1>3, <1>5, <1>6, <1>7, DeliverKeeps

\* stdout 'data'.
LEMMA OnDataKeeps ==
    ASSUME ProcessInv, OnData
    PROVE  ProcessInv'
<1>1. /\ seen < printed /\ seen' \in seen + 1 .. printed
      /\ UNCHANGED <<stdoutEnded, exited, failed, queue, pending, mainVars, stalls, peerVars, callVars>>
      /\ Deliver(lines \o [i \in 1 .. seen' - seen |-> seen + i], waiters)
  BY DEF OnData
<1>2. PICK upto \in Nat : upto = seen' /\ upto \in seen + 1 .. printed
  BY <1>1, Numbers
<1> DEFINE new == [i \in 1 .. upto - seen |-> seen + i]
<1>3. /\ seen \in Nat /\ printed \in Nat /\ MaxLines \in Nat /\ printed <= MaxLines
      /\ upto - seen \in Nat /\ upto <= MaxLines /\ seen < upto
  BY <1>2, Numbers
<1>4. new \in Seq(0 .. MaxLines) /\ Len(new) = upto - seen
      /\ \A i \in 1 .. upto - seen : new[i] = seen + i
  <2>1. \A i \in 1 .. upto - seen : seen + i \in 0 .. MaxLines
    BY <1>3
  <2>2. QED
    BY <1>3, <2>1
<1>5. queue \in Seq(Requests) /\ waiters \in Seq(Waiters) /\ lines \in Seq(0 .. MaxLines)
  BY DEF TypeOK, Requests, Waiters
<1> HIDE DEF new
<1>6. /\ lines \o new \in Seq(0 .. MaxLines) /\ Len(lines \o new) = Len(lines) + Len(new)
      /\ \A i \in 1 .. Len(lines) + Len(new) :
            (lines \o new)[i] = IF i <= Len(lines) THEN lines[i] ELSE new[i - Len(lines)]
  BY <1>4, <1>5, ConcatProperties
<1>7. ~stdoutEnded
  BY <1>1, <1>3 DEF EndInv
<1>8. ASSUME NEW base \in Nat, Held(lines, base, seen, stdoutEnded)
      PROVE  Held(lines \o new, base, upto, stdoutEnded')
  <2>1. PICK m \in Nat : seen = base + m
    <3>1. base <= seen
      BY <1>8 DEF Held
    <3>2. seen - base \in Nat /\ seen = base + (seen - base)
      BY <1>3, <3>1
    <3>3. QED
      BY <3>2
  <2>2. seen - base = m
    BY <2>1
  <2>3. Len(lines) = m /\ \A k \in 1 .. m : lines[k] = base + k
    BY <1>7, <1>8, <2>2 DEF Held
  <2>4. PICK j \in Nat : j = upto - seen
    BY <1>3
  <2>5. Len(lines \o new) = m + j /\ upto - base = m + j /\ base <= upto
    BY <1>3, <1>4, <1>6, <2>1, <2>3, <2>4
  <2>6. ASSUME NEW k \in 1 .. m + j PROVE (lines \o new)[k] = base + k
    <3>1. (lines \o new)[k] = IF k <= m THEN lines[k] ELSE new[k - m]
      BY <1>4, <1>6, <2>3, <2>4
    <3>2. CASE k <= m
      BY <2>3, <3>1, <3>2
    <3>3. CASE ~(k <= m)
      <4>1. k - m \in 1 .. upto - seen /\ seen + (k - m) = base + k
        BY <2>1, <2>4, <3>3
      <4>2. new[k - m] = seen + (k - m)
        BY <1>4, <4>1
      <4>3. QED
        BY <3>1, <3>3, <4>1, <4>2
    <3>4. QED
      BY <3>2, <3>3
  <2>7. \A k \in 1 .. m + j : k <= m + j
    OBVIOUS
  <2>8. m + j \in {m + j, m + j + 1} /\ ~(m + j > m + j)
    OBVIOUS
  <2>9. QED
    BY <2>5, <2>6, <2>7, <2>8 DEF Held
<1>9. stdoutEnded \in BOOLEAN /\ exited \in BOOLEAN /\ failed \in BOOLEAN /\ (exited => gone)
  BY DEF TypeOK, EndInv
<1>10. upto <= printed /\ Deliver(lines \o new, waiters)
  BY <1>1, <1>2, <1>3 DEF new
<1>11. QED
  BY <1>1, <1>2, <1>5, <1>6, <1>7, <1>8, <1>9, <1>10, TheWaiter, DeliverKeeps

\* stdout 'end'.
LEMMA OnEndKeeps ==
    ASSUME ProcessInv, OnEnd
    PROVE  ProcessInv'
<1> DEFINE ls == IF partial THEN Append(lines, 0) ELSE lines
<1>1. /\ closed /\ seen = printed /\ ~stdoutEnded /\ stdoutEnded' = TRUE
      /\ UNCHANGED <<exited, failed, queue, seen, pending, mainVars, stalls, peerVars, callVars>>
      /\ Deliver(ls, waiters)
  BY DEF OnEnd
<1>2. queue \in Seq(Requests) /\ waiters \in Seq(Waiters) /\ lines \in Seq(0 .. MaxLines)
  BY DEF TypeOK, Requests, Waiters
<1>3. PICK len \in Nat : len = Len(lines)
  BY <1>2
<1>4. /\ Append(lines, 0) \in Seq(0 .. MaxLines) /\ Len(Append(lines, 0)) = len + 1
      /\ \A i \in 1 .. len : Append(lines, 0)[i] = lines[i]
      /\ Append(lines, 0)[len + 1] = 0
  <2>1. 0 \in 0 .. MaxLines
    BY Numbers
  <2>2. QED
    BY <1>2, <1>3, <2>1, AppendProperties
<1>5. ls \in Seq(0 .. MaxLines)
  BY <1>2, <1>4
<1>6. ASSUME NEW base \in Nat, Held(lines, base, seen, stdoutEnded)
      PROVE  Held(ls, base, seen, TRUE)
  <2>1. base <= seen /\ seen - base = len /\ \A k \in 1 .. len : lines[k] = base + k
    <3>1. /\ base <= seen /\ (len = seen - base \/ len = seen - base + 1) /\ ~(len > seen - base)
          /\ \A k \in 1 .. len : lines[k] = IF k <= seen - base THEN base + k ELSE 0
      BY <1>1, <1>3, <1>6 DEF Held
    <3>2. seen - base = len
      BY <3>1, Numbers
    <3>3. QED
      BY <3>1, <3>2
  <2>2. CASE partial
    <3>1. ls = Append(lines, 0)
      BY <2>2
    <3>2. ASSUME NEW k \in 1 .. len + 1
          PROVE  Append(lines, 0)[k] = IF k <= len THEN base + k ELSE 0
      <4>1. CASE k <= len
        BY <1>4, <2>1, <4>1
      <4>2. CASE ~(k <= len)
        BY <1>4, <4>2
      <4>3. QED
        BY <4>1, <4>2
    <3>3. Held(Append(lines, 0), base, seen, TRUE)
      BY <1>4, <2>1, <3>2 DEF Held
    <3>4. QED
      BY <3>1, <3>3
  <2>3. CASE ~partial
    BY <1>3, <2>1, <2>3 DEF Held
  <2>4. QED
    BY <2>2, <2>3
<1> HIDE DEF ls
<1>7. exited \in BOOLEAN /\ failed \in BOOLEAN /\ (exited => gone) /\ seen \in Nat /\ seen <= printed
  BY Numbers DEF TypeOK, EndInv
<1>8. stdoutEnded' \in BOOLEAN
  BY <1>1, Zenon
<1>9. \A base \in Nat : Held(lines, base, seen, stdoutEnded) => Held(ls, base, seen, stdoutEnded')
  BY <1>1, <1>6
<1>10. QED
  BY <1>1, <1>2, <1>5, <1>7, <1>8, <1>9, TheWaiter, DeliverKeeps

\* 'exit'.
LEMMA OnExitKeeps ==
    ASSUME ProcessInv, OnExit
    PROVE  ProcessInv'
<1>1. /\ gone /\ exited' = TRUE /\ failed' \in BOOLEAN
      /\ UNCHANGED <<stdoutEnded, queue, seen, pending, mainVars, stalls, peerVars, callVars>>
      /\ Deliver(lines, waiters)
  BY DEF OnExit
<1>2. queue \in Seq(Requests) /\ waiters \in Seq(Waiters) /\ lines \in Seq(0 .. MaxLines)
  BY DEF TypeOK, Requests, Waiters
<1>3. stdoutEnded \in BOOLEAN /\ seen \in Nat /\ seen <= printed /\ (stdoutEnded => closed /\ seen = printed)
  BY Numbers DEF TypeOK, EndInv
<1>4. exited' \in BOOLEAN
  BY <1>1, Zenon
<1>5. QED
  BY <1>1, <1>2, <1>3, <1>4, TheWaiter, DeliverKeeps

\* An answer that is not a line gives none away.
LEMMA NoLineGiven ==
    ASSUME ProcessInv, UNCHANGED <<main, handed, lines, seen, stdoutEnded>>,
           \/ header' = header
           \/ \E request, kind : header' = Finished(request, kind, 0) /\ kind # "line"
    PROVE  HeldInv'
<1>1. PICK base \in Nat : Taken <= base /\ Held(lines, base, seen, stdoutEnded)
  BY DEF HeldInv
<1>2. handed \in Nat
  BY Numbers
<1>3. Taken' = Taken \/ Taken' = handed
  BY <1>2, TakenNext
<1>4. Taken' <= base
  BY <1>1, <1>2, <1>3, TakenNext
<1>5. QED
  BY <1>1, <1>4 DEF HeldInv

\* The handler of a write message.
LEMMA DispatchWriteKeeps ==
    ASSUME ProcessInv, DispatchWrite
    PROVE  ProcessInv'
<1>1. /\ queue # <<>> /\ Head(queue).op = "write" /\ queue' = Tail(queue)
      /\ UNCHANGED <<streamVars, waiters, mainVars, stalls, peerVars, callVars>>
  BY DEF DispatchWrite
<1>2. queue \in Seq(Requests)
  BY DEF TypeOK, Requests
<1>3. Head(queue) \in Requests /\ Tail(queue) \in Seq(Requests)
  BY <1>1, <1>2, HeadTailProperties
<1>4. Head(queue).request \in 1 .. issued /\ Head(queue).request \in 0 .. issued /\ issued \in Nat
  BY <1>3, Numbers DEF Requests
<1>5. ~gaveUp => /\ main = "write" /\ ~header.ready /\ Tail(queue) = <<>> /\ Head(queue).request = issued
                 /\ waiters = <<>> /\ pending = {}
  <2>1. SUFFICES ASSUME ~gaveUp
                 PROVE  /\ main = "write" /\ ~header.ready /\ Tail(queue) = <<>>
                        /\ Head(queue).request = issued /\ waiters = <<>> /\ pending = {}
    OBVIOUS
  <2>2. Posted /\ main # "idle" /\ ~header.ready
    BY <1>1, <2>1 DEF RequestInv, Quiet, Waiting, Writing
  <2>3. queue = <<[op |-> main, request |-> issued]>> /\ waiters = <<>> /\ pending = {}
    BY <2>2 DEF Posted
  <2>4. Head(queue) = [op |-> main, request |-> issued] /\ Tail(queue) = <<>>
    BY <2>3
  <2>5. QED
    BY <1>1, <2>2, <2>3, <2>4
<1>6. CASE exited
  <2>1. header' = Finished(Head(queue).request, "error", 0) /\ pending' = pending
    BY <1>6 DEF DispatchWrite
  <2>2. header' \in Headers
    BY <1>4, <2>1, FinishTypes, Numbers DEF Kinds
  <2>3. TypeOK'
    BY <1>1, <1>3, <2>1, <2>2 DEF TypeOK, ReadTypeOK, Headers, Requests
  <2>4. EndInv' /\ HeldInv'
    BY <1>1, <2>1, NoLineGiven DEF EndInv
  <2>5. ~gaveUp => RequestInv' /\ HeaderInv'
    BY <1>1, <1>5, <2>1 DEF RequestInv, HeaderInv, Quiet, Answered, Finished
  <2>6. ~gaveUp => LinesInv'
    BY <1>1, <1>5, <2>1 DEF LinesInv, Taken, Answered
  <2>7. QED
    BY <1>1, <2>3, <2>4, <2>5, <2>6
<1>7. CASE ~exited
  <2>1. pending' = pending \cup {Head(queue).request} /\ header' = header
    BY <1>7 DEF DispatchWrite
  <2>2. pending' \subseteq 1 .. issued
    BY <1>4, <2>1 DEF TypeOK
  <2>3. TypeOK'
    BY <1>1, <1>3, <2>1, <2>2 DEF TypeOK, ReadTypeOK, Requests
  <2>4. EndInv' /\ HeldInv'
    BY <1>1, <2>1, NoLineGiven DEF EndInv
  <2>5. ~gaveUp => RequestInv' /\ HeaderInv'
    BY <1>1, <1>5, <2>1 DEF RequestInv, HeaderInv, Writing, Answered
  <2>6. ~gaveUp => LinesInv'
    BY <1>1, <1>5, <2>1 DEF LinesInv, Taken, Answered
  <2>7. QED
    BY <1>1, <2>3, <2>4, <2>5, <2>6
<1>8. QED
  BY <1>6, <1>7

\* The callback of a write.
LEMMA WriteDoneKeeps ==
    ASSUME ProcessInv, WriteDone
    PROVE  ProcessInv'
<1>1. PICK oldest \in pending, kind \in {"written", "error"} :
          /\ pending' = pending \ {oldest}
          /\ header' = Finished(oldest, kind, 0)
          /\ UNCHANGED <<queue, streamVars, waiters, mainVars, stalls, peerVars, callVars>>
  BY DEF WriteDone
<1>2. oldest \in 0 .. issued /\ pending' \subseteq 1 .. issued
  BY <1>1, Numbers DEF TypeOK
<1>3. header' \in Headers
  BY <1>1, <1>2, FinishTypes, Numbers DEF Kinds
<1>4. TypeOK'
  BY <1>1, <1>2, <1>3 DEF TypeOK, ReadTypeOK, Headers
<1>5. EndInv' /\ HeldInv'
  BY <1>1, NoLineGiven DEF EndInv
<1>6. ~gaveUp => Writing /\ ~header.ready
  BY <1>1 DEF RequestInv, Quiet, Posted, Waiting, Writing, TypeOK
<1>7. ~gaveUp => RequestInv' /\ HeaderInv'
  BY <1>1, <1>6 DEF RequestInv, HeaderInv, Quiet, Writing, Answered, Finished
<1>8. ~gaveUp => LinesInv'
  BY <1>1, <1>6 DEF LinesInv, Taken, Answered, Writing
<1>9. QED
  BY <1>1, <1>4, <1>5, <1>7, <1>8

\* The timer of a read.
LEMMA TimerKeeps ==
    ASSUME ProcessInv, TimerFires
    PROVE  ProcessInv'
<1>1. /\ waiters # <<>> /\ Head(waiters).left = 0 /\ waiters' = Tail(waiters)
      /\ header' = Finished(Head(waiters).request, "timeout", 0)
      /\ UNCHANGED <<queue, streamVars, pending, mainVars, stalls, peerVars, callVars>>
  BY DEF TimerFires, TimerDue, Withdraw
<1>2. waiters \in Seq(Waiters)
  BY DEF TypeOK, Waiters
<1>3. /\ Head(waiters) \in Waiters /\ Tail(waiters) \in Seq(Waiters)
      /\ Len(Tail(waiters)) = Len(waiters) - 1
  BY <1>1, <1>2, HeadTailProperties
<1>4. Head(waiters).request \in 0 .. issued
  BY <1>3, Numbers DEF Waiters
<1>5. header' \in Headers
  BY <1>1, <1>4, FinishTypes, Numbers DEF Kinds
<1>6. TypeOK'
  BY <1>1, <1>3, <1>5 DEF TypeOK, ReadTypeOK, Headers, Waiters
<1>7. EndInv' /\ HeldInv'
  BY <1>1, NoLineGiven DEF EndInv
<1>8. ~gaveUp => /\ main = "read" /\ ~header.ready /\ queue = <<>> /\ pending = {}
                 /\ Head(waiters).request = issued /\ Tail(waiters) = <<>> /\ elapsed >= Timeout
  <2>1. SUFFICES ASSUME ~gaveUp
                 PROVE  /\ main = "read" /\ ~header.ready /\ queue = <<>> /\ pending = {}
                        /\ Head(waiters).request = issued /\ Tail(waiters) = <<>>
                        /\ elapsed >= Timeout
    OBVIOUS
  <2>2. /\ main = "read" /\ ~header.ready /\ queue = <<>> /\ pending = {}
        /\ Len(waiters) = 1 /\ waiters[1].request = issued
        /\ elapsed + waiters[1].left >= Timeout
    BY <1>1, <2>1, TheWaiter
  <2>3. Head(waiters) = waiters[1]
    BY <1>1, <1>2
  <2>4. Len(Tail(waiters)) = 0
    BY <1>3, <2>2
  <2>5. Tail(waiters) = <<>>
    BY <1>3, <2>4, EmptyLen
  <2>6. waiters[1].left = 0
    BY <1>1, <2>3
  <2>7. elapsed >= Timeout
    BY <2>2, <2>6, Numbers
  <2>8. QED
    BY <2>2, <2>3, <2>5, <2>7
<1>9. ~gaveUp => RequestInv' /\ HeaderInv'
  BY <1>1, <1>8, PlainAnswer DEF RequestInv, HeaderInv, Quiet
<1>10. ~gaveUp => LinesInv'
  BY <1>1, <1>8, PlainAnswer DEF LinesInv, Taken, Answered
<1>11. QED
  BY <1>1, <1>6, <1>7, <1>9, <1>10

\* The child prints, closes its stdout, exits.
LEMMA ChildKeeps ==
    ASSUME ProcessInv, Child \/ ChildExits
    PROVE  ProcessInv'
<1>1. CASE Child
  <2>1. /\ printed' \in printed .. MaxLines /\ (closed => printed' = printed /\ closed' = closed)
        /\ UNCHANGED <<gone, callVars, jsVars>>
    BY <1>1, Numbers DEF Child, Peer, PrintPart, PrintLine, Close
  <2>2. partial' \in BOOLEAN /\ closed' \in BOOLEAN
    BY <1>1, Zenon DEF Child, Peer, PrintPart, PrintLine, Close, TypeOK, ReadTypeOK
  <2>3. printed' \in 0 .. MaxLines /\ seen' \in 0 .. printed'
    BY <2>1, Numbers
  <2>4. TypeOK'
    BY <2>1, <2>2, <2>3 DEF TypeOK, ReadTypeOK
  <2>5. EndInv' /\ HeldInv'
    BY <2>1 DEF EndInv, HeldInv, Taken, Answered
  <2>6. ~gaveUp => RequestInv' /\ HeaderInv' /\ LinesInv'
    BY <2>1 DEF RequestInv, Quiet, Posted, Waiting, Writing, HeaderInv, LinesInv, Taken, Answered
  <2>7. QED
    BY <2>1, <2>4, <2>5, <2>6
<1>2. CASE ChildExits
  <2>1. gone' = TRUE /\ (closed' = closed \/ closed' = TRUE)
        /\ UNCHANGED <<printed, partial, callVars, jsVars>>
    BY <1>2 DEF ChildExits, Exit
  <2>2. closed' \in BOOLEAN /\ gone' \in BOOLEAN
    BY <2>1, Zenon DEF TypeOK, ReadTypeOK
  <2>3. TypeOK'
    BY <2>1, <2>2 DEF TypeOK, ReadTypeOK
  <2>4. EndInv' /\ HeldInv'
    BY <2>1 DEF EndInv, HeldInv, Taken, Answered
  <2>5. ~gaveUp => RequestInv' /\ HeaderInv' /\ LinesInv'
    BY <2>1 DEF RequestInv, Quiet, Posted, Waiting, Writing, HeaderInv, LinesInv, Taken, Answered
  <2>6. QED
    BY <2>1, <2>3, <2>4, <2>5
<1>3. QED
  BY <1>1, <1>2

-----------------------------------------------------------------------------
\* The steps of callProc.

\* A new request is posted: its number is that of no other, and the header is down.
LEMMA PostKeeps ==
    ASSUME ProcessInv, NEW op \in {"read", "write"}, main = "idle", main' = op,
           issued' = issued + 1, header' = Down,
           issued + 1 <= calls' + MaxWrites, calls' <= issued + 1,
           queue' = Append(queue, [op |-> op, request |-> issued + 1]),
           calls' \in 0 .. MaxCalls, elapsed' \in Nat, reading' \in BOOLEAN,
           reading' <=> op = "read",
           answer' \in [kind : Kinds, line : 0 .. MaxLines], waited' \in 0 .. WriteTimeout,
           UNCHANGED <<handed, punctual, peerVars, gaveUp, streamVars, waiters, pending, stalls>>
    PROVE  ProcessInv'
<1>1. issued' \in 0 .. MaxCalls + MaxWrites
  BY Numbers
<1>2. 1 .. issued \subseteq 1 .. issued' /\ issued' \in 1 .. issued' /\ 0 \in 0 .. issued'
  BY Numbers
<1>3. header' \in Headers'
  <2>1. FALSE \in BOOLEAN
    OBVIOUS
  <2>2. 0 \in 0 .. issued' /\ 0 \in 0 .. MaxLines /\ "none" \in Kinds \cup {"written"}
    BY <1>2, Numbers DEF Kinds
  <2>3. [ready |-> FALSE, request |-> 0, kind |-> "none", line |-> 0]
            \in [ready : BOOLEAN, request : 0 .. issued', kind : Kinds \cup {"written"}, line : 0 .. MaxLines]
    BY <2>1, <2>2, Zenon
  <2>4. QED
    BY <2>3 DEF Down, Headers, Kinds
<1>4. queue' \in Seq(Requests')
  <2>1. [op |-> op, request |-> issued + 1] \in Requests'
    BY <1>2 DEF Requests
  <2>2. Requests \subseteq Requests'
    BY <1>2 DEF Requests
  <2>3. queue \in Seq(Requests)
    BY DEF TypeOK, Requests
  <2>4. queue \in Seq(Requests')
    BY <2>2, <2>3
  <2>5. QED
    BY <2>1, <2>4, AppendProperties
<1>5. waiters' \in Seq(Waiters')
  <2>1. Waiters \subseteq Waiters'
    BY <1>2 DEF Waiters
  <2>2. waiters \in Seq(Waiters)
    BY DEF TypeOK, Waiters
  <2>3. waiters \in Seq(Waiters')
    BY <2>1, <2>2
  <2>4. QED
    BY <2>3
<1>6. pending' \subseteq 1 .. issued'
  BY <1>2 DEF TypeOK
<1>7. TypeOK'
  BY <1>1, <1>3, <1>4, <1>5, <1>6 DEF TypeOK, ReadTypeOK, Headers, Requests, Waiters
<1>8. EndInv'
  BY DEF EndInv
<1>9. Taken = handed /\ Taken' = handed
  BY DEF Taken, Answered, Down
<1>10. HeldInv'
  BY <1>9 DEF HeldInv
<1>11. ~gaveUp => RequestInv'
  <2>1. ~gaveUp => queue = <<>> /\ waiters = <<>> /\ pending = {}
    BY DEF RequestInv, Quiet
  <2>2. ~gaveUp => queue' = <<[op |-> main', request |-> issued']>>
    BY <2>1
  <2>3. QED
    BY <2>1, <2>2 DEF RequestInv, Posted, Down
<1>12. ~gaveUp => HeaderInv' /\ LinesInv'
  BY <1>9 DEF HeaderInv, LinesInv, Answered, Down
<1>13. QED
  BY <1>7, <1>8, <1>10, <1>11, <1>12

\* callProc posts a read or a write.
LEMMA CallKeeps ==
    ASSUME ProcessInv, CallRead \/ CallWrite
    PROVE  ProcessInv'
<1>1. CASE CallRead
  <2>1. /\ ~reading /\ calls < MaxCalls /\ calls' = calls + 1 /\ reading' = TRUE
        /\ elapsed' = 0 /\ answer' = NoAnswer
        /\ main = "idle" /\ main' = "read" /\ issued' = issued + 1 /\ header' = Down
        /\ queue' = Append(queue, [op |-> "read", request |-> issued + 1])
        /\ UNCHANGED <<handed, punctual, peerVars, waited, gaveUp, streamVars, waiters, pending, stalls>>
    BY <1>1 DEF CallRead, BeginCall, Lowered
  <2>2. calls' \in 0 .. MaxCalls /\ issued + 1 <= calls' + MaxWrites /\ calls' <= issued + 1
        /\ elapsed' \in Nat
    BY <2>1, Numbers DEF EndInv
  <2>3. reading' \in BOOLEAN
    BY <2>1, Zenon
  <2>4. answer' \in [kind : Kinds, line : 0 .. MaxLines]
    BY <2>1, Numbers DEF NoAnswer, Kinds
  <2>5. waited' \in 0 .. WriteTimeout
    BY <2>1 DEF TypeOK
  <2>6. QED
    BY <2>1, <2>2, <2>3, <2>4, <2>5, PostKeeps
<1>2. CASE CallWrite
  <2>1. /\ issued - calls < MaxWrites /\ waited' = 0
        /\ main = "idle" /\ main' = "write" /\ issued' = issued + 1 /\ header' = Down
        /\ queue' = Append(queue, [op |-> "write", request |-> issued + 1])
        /\ UNCHANGED <<callVars, peerVars, gaveUp, streamVars, waiters, pending, stalls>>
    BY <1>2 DEF CallWrite, Lowered
  <2>2. calls' \in 0 .. MaxCalls /\ issued + 1 <= calls' + MaxWrites /\ calls' <= issued + 1
        /\ elapsed' \in Nat /\ waited' \in 0 .. WriteTimeout
    BY <2>1, Numbers, JsProcessAssumption DEF EndInv, TypeOK, ReadTypeOK
  <2>3. reading' \in BOOLEAN /\ answer' \in [kind : Kinds, line : 0 .. MaxLines]
    BY <2>1 DEF TypeOK, ReadTypeOK
  <2>4. ~reading' /\ UNCHANGED <<handed, punctual>>
    BY <2>1 DEF EndInv
  <2>5. QED
    BY <2>1, <2>2, <2>3, <2>4, PostKeeps
<1>3. QED
  BY <1>1, <1>2

\* callProc returns with what the header says, or gives up.
LEMMA MainKeeps ==
    ASSUME ProcessInv, Main
    PROVE  ProcessInv'
<1> USE DEF ReturnRead, ReturnWrite, GiveUpRead, GiveUpWrite
<1>1. header \in Headers /\ handed \in Nat
  BY Numbers DEF TypeOK, Headers
<1>2. CASE ReturnRead /\ (header.kind = "line" \/ (header.kind = "error" /\ header.line # 0))
  <2>1. /\ Answered /\ reading' = FALSE /\ handed' = handed + 1 /\ main' = "idle"
        /\ answer' = [kind |-> header.kind, line |-> header.line]
        /\ UNCHANGED <<calls, elapsed, punctual, peerVars, issued, waited, gaveUp, header, workerVars, stalls>>
    BY <1>2 DEF AnswerLine, Refused, Answered
  <2>2. Taken = handed + 1 /\ Taken' = handed'
    BY <1>2, <2>1 DEF Taken, Answered
  <2>3. HeldInv'
    BY <2>1, <2>2 DEF HeldInv
  <2>4. handed' \in 0 .. MaxLines
    <3>1. PICK base \in Nat : Taken <= base /\ base <= seen
      BY DEF HeldInv, Held
    <3>2. QED
      BY <1>1, <2>1, <2>2, <3>1, Numbers
  <2>5. answer' \in [kind : Kinds, line : 0 .. MaxLines]
    BY <1>1, <1>2, <2>1 DEF Headers, Kinds
  <2>6. reading' \in BOOLEAN
    BY <2>1, Zenon
  <2>7. TypeOK'
    BY <2>1, <2>4, <2>5, <2>6 DEF TypeOK, ReadTypeOK
  <2>8. EndInv'
    BY <2>1 DEF EndInv
  <2>9. ~gaveUp => RequestInv' /\ HeaderInv' /\ LinesInv'
    BY <2>1, <2>2 DEF RequestInv, Quiet, HeaderInv, LinesInv, Answered
  <2>10. QED
    BY <2>1, <2>3, <2>7, <2>8, <2>9
<1>3. CASE \/ /\ ReturnRead
              /\ header.kind # "line" /\ ~(header.kind = "error" /\ header.line # 0)
           \/ ReturnWrite \/ GiveUpRead \/ GiveUpWrite
  <2>1. /\ main # "idle" /\ main' = "idle" /\ (~gaveUp' => ~gaveUp /\ header.ready)
        /\ UNCHANGED <<handed, calls, elapsed, punctual, peerVars, issued, waited, header, workerVars, stalls>>
    BY <1>3 DEF Answer
  <2>2. (reading' <=> main' = "read") /\ reading' \in BOOLEAN
    <3>1. CASE main = "read"
      <4>1. reading' = FALSE
        BY <1>3, <3>1 DEF Answer
      <4>2. QED
        BY <2>1, <4>1, Zenon
    <3>2. CASE main = "write"
      <4>1. reading' = reading
        BY <1>3, <3>2
      <4>2. QED
        BY <2>1, <3>2, <4>1 DEF EndInv, TypeOK, ReadTypeOK
    <3>3. QED
      BY <2>1, <3>1, <3>2 DEF TypeOK
  <2>3. answer' \in [kind : Kinds, line : 0 .. MaxLines]
    <3>1. CASE ReturnRead
      <4>0. /\ main = "read" /\ header.kind # "line"
            /\ ~(header.kind = "error" /\ header.line # 0)
        BY <1>3, <3>1
      <4>1. PICK kind \in Kinds : answer' = [kind |-> kind, line |-> 0]
        BY <1>1, <3>1, <4>0 DEF Answer, Headers, Kinds
      <4>2. QED
        BY <4>1, AnswerTypes, Numbers
    <3>2. CASE GiveUpRead
      BY <3>2, Numbers DEF Answer, Kinds
    <3>3. CASE ReturnWrite \/ GiveUpWrite
      BY <3>3 DEF TypeOK, ReadTypeOK
    <3>4. QED
      BY <1>3, <3>1, <3>2, <3>3
  <2>4. gaveUp' \in BOOLEAN
    BY <1>3, Zenon DEF TypeOK
  <2>5. TypeOK'
    BY <2>1, <2>2, <2>3, <2>4 DEF TypeOK, ReadTypeOK
  <2>6. EndInv'
    BY <2>1, <2>2 DEF EndInv
  <2>7. Taken' = handed
    BY <2>1 DEF Taken, Answered
  <2>8. HeldInv'
    <3>1. PICK base \in Nat : Taken <= base /\ Held(lines, base, seen, stdoutEnded)
      BY DEF HeldInv
    <3>2. handed <= base
      BY <1>1, <3>1 DEF Taken
    <3>3. QED
      BY <2>1, <2>7, <3>1, <3>2 DEF HeldInv
  <2>9. ~gaveUp' => RequestInv' /\ HeaderInv'
    BY <2>1 DEF RequestInv, Quiet, HeaderInv, Answered
  <2>10. ~gaveUp' => LinesInv'
    <3>1. ~gaveUp' => Taken = handed
      BY <1>3, <2>1 DEF Taken, Answered
    <3>2. QED
      BY <2>1, <2>7, <3>1, Zenon DEF LinesInv
  <2>11. QED
    BY <2>5, <2>6, <2>8, <2>9, <2>10
<1>4. QED
  BY <1>2, <1>3 DEF Main

-----------------------------------------------------------------------------
\* Time.

\* The timers run, and no waiter goes.
LEMMA AgedWaiters ==
    ASSUME TypeOK
    PROVE  /\ Aged \in Seq(Waiters) /\ Len(Aged) = Len(waiters)
           /\ \A i \in 1 .. Len(waiters) :
                 /\ Aged[i].request = waiters[i].request
                 /\ Aged[i].left + 1 >= waiters[i].left
<1>1. PICK n \in Nat : n = Len(waiters)
  BY DEF TypeOK
<1>2. waiters \in [1 .. n -> Waiters]
  <2>1. waiters \in Seq(Waiters)
    BY DEF TypeOK, Waiters
  <2>2. QED
    BY <1>1, <2>1, LenProperties
<1>3. ASSUME NEW i \in 1 .. n
      PROVE  /\ Aged[i] \in Waiters
             /\ Aged[i].request = waiters[i].request
             /\ Aged[i].left + 1 >= waiters[i].left
  <2>1. waiters[i] \in [request : 1 .. issued, left : 0 .. Timeout]
    BY <1>2 DEF Waiters
  <2>2. Aged[i] = [waiters[i] EXCEPT !.left = IF @ = 0 THEN 0 ELSE @ - 1]
    BY <1>2 DEF Aged
  <2>3. waiters[i].left \in 0 .. Timeout /\ Timeout \in Nat
    BY <2>1, Numbers
  <2>4. (IF waiters[i].left = 0 THEN 0 ELSE waiters[i].left - 1) \in 0 .. Timeout
    BY <2>3
  <2>5. Aged[i] \in Waiters
    BY <2>1, <2>2, <2>4 DEF Waiters
  <2>6. Aged[i].request = waiters[i].request
    BY <2>1, <2>2
  <2>7. Aged[i].left = IF waiters[i].left = 0 THEN 0 ELSE waiters[i].left - 1
    BY <2>1, <2>2
  <2>8. QED
    BY <2>3, <2>5, <2>6, <2>7
<1>4. DOMAIN Aged = 1 .. n
  BY <1>2 DEF Aged
<1>5. Aged \in [1 .. n -> Waiters]
  <2>1. Aged = [i \in 1 .. n |-> Aged[i]]
    BY <1>2 DEF Aged
  <2>2. QED
    BY <1>3, <2>1
<1>6. Aged \in Seq(Waiters) /\ Len(Aged) = n
  BY <1>4, <1>5, SeqDef
<1>7. QED
  BY <1>1, <1>3, <1>6

\* A tick of the clock: that of the read under way goes with the timer of its waiter.
LEMMA TimeKeeps ==
    ASSUME ProcessInv, TimePasses
    PROVE  ProcessInv'
<1>1. /\ waiters' = Aged
      /\ UNCHANGED <<main, issued, gaveUp, header, queue, streamVars, pending, stalls>>
      /\ UNCHANGED <<peerVars, handed, calls, reading, answer, punctual>>
  BY DEF TimePasses, Tick
<1>2. /\ elapsed' \in Nat /\ elapsed' >= elapsed /\ waited' \in 0 .. WriteTimeout
      /\ main = "read" => elapsed' = elapsed + 1
  <2>0. elapsed \in Nat /\ waited \in 0 .. WriteTimeout /\ WriteTimeout \in Nat
    BY Numbers, JsProcessAssumption DEF TypeOK
  <2>1. CASE Tick(Busy) /\ UNCHANGED waited
    BY <2>0, <2>1 DEF Tick
  <2>2. CASE main = "write" /\ waited < WriteTimeout /\ waited' = waited + 1 /\ UNCHANGED callVars
    BY <2>0, <2>2
  <2>3. QED
    BY <2>1, <2>2 DEF TimePasses
<1>3. /\ Aged \in Seq(Waiters) /\ Len(Aged) = Len(waiters)
      /\ \A i \in 1 .. Len(waiters) :
            /\ Aged[i].request = waiters[i].request
            /\ Aged[i].left + 1 >= waiters[i].left
  BY AgedWaiters
<1>4. waiters \in Seq(Waiters)
  BY DEF TypeOK, Waiters
<1>5. waiters = <<>> <=> waiters' = <<>>
  BY <1>1, <1>3, <1>4, EmptyLen
<1>6. TypeOK'
  BY <1>1, <1>2, <1>3 DEF TypeOK, ReadTypeOK, Waiters
<1>7. EndInv'
  BY <1>1, <1>5 DEF EndInv
<1>8. HeldInv' /\ Taken' = Taken
  BY <1>1 DEF HeldInv, Taken, Answered
<1>9. ASSUME Waiting PROVE Waiting'
  <2>1. 1 \in 1 .. Len(waiters) /\ main = "read" /\ elapsed' = elapsed + 1
    BY <1>2, <1>9 DEF Waiting
  <2>2. /\ Aged[1].request = waiters[1].request /\ Aged[1].left + 1 >= waiters[1].left
        /\ elapsed + waiters[1].left >= Timeout
    BY <1>3, <1>9, <2>1 DEF Waiting
  <2>3. Aged[1] \in Waiters /\ waiters[1] \in Waiters
    BY <1>3, <1>4, <2>1, ElementOfSeq
  <2>4. Aged[1].left \in Nat /\ waiters[1].left \in Nat
    BY <2>3, Numbers DEF Waiters
  <2>5. elapsed + 1 + Aged[1].left >= Timeout
    BY <2>2, <2>4, Numbers
  <2>6. QED
    BY <1>1, <1>3, <1>9, <2>1, <2>2, <2>5 DEF Waiting
<1>10. ~gaveUp => RequestInv'
  BY <1>1, <1>5, <1>9 DEF RequestInv, Quiet, Posted, Writing
<1>11. ~gaveUp => HeaderInv'
  <2>1. \A t \in Nat : t <= elapsed => t <= elapsed'
    BY <1>2, Numbers
  <2>2. elapsed >= Timeout => elapsed' >= Timeout
    BY <2>1, Numbers
  <2>3. QED
    BY <1>1, <2>2 DEF HeaderInv, Answered
<1>12. ~gaveUp => LinesInv'
  BY <1>1, <1>8 DEF LinesInv
<1>13. QED
  BY <1>1, <1>6, <1>7, <1>8, <1>10, <1>11, <1>12

-----------------------------------------------------------------------------
\* The theorems.

\* Before the first request.
LEMMA ProcessBegins == Init => ProcessInv
<1> SUFFICES ASSUME Init PROVE ProcessInv
  OBVIOUS
<1>1. /\ printed = 0 /\ handed = 0 /\ calls = 0 /\ elapsed = 0 /\ answer = NoAnswer
      /\ main = "idle" /\ issued = 0 /\ waited = 0 /\ queue = <<>> /\ header = Down
      /\ lines = <<>> /\ seen = 0 /\ waiters = <<>> /\ pending = {}
      /\ ~reading /\ ~stdoutEnded /\ ~exited
  BY DEF Init, ReadInit
<1>2. /\ partial \in BOOLEAN /\ closed \in BOOLEAN /\ gone \in BOOLEAN /\ reading \in BOOLEAN
      /\ punctual \in BOOLEAN /\ gaveUp \in BOOLEAN /\ stdoutEnded \in BOOLEAN
      /\ exited \in BOOLEAN /\ failed \in BOOLEAN /\ stalls \in BOOLEAN
  BY Zenon DEF Init, ReadInit
<1>3. /\ 0 \in 0 .. MaxLines /\ 0 \in 0 .. MaxCalls /\ 0 \in 0 .. MaxCalls + MaxWrites
      /\ 0 \in 0 .. WriteTimeout /\ 0 \in Nat /\ 0 \in 0 .. 0
  BY ReadCallAssumption, JsProcessAssumption
<1>4. NoAnswer \in [kind : Kinds, line : 0 .. MaxLines]
  BY <1>3 DEF NoAnswer, Kinds
<1>5. Down \in [ready : BOOLEAN, request : 0 .. 0, kind : Kinds \cup {"written"}, line : 0 .. MaxLines]
  <2>1. FALSE \in BOOLEAN /\ "none" \in Kinds \cup {"written"}
    BY DEF Kinds
  <2>2. QED
    BY <1>3, <2>1, Zenon DEF Down
<1>6. /\ <<>> \in Seq([op : {"read", "write"}, request : 1 .. 0]) /\ <<>> \in Seq(0 .. MaxLines)
      /\ <<>> \in Seq([request : 1 .. 0, left : 0 .. Timeout])
  BY EmptySeq
<1>7. TypeOK
  BY <1>1, <1>2, <1>3, <1>4, <1>5, <1>6, Zenon DEF TypeOK, ReadTypeOK
<1>8. EndInv
  BY <1>1, JsProcessAssumption DEF EndInv
<1>9. Taken = 0
  BY <1>1 DEF Taken, Answered
<1>10. Held(<<>>, 0, 0, stdoutEnded)
  BY DEF Held
<1>11. HeldInv /\ LinesInv
  BY <1>1, <1>9, <1>10 DEF HeldInv, LinesInv
<1>12. RequestInv /\ HeaderInv
  BY <1>1 DEF RequestInv, Quiet, HeaderInv, Answered
<1>13. QED
  BY <1>7, <1>8, <1>11, <1>12

\* Whatever the child prints, however its output is cut into chunks, and whenever it
\* exits, requests and answers fit together until callProc gives up, and no line is
\* given away twice.
THEOREM ProcessInvariant == Spec => []ProcessInv
<1>1. ProcessInv /\ [Next]_vars => ProcessInv'
  <2> SUFFICES ASSUME ProcessInv, [Next]_vars PROVE ProcessInv'
    OBVIOUS
  <2>1. CASE UNCHANGED vars
    BY <2>1 DEF vars, TypeOK, ReadTypeOK, EndInv, HeldInv, RequestInv, Quiet, Posted,
                Waiting, Writing, HeaderInv, LinesInv, Taken, Answered
  <2>2. CASE Worker
    BY <2>2, DispatchReadKeeps, DispatchWriteKeeps, OnDataKeeps, OnEndKeeps, OnExitKeeps,
       TimerKeeps DEF Worker
  <2>3. QED
    BY <2>1, <2>2, ChildKeeps, WriteDoneKeeps, CallKeeps, MainKeeps, TimeKeeps DEF Next
<1>2. QED
  BY <1>1, ProcessBegins, PTL DEF Spec

\* Until callProc has once stopped waiting, an answer it takes is the answer to its
\* own request, although an answer does not say which request it is for (cli.js,
\* callProc).
THEOREM AnswersAreOwn == Spec => []OwnAnswers
<1>1. ProcessInv => OwnAnswers
  BY DEF RequestInv, OwnAnswers
<1>2. QED
  BY <1>1, ProcessInvariant, PTL

\* Every step of a read is a step of LineSource, until callProc has given up.
LEMMA PromiseStep ==
    ProcessInv /\ [Next]_vars => [gaveUp' \/ Promise!Next]_<<peerVars, callVars>>
<1> SUFFICES ASSUME ProcessInv, [Next]_vars, ~gaveUp'
             PROVE  Promise!Next \/ UNCHANGED <<peerVars, callVars>>
  OBVIOUS
<1>1. CASE Child
  BY <1>1 DEF Child, Peer, PrintPart, PrintLine, Close, Promise!Next, Promise!Peer,
              Promise!PrintPart, Promise!PrintLine, Promise!Close, Promise!callVars
<1>2. CASE ChildExits
  BY <1>2 DEF ChildExits, Exit, Promise!Next, Promise!Exit, Promise!callVars
<1>3. CASE Worker \/ WriteDone
  BY <1>3 DEF Worker, WriteDone, DispatchRead, DispatchWrite, OnData, OnEnd, OnExit, TimerFires
<1>4. CASE CallRead
  BY <1>4 DEF CallRead, BeginCall, NoAnswer, Promise!Next, Promise!BeginCall, Promise!NoAnswer,
              Promise!peerVars
<1>5. CASE CallWrite \/ ReturnWrite \/ GiveUpWrite
  BY <1>5 DEF CallWrite, ReturnWrite, GiveUpWrite
<1>6. CASE GiveUpRead
  BY <1>6 DEF GiveUpRead
<1>7. CASE ReturnRead
  <2>1. /\ reading /\ ~gaveUp /\ Answered /\ HeaderInv /\ LinesInv /\ handed \in Nat
    BY <1>7, Numbers DEF ReturnRead, EndInv, Answered
  <2>2. ASSUME header.kind = "line" \/ (header.kind = "error" /\ header.line # 0)
        PROVE  handed < printed
    <3>1. handed + 1 <= printed
      BY <2>1, <2>2, Numbers DEF LinesInv, Held, Taken
    <3>2. QED
      BY <2>1, <3>1, Numbers
  <2>3. CASE header.kind = "line"
    <3>1. AnswerLine(handed + 1) /\ handed + 1 \notin TooLong
      BY <1>7, <2>1, <2>3 DEF ReturnRead, HeaderInv
    <3>2. Promise!AnswerLine(handed + 1)
      BY <3>1 DEF AnswerLine, Promise!AnswerLine, Promise!peerVars
    <3>3. QED
      BY <2>1, <2>2, <2>3, <3>1, <3>2 DEF Promise!Next, Promise!Serve
  <2>4. CASE header.kind = "error" /\ header.line # 0
    <3>1. Refused(handed + 1) /\ handed + 1 \in TooLong
      BY <1>7, <2>1, <2>4 DEF ReturnRead, HeaderInv
    <3>2. Promise!Refused(handed + 1)
      BY <3>1 DEF Refused, Promise!Refused, Promise!peerVars
    <3>3. QED
      BY <2>1, <2>2, <2>4, <3>1, <3>2 DEF Promise!Next, Promise!Refuse
  <2>5. CASE header.kind = "timeout"
    <3>1. elapsed >= Timeout /\ Answer("timeout")
      BY <1>7, <2>1, <2>5 DEF ReturnRead, HeaderInv
    <3>2. QED
      BY <2>1, <3>1 DEF Answer, Promise!Answer, Promise!peerVars, Promise!Next, Promise!TimedOut
  <2>6. CASE header.kind = "eof"
    <3>1. closed /\ handed = printed /\ Answer("eof")
      BY <1>7, <2>1, <2>6 DEF ReturnRead, HeaderInv
    <3>2. QED
      BY <2>1, <3>1 DEF Answer, Promise!Answer, Promise!peerVars, Promise!Next, Promise!End, Promise!Drained
  <2>7. CASE header.kind = "error" /\ header.line = 0
    <3>1. closed /\ handed = printed /\ gone /\ Answer("error")
      BY <1>7, <2>1, <2>7 DEF ReturnRead, HeaderInv
    <3>2. QED
      BY <2>1, <3>1
      DEF Answer, Promise!Answer, Promise!peerVars, Promise!Next, Promise!Fail, Promise!Drained
  <2>8. QED
    BY <2>1, <2>3, <2>4, <2>5, <2>6, <2>7 DEF HeaderInv
<1>8. CASE TimePasses
  BY <1>8 DEF TimePasses, Tick, Promise!Next, Promise!Tick, Promise!peerVars
<1>9. CASE UNCHANGED vars
  BY <1>9 DEF vars
<1>10. QED
  BY <1>1, <1>2, <1>3, <1>4, <1>5, <1>6, <1>7, <1>8, <1>9 DEF Next, Main

\* Until then the reads of a process binding are those of LineSource, whichever lines
\* exceed the payload: such a line is thrown away by the read it is due to, and by no
\* other (proc-host.cjs, finish and deliver).
THEOREM ReadsKeepPromise == Spec => LineSourceUntilGivenUp
<1>1. ProcessInv /\ [Next]_vars => [gaveUp' \/ Promise!Next]_<<peerVars, callVars>>
  BY PromiseStep
<1>2. QED
  BY <1>1, ProcessInvariant, PTL DEF Spec, LineSourceUntilGivenUp
=============================================================================
