-------------------------------- MODULE JsStdin --------------------------------
(***************************************************************************)
(* Standard input of the JavaScript CLI: js/src/stdin-host.cjs, a worker   *)
(* that reads file descriptor 0 and publishes one record at a time in      *)
(* shared memory, and readStdinLine of js/src/cli.js, which waits for the  *)
(* record, copies it and, when it is a line, releases it.  The two threads *)
(* meet in header[0] only: 0 is empty, 1 is a record.                      *)
(***************************************************************************)
EXTENDS ReadCall

VARIABLES
    worker,     \* "reading", "filling", "raising", "stopped"
    taken,      \* the complete lines the worker has read
    published,  \* the lines it has published
    verdict,    \* what it publishes: "line", or the "eof" or "error" it ends on
    full,       \* header[0]
    record,     \* the kind and the payload behind the header
    reader,     \* "idle", "looking", "empty", "asleep", "copied"
    copy        \* the record readStdinLine has copied

workerVars == <<worker, taken, published, verdict>>
readerVars == <<reader, copy>>
jsVars == <<workerVars, readerVars, full, record>>
vars == <<peerVars, callVars, jsVars>>

Init ==
    /\ ReadInit
    /\ worker = "reading" /\ taken = 0 /\ published = 0 /\ verdict = "line"
    /\ full = FALSE /\ record = NoAnswer
    /\ reader = "idle" /\ copy = NoAnswer

-----------------------------------------------------------------------------
\* The worker.

\* The line at the head of its buffer, complete or not, is too long.
Overlong == taken + 1 \in TooLong /\ (taken < printed \/ partial)

AtEnd == taken = printed /\ closed

CanRead == worker = "reading" /\ (taken < printed \/ Overlong \/ AtEnd)

\* readSync returned one chunk or more; a chunk may end in the middle of a line.
ReadChunk ==
    /\ CanRead /\ ~Overlong
    /\ \E upTo \in taken + 1 .. printed :
        /\ (taken + 1 .. upTo) \cap TooLong = {}
        /\ taken' = upTo
    /\ worker' = "filling"
    /\ UNCHANGED <<published, verdict, full, record, readerVars, peerVars, callVars>>

\* The last record: the line that exceeds the buffer, or the end of the stream,
\* with or without an unterminated line.
ReadLast ==
    /\ CanRead /\ (Overlong \/ AtEnd)
    /\ verdict' = IF Overlong THEN "error" ELSE "eof"
    /\ worker' = "filling"
    /\ UNCHANGED <<taken, published, full, record, readerVars, peerVars, callVars>>

\* publish: waits until the header is 0, then stores payload, length and kind.
Fill ==
    /\ worker = "filling" /\ ~full
    /\ record' = [kind |-> verdict,
                  line |-> IF verdict = "line" THEN published + 1 ELSE 0]
    /\ worker' = "raising"
    /\ UNCHANGED <<taken, published, verdict, full, readerVars, peerVars, callVars>>

\* Mutant: the lines left in the chunk are dropped.
Raise_OnePerChunk ==
    /\ worker = "raising"
    /\ full' = TRUE
    /\ published' = IF verdict = "line" THEN taken ELSE published
    /\ worker' = IF verdict # "line" THEN "stopped" ELSE "reading"
    /\ UNCHANGED <<taken, verdict, record, readerVars, peerVars, callVars>>

\* publish: header[0] = 1; then the next line of the buffer, or the next chunk.
Raise ==
    /\ worker = "raising"
    /\ full' = TRUE
    /\ published' = IF verdict = "line" THEN published + 1 ELSE published
    /\ worker' = IF verdict # "line" THEN "stopped"
                 ELSE IF published' < taken THEN "filling" ELSE "reading"
    /\ UNCHANGED <<taken, verdict, record, readerVars, peerVars, callVars>>

Worker == ReadChunk \/ ReadLast \/ Fill \/ Raise

-----------------------------------------------------------------------------
\* The main thread.

Call ==
    /\ BeginCall
    /\ reader' = "looking"
    /\ UNCHANGED <<workerVars, full, record, copy>>

\* The loop condition, and past it the copy of kind, length and text.
Look ==
    /\ reader = "looking"
    /\ reader' = IF full THEN "copied" ELSE "empty"
    /\ copy' = IF full THEN record ELSE copy
    /\ UNCHANGED <<workerVars, full, record, peerVars, callVars>>

OutOfTime == elapsed >= Timeout

GiveUp ==
    /\ reader = "empty" /\ OutOfTime
    /\ Answer("timeout")
    /\ reader' = "idle"
    /\ UNCHANGED <<workerVars, full, record, copy>>

\* Atomics.wait with the time that remains.
Sleep ==
    /\ reader = "empty" /\ ~OutOfTime
    /\ reader' = "asleep"
    /\ UNCHANGED <<workerVars, full, record, copy, peerVars, callVars>>

\* Mutant: only the time that remains wakes the reader.
Woken_ByTimer == reader = "asleep" /\ OutOfTime

\* Mutant: only the worker wakes the reader.
Woken_ByWorker == reader = "asleep" /\ full

Woken == reader = "asleep" /\ (full \/ OutOfTime)

Wake ==
    /\ Woken
    /\ reader' = "looking"
    /\ UNCHANGED <<workerVars, full, record, copy, peerVars, callVars>>

\* A line is released; the record of the end or of an error stays for good.
Return ==
    /\ reader = "copied"
    /\ IF copy.kind = "line"
       THEN AnswerLine(copy.line) /\ full' = FALSE
       ELSE Answer(copy.kind) /\ UNCHANGED full
    /\ reader' = "idle"
    /\ UNCHANGED <<workerVars, record, copy>>

Reader == Look \/ GiveUp \/ Sleep \/ Wake \/ Return

-----------------------------------------------------------------------------
Busy ==
    \/ CanRead
    \/ worker = "filling" /\ ~full
    \/ worker = "raising"
    \/ reader \in {"looking", "empty", "copied"}
    \/ Woken

TimePasses == Tick(Busy) /\ UNCHANGED jsVars

Next == (Peer /\ UNCHANGED jsVars) \/ Worker \/ Call \/ Reader \/ TimePasses

Spec == Init /\ [][Next]_vars

\* Both threads are scheduled and time goes on; the peer owes nothing.
FairSpec == Spec /\ WF_vars(Worker) /\ WF_vars(Reader) /\ WF_vars(TimePasses)
-----------------------------------------------------------------------------
\* The type invariant.
TypeOK ==
    /\ ReadTypeOK
    /\ worker \in {"reading", "filling", "raising", "stopped"}
    /\ taken \in 0 .. MaxLines /\ published \in 0 .. taken
    /\ verdict \in {"line", "eof", "error"}
    /\ full \in BOOLEAN
    /\ record \in [kind : Kinds, line : 0 .. MaxLines]
    /\ reader \in {"idle", "looking", "empty", "asleep", "copied"}
    /\ copy \in [kind : Kinds, line : 0 .. MaxLines]

\* The resource keeps the promise of LineSource.
Promise == INSTANCE LineSource WITH gone <- FALSE
ImplementsLineSource == Promise!Spec
=============================================================================
