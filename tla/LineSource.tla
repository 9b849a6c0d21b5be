------------------------------ MODULE LineSource ------------------------------
(***************************************************************************)
(* What a readable resource promises the run loop (docs/rfc-language.md,   *)
(* "read", and docs/host-api.md, Resources, as the hosts implement it): a  *)
(* read returns the next line, each line is returned once and in order, a  *)
(* line that comes after a timeout is there for the next read, and no read *)
(* gives up before its time unless the stream has ended.  Only a line that *)
(* does not fit the host is refused; the hosts differ in what becomes of   *)
(* it.                                                                     *)
(***************************************************************************)
EXTENDS ReadCall

Init == ReadInit

Serve ==
    /\ reading /\ handed < printed /\ handed + 1 \notin TooLong
    /\ AnswerLine(handed + 1)

TimedOut == reading /\ elapsed >= Timeout /\ Answer("timeout")

\* Every line has been returned, and no other will come.
Drained == closed /\ handed = printed

\* The process that served the lines has exited, and its descendants, which
\* still hold the stream, have printed no line in time.
Abandoned == gone /\ elapsed >= Timeout

End == reading /\ (Drained \/ Abandoned) /\ Answer("eof")

\* The next line does not fit the host: it stays where it is, and every later read
\* fails as well, or it is thrown away.
Refuse ==
    /\ reading /\ handed + 1 \in TooLong
    /\ \/ (handed < printed \/ partial) /\ Answer("error")
       \/ handed < printed /\ Refused(handed + 1)

\* The process has failed.
Fail == reading /\ gone /\ (Drained \/ Abandoned) /\ Answer("error")

Next ==
    \/ Peer \/ Exit
    \/ BeginCall \/ Serve \/ TimedOut \/ End \/ Refuse \/ Fail
    \/ Tick(FALSE)

Spec == Init /\ [][Next]_<<peerVars, callVars>>
=============================================================================
