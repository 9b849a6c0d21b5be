----------------------------- MODULE MCBoundedRun -----------------------------
(***************************************************************************)
(* A bounded run with two bound processes, one of which ignores SIGTERM,   *)
(* input and output longer than their pipes, and exit rules with a code    *)
(* that is 0 modulo 256 and with the one timeout(1) uses.                  *)
(***************************************************************************)
EXTENDS BoundedRun

CONSTANTS shell, daemon

MCAsked == {{"metrics"}}
MCExitCode == {256, 124}
MCMaxPrinted == [s \in Stream |-> IF s = "stdout" THEN 2 ELSE 1]
=============================================================================
