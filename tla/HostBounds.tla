------------------------------ MODULE HostBounds ------------------------------
(***************************************************************************)
(* The constants of the two process bindings beyond those of ReadCall.     *)
(***************************************************************************)
EXTENDS Naturals

CONSTANTS
    OutCap,        \* Go: the capacity of outCh, 1024 in the code
    MaxWrites,     \* bound, JavaScript: the writes
    Grace,         \* JavaScript: what callProc adds to the timeout of a read, 1 s in the code
    WriteTimeout   \* JavaScript: how long it waits for a write, 10 s in the code

ASSUME OutCapAssumption == OutCap \in Nat \ {0}

ASSUME JsProcessAssumption ==
    /\ MaxWrites \in Nat
    /\ Grace \in Nat /\ WriteTimeout \in Nat \ {0}
=============================================================================
