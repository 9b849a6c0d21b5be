-------------------------------- MODULE Ledger --------------------------------
(***************************************************************************)
(* What publishing promises the readers of the repository: the figures in  *)
(* the commit that is checked out are those of one version of the          *)
(* programs, all of them, and they change in one step.                     *)
(***************************************************************************)
EXTENDS Naturals

CONSTANTS
    Solution,  \* the solutions that are measured
    Version,   \* the versions of the programs
    Cost(_, _) \* Cost(v, s): what solution s costs in version v

VARIABLES
    version,   \* the version of the programs in the last commit
    recorded   \* the figures in the last commit

vars == <<version, recorded>>

Figures(v) == [s \in Solution |-> Cost(v, s)]

Init ==
    /\ version \in Version
    /\ recorded = Figures(version)

Develop ==
    /\ version' \in Version
    /\ UNCHANGED recorded

Record ==
    /\ recorded' = Figures(version)
    /\ UNCHANGED version

Next == Develop \/ Record

Spec == Init /\ [][Next]_vars
=============================================================================
