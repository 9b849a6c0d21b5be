------------------------------- MODULE MCPublish -------------------------------
(***************************************************************************)
(* Two solutions on two hosts, and four versions: the second changes the   *)
(* cost of both solutions, the fourth that of one, and in the third the    *)
(* hosts differ.                                                           *)
(***************************************************************************)
EXTENDS Publish

MCOrder == <<"direct", "state">>
MCCost(v, s) == IF v = 2 \/ (v = 4 /\ s = "direct") THEN 2 ELSE 1
=============================================================================
