---------------------------- MODULE MCHrtMain ----------------------------
(***************************************************************************)
(* Instances of HrtMain for TLC: up to two instances of a program with     *)
(* three tasks, on a machine with the priorities 1 to 3.                   *)
(***************************************************************************)
EXTENDS HrtMain

(* RT, refused, too low for any or for the second sub-thread, high enough, *)
(* and too high.                                                           *)
AllRequests == {-1, 0, 1, 2, 3, 4}
Low         == {2}

Shared == {"-i"}
Some   == {"-i", "-d", "-f 100", "--help"}
=============================================================================
