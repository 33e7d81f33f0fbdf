---------------------------- MODULE MCEcatTasks ----------------------------
(***************************************************************************)
(* An instance of EcatTasks for TLC: two tasks and two masters. The slow  *)
(* task has two domains at the first master, where the fast one has one,   *)
(* and one at the second, of which it is the fastest.                      *)
(***************************************************************************)
EXTENDS EcatTasks

TwoMasters == <<1, 1, 1, 2>>
TwoTasks   == <<0, 1, 1, 1>>
FastSlow   == <<0, 1>>
=============================================================================
