--------------------------- MODULE MCTaskTiming ---------------------------
(***************************************************************************)
(* Instances of TaskTiming for TLC: two tasks with periods 2 and 6, and a  *)
(* phase of 50 percent.                                                    *)
(***************************************************************************)
EXTENDS TaskTiming

TwoRates == [i \in Task |-> IF i = 0 THEN 2 ELSE 6]
=============================================================================
