---------------------------- MODULE MCHrtTasks ----------------------------
(***************************************************************************)
(* Instances of HrtTasks for TLC. Clients are interchangeable, so runs     *)
(* that check no liveness property use symmetry.                           *)
(***************************************************************************)
EXTENDS HrtTasks, TLC

ClientSymmetry == Permutations(Writers) \cup Permutations(Readers)
=============================================================================
