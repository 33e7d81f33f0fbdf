---------------------------- MODULE MCEcatCycle ----------------------------
(***************************************************************************)
(* An instance of EcatCycle for TLC. With a fastest decimation of 4, domain*)
(* 4 equals it, 8 is a multiple, 6 and 7 fit only just, and 5 does not fit.*)
(***************************************************************************)
EXTENDS EcatCycle

MCDomains    == {4, 5, 6, 7, 8}
MCDecimation == [d \in Domains |-> d]
=============================================================================
