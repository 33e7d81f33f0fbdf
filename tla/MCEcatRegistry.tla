-------------------------- MODULE MCEcatRegistry --------------------------
(***************************************************************************)
(* Instances of EcatRegistry for TLC: models with up to two blocks and two *)
(* slaves, in three places and with two rates.                             *)
(***************************************************************************)
EXTENDS EcatRegistry

CONSTANTS M1, M2, D1, D2

Rates == [t \in Tid |-> t + 1]

Ask(m, d, t, in, out, last) ==
  [master |-> m, domain |-> d, tid |-> t, input |-> in, output |-> out,
   last |-> last]

(* The calls of the block master_state, and of domain_state for one domain *)
(* of both directions, for one direction, and for one domain of each.      *)
OfBlock(m, d, t) ==
  { <<Ask(m, d, t, FALSE, FALSE, TRUE)>>,
    <<Ask(m, d, t, TRUE, TRUE, TRUE)>>,
    <<Ask(m, d, t, TRUE, FALSE, TRUE)>>,
    <<Ask(m, d, t, FALSE, TRUE, TRUE)>>,
    <<Ask(m, d, t, TRUE, FALSE, FALSE), Ask(m, d, t, FALSE, TRUE, TRUE)>> }

(* Two masters, and two domain ids on one of them. The first block is at   *)
(* the first place, as ids are compared with each other only: the second   *)
(* is at the same place, on another master, or has another id.             *)
Here   == <<M1, D1>>
Places == {Here, <<M2, D1>>, <<M1, D2>>}

BlocksAt(p) == UNION {OfBlock(p[1], p[2], t) : t \in Tid}
Blocks == UNION {BlocksAt(p) : p \in Places}

TwoBlocks == {<<>>} \cup BlocksAt(Here)
               \cup {b \o c : b \in BlocksAt(Here), c \in Blocks}

(* No PDO or two of one direction, and none or one of the other.           *)
Some == {s \in [master : Master, domain : Domain, tid : Tid,
                rxpdo : {0, 2}, txpdo : {0, 1}] :
           <<s.master, s.domain>> \in Places}
UpToTwo  == {<<>>} \cup {<<s>> : s \in Some} \cup {<<s, t>> : s, t \in Some}
=============================================================================
