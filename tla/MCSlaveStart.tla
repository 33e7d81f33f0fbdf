----------------------------- MODULE MCSlaveStart ---------------------------
(***************************************************************************)
(* Instances of EcSlave and SlaveStart for TLC.                            *)
(***************************************************************************)
EXTENDS SlaveStart

Id(id) == [kind |-> "number", hundredths |-> 100 * id]
NoneType == [kind |-> "none"]

Sdo(sub, t, v, n) == [subindex |-> sub, type |-> t, value |-> v, n |-> n]
GoodSdo == { Sdo(1, Id(-16), "number", 1), Sdo(0, Id(8), "number", 1),
             Sdo(2, [kind |-> "number", hundredths |-> 64], "number", 1),
             Sdo(0, NoneType, "string", 2), Sdo(-1, NoneType, "number", 3),
             Sdo(3, [kind |-> "name", id |-> 1008], "string", 2) }
BadSdo == { Sdo(-1, Id(16), "number", 1), Sdo(256, Id(16), "number", 1),
            Sdo(1, Id(24), "number", 1), Sdo(1, Id(16), "number", 2),
            Sdo(1, Id(16), "string", 1), Sdo(1, NoneType, "other", 1),
            Sdo(1, NoneType, "number", 0), Sdo(1, Id(9), "number", 1) }
SomeSdo == {<<>>} \cup {<<r>> : r \in GoodSdo \cup BadSdo}
             \cup {<<Sdo(-1, NoneType, "number", 3), r>> : r \in GoodSdo}

Soe(v, n) == [value |-> v, n |-> n]
SomeSoe == {<<>>, <<Soe("number", 2)>>, <<Soe("string", 3)>>,
            <<Soe("number", 1), Soe("string", 1)>>, <<Soe("other", 1)>>,
            <<Soe("number", 0)>>}

Dc(n, a) == [n |-> n, active |-> a]
SomeDc == {Dc(0, FALSE), Dc(10, FALSE), Dc(1, TRUE), Dc(10, TRUE),
           Dc(2, FALSE)}

E(bits) == [padding |-> FALSE, bits |-> bits]
Gap(bits) == [padding |-> TRUE, bits |-> bits]
Sm(input, pdos) == [input |-> input, pdo |-> pdos]
SomeSm == {<<>>,
           <<Sm(FALSE, <<<<E(16), E(48)>>>>),
             Sm(TRUE, <<<<E(4), Gap(4), E(32)>>>>)>>,
           <<Sm(TRUE, <<<<>>, <<E(3), E(9)>>>>), Sm(FALSE, <<>>)>>}

Param(m, n) == [mask |-> m, n |-> n]
SomeParams == {<<>>, <<Param(-1, 1)>>, <<Param(6, 2)>>}

Empty == [form |-> "empty"]
Vector(n) == [form |-> "vector", n |-> n]
Name(n) == [form |-> "named", n |-> n]
Ref(i, e) == [form |-> "reference", to |-> i, element |-> e]

OfRows(rows, t, big, scale, g, o, f) ==
  [pdo |-> "rows", rows |-> rows, type |-> t, bigEndian |-> big,
   fullScale |-> scale, gain |-> g, offset |-> o, filter |-> f]
Plain(rows, t) == OfRows(rows, t, FALSE, FALSE, Empty, Empty, Empty)

Scalings == { <<Vector(1), Empty, Empty>>, <<Name(1), Name(2), Empty>>,
              <<Empty, Name(0), Vector(0)>>, <<Ref(0, -1), Empty, Name(1)>>,
              <<Vector(2), Ref(0, 1), Vector(1)>>,
              <<Empty, Empty, Ref(0, -1)>>,
              <<[form |-> "invalid"], Empty, Empty>> }
Two == <<<<0, 0, 0, 0>>, <<0, 0, 0, 1>>>>
One == <<<<1, 0, 2, 0>>>>
SomePorts ==
  { Plain(Two, Id(1008)), Plain(One, Id(2032)), Plain(One, Id(1001)),
    Plain(Two, Id(1016)), Plain(<<<<1, 0, 1, 0>>>>, Id(1001)),
    Plain(One, NoneType), Plain(<<<<2, 0, 0, 0>>>>, Id(1001)),
    Plain(<<<<0, 1, 1, 2>>>>, Id(1003)), Plain(<<<<0, 1, 1, 1>>>>, Id(1003)),
    Plain(<<<<0, 1, 1, 2>>>>, Id(1004)),
    OfRows(One, Id(1032), TRUE, TRUE, Empty, Empty, Empty),
    [pdo |-> "raw", sm |-> 0, index |-> 1],
    [pdo |-> "raw", sm |-> 1, index |-> 0],
    [pdo |-> "raw", sm |-> 0, index |-> 0], [pdo |-> "invalid"],
    OfRows(<<<<0, 0, 1, 0>>, <<0, 0, 1, 1>>>>, Id(1024), TRUE, FALSE,
           Empty, Empty, Empty) }
  \cup {OfRows(Two, Id(1008), FALSE, FALSE, s[1], s[2], s[3]) : s \in Scalings}

SomeTypes == {"double", "uint8", "int32"}
=============================================================================
