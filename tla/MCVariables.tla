---------------------------- MODULE MCVariables ----------------------------
(***************************************************************************)
(* Models for Variables: each family varies what one property is about.    *)
(***************************************************************************)
EXTENDS Variables

Type(name, id, size, complex) ==
  [mwName |-> name, id |-> id, size |-> size, complex |-> complex,
   pointer |-> FALSE]

SomeTypes ==
  [real     |-> Type("real_T", "double", 8, FALSE),
   creal    |-> Type("creal_T", "double", 16, TRUE),
   creal32  |-> Type("creal32_T", "single", 8, TRUE),
   fixed    |-> Type("fixed_T", "unknown", 4, TRUE),
   address  |-> [Type("real_T", "double", 8, FALSE) EXCEPT !.pointer = TRUE],
   flat     |-> Type("FLAT", "struct", 32, FALSE),
   nested   |-> Type("NESTED", "struct", 56, FALSE),
   deep     |-> Type("DEEP", "struct", 32, FALSE),
   shifted  |-> Type("SHIFTED", "struct", 40, FALSE),
   opaque   |-> Type("OPAQUE", "struct", 4, FALSE)]

FieldOf(offset, id, size, complex, count, section) ==
  [offset |-> offset, id |-> id, size |-> size, complex |-> complex,
   count |-> count, next |-> section]

Flat == << FieldOf(0, "double", 8, FALSE, 2, 0),
           FieldOf(16, "single", 8, TRUE, 1, 0),
           FieldOf(24, "int16", 2, FALSE, 2, 0),
           FieldOf(28, "unknown", 4, FALSE, 1, 0) >>

SomeDescriptions ==
  [FLAT    |-> << Flat >>,
   NESTED  |-> << << FieldOf(0, "struct", 24, FALSE, 2, 2),
                     FieldOf(48, "int32", 4, FALSE, 2, 0) >>,
                  << FieldOf(0, "double", 16, TRUE, 1, 0),
                     FieldOf(16, "uint8", 1, FALSE, 8, 0) >> >>,
   DEEP    |-> << << FieldOf(0, "struct", 16, FALSE, 2, 3) >>,
                  << FieldOf(0, "int8", 1, FALSE, 4, 0) >>,
                  << FieldOf(0, "struct", 4, FALSE, 2, 2),
                     FieldOf(8, "single", 8, TRUE, 1, 0) >> >>,
   SHIFTED |-> << << FieldOf(0, "double", 8, FALSE, 1, 0),
                     FieldOf(8, "struct", 32, FALSE, 1, 2) >>,
                  Flat >>]

A == <<"model", "A">>
B == <<"model", "A", "B">>

SignalOf(block, name, port) ==
  [block |-> block, name |-> name, port |-> port, type |-> "real",
   orientation |-> "scalar", dims |-> <<1, 1>>, sampleTime |-> 1]

ParameterOf(block, name, type) ==
  [block |-> block, name |-> name, type |-> type,
   orientation |-> "scalar", dims |-> <<1, 1>>]

ST(tid, period) == [tid |-> tid, period |-> period]

Plain ==
  [mt |-> FALSE, tid01eq |-> FALSE, dilation |-> 1,
   sampleTimes |-> <<ST(0, 2)>>, signals |-> <<>>, params |-> <<>>,
   modelParams |-> <<>>]

(* Paths: up to three signals of two blocks, or of none.                   *)
Named == {SignalOf(b, n, p) : b \in {A, B, <<"model">>}, n \in {"", "x", "B"},
                            p \in {"1", "2"}}
Three == {SignalOf(b, n, p) : b \in {A, B}, n \in {"", "x"}, p \in {"1", "2", "3"}}
Paths == {[Plain EXCEPT !.signals = s] :
            s \in {<<a, b>> : a, b \in Named} \cup
                  {<<a, b, c>> : a, b, c \in Three}}

(* Types: two signals, a parameter and a model parameter of any type.      *)
TypeTables ==
  {[Plain EXCEPT
     !.signals = <<[SignalOf(A, "", "1") EXCEPT !.type = t],
                   [SignalOf(B, "", "1") EXCEPT !.type = u]>>,
     !.params = <<ParameterOf(A, "p", v), ParameterOf(<<"model">>, "q", "real"),
                  ParameterOf(B, "r", "real")>>,
     !.modelParams = <<ParameterOf(A, "s", v), ParameterOf(A, "t", t)>>] :
     t, u, v \in DOMAIN SomeTypes}

(* Shapes: every kind of array with up to three elements in a dimension.   *)
Shapes ==
  {[Plain EXCEPT !.signals = <<[SignalOf(A, "", "1") EXCEPT
      !.orientation = o, !.dims = d]>>] :
     <<o, d>> \in
       ({"scalar"} \X {<<1>>, <<1, 1>>}) \cup
       ({"vector"} \X {<<3>>, <<1, 3>>, <<3, 1>>}) \cup
       ({"row", "column"} \X {<<m, n>> : m, n \in 1 .. 3}) \cup
       ({"column"} \X {<<l, m, n>> : l, m, n \in 1 .. 3})}

(* Times: one task or several, a base rate that is continuous as well or   *)
(* not, constants, tables in any order.                                    *)
Rates ==
  { [eq |-> FALSE, times |-> <<ST(0, 2), ST(1, 4)>>],
    [eq |-> FALSE, times |-> <<ST(1, 6), ST(0, 2), ST(-1, 0)>>],
    [eq |-> FALSE, times |-> <<ST(2, 20), ST(0, 2), ST(1, 6)>>],
    [eq |-> TRUE,  times |-> <<ST(0, 0), ST(1, 2)>>],
    [eq |-> TRUE,  times |-> <<ST(2, 6), ST(1, 2), ST(0, 0), ST(-1, 0)>>],
    [eq |-> FALSE, times |-> <<ST(0, 0)>>] }

Timed(dilations) ==
  UNION {{[Plain EXCEPT !.mt = mt, !.tid01eq = r.eq, !.dilation = d,
             !.sampleTimes = r.times,
             !.signals = <<[SignalOf(A, "", "1") EXCEPT !.sampleTime = i],
                           [SignalOf(B, "", "1") EXCEPT !.sampleTime = j]>>] :
            i, j \in DOMAIN r.times} :
           mt \in BOOLEAN, r \in Rates, d \in dilations}

AllModels     == Paths \cup TypeTables \cup Shapes \cup Timed({1, 3})
DilatedModels == Timed({1, 2, 10})
=============================================================================
