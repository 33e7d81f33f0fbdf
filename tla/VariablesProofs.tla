--------------------------- MODULE VariablesProofs ---------------------------
(***************************************************************************)
(* Proofs about Variables, for any model, any data types and any           *)
(* descriptions of structures.                                             *)
(***************************************************************************)
EXTENDS Variables, SequenceTheorems, FiniteSetTheorems, WellFoundedInduction,
        TLAPS

-----------------------------------------------------------------------------
(* Recursion over natural numbers *)

LEMMA LeastOf ==
  ASSUME NEW S, S \subseteq Nat, S # {}
  PROVE  \E x \in S : \A y \in S : x <= y
<1> DEFINE R == {ss \in Nat \X Nat : ss[1] < ss[2]}
<1>1. IsWellFoundedOn(R, Nat)
  BY NatLessThanWellFounded DEF OpToRel
<1>2. \A x, y \in Nat : y < x => <<y, x>> \in R
  OBVIOUS
<1> HIDE DEF R
<1>3. \E x \in S : \A y \in S : ~(<<y, x>> \in R)
  BY <1>1, WFMin
<1>4. \A x, y \in Nat : ~(y < x) => x <= y
  OBVIOUS
<1> QED
  BY <1>2, <1>3, <1>4

(* Induction, of a set rather than of a formula.                           *)
LEMMA Induct ==
  ASSUME NEW S, 0 \in S, \A k \in Nat : k \in S => k + 1 \in S
  PROVE  Nat \subseteq S
<1> SUFFICES ASSUME Nat \ S # {} PROVE FALSE
  OBVIOUS
<1>1. PICK x \in Nat \ S : \A y \in Nat \ S : x <= y
  BY LeastOf
<1>2. x # 0 /\ x - 1 \in Nat /\ x - 1 \in S
  BY <1>1
<1> QED
  BY <1>1, <1>2

(* Two functions that go on alike are alike.                               *)
LEMMA RunsAlike ==
  ASSUME NEW n \in Nat, NEW f, NEW g, f[0] = g[0],
         \A i \in 1 .. n : f[i - 1] = g[i - 1] => f[i] = g[i]
  PROVE  \A i \in 0 .. n : f[i] = g[i]
<1> DEFINE S == {i \in Nat : i <= n => f[i] = g[i]}
<1>1. 0 \in S
  OBVIOUS
<1>2. ASSUME NEW i \in Nat, i \in S PROVE i + 1 \in S
  <2> SUFFICES ASSUME i + 1 <= n PROVE f[i + 1] = g[i + 1]
    OBVIOUS
  <2>1. i + 1 \in 1 .. n /\ (i + 1) - 1 = i /\ f[i] = g[i]
    BY <1>2
  <2> QED
    BY <2>1
<1>3. Nat \subseteq S
  <2> HIDE DEF S
  <2> QED
    BY <1>1, <1>2, Induct
<1> QED
  BY <1>3

(* f computes step by step with G, up to n.                                *)
Computes(f, n, start, G) ==
  f[0] = start /\ \A i \in 1 .. n : f[i] = G[<<i, f[i - 1]>>]

LEMMA ComputationExists ==
  ASSUME NEW n \in Nat, NEW X, NEW start \in X,
         NEW G, \A i \in 1 .. n : \A x \in X : G[<<i, x>>] \in X
  PROVE  \E f \in [0 .. n -> X] : Computes(f, n, start, G)
<1> DEFINE S == {m \in Nat : m <= n =>
                   \E f \in [0 .. m -> X] : Computes(f, m, start, G)}
<1>1. 0 \in S
  <2> DEFINE f == [i \in 0 .. 0 |-> start]
  <2>1. f \in [0 .. 0 -> X] /\ Computes(f, 0, start, G)
    BY DEF Computes
  <2> HIDE DEF f
  <2> QED
    BY <2>1
<1>2. ASSUME NEW m \in Nat, m \in S PROVE m + 1 \in S
  <2> SUFFICES ASSUME m + 1 <= n
               PROVE  \E f \in [0 .. m + 1 -> X] : Computes(f, m + 1, start, G)
    OBVIOUS
  <2>1. PICK f \in [0 .. m -> X] : Computes(f, m, start, G)
    BY <1>2
  <2> DEFINE g == [i \in 0 .. m + 1 |->
                     IF i = m + 1 THEN G[<<m + 1, f[m]>>] ELSE f[i]]
  <2>2. f[m] \in X /\ m + 1 \in 1 .. n
    OBVIOUS
  <2>3. G[<<m + 1, f[m]>>] \in X
    BY <2>2
  <2>4. g \in [0 .. m + 1 -> X]
    BY <2>3
  <2>5. Computes(g, m + 1, start, G)
    <3>1. g[0] = start
      BY <2>1 DEF Computes
    <3>2. ASSUME NEW i \in 1 .. m + 1 PROVE g[i] = G[<<i, g[i - 1]>>]
      <4>1. CASE i = m + 1
        <5>1. g[i] = G[<<m + 1, f[m]>>] /\ g[i - 1] = f[m]
          BY <4>1
        <5> QED
          BY <4>1, <5>1
      <4>2. CASE i # m + 1
        <5>1. i \in 1 .. m /\ i - 1 \in 0 .. m
          BY <4>2
        <5>2. g[i] = f[i] /\ g[i - 1] = f[i - 1]
          BY <4>2, <5>1
        <5>3. f[i] = G[<<i, f[i - 1]>>]
          BY <2>1, <5>1 DEF Computes
        <5> QED
          BY <5>2, <5>3
      <4> QED
        BY <4>1, <4>2
    <3> HIDE DEF g
    <3> QED
      BY <3>1, <3>2 DEF Computes
  <2> HIDE DEF g
  <2> QED
    BY <2>4, <2>5
<1>3. Nat \subseteq S
  <2> HIDE DEF S
  <2> QED
    BY <1>1, <1>2, Induct
<1> QED
  BY <1>3

-----------------------------------------------------------------------------
(* Sequences *)

LEMMA FunctionIsSeq ==
  ASSUME NEW S, NEW n \in Nat, NEW f \in [1 .. n -> S]
  PROVE  f \in Seq(S) /\ Len(f) = n
<1>1. f \in Seq(S)
  BY SeqDef
<1>2. 1 .. Len(f) = 1 .. n /\ Len(f) \in Nat
  BY <1>1, LenProperties
<1> QED
  BY <1>1, <1>2

-----------------------------------------------------------------------------
(* Data types *)

LEMMA BuiltIns ==
  /\ Len(BuiltIn) = 9 /\ DOMAIN BuiltIn = 1 .. 9
  /\ BuiltInSize \in [1 .. 9 -> Nat \ {0}]
BY DEF BuiltIn, BuiltInSize

LEMMA BuiltInDiffer ==
  \A t, u \in 1 .. 9 : BuiltIn[t] = BuiltIn[u] => t = u
BY DEF BuiltIn

LEMMA BuiltInTypes ==
  ASSUME NEW id
  PROVE  IF Contains(BuiltIn, id)
         THEN BuiltInType(id) \in 1 .. 9 /\ BuiltIn[BuiltInType(id)] = id
         ELSE BuiltInType(id) = NoType
BY BuiltIns DEF BuiltInType, Contains

(* Every field has a type.                                                 *)
HaveTypes(types) ==
  \A i \in 1 .. Len(types) : \A j \in 1 .. Len(types[i].fields) :
    types[i].fields[j].type \in 0 .. 9 + Len(types)

LEMMA CompoundFields ==
  ASSUME NEW types \in Seq(Compound), NEW i \in 1 .. Len(types)
  PROVE  LET c == types[i]
         IN  /\ c \in Compound /\ c.size \in Nat /\ c.fields \in Seq(Field)
             /\ c = [size |-> c.size, fields |-> c.fields]
             /\ Len(c.fields) \in Nat
             /\ \A j \in 1 .. Len(c.fields) :
                  LET f == c.fields[j]
                  IN  /\ f \in Field /\ f.type \in Nat /\ f.offset \in Nat
                      /\ f.count \in Nat
<1> DEFINE c == types[i]
<1>1. c \in Compound
  BY ElementOfSeq
<1> HIDE DEF c
<1>2. c.size \in Nat /\ c.fields \in Seq(Field)
        /\ c = [size |-> c.size, fields |-> c.fields]
  BY <1>1 DEF Compound
<1>3. Len(c.fields) \in Nat
  BY <1>2, LenProperties
<1>4. ASSUME NEW j \in 1 .. Len(c.fields) PROVE c.fields[j] \in Field
  BY <1>2, ElementOfSeq
<1>5. \A f \in Field : f.type \in Nat /\ f.offset \in Nat /\ f.count \in Nat
  BY DEF Field
<1> QED
  BY <1>1, <1>2, <1>3, <1>4, <1>5 DEF c

LEMMA FieldsHaveTypesIs ==
  ASSUME NEW p, p.types \in Seq(Compound)
  PROVE  FieldsHaveTypes(p) <=> HaveTypes(p.types)
<1>1. DOMAIN p.types = 1 .. Len(p.types)
  BY LenProperties
<1>2. \A i \in 1 .. Len(p.types) :
        DOMAIN p.types[i].fields = 1 .. Len(p.types[i].fields)
  BY CompoundFields, LenProperties
<1>3. LastType(p) = 9 + Len(p.types)
  BY BuiltIns DEF LastType
<1> QED
  BY <1>1, <1>2, <1>3 DEF FieldsHaveTypes, HaveTypes, Range

LEMMA PdFields ==
  ASSUME NEW p \in Pds
  PROVE  /\ p.types \in Seq(Compound) /\ Len(p.types) \in Nat
         /\ p.complex \in [1 .. 9 -> Nat] /\ p.known \in [Described -> Nat]
         /\ p = [types |-> p.types, complex |-> p.complex, known |-> p.known]
         /\ LastType(p) = 9 + Len(p.types) /\ LastType(p) \in Nat
         /\ Compounds(p) = 10 .. LastType(p)
         /\ HaveTypes(p.types)
         /\ \A t \in 1 .. 9 : p.complex[t] \in Compounds(p) \cup {NoType}
         /\ \A name \in Described : p.known[name] \in Compounds(p) \cup {NoType}
<1>1. /\ p \in [types : Seq(Compound), complex : [DOMAIN BuiltIn -> Nat],
               known : [Described -> Nat]]
      /\ FieldsHaveTypes(p)
      /\ \A t \in DOMAIN BuiltIn : p.complex[t] \in Compounds(p) \cup {NoType}
      /\ \A name \in Described : p.known[name] \in Compounds(p) \cup {NoType}
  BY DEF Pds
<1>2. p.types \in Seq(Compound)
  BY <1>1
<1>3. Len(p.types) \in Nat
  BY <1>2, LenProperties
<1>4. HaveTypes(p.types)
  BY <1>1, <1>2, FieldsHaveTypesIs
<1>5. LastType(p) = 9 + Len(p.types) /\ LastType(p) \in Nat
  BY <1>3, BuiltIns DEF LastType
<1> QED
  BY <1>1, <1>2, <1>3, <1>4, <1>5, BuiltIns DEF Compounds

LEMMA PdIntro ==
  ASSUME NEW types \in Seq(Compound), NEW complex \in [1 .. 9 -> Nat],
         NEW known \in [Described -> Nat], HaveTypes(types),
         \A t \in 1 .. 9 :
           complex[t] = NoType \/ complex[t] \in 10 .. 9 + Len(types),
         \A name \in Described :
           known[name] = NoType \/ known[name] \in 10 .. 9 + Len(types)
  PROVE  [types |-> types, complex |-> complex, known |-> known] \in Pds
<1> DEFINE p == [types |-> types, complex |-> complex, known |-> known]
<1>1. Compounds(p) = 10 .. 9 + Len(types)
  <2>1. p.types = types /\ Len(types) \in Nat
    BY LenProperties
  <2> HIDE DEF p
  <2> QED
    BY <2>1, BuiltIns DEF LastType, Compounds
<1>2. p.complex = complex /\ p.known = known /\ p.types = types
  OBVIOUS
<1>3. p \in [types : Seq(Compound), complex : [DOMAIN BuiltIn -> Nat],
            known : [Described -> Nat]]
  BY BuiltIns
<1> HIDE DEF p
<1>4. /\ \A t \in DOMAIN BuiltIn : p.complex[t] \in Compounds(p) \cup {NoType}
      /\ \A name \in Described : p.known[name] \in Compounds(p) \cup {NoType}
  BY <1>1, <1>2, BuiltIns
<1>5. FieldsHaveTypes(p)
  BY <1>2, FieldsHaveTypesIs
<1>6. p \in Pds
  BY <1>3, <1>4, <1>5 DEF Pds
<1> QED
  BY <1>6 DEF p

(* The numbers of the types that there are stay numbers of types.          *)
LEMMA MoreTypes ==
  ASSUME NEW m \in Nat, NEW n \in Nat, m <= n
  PROVE  /\ \A x : x \in 10 .. 9 + m => x \in 10 .. 9 + n
         /\ \A x : x \in 0 .. 9 + m => x \in 0 .. 9 + n
         /\ \A x : x \in 1 .. m => x \in 1 .. n
OBVIOUS

(* A compound more.                                                        *)
HasNew(p, size, q) ==
  /\ q \in Pds
  /\ Len(q.types) = Len(p.types) + 1
  /\ \A i \in 1 .. Len(p.types) : q.types[i] = p.types[i]
  /\ q.types[Len(p.types) + 1] = [size |-> size, fields |-> <<>>]
  /\ q.complex = p.complex /\ q.known = p.known

LEMMA NewCompoundIs ==
  ASSUME NEW p \in Pds, NEW size \in Nat
  PROVE  HasNew(p, size, NewCompound(p, size))
<1> DEFINE c == [size |-> size, fields |-> <<>>]
           more == Append(p.types, c)
<1>1. c \in Compound
  BY EmptySeq DEF Compound
<1>2. /\ more \in Seq(Compound) /\ Len(more) = Len(p.types) + 1
      /\ \A i \in 1 .. Len(p.types) : more[i] = p.types[i]
      /\ more[Len(p.types) + 1] = c
  BY <1>1, PdFields, AppendProperties
<1>3. Len(c.fields) = 0
  BY EmptySeq
<1> HIDE DEF c, more
<1>4. NewCompound(p, size)
        = [types |-> more, complex |-> p.complex, known |-> p.known]
  <2>1. p = [types |-> p.types, complex |-> p.complex, known |-> p.known]
    BY PdFields
  <2>2. NewCompound(p, size) = [p EXCEPT !.types = more]
    BY DEF NewCompound, more, c
  <2> QED
    BY <2>1, <2>2
<1>5. PICK m \in Nat : m = Len(p.types)
  BY PdFields
<1>6. Len(more) = m + 1
  BY <1>2, <1>5
<1>7. HaveTypes(more)
  <2>1. HaveTypes(p.types)
    BY PdFields
  <2>2. ASSUME NEW i \in 1 .. m + 1, NEW j \in 1 .. Len(more[i].fields)
        PROVE  more[i].fields[j].type \in 0 .. 9 + (m + 1)
    <3>1. CASE i = m + 1
      BY <1>2, <1>3, <1>5, <3>1
    <3>2. CASE i # m + 1
      <4>1. i \in 1 .. m
        BY <3>2
      <4>2. more[i] = p.types[i]
        BY <1>2, <1>5, <4>1
      <4>3. more[i].fields[j].type \in 0 .. 9 + m
        BY <1>5, <2>1, <4>1, <4>2 DEF HaveTypes
      <4>4. \A x : x \in 0 .. 9 + m => x \in 0 .. 9 + (m + 1)
        OBVIOUS
      <4> QED
        BY <4>3, <4>4
    <3> QED
      BY <3>1, <3>2
  <2> QED
    BY <1>6, <2>2 DEF HaveTypes
<1>8. [types |-> more, complex |-> p.complex, known |-> p.known] \in Pds
  <2>1. /\ p.complex \in [1 .. 9 -> Nat] /\ p.known \in [Described -> Nat]
        /\ \A t \in 1 .. 9 : p.complex[t] \in 10 .. 9 + Len(p.types) \cup {NoType}
        /\ \A n \in Described :
             p.known[n] \in 10 .. 9 + Len(p.types) \cup {NoType}
    BY PdFields
  <2>2. /\ \A t \in 1 .. 9 :
             p.complex[t] = NoType \/ p.complex[t] \in 10 .. 9 + Len(more)
        /\ \A n \in Described :
             p.known[n] = NoType \/ p.known[n] \in 10 .. 9 + Len(more)
    <3>1. \A x : x \in 10 .. 9 + m => x \in 10 .. 9 + (m + 1)
      OBVIOUS
    <3> QED
      BY <1>5, <1>6, <2>1, <3>1
  <2> QED
    BY <1>2, <1>7, <2>1, <2>2, PdIntro
<1>9. NewCompound(p, size) \in Pds
  BY <1>4, <1>8
<1> QED
  BY <1>2, <1>4, <1>9 DEF c, HasNew

(* A field more of a compound.                                             *)
WithField(types, complex, known, k, f) ==
  [types |-> [types EXCEPT ![k].fields = Append(@, f)],
   complex |-> complex, known |-> known]

LEMMA AddFieldWhere ==
  ASSUME NEW types, NEW complex, NEW known, NEW k, NEW compound,
         compound - Len(BuiltIn) = k, NEW type, NEW offset, NEW count
  PROVE  AddField([types |-> types, complex |-> complex, known |-> known],
                  compound, type, offset, count)
           = WithField(types, complex, known, k,
               [type |-> type, offset |-> offset, count |-> count])
<1> DEFINE p == [types |-> types, complex |-> complex, known |-> known]
           f == [type |-> type, offset |-> offset, count |-> count]
<1>1. AddField(p, compound, type, offset, count)
        = [p EXCEPT !.types[k].fields = Append(@, f)]
  <2> HIDE DEF p
  <2> QED
    BY DEF AddField
<1>2. [p EXCEPT !.types[k].fields = Append(@, f)]
        = [types |-> [types EXCEPT ![k].fields = Append(@, f)],
           complex |-> complex, known |-> known]
  <2> HIDE DEF f
  <2> QED
    OBVIOUS
<1> QED
  BY <1>1, <1>2 DEF WithField

Added(p, k, f, q) ==
  /\ q \in Pds /\ Len(q.types) = Len(p.types)
  /\ \A i \in 1 .. Len(p.types) : i # k => q.types[i] = p.types[i]
  /\ q.types[k] = [size |-> p.types[k].size,
                   fields |-> Append(p.types[k].fields, f)]
  /\ q.complex = p.complex /\ q.known = p.known

LEMMA AddFieldIs ==
  ASSUME NEW p \in Pds, NEW k \in 1 .. Len(p.types),
         NEW type \in 0 .. LastType(p), NEW offset \in Nat, NEW count \in Nat
  PROVE  Added(p, k, [type |-> type, offset |-> offset, count |-> count],
               AddField(p, 9 + k, type, offset, count))
<1> DEFINE f == [type |-> type, offset |-> offset, count |-> count]
           c == p.types[k]
           d == [size |-> c.size, fields |-> Append(c.fields, f)]
           types == [p.types EXCEPT ![k] = d]
<1>1. f \in Field
  <2>1. LastType(p) \in Nat
    BY PdFields
  <2>2. type \in Nat
    BY <2>1
  <2> QED
    BY <2>2 DEF Field
<1>2. c.fields \in Seq(Field) /\ c.size \in Nat
        /\ c = [size |-> c.size, fields |-> c.fields]
  BY PdFields, CompoundFields
<1>3. d \in Compound
  <2>1. Append(c.fields, f) \in Seq(Field)
    BY <1>1, <1>2, AppendProperties
  <2> HIDE DEF f
  <2> QED
    BY <1>2, <2>1 DEF Compound
<1>4. types \in Seq(Compound) /\ Len(types) = Len(p.types)
        /\ types[k] = d
        /\ \A i \in 1 .. Len(p.types) : i # k => types[i] = p.types[i]
  <2>1. types \in Seq(Compound) /\ Len(types) = Len(p.types)
          /\ \A i \in 1 .. Len(p.types) :
               types[i] = IF i = k THEN d ELSE p.types[i]
    <3> HIDE DEF d
    <3>1. p.types \in Seq(Compound)
      BY PdFields
    <3> QED
      BY <1>3, <3>1, ExceptSeq
  <2> QED
    BY <2>1
<1>5. AddField(p, 9 + k, type, offset, count)
        = [types |-> types, complex |-> p.complex, known |-> p.known]
  <2>1. 9 + k - Len(BuiltIn) = k
    BY BuiltIns
  <2>2. types = [p.types EXCEPT ![k].fields = Append(@, f)]
    BY <1>2, PdFields
  <2>3. AddField(p, 9 + k, type, offset, count)
          = WithField(p.types, p.complex, p.known, k, f)
    <3>1. p = [types |-> p.types, complex |-> p.complex, known |-> p.known]
      BY PdFields
    <3>2. AddField([types |-> p.types, complex |-> p.complex,
                    known |-> p.known], 9 + k, type, offset, count)
            = WithField(p.types, p.complex, p.known, k, f)
      BY <2>1, AddFieldWhere
    <3> HIDE DEF f
    <3> QED
      BY <3>1, <3>2
  <2> HIDE DEF types, f
  <2> QED
    BY <2>2, <2>3 DEF WithField
<1>6. HaveTypes(types)
  <2>1. HaveTypes(p.types) /\ type \in 0 .. 9 + Len(p.types)
    BY PdFields
  <2>2. ASSUME NEW j \in 1 .. Len(d.fields)
        PROVE  d.fields[j].type \in 0 .. 9 + Len(p.types)
    <3>1. /\ Len(c.fields) \in Nat
          /\ Len(d.fields) = Len(c.fields) + 1
          /\ d.fields[Len(c.fields) + 1] = f
          /\ \A i \in 1 .. Len(c.fields) : d.fields[i] = c.fields[i]
      <4> HIDE DEF f, c
      <4> QED
        BY <1>1, <1>2, AppendProperties, LenProperties
    <3> HIDE DEF d
    <3>2. CASE j = Len(c.fields) + 1
      BY <2>1, <3>1, <3>2
    <3>3. CASE j # Len(c.fields) + 1
      <4>1. j \in 1 .. Len(c.fields)
        BY <3>1, <3>3
      <4>2. c.fields[j].type \in 0 .. 9 + Len(p.types)
        BY <2>1, <4>1 DEF HaveTypes
      <4> QED
        BY <3>1, <4>1, <4>2
    <3> QED
      BY <3>2, <3>3
  <2>3. ASSUME NEW i \in 1 .. Len(p.types), i # k,
               NEW j \in 1 .. Len(p.types[i].fields)
        PROVE  p.types[i].fields[j].type \in 0 .. 9 + Len(p.types)
    BY <2>1 DEF HaveTypes
  <2> HIDE DEF types, d
  <2> QED
    BY <1>4, <2>2, <2>3 DEF HaveTypes
<1>7. [types |-> types, complex |-> p.complex, known |-> p.known] \in Pds
  <2> HIDE DEF types
  <2>1. /\ p.complex \in [1 .. 9 -> Nat] /\ p.known \in [Described -> Nat]
        /\ \A t \in 1 .. 9 : p.complex[t] \in 10 .. 9 + Len(p.types) \cup {NoType}
        /\ \A n \in Described :
             p.known[n] \in 10 .. 9 + Len(p.types) \cup {NoType}
    BY PdFields
  <2> QED
    BY <1>4, <1>6, <2>1, PdIntro
<1> HIDE DEF types
<1> QED
  BY <1>4, <1>5, <1>7 DEF Added

(* Numbers                                                                 *)

(* The compound of a complex type that is made first.                      *)
Re(type) == [type |-> type, offset |-> 0, count |-> 1]
Im(type, size) == [type |-> type, offset |-> ImOffset(size), count |-> 1]

LEMMA MakeComplexIs ==
  ASSUME NEW p \in Pds, NEW type \in 1 .. 9, NEW size \in Nat
  PROVE  LET q == MakeComplex(p, type, size)
             n == Len(p.types)
         IN  /\ q \in Pds /\ Len(q.types) = n + 1
             /\ \A i \in 1 .. n : q.types[i] = p.types[i]
             /\ q.types[n + 1] =
                  [size |-> size,
                   fields |-> Append(Append(<<>>, Re(type)), Im(type, size))]
             /\ q.complex = [p.complex EXCEPT ![type] = 9 + (n + 1)]
             /\ q.known = p.known
<1> DEFINE n == Len(p.types)
           c == 9 + (n + 1)
           new == NewCompound(p, size)
           q == AddField(new, c, type, 0, 1)
           r == AddField(q, c, type, ImOffset(size), 1)
           made == [r EXCEPT !.complex[type] = c]
<1>1. n \in Nat /\ LastType(p) + 1 = c /\ n + 1 \in 1 .. n + 1
  <2>1. n \in Nat /\ LastType(p) = 9 + n
    BY PdFields
  <2> QED
    BY <2>1
<1>2. ImOffset(size) \in Nat /\ type \in Nat /\ type \in 0 .. 9 + (n + 1)
  <2>1. size \div 2 \in Nat
    OBVIOUS
  <2> QED
    BY <1>1, <2>1 DEF ImOffset
<1>3. /\ new \in Pds /\ Len(new.types) = n + 1
      /\ \A i \in 1 .. n : new.types[i] = p.types[i]
      /\ new.types[n + 1] = [size |-> size, fields |-> <<>>]
      /\ new.complex = p.complex /\ new.known = p.known
  BY NewCompoundIs DEF HasNew
<1> HIDE DEF new, n
<1>4. /\ q \in Pds /\ Len(q.types) = n + 1
      /\ \A i \in 1 .. n : q.types[i] = p.types[i]
      /\ q.types[n + 1] = [size |-> size, fields |-> Append(<<>>, Re(type))]
      /\ q.complex = p.complex /\ q.known = p.known
  <2>1. n + 1 \in 1 .. Len(new.types)
    BY <1>1, <1>3
  <2>2. Added(new, n + 1, Re(type), q)
    BY <1>2, <1>3, <2>1, AddFieldIs, PdFields DEF Re
  <2> HIDE DEF q
  <2>3. \A i \in 1 .. n : i \in 1 .. n + 1 /\ i # n + 1
    BY <1>1
  <2> QED
    BY <1>3, <2>2, <2>3 DEF Added
<1> HIDE DEF q
<1>5. /\ r \in Pds /\ Len(r.types) = n + 1
      /\ \A i \in 1 .. n : r.types[i] = p.types[i]
      /\ r.types[n + 1] =
           [size |-> size,
            fields |-> Append(Append(<<>>, Re(type)), Im(type, size))]
      /\ r.complex = p.complex /\ r.known = p.known
  <2>1. n + 1 \in 1 .. Len(q.types)
    BY <1>1, <1>4
  <2>2. Added(q, n + 1, Im(type, size), r)
    BY <1>2, <1>4, <2>1, AddFieldIs, PdFields DEF Im
  <2> HIDE DEF r
  <2>3. \A i \in 1 .. n : i \in 1 .. n + 1 /\ i # n + 1
    BY <1>1
  <2> QED
    BY <1>4, <2>2, <2>3 DEF Added
<1> HIDE DEF r
<1> DEFINE complex == [p.complex EXCEPT ![type] = c]
<1>6. made = [types |-> r.types, complex |-> complex, known |-> r.known]
  <2>1. r = [types |-> r.types, complex |-> r.complex, known |-> r.known]
    BY <1>5, PdFields
  <2> QED
    BY <1>5, <2>1
<1>7. made \in Pds
  <2>1. /\ p.complex \in [1 .. 9 -> Nat] /\ p.known \in [Described -> Nat]
        /\ \A t \in 1 .. 9 : p.complex[t] \in 10 .. 9 + n \cup {NoType}
        /\ \A m \in Described : p.known[m] \in 10 .. 9 + n \cup {NoType}
    BY PdFields DEF n
  <2>2. c \in Nat /\ c \in 10 .. 9 + Len(r.types)
    BY <1>1, <1>5
  <2>3. \A x : x \in 10 .. 9 + n => x \in 10 .. 9 + (n + 1)
    BY <1>1
  <2> HIDE DEF c
  <2>4. complex \in [1 .. 9 -> Nat]
    BY <2>1, <2>2
  <2>5. /\ \A t \in 1 .. 9 :
             complex[t] = NoType \/ complex[t] \in 10 .. 9 + Len(r.types)
        /\ \A m \in Described :
             r.known[m] = NoType \/ r.known[m] \in 10 .. 9 + Len(r.types)
    BY <1>5, <2>1, <2>2, <2>3
  <2>6. /\ r.types \in Seq(Compound) /\ r.known \in [Described -> Nat]
        /\ HaveTypes(r.types)
    BY <1>5, PdFields
  <2> HIDE DEF complex
  <2>7. [types |-> r.types, complex |-> complex, known |-> r.known] \in Pds
    BY <2>4, <2>5, <2>6, PdIntro
  <2> QED
    BY <1>6, <2>7
<1>8. MakeComplex(p, type, size) = made
  BY <1>1 DEF MakeComplex, r, q, new
<1> HIDE DEF complex, made
<1>9. /\ made.types = r.types /\ made.complex = complex
      /\ made.known = r.known
  BY <1>6
<1> QED
  BY <1>5, <1>7, <1>8, <1>9 DEF complex, n

-----------------------------------------------------------------------------
(* What stays when pdserv makes types *)

(* Everything but the fields of the compound number k.                     *)
Kept(p, k, q) ==
  /\ Len(p.types) <= Len(q.types)
  /\ \A i \in 1 .. Len(p.types) : i # k => q.types[i] = p.types[i]
  /\ k \in 1 .. Len(p.types) => q.types[k].size = p.types[k].size
  /\ q.known = p.known
  /\ \A t \in 1 .. 9 : p.complex[t] # NoType => q.complex[t] = p.complex[t]

LEMMA KeptSelf == \A p, k : p \in Pds => Kept(p, k, p)
<1> TAKE p, k
<1> HAVE p \in Pds
<1>1. Len(p.types) <= Len(p.types)
  BY PdFields
<1> QED
  BY <1>1 DEF Kept

LEMMA KeptTwice ==
  ASSUME NEW p \in Pds, NEW q \in Pds, NEW r \in Pds, NEW k, NEW l,
         Kept(p, k, q), Kept(q, l, r), l = k \/ l \notin 1 .. Len(p.types)
  PROVE  Kept(p, k, r)
<1>1. /\ Len(p.types) \in Nat /\ Len(q.types) \in Nat /\ Len(r.types) \in Nat
      /\ Len(p.types) <= Len(q.types) /\ Len(q.types) <= Len(r.types)
  BY PdFields DEF Kept
<1>2. Len(p.types) <= Len(r.types)
        /\ \A i \in 1 .. Len(p.types) : i \in 1 .. Len(q.types)
  BY <1>1
<1>3. ASSUME NEW i \in 1 .. Len(p.types), i # k PROVE r.types[i] = p.types[i]
  <2>1. i \in 1 .. Len(q.types) /\ i # l /\ q.types[i] = p.types[i]
    BY <1>2, <1>3 DEF Kept
  <2> QED
    BY <2>1 DEF Kept
<1>4. ASSUME k \in 1 .. Len(p.types) PROVE r.types[k].size = p.types[k].size
  <2>1. k \in 1 .. Len(q.types) /\ q.types[k].size = p.types[k].size
    BY <1>2, <1>4 DEF Kept
  <2>2. CASE l = k
    BY <2>1, <2>2 DEF Kept
  <2>3. CASE l # k
    BY <2>1, <2>3 DEF Kept
  <2> QED
    BY <2>2, <2>3
<1>5. ASSUME NEW t \in 1 .. 9, p.complex[t] # NoType
      PROVE  r.complex[t] = p.complex[t]
  BY <1>5 DEF Kept
<1>6. r.known = p.known
  BY DEF Kept
<1> QED
  BY <1>2, <1>3, <1>4, <1>5, <1>6 DEF Kept

LEMMA NewIsKept ==
  ASSUME NEW p \in Pds, NEW size, NEW q \in Pds, HasNew(p, size, q), NEW k
  PROVE  Kept(p, k, q)
<1>1. Len(p.types) \in Nat
  BY PdFields
<1> QED
  BY <1>1 DEF HasNew, Kept

LEMMA AddedIsKept ==
  ASSUME NEW p \in Pds, NEW k, NEW f, NEW q \in Pds, Added(p, k, f, q)
  PROVE  Kept(p, k, q)
<1>1. Len(p.types) \in Nat /\ Len(p.types) <= Len(p.types)
  BY PdFields
<1> QED
  BY <1>1 DEF Added, Kept

LEMMA LastOfKept ==
  ASSUME NEW p \in Pds, NEW k, NEW q \in Pds, Kept(p, k, q)
  PROVE  /\ LastType(p) <= LastType(q)
         /\ Compounds(p) \subseteq Compounds(q)
         /\ 0 .. LastType(p) \subseteq 0 .. LastType(q)
<1>1. /\ LastType(p) = 9 + Len(p.types) /\ Len(p.types) \in Nat
      /\ Compounds(p) = 10 .. LastType(p)
  BY PdFields
<1>2. /\ LastType(q) = 9 + Len(q.types) /\ Len(q.types) \in Nat
      /\ Compounds(q) = 10 .. LastType(q)
  BY PdFields
<1>3. Len(p.types) <= Len(q.types)
  BY DEF Kept
<1> QED
  BY <1>1, <1>2, <1>3

(* The types in O are not whole yet. No field has one of them, and those   *)
(* of complex numbers are whole.                                           *)
ComplexCompound(t) ==
  [size |-> 2 * BuiltInSize[t],
   fields |-> Append(Append(<<>>, Re(t)), Im(t, 2 * BuiltInSize[t]))]

Whole(p, O) ==
  /\ \A i \in 1 .. Len(p.types) : 9 + i \notin O =>
       \A j \in 1 .. Len(p.types[i].fields) : p.types[i].fields[j].type \notin O
  /\ \A t \in 1 .. 9 : p.complex[t] # NoType =>
       /\ p.complex[t] \notin O
       /\ p.types[p.complex[t] - 9] = ComplexCompound(t)

LEMMA NewIsWhole ==
  ASSUME NEW p \in Pds, NEW size, NEW q \in Pds, HasNew(p, size, q),
         NEW O, Whole(p, O)
  PROVE  Whole(q, O) /\ Whole(q, O \cup {LastType(q)})
<1>1. /\ Len(p.types) \in Nat /\ LastType(q) = 9 + Len(q.types)
      /\ Len(q.types) = Len(p.types) + 1
  BY PdFields DEF HasNew
<1>2. Len(<<>>) = 0
  BY EmptySeq
<1>3. ASSUME NEW i \in 1 .. Len(q.types), 9 + i \notin O,
             NEW j \in 1 .. Len(q.types[i].fields)
      PROVE  q.types[i].fields[j].type \notin O \cup {LastType(q)}
  <2>1. CASE i = Len(p.types) + 1
    <3>1. q.types[i].fields = <<>>
      BY <2>1 DEF HasNew
    <3> QED
      BY <1>2, <3>1
  <2>2. CASE i # Len(p.types) + 1
    <3>1. i \in 1 .. Len(p.types)
      BY <1>1, <2>2
    <3>2. q.types[i] = p.types[i]
      BY <3>1 DEF HasNew
    <3>3. p.types[i].fields[j].type \in 0 .. 9 + Len(p.types)
      BY <3>1, <3>2, PdFields DEF HaveTypes
    <3>4. p.types[i].fields[j].type \notin O
      BY <1>3, <3>1, <3>2 DEF Whole
    <3>5. p.types[i].fields[j].type # LastType(q)
      BY <1>1, <3>3
    <3> QED
      BY <3>2, <3>4, <3>5
  <2> QED
    BY <2>1, <2>2
<1>4. ASSUME NEW t \in 1 .. 9, q.complex[t] # NoType
      PROVE  /\ q.complex[t] \notin O \cup {LastType(q)}
             /\ q.types[q.complex[t] - 9] = ComplexCompound(t)
  <2>1. q.complex[t] = p.complex[t]
    BY DEF HasNew
  <2>2. p.complex[t] \in 10 .. 9 + Len(p.types)
    BY <1>4, <2>1, PdFields
  <2>3. p.complex[t] - 9 \in 1 .. Len(p.types) /\ p.complex[t] # LastType(q)
    BY <1>1, <2>2
  <2>4. q.types[p.complex[t] - 9] = p.types[p.complex[t] - 9]
    BY <2>3 DEF HasNew
  <2> QED
    BY <1>4, <2>1, <2>3, <2>4 DEF Whole
<1> QED
  BY <1>3, <1>4 DEF Whole

(* A type that is being made gets a field more.                            *)
LEMMA AddedIsWhole ==
  ASSUME NEW p \in Pds, NEW k \in 1 .. Len(p.types), NEW f, NEW q \in Pds,
         Added(p, k, f, q), NEW O, 9 + k \in O, Whole(p, O)
  PROVE  Whole(q, O)
<1>1. ASSUME NEW i \in 1 .. Len(q.types), 9 + i \notin O,
             NEW j \in 1 .. Len(q.types[i].fields)
      PROVE  q.types[i].fields[j].type \notin O
  <2>1. i \in 1 .. Len(p.types) /\ q.types[i] = p.types[i]
    BY <1>1 DEF Added
  <2> QED
    BY <1>1, <2>1 DEF Whole
<1>2. ASSUME NEW t \in 1 .. 9, q.complex[t] # NoType
      PROVE  /\ q.complex[t] \notin O
             /\ q.types[q.complex[t] - 9] = ComplexCompound(t)
  <2>1. q.complex[t] = p.complex[t]
    BY DEF Added
  <2>2. p.complex[t] \notin O
          /\ p.types[p.complex[t] - 9] = ComplexCompound(t)
    BY <1>2, <2>1 DEF Whole
  <2>3. p.complex[t] \in 10 .. 9 + Len(p.types) /\ Len(p.types) \in Nat
    BY <1>2, <2>1, PdFields
  <2>4. p.complex[t] - 9 \in 1 .. Len(p.types)
    BY <2>3
  <2>5. p.complex[t] - 9 # k
    BY <2>2, <2>3
  <2>6. q.types[p.complex[t] - 9] = p.types[p.complex[t] - 9]
    BY <2>4, <2>5 DEF Added
  <2> QED
    BY <2>1, <2>2, <2>6
<1> QED
  BY <1>1, <1>2 DEF Whole

-----------------------------------------------------------------------------
(* Numbers *)

(* The type of a number in p.                                              *)
NumberType(p, id, complex) ==
  IF complex /\ BuiltInType(id) # NoType THEN p.complex[BuiltInType(id)]
                                         ELSE BuiltInType(id)

MadeNumber(p, id, complex, O, made) ==
  /\ made = <<made[1], made[2]>>
  /\ made[1] \in Pds
  /\ made[2] \in 0 .. LastType(made[1])
  /\ made[2] = NumberType(made[1], id, complex)
  /\ made[2] = NoType <=> ~Contains(BuiltIn, id)
  /\ \A k : Kept(p, k, made[1])
  /\ Whole(p, O) /\ O \subseteq Compounds(p) =>
       Whole(made[1], O) /\ made[2] \notin O

LEMMA MakeComplexKeeps ==
  ASSUME NEW p \in Pds, NEW type \in 1 .. 9, p.complex[type] = NoType,
         NEW O, O \subseteq Compounds(p)
  PROVE  LET size == 2 * BuiltInSize[type]
             q == MakeComplex(p, type, size)
         IN  /\ q \in Pds /\ q.complex[type] = LastType(q)
             /\ \A k : Kept(p, k, q)
             /\ Whole(p, O) => Whole(q, O) /\ LastType(q) \notin O
<1> DEFINE size == 2 * BuiltInSize[type]
           q == MakeComplex(p, type, size)
           n == Len(p.types)
<1>1. size \in Nat
  BY BuiltIns
<1>2. /\ q \in Pds /\ Len(q.types) = n + 1
      /\ \A i \in 1 .. n : q.types[i] = p.types[i]
      /\ q.types[n + 1] = ComplexCompound(type)
      /\ q.complex = [p.complex EXCEPT ![type] = 9 + (n + 1)]
      /\ q.known = p.known
  BY <1>1, MakeComplexIs DEF ComplexCompound
<1>3. n \in Nat /\ LastType(q) = 9 + (n + 1) /\ p.complex \in [1 .. 9 -> Nat]
        /\ Compounds(p) = 10 .. 9 + n
  BY <1>2, PdFields
<1> HIDE DEF n, q
<1>4. /\ q.complex[type] = 9 + (n + 1)
      /\ \A t \in 1 .. 9 : t # type => q.complex[t] = p.complex[t]
  BY <1>2, <1>3
<1>5. ASSUME NEW k PROVE Kept(p, k, q)
  <2>1. n <= Len(q.types)
    BY <1>2, <1>3
  <2>2. \A t \in 1 .. 9 : p.complex[t] # NoType => q.complex[t] = p.complex[t]
    BY <1>4
  <2> QED
    BY <1>2, <2>1, <2>2 DEF Kept, n
<1>7. type \notin O
  <2>1. type \notin 10 .. 9 + n
    BY <1>3
  <2> QED
    BY <1>3, <2>1
<1>6. ASSUME Whole(p, O) PROVE Whole(q, O) /\ LastType(q) \notin O
  <2>1. LastType(q) \notin O
    BY <1>3
  <2>2. Re(type).type = type /\ Im(type, size).type = type
    BY DEF Re, Im
  <2>3. /\ Len(ComplexCompound(type).fields) = 2
        /\ ComplexCompound(type).fields[1] = Re(type)
        /\ ComplexCompound(type).fields[2] = Im(type, size)
    <3>1. ComplexCompound(type).fields
            = Append(Append(<<>>, Re(type)), Im(type, size))
      BY DEF ComplexCompound
    <3> DEFINE S == {Re(type), Im(type, size)}
    <3>2. Append(<<>>, Re(type)) \in Seq(S) /\ Len(Append(<<>>, Re(type))) = 1
            /\ Append(<<>>, Re(type))[1] = Re(type)
      BY EmptySeq, AppendProperties
    <3> QED
      BY <3>1, <3>2, AppendProperties
  <2>4. ASSUME NEW i \in 1 .. Len(q.types), 9 + i \notin O,
               NEW j \in 1 .. Len(q.types[i].fields)
        PROVE  q.types[i].fields[j].type \notin O
    <3>1. CASE i = n + 1
      <4>1. q.types[i].fields[j].type = type
        BY <1>2, <2>2, <2>3, <3>1
      <4> QED
        BY <1>7, <4>1
    <3>2. CASE i # n + 1
      <4>1. i \in 1 .. n
        BY <1>2, <1>3, <3>2
      <4> QED
        BY <1>2, <1>6, <2>4, <4>1 DEF Whole, n
    <3> QED
      BY <3>1, <3>2
  <2>5. ASSUME NEW t \in 1 .. 9, q.complex[t] # NoType
        PROVE  /\ q.complex[t] \notin O
               /\ q.types[q.complex[t] - 9] = ComplexCompound(t)
    <3>1. CASE t = type
      <4> DEFINE c == q.complex[t]
      <4>1. c = LastType(q) /\ c = 9 + (n + 1)
        BY <1>3, <1>4, <3>1
      <4> HIDE DEF c
      <4>2. c - 9 = n + 1
        BY <1>3, <4>1
      <4>3. q.types[c - 9] = ComplexCompound(t)
        BY <1>2, <3>1, <4>2
      <4> QED
        BY <2>1, <4>1, <4>3 DEF c
    <3>2. CASE t # type
      <4>1. p.complex[t] = q.complex[t]
        BY <1>4, <3>2
      <4>2. p.complex[t] \in 10 .. 9 + n
        BY <2>5, <4>1, PdFields DEF n
      <4>3. p.complex[t] - 9 \in 1 .. n
        <5>1. \A x : x \in 10 .. 9 + n => x - 9 \in 1 .. n
          BY <1>3
        <5> QED
          BY <4>2, <5>1
      <4> QED
        BY <1>2, <1>6, <2>5, <4>1, <4>3 DEF Whole
    <3> QED
      BY <3>1, <3>2
  <2> QED
    BY <2>1, <2>4, <2>5 DEF Whole
<1> QED
  BY <1>2, <1>3, <1>4, <1>5, <1>6 DEF q

LEMMA MadeIntro ==
  ASSUME NEW p, NEW id, NEW complex, NEW O, NEW q \in Pds,
         NEW c \in 0 .. LastType(q), c = NumberType(q, id, complex),
         c = NoType <=> ~Contains(BuiltIn, id), \A k : Kept(p, k, q),
         Whole(p, O) /\ O \subseteq Compounds(p) => Whole(q, O) /\ c \notin O
  PROVE  MadeNumber(p, id, complex, O, <<q, c>>)
BY DEF MadeNumber

LEMMA NumberIsMade ==
  ASSUME NEW p \in Pds, NEW id, NEW complex \in BOOLEAN, NEW size \in Nat,
         Contains(BuiltIn, id) =>
           size = (IF complex THEN 2 ELSE 1) * BuiltInSize[BuiltInType(id)],
         NEW O
  PROVE  MadeNumber(p, id, complex, O, BuiltInOrComplex(p, id, size, complex))
<1> DEFINE type == BuiltInType(id)
           made == BuiltInOrComplex(p, id, size, complex)
<1>1. /\ type \in Nat /\ type \in 0 .. 9
      /\ type = NoType <=> ~Contains(BuiltIn, id)
      /\ type # NoType => type \in 1 .. 9
  BY BuiltInTypes DEF NoType
<1>2. Compounds(p) = 10 .. LastType(p) /\ LastType(p) \in Nat
        /\ 9 <= LastType(p)
  BY PdFields
<1>3. (\A k : Kept(p, k, p)) /\ type \in 0 .. LastType(p)
  BY <1>1, <1>2, KeptSelf
<1>4. CASE ~complex \/ type = NoType
  <2>1. made = <<p, type>> /\ made[1] = p /\ made[2] = type
    BY <1>4 DEF BuiltInOrComplex
  <2>2. O \subseteq Compounds(p) => type \notin O
    BY <1>1, <1>2
  <2>3. NumberType(p, id, complex) = type
    BY <1>4 DEF NumberType
  <2> HIDE DEF made, type
  <2>4. MadeNumber(p, id, complex, O, <<p, type>>)
    BY <1>1, <1>3, <2>2, <2>3, MadeIntro
  <2> QED
    BY <2>1, <2>4 DEF made
<1>5. CASE complex /\ type # NoType /\ p.complex[type] # NoType
  <2>1. /\ made = <<p, p.complex[type]>> /\ made[1] = p
        /\ made[2] = p.complex[type]
    BY <1>5 DEF BuiltInOrComplex
  <2>2. p.complex[type] \in 0 .. LastType(p)
    <3>1. p.complex[type] \in Compounds(p)
      BY <1>1, <1>5, PdFields
    <3>2. \A x : x \in 10 .. LastType(p) => x \in 0 .. LastType(p)
      BY <1>2
    <3> QED
      BY <1>2, <3>1, <3>2
  <2>3. Whole(p, O) => p.complex[type] \notin O
    BY <1>1, <1>5 DEF Whole
  <2>4. NumberType(p, id, complex) = p.complex[type]
    BY <1>5 DEF NumberType
  <2> HIDE DEF made, type
  <2>5. MadeNumber(p, id, complex, O, <<p, p.complex[type]>>)
    BY <1>1, <1>3, <1>5, <2>2, <2>3, <2>4, MadeIntro
  <2> QED
    BY <2>1, <2>5 DEF made
<1>6. CASE complex /\ type # NoType /\ p.complex[type] = NoType
  <2> DEFINE q == MakeComplex(p, type, size)
  <2>1. made = <<q, q.complex[type]>>
    BY <1>6 DEF BuiltInOrComplex
  <2>2. size = 2 * BuiltInSize[type] /\ type \in 1 .. 9
    BY <1>1, <1>6
  <2>3. /\ q \in Pds /\ q.complex[type] = LastType(q) /\ \A k : Kept(p, k, q)
        /\ Whole(p, {}) => Whole(q, {})
        /\ Whole(p, O) /\ O \subseteq Compounds(p) =>
             Whole(q, O) /\ LastType(q) \notin O
    BY <1>6, <2>2, MakeComplexKeeps
  <2>4. NumberType(q, id, complex) = q.complex[type]
    BY <1>6 DEF NumberType
  <2>5. LastType(q) \in 0 .. LastType(q) /\ LastType(q) # NoType
    <3>1. LastType(q) = 9 + Len(q.types) /\ Len(q.types) \in Nat
      BY <2>3, PdFields
    <3> QED
      BY <3>1 DEF NoType
  <2> HIDE DEF made, type, q
  <2>6. MadeNumber(p, id, complex, O, <<q, q.complex[type]>>)
    BY <1>1, <1>6, <2>3, <2>4, <2>5, MadeIntro
  <2> QED
    BY <2>1, <2>6 DEF made
<1> QED
  BY <1>4, <1>5, <1>6

-----------------------------------------------------------------------------
(* Structures *)

USE DEF NoType

LEMMA DescriptionFields ==
  ASSUME NEW d \in Sections
  PROVE  /\ FieldsOf(d) \in Seq(FieldDesc) /\ Len(FieldsOf(d)) \in Nat
         /\ \A i \in 1 .. Len(FieldsOf(d)) :
              LET f == FieldsOf(d)[i]
              IN  /\ f.offset \in Nat /\ f.size \in Nat /\ f.count \in Nat
                  /\ f.complex \in BOOLEAN /\ HasItsSize(f)
                  /\ f.id = "struct" => <<d[1], f.next>> \in Sections
<1>1. d[1] \in Described /\ d[2] \in DOMAIN Descriptions[d[1]]
  BY DEF Sections
<1>2. Descriptions[d[1]] \in Seq(Seq(FieldDesc))
  BY <1>1, DescriptionsAssumption
<1>3. FieldsOf(d) \in Seq(FieldDesc)
  <2>1. d[2] \in 1 .. Len(Descriptions[d[1]])
    BY <1>1, <1>2, LenProperties
  <2> QED
    BY <1>2, <2>1, ElementOfSeq DEF FieldsOf
<1>4. Len(FieldsOf(d)) \in Nat /\ DOMAIN FieldsOf(d) = 1 .. Len(FieldsOf(d))
  BY <1>3, LenProperties
<1>5. ASSUME NEW i \in 1 .. Len(FieldsOf(d))
      PROVE  LET f == FieldsOf(d)[i]
             IN  /\ f.offset \in Nat /\ f.size \in Nat /\ f.count \in Nat
                 /\ f.complex \in BOOLEAN /\ HasItsSize(f)
                 /\ f.id = "struct" => <<d[1], f.next>> \in Sections
  <2> DEFINE f == FieldsOf(d)[i]
  <2>1. f \in FieldDesc
    BY <1>3, ElementOfSeq
  <2>2. f \in Range(Descriptions[d[1]][d[2]])
    BY <1>4 DEF FieldsOf, Range
  <2>3. HasItsSize(f) /\ (f.id = "struct" => f.next \in DOMAIN Descriptions[d[1]])
    BY <1>1, <2>2, DescriptionsAssumption
  <2> HIDE DEF f
  <2>4. /\ f.offset \in Nat /\ f.size \in Nat /\ f.count \in Nat
        /\ f.complex \in BOOLEAN /\ f.next \in Nat
    BY <2>1 DEF FieldDesc
  <2>5. f.id = "struct" => <<d[1], f.next>> \in Sections
    BY <1>1, <2>3, <2>4 DEF Sections
  <2> QED
    BY <2>3, <2>4, <2>5 DEF f
<1> QED
  BY <1>3, <1>4, <1>5

(* The index of the compound of a frame.                                   *)
Filled(a) == a.compound - 9

LEMMA FrameFields ==
  ASSUME NEW a \in Frames
  PROVE  /\ a.pd \in Pds /\ a.desc \in Sections /\ a.offset \in Nat
         /\ a.compound \in Compounds(a.pd)
         /\ Filled(a) \in 1 .. Len(a.pd.types)
         /\ a.compound = 9 + Filled(a)
<1>1. /\ a.pd \in Pds /\ a.desc \in Sections /\ a.offset \in Nat
      /\ a.compound \in Compounds(a.pd)
  BY DEF Frames
<1>2. Compounds(a.pd) = 10 .. 9 + Len(a.pd.types) /\ Len(a.pd.types) \in Nat
  BY <1>1, PdFields
<1>3. \A x : x \in 10 .. 9 + Len(a.pd.types) =>
        x - 9 \in 1 .. Len(a.pd.types) /\ x = 9 + (x - 9)
  BY <1>2
<1> QED
  BY <1>1, <1>2, <1>3 DEF Filled

Makers ==
  {g \in [Frames -> Pds] : \A a \in Frames : Kept(a.pd, Filled(a), g[a])}

InnerFrame(p, f, a) ==
  [pd |-> NewCompound(p, f.size), compound |-> LastType(NewCompound(p, f.size)),
   desc |-> <<a.desc[1], f.next>>, offset |-> a.offset + f.offset]

LEMMA InnerFrameIs ==
  ASSUME NEW p \in Pds, NEW a \in Frames, NEW i \in 1 .. Len(FieldsOf(a.desc)),
         FieldsOf(a.desc)[i].id = "struct"
  PROVE  LET f == FieldsOf(a.desc)[i]
             b == InnerFrame(p, f, a)
         IN  /\ b \in Frames /\ HasNew(p, f.size, b.pd)
             /\ b.compound = LastType(b.pd) /\ Filled(b) = Len(p.types) + 1
             /\ b.desc = <<a.desc[1], f.next>> /\ b.offset = a.offset + f.offset
<1> DEFINE f == FieldsOf(a.desc)[i]
           n == NewCompound(p, f.size)
           b == InnerFrame(p, f, a)
<1>1. /\ f.size \in Nat /\ f.offset \in Nat /\ <<a.desc[1], f.next>> \in Sections
      /\ a.offset \in Nat
  BY FrameFields, DescriptionFields
<1>2. HasNew(p, f.size, n)
  BY <1>1, NewCompoundIs
<1> HIDE DEF f, n
<1>3. /\ n \in Pds /\ LastType(n) = 9 + (Len(p.types) + 1)
      /\ Compounds(n) = 10 .. 9 + (Len(p.types) + 1) /\ Len(p.types) \in Nat
  BY <1>2, PdFields DEF HasNew
<1>4. b = [pd |-> n, compound |-> LastType(n), desc |-> <<a.desc[1], f.next>>,
           offset |-> a.offset + f.offset]
  BY DEF InnerFrame, n
<1> HIDE DEF b
<1>5. LastType(n) \in Nat /\ LastType(n) \in Compounds(n)
        /\ LastType(n) - 9 = Len(p.types) + 1
  BY <1>3
<1>6. b \in Frames
  <2>1. a.offset + f.offset \in Nat
    BY <1>1
  <2> QED
    BY <1>1, <1>3, <1>4, <1>5, <2>1 DEF Frames
<1> QED
  BY <1>2, <1>4, <1>5, <1>6 DEF b, f, Filled

LEMMA InnerIsKept ==
  ASSUME NEW inner \in Makers, NEW p \in Pds, NEW a \in Frames,
         NEW i \in 1 .. Len(FieldsOf(a.desc)), FieldsOf(a.desc)[i].id = "struct",
         NEW k
  PROVE  LET f == FieldsOf(a.desc)[i]
             b == InnerFrame(p, f, a)
             q == inner[b]
         IN  /\ InnerCompound(inner, p, f, a) = <<q, b.compound>>
             /\ q \in Pds /\ Kept(b.pd, Filled(b), q)
             /\ b.compound \in Compounds(q)
             /\ Kept(p, k, q)
<1> DEFINE f == FieldsOf(a.desc)[i]
           b == InnerFrame(p, f, a)
           q == inner[b]
<1>1. /\ b \in Frames /\ HasNew(p, f.size, b.pd)
      /\ b.compound = LastType(b.pd) /\ Filled(b) = Len(p.types) + 1
  BY InnerFrameIs
<1>2. InnerCompound(inner, p, f, a) = <<q, b.compound>>
  BY DEF InnerCompound, InnerFrame
<1> HIDE DEF b, f
<1>3. q \in Pds /\ Kept(b.pd, Filled(b), q)
  BY <1>1 DEF Makers
<1> HIDE DEF q
<1>4. b.pd \in Pds /\ b.compound \in Compounds(b.pd)
  BY <1>1, FrameFields
<1>5. b.compound \in Compounds(q)
  BY <1>3, <1>4, LastOfKept
<1>6. Kept(p, k, b.pd)
  BY <1>1, <1>4, NewIsKept
<1>7. Filled(b) \notin 1 .. Len(p.types)
  <2>1. Len(p.types) \in Nat
    BY PdFields
  <2> QED
    BY <1>1, <2>1
<1>8. Kept(p, k, q)
  BY <1>3, <1>4, <1>6, <1>7, KeptTwice
<1> QED
  BY <1>2, <1>3, <1>5, <1>8 DEF b, f, q

(* The type of a field, and the state in which it is there.                *)
MadeForField(inner, p, f, a) ==
  IF f.id = "struct" THEN InnerCompound(inner, p, f, a)
                     ELSE BuiltInOrComplex(p, f.id, f.size, f.complex)

DescField(a, f, type) ==
  [type |-> type, offset |-> a.offset + f.offset, count |-> f.count]

LEMMA MadeForFieldIs ==
  ASSUME NEW inner \in Makers, NEW p \in Pds, NEW a \in Frames,
         NEW i \in 1 .. Len(FieldsOf(a.desc)), NEW k
  PROVE  LET made == MadeForField(inner, p, FieldsOf(a.desc)[i], a)
         IN  /\ made[1] \in Pds /\ made[2] \in 0 .. LastType(made[1])
             /\ Kept(p, k, made[1])
<1> DEFINE f == FieldsOf(a.desc)[i]
           made == MadeForField(inner, p, f, a)
<1>1. CASE f.id = "struct"
  <2> DEFINE b == InnerFrame(p, f, a)
             q == inner[b]
  <2>1. /\ InnerCompound(inner, p, f, a) = <<q, b.compound>>
        /\ q \in Pds /\ b.compound \in Compounds(q)
        /\ Kept(p, k, q)
    BY <1>1, InnerIsKept
  <2> HIDE DEF b, q
  <2>2. made[1] = q /\ made[2] = b.compound
    BY <1>1, <2>1 DEF MadeForField
  <2>3. Compounds(q) = 10 .. LastType(q) /\ LastType(q) \in Nat
    BY <2>1, PdFields
  <2>4. \A x : x \in 10 .. LastType(q) => x \in 0 .. LastType(q)
    BY <2>3
  <2> QED
    BY <2>1, <2>2, <2>3, <2>4
<1>2. CASE f.id # "struct"
  <2>1. f.complex \in BOOLEAN /\ f.size \in Nat /\ HasItsSize(f)
    BY FrameFields, DescriptionFields
  <2>2. MadeNumber(p, f.id, f.complex, {},
                   BuiltInOrComplex(p, f.id, f.size, f.complex))
    BY <2>1, NumberIsMade DEF HasItsSize
  <2> QED
    BY <1>2, <2>2 DEF MadeNumber, MadeForField
<1> QED
  BY <1>1, <1>2

LEMMA MakeFieldIs ==
  ASSUME NEW inner \in Makers, NEW p \in Pds, NEW a \in Frames,
         NEW i \in 1 .. Len(FieldsOf(a.desc)), Kept(a.pd, Filled(a), p)
  PROVE  LET f == FieldsOf(a.desc)[i]
             made == MadeForField(inner, p, f, a)
             q == MakeField(inner, p, f, a)
         IN  /\ Filled(a) \in 1 .. Len(made[1].types)
             /\ Added(made[1], Filled(a), DescField(a, f, made[2]), q)
             /\ q \in Pds /\ Kept(p, Filled(a), q) /\ Kept(a.pd, Filled(a), q)
<1> DEFINE f == FieldsOf(a.desc)[i]
           made == MadeForField(inner, p, f, a)
           q == MakeField(inner, p, f, a)
           k == Filled(a)
<1>1. /\ made[1] \in Pds /\ made[2] \in 0 .. LastType(made[1])
      /\ Kept(p, k, made[1])
  BY MadeForFieldIs
<1>2. /\ a.pd \in Pds /\ a.offset \in Nat /\ a.compound = 9 + k
      /\ k \in 1 .. Len(a.pd.types)
  BY FrameFields
<1>3. f.offset \in Nat /\ f.count \in Nat
  BY FrameFields, DescriptionFields
<1>4. q = AddField(made[1], a.compound, made[2], a.offset + f.offset, f.count)
  BY DEF MakeField, MadeForField
<1> HIDE DEF f, made, q, k
<1>5. Kept(a.pd, k, made[1])
  BY <1>1, <1>2, KeptTwice DEF k
<1>6. k \in 1 .. Len(made[1].types)
  <2>1. /\ Len(a.pd.types) \in Nat /\ Len(made[1].types) \in Nat
        /\ Len(a.pd.types) <= Len(made[1].types)
    BY <1>1, <1>2, <1>5, PdFields DEF Kept
  <2> QED
    BY <1>2, <2>1
<1>7. Added(made[1], k, DescField(a, f, made[2]), q)
  <2>1. a.offset + f.offset \in Nat
    BY <1>2, <1>3
  <2> QED
    BY <1>1, <1>2, <1>3, <1>4, <1>6, <2>1, AddFieldIs DEF DescField
<1>8. q \in Pds
  BY <1>7 DEF Added
<1>9. Kept(made[1], k, q)
  BY <1>1, <1>7, <1>8, AddedIsKept
<1>10. Kept(p, k, q) /\ Kept(a.pd, k, q)
  BY <1>1, <1>2, <1>5, <1>8, <1>9, KeptTwice
<1> QED
  BY <1>6, <1>7, <1>8, <1>10 DEF f, made, q, k

(* The states while the fields are made.                                   *)
FieldStates(inner, a, made) ==
  /\ made[0] = a.pd
  /\ \A i \in 1 .. Len(FieldsOf(a.desc)) :
       made[i] = MakeField(inner, made[i - 1], FieldsOf(a.desc)[i], a)
  /\ \A i \in 0 .. Len(FieldsOf(a.desc)) :
       made[i] \in Pds /\ Kept(a.pd, Filled(a), made[i])

LEMMA MakeFieldsIs ==
  ASSUME NEW inner \in Makers, NEW a \in Frames
  PROVE  \E made : /\ FieldStates(inner, a, made)
                   /\ MakeFields(inner, a) = made[Len(FieldsOf(a.desc))]
<1> DEFINE L == Len(FieldsOf(a.desc))
           X == {q \in Pds : Kept(a.pd, Filled(a), q)}
           G == [ix \in (1 .. L) \X X |->
                   MakeField(inner, ix[2], FieldsOf(a.desc)[ix[1]], a)]
           step(f) == [i \in 0 .. L |->
                         IF i = 0 THEN a.pd
                         ELSE MakeField(inner, f[i - 1], FieldsOf(a.desc)[i], a)]
           run == CHOOSE f : f = step(f)
<1>1. L \in Nat
  BY FrameFields, DescriptionFields
<1>2. a.pd \in X
  BY FrameFields, KeptSelf
<1>3. ASSUME NEW i \in 1 .. L, NEW x \in X
      PROVE  /\ G[<<i, x>>] = MakeField(inner, x, FieldsOf(a.desc)[i], a)
             /\ G[<<i, x>>] \in X
  <2>1. G[<<i, x>>] = MakeField(inner, x, FieldsOf(a.desc)[i], a)
    OBVIOUS
  <2>2. MakeField(inner, x, FieldsOf(a.desc)[i], a) \in X
    BY MakeFieldIs
  <2> QED
    BY <2>1, <2>2
<1> HIDE DEF G, L
<1>4. PICK f \in [0 .. L -> X] : Computes(f, L, a.pd, G)
  <2> HIDE DEF X
  <2> QED
    BY <1>1, <1>2, <1>3, ComputationExists
<1>5. ASSUME NEW i \in 1 .. L
      PROVE  f[i - 1] \in X /\ f[i] = MakeField(inner, f[i - 1], FieldsOf(a.desc)[i], a)
  <2>1. i - 1 \in 0 .. L
    BY <1>1
  <2>2. f[i - 1] \in X
    BY <2>1
  <2> HIDE DEF X
  <2>3. f[i] = G[<<i, f[i - 1]>>]
    BY <1>4 DEF Computes
  <2> QED
    BY <1>3, <2>2, <2>3
<1>6. f[0] = a.pd
  BY <1>4 DEF Computes
<1>7. f = step(f)
  <2>1. ASSUME NEW i \in 0 .. L
        PROVE f[i] = IF i = 0 THEN a.pd
                     ELSE MakeField(inner, f[i - 1], FieldsOf(a.desc)[i], a)
    <3>1. i # 0 => i \in 1 .. L
      BY <1>1
    <3> QED
      BY <1>5, <1>6, <3>1
  <2> HIDE DEF X
  <2> QED
    BY <2>1
<1>8. run = step(run)
  <2> HIDE DEF X
  <2> QED
    BY <1>7
<1>9. run[0] = f[0] /\ \A i \in 1 .. L : run[i - 1] = f[i - 1] => run[i] = f[i]
  <2> HIDE DEF run
  <2>1. \A i \in 0 .. L : run[i] = IF i = 0 THEN a.pd
                     ELSE MakeField(inner, run[i - 1], FieldsOf(a.desc)[i], a)
    BY <1>8
  <2>2. 0 \in 0 .. L /\ \A i \in 1 .. L : i \in 0 .. L /\ i # 0
    BY <1>1
  <2> HIDE DEF X
  <2> QED
    BY <1>5, <1>6, <2>1, <2>2
<1>10. run[L] = f[L]
  <2> HIDE DEF run, X
  <2>1. \A i \in 0 .. L : run[i] = f[i]
    BY <1>1, <1>9, RunsAlike
  <2> QED
    BY <1>1, <2>1
<1>11. MakeFields(inner, a) = run[L]
  BY DEF MakeFields, L
<1>12. \A i \in 0 .. L : f[i] \in Pds /\ Kept(a.pd, Filled(a), f[i])
  OBVIOUS
<1>13. FieldStates(inner, a, f)
  <2> HIDE DEF X, run
  <2> QED
    BY <1>5, <1>6, <1>12 DEF FieldStates, L
<1> QED
  BY <1>10, <1>11, <1>13 DEF L

(* The recursion over all natural numbers: the computations go on as one.  *)
ComputesAll(f, start, G) ==
  f[0] = start /\ \A i \in Nat \ {0} : f[i] = G[<<i, f[i - 1]>>]

LEMMA NatComputationExists ==
  ASSUME NEW X, NEW start \in X,
         NEW G, \A i \in Nat \ {0} : \A x \in X : G[<<i, x>>] \in X
  PROVE  \E f \in [Nat -> X] : ComputesAll(f, start, G)
<1> DEFINE upto[n \in Nat] ==
             CHOOSE f \in [0 .. n -> X] : Computes(f, n, start, G)
           all == [n \in Nat |-> upto[n][n]]
<1>1. ASSUME NEW n \in Nat
      PROVE  upto[n] \in [0 .. n -> X] /\ Computes(upto[n], n, start, G)
  <2>1. \A i \in 1 .. n : i \in Nat \ {0}
    OBVIOUS
  <2>2. \E f \in [0 .. n -> X] : Computes(f, n, start, G)
    BY <2>1, ComputationExists
  <2>3. upto[n] = CHOOSE f \in [0 .. n -> X] : Computes(f, n, start, G)
    OBVIOUS
  <2> HIDE DEF upto
  <2> QED
    BY <2>2, <2>3
<1> HIDE DEF upto
<1>2. ASSUME NEW n \in Nat \ {0} PROVE upto[n][n - 1] = upto[n - 1][n - 1]
  <2>1. n - 1 \in Nat /\ n - 1 \in 0 .. n - 1 /\ \A i \in 1 .. n - 1 : i \in 1 .. n
    OBVIOUS
  <2>2. Computes(upto[n], n, start, G) /\ Computes(upto[n - 1], n - 1, start, G)
    BY <1>1, <2>1
  <2>3. /\ upto[n][0] = upto[n - 1][0]
        /\ \A i \in 1 .. n - 1 : upto[n][i - 1] = upto[n - 1][i - 1]
                                   => upto[n][i] = upto[n - 1][i]
    BY <2>1, <2>2 DEF Computes
  <2>4. \A i \in 0 .. n - 1 : upto[n][i] = upto[n - 1][i]
    BY <2>1, <2>3, RunsAlike
  <2> QED
    BY <2>1, <2>4
<1>3. all \in [Nat -> X]
  <2>1. \A n \in Nat : upto[n][n] \in X
    <3>1. \A n \in Nat : n \in 0 .. n
      OBVIOUS
    <3> QED
      BY <1>1, <3>1
  <2> QED
    BY <2>1
<1>4. all[0] = start
  BY <1>1 DEF Computes
<1>5. ASSUME NEW n \in Nat \ {0} PROVE all[n] = G[<<n, all[n - 1]>>]
  <2>1. n \in Nat /\ n \in 1 .. n /\ n - 1 \in Nat
    OBVIOUS
  <2>2. upto[n][n] = G[<<n, upto[n][n - 1]>>]
    BY <1>1, <2>1 DEF Computes
  <2>3. all[n] = upto[n][n] /\ all[n - 1] = upto[n - 1][n - 1]
    BY <2>1
  <2> HIDE DEF all
  <2> QED
    BY <1>2, <2>2, <2>3
<1> HIDE DEF all
<1> QED
  BY <1>3, <1>4, <1>5 DEF ComputesAll

LEMMA NatRunsAlike ==
  ASSUME NEW f, NEW g, f[0] = g[0],
         \A i \in Nat \ {0} : f[i - 1] = g[i - 1] => f[i] = g[i]
  PROVE  \A i \in Nat : f[i] = g[i]
<1> TAKE i \in Nat
<1>1. i \in 0 .. i /\ \A j \in 1 .. i : j \in Nat \ {0}
  OBVIOUS
<1>2. \A j \in 0 .. i : f[j] = g[j]
  BY <1>1, RunsAlike
<1> QED
  BY <1>1, <1>2

LEMMA MakeFieldsKeeps ==
  ASSUME NEW inner \in Makers, NEW a \in Frames
  PROVE  /\ MakeFields(inner, a) \in Pds
         /\ Kept(a.pd, Filled(a), MakeFields(inner, a))
<1>1. PICK made : /\ FieldStates(inner, a, made)
                  /\ MakeFields(inner, a) = made[Len(FieldsOf(a.desc))]
  BY MakeFieldsIs
<1>2. Len(FieldsOf(a.desc)) \in Nat
  BY FrameFields, DescriptionFields
<1>3. Len(FieldsOf(a.desc)) \in 0 .. Len(FieldsOf(a.desc))
  BY <1>2
<1> QED
  BY <1>1, <1>3 DEF FieldStates

LEMMA MakeCompoundIs ==
  /\ MakeCompound[0] = [a \in Frames |-> a.pd]
  /\ \A n \in Nat \ {0} :
       MakeCompound[n] = [a \in Frames |-> MakeFields(MakeCompound[n - 1], a)]
  /\ \A n \in Nat : MakeCompound[n] \in Makers
<1> DEFINE start == [a \in Frames |-> a.pd]
           next(g) == [a \in Frames |-> MakeFields(g, a)]
           G == [ix \in Nat \X Makers |-> next(ix[2])]
           step(f) == [n \in Nat |-> [a \in Frames |->
                         IF n = 0 THEN a.pd ELSE MakeFields(f[n - 1], a)]]
<1>1. start \in Makers
  BY FrameFields, KeptSelf DEF Makers
<1>2. ASSUME NEW g \in Makers PROVE next(g) \in Makers
  BY MakeFieldsKeeps DEF Makers
<1>3. ASSUME NEW i \in Nat, NEW g \in Makers PROVE G[<<i, g>>] = next(g)
  OBVIOUS
<1> HIDE DEF start, next, G
<1>4. PICK f \in [Nat -> Makers] : ComputesAll(f, start, G)
  <2>1. \A i \in Nat \ {0} : \A x \in Makers : G[<<i, x>>] \in Makers
    BY <1>2, <1>3
  <2> QED
    BY <1>1, <2>1, NatComputationExists
<1>5. f[0] = start /\ \A i \in Nat \ {0} : f[i] = next(f[i - 1])
  <2>1. ASSUME NEW i \in Nat \ {0} PROVE f[i] = next(f[i - 1])
    <3>1. i - 1 \in Nat
      OBVIOUS
    <3>2. f[i - 1] \in Makers
      BY <3>1
    <3> QED
      BY <1>3, <1>4, <3>2 DEF ComputesAll
  <2> QED
    BY <1>4, <2>1 DEF ComputesAll
<1>6. f = step(f)
  <2>1. ASSUME NEW n \in Nat PROVE f[n] = step(f)[n]
    <3>1. CASE n = 0
      <4>1. step(f)[n] = [a \in Frames |-> a.pd]
        BY <3>1
      <4> QED
        BY <1>5, <3>1, <4>1 DEF start
    <3>2. CASE n # 0
      <4>1. step(f)[n] = [a \in Frames |-> MakeFields(f[n - 1], a)]
        BY <3>2
      <4> QED
        BY <1>5, <3>2, <4>1 DEF next
    <3> QED
      BY <3>1, <3>2
  <2>2. DOMAIN f = Nat /\ f = [n \in Nat |-> f[n]]
    OBVIOUS
  <2>3. step(f) = [n \in Nat |-> step(f)[n]]
    OBVIOUS
  <2> HIDE DEF step
  <2> QED
    BY <2>1, <2>2, <2>3
<1>7. MakeCompound = CHOOSE g : g = step(g)
  BY DEF MakeCompound
<1>8. MakeCompound = step(MakeCompound)
  <2> HIDE DEF step
  <2> QED
    BY <1>6, <1>7
<1>9. MakeCompound[0] = start
  BY <1>8 DEF start
<1>10. ASSUME NEW n \in Nat \ {0} PROVE MakeCompound[n] = next(MakeCompound[n - 1])
  <2>1. step(MakeCompound)[n]
          = [a \in Frames |-> MakeFields(MakeCompound[n - 1], a)]
    OBVIOUS
  <2> HIDE DEF step
  <2> QED
    BY <1>8, <2>1 DEF next
<1>11. \A n \in Nat : MakeCompound[n] = f[n]
  <2> HIDE DEF step
  <2>1. MakeCompound[0] = f[0] /\ \A i \in Nat \ {0} :
          MakeCompound[i - 1] = f[i - 1] => MakeCompound[i] = f[i]
    BY <1>5, <1>9, <1>10
  <2> QED
    BY <2>1, NatRunsAlike
<1> HIDE DEF step
<1> QED
  BY <1>9, <1>10, <1>11 DEF start, next

-----------------------------------------------------------------------------
(* The scalars in a value *)

Places == Nat \X {BuiltIn[t] : t \in 1 .. 9}

LEMMA CopiesType ==
  ASSUME NEW scalars \in SUBSET Places, NEW offset \in Nat, NEW size \in Nat,
         NEW count \in Nat
  PROVE  Copies(scalars, offset, size, count) \in SUBSET Places
<1> SUFFICES ASSUME NEW k \in 0 .. count - 1, NEW x \in scalars
             PROVE  <<offset + k * size + x[1], x[2]>> \in Places
  BY DEF Copies
<1>1. k \in Nat
  OBVIOUS
<1>2. k * size \in Nat
  BY <1>1
<1>3. x[1] \in Nat /\ x[2] \in {BuiltIn[t] : t \in 1 .. 9}
  BY DEF Places
<1>4. offset + k * size + x[1] \in Nat
  <2>1. \A y \in Nat : offset + y + x[1] \in Nat
    BY <1>3
  <2> QED
    BY <1>2, <2>1
<1> QED
  BY <1>3, <1>4 DEF Places

(* The three kinds of types.                                               *)
LEMMA SizeOfIs ==
  ASSUME NEW p, NEW type \in Nat
  PROVE  /\ type = 0 => SizeOf(p, type) = 0
         /\ type \in 1 .. 9 => SizeOf(p, type) = BuiltInSize[type]
         /\ type > 9 => SizeOf(p, type) = p.types[type - 9].size
<1>1. type = 0 \/ type \in 1 .. 9 \/ type > 9
  OBVIOUS
<1>2. type = 0 => type \notin 1 .. 9
  OBVIOUS
<1>3. type > 9 => type # 0 /\ type \notin 1 .. 9
  OBVIOUS
<1> QED
  BY <1>1, <1>2, <1>3, BuiltIns DEF SizeOf

(* Those of a compound are those of its fields.                            *)
OfFields(p, inner, fields) ==
  UNION {Copies(inner[f.type], f.offset, SizeOf(p, f.type), f.count) :
           f \in Range(fields)}

LEMMA ScalarsOfIs ==
  ASSUME NEW p, NEW inner, NEW type \in Nat
  PROVE  /\ type = 0 => ScalarsOf(p, inner, type) = {}
         /\ type \in 1 .. 9 => ScalarsOf(p, inner, type) = {<<0, BuiltIn[type]>>}
         /\ type > 9 => ScalarsOf(p, inner, type)
                          = OfFields(p, inner, p.types[type - 9].fields)
<1>1. type = 0 \/ type \in 1 .. 9 \/ type > 9
  OBVIOUS
<1>2. type = 0 => type \notin 1 .. 9
  OBVIOUS
<1>3. type > 9 => type # 0 /\ type \notin 1 .. 9
  OBVIOUS
<1>4. ASSUME type > 9
      PROVE  ScalarsOf(p, inner, type)
               = OfFields(p, inner, p.types[type - 9].fields)
  <2>1. OfFields(p, inner, p.types[type - Len(BuiltIn)].fields)
          = OfFields(p, inner, p.types[type - 9].fields)
    BY BuiltIns
  <2>2. ScalarsOf(p, inner, type)
          = OfFields(p, inner, p.types[type - Len(BuiltIn)].fields)
    BY <1>3, <1>4, BuiltIns DEF ScalarsOf, OfFields
  <2> QED
    BY <2>1, <2>2
<1> QED
  BY <1>1, <1>2, <1>3, <1>4, BuiltIns DEF ScalarsOf

LEMMA SizeOfType ==
  ASSUME NEW p \in Pds, NEW type \in 0 .. LastType(p)
  PROVE  SizeOf(p, type) \in Nat
<1>1. LastType(p) = 9 + Len(p.types) /\ Len(p.types) \in Nat
  BY PdFields
<1>2. type \in Nat
  BY <1>1
<1>3. CASE type = 0
  BY <1>2, <1>3, SizeOfIs
<1>4. CASE type \in 1 .. 9
  BY <1>2, <1>4, SizeOfIs, BuiltIns
<1>5. CASE type > 9
  <2>1. type - 9 \in 1 .. Len(p.types)
    BY <1>1, <1>2, <1>5
  <2>2. p.types[type - 9].size \in Nat
    BY <2>1, PdFields, CompoundFields
  <2>3. SizeOf(p, type) = p.types[type - 9].size
    BY <1>2, <1>5, SizeOfIs
  <2> QED
    BY <2>2, <2>3
<1> QED
  BY <1>2, <1>3, <1>4, <1>5

ScalarFunctions(p) == [0 .. LastType(p) -> SUBSET Places]

LEMMA OfFieldsType ==
  ASSUME NEW p \in Pds, NEW inner \in ScalarFunctions(p), NEW k \in 1 .. Len(p.types)
  PROVE  OfFields(p, inner, p.types[k].fields) \in SUBSET Places
<1> DEFINE fields == p.types[k].fields
<1>1. /\ fields \in Seq(Field) /\ Len(fields) \in Nat
      /\ \A j \in 1 .. Len(fields) :
           /\ fields[j].offset \in Nat /\ fields[j].count \in Nat
           /\ fields[j].type \in 0 .. LastType(p)
  BY PdFields, CompoundFields DEF HaveTypes
<1> HIDE DEF fields
<1>2. ASSUME NEW f \in Range(fields)
      PROVE  Copies(inner[f.type], f.offset, SizeOf(p, f.type), f.count)
               \in SUBSET Places
  <2>1. PICK j \in 1 .. Len(fields) : f = fields[j]
    BY <1>1, LenProperties DEF Range
  <2>2. f.offset \in Nat /\ f.count \in Nat /\ f.type \in 0 .. LastType(p)
    BY <1>1, <2>1
  <2>3. inner[f.type] \in SUBSET Places /\ SizeOf(p, f.type) \in Nat
    BY <2>2, SizeOfType DEF ScalarFunctions
  <2> QED
    BY <2>2, <2>3, CopiesType
<1>3. OfFields(p, inner, fields) \in SUBSET Places
  BY <1>2 DEF OfFields
<1> QED
  BY <1>3 DEF fields

LEMMA ScalarsOfType ==
  ASSUME NEW p \in Pds, NEW inner \in ScalarFunctions(p),
         NEW type \in 0 .. LastType(p)
  PROVE  ScalarsOf(p, inner, type) \in SUBSET Places
<1>1. LastType(p) = 9 + Len(p.types) /\ Len(p.types) \in Nat
  BY PdFields
<1>2. type \in Nat
  BY <1>1
<1>3. CASE type = 0
  BY <1>2, <1>3, ScalarsOfIs
<1>4. CASE type \in 1 .. 9
  <2>1. <<0, BuiltIn[type]>> \in Places
    BY <1>4 DEF Places
  <2> QED
    BY <1>2, <1>4, <2>1, ScalarsOfIs
<1>5. CASE type > 9
  <2>1. type - 9 \in 1 .. Len(p.types)
    BY <1>1, <1>2, <1>5
  <2> QED
    BY <1>2, <1>5, <2>1, ScalarsOfIs, OfFieldsType
<1> QED
  BY <1>2, <1>3, <1>4, <1>5

LEMMA ScalarsIs ==
  ASSUME NEW p \in Pds
  PROVE  /\ Scalars(p)[0] = [type \in 0 .. LastType(p) |-> {}]
         /\ \A n \in Nat \ {0} : Scalars(p)[n] =
              [type \in 0 .. LastType(p) |-> ScalarsOf(p, Scalars(p)[n - 1], type)]
<1> DEFINE X == ScalarFunctions(p)
           start == [type \in 0 .. LastType(p) |-> {}]
           next(g) == [type \in 0 .. LastType(p) |-> ScalarsOf(p, g, type)]
           G == [ix \in Nat \X X |-> next(ix[2])]
           step(f) == [n \in Nat |-> [type \in 0 .. LastType(p) |->
                         IF n = 0 THEN {} ELSE ScalarsOf(p, f[n - 1], type)]]
<1>1. start \in X
  BY DEF ScalarFunctions
<1>2. ASSUME NEW g \in X PROVE next(g) \in X
  BY ScalarsOfType DEF ScalarFunctions
<1>3. ASSUME NEW i \in Nat, NEW g \in X PROVE G[<<i, g>>] = next(g)
  OBVIOUS
<1> HIDE DEF start, next, G, X
<1>4. PICK f \in [Nat -> X] : ComputesAll(f, start, G)
  <2>1. \A i \in Nat \ {0} : \A x \in X : G[<<i, x>>] \in X
    BY <1>2, <1>3
  <2> QED
    BY <1>1, <2>1, NatComputationExists
<1>5. f[0] = start /\ \A i \in Nat \ {0} : f[i] = next(f[i - 1])
  <2>1. ASSUME NEW i \in Nat \ {0} PROVE f[i] = next(f[i - 1])
    <3>1. i - 1 \in Nat
      OBVIOUS
    <3>2. f[i - 1] \in X
      BY <3>1
    <3> QED
      BY <1>3, <1>4, <3>2 DEF ComputesAll
  <2> QED
    BY <1>4, <2>1 DEF ComputesAll
<1>6. f = step(f)
  <2>1. ASSUME NEW n \in Nat PROVE f[n] = step(f)[n]
    <3>1. CASE n = 0
      <4>1. step(f)[n] = [type \in 0 .. LastType(p) |-> {}]
        BY <3>1
      <4> QED
        BY <1>5, <3>1, <4>1 DEF start
    <3>2. CASE n # 0
      <4>1. step(f)[n]
              = [type \in 0 .. LastType(p) |-> ScalarsOf(p, f[n - 1], type)]
        BY <3>2
      <4> QED
        BY <1>5, <3>2, <4>1 DEF next
    <3> QED
      BY <3>1, <3>2
  <2>2. DOMAIN f = Nat /\ f = [n \in Nat |-> f[n]]
    OBVIOUS
  <2>3. step(f) = [n \in Nat |-> step(f)[n]]
    OBVIOUS
  <2> HIDE DEF step
  <2> QED
    BY <2>1, <2>2, <2>3
<1>7. Scalars(p) = CHOOSE g : g = step(g)
  BY DEF Scalars
<1>8. Scalars(p) = step(Scalars(p))
  <2> HIDE DEF step
  <2> QED
    BY <1>6, <1>7
<1>9. Scalars(p)[0] = start
  BY <1>8 DEF start
<1>10. ASSUME NEW n \in Nat \ {0} PROVE Scalars(p)[n] = next(Scalars(p)[n - 1])
  <2>1. step(Scalars(p))[n] =
          [type \in 0 .. LastType(p) |-> ScalarsOf(p, Scalars(p)[n - 1], type)]
    OBVIOUS
  <2> HIDE DEF step
  <2> QED
    BY <1>8, <2>1 DEF next
<1> HIDE DEF step
<1> QED
  BY <1>9, <1>10 DEF start, next

LEMMA ScalarsAt ==
  ASSUME NEW p \in Pds, NEW type \in 0 .. LastType(p)
  PROVE  /\ Scalars(p)[0][type] = {}
         /\ \A n \in Nat :
              Scalars(p)[n + 1][type] = ScalarsOf(p, Scalars(p)[n], type)
<1>1. Scalars(p)[0][type] = {}
  <2>1. Scalars(p)[0] = [t \in 0 .. LastType(p) |-> {}]
    BY ScalarsIs
  <2> QED
    BY <2>1
<1>2. ASSUME NEW n \in Nat
      PROVE  Scalars(p)[n + 1][type] = ScalarsOf(p, Scalars(p)[n], type)
  <2>1. n + 1 \in Nat \ {0} /\ (n + 1) - 1 = n
    OBVIOUS
  <2>2. Scalars(p)[n + 1] =
          [t \in 0 .. LastType(p) |-> ScalarsOf(p, Scalars(p)[(n + 1) - 1], t)]
    BY <2>1, ScalarsIs
  <2> QED
    BY <2>1, <2>2
<1> QED
  BY <1>1, <1>2

(* In C.                                                                   *)
LEMMA PairType ==
  ASSUME NEW d, d.size \in Nat
  PROVE  Pair(d) \in SUBSET Places
<1>1. CASE Contains(BuiltIn, d.id)
  <2>1. d.id \in {BuiltIn[t] : t \in 1 .. 9}
    BY <1>1, BuiltInTypes
  <2>2. d.size \div 2 \in Nat
    OBVIOUS
  <2> QED
    BY <2>1, <2>2 DEF Pair, Places
<1>2. CASE ~Contains(BuiltIn, d.id)
  BY <1>2 DEF Pair
<1> QED
  BY <1>1, <1>2

CFunctions == [Sections -> SUBSET Places]

LEMMA CFieldsType ==
  ASSUME NEW inner \in CFunctions, NEW d \in Sections
  PROVE  CFields(inner, d) \in SUBSET Places
<1> DEFINE Of(f) == IF f.id = "struct" THEN inner[<<d[1], f.next>>] ELSE Pair(f)
<1>1. ASSUME NEW f \in Range(FieldsOf(d))
      PROVE  Copies(Of(f), f.offset, f.size, f.count) \in SUBSET Places
  <2>1. PICK i \in 1 .. Len(FieldsOf(d)) : f = FieldsOf(d)[i]
    BY DescriptionFields, LenProperties DEF Range
  <2>2. /\ f.offset \in Nat /\ f.size \in Nat /\ f.count \in Nat
        /\ f.id = "struct" => <<d[1], f.next>> \in Sections
    BY <2>1, DescriptionFields
  <2>3. Of(f) \in SUBSET Places
    BY <2>2, PairType DEF CFunctions
  <2> HIDE DEF Of
  <2> QED
    BY <2>2, <2>3, CopiesType
<1>2. CFields(inner, d)
        = UNION {Copies(Of(f), f.offset, f.size, f.count) : f \in Range(FieldsOf(d))}
  BY DEF CFields
<1> HIDE DEF Of
<1> QED
  BY <1>1, <1>2

LEMMA CScalarsIs ==
  /\ CScalars[0] = [d \in Sections |-> {}]
  /\ \A n \in Nat \ {0} :
       CScalars[n] = [d \in Sections |-> CFields(CScalars[n - 1], d)]
<1> DEFINE start == [d \in Sections |-> {}]
           next(g) == [d \in Sections |-> CFields(g, d)]
           G == [ix \in Nat \X CFunctions |-> next(ix[2])]
           step(f) == [n \in Nat |-> [d \in Sections |->
                         IF n = 0 THEN {} ELSE CFields(f[n - 1], d)]]
<1>1. start \in CFunctions
  BY DEF CFunctions
<1>2. ASSUME NEW g \in CFunctions PROVE next(g) \in CFunctions
  BY CFieldsType DEF CFunctions
<1>3. ASSUME NEW i \in Nat, NEW g \in CFunctions PROVE G[<<i, g>>] = next(g)
  OBVIOUS
<1> HIDE DEF start, next, G
<1>4. PICK f \in [Nat -> CFunctions] : ComputesAll(f, start, G)
  <2>1. \A i \in Nat \ {0} : \A x \in CFunctions : G[<<i, x>>] \in CFunctions
    BY <1>2, <1>3
  <2> QED
    BY <1>1, <2>1, NatComputationExists
<1>5. f[0] = start /\ \A i \in Nat \ {0} : f[i] = next(f[i - 1])
  <2>1. ASSUME NEW i \in Nat \ {0} PROVE f[i] = next(f[i - 1])
    <3>1. i - 1 \in Nat
      OBVIOUS
    <3>2. f[i - 1] \in CFunctions
      BY <3>1
    <3> QED
      BY <1>3, <1>4, <3>2 DEF ComputesAll
  <2> QED
    BY <1>4, <2>1 DEF ComputesAll
<1>6. f = step(f)
  <2>1. ASSUME NEW n \in Nat PROVE f[n] = step(f)[n]
    <3>1. CASE n = 0
      <4>1. step(f)[n] = [d \in Sections |-> {}]
        BY <3>1
      <4> QED
        BY <1>5, <3>1, <4>1 DEF start
    <3>2. CASE n # 0
      <4>1. step(f)[n] = [d \in Sections |-> CFields(f[n - 1], d)]
        BY <3>2
      <4> QED
        BY <1>5, <3>2, <4>1 DEF next
    <3> QED
      BY <3>1, <3>2
  <2>2. DOMAIN f = Nat /\ f = [n \in Nat |-> f[n]]
    OBVIOUS
  <2>3. step(f) = [n \in Nat |-> step(f)[n]]
    OBVIOUS
  <2> HIDE DEF step
  <2> QED
    BY <2>1, <2>2, <2>3
<1>7. CScalars = CHOOSE g : g = step(g)
  BY DEF CScalars
<1>8. CScalars = step(CScalars)
  <2> HIDE DEF step
  <2> QED
    BY <1>6, <1>7
<1>9. CScalars[0] = start
  BY <1>8 DEF start
<1>10. ASSUME NEW n \in Nat \ {0} PROVE CScalars[n] = next(CScalars[n - 1])
  <2>1. step(CScalars)[n] = [d \in Sections |-> CFields(CScalars[n - 1], d)]
    OBVIOUS
  <2> HIDE DEF step
  <2> QED
    BY <1>8, <2>1 DEF next
<1> HIDE DEF step
<1> QED
  BY <1>9, <1>10 DEF start, next

(* The scalars of the types that are whole stay what they are.             *)
LEMMA OfFieldsSame ==
  ASSUME NEW p, NEW q, NEW g, NEW h, NEW fields \in Seq(Field),
         \A j \in 1 .. Len(fields) :
           LET type == fields[j].type
           IN  g[type] = h[type] /\ SizeOf(p, type) = SizeOf(q, type)
  PROVE  OfFields(p, g, fields) = OfFields(q, h, fields)
<1>1. ASSUME NEW f \in Range(fields)
      PROVE  Copies(g[f.type], f.offset, SizeOf(p, f.type), f.count)
               = Copies(h[f.type], f.offset, SizeOf(q, f.type), f.count)
  <2>1. PICK j \in 1 .. Len(fields) : f = fields[j]
    BY LenProperties DEF Range
  <2>2. g[f.type] = h[f.type] /\ SizeOf(p, f.type) = SizeOf(q, f.type)
    BY <2>1
  <2> QED
    BY <2>2
<1> QED
  BY <1>1 DEF OfFields

LEMMA SameTypesSameScalars ==
  ASSUME NEW p \in Pds, NEW q \in Pds, NEW k, Len(p.types) <= Len(q.types),
         \A i \in 1 .. Len(p.types) : i # k => q.types[i] = p.types[i],
         NEW O, Whole(p, O),
         k \in 1 .. Len(p.types) => 9 + k \in O
  PROVE  \A type \in (0 .. LastType(p)) \ O :
           /\ SizeOf(q, type) = SizeOf(p, type)
           /\ \A n \in Nat : Scalars(q)[n][type] = Scalars(p)[n][type]
<1> DEFINE Same == (0 .. LastType(p)) \ O
<1>1. /\ LastType(p) = 9 + Len(p.types) /\ Len(p.types) \in Nat
      /\ LastType(q) = 9 + Len(q.types) /\ Len(q.types) \in Nat
      /\ Len(p.types) <= Len(q.types)
  BY PdFields
<1>2. \A type \in Same : type \in Nat /\ type \in 0 .. LastType(q)
  BY <1>1
<1>3. ASSUME NEW type \in Same, type > 9
      PROVE  /\ type - 9 \in 1 .. Len(p.types)
             /\ q.types[type - 9] = p.types[type - 9]
             /\ p.types[type - 9].fields \in Seq(Field)
             /\ \A j \in 1 .. Len(p.types[type - 9].fields) :
                  p.types[type - 9].fields[j].type \in Same
  <2>1. type \in Nat /\ type - 9 \in 1 .. Len(p.types) /\ 9 + (type - 9) = type
          /\ type \notin O
    BY <1>1, <1>2, <1>3
  <2>2. type - 9 # k
    BY <2>1
  <2>3. q.types[type - 9] = p.types[type - 9]
    BY <2>1, <2>2
  <2>4. p.types[type - 9].fields \in Seq(Field)
    BY <2>1, PdFields, CompoundFields
  <2>5. ASSUME NEW j \in 1 .. Len(p.types[type - 9].fields)
        PROVE  p.types[type - 9].fields[j].type \in Same
    <3>1. p.types[type - 9].fields[j].type \notin O
      BY <2>1 DEF Whole
    <3>2. p.types[type - 9].fields[j].type \in 0 .. LastType(p)
      BY <2>1, PdFields DEF HaveTypes
    <3> QED
      BY <3>1, <3>2
  <2> QED
    BY <2>1, <2>3, <2>4, <2>5
<1>4. ASSUME NEW type \in Same PROVE SizeOf(q, type) = SizeOf(p, type)
  <2>1. type \in Nat /\ (type = 0 \/ type \in 1 .. 9 \/ type > 9)
    BY <1>2
  <2>2. CASE type > 9
    <3>1. q.types[type - 9] = p.types[type - 9]
      BY <1>3, <2>2
    <3> HIDE DEF Same
    <3> QED
      BY <2>1, <2>2, <3>1, SizeOfIs
  <2>3. CASE type = 0 \/ type \in 1 .. 9
    <3> HIDE DEF Same
    <3> QED
      BY <2>1, <2>3, SizeOfIs
  <2> QED
    BY <2>1, <2>2, <2>3
<1> DEFINE Alike(n) ==
             \A type \in Same : Scalars(q)[n][type] = Scalars(p)[n][type]
           S == {n \in Nat : Alike(n)}
<1>5. 0 \in S
  <2>1. \A type \in Same : type \in 0 .. LastType(p) /\ type \in 0 .. LastType(q)
    BY <1>2
  <2> HIDE DEF Same
  <2>2. Alike(0)
    BY <2>1, ScalarsAt
  <2> QED
    BY <2>2
<1>6. ASSUME NEW n \in Nat, n \in S PROVE n + 1 \in S
  <2>1. n + 1 \in Nat \ {0} /\ (n + 1) - 1 = n
    OBVIOUS
  <2>2. Alike(n)
    BY <1>6
  <2>3. ASSUME NEW type \in Same
        PROVE  Scalars(q)[n + 1][type] = Scalars(p)[n + 1][type]
    <3>1. type \in 0 .. LastType(p) /\ type \in 0 .. LastType(q)
      BY <1>2
    <3>2. type \in Nat /\ (type = 0 \/ type \in 1 .. 9 \/ type > 9)
      BY <1>2
    <3> HIDE DEF Same, S
    <3>3. /\ Scalars(p)[n + 1][type] = ScalarsOf(p, Scalars(p)[n], type)
          /\ Scalars(q)[n + 1][type] = ScalarsOf(q, Scalars(q)[n], type)
      BY <3>1, ScalarsAt
    <3>4. CASE type = 0 \/ type \in 1 .. 9
      <4>1. ScalarsOf(p, Scalars(p)[n], type) = ScalarsOf(q, Scalars(q)[n], type)
        BY <3>2, <3>4, ScalarsOfIs
      <4> QED
        BY <3>3, <4>1
    <3>5. CASE type > 9
      <4> DEFINE fields == p.types[type - 9].fields
      <4>1. /\ q.types[type - 9] = p.types[type - 9] /\ fields \in Seq(Field)
            /\ \A j \in 1 .. Len(fields) : fields[j].type \in Same
        BY <1>3, <3>5
      <4>2. /\ ScalarsOf(p, Scalars(p)[n], type) = OfFields(p, Scalars(p)[n], fields)
            /\ ScalarsOf(q, Scalars(q)[n], type) = OfFields(q, Scalars(q)[n], fields)
        BY <3>2, <3>5, <4>1, ScalarsOfIs
      <4> HIDE DEF fields
      <4>3. \A j \in 1 .. Len(fields) :
              /\ Scalars(p)[n][fields[j].type] = Scalars(q)[n][fields[j].type]
              /\ SizeOf(p, fields[j].type) = SizeOf(q, fields[j].type)
        BY <1>4, <2>2, <4>1
      <4>4. OfFields(p, Scalars(p)[n], fields) = OfFields(q, Scalars(q)[n], fields)
        BY <4>1, <4>3, OfFieldsSame
      <4> QED
        BY <3>3, <4>2, <4>4
    <3> QED
      BY <3>2, <3>4, <3>5
  <2>4. Alike(n + 1)
    BY <2>3
  <2> HIDE DEF Alike
  <2> QED
    BY <2>1, <2>4
<1>7. Nat \subseteq S
  <2> HIDE DEF S
  <2> QED
    BY <1>5, <1>6, Induct
<1> QED
  BY <1>4, <1>7

LEMMA SameScalars ==
  ASSUME NEW p \in Pds, NEW q \in Pds, NEW k, Kept(p, k, q), NEW O, Whole(p, O),
         k \in 1 .. Len(p.types) => 9 + k \in O
  PROVE  \A type \in (0 .. LastType(p)) \ O :
           /\ SizeOf(q, type) = SizeOf(p, type)
           /\ \A n \in Nat : Scalars(q)[n][type] = Scalars(p)[n][type]
<1>1. /\ Len(p.types) <= Len(q.types)
      /\ \A i \in 1 .. Len(p.types) : i # k => q.types[i] = p.types[i]
  BY DEF Kept
<1> QED
  BY <1>1, SameTypesSameScalars

(* The scalars of a number.                                                *)
LEMMA OneCopy ==
  ASSUME NEW c, NEW offset \in Nat, NEW size \in Nat
  PROVE  Copies({<<0, c>>}, offset, size, 1) = {<<offset, c>>}
<1>1. \A k : k \in 0 .. 1 - 1 <=> k = 0
  OBVIOUS
<1>2. offset + 0 * size + 0 = offset
  OBVIOUS
<1>3. \A y : y \in Copies({<<0, c>>}, offset, size, 1)
               <=> y = <<offset + 0 * size + 0, c>>
  <2> DEFINE x == <<0, c>>
  <2>1. x[1] = 0 /\ x[2] = c
    OBVIOUS
  <2>2. \A y : y \in Copies({x}, offset, size, 1)
                 <=> y = <<offset + 0 * size + x[1], x[2]>>
    BY <1>1 DEF Copies
  <2> QED
    BY <2>1, <2>2
<1> QED
  BY <1>2, <1>3

LEMMA NoCopies == \A offset, size, count : Copies({}, offset, size, count) = {}
BY DEF Copies

LEMMA BuiltInScalars ==
  ASSUME NEW p \in Pds, NEW type \in 0 .. 9, NEW n \in Nat \ {0}
  PROVE  Scalars(p)[n][type] = IF type = 0 THEN {} ELSE {<<0, BuiltIn[type]>>}
<1>1. type \in 0 .. LastType(p) /\ type \in Nat /\ (type = 0 \/ type \in 1 .. 9)
  <2>1. LastType(p) = 9 + Len(p.types) /\ Len(p.types) \in Nat
    BY PdFields
  <2> QED
    BY <2>1
<1>2. n - 1 \in Nat /\ (n - 1) + 1 = n
  OBVIOUS
<1>3. Scalars(p)[n][type] = ScalarsOf(p, Scalars(p)[n - 1], type)
  BY <1>1, <1>2, ScalarsAt
<1> QED
  BY <1>1, <1>3, ScalarsOfIs

LEMMA ComplexScalars ==
  ASSUME NEW p \in Pds, NEW O, Whole(p, O), NEW t \in 1 .. 9,
         p.complex[t] # NoType, NEW n \in Nat, n >= 2
  PROVE  /\ Scalars(p)[n][p.complex[t]]
              = {<<0, BuiltIn[t]>>, <<(2 * BuiltInSize[t]) \div 2, BuiltIn[t]>>}
         /\ SizeOf(p, p.complex[t]) = 2 * BuiltInSize[t]
<1> DEFINE type == p.complex[t]
           size == BuiltInSize[t]
           re == Re(t)
           im == Im(t, 2 * size)
           fields == Append(Append(<<>>, re), im)
<1>1. type \in 10 .. LastType(p) /\ LastType(p) = 9 + Len(p.types)
        /\ Len(p.types) \in Nat
  BY PdFields
<1>2. type \in Nat /\ type > 9 /\ type \in 0 .. LastType(p)
  BY <1>1
<1>3. p.types[type - 9] = [size |-> 2 * size, fields |-> fields]
  BY DEF Whole, ComplexCompound
<1>4. SizeOf(p, type) = 2 * size
  BY <1>2, <1>3, SizeOfIs
<1>5. size \in Nat /\ (2 * size) \div 2 \in Nat
  <2>1. size \in Nat
    BY BuiltIns
  <2> HIDE DEF size
  <2> QED
    BY <2>1
<1>6. Range(fields) = {re, im}
  <2> HIDE DEF re, im
  <2> DEFINE S == {re, im}
             one == Append(<<>>, re)
  <2>1. one \in Seq(S) /\ Len(one) = 1 /\ one[1] = re
    BY EmptySeq, AppendProperties
  <2> HIDE DEF one
  <2>2. fields \in Seq(S) /\ Len(fields) = 2 /\ fields[1] = re /\ fields[2] = im
    BY <2>1, AppendProperties DEF one
  <2> HIDE DEF fields
  <2>3. DOMAIN fields = 1 .. 2
    BY <2>2, LenProperties
  <2>4. \A x : x \in Range(fields) <=> x = re \/ x = im
    BY <2>2, <2>3 DEF Range
  <2> QED
    BY <2>4
<1>7. n - 1 \in Nat \ {0} /\ (n - 1) + 1 = n
  OBVIOUS
<1> DEFINE inner == Scalars(p)[n - 1]
<1>8. inner[t] = {<<0, BuiltIn[t]>>}
  <2>1. t \in 0 .. 9 /\ t # 0
    OBVIOUS
  <2> QED
    BY <1>7, <2>1, BuiltInScalars
<1>9. Scalars(p)[n][type] = OfFields(p, inner, fields)
  <2>1. p.types[type - 9].fields = fields
    BY <1>3
  <2>2. Scalars(p)[(n - 1) + 1][type] = ScalarsOf(p, inner, type)
    <3>1. n - 1 \in Nat
      BY <1>7
    <3> QED
      BY <1>2, <3>1, ScalarsAt
  <2> HIDE DEF inner, fields, type
  <2>3. ScalarsOf(p, inner, type) = OfFields(p, inner, p.types[type - 9].fields)
    BY <1>2, ScalarsOfIs
  <2> QED
    BY <1>7, <2>1, <2>2, <2>3
<1>10. OfFields(p, inner, fields)
         = Copies(inner[t], 0, SizeOf(p, t), 1)
           \cup Copies(inner[t], (2 * size) \div 2, SizeOf(p, t), 1)
  <2>1. /\ re.type = t /\ re.offset = 0 /\ re.count = 1
        /\ im.type = t /\ im.offset = (2 * size) \div 2 /\ im.count = 1
    BY DEF Re, Im, ImOffset
  <2> HIDE DEF re, im, inner, fields, size
  <2> QED
    BY <1>6, <2>1 DEF OfFields
<1>11. SizeOf(p, t) \in Nat
  BY BuiltIns, SizeOfIs
<1>12. /\ Copies(inner[t], 0, SizeOf(p, t), 1) = {<<0, BuiltIn[t]>>}
       /\ Copies(inner[t], (2 * size) \div 2, SizeOf(p, t), 1)
            = {<<(2 * size) \div 2, BuiltIn[t]>>}
  <2> HIDE DEF inner, size
  <2> QED
    BY <1>5, <1>8, <1>11, OneCopy
<1> HIDE DEF inner, fields
<1> QED
  BY <1>4, <1>9, <1>10, <1>12

(* The scalars of a number of a type that pdserv has are those in C.       *)
LEMMA NumberScalars ==
  ASSUME NEW p \in Pds, NEW O, Whole(p, O), NEW d, d.complex \in BOOLEAN,
         HasItsSize(d), NEW type,
         type = NumberType(p, d.id, d.complex),
         type = NoType <=> ~Contains(BuiltIn, d.id), NEW n \in Nat, n >= 2
  PROVE  /\ Scalars(p)[n][type] = Pair(d)
         /\ type = 0 \/ SizeOf(p, type) = d.size
<1> DEFINE t == BuiltInType(d.id)
<1>1. n \in Nat \ {0}
  OBVIOUS
<1>2. CASE ~Contains(BuiltIn, d.id)
  <2>1. type = 0 /\ 0 \in 0 .. 9
    BY <1>2
  <2>2. Scalars(p)[n][0] = {}
    BY <1>1, <2>1, BuiltInScalars
  <2> QED
    BY <1>2, <2>1, <2>2 DEF Pair
<1>3. CASE Contains(BuiltIn, d.id)
  <2>1. t \in 1 .. 9 /\ BuiltIn[t] = d.id /\ type # 0
    BY <1>3, BuiltInTypes
  <2>2. CASE d.complex
    <3>1. type = p.complex[t] /\ d.size = 2 * BuiltInSize[t]
      BY <1>3, <2>1, <2>2 DEF NumberType, HasItsSize
    <3> HIDE DEF t
    <3>2. /\ Scalars(p)[n][type]
              = {<<0, BuiltIn[t]>>, <<(2 * BuiltInSize[t]) \div 2, BuiltIn[t]>>}
          /\ SizeOf(p, type) = 2 * BuiltInSize[t]
      BY <2>1, <3>1, ComplexScalars
    <3>3. Pair(d) = {<<0, d.id>>, <<d.size \div 2, d.id>>}
      BY <1>3, <2>2 DEF Pair
    <3> QED
      BY <2>1, <3>1, <3>2, <3>3
  <2>3. CASE ~d.complex
    <3>1. type = t /\ d.size = 1 * BuiltInSize[t]
      BY <1>3, <2>1, <2>3 DEF NumberType, HasItsSize
    <3>2. t \in 0 .. 9 /\ t # 0 /\ t \in Nat /\ BuiltInSize[t] \in Nat
      BY <2>1, BuiltIns
    <3> HIDE DEF t
    <3>3. Scalars(p)[n][type] = {<<0, BuiltIn[t]>>}
      BY <1>1, <3>1, <3>2, BuiltInScalars
    <3>4. SizeOf(p, type) = BuiltInSize[t]
      BY <2>1, <3>1, <3>2, SizeOfIs
    <3>5. Pair(d) = {<<0, d.id>>}
      BY <1>3, <2>3 DEF Pair
    <3> QED
      BY <2>1, <3>1, <3>2, <3>3, <3>4, <3>5
  <2> QED
    BY <2>2, <2>3
<1> QED
  BY <1>2, <1>3

(* A field is like its description: it has the same scalars, of structures *)
(* of n levels, whatever the level of the compounds.                       *)
InField(n, f, d) ==
  IF f.id = "struct" THEN CScalars[n][<<d[1], f.next>>] ELSE Pair(f)

SameField(n, p, g, f, d) ==
  /\ g.offset = f.offset /\ g.count = f.count
  /\ g.type = 0 \/ SizeOf(p, g.type) = f.size
  /\ \A m \in Nat : m >= n + 2 => Scalars(p)[m][g.type] = InField(n, f, d)

LEMMA FieldsMatch ==
  ASSUME NEW n \in Nat, NEW p \in Pds, NEW d \in Sections,
         NEW fields \in Seq(Field), Len(fields) = Len(FieldsOf(d)),
         \A j \in 1 .. Len(fields) : SameField(n, p, fields[j], FieldsOf(d)[j], d),
         NEW m \in Nat, m >= n + 2
  PROVE  OfFields(p, Scalars(p)[m], fields) = CFields(CScalars[n], d)
<1> DEFINE Ours(g) == Copies(Scalars(p)[m][g.type], g.offset, SizeOf(p, g.type), g.count)
           Theirs(f) == Copies(InField(n, f, d), f.offset, f.size, f.count)
           L == Len(fields)
<1>1. ASSUME NEW j \in 1 .. L PROVE Ours(fields[j]) = Theirs(FieldsOf(d)[j])
  <2> DEFINE g == fields[j]
             f == FieldsOf(d)[j]
  <2>1. SameField(n, p, g, f, d)
    OBVIOUS
  <2> HIDE DEF g, f
  <2>2. Scalars(p)[m][g.type] = InField(n, f, d)
    BY <2>1 DEF SameField
  <2>3. CASE g.type = 0
    <3>1. 0 \in 0 .. 9 /\ m \in Nat \ {0}
      OBVIOUS
    <3>2. Scalars(p)[m][g.type] = {}
      BY <2>3, <3>1, BuiltInScalars
    <3> QED
      BY <2>2, <3>2, NoCopies DEF g, f
  <2>4. CASE g.type # 0
    BY <2>1, <2>2, <2>4 DEF SameField, g, f
  <2> QED
    BY <2>3, <2>4
<1>2. OfFields(p, Scalars(p)[m], fields) = UNION {Ours(g) : g \in Range(fields)}
  BY DEF OfFields
<1>3. CFields(CScalars[n], d) = UNION {Theirs(f) : f \in Range(FieldsOf(d))}
  BY DEF CFields, InField
<1>4. DOMAIN fields = 1 .. L /\ DOMAIN FieldsOf(d) = 1 .. L
  BY DescriptionFields, LenProperties
<1> HIDE DEF Ours, Theirs, L
<1>5. UNION {Ours(g) : g \in Range(fields)} = UNION {Ours(fields[j]) : j \in 1 .. L}
  BY <1>4 DEF Range
<1>6. UNION {Theirs(f) : f \in Range(FieldsOf(d))}
        = UNION {Theirs(FieldsOf(d)[j]) : j \in 1 .. L}
  BY <1>4 DEF Range
<1>7. UNION {Ours(fields[j]) : j \in 1 .. L}
        = UNION {Theirs(FieldsOf(d)[j]) : j \in 1 .. L}
  BY <1>1
<1> QED
  BY <1>2, <1>3, <1>5, <1>6, <1>7

-----------------------------------------------------------------------------
(* The compounds that make_compound makes *)

Unshifted(a) == a.offset = 0 /\ ~Shifted(a.desc[1])

(* A compound is to be filled, O are those that are being made.            *)
Ready(a, O) ==
  /\ O \subseteq Compounds(a.pd) /\ a.compound \in O
  /\ Whole(a.pd, O)
  /\ Len(a.pd.types[Filled(a)].fields) = 0

(* g does it well, for structures of n levels.                             *)
Good(n, g) ==
  \A a \in Frames : \A O : Ready(a, O) =>
    /\ Whole(g[a], O \ {a.compound})
    /\ Unshifted(a) => \A m \in Nat : m >= n + 2 =>
         Scalars(g[a])[m][a.compound] = CScalars[n][a.desc]

(* What is there for a field of the type t in r.                           *)
TypeFits(n, a, O, p, f, r, t) ==
  /\ r \in Pds /\ t \in (0 .. LastType(r)) \ O
  /\ (\A k : Kept(p, k, r)) /\ Whole(r, O)
  /\ Unshifted(a) =>
       /\ t = 0 \/ SizeOf(r, t) = f.size
       /\ \A m \in Nat : m >= n + 2 => Scalars(r)[m][t] = InField(n, f, a.desc)

LEMMA NumberFits ==
  ASSUME NEW n \in Nat, NEW inner, NEW a \in Frames,
         NEW p \in Pds, NEW i \in 1 .. Len(FieldsOf(a.desc)),
         FieldsOf(a.desc)[i].id # "struct",
         NEW O, O \subseteq Compounds(p), Whole(p, O)
  PROVE  LET f == FieldsOf(a.desc)[i]
             made == MadeForField(inner, p, f, a)
         IN  TypeFits(n, a, O, p, f, made[1], made[2])
<1> DEFINE f == FieldsOf(a.desc)[i]
           made == MadeForField(inner, p, f, a)
           r == made[1]
           t == made[2]
<1>1. f.complex \in BOOLEAN /\ f.size \in Nat /\ HasItsSize(f)
  BY FrameFields, DescriptionFields
<1>2. MadeNumber(p, f.id, f.complex, O, BuiltInOrComplex(p, f.id, f.size, f.complex))
  BY <1>1, NumberIsMade DEF HasItsSize
<1>3. made = BuiltInOrComplex(p, f.id, f.size, f.complex)
  BY DEF MadeForField
<1>4. f.id # "struct"
  OBVIOUS
<1> HIDE DEF made, f
<1>5. /\ r \in Pds /\ t \in 0 .. LastType(r) /\ t \notin O
      /\ t = NumberType(r, f.id, f.complex)
      /\ t = NoType <=> ~Contains(BuiltIn, f.id)
      /\ \A k : Kept(p, k, r)
      /\ Whole(r, O)
  BY <1>2, <1>3 DEF MadeNumber
<1> HIDE DEF r, t
<1>6. ASSUME NEW m \in Nat, m >= 2
      PROVE  Scalars(r)[m][t] = Pair(f) /\ (t = 0 \/ SizeOf(r, t) = f.size)
  BY <1>1, <1>5, <1>6, NumberScalars
<1>7. \A m \in Nat : m >= n + 2 => m >= 2
  OBVIOUS
<1>8. t = 0 \/ SizeOf(r, t) = f.size
  <2>1. 2 \in Nat /\ 2 >= 2
    OBVIOUS
  <2> QED
    BY <1>6, <2>1
<1>9. TypeFits(n, a, O, p, f, r, t)
  BY <1>4, <1>5, <1>6, <1>7, <1>8 DEF TypeFits, InField
<1> QED
  BY <1>9 DEF r, t, made, f

LEMMA CompoundFits ==
  ASSUME NEW n \in Nat, NEW inner \in Makers, Good(n, inner), NEW a \in Frames,
         NEW p \in Pds, NEW i \in 1 .. Len(FieldsOf(a.desc)),
         FieldsOf(a.desc)[i].id = "struct",
         NEW O, O \subseteq Compounds(p), Whole(p, O)
  PROVE  LET f == FieldsOf(a.desc)[i]
             made == MadeForField(inner, p, f, a)
         IN  TypeFits(n, a, O, p, f, made[1], made[2])
<1> DEFINE f == FieldsOf(a.desc)[i]
           made == MadeForField(inner, p, f, a)
           b == InnerFrame(p, f, a)
           q == inner[b]
           c == b.compound
           more == O \cup {c}
<1>1. /\ b \in Frames /\ HasNew(p, f.size, b.pd)
      /\ b.compound = LastType(b.pd) /\ Filled(b) = Len(p.types) + 1
      /\ b.desc = <<a.desc[1], f.next>> /\ b.offset = a.offset + f.offset
  BY InnerFrameIs
<1>2. /\ InnerCompound(inner, p, f, a) = <<q, c>>
      /\ q \in Pds /\ Kept(b.pd, Filled(b), q)
      /\ c \in Compounds(q)
  BY InnerIsKept
<1>3. \A k : Kept(p, k, q)
  BY InnerIsKept
<1>4. made = <<q, c>> /\ f.id = "struct"
  BY <1>2 DEF MadeForField
<1>5. f \in Range(FieldsOf(a.desc)) /\ f.size \in Nat
        /\ a.desc \in Sections /\ a.offset \in Nat /\ f.offset \in Nat
  <2>1. a.desc \in Sections /\ a.offset \in Nat
    BY FrameFields
  <2>2. FieldsOf(a.desc) \in Seq(FieldDesc) /\ f.size \in Nat /\ f.offset \in Nat
    BY <2>1, DescriptionFields
  <2>3. DOMAIN FieldsOf(a.desc) = 1 .. Len(FieldsOf(a.desc))
    BY <2>2, LenProperties
  <2> QED
    BY <2>1, <2>2, <2>3 DEF Range
<1> HIDE DEF f, made, b, q
<1>6. /\ b.pd \in Pds /\ LastType(b.pd) = 9 + (Len(p.types) + 1)
      /\ LastType(p) = 9 + Len(p.types) /\ Len(p.types) \in Nat
      /\ Compounds(p) = 10 .. LastType(p)
      /\ Compounds(b.pd) = 10 .. LastType(b.pd)
  BY <1>1, PdFields DEF HasNew
<1>7. Ready(b, more)
  <2>1. Whole(b.pd, more)
    BY <1>1, <1>6, NewIsWhole
  <2>2. more \subseteq Compounds(b.pd)
    BY <1>1, <1>6
  <2>3. b.pd.types[Filled(b)].fields = <<>>
    BY <1>1 DEF HasNew
  <2>4. Len(b.pd.types[Filled(b)].fields) = 0
    BY <2>3, EmptySeq
  <2> QED
    BY <2>1, <2>2, <2>4 DEF Ready
<1>8. Whole(q, O)
  <2>1. Whole(q, more \ {c})
    BY <1>1, <1>7 DEF Good, q
  <2>2. c \notin O
    BY <1>1, <1>6
  <2>3. more \ {c} = O
    BY <2>2
  <2> QED
    BY <2>1, <2>3
<1>9. c \in (0 .. LastType(q)) \ O
  <2>1. c \in 0 .. LastType(q)
    <3>1. Compounds(q) = 10 .. LastType(q) /\ LastType(q) \in Nat
      BY <1>2, PdFields
    <3>2. \A x : x \in 10 .. LastType(q) => x \in 0 .. LastType(q)
      BY <3>1
    <3> QED
      BY <1>2, <3>1, <3>2
  <2>2. c \notin O
    BY <1>1, <1>6
  <2> QED
    BY <2>1, <2>2
<1>10. SizeOf(q, c) = f.size
  <2>1. b.pd.types[Filled(b)].size = f.size
    BY <1>1 DEF HasNew
  <2>2. Filled(b) \in 1 .. Len(b.pd.types)
    BY <1>1, FrameFields
  <2>3. q.types[Filled(b)].size = f.size
    BY <1>2, <2>1, <2>2 DEF Kept
  <2>4. c - 9 = Filled(b) /\ c \in Nat /\ c > 9
    BY <1>1, <1>6 DEF Filled
  <2> QED
    BY <2>3, <2>4, SizeOfIs
<1>11. ASSUME Unshifted(a), NEW m \in Nat, m >= n + 2
       PROVE  Scalars(q)[m][c] = CScalars[n][<<a.desc[1], f.next>>]
  <2>1. f.offset = 0
    <3>1. a.desc[1] \in Described /\ a.desc[2] \in DOMAIN Descriptions[a.desc[1]]
      BY <1>5 DEF Sections
    <3> QED
      BY <1>4, <1>5, <1>11, <3>1 DEF Unshifted, Shifted, FieldsOf
  <2>2. b.desc[1] = a.desc[1]
    BY <1>1
  <2>3. Unshifted(b)
    <3>1. b.offset = 0 + 0
      BY <1>1, <1>11, <2>1 DEF Unshifted
    <3> QED
      BY <1>11, <2>2, <3>1 DEF Unshifted
  <2>4. Scalars(inner[b])[m][b.compound] = CScalars[n][b.desc]
    BY <1>1, <1>7, <1>11, <2>3 DEF Good
  <2> QED
    BY <1>1, <2>4 DEF q
<1> HIDE DEF c, more
<1>12. TypeFits(n, a, O, p, f, q, c)
  BY <1>2, <1>3, <1>4, <1>8, <1>9, <1>10, <1>11 DEF TypeFits, InField
<1>13. made[1] = q /\ made[2] = c
  BY <1>4
<1> QED
  BY <1>12, <1>13 DEF made, f

(* The first i fields of the compound are there.                           *)
Building(n, a, O, p, i) ==
  LET fields == p.types[Filled(a)].fields
  IN  /\ p \in Pds /\ Kept(a.pd, Filled(a), p) /\ Whole(p, O)
      /\ Len(fields) = i
      /\ \A j \in 1 .. i : fields[j].type \notin O
      /\ Unshifted(a) => \A j \in 1 .. i :
           SameField(n, p, fields[j], FieldsOf(a.desc)[j], a.desc)

LEMMA SameFieldStays ==
  ASSUME NEW n \in Nat, NEW p, NEW q, NEW g, NEW f, NEW d,
         SameField(n, p, g, f, d), SizeOf(q, g.type) = SizeOf(p, g.type),
         \A m \in Nat : Scalars(q)[m][g.type] = Scalars(p)[m][g.type]
  PROVE  SameField(n, q, g, f, d)
BY DEF SameField

LEMMA OneMoreField ==
  ASSUME NEW n \in Nat, NEW inner \in Makers, Good(n, inner), NEW a \in Frames,
         NEW O, Ready(a, O), NEW i \in 1 .. Len(FieldsOf(a.desc)), NEW p,
         Building(n, a, O, p, i - 1)
  PROVE  Building(n, a, O, MakeField(inner, p, FieldsOf(a.desc)[i], a), i)
<1> DEFINE f == FieldsOf(a.desc)[i]
           made == MadeForField(inner, p, f, a)
           r == made[1]
           t == made[2]
           q == MakeField(inner, p, f, a)
           k == Filled(a)
           g == DescField(a, f, t)
           old == p.types[k].fields
           new == q.types[k].fields
<1>1. /\ p \in Pds /\ Kept(a.pd, k, p) /\ Whole(p, O) /\ Len(old) = i - 1
      /\ \A j \in 1 .. i - 1 : old[j].type \notin O
      /\ Unshifted(a) => \A j \in 1 .. i - 1 :
           SameField(n, p, old[j], FieldsOf(a.desc)[j], a.desc)
  BY DEF Building
<1>2. /\ a.pd \in Pds /\ a.desc \in Sections /\ a.offset \in Nat
      /\ k \in 1 .. Len(a.pd.types) /\ 9 + k \in O
  BY FrameFields DEF Ready
<1>3. O \subseteq Compounds(p)
  BY <1>1, <1>2, LastOfKept DEF Ready
<1>4. TypeFits(n, a, O, p, f, r, t)
  BY <1>1, <1>3, NumberFits, CompoundFits
<1>5. /\ k \in 1 .. Len(r.types) /\ Added(r, k, g, q)
      /\ q \in Pds /\ Kept(p, k, q) /\ Kept(a.pd, k, q)
  BY <1>1, MakeFieldIs
<1>6. f.offset \in Nat /\ f.count \in Nat
  BY <1>2, DescriptionFields
<1>7. i \in Nat /\ i - 1 \in Nat
  BY <1>2, DescriptionFields
<1> HIDE DEF f, made, r, t, q, k
<1>8. Whole(q, O)
  BY <1>2, <1>4, <1>5, AddedIsWhole DEF TypeFits
<1>9. k \in 1 .. Len(p.types) /\ r.types[k] = p.types[k]
  <2>1. /\ Len(a.pd.types) \in Nat /\ Len(p.types) \in Nat
        /\ Len(a.pd.types) <= Len(p.types)
    BY <1>1, <1>2, PdFields DEF Kept
  <2>2. k \in 1 .. Len(p.types)
    BY <1>2, <2>1
  <2>3. Kept(p, 0, r) /\ k # 0
    BY <1>2, <1>4 DEF TypeFits
  <2> QED
    BY <2>2, <2>3 DEF Kept
<1>10. old \in Seq(Field) /\ \A j \in 1 .. i - 1 : old[j].type \in 0 .. LastType(p)
  BY <1>1, <1>9, PdFields, CompoundFields DEF HaveTypes
<1>11. g \in Field
  <2>1. t \in Nat
    <3>1. LastType(r) \in Nat /\ t \in 0 .. LastType(r)
      BY <1>4, PdFields DEF TypeFits
    <3> QED
      BY <3>1
  <2>2. a.offset + f.offset \in Nat
    BY <1>2, <1>6
  <2> QED
    BY <1>6, <2>1, <2>2 DEF DescField, Field
<1>12. /\ Len(new) = i /\ new[i] = g
       /\ \A j \in 1 .. i - 1 : new[j] = old[j]
  <2>1. new = Append(old, g)
    BY <1>5, <1>9 DEF Added
  <2> HIDE DEF new, old, g
  <2>2. Len(new) = Len(old) + 1 /\ new[Len(old) + 1] = g
        /\ \A j \in 1 .. Len(old) : new[j] = old[j]
    BY <1>10, <1>11, <2>1, AppendProperties
  <2>3. Len(old) + 1 = i
    BY <1>1, <1>7
  <2> QED
    BY <1>1, <2>2, <2>3
<1>13. \A j \in 1 .. i : j = i \/ j \in 1 .. i - 1
  BY <1>7
<1>14. g.type = t /\ g.offset = a.offset + f.offset /\ g.count = f.count
  BY DEF DescField
<1> HIDE DEF g, old, new
<1>15. ASSUME NEW j \in 1 .. i PROVE new[j].type \notin O
  BY <1>1, <1>4, <1>12, <1>13, <1>14 DEF TypeFits
<1>16. ASSUME Unshifted(a), NEW j \in 1 .. i
       PROVE  SameField(n, q, new[j], FieldsOf(a.desc)[j], a.desc)
  <2>1. CASE j = i
    <3>1. /\ t = 0 \/ SizeOf(r, t) = f.size
          /\ \A m \in Nat : m >= n + 2 => Scalars(r)[m][t] = InField(n, f, a.desc)
          /\ r \in Pds /\ t \in (0 .. LastType(r)) \ O /\ Whole(r, O)
      BY <1>4, <1>16 DEF TypeFits
    <3>2. g.offset = f.offset
      <4>1. a.offset = 0
        BY <1>16 DEF Unshifted
      <4> QED
        BY <1>6, <1>14, <4>1
    <3>3. SameField(n, r, g, f, a.desc)
      BY <1>14, <3>1, <3>2 DEF SameField
    <3>4. Kept(r, k, q)
      BY <1>5, <3>1, AddedIsKept
    <3>5. SizeOf(q, t) = SizeOf(r, t)
            /\ \A m \in Nat : Scalars(q)[m][t] = Scalars(r)[m][t]
      BY <1>2, <1>5, <3>1, <3>4, SameScalars
    <3>6. SameField(n, q, g, f, a.desc)
      BY <1>14, <3>3, <3>5, SameFieldStays
    <3> QED
      BY <1>12, <2>1, <3>6 DEF f
  <2>2. CASE j # i
    <3>1. j \in 1 .. i - 1 /\ new[j] = old[j]
      BY <1>12, <1>13, <2>2
    <3>2. SameField(n, p, old[j], FieldsOf(a.desc)[j], a.desc)
      BY <1>1, <1>16, <3>1
    <3>3. old[j].type \in (0 .. LastType(p)) \ O
      BY <1>1, <1>10, <3>1
    <3>4. SizeOf(q, old[j].type) = SizeOf(p, old[j].type)
            /\ \A m \in Nat : Scalars(q)[m][old[j].type] = Scalars(p)[m][old[j].type]
      BY <1>1, <1>2, <1>5, <3>3, SameScalars
    <3> QED
      BY <3>1, <3>2, <3>4, SameFieldStays
  <2> QED
    BY <2>1, <2>2
<1>17. Building(n, a, O, q, i)
  BY <1>5, <1>8, <1>12, <1>15, <1>16 DEF Building, new, k
<1> QED
  BY <1>17 DEF q, f

LEMMA FilledIsWhole ==
  ASSUME NEW q, NEW O, Whole(q, O), NEW c \in Nat,
         \A j \in 1 .. Len(q.types[c - 9].fields) :
           q.types[c - 9].fields[j].type \notin O
  PROVE  Whole(q, O \ {c})
<1>1. ASSUME NEW i \in 1 .. Len(q.types), 9 + i \notin O \ {c},
             NEW j \in 1 .. Len(q.types[i].fields)
      PROVE  q.types[i].fields[j].type \notin O \ {c}
  <2>1. CASE 9 + i = c
    <3>1. c - 9 = i
      BY <2>1
    <3> QED
      BY <3>1
  <2>2. CASE 9 + i # c
    BY <1>1, <2>2 DEF Whole
  <2> QED
    BY <2>1, <2>2
<1>2. \A t \in 1 .. 9 : q.complex[t] # NoType =>
        /\ q.complex[t] \notin O \ {c}
        /\ q.types[q.complex[t] - 9] = ComplexCompound(t)
  BY DEF Whole
<1> QED
  BY <1>1, <1>2 DEF Whole

LEMMA OneMoreLevel ==
  ASSUME NEW n \in Nat, NEW inner \in Makers, Good(n, inner),
         NEW more, more = [a \in Frames |-> MakeFields(inner, a)]
  PROVE  Good(n + 1, more)
<1> SUFFICES ASSUME NEW a \in Frames, NEW O, Ready(a, O)
             PROVE  /\ Whole(more[a], O \ {a.compound})
                    /\ Unshifted(a) => \A m \in Nat : m >= (n + 1) + 2 =>
                         Scalars(more[a])[m][a.compound] = CScalars[n + 1][a.desc]
  BY DEF Good
<1> DEFINE L == Len(FieldsOf(a.desc))
           k == Filled(a)
           q == more[a]
           fields == q.types[k].fields
<1>1. PICK made : FieldStates(inner, a, made) /\ MakeFields(inner, a) = made[L]
  BY MakeFieldsIs
<1>2. q = made[L]
  BY <1>1
<1>3. /\ a.pd \in Pds /\ a.desc \in Sections
      /\ k \in 1 .. Len(a.pd.types) /\ a.compound = 9 + k /\ L \in Nat
  BY FrameFields, DescriptionFields
<1> HIDE DEF L, k, q
<1>4. \A i \in 0 .. L : Building(n, a, O, made[i], i)
  <2> DEFINE S == {i \in Nat : i <= L => Building(n, a, O, made[i], i)}
  <2>1. 0 \in S
    <3>1. made[0] = a.pd
      BY <1>1 DEF FieldStates
    <3>2. Kept(a.pd, k, a.pd)
      BY <1>3, KeptSelf
    <3>3. \A j \in 1 .. 0 : FALSE
      OBVIOUS
    <3>4. Building(n, a, O, made[0], 0)
      BY <1>3, <3>1, <3>2, <3>3 DEF Building, Ready, k
    <3> QED
      BY <3>4
  <2>2. ASSUME NEW i \in Nat, i \in S PROVE i + 1 \in S
    <3> SUFFICES ASSUME i + 1 <= L PROVE Building(n, a, O, made[i + 1], i + 1)
      OBVIOUS
    <3>1. i + 1 \in 1 .. L /\ (i + 1) - 1 = i /\ i <= L
      BY <1>3
    <3>2. made[i + 1] = MakeField(inner, made[i], FieldsOf(a.desc)[i + 1], a)
      BY <1>1, <3>1 DEF FieldStates, L
    <3>3. Building(n, a, O, made[i], (i + 1) - 1)
      BY <2>2, <3>1
    <3> HIDE DEF S
    <3> QED
      BY <3>1, <3>2, <3>3, OneMoreField DEF L
  <2>3. Nat \subseteq S
    <3> HIDE DEF S
    <3> QED
      BY <2>1, <2>2, Induct
  <2> QED
    BY <2>3
<1>5. Building(n, a, O, q, L)
  BY <1>2, <1>3, <1>4
<1>6. /\ q \in Pds /\ Kept(a.pd, k, q) /\ Whole(q, O) /\ Len(fields) = L
      /\ \A j \in 1 .. L : fields[j].type \notin O
      /\ Unshifted(a) => \A j \in 1 .. L :
           SameField(n, q, fields[j], FieldsOf(a.desc)[j], a.desc)
  BY <1>5 DEF Building, k
<1>7. k \in 1 .. Len(q.types) /\ a.compound - 9 = k /\ a.compound \in Nat
        /\ a.compound > 9 /\ a.compound \in 0 .. LastType(q)
  <2>1. /\ Len(a.pd.types) \in Nat /\ Len(q.types) \in Nat
        /\ Len(a.pd.types) <= Len(q.types) /\ LastType(q) = 9 + Len(q.types)
    BY <1>3, <1>6, PdFields DEF Kept
  <2> QED
    BY <1>3, <2>1
<1>8. Whole(q, O \ {a.compound})
  BY <1>6, <1>7, FilledIsWhole
<1>9. ASSUME Unshifted(a), NEW m \in Nat, m >= (n + 1) + 2
      PROVE  Scalars(q)[m][a.compound] = CScalars[n + 1][a.desc]
  <2>1. m - 1 \in Nat /\ (m - 1) + 1 = m /\ m - 1 >= n + 2
    BY <1>9
  <2>2. Scalars(q)[m][a.compound] = ScalarsOf(q, Scalars(q)[m - 1], a.compound)
    <3>1. Scalars(q)[(m - 1) + 1][a.compound]
            = ScalarsOf(q, Scalars(q)[m - 1], a.compound)
      <4>1. q \in Pds /\ a.compound \in 0 .. LastType(q) /\ m - 1 \in Nat
        BY <1>6, <1>7, <2>1
      <4> HIDE DEF fields
      <4> QED
        BY <4>1, ScalarsAt
    <3> QED
      BY <2>1, <3>1
  <2>3. ScalarsOf(q, Scalars(q)[m - 1], a.compound)
          = OfFields(q, Scalars(q)[m - 1], fields)
    BY <1>7, ScalarsOfIs
  <2>4. fields \in Seq(Field)
    BY <1>6, <1>7, PdFields, CompoundFields
  <2> HIDE DEF fields
  <2>5. OfFields(q, Scalars(q)[m - 1], fields) = CFields(CScalars[n], a.desc)
    <3>1. /\ q \in Pds /\ a.desc \in Sections /\ m - 1 \in Nat /\ m - 1 >= n + 2
          /\ Len(fields) = Len(FieldsOf(a.desc))
      BY <1>3, <1>6, <2>1 DEF L
    <3>2. \A j \in 1 .. Len(fields) :
            SameField(n, q, fields[j], FieldsOf(a.desc)[j], a.desc)
      BY <1>6, <1>9
    <3> QED
      BY <2>4, <3>1, <3>2, FieldsMatch
  <2>6. CScalars[n + 1][a.desc] = CFields(CScalars[n], a.desc)
    <3>1. n + 1 \in Nat \ {0} /\ (n + 1) - 1 = n
      OBVIOUS
    <3>2. CScalars[n + 1] = [d \in Sections |-> CFields(CScalars[(n + 1) - 1], d)]
      BY <3>1, CScalarsIs
    <3> QED
      BY <1>3, <3>1, <3>2
  <2> QED
    BY <2>2, <2>3, <2>5, <2>6
<1> QED
  BY <1>8, <1>9 DEF q

(* Every make_compound makes the structure that is described.              *)
LEMMA MakersAreGood == \A n \in Nat : Good(n, MakeCompound[n])
<1> DEFINE S == {n \in Nat : Good(n, MakeCompound[n])}
<1>1. Good(0, MakeCompound[0])
  <2> SUFFICES ASSUME NEW a \in Frames, NEW O, Ready(a, O)
               PROVE  /\ Whole(a.pd, O \ {a.compound})
                      /\ \A m \in Nat : m >= 0 + 2 =>
                           Scalars(a.pd)[m][a.compound] = CScalars[0][a.desc]
    <3>1. \A a \in Frames : MakeCompound[0][a] = a.pd
      BY MakeCompoundIs
    <3> QED
      BY <3>1 DEF Good
  <2> DEFINE k == Filled(a)
             fields == a.pd.types[k].fields
  <2>1. /\ a.pd \in Pds /\ a.desc \in Sections
        /\ k \in 1 .. Len(a.pd.types) /\ a.compound = 9 + k
    BY FrameFields
  <2>2. a.compound - 9 = k /\ a.compound \in Nat /\ a.compound > 9
          /\ a.compound \in 0 .. LastType(a.pd)
    <3>1. LastType(a.pd) = 9 + Len(a.pd.types) /\ Len(a.pd.types) \in Nat
      BY <2>1, PdFields
    <3> HIDE DEF k
    <3> QED
      BY <2>1, <3>1
  <2>3. Whole(a.pd, O) /\ Len(fields) = 0 /\ \A j \in 1 .. 0 : FALSE
    BY DEF Ready
  <2>4. fields \in Seq(Field)
    BY <2>1, PdFields, CompoundFields
  <2> HIDE DEF k
  <2>5. Whole(a.pd, O \ {a.compound})
    BY <2>2, <2>3, FilledIsWhole
  <2>6. ASSUME NEW m \in Nat, m >= 0 + 2
        PROVE  Scalars(a.pd)[m][a.compound] = CScalars[0][a.desc]
    <3>1. m - 1 \in Nat /\ (m - 1) + 1 = m
      BY <2>6
    <3>2. Scalars(a.pd)[(m - 1) + 1][a.compound]
            = ScalarsOf(a.pd, Scalars(a.pd)[m - 1], a.compound)
      BY <2>1, <2>2, <3>1, ScalarsAt
    <3>3. ScalarsOf(a.pd, Scalars(a.pd)[m - 1], a.compound)
            = OfFields(a.pd, Scalars(a.pd)[m - 1], fields)
      BY <2>2, ScalarsOfIs
    <3> HIDE DEF fields
    <3>4. Range(fields) = {}
      BY <2>3, <2>4, LenProperties DEF Range
    <3>5. OfFields(a.pd, Scalars(a.pd)[m - 1], fields) = {}
      BY <3>4 DEF OfFields
    <3>6. CScalars[0][a.desc] = {}
      BY <2>1, CScalarsIs
    <3> QED
      BY <3>1, <3>2, <3>3, <3>5, <3>6
  <2> QED
    BY <2>5, <2>6
<1>2. ASSUME NEW n \in Nat, Good(n, MakeCompound[n])
      PROVE  Good(n + 1, MakeCompound[n + 1])
  <2>1. n + 1 \in Nat \ {0} /\ (n + 1) - 1 = n
    OBVIOUS
  <2>2. MakeCompound[n + 1]
          = [a \in Frames |-> MakeFields(MakeCompound[(n + 1) - 1], a)]
    BY <2>1, MakeCompoundIs
  <2>3. MakeCompound[n + 1] = [a \in Frames |-> MakeFields(MakeCompound[n], a)]
    BY <2>1, <2>2
  <2>4. MakeCompound[n] \in Makers
    BY MakeCompoundIs
  <2> QED
    BY <1>2, <2>3, <2>4, OneMoreLevel
<1>3. 0 \in S /\ \A n \in Nat : n \in S => n + 1 \in S
  BY <1>1, <1>2
<1>4. Nat \subseteq S
  <2> HIDE DEF S
  <2> QED
    BY <1>3, Induct
<1> QED
  BY <1>4

-----------------------------------------------------------------------------
(* get_etl_data_type *)

(* All compounds are whole, and the known ones are the structures.         *)
KnownFits(p, name) ==
  p.known[name] # NoType /\ ~Shifted(name) =>
    \A m \in Nat : m >= Len(Descriptions[name]) + 2 =>
      Scalars(p)[m][p.known[name]] = CScalars[Len(Descriptions[name])][<<name, 1>>]

PdInv(p) == p \in Pds /\ Whole(p, {}) /\ \A name \in Described : KnownFits(p, name)

(* The type that t has in p, if any.                                       *)
TypeIn(p, t) ==
  IF t.id = "struct" THEN IF t.mwName \in Described THEN p.known[t.mwName] ELSE NoType
                     ELSE NumberType(p, t.id, t.complex)

CanHave(t) ==
  IF t.id = "struct" THEN t.mwName \in Described ELSE Contains(BuiltIn, t.id)

Grows(p, q) ==
  /\ LastType(p) <= LastType(q)
  /\ \A t \in 1 .. 9 : p.complex[t] # NoType => q.complex[t] = p.complex[t]
  /\ \A name \in Described : p.known[name] # NoType => q.known[name] = p.known[name]

Got(p, t, made) ==
  /\ PdInv(made[1]) /\ Grows(p, made[1])
  /\ made[2] = TypeIn(made[1], t) /\ made[2] \in 0 .. LastType(made[1])
  /\ made[2] # NoType <=> CanHave(t)

LEMMA KnownStays ==
  ASSUME NEW p \in Pds, NEW q \in Pds, NEW name \in Described,
         KnownFits(p, name), q.known[name] = p.known[name],
         NEW k, Len(p.types) <= Len(q.types),
         \A i \in 1 .. Len(p.types) : i # k => q.types[i] = p.types[i],
         NEW O, Whole(p, O), k \in 1 .. Len(p.types) => 9 + k \in O,
         p.known[name] \notin O
  PROVE  KnownFits(q, name)
<1> SUFFICES ASSUME p.known[name] # NoType, ~Shifted(name), NEW m \in Nat,
                    m >= Len(Descriptions[name]) + 2
             PROVE  Scalars(q)[m][p.known[name]]
                      = CScalars[Len(Descriptions[name])][<<name, 1>>]
  BY DEF KnownFits
<1>1. p.known[name] \in 0 .. LastType(p)
  <2>1. Compounds(p) = 10 .. LastType(p) /\ LastType(p) \in Nat
          /\ p.known[name] \in Compounds(p)
    BY PdFields
  <2>2. \A x : x \in 10 .. LastType(p) => x \in 0 .. LastType(p)
    BY <2>1
  <2> QED
    BY <2>1, <2>2
<1>2. Scalars(q)[m][p.known[name]] = Scalars(p)[m][p.known[name]]
  BY <1>1, SameTypesSameScalars
<1> QED
  BY <1>2 DEF KnownFits

(* The structure gets to be known.                                         *)
LEMMA KnowIs ==
  ASSUME NEW p \in Pds, NEW name \in Described, NEW c \in Compounds(p)
  PROVE  LET q == [p EXCEPT !.known[name] = c]
         IN  /\ q \in Pds /\ q.types = p.types /\ q.complex = p.complex
             /\ q.known = [p.known EXCEPT ![name] = c]
<1> DEFINE known == [p.known EXCEPT ![name] = c]
           q == [types |-> p.types, complex |-> p.complex, known |-> known]
<1>1. /\ p = [types |-> p.types, complex |-> p.complex, known |-> p.known]
      /\ p.types \in Seq(Compound) /\ p.complex \in [1 .. 9 -> Nat]
      /\ p.known \in [Described -> Nat] /\ HaveTypes(p.types)
      /\ Compounds(p) = 10 .. 9 + Len(p.types) /\ Len(p.types) \in Nat
      /\ \A t \in 1 .. 9 : p.complex[t] \in Compounds(p) \cup {NoType}
      /\ \A n \in Described : p.known[n] \in Compounds(p) \cup {NoType}
  BY PdFields
<1>2. [p EXCEPT !.known[name] = c] = q
  <2> DEFINE r == [types |-> p.types, complex |-> p.complex, known |-> p.known]
  <2>1. [r EXCEPT !.known[name] = c] = q
    OBVIOUS
  <2>2. p = r
    BY <1>1
  <2> HIDE DEF r, q
  <2> QED
    BY <2>1, <2>2
<1>3. c \in Nat
  BY <1>1
<1>4. known \in [Described -> Nat]
        /\ \A n \in Described : known[n] = NoType \/ known[n] \in 10 .. 9 + Len(p.types)
  BY <1>1, <1>3
<1>5. q \in Pds
  <2> HIDE DEF known
  <2> QED
    BY <1>1, <1>4, PdIntro
<1> QED
  BY <1>2, <1>5

LEMMA GrowsSelf == \A p \in Pds : Grows(p, p)
<1> TAKE p \in Pds
<1>1. LastType(p) <= LastType(p)
  BY PdFields
<1> QED
  BY <1>1 DEF Grows

LEMMA NewStructure ==
  ASSUME NEW p, PdInv(p), NEW name \in Described, NEW size \in Nat,
         p.known[name] = NoType
  PROVE  LET made == GetCompound(p, name, size)
         IN  /\ PdInv(made[1]) /\ Grows(p, made[1])
             /\ made[2] = made[1].known[name] /\ made[2] # NoType
             /\ made[2] \in 0 .. LastType(made[1])
<1> DEFINE n == NewCompound(p, size)
           c == LastType(n)
           k == [n EXCEPT !.known[name] = c]
           a == [pd |-> k, compound |-> c, desc |-> <<name, 1>>, offset |-> 0]
           levels == Len(Descriptions[name])
           q == MakeCompound[levels][a]
           made == GetCompound(p, name, size)
<1>1. p \in Pds /\ Whole(p, {}) /\ \A d \in Described : KnownFits(p, d)
  BY DEF PdInv
<1>2. HasNew(p, size, n)
  BY <1>1, NewCompoundIs
<1>3. made = <<q, c>>
  BY DEF GetCompound
<1>4. levels \in Nat /\ <<name, 1>> \in Sections
  <2>1. Descriptions[name] \in Seq(Seq(FieldDesc)) /\ Descriptions[name] # <<>>
    BY DescriptionsAssumption
  <2>2. levels \in Nat /\ levels # 0 /\ DOMAIN Descriptions[name] = 1 .. levels
    BY <2>1, LenProperties, EmptySeq
  <2>3. 1 \in 1 .. levels
    BY <2>2
  <2> QED
    BY <2>2, <2>3 DEF Sections
<1> HIDE DEF n, made, levels
<1>5. /\ n \in Pds /\ c = 9 + Len(n.types) /\ Len(n.types) = Len(p.types) + 1
      /\ Len(p.types) \in Nat /\ Compounds(n) = 10 .. c
      /\ LastType(p) = 9 + Len(p.types) /\ Compounds(p) = 10 .. LastType(p)
  BY <1>1, <1>2, PdFields DEF HasNew
<1> HIDE DEF c
<1>6. c \in Nat /\ c \in Compounds(n) /\ c - 9 = Len(p.types) + 1 /\ c # NoType
  BY <1>5
<1>7. /\ k \in Pds /\ k.types = n.types /\ k.complex = n.complex
      /\ k.known = [n.known EXCEPT ![name] = c]
  BY <1>5, <1>6, KnowIs
<1> HIDE DEF k
<1>8. Compounds(k) = 10 .. c /\ LastType(k) = c
  BY <1>5, <1>7, PdFields
<1>9. a \in Frames /\ Filled(a) = Len(p.types) + 1
  BY <1>4, <1>5, <1>6, <1>7, <1>8 DEF Frames, Filled
<1>10. a.pd = k /\ a.compound = c /\ a.desc = <<name, 1>> /\ a.offset = 0
         /\ a.desc[1] = name
  OBVIOUS
<1> HIDE DEF a
<1>11. Whole(k, {c})
  <2>1. Whole(n, {} \cup {LastType(n)})
    BY <1>1, <1>2, <1>5, NewIsWhole
  <2>2. {} \cup {LastType(n)} = {c}
    BY DEF c
  <2>3. Whole(n, {c})
    BY <2>1, <2>2
  <2> QED
    BY <1>7, <2>3 DEF Whole
<1>12. Ready(a, {c})
  <2>1. k.types[Filled(a)].fields = <<>>
    BY <1>2, <1>7, <1>9 DEF HasNew
  <2>2. Len(k.types[Filled(a)].fields) = 0
    BY <2>1, EmptySeq
  <2> QED
    BY <1>6, <1>5, <1>8, <1>10, <1>11, <2>2 DEF Ready
<1>13. MakeCompound[levels] \in Makers /\ Good(levels, MakeCompound[levels])
  BY <1>4, MakeCompoundIs, MakersAreGood
<1>14. q \in Pds /\ Kept(k, Filled(a), q)
  BY <1>9, <1>10, <1>13 DEF Makers
<1>15. /\ Whole(q, {})
       /\ ~Shifted(name) => \A m \in Nat : m >= levels + 2 =>
            Scalars(q)[m][c] = CScalars[levels][<<name, 1>>]
  <2>1. Whole(q, {c} \ {c})
    BY <1>9, <1>10, <1>12, <1>13 DEF Good
  <2>2. ~Shifted(name) => Unshifted(a)
    BY <1>10 DEF Unshifted
  <2>3. Unshifted(a) => \A m \in Nat : m >= levels + 2 =>
          Scalars(q)[m][a.compound] = CScalars[levels][a.desc]
    BY <1>9, <1>12, <1>13 DEF Good
  <2>4. {c} \ {c} = {}
    OBVIOUS
  <2>5. Whole(q, {})
    BY <2>1, <2>4
  <2> QED
    BY <1>10, <2>2, <2>3, <2>5
<1> HIDE DEF q
<1>16. q.known = k.known /\ Len(k.types) <= Len(q.types)
         /\ \A t \in 1 .. 9 : k.complex[t] # NoType => q.complex[t] = k.complex[t]
  BY <1>14 DEF Kept
<1>17. /\ q.known[name] = c
       /\ \A d \in Described : d # name => q.known[d] = p.known[d]
  BY <1>1, <1>2, <1>7, <1>16, PdFields DEF HasNew
<1>18. KnownFits(q, name)
  BY <1>15, <1>17 DEF KnownFits, levels
<1>19. ASSUME NEW d \in Described, d # name PROVE KnownFits(q, d)
  <2>1. KnownFits(p, d) /\ q.known[d] = p.known[d]
    BY <1>1, <1>17, <1>19
  <2>2. Len(p.types) <= Len(q.types) /\ Len(p.types) + 1 <= Len(q.types)
    <3>1. Len(q.types) \in Nat
      BY <1>14, PdFields
    <3> QED
      BY <1>5, <1>7, <1>16, <3>1
  <2>3. ASSUME NEW i \in 1 .. Len(p.types) PROVE q.types[i] = p.types[i]
    <3>1. i \in 1 .. Len(k.types) /\ i # Filled(a)
      BY <1>5, <1>7, <1>9
    <3>2. q.types[i] = k.types[i]
      BY <1>14, <3>1 DEF Kept
    <3> QED
      BY <1>2, <1>7, <3>2 DEF HasNew
  <2>4. 0 \notin 1 .. Len(p.types)
    OBVIOUS
  <2>5. Whole(p, {}) /\ p.known[d] \notin {}
    BY <1>1
  <2> QED
    BY <1>1, <1>14, <2>1, <2>2, <2>3, <2>4, <2>5, KnownStays
<1>20. PdInv(q)
  BY <1>14, <1>15, <1>18, <1>19 DEF PdInv
<1>21. LastType(q) = 9 + Len(q.types) /\ Len(q.types) \in Nat
  BY <1>14, PdFields
<1>22. Grows(p, q)
  <2>1. LastType(p) <= LastType(q)
    BY <1>5, <1>7, <1>16, <1>21
  <2>2. \A t \in 1 .. 9 : p.complex[t] # NoType => q.complex[t] = p.complex[t]
    BY <1>2, <1>7, <1>16 DEF HasNew
  <2>3. \A d \in Described : p.known[d] # NoType => q.known[d] = p.known[d]
    BY <1>17
  <2> QED
    BY <2>1, <2>2, <2>3 DEF Grows
<1>23. c \in 0 .. LastType(q)
  BY <1>5, <1>6, <1>7, <1>16, <1>21
<1>24. made[1] = q /\ made[2] = c
  BY <1>3 DEF q
<1> QED
  BY <1>6, <1>17, <1>20, <1>22, <1>23, <1>24 DEF made

LEMMA TypeIsGot ==
  ASSUME NEW p, PdInv(p), NEW t \in DataType, HasItsSize(t)
  PROVE  Got(p, t, GetDataType(p, t))
<1> DEFINE made == GetDataType(p, t)
<1>1. p \in Pds /\ Whole(p, {}) /\ \A d \in Described : KnownFits(p, d)
  BY DEF PdInv
<1>2. t.size \in Nat /\ t.complex \in BOOLEAN
  BY DEF DataType
<1>3. Grows(p, p) /\ 0 \in 0 .. LastType(p) /\ LastType(p) \in Nat
  <2>1. LastType(p) \in Nat
    BY <1>1, PdFields
  <2> QED
    BY <1>1, <2>1, GrowsSelf
<1>4. CASE t.id = "struct" /\ t.mwName \notin Described
  <2>1. made = <<p, NoType>>
    BY <1>4 DEF GetDataType, GetCompound
  <2>2. made[1] = p /\ made[2] = NoType
    BY <2>1
  <2>3. TypeIn(p, t) = NoType /\ ~CanHave(t)
    BY <1>4 DEF TypeIn, CanHave
  <2> HIDE DEF made
  <2>4. Got(p, t, made)
    BY <1>3, <2>2, <2>3 DEF Got
  <2> QED
    BY <2>4 DEF made
<1>5. CASE t.id = "struct" /\ t.mwName \in Described /\ p.known[t.mwName] # NoType
  <2>1. made = <<p, p.known[t.mwName]>>
    BY <1>5 DEF GetDataType, GetCompound
  <2>2. made[1] = p /\ made[2] = p.known[t.mwName]
    BY <2>1
  <2>3. TypeIn(p, t) = p.known[t.mwName] /\ CanHave(t)
    BY <1>5 DEF TypeIn, CanHave
  <2>4. p.known[t.mwName] \in 0 .. LastType(p)
    <3>1. p.known[t.mwName] \in 10 .. LastType(p)
      BY <1>1, <1>5, PdFields
    <3>2. \A x : x \in 10 .. LastType(p) => x \in 0 .. LastType(p)
      BY <1>3
    <3> QED
      BY <3>1, <3>2
  <2> HIDE DEF made
  <2>5. Got(p, t, made)
    BY <1>3, <1>5, <2>2, <2>3, <2>4 DEF Got
  <2> QED
    BY <2>5 DEF made
<1>6. CASE t.id = "struct" /\ t.mwName \in Described /\ p.known[t.mwName] = NoType
  <2>1. made = GetCompound(p, t.mwName, t.size)
    BY <1>6 DEF GetDataType
  <2>2. /\ PdInv(made[1]) /\ Grows(p, made[1])
        /\ made[2] = made[1].known[t.mwName] /\ made[2] # NoType
        /\ made[2] \in 0 .. LastType(made[1])
    BY <1>2, <1>6, <2>1, NewStructure
  <2> HIDE DEF made
  <2>3. TypeIn(made[1], t) = made[2] /\ CanHave(t)
    BY <1>6, <2>2 DEF TypeIn, CanHave
  <2>4. Got(p, t, made)
    BY <2>2, <2>3 DEF Got
  <2> QED
    BY <2>4 DEF made
<1>7. CASE t.id # "struct"
  <2>1. made = BuiltInOrComplex(p, t.id, t.size, t.complex)
    BY <1>7 DEF GetDataType
  <2>2. MadeNumber(p, t.id, t.complex, {}, made)
    BY <1>1, <1>2, <2>1, NumberIsMade DEF HasItsSize
  <2> HIDE DEF made
  <2> DEFINE q == made[1]
  <2>3. /\ q \in Pds /\ Kept(p, 0, q) /\ Whole(q, {})
        /\ made[2] \in 0 .. LastType(q)
        /\ made[2] = NumberType(q, t.id, t.complex)
        /\ made[2] = NoType <=> ~Contains(BuiltIn, t.id)
    BY <1>1, <2>2 DEF MadeNumber
  <2>4. TypeIn(q, t) = made[2] /\ (CanHave(t) <=> Contains(BuiltIn, t.id))
    BY <1>7, <2>3 DEF TypeIn, CanHave
  <2> HIDE DEF q
  <2>5. /\ Len(p.types) <= Len(q.types) /\ q.known = p.known
        /\ \A i \in 1 .. Len(p.types) : i # 0 => q.types[i] = p.types[i]
        /\ \A u \in 1 .. 9 : p.complex[u] # NoType => q.complex[u] = p.complex[u]
    BY <2>3 DEF Kept
  <2>6. Grows(p, q)
    <3>1. LastType(p) <= LastType(q)
      BY <1>1, <2>3, LastOfKept
    <3> QED
      BY <2>5, <3>1 DEF Grows
  <2>7. ASSUME NEW d \in Described PROVE KnownFits(q, d)
    <3>1. 0 \notin 1 .. Len(p.types) /\ p.known[d] \notin {}
      OBVIOUS
    <3> QED
      BY <1>1, <2>3, <2>5, <3>1, KnownStays
  <2>8. PdInv(q)
    BY <2>3, <2>7 DEF PdInv
  <2>9. Got(p, t, made)
    BY <2>3, <2>4, <2>6, <2>8 DEF Got, q
  <2> QED
    BY <2>9 DEF made
<1> QED
  BY <1>4, <1>5, <1>6, <1>7

-----------------------------------------------------------------------------
(* The elements of arrays *)

(* The recursive functions that find a place or count the elements: each   *)
(* of them is one that goes on from its first value.                       *)
GoesC(place, d, x) ==
  place[0] = 0 /\ \A k \in 1 .. Len(d) : place[k] = place[k - 1] * d[k] + x[k]

LEMMA PlaceInCIs ==
  ASSUME NEW d, Len(d) \in Nat, \A k \in 1 .. Len(d) : d[k] \in Nat,
         NEW x, \A k \in 1 .. Len(d) : x[k] \in Nat
  PROVE  \E place \in [0 .. Len(d) -> Nat] :
           GoesC(place, d, x) /\ PlaceInC(d, x) = place[Len(d)]
<1> DEFINE L == Len(d)
           G == [ix \in (1 .. L) \X Nat |-> ix[2] * d[ix[1]] + x[ix[1]]]
           step(f) == [k \in 0 .. L |-> IF k = 0 THEN 0 ELSE f[k - 1] * d[k] + x[k]]
           run == CHOOSE f : f = step(f)
<1>1. ASSUME NEW i \in 1 .. L, NEW y \in Nat
      PROVE  G[<<i, y>>] = y * d[i] + x[i] /\ G[<<i, y>>] \in Nat
  <2>1. G[<<i, y>>] = y * d[i] + x[i]
    OBVIOUS
  <2>2. d[i] \in Nat /\ x[i] \in Nat
    OBVIOUS
  <2> HIDE DEF G
  <2>3. y * d[i] \in Nat
    BY <2>2
  <2>4. \A z \in Nat : z + x[i] \in Nat
    BY <2>2
  <2> QED
    BY <2>1, <2>3, <2>4
<1> HIDE DEF G
<1>2. PICK f \in [0 .. L -> Nat] : Computes(f, L, 0, G)
  <2>1. L \in Nat /\ 0 \in Nat
    OBVIOUS
  <2>2. \A i \in 1 .. L : \A y \in Nat : G[<<i, y>>] \in Nat
    BY <1>1
  <2> HIDE DEF L
  <2> QED
    BY <2>1, <2>2, ComputationExists
<1> HIDE DEF L
<1>3. L \in Nat
  BY DEF L
<1>4. f[0] = 0 /\ \A i \in 1 .. L : f[i] = f[i - 1] * d[i] + x[i]
  <2>1. ASSUME NEW i \in 1 .. L PROVE f[i] = f[i - 1] * d[i] + x[i]
    <3>1. f[i - 1] \in Nat
      BY <1>3
    <3>2. f[i] = G[<<i, f[i - 1]>>]
      BY <1>2 DEF Computes
    <3> QED
      BY <1>1, <3>1, <3>2
  <2> QED
    BY <1>2, <2>1 DEF Computes
<1>5. f = step(f)
  <2>1. \A i \in 0 .. L : f[i] = IF i = 0 THEN 0 ELSE f[i - 1] * d[i] + x[i]
    <3>1. \A i \in 0 .. L : i = 0 \/ i \in 1 .. L
      BY <1>3
    <3> QED
      BY <1>4, <3>1
  <2> QED
    BY <2>1
<1>6. run = step(run)
  BY <1>5
<1>7. run[0] = 0 /\ \A i \in 1 .. L : run[i] = run[i - 1] * d[i] + x[i]
  <2> HIDE DEF run
  <2>1. \A i \in 0 .. L : run[i] = IF i = 0 THEN 0 ELSE run[i - 1] * d[i] + x[i]
    BY <1>6
  <2>2. 0 \in 0 .. L /\ \A i \in 1 .. L : i \in 0 .. L /\ i # 0
    BY <1>3
  <2> QED
    BY <2>1, <2>2
<1> HIDE DEF run
<1>8. run[L] = f[L]
  <2>1. run[0] = f[0] /\ \A i \in 1 .. L : run[i - 1] = f[i - 1] => run[i] = f[i]
    BY <1>4, <1>7
  <2>2. \A i \in 0 .. L : run[i] = f[i]
    BY <1>3, <2>1, RunsAlike
  <2> QED
    BY <1>3, <2>2
<1>9. PlaceInC(d, x) = run[L]
  BY DEF PlaceInC, run, L
<1>10. GoesC(f, d, x)
  BY <1>4 DEF GoesC, L
<1> QED
  BY <1>8, <1>9, <1>10 DEF L

LEMMA ElementsIs ==
  ASSUME NEW d, Len(d) \in Nat, \A k \in 1 .. Len(d) : d[k] \in Nat
  PROVE  \E n \in [0 .. Len(d) -> Nat] :
           /\ n[0] = 1 /\ \A k \in 1 .. Len(d) : n[k] = n[k - 1] * d[k]
           /\ Elements(d) = n[Len(d)]
<1> DEFINE L == Len(d)
           G == [ix \in (1 .. L) \X Nat |-> ix[2] * d[ix[1]]]
           step(f) == [k \in 0 .. L |-> IF k = 0 THEN 1 ELSE f[k - 1] * d[k]]
           run == CHOOSE f : f = step(f)
<1>1. ASSUME NEW i \in 1 .. L, NEW y \in Nat
      PROVE  G[<<i, y>>] = y * d[i] /\ G[<<i, y>>] \in Nat
  <2>1. G[<<i, y>>] = y * d[i]
    OBVIOUS
  <2>2. d[i] \in Nat
    OBVIOUS
  <2> HIDE DEF G
  <2> QED
    BY <2>1, <2>2
<1> HIDE DEF G
<1>2. PICK f \in [0 .. L -> Nat] : Computes(f, L, 1, G)
  <2>1. L \in Nat /\ 1 \in Nat
    OBVIOUS
  <2>2. \A i \in 1 .. L : \A y \in Nat : G[<<i, y>>] \in Nat
    BY <1>1
  <2> HIDE DEF L
  <2> QED
    BY <2>1, <2>2, ComputationExists
<1> HIDE DEF L
<1>3. L \in Nat
  BY DEF L
<1>4. f[0] = 1 /\ \A i \in 1 .. L : f[i] = f[i - 1] * d[i]
  <2>1. ASSUME NEW i \in 1 .. L PROVE f[i] = f[i - 1] * d[i]
    <3>1. f[i - 1] \in Nat
      BY <1>3
    <3>2. f[i] = G[<<i, f[i - 1]>>]
      BY <1>2 DEF Computes
    <3> QED
      BY <1>1, <3>1, <3>2
  <2> QED
    BY <1>2, <2>1 DEF Computes
<1>5. f = step(f)
  <2>1. \A i \in 0 .. L : f[i] = IF i = 0 THEN 1 ELSE f[i - 1] * d[i]
    <3>1. \A i \in 0 .. L : i = 0 \/ i \in 1 .. L
      BY <1>3
    <3> QED
      BY <1>4, <3>1
  <2> QED
    BY <2>1
<1>6. run = step(run)
  BY <1>5
<1>7. run[0] = 1 /\ \A i \in 1 .. L : run[i] = run[i - 1] * d[i]
  <2> HIDE DEF run
  <2>1. \A i \in 0 .. L : run[i] = IF i = 0 THEN 1 ELSE run[i - 1] * d[i]
    BY <1>6
  <2>2. 0 \in 0 .. L /\ \A i \in 1 .. L : i \in 0 .. L /\ i # 0
    BY <1>3
  <2> QED
    BY <2>1, <2>2
<1> HIDE DEF run
<1>8. run[L] = f[L]
  <2>1. run[0] = f[0] /\ \A i \in 1 .. L : run[i - 1] = f[i - 1] => run[i] = f[i]
    BY <1>4, <1>7
  <2>2. \A i \in 0 .. L : run[i] = f[i]
    BY <1>3, <2>1, RunsAlike
  <2> QED
    BY <1>3, <2>2
<1>9. Elements(d) = run[L]
  BY DEF Elements, run, L
<1> QED
  BY <1>4, <1>8, <1>9 DEF L

LEMMA ReverseIs ==
  ASSUME NEW s, Len(s) \in Nat, NEW S, \A k \in 1 .. Len(s) : s[k] \in S
  PROVE  /\ Reverse(s) \in Seq(S) /\ Len(Reverse(s)) = Len(s)
         /\ DOMAIN Reverse(s) = 1 .. Len(s)
         /\ \A k \in 1 .. Len(s) : Reverse(s)[k] = s[Len(s) + 1 - k]
<1> DEFINE L == Len(s)
           r == [k \in 1 .. L |-> s[(L - k) + 1]]
<1>1. Reverse(s) = r
  BY DEF Reverse
<1>2. \A k \in 1 .. L : (L - k) + 1 \in 1 .. L /\ (L - k) + 1 = L + 1 - k
  OBVIOUS
<1>3. r \in [1 .. L -> S]
  BY <1>2
<1>4. \A k \in 1 .. L : r[k] = s[L + 1 - k]
  BY <1>2
<1>5. L \in Nat
  OBVIOUS
<1> HIDE DEF r, L
<1>6. r \in Seq(S) /\ Len(r) = L
  BY <1>3, <1>5, FunctionIsSeq
<1> QED
  BY <1>1, <1>3, <1>4, <1>6 DEF L

(* The place of the reversed indexes in the reversed dimensions: the same  *)
(* steps in the same order.                                                *)
LEMMA PlaceInReverse ==
  ASSUME NEW d, Len(d) \in Nat, \A k \in 1 .. Len(d) : d[k] \in Nat,
         NEW x, Len(x) = Len(d), \A k \in 1 .. Len(d) : x[k] \in Nat
  PROVE  PlaceInC(Reverse(d), Reverse(x)) = PlaceInMatlab(d, x)
<1> DEFINE L == Len(d)
           e == Reverse(d)
           y == Reverse(x)
           step(m) == [k \in 1 .. L + 1 |->
                         IF k = L + 1 THEN 0 ELSE x[k] + d[k] * m[k + 1]]
           run == CHOOSE m : m = step(m)
<1>1. /\ Len(e) = L /\ Len(y) = L /\ L \in Nat
      /\ \A k \in 1 .. L : /\ e[k] = d[L + 1 - k] /\ y[k] = x[L + 1 - k]
                           /\ e[k] \in Nat /\ y[k] \in Nat
                           /\ d[k] \in Nat /\ x[k] \in Nat
  <2>1. /\ Len(e) = L /\ \A k \in 1 .. L : e[k] = d[L + 1 - k]
    BY ReverseIs
  <2>2. /\ Len(y) = L /\ \A k \in 1 .. L : y[k] = x[L + 1 - k]
    BY ReverseIs
  <2>3. \A k \in 1 .. L : L + 1 - k \in 1 .. L
    OBVIOUS
  <2> HIDE DEF e, y
  <2> QED
    BY <2>1, <2>2, <2>3
<1> HIDE DEF L, e, y
<1>2. PICK f \in [0 .. L -> Nat] : GoesC(f, e, y) /\ PlaceInC(e, y) = f[L]
  BY <1>1, PlaceInCIs
<1>3. f[0] = 0 /\ \A k \in 1 .. L :
        f[k] = f[k - 1] * d[L + 1 - k] + x[L + 1 - k] /\ f[k - 1] \in Nat
  <2>1. \A k \in 1 .. L : k - 1 \in 0 .. L
    BY <1>1
  <2> QED
    BY <1>1, <1>2, <2>1 DEF GoesC
<1> DEFINE m == [k \in 1 .. L + 1 |-> f[L + 1 - k]]
<1>4. m = step(m)
  <2>1. ASSUME NEW k \in 1 .. L + 1
        PROVE  m[k] = IF k = L + 1 THEN 0 ELSE x[k] + d[k] * m[k + 1]
    <3>1. CASE k = L + 1
      <4>1. L + 1 - k = 0
        BY <1>1, <3>1
      <4> QED
        BY <1>3, <3>1, <4>1
    <3>2. CASE k # L + 1
      <4>1. /\ k \in 1 .. L /\ L + 1 - k \in 1 .. L /\ k + 1 \in 1 .. L + 1
            /\ L + 1 - (L + 1 - k) = k /\ (L + 1 - k) - 1 = L + 1 - (k + 1)
        BY <1>1, <3>2
      <4>2. m[k] = f[L + 1 - k] /\ m[k + 1] = f[(L + 1 - k) - 1]
        BY <4>1
      <4> HIDE DEF m
      <4>3. f[L + 1 - k] = m[k + 1] * d[k] + x[k] /\ m[k + 1] \in Nat
        BY <1>3, <4>1, <4>2
      <4>4. d[k] \in Nat /\ x[k] \in Nat
        BY <1>1, <4>1
      <4>5. m[k + 1] * d[k] = d[k] * m[k + 1] /\ d[k] * m[k + 1] \in Nat
        BY <4>3, <4>4
      <4>6. \A z \in Nat : z + x[k] = x[k] + z
        BY <4>4
      <4> QED
        BY <3>2, <4>2, <4>3, <4>5, <4>6
    <3> QED
      BY <3>1, <3>2
  <2>2. m = [k \in 1 .. L + 1 |-> m[k]]
    OBVIOUS
  <2>3. m = [k \in 1 .. L + 1 |-> IF k = L + 1 THEN 0 ELSE x[k] + d[k] * m[k + 1]]
    <3> HIDE DEF m
    <3> QED
      BY <2>1, <2>2
  <2> QED
    BY <2>3
<1> HIDE DEF m
<1>5. run = step(run)
  BY <1>4
<1> HIDE DEF run
<1>6. \A k \in 1 .. L + 1 :
        run[k] = IF k = L + 1 THEN 0 ELSE x[k] + d[k] * run[k + 1]
  BY <1>5
<1> DEFINE g == [k \in 0 .. L |-> run[L + 1 - k]]
<1>7. g[0] = f[0] /\ \A k \in 1 .. L : g[k - 1] = f[k - 1] => g[k] = f[k]
  <2>1. g[0] = 0
    <3>1. 0 \in 0 .. L /\ L + 1 - 0 = L + 1 /\ L + 1 \in 1 .. L + 1
      BY <1>1
    <3> QED
      BY <1>6, <3>1
  <2>2. ASSUME NEW k \in 1 .. L, g[k - 1] = f[k - 1] PROVE g[k] = f[k]
    <3> DEFINE i == L + 1 - k
    <3>1. /\ i \in 1 .. L + 1 /\ i # L + 1 /\ i + 1 = L + 1 - (k - 1) /\ i \in 1 .. L
          /\ k \in 0 .. L /\ k - 1 \in 0 .. L
      BY <1>1
    <3>2. g[k] = run[i] /\ g[k - 1] = run[i + 1]
      BY <3>1
    <3> HIDE DEF g, i
    <3>3. run[i] = x[i] + d[i] * f[k - 1]
      BY <1>6, <2>2, <3>1, <3>2
    <3>4. f[k] = f[k - 1] * d[i] + x[i] /\ f[k - 1] \in Nat
      BY <1>3 DEF i
    <3>5. d[i] \in Nat /\ x[i] \in Nat
      BY <1>1, <3>1
    <3>6. f[k - 1] * d[i] = d[i] * f[k - 1] /\ d[i] * f[k - 1] \in Nat
      BY <3>4, <3>5
    <3>7. \A z \in Nat : z + x[i] = x[i] + z
      BY <3>5
    <3> QED
      BY <3>2, <3>3, <3>4, <3>6, <3>7
  <2> HIDE DEF g
  <2> QED
    BY <1>3, <2>1, <2>2
<1>8. g[L] = run[1]
  <2>1. L \in 0 .. L /\ L + 1 - L = 1
    BY <1>1
  <2> QED
    BY <2>1
<1> HIDE DEF g
<1>9. run[1] = f[L]
  <2>1. L \in Nat
    BY <1>1
  <2> HIDE DEF step
  <2>2. \A k \in 0 .. L : g[k] = f[k]
    BY <1>7, <2>1, RunsAlike
  <2> QED
    BY <1>8, <2>1, <2>2
<1>10. PlaceInMatlab(d, x) = run[1]
  BY DEF PlaceInMatlab, run, L
<1> QED
  BY <1>2, <1>9, <1>10 DEF e, y

LEMMA IndexesIn ==
  ASSUME NEW d, NEW n \in Nat, DOMAIN d = 1 .. n, NEW x
  PROVE  x \in Indexes(d) =>
           /\ x \in [1 .. n -> Nat]
           /\ \A k \in 1 .. n : x[k] < d[k]
<1> SUFFICES ASSUME x \in Indexes(d)
             PROVE  /\ x \in [1 .. n -> Nat]
                    /\ \A k \in 1 .. n : x[k] < d[k]
  OBVIOUS
<1>1. /\ x \in [1 .. n -> UNION {0 .. d[k] - 1 : k \in 1 .. n}]
      /\ \A k \in 1 .. n : x[k] < d[k]
  BY DEF Indexes
<1>2. UNION {0 .. d[k] - 1 : k \in 1 .. n} \subseteq Nat
  OBVIOUS
<1>3. x \in [1 .. n -> Nat]
  BY <1>1, <1>2
<1> QED
  BY <1>1, <1>3

LEMMA IndexesIntro ==
  ASSUME NEW d, NEW n \in Nat, DOMAIN d = 1 .. n,
         \A k \in 1 .. n : d[k] \in Nat,
         NEW x \in [1 .. n -> Nat], \A k \in 1 .. n : x[k] < d[k]
  PROVE  x \in Indexes(d)
<1>1. ASSUME NEW k \in 1 .. n
      PROVE  x[k] \in UNION {0 .. d[j] - 1 : j \in 1 .. n}
  <2>1. d[k] \in Nat /\ x[k] \in Nat /\ x[k] < d[k]
    OBVIOUS
  <2>2. x[k] \in 0 .. d[k] - 1
    BY <2>1
  <2> QED
    BY <2>2
<1>2. x \in [1 .. n -> UNION {0 .. d[j] - 1 : j \in 1 .. n}]
  BY <1>1
<1> QED
  BY <1>2 DEF Indexes

LEMMA ReverseOfIndexes ==
  ASSUME NEW d \in Seq(Nat \ {0}), NEW x \in Indexes(d)
  PROVE  /\ Reverse(x) \in Indexes(Reverse(d))
         /\ PlaceInC(Reverse(d), Reverse(x)) = PlaceInMatlab(d, x)
<1> DEFINE n == Len(d)
<1>1. n \in Nat /\ DOMAIN d = 1 .. n
  BY LenProperties
<1>2. \A k \in 1 .. n : d[k] \in Nat
  BY ElementOfSeq
<1>3. x \in [1 .. n -> Nat] /\ \A k \in 1 .. n : x[k] < d[k]
  BY <1>1, IndexesIn
<1>4. Len(x) = n
  BY <1>1, <1>3, FunctionIsSeq
<1>5. \A k \in 1 .. n : x[k] \in Nat
  BY <1>3
<1>6. /\ Len(Reverse(d)) = n /\ DOMAIN Reverse(d) = 1 .. n
      /\ \A k \in 1 .. n : Reverse(d)[k] = d[n + 1 - k]
  BY <1>1, <1>2, ReverseIs
<1>7. /\ Reverse(x) \in Seq(Nat) /\ Len(Reverse(x)) = n
      /\ DOMAIN Reverse(x) = 1 .. n
      /\ \A k \in 1 .. n : Reverse(x)[k] = x[n + 1 - k]
  BY <1>1, <1>4, <1>5, ReverseIs
<1> HIDE DEF n
<1>8. \A k \in 1 .. n : n + 1 - k \in 1 .. n
  BY <1>1
<1>9. Reverse(x) \in [1 .. n -> Nat]
  BY <1>7, LenProperties
<1>10. /\ \A k \in 1 .. n : Reverse(x)[k] < Reverse(d)[k]
       /\ \A k \in 1 .. n : Reverse(d)[k] \in Nat
  BY <1>2, <1>3, <1>6, <1>7, <1>8
<1>11. Reverse(x) \in Indexes(Reverse(d))
  BY <1>1, <1>6, <1>9, <1>10, IndexesIntro
<1>12. PlaceInC(Reverse(d), Reverse(x)) = PlaceInMatlab(d, x)
  <2>1. Len(d) \in Nat /\ Len(x) = Len(d)
    BY <1>1, <1>4 DEF n
  <2>2. \A k \in 1 .. Len(d) : d[k] \in Nat /\ x[k] \in Nat
    BY <1>2, <1>5 DEF n
  <2> QED
    BY <2>1, <2>2, PlaceInReverse
<1> QED
  BY <1>11, <1>12

LEMMA AllElements ==
  ASSUME NEW d \in Seq(Nat \ {0})
  PROVE  /\ Len(d) \in Nat
         /\ (\A k \in DOMAIN d : d[k] = 1) => Elements(d) = 1
         /\ Len(d) = 2 => Elements(d) = d[1] * d[2]
<1> DEFINE L == Len(d)
<1>1. L \in Nat /\ DOMAIN d = 1 .. L
  BY LenProperties
<1>2. \A k \in 1 .. L : d[k] \in Nat
  BY ElementOfSeq
<1>3. PICK n \in [0 .. L -> Nat] :
        /\ n[0] = 1 /\ \A k \in 1 .. L : n[k] = n[k - 1] * d[k]
        /\ Elements(d) = n[L]
  BY <1>1, <1>2, ElementsIs
<1> HIDE DEF L
<1>4. ASSUME \A k \in 1 .. L : d[k] = 1 PROVE n[L] = 1
  <2> DEFINE S == {k \in Nat : k <= L => n[k] = 1}
  <2>1. 0 \in S
    BY <1>3
  <2>2. ASSUME NEW k \in Nat, k \in S PROVE k + 1 \in S
    <3> SUFFICES ASSUME k + 1 <= L PROVE n[k + 1] = 1
      OBVIOUS
    <3>1. k + 1 \in 1 .. L /\ (k + 1) - 1 = k /\ n[k] = 1
      BY <1>1, <2>2
    <3>2. n[k + 1] = n[k] * d[k + 1] /\ d[k + 1] = 1
      BY <1>3, <1>4, <3>1
    <3> QED
      BY <3>1, <3>2
  <2>3. Nat \subseteq S
    <3> HIDE DEF S
    <3> QED
      BY <2>1, <2>2, Induct
  <2>4. \A k \in Nat : k <= L => n[k] = 1
    BY <2>3
  <2>5. L <= L
    BY <1>1
  <2> QED
    BY <1>1, <2>4, <2>5
<1>5. ASSUME L = 2 PROVE n[L] = d[1] * d[2]
  <2>1. n[1] = n[0] * d[1] /\ n[2] = n[1] * d[2]
    <3>1. 1 \in 1 .. L /\ 2 \in 1 .. L /\ 1 - 1 = 0 /\ 2 - 1 = 1
      BY <1>5
    <3>2. n[1] = n[1 - 1] * d[1] /\ n[2] = n[2 - 1] * d[2]
      BY <1>3, <3>1
    <3> QED
      BY <3>1, <3>2
  <2>2. n[0] = 1 /\ d[1] \in Nat
    BY <1>2, <1>3, <1>5
  <2>3. n[1] = d[1]
    BY <2>1, <2>2
  <2> QED
    BY <1>5, <2>1, <2>3
<1> QED
  BY <1>1, <1>3, <1>4, <1>5 DEF L

(* The dimensions are those of the elements, or reversed as the places are. *)
LEMMA DimsAreThere ==
  ASSUME NEW s, s.dims \in Seq(Nat \ {0}), s.orientation \in Orientations,
         HasItsShape(s)
  PROVE  ElementsAreThere(s, Dims(s))
<1> DEFINE d == s.dims
<1>1. CASE s.orientation = "scalar"
  <2>1. Dims(s) = <<1>>
    BY <1>1 DEF Dims
  <2>2. Elements(d) = 1
    BY <1>1, AllElements DEF HasItsShape
  <2> QED
    BY <2>1, <2>2 DEF ElementsAreThere
<1>2. CASE /\ Len(d) = 2
           /\ \/ s.orientation = "vector"
              \/ s.orientation = "column" /\ d[2] = 1
  <2>1. Dims(s) = <<d[1] * d[2]>>
    BY <1>2 DEF Dims
  <2>2. Elements(d) = d[1] * d[2]
    BY <1>2, AllElements
  <2> QED
    BY <2>1, <2>2 DEF ElementsAreThere
<1>3. CASE s.orientation = "row"
  <2>1. Dims(s) = d
    BY <1>3 DEF Dims, HasItsShape
  <2> QED
    BY <1>3, <2>1 DEF ElementsAreThere
<1>4. CASE /\ s.orientation \notin {"scalar", "row"}
           /\ ~(/\ Len(d) = 2
                /\ \/ s.orientation = "vector"
                   \/ s.orientation = "column" /\ d[2] = 1)
  <2>1. Dims(s) = Reverse(d)
    BY <1>4 DEF Dims
  <2>2. \A x \in Indexes(d) :
          /\ Reverse(x) \in Indexes(Reverse(d))
          /\ PlaceInC(Reverse(d), Reverse(x)) = PlaceInMatlab(d, x)
    BY ReverseOfIndexes
  <2> QED
    BY <1>4, <2>1, <2>2 DEF ElementsAreThere
<1> QED
  BY <1>1, <1>2, <1>3, <1>4

-----------------------------------------------------------------------------
(* The models *)

ModelFacts(m) ==
  /\ m.mt \in BOOLEAN /\ m.tid01eq \in BOOLEAN /\ m.dilation \in Nat \ {0}
  /\ m.sampleTimes \in Seq([tid : Int, period : Nat])
  /\ m.signals \in Seq(Signals) /\ m.params \in Seq(Parameters)
  /\ m.modelParams \in Seq(Parameters)
  /\ HasItsRates(m)

LEMMA ModelIs == \A m \in Models : ModelFacts(m)
<1> TAKE m \in Models
<1>1. m \in ModelTables /\ HasItsRates(m)
  BY ModelsAssumption
<1> QED
  BY <1>1 DEF ModelTables, ModelFacts

TableNames == {"signals", "params", "modelParams"}

LEMMA TableNamesAre == DOMAIN NextTable = TableNames
BY DEF NextTable, TableNames

EntryFacts(m, table, s) ==
  /\ Types[s.type] \in DataType /\ HasItsSize(Types[s.type])
  /\ s.dims \in Seq(Nat \ {0}) /\ s.orientation \in Orientations
  /\ HasItsShape(s)
  /\ s.block \in Seq(STRING)
  /\ table = "signals" =>
       /\ s.sampleTime \in DOMAIN m.sampleTimes
       /\ s.block # <<>>
       /\ \A i \in 1 .. Len(m.signals) : Head(m.signals[i].block) = Head(s.block)

LEMMA TablesAre ==
  ASSUME NEW m \in Models, NEW table \in TableNames
  PROVE  /\ Len(m[table]) \in Nat /\ DOMAIN m[table] = 1 .. Len(m[table])
         /\ \A i \in 1 .. Len(m[table]) : EntryFacts(m, table, m[table][i])
<1>1. ModelFacts(m)
  BY ModelIs
<1>2. m[table] \in Seq(Signals) \/ m[table] \in Seq(Parameters)
  BY <1>1 DEF ModelFacts, TableNames
<1>3. Len(m[table]) \in Nat /\ DOMAIN m[table] = 1 .. Len(m[table])
  BY <1>2, LenProperties
<1>4. ASSUME NEW i \in 1 .. Len(m[table])
      PROVE  EntryFacts(m, table, m[table][i])
  <2> DEFINE s == m[table][i]
  <2>1. s \in Signals \/ s \in Parameters
    BY <1>2, ElementOfSeq
  <2>2. s \in Range(m.signals) \cup Range(m.params) \cup Range(m.modelParams)
    <3>1. s \in Range(m[table])
      BY <1>3 DEF Range
    <3> QED
      BY <3>1 DEF TableNames
  <2>3. HasItsShape(s)
    BY <2>2, ModelsAssumption
  <2>4. ASSUME table = "signals"
        PROVE  /\ s.sampleTime \in DOMAIN m.sampleTimes
               /\ s.block # <<>>
               /\ \A j \in 1 .. Len(m.signals) : Head(m.signals[j].block) = Head(s.block)
    <3>1. s \in Range(m.signals)
      BY <1>3, <2>4 DEF Range
    <3>2. \A j \in 1 .. Len(m.signals) : m.signals[j] \in Range(m.signals)
      BY <1>3, <2>4 DEF Range
    <3> HIDE DEF s
    <3> QED
      BY <3>1, <3>2, ModelsAssumption
  <2> HIDE DEF s
  <2>5. /\ s.type \in DOMAIN Types /\ s.dims \in Seq(Nat \ {0})
        /\ s.orientation \in Orientations /\ s.block \in Seq(STRING)
    BY <2>1 DEF Signals, Parameters
  <2>6. Types[s.type] \in DataType /\ HasItsSize(Types[s.type])
    BY <2>5, TypesAssumption
  <2>7. EntryFacts(m, table, s)
    BY <2>3, <2>4, <2>5, <2>6 DEF EntryFacts
  <2> QED
    BY <2>7 DEF s
<1> QED
  BY <1>3, <1>4

(* What depends on the state, of a state with the model m.                 *)
PeriodIn(m, tid, i) ==
  /\ i \in DOMAIN m.sampleTimes /\ i <= Cardinality(TidsOf(m))
  /\ m.sampleTimes[i].tid = tid /\ m.sampleTimes[i].period # 0

NumTasksIn(m) == IF m.mt THEN Cardinality(TidsOf(m)) - BaseTid(m) ELSE 1

RelatedIn(m, i) ==
  \/ i - 1 \in DOMAIN m.signals /\ m.signals[i - 1].block = m.signals[i].block
  \/ i + 1 \in DOMAIN m.signals /\ m.signals[i + 1].block = m.signals[i].block

PathIn(m, i) ==
  LET s == m.signals[i]
  IN  Tail(s.block) \o (IF ~RelatedIn(m, i) THEN <<>>
                        ELSE IF s.name # "" THEN <<s.name>> ELSE <<s.port>>)

TaskIn(m, st) ==
  IF m.mt /\ st.tid >= 0
  THEN 1 + st.tid - (IF st.tid # 0 THEN BaseTid(m) ELSE 0)
  ELSE 1

DecimationIn(m, ts, st) ==
  IF ~m.mt /\ st.tid >= 0 /\ st.period # 0
  THEN (2 * st.period + ts) \div (2 * ts)
  ELSE 1

LEMMA InThisState ==
  /\ NumTasks = NumTasksIn(model) /\ TidEq = BaseTid(model)
  /\ \A t : SlTid(t) = (t - 1) + BaseTid(model)
  /\ \A tid, i : HasPeriod(tid, i) <=> PeriodIn(model, tid, i)
  /\ \A i : Related(i) <=> RelatedIn(model, i)
  /\ \A i : SignalPath(i) = PathIn(model, i)
  /\ \A st : TaskOf(st) = TaskIn(model, st)
  /\ \A st : Decimation(st) = DecimationIn(model, tasks[1].sample_time, st)
<1>1. TidEq = BaseTid(model)
  BY DEF TidEq, BaseTid
<1>2. NumTasks = NumTasksIn(model)
  BY <1>1 DEF NumTasks, NumTasksIn, NumSt
<1>3. \A t : SlTid(t) = (t - 1) + BaseTid(model)
  BY <1>1 DEF SlTid
<1>4. \A tid, i : HasPeriod(tid, i) <=> PeriodIn(model, tid, i)
  BY DEF HasPeriod, PeriodIn, NumSt
<1>5. \A i : Related(i) <=> RelatedIn(model, i)
  BY DEF Related, RelatedIn
<1>6. \A i : SignalPath(i) = PathIn(model, i)
  BY <1>5 DEF SignalPath, PathIn
<1>7. \A st : TaskOf(st) = TaskIn(model, st)
  BY <1>1 DEF TaskOf, TaskIn
<1>8. \A st : Decimation(st) = DecimationIn(model, tasks[1].sample_time, st)
  BY DEF Decimation, DecimationIn
<1> QED
  BY <1>1, <1>2, <1>3, <1>4, <1>5, <1>6, <1>7, <1>8

(* The tasks of a model.                                                   *)
LEMMA TasksAre ==
  ASSUME NEW m \in Models
  PROVE  /\ NumTasksIn(m) \in Nat \ {0} /\ BaseTid(m) \in {0, 1}
         /\ BaseTid(m) \in TidsOf(m)
         /\ \A tid \in TidsOf(m) : tid \in Nat /\ tid < Cardinality(TidsOf(m))
         /\ Cardinality(TidsOf(m)) \in Nat
<1>1. ModelFacts(m)
  BY ModelIs
<1>2. BaseTid(m) \in {0, 1}
  BY DEF BaseTid
<1>3. BaseTid(m) \in TidsOf(m)
  BY <1>1 DEF ModelFacts, HasItsRates
<1>4. PICK n \in 1 .. Len(m.sampleTimes) : TidsOf(m) = 0 .. n - 1
  BY <1>1 DEF ModelFacts, HasItsRates
<1>5. n \in Nat /\ n - 1 \in Int /\ n # 0
  <2>1. Len(m.sampleTimes) \in Nat
    BY <1>1, LenProperties DEF ModelFacts
  <2> QED
    BY <2>1
<1>6. Cardinality(0 .. n - 1) = n
  <2>1. Cardinality(0 .. n - 1) = IF 0 > n - 1 THEN 0 ELSE (n - 1) - 0 + 1
    BY <1>5, FS_Interval
  <2> QED
    BY <1>5, <2>1
<1>7. Cardinality(TidsOf(m)) = n /\ BaseTid(m) <= n - 1
  BY <1>2, <1>3, <1>4, <1>5, <1>6
<1>8. NumTasksIn(m) \in Nat \ {0}
  BY <1>2, <1>5, <1>7 DEF NumTasksIn
<1>9. \A tid \in TidsOf(m) : tid \in Nat /\ tid < n
  BY <1>4, <1>5
<1> QED
  BY <1>2, <1>3, <1>5, <1>7, <1>8, <1>9

-----------------------------------------------------------------------------
(* The invariant *)

TaskFits(m, t, task) ==
  /\ task.sl_tid = (t - 1) + BaseTid(m)
  /\ \E i : /\ PeriodIn(m, (t - 1) + BaseTid(m), i)
            /\ task.sample_time = m.sampleTimes[i].period * m.dilation

PlaceInv ==
  /\ model \in Models
  /\ at \in TableNames \cup {"tasks", "done", "aborted"}
  /\ entry \in Nat \ {0}
  /\ PdInv(pd)

TasksInv ==
  /\ tasks \in Seq([sl_tid : Nat, sample_time : Nat \ {0}])
  /\ \A t \in 1 .. Len(tasks) : TaskFits(model, t, tasks[t])
  /\ at \in TableNames \cup {"done"} => Len(tasks) = NumTasksIn(model)

(* The entries that the program is done with.                              *)
Passed(now, next, table, i) ==
  \/ now = "done"
  \/ now = table /\ i < next
  \/ now = "params" /\ table = "signals"
  \/ now = "modelParams" /\ table \in {"signals", "params"}

SignalFits(m, ts, c, s) ==
  /\ c.path = PathIn(m, c.entry)
  /\ c.task = TaskIn(m, m.sampleTimes[s.sampleTime])
  /\ c.decimation = DecimationIn(m, ts[1].sample_time, m.sampleTimes[s.sampleTime])
  /\ c.alias = IF c.accepted /\ ~RelatedIn(m, c.entry) THEN s.name ELSE ""

CallFits(m, ts, p, c) ==
  LET s == m[c.table][c.entry]
  IN  /\ c.table \in TableNames /\ c.entry \in 1 .. Len(m[c.table])
      /\ Shown(c.table, s)
      /\ c.dims = Dims(s)
      /\ c.type = TypeIn(p, Types[s.type]) /\ c.type \in 1 .. LastType(p)
      /\ c.table = "signals" => SignalFits(m, ts, c, s)

CallsInv ==
  /\ \E X : calls \in Seq(X)
  /\ \A k \in 1 .. Len(calls) :
       /\ CallFits(model, tasks, pd, calls[k])
       /\ Passed(at, entry, calls[k].table, calls[k].entry)
  /\ \A k, l \in 1 .. Len(calls) : k < l /\ calls[k].table = calls[l].table =>
       calls[k].entry < calls[l].entry
  /\ \A table \in TableNames : \A i \in 1 .. Len(model[table]) :
       Passed(at, entry, table, i) /\ Shown(table, model[table][i]) =>
         \E k \in 1 .. Len(calls) : calls[k].table = table /\ calls[k].entry = i

Inv == PlaceInv /\ TasksInv /\ CallsInv

LEMMA AppendAny ==
  ASSUME NEW X, NEW s \in Seq(X), NEW c
  PROVE  /\ Append(s, c) \in Seq(X \cup {c}) /\ Len(s) \in Nat
         /\ Len(Append(s, c)) = Len(s) + 1 /\ Append(s, c)[Len(s) + 1] = c
         /\ \A k \in 1 .. Len(s) : Append(s, c)[k] = s[k]
<1> DEFINE Y == X \cup {c}
<1>1. s \in [1 .. Len(s) -> X] /\ Len(s) \in Nat
  BY LenProperties
<1>2. s \in [1 .. Len(s) -> Y]
  BY <1>1
<1>3. s \in Seq(Y) /\ c \in Y
  BY <1>1, <1>2, SeqDef
<1> HIDE DEF Y
<1>4. /\ Append(s, c) \in Seq(Y)
      /\ Len(Append(s, c)) = Len(s) + 1 /\ Append(s, c)[Len(s) + 1] = c
      /\ \A k \in 1 .. Len(s) : Append(s, c)[k] = s[k]
  BY <1>3, AppendProperties
<1> QED
  BY <1>1, <1>4 DEF Y

LEMMA InitInv == Init => Inv
<1> SUFFICES ASSUME Init PROVE Inv
  OBVIOUS
<1> DEFINE p == [types |-> <<>>, complex |-> [t \in DOMAIN BuiltIn |-> NoType],
                 known |-> [name \in Described |-> NoType]]
<1>1. <<>> \in Seq(Compound) /\ Len(<<>>) = 0
  BY EmptySeq
<1>2. p \in Pds
  <2> DEFINE complex == [t \in 1 .. 9 |-> NoType]
             known == [name \in Described |-> NoType]
  <2>1. complex \in [1 .. 9 -> Nat] /\ known \in [Described -> Nat]
    OBVIOUS
  <2>2. HaveTypes(<<>>)
    BY <1>1 DEF HaveTypes
  <2>3. /\ \A t \in 1 .. 9 : complex[t] = NoType
        /\ \A name \in Described : known[name] = NoType
    OBVIOUS
  <2> HIDE DEF complex, known
  <2>4. [types |-> <<>>, complex |-> complex, known |-> known] \in Pds
    BY <1>1, <2>1, <2>2, <2>3, PdIntro
  <2> QED
    BY <2>4, BuiltIns DEF complex, known
<1>3. /\ p.types = <<>> /\ \A t \in 1 .. 9 : p.complex[t] = NoType
      /\ \A name \in Described : p.known[name] = NoType
  BY BuiltIns
<1> HIDE DEF p
<1>4. PdInv(p)
  <2>1. Whole(p, {})
    BY <1>1, <1>3 DEF Whole
  <2>2. \A name \in Described : KnownFits(p, name)
    BY <1>3 DEF KnownFits
  <2> QED
    BY <1>2, <2>1, <2>2 DEF PdInv
<1>5. PlaceInv
  <2>1. pd = p
    BY DEF Init, p
  <2> QED
    BY <1>4, <2>1 DEF Init, PlaceInv
<1>6. TasksInv
  <2>1. tasks = <<>> /\ at = "tasks" /\ \A t \in 1 .. 0 : FALSE
    BY DEF Init
  <2> QED
    BY <2>1, EmptySeq DEF TasksInv, TableNames
<1>7. CallsInv
  <2>1. calls = <<>> /\ at = "tasks" /\ calls \in Seq({}) /\ Len(calls) = 0
    BY EmptySeq DEF Init
  <2>2. \A k \in 1 .. 0 : FALSE
    OBVIOUS
  <2>3. \A table \in TableNames : \A i : ~Passed(at, entry, table, i)
    BY <2>1 DEF Passed, TableNames
  <2> QED
    BY <2>1, <2>2, <2>3 DEF CallsInv
<1> QED
  BY <1>5, <1>6, <1>7 DEF Inv

(* Before the variables none is registered.                                *)
LEMMA NoCallsYet ==
  ASSUME CallsInv, at \in {"tasks", "aborted"}
  PROVE  1 .. Len(calls) = {}
<1> SUFFICES ASSUME NEW k \in 1 .. Len(calls) PROVE FALSE
  OBVIOUS
<1>1. calls[k].table \in TableNames /\ Passed(at, entry, calls[k].table, calls[k].entry)
  BY DEF CallsInv, CallFits
<1> QED
  BY <1>1 DEF Passed, TableNames

LEMMA NewTask == Inv /\ CreateTask => Inv'
<1> SUFFICES ASSUME Inv, CreateTask PROVE Inv'
  OBVIOUS
<1>1. PICK i : /\ FirstPeriod(SlTid(Len(tasks) + 1), i)
               /\ tasks' = Append(tasks,
                    [sl_tid |-> SlTid(Len(tasks) + 1),
                     sample_time |-> model.sampleTimes[i].period * model.dilation])
  BY DEF CreateTask
<1>2. /\ at = "tasks" /\ model' = model /\ at' = at /\ entry' = entry /\ pd' = pd
      /\ calls' = calls
  BY DEF CreateTask
<1> DEFINE n == Len(tasks)
           task == [sl_tid |-> SlTid(n + 1),
                    sample_time |-> model.sampleTimes[i].period * model.dilation]
           Task == [sl_tid : Nat, sample_time : Nat \ {0}]
<1>3. model \in Models /\ tasks \in Seq(Task)
  BY DEF Inv, PlaceInv, TasksInv
<1>4. n \in Nat /\ SlTid(n + 1) = (n + 1 - 1) + BaseTid(model)
        /\ PeriodIn(model, SlTid(n + 1), i)
  BY <1>1, <1>3, LenProperties, InThisState DEF FirstPeriod
<1>5. SlTid(n + 1) \in Nat
  BY <1>3, <1>4, TasksAre
<1>6. model.sampleTimes[i].period * model.dilation \in Nat \ {0}
  <2>1. ModelFacts(model)
    BY <1>3, ModelIs
  <2>2. model.dilation \in Nat \ {0}
    BY <2>1 DEF ModelFacts
  <2>3. model.sampleTimes[i] \in [tid : Int, period : Nat]
    <3>1. model.sampleTimes \in Seq([tid : Int, period : Nat])
      BY <2>1 DEF ModelFacts
    <3>2. i \in 1 .. Len(model.sampleTimes)
      BY <1>4, <3>1, LenProperties DEF PeriodIn
    <3> QED
      BY <3>1, <3>2, ElementOfSeq
  <2>4. model.sampleTimes[i].period \in Nat \ {0}
    BY <1>4, <2>3 DEF PeriodIn
  <2>5. \A x, y \in Nat \ {0} : x * y \in Nat \ {0}
    OBVIOUS
  <2> QED
    BY <2>2, <2>4, <2>5
<1>7. task \in Task
  BY <1>5, <1>6
<1>8. TaskFits(model, n + 1, task)
  BY <1>4 DEF TaskFits
<1>9. tasks' = Append(tasks, task)
  BY <1>1
<1> HIDE DEF task, Task
<1>10. /\ tasks' \in Seq(Task) /\ Len(tasks') = n + 1 /\ tasks'[n + 1] = task
       /\ \A t \in 1 .. n : tasks'[t] = tasks[t]
  BY <1>3, <1>7, <1>9, AppendProperties
<1>11. TasksInv'
  <2>1. ASSUME NEW t \in 1 .. n + 1 PROVE TaskFits(model, t, tasks'[t])
    <3>1. CASE t = n + 1
      BY <1>8, <1>10, <3>1
    <3>2. CASE t # n + 1
      <4>1. t \in 1 .. n
        BY <1>4, <3>2
      <4>2. TaskFits(model, t, tasks[t])
        BY <4>1 DEF Inv, TasksInv
      <4> QED
        BY <1>10, <4>1, <4>2
    <3> QED
      BY <3>1, <3>2
  <2> QED
    BY <1>2, <1>10, <2>1 DEF TasksInv, Task, TableNames
<1>12. PlaceInv'
  BY <1>2 DEF Inv, PlaceInv
<1>13. CallsInv'
  <2>1. 1 .. Len(calls) = {}
    BY <1>2, NoCallsYet DEF Inv
  <2>2. \A table \in TableNames : \A j : ~Passed(at, entry, table, j)
    BY <1>2 DEF Passed, TableNames
  <2>3. \E X : calls \in Seq(X)
    BY DEF Inv, CallsInv
  <2> QED
    BY <1>2, <2>1, <2>2, <2>3 DEF CallsInv
<1> QED
  BY <1>11, <1>12, <1>13 DEF Inv

(* assert(ts != 0.0) *)
LEMMA Aborted == Inv /\ AssertSampleTime => Inv'
<1> SUFFICES ASSUME Inv, AssertSampleTime PROVE Inv'
  OBVIOUS
<1>1. /\ at = "tasks" /\ at' = "aborted" /\ entry' = 1
      /\ UNCHANGED <<model, tasks, pd, calls>>
  BY DEF AssertSampleTime, At
<1>2. PlaceInv' /\ TasksInv'
  BY <1>1 DEF Inv, PlaceInv, TasksInv, TableNames
<1>3. CallsInv'
  <2>1. 1 .. Len(calls) = {}
    BY <1>1, NoCallsYet DEF Inv
  <2>2. \A table \in TableNames : \A j : ~Passed(at', entry', table, j)
    BY <1>1 DEF Passed, TableNames
  <2>3. \E X : calls \in Seq(X)
    BY DEF Inv, CallsInv
  <2> QED
    BY <1>1, <2>1, <2>2, <2>3 DEF CallsInv
<1> QED
  BY <1>2, <1>3 DEF Inv

(* rtw_capi_init begins. *)
LEMMA FirstTable == Inv /\ RegisterVariables => Inv'
<1> SUFFICES ASSUME Inv, RegisterVariables PROVE Inv'
  OBVIOUS
<1>1. /\ at = "tasks" /\ at' = "signals" /\ entry' = 1 /\ Len(tasks) = NumTasks
      /\ UNCHANGED <<model, tasks, pd, calls>>
  BY DEF RegisterVariables, At
<1>2. PlaceInv'
  BY <1>1 DEF Inv, PlaceInv, TableNames
<1>3. TasksInv'
  <2>1. Len(tasks) = NumTasksIn(model)
    BY <1>1, InThisState
  <2> QED
    BY <1>1, <2>1 DEF Inv, TasksInv
<1>4. CallsInv'
  <2>1. 1 .. Len(calls) = {}
    BY <1>1, NoCallsYet DEF Inv
  <2>2. ASSUME NEW table \in TableNames, NEW i \in 1 .. Len(model[table])
        PROVE  ~Passed(at', entry', table, i)
    <3>1. Len(model[table]) \in Nat
      BY TablesAre DEF Inv, PlaceInv
    <3>2. ~(i < 1)
      BY <3>1
    <3> QED
      BY <1>1, <3>2 DEF Passed, TableNames
  <2>3. \E X : calls \in Seq(X)
    BY DEF Inv, CallsInv
  <2> QED
    BY <1>1, <2>1, <2>2, <2>3 DEF CallsInv
<1> QED
  BY <1>2, <1>3, <1>4 DEF Inv

(* At the end of a table the next one begins. *)
LEMMA SamePassed ==
  ASSUME NEW m \in Models, NEW now \in TableNames, NEW next \in Nat,
         next > Len(m[now]), NEW table \in TableNames,
         NEW i \in 1 .. Len(m[table])
  PROVE  Passed(NextTable[now], 1, table, i) <=> Passed(now, next, table, i)
<1>1. Len(m[now]) \in Nat /\ Len(m[table]) \in Nat /\ i \in Nat
  BY TablesAre
<1>2. i >= 1 /\ i <= Len(m[table])
  BY <1>1
<1>3. table = now => i < next
  BY <1>1, <1>2
<1>4. ~(i < 1)
  BY <1>1, <1>2
<1> QED
  BY <1>3, <1>4 DEF Passed, TableNames, NextTable

LEMMA TableEnds == Inv /\ EndTable => Inv'
<1> SUFFICES ASSUME Inv, EndTable PROVE Inv'
  OBVIOUS
<1>1. /\ at \in TableNames /\ entry > Len(model[at]) /\ at' = NextTable[at]
      /\ entry' = 1 /\ UNCHANGED <<model, tasks, pd, calls>>
  BY TableNamesAre DEF EndTable, At
<1>2. at' \in TableNames \cup {"done"}
  BY <1>1 DEF TableNames, NextTable
<1>3. PlaceInv' /\ TasksInv'
  BY <1>1, <1>2 DEF Inv, PlaceInv, TasksInv
<1>4. model \in Models /\ entry \in Nat
  BY DEF Inv, PlaceInv
<1>5. \A table \in TableNames : \A i \in 1 .. Len(model[table]) :
        Passed(at', entry', table, i) <=> Passed(at, entry, table, i)
  BY <1>1, <1>4, SamePassed
<1>6. CallsInv'
  <2>1. CallsInv
    BY DEF Inv
  <2>2. \E X : calls \in Seq(X)
    BY <2>1 DEF CallsInv
  <2>3. ASSUME NEW k \in 1 .. Len(calls)
        PROVE  /\ CallFits(model, tasks, pd, calls[k])
               /\ Passed(at', entry', calls[k].table, calls[k].entry)
    <3>1. /\ CallFits(model, tasks, pd, calls[k])
          /\ Passed(at, entry, calls[k].table, calls[k].entry)
      BY <2>1 DEF CallsInv
    <3>2. calls[k].table \in TableNames /\ calls[k].entry \in 1 .. Len(model[calls[k].table])
      BY <3>1 DEF CallFits
    <3> QED
      BY <1>5, <3>1, <3>2
  <2>4. \A k, l \in 1 .. Len(calls) : k < l /\ calls[k].table = calls[l].table =>
          calls[k].entry < calls[l].entry
    BY <2>1 DEF CallsInv
  <2>5. \A table \in TableNames : \A i \in 1 .. Len(model[table]) :
          Passed(at', entry', table, i) /\ Shown(table, model[table][i]) =>
            \E k \in 1 .. Len(calls) : calls[k].table = table /\ calls[k].entry = i
    BY <1>5, <2>1 DEF CallsInv
  <2> QED
    BY <1>1, <2>2, <2>3, <2>4, <2>5 DEF CallsInv
<1> QED
  BY <1>3, <1>6 DEF Inv

-----------------------------------------------------------------------------
(* An entry of a table *)

(* A variable keeps the type that it has.                                  *)
LEMMA SameType ==
  ASSUME NEW p, NEW q, Grows(p, q), NEW t, TypeIn(p, t) # NoType
  PROVE  TypeIn(q, t) = TypeIn(p, t)
<1>1. CASE t.id = "struct"
  BY <1>1 DEF TypeIn, Grows
<1>2. CASE t.id # "struct"
  <2>1. BuiltInType(t.id) # NoType => BuiltInType(t.id) \in 1 .. 9
    BY BuiltInTypes
  <2> QED
    BY <1>2, <2>1 DEF TypeIn, NumberType, Grows
<1> QED
  BY <1>1, <1>2

LEMMA StillFits ==
  ASSUME NEW m, NEW ts, NEW p \in Pds, NEW q \in Pds, Grows(p, q),
         NEW c, CallFits(m, ts, p, c)
  PROVE  CallFits(m, ts, q, c)
<1> DEFINE t == Types[m[c.table][c.entry].type]
<1>1. c.type = TypeIn(p, t) /\ c.type \in 1 .. LastType(p)
  BY DEF CallFits
<1> HIDE DEF t
<1>2. LastType(p) \in Nat /\ LastType(q) \in Nat /\ LastType(p) <= LastType(q)
  BY PdFields DEF Grows
<1>3. c.type # NoType /\ c.type \in 1 .. LastType(q)
  BY <1>1, <1>2
<1>4. c.type = TypeIn(q, t)
  BY <1>1, <1>3, SameType
<1> QED
  BY <1>3, <1>4 DEF CallFits, t

(* What has been registered after an entry, when it is registered or when  *)
(* it is not to be shown.                                                  *)
LEMMA OneEntry ==
  ASSUME Inv, at \in TableNames, entry <= Len(model[at]),
         model' = model, at' = at, tasks' = tasks, entry' = entry + 1,
         PdInv(pd'), Grows(pd, pd'),
         \/ /\ Shown(at, model[at][entry])
            /\ \E c : /\ calls' = Append(calls, c)
                      /\ c.table = at /\ c.entry = entry
                      /\ CallFits(model, tasks, pd', c)
         \/ ~Shown(at, model[at][entry]) /\ calls' = calls
  PROVE  Inv'
<1>1. /\ model \in Models /\ entry \in Nat \ {0} /\ PdInv(pd) /\ TasksInv /\ CallsInv
  BY DEF Inv, PlaceInv
<1>2. PlaceInv' /\ TasksInv'
  BY <1>1 DEF Inv, PlaceInv, TasksInv
<1>3. /\ \A table \in TableNames : \A i \in 1 .. Len(model[table]) :
           Passed(at', entry', table, i) <=>
             Passed(at, entry, table, i) \/ (table = at /\ i = entry)
      /\ ~Passed(at, entry, at, entry)
      /\ \A table \in TableNames : Len(model[table]) \in Nat
  <2>1. \A table \in TableNames : Len(model[table]) \in Nat
    BY <1>1, TablesAre
  <2>2. \A i \in Nat : i < entry + 1 <=> i < entry \/ i = entry
    BY <1>1
  <2>3. ~(entry < entry) /\ at # "done"
    BY <1>1 DEF TableNames
  <2>4. ASSUME NEW table \in TableNames, NEW i \in 1 .. Len(model[table])
        PROVE  Passed(at', entry', table, i) <=>
                 Passed(at, entry, table, i) \/ (table = at /\ i = entry)
    <3>1. i \in Nat
      BY <2>1
    <3> QED
      BY <2>2, <2>3, <3>1 DEF Passed, TableNames
  <2>5. ~Passed(at, entry, at, entry)
    BY <2>3 DEF Passed, TableNames
  <2> QED
    BY <2>1, <2>4, <2>5
<1>4. pd \in Pds /\ pd' \in Pds
  BY <1>1 DEF PdInv
<1> DEFINE L == Len(calls)
<1>5. ASSUME NEW k \in 1 .. L
      PROVE  /\ CallFits(model, tasks, pd', calls[k])
             /\ Passed(at', entry', calls[k].table, calls[k].entry)
             /\ Passed(at, entry, calls[k].table, calls[k].entry)
  <2>1. CallFits(model, tasks, pd, calls[k])
          /\ Passed(at, entry, calls[k].table, calls[k].entry)
    BY <1>1 DEF CallsInv
  <2>2. calls[k].table \in TableNames /\ calls[k].entry \in 1 .. Len(model[calls[k].table])
    BY <2>1 DEF CallFits
  <2> QED
    BY <1>3, <1>4, <2>1, <2>2, StillFits
<1>6. ASSUME NEW k \in 1 .. L, calls[k].table = at
      PROVE  calls[k].entry < entry
  <2>1. Passed(at, entry, at, calls[k].entry) /\ at # "done"
    BY <1>5, <1>6 DEF TableNames
  <2> QED
    BY <2>1 DEF Passed, TableNames
<1>7. /\ \A k, l \in 1 .. L : k < l /\ calls[k].table = calls[l].table =>
           calls[k].entry < calls[l].entry
      /\ \A table \in TableNames : \A i \in 1 .. Len(model[table]) :
           Passed(at, entry, table, i) /\ Shown(table, model[table][i]) =>
             \E k \in 1 .. L : calls[k].table = table /\ calls[k].entry = i
  BY <1>1 DEF CallsInv
<1>8. PICK X : calls \in Seq(X)
  BY <1>1 DEF CallsInv
<1>9. CASE ~Shown(at, model[at][entry]) /\ calls' = calls
  <2>1. \A table \in TableNames : \A i \in 1 .. Len(model[table]) :
          Passed(at', entry', table, i) /\ Shown(table, model[table][i]) =>
            \E k \in 1 .. L : calls[k].table = table /\ calls[k].entry = i
    BY <1>3, <1>7, <1>9
  <2>2. CallsInv'
    BY <1>5, <1>7, <1>8, <1>9, <2>1 DEF CallsInv
  <2> QED
    BY <1>2, <2>2 DEF Inv
<1>10. CASE /\ Shown(at, model[at][entry])
            /\ \E c : /\ calls' = Append(calls, c)
                      /\ c.table = at /\ c.entry = entry
                      /\ CallFits(model, tasks, pd', c)
  <2>1. PICK c : /\ calls' = Append(calls, c)
                 /\ c.table = at /\ c.entry = entry
                 /\ CallFits(model, tasks, pd', c)
    BY <1>10
  <2>2. /\ calls' \in Seq(X \cup {c}) /\ L \in Nat /\ Len(calls') = L + 1
        /\ calls'[L + 1] = c /\ \A k \in 1 .. L : calls'[k] = calls[k]
    BY <1>8, <2>1, AppendAny
  <2> HIDE DEF L
  <2>3. \A k \in 1 .. L + 1 : k \in 1 .. L \/ k = L + 1
    BY <2>2
  <2>4. \A k \in 1 .. L : k \in 1 .. L + 1
    BY <2>2
  <2>5. entry \in 1 .. Len(model[at])
    BY <1>1, <1>3
  <2>6. ASSUME NEW k \in 1 .. L + 1
        PROVE  /\ CallFits(model, tasks, pd', calls'[k])
               /\ Passed(at', entry', calls'[k].table, calls'[k].entry)
    <3>1. CASE k \in 1 .. L
      BY <1>5, <2>2, <3>1
    <3>2. CASE k = L + 1
      BY <1>3, <2>1, <2>2, <2>5, <3>2
    <3> QED
      BY <2>3, <3>1, <3>2
  <2>7. ASSUME NEW k \in 1 .. L + 1, NEW l \in 1 .. L + 1, k < l,
               calls'[k].table = calls'[l].table
        PROVE  calls'[k].entry < calls'[l].entry
    <3>1. k \in 1 .. L
      BY <2>2, <2>7
    <3>2. calls'[k] = calls[k]
      BY <2>2, <3>1
    <3>3. CASE l \in 1 .. L
      BY <1>7, <2>2, <2>7, <3>1, <3>2, <3>3
    <3>4. CASE l = L + 1
      BY <1>6, <2>1, <2>2, <2>7, <3>1, <3>2, <3>4
    <3> QED
      BY <2>3, <3>3, <3>4
  <2>8. ASSUME NEW table \in TableNames, NEW i \in 1 .. Len(model[table]),
               Passed(at', entry', table, i), Shown(table, model[table][i])
        PROVE  \E k \in 1 .. L + 1 : calls'[k].table = table /\ calls'[k].entry = i
    <3>1. CASE table = at /\ i = entry
      <4>1. L + 1 \in 1 .. L + 1
        BY <2>2
      <4> QED
        BY <2>1, <2>2, <3>1, <4>1
    <3>2. CASE Passed(at, entry, table, i)
      <4>1. PICK k \in 1 .. L : calls[k].table = table /\ calls[k].entry = i
        BY <1>7, <2>8, <3>2
      <4> QED
        BY <2>2, <2>4, <4>1
    <3> QED
      BY <1>3, <2>8, <3>1, <3>2
  <2>9. CallsInv'
    <3>1. \E Y : calls' \in Seq(Y)
      BY <2>2
    <3> QED
      BY <2>2, <2>6, <2>7, <2>8, <3>1 DEF CallsInv
  <2> QED
    BY <1>2, <2>9 DEF Inv
<1> QED
  BY <1>9, <1>10

-----------------------------------------------------------------------------
(* Paths *)

LEMMA OneName ==
  ASSUME NEW b \in Seq(STRING), b # <<>>, NEW x \in STRING
  PROVE  /\ Tail(b) \o <<>> = Tail(b) /\ Tail(b) \in Seq(STRING)
         /\ Tail(b) \o <<x>> = Append(Tail(b), x)
         /\ Append(Tail(b), x) = Tail(Append(b, x))
         /\ Append(b, x) \in Seq(STRING) /\ Append(b, x) # <<>>
         /\ Head(Append(b, x)) = Head(b)
<1> DEFINE t == Tail(b)
<1>1. t \in Seq(STRING)
  BY HeadTailProperties
<1>2. Tail(Append(b, x)) = Append(t, x) /\ Head(Append(b, x)) = Head(b)
  BY HeadTailAppend
<1>3. Append(b, x) \in Seq(STRING) /\ Append(b, x) # <<>>
  BY AppendProperties
<1> HIDE DEF t
<1>4. t \o <<>> = t
  BY <1>1, ConcatEmptySeq
<1>5. t \o <<x>> = Append(t, x)
  BY <1>1, AppendIsConcat
<1> QED
  BY <1>1, <1>2, <1>3, <1>4, <1>5 DEF t

(* Paths begin with the name of the model, which is left out.              *)
LEMMA SameTail ==
  ASSUME NEW b \in Seq(STRING), b # <<>>, NEW c \in Seq(STRING), c # <<>>,
         Head(b) = Head(c), Tail(b) = Tail(c)
  PROVE  b = c
<1> DEFINE t == Tail(b)
           u == Tail(c)
<1>1. Len(t) = Len(b) - 1 /\ \A i \in 1 .. Len(t) : t[i] = b[i + 1]
  BY HeadTailProperties
<1>2. Len(u) = Len(c) - 1 /\ \A i \in 1 .. Len(u) : u[i] = c[i + 1]
  BY HeadTailProperties
<1>3. Len(b) \in Nat /\ Len(c) \in Nat /\ t = u
  BY LenProperties
<1> HIDE DEF t, u
<1>4. Len(b) = Len(c) /\ Len(t) = Len(b) - 1
  BY <1>1, <1>2, <1>3
<1>5. b[1] = c[1]
  OBVIOUS
<1>6. ASSUME NEW i \in 1 .. Len(b) PROVE b[i] = c[i]
  <2>1. CASE i = 1
    BY <1>5, <2>1
  <2>2. CASE i # 1
    <3>1. i - 1 \in 1 .. Len(b) - 1 /\ (i - 1) + 1 = i
      BY <1>3, <2>2
    <3> QED
      BY <1>1, <1>2, <1>3, <1>4, <3>1
  <2> QED
    BY <2>1, <2>2
<1> QED
  BY <1>4, <1>6, SeqEqual

LEMMA SameAppend ==
  ASSUME NEW b \in Seq(STRING), NEW c \in Seq(STRING), NEW x \in STRING,
         NEW y \in STRING, Append(b, x) = Append(c, y)
  PROVE  b = c /\ x = y
<1>1. /\ Len(Append(b, x)) = Len(b) + 1 /\ Append(b, x)[Len(b) + 1] = x
      /\ \A i \in 1 .. Len(b) : Append(b, x)[i] = b[i]
  BY AppendProperties
<1>2. /\ Len(Append(c, y)) = Len(c) + 1 /\ Append(c, y)[Len(c) + 1] = y
      /\ \A i \in 1 .. Len(c) : Append(c, y)[i] = c[i]
  BY AppendProperties
<1>3. Len(b) \in Nat /\ Len(c) \in Nat
  BY LenProperties
<1>4. Len(b) = Len(c)
  BY <1>1, <1>2, <1>3
<1>5. x = y
  BY <1>1, <1>2, <1>4
<1>6. \A i \in 1 .. Len(b) : b[i] = c[i]
  BY <1>1, <1>2, <1>4
<1> QED
  BY <1>4, <1>5, <1>6, SeqEqual

LEMMA LongPath ==
  ASSUME NEW b \in Seq(STRING), Len(b) > 1
  PROVE  Tail(b) # <<>> /\ b # <<>>
<1>1. b # <<>>
  BY EmptySeq
<1> DEFINE t == Tail(b)
<1>2. Len(t) = Len(b) - 1 /\ Len(b) \in Nat /\ t \in Seq(STRING)
  BY <1>1, HeadTailProperties, LenProperties
<1> HIDE DEF t
<1>3. Len(t) # 0
  BY <1>2
<1> QED
  BY <1>1, <1>2, <1>3, EmptySeq DEF t

(* The signals of a model, and the paths of those that are shown.          *)
SignalFacts(m, s) ==
  /\ s.block \in Seq(STRING) /\ s.block # <<>>
  /\ s.name \in STRING /\ s.port \in STRING
  /\ s.sampleTime \in DOMAIN m.sampleTimes
  /\ m.sampleTimes[s.sampleTime] \in [tid : Int, period : Nat]
  /\ \A i \in 1 .. Len(m.signals) : Head(m.signals[i].block) = Head(s.block)

LEMMA SignalsAre ==
  ASSUME NEW m \in Models, NEW i \in 1 .. Len(m.signals)
  PROVE  SignalFacts(m, m.signals[i])
<1> DEFINE s == m.signals[i]
<1>1. ModelFacts(m)
  BY ModelIs
<1>2. s \in Signals
  <2>1. m.signals \in Seq(Signals)
    BY <1>1 DEF ModelFacts
  <2> QED
    BY <2>1, ElementOfSeq
<1>3. EntryFacts(m, "signals", s)
  <2>1. "signals" \in TableNames /\ m["signals"] = m.signals
    BY DEF TableNames
  <2> QED
    BY <2>1, TablesAre
<1> HIDE DEF s
<1>4. m.sampleTimes[s.sampleTime] \in [tid : Int, period : Nat]
  <2>1. m.sampleTimes \in Seq([tid : Int, period : Nat])
    BY <1>1 DEF ModelFacts
  <2>2. s.sampleTime \in 1 .. Len(m.sampleTimes)
    BY <1>3, <2>1, LenProperties DEF EntryFacts
  <2> QED
    BY <2>1, <2>2, ElementOfSeq
<1>5. SignalFacts(m, s)
  BY <1>2, <1>3, <1>4 DEF EntryFacts, SignalFacts, Signals
<1> QED
  BY <1>5 DEF s

(* The name that is added to the path of a block with several signals.     *)
NameOf(s) == IF s.name # "" THEN s.name ELSE s.port

LEMMA PathIs ==
  ASSUME NEW m \in Models, NEW i \in 1 .. Len(m.signals)
  PROVE  LET s == m.signals[i]
         IN  /\ NameOf(s) \in STRING
             /\ PathIn(m, i) = IF RelatedIn(m, i) THEN Tail(Append(s.block, NameOf(s)))
                                                  ELSE Tail(s.block)
<1> DEFINE s == m.signals[i]
<1>1. SignalFacts(m, s)
  BY SignalsAre
<1>2. PathIn(m, i) = Tail(s.block) \o (IF ~RelatedIn(m, i) THEN <<>>
                                       ELSE IF s.name # "" THEN <<s.name>>
                                       ELSE <<s.port>>)
  BY DEF PathIn
<1> HIDE DEF s
<1>3. NameOf(s) \in STRING /\ s.block \in Seq(STRING) /\ s.block # <<>>
  BY <1>1 DEF SignalFacts, NameOf
<1>4. CASE RelatedIn(m, i)
  <2>1. PathIn(m, i) = Tail(s.block) \o <<NameOf(s)>>
    BY <1>2, <1>4 DEF NameOf
  <2> QED
    BY <1>3, <1>4, <2>1, OneName DEF s
<1>5. CASE ~RelatedIn(m, i)
  <2>1. PathIn(m, i) = Tail(s.block) \o <<>>
    BY <1>2, <1>5
  <2> QED
    BY <1>3, <1>5, <2>1, OneName DEF s
<1> QED
  BY <1>4, <1>5

LEMMA PathIsLong ==
  ASSUME NEW m \in Models, NEW i \in 1 .. Len(m.signals),
         Len(m.signals[i].block) > 1
  PROVE  PathIn(m, i) # <<>>
<1> DEFINE b == m.signals[i].block
           x == NameOf(m.signals[i])
<1>1. b \in Seq(STRING) /\ b # <<>> /\ x \in STRING
  BY SignalsAre, PathIs DEF SignalFacts
<1>2. Tail(b) # <<>> /\ Tail(b) \in Seq(STRING)
  BY <1>1, LongPath, OneName
<1>3. PathIn(m, i) = Tail(b) \/ PathIn(m, i) = Tail(Append(b, x))
  BY PathIs
<1> HIDE DEF b, x
<1>4. Tail(Append(b, x)) = Append(Tail(b), x)
  BY <1>1, OneName
<1>5. Append(Tail(b), x) # <<>>
  BY <1>1, <1>2, AppendProperties
<1> QED
  BY <1>2, <1>3, <1>4, <1>5

-----------------------------------------------------------------------------
(* register_signal, register_parameter, register_model_parameter *)

(* The type of the entry that is registered now, and whether it is shown.  *)
LEMMA EntryIs ==
  ASSUME Inv, at \in TableNames, entry <= Len(model[at])
  PROVE  /\ PdInv(Made[1]) /\ Grows(pd, Made[1])
         /\ Made[2] = TypeIn(Made[1], Types[Entry.type])
         /\ EntryFacts(model, at, model[at][entry]) /\ entry \in 1 .. Len(model[at])
         /\ \A path :
              /\ CanBeShown(path) => Made[2] \in 1 .. LastType(Made[1])
              /\ (path # <<>> <=> at = "modelParams" \/ Len(Entry.block) > 1) =>
                   (CanBeShown(path) <=> Shown(at, model[at][entry]))
<1> DEFINE t == Types[Entry.type]
           made == GetDataType(pd, t)
<1>1. /\ model \in Models /\ entry \in Nat \ {0} /\ PdInv(pd)
  BY DEF Inv, PlaceInv
<1>2. entry \in 1 .. Len(model[at])
  BY <1>1, TablesAre
<1>3. EntryFacts(model, at, model[at][entry])
  BY <1>1, <1>2, TablesAre
<1>4. t \in DataType /\ HasItsSize(t)
  BY <1>3 DEF EntryFacts, Entry
<1>5. Got(pd, t, made)
  <2> HIDE DEF t
  <2> QED
    BY <1>1, <1>4, TypeIsGot
<1>6. Made = made /\ Entry = model[at][entry]
  BY DEF Made, Entry
<1>7. LastType(made[1]) \in Nat
  <2>1. made[1] \in Pds
    BY <1>5 DEF Got, PdInv
  <2> HIDE DEF made
  <2> QED
    BY <2>1, PdFields
<1>8. made[2] # NoType => made[2] \in 1 .. LastType(made[1])
  <2>1. made[2] \in 0 .. LastType(made[1])
    BY <1>5 DEF Got
  <2> HIDE DEF made
  <2> QED
    BY <1>7, <2>1
<1>9. Shown(at, Entry) <=> /\ ~t.pointer /\ CanHave(t)
                           /\ at = "modelParams" \/ Len(Entry.block) > 1
  BY DEF Shown, CanHave
<1>10. \A path : CanBeShown(path) <=> made[2] # NoType /\ ~t.pointer /\ path # <<>>
  BY <1>6 DEF CanBeShown
<1>11. made[2] # NoType <=> CanHave(t)
  BY <1>5 DEF Got
<1>12. PdInv(made[1]) /\ Grows(pd, made[1]) /\ made[2] = TypeIn(made[1], t)
  BY <1>5 DEF Got
<1> HIDE DEF made, t
<1>13. \A path :
         /\ CanBeShown(path) => made[2] \in 1 .. LastType(made[1])
         /\ (path # <<>> <=> at = "modelParams" \/ Len(Entry.block) > 1) =>
              (CanBeShown(path) <=> Shown(at, Entry))
  BY <1>8, <1>9, <1>10, <1>11
<1> QED
  BY <1>2, <1>3, <1>6, <1>12, <1>13 DEF t

LEMMA ParameterRegistered ==
  ASSUME Inv, at \in {"params", "modelParams"}, entry <= Len(model[at]),
         NEW path, path # <<>> <=> at = "modelParams" \/ Len(Entry.block) > 1,
         AddParameter(path), EndEntry
  PROVE  Inv'
<1> DEFINE c == Parameter(path)
<1>1. /\ model' = model /\ at' = at /\ tasks' = tasks /\ entry' = entry + 1
      /\ pd' = Made[1]
      /\ calls' = IF CanBeShown(path) THEN Append(calls, c) ELSE calls
  BY DEF EndEntry, AddParameter
<1>2. at \in TableNames /\ at # "signals"
  BY DEF TableNames
<1>3. /\ PdInv(pd') /\ Grows(pd, pd')
      /\ Made[2] = TypeIn(pd', Types[Entry.type])
      /\ entry \in 1 .. Len(model[at])
      /\ CanBeShown(path) => Made[2] \in 1 .. LastType(pd')
      /\ CanBeShown(path) <=> Shown(at, model[at][entry])
  BY <1>1, <1>2, EntryIs
<1>4. c.table = at /\ c.entry = entry /\ c.type = Made[2] /\ c.dims = Dims(Entry)
  BY DEF Parameter
<1>5. Entry = model[at][entry]
  BY DEF Entry
<1> HIDE DEF c
<1>6. ASSUME CanBeShown(path) PROVE CallFits(model, tasks, pd', c)
  BY <1>2, <1>3, <1>4, <1>5, <1>6 DEF CallFits
<1>7. CASE CanBeShown(path)
  <2>1. calls' = Append(calls, c) /\ Shown(at, model[at][entry])
    BY <1>1, <1>3, <1>7
  <2> QED
    BY <1>1, <1>2, <1>3, <1>4, <1>6, <1>7, <2>1, OneEntry
<1>8. CASE ~CanBeShown(path)
  <2>1. calls' = calls /\ ~Shown(at, model[at][entry])
    BY <1>1, <1>3, <1>8
  <2> QED
    BY <1>1, <1>2, <1>3, <2>1, OneEntry
<1> QED
  BY <1>7, <1>8

LEMMA OneParameter == Inv /\ RegisterParameter => Inv'
<1> SUFFICES ASSUME Inv, RegisterParameter PROVE Inv'
  OBVIOUS
<1> DEFINE path == IF HasSlash(Entry.block)
                   THEN Append(Tail(Entry.block), Entry.name) ELSE <<>>
<1>1. /\ at = "params" /\ entry <= Len(model[at]) /\ AddParameter(path) /\ EndEntry
  BY DEF RegisterParameter, More
<1>2. at \in TableNames /\ at # "modelParams"
  BY <1>1 DEF TableNames
<1>3. Entry = model[at][entry] /\ EntryFacts(model, at, model[at][entry])
  BY <1>1, <1>2, EntryIs DEF Entry
<1>4. Entry.block \in Seq(STRING)
  BY <1>3 DEF EntryFacts
<1>5. ASSUME Len(Entry.block) > 1 PROVE Append(Tail(Entry.block), Entry.name) # <<>>
  <2>1. Entry.block # <<>>
    BY <1>4, <1>5, LongPath
  <2>2. Tail(Entry.block) \in Seq(STRING)
    BY <1>4, <2>1, HeadTailProperties
  <2>3. Len(Append(Tail(Entry.block), Entry.name)) = Len(Tail(Entry.block)) + 1
          /\ Len(Tail(Entry.block)) \in Nat
    BY <2>2, AppendAny
  <2>4. Len(Append(Tail(Entry.block), Entry.name)) # 0
    BY <2>3
  <2> QED
    BY <2>4, EmptySeq
<1>6. path # <<>> <=> at = "modelParams" \/ Len(Entry.block) > 1
  BY <1>2, <1>5 DEF HasSlash
<1> HIDE DEF path
<1> QED
  BY <1>1, <1>6, ParameterRegistered

LEMMA OneModelParameter == Inv /\ RegisterModelParameter => Inv'
<1> SUFFICES ASSUME Inv, RegisterModelParameter PROVE Inv'
  OBVIOUS
<1> DEFINE path == <<Prefix, Entry.name>>
<1>1. /\ at = "modelParams" /\ entry <= Len(model[at]) /\ AddParameter(path) /\ EndEntry
  BY DEF RegisterModelParameter, More
<1>2. path # <<>>
  OBVIOUS
<1> HIDE DEF path
<1> QED
  BY <1>1, <1>2, ParameterRegistered

LEMMA OneSignal == Inv /\ RegisterSignal => Inv'
<1> SUFFICES ASSUME Inv, RegisterSignal PROVE Inv'
  OBVIOUS
<1> DEFINE path == IF HasSlash(Entry.block) THEN SignalPath(entry) ELSE <<>>
<1>1. /\ at = "signals" /\ entry <= Len(model[at]) /\ EndEntry
      /\ IF CanBeShown(path)
         THEN \E accepted \in BOOLEAN : calls' = Append(calls, Signal(path, accepted))
         ELSE calls' = calls
  BY DEF RegisterSignal, More
<1>2. at \in TableNames /\ at # "modelParams" /\ model \in Models
        /\ model[at] = model.signals
  BY <1>1 DEF TableNames, Inv, PlaceInv
<1>3. Entry = model[at][entry] /\ EntryFacts(model, at, model[at][entry])
        /\ entry \in 1 .. Len(model.signals)
  BY <1>1, <1>2, EntryIs DEF Entry
<1>4. path # <<>> <=> at = "modelParams" \/ Len(Entry.block) > 1
  <2>1. Len(Entry.block) > 1 => PathIn(model, entry) # <<>>
    BY <1>2, <1>3, PathIsLong
  <2> QED
    BY <1>2, <2>1, InThisState DEF HasSlash
<1>5. /\ model' = model /\ at' = at /\ tasks' = tasks /\ entry' = entry + 1
      /\ pd' = Made[1]
  BY <1>1 DEF EndEntry
<1>6. CanBeShown(path) => path = PathIn(model, entry)
  BY InThisState DEF CanBeShown, HasSlash
<1> HIDE DEF path
<1>7. /\ PdInv(pd') /\ Grows(pd, pd')
      /\ Made[2] = TypeIn(pd', Types[Entry.type])
      /\ CanBeShown(path) => Made[2] \in 1 .. LastType(pd')
      /\ CanBeShown(path) <=> Shown(at, model[at][entry])
  BY <1>1, <1>2, <1>4, <1>5, EntryIs
<1>8. CASE CanBeShown(path)
  <2>1. PICK accepted \in BOOLEAN : calls' = Append(calls, Signal(path, accepted))
    BY <1>1, <1>8
  <2> DEFINE c == Signal(path, accepted)
             st == SampleTime(Entry)
  <2>2. /\ c.table = at /\ c.entry = entry /\ c.type = Made[2] /\ c.dims = Dims(Entry)
        /\ c.path = path /\ c.task = TaskOf(st) /\ c.decimation = Decimation(st)
        /\ c.accepted = accepted
        /\ c.alias = IF accepted /\ ~Related(entry) THEN Entry.name ELSE ""
    BY DEF Signal
  <2>3. st = model.sampleTimes[Entry.sampleTime]
    BY DEF SampleTime
  <2> HIDE DEF c, st
  <2>4. SignalFits(model, tasks, c, Entry)
    <3>1. /\ c.path = PathIn(model, entry) /\ c.task = TaskIn(model, st)
          /\ c.decimation = DecimationIn(model, tasks[1].sample_time, st)
          /\ c.alias = IF c.accepted /\ ~RelatedIn(model, entry) THEN Entry.name ELSE ""
      BY <1>6, <1>8, <2>2, InThisState
    <3> QED
      BY <2>2, <2>3, <3>1 DEF SignalFits
  <2>5. CallFits(model, tasks, pd', c)
    BY <1>2, <1>3, <1>7, <1>8, <2>2, <2>4 DEF CallFits
  <2>6. Shown(at, model[at][entry]) /\ calls' = Append(calls, c)
    BY <1>7, <1>8, <2>1 DEF c
  <2> QED
    BY <1>1, <1>2, <1>5, <1>7, <2>2, <2>5, <2>6, OneEntry
<1>9. CASE ~CanBeShown(path)
  <2>1. calls' = calls /\ ~Shown(at, model[at][entry])
    BY <1>1, <1>7, <1>9
  <2> QED
    BY <1>1, <1>2, <1>5, <1>7, <2>1, OneEntry
<1> QED
  BY <1>8, <1>9

(* Every state fits the model.                                             *)
LEMMA InvHolds == Spec => []Inv
<1>1. Inv /\ [Next]_vars => Inv'
  <2> SUFFICES ASSUME Inv, [Next]_vars PROVE Inv'
    OBVIOUS
  <2>1. CASE UNCHANGED vars
    BY <2>1 DEF vars, Inv, PlaceInv, TasksInv, CallsInv
  <2>2. CASE Next
    BY <2>2, NewTask, Aborted, FirstTable, OneSignal, OneParameter,
       OneModelParameter, TableEnds DEF Next
  <2> QED
    BY <2>1, <2>2
<1> QED
  BY <1>1, InitInv, PTL DEF Spec

-----------------------------------------------------------------------------
(* Rates *)

LEMMA TimesNat == \A b, j \in Nat : b * j \in Nat
OBVIOUS

(* The decimation is a natural number, and the quotient if there is one.   *)
LEMMA Rounded ==
  ASSUME NEW p \in Nat, NEW b \in Nat \ {0}
  PROVE  /\ (2 * p + b) \div (2 * b) \in Nat
         /\ p % b = 0 => ((2 * p + b) \div (2 * b)) * b = p
<1> DEFINE q == (2 * p + b) \div (2 * b)
           r == (2 * p + b) % (2 * b)
           n == p \div b
<1>1. q \in Int /\ r \in 0 .. 2 * b - 1 /\ 2 * p + b = (2 * b) * q + r
  <2> DEFINE x == 2 * p + b
             w == 2 * b
  <2>1. x \in Nat /\ w \in Nat \ {0}
    OBVIOUS
  <2> HIDE DEF x, w
  <2>2. x \div w \in Int /\ x % w \in 0 .. w - 1 /\ x = w * (x \div w) + (x % w)
    BY <2>1
  <2> QED
    BY <2>2 DEF x, w
<1>2. n \in Int /\ p = b * n + (p % b)
  OBVIOUS
<1> HIDE DEF q, r, n
<1>3. ASSUME q < 0 PROVE FALSE
  <2> DEFINE j == -q - 1
  <2>1. j \in Nat /\ b * q = -(b * j) - b
    BY <1>1, <1>3
  <2> HIDE DEF j
  <2>2. b * j \in Nat
    BY <2>1, TimesNat
  <2>3. 2 * p + b = 2 * (b * q) + r
    BY <1>1
  <2> QED
    BY <1>1, <2>1, <2>2, <2>3
<1>4. ASSUME p % b = 0 PROVE n = q
  <2>1. r = 2 * (b * n) + b - 2 * (b * q)
    BY <1>1, <1>2, <1>4
  <2>2. ASSUME n > q PROVE FALSE
    <3> DEFINE j == n - q - 1
    <3>1. j \in Nat /\ b * j = b * n - b * q - b
      BY <1>1, <1>2, <2>2
    <3> HIDE DEF j
    <3>2. b * j \in Nat
      BY <3>1, TimesNat
    <3>3. b * n \in Int /\ b * q \in Int
      BY <1>1, <1>2
    <3> QED
      BY <1>1, <2>1, <3>1, <3>2, <3>3
  <2>3. ASSUME n < q PROVE FALSE
    <3> DEFINE j == q - n - 1
    <3>1. j \in Nat /\ b * j = b * q - b * n - b
      BY <1>1, <1>2, <2>3
    <3> HIDE DEF j
    <3>2. b * j \in Nat
      BY <3>1, TimesNat
    <3>3. b * n \in Int /\ b * q \in Int
      BY <1>1, <1>2
    <3> QED
      BY <1>1, <2>1, <3>1, <3>2, <3>3
  <2> QED
    BY <1>1, <1>2, <2>2, <2>3
<1>5. q \in Nat
  BY <1>1, <1>3
<1>6. p % b = 0 => q * b = p
  BY <1>2, <1>4, <1>5
<1> QED
  BY <1>5, <1>6 DEF q

(* Where a registered signal is, and which it is.                          *)
LEMMA SignalIs ==
  ASSUME Inv, NEW k \in 1 .. Len(calls), calls[k].table = "signals"
  PROVE  LET i == calls[k].entry
             s == model.signals[i]
         IN  /\ i \in 1 .. Len(model.signals) /\ SignalFacts(model, s)
             /\ SignalFits(model, tasks, calls[k], s)
             /\ Shown("signals", s) /\ model \in Models
             /\ tasks \in Seq([sl_tid : Nat, sample_time : Nat \ {0}])
             /\ Len(tasks) = NumTasksIn(model)
             /\ \A t \in 1 .. Len(tasks) : TaskFits(model, t, tasks[t])
<1>1. CallFits(model, tasks, pd, calls[k]) /\ Passed(at, entry, "signals", calls[k].entry)
  BY DEF Inv, CallsInv
<1>2. at \in TableNames \cup {"done"}
  BY <1>1 DEF Passed, TableNames
<1>3. /\ tasks \in Seq([sl_tid : Nat, sample_time : Nat \ {0}])
      /\ Len(tasks) = NumTasksIn(model)
      /\ \A t \in 1 .. Len(tasks) : TaskFits(model, t, tasks[t])
  BY <1>2 DEF Inv, TasksInv
<1>4. model["signals"] = model.signals /\ model \in Models
  BY DEF Inv, PlaceInv
<1>5. calls[k].entry \in 1 .. Len(model.signals)
        /\ Shown("signals", model.signals[calls[k].entry])
        /\ SignalFits(model, tasks, calls[k], model.signals[calls[k].entry])
  BY <1>1, <1>4 DEF CallFits
<1>6. SignalFacts(model, model.signals[calls[k].entry])
  BY <1>4, <1>5, SignalsAre
<1> QED
  BY <1>3, <1>4, <1>5, <1>6

(* The task of a sample time is there, and the one of its identifier.      *)
LEMMA TaskIsThere ==
  ASSUME NEW m \in Models, NEW i \in DOMAIN m.sampleTimes
  PROVE  LET st == m.sampleTimes[i]
         IN  /\ TaskIn(m, st) \in 1 .. NumTasksIn(m)
             /\ m.mt /\ st.tid >= 0 /\ st.tid # 0 =>
                  (TaskIn(m, st) - 1) + BaseTid(m) = st.tid
             /\ st.tid = 0 => TaskIn(m, st) = 1
             /\ ~m.mt => TaskIn(m, st) = 1
<1> DEFINE st == m.sampleTimes[i]
           n == Cardinality(TidsOf(m))
<1>1. ModelFacts(m)
  BY ModelIs
<1>2. st \in [tid : Int, period : Nat] /\ st \in Range(m.sampleTimes)
  <2>1. m.sampleTimes \in Seq([tid : Int, period : Nat])
    BY <1>1 DEF ModelFacts
  <2>2. i \in 1 .. Len(m.sampleTimes)
    BY <2>1, LenProperties
  <2> QED
    BY <2>1, <2>2, ElementOfSeq DEF Range
<1>3. st.tid >= 0 => st.tid \in TidsOf(m)
  BY <1>2 DEF TidsOf
<1>4. /\ NumTasksIn(m) \in Nat \ {0} /\ BaseTid(m) \in {0, 1} /\ n \in Nat
      /\ \A tid \in TidsOf(m) : tid \in Nat /\ tid < n
  BY TasksAre
<1>5. NumTasksIn(m) = IF m.mt THEN n - BaseTid(m) ELSE 1
  BY DEF NumTasksIn
<1> HIDE DEF st, n
<1>6. TaskIn(m, st) = IF m.mt /\ st.tid >= 0
                      THEN 1 + st.tid - (IF st.tid # 0 THEN BaseTid(m) ELSE 0)
                      ELSE 1
  BY DEF TaskIn
<1>7. CASE m.mt /\ st.tid >= 0
  <2>1. st.tid \in Nat /\ st.tid < n
    BY <1>3, <1>4, <1>7
  <2>2. CASE st.tid = 0
    BY <1>4, <1>6, <1>7, <2>2 DEF st
  <2>3. CASE st.tid # 0
    <3>1. TaskIn(m, st) = 1 + st.tid - BaseTid(m)
      BY <1>6, <1>7, <2>3
    <3> QED
      BY <1>4, <1>5, <1>7, <2>1, <2>3, <3>1 DEF st
  <2> QED
    BY <2>2, <2>3
<1>8. CASE ~(m.mt /\ st.tid >= 0)
  <2>1. TaskIn(m, st) = 1
    BY <1>6, <1>8
  <2>2. st.tid = 0 => ~m.mt
    BY <1>8
  <2> QED
    BY <1>4, <1>8, <2>1, <2>2 DEF st
<1> QED
  BY <1>7, <1>8

(* A task has the period of its sample times; the first one the base rate, *)
(* which divides all of them.                                              *)
LEMMA PeriodsAre ==
  ASSUME NEW m \in Models, NEW tid, NEW i, PeriodIn(m, tid, i),
         NEW j \in DOMAIN m.sampleTimes, m.sampleTimes[j].tid >= 0,
         m.sampleTimes[j].period # 0, tid \in Nat
  PROVE  /\ /\ \/ m.sampleTimes[j].tid = tid
               \/ m.sampleTimes[j].tid = 0 /\ tid = BaseTid(m)
            => m.sampleTimes[i].period = m.sampleTimes[j].period
         /\ tid = BaseTid(m) =>
              m.sampleTimes[j].period % m.sampleTimes[i].period = 0
<1> DEFINE s == m.sampleTimes[i]
           t == m.sampleTimes[j]
<1>1. HasItsRates(m)
  BY ModelIs DEF ModelFacts
<1>2. s.tid = tid /\ s.period # 0 /\ s \in Range(m.sampleTimes)
        /\ t \in Range(m.sampleTimes)
  BY DEF PeriodIn, Range
<1> HIDE DEF s, t
<1>3. s.tid >= 0 /\ t.tid >= 0 /\ t.period # 0
  BY <1>2 DEF t
<1>4. OneRate(m, s, t) => s.period = t.period
  BY <1>1, <1>2, <1>3 DEF HasItsRates
<1>5. s.tid = BaseTid(m) => t.period % s.period = 0
  BY <1>1, <1>2, <1>3 DEF HasItsRates
<1>6. t.tid = tid \/ (t.tid = 0 /\ tid = BaseTid(m)) => OneRate(m, s, t)
  BY <1>2 DEF OneRate, BaseTid
<1> QED
  BY <1>2, <1>4, <1>5, <1>6 DEF s, t

-----------------------------------------------------------------------------
(* The theorems *)

LEMMA CallsAre ==
  ASSUME Inv
  PROVE  /\ DOMAIN calls = 1 .. Len(calls) /\ Len(calls) \in Nat
         /\ OfTable("signals") \subseteq 1 .. Len(calls)
         /\ \A k \in OfTable("signals") : calls[k].table = "signals"
         /\ \A c \in Range(calls) : \E k \in 1 .. Len(calls) : c = calls[k]
<1>1. PICK X : calls \in Seq(X)
  BY DEF Inv, CallsInv
<1>2. DOMAIN calls = 1 .. Len(calls) /\ Len(calls) \in Nat
  BY <1>1, LenProperties
<1> QED
  BY <1>2 DEF OfTable, Range

LEMMA SignalTaskIs ==
  ASSUME Inv, NEW k \in 1 .. Len(calls), calls[k].table = "signals"
  PROVE  LET c == calls[k]
             st == model.sampleTimes[model.signals[c.entry].sampleTime]
             b == tasks[1].sample_time
         IN  /\ c.task = TaskIn(model, st) /\ c.task \in 1 .. Len(tasks)
             /\ tasks[c.task] \in [sl_tid : Nat, sample_time : Nat \ {0}]
             /\ c.decimation = DecimationIn(model, b, st)
             /\ st \in [tid : Int, period : Nat]
             /\ 1 \in 1 .. Len(tasks) /\ DOMAIN tasks = 1 .. Len(tasks)
             /\ b \in Nat \ {0}
<1> DEFINE c == calls[k]
           s == model.signals[c.entry]
           st == model.sampleTimes[s.sampleTime]
<1>1. /\ SignalFacts(model, s) /\ SignalFits(model, tasks, c, s) /\ model \in Models
      /\ tasks \in Seq([sl_tid : Nat, sample_time : Nat \ {0}])
      /\ Len(tasks) = NumTasksIn(model)
  BY SignalIs
<1>2. /\ c.task = TaskIn(model, st)
      /\ c.decimation = DecimationIn(model, tasks[1].sample_time, st)
  BY <1>1 DEF SignalFits
<1>3. st \in [tid : Int, period : Nat] /\ s.sampleTime \in DOMAIN model.sampleTimes
  BY <1>1 DEF SignalFacts
<1>4. c.task \in 1 .. Len(tasks)
  BY <1>1, <1>2, <1>3, TaskIsThere
<1>5. 1 \in 1 .. Len(tasks)
  BY <1>1, TasksAre
<1>6. DOMAIN tasks = 1 .. Len(tasks)
  BY <1>1, LenProperties
<1>7. /\ tasks[c.task] \in [sl_tid : Nat, sample_time : Nat \ {0}]
      /\ tasks[1] \in [sl_tid : Nat, sample_time : Nat \ {0}]
  BY <1>1, <1>4, <1>5, ElementOfSeq
<1>8. tasks[1].sample_time \in Nat \ {0}
  BY <1>7
<1> QED
  BY <1>2, <1>3, <1>4, <1>5, <1>6, <1>7, <1>8

LEMMA DecimationIs ==
  ASSUME NEW m, NEW b \in Nat \ {0}, NEW st \in [tid : Int, period : Nat]
  PROVE  DecimationIn(m, b, st) \in Nat
<1>1. st.period \in Nat
  OBVIOUS
<1>2. (2 * st.period + b) \div (2 * b) \in Nat
  BY <1>1, Rounded
<1> QED
  BY <1>2 DEF DecimationIn

(* The variables have their types whatever is registered: every type that  *)
(* pdserv is given, and every field of one, is built in or a compound that *)
(* has been created before, and the pointer to the tasks to which          *)
(* register_signal adds the task of a signal stays in the array, whatever  *)
(* order the sample times have.                                            *)
THEOREM TypesHold == Spec => []TypeOK
<1>1. Inv => TypeOK
  <2> SUFFICES ASSUME Inv PROVE TypeOK
    OBVIOUS
  <2>1. /\ at \in DOMAIN NextTable \cup {"tasks", "done", "aborted"}
        /\ tasks \in Seq([sl_tid : Nat, sample_time : Nat \ {0}])
        /\ pd \in Pds
    BY TableNamesAre DEF Inv, PlaceInv, TasksInv, PdInv
  <2>2. ASSUME NEW c \in Range(calls)
        PROVE  /\ c.type \in 1 .. LastType(pd)
               /\ c.table = "signals" => /\ c.task \in DOMAIN tasks
                                         /\ c.decimation \in Nat
    <3>1. PICK k \in 1 .. Len(calls) : c = calls[k]
      BY CallsAre
    <3>2. c.type \in 1 .. LastType(pd)
      BY <3>1 DEF Inv, CallsInv, CallFits
    <3>3. ASSUME c.table = "signals"
          PROVE  c.task \in DOMAIN tasks /\ c.decimation \in Nat
      <4> DEFINE st == model.sampleTimes[model.signals[c.entry].sampleTime]
                 b == tasks[1].sample_time
      <4>1. /\ c.task \in 1 .. Len(tasks) /\ DOMAIN tasks = 1 .. Len(tasks)
            /\ c.decimation = DecimationIn(model, b, st)
            /\ st \in [tid : Int, period : Nat] /\ b \in Nat \ {0}
        BY <3>1, <3>3, SignalTaskIs
      <4> HIDE DEF st, b
      <4>2. DecimationIn(model, b, st) \in Nat
        BY <4>1, DecimationIs
      <4> QED
        BY <4>1, <4>2
    <3> QED
      BY <3>2, <3>3
  <2> QED
    BY <2>1, <2>2 DEF TypeOK
<1> QED
  BY <1>1, InvHolds, PTL

(* The signals are put under the task that computes them, in any model     *)
(* with the rates that Simulink gives it: the continuous ones under the    *)
(* base rate, whether or not it counts twice, the others under the task of *)
(* their identifier.  And the decimation, which is rounded, times the      *)
(* period of the task is the very period of the signal.                    *)
THEOREM SignalsKeepTheirTask == Spec => []SignalsAreOfTheirTask
<1>1. Inv => SignalsAreOfTheirTask
  <2> SUFFICES ASSUME Inv, NEW k \in OfTable("signals"),
                      SampleTime(Sig[calls[k].entry]).tid >= 0
               PROVE  LET c  == calls[k]
                          st == SampleTime(Sig[c.entry])
                      IN  /\ model.mt => st.tid \in TidsOfTask(c.task)
                          /\ st.period # 0 /\ (model.mt \/ model.dilation = 1) =>
                               c.decimation * tasks[c.task].sample_time =
                               st.period * model.dilation
    BY DEF SignalsAreOfTheirTask
  <2> DEFINE c == calls[k]
             s == model.signals[c.entry]
             j == s.sampleTime
             st == model.sampleTimes[j]
             b == tasks[1].sample_time
             task == tasks[c.task]
             tid == (c.task - 1) + BaseTid(model)
  <2>1. k \in 1 .. Len(calls) /\ c.table = "signals"
    BY CallsAre
  <2>2. /\ c.task = TaskIn(model, st) /\ c.task \in 1 .. Len(tasks)
        /\ c.decimation = DecimationIn(model, b, st)
        /\ st \in [tid : Int, period : Nat]
        /\ 1 \in 1 .. Len(tasks) /\ b \in Nat \ {0}
        /\ task \in [sl_tid : Nat, sample_time : Nat \ {0}]
    BY <2>1, SignalTaskIs
  <2>3. /\ SignalFacts(model, s) /\ model \in Models
        /\ Len(tasks) = NumTasksIn(model)
        /\ \A t \in 1 .. Len(tasks) : TaskFits(model, t, tasks[t])
    BY <2>1, SignalIs
  <2>4. SampleTime(Sig[c.entry]) = st /\ st.tid >= 0
    BY DEF SampleTime, Sig
  <2>5. j \in DOMAIN model.sampleTimes
    BY <2>3 DEF SignalFacts
  <2>6. /\ model.mt /\ st.tid >= 0 /\ st.tid # 0 =>
             (TaskIn(model, st) - 1) + BaseTid(model) = st.tid
        /\ st.tid = 0 => TaskIn(model, st) = 1
        /\ ~model.mt => TaskIn(model, st) = 1
    BY <2>3, <2>5, TaskIsThere
  <2>7. TaskFits(model, c.task, task)
    BY <2>2, <2>3
  <2>8. PICK i : /\ PeriodIn(model, tid, i)
                 /\ task.sample_time = model.sampleTimes[i].period * model.dilation
    BY <2>7 DEF TaskFits
  <2>9. task.sl_tid = tid
    BY <2>7 DEF TaskFits
  <2>10. ModelFacts(model)
    BY <2>3, ModelIs
  <2>11. /\ model.sampleTimes[i].period \in Nat \ {0} /\ model.dilation \in Nat \ {0}
         /\ BaseTid(model) \in {0, 1}
    <3>1. model.sampleTimes \in Seq([tid : Int, period : Nat])
      BY <2>10 DEF ModelFacts
    <3>2. i \in 1 .. Len(model.sampleTimes) /\ model.sampleTimes[i].period # 0
      BY <2>8, <3>1, LenProperties DEF PeriodIn
    <3>3. model.sampleTimes[i] \in [tid : Int, period : Nat]
      BY <3>1, <3>2, ElementOfSeq
    <3> QED
      BY <2>10, <3>2, <3>3 DEF ModelFacts, BaseTid
  <2>12. c.task = 1 => tid = BaseTid(model)
    BY <2>11
  <2>13. tid \in Nat
    BY <2>2, <2>7, <2>9 DEF TaskFits
  <2> HIDE DEF tid, st, task, c, j, b
  <2>14. ASSUME model.mt PROVE st.tid \in TidsOfTask(c.task)
    <3>1. st.tid = tid \/ (st.tid = 0 /\ c.task = 1)
      BY <2>2, <2>4, <2>6, <2>14 DEF tid
    <3> QED
      BY <2>9, <3>1 DEF TidsOfTask, task
  <2>15. ASSUME st.period # 0
         PROVE  /\ st.tid = tid \/ (st.tid = 0 /\ tid = BaseTid(model))
                     => model.sampleTimes[i].period = st.period
                /\ tid = BaseTid(model) => st.period % model.sampleTimes[i].period = 0
    BY <2>3, <2>4, <2>5, <2>8, <2>13, <2>15, PeriodsAre DEF st
  <2>16. ASSUME st.period # 0, model.mt
         PROVE  c.decimation * task.sample_time = st.period * model.dilation
    <3>1. st.tid = tid \/ (st.tid = 0 /\ tid = BaseTid(model))
      BY <2>2, <2>4, <2>6, <2>12, <2>16 DEF tid
    <3>2. c.decimation = 1
      BY <2>2, <2>16 DEF DecimationIn
    <3> QED
      BY <2>2, <2>8, <2>15, <2>16, <3>1, <3>2
  <2>17. ASSUME st.period # 0, ~model.mt, model.dilation = 1
         PROVE  c.decimation * task.sample_time = st.period * model.dilation
    <3>1. c.task = 1 /\ tid = BaseTid(model)
      BY <2>2, <2>6, <2>12, <2>17
    <3>2. task.sample_time = b /\ b = model.sampleTimes[i].period
      BY <2>8, <2>11, <2>17, <3>1 DEF task, b
    <3>3. c.decimation = (2 * st.period + b) \div (2 * b)
      BY <2>2, <2>4, <2>17 DEF DecimationIn
    <3>4. st.period \in Nat /\ st.period % b = 0
      BY <2>2, <2>15, <2>17, <3>1, <3>2
    <3>5. ((2 * st.period + b) \div (2 * b)) * b = st.period
      BY <2>2, <3>4, Rounded
    <3> QED
      BY <2>17, <3>2, <3>3, <3>4, <3>5
  <2> QED
    BY <2>4, <2>14, <2>16, <2>17 DEF c, task
<1> QED
  BY <1>1, InvHolds, PTL

(* What a client reads under a variable is the memory of the model: in any *)
(* model, the dimensions that create_dim makes of an array have its        *)
(* elements in their places, and the type of a variable has the scalars    *)
(* that are described, whatever levels of structures, complex numbers and  *)
(* arrays it has, and whatever other types are made before it or after.    *)
(* Nothing is said of a structure with an inner one that is not at its     *)
(* beginning, the case of the documented example (hrt_main.c:97): for them *)
(* it is wrong.  Arrays stored by rows have two dimensions (HasItsShape).  *)
THEOREM MemoryIsShown == Spec => []VariablesAreTheirMemory
<1>1. Inv => VariablesAreTheirMemory
  <2> SUFFICES ASSUME Inv, NEW c \in Range(calls)
               PROVE  LET s == model[c.table][c.entry]
                          t == Types[s.type]
                      IN  /\ ElementsAreThere(s, c.dims)
                          /\ ~(t.id = "struct" /\ Shifted(t.mwName)) =>
                               Scalars(pd)[Levels(t)][c.type] = CType(t)
    BY DEF VariablesAreTheirMemory
  <2> DEFINE s == model[c.table][c.entry]
             t == Types[s.type]
  <2>1. PICK k \in 1 .. Len(calls) : c = calls[k]
    BY CallsAre
  <2>2. CallFits(model, tasks, pd, c)
    BY <2>1 DEF Inv, CallsInv
  <2>3. /\ c.table \in TableNames /\ c.entry \in 1 .. Len(model[c.table])
        /\ Shown(c.table, s) /\ c.dims = Dims(s)
        /\ c.type = TypeIn(pd, t) /\ c.type \in 1 .. LastType(pd)
    BY <2>2 DEF CallFits
  <2>4. /\ model \in Models /\ pd \in Pds /\ Whole(pd, {})
        /\ \A name \in Described : KnownFits(pd, name)
    BY DEF Inv, PlaceInv, PdInv
  <2>5. EntryFacts(model, c.table, s)
    BY <2>3, <2>4, TablesAre
  <2>6. IF t.id = "struct" THEN t.mwName \in Described ELSE Contains(BuiltIn, t.id)
    BY <2>3 DEF Shown
  <2> HIDE DEF s
  <2>7. ElementsAreThere(s, c.dims)
    BY <2>3, <2>5, DimsAreThere DEF EntryFacts
  <2>8. t.complex \in BOOLEAN /\ HasItsSize(t)
    BY <2>5 DEF EntryFacts, DataType
  <2> HIDE DEF t
  <2>9. c.type # NoType
    <3>1. LastType(pd) \in Nat
      BY <2>4, PdFields
    <3> QED
      BY <2>3, <3>1
  <2>10. CASE t.id = "struct"
    <3> DEFINE n == Len(Descriptions[t.mwName])
    <3>1. t.mwName \in Described /\ c.type = pd.known[t.mwName]
      BY <2>3, <2>6, <2>10 DEF TypeIn
    <3>2. n \in Nat
      <4>1. Descriptions[t.mwName] \in Seq(Seq(FieldDesc))
        BY <3>1, DescriptionsAssumption
      <4> QED
        BY <4>1, LenProperties
    <3>3. Levels(t) = n + 2 /\ CType(t) = CScalars[n][<<t.mwName, 1>>]
      BY <2>10 DEF Levels, CType
    <3>4. KnownFits(pd, t.mwName)
      BY <2>4, <3>1
    <3> HIDE DEF n
    <3>5. n + 2 \in Nat /\ n + 2 >= n + 2
      BY <3>2
    <3>6. ~Shifted(t.mwName) =>
            Scalars(pd)[n + 2][c.type] = CScalars[n][<<t.mwName, 1>>]
      BY <2>9, <3>1, <3>4, <3>5 DEF KnownFits, n
    <3>7. ~(t.id = "struct" /\ Shifted(t.mwName)) =>
            Scalars(pd)[Levels(t)][c.type] = CType(t)
      BY <2>10, <3>3, <3>6
    <3> QED
      BY <2>7, <3>7 DEF t, s
  <2>11. CASE t.id # "struct"
    <3>1. Contains(BuiltIn, t.id) /\ c.type = NumberType(pd, t.id, t.complex)
      BY <2>3, <2>6, <2>11 DEF TypeIn
    <3>2. Levels(t) = 2 /\ CType(t) = Pair(t)
      BY <2>11 DEF Levels, CType
    <3>3. 2 \in Nat /\ 2 >= 2
      OBVIOUS
    <3>4. c.type = NoType <=> ~Contains(BuiltIn, t.id)
      BY <2>9, <3>1
    <3>5. Scalars(pd)[2][c.type] = Pair(t)
      BY <2>4, <2>8, <3>1, <3>3, <3>4, NumberScalars
    <3> QED
      BY <2>7, <3>2, <3>5 DEF t, s
  <2> QED
    BY <2>10, <2>11
<1> QED
  BY <1>1, InvHolds, PTL

(* A signal has neighbours of its block if any has its block.              *)
LEMMA RelatedIs ==
  ASSUME model \in Models, Distinguishable, NEW i \in 1 .. Len(model.signals),
         NEW j \in 1 .. Len(model.signals), i # j,
         model.signals[i].block = model.signals[j].block
  PROVE  RelatedIn(model, i)
<1>1. DOMAIN model.signals = 1 .. Len(model.signals) /\ Len(model.signals) \in Nat
  <2>1. model.signals \in Seq(Signals)
    BY ModelIs DEF ModelFacts
  <2> QED
    BY <2>1, LenProperties
<1>2. \A k, l \in 1 .. Len(model.signals) :
        k < l /\ model.signals[k].block = model.signals[l].block =>
          \A n \in k .. l : model.signals[n].block = model.signals[k].block
  BY <1>1 DEF Distinguishable, Sig
<1>3. CASE i < j
  <2>1. i + 1 \in i .. j /\ i + 1 \in 1 .. Len(model.signals)
    BY <1>1, <1>3
  <2>2. model.signals[i + 1].block = model.signals[i].block
    BY <1>2, <1>3, <2>1
  <2> QED
    BY <1>1, <2>1, <2>2 DEF RelatedIn
<1>4. CASE j < i
  <2>1. i - 1 \in j .. i /\ i - 1 \in 1 .. Len(model.signals)
    BY <1>1, <1>4
  <2>2. model.signals[i - 1].block = model.signals[i].block
    BY <1>2, <1>4, <2>1
  <2> QED
    BY <1>1, <2>1, <2>2 DEF RelatedIn
<1> QED
  BY <1>1, <1>3, <1>4

(* What a path is the tail of.                                             *)
LongName(i) ==
  LET s == model.signals[i]
  IN  IF RelatedIn(model, i) THEN Append(s.block, NameOf(s)) ELSE s.block

LEMMA LongNameIs ==
  ASSUME model \in Models, NEW i \in 1 .. Len(model.signals)
  PROVE  /\ PathIn(model, i) = Tail(LongName(i))
         /\ LongName(i) \in Seq(STRING) /\ LongName(i) # <<>>
         /\ Head(LongName(i)) = Head(model.signals[i].block)
<1> DEFINE s == model.signals[i]
<1>1. SignalFacts(model, s) /\ NameOf(s) \in STRING
  BY SignalsAre, PathIs
<1>2. PathIn(model, i) = IF RelatedIn(model, i) THEN Tail(Append(s.block, NameOf(s)))
                                                ELSE Tail(s.block)
  BY PathIs
<1>3. LongName(i) = IF RelatedIn(model, i) THEN Append(s.block, NameOf(s)) ELSE s.block
  BY DEF LongName
<1>4. s.block \in Seq(STRING) /\ s.block # <<>>
  BY <1>1 DEF SignalFacts
<1> HIDE DEF s
<1>5. Append(s.block, NameOf(s)) \in Seq(STRING) /\ Append(s.block, NameOf(s)) # <<>>
        /\ Head(Append(s.block, NameOf(s))) = Head(s.block)
  BY <1>1, <1>4, OneName
<1> QED
  BY <1>2, <1>3, <1>4, <1>5 DEF s

LEMMA PathsDiffer ==
  ASSUME model \in Models, Distinguishable, NEW i \in 1 .. Len(model.signals),
         NEW j \in 1 .. Len(model.signals), i < j
  PROVE  PathIn(model, i) # PathIn(model, j)
<1> SUFFICES ASSUME PathIn(model, i) = PathIn(model, j) PROVE FALSE
  OBVIOUS
<1> DEFINE s == model.signals[i]
           t == model.signals[j]
<1>1. /\ SignalFacts(model, s) /\ SignalFacts(model, t)
      /\ NameOf(s) \in STRING /\ NameOf(t) \in STRING
  BY SignalsAre, PathIs
<1>2. Head(s.block) = Head(t.block)
  BY <1>1 DEF SignalFacts
<1>3. LongName(i) = LongName(j)
  <2>1. Tail(LongName(i)) = Tail(LongName(j)) /\ Head(LongName(i)) = Head(LongName(j))
    BY <1>2, LongNameIs
  <2>2. /\ LongName(i) \in Seq(STRING) /\ LongName(i) # <<>>
        /\ LongName(j) \in Seq(STRING) /\ LongName(j) # <<>>
    BY LongNameIs
  <2> QED
    BY <2>1, <2>2, SameTail
<1>4. DOMAIN Sig = 1 .. Len(model.signals)
  <2>1. model.signals \in Seq(Signals)
    BY ModelIs DEF ModelFacts
  <2> QED
    BY <2>1, LenProperties DEF Sig
<1>5. /\ t.block # Append(s.block, s.name) /\ t.block # Append(s.block, s.port)
      /\ s.block # Append(t.block, t.name) /\ s.block # Append(t.block, t.port)
      /\ s.block = t.block => /\ {s.port, s.name} \cap {t.port, t.name} \subseteq {""}
                              /\ s.port # t.port
  BY <1>4 DEF Distinguishable, Sig
<1>6. s.block \in Seq(STRING) /\ t.block \in Seq(STRING)
  BY <1>1 DEF SignalFacts
<1>7. s.block = t.block => RelatedIn(model, i) /\ RelatedIn(model, j)
  <2>1. i # j
    BY <1>4
  <2> QED
    BY <2>1, RelatedIs
<1> HIDE DEF s, t
<1>8. CASE RelatedIn(model, i) /\ RelatedIn(model, j)
  <2>1. Append(s.block, NameOf(s)) = Append(t.block, NameOf(t))
    BY <1>3, <1>8 DEF LongName, s, t
  <2>2. s.block = t.block /\ NameOf(s) = NameOf(t)
    BY <1>1, <1>6, <2>1, SameAppend
  <2> QED
    BY <1>5, <2>2 DEF NameOf
<1>9. CASE RelatedIn(model, i) /\ ~RelatedIn(model, j)
  <2>1. Append(s.block, NameOf(s)) = t.block
    BY <1>3, <1>9 DEF LongName, s, t
  <2> QED
    BY <1>5, <2>1 DEF NameOf
<1>10. CASE ~RelatedIn(model, i) /\ RelatedIn(model, j)
  <2>1. Append(t.block, NameOf(t)) = s.block
    BY <1>3, <1>10 DEF LongName, s, t
  <2> QED
    BY <1>5, <2>1 DEF NameOf
<1>11. CASE ~RelatedIn(model, i) /\ ~RelatedIn(model, j)
  <2>1. s.block = t.block
    BY <1>3, <1>11 DEF LongName, s, t
  <2> QED
    BY <1>7, <1>11, <2>1
<1> QED
  BY <1>8, <1>9, <1>10, <1>11

LEMMA NamesAre ==
  ASSUME Inv, Distinguishable, NEW k \in 1 .. Len(calls), calls[k].table = "signals"
  PROVE  Names(calls[k])
<1> DEFINE c == calls[k]
           s == model.signals[c.entry]
           b == s.block
           x == NameOf(s)
<1>1. /\ c.entry \in 1 .. Len(model.signals) /\ SignalFacts(model, s)
      /\ SignalFits(model, tasks, c, s) /\ model \in Models
  BY SignalIs
<1>2. /\ c.path = PathIn(model, c.entry)
      /\ c.alias = IF c.accepted /\ ~RelatedIn(model, c.entry) THEN s.name ELSE ""
  BY <1>1 DEF SignalFits
<1>3. /\ x \in STRING
      /\ c.path = IF RelatedIn(model, c.entry) THEN Tail(Append(b, x)) ELSE Tail(b)
  BY <1>1, <1>2, PathIs
<1>4. DOMAIN Sig = 1 .. Len(model.signals) /\ Sig = model.signals
  <2>1. model.signals \in Seq(Signals)
    BY <1>1, ModelIs DEF ModelFacts
  <2> QED
    BY <2>1, LenProperties DEF Sig
<1>5. RelatedIn(model, c.entry) <=>
        \E i \in DOMAIN Sig : i # c.entry /\ Sig[i].block = b
  <2>1. ASSUME RelatedIn(model, c.entry)
        PROVE  \E i \in DOMAIN Sig : i # c.entry /\ Sig[i].block = b
    <3>1. Len(model.signals) \in Nat
      BY <1>1, ModelIs, LenProperties DEF ModelFacts
    <3>2. c.entry - 1 # c.entry /\ c.entry + 1 # c.entry
      BY <1>1, <3>1
    <3> QED
      BY <1>4, <2>1, <3>2 DEF RelatedIn
  <2>2. ASSUME NEW i \in DOMAIN Sig, i # c.entry, Sig[i].block = b
        PROVE  RelatedIn(model, c.entry)
    BY <1>1, <1>4, <2>2, RelatedIs
  <2> QED
    BY <2>1, <2>2
<1>6. b \in Seq(STRING) /\ b # <<>>
  BY <1>1 DEF SignalFacts
<1>7. Tail(Append(b, x)) # Tail(b)
  <2> HIDE DEF b, x
  <2>1. /\ Tail(Append(b, x)) = Append(Tail(b), x) /\ Tail(b) \in Seq(STRING)
    BY <1>3, <1>6, OneName
  <2>2. Len(Append(Tail(b), x)) = Len(Tail(b)) + 1 /\ Len(Tail(b)) \in Nat
    BY <1>3, <2>1, AppendProperties, LenProperties
  <2> DEFINE l == Len(Tail(b))
  <2>3. l + 1 # l
    BY <2>2
  <2> QED
    BY <2>1, <2>2, <2>3
<1> HIDE DEF c, b, x
<1>8. Names(c)
  <2>1. Sig[c.entry].block = b /\ Sig[c.entry].name = s.name
    BY <1>4 DEF b
  <2>2. CASE RelatedIn(model, c.entry)
    <3>1. c.path = Tail(Append(b, x)) /\ c.alias = ""
      BY <1>2, <1>3, <2>2
    <3> QED
      BY <1>5, <1>7, <2>1, <2>2, <3>1 DEF Names
  <2>3. CASE ~RelatedIn(model, c.entry)
    <3>1. c.path = Tail(b) /\ (c.accepted => c.alias = s.name)
      BY <1>2, <1>3, <2>3
    <3> QED
      BY <1>5, <2>1, <2>3, <3>1 DEF Names
  <2> QED
    BY <2>2, <2>3
<1> QED
  BY <1>8 DEF c

(* Every variable has a path of its own, in any model whose signals can be *)
(* told apart, which they cannot if two of one block have the same name:   *)
(* looking at the two neighbours of a signal is enough to find out whether *)
(* it shares its block.  And when the program goes on, every entry that    *)
(* can be shown has been registered, once, in the order of its table,      *)
(* whatever the entries are that cannot.                                   *)
THEOREM PathsAreTheirOwn == Spec => []EachHasItsPath
<1>1. Inv => EachHasItsPath
  <2> SUFFICES ASSUME Inv PROVE EachHasItsPath
    OBVIOUS
  <2>1. /\ \A k \in 1 .. Len(calls) :
             /\ CallFits(model, tasks, pd, calls[k])
             /\ Passed(at, entry, calls[k].table, calls[k].entry)
        /\ \A k, l \in 1 .. Len(calls) : k < l /\ calls[k].table = calls[l].table =>
             calls[k].entry < calls[l].entry
        /\ \A table \in TableNames : \A i \in 1 .. Len(model[table]) :
             Passed(at, entry, table, i) /\ Shown(table, model[table][i]) =>
               \E k \in 1 .. Len(calls) : calls[k].table = table /\ calls[k].entry = i
    BY DEF Inv, CallsInv
  <2>2. DOMAIN calls = 1 .. Len(calls) /\ Len(calls) \in Nat /\ model \in Models
    BY CallsAre DEF Inv, PlaceInv
  <2>3. ASSUME Distinguishable, NEW k \in OfTable("signals"),
               NEW l \in OfTable("signals"), calls[k].path = calls[l].path
        PROVE  k = l
    <3> DEFINE i == calls[k].entry
               j == calls[l].entry
    <3>1. /\ k \in 1 .. Len(calls) /\ calls[k].table = "signals"
          /\ l \in 1 .. Len(calls) /\ calls[l].table = "signals"
      BY CallsAre
    <3>2. /\ i \in 1 .. Len(model.signals) /\ j \in 1 .. Len(model.signals)
          /\ SignalFits(model, tasks, calls[k], model.signals[i])
          /\ SignalFits(model, tasks, calls[l], model.signals[j])
      BY <3>1, SignalIs
    <3>3. PathIn(model, i) = PathIn(model, j)
      BY <2>3, <3>2 DEF SignalFits
    <3>4. k < l => i < j
      BY <2>1, <3>1
    <3>5. l < k => j < i
      BY <2>1, <3>1
    <3> HIDE DEF i, j
    <3>6. ~(i < j) /\ ~(j < i)
      BY <2>2, <2>3, <3>2, <3>3, PathsDiffer
    <3> QED
      BY <2>2, <3>1, <3>4, <3>5, <3>6
  <2>4. ASSUME Distinguishable, NEW k \in OfTable("signals")
        PROVE  Names(calls[k])
    <3>1. k \in 1 .. Len(calls) /\ calls[k].table = "signals"
      BY CallsAre
    <3> QED
      BY <2>4, <3>1, NamesAre
  <2>5. ASSUME at = "done", NEW table \in DOMAIN NextTable
        PROVE  /\ {calls[k].entry : k \in OfTable(table)} =
                    {i \in DOMAIN model[table] : Shown(table, model[table][i])}
               /\ \A k, l \in OfTable(table) :
                    k < l => calls[k].entry < calls[l].entry
    <3>1. table \in TableNames /\ \A i : Passed(at, entry, table, i)
      BY <2>5, TableNamesAre DEF Passed
    <3>2. DOMAIN model[table] = 1 .. Len(model[table])
      BY <2>2, <3>1, TablesAre
    <3>3. \A k : k \in OfTable(table) <=> k \in 1 .. Len(calls) /\ calls[k].table = table
      BY <2>2 DEF OfTable
    <3>4. ASSUME NEW k \in OfTable(table)
          PROVE  /\ calls[k].entry \in DOMAIN model[table]
                 /\ Shown(table, model[table][calls[k].entry])
      <4>1. CallFits(model, tasks, pd, calls[k]) /\ calls[k].table = table
        BY <2>1, <3>3
      <4> QED
        BY <3>2, <4>1 DEF CallFits
    <3>5. ASSUME NEW i \in DOMAIN model[table], Shown(table, model[table][i])
          PROVE  \E k \in OfTable(table) : calls[k].entry = i
      BY <2>1, <3>1, <3>2, <3>3, <3>5
    <3>6. \A k, l \in OfTable(table) : k < l => calls[k].entry < calls[l].entry
      BY <2>1, <3>3
    <3>7. {calls[k].entry : k \in OfTable(table)} =
            {i \in DOMAIN model[table] : Shown(table, model[table][i])}
      BY <3>4, <3>5
    <3> QED
      BY <3>6, <3>7
  <2> QED
    BY <2>3, <2>4, <2>5 DEF EachHasItsPath
<1> QED
  BY <1>1, InvHolds, PTL

=============================================================================
