--------------------------- MODULE EcSlaveProofs ---------------------------
(***************************************************************************)
(* Proofs about EcSlave, for any configuration, any number of ports and    *)
(* any order of the calls of Simulink, and about SlaveStart, in which the  *)
(* program that is generated of a block starts the slave.                  *)
(***************************************************************************)
EXTENDS SlaveStart, SequenceTheorems, FiniteSetTheorems, WellFoundedInduction,
        TLAPS

-----------------------------------------------------------------------------
(* The state has its types *)

Record ==
  [kind : {"sdo", "soe"}, row : Nat]
    \cup [kind : {"dc"}]
    \cup [kind : {"param"}, port : {"out", "in"} \X Nat, spec : 1 .. 3]
    \cup [kind : {"port"}, port : {"out", "in"} \X Nat, param : [1 .. 3 -> Int]]

(* The SoE parameters as get_slave_soe takes them over.                    *)
SoeTaken == {c \in SoeItem : c = SoeConfig(c.given)}

ConfigTypes ==
  /\ pc \in Sections \cup Kept \cup {"refused", "end"}
  /\ error \in BOOLEAN /\ type \in BOOLEAN /\ arrays \subseteq {"out", "in"}
  /\ sdo \in Seq([subindex : -1 .. 255, type : DataType, bytes : Nat])
  /\ soe \in Seq(SoeTaken) /\ dc \in [active : BOOLEAN, cyclic : BOOLEAN]
  /\ sm \in SmLists \cup {<<>>} /\ parameter \in ParamLists \cup {<<>>}

PortTypes ==
  /\ o_port \in Seq(Port) /\ i_port \in Seq(Port)
  /\ runtime_param_count \in Nat /\ filter_count \in Nat /\ dwork_count \in Nat

SignalTypesInv ==
  /\ inType \in Seq(SlTypes \cup {Dynamic}) /\ inWidth \in Seq(Int)
  /\ outWidth \in Seq(Nat)
  /\ pc \in Kept => /\ Len(inType) = Len(i_port) /\ Len(inWidth) = Len(i_port)
                   /\ Len(outWidth) = Len(o_port)

RtwTypes ==
  /\ settings \in Seq(Record) /\ param_idx = Len(settings)
  /\ index \in [sdo : Seq(Nat), soe : Seq(Nat), dc : Nat \cup {-1},
                out : Seq(Nat), in : Seq(Nat)]

(* What a getter has not read yet is empty.                                *)
ToSdo == {"address", "sdo"}
ToSoe == ToSdo \cup {"soe"}
ToSm == ToSoe \cup {"dc", "sm"}
ToParameter == ToSm \cup {"parameter"}
Unread ==
  /\ pc = "address" => type = FALSE
  /\ pc \in ToSdo => sdo = <<>>
  /\ pc \in ToSoe => soe = <<>>
  /\ pc \in ToSm => sm = <<>>
  /\ pc \in ToParameter => parameter = <<>> /\ o_port = <<>> /\ i_port = <<>>

Types == ConfigTypes /\ PortTypes /\ SignalTypesInv /\ RtwTypes /\ Unread

LEMMA TypesAreOK == Types => TypeOK
<1> SUFFICES ASSUME Types PROVE TypeOK
  OBVIOUS
<1>1. soe \in Seq(SoeItem)
  <2>1. soe \in Seq(SoeTaken) /\ SoeTaken \subseteq SoeItem
    BY DEF Types, ConfigTypes, SoeTaken
  <2> HIDE DEF SoeTaken, SoeItem
  <2> QED
    BY <2>1
<1> QED
  BY <1>1 DEF Types, ConfigTypes, PortTypes, SignalTypesInv, RtwTypes, TypeOK

-----------------------------------------------------------------------------
(* Helpers *)

LEMMA DataTypesKnown ==
  /\ 1008 \in DataType /\ 3032 \in DataType /\ 3064 \in DataType
  /\ DataType \subseteq Nat \ {0} /\ NoType = 0 /\ BadType = -1
BY DEF DataType, NoType, BadType

LEMMA OfRealType ==
  \A h \in Int : OfReal(h) \in DataType \cup {NoType}
<1> USE DataTypesKnown
<1> TAKE h \in Int
<1>1. h \in {32, 64} => 3000 + h \in DataType
  OBVIOUS
<1> QED
  BY <1>1 DEF OfReal

LEMMA GetDataTypeType ==
  \A spec \in TypeSpec : GetDataType(spec) \in DataType \cup {NoType, BadType}
<1> TAKE spec \in TypeSpec
<1>1. \A dt \in DataType \cup {NoType} : OrBad(dt) \in DataType \cup {BadType}
  BY DEF OrBad
<1>2. CASE spec.kind = "number"
  <2>1. spec.hundredths \in Int
    BY <1>2 DEF TypeSpec
  <2> QED
    BY <1>1, <1>2, <2>1, OfRealType DEF GetDataType
<1>3. CASE spec.kind = "name"
  <2>1. spec.id \in DataType \cup {NoType}
    BY <1>3 DEF TypeSpec
  <2> QED
    BY <1>1, <1>3, <2>1 DEF GetDataType
<1>4. CASE spec.kind = "integer"
  <2>1. spec.bits \in Nat
    BY <1>4 DEF TypeSpec
  <2>2. 100 * ((IF spec.signed THEN 2000 ELSE 1000) + spec.bits) \in Int
    BY <2>1
  <2> QED
    BY <1>1, <1>4, <2>2, OfRealType DEF GetDataType
<1>5. CASE spec.kind = "float"
  <2>1. spec.bits \in {32, 64}
    BY <1>5 DEF TypeSpec
  <2> QED
    BY <1>5, <2>1, DataTypesKnown DEF GetDataType
<1>6. CASE spec.kind \in {"none", "other", "bad"}
  BY <1>6 DEF GetDataType
<1> QED
  BY <1>2, <1>3, <1>4, <1>5, <1>6 DEF TypeSpec

LEMMA SlTypeType == \A dt : SlType(dt) \in SlTypes
BY DEF SlType, SlTypes

-----------------------------------------------------------------------------
(* Recursion over natural numbers *)

LEMMA LeastOf ==
  ASSUME NEW S, S \subseteq Nat, S # {}
  PROVE  \E x \in S : \A y \in S : x <= y
<1> DEFINE R == {ss \in Nat \X Nat : ss[1] < ss[2]}
<1>1. IsWellFoundedOn(R, Nat)
  BY NatLessThanWellFounded DEF OpToRel
<1>2. \A x, y \in Nat : y < x => <<y, x>> \in R
  OBVIOUS
<1> HIDE DEF R
<1>3. \E x \in S : \A y \in S : ~(<<y, x>> \in R)
  BY <1>1, WFMin
<1>4. \A x, y \in Nat : ~(y < x) => x <= y
  OBVIOUS
<1> QED
  BY <1>2, <1>3, <1>4

(* Induction, of a set rather than of a formula.                           *)
LEMMA Induct ==
  ASSUME NEW S, 0 \in S, \A k \in Nat : k \in S => k + 1 \in S
  PROVE  Nat \subseteq S
<1> SUFFICES ASSUME Nat \ S # {} PROVE FALSE
  OBVIOUS
<1>1. PICK x \in Nat \ S : \A y \in Nat \ S : x <= y
  BY LeastOf
<1>2. x # 0 /\ x - 1 \in Nat /\ x - 1 \in S
  BY <1>1
<1> QED
  BY <1>1, <1>2

(* f computes step by step with G, up to n.                                *)
Computes(f, n, first, G) ==
  f[0] = first /\ \A i \in 1 .. n : f[i] = G[<<i, f[i - 1]>>]

SameUpTo(n, f, g) == \A i \in 0 .. n : f[i] = g[i]

LEMMA ComputesOnce ==
  ASSUME NEW n \in Nat, NEW first, NEW G, NEW f, NEW g,
         Computes(f, n, first, G), Computes(g, n, first, G)
  PROVE  SameUpTo(n, f, g)
<1> DEFINE S == {i \in Nat : i <= n => f[i] = g[i]}
<1>1. 0 \in S
  BY DEF Computes
<1>2. ASSUME NEW i \in Nat, i \in S PROVE i + 1 \in S
  <2> SUFFICES ASSUME i + 1 <= n PROVE f[i + 1] = g[i + 1]
    OBVIOUS
  <2>1. i + 1 \in 1 .. n /\ (i + 1) - 1 = i /\ f[i] = g[i]
    BY <1>2
  <2>2. f[i + 1] = G[<<i + 1, f[i]>>] /\ g[i + 1] = G[<<i + 1, g[i]>>]
    BY <2>1 DEF Computes
  <2> QED
    BY <2>1, <2>2
<1>3. Nat \subseteq S
  <2> HIDE DEF S
  <2> QED
    BY <1>1, <1>2, Induct
<1> QED
  BY <1>3 DEF SameUpTo

LEMMA ComputationExists ==
  ASSUME NEW n \in Nat, NEW X, NEW first \in X,
         NEW G, \A i \in 1 .. n : \A x \in X : G[<<i, x>>] \in X
  PROVE  \E f \in [0 .. n -> X] : Computes(f, n, first, G)
<1> DEFINE S == {m \in Nat : m <= n =>
                   \E f \in [0 .. m -> X] : Computes(f, m, first, G)}
<1>1. 0 \in S
  <2> DEFINE f == [i \in 0 .. 0 |-> first]
  <2>1. f \in [0 .. 0 -> X] /\ Computes(f, 0, first, G)
    BY DEF Computes
  <2> HIDE DEF f
  <2> QED
    BY <2>1
<1>2. ASSUME NEW m \in Nat, m \in S PROVE m + 1 \in S
  <2> SUFFICES ASSUME m + 1 <= n
               PROVE  \E f \in [0 .. m + 1 -> X] : Computes(f, m + 1, first, G)
    OBVIOUS
  <2>1. PICK f \in [0 .. m -> X] : Computes(f, m, first, G)
    BY <1>2
  <2> DEFINE g == [i \in 0 .. m + 1 |->
                     IF i = m + 1 THEN G[<<m + 1, f[m]>>] ELSE f[i]]
  <2>2. f[m] \in X /\ m + 1 \in 1 .. n
    OBVIOUS
  <2>3. G[<<m + 1, f[m]>>] \in X
    BY <2>2
  <2>4. g \in [0 .. m + 1 -> X]
    BY <2>3
  <2>5. Computes(g, m + 1, first, G)
    <3>1. g[0] = first
      BY <2>1 DEF Computes
    <3>2. ASSUME NEW i \in 1 .. m + 1 PROVE g[i] = G[<<i, g[i - 1]>>]
      <4>1. CASE i = m + 1
        <5>1. g[i] = G[<<m + 1, f[m]>>] /\ g[i - 1] = f[m]
          BY <4>1
        <5> QED
          BY <4>1, <5>1
      <4>2. CASE i # m + 1
        <5>1. i \in 1 .. m /\ i - 1 \in 0 .. m
          BY <4>2
        <5>2. g[i] = f[i] /\ g[i - 1] = f[i - 1]
          BY <4>2, <5>1
        <5>3. f[i] = G[<<i, f[i - 1]>>]
          BY <2>1, <5>1 DEF Computes
        <5> QED
          BY <5>2, <5>3
      <4> QED
        BY <4>1, <4>2
    <3> HIDE DEF g
    <3> QED
      BY <3>1, <3>2 DEF Computes
  <2> HIDE DEF g
  <2> QED
    BY <2>4, <2>5
<1>3. Nat \subseteq S
  <2> HIDE DEF S
  <2> QED
    BY <1>1, <1>2, Induct
<1>4. n \in S
  <2> HIDE DEF S
  <2> QED
    BY <1>3
<1>5. n <= n
  OBVIOUS
<1> QED
  BY <1>4, <1>5

-----------------------------------------------------------------------------
(* Sums and joined sequences *)

LEMMA TotalIs ==
  ASSUME NEW n \in Seq(Nat)
  PROVE  \E f \in [0 .. Len(n) -> Nat] :
           /\ f[0] = 0 /\ \A i \in 1 .. Len(n) : f[i] = f[i - 1] + n[i]
           /\ Total(n) = f[Len(n)]
<1> DEFINE G == [ix \in (1 .. Len(n)) \X Nat |-> ix[2] + n[ix[1]]]
           step(f) == [i \in 0 .. Len(n) |->
                         IF i = 0 THEN 0 ELSE f[i - 1] + n[i]]
           sum == CHOOSE f : f = step(f)
<1>0. Len(n) \in Nat /\ \A i \in 1 .. Len(n) : n[i] \in Nat /\ i - 1 \in 0 .. Len(n)
  <2>1. Len(n) \in Nat
    BY LenProperties
  <2>2. \A i \in 1 .. Len(n) : n[i] \in Nat
    BY ElementOfSeq
  <2>3. \A i \in 1 .. Len(n) : i - 1 \in 0 .. Len(n)
    BY <2>1
  <2> QED
    BY <2>1, <2>2, <2>3
<1>1. \A i \in 1 .. Len(n) : \A x \in Nat : G[<<i, x>>] = x + n[i]
  OBVIOUS
<1>2. PICK f \in [0 .. Len(n) -> Nat] : Computes(f, Len(n), 0, G)
  <2>1. ASSUME NEW i \in 1 .. Len(n), NEW x \in Nat PROVE G[<<i, x>>] \in Nat
    <3>1. G[<<i, x>>] = x + n[i]
      BY <1>1
    <3>2. n[i] \in Nat
      BY <1>0
    <3> HIDE DEF G
    <3> QED
      BY <3>1, <3>2
  <2> HIDE DEF G
  <2> QED
    BY <1>0, <2>1, ComputationExists
<1>3. f[0] = 0 /\ \A i \in 1 .. Len(n) : f[i] = f[i - 1] + n[i]
  <2>1. ASSUME NEW i \in 1 .. Len(n) PROVE f[i] = f[i - 1] + n[i]
    <3> HIDE DEF G
    <3>1. f[i - 1] \in Nat /\ f[i] = G[<<i, f[i - 1]>>]
      BY <1>0, <1>2 DEF Computes
    <3> QED
      BY <1>1, <3>1
  <2> QED
    BY <1>2, <2>1 DEF Computes
<1>4. f = step(f)
  <2>1. \A i \in 0 .. Len(n) :
          f[i] = IF i = 0 THEN 0 ELSE f[i - 1] + n[i]
    BY <1>3
  <2> QED
    BY <2>1
<1>5. sum = step(sum)
  BY <1>4
<1> DEFINE S == {i \in Nat : i <= Len(n) => sum[i] = f[i]}
<1>6. sum[0] = 0 /\ \A i \in 1 .. Len(n) : sum[i] = sum[i - 1] + n[i]
  <2> HIDE DEF sum
  <2>1. \A i \in 0 .. Len(n) :
          sum[i] = IF i = 0 THEN 0 ELSE sum[i - 1] + n[i]
    BY <1>5
  <2> QED
    BY <2>1
<1> HIDE DEF sum, G
<1>7. 0 \in S
  BY <1>3, <1>6
<1>8. ASSUME NEW i \in Nat, i \in S PROVE i + 1 \in S
  <2> SUFFICES ASSUME i + 1 <= Len(n) PROVE sum[i + 1] = f[i + 1]
    OBVIOUS
  <2>1. i + 1 \in 1 .. Len(n) /\ (i + 1) - 1 = i /\ sum[i] = f[i]
    BY <1>8
  <2>2. sum[i + 1] = sum[i] + n[i + 1] /\ f[i + 1] = f[i] + n[i + 1]
    BY <1>3, <1>6, <2>1
  <2> QED
    BY <2>1, <2>2
<1>9. Len(n) \in S
  <2>1. Nat \subseteq S
    <3> HIDE DEF S
    <3> QED
      BY <1>7, <1>8, Induct
  <2> QED
    BY <2>1
<1>10. Total(n) = sum[Len(n)]
  BY DEF Total, sum
<1> QED
  BY <1>3, <1>9, <1>10

LEMMA TotalType == \A n \in Seq(Nat) : Total(n) \in Nat
<1> TAKE n \in Seq(Nat)
<1> QED
  BY TotalIs

(* One more value.                                                         *)
LEMMA TotalOfMore ==
  ASSUME NEW n \in Seq(Nat), NEW x \in Nat
  PROVE  Total(Append(n, x)) = Total(n) + x
<1> DEFINE more == Append(n, x)
           G == [ix \in (1 .. Len(n)) \X Nat |-> ix[2] + n[ix[1]]]
<1>1. more \in Seq(Nat) /\ Len(more) = Len(n) + 1 /\ Len(n) \in Nat
        /\ (\A i \in 1 .. Len(n) : more[i] = n[i]) /\ more[Len(n) + 1] = x
  OBVIOUS
<1> HIDE DEF more
<1>2. PICK f \in [0 .. Len(n) -> Nat] :
        /\ f[0] = 0 /\ \A i \in 1 .. Len(n) : f[i] = f[i - 1] + n[i]
        /\ Total(n) = f[Len(n)]
  BY TotalIs
<1>3. PICK g \in [0 .. Len(more) -> Nat] :
        /\ g[0] = 0 /\ \A i \in 1 .. Len(more) : g[i] = g[i - 1] + more[i]
        /\ Total(more) = g[Len(more)]
  BY <1>1, TotalIs
<1>4. \A i \in 1 .. Len(n) : \A y \in Nat : G[<<i, y>>] = y + n[i]
  OBVIOUS
<1>5. Computes(f, Len(n), 0, G)
  <2> HIDE DEF G
  <2>1. \A i \in 1 .. Len(n) : f[i - 1] \in Nat
    OBVIOUS
  <2> QED
    BY <1>2, <1>4, <2>1 DEF Computes
<1>6. Computes(g, Len(n), 0, G)
  <2> HIDE DEF G
  <2>1. ASSUME NEW i \in 1 .. Len(n)
        PROVE  g[i - 1] \in Nat /\ g[i] = g[i - 1] + n[i]
    <3>1. i \in 1 .. Len(more) /\ i - 1 \in 0 .. Len(more) /\ more[i] = n[i]
      BY <1>1
    <3> QED
      BY <1>3, <3>1
  <2> QED
    BY <1>3, <1>4, <2>1 DEF Computes
<1>7. f[Len(n)] = g[Len(n)]
  <2> HIDE DEF G
  <2>1. Len(n) \in Nat /\ Len(n) \in 0 .. Len(n)
    BY <1>1
  <2>2. SameUpTo(Len(n), f, g)
    BY <1>5, <1>6, <2>1, ComputesOnce
  <2> QED
    BY <2>1, <2>2 DEF SameUpTo
<1>8. g[Len(n) + 1] = g[Len(n)] + x
  BY <1>1, <1>3
<1> QED
  BY <1>1, <1>2, <1>3, <1>7, <1>8 DEF more

LEMMA FlattenIs ==
  ASSUME NEW X, NEW s \in Seq(Seq(X))
  PROVE  \E f \in [0 .. Len(s) -> Seq(X)] :
           /\ f[0] = <<>> /\ \A i \in 1 .. Len(s) : f[i] = f[i - 1] \o s[i]
           /\ FlattenSeq(s) = f[Len(s)]
<1> DEFINE G == [ix \in (1 .. Len(s)) \X Seq(X) |-> ix[2] \o s[ix[1]]]
           step(f) == [i \in 1 .. Len(s) |->
                         IF i = 1 THEN s[i] ELSE f[i - 1] \o s[i]]
           flat == CHOOSE f : f = step(f)
<1>0. Len(s) \in Nat /\ \A i \in 1 .. Len(s) :
        s[i] \in Seq(X) /\ i - 1 \in 0 .. Len(s)
  OBVIOUS
<1>1. \A i \in 1 .. Len(s) : \A x \in Seq(X) :
        s[i] \in Seq(X) /\ x \o s[i] \in Seq(X) /\ G[<<i, x>>] = x \o s[i]
  <2>1. \A i \in 1 .. Len(s) : \A x \in Seq(X) : G[<<i, x>>] = x \o s[i]
    OBVIOUS
  <2> HIDE DEF G
  <2> QED
    BY <1>0, <2>1, ConcatProperties
<1>2. PICK f \in [0 .. Len(s) -> Seq(X)] : Computes(f, Len(s), <<>>, G)
  <2>1. \A i \in 1 .. Len(s) : \A x \in Seq(X) : G[<<i, x>>] \in Seq(X)
    BY <1>1
  <2> HIDE DEF G
  <2> QED
    BY <1>0, <2>1, ComputationExists, EmptySeq
<1>3. f[0] = <<>> /\ \A i \in 1 .. Len(s) : f[i] = f[i - 1] \o s[i]
  <2>1. ASSUME NEW i \in 1 .. Len(s) PROVE f[i] = f[i - 1] \o s[i]
    <3> HIDE DEF G
    <3>1. f[i - 1] \in Seq(X) /\ f[i] = G[<<i, f[i - 1]>>]
      BY <1>0, <1>2 DEF Computes
    <3> QED
      BY <1>1, <3>1
  <2> QED
    BY <1>2, <2>1 DEF Computes
<1>4. CASE Len(s) = 0
  <2>1. s = <<>> /\ FlattenSeq(s) = s
    BY <1>4, EmptySeq DEF FlattenSeq
  <2> QED
    BY <1>3, <1>4, <2>1
<1>5. CASE Len(s) # 0
  <2> DEFINE h == [i \in 1 .. Len(s) |-> f[i]]
  <2>1. Len(s) \in Nat \ {0}
    BY <1>5
  <2>2. h = step(h)
    <3>1. ASSUME NEW i \in 1 .. Len(s)
          PROVE  f[i] = IF i = 1 THEN s[i] ELSE h[i - 1] \o s[i]
      <4>1. CASE i = 1
        <5>1. f[1] = f[0] \o s[1] /\ s[1] \in Seq(X)
          <6>1. 1 \in 1 .. Len(s) /\ 1 - 1 = 0
            BY <2>1
          <6> QED
            BY <1>0, <1>3, <6>1
        <5>2. <<>> \o s[1] = s[1]
          BY <5>1, ConcatEmptySeq
        <5> QED
          BY <1>3, <4>1, <5>1, <5>2
      <4>2. CASE i # 1
        <5>1. i - 1 \in 1 .. Len(s)
          BY <4>2
        <5>2. h[i - 1] = f[i - 1]
          BY <5>1
        <5> QED
          BY <1>3, <4>2, <5>2
      <4> QED
        BY <4>1, <4>2
    <3> QED
      BY <3>1
  <2>3. flat = step(flat)
    BY <2>2
  <2> DEFINE S == {i \in Nat : i + 1 <= Len(s) => flat[i + 1] = f[i + 1]}
  <2>4. \A i \in 1 .. Len(s) :
          flat[i] = IF i = 1 THEN s[i] ELSE flat[i - 1] \o s[i]
    <3> HIDE DEF flat
    <3> QED
      BY <2>3
  <2> HIDE DEF flat, G
  <2>5. \A i \in 1 .. Len(s) :
          f[i] = IF i = 1 THEN s[i] ELSE f[i - 1] \o s[i]
    <3>1. ASSUME NEW i \in 1 .. Len(s)
          PROVE  f[i] = IF i = 1 THEN s[i] ELSE f[i - 1] \o s[i]
      <4>1. i # 1 => h[i - 1] = f[i - 1]
        OBVIOUS
      <4>2. h[i] = f[i]
        OBVIOUS
      <4>3. h[i] = IF i = 1 THEN s[i] ELSE h[i - 1] \o s[i]
        <5> HIDE DEF h
        <5> QED
          BY <2>2
      <4> HIDE DEF h
      <4> QED
        BY <4>1, <4>2, <4>3
    <3> QED
      BY <3>1
  <2>6. 0 \in S
    BY <2>1, <2>4, <2>5
  <2>7. ASSUME NEW i \in Nat, i \in S PROVE i + 1 \in S
    <3> SUFFICES ASSUME (i + 1) + 1 <= Len(s)
                 PROVE  flat[(i + 1) + 1] = f[(i + 1) + 1]
      OBVIOUS
    <3>1. (i + 1) + 1 \in 1 .. Len(s) /\ ((i + 1) + 1) - 1 = i + 1
            /\ (i + 1) + 1 # 1 /\ flat[i + 1] = f[i + 1]
      BY <2>7
    <3>2. /\ flat[(i + 1) + 1] = flat[i + 1] \o s[(i + 1) + 1]
          /\ f[(i + 1) + 1] = f[i + 1] \o s[(i + 1) + 1]
      BY <2>4, <2>5, <3>1
    <3> QED
      BY <3>1, <3>2
  <2>8. flat[Len(s)] = f[Len(s)]
    <3>1. Nat \subseteq S
      <4> HIDE DEF S
      <4> QED
        BY <2>6, <2>7, Induct
    <3>2. Len(s) - 1 \in Nat /\ (Len(s) - 1) + 1 = Len(s)
      BY <2>1
    <3>3. Len(s) - 1 \in S
      <4> HIDE DEF S
      <4> QED
        BY <3>1, <3>2
    <3> QED
      BY <3>2, <3>3
  <2>9. FlattenSeq(s) = flat[Len(s)]
    BY <1>5 DEF FlattenSeq, flat
  <2> QED
    BY <1>3, <2>8, <2>9
<1> QED
  BY <1>4, <1>5

LEMMA FlattenType ==
  ASSUME NEW X, NEW s \in Seq(Seq(X))
  PROVE  FlattenSeq(s) \in Seq(X)
<1>1. PICK f \in [0 .. Len(s) -> Seq(X)] : FlattenSeq(s) = f[Len(s)]
  BY FlattenIs
<1>2. Len(s) \in 0 .. Len(s)
  <2>1. Len(s) \in Nat
    OBVIOUS
  <2> QED
    BY <2>1
<1> QED
  BY <1>1, <1>2

(* One more sequence.                                                      *)
LEMMA FlattenOfMore ==
  ASSUME NEW X, NEW s \in Seq(Seq(X)), NEW x \in Seq(X)
  PROVE  FlattenSeq(Append(s, x)) = FlattenSeq(s) \o x
<1> DEFINE more == Append(s, x)
           G == [ix \in (1 .. Len(s)) \X Seq(X) |-> ix[2] \o s[ix[1]]]
<1>1. more \in Seq(Seq(X)) /\ Len(more) = Len(s) + 1 /\ Len(s) \in Nat
        /\ (\A i \in 1 .. Len(s) : more[i] = s[i]) /\ more[Len(s) + 1] = x
  OBVIOUS
<1> HIDE DEF more
<1>2. PICK f \in [0 .. Len(s) -> Seq(X)] :
        /\ f[0] = <<>> /\ \A i \in 1 .. Len(s) : f[i] = f[i - 1] \o s[i]
        /\ FlattenSeq(s) = f[Len(s)]
  BY FlattenIs
<1>3. PICK g \in [0 .. Len(more) -> Seq(X)] :
        /\ g[0] = <<>> /\ \A i \in 1 .. Len(more) : g[i] = g[i - 1] \o more[i]
        /\ FlattenSeq(more) = g[Len(more)]
  BY <1>1, FlattenIs
<1>4. \A i \in 1 .. Len(s) : \A y \in Seq(X) : G[<<i, y>>] = y \o s[i]
  OBVIOUS
<1> HIDE DEF G
<1>5. Computes(f, Len(s), <<>>, G)
  <2>1. \A i \in 1 .. Len(s) : i - 1 \in 0 .. Len(s)
    BY <1>1
  <2>2. \A i \in 1 .. Len(s) : f[i - 1] \in Seq(X)
    BY <2>1
  <2> QED
    BY <1>2, <1>4, <2>2 DEF Computes
<1>6. Computes(g, Len(s), <<>>, G)
  <2>1. ASSUME NEW i \in 1 .. Len(s)
        PROVE  g[i - 1] \in Seq(X) /\ g[i] = g[i - 1] \o s[i]
    <3>1. i \in 1 .. Len(more) /\ i - 1 \in 0 .. Len(more) /\ more[i] = s[i]
      BY <1>1
    <3> QED
      BY <1>3, <3>1
  <2> QED
    BY <1>3, <1>4, <2>1 DEF Computes
<1>7. f[Len(s)] = g[Len(s)]
  <2>1. Len(s) \in Nat /\ Len(s) \in 0 .. Len(s)
    BY <1>1
  <2>2. \A i \in 0 .. Len(s) : f[i] = g[i]
    <3>1. PICK nothing : nothing = <<>>
      OBVIOUS
    <3>2. PICK m \in Nat : m = Len(s)
      BY <2>1
    <3>3. Computes(f, m, nothing, G) /\ Computes(g, m, nothing, G)
      BY <1>5, <1>6, <3>1, <3>2
    <3>4. SameUpTo(m, f, g)
      BY <3>3, ComputesOnce
    <3> QED
      BY <3>2, <3>4 DEF SameUpTo
  <2> QED
    BY <2>1, <2>2
<1>8. g[Len(s) + 1] = g[Len(s)] \o x
  <2>1. Len(s) + 1 \in 1 .. Len(more) /\ (Len(s) + 1) - 1 = Len(s)
    BY <1>1
  <2> QED
    BY <1>1, <1>3, <2>1
<1> QED
  BY <1>1, <1>2, <1>3, <1>7, <1>8 DEF more

LEMMA FlattenOfThree ==
  ASSUME NEW X, NEW s \in [1 .. 3 -> Seq(X)]
  PROVE  FlattenSeq(s) = (s[1] \o s[2]) \o s[3]
<1>1. s \in Seq(Seq(X)) /\ Len(s) = 3
  <2> DEFINE Y == Seq(X)
  <2>1. s \in [1 .. 3 -> Y]
    OBVIOUS
  <2> HIDE DEF Y
  <2>2. s \in Seq(Y)
    BY <2>1, SeqDef
  <2>3. 1 .. Len(s) = 1 .. 3 /\ Len(s) \in Nat
    BY <2>1, <2>2, LenProperties
  <2>4. Len(s) = 3
    BY <2>3
  <2> QED
    BY <2>2, <2>4 DEF Y
<1>2. PICK f \in [0 .. Len(s) -> Seq(X)] :
        /\ f[0] = <<>> /\ \A i \in 1 .. Len(s) : f[i] = f[i - 1] \o s[i]
        /\ FlattenSeq(s) = f[Len(s)]
  BY <1>1, FlattenIs
<1>3. f[1] = f[0] \o s[1] /\ f[2] = f[1] \o s[2] /\ f[3] = f[2] \o s[3]
  <2>1. 1 - 1 = 0 /\ 2 - 1 = 1 /\ 3 - 1 = 2
    OBVIOUS
  <2>2. 1 \in 1 .. Len(s) /\ 2 \in 1 .. Len(s) /\ 3 \in 1 .. Len(s)
    BY <1>1
  <2>3. f[1] = f[1 - 1] \o s[1] /\ f[2] = f[2 - 1] \o s[2]
          /\ f[3] = f[3 - 1] \o s[3]
    BY <1>2, <2>2
  <2> QED
    BY <2>1, <2>3
<1>4. f[0] \o s[1] = s[1]
  BY <1>2, ConcatEmptySeq
<1> QED
  BY <1>1, <1>2, <1>3, <1>4

LEMMA FunctionIsSeq ==
  ASSUME NEW S, NEW n \in Nat, NEW f \in [1 .. n -> S]
  PROVE  f \in Seq(S) /\ Len(f) = n
<1>1. f \in Seq(S)
  BY SeqDef
<1>2. 1 .. Len(f) = 1 .. n /\ Len(f) \in Nat
  BY <1>1, LenProperties
<1> QED
  BY <1>1, <1>2

-----------------------------------------------------------------------------
(* What the getters read *)

LEMMA SdoConfigType ==
  ASSUME NEW rows \in SdoLists, NEW matrix \in BOOLEAN,
         matrix => AllNumbers(rows), NEW i \in 1 .. Len(rows),
         ~(IF matrix THEN SdoArrayRefused(rows[i]) ELSE SdoRefused(rows[i]))
  PROVE  SdoConfig(rows[i])
           \in [subindex : -1 .. 255, type : DataType, bytes : Nat]
<1> DEFINE row == rows[i]
           dt == GetDataType(row.type)
<1>1. row \in SdoRow
  BY ConfigAssumption
<1>2. row.n \in Nat /\ row.type \in TypeSpec /\ row.subindex \in Int
  BY <1>1 DEF SdoRow
<1>3. row.subindex \in -1 .. 255
  <2>1. matrix => row.subindex \in 0 .. 255
    BY DEF SdoArrayRefused
  <2>2. ~matrix => row.subindex \in -1 .. 255
    BY DEF SdoRefused
  <2> QED
    BY <1>2, <2>1, <2>2
<1>4. dt # BadType
  <2>1. CASE matrix
    <3>1. row.type.kind = "number"
      BY <2>1 DEF AllNumbers
    <3>2. OfReal(row.type.hundredths) # NoType /\ row.type.hundredths \in Int
      BY <1>2, <2>1, <3>1 DEF SdoArrayRefused, TypeSpec
    <3>3. OfReal(row.type.hundredths) \in DataType
      BY <3>2, OfRealType
    <3>4. dt \in {NoType, OfReal(row.type.hundredths)}
      BY <3>1, <3>2 DEF GetDataType, OrBad
    <3> QED
      BY <3>3, <3>4, DataTypesKnown
  <2>2. CASE ~matrix
    BY <2>2 DEF SdoRefused
  <2> QED
    BY <2>1, <2>2
<1>5. SdoIsValue(row, dt) => dt \in DataType
  BY <1>2, <1>4, GetDataTypeType DEF SdoIsValue
<1> HIDE DEF row
<1>6. SdoConfig(row) \in [subindex : -1 .. 255, type : DataType, bytes : Nat]
  <2> HIDE DEF dt
  <2>1. SdoConfig(row) = IF SdoIsValue(row, dt)
          THEN [subindex |-> row.subindex, type |-> dt, bytes |-> 0]
          ELSE [subindex |-> row.subindex, type |-> 1008, bytes |-> row.n]
    BY DEF SdoConfig, dt
  <2> QED
    BY <1>2, <1>3, <1>5, <2>1, DataTypesKnown
<1> QED
  BY <1>6 DEF row

LEMMA SoeConfigType ==
  ASSUME NEW rows \in SoeLists, NEW i \in 1 .. Len(rows),
         ~(rows[i].n = 0 \/ rows[i].value = "other")
  PROVE  SoeConfig(rows[i]) \in SoeTaken
<1>1. rows[i] \in SoeRow
  BY ConfigAssumption
<1>2. rows[i].n \in Nat
  BY <1>1 DEF SoeRow
<1> QED
  BY <1>1, <1>2 DEF SoeConfig, SoeTaken, SoeItem

LEMMA SyncManagersType == ConfigTypes => sm \in Seq(SyncManager)
BY ConfigAssumption, EmptySeq DEF ConfigTypes

LEMMA ParametersType == ConfigTypes => parameter \in Seq(ParamRow)
BY ConfigAssumption, EmptySeq DEF ConfigTypes

LEMMA BitsType ==
  ASSUME NEW entries \in Seq(Entry) PROVE Bits(entries) \in Nat
<1> DEFINE bits == [i \in 1 .. Len(entries) |-> entries[i].bits]
<1>1. Len(entries) \in Nat
  OBVIOUS
<1>2. \A i \in 1 .. Len(entries) : entries[i].bits \in Nat
  <2>1. \A i \in 1 .. Len(entries) : entries[i] \in Entry
    BY ElementOfSeq
  <2> QED
    BY <2>1 DEF Entry
<1>3. bits \in [1 .. Len(entries) -> Nat]
  BY <1>2
<1> HIDE DEF bits
<1>4. Total(bits) \in Nat
  BY <1>1, <1>3, FunctionIsSeq, TotalType
<1> QED
  BY <1>4 DEF Bits, bits

LEMMA RawPdoType ==
  ASSUME ConfigTypes, NEW form \in PortForm, form.pdo = "raw",
         form.sm < Len(sm), form.index < Len(sm[form.sm + 1].pdo)
  PROVE  RawPdo(form) \in Seq(Element)
<1>1. form.sm \in Nat /\ form.index \in Nat
  BY DEF PortForm
<1>2. sm[form.sm + 1] \in SyncManager
  <2>1. sm \in Seq(SyncManager) /\ form.sm + 1 \in 1 .. Len(sm)
    BY <1>1, SyncManagersType, LenProperties
  <2> QED
    BY <2>1, ElementOfSeq
<1>3. sm[form.sm + 1].pdo \in Seq(Seq(Entry))
  BY <1>2 DEF SyncManager
<1> DEFINE entries == sm[form.sm + 1].pdo[form.index + 1]
           bytes == (Bits(entries) + 7) \div 8
<1>4. entries \in Seq(Entry)
  <2>1. form.index + 1 \in 1 .. Len(sm[form.sm + 1].pdo)
    BY <1>1, <1>3, LenProperties
  <2> QED
    BY <1>3, <2>1, ElementOfSeq
<1>5. bytes \in Nat
  <2>1. Bits(entries) \in Nat
    BY <1>4, BitsType
  <2> HIDE DEF entries
  <2> QED
    BY <2>1
<1> HIDE DEF bytes, entries
<1>6. RawPdo(form) = [j \in 1 .. bytes |->
          [sm |-> form.sm + 1, pdo |-> form.index + 1, entry |-> 1,
           element |-> j - 1]]
  BY DEF RawPdo, bytes, entries
<1>7. RawPdo(form) \in [1 .. bytes -> Element]
  <2>1. \A j \in 1 .. bytes : j - 1 \in Nat
    BY <1>5
  <2>2. form.sm + 1 \in Nat \ {0} /\ form.index + 1 \in Nat \ {0}
          /\ 1 \in Nat \ {0}
    BY <1>1
  <2> QED
    BY <1>6, <2>1, <2>2 DEF Element
<1> QED
  BY <1>5, <1>7, FunctionIsSeq

LEMMA PortPdoType ==
  ASSUME ConfigTypes, NEW form \in PortForm, NEW output \in BOOLEAN,
         ~PortRefused(form, output), form.pdo \in {"raw", "rows"}
  PROVE  PortPdo(form) \in Seq(Element)
<1>1. CASE form.pdo = "raw"
  <2>1. form.sm \in Nat /\ form.index \in Nat
    BY <1>1 DEF PortForm
  <2>2. ~(form.sm >= Len(sm)) /\ ~(form.index >= Len(sm[form.sm + 1].pdo))
    BY <1>1 DEF PortRefused
  <2>3. sm \in Seq(SyncManager) /\ Len(sm) \in Nat
    BY SyncManagersType, LenProperties
  <2>4. form.sm < Len(sm) /\ form.sm + 1 \in 1 .. Len(sm)
    BY <2>1, <2>2, <2>3
  <2>5. sm[form.sm + 1] \in SyncManager
    BY <2>3, <2>4, ElementOfSeq
  <2>6. Len(sm[form.sm + 1].pdo) \in Nat
    BY <2>5, LenProperties DEF SyncManager
  <2>7. form.index < Len(sm[form.sm + 1].pdo)
    BY <2>1, <2>2, <2>6
  <2> QED
    BY <1>1, <2>4, <2>7, RawPdoType DEF PortPdo
<1>2. CASE form.pdo = "rows"
  <2>1. form.rows \in Seq([1 .. 4 -> Nat])
    BY <1>2 DEF PortForm
  <2>2. Len(form.rows) \in Nat
    BY <2>1, LenProperties
  <2>3. \A j \in 1 .. Len(form.rows) :
          /\ form.rows[j][1] + 1 \in Nat \ {0}
          /\ form.rows[j][2] + 1 \in Nat \ {0}
          /\ form.rows[j][3] + 1 \in Nat \ {0} /\ form.rows[j][4] \in Nat
    <3> TAKE j \in 1 .. Len(form.rows)
    <3>1. form.rows[j] \in [1 .. 4 -> Nat]
      BY <2>1, ElementOfSeq
    <3>2. form.rows[j][1] \in Nat /\ form.rows[j][2] \in Nat
            /\ form.rows[j][3] \in Nat /\ form.rows[j][4] \in Nat
      BY <3>1
    <3>3. \A k \in Nat : k + 1 \in Nat \ {0}
      OBVIOUS
    <3> QED
      BY <3>2, <3>3
  <2>4. PortPdo(form) \in [1 .. Len(form.rows) -> Element]
    BY <1>2, <2>3 DEF PortPdo, Element
  <2> QED
    BY <2>2, <2>4, FunctionIsSeq
<1> QED
  BY <1>1, <1>2

LEMMA ParamSpecType ==
  ASSUME ConfigTypes, NEW form \in SpecForm, NEW width, ~SpecRefused(form, width)
  PROVE  ParamSpec(form) \in Spec3
<1>1. form.form \in {"empty", "vector", "named", "reference"}
  BY DEF SpecForm, SpecRefused
<1>2. NoSpec \in Spec3 /\ [kind |-> "vector"] \in Spec3
        /\ [kind |-> "named"] \in Spec3
  BY DEF Spec3, NoSpec
<1>3. CASE form.form = "reference"
  <2>1. form.to \in Nat /\ form.element \in Int
    BY <1>3 DEF SpecForm
  <2>2. form.to \in 0 .. Len(parameter) - 1
    BY <1>3 DEF SpecRefused
  <2>3. Len(parameter) \in Nat
    BY ParametersType, LenProperties
  <2>4. form.to + 1 \in 1 .. Len(parameter)
    BY <2>2, <2>3
  <2>5. [kind |-> "reference", to |-> form.to + 1, element |-> form.element]
          \in Spec3
    BY <2>1, <2>4 DEF Spec3
  <2> QED
    BY <1>3, <2>5 DEF ParamSpec
<1>4. CASE form.form \in {"empty", "vector", "named"}
  BY <1>2, <1>4 DEF ParamSpec
<1> QED
  BY <1>1, <1>3, <1>4

LEMMA SpecsType ==
  ASSUME ConfigTypes, NEW form \in PortForm, NEW output \in BOOLEAN,
         ~PortRefused(form, output), form.pdo \in {"raw", "rows"}
  PROVE  /\ Specs(form, output) \in [1 .. 3 -> Spec3]
         /\ ~output => Specs(form, output)[3] = NoSpec
<1>1. NoSpec \in Spec3
  BY DEF Spec3, NoSpec
<1>2. CASE form.pdo = "raw"
  BY <1>1, <1>2 DEF Specs
<1>3. CASE form.pdo = "rows"
  <2>1. form.gain \in SpecForm /\ form.offset \in SpecForm
          /\ form.filter \in SpecForm
    BY <1>3 DEF PortForm
  <2>2. \A k \in 1 .. 3 :
          (k < 3 \/ output) => ~SpecRefused(Forms(form)[k], Len(form.rows))
    BY <1>3 DEF PortRefused
  <2>3. /\ ~SpecRefused(form.gain, Len(form.rows))
        /\ ~SpecRefused(form.offset, Len(form.rows))
        /\ output => ~SpecRefused(form.filter, Len(form.rows))
    <3>1. Forms(form)[1] = form.gain /\ Forms(form)[2] = form.offset
            /\ Forms(form)[3] = form.filter
      BY DEF Forms
    <3>2. 1 \in 1 .. 3 /\ 2 \in 1 .. 3 /\ 3 \in 1 .. 3 /\ 1 < 3 /\ 2 < 3
      OBVIOUS
    <3> QED
      BY <2>2, <3>1, <3>2
  <2>4. ParamSpec(form.gain) \in Spec3 /\ ParamSpec(form.offset) \in Spec3
          /\ (output => ParamSpec(form.filter) \in Spec3)
    BY <2>1, <2>3, ParamSpecType
  <2> DEFINE third == IF output THEN ParamSpec(form.filter) ELSE NoSpec
  <2>5. third \in Spec3 /\ (~output => third = NoSpec)
    BY <1>1, <2>4
  <2>6. Specs(form, output)
          = <<ParamSpec(form.gain), ParamSpec(form.offset), third>>
    BY <1>3 DEF Specs
  <2> HIDE DEF third
  <2> QED
    BY <2>4, <2>5, <2>6
<1> QED
  BY <1>2, <1>3

(* A port that is read: what the rest of the model relies on.              *)
LEMMA IoPortIs ==
  ASSUME ConfigTypes, PortTypes, NEW form \in PortForm, NEW output \in BOOLEAN,
         ~PortRefused(form, output)
  PROVE  LET port == IoPort(form, output) IN
         /\ port \in Port
         /\ ~output => port.spec[3] = NoSpec
         /\ port.dwork_idx \in {0, dwork_count + 1}
         /\ port.dwork_idx = 0 =>
              port.sl_port_data_type \in {SlType(port.data_type), Dynamic}
         /\ (port.dwork_idx = 0 /\ output) =>
              port.sl_port_data_type = SlType(port.data_type)
         /\ port.dwork_idx # 0 => port.sl_port_data_type # Dynamic
<1> DEFINE specs  == Specs(form, output)
           rows   == form.pdo = "rows"
           dt     == IF rows THEN GetDataType(form.type) ELSE 1008
           scaled == \/ \E k \in 1 .. 3 : IsSet(specs[k])
                     \/ rows /\ form.fullScale
           sl     == CASE scaled                     -> "double"
                       [] ~scaled /\ rows /\ ~output -> Dynamic
                       [] OTHER                      -> SlType(dt)
           port   == IoPort(form, output)
<1>1. form.pdo \in {"raw", "rows"}
  BY DEF PortForm, PortRefused
<1>2. PortPdo(form) \in Seq(Element) /\ specs \in [1 .. 3 -> Spec3]
        /\ (~output => specs[3] = NoSpec)
  BY <1>1, PortPdoType, SpecsType
<1>3. dt \in DataType
  <2>1. rows => GetDataType(form.type) \in DataType
    BY DEF PortRefused
  <2> QED
    BY <2>1, DataTypesKnown
<1>5. /\ scaled => sl = "double"
      /\ ~scaled => sl \in {SlType(dt), Dynamic}
      /\ ~scaled /\ output => sl = SlType(dt)
  <2> HIDE DEF scaled, rows, dt
  <2> QED
    OBVIOUS
<1>6. sl \in SlTypes \cup {Dynamic}
  <2> HIDE DEF sl, scaled
  <2> QED
    BY <1>5, SlTypeType DEF SlTypes
<1>7. "double" # Dynamic
  BY DEF Dynamic
<1>8. port = [raw |-> ~rows, data_type |-> dt, pdo |-> PortPdo(form),
              big_endian |-> rows /\ form.bigEndian, spec |-> specs,
              dwork_idx |-> IF scaled THEN dwork_count + 1 ELSE 0,
              sl_port_data_type |-> sl]
  BY DEF IoPort
<1> DEFINE d == IF scaled THEN dwork_count + 1 ELSE 0
           big == rows /\ form.bigEndian
           raw == ~rows
<1>9. d \in Nat /\ d \in {0, dwork_count + 1} /\ (d = 0 <=> ~scaled)
        /\ big \in BOOLEAN /\ raw \in BOOLEAN
  <2>1. dwork_count \in Nat
    BY DEF PortTypes
  <2>2. big \in BOOLEAN /\ raw \in BOOLEAN
    OBVIOUS
  <2> HIDE DEF scaled
  <2> QED
    BY <2>1, <2>2
<1>10. port = [raw |-> raw, data_type |-> dt, pdo |-> PortPdo(form),
               big_endian |-> big, spec |-> specs, dwork_idx |-> d,
               sl_port_data_type |-> sl]
  BY <1>8
<1> HIDE DEF port, sl, scaled, rows, dt, specs, d, big, raw
<1>11. port \in Port
  BY <1>2, <1>3, <1>6, <1>9, <1>10 DEF Port
<1>12. port.spec = specs /\ port.dwork_idx = d /\ port.data_type = dt
         /\ port.sl_port_data_type = sl
  BY <1>10
<1>13. LET q == port IN
         /\ q \in Port
         /\ ~output => q.spec[3] = NoSpec
         /\ q.dwork_idx \in {0, dwork_count + 1}
         /\ q.dwork_idx = 0 =>
              q.sl_port_data_type \in {SlType(q.data_type), Dynamic}
         /\ (q.dwork_idx = 0 /\ output) =>
              q.sl_port_data_type = SlType(q.data_type)
         /\ q.dwork_idx # 0 => q.sl_port_data_type # Dynamic
  BY <1>2, <1>5, <1>7, <1>9, <1>11, <1>12
<1> QED
  BY <1>13 DEF port

-----------------------------------------------------------------------------
(* The types are kept *)

LEMMA InitTypes == Init => Types
<1> SUFFICES ASSUME Init PROVE Types
  OBVIOUS
<1> USE EmptySeq
<1>1. ConfigTypes
  BY DEF Init, ConfigTypes, Sections, NoDc
<1>2. PortTypes
  BY DEF Init, PortTypes
<1>3. SignalTypesInv
  BY DEF Init, SignalTypesInv, Kept, Writing
<1>4. RtwTypes
  BY DEF Init, RtwTypes
<1>5. Unread
  BY DEF Init, Unread
<1> QED
  BY <1>1, <1>2, <1>3, <1>4, <1>5 DEF Types

Places == Sections \cup Kept \cup {"refused", "end"}

LEMMA SameConfig ==
  ASSUME ConfigTypes, UNCHANGED <<config, arrays>>, pc' \in Places,
         error' \in BOOLEAN
  PROVE  ConfigTypes'
BY DEF ConfigTypes, config, Places

LEMMA SamePorts ==
  ASSUME PortTypes, UNCHANGED <<parameter, ports, runtime_param_count>>
  PROVE  PortTypes'
<1>1. Port' = Port
  BY DEF Port, Spec3
<1> QED
  BY <1>1 DEF PortTypes, ports

(* The signals, before they are known and after.                           *)
LEMMA SameSignals ==
  ASSUME SignalTypesInv, UNCHANGED <<inType, inWidth, outWidth>>,
         pc' \in Kept => pc \in Kept /\ UNCHANGED <<o_port, i_port>>
  PROVE  SignalTypesInv'
BY DEF SignalTypesInv

LEMMA SameRtw ==
  ASSUME RtwTypes, UNCHANGED <<settings, param_idx, index>> PROVE RtwTypes'
BY DEF RtwTypes

LEMMA PlacesAre ==
  /\ {"refused", "failed", "written", "end", "ports"} \cup Writing
       \subseteq Places \ ToParameter
  /\ {"sdo", "soe", "dc", "sm", "parameter", "output", "input", "sizes"}
       \subseteq Places \ Kept
  /\ Kept \subseteq Places \ ToParameter
BY DEF Places, Sections, Kept, Writing, ToParameter, ToSm, ToSoe, ToSdo

(* Nothing is claimed of what was not read once all is.                    *)
LEMMA AllRead == ASSUME pc' \notin ToParameter PROVE Unread'
BY DEF Unread, ToParameter, ToSm, ToSoe, ToSdo

LEMMA RefuseTypes == Types /\ Refuse => Types'
<1> SUFFICES ASSUME Types, Refuse PROVE Types'
  OBVIOUS
<1>1. /\ error' = TRUE /\ pc' = "refused"
      /\ UNCHANGED <<config, ports, runtime_param_count, simulink, rtw>>
  BY DEF Refuse
<1>2. pc' \in Places /\ pc' \notin Kept /\ pc' \notin ToParameter
  BY <1>1, PlacesAre DEF Kept, Writing
<1>3. ConfigTypes' /\ PortTypes' /\ SignalTypesInv' /\ RtwTypes'
  BY <1>1, <1>2, SameConfig, SamePorts, SameSignals, SameRtw
     DEF Types, config, ports, simulink, rtw
<1> QED
  BY <1>2, <1>3, AllRead DEF Types

LEMMA GetSlaveInfoTypes == Types /\ GetSlaveInfo => Types'
<1> SUFFICES ASSUME Types, GetSlaveInfo, ~Refuse PROVE Types'
  BY RefuseTypes
<1>1. /\ pc = "address" /\ pc' \in {"parameter", "sdo"} /\ type' \in BOOLEAN
      /\ UNCHANGED <<error, sdo, soe, dc, sm, parameter, ports,
                     runtime_param_count, simulink, rtw>>
  BY DEF GetSlaveInfo, config, Types, ConfigTypes
<1>2. pc' \in Places /\ pc' \notin Kept
  BY <1>1, PlacesAre
<1>3. ConfigTypes'
  BY <1>1, <1>2 DEF Types, ConfigTypes, ports, Places
<1>4. PortTypes' /\ SignalTypesInv' /\ RtwTypes'
  BY <1>1, <1>2, SamePorts, SameSignals, SameRtw
     DEF Types, ports, simulink, rtw
<1>5. Unread'
  BY <1>1 DEF Types, Unread, ToParameter, ToSm, ToSoe, ToSdo, ports
<1> QED
  BY <1>3, <1>4, <1>5 DEF Types

LEMMA GetSlaveSdoTypes == Types /\ GetSlaveSdo => Types'
<1> SUFFICES ASSUME Types, GetSlaveSdo, ~Refuse PROVE Types'
  BY RefuseTypes
<1>1. PICK rows \in SdoLists, matrix \in BOOLEAN :
        /\ matrix => AllNumbers(rows)
        /\ \A i \in 1 .. Len(rows) :
             ~(IF matrix THEN SdoArrayRefused(rows[i]) ELSE SdoRefused(rows[i]))
        /\ sdo' = [i \in 1 .. Len(rows) |-> SdoConfig(rows[i])]
        /\ pc' = "soe"
        /\ UNCHANGED <<error, type, soe, dc, sm, parameter, ports,
                       runtime_param_count, simulink, rtw>>
  BY DEF GetSlaveSdo
<1>2. pc' \in Places /\ pc' \notin Kept /\ pc = "sdo"
  BY <1>1, PlacesAre DEF GetSlaveSdo
<1>3. sdo' \in Seq([subindex : -1 .. 255, type : DataType, bytes : Nat])
  <2> DEFINE S == [subindex : -1 .. 255, type : DataType, bytes : Nat]
  <2>1. \A i \in 1 .. Len(rows) : SdoConfig(rows[i]) \in S
    BY <1>1, SdoConfigType
  <2>2. rows \in Seq(SdoRow)
    BY ConfigAssumption
  <2>3. Len(rows) \in Nat
    BY <2>2, LenProperties
  <2> HIDE DEF S
  <2>4. sdo' \in [1 .. Len(rows) -> S]
    BY <1>1, <2>1
  <2>5. sdo' \in Seq(S)
    BY <2>3, <2>4, FunctionIsSeq
  <2> QED
    BY <2>5 DEF S
<1>4. ConfigTypes'
  BY <1>1, <1>2, <1>3 DEF Types, ConfigTypes, ports, Places
<1>5. PortTypes' /\ SignalTypesInv' /\ RtwTypes'
  BY <1>1, <1>2, SamePorts, SameSignals, SameRtw
     DEF Types, ports, simulink, rtw
<1>6. Unread'
  BY <1>1, <1>2 DEF Types, Unread, ToParameter, ToSm, ToSoe, ToSdo, ports
<1> QED
  BY <1>4, <1>5, <1>6 DEF Types

LEMMA GetSlaveSoeTypes == Types /\ GetSlaveSoe => Types'
<1> SUFFICES ASSUME Types, GetSlaveSoe, ~Refuse PROVE Types'
  BY RefuseTypes
<1>1. PICK rows \in SoeLists :
        /\ \A i \in 1 .. Len(rows) : ~(rows[i].n = 0 \/ rows[i].value = "other")
        /\ soe' = [i \in 1 .. Len(rows) |-> SoeConfig(rows[i])]
        /\ pc' = "dc"
        /\ UNCHANGED <<error, type, sdo, dc, sm, parameter, ports,
                       runtime_param_count, simulink, rtw>>
  BY DEF GetSlaveSoe
<1>2. pc' \in Places /\ pc' \notin Kept /\ pc = "soe"
  BY <1>1, PlacesAre DEF GetSlaveSoe
<1>3. soe' \in Seq(SoeTaken)
  <2>1. \A i \in 1 .. Len(rows) : SoeConfig(rows[i]) \in SoeTaken
    BY <1>1, SoeConfigType
  <2>2. rows \in Seq(SoeRow)
    BY ConfigAssumption
  <2>3. Len(rows) \in Nat
    BY <2>2, LenProperties
  <2>4. soe' \in [1 .. Len(rows) -> SoeTaken]
    BY <1>1, <2>1
  <2> QED
    BY <2>3, <2>4, FunctionIsSeq
<1>4. ConfigTypes'
  BY <1>1, <1>2, <1>3 DEF Types, ConfigTypes, ports, Places
<1>5. PortTypes' /\ SignalTypesInv' /\ RtwTypes'
  BY <1>1, <1>2, SamePorts, SameSignals, SameRtw
     DEF Types, ports, simulink, rtw
<1>6. Unread'
  BY <1>1, <1>2 DEF Types, Unread, ToParameter, ToSm, ToSoe, ToSdo, ports
<1> QED
  BY <1>4, <1>5, <1>6 DEF Types

LEMMA GetSlaveDcTypes == Types /\ GetSlaveDc => Types'
<1> SUFFICES ASSUME Types, GetSlaveDc, ~Refuse PROVE Types'
  BY RefuseTypes
<1>1. PICK form \in DcForms :
        /\ dc' = IF form.n = 0 THEN NoDc
                 ELSE [active |-> form.active,
                       cyclic |-> form.active /\ form.n = 10]
        /\ pc' = "sm"
        /\ UNCHANGED <<error, live, type, sdo, soe, sm, parameter, ports,
                       runtime_param_count, simulink, rtw>>
  BY DEF GetSlaveDc
<1>2. pc' \in Places /\ pc' \notin Kept /\ pc = "dc"
  BY <1>1, PlacesAre DEF GetSlaveDc
<1>3. dc' \in [active : BOOLEAN, cyclic : BOOLEAN]
  <2>1. form.active \in BOOLEAN
    BY ConfigAssumption DEF DcForm
  <2>2. (form.active /\ form.n = 10) \in BOOLEAN
    OBVIOUS
  <2>3. NoDc \in [active : BOOLEAN, cyclic : BOOLEAN]
    BY DEF NoDc
  <2>4. [active |-> form.active, cyclic |-> form.active /\ form.n = 10]
          \in [active : BOOLEAN, cyclic : BOOLEAN]
    BY <2>1, <2>2
  <2> QED
    BY <1>1, <2>3, <2>4
<1>4. ConfigTypes'
  BY <1>1, <1>2, <1>3 DEF Types, ConfigTypes, ports, Places
<1>5. PortTypes' /\ SignalTypesInv' /\ RtwTypes'
  BY <1>1, <1>2, SamePorts, SameSignals, SameRtw
     DEF Types, ports, simulink, rtw
<1>6. Unread'
  BY <1>1, <1>2 DEF Types, Unread, ToParameter, ToSm, ToSoe, ToSdo, ports
<1> QED
  BY <1>4, <1>5, <1>6 DEF Types

LEMMA GetSyncManagersTypes == Types /\ GetSyncManagers => Types'
<1> SUFFICES ASSUME Types, GetSyncManagers, ~Refuse PROVE Types'
  BY RefuseTypes
<1>1. /\ sm' \in SmLists /\ pc' = "parameter"
      /\ UNCHANGED <<error, type, sdo, soe, dc, parameter, ports,
                     runtime_param_count, simulink, rtw>>
  BY DEF GetSyncManagers
<1>2. pc' \in Places /\ pc' \notin Kept /\ pc = "sm"
  BY <1>1, PlacesAre DEF GetSyncManagers
<1>3. ConfigTypes'
  BY <1>1, <1>2 DEF Types, ConfigTypes, ports, Places
<1>4. PortTypes' /\ SignalTypesInv' /\ RtwTypes'
  BY <1>1, <1>2, SamePorts, SameSignals, SameRtw
     DEF Types, ports, simulink, rtw
<1>5. Unread'
  BY <1>1, <1>2 DEF Types, Unread, ToParameter, ToSm, ToSoe, ToSdo, ports
<1> QED
  BY <1>3, <1>4, <1>5 DEF Types

LEMMA GetParameterConfigTypes == Types /\ GetParameterConfig => Types'
<1> SUFFICES ASSUME Types, GetParameterConfig, ~Refuse PROVE Types'
  BY RefuseTypes
<1>1. PICK rows \in ParamLists :
        /\ parameter' = rows
        /\ runtime_param_count' = runtime_param_count + Len(rows)
        /\ pc' = "output"
        /\ UNCHANGED <<error, type, sdo, soe, dc, sm, ports, simulink, rtw>>
  BY DEF GetParameterConfig
<1>2. pc' \in Places /\ pc' \notin Kept /\ pc = "parameter"
        /\ pc' \notin ToParameter
  BY <1>1, PlacesAre DEF GetParameterConfig, ToParameter, ToSm, ToSoe, ToSdo
<1>3. ConfigTypes'
  BY <1>1, <1>2 DEF Types, ConfigTypes, ports, Places
<1>4. PortTypes'
  <2>1. o_port' = <<>> /\ i_port' = <<>>
    BY <1>1, <1>2 DEF Types, Unread, ToParameter, ports
  <2>2. rows \in Seq(ParamRow)
    BY ConfigAssumption
  <2>3. Len(rows) \in Nat
    BY <2>2, LenProperties
  <2> QED
    BY <1>1, <2>1, <2>3, EmptySeq DEF Types, PortTypes, ports
<1>5. SignalTypesInv' /\ RtwTypes'
  BY <1>1, <1>2, SameSignals, SameRtw DEF Types, simulink, rtw
<1> QED
  BY <1>2, <1>3, <1>4, <1>5, AllRead DEF Types

LEMMA CardinalityOfNamed ==
  \A port : Cardinality(Named(port)) \in Nat /\ IsFiniteSet(Named(port))
<1> TAKE port
<1>1. IsFiniteSet(1 .. 3)
  <2>1. 1 \in Int /\ 3 \in Int
    OBVIOUS
  <2> QED
    BY <2>1, FS_Interval
<1>2. Named(port) \in SUBSET (1 .. 3)
  BY DEF Named
<1>3. IsFiniteSet(Named(port))
  BY <1>1, <1>2, FS_Subset
<1> QED
  BY <1>3, FS_CardinalityType

(* One more port, in either direction.                                     *)
PortIsRead(form, output) ==
  LET port == IoPort(form, output)
      dir  == IF output THEN "out" ELSE "in"
      k    == IF output THEN Len(o_port) + 1 ELSE Len(i_port) + 1
  IN /\ form \in PortForms /\ ~PortRefused(form, output)
     /\ pc = IF output THEN "output" ELSE "input"
     /\ live' = live \cup {Array(dir)} \cup PortBlocks(dir, k, port)
     /\ filter_count' = IF IsSet(port.spec[3])
                        THEN filter_count + Len(port.pdo) ELSE filter_count
     /\ dwork_count' = IF port.dwork_idx # 0 THEN dwork_count + 1
                       ELSE dwork_count
     /\ runtime_param_count' = runtime_param_count + Cardinality(Named(port))
     /\ arrays' = arrays \cup {dir}
     /\ IF output THEN o_port' = Append(o_port, port) /\ UNCHANGED i_port
                  ELSE i_port' = Append(i_port, port) /\ UNCHANGED o_port
     /\ UNCHANGED <<pc, error, config, simulink, rtw>>

(* The end of a direction; perhaps with an array without ports.            *)
PortsAreRead(output) ==
  LET dir == IF output THEN "out" ELSE "in"
  IN /\ pc = IF output THEN "output" ELSE "input"
     /\ pc' = IF output THEN "input" ELSE "sizes"
     /\ \/ UNCHANGED <<live, arrays>>
        \/ live' = live \cup {Array(dir)} /\ arrays' = arrays \cup {dir}
     /\ UNCHANGED <<error, config, o_port, i_port, filter_count, dwork_count,
                    runtime_param_count, simulink, rtw>>

LEMMA GetPortsIs ==
  ASSUME NEW output \in BOOLEAN,
         IF output THEN GetOutputPorts ELSE GetInputPorts
  PROVE  Refuse \/ PortsAreRead(output) \/ \E form : PortIsRead(form, output)
<1>1. CASE output = TRUE
  <2>1. GetPorts("output", TRUE, Len(o_port) + 1, "input")
    BY <1>1 DEF GetOutputPorts
  <2>2. pc = "output"
    BY <2>1 DEF GetPorts
  <2>3. \/ \E form \in PortForms : IF PortRefused(form, TRUE) THEN Refuse
                                   ELSE GetPort(form, TRUE, Len(o_port) + 1)
        \/ /\ pc' = "input"
           /\ UNCHANGED <<error, live, config, ports, runtime_param_count,
                          simulink, rtw>>
        \/ /\ pc' = "input" /\ live' = live \cup {Array("out")}
           /\ arrays' = arrays \cup {"out"}
           /\ UNCHANGED <<error, config, o_port, i_port, filter_count,
                          dwork_count, runtime_param_count, simulink, rtw>>
    BY <2>1 DEF GetPorts
  <2>4. ASSUME NEW form \in PortForms, ~PortRefused(form, TRUE),
               GetPort(form, TRUE, Len(o_port) + 1)
        PROVE  PortIsRead(form, TRUE)
    BY <2>2, <2>4 DEF GetPort, PortIsRead
  <2> QED
    BY <1>1, <2>2, <2>3, <2>4 DEF PortsAreRead, ports
<1>2. CASE output = FALSE
  <2>1. GetPorts("input", FALSE, Len(i_port) + 1, "sizes")
    BY <1>2 DEF GetInputPorts
  <2>2. pc = "input"
    BY <2>1 DEF GetPorts
  <2>3. \/ \E form \in PortForms : IF PortRefused(form, FALSE) THEN Refuse
                                   ELSE GetPort(form, FALSE, Len(i_port) + 1)
        \/ /\ pc' = "sizes"
           /\ UNCHANGED <<error, live, config, ports, runtime_param_count,
                          simulink, rtw>>
        \/ /\ pc' = "sizes" /\ live' = live \cup {Array("in")}
           /\ arrays' = arrays \cup {"in"}
           /\ UNCHANGED <<error, config, o_port, i_port, filter_count,
                          dwork_count, runtime_param_count, simulink, rtw>>
    BY <2>1 DEF GetPorts
  <2>4. ASSUME NEW form \in PortForms, ~PortRefused(form, FALSE),
               GetPort(form, FALSE, Len(i_port) + 1)
        PROVE  PortIsRead(form, FALSE)
    BY <2>2, <2>4 DEF GetPort, PortIsRead
  <2> QED
    BY <1>2, <2>2, <2>3, <2>4 DEF PortsAreRead, ports
<1> QED
  BY <1>1, <1>2

LEMMA PortIsReadTypes ==
  ASSUME Types, NEW output \in BOOLEAN, NEW form, PortIsRead(form, output)
  PROVE  Types'
<1> DEFINE port == IoPort(form, output)
<1>1. form \in PortForm /\ ~PortRefused(form, output)
  BY ConfigAssumption DEF PortIsRead
<1>2. port \in Port /\ port.dwork_idx \in {0, dwork_count + 1}
  BY <1>1, IoPortIs DEF Types
<1>3. Len(port.pdo) \in Nat
  <2>1. port.pdo \in Seq(Element)
    BY <1>2 DEF Port
  <2> QED
    BY <2>1, LenProperties
<1>4. /\ filter_count' \in {filter_count, filter_count + Len(port.pdo)}
      /\ dwork_count' \in {dwork_count, dwork_count + 1}
      /\ runtime_param_count' = runtime_param_count + Cardinality(Named(port))
      /\ \/ o_port' = Append(o_port, port) /\ UNCHANGED i_port
         \/ i_port' = Append(i_port, port) /\ UNCHANGED o_port
      /\ arrays' \subseteq arrays \cup {"out", "in"}
      /\ UNCHANGED <<pc, error, config, simulink, rtw>>
  BY DEF PortIsRead
<1> HIDE DEF port
<1>5. PortTypes'
  <2>1. Port' = Port
    BY <1>4 DEF Port, Spec3, config
  <2>2. o_port' \in Seq(Port) /\ i_port' \in Seq(Port)
    <3>1. o_port \in Seq(Port) /\ i_port \in Seq(Port)
      BY DEF Types, PortTypes
    <3>2. Append(o_port, port) \in Seq(Port) /\ Append(i_port, port) \in Seq(Port)
      BY <1>2, <3>1, AppendProperties
    <3> QED
      BY <1>4, <3>1, <3>2
  <2>3. runtime_param_count' \in Nat /\ filter_count' \in Nat
          /\ dwork_count' \in Nat
    BY <1>3, <1>4, CardinalityOfNamed DEF Types, PortTypes
  <2> QED
    BY <2>1, <2>2, <2>3 DEF PortTypes
<1>6. pc \in {"output", "input"}
  BY DEF PortIsRead
<1>7. pc' \notin Kept /\ pc' \notin ToParameter
  BY <1>4, <1>6, PlacesAre DEF ToParameter, ToSm, ToSoe, ToSdo
<1>8. ConfigTypes' /\ SignalTypesInv' /\ RtwTypes'
  BY <1>4, <1>7, SameSignals, SameRtw
     DEF Types, ConfigTypes, config, simulink, rtw
<1> QED
  BY <1>5, <1>7, <1>8, AllRead DEF Types

LEMMA PortsAreReadTypes ==
  ASSUME Types, NEW output \in BOOLEAN, PortsAreRead(output)
  PROVE  Types'
<1>1. /\ pc' \in {"input", "sizes"} /\ arrays' \subseteq arrays \cup {"out", "in"}
      /\ UNCHANGED <<error, config, o_port, i_port, filter_count, dwork_count,
                     runtime_param_count, simulink, rtw>>
  BY DEF PortsAreRead
<1>2. pc' \in Places /\ pc' \notin Kept /\ pc' \notin ToParameter
  BY <1>1, PlacesAre DEF ToParameter, ToSm, ToSoe, ToSdo
<1>3. PortTypes'
  <2>1. Port' = Port
    BY <1>1 DEF Port, Spec3, config
  <2> QED
    BY <1>1, <2>1 DEF Types, PortTypes
<1>4. ConfigTypes' /\ SignalTypesInv' /\ RtwTypes'
  BY <1>1, <1>2, SameSignals, SameRtw
     DEF Types, ConfigTypes, Places, config, simulink, rtw
<1> QED
  BY <1>2, <1>3, <1>4, AllRead DEF Types

LEMMA GetPortsTypes == Types /\ (GetOutputPorts \/ GetInputPorts) => Types'
<1> SUFFICES ASSUME Types, NEW output \in BOOLEAN,
                    IF output THEN GetOutputPorts ELSE GetInputPorts
             PROVE  Types'
  OBVIOUS
<1> QED
  BY GetPortsIs, RefuseTypes, PortIsReadTypes, PortsAreReadTypes

LEMMA InitializeSizesTypes == Types /\ InitializeSizes => Types'
<1> SUFFICES ASSUME Types, InitializeSizes, ~Refuse PROVE Types'
  BY RefuseTypes
<1>1. /\ inType' = [i \in 1 .. Len(i_port) |-> i_port[i].sl_port_data_type]
      /\ inWidth' = [i \in 1 .. Len(i_port) |-> DynamicWidth]
      /\ outWidth' = [i \in 1 .. Len(o_port) |-> Len(o_port[i].pdo)]
      /\ pc' = "ports"
      /\ UNCHANGED <<error, config, ports, runtime_param_count, rtw>>
  BY DEF InitializeSizes
<1>2. pc' \in Places /\ pc' \notin ToParameter
  BY <1>1, PlacesAre
<1>3. o_port \in Seq(Port) /\ i_port \in Seq(Port)
        /\ Len(o_port) \in Nat /\ Len(i_port) \in Nat
  BY LenProperties DEF Types, PortTypes
<1>4. SignalTypesInv'
  <2>1. ASSUME NEW i \in 1 .. Len(i_port)
        PROVE  i_port[i].sl_port_data_type \in SlTypes \cup {Dynamic}
    <3>1. i_port[i] \in Port
      BY <1>3, ElementOfSeq
    <3> QED
      BY <3>1 DEF Port
  <2>2. inType' \in [1 .. Len(i_port) -> SlTypes \cup {Dynamic}]
    BY <1>1, <2>1
  <2>3. inWidth' \in [1 .. Len(i_port) -> Int]
    BY <1>1 DEF DynamicWidth
  <2>4. ASSUME NEW i \in 1 .. Len(o_port) PROVE Len(o_port[i].pdo) \in Nat
    <3>1. o_port[i] \in Port
      BY <1>3, ElementOfSeq
    <3>2. o_port[i].pdo \in Seq(Element)
      BY <3>1 DEF Port
    <3> QED
      BY <3>2, LenProperties
  <2>5. outWidth' \in [1 .. Len(o_port) -> Nat]
    BY <1>1, <2>4
  <2>6. /\ inType' \in Seq(SlTypes \cup {Dynamic}) /\ Len(inType') = Len(i_port)
        /\ inWidth' \in Seq(Int) /\ Len(inWidth') = Len(i_port)
        /\ outWidth' \in Seq(Nat) /\ Len(outWidth') = Len(o_port)
    BY <1>3, <2>2, <2>3, <2>5, FunctionIsSeq
  <2> QED
    BY <1>1, <2>6 DEF SignalTypesInv, ports
<1>5. ConfigTypes' /\ PortTypes' /\ RtwTypes'
  BY <1>1, <1>2, SameConfig, SamePorts, SameRtw
     DEF Types, ConfigTypes, config, ports, rtw
<1> QED
  BY <1>2, <1>4, <1>5, AllRead DEF Types

(* What a call of Simulink leaves of an input.                             *)
Retyped(q, port) ==
  /\ q \in Port /\ q.spec = port.spec /\ q.pdo = port.pdo
  /\ q.data_type = port.data_type /\ q.raw = port.raw

LEMMA SetInputPortDataTypeIs ==
  ASSUME Types, NEW p \in DOMAIN inType, NEW id \in SignalTypes,
         SetInputPortDataType(p, id)
  PROVE  /\ pc = "ports" /\ inType[p] = Dynamic /\ p \in 1 .. Len(i_port)
         /\ UNCHANGED <<live, config, o_port, arrays, filter_count,
                        runtime_param_count, inWidth, outWidth, states,
                        runTimeParams, dWork, rtw>>
         /\ \/ /\ Fail /\ UNCHANGED <<i_port, dwork_count, inType>>
            \/ /\ UNCHANGED <<pc, error>> /\ inType' = [inType EXCEPT ![p] = id]
               /\ id \in SlTypes
               /\ \/ /\ UNCHANGED <<i_port, dwork_count>>
                     /\ id = SlType(i_port[p].data_type)
                  \/ \E q : /\ i_port' = [i_port EXCEPT ![p] = q]
                            /\ Retyped(q, i_port[p])
                            /\ q.dwork_idx = dwork_count + 1
                            /\ q.sl_port_data_type = id
                            /\ dwork_count' = dwork_count + 1
<1> DEFINE port     == i_port[p]
           converts == SlType(port.data_type) # id
           q        == [port EXCEPT !.dwork_idx = dwork_count + 1,
                                    !.sl_port_data_type = id]
<1>1. pc = "ports" /\ inType[p] = Dynamic
        /\ UNCHANGED <<live, config, o_port, arrays, filter_count,
                       runtime_param_count, inWidth, outWidth, states,
                       runTimeParams, dWork, rtw>>
  BY DEF SetInputPortDataType
<1>2. \/ Fail /\ UNCHANGED <<i_port, dwork_count, inType>>
      \/ /\ i_port' = IF converts
                      THEN [i_port EXCEPT ![p].dwork_idx = dwork_count + 1,
                                          ![p].sl_port_data_type = id]
                      ELSE i_port
         /\ dwork_count' = IF converts THEN dwork_count + 1 ELSE dwork_count
         /\ inType' = [inType EXCEPT ![p] = id]
         /\ UNCHANGED <<pc, error>>
  BY DEF SetInputPortDataType
<1>3. p \in 1 .. Len(i_port) /\ i_port \in Seq(Port) /\ dwork_count \in Nat
  <2>1. inType \in Seq(SlTypes \cup {Dynamic}) /\ Len(inType) = Len(i_port)
    BY <1>1 DEF Types, SignalTypesInv, Kept
  <2>2. DOMAIN inType = 1 .. Len(i_port)
    BY <2>1, LenProperties
  <2> QED
    BY <2>2 DEF Types, PortTypes
<1>4. port \in Port
  BY <1>3, ElementOfSeq
<1>5. id \in SlTypes
  BY ConfigAssumption
<1>6. Retyped(q, port) /\ q.dwork_idx = dwork_count + 1
        /\ q.sl_port_data_type = id
  <2>1. dwork_count + 1 \in Nat
    BY <1>3
  <2> HIDE DEF port
  <2> QED
    BY <1>4, <1>5, <2>1 DEF Port, Retyped
<1>7. [i_port EXCEPT ![p].dwork_idx = dwork_count + 1,
                     ![p].sl_port_data_type = id] = [i_port EXCEPT ![p] = q]
  BY <1>3, LenProperties
<1>8. CASE converts
  <2> HIDE DEF q
  <2> QED
    BY <1>1, <1>2, <1>3, <1>5, <1>6, <1>7, <1>8
<1>9. CASE ~converts
  <2> HIDE DEF q
  <2> QED
    BY <1>1, <1>2, <1>3, <1>5, <1>9
<1> QED
  BY <1>8, <1>9

LEMMA SetInputPortDataTypeTypes ==
  ASSUME Types, NEW p \in DOMAIN inType, NEW id \in SignalTypes,
         SetInputPortDataType(p, id)
  PROVE  Types'
<1>1. /\ pc = "ports" /\ p \in 1 .. Len(i_port)
      /\ UNCHANGED <<config, o_port, arrays, filter_count, runtime_param_count,
                     inWidth, outWidth, rtw>>
      /\ \/ /\ error' = TRUE /\ pc' = "failed"
            /\ UNCHANGED <<i_port, dwork_count, inType>>
         \/ /\ UNCHANGED <<pc, error>> /\ inType' = [inType EXCEPT ![p] = id]
            /\ id \in SlTypes
            /\ \/ UNCHANGED <<i_port, dwork_count>>
               \/ \E q \in Port : /\ i_port' = [i_port EXCEPT ![p] = q]
                                  /\ dwork_count' = dwork_count + 1
  <2>1. /\ pc = "ports" /\ p \in 1 .. Len(i_port)
        /\ UNCHANGED <<config, o_port, arrays, filter_count,
                       runtime_param_count, inWidth, outWidth, rtw>>
    BY SetInputPortDataTypeIs
  <2>2. CASE Fail /\ UNCHANGED <<i_port, dwork_count, inType>>
    BY <2>1, <2>2 DEF Fail
  <2>3. CASE /\ UNCHANGED <<pc, error>> /\ inType' = [inType EXCEPT ![p] = id]
             /\ id \in SlTypes /\ UNCHANGED <<i_port, dwork_count>>
    BY <2>1, <2>3
  <2>4. CASE /\ UNCHANGED <<pc, error>> /\ inType' = [inType EXCEPT ![p] = id]
             /\ id \in SlTypes
             /\ \E q \in Port : /\ i_port' = [i_port EXCEPT ![p] = q]
                                /\ dwork_count' = dwork_count + 1
    BY <2>1, <2>4
  <2>5. ASSUME NEW q, Retyped(q, i_port[p]) PROVE q \in Port
    BY <2>5 DEF Retyped
  <2> QED
    BY <2>2, <2>3, <2>4, <2>5, SetInputPortDataTypeIs
<1>2. pc' \in Kept /\ pc \in Kept /\ pc' \in Places /\ pc' \notin ToParameter
        /\ error' \in BOOLEAN
  <2>1. pc' \in {"ports", "failed"} /\ error' \in BOOLEAN
    BY <1>1 DEF Types, ConfigTypes
  <2> QED
    BY <1>1, <2>1, PlacesAre DEF Kept
<1>3. i_port' \in Seq(Port) /\ Len(i_port') = Len(i_port)
  <2>1. i_port \in Seq(Port)
    BY DEF Types, PortTypes
  <2>2. \A q \in Port : [i_port EXCEPT ![p] = q] \in Seq(Port)
                          /\ Len([i_port EXCEPT ![p] = q]) = Len(i_port)
    BY <1>1, <2>1, ExceptSeq
  <2> QED
    BY <1>1, <2>1, <2>2
<1>4. inType' \in Seq(SlTypes \cup {Dynamic}) /\ Len(inType') = Len(inType)
  <2>1. inType \in Seq(SlTypes \cup {Dynamic}) /\ Len(inType) = Len(i_port)
    BY <1>2 DEF Types, SignalTypesInv
  <2>2. id \in SlTypes =>
          [inType EXCEPT ![p] = id] \in Seq(SlTypes \cup {Dynamic})
            /\ Len([inType EXCEPT ![p] = id]) = Len(inType)
    BY <1>1, <2>1, ExceptSeq
  <2> QED
    BY <1>1, <2>1, <2>2
<1>5. PortTypes'
  <2>1. Port' = Port
    BY <1>1 DEF Port, Spec3, config
  <2>2. dwork_count' \in Nat
    BY <1>1 DEF Types, PortTypes
  <2> QED
    BY <1>1, <1>3, <2>1, <2>2 DEF Types, PortTypes
<1>6. SignalTypesInv'
  BY <1>1, <1>2, <1>3, <1>4 DEF Types, SignalTypesInv
<1>7. ConfigTypes' /\ RtwTypes'
  BY <1>1, <1>2, SameConfig, SameRtw DEF Types, rtw
<1> QED
  BY <1>2, <1>5, <1>6, <1>7, AllRead DEF Types

LEMMA SetInputPortWidthTypes ==
  ASSUME Types, NEW p \in DOMAIN inType, NEW width \in Widths,
         SetInputPortWidth(p, width)
  PROVE  Types'
<1>1. /\ pc = "ports" /\ inWidth' = [inWidth EXCEPT ![p] = width]
      /\ \/ error' = TRUE /\ pc' = "failed"
         \/ UNCHANGED <<pc, error>>
      /\ UNCHANGED <<config, ports, runtime_param_count, inType, outWidth,
                     rtw>>
  BY DEF SetInputPortWidth, Fail
<1>2. pc' \in Kept /\ pc \in Kept /\ pc' \in Places /\ pc' \notin ToParameter
        /\ error' \in BOOLEAN
  <2>1. pc' \in {"ports", "failed"} /\ error' \in BOOLEAN
    BY <1>1 DEF Types, ConfigTypes
  <2> QED
    BY <1>1, <2>1, PlacesAre DEF Kept
<1>3. inWidth' \in Seq(Int) /\ Len(inWidth') = Len(inWidth)
  <2>1. /\ inType \in Seq(SlTypes \cup {Dynamic}) /\ Len(inType) = Len(i_port)
        /\ inWidth \in Seq(Int) /\ Len(inWidth) = Len(i_port)
    BY <1>2 DEF Types, SignalTypesInv
  <2>2. p \in 1 .. Len(inWidth)
    BY <2>1, LenProperties
  <2>3. width \in Int
    BY ConfigAssumption
  <2> QED
    BY <1>1, <2>1, <2>2, <2>3, ExceptSeq
<1>4. SignalTypesInv'
  BY <1>1, <1>2, <1>3 DEF Types, SignalTypesInv, ports
<1>5. ConfigTypes' /\ PortTypes' /\ RtwTypes'
  BY <1>1, <1>2, SameConfig, SamePorts, SameRtw DEF Types, ports, config, rtw
<1> QED
  BY <1>2, <1>4, <1>5, AllRead DEF Types

LEMMA DefaultsTypes ==
  Types /\ (SetDefaultPortDataTypes \/ SetDefaultPortDimensionInfo) => Types'
<1> SUFFICES ASSUME Types,
                    SetDefaultPortDataTypes \/ SetDefaultPortDimensionInfo
             PROVE  Types'
  OBVIOUS
<1>1. /\ pc = "ports"
      /\ UNCHANGED <<pc, error, config, ports, runtime_param_count, outWidth,
                     rtw>>
  BY DEF SetDefaultPortDataTypes, SetDefaultPortDimensionInfo
<1>2. /\ inType \in Seq(SlTypes \cup {Dynamic}) /\ Len(inType) = Len(i_port)
      /\ inWidth \in Seq(Int) /\ Len(inWidth) = Len(i_port)
      /\ i_port \in Seq(Port) /\ Len(i_port) \in Nat
      /\ DOMAIN inType = 1 .. Len(i_port) /\ DOMAIN inWidth = 1 .. Len(i_port)
  <2>1. /\ inType \in Seq(SlTypes \cup {Dynamic}) /\ Len(inType) = Len(i_port)
        /\ inWidth \in Seq(Int) /\ Len(inWidth) = Len(i_port)
        /\ i_port \in Seq(Port)
    BY <1>1 DEF Types, SignalTypesInv, PortTypes, Kept
  <2> QED
    BY <2>1, LenProperties
<1>3. inType' \in Seq(SlTypes \cup {Dynamic}) /\ Len(inType') = Len(i_port)
  <2>1. CASE UNCHANGED inType
    BY <1>2, <2>1
  <2>2. CASE SetDefaultPortDataTypes
    <3>1. inType' = [i \in DOMAIN inType |->
                       IF inType[i] = Dynamic THEN SlType(i_port[i].data_type)
                       ELSE inType[i]]
      BY <2>2 DEF SetDefaultPortDataTypes
    <3>2. \A i \in 1 .. Len(i_port) : inType[i] \in SlTypes \cup {Dynamic}
      BY <1>2, ElementOfSeq
    <3>3. inType' \in [1 .. Len(i_port) -> SlTypes \cup {Dynamic}]
      BY <1>2, <3>1, <3>2, SlTypeType
    <3> QED
      BY <1>2, <3>3, FunctionIsSeq
  <2> QED
    BY <2>1, <2>2 DEF SetDefaultPortDimensionInfo
<1>4. inWidth' \in Seq(Int) /\ Len(inWidth') = Len(i_port)
  <2>1. CASE UNCHANGED inWidth
    BY <1>2, <2>1
  <2>2. CASE SetDefaultPortDimensionInfo
    <3>1. inWidth' = [i \in DOMAIN inWidth |->
                        IF inWidth[i] = DynamicWidth THEN Len(i_port[i].pdo)
                        ELSE inWidth[i]]
      BY <2>2 DEF SetDefaultPortDimensionInfo
    <3>2. ASSUME NEW i \in 1 .. Len(i_port)
          PROVE  inWidth[i] \in Int /\ Len(i_port[i].pdo) \in Int
      <4>1. i_port[i] \in Port
        BY <1>2, ElementOfSeq
      <4>2. i_port[i].pdo \in Seq(Element)
        BY <4>1 DEF Port
      <4>3. Len(i_port[i].pdo) \in Nat
        BY <4>2, LenProperties
      <4> QED
        BY <1>2, <4>3, ElementOfSeq
    <3>3. inWidth' \in [1 .. Len(i_port) -> Int]
      BY <1>2, <3>1, <3>2
    <3> QED
      BY <1>2, <3>3, FunctionIsSeq
  <2> QED
    BY <2>1, <2>2 DEF SetDefaultPortDataTypes
<1>5. SignalTypesInv'
  BY <1>1, <1>3, <1>4 DEF Types, SignalTypesInv, ports
<1>6. pc' \notin ToParameter /\ pc' \in Places
  BY <1>1, PlacesAre
<1>7. ConfigTypes' /\ PortTypes' /\ RtwTypes'
  BY <1>1, <1>6, SameConfig, SamePorts, SameRtw
     DEF Types, ConfigTypes, ports, config, rtw
<1> QED
  BY <1>5, <1>6, <1>7, AllRead DEF Types

LEMMA SetWorkWidthsTypes == Types /\ SetWorkWidths => Types'
<1> SUFFICES ASSUME Types, SetWorkWidths PROVE Types'
  OBVIOUS
<1>1. /\ pc = "ports" /\ pc' = "rtw sdo"
      /\ UNCHANGED <<error, config, ports, runtime_param_count, inType,
                     inWidth, outWidth, rtw>>
  BY DEF SetWorkWidths
<1>2. pc' \in Places /\ pc \in Kept /\ pc' \notin ToParameter
  BY <1>1, PlacesAre DEF Kept, Writing
<1>3. ConfigTypes' /\ PortTypes' /\ RtwTypes' /\ SignalTypesInv'
  BY <1>1, <1>2, SameConfig, SamePorts, SameRtw, SameSignals
     DEF Types, ConfigTypes, config, ports, rtw
<1> QED
  BY <1>2, <1>3, AllRead DEF Types

LEMMA TerminateTypes == Types /\ Terminate => Types'
<1> SUFFICES ASSUME Types, Terminate PROVE Types'
  OBVIOUS
<1>1. /\ pc' = "end"
      /\ UNCHANGED <<error, config, ports, runtime_param_count, simulink, rtw>>
  BY DEF Terminate
<1>2. pc' \in Places /\ pc' \notin Kept /\ pc' \notin ToParameter
  BY <1>1, PlacesAre DEF Kept, Writing
<1>3. ConfigTypes' /\ PortTypes' /\ RtwTypes' /\ SignalTypesInv'
  BY <1>1, <1>2, SameConfig, SamePorts, SameRtw, SameSignals
     DEF Types, ConfigTypes, config, ports, rtw, simulink
<1> QED
  BY <1>2, <1>3, AllRead DEF Types

-----------------------------------------------------------------------------
(* The records of a port *)

(* The record of gain, offset or filter j, if there is one.                *)
ParamRecord(dir, k, j) == [kind |-> "param", port |-> <<dir, k>>, spec |-> j]
ParamRecordOf(dir, k, port, j) ==
  IF IsSet(port.spec[j]) THEN <<ParamRecord(dir, k, j)>> ELSE <<>>
(* The records of those before j.                                          *)
Before(port, j) == Cardinality({l \in 1 .. j - 1 : IsSet(port.spec[l])})

LEMMA BeforeIs ==
  ASSUME NEW port
  PROVE  /\ Before(port, 1) = 0
         /\ Before(port, 2) = IF IsSet(port.spec[1]) THEN 1 ELSE 0
         /\ Before(port, 3) = (IF IsSet(port.spec[1]) THEN 1 ELSE 0)
                                + (IF IsSet(port.spec[2]) THEN 1 ELSE 0)
<1> DEFINE S(j) == {l \in 1 .. j - 1 : IsSet(port.spec[l])}
           one == IF IsSet(port.spec[1]) THEN {1} ELSE {}
           two == IF IsSet(port.spec[2]) THEN {2} ELSE {}
<1>1. S(1) = {} /\ S(2) = one /\ S(3) = one \cup two
  OBVIOUS
<1>2. Cardinality(one) = (IF IsSet(port.spec[1]) THEN 1 ELSE 0)
        /\ IsFiniteSet(one)
  BY FS_EmptySet, FS_Singleton
<1>3. Cardinality(one \cup two) = (IF IsSet(port.spec[1]) THEN 1 ELSE 0)
                                + (IF IsSet(port.spec[2]) THEN 1 ELSE 0)
  <2>1. CASE IsSet(port.spec[2])
    <3>1. 2 \notin one /\ two = {2}
      BY <2>1
    <3>2. Cardinality(one \cup {2}) = Cardinality(one) + 1
      <4> HIDE DEF one
      <4> QED
        BY <1>2, <3>1, FS_AddElement
    <3> HIDE DEF one, two
    <3> QED
      BY <1>2, <2>1, <3>1, <3>2
  <2>2. CASE ~IsSet(port.spec[2])
    <3>1. one \cup two = one
      BY <2>2
    <3> HIDE DEF one, two
    <3> QED
      BY <1>2, <2>2, <3>1
  <2> QED
    BY <2>1, <2>2
<1> HIDE DEF one, two
<1> QED
  BY <1>1, <1>2, <1>3, FS_EmptySet DEF Before

LEMMA ParamRecordsAre ==
  ASSUME NEW dir \in {"out", "in"}, NEW k \in Nat, NEW port
  PROVE  LET params == FlattenSeq([j \in 1 .. 3 |->
                         ParamRecordOf(dir, k, port, j)])
         IN /\ params \in Seq(Record)
            /\ \A j \in 1 .. 3 : IsSet(port.spec[j]) =>
                 /\ Before(port, j) + 1 \in 1 .. Len(params)
                 /\ params[Before(port, j) + 1] = ParamRecord(dir, k, j)
<1> DEFINE s == [j \in 1 .. 3 |-> ParamRecordOf(dir, k, port, j)]
           n(j) == IF IsSet(port.spec[j]) THEN 1 ELSE 0
           rec(j) == ParamRecord(dir, k, j)
           params == (s[1] \o s[2]) \o s[3]
<1>1. \A j \in 1 .. 3 : rec(j) \in Record
  BY DEF Record, ParamRecord
<1>2. \A j \in 1 .. 3 : /\ s[j] \in Seq(Record) /\ Len(s[j]) = n(j)
                        /\ IsSet(port.spec[j]) => s[j][1] = rec(j)
  <2> TAKE j \in 1 .. 3
  <2>1. s[j] = IF IsSet(port.spec[j]) THEN <<rec(j)>> ELSE <<>>
    BY DEF ParamRecordOf
  <2>2. rec(j) \in Record
    BY <1>1
  <2> HIDE DEF s, rec
  <2>3. CASE IsSet(port.spec[j])
    <3>1. s[j] = <<rec(j)>>
      BY <2>1, <2>3
    <3>2. <<rec(j)>> \in Seq(Record) /\ Len(<<rec(j)>>) = 1
            /\ <<rec(j)>>[1] = rec(j)
      BY <2>2
    <3> QED
      BY <2>3, <3>1, <3>2
  <2>4. CASE ~IsSet(port.spec[j])
    <3>1. s[j] = <<>>
      BY <2>1, <2>4
    <3> QED
      BY <2>4, <3>1, EmptySeq
  <2> QED
    BY <2>3, <2>4
<1>3. s \in [1 .. 3 -> Seq(Record)]
  BY <1>2
<1>4. FlattenSeq(s) = params
  <2> HIDE DEF s
  <2> QED
    BY <1>3, FlattenOfThree
<1> HIDE DEF s, rec
<1>5. /\ s[1] \in Seq(Record) /\ Len(s[1]) = n(1)
      /\ s[2] \in Seq(Record) /\ Len(s[2]) = n(2)
      /\ s[3] \in Seq(Record) /\ Len(s[3]) = n(3)
      /\ IsSet(port.spec[1]) => s[1][1] = rec(1)
      /\ IsSet(port.spec[2]) => s[2][1] = rec(2)
      /\ IsSet(port.spec[3]) => s[3][1] = rec(3)
  BY <1>2
<1> DEFINE front == s[1] \o s[2]
<1>6. /\ front \in Seq(Record) /\ Len(front) = n(1) + n(2)
      /\ \A i \in 1 .. n(1) + n(2) :
           front[i] = IF i <= n(1) THEN s[1][i] ELSE s[2][i - n(1)]
  <2>1. /\ front \in Seq(Record) /\ Len(front) = Len(s[1]) + Len(s[2])
        /\ \A i \in 1 .. Len(s[1]) + Len(s[2]) :
             front[i] = IF i <= Len(s[1]) THEN s[1][i] ELSE s[2][i - Len(s[1])]
    <3>1. s[1] \in Seq(Record) /\ s[2] \in Seq(Record)
      BY <1>5
    <3> QED
      BY <3>1, ConcatProperties
  <2> HIDE DEF n, front
  <2> QED
    BY <1>5, <2>1
<1>7. /\ params \in Seq(Record) /\ Len(params) = (n(1) + n(2)) + n(3)
      /\ \A i \in 1 .. (n(1) + n(2)) + n(3) :
           params[i] = IF i <= n(1) + n(2) THEN front[i]
                       ELSE s[3][i - (n(1) + n(2))]
  <2>1. params = front \o s[3]
    OBVIOUS
  <2> HIDE DEF n, front, params
  <2>2. front \in Seq(Record) /\ s[3] \in Seq(Record)
    BY <1>5, <1>6
  <2>3. /\ front \o s[3] \in Seq(Record)
        /\ Len(front \o s[3]) = Len(front) + Len(s[3])
        /\ \A i \in 1 .. Len(front) + Len(s[3]) :
             (front \o s[3])[i] = IF i <= Len(front) THEN front[i]
                                  ELSE s[3][i - Len(front)]
    BY <2>2, ConcatProperties
  <2> QED
    BY <1>5, <1>6, <2>1, <2>3
<1> HIDE DEF front, params
<1>8. /\ Before(port, 1) = 0 /\ Before(port, 2) = n(1)
      /\ Before(port, 3) = n(1) + n(2)
  BY BeforeIs
<1>9. /\ IsSet(port.spec[1]) => /\ 1 \in 1 .. Len(params) /\ params[1] = rec(1)
      /\ IsSet(port.spec[2]) => /\ n(1) + 1 \in 1 .. Len(params)
                                /\ params[n(1) + 1] = rec(2)
      /\ IsSet(port.spec[3]) => /\ n(1) + n(2) + 1 \in 1 .. Len(params)
                                /\ params[n(1) + n(2) + 1] = rec(3)
  <2> DEFINE n1 == n(1)
             n2 == n(2)
             n3 == n(3)
  <2>1. n1 \in {0, 1} /\ n2 \in {0, 1} /\ n3 \in {0, 1}
          /\ (IsSet(port.spec[1]) => n1 = 1) /\ (IsSet(port.spec[2]) => n2 = 1)
          /\ (IsSet(port.spec[3]) => n3 = 1)
    OBVIOUS
  <2>2. /\ Len(params) = (n1 + n2) + n3
        /\ \A i \in 1 .. (n1 + n2) + n3 :
             params[i] = IF i <= n1 + n2 THEN front[i]
                         ELSE s[3][i - (n1 + n2)]
        /\ \A i \in 1 .. n1 + n2 :
             front[i] = IF i <= n1 THEN s[1][i] ELSE s[2][i - n1]
    BY <1>6, <1>7
  <2>3. /\ IsSet(port.spec[1]) => /\ 1 \in 1 .. Len(params)
                                  /\ params[1] = rec(1)
        /\ IsSet(port.spec[2]) => /\ n1 + 1 \in 1 .. Len(params)
                                  /\ params[n1 + 1] = rec(2)
        /\ IsSet(port.spec[3]) => /\ n1 + n2 + 1 \in 1 .. Len(params)
                                  /\ params[n1 + n2 + 1] = rec(3)
    <3> HIDE DEF n1, n2, n3
    <3>1. ASSUME IsSet(port.spec[1])
          PROVE  1 \in 1 .. Len(params) /\ params[1] = rec(1)
      <4>1. 1 \in 1 .. (n1 + n2) + n3 /\ 1 \in 1 .. n1 + n2 /\ 1 <= n1
              /\ 1 <= n1 + n2
        BY <3>1, <2>1
      <4> QED
        BY <1>5, <2>2, <3>1, <4>1
    <3>2. ASSUME IsSet(port.spec[2])
          PROVE  n1 + 1 \in 1 .. Len(params) /\ params[n1 + 1] = rec(2)
      <4>1. n1 + 1 \in 1 .. (n1 + n2) + n3 /\ n1 + 1 \in 1 .. n1 + n2
              /\ ~(n1 + 1 <= n1) /\ n1 + 1 <= n1 + n2 /\ (n1 + 1) - n1 = 1
        BY <3>2, <2>1
      <4> QED
        BY <1>5, <2>2, <3>2, <4>1
    <3>3. ASSUME IsSet(port.spec[3])
          PROVE  n1 + n2 + 1 \in 1 .. Len(params) /\ params[n1 + n2 + 1] = rec(3)
      <4>1. n1 + n2 + 1 \in 1 .. (n1 + n2) + n3 /\ ~(n1 + n2 + 1 <= n1 + n2)
              /\ (n1 + n2 + 1) - (n1 + n2) = 1
        BY <3>3, <2>1
      <4> QED
        BY <1>5, <2>2, <3>3, <4>1
    <3> QED
      BY <3>1, <3>2, <3>3
  <2> QED
    BY <2>3
<1>10. \A j \in 1 .. 3 : IsSet(port.spec[j]) =>
         /\ Before(port, j) + 1 \in 1 .. Len(params)
         /\ params[Before(port, j) + 1] = rec(j)
  <2> TAKE j \in 1 .. 3
  <2> HIDE DEF n
  <2>1. j = 1 \/ j = 2 \/ j = 3
    OBVIOUS
  <2>2. 0 + 1 = 1
    OBVIOUS
  <2> QED
    BY <1>8, <1>9, <2>1, <2>2
<1> QED
  BY <1>4, <1>7, <1>10 DEF s, rec

(* The record of a port has number n, and leads to those of its parameters. *)
PortIsRecorded(dir, k, port, number, n) ==
  /\ n >= Len(settings) /\ settings' \in Seq(Record)
  /\ Len(settings') = n + 1 /\ param_idx' = n + 1
  /\ \A i \in 1 .. Len(settings) : settings'[i] = settings[i]
  /\ settings'[n + 1] = [kind |-> "port", port |-> <<dir, k>>,
                         param |-> number]
  /\ index' = [index EXCEPT ![dir] = Append(@, n)]
  /\ \A j \in 1 .. 3 :
       IF IsSet(port.spec[j])
       THEN /\ number[j] + 1 \in 1 .. n
            /\ settings'[number[j] + 1] = ParamRecord(dir, k, j)
       ELSE number[j] = -1

LEMMA WritePortIs ==
  ASSUME RtwTypes, NEW dir \in {"out", "in"}, NEW k \in Nat, NEW port,
         WritePort(dir, k, port)
  PROVE  \E number \in [1 .. 3 -> Int], n \in Nat :
           PortIsRecorded(dir, k, port, number, n)
<1> DEFINE number == [j \in 1 .. 3 |-> NumberOf(port, j)]
           params == FlattenSeq([j \in 1 .. 3 |->
                       ParamRecordOf(dir, k, port, j)])
           n      == Len(settings) + Len(params)
           last   == [kind |-> "port", port |-> <<dir, k>>, param |-> number]
           most   == settings \o params
<1>1. /\ settings' = most \o <<last>>
      /\ index' = [index EXCEPT ![dir] = Append(@, n)] /\ param_idx' = n + 1
  BY DEF WritePort, RtwTypes, ParamRecord, ParamRecordOf
<1>2. params \in Seq(Record)
        /\ \A j \in 1 .. 3 : IsSet(port.spec[j]) =>
             /\ Before(port, j) + 1 \in 1 .. Len(params)
             /\ params[Before(port, j) + 1] = ParamRecord(dir, k, j)
  BY ParamRecordsAre
<1>3. \A j \in 1 .. 3 : Before(port, j) \in Nat
  BY BeforeIs
<1>4. \A j \in 1 .. 3 : number[j] = IF IsSet(port.spec[j])
                                    THEN Len(settings) + Before(port, j) ELSE -1
  BY DEF NumberOf, Before, RtwTypes
<1>5. settings \in Seq(Record) /\ Len(settings) \in Nat /\ Len(params) \in Nat
  BY <1>2, LenProperties DEF RtwTypes
<1>6. number \in [1 .. 3 -> Int]
  <2>1. number = [j \in 1 .. 3 |-> number[j]]
    OBVIOUS
  <2> HIDE DEF number
  <2>2. \A j \in 1 .. 3 : number[j] \in Int
    BY <1>3, <1>4, <1>5
  <2> QED
    BY <2>1, <2>2
<1> HIDE DEF number, params
<1>7. last \in Record
  BY <1>6 DEF Record
<1> HIDE DEF last
<1>8. /\ most \in Seq(Record) /\ Len(most) = n
      /\ \A i \in 1 .. n : most[i] = IF i <= Len(settings) THEN settings[i]
                                     ELSE params[i - Len(settings)]
  BY <1>2, <1>5, ConcatProperties
<1> HIDE DEF most
<1>9. /\ settings' \in Seq(Record) /\ Len(settings') = n + 1
      /\ \A i \in 1 .. n : settings'[i] = most[i]
      /\ settings'[n + 1] = last
  <2>1. settings' = Append(most, last)
    BY <1>1, <1>8, <1>7
  <2> QED
    BY <1>7, <1>8, <2>1, AppendProperties
<1>10. \A i \in 1 .. Len(settings) : settings'[i] = settings[i]
  <2>1. \A i \in 1 .. Len(settings) : i \in 1 .. n /\ i <= Len(settings)
    BY <1>5
  <2> QED
    BY <1>8, <1>9, <2>1
<1>11. ASSUME NEW j \in 1 .. 3
       PROVE  IF IsSet(port.spec[j])
              THEN /\ number[j] + 1 \in 1 .. n
                   /\ settings'[number[j] + 1] = ParamRecord(dir, k, j)
              ELSE number[j] = -1
  <2>1. CASE IsSet(port.spec[j])
    <3>1. PICK b \in Nat : b = Before(port, j)
      BY <1>3
    <3>2. b + 1 \in 1 .. Len(params) /\ params[b + 1] = ParamRecord(dir, k, j)
            /\ number[j] = Len(settings) + b
      BY <1>2, <1>4, <2>1, <3>1
    <3>3. number[j] + 1 \in 1 .. n /\ ~(number[j] + 1 <= Len(settings))
            /\ (number[j] + 1) - Len(settings) = b + 1
      BY <1>5, <3>2
    <3> QED
      BY <1>8, <1>9, <2>1, <3>2, <3>3
  <2> QED
    BY <1>4, <2>1
<1>12. n \in Nat /\ n >= Len(settings)
  BY <1>5
<1> QED
  BY <1>1, <1>6, <1>9, <1>10, <1>11, <1>12 DEF last, PortIsRecorded

(* One record per row.                                                     *)
LEMMA RecordsAre ==
  ASSUME RtwTypes, NEW kind \in {"sdo", "soe"}, NEW n \in Nat
  PROVE  LET more == settings \o Records(kind, n) IN
         /\ more \in Seq(Record) /\ Len(more) = Len(settings) + n
         /\ \A i \in 1 .. Len(settings) : more[i] = settings[i]
         /\ \A i \in 1 .. n :
              more[Len(settings) + i] = [kind |-> kind, row |-> i]
<1> DEFINE records == Records(kind, n)
           more    == settings \o records
<1>1. \A i \in 1 .. n : /\ records[i] = [kind |-> kind, row |-> i]
                        /\ [kind |-> kind, row |-> i] \in Record
  BY DEF Records, Record
<1>2. records \in Seq(Record) /\ Len(records) = n
  <2>1. records \in [1 .. n -> Record]
    BY <1>1 DEF Records
  <2> HIDE DEF records
  <2> QED
    BY <2>1, FunctionIsSeq
<1> HIDE DEF records
<1>3. settings \in Seq(Record) /\ Len(settings) \in Nat
  BY LenProperties DEF RtwTypes
<1>4. /\ more \in Seq(Record) /\ Len(more) = Len(settings) + n
      /\ \A i \in 1 .. Len(settings) + n :
           more[i] = IF i <= Len(settings) THEN settings[i]
                     ELSE records[i - Len(settings)]
  BY <1>2, <1>3, ConcatProperties
<1> HIDE DEF more
<1>5. \A i \in 1 .. Len(settings) : more[i] = settings[i]
  <2>1. \A i \in 1 .. Len(settings) :
          i \in 1 .. Len(settings) + n /\ i <= Len(settings)
    BY <1>3
  <2> QED
    BY <1>4, <2>1
<1>6. \A i \in 1 .. n : more[Len(settings) + i] = [kind |-> kind, row |-> i]
  <2>1. \A i \in 1 .. n : /\ Len(settings) + i \in 1 .. Len(settings) + n
                          /\ ~(Len(settings) + i <= Len(settings))
                          /\ (Len(settings) + i) - Len(settings) = i
    BY <1>3
  <2> QED
    BY <1>1, <1>4, <2>1
<1> QED
  BY <1>4, <1>5, <1>6 DEF more, records

(* What no step of mdlRTW changes.                                         *)
LEMMA SameButRecords ==
  ASSUME Types, pc \in Kept, pc' \in Kept, error' \in BOOLEAN,
         UNCHANGED <<live, config, ports, runtime_param_count, simulink>>,
         RtwTypes'
  PROVE  Types'
<1>1. pc' \in Places /\ pc' \notin ToParameter
  BY PlacesAre
<1>2. ConfigTypes' /\ PortTypes' /\ SignalTypesInv'
  BY <1>1, SameConfig, SamePorts, SameSignals
     DEF Types, ports, config, simulink
<1> QED
  BY <1>1, <1>2, AllRead DEF Types

LEMMA RtwTypesKept == Types /\ Rtw => Types'
<1> SUFFICES ASSUME Types, Rtw PROVE Types'
  OBVIOUS
<1>1. RtwTypes /\ error \in BOOLEAN
  BY DEF Types, ConfigTypes
<1>2. Writing \subseteq Kept /\ "failed" \in Kept /\ "written" \in Kept
  BY DEF Kept
<1>3. CASE WriteSdo \/ WriteSoe
  <2>1. PICK kind \in {"sdo", "soe"}, n \in Nat :
          /\ settings' = settings \o Records(kind, n)
          /\ param_idx' = param_idx + n
          /\ index' \in {[index EXCEPT !.sdo = Numbers(n)],
                         [index EXCEPT !.soe = Numbers(n)]}
    <3>1. Len(sdo) \in Nat /\ Len(soe) \in Nat
      BY LenProperties DEF Types, ConfigTypes
    <3> QED
      BY <1>3, <3>1 DEF WriteSdo, WriteSoe
  <2>2. settings' \in Seq(Record) /\ param_idx' = Len(settings')
    BY <1>1, <2>1, RecordsAre DEF RtwTypes
  <2>3. Numbers(n) \in Seq(Nat)
    <3>1. param_idx \in Nat
      BY <1>1, LenProperties DEF RtwTypes
    <3>2. Numbers(n) \in [1 .. n -> Nat]
      BY <3>1 DEF Numbers
    <3> QED
      BY <3>2, FunctionIsSeq
  <2>4. RtwTypes'
    <3> DEFINE N == Numbers(n)
    <3> HIDE DEF N
    <3>1. N \in Seq(Nat) /\ index' \in {[index EXCEPT !.sdo = N],
                                        [index EXCEPT !.soe = N]}
      BY <2>1, <2>3 DEF N
    <3> QED
      BY <1>1, <2>2, <3>1 DEF RtwTypes
  <2>5. pc \in Writing /\ pc' \in Writing
    BY <1>3 DEF WriteSdo, WriteSoe, Writing
  <2> QED
    BY <1>1, <1>2, <1>3, <2>4, <2>5, SameButRecords DEF WriteSdo, WriteSoe
<1>4. CASE WriteSyncManagers
  <2>1. pc \in Writing /\ pc' \in Writing
    BY <1>4 DEF WriteSyncManagers, Writing
  <2>2. UNCHANGED <<error, live, config, ports, runtime_param_count, simulink,
                    settings, param_idx, index>>
    BY <1>4 DEF WriteSyncManagers
  <2> QED
    BY <1>1, <1>2, <2>1, <2>2, SameRtw, SameButRecords
<1>5. CASE WriteDc
  <2>1. pc \in Writing /\ pc' \in Writing
    BY <1>5 DEF WriteDc, Writing
  <2>2. [kind |-> "dc"] \in Record
    BY DEF Record
  <2>3. param_idx \in Nat /\ settings \in Seq(Record)
    BY <1>1, LenProperties DEF RtwTypes
  <2>4. /\ Append(settings, [kind |-> "dc"]) \in Seq(Record)
        /\ Len(Append(settings, [kind |-> "dc"])) = Len(settings) + 1
    BY <2>2, <2>3, AppendProperties
  <2>5. RtwTypes'
    BY <1>1, <1>5, <2>3, <2>4 DEF RtwTypes, WriteDc
  <2> QED
    BY <1>1, <1>2, <1>5, <2>1, <2>5, SameButRecords DEF WriteDc
<1>6. CASE WriteOutputPort \/ WriteInputPort
  <2>1. PICK dir \in {"out", "in"} :
          \E port : WritePort(dir, Len(index[dir]) + 1, port)
    BY <1>6 DEF WriteOutputPort, WriteInputPort
  <2>2. index[dir] \in Seq(Nat)
    BY <1>1 DEF RtwTypes
  <2>3. PICK n \in Nat :
          /\ settings' \in Seq(Record) /\ Len(settings') = n + 1
          /\ param_idx' = n + 1
          /\ index' = [index EXCEPT ![dir] = Append(@, n)]
    <3>1. Len(index[dir]) + 1 \in Nat
      BY <2>2, LenProperties
    <3> QED
      BY <1>1, <2>1, <3>1, WritePortIs DEF PortIsRecorded
  <2>4. RtwTypes'
    <3>1. Append(index[dir], n) \in Seq(Nat)
      BY <2>2, AppendProperties
    <3> DEFINE N == Append(index[dir], n)
    <3>2. N \in Seq(Nat) /\ index' = [index EXCEPT ![dir] = N]
      BY <2>3, <3>1
    <3> HIDE DEF N
    <3> QED
      BY <1>1, <2>3, <3>2 DEF RtwTypes
  <2>5. pc \in Writing /\ pc' = pc
    BY <1>6 DEF WriteOutputPort, WriteInputPort, Writing
  <2>6. UNCHANGED <<error, live, config, ports, runtime_param_count, simulink>>
    BY <2>1 DEF WritePort
  <2> QED
    BY <1>1, <1>2, <2>4, <2>5, <2>6, SameButRecords
<1>7. CASE WritePortsEnd
  <2>1. pc \in Kept /\ pc' \in Kept
    BY <1>2, <1>7 DEF WritePortsEnd, Writing
  <2>2. UNCHANGED <<error, live, config, ports, runtime_param_count, simulink,
                    rtw>>
    BY <1>7 DEF WritePortsEnd
  <2> QED
    BY <1>1, <2>1, <2>2, SameRtw, SameButRecords DEF rtw
<1>8. CASE RtwFails
  <2>1. pc \in Kept /\ pc' \in Kept /\ error' \in BOOLEAN
    BY <1>2, <1>8 DEF RtwFails, Fail
  <2>2. UNCHANGED <<live, config, ports, runtime_param_count, simulink, rtw>>
    BY <1>8 DEF RtwFails
  <2> QED
    BY <1>1, <2>1, <2>2, SameRtw, SameButRecords DEF rtw
<1> QED
  BY <1>3, <1>4, <1>5, <1>6, <1>7, <1>8 DEF Rtw

LEMMA NextTypes == Types /\ [Next]_vars => Types'
<1> SUFFICES ASSUME Types, [Next]_vars PROVE Types'
  OBVIOUS
<1>1. CASE Getters
  BY <1>1, GetSlaveInfoTypes, GetSlaveSdoTypes, GetSlaveSoeTypes,
     GetSlaveDcTypes, GetSyncManagersTypes, GetParameterConfigTypes,
     GetPortsTypes DEF Getters
<1>2. CASE Compile
  BY <1>2, InitializeSizesTypes, SetInputPortDataTypeTypes,
     SetInputPortWidthTypes, DefaultsTypes, SetWorkWidthsTypes DEF Compile
<1>3. CASE UNCHANGED vars
  <2>1. UNCHANGED <<pc, error, config, ports, runtime_param_count, simulink, rtw>>
    BY <1>3 DEF vars
  <2>2. PortTypes' /\ SignalTypesInv' /\ RtwTypes'
    BY <2>1, SamePorts, SameSignals, SameRtw
       DEF Types, config, ports, simulink, rtw
  <2>3. ConfigTypes' /\ Unread'
    BY <2>1 DEF Types, ConfigTypes, Unread, config, ports
  <2> QED
    BY <2>2, <2>3 DEF Types
<1> QED
  BY <1>1, <1>2, <1>3, RtwTypesKept, TerminateTypes DEF Next

LEMMA TypesInv == Spec => []Types
<1>1. Init => Types
  BY InitTypes
<1>2. Types /\ [Next]_vars => Types'
  BY NextTypes
<1> QED
  BY <1>1, <1>2, PTL DEF Spec

(* In every state the configuration that is read, the ports, what Simulink *)
(* knows of them and what is written have their types, and Simulink knows  *)
(* every port of the block and no more: for any configuration, and in      *)
(* whatever order it calls the block.                                      *)
THEOREM TypesHold == Spec => []TypeOK
<1>1. Types => TypeOK
  BY TypesAreOK
<1> QED
  BY <1>1, TypesInv, PTL

-----------------------------------------------------------------------------
(* Each block once *)

SlaveBlocks == {SlaveStruct} \cup (IF type THEN {TypeString} ELSE {})
ConfigBlocks == SdoBlocks(sdo) \cup SoeBlocks(soe) \cup SmBlocks(sm)
                  \cup ParamBlocks(parameter)
BlocksOfPorts(dir, p) == UNION {PortBlocks(dir, k, p[k]) : k \in 1 .. Len(p)}
ArrayBlocks == {Array(dir) : dir \in arrays}

(* The blocks to which the pointers of the slave point.                    *)
Blocks == SlaveBlocks \cup ConfigBlocks \cup BlocksOfPorts("out", o_port)
            \cup BlocksOfPorts("in", i_port) \cup ArrayBlocks

(* Allocated is what the pointers point to, from the first getter on.      *)
LiveInv == live = IF pc \in {"refused", "end"} THEN {} ELSE Blocks

LEMMA VisitOfUnion ==
  /\ \A A, B, C : Visit(A \cup B \cup C) = Visit(A) \cup Visit(B) \cup Visit(C)
  /\ \A A, B, C, D : Visit(A \cup B \cup C \cup D)
                       = Visit(A) \cup Visit(B) \cup Visit(C) \cup Visit(D)
<1>1. \A A, B, C :
        Visit(A \cup B \cup C) = Visit(A) \cup Visit(B) \cup Visit(C)
  BY DEF Visit
<1>2. \A A, B, C, D : Visit(A \cup B \cup C \cup D)
                        = Visit(A) \cup Visit(B) \cup Visit(C) \cup Visit(D)
  BY DEF Visit
<1> QED
  BY <1>1, <1>2

LEMMA PortVisitsAre ==
  ASSUME NEW dir, NEW k, NEW port \in Port
  PROVE  PortVisits(dir, k, port) = Visit(PortBlocks(dir, k, port))
<1> DEFINE own   == {l \in 1 .. 3 : IsSet(port.spec[l])
                                    /\ port.spec[l].kind # "reference"}
           pdo   == {<<dir, k, 0, "pdo">> : j \in 1 .. Len(port.pdo)}
           names == {<<dir, k, j, "name">> : j \in Named(port)}
           parts == {<<dir, k, j, part>> : part \in {"struct", "value"},
                       j \in {l \in 1 .. 3 :
                                port.spec[l].kind \in {"vector", "named"}}}
           visits == UNION {{[slot |-> <<dir, k, j, part>>,
                              block |-> PartOf(dir, k, j, port.spec[j], part)] :
                               part \in Parts(port.spec[j])} : j \in own}
<1>1. \A j \in 1 .. 3 : port.spec[j].kind \in {"none", "vector", "named",
                                                "reference"}
  BY DEF Port, Spec3
<1>2. \A j \in own : \A part :
        PartOf(dir, k, j, port.spec[j], part) = <<dir, k, j, part>>
  BY DEF PartOf
<1>3. visits = Visit({<<dir, k, j, part>> : j \in own, part \in {"struct", "value"}}
                       \cup names)
  <2> DEFINE At(j, part) == [slot  |-> <<dir, k, j, part>>,
                             block |-> <<dir, k, j, part>>]
             rest == {<<dir, k, j, part>> : j \in own,
                        part \in {"struct", "value"}}
  <2>1. \A j \in own : Parts(port.spec[j])
          = {"struct", "value"} \cup (IF j \in Named(port) THEN {"name"} ELSE {})
    BY <1>1 DEF Parts, Named, IsSet
  <2>2. Named(port) \subseteq own
    BY DEF Named, IsSet
  <2>3. \A v : v \in visits <=>
               \E j \in own : \E part \in Parts(port.spec[j]) : v = At(j, part)
    BY <1>2
  <2>4. \A v : v \in Visit(rest) <=>
               \E j \in own : \E part \in {"struct", "value"} : v = At(j, part)
    BY DEF Visit
  <2>5. \A v : v \in Visit(names) <=> \E j \in Named(port) : v = At(j, "name")
    BY DEF Visit
  <2>6. Visit(rest \cup names) = Visit(rest) \cup Visit(names)
    BY DEF Visit
  <2> HIDE DEF At, rest, names, visits, own
  <2>7. ASSUME NEW v
        PROVE  v \in visits <=> v \in Visit(rest) \/ v \in Visit(names)
    <3>1. ASSUME NEW j \in own, NEW part \in Parts(port.spec[j]), v = At(j, part)
          PROVE  v \in Visit(rest) \/ v \in Visit(names)
      <4>1. part \in {"struct", "value"} \/ (part = "name" /\ j \in Named(port))
        BY <2>1
      <4> QED
        BY <2>4, <2>5, <3>1, <4>1
    <3>2. ASSUME NEW j \in own, NEW part \in {"struct", "value"}, v = At(j, part)
          PROVE  v \in visits
      <4>1. part \in Parts(port.spec[j])
        BY <2>1
      <4> QED
        BY <2>3, <3>2, <4>1
    <3>3. ASSUME NEW j \in Named(port), v = At(j, "name")
          PROVE  v \in visits
      <4>1. j \in own /\ "name" \in Parts(port.spec[j])
        BY <2>1, <2>2
      <4> QED
        BY <2>3, <3>3, <4>1
    <3> QED
      BY <2>3, <2>4, <2>5, <3>1, <3>2, <3>3
  <2>8. visits = Visit(rest \cup names)
    BY <2>6, <2>7
  <2> QED
    BY <2>8 DEF rest
<1>4. parts = {<<dir, k, j, part>> : j \in own, part \in {"struct", "value"}}
  BY <1>1 DEF IsSet
<1>5. PortBlocks(dir, k, port) = pdo \cup names \cup parts
  BY DEF PortBlocks
<1>6. PortVisits(dir, k, port) = Visit(pdo) \cup visits
  BY DEF PortVisits
<1> HIDE DEF pdo, names, parts, visits
<1>7. \A S, T : Visit(S \cup T) = Visit(S) \cup Visit(T)
  BY DEF Visit
<1> QED
  BY <1>3, <1>4, <1>5, <1>6, <1>7

LEMMA ParamVisitsAre == Types => ParamVisits = Visit(ParamBlocks(parameter))
<1> SUFFICES ASSUME Types PROVE ParamVisits = Visit(ParamBlocks(parameter))
  OBVIOUS
<1>1. \A i \in 1 .. Len(parameter) :
        parameter[i].mask < 0 <=> parameter[i].mask = -1
  <2> TAKE i \in 1 .. Len(parameter)
  <2>1. parameter[i] \in ParamRow
    BY ParametersType, ElementOfSeq DEF Types
  <2>2. parameter[i].mask \in Nat \cup {-1}
    BY <2>1 DEF ParamRow
  <2> QED
    BY <2>2
<1>2. {i \in 1 .. Len(parameter) : parameter[i].mask < 0}
        = {i \in 1 .. Len(parameter) : parameter[i].mask = -1}
  BY <1>1
<1>3. \A S, T : Visit(S \cup T) = Visit(S) \cup Visit(T)
  BY DEF Visit
<1> DEFINE arr   == {Array("param") : i \in 1 .. Len(parameter)}
           names == {<<"param", i, 0, "name">> : i \in 1 .. Len(parameter)}
           own   == {i \in 1 .. Len(parameter) : parameter[i].mask = -1}
           values == {<<"param", i, 0, "value">> : i \in own}
<1>4. ParamVisits = Visit(arr) \cup Visit(names) \cup Visit(values)
  BY <1>2 DEF ParamVisits
<1>5. ParamBlocks(parameter) = arr \cup names \cup values
  BY DEF ParamBlocks
<1> HIDE DEF arr, names, values
<1> QED
  BY <1>4, <1>5, VisitOfUnion

LEMMA VisitsAre == Types => Visits = Visit(Blocks) /\ Visited = Blocks
<1> SUFFICES ASSUME Types PROVE Visits = Visit(Blocks) /\ Visited = Blocks
  OBVIOUS
<1>1. \A S, T : Visit(S \cup T) = Visit(S) \cup Visit(T)
  BY DEF Visit
<1>2. ASSUME NEW dir, NEW p \in Seq(Port)
      PROVE  UNION {PortVisits(dir, k, p[k]) : k \in 1 .. Len(p)}
               = Visit(BlocksOfPorts(dir, p))
  <2>1. \A k \in 1 .. Len(p) :
          PortVisits(dir, k, p[k]) = Visit(PortBlocks(dir, k, p[k]))
    BY ElementOfSeq, PortVisitsAre
  <2>2. UNION {Visit(PortBlocks(dir, k, p[k])) : k \in 1 .. Len(p)}
          = Visit(UNION {PortBlocks(dir, k, p[k]) : k \in 1 .. Len(p)})
    BY DEF Visit
  <2> QED
    BY <2>1, <2>2 DEF BlocksOfPorts
<1> DEFINE outs == UNION {PortVisits("out", k, o_port[k]) : k \in 1 .. Len(o_port)}
           ins  == UNION {PortVisits("in", k, i_port[k]) : k \in 1 .. Len(i_port)}
<1>3. outs = Visit(BlocksOfPorts("out", o_port))
        /\ ins = Visit(BlocksOfPorts("in", i_port))
  BY <1>2 DEF Types, PortTypes
<1>4. Visits = Visit(SlaveBlocks) \cup Visit(SdoBlocks(sdo))
                 \cup Visit(SoeBlocks(soe)) \cup Visit(SmBlocks(sm))
                 \cup ParamVisits \cup outs \cup ins \cup Visit(ArrayBlocks)
  BY DEF Visits, SlaveBlocks, ArrayBlocks
<1> HIDE DEF outs, ins
<1>5. Visits = Visit(Blocks)
  <2>1. Visits = Visit(SlaveBlocks) \cup Visit(SdoBlocks(sdo))
                 \cup Visit(SoeBlocks(soe)) \cup Visit(SmBlocks(sm))
                 \cup Visit(ParamBlocks(parameter))
                 \cup Visit(BlocksOfPorts("out", o_port))
                 \cup Visit(BlocksOfPorts("in", i_port)) \cup Visit(ArrayBlocks)
    BY <1>3, <1>4, ParamVisitsAre
  <2>2. Visit(ConfigBlocks) = Visit(SdoBlocks(sdo)) \cup Visit(SoeBlocks(soe))
          \cup Visit(SmBlocks(sm)) \cup Visit(ParamBlocks(parameter))
    BY VisitOfUnion DEF ConfigBlocks
  <2>3. Visit(Blocks) = Visit(SlaveBlocks) \cup Visit(ConfigBlocks)
          \cup Visit(BlocksOfPorts("out", o_port))
          \cup Visit(BlocksOfPorts("in", i_port)) \cup Visit(ArrayBlocks)
    <3> DEFINE A == SlaveBlocks
               B == ConfigBlocks
               C == BlocksOfPorts("out", o_port)
               D == BlocksOfPorts("in", i_port)
               E == ArrayBlocks
    <3>1. Blocks = A \cup B \cup C \cup D \cup E
      BY DEF Blocks
    <3> HIDE DEF A, B, C, D, E
    <3>2. Visit(A \cup B \cup C \cup D \cup E)
            = Visit(A) \cup Visit(B) \cup Visit(C) \cup Visit(D) \cup Visit(E)
      BY DEF Visit
    <3> QED
      BY <3>1, <3>2 DEF A, B, C, D, E
  <2> QED
    BY <2>1, <2>2, <2>3
<1>6. Visited = Blocks
  <2>1. \A S : {v.block : v \in Visit(S)} = S
    <3> TAKE S
    <3>1. \A v \in Visit(S) : v.block \in S
      BY DEF Visit
    <3>2. \A b \in S : /\ [slot |-> b, block |-> b] \in Visit(S)
                      /\ [slot |-> b, block |-> b].block = b
      BY DEF Visit
    <3> QED
      BY <3>1, <3>2
  <2> QED
    BY <1>5, <2>1 DEF Visited
<1> QED
  BY <1>5, <1>6

LEMMA OnceFromLive == Types /\ LiveInv => EachBlockOnce
<1> SUFFICES ASSUME Types, LiveInv PROVE EachBlockOnce
  OBVIOUS
<1>1. \A v, w \in Visits : v.block = w.block => v.slot = w.slot
  BY VisitsAre DEF Visit
<1>2. Kept \cap {"refused", "end"} = {}
  BY DEF Kept, Writing
<1> QED
  BY <1>1, <1>2, VisitsAre DEF LiveInv, EachBlockOnce

(* A step that changes none of the pointers.                               *)
LEMMA SameBlocks ==
  ASSUME LiveInv, pc \notin {"refused", "end"}, pc' \notin {"refused", "end"},
         UNCHANGED <<live, config, o_port, i_port, arrays>>
  PROVE  LiveInv'
BY DEF LiveInv, Blocks, SlaveBlocks, ConfigBlocks, ArrayBlocks, config

LEMMA NoBlocks ==
  /\ SdoBlocks(<<>>) = {} /\ SoeBlocks(<<>>) = {} /\ SmBlocks(<<>>) = {}
  /\ ParamBlocks(<<>>) = {}
  /\ \A dir : BlocksOfPorts(dir, <<>>) = {}
<1>1. 1 .. Len(<<>>) = {}
  OBVIOUS
<1> QED
  BY <1>1 DEF SdoBlocks, SoeBlocks, SmBlocks, ParamBlocks, BlocksOfPorts

LEMMA ConfigLive ==
  Types /\ LiveInv
    /\ (GetSlaveInfo \/ GetSlaveSdo \/ GetSlaveSoe \/ GetSlaveDc
          \/ GetSyncManagers \/ GetParameterConfig)
    => LiveInv'
<1> SUFFICES ASSUME Types, LiveInv,
                    GetSlaveInfo \/ GetSlaveSdo \/ GetSlaveSoe \/ GetSlaveDc
                      \/ GetSyncManagers \/ GetParameterConfig,
                    ~Refuse
             PROVE  LiveInv'
  BY DEF Refuse, LiveInv
<1>1. pc \notin {"refused", "end"} /\ pc' \notin {"refused", "end"}
        /\ UNCHANGED <<o_port, i_port, arrays>>
  BY DEF GetSlaveInfo, GetSlaveSdo, GetSlaveSoe, GetSlaveDc, GetSyncManagers,
         GetParameterConfig, ports
<1>2. BlocksOfPorts("out", o_port)' = BlocksOfPorts("out", o_port)
        /\ BlocksOfPorts("in", i_port)' = BlocksOfPorts("in", i_port)
        /\ ArrayBlocks' = ArrayBlocks
  BY <1>1 DEF ArrayBlocks
<1>3. live = Blocks
  BY <1>1 DEF LiveInv
<1>4. CASE GetSlaveInfo /\ pc' # "sdo"
  <2>1. UNCHANGED <<live, config>>
    BY <1>4 DEF GetSlaveInfo
  <2> QED
    BY <1>1, <2>1, SameBlocks
<1>5. CASE GetSlaveInfo /\ pc' = "sdo"
  <2>1. /\ type' = TRUE /\ live' = live \cup {TypeString}
        /\ UNCHANGED <<sdo, soe, dc, sm, parameter>> /\ pc = "address"
    BY <1>5 DEF GetSlaveInfo
  <2>2. type = FALSE
    BY <2>1 DEF Types, Unread
  <2>3. SlaveBlocks' = SlaveBlocks \cup {TypeString} /\ ConfigBlocks' = ConfigBlocks
    BY <2>1, <2>2 DEF SlaveBlocks, ConfigBlocks
  <2> QED
    BY <1>1, <1>2, <1>3, <2>1, <2>3 DEF LiveInv, Blocks
<1>6. CASE GetSlaveSdo
  <2>1. /\ live' = live \cup SdoBlocks(sdo') /\ pc = "sdo"
        /\ UNCHANGED <<type, soe, dc, sm, parameter>>
    BY <1>6 DEF GetSlaveSdo
  <2>2. SdoBlocks(sdo) = {}
    BY <2>1, NoBlocks DEF Types, Unread, ToSdo
  <2>3. SlaveBlocks' = SlaveBlocks
          /\ ConfigBlocks' = ConfigBlocks \cup SdoBlocks(sdo')
    BY <2>1, <2>2 DEF SlaveBlocks, ConfigBlocks
  <2> QED
    BY <1>1, <1>2, <1>3, <2>1, <2>3 DEF LiveInv, Blocks
<1>7. CASE GetSlaveSoe
  <2>1. /\ live' = live \cup SoeBlocks(soe') /\ pc = "soe"
        /\ UNCHANGED <<type, sdo, dc, sm, parameter>>
    BY <1>7 DEF GetSlaveSoe
  <2>2. SoeBlocks(soe) = {}
    BY <2>1, NoBlocks DEF Types, Unread, ToSoe
  <2>3. SlaveBlocks' = SlaveBlocks
          /\ ConfigBlocks' = ConfigBlocks \cup SoeBlocks(soe')
    BY <2>1, <2>2 DEF SlaveBlocks, ConfigBlocks
  <2> QED
    BY <1>1, <1>2, <1>3, <2>1, <2>3 DEF LiveInv, Blocks
<1>8. CASE GetSlaveDc
  <2>1. UNCHANGED <<live, type, sdo, soe, sm, parameter>>
    BY <1>8 DEF GetSlaveDc
  <2>2. SlaveBlocks' = SlaveBlocks /\ ConfigBlocks' = ConfigBlocks
    BY <2>1 DEF SlaveBlocks, ConfigBlocks
  <2> QED
    BY <1>1, <1>2, <1>3, <2>1, <2>2 DEF LiveInv, Blocks
<1>9. CASE GetSyncManagers
  <2>1. /\ live' = live \cup SmBlocks(sm') /\ pc = "sm"
        /\ UNCHANGED <<type, sdo, soe, dc, parameter>>
    BY <1>9 DEF GetSyncManagers
  <2>2. SmBlocks(sm) = {}
    BY <2>1, NoBlocks DEF Types, Unread, ToSm
  <2>3. SlaveBlocks' = SlaveBlocks
          /\ ConfigBlocks' = ConfigBlocks \cup SmBlocks(sm')
    BY <2>1, <2>2 DEF SlaveBlocks, ConfigBlocks
  <2> QED
    BY <1>1, <1>2, <1>3, <2>1, <2>3 DEF LiveInv, Blocks
<1>10. CASE GetParameterConfig
  <2>1. /\ live' = live \cup ParamBlocks(parameter') /\ pc = "parameter"
        /\ UNCHANGED <<type, sdo, soe, dc, sm>>
    BY <1>10 DEF GetParameterConfig
  <2>2. ParamBlocks(parameter) = {}
    BY <2>1, NoBlocks DEF Types, Unread, ToParameter
  <2>3. SlaveBlocks' = SlaveBlocks
          /\ ConfigBlocks' = ConfigBlocks \cup ParamBlocks(parameter')
    BY <2>1, <2>2 DEF SlaveBlocks, ConfigBlocks
  <2> QED
    BY <1>1, <1>2, <1>3, <2>1, <2>3 DEF LiveInv, Blocks
<1> QED
  BY <1>4, <1>5, <1>6, <1>7, <1>8, <1>9, <1>10

LEMMA BlocksOfMore ==
  ASSUME NEW dir, NEW p \in Seq(Port), NEW port \in Port
  PROVE  BlocksOfPorts(dir, Append(p, port))
           = BlocksOfPorts(dir, p) \cup PortBlocks(dir, Len(p) + 1, port)
<1> DEFINE more == Append(p, port)
<1>1. Len(p) \in Nat /\ Len(more) = Len(p) + 1
        /\ (\A k \in 1 .. Len(p) : more[k] = p[k]) /\ more[Len(p) + 1] = port
  BY AppendProperties, LenProperties
<1> HIDE DEF more
<1>2. 1 .. Len(more) = (1 .. Len(p)) \cup {Len(p) + 1}
  BY <1>1
<1>3. \A q : \A b : b \in BlocksOfPorts(dir, q)
                      <=> \E k \in 1 .. Len(q) : b \in PortBlocks(dir, k, q[k])
  BY DEF BlocksOfPorts
<1>4. ASSUME NEW b
      PROVE  b \in BlocksOfPorts(dir, more) <=>
               \/ b \in BlocksOfPorts(dir, p)
               \/ b \in PortBlocks(dir, Len(p) + 1, port)
  <2>1. b \in BlocksOfPorts(dir, more) <=>
          \/ \E k \in 1 .. Len(p) : b \in PortBlocks(dir, k, more[k])
          \/ b \in PortBlocks(dir, Len(p) + 1, more[Len(p) + 1])
    BY <1>2, <1>3
  <2> QED
    BY <1>1, <1>3, <2>1
<1>5. BlocksOfPorts(dir, more)
        = BlocksOfPorts(dir, p) \cup PortBlocks(dir, Len(p) + 1, port)
  BY <1>4
<1> QED
  BY <1>5 DEF more

LEMMA PortsLive ==
  Types /\ LiveInv /\ (GetOutputPorts \/ GetInputPorts) => LiveInv'
<1> SUFFICES ASSUME Types, LiveInv, NEW output \in BOOLEAN,
                    IF output THEN GetOutputPorts ELSE GetInputPorts
             PROVE  LiveInv'
  OBVIOUS
<1> DEFINE dir == IF output THEN "out" ELSE "in"
<1>1. CASE Refuse
  BY <1>1 DEF Refuse, LiveInv
<1>2. CASE PortsAreRead(output)
  <2>1. /\ pc \notin {"refused", "end"} /\ pc' \notin {"refused", "end"}
        /\ UNCHANGED <<type, sdo, soe, dc, sm, parameter, o_port, i_port>>
        /\ \/ UNCHANGED <<live, arrays>>
           \/ live' = live \cup {Array(dir)} /\ arrays' = arrays \cup {dir}
    BY <1>2 DEF PortsAreRead, config
  <2>2. SlaveBlocks' = SlaveBlocks /\ ConfigBlocks' = ConfigBlocks
    BY <2>1 DEF SlaveBlocks, ConfigBlocks
  <2>3. ArrayBlocks' = {Array(d) : d \in arrays'}
    BY DEF ArrayBlocks
  <2>4. \/ live' = live /\ ArrayBlocks' = ArrayBlocks
        \/ live' = live \cup {Array(dir)}
             /\ ArrayBlocks' = ArrayBlocks \cup {Array(dir)}
    BY <2>1, <2>3 DEF ArrayBlocks
  <2>5. BlocksOfPorts("out", o_port)' = BlocksOfPorts("out", o_port)
        /\ BlocksOfPorts("in", i_port)' = BlocksOfPorts("in", i_port)
    BY <2>1
  <2> QED
    BY <2>1, <2>2, <2>4, <2>5 DEF LiveInv, Blocks
<1>3. ASSUME NEW form, PortIsRead(form, output) PROVE LiveInv'
  <2> DEFINE port == IoPort(form, output)
             k == IF output THEN Len(o_port) + 1 ELSE Len(i_port) + 1
  <2>1. /\ pc \notin {"refused", "end"} /\ pc' = pc
        /\ live' = live \cup {Array(dir)} \cup PortBlocks(dir, k, port)
        /\ arrays' = arrays \cup {dir}
        /\ IF output THEN o_port' = Append(o_port, port) /\ UNCHANGED i_port
                     ELSE i_port' = Append(i_port, port) /\ UNCHANGED o_port
        /\ UNCHANGED <<type, sdo, soe, dc, sm, parameter>>
    BY <1>3 DEF PortIsRead, config
  <2>2. port \in Port
    <3>1. form \in PortForm /\ ~PortRefused(form, output)
      BY <1>3, ConfigAssumption DEF PortIsRead
    <3> QED
      BY <3>1, IoPortIs DEF Types
  <2> HIDE DEF port
  <2>3. SlaveBlocks' = SlaveBlocks /\ ConfigBlocks' = ConfigBlocks
    BY <2>1 DEF SlaveBlocks, ConfigBlocks
  <2>4. ArrayBlocks' = ArrayBlocks \cup {Array(dir)}
    BY <2>1 DEF ArrayBlocks
  <2>5. o_port \in Seq(Port) /\ i_port \in Seq(Port)
    BY DEF Types, PortTypes
  <2>6. CASE output
    <3>1. BlocksOfPorts("out", o_port)'
            = BlocksOfPorts("out", o_port) \cup PortBlocks(dir, k, port)
          /\ BlocksOfPorts("in", i_port)' = BlocksOfPorts("in", i_port)
      BY <2>1, <2>2, <2>5, <2>6, BlocksOfMore
    <3> QED
      BY <2>1, <2>3, <2>4, <3>1 DEF LiveInv, Blocks
  <2>7. CASE ~output
    <3>1. BlocksOfPorts("in", i_port)'
            = BlocksOfPorts("in", i_port) \cup PortBlocks(dir, k, port)
          /\ BlocksOfPorts("out", o_port)' = BlocksOfPorts("out", o_port)
      BY <2>1, <2>2, <2>5, <2>7, BlocksOfMore
    <3> QED
      BY <2>1, <2>3, <2>4, <3>1 DEF LiveInv, Blocks
  <2> QED
    BY <2>6, <2>7
<1> QED
  BY <1>1, <1>2, <1>3, GetPortsIs

(* An input that gets its type keeps its blocks.                           *)
LEMMA TypeLive ==
  ASSUME Types, LiveInv, NEW p \in DOMAIN inType, NEW id \in SignalTypes,
         SetInputPortDataType(p, id)
  PROVE  LiveInv'
<1>1. /\ pc = "ports" /\ p \in 1 .. Len(i_port)
      /\ UNCHANGED <<live, config, o_port, arrays>>
      /\ pc' \in {"ports", "failed"}
      /\ \/ UNCHANGED i_port
         \/ \E q : i_port' = [i_port EXCEPT ![p] = q] /\ Retyped(q, i_port[p])
  BY SetInputPortDataTypeIs DEF Fail
<1>2. BlocksOfPorts("in", i_port)' = BlocksOfPorts("in", i_port)
  <2>1. CASE UNCHANGED i_port
    BY <2>1
  <2>2. ASSUME NEW q, i_port' = [i_port EXCEPT ![p] = q], Retyped(q, i_port[p])
        PROVE  BlocksOfPorts("in", i_port') = BlocksOfPorts("in", i_port)
    <3>1. i_port \in Seq(Port)
      BY DEF Types, PortTypes
    <3>2. Len(i_port') = Len(i_port)
            /\ \A k \in 1 .. Len(i_port) :
                 i_port'[k] = IF k = p THEN q ELSE i_port[k]
      BY <1>1, <2>2, <3>1, ExceptSeq DEF Retyped
    <3>3. PortBlocks("in", p, q) = PortBlocks("in", p, i_port[p])
      BY <2>2 DEF Retyped, PortBlocks, Named
    <3>4. \A k \in 1 .. Len(i_port) :
            PortBlocks("in", k, i_port'[k]) = PortBlocks("in", k, i_port[k])
      BY <3>2, <3>3
    <3> QED
      BY <3>2, <3>4 DEF BlocksOfPorts
  <2> QED
    BY <1>1, <2>1, <2>2
<1>3. SlaveBlocks' = SlaveBlocks /\ ConfigBlocks' = ConfigBlocks
        /\ ArrayBlocks' = ArrayBlocks
        /\ BlocksOfPorts("out", o_port)' = BlocksOfPorts("out", o_port)
  BY <1>1 DEF SlaveBlocks, ConfigBlocks, ArrayBlocks, config
<1> QED
  BY <1>1, <1>2, <1>3 DEF LiveInv, Blocks

LEMMA CompileLive == Types /\ LiveInv /\ Compile => LiveInv'
<1> SUFFICES ASSUME Types, LiveInv, Compile PROVE LiveInv'
  OBVIOUS
<1>1. CASE InitializeSizes
  <2>1. CASE Refuse
    BY <2>1 DEF Refuse, LiveInv
  <2>2. CASE ~Refuse
    <3>1. pc = "sizes" /\ pc' = "ports" /\ live' = live \cap Visited
            /\ UNCHANGED <<config, o_port, i_port, arrays>>
      BY <1>1, <2>2 DEF InitializeSizes, ports
    <3>2. live' = live
      BY <3>1, VisitsAre DEF LiveInv
    <3> QED
      BY <3>1, <3>2, SameBlocks
  <2> QED
    BY <2>1, <2>2
<1>2. ASSUME NEW p \in DOMAIN inType, NEW id \in SignalTypes,
             SetInputPortDataType(p, id)
      PROVE  LiveInv'
  BY <1>2, TypeLive
<1>3. ASSUME NEW p \in DOMAIN inType, NEW width \in Widths,
             SetInputPortWidth(p, width)
      PROVE  LiveInv'
  <2>1. pc = "ports" /\ pc' \in {"ports", "failed"}
          /\ UNCHANGED <<live, config, o_port, i_port, arrays>>
    BY <1>3 DEF SetInputPortWidth, Fail, ports
  <2> QED
    BY <2>1, SameBlocks
<1>4. CASE SetDefaultPortDataTypes \/ SetDefaultPortDimensionInfo
             \/ SetWorkWidths
  <2>1. pc = "ports" /\ pc' \in {"ports", "rtw sdo"}
          /\ UNCHANGED <<live, config, o_port, i_port, arrays>>
    BY <1>4 DEF SetDefaultPortDataTypes, SetDefaultPortDimensionInfo,
                SetWorkWidths, ports
  <2> QED
    BY <2>1, SameBlocks
<1> QED
  BY <1>1, <1>2, <1>3, <1>4 DEF Compile

LEMMA NextLive == Types /\ LiveInv /\ [Next]_vars => LiveInv'
<1> SUFFICES ASSUME Types, LiveInv, [Next]_vars PROVE LiveInv'
  OBVIOUS
<1>1. CASE Getters
  BY <1>1, ConfigLive, PortsLive DEF Getters
<1>2. CASE Rtw
  <2>1. UNCHANGED <<live, config, o_port, i_port, arrays>>
    BY <1>2 DEF Rtw, WriteSdo, WriteSoe, WriteSyncManagers, WriteDc,
       WriteOutputPort, WriteInputPort, WritePort, WritePortsEnd, RtwFails, ports
  <2>2. pc \notin {"refused", "end"} /\ pc' \notin {"refused", "end"}
    BY <1>2 DEF Rtw, WriteSdo, WriteSoe, WriteSyncManagers, WriteDc,
       WriteOutputPort, WriteInputPort, WritePortsEnd, RtwFails, Writing, Fail
  <2> QED
    BY <2>1, <2>2, SameBlocks
<1>3. CASE Terminate
  <2>1. pc \notin {"refused", "end"} /\ pc' = "end" /\ live' = live \ Visited
    BY <1>3 DEF Terminate, Writing
  <2> QED
    BY <2>1, VisitsAre DEF LiveInv
<1>4. CASE UNCHANGED vars
  BY <1>4 DEF vars, config, ports, LiveInv, Blocks, SlaveBlocks, ConfigBlocks,
     ArrayBlocks
<1> QED
  BY <1>1, <1>2, <1>3, <1>4, CompileLive DEF Next

LEMMA InitLive == Init => LiveInv
<1> SUFFICES ASSUME Init PROVE LiveInv
  OBVIOUS
<1>1. SlaveBlocks = {SlaveStruct} /\ ConfigBlocks = {} /\ ArrayBlocks = {}
        /\ BlocksOfPorts("out", o_port) = {} /\ BlocksOfPorts("in", i_port) = {}
  BY NoBlocks DEF Init, SlaveBlocks, ConfigBlocks, ArrayBlocks
<1> QED
  BY <1>1 DEF Init, LiveInv, Blocks

(* Memory: in every state the pointers that slave_mem_op visits lead to    *)
(* the blocks that are allocated, each block from one pointer: what is     *)
(* made persistent is all that mdlRTW needs, and mdlTerminate releases     *)
(* each block once and none that belongs to Matlab.                        *)
THEOREM BlocksOnce == Spec => []EachBlockOnce
<1>1. Init => Types /\ LiveInv
  BY InitTypes, InitLive
<1>2. Types /\ LiveInv /\ [Next]_vars => (Types /\ LiveInv)'
  BY NextTypes, NextLive
<1>3. Types /\ LiveInv => EachBlockOnce
  BY OnceFromLive
<1> QED
  BY <1>1, <1>2, <1>3, PTL DEF Spec

-----------------------------------------------------------------------------
(* Numbers lead home *)

(* The record of a number among s, as in Setting.                          *)
RecordIn(s, n) == IF n + 1 \in DOMAIN s THEN s[n + 1] ELSE [kind |-> "none"]

RowsLeadHome(s, kind, rows, numbers) ==
  /\ Len(numbers) = Len(rows)
  /\ \A i \in 1 .. Len(rows) :
       RecordIn(s, numbers[i]) = [kind |-> kind, row |-> i]

PortLeadsHome(s, dir, k, port, record) ==
  /\ record.kind = "port" /\ record.port = <<dir, k>>
  /\ \A j \in 1 .. 3 :
       IF IsSet(port.spec[j])
       THEN RecordIn(s, record.param[j]) = ParamRecord(dir, k, j)
       ELSE record.param[j] = -1

(* The ports of a direction are written one after the other.               *)
PortsLeadHome(s, dir, p, numbers) ==
  /\ Len(numbers) <= Len(p)
  /\ \A k \in 1 .. Len(numbers) :
       PortLeadsHome(s, dir, k, p[k], RecordIn(s, numbers[k]))

BeforeRtw == Sections \cup {"ports", "rtw sdo"}
SdoWritten == {"rtw soe", "rtw sm", "rtw dc", "rtw out", "rtw in", "written"}
SoeWritten == SdoWritten \ {"rtw soe"}

(* What is written so far leads home.                                      *)
RecordsInv ==
  /\ pc \in SdoWritten => RowsLeadHome(settings, "sdo", sdo, index.sdo)
  /\ pc \in SoeWritten => RowsLeadHome(settings, "soe", soe, index.soe)
  /\ index.dc # -1 => RecordIn(settings, index.dc) = [kind |-> "dc"]
  /\ PortsLeadHome(settings, "out", o_port, index.out)
  /\ PortsLeadHome(settings, "in", i_port, index.in)
  /\ pc \in BeforeRtw => index.out = <<>> /\ index.in = <<>>
  /\ pc \in {"rtw in", "written"} => Len(index.out) = Len(o_port)
  /\ pc = "written" => Len(index.in) = Len(i_port)

Extends(s, t) == Len(s) <= Len(t) /\ \A i \in 1 .. Len(s) : t[i] = s[i]

LEMMA RecordKept ==
  ASSUME NEW s \in Seq(Record), NEW t \in Seq(Record), Extends(s, t), NEW n,
         RecordIn(s, n).kind # "none"
  PROVE  RecordIn(t, n) = RecordIn(s, n)
<1>1. DOMAIN s = 1 .. Len(s) /\ DOMAIN t = 1 .. Len(t)
        /\ Len(s) \in Nat /\ Len(t) \in Nat
  BY LenProperties
<1>2. n + 1 \in 1 .. Len(s)
  BY <1>1 DEF RecordIn
<1>3. n + 1 \in 1 .. Len(t) /\ t[n + 1] = s[n + 1]
  <2>1. \A i \in 1 .. Len(s) : i \in 1 .. Len(t) /\ t[i] = s[i]
    BY <1>1 DEF Extends
  <2> QED
    BY <1>2, <2>1
<1> QED
  BY <1>1, <1>2, <1>3 DEF RecordIn

LEMMA RowsKept ==
  ASSUME NEW s \in Seq(Record), NEW t \in Seq(Record), Extends(s, t),
         NEW kind \in {"sdo", "soe"}, NEW rows, NEW numbers,
         RowsLeadHome(s, kind, rows, numbers)
  PROVE  RowsLeadHome(t, kind, rows, numbers)
<1>1. \A i : [kind |-> kind, row |-> i].kind # "none"
  OBVIOUS
<1>2. \A i \in 1 .. Len(rows) :
        RecordIn(t, numbers[i]) = [kind |-> kind, row |-> i]
  <2> TAKE i \in 1 .. Len(rows)
  <2>1. RecordIn(s, numbers[i]) = [kind |-> kind, row |-> i]
    BY DEF RowsLeadHome
  <2> QED
    BY <1>1, <2>1, RecordKept
<1> QED
  BY <1>2 DEF RowsLeadHome

LEMMA PortsKept ==
  ASSUME NEW s \in Seq(Record), NEW t \in Seq(Record), Extends(s, t),
         NEW dir, NEW p, NEW numbers, PortsLeadHome(s, dir, p, numbers)
  PROVE  PortsLeadHome(t, dir, p, numbers)
<1>1. ASSUME NEW k \in 1 .. Len(numbers)
      PROVE  PortLeadsHome(t, dir, k, p[k], RecordIn(t, numbers[k]))
  <2> DEFINE record == RecordIn(s, numbers[k])
             port   == p[k]
  <2>1. PortLeadsHome(s, dir, k, port, record)
    BY DEF PortsLeadHome
  <2>2. record.kind = "port"
    BY <2>1 DEF PortLeadsHome
  <2>3. RecordIn(t, numbers[k]) = record
    BY <2>2, RecordKept
  <2> HIDE DEF record, port
  <2>4. ASSUME NEW j \in 1 .. 3, IsSet(port.spec[j])
        PROVE  RecordIn(t, record.param[j]) = ParamRecord(dir, k, j)
    <3>1. RecordIn(s, record.param[j]) = ParamRecord(dir, k, j)
      BY <2>1, <2>4 DEF PortLeadsHome
    <3>2. ParamRecord(dir, k, j).kind # "none"
      BY DEF ParamRecord
    <3> QED
      BY <3>1, <3>2, RecordKept
  <2>5. PortLeadsHome(t, dir, k, port, record)
    BY <2>1, <2>4 DEF PortLeadsHome
  <2> QED
    BY <2>3, <2>5 DEF port
<1> QED
  BY <1>1 DEF PortsLeadHome

LEMMA HomeFromRecords == Types /\ RecordsInv => NumbersLeadHome
<1> SUFFICES ASSUME Types, RecordsInv, pc = "written" PROVE NumbersLeadHome
  BY DEF NumbersLeadHome
<1>1. \A n : Setting(n) = RecordIn(settings, n)
  BY DEF Setting, RecordIn
<1>2. RowsLeadHome(settings, "sdo", sdo, index.sdo)
        /\ RowsLeadHome(settings, "soe", soe, index.soe)
        /\ (index.dc # -1 => RecordIn(settings, index.dc) = [kind |-> "dc"])
        /\ PortsLeadHome(settings, "out", o_port, index.out)
        /\ PortsLeadHome(settings, "in", i_port, index.in)
        /\ Len(index.out) = Len(o_port) /\ Len(index.in) = Len(i_port)
  BY DEF RecordsInv, SdoWritten, SoeWritten
<1>3. DOMAIN sdo = 1 .. Len(sdo) /\ DOMAIN soe = 1 .. Len(soe)
        /\ DOMAIN o_port = 1 .. Len(o_port) /\ DOMAIN i_port = 1 .. Len(i_port)
  BY LenProperties DEF Types, ConfigTypes, PortTypes
<1>4. ASSUME NEW dir, NEW p, NEW numbers, PortsLeadHome(settings, dir, p, numbers),
             Len(numbers) = Len(p), DOMAIN p = 1 .. Len(p)
      PROVE  PointsToPorts(dir, p, numbers)
  <2>1. ASSUME NEW k \in DOMAIN p
        PROVE  /\ Setting(numbers[k]).kind = "port"
               /\ Setting(numbers[k]).port = <<dir, k>>
               /\ PointsToParams(dir, k, p[k], Setting(numbers[k]))
    <3>1. PortLeadsHome(settings, dir, k, p[k], Setting(numbers[k]))
      BY <1>1, <1>4 DEF PortsLeadHome
    <3> QED
      BY <1>1, <3>1 DEF PortLeadsHome, PointsToParams, ParamRecord
  <2> QED
    BY <1>4, <2>1 DEF PointsToPorts
<1>5. PointsToPorts("out", o_port, index.out)
        /\ PointsToPorts("in", i_port, index.in)
  BY <1>2, <1>3, <1>4
<1>6. /\ Len(index.sdo) = Len(sdo) /\ Len(index.soe) = Len(soe)
      /\ \A i \in DOMAIN sdo :
           Setting(index.sdo[i]) = [kind |-> "sdo", row |-> i]
      /\ \A i \in DOMAIN soe :
           Setting(index.soe[i]) = [kind |-> "soe", row |-> i]
  BY <1>1, <1>2, <1>3 DEF RowsLeadHome
<1> QED
  BY <1>1, <1>2, <1>5, <1>6 DEF NumbersLeadHome

LEMMA InitRecords == Init => RecordsInv
<1> SUFFICES ASSUME Init PROVE RecordsInv
  OBVIOUS
<1>1. index.dc = -1 /\ index.out = <<>> /\ index.in = <<>>
        /\ o_port = <<>> /\ i_port = <<>> /\ pc = "address"
  BY DEF Init
<1>2. Len(<<>>) <= Len(<<>>) /\ 1 .. Len(<<>>) = {}
  OBVIOUS
<1>3. \A s, dir : PortsLeadHome(s, dir, <<>>, <<>>)
  BY <1>2 DEF PortsLeadHome
<1> QED
  BY <1>1, <1>3 DEF RecordsInv, SdoWritten, SoeWritten

(* Before mdlRTW there are no numbers of ports.                            *)
LEMMA RecordsBefore ==
  ASSUME Types', RecordsInv, UNCHANGED rtw, pc \in BeforeRtw,
         pc' \in BeforeRtw \cup {"refused", "failed"}
  PROVE  RecordsInv'
<1>1. index' = index /\ settings' = settings
        /\ index.out = <<>> /\ index.in = <<>>
  BY DEF RecordsInv, rtw
<1>2. \A s, dir, p : Len(p) \in Nat => PortsLeadHome(s, dir, p, <<>>)
  <2>1. Len(<<>>) = 0 /\ 1 .. Len(<<>>) = {}
    OBVIOUS
  <2> QED
    BY <2>1 DEF PortsLeadHome
<1>3. Len(o_port') \in Nat /\ Len(i_port') \in Nat
  BY LenProperties DEF Types, PortTypes
<1>4. PortsLeadHome(settings', "out", o_port', index'.out)
        /\ PortsLeadHome(settings', "in", i_port', index'.in)
  BY <1>1, <1>2, <1>3
<1>5. pc' \notin SdoWritten /\ pc' \notin {"rtw in", "written"}
  BY DEF BeforeRtw, SdoWritten, Sections
<1> QED
  BY <1>1, <1>4, <1>5 DEF RecordsInv, SoeWritten, SdoWritten

(* The block ends, or Simulink cannot write.                               *)
LEMMA RecordsAfter ==
  ASSUME RecordsInv, UNCHANGED <<config, o_port, i_port, rtw>>,
         pc' \in {"failed", "end"} \/ UNCHANGED pc
  PROVE  RecordsInv'
<1>1. {"failed", "end"} \cap (SdoWritten \cup BeforeRtw) = {}
  BY DEF SdoWritten, BeforeRtw, Sections
<1> QED
  BY <1>1 DEF RecordsInv, SoeWritten, config, rtw, SdoWritten

(* What leads home still does when more is written.                        *)
LEMMA OlderRecords ==
  ASSUME Types, Types', RecordsInv, Extends(settings, settings')
  PROVE  /\ pc \in SdoWritten =>
              RowsLeadHome(settings', "sdo", sdo, index.sdo)
         /\ pc \in SoeWritten =>
              RowsLeadHome(settings', "soe", soe, index.soe)
         /\ index.dc # -1 => RecordIn(settings', index.dc) = [kind |-> "dc"]
         /\ PortsLeadHome(settings', "out", o_port, index.out)
         /\ PortsLeadHome(settings', "in", i_port, index.in)
<1>1. PICK s \in Seq(Record) : s = settings
  BY DEF Types, RtwTypes
<1>2. PICK t \in Seq(Record) : t = settings'
  BY DEF Types, RtwTypes
<1>3. Extends(s, t)
  BY <1>1, <1>2
<1>4. \A kind \in {"sdo", "soe"} : \A rows, numbers :
        RowsLeadHome(s, kind, rows, numbers)
          => RowsLeadHome(t, kind, rows, numbers)
  BY <1>3, RowsKept
<1>5. \A dir, p, numbers : PortsLeadHome(s, dir, p, numbers)
                             => PortsLeadHome(t, dir, p, numbers)
  BY <1>3, PortsKept
<1>6. ASSUME index.dc # -1
      PROVE  RecordIn(t, index.dc) = [kind |-> "dc"]
  <2>1. PICK n : n = index.dc
    OBVIOUS
  <2>2. RecordIn(s, n) = [kind |-> "dc"]
    BY <1>1, <1>6, <2>1 DEF RecordsInv
  <2>3. [kind |-> "dc"].kind # "none"
    OBVIOUS
  <2> QED
    BY <1>3, <2>1, <2>2, <2>3, RecordKept
<1> QED
  BY <1>1, <1>2, <1>4, <1>5, <1>6 DEF RecordsInv

(* The rows of a table are written.                                        *)
LEMMA RowsAreWritten ==
  ASSUME Types, NEW kind \in {"sdo", "soe"}, NEW rows, Len(rows) \in Nat
  PROVE  LET more == settings \o Records(kind, Len(rows)) IN
         /\ Extends(settings, more)
         /\ RowsLeadHome(more, kind, rows, Numbers(Len(rows)))
<1> DEFINE n == Len(rows)
           more == settings \o Records(kind, n)
<1>1. RtwTypes /\ settings \in Seq(Record) /\ Len(settings) \in Nat
        /\ param_idx = Len(settings)
  BY LenProperties DEF Types, RtwTypes
<1>2. /\ more \in Seq(Record) /\ Len(more) = Len(settings) + n
      /\ \A i \in 1 .. Len(settings) : more[i] = settings[i]
      /\ \A i \in 1 .. n :
           more[Len(settings) + i] = [kind |-> kind, row |-> i]
  BY <1>1, RecordsAre
<1> HIDE DEF more
<1>3. Extends(settings, more)
  BY <1>1, <1>2 DEF Extends
<1>4. Len(Numbers(n)) = n /\ \A i \in 1 .. n : Numbers(n)[i] = param_idx + i - 1
  <2>1. \A i \in 1 .. n : Numbers(n)[i] = param_idx + i - 1
    BY DEF Numbers
  <2>2. \A i \in 1 .. n : param_idx + i - 1 \in Int
    BY <1>1
  <2>3. Numbers(n) \in [1 .. n -> Int]
    BY <2>2 DEF Numbers
  <2> QED
    BY <2>1, <2>3, FunctionIsSeq
<1>5. ASSUME NEW i \in 1 .. n
      PROVE  RecordIn(more, Numbers(n)[i]) = [kind |-> kind, row |-> i]
  <2>1. DOMAIN more = 1 .. Len(settings) + n
    BY <1>2, LenProperties
  <2>2. Numbers(n)[i] + 1 = Len(settings) + i
          /\ Len(settings) + i \in 1 .. Len(settings) + n
    BY <1>1, <1>4
  <2> QED
    BY <1>2, <2>1, <2>2 DEF RecordIn
<1> QED
  BY <1>3, <1>4, <1>5 DEF RowsLeadHome, more

LEMMA PortIsWritten ==
  ASSUME Types, NEW dir \in {"out", "in"}, NEW p \in Seq(Port), NEW numbers,
         numbers = index[dir], Len(numbers) < Len(p),
         WritePort(dir, Len(numbers) + 1, p[Len(numbers) + 1])
  PROVE  /\ Extends(settings, settings')
         /\ PortsLeadHome(settings', dir, p, numbers)
              => PortsLeadHome(settings', dir, p, index'[dir])
         /\ \A other \in {"sdo", "soe", "dc", "out", "in"} \ {dir} :
              index'[other] = index[other]
<1> DEFINE k == Len(numbers) + 1
<1>1. RtwTypes /\ numbers \in Seq(Nat) /\ Len(numbers) \in Nat /\ k \in Nat
        /\ Len(p) \in Nat /\ Len(settings) \in Nat
  <2>1. RtwTypes /\ settings \in Seq(Record)
    BY DEF Types, RtwTypes
  <2>2. numbers \in Seq(Nat)
    BY <2>1 DEF RtwTypes
  <2> QED
    BY <2>1, <2>2, LenProperties
<1>2. PICK port : port = p[k]
  OBVIOUS
<1>3. WritePort(dir, k, port)
  BY <1>2
<1> HIDE DEF k
<1>4. PICK number \in [1 .. 3 -> Int], n \in Nat :
        PortIsRecorded(dir, k, port, number, n)
  BY <1>1, <1>3, WritePortIs
<1>5. Extends(settings, settings')
  BY <1>1, <1>4 DEF Extends, PortIsRecorded
<1>6. index'[dir] = Append(numbers, n)
        /\ \A other \in {"sdo", "soe", "dc", "out", "in"} \ {dir} :
             index'[other] = index[other]
  BY <1>1, <1>4 DEF RtwTypes, PortIsRecorded
<1>7. PICK t \in Seq(Record) : t = settings'
  BY <1>4 DEF PortIsRecorded
<1>8. DOMAIN t = 1 .. n + 1
  BY <1>4, <1>7, LenProperties DEF PortIsRecorded
<1>9. PortLeadsHome(t, dir, k, port, RecordIn(t, n))
  <2> DEFINE record == [kind |-> "port", port |-> <<dir, k>>, param |-> number]
  <2>1. RecordIn(t, n) = record
    <3>1. n + 1 \in 1 .. n + 1
      OBVIOUS
    <3> QED
      BY <1>4, <1>7, <1>8, <3>1 DEF RecordIn, PortIsRecorded
  <2>2. record.kind = "port" /\ record.port = <<dir, k>> /\ record.param = number
    OBVIOUS
  <2> HIDE DEF record
  <2>3. ASSUME NEW j \in 1 .. 3, IsSet(port.spec[j])
        PROVE  RecordIn(t, number[j]) = ParamRecord(dir, k, j)
    <3>1. number[j] + 1 \in 1 .. n /\ t[number[j] + 1] = ParamRecord(dir, k, j)
      BY <1>4, <1>7, <2>3 DEF PortIsRecorded
    <3>2. number[j] + 1 \in 1 .. n + 1
      BY <3>1
    <3> QED
      BY <1>8, <3>1, <3>2 DEF RecordIn
  <2> QED
    BY <1>4, <2>1, <2>2, <2>3 DEF PortLeadsHome, PortIsRecorded
<1>10. ASSUME PortsLeadHome(t, dir, p, numbers)
       PROVE  PortsLeadHome(t, dir, p, Append(numbers, n))
  <2> DEFINE more == Append(numbers, n)
  <2>1. Len(more) = Len(numbers) + 1
          /\ (\A i \in 1 .. Len(numbers) : more[i] = numbers[i])
          /\ more[Len(numbers) + 1] = n
    BY <1>1, AppendProperties
  <2> HIDE DEF more
  <2>2. ASSUME NEW i \in 1 .. Len(more)
        PROVE  PortLeadsHome(t, dir, i, p[i], RecordIn(t, more[i]))
    <3>1. CASE i \in 1 .. Len(numbers)
      BY <1>10, <2>1, <3>1 DEF PortsLeadHome
    <3>2. CASE i = k
      BY <1>2, <1>9, <2>1, <3>2 DEF k
    <3> QED
      BY <1>1, <2>1, <3>1, <3>2 DEF k
  <2>3. Len(more) <= Len(p)
    BY <1>1, <2>1
  <2> QED
    BY <2>2, <2>3 DEF PortsLeadHome, more
<1> QED
  BY <1>5, <1>6, <1>7, <1>10

LEMMA RtwRecords == Types /\ Types' /\ RecordsInv /\ Rtw => RecordsInv'
<1> SUFFICES ASSUME Types, Types', RecordsInv, Rtw PROVE RecordsInv'
  OBVIOUS
<1> DEFINE Older ==
      /\ pc \in SdoWritten =>
           RowsLeadHome(settings', "sdo", sdo, index.sdo)
      /\ pc \in SoeWritten =>
           RowsLeadHome(settings', "soe", soe, index.soe)
      /\ index.dc # -1 => RecordIn(settings', index.dc) = [kind |-> "dc"]
      /\ PortsLeadHome(settings', "out", o_port, index.out)
      /\ PortsLeadHome(settings', "in", i_port, index.in)
<1>1. Extends(settings, settings') => Older
  BY OlderRecords
<1> HIDE DEF Older
<1>2. /\ index \in [sdo : Seq(Nat), soe : Seq(Nat), dc : Nat \cup {-1},
                    out : Seq(Nat), in : Seq(Nat)]
      /\ settings \in Seq(Record) /\ Len(settings) \in Nat
      /\ param_idx = Len(settings)
      /\ Len(sdo) \in Nat /\ Len(soe) \in Nat
      /\ o_port \in Seq(Port) /\ i_port \in Seq(Port)
  <2>1. /\ settings \in Seq(Record)
        /\ sdo \in Seq([subindex : -1 .. 255, type : DataType, bytes : Nat])
        /\ soe \in Seq(SoeTaken)
    BY DEF Types, RtwTypes, ConfigTypes
  <2>2. Len(settings) \in Nat /\ Len(sdo) \in Nat /\ Len(soe) \in Nat
    BY <2>1, LenProperties
  <2> QED
    BY <2>1, <2>2 DEF Types, RtwTypes, PortTypes
<1>3. CASE WriteSdo
  <2>1. /\ pc' = "rtw soe" /\ settings' = settings \o Records("sdo", Len(sdo))
        /\ index' = [index EXCEPT !.sdo = Numbers(Len(sdo))]
        /\ UNCHANGED <<config, o_port, i_port>>
    BY <1>3 DEF WriteSdo, ports
  <2>2. /\ Extends(settings, settings')
        /\ RowsLeadHome(settings', "sdo", sdo, Numbers(Len(sdo)))
    BY <1>2, <2>1, RowsAreWritten
  <2>3. index'.sdo = Numbers(Len(sdo)) /\ index'.dc = index.dc
          /\ index'.out = index.out /\ index'.in = index.in
    BY <1>2, <2>1
  <2>4. pc' \notin SoeWritten /\ pc' \notin BeforeRtw
          /\ pc' \notin {"rtw in", "written"}
    BY <2>1 DEF SoeWritten, SdoWritten, BeforeRtw, Sections
  <2> QED
    BY <1>1, <2>1, <2>2, <2>3, <2>4 DEF RecordsInv, Older, config
<1>4. CASE WriteSoe
  <2>1. /\ pc = "rtw soe" /\ pc' = "rtw sm"
        /\ settings' = settings \o Records("soe", Len(soe))
        /\ index' = [index EXCEPT !.soe = Numbers(Len(soe))]
        /\ UNCHANGED <<config, o_port, i_port>>
    BY <1>4 DEF WriteSoe, ports
  <2>2. /\ Extends(settings, settings')
        /\ RowsLeadHome(settings', "soe", soe, Numbers(Len(soe)))
    BY <1>2, <2>1, RowsAreWritten
  <2>3. index'.soe = Numbers(Len(soe)) /\ index'.dc = index.dc
          /\ index'.out = index.out /\ index'.in = index.in
          /\ index'.sdo = index.sdo
    BY <1>2, <2>1
  <2>4. pc \in SdoWritten /\ pc' \notin BeforeRtw
          /\ pc' \notin {"rtw in", "written"}
    BY <2>1 DEF SdoWritten, BeforeRtw, Sections
  <2> QED
    BY <1>1, <2>1, <2>2, <2>3, <2>4 DEF RecordsInv, Older, config
<1>5. CASE WriteSyncManagers
  <2>1. /\ pc = "rtw sm" /\ pc' \in {"rtw dc", "rtw out"}
        /\ UNCHANGED <<config, o_port, i_port, settings, index>>
    BY <1>5 DEF WriteSyncManagers, ports
  <2>2. pc \in SoeWritten /\ pc \in SdoWritten /\ pc' \notin BeforeRtw
          /\ pc' \notin {"rtw in", "written"}
    BY <2>1 DEF SoeWritten, SdoWritten, BeforeRtw, Sections
  <2> QED
    BY <2>1, <2>2 DEF RecordsInv, config
<1>6. CASE WriteDc
  <2>1. /\ pc = "rtw dc" /\ pc' = "rtw out"
        /\ UNCHANGED <<config, o_port, i_port>>
    BY <1>6 DEF WriteDc, ports
  <2>2. pc \in SoeWritten /\ pc \in SdoWritten /\ pc' \notin BeforeRtw
          /\ pc' \notin {"rtw in", "written"}
    BY <2>1 DEF SoeWritten, SdoWritten, BeforeRtw, Sections
  <2>3. CASE UNCHANGED <<settings, index>>
    BY <2>1, <2>2, <2>3 DEF RecordsInv, config
  <2>4. CASE settings' = Append(settings, [kind |-> "dc"])
               /\ index' = [index EXCEPT !.dc = param_idx]
    <3>1. [kind |-> "dc"] \in Record
      BY DEF Record
    <3>2. /\ settings' \in Seq(Record) /\ Len(settings') = Len(settings) + 1
          /\ \A i \in 1 .. Len(settings) : settings'[i] = settings[i]
          /\ settings'[Len(settings) + 1] = [kind |-> "dc"]
      BY <1>2, <2>4, <3>1, AppendProperties
    <3>3. Extends(settings, settings')
      BY <1>2, <3>2 DEF Extends
    <3>4. RecordIn(settings', param_idx) = [kind |-> "dc"]
      <4>1. DOMAIN settings' = 1 .. Len(settings) + 1
        BY <3>2, LenProperties
      <4>2. param_idx + 1 \in 1 .. Len(settings) + 1
        BY <1>2
      <4> QED
        BY <1>2, <3>2, <4>1, <4>2 DEF RecordIn
    <3>5. index'.dc = param_idx /\ index'.sdo = index.sdo
            /\ index'.soe = index.soe
            /\ index'.out = index.out /\ index'.in = index.in
      BY <1>2, <2>4
    <3> QED
      BY <1>1, <2>1, <2>2, <3>3, <3>4, <3>5 DEF RecordsInv, Older, config
  <2> QED
    BY <1>6, <2>3, <2>4 DEF WriteDc
<1>7. CASE WriteOutputPort
  <2>1. /\ pc = "rtw out" /\ pc' = pc /\ Len(index.out) < Len(o_port)
        /\ WritePort("out", Len(index.out) + 1, o_port[Len(index.out) + 1])
        /\ UNCHANGED <<config, o_port, i_port>>
    BY <1>7 DEF WriteOutputPort, WritePort, ports
  <2>2. PICK numbers : numbers = index.out
    OBVIOUS
  <2>3. PICK p \in Seq(Port) : p = o_port
    BY <1>2
  <2>4. /\ Extends(settings, settings')
        /\ PortsLeadHome(settings', "out", p, numbers)
             => PortsLeadHome(settings', "out", p, index'["out"])
        /\ \A other \in {"sdo", "soe", "dc", "out", "in"} \ {"out"} :
             index'[other] = index[other]
    <3>1. numbers = index["out"] /\ Len(numbers) < Len(p)
            /\ WritePort("out", Len(numbers) + 1, p[Len(numbers) + 1])
      BY <2>1, <2>2, <2>3
    <3> QED
      BY <3>1, PortIsWritten
  <2>5. index'.sdo = index.sdo /\ index'.soe = index.soe
          /\ index'.dc = index.dc /\ index'.in = index.in
    BY <2>4
  <2>6. pc \in SoeWritten /\ pc \in SdoWritten /\ pc' \notin BeforeRtw
          /\ pc' \notin {"rtw in", "written"}
    BY <2>1 DEF SoeWritten, SdoWritten, BeforeRtw, Sections
  <2>7. PortsLeadHome(settings', "out", o_port, index'.out)
    BY <1>1, <2>2, <2>3, <2>4 DEF Older
  <2> QED
    BY <1>1, <2>1, <2>4, <2>5, <2>6, <2>7 DEF RecordsInv, Older, config
<1>8. CASE WriteInputPort
  <2>1. /\ pc = "rtw in" /\ pc' = pc /\ Len(index.in) < Len(i_port)
        /\ WritePort("in", Len(index.in) + 1, i_port[Len(index.in) + 1])
        /\ UNCHANGED <<config, o_port, i_port>>
    BY <1>8 DEF WriteInputPort, WritePort, ports
  <2>2. PICK numbers : numbers = index.in
    OBVIOUS
  <2>3. PICK p \in Seq(Port) : p = i_port
    BY <1>2
  <2>4. /\ Extends(settings, settings')
        /\ PortsLeadHome(settings', "in", p, numbers)
             => PortsLeadHome(settings', "in", p, index'["in"])
        /\ \A other \in {"sdo", "soe", "dc", "out", "in"} \ {"in"} :
             index'[other] = index[other]
    <3>1. numbers = index["in"] /\ Len(numbers) < Len(p)
            /\ WritePort("in", Len(numbers) + 1, p[Len(numbers) + 1])
      BY <2>1, <2>2, <2>3
    <3> QED
      BY <3>1, PortIsWritten
  <2>5. index'.sdo = index.sdo /\ index'.soe = index.soe
          /\ index'.dc = index.dc /\ index'.out = index.out
    BY <2>4
  <2>6. pc \in SoeWritten /\ pc \in SdoWritten /\ pc' \notin BeforeRtw
          /\ pc' # "written"
    BY <2>1 DEF SoeWritten, SdoWritten, BeforeRtw, Sections
  <2>7. PortsLeadHome(settings', "in", i_port, index'.in)
    BY <1>1, <2>2, <2>3, <2>4 DEF Older
  <2> QED
    BY <1>1, <2>1, <2>4, <2>5, <2>6, <2>7 DEF RecordsInv, Older, config
<1>9. CASE WritePortsEnd
  <2>1. /\ UNCHANGED <<config, o_port, i_port, rtw>>
        /\ \/ pc = "rtw out" /\ Len(index.out) = Len(o_port) /\ pc' = "rtw in"
           \/ pc = "rtw in" /\ Len(index.in) = Len(i_port) /\ pc' = "written"
    BY <1>9 DEF WritePortsEnd, ports
  <2>2. pc \in SoeWritten /\ pc \in SdoWritten /\ pc' \notin BeforeRtw
    BY <2>1 DEF SoeWritten, SdoWritten, BeforeRtw, Sections
  <2> QED
    BY <2>1, <2>2 DEF RecordsInv, config, rtw
<1>10. CASE RtwFails
  <2>1. UNCHANGED <<config, o_port, i_port, rtw>> /\ pc' = "failed"
    BY <1>10 DEF RtwFails, Fail, ports
  <2> QED
    BY <2>1, RecordsAfter
<1> QED
  BY <1>3, <1>4, <1>5, <1>6, <1>7, <1>8, <1>9, <1>10 DEF Rtw

LEMMA NextRecords ==
  Types /\ Types' /\ RecordsInv /\ [Next]_vars => RecordsInv'
<1> SUFFICES ASSUME Types, Types', RecordsInv, [Next]_vars PROVE RecordsInv'
  OBVIOUS
<1>1. CASE Getters
  <2>1. CASE Refuse /\ pc \in BeforeRtw
    BY <2>1, RecordsBefore DEF Refuse
  <2>2. pc \in BeforeRtw
    BY <1>1 DEF Getters, GetSlaveInfo, GetSlaveSdo, GetSlaveSoe, GetSlaveDc,
       GetSyncManagers, GetParameterConfig, GetOutputPorts, GetInputPorts,
       GetPorts, BeforeRtw, Sections
  <2>3. CASE GetOutputPorts \/ GetInputPorts
    <3>1. PICK output \in BOOLEAN :
            IF output THEN GetOutputPorts ELSE GetInputPorts
      BY <2>3
    <3>2. CASE PortsAreRead(output)
      <4>1. UNCHANGED rtw /\ pc' \in BeforeRtw
        BY <3>2 DEF PortsAreRead, BeforeRtw, Sections
      <4> QED
        BY <2>2, <4>1, RecordsBefore
    <3>3. ASSUME NEW form, PortIsRead(form, output) PROVE RecordsInv'
      <4>1. UNCHANGED rtw /\ pc' \in BeforeRtw
        BY <2>2, <3>3 DEF PortIsRead
      <4> QED
        BY <2>2, <4>1, RecordsBefore
    <3> QED
      BY <2>1, <2>2, <3>1, <3>2, <3>3, GetPortsIs
  <2>4. CASE ~Refuse /\ ~GetOutputPorts /\ ~GetInputPorts
    <3>1. UNCHANGED rtw /\ pc' \in BeforeRtw
      BY <1>1, <2>4 DEF Getters, GetSlaveInfo, GetSlaveSdo, GetSlaveSoe,
         GetSlaveDc, GetSyncManagers, GetParameterConfig, BeforeRtw, Sections
    <3> QED
      BY <2>2, <3>1, RecordsBefore
  <2> QED
    BY <2>1, <2>2, <2>3, <2>4
<1>2. CASE Compile
  <2>1. pc \in BeforeRtw /\ UNCHANGED rtw
          /\ pc' \in BeforeRtw \cup {"refused", "failed"}
    <3>1. CASE InitializeSizes
      BY <3>1 DEF InitializeSizes, Refuse, BeforeRtw, Sections
    <3>2. ASSUME NEW p, NEW id, SetInputPortDataType(p, id)
          PROVE  pc = "ports" /\ UNCHANGED rtw /\ pc' \in {"ports", "failed"}
      BY <3>2 DEF SetInputPortDataType, Fail
    <3>3. ASSUME NEW p, NEW width, SetInputPortWidth(p, width)
          PROVE  pc = "ports" /\ UNCHANGED rtw /\ pc' \in {"ports", "failed"}
      BY <3>3 DEF SetInputPortWidth, Fail
    <3>4. CASE SetDefaultPortDataTypes \/ SetDefaultPortDimensionInfo
                 \/ SetWorkWidths
      BY <3>4 DEF SetDefaultPortDataTypes, SetDefaultPortDimensionInfo,
         SetWorkWidths, BeforeRtw
    <3> QED
      BY <1>2, <3>1, <3>2, <3>3, <3>4 DEF Compile, BeforeRtw
  <2> QED
    BY <2>1, RecordsBefore
<1>3. CASE Terminate
  BY <1>3, RecordsAfter DEF Terminate, ports
<1>4. CASE UNCHANGED vars
  BY <1>4, RecordsAfter DEF vars, ports
<1> QED
  BY <1>1, <1>2, <1>3, <1>4, RtwRecords DEF Next

(* The .rtw file: each number in its vectors leads to the record for which *)
(* it was written, of a row, of the clocks or of a port, and from the      *)
(* record of a port to those of its gain, offset and filter. The generator *)
(* finds the configuration of the slave by these numbers only.             *)
THEOREM NumbersLead == Spec => []NumbersLeadHome
<1>1. Init => Types /\ RecordsInv
  BY InitTypes, InitRecords
<1>2. Types /\ RecordsInv /\ [Next]_vars => (Types /\ RecordsInv)'
  BY NextTypes, NextRecords
<1>3. Types /\ RecordsInv => NumbersLeadHome
  BY HomeFromRecords
<1> QED
  BY <1>1, <1>2, <1>3, PTL DEF Spec

-----------------------------------------------------------------------------
(* Run-time parameters *)

Names == {"out", "in"} \X Nat \X (1 .. 3)
Elements(s) == {s[i] : i \in 1 .. Len(s)}
Distinct(s) == \A i, j \in 1 .. Len(s) : s[i] = s[j] => i = j

LEMMA DistinctConcat ==
  ASSUME NEW X, NEW a \in Seq(X), NEW b \in Seq(X), Distinct(a), Distinct(b),
         Elements(a) \cap Elements(b) = {}
  PROVE  /\ a \o b \in Seq(X) /\ Len(a \o b) = Len(a) + Len(b)
         /\ Distinct(a \o b) /\ Elements(a \o b) = Elements(a) \cup Elements(b)
<1> DEFINE c == a \o b
<1>1. /\ c \in Seq(X) /\ Len(c) = Len(a) + Len(b)
      /\ \A i \in 1 .. Len(a) + Len(b) :
           c[i] = IF i <= Len(a) THEN a[i] ELSE b[i - Len(a)]
      /\ Len(a) \in Nat /\ Len(b) \in Nat
  BY ConcatProperties, LenProperties
<1> HIDE DEF c
<1>2. \A i \in 1 .. Len(a) : i \in 1 .. Len(c) /\ c[i] = a[i]
  <2>1. \A i \in 1 .. Len(a) : i \in 1 .. Len(a) + Len(b) /\ i <= Len(a)
    BY <1>1
  <2> QED
    BY <1>1, <2>1
<1>3. \A i \in 1 .. Len(b) : /\ Len(a) + i \in 1 .. Len(c)
                             /\ c[Len(a) + i] = b[i]
  <2>1. \A i \in 1 .. Len(b) : /\ Len(a) + i \in 1 .. Len(a) + Len(b)
                               /\ ~(Len(a) + i <= Len(a))
                               /\ (Len(a) + i) - Len(a) = i
    BY <1>1
  <2> QED
    BY <1>1, <2>1
<1>4. \A i \in 1 .. Len(c) : i \in 1 .. Len(a)
        \/ \E l \in 1 .. Len(b) : i = Len(a) + l
  <2> TAKE i \in 1 .. Len(c)
  <2>1. i \in 1 .. Len(a) \/ (i - Len(a) \in 1 .. Len(b)
                                /\ i = Len(a) + (i - Len(a)))
    BY <1>1
  <2> QED
    BY <2>1
<1>5. \A i \in 1 .. Len(a), j \in 1 .. Len(b) : a[i] # b[j]
  BY DEF Elements
<1>6. Distinct(c)
  <2> SUFFICES ASSUME NEW i \in 1 .. Len(c), NEW j \in 1 .. Len(c), c[i] = c[j]
               PROVE  i = j
    BY DEF Distinct
  <2>1. CASE i \in 1 .. Len(a) /\ j \in 1 .. Len(a)
    BY <1>2, <2>1 DEF Distinct
  <2>2. ASSUME NEW l \in 1 .. Len(b), NEW m \in 1 .. Len(b),
               i = Len(a) + l, j = Len(a) + m
        PROVE  i = j
    BY <1>3, <2>2 DEF Distinct
  <2>3. ASSUME NEW l \in 1 .. Len(b), i \in 1 .. Len(a), j = Len(a) + l
        PROVE  FALSE
    BY <1>2, <1>3, <1>5, <2>3
  <2>4. ASSUME NEW l \in 1 .. Len(b), j \in 1 .. Len(a), i = Len(a) + l
        PROVE  FALSE
    BY <1>2, <1>3, <1>5, <2>4
  <2> QED
    BY <1>4, <2>1, <2>2, <2>3, <2>4
<1>7. Elements(c) = Elements(a) \cup Elements(b)
  <2>1. \A x \in Elements(c) : x \in Elements(a) \/ x \in Elements(b)
    <3> TAKE x \in Elements(c)
    <3>1. PICK i \in 1 .. Len(c) : x = c[i]
      BY DEF Elements
    <3>2. CASE i \in 1 .. Len(a)
      BY <1>2, <3>1, <3>2 DEF Elements
    <3>3. ASSUME NEW l \in 1 .. Len(b), i = Len(a) + l
          PROVE  x \in Elements(b)
      BY <1>3, <3>1, <3>3 DEF Elements
    <3> QED
      BY <1>4, <3>2, <3>3
  <2>2. \A x : x \in Elements(a) \/ x \in Elements(b) => x \in Elements(c)
    BY <1>2, <1>3 DEF Elements
  <2> QED
    BY <2>1, <2>2
<1> QED
  BY <1>1, <1>6, <1>7 DEF c

LEMMA DistinctFlatten ==
  ASSUME NEW X, NEW s \in Seq(Seq(X)),
         \A k \in 1 .. Len(s) : Distinct(s[k]),
         \A k, l \in 1 .. Len(s) : k # l => Elements(s[k]) \cap Elements(s[l]) = {}
  PROVE  /\ Distinct(FlattenSeq(s))
         /\ \A x \in Elements(FlattenSeq(s)) :
              \E k \in 1 .. Len(s) : x \in Elements(s[k])
<1>1. PICK f \in [0 .. Len(s) -> Seq(X)] :
        /\ f[0] = <<>> /\ \A i \in 1 .. Len(s) : f[i] = f[i - 1] \o s[i]
        /\ FlattenSeq(s) = f[Len(s)]
  BY FlattenIs
<1> DEFINE Good(i) == /\ Distinct(f[i])
                      /\ \A x \in Elements(f[i]) :
                           \E k \in 1 .. i : x \in Elements(s[k])
           S == {i \in Nat : i <= Len(s) => Good(i)}
<1>2. Len(s) \in Nat /\ \A i \in 1 .. Len(s) : s[i] \in Seq(X)
  BY LenProperties, ElementOfSeq
<1>3. 0 \in S
  <2>1. 1 .. Len(<<>>) = {}
    OBVIOUS
  <2>2. Distinct(<<>>) /\ Elements(<<>>) = {}
    BY <2>1 DEF Distinct, Elements
  <2> QED
    BY <1>1, <2>2
<1>4. ASSUME NEW i \in Nat, i \in S PROVE i + 1 \in S
  <2> SUFFICES ASSUME i + 1 <= Len(s) PROVE Good(i + 1)
    BY <1>4
  <2>1. i + 1 \in 1 .. Len(s) /\ (i + 1) - 1 = i /\ i \in 0 .. Len(s) /\ i <= Len(s)
    BY <1>2, <1>4
  <2>2. Good(i) /\ f[i] \in Seq(X) /\ s[i + 1] \in Seq(X)
    BY <1>2, <1>4, <2>1
  <2>3. f[i + 1] = f[i] \o s[i + 1]
    BY <1>1, <2>1
  <2>4. \A k \in 1 .. i : k \in 1 .. Len(s) /\ k # i + 1 /\ k \in 1 .. i + 1
    BY <2>1
  <2>5. Elements(f[i]) \cap Elements(s[i + 1]) = {}
    BY <2>1, <2>2, <2>4
  <2>6. Distinct(s[i + 1])
    BY <2>1
  <2>7. PICK a \in Seq(X), b \in Seq(X) : a = f[i] /\ b = s[i + 1]
    BY <2>2
  <2>8. Distinct(a \o b) /\ Elements(a \o b) = Elements(a) \cup Elements(b)
    BY <2>2, <2>5, <2>6, <2>7, DistinctConcat
  <2>9. i + 1 \in 1 .. i + 1
    BY <2>1
  <2> QED
    BY <2>2, <2>3, <2>4, <2>7, <2>8, <2>9
<1>5. Nat \subseteq S
  <2> HIDE DEF S
  <2> QED
    BY <1>3, <1>4, Induct
<1>6. Good(Len(s))
  <2>1. Len(s) \in S /\ Len(s) <= Len(s)
    <3> HIDE DEF S
    <3> QED
      BY <1>2, <1>5
  <2> HIDE DEF Good
  <2> QED
    BY <2>1
<1> QED
  BY <1>1, <1>6

(* The run-time parameters of one port.                                    *)
OwnParams(dir, k, port) ==
  FlattenSeq([j \in 1 .. 3 |-> IF IsRunTime(port.spec[j])
                               THEN <<<<dir, k, j>>>> ELSE <<>>])

LEMMA CardinalityOfThree ==
  ASSUME NEW S \in SUBSET (1 .. 3)
  PROVE  Cardinality(S) = ((IF 1 \in S THEN 1 ELSE 0) + (IF 2 \in S THEN 1 ELSE 0))
                            + (IF 3 \in S THEN 1 ELSE 0)
<1> DEFINE n(j) == IF j \in S THEN 1 ELSE 0
           part(j) == IF j \in S THEN {j} ELSE {}
<1>1. \A T, x : IsFiniteSet(T) /\ x \notin T =>
        /\ Cardinality(T \cup {x}) = Cardinality(T) + 1
        /\ IsFiniteSet(T \cup {x})
  BY FS_AddElement
<1>2. \A T, j : IsFiniteSet(T) /\ Cardinality(T) \in Nat /\ j \notin T =>
        /\ Cardinality(T \cup part(j)) = Cardinality(T) + n(j)
        /\ IsFiniteSet(T \cup part(j))
  <2> TAKE T, j
  <2> HAVE IsFiniteSet(T) /\ Cardinality(T) \in Nat /\ j \notin T
  <2>1. CASE j \in S
    <3>1. part(j) = {j} /\ n(j) = 1
      BY <2>1
    <3> QED
      BY <1>1, <3>1
  <2>2. CASE j \notin S
    <3>1. T \cup part(j) = T /\ n(j) = 0
      BY <2>2
    <3> QED
      BY <3>1
  <2> QED
    BY <2>1, <2>2
<1>3. Cardinality({}) = 0 /\ IsFiniteSet({})
  BY FS_EmptySet
<1>4. (part(1) \cup part(2)) \cup part(3) = S
  <2>1. \A x \in S : x = 1 \/ x = 2 \/ x = 3
    OBVIOUS
  <2> QED
    BY <2>1
<1>5. 2 \notin part(1) /\ 3 \notin part(1) \cup part(2)
  OBVIOUS
<1>6. Cardinality(part(1)) = n(1) /\ IsFiniteSet(part(1))
  BY <1>3, FS_Singleton
<1>7. n(1) \in Nat /\ n(2) \in Nat /\ n(3) \in Nat
  OBVIOUS
<1> HIDE DEF part, n
<1>8. Cardinality(part(1) \cup part(2)) = n(1) + n(2)
        /\ IsFiniteSet(part(1) \cup part(2))
  BY <1>2, <1>5, <1>6, <1>7
<1>9. PICK T : T = part(1) \cup part(2)
  OBVIOUS
<1>10. Cardinality(T \cup part(3)) = Cardinality(T) + n(3)
  <2>1. IsFiniteSet(T) /\ Cardinality(T) \in Nat /\ 3 \notin T
    BY <1>5, <1>7, <1>8, <1>9
  <2> QED
    BY <1>2, <2>1
<1> QED
  BY <1>4, <1>8, <1>9, <1>10 DEF n

LEMMA OwnParamsAre ==
  ASSUME NEW dir \in {"out", "in"}, NEW k \in Nat, NEW port
  PROVE  LET params == OwnParams(dir, k, port) IN
         /\ params \in Seq(Names) /\ Len(params) = Cardinality(Named(port))
         /\ Distinct(params)
         /\ \A x \in Elements(params) : x[1] = dir /\ x[2] = k
<1> DEFINE s == [j \in 1 .. 3 |-> IF IsRunTime(port.spec[j])
                                  THEN <<<<dir, k, j>>>> ELSE <<>>]
           n(j) == IF j \in Named(port) THEN 1 ELSE 0
           own(j) == IF j \in Named(port) THEN {<<dir, k, j>>} ELSE {}
<1>1. \A j \in 1 .. 3 : /\ s[j] \in Seq(Names) /\ Len(s[j]) = n(j)
                        /\ Elements(s[j]) = own(j) /\ Distinct(s[j])
  <2> TAKE j \in 1 .. 3
  <2>1. CASE j \in Named(port)
    <3>1. s[j] = <<<<dir, k, j>>>>
      BY <2>1 DEF Named, IsRunTime
    <3>2. PICK x : x = <<dir, k, j>>
      OBVIOUS
    <3>3. x \in Names
      BY <3>2 DEF Names
    <3>4. <<x>> \in Seq(Names) /\ Len(<<x>>) = 1 /\ <<x>>[1] = x
      BY <3>3
    <3>5. Elements(<<x>>) = {x} /\ Distinct(<<x>>)
      <4>1. 1 .. 1 = {1}
        OBVIOUS
      <4> QED
        BY <3>4, <4>1 DEF Elements, Distinct
    <3> HIDE DEF s
    <3> QED
      BY <2>1, <3>1, <3>2, <3>4, <3>5
  <2>2. CASE j \notin Named(port)
    <3>1. s[j] = <<>>
      BY <2>2 DEF Named, IsRunTime
    <3>2. Len(<<>>) = 0 /\ 1 .. 0 = {}
      OBVIOUS
    <3>3. Elements(<<>>) = {} /\ Distinct(<<>>)
      BY <3>2 DEF Elements, Distinct
    <3> HIDE DEF s
    <3> QED
      BY <2>2, <3>1, <3>2, <3>3, EmptySeq
  <2> QED
    BY <2>1, <2>2
<1>2. s \in [1 .. 3 -> Seq(Names)]
  <2>1. s = [j \in 1 .. 3 |-> s[j]]
    OBVIOUS
  <2> HIDE DEF s
  <2> QED
    BY <1>1, <2>1
<1>3. OwnParams(dir, k, port) = FlattenSeq(s)
  BY DEF OwnParams
<1> HIDE DEF s
<1>4. FlattenSeq(s) = (s[1] \o s[2]) \o s[3]
  BY <1>2, FlattenOfThree
<1>5. own(1) \cap own(2) = {} /\ (own(1) \cup own(2)) \cap own(3) = {}
        /\ \A x \in (own(1) \cup own(2)) \cup own(3) : x[1] = dir /\ x[2] = k
  OBVIOUS
<1>6. /\ s[1] \in Seq(Names) /\ Len(s[1]) = n(1) /\ Elements(s[1]) = own(1)
      /\ s[2] \in Seq(Names) /\ Len(s[2]) = n(2) /\ Elements(s[2]) = own(2)
      /\ s[3] \in Seq(Names) /\ Len(s[3]) = n(3) /\ Elements(s[3]) = own(3)
      /\ Distinct(s[1]) /\ Distinct(s[2]) /\ Distinct(s[3])
  BY <1>1
<1> HIDE DEF own
<1>7. PICK a \in Seq(Names), b \in Seq(Names), c \in Seq(Names) :
        a = s[1] /\ b = s[2] /\ c = s[3]
  BY <1>6
<1>8. /\ a \o b \in Seq(Names) /\ Len(a \o b) = n(1) + n(2)
      /\ Distinct(a \o b) /\ Elements(a \o b) = own(1) \cup own(2)
  <2>1. Distinct(a) /\ Distinct(b) /\ Elements(a) \cap Elements(b) = {}
          /\ Elements(a) = own(1) /\ Elements(b) = own(2)
          /\ Len(a) = n(1) /\ Len(b) = n(2)
    BY <1>5, <1>6, <1>7
  <2>3. Distinct(a) /\ Distinct(b) /\ Elements(a) \cap Elements(b) = {}
    BY <2>1
  <2>2. /\ a \o b \in Seq(Names) /\ Len(a \o b) = Len(a) + Len(b)
        /\ Distinct(a \o b)
        /\ Elements(a \o b) = Elements(a) \cup Elements(b)
    BY <2>3, DistinctConcat
  <2> QED
    BY <2>1, <2>2
<1>9. PICK ab \in Seq(Names) : ab = a \o b
  BY <1>8
<1>10. /\ ab \o c \in Seq(Names) /\ Len(ab \o c) = (n(1) + n(2)) + n(3)
       /\ Distinct(ab \o c)
       /\ Elements(ab \o c) = (own(1) \cup own(2)) \cup own(3)
  <2>1. Distinct(ab) /\ Distinct(c) /\ Elements(ab) \cap Elements(c) = {}
          /\ Elements(ab) = own(1) \cup own(2) /\ Elements(c) = own(3)
          /\ Len(ab) = n(1) + n(2) /\ Len(c) = n(3)
    BY <1>5, <1>6, <1>7, <1>8, <1>9
  <2>2. /\ ab \o c \in Seq(Names) /\ Len(ab \o c) = Len(ab) + Len(c)
        /\ Distinct(ab \o c)
        /\ Elements(ab \o c) = Elements(ab) \cup Elements(c)
    <3>1. \A u, v \in Seq(Names) :
            Distinct(u) /\ Distinct(v) /\ Elements(u) \cap Elements(v) = {} =>
              /\ u \o v \in Seq(Names) /\ Len(u \o v) = Len(u) + Len(v)
              /\ Distinct(u \o v)
              /\ Elements(u \o v) = Elements(u) \cup Elements(v)
      BY DistinctConcat
    <3> QED
      BY <2>1, <3>1
  <2> QED
    BY <2>1, <2>2
<1>11. Cardinality(Named(port)) = (n(1) + n(2)) + n(3)
  BY CardinalityOfThree DEF Named
<1> QED
  BY <1>3, <1>4, <1>5, <1>7, <1>9, <1>10, <1>11

(* A function of the ports, as a sequence: one more port is one more value. *)
LEMMA MappedMore ==
  ASSUME NEW S, NEW p \in Seq(Port), NEW port \in Port, NEW more,
         more = Append(p, port), NEW f \in Seq(S), NEW g, NEW x \in S,
         Len(f) = Len(p), DOMAIN g = 1 .. Len(more),
         \A k \in 1 .. Len(p) : g[k] = f[k], g[Len(p) + 1] = x,
         g = [k \in DOMAIN g |-> g[k]]
  PROVE  g = Append(f, x)
<1>1. Len(p) \in Nat /\ Len(more) = Len(p) + 1
  BY AppendProperties, LenProperties
<1>2. /\ Append(f, x) \in Seq(S) /\ Len(Append(f, x)) = Len(f) + 1
      /\ \A k \in 1 .. Len(f) : Append(f, x)[k] = f[k]
      /\ Append(f, x)[Len(f) + 1] = x
  BY AppendProperties
<1>3. PICK h \in Seq(S) : h = Append(f, x)
  BY <1>2
<1>4. DOMAIN h = 1 .. Len(p) + 1 /\ h = [k \in DOMAIN h |-> h[k]]
  BY <1>2, <1>3, LenProperties, SeqDef
<1>5. \A k \in 1 .. Len(p) + 1 : h[k] = g[k]
  <2>1. \A k \in 1 .. Len(p) + 1 : k \in 1 .. Len(p) \/ k = Len(p) + 1
    BY <1>1
  <2> QED
    BY <1>2, <1>3, <2>1
<1>6. g = h
  BY <1>1, <1>4, <1>5
<1> QED
  BY <1>3, <1>6

ParamsOfEach(dir, p) == [k \in 1 .. Len(p) |-> OwnParams(dir, k, p[k])]

LEMMA ParamsOfEachAre ==
  ASSUME NEW dir \in {"out", "in"}, NEW p \in Seq(Port)
  PROVE  /\ ParamsOfEach(dir, p) \in Seq(Seq(Names))
         /\ Len(ParamsOfEach(dir, p)) = Len(p)
         /\ PortParams(dir, p) = FlattenSeq(ParamsOfEach(dir, p))
<1>1. Len(p) \in Nat
  BY LenProperties
<1>2. ASSUME NEW k \in 1 .. Len(p) PROVE OwnParams(dir, k, p[k]) \in Seq(Names)
  <2>1. k \in Nat
    BY <1>1
  <2> QED
    BY <2>1, OwnParamsAre
<1>3. ParamsOfEach(dir, p) \in [1 .. Len(p) -> Seq(Names)]
  BY <1>2 DEF ParamsOfEach
<1>4. ParamsOfEach(dir, p) \in Seq(Seq(Names))
        /\ Len(ParamsOfEach(dir, p)) = Len(p)
  BY <1>1, <1>3, FunctionIsSeq
<1>5. PortParams(dir, p) = FlattenSeq(ParamsOfEach(dir, p))
  BY DEF PortParams, ParamsOfEach, OwnParams
<1> QED
  BY <1>4, <1>5

LEMMA PortParamsAre ==
  ASSUME NEW dir \in {"out", "in"}, NEW p \in Seq(Port)
  PROVE  /\ PortParams(dir, p) \in Seq(Names) /\ Distinct(PortParams(dir, p))
         /\ \A x \in Elements(PortParams(dir, p)) : x[1] = dir
<1> DEFINE s == ParamsOfEach(dir, p)
<1>1. s \in Seq(Seq(Names)) /\ Len(s) = Len(p)
        /\ PortParams(dir, p) = FlattenSeq(s)
  BY ParamsOfEachAre
<1>2. ASSUME NEW k \in 1 .. Len(p)
      PROVE  /\ Distinct(s[k])
             /\ \A x \in Elements(s[k]) : x[1] = dir /\ x[2] = k
  <2>1. k \in Nat
    BY LenProperties
  <2>2. s[k] = OwnParams(dir, k, p[k])
    BY DEF ParamsOfEach
  <2> QED
    BY <2>1, <2>2, OwnParamsAre
<1> HIDE DEF s
<1>3. \A k, l \in 1 .. Len(s) :
        k # l => Elements(s[k]) \cap Elements(s[l]) = {}
  <2> SUFFICES ASSUME NEW k \in 1 .. Len(s), NEW l \in 1 .. Len(s), k # l,
                      NEW x \in Elements(s[k]), x \in Elements(s[l])
               PROVE  FALSE
    OBVIOUS
  <2>1. k \in 1 .. Len(p) /\ l \in 1 .. Len(p)
    BY <1>1
  <2>2. x[2] = k /\ x[2] = l
    BY <1>2, <2>1
  <2> QED
    BY <2>2
<1>4. \A k \in 1 .. Len(s) : Distinct(s[k])
  BY <1>1, <1>2
<1>5. /\ Distinct(FlattenSeq(s))
      /\ \A x \in Elements(FlattenSeq(s)) :
           \E k \in 1 .. Len(s) : x \in Elements(s[k])
  BY <1>1, <1>3, <1>4, DistinctFlatten
<1>6. FlattenSeq(s) \in Seq(Names)
  BY <1>1, FlattenType
<1> QED
  BY <1>1, <1>2, <1>5, <1>6

LEMMA ParamsOfMore ==
  ASSUME NEW dir \in {"out", "in"}, NEW p \in Seq(Port), NEW port \in Port
  PROVE  /\ Len(PortParams(dir, Append(p, port)))
              = Len(PortParams(dir, p)) + Cardinality(Named(port))
         /\ Len(PortParams(dir, p)) \in Nat
<1>1. PICK more \in Seq(Port) : more = Append(p, port)
  BY AppendProperties
<1>2. Len(p) \in Nat /\ Len(more) = Len(p) + 1
        /\ (\A k \in 1 .. Len(p) : more[k] = p[k]) /\ more[Len(p) + 1] = port
  BY <1>1, AppendProperties, LenProperties
<1>3. PICK f \in Seq(Seq(Names)) : f = ParamsOfEach(dir, p)
  BY ParamsOfEachAre
<1>4. PICK g \in Seq(Seq(Names)) : g = ParamsOfEach(dir, more)
  BY ParamsOfEachAre
<1>5. PICK x \in Seq(Names) : x = OwnParams(dir, Len(p) + 1, port)
  BY <1>2, OwnParamsAre
<1>6. Len(x) = Cardinality(Named(port)) /\ Len(x) \in Nat
  BY <1>2, <1>5, OwnParamsAre, LenProperties
<1>7. g = Append(f, x)
  <2>1. Len(f) = Len(p) /\ DOMAIN g = 1 .. Len(more)
          /\ g = [k \in DOMAIN g |-> g[k]]
    BY <1>3, <1>4, ParamsOfEachAre DEF ParamsOfEach
  <2>2. \A k \in 1 .. Len(p) : g[k] = f[k]
    <3>1. \A k \in 1 .. Len(p) : k \in 1 .. Len(more)
      BY <1>2
    <3> QED
      BY <1>2, <1>3, <1>4, <3>1 DEF ParamsOfEach
  <2>3. g[Len(p) + 1] = x
    <3>1. Len(p) + 1 \in 1 .. Len(more)
      BY <1>2
    <3> QED
      BY <1>2, <1>4, <1>5, <3>1 DEF ParamsOfEach
  <2>4. PICK S : S = Seq(Names)
    OBVIOUS
  <2>5. f \in Seq(S) /\ x \in S
    BY <2>4
  <2> QED
    BY <1>1, <2>1, <2>2, <2>3, <2>5, MappedMore
<1>8. FlattenSeq(g) = FlattenSeq(f) \o x
  BY <1>7, FlattenOfMore
<1>9. PICK flat \in Seq(Names) : flat = FlattenSeq(f)
  BY FlattenType
<1>10. Len(flat \o x) = Len(flat) + Len(x) /\ Len(flat) \in Nat
  BY ConcatProperties, LenProperties
<1>11. PortParams(dir, more) = flat \o x /\ PortParams(dir, p) = flat
  BY <1>3, <1>4, <1>8, <1>9, ParamsOfEachAre
<1> QED
  BY <1>1, <1>6, <1>10, <1>11

(* The elements of ports with a filter.                                    *)
Filtered(p) ==
  [k \in 1 .. Len(p) |-> IF IsSet(p[k].spec[3]) THEN Len(p[k].pdo) ELSE 0]

LEMMA FilteredType ==
  ASSUME NEW p \in Seq(Port)
  PROVE  Filtered(p) \in Seq(Nat) /\ Len(Filtered(p)) = Len(p)
<1>1. ASSUME NEW k \in 1 .. Len(p) PROVE Len(p[k].pdo) \in Nat
  <2>1. p[k] \in Port
    BY ElementOfSeq
  <2>2. p[k].pdo \in Seq(Element)
    BY <2>1 DEF Port
  <2> QED
    BY <2>2, LenProperties
<1>2. Filtered(p) \in [1 .. Len(p) -> Nat]
  BY <1>1 DEF Filtered
<1>3. Len(p) \in Nat
  BY LenProperties
<1> QED
  BY <1>2, <1>3, FunctionIsSeq

LEMMA FilteredOfMore ==
  ASSUME NEW p \in Seq(Port), NEW port \in Port
  PROVE  Total(Filtered(Append(p, port)))
           = Total(Filtered(p))
               + (IF IsSet(port.spec[3]) THEN Len(port.pdo) ELSE 0)
<1>1. PICK more \in Seq(Port) : more = Append(p, port)
  BY AppendProperties
<1>2. Len(p) \in Nat /\ Len(more) = Len(p) + 1
        /\ (\A k \in 1 .. Len(p) : more[k] = p[k]) /\ more[Len(p) + 1] = port
  BY <1>1, AppendProperties, LenProperties
<1>3. PICK f \in Seq(Nat) : f = Filtered(p)
  BY FilteredType
<1>4. PICK g \in Seq(Nat) : g = Filtered(more)
  BY FilteredType
<1>5. PICK x \in Nat : x = IF IsSet(port.spec[3]) THEN Len(port.pdo) ELSE 0
  <2>1. port.pdo \in Seq(Element)
    BY DEF Port
  <2>2. Len(port.pdo) \in Nat
    BY <2>1, LenProperties
  <2> QED
    BY <2>2
<1>6. g = Append(f, x)
  <2>1. Len(f) = Len(p) /\ DOMAIN g = 1 .. Len(more)
          /\ g = [k \in DOMAIN g |-> g[k]]
    BY <1>3, <1>4, FilteredType DEF Filtered
  <2>2. \A k \in 1 .. Len(p) : g[k] = f[k]
    <3>1. \A k \in 1 .. Len(p) : k \in 1 .. Len(more)
      BY <1>2
    <3> QED
      BY <1>2, <1>3, <1>4, <3>1 DEF Filtered
  <2>3. g[Len(p) + 1] = x
    <3>1. Len(p) + 1 \in 1 .. Len(more)
      BY <1>2
    <3> QED
      BY <1>2, <1>4, <1>5, <3>1 DEF Filtered
  <2> QED
    BY <1>1, <2>1, <2>2, <2>3, MappedMore
<1> QED
  BY <1>1, <1>3, <1>4, <1>5, <1>6, TotalOfMore

-----------------------------------------------------------------------------
(* What is announced *)

(* The numbers of the work vectors: as many as are counted, each once.     *)
Numbered(d, n) ==
  /\ \A x \in DOMAIN d : d[x] \in 0 .. n
  /\ \A x, y \in DOMAIN d : d[x] = d[y] => x = y \/ d[x] = 0
  /\ \A i \in 1 .. n : \E x \in DOMAIN d : d[x] = i

LEMMA NumberedMore ==
  ASSUME NEW n \in Nat, NEW d, NEW e, NEW x, Numbered(d, n),
         DOMAIN e = DOMAIN d \cup {x},
         \A y \in DOMAIN d \ {x} : e[y] = d[y],
         x \in DOMAIN d => d[x] = 0
  PROVE  /\ e[x] = n + 1 => Numbered(e, n + 1)
         /\ (x \notin DOMAIN d /\ e[x] = 0) => Numbered(e, n)
<1>1. ASSUME e[x] = n + 1 PROVE Numbered(e, n + 1)
  <2>1. \A y \in DOMAIN e \ {x} : y \in DOMAIN d /\ e[y] = d[y] /\ e[y] \in 0 .. n
    BY DEF Numbered
  <2>2. \A y \in DOMAIN e : e[y] \in 0 .. n + 1
    BY <1>1, <2>1
  <2>3. \A y, z \in DOMAIN e : e[y] = e[z] => y = z \/ e[y] = 0
    <3> SUFFICES ASSUME NEW y \in DOMAIN e, NEW z \in DOMAIN e, e[y] = e[z],
                        y # z
                 PROVE  e[y] = 0
      OBVIOUS
    <3>1. y # x /\ z # x
      BY <1>1, <2>1
    <3> QED
      BY <2>1, <3>1 DEF Numbered
  <2>4. \A i \in 1 .. n + 1 : \E y \in DOMAIN e : e[y] = i
    <3> TAKE i \in 1 .. n + 1
    <3>1. CASE i = n + 1
      BY <1>1, <3>1
    <3>2. CASE i \in 1 .. n
      <4>1. PICK y \in DOMAIN d : d[y] = i
        BY <3>2 DEF Numbered
      <4>2. y # x
        BY <3>2, <4>1
      <4> QED
        BY <4>1, <4>2
    <3> QED
      BY <3>1, <3>2
  <2> QED
    BY <2>2, <2>3, <2>4 DEF Numbered
<1>2. ASSUME x \notin DOMAIN d, e[x] = 0 PROVE Numbered(e, n)
  <2>1. \A y \in DOMAIN e \ {x} : y \in DOMAIN d /\ e[y] = d[y] /\ e[y] \in 0 .. n
    BY DEF Numbered
  <2>2. \A y \in DOMAIN e : e[y] \in 0 .. n
    BY <1>2, <2>1
  <2>3. \A y, z \in DOMAIN e : e[y] = e[z] => y = z \/ e[y] = 0
    BY <1>2, <2>1 DEF Numbered
  <2>4. \A i \in 1 .. n : \E y \in DOMAIN e : e[y] = i
    <3> TAKE i \in 1 .. n
    <3>1. PICK y \in DOMAIN d : d[y] = i
      BY DEF Numbered
    <3> QED
      BY <1>2, <3>1
  <2> QED
    BY <2>2, <2>3, <2>4 DEF Numbered
<1> QED
  BY <1>1, <1>2

Slots == ({"out"} \X (1 .. Len(o_port))) \cup ({"in"} \X (1 .. Len(i_port)))
PortAt(x) == IF x[1] = "out" THEN o_port[x[2]] ELSE i_port[x[2]]
DWorkOf == [x \in Slots |-> PortAt(x).dwork_idx]

CountInv ==
  runtime_param_count = Len(parameter) + Len(PortParams("out", o_port))
                          + Len(PortParams("in", i_port))
FilterInv == filter_count = Total(Filtered(o_port))
DWorkInv == Numbered(DWorkOf, dwork_count)

(* A port without a work vector has the type of its PDO, or none yet.      *)
OutputFits(port) ==
  port.dwork_idx = 0 => port.sl_port_data_type = SlType(port.data_type)
SignalFits(port, signal) ==
  IF port.dwork_idx = 0 THEN signal \in {SlType(port.data_type), Dynamic}
                        ELSE signal # Dynamic
MemoryInv ==
  /\ \A k \in 1 .. Len(o_port) : OutputFits(o_port[k])
  /\ \A k \in 1 .. Len(i_port) :
       SignalFits(i_port[k], i_port[k].sl_port_data_type)
  /\ pc \in Kept =>
       /\ \A k \in 1 .. Len(i_port) : SignalFits(i_port[k], inType[k])
       /\ \A k \in 1 .. Len(o_port) : outWidth[k] = Len(o_port[k].pdo)
       /\ states = Total(Filtered(o_port))
  /\ pc \in Kept \ {"failed"} =>
       \A k \in 1 .. Len(i_port) : inWidth[k] <= Len(i_port[k].pdo)

(* What mdlSetWorkWidths has set.                                          *)
WorkIsSet == Writing \cup {"written"}
WorkInv ==
  pc \in WorkIsSet =>
    /\ runTimeParams =
         [num |-> runtime_param_count,
          set |-> [i \in 1 .. Len(parameter) |-> <<"param", i>>]
                    \o PortParams("out", o_port) \o PortParams("in", i_port)]
    /\ dWork = [num |-> dwork_count,
                set |-> DWorks("out", o_port, outWidth)
                          \cup DWorks("in", i_port, inWidth)]
    /\ \A k \in 1 .. Len(i_port) : inType[k] # Dynamic

AnnounceInv == CountInv /\ FilterInv /\ DWorkInv /\ MemoryInv /\ WorkInv

LEMMA NoPorts ==
  /\ \A dir \in {"out", "in"} : Len(PortParams(dir, <<>>)) = 0
  /\ Total(Filtered(<<>>)) = 0
<1>1. PICK p \in Seq(Port) : p = <<>>
  BY EmptySeq
<1>2. Len(p) = 0
  BY <1>1, EmptySeq
<1>3. Total(Filtered(p)) = 0
  <2>1. PICK f \in Seq(Nat) : f = Filtered(p) /\ Len(f) = 0
    BY <1>2, FilteredType
  <2>2. Total(f) = 0
    BY <2>1, TotalIs
  <2> QED
    BY <2>1, <2>2
<1>4. ASSUME NEW dir \in {"out", "in"} PROVE Len(PortParams(dir, p)) = 0
  <2>1. PICK s \in Seq(Seq(Names)) : s = ParamsOfEach(dir, p) /\ Len(s) = 0
    BY <1>2, ParamsOfEachAre
  <2>2. PICK f \in [0 .. Len(s) -> Seq(Names)] :
          f[0] = <<>> /\ FlattenSeq(s) = f[Len(s)]
    BY FlattenIs
  <2>3. FlattenSeq(s) = <<>>
    BY <2>1, <2>2
  <2> QED
    BY <2>1, <2>3, EmptySeq, ParamsOfEachAre
<1> QED
  BY <1>1, <1>3, <1>4

LEMMA InitAnnounce == Init => AnnounceInv
<1> SUFFICES ASSUME Init PROVE AnnounceInv
  OBVIOUS
<1>1. /\ pc = "address" /\ parameter = <<>> /\ o_port = <<>> /\ i_port = <<>>
      /\ runtime_param_count = 0 /\ filter_count = 0 /\ dwork_count = 0
  BY DEF Init
<1>2. Len(<<>>) = 0 /\ 1 .. 0 = {}
  OBVIOUS
<1>3. CountInv /\ FilterInv
  BY <1>1, <1>2, NoPorts DEF CountInv, FilterInv
<1>4. Slots = {}
  BY <1>1, <1>2 DEF Slots
<1>5. DWorkInv
  BY <1>1, <1>2, <1>4 DEF DWorkInv, DWorkOf, Numbered
<1>6. pc \notin Kept /\ pc \notin WorkIsSet
  BY <1>1 DEF Kept, WorkIsSet, Writing
<1>7. MemoryInv /\ WorkInv
  BY <1>1, <1>2, <1>6 DEF MemoryInv, WorkInv
<1> QED
  BY <1>3, <1>5, <1>7 DEF AnnounceInv

(* Neither the ports change nor what Simulink knows of them.               *)
LEMMA SameAnnounce ==
  ASSUME AnnounceInv,
         UNCHANGED <<parameter, o_port, i_port, runtime_param_count,
                     filter_count, dwork_count, simulink>>,
         pc' \in Kept => pc \in Kept,
         pc' \in Kept \ {"failed"} => pc \in Kept \ {"failed"},
         pc' \in WorkIsSet => pc \in WorkIsSet
  PROVE  AnnounceInv'
<1>1. UNCHANGED <<inType, inWidth, outWidth, states, runTimeParams, dWork>>
  BY DEF simulink
<1>2. CountInv' /\ FilterInv'
  BY DEF AnnounceInv, CountInv, FilterInv
<1>3. DWorkInv'
  <2>1. DWorkOf' = DWorkOf
    BY DEF DWorkOf, Slots, PortAt
  <2> QED
    BY <2>1 DEF AnnounceInv, DWorkInv
<1>4. MemoryInv'
  BY <1>1 DEF AnnounceInv, MemoryInv
<1>5. WorkInv'
  BY <1>1 DEF AnnounceInv, WorkInv
<1> QED
  BY <1>2, <1>3, <1>4, <1>5 DEF AnnounceInv

LEMMA PortIsReadAnnounce ==
  ASSUME Types, AnnounceInv, NEW output \in BOOLEAN, NEW form,
         PortIsRead(form, output)
  PROVE  AnnounceInv'
<1> DEFINE new == IoPort(form, output)
<1>1. form \in PortForm /\ ~PortRefused(form, output)
  BY ConfigAssumption DEF PortIsRead
<1>2. /\ new \in Port
      /\ ~output => new.spec[3] = NoSpec
      /\ new.dwork_idx \in {0, dwork_count + 1}
      /\ new.dwork_idx = 0 =>
           new.sl_port_data_type \in {SlType(new.data_type), Dynamic}
      /\ (new.dwork_idx = 0 /\ output) =>
           new.sl_port_data_type = SlType(new.data_type)
      /\ new.dwork_idx # 0 => new.sl_port_data_type # Dynamic
  BY <1>1, IoPortIs DEF Types
<1>3. /\ pc \in {"output", "input"} /\ pc' = pc
      /\ filter_count' = IF IsSet(new.spec[3])
                         THEN filter_count + Len(new.pdo) ELSE filter_count
      /\ dwork_count' = IF new.dwork_idx # 0 THEN dwork_count + 1
                        ELSE dwork_count
      /\ runtime_param_count' = runtime_param_count + Cardinality(Named(new))
      /\ IF output THEN o_port' = Append(o_port, new) /\ i_port' = i_port
                   ELSE i_port' = Append(i_port, new) /\ o_port' = o_port
      /\ parameter' = parameter
  BY DEF PortIsRead, config
<1>4. PICK port \in Port : port = new
  BY <1>2
<1>5. PICK o \in Seq(Port), i \in Seq(Port) : o = o_port /\ i = i_port
  BY DEF Types, PortTypes
<1> HIDE DEF new
<1>6. /\ dwork_count \in Nat /\ runtime_param_count \in Nat /\ filter_count \in Nat
      /\ Len(parameter) \in Nat
      /\ Cardinality(Named(port)) \in Nat /\ Len(o) \in Nat /\ Len(i) \in Nat
      /\ Len(port.pdo) \in Nat /\ Total(Filtered(o)) \in Nat
  <2>1. parameter \in Seq(ParamRow) /\ port.pdo \in Seq(Element)
    BY ParametersType DEF Types, Port
  <2>2. Total(Filtered(o)) \in Nat
    BY FilteredType, TotalType
  <2> QED
    BY <2>1, <2>2, CardinalityOfNamed, LenProperties DEF Types, PortTypes
<1>7. pc' \notin Kept /\ pc' \notin WorkIsSet
  BY <1>3 DEF Kept, WorkIsSet, Writing
<1>8. CountInv'
  <2>1. \A dir \in {"out", "in"} :
          /\ Len(PortParams(dir, Append(o, port)))
               = Len(PortParams(dir, o)) + Cardinality(Named(port))
          /\ Len(PortParams(dir, Append(i, port)))
               = Len(PortParams(dir, i)) + Cardinality(Named(port))
          /\ Len(PortParams(dir, o)) \in Nat /\ Len(PortParams(dir, i)) \in Nat
    BY ParamsOfMore
  <2>2. PICK a \in Nat, b \in Nat, n \in Nat, q \in Nat :
          /\ a = Len(PortParams("out", o)) /\ b = Len(PortParams("in", i))
          /\ n = Cardinality(Named(port)) /\ q = Len(parameter)
    BY <1>6, <2>1
  <2>3. /\ Len(PortParams("out", Append(o, port))) = a + n
        /\ Len(PortParams("in", Append(i, port))) = b + n
    BY <2>1, <2>2
  <2>4. runtime_param_count = q + a + b
    BY <1>5, <2>2 DEF AnnounceInv, CountInv
  <2>5. runtime_param_count' = q + a + b + n
    BY <1>3, <1>4, <2>2, <2>4
  <2>6. Len(parameter') = q
    BY <1>3, <2>2
  <2>7. CASE output
    <3>1. o_port' = Append(o, port) /\ i_port' = i
      BY <1>3, <1>4, <1>5, <2>7
    <3>2. Len(PortParams("out", o_port')) = a + n
            /\ Len(PortParams("in", i_port')) = b
      BY <2>2, <2>3, <3>1
    <3>3. runtime_param_count' = Len(parameter') + Len(PortParams("out", o_port'))
                                   + Len(PortParams("in", i_port'))
      BY <2>5, <2>6, <3>2
    <3> QED
      BY <3>3 DEF CountInv
  <2>8. CASE ~output
    <3>1. i_port' = Append(i, port) /\ o_port' = o
      BY <1>3, <1>4, <1>5, <2>8
    <3>2. Len(PortParams("in", i_port')) = b + n
            /\ Len(PortParams("out", o_port')) = a
      BY <2>2, <2>3, <3>1
    <3>3. runtime_param_count' = Len(parameter') + Len(PortParams("out", o_port'))
                                   + Len(PortParams("in", i_port'))
      BY <2>5, <2>6, <3>2
    <3> QED
      BY <3>3 DEF CountInv
  <2> QED
    BY <2>7, <2>8
<1>9. FilterInv'
  <2>1. filter_count = Total(Filtered(o))
    BY <1>5 DEF AnnounceInv, FilterInv
  <2>2. CASE output
    <3>1. o_port' = Append(o, port)
      BY <1>3, <1>4, <1>5, <2>2
    <3>2. Total(Filtered(Append(o, port))) = Total(Filtered(o))
            + (IF IsSet(port.spec[3]) THEN Len(port.pdo) ELSE 0)
      BY FilteredOfMore
    <3>3. filter_count' = IF IsSet(port.spec[3])
                          THEN filter_count + Len(port.pdo) ELSE filter_count
      BY <1>3, <1>4
    <3>4. filter_count' = Total(Filtered(o_port'))
      BY <1>6, <2>1, <3>1, <3>2, <3>3
    <3> QED
      BY <3>4 DEF FilterInv
  <2>3. CASE ~output
    <3>1. ~IsSet(new.spec[3])
      BY <1>2, <2>3 DEF IsSet, NoSpec
    <3> QED
      BY <1>3, <1>5, <2>1, <2>3, <3>1 DEF FilterInv
  <2> QED
    BY <2>2, <2>3
<1>10. DWorkInv'
  <2> DEFINE x == IF output THEN <<"out", Len(o) + 1>> ELSE <<"in", Len(i) + 1>>
  <2>1. PICK d : d = DWorkOf
    OBVIOUS
  <2>2. PICK e : e = DWorkOf'
    OBVIOUS
  <2>3. DOMAIN d = Slots /\ DOMAIN e = Slots'
    BY <2>1, <2>2 DEF DWorkOf
  <2>4. x \notin Slots /\ Slots' = Slots \cup {x}
    <3>1. CASE output
      <4>1. o_port' = Append(o, port) /\ i_port' = i
        BY <1>3, <1>4, <1>5, <3>1
      <4>2. Len(o_port') = Len(o) + 1
        BY <4>1, AppendProperties
      <4>3. 1 .. Len(o_port') = (1 .. Len(o)) \cup {Len(o) + 1}
              /\ Len(o) + 1 \notin 1 .. Len(o)
        BY <1>6, <4>2
      <4> QED
        BY <1>5, <3>1, <4>1, <4>3 DEF Slots
    <3>2. CASE ~output
      <4>1. i_port' = Append(i, port) /\ o_port' = o
        BY <1>3, <1>4, <1>5, <3>2
      <4>2. Len(i_port') = Len(i) + 1
        BY <4>1, AppendProperties
      <4>3. 1 .. Len(i_port') = (1 .. Len(i)) \cup {Len(i) + 1}
              /\ Len(i) + 1 \notin 1 .. Len(i)
        BY <1>6, <4>2
      <4> QED
        BY <1>5, <3>2, <4>1, <4>3 DEF Slots
    <3> QED
      BY <3>1, <3>2
  <2>5. PortAt(x)' = port /\ \A y \in Slots : PortAt(y)' = PortAt(y)
    <3>1. CASE output
      <4>1. o_port' = Append(o, port) /\ i_port' = i
        BY <1>3, <1>4, <1>5, <3>1
      <4>2. o_port'[Len(o) + 1] = port
              /\ \A k \in 1 .. Len(o) : o_port'[k] = o[k]
        BY <4>1, AppendProperties
      <4> QED
        BY <1>5, <3>1, <4>1, <4>2 DEF PortAt, Slots
    <3>2. CASE ~output
      <4>1. i_port' = Append(i, port) /\ o_port' = o
        BY <1>3, <1>4, <1>5, <3>2
      <4>2. i_port'[Len(i) + 1] = port
              /\ \A k \in 1 .. Len(i) : i_port'[k] = i[k]
        BY <4>1, AppendProperties
      <4> QED
        BY <1>5, <3>2, <4>1, <4>2 DEF PortAt, Slots
    <3> QED
      BY <3>1, <3>2
  <2> HIDE DEF x
  <2>6. e[x] = port.dwork_idx /\ \A y \in Slots : e[y] = d[y]
    BY <2>1, <2>2, <2>4, <2>5 DEF DWorkOf
  <2>7. Numbered(d, dwork_count)
    BY <2>1 DEF AnnounceInv, DWorkInv
  <2>8. PICK n \in Nat : n = dwork_count
    BY <1>6
  <2>9. /\ e[x] = n + 1 => Numbered(e, n + 1)
        /\ e[x] = 0 => Numbered(e, n)
    <3>1. /\ Numbered(d, n) /\ DOMAIN e = DOMAIN d \cup {x}
          /\ (\A y \in DOMAIN d \ {x} : e[y] = d[y]) /\ x \notin DOMAIN d
      BY <2>3, <2>4, <2>6, <2>7, <2>8
    <3> QED
      BY <3>1, NumberedMore
  <2>10. Numbered(e, dwork_count')
    <3>1. port.dwork_idx \in {0, n + 1}
            /\ dwork_count' = IF port.dwork_idx # 0 THEN n + 1 ELSE n
      BY <1>2, <1>3, <1>4, <2>8
    <3> QED
      BY <2>6, <2>8, <2>9, <3>1
  <2> QED
    BY <2>2, <2>10 DEF DWorkInv
<1>11. MemoryInv'
  <2>1. /\ \A k \in 1 .. Len(o) : OutputFits(o[k])
        /\ \A k \in 1 .. Len(i) : SignalFits(i[k], i[k].sl_port_data_type)
    BY <1>5 DEF AnnounceInv, MemoryInv
  <2>2. CASE output
    <3>1. o_port' = Append(o, port) /\ i_port' = i
      BY <1>3, <1>4, <1>5, <2>2
    <3>2. OutputFits(port)
      BY <1>2, <1>4, <2>2 DEF OutputFits
    <3>3. \A k \in 1 .. Len(o_port') : OutputFits(o_port'[k])
      <4>1. /\ Len(o_port') = Len(o) + 1 /\ o_port'[Len(o) + 1] = port
            /\ \A k \in 1 .. Len(o) : o_port'[k] = o[k]
        BY <3>1, AppendProperties
      <4>2. \A k \in 1 .. Len(o) + 1 : k \in 1 .. Len(o) \/ k = Len(o) + 1
        BY <1>6
      <4> QED
        BY <2>1, <3>2, <4>1, <4>2
    <3> QED
      BY <1>7, <2>1, <3>1, <3>3 DEF MemoryInv
  <2>3. CASE ~output
    <3>1. i_port' = Append(i, port) /\ o_port' = o
      BY <1>3, <1>4, <1>5, <2>3
    <3>2. SignalFits(port, port.sl_port_data_type)
      BY <1>2, <1>4 DEF SignalFits
    <3>3. \A k \in 1 .. Len(i_port') :
            SignalFits(i_port'[k], i_port'[k].sl_port_data_type)
      <4>1. /\ Len(i_port') = Len(i) + 1 /\ i_port'[Len(i) + 1] = port
            /\ \A k \in 1 .. Len(i) : i_port'[k] = i[k]
        BY <3>1, AppendProperties
      <4>2. \A k \in 1 .. Len(i) + 1 : k \in 1 .. Len(i) \/ k = Len(i) + 1
        BY <1>6
      <4> QED
        BY <2>1, <3>2, <4>1, <4>2
    <3> QED
      BY <1>7, <2>1, <3>1, <3>3 DEF MemoryInv
  <2> QED
    BY <2>2, <2>3
<1>12. WorkInv'
  BY <1>7 DEF WorkInv
<1> QED
  BY <1>8, <1>9, <1>10, <1>11, <1>12 DEF AnnounceInv

(* Before the block is kept as user data, and when it no longer is.        *)
LEMMA OutOfUse ==
  ASSUME AnnounceInv, pc' \notin Kept,
         UNCHANGED <<parameter, o_port, i_port, runtime_param_count,
                     filter_count, dwork_count, simulink>>
  PROVE  AnnounceInv'
<1>1. pc' \notin WorkIsSet
  BY DEF Kept, WorkIsSet
<1> QED
  BY <1>1, SameAnnounce

LEMMA GetParameterConfigAnnounce ==
  Types /\ AnnounceInv /\ GetParameterConfig => AnnounceInv'
<1> SUFFICES ASSUME Types, AnnounceInv, GetParameterConfig PROVE AnnounceInv'
  OBVIOUS
<1>1. CASE Refuse
  <2>1. pc' \notin Kept
    BY <1>1 DEF Refuse, Kept, Writing
  <2> QED
    BY <1>1, <2>1, OutOfUse DEF Refuse, config, ports
<1>2. CASE ~Refuse
  <2>1. PICK rows \in ParamLists :
          /\ parameter' = rows
          /\ runtime_param_count' = runtime_param_count + Len(rows)
          /\ pc' = "output" /\ UNCHANGED ports
    BY <1>2 DEF GetParameterConfig
  <2>2. /\ parameter = <<>> /\ o_port = <<>> /\ i_port = <<>>
    BY DEF GetParameterConfig, Types, Unread, ToParameter
  <2>3. o_port' = <<>> /\ i_port' = <<>> /\ filter_count' = filter_count
          /\ dwork_count' = dwork_count
    BY <2>1, <2>2 DEF ports
  <2>4. CountInv'
    <3>1. Len(parameter) = 0 /\ Len(rows) \in Nat
      <4>1. rows \in Seq(ParamRow)
        BY ConfigAssumption
      <4> QED
        BY <2>2, <4>1, EmptySeq, LenProperties
    <3>2. runtime_param_count = 0
      BY <2>2, <3>1, NoPorts DEF AnnounceInv, CountInv
    <3>3. runtime_param_count' = Len(rows) /\ parameter' = rows
      BY <2>1, <3>1, <3>2
    <3>4. Len(PortParams("out", o_port')) = 0 /\ Len(PortParams("in", i_port')) = 0
      BY <2>3, NoPorts
    <3> QED
      BY <3>1, <3>3, <3>4 DEF CountInv
  <2>5. FilterInv' /\ DWorkInv'
    <3>1. o_port' = o_port /\ i_port' = i_port
      BY <2>2, <2>3
    <3>2. DWorkOf' = DWorkOf
      BY <3>1 DEF DWorkOf, Slots, PortAt
    <3> QED
      BY <2>3, <3>1, <3>2 DEF AnnounceInv, FilterInv, DWorkInv
  <2>6. pc' \notin Kept /\ pc' \notin WorkIsSet
    BY <2>1 DEF Kept, WorkIsSet, Writing
  <2>7. MemoryInv' /\ WorkInv'
    BY <2>2, <2>3, <2>6 DEF AnnounceInv, MemoryInv, WorkInv
  <2> QED
    BY <2>4, <2>5, <2>7 DEF AnnounceInv
<1> QED
  BY <1>1, <1>2

LEMMA GettersAnnounce == Types /\ AnnounceInv /\ Getters => AnnounceInv'
<1> SUFFICES ASSUME Types, AnnounceInv, Getters PROVE AnnounceInv'
  OBVIOUS
<1>1. CASE Refuse
  <2>1. pc' \notin Kept
    BY <1>1 DEF Refuse, Kept, Writing
  <2> QED
    BY <1>1, <2>1, OutOfUse DEF Refuse, config, ports
<1>2. CASE GetOutputPorts \/ GetInputPorts
  <2>1. PICK output \in BOOLEAN :
          IF output THEN GetOutputPorts ELSE GetInputPorts
    BY <1>2
  <2>2. CASE PortsAreRead(output)
    <3>1. pc' \notin Kept
      BY <2>2 DEF PortsAreRead, Kept, Writing
    <3> QED
      BY <2>2, <3>1, OutOfUse DEF PortsAreRead, config
  <2>3. ASSUME NEW form, PortIsRead(form, output) PROVE AnnounceInv'
    BY <2>3, PortIsReadAnnounce
  <2> QED
    BY <1>1, <2>1, <2>2, <2>3, GetPortsIs
<1>3. CASE ~Refuse /\ (GetSlaveInfo \/ GetSlaveSdo \/ GetSlaveSoe \/ GetSlaveDc
                         \/ GetSyncManagers)
  <2>1. pc' \notin Kept
    BY <1>3 DEF GetSlaveInfo, GetSlaveSdo, GetSlaveSoe, GetSlaveDc,
       GetSyncManagers, Kept, Writing
  <2>2. UNCHANGED <<parameter, ports, runtime_param_count, simulink>>
    BY <1>3 DEF GetSlaveInfo, GetSlaveSdo, GetSlaveSoe, GetSlaveDc,
       GetSyncManagers, config
  <2> QED
    BY <2>1, <2>2, OutOfUse DEF ports
<1> QED
  BY <1>1, <1>2, <1>3, GetParameterConfigAnnounce DEF Getters

LEMMA InitializeSizesAnnounce ==
  Types /\ AnnounceInv /\ InitializeSizes => AnnounceInv'
<1> SUFFICES ASSUME Types, AnnounceInv, InitializeSizes PROVE AnnounceInv'
  OBVIOUS
<1>1. CASE Refuse
  <2>1. pc' \notin Kept
    BY <1>1 DEF Refuse, Kept, Writing
  <2> QED
    BY <1>1, <2>1, OutOfUse DEF Refuse, config, ports
<1>2. CASE ~Refuse
  <2>1. /\ inType' = [i \in 1 .. Len(i_port) |-> i_port[i].sl_port_data_type]
        /\ inWidth' = [i \in 1 .. Len(i_port) |-> DynamicWidth]
        /\ outWidth' = [i \in 1 .. Len(o_port) |-> Len(o_port[i].pdo)]
        /\ states' = filter_count /\ pc' = "ports"
        /\ UNCHANGED <<parameter, ports, runtime_param_count>>
    BY <1>2 DEF InitializeSizes, config
  <2>2. UNCHANGED <<o_port, i_port, filter_count, dwork_count>>
    BY <2>1 DEF ports
  <2>3. CountInv' /\ FilterInv' /\ DWorkInv'
    <3>1. DWorkOf' = DWorkOf
      BY <2>2 DEF DWorkOf, Slots, PortAt
    <3> QED
      BY <2>1, <2>2, <3>1 DEF AnnounceInv, CountInv, FilterInv, DWorkInv
  <2>4. \A k \in 1 .. Len(i_port') : inWidth'[k] <= Len(i_port'[k].pdo)
    <3> SUFFICES ASSUME NEW k \in 1 .. Len(i_port)
                 PROVE  inWidth'[k] <= Len(i_port[k].pdo)
      BY <2>2
    <3>1. i_port[k] \in Port
      BY ElementOfSeq DEF Types, PortTypes
    <3>2. i_port[k].pdo \in Seq(Element)
      BY <3>1 DEF Port
    <3>3. Len(i_port[k].pdo) \in Nat /\ inWidth'[k] = -1
      BY <2>1, <3>2, LenProperties DEF DynamicWidth
    <3> QED
      BY <3>3
  <2>5. MemoryInv'
    BY <2>1, <2>2, <2>4 DEF AnnounceInv, FilterInv, MemoryInv
  <2>6. WorkInv'
    <3>1. pc' \notin WorkIsSet
      BY <2>1 DEF WorkIsSet, Writing
    <3> QED
      BY <3>1 DEF WorkInv
  <2> QED
    BY <2>3, <2>5, <2>6 DEF AnnounceInv
<1> QED
  BY <1>1, <1>2

LEMMA RtwAnnounce ==
  AnnounceInv /\ (Rtw \/ Terminate \/ UNCHANGED vars) => AnnounceInv'
<1> SUFFICES ASSUME AnnounceInv, Rtw \/ Terminate \/ UNCHANGED vars
             PROVE  AnnounceInv'
  OBVIOUS
<1>1. CASE Rtw
  <2>1. UNCHANGED <<parameter, o_port, i_port, runtime_param_count,
                    filter_count, dwork_count, simulink>>
    BY <1>1 DEF Rtw, WriteSdo, WriteSoe, WriteSyncManagers, WriteDc,
       WriteOutputPort, WriteInputPort, WritePort, WritePortsEnd, RtwFails,
       ports, config
  <2>2. pc \in Writing /\ pc' \in Writing \cup {"written", "failed"}
    BY <1>1 DEF Rtw, WriteSdo, WriteSoe, WriteSyncManagers, WriteDc,
       WriteOutputPort, WriteInputPort, WritePortsEnd, RtwFails, Writing, Fail
  <2>3. /\ pc \in Kept \ {"failed"} /\ pc \in WorkIsSet
    BY <2>2 DEF Kept, WorkIsSet, Writing
  <2> QED
    BY <2>1, <2>3, SameAnnounce
<1>2. CASE Terminate
  <2>1. pc' \notin Kept
    BY <1>2 DEF Terminate, Kept, Writing
  <2> QED
    BY <1>2, <2>1, OutOfUse DEF Terminate, config, ports
<1>3. CASE UNCHANGED vars
  BY <1>3, SameAnnounce DEF vars, config, ports
<1> QED
  BY <1>1, <1>2, <1>3

(* An input that Simulink gives a type: with the type of its PDO it needs  *)
(* no work vector; with another it gets the next one.                      *)
LEMMA SetInputPortDataTypeAnnounce ==
  ASSUME Types, AnnounceInv, NEW p \in DOMAIN inType, NEW id \in SignalTypes,
         SetInputPortDataType(p, id)
  PROVE  AnnounceInv'
<1>1. /\ pc = "ports" /\ inType[p] = Dynamic /\ p \in 1 .. Len(i_port)
      /\ UNCHANGED <<parameter, o_port, filter_count, runtime_param_count,
                     inWidth, outWidth, states>>
      /\ \/ /\ Fail /\ UNCHANGED <<i_port, dwork_count, inType>>
         \/ /\ UNCHANGED <<pc, error>> /\ inType' = [inType EXCEPT ![p] = id]
            /\ id \in SlTypes
            /\ \/ /\ UNCHANGED <<i_port, dwork_count>>
                  /\ id = SlType(i_port[p].data_type)
               \/ \E q : /\ i_port' = [i_port EXCEPT ![p] = q]
                         /\ Retyped(q, i_port[p])
                         /\ q.dwork_idx = dwork_count + 1
                         /\ q.sl_port_data_type = id
                         /\ dwork_count' = dwork_count + 1
  BY SetInputPortDataTypeIs DEF config
<1>2. pc \in Kept \ {"failed"} /\ pc' \notin WorkIsSet
  BY <1>1 DEF Kept, WorkIsSet, Writing, Fail
<1>3. WorkInv'
  BY <1>2 DEF WorkInv
<1>4. /\ i_port \in Seq(Port) /\ Len(i_port) \in Nat /\ dwork_count \in Nat
      /\ inType \in Seq(SlTypes \cup {Dynamic}) /\ Len(inType) = Len(i_port)
      /\ DOMAIN inType = 1 .. Len(i_port) /\ DOMAIN i_port = 1 .. Len(i_port)
  <2>1. /\ i_port \in Seq(Port) /\ dwork_count \in Nat
        /\ inType \in Seq(SlTypes \cup {Dynamic}) /\ Len(inType) = Len(i_port)
    BY <1>2 DEF Types, PortTypes, SignalTypesInv
  <2> QED
    BY <2>1, LenProperties
<1>5. /\ \A k \in 1 .. Len(o_port) : OutputFits(o_port[k])
      /\ \A k \in 1 .. Len(i_port) :
           /\ SignalFits(i_port[k], i_port[k].sl_port_data_type)
           /\ SignalFits(i_port[k], inType[k])
           /\ inWidth[k] <= Len(i_port[k].pdo)
      /\ \A k \in 1 .. Len(o_port) : outWidth[k] = Len(o_port[k].pdo)
      /\ states = Total(Filtered(o_port))
  BY <1>2 DEF AnnounceInv, MemoryInv
<1>6. i_port[p].dwork_idx = 0
  BY <1>1, <1>5 DEF SignalFits
<1>7. CASE UNCHANGED <<i_port, dwork_count>>
  <2>1. CountInv' /\ FilterInv' /\ DWorkInv'
    <3>1. DWorkOf' = DWorkOf
      BY <1>1, <1>7 DEF DWorkOf, Slots, PortAt
    <3> QED
      BY <1>1, <1>7, <3>1 DEF AnnounceInv, CountInv, FilterInv, DWorkInv
  <2>2. \A k \in 1 .. Len(i_port) : SignalFits(i_port[k], inType'[k])
    <3> TAKE k \in 1 .. Len(i_port)
    <3>1. CASE inType' = inType
      BY <1>5, <3>1
    <3>2. CASE inType' = [inType EXCEPT ![p] = id] /\ inType' # inType
      <4>1. id = SlType(i_port[p].data_type)
        <5>1. CASE i_port'[p].dwork_idx = dwork_count + 1
          BY <1>4, <1>6, <1>7, <5>1
        <5>2. CASE id = SlType(i_port[p].data_type)
          BY <5>2
        <5>3. ASSUME NEW q, i_port' = [i_port EXCEPT ![p] = q],
                     q.dwork_idx = dwork_count + 1
              PROVE  i_port'[p].dwork_idx = dwork_count + 1
          BY <1>1, <1>4, <5>3
        <5> QED
          BY <1>1, <3>2, <5>1, <5>2, <5>3
      <4>2. inType'[k] = IF k = p THEN id ELSE inType[k]
        BY <1>4, <3>2
      <4> QED
        BY <1>5, <1>6, <4>1, <4>2 DEF SignalFits
    <3> QED
      BY <1>1, <3>1, <3>2
  <2>3. MemoryInv'
    BY <1>1, <1>5, <1>7, <2>2 DEF MemoryInv
  <2> QED
    BY <1>3, <2>1, <2>3 DEF AnnounceInv
<1>8. CASE ~UNCHANGED <<i_port, dwork_count>>
  <2>1. PICK q : /\ i_port' = [i_port EXCEPT ![p] = q]
                 /\ Retyped(q, i_port[p])
                 /\ q.dwork_idx = dwork_count + 1
                 /\ q.sl_port_data_type = id
                 /\ dwork_count' = dwork_count + 1
    BY <1>1, <1>8
  <2>2. /\ inType' = [inType EXCEPT ![p] = id] /\ id # Dynamic
    BY <1>1, <1>8 DEF SlTypes, Dynamic
  <2>3. i_port' \in Seq(Port) /\ Len(i_port') = Len(i_port)
    BY <1>1, <1>4, <2>1, ExceptSeq DEF Retyped
  <2>4. /\ i_port'[p] = q
        /\ \A k \in 1 .. Len(i_port) : k # p => i_port'[k] = i_port[k]
    BY <1>1, <1>4, <2>1
  <2>5. CountInv'
    <3>1. PICK i \in Seq(Port), j \in Seq(Port) : i = i_port /\ j = i_port'
      BY <1>4, <2>3
    <3>2. ASSUME NEW k \in 1 .. Len(i)
          PROVE  OwnParams("in", k, i[k]) = OwnParams("in", k, j[k])
      <4>1. i[k].spec = j[k].spec
        BY <2>1, <2>4, <3>1 DEF Retyped
      <4> QED
        BY <4>1 DEF OwnParams
    <3>3. ParamsOfEach("in", i) = ParamsOfEach("in", j)
      BY <2>3, <3>1, <3>2 DEF ParamsOfEach
    <3>4. PortParams("in", i) = PortParams("in", j)
      BY <3>3, ParamsOfEachAre
    <3> QED
      BY <1>1, <3>1, <3>4 DEF AnnounceInv, CountInv
  <2>6. FilterInv'
    BY <1>1 DEF AnnounceInv, FilterInv
  <2>7. DWorkInv'
    <3>1. PICK x : x = <<"in", p>>
      OBVIOUS
    <3>2. PICK d : d = DWorkOf
      OBVIOUS
    <3>3. PICK e : e = DWorkOf'
      OBVIOUS
    <3>4. Slots' = Slots /\ x \in Slots /\ DOMAIN d = Slots /\ DOMAIN e = Slots
      <4>1. Slots' = Slots /\ x \in Slots
        BY <1>1, <2>3, <3>1 DEF Slots
      <4> QED
        BY <3>2, <3>3, <4>1 DEF DWorkOf
    <3>5. d[x] = 0 /\ e[x] = dwork_count + 1
      BY <1>6, <2>1, <2>4, <3>1, <3>2, <3>3, <3>4 DEF DWorkOf, PortAt
    <3>6. \A y \in Slots \ {x} : e[y] = d[y]
      <4> TAKE y \in Slots \ {x}
      <4>1. PortAt(y)' = PortAt(y)
        BY <1>1, <2>4, <3>1 DEF Slots, PortAt
      <4> QED
        BY <3>2, <3>3, <3>4, <4>1 DEF DWorkOf
    <3>7. PICK n \in Nat : n = dwork_count
      BY <1>4
    <3>8. Numbered(d, n) /\ DOMAIN e = DOMAIN d \cup {x}
            /\ (\A y \in DOMAIN d \ {x} : e[y] = d[y]) /\ e[x] = n + 1
      BY <3>2, <3>4, <3>5, <3>6, <3>7 DEF AnnounceInv, DWorkInv
    <3>9. Numbered(e, n + 1)
      BY <3>5, <3>8, NumberedMore
    <3> QED
      BY <2>1, <3>3, <3>7, <3>9 DEF DWorkInv
  <2>8. ASSUME NEW k \in 1 .. Len(i_port)
        PROVE  /\ SignalFits(i_port'[k], i_port'[k].sl_port_data_type)
               /\ SignalFits(i_port'[k], inType'[k])
               /\ inWidth'[k] <= Len(i_port'[k].pdo)
    <3>1. CASE k = p
      <4>1. i_port'[k] = q /\ inType'[k] = id
        BY <1>4, <2>2, <2>4, <3>1
      <4>2. q.dwork_idx # 0 /\ q.pdo = i_port[k].pdo
        BY <1>4, <2>1, <3>1 DEF Retyped
      <4> QED
        BY <1>1, <1>5, <2>1, <2>2, <4>1, <4>2 DEF SignalFits
    <3>2. CASE k # p
      <4>1. i_port'[k] = i_port[k] /\ inType'[k] = inType[k]
        BY <1>4, <2>2, <2>4, <3>2
      <4> QED
        BY <1>1, <1>5, <4>1
    <3> QED
      BY <3>1, <3>2
  <2>9. MemoryInv'
    BY <1>1, <1>5, <2>3, <2>8 DEF MemoryInv
  <2> QED
    BY <1>3, <2>5, <2>6, <2>7, <2>9 DEF AnnounceInv
<1> QED
  BY <1>7, <1>8

(* The ports are the same, and what changes is what Simulink knows.        *)
LEMMA SamePortsAnnounce ==
  ASSUME AnnounceInv, MemoryInv', WorkInv',
         UNCHANGED <<parameter, o_port, i_port, runtime_param_count,
                     filter_count, dwork_count>>
  PROVE  AnnounceInv'
<1>1. DWorkOf' = DWorkOf
  BY DEF DWorkOf, Slots, PortAt
<1> QED
  BY <1>1 DEF AnnounceInv, CountInv, FilterInv, DWorkInv

LEMMA SetInputPortWidthAnnounce ==
  ASSUME Types, AnnounceInv, NEW p \in DOMAIN inType, NEW width \in Widths,
         SetInputPortWidth(p, width)
  PROVE  AnnounceInv'
<1>1. /\ pc = "ports" /\ inWidth' = [inWidth EXCEPT ![p] = width]
      /\ IF width > Len(i_port[p].pdo) THEN pc' = "failed" ELSE pc' = pc
      /\ UNCHANGED <<parameter, o_port, i_port, runtime_param_count,
                     filter_count, dwork_count, inType, outWidth, states>>
  BY DEF SetInputPortWidth, Fail, config, ports
<1>2. pc \in Kept \ {"failed"} /\ pc' \notin WorkIsSet
  BY <1>1 DEF Kept, WorkIsSet, Writing
<1>3. pc' # "failed" =>
        \A k \in 1 .. Len(i_port) : inWidth'[k] <= Len(i_port[k].pdo)
  <2> SUFFICES ASSUME pc' # "failed", NEW k \in 1 .. Len(i_port)
               PROVE  inWidth'[k] <= Len(i_port[k].pdo)
    OBVIOUS
  <2>1. inWidth \in Seq(Int) /\ Len(inWidth) = Len(i_port)
          /\ i_port \in Seq(Port)
    BY <1>2 DEF Types, SignalTypesInv, PortTypes
  <2>2. DOMAIN inWidth = 1 .. Len(i_port)
    BY <2>1, LenProperties
  <2>3. inWidth'[k] = IF k = p THEN width ELSE inWidth[k]
    BY <1>1, <2>2
  <2>4. k = p => width <= Len(i_port[k].pdo)
    <3>1. i_port[k] \in Port
      BY <2>1, ElementOfSeq
    <3>2. i_port[k].pdo \in Seq(Element)
      BY <3>1 DEF Port
    <3>3. Len(i_port[k].pdo) \in Nat /\ width \in Nat
      BY <3>2, LenProperties, ConfigAssumption
    <3> QED
      BY <1>1, <3>3
  <2>5. inWidth[k] <= Len(i_port[k].pdo)
    BY <1>2 DEF AnnounceInv, MemoryInv
  <2> QED
    BY <2>3, <2>4, <2>5
<1>4. MemoryInv'
  BY <1>1, <1>2, <1>3 DEF AnnounceInv, MemoryInv
<1>5. WorkInv'
  BY <1>2 DEF WorkInv
<1> QED
  BY <1>1, <1>4, <1>5, SamePortsAnnounce

LEMMA DefaultsAnnounce ==
  Types /\ AnnounceInv
    /\ (SetDefaultPortDataTypes \/ SetDefaultPortDimensionInfo) => AnnounceInv'
<1> SUFFICES ASSUME Types, AnnounceInv,
                    SetDefaultPortDataTypes \/ SetDefaultPortDimensionInfo
             PROVE  AnnounceInv'
  OBVIOUS
<1>1. /\ pc = "ports" /\ pc' = pc
      /\ UNCHANGED <<parameter, o_port, i_port, runtime_param_count,
                     filter_count, dwork_count, outWidth, states>>
  BY DEF SetDefaultPortDataTypes, SetDefaultPortDimensionInfo, config, ports
<1>2. pc \in Kept \ {"failed"} /\ pc' \notin WorkIsSet
  BY <1>1 DEF Kept, WorkIsSet, Writing
<1>3. /\ inType \in Seq(SlTypes \cup {Dynamic}) /\ Len(inType) = Len(i_port)
      /\ inWidth \in Seq(Int) /\ Len(inWidth) = Len(i_port)
      /\ i_port \in Seq(Port)
  BY <1>2 DEF Types, SignalTypesInv, PortTypes
<1>4. DOMAIN inType = 1 .. Len(i_port) /\ DOMAIN inWidth = 1 .. Len(i_port)
  BY <1>3, LenProperties
<1>5. \A k \in 1 .. Len(i_port) : SignalFits(i_port[k], inType[k])
                                    /\ inWidth[k] <= Len(i_port[k].pdo)
  BY <1>2 DEF AnnounceInv, MemoryInv
<1>6. \A k \in 1 .. Len(i_port) : SignalFits(i_port[k], inType'[k])
  <2> TAKE k \in 1 .. Len(i_port)
  <2>1. CASE SetDefaultPortDataTypes
    <3>1. inType'[k] = IF inType[k] = Dynamic THEN SlType(i_port[k].data_type)
                       ELSE inType[k]
      BY <1>4, <2>1 DEF SetDefaultPortDataTypes
    <3> QED
      BY <1>5, <3>1 DEF SignalFits
  <2>2. CASE SetDefaultPortDimensionInfo
    BY <1>5, <2>2 DEF SetDefaultPortDimensionInfo
  <2> QED
    BY <2>1, <2>2
<1>7. \A k \in 1 .. Len(i_port) : inWidth'[k] <= Len(i_port[k].pdo)
  <2> TAKE k \in 1 .. Len(i_port)
  <2>1. CASE SetDefaultPortDimensionInfo
    <3>1. inWidth'[k] = IF inWidth[k] = DynamicWidth THEN Len(i_port[k].pdo)
                        ELSE inWidth[k]
      BY <1>4, <2>1 DEF SetDefaultPortDimensionInfo
    <3>2. i_port[k] \in Port
      BY <1>3, ElementOfSeq
    <3>3. i_port[k].pdo \in Seq(Element)
      BY <3>2 DEF Port
    <3>4. Len(i_port[k].pdo) \in Nat
      BY <3>3, LenProperties
    <3> QED
      BY <1>5, <3>1, <3>4
  <2>2. CASE SetDefaultPortDataTypes
    BY <1>5, <2>2 DEF SetDefaultPortDataTypes
  <2> QED
    BY <2>1, <2>2
<1>8. MemoryInv'
  BY <1>1, <1>2, <1>6, <1>7 DEF AnnounceInv, MemoryInv
<1>9. WorkInv'
  BY <1>2 DEF WorkInv
<1> QED
  BY <1>1, <1>8, <1>9, SamePortsAnnounce

LEMMA SetWorkWidthsAnnounce ==
  Types /\ AnnounceInv /\ SetWorkWidths => AnnounceInv'
<1> SUFFICES ASSUME Types, AnnounceInv, SetWorkWidths PROVE AnnounceInv'
  OBVIOUS
<1>1. /\ pc = "ports" /\ pc' = "rtw sdo"
      /\ \A k \in DOMAIN inType : inType[k] # Dynamic
      /\ UNCHANGED <<parameter, o_port, i_port, runtime_param_count,
                     filter_count, dwork_count, inType, inWidth, outWidth,
                     states>>
  BY DEF SetWorkWidths, config, ports
<1>2. /\ runTimeParams' =
           [num |-> runtime_param_count,
            set |-> [i \in 1 .. Len(parameter) |-> <<"param", i>>]
                      \o PortParams("out", o_port) \o PortParams("in", i_port)]
      /\ dWork' = [num |-> dwork_count,
                   set |-> DWorks("out", o_port, outWidth)
                             \cup DWorks("in", i_port, inWidth)]
  BY DEF SetWorkWidths
<1>3. pc \in Kept \ {"failed"}
  BY <1>1 DEF Kept
<1>4. MemoryInv'
  BY <1>1, <1>3 DEF AnnounceInv, MemoryInv
<1>5. DOMAIN inType = 1 .. Len(i_port)
  <2>1. inType \in Seq(SlTypes \cup {Dynamic}) /\ Len(inType) = Len(i_port)
    BY <1>3 DEF Types, SignalTypesInv
  <2> QED
    BY <2>1, LenProperties
<1>6. WorkInv'
  <2>1. \A k \in 1 .. Len(i_port') : inType'[k] # Dynamic
    BY <1>1, <1>5
  <2>2. runTimeParams' =
           [num |-> runtime_param_count',
            set |-> [i \in 1 .. Len(parameter') |-> <<"param", i>>]
                      \o PortParams("out", o_port') \o PortParams("in", i_port')]
    BY <1>1, <1>2
  <2>3. dWork' = [num |-> dwork_count',
                  set |-> DWorks("out", o_port', outWidth')
                            \cup DWorks("in", i_port', inWidth')]
    BY <1>1, <1>2
  <2> QED
    BY <2>1, <2>2, <2>3 DEF WorkInv
<1> QED
  BY <1>1, <1>4, <1>6, SamePortsAnnounce

LEMMA NextAnnounce == Types /\ AnnounceInv /\ [Next]_vars => AnnounceInv'
<1> SUFFICES ASSUME Types, AnnounceInv, [Next]_vars PROVE AnnounceInv'
  OBVIOUS
<1>1. CASE Compile
  <2>1. ASSUME NEW p \in DOMAIN inType,
               \/ \E id \in SignalTypes : SetInputPortDataType(p, id)
               \/ \E width \in Widths : SetInputPortWidth(p, width)
        PROVE  AnnounceInv'
    BY <2>1, SetInputPortDataTypeAnnounce, SetInputPortWidthAnnounce
  <2> QED
    BY <1>1, <2>1, InitializeSizesAnnounce, DefaultsAnnounce,
       SetWorkWidthsAnnounce DEF Compile
<1> QED
  BY <1>1, GettersAnnounce, RtwAnnounce DEF Next

-----------------------------------------------------------------------------
(* What is announced is defined *)

LEMMA RunTimeParamsAreDefined ==
  ASSUME Types, AnnounceInv, pc \in WorkIsSet
  PROVE  /\ Len(runTimeParams.set) = runTimeParams.num
         /\ IsInjective(runTimeParams.set)
<1> DEFINE own == [k \in 1 .. Len(parameter) |-> <<"param", k>>]
<1>1. PICK X : X = Names \cup ({"param"} \X Nat)
  OBVIOUS
<1>2. PICK o \in Seq(Names), i \in Seq(Names) :
        /\ o = PortParams("out", o_port) /\ i = PortParams("in", i_port)
        /\ Distinct(o) /\ \A x \in Elements(o) : x[1] = "out"
        /\ Distinct(i) /\ \A x \in Elements(i) : x[1] = "in"
  <2>1. o_port \in Seq(Port) /\ i_port \in Seq(Port)
    BY DEF Types, PortTypes
  <2>2. /\ PortParams("out", o_port) \in Seq(Names)
        /\ Distinct(PortParams("out", o_port))
        /\ \A x \in Elements(PortParams("out", o_port)) : x[1] = "out"
    BY <2>1, PortParamsAre
  <2>3. /\ PortParams("in", i_port) \in Seq(Names)
        /\ Distinct(PortParams("in", i_port))
        /\ \A x \in Elements(PortParams("in", i_port)) : x[1] = "in"
    BY <2>1, PortParamsAre
  <2> QED
    BY <2>2, <2>3
<1>3. o \in Seq(X) /\ i \in Seq(X)
  <2>1. Names \subseteq X
    BY <1>1
  <2> QED
    BY <2>1, SeqMonotonic
<1>4. PICK p \in Seq(X) : /\ p = own /\ Len(p) = Len(parameter) /\ Distinct(p)
                          /\ \A x \in Elements(p) : x[1] = "param"
  <2>1. Len(parameter) \in Nat
    <3>1. parameter \in Seq(ParamRow)
      BY ParametersType DEF Types
    <3> QED
      BY <3>1, LenProperties
  <2>2. own \in [1 .. Len(parameter) -> X]
    BY <1>1, <2>1
  <2>3. own \in Seq(X) /\ Len(own) = Len(parameter)
    BY <2>1, <2>2, FunctionIsSeq
  <2>4. Distinct(own)
    BY <2>3 DEF Distinct
  <2>5. \A x \in Elements(own) : x[1] = "param"
    <3> SUFFICES ASSUME NEW x \in Elements(own) PROVE x[1] = "param"
      OBVIOUS
    <3>1. PICK k \in 1 .. Len(own) : x = own[k]
      BY DEF Elements
    <3>2. own[k] = <<"param", k>>
      BY <2>3
    <3> QED
      BY <3>1, <3>2
  <2> QED
    BY <2>3, <2>4, <2>5
<1> HIDE DEF own
<1>5. /\ p \o o \in Seq(X) /\ Len(p \o o) = Len(p) + Len(o)
      /\ Distinct(p \o o) /\ Elements(p \o o) = Elements(p) \cup Elements(o)
  <2>1. Elements(p) \cap Elements(o) = {}
    <3> SUFFICES ASSUME NEW x \in Elements(p), x \in Elements(o) PROVE FALSE
      OBVIOUS
    <3> QED
      BY <1>2, <1>4
  <2> QED
    BY <1>2, <1>3, <1>4, <2>1, DistinctConcat
<1>6. PICK po \in Seq(X) : po = p \o o
  BY <1>5
<1>7. /\ po \o i \in Seq(X) /\ Len(po \o i) = Len(po) + Len(i)
      /\ Distinct(po \o i)
  <2>1. Elements(po) \cap Elements(i) = {}
    <3> SUFFICES ASSUME NEW x \in Elements(po), x \in Elements(i) PROVE FALSE
      OBVIOUS
    <3>1. x[1] = "in"
      BY <1>2
    <3>2. x[1] = "param" \/ x[1] = "out"
      BY <1>2, <1>4, <1>5, <1>6
    <3> QED
      BY <3>1, <3>2
  <2>2. po \in Seq(X) /\ Distinct(po) /\ i \in Seq(X) /\ Distinct(i)
    BY <1>2, <1>3, <1>5, <1>6
  <2> QED
    BY <2>1, <2>2, DistinctConcat
<1>8. PICK poi \in Seq(X) : poi = po \o i
  BY <1>7
<1>9. runTimeParams = [num |-> runtime_param_count, set |-> poi]
  <2>1. runTimeParams = [num |-> runtime_param_count,
                         set |-> own \o PortParams("out", o_port)
                                     \o PortParams("in", i_port)]
    BY DEF AnnounceInv, WorkInv, own
  <2> QED
    BY <1>2, <1>4, <1>6, <1>8, <2>1
<1>10. runtime_param_count = Len(p) + Len(o) + Len(i)
  BY <1>2, <1>4 DEF AnnounceInv, CountInv
<1>11. Len(poi) = Len(p) + Len(o) + Len(i)
  BY <1>5, <1>6, <1>7, <1>8
<1>12. IsInjective(poi)
  <2>1. DOMAIN poi = 1 .. Len(poi)
    BY LenProperties
  <2> QED
    BY <1>7, <1>8, <2>1 DEF Distinct, IsInjective
<1> QED
  BY <1>9, <1>10, <1>11, <1>12

(* The work vector of a port.                                              *)
WidthAt(x) == IF x[1] = "out" THEN outWidth[x[2]] ELSE inWidth[x[2]]
WorkAt(x) ==
  [number |-> PortAt(x).dwork_idx, port |-> x, width |-> WidthAt(x),
   type |-> SlType(PortAt(x).data_type)]

LEMMA WorkVectorsAre ==
  ASSUME AnnounceInv, pc \in WorkIsSet
  PROVE  /\ dWork.num = dwork_count
         /\ \A x \in Slots : DWorkOf[x] # 0 => WorkAt(x) \in dWork.set
         /\ \A w \in dWork.set : \E x \in Slots : w = WorkAt(x) /\ DWorkOf[x] # 0
<1>1. PICK out : out = DWorks("out", o_port, outWidth)
  OBVIOUS
<1>2. PICK in : in = DWorks("in", i_port, inWidth)
  OBVIOUS
<1>3. dWork.num = dwork_count /\ dWork.set = out \cup in
  BY <1>1, <1>2 DEF AnnounceInv, WorkInv
<1>4. ASSUME NEW x \in Slots, DWorkOf[x] # 0 PROVE WorkAt(x) \in out \cup in
  <2>1. CASE x \in {"out"} \X (1 .. Len(o_port))
    <3>1. PICK k \in 1 .. Len(o_port) : x = <<"out", k>>
      BY <2>1
    <3> QED
      BY <1>1, <1>4, <3>1 DEF DWorks, DWorkOf, WorkAt, WidthAt, PortAt
  <2>2. CASE x \in {"in"} \X (1 .. Len(i_port))
    <3>1. PICK k \in 1 .. Len(i_port) : x = <<"in", k>>
      BY <2>2
    <3> QED
      BY <1>2, <1>4, <3>1 DEF DWorks, DWorkOf, WorkAt, WidthAt, PortAt
  <2> QED
    BY <2>1, <2>2 DEF Slots
<1>5. ASSUME NEW w \in out \cup in
      PROVE  \E x \in Slots : w = WorkAt(x) /\ DWorkOf[x] # 0
  <2>1. CASE w \in out
    <3>1. PICK k \in 1 .. Len(o_port) :
            /\ o_port[k].dwork_idx # 0
            /\ w = [number |-> o_port[k].dwork_idx, port |-> <<"out", k>>,
                    width |-> outWidth[k], type |-> SlType(o_port[k].data_type)]
      BY <1>1, <2>1 DEF DWorks
    <3>2. <<"out", k>> \in Slots
      BY DEF Slots
    <3> QED
      BY <3>1, <3>2 DEF DWorkOf, WorkAt, WidthAt, PortAt
  <2>2. CASE w \in in
    <3>1. PICK k \in 1 .. Len(i_port) :
            /\ i_port[k].dwork_idx # 0
            /\ w = [number |-> i_port[k].dwork_idx, port |-> <<"in", k>>,
                    width |-> inWidth[k], type |-> SlType(i_port[k].data_type)]
      BY <1>2, <2>2 DEF DWorks
    <3>2. <<"in", k>> \in Slots
      BY DEF Slots
    <3> QED
      BY <3>1, <3>2 DEF DWorkOf, WorkAt, WidthAt, PortAt
  <2> QED
    BY <2>1, <2>2
<1> QED
  BY <1>3, <1>4, <1>5

(* Elements with the numbers from 1 to n, each with a number of its own.   *)
LEMMA CountedByNumber ==
  ASSUME NEW W, NEW n \in Nat,
         \A w \in W : w.number \in 1 .. n,
         \A v, w \in W : v.number = w.number => v = w,
         \A i \in 1 .. n : \E w \in W : w.number = i
  PROVE  {w.number : w \in W} = 1 .. n /\ Cardinality(W) = n
<1> DEFINE f == [i \in 1 .. n |-> CHOOSE w \in W : w.number = i]
<1>1. \A i \in 1 .. n : f[i] \in W /\ f[i].number = i
  OBVIOUS
<1>2. f \in [1 .. n -> W]
  BY <1>1
<1>3. DOMAIN f = 1 .. n
  OBVIOUS
<1> HIDE DEF f
<1>4. f \in Injection(1 .. n, W)
  BY <1>1, <1>2, <1>3 DEF Injection, IsInjective
<1>5. f \in Surjection(1 .. n, W)
  <2>1. \A w \in W : w = f[w.number]
    BY <1>1
  <2> QED
    BY <1>2, <2>1 DEF Surjection
<1>6. ExistsBijection(1 .. n, W)
  BY <1>4, <1>5 DEF ExistsBijection, Bijection
<1> QED
  BY <1>6, FS_CountingElements

LEMMA WorkVectorsAreDefined ==
  ASSUME Types, AnnounceInv, pc \in WorkIsSet
  PROVE  /\ {w.number : w \in dWork.set} = 1 .. dWork.num
         /\ Cardinality(dWork.set) = dWork.num
<1>1. PICK n \in Nat : n = dWork.num /\ n = dwork_count
  BY WorkVectorsAre DEF Types, PortTypes
<1> DEFINE W == dWork.set
<1>2. Numbered(DWorkOf, n) /\ DOMAIN DWorkOf = Slots
  BY <1>1 DEF AnnounceInv, DWorkInv, DWorkOf
<1>3. /\ \A x \in Slots : DWorkOf[x] # 0 => WorkAt(x) \in W
      /\ \A w \in W : \E x \in Slots : w = WorkAt(x) /\ DWorkOf[x] # 0
  BY WorkVectorsAre
<1>4. \A x \in Slots : WorkAt(x).number = DWorkOf[x]
  BY DEF WorkAt, DWorkOf
<1>5. \A w \in W : w.number \in 1 .. n
  <2> TAKE w \in W
  <2>1. PICK x \in Slots : w = WorkAt(x) /\ DWorkOf[x] # 0
    BY <1>3
  <2>2. DWorkOf[x] \in 0 .. n
    BY <1>2 DEF Numbered
  <2> QED
    BY <1>4, <2>1, <2>2
<1>6. \A v, w \in W : v.number = w.number => v = w
  <2> SUFFICES ASSUME NEW v \in W, NEW w \in W, v.number = w.number PROVE v = w
    OBVIOUS
  <2>1. PICK x \in Slots : v = WorkAt(x) /\ DWorkOf[x] # 0
    BY <1>3
  <2>2. PICK y \in Slots : w = WorkAt(y) /\ DWorkOf[y] # 0
    BY <1>3
  <2>3. DWorkOf[x] = DWorkOf[y]
    BY <1>4, <2>1, <2>2
  <2>4. x = y
    BY <1>2, <2>1, <2>3 DEF Numbered
  <2> QED
    BY <2>1, <2>2, <2>4
<1>7. \A i \in 1 .. n : \E w \in W : w.number = i
  <2> TAKE i \in 1 .. n
  <2>1. PICK x \in Slots : DWorkOf[x] = i
    BY <1>2 DEF Numbered
  <2> QED
    BY <1>3, <1>4, <2>1
<1>8. {w.number : w \in W} = 1 .. n /\ Cardinality(W) = n
  BY <1>5, <1>6, <1>7, CountedByNumber
<1> QED
  BY <1>1, <1>8

LEMMA StatesAreDefined ==
  ASSUME AnnounceInv, pc \in WorkIsSet
  PROVE  states = FilteredWidth
<1>1. pc \in Kept
  BY DEF WorkIsSet, Kept
<1>2. \A k \in 1 .. Len(o_port) : outWidth[k] = Len(o_port[k].pdo)
  BY <1>1 DEF AnnounceInv, MemoryInv
<1>3. states = Total(Filtered(o_port))
  BY <1>1 DEF AnnounceInv, MemoryInv
<1>4. Filtered(o_port) = [k \in 1 .. Len(o_port) |->
                            IF IsSet(o_port[k].spec[3]) THEN outWidth[k] ELSE 0]
  BY <1>2 DEF Filtered
<1> QED
  BY <1>3, <1>4 DEF FilteredWidth

LEMMA PortsHavePdoType ==
  ASSUME Types, AnnounceInv, pc \in WorkIsSet
  PROVE  MemoryHasPdoType
<1>1. pc \in Kept \ {"failed"} /\ pc \in Kept
  BY DEF WorkIsSet, Kept, Writing
<1>2. /\ \A k \in 1 .. Len(o_port) : OutputFits(o_port[k])
      /\ \A k \in 1 .. Len(i_port) : /\ SignalFits(i_port[k], inType[k])
                                     /\ inWidth[k] <= Len(i_port[k].pdo)
                                     /\ inType[k] # Dynamic
      /\ \A k \in 1 .. Len(o_port) : outWidth[k] = Len(o_port[k].pdo)
  BY <1>1 DEF AnnounceInv, MemoryInv, WorkInv
<1>3. DOMAIN o_port = 1 .. Len(o_port) /\ DOMAIN i_port = 1 .. Len(i_port)
        /\ o_port \in Seq(Port)
  BY LenProperties DEF Types, PortTypes
<1>4. \A x \in Slots : DWorkOf[x] # 0 => WorkAt(x) \in dWork.set
  BY WorkVectorsAre
<1>5. ASSUME NEW k \in 1 .. Len(i_port)
      PROVE  HasPdoType("in", k, i_port[k], inType[k], inWidth[k])
  <2>1. i_port[k].dwork_idx = 0 => inType[k] = SlType(i_port[k].data_type)
    BY <1>2 DEF SignalFits
  <2>2. PICK x : x = <<"in", k>>
    OBVIOUS
  <2>3. x \in Slots /\ DWorkOf[x] = i_port[k].dwork_idx
    BY <2>2 DEF Slots, DWorkOf, PortAt
  <2>4. WorkAt(x) = [number |-> i_port[k].dwork_idx, port |-> x,
                     width |-> inWidth[k], type |-> SlType(i_port[k].data_type)]
    BY <2>2 DEF WorkAt, WidthAt, PortAt
  <2> QED
    BY <1>2, <1>4, <2>1, <2>2, <2>3, <2>4 DEF HasPdoType
<1>6. ASSUME NEW k \in 1 .. Len(o_port)
      PROVE  HasPdoType("out", k, o_port[k], o_port[k].sl_port_data_type,
                        outWidth[k])
  <2>1. o_port[k].dwork_idx = 0 =>
          o_port[k].sl_port_data_type = SlType(o_port[k].data_type)
    BY <1>2 DEF OutputFits
  <2>2. PICK x : x = <<"out", k>>
    OBVIOUS
  <2>3. x \in Slots /\ DWorkOf[x] = o_port[k].dwork_idx
    BY <2>2 DEF Slots, DWorkOf, PortAt
  <2>4. WorkAt(x) = [number |-> o_port[k].dwork_idx, port |-> x,
                     width |-> outWidth[k], type |-> SlType(o_port[k].data_type)]
    BY <2>2 DEF WorkAt, WidthAt, PortAt
  <2>5. outWidth[k] <= Len(o_port[k].pdo)
    <3>1. o_port[k] \in Port
      BY <1>3, ElementOfSeq
    <3>2. o_port[k].pdo \in Seq(Element)
      BY <3>1 DEF Port
    <3>3. Len(o_port[k].pdo) \in Nat
      BY <3>2, LenProperties
    <3> QED
      BY <1>2, <3>3
  <2> QED
    BY <1>4, <2>1, <2>2, <2>3, <2>4, <2>5 DEF HasPdoType
<1> QED
  BY <1>3, <1>5, <1>6 DEF MemoryHasPdoType

LEMMA AnnouncedFromInv == Types /\ AnnounceInv => PortsAreAsAnnounced
<1> SUFFICES ASSUME Types, AnnounceInv PROVE PortsAreAsAnnounced
  OBVIOUS
<1>1. WorkIsSet = Writing \cup {"written"}
  BY DEF WorkIsSet
<1>2. AnnouncedIsDefined
  BY <1>1, RunTimeParamsAreDefined, WorkVectorsAreDefined, StatesAreDefined
     DEF AnnouncedIsDefined
<1>3. MemoryHasPdoType
  BY <1>1, PortsHavePdoType DEF MemoryHasPdoType
<1> QED
  BY <1>2, <1>3 DEF PortsAreAsAnnounced

(* As many run-time parameters, work vectors and states as the block       *)
(* announces while it reads its configuration are defined when the model   *)
(* is compiled, each once, and the memory to which a port is copied has    *)
(* the type of the PDO and a place for each element: for any configuration *)
(* and whatever types and widths the model connects, in any order.         *)
THEOREM AnnouncedHold == Spec => []PortsAreAsAnnounced
<1>1. Init => Types /\ AnnounceInv
  BY InitTypes, InitAnnounce
<1>2. Types /\ AnnounceInv /\ [Next]_vars => (Types /\ AnnounceInv)'
  BY NextTypes, NextAnnounce
<1>3. Types /\ AnnounceInv => PortsAreAsAnnounced
  BY AnnouncedFromInv
<1> QED
  BY <1>1, <1>2, <1>3, PTL DEF Spec

-----------------------------------------------------------------------------
(***************************************************************************)
(* SlaveStart: from the block to the slave, for any configuration of it.   *)
(***************************************************************************)

-----------------------------------------------------------------------------
(* The block *)

LEMMA StepOfBlock == [StartNext]_<<vars, start>> => [Next]_vars
BY DEF StartNext

(* The generated program leaves the block alone: what EcSlaveProofs shows  *)
(* of a block in Simulink holds while its slave is started.                *)
THEOREM BlockIsKept == StartSpec => Spec
<1>1. StartInit => Init
  BY DEF StartInit
<1> QED
  BY <1>1, StepOfBlock, PTL DEF StartSpec, Spec

-----------------------------------------------------------------------------
(* Sequences of at most one element each *)

InOrder(flat, s, m, at) ==
  /\ \A a \in 1 .. Len(flat) :
       /\ at[a] \in 1 .. m /\ Len(s[at[a]]) = 1 /\ flat[a] = s[at[a]][1]
  /\ \A a, b \in 1 .. Len(flat) : a < b => at[a] < at[b]
  /\ \A k \in 1 .. m : Len(s[k]) = 1 => \E a \in 1 .. Len(flat) : at[a] = k

LEMMA OneMoreInOrder ==
  ASSUME NEW X, NEW flat \in Seq(X), NEW s, NEW x \in Seq(X),
         NEW m \in Nat, NEW at, InOrder(flat, s, m, at),
         x = s[m + 1], Len(x) \in {0, 1}
  PROVE  \E new : InOrder(flat \o x, s, m + 1, new)
<1>1. Len(flat) \in Nat /\ Len(x) \in Nat /\ Len(flat \o x) = Len(flat) + Len(x)
        /\ \A a \in 1 .. Len(flat) + Len(x) :
             (flat \o x)[a] = IF a <= Len(flat) THEN flat[a] ELSE x[a - Len(flat)]
  BY ConcatProperties, LenProperties
<1>2. PICK more \in Seq(X), n \in Nat : more = flat \o x /\ n = Len(flat)
  BY <1>1, ConcatProperties
<1>3. CASE Len(x) = 0
  <2>1. Len(more) = n /\ \A a \in 1 .. n : more[a] = flat[a]
    BY <1>1, <1>2, <1>3
  <2>2. \A k \in 1 .. m + 1 : Len(s[k]) = 1 => k \in 1 .. m
    <3>1. Len(s[m + 1]) # 1
      BY <1>3
    <3>2. \A k \in 1 .. m + 1 : k \in 1 .. m \/ k = m + 1
      OBVIOUS
    <3> QED
      BY <3>1, <3>2
  <2>3. 1 .. m \subseteq 1 .. m + 1
    OBVIOUS
  <2>4. InOrder(more, s, m + 1, at)
    BY <1>2, <2>1, <2>2, <2>3 DEF InOrder
  <2> QED
    BY <1>2, <2>4
<1>4. CASE Len(x) = 1
  <2> DEFINE new == [a \in 1 .. n + 1 |-> IF a <= n THEN at[a] ELSE m + 1]
  <2>1. /\ Len(more) = n + 1 /\ more[n + 1] = x[1]
        /\ \A a \in 1 .. n : more[a] = flat[a] /\ a \in 1 .. n + 1
    BY <1>1, <1>2, <1>4
  <2>2. /\ new[n + 1] = m + 1
        /\ \A a \in 1 .. n : new[a] = at[a]
    OBVIOUS
  <2>3. \A a \in 1 .. n + 1 : a \in 1 .. n \/ a = n + 1
    OBVIOUS
  <2> HIDE DEF new
  <2>4. \A a \in 1 .. n + 1 :
          /\ new[a] \in 1 .. m + 1 /\ Len(s[new[a]]) = 1
          /\ more[a] = s[new[a]][1]
    <3> TAKE a \in 1 .. n + 1
    <3>1. CASE a \in 1 .. n
      <4>1. at[a] \in 1 .. m /\ Len(s[at[a]]) = 1 /\ flat[a] = s[at[a]][1]
        BY <1>2, <3>1 DEF InOrder
      <4>2. at[a] \in 1 .. m + 1
        BY <4>1
      <4> QED
        BY <2>1, <2>2, <3>1, <4>1, <4>2
    <3>2. CASE a = n + 1
      <4>1. m + 1 \in 1 .. m + 1
        OBVIOUS
      <4> QED
        BY <1>4, <2>1, <2>2, <3>2, <4>1
    <3> QED
      BY <2>3, <3>1, <3>2
  <2>5. \A a, b \in 1 .. n + 1 : a < b => new[a] < new[b]
    <3> SUFFICES ASSUME NEW a \in 1 .. n + 1, NEW b \in 1 .. n + 1, a < b
                 PROVE  new[a] < new[b]
      OBVIOUS
    <3>1. a \in 1 .. n
      OBVIOUS
    <3>2. at[a] \in 1 .. m
      BY <1>2, <3>1 DEF InOrder
    <3>3. CASE b \in 1 .. n
      BY <1>2, <2>2, <3>1, <3>3 DEF InOrder
    <3>4. CASE b = n + 1
      BY <2>2, <3>1, <3>2, <3>4
    <3> QED
      BY <2>3, <3>3, <3>4
  <2>6. \A k \in 1 .. m + 1 : Len(s[k]) = 1 => \E a \in 1 .. n + 1 : new[a] = k
    <3> TAKE k \in 1 .. m + 1
    <3>1. CASE k \in 1 .. m
      <4>1. Len(s[k]) = 1 => \E a \in 1 .. n : at[a] = k
        BY <1>2, <3>1 DEF InOrder
      <4> QED
        BY <2>1, <2>2, <4>1
    <3>2. CASE k = m + 1
      <4>1. n + 1 \in 1 .. n + 1
        OBVIOUS
      <4> QED
        BY <2>2, <3>2, <4>1
    <3> QED
      BY <3>1, <3>2
  <2>7. InOrder(more, s, m + 1, new)
    BY <2>1, <2>4, <2>5, <2>6 DEF InOrder
  <2> QED
    BY <1>2, <2>7
<1> QED
  BY <1>3, <1>4

LEMMA UnitsInOrder ==
  ASSUME NEW X, NEW s \in Seq(Seq(X)),
         \A k \in 1 .. Len(s) : Len(s[k]) \in {0, 1}
  PROVE  \E at : InOrder(FlattenSeq(s), s, Len(s), at)
<1>1. PICK f \in [0 .. Len(s) -> Seq(X)] :
        /\ f[0] = <<>> /\ \A i \in 1 .. Len(s) : f[i] = f[i - 1] \o s[i]
        /\ FlattenSeq(s) = f[Len(s)]
  BY FlattenIs
<1> DEFINE Good(i) == \E at : InOrder(f[i], s, i, at)
           S == {i \in Nat : i <= Len(s) => Good(i)}
<1>2. Len(s) \in Nat /\ \A i \in 1 .. Len(s) : s[i] \in Seq(X)
  BY LenProperties, ElementOfSeq
<1>3. 0 \in S
  <2>1. 1 .. Len(<<>>) = {} /\ 1 .. 0 = {}
    OBVIOUS
  <2>2. InOrder(<<>>, s, 0, <<>>)
    BY <2>1 DEF InOrder
  <2> QED
    BY <1>1, <2>2
<1>4. ASSUME NEW i \in Nat, i \in S PROVE i + 1 \in S
  <2> SUFFICES ASSUME i + 1 <= Len(s) PROVE Good(i + 1)
    BY <1>4
  <2>1. i + 1 \in 1 .. Len(s) /\ (i + 1) - 1 = i /\ i \in 0 .. Len(s)
          /\ i <= Len(s)
    BY <1>2, <1>4
  <2>2. PICK at : InOrder(f[i], s, i, at)
    BY <1>4, <2>1
  <2>3. PICK flat \in Seq(X), x \in Seq(X) : flat = f[i] /\ x = s[i + 1]
    BY <1>2, <2>1
  <2>4. InOrder(flat, s, i, at) /\ x = s[i + 1] /\ Len(x) \in {0, 1}
    BY <2>1, <2>2, <2>3
  <2>5. \E new : InOrder(flat \o x, s, i + 1, new)
    BY <2>4, OneMoreInOrder
  <2> QED
    BY <1>1, <2>1, <2>3, <2>5
<1>5. Nat \subseteq S
  <2> HIDE DEF S
  <2> QED
    BY <1>3, <1>4, Induct
<1> HIDE DEF Good
<1>6. Good(Len(s))
  BY <1>2, <1>5
<1> QED
  BY <1>1, <1>6 DEF Good

-----------------------------------------------------------------------------
(* What the block describes: single values have a subindex and a type of   *)
(* whole bytes; clocks are written if they are active and there are sync   *)
(* managers.                                                               *)

SdoIsLegal(row) == row.bytes = 0 => row.subindex # -1 /\ IsGeneric(row.type)
SdoInv == \A i \in 1 .. Len(sdo) : SdoIsLegal(sdo[i])

BeforeDc == BeforeRtw \cup {"rtw soe", "rtw sm"}
AfterDc == {"rtw out", "rtw in", "written"}
DcInv ==
  /\ pc \in BeforeDc => index.dc = -1
  /\ pc = "rtw dc" => index.dc = -1 /\ sm # <<>>
  /\ pc \in AfterDc => (index.dc # -1 <=> dc.active /\ sm # <<>>)

LEMMA SdoConfigIsLegal ==
  ASSUME NEW rows \in SdoLists, NEW matrix \in BOOLEAN,
         matrix => AllNumbers(rows), NEW i \in 1 .. Len(rows),
         ~(IF matrix THEN SdoArrayRefused(rows[i]) ELSE SdoRefused(rows[i]))
  PROVE  SdoIsLegal(SdoConfig(rows[i]))
<1> DEFINE row == rows[i]
           dt == GetDataType(row.type)
<1>0. row \in SdoRow
  BY ConfigAssumption
<1>1. row.n \in Nat /\ row.type \in TypeSpec /\ row.subindex \in Int
  BY <1>0 DEF SdoRow
<1>5. \A z \in 0 .. 255 : z # -1
  OBVIOUS
<1>2. CASE matrix
  <2>1. row.type.kind = "number" /\ row.n = 1 /\ row.value = "number"
    BY <1>2 DEF AllNumbers
  <2>2. PICK h \in Int : h = row.type.hundredths
    BY <1>1, <2>1 DEF TypeSpec
  <2>3. OfReal(h) # NoType /\ IsGeneric(OfReal(h)) /\ row.subindex \in 0 .. 255
    BY <1>2, <2>2 DEF SdoArrayRefused
  <2>4. OfReal(0) = NoType
    BY DEF OfReal, DataType, NoType
  <2>5. dt = OfReal(h)
    BY <2>1, <2>2, <2>3, <2>4 DEF GetDataType, OrBad
  <2>6. SdoIsValue(row, dt)
    BY <2>1, <2>3, <2>5 DEF SdoIsValue
  <2>10. row.subindex # -1
    BY <1>5, <2>3
  <2> HIDE DEF row, dt
  <2>7. SdoConfig(row) = [subindex |-> row.subindex, type |-> dt, bytes |-> 0]
    BY <2>6 DEF SdoConfig, dt
  <2>8. SdoConfig(row).subindex # -1 /\ IsGeneric(dt)
          /\ SdoConfig(row).type = dt
    <3>1. SdoConfig(row).subindex = row.subindex /\ SdoConfig(row).type = dt
      BY <2>7
    <3> QED
      BY <2>3, <2>5, <2>10, <3>1
  <2>9. SdoIsLegal(SdoConfig(row))
    BY <2>8 DEF SdoIsLegal
  <2> QED
    BY <2>9 DEF row
<1>3. CASE ~matrix /\ SdoIsValue(row, dt)
  <2>1. row.subindex \in 0 .. 255
    BY <1>1, <1>3 DEF SdoRefused
  <2>2. dt # NoType
    BY <1>3 DEF SdoIsValue
  <2>3. IsGeneric(dt)
    BY <1>3, <2>2 DEF SdoRefused
  <2>7. row.subindex # -1
    BY <1>5, <2>1
  <2> HIDE DEF row, dt
  <2>4. SdoConfig(row) = [subindex |-> row.subindex, type |-> dt, bytes |-> 0]
    BY <1>3 DEF SdoConfig, dt
  <2>5. SdoConfig(row).subindex # -1 /\ SdoConfig(row).type = dt
    <3>1. SdoConfig(row).subindex = row.subindex /\ SdoConfig(row).type = dt
      BY <2>4
    <3> QED
      BY <2>7, <3>1
  <2>6. SdoIsLegal(SdoConfig(row))
    BY <2>3, <2>5 DEF SdoIsLegal
  <2> QED
    BY <2>6 DEF row
<1>4. CASE ~matrix /\ ~SdoIsValue(row, dt)
  <2>1. row.n # 0
    BY <1>4 DEF SdoRefused
  <2> HIDE DEF row, dt
  <2>2. SdoConfig(row) = [subindex |-> row.subindex, type |-> 1008,
                          bytes |-> row.n]
    BY <1>4 DEF SdoConfig, dt
  <2>3. SdoIsLegal(SdoConfig(row))
    BY <2>1, <2>2 DEF SdoIsLegal
  <2> QED
    BY <2>3 DEF row
<1> QED
  BY <1>2, <1>3, <1>4

LEMMA NextSdo == Types /\ SdoInv /\ [Next]_vars => SdoInv'
<1> SUFFICES ASSUME Types, SdoInv, [Next]_vars PROVE SdoInv'
  OBVIOUS
<1>1. CASE UNCHANGED sdo
  BY <1>1 DEF SdoInv
<1>2. CASE GetSlaveSdo /\ ~Refuse
  <2>1. PICK rows \in SdoLists, matrix \in BOOLEAN :
          /\ matrix => AllNumbers(rows)
          /\ \A i \in 1 .. Len(rows) :
               ~(IF matrix THEN SdoArrayRefused(rows[i]) ELSE SdoRefused(rows[i]))
          /\ sdo' = [i \in 1 .. Len(rows) |-> SdoConfig(rows[i])]
    BY <1>2 DEF GetSlaveSdo
  <2>2. \A i \in 1 .. Len(rows) : SdoIsLegal(SdoConfig(rows[i]))
    BY <2>1, SdoConfigIsLegal
  <2>3. Len(rows) \in Nat
    BY ConfigAssumption, LenProperties
  <2>4. Len(sdo') = Len(rows)
    BY <2>1, <2>3
  <2> QED
    BY <2>1, <2>2, <2>4 DEF SdoInv
<1>3. CASE Getters
  <2>1. Refuse => UNCHANGED sdo
    BY DEF Refuse, config
  <2>2. GetOutputPorts \/ GetInputPorts => UNCHANGED sdo
    <3> SUFFICES ASSUME GetOutputPorts \/ GetInputPorts PROVE UNCHANGED sdo
      OBVIOUS
    <3>1. PICK output \in BOOLEAN :
            IF output THEN GetOutputPorts ELSE GetInputPorts
      OBVIOUS
    <3>2. PortsAreRead(output) => UNCHANGED sdo
      BY DEF PortsAreRead, config
    <3>3. \A form : PortIsRead(form, output) => UNCHANGED sdo
      BY DEF PortIsRead, config
    <3> QED
      BY <2>1, <3>1, <3>2, <3>3, GetPortsIs
  <2>3. GetSlaveInfo \/ GetSlaveSoe \/ GetSlaveDc \/ GetSyncManagers
          \/ GetParameterConfig => UNCHANGED sdo
    BY <2>1 DEF GetSlaveInfo, GetSlaveSoe, GetSlaveDc, GetSyncManagers,
       GetParameterConfig, config
  <2> QED
    BY <1>1, <1>2, <1>3, <2>1, <2>2, <2>3 DEF Getters
<1>4. CASE Compile
  BY <1>1, <1>4 DEF Compile, InitializeSizes, Refuse, SetInputPortDataType,
     SetInputPortWidth, SetDefaultPortDataTypes, SetDefaultPortDimensionInfo,
     SetWorkWidths, config
<1>5. CASE Rtw \/ Terminate
  BY <1>1, <1>5 DEF Rtw, WriteSdo, WriteSoe, WriteSyncManagers, WriteDc,
     WriteOutputPort, WriteInputPort, WritePort, WritePortsEnd, RtwFails,
     Terminate, config
<1>6. CASE UNCHANGED vars
  BY <1>1, <1>6 DEF vars, config
<1> QED
  BY <1>3, <1>4, <1>5, <1>6 DEF Next

LEMMA NextDc == Types /\ DcInv /\ [Next]_vars => DcInv'
<1> SUFFICES ASSUME Types, DcInv, [Next]_vars PROVE DcInv'
  OBVIOUS
<1>1. index \in [sdo : Seq(Nat), soe : Seq(Nat), dc : Nat \cup {-1},
                 out : Seq(Nat), in : Seq(Nat)]
        /\ param_idx \in Nat
  BY LenProperties DEF Types, RtwTypes
<1>2. CASE /\ pc \in BeforeDc /\ pc' \in BeforeDc \cup {"refused", "failed", "end"}
           /\ index'.dc = index.dc
  BY <1>2 DEF DcInv, BeforeDc, BeforeRtw, Sections, AfterDc
<1>3. CASE pc' \in {"refused", "failed", "end"}
  BY <1>3 DEF DcInv, BeforeDc, BeforeRtw, Sections, AfterDc
<1>4. CASE Getters
  <2>1. pc \in Sections
    BY <1>4 DEF Getters, GetSlaveInfo, GetSlaveSdo, GetSlaveSoe, GetSlaveDc,
       GetSyncManagers, GetParameterConfig, GetOutputPorts, GetInputPorts,
       GetPorts, Sections
  <2>2. Refuse => pc' = "refused"
    BY DEF Refuse
  <2>3. ASSUME GetOutputPorts \/ GetInputPorts, ~Refuse
        PROVE  UNCHANGED index /\ pc' \in BeforeDc
    <3>1. PICK output \in BOOLEAN :
            IF output THEN GetOutputPorts ELSE GetInputPorts
      BY <2>3
    <3>2. PortsAreRead(output) => UNCHANGED index /\ pc' \in BeforeDc
      BY DEF PortsAreRead, rtw, BeforeDc, BeforeRtw, Sections
    <3>3. \A form : PortIsRead(form, output)
                      => UNCHANGED index /\ pc' \in BeforeDc
      BY <2>1 DEF PortIsRead, rtw, BeforeDc, BeforeRtw
    <3> QED
      BY <2>3, <3>1, <3>2, <3>3, GetPortsIs
  <2>4. GetSlaveInfo \/ GetSlaveSdo \/ GetSlaveSoe \/ GetSlaveDc
          \/ GetSyncManagers \/ GetParameterConfig
          => Refuse \/ (UNCHANGED index /\ pc' \in BeforeDc)
    BY DEF GetSlaveInfo, GetSlaveSdo, GetSlaveSoe, GetSlaveDc,
       GetSyncManagers, GetParameterConfig, rtw, BeforeDc, BeforeRtw, Sections
  <2>5. pc' = "refused" \/ (UNCHANGED index /\ pc' \in BeforeDc)
    BY <1>4, <2>2, <2>3, <2>4 DEF Getters
  <2>6. pc \in BeforeDc
    BY <2>1 DEF BeforeDc, BeforeRtw
  <2> QED
    BY <1>2, <1>3, <2>5, <2>6
<1>5. CASE Compile
  <2>1. InitializeSizes => /\ pc = "sizes" /\ UNCHANGED index
                           /\ pc' \in {"refused", "ports"}
    BY DEF InitializeSizes, Refuse, rtw
  <2>2. \A p, id : SetInputPortDataType(p, id)
          => pc = "ports" /\ UNCHANGED index /\ pc' \in {"ports", "failed"}
    BY DEF SetInputPortDataType, Fail, rtw
  <2>3. \A p, width : SetInputPortWidth(p, width)
          => pc = "ports" /\ UNCHANGED index /\ pc' \in {"ports", "failed"}
    BY DEF SetInputPortWidth, Fail, rtw
  <2>4. SetDefaultPortDataTypes \/ SetDefaultPortDimensionInfo
          => pc = "ports" /\ UNCHANGED index /\ pc' = "ports"
    BY DEF SetDefaultPortDataTypes, SetDefaultPortDimensionInfo, rtw
  <2>5. SetWorkWidths => pc = "ports" /\ UNCHANGED index /\ pc' = "rtw sdo"
    BY DEF SetWorkWidths, rtw
  <2>6. /\ pc \in {"sizes", "ports"} /\ UNCHANGED index
        /\ pc' \in {"refused", "failed", "ports", "rtw sdo"}
    BY <1>5, <2>1, <2>2, <2>3, <2>4, <2>5 DEF Compile
  <2> QED
    BY <1>2, <2>6 DEF BeforeDc, BeforeRtw, Sections
<1>6. CASE WriteSdo \/ WriteSoe
  <2>1. index'.dc = index.dc
    BY <1>1, <1>6 DEF WriteSdo, WriteSoe
  <2>2. pc \in BeforeDc /\ pc' \in BeforeDc
    BY <1>6 DEF WriteSdo, WriteSoe, BeforeDc, BeforeRtw
  <2> QED
    BY <1>2, <2>1, <2>2
<1>7. CASE WriteSyncManagers
  <2>1. /\ pc = "rtw sm" /\ pc' = IF sm = <<>> THEN "rtw out" ELSE "rtw dc"
        /\ UNCHANGED <<index, sm, dc>>
    BY <1>7 DEF WriteSyncManagers, config
  <2>2. index.dc = -1
    BY <2>1 DEF DcInv, BeforeDc
  <2> QED
    BY <2>1, <2>2 DEF DcInv, BeforeDc, BeforeRtw, Sections, AfterDc
<1>8. CASE WriteDc
  <2>1. pc = "rtw dc" /\ pc' = "rtw out" /\ UNCHANGED <<sm, dc>>
    BY <1>8 DEF WriteDc, config
  <2>2. index'.dc = IF dc.active THEN param_idx ELSE index.dc
    BY <1>1, <1>8 DEF WriteDc
  <2>3. index.dc = -1 /\ sm # <<>>
    BY <2>1 DEF DcInv
  <2>4. param_idx # -1
    BY <1>1
  <2> QED
    BY <2>1, <2>2, <2>3, <2>4 DEF DcInv, BeforeDc, BeforeRtw, Sections, AfterDc
<1>9. CASE WriteOutputPort \/ WriteInputPort \/ WritePortsEnd
  <2>1. pc \in {"rtw out", "rtw in"} /\ pc' \in {"rtw out", "rtw in", "written"}
          /\ UNCHANGED <<sm, dc>>
    BY <1>9 DEF WriteOutputPort, WriteInputPort, WritePortsEnd, WritePort,
       config
  <2>2. index'.dc = index.dc
    BY <1>1, <1>9 DEF WriteOutputPort, WriteInputPort, WritePortsEnd,
       WritePort, rtw
  <2> QED
    BY <2>1, <2>2 DEF DcInv, BeforeDc, BeforeRtw, Sections, AfterDc
<1>10. CASE RtwFails \/ Terminate
  BY <1>3, <1>10 DEF RtwFails, Fail, Terminate
<1>11. CASE UNCHANGED vars
  BY <1>11 DEF vars, config, rtw, DcInv
<1> QED
  BY <1>4, <1>5, <1>6, <1>7, <1>8, <1>9, <1>10, <1>11 DEF Next, Rtw

LEMMA InitDc == Init => SdoInv /\ DcInv
<1> SUFFICES ASSUME Init PROVE SdoInv /\ DcInv
  OBVIOUS
<1>1. pc = "address" /\ index.dc = -1 /\ 1 .. Len(sdo) = {}
  BY DEF Init
<1> QED
  BY <1>1 DEF SdoInv, DcInv, BeforeDc, BeforeRtw, Sections, AfterDc

-----------------------------------------------------------------------------
(* The steps of the generated program *)

StageInv ==
  /\ stage # "model" => pc = "written"
  /\ Configured => commands = Commands

LEMMA NextStage == StageInv /\ [StartNext]_<<vars, start>> => StageInv'
<1> SUFFICES ASSUME StageInv, [StartNext]_<<vars, start>> PROVE StageInv'
  OBVIOUS
<1>1. CASE stage = "model" /\ UNCHANGED start
  BY <1>1 DEF StageInv, start, Configured
<1>2. ASSUME UNCHANGED vars PROVE Commands' = Commands /\ UNCHANGED pc
  BY <1>2 DEF vars, config, rtw, Commands, SdoCommands, SoeCommands,
     SdoCommand, HasCall, Setting
<1>3. CASE Generate /\ UNCHANGED vars
  BY <1>2, <1>3 DEF Generate, StageInv, Configured
<1>4. CASE InitSlave /\ UNCHANGED vars
  BY <1>2, <1>4 DEF InitSlave, StartFails, StageInv, Configured
<1>5. CASE (RegisterPdos \/ StartSlaves \/ CopyInputs \/ CopyOutputs)
             /\ UNCHANGED vars
  BY <1>2, <1>5 DEF RegisterPdos, StartSlaves, CopyInputs, CopyOutputs,
     StartFails, StageInv, Configured
<1>6. CASE UNCHANGED <<vars, start>>
  BY <1>2, <1>6 DEF StageInv, start, Configured
<1> QED
  BY <1>1, <1>3, <1>4, <1>5, <1>6 DEF StartNext, Start

-----------------------------------------------------------------------------
(* The calls of init_slave *)

(* w is u and then v.                                                      *)
Pieces(w, u, v) ==
  /\ Len(w) = Len(u) + Len(v)
  /\ \A i \in 1 .. Len(u) : w[i] = u[i]
  /\ \A i \in 1 .. Len(v) : w[Len(u) + i] = v[i]

LEMMA ConcatPieces ==
  ASSUME NEW Y, NEW u \in Seq(Y), NEW v \in Seq(Y)
  PROVE  u \o v \in Seq(Y) /\ Pieces(u \o v, u, v)
<1>1. Len(u) \in Nat /\ Len(v) \in Nat
  BY LenProperties
<1>2. PICK w \in Seq(Y) :
        /\ w = u \o v /\ Len(w) = Len(u) + Len(v)
        /\ \A i \in 1 .. Len(u) + Len(v) :
             w[i] = IF i <= Len(u) THEN u[i] ELSE v[i - Len(u)]
  <2>1. /\ u \o v \in Seq(Y) /\ Len(u \o v) = Len(u) + Len(v)
        /\ \A i \in 1 .. Len(u) + Len(v) :
             (u \o v)[i] = IF i <= Len(u) THEN u[i] ELSE v[i - Len(u)]
    BY ConcatProperties
  <2> QED
    BY <2>1
<1>3. \A i \in 1 .. Len(u) : i \in 1 .. Len(u) + Len(v) /\ i <= Len(u)
  BY <1>1
<1>4. \A i \in 1 .. Len(v) : /\ Len(u) + i \in 1 .. Len(u) + Len(v)
                             /\ ~(Len(u) + i <= Len(u))
                             /\ (Len(u) + i) - Len(u) = i
  BY <1>1
<1>5. \A i \in 1 .. Len(u) : w[i] = u[i]
  BY <1>2, <1>3
<1>6. \A i \in 1 .. Len(v) : w[Len(u) + i] = v[i]
  BY <1>2, <1>4
<1> QED
  BY <1>2, <1>5, <1>6 DEF Pieces

(* Where each of four pieces is.                                           *)
FourIn(w, a, b, c, d) ==
  /\ Len(w) = Len(a) + Len(b) + Len(c) + Len(d)
  /\ \A i \in 1 .. Len(a) : w[i] = a[i]
  /\ \A i \in 1 .. Len(b) : w[Len(a) + i] = b[i]
  /\ \A i \in 1 .. Len(c) : w[Len(a) + Len(b) + i] = c[i]
  /\ \A i \in 1 .. Len(d) : w[Len(a) + Len(b) + Len(c) + i] = d[i]

LEMMA FourPieces ==
  ASSUME NEW Y, NEW a \in Seq(Y), NEW b \in Seq(Y), NEW c \in Seq(Y),
         NEW d \in Seq(Y)
  PROVE  \E w \in Seq(Y) : w = a \o b \o c \o d /\ FourIn(w, a, b, c, d)
<1>1. Len(a) \in Nat /\ Len(b) \in Nat /\ Len(c) \in Nat /\ Len(d) \in Nat
  BY LenProperties
<1>2. PICK x \in Seq(Y) : x = a \o b /\ Pieces(x, a, b)
  BY ConcatPieces
<1>3. PICK y \in Seq(Y) : y = x \o c /\ Pieces(y, x, c)
  BY ConcatPieces
<1>4. PICK w \in Seq(Y) : w = y \o d /\ Pieces(w, y, d)
  BY ConcatPieces
<1>5. Len(x) = Len(a) + Len(b) /\ Len(y) = Len(a) + Len(b) + Len(c)
        /\ Len(w) = Len(a) + Len(b) + Len(c) + Len(d)
  BY <1>2, <1>3, <1>4 DEF Pieces
<1>6. \A i \in 1 .. Len(a) : w[i] = a[i]
  <2> TAKE i \in 1 .. Len(a)
  <2>1. i \in 1 .. Len(x) /\ i \in 1 .. Len(y)
    BY <1>1, <1>5
  <2> QED
    BY <1>2, <1>3, <1>4, <2>1 DEF Pieces
<1>7. \A i \in 1 .. Len(b) : w[Len(a) + i] = b[i]
  <2> TAKE i \in 1 .. Len(b)
  <2>1. Len(a) + i \in 1 .. Len(x) /\ Len(a) + i \in 1 .. Len(y)
    BY <1>1, <1>5
  <2> QED
    BY <1>2, <1>3, <1>4, <2>1 DEF Pieces
<1>8. \A i \in 1 .. Len(c) : w[Len(a) + Len(b) + i] = c[i]
  <2> TAKE i \in 1 .. Len(c)
  <2>1. Len(x) + i \in 1 .. Len(y)
    BY <1>1, <1>5
  <2>2. w[Len(x) + i] = c[i]
    BY <1>3, <1>4, <2>1 DEF Pieces
  <2> QED
    BY <1>5, <2>2
<1>9. \A i \in 1 .. Len(d) : w[Len(a) + Len(b) + Len(c) + i] = d[i]
  <2>1. \A i \in 1 .. Len(d) : w[Len(y) + i] = d[i]
    BY <1>4 DEF Pieces
  <2> QED
    BY <1>5, <2>1
<1>10. FourIn(w, a, b, c, d)
  BY <1>5, <1>6, <1>7, <1>8, <1>9 DEF FourIn
<1> QED
  BY <1>2, <1>3, <1>4, <1>10

(* The calls of some kinds are m calls after the first n, for the rows at. *)
LEMMA OneCallEachIs ==
  ASSUME NEW kinds, NEW n \in Nat, NEW m \in Nat, NEW at, NEW rows,
         Calls(kinds) = {n + i : i \in 1 .. m},
         \A i \in 1 .. m : commands[n + i].row = at[i],
         \A i, j \in 1 .. m : i < j => at[i] < at[j],
         rows = {at[i] : i \in 1 .. m}
  PROVE  OneCallEach(kinds, rows)
<1>1. {commands[k].row : k \in Calls(kinds)} = rows
  <2>1. \A k \in Calls(kinds) : commands[k].row \in rows
    OBVIOUS
  <2>2. \A r \in rows : \E k \in Calls(kinds) : commands[k].row = r
    <3> TAKE r \in rows
    <3>1. PICK i \in 1 .. m : r = at[i]
      OBVIOUS
    <3>2. n + i \in Calls(kinds) /\ commands[n + i].row = r
      BY <3>1
    <3> QED
      BY <3>2
  <2> QED
    BY <2>1, <2>2
<1>2. ASSUME NEW k \in Calls(kinds), NEW l \in Calls(kinds), k < l
      PROVE  commands[k].row < commands[l].row
  <2>1. PICK i \in 1 .. m : k = n + i
    OBVIOUS
  <2>2. PICK j \in 1 .. m : l = n + j
    OBVIOUS
  <2>3. i < j
    BY <1>2, <2>1, <2>2
  <2>4. at[i] < at[j]
    BY <2>3
  <2>5. commands[k].row = at[i] /\ commands[l].row = at[j]
    BY <2>1, <2>2
  <2> QED
    BY <2>4, <2>5
<1> QED
  BY <1>1, <1>2 DEF OneCallEach

(* The calls for the SDOs: at[k] is the row of call k.                     *)
SdoCallsAre(b, at) ==
  /\ \A k \in 1 .. Len(b) : /\ at[k] \in 1 .. Len(sdo) /\ HasCall(sdo[at[k]])
                            /\ b[k] = SdoCommand(at[k])
  /\ \A k, l \in 1 .. Len(b) : k < l => at[k] < at[l]
  /\ \A i \in 1 .. Len(sdo) : HasCall(sdo[i]) =>
       \E k \in 1 .. Len(b) : at[k] = i

LEMMA SdoCommandsAre ==
  ASSUME Types, NumbersLeadHome, pc = "written", NEW Y,
         \A i \in 1 .. Len(sdo) : SdoCommand(i) \in Y
  PROVE  SdoCommands \in Seq(Y) /\ \E at : SdoCallsAre(SdoCommands, at)
<1> DEFINE row(i)  == Setting(index.sdo[i]).row
           One(i)  == IF HasCall(sdo[i]) THEN <<SdoCommand(i)>> ELSE <<>>
           s       == [i \in 1 .. Len(sdo) |-> One(i)]
<1>1. Len(sdo) \in Nat /\ DOMAIN sdo = 1 .. Len(sdo)
  BY LenProperties DEF Types, ConfigTypes
<1>2. Len(index.sdo) = Len(sdo) /\ \A i \in 1 .. Len(sdo) : row(i) = i
  <2>1. Len(index.sdo) = Len(sdo)
          /\ \A i \in 1 .. Len(sdo) :
               Setting(index.sdo[i]) = [kind |-> "sdo", row |-> i]
    BY <1>1 DEF NumbersLeadHome
  <2>2. \A i : [kind |-> "sdo", row |-> i].row = i
    OBVIOUS
  <2> QED
    BY <2>1, <2>2
<1>3. SdoCommands = FlattenSeq(s)
  <2>1. [i \in 1 .. Len(index.sdo) |-> One(row(i))] = s
    <3> HIDE DEF One, row
    <3> QED
      BY <1>2
  <2> QED
    BY <2>1 DEF SdoCommands
<1>4. \A i \in 1 .. Len(sdo) : One(i) \in Seq(Y) /\ Len(One(i)) \in {0, 1}
  OBVIOUS
<1>5. s \in Seq(Seq(Y)) /\ Len(s) = Len(sdo)
        /\ \A i \in 1 .. Len(sdo) : s[i] = One(i)
  <2>1. s \in [1 .. Len(sdo) -> Seq(Y)]
    <3> HIDE DEF One
    <3> QED
      BY <1>4
  <2>2. s \in Seq(Seq(Y))
    <3> HIDE DEF s
    <3> QED
      BY <1>1, <2>1, FunctionIsSeq
  <2>3. DOMAIN s = 1 .. Len(sdo) /\ \A i \in 1 .. Len(sdo) : s[i] = One(i)
    <3> HIDE DEF One
    <3> QED
      OBVIOUS
  <2>4. Len(s) = Len(sdo)
    <3> HIDE DEF s
    <3> QED
      BY <1>1, <2>2, <2>3, LenProperties
  <2> QED
    BY <2>2, <2>3, <2>4
<1> HIDE DEF s, row
<1>6. \A k \in 1 .. Len(s) : Len(s[k]) \in {0, 1}
  <2> HIDE DEF One
  <2> QED
    BY <1>4, <1>5
<1>7. PICK at : InOrder(FlattenSeq(s), s, Len(s), at)
  BY <1>5, <1>6, UnitsInOrder
<1>8. FlattenSeq(s) \in Seq(Y)
  BY <1>5, FlattenType
<1>9. \A i \in 1 .. Len(sdo) :
        /\ (Len(One(i)) = 1) <=> HasCall(sdo[i])
        /\ HasCall(sdo[i]) => One(i)[1] = SdoCommand(i)
  OBVIOUS
<1>10. SdoCallsAre(SdoCommands, at)
  <2> HIDE DEF One
  <2> USE DEF InOrder
  <2>1. \A k \in 1 .. Len(SdoCommands) :
          /\ at[k] \in 1 .. Len(sdo) /\ HasCall(sdo[at[k]])
          /\ SdoCommands[k] = SdoCommand(at[k])
    <3> TAKE k \in 1 .. Len(SdoCommands)
    <3>1. /\ at[k] \in 1 .. Len(s) /\ Len(s[at[k]]) = 1
          /\ SdoCommands[k] = s[at[k]][1]
      BY <1>3, <1>7
    <3> QED
      BY <1>5, <1>9, <3>1
  <2>2. \A k, l \in 1 .. Len(SdoCommands) : k < l => at[k] < at[l]
    BY <1>3, <1>7
  <2>3. \A i \in 1 .. Len(sdo) : HasCall(sdo[i]) =>
          \E k \in 1 .. Len(SdoCommands) : at[k] = i
    <3> TAKE i \in 1 .. Len(sdo)
    <3>1. HasCall(sdo[i]) => Len(s[i]) = 1 /\ i \in 1 .. Len(s)
      BY <1>5, <1>9
    <3> QED
      BY <1>3, <1>7, <3>1
  <2> QED
    BY <2>1, <2>2, <2>3 DEF SdoCallsAre
<1> QED
  BY <1>3, <1>8, <1>10

IdnCommand(i) == [call |-> "idn", row |-> i, len |-> soe[i].len]

LEMMA SoeCommandsAre ==
  ASSUME Types, NumbersLeadHome, pc = "written", NEW Y,
         \A i \in 1 .. Len(soe) : IdnCommand(i) \in Y
  PROVE  /\ SoeCommands \in Seq(Y) /\ Len(SoeCommands) = Len(soe)
         /\ \A i \in 1 .. Len(soe) : SoeCommands[i] = IdnCommand(i)
<1>1. Len(soe) \in Nat /\ DOMAIN soe = 1 .. Len(soe)
  BY LenProperties DEF Types, ConfigTypes
<1>2. Len(index.soe) = Len(soe)
        /\ \A i \in 1 .. Len(soe) : Setting(index.soe[i]).row = i
  <2>1. Len(index.soe) = Len(soe)
          /\ \A i \in 1 .. Len(soe) :
               Setting(index.soe[i]) = [kind |-> "soe", row |-> i]
    BY <1>1 DEF NumbersLeadHome
  <2>2. \A i : [kind |-> "soe", row |-> i].row = i
    OBVIOUS
  <2> QED
    BY <2>1, <2>2
<1>3. SoeCommands = [i \in 1 .. Len(soe) |-> IdnCommand(i)]
  BY <1>2 DEF SoeCommands, IdnCommand
<1>4. SoeCommands \in [1 .. Len(soe) -> Y]
  BY <1>3
<1>5. SoeCommands \in Seq(Y)
  BY <1>1, <1>4, FunctionIsSeq
<1>6. Len(SoeCommands) = Len(soe)
  <2>1. DOMAIN SoeCommands = 1 .. Len(soe)
    BY <1>3
  <2> QED
    BY <1>1, <1>5, <2>1, LenProperties
<1> QED
  BY <1>3, <1>5, <1>6

LEMMA SdoRowIs ==
  ASSUME Types, NEW i \in 1 .. Len(sdo)
  PROVE  sdo[i] \in [subindex : -1 .. 255, type : DataType, bytes : Nat]
<1> DEFINE S == [subindex : -1 .. 255, type : DataType, bytes : Nat]
<1>1. sdo \in Seq(S)
  BY DEF Types, ConfigTypes
<1> HIDE DEF S
<1>2. sdo[i] \in S
  BY <1>1, ElementOfSeq
<1> QED
  BY <1>2 DEF S

LEMMA HasCallIs ==
  ASSUME Types, NEW i \in 1 .. Len(sdo)
  PROVE  HasCall(sdo[i]) <=> WriteReal \/ ~IsReal(sdo[i])
<1>1. sdo[i].bytes \in Nat
  BY SdoRowIs
<1> QED
  BY <1>1, WriteRealAssumption DEF HasCall, IsReal

(* A call for an SDO is as its row has it.                                 *)
SdoCallFits(c) ==
  IF c.call = "sdo"
  THEN /\ c.subindex \in 0 .. 255 /\ c.len > 0
       /\ \/ c.len = sdo[c.row].bytes
          \/ sdo[c.row].bytes = 0 /\ c.len \in {1, 2, 4, 8}
  ELSE sdo[c.row].subindex = -1 /\ c.len = sdo[c.row].bytes

LEMMA SdoCommandIs ==
  ASSUME Types, SdoInv, NEW i \in 1 .. Len(sdo), NEW c, c = SdoCommand(i)
  PROVE  c.call \in SdoCalls /\ c.row = i /\ SdoCallFits(c)
<1>1. PICK row \in [subindex : -1 .. 255, type : DataType, bytes : Nat] :
        row = sdo[i]
  BY SdoRowIs
<1>2. /\ c.call = IF row.bytes > 0 /\ row.subindex < 0 THEN "complete sdo"
                                                      ELSE "sdo"
      /\ c.row = i /\ c.subindex = row.subindex
      /\ c.len = IF row.bytes > 0 THEN row.bytes ELSE MantBits(row.type) \div 8
  BY <1>1 DEF SdoCommand
<1>3. row.bytes \in Nat /\ row.subindex \in -1 .. 255
        /\ \A z \in -1 .. 255 : z \in 0 .. 255 \/ (z < 0 /\ z = -1)
  OBVIOUS
<1>4. row.bytes = 0 => row.subindex # -1 /\ IsGeneric(row.type)
  BY <1>1 DEF SdoInv, SdoIsLegal
<1>5. row.bytes = 0 => MantBits(row.type) \div 8 \in {1, 2, 4, 8}
  <2>1. 8 \div 8 = 1 /\ 16 \div 8 = 2 /\ 32 \div 8 = 4 /\ 64 \div 8 = 8
    OBVIOUS
  <2> QED
    BY <1>4, <2>1 DEF IsGeneric
<1>9. PICK z \in -1 .. 255 : z = row.subindex
  BY <1>3
<1> HIDE <1>1
<1>6. CASE row.bytes = 0
  <2>1. row.subindex \in 0 .. 255
    BY <1>3, <1>4, <1>6
  <2>2. c.call = "sdo" /\ c.len \in {1, 2, 4, 8} /\ c.len > 0
    BY <1>2, <1>5, <1>6
  <2> QED
    BY <1>1, <1>2, <1>6, <2>1, <2>2 DEF SdoCalls, SdoCallFits
<1>7. CASE row.bytes > 0 /\ row.subindex < 0
  <2>1. row.subindex = -1
    <3>1. z < 0
      BY <1>7, <1>9
    <3>2. z = -1
      BY <3>1
    <3> QED
      BY <1>9, <3>2
  <2>2. c.call = "complete sdo" /\ c.len = row.bytes
    BY <1>2, <1>7
  <2> QED
    BY <1>1, <1>2, <2>1, <2>2 DEF SdoCalls, SdoCallFits
<1>8. CASE row.bytes > 0 /\ ~(row.subindex < 0)
  <2>1. row.subindex \in 0 .. 255
    BY <1>8, <1>9
  <2>2. c.call = "sdo" /\ c.len = row.bytes /\ c.len > 0
    BY <1>2, <1>8
  <2> QED
    BY <1>1, <1>2, <2>1, <2>2 DEF SdoCalls, SdoCallFits
<1> QED
  BY <1>3, <1>6, <1>7, <1>8

(* Where each call of init_slave is: those for SDOs from the third on, at  *)
(* the rows at, then those for SoE parameters, then that for the clocks.   *)
CommandsInOrder(b, n, m, at) ==
  /\ n \in Nat /\ m \in Nat /\ m = Len(soe) /\ n = Len(b)
  /\ SdoCallsAre(b, at)
  /\ DOMAIN commands = 1 .. Len(commands)
  /\ Len(commands) = 2 + n + m + (IF index.dc # -1 THEN 1 ELSE 0)
  /\ commands[1] = [call |-> "slave"] /\ commands[2] = [call |-> "pdos"]
  /\ \A i \in 1 .. n : commands[2 + i] = b[i]
  /\ \A i \in 1 .. m : commands[2 + n + i] = IdnCommand(i)
  /\ index.dc # -1 => commands[2 + n + m + 1] = [call |-> "dc"]

LEMMA CommandsAre ==
  ASSUME Types, NumbersLeadHome, pc = "written", commands = Commands
  PROVE  \E b, n, m, at : CommandsInOrder(b, n, m, at)
<1> DEFINE Y == {[call |-> x] : x \in {"slave", "pdos", "dc"}}
                  \cup {SdoCommand(i) : i \in 1 .. Len(sdo)}
                  \cup {IdnCommand(i) : i \in 1 .. Len(soe)}
           head == <<[call |-> "slave"], [call |-> "pdos"]>>
           last == IF index.dc # -1 THEN <<[call |-> "dc"]>> ELSE <<>>
<1>1. /\ \A x \in {"slave", "pdos", "dc"} : [call |-> x] \in Y
      /\ \A i \in 1 .. Len(sdo) : SdoCommand(i) \in Y
      /\ \A i \in 1 .. Len(soe) : IdnCommand(i) \in Y
  OBVIOUS
<1> HIDE DEF Y
<1>2. PICK b \in Seq(Y), c \in Seq(Y) : b = SdoCommands /\ c = SoeCommands
  BY <1>1, SdoCommandsAre, SoeCommandsAre
<1>3. PICK at : SdoCallsAre(b, at)
  BY <1>1, <1>2, SdoCommandsAre
<1>4. Len(c) = Len(soe) /\ \A i \in 1 .. Len(soe) : c[i] = IdnCommand(i)
  BY <1>1, <1>2, SoeCommandsAre
<1>5. PICK h \in Seq(Y), d \in Seq(Y) :
        /\ h = head /\ Len(h) = 2
        /\ h[1] = [call |-> "slave"] /\ h[2] = [call |-> "pdos"]
        /\ d = last /\ Len(d) = (IF index.dc # -1 THEN 1 ELSE 0)
        /\ index.dc # -1 => d[1] = [call |-> "dc"]
  <2>1. head \in Seq(Y) /\ Len(head) = 2
          /\ head[1] = [call |-> "slave"] /\ head[2] = [call |-> "pdos"]
    BY <1>1
  <2>2. CASE index.dc # -1
    <3>1. <<[call |-> "dc"]>> \in Seq(Y) /\ Len(<<[call |-> "dc"]>>) = 1
            /\ <<[call |-> "dc"]>>[1] = [call |-> "dc"]
      BY <1>1
    <3>2. last = <<[call |-> "dc"]>>
      BY <2>2
    <3> HIDE DEF head, last
    <3> QED
      BY <2>1, <2>2, <3>1, <3>2
  <2>3. CASE ~(index.dc # -1)
    <3>1. <<>> \in Seq(Y) /\ Len(<<>>) = 0
      OBVIOUS
    <3>2. last = <<>>
      BY <2>3
    <3>3. (IF index.dc # -1 THEN 1 ELSE 0) = 0
      BY <2>3
    <3> HIDE DEF head, last
    <3>4. Len(last) = (IF index.dc # -1 THEN 1 ELSE 0) /\ last \in Seq(Y)
      BY <3>1, <3>2, <3>3
    <3> QED
      BY <2>1, <2>3, <3>4
  <2> QED
    BY <2>2, <2>3
<1>6. commands = h \o b \o c \o d
  BY <1>2, <1>5 DEF Commands
<1>7. PICK w \in Seq(Y) : w = h \o b \o c \o d /\ FourIn(w, h, b, c, d)
  BY FourPieces
<1>8. PICK n \in Nat, m \in Nat : n = Len(b) /\ m = Len(c)
  BY LenProperties
<1>9. DOMAIN w = 1 .. Len(w) /\ Len(w) = 2 + n + m + Len(d)
  BY <1>5, <1>7, <1>8, LenProperties DEF FourIn
<1>10. w[1] = [call |-> "slave"] /\ w[2] = [call |-> "pdos"]
  <2>1. 1 \in 1 .. 2 /\ 2 \in 1 .. 2
    OBVIOUS
  <2>2. w[1] = h[1] /\ w[2] = h[2]
    BY <1>5, <1>7, <2>1 DEF FourIn
  <2> QED
    BY <1>5, <2>2
<1>11. /\ \A i \in 1 .. n : w[2 + i] = b[i]
       /\ \A i \in 1 .. m : w[2 + n + i] = IdnCommand(i)
  <2>1. \A i \in 1 .. n : w[2 + i] = b[i]
    BY <1>5, <1>7, <1>8 DEF FourIn
  <2>2. \A i \in 1 .. m : w[2 + n + i] = c[i]
    BY <1>5, <1>7, <1>8 DEF FourIn
  <2> QED
    BY <1>4, <1>8, <2>1, <2>2
<1>12. index.dc # -1 => w[2 + n + m + 1] = [call |-> "dc"]
  <2> SUFFICES ASSUME index.dc # -1 PROVE w[2 + n + m + 1] = [call |-> "dc"]
    OBVIOUS
  <2>1. Len(d) = 1 /\ d[1] = [call |-> "dc"]
    BY <1>5
  <2>2. \A i \in 1 .. 1 : w[2 + n + m + i] = d[i]
    BY <1>5, <1>7, <1>8, <2>1 DEF FourIn
  <2> QED
    BY <2>1, <2>2
<1>13. commands = w
  BY <1>6, <1>7
<1>14. n = Len(b) /\ m = Len(soe)
         /\ Len(commands) = 2 + n + m + (IF index.dc # -1 THEN 1 ELSE 0)
         /\ DOMAIN commands = 1 .. Len(commands)
  BY <1>4, <1>5, <1>8, <1>9, <1>13
<1> HIDE DEF head, last
<1>15. CommandsInOrder(b, n, m, at)
  BY <1>3, <1>10, <1>11, <1>12, <1>13, <1>14 DEF CommandsInOrder
<1> QED
  BY <1>15

LEMMA CallsAre ==
  ASSUME Types, SdoInv, NEW b, NEW n, NEW m, NEW at, CommandsInOrder(b, n, m, at)
  PROVE  /\ Calls(SdoCalls) = {2 + i : i \in 1 .. n}
         /\ Calls({"idn"}) = {2 + n + i : i \in 1 .. m}
         /\ Calls({"dc"}) = IF index.dc # -1 THEN {Len(commands)} ELSE {}
<1> DEFINE kind(k) == commands[k].call
           clocks  == index.dc # -1
           len     == 2 + n + m + (IF clocks THEN 1 ELSE 0)
<1>1. n \in Nat /\ m \in Nat /\ DOMAIN commands = 1 .. len
        /\ Len(commands) = len
  BY DEF CommandsInOrder
<1>2. kind(1) = "slave" /\ kind(2) = "pdos"
  BY DEF CommandsInOrder
<1>3. \A i \in 1 .. n : kind(2 + i) \in SdoCalls
  <2> TAKE i \in 1 .. n
  <2>1. commands[2 + i] = SdoCommand(at[i]) /\ at[i] \in 1 .. Len(sdo)
    BY DEF CommandsInOrder, SdoCallsAre
  <2> QED
    BY <2>1, SdoCommandIs
<1>4. \A i \in 1 .. m : kind(2 + n + i) = "idn"
  <2>1. \A i : IdnCommand(i).call = "idn"
    BY DEF IdnCommand
  <2>2. \A i \in 1 .. m : commands[2 + n + i] = IdnCommand(i)
    BY DEF CommandsInOrder
  <2> QED
    BY <2>1, <2>2
<1>5. clocks => kind(2 + n + m + 1) = "dc"
  BY DEF CommandsInOrder
<1>6. Calls(SdoCalls) = {k \in 1 .. len : kind(k) \in SdoCalls}
        /\ Calls({"idn"}) = {k \in 1 .. len : kind(k) = "idn"}
        /\ Calls({"dc"}) = {k \in 1 .. len : kind(k) = "dc"}
  BY <1>1 DEF Calls
<1>7. \A x \in SdoCalls : x \notin {"slave", "pdos", "idn", "dc"}
  BY DEF SdoCalls
<1> HIDE DEF kind, clocks
<1>8. /\ \A i \in 1 .. n : 2 + i \in 1 .. len
      /\ \A i \in 1 .. m : 2 + n + i \in 1 .. len
      /\ clocks => 2 + n + m + 1 = len /\ len \in 1 .. len
  BY <1>1
<1>9. \A k \in 1 .. len :
        \/ k \in {1, 2} \/ (\E i \in 1 .. n : k = 2 + i)
        \/ (\E i \in 1 .. m : k = 2 + n + i) \/ (clocks /\ k = len)
  <2> TAKE k \in 1 .. len
  <2>1. CASE k <= 2
    BY <2>1
  <2>2. CASE k > 2 /\ k <= 2 + n
    <3>1. k - 2 \in 1 .. n /\ k = 2 + (k - 2)
      BY <1>1, <2>2
    <3> QED
      BY <3>1
  <2>3. CASE k > 2 + n /\ k <= 2 + n + m
    <3>1. k - (2 + n) \in 1 .. m /\ k = 2 + n + (k - (2 + n))
      BY <1>1, <2>3
    <3> QED
      BY <3>1
  <2>4. CASE k > 2 + n + m
    BY <1>1, <2>4
  <2> QED
    BY <1>1, <2>1, <2>2, <2>3, <2>4
<1> HIDE DEF len
<1>10. Calls(SdoCalls) = {2 + i : i \in 1 .. n}
  <2>1. \A k \in 1 .. len : kind(k) \in SdoCalls => \E i \in 1 .. n : k = 2 + i
    BY <1>2, <1>4, <1>5, <1>7, <1>8, <1>9
  <2> QED
    BY <1>3, <1>6, <1>8, <2>1
<1>11. Calls({"idn"}) = {2 + n + i : i \in 1 .. m}
  <2>1. \A k \in 1 .. len : kind(k) = "idn" => \E i \in 1 .. m : k = 2 + n + i
    BY <1>2, <1>3, <1>5, <1>7, <1>8, <1>9
  <2> QED
    BY <1>4, <1>6, <1>8, <2>1
<1>12. Calls({"dc"}) = IF clocks THEN {len} ELSE {}
  <2>1. \A k \in 1 .. len : kind(k) = "dc" => clocks /\ k = len
    BY <1>2, <1>3, <1>4, <1>7, <1>9
  <2>2. clocks => kind(len) = "dc" /\ len \in 1 .. len
    BY <1>5, <1>8
  <2> QED
    BY <1>6, <2>1, <2>2
<1> QED
  BY <1>1, <1>10, <1>11, <1>12 DEF clocks

LEMMA CommandsWhole ==
  ASSUME Types, SdoInv, DcInv, NumbersLeadHome, pc = "written",
         commands = Commands
  PROVE  CommandsAreWhole
<1>1. PICK b, n, m, at : CommandsInOrder(b, n, m, at)
  BY CommandsAre
<1>2. /\ Calls(SdoCalls) = {2 + i : i \in 1 .. n}
      /\ Calls({"idn"}) = {2 + n + i : i \in 1 .. m}
      /\ Calls({"dc"}) = IF index.dc # -1 THEN {Len(commands)} ELSE {}
  BY <1>1, CallsAre
<1>3. n \in Nat /\ m \in Nat /\ n = Len(b) /\ m = Len(soe)
        /\ SdoCallsAre(b, at)
        /\ \A i \in 1 .. m : commands[2 + n + i] = IdnCommand(i)
  BY <1>1 DEF CommandsInOrder
<1>4. \A i \in 1 .. n : /\ at[i] \in 1 .. Len(sdo) /\ HasCall(sdo[at[i]])
                        /\ commands[2 + i] = SdoCommand(at[i])
  BY <1>1 DEF CommandsInOrder, SdoCallsAre
<1>5. DOMAIN sdo = 1 .. Len(sdo) /\ DOMAIN soe = 1 .. Len(soe)
  BY LenProperties DEF Types, ConfigTypes
<1>6. OneCallEach(SdoCalls, {r \in DOMAIN sdo : WriteReal \/ ~IsReal(sdo[r])})
  <2> DEFINE rows == {r \in DOMAIN sdo : WriteReal \/ ~IsReal(sdo[r])}
  <2>1. \A i \in 1 .. n : commands[2 + i].row = at[i]
    BY <1>4, SdoCommandIs
  <2>2. \A i, j \in 1 .. n : i < j => at[i] < at[j]
    BY <1>3 DEF SdoCallsAre
  <2>3. \A r \in 1 .. Len(sdo) :
          HasCall(sdo[r]) <=> WriteReal \/ ~IsReal(sdo[r])
    BY HasCallIs
  <2>4. rows = {at[i] : i \in 1 .. n}
    <3>1. \A r \in rows : \E i \in 1 .. n : at[i] = r
      BY <1>3, <1>5, <2>3 DEF SdoCallsAre
    <3>2. \A i \in 1 .. n : at[i] \in rows
      BY <1>4, <1>5, <2>3
    <3> HIDE DEF rows
    <3> QED
      BY <3>1, <3>2
  <2> HIDE DEF rows
  <2>5. PICK from \in Nat : from = 2
    OBVIOUS
  <2>6. Calls(SdoCalls) = {from + i : i \in 1 .. n}
          /\ \A i \in 1 .. n : commands[from + i].row = at[i]
    BY <1>2, <2>1, <2>5
  <2>7. OneCallEach(SdoCalls, rows)
    BY <1>3, <2>2, <2>4, <2>6, OneCallEachIs
  <2> QED
    BY <2>7 DEF rows
<1>7. \A k \in Calls(SdoCalls) : SdoCallFits(commands[k])
  <2> TAKE k \in Calls(SdoCalls)
  <2>1. PICK i \in 1 .. n : k = 2 + i
    BY <1>2
  <2>2. PICK r \in 1 .. Len(sdo) : commands[k] = SdoCommand(r)
    BY <1>4, <2>1
  <2>3. PICK c : c = commands[k]
    OBVIOUS
  <2>4. SdoCallFits(c)
    BY <2>2, <2>3, SdoCommandIs
  <2> QED
    BY <2>3, <2>4
<1>8. OneCallEach({"idn"}, DOMAIN soe)
  <2> DEFINE same == [i \in 1 .. m |-> i]
  <2>1. \A i \in 1 .. m : same[i] = i
    OBVIOUS
  <2> HIDE DEF same
  <2>2. \A i \in 1 .. m : commands[2 + n + i].row = same[i]
    <3>1. \A i : IdnCommand(i).row = i
      BY DEF IdnCommand
    <3> QED
      BY <1>3, <2>1, <3>1
  <2>3. \A i, j \in 1 .. m : i < j => same[i] < same[j]
    BY <2>1
  <2>4. DOMAIN soe = {same[i] : i \in 1 .. m}
    <3>1. DOMAIN soe = 1 .. m
      BY <1>3, <1>5
    <3> QED
      BY <2>1, <3>1
  <2>5. PICK from \in Nat : from = 2 + n
    BY <1>3
  <2>6. Calls({"idn"}) = {from + i : i \in 1 .. m}
          /\ \A i \in 1 .. m : commands[from + i].row = same[i]
    BY <1>2, <2>2, <2>5
  <2> QED
    BY <1>3, <2>3, <2>4, <2>6, OneCallEachIs
<1>9. Calls({"dc"}) = IF dc.active /\ sm # <<>> THEN {Len(commands)} ELSE {}
  <2>1. index.dc # -1 <=> dc.active /\ sm # <<>>
    BY DEF DcInv, AfterDc
  <2> QED
    BY <1>2, <2>1
<1>10. \A k \in Calls({"idn"}) :
         LET row == soe[commands[k].row].given
         IN commands[k].len = IF row.value = "string" THEN row.n - 1 ELSE row.n
  <2> TAKE k \in Calls({"idn"})
  <2>1. PICK i \in 1 .. m : k = 2 + n + i
    BY <1>2
  <2>2. commands[k].row = i /\ commands[k].len = soe[i].len
    <3>1. commands[k] = IdnCommand(i)
      BY <1>3, <2>1
    <3>2. IdnCommand(i).row = i /\ IdnCommand(i).len = soe[i].len
      BY DEF IdnCommand
    <3> QED
      BY <3>1, <3>2
  <2>3. soe[i] \in SoeTaken
    BY <1>3, <1>5 DEF Types, ConfigTypes
  <2>4. soe[i].len = SoeConfig(soe[i].given).len
    BY <2>3 DEF SoeTaken
  <2> QED
    BY <2>2, <2>4 DEF SoeConfig
<1> QED
  BY <1>6, <1>7, <1>8, <1>9, <1>10 DEF CommandsAreWhole, SdoCallFits

(* The configuration of the mask arrives at the slave: every row of its    *)
(* tables leads to one call of the master, in their order, with the size   *)
(* that was taken over for its value: all numbers of a SoE parameter, and  *)
(* all characters of a string but the last; and the clocks are configured  *)
(* last, if there are sync managers. It holds from the first call of       *)
(* init_slave to the last one (ec_slave3.c, ec_slave3.tlc,                 *)
(* ecrt_support.c), whatever the tables are.                               *)
THEOREM Arrives == StartSpec => []ConfigurationArrives
<1>1. StartInit => Init /\ stage = "model"
  BY DEF StartInit
<1>2. Init /\ stage = "model" => Types /\ RecordsInv /\ SdoInv /\ DcInv
                                   /\ StageInv
  BY InitTypes, InitRecords, InitDc DEF StageInv, Configured
<1>3. Types /\ RecordsInv /\ SdoInv /\ DcInv /\ StageInv
        /\ [StartNext]_<<vars, start>>
        => (Types /\ RecordsInv /\ SdoInv /\ DcInv /\ StageInv)'
  BY StepOfBlock, NextTypes, NextRecords, NextSdo, NextDc, NextStage
<1>4. Types /\ RecordsInv /\ SdoInv /\ DcInv /\ StageInv
        => ConfigurationArrives
  <2> SUFFICES ASSUME Types, RecordsInv, SdoInv, DcInv, StageInv
               PROVE  ConfigurationArrives
    OBVIOUS
  <2>1. NumbersLeadHome
    BY HomeFromRecords
  <2>2. CommandsAreWhole
    <3>1. CASE Configured
      <4>1. pc = "written" /\ commands = Commands
        BY <3>1 DEF StageInv, Configured
      <4> QED
        BY <2>1, <4>1, CommandsWhole
    <3>2. CASE ~Configured
      BY <3>2 DEF CommandsAreWhole
    <3> QED
      BY <3>1, <3>2
  <2> QED
    BY <2>1, <2>2 DEF ConfigurationArrives
<1> QED
  BY <1>1, <1>2, <1>3, <1>4, PTL DEF StartSpec

(* The properties of the block hold while its slave is started, too.       *)
THEOREM BlockStays ==
  StartSpec => [](TypeOK /\ EachBlockOnce /\ PortsAreAsAnnounced)
BY BlockIsKept, TypesHold, BlocksOnce, AnnouncedHold, PTL

-----------------------------------------------------------------------------
(* The elements of ports lie in the entries of the sync managers *)

ElementLies(sms, port, e) ==
  /\ e.sm \in 1 .. Len(sms) /\ e.pdo \in 1 .. Len(sms[e.sm].pdo)
  /\ e.entry \in 1 .. Len(sms[e.sm].pdo[e.pdo])
  /\ port.raw \/ ElementFits(port.data_type, e.element,
                             sms[e.sm].pdo[e.pdo][e.entry].bits)
PortLies(sms, port) ==
  \A j \in 1 .. Len(port.pdo) : ElementLies(sms, port, port.pdo[j])
PortsLie(sms, p) == \A k \in 1 .. Len(p) : PortLies(sms, p[k])

TablesOf(sms) ==
  LET pdos == FlattenSeq([i \in 1 .. Len(sms) |-> sms[i].pdo]) IN
  [manager |-> [i \in 1 .. Len(sms) |-> [input |-> sms[i].input,
                                         n |-> Len(sms[i].pdo)]],
   pdo |-> [k \in 1 .. Len(pdos) |-> Len(pdos[k])],
   entry |-> FlattenSeq(pdos)]

AfterSm == AfterDc \cup {"rtw dc"}
DataInv ==
  /\ PortsLie(sm, o_port) /\ PortsLie(sm, i_port)
  /\ pc \in AfterSm => tables = TablesOf(sm)

LEMMA TotalOfNone == Total(<<>>) = 0
<1>1. <<>> \in Seq(Nat) /\ Len(<<>>) = 0
  OBVIOUS
<1>2. PICK f \in [0 .. Len(<<>>) -> Nat] :
        f[0] = 0 /\ Total(<<>>) = f[Len(<<>>)]
  BY <1>1, TotalIs
<1> QED
  BY <1>1, <1>2

LEMMA RawPdoLies ==
  ASSUME ConfigTypes, NEW form \in PortForm, form.pdo = "raw",
         form.sm < Len(sm), form.index < Len(sm[form.sm + 1].pdo),
         NEW port, port.raw, port.pdo = RawPdo(form)
  PROVE  PortLies(sm, port)
<1>1. form.sm \in Nat /\ form.index \in Nat
  BY DEF PortForm
<1>2. sm \in Seq(SyncManager) /\ form.sm + 1 \in 1 .. Len(sm)
  BY <1>1, SyncManagersType, LenProperties
<1>3. sm[form.sm + 1].pdo \in Seq(Seq(Entry))
  <2>1. sm[form.sm + 1] \in SyncManager
    BY <1>2, ElementOfSeq
  <2> QED
    BY <2>1 DEF SyncManager
<1>4. form.index + 1 \in 1 .. Len(sm[form.sm + 1].pdo)
  BY <1>1, <1>3, LenProperties
<1> DEFINE entries == sm[form.sm + 1].pdo[form.index + 1]
           bytes == (Bits(entries) + 7) \div 8
<1>5. entries \in Seq(Entry)
  BY <1>3, <1>4, ElementOfSeq
<1>6. bytes \in Nat
  <2>1. Bits(entries) \in Nat
    BY <1>5, BitsType
  <2> HIDE DEF entries
  <2> QED
    BY <2>1
<1>7. Len(entries) \in Nat
  BY <1>5, LenProperties
<1>8. bytes # 0 => 1 \in 1 .. Len(entries)
  <2>1. Len(entries) = 0 => bytes = 0
    <3> SUFFICES ASSUME Len(entries) = 0 PROVE bytes = 0
      OBVIOUS
    <3>1. entries = <<>>
      BY <1>5, EmptySeq
    <3>2. Bits(<<>>) = 0
      <4>1. [i \in 1 .. Len(<<>>) |-> <<>>[i].bits] = <<>>
        OBVIOUS
      <4>2. Total(<<>>) = 0
        BY TotalOfNone
      <4> QED
        BY <4>1, <4>2 DEF Bits
    <3>3. bytes = (0 + 7) \div 8
      BY <3>1, <3>2
    <3> HIDE DEF bytes
    <3> QED
      BY <3>3
  <2> HIDE DEF bytes
  <2> QED
    BY <1>7, <2>1
<1> HIDE DEF bytes
<1>9. port.pdo = [j \in 1 .. bytes |->
          [sm |-> form.sm + 1, pdo |-> form.index + 1, entry |-> 1,
           element |-> j - 1]]
  BY DEF RawPdo, bytes
<1>10. Len(port.pdo) = bytes
  BY <1>6, <1>9
<1>11. ASSUME NEW j \in 1 .. bytes PROVE ElementLies(sm, port, port.pdo[j])
  <2>1. port.pdo[j] = [sm |-> form.sm + 1, pdo |-> form.index + 1, entry |-> 1,
                       element |-> j - 1]
    BY <1>9
  <2>2. bytes # 0
    BY <1>6
  <2> QED
    BY <1>2, <1>4, <1>8, <2>1, <2>2 DEF ElementLies
<1> QED
  BY <1>10, <1>11 DEF PortLies

LEMMA RowsLie ==
  ASSUME ConfigTypes, NEW form \in PortForm, NEW output \in BOOLEAN,
         ~PortRefused(form, output), form.pdo = "rows",
         NEW port, port.data_type = GetDataType(form.type),
         port.pdo = PortPdo(form)
  PROVE  PortLies(sm, port)
<1>1. form.rows \in Seq([1 .. 4 -> Nat]) /\ Len(form.rows) \in Nat
  BY LenProperties DEF PortForm
<1>2. \A j \in 1 .. Len(form.rows) : ~RowRefused(form.rows[j], port.data_type)
  BY DEF PortRefused
<1>3. port.pdo = [j \in 1 .. Len(form.rows) |->
          [sm |-> form.rows[j][1] + 1, pdo |-> form.rows[j][2] + 1,
           entry |-> form.rows[j][3] + 1, element |-> form.rows[j][4]]]
  BY DEF PortPdo
<1>4. Len(port.pdo) = Len(form.rows)
  BY <1>1, <1>3
<1>5. ASSUME NEW j \in 1 .. Len(form.rows)
      PROVE  ElementLies(sm, port, port.pdo[j])
  <2>1. form.rows[j] \in [1 .. 4 -> Nat]
    BY <1>1, ElementOfSeq
  <2>2. PICK a \in Nat, b \in Nat, c \in Nat, d \in Nat :
          /\ a = form.rows[j][1] /\ b = form.rows[j][2]
          /\ c = form.rows[j][3] /\ d = form.rows[j][4]
    BY <2>1
  <2>3. port.pdo[j] = [sm |-> a + 1, pdo |-> b + 1, entry |-> c + 1,
                       element |-> d]
    BY <1>3, <2>2
  <2>4. /\ ~(a + 1 > Len(sm))
        /\ ~(b + 1 > Len(sm[a + 1].pdo))
        /\ ~(c + 1 > Len(sm[a + 1].pdo[b + 1]))
        /\ ElementFits(port.data_type, d, sm[a + 1].pdo[b + 1][c + 1].bits)
    BY <1>2, <2>2 DEF RowRefused
  <2>5. sm \in Seq(SyncManager) /\ Len(sm) \in Nat
    BY SyncManagersType, LenProperties
  <2>6. a + 1 \in 1 .. Len(sm)
    BY <2>4, <2>5
  <2>7. sm[a + 1].pdo \in Seq(Seq(Entry))
    <3>1. sm[a + 1] \in SyncManager
      BY <2>5, <2>6, ElementOfSeq
    <3> QED
      BY <3>1 DEF SyncManager
  <2>8. b + 1 \in 1 .. Len(sm[a + 1].pdo)
    <3>1. Len(sm[a + 1].pdo) \in Nat
      BY <2>7, LenProperties
    <3> QED
      BY <2>4, <3>1
  <2>9. c + 1 \in 1 .. Len(sm[a + 1].pdo[b + 1])
    <3>1. sm[a + 1].pdo[b + 1] \in Seq(Entry)
      BY <2>7, <2>8, ElementOfSeq
    <3>2. Len(sm[a + 1].pdo[b + 1]) \in Nat
      BY <3>1, LenProperties
    <3> QED
      BY <2>4, <3>2
  <2> QED
    BY <2>3, <2>4, <2>6, <2>8, <2>9 DEF ElementLies
<1> QED
  BY <1>4, <1>5 DEF PortLies

LEMMA IoPortLies ==
  ASSUME ConfigTypes, NEW form \in PortForm, NEW output \in BOOLEAN,
         ~PortRefused(form, output)
  PROVE  PortLies(sm, IoPort(form, output))
<1> DEFINE port == IoPort(form, output)
<1>1. /\ port.raw = (form.pdo # "rows") /\ port.pdo = PortPdo(form)
      /\ port.data_type = IF form.pdo = "rows" THEN GetDataType(form.type)
                          ELSE 1008
  BY DEF IoPort
<1>2. form.pdo \in {"raw", "rows"}
  BY DEF PortForm, PortRefused
<1> HIDE DEF port
<1>3. CASE form.pdo = "raw"
  <2>1. ~(form.sm >= Len(sm)) /\ ~(form.index >= Len(sm[form.sm + 1].pdo))
    BY <1>3 DEF PortRefused
  <2>2. form.sm \in Nat /\ form.index \in Nat
    BY <1>3 DEF PortForm
  <2>3. sm \in Seq(SyncManager) /\ Len(sm) \in Nat
    BY SyncManagersType, LenProperties
  <2>4. form.sm < Len(sm) /\ form.sm + 1 \in 1 .. Len(sm)
    BY <2>1, <2>2, <2>3
  <2>5. Len(sm[form.sm + 1].pdo) \in Nat
    <3>1. sm[form.sm + 1] \in SyncManager
      BY <2>3, <2>4, ElementOfSeq
    <3> QED
      BY <3>1, LenProperties DEF SyncManager
  <2>6. form.index < Len(sm[form.sm + 1].pdo)
    BY <2>1, <2>2, <2>5
  <2>7. port.raw /\ port.pdo = RawPdo(form)
    BY <1>1, <1>3 DEF PortPdo
  <2> QED
    BY <1>3, <2>4, <2>6, <2>7, RawPdoLies DEF port
<1>4. CASE form.pdo = "rows"
  <2>1. port.data_type = GetDataType(form.type) /\ port.pdo = PortPdo(form)
    BY <1>1, <1>4
  <2>2. PortLies(sm, port)
    BY <1>4, <2>1, RowsLie
  <2> QED
    BY <2>2 DEF port
<1> QED
  BY <1>2, <1>3, <1>4

LEMMA PortReadLies ==
  ASSUME Types, DataInv, NEW output \in BOOLEAN, NEW form,
         PortIsRead(form, output)
  PROVE  DataInv'
<1> DEFINE new == IoPort(form, output)
<1>1. form \in PortForm /\ ~PortRefused(form, output)
  BY ConfigAssumption DEF PortIsRead
<1>2. PortLies(sm, new) /\ new \in Port
  BY <1>1, IoPortLies, IoPortIs DEF Types
<1>3. /\ pc' = pc /\ pc \in {"output", "input"} /\ sm' = sm
      /\ IF output THEN o_port' = Append(o_port, new) /\ i_port' = i_port
                   ELSE i_port' = Append(i_port, new) /\ o_port' = o_port
  BY DEF PortIsRead, config
<1> HIDE DEF new
<1>4. ASSUME NEW p \in Seq(Port), PortsLie(sm, p)
      PROVE  PortsLie(sm, Append(p, new))
  <2>1. Len(p) \in Nat /\ Len(Append(p, new)) = Len(p) + 1
    BY <1>2, <1>4
  <2>2. ASSUME NEW k \in 1 .. Len(p) + 1 PROVE PortLies(sm, Append(p, new)[k])
    <3>1. CASE k \in 1 .. Len(p)
      BY <1>2, <1>4, <3>1, AppendProperties DEF PortsLie
    <3>2. CASE k = Len(p) + 1
      BY <1>2, <1>4, <3>2, AppendProperties
    <3> QED
      BY <2>1, <3>1, <3>2
  <2> QED
    BY <2>1, <2>2 DEF PortsLie
<1>5. o_port \in Seq(Port) /\ i_port \in Seq(Port)
  BY DEF Types, PortTypes
<1>6. PortsLie(sm', o_port') /\ PortsLie(sm', i_port')
  BY <1>3, <1>4, <1>5 DEF DataInv
<1>7. pc' \notin AfterSm
  BY <1>3 DEF AfterSm, AfterDc
<1> QED
  BY <1>6, <1>7 DEF DataInv

LEMMA SameData ==
  ASSUME DataInv, UNCHANGED <<sm, o_port, i_port>>,
         UNCHANGED <<pc, tables>> \/ pc' \notin AfterSm
  PROVE  DataInv'
<1>1. PortsLie(sm', o_port') /\ PortsLie(sm', i_port')
  BY DEF DataInv
<1>2. pc' \in AfterSm => tables' = TablesOf(sm')
  BY DEF DataInv
<1> QED
  BY <1>1, <1>2 DEF DataInv

LEMMA EarlyData ==
  ASSUME Types, pc \in ToParameter, UNCHANGED <<o_port, i_port>>,
         pc' \notin AfterSm
  PROVE  DataInv'
<1>1. o_port' = <<>> /\ i_port' = <<>>
  BY DEF Types, Unread
<1>2. Len(<<>>) = 0
  OBVIOUS
<1> QED
  BY <1>1, <1>2 DEF DataInv, PortsLie

LEMMA InputRetyped ==
  ASSUME Types, DataInv, NEW p \in DOMAIN inType, NEW id \in SignalTypes,
         SetInputPortDataType(p, id)
  PROVE  DataInv'
<1>1. /\ pc = "ports" /\ p \in 1 .. Len(i_port)
      /\ UNCHANGED <<config, o_port, rtw>> /\ pc' \in {"ports", "failed"}
      /\ \/ UNCHANGED i_port
         \/ \E q : i_port' = [i_port EXCEPT ![p] = q] /\ Retyped(q, i_port[p])
  BY SetInputPortDataTypeIs DEF Fail
<1>2. pc' \notin AfterSm
  BY <1>1 DEF AfterSm, AfterDc
<1>3. CASE UNCHANGED i_port
  BY <1>1, <1>2, <1>3, SameData DEF config
<1>4. ASSUME NEW q, i_port' = [i_port EXCEPT ![p] = q], Retyped(q, i_port[p])
      PROVE  DataInv'
  <2>1. i_port \in Seq(Port)
    BY DEF Types, PortTypes
  <2>2. Len(i_port') = Len(i_port)
          /\ \A k \in 1 .. Len(i_port) :
               i_port'[k] = IF k = p THEN q ELSE i_port[k]
    BY <1>4, <2>1
  <2>3. PortLies(sm, q)
    BY <1>1, <1>4 DEF DataInv, PortsLie, PortLies, ElementLies, Retyped
  <2>4. sm' = sm /\ o_port' = o_port
    BY <1>1 DEF config
  <2>5. PortsLie(sm, i_port')
    BY <2>2, <2>3 DEF DataInv, PortsLie
  <2>6. PortsLie(sm', i_port') /\ PortsLie(sm', o_port')
    BY <2>4, <2>5 DEF DataInv
  <2> QED
    BY <1>2, <2>6 DEF DataInv
<1> QED
  BY <1>1, <1>3, <1>4

LEMMA NextData == Types /\ DataInv /\ [Next]_vars => DataInv'
<1> SUFFICES ASSUME Types, DataInv, [Next]_vars PROVE DataInv'
  OBVIOUS
<1>1. Refuse => UNCHANGED <<sm, o_port, i_port>> /\ pc' \notin AfterSm
  BY DEF Refuse, config, ports, AfterSm, AfterDc
<1>2. CASE GetSlaveInfo \/ GetSlaveSdo \/ GetSlaveSoe \/ GetSlaveDc
             \/ GetSyncManagers \/ GetParameterConfig
  <2>1. \/ Refuse
        \/ /\ pc \in ToParameter /\ UNCHANGED <<o_port, i_port>>
           /\ pc' \notin AfterSm
    BY <1>2 DEF GetSlaveInfo, GetSlaveSdo, GetSlaveSoe, GetSlaveDc,
       GetSyncManagers, GetParameterConfig, ports, ToParameter, ToSm, ToSoe,
       ToSdo, AfterSm, AfterDc
  <2> QED
    BY <1>1, <2>1, SameData, EarlyData
<1>3. CASE GetOutputPorts \/ GetInputPorts
  <2>1. PICK output \in BOOLEAN :
          IF output THEN GetOutputPorts ELSE GetInputPorts
    BY <1>3
  <2>2. CASE PortsAreRead(output)
    <3>1. UNCHANGED <<sm, o_port, i_port>> /\ pc' \notin AfterSm
      BY <2>2 DEF PortsAreRead, config, AfterSm, AfterDc
    <3> QED
      BY <3>1, SameData
  <2> QED
    BY <1>1, <2>1, <2>2, GetPortsIs, PortReadLies, SameData
<1>4. CASE Compile
  <2>1. CASE \E p \in DOMAIN inType, id \in SignalTypes :
               SetInputPortDataType(p, id)
    BY <2>1, InputRetyped
  <2>2. CASE ~\E p \in DOMAIN inType, id \in SignalTypes :
                SetInputPortDataType(p, id)
    <3>1. UNCHANGED <<sm, o_port, i_port>> /\ pc' \notin AfterSm
      BY <1>1, <1>4, <2>2 DEF Compile, InitializeSizes, SetInputPortWidth,
         SetDefaultPortDataTypes, SetDefaultPortDimensionInfo, SetWorkWidths,
         Fail, config, ports, AfterSm, AfterDc
    <3> QED
      BY <3>1, SameData
  <2> QED
    BY <2>1, <2>2
<1>5. CASE WriteSyncManagers
  <2>1. UNCHANGED <<sm, o_port, i_port>> /\ tables' = TablesOf(sm)
    BY <1>5 DEF WriteSyncManagers, config, ports, TablesOf
  <2>2. PortsLie(sm', o_port') /\ PortsLie(sm', i_port')
          /\ tables' = TablesOf(sm')
    BY <2>1 DEF DataInv
  <2> QED
    BY <2>2 DEF DataInv
<1>6. CASE WriteDc \/ WriteOutputPort \/ WriteInputPort \/ WritePortsEnd
  <2>1. UNCHANGED <<sm, o_port, i_port, tables>> /\ pc \in AfterSm
    BY <1>6 DEF WriteDc, WriteOutputPort, WriteInputPort, WritePort,
       WritePortsEnd, config, ports, rtw, AfterSm, AfterDc
  <2>2. PortsLie(sm', o_port') /\ PortsLie(sm', i_port')
          /\ tables' = TablesOf(sm')
    BY <2>1 DEF DataInv
  <2> QED
    BY <2>2 DEF DataInv
<1>7. CASE WriteSdo \/ WriteSoe \/ RtwFails \/ Terminate
  <2>1. UNCHANGED <<sm, o_port, i_port>> /\ pc' \notin AfterSm
    BY <1>7 DEF WriteSdo, WriteSoe, RtwFails, Terminate, Fail, config, ports,
       AfterSm, AfterDc
  <2> QED
    BY <2>1, SameData
<1>8. CASE UNCHANGED vars
  BY <1>8, SameData DEF vars, config, ports, rtw
<1> QED
  BY <1>2, <1>3, <1>4, <1>5, <1>6, <1>7, <1>8 DEF Next, Getters, Rtw

LEMMA InitData == Init => DataInv
<1> SUFFICES ASSUME Init PROVE DataInv
  OBVIOUS
<1>1. o_port = <<>> /\ i_port = <<>> /\ pc = "address" /\ Len(<<>>) = 0
  BY DEF Init
<1> QED
  BY <1>1 DEF DataInv, PortsLie, AfterSm, AfterDc

-----------------------------------------------------------------------------
(* Lists that are joined, and cut again *)

(* Where each of n pieces of these lengths ends.                           *)
Ends(at, n, c) ==
  /\ at \in [0 .. n -> Nat] /\ at[0] = 0
  /\ \A i \in 1 .. n : at[i] = at[i - 1] + c[i]

Ascends(at, n) == \A i, j \in 0 .. n : i <= j => at[i] <= at[j]

LEMMA EndsIncrease ==
  ASSUME NEW n \in Nat, NEW c \in [1 .. n -> Nat], NEW at, Ends(at, n, c)
  PROVE  Ascends(at, n)
<1> DEFINE S == {d \in Nat : \A i \in 0 .. n : i + d <= n => at[i] <= at[i + d]}
<1>1. \A i \in 0 .. n : at[i] \in Nat
  BY DEF Ends
<1>2. 0 \in S
  BY <1>1
<1>3. ASSUME NEW d \in Nat, d \in S PROVE d + 1 \in S
  <2> SUFFICES ASSUME NEW i \in 0 .. n, i + (d + 1) <= n
               PROVE  at[i] <= at[i + (d + 1)]
    OBVIOUS
  <2>1. i + (d + 1) \in 1 .. n /\ (i + (d + 1)) - 1 = i + d /\ i + d \in 0 .. n
    OBVIOUS
  <2>2. at[i] <= at[i + d]
    BY <1>3, <2>1
  <2>3. at[i + (d + 1)] = at[i + d] + c[i + (d + 1)] /\ c[i + (d + 1)] \in Nat
    BY <2>1 DEF Ends
  <2> QED
    BY <1>1, <2>1, <2>2, <2>3
<1>4. Nat \subseteq S
  <2> HIDE DEF S
  <2> QED
    BY <1>2, <1>3, Induct
<1>5. ASSUME NEW i \in 0 .. n, NEW j \in 0 .. n, i <= j PROVE at[i] <= at[j]
  <2>1. j - i \in Nat /\ i + (j - i) = j
    BY <1>5
  <2>2. j - i \in S
    <3> HIDE DEF S
    <3> QED
      BY <1>4, <2>1
  <2> QED
    BY <2>1, <2>2
<1> QED
  BY <1>5 DEF Ascends

LEMMA PlaceBefore ==
  ASSUME NEW n \in Nat, NEW c \in [1 .. n -> Nat], NEW at, Ends(at, n, c),
         NEW i \in 0 .. n, NEW k \in 1 .. i, NEW j \in 1 .. c[k]
  PROVE  at[k - 1] + j \in 1 .. at[i] /\ at[k - 1] + j \in Nat
<1>1. k \in 1 .. n /\ k \in 0 .. n /\ k - 1 \in 0 .. n /\ k <= i
  OBVIOUS
<1>2. at[k] <= at[i]
  <2>1. Ascends(at, n)
    BY EndsIncrease
  <2> QED
    BY <1>1, <2>1 DEF Ascends
<1>3. PICK x \in Nat, y \in Nat, z \in Nat :
        x = at[k - 1] /\ y = c[k] /\ z = at[i] /\ at[k] = x + y
  BY <1>1 DEF Ends
<1>4. x + j \in 1 .. z
  <2>1. j \in 1 .. y /\ x + y <= z
    BY <1>2, <1>3
  <2> QED
    BY <2>1
<1> QED
  BY <1>3, <1>4

LEMMA PlaceOf ==
  ASSUME NEW n \in Nat, NEW c \in [1 .. n -> Nat], NEW at, Ends(at, n, c)
  PROVE  \A i \in 1 .. at[n] :
           \E k \in 1 .. n : \E j \in 1 .. c[k] : i = at[k - 1] + j
<1> DEFINE Found(i, m) == \E k \in 1 .. m : \E j \in 1 .. c[k] : i = at[k - 1] + j
           S == {m \in Nat : m <= n => \A i \in 1 .. at[m] : Found(i, m)}
<1>1. \A i \in 0 .. n : at[i] \in Nat
  BY DEF Ends
<1>2. 0 \in S
  BY DEF Ends
<1>3. ASSUME NEW m \in Nat, m \in S PROVE m + 1 \in S
  <2> SUFFICES ASSUME m + 1 <= n, NEW i \in 1 .. at[m + 1]
               PROVE  Found(i, m + 1)
    OBVIOUS
  <2>1. m + 1 \in 1 .. n /\ (m + 1) - 1 = m /\ m \in 0 .. n
    OBVIOUS
  <2>2. PICK a \in Nat, b \in Nat :
          a = at[m] /\ b = c[m + 1] /\ at[m + 1] = a + b
    BY <1>1, <2>1 DEF Ends
  <2>3. CASE i <= a
    <3>1. i \in 1 .. at[m]
      BY <2>2, <2>3
    <3>2. Found(i, m)
      BY <1>3, <3>1
    <3>3. PICK k \in 1 .. m : \E j \in 1 .. c[k] : i = at[k - 1] + j
      BY <3>2
    <3>4. k \in 1 .. m + 1
      OBVIOUS
    <3> QED
      BY <3>3, <3>4
  <2>4. CASE i > a
    <3>1. i - a \in 1 .. b /\ i = a + (i - a)
      BY <2>2, <2>4
    <3>2. m + 1 \in 1 .. m + 1
      OBVIOUS
    <3>3. at[(m + 1) - 1] = a /\ c[m + 1] = b
      BY <2>1, <2>2
    <3>4. \E j \in 1 .. c[m + 1] : i = at[(m + 1) - 1] + j
      BY <3>1, <3>3
    <3> QED
      BY <3>2, <3>4
  <2> QED
    BY <2>2, <2>3, <2>4
<1>4. Nat \subseteq S
  <2> HIDE DEF S
  <2> QED
    BY <1>2, <1>3, Induct
<1>5. n \in S
  <2> HIDE DEF S
  <2> QED
    BY <1>4
<1> QED
  BY <1>5

LEMMA EndsOf ==
  ASSUME NEW c \in Seq(Nat), NEW n \in Nat, n = Len(c)
  PROVE  Ends([i \in 0 .. n |-> Total(SubSeq(c, 1, i))], n, c)
<1> DEFINE at == [i \in 0 .. n |-> Total(SubSeq(c, 1, i))]
<1>1. \A i \in 0 .. n : /\ SubSeq(c, 1, i) \in Seq(Nat)
                        /\ Len(SubSeq(c, 1, i)) = i
                        /\ \A j \in 1 .. i : SubSeq(c, 1, i)[j] = c[j]
  OBVIOUS
<1>2. at \in [0 .. n -> Nat]
  BY <1>1, TotalType
<1>3. at[0] = 0
  <2>1. SubSeq(c, 1, 0) = <<>>
    OBVIOUS
  <2>2. at[0] = Total(SubSeq(c, 1, 0))
    OBVIOUS
  <2> HIDE DEF at
  <2> QED
    BY <2>1, <2>2, TotalOfNone
<1>4. ASSUME NEW i \in 1 .. n PROVE at[i] = at[i - 1] + c[i]
  <2>1. i - 1 \in 0 .. n /\ i \in 0 .. n
    OBVIOUS
  <2>2. c[i] \in Nat
    BY ElementOfSeq
  <2>3. SubSeq(c, 1, i) = Append(SubSeq(c, 1, i - 1), c[i])
    <3> DEFINE less == SubSeq(c, 1, i - 1)
               all  == SubSeq(c, 1, i)
    <3>1. /\ less \in Seq(Nat) /\ Len(less) = i - 1
          /\ \A j \in 1 .. i - 1 : less[j] = c[j]
      BY <1>1, <2>1
    <3>2. /\ all \in Seq(Nat) /\ Len(all) = i
          /\ \A j \in 1 .. i : all[j] = c[j]
      BY <1>1, <2>1
    <3> HIDE DEF less, all
    <3>3. /\ Append(less, c[i]) \in Seq(Nat) /\ Len(Append(less, c[i])) = i
          /\ \A j \in 1 .. i : Append(less, c[i])[j] = c[j]
      <4>1. /\ Append(less, c[i]) \in Seq(Nat)
            /\ Len(Append(less, c[i])) = Len(less) + 1
            /\ \A j \in 1 .. Len(less) : Append(less, c[i])[j] = less[j]
            /\ Append(less, c[i])[Len(less) + 1] = c[i]
        BY <2>2, <3>1, AppendProperties
      <4>2. \A j \in 1 .. i : j \in 1 .. i - 1 \/ j = i
        OBVIOUS
      <4> QED
        BY <3>1, <4>1, <4>2
    <3>4. all = Append(less, c[i])
      BY <3>2, <3>3, SeqEqual
    <3> QED
      BY <3>4 DEF all, less
  <2>4. Total(SubSeq(c, 1, i)) = Total(SubSeq(c, 1, i - 1)) + c[i]
    BY <1>1, <2>1, <2>2, <2>3, TotalOfMore
  <2> QED
    BY <2>1, <2>4
<1> QED
  BY <1>2, <1>3, <1>4 DEF Ends

(* Joined: the list s[k] is in flat after those before it.                 *)
Joined(flat, s, n, at) ==
  /\ Len(flat) = at[n]
  /\ \A k \in 1 .. n : \A j \in 1 .. Len(s[k]) : flat[at[k - 1] + j] = s[k][j]

LEMMA JoinedIs ==
  ASSUME NEW X, NEW s \in Seq(Seq(X)), NEW n \in Nat, n = Len(s),
         NEW c \in [1 .. n -> Nat], \A k \in 1 .. n : c[k] = Len(s[k]),
         NEW at, Ends(at, n, c)
  PROVE  Joined(FlattenSeq(s), s, n, at)
<1>1. PICK f \in [0 .. n -> Seq(X)] :
        /\ f[0] = <<>> /\ \A i \in 1 .. n : f[i] = f[i - 1] \o s[i]
        /\ FlattenSeq(s) = f[n]
  BY FlattenIs
<1> DEFINE Good(i) == Joined(f[i], s, i, at)
           S == {i \in Nat : i <= n => Good(i)}
<1>2. \A i \in 1 .. n : s[i] \in Seq(X)
  BY ElementOfSeq
<1>3. 0 \in S
  BY <1>1 DEF Joined, Ends
<1>4. ASSUME NEW i \in Nat, i \in S PROVE i + 1 \in S
  <2> SUFFICES ASSUME i + 1 <= n PROVE Good(i + 1)
    BY <1>4
  <2>1. i + 1 \in 1 .. n /\ (i + 1) - 1 = i /\ i \in 0 .. n /\ i <= n
    BY <1>4
  <2>2. Joined(f[i], s, i, at)
    BY <1>4, <2>1
  <2>3. PICK a \in Seq(X), x \in Seq(X) : a = f[i] /\ x = s[i + 1]
    BY <1>2, <2>1
  <2>4. f[i + 1] = a \o x
    BY <1>1, <2>1, <2>3
  <2>5. PICK u \in Nat, v \in Nat : u = Len(a) /\ v = Len(x)
    BY LenProperties
  <2>6. at[i] = u /\ at[i + 1] = u + v
    BY <2>1, <2>2, <2>3, <2>5 DEF Joined, Ends
  <2>7. /\ Len(a \o x) = u + v
        /\ \A j \in 1 .. u : (a \o x)[j] = a[j]
        /\ \A j \in 1 .. v : (a \o x)[u + j] = x[j]
    <3>1. /\ Len(a \o x) = Len(a) + Len(x)
          /\ \A j \in 1 .. Len(a) + Len(x) :
               (a \o x)[j] = IF j <= Len(a) THEN a[j] ELSE x[j - Len(a)]
      BY ConcatProperties
    <3>2. \A j \in 1 .. u : j \in 1 .. u + v /\ j <= u
      OBVIOUS
    <3>3. \A j \in 1 .. v : u + j \in 1 .. u + v /\ ~(u + j <= u) /\ (u + j) - u = j
      OBVIOUS
    <3> QED
      BY <2>5, <3>1, <3>2, <3>3
  <2>8. ASSUME NEW k \in 1 .. i + 1, NEW j \in 1 .. Len(s[k])
        PROVE  (a \o x)[at[k - 1] + j] = s[k][j]
    <3>1. CASE k = i + 1
      <4>1. at[k - 1] = u /\ s[k] = x
        BY <2>1, <2>3, <2>6, <3>1
      <4>2. j \in 1 .. v
        BY <2>5, <4>1
      <4>3. (a \o x)[u + j] = x[j]
        BY <2>7, <4>2
      <4> QED
        BY <4>1, <4>3
    <3>2. CASE k \in 1 .. i
      <4>1. a[at[k - 1] + j] = s[k][j]
        BY <2>2, <2>3, <3>2 DEF Joined
      <4>5. at[k - 1] + j \in 1 .. u
        <5>1. j \in 1 .. c[k]
          BY <2>1, <3>2
        <5>2. at[k - 1] + j \in 1 .. at[i]
          BY <2>1, <3>2, <5>1, PlaceBefore
        <5> QED
          BY <2>6, <5>2
      <4> QED
        BY <2>7, <4>1, <4>5
    <3>3. k \in 1 .. i \/ k = i + 1
      OBVIOUS
    <3> QED
      BY <3>1, <3>2, <3>3
  <2> QED
    BY <2>4, <2>6, <2>7, <2>8 DEF Joined
<1>5. Nat \subseteq S
  <2> HIDE DEF S
  <2> QED
    BY <1>3, <1>4, Induct
<1> HIDE DEF Good
<1>6. Good(n)
  BY <1>5
<1> QED
  BY <1>1, <1>6 DEF Good

(* A joined list, cut into pieces of the lengths that it is made of.       *)
LEMMA CutOfFlatten ==
  ASSUME NEW X, NEW s \in Seq(Seq(X)), NEW n \in Nat, n = Len(s)
  PROVE  Cut(FlattenSeq(s), [k \in 1 .. n |-> Len(s[k])]) = s
<1> DEFINE c == [k \in 1 .. n |-> Len(s[k])]
           at == [i \in 0 .. n |-> Total(SubSeq(c, 1, i))]
<1>1. \A k \in 1 .. n : s[k] \in Seq(X) /\ Len(s[k]) \in Nat
  BY ElementOfSeq, LenProperties
<1>2. c \in [1 .. n -> Nat] /\ \A k \in 1 .. n : c[k] = Len(s[k])
  BY <1>1
<1>3. c \in Seq(Nat) /\ Len(c) = n /\ DOMAIN c = 1 .. n
  <2> HIDE DEF c
  <2> QED
    BY <1>2, FunctionIsSeq
<1> HIDE DEF c
<1>4. Ends(at, n, c)
  BY <1>3, EndsOf
<1>5. \A i \in 0 .. n : Total(SubSeq(c, 1, i)) = at[i]
  OBVIOUS
<1> HIDE DEF at
<1>6. PICK flat \in Seq(X) : flat = FlattenSeq(s)
  BY FlattenType
<1>7. Joined(flat, s, n, at)
  BY <1>2, <1>4, <1>6, JoinedIs
<1>8. ASSUME NEW k \in 1 .. n
      PROVE  SubSeq(flat, at[k - 1] + 1, at[k]) = s[k]
  <2>1. k \in 0 .. n /\ k - 1 \in 0 .. n /\ n \in 0 .. n
    OBVIOUS
  <2>2. at[k] <= at[n]
    <3>1. Ascends(at, n)
      BY <1>2, <1>4, EndsIncrease
    <3>2. k <= n
      OBVIOUS
    <3> QED
      BY <2>1, <3>1, <3>2 DEF Ascends
  <2>3. PICK p \in Nat, q \in Nat, m \in Nat :
          /\ p = at[k - 1] /\ q = at[k] /\ m = Len(s[k]) /\ q = p + m
          /\ q <= Len(flat)
    <3>1. at[k - 1] \in Nat /\ at[k] \in Nat /\ Len(s[k]) \in Nat
      BY <1>1, <1>4, <2>1 DEF Ends
    <3>2. at[k] = at[k - 1] + Len(s[k])
      BY <1>2, <1>4 DEF Ends
    <3>3. at[k] <= Len(flat)
      BY <1>7, <2>2 DEF Joined
    <3> QED
      BY <3>1, <3>2, <3>3
  <2>4. \A j \in 1 .. m : flat[p + j] = s[k][j]
    BY <1>7, <2>3 DEF Joined
  <2>5. PICK piece : piece = SubSeq(flat, p + 1, q)
    OBVIOUS
  <2>6. piece \in Seq(X) /\ Len(piece) = m
          /\ \A j \in 1 .. m : piece[j] = flat[p + j]
    <3>1. \A i \in p + 1 .. q : flat[i] \in X
      <4>1. \A i \in p + 1 .. q : i \in 1 .. Len(flat)
        BY <2>3
      <4> QED
        BY <4>1, ElementOfSeq
    <3>2. /\ piece \in Seq(X)
          /\ Len(piece) = IF p + 1 <= q THEN q - (p + 1) + 1 ELSE 0
          /\ \A j \in 1 .. q - (p + 1) + 1 : piece[j] = flat[(p + 1) + j - 1]
      <4>1. p + 1 \in Int /\ q \in Int
        OBVIOUS
      <4> QED
        BY <2>5, <3>1, <4>1, SubSeqProperties
    <3>3. q - (p + 1) + 1 = m /\ (p + 1 <= q <=> m # 0)
      BY <2>3
    <3>4. \A j \in 1 .. m : (p + 1) + j - 1 = p + j
      OBVIOUS
    <3> QED
      BY <3>2, <3>3, <3>4
  <2>7. \A j \in 1 .. m : piece[j] = s[k][j]
    BY <2>4, <2>6
  <2>8. piece = s[k]
    BY <1>1, <2>3, <2>6, <2>7, SeqEqual
  <2> QED
    BY <2>3, <2>5, <2>8
<1>9. ASSUME NEW k \in 1 .. n
      PROVE  Total(SubSeq(c, 1, k - 1)) = at[k - 1] /\ Total(SubSeq(c, 1, k)) = at[k]
  BY <1>5
<1>10. Cut(flat, c) = [k \in 1 .. n |-> s[k]]
  BY <1>3, <1>8, <1>9 DEF Cut
<1>11. s = [k \in 1 .. n |-> s[k]]
  BY LenProperties
<1> QED
  BY <1>6, <1>10, <1>11 DEF c

LEMMA SyncConfigIs ==
  ASSUME Types, DataInv, pc = "written"
  PROVE  SyncConfig = [i \in 1 .. Len(sm) |-> sm[i].pdo]
<1> DEFINE each == [i \in 1 .. Len(sm) |-> sm[i].pdo]
           pdos == FlattenSeq(each)
<1>1. sm \in Seq(SyncManager) /\ Len(sm) \in Nat
  BY SyncManagersType, LenProperties DEF Types
<1>2. \A i \in 1 .. Len(sm) : sm[i].pdo \in Seq(Seq(Entry))
  <2>1. \A i \in 1 .. Len(sm) : sm[i] \in SyncManager
    BY <1>1, ElementOfSeq
  <2> QED
    BY <2>1 DEF SyncManager
<1>3. each \in [1 .. Len(sm) -> Seq(Seq(Entry))]
  BY <1>2
<1>4. \A i \in 1 .. Len(sm) : each[i] = sm[i].pdo
  OBVIOUS
<1> HIDE DEF each
<1>5. each \in Seq(Seq(Seq(Entry))) /\ Len(each) = Len(sm)
  BY <1>1, <1>3, FunctionIsSeq
<1>6. pdos \in Seq(Seq(Entry))
  BY <1>5, FlattenType
<1>7. Len(pdos) \in Nat
  BY <1>6, LenProperties
<1>8. tables = TablesOf(sm)
  BY DEF DataInv, AfterSm, AfterDc
<1>9. /\ tables.entry = FlattenSeq(pdos)
      /\ tables.pdo = [k \in 1 .. Len(pdos) |-> Len(pdos[k])]
      /\ DOMAIN tables.manager = 1 .. Len(sm)
      /\ \A i \in 1 .. Len(sm) : tables.manager[i].n = Len(each[i])
  <2>1. tables.manager = [i \in 1 .. Len(sm) |-> [input |-> sm[i].input,
                                                  n |-> Len(sm[i].pdo)]]
    BY <1>8 DEF TablesOf
  <2>2. DOMAIN tables.manager = 1 .. Len(sm)
    BY <2>1
  <2>3. \A i \in 1 .. Len(sm) : tables.manager[i].n = Len(each[i])
    BY <1>4, <2>1
  <2>4. /\ tables.entry = FlattenSeq(pdos)
        /\ tables.pdo = [k \in 1 .. Len(pdos) |-> Len(pdos[k])]
    BY <1>8 DEF TablesOf, each
  <2> QED
    BY <2>2, <2>3, <2>4
<1> HIDE DEF pdos
<1>10. Cut(tables.entry, tables.pdo) = pdos
  BY <1>6, <1>7, <1>9, CutOfFlatten
<1>11. [i \in DOMAIN tables.manager |-> tables.manager[i].n]
         = [i \in 1 .. Len(sm) |-> Len(each[i])]
  BY <1>9
<1>12. Cut(FlattenSeq(each), [i \in 1 .. Len(sm) |-> Len(each[i])]) = each
  BY <1>1, <1>5, CutOfFlatten
<1> QED
  BY <1>10, <1>11, <1>12 DEF SyncConfig, each, pdos

LEMMA StartInType ==
  ASSUME NEW pdos \in Seq(Seq(Entry)), NEW e, e.pdo \in 1 .. Len(pdos),
         e.entry \in 1 .. Len(pdos[e.pdo])
  PROVE  StartIn(pdos, e) \in Nat
<1>1. pdos[e.pdo] \in Seq(Entry)
  BY ElementOfSeq
<1>2. SubSeq(pdos, 1, e.pdo - 1) \in Seq(Seq(Entry))
  <2>1. e.pdo - 1 \in Int /\ 1 \in Int
    BY LenProperties
  <2>2. \A i \in 1 .. e.pdo - 1 : pdos[i] \in Seq(Entry)
    <3>1. \A i \in 1 .. e.pdo - 1 : i \in 1 .. Len(pdos)
      BY LenProperties
    <3> QED
      BY <3>1, ElementOfSeq
  <2> QED
    BY <2>1, <2>2, SubSeqProperties
<1>3. SubSeq(pdos[e.pdo], 1, e.entry - 1) \in Seq(Entry)
  <2> DEFINE entries == pdos[e.pdo]
  <2>1. entries \in Seq(Entry) /\ e.entry \in 1 .. Len(entries)
    BY <1>1
  <2> HIDE DEF entries
  <2>2. e.entry - 1 \in Int /\ 1 \in Int
    BY <2>1, LenProperties
  <2>3. \A i \in 1 .. e.entry - 1 : entries[i] \in Entry
    <3>1. \A i \in 1 .. e.entry - 1 : i \in 1 .. Len(entries)
      BY <2>1, LenProperties
    <3> QED
      BY <2>1, <3>1, ElementOfSeq
  <2>4. SubSeq(entries, 1, e.entry - 1) \in Seq(Entry)
    BY <2>2, <2>3, SubSeqProperties
  <2> QED
    BY <2>4 DEF entries
<1>4. FlattenSeq(SubSeq(pdos, 1, e.pdo - 1)) \in Seq(Entry)
  BY <1>2, FlattenType
<1>5. FlattenSeq(SubSeq(pdos, 1, e.pdo - 1))
        \o SubSeq(pdos[e.pdo], 1, e.entry - 1) \in Seq(Entry)
  BY <1>3, <1>4, ConcatProperties
<1> QED
  BY <1>5, BitsType DEF StartIn

-----------------------------------------------------------------------------
(* Bits *)

(* A type has less than a byte, or n bytes.                                *)
LEMMA TypeIs ==
  ASSUME NEW dt \in DataType
  PROVE  \/ /\ MantBits(dt) \in 1 .. 7 /\ dt < 1008
            /\ SlBytes(SlType(dt)) = 1 /\ dt # 1024
         \/ \E n \in 1 .. 8 :
              /\ MantBits(dt) = 8 * n /\ Bytes(dt) = n /\ ~(dt < 1008)
              /\ dt = 1024 <=> n = 3
              /\ SlBytes(SlType(dt)) = IF n = 1 THEN 1 ELSE IF n = 2 THEN 2
                                       ELSE IF n <= 4 THEN 4 ELSE 8
<1>1. dt \in 1001 .. 1007 \/ dt \in {1008, 2008} \/ dt \in {1016, 2016}
        \/ dt = 1024 \/ dt \in {1032, 2032, 3032}
        \/ dt \in {1040, 1048, 1056} \/ dt \in {1064, 2064, 3064}
  BY DEF DataType
<1>2. CASE dt \in 1001 .. 1007
  <2>1. MantBits(dt) \in 1 .. 7
    BY <1>2 DEF MantBits
  <2>2. SlType(dt) \in {"boolean", "uint8"}
    BY <1>2 DEF SlType
  <2> QED
    BY <1>2, <2>1, <2>2 DEF SlBytes
<1>3. CASE dt \in {1008, 2008}
  BY <1>3 DEF MantBits, Bytes, SlType, SlBytes
<1>4. CASE dt \in {1016, 2016}
  BY <1>4 DEF MantBits, Bytes, SlType, SlBytes
<1>5. CASE dt = 1024
  BY <1>5 DEF MantBits, Bytes, SlType, SlBytes
<1>6. CASE dt \in {1032, 2032, 3032}
  BY <1>6 DEF MantBits, Bytes, SlType, SlBytes
<1>7. CASE dt \in {1040, 1048, 1056}
  BY <1>7 DEF MantBits, Bytes, SlType, SlBytes
<1>8. CASE dt \in {1064, 2064, 3064}
  BY <1>8 DEF MantBits, Bytes, SlType, SlBytes
<1> QED
  BY <1>1, <1>2, <1>3, <1>4, <1>5, <1>6, <1>7, <1>8

LEMMA StoredIs ==
  ASSUME NEW n \in 1 .. 8
  PROVE  Stored(n) = IF n = 1 THEN 1 ELSE IF n = 2 THEN 2
                     ELSE IF n <= 4 THEN 4 ELSE 8
<1> DEFINE r == IF n = 1 THEN 1 ELSE IF n = 2 THEN 2
                ELSE IF n <= 4 THEN 4 ELSE 8
           Least(s) == s >= n /\ \A t \in {1, 2, 4, 8} : t >= n => s <= t
<1>1. r \in {1, 2, 4, 8} /\ Least(r)
  OBVIOUS
<1>2. \A s \in {1, 2, 4, 8} : Least(s) => s = r
  OBVIOUS
<1>3. Stored(n) = CHOOSE s \in {1, 2, 4, 8} : Least(s)
  BY DEF Stored
<1> HIDE DEF r, Least
<1>4. Stored(n) = r
  BY <1>1, <1>2, <1>3
<1> QED
  BY <1>4 DEF r

(* Where bit b of a value of n bits is that starts with the first bit.     *)
BitAt(n, big, first, b) ==
  IF n < 8 /\ (first % 8) + b > 7 THEN Zero
  ELSE first + (IF big /\ n > 8 THEN n - 8 * (b \div 8 + 1) + (b % 8) ELSE b)

LEMMA DivMod ==
  /\ \A q \in Int : \A r \in 0 .. 7 : (8 * q + r) \div 8 = q /\ (8 * q + r) % 8 = r
  /\ \A x \in Int : x \div 8 \in Int /\ x % 8 \in 0 .. 7
                      /\ x = 8 * (x \div 8) + (x % 8)
OBVIOUS

LEMMA BigIs ==
  ASSUME NEW n \in 1 .. 8, NEW b \in 0 .. 8 * n - 1
  PROVE  /\ Big(n, b) \in 0 .. 8 * n - 1 /\ Big(n, Big(n, b)) = b
         /\ Big(n, b) = 8 * n - 8 * (b \div 8 + 1) + (b % 8)
         /\ n = 1 => Big(n, b) = b
<1>1. PICK q \in Int, r \in 0 .. 7 :
        q = b \div 8 /\ r = b % 8 /\ b = 8 * q + r
  BY DivMod
<1>2. q >= 0 /\ q <= n - 1
  BY <1>1
<1>3. Big(n, b) = 8 * (n - 1 - q) + r
  BY <1>1 DEF Big
<1>4. PICK p \in Int : p = n - 1 - q
  BY <1>1
<1>5. (8 * p + r) \div 8 = p /\ (8 * p + r) % 8 = r
  BY DivMod
<1>6. Big(n, 8 * p + r) = 8 * (n - 1 - p) + r
  BY <1>5 DEF Big
<1>7. Big(n, b) = 8 * p + r
  BY <1>3, <1>4
<1> QED
  BY <1>1, <1>2, <1>4, <1>6, <1>7

(* A value that starts within a byte, or with one if it is of whole bytes.  *)
Starts(dt, first) == MantBits(dt) < 8 \/ first % 8 = 0

LEMMA ReadIs ==
  ASSUME NEW dt \in DataType, NEW big \in BOOLEAN, NEW first \in Nat,
         Starts(dt, first)
  PROVE  LET bits == Read(dt, big, first \div 8, first % 8)
             all  == 8 * SlBytes(SlType(dt))
         IN /\ \A b \in 0 .. all - 1 :
                 /\ b \in DOMAIN bits
                 /\ bits[b] = IF b \in 0 .. MantBits(dt) - 1
                              THEN BitAt(MantBits(dt), big, first, b) ELSE Zero
            /\ \A b \in DOMAIN bits :
                 b \in 0 .. all - 1 + (IF big /\ dt = 1024 THEN 32 ELSE 0)
<1> DEFINE bits == Read(dt, big, first \div 8, first % 8)
           all  == 8 * SlBytes(SlType(dt))
           o == first \div 8
           p == first % 8
<1>1. o \in Nat /\ p \in 0 .. 7 /\ first = 8 * o + p
  OBVIOUS
<1>2. CASE /\ MantBits(dt) \in 1 .. 7 /\ dt < 1008
           /\ SlBytes(SlType(dt)) = 1 /\ dt # 1024
  <2>1. PICK n \in 1 .. 7 : n = MantBits(dt)
    BY <1>2
  <2>2. bits = [b \in 0 .. 7 |-> IF b < n /\ p + b < 8 THEN 8 * o + p + b ELSE Zero]
    BY <1>2, <2>1 DEF Read, ReadBitField
  <2>3. all = 8
    BY <1>2
  <2>4. ASSUME NEW b \in 0 .. 7
        PROVE  bits[b] = IF b \in 0 .. n - 1 THEN BitAt(n, big, first, b) ELSE Zero
    <3>1. bits[b] = IF b < n /\ p + b < 8 THEN 8 * o + p + b ELSE Zero
      BY <2>2
    <3> HIDE DEF bits
    <3>2. BitAt(n, big, first, b) = IF p + b > 7 THEN Zero ELSE first + b
      BY DEF BitAt
    <3> HIDE DEF o, p
    <3> QED
      BY <1>1, <3>1, <3>2
  <2>5. DOMAIN bits = 0 .. 7
    BY <2>2
  <2> HIDE DEF bits, all, o, p
  <2>6. \A b \in 0 .. all - 1 :
          /\ b \in DOMAIN bits
          /\ bits[b] = IF b \in 0 .. MantBits(dt) - 1
                       THEN BitAt(MantBits(dt), big, first, b) ELSE Zero
    BY <2>1, <2>3, <2>4, <2>5
  <2>7. \A b \in DOMAIN bits :
          b \in 0 .. all - 1 + (IF big /\ dt = 1024 THEN 32 ELSE 0)
    BY <1>2, <2>3, <2>5
  <2> QED
    BY <2>6, <2>7 DEF bits, all, o, p
<1>3. ASSUME NEW n \in 1 .. 8,
             MantBits(dt) = 8 * n, Bytes(dt) = n, ~(dt < 1008),
             dt = 1024 <=> n = 3,
             SlBytes(SlType(dt)) = IF n = 1 THEN 1 ELSE IF n = 2 THEN 2
                                   ELSE IF n <= 4 THEN 4 ELSE 8
      PROVE  /\ \A b \in 0 .. all - 1 :
                 /\ b \in DOMAIN bits
                 /\ bits[b] = IF b \in 0 .. MantBits(dt) - 1
                              THEN BitAt(MantBits(dt), big, first, b) ELSE Zero
             /\ \A b \in DOMAIN bits :
                 b \in 0 .. all - 1 + (IF big /\ dt = 1024 THEN 32 ELSE 0)
  <2>1. first = 8 * o
    <3>1. p = 0
      BY <1>3 DEF Starts
    <3> HIDE DEF o, p
    <3> QED
      BY <1>1, <3>1
  <2>2. PICK m \in Nat : m = Stored(n) /\ all = 8 * m /\ n <= m
    <3>1. Stored(n) = SlBytes(SlType(dt)) /\ Stored(n) \in Nat /\ n <= Stored(n)
      BY <1>3, StoredIs
    <3> QED
      BY <3>1
  <2>3. \A b \in 0 .. 8 * n - 1 :
          BitAt(8 * n, big, first, b)
            = first + (IF big /\ n > 1 THEN Big(n, b) ELSE b)
    <3> TAKE b \in 0 .. 8 * n - 1
    <3>1. Big(n, b) = 8 * n - 8 * (b \div 8 + 1) + (b % 8)
      BY BigIs
    <3>2. 8 * n > 8 <=> n > 1
      OBVIOUS
    <3>3. ~(8 * n < 8)
      OBVIOUS
    <3> QED
      BY <3>1, <3>2, <3>3 DEF BitAt
  <2>4. CASE ~big
    <3>1. bits = [b \in 0 .. 8 * m - 1 |-> IF b < 8 * n THEN 8 * o + b ELSE Zero]
      BY <1>3, <2>2, <2>4 DEF Read, ReadLittle
    <3> HIDE DEF bits, all, o, p
    <3>2. \A b \in 0 .. 8 * m - 1 :
            bits[b] = IF b \in 0 .. 8 * n - 1 THEN BitAt(8 * n, big, first, b)
                      ELSE Zero
      BY <2>1, <2>3, <2>4, <3>1
    <3> QED
      BY <1>3, <2>2, <2>4, <3>1, <3>2
  <2>5. CASE big
    <3>1. PICK s \in Nat : s = IF n = 3 THEN 8 ELSE m
      OBVIOUS
    <3>2. bits = [b \in 0 .. 8 * s - 1 |->
                    IF b < 8 * n THEN 8 * o + Big(n, b) ELSE Zero]
      BY <1>3, <2>2, <2>5, <3>1 DEF Read, ReadBig
    <3>3. m <= s /\ (n # 3 => s = m) /\ (n = 3 => s = 8 /\ m = 4)
      BY <2>2, <3>1, StoredIs
    <3> HIDE DEF bits, all, o, p
    <3>4. \A b \in 0 .. 8 * m - 1 :
            bits[b] = IF b \in 0 .. 8 * n - 1 THEN BitAt(8 * n, big, first, b)
                      ELSE Zero
      <4> TAKE b \in 0 .. 8 * m - 1
      <4>1. b \in 0 .. 8 * s - 1
        BY <3>3
      <4>2. (b < 8 * n /\ n = 1) => Big(n, b) = b
        BY BigIs
      <4>3. bits[b] = IF b < 8 * n THEN 8 * o + Big(n, b) ELSE Zero
        BY <3>2, <4>1
      <4>4. b < 8 * n <=> b \in 0 .. 8 * n - 1
        OBVIOUS
      <4>5. CASE b \in 0 .. 8 * n - 1
        <5>1. BitAt(8 * n, big, first, b)
                = first + (IF n > 1 THEN Big(n, b) ELSE b)
          BY <2>3, <2>5, <4>5
        <5>2. bits[b] = first + Big(n, b)
          BY <2>1, <4>3, <4>4, <4>5
        <5>3. ~(n > 1) => Big(n, b) = b
          BY <4>2, <4>4, <4>5
        <5> QED
          BY <4>5, <5>1, <5>2, <5>3
      <4>6. CASE b \notin 0 .. 8 * n - 1
        BY <4>3, <4>4, <4>6
      <4> QED
        BY <4>5, <4>6
    <3>5. \A b \in DOMAIN bits : b \in 0 .. 8 * s - 1
      BY <3>2
    <3>6. 8 * s - 1 <= all - 1 + (IF big /\ dt = 1024 THEN 32 ELSE 0)
      BY <1>3, <2>2, <2>5, <3>3
    <3>7. \A b \in 0 .. 8 * m - 1 : b \in DOMAIN bits
      BY <3>2, <3>3
    <3> QED
      BY <1>3, <2>2, <3>4, <3>5, <3>6, <3>7
  <2> QED
    BY <2>4, <2>5
<1>4. /\ \A b \in 0 .. all - 1 :
           /\ b \in DOMAIN bits
           /\ bits[b] = IF b \in 0 .. MantBits(dt) - 1
                        THEN BitAt(MantBits(dt), big, first, b) ELSE Zero
      /\ \A b \in DOMAIN bits :
           b \in 0 .. all - 1 + (IF big /\ dt = 1024 THEN 32 ELSE 0)
  <2> HIDE DEF bits, all
  <2>1. CASE /\ MantBits(dt) \in 1 .. 7 /\ dt < 1008
             /\ SlBytes(SlType(dt)) = 1 /\ dt # 1024
    BY <1>2, <2>1 DEF bits, all
  <2>2. CASE \E n \in 1 .. 8 :
               /\ MantBits(dt) = 8 * n /\ Bytes(dt) = n /\ ~(dt < 1008)
               /\ dt = 1024 <=> n = 3
               /\ SlBytes(SlType(dt)) = IF n = 1 THEN 1 ELSE IF n = 2 THEN 2
                                        ELSE IF n <= 4 THEN 4 ELSE 8
    <3>1. PICK n \in 1 .. 8 :
               /\ MantBits(dt) = 8 * n /\ Bytes(dt) = n /\ ~(dt < 1008)
               /\ dt = 1024 <=> n = 3
               /\ SlBytes(SlType(dt)) = IF n = 1 THEN 1 ELSE IF n = 2 THEN 2
                                        ELSE IF n <= 4 THEN 4 ELSE 8
      BY <2>2
    <3> QED
      BY <1>3, <3>1
  <2> QED
    BY <2>1, <2>2, TypeIs
<1> QED
  BY <1>4

LEMMA WriteIs ==
  ASSUME NEW dt \in DataType, NEW big \in BOOLEAN, NEW first \in Nat,
         Starts(dt, first)
  PROVE  LET bits == Write(dt, big, first \div 8, first % 8)
             At(b) == BitAt(MantBits(dt), big, first, b)
         IN /\ \A x \in DOMAIN bits :
                 /\ bits[x] \in 0 .. MantBits(dt) - 1
                 /\ At(bits[x]) = x /\ x # Zero
            /\ \A b \in 0 .. MantBits(dt) - 1 :
                 At(b) # Zero => At(b) \in DOMAIN bits
<1> DEFINE bits == Write(dt, big, first \div 8, first % 8)
           o == first \div 8
           p == first % 8
<1>1. o \in Nat /\ p \in 0 .. 7 /\ first = 8 * o + p
  OBVIOUS
<1>2. CASE MantBits(dt) \in 1 .. 7 /\ dt < 1008
  <2>1. PICK n \in 1 .. 7 : n = MantBits(dt)
    BY <1>2
  <2> DEFINE places == {8 * o + b : b \in (p .. p + n - 1) \cap (0 .. 7)}
  <2>2. bits = [x \in places |-> x - 8 * o - p]
    BY <1>2, <2>1 DEF Write, WriteBitField
  <2>3. \A b \in 0 .. n - 1 :
          BitAt(n, big, first, b) = IF p + b > 7 THEN Zero ELSE first + b
    BY DEF BitAt
  <2> HIDE DEF bits, o, p
  <2>4. ASSUME NEW x \in DOMAIN bits
        PROVE  /\ bits[x] \in 0 .. n - 1 /\ x # Zero
               /\ BitAt(n, big, first, bits[x]) = x
    <3>1. PICK b \in (p .. p + n - 1) \cap (0 .. 7) : x = 8 * o + b
      BY <2>2
    <3>2. bits[x] = b - p
      BY <1>1, <2>2, <3>1
    <3>3. b - p \in 0 .. n - 1 /\ x # -1
      BY <1>1, <3>1
    <3>4. BitAt(n, big, first, b - p) = first + (b - p)
      BY <1>1, <2>3, <3>1, <3>3
    <3> QED
      BY <1>1, <3>1, <3>2, <3>3, <3>4 DEF Zero
  <2>5. ASSUME NEW b \in 0 .. n - 1, BitAt(n, big, first, b) # Zero
        PROVE  BitAt(n, big, first, b) \in DOMAIN bits
    <3>1. BitAt(n, big, first, b) = first + b /\ p + b <= 7
      BY <1>1, <2>3, <2>5
    <3>2. p + b \in (p .. p + n - 1) \cap (0 .. 7)
      BY <1>1, <3>1
    <3>3. first + b = 8 * o + (p + b)
      BY <1>1
    <3> QED
      BY <2>2, <3>1, <3>2, <3>3
  <2> QED
    BY <2>1, <2>4, <2>5 DEF bits, o, p
<1>3. ASSUME NEW n \in 1 .. 8,
             MantBits(dt) = 8 * n, Bytes(dt) = n, ~(dt < 1008)
      PROVE  /\ \A x \in DOMAIN bits :
                 /\ bits[x] \in 0 .. MantBits(dt) - 1
                 /\ BitAt(MantBits(dt), big, first, bits[x]) = x /\ x # Zero
             /\ \A b \in 0 .. MantBits(dt) - 1 :
                 BitAt(MantBits(dt), big, first, b) \in DOMAIN bits
  <2>1. first = 8 * o
    <3>1. p = 0
      BY <1>3 DEF Starts
    <3> HIDE DEF o, p
    <3> QED
      BY <1>1, <3>1
  <2> DEFINE Turned(b) == IF big /\ n > 1 THEN Big(n, b) ELSE b
  <2>2. \A b \in 0 .. 8 * n - 1 : BitAt(8 * n, big, first, b) = first + Turned(b)
    <3> TAKE b \in 0 .. 8 * n - 1
    <3>1. Big(n, b) = 8 * n - 8 * (b \div 8 + 1) + (b % 8)
      BY BigIs
    <3>2. 8 * n > 8 <=> n > 1
      OBVIOUS
    <3>3. ~(8 * n < 8)
      OBVIOUS
    <3> QED
      BY <3>1, <3>2, <3>3 DEF BitAt
  <2>3. \A b \in 0 .. 8 * n - 1 :
          Turned(b) \in 0 .. 8 * n - 1 /\ Turned(Turned(b)) = b
    BY BigIs
  <2>4. bits = [x \in 8 * o .. 8 * (o + n) - 1 |-> Turned(x - 8 * o)]
    <3>1. \A x \in 8 * o .. 8 * (o + n) - 1 :
            x - 8 * o \in 0 .. 8 * n - 1
      BY <1>1
    <3>2. CASE ~big
      BY <1>3, <3>2 DEF Write, WriteLittle
    <3>3. CASE big
      <4>1. bits = [x \in 8 * o .. 8 * (o + n) - 1 |-> Big(n, x - 8 * o)]
        BY <1>3, <3>3 DEF Write, WriteBig
      <4>2. \A x \in 8 * o .. 8 * (o + n) - 1 :
              Big(n, x - 8 * o) = Turned(x - 8 * o)
        <5> HIDE DEF o
        <5> QED
          BY <3>1, <3>3, BigIs
      <4> HIDE DEF bits, Turned
      <4> QED
        BY <4>1, <4>2
    <3> QED
      BY <3>2, <3>3
  <2> HIDE DEF bits, o, p, Turned
  <2>5. \A x \in DOMAIN bits :
          /\ bits[x] \in 0 .. 8 * n - 1 /\ x # -1
          /\ BitAt(8 * n, big, first, bits[x]) = x
    <3> TAKE x \in DOMAIN bits
    <3>1. PICK b \in 0 .. 8 * n - 1 : b = x - 8 * o /\ bits[x] = Turned(b)
      BY <1>1, <2>4
    <3>2. BitAt(8 * n, big, first, bits[x]) = first + b
      BY <2>2, <2>3, <3>1
    <3> QED
      BY <1>1, <2>1, <2>3, <2>4, <3>1, <3>2
  <2>6. \A b \in 0 .. 8 * n - 1 : BitAt(8 * n, big, first, b) \in DOMAIN bits
    <3> TAKE b \in 0 .. 8 * n - 1
    <3>1. PICK t \in 0 .. 8 * n - 1 : t = Turned(b)
      BY <2>3
    <3>2. BitAt(8 * n, big, first, b) = 8 * o + t
      BY <2>1, <2>2, <3>1
    <3>3. 8 * o + t \in 8 * o .. 8 * (o + n) - 1
      BY <1>1
    <3> QED
      BY <2>4, <3>2, <3>3
  <2> QED
    BY <1>3, <2>5, <2>6 DEF Zero
<1>4. /\ \A x \in DOMAIN bits :
           /\ bits[x] \in 0 .. MantBits(dt) - 1
           /\ BitAt(MantBits(dt), big, first, bits[x]) = x /\ x # Zero
      /\ \A b \in 0 .. MantBits(dt) - 1 :
           BitAt(MantBits(dt), big, first, b) # Zero
             => BitAt(MantBits(dt), big, first, b) \in DOMAIN bits
  <2> HIDE DEF bits
  <2> QED
    BY <1>2, <1>3, TypeIs DEF bits
<1> QED
  BY <1>4

-----------------------------------------------------------------------------
(* The elements of ports, as they are registered *)

PdoMap == [sm : Nat, pdo : Nat, entry : Nat, idx : Nat, datatype : DataType,
           bigendian : BOOLEAN, address : {"in", "out"} \X Nat \X Nat,
           offset : Nat, bit_pos : Nat]

ElementOf(dir, k, port, j) ==
  [sm |-> port.pdo[j].sm, pdo |-> port.pdo[j].pdo,
   entry |-> port.pdo[j].entry, idx |-> port.pdo[j].element,
   datatype |-> port.data_type, bigendian |-> port.big_endian,
   address |-> <<dir, k, j>>, offset |-> 0, bit_pos |-> 0]

(* What the master and register_pdos make of an element that starts with   *)
(* this bit of its sync manager.                                           *)
IsRegistered(m, r, first) ==
  /\ first \in Nat /\ Starts(m.datatype, first)
  /\ r.offset = first \div 8 /\ r.bit_pos = first % 8
  /\ r.sm = m.sm /\ r.datatype = m.datatype /\ r.bigendian = m.bigendian
  /\ r.address = m.address

LEMMA RegisteredIs ==
  ASSUME NEW m \in PdoMap, m.bit_pos = 0, EntryStart(m) \in Nat, Aligned(m)
  PROVE  IsRegistered(m, Registered(m),
                      EntryStart(m) + MantBits(m.datatype) * m.idx)
<1>1. PICK s \in Nat, dt \in DataType, idx \in Nat :
        s = EntryStart(m) /\ dt = m.datatype /\ idx = m.idx
  BY DEF PdoMap
<1>2. PICK n \in Nat, f \in Nat :
        /\ n = MantBits(dt) /\ f = n * idx
        /\ n < 8 \/ \E q \in Nat : f = 8 * q /\ n # 0
        /\ n < 8 => n \in 1 .. 7
  <2>1. CASE MantBits(dt) \in 1 .. 7
    <3>1. MantBits(dt) * idx \in Nat
      BY <2>1
    <3> QED
      BY <2>1, <3>1
  <2>2. CASE \E b \in 1 .. 8 : MantBits(dt) = 8 * b
    <3>1. PICK b \in 1 .. 8 : MantBits(dt) = 8 * b
      BY <2>2
    <3>2. b * idx \in Nat /\ (8 * b) * idx = 8 * (b * idx)
      OBVIOUS
    <3>3. PICK q \in Nat : q = b * idx
      BY <3>2
    <3>4. MantBits(dt) * idx = 8 * q /\ MantBits(dt) >= 8 /\ MantBits(dt) \in Nat
      BY <3>1, <3>2, <3>3
    <3> QED
      BY <3>4
  <2> QED
    BY <2>1, <2>2, TypeIs
<1>3. EntryStart(m) + MantBits(m.datatype) * m.idx = s + f
  BY <1>1, <1>2
<1>4. Aligned(m) <=> n < 8 \/ s % 8 = 0
  BY <1>1, <1>2 DEF Aligned
<1>5. CASE n < 8
  <2>1. Registered(m) = [m EXCEPT !.offset = s \div 8 + ((s % 8) + f) \div 8,
                                  !.bit_pos = ((s % 8) + f) % 8]
    BY <1>1, <1>2, <1>5 DEF Registered
  <2>2. s \div 8 + ((s % 8) + f) \div 8 = (s + f) \div 8
          /\ ((s % 8) + f) % 8 = (s + f) % 8
    OBVIOUS
  <2>3. Starts(dt, s + f)
    BY <1>2, <1>5 DEF Starts
  <2> QED
    BY <1>1, <1>3, <2>1, <2>2, <2>3 DEF IsRegistered, PdoMap
<1>6. CASE ~(n < 8)
  <2>1. s % 8 = 0 /\ \E q \in Nat : f = 8 * q
    BY <1>2, <1>4, <1>6
  <2>2. Registered(m) = [m EXCEPT !.offset = s \div 8 + f \div 8]
    BY <1>1, <1>2, <1>6 DEF Registered
  <2>3. PICK q \in Nat : f = 8 * q
    BY <2>1
  <2>4. s \div 8 + f \div 8 = (s + f) \div 8 /\ (s + f) % 8 = 0
    BY <2>1, <2>3
  <2>5. Starts(dt, s + f)
    BY <2>4 DEF Starts
  <2> QED
    BY <1>1, <1>3, <2>2, <2>4, <2>5 DEF IsRegistered, PdoMap
<1> QED
  BY <1>5, <1>6

Synced == sync = [i \in 1 .. Len(sm) |-> sm[i].pdo]

LEMMA ElementIs ==
  ASSUME Types, Synced, NEW dir \in {"in", "out"},
         NEW k \in Nat, NEW port \in Port, PortLies(sm, port),
         NEW j \in 1 .. Len(port.pdo)
  PROVE  LET m == ElementOf(dir, k, port, j) IN
         /\ m \in PdoMap /\ m.bit_pos = 0 /\ EntryStart(m) \in Nat
         /\ FirstBit(port, j) = EntryStart(m) + MantBits(m.datatype) * m.idx
<1> DEFINE m == ElementOf(dir, k, port, j)
<1>1. PICK e \in Element : e = port.pdo[j]
  BY ElementOfSeq DEF Port
<1>2. /\ e.sm \in 1 .. Len(sm) /\ e.pdo \in 1 .. Len(sm[e.sm].pdo)
      /\ e.entry \in 1 .. Len(sm[e.sm].pdo[e.pdo])
  BY <1>1 DEF PortLies, ElementLies
<1>3. sm[e.sm].pdo \in Seq(Seq(Entry))
  <2>1. sm \in Seq(SyncManager)
    BY SyncManagersType DEF Types
  <2>2. sm[e.sm] \in SyncManager
    BY <1>2, <2>1, ElementOfSeq
  <2> QED
    BY <2>2 DEF SyncManager
<1>4. StartIn(sm[e.sm].pdo, e) \in Nat
  BY <1>2, <1>3, StartInType
<1>5. j \in Nat
  OBVIOUS
<1>6. /\ m = [sm |-> e.sm, pdo |-> e.pdo, entry |-> e.entry, idx |-> e.element,
              datatype |-> port.data_type, bigendian |-> port.big_endian,
              address |-> <<dir, k, j>>, offset |-> 0, bit_pos |-> 0]
  BY <1>1 DEF ElementOf
<1>7. m \in PdoMap /\ m.bit_pos = 0
  <2>1. /\ e.sm \in Nat /\ e.pdo \in Nat /\ e.entry \in Nat /\ e.element \in Nat
        /\ port.data_type \in DataType /\ port.big_endian \in BOOLEAN
    BY DEF Element, Port
  <2>2. <<dir, k, j>> \in {"in", "out"} \X Nat \X Nat
    BY <1>5
  <2> HIDE DEF m
  <2> QED
    BY <1>6, <2>1, <2>2 DEF PdoMap
<1> HIDE DEF m
<1>8. EntryStart(m) = StartIn(sm[e.sm].pdo, e)
  <2>1. sync[e.sm] = sm[e.sm].pdo
    BY <1>2 DEF Synced
  <2>2. m.sm = e.sm /\ m.pdo = e.pdo /\ m.entry = e.entry
    BY <1>6
  <2> QED
    BY <2>1, <2>2 DEF EntryStart, StartIn
<1>9. FirstBit(port, j) = EntryStart(m) + MantBits(m.datatype) * m.idx
  BY <1>1, <1>6, <1>8 DEF FirstBit, BitsBefore
<1> QED
  BY <1>4, <1>7, <1>8, <1>9 DEF m

(* A list of the elements of all ports, element j of port k at at[k-1] + j. *)
Layout(list, dir, p, n, c, at) ==
  /\ c \in [1 .. n -> Nat] /\ Ends(at, n, c)
  /\ list \in Seq(PdoMap) /\ Len(list) = at[n]
  /\ \A k \in 1 .. n : \A j \in 1 .. c[k] :
       /\ list[at[k - 1] + j] = ElementOf(dir, k, p[k], j)
       /\ j \in 1 .. Len(p[k].pdo)

HasLayout(list, dir, p, n, width) ==
  \E c, at : /\ Layout(list, dir, p, n, c, at)
             /\ \A k \in 1 .. n : 1 .. c[k] = 1 .. width[k]

LEMMA MappedIs ==
  ASSUME NEW dir, NEW p \in Seq(Port), NEW n \in Nat, n = Len(p),
         NEW numbers \in Seq(Nat), PointsToPorts(dir, p, numbers),
         NEW width \in Seq(Int), Len(width) = n,
         \A k \in 1 .. n : width[k] <= Len(p[k].pdo),
         \A k \in 1 .. n : \A j \in 1 .. Len(p[k].pdo) :
           ElementOf(dir, k, p[k], j) \in PdoMap
  PROVE  HasLayout(Mapped(dir, numbers, p, width), dir, p, n, width)
<1> DEFINE c == [k \in 1 .. n |-> IF width[k] < 0 THEN 0 ELSE width[k]]
           at == [i \in 0 .. n |-> Total(SubSeq(c, 1, i))]
           s == [k \in 1 .. n |-> [j \in 1 .. c[k] |-> ElementOf(dir, k, p[k], j)]]
<1>1. \A k \in 1 .. n : width[k] \in Int /\ p[k] \in Port
                         /\ Len(p[k].pdo) \in Nat
  <2>1. \A k \in 1 .. n : width[k] \in Int /\ p[k] \in Port
    BY ElementOfSeq
  <2> QED
    BY <2>1, LenProperties DEF Port
<1>2. c \in [1 .. n -> Nat]
  BY <1>1
<1>3. \A k \in 1 .. n : 1 .. c[k] = 1 .. width[k]
  BY <1>1
<1>4. \A k \in 1 .. n : \A j \in 1 .. c[k] : j \in 1 .. Len(p[k].pdo)
  <2>1. \A k \in 1 .. n : c[k] <= Len(p[k].pdo)
    BY <1>1
  <2> HIDE DEF c
  <2> TAKE k \in 1 .. n
  <2>2. PICK ck \in Nat, len \in Nat : ck = c[k] /\ len = Len(p[k].pdo)
    BY <1>1, <1>2
  <2>3. ck <= len
    BY <2>1, <2>2
  <2>4. 1 .. ck \subseteq 1 .. len
    BY <2>3
  <2> QED
    BY <2>2, <2>4
<1> HIDE DEF c
<1>5. c \in Seq(Nat) /\ Len(c) = n
  BY <1>2, FunctionIsSeq
<1>6. Ends(at, n, c)
  BY <1>5, EndsOf
<1> HIDE DEF at
<1>7. \A k \in 1 .. n : s[k] \in Seq(PdoMap) /\ Len(s[k]) = c[k]
  <2> TAKE k \in 1 .. n
  <2> DEFINE t == [j \in 1 .. c[k] |-> ElementOf(dir, k, p[k], j)]
  <2>1. t \in [1 .. c[k] -> PdoMap] /\ c[k] \in Nat
    BY <1>2, <1>4
  <2>2. s[k] = t
    OBVIOUS
  <2> HIDE DEF t, s
  <2> QED
    BY <2>1, <2>2, FunctionIsSeq
<1>8. s \in Seq(Seq(PdoMap)) /\ Len(s) = n
  <2>1. s \in [1 .. n -> Seq(PdoMap)]
    <3>1. \A k \in 1 .. n : [j \in 1 .. c[k] |-> ElementOf(dir, k, p[k], j)]
                              \in Seq(PdoMap)
      BY <1>7
    <3> QED
      BY <3>1
  <2> HIDE DEF s
  <2> QED
    BY <2>1, FunctionIsSeq
<1>9. Mapped(dir, numbers, p, width) = FlattenSeq(s)
  <2>1. Len(numbers) = n /\ DOMAIN p = 1 .. n
    BY LenProperties DEF PointsToPorts
  <2>2. \A k \in 1 .. n : Setting(numbers[k]).port[2] = k
    <3> TAKE k \in 1 .. n
    <3>1. Setting(numbers[k]).port = <<dir, k>>
      BY <2>1 DEF PointsToPorts
    <3>2. <<dir, k>>[2] = k
      OBVIOUS
    <3> QED
      BY <3>1, <3>2
  <2>3. ASSUME NEW k \in 1 .. n
        PROVE  (LET port == p[Setting(numbers[k]).port[2]]
                IN [j \in 1 .. width[k] |->
                      [sm |-> port.pdo[j].sm, pdo |-> port.pdo[j].pdo,
                       entry |-> port.pdo[j].entry, idx |-> port.pdo[j].element,
                       datatype |-> port.data_type,
                       bigendian |-> port.big_endian, address |-> <<dir, k, j>>,
                       offset |-> 0, bit_pos |-> 0]])
               = [j \in 1 .. c[k] |-> ElementOf(dir, k, p[k], j)]
    BY <1>3, <2>2 DEF ElementOf
  <2> QED
    BY <2>1, <2>3 DEF Mapped
<1>10. Joined(FlattenSeq(s), s, n, at)
  <2> HIDE DEF s
  <2> QED
    BY <1>2, <1>6, <1>7, <1>8, JoinedIs
<1>11. FlattenSeq(s) \in Seq(PdoMap)
  <2> HIDE DEF s
  <2> QED
    BY <1>8, FlattenType
<1>12. \A k \in 1 .. n : \A j \in 1 .. c[k] :
         FlattenSeq(s)[at[k - 1] + j] = ElementOf(dir, k, p[k], j)
  <2> SUFFICES ASSUME NEW k \in 1 .. n, NEW j \in 1 .. c[k]
               PROVE  FlattenSeq(s)[at[k - 1] + j] = ElementOf(dir, k, p[k], j)
    OBVIOUS
  <2>1. s[k][j] = ElementOf(dir, k, p[k], j)
    OBVIOUS
  <2> HIDE DEF s
  <2> QED
    BY <1>7, <1>10, <2>1 DEF Joined
<1>13. Len(FlattenSeq(s)) = at[n]
  BY <1>10 DEF Joined
<1> HIDE DEF s
<1>14. Layout(Mapped(dir, numbers, p, width), dir, p, n, c, at)
  BY <1>2, <1>4, <1>6, <1>9, <1>11, <1>12, <1>13 DEF Layout
<1> QED
  BY <1>3, <1>14 DEF HasLayout

(* Every element of the list is one of a port; later ones are elements of  *)
(* later ports, or later ones of the same port.                            *)
LEMMA PlaceInLayout ==
  ASSUME NEW list, NEW dir, NEW p, NEW n \in Nat, NEW c, NEW at,
         Layout(list, dir, p, n, c, at)
  PROVE  /\ \E m \in Nat : DOMAIN list = 1 .. m
         /\ \A k \in 1 .. n : \A j \in 1 .. c[k] :
              at[k - 1] + j \in DOMAIN list /\ at[k - 1] + j \in Nat
         /\ \A i \in DOMAIN list : \E k \in 1 .. n : \E j \in 1 .. c[k] :
              i = at[k - 1] + j
         /\ \A k \in 1 .. n : \A j, l \in 1 .. c[k] :
              j <= l => at[k - 1] + j <= at[k - 1] + l
<1>1. c \in [1 .. n -> Nat] /\ Ends(at, n, c)
  BY DEF Layout
<1>2. DOMAIN list = 1 .. at[n] /\ at[n] \in Nat
  BY LenProperties DEF Layout
<1>3. ASSUME NEW k \in 1 .. n, NEW j \in 1 .. c[k]
      PROVE  at[k - 1] + j \in 1 .. at[n]
  <2>1. n \in 0 .. n
    OBVIOUS
  <2> QED
    BY <1>1, <2>1, PlaceBefore
<1>4. ASSUME NEW k \in 1 .. n PROVE at[k - 1] \in Nat
  <2>1. k - 1 \in 0 .. n
    OBVIOUS
  <2> QED
    BY <1>1, <2>1 DEF Ends
<1>5. \A i \in 1 .. at[n] : \E k \in 1 .. n : \E j \in 1 .. c[k] : i = at[k - 1] + j
  BY <1>1, PlaceOf
<1>6. \A k \in 1 .. n : \A j, l \in 1 .. c[k] :
        j <= l => at[k - 1] + j <= at[k - 1] + l
  BY <1>4
<1> QED
  BY <1>2, <1>3, <1>5, <1>6

-----------------------------------------------------------------------------
(* What the stages of the start have made of the configuration *)

RxMap == Mapped("in", index.in, i_port, inWidth)
TxMap == Mapped("out", index.out, o_port, outWidth)
AllAligned(list) == \A i \in DOMAIN list : Aligned(list[i])
AllRegistered(list) == [i \in DOMAIN list |-> Registered(list[i])]

AtElements == {"generated", "configured"}
AtFunctions == {"started", "received", "sent"}
AtStarted == {"registered"} \cup AtFunctions

StageData ==
  /\ stage \in {"model", "started"} \cup AtElements \cup {"registered"}
       => memory = <<>> /\ image = <<>>
  /\ stage = "received" => image = <<>>
  /\ stage \in AtElements \cup AtStarted => sync = SyncConfig
  /\ stage \in AtElements => pdo_map.rx = RxMap /\ pdo_map.tx = TxMap
  /\ stage \in AtStarted =>
       /\ AllAligned(RxMap) /\ pdo_map.rx = AllRegistered(RxMap)
       /\ AllAligned(TxMap) /\ pdo_map.tx = AllRegistered(TxMap)
  /\ stage \in AtFunctions =>
       /\ convert.out = [i \in DOMAIN pdo_map.rx |->
                           WriteConversion(pdo_map.rx[i])]
       /\ convert.in = [i \in DOMAIN pdo_map.tx |->
                          ReadConversion(pdo_map.tx[i])]
  /\ stage \in {"received", "sent"} => memory = Copied(convert.in, <<>>)
  /\ stage = "sent" => image = Copied(convert.out, <<>>)

LEMMA SameTables ==
  UNCHANGED vars => RxMap' = RxMap /\ TxMap' = TxMap /\ SyncConfig' = SyncConfig
BY DEF vars, config, ports, simulink, rtw, RxMap, TxMap, Mapped, Setting,
   SyncConfig

LEMMA SameStart ==
  ASSUME UNCHANGED vars, UNCHANGED sync
  PROVE  /\ AllAligned(RxMap)' = AllAligned(RxMap)
         /\ AllAligned(TxMap)' = AllAligned(TxMap)
         /\ AllRegistered(RxMap)' = AllRegistered(RxMap)
         /\ AllRegistered(TxMap)' = AllRegistered(TxMap)
BY SameTables DEF AllAligned, Aligned, EntryStart, AllRegistered, Registered

LEMMA NextStageData ==
  StageData /\ [StartNext]_<<vars, start>> => StageData'
<1> SUFFICES ASSUME StageData, [StartNext]_<<vars, start>> PROVE StageData'
  OBVIOUS
<1> USE DEF AtElements, AtFunctions, AtStarted
<1>1. CASE stage = "model" /\ UNCHANGED start
  BY <1>1 DEF StageData, start
<1>2. CASE UNCHANGED vars /\ UNCHANGED start
  BY <1>2, SameTables, SameStart DEF StageData, start
<1>3. CASE Generate /\ UNCHANGED vars
  BY <1>3, SameTables DEF Generate, StageData, RxMap, TxMap
<1>4. CASE InitSlave /\ UNCHANGED vars
  <2>1. CASE StartFails
    BY <2>1 DEF StartFails, StageData
  <2>2. CASE ~StartFails
    <3>1. /\ stage = "generated" /\ stage' = "configured"
          /\ UNCHANGED <<sync, pdo_map, convert, memory, image>>
      BY <1>4, <2>2 DEF InitSlave
    <3> QED
      BY <1>4, <3>1, SameTables DEF StageData
  <2> QED
    BY <2>1, <2>2
<1>5. CASE RegisterPdos /\ UNCHANGED vars
  <2>1. CASE StartFails
    BY <2>1 DEF StartFails, StageData
  <2>2. CASE ~StartFails
    <3>1. /\ stage = "configured" /\ stage' = "registered"
          /\ UNCHANGED <<sync, convert, memory, image>>
          /\ \A d \in {"rx", "tx"} : AllAligned(pdo_map[d])
          /\ pdo_map' = [d \in {"rx", "tx"} |-> AllRegistered(pdo_map[d])]
      BY <1>5, <2>2 DEF RegisterPdos, AllAligned, AllRegistered
    <3>2. pdo_map.rx = RxMap /\ pdo_map.tx = TxMap
      BY <3>1 DEF StageData
    <3>3. /\ AllAligned(RxMap) /\ pdo_map'.rx = AllRegistered(RxMap)
          /\ AllAligned(TxMap) /\ pdo_map'.tx = AllRegistered(TxMap)
      BY <3>1, <3>2
    <3> QED
      BY <1>5, <3>1, <3>3, SameTables, SameStart DEF StageData
  <2> QED
    BY <2>1, <2>2
<1>6. CASE StartSlaves /\ UNCHANGED vars
  <2>1. CASE StartFails
    BY <2>1 DEF StartFails, StageData
  <2>2. CASE ~StartFails
    <3>1. /\ stage = "registered" /\ stage' = "started"
          /\ UNCHANGED <<sync, pdo_map, memory, image>>
          /\ convert'.out = [i \in DOMAIN pdo_map.rx |->
                               WriteConversion(pdo_map.rx[i])]
          /\ convert'.in = [i \in DOMAIN pdo_map.tx |->
                              ReadConversion(pdo_map.tx[i])]
      BY <1>6, <2>2 DEF StartSlaves
    <3> QED
      BY <1>6, <3>1, SameTables, SameStart DEF StageData
  <2> QED
    BY <2>1, <2>2
<1>7. CASE CopyInputs /\ UNCHANGED vars
  <2>1. memory = <<>> /\ image = <<>>
    BY <1>7 DEF CopyInputs, StageData
  <2>2. /\ stage = "started" /\ stage' = "received"
        /\ memory' = Copied(convert'.in, <<>>)
        /\ UNCHANGED <<sync, pdo_map, convert, image>>
    BY <1>7, <2>1 DEF CopyInputs
  <2> QED
    BY <1>7, <2>1, <2>2, SameTables, SameStart DEF StageData
<1>8. CASE CopyOutputs /\ UNCHANGED vars
  <2>1. image = <<>> /\ memory = Copied(convert.in, <<>>)
    BY <1>8 DEF CopyOutputs, StageData
  <2>2. /\ stage = "received" /\ stage' = "sent"
        /\ image' = Copied(convert'.out, <<>>)
        /\ memory' = Copied(convert'.in, <<>>)
        /\ UNCHANGED <<sync, pdo_map, convert, memory>>
    BY <1>8, <2>1 DEF CopyOutputs
  <2> QED
    BY <1>8, <2>1, <2>2, SameTables, SameStart DEF StageData
<1> QED
  BY <1>1, <1>2, <1>3, <1>4, <1>5, <1>6, <1>7, <1>8 DEF StartNext, Start

-----------------------------------------------------------------------------
(* The conversion of one element *)

LEMMA BitOfIs ==
  ASSUME NEW port, NEW j, NEW b
  PROVE  BitOf(port, j, b) = BitAt(MantBits(port.data_type), port.big_endian,
                                   FirstBit(port, j), b)
BY DEF BitOf, BitAt

(* What Registered makes of the element of a port.                         *)
LEMMA ElementRegistered ==
  ASSUME Types, Synced, NEW dir \in {"in", "out"},
         NEW k \in Nat, NEW port \in Port, PortLies(sm, port),
         NEW j \in 1 .. Len(port.pdo), Aligned(ElementOf(dir, k, port, j))
  PROVE  LET r == Registered(ElementOf(dir, k, port, j))
             first == FirstBit(port, j)
         IN /\ first \in Nat /\ Starts(port.data_type, first)
            /\ r.offset = first \div 8 /\ r.bit_pos = first % 8
            /\ r.sm = port.pdo[j].sm /\ r.datatype = port.data_type
            /\ r.bigendian = port.big_endian
            /\ r.address[2] = k /\ r.address[3] = j
<1> DEFINE m == ElementOf(dir, k, port, j)
           r == Registered(m)
           first == FirstBit(port, j)
<1>1. /\ m \in PdoMap /\ m.bit_pos = 0 /\ EntryStart(m) \in Nat
      /\ first = EntryStart(m) + MantBits(m.datatype) * m.idx
  BY ElementIs
<1>2. /\ m.sm = port.pdo[j].sm /\ m.datatype = port.data_type
      /\ m.bigendian = port.big_endian /\ m.address = <<dir, k, j>>
  BY DEF ElementOf
<1>3. Aligned(m)
  OBVIOUS
<1> HIDE DEF m, first
<1>4. IsRegistered(m, r, first)
  BY <1>1, <1>3, RegisteredIs
<1> HIDE DEF r
<1>5. /\ first \in Nat /\ Starts(port.data_type, first)
      /\ r.offset = first \div 8 /\ r.bit_pos = first % 8
      /\ r.sm = port.pdo[j].sm /\ r.datatype = port.data_type
      /\ r.bigendian = port.big_endian /\ r.address = <<dir, k, j>>
  BY <1>2, <1>4 DEF IsRegistered
<1>6. r.address[2] = k /\ r.address[3] = j
  BY <1>5
<1> QED
  BY <1>5, <1>6 DEF r, m, first

Behind(port) == IF port.big_endian /\ port.data_type = 1024 THEN 32 ELSE 0

(* An input sets the memory of its element, and at most some bits behind.  *)
ReadsElement(conv, k, port, j) ==
  LET at == 8 * MemoryBytes(port) * (j - 1)
      all == 8 * MemoryBytes(port)
  IN /\ \A b \in 0 .. all - 1 :
          /\ <<k, at + b>> \in DOMAIN conv
          /\ conv[<<k, at + b>>] =
               <<port.pdo[j].sm, IF b \in ValueBits(port) THEN BitOf(port, j, b)
                                                          ELSE Zero>>
     /\ \A a \in DOMAIN conv :
          \E b \in 0 .. all - 1 + Behind(port) : a = <<k, at + b>>

LEMMA ReadsItsElement ==
  ASSUME Types, Synced, NEW dir \in {"in", "out"},
         NEW k \in Nat, NEW port \in Port, PortLies(sm, port),
         NEW j \in 1 .. Len(port.pdo), Aligned(ElementOf(dir, k, port, j))
  PROVE  ReadsElement(ReadConversion(Registered(ElementOf(dir, k, port, j))),
                      k, port, j)
<1> DEFINE r == Registered(ElementOf(dir, k, port, j))
           first == FirstBit(port, j)
           dt == port.data_type
           big == port.big_endian
           bits == Read(dt, big, first \div 8, first % 8)
           all == 8 * MemoryBytes(port)
           at == 8 * MemoryBytes(port) * (j - 1)
           conv == ReadConversion(r)
<1>1. /\ first \in Nat /\ Starts(dt, first)
      /\ r.offset = first \div 8 /\ r.bit_pos = first % 8
      /\ r.sm = port.pdo[j].sm /\ r.datatype = dt
      /\ r.bigendian = big /\ r.address[2] = k /\ r.address[3] = j
  BY ElementRegistered
<1>2. dt \in DataType /\ big \in BOOLEAN
  BY DEF Port
<1> HIDE DEF r, first
<1>3. /\ \A b \in 0 .. all - 1 :
           /\ b \in DOMAIN bits
           /\ bits[b] = IF b \in ValueBits(port) THEN BitOf(port, j, b) ELSE Zero
      /\ \A b \in DOMAIN bits : b \in 0 .. all - 1 + Behind(port)
  <2>1. all = 8 * SlBytes(SlType(dt))
    BY DEF MemoryBytes
  <2>2. \A b : BitOf(port, j, b) = BitAt(MantBits(dt), big, first, b)
    BY BitOfIs DEF first
  <2> HIDE DEF all, dt, big
  <2>3. /\ \A b \in 0 .. all - 1 :
             /\ b \in DOMAIN bits
             /\ bits[b] = IF b \in 0 .. MantBits(dt) - 1
                          THEN BitAt(MantBits(dt), big, first, b) ELSE Zero
        /\ \A b \in DOMAIN bits :
             b \in 0 .. all - 1 + (IF big /\ dt = 1024 THEN 32 ELSE 0)
    BY <1>1, <1>2, <2>1, ReadIs
  <2>4. ValueBits(port) = 0 .. MantBits(dt) - 1
          /\ Behind(port) = IF big /\ dt = 1024 THEN 32 ELSE 0
    BY DEF ValueBits, Behind, dt, big
  <2> HIDE DEF bits
  <2> QED
    BY <2>2, <2>3, <2>4
<1>4. AddressBit(r) = at /\ at \in Int /\ all \in Int
  <2>1. PICK n \in {1, 2, 4, 8} : n = MemoryBytes(port)
    <3>1. MemoryBytes(port) \in {1, 2, 4, 8}
      BY <1>2, TypeIs DEF MemoryBytes
    <3> QED
      BY <3>1
  <2>2. 8 * n * (j - 1) \in Int /\ 8 * n \in Int
    OBVIOUS
  <2>3. AddressBit(r) = at
    BY <1>1 DEF AddressBit, ElementBytes, MemoryBytes
  <2> QED
    BY <2>1, <2>2, <2>3
<1>5. conv = [a \in {<<k, at + b>> : b \in DOMAIN bits} |->
                <<port.pdo[j].sm, bits[a[2] - at]>>]
  BY <1>1, <1>4 DEF ReadConversion
<1> HIDE DEF bits, at, all, conv, dt, big
<1>6. \A b \in DOMAIN bits :
        /\ <<k, at + b>> \in DOMAIN conv
        /\ conv[<<k, at + b>>] = <<port.pdo[j].sm, bits[b]>>
  <2> TAKE b \in DOMAIN bits
  <2>1. <<k, at + b>> \in DOMAIN conv
    BY <1>5
  <2>2. <<k, at + b>>[2] - at = b
    <3>1. PICK x \in Int, y \in Int : x = at /\ y = b
      <4>1. b \in 0 .. all - 1 + Behind(port)
        BY <1>3
      <4>2. all \in Int /\ Behind(port) \in Int
        BY <1>4 DEF Behind
      <4> QED
        BY <1>4, <4>1, <4>2
    <3>2. <<k, at + b>>[2] = x + y
      BY <3>1
    <3> QED
      BY <3>1, <3>2
  <2> QED
    BY <1>5, <2>1, <2>2
<1>7. \A a \in DOMAIN conv : \E b \in 0 .. all - 1 + Behind(port) : a = <<k, at + b>>
  BY <1>3, <1>5
<1>8. \A b \in 0 .. all - 1 :
        /\ <<k, at + b>> \in DOMAIN conv
        /\ conv[<<k, at + b>>] =
             <<port.pdo[j].sm, IF b \in ValueBits(port) THEN BitOf(port, j, b)
                                                        ELSE Zero>>
  BY <1>3, <1>6
<1> QED
  BY <1>7, <1>8 DEF ReadsElement, conv, all, at, r

(* An output sets the bits of its element, with those of the signal.       *)
WritesElement(conv, k, port, j) ==
  /\ \A x \in DOMAIN conv :
       \E b \in ValueBits(port) :
         /\ BitOf(port, j, b) # Zero
         /\ x = <<port.pdo[j].sm, BitOf(port, j, b)>>
         /\ conv[x] = <<k, 8 * MemoryBytes(port) * (j - 1) + b>>
  /\ \A b \in ValueBits(port) :
       BitOf(port, j, b) # Zero
         => <<port.pdo[j].sm, BitOf(port, j, b)>> \in DOMAIN conv

LEMMA WritesItsElement ==
  ASSUME Types, Synced, NEW dir \in {"in", "out"},
         NEW k \in Nat, NEW port \in Port, PortLies(sm, port),
         NEW j \in 1 .. Len(port.pdo), Aligned(ElementOf(dir, k, port, j))
  PROVE  WritesElement(WriteConversion(Registered(ElementOf(dir, k, port, j))),
                       k, port, j)
<1> DEFINE r == Registered(ElementOf(dir, k, port, j))
           first == FirstBit(port, j)
           dt == port.data_type
           big == port.big_endian
           bits == Write(dt, big, first \div 8, first % 8)
           at == 8 * MemoryBytes(port) * (j - 1)
           conv == WriteConversion(r)
<1>1. /\ first \in Nat /\ Starts(dt, first)
      /\ r.offset = first \div 8 /\ r.bit_pos = first % 8
      /\ r.sm = port.pdo[j].sm /\ r.datatype = dt
      /\ r.bigendian = big /\ r.address[2] = k /\ r.address[3] = j
  BY ElementRegistered
<1>2. dt \in DataType /\ big \in BOOLEAN
  BY DEF Port
<1> HIDE DEF r, first
<1>3. /\ \A x \in DOMAIN bits :
           bits[x] \in ValueBits(port) /\ BitOf(port, j, bits[x]) = x /\ x # Zero
      /\ \A b \in ValueBits(port) :
           BitOf(port, j, b) # Zero => BitOf(port, j, b) \in DOMAIN bits
  <2>1. \A b : BitOf(port, j, b) = BitAt(MantBits(dt), big, first, b)
    BY BitOfIs DEF first
  <2> HIDE DEF dt, big
  <2>2. /\ \A x \in DOMAIN bits :
             /\ bits[x] \in 0 .. MantBits(dt) - 1
             /\ BitAt(MantBits(dt), big, first, bits[x]) = x /\ x # Zero
        /\ \A b \in 0 .. MantBits(dt) - 1 :
             BitAt(MantBits(dt), big, first, b) # Zero
               => BitAt(MantBits(dt), big, first, b) \in DOMAIN bits
    BY <1>1, <1>2, WriteIs
  <2>3. ValueBits(port) = 0 .. MantBits(dt) - 1
    BY DEF ValueBits, dt
  <2> HIDE DEF bits
  <2> QED
    BY <2>1, <2>2, <2>3
<1>4. AddressBit(r) = at
  BY <1>1 DEF AddressBit, ElementBytes, MemoryBytes
<1>5. conv = [x \in {<<port.pdo[j].sm, b>> : b \in DOMAIN bits} |->
                <<k, at + bits[x[2]]>>]
  BY <1>1, <1>4 DEF WriteConversion
<1> HIDE DEF bits, at, conv, dt, big
<1>6. ASSUME NEW x \in DOMAIN conv
      PROVE  \E b \in ValueBits(port) :
               /\ BitOf(port, j, b) # Zero
               /\ x = <<port.pdo[j].sm, BitOf(port, j, b)>>
               /\ conv[x] = <<k, at + b>>
  <2>1. PICK y \in DOMAIN bits : x = <<port.pdo[j].sm, y>>
    BY <1>5
  <2>2. conv[x] = <<k, at + bits[y]>>
    BY <1>5, <2>1
  <2> QED
    BY <1>3, <2>1, <2>2
<1>7. \A b \in ValueBits(port) :
        BitOf(port, j, b) # Zero
          => <<port.pdo[j].sm, BitOf(port, j, b)>> \in DOMAIN conv
  BY <1>3, <1>5
<1> QED
  BY <1>6, <1>7 DEF WritesElement, conv, at, r

-----------------------------------------------------------------------------
(* The conversions of all ports *)

PortMap(dir) == IF dir = "in" THEN RxMap ELSE TxMap
PortsOf(dir) == IF dir = "in" THEN i_port ELSE o_port
WidthsOf(dir) == IF dir = "in" THEN inWidth ELSE outWidth

LEMMA MapLayout ==
  ASSUME Types, RecordsInv, AnnounceInv, DataInv, Synced, pc = "written",
         NEW dir \in {"in", "out"}
  PROVE  \E c, at :
           /\ Layout(PortMap(dir), dir, PortsOf(dir), Len(PortsOf(dir)), c, at)
           /\ \A k \in 1 .. Len(PortsOf(dir)) : 1 .. c[k] = 1 .. WidthsOf(dir)[k]
<1> DEFINE p == PortsOf(dir)
           n == Len(PortsOf(dir))
           numbers == IF dir = "in" THEN index.in ELSE index.out
           width == WidthsOf(dir)
<1>1. p \in Seq(Port) /\ n \in Nat /\ PortsLie(sm, p)
  BY LenProperties DEF PortsOf, Types, PortTypes, DataInv
<1>2. PointsToPorts(dir, p, numbers)
  <2>1. NumbersLeadHome
    BY HomeFromRecords
  <2> QED
    BY <2>1 DEF NumbersLeadHome, PortsOf
<1>3. numbers \in Seq(Nat)
  BY DEF Types, RtwTypes
<1>4. pc \in Kept /\ pc # "failed"
  BY DEF Kept
<1>5. width \in Seq(Int) /\ Len(width) = n
  <2>1. CASE dir = "in"
    BY <1>4, <2>1 DEF WidthsOf, PortsOf, Types, SignalTypesInv
  <2>2. CASE dir = "out"
    <3>1. outWidth \in Seq(Nat)
      BY DEF Types, SignalTypesInv
    <3>2. outWidth \in Seq(Int)
      BY <3>1, SeqDef
    <3> QED
      BY <1>4, <2>2, <3>2 DEF WidthsOf, PortsOf, Types, SignalTypesInv
  <2> QED
    BY <2>1, <2>2
<1>6. \A k \in 1 .. n : width[k] <= Len(p[k].pdo)
  <2>1. CASE dir = "in"
    BY <1>4, <2>1 DEF WidthsOf, PortsOf, AnnounceInv, MemoryInv
  <2>2. CASE dir = "out"
    <3>1. \A k \in 1 .. n : width[k] = Len(p[k].pdo)
      BY <1>4, <2>2 DEF WidthsOf, PortsOf, AnnounceInv, MemoryInv
    <3>2. \A k \in 1 .. n : width[k] \in Int
      BY <1>5, ElementOfSeq
    <3> HIDE DEF width, p, n
    <3> QED
      BY <3>1, <3>2
  <2> QED
    BY <2>1, <2>2
<1>7. \A k \in 1 .. n : \A j \in 1 .. Len(p[k].pdo) :
        ElementOf(dir, k, p[k], j) \in PdoMap
  <2> TAKE k \in 1 .. n
  <2> TAKE j \in 1 .. Len(p[k].pdo)
  <2>1. p[k] \in Port /\ PortLies(sm, p[k]) /\ k \in Nat
    BY <1>1, ElementOfSeq DEF PortsLie
  <2> HIDE DEF p, n
  <2> QED
    BY <2>1, ElementIs
<1>8. PortMap(dir) = Mapped(dir, numbers, p, width)
  BY DEF PortMap, RxMap, TxMap, PortsOf, WidthsOf
<1>10. n = Len(p)
  OBVIOUS
<1> HIDE DEF p, n, numbers, width
<1>9. HasLayout(Mapped(dir, numbers, p, width), dir, p, n, width)
  BY <1>1, <1>2, <1>3, <1>5, <1>6, <1>7, <1>10, MappedIs
<1> QED
  BY <1>8, <1>9 DEF p, n, width, HasLayout

(* The places of elements in a list of conversions.                        *)
Placed(list, n, c, at) ==
  /\ \E m \in Nat : DOMAIN list = 1 .. m
  /\ \A k \in 1 .. n : \A j \in 1 .. c[k] :
       at[k - 1] + j \in DOMAIN list /\ at[k - 1] + j \in Nat
  /\ \A i \in DOMAIN list : \E k \in 1 .. n : \E j \in 1 .. c[k] : i = at[k - 1] + j
  /\ \A k \in 1 .. n : \A j, l \in 1 .. c[k] :
       j <= l => at[k - 1] + j <= at[k - 1] + l

LEMMA ElementsOfPorts ==
  ASSUME Types, DataInv, NEW dir \in {"in", "out"},
         NEW c, NEW at,
         Layout(PortMap(dir), dir, PortsOf(dir), Len(PortsOf(dir)), c, at),
         NEW k \in 1 .. Len(PortsOf(dir)), NEW j \in 1 .. c[k]
  PROVE  /\ at[k - 1] + j \in DOMAIN PortMap(dir)
         /\ PortMap(dir)[at[k - 1] + j] = ElementOf(dir, k, PortsOf(dir)[k], j)
         /\ PortsOf(dir)[k] \in Port /\ PortLies(sm, PortsOf(dir)[k])
         /\ j \in 1 .. Len(PortsOf(dir)[k].pdo) /\ k \in Nat
<1>1. PortsOf(dir) \in Seq(Port) /\ Len(PortsOf(dir)) \in Nat
        /\ PortsLie(sm, PortsOf(dir))
  BY LenProperties DEF PortsOf, Types, PortTypes, DataInv
<1>2. PortsOf(dir)[k] \in Port /\ PortLies(sm, PortsOf(dir)[k]) /\ k \in Nat
  BY <1>1, ElementOfSeq DEF PortsLie
<1>3. at[k - 1] + j \in DOMAIN PortMap(dir)
  BY <1>1, PlaceInLayout
<1>4. /\ PortMap(dir)[at[k - 1] + j] = ElementOf(dir, k, PortsOf(dir)[k], j)
      /\ j \in 1 .. Len(PortsOf(dir)[k].pdo)
  BY DEF Layout
<1> QED
  BY <1>2, <1>3, <1>4

LEMMA InputConversions ==
  ASSUME Types, RecordsInv, AnnounceInv, DataInv, pc = "written", StageData,
         stage \in AtFunctions
  PROVE  \E c, at :
           /\ Placed(convert.in, Len(o_port), c, at)
           /\ \A k \in 1 .. Len(o_port) : 1 .. c[k] = 1 .. outWidth[k]
           /\ \A k \in 1 .. Len(o_port) : \A j \in 1 .. c[k] :
                ReadsElement(convert.in[at[k - 1] + j], k, o_port[k], j)
<1>1. /\ sync = SyncConfig /\ AllAligned(TxMap)
      /\ pdo_map.tx = AllRegistered(TxMap)
      /\ convert.in = [i \in DOMAIN pdo_map.tx |-> ReadConversion(pdo_map.tx[i])]
  BY DEF StageData, AtFunctions, AtStarted
<1>2. Synced
  BY <1>1, SyncConfigIs DEF Synced
<1>3. "out" \in {"in", "out"} /\ PortMap("out") = TxMap
        /\ PortsOf("out") = o_port /\ WidthsOf("out") = outWidth
  BY DEF PortMap, PortsOf, WidthsOf
<1>4. PICK c, at :
        /\ Layout(PortMap("out"), "out", PortsOf("out"), Len(PortsOf("out")),
                  c, at)
        /\ \A k \in 1 .. Len(PortsOf("out")) :
             1 .. c[k] = 1 .. WidthsOf("out")[k]
  BY <1>2, <1>3, MapLayout
<1>5. DOMAIN convert.in = DOMAIN TxMap
        /\ \A i \in DOMAIN TxMap :
             convert.in[i] = ReadConversion(Registered(TxMap[i]))
  BY <1>1 DEF AllRegistered
<1>6. Placed(convert.in, Len(o_port), c, at)
  <2>1. Len(o_port) \in Nat
    BY LenProperties DEF Types, PortTypes
  <2>3. Layout(TxMap, "out", o_port, Len(o_port), c, at)
    BY <1>3, <1>4
  <2>4. PICK n \in Nat : n = Len(o_port)
    BY <2>1
  <2>5. Layout(TxMap, "out", o_port, n, c, at)
    BY <2>3, <2>4
  <2>6. Placed(TxMap, n, c, at)
    BY <2>5, PlaceInLayout DEF Placed
  <2>2. Placed(TxMap, Len(o_port), c, at)
    BY <2>4, <2>6
  <2> QED
    BY <1>5, <2>2 DEF Placed
<1>7. ASSUME NEW k \in 1 .. Len(o_port), NEW j \in 1 .. c[k]
      PROVE  ReadsElement(convert.in[at[k - 1] + j], k, o_port[k], j)
  <2>1. /\ at[k - 1] + j \in DOMAIN TxMap
        /\ TxMap[at[k - 1] + j] = ElementOf("out", k, o_port[k], j)
        /\ o_port[k] \in Port /\ PortLies(sm, o_port[k])
        /\ j \in 1 .. Len(o_port[k].pdo) /\ k \in Nat
    <3>1. k \in 1 .. Len(PortsOf("out"))
      BY <1>3
    <3> QED
      BY <1>3, <1>4, <3>1, ElementsOfPorts
  <2>2. Aligned(ElementOf("out", k, o_port[k], j))
    BY <1>1, <2>1 DEF AllAligned
  <2>3. convert.in[at[k - 1] + j]
          = ReadConversion(Registered(ElementOf("out", k, o_port[k], j)))
    BY <1>5, <2>1
  <2>4. ReadsElement(ReadConversion(
                       Registered(ElementOf("out", k, o_port[k], j))),
                     k, o_port[k], j)
    BY <1>2, <1>3, <2>1, <2>2, ReadsItsElement
  <2> QED
    BY <2>3, <2>4
<1> QED
  BY <1>3, <1>4, <1>6, <1>7

LEMMA OutputConversions ==
  ASSUME Types, RecordsInv, AnnounceInv, DataInv, pc = "written", StageData,
         stage \in AtFunctions
  PROVE  \E c, at :
           /\ Placed(convert.out, Len(i_port), c, at)
           /\ \A k \in 1 .. Len(i_port) : 1 .. c[k] = 1 .. inWidth[k]
           /\ \A k \in 1 .. Len(i_port) : \A j \in 1 .. c[k] :
                /\ WritesElement(convert.out[at[k - 1] + j], k, i_port[k], j)
                /\ i_port[k] \in Port /\ PortLies(sm, i_port[k])
                /\ j \in 1 .. Len(i_port[k].pdo)
<1>1. /\ sync = SyncConfig /\ AllAligned(RxMap)
      /\ pdo_map.rx = AllRegistered(RxMap)
      /\ convert.out = [i \in DOMAIN pdo_map.rx |->
                          WriteConversion(pdo_map.rx[i])]
  BY DEF StageData, AtFunctions, AtStarted
<1>2. Synced
  BY <1>1, SyncConfigIs DEF Synced
<1>3. "in" \in {"in", "out"} /\ PortMap("in") = RxMap
        /\ PortsOf("in") = i_port /\ WidthsOf("in") = inWidth
  BY DEF PortMap, PortsOf, WidthsOf
<1>4. PICK c, at :
        /\ Layout(PortMap("in"), "in", PortsOf("in"), Len(PortsOf("in")), c, at)
        /\ \A k \in 1 .. Len(PortsOf("in")) : 1 .. c[k] = 1 .. WidthsOf("in")[k]
  BY <1>2, <1>3, MapLayout
<1>5. DOMAIN convert.out = DOMAIN RxMap
        /\ \A i \in DOMAIN RxMap :
             convert.out[i] = WriteConversion(Registered(RxMap[i]))
  BY <1>1 DEF AllRegistered
<1>6. Placed(convert.out, Len(i_port), c, at)
  <2>1. Len(i_port) \in Nat
    BY LenProperties DEF Types, PortTypes
  <2>3. Layout(RxMap, "in", i_port, Len(i_port), c, at)
    BY <1>3, <1>4
  <2>4. PICK n \in Nat : n = Len(i_port)
    BY <2>1
  <2>5. Layout(RxMap, "in", i_port, n, c, at)
    BY <2>3, <2>4
  <2>6. Placed(RxMap, n, c, at)
    BY <2>5, PlaceInLayout DEF Placed
  <2>2. Placed(RxMap, Len(i_port), c, at)
    BY <2>4, <2>6
  <2> QED
    BY <1>5, <2>2 DEF Placed
<1>7. ASSUME NEW k \in 1 .. Len(i_port), NEW j \in 1 .. c[k]
      PROVE  /\ WritesElement(convert.out[at[k - 1] + j], k, i_port[k], j)
             /\ i_port[k] \in Port /\ PortLies(sm, i_port[k])
             /\ j \in 1 .. Len(i_port[k].pdo)
  <2>1. /\ at[k - 1] + j \in DOMAIN RxMap
        /\ RxMap[at[k - 1] + j] = ElementOf("in", k, i_port[k], j)
        /\ i_port[k] \in Port /\ PortLies(sm, i_port[k])
        /\ j \in 1 .. Len(i_port[k].pdo) /\ k \in Nat
    <3>1. k \in 1 .. Len(PortsOf("in"))
      BY <1>3
    <3> QED
      BY <1>3, <1>4, <3>1, ElementsOfPorts
  <2>2. Aligned(ElementOf("in", k, i_port[k], j))
    BY <1>1, <2>1 DEF AllAligned
  <2>3. convert.out[at[k - 1] + j]
          = WriteConversion(Registered(ElementOf("in", k, i_port[k], j)))
    BY <1>5, <2>1
  <2>4. WritesElement(WriteConversion(
                        Registered(ElementOf("in", k, i_port[k], j))),
                      k, i_port[k], j)
    BY <1>2, <1>3, <2>1, <2>2, WritesItsElement
  <2> QED
    BY <2>1, <2>3, <2>4
<1> QED
  BY <1>3, <1>4, <1>6, <1>7

-----------------------------------------------------------------------------
(* What is copied *)

LEMMA NothingBefore ==
  ASSUME NEW list
  PROVE  /\ DOMAIN Copied(list, <<>>) = Settable(list)
         /\ \A x \in Settable(list) :
              Copied(list, <<>>)[x] = list[Max(Setters(list, x))][x]
<1>1. DOMAIN <<>> \cup Settable(list) = Settable(list)
  OBVIOUS
<1>2. Copied(list, <<>>) =
        [x \in Settable(list) |->
           IF Setters(list, x) = {} THEN <<>>[x]
                                    ELSE list[Max(Setters(list, x))][x]]
  BY <1>1 DEF Copied
<1>3. \A x \in Settable(list) : Setters(list, x) # {}
  BY DEF Settable, Setters
<1> QED
  BY <1>2, <1>3

LEMMA MaxIs ==
  ASSUME NEW S \in SUBSET Nat, NEW i \in S, \A l \in S : l <= i
  PROVE  Max(S) = i
<1>1. \A y \in S : i >= y
  OBVIOUS
<1>2. \A x \in S : (\A y \in S : x >= y) => x = i
  OBVIOUS
<1>3. Max(S) = CHOOSE x \in S : \A y \in S : x >= y
  BY DEF Max
<1> QED
  BY <1>1, <1>2, <1>3

LEMMA HasMax ==
  ASSUME NEW n \in Nat, NEW S \in SUBSET (0 .. n), S # {}
  PROVE  Max(S) \in S
<1> DEFINE T == {k \in Nat : n - k \in S}
<1>1. T # {}
  <2>1. PICK s \in S : TRUE
    OBVIOUS
  <2>2. n - s \in Nat /\ n - (n - s) = s
    OBVIOUS
  <2> QED
    BY <2>1, <2>2
<1>2. PICK k \in T : \A l \in T : k <= l
  BY <1>1, LeastOf
<1>3. \A s \in S : s <= n - k
  <2> TAKE s \in S
  <2>1. n - s \in Nat /\ n - (n - s) = s
    OBVIOUS
  <2>2. n - s \in T
    BY <2>1
  <2>3. k <= n - s
    BY <1>2, <2>2
  <2> QED
    BY <2>3
<1>4. n - k \in S /\ S \in SUBSET Nat
  OBVIOUS
<1>5. Max(S) = n - k
  BY <1>3, <1>4, MaxIs
<1> QED
  BY <1>4, <1>5

LEMMA LastSetter ==
  ASSUME NEW list, DOMAIN list \subseteq Nat, NEW i \in DOMAIN list,
         NEW x \in DOMAIN list[i],
         \A l \in DOMAIN list : x \in DOMAIN list[l] => l <= i
  PROVE  /\ x \in DOMAIN Copied(list, <<>>)
         /\ Copied(list, <<>>)[x] = list[i][x]
<1>1. x \in Settable(list)
  BY DEF Settable
<1>2. Setters(list, x) \in SUBSET Nat /\ i \in Setters(list, x)
  BY DEF Setters
<1>3. \A l \in Setters(list, x) : l <= i
  BY DEF Setters
<1>4. Max(Setters(list, x)) = i
  BY <1>2, <1>3, MaxIs
<1> QED
  BY <1>1, <1>4, NothingBefore

LEMMA SomeSetter ==
  ASSUME NEW list, NEW n \in Nat, DOMAIN list = 1 .. n,
         NEW x \in DOMAIN Copied(list, <<>>)
  PROVE  \E i \in DOMAIN list : /\ x \in DOMAIN list[i]
                                /\ Copied(list, <<>>)[x] = list[i][x]
<1>1. x \in Settable(list)
  BY NothingBefore
<1>2. Setters(list, x) \in SUBSET (0 .. n) /\ Setters(list, x) # {}
  BY <1>1 DEF Settable, Setters
<1>3. Max(Setters(list, x)) \in Setters(list, x)
  BY <1>2, HasMax
<1>4. Max(Setters(list, x)) \in DOMAIN list
        /\ x \in DOMAIN list[Max(Setters(list, x))]
  BY <1>3 DEF Setters
<1> QED
  BY <1>1, <1>4, NothingBefore

LEMMA SameMemory ==
  ASSUME NEW M \in {1, 2, 4, 8}, NEW j \in Nat, NEW l \in Nat,
         NEW b \in 0 .. 8 * M - 1, NEW d \in Nat,
         8 * M * (l - 1) + d = 8 * M * (j - 1) + b
  PROVE  l <= j
<1>1. CASE M = 1
  BY <1>1
<1>2. CASE M = 2
  BY <1>2
<1>3. CASE M = 4
  BY <1>3
<1>4. CASE M = 8
  BY <1>4
<1> QED
  BY <1>1, <1>2, <1>3, <1>4

LEMMA MemoryEnds ==
  ASSUME NEW M \in {1, 2, 4, 8}, NEW w \in Nat, NEW j \in 1 .. w,
         NEW more \in Nat, NEW b \in 0 .. 8 * M - 1 + 8 * more
  PROVE  /\ 8 * M * (j - 1) + b < 8 * (M * w + more)
         /\ 8 * M * (j - 1) + b \in Int
<1>1. CASE M = 1
  BY <1>1
<1>2. CASE M = 2
  BY <1>2
<1>3. CASE M = 4
  BY <1>3
<1>4. CASE M = 8
  BY <1>4
<1> QED
  BY <1>1, <1>2, <1>3, <1>4

(* The memory of a port has its elements.                                  *)
PortHasElements(mem, k, port, width) ==
  LET bytes == MemoryBytes(port) IN
  /\ \A j \in 1 .. width : \A b \in 0 .. 8 * bytes - 1 :
       LET a == <<k, 8 * bytes * (j - 1) + b>> IN
       /\ a \in DOMAIN mem
       /\ mem[a] = <<port.pdo[j].sm,
                     IF b \in ValueBits(port) THEN BitOf(port, j, b) ELSE Zero>>
  /\ \A a \in DOMAIN mem : a[1] = k =>
       a[2] < 8 * (bytes * width
                    + (IF port.big_endian /\ port.data_type = 1024 THEN 4 ELSE 0))

LEMMA ReadsAreTheirs ==
  ASSUME NEW list, NEW n \in Nat, NEW c, NEW at, NEW p \in Seq(Port),
         Placed(list, n, c, at), n = Len(p),
         \A k \in 1 .. n : \A j \in 1 .. c[k] :
           ReadsElement(list[at[k - 1] + j], k, p[k], j),
         NEW k \in 1 .. n, NEW w \in Nat, 1 .. c[k] = 1 .. w
  PROVE  PortHasElements(Copied(list, <<>>), k, p[k], w)
<1> DEFINE mem == Copied(list, <<>>)
           M == MemoryBytes(p[k])
<1>1. p[k] \in Port
  BY ElementOfSeq
<1>2. M \in {1, 2, 4, 8}
  <2>1. p[k].data_type \in DataType
    BY <1>1 DEF Port
  <2> QED
    BY <2>1, TypeIs DEF MemoryBytes
<1> HIDE DEF mem, M
<1>3. ASSUME NEW j \in 1 .. w, NEW b \in 0 .. 8 * M - 1
      PROVE  /\ <<k, 8 * M * (j - 1) + b>> \in DOMAIN mem
             /\ mem[<<k, 8 * M * (j - 1) + b>>] =
                  <<p[k].pdo[j].sm,
                    IF b \in ValueBits(p[k]) THEN BitOf(p[k], j, b) ELSE Zero>>
  <2> DEFINE a == <<k, 8 * M * (j - 1) + b>>
             i == at[k - 1] + j
  <2>1. j \in 1 .. c[k] /\ i \in DOMAIN list /\ DOMAIN list \subseteq Nat
    <3>1. j \in 1 .. c[k]
      OBVIOUS
    <3>2. PICK m \in Nat : DOMAIN list = 1 .. m
      BY DEF Placed
    <3>3. DOMAIN list \subseteq Nat
      BY <3>2
    <3>4. at[k - 1] + j \in DOMAIN list
      BY <3>1 DEF Placed
    <3> QED
      BY <3>1, <3>3, <3>4
  <2>2. /\ a \in DOMAIN list[i]
        /\ list[i][a] =
             <<p[k].pdo[j].sm,
               IF b \in ValueBits(p[k]) THEN BitOf(p[k], j, b) ELSE Zero>>
    <3>1. ReadsElement(list[i], k, p[k], j)
      BY <2>1
    <3> HIDE DEF i
    <3> QED
      BY <3>1 DEF ReadsElement, M
  <2>3. ASSUME NEW l \in DOMAIN list, a \in DOMAIN list[l] PROVE l <= i
    <3>1. PICK q \in 1 .. n : \E e \in 1 .. c[q] : l = at[q - 1] + e
      BY DEF Placed
    <3>2. PICK e \in 1 .. c[q] : l = at[q - 1] + e
      BY <3>1
    <3>3. ReadsElement(list[l], q, p[q], e)
      BY <3>2
    <3>4. PICK d \in 0 .. 8 * MemoryBytes(p[q]) - 1 + Behind(p[q]) :
            a = <<q, 8 * MemoryBytes(p[q]) * (e - 1) + d>>
      BY <2>3, <3>3 DEF ReadsElement
    <3>5. q = k /\ 8 * M * (j - 1) + b = 8 * MemoryBytes(p[q]) * (e - 1) + d
      BY <3>4
    <3>6. 8 * M * (e - 1) + d = 8 * M * (j - 1) + b
      BY <3>5 DEF M
    <3>7. e \in 1 .. w /\ e \in 1 .. c[k]
      BY <3>2, <3>5
    <3>8. d \in Nat
      <4>1. d \in 0 .. 8 * M - 1 + Behind(p[q])
        BY <3>5 DEF M
      <4>2. Behind(p[q]) \in Nat
        BY DEF Behind
      <4> QED
        BY <1>2, <4>1, <4>2
    <3>9. e <= j
      BY <1>2, <3>6, <3>7, <3>8, SameMemory
    <3> QED
      BY <2>1, <3>2, <3>5, <3>7, <3>9 DEF Placed
  <2> HIDE DEF a, i
  <2>4. a \in DOMAIN mem /\ mem[a] = list[i][a]
    BY <2>1, <2>2, <2>3, LastSetter DEF mem
  <2> QED
    BY <2>2, <2>4 DEF a
<1>4. ASSUME NEW a \in DOMAIN mem, a[1] = k
      PROVE  a[2] < 8 * (M * w + (IF p[k].big_endian /\ p[k].data_type = 1024
                                  THEN 4 ELSE 0))
  <2>1. PICK l \in DOMAIN list : a \in DOMAIN list[l]
    <3>1. a \in Settable(list)
      BY NothingBefore DEF mem
    <3> QED
      BY <3>1 DEF Settable
  <2>2. PICK q \in 1 .. n : \E e \in 1 .. c[q] : l = at[q - 1] + e
    BY DEF Placed
  <2>3. PICK e \in 1 .. c[q] : l = at[q - 1] + e
    BY <2>2
  <2>4. ReadsElement(list[l], q, p[q], e)
    BY <2>3
  <2>5. PICK d \in 0 .. 8 * MemoryBytes(p[q]) - 1 + Behind(p[q]) :
          a = <<q, 8 * MemoryBytes(p[q]) * (e - 1) + d>>
    BY <2>1, <2>4 DEF ReadsElement
  <2>6. q = k
    BY <1>4, <2>5
  <2>7. PICK more \in Nat :
          /\ more = IF p[k].big_endian /\ p[k].data_type = 1024 THEN 4 ELSE 0
          /\ Behind(p[k]) = 8 * more
    <3>1. CASE p[k].big_endian /\ p[k].data_type = 1024
      <4>1. Behind(p[k]) = 8 * 4
        BY <3>1 DEF Behind
      <4> QED
        BY <3>1, <4>1
    <3>2. CASE ~(p[k].big_endian /\ p[k].data_type = 1024)
      <4>1. Behind(p[k]) = 8 * 0
        BY <3>2 DEF Behind
      <4> QED
        BY <3>2, <4>1
    <3> QED
      BY <3>1, <3>2
  <2>8. d \in 0 .. 8 * M - 1 + 8 * more /\ e \in 1 .. w
          /\ a = <<k, 8 * M * (e - 1) + d>>
    <3>1. M = MemoryBytes(p[q]) /\ Behind(p[q]) = 8 * more
      BY <2>6, <2>7 DEF M
    <3>2. d \in 0 .. 8 * M - 1 + 8 * more
      BY <2>5, <3>1
    <3>3. e \in 1 .. w
      BY <2>3, <2>6
    <3> QED
      BY <2>5, <2>6, <3>1, <3>2, <3>3
  <2>9. 8 * M * (e - 1) + d < 8 * (M * w + more)
    BY <1>2, <2>8, MemoryEnds
  <2>10. a[2] = 8 * M * (e - 1) + d
    BY <2>8
  <2> QED
    BY <2>7, <2>9, <2>10
<1> QED
  BY <1>3, <1>4 DEF PortHasElements, mem, M

LEMMA InputsFromStages ==
  ASSUME Types, RecordsInv, AnnounceInv, DataInv, StageInv, StageData
  PROVE  InputsAreTheirElements
<1> SUFFICES ASSUME stage \in {"received", "sent"}, NEW k \in DOMAIN o_port
             PROVE  PortHasElements(memory, k, o_port[k], outWidth[k])
  BY DEF InputsAreTheirElements, PortHasElements
<1>1. stage \in AtFunctions /\ pc = "written"
        /\ memory = Copied(convert.in, <<>>)
  BY DEF StageInv, StageData, AtFunctions
<1>2. o_port \in Seq(Port) /\ Len(o_port) \in Nat /\ k \in 1 .. Len(o_port)
  BY LenProperties DEF Types, PortTypes
<1>3. PICK n \in Nat : n = Len(o_port)
  BY <1>2
<1>4. PICK c, at :
        /\ Placed(convert.in, n, c, at)
        /\ \A q \in 1 .. n : 1 .. c[q] = 1 .. outWidth[q]
        /\ \A q \in 1 .. n : \A j \in 1 .. c[q] :
             ReadsElement(convert.in[at[q - 1] + j], q, o_port[q], j)
  BY <1>1, <1>3, InputConversions
<1>5. outWidth[k] \in Nat
  <2>1. outWidth \in Seq(Nat) /\ Len(outWidth) = Len(o_port)
    BY <1>1 DEF Types, SignalTypesInv, Kept
  <2> QED
    BY <1>2, <2>1, ElementOfSeq
<1>6. PICK w \in Nat : w = outWidth[k]
  BY <1>5
<1>7. k \in 1 .. n /\ 1 .. c[k] = 1 .. w
  BY <1>2, <1>3, <1>4, <1>6
<1>8. PortHasElements(Copied(convert.in, <<>>), k, o_port[k], w)
  BY <1>2, <1>3, <1>4, <1>7, ReadsAreTheirs
<1> QED
  BY <1>1, <1>6, <1>8

LEMMA BitWithin ==
  ASSUME NEW dt \in DataType, NEW big \in BOOLEAN, NEW first \in Nat,
         NEW b \in 0 .. MantBits(dt) - 1, BitAt(MantBits(dt), big, first, b) # Zero
  PROVE  /\ MantBits(dt) \in Nat
         /\ BitAt(MantBits(dt), big, first, b) \in first .. first + MantBits(dt) - 1
<1>1. CASE MantBits(dt) \in 1 .. 7
  <2>1. PICK n \in 1 .. 7 : n = MantBits(dt)
    BY <1>1
  <2>2. BitAt(n, big, first, b) = first + b /\ b \in 0 .. n - 1
    BY <2>1 DEF BitAt
  <2> QED
    BY <2>1, <2>2
<1>2. CASE \E n \in 1 .. 8 : MantBits(dt) = 8 * n
  <2>1. PICK n \in 1 .. 8 : MantBits(dt) = 8 * n
    BY <1>2
  <2>2. b \in 0 .. 8 * n - 1
    BY <2>1
  <2>3. PICK t \in 0 .. 8 * n - 1 : t = 8 * n - 8 * (b \div 8 + 1) + (b % 8)
    BY <2>2, BigIs
  <2>4. BitAt(8 * n, big, first, b) \in {first + t, first + b}
    BY <2>3 DEF BitAt
  <2>5. BitAt(8 * n, big, first, b) \in first .. first + 8 * n - 1
    BY <2>2, <2>3, <2>4
  <2> QED
    BY <2>1, <2>5
<1> QED
  BY <1>1, <1>2, TypeIs

(* A bit of an element that is not of a raw port is one of its entry.      *)
LEMMA BitInEntry ==
  ASSUME Types, NEW port \in Port, NEW j \in 1 .. Len(port.pdo),
         PortLies(sm, port), ~port.raw,
         NEW b \in ValueBits(port), BitOf(port, j, b) # Zero
  PROVE  LET e == port.pdo[j] IN
         BitOf(port, j, b) \in BitsBefore(e) ..
           BitsBefore(e) + sm[e.sm].pdo[e.pdo][e.entry].bits - 1
<1>1. PICK e \in Element : e = port.pdo[j]
  BY ElementOfSeq DEF Port
<1>2. /\ e.sm \in 1 .. Len(sm) /\ e.pdo \in 1 .. Len(sm[e.sm].pdo)
      /\ e.entry \in 1 .. Len(sm[e.sm].pdo[e.pdo])
      /\ ElementFits(port.data_type, e.element,
                     sm[e.sm].pdo[e.pdo][e.entry].bits)
  BY <1>1 DEF PortLies, ElementLies
<1>3. sm[e.sm].pdo \in Seq(Seq(Entry))
  <2>1. sm \in Seq(SyncManager)
    BY SyncManagersType DEF Types
  <2>2. sm[e.sm] \in SyncManager
    BY <1>2, <2>1, ElementOfSeq
  <2> QED
    BY <2>2 DEF SyncManager
<1>4. BitsBefore(e) \in Nat
  BY <1>2, <1>3, StartInType DEF BitsBefore
<1>5. sm[e.sm].pdo[e.pdo][e.entry].bits \in Nat
  <2>1. sm[e.sm].pdo[e.pdo] \in Seq(Entry)
    BY <1>2, <1>3, ElementOfSeq
  <2>2. sm[e.sm].pdo[e.pdo][e.entry] \in Entry
    BY <1>2, <2>1, ElementOfSeq
  <2> QED
    BY <2>2 DEF Entry
<1>6. port.data_type \in DataType /\ port.big_endian \in BOOLEAN
  BY DEF Port
<1>7. PICK before \in Nat, bits \in Nat, element \in Nat, n \in Nat :
        /\ before = BitsBefore(e) /\ bits = sm[e.sm].pdo[e.pdo][e.entry].bits
        /\ element = e.element /\ n = MantBits(port.data_type)
  <2>1. MantBits(port.data_type) \in Nat
    BY <1>6, TypeIs
  <2> QED
    BY <1>4, <1>5, <2>1 DEF Element
<1>8. n * element \in Nat /\ n * (element + 1) = n * element + n
  OBVIOUS
<1>9. PICK f \in Nat : f = n * element
  BY <1>8
<1>10. f + n <= bits
  BY <1>2, <1>7, <1>8, <1>9 DEF ElementFits
<1>11. FirstBit(port, j) = before + f
  BY <1>1, <1>7, <1>9 DEF FirstBit
<1>12. b \in 0 .. MantBits(port.data_type) - 1
  BY DEF ValueBits
<1>13. BitOf(port, j, b)
         = BitAt(MantBits(port.data_type), port.big_endian, before + f, b)
  BY <1>11, BitOfIs
<1>14. before + f \in Nat
  OBVIOUS
<1>15. BitAt(MantBits(port.data_type), port.big_endian, before + f, b)
         \in before + f .. before + f + MantBits(port.data_type) - 1
  BY <1>6, <1>12, <1>13, <1>14, BitWithin
<1>16. PICK x : x = BitOf(port, j, b)
  OBVIOUS
<1>17. x \in before + f .. before + f + n - 1
  BY <1>7, <1>13, <1>15, <1>16
<1>18. x \in before .. before + bits - 1
  BY <1>10, <1>17
<1> QED
  BY <1>1, <1>7, <1>16, <1>18

LEMMA BitThere ==
  /\ \A x \in OutputsThere :
       \E k \in DOMAIN i_port : \E j \in 1 .. inWidth[k] :
         \E b \in ValueBits(i_port[k]) :
           x = <<k, j, b>> /\ BitOf(i_port[k], j, b) # Zero
  /\ \A k \in DOMAIN i_port : \A j \in 1 .. inWidth[k] :
       \A b \in ValueBits(i_port[k]) :
         BitOf(i_port[k], j, b) # Zero => <<k, j, b>> \in OutputsThere
  /\ \A k, j, b :
       /\ PlaceOfBit(<<k, j, b>>) = <<i_port[k].pdo[j].sm, BitOf(i_port[k], j, b)>>
       /\ SourceOfBit(<<k, j, b>>)
            = <<k, 8 * MemoryBytes(i_port[k]) * (j - 1) + b>>
<1>1. \A k, j, b :
       /\ PlaceOfBit(<<k, j, b>>) = <<i_port[k].pdo[j].sm, BitOf(i_port[k], j, b)>>
       /\ SourceOfBit(<<k, j, b>>)
            = <<k, 8 * MemoryBytes(i_port[k]) * (j - 1) + b>>
  BY DEF PlaceOfBit, SourceOfBit
<1>2. \A k, j, b : PlaceOfBit(<<k, j, b>>)[2] = BitOf(i_port[k], j, b)
  <2> TAKE k, j, b
  <2>1. PlaceOfBit(<<k, j, b>>) = <<i_port[k].pdo[j].sm, BitOf(i_port[k], j, b)>>
    BY <1>1
  <2> QED
    BY <2>1
<1> QED
  BY <1>1, <1>2 DEF OutputsThere, OutputBits

LEMMA OutputsFromStages ==
  ASSUME Types, RecordsInv, AnnounceInv, DataInv, StageInv, StageData
  PROVE  OutputsChangeTheirElements
<1> SUFFICES ASSUME stage = "sent"
             PROVE  /\ DOMAIN image = {PlaceOfBit(x) : x \in OutputsThere}
                    /\ \A q \in DOMAIN image :
                         \E x \in OutputsThere :
                           PlaceOfBit(x) = q /\ SourceOfBit(x) = image[q]
                    /\ \A x \in OutputsThere :
                         LET e == i_port[x[1]].pdo[x[2]]
                         IN i_port[x[1]].raw
                              \/ PlaceOfBit(x)[2] \in BitsBefore(e) ..
                                   BitsBefore(e)
                                     + sm[e.sm].pdo[e.pdo][e.entry].bits - 1
  BY DEF OutputsChangeTheirElements
<1>1. stage \in AtFunctions /\ pc = "written"
        /\ image = Copied(convert.out, <<>>)
  BY DEF StageInv, StageData, AtFunctions
<1>2. PICK n \in Nat : n = Len(i_port) /\ DOMAIN i_port = 1 .. n
  <2>1. i_port \in Seq(Port)
    BY DEF Types, PortTypes
  <2> QED
    BY <2>1, LenProperties
<1>3. PICK c, at :
        /\ Placed(convert.out, n, c, at)
        /\ \A k \in 1 .. n : 1 .. c[k] = 1 .. inWidth[k]
        /\ \A k \in 1 .. n : \A j \in 1 .. c[k] :
             /\ WritesElement(convert.out[at[k - 1] + j], k, i_port[k], j)
             /\ i_port[k] \in Port /\ PortLies(sm, i_port[k])
             /\ j \in 1 .. Len(i_port[k].pdo)
  BY <1>1, <1>2, OutputConversions
<1>4. ASSUME NEW x \in OutputsThere
      PROVE  \E k \in 1 .. n : \E j \in 1 .. c[k] :
               \E b \in ValueBits(i_port[k]) :
                 x = <<k, j, b>> /\ BitOf(i_port[k], j, b) # Zero
  BY <1>2, <1>3, BitThere
<1>5. ASSUME NEW x \in OutputsThere PROVE PlaceOfBit(x) \in DOMAIN image
  <2>10. PICK k \in 1 .. n : \E j \in 1 .. c[k] : \E b \in ValueBits(i_port[k]) :
           x = <<k, j, b>> /\ BitOf(i_port[k], j, b) # Zero
    BY <1>4
  <2>11. PICK j \in 1 .. c[k] : \E b \in ValueBits(i_port[k]) :
           x = <<k, j, b>> /\ BitOf(i_port[k], j, b) # Zero
    BY <2>10
  <2>1. PICK b \in ValueBits(i_port[k]) :
          x = <<k, j, b>> /\ BitOf(i_port[k], j, b) # Zero
    BY <2>11
  <2>2. PlaceOfBit(x) = <<i_port[k].pdo[j].sm, BitOf(i_port[k], j, b)>>
    BY <2>1, BitThere
  <2>3. WritesElement(convert.out[at[k - 1] + j], k, i_port[k], j)
    BY <1>3
  <2>4. PlaceOfBit(x) \in DOMAIN convert.out[at[k - 1] + j]
    BY <2>1, <2>2, <2>3 DEF WritesElement
  <2>5. at[k - 1] + j \in DOMAIN convert.out
    BY <1>3 DEF Placed
  <2>6. PlaceOfBit(x) \in Settable(convert.out)
    BY <2>4, <2>5 DEF Settable
  <2> QED
    BY <1>1, <2>6, NothingBefore
<1>6. ASSUME NEW q \in DOMAIN image
      PROVE  \E x \in OutputsThere : PlaceOfBit(x) = q /\ SourceOfBit(x) = image[q]
  <2>1. PICK m \in Nat : DOMAIN convert.out = 1 .. m
    BY <1>3 DEF Placed
  <2>2. PICK i \in DOMAIN convert.out : /\ q \in DOMAIN convert.out[i]
                                        /\ image[q] = convert.out[i][q]
    BY <1>1, <2>1, SomeSetter
  <2>3. PICK k \in 1 .. n : \E j \in 1 .. c[k] : i = at[k - 1] + j
    BY <1>3 DEF Placed
  <2>4. PICK j \in 1 .. c[k] : i = at[k - 1] + j
    BY <2>3
  <2>5. WritesElement(convert.out[i], k, i_port[k], j)
    BY <1>3, <2>4
  <2>6. PICK b \in ValueBits(i_port[k]) :
          /\ BitOf(i_port[k], j, b) # Zero
          /\ q = <<i_port[k].pdo[j].sm, BitOf(i_port[k], j, b)>>
          /\ image[q] = <<k, 8 * MemoryBytes(i_port[k]) * (j - 1) + b>>
    BY <2>2, <2>5 DEF WritesElement
  <2>7. <<k, j, b>> \in OutputsThere
    <3>1. k \in DOMAIN i_port /\ j \in 1 .. inWidth[k]
      BY <1>2, <1>3
    <3> QED
      BY <2>6, <3>1, BitThere
  <2>8. PlaceOfBit(<<k, j, b>>) = q /\ SourceOfBit(<<k, j, b>>) = image[q]
    BY <2>6, BitThere
  <2> QED
    BY <2>7, <2>8
<1>7. DOMAIN image = {PlaceOfBit(x) : x \in OutputsThere}
  BY <1>5, <1>6
<1>8. ASSUME NEW x \in OutputsThere
      PROVE  LET e == i_port[x[1]].pdo[x[2]]
             IN i_port[x[1]].raw
                  \/ PlaceOfBit(x)[2] \in BitsBefore(e) ..
                       BitsBefore(e)
                         + sm[e.sm].pdo[e.pdo][e.entry].bits - 1
  <2>10. PICK k \in 1 .. n : \E j \in 1 .. c[k] : \E b \in ValueBits(i_port[k]) :
           x = <<k, j, b>> /\ BitOf(i_port[k], j, b) # Zero
    BY <1>4
  <2>11. PICK j \in 1 .. c[k] : \E b \in ValueBits(i_port[k]) :
           x = <<k, j, b>> /\ BitOf(i_port[k], j, b) # Zero
    BY <2>10
  <2>1. PICK b \in ValueBits(i_port[k]) :
          x = <<k, j, b>> /\ BitOf(i_port[k], j, b) # Zero
    BY <2>11
  <2>2. /\ i_port[k] \in Port /\ PortLies(sm, i_port[k])
        /\ j \in 1 .. Len(i_port[k].pdo)
    BY <1>3
  <2>3. x[1] = k /\ x[2] = j
    BY <2>1
  <2>4. PlaceOfBit(x) = <<i_port[k].pdo[j].sm, BitOf(i_port[k], j, b)>>
    BY <2>1, BitThere
  <2>5. PlaceOfBit(x)[2] = BitOf(i_port[k], j, b)
    BY <2>4
  <2>6. CASE i_port[k].raw
    BY <2>3, <2>6
  <2>7. CASE ~i_port[k].raw
    <3>1. LET e == i_port[k].pdo[j] IN
          BitOf(i_port[k], j, b) \in BitsBefore(e) ..
            BitsBefore(e) + sm[e.sm].pdo[e.pdo][e.entry].bits - 1
      BY <2>1, <2>2, <2>7, BitInEntry
    <3> QED
      BY <2>3, <2>5, <3>1
  <2> QED
    BY <2>6, <2>7
<1> QED
  BY <1>6, <1>7, <1>8

DataOfStart ==
  Types /\ RecordsInv /\ AnnounceInv /\ DataInv /\ StageInv /\ StageData

LEMMA DataHolds == StartSpec => []DataOfStart
<1>1. StartInit => DataOfStart
  <2>1. StartInit => Init /\ stage = "model" /\ memory = <<>> /\ image = <<>>
    BY DEF StartInit
  <2>2. stage = "model" /\ memory = <<>> /\ image = <<>>
          => StageInv /\ StageData
    BY DEF StageInv, Configured, StageData, AtElements, AtFunctions, AtStarted
  <2> QED
    BY <2>1, <2>2, InitTypes, InitRecords, InitAnnounce, InitData
       DEF DataOfStart
<1>2. DataOfStart /\ [StartNext]_<<vars, start>> => DataOfStart'
  BY StepOfBlock, NextTypes, NextRecords, NextAnnounce, NextData, NextStage,
     NextStageData DEF DataOfStart
<1> QED
  BY <1>1, <1>2, PTL DEF StartSpec

(* After ecs_receive the memory at each output of the block has the bits   *)
(* of its elements in the process image, each with those of its entry, in  *)
(* its byte order and extended with zeros; no later element has spoiled    *)
(* them, and nothing behind the port has changed but by big endian values  *)
(* of three bytes (ec_slave3.c, ec_slave3.tlc, ecrt_support.c). It holds   *)
(* whatever the sync managers, PDOs, ports and types are.                  *)
THEOREM InputsArrive == StartSpec => []InputsAreTheirElements
<1>1. DataOfStart => InputsAreTheirElements
  BY InputsFromStages DEF DataOfStart
<1> QED
  BY <1>1, DataHolds, PTL

(* ecs_send changes all bits of the elements of the inputs of the block    *)
(* and no others of the process image, each to one of its own element; it  *)
(* stays within the entries, except in the raw mode.                       *)
THEOREM OutputsArrive == StartSpec => []OutputsChangeTheirElements
<1>1. DataOfStart => OutputsChangeTheirElements
  BY OutputsFromStages DEF DataOfStart
<1> QED
  BY <1>1, DataHolds, PTL

=============================================================================
