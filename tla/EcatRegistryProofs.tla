------------------------ MODULE EcatRegistryProofs ------------------------
(***************************************************************************)
(* Proofs about EcatRegistry, for any calls and slaves and for any tasks.  *)
(*   - A master is listed before its rate matters, and get_master only     *)
(*     ever lowers it (FastestInv).                                        *)
(*   - get_domain finds the first domain of a list that suits. A list only *)
(*     grows at its end, and once the slaves are configured no domain gets *)
(*     another direction: the domain of a PDO stays the first (ServedInv), *)
(*     and so does the one a block shows, if the blocks are of one kind    *)
(*     (ShownInv).                                                         *)
(*   - The counters ins and outs of a domain are the sums of the PDOs that *)
(*     were registered with it (CountInv), and so are those of its lists   *)
(*     as they are filled (ListInv): each PDO is put where nothing was.    *)
(***************************************************************************)
EXTENDS EcatRegistry, SequenceTheorems, WellFoundedInduction, TLAPS

Configuring == {"slaves", "rxpdo", "txpdo"}
Lives == pc \in {"blocks", "convert"} \cup Configuring

(* How many slaves have asked for their master, and whose RxPDOs and TxPDOs*)
(* are registered.                                                         *)
InitDone == CASE pc = "slaves" -> n - 1
              [] pc \in {"rxpdo", "txpdo"} -> n
              [] pc = "convert" -> Len(slaves)
              [] OTHER -> 0
RxDone == CASE pc \in {"slaves", "rxpdo"} -> n - 1
            [] pc = "txpdo" -> n
            [] pc = "convert" -> Len(slaves)
            [] OTHER -> 0
TxDone == CASE pc \in Configuring -> n - 1
            [] pc = "convert" -> Len(slaves)
            [] OTHER -> 0

DomainRec == [master : Master, id : Domain, rate : Nat,
              input : BOOLEAN, output : BOOLEAN, handle : BOOLEAN,
              ins : Nat, outs : Nat]
MasterRec == [id : Master, fastest : Nat, handle : BOOLEAN]

(* Where the start is; every call that was made has left what it shows.    *)
CursorInv ==
  /\ calls \in Seq(Call) /\ slaves \in Seq(Slave)
  /\ rxDomain \in [1 .. Len(slaves) -> 0 .. Len(domains)]
  /\ txDomain \in [1 .. Len(slaves) -> 0 .. Len(domains)]
  /\ Len(shown) <= Len(calls)
  /\ pc = "blocks" => n = Len(shown) + 1
  /\ pc \in Configuring \cup {"convert"} =>
       Len(shown) = Len(calls) /\ n \in 1 .. Len(slaves) + 1
  /\ pc \in {"rxpdo", "txpdo"} => n <= Len(slaves)

(* Call c asks for a domain, of master id.                                 *)
Asks(c, id) == calls[c].master = id /\ (calls[c].input \/ calls[c].output)

FastestInv ==
  Lives =>
    /\ \A c \in 1 .. Len(shown) : MasterOf(calls[c].master) # {}
    /\ \A s \in 1 .. InitDone : MasterOf(slaves[s].master) # {}
    /\ \A m \in 1 .. Len(masters) :
         /\ \A c \in 1 .. Len(shown) :
              Asks(c, masters[m].id) => masters[m].fastest <= Rate[calls[c].tid]
         /\ \A s \in 1 .. InitDone :
              slaves[s].master = masters[m].id
                => masters[m].fastest <= Rate[slaves[s].tid]
         /\ \/ masters[m].fastest = NoTid
            \/ \E c \in 1 .. Len(shown) :
                 Asks(c, masters[m].id) /\ masters[m].fastest = Rate[calls[c].tid]
            \/ \E s \in 1 .. InitDone :
                 /\ slaves[s].master = masters[m].id
                 /\ masters[m].fastest = Rate[slaves[s].tid]

(* Domain d is the first of its id and rate with one of the directions.    *)
IsFirst(d, id, domain, rate, input, output) ==
  /\ d \in 1 .. Len(domains)
  /\ Suits(d, id, domain, rate, input, output)
  /\ \A e \in 1 .. d - 1 : ~Suits(e, id, domain, rate, input, output)

FirstFor(d, x, input, output) ==
  IsFirst(d, x.master, x.domain, Rate[x.tid], input, output)

ServedInv ==
  /\ \A s \in 1 .. Len(slaves) :
       /\ rxDomain[s] # 0 => FirstFor(rxDomain[s], slaves[s], FALSE, TRUE)
       /\ txDomain[s] # 0 => FirstFor(txDomain[s], slaves[s], TRUE, FALSE)
  /\ Lives => \A s \in 1 .. Len(slaves) :
       /\ rxDomain[s] # 0 <=> s <= RxDone /\ slaves[s].rxpdo > 0
       /\ txDomain[s] # 0 <=> s <= TxDone /\ slaves[s].txpdo > 0

BothAtOnce == \A c \in 1 .. Len(calls) : calls[c].input = calls[c].output

ShownInv ==
  /\ (pc = "blocks" /\ BothAtOnce) =>
       \A d \in 1 .. Len(domains) : domains[d].input = domains[d].output
  /\ (Lives /\ OneKind) =>
       \A c \in 1 .. Len(shown) : shown[c] # 0 =>
         /\ calls[c].output => FirstFor(shown[c], calls[c], FALSE, TRUE)
         /\ calls[c].input => FirstFor(shown[c], calls[c], TRUE, FALSE)

(* The PDOs that each slave has in domain d.                               *)
RxOf(d) == [s \in 1 .. Len(slaves) |->
              IF rxDomain[s] = d THEN slaves[s].rxpdo ELSE 0]
TxOf(d) == [s \in 1 .. Len(slaves) |->
              IF txDomain[s] = d THEN slaves[s].txpdo ELSE 0]

(* total is the sum of the first k values of w: there are the sums up to   *)
(* each of them.                                                           *)
IsSum(w, k, total) ==
  \E sum \in [0 .. k -> Nat] :
    /\ sum[0] = 0 /\ sum[k] = total
    /\ \A s \in 1 .. k : sum[s] = sum[s - 1] + w[s]

CountInv ==
  Lives => \A d \in 1 .. Len(domains) :
             /\ IsSum(RxOf(d), RxDone, domains[d].outs)
             /\ IsSum(TxOf(d), TxDone, domains[d].ins)

(* The elements first .. first + count - 1 of an array are the PDOs of the *)
(* given direction that the first m slaves have in domain d, and those     *)
(* after them up to element last are zero.                                 *)
Holds(array, first, count, last, dir, w, m) ==
  /\ \A i \in first .. first + count - 1 :
       \E s \in 1 .. m : \E k \in 1 .. w[s] : array[i] = <<s, dir, k>>
  /\ \A s \in 1 .. m : \A k \in 1 .. w[s] :
       \E i \in first .. first + count - 1 : array[i] = <<s, dir, k>>
  /\ \A i \in first + count .. last : array[i] = Zero

(* List l is filled with the PDOs of the first m slaves, of which there    *)
(* will be ins and outs.                                                   *)
ListFor(l, ins, outs, rx, tx, m) ==
  /\ DOMAIN l = {"array", "output", "input_count", "output_count"}
  /\ DOMAIN l.array = 0 .. ins + outs + 1
  /\ l.output = ins + 1
  /\ IsSum(tx, m, l.input_count) /\ IsSum(rx, m, l.output_count)
  /\ Holds(l.array, 0, l.input_count, ins, "tx", tx, m)
  /\ Holds(l.array, l.output, l.output_count, ins + outs + 1, "rx", rx, m)

ListInv ==
  pc = "convert" =>
    /\ DOMAIN list = 1 .. Len(domains) /\ Len(list) = Len(domains)
    /\ \A d \in 1 .. Len(domains) :
         ListFor(list[d], domains[d].ins, domains[d].outs,
                 RxOf(d), TxOf(d), n - 1)

IInv == TypeOK /\ CursorInv /\ FastestInv /\ ServedInv /\ ShownInv
        /\ CountInv /\ ListInv

-----------------------------------------------------------------------------
(* Natural numbers, and sums *)

LEMMA LeastOf ==
  ASSUME NEW S, S \subseteq Nat, S # {}
  PROVE  \E x \in S : \A y \in S : x <= y
<1> DEFINE R == {ss \in Nat \X Nat : ss[1] < ss[2]}
<1>1. IsWellFoundedOn(R, Nat)
  BY NatLessThanWellFounded DEF OpToRel
<1>2. \A x, y \in Nat : y < x => <<y, x>> \in R
  OBVIOUS
<1> HIDE DEF R
<1>3. \E x \in S : \A y \in S : ~(<<y, x>> \in R)
  BY <1>1, WFMin
<1>4. \A x, y \in Nat : ~(y < x) => x <= y
  OBVIOUS
<1> QED
  BY <1>2, <1>3, <1>4

(* Induction, of a set rather than of a formula.                           *)
LEMMA Induct ==
  ASSUME NEW S, 0 \in S, \A k \in Nat : k \in S => k + 1 \in S
  PROVE  Nat \subseteq S
<1> SUFFICES ASSUME Nat \ S # {} PROVE FALSE
  OBVIOUS
<1>1. PICK x \in Nat \ S : \A y \in Nat \ S : x <= y
  BY LeastOf
<1>2. x # 0 /\ x - 1 \in Nat /\ x - 1 \in S
  BY <1>1
<1> QED
  BY <1>1, <1>2

LEMMA SumOfNone == \A w : IsSum(w, 0, 0)
<1> SUFFICES ASSUME NEW w PROVE IsSum(w, 0, 0)
  OBVIOUS
<1> DEFINE sum == [s \in 0 .. 0 |-> 0]
<1>1. sum \in [0 .. 0 -> Nat] /\ sum[0] = 0 /\ \A s \in 1 .. 0 : FALSE
  OBVIOUS
<1> QED
  BY <1>1 DEF IsSum

LEMMA SumType ==
  ASSUME NEW w, NEW k \in Nat, NEW a, IsSum(w, k, a)
  PROVE  a \in Nat
BY DEF IsSum

(* One more value.                                                         *)
LEMMA SumOfOneMore ==
  ASSUME NEW w, NEW k \in Nat, NEW a, IsSum(w, k, a), w[k + 1] \in Nat
  PROVE  IsSum(w, k + 1, a + w[k + 1])
<1>1. PICK sum \in [0 .. k -> Nat] :
        /\ sum[0] = 0 /\ sum[k] = a
        /\ \A s \in 1 .. k : sum[s] = sum[s - 1] + w[s]
  BY DEF IsSum
<1> DEFINE more == [s \in 0 .. k + 1 |-> IF s = k + 1 THEN a + w[k + 1]
                                                     ELSE sum[s]]
<1>2. a \in Nat
  BY <1>1
<1>3. more \in [0 .. k + 1 -> Nat] /\ more[0] = 0
        /\ more[k + 1] = a + w[k + 1]
  BY <1>1, <1>2
<1>4. \A s \in 1 .. k + 1 : more[s] = more[s - 1] + w[s]
  <2> TAKE s \in 1 .. k + 1
  <2>1. CASE s = k + 1
    BY <2>1, <1>1
  <2>2. CASE s # k + 1
    BY <2>2, <1>1
  <2> QED
    BY <2>1, <2>2
<1> HIDE DEF more
<1> QED
  BY <1>3, <1>4 DEF IsSum

(* A sum depends on the values up to its end only.                         *)
LEMMA SumOfSame ==
  ASSUME NEW w, NEW v, NEW k \in Nat, NEW a, IsSum(w, k, a),
         \A s \in 1 .. k : v[s] = w[s]
  PROVE  IsSum(v, k, a)
BY DEF IsSum

LEMMA SumOfZeros ==
  ASSUME NEW w, NEW k \in Nat, \A s \in 1 .. k : w[s] = 0
  PROVE  IsSum(w, k, 0)
<1> DEFINE sum == [s \in 0 .. k |-> 0]
<1>1. sum \in [0 .. k -> Nat] /\ sum[0] = 0 /\ sum[k] = 0
  OBVIOUS
<1>2. \A s \in 1 .. k : sum[s] = sum[s - 1] + w[s]
  OBVIOUS
<1> HIDE DEF sum
<1> QED
  BY <1>1, <1>2 DEF IsSum

(* Sums grow with the number of values.                                    *)
LEMMA SumsGrow ==
  ASSUME NEW w, NEW k \in Nat, NEW a, IsSum(w, k, a),
         NEW j \in Nat, NEW b, IsSum(w, j, b), k <= j,
         \A s \in 1 .. j : w[s] \in Nat
  PROVE  a <= b
<1>1. PICK f \in [0 .. k -> Nat] :
        /\ f[0] = 0 /\ f[k] = a
        /\ \A s \in 1 .. k : f[s] = f[s - 1] + w[s]
  BY DEF IsSum
<1>2. PICK g \in [0 .. j -> Nat] :
        /\ g[0] = 0 /\ g[j] = b
        /\ \A s \in 1 .. j : g[s] = g[s - 1] + w[s]
  BY DEF IsSum
<1> DEFINE S == {i \in Nat : /\ i <= k => f[i] = g[i]
                             /\ i <= j - k => g[k] <= g[k + i]}
<1>3. 0 \in S
  BY <1>1, <1>2
<1>4. ASSUME NEW i \in Nat, i \in S PROVE i + 1 \in S
  <2>1. i + 1 <= k => f[i + 1] = g[i + 1]
    <3> SUFFICES ASSUME i + 1 <= k PROVE f[i + 1] = g[i + 1]
      OBVIOUS
    <3>1. i + 1 \in 1 .. k /\ i + 1 \in 1 .. j /\ (i + 1) - 1 = i
      OBVIOUS
    <3>2. f[i + 1] = f[i] + w[i + 1] /\ g[i + 1] = g[i] + w[i + 1]
      BY <3>1, <1>1, <1>2
    <3> QED
      BY <3>1, <3>2, <1>4
  <2>2. i + 1 <= j - k => g[k] <= g[k + (i + 1)]
    <3> SUFFICES ASSUME i + 1 <= j - k PROVE g[k] <= g[k + (i + 1)]
      OBVIOUS
    <3>1. k + (i + 1) \in 1 .. j /\ (k + (i + 1)) - 1 = k + i
            /\ k + i \in 0 .. j
      OBVIOUS
    <3>2. g[k + (i + 1)] = g[k + i] + w[k + (i + 1)]
      BY <3>1, <1>2
    <3>3. g[k + i] \in Nat /\ w[k + (i + 1)] \in Nat /\ g[k] \in Nat
      BY <3>1
    <3>4. g[k] <= g[k + i]
      BY <1>4
    <3> HIDE DEF S
    <3> QED
      BY <3>2, <3>3, <3>4
  <2> QED
    BY <2>1, <2>2
<1>5. Nat \subseteq S
  <2> HIDE DEF S
  <2> QED
    BY <1>3, <1>4, Induct
<1>6. k \in S /\ j - k \in S /\ j - k \in Nat
  BY <1>5
<1>7. f[k] = g[k] /\ g[k] <= g[k + (j - k)]
  BY <1>6
<1> QED
  BY <1>1, <1>2, <1>7

(* There is room for the value after a shorter sum.                        *)
LEMMA SumHasRoom ==
  ASSUME NEW w, NEW k \in Nat, NEW a, IsSum(w, k, a),
         NEW j \in Nat, NEW b, IsSum(w, j, b), k < j,
         \A s \in 1 .. j : w[s] \in Nat
  PROVE  a + w[k + 1] <= b
<1>1. IsSum(w, k + 1, a + w[k + 1])
  BY SumOfOneMore
<1> QED
  BY <1>1, SumsGrow

-----------------------------------------------------------------------------
(* get_domain and get_master *)

LEMMA RateType ==
  \A t \in Tid : Rate[t] \in Nat /\ Rate[t] < NoTid /\ NoTid \in Nat
BY RateAssumption, NoTidAssumption

LEMMA DomainForIsThere ==
  ASSUME domains \in Seq(DomainRec), NEW id, NEW domain, NEW rate,
         NEW input, NEW output,
         NEW d, d = DomainFor(id, domain, rate, input, output)
  PROVE  /\ d \in 1 .. Len(domains) + 1
         /\ d = Len(domains) + 1 \/ Suits(d, id, domain, rate, input, output)
         /\ \A e \in 1 .. d - 1 : ~Suits(e, id, domain, rate, input, output)
<1> DEFINE Fits(e) == \/ e = Len(domains) + 1
                      \/ Suits(e, id, domain, rate, input, output)
           S == {e \in 1 .. Len(domains) + 1 : Fits(e)}
<1>1. Len(domains) \in Nat
  OBVIOUS
<1>2. Len(domains) + 1 \in S
  BY <1>1
<1>3. S \subseteq Nat
  BY <1>1
<1>4. PICK x \in S : \A y \in S : x <= y
  <2> HIDE DEF S
  <2> QED
    BY <1>2, <1>3, LeastOf
<1>5. x \in 1 .. Len(domains) + 1 /\ Fits(x)
  OBVIOUS
<1>6. ASSUME NEW e \in 1 .. x - 1
      PROVE  ~Suits(e, id, domain, rate, input, output)
  <2>1. e \in 1 .. Len(domains) + 1 /\ ~(x <= e)
    BY <1>1, <1>5
  <2> QED
    BY <1>4, <2>1
<1> QED
  BY <1>5, <1>6 DEF DomainFor

LEMMA FirstIsUnique ==
  ASSUME NEW id, NEW domain, NEW rate, NEW input, NEW output, NEW d, NEW e,
         IsFirst(d, id, domain, rate, input, output),
         IsFirst(e, id, domain, rate, input, output)
  PROVE  d = e
<1>1. ~(d < e) /\ ~(e < d)
  BY DEF IsFirst
<1> QED
  BY <1>1 DEF IsFirst

(* The domains keep what they are asked for; there may be more of them.    *)
Keep == /\ Len(domains) <= Len(domains')
        /\ \A d \in 1 .. Len(domains) :
             /\ domains'[d].master = domains[d].master
             /\ domains'[d].id = domains[d].id
             /\ domains'[d].rate = domains[d].rate
             /\ domains'[d].input = domains[d].input
             /\ domains'[d].output = domains[d].output

LEMMA SuitsIsKept ==
  ASSUME Keep, NEW d \in 1 .. Len(domains), NEW id, NEW domain, NEW rate,
         NEW input, NEW output
  PROVE  Suits(d, id, domain, rate, input, output)'
           <=> Suits(d, id, domain, rate, input, output)
BY DEF Keep, Suits

LEMMA FirstIsKept ==
  ASSUME domains \in Seq(DomainRec), domains' \in Seq(DomainRec), Keep,
         NEW d, NEW id, NEW domain, NEW rate, NEW input, NEW output,
         IsFirst(d, id, domain, rate, input, output)
  PROVE  IsFirst(d, id, domain, rate, input, output)'
<1>1. Len(domains) \in Nat /\ Len(domains') \in Nat
        /\ Len(domains) <= Len(domains')
  BY DEF Keep
<1>2. d \in 1 .. Len(domains)
        /\ (\A e \in 1 .. d - 1 : e \in 1 .. Len(domains))
  BY <1>1 DEF IsFirst
<1> QED
  BY <1>1, <1>2, SuitsIsKept DEF IsFirst

(* The domains new are what get_domain leaves: it has found d, or appended *)
(* it. As many PDOs have been registered with it since.                    *)
Finds(new, d, id, domain, rate, input, output) ==
  /\ new \in Seq(DomainRec) /\ d \in 1 .. Len(new) /\ Len(domains) \in Nat
  /\ \A e \in 1 .. Len(domains) : e # d => new[e] = domains[e]
  /\ \A e \in 1 .. d - 1 : ~Suits(e, id, domain, rate, input, output)
  /\ \/ /\ d \in 1 .. Len(domains) /\ Len(new) = Len(domains)
        /\ Suits(d, id, domain, rate, input, output)
        /\ domains[d] \in DomainRec
        /\ new[d].master = domains[d].master /\ new[d].id = domains[d].id
        /\ new[d].rate = domains[d].rate /\ new[d].handle = domains[d].handle
        /\ new[d].input = (domains[d].input \/ input)
        /\ new[d].output = (domains[d].output \/ output)
     \/ /\ d = Len(domains) + 1 /\ Len(new) = d
        /\ new[d].master = id /\ new[d].id = domain /\ new[d].rate = rate
        /\ new[d].input = input /\ new[d].output = output

HadIns(d)  == IF d \in 1 .. Len(domains) THEN domains[d].ins ELSE 0
HadOuts(d) == IF d \in 1 .. Len(domains) THEN domains[d].outs ELSE 0

Gets(new, d, id, domain, rate, input, output, ins, outs) ==
  /\ Finds(new, d, id, domain, rate, input, output)
  /\ HadIns(d) \in Nat /\ HadOuts(d) \in Nat
  /\ new[d].ins = HadIns(d) + ins /\ new[d].outs = HadOuts(d) + outs

LEMMA GetDomainIs ==
  ASSUME domains \in Seq(DomainRec), NEW id \in Master, NEW domain \in Domain,
         NEW rate \in Nat, NEW input \in BOOLEAN, NEW output \in BOOLEAN,
         NEW created \in BOOLEAN
  PROVE  Gets(GetDomain(id, domain, rate, input, output, created),
              DomainFor(id, domain, rate, input, output),
              id, domain, rate, input, output, 0, 0)
<1> DEFINE d == DomainFor(id, domain, rate, input, output)
           found == GetDomain(id, domain, rate, input, output, created)
<1> HIDE DEF d, found
<1>0. /\ d \in 1 .. Len(domains) + 1
      /\ d = Len(domains) + 1 \/ Suits(d, id, domain, rate, input, output)
      /\ \A e \in 1 .. d - 1 : ~Suits(e, id, domain, rate, input, output)
  BY DomainForIsThere DEF d
<1>1. Len(domains) \in Nat /\ d \in 1 .. Len(domains) + 1
  BY <1>0
<1>2. CASE d > Len(domains)
  <2> DEFINE new == [master |-> id, id |-> domain, rate |-> rate,
                     input |-> input, output |-> output,
                     handle |-> created, ins |-> 0, outs |-> 0]
  <2>1. found = Append(domains, new)
    BY <1>2 DEF GetDomain, found, d
  <2>2. new \in DomainRec
    BY DEF DomainRec
  <2> HIDE DEF new
  <2>3. /\ found \in Seq(DomainRec) /\ Len(found) = Len(domains) + 1
        /\ \A e \in 1 .. Len(domains) : found[e] = domains[e]
        /\ found[Len(domains) + 1] = new
    BY <2>1, <2>2, AppendProperties
  <2>4. d = Len(domains) + 1
    BY <1>1, <1>2
  <2>5. Finds(found, d, id, domain, rate, input, output)
    BY <2>3, <2>4, <1>0, <1>1 DEF new, Finds
  <2>6. HadIns(d) = 0 /\ HadOuts(d) = 0
    BY <2>4, <1>1 DEF HadIns, HadOuts
  <2> QED
    BY <2>3, <2>4, <2>5, <2>6 DEF new, Gets, found, d
<1>3. CASE d <= Len(domains)
  <2> DEFINE r == [domains[d] EXCEPT !.input = @ \/ input,
                                     !.output = @ \/ output]
  <2>1. d \in 1 .. Len(domains) /\ domains[d] \in DomainRec
    BY <1>1, <1>3, ElementOfSeq
  <2>2. r \in DomainRec
    BY <2>1 DEF DomainRec
  <2>3. found = [domains EXCEPT ![d] = r]
    <3>1. found = [domains EXCEPT ![d].input = @ \/ input,
                                  ![d].output = @ \/ output]
      BY <1>1, <1>3 DEF GetDomain, found, d
    <3>2. DOMAIN domains = 1 .. Len(domains)
      OBVIOUS
    <3>3. DOMAIN domains[d] = DOMAIN r
      BY <2>1 DEF DomainRec
    <3> QED
      BY <3>1, <3>2, <3>3, <2>1 DEF DomainRec
  <2> HIDE DEF r
  <2>4. /\ found \in Seq(DomainRec) /\ Len(found) = Len(domains)
        /\ \A e \in 1 .. Len(domains) :
             found[e] = IF e = d THEN r ELSE domains[e]
    BY <2>1, <2>2, <2>3, ExceptSeq
  <2>5. Suits(d, id, domain, rate, input, output)
    BY <1>0, <1>1, <1>3
  <2>6. /\ r.master = domains[d].master /\ r.id = domains[d].id
        /\ r.rate = domains[d].rate /\ r.handle = domains[d].handle
        /\ r.ins = domains[d].ins /\ r.outs = domains[d].outs
        /\ r.ins \in Nat /\ r.outs \in Nat
        /\ r.input = (domains[d].input \/ input)
        /\ r.output = (domains[d].output \/ output)
    BY <2>1 DEF r, DomainRec
  <2>7. Finds(found, d, id, domain, rate, input, output)
    BY <2>1, <2>4, <2>5, <2>6, <1>0, <1>1, <1>3 DEF Finds
  <2>8. HadIns(d) = r.ins /\ HadOuts(d) = r.outs
    BY <2>1, <2>6 DEF HadIns, HadOuts
  <2> QED
    BY <2>1, <2>4, <2>6, <2>7, <2>8 DEF Gets, found, d
<1> QED
  BY <1>1, <1>2, <1>3

LEMMA MastersListed ==
  ASSUME masters \in Seq(MasterRec), NEW id \in Master, NEW rate \in Nat,
         NEW granted \in BOOLEAN, masters' = GetMaster(id, rate, granted)
  PROVE  /\ masters' \in Seq(MasterRec)
         /\ \A m \in 1 .. Len(masters) :
              /\ m \in 1 .. Len(masters')
              /\ masters'[m].id = masters[m].id
              /\ masters'[m].fastest = IF masters[m].id = id
                                       THEN Lower(masters[m].fastest, rate)
                                       ELSE masters[m].fastest
         /\ MasterOf(id) # {} => Len(masters') = Len(masters)
         /\ MasterOf(id) = {} =>
              /\ Len(masters') = Len(masters) + 1
              /\ masters'[Len(masters) + 1].id = id
              /\ masters'[Len(masters) + 1].fastest = rate
<1>1. Len(masters) \in Nat
  OBVIOUS
<1>2. \A m \in 1 .. Len(masters) : masters[m] \in MasterRec
  BY ElementOfSeq
<1>3. CASE MasterOf(id) = {}
  <2> DEFINE new == [id |-> id, fastest |-> rate, handle |-> granted]
  <2>1. new \in MasterRec /\ masters' = Append(masters, new)
    BY <1>3 DEF GetMaster, MasterRec
  <2> HIDE DEF new
  <2>2. /\ masters' \in Seq(MasterRec) /\ Len(masters') = Len(masters) + 1
        /\ \A m \in 1 .. Len(masters) : masters'[m] = masters[m]
        /\ masters'[Len(masters) + 1] = new
    BY <2>1, AppendProperties
  <2>3. \A m \in 1 .. Len(masters) : masters[m].id # id
    BY <1>3 DEF MasterOf
  <2> QED
    BY <1>1, <1>3, <2>2, <2>3 DEF new
<1>4. CASE MasterOf(id) # {}
  <2> DEFINE e(m) == IF m \in MasterOf(id)
                     THEN [masters[m] EXCEPT !.fastest = Lower(@, rate)]
                     ELSE masters[m]
  <2>1. masters' = [m \in 1 .. Len(masters) |-> e(m)]
    BY <1>4 DEF GetMaster
  <2>2. \A m \in 1 .. Len(masters) :
          /\ e(m) \in MasterRec /\ e(m).id = masters[m].id
          /\ e(m).fastest = IF masters[m].id = id
                            THEN Lower(masters[m].fastest, rate)
                            ELSE masters[m].fastest
    BY <1>2 DEF MasterOf, Lower, MasterRec
  <2> HIDE DEF e
  <2>3. masters' \in Seq(MasterRec) /\ Len(masters') = Len(masters)
    BY <1>1, <2>1, <2>2
  <2> QED
    BY <1>1, <1>4, <2>1, <2>2, <2>3
<1> QED
  BY <1>3, <1>4

ListedIn(ms, id) == \E m \in 1 .. Len(ms) : ms[m].id = id

LEMMA MasterOfListed == \A id : MasterOf(id) # {} <=> ListedIn(masters, id)
BY DEF MasterOf, ListedIn

(* A master that is listed stays so, and the one asked for is.             *)
LEMMA MasterIsListed ==
  ASSUME masters \in Seq(MasterRec), NEW id \in Master, NEW rate \in Nat,
         NEW granted \in BOOLEAN, masters' = GetMaster(id, rate, granted)
  PROVE  /\ ListedIn(masters', id)
         /\ \A x : ListedIn(masters, x) => ListedIn(masters', x)
<1>1. \A m \in 1 .. Len(masters) : m \in 1 .. Len(masters')
                                   /\ masters'[m].id = masters[m].id
  BY MastersListed
<1>2. \A x : ListedIn(masters, x) => ListedIn(masters', x)
  BY <1>1 DEF ListedIn
<1>3. CASE MasterOf(id) = {}
  <2>1. /\ Len(masters') = Len(masters) + 1 /\ Len(masters) \in Nat
        /\ masters'[Len(masters) + 1].id = id
    BY <1>3, MastersListed
  <2>2. ListedIn(masters', id)
    BY <2>1 DEF ListedIn
  <2> QED
    BY <2>2, <1>2
<1>4. CASE MasterOf(id) # {}
  BY <1>4, <1>2, MasterOfListed
<1> QED
  BY <1>2, <1>3, <1>4

-----------------------------------------------------------------------------
(* The types *)

LEMMA InputTypes ==
  ASSUME CursorInv
  PROVE  /\ Len(calls) \in Nat /\ Len(slaves) \in Nat
         /\ \A c \in 1 .. Len(calls) :
              /\ calls[c].master \in Master /\ calls[c].domain \in Domain
              /\ calls[c].tid \in Tid /\ Rate[calls[c].tid] \in Nat
              /\ Rate[calls[c].tid] < NoTid /\ NoTid \in Nat
              /\ calls[c].input \in BOOLEAN /\ calls[c].output \in BOOLEAN
              /\ calls[c].last \in BOOLEAN
         /\ \A s \in 1 .. Len(slaves) :
              /\ slaves[s].master \in Master /\ slaves[s].domain \in Domain
              /\ slaves[s].tid \in Tid /\ Rate[slaves[s].tid] \in Nat
              /\ Rate[slaves[s].tid] < NoTid /\ NoTid \in Nat
              /\ slaves[s].rxpdo \in Nat /\ slaves[s].txpdo \in Nat
<1>1. calls \in Seq(Call) /\ slaves \in Seq(Slave)
  BY DEF CursorInv
<1>2. \A c \in 1 .. Len(calls) : calls[c] \in Call
  BY <1>1, ElementOfSeq
<1>3. \A s \in 1 .. Len(slaves) : slaves[s] \in Slave
  BY <1>1, ElementOfSeq
<1> QED
  BY <1>1, <1>2, <1>3, RateType DEF Call, Slave

(* TypeOK, with what it says of the lists in terms of their values.        *)
Types ==
  /\ pc \in {"blocks", "slaves", "rxpdo", "txpdo", "convert", "failed",
             "crashed"}
  /\ n \in Nat \ {0} /\ failed \in BOOLEAN
  /\ masters \in Seq(MasterRec) /\ domains \in Seq(DomainRec)
  /\ \A d \in 1 .. Len(domains) : ListedIn(masters, domains[d].master)
  /\ shown \in Seq(0 .. Len(domains))
  /\ \A s \in 1 .. Len(slaves) :
       rxDomain[s] \in 0 .. Len(domains) /\ txDomain[s] \in 0 .. Len(domains)
  /\ pc = "convert" => Len(list) = Len(domains)

LEMMA TypeIs == (TypeOK <=> Types) /\ (TypeOK' <=> Types')
<1>1. TypeOK <=> Types
  BY MasterOfListed DEF TypeOK, Types, MasterRec, DomainRec
<1>2. \A id : (MasterOf(id) # {})' <=> ListedIn(masters', id)
  BY DEF MasterOf, ListedIn
<1>3. (\A d \in 1 .. Len(domains) : MasterOf(domains[d].master) # {})'
        <=> \A d \in 1 .. Len(domains') :
              ListedIn(masters', domains'[d].master)
  BY DEF MasterOf, ListedIn
<1>4. TypeOK' <=> Types'
  BY <1>3 DEF TypeOK, Types, MasterRec, DomainRec
<1> QED
  BY <1>1, <1>4

LEMMA ShownGrows ==
  ASSUME NEW a \in Nat, NEW b \in Nat, a <= b, NEW s \in Seq(0 .. a),
         NEW d \in 0 .. b
  PROVE  /\ Append(s, d) \in Seq(0 .. b) /\ Len(Append(s, d)) = Len(s) + 1
         /\ Len(s) \in Nat /\ Append(s, d)[Len(s) + 1] = d
         /\ \A c \in 1 .. Len(s) : Append(s, d)[c] = s[c]
<1>1. 0 .. a \subseteq 0 .. b
  OBVIOUS
<1>2. s \in Seq(0 .. b)
  BY <1>1, SeqMonotonic
<1> QED
  BY <1>2, AppendProperties

(* A call was made: the start goes on, to the slaves after the last call,  *)
(* or it ends.                                                             *)
CallDone ==
  /\ pc' \in {"failed", "slaves", "blocks"}
  /\ pc' = "slaves" => n' = 1 /\ n = Len(calls)
  /\ pc' = "blocks" => n' = n + 1 /\ n # Len(calls)
  /\ pc' = "failed" => n' = n

LEMMA CurrentCall ==
  ASSUME Types, CursorInv, pc = "blocks", n <= Len(calls)
  PROVE  /\ n \in 1 .. Len(calls) /\ n = Len(shown) + 1
         /\ n \in Nat /\ Len(shown) \in Nat /\ Len(domains) \in Nat
         /\ Len(calls) \in Nat /\ Len(slaves) \in Nat /\ NoTid \in Nat
         /\ calls[n].master \in Master /\ calls[n].domain \in Domain
         /\ calls[n].tid \in Tid /\ Rate[calls[n].tid] \in Nat
         /\ calls[n].input \in BOOLEAN /\ calls[n].output \in BOOLEAN
<1>1. /\ n \in 1 .. Len(calls) /\ n = Len(shown) + 1
      /\ n \in Nat /\ Len(shown) \in Nat /\ Len(domains) \in Nat
  BY InputTypes DEF Types, CursorInv
<1> QED
  BY <1>1, InputTypes

LEMMA SetupMasterIs ==
  ASSUME SetupMaster
  PROVE  /\ \E granted \in BOOLEAN :
              masters' = GetMaster(calls[n].master, NoTid, granted)
         /\ CallDone /\ shown' = Append(shown, 0)
         /\ pc = "blocks" /\ n <= Len(calls)
         /\ ~calls[n].input /\ ~calls[n].output
         /\ calls' = calls /\ slaves' = slaves
         /\ failed' = failed /\ domains' = domains
         /\ rxDomain' = rxDomain /\ txDomain' = txDomain
BY DEF SetupMaster, CallDone, Failed, NextCall, inputs

(* The domain that call n gets, and the domains that it leaves.            *)
CallDomain ==
  DomainFor(calls[n].master, calls[n].domain, Rate[calls[n].tid],
            calls[n].input, calls[n].output)
CallDomains(created) ==
  GetDomain(calls[n].master, calls[n].domain, Rate[calls[n].tid],
            calls[n].input, calls[n].output, created)

LEMMA GetDomainPtrIs ==
  ASSUME GetDomainPtr, failed \in BOOLEAN
  PROVE  /\ \E granted, created \in BOOLEAN :
              /\ masters' = GetMaster(calls[n].master, Rate[calls[n].tid],
                                      granted)
              /\ \/ CallDone /\ shown' = Append(shown, 0) /\ domains' = domains
                 \/ pc' = "crashed" /\ n' = n /\ shown' = shown
                      /\ domains' = domains
                 \/ /\ CallDone /\ domains' = CallDomains(created)
                    /\ shown' = Append(shown,
                                       IF domains'[CallDomain].handle
                                       THEN CallDomain ELSE 0)
         /\ failed' \in BOOLEAN
         /\ pc = "blocks" /\ n <= Len(calls)
         /\ calls[n].input \/ calls[n].output
         /\ calls' = calls /\ slaves' = slaves
         /\ rxDomain' = rxDomain /\ txDomain' = txDomain
<1> DEFINE c == calls[n]
           rate == Rate[c.tid]
           d == DomainFor(c.master, c.domain, rate, c.input, c.output)
           AfterCall(null) ==
             IF c.last /\ (failed \/ null) THEN Failed /\ UNCHANGED failed
                                           ELSE NextCall /\ failed' = null
<1>1. PICK granted \in BOOLEAN, created \in BOOLEAN :
        /\ masters' = GetMaster(c.master, rate, granted)
        /\ \/ /\ MasterOf(c.master) = {} /\ ~granted
              /\ AfterCall(TRUE)
              /\ shown' = Append(shown, 0)
              /\ UNCHANGED domains
           \/ /\ Dangling(c.master) /\ d > Len(domains)
              /\ pc' = "crashed"
              /\ UNCHANGED <<n, failed, shown, domains>>
           \/ /\ (IF MasterOf(c.master) = {} THEN granted
                    ELSE ~Dangling(c.master) \/ d <= Len(domains))
              /\ domains' = GetDomain(c.master, c.domain, rate,
                                      c.input, c.output, created)
              /\ AfterCall(~domains'[d].handle)
              /\ shown' = Append(shown, IF domains'[d].handle THEN d ELSE 0)
  BY DEF GetDomainPtr
<1>2. ASSUME NEW null \in BOOLEAN, AfterCall(null)
      PROVE  CallDone /\ failed' \in BOOLEAN
  BY <1>2 DEF CallDone, Failed, NextCall, GetDomainPtr
<1>3. /\ pc = "blocks" /\ n <= Len(calls)
      /\ calls[n].input \/ calls[n].output
      /\ calls' = calls /\ slaves' = slaves
      /\ rxDomain' = rxDomain /\ txDomain' = txDomain
  BY DEF GetDomainPtr, inputs
<1>4. failed' \in BOOLEAN /\
        (\/ CallDone /\ shown' = Append(shown, 0) /\ domains' = domains
         \/ pc' = "crashed" /\ n' = n /\ shown' = shown /\ domains' = domains
         \/ /\ CallDone
            /\ domains' = GetDomain(c.master, c.domain, rate,
                                    c.input, c.output, created)
            /\ shown' = Append(shown, IF domains'[d].handle THEN d ELSE 0))
  <2> HIDE DEF AfterCall, c, rate, d
  <2>1. CASE AfterCall(TRUE) /\ shown' = Append(shown, 0) /\ UNCHANGED domains
    BY <2>1, <1>2
  <2>2. CASE pc' = "crashed" /\ UNCHANGED <<n, failed, shown, domains>>
    BY <2>2
  <2>3. CASE /\ domains' = GetDomain(c.master, c.domain, rate,
                                     c.input, c.output, created)
             /\ AfterCall(~domains'[d].handle)
             /\ shown' = Append(shown, IF domains'[d].handle THEN d ELSE 0)
    BY <2>3, <1>2
  <2> QED
    BY <1>1, <2>1, <2>2, <2>3
<1> QED
  BY <1>1, <1>3, <1>4 DEF CallDomain, CallDomains

LEMMA SetupMasterType ==
  ASSUME Types, CursorInv, SetupMaster
  PROVE  Types' /\ CursorInv'
<1>1. pc = "blocks" /\ n <= Len(calls)
  BY SetupMasterIs
<1>2. masters' \in Seq(MasterRec)
        /\ \A x : ListedIn(masters, x) => ListedIn(masters', x)
  BY <1>1, SetupMasterIs, CurrentCall, MastersListed, MasterIsListed DEF Types
<1>3. shown' \in Seq(0 .. Len(domains)) /\ Len(shown') = Len(shown) + 1
  <2>1. /\ shown \in Seq(0 .. Len(domains)) /\ shown' = Append(shown, 0)
        /\ Len(domains) \in Nat /\ 0 \in 0 .. Len(domains)
    BY <1>1, CurrentCall, SetupMasterIs DEF Types
  <2> QED
    BY <2>1, ShownGrows
<1>4. /\ CallDone /\ calls' = calls /\ slaves' = slaves
      /\ failed' = failed /\ domains' = domains
      /\ rxDomain' = rxDomain /\ txDomain' = txDomain
  BY SetupMasterIs
<1>5. n \in Nat /\ Len(slaves) \in Nat /\ n = Len(shown) + 1
  BY <1>1, CurrentCall
<1>6. Types'
  <2>1. \A d \in 1 .. Len(domains) : ListedIn(masters', domains[d].master)
    BY <1>2 DEF Types
  <2>2. pc' # "convert" /\ n' \in Nat \ {0}
    BY <1>4, <1>5 DEF CallDone, Types
  <2> QED
    BY <1>2, <1>3, <1>4, <2>1, <2>2 DEF Types, CallDone
<1>7. CursorInv'
  BY <1>1, <1>3, <1>4, <1>5 DEF CursorInv, CallDone, Configuring
<1> QED
  BY <1>6, <1>7

(* A domain belongs to a master that is listed, or to the one asked for.   *)
LEMMA GetsOwned ==
  ASSUME NEW id, NEW domain, NEW rate, NEW input, NEW output, NEW d, NEW new,
         NEW ins, NEW outs,
         Gets(new, d, id, domain, rate, input, output, ins, outs)
  PROVE  /\ new \in Seq(DomainRec) /\ Len(new) \in Nat
         /\ Len(domains) <= Len(new) /\ Len(domains) \in Nat
         /\ d \in 1 .. Len(new)
         /\ \A e \in 1 .. Len(new) :
              \/ new[e].master = id
              \/ e \in 1 .. Len(domains) /\ new[e].master = domains[e].master
<1>1. /\ new \in Seq(DomainRec) /\ Len(new) \in Nat /\ d \in 1 .. Len(new)
      /\ Len(domains) <= Len(new) /\ Len(domains) \in Nat
  BY DEF Gets, Finds
<1>2. ASSUME NEW e \in 1 .. Len(new)
      PROVE  \/ new[e].master = id
             \/ e \in 1 .. Len(domains) /\ new[e].master = domains[e].master
  <2>1. CASE e # d
    BY <2>1, <1>1 DEF Gets, Finds
  <2>2. CASE e = d
    BY <2>2, <1>1 DEF Gets, Finds, DomainRec
  <2> QED
    BY <2>1, <2>2
<1> QED
  BY <1>1, <1>2

LEMMA CallGets ==
  ASSUME Types, CursorInv, pc = "blocks", n <= Len(calls),
         NEW created \in BOOLEAN
  PROVE  Gets(CallDomains(created), CallDomain, calls[n].master,
              calls[n].domain, Rate[calls[n].tid],
              calls[n].input, calls[n].output, 0, 0)
<1>1. /\ calls[n].master \in Master /\ calls[n].domain \in Domain
      /\ Rate[calls[n].tid] \in Nat
      /\ calls[n].input \in BOOLEAN /\ calls[n].output \in BOOLEAN
      /\ domains \in Seq(DomainRec)
  BY CurrentCall DEF Types
<1> QED
  BY <1>1, GetDomainIs DEF CallDomains, CallDomain

LEMMA GetDomainPtrType ==
  ASSUME Types, CursorInv, GetDomainPtr
  PROVE  Types' /\ CursorInv'
<1>1. pc = "blocks" /\ n <= Len(calls)
  BY GetDomainPtrIs DEF Types
<1>2. /\ failed' \in BOOLEAN /\ calls' = calls /\ slaves' = slaves
      /\ rxDomain' = rxDomain /\ txDomain' = txDomain
  BY GetDomainPtrIs DEF Types
<1>3. PICK granted \in BOOLEAN, created \in BOOLEAN :
        /\ masters' = GetMaster(calls[n].master, Rate[calls[n].tid], granted)
        /\ \/ CallDone /\ shown' = Append(shown, 0) /\ domains' = domains
           \/ pc' = "crashed" /\ n' = n /\ shown' = shown /\ domains' = domains
           \/ /\ CallDone /\ domains' = CallDomains(created)
              /\ shown' = Append(shown, IF domains'[CallDomain].handle
                                        THEN CallDomain ELSE 0)
  BY GetDomainPtrIs DEF Types
<1>4. /\ n \in 1 .. Len(calls) /\ n = Len(shown) + 1
      /\ n \in Nat /\ Len(shown) \in Nat /\ Len(domains) \in Nat
      /\ Len(calls) \in Nat /\ Len(slaves) \in Nat
      /\ calls[n].master \in Master /\ calls[n].domain \in Domain
      /\ Rate[calls[n].tid] \in Nat
      /\ calls[n].input \in BOOLEAN /\ calls[n].output \in BOOLEAN
  BY <1>1, CurrentCall
<1>5. /\ masters' \in Seq(MasterRec) /\ ListedIn(masters', calls[n].master)
      /\ \A x : ListedIn(masters, x) => ListedIn(masters', x)
  BY <1>3, <1>4, MastersListed, MasterIsListed DEF Types
<1>6. /\ domains' \in Seq(DomainRec) /\ Len(domains') \in Nat
      /\ Len(domains) <= Len(domains')
      /\ \A e \in 1 .. Len(domains') :
           \/ domains'[e].master = calls[n].master
           \/ /\ e \in 1 .. Len(domains)
              /\ domains'[e].master = domains[e].master
  <2>1. CASE domains' = domains
    BY <2>1, <1>4 DEF Types
  <2>2. CASE domains' = CallDomains(created)
    BY <2>2, <1>1, CallGets, GetsOwned
  <2> QED
    BY <2>1, <2>2, <1>3
<1>7. \A d \in 1 .. Len(domains') : ListedIn(masters', domains'[d].master)
  BY <1>4, <1>5, <1>6 DEF Types
<1>8. \/ CallDone /\ Len(shown') = Len(shown) + 1
                  /\ shown' \in Seq(0 .. Len(domains'))
      \/ pc' = "crashed" /\ n' = n /\ shown' = shown
           /\ shown \in Seq(0 .. Len(domains'))
  <2> DEFINE Grown(d) == /\ d \in 0 .. Len(domains')
                         /\ shown' = Append(shown, d)
  <2>1. shown \in Seq(0 .. Len(domains))
    BY DEF Types
  <2>2. shown \in Seq(0 .. Len(domains'))
    BY <1>4, <1>6, <2>1, ShownGrows, SeqMonotonic
  <2>3. ASSUME NEW d, Grown(d)
        PROVE  Len(shown') = Len(shown) + 1 /\ shown' \in Seq(0 .. Len(domains'))
    BY <1>4, <1>6, <2>1, <2>3, ShownGrows
  <2>4. CASE CallDone /\ shown' = Append(shown, 0) /\ domains' = domains
    BY <2>4, <2>3, <1>6
  <2>5. CASE pc' = "crashed" /\ n' = n /\ shown' = shown /\ domains' = domains
    BY <2>5, <2>2
  <2>6. CASE /\ CallDone /\ domains' = CallDomains(created)
             /\ shown' = Append(shown, IF domains'[CallDomain].handle
                                       THEN CallDomain ELSE 0)
    <3>1. CallDomain \in 1 .. Len(domains')
      BY <2>6, <1>1, CallGets, GetsOwned
    <3>2. Grown(IF domains'[CallDomain].handle THEN CallDomain ELSE 0)
      BY <2>6, <3>1, <1>6
    <3> HIDE DEF Grown
    <3> QED
      BY <2>6, <3>2, <2>3
  <2> QED
    BY <1>3, <2>4, <2>5, <2>6
<1>9. Types'
  <2>1. pc' \in {"failed", "slaves", "blocks", "crashed"} /\ n' \in Nat \ {0}
    BY <1>4, <1>8 DEF CallDone, Types
  <2>2. \A s \in 1 .. Len(slaves') :
          /\ rxDomain'[s] \in 0 .. Len(domains')
          /\ txDomain'[s] \in 0 .. Len(domains')
    BY <1>2, <1>6, <1>4 DEF Types
  <2> QED
    BY <1>2, <1>5, <1>6, <1>7, <1>8, <2>1, <2>2 DEF Types
<1>10. CursorInv'
  <2>1. /\ rxDomain' \in [1 .. Len(slaves') -> 0 .. Len(domains')]
        /\ txDomain' \in [1 .. Len(slaves') -> 0 .. Len(domains')]
    BY <1>2, <1>4, <1>6 DEF CursorInv
  <2> QED
    BY <1>1, <1>2, <1>4, <1>8, <2>1 DEF CursorInv, CallDone, Configuring
<1> QED
  BY <1>9, <1>10

LEMMA GetsMore ==
  ASSUME NEW id, NEW domain, NEW rate, NEW input, NEW output, NEW d, NEW found,
         Gets(found, d, id, domain, rate, input, output, 0, 0),
         NEW k \in Nat, NEW new
  PROVE  /\ new = [found EXCEPT ![d].outs = @ + k]
              => Gets(new, d, id, domain, rate, input, output, 0, k)
         /\ new = [found EXCEPT ![d].ins = @ + k]
              => Gets(new, d, id, domain, rate, input, output, k, 0)
<1> DEFINE o == [found[d] EXCEPT !.outs = @ + k]
           i == [found[d] EXCEPT !.ins = @ + k]
<1>1. found \in Seq(DomainRec) /\ d \in 1 .. Len(found) /\ Len(domains) \in Nat
        /\ found[d] \in DomainRec /\ Len(domains) <= Len(found)
        /\ Len(found) \in Nat
  BY GetsOwned, ElementOfSeq
<1>2. /\ found[d].outs \in Nat /\ found[d].outs = HadOuts(d)
      /\ found[d].ins \in Nat /\ found[d].ins = HadIns(d)
  BY DEF Gets
<1>3. DOMAIN found[d] = {"master", "id", "rate", "input", "output", "handle",
                         "ins", "outs"}
  BY <1>1 DEF DomainRec
<1>4. /\ o.outs = found[d].outs + k /\ o.ins = found[d].ins
      /\ o.master = found[d].master /\ o.id = found[d].id
      /\ o.rate = found[d].rate /\ o.input = found[d].input
      /\ o.output = found[d].output /\ o.handle = found[d].handle
  BY <1>3
<1>5. /\ i.ins = found[d].ins + k /\ i.outs = found[d].outs
      /\ i.master = found[d].master /\ i.id = found[d].id
      /\ i.rate = found[d].rate /\ i.input = found[d].input
      /\ i.output = found[d].output /\ i.handle = found[d].handle
  BY <1>3
<1>6. \A x \in Nat : /\ [found[d] EXCEPT !.outs = x] \in DomainRec
                     /\ [found[d] EXCEPT !.ins = x] \in DomainRec
  BY <1>1 DEF DomainRec
<1>7. o \in DomainRec /\ i \in DomainRec
  <2>1. found[d].outs + k \in Nat /\ found[d].ins + k \in Nat
    BY <1>2
  <2> HIDE DEF o, i
  <2>2. \A x \in Nat : x = found[d].outs + k => o \in DomainRec
    BY <1>6 DEF o
  <2>3. \A x \in Nat : x = found[d].ins + k => i \in DomainRec
    BY <1>6 DEF i
  <2> QED
    BY <2>1, <2>2, <2>3
<1>8. /\ [found EXCEPT ![d].outs = @ + k] = [found EXCEPT ![d] = o]
      /\ [found EXCEPT ![d].ins = @ + k] = [found EXCEPT ![d] = i]
  OBVIOUS
<1> HIDE DEF o, i
<1>9. ASSUME NEW r \in DomainRec, new = [found EXCEPT ![d] = r],
             r.master = found[d].master, r.id = found[d].id,
             r.rate = found[d].rate, r.input = found[d].input,
             r.output = found[d].output, r.handle = found[d].handle
      PROVE  Finds(new, d, id, domain, rate, input, output) /\ new[d] = r
  <2>1. /\ new \in Seq(DomainRec) /\ Len(new) = Len(found)
        /\ \A e \in 1 .. Len(found) : new[e] = IF e = d THEN r ELSE found[e]
    BY <1>1, <1>9, ExceptSeq
  <2>2. \A e \in 1 .. Len(domains) : e \in 1 .. Len(found)
    BY <1>1
  <2>3. Finds(found, d, id, domain, rate, input, output)
    BY DEF Gets
  <2>4. new[d] = r
    BY <1>1, <2>1
  <2> QED
    BY <1>9, <2>1, <2>2, <2>3, <2>4 DEF Finds
<1>10. ASSUME new = [found EXCEPT ![d] = o]
       PROVE  Gets(new, d, id, domain, rate, input, output, 0, k)
  <2>1. Finds(new, d, id, domain, rate, input, output) /\ new[d] = o
    BY <1>4, <1>7, <1>9, <1>10
  <2> QED
    BY <1>2, <1>4, <2>1 DEF Gets
<1>11. ASSUME new = [found EXCEPT ![d] = i]
       PROVE  Gets(new, d, id, domain, rate, input, output, k, 0)
  <2>1. Finds(new, d, id, domain, rate, input, output) /\ new[d] = i
    BY <1>5, <1>7, <1>9, <1>11
  <2> QED
    BY <1>2, <1>5, <2>1 DEF Gets
<1> QED
  BY <1>8, <1>10, <1>11

(* The domains that the PDOs of slave n are registered with.               *)
RxDomain(new, k) ==
  \E d : /\ Gets(new, d, slaves[n].master, slaves[n].domain,
                 Rate[slaves[n].tid], FALSE, TRUE, 0, k)
         /\ rxDomain' = IF k = 0 THEN rxDomain ELSE [rxDomain EXCEPT ![n] = d]
TxDomain(new, k) ==
  \E d : /\ Gets(new, d, slaves[n].master, slaves[n].domain,
                 Rate[slaves[n].tid], TRUE, FALSE, k, 0)
         /\ txDomain' = IF k = 0 THEN txDomain ELSE [txDomain EXCEPT ![n] = d]

LEMMA CurrentSlave ==
  ASSUME Types, CursorInv, pc \in Configuring, n <= Len(slaves)
  PROVE  /\ n \in 1 .. Len(slaves) /\ n \in Nat /\ Len(slaves) \in Nat
         /\ Len(domains) \in Nat /\ Len(calls) \in Nat
         /\ slaves[n].master \in Master /\ slaves[n].domain \in Domain
         /\ slaves[n].tid \in Tid /\ Rate[slaves[n].tid] \in Nat
         /\ slaves[n].rxpdo \in Nat /\ slaves[n].txpdo \in Nat
<1>1. n \in 1 .. Len(slaves) /\ n \in Nat /\ Len(domains) \in Nat
  BY InputTypes DEF Types, CursorInv
<1> QED
  BY <1>1, InputTypes

LEMMA RegisterRxPdosIs ==
  ASSUME Types, CursorInv, RegisterRxPdos
  PROVE  /\ pc = "rxpdo" /\ n <= Len(slaves)
         /\ calls' = calls /\ slaves' = slaves /\ n' = n /\ failed' = failed
         /\ masters' = masters /\ shown' = shown /\ txDomain' = txDomain
         /\ \/ /\ slaves[n].rxpdo = 0 /\ pc' = "txpdo"
               /\ domains' = domains /\ rxDomain' = rxDomain
            \/ /\ pc' = "txpdo" /\ slaves[n].rxpdo > 0
               /\ RxDomain(domains', slaves[n].rxpdo)
            \/ pc' = "failed" /\ \E k \in Nat : RxDomain(domains', k)
<1> DEFINE s == slaves[n]
           d == DomainFor(s.master, s.domain, Rate[s.tid], FALSE, TRUE)
           Found(made) == GetDomain(s.master, s.domain, Rate[s.tid],
                                    FALSE, TRUE, made)
<1>1. /\ pc = "rxpdo" /\ n <= Len(slaves) /\ pc \in Configuring
      /\ calls' = calls /\ slaves' = slaves /\ n' = n /\ failed' = failed
      /\ masters' = masters /\ shown' = shown /\ txDomain' = txDomain
  BY DEF RegisterRxPdos, CursorInv, inputs, Configuring
<1>2. /\ s.master \in Master /\ s.domain \in Domain /\ Rate[s.tid] \in Nat
      /\ s.rxpdo \in Nat /\ domains \in Seq(DomainRec)
  BY <1>1, CurrentSlave DEF Types
<1>3. \A made \in BOOLEAN :
        Gets(Found(made), d, s.master, s.domain, Rate[s.tid],
             FALSE, TRUE, 0, 0)
  BY <1>2, GetDomainIs
<1>4. \/ s.rxpdo = 0 /\ pc' = "txpdo" /\ UNCHANGED <<domains, rxDomain>>
      \/ /\ s.rxpdo > 0
         /\ \E k \in 1 .. s.rxpdo :
              /\ domains' = [Found(TRUE) EXCEPT ![d].outs = @ + k]
              /\ pc' = "failed" \/ (pc' = "txpdo" /\ k = s.rxpdo)
         /\ rxDomain' = [rxDomain EXCEPT ![n] = d]
      \/ /\ domains' = Found(FALSE)
         /\ pc' = "failed" /\ UNCHANGED rxDomain
  BY DEF RegisterRxPdos
<1> HIDE DEF s, d, Found
<1>5. ASSUME NEW k \in 1 .. s.rxpdo,
             domains' = [Found(TRUE) EXCEPT ![d].outs = @ + k],
             rxDomain' = [rxDomain EXCEPT ![n] = d]
      PROVE  RxDomain(domains', k)
  <2>1. k \in Nat /\ k # 0
    BY <1>2
  <2>2. Gets(Found(TRUE), d, s.master, s.domain, Rate[s.tid], FALSE, TRUE, 0, 0)
    BY <1>3
  <2>3. Gets(domains', d, s.master, s.domain, Rate[s.tid], FALSE, TRUE, 0, k)
    BY <1>5, <2>1, <2>2, GetsMore
  <2> QED
    BY <1>5, <2>1, <2>3 DEF RxDomain, s
<1>6. ASSUME domains' = Found(FALSE), UNCHANGED rxDomain
      PROVE  RxDomain(domains', 0)
  BY <1>3, <1>6 DEF RxDomain, s
<1>7. \A k \in 1 .. s.rxpdo : k \in Nat
  BY <1>2
<1>8. \/ s.rxpdo = 0 /\ pc' = "txpdo" /\ UNCHANGED <<domains, rxDomain>>
      \/ pc' = "txpdo" /\ s.rxpdo > 0 /\ RxDomain(domains', s.rxpdo)
      \/ pc' = "failed" /\ \E k \in Nat : RxDomain(domains', k)
  BY <1>4, <1>5, <1>6, <1>7
<1> QED
  BY <1>1, <1>8 DEF s

LEMMA RegisterTxPdosIs ==
  ASSUME Types, CursorInv, RegisterTxPdos
  PROVE  /\ pc = "txpdo" /\ n <= Len(slaves)
         /\ calls' = calls /\ slaves' = slaves /\ failed' = failed
         /\ masters' = masters /\ shown' = shown /\ rxDomain' = rxDomain
         /\ \/ /\ slaves[n].txpdo = 0 /\ pc' = "slaves" /\ n' = n + 1
               /\ domains' = domains /\ txDomain' = txDomain
            \/ /\ pc' = "slaves" /\ n' = n + 1 /\ slaves[n].txpdo > 0
               /\ TxDomain(domains', slaves[n].txpdo)
            \/ pc' = "failed" /\ n' = n /\ \E k \in Nat : TxDomain(domains', k)
<1> DEFINE s == slaves[n]
           d == DomainFor(s.master, s.domain, Rate[s.tid], TRUE, FALSE)
           Found(made) == GetDomain(s.master, s.domain, Rate[s.tid],
                                    TRUE, FALSE, made)
<1>1. /\ pc = "txpdo" /\ n <= Len(slaves) /\ pc \in Configuring
      /\ calls' = calls /\ slaves' = slaves /\ failed' = failed
      /\ masters' = masters /\ shown' = shown /\ rxDomain' = rxDomain
  BY DEF RegisterTxPdos, CursorInv, inputs, Configuring
<1>2. /\ s.master \in Master /\ s.domain \in Domain /\ Rate[s.tid] \in Nat
      /\ s.txpdo \in Nat /\ domains \in Seq(DomainRec)
  BY <1>1, CurrentSlave DEF Types
<1>3. \A made \in BOOLEAN :
        Gets(Found(made), d, s.master, s.domain, Rate[s.tid],
             TRUE, FALSE, 0, 0)
  BY <1>2, GetDomainIs
<1>4. \/ /\ s.txpdo = 0 /\ pc' = "slaves" /\ n' = n + 1
         /\ UNCHANGED <<domains, txDomain>>
      \/ /\ s.txpdo > 0
         /\ \E k \in 1 .. s.txpdo :
              /\ domains' = [Found(TRUE) EXCEPT ![d].ins = @ + k]
              /\ \/ pc' = "failed" /\ n' = n
                 \/ pc' = "slaves" /\ n' = n + 1 /\ k = s.txpdo
         /\ txDomain' = [txDomain EXCEPT ![n] = d]
      \/ /\ domains' = Found(FALSE)
         /\ pc' = "failed" /\ n' = n /\ UNCHANGED txDomain
  BY DEF RegisterTxPdos, Failed
<1> HIDE DEF s, d, Found
<1>5. ASSUME NEW k \in 1 .. s.txpdo,
             domains' = [Found(TRUE) EXCEPT ![d].ins = @ + k],
             txDomain' = [txDomain EXCEPT ![n] = d]
      PROVE  TxDomain(domains', k)
  <2>1. k \in Nat /\ k # 0
    BY <1>2
  <2>2. Gets(Found(TRUE), d, s.master, s.domain, Rate[s.tid], TRUE, FALSE, 0, 0)
    BY <1>3
  <2>3. Gets(domains', d, s.master, s.domain, Rate[s.tid], TRUE, FALSE, k, 0)
    BY <1>5, <2>1, <2>2, GetsMore
  <2> QED
    BY <1>5, <2>1, <2>3 DEF TxDomain, s
<1>6. ASSUME domains' = Found(FALSE), UNCHANGED txDomain
      PROVE  TxDomain(domains', 0)
  BY <1>3, <1>6 DEF TxDomain, s
<1>7. \A k \in 1 .. s.txpdo : k \in Nat
  BY <1>2
<1>8. \/ /\ s.txpdo = 0 /\ pc' = "slaves" /\ n' = n + 1
         /\ UNCHANGED <<domains, txDomain>>
      \/ /\ pc' = "slaves" /\ n' = n + 1 /\ s.txpdo > 0
         /\ TxDomain(domains', s.txpdo)
      \/ pc' = "failed" /\ n' = n /\ \E k \in Nat : TxDomain(domains', k)
  BY <1>4, <1>5, <1>6, <1>7
<1> QED
  BY <1>1, <1>8 DEF s

(* The types when slave n gets a domain. *)
LEMMA SlaveGetsType ==
  ASSUME Types, CursorInv, FastestInv, pc \in {"rxpdo", "txpdo"},
         NEW domain, NEW rate, NEW input, NEW output, NEW ins, NEW outs, NEW d,
         Gets(domains', d, slaves[n].master, domain, rate, input, output,
              ins, outs),
         masters' = masters
  PROVE  /\ domains' \in Seq(DomainRec) /\ Len(domains') \in Nat
         /\ Len(domains) <= Len(domains') /\ d \in 1 .. Len(domains')
         /\ \A e \in 1 .. Len(domains') : ListedIn(masters', domains'[e].master)
<1>1. ListedIn(masters, slaves[n].master)
  <2>1. pc \in Configuring /\ n <= Len(slaves) /\ Lives
    BY DEF CursorInv, Configuring, Lives
  <2>2. n \in 1 .. InitDone
    BY <2>1, CurrentSlave DEF InitDone
  <2> QED
    BY <2>1, <2>2, MasterOfListed DEF FastestInv
<1>2. /\ domains' \in Seq(DomainRec) /\ Len(domains') \in Nat
      /\ Len(domains) <= Len(domains') /\ d \in 1 .. Len(domains')
      /\ \A e \in 1 .. Len(domains') :
           \/ domains'[e].master = slaves[n].master
           \/ e \in 1 .. Len(domains) /\ domains'[e].master = domains[e].master
  BY GetsOwned
<1>3. \A e \in 1 .. Len(domains') : ListedIn(masters', domains'[e].master)
  BY <1>1, <1>2 DEF Types
<1> QED
  BY <1>2, <1>3

LEMMA RegisterRxPdosType ==
  ASSUME Types, CursorInv, FastestInv, RegisterRxPdos
  PROVE  Types' /\ CursorInv'
<1>1. /\ pc = "rxpdo" /\ n <= Len(slaves)
      /\ calls' = calls /\ slaves' = slaves /\ n' = n /\ failed' = failed
      /\ masters' = masters /\ shown' = shown /\ txDomain' = txDomain
  BY RegisterRxPdosIs
<1>2. pc' \in {"txpdo", "failed"}
  BY RegisterRxPdosIs
<1>3. n \in 1 .. Len(slaves) /\ Len(domains) \in Nat
  BY <1>1, CurrentSlave DEF Configuring
<1> DEFINE Good ==
      /\ domains' \in Seq(DomainRec) /\ Len(domains) <= Len(domains')
      /\ Len(domains') \in Nat
      /\ \A e \in 1 .. Len(domains') : ListedIn(masters', domains'[e].master)
      /\ rxDomain' \in [1 .. Len(slaves) -> 0 .. Len(domains')]
<1>4. Good
  <2>1. CASE domains' = domains /\ rxDomain' = rxDomain
    BY <2>1, <1>1, <1>3 DEF Types, CursorInv
  <2>2. ASSUME NEW k \in Nat, RxDomain(domains', k)
        PROVE  Good
    <3>1. PICK d : /\ Gets(domains', d, slaves[n].master, slaves[n].domain,
                           Rate[slaves[n].tid], FALSE, TRUE, 0, k)
                   /\ rxDomain' = IF k = 0 THEN rxDomain
                                  ELSE [rxDomain EXCEPT ![n] = d]
      BY <2>2 DEF RxDomain
    <3>2. /\ domains' \in Seq(DomainRec) /\ Len(domains') \in Nat
          /\ Len(domains) <= Len(domains') /\ d \in 1 .. Len(domains')
          /\ \A e \in 1 .. Len(domains') :
               ListedIn(masters', domains'[e].master)
      BY <1>1, <3>1, SlaveGetsType
    <3>3. rxDomain' \in [1 .. Len(slaves) -> 0 .. Len(domains')]
      BY <1>3, <3>1, <3>2 DEF CursorInv
    <3> QED
      BY <3>2, <3>3
  <2>3. slaves[n].rxpdo \in Nat
    BY <1>1, CurrentSlave DEF Configuring
  <2> HIDE DEF Good
  <2> QED
    BY <2>1, <2>2, <2>3, RegisterRxPdosIs
<1>5. txDomain' \in [1 .. Len(slaves) -> 0 .. Len(domains')]
  BY <1>1, <1>3, <1>4 DEF CursorInv
<1>6. shown' \in Seq(0 .. Len(domains'))
  <2>1. shown \in Seq(0 .. Len(domains))
    BY DEF Types
  <2>2. 0 .. Len(domains) \subseteq 0 .. Len(domains')
    BY <1>3, <1>4
  <2> QED
    BY <1>1, <2>1, <2>2, SeqMonotonic
<1>7. Types'
  BY <1>1, <1>2, <1>4, <1>5, <1>6 DEF Types
<1>8. CursorInv'
  BY <1>1, <1>2, <1>4, <1>5 DEF CursorInv, Configuring
<1> QED
  BY <1>7, <1>8

LEMMA RegisterTxPdosType ==
  ASSUME Types, CursorInv, FastestInv, RegisterTxPdos
  PROVE  Types' /\ CursorInv'
<1>1. /\ pc = "txpdo" /\ n <= Len(slaves)
      /\ calls' = calls /\ slaves' = slaves /\ failed' = failed
      /\ masters' = masters /\ shown' = shown /\ rxDomain' = rxDomain
  BY RegisterTxPdosIs
<1>2. \/ pc' = "slaves" /\ n' = n + 1
      \/ pc' = "failed" /\ n' = n
  BY RegisterTxPdosIs
<1>3. n \in 1 .. Len(slaves) /\ Len(domains) \in Nat
  BY <1>1, CurrentSlave DEF Configuring
<1> DEFINE Good ==
      /\ domains' \in Seq(DomainRec) /\ Len(domains) <= Len(domains')
      /\ Len(domains') \in Nat
      /\ \A e \in 1 .. Len(domains') : ListedIn(masters', domains'[e].master)
      /\ txDomain' \in [1 .. Len(slaves) -> 0 .. Len(domains')]
<1>4. Good
  <2>1. CASE domains' = domains /\ txDomain' = txDomain
    BY <2>1, <1>1, <1>3 DEF Types, CursorInv
  <2>2. ASSUME NEW k \in Nat, TxDomain(domains', k)
        PROVE  Good
    <3>1. PICK d : /\ Gets(domains', d, slaves[n].master, slaves[n].domain,
                           Rate[slaves[n].tid], TRUE, FALSE, k, 0)
                   /\ txDomain' = IF k = 0 THEN txDomain
                                  ELSE [txDomain EXCEPT ![n] = d]
      BY <2>2 DEF TxDomain
    <3>2. /\ domains' \in Seq(DomainRec) /\ Len(domains') \in Nat
          /\ Len(domains) <= Len(domains') /\ d \in 1 .. Len(domains')
          /\ \A e \in 1 .. Len(domains') :
               ListedIn(masters', domains'[e].master)
      BY <1>1, <3>1, SlaveGetsType
    <3>3. txDomain' \in [1 .. Len(slaves) -> 0 .. Len(domains')]
      BY <1>3, <3>1, <3>2 DEF CursorInv
    <3> QED
      BY <3>2, <3>3
  <2>3. slaves[n].txpdo \in Nat
    BY <1>1, CurrentSlave DEF Configuring
  <2> HIDE DEF Good
  <2> QED
    BY <2>1, <2>2, <2>3, RegisterTxPdosIs
<1>5. rxDomain' \in [1 .. Len(slaves) -> 0 .. Len(domains')]
  BY <1>1, <1>3, <1>4 DEF CursorInv
<1>6. shown' \in Seq(0 .. Len(domains'))
  <2>1. shown \in Seq(0 .. Len(domains))
    BY DEF Types
  <2>2. 0 .. Len(domains) \subseteq 0 .. Len(domains')
    BY <1>3, <1>4
  <2> QED
    BY <1>1, <2>1, <2>2, SeqMonotonic
<1>7. Types'
  BY <1>1, <1>2, <1>3, <1>4, <1>5, <1>6 DEF Types
<1>8. CursorInv'
  BY <1>1, <1>2, <1>3, <1>4, <1>5 DEF CursorInv, Configuring
<1> QED
  BY <1>7, <1>8

LEMMA InitSlaveIs ==
  ASSUME InitSlave
  PROVE  /\ pc = "slaves" /\ n <= Len(slaves)
         /\ \E granted \in BOOLEAN :
              masters' = GetMaster(slaves[n].master, Rate[slaves[n].tid],
                                   granted)
         /\ pc' \in {"failed", "rxpdo"}
         /\ calls' = calls /\ slaves' = slaves /\ n' = n /\ failed' = failed
         /\ domains' = domains /\ shown' = shown
         /\ rxDomain' = rxDomain /\ txDomain' = txDomain
BY DEF InitSlave, inputs

LEMMA InitSlaveType ==
  ASSUME Types, CursorInv, InitSlave
  PROVE  Types' /\ CursorInv'
<1>1. /\ pc = "slaves" /\ n <= Len(slaves)
      /\ pc' \in {"failed", "rxpdo"}
      /\ calls' = calls /\ slaves' = slaves /\ n' = n /\ failed' = failed
      /\ domains' = domains /\ shown' = shown
      /\ rxDomain' = rxDomain /\ txDomain' = txDomain
  BY InitSlaveIs
<1>2. slaves[n].master \in Master /\ Rate[slaves[n].tid] \in Nat
        /\ Len(slaves) \in Nat
  BY <1>1, CurrentSlave DEF Configuring
<1>3. masters' \in Seq(MasterRec)
        /\ \A x : ListedIn(masters, x) => ListedIn(masters', x)
  BY <1>2, InitSlaveIs, MastersListed, MasterIsListed DEF Types
<1>4. Types'
  BY <1>1, <1>3 DEF Types
<1>5. CursorInv'
  BY <1>1, <1>2 DEF CursorInv, Configuring
<1> QED
  BY <1>4, <1>5

LEMMA StartTrailerType ==
  ASSUME Types, CursorInv, StartTrailer
  PROVE  Types' /\ CursorInv'
<1>1. /\ pc = "blocks" /\ Len(calls) = 0 /\ pc' = "slaves"
      /\ calls' = calls /\ slaves' = slaves /\ n' = n /\ failed' = failed
      /\ masters' = masters /\ domains' = domains /\ shown' = shown
      /\ rxDomain' = rxDomain /\ txDomain' = txDomain
  BY DEF StartTrailer, inputs
<1>2. Len(shown) = 0 /\ n = 1 /\ Len(slaves) \in Nat
  BY <1>1, InputTypes DEF CursorInv, Types
<1>3. Types'
  BY <1>1 DEF Types
<1>4. CursorInv'
  BY <1>1, <1>2 DEF CursorInv, Configuring
<1> QED
  BY <1>3, <1>4

LEMMA ActivateType ==
  ASSUME Types, CursorInv, Activate
  PROVE  Types' /\ CursorInv'
<1>1. /\ pc = "slaves" /\ calls' = calls /\ slaves' = slaves
      /\ failed' = failed
      /\ masters' = masters /\ domains' = domains /\ shown' = shown
      /\ rxDomain' = rxDomain /\ txDomain' = txDomain
      /\ \/ pc' = "failed" /\ n' = n
         \/ /\ list' = [d \in 1 .. Len(domains) |-> EmptyList(domains[d])]
            /\ pc' = "convert" /\ n' = 1
  BY DEF Activate, inputs
<1>2. Len(domains) \in Nat /\ Len(slaves) \in Nat
  BY InputTypes DEF Types
<1>3. pc' = "convert" => Len(list') = Len(domains)
  BY <1>1, <1>2
<1>4. Types'
  BY <1>1, <1>3 DEF Types
<1>5. CursorInv'
  BY <1>1, <1>2 DEF CursorInv, Configuring
<1> QED
  BY <1>4, <1>5

LEMMA ConvertIs ==
  ASSUME Convert
  PROVE  /\ pc = "convert" /\ n <= Len(slaves) /\ pc' = pc /\ n' = n + 1
         /\ list' = FillTx(FillRx(list, n), n)
         /\ calls' = calls /\ slaves' = slaves
         /\ failed' = failed
         /\ masters' = masters /\ domains' = domains /\ shown' = shown
         /\ rxDomain' = rxDomain /\ txDomain' = txDomain
BY DEF Convert, inputs

(* Filling a list changes neither which lists there are, nor where they    *)
(* begin and end.                                                          *)
LEMMA FillKeepsLists ==
  ASSUME ListInv, Convert
  PROVE  DOMAIN list' = DOMAIN list
<1>1. \A lists, s : /\ DOMAIN FillRx(lists, s) = DOMAIN lists
                    /\ DOMAIN FillTx(lists, s) = DOMAIN lists
  BY DEF FillRx, FillTx
<1> QED
  BY <1>1, ConvertIs

LEMMA ConvertType ==
  ASSUME Types, CursorInv, ListInv, Convert
  PROVE  Types' /\ CursorInv'
<1>1. /\ pc = "convert" /\ n <= Len(slaves) /\ pc' = pc /\ n' = n + 1
      /\ calls' = calls /\ slaves' = slaves
      /\ failed' = failed
      /\ masters' = masters /\ domains' = domains /\ shown' = shown
      /\ rxDomain' = rxDomain /\ txDomain' = txDomain
  BY ConvertIs
<1>2. Len(list') = Len(domains)
  <2>1. DOMAIN list' = 1 .. Len(domains)
    BY <1>1, FillKeepsLists DEF ListInv
  <2> QED
    BY <2>1 DEF Types
<1>3. Types'
  BY <1>1, <1>2 DEF Types
<1>4. CursorInv'
  BY <1>1, InputTypes DEF CursorInv, Configuring
<1> QED
  BY <1>3, <1>4

LEMMA InitType == Init => Types /\ CursorInv
<1> SUFFICES ASSUME Init PROVE Types /\ CursorInv
  OBVIOUS
<1>1. calls \in Seq(Call) /\ slaves \in Seq(Slave)
  BY CallAssumption, SlaveAssumption DEF Init
<1>2. Len(calls) \in Nat /\ Len(slaves) \in Nat
  BY <1>1
<1>3. /\ masters = <<>> /\ domains = <<>> /\ shown = <<>> /\ n = 1
      /\ pc = "blocks" /\ failed = FALSE
      /\ rxDomain = [s \in 1 .. Len(slaves) |-> 0]
      /\ txDomain = [s \in 1 .. Len(slaves) |-> 0]
  BY DEF Init
<1>4. /\ masters \in Seq(MasterRec) /\ domains \in Seq(DomainRec)
      /\ shown \in Seq(0 .. Len(domains)) /\ Len(domains) = 0 /\ Len(shown) = 0
  BY <1>3, EmptySeq
<1>5. Types
  <2>1. /\ pc \in {"blocks", "slaves", "rxpdo", "txpdo", "convert", "failed",
                    "crashed"}
        /\ n \in Nat \ {0} /\ failed \in BOOLEAN /\ pc # "convert"
    <3>1. pc = "blocks" /\ n = 1 /\ failed = FALSE
      BY <1>3
    <3>2. n \in Nat \ {0}
      BY <3>1
    <3>3. failed \in BOOLEAN
      BY <3>1
    <3> QED
      BY <3>1, <3>2, <3>3
  <2>2. \A d \in 1 .. Len(domains) : FALSE
    BY <1>4
  <2>3. \A s \in 1 .. Len(slaves) : /\ rxDomain[s] \in 0 .. Len(domains)
                                    /\ txDomain[s] \in 0 .. Len(domains)
    BY <1>3, <1>4
  <2> QED
    BY <1>4, <2>1, <2>2, <2>3 DEF Types
<1>6. CursorInv
  BY <1>1, <1>2, <1>3, <1>4 DEF CursorInv, Configuring
<1> QED
  BY <1>5, <1>6

-----------------------------------------------------------------------------
(* The rates of the masters *)

(* Rate r is asked for by one of the first a calls or b slaves of master id*)
Claims(id, r, a, b) ==
  \/ \E c \in 1 .. a : Asks(c, id) /\ r = Rate[calls[c].tid]
  \/ \E s \in 1 .. b : slaves[s].master = id /\ r = Rate[slaves[s].tid]

Rated(ms, a, b) ==
  /\ \A c \in 1 .. a : ListedIn(ms, calls[c].master)
  /\ \A s \in 1 .. b : ListedIn(ms, slaves[s].master)
  /\ \A m \in 1 .. Len(ms) :
       /\ \A r : Claims(ms[m].id, r, a, b) => ms[m].fastest <= r
       /\ ms[m].fastest = NoTid \/ Claims(ms[m].id, ms[m].fastest, a, b)

LEMMA FastestIs ==
  /\ FastestInv <=> (Lives => Rated(masters, Len(shown), InitDone))
  /\ calls' = calls /\ slaves' = slaves =>
       (FastestInv' <=> (Lives' => Rated(masters', Len(shown'), InitDone')))
<1>1. FastestInv <=> (Lives => Rated(masters, Len(shown), InitDone))
  BY MasterOfListed DEF FastestInv, Rated, Claims
<1>2. ASSUME calls' = calls, slaves' = slaves
      PROVE  FastestInv' <=> (Lives' => Rated(masters', Len(shown'), InitDone'))
  <2>1. /\ (\A c \in 1 .. Len(shown) : MasterOf(calls[c].master) # {})'
             <=> \A c \in 1 .. Len(shown') : ListedIn(masters', calls[c].master)
        /\ (\A s \in 1 .. InitDone : MasterOf(slaves[s].master) # {})'
             <=> \A s \in 1 .. InitDone' : ListedIn(masters', slaves[s].master)
    BY <1>2 DEF MasterOf, ListedIn
  <2> QED
    BY <1>2, <2>1 DEF FastestInv, Rated, Claims, Asks
<1> QED
  BY <1>1, <1>2

(* get_master lists the master that is asked for and lowers its rate.      *)
LEMMA RatedGrows ==
  ASSUME masters \in Seq(MasterRec), NEW id \in Master, NEW rate \in Nat,
         NEW granted \in BOOLEAN, masters' = GetMaster(id, rate, granted),
         NEW a, NEW b, NEW i, NEW j, Rated(masters, a, b),
         \A x, r : Claims(x, r, a, b) => r \in Nat,
         \A c \in 1 .. i : c \in 1 .. a \/ calls[c].master = id,
         \A s \in 1 .. j : s \in 1 .. b \/ slaves[s].master = id,
         \A x, r : Claims(x, r, a, b) => Claims(x, r, i, j),
         \A x, r : Claims(x, r, i, j) =>
                     Claims(x, r, a, b) \/ (x = id /\ r = rate),
         rate = NoTid \/ Claims(id, rate, i, j)
  PROVE  Rated(masters', i, j)
<1>1. /\ \A c \in 1 .. i : ListedIn(masters', calls[c].master)
      /\ \A s \in 1 .. j : ListedIn(masters', slaves[s].master)
  BY MasterIsListed DEF Rated
<1>2. \A x, r : Claims(x, r, a, b) => ListedIn(masters, x)
  BY DEF Rated, Claims, Asks
<1>3. Len(masters) \in Nat /\ masters' \in Seq(MasterRec)
        /\ Len(masters') \in Nat
  BY MastersListed
<1>4. ASSUME NEW m \in 1 .. Len(masters)
      PROVE  /\ \A r : Claims(masters'[m].id, r, i, j) => masters'[m].fastest <= r
             /\ \/ masters'[m].fastest = NoTid
                \/ Claims(masters'[m].id, masters'[m].fastest, i, j)
  <2>1. /\ masters'[m].id = masters[m].id
        /\ masters'[m].fastest = IF masters[m].id = id
                                 THEN Lower(masters[m].fastest, rate)
                                 ELSE masters[m].fastest
    BY MastersListed
  <2>2. masters[m].fastest \in Nat
    <3>1. masters[m] \in MasterRec
      BY ElementOfSeq
    <3> QED
      BY <3>1 DEF MasterRec
  <2>3. /\ \A r : Claims(masters[m].id, r, a, b) => masters[m].fastest <= r
        /\ masters[m].fastest = NoTid
           \/ Claims(masters[m].id, masters[m].fastest, a, b)
    BY DEF Rated
  <2>4. masters'[m].fastest <= masters[m].fastest
    BY <2>1, <2>2 DEF Lower
  <2>5. masters[m].id = id => masters'[m].fastest <= rate
    BY <2>1, <2>2 DEF Lower
  <2>6. masters'[m].fastest \in Nat
    BY <2>1, <2>2 DEF Lower
  <2>7. ASSUME NEW r, Claims(masters[m].id, r, i, j)
        PROVE  masters'[m].fastest <= r
    <3>1. CASE Claims(masters[m].id, r, a, b)
      <4>1. r \in Nat /\ masters[m].fastest <= r
        BY <3>1, <2>3
      <4> QED
        BY <4>1, <2>2, <2>4, <2>6
    <3>2. CASE masters[m].id = id /\ r = rate
      BY <3>2, <2>5
    <3> QED
      BY <2>7, <3>1, <3>2
  <2>8. \/ masters'[m].fastest = masters[m].fastest
        \/ masters[m].id = id /\ masters'[m].fastest = rate
    BY <2>1 DEF Lower
  <2> QED
    BY <2>1, <2>3, <2>7, <2>8
<1>5. ASSUME NEW m \in 1 .. Len(masters'), m \notin 1 .. Len(masters)
      PROVE  /\ \A r : Claims(masters'[m].id, r, i, j) => masters'[m].fastest <= r
             /\ \/ masters'[m].fastest = NoTid
                \/ Claims(masters'[m].id, masters'[m].fastest, i, j)
  <2>1. MasterOf(id) = {}
    BY <1>5, <1>3, MastersListed
  <2>2. m = Len(masters) + 1 /\ masters'[m].id = id /\ masters'[m].fastest = rate
    BY <1>5, <1>3, <2>1, MastersListed
  <2>3. ~ListedIn(masters, id)
    BY <2>1, MasterOfListed
  <2>4. \A r : Claims(id, r, i, j) => r = rate
    BY <1>2, <2>3
  <2> QED
    BY <2>2, <2>4
<1> QED
  BY <1>1, <1>4, <1>5 DEF Rated

LEMMA ClaimsAreRates ==
  ASSUME CursorInv, NEW a \in Nat, NEW b \in Nat,
         a <= Len(calls), b <= Len(slaves)
  PROVE  \A x, r : Claims(x, r, a, b) => r \in Nat
<1>1. /\ \A c \in 1 .. a : c \in 1 .. Len(calls)
      /\ \A s \in 1 .. b : s \in 1 .. Len(slaves)
  BY InputTypes
<1> QED
  BY <1>1, InputTypes DEF Claims

(* The masters after call n.                                               *)
LEMMA CallRated ==
  ASSUME Types, CursorInv, FastestInv, pc = "blocks", n <= Len(calls),
         NEW rate, NEW granted \in BOOLEAN,
         masters' = GetMaster(calls[n].master, rate, granted),
         \/ rate = NoTid /\ ~calls[n].input /\ ~calls[n].output
         \/ /\ rate = Rate[calls[n].tid]
            /\ calls[n].input \/ calls[n].output
  PROVE  Rated(masters', n, 0)
<1>1. /\ n \in 1 .. Len(calls) /\ n = Len(shown) + 1
      /\ n \in Nat /\ Len(shown) \in Nat /\ NoTid \in Nat
      /\ Len(calls) \in Nat /\ Len(slaves) \in Nat
      /\ calls[n].master \in Master /\ Rate[calls[n].tid] \in Nat
  BY CurrentCall
<1>2. Rated(masters, Len(shown), 0)
  BY FastestIs DEF Lives, InitDone
<1>3. \A c \in 1 .. n : c \in 1 .. Len(shown) \/ c = n
  BY <1>1
<1>4. \A x, r : Claims(x, r, n, 0) =>
                  \/ Claims(x, r, Len(shown), 0)
                  \/ x = calls[n].master /\ r = rate
  BY <1>3 DEF Claims, Asks
<1>5. \A x, r : Claims(x, r, Len(shown), 0) => Claims(x, r, n, 0)
  <2>1. \A c \in 1 .. Len(shown) : c \in 1 .. n
    BY <1>1
  <2> QED
    BY <2>1 DEF Claims
<1>6. rate = NoTid \/ Claims(calls[n].master, rate, n, 0)
  <2>1. n \in 1 .. n
    BY <1>1
  <2> QED
    BY <2>1 DEF Claims, Asks
<1>7. \A x, r : Claims(x, r, Len(shown), 0) => r \in Nat
  <2>1. Len(shown) \in Nat /\ 0 \in Nat /\ Len(shown) <= Len(calls)
          /\ 0 <= Len(slaves)
    BY <1>1
  <2> QED
    BY <2>1, ClaimsAreRates
<1>8. masters \in Seq(MasterRec) /\ rate \in Nat
  BY <1>1 DEF Types
<1>9. \A s \in 1 .. 0 : s \in 1 .. 0 \/ slaves[s].master = calls[n].master
  OBVIOUS
<1> QED
  BY <1>1, <1>2, <1>3, <1>4, <1>5, <1>6, <1>7, <1>8, <1>9, RatedGrows

LEMMA CallFastest ==
  ASSUME Types, CursorInv, FastestInv, SetupMaster \/ GetDomainPtr
  PROVE  FastestInv'
<1>1. /\ pc = "blocks" /\ n <= Len(calls)
      /\ calls' = calls /\ slaves' = slaves
  BY SetupMasterIs, GetDomainPtrIs DEF Types
<1>2. \/ pc' = "crashed"
      \/ CallDone /\ \E d : shown' = Append(shown, d)
  BY SetupMasterIs, GetDomainPtrIs DEF Types
<1>3. Rated(masters', n, 0)
  <2>1. CASE SetupMaster
    <3>1. PICK granted \in BOOLEAN :
            masters' = GetMaster(calls[n].master, NoTid, granted)
      BY <2>1, SetupMasterIs
    <3>2. ~calls[n].input /\ ~calls[n].output
      BY <2>1, SetupMasterIs
    <3> QED
      BY <1>1, <3>1, <3>2, CallRated
  <2>2. CASE GetDomainPtr
    <3>1. PICK granted \in BOOLEAN :
            masters' = GetMaster(calls[n].master, Rate[calls[n].tid], granted)
      BY <2>2, GetDomainPtrIs DEF Types
    <3>2. calls[n].input \/ calls[n].output
      BY <2>2, GetDomainPtrIs DEF Types
    <3> QED
      BY <1>1, <3>1, <3>2, CallRated
  <2> QED
    BY <2>1, <2>2
<1>4. Lives' => Len(shown') = n /\ InitDone' = 0
  <2>1. n = Len(shown) + 1 /\ n \in Nat /\ shown \in Seq(0 .. Len(domains))
    BY <1>1, CurrentCall DEF Types
  <2>2. \A d : Len(Append(shown, d)) = Len(shown) + 1
    BY <2>1
  <2>3. CallDone => (Lives' => InitDone' = 0)
    BY DEF CallDone, Lives, InitDone, Configuring
  <2> QED
    BY <1>2, <2>1, <2>2, <2>3 DEF Lives, Configuring
<1> QED
  BY <1>1, <1>3, <1>4, FastestIs

LEMMA InitSlaveFastest ==
  ASSUME Types, CursorInv, FastestInv, InitSlave
  PROVE  FastestInv'
<1>1. /\ pc = "slaves" /\ n <= Len(slaves)
      /\ pc' \in {"failed", "rxpdo"}
      /\ calls' = calls /\ slaves' = slaves /\ n' = n /\ shown' = shown
  BY InitSlaveIs
<1>2. PICK granted \in BOOLEAN :
        masters' = GetMaster(slaves[n].master, Rate[slaves[n].tid], granted)
  BY InitSlaveIs
<1>3. /\ n \in 1 .. Len(slaves) /\ n \in Nat /\ Len(slaves) \in Nat
      /\ slaves[n].master \in Master /\ Rate[slaves[n].tid] \in Nat
      /\ masters \in Seq(MasterRec) /\ Len(calls) \in Nat
      /\ Len(shown) \in Nat /\ Len(shown) <= Len(calls)
  BY <1>1, CurrentSlave DEF Types, Configuring, CursorInv
<1> DEFINE a == Len(shown)
           b == n - 1
<1>4. Rated(masters, a, b)
  BY <1>1, FastestIs DEF Lives, InitDone, Configuring
<1>5. b \in Nat /\ b <= Len(slaves) /\ n = b + 1
  BY <1>1, <1>3
<1>6. /\ \A s \in 1 .. n : s \in 1 .. b \/ s = n
      /\ \A s \in 1 .. b : s \in 1 .. n
      /\ n \in 1 .. n
  BY <1>3
<1> HIDE DEF a, b
<1>7. \A x, r : Claims(x, r, a, n) =>
                  \/ Claims(x, r, a, b)
                  \/ x = slaves[n].master /\ r = Rate[slaves[n].tid]
  BY <1>6 DEF Claims
<1>8. \A x, r : Claims(x, r, a, b) => Claims(x, r, a, n)
  BY <1>6 DEF Claims
<1>9. Claims(slaves[n].master, Rate[slaves[n].tid], a, n)
  BY <1>6 DEF Claims
<1>10. \A x, r : Claims(x, r, a, b) => r \in Nat
  BY <1>3, <1>5, ClaimsAreRates DEF a
<1>11. \A s \in 1 .. n : s \in 1 .. b \/ slaves[s].master = slaves[n].master
  BY <1>6
<1>12. Rated(masters', a, n)
  BY <1>2, <1>3, <1>4, <1>7, <1>8, <1>9, <1>10, <1>11, RatedGrows
<1>13. Lives' => InitDone' = n
  BY <1>1 DEF Lives, InitDone, Configuring
<1> QED
  BY <1>1, <1>12, <1>13, FastestIs DEF a

(* The other steps leave the masters alone.                                *)
LEMMA OtherFastest ==
  ASSUME Types, CursorInv, FastestInv,
         \/ StartTrailer \/ RegisterRxPdos \/ RegisterTxPdos
         \/ Activate \/ Convert
  PROVE  FastestInv'
<1>1. /\ calls' = calls /\ slaves' = slaves /\ masters' = masters
      /\ shown' = shown
  <2>1. CASE StartTrailer
    BY <2>1 DEF StartTrailer, inputs
  <2>2. CASE RegisterRxPdos
    BY <2>2 DEF RegisterRxPdos, inputs
  <2>3. CASE RegisterTxPdos
    BY <2>3 DEF RegisterTxPdos, inputs
  <2>4. CASE Activate
    BY <2>4 DEF Activate, inputs
  <2>5. CASE Convert
    BY <2>5 DEF Convert, inputs
  <2> QED
    BY <2>1, <2>2, <2>3, <2>4, <2>5
<1>2. Lives' => Lives /\ InitDone' = InitDone
  <2>1. CASE StartTrailer
    <3>1. pc = "blocks" /\ pc' = "slaves" /\ n' = n /\ Len(calls) = 0
      BY <2>1 DEF StartTrailer
    <3>2. n = 1
      BY <3>1 DEF CursorInv, Types
    <3> QED
      BY <3>1, <3>2 DEF Lives, InitDone, Configuring
  <2>2. CASE RegisterRxPdos
    <3>1. pc = "rxpdo" /\ pc' \in {"failed", "txpdo"} /\ n' = n
      BY <2>2, RegisterRxPdosIs
    <3> QED
      BY <3>1 DEF Lives, InitDone, Configuring
  <2>3. CASE RegisterTxPdos
    <3>1. /\ pc = "txpdo"
          /\ pc' = "failed" \/ (pc' = "slaves" /\ n' = n + 1)
      BY <2>3, RegisterTxPdosIs
    <3>2. n \in Nat
      BY DEF Types
    <3> QED
      BY <3>1, <3>2 DEF Lives, InitDone, Configuring
  <2>4. CASE Activate
    <3>1. /\ pc = "slaves" /\ n > Len(slaves)
          /\ pc' \in {"failed", "convert"}
      BY <2>4 DEF Activate
    <3>2. n \in 1 .. Len(slaves) + 1 /\ Len(slaves) \in Nat
      BY <3>1, InputTypes DEF CursorInv, Configuring
    <3> QED
      BY <1>1, <3>1, <3>2 DEF Lives, InitDone, Configuring
  <2>5. CASE Convert
    <3>1. pc = "convert" /\ pc' = pc
      BY <2>5, ConvertIs
    <3> QED
      BY <1>1, <3>1 DEF Lives, InitDone, Configuring
  <2> QED
    BY <2>1, <2>2, <2>3, <2>4, <2>5
<1> QED
  BY <1>1, <1>2, FastestIs

LEMMA InitFastest == Init /\ Types /\ CursorInv => FastestInv
<1> SUFFICES ASSUME Init, Types, CursorInv PROVE FastestInv
  OBVIOUS
<1>1. Len(shown) = 0 /\ Len(masters) = 0 /\ InitDone = 0
  BY DEF Init, InitDone, Configuring
<1> QED
  BY <1>1 DEF FastestInv

-----------------------------------------------------------------------------
(* The domains of the PDOs *)

(* The domain that is got is the first with each direction asked for.      *)
LEMMA GetsFirst ==
  ASSUME NEW id, NEW domain, NEW rate, NEW input \in BOOLEAN,
         NEW output \in BOOLEAN, NEW d, NEW ins, NEW outs,
         Gets(domains', d, id, domain, rate, input, output, ins, outs),
         NEW i \in BOOLEAN, NEW o \in BOOLEAN,
         i => input, o => output, i \/ o
  PROVE  IsFirst(d, id, domain, rate, i, o)'
<1>1. /\ domains' \in Seq(DomainRec) /\ d \in 1 .. Len(domains')
      /\ Len(domains) \in Nat /\ Len(domains') \in Nat
      /\ Finds(domains', d, id, domain, rate, input, output)
  BY DEF Gets, Finds
<1>2. \A e \in 1 .. d - 1 : e \in 1 .. Len(domains) /\ e # d
  BY <1>1 DEF Finds
<1>3. ASSUME NEW e \in 1 .. d - 1
      PROVE  ~Suits(e, id, domain, rate, i, o)'
  <2>1. domains'[e] = domains[e]
    BY <1>1, <1>2 DEF Finds
  <2>2. ~Suits(e, id, domain, rate, input, output)
    BY <1>1 DEF Finds
  <2> QED
    BY <2>1, <2>2 DEF Suits
<1>4. Suits(d, id, domain, rate, i, o)'
  <2>1. CASE /\ Suits(d, id, domain, rate, input, output)
             /\ domains'[d].master = domains[d].master
             /\ domains'[d].id = domains[d].id
             /\ domains'[d].rate = domains[d].rate
             /\ domains'[d].input = (domains[d].input \/ input)
             /\ domains'[d].output = (domains[d].output \/ output)
    BY <2>1 DEF Suits
  <2>2. CASE /\ domains'[d].master = id /\ domains'[d].id = domain
             /\ domains'[d].rate = rate
             /\ domains'[d].input = input /\ domains'[d].output = output
    BY <2>2 DEF Suits
  <2> QED
    BY <1>1, <2>1, <2>2 DEF Finds
<1> QED
  BY <1>1, <1>3, <1>4 DEF IsFirst

(* A domain that is found with a single direction has it already, and so   *)
(* has one found with both, if it has both or neither.                     *)
LEMMA GetsKeep ==
  ASSUME NEW id, NEW domain, NEW rate, NEW input \in BOOLEAN,
         NEW output \in BOOLEAN, NEW d, NEW ins, NEW outs,
         Gets(domains', d, id, domain, rate, input, output, ins, outs),
         \/ ~input \/ ~output
         \/ d \in 1 .. Len(domains) => domains[d].input = domains[d].output
  PROVE  Keep
<1>1. /\ Len(domains) \in Nat /\ Len(domains') \in Nat
      /\ Finds(domains', d, id, domain, rate, input, output)
      /\ Len(domains) <= Len(domains')
  BY DEF Gets, Finds
<1>2. ASSUME NEW e \in 1 .. Len(domains), e # d
      PROVE  domains'[e] = domains[e]
  BY <1>1, <1>2 DEF Finds
<1>3. ASSUME d \in 1 .. Len(domains)
      PROVE  /\ domains'[d].master = domains[d].master
             /\ domains'[d].id = domains[d].id
             /\ domains'[d].rate = domains[d].rate
             /\ domains'[d].input = domains[d].input
             /\ domains'[d].output = domains[d].output
  <2>1. /\ Suits(d, id, domain, rate, input, output)
        /\ domains[d] \in DomainRec
        /\ domains'[d].master = domains[d].master
        /\ domains'[d].id = domains[d].id
        /\ domains'[d].rate = domains[d].rate
        /\ domains'[d].input = (domains[d].input \/ input)
        /\ domains'[d].output = (domains[d].output \/ output)
    BY <1>1, <1>3 DEF Finds
  <2>2. domains[d].input \in BOOLEAN /\ domains[d].output \in BOOLEAN
    BY <2>1 DEF DomainRec
  <2>3. (domains[d].input /\ input) \/ (domains[d].output /\ output)
    BY <2>1 DEF Suits
  <2>4. \/ ~input \/ ~output
        \/ domains[d].input = domains[d].output
    BY <1>3
  <2>5. domains'[d].input = domains[d].input
    BY <2>1, <2>2, <2>3, <2>4, Zenon
  <2>6. domains'[d].output = domains[d].output
    BY <2>1, <2>2, <2>3, <2>4, Zenon
  <2> QED
    BY <2>1, <2>5, <2>6
<1> QED
  BY <1>1, <1>2, <1>3 DEF Keep

(* What ServedInv says of the domains that the slaves have.                *)
FirstOfRx(s, d) ==
  IsFirst(d, slaves[s].master, slaves[s].domain, Rate[slaves[s].tid],
          FALSE, TRUE)
FirstOfTx(s, d) ==
  IsFirst(d, slaves[s].master, slaves[s].domain, Rate[slaves[s].tid],
          TRUE, FALSE)

LEMMA FirstsAreKept ==
  ASSUME domains \in Seq(DomainRec), domains' \in Seq(DomainRec), Keep,
         slaves' = slaves
  PROVE  \A s, d : /\ FirstOfRx(s, d) => FirstOfRx(s, d)'
                   /\ FirstOfTx(s, d) => FirstOfTx(s, d)'
BY FirstIsKept DEF FirstOfRx, FirstOfTx

LEMMA ServedIs ==
  ServedInv <=>
    /\ \A s \in 1 .. Len(slaves) :
         /\ rxDomain[s] # 0 => FirstOfRx(s, rxDomain[s])
         /\ txDomain[s] # 0 => FirstOfTx(s, txDomain[s])
    /\ Lives => \A s \in 1 .. Len(slaves) :
         /\ rxDomain[s] # 0 <=> s <= RxDone /\ slaves[s].rxpdo > 0
         /\ txDomain[s] # 0 <=> s <= TxDone /\ slaves[s].txpdo > 0
BY DEF ServedInv, FirstFor, FirstOfRx, FirstOfTx

LEMMA ServedIsNext ==
  ServedInv' <=>
    /\ \A s \in 1 .. Len(slaves') :
         /\ rxDomain'[s] # 0 => FirstOfRx(s, rxDomain[s])'
         /\ txDomain'[s] # 0 => FirstOfTx(s, txDomain[s])'
    /\ Lives' => \A s \in 1 .. Len(slaves') :
         /\ rxDomain'[s] # 0 <=> s <= RxDone' /\ slaves'[s].rxpdo > 0
         /\ txDomain'[s] # 0 <=> s <= TxDone' /\ slaves'[s].txpdo > 0
BY DEF ServedInv, FirstFor, FirstOfRx, FirstOfTx

(* No PDO is registered while the blocks start.                            *)
LEMMA NotServedYet ==
  ASSUME CursorInv, ServedInv, pc = "blocks"
  PROVE  \A s \in 1 .. Len(slaves) : rxDomain[s] = 0 /\ txDomain[s] = 0
<1>1. Lives /\ RxDone = 0 /\ TxDone = 0
  BY DEF Lives, RxDone, TxDone, Configuring
<1>2. \A s \in 1 .. Len(slaves) : ~(s <= 0)
  BY InputTypes
<1> QED
  BY <1>1, <1>2, ServedIs

LEMMA CallServed ==
  ASSUME Types, CursorInv, ServedInv, SetupMaster \/ GetDomainPtr
  PROVE  ServedInv'
<1>1. /\ pc = "blocks" /\ slaves' = slaves
      /\ rxDomain' = rxDomain /\ txDomain' = txDomain
  BY SetupMasterIs, GetDomainPtrIs DEF Types
<1>2. pc' = "crashed" \/ CallDone
  BY SetupMasterIs, GetDomainPtrIs DEF Types
<1>3. Lives' => RxDone' = 0 /\ TxDone' = 0
  BY <1>2 DEF CallDone, Lives, RxDone, TxDone, Configuring
<1>4. \A s \in 1 .. Len(slaves) : ~(s <= 0)
  BY InputTypes
<1> QED
  BY <1>1, <1>3, <1>4, NotServedYet, ServedIsNext

(* The steps that leave the domains alone.                                 *)
LEMMA SameDone ==
  ASSUME Types, CursorInv,
         StartTrailer \/ InitSlave \/ Activate \/ Convert
  PROVE  /\ slaves' = slaves /\ domains' = domains
         /\ rxDomain' = rxDomain /\ txDomain' = txDomain
         /\ Lives' => Lives /\ RxDone' = RxDone /\ TxDone' = TxDone
<1>1. /\ slaves' = slaves /\ domains' = domains
      /\ rxDomain' = rxDomain /\ txDomain' = txDomain
  <2>1. CASE StartTrailer
    BY <2>1 DEF StartTrailer, inputs
  <2>2. CASE InitSlave
    BY <2>2 DEF InitSlave, inputs
  <2>3. CASE Activate
    BY <2>3 DEF Activate, inputs
  <2>4. CASE Convert
    BY <2>4 DEF Convert, inputs
  <2> QED
    BY <2>1, <2>2, <2>3, <2>4
<1>2. Lives' => Lives /\ RxDone' = RxDone /\ TxDone' = TxDone
  <2>1. CASE StartTrailer
    <3>1. pc = "blocks" /\ pc' = "slaves" /\ n' = n /\ Len(calls) = 0
      BY <2>1 DEF StartTrailer
    <3>2. n = 1
      BY <3>1 DEF CursorInv, Types
    <3> QED
      BY <3>1, <3>2 DEF Lives, RxDone, TxDone, Configuring
  <2>2. CASE InitSlave
    <3>1. pc = "slaves" /\ pc' \in {"failed", "rxpdo"} /\ n' = n
      BY <2>2, InitSlaveIs
    <3> QED
      BY <3>1 DEF Lives, RxDone, TxDone, Configuring
  <2>3. CASE Activate
    <3>1. /\ pc = "slaves" /\ n > Len(slaves)
          /\ pc' \in {"failed", "convert"}
      BY <2>3 DEF Activate
    <3>2. n \in 1 .. Len(slaves) + 1 /\ Len(slaves) \in Nat
      BY <3>1, InputTypes DEF CursorInv, Configuring
    <3> QED
      BY <1>1, <3>1, <3>2 DEF Lives, RxDone, TxDone, Configuring
  <2>4. CASE Convert
    <3>1. pc = "convert" /\ pc' = pc
      BY <2>4, ConvertIs
    <3> QED
      BY <1>1, <3>1 DEF Lives, RxDone, TxDone, Configuring
  <2> QED
    BY <2>1, <2>2, <2>3, <2>4
<1> QED
  BY <1>1, <1>2

LEMMA SameServed ==
  ASSUME Types, CursorInv, ServedInv,
         StartTrailer \/ InitSlave \/ Activate \/ Convert
  PROVE  ServedInv'
<1>1. /\ slaves' = slaves /\ domains' = domains
      /\ rxDomain' = rxDomain /\ txDomain' = txDomain
      /\ Lives' => Lives /\ RxDone' = RxDone /\ TxDone' = TxDone
  BY SameDone
<1>2. \A s, d : /\ FirstOfRx(s, d) => FirstOfRx(s, d)'
                /\ FirstOfTx(s, d) => FirstOfTx(s, d)'
  BY <1>1 DEF FirstOfRx, FirstOfTx, IsFirst, Suits
<1> QED
  BY <1>1, <1>2, ServedIs, ServedIsNext

LEMMA RegisterRxPdosServed ==
  ASSUME Types, CursorInv, Types', ServedInv, RegisterRxPdos
  PROVE  ServedInv' /\ Keep
<1>1. /\ pc = "rxpdo" /\ n <= Len(slaves)
      /\ slaves' = slaves /\ n' = n /\ txDomain' = txDomain
  BY RegisterRxPdosIs
<1>2. /\ n \in 1 .. Len(slaves) /\ n \in Nat /\ Len(slaves) \in Nat
      /\ slaves[n].rxpdo \in Nat
      /\ domains \in Seq(DomainRec) /\ domains' \in Seq(DomainRec)
  BY <1>1, CurrentSlave DEF Configuring, Types
<1>3. ASSUME NEW k \in Nat, RxDomain(domains', k)
      PROVE  /\ Keep
             /\ \E d : /\ FirstOfRx(n, d)'
                       /\ rxDomain' = IF k = 0 THEN rxDomain
                                      ELSE [rxDomain EXCEPT ![n] = d]
                       /\ d # 0
  <2>1. PICK d : /\ Gets(domains', d, slaves[n].master, slaves[n].domain,
                         Rate[slaves[n].tid], FALSE, TRUE, 0, k)
                 /\ rxDomain' = IF k = 0 THEN rxDomain
                                ELSE [rxDomain EXCEPT ![n] = d]
    BY <1>3 DEF RxDomain
  <2>2. Keep
    BY <2>1, GetsKeep
  <2>3. /\ IsFirst(d, slaves[n].master, slaves[n].domain, Rate[slaves[n].tid],
                   FALSE, TRUE)'
    BY <1>1, <2>1, GetsFirst
  <2>4. d # 0
    BY <2>1 DEF Gets, Finds
  <2> QED
    BY <2>1, <2>2, <2>3, <2>4 DEF FirstOfRx
<1>4. domains' = domains /\ rxDomain' = rxDomain => Keep
  BY <1>2 DEF Keep
<1>5. Keep
  BY <1>2, <1>3, <1>4, RegisterRxPdosIs
<1>6. \A s, d : /\ FirstOfRx(s, d) => FirstOfRx(s, d)'
                /\ FirstOfTx(s, d) => FirstOfTx(s, d)'
  BY <1>1, <1>2, <1>5, FirstsAreKept
<1>7. \A s \in 1 .. Len(slaves) : rxDomain'[s] # 0 =>
                                    FirstOfRx(s, rxDomain[s])'
  <2>1. CASE rxDomain' = rxDomain
    BY <2>1, <1>6, ServedIs
  <2>2. ASSUME NEW d, FirstOfRx(n, d)', rxDomain' = [rxDomain EXCEPT ![n] = d]
        PROVE  \A s \in 1 .. Len(slaves) : rxDomain'[s] # 0 =>
                                             FirstOfRx(s, rxDomain[s])'
    <3>1. rxDomain'[n] = d
      BY <1>2, <2>2 DEF CursorInv
    <3>2. \A s \in 1 .. Len(slaves) : s # n => rxDomain'[s] = rxDomain[s]
      BY <2>2 DEF CursorInv
    <3>3. ASSUME NEW s \in 1 .. Len(slaves), s # n, rxDomain'[s] # 0
          PROVE  FirstOfRx(s, rxDomain[s])'
      <4>1. rxDomain'[s] = rxDomain[s]
        BY <3>2, <3>3
      <4>2. FirstOfRx(s, rxDomain[s])
        BY <4>1, <3>3, ServedIs
      <4>3. \A x : x = rxDomain[s] => FirstOfRx(s, x)'
        BY <4>2, <1>6
      <4> QED
        BY <4>1, <4>3
    <3>4. FirstOfRx(n, rxDomain[n])'
      BY <1>1, <2>2, <3>1
    <3> QED
      BY <3>3, <3>4, <1>1
  <2> QED
    BY <2>1, <2>2, <1>2, <1>3, RegisterRxPdosIs
<1>8. ASSUME Lives'
      PROVE  \A s \in 1 .. Len(slaves) :
               /\ rxDomain'[s] # 0 <=> s <= n /\ slaves[s].rxpdo > 0
               /\ txDomain[s] # 0 <=> s <= n - 1 /\ slaves[s].txpdo > 0
  <2>1. \A s \in 1 .. Len(slaves) :
          /\ rxDomain[s] # 0 <=> s <= n - 1 /\ slaves[s].rxpdo > 0
          /\ txDomain[s] # 0 <=> s <= n - 1 /\ slaves[s].txpdo > 0
    BY <1>1, ServedIs DEF Lives, RxDone, TxDone, Configuring
  <2>2. \/ slaves[n].rxpdo = 0 /\ rxDomain' = rxDomain
        \/ /\ slaves[n].rxpdo > 0
           /\ \E d : d # 0 /\ rxDomain' = [rxDomain EXCEPT ![n] = d]
    <3>1. slaves[n].rxpdo > 0 => slaves[n].rxpdo # 0
      BY <1>2
    <3> QED
      BY <1>2, <1>3, <1>8, <3>1, RegisterRxPdosIs DEF Lives, Configuring
  <2>3. \A s \in 1 .. Len(slaves) : s <= n <=> s = n \/ s <= n - 1
    BY <1>2
  <2>4. ~(n <= n - 1)
    BY <1>2
  <2>5. \A s \in 1 .. Len(slaves) :
          rxDomain'[s] # 0 <=> s <= n /\ slaves[s].rxpdo > 0
    <3>1. CASE slaves[n].rxpdo = 0 /\ rxDomain' = rxDomain
      BY <3>1, <1>2, <2>1, <2>3
    <3>2. ASSUME slaves[n].rxpdo > 0, NEW d, d # 0,
                 rxDomain' = [rxDomain EXCEPT ![n] = d]
          PROVE  \A s \in 1 .. Len(slaves) :
                   rxDomain'[s] # 0 <=> s <= n /\ slaves[s].rxpdo > 0
      <4>1. rxDomain'[n] = d
        BY <1>2, <3>2 DEF CursorInv
      <4>2. \A s \in 1 .. Len(slaves) : s # n => rxDomain'[s] = rxDomain[s]
        BY <3>2 DEF CursorInv
      <4> QED
        BY <4>1, <4>2, <3>2, <1>2, <2>1, <2>3
    <3> QED
      BY <2>2, <3>1, <3>2
  <2> QED
    BY <2>1, <2>5
<1>9. Lives' => RxDone' = n /\ TxDone' = n - 1
  BY <1>1, RegisterRxPdosIs DEF Lives, RxDone, TxDone, Configuring
<1>10. \A s \in 1 .. Len(slaves) : txDomain[s] # 0 =>
                                     FirstOfTx(s, txDomain[s])'
  BY <1>1, <1>6, ServedIs
<1> QED
  BY <1>1, <1>5, <1>7, <1>8, <1>9, <1>10, ServedIsNext

LEMMA RegisterTxPdosServed ==
  ASSUME Types, CursorInv, Types', ServedInv, RegisterTxPdos
  PROVE  ServedInv' /\ Keep
<1>1. /\ pc = "txpdo" /\ n <= Len(slaves)
      /\ slaves' = slaves /\ rxDomain' = rxDomain
  BY RegisterTxPdosIs
<1>2. /\ n \in 1 .. Len(slaves) /\ n \in Nat /\ Len(slaves) \in Nat
      /\ slaves[n].txpdo \in Nat
      /\ domains \in Seq(DomainRec) /\ domains' \in Seq(DomainRec)
  BY <1>1, CurrentSlave DEF Configuring, Types
<1> PICK m \in 1 .. Len(slaves) : m = n
  BY <1>2
<1>3. ASSUME NEW k \in Nat, TxDomain(domains', k)
      PROVE  /\ Keep
             /\ \E d : /\ FirstOfTx(m, d)'
                       /\ txDomain' = IF k = 0 THEN txDomain
                                      ELSE [txDomain EXCEPT ![m] = d]
                       /\ d # 0
  <2>1. PICK d : /\ Gets(domains', d, slaves[n].master, slaves[n].domain,
                         Rate[slaves[n].tid], TRUE, FALSE, k, 0)
                 /\ txDomain' = IF k = 0 THEN txDomain
                                ELSE [txDomain EXCEPT ![n] = d]
    BY <1>3 DEF TxDomain
  <2>2. Keep
    BY <2>1, GetsKeep
  <2>3. Gets(domains', d, slaves[m].master, slaves[m].domain,
             Rate[slaves[m].tid], TRUE, FALSE, k, 0)
    BY <2>1
  <2>4. /\ IsFirst(d, slaves[m].master, slaves[m].domain, Rate[slaves[m].tid],
                   TRUE, FALSE)'
    BY <1>1, <2>3, GetsFirst
  <2>5. d # 0
    BY <2>1 DEF Gets, Finds
  <2> QED
    BY <2>1, <2>2, <2>4, <2>5 DEF FirstOfTx
<1>4. domains' = domains /\ txDomain' = txDomain => Keep
  BY <1>2 DEF Keep
<1>5. Keep
  BY <1>2, <1>3, <1>4, RegisterTxPdosIs
<1>6. \A s, d : /\ FirstOfRx(s, d) => FirstOfRx(s, d)'
                /\ FirstOfTx(s, d) => FirstOfTx(s, d)'
  BY <1>1, <1>2, <1>5, FirstsAreKept
<1>7. \A s \in 1 .. Len(slaves) : txDomain'[s] # 0 =>
                                    FirstOfTx(s, txDomain[s])'
  <2>1. CASE txDomain' = txDomain
    BY <2>1, <1>6, ServedIs
  <2>2. ASSUME NEW d, FirstOfTx(m, d)', txDomain' = [txDomain EXCEPT ![m] = d]
        PROVE  \A s \in 1 .. Len(slaves) : txDomain'[s] # 0 =>
                                             FirstOfTx(s, txDomain[s])'
    <3>1. txDomain'[m] = d
      BY <1>2, <2>2 DEF CursorInv
    <3>2. \A s \in 1 .. Len(slaves) : s # m => txDomain'[s] = txDomain[s]
      BY <2>2 DEF CursorInv
    <3>3. ASSUME NEW s \in 1 .. Len(slaves), s # m, txDomain'[s] # 0
          PROVE  FirstOfTx(s, txDomain[s])'
      <4>1. txDomain'[s] = txDomain[s]
        BY <3>2, <3>3
      <4>2. FirstOfTx(s, txDomain[s])
        BY <4>1, <3>3, ServedIs
      <4>3. \A x : x = txDomain[s] => FirstOfTx(s, x)'
        BY <4>2, <1>6
      <4> QED
        BY <4>1, <4>3
    <3>4. FirstOfTx(m, txDomain[m])'
      BY <2>2, <3>1
    <3> QED
      BY <3>3, <3>4
  <2> QED
    BY <2>1, <2>2, <1>2, <1>3, RegisterTxPdosIs
<1>8. ASSUME Lives'
      PROVE  \A s \in 1 .. Len(slaves) :
               /\ txDomain'[s] # 0 <=> s <= n /\ slaves[s].txpdo > 0
               /\ rxDomain[s] # 0 <=> s <= n /\ slaves[s].rxpdo > 0
  <2>1. \A s \in 1 .. Len(slaves) :
          /\ txDomain[s] # 0 <=> s <= n - 1 /\ slaves[s].txpdo > 0
          /\ rxDomain[s] # 0 <=> s <= n /\ slaves[s].rxpdo > 0
    BY <1>1, ServedIs DEF Lives, RxDone, TxDone, Configuring
  <2>2. \/ slaves[n].txpdo = 0 /\ txDomain' = txDomain
        \/ /\ slaves[n].txpdo > 0
           /\ \E d : d # 0 /\ txDomain' = [txDomain EXCEPT ![n] = d]
    <3>1. slaves[n].txpdo > 0 => slaves[n].txpdo # 0
      BY <1>2
    <3> QED
      BY <1>2, <1>3, <1>8, <3>1, RegisterTxPdosIs DEF Lives, Configuring
  <2>3. \A s \in 1 .. Len(slaves) : s <= n <=> s = n \/ s <= n - 1
    BY <1>2
  <2>4. ~(n <= n - 1)
    BY <1>2
  <2>5. \A s \in 1 .. Len(slaves) :
          txDomain'[s] # 0 <=> s <= n /\ slaves[s].txpdo > 0
    <3>1. CASE slaves[n].txpdo = 0 /\ txDomain' = txDomain
      BY <3>1, <1>2, <2>1, <2>3
    <3>2. ASSUME slaves[n].txpdo > 0, NEW d, d # 0,
                 txDomain' = [txDomain EXCEPT ![n] = d]
          PROVE  \A s \in 1 .. Len(slaves) :
                   txDomain'[s] # 0 <=> s <= n /\ slaves[s].txpdo > 0
      <4>1. txDomain'[n] = d
        BY <1>2, <3>2 DEF CursorInv
      <4>2. \A s \in 1 .. Len(slaves) : s # n => txDomain'[s] = txDomain[s]
        BY <3>2 DEF CursorInv
      <4> QED
        BY <4>1, <4>2, <3>2, <1>2, <2>1, <2>3
    <3> QED
      BY <2>2, <3>1, <3>2
  <2> QED
    BY <2>1, <2>5
<1>9. Lives' => RxDone' = n /\ TxDone' = n
  BY <1>1, <1>2, RegisterTxPdosIs DEF Lives, RxDone, TxDone, Configuring
<1>10. \A s \in 1 .. Len(slaves) : rxDomain[s] # 0 =>
                                     FirstOfRx(s, rxDomain[s])'
  BY <1>1, <1>6, ServedIs
<1> QED
  BY <1>1, <1>5, <1>7, <1>8, <1>9, <1>10, ServedIsNext

LEMMA InitServed == Init /\ Types /\ CursorInv => ServedInv
<1> SUFFICES ASSUME Init, Types, CursorInv PROVE ServedInv
  OBVIOUS
<1>1. /\ \A s \in 1 .. Len(slaves) : rxDomain[s] = 0 /\ txDomain[s] = 0
      /\ RxDone = 0 /\ TxDone = 0
  BY DEF Init, RxDone, TxDone, Configuring
<1>2. \A s \in 1 .. Len(slaves) : ~(s <= 0)
  BY InputTypes
<1> QED
  BY <1>1, <1>2, ServedIs

-----------------------------------------------------------------------------
(* The domains that the blocks show *)

FirstOfCall(c, d, input, output) ==
  IsFirst(d, calls[c].master, calls[c].domain, Rate[calls[c].tid],
          input, output)

Symmetric(ds) == \A d \in 1 .. Len(ds) : ds[d].input = ds[d].output

LEMMA ShownIs ==
  ShownInv <=>
    /\ pc = "blocks" /\ BothAtOnce => Symmetric(domains)
    /\ (Lives /\ OneKind) =>
         \A c \in 1 .. Len(shown) : shown[c] # 0 =>
           /\ calls[c].output => FirstOfCall(c, shown[c], FALSE, TRUE)
           /\ calls[c].input => FirstOfCall(c, shown[c], TRUE, FALSE)
BY DEF ShownInv, FirstFor, FirstOfCall, Symmetric

LEMMA ShownIsNext ==
  ASSUME calls' = calls
  PROVE  ShownInv' <=>
    /\ pc' = "blocks" /\ BothAtOnce => Symmetric(domains')
    /\ (Lives' /\ OneKind) =>
         \A c \in 1 .. Len(shown') : shown'[c] # 0 =>
           /\ calls[c].output => FirstOfCall(c, shown[c], FALSE, TRUE)'
           /\ calls[c].input => FirstOfCall(c, shown[c], TRUE, FALSE)'
<1>1. BothAtOnce' <=> BothAtOnce
  BY DEF BothAtOnce
<1>2. OneKind' <=> OneKind
  BY DEF OneKind
<1> QED
  BY <1>1, <1>2 DEF ShownInv, FirstFor, FirstOfCall, Symmetric

(* The steps after which no block is left, and those that show nothing.    *)
LEMMA SameShown ==
  ASSUME Types, Types', ShownInv, Keep, calls' = calls, shown' = shown,
         pc' # "blocks", Lives' => Lives
  PROVE  ShownInv'
<1>1. \A c, d, i, o : FirstOfCall(c, d, i, o) => FirstOfCall(c, d, i, o)'
  BY FirstIsKept DEF FirstOfCall, Types
<1>2. \A c \in 1 .. Len(shown) :
        /\ FirstOfCall(c, shown[c], FALSE, TRUE)
             => FirstOfCall(c, shown[c], FALSE, TRUE)'
        /\ FirstOfCall(c, shown[c], TRUE, FALSE)
             => FirstOfCall(c, shown[c], TRUE, FALSE)'
  <2> TAKE c \in 1 .. Len(shown)
  <2>1. \A d : d = shown[c] =>
        /\ FirstOfCall(c, d, FALSE, TRUE) => FirstOfCall(c, d, FALSE, TRUE)'
        /\ FirstOfCall(c, d, TRUE, FALSE) => FirstOfCall(c, d, TRUE, FALSE)'
    BY <1>1
  <2> QED
    BY <2>1
<1> QED
  BY <1>2, ShownIs, ShownIsNext

LEMMA OtherShown ==
  ASSUME Types, CursorInv, Types', ServedInv, ShownInv,
         \/ StartTrailer \/ InitSlave \/ RegisterRxPdos \/ RegisterTxPdos
         \/ Activate \/ Convert
  PROVE  ShownInv'
<1>1. domains' = domains => Keep
  BY DEF Keep, Types
<1> DEFINE Same == /\ Keep /\ calls' = calls /\ shown' = shown
                   /\ pc' # "blocks" /\ (Lives' => Lives)
<1>2. Same
  <2>1. CASE StartTrailer
    BY <2>1, <1>1 DEF StartTrailer, inputs, Lives
  <2>2. CASE InitSlave
    BY <2>2, <1>1, InitSlaveIs DEF Lives, Configuring
  <2>3. CASE RegisterRxPdos
    <3>1. /\ pc = "rxpdo" /\ calls' = calls /\ shown' = shown
          /\ pc' # "blocks"
      BY <2>3, RegisterRxPdosIs
    <3> QED
      BY <2>3, <3>1, RegisterRxPdosServed DEF Lives, Configuring
  <2>4. CASE RegisterTxPdos
    <3>1. /\ pc = "txpdo" /\ calls' = calls /\ shown' = shown
          /\ pc' # "blocks"
      BY <2>4, RegisterTxPdosIs
    <3> QED
      BY <2>4, <3>1, RegisterTxPdosServed DEF Lives, Configuring
  <2>5. CASE Activate
    BY <2>5, <1>1 DEF Activate, inputs, Lives, Configuring
  <2>6. CASE Convert
    BY <2>6, <1>1, ConvertIs DEF Lives, Configuring
  <2> QED
    BY <2>1, <2>2, <2>3, <2>4, <2>5, <2>6
<1> QED
  BY <1>2, SameShown

(* A call that shows no domain, or the one that is in the way of all       *)
(* others, as it has every direction that it is asked for.                 *)
LEMMA CallShows ==
  ASSUME Types, Types', CursorInv, ShownInv, pc = "blocks",
         n <= Len(calls), calls' = calls,
         Keep \/ ~OneKind,
         NEW d, shown' = Append(shown, d),
         d # 0 =>
           /\ calls[n].output => \A c : c = n => FirstOfCall(c, d, FALSE, TRUE)'
           /\ calls[n].input => \A c : c = n => FirstOfCall(c, d, TRUE, FALSE)',
         BothAtOnce => Symmetric(domains')
  PROVE  ShownInv'
<1>1. /\ n = Len(shown) + 1 /\ n \in Nat /\ Len(shown) \in Nat
      /\ shown \in Seq(0 .. Len(domains))
  BY CurrentCall DEF Types
<1>2. /\ Len(shown') = n /\ shown'[n] = d
      /\ \A c \in 1 .. Len(shown) : shown'[c] = shown[c]
  BY <1>1, AppendProperties
<1>3. ASSUME OneKind, NEW c \in 1 .. Len(shown), shown[c] # 0
      PROVE  /\ calls[c].output => FirstOfCall(c, shown[c], FALSE, TRUE)'
             /\ calls[c].input => FirstOfCall(c, shown[c], TRUE, FALSE)'
  <2>1. /\ calls[c].output => FirstOfCall(c, shown[c], FALSE, TRUE)
        /\ calls[c].input => FirstOfCall(c, shown[c], TRUE, FALSE)
    BY <1>3, ShownIs DEF Lives
  <2>2. \A x, i, o : FirstOfCall(c, x, i, o) => FirstOfCall(c, x, i, o)'
    BY <1>3, FirstIsKept DEF FirstOfCall, Types
  <2>3. PICK x : x = shown[c]
    OBVIOUS
  <2>4. shown'[c] = x
    BY <2>3, <1>2
  <2>5. /\ calls[c].output => FirstOfCall(c, x, FALSE, TRUE)'
        /\ calls[c].input => FirstOfCall(c, x, TRUE, FALSE)'
    BY <2>1, <2>2, <2>3
  <2> QED
    BY <2>4, <2>5
<1>4. ASSUME OneKind, NEW c \in 1 .. n, shown'[c] # 0
      PROVE  /\ calls[c].output => FirstOfCall(c, shown[c], FALSE, TRUE)'
             /\ calls[c].input => FirstOfCall(c, shown[c], TRUE, FALSE)'
  <2>1. CASE c \in 1 .. Len(shown)
    BY <1>2, <1>3, <1>4, <2>1
  <2>2. CASE c = n
    <3>1. shown'[c] = d /\ d # 0
      BY <1>2, <1>4, <2>2
    <3>2. /\ calls[c].output => FirstOfCall(c, d, FALSE, TRUE)'
          /\ calls[c].input => FirstOfCall(c, d, TRUE, FALSE)'
      BY <2>2, <3>1
    <3> QED
      BY <3>1, <3>2
  <2>3. c \in 1 .. Len(shown) \/ c = n
    BY <1>1
  <2> QED
    BY <2>1, <2>2, <2>3
<1> QED
  BY <1>2, <1>4, ShownIsNext

(* get_domain keeps the domains symmetric, if it asks for both directions  *)
(* or for neither.                                                         *)
LEMMA GetsSymmetric ==
  ASSUME NEW id, NEW domain, NEW rate, NEW input \in BOOLEAN,
         NEW output \in BOOLEAN, NEW d, NEW ins, NEW outs, NEW new,
         Gets(new, d, id, domain, rate, input, output, ins, outs),
         input = output, Symmetric(domains)
  PROVE  Symmetric(new)
<1>1. /\ Finds(new, d, id, domain, rate, input, output)
      /\ Len(domains) \in Nat /\ Len(new) \in Nat /\ d \in 1 .. Len(new)
  BY DEF Gets, Finds
<1>2. ASSUME NEW e \in 1 .. Len(new), e # d
      PROVE  new[e].input = new[e].output
  <2>1. e \in 1 .. Len(domains) /\ new[e] = domains[e]
    BY <1>1, <1>2 DEF Finds
  <2> QED
    BY <2>1 DEF Symmetric
<1>3. new[d].input = new[d].output
  <2>1. CASE /\ d \in 1 .. Len(domains)
             /\ new[d].input = (domains[d].input \/ input)
             /\ new[d].output = (domains[d].output \/ output)
    <3>1. domains[d].input = domains[d].output
      BY <2>1 DEF Symmetric
    <3> QED
      BY <2>1, <3>1
  <2>2. CASE new[d].input = input /\ new[d].output = output
    BY <2>2
  <2> QED
    BY <1>1, <2>1, <2>2 DEF Finds
<1> QED
  BY <1>1, <1>2, <1>3 DEF Symmetric

LEMMA CallShown ==
  ASSUME Types, CursorInv, Types', ShownInv, SetupMaster \/ GetDomainPtr
  PROVE  ShownInv'
<1>1. /\ pc = "blocks" /\ n <= Len(calls) /\ calls' = calls
  BY SetupMasterIs, GetDomainPtrIs DEF Types
<1>2. \/ shown' = Append(shown, 0) /\ domains' = domains
      \/ pc' = "crashed"
      \/ \E created \in BOOLEAN :
           /\ domains' = CallDomains(created)
           /\ shown' = Append(shown, IF domains'[CallDomain].handle
                                     THEN CallDomain ELSE 0)
  BY SetupMasterIs, GetDomainPtrIs DEF Types
<1>3. BothAtOnce => Symmetric(domains)
  BY <1>1, ShownIs
<1>4. CASE shown' = Append(shown, 0) /\ domains' = domains
  <2>1. Keep
    BY <1>4 DEF Keep, Types
  <2>2. BothAtOnce => Symmetric(domains')
    BY <1>3, <1>4
  <2> QED
    BY <1>1, <1>4, <2>1, <2>2, CallShows
<1>5. CASE pc' = "crashed"
  BY <1>1, <1>5, ShownIsNext DEF Lives, Configuring
<1>6. ASSUME NEW created \in BOOLEAN, domains' = CallDomains(created),
             shown' = Append(shown, IF domains'[CallDomain].handle
                                    THEN CallDomain ELSE 0)
      PROVE  ShownInv'
  <2>1. PICK d, id, domain, rate, input, output, c :
          /\ d = CallDomain /\ id = calls[n].master /\ c = n
          /\ domain = calls[n].domain /\ rate = Rate[calls[n].tid]
          /\ input = calls[n].input /\ output = calls[n].output
    OBVIOUS
  <2>2. Gets(domains', d, id, domain, rate, input, output, 0, 0)
    BY <1>1, <1>6, <2>1, CallGets
  <2>3. input \in BOOLEAN /\ output \in BOOLEAN /\ c \in 1 .. Len(calls)
    BY <1>1, <2>1, CurrentCall
  <2>4. /\ output => IsFirst(d, id, domain, rate, FALSE, TRUE)'
        /\ input => IsFirst(d, id, domain, rate, TRUE, FALSE)'
    BY <2>2, <2>3, GetsFirst
  <2>5. /\ calls'[c].master = id /\ calls'[c].domain = domain
        /\ Rate[calls'[c].tid] = rate
    BY <1>1, <2>1
  <2>6. /\ output => FirstOfCall(c, d, FALSE, TRUE)'
        /\ input => FirstOfCall(c, d, TRUE, FALSE)'
    BY <2>4, <2>5 DEF FirstOfCall
  <2>7. BothAtOnce => Symmetric(domains')
    <3>1. BothAtOnce => input = output
      BY <2>1, <2>3 DEF BothAtOnce
    <3> QED
      BY <1>3, <2>2, <2>3, <3>1, GetsSymmetric
  <2>8. Keep \/ ~OneKind
    <3>1. CASE BothAtOnce
      <4>1. d \in 1 .. Len(domains) => domains[d].input = domains[d].output
        BY <1>3, <3>1 DEF Symmetric
      <4> QED
        BY <2>2, <2>3, <4>1, GetsKeep
    <3>2. CASE \A x \in 1 .. Len(calls) : ~(calls[x].input /\ calls[x].output)
      <4>1. ~input \/ ~output
        BY <2>1, <2>3, <3>2
      <4> QED
        BY <2>2, <2>3, <4>1, GetsKeep
    <3> QED
      BY <3>1, <3>2 DEF OneKind, BothAtOnce
  <2>9. PICK x : shown' = Append(shown, x) /\ (x = d \/ x = 0)
    BY <1>6, <2>1
  <2>10. x # 0 =>
           /\ calls[n].output => \A y : y = n => FirstOfCall(y, x, FALSE, TRUE)'
           /\ calls[n].input => \A y : y = n => FirstOfCall(y, x, TRUE, FALSE)'
    BY <2>1, <2>6, <2>9
  <2> QED
    BY <1>1, <2>7, <2>8, <2>9, <2>10, CallShows
<1> QED
  BY <1>2, <1>4, <1>5, <1>6

LEMMA InitShown == Init => ShownInv
<1> SUFFICES ASSUME Init PROVE ShownInv
  OBVIOUS
<1>1. Len(shown) = 0 /\ Len(domains) = 0
  BY DEF Init
<1> QED
  BY <1>1, ShownIs DEF Symmetric

-----------------------------------------------------------------------------
(* The counters of the domains *)

LEMMA SumGrows ==
  ASSUME NEW w, NEW v, NEW k \in Nat, NEW a, IsSum(w, k, a),
         \A s \in 1 .. k : v[s] = w[s], v[k + 1] \in Nat
  PROVE  IsSum(v, k + 1, a + v[k + 1])
<1>1. IsSum(v, k, a)
  BY SumOfSame
<1> QED
  BY <1>1, SumOfOneMore

LEMMA CountIsNext ==
  CountInv' <=>
    (Lives' => \A d \in 1 .. Len(domains') :
                 /\ IsSum(RxOf(d)', RxDone', domains'[d].outs)
                 /\ IsSum(TxOf(d)', TxDone', domains'[d].ins))
BY DEF CountInv

LEMMA DoneType ==
  ASSUME Types, CursorInv, Lives
  PROVE  /\ RxDone \in Nat /\ RxDone <= Len(slaves)
         /\ TxDone \in Nat /\ TxDone <= Len(slaves)
<1>1. /\ n \in Nat \ {0} /\ Len(slaves) \in Nat
      /\ pc \in Configuring => n \in 1 .. Len(slaves) + 1
      /\ pc \in {"rxpdo", "txpdo"} => n <= Len(slaves)
  BY InputTypes DEF CursorInv, Types
<1> QED
  BY <1>1 DEF Lives, RxDone, TxDone, Configuring

(* The counters, of a domain that is still to come as well.                *)
LEMMA HadIsSum ==
  ASSUME Types, CursorInv, CountInv, Lives, NEW d \in Nat, d # 0
  PROVE  /\ IsSum(RxOf(d), RxDone, HadOuts(d))
         /\ IsSum(TxOf(d), TxDone, HadIns(d))
<1>1. CASE d \in 1 .. Len(domains)
  BY <1>1 DEF CountInv, HadOuts, HadIns
<1>2. CASE d \notin 1 .. Len(domains)
  <2>1. HadOuts(d) = 0 /\ HadIns(d) = 0
    BY <1>2 DEF HadOuts, HadIns
  <2>2. /\ RxDone \in Nat /\ RxDone <= Len(slaves)
        /\ TxDone \in Nat /\ TxDone <= Len(slaves)
        /\ Len(slaves) \in Nat /\ Len(domains) \in Nat
    BY DoneType, InputTypes DEF Types
  <2>3. \A s \in 1 .. Len(slaves) : rxDomain[s] # d /\ txDomain[s] # d
    BY <1>2, <2>2 DEF CursorInv
  <2>4. \A s \in 1 .. Len(slaves) : RxOf(d)[s] = 0 /\ TxOf(d)[s] = 0
    BY <2>3 DEF RxOf, TxOf
  <2>5. /\ \A s \in 1 .. RxDone : RxOf(d)[s] = 0
        /\ \A s \in 1 .. TxDone : TxOf(d)[s] = 0
    BY <2>2, <2>4
  <2> QED
    BY <2>1, <2>2, <2>5, SumOfZeros
<1> QED
  BY <1>1, <1>2

LEMMA GetsCounts ==
  ASSUME NEW id, NEW domain, NEW rate, NEW input, NEW output, NEW d,
         NEW ins, NEW outs,
         Gets(domains', d, id, domain, rate, input, output, ins, outs)
  PROVE  /\ domains'[d].ins = HadIns(d) + ins
         /\ domains'[d].outs = HadOuts(d) + outs
         /\ d \in 1 .. Len(domains') /\ Len(domains') \in Nat
         /\ \A e \in 1 .. Len(domains') : e # d =>
              domains'[e].ins = HadIns(e) /\ domains'[e].outs = HadOuts(e)
         /\ HadIns(d) \in Nat /\ HadOuts(d) \in Nat
<1>1. /\ domains'[d].ins = HadIns(d) + ins
      /\ domains'[d].outs = HadOuts(d) + outs
      /\ HadIns(d) \in Nat /\ HadOuts(d) \in Nat
      /\ Finds(domains', d, id, domain, rate, input, output)
  BY DEF Gets
<1>2. /\ Len(domains) \in Nat /\ Len(domains') \in Nat
      /\ d \in 1 .. Len(domains')
      /\ \A e \in 1 .. Len(domains) : e # d => domains'[e] = domains[e]
      /\ Len(domains') = Len(domains)
           \/ (d = Len(domains) + 1 /\ Len(domains') = d)
  BY <1>1 DEF Finds
<1>3. ASSUME NEW e \in 1 .. Len(domains'), e # d
      PROVE  domains'[e].ins = HadIns(e) /\ domains'[e].outs = HadOuts(e)
  <2>1. e \in 1 .. Len(domains) /\ domains'[e] = domains[e]
    BY <1>2, <1>3
  <2> QED
    BY <2>1 DEF HadIns, HadOuts
<1> QED
  BY <1>1, <1>2, <1>3

LEMMA SameCount ==
  ASSUME Types, CursorInv, CountInv,
         StartTrailer \/ InitSlave \/ Activate \/ Convert
  PROVE  CountInv'
<1>1. /\ slaves' = slaves /\ domains' = domains
      /\ rxDomain' = rxDomain /\ txDomain' = txDomain
      /\ Lives' => Lives /\ RxDone' = RxDone /\ TxDone' = TxDone
  BY SameDone
<1>2. \A d : RxOf(d)' = RxOf(d) /\ TxOf(d)' = TxOf(d)
  BY <1>1 DEF RxOf, TxOf
<1> QED
  BY <1>1, <1>2, CountIsNext DEF CountInv

LEMMA CallCount ==
  ASSUME Types, CursorInv, CountInv, SetupMaster \/ GetDomainPtr
  PROVE  CountInv'
<1>1. /\ pc = "blocks" /\ n <= Len(calls) /\ slaves' = slaves
      /\ rxDomain' = rxDomain /\ txDomain' = txDomain
  BY SetupMasterIs, GetDomainPtrIs DEF Types
<1>2. Lives /\ RxDone = 0 /\ TxDone = 0
  BY <1>1 DEF Lives, RxDone, TxDone, Configuring
<1>3. Lives' => RxDone' = 0 /\ TxDone' = 0
  <2>1. pc' = "crashed" \/ CallDone
    BY SetupMasterIs, GetDomainPtrIs DEF Types
  <2> QED
    BY <2>1 DEF CallDone, Lives, RxDone, TxDone, Configuring
<1>4. \A d : RxOf(d)' = RxOf(d) /\ TxOf(d)' = TxOf(d)
  BY <1>1 DEF RxOf, TxOf
<1>5. \A e \in 1 .. Len(domains') : /\ domains'[e].ins = HadIns(e)
                                    /\ domains'[e].outs = HadOuts(e)
                                    /\ e \in Nat /\ e # 0
  <2>1. CASE domains' = domains
    BY <2>1 DEF HadIns, HadOuts
  <2>2. ASSUME NEW created \in BOOLEAN, domains' = CallDomains(created)
        PROVE  \A e \in 1 .. Len(domains') :
                 /\ domains'[e].ins = HadIns(e)
                 /\ domains'[e].outs = HadOuts(e)
                 /\ e \in Nat /\ e # 0
    BY <1>1, <2>2, CallGets, GetsCounts
  <2> QED
    BY <2>1, <2>2, SetupMasterIs, GetDomainPtrIs DEF Types
<1> QED
  BY <1>2, <1>3, <1>4, <1>5, HadIsSum, CountIsNext

LEMMA RegisterRxPdosCount ==
  ASSUME Types, CursorInv, Types', ServedInv, CountInv, RegisterRxPdos
  PROVE  CountInv'
<1> SUFFICES ASSUME Lives' PROVE CountInv'
  BY CountIsNext
<1>1. /\ pc = "rxpdo" /\ n <= Len(slaves) /\ pc' = "txpdo"
      /\ slaves' = slaves /\ n' = n /\ txDomain' = txDomain
      /\ \/ /\ slaves[n].rxpdo = 0
            /\ domains' = domains /\ rxDomain' = rxDomain
         \/ slaves[n].rxpdo > 0 /\ RxDomain(domains', slaves[n].rxpdo)
  BY RegisterRxPdosIs DEF Lives, Configuring
<1>2. /\ n \in 1 .. Len(slaves) /\ n \in Nat /\ Len(slaves) \in Nat
      /\ slaves[n].rxpdo \in Nat /\ Len(domains) \in Nat
  BY <1>1, CurrentSlave DEF Configuring
<1>3. /\ Lives /\ RxDone = n - 1 /\ TxDone = n - 1
      /\ RxDone' = n /\ TxDone' = n - 1
  BY <1>1 DEF Lives, RxDone, TxDone, Configuring
<1> DEFINE k == n - 1
<1>4. k \in Nat /\ n = k + 1 /\ \A s \in 1 .. k : s \in 1 .. Len(slaves) /\ s # n
  BY <1>2
<1>5. \A e : e \in Nat /\ e # 0 => /\ IsSum(RxOf(e), k, HadOuts(e))
                                   /\ IsSum(TxOf(e), k, HadIns(e))
  BY <1>3, HadIsSum
<1>6. \A e : TxOf(e)' = TxOf(e)
  BY <1>1 DEF TxOf
<1> HIDE DEF k
<1>7. ASSUME slaves[n].rxpdo = 0, domains' = domains, rxDomain' = rxDomain
      PROVE  CountInv'
  <2> SUFFICES ASSUME NEW e \in 1 .. Len(domains)
               PROVE  /\ IsSum(RxOf(e)', n, domains[e].outs)
                      /\ IsSum(TxOf(e), k, domains[e].ins)
    BY <1>3, <1>6, <1>7, CountIsNext DEF k
  <2>1. e \in Nat /\ e # 0 /\ HadOuts(e) = domains[e].outs
          /\ HadIns(e) = domains[e].ins
    BY DEF HadOuts, HadIns
  <2>2. RxOf(e)' = RxOf(e) /\ RxOf(e)[n] = 0
    BY <1>1, <1>2, <1>7 DEF RxOf
  <2>3. IsSum(RxOf(e), k, domains[e].outs)
    BY <1>5, <2>1
  <2>4. IsSum(RxOf(e), k + 1, domains[e].outs + 0)
    <3>1. RxOf(e)[k + 1] = 0
      BY <1>4, <2>2
    <3> QED
      BY <1>4, <2>3, <3>1, SumOfOneMore
  <2>5. domains[e].outs + 0 = domains[e].outs
    BY <2>3, <1>4, SumType
  <2> QED
    BY <1>4, <1>5, <2>1, <2>2, <2>4, <2>5
<1>8. ASSUME RxDomain(domains', slaves[n].rxpdo), slaves[n].rxpdo > 0
      PROVE  CountInv'
  <2>0. slaves[n].rxpdo # 0
    BY <1>2, <1>8
  <2>1. PICK d : /\ Gets(domains', d, slaves[n].master, slaves[n].domain,
                         Rate[slaves[n].tid], FALSE, TRUE, 0, slaves[n].rxpdo)
                 /\ rxDomain' = [rxDomain EXCEPT ![n] = d]
    BY <1>8, <2>0 DEF RxDomain
  <2>2. /\ domains'[d].ins = HadIns(d) + 0
        /\ domains'[d].outs = HadOuts(d) + slaves[n].rxpdo
        /\ d \in 1 .. Len(domains') /\ Len(domains') \in Nat
        /\ \A e \in 1 .. Len(domains') : e # d =>
             domains'[e].ins = HadIns(e) /\ domains'[e].outs = HadOuts(e)
        /\ HadIns(d) \in Nat /\ HadOuts(d) \in Nat
    BY <2>1, GetsCounts
  <2>3. /\ rxDomain'[n] = d
        /\ \A s \in 1 .. Len(slaves) : s # n => rxDomain'[s] = rxDomain[s]
    BY <1>2, <2>1 DEF CursorInv
  <2> SUFFICES ASSUME NEW e \in 1 .. Len(domains')
               PROVE  /\ IsSum(RxOf(e)', n, domains'[e].outs)
                      /\ IsSum(TxOf(e), k, domains'[e].ins)
    BY <1>3, <1>6, CountIsNext DEF k
  <2>4. e \in Nat /\ e # 0
    BY <2>2
  <2>5. IsSum(RxOf(e), k, HadOuts(e)) /\ IsSum(TxOf(e), k, HadIns(e))
    BY <1>5, <2>4
  <2>6. HadOuts(e) \in Nat /\ HadIns(e) \in Nat
    BY <1>4, <2>5, SumType
  <2>7. /\ \A s \in 1 .. k : RxOf(e)'[s] = RxOf(e)[s]
        /\ RxOf(e)'[n] = IF e = d THEN slaves[n].rxpdo ELSE 0
    BY <1>1, <1>2, <1>4, <2>3 DEF RxOf
  <2>8. IsSum(RxOf(e)', k + 1, HadOuts(e) + RxOf(e)'[k + 1])
    <3>1. RxOf(e)'[k + 1] \in Nat
      BY <1>2, <1>4, <2>7
    <3>2. \A s \in 1 .. k : RxOf(e)'[s] = RxOf(e)[s]
      BY <2>7
    <3> QED
      BY <1>4, <2>5, <3>1, <3>2, SumGrows
  <2>9. domains'[e].outs = HadOuts(e) + RxOf(e)'[n]
          /\ domains'[e].ins = HadIns(e)
    BY <2>2, <2>6, <2>7
  <2> QED
    BY <1>4, <2>5, <2>8, <2>9
<1> QED
  BY <1>1, <1>7, <1>8

LEMMA RegisterTxPdosCount ==
  ASSUME Types, CursorInv, Types', ServedInv, CountInv, RegisterTxPdos
  PROVE  CountInv'
<1> SUFFICES ASSUME Lives' PROVE CountInv'
  BY CountIsNext
<1>1. /\ pc = "txpdo" /\ n <= Len(slaves) /\ pc' = "slaves"
      /\ slaves' = slaves /\ n' = n + 1 /\ rxDomain' = rxDomain
      /\ \/ /\ slaves[n].txpdo = 0
            /\ domains' = domains /\ txDomain' = txDomain
         \/ slaves[n].txpdo > 0 /\ TxDomain(domains', slaves[n].txpdo)
  BY RegisterTxPdosIs DEF Lives, Configuring
<1>2. /\ n \in 1 .. Len(slaves) /\ n \in Nat /\ Len(slaves) \in Nat
      /\ slaves[n].txpdo \in Nat /\ Len(domains) \in Nat
  BY <1>1, CurrentSlave DEF Configuring
<1>3. /\ Lives /\ RxDone = n /\ TxDone = n - 1
      /\ RxDone' = n /\ TxDone' = n
  BY <1>1, <1>2 DEF Lives, RxDone, TxDone, Configuring
<1> DEFINE k == n - 1
<1>4. k \in Nat /\ n = k + 1 /\ \A s \in 1 .. k : s \in 1 .. Len(slaves) /\ s # n
  BY <1>2
<1>5. \A e : e \in Nat /\ e # 0 => /\ IsSum(RxOf(e), n, HadOuts(e))
                                   /\ IsSum(TxOf(e), k, HadIns(e))
  BY <1>3, HadIsSum
<1>6. \A e : RxOf(e)' = RxOf(e)
  BY <1>1 DEF RxOf
<1> HIDE DEF k
<1>7. ASSUME slaves[n].txpdo = 0, domains' = domains, txDomain' = txDomain
      PROVE  CountInv'
  <2> SUFFICES ASSUME NEW e \in 1 .. Len(domains)
               PROVE  /\ IsSum(RxOf(e), n, domains[e].outs)
                      /\ IsSum(TxOf(e)', n, domains[e].ins)
    BY <1>3, <1>6, <1>7, CountIsNext DEF k
  <2>1. e \in Nat /\ e # 0 /\ HadOuts(e) = domains[e].outs
          /\ HadIns(e) = domains[e].ins
    BY DEF HadOuts, HadIns
  <2>2. TxOf(e)' = TxOf(e) /\ TxOf(e)[n] = 0
    BY <1>1, <1>2, <1>7 DEF TxOf
  <2>3. IsSum(TxOf(e), k, domains[e].ins)
    BY <1>5, <2>1
  <2>4. IsSum(TxOf(e), k + 1, domains[e].ins + 0)
    <3>1. TxOf(e)[k + 1] = 0
      BY <1>4, <2>2
    <3> QED
      BY <1>4, <2>3, <3>1, SumOfOneMore
  <2>5. domains[e].ins + 0 = domains[e].ins
    BY <2>3, <1>4, SumType
  <2> QED
    BY <1>4, <1>5, <2>1, <2>2, <2>4, <2>5
<1>8. ASSUME TxDomain(domains', slaves[n].txpdo), slaves[n].txpdo > 0
      PROVE  CountInv'
  <2>0. slaves[n].txpdo # 0
    BY <1>2, <1>8
  <2>1. PICK d : /\ Gets(domains', d, slaves[n].master, slaves[n].domain,
                         Rate[slaves[n].tid], TRUE, FALSE, slaves[n].txpdo, 0)
                 /\ txDomain' = [txDomain EXCEPT ![n] = d]
    BY <1>8, <2>0 DEF TxDomain
  <2>2. /\ domains'[d].ins = HadIns(d) + slaves[n].txpdo
        /\ domains'[d].outs = HadOuts(d) + 0
        /\ d \in 1 .. Len(domains') /\ Len(domains') \in Nat
        /\ \A e \in 1 .. Len(domains') : e # d =>
             domains'[e].ins = HadIns(e) /\ domains'[e].outs = HadOuts(e)
        /\ HadIns(d) \in Nat /\ HadOuts(d) \in Nat
    BY <2>1, GetsCounts
  <2>3. /\ txDomain'[n] = d
        /\ \A s \in 1 .. Len(slaves) : s # n => txDomain'[s] = txDomain[s]
    BY <1>2, <2>1 DEF CursorInv
  <2> SUFFICES ASSUME NEW e \in 1 .. Len(domains')
               PROVE  /\ IsSum(RxOf(e), n, domains'[e].outs)
                      /\ IsSum(TxOf(e)', n, domains'[e].ins)
    BY <1>3, <1>6, CountIsNext DEF k
  <2>4. e \in Nat /\ e # 0
    BY <2>2
  <2>5. IsSum(RxOf(e), n, HadOuts(e)) /\ IsSum(TxOf(e), k, HadIns(e))
    BY <1>5, <2>4
  <2>6. HadOuts(e) \in Nat /\ HadIns(e) \in Nat
    BY <1>2, <1>4, <2>5, SumType
  <2>7. /\ \A s \in 1 .. k : TxOf(e)'[s] = TxOf(e)[s]
        /\ TxOf(e)'[n] = IF e = d THEN slaves[n].txpdo ELSE 0
    BY <1>1, <1>2, <1>4, <2>3 DEF TxOf
  <2>8. IsSum(TxOf(e)', k + 1, HadIns(e) + TxOf(e)'[k + 1])
    <3>1. TxOf(e)'[k + 1] \in Nat
      BY <1>2, <1>4, <2>7
    <3>2. \A s \in 1 .. k : TxOf(e)'[s] = TxOf(e)[s]
      BY <2>7
    <3> QED
      BY <1>4, <2>5, <3>1, <3>2, SumGrows
  <2>9. domains'[e].ins = HadIns(e) + TxOf(e)'[n]
          /\ domains'[e].outs = HadOuts(e)
    BY <2>2, <2>6, <2>7
  <2> QED
    BY <1>4, <2>5, <2>8, <2>9
<1> QED
  BY <1>1, <1>7, <1>8

LEMMA InitCount == Init => CountInv
<1> SUFFICES ASSUME Init PROVE CountInv
  OBVIOUS
<1>1. Len(domains) = 0
  BY DEF Init
<1> QED
  BY <1>1 DEF CountInv

-----------------------------------------------------------------------------
(* The lists of conversions *)

(* k PDOs of slave m are put into array a at element at: it becomes b.     *)
Puts(a, b, at, m, dir, k) ==
  /\ DOMAIN b = DOMAIN a
  /\ \A i \in DOMAIN a :
       b[i] = IF i \in at .. at + k - 1 THEN <<m, dir, i - at + 1>> ELSE a[i]

LEMMA HoldsMore ==
  ASSUME NEW a, NEW b, NEW first \in Nat, NEW count \in Nat, NEW last \in Nat,
         NEW dir, NEW w, NEW m \in Nat, NEW k \in Nat, k = w[m + 1],
         \A i \in first .. last : i \in DOMAIN a,
         first + count + k <= last,
         Puts(a, b, first + count, m + 1, dir, k),
         Holds(a, first, count, last, dir, w, m)
  PROVE  Holds(b, first, count + k, last, dir, w, m + 1)
<1> DEFINE at == first + count
<1>1. at \in Nat /\ at + k <= last /\ first <= at
  OBVIOUS
<1>2. \A i \in first .. last :
        b[i] = IF i \in at .. at + k - 1 THEN <<m + 1, dir, i - at + 1>>
                                         ELSE a[i]
  BY DEF Puts
<1>3. ASSUME NEW i \in first .. first + (count + k) - 1
      PROVE  \E s \in 1 .. m + 1 : \E q \in 1 .. w[s] : b[i] = <<s, dir, q>>
  <2>1. CASE i \in first .. at - 1
    <3>0. i \in first .. last /\ i \notin at .. at + k - 1
      BY <1>1, <2>1
    <3>1. b[i] = a[i]
      BY <1>2, <3>0
    <3>2. PICK s \in 1 .. m : \E q \in 1 .. w[s] : a[i] = <<s, dir, q>>
      BY <2>1 DEF Holds
    <3>3. s \in 1 .. m + 1
      OBVIOUS
    <3> QED
      BY <3>1, <3>2, <3>3
  <2>2. CASE i \in at .. at + k - 1
    <3>0. i \in first .. last /\ i \in at .. at + k - 1
      BY <1>1, <2>2
    <3>1. b[i] = <<m + 1, dir, i - at + 1>>
      BY <1>2, <3>0
    <3>2. i - at + 1 \in 1 .. w[m + 1] /\ m + 1 \in 1 .. m + 1
      BY <1>1, <2>2
    <3> QED
      BY <3>1, <3>2
  <2> QED
    BY <1>1, <2>1, <2>2
<1>4. ASSUME NEW s \in 1 .. m + 1, NEW q \in 1 .. w[s]
      PROVE  \E i \in first .. first + (count + k) - 1 : b[i] = <<s, dir, q>>
  <2>1. CASE s \in 1 .. m
    <3>1. PICK i \in first .. first + count - 1 : a[i] = <<s, dir, q>>
      BY <2>1 DEF Holds
    <3>2. i \in first .. last /\ i \notin at .. at + k - 1
            /\ i \in first .. first + (count + k) - 1
      BY <1>1, <3>1
    <3>3. b[i] = a[i]
      BY <1>2, <3>2
    <3> QED
      BY <3>1, <3>2, <3>3
  <2>2. CASE s = m + 1
    <3> DEFINE i == at + q - 1
    <3>1. q \in 1 .. k
      BY <2>2
    <3>2. /\ i \in at .. at + k - 1 /\ i \in first .. last /\ i - at + 1 = q
          /\ i \in first .. first + (count + k) - 1
      BY <1>1, <3>1
    <3>3. b[i] = <<m + 1, dir, q>>
      BY <1>2, <3>2
    <3> QED
      BY <2>2, <3>2, <3>3
  <2> QED
    BY <2>1, <2>2
<1>5. ASSUME NEW i \in first + (count + k) .. last
      PROVE  b[i] = Zero
  <2>1. i \in first + count .. last /\ i \in first .. last
          /\ i \notin at .. at + k - 1
    BY <1>1
  <2> QED
    BY <1>2, <2>1 DEF Holds
<1> QED
  BY <1>3, <1>4, <1>5 DEF Holds

(* Nothing changes if the slave has no PDO there, or has it elsewhere.     *)
LEMMA HoldsSame ==
  ASSUME NEW a, NEW b, NEW first \in Nat, NEW count \in Nat, NEW last \in Nat,
         NEW dir, NEW w, NEW m \in Nat, first + count <= last + 1,
         \A i \in first .. last : b[i] = a[i],
         Holds(a, first, count, last, dir, w, m)
  PROVE  Holds(b, first, count, last, dir, w, m)
<1>1. /\ \A i \in first .. first + count - 1 : b[i] = a[i]
      /\ \A i \in first + count .. last : b[i] = a[i]
  OBVIOUS
<1> QED
  BY <1>1 DEF Holds

LEMMA HoldsNothing ==
  ASSUME NEW a, NEW first \in Nat, NEW last \in Nat, NEW dir, NEW w,
         \A i \in first .. last : a[i] = Zero
  PROVE  Holds(a, first, 0, last, dir, w, 0)
BY DEF Holds

(* The fields of list l1, that has got k PDOs of slave m more than l.      *)
RxPut(l, l1, m, k) ==
  /\ DOMAIN l1 = DOMAIN l /\ l1.output = l.output
  /\ l1.input_count = l.input_count /\ l1.output_count = l.output_count + k
  /\ Puts(l.array, l1.array, l.output + l.output_count, m, "rx", k)
TxPut(l, l1, m, k) ==
  /\ DOMAIN l1 = DOMAIN l /\ l1.output = l.output
  /\ l1.input_count = l.input_count + k /\ l1.output_count = l.output_count
  /\ Puts(l.array, l1.array, l.input_count, m, "tx", k)

LEMMA ListForMore ==
  ASSUME NEW l, NEW ins \in Nat, NEW outs \in Nat, NEW rx, NEW tx,
         NEW m \in Nat, NEW j \in Nat, NEW k \in Nat,
         j = rx[m + 1], k = tx[m + 1],
         ListFor(l, ins, outs, rx, tx, m),
         l.output_count + j <= outs, l.input_count + k <= ins,
         NEW l1, RxPut(l, l1, m + 1, j),
         NEW l2, TxPut(l1, l2, m + 1, k)
  PROVE  ListFor(l2, ins, outs, rx, tx, m + 1)
<1> DEFINE last == ins + outs + 1
           a == l.array
           b == l1.array
           c == l2.array
           ic == l.input_count
           oc == l.output_count
           out == ins + 1
<1>1. /\ DOMAIN l = {"array", "output", "input_count", "output_count"}
      /\ DOMAIN a = 0 .. last /\ l.output = out
      /\ IsSum(tx, m, ic) /\ IsSum(rx, m, oc)
      /\ Holds(a, 0, ic, ins, "tx", tx, m)
      /\ Holds(a, out, oc, last, "rx", rx, m)
  BY DEF ListFor
<1>2. ic \in Nat /\ oc \in Nat
  BY <1>1, SumType
<1>3. /\ DOMAIN l2 = DOMAIN l /\ l2.output = out
      /\ l2.input_count = ic + k /\ l2.output_count = oc + j
      /\ Puts(a, b, out + oc, m + 1, "rx", j)
      /\ Puts(b, c, ic, m + 1, "tx", k)
  BY <1>1 DEF RxPut, TxPut
<1>4. ic + k <= ins /\ oc + j <= outs
  OBVIOUS
<1> HIDE DEF a, b, c, ic, oc
<1>5. DOMAIN b = 0 .. last /\ DOMAIN c = 0 .. last
  BY <1>1, <1>3 DEF Puts
<1>6. \A i \in 0 .. ins : b[i] = a[i]
  <2> TAKE i \in 0 .. ins
  <2>1. i \in 0 .. last /\ i \notin out + oc .. out + oc + j - 1
    BY <1>2
  <2> QED
    BY <1>1, <1>3, <2>1 DEF Puts
<1>7. \A i \in out .. last : c[i] = b[i]
  <2> TAKE i \in out .. last
  <2>1. i \in 0 .. last /\ i \notin ic .. ic + k - 1
    BY <1>2, <1>4
  <2> QED
    BY <1>5, <1>3, <2>1 DEF Puts
<1>8. /\ out \in Nat /\ last \in Nat
      /\ out + oc + j <= last /\ out + (oc + j) <= last + 1
      /\ 0 + ic <= ins + 1 /\ 0 + ic + k <= ins /\ 0 + ic = ic
      /\ \A i \in out .. last : i \in 0 .. last
      /\ \A i \in 0 .. ins : i \in 0 .. last
      /\ oc + j \in Nat /\ m + 1 \in Nat
  BY <1>2, <1>4
<1> HIDE DEF out, last
<1>9. Holds(b, out, oc + j, last, "rx", rx, m + 1)
  BY <1>1, <1>2, <1>3, <1>8, HoldsMore
<1>10. Holds(c, out, oc + j, last, "rx", rx, m + 1)
  BY <1>7, <1>8, <1>9, HoldsSame
<1>11. Holds(b, 0, ic, ins, "tx", tx, m)
  BY <1>1, <1>2, <1>6, <1>8, HoldsSame
<1>12. Holds(c, 0, ic + k, ins, "tx", tx, m + 1)
  BY <1>2, <1>3, <1>5, <1>8, <1>11, HoldsMore
<1>13. IsSum(tx, m + 1, ic + k) /\ IsSum(rx, m + 1, oc + j)
  BY <1>1, SumOfOneMore
<1> QED
  BY <1>1, <1>3, <1>5, <1>10, <1>12, <1>13 DEF ListFor, c, out, last

(* What FillRx and FillTx do to the list of a domain: they put the PDOs of *)
(* the slave, if it is the domain's, there.                                *)
LEMMA FillRxPuts ==
  ASSUME NEW lists, NEW s \in 1 .. Len(slaves), NEW d \in DOMAIN lists,
         DOMAIN lists[d] = {"array", "output", "input_count", "output_count"},
         lists[d].output \in Nat, lists[d].output_count \in Nat,
         slaves[s].rxpdo \in Nat, slaves[s].rxpdo = 0 => rxDomain[s] # d
  PROVE  RxPut(lists[d], FillRx(lists, s)[d], s, RxOf(d)[s])
<1> DEFINE l == lists[d]
           k == slaves[s].rxpdo
           at == l.output + l.output_count
<1>1. CASE rxDomain[s] # d
  <2>1. FillRx(lists, s)[d] = l
    BY <1>1 DEF FillRx
  <2>2. RxOf(d)[s] = 0
    BY <1>1 DEF RxOf
  <2>3. at \in Nat /\ (\A i : i \notin at .. at + 0 - 1)
          /\ l.output_count + 0 = l.output_count
    OBVIOUS
  <2> HIDE DEF l, at
  <2>4. Puts(l.array, l.array, at, s, "rx", 0)
    BY <2>3 DEF Puts
  <2> QED
    BY <2>1, <2>2, <2>3, <2>4 DEF RxPut, at, l
<1>2. CASE rxDomain[s] = d
  <2> DEFINE f == [i \in DOMAIN l.array |->
                     IF i \in at .. at + k - 1 THEN <<s, "rx", i - at + 1>>
                                               ELSE l.array[i]]
             r == [l EXCEPT !.output_count = @ + k, !.array = f]
  <2>1. k # 0
    BY <1>2
  <2>2. FillRx(lists, s) = [lists EXCEPT ![d] = r]
    BY <1>2, <2>1 DEF FillRx
  <2> HIDE DEF f
  <2>3. /\ DOMAIN r = DOMAIN l /\ r.output = l.output
        /\ r.input_count = l.input_count
        /\ r.output_count = l.output_count + k /\ r.array = f
    OBVIOUS
  <2> HIDE DEF r
  <2>4. FillRx(lists, s)[d] = r
    BY <2>2
  <2>5. RxOf(d)[s] = k
    BY <1>2 DEF RxOf
  <2>6. Puts(l.array, f, at, s, "rx", k)
    <3> HIDE DEF l, at, k
    <3> QED
      BY DEF Puts, f
  <2> QED
    BY <2>3, <2>4, <2>5, <2>6 DEF RxPut
<1> QED
  BY <1>1, <1>2

LEMMA FillTxPuts ==
  ASSUME NEW lists, NEW s \in 1 .. Len(slaves), NEW d \in DOMAIN lists,
         DOMAIN lists[d] = {"array", "output", "input_count", "output_count"},
         lists[d].input_count \in Nat,
         slaves[s].txpdo \in Nat, slaves[s].txpdo = 0 => txDomain[s] # d
  PROVE  TxPut(lists[d], FillTx(lists, s)[d], s, TxOf(d)[s])
<1> DEFINE l == lists[d]
           k == slaves[s].txpdo
           at == l.input_count
<1>1. CASE txDomain[s] # d
  <2>1. FillTx(lists, s)[d] = l
    BY <1>1 DEF FillTx
  <2>2. TxOf(d)[s] = 0
    BY <1>1 DEF TxOf
  <2>3. at \in Nat /\ (\A i : i \notin at .. at + 0 - 1)
          /\ l.input_count + 0 = l.input_count
    OBVIOUS
  <2> HIDE DEF l, at
  <2>4. Puts(l.array, l.array, at, s, "tx", 0)
    BY <2>3 DEF Puts
  <2> QED
    BY <2>1, <2>2, <2>3, <2>4 DEF TxPut, at, l
<1>2. CASE txDomain[s] = d
  <2> DEFINE f == [i \in DOMAIN l.array |->
                     IF i \in at .. at + k - 1 THEN <<s, "tx", i - at + 1>>
                                               ELSE l.array[i]]
             r == [l EXCEPT !.input_count = @ + k, !.array = f]
  <2>1. k # 0
    BY <1>2
  <2>2. FillTx(lists, s) = [lists EXCEPT ![d] = r]
    BY <1>2, <2>1 DEF FillTx
  <2> HIDE DEF f
  <2>3. /\ DOMAIN r = DOMAIN l /\ r.output = l.output
        /\ r.output_count = l.output_count
        /\ r.input_count = l.input_count + k /\ r.array = f
    OBVIOUS
  <2> HIDE DEF r
  <2>4. FillTx(lists, s)[d] = r
    BY <2>2
  <2>5. TxOf(d)[s] = k
    BY <1>2 DEF TxOf
  <2>6. Puts(l.array, f, at, s, "tx", k)
    <3> HIDE DEF l, at, k
    <3> QED
      BY DEF Puts, f
  <2> QED
    BY <2>3, <2>4, <2>5, <2>6 DEF TxPut
<1> QED
  BY <1>1, <1>2

LEMMA PdosOf ==
  ASSUME CursorInv, NEW d
  PROVE  \A s \in 1 .. Len(slaves) : RxOf(d)[s] \in Nat /\ TxOf(d)[s] \in Nat
<1>1. \A s \in 1 .. Len(slaves) : slaves[s].rxpdo \in Nat
                                  /\ slaves[s].txpdo \in Nat
  BY InputTypes
<1> QED
  BY <1>1 DEF RxOf, TxOf

LEMMA ConvertLists ==
  ASSUME Types, CursorInv, ServedInv, CountInv, ListInv, Convert
  PROVE  ListInv'
<1>1. /\ pc = "convert" /\ n <= Len(slaves) /\ pc' = pc /\ n' = n + 1
      /\ list' = FillTx(FillRx(list, n), n)
      /\ slaves' = slaves /\ domains' = domains
      /\ rxDomain' = rxDomain /\ txDomain' = txDomain
  BY ConvertIs
<1>2. /\ n \in 1 .. Len(slaves) /\ n \in Nat /\ Len(slaves) \in Nat
      /\ slaves[n].rxpdo \in Nat /\ slaves[n].txpdo \in Nat
  <2>1. n \in 1 .. Len(slaves) /\ n \in Nat
    BY <1>1, InputTypes DEF CursorInv
  <2> QED
    BY <2>1, InputTypes
<1>3. Lives /\ RxDone = Len(slaves) /\ TxDone = Len(slaves)
  BY <1>1 DEF Lives, RxDone, TxDone, Configuring
<1>4. DOMAIN list' = 1 .. Len(domains) /\ Len(list') = Len(domains)
  <2>1. DOMAIN list' = 1 .. Len(domains)
    BY <1>1, FillKeepsLists DEF ListInv
  <2> QED
    BY <2>1 DEF Types
<1>5. ASSUME NEW d \in 1 .. Len(domains)
      PROVE  ListFor(list'[d], domains[d].ins, domains[d].outs,
                     RxOf(d), TxOf(d), n)
  <2> DEFINE l == list[d]
             lists == FillRx(list, n)
             m == n - 1
  <2>1. /\ domains[d].ins \in Nat /\ domains[d].outs \in Nat
        /\ IsSum(RxOf(d), Len(slaves), domains[d].outs)
        /\ IsSum(TxOf(d), Len(slaves), domains[d].ins)
    <3>1. domains[d] \in DomainRec
      BY ElementOfSeq DEF Types
    <3> QED
      BY <1>3, <3>1 DEF CountInv, DomainRec
  <2>2. ListFor(l, domains[d].ins, domains[d].outs, RxOf(d), TxOf(d), m)
    BY <1>1 DEF ListInv
  <2>3. m \in Nat /\ n = m + 1 /\ m < Len(slaves)
    BY <1>2
  <2>4. /\ DOMAIN l = {"array", "output", "input_count", "output_count"}
        /\ l.output = domains[d].ins + 1
        /\ IsSum(TxOf(d), m, l.input_count)
        /\ IsSum(RxOf(d), m, l.output_count)
    BY <2>2 DEF ListFor
  <2>5. l.input_count \in Nat /\ l.output_count \in Nat /\ l.output \in Nat
    <3> HIDE DEF l, m
    <3> QED
      BY <2>1, <2>3, <2>4, SumType
  <2>6. /\ slaves[n].rxpdo = 0 => rxDomain[n] # d
        /\ slaves[n].txpdo = 0 => txDomain[n] # d
    <3>1. /\ rxDomain[n] # 0 => slaves[n].rxpdo > 0
          /\ txDomain[n] # 0 => slaves[n].txpdo > 0
      BY <1>2, <1>3, ServedIs
    <3>2. d # 0
      OBVIOUS
    <3> QED
      BY <1>2, <3>1, <3>2
  <2>7. d \in DOMAIN list /\ DOMAIN lists = DOMAIN list /\ d \in DOMAIN lists
    BY <1>1 DEF ListInv, FillRx
  <2>8. RxPut(l, lists[d], n, RxOf(d)[n])
    BY <1>2, <2>4, <2>5, <2>6, <2>7, FillRxPuts
  <2>9. /\ DOMAIN lists[d] = {"array", "output", "input_count", "output_count"}
        /\ lists[d].input_count \in Nat
    <3> HIDE DEF l, lists
    <3> QED
      BY <2>4, <2>5, <2>8 DEF RxPut
  <2>10. TxPut(lists[d], list'[d], n, TxOf(d)[n])
    <3> HIDE DEF lists
    <3>1. TxPut(lists[d], FillTx(lists, n)[d], n, TxOf(d)[n])
      BY <1>2, <2>6, <2>7, <2>9, FillTxPuts
    <3> QED
      BY <1>1, <3>1 DEF lists
  <2> HIDE DEF l, lists, m
  <2>11. RxOf(d)[n] \in Nat /\ TxOf(d)[n] \in Nat
    BY <1>2, PdosOf
  <2>12. /\ l.output_count + RxOf(d)[m + 1] <= domains[d].outs
         /\ l.input_count + TxOf(d)[m + 1] <= domains[d].ins
    BY <1>2, <2>1, <2>3, <2>4, PdosOf, SumHasRoom
  <2> QED
    BY <2>1, <2>2, <2>3, <2>8, <2>10, <2>11, <2>12, ListForMore
<1>6. \A d : RxOf(d)' = RxOf(d) /\ TxOf(d)' = TxOf(d)
  BY <1>1 DEF RxOf, TxOf
<1>7. n' - 1 = n
  BY <1>1, <1>2
<1> QED
  BY <1>1, <1>4, <1>5, <1>6, <1>7 DEF ListInv

LEMMA ActivateLists ==
  ASSUME Types, CursorInv, Activate
  PROVE  ListInv'
<1> SUFFICES ASSUME pc' = "convert" PROVE ListInv'
  BY DEF ListInv
<1>1. /\ list' = [d \in 1 .. Len(domains) |-> EmptyList(domains[d])]
      /\ n' = 1 /\ domains' = domains
  BY DEF Activate
<1>2. DOMAIN list' = 1 .. Len(domains) /\ Len(list') = Len(domains)
  <2>1. Len(domains) \in Nat
    BY DEF Types
  <2> QED
    BY <1>1, <2>1
<1>3. ASSUME NEW d \in 1 .. Len(domains), NEW rx, NEW tx
      PROVE  ListFor(list'[d], domains[d].ins, domains[d].outs, rx, tx, 0)
  <2> DEFINE ins == domains[d].ins
             outs == domains[d].outs
             a == [i \in 0 .. ins + outs + 1 |-> Zero]
  <2>1. ins \in Nat /\ outs \in Nat
    <3>1. domains[d] \in DomainRec
      BY ElementOfSeq DEF Types
    <3> QED
      BY <3>1 DEF DomainRec
  <2>2. list'[d] = [array |-> a, output |-> ins + 1,
                    input_count |-> 0, output_count |-> 0]
    BY <1>1 DEF EmptyList
  <2> HIDE DEF ins, outs
  <2>3. /\ DOMAIN a = 0 .. ins + outs + 1
        /\ \A i \in 0 .. ins : a[i] = Zero
        /\ \A i \in ins + 1 .. ins + outs + 1 : a[i] = Zero
    BY <2>1
  <2>4. ins + 1 \in Nat /\ ins + outs + 1 \in Nat
    BY <2>1
  <2> HIDE DEF a
  <2>5. /\ Holds(a, 0, 0, ins, "tx", tx, 0)
        /\ Holds(a, ins + 1, 0, ins + outs + 1, "rx", rx, 0)
    BY <2>1, <2>3, <2>4, HoldsNothing
  <2>6. DOMAIN list'[d] = {"array", "output", "input_count", "output_count"}
    BY <2>2
  <2>7. /\ list'[d].array = a /\ list'[d].output = ins + 1
        /\ list'[d].input_count = 0 /\ list'[d].output_count = 0
    BY <2>2
  <2> QED
    BY <2>3, <2>5, <2>6, <2>7, SumOfNone DEF ListFor, ins, outs
<1>4. n' - 1 = 0
  BY <1>1
<1> QED
  BY <1>1, <1>2, <1>3, <1>4 DEF ListInv

(* The others do not end with the lists.                                   *)
LEMMA OtherLists ==
  ASSUME Types, CursorInv,
         \/ SetupMaster \/ GetDomainPtr \/ StartTrailer \/ InitSlave
         \/ RegisterRxPdos \/ RegisterTxPdos
  PROVE  ListInv'
<1>1. pc' # "convert"
  <2>1. CASE SetupMaster \/ GetDomainPtr
    BY <2>1, SetupMasterIs, GetDomainPtrIs DEF Types, CallDone
  <2>2. CASE StartTrailer \/ InitSlave
    BY <2>2 DEF StartTrailer, InitSlave
  <2>3. CASE RegisterRxPdos \/ RegisterTxPdos
    BY <2>3, RegisterRxPdosIs, RegisterTxPdosIs
  <2> QED
    BY <2>1, <2>2, <2>3
<1> QED
  BY <1>1 DEF ListInv

-----------------------------------------------------------------------------
(* The inductive invariant *)

LEMMA InitIInv == Init => IInv
<1> SUFFICES ASSUME Init PROVE IInv
  OBVIOUS
<1>1. Types /\ CursorInv
  BY InitType
<1>2. FastestInv /\ ServedInv /\ ShownInv /\ CountInv
  BY <1>1, InitFastest, InitServed, InitShown, InitCount
<1>3. ListInv
  BY DEF Init, ListInv
<1> QED
  BY <1>1, <1>2, <1>3, TypeIs DEF IInv

LEMMA StutterIInv == IInv /\ UNCHANGED vars => IInv'
<1> SUFFICES ASSUME IInv, UNCHANGED vars PROVE IInv'
  OBVIOUS
<1>1. /\ calls' = calls /\ slaves' = slaves /\ pc' = pc /\ n' = n
      /\ failed' = failed /\ masters' = masters /\ domains' = domains
      /\ shown' = shown /\ rxDomain' = rxDomain /\ txDomain' = txDomain
      /\ list' = list
  BY DEF vars, inputs
<1>2. Types /\ CursorInv
  BY TypeIs DEF IInv
<1>3. Types' /\ CursorInv'
  BY <1>1, <1>2 DEF Types, CursorInv
<1>4. Lives' = Lives /\ InitDone' = InitDone /\ RxDone' = RxDone
        /\ TxDone' = TxDone
  BY <1>1 DEF Lives, InitDone, RxDone, TxDone
<1>5. FastestInv'
  BY <1>1, <1>4, FastestIs DEF IInv
<1>6. \A s, d : /\ FirstOfRx(s, d) => FirstOfRx(s, d)'
                /\ FirstOfTx(s, d) => FirstOfTx(s, d)'
  BY <1>1 DEF FirstOfRx, FirstOfTx, IsFirst, Suits
<1>7. ServedInv'
  BY <1>1, <1>4, <1>6, ServedIs, ServedIsNext DEF IInv
<1>8. ShownInv'
  <2>1. ShownInv
    BY DEF IInv
  <2> QED
    BY <1>1, <1>4, <2>1 DEF ShownInv, FirstFor, IsFirst, Suits, BothAtOnce,
                            OneKind
<1>9. \A d : RxOf(d)' = RxOf(d) /\ TxOf(d)' = TxOf(d)
  BY <1>1 DEF RxOf, TxOf
<1>10. CountInv'
  BY <1>1, <1>4, <1>9, CountIsNext DEF IInv, CountInv
<1>11. ListInv'
  BY <1>1, <1>9 DEF IInv, ListInv
<1> QED
  BY <1>3, <1>5, <1>7, <1>8, <1>10, <1>11, TypeIs DEF IInv

LEMMA NextIInv == IInv /\ [Next]_vars => IInv'
<1> SUFFICES ASSUME IInv, [Next]_vars PROVE IInv'
  OBVIOUS
<1>1. /\ Types /\ CursorInv /\ FastestInv /\ ServedInv /\ ShownInv
      /\ CountInv /\ ListInv
  BY TypeIs DEF IInv
<1>2. CASE SetupMaster
  BY <1>1, <1>2, SetupMasterType, CallFastest, CallServed, CallShown,
     CallCount, OtherLists, TypeIs DEF IInv
<1>3. CASE GetDomainPtr
  BY <1>1, <1>3, GetDomainPtrType, CallFastest, CallServed, CallShown,
     CallCount, OtherLists, TypeIs DEF IInv
<1>4. CASE StartTrailer
  BY <1>1, <1>4, StartTrailerType, OtherFastest, SameServed, OtherShown,
     SameCount, OtherLists, TypeIs DEF IInv
<1>5. CASE InitSlave
  BY <1>1, <1>5, InitSlaveType, InitSlaveFastest, SameServed, OtherShown,
     SameCount, OtherLists, TypeIs DEF IInv
<1>6. CASE RegisterRxPdos
  BY <1>1, <1>6, RegisterRxPdosType, OtherFastest, RegisterRxPdosServed,
     OtherShown, RegisterRxPdosCount, OtherLists, TypeIs DEF IInv
<1>7. CASE RegisterTxPdos
  BY <1>1, <1>7, RegisterTxPdosType, OtherFastest, RegisterTxPdosServed,
     OtherShown, RegisterTxPdosCount, OtherLists, TypeIs DEF IInv
<1>8. CASE Activate
  BY <1>1, <1>8, ActivateType, OtherFastest, SameServed, OtherShown,
     SameCount, ActivateLists, TypeIs DEF IInv
<1>9. CASE Convert
  BY <1>1, <1>9, ConvertType, OtherFastest, SameServed, OtherShown,
     SameCount, ConvertLists, TypeIs DEF IInv
<1>10. CASE UNCHANGED vars
  BY <1>10, StutterIInv
<1> QED
  BY <1>2, <1>3, <1>4, <1>5, <1>6, <1>7, <1>8, <1>9, <1>10 DEF Next

LEMMA Invariance == Spec => []IInv
BY InitIInv, NextIInv, PTL DEF Spec

-----------------------------------------------------------------------------
(* The results *)

(* get_master, get_domain and register_pdos keep the lists of masters and  *)
(* domains well-formed: each domain belongs to a master that is registered,*)
(* and what a block or a slave was given is a domain that there is.        *)
THEOREM TypesHold == Spec => []TypeOK
<1>1. IInv => TypeOK
  BY DEF IInv
<1> QED
  BY <1>1, Invariance, PTL

(* When the start is over the rate of each master is that of the fastest   *)
(* slave or domain that asked for it, in whatever order they came: no      *)
(* domain waits for its master to receive and send.                        *)
THEOREM FastestMaster == Spec => []MasterIsFastest
<1>1. ASSUME IInv PROVE MasterIsFastest
  <2> SUFFICES ASSUME Started PROVE MasterIsFastest
    BY DEF MasterIsFastest
  <2>1. /\ pc = "convert" /\ CursorInv /\ Lives /\ FastestInv
        /\ InitDone = Len(slaves) /\ Len(shown) = Len(calls)
    BY <1>1 DEF Started, IInv, Lives, InitDone, CursorInv, Configuring
  <2>2. \A m \in 1 .. Len(masters) :
          /\ \A r : Claims(masters[m].id, r, Len(calls), Len(slaves))
                      => masters[m].fastest <= r
          /\ \/ masters[m].fastest = NoTid
             \/ Claims(masters[m].id, masters[m].fastest,
                       Len(calls), Len(slaves))
    BY <2>1, FastestIs DEF Rated
  <2> SUFFICES
        ASSUME NEW m \in 1 .. Len(masters)
        PROVE  LET rates == {Rate[slaves[s].tid] : s \in
                      {s \in 1 .. Len(slaves) : slaves[s].master = masters[m].id}}
                     \cup {Rate[calls[c].tid] : c \in
                      {c \in 1 .. Len(calls) :
                         /\ calls[c].master = masters[m].id
                         /\ calls[c].input \/ calls[c].output}}
               IN /\ masters[m].fastest \in rates \cup {NoTid}
                  /\ \A r \in rates : masters[m].fastest <= r
    BY DEF MasterIsFastest
  <2> DEFINE rates == {Rate[slaves[s].tid] : s \in
                      {s \in 1 .. Len(slaves) : slaves[s].master = masters[m].id}}
                   \cup {Rate[calls[c].tid] : c \in
                      {c \in 1 .. Len(calls) :
                         /\ calls[c].master = masters[m].id
                         /\ calls[c].input \/ calls[c].output}}
  <2>3. \A r : r \in rates <=> Claims(masters[m].id, r, Len(calls), Len(slaves))
    BY DEF Claims, Asks
  <2> HIDE DEF rates
  <2>4. /\ masters[m].fastest \in rates \cup {NoTid}
        /\ \A r \in rates : masters[m].fastest <= r
    BY <2>2, <2>3
  <2> QED
    BY <2>4 DEF rates
<1> QED
  BY <1>1, Invariance, PTL

(* All PDOs of one direction with one master, domain id and rate are in one*)
(* domain, and PDOs that differ in the master, the id or the rate never    *)
(* are; nothing is said of the two directions, which may share one or not. *)
(* A block of that id and rate shows the domain they are in, as long as    *)
(* all blocks ask for both directions at once or all for one at a time.    *)
THEOREM SharedDomains == Spec => []DomainsAreShared
<1>1. ASSUME IInv PROVE OneDomainPerDirection
  <2> SUFFICES ASSUME NEW s \in 1 .. Len(slaves), NEW t \in 1 .. Len(slaves),
                      slaves[s].master = slaves[t].master,
                      slaves[s].domain = slaves[t].domain,
                      Rate[slaves[s].tid] = Rate[slaves[t].tid]
               PROVE  /\ rxDomain[s] # 0 /\ rxDomain[t] # 0
                           => rxDomain[s] = rxDomain[t]
                      /\ txDomain[s] # 0 /\ txDomain[t] # 0
                           => txDomain[s] = txDomain[t]
    BY DEF OneDomainPerDirection
  <2>1. /\ rxDomain[s] # 0 => FirstOfRx(s, rxDomain[s])
        /\ rxDomain[t] # 0 => FirstOfRx(t, rxDomain[t])
        /\ txDomain[s] # 0 => FirstOfTx(s, txDomain[s])
        /\ txDomain[t] # 0 => FirstOfTx(t, txDomain[t])
    BY <1>1, ServedIs DEF IInv
  <2>2. \A d : /\ FirstOfRx(t, d) => FirstOfRx(s, d)
               /\ FirstOfTx(t, d) => FirstOfTx(s, d)
    BY DEF FirstOfRx, FirstOfTx
  <2>3. \A d, e : /\ FirstOfRx(s, d) /\ FirstOfRx(s, e) => d = e
                  /\ FirstOfTx(s, d) /\ FirstOfTx(s, e) => d = e
    BY FirstIsUnique DEF FirstOfRx, FirstOfTx
  <2> QED
    BY <2>1, <2>2, <2>3
<1>2. ASSUME IInv PROVE ShownIsUsed
  <2> SUFFICES ASSUME Started, OneKind,
                      NEW c \in 1 .. Len(shown), NEW s \in 1 .. Len(slaves),
                      shown[c] # 0, calls[c].master = slaves[s].master,
                      calls[c].domain = slaves[s].domain,
                      Rate[calls[c].tid] = Rate[slaves[s].tid]
               PROVE  /\ calls[c].output /\ rxDomain[s] # 0
                           => shown[c] = rxDomain[s]
                      /\ calls[c].input /\ txDomain[s] # 0
                           => shown[c] = txDomain[s]
    BY DEF ShownIsUsed
  <2>1. Lives
    BY DEF Started, Lives
  <2>2. /\ calls[c].output => FirstOfCall(c, shown[c], FALSE, TRUE)
        /\ calls[c].input => FirstOfCall(c, shown[c], TRUE, FALSE)
    BY <1>2, <2>1, ShownIs DEF IInv
  <2>3. /\ rxDomain[s] # 0 => FirstOfRx(s, rxDomain[s])
        /\ txDomain[s] # 0 => FirstOfTx(s, txDomain[s])
    BY <1>2, ServedIs DEF IInv
  <2>4. \A d : /\ FirstOfRx(s, d) => FirstOfCall(c, d, FALSE, TRUE)
               /\ FirstOfTx(s, d) => FirstOfCall(c, d, TRUE, FALSE)
    BY DEF FirstOfRx, FirstOfTx, FirstOfCall
  <2>5. \A d, e, i, o : FirstOfCall(c, d, i, o) /\ FirstOfCall(c, e, i, o)
                          => d = e
    BY FirstIsUnique DEF FirstOfCall
  <2> QED
    BY <2>2, <2>3, <2>4, <2>5
<1>3. ASSUME IInv PROVE OthersAreApart
  <2> DEFINE at(d, s) == /\ domains[d].master = slaves[s].master
                         /\ domains[d].id = slaves[s].domain
                         /\ domains[d].rate = Rate[slaves[s].tid]
  <2>1. \A s \in 1 .. Len(slaves) : \A d \in {rxDomain[s], txDomain[s]} \ {0} :
          at(d, s)
    BY <1>3, ServedIs DEF IInv, FirstOfRx, FirstOfTx, IsFirst, Suits
  <2> QED
    BY <2>1 DEF OthersAreApart
<1>4. IInv => DomainsAreShared
  BY <1>1, <1>2, <1>3 DEF DomainsAreShared
<1> QED
  BY <1>4, Invariance, PTL

(* A sum is what it is: all values have been added up.                     *)
LEMMA SumIsOne ==
  ASSUME NEW w, NEW k \in Nat, NEW a, IsSum(w, k, a), NEW b, IsSum(w, k, b),
         \A s \in 1 .. k : w[s] \in Nat
  PROVE  a = b
<1>1. a <= b /\ b <= a
  BY SumsGrow
<1>2. a \in Nat /\ b \in Nat
  BY SumType
<1> QED
  BY <1>1, <1>2

(* Of a list that is full, ecs_receive and ecs_send copy the PDOs that the *)
(* slaves have in the domain.                                              *)
CopiesAll(d, first, count, dir, w, m) ==
  /\ Copied(d, first, count)
  /\ \A x : x \in Elements(d, first, count) <=>
              \E s \in 1 .. m : \E k \in 1 .. w[s] : x = <<s, dir, k>>

LEMMA FullList ==
  ASSUME NEW d, NEW first \in Nat, NEW count \in Nat, NEW last \in Nat, NEW dir,
         NEW w, NEW m \in Nat, first + count <= last,
         \A i \in first .. last : i \in DOMAIN list[d].array,
         Holds(list[d].array, first, count, last, dir, w, m)
  PROVE  CopiesAll(d, first, count, dir, w, m)
<1> DEFINE a == list[d].array
<1>1. /\ \A i \in first .. first + count - 1 :
           \E s \in 1 .. m : \E k \in 1 .. w[s] : a[i] = <<s, dir, k>>
      /\ \A s \in 1 .. m : \A k \in 1 .. w[s] :
           \E i \in first .. first + count - 1 : a[i] = <<s, dir, k>>
      /\ \A i \in first + count .. last : a[i] = Zero
      /\ \A i \in first .. last : i \in DOMAIN a
  BY DEF Holds
<1>2. /\ first + count \in first .. last
      /\ first + count \in first + count .. last
      /\ \A i \in 0 .. count - 1 : first + i \in first .. first + count - 1
      /\ \A i \in first .. first + count - 1 :
           i - first \in 0 .. count - 1 /\ first + (i - first) = i
  OBVIOUS
<1>3. \A s, k : <<s, dir, k>> # Zero
  BY DEF Zero
<1>4. Elements(d, first, count) = {a[first + i] : i \in 0 .. count - 1}
  BY DEF Elements
<1>5. Copied(d, first, count) <=>
        /\ first + count \in DOMAIN a /\ a[first + count] = Zero
        /\ \A i \in 0 .. count - 1 : a[first + i] # Zero
  BY DEF Copied
<1> HIDE DEF a
<1>6. Copied(d, first, count)
  <2>1. ASSUME NEW i \in 0 .. count - 1
        PROVE  a[first + i] # Zero
    <3>1. first + i \in first .. first + count - 1
      BY <1>2
    <3>2. PICK s \in 1 .. m : \E k \in 1 .. w[s] : a[first + i] = <<s, dir, k>>
      BY <1>1, <3>1
    <3> QED
      BY <1>3, <3>2
  <2> QED
    BY <1>1, <1>2, <1>5, <2>1
<1>7. ASSUME NEW x
      PROVE  x \in Elements(d, first, count) <=>
               \E s \in 1 .. m : \E k \in 1 .. w[s] : x = <<s, dir, k>>
  <2>1. ASSUME NEW i \in 0 .. count - 1, x = a[first + i]
        PROVE  \E s \in 1 .. m : \E k \in 1 .. w[s] : x = <<s, dir, k>>
    BY <1>1, <1>2, <2>1
  <2>2. ASSUME NEW s \in 1 .. m, NEW k \in 1 .. w[s], x = <<s, dir, k>>
        PROVE  \E i \in 0 .. count - 1 : x = a[first + i]
    <3>1. PICK i \in first .. first + count - 1 : a[i] = x
      BY <1>1, <2>2
    <3>2. i - first \in 0 .. count - 1 /\ first + (i - first) = i
      BY <1>2
    <3> QED
      BY <3>1, <3>2
  <2> QED
    BY <1>4, <2>1, <2>2
<1> QED
  BY <1>6, <1>7 DEF CopiesAll

(* When the start is over each PDO of the model is copied in every cycle,  *)
(* once and in its direction, by the domain of its slave's master, id and  *)
(* rate: the lists that ecs_receive and ecs_send walk hold exactly the PDOs*)
(* registered with their domain, and each ends at a terminator of its own. *)
THEOREM PdosAreCopied == Spec => []EveryPdoIsCopied
<1>1. ASSUME IInv, Started PROVE EveryPdoIsCopied
  <2>1. /\ pc = "convert" /\ Types /\ CursorInv /\ ServedInv /\ CountInv
        /\ ListInv /\ Lives /\ Len(slaves) \in Nat
    BY <1>1, TypeIs, InputTypes DEF Started, IInv, Lives
  <2>2. RxDone = Len(slaves) /\ TxDone = Len(slaves) /\ n - 1 = Len(slaves)
    <3>1. n \in 1 .. Len(slaves) + 1 /\ n > Len(slaves)
      BY <1>1, <2>1 DEF CursorInv, Started
    <3>2. n - 1 = Len(slaves)
      BY <2>1, <3>1
    <3> QED
      BY <2>1, <3>2 DEF RxDone, TxDone, Configuring
  <2>3. ASSUME NEW s \in 1 .. Len(slaves)
        PROVE  /\ slaves[s].rxpdo > 0 =>
                    /\ domains[rxDomain[s]].master = slaves[s].master
                    /\ domains[rxDomain[s]].id = slaves[s].domain
                    /\ domains[rxDomain[s]].rate = Rate[slaves[s].tid]
                    /\ domains[rxDomain[s]].output
               /\ slaves[s].txpdo > 0 =>
                    /\ domains[txDomain[s]].master = slaves[s].master
                    /\ domains[txDomain[s]].id = slaves[s].domain
                    /\ domains[txDomain[s]].rate = Rate[slaves[s].tid]
                    /\ domains[txDomain[s]].input
    <3>1. s <= Len(slaves)
      BY <2>1
    <3>2. /\ slaves[s].rxpdo > 0 => FirstOfRx(s, rxDomain[s])
          /\ slaves[s].txpdo > 0 => FirstOfTx(s, txDomain[s])
      BY <2>1, <2>2, <3>1, ServedIs
    <3> QED
      BY <3>2 DEF FirstOfRx, FirstOfTx, IsFirst, Suits
  <2>4. ASSUME NEW d \in 1 .. Len(domains)
        PROVE  /\ Copied(d, 0, domains[d].ins)
               /\ Copied(d, list[d].output, domains[d].outs)
               /\ Elements(d, 0, domains[d].ins) =
                    UNION {{<<s, "tx", k>> : k \in 1 .. slaves[s].txpdo} :
                      s \in {s \in 1 .. Len(slaves) : txDomain[s] = d}}
               /\ Elements(d, list[d].output, domains[d].outs) =
                    UNION {{<<s, "rx", k>> : k \in 1 .. slaves[s].rxpdo} :
                      s \in {s \in 1 .. Len(slaves) : rxDomain[s] = d}}
    <3> DEFINE ins == domains[d].ins
               outs == domains[d].outs
               last == ins + outs + 1
               a == list[d].array
    <3>1. ins \in Nat /\ outs \in Nat
      <4>1. domains[d] \in DomainRec
        BY <2>1, ElementOfSeq DEF Types
      <4> QED
        BY <4>1 DEF DomainRec
    <3>2. ListFor(list[d], ins, outs, RxOf(d), TxOf(d), Len(slaves))
      BY <2>1, <2>2 DEF ListInv
    <3>3. list[d].input_count = ins /\ list[d].output_count = outs
      <4>1. /\ IsSum(TxOf(d), Len(slaves), ins)
            /\ IsSum(RxOf(d), Len(slaves), outs)
        BY <2>1, <2>2 DEF CountInv
      <4>2. /\ IsSum(TxOf(d), Len(slaves), list[d].input_count)
            /\ IsSum(RxOf(d), Len(slaves), list[d].output_count)
        BY <3>2 DEF ListFor
      <4> HIDE DEF ins, outs
      <4> QED
        BY <2>1, <4>1, <4>2, PdosOf, SumIsOne
    <3>4. /\ DOMAIN a = 0 .. last /\ list[d].output = ins + 1
          /\ Holds(a, 0, ins, ins, "tx", TxOf(d), Len(slaves))
          /\ Holds(a, ins + 1, outs, last, "rx", RxOf(d), Len(slaves))
      BY <3>2, <3>3 DEF ListFor
    <3> HIDE DEF ins, outs
    <3>5. /\ ins + 1 \in Nat /\ last \in Nat /\ 0 + ins <= ins
          /\ ins + 1 + outs <= last
          /\ \A i \in 0 .. ins : i \in 0 .. last
          /\ \A i \in ins + 1 .. last : i \in 0 .. last
      BY <3>1
    <3> HIDE DEF last
    <3>6. /\ \A i \in 0 .. ins : i \in DOMAIN list[d].array
          /\ \A i \in ins + 1 .. last : i \in DOMAIN list[d].array
          /\ Holds(list[d].array, 0, ins, ins, "tx", TxOf(d), Len(slaves))
          /\ Holds(list[d].array, ins + 1, outs, last, "rx", RxOf(d),
                   Len(slaves))
      BY <3>4, <3>5
    <3> HIDE DEF a
    <3>7. CopiesAll(d, 0, ins, "tx", TxOf(d), Len(slaves))
      <4>1. PICK first \in Nat : first = 0
        OBVIOUS
      <4>2. /\ first + ins <= ins
            /\ \A i \in first .. ins : i \in DOMAIN list[d].array
            /\ Holds(list[d].array, first, ins, ins, "tx", TxOf(d), Len(slaves))
        BY <3>1, <3>6, <4>1
      <4>3. CopiesAll(d, first, ins, "tx", TxOf(d), Len(slaves))
        BY <2>1, <3>1, <4>2, FullList
      <4> QED
        BY <4>1, <4>3
    <3>8. CopiesAll(d, ins + 1, outs, "rx", RxOf(d), Len(slaves))
      BY <2>1, <3>1, <3>5, <3>6, FullList
    <3>9. \A s \in 1 .. Len(slaves) :
            /\ TxOf(d)[s] = IF txDomain[s] = d THEN slaves[s].txpdo ELSE 0
            /\ RxOf(d)[s] = IF rxDomain[s] = d THEN slaves[s].rxpdo ELSE 0
      BY DEF TxOf, RxOf
    <3>10. \A k : k \notin 1 .. 0
      OBVIOUS
    <3>11. Elements(d, 0, ins) =
             UNION {{<<s, "tx", k>> : k \in 1 .. slaves[s].txpdo} :
                      s \in {s \in 1 .. Len(slaves) : txDomain[s] = d}}
      <4>1. ASSUME NEW x
            PROVE  x \in Elements(d, 0, ins) <=>
                     \E s \in 1 .. Len(slaves) :
                       /\ txDomain[s] = d
                       /\ \E k \in 1 .. slaves[s].txpdo : x = <<s, "tx", k>>
        BY <3>7, <3>9, <3>10 DEF CopiesAll
      <4> QED
        BY <4>1
    <3>12. Elements(d, ins + 1, outs) =
             UNION {{<<s, "rx", k>> : k \in 1 .. slaves[s].rxpdo} :
                      s \in {s \in 1 .. Len(slaves) : rxDomain[s] = d}}
      <4>1. ASSUME NEW x
            PROVE  x \in Elements(d, ins + 1, outs) <=>
                     \E s \in 1 .. Len(slaves) :
                       /\ rxDomain[s] = d
                       /\ \E k \in 1 .. slaves[s].rxpdo : x = <<s, "rx", k>>
        BY <3>8, <3>9, <3>10 DEF CopiesAll
      <4> QED
        BY <4>1
    <3> QED
      BY <3>4, <3>7, <3>8, <3>11, <3>12 DEF ins, outs, a, CopiesAll
  <2> QED
    BY <2>3, <2>4 DEF EveryPdoIsCopied
<1>2. IInv => EveryPdoIsCopied
  BY <1>1 DEF EveryPdoIsCopied
<1> QED
  BY <1>2, Invariance, PTL

=============================================================================
