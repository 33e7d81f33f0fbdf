------------------------- MODULE EcatCycleProofs -------------------------
(***************************************************************************)
(* Proofs about EcatCycle, for every set of domains and all decimations.   *)
(*                                                                         *)
(* The counters of master and domain never meet in the code. What relates  *)
(* them is that both lose 1 in each step and gain a multiple of g when     *)
(* they are set again, g being any common divisor: their difference stays  *)
(* a multiple of g. From this follows how long a datagram waits.           *)
(***************************************************************************)
EXTENDS EcatCycle, TLAPS

(* In the middle of a step the counters may be 0, between steps never. *)
CountersInv ==
  /\ place = "receive" => /\ master_trigger >= 1
                          /\ \A d \in Domains : domain_trigger[d] >= 1
  /\ place = "send" => /\ master_trigger < Fastest
                       /\ \A d \in Domains : domain_trigger[d] < Decimation[d]

Common(g, d) == Divides(g, Fastest) /\ Divides(g, Decimation[d])

DifferenceInv ==
  \A d \in Domains, g \in 1 .. Fastest :
    Common(g, d) =>
      \E j \in Int : domain_trigger[d] = master_trigger + j * g

(* A queued datagram is sent, and a sent one answered, in time. *)
WaitInv ==
  \A d \in Domains :
    Fits(d) /\ ~missed[d] =>
      /\ datagram[d] = "queued" =>
           master_trigger + Fastest <= domain_trigger[d]
      /\ datagram[d] = "sent" =>
           /\ master_trigger <= domain_trigger[d]
           /\ place = "send" => master_trigger # 0

IInv == TypeOK /\ CountersInv /\ DifferenceInv /\ WaitInv

-----------------------------------------------------------------------------
(* Multiples *)

LEMMA MultipleGap ==
  ASSUME NEW g \in Nat \ {0}, NEW a \in Int, NEW b \in Int, a * g < b * g
  PROVE  a * g + g <= b * g
<1>1. a < b
  <2> SUFFICES ASSUME b <= a PROVE FALSE
    OBVIOUS
  <2>1. a - b \in Nat /\ (a - b) * g >= 0
    OBVIOUS
  <2>2. (a - b) * g = a * g - b * g
    OBVIOUS
  <2> QED
    BY <2>1, <2>2
<1>2. b - a - 1 \in Nat /\ (b - a - 1) * g >= 0
  BY <1>1
<1>3. (b - a - 1) * g = b * g - a * g - g
  OBVIOUS
<1> QED
  BY <1>2, <1>3

LEMMA Sums ==
  ASSUME NEW g \in Int, NEW a \in Int, NEW b \in Int
  PROVE  (a + b) * g = a * g + b * g /\ (a - b) * g = a * g - b * g
  OBVIOUS

-----------------------------------------------------------------------------
(* The invariant *)

LEMMA InitIInv == Init => IInv
<1> SUFFICES ASSUME Init PROVE IInv
  OBVIOUS
<1> USE DEF Init
<1>1. TypeOK
  BY DecimationAssumption, FastestAssumption, RefClkAssumption
  DEF TypeOK, DatagramStates
<1>2. CountersInv
  BY DecimationAssumption, FastestAssumption DEF CountersInv
<1>3. DifferenceInv
  <2> SUFFICES ASSUME NEW d \in Domains, NEW g \in 1 .. Fastest, Common(g, d)
               PROVE  \E j \in Int : Decimation[d] = Fastest + j * g
    BY DEF DifferenceInv
  <2>1. PICK b \in 1 .. Fastest : Fastest = b * g
    BY DEF Common, Divides
  <2>2. PICK c \in 1 .. Decimation[d] : Decimation[d] = c * g
    BY DEF Common, Divides
  <2>3. (c - b) * g = c * g - b * g /\ c - b \in Int
    BY Sums, FastestAssumption, DecimationAssumption
  <2>4. Fastest \in Int /\ Decimation[d] \in Int
    BY FastestAssumption, DecimationAssumption
  <2> QED
    BY <2>1, <2>2, <2>3, <2>4
<1>4. WaitInv
  BY DEF WaitInv
<1> QED
  BY <1>1, <1>2, <1>3, <1>4 DEF IInv

LEMMA ReceiveStep ==
  ASSUME IInv, Receive PROVE IInv'
<1> USE DEF IInv
<1>1. /\ place = "receive" /\ place' = "send"
      /\ master_trigger' = master_trigger - 1
      /\ domain_trigger' = [d \in Domains |-> domain_trigger[d] - 1]
      /\ UNCHANGED refclk_trigger
  BY DEF Receive
<1>2. ASSUME NEW d \in Domains
      PROVE  /\ datagram'[d] \in {datagram[d], "answered"}
             /\ missed'[d] \in BOOLEAN
             /\ missed[d] => missed'[d]
             /\ datagram'[d] = "sent" /\ ~missed'[d] => master_trigger # 1
  BY DEF Receive, MasterReceive, TypeOK
<1>3. /\ datagram' \in [Domains -> DatagramStates]
      /\ missed' \in [Domains -> BOOLEAN]
  BY DEF Receive, MasterReceive, TypeOK, DatagramStates
<1>4. /\ master_trigger \in 1 .. Fastest /\ Fastest \in Nat
      /\ \A d \in Domains : domain_trigger[d] \in 1 .. Decimation[d]
      /\ \A d \in Domains : Decimation[d] \in Nat
  BY <1>1, FastestAssumption, DecimationAssumption DEF TypeOK, CountersInv
<1>5. TypeOK'
  BY <1>1, <1>3, <1>4 DEF TypeOK
<1>6. CountersInv'
  BY <1>1, <1>4 DEF CountersInv
<1>7. DifferenceInv'
  <2> SUFFICES ASSUME NEW d \in Domains, NEW g \in 1 .. Fastest, Common(g, d)
               PROVE  \E j \in Int : domain_trigger'[d] = master_trigger' + j * g
    BY DEF DifferenceInv
  <2>1. PICK j \in Int : domain_trigger[d] = master_trigger + j * g
    BY DEF DifferenceInv
  <2>2. j * g \in Int
    BY <1>4
  <2>3. domain_trigger'[d] = master_trigger' + j * g
    BY <1>1, <1>4, <2>1, <2>2
  <2> QED
    BY <2>3
<1>8. WaitInv'
  BY <1>1, <1>2, <1>4 DEF WaitInv
<1> QED
  BY <1>5, <1>6, <1>7, <1>8

(* A domain that is queued, and fits, is queued early enough. *)
LEMMA QueuedInTime ==
  ASSUME IInv, place = "send", NEW d \in Triggered, d \in Domains, Fits(d)
  PROVE  master_trigger + Fastest <= Decimation[d]
<1>1. PICK g \in 1 .. Fastest :
        Common(g, d) /\ 2 * Fastest - g <= Decimation[d]
  BY DEF Fits, Common
<1>2. PICK b \in 1 .. Fastest : Fastest = b * g
  BY <1>1 DEF Common, Divides
<1>3. PICK j \in Int : domain_trigger[d] = master_trigger + j * g
  BY <1>1 DEF IInv, DifferenceInv
<1>4. /\ g \in Nat \ {0} /\ b \in Int /\ Fastest \in Nat
      /\ master_trigger \in Nat /\ master_trigger < Fastest
      /\ domain_trigger[d] = 0 /\ Decimation[d] \in Nat
  BY FastestAssumption, DecimationAssumption
  DEF IInv, TypeOK, CountersInv, Triggered
<1>5. (0 - j) * g = 0 - j * g /\ j * g \in Int /\ 0 - j \in Int
  BY <1>4
<1>6. master_trigger = (0 - j) * g
  BY <1>3, <1>4, <1>5
<1>7. (0 - j) * g + g <= b * g
  BY <1>2, <1>4, <1>5, <1>6, MultipleGap
<1> QED
  BY <1>1, <1>2, <1>4, <1>6, <1>7

LEMMA SendStep ==
  ASSUME IInv, Send PROVE IInv'
<1> USE DEF IInv
<1>1. /\ place = "send" /\ place' = "receive"
      /\ domain_trigger' = [d \in Domains |->
           IF d \in Triggered THEN Decimation[d] ELSE domain_trigger[d]]
      /\ missed' = [d \in Domains |-> missed[d] /\ d \notin Triggered]
      /\ master_trigger' = IF master_trigger = 0 THEN Fastest
                                                 ELSE master_trigger
  BY DEF Send
<1>2. ASSUME NEW d \in Domains
      PROVE  datagram'[d] =
               IF d \in Triggered \/ datagram[d] = "queued"
                 THEN IF master_trigger = 0 THEN "sent" ELSE "queued"
                 ELSE datagram[d]
  BY DEF Send, Queued, SentAll
<1>3. /\ master_trigger \in 0 .. Fastest - 1 /\ Fastest \in Nat \ {0}
      /\ \A d \in Domains : domain_trigger[d] \in 0 .. Decimation[d] - 1
      /\ \A d \in Domains : /\ Decimation[d] \in Nat \ {0}
                            /\ Fastest <= Decimation[d]
      /\ \A d \in Domains : d \in Triggered <=> domain_trigger[d] = 0
  BY <1>1, FastestAssumption, DecimationAssumption
  DEF TypeOK, CountersInv, Triggered
<1>4. TypeOK'
  <2>1. datagram' \in [Domains -> DatagramStates]
    BY DEF Send, Queued, SentAll, TypeOK, DatagramStates
  <2>2. refclk_trigger' \in 1 .. (IF RefClkDec = 0 THEN 1 ELSE RefClkDec)
    BY RefClkAssumption DEF Send, TypeOK
  <2>3. missed' \in [Domains -> BOOLEAN]
    BY <1>1 DEF TypeOK
  <2> QED
    BY <1>1, <1>3, <2>1, <2>2, <2>3 DEF TypeOK
<1>5. CountersInv'
  BY <1>1, <1>3 DEF CountersInv
<1>6. DifferenceInv'
  <2> SUFFICES ASSUME NEW d \in Domains, NEW g \in 1 .. Fastest, Common(g, d)
               PROVE  \E j \in Int : domain_trigger'[d] = master_trigger' + j * g
    BY DEF DifferenceInv
  <2>1. PICK j \in Int : domain_trigger[d] = master_trigger + j * g
    BY DEF DifferenceInv
  <2>2. PICK b \in 1 .. Fastest : Fastest = b * g
    BY DEF Common, Divides
  <2>3. PICK c \in 1 .. Decimation[d] : Decimation[d] = c * g
    BY DEF Common, Divides
  <2>4. b \in Int /\ c \in Int /\ g \in Int
    BY <1>3
  <2>5. /\ (j - b) * g = j * g - Fastest /\ (j + c) * g = j * g + Decimation[d]
        /\ (j - b + c) * g = j * g - Fastest + Decimation[d]
        /\ j * g \in Int
    <3>1. (j - b) * g = j * g - b * g /\ (j + c) * g = j * g + c * g
      BY <2>4, Sums
    <3>2. ((j - b) + c) * g = (j - b) * g + c * g
      BY <2>4, Sums
    <3> QED
      BY <2>2, <2>3, <2>4, <3>1, <3>2
  <2>6. CASE master_trigger = 0 /\ d \in Triggered
    <3>1. domain_trigger'[d] = master_trigger' + (j - b + c) * g
      BY <1>1, <1>3, <2>1, <2>5, <2>6
    <3>2. j - b + c \in Int
      BY <2>4
    <3> QED
      BY <3>1, <3>2
  <2>7. CASE master_trigger = 0 /\ d \notin Triggered
    <3>1. domain_trigger'[d] = master_trigger' + (j - b) * g
      BY <1>1, <1>3, <2>1, <2>5, <2>7
    <3> QED
      BY <2>4, <3>1
  <2>8. CASE master_trigger # 0 /\ d \in Triggered
    <3>1. domain_trigger'[d] = master_trigger' + (j + c) * g
      BY <1>1, <1>3, <2>1, <2>5, <2>8
    <3> QED
      BY <2>4, <3>1
  <2>9. CASE master_trigger # 0 /\ d \notin Triggered
    BY <1>1, <2>1, <2>9
  <2> QED
    BY <2>6, <2>7, <2>8, <2>9
<1>7. WaitInv'
  <2> SUFFICES ASSUME NEW d \in Domains, Fits(d), ~missed'[d]
               PROVE  /\ datagram'[d] = "queued" =>
                           master_trigger' + Fastest <= domain_trigger'[d]
                      /\ datagram'[d] = "sent" =>
                           master_trigger' <= domain_trigger'[d]
    BY <1>1 DEF WaitInv
  <2>1. CASE d \in Triggered
    <3>1. domain_trigger'[d] = Decimation[d]
      BY <1>1, <2>1
    <3>2. master_trigger + Fastest <= Decimation[d]
      BY <1>1, <2>1, QueuedInTime
    <3> QED
      BY <1>1, <1>2, <1>3, <2>1, <3>1, <3>2
  <2>2. CASE d \notin Triggered
    <3>1. domain_trigger'[d] = domain_trigger[d] /\ ~missed[d]
      BY <1>1, <2>2
    <3> QED
      BY <1>1, <1>2, <1>3, <2>2, <3>1 DEF WaitInv
  <2> QED
    BY <2>1, <2>2
<1> QED
  BY <1>4, <1>5, <1>6, <1>7

LEMMA Invariance == Spec => []IInv
<1>1. IInv /\ [Next]_vars => IInv'
  <2>1. IInv /\ UNCHANGED vars => IInv'
    BY DEF IInv, TypeOK, CountersInv, DifferenceInv, WaitInv, vars
  <2> QED
    BY <2>1, ReceiveStep, SendStep DEF Next
<1> QED
  BY <1>1, InitIInv, PTL DEF Spec

(* The counters never pass zero, whatever the decimations are.             *)
THEOREM CountersCorrect == Spec => []TypeOK
<1>1. IInv => TypeOK
  BY DEF IInv
<1> QED
  BY <1>1, Invariance, PTL

(* A domain whose decimation fits its master is always processed with the  *)
(* answer to what it queued last, unless that answer was lost.             *)
THEOREM InTime == Spec => []AnswersInTime
<1>1. IInv => AnswersInTime
  <2> SUFFICES ASSUME IInv, place = "send", NEW d \in Triggered, Fits(d),
                      ~missed[d]
               PROVE  datagram[d] \in {"new", "answered"}
    BY DEF AnswersInTime, Triggered
  <2>1. d \in Domains /\ domain_trigger[d] = 0
    BY DEF Triggered
  <2>2. /\ datagram[d] \in DatagramStates
        /\ master_trigger \in Nat /\ Fastest \in Nat \ {0}
    BY <2>1, FastestAssumption DEF IInv, TypeOK
  <2>3. datagram[d] # "queued" /\ datagram[d] # "sent"
    BY <2>1, <2>2 DEF IInv, WaitInv
  <2> QED
    BY <2>2, <2>3 DEF DatagramStates
<1> QED
  BY <1>1, Invariance, PTL

=============================================================================
