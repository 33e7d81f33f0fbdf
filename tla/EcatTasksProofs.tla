-------------------------- MODULE EcatTasksProofs --------------------------
(***************************************************************************)
(* Proofs about EcatTasks, for any tasks, masters and domains. Who holds a *)
(* semaphore follows from where the tasks are (LockInv); so the data of a  *)
(* domain changes only where its task does not copy it (OutInv, InInv).    *)
(* How long a datagram waits follows from where the fastest task is in its *)
(* own step (RoundInv).                                                    *)
(***************************************************************************)
EXTENDS EcatTasks, TLAPS

(* A task is between sem_wait and sem_post of master m.                    *)
Inside(t, m) == pc[t] \in {"fetch", "process", "queue"} /\ master[t] = m

LockInv == \A t \in Task, m \in Master : lock[m] = t <=> Inside(t, m)

(* A task is in the middle of a domain only while it copies one of its own.*)
CursorInv ==
  \A t \in Task :
    /\ pc[t] \in {"idle", "compute"} => master[t] = 1
    /\ word[t] # 1 => /\ pc[t] \in {"process", "queue"}
                      /\ domain[t] \in Mine(t, master[t])

(* The task of domain d has copied some of its words, and not all.         *)
Amid(d, l) == pc[TidOf[d]] = l /\ domain[TidOf[d]] = d /\ word[TidOf[d]] # 1

OutInv ==
  \A d \in Domain :
    IF Amid(d, "queue")
    THEN \A k \in Word : k < word[TidOf[d]] => io_out[d][k] = cycle[TidOf[d]]
    ELSE \A k, l \in Word : io_out[d][k] = io_out[d][l]

InInv ==
  \A d \in Domain :
    /\ \A k, l \in Word : io_in[d][k] = io_in[d][l]
    /\ IF Amid(d, "process")
       THEN \A k \in Word : k < word[TidOf[d]] => inputs[d][k] = io_in[d][k]
       ELSE \A k, l \in Word : inputs[d][k] = inputs[d][l]

(* The fastest task of master m has received, and not sent since.          *)
Received(m) ==
  LET f == Fastest[m]
  IN \/ pc[f] \in {"receive", "fetch"} /\ master[f] > m
     \/ pc[f] = "process" /\ master[f] >= m
     \/ pc[f] = "compute"
     \/ pc[f] \in {"send", "queue"} /\ master[f] <= m

(* How long the datagram of d has waited.                                  *)
RoundOf(d) ==
  /\ (datagram[d] = "queued" /\ receives[d] # 0) =>
       receives[d] = 1 /\ Received(MasterOf[d])
  /\ datagram[d] = "sent" => missed[d] \/ receives[d] <= 1
  /\ TidOf[d] = Fastest[MasterOf[d]] =>
       /\ datagram[d] = "queued" =>
            receives[d] = 0 /\ pc[TidOf[d]] = "queue"
                            /\ master[TidOf[d]] = MasterOf[d]
       /\ datagram[d] = "sent" => missed[d] \/ receives[d] = 0

RoundInv == \A d \in Domain : RoundOf(d)

IInv == TypeOK /\ LockInv /\ CursorInv /\ OutInv /\ InInv
        /\ FramesAreOneCycle /\ RoundInv

LEMMA Constants ==
  /\ NumMasters \in Nat /\ NumDomains \in Nat /\ Words \in Nat \ {0}
  /\ CycleRing \in Nat \ {0} /\ 1 \in Master /\ 1 \in Word
  /\ \A d \in Domain : MasterOf[d] \in Master /\ TidOf[d] \in Task
  /\ \A d \in Domain : Fastest[MasterOf[d]] \in Task
<1>1. \A d \in Domain : MasterOf[d] \in Master /\ TidOf[d] \in Task
  BY DomainAssumption
<1>2. \A d \in Domain : Fastest[MasterOf[d]] \in Nat
                         /\ Fastest[MasterOf[d]] <= TidOf[d]
  BY <1>1, FastestAssumption
<1> QED
  BY <1>1, <1>2, CountAssumption DEF Task, Master, Word

LEMMA NextCycleType == \A c \in Nat : (c + 1) % CycleRing \in Nat
  BY Constants

LEMMA NextWordType ==
  ASSUME TypeOK, NEW t \in Task, NextWord(t)
  PROVE  word' \in [Task -> Word]
<1>1. word[t] < Words => word[t] + 1 \in Word
  BY Constants DEF TypeOK, Word
<1>2. \/ word[t] < Words /\ word' = [word EXCEPT ![t] = word[t] + 1]
      \/ word' = [word EXCEPT ![t] = 1]
  BY DEF NextWord
<1> QED
  BY <1>1, <1>2, Constants DEF TypeOK

-----------------------------------------------------------------------------
(* What each step keeps *)

PcType == [Task -> {"idle", "receive", "fetch", "process", "compute", "send",
                    "queue"}]

LEMMA TypeStep ==
  ASSUME TypeOK, NEW t \in Task, BeginStep(t) \/ Step(t)
  PROVE  TypeOK'
<1>1. CASE BeginStep(t)
  <2>1. pc' \in PcType
    BY <1>1 DEF TypeOK, PcType, BeginStep, Goto
  <2>2. cycle' \in [Task -> Nat]
    BY <1>1, NextCycleType DEF TypeOK, BeginStep
  <2> QED
    BY <1>1, <2>1, <2>2 DEF BeginStep, TypeOK, PcType, libraryVars
<1>2. CASE Compute(t)
  <2>1. pc' \in PcType
    BY <1>2 DEF TypeOK, PcType, Compute, Goto
  <2> QED
    BY <1>2, <2>1 DEF Compute, TypeOK, PcType, libraryVars
<1>3. CASE Wait(t)
  <2>1. pc' \in PcType
    BY <1>3 DEF TypeOK, PcType, Wait, Goto
  <2>2. domain' \in [Task -> 1 .. NumDomains + 1]
    BY <1>3, Constants DEF TypeOK, Wait
  <2>3. lock' \in [Master -> Task \cup {-1}]
    BY <1>3 DEF TypeOK, Wait
  <2> QED
    BY <1>3, <2>1, <2>2, <2>3 DEF Wait, TypeOK, PcType, libraryVars
<1>4. CASE SkipDomain(t)
  <2>1. domain[t] + 1 \in 1 .. NumDomains + 1
    BY <1>4, Constants DEF SkipDomain, Domain
  <2>2. domain' \in [Task -> 1 .. NumDomains + 1]
    BY <1>4, <2>1 DEF TypeOK, SkipDomain
  <2> QED
    BY <1>4, <2>1, <2>2 DEF SkipDomain, TypeOK, PcType, libraryVars
<1>5. CASE Fetch(t)
  <2>1. pc' \in PcType
    BY <1>5 DEF TypeOK, PcType, Fetch, Goto
  <2>2. datagram' \in [Domain -> {"new", "queued", "sent", "answered"}]
    BY <1>5 DEF TypeOK, Fetch
  <2>3. io_in' \in [Domain -> [Word -> Nat]]
    <3>1. \A d \in Domain :
            [k \in Word |-> (io_in[d][k] + 1) % CycleRing] \in [Word -> Nat]
      BY NextCycleType DEF TypeOK
    <3>2. \/ UNCHANGED io_in
          \/ \E due \in SUBSET Domain :
               io_in' = [d \in Domain |->
                 IF d \in due
                 THEN [k \in Word |-> (io_in[d][k] + 1) % CycleRing]
                 ELSE io_in[d]]
      BY <1>5 DEF Fetch
    <3> QED
      BY <3>1, <3>2 DEF TypeOK
  <2>4. missed' \in [Domain -> BOOLEAN]
    BY <1>5 DEF TypeOK, Fetch
  <2>5. receives' \in [Domain -> 0 .. 2]
    <3>1. receives \in [Domain -> 0 .. 2]
      BY DEF TypeOK
    <3>2. \A d \in Domain : receives[d] < 2 => receives[d] + 1 \in 0 .. 2
      BY <3>1
    <3>3. \/ UNCHANGED receives
          \/ receives' = [d \in Domain |->
               IF MasterOf[d] = master[t] /\ receives[d] < 2
               THEN receives[d] + 1 ELSE receives[d]]
      BY <1>5 DEF Fetch
    <3> QED
      BY <3>1, <3>2, <3>3
  <2> QED
    BY <1>5, <2>1, <2>2, <2>3, <2>4, <2>5 DEF Fetch, TypeOK, PcType,
    libraryVars
<1>6. CASE CopyInput(t)
  <2>1. domain[t] \in Domain /\ domain[t] + 1 \in 1 .. NumDomains + 1
    BY <1>6, Constants DEF CopyInput, Mine, Domain
  <2>2. domain' \in [Task -> 1 .. NumDomains + 1]
    BY <1>6, <2>1 DEF TypeOK, CopyInput, NextWord
  <2>3. word' \in [Task -> Word]
    BY <1>6, NextWordType DEF CopyInput
  <2>4. io_in[domain[t]][word[t]] \in Nat
    BY <1>6, <2>1 DEF TypeOK
  <2>5. inputs' \in [Domain -> [Word -> Nat]]
    BY <1>6, <2>4 DEF TypeOK, CopyInput
  <2> QED
    BY <1>6, <2>1, <2>2, <2>3, <2>4, <2>5 DEF CopyInput, TypeOK, PcType,
    libraryVars
<1>7. CASE EndReceive(t)
  <2>1. pc' \in PcType
    BY <1>7 DEF TypeOK, PcType, EndReceive, Post, Goto
  <2>2. master' \in [Task -> Master]
    BY <1>7, Constants DEF TypeOK, EndReceive, Post, Master
  <2>3. lock' \in [Master -> Task \cup {-1}]
    BY <1>7 DEF TypeOK, EndReceive, Post
  <2> QED
    BY <1>7, <2>1, <2>2, <2>3 DEF EndReceive, TypeOK, PcType, libraryVars,
    Post
<1>8. CASE CopyOutput(t)
  <2>1. domain[t] \in Domain /\ domain[t] + 1 \in 1 .. NumDomains + 1
    BY <1>8, Constants DEF CopyOutput, Mine, Domain
  <2>2. domain' \in [Task -> 1 .. NumDomains + 1]
    BY <1>8, <2>1 DEF TypeOK, CopyOutput, NextWord
  <2>3. word' \in [Task -> Word]
    BY <1>8, NextWordType DEF CopyOutput
  <2>4. io_out' \in [Domain -> [Word -> Nat]]
    BY <1>8 DEF TypeOK, CopyOutput
  <2>5. datagram' \in [Domain -> {"new", "queued", "sent", "answered"}]
    BY <1>8 DEF TypeOK, CopyOutput
  <2>6. missed' \in [Domain -> BOOLEAN]
    BY <1>8 DEF TypeOK, CopyOutput
  <2>7. receives' \in [Domain -> 0 .. 2]
    <3>1. \/ UNCHANGED receives
          \/ receives' = [receives EXCEPT ![domain[t]] = 0]
      BY <1>8 DEF CopyOutput
    <3>2. receives \in [Domain -> 0 .. 2] /\ 0 \in 0 .. 2
      BY DEF TypeOK
    <3> QED
      BY <3>1, <3>2
  <2> QED
    BY <1>8, <2>1, <2>2, <2>3, <2>4, <2>5, <2>6, <2>7 DEF CopyOutput,
    TypeOK, PcType, libraryVars
<1>9. CASE EndSend(t)
  <2>1. pc' \in PcType
    BY <1>9 DEF TypeOK, PcType, EndSend, Post, Goto
  <2>2. master' \in [Task -> Master]
    BY <1>9, Constants DEF TypeOK, EndSend, Post, Master
  <2>3. lock' \in [Master -> Task \cup {-1}]
    BY <1>9 DEF TypeOK, EndSend, Post
  <2>4. datagram' \in [Domain -> {"new", "queued", "sent", "answered"}]
    BY <1>9 DEF TypeOK, EndSend, Send
  <2>5. frame' \in [Domain -> [Word -> Nat]]
    BY <1>9 DEF TypeOK, EndSend, Send
  <2> QED
    BY <1>9, <2>1, <2>2, <2>3, <2>4, <2>5 DEF EndSend, TypeOK, PcType,
    libraryVars, Post
<1> QED
  BY <1>1, <1>2, <1>3, <1>4, <1>5, <1>6, <1>7, <1>8, <1>9 DEF Step

(* A step of one task leaves the others where they are.                    *)
LEMMA Others ==
  ASSUME TypeOK, NEW t \in Task, NEW u \in Task \ {t}, BeginStep(t) \/ Step(t)
  PROVE  /\ pc'[u] = pc[u] /\ master'[u] = master[u] /\ domain'[u] = domain[u]
         /\ word'[u] = word[u] /\ cycle'[u] = cycle[u]
<1>1. CASE BeginStep(t)
  BY <1>1 DEF BeginStep, Goto, TypeOK
<1>2. CASE Compute(t)
  BY <1>2 DEF Compute, Goto, TypeOK
<1>3. CASE Wait(t)
  BY <1>3 DEF Wait, Goto, TypeOK
<1>4. CASE SkipDomain(t)
  BY <1>4 DEF SkipDomain, TypeOK
<1>5. CASE Fetch(t)
  BY <1>5 DEF Fetch, Goto, TypeOK
<1>6. CASE CopyInput(t)
  BY <1>6 DEF CopyInput, NextWord, TypeOK
<1>7. CASE EndReceive(t)
  BY <1>7 DEF EndReceive, Post, Goto, TypeOK
<1>8. CASE CopyOutput(t)
  BY <1>8 DEF CopyOutput, NextWord, TypeOK
<1>9. CASE EndSend(t)
  BY <1>9 DEF EndSend, Post, Goto, TypeOK
<1> QED
  BY <1>1, <1>2, <1>3, <1>4, <1>5, <1>6, <1>7, <1>8, <1>9 DEF Step

LEMMA LockStep ==
  ASSUME TypeOK, LockInv, NEW t \in Task, BeginStep(t) \/ Step(t)
  PROVE  LockInv'
<1>1. CASE Wait(t)
  BY <1>1, Constants DEF Wait, Goto, TypeOK, LockInv, Inside, Task
<1>2. CASE EndReceive(t) \/ EndSend(t)
  <2>1. Inside(t, master[t]) /\ lock[master[t]] = t
    BY <1>2 DEF EndReceive, EndSend, LockInv, Inside, TypeOK
  <2>2. /\ lock' = [lock EXCEPT ![master[t]] = -1]
        /\ pc'[t] \notin {"fetch", "process", "queue"}
    BY <1>2 DEF EndReceive, EndSend, Post, Goto, TypeOK
  <2>3. ASSUME NEW u \in Task, NEW m \in Master
        PROVE  lock'[m] = u <=> (Inside(u, m))'
    <3>1. CASE u = t
      BY <2>1, <2>2, <3>1 DEF TypeOK, LockInv, Inside, Task
    <3>2. CASE u # t
      <4>1. pc'[u] = pc[u] /\ master'[u] = master[u]
        BY <1>2, <3>2, Others DEF Step
      <4> QED
        BY <2>1, <2>2, <3>2, <4>1 DEF TypeOK, LockInv, Inside, Task
    <3> QED
      BY <3>1, <3>2
  <2> QED
    BY <2>3 DEF LockInv
<1>3. CASE BeginStep(t) \/ Compute(t) \/ SkipDomain(t) \/ Fetch(t)
           \/ CopyInput(t) \/ CopyOutput(t)
  <2>1. UNCHANGED <<lock, master>>
    BY <1>3 DEF BeginStep, Compute, SkipDomain, Fetch, CopyInput, CopyOutput
  <2>2. pc'[t] \in {"fetch", "process", "queue"}
        <=> pc[t] \in {"fetch", "process", "queue"}
    BY <1>3 DEF BeginStep, Compute, SkipDomain, Fetch, CopyInput, CopyOutput,
                Goto, TypeOK
  <2>3. \A u \in Task \ {t} : pc'[u] = pc[u]
    BY Others
  <2> QED
    BY <2>1, <2>2, <2>3 DEF LockInv, Inside
<1> QED
  BY <1>1, <1>2, <1>3 DEF Step

LEMMA CursorStep ==
  ASSUME TypeOK, CursorInv, NEW t \in Task, BeginStep(t) \/ Step(t)
  PROVE  CursorInv'
<1> SUFFICES ASSUME NEW u \in Task
             PROVE  /\ pc'[u] \in {"idle", "compute"} => master'[u] = 1
                    /\ word'[u] # 1 =>
                         /\ pc'[u] \in {"process", "queue"}
                         /\ domain'[u] \in Mine(u, master[u])'
  BY DEF CursorInv
<1>0. CASE u # t
  BY <1>0, Others DEF CursorInv, Mine
<1>1. CASE u = t /\ BeginStep(t)
  BY <1>1 DEF BeginStep, Goto, TypeOK, CursorInv, Mine, Domain
<1>2. CASE u = t /\ Compute(t)
  BY <1>2 DEF Compute, Goto, TypeOK, CursorInv, Mine, Domain
<1>3. CASE u = t /\ Wait(t)
  BY <1>3 DEF Wait, Goto, TypeOK, CursorInv, Mine, Domain
<1>4. CASE u = t /\ SkipDomain(t)
  BY <1>4, Constants DEF SkipDomain, TypeOK, CursorInv, Mine, Domain
<1>5. CASE u = t /\ Fetch(t)
  BY <1>5 DEF Fetch, Goto, TypeOK, CursorInv, Mine, Domain
<1>6. CASE u = t /\ CopyInput(t)
  BY <1>6, Constants DEF CopyInput, NextWord, TypeOK, CursorInv, Mine,
    Domain, Word
<1>7. CASE u = t /\ EndReceive(t)
  BY <1>7, Constants DEF EndReceive, Post, Goto, TypeOK, CursorInv, Mine,
    Domain
<1>8. CASE u = t /\ CopyOutput(t)
  BY <1>8, Constants DEF CopyOutput, NextWord, TypeOK, CursorInv, Mine,
    Domain, Word
<1>9. CASE u = t /\ EndSend(t)
  BY <1>9, Constants DEF EndSend, Post, Goto, TypeOK, CursorInv, Mine,
    Domain
<1> QED
  BY <1>0, <1>1, <1>2, <1>3, <1>4, <1>5, <1>6, <1>7, <1>8, <1>9 DEF Step

(* A task in the middle of a domain goes on copying it.                    *)
LEMMA AmidCopies ==
  ASSUME TypeOK, CursorInv, NEW d \in Domain, NEW t \in Task, t = TidOf[d],
         BeginStep(t) \/ Step(t)
  PROVE  /\ Amid(d, "process") => CopyInput(t)
         /\ Amid(d, "queue") => CopyOutput(t)
<1> SUFFICES ASSUME NEW l \in {"process", "queue"}, Amid(d, l)
             PROVE  IF l = "queue" THEN CopyOutput(t) ELSE CopyInput(t)
  OBVIOUS
<1>1. pc[t] = l /\ domain[t] = d /\ d \in Mine(t, master[t]) /\ d <= NumDomains
  BY Constants DEF Amid, CursorInv, Domain
<1> QED
  BY <1>1, Constants DEF Step, BeginStep, Compute, Wait, SkipDomain, Fetch,
    CopyInput, EndReceive, CopyOutput, EndSend, Domain

LEMMA AmidStays ==
  ASSUME TypeOK, NEW d \in Domain, NEW t \in Task, t # TidOf[d],
         BeginStep(t) \/ Step(t), NEW l, Amid(d, l)
  PROVE  Amid(d, l)' /\ word'[TidOf[d]] = word[TidOf[d]]
                     /\ cycle'[TidOf[d]] = cycle[TidOf[d]]
  BY Constants, Others DEF Amid

(* Only a copy of its first word brings a task into the middle of a domain.*)
LEMMA AmidBegins ==
  ASSUME TypeOK, CursorInv, NEW d \in Domain, NEW t \in Task,
         BeginStep(t) \/ Step(t)
  PROVE  /\ ~Amid(d, "process") /\ ~(CopyInput(t) /\ domain[t] = d) =>
              ~Amid(d, "process")'
         /\ ~Amid(d, "queue") /\ ~(CopyOutput(t) /\ domain[t] = d) =>
              ~Amid(d, "queue")'
<1>1. CASE t # TidOf[d]
  BY <1>1, Constants, Others DEF Amid
<1>2. CASE t = TidOf[d] /\ word'[t] = 1
  BY <1>2 DEF Amid
<1>3. CASE t = TidOf[d] /\ word'[t] # 1 /\ UNCHANGED word
  <2>1. /\ pc[t] \in {"process", "queue"}
        /\ domain[t] \in Mine(t, master[t])
    BY <1>3 DEF CursorInv
  <2>2. CopyInput(t) \/ CopyOutput(t)
    BY <2>1, Constants DEF Step, BeginStep, Compute, Wait, SkipDomain, Fetch,
      CopyInput, EndReceive, CopyOutput, EndSend, Mine, Domain
  <2>3. FALSE
    BY <1>3, <2>2, Constants DEF CopyInput, CopyOutput, NextWord, TypeOK, Word
  <2> QED
    BY <2>3
<1>4. CASE t = TidOf[d] /\ word'[t] # 1 /\ word' # word
  <2>1. (CopyInput(t) \/ CopyOutput(t)) /\ domain'[t] = domain[t]
    BY <1>4, Constants DEF Step, BeginStep, Compute, Wait, SkipDomain, Fetch,
      CopyInput, EndReceive, CopyOutput, EndSend, Post, NextWord, TypeOK
  <2> QED
    BY <1>4, <2>1 DEF CopyInput, CopyOutput, Amid
<1> QED
  BY <1>1, <1>2, <1>3, <1>4

LEMMA OutStep ==
  ASSUME TypeOK, CursorInv, OutInv, NEW t \in Task, BeginStep(t) \/ Step(t)
  PROVE  OutInv'
<1> SUFFICES ASSUME NEW d \in Domain
             PROVE  IF Amid(d, "queue")'
                    THEN \A k \in Word : k < word'[TidOf[d]] =>
                           io_out'[d][k] = cycle'[TidOf[d]]
                    ELSE \A k, l \in Word : io_out'[d][k] = io_out'[d][l]
  BY DEF OutInv
<1>1. CASE CopyOutput(t) /\ domain[t] = d
  <2>1. t = TidOf[d] /\ pc[t] = "queue" /\ pc'[t] = "queue"
    BY <1>1 DEF CopyOutput, Mine
  <2>2. cycle'[t] = cycle[t] /\ word[t] \in Word
    BY <1>1 DEF CopyOutput, TypeOK
  <2>3. \A k \in Word : io_out'[d][k] = IF k = word[t] THEN cycle[t]
                                        ELSE io_out[d][k]
    BY <1>1 DEF CopyOutput, TypeOK
  <2>4. \A k \in Word : k < word[t] => io_out[d][k] = cycle[t]
    <3>1. CASE word[t] = 1
      BY <3>1 DEF Word
    <3>2. CASE word[t] # 1
      BY <1>1, <2>1, <3>2 DEF OutInv, Amid
    <3> QED
      BY <3>1, <3>2
  <2>5. CASE word[t] < Words
    <3>1. word'[t] = word[t] + 1 /\ domain'[t] = d
      BY <1>1, <2>5 DEF CopyOutput, NextWord, TypeOK
    <3>2. \A k \in Word : k < word'[t] => io_out'[d][k] = cycle'[t]
      BY <2>2, <2>3, <2>4, <3>1 DEF Word
    <3>3. Amid(d, "queue")'
      BY <2>1, <2>2, <3>1 DEF Amid, Word
    <3> QED
      BY <2>1, <3>2, <3>3
  <2>6. CASE ~(word[t] < Words)
    <3>1. word'[t] = 1
      BY <1>1, <2>6 DEF CopyOutput, NextWord, TypeOK
    <3>2. \A k \in Word : io_out'[d][k] = cycle[t]
      BY <2>2, <2>3, <2>4, <2>6, Constants DEF Word
    <3>3. ~Amid(d, "queue")'
      BY <2>1, <3>1 DEF Amid
    <3> QED
      BY <3>2, <3>3
  <2> QED
    BY <2>5, <2>6
<1>2. CASE ~(CopyOutput(t) /\ domain[t] = d)
  <2>1. io_out'[d] = io_out[d]
    BY <1>2 DEF Step, BeginStep, Compute, Wait, SkipDomain, Fetch, CopyInput,
      EndReceive, CopyOutput, EndSend, Post, TypeOK
  <2>2. CASE Amid(d, "queue")
    <3>1. t # TidOf[d]
      BY <1>2, <2>2, AmidCopies DEF Amid
    <3> QED
      BY <2>1, <2>2, <3>1, AmidStays DEF OutInv
  <2>3. CASE ~Amid(d, "queue")
    <3>1. ~Amid(d, "queue")'
      BY <1>2, <2>3, AmidBegins
    <3> QED
      BY <2>1, <2>3, <3>1 DEF OutInv
  <2> QED
    BY <2>2, <2>3
<1> QED
  BY <1>1, <1>2

LEMMA InStep ==
  ASSUME TypeOK, LockInv, CursorInv, InInv, NEW t \in Task,
         BeginStep(t) \/ Step(t)
  PROVE  InInv'
<1> SUFFICES ASSUME NEW d \in Domain
             PROVE  /\ \A k, l \in Word : io_in'[d][k] = io_in'[d][l]
                    /\ IF Amid(d, "process")'
                       THEN \A k \in Word : k < word'[TidOf[d]] =>
                              inputs'[d][k] = io_in'[d][k]
                       ELSE \A k, l \in Word : inputs'[d][k] = inputs'[d][l]
  BY DEF InInv
<1>0. \A k, l \in Word : io_in'[d][k] = io_in'[d][l]
  <2>1. \A k, l \in Word : io_in[d][k] = io_in[d][l]
    BY DEF InInv
  <2>2. CASE Fetch(t)
    <3>1. \/ io_in'[d] = io_in[d]
          \/ io_in'[d] = [k \in Word |-> (io_in[d][k] + 1) % CycleRing]
      BY <2>2 DEF Fetch, TypeOK
    <3> QED
      BY <2>1, <3>1
  <2>3. CASE ~Fetch(t)
    BY <2>1, <2>3 DEF Step, BeginStep, Compute, Wait, SkipDomain, CopyInput,
      EndReceive, CopyOutput, EndSend, Post
  <2> QED
    BY <2>2, <2>3
<1>1. CASE CopyInput(t) /\ domain[t] = d
  <2>1. t = TidOf[d] /\ pc[t] = "process" /\ pc'[t] = "process"
    BY <1>1 DEF CopyInput, Mine
  <2>2. io_in' = io_in /\ word[t] \in Word
    BY <1>1 DEF CopyInput, TypeOK
  <2>3. \A k \in Word : inputs'[d][k] = IF k = word[t] THEN io_in[d][k]
                                        ELSE inputs[d][k]
    BY <1>1 DEF CopyInput, TypeOK
  <2>4. \A k \in Word : k < word[t] => inputs[d][k] = io_in[d][k]
    <3>1. CASE word[t] = 1
      BY <3>1 DEF Word
    <3>2. CASE word[t] # 1
      BY <1>1, <2>1, <3>2 DEF InInv, Amid
    <3> QED
      BY <3>1, <3>2
  <2>5. CASE word[t] < Words
    <3>1. word'[t] = word[t] + 1 /\ domain'[t] = d
      BY <1>1, <2>5 DEF CopyInput, NextWord, TypeOK
    <3>2. \A k \in Word : k < word'[t] => inputs'[d][k] = io_in'[d][k]
      BY <2>2, <2>3, <2>4, <3>1 DEF Word
    <3>3. Amid(d, "process")'
      BY <2>1, <2>2, <3>1 DEF Amid, Word
    <3> QED
      BY <1>0, <2>1, <3>2, <3>3
  <2>6. CASE ~(word[t] < Words)
    <3>1. word'[t] = 1
      BY <1>1, <2>6 DEF CopyInput, NextWord, TypeOK
    <3>2. \A k \in Word : inputs'[d][k] = io_in'[d][k]
      BY <2>2, <2>3, <2>4, <2>6, Constants DEF Word
    <3>3. ~Amid(d, "process")'
      BY <2>1, <3>1 DEF Amid
    <3> QED
      BY <1>0, <3>2, <3>3
  <2> QED
    BY <2>5, <2>6
<1>2. CASE ~(CopyInput(t) /\ domain[t] = d)
  <2>1. inputs'[d] = inputs[d]
    BY <1>2 DEF Step, BeginStep, Compute, Wait, SkipDomain, Fetch, CopyInput,
      EndReceive, CopyOutput, EndSend, Post, TypeOK
  <2>2. CASE Amid(d, "process")
    <3>1. t # TidOf[d]
      BY <1>2, <2>2, AmidCopies DEF Amid
    <3>2. io_in'[d] = io_in[d]
      <4>1. lock[MasterOf[d]] = TidOf[d]
        BY <2>2, Constants DEF Amid, CursorInv, Mine, LockInv, Inside
      <4>2. ~(Fetch(t) /\ master[t] = MasterOf[d])
        BY <3>1, <4>1, Constants DEF Fetch, LockInv, Inside
      <4> QED
        BY <4>2 DEF Step, BeginStep, Compute, Wait, SkipDomain, Fetch,
          CopyInput, EndReceive, CopyOutput, EndSend, Post, TypeOK
    <3> QED
      BY <1>0, <2>1, <2>2, <3>1, <3>2, AmidStays DEF InInv
  <2>3. CASE ~Amid(d, "process")
    <3>1. ~Amid(d, "process")'
      BY <1>2, <2>3, AmidBegins
    <3> QED
      BY <1>0, <2>1, <2>3, <3>1 DEF InInv
  <2> QED
    BY <2>2, <2>3
<1> QED
  BY <1>1, <1>2

LEMMA FramesStep ==
  ASSUME TypeOK, LockInv, CursorInv, OutInv, FramesAreOneCycle,
         NEW t \in Task, BeginStep(t) \/ Step(t)
  PROVE  FramesAreOneCycle'
<1> SUFFICES ASSUME NEW d \in Domain
             PROVE  \A k, l \in Word : frame'[d][k] = frame'[d][l]
  BY DEF FramesAreOneCycle
<1>1. CASE frame'[d] = frame[d]
  BY <1>1 DEF FramesAreOneCycle
<1>2. CASE frame'[d] # frame[d]
  <2>1. EndSend(t) /\ MasterOf[d] = master[t] /\ frame'[d] = io_out[d]
    BY <1>2 DEF Step, BeginStep, Compute, Wait, SkipDomain, Fetch, CopyInput,
      EndReceive, CopyOutput, EndSend, Send, libraryVars, TypeOK
  <2>2. pc[t] = "queue" /\ domain[t] > NumDomains
    BY <2>1 DEF EndSend
  <2>3. ~Amid(d, "queue")
    <3>1. SUFFICES ASSUME Amid(d, "queue") PROVE FALSE
      OBVIOUS
    <3>2. Inside(TidOf[d], MasterOf[d]) /\ Inside(t, MasterOf[d])
      BY <2>1, <2>2, <3>1, Constants DEF Amid, CursorInv, Mine, Inside
    <3>3. t = TidOf[d]
      BY <3>2, Constants DEF LockInv
    <3> QED
      BY <2>2, <3>1, <3>3, Constants DEF Amid, Domain
  <2> QED
    BY <2>1, <2>3 DEF OutInv
<1> QED
  BY <1>1, <1>2

(* Once it has received, the fastest task of a master remains so until it  *)
(* sends.                                                                  *)
LEMMA ReceivedStays ==
  ASSUME TypeOK, CursorInv, NEW m \in Master, Fastest[m] \in Task, Received(m),
         NEW t \in Task, BeginStep(t) \/ Step(t),
         ~(EndSend(t) /\ t = Fastest[m] /\ master[t] = m)
  PROVE  Received(m)'
<1>1. CASE t # Fastest[m]
  BY <1>1, Others DEF Received
<1>2. CASE t = Fastest[m]
  <2>1. CASE BeginStep(t)
    BY <1>2, <2>1 DEF BeginStep, Received
  <2>2. CASE Compute(t)
    BY <1>2, <2>2 DEF Compute, Goto, Received, CursorInv, TypeOK, Master
  <2>3. CASE Wait(t)
    BY <1>2, <2>3 DEF Wait, Goto, Received, TypeOK
  <2>4. CASE SkipDomain(t) \/ CopyInput(t) \/ CopyOutput(t)
    BY <1>2, <2>4 DEF SkipDomain, CopyInput, CopyOutput, Received
  <2>5. CASE Fetch(t)
    BY <1>2, <2>5 DEF Fetch, Goto, Received, TypeOK, Master
  <2>6. CASE EndReceive(t)
    BY <1>2, <2>6 DEF EndReceive, Post, Goto, Received, TypeOK, Master
  <2>7. CASE EndSend(t)
    BY <1>2, <2>7, Constants DEF EndSend, Post, Goto, Received, TypeOK, Master
  <2> QED
    BY <2>1, <2>2, <2>3, <2>4, <2>5, <2>6, <2>7 DEF Step
<1> QED
  BY <1>1, <1>2

(* And one that queues domains goes on until it sends.                     *)
LEMMA QueueingStays ==
  ASSUME TypeOK, NEW f \in Task, pc[f] = "queue",
         NEW t \in Task, BeginStep(t) \/ Step(t), ~(EndSend(t) /\ t = f)
  PROVE  pc'[f] = "queue" /\ master'[f] = master[f]
<1>1. CASE t # f
  BY <1>1, Others
<1>2. CASE t = f
  <2>1. SkipDomain(t) \/ CopyOutput(t)
    BY <1>2 DEF Step, BeginStep, Compute, Wait, SkipDomain, Fetch, CopyInput,
      EndReceive
  <2> QED
    BY <1>2, <2>1 DEF SkipDomain, CopyOutput
<1> QED
  BY <1>1, <1>2

(* What a receive does to the datagram of one domain.                      *)
LEMMA FetchOf ==
  ASSUME TypeOK, NEW t \in Task, Fetch(t), NEW d \in Domain
  PROVE  IF IsFastest(t) /\ master[t] = MasterOf[d]
         THEN /\ datagram'[d] = datagram[d]
                 \/ (datagram[d] = "sent" /\ datagram'[d] = "answered")
              /\ (datagram[d] = "sent" /\ datagram'[d] = "sent") => missed'[d]
              /\ receives[d] = 0 => receives'[d] = 1
         ELSE /\ datagram'[d] = datagram[d] /\ missed'[d] = missed[d]
              /\ receives'[d] = receives[d]
<1>1. CASE ~IsFastest(t)
  BY <1>1 DEF Fetch
<1>2. CASE IsFastest(t)
  <2> DEFINE sent == {e \in Domain : /\ MasterOf[e] = master[t]
                                     /\ datagram[e] = "sent"}
  <2>1. PICK missing \in SUBSET sent :
          /\ datagram' = [e \in Domain |->
               IF e \in sent \ missing THEN "answered" ELSE datagram[e]]
          /\ missed' = [e \in Domain |-> missed[e] \/ e \in missing]
          /\ receives' = [e \in Domain |->
               IF MasterOf[e] = master[t] /\ receives[e] < 2
               THEN receives[e] + 1 ELSE receives[e]]
    BY <1>2 DEF Fetch
  <2>2. d \in sent <=> MasterOf[d] = master[t] /\ datagram[d] = "sent"
    OBVIOUS
  <2> HIDE DEF sent
  <2>3. datagram'[d] = IF d \in sent \ missing THEN "answered" ELSE datagram[d]
    BY <2>1
  <2>4. missed'[d] <=> missed[d] \/ d \in missing
    BY <2>1
  <2>5. receives'[d] = IF MasterOf[d] = master[t] /\ receives[d] < 2
                       THEN receives[d] + 1 ELSE receives[d]
    BY <2>1
  <2>6. missed[d] \in BOOLEAN /\ missed'[d] \in BOOLEAN
    BY <2>1 DEF TypeOK
  <2>7. d \notin sent => d \notin missing
    BY <2>1
  <2>8. CASE master[t] = MasterOf[d]
    <3>1. datagram'[d] = datagram[d]
          \/ (datagram[d] = "sent" /\ datagram'[d] = "answered")
      BY <2>2, <2>3
    <3>2. (datagram[d] = "sent" /\ datagram'[d] = "sent") => missed'[d]
      BY <2>2, <2>3, <2>4, <2>8
    <3>3. receives[d] = 0 => receives'[d] = 1
      BY <2>5, <2>8
    <3> QED
      BY <1>2, <2>8, <3>1, <3>2, <3>3
  <2>9. CASE master[t] # MasterOf[d]
    <3>1. d \notin sent /\ d \notin missing
      BY <2>2, <2>7, <2>9
    <3>2. missed'[d] = missed[d]
      BY <2>4, <2>6, <3>1
    <3> QED
      BY <2>3, <2>5, <2>9, <3>1, <3>2
  <2> QED
    BY <2>8, <2>9
<1> QED
  BY <1>1, <1>2

LEMMA RoundStep ==
  ASSUME TypeOK, CursorInv, RoundInv, NEW t \in Task, BeginStep(t) \/ Step(t)
  PROVE  RoundInv'
<1> SUFFICES ASSUME NEW d \in Domain
             PROVE  RoundOf(d)'
  BY DEF RoundInv
<1> DEFINE m == MasterOf[d]
<1>0. RoundOf(d) /\ m \in Master /\ TidOf[d] \in Task /\ Fastest[m] \in Task
  BY Constants DEF RoundInv
<1>1. CASE Fetch(t) /\ IsFastest(t) /\ master[t] = m
  <2>1. /\ pc[t] = "fetch" /\ pc'[t] = "process" /\ master'[t] = m
        /\ t = Fastest[m] /\ ~Received(m) /\ Received(m)'
    BY <1>0, <1>1 DEF Fetch, Goto, IsFastest, Received, TypeOK, Master
  <2>2. /\ datagram'[d] = datagram[d]
           \/ (datagram[d] = "sent" /\ datagram'[d] = "answered")
        /\ (datagram[d] = "sent" /\ datagram'[d] = "sent") => missed'[d]
        /\ receives[d] = 0 => receives'[d] = 1
    BY <1>1, FetchOf DEF IsFastest
  <2>3. CASE datagram[d] = "queued"
    <3>1. receives[d] = 0 /\ TidOf[d] # Fastest[m]
      BY <1>0, <2>1, <2>3 DEF RoundOf
    <3>2. datagram'[d] = "queued" /\ receives'[d] = 1
      BY <2>2, <2>3, <3>1
    <3> QED
      BY <2>1, <3>1, <3>2 DEF RoundOf
  <2>4. CASE datagram[d] = "sent"
    <3>1. datagram'[d] = "answered" \/ (datagram'[d] = "sent" /\ missed'[d])
      BY <2>2, <2>4
    <3> QED
      BY <3>1 DEF RoundOf
  <2>5. CASE datagram[d] \notin {"queued", "sent"}
    <3>1. datagram'[d] = datagram[d]
      BY <2>2, <2>5
    <3> QED
      BY <2>5, <3>1 DEF RoundOf
  <2> QED
    BY <2>3, <2>4, <2>5
<1>2. CASE CopyOutput(t) /\ domain[t] = d /\ word[t] = Words
  <2>1. TidOf[d] = t /\ master'[t] = m /\ pc'[t] = "queue"
    BY <1>2 DEF CopyOutput, Mine
  <2>2. datagram'[d] = "queued" /\ receives'[d] = 0
    BY <1>2 DEF CopyOutput, TypeOK
  <2> QED
    BY <2>1, <2>2 DEF RoundOf
<1>3. CASE EndSend(t) /\ IsFastest(t) /\ master[t] = m
  <2>1. /\ missed'[d] = missed[d] /\ receives'[d] = receives[d]
        /\ datagram'[d] = IF datagram[d] = "queued" THEN "sent"
                          ELSE datagram[d]
    BY <1>3 DEF EndSend, Send, TypeOK
  <2>2. datagram'[d] # "queued"
    BY <2>1
  <2>3. datagram'[d] = "sent" =>
          /\ missed[d] \/ receives[d] <= 1
          /\ TidOf[d] = Fastest[m] => missed[d] \/ receives[d] = 0
    BY <1>0, <2>1 DEF RoundOf
  <2> QED
    BY <2>1, <2>2, <2>3 DEF RoundOf
<1>4. CASE /\ ~(Fetch(t) /\ IsFastest(t) /\ master[t] = m)
           /\ ~(CopyOutput(t) /\ domain[t] = d /\ word[t] = Words)
           /\ ~(EndSend(t) /\ IsFastest(t) /\ master[t] = m)
  <2>1. /\ datagram'[d] = datagram[d] /\ missed'[d] = missed[d]
        /\ receives'[d] = receives[d]
    <3>1. CASE Fetch(t)
      BY <1>4, <3>1, FetchOf
    <3>2. CASE CopyOutput(t)
      BY <1>4, <3>2 DEF CopyOutput, TypeOK
    <3>3. CASE EndSend(t)
      BY <1>4, <3>3 DEF EndSend, Send, TypeOK
    <3> QED
      BY <3>1, <3>2, <3>3 DEF Step, BeginStep, Compute, Wait, SkipDomain,
        CopyInput, EndReceive, libraryVars
  <2>2. ~(EndSend(t) /\ t = Fastest[m] /\ master[t] = m)
    BY <1>4 DEF IsFastest
  <2>3. Received(m) => Received(m)'
    BY <1>0, <2>2, ReceivedStays
  <2>4. (/\ TidOf[d] = Fastest[m] /\ pc[TidOf[d]] = "queue"
         /\ master[TidOf[d]] = m) =>
           pc'[TidOf[d]] = "queue" /\ master'[TidOf[d]] = m
    BY <1>0, <2>2, QueueingStays
  <2> QED
    BY <1>0, <2>1, <2>3, <2>4 DEF RoundOf
<1> QED
  BY <1>1, <1>2, <1>3, <1>4

LEMMA InitIInv == Init => IInv
  BY Constants DEF Init, IInv, TypeOK, LockInv, Inside, CursorInv, OutInv,
    InInv, Amid, FramesAreOneCycle, RoundInv, RoundOf, Const, Each,
    Task, Master, Domain

LEMMA NextIInv == IInv /\ [Next]_vars => IInv'
<1>1. ASSUME IInv, NEW t \in Task, BeginStep(t) \/ Step(t) PROVE IInv'
  BY <1>1, TypeStep, LockStep, CursorStep, OutStep, InStep, FramesStep,
     RoundStep DEF IInv
<1>2. ASSUME IInv, UNCHANGED vars PROVE IInv'
  BY <1>2 DEF IInv, vars, taskVars, libraryVars, TypeOK, LockInv, Inside,
    CursorInv, OutInv, InInv, Amid, FramesAreOneCycle, RoundInv, RoundOf,
    Received
<1> QED
  BY <1>1, <1>2 DEF Next

LEMMA Invariance == Spec => []IInv
  BY InitIInv, NextIInv, PTL DEF Spec

-----------------------------------------------------------------------------
(* The theorems *)

(* Indices, counters and semaphores stay in their ranges: no loop of       *)
(* ecs_receive or ecs_send runs past its list.                             *)
THEOREM TypeCorrect == Spec => []TypeOK
<1>1. IInv => TypeOK
  BY DEF IInv
<1> QED
  BY <1>1, Invariance, PTL

(* ecs_send never sends while another task copies outputs.                 *)
THEOREM WholeFrames == Spec => []FramesAreOneCycle
<1>1. IInv => FramesAreOneCycle
  BY DEF IInv
<1> QED
  BY <1>1, Invariance, PTL

(* ecs_receive never receives while another task copies inputs.            *)
THEOREM WholeInputs == Spec => []InputsAreOneAnswer
<1>1. IInv => InputsAreOneAnswer
  BY DEF IInv, InInv, Amid, InputsAreOneAnswer
<1> QED
  BY <1>1, Invariance, PTL

(* Neither the frames nor the inputs of a step are ever mixed. *)
THEOREM WholeData == Spec => []DataAreOneCycle
BY WholeFrames, WholeInputs, PTL DEF DataAreOneCycle

(* Two receives of the master, or one of the task itself, bring the answer *)
(* to what ecs_send has queued.                                            *)
THEOREM AnswersCome == Spec => []AnswersAfterReceives
<1>1. IInv => AnswersAfterReceives
  <2> SUFFICES ASSUME IInv, NEW t \in Task, pc[t] = "process",
                      domain[t] \in Mine(t, master[t]),
                      receives[domain[t]] >= Enough(domain[t])
               PROVE  datagram[domain[t]] \in {"new", "answered"}
                      \/ missed[domain[t]]
    BY DEF AnswersAfterReceives
  <2> DEFINE d == domain[t]
  <2>1. d \in Domain /\ TidOf[d] = t /\ receives[d] \in 0 .. 2
    BY DEF Mine, IInv, TypeOK
  <2>2. receives[d] >= IF Fastest[MasterOf[d]] = TidOf[d] THEN 1 ELSE 2
    BY DEF Enough
  <2>3. RoundOf(d)
    BY <2>1 DEF IInv, RoundInv
  <2>4. datagram[d] # "queued"
    BY <2>1, <2>2, <2>3 DEF RoundOf
  <2>5. datagram[d] = "sent" => missed[d]
    BY <2>1, <2>2, <2>3 DEF RoundOf
  <2>6. datagram[d] \in {"new", "queued", "sent", "answered"}
    BY <2>1 DEF IInv, TypeOK
  <2> QED
    BY <2>4, <2>5, <2>6
<1> QED
  BY <1>1, Invariance, PTL

=============================================================================
