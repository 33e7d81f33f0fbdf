----------------------------- MODULE EcatTasks -----------------------------
(***************************************************************************)
(* The exchange of process data with EtherCAT slaves in a program with     *)
(* several tasks: ecs_receive and ecs_send of                              *)
(* src/rtw/blocks/EtherCAT/ecrt_support.c, built with MT.                  *)
(*                                                                         *)
(* Every task calls both in each of its steps and goes through all masters,*)
(* holding the semaphore of the one it works on. In there it processes or  *)
(* queues the domains of its own; the fastest task of a master receives    *)
(* and sends for all of them. Tasks run when they like: nothing in the     *)
(* code ties the steps of a slow task to those of the fastest.             *)
(*                                                                         *)
(* Process data is copied word by word. The library is modelled as in      *)
(* EcatCycle, with the data that its datagrams carry. Minor steps of the   *)
(* solver return at once, and ASYNC_ECAT only moves ecs_send: both absent. *)
(***************************************************************************)
EXTENDS Integers

CONSTANTS
  NumTasks,    \* the tasks are numbered from 0, the fastest, as are their tids
  NumMasters,  \* the masters in the order of their list
  NumDomains,  \* the domains in the order of their lists
  MasterOf,    \* the master of each domain
  TidOf,       \* the task of each domain
  Fastest,     \* fastest_tid of each master
  Words,       \* words of each domain, in either direction
  MayMiss,     \* domains whose answers may be lost or late
  CycleRing    \* bound: cycles and answers are numbered modulo this

Task   == 0 .. NumTasks - 1
Master == 1 .. NumMasters
Domain == 1 .. NumDomains
Word   == 1 .. Words

ASSUME CountAssumption ==
  {NumTasks, NumMasters, NumDomains, Words, CycleRing} \subseteq Nat \ {0}
ASSUME DomainAssumption ==
  MasterOf \in [Domain -> Master] /\ TidOf \in [Domain -> Task]
(* EcatRegistry!MasterIsFastest *)
ASSUME FastestAssumption ==
  Fastest \in [Master -> Nat] /\ \A d \in Domain : Fastest[MasterOf[d]] <= TidOf[d]
ASSUME MissAssumption == MayMiss \subseteq Domain

VARIABLES
  pc,        \* where a task is
  master,    \* the master that its loop has come to
  domain,    \* the domain that its loop has come to
  word,      \* the word of that domain that it copies next
  lock,      \* the task that holds the semaphore of a master, -1 for none
  cycle,     \* the number of a task's cycle
  inputs,    \* the inputs that the model computes from
  io_in, io_out,  \* io_data of each domain
  datagram,  \* where the datagram of each domain is
  frame,     \* the outputs that a domain's datagram carried last
  missed,    \* its answer did not come when it was due
  receives   \* history: receives of the master since the domain was queued

taskVars    == <<pc, master, domain, word, cycle>>
libraryVars == <<datagram, frame, missed, receives>>
vars == <<taskVars, lock, inputs, io_in, io_out, libraryVars>>

Const(v) == [k \in Word |-> v]
Each(v)  == [d \in Domain |-> v]

Init ==
  /\ pc = [t \in Task |-> "idle"]
  /\ master = [t \in Task |-> 1]
  /\ domain = [t \in Task |-> 1]
  /\ word = [t \in Task |-> 1]
  /\ lock = [m \in Master |-> -1]
  /\ cycle = [t \in Task |-> 0]
  /\ inputs = Each(Const(0)) /\ io_in = Each(Const(0))
  /\ io_out = Each(Const(0)) /\ frame = Each(Const(0))
  /\ datagram = Each("new")
  /\ missed = Each(FALSE)
  /\ receives = Each(0)

Goto(t, l) == pc' = [pc EXCEPT ![t] = l]

Mine(t, m) == {d \in Domain : MasterOf[d] = m /\ TidOf[d] = t}

IsFastest(t) == Fastest[master[t]] = t

-----------------------------------------------------------------------------
(* The step of a task *)

(* The task begins its step with ecs_receive. *)
BeginStep(t) ==
  /\ pc[t] = "idle"
  /\ Goto(t, "receive")
  /\ cycle' = [cycle EXCEPT ![t] = (@ + 1) % CycleRing]
  /\ UNCHANGED <<master, domain, word, lock, inputs, io_in, io_out, libraryVars>>

(* The model computes, from the inputs of all domains of the task. *)
Compute(t) ==
  /\ pc[t] = "compute"
  /\ Goto(t, "send")
  /\ UNCHANGED <<master, domain, word, cycle, lock, inputs, io_in, io_out,
                 libraryVars>>

(* Mutant: the tasks that do not receive do without the semaphore. *)
WaitReceiveOnly(t) ==
  /\ pc[t] \in {"receive", "send"}
  /\ IsFastest(t) => lock[master[t]] = -1
  /\ lock' = IF IsFastest(t) THEN [lock EXCEPT ![master[t]] = t] ELSE lock
  /\ domain' = [domain EXCEPT ![t] = 1]
  /\ Goto(t, IF pc[t] = "receive" THEN "fetch" ELSE "queue")
  /\ UNCHANGED <<master, word, cycle, inputs, io_in, io_out, libraryVars>>

(* sem_wait *)
Wait(t) ==
  /\ pc[t] \in {"receive", "send"}
  /\ lock[master[t]] = -1
  /\ lock' = [lock EXCEPT ![master[t]] = t]
  /\ domain' = [domain EXCEPT ![t] = 1]
  /\ Goto(t, IF pc[t] = "receive" THEN "fetch" ELSE "queue")
  /\ UNCHANGED <<master, word, cycle, inputs, io_in, io_out, libraryVars>>

(* sem_post, and on to the next master or out of the function. *)
Post(t) ==
  /\ lock' = [lock EXCEPT ![master[t]] = -1]
  /\ IF master[t] < NumMasters
       THEN /\ master' = [master EXCEPT ![t] = @ + 1]
            /\ Goto(t, IF pc[t] = "process" THEN "receive" ELSE "send")
       ELSE /\ master' = [master EXCEPT ![t] = 1]
            /\ Goto(t, IF pc[t] = "process" THEN "compute" ELSE "idle")
  /\ UNCHANGED <<domain, word, cycle, inputs, io_in, io_out>>

(* A domain of another task, or of another master's list. *)
SkipDomain(t) ==
  /\ pc[t] \in {"process", "queue"}
  /\ domain[t] \in Domain \ Mine(t, master[t])
  /\ domain' = [domain EXCEPT ![t] = @ + 1]
  /\ UNCHANGED <<pc, master, word, cycle, lock, inputs, io_in, io_out,
                 libraryVars>>

(* The loop over the words of a domain, and on to the next domain. Mutant: *)
(* one word too many.                                                      *)
NextWordLate(t) ==
  IF word[t] <= Words
  THEN word' = [word EXCEPT ![t] = @ + 1] /\ UNCHANGED domain
  ELSE /\ word' = [word EXCEPT ![t] = 1]
       /\ domain' = [domain EXCEPT ![t] = @ + 1]

NextWord(t) ==
  IF word[t] < Words
  THEN word' = [word EXCEPT ![t] = @ + 1] /\ UNCHANGED domain
  ELSE /\ word' = [word EXCEPT ![t] = 1]
       /\ domain' = [domain EXCEPT ![t] = @ + 1]

-----------------------------------------------------------------------------
(* ecs_receive *)

(* The fastest task receives: the answers that are due come in, but for    *)
(* those missing, each with data newer than before.                        *)
Fetch(t) ==
  /\ pc[t] = "fetch"
  /\ Goto(t, "process")
  /\ IF IsFastest(t)
       THEN LET sent == {d \in Domain : /\ MasterOf[d] = master[t]
                                        /\ datagram[d] = "sent"}
            IN \E missing \in SUBSET (sent \cap MayMiss) :
                 /\ datagram' = [d \in Domain |->
                      IF d \in sent \ missing THEN "answered" ELSE datagram[d]]
                 /\ io_in' = [d \in Domain |->
                      IF d \in sent \ missing
                      THEN [k \in Word |-> (io_in[d][k] + 1) % CycleRing]
                      ELSE io_in[d]]
                 /\ missed' = [d \in Domain |-> missed[d] \/ d \in missing]
                 /\ receives' = [d \in Domain |->
                      IF MasterOf[d] = master[t] /\ receives[d] < 2
                      THEN receives[d] + 1 ELSE receives[d]]
       ELSE UNCHANGED <<datagram, io_in, missed, receives>>
  /\ UNCHANGED <<master, domain, word, cycle, lock, inputs, io_out, frame>>

(* The domains of the task are processed and their inputs copied. *)
CopyInput(t) ==
  /\ pc[t] = "process" /\ domain[t] \in Mine(t, master[t])
  /\ LET d == domain[t]  k == word[t]
     IN inputs' = [inputs EXCEPT ![d][k] = io_in[d][k]]
  /\ NextWord(t)
  /\ UNCHANGED <<pc, master, cycle, lock, io_in, io_out, libraryVars>>

EndReceive(t) ==
  /\ pc[t] = "process" /\ domain[t] > NumDomains
  /\ Post(t)
  /\ UNCHANGED libraryVars

-----------------------------------------------------------------------------
(* ecs_send *)

(* The outputs of the task's domains are copied; after its last word a     *)
(* domain is queued.                                                       *)
CopyOutput(t) ==
  /\ pc[t] = "queue" /\ domain[t] \in Mine(t, master[t])
  /\ LET d == domain[t]
     IN /\ io_out' = [io_out EXCEPT ![d][word[t]] = cycle[t]]
        /\ IF word[t] = Words
             THEN /\ datagram' = [datagram EXCEPT ![d] = "queued"]
                  /\ missed' = [missed EXCEPT ![d] = FALSE]
                  /\ receives' = [receives EXCEPT ![d] = 0]
             ELSE UNCHANGED <<datagram, missed, receives>>
  /\ NextWord(t)
  /\ UNCHANGED <<pc, master, cycle, lock, inputs, io_in, frame>>

(* ecrt_master_send *)
Send(m) ==
  LET queued == {d \in Domain : MasterOf[d] = m /\ datagram[d] = "queued"}
  IN /\ datagram' = [d \in Domain |->
                       IF d \in queued THEN "sent" ELSE datagram[d]]
     /\ frame' = [d \in Domain |->
                    IF d \in queued THEN io_out[d] ELSE frame[d]]

(* Mutants: a task waits until its domains have been sent; a task sends for *)
(* the masters of which it is not the fastest.                              *)
EndSendWhenSent(t) ==
  /\ pc[t] = "queue" /\ domain[t] > NumDomains
  /\ IF IsFastest(t) THEN Send(master[t]) ELSE UNCHANGED <<datagram, frame>>
  /\ \/ /\ \E d \in Mine(t, master[t]) : datagram'[d] = "queued"
        /\ lock' = [lock EXCEPT ![master[t]] = -1]
        /\ Goto(t, "send")
        /\ UNCHANGED <<master, domain, word, cycle, inputs, io_in, io_out>>
     \/ /\ \A d \in Mine(t, master[t]) : datagram'[d] # "queued"
        /\ Post(t)
  /\ UNCHANGED <<missed, receives>>

EndSendSwapped(t) ==
  /\ pc[t] = "queue" /\ domain[t] > NumDomains
  /\ IF IsFastest(t) THEN UNCHANGED <<datagram, frame>> ELSE Send(master[t])
  /\ Post(t)
  /\ UNCHANGED <<missed, receives>>

(* The fastest task sends what all tasks have queued. *)
EndSend(t) ==
  /\ pc[t] = "queue" /\ domain[t] > NumDomains
  /\ IF IsFastest(t) THEN Send(master[t]) ELSE UNCHANGED <<datagram, frame>>
  /\ Post(t)
  /\ UNCHANGED <<missed, receives>>

Step(t) ==
  \/ Wait(t) \/ SkipDomain(t) \/ Fetch(t) \/ CopyInput(t) \/ EndReceive(t)
  \/ Compute(t) \/ CopyOutput(t) \/ EndSend(t)

Next == \E t \in Task : BeginStep(t) \/ Step(t)

Spec == Init /\ [][Next]_vars

(* A task that has begun a step goes on, and gets a semaphore that is free *)
(* again and again. That it begins another step is not assumed.            *)
FairSpec ==
  Spec /\ \A t \in Task : WF_vars(Step(t)) /\ SF_vars(Wait(t))

-----------------------------------------------------------------------------
(* Properties *)

TypeOK ==
  /\ pc \in [Task -> {"idle", "receive", "fetch", "process", "compute",
                      "send", "queue"}]
  /\ master \in [Task -> Master]
  /\ domain \in [Task -> 1 .. NumDomains + 1]
  /\ word \in [Task -> Word]
  /\ lock \in [Master -> Task \cup {-1}]
  /\ cycle \in [Task -> Nat]
  /\ inputs \in [Domain -> [Word -> Nat]] /\ frame \in [Domain -> [Word -> Nat]]
  /\ io_in \in [Domain -> [Word -> Nat]] /\ io_out \in [Domain -> [Word -> Nat]]
  /\ datagram \in [Domain -> {"new", "queued", "sent", "answered"}]
  /\ missed \in [Domain -> BOOLEAN]
  /\ receives \in [Domain -> 0 .. 2]

(* A datagram carries the outputs of one cycle of its task: the fastest    *)
(* task never sends while a slower one copies.                             *)
FramesAreOneCycle ==
  \A d \in Domain : \A k, l \in Word : frame[d][k] = frame[d][l]

(* While a task computes, the inputs of a domain are from one answer: the  *)
(* fastest task never receives while a slower one copies.                  *)
InputsAreOneAnswer ==
  \A d \in Domain :
    pc[TidOf[d]] \in {"compute", "send", "queue", "idle"} =>
      \A k, l \in Word : inputs[d][k] = inputs[d][l]

(* Process data cross between tasks and frames as they are: with a         *)
(* semaphore per master, no frame and no step sees half of a copy.         *)
DataAreOneCycle == FramesAreOneCycle /\ InputsAreOneAnswer

(* When a task processes a domain, the answer to what it queued before is  *)
(* there as soon as the master has received twice since, or once if the    *)
(* task is the fastest itself, unless it was missed. The code checks       *)
(* nothing of the kind: a slow task has to leave that much of its period.  *)
Enough(d) == IF Fastest[MasterOf[d]] = TidOf[d] THEN 1 ELSE 2

AnswersAfterReceives ==
  \A t \in Task :
    (pc[t] = "process" /\ domain[t] \in Mine(t, master[t])) =>
      LET d == domain[t]
      IN receives[d] >= Enough(d) =>
           datagram[d] \in {"new", "answered"} \/ missed[d]

(* No task waits for a semaphore for ever, and each step comes to its end, *)
(* whatever the others do.                                                 *)
StepsEnd == \A t \in Task : (pc[t] = "receive") ~> (pc[t] = "idle")

=============================================================================
