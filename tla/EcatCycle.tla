----------------------------- MODULE EcatCycle -----------------------------
(***************************************************************************)
(* The cyclic exchange of process data with EtherCAT slaves in a program   *)
(* with a single task (ecs_receive and ecs_send of                         *)
(* src/rtw/blocks/EtherCAT/ecrt_support.c, built without MT).              *)
(*                                                                         *)
(* The only task runs at the base rate. Down counters (tid_trigger) decide *)
(* in which steps a domain is processed and queued, and in which steps the *)
(* master receives and sends. A domain may have any decimation; the master *)
(* has that of its fastest slave. One master is modelled, for masters do   *)
(* not share any state.                                                    *)
(*                                                                         *)
(* Of the EtherCAT master library only the way of a datagram is modelled,  *)
(* as the code relies on it: a queued datagram goes out with the next      *)
(* send, its answer is there at the next receive or it is lost or late,    *)
(* and an answer that comes after the datagram was queued again is dropped.*)
(***************************************************************************)
EXTENDS Integers

CONSTANTS
  Domains,     \* the domains of the master
  Decimation,  \* Decimation[d]: base steps between two cycles of domain d
  Fastest,     \* fastest_tid: the smallest decimation of a slave
  RefClkDec,   \* refclk_trigger_init: 0, or sends between two clock syncs
  MayMiss      \* domains whose answers may be lost or late

ASSUME DecimationAssumption == Decimation \in [Domains -> Nat \ {0}]
ASSUME FastestAssumption ==
  Fastest \in Nat \ {0} /\ \A d \in Domains : Fastest <= Decimation[d]
ASSUME RefClkAssumption == RefClkDec \in Nat
ASSUME MissAssumption == MayMiss \subseteq Domains

VARIABLES
  place,          \* the next call of the task: "receive" or "send"
  master_trigger, \* tid_trigger of the master
  domain_trigger, \* tid_trigger of each domain
  refclk_trigger, \* sends until the reference clock is synchronised
  datagram,       \* where the datagram of each domain is
  missed          \* its answer did not come when it was due

vars == <<place, master_trigger, domain_trigger, refclk_trigger, datagram,
          missed>>

DatagramStates == {"new", "queued", "sent", "answered"}

Init ==
  /\ place = "receive"
  /\ master_trigger = Fastest
  /\ domain_trigger = Decimation
  /\ refclk_trigger = 1
  /\ datagram = [d \in Domains |-> "new"]
  /\ missed = [d \in Domains |-> FALSE]

(* The domains that this step processes and queues. *)
Triggered == {d \in Domains : domain_trigger[d] = 0}

(* ecrt_master_receive: the answers that are due, but for those missing. *)
MasterReceive(missing) ==
  /\ datagram' = [d \in Domains |->
       IF datagram[d] = "sent" /\ d \notin missing THEN "answered"
                                                   ELSE datagram[d]]
  /\ missed' = [d \in Domains |-> missed[d] \/ d \in missing]

(* Mutant: the domains are counted only when the master receives. *)
ReceiveCountsWithMaster ==
  /\ place = "receive"
  /\ place' = "send"
  /\ master_trigger' = master_trigger - 1
  /\ domain_trigger' = [d \in Domains |->
       IF master_trigger = 1 THEN domain_trigger[d] - 1 ELSE domain_trigger[d]]
  /\ IF master_trigger = 1
       THEN \E missing \in SUBSET {d \in MayMiss : datagram[d] = "sent"} :
              MasterReceive(missing)
       ELSE UNCHANGED <<datagram, missed>>
  /\ UNCHANGED refclk_trigger

(* ecs_receive counts down and, when the master's turn has come, fetches  *)
(* the answers; then the triggered domains are processed.                 *)
Receive ==
  /\ place = "receive"
  /\ place' = "send"
  /\ master_trigger' = master_trigger - 1
  /\ domain_trigger' = [d \in Domains |-> domain_trigger[d] - 1]
  /\ IF master_trigger = 1
       THEN \E missing \in SUBSET {d \in MayMiss : datagram[d] = "sent"} :
              MasterReceive(missing)
       ELSE UNCHANGED <<datagram, missed>>
  /\ UNCHANGED refclk_trigger

(* The datagrams once the triggered domains are queued. *)
Queued == [d \in Domains |-> IF d \in Triggered THEN "queued" ELSE datagram[d]]

(* ecrt_master_send *)
SentAll(dgs) == [d \in Domains |-> IF dgs[d] = "queued" THEN "sent" ELSE dgs[d]]

(* Mutants: the master sends before the domains are queued; it pauses for *)
(* twice its decimation.                                                  *)
SendBeforeQueue ==
  /\ place = "send"
  /\ place' = "receive"
  /\ domain_trigger' = [d \in Domains |->
       IF d \in Triggered THEN Decimation[d] ELSE domain_trigger[d]]
  /\ missed' = [d \in Domains |-> missed[d] /\ d \notin Triggered]
  /\ datagram' = [d \in Domains |->
       IF d \in Triggered THEN "queued"
       ELSE IF master_trigger = 0 /\ datagram[d] = "queued" THEN "sent"
       ELSE datagram[d]]
  /\ master_trigger' = IF master_trigger = 0 THEN Fastest ELSE master_trigger
  /\ UNCHANGED refclk_trigger

SendAtHalfRate ==
  /\ place = "send"
  /\ place' = "receive"
  /\ domain_trigger' = [d \in Domains |->
       IF d \in Triggered THEN Decimation[d] ELSE domain_trigger[d]]
  /\ missed' = [d \in Domains |-> missed[d] /\ d \notin Triggered]
  /\ datagram' = IF master_trigger = 0 THEN SentAll(Queued) ELSE Queued
  /\ master_trigger' = IF master_trigger = 0 THEN 2 * Fastest ELSE master_trigger
  /\ UNCHANGED refclk_trigger

(* ecs_send queues the triggered domains and sets their counters again;   *)
(* when the master's turn has come it synchronises the clocks and sends.  *)
Send ==
  /\ place = "send"
  /\ place' = "receive"
  /\ domain_trigger' = [d \in Domains |->
       IF d \in Triggered THEN Decimation[d] ELSE domain_trigger[d]]
  /\ missed' = [d \in Domains |-> missed[d] /\ d \notin Triggered]
  /\ IF master_trigger = 0
       THEN /\ master_trigger' = Fastest
            /\ datagram' = SentAll(Queued)
            /\ refclk_trigger' =
                 IF RefClkDec = 0      THEN refclk_trigger
                 ELSE IF refclk_trigger = 1 THEN RefClkDec
                 ELSE refclk_trigger - 1
       ELSE /\ datagram' = Queued
            /\ UNCHANGED <<master_trigger, refclk_trigger>>

Next == Receive \/ Send

(* The task runs forever; both calls are made in every step.               *)
Spec == Init /\ [][Next]_vars
FairSpec == Spec /\ WF_vars(Next)

-----------------------------------------------------------------------------
(* Properties *)

TypeOK ==
  /\ place \in {"receive", "send"}
  /\ master_trigger \in 0 .. Fastest
  /\ domain_trigger \in [Domains -> Nat]
  /\ \A d \in Domains : domain_trigger[d] <= Decimation[d]
  /\ refclk_trigger \in 1 .. (IF RefClkDec = 0 THEN 1 ELSE RefClkDec)
  /\ datagram \in [Domains -> DatagramStates]
  /\ missed \in [Domains -> BOOLEAN]

Divides(g, n) == \E q \in 1 .. n : n = q * g

(* The decimation of a domain goes well with that of its master: with g a *)
(* common divisor, a datagram waits Fastest - g steps for the next send   *)
(* at most and Fastest more steps for its answer.                         *)
Fits(d) ==
  \E g \in 1 .. Fastest :
    /\ Divides(g, Fastest) /\ Divides(g, Decimation[d])
    /\ 2 * Fastest - g <= Decimation[d]

(* When the task processes a domain, the answer to what it queued in the  *)
(* domain's previous cycle has arrived, unless a frame was lost since     *)
(* then. This is about the counters of master and domain, which run       *)
(* independently, and holds for every domain that fits its master.        *)
AnswersInTime ==
  place = "send" =>
    \A d \in Triggered :
      Fits(d) => datagram[d] \in {"new", "answered"} \/ missed[d]

(* Whatever the decimations are, every domain gets an answer in time again *)
(* and again unless its answers are lost: no pair of counters starves it.  *)
(* And the condition Fits is sharp: the answers of any other domain come   *)
(* late again and again, although no code refuses such decimations.        *)
AnswersRecur ==
  \A d \in Domains \ MayMiss :
    /\ []<>(place = "send" /\ d \in Triggered /\ datagram[d] = "answered")
    /\ ~Fits(d) => []<>(place = "send" /\ d \in Triggered
                                     /\ datagram[d] = "sent")

=============================================================================
