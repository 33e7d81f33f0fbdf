--------------------------- MODULE EcatRegistry ---------------------------
(***************************************************************************)
(* How src/rtw/blocks/EtherCAT/ecrt_support.c is set up when the model     *)
(* starts: the blocks of the model ask for masters and domains in the      *)
(* order in which Simulink starts them, ecs_start_slaves configures the    *)
(* slaves, activates the masters and lays out the lists of conversions     *)
(* that ecs_receive and ecs_send (EcatCycle) run in every cycle.           *)
(*                                                                         *)
(* The EtherCAT library is external: each of its calls may fail. The first *)
(* failure that a caller sees ends the start of the model.                 *)
(***************************************************************************)
EXTENDS Integers, Sequences

CONSTANTS
  Master, Domain,  \* ids of masters and domains
  Tid,             \* ids of the tasks
  Rate,            \* what get_master and get_domain make of a tid: itself in
                   \* the MT build, else its period in base periods
  NoTid,           \* ~0U, the tid of ecs_setup_master
  Calls,           \* bound: the calls that the blocks of a model make
  SlaveLists       \* bound: the slaves of a model

ASSUME RateAssumption == Rate \in [Tid -> Nat]
ASSUME NoTidAssumption == NoTid \in Nat /\ \A t \in Tid : Rate[t] < NoTid

(* A call of a domain_state block is one of ecs_get_domain_ptr; "last" is  *)
(* set for the last one of the block. One of a master_state block is one   *)
(* of ecs_setup_master, and asks for neither direction.                    *)
Call == [master : Master, domain : Domain, tid : Tid,
         input : BOOLEAN, output : BOOLEAN, last : BOOLEAN]
Slave == [master : Master, domain : Domain, tid : Tid, rxpdo : Nat, txpdo : Nat]

ASSUME CallAssumption == Calls \subseteq Seq(Call)
ASSUME SlaveAssumption == SlaveLists \subseteq Seq(Slave)

VARIABLES
  calls, slaves,  \* the model's blocks and slaves
  pc,             \* what comes next
  n,              \* the call or slave that is next
  failed,         \* a pointer that the block got was NULL
  masters,        \* ecat_data.master_list
  domains,        \* the domain_lists of all masters, in order of creation
  shown,          \* the domain that each call got
  rxDomain, txDomain,  \* pdo_map.domain of each slave's PDOs
  list            \* the conversions of each domain; output_convert_list is a
                  \* pointer into it
inputs == <<calls, slaves>>
vars == <<inputs, pc, n, failed, masters, domains, shown, rxDomain, txDomain,
          list>>

Init ==
  /\ calls \in Calls
  /\ slaves \in SlaveLists
  /\ pc = "blocks" /\ n = 1 /\ failed = FALSE
  /\ masters = <<>> /\ domains = <<>> /\ shown = <<>>
  /\ rxDomain = [s \in 1 .. Len(slaves) |-> 0]
  /\ txDomain = [s \in 1 .. Len(slaves) |-> 0]
  /\ list = <<>>

-----------------------------------------------------------------------------
(* get_master and get_domain *)

Lower(a, b) == IF a < b THEN a ELSE b

MasterOf(id) == {m \in 1 .. Len(masters) : masters[m].id = id}

(* Mutants: a new master is not listed; one that is there keeps its rate.  *)
GetMasterUnlisted(id, rate, granted) ==
  [m \in 1 .. Len(masters) |->
     IF m \in MasterOf(id) THEN [masters[m] EXCEPT !.fastest = Lower(@, rate)]
                           ELSE masters[m]]

GetMasterAsItIs(id, rate, granted) ==
  IF MasterOf(id) = {}
  THEN Append(masters, [id |-> id, fastest |-> rate, handle |-> granted])
  ELSE masters

(* The masters after get_master. A master whose request failed stays in    *)
(* the list, without a handle.                                             *)
GetMaster(id, rate, granted) ==
  IF MasterOf(id) = {}
  THEN Append(masters, [id |-> id, fastest |-> rate, handle |-> granted])
  ELSE [m \in 1 .. Len(masters) |->
          IF m \in MasterOf(id)
          THEN [masters[m] EXCEPT !.fastest = Lower(@, rate)]
          ELSE masters[m]]

Suits(d, id, domain, rate, input, output) ==
  /\ domains[d].master = id /\ domains[d].id = domain
  /\ domains[d].rate = rate
  /\ (domains[d].input /\ input) \/ (domains[d].output /\ output)

(* Mutant: only the first domain of the id and the rate is looked at.      *)
DomainForHead(id, domain, rate, input, output) ==
  IF \E d \in 1 .. Len(domains) :
       /\ Suits(d, id, domain, rate, input, output)
       /\ \A e \in 1 .. d - 1 : ~Suits(e, id, domain, rate,
                                     domains[e].input, domains[e].output)
  THEN CHOOSE d \in 1 .. Len(domains) :
         /\ Suits(d, id, domain, rate, input, output)
         /\ \A e \in 1 .. d - 1 : ~Suits(e, id, domain, rate,
                                       domains[e].input, domains[e].output)
  ELSE Len(domains) + 1

(* The first domain of the list that has one of the directions, or the one *)
(* that is appended.                                                       *)
DomainFor(id, domain, rate, input, output) ==
  CHOOSE d \in 1 .. Len(domains) + 1 :
    /\ d = Len(domains) + 1 \/ Suits(d, id, domain, rate, input, output)
    /\ \A e \in 1 .. d - 1 : ~Suits(e, id, domain, rate, input, output)

(* The domains after get_domain. The flags are cumulative; a domain that   *)
(* could not be created stays in the list, without a handle.               *)
GetDomain(id, domain, rate, input, output, created) ==
  LET d == DomainFor(id, domain, rate, input, output) IN
  IF d > Len(domains)
  THEN Append(domains, [master |-> id, id |-> domain, rate |-> rate,
                        input |-> input, output |-> output,
                        handle |-> created, ins |-> 0, outs |-> 0])
  ELSE [domains EXCEPT ![d].input = @ \/ input, ![d].output = @ \/ output]

(* A master that was found, but has no handle.                             *)
Dangling(id) == \E m \in MasterOf(id) : ~masters[m].handle

-----------------------------------------------------------------------------
(* The blocks of the model start *)

Failed == pc' = "failed" /\ UNCHANGED n

NextCall == IF n = Len(calls) THEN pc' = "slaves" /\ n' = 1
                              ELSE n' = n + 1 /\ UNCHANGED pc

(* ecs_setup_master leaves the rate of a master alone. *)
SetupMaster ==
  /\ pc = "blocks" /\ n <= Len(calls)
  /\ ~calls[n].input /\ ~calls[n].output
  /\ \E granted \in BOOLEAN :
       /\ masters' = GetMaster(calls[n].master, NoTid, granted)
       /\ IF MasterOf(calls[n].master) = {} /\ ~granted THEN Failed ELSE NextCall
  /\ shown' = Append(shown, 0)
  /\ UNCHANGED <<inputs, failed, domains, rxDomain, txDomain, list>>

(* ecs_get_domain_ptr. The block looks at its pointers after its last call *)
(* only. The library does not survive a master without a handle.           *)
GetDomainPtr ==
  /\ pc = "blocks" /\ n <= Len(calls)
  /\ calls[n].input \/ calls[n].output
  /\ LET c == calls[n]
         rate == Rate[c.tid]
         d == DomainFor(c.master, c.domain, rate, c.input, c.output)
         AfterCall(null) ==
           IF c.last /\ (failed \/ null) THEN Failed /\ UNCHANGED failed
                                         ELSE NextCall /\ failed' = null
     IN \E granted, created \in BOOLEAN :
          /\ masters' = GetMaster(c.master, rate, granted)
          /\ \/ /\ MasterOf(c.master) = {} /\ ~granted
                /\ AfterCall(TRUE)
                /\ shown' = Append(shown, 0)
                /\ UNCHANGED domains
             \/ /\ Dangling(c.master) /\ d > Len(domains)
                /\ pc' = "crashed"
                /\ UNCHANGED <<n, failed, shown, domains>>
             \/ /\ (IF MasterOf(c.master) = {} THEN granted
                      ELSE ~Dangling(c.master) \/ d <= Len(domains))
                /\ domains' = GetDomain(c.master, c.domain, rate,
                                        c.input, c.output, created)
                /\ AfterCall(~domains'[d].handle)
                /\ shown' = Append(shown, IF domains'[d].handle THEN d ELSE 0)
  /\ UNCHANGED <<inputs, rxDomain, txDomain, list>>

StartTrailer ==
  /\ pc = "blocks" /\ calls = <<>>
  /\ pc' = "slaves"
  /\ UNCHANGED <<inputs, n, failed, masters, domains, shown, rxDomain,
                 txDomain, list>>

-----------------------------------------------------------------------------
(* ecs_start_slaves *)

(* init_slave up to the PDOs: the master, and the slave's configuration.   *)
InitSlave ==
  /\ pc = "slaves" /\ n <= Len(slaves)
  /\ \E granted \in BOOLEAN :
       /\ masters' = GetMaster(slaves[n].master, Rate[slaves[n].tid], granted)
       /\ \/ pc' = "failed"
          \/ (MasterOf(slaves[n].master) # {} \/ granted) /\ pc' = "rxpdo"
  /\ UNCHANGED <<inputs, n, failed, domains, shown, rxDomain, txDomain, list>>

(* get_domain, and register_pdos, which counts the PDOs it has registered, *)
(* the one that fails included. A found domain has a handle.               *)
RegisterRxPdos ==
  /\ pc = "rxpdo"
  /\ LET s == slaves[n]
         d == DomainFor(s.master, s.domain, Rate[s.tid], FALSE, TRUE)
         found == GetDomain(s.master, s.domain, Rate[s.tid], FALSE, TRUE, TRUE)
     IN \/ s.rxpdo = 0 /\ pc' = "txpdo" /\ UNCHANGED <<domains, rxDomain>>
        \/ /\ s.rxpdo > 0
           /\ \E k \in 1 .. s.rxpdo :
                /\ domains' = [found EXCEPT ![d].outs = @ + k]
                /\ pc' = "failed" \/ (pc' = "txpdo" /\ k = s.rxpdo)
           /\ rxDomain' = [rxDomain EXCEPT ![n] = d]
        \/ /\ s.rxpdo > 0 /\ d > Len(domains)
           /\ domains' = GetDomain(s.master, s.domain, Rate[s.tid],
                                   FALSE, TRUE, FALSE)
           /\ pc' = "failed" /\ UNCHANGED rxDomain
  /\ UNCHANGED <<inputs, n, failed, masters, shown, txDomain, list>>

RegisterTxPdos ==
  /\ pc = "txpdo"
  /\ LET s == slaves[n]
         d == DomainFor(s.master, s.domain, Rate[s.tid], TRUE, FALSE)
         found == GetDomain(s.master, s.domain, Rate[s.tid], TRUE, FALSE, TRUE)
         NextSlave == pc' = "slaves" /\ n' = n + 1
     IN \/ s.txpdo = 0 /\ NextSlave /\ UNCHANGED <<domains, txDomain>>
        \/ /\ s.txpdo > 0
           /\ \E k \in 1 .. s.txpdo :
                /\ domains' = [found EXCEPT ![d].ins = @ + k]
                /\ Failed \/ (NextSlave /\ k = s.txpdo)
           /\ txDomain' = [txDomain EXCEPT ![n] = d]
        \/ /\ s.txpdo > 0 /\ d > Len(domains)
           /\ domains' = GetDomain(s.master, s.domain, Rate[s.tid],
                                   TRUE, FALSE, FALSE)
           /\ Failed /\ UNCHANGED txDomain
  /\ UNCHANGED <<inputs, failed, masters, shown, rxDomain, list>>

(* An element of a conversion list: the k-th PDO of a slave, or the zeros  *)
(* that calloc left, at which ecs_receive and ecs_send stop.               *)
Zero == <<>>

(* Mutant: one terminator for both lists.                                  *)
EmptyListShort(d) ==
  [array |-> [i \in 0 .. d.ins + d.outs |-> Zero],
   output |-> d.ins, input_count |-> 0, output_count |-> 0]

EmptyList(d) ==
  [array |-> [i \in 0 .. d.ins + d.outs + 1 |-> Zero],
   output |-> d.ins + 1, input_count |-> 0, output_count |-> 0]

(* All masters are activated, and the lists of their domains allocated.    *)
Activate ==
  /\ pc = "slaves" /\ n > Len(slaves)
  /\ \/ pc' = "failed" /\ UNCHANGED <<n, list>>
     \/ /\ list' = [d \in 1 .. Len(domains) |-> EmptyList(domains[d])]
        /\ pc' = "convert" /\ n' = 1
  /\ UNCHANGED <<inputs, failed, masters, domains, shown, rxDomain, txDomain>>

(* The RxPDOs of a slave go to the output list of their domain, its TxPDOs *)
(* to the input list, each at the counter of the list.                     *)
FillRx(lists, s) ==
  IF slaves[s].rxpdo = 0 THEN lists
  ELSE LET l == lists[rxDomain[s]]
           first == l.output + l.output_count
       IN [lists EXCEPT ![rxDomain[s]] =
             [l EXCEPT !.output_count = @ + slaves[s].rxpdo,
                       !.array = [i \in DOMAIN l.array |->
                          IF i \in first .. first + slaves[s].rxpdo - 1
                          THEN <<s, "rx", i - first + 1>> ELSE l.array[i]]]]

FillTx(lists, s) ==
  IF slaves[s].txpdo = 0 THEN lists
  ELSE LET l == lists[txDomain[s]]
           first == l.input_count
       IN [lists EXCEPT ![txDomain[s]] =
             [l EXCEPT !.input_count = @ + slaves[s].txpdo,
                       !.array = [i \in DOMAIN l.array |->
                          IF i \in first .. first + slaves[s].txpdo - 1
                          THEN <<s, "tx", i - first + 1>> ELSE l.array[i]]]]

Convert ==
  /\ pc = "convert" /\ n <= Len(slaves)
  /\ list' = FillTx(FillRx(list, n), n)
  /\ n' = n + 1
  /\ UNCHANGED <<inputs, pc, failed, masters, domains, shown, rxDomain,
                 txDomain>>

Next == \/ SetupMaster \/ GetDomainPtr \/ StartTrailer
        \/ InitSlave \/ RegisterRxPdos \/ RegisterTxPdos
        \/ Activate \/ Convert

Spec == Init /\ [][Next]_vars

-----------------------------------------------------------------------------
(* Properties *)

Started == pc = "convert" /\ n > Len(slaves)

(* The types; domains belong to masters that are registered, and PDOs to   *)
(* domains.                                                                *)
TypeOK ==
  /\ pc \in {"blocks", "slaves", "rxpdo", "txpdo", "convert", "failed",
             "crashed"}
  /\ n \in Nat \ {0} /\ failed \in BOOLEAN
  /\ masters \in Seq([id : Master, fastest : Nat, handle : BOOLEAN])
  /\ domains \in Seq([master : Master, id : Domain, rate : Nat,
                      input : BOOLEAN, output : BOOLEAN, handle : BOOLEAN,
                      ins : Nat, outs : Nat])
  /\ \A d \in 1 .. Len(domains) : MasterOf(domains[d].master) # {}
  /\ shown \in Seq(0 .. Len(domains))
  /\ \A s \in 1 .. Len(slaves) :
       rxDomain[s] \in 0 .. Len(domains) /\ txDomain[s] \in 0 .. Len(domains)
  /\ pc = "convert" => Len(list) = Len(domains)

(* The rate of a master is that of the fastest slave or domain there is,   *)
(* whatever the order in which they come: no domain has to wait for its    *)
(* master to send and receive. EcatCycle assumes it.                       *)
MasterIsFastest ==
  \A m \in 1 .. Len(masters) :
    Started =>
      LET rates == {Rate[slaves[s].tid] : s \in
                      {s \in 1 .. Len(slaves) : slaves[s].master = masters[m].id}}
                   \cup {Rate[calls[c].tid] : c \in
                      {c \in 1 .. Len(calls) :
                         /\ calls[c].master = masters[m].id
                         /\ calls[c].input \/ calls[c].output}}
      IN /\ masters[m].fastest \in rates \cup {NoTid}
         /\ \A r \in rates : masters[m].fastest <= r

(* What ecs_receive (or ecs_send) copies for a domain: from the first      *)
(* element of the list up to a terminator, which is within the array.      *)
Copied(d, first, end) ==
  /\ first + end \in DOMAIN list[d].array
  /\ list[d].array[first + end] = Zero
  /\ \A i \in 0 .. end - 1 : list[d].array[first + i] # Zero

Elements(d, first, end) == {list[d].array[first + i] : i \in 0 .. end - 1}

(* In the end the two lists of a domain hold the PDOs registered with it,  *)
(* each once and each in the list of its direction, and both are ended by  *)
(* a terminator of their own; so every PDO of the model is copied by the   *)
(* domain of its slave's master, id and rate, which has the flag that the  *)
(* direction asks for.                                                     *)
EveryPdoIsCopied ==
  Started =>
    /\ \A s \in 1 .. Len(slaves) :
         LET Serves(d) == /\ domains[d].master = slaves[s].master
                          /\ domains[d].id = slaves[s].domain
                          /\ domains[d].rate = Rate[slaves[s].tid]
         IN /\ slaves[s].rxpdo > 0 => /\ Serves(rxDomain[s])
                                      /\ domains[rxDomain[s]].output
            /\ slaves[s].txpdo > 0 => /\ Serves(txDomain[s])
                                      /\ domains[txDomain[s]].input
    /\ \A d \in 1 .. Len(domains) :
         /\ Copied(d, 0, domains[d].ins)
         /\ Copied(d, list[d].output, domains[d].outs)
         /\ Elements(d, 0, domains[d].ins) =
              UNION {{<<s, "tx", k>> : k \in 1 .. slaves[s].txpdo} :
                       s \in {s \in 1 .. Len(slaves) : txDomain[s] = d}}
         /\ Elements(d, list[d].output, domains[d].outs) =
              UNION {{<<s, "rx", k>> : k \in 1 .. slaves[s].rxpdo} :
                       s \in {s \in 1 .. Len(slaves) : rxDomain[s] = d}}

(* All PDOs of one direction that share master, domain id and rate are in  *)
(* one domain: a datagram carries all of them or none.                     *)
OneDomainPerDirection ==
  \A s, t \in 1 .. Len(slaves) :
    (/\ slaves[s].master = slaves[t].master /\ slaves[s].domain = slaves[t].domain
     /\ Rate[slaves[s].tid] = Rate[slaves[t].tid])
    => /\ rxDomain[s] # 0 /\ rxDomain[t] # 0 => rxDomain[s] = rxDomain[t]
       /\ txDomain[s] # 0 /\ txDomain[t] # 0 => txDomain[s] = txDomain[t]

(* As long as all domain_state blocks ask for both directions at once, or  *)
(* all for one at a time, each shows the domain that the PDOs are in. When *)
(* they differ a block may be left with a domain that stays empty.         *)
OneKind ==
  \/ \A c \in 1 .. Len(calls) : calls[c].input = calls[c].output
  \/ \A c \in 1 .. Len(calls) : ~(calls[c].input /\ calls[c].output)

ShownIsUsed ==
  (Started /\ OneKind) =>
    \A c \in 1 .. Len(shown), s \in 1 .. Len(slaves) :
      (/\ shown[c] # 0
       /\ calls[c].master = slaves[s].master /\ calls[c].domain = slaves[s].domain
       /\ Rate[calls[c].tid] = Rate[slaves[s].tid])
      => /\ calls[c].output /\ rxDomain[s] # 0 => shown[c] = rxDomain[s]
         /\ calls[c].input /\ txDomain[s] # 0 => shown[c] = txDomain[s]

(* PDOs of different masters, domain ids or rates are never in one domain, *)
(* in whatever direction.                                                  *)
OthersAreApart ==
  \A s, t \in 1 .. Len(slaves) :
    \A d \in ({rxDomain[s], txDomain[s]} \cap {rxDomain[t], txDomain[t]}) \ {0} :
      /\ slaves[s].master = slaves[t].master
      /\ slaves[s].domain = slaves[t].domain
      /\ Rate[slaves[s].tid] = Rate[slaves[t].tid]

(* What shares a domain in the model shares it in the program: the PDOs of *)
(* one direction with each other, and with the block that shows its state; *)
(* what does not share it in the model does not in the program.            *)
DomainsAreShared == OneDomainPerDirection /\ OthersAreApart /\ ShownIsUsed

=============================================================================
