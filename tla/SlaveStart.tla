----------------------------- MODULE SlaveStart -----------------------------
(***************************************************************************)
(* From the description of a slave to its cyclic data. EcSlave writes what *)
(* a block of ec_slave3 describes to the .rtw file; here                   *)
(*   - ec_slave3.tlc generates the tables of the slave from it (Generate), *)
(*   - the program configures the slave with them at its start             *)
(*     (ecrt_support.c, init_slave: InitSlave, RegisterPdos),              *)
(*   - ecs_start_slaves chooses a function for each PDO (StartSlaves),     *)
(*   - ecs_receive and ecs_send copy all of them (CopyInputs,              *)
(*     CopyOutputs); when they do so is modelled in EcatCycle and          *)
(*     EcatTasks.                                                          *)
(* Inputs of the block are RxPDOs, data that the slave receives; its       *)
(* outputs are TxPDOs.                                                     *)
(***************************************************************************)
EXTENDS EcSlave, EcatConvert

CONSTANT WriteReal  \* the master library has EC_WRITE_REAL and EC_WRITE_LREAL

ASSUME WriteRealAssumption == WriteReal \in BOOLEAN

VARIABLES
  stage,     \* how far the program is
  commands,  \* the calls with which the slave has been configured
  sync,      \* ec_sync_info_t: the PDOs of each sync manager
  pdo_map,   \* struct pdo_map of every element: [rx, tx], lists
  convert,   \* struct endian_convert_t: [out, in], lists
  memory,    \* where bits of signals and work vectors at outputs come from
  image      \* where bits of the process image come from that were written
start == <<stage, commands, sync, pdo_map, convert, memory, image>>

StartInit ==
  /\ Init
  /\ stage = "model" /\ commands = <<>> /\ sync = <<>>
  /\ pdo_map = [rx |-> <<>>, tx |-> <<>>]
  /\ convert = [out |-> <<>>, in |-> <<>>]
  /\ memory = <<>> /\ image = <<>>

StartFails == stage' = "failed" /\ UNCHANGED <<convert, memory, image>>

-----------------------------------------------------------------------------
(* ec_slave3.tlc *)

(* The elements of the ports of a direction, as far as the signal is wide, *)
(* found by the numbers in the .rtw file. An address is [port, element].   *)
Mapped(dir, numbers, p, width) ==
  FlattenSeq([k \in 1 .. Len(numbers) |->
    LET port == p[Setting(numbers[k]).port[2]]
    IN [j \in 1 .. width[k] |->
          [sm |-> port.pdo[j].sm, pdo |-> port.pdo[j].pdo,
           entry |-> port.pdo[j].entry, idx |-> port.pdo[j].element,
           datatype |-> port.data_type, bigendian |-> port.big_endian,
           address |-> <<dir, k, j>>, offset |-> 0, bit_pos |-> 0]]])

(* Mutant: a PDO does not count the entries of those before it.            *)
CutFirst(items, counts) ==
  [i \in DOMAIN counts |-> SubSeq(items, 1, counts[i])]

(* A flat table, cut into pieces of the given lengths.                     *)
Cut(items, counts) ==
  LET end(i) == Total(SubSeq(counts, 1, i))
  IN [i \in DOMAIN counts |-> SubSeq(items, end(i - 1) + 1, end(i))]

(* GetSyncManagerConfigId: sync managers point into the table of PDOs, and *)
(* these into that of entries, at the sum of the counts before them. No    *)
(* table is made of no rows: what would point there is empty.              *)
SyncConfig ==
  Cut(Cut(tables.entry, tables.pdo),
      [i \in DOMAIN tables.manager |-> tables.manager[i].n])

Generate ==
  /\ pc = "written" /\ stage = "model" /\ stage' = "generated"
  /\ pdo_map' = [rx |-> Mapped("in", index.in, i_port, inWidth),
                 tx |-> Mapped("out", index.out, o_port, outWidth)]
  /\ sync' = SyncConfig
  /\ UNCHANGED <<commands, convert, memory, image>>

-----------------------------------------------------------------------------
(* init_slave *)

HasCall(row) == row.bytes > 0 \/ row.type \notin {3032, 3064} \/ WriteReal

(* An array, with complete access to the object if there is no subindex,   *)
(* or a value of the size of its type. No call for a type that the library *)
(* cannot write.                                                           *)
SdoCommand(i) ==
  LET row == sdo[i] IN
  [call |-> IF row.bytes > 0 /\ row.subindex < 0 THEN "complete sdo" ELSE "sdo",
   row |-> i, subindex |-> row.subindex,
   len |-> IF row.bytes > 0 THEN row.bytes ELSE MantBits(row.type) \div 8]

SdoCommands ==
  FlattenSeq([i \in 1 .. Len(index.sdo) |->
    LET r == Setting(index.sdo[i]).row
    IN IF HasCall(sdo[r]) THEN <<SdoCommand(r)>> ELSE <<>>])

SoeCommands ==
  [i \in 1 .. Len(index.soe) |->
     [call |-> "idn", row |-> Setting(index.soe[i]).row,
      len |-> soe[Setting(index.soe[i]).row].len]]

Commands ==
  <<[call |-> "slave"], [call |-> "pdos"]>> \o SdoCommands \o SoeCommands
    \o (IF index.dc # -1 THEN <<[call |-> "dc"]>> ELSE <<>>)

(* The first part of init_slave. Each call may fail and ends it, but for   *)
(* the last one, whose result is not read: cycle times that add up to zero *)
(* are refused before.                                                     *)
InitSlave ==
  /\ stage = "generated" /\ UNCHANGED <<sync, pdo_map>>
  /\ \/ /\ stage' = "configured"
        /\ commands' = Commands
        /\ UNCHANGED <<convert, memory, image>>
     \/ \E n \in 1 .. Len(Commands) :
          /\ Commands[n].call = "dc" => dc.cyclic
          /\ commands' = SubSeq(Commands, 1, n - 1)
          /\ StartFails

(* The bits before an entry in the data of a sync manager, which has all   *)
(* PDOs one after the other.                                               *)
StartIn(pdos, e) ==
  Bits(FlattenSeq(SubSeq(pdos, 1, e.pdo - 1))
         \o SubSeq(pdos[e.pdo], 1, e.entry - 1))

(* ecrt_slave_config_reg_pdo_entry (external): where the entry starts.     *)
(* Entries have different indices.                                         *)
EntryStart(m) == StartIn(sync[m.sm], m)

Aligned(m) == MantBits(m.datatype) < 8 \/ EntryStart(m) % 8 = 0

(* Mutant: a bit field stays in the byte in which its entry starts.        *)
RegisteredInFirstByte(m) ==
  LET bits  == MantBits(m.datatype)
      start_bit == EntryStart(m)
  IN IF bits < 8
     THEN [m EXCEPT !.offset = start_bit \div 8,
                    !.bit_pos = ((start_bit % 8) + bits * m.idx) % 8]
     ELSE [m EXCEPT !.offset = start_bit \div 8 + (bits * m.idx) \div 8]

Registered(m) ==
  LET bits  == MantBits(m.datatype)
      start_bit == EntryStart(m)
      field == (start_bit % 8) + bits * m.idx
  IN IF bits < 8
     THEN [m EXCEPT !.offset = start_bit \div 8 + field \div 8,
                    !.bit_pos = field % 8]
     ELSE [m EXCEPT !.offset = start_bit \div 8 + (bits * m.idx) \div 8]

(* register_pdos, for the RxPDOs and for the TxPDOs. A type of whole bytes *)
(* must start with a byte. The master may refuse an entry.                 *)
RegisterPdos ==
  /\ stage = "configured" /\ UNCHANGED <<commands, sync>>
  /\ \/ /\ \A d \in {"rx", "tx"} : \A i \in DOMAIN pdo_map[d] :
             Aligned(pdo_map[d][i])
        /\ pdo_map' = [d \in {"rx", "tx"} |->
                         [i \in DOMAIN pdo_map[d] |->
                            Registered(pdo_map[d][i])]]
        /\ stage' = "registered"
        /\ UNCHANGED <<convert, memory, image>>
     \/ /\ pdo_map.rx # <<>> \/ pdo_map.tx # <<>>
        /\ StartFails /\ UNCHANGED pdo_map

-----------------------------------------------------------------------------
(* ecs_start_slaves, ecs_receive and ecs_send *)

ElementBytes(m) == SlBytes(SlType(m.datatype))
(* The first bit of the memory of the element at its port.                 *)
AddressBit(m) == 8 * ElementBytes(m) * (m.address[3] - 1)

(* A conversion: the bits that it sets and where they come from. Bits of   *)
(* the image are those of a sync manager, bits of the memory of a port.    *)
WriteConversion(m) ==
  LET bits == Write(m.datatype, m.bigendian, m.offset, m.bit_pos)
  IN [x \in {<<m.sm, b>> : b \in DOMAIN bits} |->
        <<m.address[2], AddressBit(m) + bits[x[2]]>>]

ReadConversion(m) ==
  LET bits == Read(m.datatype, m.bigendian, m.offset, m.bit_pos)
  IN [a \in {<<m.address[2], AddressBit(m) + b>> : b \in DOMAIN bits} |->
        <<m.sm, bits[a[2] - AddressBit(m)]>>]

(* ecs_start_slaves, after the master is activated, which may fail.        *)
StartSlaves ==
  /\ stage = "registered" /\ UNCHANGED <<commands, sync, pdo_map>>
  /\ \/ /\ convert' =
             [out |-> [i \in DOMAIN pdo_map.rx |->
                         WriteConversion(pdo_map.rx[i])],
              in |-> [i \in DOMAIN pdo_map.tx |->
                        ReadConversion(pdo_map.tx[i])]]
        /\ stage' = "started"
        /\ UNCHANGED <<memory, image>>
     \/ StartFails

(* The conversions of a list that set bit x.                               *)
Setters(list, x) == {i \in DOMAIN list : x \in DOMAIN list[i]}
Settable(list) == UNION {DOMAIN list[i] : i \in DOMAIN list}

(* Mutant: the list is worked through from its end.                        *)
CopiedBackwards(list, before) ==
  [x \in DOMAIN before \cup Settable(list) |->
     IF Setters(list, x) = {} THEN before[x]
                              ELSE list[Min(Setters(list, x))][x]]

(* One conversion after the other: what the last one sets stays.           *)
Copied(list, before) ==
  [x \in DOMAIN before \cup Settable(list) |->
     IF Setters(list, x) = {} THEN before[x]
                              ELSE list[Max(Setters(list, x))][x]]

CopyInputs ==
  /\ stage = "started" /\ stage' = "received"
  /\ memory' = Copied(convert.in, memory)
  /\ UNCHANGED <<commands, sync, pdo_map, convert, image>>

CopyOutputs ==
  /\ stage = "received" /\ stage' = "sent"
  /\ image' = Copied(convert.out, image)
  /\ UNCHANGED <<commands, sync, pdo_map, convert, memory>>

-----------------------------------------------------------------------------
Start == Generate \/ InitSlave \/ RegisterPdos \/ StartSlaves
           \/ CopyInputs \/ CopyOutputs

StartNext ==
  \/ stage = "model" /\ Next /\ UNCHANGED start
  \/ Start /\ UNCHANGED vars
StartSpec == StartInit /\ [][StartNext]_<<vars, start>>

-----------------------------------------------------------------------------
(* Properties *)

Configured == stage \notin {"model", "generated", "failed"}

(* Where the calls of some kinds are; and that there is one of them for    *)
(* each of these rows, in their order.                                     *)
Calls(kinds) == {n \in DOMAIN commands : commands[n].call \in kinds}
OneCallEach(kinds, rows) ==
  /\ {commands[n].row : n \in Calls(kinds)} = rows
  /\ \A m, n \in Calls(kinds) : m < n => commands[m].row < commands[n].row

SdoCalls == {"sdo", "complete sdo"}
IsReal(row) == row.bytes = 0 /\ row.type \in {3032, 3064}

(* A slave that starts has got its configuration, each row of the tables   *)
(* once and in their order: an object as a value of its size, or an *)
(* array, with complete access only for an array; reals if the library can *)
(* write them; a SoE parameter with all its numbers, or with all but the   *)
(* last character of a string; clocks at last if they are active, but      *)
(* never without sync managers. The documentation of the mask says that a  *)
(* string is sent (ec_slave3.c:51-55), and not that it is cut.             *)
CommandsAreWhole ==
  Configured =>
    /\ OneCallEach(SdoCalls, {r \in DOMAIN sdo : WriteReal \/ ~IsReal(sdo[r])})
    /\ \A n \in Calls(SdoCalls) :
         LET c == commands[n] IN
         IF c.call = "sdo"
         THEN /\ c.subindex \in 0 .. 255 /\ c.len > 0
              /\ \/ c.len = sdo[c.row].bytes
                 \/ sdo[c.row].bytes = 0 /\ c.len \in {1, 2, 4, 8}
         ELSE sdo[c.row].subindex = -1 /\ c.len = sdo[c.row].bytes
    /\ OneCallEach({"idn"}, DOMAIN soe)
    /\ \A n \in Calls({"idn"}) :
         LET row == soe[commands[n].row].given
         IN commands[n].len = IF row.value = "string" THEN row.n - 1 ELSE row.n
    /\ Calls({"dc"}) = IF dc.active /\ sm # <<>> THEN {Len(commands)} ELSE {}

(* The configuration of the mask arrives at the slave: through the numbers *)
(* of the .rtw file, and through the tables of the generated program. Only *)
(* what ec_slave3.c drops is missing: the last character of a string, reals *)
(* without EC_WRITE_REAL, clocks without sync managers.                    *)
ConfigurationArrives == NumbersLeadHome /\ CommandsAreWhole

(* The bits before an entry, as the configuration of the block has it.     *)
BitsBefore(e) == StartIn(sm[e.sm].pdo, e)

(* The reference: bit b of the value of element j of a port is this bit of *)
(* the data of its sync manager, but a bit field ends with its byte.       *)
FirstBit(port, j) ==
  BitsBefore(port.pdo[j]) + MantBits(port.data_type) * port.pdo[j].element
BitOf(port, j, b) ==
  LET n == MantBits(port.data_type) IN
  IF n < 8 /\ (FirstBit(port, j) % 8) + b > 7 THEN Zero
  ELSE FirstBit(port, j)
         + (IF port.big_endian /\ n > 8 THEN n - 8 * (b \div 8 + 1) + (b % 8)
                                        ELSE b)
ValueBits(port) == 0 .. MantBits(port.data_type) - 1
MemoryBytes(port) == SlBytes(SlType(port.data_type))

(* After the inputs are copied the memory of every element has the bits of *)
(* its element, extended with zeros, and no memory after that of the port  *)
(* has changed; but big endian values of three bytes overwrite four bytes  *)
(* there. Copying an element never spoils the one before it.               *)
InputsAreTheirElements ==
  stage \in {"received", "sent"} =>
    \A k \in DOMAIN o_port :
      LET port  == o_port[k]
          bytes == MemoryBytes(port)
      IN /\ \A j \in 1 .. outWidth[k] : \A b \in 0 .. 8 * bytes - 1 :
              LET a == <<k, 8 * bytes * (j - 1) + b>> IN
              /\ a \in DOMAIN memory
              /\ memory[a] = <<port.pdo[j].sm,
                               IF b \in ValueBits(port) THEN BitOf(port, j, b)
                                                        ELSE Zero>>
         /\ \A a \in DOMAIN memory : a[1] = k =>
              a[2] < 8 * (bytes * outWidth[k]
                           + (IF port.big_endian /\ port.data_type = 1024
                              THEN 4 ELSE 0))

(* The bits of the inputs of the block, <<port, element, bit>>: where each *)
(* has its place in the image and in the memory, and those that have one.  *)
OutputBits ==
  UNION {{<<k, j, b>> : j \in 1 .. inWidth[k], b \in ValueBits(i_port[k])} :
           k \in DOMAIN i_port}
PlaceOfBit(x) == <<i_port[x[1]].pdo[x[2]].sm, BitOf(i_port[x[1]], x[2], x[3])>>
SourceOfBit(x) == <<x[1], 8 * MemoryBytes(i_port[x[1]]) * (x[2] - 1) + x[3]>>
OutputsThere == {x \in OutputBits : PlaceOfBit(x)[2] # Zero}

(* The bits of the image that are written are those of the elements of the *)
(* inputs of the block, each with a bit of its own element; and all of     *)
(* them are. Nothing outside an entry changes, except in the raw mode.     *)
OutputsChangeTheirElements ==
  stage = "sent" =>
    /\ DOMAIN image = {PlaceOfBit(x) : x \in OutputsThere}
    /\ \A p \in DOMAIN image :
         \E x \in OutputsThere : PlaceOfBit(x) = p /\ SourceOfBit(x) = image[p]
    /\ \A x \in OutputsThere :
         LET e == i_port[x[1]].pdo[x[2]]
         IN i_port[x[1]].raw
              \/ PlaceOfBit(x)[2] \in BitsBefore(e) ..
                   BitsBefore(e) + sm[e.sm].pdo[e.pdo][e.entry].bits - 1
=============================================================================
