------------------------------ MODULE EcSlave ------------------------------
(***************************************************************************)
(* The S-function ec_slave3 (src/rtw/blocks/EtherCAT/ec_slave3.c), with    *)
(* which a model describes one EtherCAT slave. It runs while Simulink      *)
(* compiles the model: it reads the configuration of the slave from the    *)
(* parameters of the block, tells Simulink the ports, types, run-time      *)
(* parameters and work vectors of the block, and writes all of it to the   *)
(* .rtw file from which the program is generated (SlaveStart).             *)
(*                                                                         *)
(* mdlInitializeSizes is one call; each getter that it calls is an action  *)
(* here. A getter chooses what it finds in the configuration. Blocks of    *)
(* memory are named by the pointer for which they are allocated.           *)
(***************************************************************************)
EXTENDS EcTypes, Sequences, SequencesExt, FiniteSets

CONSTANTS
  SdoLists,    \* bound: the tables "sdo" of a configuration
  SoeLists,    \* bound: the tables "soe"
  DcForms,     \* bound: the vectors "dc"
  SmLists,     \* bound: the tables "sm"
  ParamLists,  \* bound: PARAMETER_CONFIG
  PortForms,   \* bound: the elements of PORT_CONFIG.output and .input
  MaxItems,    \* bound: rows of sdo and soe, ports, and dc together
  Widths,      \* bound: widths of the signals at the inputs of the block
  SignalTypes  \* bound: their types

(* A row of "sdo"; a value has n elements.                                 *)
SdoRow == [subindex : Int, type : TypeSpec, n : Nat,
           value : {"number", "string", "other"}]
SoeRow == [value : {"number", "string", "other"}, n : Nat]
(* n is the length of the vector, active: AssignActivate # 0.              *)
DcForm == [n : Nat, active : BOOLEAN]
(* An entry of index 0 is padding.                                         *)
Entry == [padding : BOOLEAN, bits : Nat]
SyncManager == [input : BOOLEAN, pdo : Seq(Seq(Entry))]
(* mask: -1 for a value of the configuration itself, else the index of the *)
(* S-function parameter that has the value.                                *)
ParamRow == [mask : Nat \cup {-1}, n : Nat]
(* gain, offset and filter of a port: empty, a vector, a vector with a     *)
(* name, or a parameter of PARAMETER_CONFIG, counted from 0, as a vector   *)
(* (element -1) or one element of it.                                      *)
SpecForm == [form : {"empty", "invalid"}]
              \cup [form : {"vector", "named"}, n : Nat]
              \cup [form : {"reference"}, to : Nat, element : Int]
(* rows: [sync manager, PDO, entry, element], counted from 0.              *)
PortForm == [pdo : {"invalid"}]
              \cup [pdo : {"raw"}, sm : Nat, index : Nat]
              \cup [pdo : {"rows"}, rows : Seq([1 .. 4 -> Nat]),
                    type : TypeSpec, bigEndian : BOOLEAN, fullScale : BOOLEAN,
                    gain : SpecForm, offset : SpecForm, filter : SpecForm]

ASSUME ConfigAssumption ==
  /\ SdoLists \subseteq Seq(SdoRow) /\ SoeLists \subseteq Seq(SoeRow)
  /\ DcForms \subseteq DcForm /\ SmLists \subseteq Seq(SyncManager)
  /\ ParamLists \subseteq Seq(ParamRow) /\ PortForms \subseteq PortForm
  /\ MaxItems \in Nat /\ Widths \subseteq Nat /\ SignalTypes \subseteq SlTypes

VARIABLES
  pc,            \* what comes next
  error,         \* ssGetErrorStatus
  live,          \* blocks of memory that are allocated
  type, sdo, soe, dc, sm, parameter, o_port, i_port,  \* struct ecat_slave;
                 \* type: its pointer is set
  arrays,        \* which of its pointers o_port and i_port are set
  runtime_param_count, filter_count, dwork_count,
  inType, inWidth,  \* the inputs as Simulink knows them
  outWidth,         \* and its outputs
  states,           \* number of states of the block
  runTimeParams,    \* [num, set]: number announced and those that are set
  dWork,            \* [num, set]
  settings,         \* the records of the .rtw file, in the order written
  param_idx,        \* mdlRTW's count of them
  index,            \* the vectors of record numbers that it writes
  tables            \* the tables of sync managers, PDOs and entries
config == <<type, sdo, soe, dc, sm, parameter>>
ports == <<o_port, i_port, arrays, filter_count, dwork_count>>
simulink == <<inType, inWidth, outWidth, states, runTimeParams, dWork>>
rtw == <<settings, param_idx, index, tables>>
vars == <<pc, error, live, config, ports, runtime_param_count, simulink, rtw>>

Dynamic == "dynamic"       \* DYNAMICALLY_TYPED
DynamicWidth == -1         \* DYNAMICALLY_SIZED
NoSpec == [kind |-> "none"]
(* A block of memory: the section of the slave, up to two indices, a part. *)
SlaveStruct == <<"slave", 0, 0, "struct">>
TypeString == <<"slave", 0, 0, "type">>
Array(section) == <<section, 0, 0, "array">>
NoDc == [active |-> FALSE, cyclic |-> FALSE]

Init ==
  /\ pc = "address" /\ error = FALSE /\ live = {SlaveStruct}
  /\ type = FALSE /\ sdo = <<>> /\ soe = <<>> /\ dc = NoDc /\ sm = <<>>
  /\ parameter = <<>>
  /\ o_port = <<>> /\ i_port = <<>> /\ arrays = {}
  /\ runtime_param_count = 0 /\ filter_count = 0 /\ dwork_count = 0
  /\ inType = <<>> /\ inWidth = <<>> /\ outWidth = <<>> /\ states = 0
  /\ runTimeParams = [num |-> 0, set |-> <<>>]
  /\ dWork = [num |-> 0, set |-> {}]
  /\ settings = <<>> /\ param_idx = 0
  /\ index = [sdo |-> <<>>, soe |-> <<>>, dc |-> -1, out |-> <<>>, in |-> <<>>]
  /\ tables = [manager |-> <<>>, pdo |-> <<>>, entry |-> <<>>]

(* A getter that reports an error: the slave is not kept as user data, and *)
(* Matlab releases the memory of the call.                                 *)
Refuse ==
  /\ error' = TRUE /\ pc' = "refused" /\ live' = {}
  /\ UNCHANGED <<config, ports, runtime_param_count, simulink, rtw>>

(* Room for n more items in the configuration.                             *)
Room(n) == Len(sdo) + Len(soe) + (IF dc.active THEN 1 ELSE 0)
             + Len(o_port) + Len(i_port) + n <= MaxItems

-----------------------------------------------------------------------------
(* Slave configuration *)

(* get_slave_info, and the head of get_slave_config: a block may have no   *)
(* SLAVE_CONFIG, and fields that must be there may be missing.             *)
GetSlaveInfo ==
  /\ pc = "address"
  /\ \/ Refuse
     \/ /\ pc' = "parameter"
        /\ UNCHANGED live
        /\ UNCHANGED <<error, config, ports, runtime_param_count, simulink,
                       rtw>>
     \/ /\ pc' = "sdo"
        /\ type' = TRUE
        /\ live' = live \cup {TypeString}
        /\ UNCHANGED <<error, sdo, soe, dc, sm, parameter, ports,
                       runtime_param_count, simulink, rtw>>

(* get_slave_sdo_cell: whether the row has a single value, or an array.    *)
SdoIsValue(row, dt) ==
  dt # NoType /\ (dt # 1008 \/ (row.value = "number" /\ row.n = 1))

SdoRefused(row) ==
  LET dt == GetDataType(row.type) IN
  \/ row.subindex \notin -1 .. 255
  \/ dt = BadType
  \/ dt # NoType /\ ~IsGeneric(dt)
  \/ row.n = 0
  \/ IF SdoIsValue(row, dt)
     THEN row.n > 1 \/ row.subindex < 0 \/ row.value # "number"
     ELSE row.value = "other"

(* Arrays keep their bytes, and their length in the place of the value.    *)
SdoConfig(row) ==
  LET dt == GetDataType(row.type) IN
  IF SdoIsValue(row, dt)
  THEN [subindex |-> row.subindex, type |-> dt, bytes |-> 0]
  ELSE [subindex |-> row.subindex, type |-> 1008, bytes |-> row.n]

(* A table of numbers is read by get_slave_sdo_array, which wants a type   *)
(* in every row: the rows are single values then.                          *)
AllNumbers(rows) ==
  \A i \in 1 .. Len(rows) : rows[i].type.kind = "number" /\ rows[i].n = 1
                            /\ rows[i].value = "number"
SdoArrayRefused(row) ==
  \/ row.subindex \notin 0 .. 255
  \/ OfReal(row.type.hundredths) = NoType
  \/ ~IsGeneric(OfReal(row.type.hundredths))

(* The array of rows, and the bytes of each row that has an array.         *)
SdoBlocks(rows) ==
  {Array("sdo") : i \in 1 .. Len(rows)}
    \cup {<<"sdo", i, 0, "bytes">> :
             i \in {j \in 1 .. Len(rows) : rows[j].bytes > 0}}

GetSlaveSdo ==
  /\ pc = "sdo"
  /\ \E rows \in SdoLists : \E matrix \in BOOLEAN :
       /\ Room(Len(rows)) /\ (matrix => AllNumbers(rows))
       /\ IF \E i \in 1 .. Len(rows) :
               IF matrix THEN SdoArrayRefused(rows[i]) ELSE SdoRefused(rows[i])
          THEN Refuse
          ELSE /\ sdo' = [i \in 1 .. Len(rows) |-> SdoConfig(rows[i])]
               /\ live' = live \cup SdoBlocks(sdo')
               /\ pc' = "soe"
               /\ UNCHANGED <<error, type, soe, dc, sm, parameter, ports,
                              runtime_param_count, simulink, rtw>>

(* mxGetString into a buffer that has no place for the end of the string   *)
(* cuts the last character off and reports failure, which get_slave_soe    *)
(* takes for success. A history field keeps what the mask gave.            *)
SoeItem == [given : SoeRow, len : Nat]
SoeConfig(row) ==
  [given |-> row, len |-> IF row.value = "string" THEN row.n - 1 ELSE row.n]

SoeBlocks(rows) ==
  {Array("soe") : i \in 1 .. Len(rows)}
    \cup {<<"soe", i, 0, "octets">> : i \in 1 .. Len(rows)}

GetSlaveSoe ==
  /\ pc = "soe"
  /\ \E rows \in {r \in SoeLists : Room(Len(r))} :
       IF \E i \in 1 .. Len(rows) : rows[i].n = 0 \/ rows[i].value = "other"
       THEN Refuse
       ELSE /\ soe' = [i \in 1 .. Len(rows) |-> SoeConfig(rows[i])]
            /\ live' = live \cup SoeBlocks(soe')
            /\ pc' = "dc"
            /\ UNCHANGED <<error, type, sdo, dc, sm, parameter, ports,
                           runtime_param_count, simulink, rtw>>

GetSlaveDc ==
  /\ pc = "dc"
  /\ \E form \in {f \in DcForms : Room(1) \/ ~f.active} :
       IF form.n \notin {0, 1, 10}
       THEN Refuse
       ELSE /\ dc' = IF form.n = 0 THEN NoDc
                     ELSE [active |-> form.active,
                           cyclic |-> form.active /\ form.n = 10]
            /\ pc' = "sm"
            /\ UNCHANGED <<error, live, type, sdo, soe, sm, parameter, ports,
                           runtime_param_count, simulink, rtw>>

(* Arrays without elements are not allocated.                              *)
SmBlocks(sms) ==
  {Array("sm") : i \in 1 .. Len(sms)}
    \cup {<<"sm", i, 0, "pdo">> : i \in {k \in 1 .. Len(sms) :
                                           sms[k].pdo # <<>>}}
    \cup UNION {{<<"sm", i, j, "entry">> : j \in {l \in 1 .. Len(sms[i].pdo) :
                                                 sms[i].pdo[l] # <<>>}} :
                  i \in 1 .. Len(sms)}

(* get_sync_manager and get_sync_manager_pdo. A table may be malformed.    *)
GetSyncManagers ==
  /\ pc = "sm"
  /\ \/ Refuse
     \/ \E sms \in SmLists :
          /\ sm' = sms
          /\ live' = live \cup SmBlocks(sms)
          /\ pc' = "parameter"
          /\ UNCHANGED <<error, type, sdo, soe, dc, parameter, ports,
                         runtime_param_count, simulink, rtw>>

-----------------------------------------------------------------------------
(* Parameters and ports *)

ParamBlocks(rows) ==
  {Array("param") : i \in 1 .. Len(rows)}
    \cup {<<"param", i, 0, "name">> : i \in 1 .. Len(rows)}
    \cup {<<"param", i, 0, "value">> :
             i \in {j \in 1 .. Len(rows) : rows[j].mask = -1}}

(* get_parameter_config. The value of a mask parameter stays where Matlab  *)
(* has it. Refuse: an index that is no mask parameter, no name, no value.  *)
GetParameterConfig ==
  /\ pc = "parameter"
  /\ \/ Refuse
     \/ \E rows \in ParamLists :
          /\ parameter' = rows
          /\ runtime_param_count' = runtime_param_count + Len(rows)
          /\ live' = live \cup ParamBlocks(rows)
          /\ pc' = "output"
          /\ UNCHANGED <<error, type, sdo, soe, dc, sm, ports, simulink, rtw>>

(* get_port_parameter for a port of the given width.                       *)
SpecRefused(form, width) ==
  LET misfit(n) == n > 1 /\ n # width IN
  CASE form.form = "empty"               -> FALSE
    [] form.form = "invalid"             -> TRUE
    [] form.form \in {"vector", "named"} -> misfit(form.n)
    [] form.form = "reference" ->
         \/ form.to \notin 0 .. Len(parameter) - 1
         \/ IF form.element = -1
            THEN misfit(parameter[form.to + 1].n)
            ELSE form.element \notin 0 .. parameter[form.to + 1].n - 1

(* A name without a value is no parameter.                                 *)
ParamSpec(form) ==
  CASE form.form = "empty" \/ (form.form \in {"vector", "named"} /\ form.n = 0)
                               -> NoSpec
    [] form.form = "reference" -> [kind |-> "reference", to |-> form.to + 1,
                                   element |-> form.element]
    [] OTHER                   -> [kind |-> form.form]

Forms(form) == <<form.gain, form.offset, form.filter>>

(* A filter is read for outputs of the block only.                         *)
Specs(form, output) ==
  IF form.pdo = "raw" THEN <<NoSpec, NoSpec, NoSpec>>
  ELSE <<ParamSpec(form.gain), ParamSpec(form.offset),
         IF output THEN ParamSpec(form.filter) ELSE NoSpec>>

(* Mutant: the end of the element is not checked, but its start.           *)
ElementStarts(dt, element, bits) == MantBits(dt) * element < bits

ElementFits(dt, element, bits) == MantBits(dt) * (element + 1) <= bits

RowRefused(row, dt) ==
  LET s == row[1] + 1
      p == row[2] + 1
      e == row[3] + 1
  IN \/ s > Len(sm)
     \/ p > Len(sm[s].pdo)
     \/ e > Len(sm[s].pdo[p])
     \/ sm[s].pdo[p][e].padding
     \/ ~ElementFits(dt, row[4], sm[s].pdo[p][e].bits)

(* get_port_raw_pdo_spec and get_port_pdo_spec.                            *)
PortRefused(form, output) ==
  CASE form.pdo = "invalid" -> TRUE
    [] form.pdo = "raw" ->
         form.sm >= Len(sm) \/ form.index >= Len(sm[form.sm + 1].pdo)
    [] form.pdo = "rows" ->
         LET dt == GetDataType(form.type) IN
         \/ dt \notin DataType
         \/ \E j \in 1 .. Len(form.rows) : RowRefused(form.rows[j], dt)
         \/ \E k \in 1 .. 3 : (k < 3 \/ output)
                              /\ SpecRefused(Forms(form)[k], Len(form.rows))

Total(n) ==
  LET sum[i \in 0 .. Len(n)] == IF i = 0 THEN 0 ELSE sum[i - 1] + n[i]
  IN sum[Len(n)]
Bits(entries) == Total([i \in 1 .. Len(entries) |-> entries[i].bits])

(* In the raw mode a PDO is an array of bytes that starts with its first   *)
(* entry.                                                                  *)
RawPdo(form) ==
  LET entries == sm[form.sm + 1].pdo[form.index + 1]
  IN [j \in 1 .. (Bits(entries) + 7) \div 8 |->
        [sm |-> form.sm + 1, pdo |-> form.index + 1, entry |-> 1,
         element |-> j - 1]]

PortPdo(form) ==
  IF form.pdo = "raw" THEN RawPdo(form)
  ELSE [j \in 1 .. Len(form.rows) |->
          [sm |-> form.rows[j][1] + 1, pdo |-> form.rows[j][2] + 1,
           entry |-> form.rows[j][3] + 1, element |-> form.rows[j][4]]]

IsSet(spec) == spec.kind # "none"

(* A port that is scaled is of type double and has a work vector of the    *)
(* type of its PDO. Of the others, inputs get their type from the model.   *)
IoPort(form, output) ==
  LET specs  == Specs(form, output)
      rows   == form.pdo = "rows"
      dt     == IF rows THEN GetDataType(form.type) ELSE 1008
      scaled == \/ \E k \in 1 .. 3 : IsSet(specs[k])
                \/ rows /\ form.fullScale
  IN [raw |-> ~rows, data_type |-> dt, pdo |-> PortPdo(form),
      big_endian |-> rows /\ form.bigEndian, spec |-> specs,
      dwork_idx |-> IF scaled THEN dwork_count + 1 ELSE 0,
      sl_port_data_type |->
        CASE scaled                      -> "double"
          [] ~scaled /\ rows /\ ~output -> Dynamic
          [] OTHER                       -> SlType(dt)]

Named(port) == {k \in 1 .. 3 : port.spec[k].kind = "named"}

(* The blocks that are allocated for port k: its array pdo, and for each   *)
(* of gain, offset and filter with a value here a struct parameter, its    *)
(* value, and its name.                                                    *)
PortBlocks(dir, k, port) ==
  {<<dir, k, 0, "pdo">> : j \in 1 .. Len(port.pdo)}
    \cup {<<dir, k, j, "name">> : j \in Named(port)}
    \cup {<<dir, k, j, part>> : part \in {"struct", "value"},
             j \in {l \in 1 .. 3 : port.spec[l].kind \in {"vector", "named"}}}

(* One element of PORT_CONFIG.output or .input that has PDOs: port k. The  *)
(* others are skipped.                                                     *)
GetPort(form, output, k) ==
  LET port == IoPort(form, output)
      dir  == IF output THEN "out" ELSE "in"
  IN /\ live' = live \cup {Array(dir)} \cup PortBlocks(dir, k, port)
     /\ filter_count' = IF IsSet(port.spec[3])
                        THEN filter_count + Len(port.pdo) ELSE filter_count
     /\ dwork_count' = IF port.dwork_idx # 0 THEN dwork_count + 1
                       ELSE dwork_count
     /\ runtime_param_count' = runtime_param_count + Cardinality(Named(port))
     /\ arrays' = arrays \cup {dir}
     /\ IF output THEN o_port' = Append(o_port, port) /\ UNCHANGED i_port
                  ELSE i_port' = Append(i_port, port) /\ UNCHANGED o_port
     /\ UNCHANGED <<pc, error, config, simulink, rtw>>

(* get_port_config, for one direction and then for the other. If no        *)
(* element has a PDO, an array without ports stays allocated.              *)
GetPorts(section, output, k, next) ==
  /\ pc = section
  /\ \/ \E form \in PortForms :
          IF PortRefused(form, output)
          THEN Refuse
          ELSE /\ Room(1)
               /\ GetPort(form, output, k)
     \/ /\ pc' = next
        /\ UNCHANGED <<error, live, config, ports, runtime_param_count,
                       simulink, rtw>>
     \/ /\ k = 1 /\ pc' = next
        /\ live' = live \cup {Array(IF output THEN "out" ELSE "in")}
        /\ arrays' = arrays \cup {IF output THEN "out" ELSE "in"}
        /\ UNCHANGED <<error, config, o_port, i_port, filter_count,
                       dwork_count, runtime_param_count, simulink, rtw>>

GetOutputPorts == GetPorts("output", TRUE, Len(o_port) + 1, "input")
GetInputPorts  == GetPorts("input", FALSE, Len(i_port) + 1, "sizes")

-----------------------------------------------------------------------------
(* Memory *)

(* The function slave_mem_op visits the pointers of the slave. A visit:    *)
(* the pointer, named as the block that it was declared for, and the block *)
(* to which it points.                                                     *)
Visit(slots) == {[slot |-> b, block |-> b] : b \in slots}

(* Where name and value of gain, offset or filter j of a port are.         *)
PartOf(dir, k, j, spec, part) ==
  IF spec.kind = "reference" THEN <<"param", spec.to, 0, part>>
                             ELSE <<dir, k, j, part>>
Parts(spec) == IF spec.kind = "vector" THEN {"struct", "value"}
                                       ELSE {"struct", "value", "name"}

(* Mutant: the parameters that a port refers to are visited with it.       *)
PortVisitsReferences(dir, k, port) ==
  Visit({<<dir, k, 0, "pdo">> : j \in 1 .. Len(port.pdo)})
    \cup UNION {{[slot |-> <<dir, k, j, part>>,
                  block |-> PartOf(dir, k, j, port.spec[j], part)] :
                    part \in Parts(port.spec[j])} :
                  j \in {l \in 1 .. 3 : IsSet(port.spec[l])}}

PortVisits(dir, k, port) ==
  Visit({<<dir, k, 0, "pdo">> : j \in 1 .. Len(port.pdo)})
    \cup UNION {{[slot |-> <<dir, k, j, part>>,
                  block |-> PartOf(dir, k, j, port.spec[j], part)] :
                    part \in Parts(port.spec[j])} :
                  j \in {l \in 1 .. 3 : IsSet(port.spec[l])
                                        /\ port.spec[l].kind # "reference"}}

(* The values of mask parameters are Matlab's.                             *)
ParamVisits ==
  Visit({Array("param") : i \in 1 .. Len(parameter)})
    \cup Visit({<<"param", i, 0, "name">> : i \in 1 .. Len(parameter)})
    \cup Visit({<<"param", i, 0, "value">> :
                  i \in {l \in 1 .. Len(parameter) : parameter[l].mask < 0}})

Visits ==
  UNION {
    Visit({SlaveStruct} \cup (IF type THEN {TypeString} ELSE {})),
    Visit(SdoBlocks(sdo)), Visit(SoeBlocks(soe)), Visit(SmBlocks(sm)),
    ParamVisits,
    UNION {PortVisits("out", k, o_port[k]) : k \in 1 .. Len(o_port)},
    UNION {PortVisits("in", k, i_port[k]) : k \in 1 .. Len(i_port)},
    Visit({Array(dir) : dir \in arrays}) }

Visited == {v.block : v \in Visits}

-----------------------------------------------------------------------------
(* What Simulink asks of the block *)

(* The end of mdlInitializeSizes. What is not made persistent is released  *)
(* when the call returns.                                                  *)
InitializeSizes ==
  /\ pc = "sizes"
  /\ \/ Refuse
     \/ /\ inType' = [i \in 1 .. Len(i_port) |-> i_port[i].sl_port_data_type]
        /\ inWidth' = [i \in 1 .. Len(i_port) |-> DynamicWidth]
        /\ outWidth' = [i \in 1 .. Len(o_port) |-> Len(o_port[i].pdo)]
        /\ states' = filter_count
        /\ live' = live \cap Visited
        /\ pc' = "ports"
        /\ UNCHANGED <<error, config, ports, runtime_param_count,
                       runTimeParams, dWork, rtw>>

Fail == error' = TRUE /\ pc' = "failed"

TypeRefused(port, id) ==
  /\ SlType(port.data_type) # id
  /\ id \notin {"double", "single"} /\ port.data_type # 1001

(* mdlSetInputPortDataType: the type of a signal that is connected.        *)
SetInputPortDataType(p, id) ==
  LET port     == i_port[p]
      converts == SlType(port.data_type) # id
  IN /\ pc = "ports" /\ inType[p] = Dynamic
     /\ IF TypeRefused(port, id)
        THEN Fail /\ UNCHANGED <<i_port, dwork_count, inType>>
        ELSE /\ i_port' = IF converts
                          THEN [i_port EXCEPT ![p].dwork_idx = dwork_count + 1,
                                              ![p].sl_port_data_type = id]
                          ELSE i_port
             /\ dwork_count' = IF converts THEN dwork_count + 1
                               ELSE dwork_count
             /\ inType' = [inType EXCEPT ![p] = id]
             /\ UNCHANGED <<pc, error>>
     /\ UNCHANGED <<live, config, o_port, arrays, filter_count,
                    runtime_param_count, inWidth, outWidth, states,
                    runTimeParams, dWork, rtw>>

(* mdlSetInputPortWidth: the width is set even if it is too large.         *)
SetInputPortWidth(p, width) ==
  /\ pc = "ports" /\ inWidth[p] = DynamicWidth
  /\ inWidth' = [inWidth EXCEPT ![p] = width]
  /\ IF width > Len(i_port[p].pdo) THEN Fail ELSE UNCHANGED <<pc, error>>
  /\ UNCHANGED <<live, config, ports, runtime_param_count, inType, outWidth,
                 states, runTimeParams, dWork, rtw>>

(* mdlSetDefaultPortDataTypes, for inputs that are not connected.          *)
SetDefaultPortDataTypes ==
  /\ pc = "ports" /\ \E i \in DOMAIN inType : inType[i] = Dynamic
  /\ inType' = [i \in DOMAIN inType |->
                  IF inType[i] = Dynamic THEN SlType(i_port[i].data_type)
                  ELSE inType[i]]
  /\ UNCHANGED <<pc, error, live, config, ports, runtime_param_count, inWidth,
                 outWidth, states, runTimeParams, dWork, rtw>>

SetDefaultPortDimensionInfo ==
  /\ pc = "ports" /\ \E i \in DOMAIN inWidth : inWidth[i] = DynamicWidth
  /\ inWidth' = [i \in DOMAIN inWidth |->
                   IF inWidth[i] = DynamicWidth THEN Len(i_port[i].pdo)
                   ELSE inWidth[i]]
  /\ UNCHANGED <<pc, error, live, config, ports, runtime_param_count, inType,
                 outWidth, states, runTimeParams, dWork, rtw>>

(* Mutant: a reference to a parameter is set as one more parameter.        *)
IsRunTimeWithReferences(spec) == spec.kind \in {"named", "reference"}

(* create_runtime_parameter: for parameters with a name of their own.      *)
IsRunTime(spec) == spec.kind = "named"

(* The run-time parameters that mdlSetWorkWidths sets, in their order.     *)
PortParams(dir, p) ==
  FlattenSeq([k \in 1 .. Len(p) |->
    FlattenSeq([j \in 1 .. 3 |-> IF IsRunTime(p[k].spec[j])
                                 THEN <<<<dir, k, j>>>> ELSE <<>>])])

(* Mutant: the work vector has the width of the PDOs, not of the signal.   *)
DWorksOfPdo(dir, p, width) ==
  {[number |-> p[k].dwork_idx, port |-> <<dir, k>>, width |-> Len(p[k].pdo),
    type |-> SlType(p[k].data_type)] :
      k \in {l \in 1 .. Len(p) : p[l].dwork_idx # 0}}

DWorks(dir, p, width) ==
  {[number |-> p[k].dwork_idx, port |-> <<dir, k>>, width |-> width[k],
    type |-> SlType(p[k].data_type)] :
      k \in {l \in 1 .. Len(p) : p[l].dwork_idx # 0}}

SetWorkWidths ==
  /\ pc = "ports"
  /\ \A i \in DOMAIN inType : inType[i] # Dynamic /\ inWidth[i] # DynamicWidth
  /\ runTimeParams' =
       [num |-> runtime_param_count,
        set |-> [i \in 1 .. Len(parameter) |-> <<"param", i>>]
                  \o PortParams("out", o_port) \o PortParams("in", i_port)]
  /\ dWork' = [num |-> dwork_count,
               set |-> DWorks("out", o_port, outWidth)
                         \cup DWorks("in", i_port, inWidth)]
  /\ pc' = "rtw sdo"
  /\ UNCHANGED <<error, live, config, ports, runtime_param_count, inType,
                 inWidth, outWidth, states, rtw>>

Writing == {"rtw sdo", "rtw soe", "rtw sm", "rtw dc", "rtw out", "rtw in"}

(* mdlTerminate, which may come at any time once there is user data: not   *)
(* after a refusal.                                                        *)
Terminate ==
  /\ pc \in {"ports", "failed", "written"} \cup Writing
  /\ live' = live \ Visited
  /\ pc' = "end"
  /\ UNCHANGED <<error, config, ports, runtime_param_count, simulink,
                       rtw>>

-----------------------------------------------------------------------------
(* mdlRTW *)

(* Simulink cannot write a record.                                         *)
RtwFails ==
  /\ pc \in Writing
  /\ Fail
  /\ UNCHANGED <<live, config, ports, runtime_param_count, simulink, rtw>>

(* One record per row, and the vector of their numbers.                    *)
Records(kind, n) == [i \in 1 .. n |-> [kind |-> kind, row |-> i]]
Numbers(n) == [i \in 1 .. n |-> param_idx + i - 1]

WriteSdo ==
  /\ pc = "rtw sdo" /\ pc' = "rtw soe"
  /\ settings' = settings \o Records("sdo", Len(sdo))
  /\ index' = [index EXCEPT !.sdo = Numbers(Len(sdo))]
  /\ param_idx' = param_idx + Len(sdo)
  /\ UNCHANGED <<error, live, config, ports, runtime_param_count, simulink,
                 tables>>

WriteSoe ==
  /\ pc = "rtw soe" /\ pc' = "rtw sm"
  /\ settings' = settings \o Records("soe", Len(soe))
  /\ index' = [index EXCEPT !.soe = Numbers(Len(soe))]
  /\ param_idx' = param_idx + Len(soe)
  /\ UNCHANGED <<error, live, config, ports, runtime_param_count, simulink,
                 tables>>

(* The tables have the rows of all sync managers, one after the other.     *)
WriteSyncManagers ==
  LET pdos == FlattenSeq([i \in 1 .. Len(sm) |-> sm[i].pdo]) IN
  /\ pc = "rtw sm" /\ pc' = IF sm = <<>> THEN "rtw out" ELSE "rtw dc"
  /\ tables' = [manager |-> [i \in 1 .. Len(sm) |-> [input |-> sm[i].input,
                                                     n |-> Len(sm[i].pdo)]],
                pdo |-> [k \in 1 .. Len(pdos) |-> Len(pdos[k])],
                entry |-> FlattenSeq(pdos)]
  /\ UNCHANGED <<error, live, config, ports, runtime_param_count, simulink,
                 settings, param_idx, index>>

(* Mutant: the record is not counted.                                      *)
WriteDcUncounted ==
  /\ pc = "rtw dc" /\ pc' = "rtw out"
  /\ IF dc.active
     THEN /\ settings' = Append(settings, [kind |-> "dc"])
          /\ index' = [index EXCEPT !.dc = param_idx]
          /\ UNCHANGED param_idx
     ELSE UNCHANGED <<settings, index, param_idx>>
  /\ UNCHANGED <<error, live, config, ports, runtime_param_count, simulink,
                 tables>>

(* Distributed clocks are written only after sync managers.                *)
WriteDc ==
  /\ pc = "rtw dc" /\ pc' = "rtw out"
  /\ IF dc.active
     THEN /\ settings' = Append(settings, [kind |-> "dc"])
          /\ index' = [index EXCEPT !.dc = param_idx]
          /\ param_idx' = param_idx + 1
     ELSE UNCHANGED <<settings, index, param_idx>>
  /\ UNCHANGED <<error, live, config, ports, runtime_param_count, simulink,
                 tables>>

(* Mutant: the number of a parameter is its place among the three.         *)
NumberOfPlace(port, j) == IF IsSet(port.spec[j]) THEN param_idx + j - 1 ELSE -1

(* The number of the record of gain, offset or filter j: -1 for none.      *)
NumberOf(port, j) ==
  IF IsSet(port.spec[j])
  THEN param_idx + Cardinality({l \in 1 .. j - 1 : IsSet(port.spec[l])})
  ELSE -1

(* mdlRTWWritePort: a record for each of gain, offset and filter that is   *)
(* there, then one of the port with their numbers.                         *)
WritePort(dir, k, port) ==
  LET number == [j \in 1 .. 3 |-> NumberOf(port, j)]
      params == FlattenSeq([j \in 1 .. 3 |->
                  IF IsSet(port.spec[j])
                  THEN <<[kind |-> "param", port |-> <<dir, k>>, spec |-> j]>>
                  ELSE <<>>])
  IN /\ settings' = settings \o params
            \o <<[kind |-> "port", port |-> <<dir, k>>, param |-> number]>>
     /\ index' = [index EXCEPT ![dir] = Append(@, param_idx + Len(params))]
     /\ param_idx' = param_idx + Len(params) + 1
     /\ UNCHANGED <<error, live, config, ports, runtime_param_count, simulink,
                    tables>>

WriteOutputPort ==
  /\ pc = "rtw out" /\ Len(index.out) < Len(o_port) /\ UNCHANGED pc
  /\ WritePort("out", Len(index.out) + 1, o_port[Len(index.out) + 1])

WriteInputPort ==
  /\ pc = "rtw in" /\ Len(index.in) < Len(i_port) /\ UNCHANGED pc
  /\ WritePort("in", Len(index.in) + 1, i_port[Len(index.in) + 1])

(* The vector of all ports of a direction is written, and at the end the   *)
(* number of filters.                                                      *)
WritePortsEnd ==
  /\ \/ pc = "rtw out" /\ Len(index.out) = Len(o_port) /\ pc' = "rtw in"
     \/ pc = "rtw in" /\ Len(index.in) = Len(i_port) /\ pc' = "written"
  /\ UNCHANGED <<error, live, config, ports, runtime_param_count, simulink,
                 rtw>>

-----------------------------------------------------------------------------
Getters ==
  \/ GetSlaveInfo \/ GetSlaveSdo \/ GetSlaveSoe \/ GetSlaveDc
  \/ GetSyncManagers \/ GetParameterConfig \/ GetOutputPorts \/ GetInputPorts

Compile ==
  \/ InitializeSizes
  \/ \E p \in DOMAIN inType :
       \/ \E id \in SignalTypes : SetInputPortDataType(p, id)
       \/ \E width \in Widths : SetInputPortWidth(p, width)
  \/ SetDefaultPortDataTypes \/ SetDefaultPortDimensionInfo
  \/ SetWorkWidths

Rtw ==
  \/ WriteSdo \/ WriteSoe \/ WriteSyncManagers \/ WriteDc
  \/ WriteOutputPort \/ WriteInputPort \/ WritePortsEnd \/ RtwFails

Next == Getters \/ Compile \/ Rtw \/ Terminate
Spec == Init /\ [][Next]_vars

-----------------------------------------------------------------------------
(* Properties *)

Kept == {"ports", "failed", "written"} \cup Writing  \* there is user data
Sections == {"address", "sdo", "soe", "dc", "sm", "parameter", "output",
             "input", "sizes"}

Spec3 == [kind : {"none", "vector", "named"}]
           \cup [kind : {"reference"}, to : 1 .. Len(parameter), element : Int]
Element == [sm : Nat \ {0}, pdo : Nat \ {0}, entry : Nat \ {0}, element : Nat]
Port == [raw : BOOLEAN, data_type : DataType, pdo : Seq(Element),
         big_endian : BOOLEAN, spec : [1 .. 3 -> Spec3], dwork_idx : Nat,
         sl_port_data_type : SlTypes \cup {Dynamic}]

(* The state has its types; Simulink knows every port, and no more.        *)
TypeOK ==
  /\ pc \in Sections \cup Kept \cup {"refused", "end"}
  /\ error \in BOOLEAN /\ type \in BOOLEAN /\ arrays \subseteq {"out", "in"}
  /\ sdo \in Seq([subindex : -1 .. 255, type : DataType, bytes : Nat])
  /\ soe \in Seq(SoeItem) /\ dc \in [active : BOOLEAN, cyclic : BOOLEAN]
  /\ sm \in SmLists \cup {<<>>} /\ parameter \in ParamLists \cup {<<>>}
  /\ o_port \in Seq(Port) /\ i_port \in Seq(Port)
  /\ runtime_param_count \in Nat /\ filter_count \in Nat /\ dwork_count \in Nat
  /\ pc \in Kept => /\ Len(inType) = Len(i_port) /\ Len(inWidth) = Len(i_port)
                   /\ Len(outWidth) = Len(o_port)
  /\ \A i \in DOMAIN inType : inType[i] \in SlTypes \cup {Dynamic}
  /\ param_idx = Len(settings)

(* What slave_mem_op visits are the blocks that are allocated, each of     *)
(* them once: nothing is lost before mdlRTW needs it, nothing is released  *)
(* twice or belongs to Matlab, and nothing is left in the end.             *)
EachBlockOnce ==
  /\ \A v, w \in Visits : v.block = w.block => v.slot = w.slot
  /\ pc \in Kept => Visited = live
  /\ pc \in {"refused", "end"} => live = {}

FilteredWidth ==
  Total([k \in 1 .. Len(o_port) |->
           IF IsSet(o_port[k].spec[3]) THEN outWidth[k] ELSE 0])

(* Simulink allocates as many run-time parameters, work vectors and states *)
(* as it is told first; the block must set each of them, and once.         *)
AnnouncedIsDefined ==
  pc \in Writing \cup {"written"} =>
    /\ Len(runTimeParams.set) = runTimeParams.num
    /\ IsInjective(runTimeParams.set)
    /\ {w.number : w \in dWork.set} = 1 .. dWork.num
    /\ Cardinality(dWork.set) = dWork.num
    /\ states = FilteredWidth

(* The memory to which the elements of a port are copied has the type of   *)
(* the PDO, and a place for each element of the signal: the work vector of *)
(* the port, or the signal itself.                                         *)
HasPdoType(dir, k, port, signal, width) ==
  /\ width <= Len(port.pdo)
  /\ IF port.dwork_idx = 0
     THEN signal = SlType(port.data_type)
     ELSE \E w \in dWork.set :
            /\ w.number = port.dwork_idx /\ w.port = <<dir, k>>
            /\ w.type = SlType(port.data_type) /\ w.width = width

(* A port without a work vector is of the type of its PDO, whatever the    *)
(* model connects; one with a work vector has a place for every element.   *)
MemoryHasPdoType ==
  pc \in Writing \cup {"written"} =>
    /\ \A k \in DOMAIN i_port :
         HasPdoType("in", k, i_port[k], inType[k], inWidth[k])
    /\ \A k \in DOMAIN o_port :
         HasPdoType("out", k, o_port[k], o_port[k].sl_port_data_type,
                    outWidth[k])

(* What Simulink is told of the block while it reads its configuration is  *)
(* what the block has when the model is compiled, whatever the order of    *)
(* the calls and the types of the signals that are connected.              *)
PortsAreAsAnnounced == AnnouncedIsDefined /\ MemoryHasPdoType

(* The record of a number; none if there is no such record.                *)
Setting(n) == IF n + 1 \in DOMAIN settings THEN settings[n + 1]
                                           ELSE [kind |-> "none"]

PointsToParams(dir, k, port, record) ==
  \A j \in 1 .. 3 :
    IF IsSet(port.spec[j])
    THEN Setting(record.param[j]) = [kind |-> "param", port |-> <<dir, k>>,
                                     spec |-> j]
    ELSE record.param[j] = -1

PointsToPorts(dir, p, numbers) ==
  /\ Len(numbers) = Len(p)
  /\ \A k \in DOMAIN p :
       /\ Setting(numbers[k]).kind = "port"
       /\ Setting(numbers[k]).port = <<dir, k>>
       /\ PointsToParams(dir, k, p[k], Setting(numbers[k]))

(* The generator finds the records by number: each number leads to the     *)
(* record of the row, port or parameter for which it was written.          *)
NumbersLeadHome ==
  pc = "written" =>
    /\ Len(index.sdo) = Len(sdo) /\ Len(index.soe) = Len(soe)
    /\ \A i \in DOMAIN sdo :
         Setting(index.sdo[i]) = [kind |-> "sdo", row |-> i]
    /\ \A i \in DOMAIN soe :
         Setting(index.soe[i]) = [kind |-> "soe", row |-> i]
    /\ index.dc # -1 => Setting(index.dc) = [kind |-> "dc"]
    /\ PointsToPorts("out", o_port, index.out)
    /\ PointsToPorts("in", i_port, index.in)
=============================================================================
