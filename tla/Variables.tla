----------------------------- MODULE Variables -----------------------------
(***************************************************************************)
(* The variables of a model that pdserv shows to its clients (hrt_main.c): *)
(* main creates a task of pdserv for every task of the program, and then   *)
(* rtw_capi_init goes through the tables that Simulink Coder generates of  *)
(* the signals, block parameters and model parameters, and registers them. *)
(*                                                                         *)
(* A path is the sequence of the names between its slashes, the name of    *)
(* the model first.  Times are integers, the unit is arbitrary.  Indexes   *)
(* of tables and tasks count from 1 instead of 0.  A data type of pdserv   *)
(* is a number: 0 for none, the built-in ones, and then the compounds in   *)
(* the order they are created.  pdserv itself is external.                 *)
(*                                                                         *)
(* The description of a structure is a table of sections: the fields of   *)
(* the structure are the first one, and a field that is a structure points *)
(* to the section with its own fields.                                     *)
(***************************************************************************)
EXTENDS Integers, Sequences, SequencesExt

CONSTANTS
  Models,       \* the models: their tables and the options of the program
  Types,        \* name |-> entry of the table of data types
  Descriptions, \* mwName |-> sections, for the symbols <mwName>_description
  Prefix        \* PARAMETER_PREFIX

VARIABLES
  model,  \* the model of this program
  at,     \* the table that is being worked on
  entry,  \* the index in this table
  tasks,  \* struct thread_task: sl_tid and sample_time
  pd,     \* types: the compounds of pdserv; complex: pd_complex; known: the
          \* list of get_compound_data_type
  calls   \* the variables that pdserv was given

vars == <<model, at, entry, tasks, pd, calls>>

-----------------------------------------------------------------------------
(* The tables.                                                             *)

BuiltIn == <<"double", "single", "int8", "uint8", "int16", "uint16", "int32",
             "uint32", "boolean">>
BuiltInSize == <<8, 4, 1, 1, 2, 2, 4, 4, 1>>

NoType == 0
BuiltInType(id) ==
  IF Contains(BuiltIn, id) THEN CHOOSE t \in DOMAIN BuiltIn : BuiltIn[t] = id
                           ELSE NoType

(* A number that is complex has two parts of its type.                     *)
HasItsSize(d) ==
  Contains(BuiltIn, d.id) =>
    d.size = (IF d.complex THEN 2 ELSE 1) * BuiltInSize[BuiltInType(d.id)]

DataType == [mwName : STRING, id : STRING, size : Nat, complex : BOOLEAN,
             pointer : BOOLEAN]
ASSUME TypesAssumption ==
  \A t \in DOMAIN Types : Types[t] \in DataType /\ HasItsSize(Types[t])

FieldDesc == [offset : Nat, id : STRING, size : Nat, complex : BOOLEAN,
              count : Nat, next : Nat]
Described == DOMAIN Descriptions
Sections == {d \in Described \X Nat : d[2] \in DOMAIN Descriptions[d[1]]}
FieldsOf(d) == Descriptions[d[1]][d[2]]

ASSUME DescriptionsAssumption ==
  \A name \in Described :
    /\ Descriptions[name] \in Seq(Seq(FieldDesc)) \ {<<>>}
    /\ \A s \in DOMAIN Descriptions[name] :
         \A f \in Range(Descriptions[name][s]) :
           /\ HasItsSize(f)
           /\ f.id = "struct" => f.next \in DOMAIN Descriptions[name]

(* Tables of variables. The memory of a scalar is one element, and arrays  *)
(* that are stored by rows are matrices.                                   *)
Orientations == {"scalar", "vector", "column", "row"}
Parameters == [block : Seq(STRING), name : STRING, type : DOMAIN Types,
               orientation : Orientations, dims : Seq(Nat \ {0})]
Signals == [block : Seq(STRING), name : STRING, port : STRING,
            type : DOMAIN Types, orientation : Orientations,
            dims : Seq(Nat \ {0}), sampleTime : Nat]
ModelTables ==
  [mt : BOOLEAN, tid01eq : BOOLEAN, dilation : Nat \ {0},
   sampleTimes : Seq([tid : Int, period : Nat]), signals : Seq(Signals),
   params : Seq(Parameters), modelParams : Seq(Parameters)]

HasItsShape(s) ==
  /\ s.orientation = "scalar" => \A k \in DOMAIN s.dims : s.dims[k] = 1
  /\ s.orientation = "row" => Len(s.dims) = 2

TidsOf(m) == {s.tid : s \in Range(m.sampleTimes)} \cap Nat
BaseTid(m) == IF m.tid01eq THEN 1 ELSE 0

(* Simulink numbers the tasks from 0. Entries of one task have one period, *)
(* if any; with TID01EQ 0 and 1 are one task. The base rate divides the    *)
(* others.                                                                 *)
OneRate(m, s, t) ==
  \/ s.tid = t.tid
  \/ m.tid01eq /\ {s.tid, t.tid} = {0, 1}
HasItsRates(m) ==
  /\ \E n \in 1 .. Len(m.sampleTimes) : TidsOf(m) = 0 .. n - 1
  /\ BaseTid(m) \in TidsOf(m)
  /\ \A s, t \in Range(m.sampleTimes) :
       s.tid >= 0 /\ t.tid >= 0 /\ s.period # 0 /\ t.period # 0 =>
         /\ OneRate(m, s, t) => s.period = t.period
         /\ s.tid = BaseTid(m) => t.period % s.period = 0

ASSUME ModelsAssumption ==
  \A m \in Models :
    /\ m \in ModelTables
    /\ HasItsRates(m)
    /\ \A s \in Range(m.signals) \cup Range(m.params) \cup Range(m.modelParams) :
         HasItsShape(s)
    /\ \A s, t \in Range(m.signals) :
         /\ s.sampleTime \in DOMAIN m.sampleTimes
         /\ s.block # <<>> /\ Head(s.block) = Head(t.block)

-----------------------------------------------------------------------------
(* Data types.                                                             *)

(* The compounds of pdserv; names are left out.                            *)
Field == [type : Nat, offset : Nat, count : Nat]
Compound == [size : Nat, fields : Seq(Field)]

LastType(p) == Len(BuiltIn) + Len(p.types)
Compounds(p) == Len(BuiltIn) + 1 .. LastType(p)

FieldsHaveTypes(p) ==
  \A c \in Range(p.types) : \A f \in Range(c.fields) : f.type \in 0 .. LastType(p)

Pds == {p \in [types : Seq(Compound), complex : [DOMAIN BuiltIn -> Nat],
               known : [Described -> Nat]] :
          /\ FieldsHaveTypes(p)
          /\ \A t \in DOMAIN BuiltIn : p.complex[t] \in Compounds(p) \cup {NoType}
          /\ \A name \in Described : p.known[name] \in Compounds(p) \cup {NoType}}

(* pdserv_create_compound and pdserv_compound_add_field.                   *)
NewCompound(p, size) ==
  [p EXCEPT !.types = Append(@, [size |-> size, fields |-> <<>>])]
AddField(p, compound, type, offset, count) ==
  [p EXCEPT !.types[compound - Len(BuiltIn)].fields =
     Append(@, [type |-> type, offset |-> offset, count |-> count])]

(* Mutant: the imaginary part begins after the whole number.              *)
ImAfterWhole(size) == size

ImOffset(size) == size \div 2

(* The part of get_etl_data_type after its switch: the compound of a       *)
(* complex type is made for the first variable and kept.  The pair is the  *)
(* new state and the type.                                                 *)
MakeComplex(p, type, size) ==
  LET c == LastType(p) + 1
      q == AddField(NewCompound(p, size), c, type, 0, 1)
      r == AddField(q, c, type, ImOffset(size), 1)
  IN  [r EXCEPT !.complex[type] = c]

BuiltInOrComplex(p, id, size, complex) ==
  LET type == BuiltInType(id)
      made == MakeComplex(p, type, size)
  IN  IF ~complex \/ type = NoType THEN <<p, type>>
      ELSE IF p.complex[type] # NoType THEN <<p, p.complex[type]>>
      ELSE <<made, made.complex[type]>>

(* A call of make_compound, with the state of pdserv before it. It returns *)
(* the state after it.                                                     *)
Frames == {a \in [pd : Pds, compound : Nat, desc : Sections, offset : Nat] :
             a.compound \in Compounds(a.pd)}

(* A field that is a structure is a compound of its own, which is filled   *)
(* before the field is added: inner is make_compound for the structures in *)
(* this one.                                                               *)
InnerCompound(inner, p, f, a) ==
  LET n == NewCompound(p, f.size)
  IN  <<inner[[pd |-> n, compound |-> LastType(n),
               desc |-> <<a.desc[1], f.next>>, offset |-> a.offset + f.offset]],
        LastType(n)>>

MakeField(inner, p, f, a) ==
  LET made == IF f.id = "struct" THEN InnerCompound(inner, p, f, a)
              ELSE BuiltInOrComplex(p, f.id, f.size, f.complex)
  IN  AddField(made[1], a.compound, made[2], a.offset + f.offset, f.count)

MakeFields(inner, a) ==
  LET made[i \in 0 .. Len(FieldsOf(a.desc))] ==
        IF i = 0 THEN a.pd
                 ELSE MakeField(inner, made[i - 1], FieldsOf(a.desc)[i], a)
  IN  made[Len(FieldsOf(a.desc))]

(* make_compound, of structures in structures of n levels. No structure    *)
(* has itself inside, so that there are no more levels than sections.      *)
MakeCompound[n \in Nat] ==
  [a \in Frames |-> IF n = 0 THEN a.pd ELSE MakeFields(MakeCompound[n - 1], a)]

(* A structure is known by its name; one without a description is no type. *)
GetCompound(p, name, size) ==
  LET n == NewCompound(p, size)
      k == [n EXCEPT !.known[name] = LastType(n)]
      a == [pd |-> k, compound |-> LastType(n), desc |-> <<name, 1>>,
            offset |-> 0]
  IN  IF name \notin Described THEN <<p, NoType>>
      ELSE IF p.known[name] # NoType THEN <<p, p.known[name]>>
      ELSE <<MakeCompound[Len(Descriptions[name])][a], LastType(n)>>

GetDataType(p, t) ==
  IF t.id = "struct" THEN GetCompound(p, t.mwName, t.size)
  ELSE BuiltInOrComplex(p, t.id, t.size, t.complex)

-----------------------------------------------------------------------------
(* create_dim. More than two dimensions are reversed, by rows or not.      *)

Dims(s) ==
  CASE s.orientation = "scalar" -> <<1>>
    [] /\ Len(s.dims) = 2
       /\ \/ s.orientation = "vector"
          \/ s.orientation = "column" /\ s.dims[2] = 1
         -> <<s.dims[1] * s.dims[2]>>
    [] s.orientation = "row" /\ Len(s.dims) = 2 -> s.dims
    [] OTHER -> Reverse(s.dims)

-----------------------------------------------------------------------------
(* The tasks.                                                              *)

TidEq == IF model.tid01eq THEN 1 ELSE 0
NumSt == Cardinality(TidsOf(model))
NumTasks == IF model.mt THEN NumSt - TidEq ELSE 1

SlTid(t) == (t - 1) + TidEq

(* The table of sample times is not in the order of the tasks, and the     *)
(* first NUMST of its entries are looked at.                               *)
HasPeriod(tid, i) ==
  /\ i \in DOMAIN model.sampleTimes /\ i <= NumSt
  /\ model.sampleTimes[i].tid = tid /\ model.sampleTimes[i].period # 0

FirstPeriod(tid, i) == HasPeriod(tid, i) /\ \A j \in 1 .. i - 1 : ~HasPeriod(tid, j)

At(table) == at' = table /\ entry' = 1

Init ==
  /\ model \in Models
  /\ at = "tasks" /\ entry = 1
  /\ tasks = <<>>
  /\ pd = [types |-> <<>>, complex |-> [t \in DOMAIN BuiltIn |-> NoType],
           known |-> [name \in Described |-> NoType]]
  /\ calls = <<>>

CreateTask ==
  /\ at = "tasks" /\ Len(tasks) < NumTasks
  /\ \E i \in DOMAIN model.sampleTimes :
       LET tid == SlTid(Len(tasks) + 1)
       IN  /\ FirstPeriod(tid, i)
           /\ tasks' = Append(tasks,
                [sl_tid |-> tid,
                 sample_time |-> model.sampleTimes[i].period * model.dilation])
  /\ UNCHANGED <<model, at, entry, pd, calls>>

(* assert(ts != 0.0).                                                      *)
AssertSampleTime ==
  /\ at = "tasks" /\ Len(tasks) < NumTasks
  /\ \A i \in DOMAIN model.sampleTimes : ~HasPeriod(SlTid(Len(tasks) + 1), i)
  /\ At("aborted")
  /\ UNCHANGED <<model, tasks, pd, calls>>

RegisterVariables ==
  /\ at = "tasks" /\ Len(tasks) = NumTasks
  /\ At("signals")
  /\ UNCHANGED <<model, tasks, pd, calls>>

-----------------------------------------------------------------------------
(* The variables.  An error of one of them is printed, and forgotten.      *)

HasSlash(block) == Len(block) > 1

(* Mutant: only the signal before is looked at.                            *)
RelatedToPrevious(i) ==
  i > 1 /\ model.signals[i - 1].block = model.signals[i].block

Related(i) ==
  LET Same(j) == /\ j \in DOMAIN model.signals
                 /\ model.signals[j].block = model.signals[i].block
  IN  Same(i - 1) \/ Same(i + 1)

SignalPath(i) ==
  LET s == model.signals[i]
  IN  Tail(s.block) \o (IF ~Related(i) THEN <<>>
                        ELSE IF s.name # "" THEN <<s.name>> ELSE <<s.port>>)

SampleTime(s) == model.sampleTimes[s.sampleTime]

(* Mutants: the task identifier of Simulink is the index of the task; all *)
(* signals are put under the first task.                                   *)
TaskOfTid(st) == IF model.mt /\ st.tid >= 0 THEN 1 + st.tid ELSE 1

FirstTask(st) == 1

TaskOf(st) ==
  IF model.mt /\ st.tid >= 0
  THEN 1 + st.tid - (IF st.tid # 0 THEN TidEq ELSE 0)
  ELSE 1

(* The quotient is rounded to the next integer.                            *)
Decimation(st) ==
  LET ts == tasks[1].sample_time
  IN  IF ~model.mt /\ st.tid >= 0 /\ st.period # 0
      THEN (2 * st.period + ts) \div (2 * ts)
      ELSE 1

(* The entry that is registered now. A block path without a slash leaves   *)
(* an entry without a path.                                                *)
More(table) == at = table /\ entry <= Len(model[table])
Entry == model[at][entry]
Made  == GetDataType(pd, Types[Entry.type])

CanBeShown(path) ==
  Made[2] # NoType /\ ~Types[Entry.type].pointer /\ path # <<>>

Parameter(path) ==
  [table |-> at, entry |-> entry, path |-> path, type |-> Made[2],
   dims |-> Dims(Entry)]

EndEntry ==
  /\ pd' = Made[1]
  /\ entry' = entry + 1
  /\ UNCHANGED <<model, at, tasks>>

(* pdserv may refuse a signal; its name is then of no more use.            *)
Signal(path, accepted) ==
  [table |-> at, entry |-> entry, path |-> path, type |-> Made[2],
   dims |-> Dims(Entry), task |-> TaskOf(SampleTime(Entry)),
   decimation |-> Decimation(SampleTime(Entry)), accepted |-> accepted,
   alias |-> IF accepted /\ ~Related(entry) THEN Entry.name ELSE ""]

RegisterSignal ==
  /\ More("signals")
  /\ LET path == IF HasSlash(Entry.block) THEN SignalPath(entry) ELSE <<>>
     IN  IF CanBeShown(path)
         THEN \E accepted \in BOOLEAN :
                calls' = Append(calls, Signal(path, accepted))
         ELSE UNCHANGED calls
  /\ EndEntry

AddParameter(path) ==
  calls' = IF CanBeShown(path) THEN Append(calls, Parameter(path)) ELSE calls

RegisterParameter ==
  /\ More("params")
  /\ AddParameter(IF HasSlash(Entry.block)
                  THEN Append(Tail(Entry.block), Entry.name) ELSE <<>>)
  /\ EndEntry

RegisterModelParameter ==
  /\ More("modelParams")
  /\ AddParameter(<<Prefix, Entry.name>>)
  /\ EndEntry

NextTable ==
  [signals |-> "params", params |-> "modelParams", modelParams |-> "done"]

EndTable ==
  /\ at \in DOMAIN NextTable /\ entry > Len(model[at])
  /\ At(NextTable[at])
  /\ UNCHANGED <<model, tasks, pd, calls>>

Next ==
  \/ CreateTask \/ AssertSampleTime \/ RegisterVariables
  \/ RegisterSignal \/ RegisterParameter \/ RegisterModelParameter \/ EndTable

Spec == Init /\ [][Next]_vars

-----------------------------------------------------------------------------
(* Types.                                                                  *)

(* The types of the variables, with every type a compound or built in, and *)
(* every signal with a task that there is: register_signal goes to it by   *)
(* adding to a pointer.                                                    *)
TypeOK ==
  /\ at \in DOMAIN NextTable \cup {"tasks", "done", "aborted"}
  /\ tasks \in Seq([sl_tid : Nat, sample_time : Nat \ {0}])
  /\ pd \in Pds
  /\ \A c \in Range(calls) :
       /\ c.type \in 1 .. LastType(pd)
       /\ c.table = "signals" => /\ c.task \in DOMAIN tasks
                                 /\ c.decimation \in Nat

-----------------------------------------------------------------------------
(* What a client reads at a variable is the memory of the model.           *)

(* The scalars in a value: where they begin, and what they are. Those of   *)
(* an array of values.                                                     *)
Copies(scalars, offset, size, count) ==
  {<<offset + k * size + x[1], x[2]>> : k \in 0 .. count - 1, x \in scalars}

(* In a value of a type of pdserv, of n levels.                            *)
SizeOf(p, type) ==
  CASE type = NoType -> 0
    [] type \in DOMAIN BuiltIn -> BuiltInSize[type]
    [] OTHER -> p.types[type - Len(BuiltIn)].size

ScalarsOf(p, inner, type) ==
  CASE type = NoType -> {}
    [] type \in DOMAIN BuiltIn -> {<<0, BuiltIn[type]>>}
    [] OTHER -> UNION {Copies(inner[f.type], f.offset, SizeOf(p, f.type), f.count) :
                         f \in Range(p.types[type - Len(BuiltIn)].fields)}

Scalars(p) ==
  LET scalars[n \in Nat] ==
        [type \in 0 .. LastType(p) |->
           IF n = 0 THEN {} ELSE ScalarsOf(p, scalars[n - 1], type)]
  IN  scalars

(* In a number of C of a type that pdserv has.                             *)
Pair(d) ==
  IF ~Contains(BuiltIn, d.id) THEN {}
  ELSE {<<0, d.id>>} \cup (IF d.complex THEN {<<d.size \div 2, d.id>>} ELSE {})

(* In the structure of C that is described, of n levels.                   *)
CFields(inner, d) ==
  UNION {Copies(IF f.id = "struct" THEN inner[<<d[1], f.next>>] ELSE Pair(f),
                f.offset, f.size, f.count) : f \in Range(FieldsOf(d))}

CScalars[n \in Nat] ==
  [d \in Sections |-> IF n = 0 THEN {} ELSE CFields(CScalars[n - 1], d)]

CType(t) ==
  IF t.id = "struct" THEN CScalars[Len(Descriptions[t.mwName])][<<t.mwName, 1>>]
                     ELSE Pair(t)

(* A number is one level, and a complex number two of them.                *)
Levels(t) ==
  IF t.id = "struct" THEN Len(Descriptions[t.mwName]) + 2 ELSE 2

(* A structure inside another one, not at its beginning.                   *)
Shifted(name) ==
  \E s \in DOMAIN Descriptions[name] :
    \E f \in Range(Descriptions[name][s]) : f.id = "struct" /\ f.offset # 0

(* The place of an element in an array of C, where the last index is the   *)
(* fast one, and in one of Matlab, where it is the first one unless the    *)
(* matrix is stored by rows.                                               *)
Indexes(d) ==
  {x \in [DOMAIN d -> UNION {0 .. d[k] - 1 : k \in DOMAIN d}] :
     \A k \in DOMAIN d : x[k] < d[k]}

PlaceInC(d, x) ==
  LET place[k \in 0 .. Len(d)] ==
        IF k = 0 THEN 0 ELSE place[k - 1] * d[k] + x[k]
  IN  place[Len(d)]

PlaceInMatlab(d, x) ==
  LET place[k \in 1 .. Len(d) + 1] ==
        IF k = Len(d) + 1 THEN 0 ELSE x[k] + d[k] * place[k + 1]
  IN  place[1]

Elements(d) ==
  LET n[k \in 0 .. Len(d)] == IF k = 0 THEN 1 ELSE n[k - 1] * d[k]
  IN  n[Len(d)]

(* pdserv has all elements: in one row, or under the indexes of the model, *)
(* in their order if stored by rows and reversed otherwise.                *)
ElementsAreThere(s, d) ==
  \/ d = <<Elements(s.dims)>>
  \/ \A x \in Indexes(s.dims) :
       IF s.orientation = "row"
       THEN x \in Indexes(d) /\ PlaceInC(d, x) = PlaceInC(s.dims, x)
       ELSE /\ Reverse(x) \in Indexes(d)
            /\ PlaceInC(d, Reverse(x)) = PlaceInMatlab(s.dims, x)

(* create_dim, get_etl_data_type and make_compound: under the type and the *)
(* dimensions that pdserv is given, clients find the very scalars that the *)
(* variable has in the memory of the program, complex numbers, arrays and  *)
(* structures in structures included.  A structure that does not begin     *)
(* where the one around it does is excepted, although it is the example of *)
(* the documentation (hrt_main.c:57-60 and 97): its offset is counted      *)
(* twice, once in its field and once in the fields of the field, so that   *)
(* clients are led to wrong addresses.                                     *)
VariablesAreTheirMemory ==
  \A c \in Range(calls) :
    LET s == model[c.table][c.entry]
        t == Types[s.type]
    IN  /\ ElementsAreThere(s, c.dims)
        /\ ~(t.id = "struct" /\ Shifted(t.mwName)) =>
             Scalars(pd)[Levels(t)][c.type] = CType(t)

-----------------------------------------------------------------------------
(* Every variable is registered once, under a path of its own.             *)

(* The signals of a block are together, and can be told apart by their     *)
(* ports and by the names of those that have one; no block has the name or *)
(* the port of a signal of the block around it.  Simulink sees to the      *)
(* order and to the ports; it does not forbid that two signals of a block  *)
(* have one name. register_signal gives these two one path.               *)
Sig == model.signals
Distinguishable ==
  \A i, j \in DOMAIN Sig :
    /\ Sig[j].block # Append(Sig[i].block, Sig[i].name)
    /\ Sig[j].block # Append(Sig[i].block, Sig[i].port)
    /\ i < j /\ Sig[i].block = Sig[j].block =>
         /\ \A k \in i .. j : Sig[k].block = Sig[i].block
         /\ {Sig[i].port, Sig[i].name} \cap {Sig[j].port, Sig[j].name}
              \subseteq {""}
         /\ Sig[i].port # Sig[j].port

(* Registered when the tables are done: everything with a type pdserv can  *)
(* have, in a block, whatever is wrong with the other entries.             *)
Shown(table, s) ==
  LET t == Types[s.type]
  IN  /\ ~t.pointer
      /\ IF t.id = "struct" THEN t.mwName \in Described
                            ELSE Contains(BuiltIn, t.id)
      /\ table = "modelParams" \/ Len(s.block) > 1

OfTable(table) == {k \in DOMAIN calls : calls[k].table = table}

Names(c) ==
  LET s == Sig[c.entry]
      Alone == \A i \in DOMAIN Sig : i # c.entry => Sig[i].block # s.block
  IN  IF Alone
      THEN /\ c.path = Tail(s.block)
           /\ c.accepted => c.alias = s.name
      ELSE c.alias = "" /\ c.path # Tail(s.block)

(* register_signal looks at the neighbours of a signal to find out whether *)
(* its block has more than one: then each of them gets a path of its own,  *)
(* and none the path of the block.  A signal alone in its block has the    *)
(* path of the block, and its name as alias.  An entry that is not shown   *)
(* does not stop the others: each of them is registered, once, and in the  *)
(* order of the table.                                                     *)
EachHasItsPath ==
  /\ Distinguishable =>
       /\ \A k, l \in OfTable("signals") :
            calls[k].path = calls[l].path => k = l
       /\ \A k \in OfTable("signals") : Names(calls[k])
  /\ at = "done" =>
       \A table \in DOMAIN NextTable :
         /\ {calls[k].entry : k \in OfTable(table)} =
              {i \in DOMAIN model[table] : Shown(table, model[table][i])}
         /\ \A k, l \in OfTable(table) :
              k < l => calls[k].entry < calls[l].entry

-----------------------------------------------------------------------------
(* The signals are those of the task that computes them.                   *)

TidsOfTask(task) == {tasks[task].sl_tid} \cup (IF task = 1 THEN {0} ELSE {})

(* A signal is registered with the task whose thread computes it (and with *)
(* its lock), although Simulink counts the base rate twice when it is both *)
(* continuous and discrete; and pdserv is told the period of the signal.   *)
(* A dilated program with one task is excepted: see NoOtherTimings.        *)
SignalsAreOfTheirTask ==
  \A k \in OfTable("signals") :
    LET c  == calls[k]
        st == SampleTime(Sig[c.entry])
    IN  st.tid >= 0 =>
          /\ model.mt => st.tid \in TidsOfTask(c.task)
          /\ st.period # 0 /\ (model.mt \/ model.dilation = 1) =>
               c.decimation * tasks[c.task].sample_time =
               st.period * model.dilation

(* "Cyclic time dilation factor. No other timings are affected."  In a     *)
(* program with one task the signals of a slower rate are updated in every *)
(* n-th cycle, whatever the cycles are stretched by.                       *)
NoOtherTimings ==
  \A k \in OfTable("signals") :
    LET c  == calls[k]
        st == SampleTime(Sig[c.entry])
    IN  ~model.mt /\ st.tid >= 0 /\ st.period # 0 =>
          c.decimation * tasks[1].sample_time = st.period * model.dilation
=============================================================================
