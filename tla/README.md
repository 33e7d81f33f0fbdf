# EtherLab: a TLA+ model of the generated real-time program

EtherLab turns a Simulink model into a user-space real-time program. The
generated C code of the model is linked with `rtw/src/hrt_main.c`, which runs
the tasks of the model in threads, and with `rtw/blocks/EtherCAT/ecrt_support.c`,
which exchanges their process data with EtherCAT slaves. Clients reach the
running program through the pdserv library: they write parameters and read
signals. This directory holds TLA+ models of that program, TLC runs that check
them, and TLAPS proofs of their main properties.

All source paths below are relative to the root of the repository.

## 1. Inventory

| Component | Source | State it keeps | Operations |
|---|---|---|---|
| Cyclic tasks | `rtw/src/hrt_main.c` `run_task`, `rt_OneStep*` | per task: `err`, `running`, `monotonic_time`, `world_time`, `signal_lock`, `param_lock`; the error status of the model, shared by all tasks | one pass of the loop: sleep, lock, step, publish, unlock, advance the time |
| Client access | `hrt_main.c` `write_parameter*`, `read_signal*` | none of its own; the locks of the tasks, the parameter and the signal memory | write a parameter, read a signal (called in pdserv threads) |
| Program start and end | `hrt_main.c` `main`, `init_application`, `create_pid_file`, `get_options` | the thread table, `priority`, the pid file, the pdserv handle | options, pdserv, registration, `mdlStart`, priority, threads, join, clean-up |
| Variable registration | `hrt_main.c` `rtw_capi_init`, `register_*`, `get_*_data_type` | compound data types, pdserv variables | walk the C-API tables once |
| EtherCAT cycle | `ecrt_support.c` `ecs_receive`, `ecs_send` | per master and domain: `tid_trigger`, `refclk_trigger`, a semaphore; the datagrams in the EtherCAT master | receive and process before a step, queue and send after it |
| EtherCAT registration | `ecrt_support.c` `get_master`, `get_domain`, `register_pdos`, `init_slave`, `ecs_start_slaves`, `ecs_setup_master`, `ecs_get_domain_ptr` | lists of masters and domains, PDO counts, conversion lists | register masters, domains and PDOs, activate, build the conversion lists |
| Data conversion | `ecrt_support.c` `register_pdos`, `ecs_read_*`, `ecs_write_*` | the conversion lists | find the bit of each element, choose its function, copy one process datum of 1 to 64 bits, either endianness |
| Slave configuration | `rtw/blocks/EtherCAT/ec_slave3.c`, `ec_slave3.tlc` | the configuration of one slave block, its pointers, work vectors and run-time parameters; the numbered records of the `.rtw` file | read and check the parameters of the block, answer Simulink while it compiles the model, write the `.rtw` file, generate the tables |
| State blocks | `master_state.*`, `domain_state.*` | block outputs | read the state of a master or a domain in every step |
| Messages | `rtw/blocks/etl_message.*`, `event.*`, `raise.*`, `rtw/src/raise_catch.c`, `bin/etherlab_messages.py` | latched alarms, counters, a list of raised ids | one step of the block |
| RtIPC | `rtipc_rx.*`, `rtipc_tx.*`, `RtIPC.tlc` | connection flags, forced values | exchange signals with other processes |
| Code generation | `*.tlc`, `*.m`, `*.tmf.in` | none at run time | write the program |

How they interact: `main` prepares pdserv (which starts its threads), runs
`mdlStart` (which registers the slaves and activates the masters), and starts
one thread per task. Each task calls the generated `mdlOutputs`, which begins
with `ecs_receive`, and `mdlUpdate`, which ends with `ecs_send`. Client threads
of pdserv share the memory of the model with the tasks; only the two locks of
each task separate them.

Hard to test are: a client that writes while several tasks compute; readers
that could starve a task; the end of the program, where a task sleeps while
another one fails; threads that are never created; instances that share a PID
file; start times that drift after overruns; decimated domains whose period does
not fit that of their master; frames that do not come back; the order in
which blocks register domains; the order in which Simulink asks a slave block
while it compiles a model; configurations that are refused half way; bit fields
that share a byte; and models whose tables have an unusual form.
`PROJECT.json` lists them under `hazards`, each at its line, with the properties that would catch it.

What makes each component correct:

| Component | Correct when | Checked by |
|---|---|---|
| Cyclic tasks, client access | steps, writes and reads are atomic; nobody starves; the program ends and terminates the model alone | `HrtTasks` |
| Task timing | start times stay on their grid, no cycle is lost, statistics belong to one cycle | `TaskTiming` |
| Start and end | whatever fails is undone, threads are rate monotonic, the PID file is not stale | `HrtMain` |
| Variable registration | every C-API entry becomes one variable with the shape and type it has in memory, under a path of its own and with the task that computes it | `Variables` |
| EtherCAT cycle | a domain finds its answer when it is processed; data of different cycles do not mix; no counter wraps; no task waits for ever | `EcatCycle` (one task), `EcatTasks` (several) |
| EtherCAT registration | PDOs that belong together share a datagram, every PDO is copied once, a master is as fast as its fastest user | `EcatRegistry` |
| Data conversion | each element of a signal is copied from and to the bits of its entry, in any width and byte order, and nothing beside it changes | `EcatConvert`, `SlaveStart` |
| Slave configuration | PDO entries, ports and their offsets agree with each other; what Simulink is told early is true late; every block of memory is released once; the configuration reaches the slave | `EcTypes`, `EcSlave`, `SlaveStart` |
| State blocks | an output is what the library reported in this step | partly `EcatRegistry` |
| Messages | an alarm stays until it is reset and for its confirmation time; a list holds the ids raised | planned |
| RtIPC | a forced value wins over the received one, and ends | planned |
| Code generation | the calls of the blocks come in the order the run-time code relies on | the calls at the start are inputs of `EcatRegistry` |

## 2. Modules

| Module | What it is |
|---|---|
| `HrtTasks` | the tasks, the clients and the end of the program, word by word and lock by lock |
| `AtomicCycles` | the abstract specification: parameter blocks, cycles and reads are atomic |
| `HrtTasksProofs` | invariants of `HrtTasks`; `HrtTasks` implements `AtomicCycles` |
| `TaskTiming`, `TaskTimingProofs` | start times and statistics |
| `HrtMain`, `HrtMainProofs` | instances of the program from the options to the exit |
| `EcatCycle`, `EcatCycleProofs` | the cyclic exchange of a program with a single task |
| `EcatTasks`, `EcatTasksProofs` | the cyclic exchange of a program with several tasks |
| `EcatRegistry`, `EcatRegistryProofs` | masters, domains and conversion lists are set up |
| `EcTypes` | the data types of PDO entries, as `ec_slave3.c` reads them |
| `EcSlave` | one slave block in Simulink: configuration, compilation, `.rtw` file, end |
| `EcatConvert` | the conversion functions of `ecrt_support.c`, bit by bit |
| `SlaveStart` | the slave in the generated program: `EcSlave` continued up to the cyclic data |
| `EcSlaveProofs` | invariants of `EcSlave` and of `SlaveStart` |
| `Variables`, `VariablesProofs` | the registration of tasks, signals and parameters with pdserv |
| `MC*` | instances for TLC |

In every module an action is one operation of the code between two points at
which another thread, process or frame may come in between. A definition that
begins with the comment *Mutant* is not part of the model: it is the form that
an action would have with a plausible bug, and it is used to check that a
property would notice.

### HrtTasks

| Actions | Code (`hrt_main.c`) |
|---|---|
| `CheckRunning`, `WakeUp`, `Interrupted` | the conditions of the loop in `run_task`; `clock_nanosleep` returns 0 or an error |
| `TakeSignalLock`, `TakeParamLock` | `pthread_rwlock_wrlock(signal_lock)`, `pthread_mutex_lock(param_lock)` |
| `ComputeWord`, `FinishStep` | `rt_OneStep` reads parameters and writes signals one word at a time; a block may report an error; the mutex is released |
| `Update`, `Leave` | `pdserv_update`, the release of the rwlock; the flag is cleared when the loop ends |
| `StartWrite`, `LockNext`, `CopyParam`, `UnlockNext`, `StampWrite` | `write_parameter`: the mutexes of all tasks from the slowest on, the copy, the release, and only then the time stamp |
| `StartRead`, `TakeReadLock`, `CopySignal`, `FinishRead` | `read_signal` |
| `StartTask`, `JoinTask`, `StopServing`, `PdservExit`, `Terminate` | `main`: `pthread_create`, `pthread_join`, `pdserv_exit`, `MdlTerminate` |
| `Tick` | `CLOCK_REALTIME` |

The rwlock is of the kind that prefers writers (`hrt_main.c:1441`): while a task
waits for it no reader gets it. Memory is modelled word by word, so that a copy
that is not protected is seen half done. `pdserv_exit` returns when the threads
of pdserv have ended, those in the middle of a call included (external; from
its use at `hrt_main.c:1610`, where nothing else would end them). A join of a
thread that was never created is undefined behaviour; the model lets the
program crash or go on. The model is that of the build with `VARIABLE_LOCKING`, and
its real-time clock is never set back (see 6).

### TaskTiming

`StartTasks` is what `main` does before the threads run: the slowest period as
an integer, the shift to a multiple of it, the phase. `WakeUp` and `FinishCycle`
are one pass of `run_task`; nothing bounds how late a thread wakes up or how
long a cycle takes. `Report` cuts the differences to the 32 bits (`Word`) of the
statistics. `ShiftTime` is a constant of its own since the code computes the
period twice, once cut and once rounded.

### HrtMain

A process is an instance; each action is one step of `main` that can fail, with
what it undoes. Two instances share the file at the path of the PID file: a file
keeps its identity (its creator) when it is removed and another one is created
at the same path. `Kill` is any signal: the program has no handler.
`StartThreads` gives each sub-thread the priority one below that of the thread
before it. `pthread_attr_setschedparam` refuses one below 1; its result is ignored,
and the thread is created with the priority of the main thread (`ThreadPriority`).
Any thread may be missing, since the result of `pthread_create` is ignored, too; a
join of it crashes the program or goes on. `remove_pid_file` may fail, and the
program then goes on: `kept` (a history variable) has the instances that left
their file behind in this way.

### EcatCycle

`Receive` and `Send` are `ecs_receive` and `ecs_send` without `MT`. Of the EtherCAT
library only the way of a datagram is modelled: queued, sent, answered; the
answers of `MayMiss` may be lost or late. One master is enough, for masters
share nothing.

### EcatTasks

The same two functions built with `MT`. A task is at one place of its step (`pc`),
on one master and one domain of its loops. `Wait` is `sem_wait`, `EndReceive` and
`EndSend` go past `sem_post`; `Fetch` and `EndSend` receive and send when the task
is the fastest of the master; `CopyInput` and `CopyOutput` copy one word. Tasks
begin their steps when they like, as nothing in the code ties the step of a slow
task to those of the fastest. What a task can rely on is then a matter of how
often the master has received since the domain was queued, which `receives`
counts (a history variable).

### EcatRegistry

`SetupMaster` and `GetDomainPtr` are the calls of the generated blocks
(`ecs_setup_master`, `ecs_get_domain_ptr`), made in the order of the model;
`InitSlave`, `RegisterRxPdos`, `RegisterTxPdos`, `Activate` and `Convert` are
`ecs_start_slaves`. Each call of the library may fail. The conversion list of a
domain is the array that `calloc` returns, with its two parts and their
terminators.

### EcTypes, EcSlave

`EcSlave` follows one block of `ec_slave3.c` through the calls of Simulink. While
it reads its parameters (`InitializeSizes`) each getter (`GetSlaveInfo`,
`GetSlaveSdo`, `GetSlaveSoe`, `GetSlaveDc`, `GetSyncManagers`, `GetPorts`) takes a
part of the configuration over or refuses it. Then Simulink compiles the model
(`SetInputPortDataType`, `SetInputPortWidth`, the defaults, `SetWorkWidths`),
and `Rtw` writes records that are found by their numbers. Allocated memory is a
set of blocks, `live`; the pointers by which `slave_port_mem_op` and
`slave_mem_op` find them are `Visits`, so that a block that two ports share, or one
that belongs to Matlab, is seen. `EcTypes` holds the table of data types and the
two ways to name one, by a number or by a name.

### EcatConvert, SlaveStart

`SlaveStart` takes a block that has been written through `ec_slave3.tlc`
(`Generate`: flat tables of PDOs, entries and maps, into which sync managers
point), `init_slave` (`InitSlave`: the calls for SDOs, SoE parameters and clocks;
`RegisterPdos`: byte and bit of each element) and `ecs_start_slaves`
(`StartSlaves`: a function for each element), and copies its data once in each
direction. The data are bits of which each has its own value, so that a property can
tell where every single one went; of several conversions that set a bit the last one in
the list counts (`Copied`). `EcatConvert` is all functions that are
called for it: bit fields, little and big endian integers of 8 to 64 bits, and
reals.

### Variables

`CreateTask` is the loop of `main` over the tasks, `RegisterSignal`,
`RegisterParameter` and `RegisterModelParameter` the loops of `rtw_capi_init`. The
tables of the generated program and the options are a record, `model`, chosen
at the start. `GetDataType` goes from the state of pdserv to the next one and
a type: compounds are made when they are first needed, and found again
(`complex`, `known`). Paths are sequences of names. pdserv may refuse a signal,
which then gets no alias. The description of a structure is a list of sections, as
the example at `hrt_main.c:63` has them behind each other in one array: the first
is the structure, and a field that is a structure names the section of its own
fields. `MakeCompound[n]` is `make_compound` for structures with up to n levels of
structures inside; a call goes from a frame (the state of pdserv, the compound to
fill, the section, the offset) to the next state of pdserv.

## 3. Runs

| Run | Instance | Shows |
|---|---|---|
| `hrt_params` | 2 tasks, 2 writers, 2 words, 2 blocks written, a clock with 2 values | steps, also simultaneous ones, use one whole block (`StepsUseOneBlock`), and the one that was reported (`ReportedWritesAreUsed`); no circle of waiting clients (`WaitsDescend`), and no deadlock |
| `hrt_reads` | 2 tasks, a writer, a reader, 2 words | reads and publications are of one cycle (`SignalsAreOneCycle`); the refinement of `AtomicCycles` (`CyclesAreAtomic`) |
| `hrt_shutdown` | 2 tasks, a writer, a reader, a block that fails, a thread that may be missing | the program ends, in order and alone (`StopsInOrder`, `ShutdownCompletes`); tasks do not starve, and every call of a client ends (`ClientsComplete`) |
| `task_timing` | 2 tasks with periods 2 and 6, phase 50 %, a clock up to 16, words of 7 | phases, lost cycles, load, aligned start (with `ShiftTime` the very period) |
| `hrt_main` | 2 instances, 3 tasks, priorities 1 to 3, every kind of request, threads that may be missing | undoing, rate monotonic threads as far as the request leaves room, the PID file unless its removal was refused |
| `hrt_low_priority` | an instance with 3 tasks and priority 2 | finding: the slowest task gets the priority of the fastest |
| `ecat_cycle` | decimations 4 to 8, the master at 4, two domains lose answers | answers in time, again and again (`AnswersRecur`, which also says that a domain that does not fit gets late ones again and again); counters do not wrap |
| `ecat_tasks` | 2 tasks, 2 masters, 4 domains of 2 words, one of which misses answers | no mixtures in either direction (`DataAreOneCycle`), answers after two receives, no waiting for ever |
| `ecat_registry` | 2 masters, one of them with 2 domain ids, 2 rates, up to 2 blocks and 2 slaves, all failures | domains are shared as in the model (`DomainsAreShared`), rates, conversion lists |
| `slave_start` | a slave with up to 2 items (SDOs, SoE parameters, ports, parameters) of every kind, ports of 1 or 3 elements, every step may fail | memory is released once, Simulink is told the truth (`PortsAreAsAnnounced`), the configuration arrives (`ConfigurationArrives`), the cyclic data are those of the ports (`InputsAreTheirElements`, `OutputsChangeTheirElements`) |
| `variables` | some 3000 models with up to 3 signals, every type, 3 dimensions, up to 3 tasks, dilations 1 and 3 | paths, types and shapes, tasks and decimations |
| `time_dilation` | a program with one task and two rates, dilation 2 | finding: the decimation of signals changes |

**Bounds.** Two tasks are enough for the locks: a task meets another one only
through a client that holds several mutexes, or through the flag. Two words are
enough to see a mixture, two writers to see a wrong order of locks. Version and
clock are bounded by `MaxVersion` and `MaxNow`; cycles are numbered modulo
`CycleRing`, and 2 tells a cycle from the one before. In `task_timing` the clock
of 16 covers two cycles of the slow task and five of the fast one, and differences
that exceed a word. The decimations 4 to 8 with a master at 4 cover a domain that equals
its master, a multiple of it, a common divisor other than 1, none that still
fits, and one that does not fit. In `ecat_tasks` each task is the fastest of one
master, and the slow task also uses the master of the fast one; 2 words show a
mixture, and history counts receives up to 2, which is what matters. Three priorities and three tasks cover
requests that are too low for any or for one sub-thread, too high, refused, and just
enough. Two slaves and two
blocks are enough for each pair of orders in which two users of a domain or of a master
can come; they are alike, or differ in the master, the domain id, the rate or the direction. Ids are
compared with each other only, so that the first block is always put at the same place.
In `slave_start` two items are what sharing, counting and numbering need; each kind
of row, specification and type occurs (`SomeSdo`, `SomeSoe`, `SomeDc`, `SomeSm`,
`SomeParams`, `SomePorts` in `MCSlaveStart`), legal and refused, and 3 elements go past the end
of a byte of bit fields. In `variables` three signals give each one two
neighbours; each of four families of models varies what one property is about.
Runs whose behaviours end by themselves (a start, a registration, an instance,
the bounded clock of `task_timing`) switch off the deadlock check; all others keep it.
The proofs remove these bounds where there is one.

**Fairness** (`HrtTasks!Fairness`, and weak fairness of `EcatCycle!Next`,
`EcatTasks!FairSpec`). Threads
that can run do run: tasks are real-time threads that wake up at a set time,
and main and the clients inside a call are ordinary threads. Mutexes and, for
readers, the rwlock need strong fairness: a waiting thread gets them when they
are free again and again. This is justified for the clients since a task sleeps
with its locks free in each cycle, and for the tasks since they have the higher
priority. A task needs only weak fairness for its rwlock, because its kind
shuts out new readers while a task waits. In `EcatTasks` a task that has begun a step
goes on (weak fairness), and gets a semaphore that is free again and again
(strong fairness): `sem_post` wakes a waiting real-time thread. No client has to start a
call, no task has to begin another step, and no signal has to come. `ClientsComplete` and `TaskNotStarved` admit a
crash of the program as the other end of a wait.

## 4. Proofs

All theorems are for every value of the constants that the assumptions of the
modules allow. Checked by `tlapm`; no fact is taken on trust.

| Module | Theorems | Argument |
|---|---|---|
| `HrtTasksProofs` | `TypeCorrect`, `OneBlock`, `TasksAgree`, `ReportsHold`, `ReadsWhole`, `PublishedWhole`, `OneLateStep`, `TerminatesAlone`, `NoCircle`, and their combinations `BlocksWhole`, `SignalsWhole`, `StopsWell` | `IInv`: who owns each mutex (`MutexInv`) and rwlock (`RWLockInv`) follows from where the threads are; hence no task computes while a client copies, the memory is one block while any task computes (`BlockInv`), what a task has computed is of that block and of its cycle (`SignalInv`), what a client has read is what the task published (`ReadInv`). `NoCircle`: of the mutexes a client has only those of slower tasks while it waits for one |
| | `Refinement` | the last word of a block decides when a write, a step and a publication happen in `AtomicCycles`; every other action is a stutter |
| `TaskTimingProofs` | `TimesCorrect`, `InPhase`, `CyclesKept`, `LoadCorrect`, `StartAligned` | a start time is base + phase + a whole number of periods (`OnTheGrid`); the times kept of a cycle are in order (`InOrder`); a task sleeps towards a cycle after one that was due (`Due`). `StartAligned` has the hypothesis that the cut product of sample time and 1e9 is the period (see 5) |
| `HrtMainProofs` | `TypeCorrect`, `Undone`, `RatesInOrder`, `PidFileCorrect` | how far the start has come tells what there is to undo (`Stages`), which priorities the threads have (`Priorities`), and whose pid may have been written (`Pids`). `RatesInOrder` compares two sub-threads only if the request leaves room for the slower one; otherwise, and if a thread is missing, it says what is left of the order. `PidFileCorrect` excepts the instances whose removal of the file was refused (`kept`) |
| `EcatCycleProofs` | `CountersCorrect`, `InTime` | the difference of the counters of master and domain is a multiple of any common divisor g (`DifferenceInv`), which bounds how long a datagram waits (`WaitInv`). A domain fits when 2 * Fastest - g <= Decimation |
| `EcatTasksProofs` | `TypeCorrect`, `WholeFrames`, `WholeInputs`, `WholeData`, `AnswersCome` | who holds a semaphore follows from where the tasks are (`LockInv`); a task that has copied a part of a domain is still copying it (`CursorInv`), so that nobody receives or sends for it (`OutInv`, `InInv`); a queued datagram has seen at most one receive, after which the fastest task is on its way to send (`RoundInv`) |
| `EcatRegistryProofs` | `TypesHold`, `FastestMaster`, `SharedDomains`, `PdosAreCopied` | a master is in the list before its rate matters, and `get_master` only lowers it (`FastestInv`). `get_domain` takes the first suitable domain of a list that only grows, and whose flags only grow while blocks register: the domain of a PDO stays the first one that serves it (`ServedInv`), and so does that of a block (`ShownInv`). The counters of a domain are sums over the PDOs registered so far (`CountInv`), and the list that is as long as their sum is filled to its end and no further (`ListInv`) |
| `EcSlaveProofs` | `TypesHold`, `BlocksOnce`, `NumbersLead`, `AnnouncedHold` | what a getter has not read yet is empty (`Unread`). The memory that is allocated is that to which the pointers lead (`LiveInv`), and what `mem_op` visits is computed from the same pointers. What is written of the `.rtw` file leads home, and its records only grow (`RecordsInv`). The counters that Simulink is told are sums over the ports (`CountInv`, `FilterInv`), each number of a work vector belongs to one port (`DWorkInv`), and a port without one has the type of its PDO or none yet (`MemoryInv`) |
| | `Arrives`, `BlockIsKept`, `BlockStays` | a single value has a subindex and a type of whole bytes (`SdoInv`); the clocks are written if they are active and there are sync managers (`DcInv`). `Arrives` has the length of every SDO and SoE call, that of a SoE string one short as the code makes it (see 5). The calls are a flat sequence of at most one for each record (`UnitsInOrder`), each record leads to its row (`NumbersLeadHome`), and once the program is generated the block does not change (`StageInv`, `StepOfBlock`) |
| | `InputsArrive`, `OutputsArrive` | every element of a port lies in an entry of a sync manager, within it unless the port is raw (`DataInv`). The flat tables are cut where they were joined, so that the program has the PDOs of the mask (`SyncConfigIs`); its list of elements has element j of a port at the end of the port before, plus j (`MappedIs`), and each stage of the start keeps to what this makes of it (`StageData`). A function reads and writes the bits that its width and byte order say (`ReadIs`, `WriteIs`), for an element those of the reference (`ReadsItsElement`, `WritesItsElement`). What it sets behind its element is set again by a later element of the port, or lies behind the port (`ReadsAreTheirs`) |
| `VariablesProofs` | `TypesHold`, `SignalsKeepTheirTask`, `PathsAreTheirOwn`, `MemoryIsShown` | `Inv`: each call to pdserv is the one of its entry (`CallFits`), and the calls are those of the entries that have been passed and can be shown, in their order (`CallsInv`); the tasks have the period of the first entry with their identifier (`TasksInv`). `MemoryIsShown`: while structures are being made, a compound that is not finished is not a field of any other (`Whole`), so that filling it leaves the scalars of the others alone (`SameTypesSameScalars`); by induction over the levels, `make_compound` makes the scalars that are described (`MakersAreGood`), and what has been made stays (`KnownStays`). `DimsAreThere`: the recursive functions that find the place of an element are reversed with the dimensions (`PlaceInReverse`) |

The invariants of the runs are not inductive as they stand: that a step uses one
block, for example, depends on who holds which mutex.

What a block shows is, in `DomainsAreShared`, the domain of the PDOs only if the
calls of the blocks are of one kind (`OneKind`): all of them for both directions, or
each for one. With calls of both kinds the order of the model decides. PDOs of different masters,
ids or rates never share a domain; of the two directions nothing is said.
`TypesHold`, `BlocksOnce` and `AnnouncedHold` are about `EcSlave`; that they hold in the
run `slave_start`, too, is `BlockStays`.

What the theorems about `Variables` assume of the generated tables is in its named
assumptions: types have the sizes of C (`HasItsSize`), a scalar is one element and
an array stored by rows has two dimensions (`HasItsShape`; `create_dim` reverses others), tasks are numbered from 0 and the base rate divides the others
(`HasItsRates`), paths begin with the name of the model. `PathsAreTheirOwn` is about
models whose signals can be told apart (`Distinguishable`): Simulink sees to their ports
and their order, but does not forbid equal names within a block, for which paths are not
unique (see 5). `MemoryIsShown` leaves out structures inside others that do not begin
where these do (`Shifted`), although the documented example is one: for them it is
false (see 5).

The library offers induction as theorems about operators, which the provers cannot
instantiate. `EcatRegistryProofs`, `EcSlaveProofs` and `VariablesProofs` prove it once
in a form without them, for a set of numbers (`Induct`, from the least element of the rest). With it a
recursive function over numbers is what its equations say (`ComputesOnce`,
`ComputationExists`), and so the sums (`TotalIs`) and `FlattenSeq` (`FlattenIs`) can
be reasoned about.

Only model-checked are the liveness properties: temporal proofs under fairness, and
`ENABLED`, are beyond the prover. Every invariant of the runs that is not to be
violated is stated by a theorem. The references of `InputsArrive` and `OutputsArrive`,
`BitOf` and `FirstBit`, take the sum of the bits before an entry (`StartIn`) from the
mask; the model takes it from the tables of the generated program.

## 5. Findings

* `hrt_low_priority`: with `--priority N` and more than N tasks the slowest tasks
  would get priority 0 or below (`hrt_main.c:1575`). `pthread_attr_setschedparam` refuses that,
  its result is ignored (1583), and `pthread_create` gives these threads the priority of
  main: the slowest tasks run with the priority of the fastest, above those in
  between. `ChangeLog:1312` says "Reduce priorities for slower tasks".
* `time_dilation`: without `MT` the decimation of a signal is its period in the
  model, divided by a sample time that was already multiplied with the dilation
  (`hrt_main.c:940`, `hrt_main.c:1472`). With `--time-dilation` 2 a signal that is
  updated in every second cycle has decimation 1, from 3 on those of the base
  rate have decimation 0; `usage` promises that "No other timings are affected".

Disagreements that were met while modelling, without a run of their own. In
`hrt_main.c`:

* `dt = p_task->sample_time * 1e9` (1551) is cut, not rounded as in `run_task`
  (503): for sample times such as 65 us it is one ns too small, and the start is not a
  multiple of the sample time, against the comment at 1539. That the cut product is the
  period is a matter of the constants in `TaskTiming.cfg` (`ShiftTime` = 6), and a hypothesis
  of `StartAligned`; `StartsOnMultiple` itself does not say so, and TLC finds it violated with a
  `ShiftTime` of 5.
* `make_compound` (585, 596) adds the offset of a structure inside another one to the
  field and, through its argument, to the fields of the inner structure as well. Clients
  find the fields of `inner` of the documented example (57-60, 97) at wrong addresses.
  `VariablesAreTheirMemory` excepts such structures.
* The signals of one block are told apart by their names, which may be equal (926); the
  comment at 900 says that "the path must be modified to make it unique".
  `EachHasItsPath` excepts models in which this happens (`Distinguishable`).
* After an error `register_*` print `path` before anything was written to it (965).
* `usage` names the option `--pid-path` (1278), `get_options` knows `--pid-file`
  (1315). `NEWS:6` says that `init_application` comes before `pdserv_prepare`; the
  code has them the other way round. A failure of `MdlRegisterMessages` (1492) leaves the
  exit status at 0; when `daemon` fails (1417), `pdserv_exit` is called before
  `pdserv_create`.

In `ecrt_support.c`:

* A master whose request failed stays in the list without a handle (895); the
  second call of a `domain_state` block with separate input and output finds it
  there and passes NULL to the library (state `crashed` of `EcatRegistry`).
* The comment at 129 says that there is exactly one domain for a sample time on
  a master; `get_domain` makes one for each combination of id, direction and
  sample time.
* `register_pdos` counts a PDO before it looks at the error (`offset < 0`).
* `ecs_read_be_uint24` stores 8 bytes into 4: the next element is overwritten, and
  copied only afterwards. Bit fields that cross the end of a byte are cut. Both are
  part of the reference of `InputsAreTheirElements` and `OutputsChangeTheirElements`, which
  therefore do not fail on them.
* The sum of the clock parameters is unsigned, so that only a sum of exactly 0 is
  refused (1180). Without `EC_WRITE_REAL` real SDOs are dropped silently.

In `ec_slave3.c` and `ec_slave3.tlc`:

* The buffer for an SoE string has no place for its end (`ec_slave3.c:1270-1281`):
  Matlab cuts off the last character, and the slave gets the rest. The documentation
  (51-55) says that the row "configures a string array". `ConfigurationArrives` has the
  length as the code makes it.
* Clocks are written only together with sync managers (2649, 2716).
* A PDO of the other direction (1778, 1862), or a raw one that does not begin at a
  byte (1803), leads to a warning only; of an entry in two PDOs the first is used.
* `mdlSetInputPortWidth` dereferences its pointer before it looks whether there is
  one, and `mdlTerminate` keeps the user data.
* Integers of 40 to 64 bits that are shown as double carry the bits of the integer.
* The template ignores gain and offset for inputs in a boolean work vector, and
  uses an undefined `filter` in `WriteFilter`.

## 6. Not modelled

* Priorities in `HrtTasks` and `EcatTasks`, and so the time for which a client or a
  slow task that is preempted holds up the others: neither the mutexes nor the
  semaphores inherit priorities.
* Builds with `CLASSIC_INTERFACE`; locking of memory; logging.
* Builds with another pdserv. `write_parameter` and `read_signal` (`hrt_main.c:724-762`), and so
  the clients of `HrtTasks`, exist only with `VARIABLE_LOCKING`, for pdserv from 3.0.0 on and
  before 3.1.1. With `SYSTEM_LOCKING` (3.1.1 and later) pdserv gets `write_parameter_lock` and
  `read_signal_lock` as callbacks (1428-1430, 1478-1481) and copies and stamps by itself, in a
  library outside of the repository. Older ones (`GET_PARAMETERS`) let the base rate task fetch
  the parameters in its cycle (536-541).
* A real-time clock that is set back: `ReportedWritesAreUsed` compares its stamps.
* SDO requests (`ecs_sdo_handler`), whose progress is that of the EtherCAT library, and
  the arithmetic on the cycle times of distributed clocks.
* The generated code for gain, offset and filter of a port: arithmetic on
  reals.
* Messages, events and `RaiseCatch`: `etl_message` and `event` are latches and
  counters of one step, whose state nobody else uses; `raise_catch.c` is
  written against a kernel interface that is not in the repository.
* RtIPC, `findidx`, `propagate_width`, `world_time`: a step of each is a lookup or
  a call of a library outside of the repository; `list.h` is taken over from the
  Linux kernel.
* The outputs of `master_state` and `domain_state`, which are what the library
  reports.
* Everything inside of pdserv, the EtherCAT library and Simulink: they appear as
  the calls they make and the answers they may give.
* Templates other than the parts named above, slave tables (`*.m`) and
  command-line tools: they run before the program exists, each on its own.

## 7. Plan

1. The latches of `etl_message` and `event` with the list of raised ids, if
   `raise_catch.c` is revived.
