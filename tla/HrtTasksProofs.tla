-------------------------- MODULE HrtTasksProofs --------------------------
(***************************************************************************)
(* Proofs about HrtTasks, for every number of tasks, clients and words.    *)
(*                                                                         *)
(* The invariants of HrtTasks are not inductive: that a step sees one      *)
(* block follows from who holds which mutex at which place. The inductive  *)
(* invariant comes in layers, each proved with the help of those before    *)
(* it: types, mutexes, rwlocks, the contents of the memory, and the order  *)
(* of the shutdown.                                                        *)
(***************************************************************************)
EXTENDS HrtTasks, TLAPS

InCycle == {"plock", "step", "update"}

(* Who holds the mutex of a task: the task exactly while its model runs,   *)
(* a client those that its loops have passed or have not yet released.     *)
MutexInv ==
  /\ \A i \in Task : tpc[i] = "step" <=> param_lock[i] = "task"
  /\ \A w \in Writers, i \in Task :
       param_lock[i] = w <=> \/ wpc[w] = "lock" /\ wpos[w] < i
                             \/ wpc[w] = "copy"
                             \/ wpc[w] = "unlock" /\ i <= wpos[w]
  /\ \A w \in Writers :
       /\ wpc[w] \in {"lock", "unlock"} => wpos[w] \in Task
       /\ wpc[w] = "copy" => wpos[w] \in Word

(* The rwlock of a task has a writer exactly during a cycle, and then no   *)
(* readers; its readers are the clients that copy.                         *)
RWLockInv ==
  /\ \A i \in Task :
       /\ signal_lock[i].writer <=> tpc[i] \in InCycle
       /\ signal_lock[i].writer => signal_lock[i].readers = {}
  /\ \A i \in Task, r \in Readers :
       r \in signal_lock[i].readers <=> rpc[r] = "copy" /\ rtask[r] = i

(* The parameter memory is whole, unless a client copies just now.         *)
BlockInv ==
  /\ (\A w \in Writers : wpc[w] # "copy") => \A k \in Word : mem[k] = version
  /\ \A w \in Writers :
       /\ wpc[w] = "copy" =>
            wval[w] = version /\ \A k \in 1 .. wpos[w] - 1 : mem[k] = version
       /\ wpc[w] \in {"unlock", "stamp"} => wval[w] <= version
  /\ \A wr \in written : wr.version <= version

(* The signals of a task: of the present cycle and block as far as they    *)
(* are computed, and all of the last published cycle outside a step.       *)
SignalInvOf(i) ==
  /\ tpc[i] = "step" =>
       \A k \in 1 .. spos[i] - 1 :
         sig[i][k] = [cycle |-> cycle[i], param |-> version]
  /\ tpc[i] = "update" =>
       \A k \in Word :
         sig[i][k] = [cycle |-> cycle[i], param |-> sig[i][Words].param]
  /\ tpc[i] \notin {"step", "update"} => sig[i] = published[i]
  /\ tpc[i] \notin InCycle => \A k \in Word : published[i][k].cycle = cycle[i]
  /\ tpc[i] \in InCycle =>
       \A k \in Word : cycle[i] = (published[i][k].cycle + 1) % CycleRing
  /\ \A k \in Word : published[i][k] = published[i][Words]

SignalInv == \A i \in Task : SignalInvOf(i)

(* What a client has copied is what its task published. *)
ReadInv ==
  \A r \in Readers :
    /\ rpc[r] # "copy" => rpos[r] = 1
    /\ rpc[r] = "copy" =>
         \A k \in 1 .. rpos[r] - 1 : buf[r][k] = published[rtask[r]][k]
    /\ \A k \in Word : /\ got[r].words[k].cycle = got[r].cycle
                       /\ got[r].words[k].param = got[r].words[Words].param

(* Time stamps are never in the future. *)
TimeInv ==
  /\ \A i \in Task : worldTime[i] <= now
  /\ \A wr \in written : wr.time <= now

(* A task that sleeps has not begun a step after the flag was cleared. *)
LateInv ==
  \A i \in Task :
    /\ running \/ tpc[i] = "sleep" => lateSteps[i] = 0
    /\ lateSteps[i] <= 1

(* How far main has come with starting and joining the tasks. *)
MainInv ==
  /\ mpc = "create" =>
       \A i \in Task : i = 0 \/ mpos <= i => tpc[i] = "unborn"
  /\ mpc \in {"create", "cyclic"} => serving
  /\ mpc = "cyclic" => mpos = 0
  /\ mpc = "join" =>
       \A i \in Task : i < mpos => tpc[i] \in {"unborn", "done"}
  /\ mpc = "join" /\ ~serving => mpos = NumTasks
  /\ mpc \in {"terminate", "exited"} =>
       /\ ~serving
       /\ \A i \in Task : tpc[i] \in {"unborn", "done"}
       /\ \A w \in Writers : wpc[w] = "idle"
       /\ \A r \in Readers : rpc[r] = "idle"

-----------------------------------------------------------------------------
(* Frames: what the other steps leave alone. *)

(* Only run_task, and main when it starts a thread, change a task. *)
LEMMA TaskFrame ==
  ASSUME Next, ~StartTask, \A i \in Task : ~TaskStep(i)
  PROVE  UNCHANGED <<taskVars, lateSteps, running, modelErr>>
<1>1. ASSUME NEW w \in Writers, StartWrite(w) \/ FinishWrite(w)
      PROVE  UNCHANGED <<taskVars, lateSteps, running, modelErr>>
  BY <1>1 DEF FinishWrite, StartWrite, LockNext, CopyParam, UnlockNext,
              StampWrite
<1>2. ASSUME NEW r \in Readers, EndRead(r) \/ \E i \in Task : StartRead(r, i)
      PROVE  UNCHANGED <<taskVars, lateSteps, running, modelErr>>
  BY <1>2 DEF EndRead, StartRead, TakeReadLock, CopySignal, FinishRead
<1>3. ASSUME \/ JoinTask \/ StopServing \/ PdservExit \/ Terminate
             \/ Tick \/ Stopped
      PROVE  UNCHANGED <<taskVars, lateSteps, running, modelErr>>
  BY <1>3 DEF JoinTask, StopServing, PdservExit, Terminate, Tick, Stopped, vars
<1> QED
  BY <1>1, <1>2, <1>3 DEF Next, MainStep

(* Only the clients that write change the parameters. *)
LEMMA WriterFrame ==
  ASSUME Next, \A w \in Writers : ~StartWrite(w) /\ ~FinishWrite(w)
  PROVE  UNCHANGED writerVars
<1>1. ASSUME NEW i \in Task, TaskStep(i) PROVE UNCHANGED writerVars
  BY <1>1 DEF TaskStep, CheckRunning, WakeUp, Interrupted, TakeSignalLock,
              TakeParamLock, ComputeWord, FinishStep, Update, Leave
<1>2. ASSUME NEW r \in Readers, EndRead(r) \/ \E i \in Task : StartRead(r, i)
      PROVE  UNCHANGED writerVars
  BY <1>2 DEF EndRead, StartRead, TakeReadLock, CopySignal, FinishRead
<1>3. ASSUME MainStep \/ Tick \/ Stopped PROVE UNCHANGED writerVars
  BY <1>3 DEF MainStep, StartTask, JoinTask, StopServing, PdservExit,
              Terminate, Tick, Stopped, vars
<1> QED
  BY <1>1, <1>2, <1>3 DEF Next

(* Only the clients that read change their buffers. *)
LEMMA ReaderFrame ==
  ASSUME Next, \A r \in Readers :
                 ~EndRead(r) /\ \A i \in Task : ~StartRead(r, i)
  PROVE  UNCHANGED readerVars
<1>1. ASSUME NEW i \in Task, TaskStep(i) PROVE UNCHANGED readerVars
  BY <1>1 DEF TaskStep, CheckRunning, WakeUp, Interrupted, TakeSignalLock,
              TakeParamLock, ComputeWord, FinishStep, Update, Leave
<1>2. ASSUME NEW w \in Writers, StartWrite(w) \/ FinishWrite(w)
      PROVE  UNCHANGED readerVars
  BY <1>2 DEF FinishWrite, StartWrite, LockNext, CopyParam, UnlockNext,
              StampWrite
<1>3. ASSUME MainStep \/ Tick \/ Stopped PROVE UNCHANGED readerVars
  BY <1>3 DEF MainStep, StartTask, JoinTask, StopServing, PdservExit,
              Terminate, Tick, Stopped, vars
<1> QED
  BY <1>1, <1>2, <1>3 DEF Next

(* main and the clock touch no lock. *)
LEMMA LockFrame ==
  ASSUME Next, \A i \in Task : ~TaskStep(i),
         \A w \in Writers : ~StartWrite(w) /\ ~FinishWrite(w),
         \A r \in Readers : ~EndRead(r)
  PROVE  UNCHANGED lockVars
<1>1. ASSUME NEW r \in Readers, \E i \in Task : StartRead(r, i)
      PROVE  UNCHANGED lockVars
  BY <1>1 DEF StartRead
<1>2. ASSUME MainStep \/ Tick \/ Stopped PROVE UNCHANGED lockVars
  BY <1>2 DEF MainStep, StartTask, JoinTask, StopServing, PdservExit,
              Terminate, Tick, Stopped, vars
<1> QED
  BY <1>1, <1>2 DEF Next

(* Tasks and clients do not move main. *)
LEMMA MainFrame ==
  ASSUME Next, ~MainStep
  PROVE  UNCHANGED mainVars
<1>1. ASSUME NEW i \in Task, TaskStep(i) PROVE UNCHANGED mainVars
  BY <1>1 DEF TaskStep, CheckRunning, WakeUp, Interrupted, TakeSignalLock,
              TakeParamLock, ComputeWord, FinishStep, Update, Leave
<1>2. ASSUME NEW w \in Writers, StartWrite(w) \/ FinishWrite(w)
      PROVE  UNCHANGED mainVars
  BY <1>2 DEF FinishWrite, StartWrite, LockNext, CopyParam, UnlockNext,
              StampWrite
<1>3. ASSUME NEW r \in Readers, EndRead(r) \/ \E i \in Task : StartRead(r, i)
      PROVE  UNCHANGED mainVars
  BY <1>3 DEF EndRead, StartRead, TakeReadLock, CopySignal, FinishRead
<1>4. ASSUME Tick \/ Stopped PROVE UNCHANGED mainVars
  BY <1>4 DEF Tick, Stopped, vars
<1> QED
  BY <1>1, <1>2, <1>3, <1>4 DEF Next

-----------------------------------------------------------------------------
(* Types *)

LEMMA LastWord == Words \in Word
  BY WordAssumption DEF Word

LEMMA NextCycleType == \A c \in Nat : (c + 1) % CycleRing \in Nat
  BY BoundAssumption

LEMMA TaskTypesStep ==
  ASSUME TypeOK, Next PROVE TaskTypes'
<1> USE DEF TypeOK, TaskTypes, Goto, TaskPlaces
<1>1. ASSUME NEW i \in Task,
             CheckRunning(i) \/ WakeUp(i) \/ Interrupted(i) \/ Leave(i)
      PROVE  TaskTypes'
  <2>1. CASE CheckRunning(i)
    BY <2>1 DEF CheckRunning
  <2>2. CASE WakeUp(i)
    BY <2>2 DEF WakeUp
  <2>3. CASE Interrupted(i) \/ Leave(i)
    BY <2>3 DEF Interrupted, Leave
  <2> QED
    BY <1>1, <2>1, <2>2, <2>3
<1>2. ASSUME NEW i \in Task, TakeSignalLock(i) PROVE TaskTypes'
  <2>1. cycle' \in [Task -> Nat]
    BY <1>2, NextCycleType DEF TakeSignalLock
  <2> QED
    BY <1>2, <2>1 DEF TakeSignalLock, MainTypes
<1>3. ASSUME NEW i \in Task, TakeParamLock(i) PROVE TaskTypes'
  BY <1>3, WordAssumption DEF TakeParamLock
<1>4. ASSUME NEW i \in Task, ComputeWord(i) PROVE TaskTypes'
  <2>1. [cycle |-> cycle[i], param |-> mem[spos[i]]] \in SignalWord
    BY <1>4 DEF ComputeWord, SignalWord, WriterTypes
  <2>2. sig' \in [Task -> [Word -> SignalWord]]
    BY <1>4, <2>1 DEF ComputeWord
  <2>3. spos' \in [Task -> 1 .. Words + 1]
    BY <1>4, WordAssumption DEF ComputeWord, Word
  <2> QED
    BY <1>4, <2>2, <2>3 DEF ComputeWord
<1>5. ASSUME NEW i \in Task, FinishStep(i) \/ Update(i) PROVE TaskTypes'
  BY <1>5 DEF FinishStep, Update, MainTypes
<1>6. ASSUME StartTask PROVE TaskTypes'
  BY <1>6 DEF StartTask
<1>7. CASE ~StartTask /\ \A i \in Task : ~TaskStep(i)
  BY <1>7, TaskFrame DEF taskVars
<1> QED
  BY <1>1, <1>2, <1>3, <1>4, <1>5, <1>6, <1>7 DEF TaskStep

LEMMA WriterTypesStep ==
  ASSUME TypeOK, Next PROVE WriterTypes'
<1> USE DEF TypeOK, WriterTypes
<1>1. ASSUME NEW w \in Writers, StartWrite(w) PROVE WriterTypes'
  BY <1>1, TaskAssumption DEF StartWrite
<1>2. ASSUME NEW w \in Writers, LockNext(w) PROVE WriterTypes'
  BY <1>2 DEF LockNext
<1>3. ASSUME NEW w \in Writers, CopyParam(w) PROVE WriterTypes'
  <2>1. mem' \in [Word -> Nat]
    BY <1>3 DEF CopyParam
  <2>2. wpos' \in [Writers -> Nat]
    BY <1>3, TaskAssumption DEF CopyParam
  <2>3. wpc' \in [Writers -> {"idle", "lock", "copy", "unlock", "stamp"}]
    BY <1>3 DEF CopyParam
  <2> QED
    BY <1>3, <2>1, <2>2, <2>3 DEF CopyParam
<1>4. ASSUME NEW w \in Writers, UnlockNext(w) PROVE WriterTypes'
  BY <1>4 DEF UnlockNext
<1>5. ASSUME NEW w \in Writers, StampWrite(w) PROVE WriterTypes'
  BY <1>5 DEF StampWrite, MainTypes
<1>6. CASE \A w \in Writers : ~StartWrite(w) /\ ~FinishWrite(w)
  BY <1>6, WriterFrame DEF writerVars
<1> QED
  BY <1>1, <1>2, <1>3, <1>4, <1>5, <1>6 DEF FinishWrite

LEMMA ReaderTypesStep ==
  ASSUME TypeOK, Next PROVE ReaderTypes'
<1> USE DEF TypeOK, ReaderTypes
<1>1. ASSUME NEW r \in Readers, NEW i \in Task, StartRead(r, i)
      PROVE  ReaderTypes'
  BY <1>1 DEF StartRead
<1>2. ASSUME NEW r \in Readers, TakeReadLock(r) PROVE ReaderTypes'
  BY <1>2 DEF TakeReadLock
<1>3. ASSUME NEW r \in Readers, CopySignal(r) PROVE ReaderTypes'
  <2>1. sig[rtask[r]][rpos[r]] \in SignalWord
    BY <1>3 DEF CopySignal, TaskTypes
  <2>2. buf' \in [Readers -> [Word -> SignalWord]]
    BY <1>3, <2>1 DEF CopySignal
  <2>3. rpos' \in [Readers -> 1 .. Words + 1]
    BY <1>3, WordAssumption DEF CopySignal, Word
  <2> QED
    BY <1>3, <2>2, <2>3 DEF CopySignal
<1>4. ASSUME NEW r \in Readers, FinishRead(r) PROVE ReaderTypes'
  <2>1. [words |-> buf[r], cycle |-> cycle[rtask[r]],
         time |-> worldTime[rtask[r]]] \in Snapshot
    BY DEF Snapshot, TaskTypes
  <2>2. [k \in Word |-> NoSignal] \in [Word -> SignalWord]
    BY DEF NoSignal, SignalWord
  <2> QED
    BY <1>4, <2>1, <2>2, WordAssumption DEF FinishRead
<1>5. CASE \A r \in Readers : ~EndRead(r) /\ \A i \in Task : ~StartRead(r, i)
  BY <1>5, ReaderFrame DEF readerVars
<1> QED
  BY <1>1, <1>2, <1>3, <1>4, <1>5 DEF EndRead

LEMMA LockTypesStep ==
  ASSUME TypeOK, Next PROVE LockTypes'
<1> USE DEF TypeOK, LockTypes
<1>1. ASSUME NEW i \in Task, TaskStep(i) PROVE LockTypes'
  <2>1. CASE TakeSignalLock(i) \/ Update(i)
    BY <2>1 DEF TakeSignalLock, Update
  <2>2. CASE TakeParamLock(i) \/ FinishStep(i)
    BY <2>2 DEF TakeParamLock, FinishStep, Owner
  <2>3. CASE \/ CheckRunning(i) \/ WakeUp(i) \/ Interrupted(i)
             \/ ComputeWord(i) \/ Leave(i)
    BY <2>3 DEF CheckRunning, WakeUp, Interrupted, ComputeWord, Leave, lockVars
  <2> QED
    BY <1>1, <2>1, <2>2, <2>3 DEF TaskStep
<1>2. ASSUME NEW w \in Writers, StartWrite(w) \/ FinishWrite(w)
      PROVE  LockTypes'
  BY <1>2 DEF FinishWrite, StartWrite, LockNext, CopyParam, UnlockNext,
              StampWrite, lockVars, Owner
<1>3. ASSUME NEW r \in Readers, EndRead(r) PROVE LockTypes'
  BY <1>3 DEF EndRead, TakeReadLock, CopySignal, FinishRead, lockVars
<1>4. CASE /\ \A i \in Task : ~TaskStep(i)
           /\ \A w \in Writers : ~StartWrite(w) /\ ~FinishWrite(w)
           /\ \A r \in Readers : ~EndRead(r)
  BY <1>4, LockFrame DEF lockVars
<1> QED
  BY <1>1, <1>2, <1>3, <1>4

LEMMA MainTypesStep ==
  ASSUME TypeOK, Next PROVE MainTypes'
<1> USE DEF TypeOK, MainTypes
<1>1. (running \in BOOLEAN /\ modelErr \in BOOLEAN)'
  <2>1. ASSUME NEW i \in Task, TaskStep(i)
        PROVE  (running \in BOOLEAN /\ modelErr \in BOOLEAN)'
    BY <2>1 DEF TaskStep, CheckRunning, WakeUp, Interrupted, TakeSignalLock,
                TakeParamLock, ComputeWord, FinishStep, Update, Leave
  <2>2. CASE StartTask
    BY <2>2 DEF StartTask
  <2> QED
    BY <2>1, <2>2, TaskFrame
<1>2. (/\ serving \in BOOLEAN
       /\ mpc \in {"create", "cyclic", "join", "terminate", "exited",
                   "crashed"}
       /\ mpos \in 0 .. NumTasks)'
  <2>1. CASE StartTask
    BY <2>1, TaskAssumption DEF StartTask
  <2>2. CASE JoinTask
    BY <2>2, TaskAssumption DEF JoinTask
  <2>3. CASE StopServing \/ PdservExit \/ Terminate
    BY <2>3 DEF StopServing, PdservExit, Terminate
  <2> QED
    BY <2>1, <2>2, <2>3, MainFrame DEF mainVars, MainStep
<1>3. now' \in Nat
  <2>1. ASSUME NEW i \in Task, TaskStep(i) PROVE now' \in Nat
    BY <2>1 DEF TaskStep, CheckRunning, WakeUp, Interrupted, TakeSignalLock,
                TakeParamLock, ComputeWord, FinishStep, Update, Leave
  <2>2. ASSUME NEW w \in Writers, StartWrite(w) \/ FinishWrite(w)
        PROVE  now' \in Nat
    BY <2>2 DEF FinishWrite, StartWrite, LockNext, CopyParam, UnlockNext,
                StampWrite
  <2>3. ASSUME NEW r \in Readers, EndRead(r) \/ \E i \in Task : StartRead(r, i)
        PROVE  now' \in Nat
    BY <2>3 DEF EndRead, StartRead, TakeReadLock, CopySignal, FinishRead
  <2>4. CASE MainStep
    BY <2>4 DEF MainStep, StartTask, JoinTask, StopServing, PdservExit,
                Terminate
  <2>5. CASE Tick \/ Stopped
    BY <2>5 DEF Tick, Stopped, vars
  <2> QED
    BY <2>1, <2>2, <2>3, <2>4, <2>5 DEF Next
<1> QED
  BY <1>1, <1>2, <1>3

LEMMA InitTypes == Init => TypeOK
<1> SUFFICES ASSUME Init PROVE TypeOK
  OBVIOUS
<1> USE DEF Init, NoSignal, SignalWord
<1>1. TaskTypes
  BY WordAssumption DEF TaskTypes, TaskPlaces
<1>2. WriterTypes
  BY DEF WriterTypes
<1>3. ReaderTypes
  BY WordAssumption, TaskAssumption DEF ReaderTypes, Snapshot, Task
<1>4. LockTypes
  BY DEF LockTypes, Owner
<1>5. MainTypes
  <2>1. 0 \in 0 .. NumTasks
    BY TaskAssumption
  <2> QED
    BY <2>1 DEF MainTypes
<1> QED
  BY <1>1, <1>2, <1>3, <1>4, <1>5 DEF TypeOK

LEMMA TypesStep ==
  ASSUME TypeOK, Next PROVE TypeOK'
  BY TaskTypesStep, WriterTypesStep, ReaderTypesStep, LockTypesStep,
     MainTypesStep DEF TypeOK

(* Every variable keeps its type, for every number of tasks, clients and  *)
(* words.                                                                 *)
THEOREM TypeCorrect == Spec => []TypeOK
<1>1. TypeOK /\ UNCHANGED vars => TypeOK'
  BY DEF TypeOK, TaskTypes, WriterTypes, ReaderTypes, LockTypes, MainTypes,
         vars, taskVars, writerVars, readerVars, lockVars, mainVars
<1> QED
  BY <1>1, InitTypes, TypesStep, PTL DEF Spec

-----------------------------------------------------------------------------
(* The inductive invariant, layer by layer *)

LEMMA MainInvStep ==
  ASSUME TypeOK, MainInv, Next PROVE MainInv'
<1> USE DEF MainInv, TypeOK, TaskTypes, MainTypes
<1>1. ASSUME NEW i \in Task, TaskStep(i) PROVE MainInv'
  <2>1. tpc[i] \notin {"unborn", "done"}
    BY <1>1 DEF TaskStep, CheckRunning, WakeUp, Interrupted, TakeSignalLock,
                TakeParamLock, ComputeWord, FinishStep, Update, Leave
  <2>2. \A j \in Task : j # i => tpc'[j] = tpc[j]
    BY <1>1 DEF TaskStep, CheckRunning, WakeUp, Interrupted, TakeSignalLock,
                TakeParamLock, ComputeWord, FinishStep, Update, Leave, Goto
  <2>3. UNCHANGED <<mainVars, wpc, rpc>>
    BY <1>1, MainFrame DEF TaskStep, CheckRunning, WakeUp, Interrupted,
         TakeSignalLock, TakeParamLock, ComputeWord, FinishStep, Update,
         Leave, writerVars, readerVars
  <2> QED
    BY <2>1, <2>2, <2>3 DEF mainVars
<1>2. ASSUME NEW w \in Writers, StartWrite(w) \/ FinishWrite(w)
      PROVE  MainInv'
  <2>1. UNCHANGED <<mainVars, tpc, rpc>> /\ (serving \/ wpc[w] # "idle")
    BY <1>2 DEF FinishWrite, StartWrite, LockNext, CopyParam, UnlockNext,
                StampWrite, taskVars, readerVars
  <2>2. \A v \in Writers : v # w => wpc'[v] = wpc[v]
    BY <1>2 DEF FinishWrite, StartWrite, LockNext, CopyParam, UnlockNext,
                StampWrite, WriterTypes
  <2> QED
    BY <2>1, <2>2 DEF mainVars
<1>3. ASSUME NEW r \in Readers, EndRead(r) \/ \E i \in Task : StartRead(r, i)
      PROVE  MainInv'
  <2>1. UNCHANGED <<mainVars, tpc, wpc>> /\ (serving \/ rpc[r] # "idle")
    BY <1>3 DEF EndRead, StartRead, TakeReadLock, CopySignal, FinishRead,
                taskVars, writerVars
  <2>2. \A q \in Readers : q # r => rpc'[q] = rpc[q]
    BY <1>3 DEF EndRead, StartRead, TakeReadLock, CopySignal, FinishRead,
                ReaderTypes
  <2> QED
    BY <2>1, <2>2 DEF mainVars
<1>4. CASE StartTask
  BY <1>4, TaskAssumption DEF StartTask, Task
<1>5. CASE JoinTask
  BY <1>5, TaskAssumption DEF JoinTask, taskVars, Task
<1>6. CASE StopServing
  BY <1>6 DEF StopServing, taskVars
<1>7. CASE PdservExit
  BY <1>7, TaskAssumption DEF PdservExit, taskVars, writerVars, readerVars,
                              Task
<1>8. CASE Terminate
  BY <1>8 DEF Terminate, taskVars, writerVars, readerVars
<1>9. CASE Tick \/ Stopped
  BY <1>9 DEF Tick, Stopped, vars, mainVars, taskVars, writerVars, readerVars
<1> QED
  BY <1>1, <1>2, <1>3, <1>4, <1>5, <1>6, <1>7, <1>8, <1>9 DEF Next, MainStep

(* main starts at most one thread at a time, and none twice. *)
LEMMA StartTaskEffect ==
  ASSUME TypeOK, MainInv, StartTask
  PROVE  /\ \/ UNCHANGED tpc
            \/ \E j \in Task : /\ tpc[j] = "unborn"
                              /\ tpc' = [tpc EXCEPT ![j] = "check"]
         /\ UNCHANGED <<lockVars, writerVars, readerVars>>
<1>1. CASE mpos = NumTasks
  <2>1. 0 \in Task /\ tpc[0] = "unborn"
    BY TaskAssumption DEF StartTask, MainInv, Task
  <2> QED
    BY <1>1, <2>1 DEF StartTask
<1>2. CASE mpos # NumTasks
  <2>1. mpos \in Task /\ tpc[mpos] = "unborn"
    BY <1>2, TaskAssumption DEF StartTask, MainInv, TypeOK, MainTypes, Task
  <2> QED
    BY <1>2, <2>1 DEF StartTask
<1> QED
  BY <1>1, <1>2

(* One round of the loops of write_parameter_lock. *)
LEMMA Predecessor ==
  ASSUME NEW n \in Task, n # 0
  PROVE  /\ n - 1 \in Task
         /\ \A i \in Task : /\ n - 1 < i <=> (n < i \/ i = n)
                            /\ i <= n - 1 <=> (i <= n /\ i # n)
  BY TaskAssumption DEF Task

LEMMA MutexInvStep ==
  ASSUME TypeOK, MainInv, MutexInv, Next PROVE MutexInv'
<1> USE ClientAssumption
    DEF MutexInv, TypeOK, TaskTypes, WriterTypes, LockTypes, Owner
<1>1. ASSUME NEW i \in Task, TaskStep(i) PROVE MutexInv'
  <2> USE DEF writerVars, Goto
  <2>1. CASE TakeParamLock(i)
    BY <2>1 DEF TakeParamLock
  <2>2. CASE FinishStep(i)
    BY <2>2 DEF FinishStep
  <2>3. CASE ComputeWord(i)
    BY <2>3 DEF ComputeWord, lockVars
  <2>4. CASE \/ CheckRunning(i) \/ WakeUp(i) \/ Interrupted(i)
             \/ TakeSignalLock(i) \/ Update(i) \/ Leave(i)
    <3>1. tpc[i] # "step" /\ tpc'[i] # "step"
      BY <2>4 DEF CheckRunning, WakeUp, Interrupted, TakeSignalLock, Update,
                  Leave
    <3>2. /\ \A j \in Task : j # i => tpc'[j] = tpc[j]
          /\ UNCHANGED <<param_lock, wpc, wpos>>
      BY <2>4 DEF CheckRunning, WakeUp, Interrupted, TakeSignalLock, Update,
                  Leave, lockVars
    <3> QED
      BY <3>1, <3>2
  <2> QED
    BY <1>1, <2>1, <2>2, <2>3, <2>4 DEF TaskStep
<1>2. ASSUME NEW w \in Writers, StartWrite(w) \/ FinishWrite(w)
      PROVE  MutexInv'
  <2> USE DEF taskVars
  <2>1. CASE StartWrite(w)
    BY <2>1, TaskAssumption DEF StartWrite, lockVars, Task
  <2>2. CASE LockNext(w)
    <3>1. wpos[w] \in Task
      BY <2>2 DEF LockNext
    <3>2. CASE wpos[w] = 0
      BY <2>2, <3>1, <3>2, WordAssumption DEF LockNext, Task, Word
    <3>3. CASE wpos[w] # 0
      <4>1. /\ wpos' = [wpos EXCEPT ![w] = @ - 1]
            /\ param_lock' = [param_lock EXCEPT ![wpos[w]] = w]
            /\ param_lock[wpos[w]] = "free" /\ wpc[w] = "lock"
            /\ UNCHANGED <<wpc, tpc>>
        BY <2>2, <3>3 DEF LockNext
      <4>2. wpos'[w] = wpos[w] - 1
        BY <4>1
      <4> QED
        BY <3>1, <3>3, <4>1, <4>2, Predecessor
    <3> QED
      BY <3>2, <3>3
  <2>3. CASE CopyParam(w)
    <3>1. UNCHANGED <<param_lock, tpc>> /\ wpc[w] = "copy"
      BY <2>3 DEF CopyParam, lockVars
    <3>2. CASE wpos[w] = Words
      <4>1. /\ wpc' = [wpc EXCEPT ![w] = "unlock"]
            /\ wpos' = [wpos EXCEPT ![w] = NumTasks - 1]
        BY <2>3, <3>2 DEF CopyParam
      <4>2. NumTasks - 1 \in Task /\ \A i \in Task : i <= NumTasks - 1
        BY TaskAssumption DEF Task
      <4> QED
        BY <3>1, <4>1, <4>2
    <3>3. CASE wpos[w] # Words
      <4>1. wpc' = wpc /\ wpos' = [wpos EXCEPT ![w] = @ + 1]
        BY <2>3, <3>3 DEF CopyParam
      <4>2. wpos[w] \in Word /\ wpos'[w] \in Word
        BY <3>1, <3>3, <4>1, WordAssumption DEF Word
      <4> QED
        BY <3>1, <4>1, <4>2
    <3> QED
      BY <3>2, <3>3
  <2>4. CASE UnlockNext(w)
    <3>1. /\ param_lock' = [param_lock EXCEPT ![wpos[w]] = "free"]
          /\ wpc[w] = "unlock" /\ wpos[w] \in Task /\ param_lock[wpos[w]] = w
          /\ UNCHANGED tpc
      BY <2>4 DEF UnlockNext, Task
    <3>2. CASE wpos[w] = 0
      <4>1. wpc' = [wpc EXCEPT ![w] = "stamp"] /\ wpos' = wpos
        BY <2>4, <3>2 DEF UnlockNext
      <4>2. \A i \in Task : i <= wpos[w] <=> i = wpos[w]
        BY <3>2 DEF Task
      <4> QED
        BY <3>1, <4>1, <4>2
    <3>3. CASE wpos[w] # 0
      <4>1. wpc' = wpc /\ wpos' = [wpos EXCEPT ![w] = @ - 1]
        BY <2>4, <3>3 DEF UnlockNext
      <4>2. wpos'[w] = wpos[w] - 1
        BY <4>1
      <4> QED
        BY <3>1, <3>3, <4>1, <4>2, Predecessor
    <3> QED
      BY <3>2, <3>3
  <2>5. CASE StampWrite(w)
    BY <2>5 DEF StampWrite, lockVars
  <2> QED
    BY <1>2, <2>1, <2>2, <2>3, <2>4, <2>5 DEF FinishWrite
<1>3. CASE StartTask
  BY <1>3, StartTaskEffect DEF lockVars, writerVars
<1>4. CASE /\ ~StartTask /\ \A i \in Task : ~TaskStep(i)
           /\ \A w \in Writers : ~StartWrite(w) /\ ~FinishWrite(w)
  <2>1. UNCHANGED <<taskVars, writerVars>>
    BY <1>4, TaskFrame, WriterFrame
  <2>2. UNCHANGED param_lock
    BY <1>4, LockFrame DEF EndRead, TakeReadLock, CopySignal, FinishRead,
                           lockVars
  <2> QED
    BY <2>1, <2>2 DEF taskVars, writerVars
<1> QED
  BY <1>1, <1>2, <1>3, <1>4

LEMMA RWLockInvStep ==
  ASSUME TypeOK, MainInv, RWLockInv, Next PROVE RWLockInv'
<1> USE DEF RWLockInv, TypeOK, TaskTypes, ReaderTypes, LockTypes, InCycle
<1>1. ASSUME NEW i \in Task, TaskStep(i) PROVE RWLockInv'
  <2> USE DEF readerVars, Goto
  <2>1. CASE TakeSignalLock(i)
    BY <2>1 DEF TakeSignalLock
  <2>2. CASE Update(i)
    BY <2>2 DEF Update
  <2>3. CASE \/ CheckRunning(i) \/ WakeUp(i) \/ Interrupted(i)
             \/ TakeParamLock(i) \/ ComputeWord(i) \/ FinishStep(i)
             \/ Leave(i)
    <3>1. tpc[i] \in InCycle <=> tpc'[i] \in InCycle
      BY <2>3 DEF CheckRunning, WakeUp, Interrupted, TakeParamLock,
                  ComputeWord, FinishStep, Leave
    <3>2. /\ \A j \in Task : j # i => tpc'[j] = tpc[j]
          /\ UNCHANGED <<signal_lock, readerVars>>
      BY <2>3 DEF CheckRunning, WakeUp, Interrupted, TakeParamLock,
                  ComputeWord, FinishStep, Leave, lockVars
    <3> QED
      BY <3>1, <3>2
  <2> QED
    BY <1>1, <2>1, <2>2, <2>3 DEF TaskStep
<1>2. ASSUME NEW r \in Readers, EndRead(r) PROVE RWLockInv'
  <2> USE DEF taskVars
  <2>1. CASE TakeReadLock(r)
    BY <2>1 DEF TakeReadLock
  <2>2. CASE CopySignal(r)
    BY <2>2 DEF CopySignal, lockVars
  <2>3. CASE FinishRead(r)
    BY <2>3 DEF FinishRead
  <2> QED
    BY <1>2, <2>1, <2>2, <2>3 DEF EndRead
<1>3. ASSUME NEW r \in Readers, NEW i \in Task, StartRead(r, i)
      PROVE  RWLockInv'
  BY <1>3 DEF StartRead, lockVars, taskVars
<1>4. CASE StartTask
  BY <1>4, StartTaskEffect DEF lockVars, readerVars
<1>5. CASE /\ ~StartTask /\ \A i \in Task : ~TaskStep(i)
           /\ \A r \in Readers : ~EndRead(r) /\ \A i \in Task : ~StartRead(r, i)
  <2>1. UNCHANGED <<taskVars, readerVars>>
    BY <1>5, TaskFrame, ReaderFrame
  <2>2. UNCHANGED signal_lock
    BY <1>5, LockFrame DEF FinishWrite, StartWrite, LockNext, CopyParam,
                           UnlockNext, StampWrite, lockVars
  <2> QED
    BY <2>1, <2>2 DEF taskVars, readerVars
<1> QED
  BY <1>1, <1>2, <1>3, <1>4, <1>5

(* What the mutexes exclude: a copy during a step, and two copies at once. *)
LEMMA CopyExcludes ==
  ASSUME MutexInv, TypeOK, NEW w \in Writers, wpc[w] = "copy"
  PROVE  /\ \A i \in Task : tpc[i] # "step"
         /\ \A v \in Writers : wpc[v] = "copy" => v = w
<1>1. \A i \in Task : param_lock[i] = w
  BY DEF MutexInv
<1>2. 0 \in Task
  BY TaskAssumption DEF Task
<1> QED
  BY <1>1, <1>2, ClientAssumption DEF MutexInv

(* The same just before a copy starts, when only task 0 is missing. *)
LEMMA StartCopyExcludes ==
  ASSUME MutexInv, TypeOK, NEW w \in Writers, LockNext(w), wpos[w] = 0
  PROVE  /\ \A i \in Task : tpc[i] # "step"
         /\ \A v \in Writers : wpc[v] # "copy"
<1>1. param_lock[0] = "free" /\ 0 \in Task
  BY TaskAssumption DEF LockNext, Task
<1>2. \A i \in Task : i # 0 => param_lock[i] = w
  BY DEF MutexInv, LockNext, Task
<1> QED
  BY <1>1, <1>2, ClientAssumption DEF MutexInv

LEMMA BlockInvStep ==
  ASSUME TypeOK, MutexInv, BlockInv, Next PROVE BlockInv'
<1> USE DEF BlockInv, TypeOK, WriterTypes
<1>1. ASSUME NEW w \in Writers, StartWrite(w) PROVE BlockInv'
  BY <1>1 DEF StartWrite
<1>2. ASSUME NEW w \in Writers, LockNext(w) PROVE BlockInv'
  <2>1. CASE wpos[w] = 0
    <3>1. \A v \in Writers : wpc[v] # "copy"
      BY <1>2, <2>1, StartCopyExcludes
    <3>2. version' \in Nat /\ version <= version'
      BY <1>2, <2>1, BoundAssumption DEF LockNext
    <3>3. /\ wpc' = [wpc EXCEPT ![w] = "copy"]
          /\ wpos' = [wpos EXCEPT ![w] = 1]
          /\ wval' = [wval EXCEPT ![w] = version']
          /\ UNCHANGED <<mem, written>>
      BY <1>2, <2>1 DEF LockNext
    <3>4. \A v \in Writers : v # w => wpc'[v] = wpc[v] /\ wval'[v] = wval[v]
      BY <3>3
    <3>5. wpc'[w] = "copy" /\ wval'[w] = version' /\ wpos'[w] = 1
      BY <3>3
    <3>6. \A wr \in written' : wr.version <= version'
      BY <3>2, <3>3
    <3>7. \A v \in Writers :
            wpc'[v] \in {"unlock", "stamp"} => wval'[v] <= version'
      BY <3>2, <3>4, <3>5
    <3> QED
      BY <3>1, <3>4, <3>5, <3>6, <3>7
  <2>2. CASE wpos[w] # 0
    <3>1. /\ UNCHANGED <<wpc, version, wval, mem, written>>
          /\ wpos' = [wpos EXCEPT ![w] = @ - 1] /\ wpc[w] = "lock"
      BY <1>2, <2>2 DEF LockNext
    <3> QED
      BY <3>1
  <2> QED
    BY <2>1, <2>2
<1>3. ASSUME NEW w \in Writers, CopyParam(w) PROVE BlockInv'
  <2>1. wpc[w] = "copy" /\ wval[w] = version /\ wpos[w] \in Word
    BY <1>3 DEF CopyParam, MutexInv
  <2>2. /\ mem' = [mem EXCEPT ![wpos[w]] = version]
        /\ UNCHANGED <<version, wval, written>>
    BY <1>3, <2>1 DEF CopyParam
  <2>3. \A v \in Writers : v # w => wpc[v] # "copy"
    BY <2>1, CopyExcludes
  <2>4. \A k \in 1 .. wpos[w] : mem'[k] = version
    BY <2>1, <2>2, WordAssumption DEF Word
  <2>5. CASE wpos[w] = Words
    <3>1. wpc' = [wpc EXCEPT ![w] = "unlock"]
      BY <1>3, <2>5 DEF CopyParam
    <3>2. \A k \in Word : mem'[k] = version
      BY <2>4, <2>5 DEF Word
    <3>3. \A v \in Writers : wpc'[v] # "copy"
      BY <2>3, <3>1
    <3>4. \A v \in Writers :
            wpc'[v] \in {"unlock", "stamp"} => wval'[v] <= version'
      BY <2>1, <2>2, <3>1
    <3> QED
      BY <2>2, <3>2, <3>3, <3>4
  <2>6. CASE wpos[w] # Words
    <3>1. wpc' = wpc /\ wpos' = [wpos EXCEPT ![w] = @ + 1]
      BY <1>3, <2>6 DEF CopyParam
    <3>2. wpos'[w] - 1 = wpos[w]
      BY <3>1
    <3> QED
      BY <2>1, <2>2, <2>3, <2>4, <3>1, <3>2
  <2> QED
    BY <2>5, <2>6
<1>4. ASSUME NEW w \in Writers, UnlockNext(w) PROVE BlockInv'
  <2>1. /\ wpc[w] = "unlock" /\ UNCHANGED <<mem, version, wval, written>>
        /\ wpc'[w] \in {"unlock", "stamp"}
        /\ \A v \in Writers : v # w => wpc'[v] = wpc[v] /\ wpos'[v] = wpos[v]
    BY <1>4 DEF UnlockNext
  <2> QED
    BY <2>1
<1>5. ASSUME NEW w \in Writers, StampWrite(w) PROVE BlockInv'
  <2>1. /\ wpc[w] = "stamp" /\ UNCHANGED <<mem, version>>
        /\ wpc' = [wpc EXCEPT ![w] = "idle"]
        /\ \A v \in Writers : v # w => wval'[v] = wval[v] /\ wpos'[v] = wpos[v]
        /\ written' = written \cup {[version |-> wval[w], time |-> now]}
    BY <1>5 DEF StampWrite
  <2> QED
    BY <2>1
<1>6. CASE \A w \in Writers : ~StartWrite(w) /\ ~FinishWrite(w)
  BY <1>6, WriterFrame DEF writerVars
<1> QED
  BY <1>1, <1>2, <1>3, <1>4, <1>5, <1>6 DEF FinishWrite

(* While a task steps, the parameters stand still. *)
LEMMA StepFreezesBlock ==
  ASSUME TypeOK, MutexInv, Next, NEW i \in Task, tpc[i] = "step"
  PROVE  UNCHANGED version
<1>1. ASSUME NEW w \in Writers, LockNext(w) PROVE UNCHANGED version
  BY <1>1, StartCopyExcludes DEF LockNext
<1>2. ASSUME NEW w \in Writers, \/ StartWrite(w) \/ CopyParam(w)
                                \/ UnlockNext(w) \/ StampWrite(w)
      PROVE  UNCHANGED version
  BY <1>2 DEF StartWrite, CopyParam, UnlockNext, StampWrite
<1> QED
  BY <1>1, <1>2, WriterFrame DEF FinishWrite, writerVars

(* Outside InCycle, and in its first place, nothing of a task's signals   *)
(* changes; StartTask and the steps between two cycles keep SignalInv.    *)
LEMMA SignalInvStep ==
  ASSUME TypeOK, MainInv, MutexInv, BlockInv, SignalInv, Next
  PROVE  SignalInv'
<1> USE DEF SignalInv, SignalInvOf, TypeOK, TaskTypes, InCycle
<1>1. ASSUME NEW i \in Task, TaskStep(i) PROVE SignalInv'
  <2>1. UNCHANGED version
    BY <1>1 DEF TaskStep, CheckRunning, WakeUp, Interrupted, TakeSignalLock,
         TakeParamLock, ComputeWord, FinishStep, Update, Leave, writerVars
  <2>2. CASE CheckRunning(i) \/ WakeUp(i) \/ Interrupted(i) \/ Leave(i)
    <3>1. /\ UNCHANGED <<spos, cycle, sig, published>>
          /\ tpc[i] \notin InCycle /\ tpc'[i] \notin InCycle
          /\ \A j \in Task : j # i => tpc'[j] = tpc[j]
      BY <2>2 DEF CheckRunning, WakeUp, Interrupted, Leave, Goto
    <3> QED
      BY <2>1, <3>1
  <2>3. CASE TakeSignalLock(i)
    <3>1. /\ UNCHANGED <<spos, sig, published>>
          /\ tpc[i] = "wrlock" /\ tpc' = [tpc EXCEPT ![i] = "plock"]
          /\ cycle' = [cycle EXCEPT ![i] = (@ + 1) % CycleRing]
      BY <2>3 DEF TakeSignalLock, Goto
    <3> QED
      BY <2>1, <3>1
  <2>4. CASE TakeParamLock(i)
    <3>1. /\ UNCHANGED <<cycle, sig, published>>
          /\ tpc[i] = "plock" /\ tpc' = [tpc EXCEPT ![i] = "step"]
          /\ spos' = [spos EXCEPT ![i] = 1]
      BY <2>4 DEF TakeParamLock, Goto
    <3> QED
      BY <2>1, <3>1
  <2>5. CASE ComputeWord(i)
    <3>1. /\ UNCHANGED <<tpc, cycle, published>> /\ tpc[i] = "step"
          /\ spos[i] \in Word
          /\ sig' = [sig EXCEPT ![i][spos[i]] =
                       [cycle |-> cycle[i], param |-> mem[spos[i]]]]
          /\ spos' = [spos EXCEPT ![i] = @ + 1]
      BY <2>5 DEF ComputeWord
    <3>2. mem[spos[i]] = version
      BY <3>1, CopyExcludes DEF BlockInv
    <3>3. /\ spos'[i] - 1 = spos[i]
          /\ \A k \in 1 .. spos[i] : k = spos[i] \/ k \in 1 .. spos[i] - 1
          /\ 1 .. spos[i] \subseteq Word
      BY <3>1, WordAssumption DEF Word
    <3>4. \A k \in 1 .. spos[i] :
            sig'[i][k] = [cycle |-> cycle[i], param |-> version]
      BY <3>1, <3>2, <3>3
    <3>5. \A j \in Task : j # i => sig'[j] = sig[j] /\ spos'[j] = spos[j]
      BY <3>1
    <3>6. \A k \in 1 .. spos'[i] - 1 :
            sig'[i][k] = [cycle |-> cycle'[i], param |-> version']
      BY <2>1, <3>1, <3>3, <3>4
    <3>7. ASSUME NEW j \in Task, j # i PROVE SignalInvOf(j)'
      BY <2>1, <3>1, <3>5, <3>7
    <3>8. SignalInvOf(i)'
      BY <3>1, <3>6
    <3> QED
      BY <3>7, <3>8
  <2>6. CASE FinishStep(i)
    <3>1. /\ UNCHANGED <<spos, cycle, sig, published>>
          /\ tpc[i] = "step" /\ tpc' = [tpc EXCEPT ![i] = "update"]
          /\ spos[i] - 1 = Words
      BY <2>6, WordAssumption DEF FinishStep, Goto
    <3>2. \A k \in Word : sig[i][k] = [cycle |-> cycle[i], param |-> version]
      BY <3>1 DEF Word
    <3>3. sig[i][Words].param = version
      BY <3>2, LastWord
    <3> QED
      BY <2>1, <3>1, <3>2, <3>3
  <2>7. CASE Update(i)
    <3>1. /\ UNCHANGED <<spos, cycle, sig>>
          /\ tpc[i] = "update" /\ tpc' = [tpc EXCEPT ![i] = "check"]
          /\ published' = [published EXCEPT ![i] = sig[i]]
      BY <2>7 DEF Update, Goto
    <3>2. \A k \in Word : sig[i][k] = sig[i][Words]
      BY <3>1, LastWord
    <3> QED
      BY <2>1, <3>1, <3>2
  <2> QED
    BY <1>1, <2>2, <2>3, <2>4, <2>5, <2>6, <2>7 DEF TaskStep
<1>2. CASE StartTask
  <2>1. UNCHANGED <<spos, cycle, sig, published, version>>
    BY <1>2 DEF StartTask, writerVars
  <2>2. CASE UNCHANGED tpc
    BY <2>1, <2>2
  <2>3. ASSUME NEW j \in Task, tpc[j] = "unborn",
               tpc' = [tpc EXCEPT ![j] = "check"]
        PROVE  SignalInv'
    BY <2>1, <2>3
  <2> QED
    BY <1>2, <2>2, <2>3, StartTaskEffect
<1>3. CASE ~StartTask /\ \A i \in Task : ~TaskStep(i)
  <2>1. UNCHANGED taskVars
    BY <1>3, TaskFrame
  <2> QED
    BY <2>1, StepFreezesBlock DEF taskVars
<1> QED
  BY <1>1, <1>2, <1>3

(* While a client holds the read lock of a task, its signals stand still. *)
LEMMA ReadFreezesSignals ==
  ASSUME TypeOK, RWLockInv, Next, NEW r \in Readers, rpc[r] = "copy"
  PROVE  /\ rtask[r] \in Task /\ tpc[rtask[r]] \notin InCycle
         /\ published'[rtask[r]] = published[rtask[r]]
<1>1. rtask[r] \in Task /\ tpc[rtask[r]] \notin InCycle
  BY DEF RWLockInv, TypeOK, ReaderTypes
<1>2. ASSUME NEW i \in Task, TaskStep(i)
      PROVE  published'[rtask[r]] = published[rtask[r]]
  <2>1. CASE Update(i)
    BY <1>1, <2>1 DEF Update, InCycle, TypeOK, TaskTypes
  <2>2. CASE ~Update(i)
    BY <1>2, <2>2 DEF TaskStep, CheckRunning, WakeUp, Interrupted,
         TakeSignalLock, TakeParamLock, ComputeWord, FinishStep, Leave
  <2> QED
    BY <2>1, <2>2
<1>3. CASE StartTask
  BY <1>1, <1>3 DEF StartTask
<1> QED
  BY <1>1, <1>2, <1>3, TaskFrame DEF taskVars

LEMMA ReadInvStep ==
  ASSUME TypeOK, RWLockInv, SignalInv, ReadInv, Next
  PROVE  ReadInv'
<1> USE DEF ReadInv, TypeOK, ReaderTypes
<1>1. ASSUME NEW r \in Readers, TakeReadLock(r) PROVE ReadInv'
  <2>1. /\ UNCHANGED <<rpos, rtask, buf, got, published>> /\ rpc[r] = "lock"
        /\ rpc' = [rpc EXCEPT ![r] = "copy"]
    BY <1>1 DEF TakeReadLock, taskVars
  <2> QED
    BY <2>1
<1>2. ASSUME NEW r \in Readers, CopySignal(r) PROVE ReadInv'
  <2>1. /\ UNCHANGED <<rpc, rtask, got, sig, published>> /\ rpc[r] = "copy"
        /\ buf' = [buf EXCEPT ![r][rpos[r]] = sig[rtask[r]][rpos[r]]]
        /\ rpos' = [rpos EXCEPT ![r] = @ + 1] /\ rpos[r] \in Word
    BY <1>2 DEF CopySignal, taskVars
  <2>2. sig[rtask[r]] = published[rtask[r]]
    BY <2>1, ReadFreezesSignals DEF SignalInv, SignalInvOf, InCycle
  <2>3. /\ rpos'[r] - 1 = rpos[r]
        /\ \A k \in 1 .. rpos[r] : k = rpos[r] \/ k \in 1 .. rpos[r] - 1
        /\ 1 .. rpos[r] \subseteq Word
    BY <2>1, WordAssumption DEF Word
  <2>4. \A k \in 1 .. rpos'[r] - 1 : buf'[r][k] = published'[rtask'[r]][k]
    BY <2>1, <2>2, <2>3
  <2>5. \A q \in Readers : q # r => buf'[q] = buf[q] /\ rpos'[q] = rpos[q]
    BY <2>1
  <2> QED
    BY <2>1, <2>4, <2>5
<1>3. ASSUME NEW r \in Readers, FinishRead(r) PROVE ReadInv'
  <2> DEFINE i == rtask[r]
  <2>1. /\ UNCHANGED <<rtask, published>> /\ rpc[r] = "copy"
        /\ rpos[r] - 1 = Words
        /\ rpc' = [rpc EXCEPT ![r] = "idle"]
        /\ rpos' = [rpos EXCEPT ![r] = 1]
        /\ \A q \in Readers : q # r => buf'[q] = buf[q] /\ got'[q] = got[q]
    BY <1>3, WordAssumption DEF FinishRead, taskVars
  <2>2. got'[r] = [words |-> buf[r], cycle |-> cycle[i], time |-> worldTime[i]]
    BY <1>3 DEF FinishRead
  <2>3. \A k \in Word : buf[r][k] = published[i][k]
    BY <2>1 DEF Word
  <2>4. \A k \in Word : /\ buf[r][k].cycle = cycle[i]
                        /\ buf[r][k] = buf[r][Words]
    <3>1. i \in Task /\ tpc[i] \notin InCycle
      BY <2>1, ReadFreezesSignals
    <3>2. \A k \in Word : /\ published[i][k].cycle = cycle[i]
                          /\ published[i][k] = published[i][Words]
      BY <3>1 DEF SignalInv, SignalInvOf
    <3> QED
      BY <2>3, <3>2, LastWord
  <2>5. \A k \in Word : /\ got'[r].words[k].cycle = got'[r].cycle
                        /\ got'[r].words[k].param = got'[r].words[Words].param
    BY <2>2, <2>4
  <2> QED
    BY <2>1, <2>5
<1>4. ASSUME NEW r \in Readers, NEW i \in Task, StartRead(r, i)
      PROVE  ReadInv'
  <2>1. /\ UNCHANGED <<rpos, buf, got, published>> /\ rpc[r] = "idle"
        /\ rpc' = [rpc EXCEPT ![r] = "lock"]
        /\ \A q \in Readers : q # r => rtask'[q] = rtask[q]
    BY <1>4 DEF StartRead, taskVars
  <2> QED
    BY <2>1
<1>5. CASE \A r \in Readers : ~EndRead(r) /\ \A i \in Task : ~StartRead(r, i)
  <2>1. UNCHANGED readerVars
    BY <1>5, ReaderFrame
  <2>2. \A r \in Readers :
          rpc[r] = "copy" => published'[rtask[r]] = published[rtask[r]]
    BY ReadFreezesSignals
  <2> QED
    BY <2>1, <2>2 DEF readerVars
<1> QED
  BY <1>1, <1>2, <1>3, <1>4, <1>5 DEF EndRead

(* The clock moves forward, and a task reads it when it begins a cycle. *)
LEMMA ClockFrame ==
  ASSUME TypeOK, Next
  PROVE  /\ now \in Nat /\ now' \in Nat /\ now <= now'
         /\ \A i \in Task : worldTime'[i] \in {worldTime[i], now}
<1> USE DEF TypeOK, MainTypes, TaskTypes
<1>1. ASSUME NEW i \in Task, TaskStep(i)
      PROVE  now' = now /\ \A j \in Task : worldTime'[j] \in {worldTime[j], now}
  BY <1>1 DEF TaskStep, CheckRunning, WakeUp, Interrupted, TakeSignalLock,
              TakeParamLock, ComputeWord, FinishStep, Update, Leave
<1>2. ASSUME NEW w \in Writers, StartWrite(w) \/ FinishWrite(w)
      PROVE  now' = now /\ worldTime' = worldTime
  BY <1>2 DEF FinishWrite, StartWrite, LockNext, CopyParam, UnlockNext,
              StampWrite, taskVars
<1>3. ASSUME NEW r \in Readers, EndRead(r) \/ \E i \in Task : StartRead(r, i)
      PROVE  now' = now /\ worldTime' = worldTime
  BY <1>3 DEF EndRead, StartRead, TakeReadLock, CopySignal, FinishRead, taskVars
<1>4. CASE MainStep
  BY <1>4 DEF MainStep, StartTask, JoinTask, StopServing, PdservExit,
              Terminate, taskVars
<1>5. CASE Tick \/ Stopped
  BY <1>5 DEF Tick, Stopped, vars, taskVars
<1> QED
  BY <1>1, <1>2, <1>3, <1>4, <1>5 DEF Next

(* The list of reported writes grows by writes reported now. *)
LEMMA ReportFrame ==
  ASSUME TypeOK, BlockInv, Next
  PROVE  \A wr \in written' :
           wr \in written \/ (wr.time = now /\ wr.version <= version)
<1>1. ASSUME NEW w \in Writers, StampWrite(w)
      PROVE  written' = written \cup {[version |-> wval[w], time |-> now]}
             /\ wval[w] <= version
  BY <1>1 DEF StampWrite, BlockInv
<1>2. ASSUME NEW w \in Writers, \/ StartWrite(w) \/ LockNext(w)
                                \/ CopyParam(w) \/ UnlockNext(w)
      PROVE  written' = written
  BY <1>2 DEF StartWrite, LockNext, CopyParam, UnlockNext
<1> QED
  BY <1>1, <1>2, WriterFrame DEF FinishWrite, writerVars

LEMMA TimeInvStep ==
  ASSUME TypeOK, BlockInv, TimeInv, Next PROVE TimeInv'
<1>1. \A i \in Task : worldTime'[i] <= now'
  <2> SUFFICES ASSUME NEW i \in Task PROVE worldTime'[i] <= now'
    OBVIOUS
  <2>1. worldTime[i] \in Nat /\ worldTime[i] <= now
    BY DEF TimeInv, TypeOK, TaskTypes
  <2> QED
    BY <2>1, ClockFrame
<1>2. \A wr \in written' : wr.time <= now'
  <2> SUFFICES ASSUME NEW wr \in written' PROVE wr.time <= now'
    OBVIOUS
  <2>1. wr \in written => wr.time \in Nat /\ wr.time <= now
    BY DEF TimeInv, TypeOK, WriterTypes
  <2> QED
    BY <2>1, ClockFrame, ReportFrame
<1> QED
  BY <1>1, <1>2 DEF TimeInv

LEMMA LateInvStep ==
  ASSUME TypeOK, MainInv, LateInv, Next PROVE LateInv'
<1> USE DEF LateInv, TypeOK, TaskTypes, MainTypes
<1>1. ASSUME NEW i \in Task, TaskStep(i) PROVE LateInv'
  <2> USE DEF Goto
  <2>1. CASE CheckRunning(i)
    BY <2>1 DEF CheckRunning
  <2>2. CASE WakeUp(i)
    BY <2>2 DEF WakeUp
  <2>3. CASE Leave(i)
    BY <2>3 DEF Leave
  <2>4. CASE \/ Interrupted(i) \/ TakeSignalLock(i) \/ TakeParamLock(i)
             \/ ComputeWord(i) \/ FinishStep(i) \/ Update(i)
    BY <2>4 DEF Interrupted, TakeSignalLock, TakeParamLock, ComputeWord,
                FinishStep, Update
  <2> QED
    BY <1>1, <2>1, <2>2, <2>3, <2>4 DEF TaskStep
<1>2. CASE StartTask
  BY <1>2, StartTaskEffect DEF StartTask
<1>3. CASE ~StartTask /\ \A i \in Task : ~TaskStep(i)
  BY <1>3, TaskFrame DEF taskVars
<1> QED
  BY <1>1, <1>2, <1>3

(* The order of a report and a cycle stamp decides which block is used.   *)
LEMMA ReportedStep ==
  ASSUME TypeOK, MainInv, MutexInv, BlockInv, SignalInv, TimeInv,
         ReportedWritesAreUsed, Next
  PROVE  ReportedWritesAreUsed'
<1> USE DEF TypeOK, TaskTypes
<1> SUFFICES ASSUME NEW i \in Task, NEW wr \in written',
                    wr.time < worldTime'[i], NEW k \in Computed(i)'
             PROVE  sig'[i][k].param >= wr.version
  BY DEF ReportedWritesAreUsed
<1>1. wr \in written /\ wr.time \in Nat /\ wr.version \in Nat
  <2>1. worldTime[i] \in Nat /\ worldTime[i] <= now
    BY DEF TimeInv
  <2>2. worldTime'[i] \in Nat /\ worldTime'[i] <= now /\ now \in Nat
    BY <2>1, ClockFrame
  <2>3. wr.time # now
    BY <2>2
  <2> QED
    BY <2>3, ReportFrame DEF WriterTypes
<1>2. wr.version <= version
  BY <1>1 DEF BlockInv
<1>3. ASSUME worldTime'[i] = worldTime[i], k \in Computed(i),
             sig'[i][k] = sig[i][k]
      PROVE  sig'[i][k].param >= wr.version
  BY <1>1, <1>3 DEF ReportedWritesAreUsed
<1>4. CASE TaskStep(i)
  <2>1. CASE ComputeWord(i)
    <3>1. /\ tpc[i] = "step" /\ tpc' = tpc /\ spos[i] \in Word
          /\ worldTime' = worldTime
          /\ sig' = [sig EXCEPT ![i][spos[i]] =
                       [cycle |-> cycle[i], param |-> mem[spos[i]]]]
          /\ spos' = [spos EXCEPT ![i] = @ + 1]
      BY <2>1 DEF ComputeWord
    <3>2. k \in Word /\ k <= spos[i] /\ spos[i] \in Nat
      BY <3>1, WordAssumption DEF Computed, Word
    <3>3. CASE k = spos[i]
      <4>1. mem[k] = version
        BY <3>1, <3>3, CopyExcludes DEF BlockInv
      <4>2. sig'[i][k].param = mem[k]
        BY <3>1, <3>3
      <4> QED
        BY <1>1, <1>2, <4>1, <4>2 DEF WriterTypes
    <3>4. CASE k # spos[i]
      <4>1. k \in Computed(i)
        BY <3>1, <3>2, <3>4 DEF Computed, Word
      <4>2. sig'[i][k] = sig[i][k]
        BY <3>1, <3>4
      <4> QED
        BY <1>3, <3>1, <4>1, <4>2
    <3> QED
      BY <3>3, <3>4
  <2>2. CASE FinishStep(i)
    <3>1. /\ tpc[i] = "step" /\ tpc'[i] = "update" /\ spos[i] = Words + 1
          /\ UNCHANGED <<worldTime, sig>>
      BY <2>2 DEF FinishStep, Goto
    <3>2. k \in Computed(i)
      BY <3>1, WordAssumption DEF Computed, Word
    <3> QED
      BY <1>3, <3>1, <3>2
  <2>3. CASE TakeParamLock(i)
    <3>1. tpc'[i] = "step" /\ spos'[i] = 1
      BY <2>3 DEF TakeParamLock, Goto
    <3> QED
      BY <3>1 DEF Computed, Word
  <2>4. CASE \/ CheckRunning(i) \/ WakeUp(i) \/ Interrupted(i)
             \/ TakeSignalLock(i) \/ Update(i) \/ Leave(i)
    <3>1. tpc'[i] \notin {"step", "update"}
      BY <2>4 DEF CheckRunning, WakeUp, Interrupted, TakeSignalLock, Update,
                  Leave, Goto
    <3> QED
      BY <3>1 DEF Computed
  <2> QED
    BY <1>4, <2>1, <2>2, <2>3, <2>4 DEF TaskStep
<1>5. ASSUME NEW j \in Task, j # i, TaskStep(j)
      PROVE  sig'[i][k].param >= wr.version
  <2>1. /\ tpc'[i] = tpc[i] /\ spos'[i] = spos[i] /\ sig'[i] = sig[i]
        /\ worldTime'[i] = worldTime[i]
    BY <1>5 DEF TaskStep, CheckRunning, WakeUp, Interrupted, TakeSignalLock,
                TakeParamLock, ComputeWord, FinishStep, Update, Leave, Goto
  <2> QED
    BY <1>3, <2>1 DEF Computed
<1>6. CASE StartTask
  <2>1. UNCHANGED <<spos, sig, worldTime>>
    BY <1>6 DEF StartTask
  <2>2. tpc'[i] = tpc[i] \/ tpc'[i] = "check"
    BY <1>6, StartTaskEffect
  <2> QED
    BY <1>3, <2>1, <2>2 DEF Computed
<1>7. CASE ~StartTask /\ \A j \in Task : ~TaskStep(j)
  BY <1>3, <1>7, TaskFrame DEF taskVars, Computed
<1> QED
  BY <1>4, <1>5, <1>6, <1>7

-----------------------------------------------------------------------------
(* The inductive invariant, and what follows from it *)

IInv ==
  /\ TypeOK /\ MainInv /\ MutexInv /\ RWLockInv
  /\ BlockInv /\ SignalInv /\ ReadInv /\ TimeInv /\ LateInv
  /\ ReportedWritesAreUsed

LEMMA InitIInv == Init => IInv
<1> SUFFICES ASSUME Init PROVE IInv
  OBVIOUS
<1> USE DEF Init, NoSignal
<1>1. TypeOK
  BY InitTypes
<1>2. MainInv
  BY DEF MainInv
<1>3. MutexInv
  BY ClientAssumption DEF MutexInv
<1>4. RWLockInv
  BY DEF RWLockInv, InCycle
<1>5. BlockInv
  BY DEF BlockInv
<1>6. SignalInv
  BY LastWord DEF SignalInv, SignalInvOf, InCycle
<1>7. ReadInv
  BY LastWord DEF ReadInv
<1>8. TimeInv /\ LateInv
  BY DEF TimeInv, LateInv
<1>9. ReportedWritesAreUsed
  BY DEF ReportedWritesAreUsed
<1> QED
  BY <1>1, <1>2, <1>3, <1>4, <1>5, <1>6, <1>7, <1>8, <1>9 DEF IInv

LEMMA NextIInv == IInv /\ [Next]_vars => IInv'
<1>1. IInv /\ Next => IInv'
  <2> SUFFICES ASSUME IInv, Next PROVE IInv'
    OBVIOUS
  <2>1. TypeOK'
    BY TypesStep DEF IInv
  <2> QED
    BY <2>1, MainInvStep, MutexInvStep, RWLockInvStep, BlockInvStep,
       SignalInvStep, ReadInvStep, TimeInvStep, LateInvStep, ReportedStep
       DEF IInv
<1>2. IInv /\ UNCHANGED vars => IInv'
  BY DEF IInv, TypeOK, TaskTypes, WriterTypes, ReaderTypes, LockTypes,
         MainTypes, MainInv, MutexInv, RWLockInv, BlockInv, SignalInv,
         SignalInvOf, ReadInv, TimeInv, LateInv, ReportedWritesAreUsed,
         Computed, vars, taskVars, writerVars, readerVars, lockVars, mainVars
<1> QED
  BY <1>1, <1>2

LEMMA Invariance == Spec => []IInv
  BY InitIInv, NextIInv, PTL DEF Spec

(* While a task computes, its words come from the block written last.     *)
LEMMA ComputedParam ==
  ASSUME TypeOK, SignalInv, NEW i \in Task, tpc[i] = "step",
         NEW k \in Computed(i)
  PROVE  sig[i][k].param = version
<1>1. k \in 1 .. spos[i] - 1
  BY DEF TypeOK, TaskTypes, Computed, Word
<1>2. sig[i][k] = [cycle |-> cycle[i], param |-> version]
  BY <1>1 DEF SignalInv, SignalInvOf
<1> QED
  BY <1>2

(* A step of a task uses the words of one parameter block only, whatever  *)
(* clients write meanwhile: write_parameter and run_task share param_lock.*)
THEOREM OneBlock == Spec => []StepUsesOneBlock
<1>1. IInv => StepUsesOneBlock
  <2> SUFFICES ASSUME IInv, NEW i \in Task,
                      NEW j \in Computed(i), NEW k \in Computed(i)
               PROVE  sig[i][j].param = sig[i][k].param
    BY DEF StepUsesOneBlock
  <2>1. CASE tpc[i] = "step"
    BY <2>1, ComputedParam DEF IInv
  <2>2. CASE tpc[i] = "update"
    BY <2>2 DEF IInv, SignalInv, SignalInvOf, Computed
  <2> QED
    BY <2>1, <2>2 DEF Computed
<1> QED
  BY <1>1, Invariance, PTL

(* All tasks that compute at the same time use the same parameter block,  *)
(* because write_parameter_lock takes the mutexes of all tasks.           *)
THEOREM TasksAgree == Spec => []ConcurrentStepsAgree
<1>1. IInv => ConcurrentStepsAgree
  BY ComputedParam DEF IInv, ConcurrentStepsAgree
<1> QED
  BY <1>1, Invariance, PTL

(* A cycle with a later time stamp than a reported write uses it.         *)
THEOREM ReportsHold == Spec => []ReportedWritesAreUsed
<1>1. IInv => ReportedWritesAreUsed
  BY DEF IInv
<1> QED
  BY <1>1, Invariance, PTL

(* read_signal returns the values and the time of one cycle.              *)
THEOREM ReadsWhole == Spec => []ReadsAreOneCycle
<1>1. IInv => ReadsAreOneCycle
  <2> SUFFICES ASSUME IInv, NEW r \in Readers, NEW k \in Word
               PROVE  /\ got[r].words[k].cycle = got[r].cycle
                      /\ got[r].words[k].param = got[r].words[1].param
    BY DEF ReadsAreOneCycle
  <2>1. 1 \in Word
    BY WordAssumption DEF Word
  <2> QED
    BY <2>1 DEF IInv, ReadInv
<1> QED
  BY <1>1, Invariance, PTL

(* pdserv_update always takes over the signals of one cycle.              *)
THEOREM PublishedWhole == Spec => []PublishedIsOneCycle
<1>1. IInv => PublishedIsOneCycle
  <2> SUFFICES ASSUME IInv, NEW i \in Task, NEW j \in Word, NEW k \in Word
               PROVE  published[i][j] = published[i][k]
    BY DEF PublishedIsOneCycle
  <2>1. /\ published[i][j] = published[i][Words]
        /\ published[i][k] = published[i][Words]
    BY DEF IInv, SignalInv, SignalInvOf
  <2> QED
    BY <2>1
<1> QED
  BY <1>1, Invariance, PTL

(* After the flag is cleared a task makes one more step at most.          *)
THEOREM OneLateStep == Spec => []AtMostOneLateStep
<1>1. IInv => AtMostOneLateStep
  BY DEF IInv, LateInv, AtMostOneLateStep
<1> QED
  BY <1>1, Invariance, PTL

(* MdlTerminate finds no task, no call and no lock.                       *)
THEOREM TerminatesAlone == Spec => []TerminateAlone
<1>1. IInv => TerminateAlone
  <2> SUFFICES ASSUME IInv, mpc \in {"terminate", "exited"}
               PROVE  /\ \A i \in Task : tpc[i] \in {"unborn", "done"}
                      /\ \A w \in Writers : wpc[w] = "idle"
                      /\ \A r \in Readers : rpc[r] = "idle"
                      /\ \A i \in Task :
                           /\ param_lock[i] = "free"
                           /\ signal_lock[i] = [writer |-> FALSE, readers |-> {}]
    BY DEF TerminateAlone, InCall
  <2>1. /\ \A i \in Task : tpc[i] \in {"unborn", "done"}
        /\ \A w \in Writers : wpc[w] = "idle"
        /\ \A r \in Readers : rpc[r] = "idle"
    BY DEF IInv, MainInv
  <2>2. ASSUME NEW i \in Task PROVE param_lock[i] = "free"
    BY <2>1 DEF IInv, MutexInv, TypeOK, LockTypes, Owner
  <2>3. ASSUME NEW i \in Task
        PROVE  signal_lock[i] = [writer |-> FALSE, readers |-> {}]
    <3>1. signal_lock[i] \in [writer : BOOLEAN, readers : SUBSET Readers]
      BY DEF IInv, TypeOK, LockTypes
    <3>2. ~signal_lock[i].writer
      BY <2>1 DEF IInv, RWLockInv, InCycle
    <3>3. signal_lock[i].readers = {}
      BY <2>1, <3>1 DEF IInv, RWLockInv
    <3> QED
      BY <3>1, <3>2, <3>3
  <2> QED
    BY <2>1, <2>2, <2>3
<1> QED
  BY <1>1, Invariance, PTL

(* Signals that leave the program are those of one cycle.                 *)
THEOREM SignalsWhole == Spec => []SignalsAreOneCycle
BY ReadsWhole, PublishedWhole, PTL DEF SignalsAreOneCycle

(* The program stops in order.                                            *)
THEOREM StopsWell == Spec => []StopsInOrder
BY OneLateStep, TerminatesAlone, PTL DEF StopsInOrder

(* No mixture of parameter blocks, in a step or among steps. *)
THEOREM BlocksWhole == Spec => []StepsUseOneBlock
BY OneBlock, TasksAgree, PTL DEF StepsUseOneBlock

(* No circle of clients that wait for each other's mutexes, however many   *)
(* tasks and clients there are.                                            *)
THEOREM NoCircle == Spec => []WaitsDescend
<1>1. IInv => WaitsDescend
  <2> SUFFICES ASSUME IInv, NEW w \in Writers, wpc[w] = "lock"
               PROVE  /\ \A v \in Writers :
                           param_lock[wpos[w]] = v /\ wpc[v] = "lock"
                             => wpos[v] < wpos[w]
                      /\ param_lock[wpos[w]] = "task" => tpc[wpos[w]] = "step"
    BY DEF WaitsDescend
  <2>1. wpos[w] \in Task
    BY DEF IInv, MutexInv
  <2>2. ASSUME NEW v \in Writers, param_lock[wpos[w]] = v, wpc[v] = "lock"
        PROVE  wpos[v] < wpos[w]
    BY <2>1, <2>2 DEF IInv, MutexInv
  <2>3. param_lock[wpos[w]] = "task" => tpc[wpos[w]] = "step"
    BY <2>1 DEF IInv, MutexInv
  <2> QED
    BY <2>2, <2>3
<1> QED
  BY <1>1, Invariance, PTL

-----------------------------------------------------------------------------
(* HrtTasks implements AtomicCycles: with its locks, the interleaved and   *)
(* word by word tasks and clients behave as if parameter blocks were       *)
(* replaced, cycles computed and signals read in one piece.                *)
(*                                                                         *)
(* A block is in force with its last word, a task has computed with its    *)
(* last word, and a client has read when its call ends. Every other step   *)
(* stutters.                                                               *)

(* The values of the abstract variables. *)
Input    == [i \in Task |-> sig[i][Words].param]
Finished(i) == tpc[i] = "update" \/ (tpc[i] = "step" /\ spos[i] = Words + 1)
Done     == [i \in Task |-> Finished(i)]
Taken    == [r \in Readers |-> got[r].words]

AbstractVars == <<mem[Words], Input, Done, published, Taken>>

LEMMA Stutter ==
  ASSUME UNCHANGED AbstractVars PROVE UNCHANGED Abstract!vars
  BY DEF Abstract!vars, AbstractVars, Input, Done, Finished, Taken

LEMMA InitRefines == Init => Abstract!Init
  BY LastWord, WordAssumption
  DEF Init, NoSignal, Abstract!Init, Abstract!Constantly

(* What the abstract variables depend on. *)
LEMMA Unseen ==
  ASSUME UNCHANGED <<tpc, spos, sig, published, mem, got>>
  PROVE  UNCHANGED AbstractVars
  BY DEF AbstractVars, Input, Done, Finished, Taken

(* A step of task i leaves the abstract view of the others alone.          *)
LEMMA OtherTasks ==
  ASSUME TypeOK, NEW i \in Task, TaskStep(i), NEW j \in Task, j # i
  PROVE  sig'[j] = sig[j] /\ (Finished(j))' = Finished(j)
<1>1. sig'[j] = sig[j] /\ tpc'[j] = tpc[j] /\ spos'[j] = spos[j]
  BY DEF TypeOK, TaskTypes, TaskStep, CheckRunning, WakeUp, Interrupted,
         TakeSignalLock, TakeParamLock, ComputeWord, FinishStep, Update,
         Leave, Goto
<1> QED
  BY <1>1 DEF Finished

(* A task step that does not change its own abstract view stutters.        *)
LEMMA TaskStutters ==
  ASSUME TypeOK, NEW i \in Task, TaskStep(i),
         sig'[i][Words].param = sig[i][Words].param,
         (Finished(i))' <=> Finished(i), UNCHANGED published
  PROVE  UNCHANGED AbstractVars
<1>1. UNCHANGED <<mem, got>>
  BY DEF TaskStep, CheckRunning, WakeUp, Interrupted, TakeSignalLock,
         TakeParamLock, ComputeWord, FinishStep, Update, Leave, writerVars,
         readerVars
<1>2. Input' = Input
  BY OtherTasks DEF Input
<1>3. Done' = Done
  BY OtherTasks DEF Done, Finished
<1> QED
  BY <1>1, <1>2, <1>3 DEF AbstractVars, Taken

(* The last word of a step completes the computation.                      *)
LEMMA ComputeRefines ==
  ASSUME IInv, NEW i \in Task, ComputeWord(i), spos[i] = Words
  PROVE  Abstract!Compute(i)
<1> USE DEF IInv, TypeOK, TaskTypes
<1>1. /\ tpc[i] = "step" /\ UNCHANGED <<tpc, published, mem, got>>
      /\ sig' = [sig EXCEPT ![i][Words] =
                   [cycle |-> cycle[i], param |-> mem[Words]]]
      /\ spos' = [spos EXCEPT ![i] = Words + 1]
  BY DEF ComputeWord, writerVars, readerVars
<1>2. ~Finished(i) /\ (Finished(i))'
  BY <1>1, WordAssumption DEF Finished
<1>3. sig'[i][Words].param = mem[Words]
  BY <1>1, LastWord
<1>4. Input' = [Input EXCEPT ![i] = mem[Words]]
  <2>1. \A j \in Task : j # i => sig'[j] = sig[j]
    BY <1>1
  <2> QED
    BY <1>3, <2>1 DEF Input
<1>5. Done' = [Done EXCEPT ![i] = TRUE]
  <2>1. \A j \in Task : j # i => (Finished(j))' = Finished(j)
    BY OtherTasks DEF TaskStep
  <2> QED
    BY <1>2, <2>1 DEF Done
<1>6. Taken' = Taken
  BY <1>1 DEF Taken
<1>7. ~Done[i]
  BY <1>2 DEF Done
<1> QED
  BY <1>1, <1>4, <1>5, <1>6, <1>7
  DEF Abstract!Compute, Input, Done, Finished, Taken

(* The end of a cycle publishes what was computed, with the next number.   *)
LEMMA UpdateRefines ==
  ASSUME IInv, NEW i \in Task, Update(i)
  PROVE  Abstract!Publish(i)
<1> USE DEF IInv, TypeOK, TaskTypes
<1>1. /\ tpc[i] = "update" /\ UNCHANGED <<sig, spos, mem, got>>
      /\ published' = [published EXCEPT ![i] = sig[i]]
      /\ tpc' = [tpc EXCEPT ![i] = "check"]
  BY DEF Update, Goto, writerVars, readerVars
<1>2. Done' = [Done EXCEPT ![i] = FALSE] /\ Done[i]
  BY <1>1 DEF Done, Finished
<1>3. Input' = Input /\ Taken' = Taken
  BY <1>1 DEF Input, Taken
<1>4. sig[i] = [k \in Word |-> [cycle |-> cycle[i], param |-> Input[i]]]
  BY <1>1 DEF SignalInv, SignalInvOf, Input
<1>5. \A k \in Word : cycle[i] = (published[i][k].cycle + 1) % CycleRing
  BY <1>1 DEF SignalInv, SignalInvOf, InCycle
<1>6. cycle[i] \in 0 .. CycleRing - 1
  <2>1. published[i][Words].cycle \in Nat
    BY LastWord DEF SignalWord
  <2> QED
    BY <1>5, <2>1, LastWord, BoundAssumption
<1>7. Abstract!NextCycle(i, cycle[i])
  BY <1>5 DEF Abstract!NextCycle
<1>8. published' = [published EXCEPT ![i] =
                      Abstract!Constantly([cycle |-> cycle[i],
                                           param |-> Input[i]])]
  BY <1>1, <1>4 DEF Abstract!Constantly
<1> QED
  BY <1>1, <1>2, <1>3, <1>6, <1>7, <1>8
  DEF Abstract!Publish, Input, Done, Finished, Taken

LEMMA TaskRefines ==
  ASSUME IInv, NEW i \in Task, TaskStep(i)
  PROVE  Abstract!Next \/ UNCHANGED AbstractVars
<1> USE DEF IInv, TypeOK, TaskTypes
<1>1. CASE ComputeWord(i)
  <2>1. CASE spos[i] = Words
    BY <1>1, <2>1, ComputeRefines DEF Abstract!Next
  <2>2. CASE spos[i] # Words
    <3>1. /\ tpc' = tpc /\ published' = published /\ spos[i] \in Word
          /\ sig' = [sig EXCEPT ![i][spos[i]] =
                       [cycle |-> cycle[i], param |-> mem[spos[i]]]]
          /\ spos' = [spos EXCEPT ![i] = @ + 1]
      BY <1>1 DEF ComputeWord
    <3>2. sig'[i][Words] = sig[i][Words]
      BY <2>2, <3>1, LastWord
    <3>3. (Finished(i))' = Finished(i)
      BY <2>2, <3>1, WordAssumption DEF Finished, Word
    <3> QED
      BY <3>1, <3>2, <3>3, TaskStutters
  <2> QED
    BY <2>1, <2>2
<1>2. CASE Update(i)
  BY <1>2, UpdateRefines DEF Abstract!Next
<1>3. CASE TakeParamLock(i)
  <2>1. /\ tpc[i] = "plock" /\ tpc'[i] = "step" /\ spos'[i] = 1
        /\ UNCHANGED <<sig, published>>
    BY <1>3 DEF TakeParamLock, Goto
  <2>2. ~Finished(i)
    BY <2>1 DEF Finished
  <2>3. ~(Finished(i))'
    BY <2>1, WordAssumption DEF Finished
  <2> QED
    BY <2>1, <2>2, <2>3, TaskStutters
<1>4. CASE FinishStep(i)
  <2>1. /\ tpc[i] = "step" /\ tpc'[i] = "update" /\ spos[i] = Words + 1
        /\ UNCHANGED <<sig, published>>
    BY <1>4 DEF FinishStep, Goto
  <2>2. (Finished(i))' = Finished(i)
    BY <2>1 DEF Finished
  <2> QED
    BY <2>1, <2>2, TaskStutters
<1>5. CASE \/ CheckRunning(i) \/ WakeUp(i) \/ Interrupted(i)
           \/ TakeSignalLock(i) \/ Leave(i)
  <2>1. /\ tpc[i] \notin {"step", "update"} /\ tpc'[i] \notin {"step", "update"}
        /\ UNCHANGED <<sig, published>>
    BY <1>5 DEF CheckRunning, WakeUp, Interrupted, TakeSignalLock, Leave, Goto
  <2>2. (Finished(i))' = Finished(i)
    BY <2>1 DEF Finished
  <2> QED
    BY <2>1, <2>2, TaskStutters
<1> QED
  BY <1>1, <1>2, <1>3, <1>4, <1>5 DEF TaskStep

(* The last copied word puts a block into force.                           *)
LEMMA CopyRefines ==
  ASSUME IInv, NEW w \in Writers, CopyParam(w)
  PROVE  Abstract!Next \/ UNCHANGED AbstractVars
<1>1. /\ UNCHANGED <<tpc, spos, sig, published, got>>
      /\ mem' = [mem EXCEPT ![wpos[w]] = wval[w]]
  BY DEF CopyParam, taskVars, readerVars
<1>2. mem'[Words] \in Nat
  BY <1>1, LastWord DEF IInv, TypeOK, WriterTypes
<1>3. UNCHANGED <<Input, Done, published, Taken>>
  BY <1>1 DEF Input, Done, Finished, Taken
<1>4. Abstract!Replace
  BY <1>2, <1>3 DEF Abstract!Replace, Input, Done, Finished, Taken
<1> QED
  BY <1>4 DEF Abstract!Next

LEMMA WriterRefines ==
  ASSUME IInv, NEW w \in Writers, StartWrite(w) \/ FinishWrite(w)
  PROVE  Abstract!Next \/ UNCHANGED AbstractVars
<1>1. CASE StartWrite(w) \/ LockNext(w) \/ UnlockNext(w) \/ StampWrite(w)
  <2>1. UNCHANGED <<tpc, spos, sig, published, mem, got>>
    BY <1>1 DEF StartWrite, LockNext, UnlockNext, StampWrite, taskVars,
                readerVars
  <2> QED
    BY <2>1, Unseen
<1> QED
  BY <1>1, CopyRefines DEF FinishWrite

(* The end of read_signal delivers what the task published last.           *)
LEMMA FinishReadRefines ==
  ASSUME IInv, NEW r \in Readers, FinishRead(r), NEW i \in Task, i = rtask[r]
  PROVE  Abstract!Poll(r, i)
<1> USE DEF IInv, TypeOK, TaskTypes, ReaderTypes
<1>1. /\ UNCHANGED <<tpc, spos, sig, published, mem>>
      /\ rpc[r] = "copy" /\ rpos[r] - 1 = Words
  BY WordAssumption DEF FinishRead, taskVars, writerVars
<1>2. buf[r] = published[i]
  <2>1. \A k \in Word : buf[r][k] = published[i][k]
    BY <1>1 DEF ReadInv, Word
  <2> QED
    BY <1>1, <2>1
<1>3. Taken' = [Taken EXCEPT ![r] = published[i]]
  <2>1. got'[r].words = buf[r] /\ \A q \in Readers : q # r => got'[q] = got[q]
    BY DEF FinishRead, Snapshot
  <2> QED
    BY <1>2, <2>1 DEF Taken
<1>4. UNCHANGED <<mem[Words], Input, Done, published>>
  BY <1>1 DEF Input, Done, Finished
<1>5. Abstract!Poll(r, i)
  BY <1>3, <1>4 DEF Abstract!Poll, Input, Done, Finished, Taken
<1> QED
  BY <1>1, <1>5

LEMMA ReaderRefines ==
  ASSUME IInv, NEW r \in Readers,
         EndRead(r) \/ \E i \in Task : StartRead(r, i)
  PROVE  Abstract!Next \/ UNCHANGED AbstractVars
<1>1. CASE \/ TakeReadLock(r) \/ CopySignal(r)
           \/ \E i \in Task : StartRead(r, i)
  <2>1. UNCHANGED <<tpc, spos, sig, published, mem, got>>
    BY <1>1 DEF TakeReadLock, CopySignal, StartRead, taskVars, writerVars
  <2> QED
    BY <2>1, Unseen
<1>2. CASE FinishRead(r)
  <2>1. PICK i \in Task : i = rtask[r]
    BY DEF IInv, TypeOK, ReaderTypes
  <2>2. Abstract!Poll(r, i)
    BY <1>2, <2>1, FinishReadRefines
  <2> QED
    BY <2>2 DEF Abstract!Next
<1> QED
  BY <1>1, <1>2 DEF EndRead

LEMMA MainRefines ==
  ASSUME IInv, MainStep \/ Tick \/ Stopped
  PROVE  UNCHANGED AbstractVars
<1>1. UNCHANGED <<spos, sig, published, mem, got>>
  BY DEF MainStep, StartTask, JoinTask, StopServing, PdservExit, Terminate,
         Tick, Stopped, vars, taskVars, writerVars, readerVars
<1>2. CASE StartTask
  <2>1. \A i \in Task : (Finished(i))' = Finished(i)
    BY <1>1, <1>2, StartTaskEffect DEF Finished, IInv, TypeOK, TaskTypes
  <2> QED
    BY <1>1, <2>1 DEF AbstractVars, Input, Done, Taken
<1>3. CASE ~StartTask
  <2>1. UNCHANGED tpc
    BY <1>3 DEF MainStep, JoinTask, StopServing, PdservExit, Terminate,
                Tick, Stopped, vars, taskVars
  <2> QED
    BY <1>1, <2>1, Unseen
<1> QED
  BY <1>2, <1>3

LEMMA StepRefines ==
  ASSUME IInv, [Next]_vars PROVE [Abstract!Next]_(Abstract!vars)
<1>1. CASE Next
  BY <1>1, TaskRefines, WriterRefines, ReaderRefines, MainRefines,
     Stutter DEF Next
<1>2. CASE UNCHANGED vars
  <2>1. UNCHANGED <<tpc, spos, sig, published, mem, got>>
    BY <1>2 DEF vars, taskVars, writerVars, readerVars
  <2> QED
    BY <2>1, Unseen, Stutter
<1> QED
  BY <1>1, <1>2

(* The locks of the tasks make parameter writes, cycles and signal reads   *)
(* atomic, for any number of tasks, clients and words.                     *)
THEOREM Refinement == Spec => CyclesAreAtomic
<1>1. Init => Abstract!Init
  BY InitRefines
<1>2. IInv /\ [Next]_vars => [Abstract!Next]_(Abstract!vars)
  BY StepRefines
<1> QED
  BY <1>1, <1>2, Invariance, PTL DEF Spec, CyclesAreAtomic, Abstract!Spec
=============================================================================
