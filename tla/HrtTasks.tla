----------------------------- MODULE HrtTasks -----------------------------
(***************************************************************************)
(* The cyclic tasks of a generated model (src/rtw/src/hrt_main.c) and the  *)
(* pdserv client threads that write its parameters and poll its signals.   *)
(*                                                                         *)
(* Every task runs run_task in a thread of its own, task 0 in the main     *)
(* thread. A task holds its signal_lock (a writer-preferring rwlock) for   *)
(* the whole cycle and its param_lock (a mutex) while the model computes.  *)
(* A parameter write takes the param_lock of every task, slowest task      *)
(* first; a signal read takes the signal_lock of one task.                 *)
(*                                                                         *)
(* Memory is modelled word by word, so that a copy that is not protected   *)
(* is seen half done. Left to other modules: the times a task sleeps to    *)
(* (TaskTiming). Absent: thread priorities, logging, and the statistics    *)
(* handed to pdserv.                                                       *)
(***************************************************************************)
EXTENDS Integers

CONSTANTS
  NumTasks,    \* NUMTASKS, the number of tasks of the generated model
  Writers,     \* client threads that write parameters
  Readers,     \* client threads that read signals
  Words,       \* length of the parameter block and of a task's signal block
  MayNotStart, \* tasks whose pthread_create may fail
  MayFail,     \* tasks with a block that may report an error
  MaxNow,      \* bound: last value of the realtime clock
  MaxVersion,  \* bound: number of different parameter blocks ever written
  CycleRing    \* bound: cycles are numbered modulo this

Task == 0 .. NumTasks - 1
Word == 1 .. Words

ASSUME TaskAssumption   == NumTasks \in Nat \ {0}
ASSUME WordAssumption   == Words \in Nat \ {0}
ASSUME StartAssumption  == MayNotStart \subseteq Task \ {0} /\ MayFail \subseteq Task
ASSUME BoundAssumption  ==
  MaxNow \in Nat /\ MaxVersion \in Nat /\ CycleRing \in Nat \ {0}
ASSUME ClientAssumption == Writers \cap {"free", "task"} = {}

VARIABLES
  running,      \* the flag in main that every task polls
  modelErr,     \* rtmGetErrorStatus(RTM) is set
  err,          \* err[i]: thread_task.err of task i is set
  tpc,          \* where task i is in run_task
  spos,         \* the word task i computes next, while its model runs
  worldTime,    \* thread_task.world_time
  cycle,        \* number of the cycle that world_time belongs to
  sig,          \* the signal memory of task i, word by word
  published,    \* what pdserv_update last took over from task i
  param_lock,   \* the owner of the mutex of task i
  signal_lock,  \* the rwlock of task i: its writer flag and its readers
  mem,          \* the parameter memory of the model
  version,      \* number of parameter blocks written so far
  wpc, wpos,    \* where client w is in write_parameter, and its loop index
  wval,         \* the block client w writes
  written,      \* [version, time] of the writes reported to the clients
  rpc, rpos,    \* where client r is in read_signal, and the word it copies
  rtask,        \* the task whose signals client r reads
  buf,          \* the destination buffer of client r
  got,          \* the last finished read of client r
  now,          \* CLOCK_REALTIME
  mpc, mpos,    \* where main is, and the index of its task loops
  serving,      \* the pdserv threads run
  lateSteps     \* history: steps that task i began after running was cleared

taskVars   == <<tpc, spos, worldTime, cycle, sig, published, err>>
writerVars == <<wpc, wpos, wval, written, mem, version>>
readerVars == <<rpc, rpos, rtask, buf, got>>
lockVars   == <<param_lock, signal_lock>>
mainVars   == <<mpc, mpos, serving>>
vars == <<running, modelErr, taskVars, writerVars, readerVars, lockVars,
          mainVars, now, lateSteps>>

SignalWord == [cycle : Nat, param : Nat]
NoSignal   == [cycle |-> 0, param |-> 0]
Owner      == Writers \cup {"free", "task"}

Init ==
  /\ running = TRUE
  /\ modelErr = FALSE
  /\ err = [i \in Task |-> FALSE]
  /\ tpc = [i \in Task |-> "unborn"]
  /\ spos = [i \in Task |-> 1]
  /\ worldTime = [i \in Task |-> 0]
  /\ cycle = [i \in Task |-> 0]
  /\ sig = [i \in Task |-> [k \in Word |-> NoSignal]]
  /\ published = [i \in Task |-> [k \in Word |-> NoSignal]]
  /\ param_lock = [i \in Task |-> "free"]
  /\ signal_lock = [i \in Task |-> [writer |-> FALSE, readers |-> {}]]
  /\ mem = [k \in Word |-> 0]
  /\ version = 0
  /\ wpc = [w \in Writers |-> "idle"]
  /\ wpos = [w \in Writers |-> 0]
  /\ wval = [w \in Writers |-> 0]
  /\ written = {}
  /\ rpc = [r \in Readers |-> "idle"]
  /\ rpos = [r \in Readers |-> 1]
  /\ rtask = [r \in Readers |-> 0]
  /\ buf = [r \in Readers |-> [k \in Word |-> NoSignal]]
  /\ got = [r \in Readers |->
              [words |-> [k \in Word |-> NoSignal], cycle |-> 0, time |-> 0]]
  /\ now = 0
  /\ mpc = "create" /\ mpos = 0
  /\ serving = TRUE
  /\ lateSteps = [i \in Task |-> 0]

-----------------------------------------------------------------------------
(* run_task *)

Goto(i, l) == tpc' = [tpc EXCEPT ![i] = l]

(* Mutant: a task looks at its own error only. *)
CheckErrorOnly(i) ==
  /\ tpc[i] = "check"
  /\ Goto(i, IF ~err[i] THEN "sleep" ELSE "leave")
  /\ UNCHANGED <<running, modelErr, spos, worldTime, cycle, sig, published,
                 err, writerVars, readerVars, lockVars, mainVars, now,
                 lateSteps>>

(* The first two conditions of the loop: err and *running. *)
CheckRunning(i) ==
  /\ tpc[i] = "check"
  /\ Goto(i, IF ~err[i] /\ running THEN "sleep" ELSE "leave")
  /\ UNCHANGED <<running, modelErr, spos, worldTime, cycle, sig, published,
                 err, writerVars, readerVars, lockVars, mainVars, now,
                 lateSteps>>

(* clock_nanosleep returns 0 at the task's next start time; *running is   *)
(* not looked at again before the step.                                   *)
WakeUp(i) ==
  /\ tpc[i] = "sleep"
  /\ Goto(i, "wrlock")
  /\ lateSteps' = [lateSteps EXCEPT ![i] = IF running THEN @ ELSE @ + 1]
  /\ UNCHANGED <<running, modelErr, spos, worldTime, cycle, sig, published,
                 err, writerVars, readerVars, lockVars, mainVars, now>>

(* clock_nanosleep is interrupted by a signal and the loop ends. *)
Interrupted(i) ==
  /\ tpc[i] = "sleep"
  /\ Goto(i, "leave")
  /\ UNCHANGED <<running, modelErr, spos, worldTime, cycle, sig, published,
                 err, writerVars, readerVars, lockVars, mainVars, now,
                 lateSteps>>

(* pthread_rwlock_wrlock succeeds and the cycle is time stamped. This is   *)
(* the build with VARIABLE_LOCKING; with GET_PARAMETERS the base rate task *)
(* would fetch the parameters from pdserv here (hrt_main.c:536-541).       *)
TakeSignalLock(i) ==
  /\ tpc[i] = "wrlock"
  /\ signal_lock[i] = [writer |-> FALSE, readers |-> {}]
  /\ signal_lock' = [signal_lock EXCEPT ![i].writer = TRUE]
  /\ worldTime' = [worldTime EXCEPT ![i] = now]
  /\ cycle' = [cycle EXCEPT ![i] = (@ + 1) % CycleRing]
  /\ Goto(i, "plock")
  /\ UNCHANGED <<running, modelErr, spos, sig, published, err, writerVars,
                 readerVars, param_lock, mainVars, now, lateSteps>>

(* Mutant: the model computes without the mutex. *)
SkipParamLock(i) ==
  /\ tpc[i] = "plock"
  /\ param_lock' = [param_lock EXCEPT ![i] = "task"]
  /\ spos' = [spos EXCEPT ![i] = 1]
  /\ Goto(i, "step")
  /\ UNCHANGED <<running, modelErr, worldTime, cycle, sig, published, err,
                 writerVars, readerVars, signal_lock, mainVars, now,
                 lateSteps>>

TakeParamLock(i) ==
  /\ tpc[i] = "plock"
  /\ param_lock[i] = "free"
  /\ param_lock' = [param_lock EXCEPT ![i] = "task"]
  /\ spos' = [spos EXCEPT ![i] = 1]
  /\ Goto(i, "step")
  /\ UNCHANGED <<running, modelErr, worldTime, cycle, sig, published, err,
                 writerVars, readerVars, signal_lock, mainVars, now,
                 lateSteps>>

(* Within rt_OneStep: the model computes one signal word from one         *)
(* parameter word; a block may set the error status of the model.         *)
ComputeWord(i) ==
  /\ tpc[i] = "step"
  /\ spos[i] \in Word
  /\ sig' = [sig EXCEPT ![i][spos[i]] =
               [cycle |-> cycle[i], param |-> mem[spos[i]]]]
  /\ spos' = [spos EXCEPT ![i] = @ + 1]
  /\ modelErr' \in {modelErr, modelErr \/ i \in MayFail}
  /\ UNCHANGED <<running, tpc, worldTime, cycle, published, err, writerVars,
                 readerVars, lockVars, mainVars, now, lateSteps>>

(* Mutant: the step ends one word too early. *)
FinishStepEarly(i) ==
  /\ tpc[i] = "step"
  /\ spos[i] = Words
  /\ err' = [err EXCEPT ![i] = modelErr]
  /\ param_lock' = [param_lock EXCEPT ![i] = "free"]
  /\ Goto(i, "update")
  /\ UNCHANGED <<running, modelErr, spos, worldTime, cycle, sig, published,
                 writerVars, readerVars, signal_lock, mainVars, now,
                 lateSteps>>

(* rt_OneStep returns the error status that all tasks share. *)
FinishStep(i) ==
  /\ tpc[i] = "step"
  /\ spos[i] = Words + 1
  /\ err' = [err EXCEPT ![i] = modelErr]
  /\ param_lock' = [param_lock EXCEPT ![i] = "free"]
  /\ Goto(i, "update")
  /\ UNCHANGED <<running, modelErr, spos, worldTime, cycle, sig, published,
                 writerVars, readerVars, signal_lock, mainVars, now,
                 lateSteps>>

(* Mutant: the signal lock is not released. *)
UpdateKeepsLock(i) ==
  /\ tpc[i] = "update"
  /\ published' = [published EXCEPT ![i] = sig[i]]
  /\ Goto(i, "check")
  /\ UNCHANGED <<running, modelErr, spos, worldTime, cycle, sig, err,
                 writerVars, readerVars, lockVars, mainVars, now, lateSteps>>

(* pdserv_update copies the signals; the cycle ends with the unlock. *)
Update(i) ==
  /\ tpc[i] = "update"
  /\ published' = [published EXCEPT ![i] = sig[i]]
  /\ signal_lock' = [signal_lock EXCEPT ![i].writer = FALSE]
  /\ Goto(i, "check")
  /\ UNCHANGED <<running, modelErr, spos, worldTime, cycle, sig, err,
                 writerVars, readerVars, param_lock, mainVars, now,
                 lateSteps>>

(* Mutant: a task that leaves its loop does not stop the others. *)
LeaveAlone(i) ==
  /\ tpc[i] = "leave"
  /\ Goto(i, "done")
  /\ UNCHANGED <<running, modelErr, spos, worldTime, cycle, sig, published,
                 err, writerVars, readerVars, lockVars, mainVars, now,
                 lateSteps>>

(* After the loop a task stops all the others. *)
Leave(i) ==
  /\ tpc[i] = "leave"
  /\ running' = FALSE
  /\ Goto(i, "done")
  /\ UNCHANGED <<modelErr, spos, worldTime, cycle, sig, published, err,
                 writerVars, readerVars, lockVars, mainVars, now, lateSteps>>

TaskStep(i) ==
  \/ CheckRunning(i) \/ WakeUp(i) \/ Interrupted(i)
  \/ TakeSignalLock(i) \/ TakeParamLock(i)
  \/ ComputeWord(i) \/ FinishStep(i) \/ Update(i) \/ Leave(i)

-----------------------------------------------------------------------------
(* write_parameter and write_parameter_lock, called by pdserv *)

(* Mutants: the loop forgets the slowest task; the time is read first. *)
StartWriteSecond(w) ==
  /\ serving
  /\ wpc[w] = "idle"
  /\ wpc' = [wpc EXCEPT ![w] = "lock"]
  /\ wpos' = [wpos EXCEPT ![w] = NumTasks - 2]
  /\ UNCHANGED <<running, modelErr, taskVars, wval, written, mem, version,
                 readerVars, lockVars, mainVars, now, lateSteps>>

StartWriteStamped(w) ==
  /\ serving
  /\ wpc[w] = "idle"
  /\ wpc' = [wpc EXCEPT ![w] = "lock"]
  /\ wpos' = [wpos EXCEPT ![w] = NumTasks - 1]
  /\ written' = written \cup {[version |-> version + 1, time |-> now]}
  /\ UNCHANGED <<running, modelErr, taskVars, wval, mem, version,
                 readerVars, lockVars, mainVars, now, lateSteps>>

(* write_parameter_lock(1) starts with the lock of the slowest task. *)
StartWrite(w) ==
  /\ serving
  /\ wpc[w] = "idle"
  /\ wpc' = [wpc EXCEPT ![w] = "lock"]
  /\ wpos' = [wpos EXCEPT ![w] = NumTasks - 1]
  /\ UNCHANGED <<running, modelErr, taskVars, wval, written, mem, version,
                 readerVars, lockVars, mainVars, now, lateSteps>>

(* Mutant: the locking loop ends before task 0. *)
LockAllButFirst(w) ==
  /\ wpc[w] = "lock"
  /\ param_lock[wpos[w]] = "free"
  /\ param_lock' = [param_lock EXCEPT ![wpos[w]] = w]
  /\ IF wpos[w] = 1
       THEN /\ wpc' = [wpc EXCEPT ![w] = "copy"]
            /\ version' = IF version < MaxVersion THEN version + 1
                                                  ELSE version
            /\ wval' = [wval EXCEPT ![w] = version']
            /\ UNCHANGED wpos
       ELSE /\ wpos' = [wpos EXCEPT ![w] = @ - 1]
            /\ UNCHANGED <<wpc, version, wval>>
  /\ UNCHANGED <<running, modelErr, taskVars, written, mem, readerVars,
                 signal_lock, mainVars, now, lateSteps>>

(* One round of the locking loop; after task 0 the client may copy. *)
LockNext(w) ==
  /\ wpc[w] = "lock"
  /\ param_lock[wpos[w]] = "free"
  /\ param_lock' = [param_lock EXCEPT ![wpos[w]] = w]
  /\ IF wpos[w] = 0
       THEN /\ wpc' = [wpc EXCEPT ![w] = "copy"]
            /\ wpos' = [wpos EXCEPT ![w] = 1]
            /\ version' = IF version < MaxVersion THEN version + 1
                                                  ELSE version
            /\ wval' = [wval EXCEPT ![w] = version']
       ELSE /\ wpos' = [wpos EXCEPT ![w] = @ - 1]
            /\ UNCHANGED <<wpc, version, wval>>
  /\ UNCHANGED <<running, modelErr, taskVars, written, mem, readerVars,
                 signal_lock, mainVars, now, lateSteps>>

(* The memcpy of write_parameter, one word at a time. *)
CopyParam(w) ==
  /\ wpc[w] = "copy"
  /\ mem' = [mem EXCEPT ![wpos[w]] = wval[w]]
  /\ IF wpos[w] = Words
       THEN /\ wpc' = [wpc EXCEPT ![w] = "unlock"]
            /\ wpos' = [wpos EXCEPT ![w] = NumTasks - 1]
       ELSE /\ wpos' = [wpos EXCEPT ![w] = @ + 1]
            /\ UNCHANGED wpc
  /\ UNCHANGED <<running, modelErr, taskVars, wval, written, version,
                 readerVars, lockVars, mainVars, now, lateSteps>>

(* Mutant: the mutex of task 0 stays locked. *)
UnlockAllButFirst(w) ==
  /\ wpc[w] = "unlock"
  /\ param_lock' = [param_lock EXCEPT
                      ![wpos[w]] = IF wpos[w] = 0 THEN w ELSE "free"]
  /\ IF wpos[w] = 0
       THEN /\ wpc' = [wpc EXCEPT ![w] = "stamp"]
            /\ UNCHANGED wpos
       ELSE /\ wpos' = [wpos EXCEPT ![w] = @ - 1]
            /\ UNCHANGED wpc
  /\ UNCHANGED <<running, modelErr, taskVars, wval, written, mem, version,
                 readerVars, signal_lock, mainVars, now, lateSteps>>

(* write_parameter_lock(0) unlocks in the order in which it locked. *)
UnlockNext(w) ==
  /\ wpc[w] = "unlock"
  /\ param_lock' = [param_lock EXCEPT ![wpos[w]] = "free"]
  /\ IF wpos[w] = 0
       THEN /\ wpc' = [wpc EXCEPT ![w] = "stamp"]
            /\ UNCHANGED wpos
       ELSE /\ wpos' = [wpos EXCEPT ![w] = @ - 1]
            /\ UNCHANGED wpc
  /\ UNCHANGED <<running, modelErr, taskVars, wval, written, mem, version,
                 readerVars, signal_lock, mainVars, now, lateSteps>>

(* The modification time is read after the unlock; the call's locals end. *)
StampWrite(w) ==
  /\ wpc[w] = "stamp"
  /\ written' = written \cup {[version |-> wval[w], time |-> now]}
  /\ wpc' = [wpc EXCEPT ![w] = "idle"]
  /\ wpos' = [wpos EXCEPT ![w] = 0] /\ wval' = [wval EXCEPT ![w] = 0]
  /\ UNCHANGED <<running, modelErr, taskVars, mem, version, readerVars,
                 lockVars, mainVars, now, lateSteps>>

FinishWrite(w) == LockNext(w) \/ CopyParam(w) \/ UnlockNext(w) \/ StampWrite(w)

-----------------------------------------------------------------------------
(* read_signal and read_signal_lock, called by pdserv *)

StartRead(r, i) ==
  /\ serving
  /\ rpc[r] = "idle"
  /\ rpc' = [rpc EXCEPT ![r] = "lock"]
  /\ rtask' = [rtask EXCEPT ![r] = i]
  /\ UNCHANGED <<running, modelErr, taskVars, writerVars, rpos, buf, got,
                 lockVars, mainVars, now, lateSteps>>

(* Mutants: a reader that locks in vain, and a lock of the default kind. *)
ReadWithoutLock(r) ==
  LET i == rtask[r] IN
  /\ rpc[r] = "lock"
  /\ signal_lock' = [signal_lock EXCEPT ![i].readers = @ \cup {r}]
  /\ rpc' = [rpc EXCEPT ![r] = "copy"]
  /\ UNCHANGED <<running, modelErr, taskVars, writerVars, rpos, rtask, buf, got,
                 param_lock, mainVars, now, lateSteps>>

TakeDefaultReadLock(r) ==
  LET i == rtask[r] IN
  /\ rpc[r] = "lock"
  /\ ~signal_lock[i].writer
  /\ signal_lock' = [signal_lock EXCEPT ![i].readers = @ \cup {r}]
  /\ rpc' = [rpc EXCEPT ![r] = "copy"]
  /\ UNCHANGED <<running, modelErr, taskVars, writerVars, rpos, rtask, buf, got,
                 param_lock, mainVars, now, lateSteps>>

(* A reader gets the lock unless its task holds it or waits for it: the   *)
(* lock has the kind PREFER_WRITER_NONRECURSIVE.                          *)
TakeReadLock(r) ==
  LET i == rtask[r] IN
  /\ rpc[r] = "lock"
  /\ ~signal_lock[i].writer
  /\ tpc[i] # "wrlock"
  /\ signal_lock' = [signal_lock EXCEPT ![i].readers = @ \cup {r}]
  /\ rpc' = [rpc EXCEPT ![r] = "copy"]
  /\ UNCHANGED <<running, modelErr, taskVars, writerVars, rpos, rtask, buf, got,
                 param_lock, mainVars, now, lateSteps>>

CopySignal(r) ==
  /\ rpc[r] = "copy"
  /\ rpos[r] \in Word
  /\ buf' = [buf EXCEPT ![r][rpos[r]] = sig[rtask[r]][rpos[r]]]
  /\ rpos' = [rpos EXCEPT ![r] = @ + 1]
  /\ UNCHANGED <<running, modelErr, taskVars, writerVars, rpc, rtask, got,
                 lockVars, mainVars, now, lateSteps>>

(* The time stamp is copied last, then the lock is released; the buffer   *)
(* goes to the client.                                                    *)
FinishRead(r) ==
  LET i == rtask[r] IN
  /\ rpc[r] = "copy"
  /\ rpos[r] = Words + 1
  /\ got' = [got EXCEPT ![r] = [words |-> buf[r], cycle |-> cycle[i],
                                time |-> worldTime[i]]]
  /\ signal_lock' = [signal_lock EXCEPT ![i].readers = @ \ {r}]
  /\ rpc' = [rpc EXCEPT ![r] = "idle"]
  /\ rpos' = [rpos EXCEPT ![r] = 1]
  /\ buf' = [buf EXCEPT ![r] = [k \in Word |-> NoSignal]]
  /\ UNCHANGED <<running, modelErr, taskVars, writerVars, rtask,
                 param_lock, mainVars, now, lateSteps>>

EndRead(r) == TakeReadLock(r) \/ CopySignal(r) \/ FinishRead(r)

-----------------------------------------------------------------------------
(* main, from the start of the sub-threads on *)

(* Mutant: the loop runs one round too far. *)
StartTaskTooMany ==
  /\ mpc = "create"
  /\ IF mpos = NumTasks + 1
       THEN /\ mpc' = "cyclic" /\ mpos' = 0
            /\ tpc' = [tpc EXCEPT ![0] = "check"]
       ELSE /\ mpos' = mpos + 1
            /\ tpc' = [tpc EXCEPT ![mpos] = "check"]
            /\ UNCHANGED mpc
  /\ UNCHANGED <<running, modelErr, spos, worldTime, cycle, sig, published,
                 err, writerVars, readerVars, lockVars, serving, now,
                 lateSteps>>

(* One round of the loop that starts the sub-threads. The result of       *)
(* pthread_create is not looked at. After the last round main runs task 0.*)
StartTask ==
  /\ mpc = "create"
  /\ IF mpos = NumTasks
       THEN /\ mpc' = "cyclic" /\ mpos' = 0
            /\ tpc' = [tpc EXCEPT ![0] = "check"]
       ELSE /\ mpos' = mpos + 1
            /\ \/ mpos # 0 /\ tpc' = [tpc EXCEPT ![mpos] = "check"]
               \/ mpos \in {0} \cup MayNotStart /\ UNCHANGED tpc
            /\ UNCHANGED mpc
  /\ UNCHANGED <<running, modelErr, spos, worldTime, cycle, sig, published,
                 err, writerVars, readerVars, lockVars, serving, now,
                 lateSteps>>

(* One round of the loop that collects the tasks. Joining a thread that   *)
(* was never created is undefined: it may fail at once or kill the process.*)
JoinTask ==
  /\ \/ mpc = "cyclic" /\ tpc[0] = "done"
     \/ mpc = "join"
  /\ mpos < NumTasks
  /\ tpc[mpos] \in {"done", "unborn"}
  /\ mpos' = mpos + 1
  /\ \/ mpc' = "join"
     \/ tpc[mpos] = "unborn" /\ mpc' = "crashed"
  /\ UNCHANGED <<running, modelErr, taskVars, writerVars, readerVars,
                 lockVars, serving, now, lateSteps>>

(* pdserv_exit lets no client start another call ... *)
StopServing ==
  /\ mpc = "join" /\ mpos = NumTasks
  /\ serving
  /\ serving' = FALSE
  /\ UNCHANGED <<running, modelErr, taskVars, writerVars, readerVars,
                 lockVars, mpc, mpos, now, lateSteps>>

(* Mutant: pdserv_exit does not wait for the calls under way. *)
PdservExitAtOnce ==
  /\ mpc = "join" /\ ~serving
  /\ mpc' = "terminate"
  /\ UNCHANGED <<running, modelErr, taskVars, writerVars, readerVars,
                 lockVars, mpos, serving, now, lateSteps>>

(* ... and returns when the calls under way have ended. *)
PdservExit ==
  /\ mpc = "join" /\ ~serving
  /\ \A w \in Writers : wpc[w] = "idle"
  /\ \A r \in Readers : rpc[r] = "idle"
  /\ mpc' = "terminate"
  /\ UNCHANGED <<running, modelErr, taskVars, writerVars, readerVars,
                 lockVars, mpos, serving, now, lateSteps>>

(* MdlTerminate, the removal of the pid file and the return from main. *)
Terminate ==
  /\ mpc = "terminate"
  /\ mpc' = "exited"
  /\ UNCHANGED <<running, modelErr, taskVars, writerVars, readerVars,
                 lockVars, mpos, serving, now, lateSteps>>

MainStep == StartTask \/ JoinTask \/ StopServing \/ PdservExit \/ Terminate

-----------------------------------------------------------------------------

(* CLOCK_REALTIME. It is never set back here: if an administrator does so, *)
(* the time stamps of hrt_main.c:738 and 534 are no order any more.        *)
Tick ==
  /\ now < MaxNow
  /\ now' = now + 1
  /\ UNCHANGED <<running, modelErr, taskVars, writerVars, readerVars,
                 lockVars, mainVars, lateSteps>>

(* The process is over: the only states in which nothing else may happen. *)
Stopped ==
  /\ mpc \in {"exited", "crashed"}
  /\ UNCHANGED vars

Alive == mpc # "crashed"

Next ==
  \/ /\ Alive
     /\ \/ \E i \in Task : TaskStep(i)
        \/ \E w \in Writers : StartWrite(w) \/ FinishWrite(w)
        \/ \E r \in Readers : EndRead(r) \/ \E i \in Task : StartRead(r, i)
        \/ MainStep
        \/ Tick
  \/ Stopped

Spec == Init /\ [][Next]_vars

(***************************************************************************)
(* Fairness. Tasks, main and the clients inside a call keep running (a     *)
(* sleeping task wakes: its start time comes). The mutexes are taken often *)
(* enough (strong fairness): a task sleeps with its mutex free and runs    *)
(* with a higher priority than the clients. For the rwlock a task needs    *)
(* only weak fairness, for it has preference; a reader needs the task to   *)
(* sleep. Clients start no call by fairness, and no signal has to come.    *)
(***************************************************************************)
Fairness ==
  /\ \A i \in Task :
       /\ WF_vars(Alive /\ (\/ CheckRunning(i) \/ WakeUp(i)
                            \/ TakeSignalLock(i) \/ ComputeWord(i)
                            \/ FinishStep(i) \/ Update(i) \/ Leave(i)))
       /\ SF_vars(Alive /\ TakeParamLock(i))
  /\ \A w \in Writers :
       /\ WF_vars(Alive /\ (CopyParam(w) \/ UnlockNext(w) \/ StampWrite(w)))
       /\ SF_vars(Alive /\ LockNext(w))
  /\ \A r \in Readers :
       /\ WF_vars(Alive /\ (CopySignal(r) \/ FinishRead(r)))
       /\ SF_vars(Alive /\ TakeReadLock(r))
  /\ WF_vars(MainStep)

FairSpec == Spec /\ Fairness

-----------------------------------------------------------------------------
(* Properties *)

TaskPlaces == {"unborn", "check", "sleep", "wrlock", "plock", "step",
               "update", "leave", "done"}

TaskTypes ==
  /\ err \in [Task -> BOOLEAN]
  /\ tpc \in [Task -> TaskPlaces]
  /\ spos \in [Task -> 1 .. Words + 1]
  /\ worldTime \in [Task -> Nat] /\ cycle \in [Task -> Nat]
  /\ sig \in [Task -> [Word -> SignalWord]]
  /\ published \in [Task -> [Word -> SignalWord]]
  /\ lateSteps \in [Task -> Nat]

WriterTypes ==
  /\ mem \in [Word -> Nat] /\ version \in Nat
  /\ wpc \in [Writers -> {"idle", "lock", "copy", "unlock", "stamp"}]
  /\ wpos \in [Writers -> Nat] /\ wval \in [Writers -> Nat]
  /\ written \subseteq [version : Nat, time : Nat]

Snapshot == [words : [Word -> SignalWord], cycle : Nat, time : Nat]

ReaderTypes ==
  /\ rpc \in [Readers -> {"idle", "lock", "copy"}]
  /\ rpos \in [Readers -> 1 .. Words + 1]
  /\ rtask \in [Readers -> Task]
  /\ buf \in [Readers -> [Word -> SignalWord]]
  /\ got \in [Readers -> Snapshot]

LockTypes ==
  /\ param_lock \in [Task -> Owner]
  /\ signal_lock \in [Task -> [writer : BOOLEAN, readers : SUBSET Readers]]

MainTypes ==
  /\ running \in BOOLEAN /\ modelErr \in BOOLEAN /\ serving \in BOOLEAN
  /\ mpc \in {"create", "cyclic", "join", "terminate", "exited", "crashed"}
  /\ mpos \in 0 .. NumTasks
  /\ now \in Nat

(* The type of every variable. *)
TypeOK ==
  /\ TaskTypes /\ WriterTypes /\ ReaderTypes /\ LockTypes /\ MainTypes

(* The signal words that task i has already computed in this cycle. *)
Computed(i) ==
  {k \in Word : tpc[i] = "update" \/ (tpc[i] = "step" /\ k < spos[i])}

(* A step of a task never mixes the words of two parameter blocks:        *)
(* write_parameter holds the mutex of every task while it copies.         *)
StepUsesOneBlock ==
  \A i \in Task : \A j, k \in Computed(i) : sig[i][j].param = sig[i][k].param

(* Two tasks that compute at the same time use the same parameter block:  *)
(* the client lets go of the first task only after the whole copy.        *)
ConcurrentStepsAgree ==
  \A i, j \in Task :
    tpc[i] = "step" /\ tpc[j] = "step" =>
      \A k \in Computed(i), l \in Computed(j) : sig[i][k].param = sig[j][l].param

(* The parameters are one block at any time, to a task and among tasks:   *)
(* neither one step nor two at once work on old and new words.            *)
StepsUseOneBlock == StepUsesOneBlock /\ ConcurrentStepsAgree

(* A client waits for the mutex of a task only while whoever has it goes  *)
(* on or waits for a mutex further down: write_parameter_lock of all      *)
(* clients goes the same way, and a task computes without waiting, so     *)
(* that no circle of waiting threads can close.                           *)
WaitsDescend ==
  \A w \in Writers :
    wpc[w] = "lock" =>
      /\ \A v \in Writers :
           param_lock[wpos[w]] = v /\ wpc[v] = "lock" => wpos[v] < wpos[w]
      /\ param_lock[wpos[w]] = "task" => tpc[wpos[w]] = "step"

(* A cycle stamped later than the time that write_parameter reported      *)
(* works on that block or a later one, although the client reads the time *)
(* only after it let the tasks go.                                        *)
ReportedWritesAreUsed ==
  \A i \in Task, wr \in written :
    wr.time < worldTime[i] =>
      \A k \in Computed(i) : sig[i][k].param >= wr.version

(* read_signal delivers the words and the time stamp of one cycle. *)
ReadsAreOneCycle ==
  \A r \in Readers : \A k \in Word :
    /\ got[r].words[k].cycle = got[r].cycle
    /\ got[r].words[k].param = got[r].words[1].param

(* What pdserv_update takes over are the signals of one cycle. *)
PublishedIsOneCycle ==
  \A i \in Task : \A j, k \in Word : published[i][j] = published[i][k]

(* Signals leave the program as a task computed them, on both ways: those *)
(* that a client reads and those that pdserv publishes are never mixed    *)
(* from two cycles or from two versions of the parameters.                *)
SignalsAreOneCycle == ReadsAreOneCycle /\ PublishedIsOneCycle

(* A task that sleeps when another one stops the loop still makes one     *)
(* step, for it looks at the flag before it sleeps, but never a second.   *)
AtMostOneLateStep == \A i \in Task : lateSteps[i] <= 1

InCall(w) == wpc[w] # "idle"

(* MdlTerminate runs alone: no task is left in its loop, no client is in  *)
(* the middle of a call, and no lock is held.                             *)
TerminateAlone ==
  mpc \in {"terminate", "exited"} =>
    /\ \A i \in Task : tpc[i] \in {"unborn", "done"}
    /\ \A w \in Writers : ~InCall(w)
    /\ \A r \in Readers : rpc[r] = "idle"
    /\ \A i \in Task : /\ param_lock[i] = "free"
                       /\ signal_lock[i] = [writer |-> FALSE, readers |-> {}]

(* The program stops in order: no task computes on for more than one step *)
(* and the model is terminated only when nobody uses it any more.         *)
StopsInOrder == AtMostOneLateStep /\ TerminateAlone

(* Once a task leaves its loop, or a block reports an error, the program  *)
(* ends: every task sees the flag or the error, every call ends, and main *)
(* joins all threads. Only a thread that never was created can spoil it.  *)
ShutdownCompletes ==
  (modelErr \/ \E i \in Task : tpc[i] = "leave") ~>
    \/ mpc = "exited"
    \/ mpc = "crashed" /\ \E i \in Task : tpc[i] = "unborn"

(* Readers never keep a task from its cycle, because the lock prefers it; *)
(* only a crash of the program does.                                      *)
TaskNotStarved ==
  \A i \in Task : (tpc[i] = "wrlock") ~> (tpc[i] = "step" \/ ~Alive)

(* A client that began to write comes to its end. *)
WriteCompletes ==
  \A w \in Writers : InCall(w) ~> (wpc[w] = "idle" \/ ~Alive)

(* A client that began to read gets its values. *)
ReadCompletes ==
  \A r \in Readers : (rpc[r] = "lock") ~> (rpc[r] = "idle" \/ ~Alive)

(* Every call of pdserv comes back, whatever the tasks and main do: one    *)
(* that writes gets the mutexes of all tasks in the end, and one that      *)
(* reads the rwlock, although it prefers the task.                         *)
ClientsComplete == WriteCompletes /\ ReadCompletes

(* The abstract view: the last word decides, for it is copied last. *)
Abstract == INSTANCE AtomicCycles WITH
  block    <- mem[Words],
  input    <- [i \in Task |-> sig[i][Words].param],
  computed <- [i \in Task |-> \/ tpc[i] = "update"
                              \/ tpc[i] = "step" /\ spos[i] = Words + 1],
  signals  <- published,
  taken    <- [r \in Readers |-> got[r].words]

(* The locks make parameter writes, cycles and signal reads atomic. *)
CyclesAreAtomic == Abstract!Spec

=============================================================================
