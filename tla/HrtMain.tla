------------------------------ MODULE HrtMain ------------------------------
(***************************************************************************)
(* The life of instances of the program, from the options to the exit: the *)
(* steps of main in src/rtw/src/hrt_main.c that can fail, what each has to *)
(* undo, the priorities of the threads, and the PID file, which instances  *)
(* given the same path share. What the tasks do in between is HrtTasks.    *)
(*                                                                         *)
(* An instance is a process. It has no signal handler, so that it may be   *)
(* killed anywhere. Modelled for the build without CLASSIC_INTERFACE.      *)
(***************************************************************************)
EXTENDS Integers

CONSTANTS
  Proc,         \* the instances
  NoProc,       \* no instance
  NumTasks,     \* NUMTASKS
  MaxPriority,  \* sched_get_priority_max(SCHED_FIFO); the minimum is 1
  Arguments,    \* bound: the arguments that an instance may be given
  Requests      \* bound: the values of --priority; -1, the default, is RT

ASSUME ProcAssumption == NoProc \notin Proc
ASSUME TaskAssumption == NumTasks \in Nat \ {0}
ASSUME PriorityAssumption == MaxPriority \in Nat \ {0}
(* strtoul into an int: any int may come out. *)
ASSUME RequestAssumption == Requests \subseteq Int

SubThread == 1 .. NumTasks - 1

VARIABLES
  pc,         \* what an instance does next, or how it ended: with status 0
              \* or 1, by get_options ("refused", also 1), or killed
  args,       \* the arguments it was given, without that of --priority
  priority,   \* the priority asked for; -1 again when it is refused
  pdserv,     \* pdserv: "none", "created", "prepared" or "exited"
  model,      \* the model: "none", "initialized" or "terminated"
  realtime,   \* SCHED_FIFO priority of the main thread, 0 for none
  thread,     \* that of each sub-thread; -1 if there is no thread
  pidFile,    \* the file at the path of the PID file, by its creator
  written,    \* what is in a file: the pid of an instance
  open,       \* the file that create_pid_file has open
  kept        \* history: the instances whose last remove_pid_file failed

pidVars == <<pidFile, written, open, kept>>
vars == <<pc, args, priority, pdserv, model, realtime, thread, pidVars>>

-----------------------------------------------------------------------------
(* The command line *)

(* The long options of get_options and the short ones. Any other argument  *)
(* is refused, as is an option with a bad value, such as "-f 100".         *)
LongOption == {"--priority", "--pdserv-config", "--pid-file", "--start-phase",
               "--time-dilation", "--daemon", "--help"}
ShortOption == {"-p", "-c", "-i", "-f", "-D", "-d", "-h"}
Refused(a) == a \notin LongOption \cup ShortOption

Daemon(p)  == args[p] \cap {"-d", "--daemon"} # {}
PidPath(p) == args[p] \cap {"-i", "--pid-file"} # {}
Help(p)    == args[p] \cap {"-h", "--help"} # {}

(* Arguments are read in some order: a refused one before --help, or after. *)
Init ==
  /\ pc = [p \in Proc |-> "get_options"]
  /\ args \in [Proc -> SUBSET Arguments]
  /\ priority \in [Proc -> Requests]
  /\ pdserv = [p \in Proc |-> "none"]
  /\ model = [p \in Proc |-> "none"]
  /\ realtime = [p \in Proc |-> 0]
  /\ thread = [p \in Proc |-> [i \in SubThread |-> -1]]
  /\ pidFile = NoProc
  /\ written = [p \in Proc |-> NoProc]
  /\ open = [p \in Proc |-> NoProc]
  /\ kept = {}

Goto(p, l) == pc' = [pc EXCEPT ![p] = l]

GetOptions(p) ==
  /\ pc[p] = "get_options"
  /\ \/ /\ \E a \in args[p] : Refused(a)
        /\ Goto(p, "refused")
     \/ Help(p) /\ Goto(p, "exit0")
     \/ /\ \A a \in args[p] : ~Refused(a)
        /\ ~Help(p)
        /\ Goto(p, IF Daemon(p) THEN "daemon" ELSE "create")
  /\ UNCHANGED <<args, priority, pdserv, model, realtime, thread, pidVars>>

-----------------------------------------------------------------------------
(* Start-up: each step may fail *)

(* daemon() may fail; pdserv_exit is then called without a pdserv.         *)
BecomeDaemon(p) ==
  /\ pc[p] = "daemon"
  /\ Goto(p, "create") \/ Goto(p, "exit1")
  /\ UNCHANGED <<args, priority, pdserv, model, realtime, thread, pidVars>>

(* pdserv_create, and the tasks, signals and parameters registered there.  *)
CreateServer(p) ==
  /\ pc[p] = "create"
  /\ \/ Goto(p, "exit1") /\ UNCHANGED pdserv
     \/ Goto(p, "messages") /\ pdserv' = [pdserv EXCEPT ![p] = "created"]
  /\ UNCHANGED <<args, priority, model, realtime, thread, pidVars>>

(* A failure of MdlRegisterMessages leaves err alone: the status is 0.     *)
RegisterMessages(p) ==
  /\ pc[p] = "messages"
  /\ \/ Goto(p, "exit0") /\ pdserv' = [pdserv EXCEPT ![p] = "exited"]
     \/ Goto(p, "prepare") /\ UNCHANGED pdserv
  /\ UNCHANGED <<args, priority, model, realtime, thread, pidVars>>

PrepareServer(p) ==
  /\ pc[p] = "prepare"
  /\ \/ Goto(p, "exit1") /\ pdserv' = [pdserv EXCEPT ![p] = "exited"]
     \/ Goto(p, "init") /\ pdserv' = [pdserv EXCEPT ![p] = "prepared"]
  /\ UNCHANGED <<args, priority, model, realtime, thread, pidVars>>

(* Mutant: an error leaves the model as it is.                             *)
InitApplicationOnly(p) ==
  /\ pc[p] = "init"
  /\ \/ /\ Goto(p, "exit1")
        /\ model' = [model EXCEPT ![p] = "initialized"]
        /\ pdserv' = [pdserv EXCEPT ![p] = "exited"]
     \/ /\ Goto(p, "sched")
        /\ model' = [model EXCEPT ![p] = "initialized"]
        /\ UNCHANGED pdserv
  /\ UNCHANGED <<args, priority, realtime, thread, pidVars>>

(* init_application: MdlInitialize, undone when the model has an error.    *)
InitApplication(p) ==
  /\ pc[p] = "init"
  /\ \/ /\ Goto(p, "exit1")
        /\ model' = [model EXCEPT ![p] = "terminated"]
        /\ pdserv' = [pdserv EXCEPT ![p] = "exited"]
     \/ /\ Goto(p, "sched")
        /\ model' = [model EXCEPT ![p] = "initialized"]
        /\ UNCHANGED pdserv
  /\ UNCHANGED <<args, priority, realtime, thread, pidVars>>

Asked(p) == IF priority[p] = -1 THEN MaxPriority ELSE priority[p]

(* Mutant: the result of sched_setscheduler is not looked at.              *)
SetPriorityBlindly(p) ==
  /\ pc[p] = "sched"
  /\ priority' = [priority EXCEPT ![p] = Asked(p)]
  /\ realtime' = [realtime EXCEPT ![p] = Asked(p)]
  /\ Goto(p, IF PidPath(p) THEN "open_pid" ELSE "threads")
  /\ UNCHANGED <<args, pdserv, model, thread, pidVars>>

(* sched_setscheduler refuses a priority out of range, and any priority to *)
(* a process that lacks the right.                                         *)
SetPriority(p) ==
  /\ pc[p] = "sched"
  /\ \/ /\ Asked(p) \in 1 .. MaxPriority
        /\ priority' = [priority EXCEPT ![p] = Asked(p)]
        /\ realtime' = [realtime EXCEPT ![p] = Asked(p)]
     \/ /\ priority' = [priority EXCEPT ![p] = -1]
        /\ UNCHANGED realtime
  /\ Goto(p, IF PidPath(p) THEN "open_pid" ELSE "threads")
  /\ UNCHANGED <<args, pdserv, model, thread, pidVars>>

(* create_pid_file: the file is created or cut to nothing, then written.   *)
OpenPidFile(p) ==
  /\ pc[p] = "open_pid"
  /\ \/ /\ pidFile' = IF pidFile = NoProc THEN p ELSE pidFile
        /\ written' = [written EXCEPT ![pidFile'] = NoProc]
        /\ open' = [open EXCEPT ![p] = pidFile']
        /\ UNCHANGED kept
        /\ Goto(p, "write_pid")
     \/ Goto(p, "threads") /\ UNCHANGED pidVars
  /\ UNCHANGED <<args, priority, pdserv, model, realtime, thread>>

(* The file may be gone from the path by now. A write that succeeds leaves *)
(* it open. One that fails may have written nothing, or a part, which is   *)
(* the pid when only the end of the line is missing. What is at the path   *)
(* is then removed, if the system allows it.                               *)
WritePidFile(p) ==
  /\ pc[p] = "write_pid"
  /\ \/ /\ written' = [written EXCEPT ![open[p]] = p]
        /\ UNCHANGED <<pidFile, open>>
     \/ /\ \E w \in {written[open[p]], p, NoProc} :
             written' = [written EXCEPT ![open[p]] = w]
        /\ pidFile' \in {NoProc, pidFile}
        /\ open' = [open EXCEPT ![p] = NoProc]
  /\ Goto(p, "threads")
  /\ UNCHANGED <<args, priority, pdserv, model, realtime, thread, kept>>

-----------------------------------------------------------------------------
(* The threads, and the end *)

(* Mutant: slower tasks get the higher priority, as far as there is one.   *)
StartSlowestFirst(p) ==
  /\ pc[p] = "threads"
  /\ thread' = [thread EXCEPT ![p] =
       [i \in SubThread |->
          IF priority[p] # -1 /\ priority[p] + i <= MaxPriority
          THEN priority[p] + i ELSE realtime[p]]]
  /\ Goto(p, "run")
  /\ UNCHANGED <<args, priority, pdserv, model, realtime, pidVars>>

(* The priority that pthread_create gives to a thread. The library refuses *)
(* to put one below 1 into the attributes, which goes unnoticed: without   *)
(* it, as without attributes, the thread takes that of the main thread.    *)
ThreadPriority(p, i) ==
  IF priority[p] # -1 /\ priority[p] - i >= 1 THEN priority[p] - i
                                             ELSE realtime[p]

(* The results of pthread_create are not looked at, so that any thread may *)
(* be missing.                                                             *)
StartThreads(p) ==
  /\ pc[p] = "threads"
  /\ \E missing \in SUBSET SubThread :
       thread' = [thread EXCEPT ![p] =
         [i \in SubThread |->
            IF i \in missing THEN -1 ELSE ThreadPriority(p, i)]]
  /\ Goto(p, "run")
  /\ UNCHANGED <<args, priority, pdserv, model, realtime, pidVars>>

(* run_task has returned. Joining a thread that was never created is       *)
(* undefined: it may be the end of the process.                            *)
JoinThreads(p) ==
  /\ pc[p] = "run"
  /\ \/ Goto(p, "clean_up")
     \/ (\E i \in SubThread : thread[p][i] = -1) /\ Goto(p, "killed")
  /\ UNCHANGED <<args, priority, pdserv, model, realtime, thread, pidVars>>

CleanUp(p) ==
  /\ pc[p] = "clean_up"
  /\ pdserv' = [pdserv EXCEPT ![p] = "exited"]
  /\ model' = [model EXCEPT ![p] = "terminated"]
  /\ Goto(p, IF PidPath(p) THEN "remove_pid" ELSE "exit0")
  /\ UNCHANGED <<args, priority, realtime, thread, pidVars>>

(* Mutant: only the instance that created the file removes it.             *)
RemoveCreated(p) ==
  /\ pc[p] = "remove_pid"
  /\ \/ /\ pidFile' = IF pidFile = p THEN NoProc ELSE pidFile
        /\ UNCHANGED kept
     \/ /\ kept' = kept \cup {p}
        /\ UNCHANGED pidFile
  /\ Goto(p, "exit0")
  /\ UNCHANGED <<args, priority, pdserv, model, realtime, thread, written, open>>

(* remove_pid_file: whatever is at the path goes. A failure of unlink is   *)
(* printed, and the program ends as usual.                                 *)
RemovePidFile(p) ==
  /\ pc[p] = "remove_pid"
  /\ \/ pidFile' = NoProc /\ UNCHANGED kept
     \/ kept' = kept \cup {p} /\ UNCHANGED pidFile
  /\ Goto(p, "exit0")
  /\ UNCHANGED <<args, priority, pdserv, model, realtime, thread, written, open>>

Ended(p) == pc[p] \in {"exit0", "exit1", "refused", "killed"}

Kill(p) ==
  /\ ~Ended(p)
  /\ Goto(p, "killed")
  /\ UNCHANGED <<args, priority, pdserv, model, realtime, thread, pidVars>>

StartUp(p) ==
  \/ GetOptions(p) \/ BecomeDaemon(p) \/ CreateServer(p)
  \/ RegisterMessages(p) \/ PrepareServer(p) \/ InitApplication(p)
  \/ SetPriority(p) \/ OpenPidFile(p) \/ WritePidFile(p) \/ StartThreads(p)

ShutDown(p) == JoinThreads(p) \/ CleanUp(p) \/ RemovePidFile(p)

Next == \E p \in Proc : StartUp(p) \/ ShutDown(p) \/ Kill(p)

Spec == Init /\ [][Next]_vars

-----------------------------------------------------------------------------
(* Properties *)

Label == {"get_options", "daemon", "create", "messages", "prepare", "init",
          "sched", "open_pid", "write_pid", "threads", "run", "clean_up",
          "remove_pid", "exit0", "exit1", "refused", "killed"}

(* The types: priorities that SCHED_FIFO has, and a file for every write.  *)
TypeOK ==
  /\ pc \in [Proc -> Label]
  /\ args \in [Proc -> SUBSET Arguments]
  /\ priority \in [Proc -> Int]
  /\ pdserv \in [Proc -> {"none", "created", "prepared", "exited"}]
  /\ model \in [Proc -> {"none", "initialized", "terminated"}]
  /\ realtime \in [Proc -> 0 .. MaxPriority]
  /\ thread \in [Proc -> [SubThread -> -1 .. MaxPriority]]
  /\ pidFile \in Proc \cup {NoProc}
  /\ written \in [Proc -> Proc \cup {NoProc}]
  /\ open \in [Proc -> Proc \cup {NoProc}]
  /\ kept \subseteq Proc
  /\ \A p \in Proc : pc[p] = "write_pid" => open[p] # NoProc

(* Whatever failed on the way: an instance that ends on its own has closed *)
(* the pdserv it opened, and has terminated the model it initialised.      *)
EverythingUndone ==
  \A p \in Proc : pc[p] \in {"exit0", "exit1"} =>
    pdserv[p] \in {"none", "exited"} /\ model[p] \in {"none", "terminated"}

(* The PID file does not name an instance that ended on its own, although  *)
(* others open, cut, write and remove the same file meanwhile, unless the  *)
(* system kept that instance from removing it at its end.                  *)
PidFileIsFresh ==
  \A p \in Proc : pc[p] \in {"exit0", "exit1"} /\ pidFile # NoProc
                  => written[pidFile] # p \/ p \in kept

(* The priority of a task: that of the main thread for the fastest, and -1 *)
(* for a task without a thread.                                            *)
Rank(p, i) == IF i = 0 THEN realtime[p] ELSE thread[p][i]

(* The tasks are rate monotonic as far as there are priorities for them:   *)
(* none outranks the fastest, all are real-time or none is, and of two     *)
(* tasks the slower has the lower priority if the one asked for leaves     *)
(* room for it.                                                            *)
RateMonotonic ==
  \A p \in Proc, j \in SubThread : thread[p][j] # -1 =>
    /\ thread[p][j] <= realtime[p]
    /\ realtime[p] > 0 => thread[p][j] > 0
    /\ j < realtime[p] =>
         \A i \in 0 .. j - 1 : Rank(p, i) # -1 => Rank(p, i) > thread[p][j]

(* "Reduce priorities for slower tasks": in a program with real-time       *)
(* priorities, a slower task has a lower one than a faster one.            *)
SlowerTasksHaveLess ==
  \A p \in Proc, j \in SubThread : realtime[p] > 0 /\ thread[p][j] # -1 =>
    \A i \in 0 .. j - 1 : Rank(p, i) # -1 => Rank(p, i) > thread[p][j]

=============================================================================
