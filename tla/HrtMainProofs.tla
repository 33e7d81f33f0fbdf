------------------------- MODULE HrtMainProofs -------------------------
(***************************************************************************)
(* Proofs about HrtMain, for any number of instances and tasks and any     *)
(* priorities asked for. Three invariants, each inductive together with    *)
(* TypeOK: how far the start has come tells what there is to undo          *)
(* (Stages), which priorities are in force (Priorities), and whether an    *)
(* instance can have written its pid (Pids).                               *)
(***************************************************************************)
EXTENDS HrtMain, TLAPS

(* Before its step has come, nothing is there to be undone.                *)
Stages ==
  \A p \in Proc :
    /\ pc[p] \in {"get_options", "daemon", "create", "refused"}
       => pdserv[p] = "none"
    /\ pc[p] \in {"get_options", "daemon", "create", "messages", "prepare",
                  "init", "refused"}
       => model[p] = "none"
    /\ pc[p] = "remove_pid"
       => pdserv[p] = "exited" /\ model[p] = "terminated"

(* The main thread is real-time exactly with the priority that the         *)
(* sub-threads' are taken from; there are no sub-threads before.           *)
Priorities ==
  \A p \in Proc :
    /\ pc[p] \in {"get_options", "daemon", "create", "messages", "prepare",
                  "init", "sched", "open_pid", "write_pid", "threads"}
       => \A i \in SubThread : thread[p][i] = -1
    /\ pc[p] \in {"get_options", "daemon", "create", "messages", "prepare",
                  "init", "sched"}
       => realtime[p] = 0
    /\ pc[p] \in {"open_pid", "write_pid", "threads"}
       => \/ priority[p] = -1 /\ realtime[p] = 0
          \/ priority[p] = realtime[p] /\ realtime[p] \in 1 .. MaxPriority

(* An instance has not written its pid before it gets there, nor at all    *)
(* without the option.                                                     *)
Pids ==
  \A p \in Proc :
    /\ pc[p] \in {"open_pid", "write_pid", "remove_pid"} => PidPath(p)
    /\ (~PidPath(p) \/ pc[p] \in {"get_options", "daemon", "create",
           "messages", "prepare", "init", "sched", "open_pid", "write_pid"})
       => \A n \in Proc : written[n] # p

-----------------------------------------------------------------------------
(* What each step keeps *)

(* Whether the write succeeds or not, the open file holds one pid or none. *)
LEMMA WriteEffect ==
  ASSUME NEW p \in Proc, TypeOK, WritePidFile(p)
  PROVE  /\ open[p] \in Proc
         /\ written' \in [Proc -> Proc \cup {NoProc}]
         /\ written'[open[p]] \in {written[open[p]], p, NoProc}
         /\ \A n \in Proc \ {open[p]} : written'[n] = written[n]
         /\ pidFile' \in {NoProc, pidFile}
         /\ kept' = kept
<1>1. open[p] \in Proc
  BY DEF WritePidFile, TypeOK
<1>2. PICK w \in {written[open[p]], p, NoProc} :
        written' = [written EXCEPT ![open[p]] = w]
  BY DEF WritePidFile
<1>3. w \in Proc \cup {NoProc}
  BY <1>1 DEF TypeOK
<1>4. pidFile' \in {NoProc, pidFile} /\ kept' = kept
  BY DEF WritePidFile
<1> QED BY <1>1, <1>2, <1>3, <1>4 DEF TypeOK

LEMMA TypeStep ==
  ASSUME NEW p \in Proc, TypeOK, Priorities,
         StartUp(p) \/ ShutDown(p) \/ Kill(p)
  PROVE  TypeOK'
<1>1. CASE GetOptions(p)
  BY <1>1 DEF GetOptions, Goto, TypeOK, Label, pidVars
<1>2. CASE BecomeDaemon(p)
  BY <1>2 DEF BecomeDaemon, Goto, TypeOK, Label, pidVars
<1>3. CASE CreateServer(p)
  BY <1>3 DEF CreateServer, Goto, TypeOK, Label, pidVars
<1>4. CASE RegisterMessages(p)
  BY <1>4 DEF RegisterMessages, Goto, TypeOK, Label, pidVars
<1>5. CASE PrepareServer(p)
  BY <1>5 DEF PrepareServer, Goto, TypeOK, Label, pidVars
<1>6. CASE InitApplication(p)
  BY <1>6 DEF InitApplication, Goto, TypeOK, Label, pidVars
<1>7. CASE SetPriority(p)
  BY <1>7, PriorityAssumption DEF SetPriority, Asked, Goto, TypeOK, Label,
                                  pidVars
<1>8. CASE OpenPidFile(p)
  <2>1. CASE pidVars' = pidVars /\ pc' = [pc EXCEPT ![p] = "threads"]
    BY <1>8, <2>1 DEF OpenPidFile, TypeOK, Label, pidVars
  <2>2. CASE \E f \in Proc :
          /\ pidFile' = f /\ (f = p \/ f = pidFile)
          /\ written' = [written EXCEPT ![f] = NoProc]
          /\ open' = [open EXCEPT ![p] = f]
          /\ kept' = kept
          /\ pc' = [pc EXCEPT ![p] = "write_pid"]
    BY <1>8, <2>2, ProcAssumption DEF OpenPidFile, TypeOK, Label
  <2> QED BY <1>8, <2>1, <2>2 DEF OpenPidFile, Goto, TypeOK, pidVars
<1>9. CASE WritePidFile(p)
  <2>1. open' \in [Proc -> Proc \cup {NoProc}] /\ pidFile' \in Proc \cup {NoProc}
    BY <1>9 DEF WritePidFile, TypeOK
  <2>2. pc' \in [Proc -> Label] /\ \A q \in Proc : pc'[q] = "write_pid"
          => open'[q] # NoProc
    BY <1>9 DEF WritePidFile, Goto, TypeOK, Label
  <2> QED BY <1>9, <2>1, <2>2, WriteEffect DEF WritePidFile, TypeOK
<1>10. CASE StartThreads(p)
  <2>1. \A i \in SubThread :
          ThreadPriority(p, i) \in 0 .. MaxPriority
    BY <1>10, PriorityAssumption, TaskAssumption
       DEF TypeOK, SubThread, Priorities, StartThreads, ThreadPriority
  <2>2. PICK missing \in SUBSET SubThread :
          thread' = [thread EXCEPT ![p] =
            [i \in SubThread |->
               IF i \in missing THEN -1 ELSE ThreadPriority(p, i)]]
    BY <1>10 DEF StartThreads
  <2>3. \A i \in SubThread :
          (IF i \in missing THEN -1 ELSE ThreadPriority(p, i))
          \in -1 .. MaxPriority
    BY <2>1, PriorityAssumption
  <2>4. thread' \in [Proc -> [SubThread -> -1 .. MaxPriority]]
    BY <2>2, <2>3 DEF TypeOK
  <2> QED BY <1>10, <2>4 DEF StartThreads, Goto, TypeOK, Label, pidVars
<1>11. CASE JoinThreads(p)
  BY <1>11 DEF JoinThreads, Goto, TypeOK, Label, pidVars
<1>12. CASE CleanUp(p)
  BY <1>12 DEF CleanUp, Goto, TypeOK, Label, pidVars
<1>13. CASE RemovePidFile(p)
  BY <1>13 DEF RemovePidFile, Goto, TypeOK, Label, pidVars
<1>14. CASE Kill(p)
  BY <1>14 DEF Kill, Goto, TypeOK, Label, pidVars
<1> QED BY <1>1, <1>2, <1>3, <1>4, <1>5, <1>6, <1>7, <1>8, <1>9, <1>10,
           <1>11, <1>12, <1>13, <1>14
        DEF StartUp, ShutDown

LEMMA StagesStep ==
  ASSUME NEW p \in Proc, TypeOK, Stages,
         StartUp(p) \/ ShutDown(p) \/ Kill(p)
  PROVE  Stages'
<1>1. CASE GetOptions(p)
  BY <1>1 DEF GetOptions, Goto, Stages, TypeOK
<1>2. CASE BecomeDaemon(p)
  BY <1>2 DEF BecomeDaemon, Goto, Stages, TypeOK
<1>3. CASE CreateServer(p)
  BY <1>3 DEF CreateServer, Goto, Stages, TypeOK
<1>4. CASE RegisterMessages(p)
  BY <1>4 DEF RegisterMessages, Goto, Stages, TypeOK
<1>5. CASE PrepareServer(p)
  BY <1>5 DEF PrepareServer, Goto, Stages, TypeOK
<1>6. CASE InitApplication(p)
  BY <1>6 DEF InitApplication, Goto, Stages, TypeOK
<1>7. CASE SetPriority(p)
  BY <1>7 DEF SetPriority, Goto, Stages, TypeOK
<1>8. CASE OpenPidFile(p)
  BY <1>8 DEF OpenPidFile, Goto, Stages, TypeOK
<1>9. CASE WritePidFile(p)
  BY <1>9 DEF WritePidFile, Goto, Stages, TypeOK
<1>10. CASE StartThreads(p)
  BY <1>10 DEF StartThreads, Goto, Stages, TypeOK
<1>11. CASE JoinThreads(p)
  BY <1>11 DEF JoinThreads, Goto, Stages, TypeOK
<1>12. CASE CleanUp(p)
  BY <1>12 DEF CleanUp, Goto, Stages, TypeOK
<1>13. CASE RemovePidFile(p)
  BY <1>13 DEF RemovePidFile, Goto, Stages, TypeOK
<1>14. CASE Kill(p)
  BY <1>14 DEF Kill, Goto, Stages, TypeOK
<1> QED BY <1>1, <1>2, <1>3, <1>4, <1>5, <1>6, <1>7, <1>8, <1>9, <1>10,
           <1>11, <1>12, <1>13, <1>14
        DEF StartUp, ShutDown

LEMMA PrioritiesStep ==
  ASSUME NEW p \in Proc, TypeOK, Priorities,
         StartUp(p) \/ ShutDown(p) \/ Kill(p)
  PROVE  Priorities'
<1>1. CASE GetOptions(p)
  BY <1>1 DEF GetOptions, Goto, Priorities, TypeOK
<1>2. CASE BecomeDaemon(p)
  BY <1>2 DEF BecomeDaemon, Goto, Priorities, TypeOK
<1>3. CASE CreateServer(p)
  BY <1>3 DEF CreateServer, Goto, Priorities, TypeOK
<1>4. CASE RegisterMessages(p)
  BY <1>4 DEF RegisterMessages, Goto, Priorities, TypeOK
<1>5. CASE PrepareServer(p)
  BY <1>5 DEF PrepareServer, Goto, Priorities, TypeOK
<1>6. CASE InitApplication(p)
  BY <1>6 DEF InitApplication, Goto, Priorities, TypeOK
<1>7. CASE SetPriority(p)
  BY <1>7 DEF SetPriority, Asked, Goto, Priorities, TypeOK
<1>8. CASE OpenPidFile(p)
  BY <1>8 DEF OpenPidFile, Goto, Priorities, TypeOK
<1>9. CASE WritePidFile(p)
  BY <1>9 DEF WritePidFile, Goto, Priorities, TypeOK
<1>10. CASE StartThreads(p)
  BY <1>10 DEF StartThreads, Goto, Priorities, TypeOK
<1>11. CASE JoinThreads(p)
  BY <1>11 DEF JoinThreads, Goto, Priorities, TypeOK
<1>12. CASE CleanUp(p)
  BY <1>12 DEF CleanUp, Goto, Priorities, TypeOK
<1>13. CASE RemovePidFile(p)
  BY <1>13 DEF RemovePidFile, Goto, Priorities, TypeOK
<1>14. CASE Kill(p)
  BY <1>14 DEF Kill, Goto, Priorities, TypeOK
<1> QED BY <1>1, <1>2, <1>3, <1>4, <1>5, <1>6, <1>7, <1>8, <1>9, <1>10,
           <1>11, <1>12, <1>13, <1>14
        DEF StartUp, ShutDown

LEMMA PidsStep ==
  ASSUME NEW p \in Proc, TypeOK, Pids,
         StartUp(p) \/ ShutDown(p) \/ Kill(p)
  PROVE  Pids'
<1>1. CASE GetOptions(p)
  BY <1>1 DEF GetOptions, Goto, Pids, PidPath, TypeOK, pidVars
<1>2. CASE BecomeDaemon(p)
  BY <1>2 DEF BecomeDaemon, Goto, Pids, PidPath, TypeOK, pidVars
<1>3. CASE CreateServer(p)
  BY <1>3 DEF CreateServer, Goto, Pids, PidPath, TypeOK, pidVars
<1>4. CASE RegisterMessages(p)
  BY <1>4 DEF RegisterMessages, Goto, Pids, PidPath, TypeOK, pidVars
<1>5. CASE PrepareServer(p)
  BY <1>5 DEF PrepareServer, Goto, Pids, PidPath, TypeOK, pidVars
<1>6. CASE InitApplication(p)
  BY <1>6 DEF InitApplication, Goto, Pids, PidPath, TypeOK, pidVars
<1>7. CASE SetPriority(p)
  BY <1>7 DEF SetPriority, Goto, Pids, PidPath, TypeOK, pidVars
<1>8. CASE OpenPidFile(p)
  <2>1. CASE pidVars' = pidVars /\ pc' = [pc EXCEPT ![p] = "threads"]
    BY <1>8, <2>1 DEF OpenPidFile, Pids, PidPath, TypeOK, pidVars
  <2>2. CASE \E f \in Proc :
          /\ pidFile' = f /\ (f = p \/ f = pidFile)
          /\ written' = [written EXCEPT ![f] = NoProc]
          /\ open' = [open EXCEPT ![p] = f]
          /\ kept' = kept
          /\ pc' = [pc EXCEPT ![p] = "write_pid"]
    BY <1>8, <2>2, ProcAssumption DEF OpenPidFile, Pids, PidPath, TypeOK
  <2> QED BY <1>8, <2>1, <2>2 DEF OpenPidFile, Goto, TypeOK, pidVars
<1>9. CASE WritePidFile(p)
  <2>1. PidPath(p)
    BY <1>9 DEF WritePidFile, Pids
  <2>2. ASSUME NEW q \in Proc
        PROVE  /\ PidPath(q)' <=> PidPath(q)
               /\ pc'[q] = IF q = p THEN "threads" ELSE pc[q]
    BY <1>9 DEF WritePidFile, Goto, PidPath, TypeOK
  <2>3. ASSUME NEW q \in Proc, q # p, NEW n \in Proc, written[n] # q,
               \A m \in Proc : written[m] # q
        PROVE  written'[n] # q
    BY <1>9, <2>3, WriteEffect, ProcAssumption
  <2> QED BY <2>1, <2>2, <2>3 DEF Pids
<1>10. CASE StartThreads(p)
  BY <1>10 DEF StartThreads, Goto, Pids, PidPath, TypeOK, pidVars
<1>11. CASE JoinThreads(p)
  BY <1>11 DEF JoinThreads, Goto, Pids, PidPath, TypeOK, pidVars
<1>12. CASE CleanUp(p)
  BY <1>12 DEF CleanUp, Goto, Pids, PidPath, TypeOK, pidVars
<1>13. CASE RemovePidFile(p)
  BY <1>13 DEF RemovePidFile, Goto, Pids, PidPath, TypeOK, pidVars
<1>14. CASE Kill(p)
  BY <1>14 DEF Kill, Goto, Pids, PidPath, TypeOK, pidVars
<1> QED BY <1>1, <1>2, <1>3, <1>4, <1>5, <1>6, <1>7, <1>8, <1>9, <1>10,
           <1>11, <1>12, <1>13, <1>14
        DEF StartUp, ShutDown

-----------------------------------------------------------------------------
(* The invariant *)

IInv == /\ TypeOK /\ Stages /\ Priorities /\ Pids
        /\ EverythingUndone /\ RateMonotonic /\ PidFileIsFresh

LEMMA InitIInv == Init => IInv
<1> SUFFICES ASSUME Init PROVE IInv
  OBVIOUS
<1>1. TypeOK
  <2>1. priority \in [Proc -> Int]
    BY RequestAssumption DEF Init
  <2>2. realtime \in [Proc -> 0 .. MaxPriority]
    BY PriorityAssumption DEF Init
  <2>3. thread \in [Proc -> [SubThread -> -1 .. MaxPriority]]
    <3>1. [i \in SubThread |-> -1] \in [SubThread -> -1 .. MaxPriority]
      BY PriorityAssumption
    <3> QED BY <3>1 DEF Init
  <2> QED BY <2>1, <2>2, <2>3 DEF Init, TypeOK, Label
<1>2. Stages /\ Priorities /\ EverythingUndone /\ RateMonotonic
  BY DEF Init, Stages, Priorities, EverythingUndone, RateMonotonic
<1>3. Pids /\ PidFileIsFresh
  BY ProcAssumption DEF Init, Pids, PidFileIsFresh
<1> QED BY <1>1, <1>2, <1>3 DEF IInv

LEMMA UndoneStep ==
  ASSUME NEW p \in Proc, TypeOK, Stages, EverythingUndone,
         StartUp(p) \/ ShutDown(p) \/ Kill(p)
  PROVE  EverythingUndone'
<1>1. CASE GetOptions(p)
  BY <1>1 DEF GetOptions, Goto, EverythingUndone, Stages, TypeOK
<1>2. CASE BecomeDaemon(p)
  BY <1>2 DEF BecomeDaemon, Goto, EverythingUndone, Stages, TypeOK
<1>3. CASE CreateServer(p)
  BY <1>3 DEF CreateServer, Goto, EverythingUndone, Stages, TypeOK
<1>4. CASE RegisterMessages(p)
  BY <1>4 DEF RegisterMessages, Goto, EverythingUndone, Stages, TypeOK
<1>5. CASE PrepareServer(p)
  BY <1>5 DEF PrepareServer, Goto, EverythingUndone, Stages, TypeOK
<1>6. CASE InitApplication(p)
  BY <1>6 DEF InitApplication, Goto, EverythingUndone, Stages, TypeOK
<1>7. CASE SetPriority(p)
  BY <1>7 DEF SetPriority, Goto, EverythingUndone, Stages, TypeOK
<1>8. CASE OpenPidFile(p)
  BY <1>8, ProcAssumption DEF OpenPidFile, Goto, EverythingUndone, Stages, TypeOK
<1>9. CASE WritePidFile(p)
  BY <1>9 DEF WritePidFile, Goto, EverythingUndone, Stages, TypeOK
<1>10. CASE StartThreads(p)
  BY <1>10 DEF StartThreads, Goto, EverythingUndone, Stages, TypeOK
<1>11. CASE JoinThreads(p)
  BY <1>11 DEF JoinThreads, Goto, EverythingUndone, Stages, TypeOK
<1>12. CASE CleanUp(p)
  BY <1>12 DEF CleanUp, Goto, EverythingUndone, Stages, TypeOK
<1>13. CASE RemovePidFile(p)
  BY <1>13 DEF RemovePidFile, Goto, EverythingUndone, Stages, TypeOK
<1>14. CASE Kill(p)
  BY <1>14 DEF Kill, Goto, EverythingUndone, Stages, TypeOK
<1> QED BY <1>1, <1>2, <1>3, <1>4, <1>5, <1>6, <1>7, <1>8, <1>9, <1>10,
           <1>11, <1>12, <1>13, <1>14
        DEF StartUp, ShutDown

LEMMA RateStep ==
  ASSUME NEW p \in Proc, TypeOK, Priorities, RateMonotonic,
         StartUp(p) \/ ShutDown(p) \/ Kill(p)
  PROVE  RateMonotonic'
<1>1. CASE GetOptions(p)
  BY <1>1 DEF GetOptions, Goto, RateMonotonic, Rank, Priorities,
     TypeOK
<1>2. CASE BecomeDaemon(p)
  BY <1>2 DEF BecomeDaemon, Goto, RateMonotonic, Rank, Priorities,
     TypeOK
<1>3. CASE CreateServer(p)
  BY <1>3 DEF CreateServer, Goto, RateMonotonic, Rank, Priorities,
     TypeOK
<1>4. CASE RegisterMessages(p)
  BY <1>4 DEF RegisterMessages, Goto, RateMonotonic, Rank, Priorities,
     TypeOK
<1>5. CASE PrepareServer(p)
  BY <1>5 DEF PrepareServer, Goto, RateMonotonic, Rank, Priorities,
     TypeOK
<1>6. CASE InitApplication(p)
  BY <1>6 DEF InitApplication, Goto, RateMonotonic, Rank, Priorities,
     TypeOK
<1>7. CASE SetPriority(p)
  BY <1>7 DEF SetPriority, Goto, RateMonotonic, Rank, Priorities,
     TypeOK
<1>8. CASE OpenPidFile(p)
  BY <1>8, ProcAssumption DEF OpenPidFile, Goto, RateMonotonic, Rank, Priorities,
     TypeOK
<1>9. CASE WritePidFile(p)
  BY <1>9 DEF WritePidFile, Goto, RateMonotonic, Rank, Priorities,
     TypeOK
<1>10. CASE StartThreads(p)
  <2>1. \A i \in SubThread : i \in Nat /\ i >= 1
    BY TaskAssumption DEF SubThread
  <2>2. \A i \in SubThread : thread'[p][i] \in {-1, ThreadPriority(p, i)}
    BY <1>10 DEF StartThreads, TypeOK
  <2>3. realtime' = realtime /\ \A q \in Proc \ {p} : thread'[q] = thread[q]
    BY <1>10 DEF StartThreads, TypeOK
  <2>4. \/ priority[p] = -1 /\ realtime[p] = 0
        \/ priority[p] = realtime[p] /\ realtime[p] \in 1 .. MaxPriority
    BY <1>10 DEF StartThreads, Priorities
  <2>5. ASSUME NEW j \in SubThread, thread'[p][j] # -1
        PROVE  /\ thread'[p][j] <= realtime[p]
               /\ realtime[p] > 0 => thread'[p][j] > 0
               /\ j < realtime[p] => thread'[p][j] = realtime[p] - j
    BY <2>1, <2>2, <2>4, <2>5, PriorityAssumption DEF ThreadPriority
  <2>6. ASSUME NEW j \in SubThread, thread'[p][j] # -1, j < realtime[p],
               NEW i \in 0 .. j - 1, Rank(p, i)' # -1
        PROVE  Rank(p, i)' > thread'[p][j]
    <3>1. thread'[p][j] = realtime[p] - j /\ realtime[p] \in Int
      BY <2>5, <2>6 DEF TypeOK
    <3>2. CASE i = 0
      BY <2>1, <2>3, <3>1, <3>2 DEF Rank
    <3>3. CASE i # 0
      <4>1. i \in SubThread /\ i < j /\ i < realtime[p]
        BY <2>1, <2>6, <3>1, <3>3, TaskAssumption DEF SubThread
      <4>2. thread'[p][i] = realtime[p] - i /\ Rank(p, i)' = thread'[p][i]
        BY <2>5, <2>6, <3>3, <4>1 DEF Rank
      <4> QED BY <2>1, <3>1, <4>1, <4>2
    <3> QED BY <3>2, <3>3
  <2>7. ASSUME NEW q \in Proc, q # p
        PROVE  thread'[q] = thread[q] /\ \A i : Rank(q, i)' = Rank(q, i)
    BY <2>3, <2>7 DEF Rank
  <2>8. ASSUME NEW q \in Proc, NEW j \in SubThread, thread'[q][j] # -1
        PROVE  /\ thread'[q][j] <= realtime'[q]
               /\ realtime'[q] > 0 => thread'[q][j] > 0
               /\ j < realtime'[q] =>
                    \A i \in 0 .. j - 1 :
                      Rank(q, i)' # -1 => Rank(q, i)' > thread'[q][j]
    <3>1. CASE q = p
      BY <2>3, <2>5, <2>6, <2>8, <3>1
    <3>2. CASE q # p
      BY <2>3, <2>7, <2>8, <3>2 DEF RateMonotonic
    <3> QED BY <3>1, <3>2
  <2> QED BY <2>8 DEF RateMonotonic
<1>11. CASE JoinThreads(p)
  BY <1>11 DEF JoinThreads, Goto, RateMonotonic, Rank, Priorities,
     TypeOK
<1>12. CASE CleanUp(p)
  BY <1>12 DEF CleanUp, Goto, RateMonotonic, Rank, Priorities,
     TypeOK
<1>13. CASE RemovePidFile(p)
  BY <1>13 DEF RemovePidFile, Goto, RateMonotonic, Rank, Priorities,
     TypeOK
<1>14. CASE Kill(p)
  BY <1>14 DEF Kill, Goto, RateMonotonic, Rank, Priorities,
     TypeOK
<1> QED BY <1>1, <1>2, <1>3, <1>4, <1>5, <1>6, <1>7, <1>8, <1>9, <1>10,
           <1>11, <1>12, <1>13, <1>14
        DEF StartUp, ShutDown

LEMMA FreshStep ==
  ASSUME NEW p \in Proc, TypeOK, Pids, PidFileIsFresh,
         StartUp(p) \/ ShutDown(p) \/ Kill(p)
  PROVE  PidFileIsFresh'
<1>1. CASE GetOptions(p)
  BY <1>1 DEF GetOptions, Goto, PidFileIsFresh, Pids, PidPath, TypeOK, pidVars
<1>2. CASE BecomeDaemon(p)
  BY <1>2
     DEF BecomeDaemon, Goto, PidFileIsFresh, Pids, PidPath, TypeOK, pidVars
<1>3. CASE CreateServer(p)
  BY <1>3
     DEF CreateServer, Goto, PidFileIsFresh, Pids, PidPath, TypeOK, pidVars
<1>4. CASE RegisterMessages(p)
  BY <1>4
     DEF RegisterMessages, Goto, PidFileIsFresh, Pids, PidPath, TypeOK, pidVars
<1>5. CASE PrepareServer(p)
  BY <1>5
     DEF PrepareServer, Goto, PidFileIsFresh, Pids, PidPath, TypeOK, pidVars
<1>6. CASE InitApplication(p)
  BY <1>6
     DEF InitApplication, Goto, PidFileIsFresh, Pids, PidPath, TypeOK, pidVars
<1>7. CASE SetPriority(p)
  BY <1>7
     DEF SetPriority, Goto, PidFileIsFresh, Pids, PidPath, TypeOK, pidVars
<1>8. CASE OpenPidFile(p)
  <2>1. CASE pidVars' = pidVars /\ pc' = [pc EXCEPT ![p] = "threads"]
    BY <1>8, <2>1 DEF OpenPidFile, PidFileIsFresh, TypeOK, pidVars
  <2>2. CASE \E f \in Proc :
          /\ pidFile' = f /\ (f = p \/ f = pidFile)
          /\ written' = [written EXCEPT ![f] = NoProc]
          /\ open' = [open EXCEPT ![p] = f]
          /\ kept' = kept
          /\ pc' = [pc EXCEPT ![p] = "write_pid"]
    BY <1>8, <2>2, ProcAssumption DEF OpenPidFile, PidFileIsFresh, TypeOK
  <2> QED BY <1>8, <2>1, <2>2 DEF OpenPidFile, Goto, TypeOK, pidVars
<1>9. CASE WritePidFile(p)
  <2>1. ASSUME NEW q \in Proc, pc'[q] \in {"exit0", "exit1"}
        PROVE  pc[q] \in {"exit0", "exit1"} /\ q # p
    BY <1>9, <2>1 DEF WritePidFile, Goto, TypeOK
  <2>2. ASSUME NEW q \in Proc, pc'[q] \in {"exit0", "exit1"},
               pidFile' # NoProc, q \notin kept
        PROVE  written'[pidFile'] # q
    <3>1. pidFile' = pidFile /\ pidFile \in Proc /\ written[pidFile] # q
      BY <1>9, <2>1, <2>2, WriteEffect DEF PidFileIsFresh, TypeOK
    <3> QED BY <1>9, <2>1, <2>2, <3>1, WriteEffect, ProcAssumption
  <2> QED BY <1>9, <2>2, WriteEffect DEF PidFileIsFresh
<1>10. CASE StartThreads(p)
  BY <1>10
     DEF StartThreads, Goto, PidFileIsFresh, Pids, PidPath, TypeOK, pidVars
<1>11. CASE JoinThreads(p)
  BY <1>11
     DEF JoinThreads, Goto, PidFileIsFresh, Pids, PidPath, TypeOK, pidVars
<1>12. CASE CleanUp(p)
  BY <1>12 DEF CleanUp, Goto, PidFileIsFresh, Pids, PidPath, TypeOK, pidVars
<1>13. CASE RemovePidFile(p)
  BY <1>13
     DEF RemovePidFile, Goto, PidFileIsFresh, Pids, PidPath, TypeOK, pidVars
<1>14. CASE Kill(p)
  BY <1>14 DEF Kill, Goto, PidFileIsFresh, Pids, PidPath, TypeOK, pidVars
<1> QED BY <1>1, <1>2, <1>3, <1>4, <1>5, <1>6, <1>7, <1>8, <1>9, <1>10,
           <1>11, <1>12, <1>13, <1>14
        DEF StartUp, ShutDown

LEMMA IInvHolds == Spec => []IInv
<1>1. IInv /\ [Next]_vars => IInv'
  <2> SUFFICES ASSUME IInv, [Next]_vars PROVE IInv'
    OBVIOUS
  <2>1. CASE Next
    <3> PICK p \in Proc : StartUp(p) \/ ShutDown(p) \/ Kill(p)
      BY <2>1 DEF Next
    <3> QED BY TypeStep, StagesStep, PrioritiesStep, PidsStep, UndoneStep,
               RateStep, FreshStep DEF IInv
  <2>2. CASE UNCHANGED vars
    BY <2>2 DEF vars, pidVars, IInv, TypeOK, Stages, Priorities, Pids, PidPath,
                EverythingUndone, RateMonotonic, Rank, PidFileIsFresh
  <2> QED BY <2>1, <2>2
<1> QED BY <1>1, InitIInv, PTL DEF Spec

-----------------------------------------------------------------------------
(* The theorems *)

(* No thread is ever given a priority that SCHED_FIFO does not have, and   *)
(* no pid is written without an open file.                                 *)
THEOREM TypeCorrect == Spec => []TypeOK
<1>1. IInv => TypeOK
  BY DEF IInv
<1> QED BY <1>1, IInvHolds, PTL

(* Whatever step of the start fails, an instance that ends on its own      *)
(* leaves neither pdserv open nor the model initialised.                   *)
THEOREM Undone == Spec => []EverythingUndone
<1>1. IInv => EverythingUndone
  BY DEF IInv
<1> QED BY <1>1, IInvHolds, PTL

(* Whatever priority is asked for and granted, no task outranks the        *)
(* fastest, and a slower task has a lower priority than a faster one if    *)
(* the one asked for leaves room for it.                                   *)
THEOREM RatesInOrder == Spec => []RateMonotonic
<1>1. IInv => RateMonotonic
  BY DEF IInv
<1> QED BY <1>1, IInvHolds, PTL

(* However many instances share a PID file, killed ones among them, it     *)
(* names one that ended on its own only if its removal was refused then.   *)
THEOREM PidFileCorrect == Spec => []PidFileIsFresh
<1>1. IInv => PidFileIsFresh
  BY DEF IInv
<1> QED BY <1>1, IInvHolds, PTL

=============================================================================
