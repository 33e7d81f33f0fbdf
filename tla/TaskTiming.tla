---------------------------- MODULE TaskTiming ----------------------------
(***************************************************************************)
(* The times at which the tasks of src/rtw/src/hrt_main.c run, and the     *)
(* statistics they report: how main lays down the first start times, and   *)
(* how run_task goes on from there. Locks and the end of the loop are left *)
(* to HrtTasks. All times are in ns of CLOCK_MONOTONIC.                    *)
(*                                                                         *)
(* Nothing bounds how late a thread wakes or how long a cycle takes.       *)
(***************************************************************************)
EXTENDS Integers

CONSTANTS
  NumTasks,    \* NUMTASKS
  SampleTime,  \* sample_time of each task, a whole number of ns
  ShiftTime,   \* sample_time * 1e9 of the slowest task, cut to an integer
  Phase,       \* the option --start-phase, -1 for none
  Lead,        \* the 100 ms by which main delays the first cycle
  Word,        \* 2^32, the range of the unsigned ints; less to model-check
  Boot,        \* bound: values of the clock when main reads it
  MaxClock     \* bound: last value of the clock

Task    == 0 .. NumTasks - 1
Slowest == NumTasks - 1

ASSUME TaskAssumption == NumTasks \in Nat \ {0} /\ Word \in Nat \ {0}
(* dt is an unsigned int: the period of a slower task would wrap. *)
ASSUME SampleAssumption == SampleTime \in [Task -> 1 .. Word - 1]
(* The product of two doubles may come out just below the whole number. *)
ASSUME ShiftAssumption ==
  ShiftTime \in {SampleTime[Slowest], SampleTime[Slowest] - 1} \ {0}
ASSUME PhaseAssumption == Phase \in -1 .. 99 /\ Lead \in Nat
ASSUME ClockAssumption == Boot \subseteq Nat /\ MaxClock \in Nat

VARIABLES
  clock,       \* CLOCK_MONOTONIC
  pc,          \* where a task is: "new", "sleep" or "run"
  monotonic,   \* thread_task.monotonic_time: when the next cycle starts
  start_time, last_start, end_time, overruns,  \* locals of run_task
  stats,       \* the statistics last handed to pdserv
  base,        \* history: the start time without the phase
  cycles,      \* history: the cycles that a task has finished
  fits         \* history: whether the period last reported fits into a word

taskVars == <<pc, monotonic, start_time, last_start, end_time, overruns,
              stats, cycles, fits>>
vars == <<clock, base, taskVars>>

Init ==
  /\ clock \in Boot
  /\ pc = [i \in Task |-> "new"]
  /\ monotonic = [i \in Task |-> 0]
  /\ start_time = [i \in Task |-> 0]
  /\ last_start = [i \in Task |-> 0]
  /\ end_time = [i \in Task |-> 0]
  /\ overruns = [i \in Task |-> 0]
  /\ stats = [i \in Task |-> [exec |-> 0, period |-> 0, overruns |-> 0]]
  /\ base = 0
  /\ cycles = [i \in Task |-> 0]
  /\ fits = [i \in Task |-> TRUE]

(* main delays the start to a multiple of the slowest sample time ... *)
FirstStart(t) == IF Phase >= 0 THEN t + (ShiftTime - (t % ShiftTime)) ELSE t

(* ... and each task by its part of the phase. *)
PhaseDelay(i) == IF Phase >= 0 THEN (SampleTime[i] * Phase) \div 100 ELSE 0

(* Mutant: the tasks are delayed, and then the slowest is aligned. *)
StartTasksUnaligned ==
  /\ \A i \in Task : pc[i] = "new"
  /\ base' = clock + Lead
  /\ monotonic' = [i \in Task |-> base' + PhaseDelay(i)]
  /\ last_start' = monotonic' /\ end_time' = monotonic'
  /\ pc' = [i \in Task |-> "sleep"]
  /\ UNCHANGED <<clock, start_time, overruns, stats, cycles, fits>>

(* main sets all start times; run_task begins with them. *)
StartTasks ==
  /\ \A i \in Task : pc[i] = "new"
  /\ base' = FirstStart(clock + Lead)
  /\ monotonic' = [i \in Task |-> base' + PhaseDelay(i)]
  /\ last_start' = monotonic' /\ end_time' = monotonic'
  /\ pc' = [i \in Task |-> "sleep"]
  /\ UNCHANGED <<clock, start_time, overruns, stats, cycles, fits>>

(* clock_nanosleep returns at monotonic_time, at once if it has passed. *)
WakeUp(i) ==
  /\ pc[i] = "sleep"
  /\ clock >= monotonic[i]
  /\ start_time' = [start_time EXCEPT ![i] = clock]
  /\ pc' = [pc EXCEPT ![i] = "run"]
  /\ UNCHANGED <<clock, monotonic, last_start, end_time, overruns, stats,
                 base, cycles, fits>>

(* Mutant: the differences are not cut to a word.                         *)
ReportUncut(i, from, to) ==
  /\ stats' = [stats EXCEPT ![i] = [exec |-> to - from,
                                    period |-> start_time[i] - from,
                                    overruns |-> overruns[i]]]
  /\ fits' = [fits EXCEPT ![i] = TRUE]
  /\ last_start' = [last_start EXCEPT ![i] = start_time[i]]

(* The statistics of the cycle that ended before this one began.          *)
Report(i, from, to) ==
  /\ stats' = [stats EXCEPT ![i] = [exec |-> (to - from) % Word,
                                    period |-> (start_time[i] - from) % Word,
                                    overruns |-> overruns[i]]]
  /\ fits' = [fits EXCEPT ![i] = start_time[i] - from < Word]
  /\ last_start' = [last_start EXCEPT ![i] = start_time[i]]

(* What follows the report: the next start time, and the end of this one. *)
SleepUntil(i, t) ==
  /\ monotonic' = [monotonic EXCEPT ![i] = t]
  /\ end_time' = [end_time EXCEPT ![i] = clock]
  /\ overruns' = [overruns EXCEPT ![i] = IF clock > t THEN @ + 1 ELSE @]
  /\ cycles' = [cycles EXCEPT ![i] = @ + 1]
  /\ pc' = [pc EXCEPT ![i] = "sleep"]
  /\ UNCHANGED <<clock, start_time, base>>

(* Mutants: the next cycle counts from the actual start; cycles that are  *)
(* missed are left out; the end of this cycle is read before the report.  *)
SleepFromStart(i) ==
  /\ pc[i] = "run"
  /\ Report(i, last_start[i], end_time[i])
  /\ SleepUntil(i, start_time[i] + SampleTime[i])

LeaveOutCycles(i) ==
  /\ pc[i] = "run"
  /\ Report(i, last_start[i], end_time[i])
  /\ \E k \in 0 .. MaxClock :
       /\ k * SampleTime[i] <= clock - monotonic[i]
       /\ (k + 1) * SampleTime[i] > clock - monotonic[i]
       /\ SleepUntil(i, monotonic[i] + (k + 1) * SampleTime[i])

ReportLate(i) ==
  /\ pc[i] = "run"
  /\ Report(i, last_start[i], clock)
  /\ SleepUntil(i, monotonic[i] + SampleTime[i])

(* The end of a cycle: the statistics of the cycle before are reported,   *)
(* and the next start time is one period later, whatever the time is now. *)
FinishCycle(i) ==
  /\ pc[i] = "run"
  /\ Report(i, last_start[i], end_time[i])
  /\ SleepUntil(i, monotonic[i] + SampleTime[i])

Tick ==
  /\ clock < MaxClock
  /\ clock' = clock + 1
  /\ UNCHANGED <<base, taskVars>>

Next == \/ StartTasks
        \/ \E i \in Task : WakeUp(i) \/ FinishCycle(i)
        \/ Tick

Spec == Init /\ [][Next]_vars

-----------------------------------------------------------------------------
(* Properties *)

Statistics == [exec : 0 .. Word - 1, period : 0 .. Word - 1, overruns : Nat]

(* The types: no start time, and no end, goes below zero.                 *)
TypeOK ==
  /\ clock \in Nat /\ base \in Nat
  /\ pc \in [Task -> {"new", "sleep", "run"}]
  /\ monotonic \in [Task -> Nat] /\ start_time \in [Task -> Nat]
  /\ last_start \in [Task -> Nat] /\ end_time \in [Task -> Nat]
  /\ overruns \in [Task -> Nat] /\ cycles \in [Task -> Nat]
  /\ stats \in [Task -> Statistics] /\ fits \in [Task -> BOOLEAN]

Started(i) == pc[i] # "new"

(* When two tasks have run the same time span they start together, but    *)
(* for their phases: wake-up delays and overruns of one or the other leave *)
(* no trace in the distance of their start times.                         *)
TasksStayInPhase ==
  \A i, j \in Task :
    (/\ Started(i) /\ Started(j)
     /\ cycles[i] * SampleTime[i] = cycles[j] * SampleTime[j])
    => monotonic[i] - PhaseDelay(i) = monotonic[j] - PhaseDelay(j)

(* After an overrun a task makes up for every cycle it missed: when it    *)
(* has caught up, its period fits as often into the time since its first  *)
(* start as it has run, to the cycle that is due.                         *)
NoCycleIsLost ==
  \A i \in Task :
    (/\ pc[i] = "sleep" /\ clock < monotonic[i]
     /\ base + PhaseDelay(i) <= clock)
    => cycles[i] = (clock - base - PhaseDelay(i)) \div SampleTime[i] + 1

(* The execution time and the period that are reported together belong to *)
(* the same cycle, the one before: the load never exceeds 1, even when    *)
(* cycles overrun, as long as the period fits into a word.                *)
LoadAtMostOne ==
  \A i \in Task : fits[i] => stats[i].exec <= stats[i].period

(* "Delay start time of slowest task to an integral multiple of its       *)
(* sample time": so it is where the product of main is not cut, that is,  *)
(* where ShiftTime is the sample time. Where it is cut (65 us, for        *)
(* instance) the start is not on such a multiple.                         *)
StartsOnMultiple ==
  (Phase >= 0 /\ Started(Slowest)) => base % SampleTime[Slowest] = 0

=============================================================================
