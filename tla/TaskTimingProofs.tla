------------------------ MODULE TaskTimingProofs ------------------------
(***************************************************************************)
(* Proofs about TaskTiming, for any number of tasks, any sample times and  *)
(* any delays. The invariant behind all of them: a start time is the base, *)
(* the delay of the phase and a whole number of periods (OnTheGrid), and   *)
(* the times that run_task keeps of a cycle are in order (InOrder).        *)
(***************************************************************************)
EXTENDS TaskTiming, TLAPS

(* Every next start lies on the task's own grid.                          *)
OnTheGrid ==
  \A i \in Task :
    IF Started(i)
    THEN monotonic[i] = base + PhaseDelay(i) + cycles[i] * SampleTime[i]
    ELSE cycles[i] = 0

(* The last start, its end, the wake-up and the present follow each other. *)
InOrder ==
  \A i \in Task :
    /\ last_start[i] <= end_time[i]
    /\ pc[i] = "sleep" => (end_time[i] <= clock \/ end_time[i] = monotonic[i])
    /\ pc[i] = "run" => (/\ end_time[i] <= start_time[i]
                         /\ start_time[i] <= clock
                         /\ monotonic[i] <= start_time[i])

(* A task sleeps towards a cycle after one that was due already.           *)
Due ==
  \A i \in Task : (pc[i] = "sleep" /\ cycles[i] # 0)
                  => monotonic[i] - SampleTime[i] <= clock

IInv == TypeOK /\ OnTheGrid /\ InOrder /\ Due /\ LoadAtMostOne

-----------------------------------------------------------------------------
(* Arithmetic *)

LEMMA ProductNat ==
  ASSUME NEW a \in Nat, NEW b \in Nat
  PROVE  a * b \in Nat
  OBVIOUS

LEMMA NextMultiple ==
  ASSUME NEW a \in Nat, NEW b \in Nat
  PROVE  (a + 1) * b = a * b + b
  OBVIOUS

LEMMA SmallRemainder ==
  ASSUME NEW x \in Nat, NEW w \in Nat \ {0}
  PROVE  x % w \in 0 .. w - 1 /\ (x < w => x % w = x)
  OBVIOUS

LEMMA DivMod ==
  ASSUME NEW x \in Int, NEW s \in Nat \ {0}
  PROVE  /\ x % s \in 0 .. s - 1 /\ x \div s \in Int
         /\ x = s * (x \div s) + (x % s)
  OBVIOUS

LEMMA WholePeriods ==
  ASSUME NEW x \in Int, NEW c \in Nat \ {0}, NEW t \in Nat \ {0},
         (c - 1) * t <= x, x < (c - 1) * t + t
  PROVE  c = x \div t + 1
<1> DEFINE q == x \div t
           r == x % t
<1>1. q \in Int /\ r \in 0 .. t - 1 /\ x = t * q + r
  OBVIOUS
<1> HIDE DEF q, r
<1>2. ASSUME q > c - 1 PROVE FALSE
  <2>1. q - (c - 1) - 1 \in Nat
    BY <1>1, <1>2
  <2>2. t * (q - (c - 1) - 1) \in Nat
    BY <2>1, ProductNat
  <2>3. t * (q - (c - 1) - 1) = t * q - (c - 1) * t - t
    BY <1>1
  <2> QED BY <1>1, <2>2, <2>3
<1>3. ASSUME q < c - 1 PROVE FALSE
  <2>1. (c - 1) - q - 1 \in Nat
    BY <1>1, <1>3
  <2>2. t * ((c - 1) - q - 1) \in Nat
    BY <2>1, ProductNat
  <2>3. t * ((c - 1) - q - 1) = (c - 1) * t - t * q - t
    BY <1>1
  <2> QED BY <1>1, <2>2, <2>3
<1>4. q = c - 1
  BY <1>1, <1>2, <1>3
<1> QED BY <1>4 DEF q

LEMMA AlignedStart ==
  ASSUME NEW t \in Nat, NEW s \in Nat \ {0}
  PROVE  (t + (s - (t % s))) % s = 0
<1> DEFINE q == t \div s
           r == t % s
           b == t + (s - r)
<1>1. q \in Int /\ r \in 0 .. s - 1 /\ t = s * q + r
  OBVIOUS
<1>2. b = s * (q + 1)
  BY <1>1
<1>3. b \in Int
  BY <1>1
<1>4. b % s \in 0 .. s - 1 /\ b \div s \in Int
      /\ b = s * (b \div s) + (b % s)
  <2> HIDE DEF b
  <2> QED BY <1>3, DivMod
<1> DEFINE k == q + 1 - (b \div s)
<1>5. b % s = s * k
  <2> DEFINE z == b \div s
  <2>1. z \in Int /\ b = s * z + (b % s)
    BY <1>4
  <2> HIDE DEF z
  <2> QED BY <1>1, <1>2, <1>3, <2>1 DEF z
<1>6. k \in Int
  BY <1>1, <1>4
<1> HIDE DEF k
<1>7. ASSUME k > 0 PROVE FALSE
  <2>1. s * (k - 1) \in Nat
    BY <1>6, <1>7, ProductNat
  <2>2. s * (k - 1) = s * k - s
    BY <1>6
  <2> QED BY <1>4, <1>5, <1>6, <2>1, <2>2
<1>8. ASSUME k < 0 PROVE FALSE
  <2>1. s * (0 - k - 1) \in Nat
    BY <1>6, <1>8, ProductNat
  <2>2. s * (0 - k - 1) = 0 - s * k - s
    BY <1>6
  <2> QED BY <1>4, <1>5, <1>6, <2>1, <2>2
<1>9. b % s = 0
  BY <1>5, <1>6, <1>7, <1>8
<1> QED BY <1>9 DEF b

LEMMA DelayNat ==
  ASSUME NEW i \in Task
  PROVE  PhaseDelay(i) \in Nat
<1>1. SampleTime[i] \in Nat
  BY SampleAssumption, TaskAssumption
<1>2. CASE Phase >= 0
  <2>1. Phase \in Nat
    BY <1>2, PhaseAssumption
  <2>2. SampleTime[i] * Phase \in Nat
    BY <1>1, <2>1, ProductNat
  <2> DEFINE p == SampleTime[i] * Phase
  <2>3. p \div 100 \in Nat
    <3> HIDE DEF p
    <3>1. p \in Nat
      BY <2>2 DEF p
    <3> QED BY <3>1
  <2> QED BY <1>2, <2>3 DEF PhaseDelay, p
<1>3. CASE ~(Phase >= 0)
  BY <1>3 DEF PhaseDelay
<1> QED BY <1>2, <1>3

LEMMA FirstStartNat ==
  ASSUME NEW t \in Nat
  PROVE  FirstStart(t) \in Nat
<1>1. ShiftTime \in Nat \ {0}
  BY ShiftAssumption, SampleAssumption, TaskAssumption DEF Task, Slowest
<1>2. t % ShiftTime \in 0 .. ShiftTime - 1
  BY <1>1, SmallRemainder
<1> QED BY <1>1, <1>2 DEF FirstStart

-----------------------------------------------------------------------------
(* The invariant holds at first, and every step keeps it *)

LEMMA InitIInv == Init => IInv
<1> SUFFICES ASSUME Init PROVE IInv
  OBVIOUS
<1>1. 0 \in 0 .. Word - 1
  BY TaskAssumption
<1>2. TypeOK
  BY <1>1, ClockAssumption DEF Init, TypeOK, Statistics
<1>3. OnTheGrid /\ InOrder /\ Due /\ LoadAtMostOne
  BY DEF Init, OnTheGrid, InOrder, Due, LoadAtMostOne, Started
<1> QED BY <1>2, <1>3 DEF IInv

LEMMA StartTasksIInv == IInv /\ StartTasks => IInv'
<1> SUFFICES ASSUME IInv, StartTasks PROVE IInv'
  OBVIOUS
<1>1. TypeOK /\ OnTheGrid /\ InOrder /\ LoadAtMostOne
  BY DEF IInv
<1>2. base' \in Nat
  <2>1. clock + Lead \in Nat
    BY <1>1, PhaseAssumption DEF TypeOK
  <2> QED BY <2>1, FirstStartNat DEF StartTasks
<1>3. \A i \in Task : PhaseDelay(i) \in Nat /\ SampleTime[i] \in Nat
  BY DelayNat, SampleAssumption, TaskAssumption
<1>4. \A i \in Task : /\ monotonic'[i] = base' + PhaseDelay(i)
                      /\ monotonic'[i] \in Nat
                      /\ pc'[i] = "sleep"
                      /\ last_start'[i] = monotonic'[i]
                      /\ end_time'[i] = monotonic'[i]
                      /\ cycles'[i] = 0
  BY <1>1, <1>2, <1>3 DEF StartTasks, OnTheGrid, Started
<1>5. TypeOK'
  BY <1>1, <1>2, <1>4 DEF StartTasks, TypeOK
<1>6. OnTheGrid'
  <2> SUFFICES ASSUME NEW i \in Task
               PROVE  monotonic'[i] = base' + PhaseDelay(i)
                                      + cycles'[i] * SampleTime[i]
                      /\ pc'[i] # "new"
    BY DEF OnTheGrid, Started
  <2>1. 0 * SampleTime[i] = 0
    BY <1>3
  <2> QED BY <1>2, <1>3, <1>4, <2>1
<1>7. InOrder'
  BY <1>4 DEF InOrder
<1>8. Due'
  BY <1>4 DEF Due
<1>9. LoadAtMostOne'
  BY <1>1 DEF LoadAtMostOne, StartTasks
<1> QED BY <1>5, <1>6, <1>7, <1>8, <1>9 DEF IInv

LEMMA WakeUpIInv ==
  ASSUME NEW i \in Task, IInv, WakeUp(i)
  PROVE  IInv'
<1>1. TypeOK /\ OnTheGrid /\ InOrder /\ Due /\ LoadAtMostOne
  BY DEF IInv
<1>2. TypeOK'
  BY <1>1 DEF WakeUp, TypeOK
<1>3. OnTheGrid'
  BY <1>1 DEF WakeUp, OnTheGrid, Started, TypeOK
<1>4. InOrder'
  BY <1>1 DEF WakeUp, InOrder, TypeOK
<1>5. Due'
  BY <1>1 DEF WakeUp, Due, TypeOK
<1>6. LoadAtMostOne'
  BY <1>1 DEF WakeUp, LoadAtMostOne
<1> QED BY <1>2, <1>3, <1>4, <1>5, <1>6 DEF IInv

(* What is reported fits into a word, and the load is at most 1.           *)
LEMMA ReportCorrect ==
  ASSUME NEW i \in Task, IInv, pc[i] = "run",
         Report(i, last_start[i], end_time[i])
  PROVE  /\ stats' \in [Task -> Statistics]
         /\ fits' \in [Task -> BOOLEAN]
         /\ last_start' \in [Task -> Nat]
         /\ last_start'[i] = start_time[i]
         /\ \A j \in Task \ {i} : last_start'[j] = last_start[j]
         /\ LoadAtMostOne'
<1> DEFINE e == end_time[i] - last_start[i]
           p == start_time[i] - last_start[i]
<1>1. TypeOK /\ InOrder /\ LoadAtMostOne
  BY DEF IInv
<1>2. e \in Nat /\ p \in Nat /\ e <= p
  BY <1>1 DEF TypeOK, InOrder
<1>3. Word \in Nat \ {0}
  BY TaskAssumption
<1>4. /\ e % Word \in 0 .. Word - 1
      /\ p % Word \in 0 .. Word - 1
      /\ p < Word => e % Word <= p % Word
  <2> HIDE DEF e, p
  <2>1. e % Word \in 0 .. Word - 1 /\ (e < Word => e % Word = e)
    BY <1>2, <1>3, SmallRemainder
  <2>2. p % Word \in 0 .. Word - 1 /\ (p < Word => p % Word = p)
    BY <1>2, <1>3, SmallRemainder
  <2> QED BY <1>2, <1>3, <2>1, <2>2
<1>5. stats' = [stats EXCEPT ![i] = [exec |-> e % Word, period |-> p % Word,
                                     overruns |-> overruns[i]]]
  BY DEF Report
<1>6. fits' = [fits EXCEPT ![i] = (p < Word)]
  BY DEF Report
<1>7. last_start' = [last_start EXCEPT ![i] = start_time[i]]
  BY DEF Report
<1> HIDE DEF e, p
<1>8. stats' \in [Task -> Statistics]
  BY <1>1, <1>4, <1>5 DEF TypeOK, Statistics
<1>9. fits' \in [Task -> BOOLEAN]
  BY <1>1, <1>6 DEF TypeOK
<1>10. LoadAtMostOne'
  BY <1>1, <1>4, <1>5, <1>6 DEF LoadAtMostOne, TypeOK, Statistics
<1> QED BY <1>1, <1>7, <1>8, <1>9, <1>10 DEF TypeOK

LEMMA FinishCycleIInv ==
  ASSUME NEW i \in Task, IInv, FinishCycle(i)
  PROVE  IInv'
<1>1. TypeOK /\ OnTheGrid /\ InOrder /\ Due /\ LoadAtMostOne
  BY DEF IInv
<1>2. pc[i] = "run" /\ Report(i, last_start[i], end_time[i])
  BY DEF FinishCycle
<1>3. /\ stats' \in [Task -> Statistics] /\ fits' \in [Task -> BOOLEAN]
      /\ last_start' \in [Task -> Nat] /\ LoadAtMostOne'
      /\ last_start'[i] = start_time[i]
      /\ \A j \in Task \ {i} : last_start'[j] = last_start[j]
  BY <1>2, ReportCorrect
<1>4. \A j \in Task : SampleTime[j] \in Nat /\ PhaseDelay(j) \in Nat
  BY DelayNat, SampleAssumption, TaskAssumption
<1>5. /\ monotonic' = [monotonic EXCEPT ![i] = monotonic[i] + SampleTime[i]]
      /\ end_time' = [end_time EXCEPT ![i] = clock]
      /\ cycles' = [cycles EXCEPT ![i] = @ + 1]
      /\ pc' = [pc EXCEPT ![i] = "sleep"]
      /\ clock' = clock /\ start_time' = start_time /\ base' = base
      /\ overruns' \in [Task -> Nat]
  BY <1>1 DEF FinishCycle, SleepUntil, TypeOK
<1>6. TypeOK'
  BY <1>1, <1>3, <1>4, <1>5 DEF TypeOK
<1>7. OnTheGrid'
  <2>1. ASSUME NEW j \in Task, j # i
        PROVE  IF pc'[j] # "new"
               THEN monotonic'[j] = base' + PhaseDelay(j)
                                    + cycles'[j] * SampleTime[j]
               ELSE cycles'[j] = 0
    BY <1>1, <1>5, <2>1 DEF OnTheGrid, Started, TypeOK
  <2>2. monotonic'[i] = base' + PhaseDelay(i) + cycles'[i] * SampleTime[i]
    <3> DEFINE m == cycles[i] * SampleTime[i]
    <3>1. m \in Nat
      BY <1>1, <1>4, ProductNat DEF TypeOK
    <3>2. (cycles[i] + 1) * SampleTime[i] = m + SampleTime[i]
      BY <1>1, <1>4, NextMultiple DEF TypeOK
    <3>3. monotonic[i] = base + PhaseDelay(i) + m
      BY <1>1, <1>2 DEF OnTheGrid, Started
    <3>4. cycles'[i] = cycles[i] + 1 /\ monotonic'[i] = monotonic[i] + SampleTime[i]
      BY <1>1, <1>5 DEF TypeOK
    <3>5. cycles'[i] * SampleTime[i] = m + SampleTime[i]
      BY <3>2, <3>4
    <3> HIDE DEF m
    <3> QED BY <1>1, <1>4, <1>5, <3>1, <3>3, <3>4, <3>5 DEF TypeOK
  <2>3. pc'[i] = "sleep"
    BY <1>1, <1>5 DEF TypeOK
  <2> QED BY <2>1, <2>2, <2>3 DEF OnTheGrid, Started
<1>8. InOrder'
  BY <1>1, <1>2, <1>3, <1>5 DEF InOrder, TypeOK
<1>9. Due'
  BY <1>1, <1>2, <1>4, <1>5 DEF Due, InOrder, TypeOK
<1> QED BY <1>3, <1>6, <1>7, <1>8, <1>9 DEF IInv

LEMMA TickIInv == IInv /\ Tick => IInv'
<1> SUFFICES ASSUME IInv, Tick PROVE IInv'
  OBVIOUS
<1>1. clock' = clock + 1 /\ base' = base /\ UNCHANGED taskVars
  BY DEF Tick
<1>2. TypeOK /\ OnTheGrid /\ InOrder /\ Due /\ LoadAtMostOne
  BY DEF IInv
<1>3. TypeOK'
  BY <1>1, <1>2 DEF taskVars, TypeOK
<1>4. OnTheGrid' /\ LoadAtMostOne'
  BY <1>1, <1>2 DEF taskVars, OnTheGrid, LoadAtMostOne, Started
<1>5. InOrder'
  BY <1>1, <1>2 DEF taskVars, InOrder, TypeOK
<1>6. Due'
  <2>1. \A i \in Task : SampleTime[i] \in Nat
    BY SampleAssumption, TaskAssumption
  <2> QED BY <1>1, <1>2, <2>1 DEF taskVars, Due, TypeOK
<1> QED BY <1>3, <1>4, <1>5, <1>6 DEF IInv

LEMMA NextIInv == IInv /\ [Next]_vars => IInv'
<1> SUFFICES ASSUME IInv, [Next]_vars PROVE IInv'
  OBVIOUS
<1>1. CASE StartTasks
  BY <1>1, StartTasksIInv
<1>2. CASE \E i \in Task : WakeUp(i)
  BY <1>2, WakeUpIInv
<1>3. CASE \E i \in Task : FinishCycle(i)
  BY <1>3, FinishCycleIInv
<1>4. CASE Tick
  BY <1>4, TickIInv
<1>5. CASE UNCHANGED vars
  BY <1>5 DEF vars, taskVars, IInv, TypeOK, OnTheGrid, InOrder, Due,
              LoadAtMostOne, Started
<1> QED BY <1>1, <1>2, <1>3, <1>4, <1>5 DEF Next

LEMMA IInvHolds == Spec => []IInv
  BY InitIInv, NextIInv, PTL DEF Spec

-----------------------------------------------------------------------------
(* The theorems *)

(* No time that run_task keeps, and no statistic it hands to pdserv, ever  *)
(* leaves its range: the unsigned differences are never negative ones.     *)
THEOREM TimesCorrect == Spec => []TypeOK
<1>1. IInv => TypeOK
  BY DEF IInv
<1> QED BY <1>1, IInvHolds, PTL

(* However late the threads wake up and however long their cycles take,    *)
(* tasks that have run the same time span start at the same distance.      *)
THEOREM InPhase == Spec => []TasksStayInPhase
<1>1. IInv => TasksStayInPhase
  <2> SUFFICES ASSUME IInv, NEW i \in Task, NEW j \in Task,
                      Started(i), Started(j),
                      cycles[i] * SampleTime[i] = cycles[j] * SampleTime[j]
               PROVE  monotonic[i] - PhaseDelay(i)
                        = monotonic[j] - PhaseDelay(j)
    BY DEF TasksStayInPhase
  <2> DEFINE m == cycles[i] * SampleTime[i]
  <2>1. m \in Nat /\ base \in Nat
    BY SampleAssumption, TaskAssumption, ProductNat DEF IInv, TypeOK
  <2>2. PhaseDelay(i) \in Nat /\ PhaseDelay(j) \in Nat
    BY DelayNat
  <2>3. /\ monotonic[i] = base + PhaseDelay(i) + m
        /\ monotonic[j] = base + PhaseDelay(j) + m
    BY DEF IInv, OnTheGrid
  <2> HIDE DEF m
  <2> QED BY <2>1, <2>2, <2>3
<1> QED BY <1>1, IInvHolds, PTL

(* The load that a client reads off the statistics never exceeds 1.        *)
THEOREM LoadCorrect == Spec => []LoadAtMostOne
<1>1. IInv => LoadAtMostOne
  BY DEF IInv
<1> QED BY <1>1, IInvHolds, PTL

(* However far a task fell behind, once it sleeps again ahead of time it   *)
(* has run every cycle that was due, and none twice.                       *)
THEOREM CyclesKept == Spec => []NoCycleIsLost
<1>1. IInv => NoCycleIsLost
  <2> SUFFICES ASSUME IInv, NEW i \in Task, pc[i] = "sleep",
                      clock < monotonic[i], base + PhaseDelay(i) <= clock
               PROVE  cycles[i]
                        = (clock - base - PhaseDelay(i)) \div SampleTime[i] + 1
    BY DEF NoCycleIsLost
  <2> DEFINE c == cycles[i]
             t == SampleTime[i]
             x == clock - base - PhaseDelay(i)
  <2>1. c \in Nat /\ t \in Nat \ {0} /\ base \in Nat /\ clock \in Nat
    BY SampleAssumption, TaskAssumption DEF IInv, TypeOK
  <2>2. PhaseDelay(i) \in Nat
    BY DelayNat
  <2>3. monotonic[i] = base + PhaseDelay(i) + c * t
    BY DEF IInv, OnTheGrid, Started
  <2>4. c # 0
    <3>1. ASSUME c = 0 PROVE FALSE
      <4>1. c * t = 0
        BY <2>1, <3>1
      <4> QED BY <2>1, <2>2, <2>3, <4>1
    <3> QED BY <3>1
  <2>5. monotonic[i] - t <= clock
    BY <2>4 DEF IInv, Due
  <2>6. x \in Int
    BY <2>1, <2>2
  <2>7. c - 1 \in Nat /\ c * t = (c - 1) * t + t /\ (c - 1) * t \in Nat
    <3> HIDE DEF c, t
    <3>1. c - 1 \in Nat /\ (c - 1) + 1 = c
      BY <2>1, <2>4
    <3>2. ((c - 1) + 1) * t = (c - 1) * t + t
      BY <2>1, <3>1, NextMultiple
    <3> QED BY <2>1, <3>1, <3>2, ProductNat
  <2>8. (c - 1) * t <= x /\ x < (c - 1) * t + t
    <3> DEFINE m == (c - 1) * t
    <3>1. m \in Nat /\ c * t = m + t
      BY <2>7
    <3>2. monotonic[i] = base + PhaseDelay(i) + m + t
      BY <2>1, <2>2, <2>3, <3>1
    <3> HIDE DEF m
    <3>3. m <= x /\ x < m + t
      BY <2>1, <2>2, <2>5, <3>1, <3>2
    <3> QED BY <3>3 DEF m
  <2>9. c = x \div t + 1
    <3> HIDE DEF c, t, x
    <3> QED BY <2>1, <2>4, <2>6, <2>8, WholePeriods
  <2> QED BY <2>9
<1> QED BY <1>1, IInvHolds, PTL

(* Where the product is exact, the slowest task's first start is a         *)
(* multiple of its sample time, as the comment in main promises.           *)
THEOREM StartAligned ==
  ASSUME ShiftTime = SampleTime[Slowest]
  PROVE  Spec => []StartsOnMultiple
<1>1. Init => StartsOnMultiple
  BY TaskAssumption DEF Init, StartsOnMultiple, Started, Task, Slowest
<1>2. TypeOK /\ StartsOnMultiple /\ [Next]_vars => StartsOnMultiple'
  <2> SUFFICES ASSUME TypeOK, StartsOnMultiple, [Next]_vars
               PROVE  StartsOnMultiple'
    OBVIOUS
  <2>0. Slowest \in Task
    BY TaskAssumption DEF Task, Slowest
  <2>1. CASE StartTasks
    <3>1. clock + Lead \in Nat
      BY PhaseAssumption DEF TypeOK
    <3>2. SampleTime[Slowest] \in Nat \ {0}
      BY <2>0, SampleAssumption, TaskAssumption
    <3>3. Phase >= 0 => base' % SampleTime[Slowest] = 0
      BY <2>1, <3>1, <3>2, AlignedStart DEF StartTasks, FirstStart
    <3> QED BY <3>3 DEF StartsOnMultiple
  <2>2. CASE \E i \in Task : WakeUp(i)
    <3> PICK i \in Task : WakeUp(i)
      BY <2>2
    <3> QED BY <2>0 DEF WakeUp, StartsOnMultiple, Started, TypeOK
  <2>3. CASE \E i \in Task : FinishCycle(i)
    <3> PICK i \in Task : FinishCycle(i)
      BY <2>3
    <3> QED BY <2>0 DEF FinishCycle, SleepUntil, StartsOnMultiple, Started,
                        TypeOK
  <2>4. CASE Tick \/ UNCHANGED vars
    BY <2>4 DEF Tick, vars, taskVars, StartsOnMultiple, Started
  <2> QED BY <2>1, <2>2, <2>3, <2>4 DEF Next
<1> QED BY <1>1, <1>2, TimesCorrect, PTL DEF Spec

=============================================================================
