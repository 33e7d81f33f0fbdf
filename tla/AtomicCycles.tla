--------------------------- MODULE AtomicCycles ---------------------------
(***************************************************************************)
(* What the locking of src/rtw/src/hrt_main.c promises to the model and to *)
(* the clients, without any lock or thread: a parameter block is replaced  *)
(* at once, a task computes its signals from one whole block, publishes    *)
(* them once per cycle and leaves no cycle out, and a client that reads    *)
(* signals gets what the task published last.                              *)
(***************************************************************************)
EXTENDS Naturals

CONSTANTS Task,      \* the cyclic tasks
          Readers,   \* the clients that read signals
          Word,      \* indices of the words of a block
          CycleRing  \* cycles are numbered modulo this

VARIABLES block,     \* the parameter block in force
          input,     \* the block that task i computed from last
          computed,  \* task i has computed and not published yet
          signals,   \* the signals task i published last
          taken      \* the signals client r read last

vars == <<block, input, computed, signals, taken>>

Constantly(v) == [k \in Word |-> v]

Init ==
  /\ block = 0
  /\ input = [i \in Task |-> 0]
  /\ computed = [i \in Task |-> FALSE]
  /\ signals = [i \in Task |-> Constantly([cycle |-> 0, param |-> 0])]
  /\ taken = [r \in Readers |-> Constantly([cycle |-> 0, param |-> 0])]

Replace ==
  /\ block' \in Nat
  /\ UNCHANGED <<input, computed, signals, taken>>

Compute(i) ==
  /\ ~computed[i]
  /\ input' = [input EXCEPT ![i] = block]
  /\ computed' = [computed EXCEPT ![i] = TRUE]
  /\ UNCHANGED <<block, signals, taken>>

NextCycle(i, c) == \A k \in Word : c = (signals[i][k].cycle + 1) % CycleRing

Publish(i) ==
  /\ computed[i]
  /\ computed' = [computed EXCEPT ![i] = FALSE]
  /\ \E c \in 0 .. CycleRing - 1 :
       /\ NextCycle(i, c)
       /\ signals' = [signals EXCEPT ![i] =
                        Constantly([cycle |-> c, param |-> input[i]])]
  /\ UNCHANGED <<block, input, taken>>

Poll(r, i) ==
  /\ taken' = [taken EXCEPT ![r] = signals[i]]
  /\ UNCHANGED <<block, input, computed, signals>>

Next ==
  \/ Replace
  \/ \E i \in Task : Compute(i) \/ Publish(i)
  \/ \E r \in Readers, i \in Task : Poll(r, i)

Spec == Init /\ [][Next]_vars

=============================================================================
