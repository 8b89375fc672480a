----------------------------- MODULE BarrierClient -----------------------------
(***************************************************************************)
(* The part that the models of the barrier implementations share: threads  *)
(* that call wait() in a loop, the way libgalois/test/barriers.cpp and the *)
(* executors do, and a master that calls reinit(val) between two parallel  *)
(* sections, when no thread is inside wait() (Barrier.h: "not safe if any  *)
(* thread is in wait").                                                    *)
(***************************************************************************)
EXTENDS Integers, FiniteSets

CONSTANTS MaxThreads,   \* threads of the pool
          Rounds        \* bound: calls of wait() per thread between two reinits

ASSUME ConstantsAssumption == MaxThreads \in Nat \ {0} /\ Rounds \in Nat

VARIABLES num,          \* participants
          pc,           \* where each thread is; "out" when not inside wait()
          entered,      \* calls of wait() each thread has made since reinit
          left          \* calls of wait() each thread has returned from

clientVars == <<num, pc, entered, left>>

Threads == 0 .. MaxThreads - 1

Active == 0 .. num - 1

Abstract == INSTANCE BarrierSpec

ClientTypeOK ==
  /\ num \in 1 .. MaxThreads
  /\ entered \in [Threads -> 0 .. Rounds]
  /\ left \in [Threads -> 0 .. Rounds]

ClientInit ==
  /\ num \in 1 .. MaxThreads
  /\ pc = [t \in Threads |-> "out"]
  /\ entered = [t \in Threads |-> 0]
  /\ left = [t \in Threads |-> 0]

ClientReinit(val) ==
  /\ \A t \in Threads : pc[t] = "out"
  /\ num' = val
  /\ entered' = [t \in Threads |-> 0]
  /\ left' = [t \in Threads |-> 0]
  /\ UNCHANGED pc

Goto(t, label) == pc' = [pc EXCEPT ![t] = label]

\* Thread t calls wait(), whose first step is at label.
Call(t, label) ==
  /\ pc[t] = "out"
  /\ entered[t] < Rounds
  /\ entered' = [entered EXCEPT ![t] = @ + 1]
  /\ Goto(t, label)
  /\ UNCHANGED <<num, left>>

\* Thread t goes from one step of wait() to another.
Step(t, from, to) ==
  /\ pc[t] = from
  /\ Goto(t, to)
  /\ UNCHANGED <<num, entered, left>>

\* The call of wait() that thread t is in returns.
Return(t, from) ==
  /\ pc[t] = from
  /\ Goto(t, "out")
  /\ left' = [left EXCEPT ![t] = @ + 1]
  /\ UNCHANGED <<num, entered>>

--------------------------------------------------------------------------------
(***************************************************************************)
(* The implementation is a barrier.                                        *)
(***************************************************************************)
Refinement == Abstract!Spec

(***************************************************************************)
(* No call of wait() returns before all participants have made their       *)
(* matching call.                                                          *)
(***************************************************************************)
NobodyLeavesEarly == Abstract!NobodyLeavesEarly

(***************************************************************************)
(* Every call of wait() returns once all participants have made it: the    *)
(* state a round leaves behind for the next strands no spinning thread.    *)
(***************************************************************************)
EveryoneLeaves == Abstract!EveryoneLeaves

================================================================================
