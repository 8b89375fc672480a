---------------------------- MODULE CountingBarrier ----------------------------
(***************************************************************************)
(* The sense-reversing counting barrier, libgalois/src/Barrier_Counting.cpp. *)
(* Every access of the atomics count and sense is a step of its own.       *)
(***************************************************************************)
EXTENDS BarrierClient

VARIABLES count,        \* arrivals still missing in this round
          sense,        \* the shared sense
          local_sense   \* the sense each thread waits for

vars == <<num, pc, entered, left, count, sense, local_sense>>

TypeOK ==
  /\ ClientTypeOK
  /\ pc \in [Threads -> {"out", "decrement", "reset", "release", "spin"}]
  /\ count \in 0 .. MaxThreads
  /\ sense \in BOOLEAN
  /\ local_sense \in [Threads -> BOOLEAN]

\* The constructor runs _reinit.
Init ==
  /\ ClientInit
  /\ count = num
  /\ sense = FALSE
  /\ local_sense = [t \in Threads |-> FALSE]

\* _reinit: local_sense.at(i) = false for all i
ResetSenses == [t \in Threads |-> FALSE]

Reinit(val) ==
  /\ ClientReinit(val)
  /\ count' = val
  /\ sense' = FALSE
  /\ local_sense' = ResetSenses

\* wait(): lsense = !lsense
Flip(t) == ~local_sense[t]

Enter(t) ==
  /\ Call(t, "decrement")
  /\ local_sense' = [local_sense EXCEPT ![t] = Flip(t)]
  /\ UNCHANGED <<count, sense>>

\* wait(): if (--count == 0)
IsLast(c) == c = 0

Decrement(t) ==
  /\ Step(t, "decrement", IF IsLast(count - 1) THEN "reset" ELSE "spin")
  /\ count' = count - 1
  /\ UNCHANGED <<sense, local_sense>>

\* wait(), last arrival: count = num
Rearm == num

ResetCount(t) ==
  /\ Step(t, "reset", "release")
  /\ count' = Rearm
  /\ UNCHANGED <<sense, local_sense>>

\* wait(), last arrival: sense = lsense
Release(t) ==
  /\ Return(t, "release")
  /\ sense' = local_sense[t]
  /\ UNCHANGED <<count, local_sense>>

\* wait(), every other arrival: while (sense != lsense)
Spin(t) ==
  /\ Return(t, "spin")
  /\ sense = local_sense[t]
  /\ UNCHANGED <<count, sense, local_sense>>

InWait(t) == Decrement(t) \/ ResetCount(t) \/ Release(t) \/ Spin(t)

Next ==
  \/ \E t \in Active : Enter(t) \/ InWait(t)
  \/ \E val \in 1 .. MaxThreads : Reinit(val)

\* A thread inside wait() runs; nothing obliges a thread to call wait().
Fairness == \A t \in Threads : WF_vars(t \in Active /\ InWait(t))

Spec == Init /\ [][Next]_vars

FairSpec == Spec /\ Fairness

--------------------------------------------------------------------------------
\* The threads that have decremented count for the round being collected.
Arrived ==
  {t \in Active : pc[t] \in {"reset", "release"} \/ (pc[t] = "spin" /\ local_sense[t] # sense)}

(***************************************************************************)
(* Where thread t is relative to the g rounds released so far: outside     *)
(* with all g calls returned, inside its call g+1, or still on its way out *)
(* of call g, which has been released.                                     *)
(***************************************************************************)
InRound(t, g) ==
  \/ /\ pc[t] = "out" /\ local_sense[t] = sense
     /\ entered[t] = g /\ left[t] = g
  \/ /\ pc[t] # "out" /\ local_sense[t] # sense
     /\ entered[t] = g + 1 /\ left[t] = g
  \/ /\ pc[t] = "spin" /\ local_sense[t] = sense
     /\ entered[t] = g /\ left[t] + 1 = g

(***************************************************************************)
(* The inductive invariant of wait(): all participants are within one      *)
(* round of each other, count is exact (and already rearmed between the    *)
(* two stores of the last arrival), and the last arrival acts only when    *)
(* every other participant spins for it.                                   *)
(***************************************************************************)
SenseInv ==
  /\ \E g \in 0 .. Rounds : \A t \in Active : InRound(t, g)
  /\ \A t \in Threads \ Active : pc[t] = "out" /\ entered[t] = left[t]
  /\ count = IF \E t \in Active : pc[t] = "release" THEN num ELSE num - Cardinality(Arrived)
  /\ \A t \in Active : pc[t] \in {"reset", "release"} =>
       \A u \in Active \ {t} : pc[u] = "spin" /\ local_sense[u] # sense

================================================================================
