----------------------------- MODULE SimpleBarrier -----------------------------
(***************************************************************************)
(* libgalois/src/Barrier_Simple.cpp: two one-way barriers, each a counter  *)
(* under a mutex with a condition variable, which thread 0 resets without  *)
(* the mutex after passing them. The critical section of a one-way         *)
(* barrier is one step: it ends either with the thread past the barrier,   *)
(* having notified everybody, or asleep on the condition variable.         *)
(***************************************************************************)
EXTENDS BarrierClient

VARIABLES count,     \* count[b]: arrivals counted by one-way barrier b
          notified   \* threads a notify_all has woken, which must retest

vars == <<num, pc, entered, left, count, notified>>

Stages == {1, 2}

At(b) == IF b = 1 THEN "at1" ELSE "at2"

Asleep(b) == IF b = 1 THEN "asleep1" ELSE "asleep2"

Past(b) == IF b = 1 THEN "past1" ELSE "past2"

TypeOK ==
  /\ ClientTypeOK
  /\ pc \in [Threads -> {"out", "at1", "asleep1", "past1", "at2", "asleep2", "past2"}]
  /\ count \in [Stages -> 0 .. MaxThreads]
  /\ notified \in SUBSET Threads

Init ==
  /\ ClientInit
  /\ count = [b \in Stages |-> 0]
  /\ notified = {}

Reinit(val) ==
  /\ ClientReinit(val)
  /\ count' = [b \in Stages |-> 0]
  /\ UNCHANGED notified

Enter(t) ==
  /\ Call(t, "at1")
  /\ UNCHANGED <<count, notified>>

Sleepers(b) == {u \in Threads : pc[u] = Asleep(b)}

\* [this]() { return count >= total; }
PredicateHolds(c) == c >= num

\* The rest of OneWayBarrier::wait once the predicate has been evaluated.
PassOrSleep(t, b, c, from) ==
  IF PredicateHolds(c)
  THEN /\ Step(t, from, Past(b))
       /\ notified' = (notified \cup Sleepers(b)) \ {t}
  ELSE /\ Step(t, from, Asleep(b))
       /\ notified' = notified \ {t}

\* OneWayBarrier::wait: lock, count += 1, first test of the predicate
Arrive(t, b) ==
  /\ count' = [count EXCEPT ![b] = @ + 1]
  /\ PassOrSleep(t, b, count[b] + 1, At(b))

\* A woken thread takes the mutex again and retests the predicate.
Wake(t, b) ==
  /\ t \in notified
  /\ PassOrSleep(t, b, count[b], Asleep(b))
  /\ UNCHANGED count

\* Condition variables may also wake a thread for no reason.
SpuriousWake(t, b) ==
  /\ PassOrSleep(t, b, count[b], Asleep(b))
  /\ UNCHANGED count

\* SimpleBarrier::wait: if (getTID() == 0) barrier.reinit(total)
Reset(t, b) == IF t = 0 THEN [count EXCEPT ![b] = 0] ELSE count

FinishFirst(t) ==
  /\ Step(t, "past1", "at2")
  /\ count' = Reset(t, 1)
  /\ UNCHANGED notified

FinishSecond(t) ==
  /\ Return(t, "past2")
  /\ count' = Reset(t, 2)
  /\ UNCHANGED notified

InWait(t) ==
  \/ \E b \in Stages : Arrive(t, b) \/ Wake(t, b)
  \/ FinishFirst(t)
  \/ FinishSecond(t)

Next ==
  \/ \E t \in Active : Enter(t) \/ InWait(t) \/ \E b \in Stages : SpuriousWake(t, b)
  \/ \E val \in 1 .. MaxThreads : Reinit(val)

\* A thread that can run inside wait() runs; spurious wakeups are not owed.
Fairness == \A t \in Threads : WF_vars(t \in Active /\ InWait(t))

Spec == Init /\ [][Next]_vars

FairSpec == Spec /\ Fairness

================================================================================
