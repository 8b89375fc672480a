------------------------------- MODULE MCSBarrier -------------------------------
(***************************************************************************)
(* The tree barrier of Mellor-Crummey and Scott, libgalois/src/            *)
(* Barrier_MCS.cpp: arrivals are collected over a 4-ary tree of            *)
(* childnotready flags and the release is spread over a binary tree of     *)
(* parentsense flags. The two trees have different shapes.                 *)
(***************************************************************************)
EXTENDS BarrierClient

VARIABLES childnotready,  \* childnotready[i][j]: arrival child j of i is missing
          parentsense,    \* written by the wakeup parent
          sense           \* the value each thread waits for

vars == <<num, pc, entered, left, childnotready, parentsense, sense>>

Slots == 0 .. 3

TypeOK ==
  /\ ClientTypeOK
  /\ pc \in [Threads -> {"out", "collect", "rearm", "report", "spin", "wake0", "wake1"}]
  /\ childnotready \in [Threads -> [Slots -> BOOLEAN]]
  /\ parentsense \in [Threads -> BOOLEAN]
  /\ sense \in [Threads -> BOOLEAN]

\* _reinit(P): havechild[j] of node i
HaveChild(i, j, P) == 4 * i + j + 1 < P

\* parentpointer: the slot of the arrival parent that i clears
ArrivalParent(i) == (i - 1) \div 4

ArrivalSlot(i) == (i - 1) % 4

\* childpointers[k]: the wakeup children, if they take part
WakeupChild(i, k) == 2 * i + k + 1

Ready(P) == [i \in Threads |-> [j \in Slots |-> i < P /\ HaveChild(i, j, P)]]

Init ==
  /\ ClientInit
  /\ childnotready = Ready(num)
  /\ parentsense = [t \in Threads |-> FALSE]
  /\ sense = [t \in Threads |-> TRUE]

\* _reinit: n.parentsense = false
ResetParentSense == [t \in Threads |-> FALSE]

Reinit(val) ==
  /\ ClientReinit(val)
  /\ childnotready' = Ready(val)
  /\ parentsense' = ResetParentSense
  /\ sense' = [t \in Threads |-> TRUE]

Enter(t) ==
  /\ Call(t, "collect")
  /\ UNCHANGED <<childnotready, parentsense, sense>>

\* while (n.childnotready[0] || ... || n.childnotready[3])
AllArrived(t) == \A j \in Slots : ~childnotready[t][j]

Collect(t) ==
  /\ AllArrived(t)
  /\ Step(t, "collect", "rearm")
  /\ UNCHANGED <<childnotready, parentsense, sense>>

RearmedSlots_Missing(t) == childnotready[t]

\* n.childnotready[i] = n.havechild[i]
RearmedSlots(t) == [j \in Slots |-> HaveChild(t, j, num)]

Rearm(t) ==
  /\ Step(t, "rearm", IF t = 0 THEN "wake0" ELSE "report")
  /\ childnotready' = [childnotready EXCEPT ![t] = RearmedSlots(t)]
  /\ UNCHANGED <<parentsense, sense>>

\* *n.parentpointer = false
Report(t) ==
  /\ Step(t, "report", "spin")
  /\ childnotready' = [childnotready EXCEPT ![ArrivalParent(t)][ArrivalSlot(t)] = FALSE]
  /\ UNCHANGED <<parentsense, sense>>

\* while (n.parentsense != n.sense)
Spin(t) ==
  /\ parentsense[t] = sense[t]
  /\ Step(t, "spin", "wake0")
  /\ UNCHANGED <<childnotready, parentsense, sense>>

\* if (n.childpointers[k]) *n.childpointers[k] = n.sense
Awaken(t, k) ==
  LET c == WakeupChild(t, k)
  IN  parentsense' = IF c < num THEN [parentsense EXCEPT ![c] = sense[t]] ELSE parentsense

Wake0(t) ==
  /\ Step(t, "wake0", "wake1")
  /\ Awaken(t, 0)
  /\ UNCHANGED <<childnotready, sense>>

\* n.sense = !n.sense
NextSense(t) == ~sense[t]

Wake1(t) ==
  /\ Return(t, "wake1")
  /\ Awaken(t, 1)
  /\ sense' = [sense EXCEPT ![t] = NextSense(t)]
  /\ UNCHANGED childnotready

InWait(t) ==
  Collect(t) \/ Rearm(t) \/ Report(t) \/ Spin(t) \/ Wake0(t) \/ Wake1(t)

Next ==
  \/ \E t \in Active : Enter(t) \/ InWait(t)
  \/ \E val \in 1 .. MaxThreads : Reinit(val)

\* A thread inside wait() runs; nothing obliges a thread to call wait().
Fairness == \A t \in Threads : WF_vars(t \in Active /\ InWait(t))

FairSpec == Init /\ [][Next]_vars /\ Fairness

--------------------------------------------------------------------------------
\* The flag that t is about to clear was set again since its last arrival, by
\* a parent that will not set it once more.
Armed(t) ==
  /\ childnotready[ArrivalParent(t)][ArrivalSlot(t)]
  /\ pc[ArrivalParent(t)] # "rearm"

================================================================================
