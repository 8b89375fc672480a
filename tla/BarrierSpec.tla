------------------------------ MODULE BarrierSpec ------------------------------
(***************************************************************************)
(* What galois::substrate::Barrier promises, whatever its implementation   *)
(* (libgalois/include/galois/substrate/Barrier.h): a call of wait() by one *)
(* of the num participating threads returns only after every participant   *)
(* has made its matching call, and reinit(val) changes the number of       *)
(* participants while no thread is inside wait().                          *)
(*                                                                         *)
(* entered[t] and left[t] count the calls of wait() that thread t has made *)
(* and has returned from since the last reinit.                            *)
(***************************************************************************)
EXTENDS Naturals

CONSTANTS MaxThreads,   \* threads of the pool
          Rounds        \* bound: calls of wait() per thread between two reinits

VARIABLES num, entered, left

vars == <<num, entered, left>>

Threads == 0 .. MaxThreads - 1

Active == 0 .. num - 1

TypeOK ==
  /\ num \in 1 .. MaxThreads
  /\ entered \in [Threads -> 0 .. Rounds]
  /\ left \in [Threads -> 0 .. Rounds]

Init ==
  /\ num \in 1 .. MaxThreads
  /\ entered = [t \in Threads |-> 0]
  /\ left = [t \in Threads |-> 0]

Enter(t) ==
  /\ entered[t] = left[t]
  /\ entered[t] < Rounds
  /\ entered' = [entered EXCEPT ![t] = @ + 1]
  /\ UNCHANGED <<num, left>>

Leave(t) ==
  /\ left[t] < entered[t]
  /\ \A u \in Active : entered[t] <= entered[u]
  /\ left' = [left EXCEPT ![t] = @ + 1]
  /\ UNCHANGED <<num, entered>>

Reinit(val) ==
  /\ \A t \in Threads : entered[t] = left[t]
  /\ num' = val
  /\ entered' = [t \in Threads |-> 0]
  /\ left' = [t \in Threads |-> 0]

Next ==
  \/ \E t \in Active : Enter(t) \/ Leave(t)
  \/ \E val \in 1 .. MaxThreads : Reinit(val)

Spec == Init /\ [][Next]_vars

(***************************************************************************)
(* No participant has returned from its r-th wait() before every           *)
(* participant has called wait() r times: the safety half of a barrier.    *)
(***************************************************************************)
NobodyLeavesEarly == \A t, u \in Active : left[t] <= entered[u]

\* Thread t is inside a call of wait() that every participant has made.
Due(t) == t \in Active /\ left[t] < entered[t] /\ \A u \in Active : entered[t] <= entered[u]

(***************************************************************************)
(* Once all participants have made a call of wait(), every thread returns  *)
(* from it: the progress half.                                             *)
(***************************************************************************)
EveryoneLeaves == \A t \in Threads : Due(t) ~> left[t] = entered[t]

================================================================================
