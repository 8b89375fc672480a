-------------------------- MODULE DisseminationBarrier --------------------------
(***************************************************************************)
(* The dissemination barrier, libgalois/src/Barrier_Dissemination.cpp: in  *)
(* exchange r of a call, thread i stores its sense into the flag of thread *)
(* i + 2^r and spins on its own. Two banks of flags, chosen by parity, and *)
(* a sense that flips every second call let calls follow one another       *)
(* without resetting flags.                                                *)
(***************************************************************************)
EXTENDS BarrierClient

VARIABLES parity,   \* the bank of flags each thread uses
          sense,    \* the value each thread stores and waits for
          flag,     \* flag[i][r][p]: myflags[r].flag[p] of thread i
          r         \* the exchange each thread is in

vars == <<num, pc, entered, left, parity, sense, flag, r>>

\* FAST_LOG2_UP(P)
LogUp(P) == CHOOSE k \in 0 .. P : 2 ^ k >= P /\ (k = 0 \/ 2 ^ (k - 1) < P)

LogP == LogUp(num)

Exchanges == 0 .. LogUp(MaxThreads)

TypeOK ==
  /\ ClientTypeOK
  /\ pc \in [Threads -> {"out", "signal", "spin"}]
  /\ parity \in [Threads -> {0, 1}]
  /\ sense \in [Threads -> {0, 1}]
  /\ flag \in [Threads -> [Exchanges -> [{0, 1} -> {0, 1}]]]
  /\ r \in [Threads -> Exchanges]

NoFlags == [t \in Threads |-> [k \in Exchanges |-> [p \in {0, 1} |-> 0]]]

Init ==
  /\ ClientInit
  /\ parity = [t \in Threads |-> 0]
  /\ sense = [t \in Threads |-> 1]
  /\ flag = NoFlags
  /\ r = [t \in Threads |-> 0]

\* _reinit: flag[0] = flag[1] = 0 for all 32 exchanges
ClearFlags == NoFlags

Reinit(val) ==
  /\ ClientReinit(val)
  /\ parity' = [t \in Threads |-> 0]
  /\ sense' = [t \in Threads |-> 1]
  /\ flag' = ClearFlags
  /\ UNCHANGED r

Enter(t) ==
  /\ Call(t, "signal")
  /\ r' = [r EXCEPT ![t] = 0]
  /\ UNCHANGED <<parity, sense, flag>>

\* _reinit: the partner of thread i in exchange j is (i + d) % P with d = 2^j
Partner(t, k) == (t + 2 ^ k) % num

\* partner->flag[parity] = sense
Signal(t) ==
  /\ r[t] < LogP
  /\ Step(t, "signal", "spin")
  /\ flag' = [flag EXCEPT ![Partner(t, r[t])][r[t]][parity[t]] = sense[t]]
  /\ UNCHANGED <<parity, sense, r>>

\* while (myflags[r].flag[parity] != sense)
Spin(t) ==
  /\ flag[t][r[t]][parity[t]] = sense[t]
  /\ Step(t, "spin", "signal")
  /\ r' = [r EXCEPT ![t] = @ + 1]
  /\ UNCHANGED <<parity, sense, flag>>

\* if (parity == 1) sense = 1 - sense
NextSense(t) == IF parity[t] = 1 THEN 1 - sense[t] ELSE sense[t]

NextParity_OneBank(t) == 1

\* parity = 1 - parity
NextParity(t) == 1 - parity[t]

Finish(t) ==
  /\ r[t] = LogP
  /\ Return(t, "signal")
  /\ sense' = [sense EXCEPT ![t] = NextSense(t)]
  /\ parity' = [parity EXCEPT ![t] = NextParity(t)]
  /\ UNCHANGED <<flag, r>>

InWait(t) == Signal(t) \/ Spin(t) \/ Finish(t)

Next ==
  \/ \E t \in Active : Enter(t) \/ InWait(t)
  \/ \E val \in 1 .. MaxThreads : Reinit(val)

\* A thread inside wait() runs; nothing obliges a thread to call wait().
Fairness == \A t \in Threads : WF_vars(t \in Active /\ InWait(t))

FairSpec == Init /\ [][Next]_vars /\ Fairness

--------------------------------------------------------------------------------
\* This step overwrites no flag that its owner has still to consume.
FlagsConsumed ==
  \A t \in Active : \A k \in Exchanges, p \in {0, 1} :
    flag'[t][k][p] # flag[t][k][p] /\ num' = num =>
      ~(pc[t] = "spin" /\ r[t] = k /\ parity[t] = p /\ flag[t][k][p] = sense[t])

================================================================================
