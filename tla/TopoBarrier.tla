------------------------------ MODULE TopoBarrier ------------------------------
(***************************************************************************)
(* The topology-aware barrier, libgalois/src/Barrier_Topo.cpp, the one     *)
(* that getBarrier() hands out. There is one tree node per socket. The     *)
(* other threads of a socket report to its node; the leader of the socket  *)
(* collects them and the child sockets (a 4-ary tree), reports upwards,    *)
(* and spreads the release over a binary tree of sockets.                  *)
(***************************************************************************)
EXTENDS SocketMap

VARIABLES childnotready,  \* per socket: reports still missing
          parentsense,    \* per socket: the last round released
          sense           \* per thread: the round it waits for

vars == <<num, pc, entered, left, childnotready, parentsense, sense>>

Sockets == {Socket[t] : t \in Threads}

\* getCumulativeMaxSocket(P - 1) + 1
Pkgs(P) == 1 + CHOOSE s \in Sockets :
                 (\E t \in 0 .. P - 1 : Socket[t] = s) /\ \A t \in 0 .. P - 1 : Socket[t] <= s

TypeOK ==
  /\ ClientTypeOK
  /\ pc \in [Threads -> {"out", "collect", "rearm", "report", "arrive", "spin",
                         "wake0", "wake1", "wakeOwn"}]
  /\ childnotready \in [Sockets -> 0 .. MaxThreads + 4]
  /\ parentsense \in [Sockets -> 0 .. Rounds]
  /\ sense \in [Threads -> 1 .. Rounds + 1]

\* _reinit(P): havechild counts child sockets and the followers of socket s
HaveChild(s, P) ==
  Cardinality({j \in 0 .. 3 : 4 * s + j + 1 < Pkgs(P)})
  + Cardinality({t \in 0 .. P - 1 : Socket[t] = s /\ ~IsLeader(t)})

Init ==
  /\ ClientInit
  /\ childnotready = [s \in Sockets |-> IF s < Pkgs(num) THEN HaveChild(s, num) ELSE 0]
  /\ parentsense = [s \in Sockets |-> 0]
  /\ sense = [t \in Threads |-> 1]

ResetSense_Missing(P) == sense

\* _reinit: *sense.getRemote(i) = 1 for the P participants
ResetSense(P) == [t \in Threads |-> IF t < P THEN 1 ELSE sense[t]]

Reinit(val) ==
  /\ ClientReinit(val)
  /\ childnotready' = [s \in Sockets |-> IF s < Pkgs(val) THEN HaveChild(s, val) ELSE childnotready[s]]
  /\ parentsense' = [s \in Sockets |-> IF s < Pkgs(val) THEN 0 ELSE parentsense[s]]
  /\ sense' = ResetSense(val)

Enter(t) ==
  /\ Call(t, IF IsLeader(t) THEN "collect" ELSE "arrive")
  /\ UNCHANGED <<childnotready, parentsense, sense>>

\* leader: while (n.childnotready)
Collect(t) ==
  /\ childnotready[Socket[t]] = 0
  /\ Step(t, "collect", "rearm")
  /\ UNCHANGED <<childnotready, parentsense, sense>>

AfterRearm(t) == IF Socket[t] = 0 THEN "wake0" ELSE "report"

\* n.childnotready = n.havechild
Rearmed(s) == HaveChild(s, num)

Rearm(t) ==
  /\ Step(t, "rearm", AfterRearm(t))
  /\ childnotready' = [childnotready EXCEPT ![Socket[t]] = Rearmed(Socket[t])]
  /\ UNCHANGED <<parentsense, sense>>

\* if (n.parentpointer) --n.parentpointer->childnotready
Report(t) ==
  /\ Step(t, "report", "spin")
  /\ childnotready' = [childnotready EXCEPT ![(Socket[t] - 1) \div 4] = @ - 1]
  /\ UNCHANGED <<parentsense, sense>>

\* follower: --n.childnotready
Arrive(t) ==
  /\ Step(t, "arrive", "spin")
  /\ childnotready' = [childnotready EXCEPT ![Socket[t]] = @ - 1]
  /\ UNCHANGED <<parentsense, sense>>

Released_OneBehind(t) == parentsense[Socket[t]] >= sense[t] - 1

\* while (n.parentsense != s)
Released(t) == parentsense[Socket[t]] = sense[t]

\* A released leader goes on to wake its child sockets, a follower returns.
SpinLeader(t) ==
  /\ IsLeader(t)
  /\ Released(t)
  /\ Step(t, "spin", "wake0")
  /\ UNCHANGED <<childnotready, parentsense, sense>>

NextRound(t) == sense' = [sense EXCEPT ![t] = @ + 1]

SpinFollower(t) ==
  /\ ~IsLeader(t)
  /\ Released(t)
  /\ Return(t, "spin")
  /\ NextRound(t)
  /\ UNCHANGED <<childnotready, parentsense>>

\* if (n.childpointers[k]) n.childpointers[k]->parentsense = s
Awaken(t, k) ==
  LET c == 2 * Socket[t] + k + 1
  IN  parentsense' = IF c < Pkgs(num) THEN [parentsense EXCEPT ![c] = sense[t]] ELSE parentsense

Wake0(t) ==
  /\ Step(t, "wake0", "wake1")
  /\ Awaken(t, 0)
  /\ UNCHANGED <<childnotready, sense>>

Wake1(t) ==
  /\ t # 0
  /\ Return(t, "wake1")
  /\ Awaken(t, 1)
  /\ NextRound(t)
  /\ UNCHANGED childnotready

Wake1Root(t) ==
  /\ t = 0
  /\ Step(t, "wake1", "wakeOwn")
  /\ Awaken(t, 1)
  /\ UNCHANGED <<childnotready, sense>>

\* if (id == 0) n.parentsense = s
WakeOwn(t) ==
  /\ Return(t, "wakeOwn")
  /\ parentsense' = [parentsense EXCEPT ![0] = sense[t]]
  /\ NextRound(t)
  /\ UNCHANGED childnotready

InWait(t) ==
  \/ Collect(t) \/ Rearm(t) \/ Report(t) \/ Arrive(t)
  \/ SpinLeader(t) \/ SpinFollower(t)
  \/ Wake0(t) \/ Wake1(t) \/ Wake1Root(t) \/ WakeOwn(t)

Next ==
  \/ \E t \in Active : Enter(t) \/ InWait(t)
  \/ \E val \in 1 .. MaxThreads : Reinit(val)

\* A thread inside wait() runs; nothing obliges a thread to call wait().
Fairness == \A t \in Threads : WF_vars(t \in Active /\ InWait(t))

FairSpec == Init /\ [][Next]_vars /\ Fairness

================================================================================
