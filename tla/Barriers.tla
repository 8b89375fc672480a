-------------------------------- MODULE Barriers --------------------------------
(***************************************************************************)
(* The barriers of the substrate behind their common interface             *)
(* (libgalois/include/galois/substrate/Barrier.h), under the client of     *)
(* libgalois/test/barriers.cpp, which drives one implementation after the  *)
(* other through the same calls. A behaviour runs one implementation; the  *)
(* variables are the members of all classes, and a member that the class   *)
(* of the object does not have is Absent.                                  *)
(***************************************************************************)
EXTENDS SocketMap

CONSTANT Participants   \* bound: the numbers of threads tried with each class

Classes == {"Counting", "Dissemination", "MCS", "Topo"}

ASSUME ParticipantsAssumption == Participants \in [Classes -> SUBSET (1 .. MaxThreads)]

VARIABLES impl,                       \* the class of the barrier
          sense,                      \* of every class
          count, local_sense,         \* of CountingBarrier
          parity, flag, r,            \* of DisseminationBarrier
          childnotready, parentsense  \* of MCSBarrier and TopoBarrier

counting == <<count, local_sense>>
dissemination == <<parity, flag, r>>
tree == <<childnotready, parentsense>>

vars == <<impl, num, pc, entered, left, sense, counting, dissemination, tree>>

Counting == INSTANCE CountingBarrier
Dissemination == INSTANCE DisseminationBarrier
MCS == INSTANCE MCSBarrier
Topo == INSTANCE TopoBarrier

Absent == "absent"
NoCounting == count = Absent /\ local_sense = Absent
NoDissemination == parity = Absent /\ flag = Absent /\ r = Absent
NoTree == childnotready = Absent /\ parentsense = Absent

\* createCountingBarrier, createDisseminationBarrier, createMCSBarrier and
\* createTopoBarrier
Init ==
  /\ \/ impl = "Counting" /\ Counting!Init /\ NoDissemination /\ NoTree
     \/ impl = "Dissemination" /\ Dissemination!Init /\ NoCounting /\ NoTree
     \/ impl = "MCS" /\ MCS!Init /\ NoCounting /\ NoDissemination
     \/ impl = "Topo" /\ Topo!Init /\ NoCounting /\ NoDissemination
  /\ num \in Participants[impl]

\* Barrier::reinit(val)
Reinit(val) ==
  /\ UNCHANGED impl
  /\ \/ impl = "Counting" /\ Counting!Reinit(val) /\ UNCHANGED <<dissemination, tree>>
     \/ impl = "Dissemination" /\ Dissemination!Reinit(val) /\ UNCHANGED <<counting, tree>>
     \/ impl = "MCS" /\ MCS!Reinit(val) /\ UNCHANGED <<counting, dissemination>>
     \/ impl = "Topo" /\ Topo!Reinit(val) /\ UNCHANGED <<counting, dissemination>>

\* Thread t calls Barrier::wait().
Enter(t) ==
  /\ UNCHANGED impl
  /\ \/ impl = "Counting" /\ Counting!Enter(t) /\ UNCHANGED <<dissemination, tree>>
     \/ impl = "Dissemination" /\ Dissemination!Enter(t) /\ UNCHANGED <<counting, tree>>
     \/ impl = "MCS" /\ MCS!Enter(t) /\ UNCHANGED <<counting, dissemination>>
     \/ impl = "Topo" /\ Topo!Enter(t) /\ UNCHANGED <<counting, dissemination>>

\* Thread t takes a step of the call it is in.
InWait(t) ==
  /\ UNCHANGED impl
  /\ \/ impl = "Counting" /\ Counting!InWait(t) /\ UNCHANGED <<dissemination, tree>>
     \/ impl = "Dissemination" /\ Dissemination!InWait(t) /\ UNCHANGED <<counting, tree>>
     \/ impl = "MCS" /\ MCS!InWait(t) /\ UNCHANGED <<counting, dissemination>>
     \/ impl = "Topo" /\ Topo!InWait(t) /\ UNCHANGED <<counting, dissemination>>

Next ==
  \/ \E t \in Active : Enter(t) \/ InWait(t)
  \/ \E val \in Participants[impl] : Reinit(val)

\* A thread inside wait() runs; nothing obliges a thread to call wait().
Fairness == \A t \in Threads : WF_vars(t \in Active /\ InWait(t))

FairSpec == Init /\ [][Next]_vars /\ Fairness

--------------------------------------------------------------------------------
TypeOK ==
  /\ impl \in Classes
  /\ impl = "Counting" => Counting!TypeOK
  /\ impl = "Dissemination" => Dissemination!TypeOK
  /\ impl = "MCS" => MCS!TypeOK
  /\ impl = "Topo" => Topo!TypeOK

(***************************************************************************)
(* What a round leaves behind is exact in each implementation. Counting:   *)
(* participants are at most one round apart and count is the number of     *)
(* arrivals still missing. MCS: a parent re-arms a child's flag before the *)
(* child can report its next arrival, so that no arrival is lost. The      *)
(* types are part of the invariant.                                        *)
(***************************************************************************)
RoundsStayApart ==
  /\ TypeOK
  /\ impl = "Counting" => Counting!SenseInv
  /\ impl = "MCS" => \A t \in Active \ {0} : pc[t] = "report" => MCS!Armed(t)

(***************************************************************************)
(* A flag of the dissemination barrier is overwritten only after its owner *)
(* has consumed it, also when the partner is two calls ahead and reuses    *)
(* the bank.                                                               *)
(***************************************************************************)
NoFlagOverrun == [][impl = "Dissemination" => Dissemination!FlagsConsumed]_vars

--------------------------------------------------------------------------------
(***************************************************************************)
(* The machine to run on: six threads on three sockets, in the order in    *)
(* which HWTopoLinux.cpp numbers two-way SMT cores, first one thread per   *)
(* core, then the second hardware threads. With six threads the arrival    *)
(* tree of the MCS barrier has two levels below the root.                  *)
(***************************************************************************)
SomeSocket == [t \in Threads |-> t % 3]

SomeParticipants ==
  [Counting |-> 1 .. 4, Dissemination |-> 1 .. 4, MCS |-> {2, 6}, Topo |-> {1, 3, 5}]

================================================================================
