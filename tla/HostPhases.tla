----------------------------- MODULE HostPhases -----------------------------
(* Bulk-synchronous communication of the hosts: Gluon's reduce and broadcast*)
(* (GluonSubstrate.h), the exchange of proxy lists, active messages and the *)
(* host fence (libdist, Barrier.cpp), all matched by the global phase       *)
(* number evilPhase alone.  Every host runs the same sequence of            *)
(* operations; between two hosts the network is a FIFO whose front decides  *)
(* which tag can be received (NetworkSpec).                                 *)
EXTENDS Integers, Sequences, FiniteSets

CONSTANTS N,          \* number of hosts
          Operations, \* the program: a sequence of operation names
          Mirrors,    \* pairs <<h, o>>: h has mirrors of nodes owned by o
          MaxPhase    \* bound of evilPhase (int16_t's maximum)

Hosts == 0..(N - 1)

ASSUME PhasesAssumption ==
    /\ N \in Nat \ {0} /\ MaxPhase \in Nat \ {0, 1}
    /\ Mirrors \subseteq {p \in Hosts \X Hosts : p[1] # p[2]}
    /\ Operations \in
          Seq({"exchange", "reduce", "broadcast", "allreduce", "message", "fence"})

VARIABLES at,         \* at[h]: index of the operation h is in
          pc,         \* "begin" or "receive"
          evilPhase,
          pending,    \* messages h still has to receive in this operation
          chan,       \* chan[s][d]: FIFO of [tag, at]; at is a ghost
          taken       \* ghost: the messages received in this operation

vars == <<at, pc, evilPhase, pending, chan, taken>>

Last == Len(Operations)
Done(h) == at[h] > Last
Op(h) == Operations[at[h]]

Init ==
    /\ at = [h \in Hosts |-> 1] /\ pc = [h \in Hosts |-> "begin"]
    /\ evilPhase = [h \in Hosts |-> 1]
    /\ pending = [h \in Hosts |-> 0]
    /\ chan = [s \in Hosts |-> [d \in Hosts |-> <<>>]]
    /\ taken = [h \in Hosts |-> {}]
-----------------------------------------------------------------------------
\* nothingToSend and nothingToRecv: a reduce goes from mirrors to masters, a
\* broadcast the other way; exchanges and fences go to everybody
SendsTo(h, op) == CASE op = "reduce" -> {o \in Hosts : <<h, o>> \in Mirrors}
                    [] op = "broadcast" -> {o \in Hosts : <<o, h>> \in Mirrors}
                    [] OTHER -> Hosts \ {h}
ReceivesFrom(h, op) == {s \in Hosts : h \in SendsTo(s, op)}

\* messages to wait for in the current operation
Expected_OneLess(h) ==
    Cardinality(ReceivesFrom(h, Op(h))) - (IF Op(h) = "fence" THEN 1 ELSE 0)
Expected(h) == Cardinality(ReceivesFrom(h, Op(h)))

SendAll(h, dests, tag) ==
    chan' = [chan EXCEPT ![h] = [d \in Hosts |->
                IF d \in dests THEN Append(@[d], [tag |-> tag, at |-> at[h]]) ELSE @[d]]]

\* incrementEvilPhase
NextPhase(p) == IF p + 1 >= MaxPhase THEN 1 ELSE p + 1

IncrementEvilPhase_Forgotten(h) == UNCHANGED evilPhase
IncrementEvilPhase(h) == evilPhase' = [evilPhase EXCEPT ![h] = NextPhase(@)]

\* The phase number that every host has in the k-th operation, which is its
\* tag if it is one of those that use a phase
Phased(k) == Operations[k] \in {"exchange", "reduce", "broadcast", "fence"}
PhaseAt[k \in 1..(Last + 1)] ==
    IF k = 1 THEN 1
    ELSE IF Phased(k - 1) THEN NextPhase(PhaseAt[k - 1]) ELSE PhaseAt[k - 1]

\* s sends h a tagged message in the k-th operation
Sends(s, h, k) == Phased(k) /\ h \in SendsTo(s, Operations[k])

\* What programs must do for the phase number to tell operations apart: before
\* s sends to h under the tag of an earlier operation, the two have met.
ASSUME ReuseAssumption ==
    \A s, h \in Hosts : \A j \in 1..Last : \A i \in 1..(j - 1) :
        Sends(s, h, j) /\ Phased(i) /\ PhaseAt[i] = PhaseAt[j] =>
            \E k \in (i + 1)..(j - 1) :
                Sends(s, h, k) \/ Sends(h, s, k) \/ Operations[k] = "allreduce"

\* syncNetSend, the sending half of exchangeProxyInfo and of HostFence::wait
Begin(h) ==
    /\ ~Done(h) /\ pc[h] = "begin" /\ Phased(at[h])
    /\ SendAll(h, SendsTo(h, Op(h)), evilPhase[h])
    /\ pending' = [pending EXCEPT ![h] = Expected(h)]
    /\ pc' = [pc EXCEPT ![h] = "receive"]
    /\ UNCHANGED <<at, evilPhase, taken>>

\* recieveTagged(evilPhase): any host whose front message has this tag; only
\* the number of messages is counted
RecieveNext(h, s) ==
    /\ ~Done(h) /\ pc[h] = "receive" /\ pending[h] > 0
    /\ chan[s][h] # <<>> /\ Head(chan[s][h]).tag = evilPhase[h]
    /\ taken' = [taken EXCEPT ![h] = @ \union {<<s, Head(chan[s][h]).at>>}]
    /\ chan' = [chan EXCEPT ![s][h] = Tail(@)]
    /\ pending' = [pending EXCEPT ![h] = @ - 1]
    /\ UNCHANGED <<at, pc, evilPhase>>

Advance(h) ==
    /\ at' = [at EXCEPT ![h] = @ + 1] /\ pc' = [pc EXCEPT ![h] = "begin"]
    /\ taken' = [taken EXCEPT ![h] = {}]

End(h) ==
    /\ ~Done(h) /\ pc[h] = "receive" /\ pending[h] = 0 /\ Op(h) # "allreduce"
    /\ Advance(h)
    /\ IncrementEvilPhase(h)
    /\ UNCHANGED <<pending, chan>>

\* NetworkInterface::sendMsg or broadcast: active messages carry tag 0 and are
\* not waited for
SendMsg(h) ==
    /\ ~Done(h) /\ Op(h) = "message"
    /\ \E dests \in SUBSET (Hosts \ {h}) : SendAll(h, dests, 0)
    /\ Advance(h)
    /\ UNCHANGED <<evilPhase, pending>>

\* handleReceives, which only the fence calls
HandleReceives_Dropped(h) == FALSE /\ UNCHANGED vars
HandleReceives(h) ==
    /\ ~Done(h) /\ pc[h] = "receive" /\ Op(h) = "fence"
    /\ \E s \in Hosts : /\ chan[s][h] # <<>> /\ Head(chan[s][h]).tag = 0
                        /\ chan' = [chan EXCEPT ![s][h] = Tail(@)]
    /\ UNCHANGED <<at, pc, evilPhase, pending, taken>>

\* DGAccumulator::reduce, a blocking MPI_Allreduce
EnterAllreduce(h) ==
    /\ ~Done(h) /\ pc[h] = "begin" /\ Op(h) = "allreduce"
    /\ pc' = [pc EXCEPT ![h] = "receive"]
    /\ UNCHANGED <<at, evilPhase, pending, chan, taken>>

EntersBefore(h, g) == at[g] < at[h] \/ (at[g] = at[h] /\ pc[g] = "begin")
LeaveAllreduce(h) ==
    /\ ~Done(h) /\ pc[h] = "receive" /\ Op(h) = "allreduce"
    /\ \A g \in Hosts : ~EntersBefore(h, g)
    /\ Advance(h)
    /\ UNCHANGED <<evilPhase, pending, chan>>

Finished == (\A h \in Hosts : Done(h)) /\ UNCHANGED vars

Step(h) == \/ Begin(h) \/ (\E s \in Hosts : RecieveNext(h, s)) \/ End(h)
           \/ SendMsg(h) \/ HandleReceives(h)
           \/ EnterAllreduce(h) \/ LeaveAllreduce(h)

Next == (\E h \in Hosts : Step(h)) \/ Finished

Spec == Init /\ [][Next]_vars
-----------------------------------------------------------------------------
Tag == 0..(MaxPhase - 1)

TypeOK ==
    /\ at \in [Hosts -> 1..(Last + 1)]
    /\ pc \in [Hosts -> {"begin", "receive"}]
    /\ evilPhase \in [Hosts -> Tag \ {0}]
    /\ pending \in [Hosts -> 0..N]
    /\ chan \in [Hosts -> [Hosts -> Seq([tag : Tag, at : 1..Last])]]
    /\ taken \in [Hosts -> SUBSET (Hosts \X (1..Last))]

(* Although a receive names neither the sender nor the operation, every     *)
(* message a host takes belongs to the operation it is in, and none of its  *)
(* partners is counted twice: the phase number keeps operations apart also  *)
(* after it wrapped around.  The types are part of the invariant.           *)
OperationsMatch == TypeOK /\ \A h \in Hosts : ~Done(h) =>
    /\ taken[h] \subseteq ReceivesFrom(h, Op(h)) \X {at[h]}
    /\ pc[h] = "receive" /\ Op(h) # "allreduce" =>
          Cardinality(taken[h]) + pending[h] = Cardinality(ReceivesFrom(h, Op(h)))

\* no active message sent before a fence is under way to a host behind it
FenceDelivers == \A h, s \in Hosts : \A i \in 1..Len(chan[s][h]) :
    LET m == chan[s][h][i]
    IN m.tag = 0 => \A k \in (m.at)..(at[h] - 1) : Operations[k] # "fence"

\* no host is behind a fence that another has not reached
FenceSeparates == \A h, g \in Hosts : \A k \in 1..Last :
    Operations[k] = "fence" /\ at[h] > k => at[g] >= k /\ (at[g] = k => pc[g] = "receive")

(* The host fence acts "like a memory-barrier" (getHostFence in Network.h): *)
(* a host that left it has handled every active message sent before it by   *)
(* any host.  And it is a barrier: no host leaves before all have entered.  *)
FenceHolds == FenceDelivers /\ FenceSeparates
=============================================================================
