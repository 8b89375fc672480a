---------------------------- MODULE DGTerminator ----------------------------
(* The distributed termination detector of the bulk-asynchronous mode       *)
(* (libdist, DTerminationDetector.h) under the loop of an application such  *)
(* as bfs_push: a first iteration outside the loop, then rounds of local    *)
(* work, an exchange that does not wait for messages, and dga.reduce().     *)
(* Hosts take snapshots with a non-blocking MAX-allreduce; a host ends when *)
(* two snapshots in a row were taken without work in between anywhere.      *)
(* The network is the one of NetworkBuffered with its stages: a message is  *)
(* queued, in the worker's hand, on the wire, and in the receiver's queues. *)
EXTENDS Integers, Sequences, FiniteSets

CONSTANTS Hosts,
          Sources,      \* hosts with a copy of the start node
          MaxUpdates,   \* bound: updates of labels in all
          FirstItrs,    \* do programs process the start node before the loop?
          HandCounted   \* does anyPendingSends count a message in hand?

ASSUME DistAssumption ==
    /\ MaxUpdates \in Nat /\ FirstItrs \subseteq BOOLEAN /\ HandCounted \in BOOLEAN

VARIABLES
  \* application: its kind, position, is some node to be processed, updates so far
  firstItr, host_pc, work, updates,
  \* DGTerminator
  local_mdata, prev_snapshot, snapshot, global_snapshot, work_done,
  snapshot_ended, snapshot_request,
  \* MPI: allreduces entered by each host, running maximum of each
  entered, maximum,
  \* network, per ordered pair of hosts; finished sends not yet reported
  queued, hand, wire, arrived, unreported, anyReceivedMessages

app == <<firstItr, host_pc, work, updates>>
detector == <<local_mdata, prev_snapshot, snapshot, global_snapshot, work_done,
              snapshot_ended, snapshot_request>>
collectives == <<entered, maximum>>
network == <<queued, hand, wire, arrived, unreported, anyReceivedMessages>>
distVars == <<app, detector, collectives, network>>

PerHost(v) == [h \in Hosts |-> v]

DistInit ==
    /\ firstItr \in FirstItrs
    /\ host_pc = PerHost(IF firstItr THEN "first" ELSE "construct") /\ updates = 0
    /\ work = [h \in Hosts |-> h \in Sources]
    /\ local_mdata = PerHost(FALSE) /\ prev_snapshot = PerHost(0)
    /\ snapshot = PerHost(1) /\ global_snapshot = PerHost(1)
    /\ work_done = PerHost(FALSE) /\ snapshot_ended = PerHost(FALSE)
    /\ snapshot_request = PerHost(FALSE)
    /\ entered = PerHost(0) /\ maximum = <<>>
    /\ queued = PerHost(PerHost(0)) /\ hand = PerHost(PerHost(0))
    /\ wire = PerHost(PerHost(0)) /\ arrived = PerHost(PerHost(0))
    /\ unreported = PerHost(0) /\ anyReceivedMessages = PerHost(FALSE)

GoOn(h, p) == host_pc' = [host_pc EXCEPT ![h] = p]
-----------------------------------------------------------------------------
(* The network below the program.                                           *)

\* the worker takes what is queued for d into one aggregate ...
Assemble(h, d) ==
    /\ queued[h][d] > 0 /\ \A e \in Hosts : hand[h][e] = 0
    /\ hand' = [hand EXCEPT ![h][d] = 1]
    /\ queued' = [queued EXCEPT ![h][d] = 0]
    /\ UNCHANGED <<app, detector, collectives, wire, arrived, unreported, anyReceivedMessages>>

\* ... and sends it
Enqueue(h, d) ==
    /\ hand[h][d] > 0
    /\ hand' = [hand EXCEPT ![h][d] = 0]
    /\ wire' = [wire EXCEPT ![h][d] = @ + 1]
    /\ UNCHANGED <<app, detector, collectives, queued, arrived, unreported, anyReceivedMessages>>

\* a synchronous send is finished when the receiver has matched it
Match(h, d) ==
    /\ wire[h][d] > 0
    /\ wire' = [wire EXCEPT ![h][d] = @ - 1]
    /\ arrived' = [arrived EXCEPT ![h][d] = @ + 1]
    /\ unreported' = [unreported EXCEPT ![h] = @ + 1]
    /\ UNCHANGED <<app, detector, collectives, queued, hand, anyReceivedMessages>>

CompleteSend(h) ==
    /\ unreported[h] > 0
    /\ unreported' = [unreported EXCEPT ![h] = @ - 1]
    /\ UNCHANGED <<app, detector, collectives, queued, hand, wire, arrived, anyReceivedMessages>>

AnyPendingSends(h) ==
    \/ unreported[h] > 0
    \/ \E d \in Hosts : \/ queued[h][d] > 0 \/ wire[h][d] > 0
                        \/ HandCounted /\ hand[h][d] > 0

InflightRecvs_Ignored(h) == FALSE
InflightRecvs(h) == \E s \in Hosts : arrived[s][h] > 0
-----------------------------------------------------------------------------
(* The application.                                                         *)

\* relaxing an edge changes nothing, a node with edges here, or a mirror of
\* a node that lives elsewhere; labels improve finitely often
Unimproved(h) == UNCHANGED <<queued, updates>>
Improve(h, d) ==
    /\ updates < MaxUpdates /\ updates' = updates + 1
    /\ queued' = [queued EXCEPT ![h][d] = @ + 1]

Relax(h) ==
    \/ /\ Unimproved(h) /\ work' = [work EXCEPT ![h] = FALSE]
    \/ /\ updates < MaxUpdates /\ updates' = updates + 1
       /\ work' = [work EXCEPT ![h] = TRUE]
       /\ UNCHANGED queued
    \/ /\ \E d \in Hosts \ {h} : Improve(h, d)
       /\ work' = [work EXCEPT ![h] = FALSE]

\* FirstItr_BFS: the start node is processed outside the loop
FirstIteration(h) ==
    /\ host_pc[h] = "first" /\ GoOn(h, "firstsync")
    /\ IF work[h] THEN Relax(h) ELSE UNCHANGED <<work, queued, updates>>
    /\ UNCHANGED <<firstItr, detector, collectives, hand, wire, arrived, unreported, anyReceivedMessages>>

\* dga.reset() and the do_all of a round, which counts the active nodes
DoAll(h) ==
    /\ host_pc[h] = "round" /\ GoOn(h, "sync")
    /\ local_mdata' = [local_mdata EXCEPT ![h] = work[h]]
    /\ IF work[h] THEN Relax(h) ELSE UNCHANGED <<work, queued, updates>>
    /\ UNCHANGED <<firstItr, prev_snapshot, snapshot, global_snapshot, work_done, snapshot_ended, snapshot_request,
                   collectives, hand, wire, arrived, unreported, anyReceivedMessages>>

\* syncNetRecv: a message may activate nodes, and masters answer with a
\* broadcast in the same call
Apply(h) ==
    /\ host_pc[h] \in {"firstsync", "sync"}
    /\ \E s \in Hosts : arrived[s][h] > 0 /\ arrived' = [arrived EXCEPT ![s][h] = @ - 1]
    /\ anyReceivedMessages' = [anyReceivedMessages EXCEPT ![h] = TRUE]
    /\ \E more \in BOOLEAN : work' = [work EXCEPT ![h] = @ \/ more]
    /\ Unimproved(h) \/ \E d \in Hosts \ {h} : Improve(h, d)
    /\ UNCHANGED <<firstItr, host_pc, detector, collectives, hand, wire, unreported>>

\* a receive that finds nothing ends the exchange, whatever is under way
EndSync(h) ==
    /\ host_pc[h] = "sync" /\ GoOn(h, "sends")
    /\ UNCHANGED <<firstItr, work, updates, detector, collectives, network>>
-----------------------------------------------------------------------------
(* DGTerminator.                                                            *)

Max2(a, b) == IF a > b THEN a ELSE b

\* MPI_Iallreduce: the host's next collective gets its snapshot number
InitiateSnapshot(h, s) ==
    LET k == entered[h] + 1
    IN /\ entered' = [entered EXCEPT ![h] = k]
       /\ maximum' = IF k > Len(maximum) THEN Append(maximum, s)
                     ELSE [maximum EXCEPT ![k] = Max2(@, s)]
       /\ snapshot_request' = [snapshot_request EXCEPT ![h] = TRUE]

\* the constructor, after the first iteration
Construct(h) ==
    /\ host_pc[h] \in {"firstsync", "construct"} /\ GoOn(h, "round")
    /\ InitiateSnapshot(h, snapshot[h])
    /\ UNCHANGED <<firstItr, work, updates, local_mdata, prev_snapshot, snapshot, global_snapshot, work_done, snapshot_ended, network>>

StillActive_Unrecorded(h) ==
    /\ GoOn(h, "round") /\ UNCHANGED work_done
StillActive(h) ==
    /\ work_done' = [work_done EXCEPT ![h] = TRUE]
    /\ GoOn(h, "round")

CheckSends(h) ==
    /\ host_pc[h] = "sends"
    /\ IF local_mdata[h] \/ AnyPendingSends(h)
       THEN StillActive(h)
       ELSE GoOn(h, "test") /\ UNCHANGED work_done
    /\ UNCHANGED <<firstItr, work, updates, local_mdata, prev_snapshot, snapshot, global_snapshot, snapshot_ended, snapshot_request, collectives, network>>

\* MPI_Test: a collective ends only after every host has entered it; a
\* request that was already reported is null and reported again
SnapshotComplete(h) == \A g \in Hosts : entered[g] >= entered[h]
TestSnapshot(h) ==
    /\ host_pc[h] = "test" /\ GoOn(h, "receives")
    /\ \/ /\ snapshot_request[h] /\ SnapshotComplete(h)
          /\ snapshot_ended' = [snapshot_ended EXCEPT ![h] = TRUE]
          /\ snapshot_request' = [snapshot_request EXCEPT ![h] = FALSE]
          /\ global_snapshot' = [global_snapshot EXCEPT ![h] = maximum[entered[h]]]
       \/ /\ snapshot_ended' = [snapshot_ended EXCEPT ![h] = ~snapshot_request[h]]
          /\ UNCHANGED <<snapshot_request, global_snapshot>>
    /\ UNCHANGED <<firstItr, work, updates, local_mdata, prev_snapshot, snapshot, work_done, collectives, network>>

\* the decision of terminate() for a host that is not active
Reinitialize(h) ==
    /\ prev_snapshot' = [prev_snapshot EXCEPT ![h] = 0]
    /\ snapshot' = [snapshot EXCEPT ![h] = 1]
    /\ global_snapshot' = [global_snapshot EXCEPT ![h] = 1]
    /\ work_done' = [work_done EXCEPT ![h] = FALSE]

TakeSnapshot(h) ==
    LET s == global_snapshot[h] + (IF work_done[h] THEN 1 ELSE 0)
    IN /\ prev_snapshot' = [prev_snapshot EXCEPT ![h] = global_snapshot[h]]
       /\ snapshot' = [snapshot EXCEPT ![h] = s]
       /\ work_done' = [work_done EXCEPT ![h] = FALSE]
       /\ InitiateSnapshot(h, s)
       /\ UNCHANGED global_snapshot

DecideSnapshot(h) ==
    \/ /\ ~snapshot_ended[h] /\ GoOn(h, "round")
       /\ UNCHANGED <<prev_snapshot, snapshot, global_snapshot, work_done, snapshot_request, collectives>>
    \/ /\ snapshot_ended[h] /\ (work_done[h] \/ prev_snapshot[h] # global_snapshot[h])
       /\ GoOn(h, "round") /\ TakeSnapshot(h)
    \/ /\ snapshot_ended[h] /\ ~work_done[h] /\ prev_snapshot[h] = global_snapshot[h]
       /\ GoOn(h, "halted") /\ Reinitialize(h)
       /\ UNCHANGED <<snapshot_request, collectives>>

\* anyPendingReceives, read after the snapshot was tested; it reports a
\* message that the program has received once
ForgetReceived(h) == anyReceivedMessages' = [anyReceivedMessages EXCEPT ![h] = FALSE]

CheckReceives(h) ==
    /\ host_pc[h] = "receives"
    /\ IF anyReceivedMessages[h] \/ InflightRecvs(h)
       THEN StillActive(h) /\ UNCHANGED <<prev_snapshot, snapshot, global_snapshot, snapshot_request, collectives>>
       ELSE DecideSnapshot(h)
    /\ ForgetReceived(h)
    /\ UNCHANGED <<firstItr, work, updates, local_mdata, snapshot_ended, queued, hand, wire, arrived, unreported>>
-----------------------------------------------------------------------------
Host(h) == \/ FirstIteration(h) \/ Construct(h) \/ DoAll(h) \/ Apply(h) \/ EndSync(h)
           \/ CheckSends(h) \/ TestSnapshot(h) \/ CheckReceives(h)

Network(h) == \/ CompleteSend(h)
              \/ \E d \in Hosts : Assemble(h, d) \/ Enqueue(h, d) \/ Match(h, d)

DistNext == \E h \in Hosts : Host(h) \/ Network(h)

DistSpec == DistInit /\ [][DistNext]_distVars
-----------------------------------------------------------------------------
DistTypeOK ==
    /\ host_pc \in [Hosts -> {"first", "firstsync", "construct", "round", "sync", "sends", "test", "receives", "halted"}]
    /\ updates \in 0..MaxUpdates /\ firstItr \in BOOLEAN
    /\ \A v \in {work, local_mdata, work_done, snapshot_ended, snapshot_request, anyReceivedMessages} :
          v \in [Hosts -> BOOLEAN]
    /\ \A v \in {prev_snapshot, snapshot, global_snapshot, entered, unreported} : v \in [Hosts -> Nat]
    /\ maximum \in Seq(Nat)
    /\ \A v \in {queued, hand, wire, arrived} : v \in [Hosts -> [Hosts -> 0..MaxUpdates]]

AllQuiet == \A g \in Hosts :
    /\ ~work[g]
    /\ \A d \in Hosts : queued[g][d] + hand[g][d] + wire[g][d] + arrived[g][d] = 0

Halted(h) == host_pc[h] = "halted"

(* terminate() answers true only when no host has work left and no message  *)
(* is anywhere between two hosts: a host that leaves the loop never leaves  *)
(* an update behind.  This is for programs that do all their work under the *)
(* detector.  The types are part of the invariant.                          *)
HaltsOnlyWhenQuiet == DistTypeOK /\ (~firstItr /\ (\E h \in Hosts : Halted(h)) => AllQuiet)

SameSnapshot == \A h, g \in Hosts : Halted(h) => entered[g] <= entered[h]
InStep == \A h, g \in Hosts : entered[h] <= entered[g] + 1

(* Hosts go through the snapshots in step, whatever the program: none       *)
(* enters an allreduce before all have entered the one before it, so a      *)
(* request and the buffers it reads and writes are never shared by two      *)
(* collectives.  And all leave after the same snapshot: none enters a       *)
(* further allreduce that the others would never join.                      *)
HaltTogether == InStep /\ (~firstItr => SameSnapshot)

(* Every host leaves the loop.                                              *)
AllHalt == ~firstItr => <>(\A h \in Hosts : Halted(h))

(* HaltTogether for a program like bfs_push, whose first iteration runs     *)
(* before the detector is constructed.                                      *)
HaltTogetherAfterFirstItr == firstItr => SameSnapshot
=============================================================================
