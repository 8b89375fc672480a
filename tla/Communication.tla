----------------------------- MODULE Communication -----------------------------
(***************************************************************************)
(* How hosts communicate: the operations of bulk-synchronous programs on   *)
(* top (HostPhases) and the buffered network below (NetworkBuffered).  A   *)
(* behaviour runs one of them, and the other keeps its initial state;      *)
(* NetworkSpec, which NetworkBuffered is checked to implement, is what     *)
(* HostPhases relies on.                                                   *)
(***************************************************************************)
EXTENDS HostPhases, NetworkBuffered

VARIABLE layer    \* the one that runs

communicationVars == <<layer, vars, netVars>>

CommunicationInit ==
  /\ layer \in {"HostPhases", "NetworkBuffered"}
  /\ Init
  /\ NetInit

CommunicationNext ==
  /\ UNCHANGED layer
  /\ \/ layer = "HostPhases" /\ Next /\ UNCHANGED netVars
     \/ layer = "NetworkBuffered" /\ NetNext /\ UNCHANGED vars

\* Hosts keep running. The worker never stops; a buffer that stays non-empty is
\* ready once COMM_DELAY has passed; MPI reports arrivals and completed operations
\* in the end. The program finishes what it has begun and keeps receiving.
Phases == layer = "HostPhases"
Buffers == layer = "NetworkBuffered"
Receivers == {h \in NetHosts : Senders \ {h} # {}}

CommunicationSpec ==
  /\ CommunicationInit /\ [][CommunicationNext]_communicationVars
  /\ \A h \in Hosts : WF_vars(Phases /\ Step(h))
  /\ \A h \in NetHosts : WF_netVars(Buffers /\ WorkerThread(h))
  /\ \A h \in Senders :
        /\ WF_netVars(Buffers /\ Add(h))
        /\ WF_netVars(Buffers /\ MarkUrgent(h))
        /\ SF_netVars(Buffers /\ CompleteSend(h))
        /\ \A d \in NetHosts \ {h} :
              SF_netVars(Buffers /\ turn[h] = d /\ Assemble(h))
  /\ \A h \in Receivers :
        /\ SF_netVars(Buffers /\ Probe(h))
        /\ SF_netVars(Buffers /\ Dequeue(h))
        /\ \A t \in Tags : SF_netVars(Buffers /\ RecieveTagged(h, t))
--------------------------------------------------------------------------------
(***************************************************************************)
(* Nobody waits forever: all hosts finish their program.                   *)
(***************************************************************************)
ProgramsFinish == <>(Phases => \A h \in Hosts : Done(h))
--------------------------------------------------------------------------------
\* The program to run: setup, rounds that end in an allreduce, and a fence
\* after active messages.
Program == <<"exchange", "reduce", "broadcast", "allreduce", "message", "fence",
             "reduce", "broadcast", "message", "fence">>

\* host 0 has mirrors of all others, host 1 of host 2's nodes only
SomeMirrors == {<<0, 1>>, <<0, 2>>, <<1, 2>>}
================================================================================
