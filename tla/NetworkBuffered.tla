-------------------------- MODULE NetworkBuffered --------------------------
(* The buffered network interface of libdist (src/NetworkBuffered.cpp) over *)
(* MPI (src/NetworkIOMPI.cpp).  On every host one program thread sends,     *)
(* flushes and receives, and one worker thread cycles over the destinations:*)
(* it completes old sends, probes for arrivals, aggregates the messages     *)
(* queued for the destination into one MPI message, and moves one arrival   *)
(* to the receive buffers.  Messages are records of a tag and an identity;  *)
(* bytes are counted as one per message, so numBytes is never 0 while a     *)
(* message is queued (senders never pass an empty buffer).                  *)
EXTENDS Integers, Sequences, FiniteSets

CONSTANTS Ends,       \* number of hosts
          Tags,       \* tags (phases) in use
          MaxSends,   \* bound: messages a host sends
          Senders,    \* the hosts that send
          Issend      \* GALOIS_SUPPORT_ASYNC: synchronous-mode MPI sends

NetHosts == 0..(Ends - 1)

ASSUME NetworkAssumption ==
    Ends \in Nat \ {0} /\ MaxSends \in Nat /\ Senders \subseteq NetHosts /\ Issend \in BOOLEAN

Message == [tag : Tags, id : 1..MaxSends]

VARIABLES
  \* sendBuffer, per destination
  messages, numBytes, urgent,
  \* counters shared by the two threads of a host
  inflightSends, inflightRecvs,
  \* program thread: what it is doing, messages sent so far
  prog, sent,
  \* worker thread: position, destination index, messages still to copy,
  \* aggregate under construction, source of the probed message
  wpc, turn, todo, held, probed,
  \* NetworkIOMPI: unfinished sends, MPI's channels, received aggregates
  sendQueue, wire, recvQueue,
  \* recvBuffer, per source: a queue of aggregates
  recvData,
  \* ghost: how many queued messages were queued at the last flush
  flushed

buffers == <<messages, numBytes, urgent, flushed>>
counters == <<inflightSends, inflightRecvs>>
program == <<prog, sent>>
worker == <<wpc, turn, todo, held, probed>>
mpi == <<sendQueue, wire, recvQueue>>
netVars == <<buffers, counters, program, worker, mpi, recvData>>

Idle == [op |-> "idle"]

PerPair(v) == [h \in NetHosts |-> [d \in NetHosts |-> v]]

NetInit ==
    /\ messages = PerPair(<<>>) /\ numBytes = PerPair(0)
    /\ urgent = PerPair(0) /\ flushed = PerPair(0)
    /\ inflightSends = [h \in NetHosts |-> 0]
    /\ inflightRecvs = [h \in NetHosts |-> 0]
    /\ prog = [h \in NetHosts |-> Idle] /\ sent = [h \in NetHosts |-> 0]
    /\ wpc = [h \in NetHosts |-> "progress"] /\ turn = [h \in NetHosts |-> 0]
    /\ todo = [h \in NetHosts |-> 0] /\ held = [h \in NetHosts |-> <<>>]
    /\ probed = [h \in NetHosts |-> 0]
    /\ sendQueue = [h \in NetHosts |-> <<>>]
    /\ wire = PerPair(<<>>)
    /\ recvQueue = [h \in NetHosts |-> <<>>]
    /\ recvData = PerPair(<<>>)

(* The worker of h keeps the lock of the buffer it has just emptied from    *)
(* the last pop of assemble until the byte count is corrected.              *)
Locked(h, d) == wpc[h] = "enqueue" /\ turn[h] = d
-----------------------------------------------------------------------------
(* The program thread.                                                      *)

\* sendTagged: the send is counted before it is queued
SendTagged(h, d, t) ==
    /\ prog[h] = Idle /\ h # d
    /\ h \in Senders /\ sent[h] < MaxSends
    /\ sent' = [sent EXCEPT ![h] = @ + 1]
    /\ inflightSends' = [inflightSends EXCEPT ![h] = @ + 1]
    /\ prog' = [prog EXCEPT ![h] = [op |-> "add", dst |-> d, msg |-> [tag |-> t, id |-> sent[h] + 1]]]
    /\ UNCHANGED <<buffers, inflightRecvs, worker, mpi, recvData>>

\* sendBuffer::add, under the lock of the buffer
Add(h) ==
    /\ prog[h].op = "add" /\ ~Locked(h, prog[h].dst)
    /\ LET d == prog[h].dst IN
       /\ messages' = [messages EXCEPT ![h][d] = Append(@, prog[h].msg)]
       /\ numBytes' = [numBytes EXCEPT ![h][d] = @ + 1]
    /\ prog' = [prog EXCEPT ![h] = Idle]
    /\ UNCHANGED <<urgent, flushed, counters, sent, worker, mpi, recvData>>

Flush(h) ==
    /\ prog[h] = Idle /\ h \in Senders
    /\ \E d \in NetHosts : numBytes[h][d] > 0 /\ flushed[h][d] < Len(messages[h][d])
    /\ prog' = [prog EXCEPT ![h] = [op |-> "flush", dst |-> 0]]
    /\ UNCHANGED <<buffers, counters, sent, worker, mpi, recvData>>

\* sendBuffer::markUrgent, for one destination after the other
MarkUrgent(h) ==
    /\ prog[h].op = "flush" /\ ~Locked(h, prog[h].dst)
    /\ LET d == prog[h].dst IN
       /\ IF numBytes[h][d] > 0
          THEN /\ urgent' = [urgent EXCEPT ![h][d] = Len(messages[h][d])]
               /\ flushed' = [flushed EXCEPT ![h][d] = Len(messages[h][d])]
          ELSE UNCHANGED <<urgent, flushed>>
       /\ prog' = [prog EXCEPT ![h] = IF d = Ends - 1 THEN Idle ELSE [@ EXCEPT !.dst = d + 1]]
    /\ UNCHANGED <<messages, numBytes, counters, sent, worker, mpi, recvData>>

\* hasData: only the tag of the front of the queue counts
HasData(h, s, t) == recvData[h][s] # <<>> /\ Head(Head(recvData[h][s])).tag = t

\* popMsg: the first message of the front aggregate; the aggregate stops
\* being counted when its last message is taken
PopMsg(h, s) ==
    LET rest == Tail(Head(recvData[h][s]))
    IN /\ recvData' = [recvData EXCEPT ![h][s] = IF rest = <<>> THEN Tail(@) ELSE <<rest>> \o Tail(@)]
       /\ inflightRecvs' = [inflightRecvs EXCEPT ![h] = IF rest = <<>> THEN @ - 1 ELSE @]

RecieveTagged(h, t) ==
    /\ prog[h] = Idle
    /\ \E s \in NetHosts : /\ HasData(h, s, t)
                           /\ \A r \in 0..(s - 1) : ~HasData(h, r, t)
                           /\ PopMsg(h, s)
    /\ UNCHANGED <<buffers, inflightSends, program, worker, mpi>>
-----------------------------------------------------------------------------
(* The worker thread, for destination turn[h] of its cycle.                 *)

Goto(h, pc) == wpc' = [wpc EXCEPT ![h] = pc]

\* MPI: a synchronous send is complete when the receiver has matched it, an
\* asynchronous one whenever its buffer may be reused
Unfinished(h, d) == Cardinality({i \in DOMAIN sendQueue[h] : sendQueue[h][i] = d})
Matched(h, d) == Unfinished(h, d) > Len(wire[h][d])
SendDone_Buffered(h, d) == TRUE
SendDone(h, d) == Issend => Matched(h, d)

\* progress: sendQueueTy::complete, one turn of its loop at a time ...
CompleteSend(h) ==
    /\ wpc[h] = "progress"
    /\ sendQueue[h] # <<>> /\ SendDone(h, Head(sendQueue[h]))
    /\ sendQueue' = [sendQueue EXCEPT ![h] = Tail(@)]
    /\ inflightSends' = [inflightSends EXCEPT ![h] = @ - 1]
    /\ UNCHANGED <<buffers, inflightRecvs, program, worker, wire, recvQueue, recvData>>

\* ... then recvQueueTy::probe: a message is counted before it is matched
Probe(h) ==
    /\ wpc[h] = "progress" /\ Goto(h, "irecv")
    /\ \E s \in NetHosts : wire[s][h] # <<>> /\ probed' = [probed EXCEPT ![h] = s]
    /\ inflightRecvs' = [inflightRecvs EXCEPT ![h] = @ + 1]
    /\ UNCHANGED <<buffers, inflightSends, program, turn, todo, held, mpi, recvData>>

NothingProbed(h) ==
    /\ wpc[h] = "progress" /\ Goto(h, "ready")
    /\ UNCHANGED <<buffers, counters, program, turn, todo, held, probed, mpi, recvData>>

Irecv(h) ==
    /\ wpc[h] = "irecv" /\ Goto(h, "ready")
    /\ LET s == probed[h] IN
       /\ recvQueue' = [recvQueue EXCEPT ![h] = Append(@, [host |-> s, data |-> Head(wire[s][h])])]
       /\ wire' = [wire EXCEPT ![s][h] = Tail(@)]
    /\ probed' = [probed EXCEPT ![h] = 0]
    /\ UNCHANGED <<buffers, counters, program, turn, todo, held, sendQueue, recvData>>

\* how many messages at the front of q carry the tag of its first one
SameTag(q) ==
    CHOOSE n \in 1..Len(q) : /\ \A i \in 1..n : q[i].tag = Head(q).tag
                             /\ n < Len(q) => q[n + 1].tag # Head(q).tag

\* sendBuffer::ready; without urgency it is the size or the age of the
\* buffer that decides, so either answer is possible
Assemble(h) ==
    /\ wpc[h] = "ready" /\ numBytes[h][turn[h]] > 0
    /\ todo' = [todo EXCEPT ![h] = SameTag(messages[h][turn[h]])]
    /\ Goto(h, "copy")
    /\ UNCHANGED <<buffers, counters, program, turn, held, probed, mpi, recvData>>

NotReady(h) ==
    /\ wpc[h] = "ready" /\ (numBytes[h][turn[h]] > 0 => urgent[h][turn[h]] = 0)
    /\ Goto(h, "dequeue")
    /\ UNCHANGED <<buffers, counters, program, turn, todo, held, probed, mpi, recvData>>

CountDown_Reset(n) == 0
CountDown(n) == IF n > 0 THEN n - 1 ELSE 0

\* assemble's loop: the first message is copied without the lock ...
Copy(h) ==
    /\ wpc[h] = "copy" /\ Goto(h, "pop")
    /\ urgent' = [urgent EXCEPT ![h][turn[h]] = CountDown(@)]
    /\ UNCHANGED <<messages, numBytes, flushed, counters, program, turn, todo, held, probed, mpi, recvData>>

\* ... and removed, and no longer counted, with it
Pop(h) ==
    /\ wpc[h] = "pop"
    /\ LET d == turn[h] IN
       /\ held' = [held EXCEPT ![h] = Append(@, Head(messages[h][d]))]
       /\ messages' = [messages EXCEPT ![h][d] = Tail(@)]
       /\ flushed' = [flushed EXCEPT ![h][d] = IF @ > 0 THEN @ - 1 ELSE 0]
    /\ inflightSends' = [inflightSends EXCEPT ![h] = @ - 1]
    /\ todo' = [todo EXCEPT ![h] = @ - 1]
    /\ Goto(h, IF todo[h] = 1 THEN "enqueue" ELSE "copy")
    /\ UNCHANGED <<numBytes, urgent, inflightRecvs, program, turn, probed, mpi, recvData>>

\* the end of assemble counts the aggregate as one send; it then goes to MPI
CountAggregate(n) == n + 1
Enqueue(h) ==
    /\ wpc[h] = "enqueue" /\ Goto(h, "dequeue")
    /\ LET d == turn[h] IN
       /\ inflightSends' = [inflightSends EXCEPT ![h] = CountAggregate(@)]
       /\ numBytes' = [numBytes EXCEPT ![h][d] = @ - Len(held[h])]
       /\ sendQueue' = [sendQueue EXCEPT ![h] = Append(@, d)]
       /\ wire' = [wire EXCEPT ![h][d] = Append(@, held[h])]
    /\ held' = [held EXCEPT ![h] = <<>>]
    /\ UNCHANGED <<messages, urgent, flushed, inflightRecvs, program, turn, todo, probed, recvQueue, recvData>>

NextTurn_Own(h) == turn' = [turn EXCEPT ![h] = h]
NextTurn(h) == turn' = [turn EXCEPT ![h] = (@ + 1) % Ends]

\* netio->dequeue and recvBuffer::add
Dequeue_InFront(h) ==
    /\ wpc[h] = "dequeue" /\ recvQueue[h] # <<>>
    /\ LET m == Head(recvQueue[h])
       IN recvData' = [recvData EXCEPT ![h][m.host] = <<m.data>> \o @]
    /\ recvQueue' = [recvQueue EXCEPT ![h] = Tail(@)]
    /\ NextTurn(h) /\ Goto(h, "progress")
    /\ UNCHANGED <<buffers, counters, program, todo, held, probed, sendQueue, wire>>
Dequeue(h) ==
    /\ wpc[h] = "dequeue" /\ recvQueue[h] # <<>>
    /\ LET m == Head(recvQueue[h])
       IN recvData' = [recvData EXCEPT ![h][m.host] = Append(@, m.data)]
    /\ recvQueue' = [recvQueue EXCEPT ![h] = Tail(@)]
    /\ NextTurn(h) /\ Goto(h, "progress")
    /\ UNCHANGED <<buffers, counters, program, todo, held, probed, sendQueue, wire>>

NothingDone(h) ==
    /\ wpc[h] = "dequeue" /\ NextTurn(h) /\ Goto(h, "progress")
    /\ UNCHANGED <<buffers, counters, program, todo, held, probed, mpi, recvData>>
-----------------------------------------------------------------------------
ProgramThread(h) ==
    \/ \E d \in NetHosts, t \in Tags : SendTagged(h, d, t)
    \/ Add(h) \/ Flush(h) \/ MarkUrgent(h)
    \/ \E t \in Tags : RecieveTagged(h, t)

WorkerThread(h) ==
    \/ CompleteSend(h) \/ Probe(h) \/ NothingProbed(h) \/ Irecv(h)
    \/ Assemble(h) \/ NotReady(h) \/ Copy(h) \/ Pop(h) \/ Enqueue(h)
    \/ Dequeue(h) \/ NothingDone(h)

NetNext == \E h \in NetHosts : ProgramThread(h) \/ WorkerThread(h)

NetSpec == NetInit /\ [][NetNext]_netVars

-----------------------------------------------------------------------------
Aggregate == Seq(Message) \ {<<>>}

Doing == {Idle} \union [op : {"add"}, dst : NetHosts, msg : Message]
                \union [op : {"flush"}, dst : NetHosts]

NetTypeOK ==
    /\ messages \in [NetHosts -> [NetHosts -> Seq(Message)]]
    /\ numBytes \in [NetHosts -> [NetHosts -> Nat]] /\ urgent \in [NetHosts -> [NetHosts -> Nat]]
    /\ flushed \in [NetHosts -> [NetHosts -> Nat]]
    /\ inflightSends \in [NetHosts -> Nat] /\ inflightRecvs \in [NetHosts -> Nat]
    /\ prog \in [NetHosts -> Doing] /\ sent \in [NetHosts -> 0..MaxSends]
    /\ wpc \in [NetHosts -> {"progress", "irecv", "ready", "copy", "pop", "enqueue", "dequeue"}]
    /\ turn \in [NetHosts -> NetHosts] /\ probed \in [NetHosts -> NetHosts] /\ todo \in [NetHosts -> Nat]
    /\ held \in [NetHosts -> Seq(Message)] /\ sendQueue \in [NetHosts -> Seq(NetHosts)]
    /\ wire \in [NetHosts -> [NetHosts -> Seq(Aggregate)]]
    /\ recvQueue \in [NetHosts -> Seq([host : NetHosts, data : Aggregate])]
    /\ recvData \in [NetHosts -> [NetHosts -> Seq(Aggregate)]]

InHand(h, d) == IF turn[h] = d THEN held[h] ELSE <<>>

\* the messages of a sequence of aggregates
Joined(q) == LET upTo[i \in 0..Len(q)] == IF i = 0 THEN <<>> ELSE upTo[i - 1] \o q[i]
             IN upTo[Len(q)]

Arrived(h, s) == Joined([i \in 1..Len(recvQueue[h]) |->
                    IF recvQueue[h][i].host = s THEN recvQueue[h][i].data ELSE <<>>])

(* What a sender is responsible for is on MPI's channel, in the aggregate   *)
(* under construction or in the send buffer; what a receiver is responsible *)
(* for is in its receive queue or receive buffer.                           *)
Outgoing == [s \in NetHosts |-> [d \in NetHosts |-> Joined(wire[s][d]) \o InHand(s, d) \o messages[s][d]]]
Incoming == [s \in NetHosts |-> [d \in NetHosts |-> Joined(recvData[d][s]) \o Arrived(d, s)]]

Interface == INSTANCE NetworkSpec WITH Hosts <- NetHosts, out <- Outgoing, in <- Incoming

(* Aggregation, the MPI layer and the receive buffers lose, duplicate and   *)
(* reorder nothing between two hosts, and hand out the oldest message first.*)
InOrderExactlyOnce == Interface!Spec

Undelivered(h) == \E d \in NetHosts : Outgoing[h][d] # <<>>
Unread(h) == \E s \in NetHosts : Incoming[s][h] # <<>>

(* With synchronous-mode sends no message escapes both counters: while it   *)
(* is on its way it is counted by its sender, except while its aggregate is *)
(* being closed, and once matched it is counted by its receiver.  The       *)
(* distributed termination detector rests on this.  The types are part of   *)
(* the invariant.                                                           *)
NoMessageUncounted == NetTypeOK /\ \A h \in NetHosts :
    /\ Undelivered(h) => inflightSends[h] > 0 \/ wpc[h] = "enqueue"
    /\ Unread(h) => inflightRecvs[h] > 0

(* A flush is never forgotten: the messages queued when the program called  *)
(* flush stay urgent until they are sent, although the worker counts down   *)
(* urgent without the lock that markUrgent takes.                           *)
FlushNotForgotten == \A h, d \in NetHosts :
    flushed[h][d] <= urgent[h][d] + (IF wpc[h] = "pop" /\ turn[h] = d THEN 1 ELSE 0)

(* Every message sent is received, and both counters return to 0.           *)
Drained == \A h \in NetHosts : /\ ~Undelivered(h) /\ ~Unread(h)
                               /\ inflightSends[h] = 0 /\ inflightRecvs[h] = 0
Drains == <>[]Drained
=============================================================================
