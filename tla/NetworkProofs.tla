----------------------------- MODULE NetworkProofs -----------------------------
(***************************************************************************)
(* The counters of the buffered network cover what is on its way, for any  *)
(* number of hosts, tags and messages.                                     *)
(***************************************************************************)
EXTENDS NetworkBuffered, TLAPS

\* The cells of the queues of a host, one for every element.
Cells(q) == {p \in NetHosts \X Nat : p[2] \in 1..Len(q[p[1]])}

\* How often d occurs in a queue.
Count(q, d) == Cardinality({i \in DOMAIN q : q[i] = d})

\* How many messages of the aggregate under construction are for d.
Taken(h, d) == IF turn[h] = d THEN Len(held[h]) ELSE 0

\* What the position of the worker of h says of its locals. The bytes of a
\* buffer are those of its messages and of the aggregate that is being built.
Turns(h) ==
  /\ wpc[h] \in {"copy", "pop"} => todo[h] \in 1..Len(messages[h][turn[h]])
  /\ wpc[h] = "enqueue" => held[h] # <<>>
  /\ wpc[h] \notin {"copy", "pop", "enqueue"} => held[h] = <<>>
  /\ wpc[h] = "irecv" => wire[probed[h]][h] # <<>>
  /\ \A d \in NetHosts : numBytes[h][d] = Len(messages[h][d]) + Taken(h, d)

\* What h counts as being sent: the message it is about to queue, the queued ones
\* and the aggregates MPI has not completed.
Sending(h) ==
  /\ IsFiniteSet(Cells(messages[h]))
  /\ inflightSends[h] = (IF prog[h].op = "add" THEN 1 ELSE 0)
                          + Cardinality(Cells(messages[h])) + Len(sendQueue[h])

\* What it counts as being received: the aggregate it has probed, those in the
\* receive queue and in the receive buffers.
Receiving(h) ==
  /\ IsFiniteSet(Cells(recvData[h]))
  /\ inflightRecvs[h] = (IF wpc[h] = "irecv" THEN 1 ELSE 0)
                          + Len(recvQueue[h]) + Cardinality(Cells(recvData[h]))

\* With synchronous sends what is on MPI's channel is not complete.
Matching(h) ==
  Issend => \A d \in NetHosts : Len(wire[h][d]) <= Count(sendQueue[h], d)

\* What was flushed is urgent.
Urgent(h) ==
  \A d \in NetHosts :
    flushed[h][d] <= urgent[h][d] + (IF wpc[h] = "pop" /\ turn[h] = d THEN 1 ELSE 0)

Own(h) == Turns(h) /\ Sending(h) /\ Receiving(h) /\ Matching(h) /\ Urgent(h)

Inv == NetTypeOK /\ \A h \in NetHosts : Own(h)

--------------------------------------------------------------------------------
\* The facts about finite sets and natural numbers that the proof rests on. They
\* are proved at the end of the module, from the library.
SizeOfEmpty == IsFiniteSet({}) /\ Cardinality({}) = 0
SizesAreNumbers == \A S : IsFiniteSet(S) => Cardinality(S) \in Nat /\ (Cardinality(S) = 0 <=> S = {})
SizeOfMore == \A S, x : IsFiniteSet(S) /\ x \notin S =>
                IsFiniteSet(S \cup {x}) /\ Cardinality(S \cup {x}) = Cardinality(S) + 1
SizeOfLess == \A S, x : IsFiniteSet(S) /\ x \in S =>
                IsFiniteSet(S \ {x}) /\ Cardinality(S \ {x}) = Cardinality(S) - 1
SubsetsFinite == \A S, T : IsFiniteSet(S) /\ T \subseteq S => IsFiniteSet(T)
IntervalsFinite == \A n \in Nat : IsFiniteSet(1..n)
SizeOfImage ==
  \A S, T, f :
    /\ IsFiniteSet(S) /\ f \in [S -> T]
    /\ \A x, y \in S : f[x] = f[y] => x = y
    /\ \A y \in T : \E x \in S : f[x] = y
    => Cardinality(T) = Cardinality(S)
LeastNumber == \A S : S \subseteq Nat /\ S # {} => \E x \in S : \A y \in S : x <= y

FiniteSetFacts ==
  /\ SizeOfEmpty /\ SizesAreNumbers /\ SizeOfMore /\ SizeOfLess
  /\ SubsetsFinite /\ IntervalsFinite /\ SizeOfImage /\ LeastNumber

\* Sets of natural numbers have a least element.
LEMMA HasLeast ==
  ASSUME FiniteSetFacts, NEW S, S \subseteq Nat, S # {}
  PROVE  \E x \in S : \A y \in S : x <= y
  BY Zenon DEF FiniteSetFacts, LeastNumber

\* A bijection preserves the size.
LEMMA SameSize ==
  ASSUME FiniteSetFacts, NEW S, NEW T, NEW f, IsFiniteSet(S), f \in [S -> T],
         \A x, y \in S : f[x] = f[y] => x = y,
         \A y \in T : \E x \in S : f[x] = y
  PROVE  Cardinality(T) = Cardinality(S)
  BY DEF FiniteSetFacts, SizeOfImage

\* A new element makes a set larger by one.
LEMMA OneElementMore ==
  ASSUME FiniteSetFacts, NEW S, NEW x, NEW T, IsFiniteSet(S), x \notin S, T = S \cup {x}
  PROVE  IsFiniteSet(T) /\ Cardinality(T) = Cardinality(S) + 1
<1>1. IsFiniteSet(S \cup {x}) /\ Cardinality(S \cup {x}) = Cardinality(S) + 1
  BY Zenon DEF FiniteSetFacts, SizeOfMore
<1> QED
  BY <1>1, Zenon

\* Empty queues have no cell.
LEMMA NoCells ==
  ASSUME NEW q, \A d \in NetHosts : q[d] = <<>>
  PROVE  Cells(q) = {}
  BY DEF Cells

\* Queues of the same lengths have the same cells.
LEMMA SameCells ==
  ASSUME NEW q, NEW r, \A d \in NetHosts : Len(r[d]) = Len(q[d])
  PROVE  Cells(r) = Cells(q)
<1>1. ASSUME NEW p \in NetHosts \X Nat PROVE Len(r[p[1]]) = Len(q[p[1]])
  BY Zenon
<1> QED
  BY <1>1, Zenon DEF Cells

\* A queue that gets longer by one has one cell more.
LEMMA OneMore ==
  ASSUME FiniteSetFacts, NEW q, NEW r, NEW d \in NetHosts, Len(q[d]) \in Nat, Len(r[d]) = Len(q[d]) + 1,
         \A e \in NetHosts \ {d} : Len(r[e]) = Len(q[e]), IsFiniteSet(Cells(q))
  PROVE  IsFiniteSet(Cells(r)) /\ Cardinality(Cells(r)) = Cardinality(Cells(q)) + 1
<1> DEFINE c == <<d, Len(q[d]) + 1>>
<1>1. Cells(r) = Cells(q) \cup {c}
  <2>1. ASSUME NEW p \in NetHosts \X Nat PROVE p \in Cells(r) <=> p \in Cells(q) \/ p = c
    <3>1. CASE p[1] = d
      BY <3>1 DEF Cells
    <3>2. CASE p[1] # d
      BY <3>2 DEF Cells
    <3> QED
      BY <3>1, <3>2, Zenon
  <2>2. c \in NetHosts \X Nat
    OBVIOUS
  <2>3. Cells(r) \subseteq NetHosts \X Nat /\ Cells(q) \subseteq NetHosts \X Nat
    BY Zenon DEF Cells
  <2> QED
    BY <2>1, <2>2, <2>3, Zenon
<1>2. c \notin Cells(q)
  BY DEF Cells
<1> HIDE DEF c
<1> QED
  BY <1>1, <1>2, OneElementMore, Zenon

\* A queue that gets shorter by one has one cell less.
LEMMA OneLess ==
  ASSUME FiniteSetFacts, NEW q, NEW r, NEW d \in NetHosts, Len(r[d]) \in Nat, Len(q[d]) = Len(r[d]) + 1,
         \A e \in NetHosts \ {d} : Len(r[e]) = Len(q[e]), IsFiniteSet(Cells(q))
  PROVE  IsFiniteSet(Cells(r)) /\ Cardinality(Cells(q)) = Cardinality(Cells(r)) + 1
<1>1. Cells(r) \subseteq Cells(q)
  <2>1. ASSUME NEW p \in NetHosts \X Nat, p \in Cells(r) PROVE p \in Cells(q)
    <3>1. CASE p[1] = d
      BY <2>1, <3>1 DEF Cells
    <3>2. CASE p[1] # d
      BY <2>1, <3>2, Zenon DEF Cells
    <3> QED
      BY <3>1, <3>2, Zenon
  <2> QED
    BY <2>1, Zenon DEF Cells
<1>2. IsFiniteSet(Cells(r))
  BY <1>1, Zenon DEF FiniteSetFacts, SubsetsFinite
<1>3. \A e \in NetHosts \ {d} : Len(q[e]) = Len(r[e])
  BY Zenon
<1> QED
  BY <1>2, <1>3, OneMore, Zenon

\* Where the elements of a queue are.
LEMMA CountFinite ==
  ASSUME FiniteSetFacts, NEW S, NEW q \in Seq(S), NEW d
  PROVE  /\ IsFiniteSet({i \in DOMAIN q : q[i] = d})
         /\ Count(q, d) \in Nat
<1>1. IsFiniteSet(1..Len(q)) /\ DOMAIN q = 1..Len(q)
  BY DEF FiniteSetFacts, IntervalsFinite
<1>2. IsFiniteSet({i \in DOMAIN q : q[i] = d})
  BY <1>1, Zenon DEF FiniteSetFacts, SubsetsFinite
<1> QED
  BY <1>2, Zenon DEF FiniteSetFacts, SizesAreNumbers, Count

\* An element more at the end.
LEMMA CountAppend ==
  ASSUME FiniteSetFacts, NEW S, NEW q \in Seq(S), NEW e \in S, NEW d
  PROVE  Count(Append(q, e), d) = Count(q, d) + (IF e = d THEN 1 ELSE 0)
<1> DEFINE A == {i \in DOMAIN q : q[i] = d}
           B == {i \in DOMAIN Append(q, e) : Append(q, e)[i] = d}
           n == Len(q) + 1
<1>1. IsFiniteSet(A) /\ Cardinality(A) \in Nat
  BY CountFinite, Zenon DEF Count
<1>2. n \notin A
  OBVIOUS
<1>5. Count(q, d) = Cardinality(A) /\ Count(Append(q, e), d) = Cardinality(B)
  BY Zenon DEF Count
<1>3. CASE e = d
  <2>1. B = A \cup {n}
    BY <1>3
  <2> HIDE DEF n, A, B
  <2>2. Cardinality(B) = Cardinality(A) + 1
    BY <1>1, <1>2, <2>1, OneElementMore, Zenon
  <2> QED
    BY <1>3, <1>5, <2>2, Zenon
<1>4. CASE e # d
  <2>1. B = A
    BY <1>4
  <2> HIDE DEF A, B
  <2> QED
    BY <1>1, <1>4, <1>5, <2>1
<1> QED
  BY <1>3, <1>4, Zenon

\* An element less at the front.
LEMMA CountTail ==
  ASSUME FiniteSetFacts, NEW S, NEW q \in Seq(S), q # <<>>, NEW d
  PROVE  Count(q, d) = Count(Tail(q), d) + (IF Head(q) = d THEN 1 ELSE 0)
<1> DEFINE A == {i \in DOMAIN q : q[i] = d}
           B == {i \in DOMAIN Tail(q) : Tail(q)[i] = d}
           f == [i \in B |-> i + 1]
<1>0. Tail(q) \in Seq(S) /\ Len(q) \in Nat \ {0} /\ Len(Tail(q)) = Len(q) - 1
  OBVIOUS
<1>1. IsFiniteSet(A) /\ IsFiniteSet(B) /\ Cardinality(A) \in Nat /\ Cardinality(B) \in Nat
  BY <1>0, CountFinite, Zenon DEF Count
<1>2. Cardinality(A \ {1}) = Cardinality(B)
  <2>1. \A i \in B : i \in Int /\ i + 1 \in A \ {1}
    BY <1>0
  <2>2. \A j \in A \ {1} : j \in Int /\ j - 1 \in B
    BY <1>0
  <2> HIDE DEF A, B
  <2>3. f \in [B -> A \ {1}]
    BY <2>1, Zenon
  <2>4. \A i, j \in B : f[i] = f[j] => i = j
    BY <2>1
  <2>5. \A j \in A \ {1} : \E i \in B : f[i] = j
    BY <2>2
  <2> HIDE DEF f
  <2> QED
    BY <1>1, <2>3, <2>4, <2>5, SameSize, Zenon
<1>3. 1 \in A <=> Head(q) = d
  BY <1>0
<1>4. 1 \in A => Cardinality(A \ {1}) = Cardinality(A) - 1
  BY <1>1, Zenon DEF FiniteSetFacts, SizeOfLess
<1>5. 1 \notin A => A \ {1} = A
  BY Zenon
<1>6. Count(q, d) = Cardinality(A) /\ Count(Tail(q), d) = Cardinality(B)
  BY Zenon DEF Count
<1> HIDE DEF A, B
<1>7. CASE Head(q) = d
  <2>1. Cardinality(B) = Cardinality(A) - 1
    BY <1>2, <1>3, <1>4, <1>7, Zenon
  <2> QED
    BY <1>1, <1>6, <1>7, <2>1
<1>8. CASE Head(q) # d
  <2>1. Cardinality(B) = Cardinality(A)
    BY <1>2, <1>3, <1>5, <1>8, Zenon
  <2> QED
    BY <1>1, <1>6, <1>8, <2>1
<1> QED
  BY <1>7, <1>8, Zenon
--------------------------------------------------------------------------------
\* The network starts empty.
LEMMA InitInv ==
  ASSUME FiniteSetFacts
  PROVE  NetInit => Inv
<1> SUFFICES ASSUME NetInit PROVE Inv
  BY Zenon
<1> USE DEF NetInit, PerPair
<1>1. 0 \in NetHosts /\ MaxSends \in Nat
  BY NetworkAssumption DEF NetHosts
<1>2. NetTypeOK
  BY <1>1 DEF NetTypeOK, Doing
<1>3. ASSUME NEW h \in NetHosts PROVE Own(h)
  <2>1. Turns(h) /\ Urgent(h)
    BY DEF Turns, Taken, Urgent
  <2>2. Cells(messages[h]) = {} /\ Cells(recvData[h]) = {}
    <3>1. \A d \in NetHosts : messages[h][d] = <<>>
      BY Zenon
    <3>2. \A d \in NetHosts : recvData[h][d] = <<>>
      BY Zenon
    <3> HIDE DEF NetInit
    <3> QED
      BY <3>1, <3>2, NoCells, Zenon
  <2>3. prog[h].op = "idle" /\ wpc[h] = "progress" /\ sendQueue[h] = <<>> /\ recvQueue[h] = <<>>
        /\ inflightSends[h] = 0 /\ inflightRecvs[h] = 0
    BY Zenon DEF Idle
  <2>4. Sending(h) /\ Receiving(h)
    <3>1. IsFiniteSet({}) /\ Cardinality({}) = 0
      BY Zenon DEF FiniteSetFacts, SizeOfEmpty
    <3> HIDE DEF NetInit
    <3> QED
      BY <2>2, <2>3, <3>1 DEF Sending, Receiving
  <2>5. Matching(h)
    <3>1. \A d \in NetHosts : Len(wire[h][d]) = 0
      BY Zenon
    <3>2. sendQueue[h] \in Seq(NetHosts)
      BY <2>3
    <3>3. \A d \in NetHosts : Count(sendQueue[h], d) \in Nat
      BY <3>2, CountFinite, Zenon
    <3> QED
      BY <3>1, <3>3 DEF Matching
  <2> QED
    BY <2>1, <2>4, <2>5, Zenon DEF Own
<1> QED
  BY <1>2, <1>3, Zenon DEF Inv
--------------------------------------------------------------------------------
\* Nothing of host g changes.
SameHost(g) ==
  /\ messages'[g] = messages[g] /\ numBytes'[g] = numBytes[g]
  /\ urgent'[g] = urgent[g] /\ flushed'[g] = flushed[g]
  /\ inflightSends'[g] = inflightSends[g] /\ inflightRecvs'[g] = inflightRecvs[g]
  /\ prog'[g] = prog[g] /\ wpc'[g] = wpc[g] /\ turn'[g] = turn[g] /\ todo'[g] = todo[g]
  /\ held'[g] = held[g] /\ probed'[g] = probed[g]
  /\ sendQueue'[g] = sendQueue[g] /\ recvQueue'[g] = recvQueue[g] /\ recvData'[g] = recvData[g]

\* What a step of host h may do to MPI's channels.
WireStep(h) ==
  \/ wire' = wire
  \/ wpc[h] = "irecv" /\ wire' = [wire EXCEPT ![probed[h]][h] = Tail(@)]
  \/ wpc[h] = "enqueue" /\ wire' = [wire EXCEPT ![h][turn[h]] = Append(@, held[h])]

\* The variables are functions on the hosts.
PerHost ==
  /\ messages = [g \in NetHosts |-> messages[g]] /\ numBytes = [g \in NetHosts |-> numBytes[g]]
  /\ urgent = [g \in NetHosts |-> urgent[g]] /\ flushed = [g \in NetHosts |-> flushed[g]]
  /\ inflightSends = [g \in NetHosts |-> inflightSends[g]]
  /\ inflightRecvs = [g \in NetHosts |-> inflightRecvs[g]]
  /\ prog = [g \in NetHosts |-> prog[g]] /\ wpc = [g \in NetHosts |-> wpc[g]]
  /\ turn = [g \in NetHosts |-> turn[g]] /\ todo = [g \in NetHosts |-> todo[g]]
  /\ held = [g \in NetHosts |-> held[g]] /\ probed = [g \in NetHosts |-> probed[g]]
  /\ sendQueue = [g \in NetHosts |-> sendQueue[g]]
  /\ recvQueue = [g \in NetHosts |-> recvQueue[g]]
  /\ recvData = [g \in NetHosts |-> recvData[g]]

\* The part of the types that is about whose a variable is.
LEMMA ArePerHost == NetTypeOK => PerHost
  BY Zenon DEF NetTypeOK, PerHost

\* A host writes only what is its own, and MPI's channels.
LEMMA OthersSame ==
  ASSUME NetTypeOK, NEW h \in NetHosts, ProgramThread(h) \/ WorkerThread(h)
  PROVE  /\ \A g \in NetHosts \ {h} : SameHost(g)
         /\ WireStep(h)
<1>0. PerHost
  BY ArePerHost, Zenon
<1> USE DEF SameHost, PerHost, Goto, buffers, counters, program, worker, mpi
<1>1. ASSUME NEW d \in NetHosts, NEW t \in Tags, SendTagged(h, d, t)
      PROVE  (\A g \in NetHosts \ {h} : SameHost(g)) /\ wire' = wire
  BY <1>0, <1>1, Zenon DEF SendTagged
<1>2. CASE Add(h)
  BY <1>0, <1>2, Zenon DEF Add, WireStep
<1>3. CASE Flush(h)
  BY <1>0, <1>3, Zenon DEF Flush, WireStep
<1>4. CASE MarkUrgent(h)
  BY <1>0, <1>4, Zenon DEF MarkUrgent, WireStep
<1>5. ASSUME NEW t \in Tags, RecieveTagged(h, t)
      PROVE  (\A g \in NetHosts \ {h} : SameHost(g)) /\ wire' = wire
  <2>1. PICK s \in NetHosts : PopMsg(h, s)
    BY <1>5 DEF RecieveTagged
  <2> QED
    BY <1>0, <1>5, <2>1, Zenon DEF RecieveTagged, PopMsg
<1>6. CASE CompleteSend(h)
  BY <1>0, <1>6, Zenon DEF CompleteSend, WireStep
<1>7. CASE Probe(h)
  BY <1>0, <1>7, Zenon DEF Probe, WireStep
<1>8. CASE NothingProbed(h)
  BY <1>0, <1>8, Zenon DEF NothingProbed, WireStep
<1>9. CASE Irecv(h)
  BY <1>0, <1>9, Zenon DEF Irecv, WireStep
<1>10. CASE Assemble(h)
  BY <1>0, <1>10, Zenon DEF Assemble, WireStep
<1>11. CASE NotReady(h)
  BY <1>0, <1>11, Zenon DEF NotReady, WireStep
<1>12. CASE Copy(h)
  BY <1>0, <1>12, Zenon DEF Copy, WireStep
<1>13. CASE Pop(h)
  BY <1>0, <1>13, Zenon DEF Pop, WireStep
<1>14. CASE Enqueue(h)
  BY <1>0, <1>14, Zenon DEF Enqueue, WireStep
<1>15. CASE Dequeue(h)
  BY <1>0, <1>15, Zenon DEF Dequeue, NextTurn, WireStep
<1>16. CASE NothingDone(h)
  BY <1>0, <1>16, Zenon DEF NothingDone, NextTurn, WireStep
<1> HIDE DEF SameHost
<1> QED
  BY <1>1, <1>2, <1>3, <1>4, <1>5, <1>6, <1>7, <1>8, <1>9, <1>10, <1>11, <1>12, <1>13, <1>14,
     <1>15, <1>16, Zenon
  DEF ProgramThread, WorkerThread, WireStep

\* A host keeps what it knows through every step of another.
LEMMA OthersKeep ==
  ASSUME FiniteSetFacts, Inv, NEW h \in NetHosts, NEW g \in NetHosts \ {h}, SameHost(g), WireStep(h)
  PROVE  Own(g)'
<1>1. NetTypeOK /\ Own(g)
  BY Zenon DEF Inv
<1>2. /\ wire \in [NetHosts -> [NetHosts -> Seq(Aggregate)]]
      /\ probed[h] \in NetHosts /\ turn[h] \in NetHosts /\ probed[g] \in NetHosts
  BY <1>1, Zenon DEF NetTypeOK
<1>3. wire[probed[g]][g] # <<>> => wire'[probed[g]][g] # <<>>
  <2>1. CASE wpc[h] = "enqueue" /\ wire' = [wire EXCEPT ![h][turn[h]] = Append(@, held[h])]
    <3>1. held[h] \in Aggregate
      BY <1>1, <2>1, Zenon DEF Inv, Own, Turns, NetTypeOK, Aggregate
    <3>2. wire'[probed[g]][g] \in {wire[probed[g]][g], Append(wire[probed[g]][g], held[h])}
      BY <1>2, <2>1, Zenon
    <3>3. wire[probed[g]][g] \in Seq(Aggregate)
      BY <1>2, Zenon
    <3> QED
      BY <3>1, <3>2, <3>3, SMTT(60)
  <2>2. CASE wire' = [wire EXCEPT ![probed[h]][h] = Tail(@)]
    BY <1>2, <2>2, Zenon
  <2> QED
    BY <2>1, <2>2, Zenon DEF WireStep
<1>4. Turns(g)'
  BY <1>1, <1>3, Zenon DEF Own, Turns, Taken, SameHost
<1>5. Sending(g)' /\ Receiving(g)' /\ Urgent(g)'
  BY <1>1, Zenon DEF Own, Sending, Receiving, Urgent, SameHost
<1>6. Matching(g)'
  <2>1. ASSUME NEW d \in NetHosts, Issend PROVE Len(wire'[g][d]) <= Count(sendQueue'[g], d)
    <3>1. Len(wire[g][d]) <= Count(sendQueue[g], d) /\ sendQueue'[g] = sendQueue[g]
      BY <1>1, <2>1, Zenon DEF Own, Matching, SameHost
    <3>2. CASE wire'[g][d] = wire[g][d]
      BY <3>1, <3>2, Zenon
    <3>3. CASE /\ wpc[h] = "irecv" /\ wire' = [wire EXCEPT ![probed[h]][h] = Tail(@)]
               /\ g = probed[h] /\ d = h
      <4>1. wire[g][d] # <<>>
        BY <3>3, Zenon DEF Inv, Own, Turns
      <4>2. wire'[g][d] = Tail(wire[g][d])
        BY <1>2, <3>3, Zenon
      <4>3. wire[g][d] \in Seq(Aggregate) /\ Count(sendQueue[g], d) \in Nat
        <5>1. sendQueue[g] \in Seq(NetHosts)
          BY <1>1, Zenon DEF NetTypeOK
        <5> QED
          BY <1>2, <5>1, CountFinite, Zenon
      <4>4. Len(wire'[g][d]) \in Nat /\ Len(wire[g][d]) = Len(wire'[g][d]) + 1
        BY <4>1, <4>2, <4>3
      <4> QED
        BY <3>1, <4>3, <4>4
    <3>4. CASE wire' = [wire EXCEPT ![h][turn[h]] = Append(@, held[h])]
      BY <1>2, <3>2, <3>4, Zenon
    <3>5. CASE wpc[h] = "irecv" /\ wire' = [wire EXCEPT ![probed[h]][h] = Tail(@)]
      <4>1. CASE g = probed[h] /\ d = h
        BY <3>3, <3>5, <4>1, Zenon
      <4>2. CASE ~(g = probed[h] /\ d = h)
        <5>1. wire'[g][d] = wire[g][d]
          BY <1>2, <3>5, <4>2, Zenon
        <5> QED
          BY <3>2, <5>1, Zenon
      <4> QED
        BY <4>1, <4>2, Zenon
    <3> QED
      BY <3>2, <3>4, <3>5, Zenon DEF WireStep
  <2> QED
    BY <2>1, Zenon DEF Matching
<1> QED
  BY <1>4, <1>5, <1>6, Zenon DEF Own
--------------------------------------------------------------------------------
\* What a step of host h has to keep.
Keeps(h) == NetTypeOK' /\ Own(h)'

\* What the invariant says of one host.
LEMMA Owned ==
  ASSUME Inv, NEW h \in NetHosts
  PROVE  /\ NetTypeOK /\ Turns(h) /\ Sending(h) /\ Receiving(h) /\ Matching(h) /\ Urgent(h)
         /\ held[h] \in Seq(Message) /\ turn[h] \in NetHosts /\ probed[h] \in NetHosts
         /\ sendQueue[h] \in Seq(NetHosts)
         /\ recvQueue[h] \in Seq([host : NetHosts, data : Aggregate])
         /\ inflightSends[h] \in Nat /\ inflightRecvs[h] \in Nat /\ todo[h] \in Nat
         /\ prog[h] \in Doing /\ sent[h] \in 0..MaxSends
         /\ \A d \in NetHosts :
              /\ messages[h][d] \in Seq(Message) /\ wire[h][d] \in Seq(Aggregate)
              /\ wire[d][h] \in Seq(Aggregate) /\ recvData[h][d] \in Seq(Aggregate)
              /\ numBytes[h][d] \in Nat /\ urgent[h][d] \in Nat /\ flushed[h][d] \in Nat
              /\ Taken(h, d) \in Nat
<1>1. NetTypeOK /\ Own(h)
  BY Zenon DEF Inv
<1>2. \A d \in NetHosts :
              /\ messages[h][d] \in Seq(Message) /\ wire[h][d] \in Seq(Aggregate)
              /\ wire[d][h] \in Seq(Aggregate) /\ recvData[h][d] \in Seq(Aggregate)
              /\ numBytes[h][d] \in Nat /\ urgent[h][d] \in Nat /\ flushed[h][d] \in Nat
  BY <1>1 DEF NetTypeOK
<1>3. /\ held[h] \in Seq(Message) /\ turn[h] \in NetHosts /\ probed[h] \in NetHosts
      /\ sendQueue[h] \in Seq(NetHosts)
      /\ recvQueue[h] \in Seq([host : NetHosts, data : Aggregate])
      /\ inflightSends[h] \in Nat /\ inflightRecvs[h] \in Nat /\ todo[h] \in Nat
      /\ prog[h] \in Doing /\ sent[h] \in 0..MaxSends
  BY <1>1, Zenon DEF NetTypeOK
<1>4. \A d \in NetHosts : Taken(h, d) \in Nat
  <2>1. Len(held[h]) \in Nat
    BY <1>3
  <2> QED
    BY <2>1, Zenon DEF Taken
<1> QED
  BY <1>1, <1>2, <1>3, <1>4, Zenon DEF Own

\* The sizes of what is counted.
LEMMA Sizes ==
  ASSUME FiniteSetFacts, Inv, NEW h \in NetHosts
  PROVE  /\ Cardinality(Cells(messages[h])) \in Nat /\ Cardinality(Cells(recvData[h])) \in Nat
         /\ Len(sendQueue[h]) \in Nat /\ Len(recvQueue[h]) \in Nat
<1>1. IsFiniteSet(Cells(messages[h])) /\ IsFiniteSet(Cells(recvData[h]))
  BY Owned, Zenon DEF Sending, Receiving
<1>2. Cardinality(Cells(messages[h])) \in Nat /\ Cardinality(Cells(recvData[h])) \in Nat
  BY <1>1, Zenon DEF FiniteSetFacts, SizesAreNumbers
<1>3. sendQueue[h] \in Seq(NetHosts)
  BY Owned, Zenon
<1>4. recvQueue[h] \in Seq([host : NetHosts, data : Aggregate])
  BY Owned, Zenon
<1> QED
  BY <1>2, <1>3, <1>4

\* The front and the rest of a queue.
LEMMA Front ==
  ASSUME NEW S, NEW q \in Seq(S), q # <<>>
  PROVE  Head(q) \in S /\ Tail(q) \in Seq(S) /\ Len(q) = Len(Tail(q)) + 1 /\ Len(Tail(q)) \in Nat
  OBVIOUS

\* An update of what a host has keeps its type.
LEMMA SetOne ==
  ASSUME NEW S, NEW f \in [NetHosts -> S], NEW h \in NetHosts, NEW v \in S, NEW g,
         g = [f EXCEPT ![h] = v]
  PROVE  g \in [NetHosts -> S] /\ g[h] = v
  BY Zenon

\* The same for what it has for every other host.
LEMMA SetPair ==
  ASSUME NEW S, NEW f \in [NetHosts -> [NetHosts -> S]], NEW h \in NetHosts, NEW d \in NetHosts,
         NEW v \in S, NEW g, g = [f EXCEPT ![h][d] = v]
  PROVE  /\ g \in [NetHosts -> [NetHosts -> S]] /\ g[h][d] = v
         /\ \A e \in NetHosts \ {d} : g[h][e] = f[h][e]
  BY Zenon

\* sendTagged counts the send.
LEMMA SendTaggedKeeps ==
  ASSUME FiniteSetFacts, Inv, NEW h \in NetHosts, NEW d \in NetHosts, NEW t \in Tags, SendTagged(h, d, t)
  PROVE  Keeps(h)
<1>0. NetTypeOK /\ Turns(h) /\ Sending(h) /\ Receiving(h) /\ Matching(h) /\ Urgent(h)
      /\ inflightSends[h] \in Nat /\ sent[h] \in 0..MaxSends
  BY Owned, Zenon
<1> DEFINE m == [tag |-> t, id |-> sent[h] + 1]
           a == [op |-> "add", dst |-> d, msg |-> m]
<1>1. /\ prog[h] = Idle /\ sent[h] < MaxSends
      /\ sent' = [sent EXCEPT ![h] = sent[h] + 1]
      /\ inflightSends' = [inflightSends EXCEPT ![h] = inflightSends[h] + 1]
      /\ prog' = [prog EXCEPT ![h] = a]
      /\ UNCHANGED <<messages, numBytes, urgent, flushed, inflightRecvs, wpc, turn, todo, held, probed,
                     sendQueue, wire, recvQueue, recvData>>
  BY Zenon DEF SendTagged, buffers, worker, mpi
<1>2. sent[h] + 1 \in 0..MaxSends /\ sent[h] + 1 \in 1..MaxSends /\ inflightSends[h] + 1 \in Nat
  BY <1>0, <1>1, NetworkAssumption
<1>3. a \in Doing /\ a.op = "add"
  BY <1>2, Zenon DEF Doing, Message
<1> HIDE DEF a
<1>4. inflightSends' \in [NetHosts -> Nat] /\ inflightSends'[h] = inflightSends[h] + 1
  <2>1. inflightSends \in [NetHosts -> Nat]
    BY <1>0, Zenon DEF NetTypeOK
  <2> QED
    BY <1>1, <1>2, <2>1, SetOne, Zenon
<1>5. sent' \in [NetHosts -> 0..MaxSends]
  <2>1. sent \in [NetHosts -> 0..MaxSends]
    BY <1>0, Zenon DEF NetTypeOK
  <2> QED
    BY <1>1, <1>2, <2>1, SetOne
<1>6. prog' \in [NetHosts -> Doing] /\ prog'[h] = a
  <2>1. prog \in [NetHosts -> Doing]
    BY <1>0, Zenon DEF NetTypeOK
  <2> QED
    BY <1>1, <1>3, <2>1, SetOne
<1>7. NetTypeOK'
  BY <1>0, <1>1, <1>4, <1>5, <1>6, Zenon DEF NetTypeOK
<1>8. Turns(h)' /\ Receiving(h)' /\ Matching(h)' /\ Urgent(h)'
  BY <1>0, <1>1, Zenon DEF Turns, Taken, Receiving, Matching, Urgent
<1>9. Sending(h)'
  <2>1. prog[h].op = "idle" /\ prog'[h].op = "add"
    BY <1>1, <1>3, <1>6 DEF Idle
  <2>2. messages' = messages /\ sendQueue' = sendQueue
    BY <1>1, Zenon
  <2> QED
    <3>1. /\ inflightSends[h] = 0 + Cardinality(Cells(messages[h])) + Len(sendQueue[h])
          /\ IsFiniteSet(Cells(messages[h]))
      BY <1>0, <2>1, Zenon DEF Sending
    <3>2. inflightSends'[h] = 1 + Cardinality(Cells(messages[h])) + Len(sendQueue[h])
      BY <1>4, <3>1, Sizes
    <3> QED
      BY <2>1, <2>2, <3>1, <3>2, Zenon DEF Sending
<1> QED
  BY <1>7, <1>8, <1>9, Zenon DEF Keeps, Own

\* sendBuffer::add turns the counted message into a queued one.
LEMMA AddKeeps ==
  ASSUME FiniteSetFacts, Inv, NEW h \in NetHosts, Add(h)
  PROVE  Keeps(h)
<1>0. NetTypeOK /\ Turns(h) /\ Sending(h) /\ Receiving(h) /\ Matching(h) /\ Urgent(h)
      /\ prog[h] \in Doing /\ turn[h] \in NetHosts /\ todo[h] \in Nat
  BY Owned, Zenon
<1> DEFINE d == prog[h].dst
           m == prog[h].msg
           q == messages[h][d]
<1>1. d \in NetHosts /\ m \in Message
  BY <1>0, SMTT(60) DEF Add, Doing, Idle
<1> HIDE DEF d, m
<1>2. /\ prog[h].op = "add" /\ ~(wpc[h] = "enqueue" /\ turn[h] = d)
      /\ messages' = [messages EXCEPT ![h][d] = Append(q, m)]
      /\ numBytes' = [numBytes EXCEPT ![h][d] = numBytes[h][d] + 1]
      /\ prog' = [prog EXCEPT ![h] = Idle]
      /\ UNCHANGED <<urgent, flushed, inflightSends, inflightRecvs, sent, wpc, turn, todo, held,
                     probed, sendQueue, wire, recvQueue, recvData>>
  BY Zenon DEF Add, Locked, counters, worker, mpi, d, m
<1>3. q \in Seq(Message) /\ numBytes[h][d] \in Nat /\ Taken(h, d) \in Nat
  BY <1>1, Owned, Zenon
<1>4. /\ Append(q, m) \in Seq(Message) /\ numBytes[h][d] + 1 \in Nat
      /\ Len(Append(q, m)) = Len(q) + 1 /\ Len(q) \in Nat
  BY <1>1, <1>3
<1>5. /\ messages' \in [NetHosts -> [NetHosts -> Seq(Message)]]
      /\ messages'[h][d] = Append(q, m)
      /\ \A e \in NetHosts \ {d} : messages'[h][e] = messages[h][e]
  <2>1. messages \in [NetHosts -> [NetHosts -> Seq(Message)]]
    BY <1>0, Zenon DEF NetTypeOK
  <2> QED
    BY <1>1, <1>2, <1>4, <2>1, SetPair, SMTT(60)
<1>6. /\ numBytes' \in [NetHosts -> [NetHosts -> Nat]]
      /\ numBytes'[h][d] = numBytes[h][d] + 1
      /\ \A e \in NetHosts \ {d} : numBytes'[h][e] = numBytes[h][e]
  <2>1. numBytes \in [NetHosts -> [NetHosts -> Nat]]
    BY <1>0, Zenon DEF NetTypeOK
  <2> QED
    BY <1>1, <1>2, <1>4, <2>1, SetPair
<1>7. Len(messages'[h][d]) = Len(messages[h][d]) + 1
  BY <1>4, <1>5, Zenon
<1> HIDE DEF q
<1>8. prog' \in [NetHosts -> Doing] /\ prog'[h] = Idle
  <2>1. Idle \in Doing
    BY Zenon DEF Doing
  <2>2. prog \in [NetHosts -> Doing]
    BY <1>0, Zenon DEF NetTypeOK
  <2> QED
    BY <1>2, <2>1, <2>2, SetOne
<1>9. NetTypeOK'
  BY <1>0, <1>2, <1>5, <1>6, <1>8, Zenon DEF NetTypeOK
<1>10. Receiving(h)' /\ Matching(h)' /\ Urgent(h)'
  BY <1>0, <1>2, Zenon DEF Receiving, Matching, Urgent
<1>11. Turns(h)'
  <2>1. ASSUME NEW e \in NetHosts
        PROVE  numBytes'[h][e] = Len(messages'[h][e]) + Taken(h, e)'
    <3>1. numBytes[h][e] = Len(messages[h][e]) + Taken(h, e)
      BY <1>0, <2>1, Zenon DEF Turns
    <3>2. Taken(h, e)' = Taken(h, e)
      BY <1>2, Zenon DEF Taken
    <3>3. CASE e # d
      BY <1>5, <1>6, <3>1, <3>2, <3>3, Zenon
    <3>4. CASE e = d
      <4>1. Len(messages[h][d]) \in Nat
        BY <1>4, Zenon DEF q
      <4>2. Taken(h, e) \in Nat /\ Len(messages[h][e]) \in Nat
        BY <1>3, <3>4, <4>1, Zenon
      <4>3. numBytes'[h][e] = numBytes[h][e] + 1
        BY <1>6, <3>4, Zenon
      <4>4. Len(messages'[h][e]) = Len(messages[h][e]) + 1
        BY <1>7, <3>4, Zenon
      <4> QED
        BY <3>1, <3>2, <4>1, <4>2, <4>3, <4>4, SMTT(60)
    <3> QED
      BY <3>3, <3>4, Zenon
  <2>2. wpc[h] \in {"copy", "pop"} => todo[h] \in 1..Len(messages'[h][turn[h]])
    <3>1. wpc[h] \in {"copy", "pop"} => todo[h] \in 1..Len(messages[h][turn[h]])
      BY <1>0, Zenon DEF Turns
    <3>3. CASE turn[h] = d
      <4>1. Len(messages[h][turn[h]]) \in Nat
        BY <1>4, <3>3, Zenon DEF q
      <4> QED
        BY <1>0, <1>7, <3>1, <3>3, <4>1
    <3>4. CASE turn[h] # d
      BY <1>0, <1>5, <3>1, <3>4, Zenon
    <3> QED
      BY <3>3, <3>4, Zenon
  <2> QED
    BY <1>0, <1>2, <2>1, <2>2, Zenon DEF Turns
<1>12. Sending(h)'
  <2>1. Len(messages[h][d]) \in Nat
    BY <1>4, Zenon DEF q
  <2>2. \A e \in NetHosts \ {d} : Len(messages'[h][e]) = Len(messages[h][e])
    BY <1>5, Zenon
  <2>3. IsFiniteSet(Cells(messages[h]))
    BY <1>0, Zenon DEF Sending
  <2>4. /\ IsFiniteSet(Cells(messages'[h]))
        /\ Cardinality(Cells(messages'[h])) = Cardinality(Cells(messages[h])) + 1
    BY <1>1, <1>7, <2>1, <2>2, <2>3, OneMore, Zenon
  <2>5. prog'[h].op = "idle" /\ prog[h].op = "add"
    BY <1>2, <1>8, Zenon DEF Idle
  <2>6. inflightSends' = inflightSends /\ sendQueue' = sendQueue
    BY <1>2, Zenon
  <2> QED
    BY <1>0, <2>4, <2>5, <2>6, Sizes DEF Sending
<1> QED
  BY <1>9, <1>10, <1>11, <1>12, Zenon DEF Keeps, Own

\* flush begins with the first host.
LEMMA FlushKeeps ==
  ASSUME Inv, NEW h \in NetHosts, Flush(h)
  PROVE  Keeps(h)
<1>0. NetTypeOK /\ Turns(h) /\ Sending(h) /\ Receiving(h) /\ Matching(h) /\ Urgent(h)
  BY Owned, Zenon
<1> DEFINE a == [op |-> "flush", dst |-> 0]
<1>1. /\ prog[h] = Idle /\ prog' = [prog EXCEPT ![h] = a]
      /\ UNCHANGED <<messages, numBytes, urgent, flushed, inflightSends, inflightRecvs, sent, wpc, turn,
                     todo, held, probed, sendQueue, wire, recvQueue, recvData>>
  BY Zenon DEF Flush, buffers, counters, worker, mpi
<1>2. a \in Doing /\ a.op = "flush"
  <2>1. 0 \in NetHosts
    BY NetworkAssumption DEF NetHosts
  <2> QED
    BY <2>1, Zenon DEF Doing
<1> HIDE DEF a
<1>3. prog' \in [NetHosts -> Doing] /\ prog'[h] = a
  <2>1. prog \in [NetHosts -> Doing]
    BY <1>0, Zenon DEF NetTypeOK
  <2> QED
    BY <1>1, <1>2, <2>1, SetOne, Zenon
<1>4. NetTypeOK'
  BY <1>0, <1>1, <1>3, Zenon DEF NetTypeOK
<1>5. Turns(h)' /\ Receiving(h)' /\ Matching(h)' /\ Urgent(h)'
  BY <1>0, <1>1, Zenon DEF Turns, Taken, Receiving, Matching, Urgent
<1>6. Sending(h)'
  <2>1. prog[h].op # "add" /\ prog'[h].op # "add"
    BY <1>1, <1>2, <1>3 DEF Idle
  <2> QED
    BY <1>0, <1>1, <2>1, Zenon DEF Sending
<1> QED
  BY <1>4, <1>5, <1>6, Zenon DEF Keeps, Own

\* markUrgent makes what is queued urgent.
LEMMA MarkUrgentKeeps ==
  ASSUME Inv, NEW h \in NetHosts, MarkUrgent(h)
  PROVE  Keeps(h)
<1>0. NetTypeOK /\ Turns(h) /\ Sending(h) /\ Receiving(h) /\ Matching(h) /\ Urgent(h)
      /\ prog[h] \in Doing
  BY Owned, Zenon
<1> DEFINE d == prog[h].dst
           n == Len(messages[h][d])
           a == IF d = Ends - 1 THEN Idle ELSE [prog[h] EXCEPT !.dst = d + 1]
<1>1. prog[h] \in [op : {"flush"}, dst : NetHosts]
  BY <1>0 DEF MarkUrgent, Doing, Idle
<1>2. d \in NetHosts /\ n \in Nat
  <2>1. d \in NetHosts
    BY <1>1, Zenon
  <2>2. messages[h][d] \in Seq(Message)
    BY <2>1, Owned, Zenon
  <2> QED
    BY <2>1, <2>2
<1>3. a \in Doing /\ a.op # "add" /\ prog[h].op # "add"
  <2>1. CASE d = Ends - 1
    BY <1>1, <2>1, Zenon DEF Doing, Idle
  <2>2. CASE d # Ends - 1
    <3>1. d + 1 \in NetHosts
      BY <1>2, <2>2, NetworkAssumption DEF NetHosts
    <3> QED
      BY <1>1, <2>2, <3>1, Zenon DEF Doing
  <2> QED
    BY <2>1, <2>2, Zenon
<1>4. /\ prog' = [prog EXCEPT ![h] = a]
      /\ \/ urgent' = [urgent EXCEPT ![h][d] = n] /\ flushed' = [flushed EXCEPT ![h][d] = n]
         \/ urgent' = urgent /\ flushed' = flushed
      /\ UNCHANGED <<messages, numBytes, inflightSends, inflightRecvs, sent, wpc, turn, todo, held,
                     probed, sendQueue, wire, recvQueue, recvData>>
  BY Zenon DEF MarkUrgent, counters, worker, mpi
<1> HIDE DEF a, n, d
<1>5. prog' \in [NetHosts -> Doing] /\ prog'[h] = a
  <2>1. prog \in [NetHosts -> Doing]
    BY <1>0, Zenon DEF NetTypeOK
  <2> QED
    BY <1>3, <1>4, <2>1, SetOne, Zenon
<1>6. ASSUME urgent' = urgent, flushed' = flushed PROVE NetTypeOK' /\ Urgent(h)'
  <2>1. NetTypeOK'
    BY <1>0, <1>4, <1>5, <1>6, Zenon DEF NetTypeOK
  <2>2. Urgent(h)'
    BY <1>0, <1>4, <1>6, Zenon DEF Urgent
  <2> QED
    BY <2>1, <2>2, Zenon
<1>7. ASSUME urgent' = [urgent EXCEPT ![h][d] = n], flushed' = [flushed EXCEPT ![h][d] = n]
      PROVE  NetTypeOK' /\ Urgent(h)'
  <2>1. /\ urgent' \in [NetHosts -> [NetHosts -> Nat]] /\ urgent'[h][d] = n
        /\ \A e \in NetHosts \ {d} : urgent'[h][e] = urgent[h][e]
    <3>1. urgent \in [NetHosts -> [NetHosts -> Nat]]
      BY <1>0, Zenon DEF NetTypeOK
    <3> QED
      BY <1>2, <1>7, <3>1, SetPair
  <2>2. /\ flushed' \in [NetHosts -> [NetHosts -> Nat]] /\ flushed'[h][d] = n
        /\ \A e \in NetHosts \ {d} : flushed'[h][e] = flushed[h][e]
    <3>1. flushed \in [NetHosts -> [NetHosts -> Nat]]
      BY <1>0, Zenon DEF NetTypeOK
    <3> QED
      BY <1>2, <1>7, <3>1, SetPair
  <2>3. NetTypeOK'
    BY <1>0, <1>4, <1>5, <2>1, <2>2, Zenon DEF NetTypeOK
  <2>4. Urgent(h)'
    <3>1. ASSUME NEW e \in NetHosts
          PROVE  flushed'[h][e] <= urgent'[h][e] + (IF wpc[h] = "pop" /\ turn[h] = e THEN 1 ELSE 0)
      <4>1. CASE e = d
        BY <1>2, <2>1, <2>2, <4>1
      <4>2. CASE e # d
        BY <1>0, <2>1, <2>2, <4>2, Zenon DEF Urgent
      <4> QED
        BY <4>1, <4>2, Zenon
    <3> QED
      BY <1>4, <3>1, Zenon DEF Urgent
  <2> QED
    BY <2>3, <2>4, Zenon
<1>8. Turns(h)' /\ Receiving(h)' /\ Matching(h)'
  BY <1>0, <1>4, Zenon DEF Turns, Taken, Receiving, Matching
<1>9. Sending(h)'
  BY <1>0, <1>3, <1>4, <1>5, Zenon DEF Sending
<1> QED
  BY <1>4, <1>6, <1>7, <1>8, <1>9, Zenon DEF Keeps, Own
--------------------------------------------------------------------------------
\* Taking the first message of the oldest aggregate.
LEMMA PopOne ==
  ASSUME NEW q \in Seq(Aggregate), q # <<>>, NEW r, r = Tail(Head(q))
  PROVE  /\ r \in Seq(Message) /\ Tail(q) \in Seq(Aggregate)
         /\ Len(Tail(q)) \in Nat /\ Len(q) = Len(Tail(q)) + 1
         /\ r # <<>> => <<r>> \o Tail(q) \in Seq(Aggregate) /\ Len(<<r>> \o Tail(q)) = Len(q)
<1>1. Head(q) \in Aggregate /\ Tail(q) \in Seq(Aggregate)
      /\ Len(Tail(q)) \in Nat /\ Len(q) = Len(Tail(q)) + 1
  OBVIOUS
<1>2. r \in Seq(Message)
  <2>1. Head(q) \in Seq(Message) /\ Head(q) # <<>>
    BY <1>1, Zenon DEF Aggregate
  <2> QED
    BY <2>1
<1>3. ASSUME r # <<>> PROVE <<r>> \o Tail(q) \in Seq(Aggregate) /\ Len(<<r>> \o Tail(q)) = Len(q)
  <2>1. r \in Aggregate
    BY <1>2, <1>3, Zenon DEF Aggregate
  <2> QED
    BY <1>1, <2>1
<1> QED
  BY <1>1, <1>2, <1>3, Zenon

\* recieveTagged stops counting an aggregate with its last message.
LEMMA RecieveTaggedKeeps ==
  ASSUME FiniteSetFacts, Inv, NEW h \in NetHosts, NEW t \in Tags, RecieveTagged(h, t)
  PROVE  Keeps(h)
<1>0. NetTypeOK /\ Turns(h) /\ Sending(h) /\ Receiving(h) /\ Matching(h) /\ Urgent(h)
      /\ inflightRecvs[h] \in Nat
  BY Owned, Zenon
<1>1. PICK s \in NetHosts : HasData(h, s, t) /\ PopMsg(h, s)
  BY Zenon DEF RecieveTagged
<1> DEFINE q == recvData[h][s]
           r == Tail(Head(q))
           p == IF r = <<>> THEN Tail(q) ELSE <<r>> \o Tail(q)
           k == IF r = <<>> THEN inflightRecvs[h] - 1 ELSE inflightRecvs[h]
<1>2. /\ q # <<>>
      /\ recvData' = [recvData EXCEPT ![h][s] = p]
      /\ inflightRecvs' = [inflightRecvs EXCEPT ![h] = k]
      /\ UNCHANGED <<messages, numBytes, urgent, flushed, inflightSends, prog, sent, wpc, turn, todo,
                     held, probed, sendQueue, wire, recvQueue>>
  BY <1>1, Zenon DEF RecieveTagged, HasData, PopMsg, buffers, program, worker,
     mpi
<1>3. q \in Seq(Aggregate)
  BY Owned, Zenon
<1> HIDE DEF q
<1>4. /\ r \in Seq(Message) /\ Tail(q) \in Seq(Aggregate)
      /\ Len(Tail(q)) \in Nat /\ Len(q) = Len(Tail(q)) + 1
      /\ r # <<>> => <<r>> \o Tail(q) \in Seq(Aggregate) /\ Len(<<r>> \o Tail(q)) = Len(q)
  BY <1>2, <1>3, PopOne, Zenon
<1> HIDE DEF r
<1>5. p \in Seq(Aggregate) /\ Len(p) = IF r = <<>> THEN Len(Tail(q)) ELSE Len(q)
  BY <1>4, Zenon
<1> HIDE DEF p
<1>6. /\ recvData' \in [NetHosts -> [NetHosts -> Seq(Aggregate)]]
      /\ recvData'[h][s] = p
      /\ \A e \in NetHosts \ {s} : recvData'[h][e] = recvData[h][e]
  <2>1. recvData \in [NetHosts -> [NetHosts -> Seq(Aggregate)]]
    BY <1>0, Zenon DEF NetTypeOK
  <2> QED
    BY <1>2, <1>5, <2>1, SetPair
<1>7. IsFiniteSet(Cells(recvData[h]))
  BY <1>0, Zenon DEF Receiving
<1>8. \A e \in NetHosts \ {s} : Len(recvData'[h][e]) = Len(recvData[h][e])
  BY <1>6, Zenon
<1>9. /\ k \in Nat /\ IsFiniteSet(Cells(recvData'[h]))
      /\ k = (IF wpc[h] = "irecv" THEN 1 ELSE 0) + Len(recvQueue[h]) + Cardinality(Cells(recvData'[h]))
  <2>1. CASE r = <<>>
    <3>1. Len(recvData'[h][s]) \in Nat /\ Len(recvData[h][s]) = Len(recvData'[h][s]) + 1
      BY <1>4, <1>5, <1>6, <2>1, Zenon DEF q
    <3>2. /\ IsFiniteSet(Cells(recvData'[h]))
          /\ Cardinality(Cells(recvData[h])) = Cardinality(Cells(recvData'[h])) + 1
      BY <1>7, <1>8, <3>1, OneLess, Zenon
    <3>3. Cardinality(Cells(recvData'[h])) \in Nat
      BY <3>2, Zenon DEF FiniteSetFacts, SizesAreNumbers
    <3> DEFINE i == IF wpc[h] = "irecv" THEN 1 ELSE 0
               c == Cardinality(Cells(recvData[h]))
               n == Cardinality(Cells(recvData'[h]))
    <3>4. inflightRecvs[h] = i + Len(recvQueue[h]) + c
      BY <1>0, Zenon DEF Receiving
    <3>5. k = inflightRecvs[h] - 1 /\ Len(recvQueue[h]) \in Nat
      BY <2>1, Sizes, Zenon
    <3>6. i \in Nat /\ n \in Nat /\ c = n + 1
      BY <3>2, <3>3, Zenon
    <3> HIDE DEF k, i, c, n
    <3>7. k \in Nat /\ k = i + Len(recvQueue[h]) + n
      <4> DEFINE l == Len(recvQueue[h])
      <4>1. inflightRecvs[h] = i + l + c
        BY <3>4, Zenon
      <4>2. k = inflightRecvs[h] - 1 /\ l \in Nat
        BY <3>5, Zenon
      <4> HIDE DEF l
      <4>3. k \in Nat /\ k = i + l + n
        BY <3>6, <4>1, <4>2
      <4> QED
        BY <4>3, Zenon DEF l
    <3> QED
      BY <3>2, <3>7, Zenon DEF i, n
  <2>2. CASE r # <<>>
    <3>1. Len(recvData'[h][s]) = Len(recvData[h][s])
      BY <1>4, <1>5, <1>6, <2>2, Zenon DEF q
    <3>2. \A e \in NetHosts : Len(recvData'[h][e]) = Len(recvData[h][e])
      BY <1>8, <3>1, Zenon
    <3>3. Cells(recvData'[h]) = Cells(recvData[h])
      BY <3>2, SameCells, Zenon
    <3> QED
      BY <1>0, <2>2, <3>3, Zenon DEF Receiving
  <2> QED
    BY <2>1, <2>2, Zenon
<1> HIDE DEF k
<1>10. inflightRecvs' \in [NetHosts -> Nat] /\ inflightRecvs'[h] = k
  <2>1. inflightRecvs \in [NetHosts -> Nat]
    BY <1>0, Zenon DEF NetTypeOK
  <2> QED
    BY <1>2, <1>9, <2>1, SetOne, Zenon
<1>11. NetTypeOK'
  BY <1>0, <1>2, <1>6, <1>10, Zenon DEF NetTypeOK
<1>12. Turns(h)' /\ Sending(h)' /\ Matching(h)' /\ Urgent(h)'
  BY <1>0, <1>2, Zenon DEF Turns, Taken, Sending, Matching, Urgent
<1>13. Receiving(h)'
  BY <1>2, <1>9, <1>10, Zenon DEF Receiving
<1> QED
  BY <1>11, <1>12, <1>13, Zenon DEF Keeps, Own
--------------------------------------------------------------------------------
\* A position of the worker at which no aggregate is being built.
LEMMA NothingTaken ==
  ASSUME Inv, NEW h \in NetHosts, wpc[h] \notin {"copy", "pop", "enqueue"},
         held' = held, messages' = messages, numBytes' = numBytes,
         wpc'[h] \notin {"copy", "pop", "enqueue"},
         wpc'[h] = "irecv" => wire'[probed'[h]][h] # <<>>
  PROVE  Turns(h)'
<1>1. held[h] = <<>> /\ held'[h] = <<>>
  BY Owned, Zenon DEF Turns
<1>2. \A d \in NetHosts : Taken(h, d) = 0 /\ Taken(h, d)' = 0
  <2>1. Len(held[h]) = 0 /\ Len(held'[h]) = 0
    BY <1>1, Zenon
  <2> QED
    BY <2>1, Zenon DEF Taken
<1>3. \A d \in NetHosts : numBytes[h][d] = Len(messages[h][d]) + Taken(h, d)
  BY Owned, Zenon DEF Turns
<1>4. \A d \in NetHosts : numBytes'[h][d] = Len(messages'[h][d]) + Taken(h, d)'
  BY <1>2, <1>3, Zenon
<1> QED
  BY <1>1, <1>4, Zenon DEF Turns

\* A step of the worker that is not at one of the two places that touch urgent.
LEMMA UrgentSame ==
  ASSUME Inv, NEW h \in NetHosts, wpc[h] # "pop", wpc'[h] # "pop", urgent' = urgent,
         flushed' = flushed
  PROVE  Urgent(h)'
<1>1. Urgent(h)
  BY Owned, Zenon
<1> QED
  BY <1>1, Zenon DEF Urgent

\* The type of the position of the worker.
LEMMA Moved ==
  ASSUME NetTypeOK, NEW h \in NetHosts, 
         NEW x \in {"progress", "irecv", "ready", "copy", "pop", "enqueue", "dequeue"},
         Goto(h, x)
  PROVE  /\ wpc' \in [NetHosts -> {"progress", "irecv", "ready", "copy", "pop", "enqueue", "dequeue"}]
         /\ wpc'[h] = x
<1>1. wpc \in [NetHosts -> {"progress", "irecv", "ready", "copy", "pop", "enqueue", "dequeue"}]
  BY Zenon DEF NetTypeOK
<1>2. wpc' = [wpc EXCEPT ![h] = x]
  BY Zenon DEF Goto
<1> QED
  BY <1>1, <1>2, Zenon

\* complete takes the oldest send from the queue only when it is done.
LEMMA CompleteSendKeeps ==
  ASSUME FiniteSetFacts, Inv, NEW h \in NetHosts, CompleteSend(h)
  PROVE  Keeps(h)
<1>0. NetTypeOK /\ Turns(h) /\ Sending(h) /\ Receiving(h) /\ Matching(h) /\ Urgent(h)
      /\ inflightSends[h] \in Nat /\ sendQueue[h] \in Seq(NetHosts)
  BY Owned, Zenon
<1> DEFINE q == sendQueue[h]
<1>1. /\ q # <<>> /\ SendDone(h, Head(q))
      /\ sendQueue' = [sendQueue EXCEPT ![h] = Tail(q)]
      /\ inflightSends' = [inflightSends EXCEPT ![h] = inflightSends[h] - 1]
      /\ UNCHANGED <<messages, numBytes, urgent, flushed, inflightRecvs, prog, sent, wpc, turn, todo,
                     held, probed, wire, recvQueue, recvData>>
  BY Zenon DEF CompleteSend, buffers, program, worker
<1>2. Tail(q) \in Seq(NetHosts) /\ Len(Tail(q)) \in Nat /\ Len(q) = Len(Tail(q)) + 1
      /\ Head(q) \in NetHosts
  BY <1>0, <1>1
<1>3. inflightSends[h] - 1 \in Nat
      /\ inflightSends[h] - 1 = (IF prog[h].op = "add" THEN 1 ELSE 0)
                                   + Cardinality(Cells(messages[h])) + Len(Tail(q))
  <2>1. inflightSends[h] = (IF prog[h].op = "add" THEN 1 ELSE 0) + Cardinality(Cells(messages[h])) + Len(q)
    BY <1>0, Zenon DEF Sending
  <2>2. Cardinality(Cells(messages[h])) \in Nat
    BY Sizes, Zenon
  <2> HIDE DEF q
  <2> QED
    BY <1>2, <2>1, <2>2
<1>4. sendQueue' \in [NetHosts -> Seq(NetHosts)] /\ sendQueue'[h] = Tail(q)
  <2>1. sendQueue \in [NetHosts -> Seq(NetHosts)]
    BY <1>0, Zenon DEF NetTypeOK
  <2> QED
    BY <1>1, <1>2, <2>1, SetOne, Zenon
<1>5. inflightSends' \in [NetHosts -> Nat] /\ inflightSends'[h] = inflightSends[h] - 1
  <2>1. inflightSends \in [NetHosts -> Nat]
    BY <1>0, Zenon DEF NetTypeOK
  <2> QED
    BY <1>1, <1>3, <2>1, SetOne, Zenon
<1>6. NetTypeOK'
  BY <1>0, <1>1, <1>4, <1>5, Zenon DEF NetTypeOK
<1>7. Turns(h)' /\ Receiving(h)' /\ Urgent(h)'
  BY <1>0, <1>1, Zenon DEF Turns, Taken, Receiving, Urgent
<1>8. Sending(h)'
  BY <1>0, <1>1, <1>3, <1>4, <1>5, Zenon DEF Sending
<1>9. Matching(h)'
  <2>1. ASSUME Issend, NEW d \in NetHosts PROVE Len(wire[h][d]) <= Count(Tail(q), d)
    <3>1. Len(wire[h][d]) <= Count(q, d)
      BY <1>0, <2>1, Zenon DEF Matching
    <3>2. Count(q, d) = Count(Tail(q), d) + (IF Head(q) = d THEN 1 ELSE 0)
      BY <1>0, <1>1, CountTail, Zenon
    <3>3. Count(Tail(q), d) \in Nat /\ Count(q, d) \in Nat
      BY <1>0, <1>2, CountFinite, Zenon
    <3>4. wire[h][d] \in Seq(Aggregate)
      BY Owned, Zenon
    <3>5. Len(wire[h][d]) \in Nat
      BY <3>4
    <3>6. Head(q) = d => Count(q, d) > Len(wire[h][d])
      <4>1. Unfinished(h, d) = Count(q, d)
        BY Zenon DEF Unfinished, Count, Cardinality, Cardinality
      <4>2. Head(q) = d => SendDone(h, d)
        BY <1>1, Zenon
      <4> QED
        BY <2>1, <4>1, <4>2, Zenon DEF SendDone, Matched
    <3> HIDE DEF q
    <3> QED
      BY <3>1, <3>2, <3>3, <3>5, <3>6
  <2> QED
    BY <1>1, <1>4, <2>1, Zenon DEF Matching
<1> QED
  BY <1>6, <1>7, <1>8, <1>9, Zenon DEF Keeps, Own

\* probe counts what it is about to receive.
LEMMA ProbeKeeps ==
  ASSUME FiniteSetFacts, Inv, NEW h \in NetHosts, Probe(h)
  PROVE  Keeps(h)
<1>0. NetTypeOK /\ Turns(h) /\ Sending(h) /\ Receiving(h) /\ Matching(h) /\ Urgent(h)
      /\ inflightRecvs[h] \in Nat
  BY Owned, Zenon
<1>1. /\ wpc[h] = "progress" /\ Goto(h, "irecv")
      /\ inflightRecvs' = [inflightRecvs EXCEPT ![h] = inflightRecvs[h] + 1]
      /\ UNCHANGED <<messages, numBytes, urgent, flushed, inflightSends, prog, sent, turn, todo, held,
                     sendQueue, wire, recvQueue, recvData>>
  BY Zenon DEF Probe, buffers, program, mpi
<1>2. PICK s \in NetHosts : wire[s][h] # <<>> /\ probed' = [probed EXCEPT ![h] = s]
  BY Zenon DEF Probe
<1>3. /\ wpc' \in [NetHosts -> {"progress", "irecv", "ready", "copy", "pop", "enqueue", "dequeue"}]
      /\ wpc'[h] = "irecv"
  BY <1>0, <1>1, Moved, Zenon
<1>4. probed' \in [NetHosts -> NetHosts] /\ probed'[h] = s
  <2>1. probed \in [NetHosts -> NetHosts]
    BY <1>0, Zenon DEF NetTypeOK
  <2> QED
    BY <1>2, <2>1, SetOne, Zenon
<1>5. inflightRecvs' \in [NetHosts -> Nat] /\ inflightRecvs'[h] = inflightRecvs[h] + 1
  <2>1. inflightRecvs \in [NetHosts -> Nat]
    BY <1>0, Zenon DEF NetTypeOK
  <2> QED
    BY <1>0, <1>1, <2>1
<1>6. NetTypeOK'
  BY <1>0, <1>1, <1>3, <1>4, <1>5, Zenon DEF NetTypeOK
<1>7. Sending(h)' /\ Matching(h)'
  BY <1>0, <1>1, Zenon DEF Sending, Matching
<1>8. Turns(h)'
  <2>1. wpc[h] \notin {"copy", "pop", "enqueue"} /\ wpc'[h] \notin {"copy", "pop", "enqueue"}
    BY <1>1, <1>3, Zenon
  <2> QED
    BY <1>1, <1>2, <1>4, <2>1, NothingTaken, Zenon
<1>9. Urgent(h)'
  <2>1. wpc[h] # "pop" /\ wpc'[h] # "pop"
    BY <1>1, <1>3, Zenon
  <2> QED
    BY <1>1, <2>1, UrgentSame, Zenon
<1>10. Receiving(h)'
  <2>1. recvData' = recvData /\ recvQueue' = recvQueue /\ wpc[h] = "progress"
    BY <1>1, Zenon
  <2> QED
    BY <1>0, <1>3, <1>5, <2>1, Sizes DEF Receiving
<1> QED
  BY <1>6, <1>7, <1>8, <1>9, <1>10, Zenon DEF Keeps, Own

\* Moves of the worker that do nothing else, and the ones to the next destination.
LEMMA MoveKeeps ==
  ASSUME Inv, NEW h \in NetHosts, NothingProbed(h) \/ NotReady(h) \/ NothingDone(h)
  PROVE  Keeps(h)
<1>0. NetTypeOK /\ Turns(h) /\ Sending(h) /\ Receiving(h) /\ Matching(h) /\ Urgent(h)
      /\ turn[h] \in NetHosts
  BY Owned, Zenon
<1>1. PICK x \in {"ready", "dequeue", "progress"} : Goto(h, x)
  BY Zenon DEF NothingProbed, NotReady, NothingDone
<1>2. /\ wpc[h] \in {"ready", "dequeue", "progress"}
      /\ turn' = turn \/ turn' = [turn EXCEPT ![h] = (turn[h] + 1) % Ends]
      /\ UNCHANGED <<messages, numBytes, urgent, flushed, inflightSends, inflightRecvs, prog, sent,
                     todo, held, probed, sendQueue, wire, recvQueue, recvData>>
  BY Zenon DEF NothingProbed, NotReady, NothingDone, NextTurn, buffers,
     counters, program, mpi
<1>3. /\ wpc' \in [NetHosts -> {"progress", "irecv", "ready", "copy", "pop", "enqueue", "dequeue"}]
      /\ wpc'[h] = x
  BY <1>0, <1>1, Moved, Zenon
<1>4. turn' \in [NetHosts -> NetHosts]
  <2>1. turn \in [NetHosts -> NetHosts]
    BY <1>0, Zenon DEF NetTypeOK
  <2>2. (turn[h] + 1) % Ends \in NetHosts
    BY <1>0, NetworkAssumption DEF NetHosts
  <2> QED
    BY <1>2, <2>1, <2>2, SetOne
<1>5. NetTypeOK'
  BY <1>0, <1>2, <1>3, <1>4, Zenon DEF NetTypeOK
<1>6. /\ wpc[h] \notin {"copy", "pop", "enqueue"} /\ wpc'[h] \notin {"copy", "pop", "enqueue"}
      /\ wpc[h] # "pop" /\ wpc'[h] # "pop" /\ wpc[h] # "irecv" /\ wpc'[h] # "irecv"
  BY <1>2, <1>3, Zenon
<1>7. Turns(h)'
  BY <1>2, <1>6, NothingTaken, Zenon
<1>8. Urgent(h)'
  BY <1>2, <1>6, UrgentSame, Zenon
<1>9. Sending(h)' /\ Receiving(h)' /\ Matching(h)'
  BY <1>0, <1>2, <1>6, Zenon DEF Sending, Receiving, Matching
<1> QED
  BY <1>5, <1>7, <1>8, <1>9, Zenon DEF Keeps, Own

\* The receive of what was probed: it leaves MPI's channel for the receive queue.
LEMMA IrecvKeeps ==
  ASSUME FiniteSetFacts, Inv, NEW h \in NetHosts, Irecv(h)
  PROVE  Keeps(h)
<1>0. NetTypeOK /\ Turns(h) /\ Sending(h) /\ Receiving(h) /\ Matching(h) /\ Urgent(h)
      /\ recvQueue[h] \in Seq([host : NetHosts, data : Aggregate])
      /\ sendQueue[h] \in Seq(NetHosts)
  BY Owned, Zenon
<1> DEFINE s == probed[h]
           q == wire[s][h]
           m == [host |-> s, data |-> Head(q)]
<1>1. /\ wpc[h] = "irecv" /\ Goto(h, "ready")
      /\ recvQueue' = [recvQueue EXCEPT ![h] = Append(recvQueue[h], m)]
      /\ wire' = [wire EXCEPT ![s][h] = Tail(q)]
      /\ probed' = [probed EXCEPT ![h] = 0]
      /\ UNCHANGED <<messages, numBytes, urgent, flushed, inflightSends, inflightRecvs, prog, sent, turn,
                     todo, held, sendQueue, recvData>>
  BY Zenon DEF Irecv, buffers, counters, program
<1>2. s \in NetHosts /\ q # <<>>
  BY <1>0, <1>1, Owned, Zenon DEF Turns
<1> HIDE DEF s
<1>3. q \in Seq(Aggregate)
  BY <1>2, Owned, Zenon
<1>4. Head(q) \in Aggregate /\ Tail(q) \in Seq(Aggregate) /\ Len(q) = Len(Tail(q)) + 1
      /\ Len(Tail(q)) \in Nat
  BY <1>2, <1>3
<1> HIDE DEF q
<1>5. /\ Append(recvQueue[h], m) \in Seq([host : NetHosts, data : Aggregate])
      /\ Len(Append(recvQueue[h], m)) = Len(recvQueue[h]) + 1
  <2>1. m \in [host : NetHosts, data : Aggregate]
    BY <1>2, <1>4, Zenon
  <2> HIDE DEF m
  <2> QED
    BY <1>0, <2>1
<1> HIDE DEF m
<1>6. /\ recvQueue' \in [NetHosts -> Seq([host : NetHosts, data : Aggregate])]
      /\ recvQueue'[h] = Append(recvQueue[h], m)
  <2>1. recvQueue \in [NetHosts -> Seq([host : NetHosts, data : Aggregate])]
    BY <1>0, Zenon DEF NetTypeOK
  <2> QED
    BY <1>1, <1>5, <2>1, SetOne, Zenon
<1>7. wire' \in [NetHosts -> [NetHosts -> Seq(Aggregate)]] /\ wire'[s][h] = Tail(q)
  <2>1. wire \in [NetHosts -> [NetHosts -> Seq(Aggregate)]]
    BY <1>0, Zenon DEF NetTypeOK
  <2> QED
    BY <1>1, <1>2, <1>4, <2>1, SetPair
<1>8. probed' \in [NetHosts -> NetHosts]
  <2>1. probed \in [NetHosts -> NetHosts]
    BY <1>0, Zenon DEF NetTypeOK
  <2>2. 0 \in NetHosts
    BY NetworkAssumption DEF NetHosts
  <2> QED
    BY <1>1, <2>1, <2>2, SetOne
<1>9. /\ wpc' \in [NetHosts -> {"progress", "irecv", "ready", "copy", "pop", "enqueue", "dequeue"}]
      /\ wpc'[h] = "ready"
  BY <1>0, <1>1, Moved
<1>10. NetTypeOK'
  BY <1>0, <1>1, <1>6, <1>7, <1>8, <1>9, Zenon DEF NetTypeOK
<1>11. /\ wpc[h] \notin {"copy", "pop", "enqueue"} /\ wpc'[h] \notin {"copy", "pop", "enqueue"}
       /\ wpc[h] # "pop" /\ wpc'[h] # "pop" /\ wpc'[h] # "irecv"
  BY <1>1, <1>9, Zenon
<1>12. Turns(h)'
  BY <1>1, <1>11, NothingTaken, Zenon
<1>13. Urgent(h)'
  BY <1>1, <1>11, UrgentSame, Zenon
<1>14. Sending(h)'
  BY <1>0, <1>1, Zenon DEF Sending
<1>15. Receiving(h)'
  <2> DEFINE l == Len(recvQueue[h])
             c == Cardinality(Cells(recvData[h]))
  <2>1. inflightRecvs[h] = 1 + l + c /\ IsFiniteSet(Cells(recvData[h]))
    BY <1>0, <1>1, Zenon DEF Receiving
  <2>2. l \in Nat /\ c \in Nat
    BY Sizes, Zenon
  <2>3. inflightRecvs[h] = 0 + (l + 1) + c
    <3> HIDE DEF l, c
    <3> QED
      BY <2>1, <2>2
  <2>4. Len(recvQueue'[h]) = l + 1
    BY <1>5, <1>6, Zenon
  <2> QED
    BY <1>1, <1>11, <2>1, <2>3, <2>4, Zenon DEF Receiving
<1>16. Matching(h)'
  <2>1. ASSUME Issend, NEW d \in NetHosts PROVE Len(wire'[h][d]) <= Count(sendQueue[h], d)
    <3>1. Len(wire[h][d]) <= Count(sendQueue[h], d)
      BY <1>0, <2>1, Zenon DEF Matching
    <3>2. CASE s = h /\ d = h
      <4>1. Count(sendQueue[h], d) \in Nat
        BY <1>0, CountFinite, Zenon
      <4>2. Len(wire'[h][d]) = Len(Tail(q)) /\ Len(wire[h][d]) = Len(q)
        BY <1>7, <3>2, Zenon DEF q
      <4> DEFINE l == Len(Tail(q))
                 c == Count(sendQueue[h], d)
      <4>3. l + 1 <= c /\ l \in Nat /\ c \in Nat
        BY <1>4, <3>1, <4>1, <4>2, Zenon
      <4>4. l <= c
        <5> HIDE DEF l, c
        <5> QED
          BY <4>3
      <4> QED
        BY <4>2, <4>4, Zenon
    <3>3. CASE ~(s = h /\ d = h)
      <4>1. wire \in [NetHosts -> [NetHosts -> Seq(Aggregate)]]
        BY <1>0, Zenon DEF NetTypeOK
      <4>2. wire'[h][d] = wire[h][d]
        BY <1>1, <1>2, <3>3, <4>1
      <4> QED
        BY <3>1, <4>2, Zenon
    <3> QED
      BY <3>2, <3>3, Zenon
  <2> QED
    BY <1>1, <2>1, Zenon DEF Matching
<1> QED
  BY <1>10, <1>12, <1>13, <1>14, <1>15, <1>16, Zenon DEF Keeps, Own

\* The messages with the tag of the first one are at least one.
LEMMA SameTagRange ==
  ASSUME FiniteSetFacts, NEW q \in Seq(Message), q # <<>>
  PROVE  SameTag(q) \in 1..Len(q)
<1> DEFINE S == {n \in 1..Len(q) : n < Len(q) => q[n + 1].tag # Head(q).tag}
<1>1. Len(q) \in Nat /\ Len(q) \in S /\ S \subseteq Nat
  OBVIOUS
<1>2. PICK n \in S : \A y \in S : n <= y
  <2> HIDE DEF S
  <2> QED
    BY <1>1, HasLeast, Zenon
<1>3. ASSUME NEW i \in 1..n PROVE q[i].tag = Head(q).tag
  <2>1. CASE i = 1
    BY <2>1
  <2>2. CASE i # 1
    <3>1. i - 1 \in 1..Len(q) /\ i - 1 < n /\ n \in Nat /\ (i - 1) + 1 = i
      BY <1>1, <2>2
    <3>2. i - 1 \notin S
      <4> HIDE DEF S
      <4> QED
        BY <1>2, <3>1
    <3> QED
      BY <3>1, <3>2, Zenon
  <2> QED
    BY <2>1, <2>2, Zenon
<1>4. \E k \in 1..Len(q) : /\ \A i \in 1..k : q[i].tag = Head(q).tag
                           /\ k < Len(q) => q[k + 1].tag # Head(q).tag
  BY <1>3, Zenon
<1> QED
  BY <1>4, Zenon DEF SameTag

\* assemble starts when something is queued.
LEMMA AssembleKeeps ==
  ASSUME FiniteSetFacts, Inv, NEW h \in NetHosts, Assemble(h)
  PROVE  Keeps(h)
<1>0. NetTypeOK /\ Turns(h) /\ Sending(h) /\ Receiving(h) /\ Matching(h) /\ Urgent(h)
      /\ turn[h] \in NetHosts
  BY Owned, Zenon
<1> DEFINE q == messages[h][turn[h]]
           n == SameTag(q)
<1>1. /\ wpc[h] = "ready" /\ numBytes[h][turn[h]] > 0 /\ Goto(h, "copy")
      /\ todo' = [todo EXCEPT ![h] = n]
      /\ UNCHANGED <<messages, numBytes, urgent, flushed, inflightSends, inflightRecvs, prog, sent, turn,
                     held, probed, sendQueue, wire, recvQueue, recvData>>
  BY Zenon DEF Assemble, buffers, counters, program, mpi
<1>2. q \in Seq(Message)
  BY <1>0, Owned, Zenon
<1>3. q # <<>>
  <2>1. held[h] = <<>> /\ numBytes[h][turn[h]] = Len(q) + Taken(h, turn[h])
    BY <1>0, <1>1, Zenon DEF Turns
  <2>2. Taken(h, turn[h]) = 0
    BY <2>1, Zenon DEF Taken
  <2> HIDE DEF q
  <2> QED
    BY <1>1, <1>2, <2>1, <2>2
<1>4. n \in 1..Len(q) /\ Len(q) \in Nat
  <2>1. Len(q) \in Nat
    BY <1>2
  <2> QED
    BY <1>2, <1>3, <2>1, SameTagRange, Zenon
<1>5. n \in Nat
  BY <1>4
<1> HIDE DEF n
<1>6. todo' \in [NetHosts -> Nat] /\ todo'[h] = n
  <2>1. todo \in [NetHosts -> Nat]
    BY <1>0, Zenon DEF NetTypeOK
  <2> QED
    BY <1>1, <1>5, <2>1, SetOne, Zenon
<1>7. /\ wpc' \in [NetHosts -> {"progress", "irecv", "ready", "copy", "pop", "enqueue", "dequeue"}]
      /\ wpc'[h] = "copy"
  BY <1>0, <1>1, Moved, Zenon
<1>8. NetTypeOK'
  BY <1>0, <1>1, <1>6, <1>7, Zenon DEF NetTypeOK
<1>9. /\ wpc[h] # "pop" /\ wpc'[h] # "pop" /\ wpc[h] # "irecv" /\ wpc'[h] # "irecv"
      /\ wpc'[h] # "enqueue"
  BY <1>1, <1>7, Zenon
<1>10. Turns(h)'
  BY <1>0, <1>1, <1>4, <1>6, <1>7, <1>9, Zenon DEF Turns, Taken
<1>11. Urgent(h)'
  BY <1>1, <1>9, UrgentSame, Zenon
<1>12. Sending(h)' /\ Receiving(h)' /\ Matching(h)'
  BY <1>0, <1>1, <1>9, Zenon DEF Sending, Receiving, Matching
<1> QED
  BY <1>8, <1>10, <1>11, <1>12, Zenon DEF Keeps, Own

\* Copying a message counts it down.
LEMMA CopyKeeps ==
  ASSUME Inv, NEW h \in NetHosts, Copy(h)
  PROVE  Keeps(h)
<1>0. NetTypeOK /\ Turns(h) /\ Sending(h) /\ Receiving(h) /\ Matching(h) /\ Urgent(h)
      /\ turn[h] \in NetHosts
  BY Owned, Zenon
<1> DEFINE d == turn[h]
           n == CountDown(urgent[h][d])
<1>1. /\ wpc[h] = "copy" /\ Goto(h, "pop")
      /\ urgent' = [urgent EXCEPT ![h][d] = n]
      /\ UNCHANGED <<messages, numBytes, flushed, inflightSends, inflightRecvs, prog, sent, turn, todo,
                     held, probed, sendQueue, wire, recvQueue, recvData>>
  BY Zenon DEF Copy, counters, program, mpi
<1>2. urgent[h][d] \in Nat /\ flushed[h][d] \in Nat
  BY <1>0, Owned, Zenon
<1>3. n \in Nat /\ urgent[h][d] <= n + 1
  BY <1>2 DEF CountDown
<1> HIDE DEF n
<1>4. /\ urgent' \in [NetHosts -> [NetHosts -> Nat]] /\ urgent'[h][d] = n
      /\ \A e \in NetHosts \ {d} : urgent'[h][e] = urgent[h][e]
  <2>1. urgent \in [NetHosts -> [NetHosts -> Nat]]
    BY <1>0, Zenon DEF NetTypeOK
  <2> HIDE DEF d
  <2>2. d \in NetHosts
    BY <1>0, Zenon DEF d
  <2> QED
    BY <1>1, <1>3, <2>1, <2>2, SetPair
<1>5. /\ wpc' \in [NetHosts -> {"progress", "irecv", "ready", "copy", "pop", "enqueue", "dequeue"}]
      /\ wpc'[h] = "pop"
  BY <1>0, <1>1, Moved, Zenon
<1>6. NetTypeOK'
  BY <1>0, <1>1, <1>4, <1>5, Zenon DEF NetTypeOK
<1>7. /\ wpc[h] # "irecv" /\ wpc'[h] # "irecv" /\ wpc'[h] # "enqueue" /\ wpc[h] # "pop"
  BY <1>1, <1>5, Zenon
<1>8. Turns(h)'
  BY <1>0, <1>1, <1>5, <1>7, Zenon DEF Turns, Taken
<1>9. Sending(h)' /\ Receiving(h)' /\ Matching(h)'
  BY <1>0, <1>1, <1>7, Zenon DEF Sending, Receiving, Matching
<1>10. Urgent(h)'
  <2>1. ASSUME NEW e \in NetHosts
        PROVE  flushed[h][e] <= urgent'[h][e] + (IF turn[h] = e THEN 1 ELSE 0)
    <3>1. flushed[h][e] <= urgent[h][e] + 0
      BY <1>0, <1>7, Zenon DEF Urgent
    <3>2. CASE e = d
      <4>1. flushed[h][d] <= urgent[h][d] + 0
        BY <3>1, <3>2, Zenon
      <4>2. flushed[h][d] <= urgent'[h][d] + 1
        BY <1>2, <1>3, <1>4, <4>1
      <4> QED
        BY <3>2, <4>2, Zenon
    <3>3. CASE e # d
      BY <1>4, <3>1, <3>3, Zenon
    <3> QED
      BY <3>2, <3>3, Zenon
  <2> QED
    BY <1>1, <1>5, <2>1, Zenon DEF Urgent
<1> QED
  BY <1>6, <1>8, <1>9, <1>10, Zenon DEF Keeps, Own

\* What is left of a queue of messages, n of them to be copied, without its first.
LEMMA TailCounted ==
  ASSUME NEW s \in Seq(Message), NEW n \in 1..Len(s)
  PROVE  /\ Tail(s) \in Seq(Message) /\ Head(s) \in Message /\ Len(Tail(s)) \in Nat
         /\ Len(s) = Len(Tail(s)) + 1 /\ n - 1 \in Nat
         /\ n # 1 => n - 1 \in 1..Len(Tail(s))
<1>1. Len(s) \in Nat /\ n \in Nat /\ 1 <= n /\ n <= Len(s)
  OBVIOUS
<1>2. s # <<>>
  BY <1>1
<1>3. Tail(s) \in Seq(Message) /\ Head(s) \in Message /\ Len(Tail(s)) = Len(s) - 1
  BY <1>1, <1>2
<1> QED
  BY <1>1, <1>3

\* Removing a copied message stops counting it.
LEMMA PopKeeps ==
  ASSUME FiniteSetFacts, Inv, NEW h \in NetHosts, Pop(h)
  PROVE  Keeps(h)
<1>0. NetTypeOK /\ Turns(h) /\ Sending(h) /\ Receiving(h) /\ Matching(h) /\ Urgent(h)
      /\ turn[h] \in NetHosts /\ todo[h] \in Nat /\ held[h] \in Seq(Message)
      /\ inflightSends[h] \in Nat
  BY Owned, Zenon
<1> DEFINE d == turn[h]
           q == messages[h][d]
           u == IF flushed[h][d] > 0 THEN flushed[h][d] - 1 ELSE 0
           x == IF todo[h] = 1 THEN "enqueue" ELSE "copy"
           y == Append(held[h], Head(q))
<1>1. /\ wpc[h] = "pop" /\ Goto(h, x)
      /\ held' = [held EXCEPT ![h] = y]
      /\ messages' = [messages EXCEPT ![h][d] = Tail(q)]
      /\ flushed' = [flushed EXCEPT ![h][d] = u]
      /\ inflightSends' = [inflightSends EXCEPT ![h] = inflightSends[h] - 1]
      /\ todo' = [todo EXCEPT ![h] = todo[h] - 1]
      /\ UNCHANGED <<numBytes, urgent, inflightRecvs, prog, sent, turn, probed, sendQueue, wire,
                     recvQueue, recvData>>
  BY Zenon DEF Pop, program, mpi
<1>2. d \in NetHosts /\ q \in Seq(Message) /\ flushed[h][d] \in Nat /\ urgent[h][d] \in Nat
      /\ numBytes[h][d] \in Nat
  BY <1>0, Owned, Zenon
<1>3. todo[h] \in 1..Len(q)
  BY <1>0, <1>1, Zenon DEF Turns
<1> HIDE DEF d, q
<1>4. /\ Tail(q) \in Seq(Message) /\ Head(q) \in Message /\ Len(Tail(q)) \in Nat
      /\ Len(q) = Len(Tail(q)) + 1 /\ todo[h] - 1 \in Nat
      /\ todo[h] # 1 => todo[h] - 1 \in 1..Len(Tail(q))
  BY <1>2, <1>3, TailCounted, ZenonT(60)
<1>5. y \in Seq(Message) /\ y # <<>> /\ Len(y) = Len(held[h]) + 1 /\ Len(held[h]) \in Nat
  BY <1>0, <1>4
<1>6. u \in Nat /\ flushed[h][d] <= u + 1 /\ (flushed[h][d] <= urgent[h][d] + 1 => u <= urgent[h][d])
  BY <1>2
<1>7. x \in {"enqueue", "copy"}
  BY Zenon
<1> HIDE DEF u, x, y
<1>8. held' \in [NetHosts -> Seq(Message)] /\ held'[h] = y
  <2>1. held \in [NetHosts -> Seq(Message)]
    BY <1>0, Zenon DEF NetTypeOK
  <2> QED
    BY <1>1, <1>5, <2>1, SetOne
<1>9. /\ messages' \in [NetHosts -> [NetHosts -> Seq(Message)]] /\ messages'[h][d] = Tail(q)
      /\ \A e \in NetHosts \ {d} : messages'[h][e] = messages[h][e]
  <2>1. messages \in [NetHosts -> [NetHosts -> Seq(Message)]]
    BY <1>0, Zenon DEF NetTypeOK
  <2> QED
    BY <1>1, <1>2, <1>4, <2>1, SetPair
<1>10. /\ flushed' \in [NetHosts -> [NetHosts -> Nat]] /\ flushed'[h][d] = u
       /\ \A e \in NetHosts \ {d} : flushed'[h][e] = flushed[h][e]
  <2>1. flushed \in [NetHosts -> [NetHosts -> Nat]]
    BY <1>0, Zenon DEF NetTypeOK
  <2> QED
    BY <1>1, <1>2, <1>6, <2>1, SetPair
<1>11. todo' \in [NetHosts -> Nat] /\ todo'[h] = todo[h] - 1
  <2>1. todo \in [NetHosts -> Nat]
    BY <1>0, Zenon DEF NetTypeOK
  <2> QED
    BY <1>1, <1>4, <2>1, SetOne, Zenon
<1>12. /\ wpc' \in [NetHosts -> {"progress", "irecv", "ready", "copy", "pop", "enqueue", "dequeue"}]
       /\ wpc'[h] = x
  BY <1>0, <1>1, <1>7, Moved, Zenon
<1>13. Len(messages[h][d]) = Len(messages'[h][d]) + 1 /\ Len(messages'[h][d]) \in Nat
  BY <1>4, <1>9, Zenon DEF q
<1>14. /\ IsFiniteSet(Cells(messages'[h]))
       /\ Cardinality(Cells(messages[h])) = Cardinality(Cells(messages'[h])) + 1
  <2>1. IsFiniteSet(Cells(messages[h]))
    BY <1>0, Zenon DEF Sending
  <2>2. \A e \in NetHosts \ {d} : Len(messages'[h][e]) = Len(messages[h][e])
    BY <1>9, Zenon
  <2> QED
    BY <1>2, <1>13, <2>1, <2>2, OneLess, Zenon
<1>15. /\ inflightSends[h] - 1 \in Nat
       /\ inflightSends[h] - 1 = (IF prog[h].op = "add" THEN 1 ELSE 0)
                                    + Cardinality(Cells(messages'[h])) + Len(sendQueue[h])
  <2> DEFINE i == IF prog[h].op = "add" THEN 1 ELSE 0
             c == Cardinality(Cells(messages[h]))
             n == Cardinality(Cells(messages'[h]))
             l == Len(sendQueue[h])
  <2>1. inflightSends[h] = i + c + l
    BY <1>0, Zenon DEF Sending
  <2>2. n \in Nat
    BY <1>14, Zenon DEF FiniteSetFacts, SizesAreNumbers
  <2>3. l \in Nat /\ i \in Nat
    BY Sizes, Zenon
  <2>4. c = n + 1
    BY <1>14, Zenon
  <2> HIDE DEF i, c, n, l
  <2>5. inflightSends[h] - 1 \in Nat /\ inflightSends[h] - 1 = i + n + l
    BY <2>1, <2>2, <2>3, <2>4
  <2> QED
    BY <2>5, Zenon DEF i, n, l
<1>16. inflightSends' \in [NetHosts -> Nat] /\ inflightSends'[h] = inflightSends[h] - 1
  <2>1. inflightSends \in [NetHosts -> Nat]
    BY <1>0, Zenon DEF NetTypeOK
  <2> QED
    BY <1>1, <1>15, <2>1, SetOne
<1>17. NetTypeOK'
  BY <1>0, <1>1, <1>8, <1>9, <1>10, <1>11, <1>12, <1>16, Zenon DEF NetTypeOK
<1>18. Sending(h)'
  BY <1>1, <1>14, <1>15, <1>16, Zenon DEF Sending
<1>19. wpc[h] # "irecv" /\ wpc'[h] # "irecv" /\ wpc'[h] # "pop" /\ wpc'[h] \in {"copy", "pop", "enqueue"}
  BY <1>1, <1>7, <1>12, Zenon
<1>20. Receiving(h)' /\ Matching(h)'
  BY <1>0, <1>1, <1>19, Zenon DEF Receiving, Matching
<1>21. Turns(h)'
  <2>1. ASSUME NEW e \in NetHosts PROVE numBytes[h][e] = Len(messages'[h][e]) + Taken(h, e)'
    <3>1. numBytes[h][e] = Len(messages[h][e]) + Taken(h, e)
      BY <1>0, Zenon DEF Turns
    <3>2. CASE e = d
      <4>1. Taken(h, e) = Len(held[h]) /\ Taken(h, e)' = Len(y)
        BY <1>1, <1>8, <3>2, Zenon DEF Taken, d
      <4>2. Len(messages[h][e]) = Len(messages'[h][e]) + 1 /\ Len(messages'[h][e]) \in Nat
        BY <1>13, <3>2, Zenon
      <4> DEFINE l == Len(messages'[h][e])
                 k == Len(held[h])
      <4>3. numBytes[h][e] = (l + 1) + k /\ l \in Nat /\ k \in Nat /\ Taken(h, e)' = k + 1
        BY <1>5, <3>1, <4>1, <4>2, Zenon
      <4>4. numBytes[h][e] = l + (k + 1)
        <5> HIDE DEF l, k
        <5> QED
          BY <4>3
      <4> QED
        BY <4>3, <4>4, Zenon
    <3>3. CASE e # d
      <4>1. Taken(h, e) = 0 /\ Taken(h, e)' = 0
        BY <1>1, <3>3, Zenon DEF Taken, d
      <4> QED
        BY <1>9, <3>1, <3>3, <4>1, Zenon
    <3> QED
      BY <3>2, <3>3, Zenon
  <2>2. wpc'[h] \in {"copy", "pop"} => todo'[h] \in 1..Len(messages'[h][turn'[h]])
    <3>1. wpc'[h] \in {"copy", "pop"} => todo[h] # 1
      BY <1>12, Zenon DEF x
    <3>2. messages'[h][turn'[h]] = Tail(q)
      BY <1>1, <1>9, Zenon DEF d
    <3> QED
      BY <1>4, <1>11, <3>1, <3>2, Zenon
  <2> QED
    BY <1>1, <1>5, <1>8, <1>19, <2>1, <2>2, Zenon DEF Turns
<1>22. Urgent(h)'
  <2>1. ASSUME NEW e \in NetHosts PROVE flushed'[h][e] <= urgent[h][e] + 0
    <3>1. flushed[h][e] <= urgent[h][e] + (IF turn[h] = e THEN 1 ELSE 0)
      BY <1>0, <1>1, Zenon DEF Urgent
    <3>2. CASE e = d
      <4>1. flushed[h][d] <= urgent[h][d] + 1
        BY <3>1, <3>2, Zenon DEF d
      <4>2. flushed'[h][d] <= urgent[h][d] + 0
        BY <1>2, <1>6, <1>10, <4>1
      <4> QED
        BY <3>2, <4>2, Zenon
    <3>3. CASE e # d
      BY <1>10, <3>1, <3>3, Zenon DEF d
    <3> QED
      BY <3>2, <3>3, Zenon
  <2> QED
    BY <1>1, <1>19, <2>1, Zenon DEF Urgent
<1> QED
  BY <1>17, <1>18, <1>20, <1>21, <1>22, Zenon DEF Keeps, Own

\* The aggregate is counted once and goes to MPI.
LEMMA EnqueueKeeps ==
  ASSUME FiniteSetFacts, Inv, NEW h \in NetHosts, Enqueue(h)
  PROVE  Keeps(h)
<1>0. NetTypeOK /\ Turns(h) /\ Sending(h) /\ Receiving(h) /\ Matching(h) /\ Urgent(h)
      /\ turn[h] \in NetHosts /\ held[h] \in Seq(Message) /\ inflightSends[h] \in Nat
      /\ sendQueue[h] \in Seq(NetHosts)
  BY Owned, Zenon
<1> DEFINE d == turn[h]
           q == sendQueue[h]
           w == wire[h][d]
           b == numBytes[h][d] - Len(held[h])
<1>1. /\ wpc[h] = "enqueue" /\ Goto(h, "dequeue")
      /\ inflightSends' = [inflightSends EXCEPT ![h] = inflightSends[h] + 1]
      /\ numBytes' = [numBytes EXCEPT ![h][d] = b]
      /\ sendQueue' = [sendQueue EXCEPT ![h] = Append(q, d)]
      /\ wire' = [wire EXCEPT ![h][d] = Append(w, held[h])]
      /\ held' = [held EXCEPT ![h] = <<>>]
      /\ UNCHANGED <<messages, urgent, flushed, inflightRecvs, prog, sent, turn, todo, probed,
                     recvQueue, recvData>>
  BY Zenon DEF Enqueue, CountAggregate, program
<1>2. d \in NetHosts /\ w \in Seq(Aggregate) /\ messages[h][d] \in Seq(Message)
  BY <1>0, Owned, Zenon
<1>3. held[h] \in Aggregate
  BY <1>0, <1>1, Zenon DEF Turns, Aggregate
<1>4. b = Len(messages[h][d]) /\ b \in Nat
  <2>1. numBytes[h][d] = Len(messages[h][d]) + Len(held[h])
    BY <1>0, Zenon DEF Turns, Taken
  <2>2. Len(held[h]) \in Nat /\ Len(messages[h][d]) \in Nat
    BY <1>0, <1>2
  <2> HIDE DEF d
  <2> QED
    BY <2>1, <2>2
<1> HIDE DEF d, q, w, b
<1>5. Append(w, held[h]) \in Seq(Aggregate) /\ Len(Append(w, held[h])) = Len(w) + 1 /\ Len(w) \in Nat
  BY <1>2, <1>3
<1>6. Append(q, d) \in Seq(NetHosts) /\ Len(Append(q, d)) = Len(q) + 1 /\ Len(q) \in Nat
      /\ q \in Seq(NetHosts)
  BY <1>0, <1>2 DEF q
<1>7. inflightSends' \in [NetHosts -> Nat] /\ inflightSends'[h] = inflightSends[h] + 1
  <2>1. inflightSends \in [NetHosts -> Nat]
    BY <1>0, Zenon DEF NetTypeOK
  <2> QED
    BY <1>0, <1>1, <2>1
<1>8. /\ numBytes' \in [NetHosts -> [NetHosts -> Nat]] /\ numBytes'[h][d] = b
      /\ \A e \in NetHosts \ {d} : numBytes'[h][e] = numBytes[h][e]
  <2>1. numBytes \in [NetHosts -> [NetHosts -> Nat]]
    BY <1>0, Zenon DEF NetTypeOK
  <2> QED
    BY <1>1, <1>2, <1>4, <2>1, SetPair
<1>9. sendQueue' \in [NetHosts -> Seq(NetHosts)] /\ sendQueue'[h] = Append(q, d)
  <2>1. sendQueue \in [NetHosts -> Seq(NetHosts)]
    BY <1>0, Zenon DEF NetTypeOK
  <2> QED
    BY <1>1, <1>6, <2>1, SetOne
<1>10. /\ wire' \in [NetHosts -> [NetHosts -> Seq(Aggregate)]]
       /\ wire'[h][d] = Append(w, held[h])
       /\ \A e \in NetHosts \ {d} : wire'[h][e] = wire[h][e]
  <2>1. wire \in [NetHosts -> [NetHosts -> Seq(Aggregate)]]
    BY <1>0, Zenon DEF NetTypeOK
  <2> QED
    BY <1>1, <1>2, <1>5, <2>1, SetPair
<1>11. held' \in [NetHosts -> Seq(Message)] /\ held'[h] = <<>>
  <2>1. held \in [NetHosts -> Seq(Message)]
    BY <1>0, Zenon DEF NetTypeOK
  <2>2. <<>> \in Seq(Message)
    OBVIOUS
  <2> QED
    BY <1>1, <2>1, <2>2, SetOne
<1>12. /\ wpc' \in [NetHosts -> {"progress", "irecv", "ready", "copy", "pop", "enqueue", "dequeue"}]
       /\ wpc'[h] = "dequeue"
  BY <1>0, <1>1, Moved
<1>13. NetTypeOK'
  BY <1>0, <1>1, <1>7, <1>8, <1>9, <1>10, <1>11, <1>12, Zenon DEF NetTypeOK
<1>14. /\ wpc[h] # "irecv" /\ wpc'[h] # "irecv" /\ wpc[h] # "pop" /\ wpc'[h] # "pop"
       /\ wpc'[h] \notin {"copy", "pop", "enqueue"}
  BY <1>1, <1>12, Zenon
<1>15. Urgent(h)'
  BY <1>1, <1>14, UrgentSame, Zenon
<1>16. Receiving(h)'
  BY <1>0, <1>1, <1>14, Zenon DEF Receiving
<1>17. Sending(h)'
  <2> DEFINE i == IF prog[h].op = "add" THEN 1 ELSE 0
             c == Cardinality(Cells(messages[h]))
             l == Len(q)
  <2>1. inflightSends[h] = i + c + l /\ IsFiniteSet(Cells(messages[h]))
    BY <1>0, Zenon DEF Sending, q
  <2>2. c \in Nat /\ i \in Nat
    BY Sizes, Zenon
  <2>3. inflightSends[h] + 1 = i + c + (l + 1)
    <3> HIDE DEF i, c, l
    <3>1. l \in Nat
      BY <1>6, Zenon DEF l
    <3> QED
      BY <2>1, <2>2, <3>1
  <2>4. Len(sendQueue'[h]) = l + 1
    BY <1>6, <1>9, Zenon
  <2> QED
    BY <1>1, <1>7, <2>1, <2>3, <2>4, Zenon DEF Sending
<1>18. Turns(h)'
  <2>1. ASSUME NEW e \in NetHosts PROVE numBytes'[h][e] = Len(messages[h][e]) + Taken(h, e)'
    <3>1. Taken(h, e)' = 0
      <4>1. Len(<<>>) = 0
        BY Zenon
      <4> QED
        BY <1>11, <4>1, Zenon DEF Taken
    <3>2. messages[h][e] \in Seq(Message)
      BY Owned, Zenon
    <3>3. numBytes'[h][e] = Len(messages[h][e])
      <4>1. CASE e = d
        BY <1>4, <1>8, <4>1, Zenon
      <4>2. CASE e # d
        <5>1. numBytes[h][e] = Len(messages[h][e]) + Taken(h, e) /\ Taken(h, e) = 0
          BY <1>0, <4>2, Zenon DEF Turns, Taken, d
        <5>2. numBytes'[h][e] = numBytes[h][e]
          BY <1>8, <4>2, Zenon
        <5> QED
          BY <3>2, <5>1, <5>2
      <4> QED
        BY <4>1, <4>2, Zenon
    <3> QED
      BY <3>1, <3>2, <3>3
  <2> QED
    BY <1>1, <1>11, <1>14, <2>1, Zenon DEF Turns
<1>19. Matching(h)'
  <2>1. ASSUME Issend, NEW e \in NetHosts PROVE Len(wire'[h][e]) <= Count(Append(q, d), e)
    <3>1. Len(wire[h][e]) <= Count(q, e)
      BY <1>0, <2>1, Zenon DEF Matching, q
    <3>2. Count(Append(q, d), e) = Count(q, e) + (IF d = e THEN 1 ELSE 0)
      BY <1>2, <1>6, CountAppend
    <3>3. Count(q, e) \in Nat
      BY <1>6, CountFinite, Zenon
    <3>4. CASE e = d
      <4>1. Len(wire'[h][e]) = Len(w) + 1 /\ Len(wire[h][e]) = Len(w)
        BY <1>5, <1>10, <3>4, Zenon DEF w
      <4> QED
        BY <1>5, <3>1, <3>2, <3>3, <3>4, <4>1
    <3>5. CASE e # d
      <4>1. wire'[h][e] = wire[h][e]
        BY <1>10, <3>5, Zenon
      <4>2. Count(Append(q, d), e) = Count(q, e)
        BY <3>2, <3>3, <3>5
      <4> QED
        BY <3>1, <4>1, <4>2, Zenon
    <3> QED
      BY <3>4, <3>5, Zenon
  <2> QED
    BY <1>9, <2>1, Zenon DEF Matching
<1> QED
  BY <1>13, <1>15, <1>16, <1>17, <1>18, <1>19, Zenon DEF Keeps, Own

\* An arrival moves from the receive queue to the receive buffers.
LEMMA DequeueKeeps ==
  ASSUME FiniteSetFacts, Inv, NEW h \in NetHosts, Dequeue(h)
  PROVE  Keeps(h)
<1>0. NetTypeOK /\ Turns(h) /\ Sending(h) /\ Receiving(h) /\ Matching(h) /\ Urgent(h)
      /\ turn[h] \in NetHosts /\ recvQueue[h] \in Seq([host : NetHosts, data : Aggregate])
  BY Owned, Zenon
<1> DEFINE q == recvQueue[h]
           s == Head(q).host
           a == Head(q).data
           p == recvData[h][s]
<1>1. /\ wpc[h] = "dequeue" /\ q # <<>> /\ Goto(h, "progress")
      /\ recvData' = [recvData EXCEPT ![h][s] = Append(p, a)]
      /\ recvQueue' = [recvQueue EXCEPT ![h] = Tail(q)]
      /\ turn' = [turn EXCEPT ![h] = (turn[h] + 1) % Ends]
      /\ UNCHANGED <<messages, numBytes, urgent, flushed, inflightSends, inflightRecvs, prog, sent,
                     todo, held, probed, sendQueue, wire>>
  BY Zenon DEF Dequeue, NextTurn, buffers, counters, program
<1>2. /\ Head(q) \in [host : NetHosts, data : Aggregate]
      /\ Tail(q) \in Seq([host : NetHosts, data : Aggregate])
      /\ Len(q) = Len(Tail(q)) + 1 /\ Len(Tail(q)) \in Nat
  <2>1. q \in Seq([host : NetHosts, data : Aggregate]) /\ q # <<>>
    BY <1>0, <1>1, Zenon
  <2> QED
    BY <2>1, Front, Zenon
<1> HIDE DEF q
<1>3. s \in NetHosts /\ a \in Aggregate
  BY <1>2, Zenon
<1> HIDE DEF s, a
<1>4. p \in Seq(Aggregate)
  BY <1>3, Owned, Zenon
<1>5. Append(p, a) \in Seq(Aggregate) /\ Len(Append(p, a)) = Len(p) + 1 /\ Len(p) \in Nat
  BY <1>3, <1>4
<1> HIDE DEF p
<1>6. /\ recvData' \in [NetHosts -> [NetHosts -> Seq(Aggregate)]]
      /\ recvData'[h][s] = Append(p, a)
      /\ \A e \in NetHosts \ {s} : recvData'[h][e] = recvData[h][e]
  <2>1. recvData \in [NetHosts -> [NetHosts -> Seq(Aggregate)]]
    BY <1>0, Zenon DEF NetTypeOK
  <2> QED
    BY <1>1, <1>3, <1>5, <2>1, SetPair
<1>7. /\ recvQueue' \in [NetHosts -> Seq([host : NetHosts, data : Aggregate])]
      /\ recvQueue'[h] = Tail(q)
  <2>1. recvQueue \in [NetHosts -> Seq([host : NetHosts, data : Aggregate])]
    BY <1>0, Zenon DEF NetTypeOK
  <2> QED
    BY <1>1, <1>2, <2>1, SetOne, ZenonT(60)
<1>8. turn' \in [NetHosts -> NetHosts]
  <2>1. turn \in [NetHosts -> NetHosts]
    BY <1>0, Zenon DEF NetTypeOK
  <2>2. (turn[h] + 1) % Ends \in NetHosts
    BY <1>0, NetworkAssumption DEF NetHosts
  <2> QED
    BY <1>1, <2>1, <2>2, SetOne
<1>9. /\ wpc' \in [NetHosts -> {"progress", "irecv", "ready", "copy", "pop", "enqueue", "dequeue"}]
      /\ wpc'[h] = "progress"
  BY <1>0, <1>1, Moved, Zenon
<1>10. NetTypeOK'
  BY <1>0, <1>1, <1>6, <1>7, <1>8, <1>9, Zenon DEF NetTypeOK
<1>11. /\ wpc[h] \notin {"copy", "pop", "enqueue"} /\ wpc'[h] \notin {"copy", "pop", "enqueue"}
       /\ wpc[h] # "pop" /\ wpc'[h] # "pop" /\ wpc[h] # "irecv" /\ wpc'[h] # "irecv"
  BY <1>1, <1>9, Zenon
<1>12. Turns(h)'
  BY <1>1, <1>11, NothingTaken, Zenon
<1>13. Urgent(h)'
  BY <1>1, <1>11, UrgentSame, Zenon
<1>14. Sending(h)' /\ Matching(h)'
  BY <1>0, <1>1, Zenon DEF Sending, Matching
<1>15. Receiving(h)'
  <2>1. IsFiniteSet(Cells(recvData[h]))
    BY <1>0, Zenon DEF Receiving
  <2>2. Len(recvData[h][s]) \in Nat /\ Len(recvData'[h][s]) = Len(recvData[h][s]) + 1
    BY <1>5, <1>6, Zenon DEF p
  <2>3. \A e \in NetHosts \ {s} : Len(recvData'[h][e]) = Len(recvData[h][e])
    BY <1>6, Zenon
  <2>4. /\ IsFiniteSet(Cells(recvData'[h]))
        /\ Cardinality(Cells(recvData'[h])) = Cardinality(Cells(recvData[h])) + 1
    BY <1>3, <2>1, <2>2, <2>3, OneMore, Zenon
  <2> DEFINE c == Cardinality(Cells(recvData[h]))
             l == Len(Tail(q))
  <2>5. inflightRecvs[h] = 0 + (l + 1) + c
    BY <1>0, <1>2, <1>11, Zenon DEF Receiving, q
  <2>6. c \in Nat /\ l \in Nat
    BY <1>2, Sizes, Zenon
  <2>7. inflightRecvs[h] = 0 + l + (c + 1)
    <3> HIDE DEF c, l
    <3> QED
      BY <2>5, <2>6
  <2> QED
    BY <1>1, <1>7, <1>11, <2>4, <2>7, Zenon DEF Receiving
<1> QED
  BY <1>10, <1>12, <1>13, <1>14, <1>15, Zenon DEF Keeps, Own
--------------------------------------------------------------------------------
\* Every step of the program or of the worker of a host keeps the invariant.
LEMMA NextInv ==
  ASSUME FiniteSetFacts
  PROVE  Inv /\ NetNext => Inv'
<1> SUFFICES ASSUME Inv, NetNext PROVE Inv'
  BY Zenon
<1>1. PICK h \in NetHosts : ProgramThread(h) \/ WorkerThread(h)
  BY Zenon DEF NetNext
<1>2. Keeps(h)
  <2>1. CASE ProgramThread(h)
    BY <2>1, SendTaggedKeeps, AddKeeps, FlushKeeps, MarkUrgentKeeps, RecieveTaggedKeeps, Zenon
    DEF ProgramThread
  <2>2. CASE WorkerThread(h)
    BY <2>2, CompleteSendKeeps, ProbeKeeps, MoveKeeps, IrecvKeeps, AssembleKeeps, CopyKeeps, PopKeeps,
       EnqueueKeeps, DequeueKeeps, Zenon
    DEF WorkerThread
  <2> QED
    BY <1>1, <2>1, <2>2, Zenon
<1>3. ASSUME NEW g \in NetHosts \ {h} PROVE Own(g)'
  <2>1. NetTypeOK
    BY Owned, Zenon
  <2>2. SameHost(g) /\ WireStep(h)
    BY <1>1, <2>1, OthersSame, Zenon
  <2> QED
    BY <2>2, OthersKeep, Zenon
<1> QED
  BY <1>2, <1>3, Zenon DEF Keeps, Inv
--------------------------------------------------------------------------------
\* f accumulates the aggregates of q.
IsJoin(q, f) ==
  /\ f \in [0..Len(q) -> Seq(Message)]
  /\ f[0] = <<>>
  /\ \A i \in 1..Len(q) : f[i] = f[i - 1] \o q[i]

\* The first n steps of it.
JoinUpTo(q, f, n) ==
  /\ f \in [0..n -> Seq(Message)]
  /\ f[0] = <<>>
  /\ \A i \in 1..n : f[i] = f[i - 1] \o q[i]

\* Every queue of sequences of messages can be accumulated.
LEMMA JoinUpToExists ==
  ASSUME FiniteSetFacts, NEW q \in Seq(Seq(Message))
  PROVE  \A n \in 0..Len(q) : \E f : JoinUpTo(q, f, n)
<1> DEFINE Bad == {n \in 0..Len(q) : ~\E f : JoinUpTo(q, f, n)}
<1> SUFFICES ASSUME Bad # {} PROVE FALSE
  BY Zenon
<1>0. Len(q) \in Nat
  OBVIOUS
<1>1. PICK n \in Bad : \A y \in Bad : n <= y
  <2>1. Bad \subseteq Nat
    BY <1>0
  <2> HIDE DEF Bad
  <2> QED
    BY <2>1, HasLeast, Zenon
<1>2. n \in 0..Len(q) /\ ~\E f : JoinUpTo(q, f, n)
  BY Zenon
<1>3. CASE n = 0
  <2>1. JoinUpTo(q, [i \in 0..0 |-> <<>>], 0)
    BY DEF JoinUpTo
  <2> QED
    BY <2>1, <1>2, <1>3, Zenon
<1>4. CASE n # 0
  <2>1. n - 1 \in 0..Len(q) /\ n \in Nat /\ n \in 1..Len(q)
    BY <1>0, <1>2, <1>4
  <2>2. n - 1 \notin Bad
    <3> HIDE DEF Bad
    <3> QED
      BY <1>1, <2>1
  <2>3. PICK f : JoinUpTo(q, f, n - 1)
    BY <2>1, <2>2, Zenon
  <2>4. f \in [0..(n - 1) -> Seq(Message)] /\ f[0] = <<>>
        /\ \A i \in 1..(n - 1) : f[i] = f[i - 1] \o q[i]
    BY <2>3, Zenon DEF JoinUpTo
  <2>5. q[n] \in Seq(Message) /\ f[n - 1] \in Seq(Message)
    BY <2>1, <2>4
  <2> DEFINE last == f[n - 1] \o q[n]
             g == [i \in 0..n |-> IF i = n THEN last ELSE f[i]]
  <2>6. last \in Seq(Message)
    BY <2>5
  <2> HIDE DEF last
  <2>7. g \in [0..n -> Seq(Message)]
    BY <2>1, <2>4, <2>6
  <2>8. g[0] = <<>> /\ g[n] = last /\ \A i \in 0..(n - 1) : g[i] = f[i]
    BY <1>4, <2>1, <2>4
  <2> HIDE DEF g
  <2>9. ASSUME NEW i \in 1..n PROVE g[i] = g[i - 1] \o q[i]
    <3>1. i - 1 \in 0..(n - 1)
      BY <2>1
    <3>2. CASE i = n
      BY <2>8, <3>1, <3>2, Zenon DEF last
    <3>3. CASE i # n
      <4>1. i \in 1..(n - 1) /\ i \in 0..(n - 1)
        BY <2>1, <3>3
      <4> QED
        BY <2>4, <2>8, <3>1, <4>1, Zenon
    <3> QED
      BY <3>2, <3>3, Zenon
  <2>10. JoinUpTo(q, g, n)
    BY <2>7, <2>8, <2>9, Zenon DEF JoinUpTo
  <2> QED
    BY <1>2, <2>10, Zenon
<1> QED
  BY <1>3, <1>4, Zenon

\* Joined is the last value of such an accumulation.
LEMMA JoinedIsJoin ==
  ASSUME FiniteSetFacts, NEW q \in Seq(Seq(Message))
  PROVE  \E f : IsJoin(q, f) /\ Joined(q) = f[Len(q)]
<1> DEFINE Body(f) == [i \in 0..Len(q) |-> IF i = 0 THEN <<>> ELSE f[i - 1] \o q[i]]
           u == CHOOSE g : g = Body(g)
<1>0. Len(q) \in Nat
  OBVIOUS
<1>1. PICK f : JoinUpTo(q, f, Len(q))
  <2>1. Len(q) \in 0..Len(q)
    BY <1>0
  <2> QED
    BY <2>1, JoinUpToExists, Zenon
<1>2. f = Body(f)
  <2>1. \A i \in 0..Len(q) : f[i] = IF i = 0 THEN <<>> ELSE f[i - 1] \o q[i]
    <3>1. \A i \in 0..Len(q) : i # 0 => i \in 1..Len(q)
      BY <1>0
    <3> QED
      BY <1>1, <3>1, Zenon DEF JoinUpTo
  <2>2. f \in [0..Len(q) -> Seq(Message)]
    BY <1>1, Zenon DEF JoinUpTo
  <2> QED
    BY <2>1, <2>2, Zenon
<1>3. Joined(q) = u[Len(q)]
  BY Zenon DEF Joined
<1> HIDE DEF Body
<1>4. u = Body(u)
  BY <1>2, Zenon
<1> HIDE DEF u
<1> USE DEF Body
<1>5. \A i \in 0..Len(q) : u[i] = IF i = 0 THEN <<>> ELSE u[i - 1] \o q[i]
  BY <1>4, Zenon
<1>6. 0 \in 0..Len(q) /\ \A i \in 1..Len(q) : i \in 0..Len(q) /\ i # 0
  BY <1>0
<1>7. u[0] = <<>> /\ \A i \in 1..Len(q) : u[i] = u[i - 1] \o q[i]
  BY <1>5, <1>6, Zenon
<1> DEFINE Bad == {i \in 0..Len(q) : u[i] \notin Seq(Message)}
<1>8. ASSUME Bad # {} PROVE FALSE
  <2>1. PICK n \in Bad : \A y \in Bad : n <= y
    <3>1. Bad \subseteq Nat
      BY <1>0
    <3> HIDE DEF Bad
    <3> QED
      BY <1>8, <3>1, HasLeast, Zenon
  <2>2. n \in 0..Len(q) /\ u[n] \notin Seq(Message)
    BY Zenon
  <2>3. n # 0
    <3>1. <<>> \in Seq(Message)
      OBVIOUS
    <3> QED
      BY <1>7, <2>2, <3>1, Zenon
  <2>4. n - 1 \in 0..Len(q) /\ n \in 1..Len(q)
    BY <1>0, <2>2, <2>3
  <2>5. n - 1 \notin Bad
    <3> HIDE DEF Bad
    <3> QED
      BY <1>0, <2>1, <2>2
  <2>6. u[n - 1] \in Seq(Message)
    BY <2>4, <2>5, Zenon
  <2>7. q[n] \in Seq(Message)
    BY <2>4
  <2>8. u[n] = u[n - 1] \o q[n]
    BY <1>7, <2>4, Zenon
  <2>9. u[n - 1] \o q[n] \in Seq(Message)
    BY <2>6, <2>7
  <2> QED
    BY <2>2, <2>8, <2>9, Zenon
<1>9. u \in [0..Len(q) -> Seq(Message)]
  <2>1. \A i \in 0..Len(q) : u[i] \in Seq(Message)
    BY <1>8, Zenon
  <2>2. u = [i \in 0..Len(q) |-> u[i]]
    BY <1>4, Zenon
  <2> QED
    BY <2>1, <2>2, Zenon
<1>10. IsJoin(q, u)
  BY <1>7, <1>9, Zenon DEF IsJoin
<1> QED
  BY <1>3, <1>10, Zenon

\* The accumulation of a queue is a part of that of a longer one.
LEMMA JoinsAgree ==
  ASSUME FiniteSetFacts, NEW q \in Seq(Seq(Message)), NEW r \in Seq(Seq(Message)), NEW f, NEW g,
         IsJoin(q, f), IsJoin(r, g), Len(q) <= Len(r), \A i \in 1..Len(q) : q[i] = r[i]
  PROVE  f[Len(q)] = g[Len(q)]
<1> DEFINE Bad == {i \in 0..Len(q) : f[i] # g[i]}
<1>0. Len(q) \in Nat /\ Len(r) \in Nat
  OBVIOUS
<1> SUFFICES ASSUME Bad # {} PROVE FALSE
  <2>1. Len(q) \in 0..Len(q)
    BY <1>0
  <2> QED
    BY <2>1, Zenon
<1>1. PICK n \in Bad : \A y \in Bad : n <= y
  <2>1. Bad \subseteq Nat
    BY <1>0
  <2> HIDE DEF Bad
  <2> QED
    BY <2>1, HasLeast, Zenon
<1>2. n \in 0..Len(q) /\ f[n] # g[n]
  BY Zenon
<1>3. n # 0
  BY <1>2, Zenon DEF IsJoin
<1>4. n \in 1..Len(q) /\ n \in 1..Len(r) /\ n - 1 \in 0..Len(q) /\ n \in Nat
  BY <1>0, <1>2, <1>3
<1>5. n - 1 \notin Bad
  <2> HIDE DEF Bad
  <2> QED
    BY <1>1, <1>4
<1>6. f[n - 1] = g[n - 1]
  BY <1>4, <1>5, Zenon
<1> QED
  BY <1>2, <1>4, <1>6, Zenon DEF IsJoin

\* No aggregates, no messages.
LEMMA JoinedEmpty ==
  ASSUME FiniteSetFacts, NEW q, q = <<>>
  PROVE  Joined(q) = <<>>
<1>1. q \in Seq(Seq(Message)) /\ Len(q) = 0
  OBVIOUS
<1> QED
  BY <1>1, JoinedIsJoin, Zenon DEF IsJoin

\* The messages of a queue of sequences of messages are a sequence of messages.
LEMMA JoinedType ==
  ASSUME FiniteSetFacts, NEW q \in Seq(Seq(Message))
  PROVE  Joined(q) \in Seq(Message)
<1>1. PICK f : IsJoin(q, f) /\ Joined(q) = f[Len(q)]
  BY JoinedIsJoin, Zenon
<1>2. Len(q) \in 0..Len(q)
  OBVIOUS
<1> QED
  BY <1>1, <1>2, Zenon DEF IsJoin
--------------------------------------------------------------------------------
\* With synchronous-mode sends no message escapes the counters of its sender and of
\* its receiver.
LEMMA InvCounts ==
  ASSUME FiniteSetFacts, Issend, Inv
  PROVE  NoMessageUncounted
<1> SUFFICES ASSUME NEW h \in NetHosts
             PROVE  /\ Undelivered(h) => inflightSends[h] > 0 \/ wpc[h] = "enqueue"
                    /\ Unread(h) => inflightRecvs[h] > 0
  BY Zenon DEF Inv, NoMessageUncounted
<1>0. Turns(h) /\ Sending(h) /\ Receiving(h) /\ Matching(h)
      /\ recvQueue[h] \in Seq([host : NetHosts, data : Aggregate])
      /\ sendQueue[h] \in Seq(NetHosts) /\ turn[h] \in NetHosts
  BY Owned, Zenon
<1>s. /\ Cardinality(Cells(messages[h])) \in Nat /\ Cardinality(Cells(recvData[h])) \in Nat
      /\ Len(sendQueue[h]) \in Nat /\ Len(recvQueue[h]) \in Nat
  BY Sizes, Zenon
<1>1. ASSUME NEW d \in NetHosts, Outgoing[h][d] # <<>>, wpc[h] # "enqueue"
      PROVE  inflightSends[h] > 0
  <2>1. /\ wire[h][d] \in Seq(Aggregate) /\ messages[h][d] \in Seq(Message)
        /\ held[h] \in Seq(Message)
    BY Owned, Zenon
  <2>2. Outgoing[h][d] = Joined(wire[h][d]) \o InHand(h, d) \o messages[h][d]
    BY Zenon DEF Outgoing
  <2>3. CASE messages[h][d] # <<>>
    <3>1. Cardinality(Cells(messages[h])) > 0
      <4>1. 1 \in 1..Len(messages[h][d])
        BY <2>1, <2>3
      <4>2. <<d, 1>> \in Cells(messages[h])
        BY <4>1, Zenon DEF Cells
      <4>3. IsFiniteSet(Cells(messages[h]))
        BY <1>0, Zenon DEF Sending
      <4>4. Cardinality(Cells(messages[h])) # 0
        BY <4>2, <4>3, Zenon DEF FiniteSetFacts, SizesAreNumbers
      <4> QED
        BY <1>s, <4>4
    <3> QED
      BY <1>0, <1>s, <3>1 DEF Sending
  <2>4. CASE InHand(h, d) # <<>>
    <3>1. turn[h] = d /\ held[h] # <<>>
      BY <2>4, Zenon DEF InHand
    <3>2. wpc[h] \in {"copy", "pop"}
      BY <1>0, <1>1, <3>1, Zenon DEF Turns
    <3>3. todo[h] \in 1..Len(messages[h][d])
      BY <1>0, <3>1, <3>2, Zenon DEF Turns
    <3>4. messages[h][d] # <<>>
      BY <2>1, <3>3
    <3> QED
      BY <2>3, <3>4, Zenon
  <2>5. CASE wire[h][d] # <<>>
    <3>1. Len(wire[h][d]) > 0 /\ Len(wire[h][d]) \in Nat
      BY <2>1, <2>5
    <3>2. Len(wire[h][d]) <= Count(sendQueue[h], d)
      BY <1>0, Zenon DEF Matching
    <3>3. sendQueue[h] # <<>>
      <4>1. ASSUME sendQueue[h] = <<>> PROVE FALSE
        <5>1. {i \in DOMAIN sendQueue[h] : sendQueue[h][i] = d} = {}
          BY <4>1
        <5>2. Count(sendQueue[h], d) = 0
          BY <5>1, Zenon DEF FiniteSetFacts, SizeOfEmpty, Count
        <5> QED
          BY <3>1, <3>2, <5>2
      <4> QED
        BY <4>1, Zenon
    <3>4. Len(sendQueue[h]) > 0
      BY <1>0, <3>3
    <3> QED
      BY <1>0, <1>s, <3>4 DEF Sending
  <2>6. messages[h][d] # <<>> \/ InHand(h, d) # <<>> \/ wire[h][d] # <<>>
    <3>1. ASSUME messages[h][d] = <<>>, InHand(h, d) = <<>>, wire[h][d] = <<>> PROVE FALSE
      <4>1. Joined(wire[h][d]) = <<>>
        BY <3>1, JoinedEmpty, Zenon
      <4>2. <<>> \o <<>> \o <<>> = <<>>
        OBVIOUS
      <4> QED
        BY <1>1, <2>2, <3>1, <4>1, <4>2, Zenon
    <3> QED
      BY <3>1, Zenon
  <2> QED
    BY <2>3, <2>4, <2>5, <2>6, Zenon
<1>r. Len(recvQueue[h]) # 0 \/ Cardinality(Cells(recvData[h])) # 0 => inflightRecvs[h] > 0
  <2> DEFINE i == IF wpc[h] = "irecv" THEN 1 ELSE 0
             l == Len(recvQueue[h])
             c == Cardinality(Cells(recvData[h]))
  <2>1. inflightRecvs[h] = i + l + c /\ l \in Nat /\ c \in Nat
    BY <1>0, <1>s, Zenon DEF Receiving
  <2>2. i \in Nat
    BY Zenon
  <2> HIDE DEF i, l, c
  <2>3. l # 0 \/ c # 0 => inflightRecvs[h] > 0
    BY <2>1, <2>2
  <2> QED
    BY <2>3, Zenon DEF l, c
<1>2. ASSUME NEW s \in NetHosts, Incoming[s][h] # <<>>
      PROVE  inflightRecvs[h] > 0
  <2>1. recvData[h][s] \in Seq(Aggregate)
    BY Owned, Zenon
  <2>2. Incoming[s][h] = Joined(recvData[h][s]) \o Arrived(h, s)
    BY Zenon DEF Incoming
  <2>3. CASE recvData[h][s] # <<>>
    <3>1. 1 \in 1..Len(recvData[h][s])
      BY <2>1, <2>3
    <3>2. <<s, 1>> \in Cells(recvData[h])
      BY <3>1, Zenon DEF Cells
    <3>3. IsFiniteSet(Cells(recvData[h]))
      BY <1>0, Zenon DEF Receiving
    <3>4. Cardinality(Cells(recvData[h])) # 0
      BY <3>2, <3>3, Zenon DEF FiniteSetFacts, SizesAreNumbers
    <3> QED
      BY <1>r, <3>4, Zenon
  <2>4. CASE recvQueue[h] # <<>>
    <3>1. Len(recvQueue[h]) # 0
      BY <1>0, <2>4
    <3> QED
      BY <1>r, <3>1, Zenon
  <2>5. CASE recvData[h][s] = <<>> /\ recvQueue[h] = <<>>
    <3>1. Joined(recvData[h][s]) = <<>>
      BY <2>5, JoinedEmpty, Zenon
    <3>2. [i \in 1..Len(recvQueue[h]) |->
             IF recvQueue[h][i].host = s THEN recvQueue[h][i].data ELSE <<>>] = <<>>
      BY <2>5
    <3>3. Arrived(h, s) = <<>>
      BY <3>2, JoinedEmpty, Zenon DEF Arrived
    <3>4. <<>> \o <<>> = <<>>
      OBVIOUS
    <3> QED
      BY <1>2, <2>2, <3>1, <3>3, <3>4, Zenon
  <2> QED
    BY <2>3, <2>4, <2>5, Zenon
<1> QED
  BY <1>1, <1>2, Zenon DEF Undelivered, Unread
--------------------------------------------------------------------------------
\* Facts about the concatenation of sequences of messages.
LEMMA Assoc ==
  ASSUME NEW a \in Seq(Message), NEW b \in Seq(Message), NEW c \in Seq(Message)
  PROVE  (a \o b) \o c = a \o (b \o c)
  OBVIOUS

\* Concatenation gives sequences of messages.
LEMMA ConcatType ==
  ASSUME NEW a \in Seq(Message), NEW b \in Seq(Message)
  PROVE  a \o b \in Seq(Message)
  OBVIOUS

\* Sequences with the same elements.
LEMMA SameSeq ==
  ASSUME NEW S, NEW a \in Seq(S), NEW b \in Seq(S), Len(a) = Len(b), \A i \in 1..Len(b) : a[i] = b[i]
  PROVE  a = b
  OBVIOUS

\* The empty sequence changes nothing.
LEMMA NoneAdded ==
  ASSUME NEW a \in Seq(Message)
  PROVE  a \o <<>> = a /\ <<>> \o a = a
  OBVIOUS

\* Moving the front of a sequence to the end of the one before it.
LEMMA MoveFront ==
  ASSUME NEW a \in Seq(Message), NEW b \in Seq(Message), b # <<>>
  PROVE  Append(a, Head(b)) \o Tail(b) = a \o b
<1>1. Len(Append(a, Head(b)) \o Tail(b)) = Len(a \o b)
  OBVIOUS
<1>2. \A i \in 1..Len(a \o b) : (Append(a, Head(b)) \o Tail(b))[i] = (a \o b)[i]
  OBVIOUS
<1> QED
  BY <1>1, <1>2

\* Adding at the end.
LEMMA AddEnd ==
  ASSUME NEW a \in Seq(Message), NEW b \in Seq(Message), NEW x \in Message
  PROVE  a \o Append(b, x) = Append(a \o b, x)
  OBVIOUS

\* Cutting a concatenation where it was made.
LEMMA Cut ==
  ASSUME NEW a \in Seq(Message), NEW b \in Seq(Message)
  PROVE  /\ SubSeq(a \o b, 1, Len(a)) = a
         /\ SubSeq(a \o b, Len(a) + 1, Len(a \o b)) = b
         /\ Len(a \o b) = Len(a) + Len(b)
  OBVIOUS

\* Taking the front.
LEMMA TailFront ==
  ASSUME NEW a \in Seq(Message), NEW b \in Seq(Message), a # <<>>
  PROVE  Tail(a \o b) = Tail(a) \o b /\ a \o b # <<>>
  OBVIOUS

\* An aggregate more at the end.
LEMMA JoinedAppend ==
  ASSUME FiniteSetFacts, NEW q \in Seq(Seq(Message)), NEW x \in Seq(Message)
  PROVE  Joined(Append(q, x)) = Joined(q) \o x
<1> DEFINE r == Append(q, x)
<1>1. r \in Seq(Seq(Message)) /\ Len(r) = Len(q) + 1 /\ Len(q) \in Nat
      /\ r[Len(q) + 1] = x /\ \A i \in 1..Len(q) : q[i] = r[i]
  OBVIOUS
<1> HIDE DEF r
<1>2. PICK f : IsJoin(q, f) /\ Joined(q) = f[Len(q)]
  BY JoinedIsJoin, Zenon
<1>3. PICK g : IsJoin(r, g) /\ Joined(r) = g[Len(r)]
  BY <1>1, JoinedIsJoin, Zenon
<1>4. Len(q) <= Len(q) /\ Len(q) <= Len(r) /\ Len(r) \in 1..Len(r) /\ Len(r) - 1 = Len(q)
  BY <1>1
<1>5. f[Len(q)] = g[Len(q)]
  <2>1. IsJoin(q, f)
    BY <1>2, Zenon
  <2>2. IsJoin(r, g)
    BY <1>3, Zenon
  <2>3. r \in Seq(Seq(Message))
    BY <1>1, Zenon
  <2>4. Len(q) <= Len(r)
    BY <1>4, Zenon
  <2>5. \A i \in 1..Len(q) : q[i] = r[i]
    BY <1>1, Zenon
  <2> QED
    BY <2>1, <2>2, <2>3, <2>4, <2>5, JoinsAgree, Zenon
<1>6. g[Len(r)] = g[Len(q)] \o r[Len(r)]
  BY <1>3, <1>4, Zenon DEF IsJoin
<1> QED
  BY <1>1, <1>2, <1>3, <1>5, <1>6, Zenon DEF r

\* The first aggregate and the others.
LEMMA JoinedFront ==
  ASSUME FiniteSetFacts, NEW q \in Seq(Seq(Message)), q # <<>>
  PROVE  Joined(q) = Head(q) \o Joined(Tail(q))
<1> DEFINE r == Tail(q)
<1>1. r \in Seq(Seq(Message)) /\ Len(q) = Len(r) + 1 /\ Len(r) \in Nat
      /\ Head(q) = q[1] /\ Head(q) \in Seq(Message)
      /\ \A i \in 1..Len(r) : r[i] = q[i + 1] /\ r[i] \in Seq(Message)
  OBVIOUS
<1> HIDE DEF r
<1>2. PICK f : IsJoin(q, f) /\ Joined(q) = f[Len(q)]
  BY JoinedIsJoin, Zenon
<1>3. PICK g : IsJoin(r, g) /\ Joined(r) = g[Len(r)]
  BY <1>1, JoinedIsJoin, Zenon
<1> DEFINE Bad == {i \in 0..Len(r) : f[i + 1] # Head(q) \o g[i]}
<1>4. ASSUME Bad # {} PROVE FALSE
  <2>1. PICK n \in Bad : \A y \in Bad : n <= y
    <3>1. Bad \subseteq 0..Len(r)
      BY Zenon
    <3> HIDE DEF Bad
    <3>2. Bad \subseteq Nat
      BY <1>1, <3>1
    <3> QED
      BY <1>4, <3>2, HasLeast, Zenon
  <2>2. n \in 0..Len(r) /\ f[n + 1] # Head(q) \o g[n]
    BY Zenon
  <2>3. n \in Nat /\ n + 1 \in 1..Len(q) /\ (n + 1) - 1 = n
    BY <1>1, <2>2
  <2>4. f[n + 1] = f[n] \o q[n + 1]
    BY <1>2, <2>3, Zenon DEF IsJoin
  <2>5. CASE n = 0
    <3>1. f[0] = <<>> /\ g[0] = <<>>
      BY <1>2, <1>3, Zenon DEF IsJoin
    <3>2. <<>> \o Head(q) = Head(q) \o <<>>
      BY <1>1, NoneAdded, Zenon
    <3>3. q[n + 1] = Head(q)
      BY <1>1, <2>5
    <3> QED
      BY <2>2, <2>4, <2>5, <3>1, <3>2, <3>3, Zenon
  <2>6. CASE n # 0
    <3>1. n - 1 \in 0..Len(r) /\ n \in 1..Len(r) /\ (n - 1) + 1 = n
      BY <1>1, <2>2, <2>6
    <3>2. n - 1 \notin Bad
      <4> HIDE DEF Bad
      <4> QED
        BY <2>1, <2>3, <3>1
    <3>3. f[n] = Head(q) \o g[n - 1]
      BY <3>1, <3>2, Zenon
    <3>4. g[n] = g[n - 1] \o r[n] /\ g[n - 1] \in Seq(Message)
      BY <1>3, <3>1, Zenon DEF IsJoin
    <3>5. r[n] = q[n + 1] /\ r[n] \in Seq(Message)
      BY <1>1, <3>1, Zenon
    <3>6. (Head(q) \o g[n - 1]) \o r[n] = Head(q) \o (g[n - 1] \o r[n])
      <4> DEFINE a == Head(q)
                 b == g[n - 1]
                 c == r[n]
      <4>1. a \in Seq(Message) /\ b \in Seq(Message) /\ c \in Seq(Message)
        BY <1>1, <3>4, <3>5, Zenon
      <4> HIDE DEF a, b, c, Bad
      <4>2. (a \o b) \o c = a \o (b \o c)
        BY <4>1, Assoc, Zenon
      <4> QED
        BY <4>2, Zenon DEF a, b, c
    <3> QED
      BY <2>2, <2>4, <3>3, <3>4, <3>5, <3>6, Zenon
  <2> QED
    BY <2>5, <2>6, Zenon
<1>5. Len(r) \in 0..Len(r)
  BY <1>1
<1>6. f[Len(r) + 1] = Head(q) \o g[Len(r)]
  BY <1>4, <1>5, Zenon
<1> QED
  BY <1>1, <1>2, <1>3, <1>6, Zenon DEF r

\* What an arrival contributes to the messages of s.
Item(m, s) == IF m.host = s THEN m.data ELSE <<>>

\* What a receive queue contributes.
Flow(rq, s) == [i \in 1..Len(rq) |-> Item(rq[i], s)]

\* The elements of a receive queue.
Arrival == [host : NetHosts, data : Aggregate]

\* What arrives is a sequence of messages.
LEMMA ItemType ==
  ASSUME NEW m \in Arrival, NEW s
  PROVE  Item(m, s) \in Seq(Message)
<1>1. m.data \in Seq(Message)
  BY Zenon DEF Arrival, Aggregate
<1>2. <<>> \in Seq(Message)
  OBVIOUS
<1> QED
  BY <1>1, <1>2, Zenon DEF Item

\* The flow of a receive queue.
LEMMA FlowType ==
  ASSUME NEW q \in Seq(Arrival), NEW s
  PROVE  Flow(q, s) \in Seq(Seq(Message)) /\ Len(Flow(q, s)) = Len(q)
<1>1. \A i \in 1..Len(q) : q[i] \in Arrival
  OBVIOUS
<1>2. \A i \in 1..Len(q) : Item(q[i], s) \in Seq(Message)
  BY <1>1, ItemType, Zenon
<1>3. Len(q) \in Nat
  OBVIOUS
<1> QED
  BY <1>2, <1>3 DEF Flow

\* An arrival more.
LEMMA FlowAppend ==
  ASSUME NEW q \in Seq(Arrival), NEW m \in Arrival, NEW s
  PROVE  Flow(Append(q, m), s) = Append(Flow(q, s), Item(m, s))
<1> DEFINE r == Append(q, m)
<1>1. r \in Seq(Arrival) /\ Len(r) = Len(q) + 1 /\ r[Len(q) + 1] = m /\ Len(q) \in Nat
      /\ \A i \in 1..Len(q) : r[i] = q[i]
  OBVIOUS
<1> HIDE DEF r
<1>2. /\ Flow(q, s) \in Seq(Seq(Message)) /\ Len(Flow(q, s)) = Len(q)
      /\ Flow(r, s) \in Seq(Seq(Message)) /\ Len(Flow(r, s)) = Len(r)
  BY <1>1, FlowType, Zenon
<1>3. /\ \A i \in 1..Len(r) : Flow(r, s)[i] = Item(r[i], s)
      /\ \A i \in 1..Len(q) : Flow(q, s)[i] = Item(q[i], s)
  BY Zenon DEF Flow
<1>4. Item(m, s) \in Seq(Message)
  BY ItemType, Zenon
<1>5. \A i \in 1..Len(q) : i \in 1..Len(r) /\ Flow(r, s)[i] = Flow(q, s)[i]
  <2>1. \A i \in 1..Len(q) : i \in 1..Len(r)
    BY <1>1
  <2> QED
    BY <1>1, <1>3, <2>1, Zenon
<1>6. Flow(r, s)[Len(q) + 1] = Item(m, s)
  <2>1. Len(q) + 1 \in 1..Len(r)
    BY <1>1
  <2> QED
    BY <1>1, <1>3, <2>1, Zenon
<1> DEFINE a == Flow(q, s)
           b == Flow(r, s)
           x == Item(m, s)
<1> HIDE DEF a, b, x
<1>7. /\ a \in Seq(Seq(Message)) /\ b \in Seq(Seq(Message)) /\ x \in Seq(Message)
      /\ Len(b) = Len(a) + 1 /\ b[Len(a) + 1] = x /\ \A i \in 1..Len(a) : b[i] = a[i]
  BY <1>1, <1>2, <1>4, <1>5, <1>6, Zenon DEF a, b, x
<1>8. b = Append(a, x)
  BY <1>7
<1> QED
  BY <1>8, Zenon DEF a, b, x, r

\* An arrival less.
LEMMA FlowTail ==
  ASSUME NEW q \in Seq(Arrival), q # <<>>, NEW s
  PROVE  /\ Flow(q, s) # <<>> /\ Head(Flow(q, s)) = Item(Head(q), s)
         /\ Tail(Flow(q, s)) = Flow(Tail(q), s)
<1> DEFINE r == Tail(q)
<1>1. r \in Seq(Arrival) /\ Len(q) = Len(r) + 1 /\ Len(r) \in Nat /\ Head(q) = q[1]
      /\ \A i \in 1..Len(r) : r[i] = q[i + 1]
  OBVIOUS
<1> HIDE DEF r
<1>2. /\ Flow(q, s) \in Seq(Seq(Message)) /\ Len(Flow(q, s)) = Len(q)
      /\ Flow(r, s) \in Seq(Seq(Message)) /\ Len(Flow(r, s)) = Len(r)
  BY <1>1, FlowType, Zenon
<1>3. /\ \A i \in 1..Len(r) : Flow(r, s)[i] = Item(r[i], s)
      /\ \A i \in 1..Len(q) : Flow(q, s)[i] = Item(q[i], s)
  BY Zenon DEF Flow
<1>4. \A i \in 1..Len(r) : Flow(r, s)[i] = Flow(q, s)[i + 1]
  <2>1. \A i \in 1..Len(r) : i + 1 \in 1..Len(q)
    BY <1>1
  <2> QED
    BY <1>1, <1>3, <2>1, Zenon
<1>5. Flow(q, s)[1] = Item(Head(q), s)
  <2>1. 1 \in 1..Len(q)
    BY <1>1
  <2> QED
    BY <1>1, <1>3, <2>1, Zenon
<1> DEFINE a == Flow(q, s)
           b == Flow(r, s)
           x == Item(Head(q), s)
<1> HIDE DEF a, b, x
<1>7. /\ a \in Seq(Seq(Message)) /\ b \in Seq(Seq(Message))
      /\ Len(a) = Len(b) + 1 /\ Len(b) \in Nat /\ a[1] = x /\ \A i \in 1..Len(b) : b[i] = a[i + 1]
  BY <1>1, <1>2, <1>4, <1>5, Zenon DEF a, b, x
<1>8. a # <<>> /\ Head(a) = x
  BY <1>7
<1>9. Tail(a) = b
  <2>1. Tail(a) \in Seq(Seq(Message)) /\ Len(Tail(a)) = Len(b)
    BY <1>7, <1>8
  <2>2. \A i \in 1..Len(b) : Tail(a)[i] = b[i]
    BY <1>7, <1>8
  <2>3. b \in Seq(Seq(Message))
    BY <1>7, Zenon
  <2> QED
    BY <2>1, <2>2, <2>3, SameSeq, Zenon
<1> QED
  BY <1>8, <1>9, Zenon DEF a, b, x, r

\* A queue of aggregates is one of sequences of messages.
LEMMA AggregateSeq ==
  ASSUME NEW w \in Seq(Aggregate)
  PROVE  w \in Seq(Seq(Message))
<1>1. Len(w) \in Nat /\ w = [i \in 1..Len(w) |-> w[i]] /\ \A i \in 1..Len(w) : w[i] \in Aggregate
  OBVIOUS
<1>2. \A i \in 1..Len(w) : w[i] \in Seq(Message)
  BY <1>1, Zenon DEF Aggregate
<1>3. [i \in 1..Len(w) |-> w[i]] \in Seq(Seq(Message))
  BY <1>1, <1>2
<1> QED
  BY <1>1, <1>3, Zenon

\* Removing a message from the buffer for the aggregate.
LEMMA PopFlow ==
  ASSUME NEW j \in Seq(Message), NEW i \in Seq(Message), NEW m \in Seq(Message), m # <<>>
  PROVE  (j \o Append(i, Head(m))) \o Tail(m) = (j \o i) \o m
<1>0. Append(i, Head(m)) \in Seq(Message) /\ Tail(m) \in Seq(Message)
  OBVIOUS
<1>1. PICK a \in Seq(Message), b \in Seq(Message) : a = Append(i, Head(m)) /\ b = Tail(m)
  BY <1>0, Zenon
<1>2. (j \o Append(i, Head(m))) \o Tail(m) = j \o (Append(i, Head(m)) \o Tail(m))
  <2>1. (j \o a) \o b = j \o (a \o b)
    BY Assoc, ZenonT(60)
  <2> QED
    BY <1>1, <2>1, Zenon
<1>3. Append(i, Head(m)) \o Tail(m) = i \o m
  BY MoveFront, Zenon
<1>4. (j \o i) \o m = j \o (i \o m)
  BY Assoc, ZenonT(60)
<1> QED
  BY <1>2, <1>3, <1>4, Zenon

\* The aggregate goes to MPI.
LEMMA EnqueueFlow ==
  ASSUME FiniteSetFacts, NEW w \in Seq(Seq(Message)), NEW x \in Seq(Message), NEW m
  PROVE  (Joined(Append(w, x)) \o <<>>) \o m = (Joined(w) \o x) \o m
<1>1. Joined(Append(w, x)) = Joined(w) \o x /\ Joined(w) \in Seq(Message)
  BY JoinedAppend, JoinedType, Zenon
<1>2. Joined(w) \o x \in Seq(Message)
  BY <1>1, ConcatType, Zenon
<1>3. (Joined(w) \o x) \o <<>> = Joined(w) \o x
  BY <1>2, NoneAdded, Zenon
<1> QED
  BY <1>1, <1>3, Zenon

\* The flow of the front of a receive queue and of its rest.
LEMMA FlowFront ==
  ASSUME FiniteSetFacts, NEW q \in Seq(Arrival), q # <<>>, NEW s
  PROVE  /\ Joined(Flow(q, s)) = Item(Head(q), s) \o Joined(Flow(Tail(q), s))
         /\ Item(Head(q), s) \in Seq(Message)
         /\ Joined(Flow(Tail(q), s)) \in Seq(Message)
<1>1. Head(q) \in Arrival /\ Tail(q) \in Seq(Arrival)
  OBVIOUS
<1>2. Flow(q, s) \in Seq(Seq(Message)) /\ Flow(Tail(q), s) \in Seq(Seq(Message))
  BY <1>1, FlowType, Zenon
<1>3. /\ Flow(q, s) # <<>> /\ Head(Flow(q, s)) = Item(Head(q), s)
      /\ Tail(Flow(q, s)) = Flow(Tail(q), s)
  BY FlowTail, Zenon
<1>4. Joined(Flow(q, s)) = Head(Flow(q, s)) \o Joined(Tail(Flow(q, s)))
  BY <1>2, <1>3, JoinedFront, Zenon
<1> QED
  BY <1>1, <1>2, <1>3, <1>4, ItemType, JoinedType, Zenon

\* An arrival goes from the receive queue to the receive buffer of its source ...
LEMMA DequeueFlow ==
  ASSUME FiniteSetFacts, NEW p \in Seq(Seq(Message)), NEW q \in Seq(Arrival), q # <<>>
  PROVE  Joined(Append(p, Head(q).data)) \o Joined(Flow(Tail(q), Head(q).host))
           = Joined(p) \o Joined(Flow(q, Head(q).host))
<1> DEFINE s == Head(q).host
           a == Head(q).data
           t == Joined(Flow(Tail(q), s))
           j == Joined(p)
<1>1. Item(Head(q), s) = a
  BY Zenon DEF Item
<1>2. Joined(Flow(q, s)) = a \o t /\ a \in Seq(Message) /\ t \in Seq(Message)
  BY <1>1, FlowFront, Zenon
<1>3. j \in Seq(Message)
  BY JoinedType, Zenon
<1> HIDE DEF s, a, t
<1>4. Joined(Append(p, a)) = j \o a
  BY <1>2, JoinedAppend, Zenon
<1> HIDE DEF j
<1>5. (j \o a) \o t = j \o (a \o t)
  BY <1>2, <1>3, Assoc, Zenon
<1> QED
  BY <1>2, <1>4, <1>5, Zenon DEF s, a, t, j

\* ... and concerns no other source.
LEMMA DequeueOther ==
  ASSUME FiniteSetFacts, NEW q \in Seq(Arrival), q # <<>>, NEW s, s # Head(q).host
  PROVE  Joined(Flow(Tail(q), s)) = Joined(Flow(q, s))
<1>1. Item(Head(q), s) = <<>>
  BY Zenon DEF Item
<1>2. Joined(Flow(q, s)) = <<>> \o Joined(Flow(Tail(q), s))
  BY <1>1, FlowFront, Zenon
<1>3. Joined(Flow(Tail(q), s)) \in Seq(Message)
  BY FlowFront, Zenon
<1> QED
  BY <1>2, <1>3, NoneAdded, Zenon

\* An aggregate leaves MPI's channel ...
LEMMA IrecvOut ==
  ASSUME FiniteSetFacts, NEW w \in Seq(Seq(Message)), w # <<>>, NEW i \in Seq(Message), NEW m \in Seq(Message)
  PROVE  (Joined(w) \o i) \o m = Head(w) \o ((Joined(Tail(w)) \o i) \o m)
<1> DEFINE a == Head(w)
           j == Joined(Tail(w))
<1>1. a \in Seq(Message) /\ Tail(w) \in Seq(Seq(Message))
  OBVIOUS
<1>2. j \in Seq(Message) /\ Joined(w) = a \o j
  BY <1>1, JoinedType, JoinedFront, Zenon
<1> HIDE DEF a, j
<1>3. (a \o j) \o i = a \o (j \o i)
  BY <1>1, <1>2, Assoc, ZenonT(60)
<1>4. (a \o (j \o i)) \o m = a \o ((j \o i) \o m)
  <2> DEFINE k == j \o i
  <2>1. k \in Seq(Message)
    BY <1>2, ConcatType, Zenon
  <2> HIDE DEF k
  <2>2. (a \o k) \o m = a \o (k \o m)
    BY <1>1, <2>1, Assoc, SMTT(60)
  <2> QED
    BY <2>2, Zenon DEF k
<1> QED
  BY <1>2, <1>3, <1>4, Zenon DEF a, j

\* ... and is the last one its receiver has got from the sender.
LEMMA IrecvIn ==
  ASSUME FiniteSetFacts, NEW j \in Seq(Message), NEW q \in Seq(Arrival), NEW m \in Arrival, NEW s
  PROVE  j \o Joined(Flow(Append(q, m), s)) = (j \o Joined(Flow(q, s))) \o Item(m, s)
<1> DEFINE t == Joined(Flow(q, s))
           x == Item(m, s)
<1>1. Flow(q, s) \in Seq(Seq(Message)) /\ x \in Seq(Message)
  BY FlowType, ItemType, Zenon
<1>2. t \in Seq(Message)
  BY <1>1, JoinedType, Zenon
<1>3. Joined(Flow(Append(q, m), s)) = t \o x
  BY <1>1, FlowAppend, JoinedAppend, Zenon
<1> HIDE DEF t, x
<1>4. (j \o t) \o x = j \o (t \o x)
  BY <1>1, <1>2, Assoc, Zenon
<1> QED
  BY <1>3, <1>4, Zenon DEF t, x

\* Putting an element in front.
LEMMA PutFront ==
  ASSUME NEW x \in Seq(Message), NEW r \in Seq(Seq(Message))
  PROVE  /\ <<x>> \o r \in Seq(Seq(Message)) /\ <<x>> \o r # <<>>
         /\ Head(<<x>> \o r) = x /\ Tail(<<x>> \o r) = r
<1> DEFINE n == <<x>> \o r
<1>1. n \in Seq(Seq(Message)) /\ n # <<>> /\ Head(n) = x
  OBVIOUS
<1>2. Tail(n) \in Seq(Seq(Message)) /\ Len(Tail(n)) = Len(r) /\ \A i \in 1..Len(r) : Tail(n)[i] = r[i]
  OBVIOUS
<1> QED
  BY <1>1, <1>2, SameSeq, Zenon

\* popMsg takes the oldest message.
LEMMA PopMsgFlow ==
  ASSUME FiniteSetFacts, NEW p \in Seq(Aggregate), p # <<>>, NEW t \in Seq(Message), NEW n,
         n = IF Tail(Head(p)) = <<>> THEN Tail(p) ELSE <<Tail(Head(p))>> \o Tail(p)
  PROVE  Joined(n) \o t = Tail(Joined(p) \o t) /\ Joined(p) \o t # <<>>
<1> DEFINE a == Head(p)
           j == Joined(Tail(p))
<1>0. p \in Seq(Seq(Message))
  BY AggregateSeq, Zenon
<1>1. a \in Aggregate /\ Tail(p) \in Seq(Seq(Message))
  BY <1>0
<1>2. a \in Seq(Message) /\ a # <<>>
  BY <1>1, Zenon DEF Aggregate
<1>3. j \in Seq(Message) /\ Joined(p) = a \o j
  BY <1>0, <1>1, JoinedType, JoinedFront, Zenon
<1>4. Tail(a) \in Seq(Message)
  BY <1>2
<1>5. Joined(n) = Tail(a) \o j
  <2>1. CASE Tail(a) = <<>>
    <3>1. n = Tail(p)
      BY <2>1, Zenon
    <3>2. <<>> \o j = j
      BY <1>3, NoneAdded, Zenon
    <3> QED
      BY <2>1, <3>1, <3>2, Zenon
  <2>2. CASE Tail(a) # <<>>
    <3>1. n = <<Tail(a)>> \o Tail(p)
      BY <2>2, Zenon
    <3>2. n \in Seq(Seq(Message)) /\ n # <<>> /\ Head(n) = Tail(a) /\ Tail(n) = Tail(p)
      <4> DEFINE x == Tail(a)
                 r == Tail(p)
      <4>1. n = <<x>> \o r /\ x \in Seq(Message) /\ r \in Seq(Seq(Message))
        BY <1>1, <1>4, <3>1, Zenon
      <4> HIDE DEF x, r, a
      <4>2. n \in Seq(Seq(Message)) /\ n # <<>> /\ Head(n) = x /\ Tail(n) = r
        <5>1. x \in Seq(Message)
          BY <4>1, Zenon
        <5>2. r \in Seq(Seq(Message))
          BY <4>1, Zenon
        <5>3. n = <<x>> \o r
          BY <4>1, Zenon
        <5> QED
          BY <5>1, <5>2, <5>3, PutFront, ZenonT(60)
      <4> QED
        BY <4>2, Zenon DEF x, r
    <3> QED
      BY <3>2, JoinedFront, Zenon
  <2> QED
    BY <2>1, <2>2, Zenon
<1> HIDE DEF a, j
<1>6. /\ (a \o j) \o t = a \o (j \o t) /\ j \o t \in Seq(Message)
      /\ (Tail(a) \o j) \o t = Tail(a) \o (j \o t)
  <2> DEFINE x == Tail(a)
  <2>1. (a \o j) \o t = a \o (j \o t)
    BY <1>2, <1>3, Assoc, Zenon
  <2>2. x \in Seq(Message)
    BY <1>4, Zenon
  <2> HIDE DEF x
  <2>3. (x \o j) \o t = x \o (j \o t)
    BY <1>3, <2>2, Assoc, ZenonT(60)
  <2>4. j \o t \in Seq(Message)
    BY <1>3, ConcatType, Zenon
  <2> QED
    BY <2>1, <2>3, <2>4, Zenon DEF x
<1>7. Tail(a \o (j \o t)) = Tail(a) \o (j \o t) /\ a \o (j \o t) # <<>>
  BY <1>2, <1>6, TailFront, Zenon
<1> QED
  BY <1>3, <1>5, <1>6, <1>7, Zenon
--------------------------------------------------------------------------------
\* What is on its way from s to d, and what d has got from s and not handed out.
Out(s, d) == (Joined(wire[s][d]) \o InHand(s, d)) \o messages[s][d]
In(s, d) == Joined(recvData[d][s]) \o Joined(Flow(recvQueue[d], s))

\* Nothing enters, moves or leaves.
Quiet == \A s, d \in NetHosts : Out(s, d)' = Out(s, d) /\ In(s, d)' = In(s, d)

\* The mapped state, pair by pair.
LEMMA Mapped ==
  /\ Outgoing = [s \in NetHosts |-> [d \in NetHosts |-> Out(s, d)]]
  /\ Incoming = [s \in NetHosts |-> [d \in NetHosts |-> In(s, d)]]
  /\ Outgoing' = [s \in NetHosts |-> [d \in NetHosts |-> Out(s, d)']]
  /\ Incoming' = [s \in NetHosts |-> [d \in NetHosts |-> In(s, d)']]
  BY Zenon DEF Outgoing, Incoming, Arrived, Out, In, Flow, Item

\* A value for every two hosts, and two such that differ for s and d at most.
Pairs(F) == F = [a \in NetHosts |-> [b \in NetHosts |-> F[a][b]]]
SameBut(F, G, s, d) == \A a, b \in NetHosts : a # s \/ b # d => G[a][b] = F[a][b]

Updated(F, G, s, d, v) == G = [F EXCEPT ![s][d] = v]

\* An update of one pair.
LEMMA OnePair ==
  ASSUME NEW F, NEW G, NEW s \in NetHosts, NEW d \in NetHosts, NEW v,
         Pairs(F), Pairs(G), G[s][d] = v, SameBut(F, G, s, d)
  PROVE  Updated(F, G, s, d, v)
<1> DEFINE r == [F[s] EXCEPT ![d] = v]
           c == [b \in NetHosts |-> G[s][b]]
<1> USE DEF Pairs, SameBut, Updated
<1>1. F[s] = [b \in NetHosts |-> F[s][b]]
  BY Zenon
<1>2. r = c
  BY <1>1, Zenon
<1>3. G = [a \in NetHosts |-> IF a = s THEN c ELSE F[a]]
  <2>1. ASSUME NEW a \in NetHosts
        PROVE  [b \in NetHosts |-> G[a][b]] = IF a = s THEN c ELSE F[a]
    <3>1. CASE a = s
      BY <3>1, Zenon
    <3>2. CASE a # s
      <4>1. F[a] = [b \in NetHosts |-> F[a][b]]
        BY Zenon
      <4>2. \A b \in NetHosts : G[a][b] = F[a][b]
        BY <3>2, Zenon
      <4>3. [b \in NetHosts |-> G[a][b]] = [b \in NetHosts |-> F[a][b]]
        BY <4>2, Zenon
      <4> QED
        BY <3>2, <4>1, <4>3, Zenon
    <3> QED
      BY <3>1, <3>2, Zenon
  <2> QED
    BY <2>1, Zenon
<1>4. DOMAIN F = NetHosts
  BY Zenon
<1>5. [F EXCEPT ![s] = r] = [a \in NetHosts |-> IF a = s THEN r ELSE F[a]]
  BY <1>4, Zenon
<1> HIDE DEF c
<1> QED
  BY <1>2, <1>3, <1>5, Zenon

\* The mapped state after a step that is about s and d.
LEMMA OutSet ==
  ASSUME NEW s \in NetHosts, NEW d \in NetHosts,
         \A a, b \in NetHosts : a # s \/ b # d => Out(a, b)' = Out(a, b)
  PROVE  Outgoing' = [Outgoing EXCEPT ![s][d] = Out(s, d)']
<1> DEFINE F == Outgoing
           G == Outgoing'
           v == Out(s, d)'
<1>1. Pairs(F)
  BY Mapped, Zenon DEF Pairs
<1>2. Pairs(G)
  BY Mapped, Zenon DEF Pairs
<1>3. ASSUME NEW a \in NetHosts, NEW b \in NetHosts
      PROVE  F[a][b] = Out(a, b) /\ G[a][b] = Out(a, b)'
  BY Mapped, Zenon
<1>5. G[s][d] = v
  BY <1>3, Zenon
<1>6. ASSUME NEW a \in NetHosts, NEW b \in NetHosts, a # s \/ b # d
      PROVE  G[a][b] = F[a][b]
  <2>1. Out(a, b)' = Out(a, b)
    BY <1>6, Zenon
  <2>2. F[a][b] = Out(a, b) /\ G[a][b] = Out(a, b)'
    BY <1>3, Zenon
  <2> QED
    BY <2>1, <2>2, Zenon
<1> HIDE DEF F, G, v
<1>7. SameBut(F, G, s, d)
  BY <1>6, Zenon DEF SameBut
<1>4. Updated(F, G, s, d, v)
  <2> HIDE <1>3, <1>6
  <2> QED
    BY <1>1, <1>2, <1>5, <1>7, OnePair, Zenon
<1> QED
  BY <1>4, Zenon DEF F, G, v, Updated

\* The same for what has arrived.
LEMMA InSet ==
  ASSUME NEW s \in NetHosts, NEW d \in NetHosts,
         \A a, b \in NetHosts : a # s \/ b # d => In(a, b)' = In(a, b)
  PROVE  Incoming' = [Incoming EXCEPT ![s][d] = In(s, d)']
<1> DEFINE F == Incoming
           G == Incoming'
           v == In(s, d)'
<1>1. Pairs(F)
  BY Mapped, Zenon DEF Pairs
<1>2. Pairs(G)
  BY Mapped, Zenon DEF Pairs
<1>3. ASSUME NEW a \in NetHosts, NEW b \in NetHosts
      PROVE  F[a][b] = In(a, b) /\ G[a][b] = In(a, b)'
  BY Mapped, Zenon
<1>5. G[s][d] = v
  BY <1>3, Zenon
<1>6. ASSUME NEW a \in NetHosts, NEW b \in NetHosts, a # s \/ b # d
      PROVE  G[a][b] = F[a][b]
  <2>1. In(a, b)' = In(a, b)
    BY <1>6, Zenon
  <2>2. F[a][b] = In(a, b) /\ G[a][b] = In(a, b)'
    BY <1>3, Zenon
  <2> QED
    BY <2>1, <2>2, Zenon
<1> HIDE DEF F, G, v
<1>7. SameBut(F, G, s, d)
  BY <1>6, Zenon DEF SameBut
<1>4. Updated(F, G, s, d, v)
  <2> HIDE <1>3, <1>6
  <2> QED
    BY <1>1, <1>2, <1>5, <1>7, OnePair, Zenon
<1> QED
  BY <1>4, Zenon DEF F, G, v, Updated

\* The types of what is on its way.
LEMMA FlowTypes ==
  ASSUME FiniteSetFacts, Inv, NEW s \in NetHosts, NEW d \in NetHosts
  PROVE  /\ wire[s][d] \in Seq(Aggregate) /\ wire[s][d] \in Seq(Seq(Message))
         /\ Joined(wire[s][d]) \in Seq(Message) /\ InHand(s, d) \in Seq(Message)
         /\ held[s] \in Seq(Message) /\ messages[s][d] \in Seq(Message)
         /\ recvData[d][s] \in Seq(Aggregate) /\ recvData[d][s] \in Seq(Seq(Message))
         /\ Joined(recvData[d][s]) \in Seq(Message)
         /\ recvQueue[d] \in Seq(Arrival)
         /\ Joined(Flow(recvQueue[d], s)) \in Seq(Message)
<1>1. wire[s][d] \in Seq(Aggregate) /\ messages[s][d] \in Seq(Message)
      /\ held[s] \in Seq(Message)
  BY Owned, Zenon
<1>2. recvData[d][s] \in Seq(Aggregate) /\ recvQueue[d] \in Seq(Arrival)
  BY Owned, Zenon DEF Arrival
<1>3. wire[s][d] \in Seq(Seq(Message)) /\ recvData[d][s] \in Seq(Seq(Message))
  BY <1>1, <1>2, AggregateSeq, Zenon
<1>4. Joined(wire[s][d]) \in Seq(Message) /\ Joined(recvData[d][s]) \in Seq(Message)
  BY <1>3, JoinedType, Zenon
<1>5. InHand(s, d) \in Seq(Message)
  <2>1. <<>> \in Seq(Message)
    OBVIOUS
  <2> QED
    BY <1>1, <2>1, Zenon DEF InHand
<1>6. Flow(recvQueue[d], s) \in Seq(Seq(Message))
  BY <1>2, FlowType, Zenon
<1>7. Joined(Flow(recvQueue[d], s)) \in Seq(Message)
  BY <1>6, JoinedType, Zenon
<1> QED
  BY <1>1, <1>2, <1>3, <1>4, <1>5, <1>7, Zenon

\* Pointwise values of updates.
LEMMA SetAll ==
  ASSUME NEW S, NEW f \in [NetHosts -> [NetHosts -> S]], NEW h \in NetHosts, NEW d \in NetHosts,
         NEW v, NEW g, g = [f EXCEPT ![h][d] = v]
  PROVE  /\ g[h][d] = v
         /\ \A a, b \in NetHosts : a # h \/ b # d => g[a][b] = f[a][b]
  BY Zenon

\* sendBuffer::add is the send.
LEMMA AddSends ==
  ASSUME FiniteSetFacts, Inv, NEW h \in NetHosts, Add(h)
  PROVE  \E d \in NetHosts : Interface!Send(h, d)
<1>0. NetTypeOK /\ prog[h] \in Doing
  BY Owned, Zenon
<1>a. prog[h].dst \in NetHosts /\ prog[h].msg \in Message
  BY <1>0, SMTT(60) DEF Add, Doing, Idle
<1>1. PICK d \in NetHosts, m \in Message : d = prog[h].dst /\ m = prog[h].msg
  BY <1>a, Zenon
<1>2. /\ messages' = [messages EXCEPT ![h][d] = Append(messages[h][d], m)]
      /\ UNCHANGED <<wire, turn, held, recvQueue, recvData>>
  BY <1>1, Zenon DEF Add, counters, worker, mpi
<1>3. /\ messages'[h][d] = Append(messages[h][d], m)
      /\ \A a, b \in NetHosts : a # h \/ b # d => messages'[a][b] = messages[a][b]
  <2>1. messages \in [NetHosts -> [NetHosts -> Seq(Message)]]
    BY <1>0, Zenon DEF NetTypeOK
  <2> QED
    BY <1>1, <1>2, <2>1, SetAll, ZenonT(60)
<1>4. \A a, b \in NetHosts : InHand(a, b)' = InHand(a, b) /\ In(a, b)' = In(a, b)
  BY <1>2, Zenon DEF InHand, In
<1>5. \A a, b \in NetHosts : a # h \/ b # d => Out(a, b)' = Out(a, b)
  BY <1>2, <1>3, <1>4, Zenon DEF Out
<1>6. Out(h, d)' = Append(Out(h, d), m)
  <2> DEFINE j == Joined(wire[h][d]) \o InHand(h, d)
             q == messages[h][d]
  <2>1. j \in Seq(Message)
    <3>1. Joined(wire[h][d]) \in Seq(Message) /\ InHand(h, d) \in Seq(Message)
      BY <1>1, FlowTypes, Zenon
    <3> QED
      BY <3>1, ConcatType, Zenon
  <2>2. q \in Seq(Message)
    BY <1>1, FlowTypes, Zenon
  <2>3. Out(h, d)' = j \o Append(q, m)
    BY <1>1, <1>2, <1>3, <1>4, Zenon DEF Out
  <2>4. Out(h, d) = j \o q
    BY Zenon DEF Out
  <2> HIDE DEF j, q
  <2>5. j \o Append(q, m) = Append(j \o q, m)
    BY <1>1, <2>1, <2>2, AddEnd, Zenon
  <2> QED
    BY <2>3, <2>4, <2>5, Zenon
<1>7. Outgoing' = [Outgoing EXCEPT ![h][d] = Out(h, d)']
  BY <1>1, <1>5, OutSet, Zenon
<1>8. Outgoing[h][d] = Out(h, d)
  BY <1>1, Mapped, Zenon
<1>9. Incoming' = Incoming
  BY <1>4, Mapped, Zenon
<1> QED
  BY <1>1, <1>6, <1>7, <1>8, <1>9, Zenon DEF Interface!Send

\* popMsg is the receive.
LEMMA RecieveTaggedReceives ==
  ASSUME FiniteSetFacts, Inv, NEW h \in NetHosts, NEW t \in Tags, RecieveTagged(h, t)
  PROVE  \E s \in NetHosts : Interface!Receive(s, h)
<1>0. NetTypeOK
  BY Owned, Zenon
<1>1. PICK s \in NetHosts : HasData(h, s, t) /\ PopMsg(h, s)
  BY Zenon DEF RecieveTagged
<1> DEFINE p == recvData[h][s]
           n == IF Tail(Head(p)) = <<>> THEN Tail(p) ELSE <<Tail(Head(p))>> \o Tail(p)
<1>2. /\ p # <<>> /\ recvData' = [recvData EXCEPT ![h][s] = n]
      /\ UNCHANGED <<messages, wire, turn, held, recvQueue>>
  BY <1>1, Zenon DEF RecieveTagged, HasData, PopMsg, buffers, worker, mpi
<1> HIDE DEF n
<1>3. /\ recvData'[h][s] = n
      /\ \A a, b \in NetHosts : a # h \/ b # s => recvData'[a][b] = recvData[a][b]
  <2>1. recvData \in [NetHosts -> [NetHosts -> Seq(Aggregate)]]
    BY <1>0, Zenon DEF NetTypeOK
  <2>2. recvData' = [recvData EXCEPT ![h][s] = n]
    BY <1>2, Zenon
  <2> QED
    BY <2>1, <2>2, SetAll
<1>4. \A a, b \in NetHosts : Out(a, b)' = Out(a, b)
  BY <1>2, Zenon DEF InHand, Out
<1>5. \A a, b \in NetHosts : a # s \/ b # h => In(a, b)' = In(a, b)
  BY <1>2, <1>3, Zenon DEF In
<1>6. In(s, h)' = Tail(In(s, h)) /\ In(s, h) # <<>>
  <2> DEFINE y == Joined(Flow(recvQueue[h], s))
  <2>1. p \in Seq(Aggregate) /\ y \in Seq(Message)
    BY FlowTypes, Zenon
  <2>2. In(s, h)' = Joined(n) \o y /\ In(s, h) = Joined(p) \o y
    BY <1>2, <1>3, Zenon DEF In
  <2>3. n = IF Tail(Head(p)) = <<>> THEN Tail(p) ELSE <<Tail(Head(p))>> \o Tail(p)
    BY Zenon DEF n
  <2>4. p # <<>>
    BY <1>2, Zenon
  <2> HIDE DEF y, p
  <2>5. Joined(n) \o y = Tail(Joined(p) \o y) /\ Joined(p) \o y # <<>>
    BY <2>1, <2>3, <2>4, PopMsgFlow, Zenon
  <2> QED
    BY <2>2, <2>5, Zenon
<1>7. Incoming' = [Incoming EXCEPT ![s][h] = In(s, h)']
  BY <1>5, InSet, Zenon
<1>8. Incoming[s][h] = In(s, h)
  BY Mapped, Zenon
<1>9. Outgoing' = Outgoing
  BY <1>4, Mapped, Zenon
<1> QED
  BY <1>6, <1>7, <1>8, <1>9, Zenon DEF Interface!Receive

\* The receive of an MPI message hands its aggregate over.
LEMMA IrecvTransfers ==
  ASSUME FiniteSetFacts, Inv, NEW h \in NetHosts, Irecv(h)
  PROVE  \E s \in NetHosts : Interface!Transfer(s, h)
<1>0. NetTypeOK /\ Turns(h)
  BY Owned, Zenon
<1>a. probed[h] \in NetHosts /\ wire[probed[h]][h] # <<>>
  BY <1>0, Owned, Zenon DEF Turns, Irecv
<1>b. PICK s \in NetHosts : s = probed[h]
  BY <1>a, Zenon
<1> DEFINE w == wire[s][h]
           m == [host |-> s, data |-> Head(w)]
<1>1. /\ wpc[h] = "irecv"
      /\ recvQueue' = [recvQueue EXCEPT ![h] = Append(recvQueue[h], m)]
      /\ wire' = [wire EXCEPT ![s][h] = Tail(w)]
      /\ UNCHANGED <<messages, turn, held, recvData>>
  BY <1>b, Zenon DEF Irecv, buffers
<1>2. s \in NetHosts /\ w # <<>>
  BY <1>a, <1>b, Zenon
<1>3. w \in Seq(Aggregate) /\ w \in Seq(Seq(Message))
  BY <1>2, FlowTypes, Zenon
<1>4. Head(w) \in Aggregate
  BY <1>2, <1>3
<1>5. Head(w) \in Seq(Message) /\ Head(w) # <<>>
  BY <1>4, Zenon DEF Aggregate
<1> HIDE DEF w
<1>6. m \in Arrival /\ m.host = s /\ m.data = Head(w)
  BY <1>2, <1>4, Zenon DEF Arrival
<1> HIDE DEF m
<1>7. /\ wire'[s][h] = Tail(w)
      /\ \A a, b \in NetHosts : a # s \/ b # h => wire'[a][b] = wire[a][b]
  <2>1. wire \in [NetHosts -> [NetHosts -> Seq(Aggregate)]]
    BY <1>0, Zenon DEF NetTypeOK
  <2>2. wire' = [wire EXCEPT ![s][h] = Tail(w)]
    BY <1>1, Zenon
  <2> QED
    BY <1>2, <2>1, <2>2, SetAll
<1>8. /\ recvQueue'[h] = Append(recvQueue[h], m)
      /\ \A b \in NetHosts : b # h => recvQueue'[b] = recvQueue[b]
  <2>1. recvQueue = [b \in NetHosts |-> recvQueue[b]]
    BY <1>0, ArePerHost, Zenon DEF PerHost
  <2>2. recvQueue' = [recvQueue EXCEPT ![h] = Append(recvQueue[h], m)]
    BY <1>1, Zenon
  <2> QED
    BY <2>1, <2>2
<1>9. \A a, b \in NetHosts : a # s \/ b # h => Out(a, b)' = Out(a, b)
  BY <1>1, <1>7, Zenon DEF Out, InHand
<1>10. Out(s, h) = Head(w) \o Out(s, h)' /\ Out(s, h)' \in Seq(Message)
  <2> DEFINE i == InHand(s, h)
             q == messages[s][h]
  <2>1. i \in Seq(Message) /\ q \in Seq(Message)
    BY <1>2, FlowTypes, Zenon
  <2>2. /\ Out(s, h) = (Joined(w) \o i) \o q
        /\ Out(s, h)' = (Joined(Tail(w)) \o i) \o q
    BY <1>1, <1>2, <1>7, Zenon DEF Out, InHand, w
  <2> HIDE DEF i, q
  <2>3. (Joined(w) \o i) \o q = Head(w) \o ((Joined(Tail(w)) \o i) \o q)
    BY <1>2, <1>3, <2>1, IrecvOut, Zenon
  <2>4. Joined(Tail(w)) \in Seq(Message)
    <3>1. Tail(w) \in Seq(Seq(Message))
      BY <1>2, <1>3
    <3> QED
      BY <3>1, JoinedType, Zenon
  <2>5. Joined(Tail(w)) \o i \in Seq(Message)
    BY <2>1, <2>4, ConcatType, Zenon
  <2>6. (Joined(Tail(w)) \o i) \o q \in Seq(Message)
    BY <2>1, <2>5, ConcatType, Zenon
  <2> QED
    BY <2>2, <2>3, <2>6, Zenon
<1>11. \A a, b \in NetHosts : a # s \/ b # h => In(a, b)' = In(a, b)
  <2>1. ASSUME NEW a \in NetHosts, a # s PROVE In(a, h)' = In(a, h)
    <3>1. In(a, h)' = Joined(recvData[h][a]) \o Joined(Flow(Append(recvQueue[h], m), a))
      BY <1>1, <1>8, Zenon DEF In
    <3>2. Item(m, a) = <<>>
      BY <1>6, <2>1, Zenon DEF Item
    <3>3. /\ Joined(recvData[h][a]) \in Seq(Message) /\ recvQueue[h] \in Seq(Arrival)
          /\ Joined(Flow(recvQueue[h], a)) \in Seq(Message)
      BY FlowTypes, Zenon
    <3> DEFINE j == Joined(recvData[h][a])
               q == recvQueue[h]
    <3>6. j \in Seq(Message) /\ q \in Seq(Arrival) /\ m \in Arrival
      BY <1>6, <3>3, Zenon
    <3>7. In(a, h)' = j \o Joined(Flow(Append(q, m), a)) /\ In(a, h) = j \o Joined(Flow(q, a))
      BY <3>1, Zenon DEF In
    <3> HIDE DEF j, q
    <3>8. j \o Joined(Flow(Append(q, m), a)) = (j \o Joined(Flow(q, a))) \o Item(m, a)
      BY <3>6, IrecvIn, Zenon
    <3>4. In(a, h)' = In(a, h) \o <<>>
      BY <3>2, <3>7, <3>8, Zenon
    <3>5. In(a, h) \in Seq(Message)
      BY <3>3, ConcatType, Zenon DEF In
    <3> QED
      BY <3>4, <3>5, NoneAdded, Zenon
  <2>2. ASSUME NEW a \in NetHosts, NEW b \in NetHosts, b # h PROVE In(a, b)' = In(a, b)
    BY <1>1, <1>8, <2>2, Zenon DEF In
  <2> QED
    BY <2>1, <2>2, Zenon
<1>12. In(s, h)' = In(s, h) \o Head(w)
  <2>1. In(s, h)' = Joined(recvData[h][s]) \o Joined(Flow(Append(recvQueue[h], m), s))
    BY <1>1, <1>8, Zenon DEF In
  <2>2. Item(m, s) = Head(w)
    BY <1>6, Zenon DEF Item
  <2> DEFINE j == Joined(recvData[h][s])
             q == recvQueue[h]
  <2>3. j \in Seq(Message) /\ q \in Seq(Arrival) /\ m \in Arrival
    BY <1>2, <1>6, FlowTypes, Zenon
  <2>4. In(s, h)' = j \o Joined(Flow(Append(q, m), s)) /\ In(s, h) = j \o Joined(Flow(q, s))
    BY <2>1, Zenon DEF In
  <2> HIDE DEF j, q
  <2>5. j \o Joined(Flow(Append(q, m), s)) = (j \o Joined(Flow(q, s))) \o Item(m, s)
    BY <2>3, IrecvIn, Zenon
  <2> QED
    BY <2>2, <2>4, <2>5, Zenon
<1>13. /\ Outgoing' = [Outgoing EXCEPT ![s][h] = Out(s, h)']
       /\ Incoming' = [Incoming EXCEPT ![s][h] = In(s, h)']
  BY <1>2, <1>9, <1>11, OutSet, InSet, Zenon
<1>14. Outgoing[s][h] = Out(s, h) /\ Incoming[s][h] = In(s, h)
  BY <1>2, Mapped, Zenon
<1>15. /\ SubSeq(Out(s, h), 1, Len(Head(w))) = Head(w)
       /\ SubSeq(Out(s, h), Len(Head(w)) + 1, Len(Out(s, h))) = Out(s, h)'
       /\ Len(Out(s, h)) = Len(Head(w)) + Len(Out(s, h)')
  <2> DEFINE x == Head(w)
             y == Out(s, h)'
             z == Out(s, h)
  <2>1. x \in Seq(Message) /\ y \in Seq(Message) /\ z = x \o y
    BY <1>5, <1>10, Zenon
  <2> HIDE DEF x, y, z
  <2>2. SubSeq(z, 1, Len(x)) = x /\ SubSeq(z, Len(x) + 1, Len(z)) = y /\ Len(z) = Len(x) + Len(y)
    BY <2>1, Cut, Zenon
  <2> QED
    BY <2>2, Zenon DEF x, y, z
<1>16. Len(Head(w)) \in 1..Len(Out(s, h))
  <2> DEFINE x == Head(w)
             y == Out(s, h)'
  <2>1. x \in Seq(Message) /\ x # <<>> /\ y \in Seq(Message)
    BY <1>5, <1>10, Zenon
  <2>2. Len(Out(s, h)) = Len(x) + Len(y)
    BY <1>15, Zenon
  <2> HIDE DEF x, y
  <2>3. Len(x) \in Nat /\ Len(x) # 0 /\ Len(y) \in Nat
    BY <2>1
  <2>4. Len(x) \in 1..(Len(x) + Len(y))
    BY <2>3
  <2> QED
    BY <2>2, <2>4, Zenon DEF x
<1>17. Interface!Transfer(s, h)
  BY <1>12, <1>13, <1>14, <1>15, <1>16, Zenon DEF Interface!Transfer
<1> QED
  BY <1>2, <1>17, Zenon

\* Pointwise values of an update of what is one host's.
LEMMA SetEach ==
  ASSUME NEW f, f = [b \in NetHosts |-> f[b]], NEW h \in NetHosts, NEW v, NEW g, g = [f EXCEPT ![h] = v]
  PROVE  g[h] = v /\ \A b \in NetHosts : b # h => g[b] = f[b]
  BY Zenon

\* These touch no message.
LEMMA OtherQuiet ==
  ASSUME NEW h \in NetHosts,
         \/ \E d \in NetHosts, t \in Tags : SendTagged(h, d, t)
         \/ Flush(h) \/ MarkUrgent(h) \/ CompleteSend(h) \/ Probe(h)
         \/ NothingProbed(h) \/ Assemble(h) \/ NotReady(h) \/ Copy(h)
  PROVE  Quiet
<1>1. UNCHANGED <<messages, wire, turn, held, recvQueue, recvData>>
  <2> USE DEF buffers, program, worker, mpi
  <2>1. ASSUME NEW d \in NetHosts, NEW t \in Tags, SendTagged(h, d, t)
        PROVE  UNCHANGED <<messages, wire, turn, held, recvQueue, recvData>>
    BY <2>1, Zenon DEF SendTagged
  <2>2. CASE Flush(h)
    BY <2>2, Zenon DEF Flush
  <2>3. CASE MarkUrgent(h)
    BY <2>3, Zenon DEF MarkUrgent
  <2>4. CASE CompleteSend(h)
    BY <2>4, Zenon DEF CompleteSend
  <2>5. CASE Probe(h)
    BY <2>5, Zenon DEF Probe
  <2>6. CASE NothingProbed(h)
    BY <2>6, Zenon DEF NothingProbed
  <2>7. CASE Assemble(h)
    BY <2>7, Zenon DEF Assemble
  <2>8. CASE NotReady(h)
    BY <2>8, Zenon DEF NotReady
  <2>9. CASE Copy(h)
    BY <2>9, Zenon DEF Copy
  <2> QED
    BY <2>1, <2>2, <2>3, <2>4, <2>5, <2>6, <2>7, <2>8, <2>9, Zenon
<1> QED
  BY <1>1, Zenon DEF Quiet, Out, In, InHand

\* Nothing is in hand of a host that goes on to its next destination.
LEMMA TurnQuiet ==
  ASSUME Inv, NEW h \in NetHosts, NextTurn(h), wpc[h] = "dequeue", UNCHANGED held
  PROVE  \A a, b \in NetHosts : InHand(a, b)' = InHand(a, b)
<1>1. NetTypeOK /\ held[h] = <<>>
  BY Owned, Zenon DEF Turns
<1>2. \A a \in NetHosts : a # h => turn'[a] = turn[a]
  BY <1>1, ArePerHost DEF NextTurn, PerHost
<1>3. ASSUME NEW a \in NetHosts, NEW b \in NetHosts, a # h PROVE InHand(a, b)' = InHand(a, b)
  BY <1>2, <1>3, Zenon DEF InHand
<1>4. ASSUME NEW b \in NetHosts PROVE InHand(h, b)' = <<>> /\ InHand(h, b) = <<>>
  BY <1>1, Zenon DEF InHand
<1> QED
  BY <1>3, <1>4, Zenon

\* A worker that finds nothing to do moves no message.
LEMMA NothingDoneQuiet ==
  ASSUME Inv, NEW h \in NetHosts, NothingDone(h)
  PROVE  Quiet
<1>1. /\ NextTurn(h) /\ wpc[h] = "dequeue" /\ UNCHANGED held
      /\ UNCHANGED <<messages, wire, recvQueue, recvData>>
  BY Zenon DEF NothingDone, buffers, mpi
<1>2. \A a, b \in NetHosts : InHand(a, b)' = InHand(a, b)
  BY <1>1, TurnQuiet, Zenon
<1> QED
  BY <1>1, <1>2, Zenon DEF Quiet, Out, In

\* A message that is popped goes from the buffer into the aggregate.
LEMMA PopQuiet ==
  ASSUME FiniteSetFacts, Inv, NEW h \in NetHosts, Pop(h)
  PROVE  Quiet
<1>0. NetTypeOK /\ turn[h] \in NetHosts /\ Turns(h) /\ wpc[h] = "pop"
  BY Owned, Zenon DEF Pop
<1>1. PICK d \in NetHosts : d = turn[h]
  BY <1>0, Zenon
<1> DEFINE m == messages[h][d]
           x == Append(held[h], Head(m))
<1>2. /\ held' = [held EXCEPT ![h] = x]
      /\ messages' = [messages EXCEPT ![h][d] = Tail(m)]
      /\ UNCHANGED <<turn, wire, recvQueue, recvData>>
  BY <1>1, Zenon DEF Pop, mpi
<1>3. m \in Seq(Message) /\ held[h] \in Seq(Message) /\ Joined(wire[h][d]) \in Seq(Message)
  BY FlowTypes, Zenon
<1>4. m # <<>>
  <2>1. todo[h] \in 1..Len(m)
    BY <1>0, <1>1 DEF Turns
  <2> QED
    BY <1>3, <2>1
<1>5. held'[h] = x /\ \A a \in NetHosts : a # h => held'[a] = held[a]
  <2>1. held = [a \in NetHosts |-> held[a]]
    BY <1>0, ArePerHost, Zenon DEF PerHost
  <2> HIDE DEF x
  <2> QED
    BY <1>2, <2>1, SetEach
<1>6. /\ messages'[h][d] = Tail(m)
      /\ \A a, b \in NetHosts : a # h \/ b # d => messages'[a][b] = messages[a][b]
  <2>1. messages \in [NetHosts -> [NetHosts -> Seq(Message)]]
    BY <1>0, Zenon DEF NetTypeOK
  <2>2. messages' = [messages EXCEPT ![h][d] = Tail(m)]
    BY <1>2, Zenon
  <2> QED
    BY <2>1, <2>2, SetAll
<1>7. ASSUME NEW a \in NetHosts, NEW b \in NetHosts, a # h \/ b # d
      PROVE  Out(a, b)' = Out(a, b)
  <2>1. InHand(a, b)' = InHand(a, b)
    <3>1. CASE a # h
      BY <1>2, <1>5, <3>1, Zenon DEF InHand
    <3>2. CASE a = h
      <4>1. turn[a] # b /\ turn'[a] # b
        BY <1>1, <1>2, <1>7, <3>2, Zenon
      <4> QED
        BY <4>1, Zenon DEF InHand
    <3> QED
      BY <3>1, <3>2, Zenon
  <2> QED
    BY <1>2, <1>6, <1>7, <2>1, Zenon DEF Out
<1>8. Out(h, d)' = Out(h, d)
  <2> DEFINE j == Joined(wire[h][d])
             i == held[h]
  <2>1. Out(h, d) = (j \o i) \o m
    BY <1>1, Zenon DEF Out, InHand
  <2>2. Out(h, d)' = (j \o Append(i, Head(m))) \o Tail(m)
    BY <1>1, <1>2, <1>5, <1>6, Zenon DEF Out, InHand
  <2>3. j \in Seq(Message) /\ i \in Seq(Message) /\ m \in Seq(Message) /\ m # <<>>
    BY <1>3, <1>4, Zenon
  <2> HIDE DEF i, j, m
  <2>4. (j \o Append(i, Head(m))) \o Tail(m) = (j \o i) \o m
    BY <2>3, PopFlow, Zenon
  <2> QED
    BY <2>1, <2>2, <2>4, Zenon
<1>9. \A a, b \in NetHosts : In(a, b)' = In(a, b)
  BY <1>2, Zenon DEF In
<1> QED
  BY <1>7, <1>8, <1>9, Zenon DEF Quiet

\* The aggregate goes to MPI as it is.
LEMMA EnqueueQuiet ==
  ASSUME FiniteSetFacts, Inv, NEW h \in NetHosts, Enqueue(h)
  PROVE  Quiet
<1>0. NetTypeOK /\ turn[h] \in NetHosts
  BY Owned, Zenon
<1>1. PICK d \in NetHosts : d = turn[h]
  BY <1>0, Zenon
<1> DEFINE w == wire[h][d]
           x == Append(w, held[h])
<1>2. /\ held' = [held EXCEPT ![h] = <<>>]
      /\ wire' = [wire EXCEPT ![h][d] = x]
      /\ UNCHANGED <<turn, messages, recvQueue, recvData>>
  BY <1>1, Zenon DEF Enqueue
<1>3. w \in Seq(Seq(Message)) /\ held[h] \in Seq(Message)
  BY FlowTypes, Zenon
<1>5. held'[h] = <<>> /\ \A a \in NetHosts : a # h => held'[a] = held[a]
  <2>1. held = [a \in NetHosts |-> held[a]]
    BY <1>0, ArePerHost, Zenon DEF PerHost
  <2> QED
    BY <1>2, <2>1, SetEach
<1>6. /\ wire'[h][d] = x
      /\ \A a, b \in NetHosts : a # h \/ b # d => wire'[a][b] = wire[a][b]
  <2>1. wire \in [NetHosts -> [NetHosts -> Seq(Aggregate)]]
    BY <1>0, Zenon DEF NetTypeOK
  <2>2. wire' = [wire EXCEPT ![h][d] = x]
    BY <1>2, Zenon
  <2> HIDE DEF x
  <2> QED
    BY <2>1, <2>2, SetAll
<1>7. ASSUME NEW a \in NetHosts, NEW b \in NetHosts, a # h \/ b # d
      PROVE  Out(a, b)' = Out(a, b)
  <2>1. InHand(a, b)' = InHand(a, b)
    <3>1. CASE a # h
      BY <1>2, <1>5, <3>1, Zenon DEF InHand
    <3>2. CASE a = h
      <4>1. turn[a] # b /\ turn'[a] # b
        BY <1>1, <1>2, <1>7, <3>2, Zenon
      <4> QED
        BY <4>1, Zenon DEF InHand
    <3> QED
      BY <3>1, <3>2, Zenon
  <2> QED
    BY <1>2, <1>6, <1>7, <2>1, Zenon DEF Out
<1>8. Out(h, d)' = Out(h, d)
  <2> DEFINE i == held[h]
             m == messages[h][d]
  <2>1. Out(h, d) = (Joined(w) \o i) \o m
    BY <1>1, Zenon DEF Out, InHand
  <2>2. Out(h, d)' = (Joined(Append(w, i)) \o <<>>) \o m
    BY <1>1, <1>2, <1>5, <1>6, Zenon DEF Out, InHand
  <2>3. w \in Seq(Seq(Message)) /\ i \in Seq(Message)
    BY <1>3, Zenon
  <2> HIDE DEF i, w, m
  <2>4. (Joined(Append(w, i)) \o <<>>) \o m = (Joined(w) \o i) \o m
    BY <2>3, EnqueueFlow, Zenon
  <2> QED
    BY <2>1, <2>2, <2>4, Zenon
<1>9. \A a, b \in NetHosts : In(a, b)' = In(a, b)
  BY <1>2, Zenon DEF In
<1> QED
  BY <1>7, <1>8, <1>9, Zenon DEF Quiet

\* An aggregate goes from the receive queue to the end of the buffer of its host.
LEMMA DequeueQuiet ==
  ASSUME FiniteSetFacts, Inv, NEW h \in NetHosts, Dequeue(h)
  PROVE  Quiet
<1>0. NetTypeOK
  BY Owned, Zenon
<1> DEFINE q == recvQueue[h]
           m == Head(q)
<1>1. /\ wpc[h] = "dequeue" /\ q # <<>> /\ NextTurn(h) /\ UNCHANGED held
      /\ UNCHANGED <<messages, wire>>
  BY Zenon DEF Dequeue, buffers
<1>2. q \in Seq(Arrival)
  BY FlowTypes, Zenon
<1>3. m \in Arrival
  BY <1>1, <1>2
<1>4. PICK s \in NetHosts : s = m.host
  BY <1>3, Zenon DEF Arrival
<1> DEFINE p == recvData[h][s]
           x == Append(p, m.data)
<1>5. /\ recvData' = [recvData EXCEPT ![h][s] = x]
      /\ recvQueue' = [recvQueue EXCEPT ![h] = Tail(q)]
  BY <1>4, Zenon DEF Dequeue
<1>6. recvQueue'[h] = Tail(q) /\ \A b \in NetHosts : b # h => recvQueue'[b] = recvQueue[b]
  <2>1. recvQueue = [b \in NetHosts |-> recvQueue[b]]
    BY <1>0, ArePerHost, Zenon DEF PerHost
  <2>2. recvQueue' = [recvQueue EXCEPT ![h] = Tail(q)]
    BY <1>5, Zenon
  <2> QED
    BY <2>1, <2>2, SetEach
<1>7. /\ recvData'[h][s] = x
      /\ \A a, b \in NetHosts : a # h \/ b # s => recvData'[a][b] = recvData[a][b]
  <2>1. recvData \in [NetHosts -> [NetHosts -> Seq(Aggregate)]]
    BY <1>0, Zenon DEF NetTypeOK
  <2>2. recvData' = [recvData EXCEPT ![h][s] = x]
    BY <1>5, Zenon
  <2> HIDE DEF x
  <2> QED
    BY <2>1, <2>2, SetAll, Zenon
<1>8. \A a, b \in NetHosts : Out(a, b)' = Out(a, b)
  BY <1>1, TurnQuiet, Zenon DEF Out
<1>9. ASSUME NEW a \in NetHosts, NEW b \in NetHosts, b # h PROVE In(a, b)' = In(a, b)
  BY <1>6, <1>7, <1>9, Zenon DEF In
<1>10. ASSUME NEW a \in NetHosts, a # s PROVE In(a, h)' = In(a, h)
  <2>1. In(a, h)' = Joined(recvData[h][a]) \o Joined(Flow(Tail(q), a))
    BY <1>6, <1>7, <1>10, Zenon DEF In
  <2>2. In(a, h) = Joined(recvData[h][a]) \o Joined(Flow(q, a))
    BY Zenon DEF In
  <2>3. a # Head(q).host /\ q \in Seq(Arrival) /\ q # <<>>
    BY <1>1, <1>2, <1>4, <1>10, Zenon
  <2> HIDE DEF q
  <2>4. Joined(Flow(Tail(q), a)) = Joined(Flow(q, a))
    BY <2>3, DequeueOther, Zenon
  <2> QED
    BY <2>1, <2>2, <2>4, Zenon
<1>11. In(s, h)' = In(s, h)
  <2>1. /\ In(s, h)' = Joined(Append(p, Head(q).data)) \o Joined(Flow(Tail(q), s))
        /\ In(s, h) = Joined(p) \o Joined(Flow(q, s))
    BY <1>6, <1>7, Zenon DEF In
  <2>2. p \in Seq(Seq(Message)) /\ q \in Seq(Arrival) /\ q # <<>>
    BY <1>1, <1>2, FlowTypes, Zenon
  <2>3. s = Head(q).host
    BY <1>4, Zenon
  <2> HIDE DEF p, q, m
  <2>4. Joined(Append(p, Head(q).data)) \o Joined(Flow(Tail(q), Head(q).host))
          = Joined(p) \o Joined(Flow(q, Head(q).host))
    BY <2>2, DequeueFlow, Zenon
  <2> QED
    BY <2>1, <2>3, <2>4, Zenon
<1> QED
  BY <1>8, <1>9, <1>10, <1>11, Zenon DEF Quiet

\* A step of the implementation is a step of the interface, or none.
LEMMA NextMaps ==
  ASSUME FiniteSetFacts, Inv, NetNext
  PROVE  [Interface!Next]_<<Outgoing, Incoming>>
<1>1. PICK h \in NetHosts : ProgramThread(h) \/ WorkerThread(h)
  BY Zenon DEF NetNext
<1>2. CASE Quiet
  BY <1>2, Mapped, Zenon DEF Quiet
<1>3. CASE Add(h)
  BY <1>3, AddSends, Zenon DEF Interface!Next
<1>4. ASSUME NEW t \in Tags, RecieveTagged(h, t)
      PROVE  [Interface!Next]_<<Outgoing, Incoming>>
  BY <1>4, RecieveTaggedReceives, Zenon DEF Interface!Next
<1>5. CASE Irecv(h)
  BY <1>5, IrecvTransfers, Zenon DEF Interface!Next
<1>6. CASE ProgramThread(h)
  BY <1>2, <1>3, <1>4, <1>6, OtherQuiet, Zenon DEF ProgramThread
<1>7. CASE WorkerThread(h)
  BY <1>2, <1>5, <1>7, OtherQuiet, PopQuiet, EnqueueQuiet, DequeueQuiet, NothingDoneQuiet, Zenon DEF WorkerThread
<1> QED
  BY <1>1, <1>6, <1>7, Zenon

\* Nothing is on its way at first.
LEMMA InitMaps ==
  ASSUME FiniteSetFacts
  PROVE  NetInit => Interface!Init
<1> SUFFICES ASSUME NetInit PROVE Interface!Init
  BY Zenon
<1>1. ASSUME NEW s \in NetHosts, NEW d \in NetHosts PROVE Out(s, d) = <<>> /\ In(s, d) = <<>>
  <2>1. /\ wire[s][d] = <<>> /\ messages[s][d] = <<>> /\ held[s] = <<>>
        /\ recvData[d][s] = <<>> /\ recvQueue[d] = <<>>
    BY Zenon DEF NetInit, PerPair
  <2>2. InHand(s, d) = <<>>
    BY <2>1, Zenon DEF InHand
  <2>3. Flow(recvQueue[d], s) = <<>>
    BY <2>1 DEF Flow
  <2>4. Joined(<<>>) = <<>>
    BY JoinedEmpty, Zenon
  <2>5. <<>> \o <<>> = <<>>
    OBVIOUS
  <2> QED
    BY <2>1, <2>2, <2>3, <2>4, <2>5, Zenon DEF Out, In
<1> QED
  BY <1>1, Mapped, Zenon DEF Interface!Init

--------------------------------------------------------------------------------
Library == INSTANCE FiniteSetTheorems

\* The library speaks of the same finite sets and sizes.
LEMMA SameFinite ==
  ASSUME NEW S
  PROVE  /\ Library!IsFiniteSet(S) <=> IsFiniteSet(S)
         /\ Library!Cardinality(S) = Cardinality(S)
  BY DEF Library!IsFiniteSet, IsFiniteSet, Library!Cardinality, Cardinality

\* The facts used above are theorems of the library.
LEMMA FiniteSetFactsHold == FiniteSetFacts
<1>1. SizeOfEmpty /\ SizesAreNumbers
  BY Library!FS_CardinalityType, Library!FS_EmptySet, SameFinite DEF SizeOfEmpty, SizesAreNumbers
<1>2. SizeOfMore
  BY Library!FS_AddElement, SameFinite DEF SizeOfMore
<1>3. SizeOfLess
  BY Library!FS_RemoveElement, SameFinite DEF SizeOfLess
<1>4. SubsetsFinite
  BY Library!FS_Subset, SameFinite DEF SubsetsFinite
<1>5. IntervalsFinite
  BY Library!FS_Interval, SameFinite DEF IntervalsFinite
<1>6. SizeOfImage
  <2> SUFFICES ASSUME NEW S, NEW T, NEW f, IsFiniteSet(S), f \in [S -> T],
                      \A x, y \in S : f[x] = f[y] => x = y,
                      \A y \in T : \E x \in S : f[x] = y
               PROVE  Cardinality(T) = Cardinality(S)
    BY Zenon DEF SizeOfImage
  <2>1. Library!IsInjective(f)
    BY Zenon DEF Library!IsInjective
  <2>2. Library!ExistsBijection(S, T)
    BY <2>1, Zenon
    DEF Library!ExistsBijection, Library!Bijection, Library!Injection, Library!Surjection
  <2> QED
    BY <2>2, Library!FS_Bijection, SameFinite, Zenon
<1>7. LeastNumber
  <2> SUFFICES ASSUME NEW S, S \subseteq Nat, S # {}
               PROVE  \E x \in S : \A y \in S : x <= y
    BY Zenon DEF LeastNumber
  <2>1. PICK x \in S : \A y \in S : ~(<<y, x>> \in Library!OpToRel(<, Nat))
    BY Library!NatLessThanWellFounded, Library!WFMin, Zenon
  <2>2. \A y \in S : ~(y < x)
    BY <2>1, Zenon DEF Library!OpToRel
  <2> QED
    BY <2>2
<1> QED
  BY <1>1, <1>2, <1>3, <1>4, <1>5, <1>6, <1>7, Zenon DEF FiniteSetFacts

\* The invariant holds throughout.
LEMMA NetInv == NetSpec => []Inv
<1>1. NetInit => Inv
  BY InitInv, FiniteSetFactsHold, Zenon
<1>2. Inv /\ [NetNext]_netVars => Inv'
  <2> SUFFICES ASSUME Inv, [NetNext]_netVars PROVE Inv'
    BY Zenon
  <2>1. CASE UNCHANGED netVars
    BY <2>1, ZenonT(60) DEF Inv, Own, Turns, Taken, Sending, Receiving, Matching, Urgent, NetTypeOK, netVars,
                       buffers, counters, program, worker, mpi
  <2>2. CASE NetNext
    BY <2>2, NextInv, FiniteSetFactsHold, Zenon
  <2> QED
    BY <2>1, <2>2, Zenon
<1> QED
  BY <1>1, <1>2, PTL DEF NetSpec

\* A flush is never forgotten, whatever the interleaving of the program, which sets
\* urgent under the lock, with the worker, which counts it down without.
THEOREM FlushIsKept == NetSpec => []FlushNotForgotten
<1>1. Inv => FlushNotForgotten
  BY Zenon DEF Inv, Own, Urgent, FlushNotForgotten
<1> QED
  BY <1>1, NetInv, PTL

\* With synchronous-mode sends no message escapes the counters of its sender and of
\* its receiver.
THEOREM NothingUncounted ==
  ASSUME Issend
  PROVE  NetSpec => []NoMessageUncounted
<1>1. Inv => NoMessageUncounted
  BY InvCounts, FiniteSetFactsHold, Zenon
<1> QED
  BY <1>1, NetInv, PTL

\* Aggregation, the MPI layer and the receive buffers lose, duplicate and reorder
\* nothing between two hosts: what NetworkBuffered does is what the interface
\* promises, for every number of hosts and messages.
THEOREM InOrder == NetSpec => InOrderExactlyOnce
<1>1. NetInit => Interface!Init
  BY InitMaps, FiniteSetFactsHold, Zenon
<1>2. Inv /\ [NetNext]_netVars => [Interface!Next]_<<Outgoing, Incoming>>
  <2> SUFFICES ASSUME Inv, [NetNext]_netVars
               PROVE  [Interface!Next]_<<Outgoing, Incoming>>
    BY Zenon
  <2>1. CASE UNCHANGED netVars
    BY <2>1, Zenon DEF Outgoing, Incoming, Arrived, InHand, netVars, buffers, worker, mpi
  <2>2. CASE NetNext
    BY <2>2, NextMaps, FiniteSetFactsHold, Zenon
  <2> QED
    BY <2>1, <2>2, Zenon
<1> QED
  BY <1>1, <1>2, NetInv, PTL
  DEF InOrderExactlyOnce, Interface!Spec, Interface!vars, NetSpec

================================================================================
