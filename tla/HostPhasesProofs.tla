-------------------------- MODULE HostPhasesProofs --------------------------
(***************************************************************************)
(* Proofs about HostPhases, for any number of hosts, any mirrors, any      *)
(* program and any bound of evilPhase that satisfy ReuseAssumption: a      *)
(* phase number always matches messages with their operation, and the host *)
(* fence delivers and separates.                                           *)
(***************************************************************************)
EXTENDS HostPhases, FiniteSetTheorems, TLAPS

\* h has entered the k-th operation, and sent what it sends in it
Begun(h, k) == at[h] > k \/ (at[h] = k /\ pc[h] = "receive")

\* h has received what s sends it in the k-th operation
Received(h, s, k) == at[h] > k \/ <<s, k>> \in taken[h]

\* a message, what is in a channel, and a channel in program order
Message == [tag : Tag, at : 1..Last]
Elements(q) == {q[n] : n \in 1..Len(q)}
Increasing(q) == \A n \in 1..Len(q) : \A p \in 1..(n - 1) : q[p].at < q[n].at
Precedes(q, m) == \A x \in Elements(q) : x.at < m.at
InChan(s, h) == Elements(chan[s][h])

\* the types, with what a host's own variables say about each other
Local == /\ TypeOK
         /\ \A h \in Hosts :
              /\ evilPhase[h] = PhaseAt[at[h]]
              /\ pc[h] = "receive" => at[h] <= Last /\ Operations[at[h]] # "message"
              /\ pc[h] = "begin" => taken[h] = {} /\ pending[h] = 0
              /\ pc[h] = "receive" /\ Operations[at[h]] = "allreduce" =>
                    taken[h] = {} /\ pending[h] = 0

\* what a message under way from s to h is
Messages == \A s, h \in Hosts : \A m \in InChan(s, h) :
              \/ m.tag = 0 /\ Operations[m.at] = "message" /\ at[s] > m.at /\ s # h
              \/ m.tag = PhaseAt[m.at] /\ Sends(s, h, m.at) /\ Begun(s, m.at)

\* a channel is in program order
Ordered == \A s, h \in Hosts : Increasing(chan[s][h])

\* what was sent is under way or received
Kept == \A s, h \in Hosts : \A k \in 1..Last :
              Sends(s, h, k) /\ Begun(s, k) =>
                 Received(h, s, k) \/ \E m \in InChan(s, h) : m.tag # 0 /\ m.at = k

\* nothing under way was sent before something already received
Behind == \A s, h \in Hosts : \A m \in InChan(s, h) : \A k \in (m.at)..Last :
              Sends(s, h, k) => ~Received(h, s, k)

\* what a host has received in the operation it is in
Counted == \A h \in Hosts : pc[h] = "receive" =>
              /\ \A p \in taken[h] : p[2] = at[h] /\ Sends(p[1], h, at[h]) /\ Begun(p[1], at[h])
              /\ Phased(at[h]) => Cardinality(taken[h]) + pending[h] = Expected(h)

\* a host behind an operation has met those it receives from in it
Met == \A s, h \in Hosts : \A k \in 1..Last :
              at[h] > k /\ (Sends(s, h, k) \/ Operations[k] = "allreduce") => Begun(s, k)

Inv == Local /\ Messages /\ Ordered /\ Kept /\ Behind /\ Counted /\ Met
-----------------------------------------------------------------------------
(* The program and its phases *)

Names == {"exchange", "reduce", "broadcast", "allreduce", "message", "fence"}

\* A program is a finite sequence of operations.
LEMMA ProgramType == Last \in Nat /\ \A k \in 1..Last : Operations[k] \in Names
  BY PhasesAssumption DEF Last, Names

\* Nobody sends to itself or to a host that does not exist.
LEMMA SendsType ==
  ASSUME NEW s \in Hosts, NEW h \in Hosts, NEW k \in 1..Last, Sends(s, h, k)
  PROVE  s # h /\ Phased(k)
<1>1. Operations[k] \in Names
  BY ProgramType, Zenon
<1>2. h \in SendsTo(s, Operations[k]) /\ Phased(k)
  BY Zenon DEF Sends
<1>3. CASE Operations[k] = "reduce"
  BY <1>2, <1>3, PhasesAssumption, Zenon DEF SendsTo
<1>4. CASE Operations[k] = "broadcast"
  BY <1>2, <1>4, PhasesAssumption, Zenon DEF SendsTo
<1>5. CASE Operations[k] # "reduce" /\ Operations[k] # "broadcast"
  BY <1>2, <1>5, Zenon DEF SendsTo
<1> QED
  BY <1>3, <1>4, <1>5, Zenon

\* incrementEvilPhase stays among the tags and never gives 0.
LEMMA NextPhaseType == \A p \in Tag \ {0} : NextPhase(p) \in Tag \ {0}
  BY PhasesAssumption DEF Tag, NextPhase

\* A non-empty set of natural numbers has a smallest member.
LEMMA Least ==
  ASSUME NEW S, S \subseteq Nat, S # {}
  PROVE  \E x \in S : \A y \in S : x <= y
<1>1. PICK x \in S : \A y \in S : ~(<<y, x>> \in OpToRel(<, Nat))
  BY NatLessThanWellFounded, WFMin, Zenon
<1>2. \A y \in S : ~(y < x)
  BY <1>1, Zenon DEF OpToRel
<1> QED
  BY <1>2

\* f numbers the first n operations, and the one after them
Numbers(f, n) ==
  /\ f \in [1..(n + 1) -> Tag \ {0}]
  /\ \A k \in 1..(n + 1) :
        f[k] = IF k = 1 THEN 1 ELSE IF Phased(k - 1) THEN NextPhase(f[k - 1]) ELSE f[k - 1]

\* Such a numbering exists.
LEMMA NumberingExists == \A n \in Nat : \E f : Numbers(f, n)
<1> DEFINE Bad == {n \in Nat : ~\E f : Numbers(f, n)}
<1> SUFFICES ASSUME Bad # {} PROVE FALSE
  BY Zenon
<1>1. PICK n \in Bad : \A y \in Bad : n <= y
  <2> HIDE DEF Bad
  <2>1. Bad \subseteq Nat
    BY Zenon DEF Bad
  <2> QED
    BY <2>1, Least, Zenon
<1>2. n \in Nat /\ ~\E f : Numbers(f, n)
  BY Zenon
<1>3. CASE n = 0
  <2>1. 1 \in Tag \ {0}
    BY PhasesAssumption DEF Tag
  <2>2. Numbers([k \in 1..1 |-> 1], 0)
    BY <2>1 DEF Numbers
  <2> QED
    BY <2>2, <1>2, <1>3, Zenon
<1>4. CASE n # 0
  <2>1. n - 1 \in Nat /\ ~(n - 1 \in Bad)
    BY <1>1, <1>2, <1>4
  <2>2. PICK f : Numbers(f, n - 1)
    BY <2>1, Zenon
  <2>3. f \in [1..n -> Tag \ {0}]
    BY <2>2, <1>2 DEF Numbers
  <2>4. \A k \in 1..n :
          f[k] = IF k = 1 THEN 1 ELSE IF Phased(k - 1) THEN NextPhase(f[k - 1]) ELSE f[k - 1]
    BY <2>2, <1>2 DEF Numbers
  <2> DEFINE last == IF Phased(n) THEN NextPhase(f[n]) ELSE f[n]
             g == [k \in 1..(n + 1) |-> IF k = n + 1 THEN last ELSE f[k]]
  <2>5. last \in Tag \ {0}
    BY <2>3, <1>2, <1>4, NextPhaseType
  <2> HIDE DEF last
  <2>6. g \in [1..(n + 1) -> Tag \ {0}]
    BY <2>5, <2>3, <1>2
  <2>7. \A k \in 1..n : g[k] = f[k]
    BY <1>2
  <2>8. g[n + 1] = last
    BY <1>2
  <2> HIDE DEF g
  <2>9. ASSUME NEW k \in 1..(n + 1)
        PROVE  g[k] = IF k = 1 THEN 1 ELSE IF Phased(k - 1) THEN NextPhase(g[k - 1]) ELSE g[k - 1]
    <3>1. CASE k = n + 1
      <4>1. k - 1 = n /\ k # 1 /\ n \in 1..n
        BY <3>1, <1>2, <1>4
      <4>2. g[k] = last /\ g[n] = f[n]
        BY <4>1, <2>7, <2>8, <3>1, Zenon
      <4> QED
        BY <4>1, <4>2, Zenon DEF last
    <3>2. CASE k # n + 1
      <4>1. k \in 1..n /\ (k # 1 => k - 1 \in 1..n)
        BY <3>2, <1>2
      <4> QED
        BY <4>1, <2>4, <2>7, Zenon
    <3> QED
      BY <3>1, <3>2, Zenon
  <2>10. Numbers(g, n)
    BY <2>6, <2>9, Zenon DEF Numbers
  <2> QED
    BY <2>10, <1>2, Zenon
<1> QED
  BY <1>3, <1>4, Zenon

\* PhaseAt is the numbering of the program.
LEMMA PhaseAtNumbers == Numbers(PhaseAt, Last)
<1> DEFINE Body(f) == [k \in 1..(Last + 1) |->
             IF k = 1 THEN 1 ELSE IF Phased(k - 1) THEN NextPhase(f[k - 1]) ELSE f[k - 1]]
<1>1. PICK f : Numbers(f, Last)
  BY NumberingExists, ProgramType, Zenon
<1>2. f = Body(f)
  BY <1>1, Zenon DEF Numbers
<1>3. PhaseAt = CHOOSE g : g = Body(g)
  BY Zenon DEF PhaseAt
<1> HIDE DEF Body
<1>4. PhaseAt = Body(PhaseAt)
  BY <1>2, <1>3, Zenon
<1> USE DEF Body
<1>5. \A k \in 1..(Last + 1) : PhaseAt[k] =
         IF k = 1 THEN 1 ELSE IF Phased(k - 1) THEN NextPhase(PhaseAt[k - 1]) ELSE PhaseAt[k - 1]
  BY <1>4, Zenon
<1> DEFINE Bad == {k \in 1..(Last + 1) : PhaseAt[k] \notin Tag \ {0}}
<1>6. ASSUME Bad # {} PROVE FALSE
  <2>1. PICK k \in Bad : \A y \in Bad : k <= y
    <3>1. Bad \subseteq Nat
      OBVIOUS
    <3> HIDE DEF Bad
    <3> QED
      BY <3>1, <1>6, Least, Zenon
  <2>2. k \in 1..(Last + 1) /\ PhaseAt[k] \notin Tag \ {0}
    BY Zenon
  <2>3. k # 1
    BY <2>2, <1>5, PhasesAssumption DEF Tag
  <2>4. k - 1 \in 1..(Last + 1) /\ k - 1 \notin Bad
    BY <2>1, <2>2, <2>3, ProgramType
  <2>5. PhaseAt[k - 1] \in Tag \ {0}
    BY <2>4, Zenon
  <2> QED
    BY <2>2, <2>3, <2>5, <1>5, NextPhaseType, Zenon
<1>7. PhaseAt \in [1..(Last + 1) -> Tag \ {0}]
  <2>1. PhaseAt = [k \in 1..(Last + 1) |-> PhaseAt[k]]
    BY <1>4, Zenon
  <2> QED
    BY <2>1, <1>6, Zenon
<1> QED
  BY <1>5, <1>7, Zenon DEF Numbers

\* A host that leaves an operation has the number of the next one.
LEMMA PhaseAtNext ==
  /\ PhaseAt \in [1..(Last + 1) -> Tag \ {0}]
  /\ PhaseAt[1] = 1
  /\ \A k \in 1..Last :
        PhaseAt[k + 1] = IF Phased(k) THEN NextPhase(PhaseAt[k]) ELSE PhaseAt[k]
<1>1. 1 \in 1..(Last + 1)
  BY ProgramType
<1>2. \A k \in 1..Last : k + 1 \in 1..(Last + 1) /\ k + 1 # 1 /\ (k + 1) - 1 = k
  BY ProgramType
<1> QED
  BY <1>1, <1>2, PhaseAtNumbers, Zenon DEF Numbers

-----------------------------------------------------------------------------
(* What the invariant says of the channels a step changes *)

\* Appending a later message
LEMMA AppendLater ==
  ASSUME NEW q \in Seq(Message), NEW m \in Message, Increasing(q), Precedes(q, m)
  PROVE  /\ Append(q, m) \in Seq(Message)
         /\ Elements(Append(q, m)) = Elements(q) \cup {m}
         /\ Increasing(Append(q, m))
<1>1. Append(q, m) \in Seq(Message) /\ Len(Append(q, m)) = Len(q) + 1 /\ Len(q) \in Nat
  OBVIOUS
<1>2. Append(q, m)[Len(q) + 1] = m /\ \A n \in 1..Len(q) : Append(q, m)[n] = q[n]
  OBVIOUS
<1> DEFINE r == Append(q, m)
<1> HIDE DEF r
<1>3. Elements(r) = Elements(q) \cup {m}
  BY <1>1, <1>2 DEF Elements, r
<1>4. ASSUME NEW n \in 1..Len(r), NEW p \in 1..(n - 1)
      PROVE  r[p].at < r[n].at
  <2>1. p \in 1..Len(q) /\ r[p] = q[p] /\ q[p] \in Elements(q)
    BY <1>1, <1>2 DEF r, Elements
  <2>2. CASE n = Len(q) + 1
    BY <2>1, <2>2, <1>2, Zenon DEF r, Precedes
  <2>3. CASE n # Len(q) + 1
    <3>1. n \in 1..Len(q) /\ r[n] = q[n]
      BY <2>3, <1>1, <1>2 DEF r
    <3> QED
      BY <3>1, <2>1, Zenon DEF Increasing
  <2> QED
    BY <2>2, <2>3, Zenon
<1> QED
  BY <1>1, <1>3, <1>4, Zenon DEF Increasing, r

\* Taking the front message
LEMMA TakeFront ==
  ASSUME NEW q \in Seq(Message), q # <<>>, Increasing(q)
  PROVE  /\ Head(q) \in Elements(q) /\ Head(q) \in Message
         /\ Tail(q) \in Seq(Message)
         /\ Elements(q) = {Head(q)} \cup Elements(Tail(q))
         /\ \A x \in Elements(Tail(q)) : Head(q).at < x.at
         /\ Increasing(Tail(q))
<1>1. Len(q) \in Nat /\ Len(q) >= 1 /\ Head(q) = q[1] /\ q[1] \in Message
  OBVIOUS
<1>2. /\ Tail(q) \in Seq(Message) /\ Len(Tail(q)) = Len(q) - 1
      /\ \A n \in 1..(Len(q) - 1) : Tail(q)[n] = q[n + 1]
  OBVIOUS
<1> DEFINE r == Tail(q)
<1> HIDE DEF r
<1>3. Elements(q) = {q[1]} \cup Elements(r)
  <2>1. ASSUME NEW n \in 1..Len(q) PROVE q[n] \in {q[1]} \cup Elements(r)
    <3>1. CASE n = 1
      BY <3>1, Zenon
    <3>2. CASE n # 1
      <4>1. n - 1 \in 1..Len(r) /\ r[n - 1] = q[n]
        BY <3>2, <1>1, <1>2 DEF r
      <4> QED
        BY <4>1, Zenon DEF Elements
    <3> QED
      BY <3>1, <3>2, Zenon
  <2>2. ASSUME NEW n \in 1..Len(r) PROVE r[n] \in Elements(q)
    <3>1. n + 1 \in 1..Len(q) /\ r[n] = q[n + 1]
      BY <1>1, <1>2 DEF r
    <3> QED
      BY <3>1, Zenon DEF Elements
  <2>3. 1 \in 1..Len(q)
    BY <1>1
  <2> QED
    BY <2>1, <2>2, <2>3, Zenon DEF Elements
<1>4. \A x \in Elements(r) : q[1].at < x.at
  <2>1. ASSUME NEW n \in 1..Len(r) PROVE q[1].at < r[n].at
    <3>1. n + 1 \in 1..Len(q) /\ r[n] = q[n + 1] /\ 1 \in 1..((n + 1) - 1)
      BY <1>1, <1>2 DEF r
    <3> QED
      BY <3>1, Zenon DEF Increasing
  <2> QED
    BY <2>1, Zenon DEF Elements
<1>5. ASSUME NEW n \in 1..Len(r), NEW p \in 1..(n - 1)
      PROVE  r[p].at < r[n].at
  <2>1. n + 1 \in 1..Len(q) /\ p + 1 \in 1..((n + 1) - 1) /\ r[n] = q[n + 1] /\ r[p] = q[p + 1]
    BY <1>1, <1>2 DEF r
  <2> QED
    BY <2>1, Zenon DEF Increasing
<1> QED
  BY <1>1, <1>2, <1>3, <1>4, <1>5, Zenon DEF Increasing, r

\* What is in a channel is a message of an operation of the program.
LEMMA ElementTypes ==
  ASSUME NEW c \in [Hosts -> [Hosts -> Seq(Message)]], NEW s \in Hosts, NEW d \in Hosts,
         NEW x \in Elements(c[s][d])
  PROVE  x \in Message /\ x.tag \in Tag /\ x.at \in 1..Last /\ x.at \in Int
<1>1. c[s][d] \in Seq(Message)
  BY Zenon
<1>2. x \in Message
  BY <1>1 DEF Elements
<1> QED
  BY <1>2, ProgramType DEF Message

\* What is on a channel is a message of some operation of the program.
LEMMA InChanTypes ==
  ASSUME TypeOK
  PROVE  \A s, d \in Hosts : \A x \in InChan(s, d) :
            x \in Message /\ x.tag \in Tag /\ x.at \in 1..Last /\ x.at \in Int
<1>1. chan \in [Hosts -> [Hosts -> Seq(Message)]]
  BY Zenon DEF TypeOK, Message
<1> QED
  BY <1>1, ElementTypes, Zenon DEF InChan

\* channels with their messages in order
Channels(c) == /\ c \in [Hosts -> [Hosts -> Seq(Message)]]
               /\ \A s, d \in Hosts : Increasing(c[s][d])

\* The channels after h has sent m to some hosts, and after h has taken the
\* front message from s
Extended(c, h, dests, m) ==
  [c EXCEPT ![h] = [d \in Hosts |-> IF d \in dests THEN Append(c[h][d], m) ELSE c[h][d]]]
Shortened(c, s, h) == [c EXCEPT ![s][h] = Tail(@)]

\* c2 holds what c does, and m on the channels from h to some hosts
Grown(c, c2, h, dests, m) ==
  \A s, d \in Hosts : Elements(c2[s][d]) =
     IF s = h /\ d \in dests THEN Elements(c[s][d]) \cup {m} ELSE Elements(c[s][d])

\* c2 holds what c does except the front message from s to h
Shrunk(c, c2, s, h) ==
  /\ Head(c[s][h]) \in Elements(c[s][h]) /\ Head(c[s][h]) \in Message
  /\ Elements(c[s][h]) = {Head(c[s][h])} \cup Elements(c2[s][h])
  /\ \A x \in Elements(c2[s][h]) : Head(c[s][h]).at < x.at
  /\ \A g, d \in Hosts : ~(g = s /\ d = h) => Elements(c2[g][d]) = Elements(c[g][d])

\* A channel is longer by the message that was sent on it.
LEMMA Sent ==
  ASSUME NEW c, Channels(c), NEW h \in Hosts, NEW dests \in SUBSET Hosts, NEW m \in Message, \A d \in Hosts : Precedes(c[h][d], m)
  PROVE  /\ Channels(Extended(c, h, dests, m))
         /\ Grown(c, Extended(c, h, dests, m), h, dests, m)
<1> DEFINE c2 == Extended(c, h, dests, m)
<1>1. \A s, d \in Hosts :
        c2[s][d] = IF s = h /\ d \in dests THEN Append(c[s][d], m) ELSE c[s][d]
  BY Zenon DEF Extended, Channels
<1>2. \A d \in Hosts : /\ Append(c[h][d], m) \in Seq(Message)
                      /\ Elements(Append(c[h][d], m)) = Elements(c[h][d]) \cup {m}
                      /\ Increasing(Append(c[h][d], m))
  <2> TAKE d \in Hosts
  <2>1. c[h][d] \in Seq(Message) /\ Increasing(c[h][d])
    BY Zenon DEF Channels
  <2> QED
    BY <2>1, AppendLater, Zenon
<1>3. c2 \in [Hosts -> [Hosts -> Seq(Message)]]
  BY <1>2, Zenon DEF Extended, Channels
<1> HIDE DEF c2
<1>4. ASSUME NEW s \in Hosts, NEW d \in Hosts
      PROVE  /\ Increasing(c2[s][d])
             /\ Elements(c2[s][d]) =
                  IF s = h /\ d \in dests THEN Elements(c[s][d]) \cup {m} ELSE Elements(c[s][d])
  <2>1. CASE s = h /\ d \in dests
    BY <2>1, <1>1, <1>2, Zenon
  <2>2. CASE ~(s = h /\ d \in dests)
    <3>1. c2[s][d] = c[s][d]
      BY <2>2, <1>1, Zenon
    <3> QED
      BY <2>2, <3>1, Zenon DEF Channels
  <2> QED
    BY <2>1, <2>2, Zenon
<1> QED
  BY <1>3, <1>4, Zenon DEF c2, Channels, Grown

\* A channel is shorter by the message that was taken from its front.
LEMMA Taken ==
  ASSUME NEW c, Channels(c), NEW s \in Hosts, NEW h \in Hosts, c[s][h] # <<>>
  PROVE  /\ Channels(Shortened(c, s, h))
         /\ Shrunk(c, Shortened(c, s, h), s, h)
<1> DEFINE c2 == Shortened(c, s, h)
<1>1. \A g, d \in Hosts : c2[g][d] = IF g = s /\ d = h THEN Tail(c[g][d]) ELSE c[g][d]
  BY Zenon DEF Shortened, Channels
<1> DEFINE q == c[s][h]
<1>2. q \in Seq(Message) /\ q # <<>> /\ Increasing(q)
  BY Zenon DEF Channels
<1> HIDE DEF q
<1>3. /\ Head(q) \in Elements(q) /\ Head(q) \in Message
      /\ Tail(q) \in Seq(Message)
      /\ Elements(q) = {Head(q)} \cup Elements(Tail(q))
      /\ \A x \in Elements(Tail(q)) : Head(q).at < x.at
      /\ Increasing(Tail(q))
  BY <1>2, TakeFront, Zenon
<1>4. c2[s][h] = Tail(q)
  BY <1>1, Zenon DEF q
<1>5. c2 \in [Hosts -> [Hosts -> Seq(Message)]]
  BY <1>3, Zenon DEF q, Shortened, Channels
<1> HIDE DEF c2
<1>6. ASSUME NEW g \in Hosts, NEW d \in Hosts, ~(g = s /\ d = h) PROVE c2[g][d] = c[g][d]
  BY <1>1, <1>6, Zenon
<1>7. \A g, d \in Hosts : Increasing(c2[g][d])
  BY <1>3, <1>4, <1>6, Zenon DEF Channels
<1> QED
  BY <1>3, <1>4, <1>5, <1>6, <1>7, Zenon DEF q, c2, Channels, Shrunk

\* What a host waits for is at most one message from each host.
LEMMA ExpectedType ==
  ASSUME TypeOK, NEW h \in Hosts, at[h] \in 1..Last, Phased(at[h])
  PROVE  /\ Expected(h) \in 0..N
         /\ ReceivesFrom(h, Op(h)) = {s \in Hosts : Sends(s, h, at[h])}
         /\ IsFiniteSet(ReceivesFrom(h, Op(h)))
<1> DEFINE R == ReceivesFrom(h, Op(h))
<1>1. IsFiniteSet(Hosts) /\ Cardinality(Hosts) = N
  BY PhasesAssumption, FS_Interval DEF Hosts
<1>2. R \in SUBSET Hosts
  BY Zenon DEF ReceivesFrom
<1> HIDE DEF R
<1>3. IsFiniteSet(R) /\ Cardinality(R) <= N
  BY <1>1, <1>2, FS_Subset, Zenon
<1>4. Cardinality(R) \in Nat
  BY <1>3, FS_CardinalityType, Zenon
<1>5. R = {s \in Hosts : Sends(s, h, at[h])}
  BY Zenon DEF R, ReceivesFrom, Sends, Op
<1> QED
  BY <1>3, <1>4, <1>5, PhasesAssumption DEF R, Expected

-----------------------------------------------------------------------------
(* The steps *)

\* The facts about the types that every step needs
LEMMA HostTypes ==
  ASSUME TypeOK, NEW h \in Hosts
  PROVE  /\ at[h] \in 1..(Last + 1) /\ at[h] \in Int /\ Last \in Nat
         /\ pc[h] \in {"begin", "receive"}
         /\ pending[h] \in 0..N
         /\ ~Done(h) => at[h] \in 1..Last
         /\ taken[h] \in SUBSET (Hosts \X (1..Last))
  BY ProgramType DEF TypeOK, Done

\* Begin: what is sent now comes after all that is under way from the sender,
\* and nobody is past this operation.
LEMMA BeginKeepsInv ==
  ASSUME Inv, NEW h \in Hosts, Begin(h)
  PROVE  Inv'
<1> DEFINE i == at[h]
           dests == SendsTo(h, Op(h))
           m == [tag |-> evilPhase[h], at |-> at[h]]
<1>1. TypeOK /\ Local /\ Messages /\ Ordered /\ Kept /\ Behind /\ Counted /\ Met
  BY Zenon DEF Inv, Local
<1>2. i \in 1..Last /\ Phased(i) /\ pc[h] = "begin" /\ taken[h] = {} /\ Last \in Nat
  BY <1>1, HostTypes, Zenon DEF Begin, Local
<1>3. /\ at' = at /\ taken' = taken /\ evilPhase' = evilPhase
      /\ pc' = [pc EXCEPT ![h] = "receive"]
      /\ pending' = [pending EXCEPT ![h] = Expected(h)]
      /\ SendAll(h, dests, evilPhase[h])
  BY Zenon DEF Begin
<1>4. \A g \in Hosts : at[g] \in Int /\ pc[g] \in {"begin", "receive"}
  BY <1>1, HostTypes, Zenon
<1>5. \A g \in Hosts : pc'[g] = IF g = h THEN "receive" ELSE pc[g]
  BY <1>1, <1>3, Zenon DEF TypeOK
<1>6. \A g \in Hosts : \A k \in Int : Begun(g, k)' <=> Begun(g, k) \/ (g = h /\ k = i)
  BY <1>2, <1>3, <1>4, <1>5, Zenon DEF Begun
<1>7. \A g, s \in Hosts : \A k \in Int : Received(g, s, k)' <=> Received(g, s, k)
  BY <1>3, Zenon DEF Received
<1>8. evilPhase[h] \in Tag /\ evilPhase[h] # 0 /\ evilPhase[h] = PhaseAt[i]
  BY <1>1, Zenon DEF Local, TypeOK
<1>9. dests \in SUBSET Hosts
  BY Zenon DEF SendsTo
<1>10. \A d \in Hosts : \A x \in InChan(h, d) : x.at < i
  <2> TAKE d \in Hosts
  <2> TAKE x \in InChan(h, d)
  <2>1. x.at \in 1..Last
    BY <1>1, InChanTypes, Zenon
  <2> QED
    BY <1>1, <1>2, <2>1, Zenon DEF Messages, Begun
<1>11. /\ chan' \in [Hosts -> [Hosts -> Seq(Message)]]
       /\ Ordered'
       /\ \A s, d \in Hosts : InChan(s, d)' =
            IF s = h /\ d \in dests THEN InChan(s, d) \cup {m} ELSE InChan(s, d)
  <2>1. m \in Message
    BY <1>2, <1>8, Zenon DEF Message
  <2>2. \A d \in Hosts : Precedes(chan[h][d], m)
    BY <1>10, Zenon DEF InChan, Precedes
  <2>3. chan' = Extended(chan, h, dests, m)
    BY <1>3, Zenon DEF SendAll, Extended
  <2>4. Channels(chan)
    BY <1>1, Zenon DEF TypeOK, Message, Ordered, Channels
  <2> HIDE DEF dests, m
  <2>5. Channels(Extended(chan, h, dests, m))
    BY <2>1, <2>2, <2>4, <1>9, Sent, Zenon
  <2>6. Grown(chan, Extended(chan, h, dests, m), h, dests, m)
    BY <2>1, <2>2, <2>4, <1>9, Sent, Zenon
  <2> QED
    BY <2>3, <2>5, <2>6, Zenon DEF InChan, Ordered, Channels, Grown
<1>12. \A d \in Hosts : d \in dests <=> Sends(h, d, i)
  BY <1>2, Zenon DEF Sends, Op
<1>13. m.tag = PhaseAt[i] /\ m.tag # 0 /\ m.at = i
  BY <1>8, Zenon
<1> HIDE DEF dests, m, i
<1>14. Expected(h) \in 0..N
  BY <1>1, <1>2, ExpectedType, Zenon DEF i
<1>15. Local'
  <2>1. TypeOK'
    BY <1>1, <1>3, <1>11, <1>14, Zenon DEF TypeOK, Message
  <2>2. \A g \in Hosts : g # h => pending'[g] = pending[g]
    BY <1>1, <1>3, Zenon DEF TypeOK
  <2> QED
    BY <2>1, <2>2, <1>1, <1>2, <1>3, <1>5 DEF Local, i, Phased
<1>16. Messages'
  <2>1. ASSUME NEW s \in Hosts, NEW d \in Hosts, NEW x \in InChan(s, d)'
        PROVE  \/ x.tag = 0 /\ Operations[x.at] = "message" /\ at[s] > x.at /\ s # d
               \/ x.tag = PhaseAt[x.at] /\ Sends(s, d, x.at) /\ Begun(s, x.at)'
    <3>1. CASE x \in InChan(s, d)
      <4>1. x.at \in Int
        BY <1>1, <3>1, InChanTypes, Zenon
      <4> QED
        BY <3>1, <4>1, <1>1, <1>6, Zenon DEF Messages
    <3>2. CASE x \notin InChan(s, d)
      <4>1. s = h /\ d \in dests /\ x = m
        BY <3>2, <1>11, Zenon
      <4> QED
        BY <4>1, <1>2, <1>6, <1>12, <1>13
    <3> QED
      BY <3>1, <3>2, Zenon
  <2> QED
    BY <2>1, <1>3, Zenon DEF Messages
<1>17. Kept'
  <2>1. ASSUME NEW s \in Hosts, NEW d \in Hosts, NEW k \in 1..Last, Sends(s, d, k), Begun(s, k)'
        PROVE  Received(d, s, k)' \/ \E x \in InChan(s, d)' : x.tag # 0 /\ x.at = k
    <3>1. CASE Begun(s, k)
      <4>1. Received(d, s, k) \/ \E x \in InChan(s, d) : x.tag # 0 /\ x.at = k
        BY <3>1, <2>1, <1>1 DEF Kept
      <4>2. InChan(s, d) \subseteq InChan(s, d)'
        BY <1>11, Zenon
      <4> QED
        BY <4>1, <4>2, <1>7
    <3>2. CASE ~Begun(s, k)
      <4>1. s = h /\ k = i
        BY <3>2, <2>1, <1>6
      <4>2. m \in InChan(s, d)'
        BY <4>1, <2>1, <1>11, <1>12, Zenon
      <4> QED
        BY <4>1, <4>2, <1>13, Zenon
    <3> QED
      BY <3>1, <3>2, Zenon
  <2> QED
    BY <2>1 DEF Kept
<1>18. Behind'
  <2>1. ASSUME NEW s \in Hosts, NEW d \in Hosts, NEW x \in InChan(s, d)', NEW k \in (x.at)..Last,
               Sends(s, d, k), Received(d, s, k)
        PROVE  FALSE
    <3>1. CASE x \in InChan(s, d)
      BY <3>1, <2>1, <1>1, Zenon DEF Behind
    <3>2. CASE x \notin InChan(s, d)
      <4>1. s = h /\ x = m /\ k \in i..Last /\ k \in 1..Last
        BY <3>2, <1>2, <1>11, <1>13
      <4>2. ~Begun(h, k)
        BY <4>1, <1>2 DEF Begun, i
      <4>3. CASE at[d] > k
        BY <4>1, <4>2, <4>3, <2>1, <1>1, Zenon DEF Met
      <4>4. CASE <<s, k>> \in taken[d]
        <5>1. pc[d] = "receive"
          BY <4>4, <1>1, <1>4, Zenon DEF Local
        <5>2. <<s, k>>[2] = at[d] /\ Begun(<<s, k>>[1], at[d])
          BY <4>4, <5>1, <1>1, Zenon DEF Counted
        <5> QED
          BY <5>2, <4>1, <4>2, Zenon
      <4> QED
        BY <4>3, <4>4, <2>1, Zenon DEF Received
    <3> QED
      BY <3>1, <3>2, Zenon
  <2>2. ASSUME NEW s \in Hosts, NEW d \in Hosts, NEW x \in InChan(s, d)' PROVE x.at \in Int
    BY <1>11, ElementTypes, Zenon DEF InChan
  <2> QED
    BY <2>1, <2>2, <1>7 DEF Behind
<1>19. Counted'
  <2>1. ASSUME NEW g \in Hosts, pc'[g] = "receive"
        PROVE  /\ \A p \in taken[g] : p[2] = at[g] /\ Sends(p[1], g, at[g]) /\ Begun(p[1], at[g])'
               /\ Phased(at[g]) => Cardinality(taken[g]) + pending'[g] = Expected(g)
    <3>1. CASE g = h
      <4>1. pending'[g] = Expected(g) /\ Cardinality(taken[g]) = 0 /\ taken[g] = {}
        BY <3>1, <1>1, <1>2, <1>3, FS_EmptySet, Zenon DEF TypeOK
      <4> QED
        BY <4>1, <3>1, <1>14
    <3>2. CASE g # h
      <4>1. pending'[g] = pending[g] /\ pc[g] = "receive"
        BY <3>2, <2>1, <1>1, <1>3, <1>5, Zenon DEF TypeOK
      <4>2. \A p \in taken[g] : p[1] \in Hosts /\ at[g] \in Int
        BY <1>1, <1>4, HostTypes, Zenon
      <4>3. \A p \in taken[g] : p[2] = at[g] /\ Sends(p[1], g, at[g]) /\ Begun(p[1], at[g])
        BY <4>1, <1>1, Zenon DEF Counted
      <4>4. Phased(at[g]) => Cardinality(taken[g]) + pending[g] = Expected(g)
        BY <4>1, <1>1, Zenon DEF Counted
      <4>5. ASSUME NEW p \in taken[g] PROVE Begun(p[1], at[g])'
        BY <4>2, <4>3, <1>3, <1>4, <1>5, Zenon DEF Begun
      <4> QED
        BY <4>1, <4>3, <4>4, <4>5, Zenon
    <3> QED
      BY <3>1, <3>2, Zenon
  <2>2. \A g \in Hosts : Expected(g)' = Expected(g)
    BY <1>3, Zenon DEF Expected, Op
  <2> QED
    BY <2>1, <2>2, <1>3, Zenon DEF Counted
<1>20. Met'
  BY <1>1, <1>3, <1>6 DEF Met
<1> QED
  BY <1>11, <1>15, <1>16, <1>17, <1>18, <1>19, <1>20, Zenon DEF Inv

\* What a host takes belongs to the operation it is in: a message of a later
\* operation with the same tag would follow one that is still under way, or
\* its sender would have had to meet the host in between.
LEMMA FrontMatches ==
  ASSUME Inv, NEW h \in Hosts, NEW s \in Hosts, NEW f, f = Head(chan[s][h]),
         ~Done(h), pc[h] = "receive", pending[h] > 0, chan[s][h] # <<>>, f.tag = evilPhase[h]
  PROVE  f.at = at[h] /\ Phased(at[h]) /\ Sends(s, h, at[h]) /\ Begun(s, at[h])
<1> DEFINE i == at[h]
<1>1. TypeOK /\ Local /\ Messages /\ Ordered /\ Kept /\ Behind /\ Counted /\ Met
  BY Zenon DEF Inv, Local
<1>2. i \in 1..Last /\ Last \in Nat /\ pending[h] \in Int /\ at[s] \in Int
  BY <1>1, HostTypes
<1>3. Operations[i] \in Names /\ Operations[i] # "message" /\ Operations[i] # "allreduce"
  BY <1>1, <1>2, ProgramType DEF Local
<1>4. Phased(i)
  BY <1>3, Zenon DEF Phased, Names
<1>5. evilPhase[h] = PhaseAt[i] /\ evilPhase[h] # 0
  BY <1>1, Zenon DEF Local, TypeOK
<1>6. Channels(chan)
  BY <1>1, Zenon DEF TypeOK, Message, Ordered, Channels
<1>7. Shrunk(chan, Shortened(chan, s, h), s, h)
  BY <1>6, Taken, Zenon
<1>8. f \in InChan(s, h) /\ \A x \in InChan(s, h) : x = f \/ f.at < x.at
  BY <1>7, Zenon DEF Shrunk, InChan
<1> DEFINE j == f.at
<1>9. j \in 1..Last
  BY <1>1, <1>8, InChanTypes, Zenon
<1>10. f.tag = PhaseAt[j] /\ Sends(s, h, j) /\ Begun(s, j)
  BY <1>1, <1>5, <1>8, Zenon DEF Messages
<1> HIDE DEF i, j
<1>11. j >= i
  <2>1. ~Received(h, s, j)
    BY <1>1, <1>8, <1>9, <1>10, SMTT(60) DEF Behind, j
  <2> QED
    BY <2>1, <1>2, <1>9 DEF Received, i
<1>12. ASSUME j > i PROVE FALSE
  <2>1. i \in 1..(j - 1) /\ PhaseAt[i] = PhaseAt[j]
    BY <1>2, <1>5, <1>9, <1>10, <1>12
  <2>2. PICK k \in (i + 1)..(j - 1) :
          Sends(s, h, k) \/ Sends(h, s, k) \/ Operations[k] = "allreduce"
    BY <2>1, <1>4, <1>9, <1>10, ReuseAssumption, Zenon
  <2>3. k \in 1..Last /\ k > i /\ k < j
    BY <2>2, <1>2, <1>9
  <2>4. at[s] >= j /\ at[s] > k
    BY <2>3, <1>2, <1>9, <1>10 DEF Begun
  <2>5. ~Begun(h, k)
    BY <2>3, <1>2 DEF Begun, i
  <2>6. CASE Sends(s, h, k)
    <3>1. Begun(s, k)
      BY <2>4, Zenon DEF Begun
    <3>2. ~Received(h, s, k)
      <4>1. ~(at[h] > k)
        BY <2>3, <1>2 DEF i
      <4>2. ASSUME <<s, k>> \in taken[h] PROVE FALSE
        <5>1. <<s, k>>[2] = at[h]
          BY <4>2, <1>1, Zenon DEF Counted
        <5> QED
          BY <5>1, <2>3, <1>2 DEF i
      <4> QED
        BY <4>1, <4>2, Zenon DEF Received
    <3>3. PICK x \in InChan(s, h) : x.at = k
      BY <3>1, <3>2, <2>3, <2>6, <1>1 DEF Kept
    <3> QED
      BY <3>3, <2>3, <1>8, <1>9 DEF j
  <2>7. CASE Sends(h, s, k) \/ Operations[k] = "allreduce"
    BY <2>3, <2>4, <2>5, <2>7, <1>1, Zenon DEF Met
  <2> QED
    BY <2>2, <2>6, <2>7, Zenon
<1>13. j = i
  BY <1>2, <1>9, <1>11, <1>12
<1> QED
  BY <1>4, <1>10, <1>13, Zenon DEF i, j

\* recieveTagged
LEMMA RecieveNextKeepsInv ==
  ASSUME Inv, NEW h \in Hosts, NEW s \in Hosts, RecieveNext(h, s)
  PROVE  Inv'
<1> DEFINE i == at[h]
           f == Head(chan[s][h])
<1>1. TypeOK /\ Local /\ Messages /\ Ordered /\ Kept /\ Behind /\ Counted /\ Met
  BY Zenon DEF Inv, Local
<1>2. /\ ~Done(h) /\ pc[h] = "receive" /\ pending[h] > 0 /\ chan[s][h] # <<>> /\ f.tag = evilPhase[h]
      /\ taken' = [taken EXCEPT ![h] = taken[h] \union {<<s, f.at>>}]
      /\ chan' = Shortened(chan, s, h)
      /\ pending' = [pending EXCEPT ![h] = pending[h] - 1]
      /\ at' = at /\ pc' = pc /\ evilPhase' = evilPhase
  BY Zenon DEF RecieveNext, Shortened
<1>3. f.at = i /\ Phased(i) /\ Sends(s, h, i) /\ Begun(s, i)
  <2> HIDE DEF f
  <2>1. f = Head(chan[s][h])
    BY Zenon DEF f
  <2> QED
    BY <2>1, <1>2, FrontMatches, Zenon
<1>4. i \in 1..Last /\ Last \in Nat /\ pending[h] \in 0..N /\ N \in Nat
  BY <1>1, <1>2, HostTypes, PhasesAssumption, Zenon
<1>5. Channels(chan)
  BY <1>1, Zenon DEF TypeOK, Message, Ordered, Channels
<1>6. Channels(chan') /\ Shrunk(chan, chan', s, h)
  BY <1>2, <1>5, Taken, Zenon
<1>7. /\ chan' \in [Hosts -> [Hosts -> Seq(Message)]]
      /\ Ordered'
      /\ InChan(s, h) = {f} \cup InChan(s, h)'
      /\ \A x \in InChan(s, h)' : i < x.at
      /\ \A g, d \in Hosts : ~(g = s /\ d = h) => InChan(g, d)' = InChan(g, d)
  BY <1>3, <1>6, Zenon DEF Channels, Ordered, Shrunk, InChan
<1>8. \A g \in Hosts :
        /\ taken'[g] = IF g = h THEN taken[h] \cup {<<s, i>>} ELSE taken[g]
        /\ pending'[g] = IF g = h THEN pending[h] - 1 ELSE pending[g]
  BY <1>1, <1>2, <1>3, Zenon DEF TypeOK
<1> HIDE DEF f
<1>9. \A g, d \in Hosts : InChan(g, d)' \subseteq InChan(g, d)
  BY <1>7, Zenon
<1>10. \A g \in Hosts : \A k \in Int : Begun(g, k)' <=> Begun(g, k)
  BY <1>2, Zenon DEF Begun
<1>11. \A d, g \in Hosts : \A k \in Int :
         Received(d, g, k)' <=> Received(d, g, k) \/ (d = h /\ g = s /\ k = i)
  BY <1>2, <1>8 DEF Received
<1> HIDE DEF i
<1>12. <<s, i>> \notin taken[h]
  <2>1. f \in InChan(s, h) /\ i \in (f.at)..Last
    BY <1>3, <1>4, <1>7
  <2>2. ~Received(h, s, i)
    BY <2>1, <1>1, <1>3, Zenon DEF Behind
  <2> QED
    BY <2>2, Zenon DEF Received
<1>13. Local'
  <2>1. TypeOK'
    <3>1. taken[h] \cup {<<s, i>>} \in SUBSET (Hosts \X (1..Last))
      BY <1>1, <1>4, HostTypes
    <3>2. taken' \in [Hosts -> SUBSET (Hosts \X (1..Last))]
      BY <3>1, <1>1, <1>2, <1>3, Zenon DEF TypeOK
    <3>3. pending[h] - 1 \in 0..N
      BY <1>2, <1>4
    <3>4. pending' \in [Hosts -> 0..N]
      BY <3>3, <1>1, <1>2, Zenon DEF TypeOK
    <3> QED
      BY <3>2, <3>4, <1>1, <1>2, <1>7, Zenon DEF TypeOK, Message
  <2>2. Operations[i] # "allreduce"
    BY <1>3, Zenon DEF Phased
  <2> QED
    BY <2>1, <2>2, <1>1, <1>2, <1>8 DEF Local, i
<1>14. Messages'
  <2>1. ASSUME NEW g \in Hosts, NEW d \in Hosts, NEW x \in InChan(g, d)'
        PROVE  \/ x.tag = 0 /\ Operations[x.at] = "message" /\ at[g] > x.at /\ g # d
               \/ x.tag = PhaseAt[x.at] /\ Sends(g, d, x.at) /\ Begun(g, x.at)'
    <3>1. x \in InChan(g, d) /\ x.at \in Int
      BY <1>1, <1>9, InChanTypes, Zenon
    <3> QED
      BY <3>1, <1>1, <1>10, Zenon DEF Messages
  <2> QED
    BY <2>1, <1>2, Zenon DEF Messages
<1>15. Kept'
  <2>1. ASSUME NEW g \in Hosts, NEW d \in Hosts, NEW k \in 1..Last, Sends(g, d, k), Begun(g, k)'
        PROVE  Received(d, g, k)' \/ \E x \in InChan(g, d)' : x.tag # 0 /\ x.at = k
    <3>1. Received(d, g, k) \/ \E x \in InChan(g, d) : x.tag # 0 /\ x.at = k
      BY <2>1, <1>1, <1>10 DEF Kept
    <3>2. CASE Received(d, g, k)
      BY <3>2, <1>11
    <3>3. ASSUME NEW x \in InChan(g, d), x.tag # 0, x.at = k
          PROVE  Received(d, g, k)' \/ \E y \in InChan(g, d)' : y.tag # 0 /\ y.at = k
      <4>1. CASE x \in InChan(g, d)'
        BY <4>1, <3>3, Zenon
      <4>2. CASE x \notin InChan(g, d)'
        <5>1. g = s /\ d = h /\ x = f
          BY <4>2, <1>7, Zenon
        <5> QED
          BY <5>1, <3>3, <1>3, <1>11
      <4> QED
        BY <4>1, <4>2, Zenon
    <3> QED
      BY <3>1, <3>2, <3>3, Zenon
  <2> QED
    BY <2>1 DEF Kept
<1>16. Behind'
  <2>1. ASSUME NEW g \in Hosts, NEW d \in Hosts, NEW x \in InChan(g, d)', NEW k \in (x.at)..Last,
               Sends(g, d, k), Received(d, g, k)'
        PROVE  FALSE
    <3>1. x \in InChan(g, d) /\ x.at \in Int
      BY <1>1, <1>9, InChanTypes, Zenon
    <3>2. ~Received(d, g, k)
      BY <3>1, <2>1, <1>1, Zenon DEF Behind
    <3>3. d = h /\ g = s /\ k = i
      BY <3>1, <3>2, <2>1, <1>11
    <3> QED
      BY <3>1, <3>3, <1>4, <1>7
  <2> QED
    BY <2>1, Zenon DEF Behind
<1>17. Counted'
  <2>1. ASSUME NEW g \in Hosts, pc'[g] = "receive"
        PROVE  /\ \A p \in taken'[g] : p[2] = at[g] /\ Sends(p[1], g, at[g]) /\ Begun(p[1], at[g])
               /\ Phased(at[g]) => Cardinality(taken'[g]) + pending'[g] = Expected(g)
    <3>1. pc[g] = "receive"
      BY <2>1, <1>2, Zenon
    <3>2. /\ \A p \in taken[g] : p[2] = at[g] /\ Sends(p[1], g, at[g]) /\ Begun(p[1], at[g])
          /\ Phased(at[g]) => Cardinality(taken[g]) + pending[g] = Expected(g)
      BY <3>1, <1>1, Zenon DEF Counted
    <3>3. CASE g # h
      BY <3>2, <3>3, <1>8, Zenon
    <3>4. CASE g = h
      <4>1. \A p \in taken'[g] : p \in taken[h] \/ p = <<s, i>>
        BY <3>4, <1>8, Zenon
      <4>2. \A p \in taken'[g] : p[2] = at[g] /\ Sends(p[1], g, at[g]) /\ Begun(p[1], at[g])
        BY <4>1, <3>2, <3>4, <1>3 DEF i
      <4>3. IsFiniteSet(taken[h])
        <5>1. IsFiniteSet(Hosts)
          BY <1>4, FS_Interval DEF Hosts
        <5>2. IsFiniteSet(1..Last)
          BY <1>4, FS_Interval
        <5>3. IsFiniteSet(Hosts \X (1..Last))
          BY <5>1, <5>2, FS_Product, Zenon
        <5> QED
          BY <5>3, <1>1, HostTypes, FS_Subset, Zenon
      <4>4. Cardinality(taken'[g]) = Cardinality(taken[h]) + 1
        BY <4>3, <3>4, <1>8, <1>12, FS_AddElement, Zenon
      <4>5. Cardinality(taken[h]) \in Nat
        BY <4>3, FS_CardinalityType, Zenon
      <4>6. pending'[g] = pending[h] - 1
        BY <3>4, <1>8, Zenon
      <4> QED
        BY <4>2, <4>4, <4>5, <4>6, <3>2, <3>4, <1>4
    <3> QED
      BY <3>3, <3>4, Zenon
  <2>2. \A g \in Hosts : Expected(g)' = Expected(g)
    BY <1>2, Zenon DEF Expected, Op
  <2>3. \A g \in Hosts : \A p \in taken'[g] : Begun(p[1], at[g]) => Begun(p[1], at[g])'
    BY <1>2, Zenon DEF Begun
  <2> QED
    BY <2>1, <2>2, <2>3, <1>2, Zenon DEF Counted
<1>18. Met'
  BY <1>1, <1>2, <1>10 DEF Met
<1> QED
  BY <1>7, <1>13, <1>14, <1>15, <1>16, <1>17, <1>18, Zenon DEF Inv

\* handleReceives: only an active message leaves the channel.
LEMMA HandleReceivesKeepsInv ==
  ASSUME Inv, NEW h \in Hosts, HandleReceives(h)
  PROVE  Inv'
<1>1. TypeOK /\ Local /\ Messages /\ Ordered /\ Kept /\ Behind /\ Counted /\ Met
  BY Zenon DEF Inv, Local
<1>2. PICK s \in Hosts : /\ chan[s][h] # <<>> /\ Head(chan[s][h]).tag = 0
                       /\ chan' = Shortened(chan, s, h)
  BY Zenon DEF HandleReceives, Shortened
<1>3. at' = at /\ pc' = pc /\ evilPhase' = evilPhase /\ pending' = pending /\ taken' = taken
  BY Zenon DEF HandleReceives
<1>4. Channels(chan)
  BY <1>1, Zenon DEF TypeOK, Message, Ordered, Channels
<1>5. Channels(chan') /\ Shrunk(chan, chan', s, h)
  BY <1>2, <1>4, Taken, Zenon
<1>6. /\ chan' \in [Hosts -> [Hosts -> Seq(Message)]]
      /\ Ordered'
      /\ \A g, d \in Hosts : InChan(g, d)' \subseteq InChan(g, d)
      /\ \A g, d \in Hosts : \A x \in InChan(g, d) : x.tag # 0 => x \in InChan(g, d)'
  BY <1>2, <1>5, Zenon DEF Channels, Ordered, Shrunk, InChan
<1>7. \A g \in Hosts : \A k \in Int : Begun(g, k)' <=> Begun(g, k)
  BY <1>3, Zenon DEF Begun
<1>8. \A d, g \in Hosts : \A k \in Int : Received(d, g, k)' <=> Received(d, g, k)
  BY <1>3, Zenon DEF Received
<1>9. Local'
  <2>1. TypeOK'
    BY <1>1, <1>3, <1>6, Zenon DEF TypeOK, Message
  <2> QED
    BY <2>1, <1>1, <1>3, Zenon DEF Local
<1>10. Messages'
  <2>1. ASSUME NEW g \in Hosts, NEW d \in Hosts, NEW x \in InChan(g, d)'
        PROVE  \/ x.tag = 0 /\ Operations[x.at] = "message" /\ at[g] > x.at /\ g # d
               \/ x.tag = PhaseAt[x.at] /\ Sends(g, d, x.at) /\ Begun(g, x.at)'
    <3>1. x \in InChan(g, d) /\ x.at \in Int
      BY <1>1, <1>6, InChanTypes, Zenon
    <3> QED
      BY <3>1, <1>1, <1>7, Zenon DEF Messages
  <2> QED
    BY <2>1, <1>3, Zenon DEF Messages
<1>11. Kept'
  <2>1. ASSUME NEW g \in Hosts, NEW d \in Hosts, NEW k \in 1..Last, Sends(g, d, k), Begun(g, k)'
        PROVE  Received(d, g, k)' \/ \E x \in InChan(g, d)' : x.tag # 0 /\ x.at = k
    <3>1. Received(d, g, k) \/ \E x \in InChan(g, d) : x.tag # 0 /\ x.at = k
      BY <2>1, <1>1, <1>7 DEF Kept
    <3> QED
      BY <3>1, <1>6, <1>8
  <2> QED
    BY <2>1 DEF Kept
<1>12. Behind'
  <2>1. ASSUME NEW g \in Hosts, NEW d \in Hosts, NEW x \in InChan(g, d)', NEW k \in (x.at)..Last,
               Sends(g, d, k), Received(d, g, k)'
        PROVE  FALSE
    <3>1. x \in InChan(g, d) /\ x.at \in Int
      BY <1>1, <1>6, InChanTypes, Zenon
    <3> QED
      BY <3>1, <2>1, <1>1, <1>8 DEF Behind
  <2> QED
    BY <2>1, Zenon DEF Behind
<1>13. Counted'
  BY <1>1, <1>3, Zenon DEF Counted, Expected, Op, Begun
<1>14. Met'
  BY <1>1, <1>3, <1>7 DEF Met
<1> QED
  BY <1>6, <1>9, <1>10, <1>11, <1>12, <1>13, <1>14, Zenon DEF Inv

\* A host leaves an operation in which it has all it waited for.
LEMMA AdvanceKeepsInv ==
  ASSUME Inv, NEW h \in Hosts, at[h] \in 1..Last, pc[h] = "receive", pending[h] = 0,
         Advance(h), UNCHANGED <<pending, chan>>,
         evilPhase' = [evilPhase EXCEPT ![h] = PhaseAt[at[h] + 1]],
         \A g \in Hosts : Sends(g, h, at[h]) => <<g, at[h]>> \in taken[h],
         \A g \in Hosts : Sends(g, h, at[h]) \/ Operations[at[h]] = "allreduce" => Begun(g, at[h])
  PROVE  Inv'
<1> DEFINE i == at[h]
<1>1. TypeOK /\ Local /\ Messages /\ Ordered /\ Kept /\ Behind /\ Counted /\ Met
  BY Zenon DEF Inv, Local
<1>2. Last \in Nat /\ i \in 1..Last /\ \A g \in Hosts : at[g] \in Int
  BY <1>1, HostTypes, Zenon
<1>3. /\ at'[h] = i + 1 /\ pc'[h] = "begin" /\ taken'[h] = {} /\ evilPhase'[h] = PhaseAt[i + 1]
      /\ \A g \in Hosts \ {h} : /\ at'[g] = at[g] /\ pc'[g] = pc[g]
                              /\ taken'[g] = taken[g] /\ evilPhase'[g] = evilPhase[g]
  BY <1>1, Zenon DEF TypeOK, Advance
<1>4. \A g \in Hosts : \A k \in Int : Begun(g, k)' <=> Begun(g, k)
  BY <1>2, <1>3 DEF Begun
<1>5. \A g \in Hosts : \A k \in Int : <<g, k>> \in taken[h] => k = i
  <2>1. \A p \in taken[h] : p[2] = i
    BY <1>1, Zenon DEF Counted
  <2> QED
    BY <2>1, Zenon
<1>6. \A d, g \in Hosts : \A k \in Int :
        Received(d, g, k)' <=> Received(d, g, k) \/ (d = h /\ k = i)
  <2> TAKE d, g \in Hosts
  <2> TAKE k \in Int
  <2>1. CASE d # h
    BY <2>1, <1>3, Zenon DEF Received
  <2>2. CASE d = h
    <3>1. Received(h, g, k)' <=> i + 1 > k
      BY <1>3, Zenon DEF Received
    <3>2. Received(h, g, k) => i + 1 > k
      BY <1>2, <1>5 DEF Received
    <3> QED
      BY <2>2, <3>1, <3>2, <1>2 DEF Received
  <2> QED
    BY <2>1, <2>2, Zenon
<1>7. \A g, d \in Hosts : InChan(g, d)' = InChan(g, d)
  BY Zenon DEF InChan
<1> HIDE DEF i
<1>8. Local'
  <2>1. TypeOK'
    <3>1. PhaseAt[i + 1] \in Tag \ {0} /\ i + 1 \in 1..(Last + 1)
      BY <1>2, PhaseAtNext
    <3>2. at' \in [Hosts -> 1..(Last + 1)] /\ pc' \in [Hosts -> {"begin", "receive"}]
      BY <3>1, <1>1, Zenon DEF TypeOK, Advance, i
    <3>3. evilPhase' \in [Hosts -> Tag \ {0}]
      BY <3>1, <1>1, Zenon DEF TypeOK, i
    <3>4. taken' \in [Hosts -> SUBSET (Hosts \X (1..Last))]
      BY <1>1, Zenon DEF TypeOK, Advance
    <3> QED
      BY <3>2, <3>3, <3>4, <1>1, Zenon DEF TypeOK
  <2>2. ASSUME NEW g \in Hosts
        PROVE  /\ evilPhase'[g] = PhaseAt[at'[g]]
               /\ pc'[g] = "receive" => at'[g] <= Last /\ Operations[at'[g]] # "message"
               /\ pc'[g] = "begin" => taken'[g] = {} /\ pending[g] = 0
               /\ pc'[g] = "receive" /\ Operations[at'[g]] = "allreduce" =>
                     taken'[g] = {} /\ pending[g] = 0
    <3>1. CASE g = h
      BY <3>1, <1>3, Zenon
    <3>2. CASE g # h
      BY <3>2, <1>1, <1>3, SMTT(60) DEF Local
    <3> QED
      BY <3>1, <3>2, Zenon
  <2> QED
    BY <2>1, <2>2, Zenon DEF Local
<1>9. Messages'
  <2>1. ASSUME NEW g \in Hosts, NEW d \in Hosts, NEW x \in InChan(g, d)
        PROVE  \/ x.tag = 0 /\ Operations[x.at] = "message" /\ at'[g] > x.at /\ g # d
               \/ x.tag = PhaseAt[x.at] /\ Sends(g, d, x.at) /\ Begun(g, x.at)'
    <3>1. x.at \in Int
      BY <1>1, InChanTypes, Zenon
    <3>2. \/ x.tag = 0 /\ Operations[x.at] = "message" /\ at[g] > x.at /\ g # d
          \/ x.tag = PhaseAt[x.at] /\ Sends(g, d, x.at) /\ Begun(g, x.at)
      BY <1>1, Zenon DEF Messages
    <3>3. at'[g] >= at[g] /\ at'[g] \in Int /\ at[g] \in Int
      BY <1>2, <1>3 DEF i
    <3> QED
      BY <3>1, <3>2, <3>3, <1>4, SMTT(60)
  <2> QED
    BY <2>1, <1>7, Zenon DEF Messages
<1>10. Ordered'
  BY <1>1, Zenon DEF Ordered
<1>11. Kept'
  <2>1. ASSUME NEW g \in Hosts, NEW d \in Hosts, NEW k \in 1..Last, Sends(g, d, k), Begun(g, k)'
        PROVE  Received(d, g, k)' \/ \E x \in InChan(g, d)' : x.tag # 0 /\ x.at = k
    <3>1. Received(d, g, k) \/ \E x \in InChan(g, d) : x.tag # 0 /\ x.at = k
      BY <2>1, <1>1, <1>4, SMTT(60) DEF Kept
    <3> QED
      BY <3>1, <1>6, <1>7
  <2> QED
    BY <2>1 DEF Kept
<1>12. Behind'
  <2>1. ASSUME NEW g \in Hosts, NEW d \in Hosts, NEW x \in InChan(g, d), NEW k \in (x.at)..Last,
               Sends(g, d, k), Received(d, g, k)'
        PROVE  FALSE
    <3>1. x.at \in Int
      BY <1>1, InChanTypes, Zenon
    <3>2. ~Received(d, g, k)
      BY <2>1, <1>1, Zenon DEF Behind
    <3>3. d = h /\ k = i
      BY <3>1, <3>2, <2>1, <1>6
    <3>4. <<g, k>> \in taken[d]
      BY <3>3, <2>1, Zenon DEF i
    <3> QED
      BY <3>2, <3>4, Zenon DEF Received
  <2> QED
    BY <2>1, <1>7, Zenon DEF Behind
<1>13. Counted'
  <2>1. ASSUME NEW g \in Hosts, pc'[g] = "receive"
        PROVE  /\ \A p \in taken'[g] :
                     p[2] = at'[g] /\ Sends(p[1], g, at'[g]) /\ Begun(p[1], at[g])'
               /\ Phased(at'[g]) => Cardinality(taken'[g]) + pending[g] = Expected(g)'
    <3>1. g # h /\ at'[g] = at[g] /\ taken'[g] = taken[g] /\ pc[g] = "receive"
      BY <2>1, <1>3, Zenon
    <3>2. Expected(g)' = Expected(g)
      BY <3>1, Zenon DEF Expected, Op
    <3>3. /\ \A p \in taken[g] : p[2] = at[g] /\ Sends(p[1], g, at[g]) /\ Begun(p[1], at[g])
          /\ Phased(at[g]) => Cardinality(taken[g]) + pending[g] = Expected(g)
      BY <3>1, <1>1, Zenon DEF Counted
    <3>4. ASSUME NEW p \in taken[g] PROVE Begun(p[1], at[g])'
      <4>1. p[1] \in Hosts /\ at[g] \in Int
        BY <1>1, <1>2, HostTypes, Zenon
      <4>2. PICK k \in Int : k = at[g]
        BY <4>1, Zenon
      <4>3. Begun(p[1], k)'
        BY <4>1, <4>2, <3>3, <1>4, Zenon
      <4> QED
        BY <4>2, <4>3, <3>1, Zenon DEF Begun
    <3> QED
      BY <3>1, <3>2, <3>3, <3>4, Zenon
  <2> QED
    BY <2>1, Zenon DEF Counted
<1>14. Met'
  <2>1. ASSUME NEW g \in Hosts, NEW d \in Hosts, NEW k \in 1..Last, at'[d] > k,
               Sends(g, d, k) \/ Operations[k] = "allreduce"
        PROVE  Begun(g, k)'
    <3>1. CASE at[d] > k
      BY <3>1, <2>1, <1>1, <1>4 DEF Met
    <3>2. CASE ~(at[d] > k)
      <4>1. d = h /\ k = i
        BY <3>2, <2>1, <1>2, <1>3 DEF i
      <4> QED
        BY <4>1, <2>1, <1>4 DEF i
    <3> QED
      BY <3>1, <3>2, Zenon
  <2> QED
    BY <2>1, Zenon DEF Met
<1> QED
  BY <1>8, <1>9, <1>10, <1>11, <1>12, <1>13, <1>14, Zenon DEF Inv

\* The end of an operation with a phase: one message from each host that sends
\* in it has been taken.
LEMMA EndKeepsInv ==
  ASSUME Inv, NEW h \in Hosts, End(h)
  PROVE  Inv'
<1>1. TypeOK /\ Local /\ Counted
  BY Zenon DEF Inv, Local
<1>2. /\ ~Done(h) /\ pc[h] = "receive" /\ pending[h] = 0 /\ Op(h) # "allreduce" /\ Advance(h)
      /\ evilPhase' = [evilPhase EXCEPT ![h] = NextPhase(evilPhase[h])]
      /\ UNCHANGED <<pending, chan>>
  BY Zenon DEF End, IncrementEvilPhase
<1>3. at[h] \in 1..Last
  BY <1>1, <1>2, HostTypes, Zenon
<1>4. Operations[at[h]] \in Names /\ Operations[at[h]] # "message" /\ Operations[at[h]] # "allreduce"
  BY <1>1, <1>2, <1>3, ProgramType, Zenon DEF Local, Op
<1>5. Phased(at[h])
  BY <1>4, Zenon DEF Phased, Names
<1>6. evilPhase' = [evilPhase EXCEPT ![h] = PhaseAt[at[h] + 1]]
  BY <1>1, <1>2, <1>3, <1>5, PhaseAtNext, Zenon DEF Local
<1> DEFINE R == {s \in Hosts : Sends(s, h, at[h])}
           P == R \X {at[h]}
<1>7. IsFiniteSet(R) /\ Expected(h) = Cardinality(R)
  BY <1>1, <1>3, <1>5, ExpectedType, Zenon DEF Expected
<1>8. IsFiniteSet(P) /\ Cardinality(P) = Cardinality(R)
  <2> HIDE DEF R
  <2>1. IsFiniteSet({at[h]}) /\ Cardinality({at[h]}) = 1
    BY FS_Singleton, Zenon
  <2>2. Cardinality(R) \in Nat
    BY <1>7, FS_CardinalityType, Zenon
  <2>3. IsFiniteSet(P) /\ Cardinality(P) = Cardinality(R) * Cardinality({at[h]})
    BY <2>1, <1>7, FS_Product, Zenon
  <2>4. \A n \in Nat : n * 1 = n
    OBVIOUS
  <2> QED
    BY <2>1, <2>2, <2>3, <2>4, Zenon
<1>9. \A p \in taken[h] : p[2] = at[h] /\ Sends(p[1], h, at[h]) /\ Begun(p[1], at[h])
  BY <1>1, <1>2, Zenon DEF Counted
<1>10. taken[h] \in SUBSET P
  <2>1. \A p \in taken[h] : p = <<p[1], p[2]>> /\ p[1] \in Hosts
    BY <1>1, HostTypes
  <2> QED
    BY <2>1, <1>9
<1>11. taken[h] = P
  <2>1. Cardinality(taken[h]) + pending[h] = Expected(h)
    BY <1>1, <1>2, <1>5, Zenon DEF Counted
  <2> HIDE DEF P, R
  <2>2. IsFiniteSet(taken[h])
    BY <1>8, <1>10, FS_Subset, Zenon
  <2>3. Cardinality(taken[h]) \in Nat
    BY <2>2, FS_CardinalityType, Zenon
  <2>4. Cardinality(taken[h]) = Cardinality(P)
    BY <2>1, <2>3, <1>2, <1>7, <1>8
  <2> QED
    BY <2>4, <1>8, <1>10, FS_Subset, Zenon
<1>12. \A g \in Hosts : Sends(g, h, at[h]) => <<g, at[h]>> \in taken[h]
  BY <1>11, Zenon
<1>13. \A g \in Hosts : Sends(g, h, at[h]) \/ Operations[at[h]] = "allreduce" => Begun(g, at[h])
  <2> TAKE g \in Hosts
  <2>1. ASSUME Sends(g, h, at[h]) PROVE Begun(g, at[h])
    <3>1. Begun(<<g, at[h]>>[1], at[h])
      BY <2>1, <1>9, <1>12, Zenon
    <3> QED
      BY <3>1, Zenon
  <2> QED
    BY <2>1, <1>4, Zenon
<1> QED
  BY <1>2, <1>3, <1>6, <1>12, <1>13, AdvanceKeepsInv, Zenon

\* The end of an allreduce: everybody has entered it.
LEMMA LeaveAllreduceKeepsInv ==
  ASSUME Inv, NEW h \in Hosts, LeaveAllreduce(h)
  PROVE  Inv'
<1>1. TypeOK /\ Local
  BY Zenon DEF Inv, Local
<1>2. /\ ~Done(h) /\ pc[h] = "receive" /\ Op(h) = "allreduce" /\ Advance(h)
      /\ \A g \in Hosts : ~EntersBefore(h, g)
      /\ evilPhase' = evilPhase
      /\ UNCHANGED <<pending, chan>>
  BY Zenon DEF LeaveAllreduce
<1>3. at[h] \in 1..Last
  BY <1>1, <1>2, HostTypes, Zenon
<1>4. ~Phased(at[h]) /\ Operations[at[h]] = "allreduce"
  BY <1>2, Zenon DEF Phased, Op
<1>5. evilPhase' = [evilPhase EXCEPT ![h] = PhaseAt[at[h] + 1]]
  BY <1>1, <1>2, <1>3, <1>4, PhaseAtNext, Zenon DEF Local, TypeOK
<1>6. \A g \in Hosts : ~Sends(g, h, at[h])
  BY <1>4, Zenon DEF Sends
<1>7. \A g \in Hosts : Begun(g, at[h])
  <2> TAKE g \in Hosts
  <2>1. at[g] \in Int /\ at[h] \in Int /\ pc[g] \in {"begin", "receive"}
    BY <1>1, HostTypes, Zenon
  <2> QED
    BY <2>1, <1>2 DEF EntersBefore, Begun
<1>8. pending[h] = 0
  BY <1>1, <1>2, <1>4, Zenon DEF Local
<1> QED
  BY <1>2, <1>3, <1>5, <1>6, <1>7, <1>8, AdvanceKeepsInv, Zenon

\* A host enters an allreduce.
LEMMA EnterAllreduceKeepsInv ==
  ASSUME Inv, NEW h \in Hosts, EnterAllreduce(h)
  PROVE  Inv'
<1>1. TypeOK /\ Local /\ Messages /\ Ordered /\ Kept /\ Behind /\ Counted /\ Met
  BY Zenon DEF Inv, Local
<1>2. /\ ~Done(h) /\ pc[h] = "begin" /\ Op(h) = "allreduce"
      /\ pc' = [pc EXCEPT ![h] = "receive"]
      /\ at' = at /\ evilPhase' = evilPhase /\ pending' = pending /\ chan' = chan /\ taken' = taken
  BY Zenon DEF EnterAllreduce
<1>3. at[h] \in 1..Last /\ ~Phased(at[h]) /\ Operations[at[h]] = "allreduce"
  BY <1>1, <1>2, HostTypes, Zenon DEF Phased, Op
<1>4. \A g \in Hosts : pc'[g] = IF g = h THEN "receive" ELSE pc[g]
  BY <1>1, <1>2, Zenon DEF TypeOK
<1>5. \A g \in Hosts : at[g] \in Int
  BY <1>1, HostTypes, Zenon
<1>6. \A g \in Hosts : \A k \in Int : Begun(g, k)' <=> Begun(g, k) \/ (g = h /\ k = at[h])
  BY <1>2, <1>4, <1>5, Zenon DEF Begun
<1>7. \A d, g \in Hosts : \A k \in Int : Received(d, g, k)' <=> Received(d, g, k)
  BY <1>2, Zenon DEF Received
<1>8. \A g, d \in Hosts : InChan(g, d)' = InChan(g, d)
  BY <1>2, Zenon DEF InChan
<1>9. Local'
  <2>1. TypeOK'
    BY <1>1, <1>2, Zenon DEF TypeOK
  <2> QED
    BY <2>1, <1>1, <1>2, <1>3, <1>4 DEF Local
<1>10. Messages'
  <2>1. ASSUME NEW g \in Hosts, NEW d \in Hosts, NEW x \in InChan(g, d)
        PROVE  \/ x.tag = 0 /\ Operations[x.at] = "message" /\ at[g] > x.at /\ g # d
               \/ x.tag = PhaseAt[x.at] /\ Sends(g, d, x.at) /\ Begun(g, x.at)'
    <3>1. x.at \in Int
      BY <1>1, InChanTypes, Zenon
    <3> QED
      BY <3>1, <1>1, <1>6 DEF Messages
  <2> QED
    BY <2>1, <1>2, <1>8, Zenon DEF Messages
<1>11. Ordered'
  BY <1>1, <1>2, Zenon DEF Ordered
<1>12. Kept'
  <2>1. ASSUME NEW g \in Hosts, NEW d \in Hosts, NEW k \in 1..Last, Sends(g, d, k), Begun(g, k)'
        PROVE  Received(d, g, k)' \/ \E x \in InChan(g, d)' : x.tag # 0 /\ x.at = k
    <3>1. Begun(g, k)
      BY <2>1, <1>3, <1>6 DEF Sends
    <3>2. Received(d, g, k) \/ \E x \in InChan(g, d) : x.tag # 0 /\ x.at = k
      BY <3>1, <2>1, <1>1 DEF Kept
    <3> QED
      BY <3>2, <1>7, <1>8
  <2> QED
    BY <2>1 DEF Kept
<1>13. Behind'
  <2>1. ASSUME NEW g \in Hosts, NEW d \in Hosts, NEW x \in InChan(g, d), NEW k \in (x.at)..Last,
               Sends(g, d, k), Received(d, g, k)'
        PROVE  FALSE
    <3>1. x.at \in Int
      BY <1>1, InChanTypes, Zenon
    <3> QED
      BY <3>1, <2>1, <1>1, <1>7 DEF Behind
  <2> QED
    BY <2>1, <1>8, Zenon DEF Behind
<1>14. Counted'
  <2>1. ASSUME NEW g \in Hosts, pc'[g] = "receive"
        PROVE  /\ \A p \in taken[g] : p[2] = at[g] /\ Sends(p[1], g, at[g]) /\ Begun(p[1], at[g])
               /\ Phased(at[g]) => Cardinality(taken[g]) + pending[g] = Expected(g)
    <3>1. CASE g = h
      BY <3>1, <1>1, <1>2, <1>3, Zenon DEF Local
    <3>2. CASE g # h
      BY <3>2, <2>1, <1>1, <1>4, Zenon DEF Counted
    <3> QED
      BY <3>1, <3>2, Zenon
  <2>2. \A g \in Hosts : Expected(g)' = Expected(g)
    BY <1>2, Zenon DEF Expected, Op
  <2>3. ASSUME NEW g \in Hosts, NEW p \in taken[g], Begun(p[1], at[g])
        PROVE  Begun(p[1], at[g])'
    <3>1. p[1] \in Hosts
      BY <1>1, HostTypes, Zenon
    <3> QED
      BY <3>1, <2>3, <1>2, <1>4, Zenon DEF Begun
  <2> QED
    BY <2>1, <2>2, <2>3, <1>2, Zenon DEF Counted
<1>15. Met'
  BY <1>1, <1>2, <1>6 DEF Met
<1> QED
  BY <1>9, <1>10, <1>11, <1>12, <1>13, <1>14, <1>15, Zenon DEF Inv

\* sendMsg: an active message comes after all that is under way from the
\* sender, and nobody is past the operations that follow.
LEMMA SendMsgKeepsInv ==
  ASSUME Inv, NEW h \in Hosts, SendMsg(h)
  PROVE  Inv'
<1> DEFINE i == at[h]
           m == [tag |-> 0, at |-> at[h]]
<1>1. TypeOK /\ Local /\ Messages /\ Ordered /\ Kept /\ Behind /\ Counted /\ Met
  BY Zenon DEF Inv, Local
<1>2. PICK dests \in SUBSET (Hosts \ {h}) : SendAll(h, dests, 0)
  BY Zenon DEF SendMsg
<1>3. ~Done(h) /\ Operations[i] = "message" /\ Advance(h) /\ evilPhase' = evilPhase /\ pending' = pending
  BY Zenon DEF SendMsg, Op
<1>4. i \in 1..Last /\ Last \in Nat /\ ~Phased(i) /\ \A g \in Hosts : at[g] \in Int
  BY <1>1, <1>3, HostTypes, Zenon DEF Phased
<1>5. pc[h] = "begin" /\ taken[h] = {} /\ pending[h] = 0
  BY <1>1, <1>3, HostTypes, Zenon DEF Local
<1>6. /\ at'[h] = i + 1 /\ pc'[h] = "begin" /\ taken'[h] = {}
      /\ \A g \in Hosts \ {h} : at'[g] = at[g] /\ pc'[g] = pc[g] /\ taken'[g] = taken[g]
  BY <1>1, <1>3, Zenon DEF TypeOK, Advance
<1>7. \A d \in Hosts : \A x \in InChan(h, d) : x.at < i
  <2> TAKE d \in Hosts
  <2> TAKE x \in InChan(h, d)
  <2>1. x.at \in 1..Last
    BY <1>1, InChanTypes, Zenon
  <2> QED
    BY <1>1, <1>5, <2>1, Zenon DEF Messages, Begun
<1>8. /\ chan' \in [Hosts -> [Hosts -> Seq(Message)]]
      /\ Ordered'
      /\ \A s, d \in Hosts : InChan(s, d)' =
           IF s = h /\ d \in dests THEN InChan(s, d) \cup {m} ELSE InChan(s, d)
  <2>1. m \in Message /\ dests \in SUBSET Hosts
    BY <1>4, PhasesAssumption DEF Message, Tag
  <2>2. \A d \in Hosts : Precedes(chan[h][d], m)
    BY <1>7, Zenon DEF InChan, Precedes
  <2>3. chan' = Extended(chan, h, dests, m)
    BY <1>2, Zenon DEF SendAll, Extended
  <2>4. Channels(chan)
    BY <1>1, Zenon DEF TypeOK, Message, Ordered, Channels
  <2> HIDE DEF m
  <2>5. Channels(Extended(chan, h, dests, m))
    BY <2>1, <2>2, <2>4, Sent, Zenon
  <2>6. Grown(chan, Extended(chan, h, dests, m), h, dests, m)
    BY <2>1, <2>2, <2>4, Sent, Zenon
  <2> QED
    BY <2>3, <2>5, <2>6, Zenon DEF InChan, Ordered, Channels, Grown
<1>9. m.tag = 0 /\ m.at = i
  BY Zenon
<1> HIDE DEF m
<1>10. \A g \in Hosts : \A k \in Int : Begun(g, k)' <=> Begun(g, k) \/ (g = h /\ k = i)
  BY <1>4, <1>5, <1>6 DEF Begun
<1>11. \A d, g \in Hosts : \A k \in Int :
         Received(d, g, k)' <=> Received(d, g, k) \/ (d = h /\ k = i)
  <2> TAKE d, g \in Hosts
  <2> TAKE k \in Int
  <2>1. CASE d # h
    BY <2>1, <1>6, Zenon DEF Received
  <2>2. CASE d = h
    BY <2>2, <1>4, <1>5, <1>6 DEF Received
  <2> QED
    BY <2>1, <2>2, Zenon
<1>12. \A g, d \in Hosts : ~Sends(g, d, i)
  BY <1>4, Zenon DEF Sends
<1> HIDE DEF i
<1>13. Local'
  <2>1. TypeOK'
    <3>1. i + 1 \in 1..(Last + 1)
      BY <1>4
    <3>2. at' \in [Hosts -> 1..(Last + 1)] /\ pc' \in [Hosts -> {"begin", "receive"}]
      BY <3>1, <1>1, <1>3, Zenon DEF TypeOK, Advance, i
    <3>3. taken' \in [Hosts -> SUBSET (Hosts \X (1..Last))]
      BY <1>1, <1>3, Zenon DEF TypeOK, Advance
    <3> QED
      BY <3>2, <3>3, <1>1, <1>3, <1>8, Zenon DEF TypeOK, Message
  <2>2. PhaseAt[i + 1] = PhaseAt[i]
    BY <1>4, PhaseAtNext, Zenon
  <2>3. ASSUME NEW g \in Hosts
        PROVE  /\ evilPhase[g] = PhaseAt[at'[g]]
               /\ pc'[g] = "receive" => at'[g] <= Last /\ Operations[at'[g]] # "message"
               /\ pc'[g] = "begin" => taken'[g] = {} /\ pending[g] = 0
               /\ pc'[g] = "receive" /\ Operations[at'[g]] = "allreduce" =>
                     taken'[g] = {} /\ pending[g] = 0
    <3>1. CASE g = h
      BY <3>1, <2>2, <1>1, <1>5, <1>6, Zenon DEF Local, i
    <3>2. CASE g # h
      BY <3>2, <1>1, <1>6 DEF Local
    <3> QED
      BY <3>1, <3>2, Zenon
  <2> QED
    BY <2>1, <2>3, <1>3, Zenon DEF Local
<1>14. \A g \in Hosts : at'[g] >= at[g] /\ at'[g] \in Int /\ at[g] \in Int
  BY <1>4, <1>6 DEF i
<1>15. Messages'
  <2>1. ASSUME NEW g \in Hosts, NEW d \in Hosts, NEW x \in InChan(g, d)'
        PROVE  \/ x.tag = 0 /\ Operations[x.at] = "message" /\ at'[g] > x.at /\ g # d
               \/ x.tag = PhaseAt[x.at] /\ Sends(g, d, x.at) /\ Begun(g, x.at)'
    <3>1. CASE x \in InChan(g, d)
      <4>1. x.at \in Int
        BY <1>1, <3>1, InChanTypes, Zenon
      <4>2. \/ x.tag = 0 /\ Operations[x.at] = "message" /\ at[g] > x.at /\ g # d
            \/ x.tag = PhaseAt[x.at] /\ Sends(g, d, x.at) /\ Begun(g, x.at)
        BY <3>1, <1>1, Zenon DEF Messages
      <4> QED
        BY <4>1, <4>2, <1>10, <1>14, SMTT(60)
    <3>2. CASE x \notin InChan(g, d)
      <4>1. g = h /\ d # h /\ x = m
        BY <3>2, <1>8, Zenon
      <4> QED
        BY <4>1, <1>3, <1>4, <1>6, <1>9, SMTT(60) DEF i
    <3> QED
      BY <3>1, <3>2, Zenon
  <2> QED
    BY <2>1, Zenon DEF Messages
<1>16. Kept'
  <2>1. ASSUME NEW g \in Hosts, NEW d \in Hosts, NEW k \in 1..Last, Sends(g, d, k), Begun(g, k)'
        PROVE  Received(d, g, k)' \/ \E x \in InChan(g, d)' : x.tag # 0 /\ x.at = k
    <3>1. Begun(g, k)
      BY <2>1, <1>10, <1>12
    <3>2. Received(d, g, k) \/ \E x \in InChan(g, d) : x.tag # 0 /\ x.at = k
      BY <3>1, <2>1, <1>1 DEF Kept
    <3>3. InChan(g, d) \subseteq InChan(g, d)'
      BY <1>8, Zenon
    <3> QED
      BY <3>2, <3>3, <1>11
  <2> QED
    BY <2>1 DEF Kept
<1>17. Behind'
  <2>1. ASSUME NEW g \in Hosts, NEW d \in Hosts, NEW x \in InChan(g, d)', x.at \in Int,
               NEW k \in (x.at)..Last, Sends(g, d, k), Received(d, g, k)'
        PROVE  FALSE
    <3>1. Received(d, g, k) /\ k # i
      BY <2>1, <1>11, <1>12
    <3>2. CASE x \in InChan(g, d)
      BY <3>1, <3>2, <2>1, <1>1, Zenon DEF Behind
    <3>3. CASE x \notin InChan(g, d)
      <4>1. g = h /\ k \in 1..Last /\ k > i
        BY <3>1, <3>3, <2>1, <1>4, <1>8, <1>9
      <4>2. ~Begun(g, k)
        BY <4>1, <1>4 DEF Begun, i
      <4>3. CASE at[d] > k
        BY <4>1, <4>2, <4>3, <2>1, <1>1, Zenon DEF Met
      <4>4. CASE <<g, k>> \in taken[d]
        <5>1. pc[d] = "receive"
          BY <4>4, <1>1, HostTypes, Zenon DEF Local
        <5>2. <<g, k>>[2] = at[d] /\ Begun(<<g, k>>[1], at[d])
          BY <4>4, <5>1, <1>1, Zenon DEF Counted
        <5> QED
          BY <5>2, <4>2, Zenon
      <4> QED
        BY <4>3, <4>4, <3>1, Zenon DEF Received
    <3> QED
      BY <3>2, <3>3, Zenon
  <2>2. ASSUME NEW g \in Hosts, NEW d \in Hosts, NEW x \in InChan(g, d)' PROVE x.at \in Int
    BY <1>8, ElementTypes, Zenon DEF InChan
  <2> QED
    BY <2>1, <2>2, Zenon DEF Behind
<1>18. Counted'
  <2>1. ASSUME NEW g \in Hosts, pc'[g] = "receive"
        PROVE  /\ \A p \in taken'[g] :
                     p[2] = at'[g] /\ Sends(p[1], g, at'[g]) /\ Begun(p[1], at[g])'
               /\ Phased(at'[g]) => Cardinality(taken'[g]) + pending[g] = Expected(g)'
    <3>1. g # h /\ at'[g] = at[g] /\ taken'[g] = taken[g] /\ pc[g] = "receive"
      BY <2>1, <1>6, Zenon
    <3>2. Expected(g)' = Expected(g)
      BY <3>1, Zenon DEF Expected, Op
    <3>3. /\ \A p \in taken[g] : p[2] = at[g] /\ Sends(p[1], g, at[g]) /\ Begun(p[1], at[g])
          /\ Phased(at[g]) => Cardinality(taken[g]) + pending[g] = Expected(g)
      BY <3>1, <1>1, Zenon DEF Counted
    <3>4. ASSUME NEW p \in taken[g] PROVE Begun(p[1], at[g])'
      <4>1. p[1] \in Hosts /\ at[g] \in Int
        BY <1>1, <1>4, HostTypes, Zenon
      <4>2. PICK k \in Int : k = at[g]
        BY <4>1, Zenon
      <4>3. Begun(p[1], k)'
        BY <4>1, <4>2, <3>3, <1>10, Zenon
      <4> QED
        BY <4>2, <4>3, <3>1, Zenon DEF Begun
    <3> QED
      BY <3>1, <3>2, <3>3, <3>4, Zenon
  <2> QED
    BY <2>1, <1>3, Zenon DEF Counted
<1>19. Met'
  <2>1. ASSUME NEW g \in Hosts, NEW d \in Hosts, NEW k \in 1..Last, at'[d] > k,
               Sends(g, d, k) \/ Operations[k] = "allreduce"
        PROVE  Begun(g, k)'
    <3>1. k # i
      BY <2>1, <1>3, <1>12, Zenon
    <3>2. at[d] > k
      BY <3>1, <2>1, <1>4, <1>6 DEF i
    <3> QED
      BY <3>2, <2>1, <1>1, <1>10 DEF Met
  <2> QED
    BY <2>1, Zenon DEF Met
<1> QED
  BY <1>8, <1>13, <1>15, <1>16, <1>17, <1>18, <1>19, Zenon DEF Inv
-----------------------------------------------------------------------------
(* The theorems *)

\* All hosts start with the first operation and phase 1.
LEMMA InitInv == Init => Inv
<1> SUFFICES ASSUME Init PROVE Inv
  BY Zenon
<1>1. /\ at = [h \in Hosts |-> 1] /\ pc = [h \in Hosts |-> "begin"]
      /\ evilPhase = [h \in Hosts |-> 1] /\ pending = [h \in Hosts |-> 0]
      /\ chan = [s \in Hosts |-> [d \in Hosts |-> <<>>]] /\ taken = [h \in Hosts |-> {}]
  BY Zenon DEF Init
<1>2. 1 \in 1..(Last + 1) /\ 1 \in Tag \ {0} /\ 0 \in 0..N
  BY ProgramType, PhasesAssumption DEF Tag
<1>3. chan \in [Hosts -> [Hosts -> Seq(Message)]]
  BY <1>1
<1>4. \A s, d \in Hosts : chan[s][d] = <<>>
  BY <1>1, Zenon
<1>5. \A s, d \in Hosts : InChan(s, d) = {}
  BY <1>4 DEF InChan, Elements
<1>6. TypeOK
  BY <1>1, <1>2, <1>3, Zenon DEF TypeOK, Message
<1>7. Local
  BY <1>1, <1>6, PhaseAtNext, Zenon DEF Local
<1>8. Ordered
  BY <1>4 DEF Ordered, Increasing
<1>9. \A h \in Hosts : \A k \in 1..Last : ~Begun(h, k) /\ ~(at[h] > k)
  BY <1>1 DEF Begun
<1> QED
  BY <1>1, <1>5, <1>7, <1>8, <1>9, Zenon DEF Inv, Messages, Kept, Behind, Counted, Met

\* Every step of every host keeps the invariant.
LEMMA NextInv == Inv /\ [Next]_vars => Inv'
<1> SUFFICES ASSUME Inv, [Next]_vars PROVE Inv'
  BY Zenon
<1>1. ASSUME NEW h \in Hosts, Step(h) PROVE Inv'
  BY <1>1, BeginKeepsInv, RecieveNextKeepsInv, EndKeepsInv, SendMsgKeepsInv,
     HandleReceivesKeepsInv, EnterAllreduceKeepsInv, LeaveAllreduceKeepsInv, Zenon DEF Step
<1>2. CASE UNCHANGED vars
  <2>1. /\ at' = at /\ pc' = pc /\ evilPhase' = evilPhase
        /\ pending' = pending /\ chan' = chan /\ taken' = taken
    BY <1>2, Zenon DEF vars
  <2>2. Local'
    BY <2>1, Zenon DEF Inv, Local, TypeOK
  <2>3. Messages' /\ Ordered'
    BY <2>1 DEF Inv, Messages, Ordered, InChan, Begun
  <2>4. Kept' /\ Behind'
    BY <2>1 DEF Inv, Kept, Behind, InChan, Begun, Received
  <2>5. Counted' /\ Met'
    BY <2>1, SMTT(60) DEF Inv, Counted, Met, Begun, Expected, Op
  <2> QED
    BY <2>2, <2>3, <2>4, <2>5, Zenon DEF Inv
<1> QED
  BY <1>1, <1>2, Zenon DEF Next, Finished

\* Hosts that run one program over FIFOs keep the invariant, for any program that
\* meets ReuseAssumption.
THEOREM Invariance == Spec => []Inv
  BY InitInv, NextInv, PTL DEF Spec

\* What the invariant says of a host's own operation
LEMMA InvMatches == Inv => OperationsMatch
<1> SUFFICES ASSUME Inv PROVE OperationsMatch
  BY Zenon
<1>1. TypeOK /\ Local /\ Counted
  BY Zenon DEF Inv, Local
<1>2. ASSUME NEW h \in Hosts, ~Done(h)
      PROVE  /\ taken[h] \subseteq ReceivesFrom(h, Op(h)) \X {at[h]}
             /\ pc[h] = "receive" /\ Op(h) # "allreduce" =>
                   Cardinality(taken[h]) + pending[h] = Cardinality(ReceivesFrom(h, Op(h)))
  <2>1. at[h] \in 1..Last /\ pc[h] \in {"begin", "receive"}
    BY <1>1, <1>2, HostTypes, Zenon
  <2>2. CASE pc[h] = "begin"
    BY <2>2, <1>1, Zenon DEF Local
  <2>3. CASE pc[h] = "receive" /\ Op(h) = "allreduce"
    BY <2>3, <1>1, Zenon DEF Local, Op
  <2>4. CASE pc[h] = "receive" /\ Op(h) # "allreduce"
    <3>1. Phased(at[h])
      <4>1. Operations[at[h]] \in Names /\ Operations[at[h]] # "message"
        BY <2>1, <2>4, <1>1, ProgramType, Zenon DEF Local
      <4> QED
        BY <4>1, <2>4, Zenon DEF Phased, Names, Op
    <3>2. ReceivesFrom(h, Op(h)) = {s \in Hosts : Sends(s, h, at[h])}
      BY <3>1, <2>1, <1>1, ExpectedType, Zenon
    <3>3. \A p \in taken[h] : p = <<p[1], p[2]>> /\ p[1] \in Hosts
      BY <1>1, HostTypes
    <3>4. \A p \in taken[h] : p[2] = at[h] /\ Sends(p[1], h, at[h])
      BY <2>4, <1>1, Zenon DEF Counted
    <3>5. taken[h] \subseteq ReceivesFrom(h, Op(h)) \X {at[h]}
      BY <3>2, <3>3, <3>4
    <3>6. Cardinality(taken[h]) + pending[h] = Cardinality(ReceivesFrom(h, Op(h)))
      BY <3>1, <2>4, <1>1, Zenon DEF Counted, Expected
    <3> QED
      BY <3>5, <3>6, Zenon
  <2> QED
    BY <2>1, <2>2, <2>3, <2>4, Zenon
<1> QED
  BY <1>1, <1>2, Zenon DEF OperationsMatch

(***************************************************************************)
(* Although a receive names neither the sender nor the operation, every    *)
(* message a host takes belongs to the operation it is in and no partner   *)
(* is counted twice, for any program that meets ReuseAssumption.           *)
(***************************************************************************)
THEOREM PhasesMatch == Spec => []OperationsMatch
  BY Invariance, InvMatches, PTL

\* Everybody sends everybody a message in a fence.
LEMMA FenceSends ==
  ASSUME NEW s \in Hosts, NEW h \in Hosts, s # h, NEW k \in 1..Last, Operations[k] = "fence"
  PROVE  Sends(s, h, k)
  BY Zenon DEF Sends, Phased, SendsTo

\* The invariant covers what the fence promises.
LEMMA InvFence == Inv => FenceHolds
<1> SUFFICES ASSUME Inv PROVE FenceHolds
  BY Zenon
<1>1. TypeOK /\ Messages /\ Behind /\ Met
  BY Zenon DEF Inv, Local
<1>2. \A h \in Hosts : at[h] \in 1..(Last + 1) /\ at[h] \in Int /\ Last \in Nat
  BY <1>1, HostTypes, Zenon
<1>3. ASSUME NEW h \in Hosts, NEW s \in Hosts, NEW n \in 1..Len(chan[s][h]), chan[s][h][n].tag = 0,
             NEW k \in (chan[s][h][n].at)..(at[h] - 1), Operations[k] = "fence"
      PROVE  FALSE
  <2> DEFINE m == chan[s][h][n]
  <2>1. m \in InChan(s, h)
    BY Zenon DEF InChan, Elements
  <2>2. m.at \in 1..Last /\ m.at \in Int
    BY <2>1, <1>1, InChanTypes, Zenon
  <2>3. k \in (m.at)..Last /\ k \in 1..Last /\ at[h] > k
    BY <2>2, <1>2, SMTT(60)
  <2>4. s # h /\ Operations[m.at] = "message" /\ at[s] > m.at
    <3>1. PhaseAt[m.at] # 0
      BY <2>2, <1>2, PhaseAtNext, SMTT(60)
    <3> QED
      BY <3>1, <2>1, <1>1, <1>3, Zenon DEF Messages
  <2>5. Sends(s, h, k)
    BY <2>3, <2>4, <1>3, FenceSends, Zenon
  <2> QED
    BY <2>1, <2>3, <2>5, <1>1, Zenon DEF Behind, Received
<1>4. FenceDelivers
  BY <1>3, Zenon DEF FenceDelivers
<1>5. ASSUME NEW h \in Hosts, NEW g \in Hosts, NEW k \in 1..Last, Operations[k] = "fence", at[h] > k
      PROVE  at[g] >= k /\ (at[g] = k => pc[g] = "receive")
  <2>1. CASE g = h
    BY <2>1, <1>2, <1>5
  <2>2. CASE g # h
    <3>1. Begun(g, k)
      BY <2>2, <1>1, <1>5, FenceSends, Zenon DEF Met
    <3> QED
      BY <3>1, <1>2 DEF Begun
  <2> QED
    BY <2>1, <2>2, Zenon
<1>6. FenceSeparates
  BY <1>5, Zenon DEF FenceSeparates
<1> QED
  BY <1>4, <1>6, Zenon DEF FenceHolds

(***************************************************************************)
(* The host fence: a host that left it has handled every active message    *)
(* sent before it by any host, and no host leaves before all have entered. *)
(***************************************************************************)
THEOREM FenceIsBarrier == Spec => []FenceHolds
  BY Invariance, InvFence, PTL
=============================================================================
