------------------------------- MODULE LoopProofs -------------------------------
(* do_all with stealing executes every item exactly once, for any number of *)
(* threads and items, any chunk size and any layout of sockets. for_each    *)
(* neither loses nor duplicates an item, and its iterations are isolated,   *)
(* for any number of threads, items, neighborhoods and pushes.              *)
EXTENDS DoAllStealing, ForEachExecutor, TLAPS

\* what a thread's program counter says about its three ranges
Ranges(t) ==
    /\ shared_beg[t] <= shared_end[t] /\ m_size[t] = shared_end[t] - shared_beg[t]
    /\ beg[t] <= end[t]
    /\ steal_beg[t] <= steal_end[t] /\ steal_size[t] = steal_end[t] - steal_beg[t]
    /\ pc[t] # "work" => beg[t] = end[t] /\ m_size[t] = 0
    /\ pc[t] = "assign" <=> steal_beg[t] # steal_end[t]

\* a thief is after another active thread
Search(t) ==
    /\ pc[t] \in {"search", "steal"} => stage[t] # 0
    /\ pc[t] = "steal" => Victim(t) \in Threads /\ Victim(t) # t

IInv == TypeOK /\ (\A t \in Threads : Ranges(t) /\ Search(t)) /\ NothingLostOrDuplicated
-----------------------------------------------------------------------------
(* Multiplication by a natural number is monotone.                          *)
LEMMA TimesMonotone ==
    ASSUME NEW p \in Nat, NEW a \in Nat, NEW b \in Nat, a <= b
    PROVE  p * a <= p * b
<1>1. PICK c \in Nat : b = a + c
  <2>1. b - a \in Nat /\ b = a + (b - a)
    OBVIOUS
  <2> QED
    BY <2>1, Zenon
<1>2. p * b = p * a + p * c /\ p * c >= 0 /\ p * a \in Int /\ p * c \in Int
  BY <1>1
<1> QED
  BY <1>2

(* Division with remainder, for a positive divisor.                         *)
LEMMA DivBounds ==
    ASSUME NEW a \in Nat, NEW n \in Nat \ {0}
    PROVE  /\ a \div n \in Nat
           /\ n * (a \div n) <= a
           /\ a < n * ((a \div n) + 1)
  BY SMTT(30)

(* Blocks of rounded-up size cover the range.                               *)
LEMMA PerBlockEnough ==
    ASSUME NEW dist \in Nat, NEW num \in Nat \ {0}
    PROVE  PerBlock(dist, num) \in Nat \ {0} /\ dist <= PerBlock(dist, num) * num
<1> DEFINE q == (dist + num - 1) \div num
<1>1. dist + num - 1 \in Nat
  OBVIOUS
<1>2. q \in Nat /\ dist + num - 1 < num * (q + 1)
  BY <1>1, DivBounds, Zenon
<1>3. num * (q + 1) = q * num + num /\ q * num \in Nat
  BY <1>2
<1>4. dist <= q * num
  BY <1>2, <1>3
<1>5. CASE q >= 1
  BY <1>2, <1>4, <1>5 DEF PerBlock, Max2
<1>6. CASE q = 0
  <2>1. dist <= 0 /\ PerBlock(dist, num) = 1
    BY <1>4, <1>6 DEF PerBlock, Max2
  <2> QED
    BY <2>1
<1> QED
  BY <1>2, <1>5, <1>6

(* block_range cuts a range into consecutive blocks.                        *)
LEMMA BlockBounds ==
    ASSUME NEW dist \in Nat, NEW num \in Nat \ {0}, NEW id \in 0..(num - 1)
    PROVE  /\ BlockBegin(dist, id, num) \in 0..dist
           /\ BlockEnd(dist, id, num) \in 0..dist
           /\ BlockBegin(dist, id, num) <= BlockEnd(dist, id, num)
<1> DEFINE p == PerBlock(dist, num)
<1>1. p \in Nat
  BY PerBlockEnough, Zenon
<1> HIDE DEF p
<1>2. p * id \in Nat /\ p * (id + 1) \in Nat /\ p * id <= p * (id + 1)
  BY <1>1, TimesMonotone
<1> QED
  BY <1>2 DEF BlockBegin, BlockEnd, Min2, p

(* The blocks of block_range partition the range: every item is in the      *)
(* block of exactly one thread.                                             *)
THEOREM BlocksPartition ==
    ASSUME NEW dist \in Nat, NEW num \in Nat \ {0}, NEW x \in 0..(dist - 1)
    PROVE  \E id \in 0..(num - 1) :
              /\ InRange(x, BlockBegin(dist, id, num), BlockEnd(dist, id, num))
              /\ \A other \in (0..(num - 1)) \ {id} :
                    ~InRange(x, BlockBegin(dist, other, num), BlockEnd(dist, other, num))
<1> DEFINE p == PerBlock(dist, num)
           id == x \div p
<1>1. p \in Nat \ {0} /\ dist <= p * num
  BY PerBlockEnough, Zenon
<1>2. id \in Nat /\ p * id <= x /\ x < p * (id + 1)
  BY <1>1, DivBounds
<1>3. /\ \A k \in Int : BlockBegin(dist, k, num) = Min2(p * k, dist)
      /\ \A k \in Int : BlockEnd(dist, k, num) = Min2(p * (k + 1), dist)
  BY Zenon DEF BlockBegin, BlockEnd
<1> HIDE DEF p, id
<1>4. id \in 0..(num - 1)
  <2>1. SUFFICES ASSUME num <= id PROVE FALSE
    BY <1>2
  <2>2. p * num <= p * id
    BY <1>1, <1>2, <2>1, TimesMonotone, Zenon
  <2>3. p * num \in Int /\ p * id \in Int
    BY <1>1, <1>2
  <2> QED
    BY <1>1, <1>2, <2>2, <2>3
<1>5. InRange(x, BlockBegin(dist, id, num), BlockEnd(dist, id, num))
  <2>1. p * id \in Int /\ p * (id + 1) \in Int
    BY <1>1, <1>2
  <2> QED
    BY <1>2, <1>3, <2>1 DEF InRange, Min2
<1>6. ASSUME NEW other \in (0..(num - 1)) \ {id}
      PROVE  ~InRange(x, BlockBegin(dist, other, num), BlockEnd(dist, other, num))
  <2>1. p * other \in Int /\ p * (other + 1) \in Int /\ p * id \in Int /\ p * (id + 1) \in Int
    BY <1>1, <1>2
  <2>2. CASE other < id
    <3>1. p * (other + 1) <= p * id
      BY <1>1, <1>2, <2>2, TimesMonotone
    <3> QED
      BY <1>2, <1>3, <2>1, <3>1 DEF InRange, Min2
  <2>3. CASE id < other
    <3>1. p * (id + 1) <= p * other
      BY <1>1, <1>2, <2>3, TimesMonotone
    <3> QED
      BY <1>2, <1>3, <2>1, <3>1 DEF InRange, Min2
  <2> QED
    BY <1>2, <2>2, <2>3
<1> QED
  BY <1>4, <1>5, <1>6, Zenon
-----------------------------------------------------------------------------
(* The threads start with their blocks.                                     *)
LEMMA InitIInv == Init => IInv
<1> SUFFICES ASSUME Init PROVE IInv
  BY Zenon
<1> USE DoAllAssumption
<1>1. ASSUME NEW t \in Threads
      PROVE  /\ shared_beg[t] = BlockBegin(Size, t, N) /\ shared_end[t] = BlockEnd(Size, t, N)
             /\ shared_beg[t] \in 0..Size /\ shared_end[t] \in 0..Size
             /\ shared_beg[t] <= shared_end[t]
             /\ m_size[t] = shared_end[t] - shared_beg[t]
  BY BlockBounds, Zenon DEF Init, Threads
<1>2. TypeOK
  BY <1>1 DEF Init, TypeOK
<1>3. ASSUME NEW t \in Threads PROVE Ranges(t) /\ Search(t)
  BY <1>1 DEF Init, Ranges, Search
<1>4. ASSUME NEW x \in Items PROVE Conserved(x)
  <2>1. ASSUME NEW t \in Threads
        PROVE  ~HoldsPrivate(t, x) /\ ~HoldsStolen(t, x)
    BY DEF Init, HoldsPrivate, HoldsStolen, InRange, Items
  <2>2. PICK t \in Threads :
            /\ InRange(x, BlockBegin(Size, t, N), BlockEnd(Size, t, N))
            /\ \A u \in Threads \ {t} :
                  ~InRange(x, BlockBegin(Size, u, N), BlockEnd(Size, u, N))
    BY BlocksPartition, Zenon DEF Threads, Items
  <2>3. HoldsShared(t, x) /\ \A u \in Threads \ {t} : ~HoldsShared(u, x)
    BY <1>1, <2>2, Zenon DEF HoldsShared
  <2>4. executed[x] = 0
    BY Zenon DEF Init
  <2> QED
    BY <2>1, <2>3, <2>4, Zenon DEF Conserved, Holds, AtMostOneHold
<1> QED
  BY <1>2, <1>3, <1>4, Zenon DEF IInv, NothingLostOrDuplicated

(* Ranges of thread t that are cut or merged without gaining or losing an   *)
(* item, everything else unchanged, keep every item where it belongs.       *)
LEMMA SameHolds ==
    ASSUME NEW x \in Items, Conserved(x), executed' = executed,
           \A t \in Threads : Holds(t, x)' <=> Holds(t, x),
           \A t \in Threads : AtMostOneHold(t, x) => AtMostOneHold(t, x)'
    PROVE  Conserved(x)'
  BY Zenon DEF Conserved

(* What the type invariant says about one thread.                           *)
LEMMA ThreadType ==
    ASSUME TypeOK, NEW t \in Threads
    PROVE  /\ Size \in Nat /\ ChunkSize \in Nat \ {0}
           /\ shared_beg[t] \in 0..Size /\ shared_end[t] \in 0..Size /\ m_size[t] \in 0..Size
           /\ beg[t] \in 0..Size /\ end[t] \in 0..Size
           /\ steal_beg[t] \in 0..Size /\ steal_end[t] \in 0..Size /\ steal_size[t] \in 0..Size
           /\ stage[t] \in 0..3 /\ i[t] \in Nat
  BY DoAllAssumption, Zenon DEF TypeOK

(* Taking a chunk.                                                          *)
LEMMA GetWorkIInv ==
    ASSUME IInv, NEW t \in Threads, GetWork(t)
    PROVE  IInv'
<1>1. TypeOK /\ Ranges(t) /\ pc[t] = "work" /\ beg[t] = end[t]
  BY Zenon DEF IInv, GetWork
<1>2. PICK nbeg \in 0..Size :
          /\ shared_beg[t] < nbeg /\ nbeg <= shared_end[t]
          /\ beg' = [beg EXCEPT ![t] = shared_beg[t]]
          /\ end' = [end EXCEPT ![t] = nbeg]
          /\ shared_beg' = [shared_beg EXCEPT ![t] = nbeg]
          /\ m_size' = [m_size EXCEPT ![t] = shared_end[t] - nbeg]
          /\ UNCHANGED <<shared_end, steal_beg, steal_end, steal_size, stage, i, sawWork, pc, executed>>
  <2>1. /\ shared_beg[t] \in 0..Size /\ shared_end[t] \in 0..Size
        /\ m_size[t] = shared_end[t] - shared_beg[t] /\ m_size[t] > 0
    BY <1>1, ThreadType, Zenon DEF Ranges, GetWork
  <2>2. CASE LastChunk(t)
    <3> DEFINE n == shared_end[t]
    <3>1. n \in 0..Size /\ shared_beg[t] < n /\ n <= shared_end[t] /\ shared_end[t] - n = 0
      BY <2>1
    <3> QED
      BY <2>2, <3>1, Zenon DEF GetWork, hand, search
  <2>3. CASE ~LastChunk(t)
    <3> DEFINE n == shared_beg[t] + ChunkSize
    <3>1. n \in 0..Size /\ shared_beg[t] < n /\ n <= shared_end[t] /\ m_size[t] - ChunkSize = shared_end[t] - n
      BY <1>1, <2>1, <2>3, ThreadType DEF LastChunk
    <3> QED
      BY <2>3, <3>1, Zenon DEF GetWork, hand, search
  <2> QED
    BY <2>2, <2>3, Zenon
<1>3. TypeOK'
  <2>1. Size \in Nat /\ shared_beg[t] \in 0..Size /\ shared_end[t] - nbeg \in 0..Size
    BY <1>1, <1>2, ThreadType
  <2> QED
    BY <1>1, <1>2, <2>1, Zenon DEF TypeOK
<1>4. ASSUME NEW u \in Threads PROVE Ranges(u)' /\ Search(u)'
  <2>1. Ranges(u) /\ Search(u)
    BY Zenon DEF IInv
  <2>2. CASE u = t
    BY <1>1, <1>2, <2>1, <2>2, SMTT(60) DEF TypeOK, Ranges, Search, Victim
  <2>3. CASE u # t
    BY <1>1, <1>2, <2>1, <2>3, Zenon DEF TypeOK, Ranges, Search, Victim
  <2> QED
    BY <2>2, <2>3, Zenon
<1>5. ASSUME NEW x \in Items PROVE Conserved(x)'
  <2>1. Conserved(x) /\ executed' = executed
    BY <1>2, Zenon DEF IInv, NothingLostOrDuplicated
  <2>2. ASSUME NEW u \in Threads
        PROVE  /\ Holds(u, x)' <=> Holds(u, x)
               /\ AtMostOneHold(u, x) => AtMostOneHold(u, x)'
    <3>1. CASE u = t
      BY <1>1, <1>2, <3>1, SMTT(60) DEF TypeOK, Ranges, Items, Holds, HoldsShared, HoldsPrivate,
                              HoldsStolen, InRange, AtMostOneHold
    <3>2. CASE u # t
      BY <1>1, <1>2, <3>2, Zenon DEF TypeOK, Holds, HoldsShared, HoldsPrivate,
                              HoldsStolen, InRange, AtMostOneHold
    <3> QED
      BY <3>1, <3>2, Zenon
  <2> QED
    BY <2>1, <2>2, SameHolds, Zenon
<1> QED
  BY <1>3, <1>4, <1>5, Zenon DEF IInv, NothingLostOrDuplicated

(* Executing an item.                                                       *)
LEMMA ExecuteIInv ==
    ASSUME IInv, NEW t \in Threads, Execute(t)
    PROVE  IInv'
<1>0. TypeOK /\ Ranges(t) /\ pc[t] = "work" /\ beg[t] # end[t]
  BY Zenon DEF IInv, Execute
<1>1. beg[t] < end[t] /\ beg[t] \in Items /\ beg[t] + 1 \in 0..Size
  <2>1. beg[t] <= end[t] /\ beg[t] # end[t]
    BY <1>0, Zenon DEF Ranges
  <2>2. Size \in Nat /\ beg[t] \in 0..Size /\ end[t] \in 0..Size
    BY <1>0, ThreadType, Zenon
  <2> QED
    BY <2>1, <2>2 DEF Items
<1>2. /\ executed' = [executed EXCEPT ![beg[t]] = @ + 1]
      /\ beg' = [beg EXCEPT ![t] = @ + 1]
      /\ UNCHANGED <<shared_beg, shared_end, m_size, end, steal_beg, steal_end, steal_size, stage, i, sawWork, pc>>
  BY Zenon DEF Execute, shared, hand, search
<1>3. TypeOK'
  BY <1>0, <1>1, <1>2 DEF TypeOK
<1>4. ASSUME NEW u \in Threads PROVE Ranges(u)' /\ Search(u)'
  <2>1. Ranges(u) /\ Search(u)
    BY Zenon DEF IInv
  <2>2. CASE u = t
    BY <1>0, <1>1, <1>2, <2>1, <2>2, SMTT(60) DEF TypeOK, Ranges, Search, Victim
  <2>3. CASE u # t
    BY <1>0, <1>2, <2>1, <2>3, Zenon DEF TypeOK, Ranges, Search, Victim
  <2> QED
    BY <2>2, <2>3, Zenon
<1>5. ASSUME NEW x \in Items PROVE Conserved(x)'
  <2>1. Conserved(x)
    BY Zenon DEF IInv, NothingLostOrDuplicated
  <2>2. ASSUME NEW u \in Threads
        PROVE  /\ HoldsShared(u, x)' <=> HoldsShared(u, x)
               /\ HoldsPrivate(u, x)' <=> (HoldsPrivate(u, x) /\ ~(u = t /\ x = beg[t]))
               /\ HoldsStolen(u, x)' <=> HoldsStolen(u, x)
    <3>1. CASE u = t
      <4>1. beg'[t] = beg[t] + 1 /\ end'[t] = end[t] /\ beg[t] \in Int /\ end[t] \in Int /\ x \in Int
        <5>1. beg'[t] = beg[t] + 1 /\ end'[t] = end[t]
          BY <1>0, <1>2, Zenon DEF TypeOK
        <5> QED
          BY <1>0, <5>1 DEF TypeOK, Items
      <4>2. HoldsPrivate(t, x)' <=> (HoldsPrivate(t, x) /\ x # beg[t])
        BY <1>1, <4>1 DEF HoldsPrivate, InRange
      <4> QED
        BY <1>2, <3>1, <4>2, Zenon DEF HoldsShared, HoldsStolen, InRange
    <3>2. CASE u # t
      BY <1>0, <1>2, <3>2, Zenon DEF TypeOK, HoldsShared, HoldsPrivate, HoldsStolen, InRange, Items
    <3> QED
      BY <3>1, <3>2, Zenon
  <2>3. CASE x = beg[t]
    <3>1. HoldsPrivate(t, x)
      BY <1>0, <1>1, <2>3 DEF HoldsPrivate, InRange, TypeOK
    <3>2. /\ executed[x] = 0 /\ AtMostOneHold(t, x)
          /\ \A u \in Threads \ {t} : ~Holds(u, x)
      BY <2>1, <3>1, Zenon DEF Conserved, Holds
    <3>3. executed'[x] = 1
      BY <1>0, <1>2, <2>3, <3>2 DEF TypeOK
    <3>4. ASSUME NEW u \in Threads PROVE ~Holds(u, x)'
      BY <2>2, <2>3, <3>1, <3>2, Zenon DEF Holds, AtMostOneHold
    <3> QED
      BY <3>3, <3>4, Zenon DEF Conserved
  <2>4. CASE x # beg[t]
    <3>1. executed'[x] = executed[x]
      BY <1>0, <1>2, <2>4, Zenon DEF TypeOK
    <3> QED
      BY <2>1, <2>2, <2>4, <3>1, Zenon DEF Conserved, Holds, AtMostOneHold
  <2> QED
    BY <2>3, <2>4, Zenon
<1> QED
  BY <1>3, <1>4, <1>5, Zenon DEF IInv, NothingLostOrDuplicated

(* A step that moves no range only has to keep the facts about its search.  *)
LEMMA SearchStepIInv ==
    ASSUME IInv, NEW t \in Threads, TypeOK', Ranges(t)', Search(t)',
           UNCHANGED <<shared_beg, shared_end, m_size, steal_beg, steal_end, steal_size, executed>>,
           beg[t] = end[t], beg'[t] = end'[t],
           \A u \in Threads \ {t} : /\ beg'[u] = beg[u] /\ end'[u] = end[u] /\ pc'[u] = pc[u]
                                    /\ stage'[u] = stage[u] /\ i'[u] = i[u]
    PROVE  IInv'
<1>1. ASSUME NEW u \in Threads PROVE Ranges(u)' /\ Search(u)'
  <2>1. Ranges(u) /\ Search(u)
    BY Zenon DEF IInv
  <2>2. CASE u # t
    BY <2>1, <2>2, Zenon DEF Ranges, Search, Victim
  <2> QED
    BY <2>2, Zenon
<1>2. ASSUME NEW x \in Items PROVE Conserved(x)'
  <2>1. Conserved(x)
    BY Zenon DEF IInv, NothingLostOrDuplicated
  <2>2. ASSUME NEW u \in Threads
        PROVE  /\ Holds(u, x)' <=> Holds(u, x)
               /\ AtMostOneHold(u, x) => AtMostOneHold(u, x)'
    <3>1. CASE u # t
      BY <3>1, Zenon DEF Holds, HoldsShared, HoldsPrivate, HoldsStolen, InRange, AtMostOneHold
    <3>2. CASE u = t
      <4>1. ~HoldsPrivate(t, x) /\ ~HoldsPrivate(t, x)'
        <5>1. x \in Int /\ beg[t] \in Int /\ beg'[t] \in Int
          <6>1. beg[t] \in 0..Size /\ beg'[t] \in 0..Size
            BY Zenon DEF IInv, TypeOK
          <6> QED
            BY <6>1 DEF Items
        <5>2. ~(beg[t] <= x /\ x < beg[t]) /\ ~(beg'[t] <= x /\ x < beg'[t])
          BY <5>1
        <5> QED
          BY <5>2, Zenon DEF HoldsPrivate, InRange
      <4> QED
        BY <3>2, <4>1, Zenon DEF Holds, HoldsShared, HoldsStolen, InRange, AtMostOneHold
    <3> QED
      BY <3>1, <3>2, Zenon
  <2> QED
    BY <2>1, <2>2, SameHolds, Zenon
<1> QED
  BY <1>1, <1>2, Zenon DEF IInv, NothingLostOrDuplicated

(* Whom a thread looks at is an active thread.                              *)
LEMMA VictimActive ==
    ASSUME TypeOK, NEW t \in Threads, stage[t] # 0, Candidate(t)
    PROVE  Victim(t) \in Threads
<1>1. /\ N \in Nat \ {0} /\ N <= MaxThreads /\ MaxThreads \in Nat /\ MaxSockets \in Nat \ {0}
      /\ MaxSockets <= MaxThreads /\ t \in 0..(N - 1) /\ i[t] \in Nat
  BY DoAllAssumption, ThreadType, Zenon DEF Threads
<1>2. SocketOf[t] \in Nat
  BY <1>1, DoAllAssumption
<1>3. CASE stage[t] = 1
  <2>1. PerPack \in Nat \ {0}
    <3>1. PerPack \in Nat /\ MaxThreads < MaxSockets * (PerPack + 1)
      BY <1>1, DivBounds, Zenon DEF PerPack
    <3>2. CASE PerPack = 0
      BY <1>1, <3>1, <3>2
    <3> QED
      BY <3>1, <3>2, Zenon
  <2>2. PackBeg(t) \in Nat
    BY <1>2, <2>1 DEF PackBeg
  <2>3. (t + i[t]) % PerPack \in Nat
    BY <1>1, <2>1
  <2>4. Victim(t) = ((t + i[t]) % PerPack) + PackBeg(t) /\ Victim(t) < N
    BY <1>3, Zenon DEF Victim, Candidate
  <2> QED
    BY <1>1, <2>2, <2>3, <2>4 DEF Threads
<1>4. CASE stage[t] # 1
  <2>1. Victim(t) = (t + i[t]) % N
    BY <1>4, Zenon DEF Victim
  <2> QED
    BY <1>1, <2>1 DEF Threads
<1> QED
  BY <1>3, <1>4, Zenon

(* The steps of a thread that looks for work.                               *)
LEMMA SearchingIInv ==
    ASSUME IInv, NEW t \in Threads, 
           NoWork(t) \/ Look(t) \/ Skip(t) \/ StealFails(t) \/ EndStage(t)
    PROVE  IInv'
<1>1. TypeOK /\ Ranges(t) /\ Search(t)
  BY Zenon DEF IInv
<1>2. CASE NoWork(t)
  <2>1. m_size[t] = 0 /\ beg[t] = end[t] /\ pc[t] = "work"
    BY <1>1, <1>2, ThreadType, SMTT(60) DEF NoWork
  <2>2. TypeOK'
    BY <1>1, <1>2, ThreadType, SMTT(60) DEF NoWork, TypeOK, Goto, shared, hand, First, SawWorkAtEntry
  <2>3. Ranges(t)' /\ Search(t)'
    BY <1>1, <1>2, <2>1, SMTT(60) DEF NoWork, TypeOK, Goto, shared, hand, Ranges, Search
  <2>4. /\ UNCHANGED <<shared_beg, shared_end, m_size, steal_beg, steal_end, steal_size, executed>>
        /\ beg'[t] = end'[t]
        /\ \A u \in Threads \ {t} : /\ beg'[u] = beg[u] /\ end'[u] = end[u] /\ pc'[u] = pc[u]
                                    /\ stage'[u] = stage[u] /\ i'[u] = i[u]
    BY <1>1, <1>2, Zenon DEF NoWork, TypeOK, Goto, shared, hand
  <2> QED
    BY <2>1, <2>2, <2>3, <2>4, SearchStepIInv, Zenon
<1>3. CASE Look(t) \/ Skip(t) \/ StealFails(t) \/ EndStage(t)
  <2>1. /\ pc[t] \in {"search", "steal"} /\ beg[t] = end[t] /\ m_size[t] = 0 /\ stage[t] # 0
        /\ UNCHANGED <<shared_beg, shared_end, m_size, steal_beg, steal_end, steal_size, executed, beg, end>>
    BY <1>1, <1>3, Zenon DEF Look, Skip, StealFails, EndStage, Searching, Ranges, Search, shared, hand, private
  <2>2. /\ TypeOK'
        /\ Ranges(t)' /\ Search(t)'
        /\ \A u \in Threads \ {t} : /\ beg'[u] = beg[u] /\ end'[u] = end[u] /\ pc'[u] = pc[u]
                                    /\ stage'[u] = stage[u] /\ i'[u] = i[u]
    <3>1. CASE Look(t)
      <4>1. Victim(t) \in Threads /\ Victim(t) # t
        <5>1. Candidate(t) /\ m_size[Victim(t)] > 0
          BY <3>1, Zenon DEF Look
        <5>2. Victim(t) \in Threads
          BY <1>1, <2>1, <5>1, VictimActive, Zenon
        <5> QED
          BY <2>1, <5>1, <5>2
      <4>2. Victim(t)' = Victim(t)
        BY <3>1, Zenon DEF Look, Victim
      <4> QED
        BY <1>1, <2>1, <3>1, <4>1, <4>2, Zenon DEF Look, Goto, TypeOK, Searching, Ranges, Search
    <3>2. CASE Skip(t)
      <4>1. i[t] + 1 \in Nat
        BY <1>1 DEF TypeOK
      <4> QED
        BY <1>1, <2>1, <3>2, <4>1, Zenon DEF Skip, TypeOK, Searching, Ranges, Search
    <3>3. CASE StealFails(t)
      <4>1. i[t] + 1 \in Nat
        BY <1>1 DEF TypeOK
      <4>2. /\ i' = [i EXCEPT ![t] = i[t] + 1] /\ stage' = stage /\ sawWork' = sawWork
            /\ pc[t] = "steal" /\ pc' = [pc EXCEPT ![t] = "search"]
        BY <3>3, Zenon DEF StealFails, Goto
      <4>3. TypeOK'
        BY <1>1, <2>1, <4>1, <4>2, Zenon DEF TypeOK
      <4>4. Ranges(t)' /\ Search(t)'
        BY <1>1, <2>1, <4>2, Zenon DEF TypeOK, Ranges, Search
      <4>5. \A u \in Threads \ {t} : pc'[u] = pc[u] /\ stage'[u] = stage[u] /\ i'[u] = i[u]
        BY <1>1, <4>2, Zenon DEF TypeOK
      <4> QED
        BY <2>1, <4>3, <4>4, <4>5, Zenon
    <3>4. CASE EndStage(t)
      <4>1. CASE sawWork[t]
        <5>0. 0 \in 0..3 /\ 0 \in Nat
          OBVIOUS
        <5>1. /\ stage' = [stage EXCEPT ![t] = 0] /\ i' = [i EXCEPT ![t] = 0]
              /\ pc[t] = "search" /\ sawWork' = sawWork
              /\ pc' = [pc EXCEPT ![t] = "work"]
          BY <3>4, <4>1, Zenon DEF EndStage, EndSearch, Goto
        <5>2. TypeOK'
          BY <1>1, <2>1, <5>0, <5>1, Zenon DEF TypeOK
        <5>3. Ranges(t)' /\ Search(t)'
          BY <1>1, <2>1, <5>1, Zenon DEF TypeOK, Ranges, Search
        <5>4. \A u \in Threads \ {t} : pc'[u] = pc[u] /\ stage'[u] = stage[u] /\ i'[u] = i[u]
          BY <1>1, <5>1, Zenon DEF TypeOK
        <5> QED
          BY <2>1, <5>2, <5>3, <5>4, Zenon
      <4>2. CASE ~sawWork[t] /\ stage[t] < Stages(t)
        <5>1. stage[t] + 1 \in 0..3 /\ stage[t] + 1 # 0 /\ First(stage[t] + 1) \in Nat
          <6>1. stage[t] \in 0..3 /\ stage[t] < Stages(t)
            BY <1>1, <4>2, ThreadType, Zenon
          <6> QED
            BY <6>1 DEF Stages, First
        <5>2. /\ stage' = [stage EXCEPT ![t] = stage[t] + 1]
              /\ i' = [i EXCEPT ![t] = First(stage[t] + 1)]
              /\ pc' = pc /\ sawWork' = sawWork /\ pc[t] = "search"
          BY <3>4, <4>2, Zenon DEF EndStage
        <5>3. TypeOK'
          BY <1>1, <2>1, <5>1, <5>2, Zenon DEF TypeOK
        <5>4. Ranges(t)' /\ Search(t)'
          BY <1>1, <2>1, <5>1, <5>2, Zenon DEF TypeOK, Ranges, Search
        <5>5. \A u \in Threads \ {t} : pc'[u] = pc[u] /\ stage'[u] = stage[u] /\ i'[u] = i[u]
          BY <1>1, <5>2, Zenon DEF TypeOK
        <5> QED
          BY <2>1, <5>3, <5>4, <5>5, Zenon
      <4>3. CASE ~sawWork[t] /\ ~(stage[t] < Stages(t))
        <5>0. 0 \in 0..3 /\ 0 \in Nat
          OBVIOUS
        <5>1. /\ stage' = [stage EXCEPT ![t] = 0] /\ i' = [i EXCEPT ![t] = 0]
              /\ pc[t] = "search" /\ sawWork' = sawWork
              /\ pc' = [pc EXCEPT ![t] = "left"]
          BY <3>4, <4>3, Zenon DEF EndStage, EndSearch, Goto
        <5>2. TypeOK'
          BY <1>1, <2>1, <5>0, <5>1, Zenon DEF TypeOK
        <5>3. Ranges(t)' /\ Search(t)'
          BY <1>1, <2>1, <5>1, Zenon DEF TypeOK, Ranges, Search
        <5>4. \A u \in Threads \ {t} : pc'[u] = pc[u] /\ stage'[u] = stage[u] /\ i'[u] = i[u]
          BY <1>1, <5>1, Zenon DEF TypeOK
        <5> QED
          BY <2>1, <5>2, <5>3, <5>4, Zenon
      <4> QED
        BY <4>1, <4>2, <4>3, Zenon
    <3> QED
      BY <1>3, <3>1, <3>2, <3>3, <3>4, Zenon
  <2> QED
    BY <2>1, <2>2, SearchStepIInv, Zenon
<1> QED
  BY <1>2, <1>3, Zenon

(* Taking a part of a victim's range.                                       *)
LEMMA StealIInv ==
    ASSUME IInv, NEW t \in Threads, Steal(t)
    PROVE  IInv'
<1>0. PICK v \in Threads : v = Victim(t) /\ v # t /\ m_size[v] > 0
  BY Zenon DEF IInv, Steal, Search
<1>1. TypeOK /\ pc[t] = "steal" /\ m_size[v] > 0 /\ Ranges(t) /\ Ranges(v)
  BY <1>0, Zenon DEF IInv, Steal
<1>2. /\ Size \in Nat /\ shared_beg[v] \in 0..Size /\ shared_end[v] \in 0..Size
      /\ m_size[v] = shared_end[v] - shared_beg[v]
      /\ pc[v] = "work"
  <2>1. /\ Size \in Nat /\ shared_beg[v] \in 0..Size /\ shared_end[v] \in 0..Size /\ m_size[v] \in 0..Size
        /\ m_size[v] = shared_end[v] - shared_beg[v] /\ (pc[v] # "work" => m_size[v] = 0)
    BY <1>1, ThreadType, Zenon DEF Ranges
  <2>2. m_size[v] # 0
    BY <1>1, <2>1
  <2> QED
    BY <2>1, <2>2, Zenon
<1>3. PICK cut \in 0..Size :
          /\ shared_beg[v] < cut /\ cut <= shared_end[v]
          /\ steal_beg' = [steal_beg EXCEPT ![t] = shared_beg[v]]
          /\ steal_end' = [steal_end EXCEPT ![t] = cut]
          /\ steal_size' = [steal_size EXCEPT ![t] = cut - shared_beg[v]]
          /\ shared_beg' = [shared_beg EXCEPT ![v] = cut]
          /\ m_size' = [m_size EXCEPT ![v] = shared_end[v] - cut]
          /\ pc' = [pc EXCEPT ![t] = "assign"]
          /\ stage' = [stage EXCEPT ![t] = 0] /\ i' = [i EXCEPT ![t] = 0]
          /\ UNCHANGED <<shared_end, beg, end, sawWork, executed>>
  <2> DEFINE n == StealSize(v)
             cut == RichBegin(v)
  <2>1. n \in 1..m_size[v]
    <3>1. m_size[v] \in Nat /\ m_size[v] > 0 /\ ChunkSize \in Nat \ {0}
      BY <1>1, <1>2, ThreadType
    <3>2. m_size[v] > 1 => m_size[v] \div 2 \in 1..m_size[v]
      BY <3>1
    <3> QED
      BY <3>1, <3>2 DEF StealSize
  <2>2. cut = shared_beg[v] + n
    BY <1>2, <2>1 DEF RichBegin
  <2>3. /\ cut \in 0..Size /\ shared_beg[v] < cut /\ cut <= shared_end[v]
        /\ n = cut - shared_beg[v] /\ m_size[v] - n = shared_end[v] - cut
    BY <1>2, <2>1, <2>2
  <2>4. /\ steal_beg' = [steal_beg EXCEPT ![t] = shared_beg[v]]
        /\ steal_end' = [steal_end EXCEPT ![t] = cut]
        /\ steal_size' = [steal_size EXCEPT ![t] = n]
        /\ shared_beg' = [shared_beg EXCEPT ![v] = cut]
        /\ m_size' = [m_size EXCEPT ![v] = m_size[v] - n]
        /\ pc' = [pc EXCEPT ![t] = "assign"]
        /\ stage' = [stage EXCEPT ![t] = 0] /\ i' = [i EXCEPT ![t] = 0]
        /\ UNCHANGED <<shared_end, beg, end, sawWork, executed>>
    BY <1>0, Zenon DEF Steal, EndSearch, RichBegin, Goto, private
  <2> HIDE DEF n, cut
  <2> QED
    BY <2>3, <2>4, Zenon
<1>4. TypeOK'
  <2>1. cut - shared_beg[v] \in 0..Size /\ shared_end[v] - cut \in 0..Size
    BY <1>2, <1>3
  <2>2. 0 \in 0..3 /\ 0 \in Nat
    OBVIOUS
  <2> QED
    BY <1>0, <1>1, <1>2, <1>3, <2>1, <2>2, Zenon DEF TypeOK
<1>5. ASSUME NEW u \in Threads PROVE Ranges(u)' /\ Search(u)'
  <2>1. Ranges(u) /\ Search(u)
    BY Zenon DEF IInv
  <2>2. CASE u = t
    <3>1. /\ shared_beg'[t] = shared_beg[t] /\ shared_end'[t] = shared_end[t] /\ m_size'[t] = m_size[t]
          /\ beg'[t] = beg[t] /\ end'[t] = end[t] /\ pc'[t] = "assign"
          /\ steal_beg'[t] = shared_beg[v] /\ steal_end'[t] = cut /\ steal_size'[t] = cut - shared_beg[v]
      BY <1>0, <1>1, <1>3, Zenon DEF TypeOK
    <3>2. shared_beg[v] \in Int /\ cut \in Int /\ shared_beg[v] < cut
      BY <1>2, <1>3
    <3>3. shared_beg[v] <= cut /\ shared_beg[v] # cut
      BY <3>2
    <3> QED
      BY <1>1, <2>2, <3>1, <3>3, Zenon DEF Ranges, Search
  <2>3. CASE u = v
    BY <1>0, <1>1, <1>2, <1>3, <2>1, <2>3, Zenon DEF TypeOK, Ranges, Search
  <2>4. CASE u # t /\ u # v
    <3>1. /\ shared_beg'[u] = shared_beg[u] /\ shared_end'[u] = shared_end[u] /\ m_size'[u] = m_size[u]
          /\ beg'[u] = beg[u] /\ end'[u] = end[u] /\ pc'[u] = pc[u] /\ stage'[u] = stage[u] /\ i'[u] = i[u]
          /\ steal_beg'[u] = steal_beg[u] /\ steal_end'[u] = steal_end[u] /\ steal_size'[u] = steal_size[u]
      BY <1>0, <1>1, <1>3, <2>4, Zenon DEF TypeOK
    <3>2. Ranges(u)'
      BY <2>1, <3>1, Zenon DEF Ranges
    <3>3. Search(u)'
      BY <2>1, <3>1, Zenon DEF Search, Victim
    <3> QED
      BY <3>2, <3>3, Zenon
  <2> QED
    BY <2>2, <2>3, <2>4, Zenon
<1>6. ASSUME NEW x \in Items PROVE Conserved(x)'
  <2>1. Conserved(x) /\ executed' = executed /\ x \in Int
    BY <1>3 DEF IInv, NothingLostOrDuplicated, Items
  <2>2. ~Holds(t, x)
    <3>1. /\ m_size[t] = 0 /\ m_size[t] = shared_end[t] - shared_beg[t]
          /\ beg[t] = end[t] /\ steal_beg[t] = steal_end[t]
      BY <1>0, <1>1, Zenon DEF Ranges
    <3>2. /\ shared_beg[t] \in Int /\ shared_end[t] \in Int /\ beg[t] \in Int /\ end[t] \in Int
          /\ steal_beg[t] \in Int /\ steal_end[t] \in Int /\ x \in Int
      <4>1. /\ shared_beg[t] \in 0..Size /\ shared_end[t] \in 0..Size /\ beg[t] \in 0..Size
            /\ end[t] \in 0..Size /\ steal_beg[t] \in 0..Size /\ steal_end[t] \in 0..Size
        BY <1>0, <1>1, ThreadType, Zenon
      <4>2. \A a \in 0..Size : a \in Int
        OBVIOUS
      <4> QED
        BY <2>1, <4>1, <4>2, Zenon
    <3>3. shared_beg[t] = shared_end[t]
      BY <3>1, <3>2
    <3>4. \A a, b \in Int : ~InRange(a, b, b)
      BY DEF InRange
    <3> QED
      BY <3>1, <3>2, <3>3, <3>4, Zenon DEF Holds, HoldsShared, HoldsPrivate, HoldsStolen
  <2>3. /\ ~HoldsShared(t, x)' /\ ~HoldsPrivate(t, x)'
        /\ HoldsStolen(t, x)' <=> (HoldsShared(v, x) /\ x < cut)
    BY <1>0, <1>1, <1>2, <1>3, <2>1, <2>2, SMTT(60)
       DEF TypeOK, Holds, HoldsShared, HoldsPrivate, HoldsStolen, InRange
  <2>4. /\ HoldsShared(v, x)' <=> (HoldsShared(v, x) /\ ~(x < cut))
        /\ HoldsPrivate(v, x)' <=> HoldsPrivate(v, x)
        /\ HoldsStolen(v, x)' <=> HoldsStolen(v, x)
    <3>1. /\ shared_beg'[v] = cut /\ shared_end'[v] = shared_end[v]
          /\ beg'[v] = beg[v] /\ end'[v] = end[v]
          /\ steal_beg'[v] = steal_beg[v] /\ steal_end'[v] = steal_end[v]
      BY <1>0, <1>1, <1>3, Zenon DEF TypeOK
    <3> QED
      <4>1. /\ shared_beg[v] \in Int /\ cut \in Int /\ x \in Int /\ shared_beg[v] < cut
        BY <1>2, <1>3, <2>1
      <4>2. cut <= x <=> (shared_beg[v] <= x /\ ~(x < cut))
        BY <4>1
      <4> QED
        BY <3>1, <4>2, Zenon DEF HoldsShared, HoldsPrivate, HoldsStolen, InRange
  <2>5. ASSUME NEW u \in Threads \ {t, v}
        PROVE  /\ HoldsShared(u, x)' <=> HoldsShared(u, x)
               /\ HoldsPrivate(u, x)' <=> HoldsPrivate(u, x)
               /\ HoldsStolen(u, x)' <=> HoldsStolen(u, x)
    BY <1>0, <1>1, <1>3, Zenon DEF TypeOK, HoldsShared, HoldsPrivate, HoldsStolen, InRange
  <2>6. CASE HoldsShared(v, x) /\ x < cut
    <3>1. executed[x] = 0 /\ AtMostOneHold(v, x) /\ \A u \in Threads \ {v} : ~Holds(u, x)
      BY <1>0, <1>1, <2>1, <2>6, Zenon DEF Conserved, Holds
    <3>2. Holds(t, x)' /\ AtMostOneHold(t, x)'
      BY <2>3, <2>6, Zenon DEF Holds, AtMostOneHold
    <3>3. ASSUME NEW u \in Threads \ {t} PROVE ~Holds(u, x)'
      <4>1. CASE u = v
        BY <1>0, <2>4, <2>6, <3>1, <4>1, Zenon DEF Holds, AtMostOneHold
      <4>2. CASE u # v
        BY <2>5, <3>1, <4>2, Zenon DEF Holds
      <4> QED
        BY <4>1, <4>2, Zenon
    <3> QED
      BY <2>1, <3>1, <3>2, <3>3, Zenon DEF Conserved
  <2>7. CASE ~(HoldsShared(v, x) /\ x < cut)
    <3>1. ASSUME NEW u \in Threads
          PROVE  /\ Holds(u, x)' <=> Holds(u, x)
                 /\ AtMostOneHold(u, x) => AtMostOneHold(u, x)'
      <4>1. CASE u = t
        BY <2>2, <2>3, <2>7, <4>1, Zenon DEF Holds, AtMostOneHold
      <4>2. CASE u = v
        BY <2>4, <2>7, <4>2, Zenon DEF Holds, AtMostOneHold
      <4>3. CASE u \in Threads \ {t, v}
        BY <2>5, <4>3, Zenon DEF Holds, AtMostOneHold
      <4> QED
        BY <4>1, <4>2, <4>3, Zenon
    <3> QED
      BY <2>1, <3>1, SameHolds, Zenon
  <2> QED
    BY <2>6, <2>7, Zenon
<1> QED
  BY <1>4, <1>5, <1>6, Zenon DEF IInv, NothingLostOrDuplicated

(* Putting a stolen range in the thief's own context.                       *)
LEMMA AssignWorkIInv ==
    ASSUME IInv, NEW t \in Threads, AssignWork(t)
    PROVE  IInv'
<1>1. TypeOK /\ Ranges(t) /\ pc[t] = "assign"
  BY Zenon DEF IInv, AssignWork
<1>2. /\ shared_beg' = [shared_beg EXCEPT ![t] = steal_beg[t]]
      /\ shared_end' = [shared_end EXCEPT ![t] = steal_end[t]]
      /\ m_size' = [m_size EXCEPT ![t] = steal_size[t]]
      /\ steal_beg' = [steal_beg EXCEPT ![t] = 0]
      /\ steal_end' = [steal_end EXCEPT ![t] = 0]
      /\ steal_size' = [steal_size EXCEPT ![t] = 0]
      /\ pc' = [pc EXCEPT ![t] = "work"]
      /\ UNCHANGED <<beg, end, stage, i, sawWork, executed>>
  BY Zenon DEF AssignWork, Goto, private, search
<1>3. TypeOK'
  BY <1>1, <1>2, ThreadType, SMTT(60) DEF TypeOK
<1>4. ASSUME NEW u \in Threads PROVE Ranges(u)' /\ Search(u)'
  <2>1. Ranges(u) /\ Search(u)
    BY Zenon DEF IInv
  <2>2. CASE u = t
    BY <1>1, <1>2, <2>1, <2>2, SMTT(60) DEF TypeOK, Ranges, Search
  <2>3. CASE u # t
    BY <1>1, <1>2, <2>1, <2>3, Zenon DEF TypeOK, Ranges, Search, Victim
  <2> QED
    BY <2>2, <2>3, Zenon
<1>5. ASSUME NEW x \in Items PROVE Conserved(x)'
  <2>1. Conserved(x) /\ executed' = executed /\ x \in Int
    BY <1>2 DEF IInv, NothingLostOrDuplicated, Items
  <2>2. ~HoldsShared(t, x) /\ ~HoldsPrivate(t, x)
    BY <1>1, <2>1, ThreadType, SMTT(60) DEF Ranges, HoldsShared, HoldsPrivate, InRange
  <2>3. /\ HoldsShared(t, x)' <=> HoldsStolen(t, x)
        /\ ~HoldsPrivate(t, x)' /\ ~HoldsStolen(t, x)'
    BY <1>1, <1>2, <2>1, <2>2, SMTT(60) DEF TypeOK, HoldsShared, HoldsPrivate, HoldsStolen, InRange
  <2>4. ASSUME NEW u \in Threads \ {t}
        PROVE  /\ HoldsShared(u, x)' <=> HoldsShared(u, x)
               /\ HoldsPrivate(u, x)' <=> HoldsPrivate(u, x)
               /\ HoldsStolen(u, x)' <=> HoldsStolen(u, x)
    BY <1>1, <1>2, Zenon DEF TypeOK, HoldsShared, HoldsPrivate, HoldsStolen, InRange
  <2>5. ASSUME NEW u \in Threads
        PROVE  /\ Holds(u, x)' <=> Holds(u, x)
               /\ AtMostOneHold(u, x) => AtMostOneHold(u, x)'
    BY <2>2, <2>3, <2>4, Zenon DEF Holds, AtMostOneHold
  <2> QED
    BY <2>1, <2>5, SameHolds, Zenon
<1> QED
  BY <1>3, <1>4, <1>5, Zenon DEF IInv, NothingLostOrDuplicated
-----------------------------------------------------------------------------
\* Every step of every owner and thief keeps the invariant.
LEMMA NextIInv == IInv /\ [Next]_vars => IInv'
<1> SUFFICES ASSUME IInv, [Next]_vars PROVE IInv'
  BY Zenon
<1>1. CASE UNCHANGED vars
  <2>1. TypeOK'
    BY <1>1, Zenon DEF vars, shared, private, hand, search, IInv, TypeOK
  <2>2. ASSUME NEW t \in Threads PROVE Ranges(t)' /\ Search(t)'
    BY <1>1, Zenon DEF vars, shared, private, hand, search, IInv, Ranges, Search, Victim
  <2>3. ASSUME NEW x \in Items PROVE Conserved(x)'
    <3>1. Conserved(x) /\ executed' = executed
      BY <1>1, Zenon DEF vars, IInv, NothingLostOrDuplicated
    <3>2. ASSUME NEW t \in Threads
          PROVE  /\ Holds(t, x)' <=> Holds(t, x)
                 /\ AtMostOneHold(t, x) => AtMostOneHold(t, x)'
      BY <1>1, Zenon DEF vars, shared, private, hand, Holds, AtMostOneHold, HoldsShared, HoldsPrivate, HoldsStolen, InRange
    <3> QED
      BY <3>1, <3>2, SameHolds, Zenon
  <2> QED
    BY <2>1, <2>2, <2>3, Zenon DEF IInv, NothingLostOrDuplicated
<1>2. ASSUME NEW t \in Threads, Step(t) PROVE IInv'
  BY <1>2, GetWorkIInv, ExecuteIInv, SearchingIInv, StealIInv, AssignWorkIInv, Zenon DEF Step
<1> QED
  BY <1>1, <1>2, Zenon DEF Next, Left

(* The ranges of do_all conserve the items of the loop: whatever owners and *)
(* thieves do (getWork, stealWork, assignWork), every item is executed once *)
(* and held by nobody, or not executed and in exactly one range.            *)
THEOREM DoAllConserves == Spec => []NothingLostOrDuplicated
<1>1. IInv => NothingLostOrDuplicated
  BY Zenon DEF IInv
<1> QED
  BY <1>1, InitIInv, NextIInv, PTL DEF Spec

(* The assertions of hasWork, transferWork, assignWork and operator() hold. *)
THEOREM AssertionsHold == Spec => []CodeAssertions
<1>1. IInv => CodeAssertions
  <2> SUFFICES ASSUME IInv, NEW t \in Threads
               PROVE  /\ m_size[t] > 0 => shared_beg[t] # shared_end[t]
                      /\ pc[t] = "steal" => Victim(t) # t /\ Victim(t) \in Threads
                      /\ pc[t] = "assign" => /\ m_size[t] = 0
                                             /\ steal_beg[t] # steal_end[t]
                                             /\ steal_end[t] - steal_beg[t] = steal_size[t]
                      /\ pc[t] \in {"search", "left"} => m_size[t] = 0
    BY Zenon DEF CodeAssertions
  <2>1. TypeOK /\ Ranges(t) /\ Search(t)
    BY Zenon DEF IInv
  <2> QED
    <3>1. m_size[t] > 0 => shared_beg[t] # shared_end[t]
      <4>1. /\ shared_beg[t] \in 0..Size /\ shared_end[t] \in 0..Size /\ Size \in Nat
            /\ m_size[t] = shared_end[t] - shared_beg[t]
        BY <2>1, ThreadType, Zenon DEF Ranges
      <4> QED
        BY <4>1
    <3> QED
      BY <2>1, <3>1, Zenon DEF Ranges, Search
<1> QED
  BY <1>1, InitIInv, NextIInv, PTL DEF Spec

(* Both together, for every number of threads, size and chunk size.         *)
THEOREM StealingIsSafe == Spec => []StealingSafe
  BY DoAllConserves, AssertionsHold, PTL DEF StealingSafe

(* When every thread has left operator(), every item was executed exactly   *)
(* once, and the destructor finds no work ("Unprocessed work left").        *)
THEOREM LoopIsComplete == Spec => []LoopComplete
<1>1. IInv => LoopComplete
  <2> SUFFICES ASSUME IInv, \A t \in Threads : pc[t] = "left", NEW x \in Items
               PROVE  executed[x] = 1
    BY Zenon DEF LoopComplete
  <2>1. ASSUME NEW t \in Threads PROVE ~Holds(t, x)
    <3>1. TypeOK /\ Ranges(t) /\ pc[t] = "left" /\ x \in Int
      BY DEF IInv, Items
    <3>2. /\ shared_beg[t] \in Int /\ shared_end[t] \in Int /\ shared_beg[t] = shared_end[t]
          /\ beg[t] \in Int /\ beg[t] = end[t] /\ steal_beg[t] \in Int /\ steal_beg[t] = steal_end[t]
      <4>1. /\ Size \in Nat /\ shared_beg[t] \in 0 .. Size /\ shared_end[t] \in 0 .. Size
            /\ beg[t] \in 0 .. Size /\ steal_beg[t] \in 0 .. Size
        BY <3>1, ThreadType, Zenon
      <4>2. m_size[t] = 0 /\ beg[t] = end[t] /\ steal_beg[t] = steal_end[t]
        BY <3>1 DEF Ranges
      <4>3. m_size[t] = shared_end[t] - shared_beg[t]
        BY <3>1, Zenon DEF Ranges
      <4> QED
        BY <4>1, <4>2, <4>3
    <3> QED
      BY <3>1, <3>2 DEF Holds, HoldsShared, HoldsPrivate, HoldsStolen, InRange
  <2> QED
    BY <2>1, Zenon DEF IInv, NothingLostOrDuplicated, Conserved
<1> QED
  BY <1>1, InitIInv, NextIInv, PTL DEF Spec

--------------------------------------------------------------------------------
\* What a thread's state says of its iteration: it has an item while it runs or
\* aborts it, holds objects only then and until it has released them, and keeps
\* what the operator pushes to itself.
Busy(t) == phase[t] \in {"acquire", "conflict"}

Own(t) ==
  /\ phase[t] \in {"out", "acquire", "commit", "conflict"}
  /\ phase[t] # "out" <=> ex_pc[t] \in {"wlItem", "abortsItem"}
  /\ IF Busy(t) THEN item[t] \in Item /\ pushBuffer[t] = Spawn[item[t].val]
     ELSE item[t] = NoItem /\ pushBuffer[t] = {}
  /\ phase[t] = "out" => \A o \in Objects : <<t, o>> \notin held

\* How many of the n objects of a neighborhood have been acquired when those of r
\* are left: all of them that need a lock are held.
Acquired(t, nhood, r) ==
  /\ Len(r) <= Len(nhood)
  /\ \A n \in 1 .. Len(r) : r[n] = nhood[Len(nhood) - Len(r) + n]
  /\ \A n \in 1 .. Len(nhood) - Len(r) :
       nhood[n].flag # "UNPROTECTED" => <<t, nhood[n].obj>> \in held

Acquires(t) == phase[t] = "acquire" => Acquired(t, Nhood[item[t].val], rest[t])

Exclusive == \A t, u \in Owners, o \in Objects : <<t, o>> \in held /\ <<u, o>> \in held => t = u

EntryAt(s, n, x) == n \in 1 .. Len(s) /\ s[n].val = x

InQueue(x, t, n) == EntryAt(aborted[t], n, x)

Queued(x) == \E t \in Owners : \E n \in Nat : InQueue(x, t, n)

Runs(x, t) == item[t].val = x

\* x is in one place at most, and in one if it has been created.
Alone(x) ==
  /\ wl[x] \in {0, 1} /\ committed[x] \in {0, 1}
  /\ wl[x] = 1 => committed[x] = 0
  /\ wl[x] = 1 \/ committed[x] = 1 => ~Queued(x) /\ \A t \in Owners : ~Runs(x, t)
  /\ \A t \in Owners : Runs(x, t) => ~Queued(x) /\ \A u \in Owners : Runs(x, u) => u = t
  /\ \A t, u \in Owners : \A m, n \in Nat : InQueue(x, t, m) /\ InQueue(x, u, n) => t = u /\ m = n
  /\ Created(x) <=> wl[x] = 1 \/ committed[x] = 1 \/ Queued(x) \/ \E t \in Owners : Runs(x, t)

ForEachInv ==
  /\ ForEachTypeOK
  /\ \A t \in Owners : Own(t) /\ Acquires(t)
  /\ Exclusive
  /\ \A x \in WorkItems : Alone(x)
  /\ LeavesNothing

--------------------------------------------------------------------------------
\* Threads are numbered from 0 on.
LEMMA OwnersAreNumbers ==
  /\ 0 \in Owners
  /\ \A t \in Owners : t \in Nat /\ \A m \in Nat : m <= t => m \in Owners
  BY ForEachAssumption

\* An aborted item goes to a thread of the loop.
LEMMA TargetIsOwner ==
  ASSUME ForEachTypeOK, NEW t \in Owners, NEW r
  PROVE  AbortTarget(t, r) \in Owners
<1>1. /\ Leader(t) \in Owners /\ ParentLeader(t) \in Owners /\ Leader(t) <= t
  <2>1. PICK m : m = machine
    OBVIOUS
  <2>2. m \in Machines
    BY <2>1, Zenon DEF ForEachTypeOK
  <2>3. m \in [leader : [Owners -> Owners], parent : [Owners -> Owners]] /\ m.leader[t] <= t
    BY <2>2, ForEachAssumption, Zenon
  <2>4. m.leader[t] \in Owners /\ m.parent[t] \in Owners
    BY <2>3
  <2> QED
    BY <2>1, <2>3, <2>4, Zenon DEF Leader, ParentLeader
<1> DEFINE l == Leader(t)
           m == l + (t - l) \div 2
<1>2. l \in Nat /\ t \in Nat /\ l <= t
  BY <1>1, OwnersAreNumbers
<1>3. m \in Owners
  <2> HIDE DEF l
  <2>1. m \in Nat /\ m <= t
    BY <1>2
  <2> QED
    BY <2>1, OwnersAreNumbers
<1> HIDE DEF m
<1>4. DoublePolicy(t, r) \in {t, m, ParentLeader(t)}
  BY DEF DoublePolicy, m
<1> QED
  BY <1>1, <1>3, <1>4 DEF AbortTarget, BasicPolicy

\* The operator's objects and its pushes.
LEMMA ItemTypes ==
  ASSUME NEW x \in WorkItems
  PROVE  Nhood[x] \in Seq(Access) /\ Spawn[x] \in SUBSET WorkItems
  BY ForEachAssumption, Zenon

--------------------------------------------------------------------------------
\* Every step keeps the types.
LEMMA TypeStep ==
  ASSUME ForEachInv, NEW t \in Owners, ForEachStep(t), UNCHANGED machine
  PROVE  ForEachTypeOK'
<1>0. /\ held \subseteq Owners \X Objects /\ phase \in [Owners -> Phases]
      /\ ex_pc \in [Owners -> {"wl", "wlItem", "aborts", "abortsItem", "term", "done"}]
      /\ wl \in [WorkItems -> Nat] /\ aborted \in [Owners -> Seq(Item)]
      /\ item \in [Owners -> Item \cup {NoItem}] /\ rest \in [Owners -> Seq(Access)]
      /\ pushBuffer \in [Owners -> SUBSET WorkItems] /\ broke \in BOOLEAN
      /\ didWork \in [Owners -> BOOLEAN] /\ committed \in [WorkItems -> Nat] /\ machine \in Machines
  BY Zenon DEF ForEachInv, ForEachTypeOK
<1> USE DEF ForEachTypeOK, GoOn, nhVars
<1>1. ASSUME NEW x \in WorkItems, NEW from, StartIteration(t, x), GoOn(t, from, "wlItem") \/ GoOn(t, from, "abortsItem")
      PROVE  /\ phase' \in [Owners -> Phases] /\ held' \subseteq Owners \X Objects
             /\ ex_pc' \in [Owners -> {"wl", "wlItem", "aborts", "abortsItem", "term", "done"}]
             /\ rest' \in [Owners -> Seq(Access)]
             /\ pushBuffer' \in [Owners -> SUBSET WorkItems]
             /\ didWork' \in [Owners -> BOOLEAN]
  <2>1. Nhood[x] \in Seq(Access) /\ pushBuffer[t] \cup Spawn[x] \in SUBSET WorkItems
    BY <1>0, ItemTypes
  <2> QED
    BY <1>0, <1>1, <2>1, ZenonT(60) DEF StartIteration, Begin, Enter, Phases
<1>2. ASSUME NEW x \in WorkItems, PopWork(t, x) PROVE ForEachTypeOK'
  <2>1. StartIteration(t, x) /\ GoOn(t, "wl", "wlItem")
    BY <1>2, Zenon DEF PopWork
  <2>2. wl' \in [WorkItems -> Nat]
    BY <1>0, <1>2 DEF PopWork, Available
  <2>3. item' \in [Owners -> Item \cup {NoItem}]
    BY <1>0, <1>2 DEF PopWork, Item
  <2> QED
    BY <1>0, <1>1, <1>2, <2>1, <2>2, <2>3, Zenon DEF PopWork
<1>3. ASSUME WorkIsEmpty(t) \/ LimitReached(t) \/ NoneAborted(t) \/ Decide(t) PROVE ForEachTypeOK'
  <2>1. ex_pc' \in [Owners -> {"wl", "wlItem", "aborts", "abortsItem", "term", "done"}]
    BY <1>0, <1>3, ZenonT(60) DEF WorkIsEmpty, LimitReached, NoneAborted, Decide
  <2> QED
    BY <1>0, <1>3, <2>1, Zenon DEF WorkIsEmpty, LimitReached, NoneAborted, Decide
<1>4. CASE PopAborted(t)
  <2>1. aborted[t] \in Seq(Item) /\ aborted[t] # <<>>
    BY <1>0, <1>4, Zenon DEF PopAborted
  <2>2. Head(aborted[t]) \in Item /\ Tail(aborted[t]) \in Seq(Item)
    BY <2>1
  <2>3. Head(aborted[t]).val \in WorkItems
    BY <2>2 DEF Item
  <2>4. StartIteration(t, Head(aborted[t]).val) /\ GoOn(t, "aborts", "abortsItem")
    BY <1>4, Zenon DEF PopAborted
  <2>5. item' \in [Owners -> Item \cup {NoItem}] /\ aborted' \in [Owners -> Seq(Item)]
    BY <1>0, <1>4, <2>2, Zenon DEF PopAborted
  <2>6. PICK x \in WorkItems : x = Head(aborted[t]).val
    BY <2>3, Zenon
  <2> QED
    BY <1>0, <1>1, <1>4, <2>4, <2>5, <2>6, Zenon DEF PopAborted
<1>5. CASE AcquireNext(t)
  <2>1. rest[t] \in Seq(Access) /\ rest[t] # <<>>
    BY <1>0, <1>5, Zenon DEF AcquireNext
  <2>2. Head(rest[t]) \in Access /\ Tail(rest[t]) \in Seq(Access)
    BY <2>1
  <2>3. Head(rest[t]).obj \in Objects
    BY <2>2 DEF Access
  <2>4. held' \subseteq Owners \X Objects /\ phase' = phase
    BY <1>0, <1>5, <2>3 DEF AcquireNext, Acquire
  <2>5. rest' \in [Owners -> Seq(Access)]
    BY <1>0, <1>5, <2>2, Zenon DEF AcquireNext
  <2> QED
    BY <1>0, <1>5, <2>4, <2>5, Zenon DEF AcquireNext
<1>6. CASE NextConflicts(t)
  <2>1. phase' \in [Owners -> Phases] /\ held' = held
    BY <1>0, <1>6 DEF NextConflicts, Conflict, Enter, Phases
  <2> QED
    BY <1>0, <1>6, <2>1, Zenon DEF NextConflicts
<1>7. ASSUME NEW o \in Objects, ReleaseOne(t, o) PROVE ForEachTypeOK'
  BY <1>0, <1>7, Zenon DEF ReleaseOne, Release
<1>8. CASE CommitIteration(t)
  <2>1. phase' \in [Owners -> Phases] /\ held' = held
    BY <1>0, <1>8 DEF CommitIteration, Commit, Enter, Phases
  <2>2. wl' \in [WorkItems -> Nat]
    BY <1>0, <1>8, SMTT(60) DEF CommitIteration
  <2>3. committed' \in [WorkItems -> Nat]
    <3>1. committed' = [committed EXCEPT ![item[t].val] = @ + 1]
      BY <1>8, Zenon DEF CommitIteration
    <3>2. item[t] \in Item
      BY <1>8, Zenon DEF CommitIteration, InBody, ForEachInv, Own, Busy
    <3>3. PICK x \in WorkItems : x = item[t].val
      BY <3>2 DEF Item
    <3>4. committed[x] + 1 \in Nat
      BY <1>0
    <3> QED
      BY <1>0, <3>1, <3>3, <3>4, Zenon
  <2>4. broke' \in BOOLEAN
    BY <1>8, ZenonT(60) DEF CommitIteration
  <2>5. item' \in [Owners -> Item \cup {NoItem}] /\ pushBuffer' \in [Owners -> SUBSET WorkItems]
    BY <1>0, <1>8 DEF CommitIteration, ClearedBuffer
  <2> QED
    BY <1>0, <1>8, <2>1, <2>2, <2>3, <2>4, <2>5, Zenon DEF CommitIteration
<1>9. CASE Committed(t)
  <2>1. phase' \in [Owners -> Phases] /\ held' = held
    BY <1>0, <1>9 DEF Committed, End, Enter, Phases
  <2>2. ex_pc' \in [Owners -> {"wl", "wlItem", "aborts", "abortsItem", "term", "done"}]
    BY <1>0, <1>9 DEF Committed
  <2> QED
    BY <1>0, <1>9, <2>1, <2>2, Zenon DEF Committed
<1>10. CASE AbortIteration(t)
  <2> DEFINE r == (item[t].retries + 1) % 2
             u == AbortTarget(t, r)
             e == [val |-> item[t].val, retries |-> r]
  <2>1. phase' \in [Owners -> Phases] /\ held' = held
    BY <1>0, <1>10, ZenonT(60) DEF AbortIteration, End, Enter, Phases
  <2>2. ex_pc' \in [Owners -> {"wl", "wlItem", "aborts", "abortsItem", "term", "done"}]
    BY <1>0, <1>10 DEF AbortIteration
  <2>3. item[t] \in Item
    BY <1>10, ZenonT(60) DEF AbortIteration, ForEachInv, Own, Busy
  <2>4. u \in Owners
    BY TargetIsOwner, Zenon DEF ForEachInv
  <2>5. e \in Item
    BY <2>3 DEF Item
  <2>6. aborted' = [aborted EXCEPT ![u] = Append(@, e)]
    BY <1>10, Zenon DEF AbortIteration
  <2>7. aborted' \in [Owners -> Seq(Item)]
    <3> HIDE DEF u, e
    <3> QED
      BY <1>0, <2>4, <2>5, <2>6
  <2>8. item' \in [Owners -> Item \cup {NoItem}] /\ pushBuffer' \in [Owners -> SUBSET WorkItems]
        /\ rest' \in [Owners -> Seq(Access)]
    <3>1. <<>> \in Seq(Access)
      OBVIOUS
    <3> QED
      BY <1>0, <1>10, <3>1, Zenon DEF AbortIteration, ClearedBuffer
  <2> QED
    BY <1>0, <1>10, <2>1, <2>2, <2>7, <2>8, Zenon DEF AbortIteration
<1> QED
  BY <1>2, <1>3, <1>4, <1>5, <1>6, <1>7, <1>8, <1>9, <1>10, Zenon DEF ForEachStep

--------------------------------------------------------------------------------
\* The state of thread u and of its iteration stays as it is.
SameOwner(u) ==
  /\ phase'[u] = phase[u] /\ ex_pc'[u] = ex_pc[u] /\ item'[u] = item[u]
  /\ pushBuffer'[u] = pushBuffer[u] /\ rest'[u] = rest[u]
  /\ \A o \in Objects : <<u, o>> \in held' <=> <<u, o>> \in held

\* A step of one thread leaves the iterations of the others alone.
LEMMA OthersSame ==
  ASSUME ForEachTypeOK, NEW t \in Owners, ForEachStep(t), NEW u \in Owners, u # t
  PROVE  SameOwner(u)
<1>0. /\ phase \in [Owners -> Phases] /\ ex_pc \in [Owners -> {"wl", "wlItem", "aborts", "abortsItem", "term", "done"}]
      /\ item \in [Owners -> Item \cup {NoItem}] /\ rest \in [Owners -> Seq(Access)]
      /\ pushBuffer \in [Owners -> SUBSET WorkItems]
  BY Zenon DEF ForEachTypeOK
<1> USE DEF SameOwner, GoOn, nhVars
<1>1. ASSUME NEW x, StartIteration(t, x), GoOn(t, "wl", "wlItem") \/ GoOn(t, "aborts", "abortsItem")
      PROVE  phase'[u] = phase[u] /\ pushBuffer'[u] = pushBuffer[u] /\ rest'[u] = rest[u] /\ ex_pc'[u] = ex_pc[u] /\ held' = held
  BY <1>0, <1>1, Zenon DEF StartIteration, Begin, Enter
<1>2. ASSUME NEW x \in WorkItems, PopWork(t, x) PROVE SameOwner(u)
  <2>1. item'[u] = item[u]
    BY <1>0, <1>2, Zenon DEF PopWork
  <2> QED
    BY <1>1, <1>2, <2>1, Zenon DEF PopWork
<1>3. ASSUME WorkIsEmpty(t) \/ LimitReached(t) \/ NoneAborted(t) \/ Decide(t) PROVE SameOwner(u)
  BY <1>0, <1>3, Zenon DEF WorkIsEmpty, LimitReached, NoneAborted, Decide
<1>4. CASE PopAborted(t)
  <2>1. item'[u] = item[u]
    BY <1>0, <1>4, Zenon DEF PopAborted
  <2> QED
    BY <1>1, <1>4, <2>1, Zenon DEF PopAborted
<1>5. CASE AcquireNext(t)
  <2>1. rest'[u] = rest[u]
    BY <1>0, <1>5, Zenon DEF AcquireNext
  <2>2. phase' = phase /\ \A o \in Objects : <<u, o>> \in held' <=> <<u, o>> \in held
    BY <1>0, <1>5 DEF AcquireNext, Acquire
  <2> QED
    BY <1>5, <2>1, <2>2, Zenon DEF AcquireNext
<1>6. CASE NextConflicts(t)
  BY <1>0, <1>6, Zenon DEF NextConflicts, Conflict, Enter
<1>7. ASSUME NEW o \in Objects, ReleaseOne(t, o) PROVE SameOwner(u)
  <2>1. \A p \in Objects : <<u, p>> \in held' <=> <<u, p>> \in held
    BY <1>7 DEF ReleaseOne, Release
  <2> QED
    BY <1>7, <2>1, Zenon DEF ReleaseOne, Release
<1>8. CASE CommitIteration(t)
  BY <1>0, <1>8, Zenon DEF CommitIteration, Commit, Enter, ClearedBuffer
<1>9. CASE Committed(t)
  BY <1>0, <1>9, Zenon DEF Committed, End, Enter
<1>10. CASE AbortIteration(t)
  BY <1>0, <1>10, Zenon DEF AbortIteration, End, Enter, ClearedBuffer
<1> QED
  BY <1>2, <1>3, <1>4, <1>5, <1>6, <1>7, <1>8, <1>9, <1>10, Zenon DEF ForEachStep

\* What holds of an iteration goes on holding when nothing of it changes.
LEMMA SameKeeps ==
  ASSUME ForEachInv, NEW u \in Owners, SameOwner(u)
  PROVE  Own(u)' /\ Acquires(u)'
<1>1. Own(u) /\ Acquires(u)
  BY Zenon DEF ForEachInv
<1>2. Own(u)'
  BY <1>1, Zenon DEF Own, SameOwner, Busy
<1>3. Acquires(u)'
  <2> SUFFICES ASSUME phase[u] = "acquire" PROVE Acquired(u, Nhood[item[u].val], rest[u])'
    BY Zenon DEF Acquires, SameOwner
  <2>1. item[u] \in Item
    BY <1>1, Zenon DEF Own, Busy
  <2>2. PICK x \in WorkItems : x = item[u].val
    BY <2>1 DEF Item
  <2>3. PICK s \in Seq(Access) : s = Nhood[x]
    BY ItemTypes, Zenon
  <2>4. PICK r \in Seq(Access) : r = rest[u]
    BY Zenon DEF ForEachInv, ForEachTypeOK
  <2>5. Acquired(u, s, r)
    BY <1>1, <2>2, <2>3, <2>4, Zenon DEF Acquires
  <2>6. \A n \in 1 .. Len(s) - Len(r) : s[n].obj \in Objects
    <3>1. Len(s) \in Nat /\ Len(r) \in Nat
      OBVIOUS
    <3>2. \A n \in 1 .. Len(s) : s[n] \in Access
      OBVIOUS
    <3>3. \A n \in 1 .. Len(s) - Len(r) : n \in 1 .. Len(s)
      BY <3>1
    <3>4. \A a \in Access : a.obj \in Objects
      BY DEF Access
    <3> QED
      BY <3>2, <3>3, <3>4, Zenon
  <2>7. Acquired(u, s, r)'
    BY <2>5, <2>6, Zenon DEF Acquired, SameOwner
  <2> QED
    BY <2>2, <2>3, <2>4, <2>7, Zenon DEF SameOwner
<1> QED
  BY <1>2, <1>3, Zenon

--------------------------------------------------------------------------------
\* An iteration that starts has an item, its operator's pushes and nothing locked.
LEMMA StartKeeps ==
  ASSUME ForEachInv, NEW t \in Owners, NEW x \in WorkItems, NEW r \in {0, 1},
         StartIteration(t, x), item' = [item EXCEPT ![t] = [val |-> x, retries |-> r]],
         GoOn(t, "wl", "wlItem") \/ GoOn(t, "aborts", "abortsItem")
  PROVE  Own(t)' /\ Acquires(t)'
<1>1. Own(t) /\ phase[t] = "out"
  BY Zenon DEF ForEachInv, StartIteration, Begin, Enter
<1>2. pushBuffer[t] = {}
  BY <1>1 DEF Own, Busy
<1>3. /\ phase'[t] = "acquire" /\ ex_pc'[t] \in {"wlItem", "abortsItem"} /\ item'[t] = [val |-> x, retries |-> r]
      /\ pushBuffer'[t] = pushBuffer[t] \cup Spawn[x] /\ rest'[t] = Nhood[x]
  BY Zenon DEF ForEachInv, ForEachTypeOK, StartIteration, Begin, Enter, GoOn
<1>4. item'[t] \in Item /\ item'[t].val = x
  <2>1. [val |-> x, retries |-> r] \in Item /\ [val |-> x, retries |-> r].val = x
    BY DEF Item
  <2> QED
    BY <1>3, <2>1, Zenon
<1>5. Own(t)'
  BY <1>2, <1>3, <1>4 DEF Own, Busy
<1>6. PICK s \in Seq(Access) : s = Nhood[x]
  BY ItemTypes, Zenon
<1>7. Acquired(t, s, s)'
  <2>1. Len(s) \in Nat
    BY <1>6
  <2> HIDE <1>6
  <2>2. /\ Len(s) <= Len(s) /\ \A n \in 1 .. Len(s) : Len(s) - Len(s) + n = n
        /\ \A n \in 1 .. Len(s) - Len(s) : FALSE
    BY <2>1
  <2> QED
    BY <2>2, Zenon DEF Acquired
<1> QED
  BY <1>3, <1>4, <1>5, <1>6, <1>7, Zenon DEF Acquires

\* An object more is acquired in the order of the neighborhood.
LEMMA AcquireKeeps ==
  ASSUME ForEachInv, NEW t \in Owners, AcquireNext(t)
  PROVE  Own(t)' /\ Acquires(t)'
<1>1. Own(t) /\ Acquires(t) /\ phase[t] = "acquire"
  BY Zenon DEF ForEachInv, AcquireNext
<1>2. /\ phase' = phase /\ ex_pc' = ex_pc /\ item' = item /\ pushBuffer' = pushBuffer
  BY Zenon DEF AcquireNext, Acquire, nhVars
<1>3. Own(t)'
  BY <1>1, <1>2 DEF Own, Busy
<1>4. item[t] \in Item
  BY <1>1, Zenon DEF Own, Busy
<1>5. PICK x \in WorkItems : x = item[t].val
  BY <1>4 DEF Item
<1>6. PICK s \in Seq(Access) : s = Nhood[x]
  BY ItemTypes, Zenon
<1>7. PICK r \in Seq(Access) : r = rest[t]
  BY Zenon DEF ForEachInv, ForEachTypeOK
<1>8. Acquired(t, s, r) /\ r # <<>>
  BY <1>1, <1>5, <1>6, <1>7, Zenon DEF Acquires, AcquireNext
<1>9. PICK q \in Seq(Access) : q = Tail(r)
  <2>1. Tail(r) \in Seq(Access)
    BY <1>8
  <2> QED
    BY <2>1, Zenon
<1>10. rest'[t] = q
  BY <1>7, <1>9, Zenon DEF AcquireNext, ForEachInv, ForEachTypeOK
<1>11. /\ Len(q) = Len(r) - 1 /\ Len(r) \in Nat /\ Len(s) \in Nat /\ Len(r) >= 1 /\ Len(q) \in Nat
       /\ \A n \in 1 .. Len(q) : q[n] = r[n + 1]
       /\ Head(r) = r[1]
  <2>1. Len(r) \in Nat /\ Len(s) \in Nat /\ Len(q) \in Nat /\ Head(r) = r[1]
    OBVIOUS
  <2>2. Len(r) # 0
    BY <1>8
  <2>3. Len(q) = Len(r) - 1 /\ \A n \in 1 .. Len(q) : q[n] = r[n + 1]
    BY <1>8, <1>9
  <2> QED
    BY <2>1, <2>2, <2>3
<1>12. Head(r) = s[Len(s) - Len(r) + 1]
  BY <1>8, <1>11 DEF Acquired
<1>13. Head(r) \in Access
  BY <1>8
<1>14. Head(r).flag # "UNPROTECTED" => <<t, Head(r).obj>> \in held'
  <2>1. Head(r).flag \in {"READ", "WRITE", "UNPROTECTED"}
    BY <1>13 DEF Access
  <2>2. Head(r).flag # "UNPROTECTED" => ShouldLock(Head(r).flag)
    BY <2>1 DEF ShouldLock
  <2> QED
    BY <1>7, <2>2, Zenon DEF AcquireNext, Acquire
<1>15. held \subseteq held'
  BY Zenon DEF AcquireNext, Acquire, nhVars
<1>16. Acquired(t, s, q)'
  <2>1. Len(q) <= Len(s) /\ \A n \in 1 .. Len(q) : q[n] = s[Len(s) - Len(q) + n]
    <3>1. \A n \in 1 .. Len(r) : r[n] = s[Len(s) - Len(r) + n]
      BY <1>8, Zenon DEF Acquired
    <3>2. Len(r) <= Len(s)
      BY <1>8, Zenon DEF Acquired
    <3>3. ASSUME NEW n \in 1 .. Len(q) PROVE q[n] = s[Len(s) - Len(q) + n]
      <4>1. n + 1 \in 1 .. Len(r) /\ Len(s) - Len(r) + (n + 1) = Len(s) - Len(q) + n
        BY <1>11
      <4>2. PICK m : m = n + 1
        OBVIOUS
      <4> QED
        BY <1>11, <3>1, <4>1, <4>2, Zenon
    <3> QED
      BY <1>11, <3>2, <3>3
  <2>2. ASSUME NEW n \in 1 .. Len(s) - Len(q), s[n].flag # "UNPROTECTED" PROVE <<t, s[n].obj>> \in held'
    <3>1. CASE n = Len(s) - Len(r) + 1
      BY <1>12, <1>14, <2>2, <3>1, ZenonT(60)
    <3>2. CASE n # Len(s) - Len(r) + 1
      <4>1. n \in 1 .. Len(s) - Len(r)
        <5>1. PICK a \in Nat, b \in Nat, c \in Nat : a = Len(s) /\ b = Len(r) /\ c = Len(q)
          BY <1>11, Zenon
        <5>2. n \in 1 .. a - c /\ c = b - 1 /\ n # a - b + 1
          BY <1>11, <3>2, <5>1, Zenon
        <5>3. n \in 1 .. a - b
          BY <5>2
        <5> QED
          BY <5>1, <5>3, Zenon
      <4> QED
        BY <1>8, <1>15, <2>2, <4>1, Zenon DEF Acquired
    <3> QED
      BY <3>1, <3>2, Zenon
  <2> QED
    BY <2>1, <2>2, Zenon DEF Acquired
<1> QED
  BY <1>2, <1>3, <1>5, <1>6, <1>10, <1>16, Zenon DEF Acquires

\* What holds of the iteration of the thread that makes the step.
LEMMA OwnStep ==
  ASSUME ForEachInv, NEW t \in Owners, ForEachStep(t)
  PROVE  Own(t)' /\ Acquires(t)'
<1>0. /\ phase \in [Owners -> Phases]
      /\ ex_pc \in [Owners -> {"wl", "wlItem", "aborts", "abortsItem", "term", "done"}]
      /\ aborted \in [Owners -> Seq(Item)]
      /\ item \in [Owners -> Item \cup {NoItem}] /\ pushBuffer \in [Owners -> SUBSET WorkItems]
  BY Zenon DEF ForEachInv, ForEachTypeOK
<1>a. Own(t) /\ Acquires(t)
  BY Zenon DEF ForEachInv
<1>2. ASSUME NEW x \in WorkItems, PopWork(t, x) PROVE Own(t)' /\ Acquires(t)'
  <2>1. 0 \in {0, 1}
    OBVIOUS
  <2> QED
    BY <1>2, <2>1, StartKeeps, Zenon DEF PopWork
<1>3. ASSUME WorkIsEmpty(t) \/ LimitReached(t) \/ NoneAborted(t) \/ Decide(t) PROVE Own(t)' /\ Acquires(t)'
  <2>1. /\ phase' = phase /\ held' = held /\ item' = item /\ pushBuffer' = pushBuffer /\ rest' = rest
        /\ ex_pc[t] \in {"wl", "aborts", "term"} /\ ex_pc'[t] \in {"wl", "aborts", "term", "done"}
    BY <1>0, <1>3 DEF WorkIsEmpty, LimitReached, NoneAborted, Decide, GoOn, nhVars
  <2>2. phase[t] = "out"
    BY <1>a, <2>1, ZenonT(60) DEF Own
  <2> QED
    BY <1>a, <2>1, <2>2, ZenonT(60) DEF Own, Busy, Acquires
<1>4. CASE PopAborted(t)
  <2>1. Head(aborted[t]) \in Item
    <3>1. aborted[t] \in Seq(Item) /\ aborted[t] # <<>>
      BY <1>0, <1>4, Zenon DEF PopAborted
    <3> QED
      BY <3>1
  <2>2. PICK e \in Item : e = Head(aborted[t])
    BY <2>1, Zenon
  <2>3. PICK x \in WorkItems, r \in {0, 1} : e = [val |-> x, retries |-> r] /\ x = e.val
    BY DEF Item
  <2> QED
    BY <1>4, <2>2, <2>3, StartKeeps, Zenon DEF PopAborted
<1>5. CASE AcquireNext(t)
  BY <1>5, AcquireKeeps, Zenon
<1>6. CASE NextConflicts(t)
  <2>1. /\ phase[t] = "acquire" /\ phase'[t] = "conflict" /\ held' = held
        /\ item' = item /\ pushBuffer' = pushBuffer /\ ex_pc' = ex_pc
    BY <1>0, <1>6, ZenonT(60) DEF NextConflicts, Conflict, Enter
  <2> QED
    BY <1>a, <2>1, ZenonT(60) DEF Own, Busy, Acquires
<1>7. ASSUME NEW o \in Objects, ReleaseOne(t, o) PROVE Own(t)' /\ Acquires(t)'
  <2>1. phase[t] \notin {"out", "acquire"} /\ phase' = phase
    BY <1>7 DEF ReleaseOne, Release
  <2>2. item' = item /\ pushBuffer' = pushBuffer /\ ex_pc' = ex_pc
    BY <1>7, Zenon DEF ReleaseOne
  <2> QED
    BY <1>a, <2>1, <2>2, ZenonT(60) DEF Own, Busy, Acquires
<1>8. CASE CommitIteration(t)
  <2>1. /\ phase[t] = "acquire" /\ phase'[t] = "commit"
        /\ item'[t] = NoItem /\ pushBuffer'[t] = {} /\ ex_pc' = ex_pc
    BY <1>0, <1>8 DEF CommitIteration, Commit, Enter, ClearedBuffer
  <2> QED
    BY <1>a, <2>1, ZenonT(60) DEF Own, Busy, Acquires
<1>9. CASE Committed(t)
  <2>1. /\ phase[t] = "commit" /\ phase'[t] = "out" /\ held' = held /\ \A o \in Objects : <<t, o>> \notin held
        /\ item' = item /\ pushBuffer' = pushBuffer /\ ex_pc'[t] \in {"wl", "aborts"}
    BY <1>0, <1>9 DEF Committed, End, Enter
  <2> QED
    BY <1>a, <2>1, ZenonT(60) DEF Own, Busy, Acquires
<1>10. CASE AbortIteration(t)
  <2>1. /\ phase[t] = "conflict" /\ phase'[t] = "out" /\ held' = held /\ \A o \in Objects : <<t, o>> \notin held
        /\ ex_pc'[t] \in {"aborts", "term"}
    BY <1>0, <1>10, ZenonT(60) DEF AbortIteration, End, Enter
  <2>2. item'[t] = NoItem /\ pushBuffer'[t] = {}
    BY <1>0, <1>10, Zenon DEF AbortIteration, ClearedBuffer
  <2> QED
    BY <1>a, <2>1, <2>2, ZenonT(60) DEF Own, Busy, Acquires
<1> QED
  BY <1>2, <1>3, <1>4, <1>5, <1>6, <1>7, <1>8, <1>9, <1>10, Zenon DEF ForEachStep

\* No object is ever locked by two iterations.
LEMMA ExclusiveStep ==
  ASSUME ForEachInv, NEW t \in Owners, ForEachStep(t)
  PROVE  Exclusive'
<1>1. Exclusive
  BY Zenon DEF ForEachInv
<1>2. \/ held' \subseteq held
      \/ \E o \in Objects : held' = held \cup {<<t, o>>} /\ ~HeldByOther(t, o)
  <2>1. CASE AcquireNext(t)
    <3>1. Head(rest[t]).obj \in Objects
      <4>1. rest[t] \in Seq(Access) /\ rest[t] # <<>>
        BY <2>1, Zenon DEF AcquireNext, ForEachInv, ForEachTypeOK
      <4>2. Head(rest[t]) \in Access
        BY <4>1
      <4> QED
        BY <4>2 DEF Access
    <3> QED
      BY <2>1, <3>1, Zenon DEF AcquireNext, Acquire, nhVars
  <2>2. CASE ~AcquireNext(t)
    BY <2>2, Zenon DEF ForEachStep, PopWork, WorkIsEmpty, LimitReached, PopAborted, NoneAborted, NextConflicts, ReleaseOne, CommitIteration, Committed, AbortIteration, Decide, nhVars, StartIteration, Begin, Conflict, Release, Commit, End
  <2> QED
    BY <2>1, <2>2, Zenon
<1>3. CASE held' \subseteq held
  BY <1>1, <1>3, Zenon DEF Exclusive
<1>4. ASSUME NEW o \in Objects, held' = held \cup {<<t, o>>}, ~HeldByOther(t, o) PROVE Exclusive'
  BY <1>1, <1>4 DEF Exclusive, HeldByOther
<1> QED
  BY <1>2, <1>3, <1>4, Zenon

--------------------------------------------------------------------------------
\* An item of the abort queue of thread t after its first entry has been taken was
\* there one place further back.
LEMMA Taken ==
  ASSUME NEW s \in Seq(Item), s # <<>>, NEW n \in Nat, NEW x
  PROVE  EntryAt(Tail(s), n, x) <=> n >= 1 /\ EntryAt(s, n + 1, x)
<1>1. Len(s) \in Nat /\ Len(s) # 0 /\ Len(Tail(s)) = Len(s) - 1
  OBVIOUS
<1>2. \A m \in 1 .. Len(Tail(s)) : Tail(s)[m] = s[m + 1]
  OBVIOUS
<1>3. n \in 1 .. Len(Tail(s)) <=> n >= 1 /\ n + 1 \in 1 .. Len(s)
  BY <1>1
<1> QED
  BY <1>2, <1>3, Zenon DEF EntryAt

\* An entry is appended to the abort queue.
LEMMA Appended ==
  ASSUME NEW s \in Seq(Item), NEW e \in Item, NEW n \in Nat, NEW x
  PROVE  EntryAt(Append(s, e), n, x) <=> EntryAt(s, n, x) \/ (n = Len(s) + 1 /\ e.val = x)
<1>1. Len(s) \in Nat /\ Len(Append(s, e)) = Len(s) + 1
  OBVIOUS
<1>2. Append(s, e)[Len(s) + 1] = e /\ \A m \in 1 .. Len(s) : Append(s, e)[m] = s[m]
  OBVIOUS
<1>3. n \in 1 .. Len(Append(s, e)) <=> n \in 1 .. Len(s) \/ n = Len(s) + 1
  BY <1>1
<1>4. ~(Len(s) + 1 \in 1 .. Len(s))
  BY <1>1
<1> QED
  BY <1>2, <1>3, <1>4, Zenon DEF EntryAt

\* No idle thread runs an item.
LEMMA NoItemRuns ==
  ASSUME NEW x \in WorkItems
  PROVE  NoItem.val # x
<1>1. NoItem.val = "none"
  BY DEF NoItem
<1> QED
  BY <1>1, ForEachAssumption, Zenon

\* A running item is one of the items.
LEMMA BusyRuns ==
  ASSUME ForEachInv, NEW t \in Owners, Busy(t)
  PROVE  /\ item[t] \in Item /\ item[t].val \in WorkItems /\ pushBuffer[t] = Spawn[item[t].val]
<1>1. item[t] \in Item /\ pushBuffer[t] = Spawn[item[t].val]
  BY Zenon DEF ForEachInv, Own
<1> QED
  BY <1>1 DEF Item

\* Nothing about where x is changes.
SameItem(x) ==
  /\ wl'[x] = wl[x] /\ committed'[x] = committed[x]
  /\ \A t \in Owners : Runs(x, t)' <=> Runs(x, t)
  /\ \A t \in Owners, n \in Nat : InQueue(x, t, n)' <=> InQueue(x, t, n)
  /\ Created(x)' <=> Created(x)

\* Then x is still where it was.
LEMMA SameItemKeeps ==
  ASSUME NEW x \in WorkItems, Alone(x), SameItem(x)
  PROVE  Alone(x)'
<1>1. Queued(x)' <=> Queued(x)
  BY Zenon DEF Queued, SameItem
<1> QED
  BY <1>1, Zenon DEF Alone, SameItem

\* What has been created changes only when an iteration commits.
LEMMA CreatedSame ==
  ASSUME NEW x, committed' = committed
  PROVE  Created(x)' <=> Created(x)
  BY Zenon DEF Created

\* The step from the worklist into an iteration.
LEMMA PopWorkItems ==
  ASSUME ForEachInv, NEW t \in Owners, NEW x \in WorkItems, PopWork(t, x), NEW y \in WorkItems
  PROVE  Alone(y)'
<1>0. wl \in [WorkItems -> Nat] /\ item \in [Owners -> Item \cup {NoItem}]
  BY Zenon DEF ForEachInv, ForEachTypeOK
<1>1. Alone(x) /\ Alone(y) /\ Own(t)
  BY Zenon DEF ForEachInv
<1>2. /\ aborted' = aborted /\ committed' = committed /\ wl[x] > 0 /\ wl' = [wl EXCEPT ![x] = @ - 1]
      /\ item' = [item EXCEPT ![t] = [val |-> x, retries |-> 0]] /\ phase[t] = "out"
  BY ZenonT(60) DEF PopWork, Available, StartIteration, Begin, Enter
<1>3. wl[x] = 1 /\ wl'[x] = 0 /\ committed[x] = 0
  <2>1. wl[x] = 1 /\ committed[x] = 0
    BY <1>1, <1>2, SMTT(60) DEF Alone
  <2> QED
    BY <1>0, <1>2, <2>1
<1>4. item[t] = NoItem
  BY <1>1, <1>2, ZenonT(60) DEF Own, Busy
<1>5. item'[t].val = x /\ \A u \in Owners : u # t => item'[u] = item[u]
  BY <1>0, <1>2
<1>6. \A z, u, n : InQueue(z, u, n)' <=> InQueue(z, u, n)
  BY <1>2, Zenon DEF InQueue
<1>7. CASE y = x
  <2>1. ~Queued(x) /\ \A u \in Owners : ~Runs(x, u)
    BY <1>1, <1>3, Zenon DEF Alone
  <2>2. ~Queued(x)'
    BY <1>6, <2>1, Zenon DEF Queued
  <2>3. \A u \in Owners : Runs(x, u)' <=> u = t
    BY <1>5, <2>1, Zenon DEF Runs
  <2>4. Created(x)' /\ committed'[x] = 0 /\ wl'[x] = 0
    BY <1>1, <1>2, <1>3, CreatedSame, Zenon DEF Alone
  <2>5. \A u \in Owners, n \in Nat : ~InQueue(x, u, n)'
    BY <2>2, Zenon DEF Queued
  <2>6. 0 # 1
    OBVIOUS
  <2> QED
    BY <1>7, <2>2, <2>3, <2>4, <2>5, <2>6, Zenon DEF Alone
<1>8. CASE y # x
  <2>1. \A u \in Owners : Runs(y, u)' <=> Runs(y, u)
    BY <1>4, <1>5, <1>8, NoItemRuns, Zenon DEF Runs
  <2>2. wl'[y] = wl[y]
    BY <1>0, <1>2, <1>8, Zenon
  <2> QED
    BY <1>1, <1>2, <1>6, <2>1, <2>2, CreatedSame, SameItemKeeps, Zenon DEF SameItem
<1> QED
  BY <1>7, <1>8, Zenon

\* The step from an abort queue into an iteration.
LEMMA PopAbortedItems ==
  ASSUME ForEachInv, NEW t \in Owners, PopAborted(t), NEW y \in WorkItems
  PROVE  Alone(y)'
<1>0. item \in [Owners -> Item \cup {NoItem}] /\ aborted \in [Owners -> Seq(Item)]
  BY Zenon DEF ForEachInv, ForEachTypeOK
<1>1. Alone(y) /\ Own(t)
  BY Zenon DEF ForEachInv
<1>2. PICK s \in Seq(Item) : s = aborted[t]
  BY <1>0, Zenon
<1>3. /\ aborted' = [aborted EXCEPT ![t] = Tail(s)] /\ committed' = committed /\ wl' = wl /\ s # <<>>
      /\ item' = [item EXCEPT ![t] = Head(s)] /\ phase[t] = "out"
  BY <1>2, ZenonT(60) DEF PopAborted, StartIteration, Begin, Enter
<1>4. item[t] = NoItem
  BY <1>1, <1>3, ZenonT(60) DEF Own, Busy
<1>5. item'[t] = Head(s) /\ aborted'[t] = Tail(s)
      /\ \A u \in Owners : u # t => item'[u] = item[u] /\ aborted'[u] = aborted[u]
  BY <1>0, <1>3, Zenon
<1>6. Head(s) = s[1] /\ 1 \in 1 .. Len(s) /\ 1 \in Nat
  BY <1>3
<1>7. \A u \in Owners, n \in Nat : u # t => (InQueue(y, u, n)' <=> InQueue(y, u, n))
  BY <1>5, Zenon DEF InQueue
<1>8. \A n \in Nat : InQueue(y, t, n)' <=> n >= 1 /\ InQueue(y, t, n + 1)
  <2> SUFFICES ASSUME NEW n \in Nat PROVE InQueue(y, t, n)' <=> n >= 1 /\ InQueue(y, t, n + 1)
    OBVIOUS
  <2>1. EntryAt(Tail(s), n, y) <=> n >= 1 /\ EntryAt(s, n + 1, y)
    BY <1>3, Taken, Zenon
  <2> QED
    BY <1>2, <1>5, <2>1, Zenon DEF InQueue
<1>9. Head(s).val = y <=> InQueue(y, t, 1)
  BY <1>2, <1>6, Zenon DEF InQueue, EntryAt
<1>10. \A n \in Nat : n + 1 \in Nat /\ \A u \in Owners : InQueue(y, u, n) => n >= 1
  <2>1. \A n \in Nat : n + 1 \in Nat
    OBVIOUS
  <2>2. \A n \in Nat : \A q : EntryAt(q, n, y) => n >= 1
    BY DEF EntryAt
  <2> QED
    BY <2>1, <2>2, Zenon DEF InQueue
<1>14. \A u \in Owners, n \in Nat :
         InQueue(y, u, n)' => n >= 1 /\ \E k \in Nat : InQueue(y, u, k) /\ k = IF u = t THEN n + 1 ELSE n
  <2> SUFFICES ASSUME NEW u \in Owners, NEW n \in Nat, InQueue(y, u, n)'
               PROVE  n >= 1 /\ \E k \in Nat : InQueue(y, u, k) /\ k = IF u = t THEN n + 1 ELSE n
    BY Zenon
  <2>1. CASE u = t
    BY <1>8, <1>10, <2>1, Zenon
  <2>2. CASE u # t
    BY <1>7, <1>10, <2>2, Zenon
  <2> QED
    BY <2>1, <2>2, Zenon
<1>11. \A u, v \in Owners, m, n \in Nat : InQueue(y, u, m)' /\ InQueue(y, v, n)' => u = v /\ m = n
  <2> SUFFICES ASSUME NEW u \in Owners, NEW v \in Owners, NEW m \in Nat, NEW n \in Nat,
                      InQueue(y, u, m)', InQueue(y, v, n)'
               PROVE  u = v /\ m = n
    BY Zenon
  <2>1. \A a, b \in Owners : \A k, l \in Nat : InQueue(y, a, k) /\ InQueue(y, b, l) => a = b /\ k = l
    BY <1>1, Zenon DEF Alone
  <2>2. PICK k \in Nat : InQueue(y, u, k) /\ k = IF u = t THEN m + 1 ELSE m
    BY <1>14, Zenon
  <2>3. PICK l \in Nat : InQueue(y, v, l) /\ l = IF v = t THEN n + 1 ELSE n
    BY <1>14, Zenon
  <2>4. u = v /\ k = l
    BY <2>1, <2>2, <2>3, Zenon
  <2> QED
    BY <2>2, <2>3, <2>4
<1>12. CASE Head(s).val = y
  <2>1. Queued(y) /\ \A u \in Owners : ~Runs(y, u)
    BY <1>1, <1>6, <1>9, <1>12, Zenon DEF Alone, Queued
  <2>2. wl[y] = 0 /\ committed[y] = 0 /\ Created(y)
    <3>1. wl[y] # 1 /\ committed[y] # 1 /\ Created(y)
      BY <1>1, <2>1, Zenon DEF Alone
    <3> QED
      BY <1>1, <3>1, ZenonT(60) DEF Alone
  <2>3. \A u \in Owners, n \in Nat : InQueue(y, u, n) => u = t /\ n = 1
    BY <1>1, <1>6, <1>9, <1>12, Zenon DEF Alone
  <2>4. \A n \in Nat : n >= 1 => n + 1 # 1
    OBVIOUS
  <2>5. ~Queued(y)'
    <3> SUFFICES ASSUME NEW u \in Owners, NEW n \in Nat, InQueue(y, u, n)' PROVE FALSE
      BY Zenon DEF Queued
    <3>1. PICK k \in Nat : n >= 1 /\ InQueue(y, u, k) /\ k = IF u = t THEN n + 1 ELSE n
      BY <1>14, Zenon
    <3>2. u = t /\ k = 1
      BY <2>3, <3>1, Zenon
    <3> QED
      BY <2>4, <3>1, <3>2, Zenon
  <2>6. \A u \in Owners : Runs(y, u)' <=> u = t
    BY <1>5, <1>12, <2>1, Zenon DEF Runs
  <2>7. Created(y)' /\ committed'[y] = 0 /\ wl'[y] = 0
    BY <1>3, <2>2, CreatedSame, Zenon
  <2>8. 0 # 1
    OBVIOUS
  <2> QED
    BY <1>11, <2>5, <2>6, <2>7, <2>8, Zenon DEF Alone
<1>13. CASE Head(s).val # y
  <2>1. \A u \in Owners : Runs(y, u)' <=> Runs(y, u)
    BY <1>4, <1>5, <1>13, NoItemRuns, Zenon DEF Runs
  <2>2. \A n \in Nat : InQueue(y, t, n) => \E m \in Nat : m >= 1 /\ n = m + 1
    <3> SUFFICES ASSUME NEW n \in Nat, InQueue(y, t, n) PROVE \E m \in Nat : m >= 1 /\ n = m + 1
      BY Zenon
    <3>1. n # 1 /\ n >= 1
      BY <1>9, <1>10, <1>13, Zenon
    <3>2. n - 1 \in Nat /\ n - 1 >= 1 /\ n = (n - 1) + 1
      BY <3>1
    <3> QED
      BY <3>2, Zenon
  <2>3. Queued(y)' <=> Queued(y)
    <3>1. Queued(y)' => Queued(y)
      BY <1>14, Zenon DEF Queued
    <3>2. ASSUME NEW u \in Owners, NEW n \in Nat, InQueue(y, u, n) PROVE Queued(y)'
      <4>1. CASE u # t
        BY <1>7, <3>2, <4>1, Zenon DEF Queued
      <4>2. CASE u = t
        <5>1. PICK m \in Nat : m >= 1 /\ n = m + 1
          BY <2>2, <3>2, <4>2, Zenon
        <5> QED
          BY <1>8, <3>2, <4>2, <5>1, Zenon DEF Queued
      <4> QED
        BY <4>1, <4>2, Zenon
    <3> QED
      BY <3>1, <3>2, Zenon DEF Queued
  <2>4. Created(y)' <=> Created(y)
    BY <1>3, CreatedSame, Zenon
  <2> QED
    BY <1>1, <1>3, <1>11, <2>1, <2>3, <2>4, Zenon DEF Alone
<1> QED
  BY <1>12, <1>13, Zenon

\* The step from an iteration into an abort queue.
LEMMA AbortItems ==
  ASSUME ForEachInv, NEW t \in Owners, AbortIteration(t), NEW y \in WorkItems
  PROVE  Alone(y)'
<1>0. item \in [Owners -> Item \cup {NoItem}] /\ aborted \in [Owners -> Seq(Item)]
  BY Zenon DEF ForEachInv, ForEachTypeOK
<1>1. Alone(y) /\ item[t] \in Item
  BY BusyRuns, ZenonT(60) DEF ForEachInv, Busy, AbortIteration
<1>2. PICK r : r = (item[t].retries + 1) % 2
  OBVIOUS
<1>3. PICK a \in Owners : a = AbortTarget(t, r)
  BY TargetIsOwner, Zenon DEF ForEachInv
<1>4. PICK e : e = [val |-> item[t].val, retries |-> r]
  BY ZenonT(60)
<1>5. e \in Item /\ e.val = item[t].val
  BY <1>1, <1>2, <1>4, SMTT(60) DEF Item
<1>6. PICK s \in Seq(Item) : s = aborted[a]
  BY <1>0, Zenon
<1>7. /\ aborted' = [aborted EXCEPT ![a] = Append(s, e)] /\ committed' = committed /\ wl' = wl
      /\ item' = [item EXCEPT ![t] = NoItem]
  BY <1>2, <1>3, <1>4, <1>6, Zenon DEF AbortIteration
<1>8. item'[t] = NoItem /\ aborted'[a] = Append(s, e)
      /\ (\A u \in Owners : u # t => item'[u] = item[u])
      /\ (\A u \in Owners : u # a => aborted'[u] = aborted[u])
  BY <1>0, <1>7, Zenon
<1>9. \A u \in Owners, n \in Nat :
        InQueue(y, u, n)' <=> InQueue(y, u, n) \/ (u = a /\ n = Len(s) + 1 /\ e.val = y)
  <2> SUFFICES ASSUME NEW u \in Owners, NEW n \in Nat
               PROVE  InQueue(y, u, n)' <=> InQueue(y, u, n) \/ (u = a /\ n = Len(s) + 1 /\ e.val = y)
    OBVIOUS
  <2>1. CASE u # a
    BY <1>8, <2>1, Zenon DEF InQueue
  <2>2. CASE u = a
    <3>1. EntryAt(Append(s, e), n, y) <=> EntryAt(s, n, y) \/ (n = Len(s) + 1 /\ e.val = y)
      BY <1>5, Appended, Zenon
    <3> QED
      BY <1>6, <1>8, <2>2, <3>1, Zenon DEF InQueue
  <2> QED
    BY <2>1, <2>2, Zenon
<1>10. Created(y)' <=> Created(y)
  BY <1>7, CreatedSame, Zenon
<1>11. CASE e.val = y
  <2>1. Runs(y, t) /\ ~Queued(y) /\ \A u \in Owners : Runs(y, u) => u = t
    BY <1>1, <1>5, <1>11, Zenon DEF Alone, Runs
  <2>2. wl[y] = 0 /\ committed[y] = 0 /\ Created(y)
    <3>1. wl[y] # 1 /\ committed[y] # 1 /\ Created(y)
      BY <1>1, <2>1, Zenon DEF Alone
    <3> QED
      BY <1>1, <3>1, ZenonT(60) DEF Alone
  <2>3. \A u \in Owners : ~Runs(y, u)'
    BY <1>8, <2>1, NoItemRuns, Zenon DEF Runs
  <2>4. \A u \in Owners, n \in Nat : InQueue(y, u, n)' <=> u = a /\ n = Len(s) + 1
    BY <1>9, <1>11, <2>1, Zenon DEF Queued
  <2>5. Len(s) + 1 \in Nat /\ 0 # 1
    OBVIOUS
  <2>6. Queued(y)'
    BY <2>4, <2>5, Zenon DEF Queued
  <2>7. \A u, v \in Owners : \A m, n \in Nat : InQueue(y, u, m)' /\ InQueue(y, v, n)' => u = v /\ m = n
    BY <2>4, Zenon
  <2>8. Created(y)' /\ committed'[y] = 0 /\ wl'[y] = 0
    BY <1>7, <1>10, <2>2, Zenon
  <2> QED
    BY <2>3, <2>5, <2>6, <2>7, <2>8, Zenon DEF Alone
<1>12. CASE e.val # y
  <2>1. \A u \in Owners : Runs(y, u)' <=> Runs(y, u)
    BY <1>5, <1>8, <1>12, NoItemRuns, Zenon DEF Runs
  <2> QED
    BY <1>1, <1>7, <1>9, <1>10, <1>12, <2>1, SameItemKeeps, Zenon DEF SameItem
<1> QED
  BY <1>11, <1>12, Zenon

\* The step that commits an iteration: its pushes come into being.
LEMMA CommitItems ==
  ASSUME ForEachInv, NEW t \in Owners, CommitIteration(t), NEW y \in WorkItems
  PROVE  Alone(y)'
<1>0. /\ item \in [Owners -> Item \cup {NoItem}] /\ wl \in [WorkItems -> Nat]
      /\ committed \in [WorkItems -> Nat]
  BY Zenon DEF ForEachInv, ForEachTypeOK
<1>1. Busy(t)
  BY DEF CommitIteration, InBody, Busy
<1>2. PICK x \in WorkItems : x = item[t].val
  BY <1>1, BusyRuns, Zenon
<1>3. Alone(x) /\ Alone(y) /\ Runs(x, t)
  BY <1>2, Zenon DEF ForEachInv, Runs
<1>4. /\ aborted' = aborted /\ committed' = [committed EXCEPT ![x] = @ + 1]
      /\ wl' = [l \in WorkItems |-> wl[l] + IF l \in Spawn[x] THEN 1 ELSE 0]
      /\ item' = [item EXCEPT ![t] = NoItem]
  BY <1>1, <1>2, BusyRuns, Zenon DEF CommitIteration
<1>5. item'[t] = NoItem /\ \A u \in Owners : u # t => item'[u] = item[u]
  BY <1>0, <1>4, Zenon
<1>6. /\ committed[x] = 0 /\ wl[x] = 0 /\ ~Queued(x) /\ Created(x)
      /\ \A u \in Owners : Runs(x, u) => u = t
  <2>1. committed[x] # 1 /\ wl[x] # 1 /\ ~Queued(x) /\ Created(x) /\ \A u \in Owners : Runs(x, u) => u = t
    BY <1>3, Zenon DEF Alone
  <2> QED
    BY <1>3, <2>1, ZenonT(60) DEF Alone
<1>7. committed'[x] = 1 /\ \A z \in WorkItems : z # x => committed'[z] = committed[z]
  <2>1. 0 + 1 = 1
    OBVIOUS
  <2> QED
    BY <1>0, <1>4, <1>6, <2>1, Zenon
<1>8. /\ \A z \in WorkItems : z \notin Spawn[x] => wl'[z] = wl[z]
      /\ \A z \in WorkItems : z \in Spawn[x] => wl'[z] = wl[z] + 1
  BY <1>0, <1>4, SMTT(60)
<1>9. \A z, u, n : InQueue(z, u, n)' <=> InQueue(z, u, n)
  BY <1>4, Zenon DEF InQueue
<1>10. \A z : Queued(z)' <=> Queued(z)
  BY <1>9, Zenon DEF Queued
<1>11. \A z \in WorkItems : z \in Spawn[x] => ~Created(z)
  <2> SUFFICES ASSUME NEW z \in WorkItems, z \in Spawn[x], Created(z) PROVE FALSE
    BY Zenon
  <2>1. z \notin Initial
    BY ForEachAssumption
  <2>2. PICK w \in WorkItems : committed[w] > 0 /\ z \in Spawn[w]
    BY <2>1, Zenon DEF Created
  <2>3. w = x
    BY <2>2, ForEachAssumption, Zenon
  <2> QED
    BY <1>6, <2>2, <2>3, SMTT(60)
<1>12. x \notin Spawn[x]
  BY <1>6, <1>11, Zenon
<1>13. \A z \in WorkItems : Created(z)' <=> Created(z) \/ z \in Spawn[x]
  <2>1. \A w \in WorkItems : committed'[w] > 0 <=> committed[w] > 0 \/ w = x
    <3>1. 1 > 0 /\ ~(0 > 0)
      OBVIOUS
    <3> QED
      BY <1>6, <1>7, <3>1, Zenon
  <2> QED
    BY <2>1, Zenon DEF Created
<1>14. CASE y = x
  <2>1. \A u \in Owners : ~Runs(x, u)'
    BY <1>5, <1>6, NoItemRuns, Zenon DEF Runs
  <2>2. wl'[x] = 0 /\ 0 # 1
    BY <1>6, <1>8, <1>12, SMTT(60)
  <2>3. \A u \in Owners, n \in Nat : ~InQueue(x, u, n)'
    BY <1>6, <1>10, Zenon DEF Queued
  <2> QED
    BY <1>6, <1>7, <1>10, <1>13, <1>14, <2>1, <2>2, <2>3, Zenon DEF Alone
<1>15. CASE y # x
  <2>1. \A u \in Owners : Runs(y, u)' <=> Runs(y, u)
    BY <1>2, <1>5, <1>15, NoItemRuns, Zenon DEF Runs
  <2>2. CASE y \notin Spawn[x]
    BY <1>3, <1>7, <1>8, <1>9, <1>13, <1>15, <2>1, <2>2, SameItemKeeps, Zenon DEF SameItem
  <2>3. CASE y \in Spawn[x]
    <3>1. ~Created(y)
      BY <1>11, <2>3, Zenon
    <3>2. wl[y] # 1 /\ committed[y] # 1 /\ ~Queued(y) /\ \A u \in Owners : ~Runs(y, u)
      BY <1>3, <3>1, Zenon DEF Alone
    <3>3. wl[y] = 0 /\ committed[y] = 0
      BY <1>3, <3>2, ZenonT(60) DEF Alone
    <3>4. wl'[y] = 1 /\ committed'[y] = 0 /\ 0 # 1
      BY <1>7, <1>8, <1>15, <2>3, <3>3, SMTT(60)
    <3>5. \A u \in Owners, n \in Nat : ~InQueue(y, u, n)'
      BY <1>10, <3>2, Zenon DEF Queued
    <3> QED
      BY <1>10, <1>13, <2>1, <2>3, <3>2, <3>4, <3>5, Zenon DEF Alone
  <2> QED
    BY <2>2, <2>3, Zenon
<1> QED
  BY <1>14, <1>15, Zenon

\* Where the items are, after a step.
LEMMA ItemStep ==
  ASSUME ForEachInv, NEW t \in Owners, ForEachStep(t), NEW y \in WorkItems
  PROVE  Alone(y)'
<1>1. CASE UNCHANGED <<wl, aborted, item, committed>>
  <2>1. Alone(y)
    BY Zenon DEF ForEachInv
  <2> QED
    BY <1>1, <2>1, CreatedSame, SameItemKeeps, Zenon DEF SameItem, Runs, InQueue
<1> QED
  BY <1>1, PopWorkItems, PopAbortedItems, AbortItems, CommitItems, Zenon
  DEF ForEachStep, WorkIsEmpty, LimitReached, NoneAborted, AcquireNext, NextConflicts, ReleaseOne,
      Committed, Decide

\* Without a break, a thread has left only when all is quiet, and then all stays quiet.
LEMMA LeavesStep ==
  ASSUME ForEachInv, NEW t \in Owners, ForEachStep(t), ForEachInv /\ ForEachStep(t) => Own(t)'
  PROVE  (\E u \in Owners : ex_pc'[u] = "done") /\ ~broke' => Quiet'
<1>0. /\ phase \in [Owners -> Phases] /\ broke \in BOOLEAN
      /\ ex_pc \in [Owners -> {"wl", "wlItem", "aborts", "abortsItem", "term", "done"}]
  BY Zenon DEF ForEachInv, ForEachTypeOK
<1> SUFFICES ASSUME NEW u \in Owners, ex_pc'[u] = "done", ~broke' PROVE Quiet'
  BY Zenon
<1>1. ~broke
  BY <1>0, Zenon DEF ForEachStep, PopWork, WorkIsEmpty, LimitReached, PopAborted, NoneAborted, AcquireNext, NextConflicts, ReleaseOne, CommitIteration, Committed, AbortIteration, Decide
<1>2. ASSUME Quiet, WorkIsEmpty(t) \/ LimitReached(t) \/ NoneAborted(t) \/ Decide(t) PROVE Quiet'
  BY <1>2, Zenon DEF Quiet, WorkIsEmpty, LimitReached, NoneAborted, Decide, nhVars
<1>3. CASE \E v \in Owners : ex_pc[v] = "done"
  <2>1. Quiet
    BY <1>1, <1>3, Zenon DEF ForEachInv, LeavesNothing
  <2>2. phase[t] = "out" /\ aborted[t] = <<>> /\ \A x \in WorkItems : wl[x] = 0
    BY <2>1, Zenon DEF Quiet
  <2>3. \A x \in WorkItems : ~PopWork(t, x)
    <3>1. ~(0 > 0)
      OBVIOUS
    <3> QED
      BY <2>2, <3>1, Zenon DEF PopWork, Available
  <2>4. ~PopAborted(t)
    BY <2>2, Zenon DEF PopAborted
  <2>5. ~AcquireNext(t) /\ ~NextConflicts(t) /\ ~CommitIteration(t) /\ ~Committed(t) /\ ~AbortIteration(t)
    BY <2>2 DEF AcquireNext, NextConflicts, Conflict, Enter, CommitIteration, InBody, Committed, AbortIteration
  <2>6. \A o \in Objects : ~ReleaseOne(t, o)
    BY <2>2, ZenonT(60) DEF ReleaseOne, Release
  <2> QED
    BY <1>2, <2>1, <2>3, <2>4, <2>5, <2>6, Zenon DEF ForEachStep
<1>4. CASE \A v \in Owners : ex_pc[v] # "done"
  <2>1. u = t
    BY <1>4, OthersSame, Zenon DEF ForEachInv, SameOwner
  <2>2. CASE Decide(t)
    <3>1. Leaves(t)
      BY <1>0, <1>4, <2>1, <2>2 DEF Decide, GoOn
    <3> QED
      BY <1>1, <1>2, <2>2, <3>1, Zenon DEF Leaves
  <2>3. CASE ~Decide(t)
    <3>1. ex_pc'[t] # "done"
      <4>1. \A x \in WorkItems : PopWork(t, x) => ex_pc'[t] # "done"
        BY <1>0 DEF PopWork, GoOn
      <4>2. WorkIsEmpty(t) \/ LimitReached(t) \/ PopAborted(t) \/ NoneAborted(t) => ex_pc'[t] # "done"
        BY <1>0 DEF WorkIsEmpty, LimitReached, PopAborted, NoneAborted, GoOn
      <4>3. Committed(t) \/ AbortIteration(t) => ex_pc'[t] # "done"
        BY <1>0, ZenonT(60) DEF Committed, AbortIteration
      <4>4. AcquireNext(t) \/ NextConflicts(t) \/ CommitIteration(t) => ex_pc'[t] # "done"
        BY <1>4, Zenon DEF AcquireNext, NextConflicts, CommitIteration
      <4>5. \A o \in Objects : ReleaseOne(t, o) => ex_pc'[t] # "done"
        BY <1>4, Zenon DEF ReleaseOne
      <4> QED
        BY <2>3, <4>1, <4>2, <4>3, <4>4, <4>5, Zenon DEF ForEachStep
    <3> QED
      BY <2>1, <3>1, Zenon
  <2> QED
    BY <2>2, <2>3, Zenon
<1> QED
  BY <1>3, <1>4, Zenon

--------------------------------------------------------------------------------
\* The loop starts with the items of the range in the worklist.
LEMMA ForEachInitInv == ForEachInit => ForEachInv
<1> SUFFICES ASSUME ForEachInit PROVE ForEachInv
  OBVIOUS
<1> USE DEF ForEachInit, NhInit
<1>1. ForEachTypeOK
  <2>1. /\ held \subseteq Owners \X Objects /\ phase \in [Owners -> Phases]
        /\ ex_pc \in [Owners -> {"wl", "wlItem", "aborts", "abortsItem", "term", "done"}]
        /\ wl \in [WorkItems -> Nat] /\ aborted \in [Owners -> Seq(Item)]
    BY DEF Phases
  <2>2. rest \in [Owners -> Seq(Access)] /\ pushBuffer \in [Owners -> SUBSET WorkItems]
    OBVIOUS
  <2>3. item \in [Owners -> Item \cup {NoItem}] /\ machine \in Machines
    BY Zenon
  <2>4. broke \in BOOLEAN /\ didWork \in [Owners -> BOOLEAN] /\ committed \in [WorkItems -> Nat]
    BY ZenonT(60)
  <2> QED
    BY <2>1, <2>2, <2>3, <2>4, Zenon DEF ForEachTypeOK
<1>2. ASSUME NEW t \in Owners PROVE Own(t) /\ Acquires(t)
  BY ZenonT(60) DEF Own, Acquires, Busy
<1>3. Exclusive
  BY DEF Exclusive
<1>4. ASSUME NEW x \in WorkItems PROVE Alone(x)
  <2>1. \A t \in Owners : ~Runs(x, t)
    BY NoItemRuns, Zenon DEF Runs
  <2>2. \A n : ~EntryAt(<<>>, n, x)
    BY DEF EntryAt
  <2>3. \A t \in Owners, n \in Nat : ~InQueue(x, t, n)
    BY <2>2, Zenon DEF InQueue
  <2>4. committed[x] = 0 /\ wl[x] = (IF x \in Initial THEN 1 ELSE 0) /\ 0 # 1
    OBVIOUS
  <2>5. Created(x) <=> x \in Initial
    <3>1. \A y \in WorkItems : ~(committed[y] > 0)
      OBVIOUS
    <3> QED
      BY <3>1, Zenon DEF Created
  <2> QED
    BY <2>1, <2>3, <2>4, <2>5, Zenon DEF Alone, Queued
<1>5. LeavesNothing
  BY OwnersAreNumbers DEF LeavesNothing
<1> QED
  BY <1>1, <1>2, <1>3, <1>4, <1>5, Zenon DEF ForEachInv

\* No step of a for_each breaks the invariant.
LEMMA ForEachNextInv == ForEachInv /\ [ForEachNext]_forEachVars => ForEachInv'
<1> SUFFICES ASSUME ForEachInv, [ForEachNext]_forEachVars PROVE ForEachInv'
  OBVIOUS
<1>1. ASSUME NEW t \in Owners, ForEachStep(t), UNCHANGED machine PROVE ForEachInv'
  <2>1. ForEachTypeOK'
    BY <1>1, TypeStep, Zenon
  <2>2. ASSUME NEW u \in Owners PROVE Own(u)' /\ Acquires(u)'
    BY <1>1, OwnStep, OthersSame, SameKeeps, Zenon DEF ForEachInv
  <2>3. Exclusive'
    BY <1>1, ExclusiveStep, Zenon
  <2>4. ASSUME NEW x \in WorkItems PROVE Alone(x)'
    BY <1>1, ItemStep, Zenon
  <2>5. LeavesNothing'
    <3>1. (\E u \in Owners : ex_pc'[u] = "done") /\ ~broke' => Quiet'
      BY <1>1, <2>2, LeavesStep, Zenon
    <3>2. (\A u \in Owners : ex_pc'[u] = "done") => held' = {}
      <4> SUFFICES ASSUME \A u \in Owners : ex_pc'[u] = "done" PROVE held' = {}
        BY Zenon
      <4>1. \A u \in Owners : Own(u)'
        BY <2>2, Zenon
      <4>2. \A u \in Owners : phase'[u] = "out"
        BY <4>1 DEF Own
      <4>3. \A u \in Owners : \A o \in Objects : <<u, o>> \notin held'
        BY <4>1, <4>2, Zenon DEF Own
      <4>4. held' \subseteq Owners \X Objects
        BY <2>1, Zenon DEF ForEachTypeOK
      <4> QED
        BY <4>3, <4>4
    <3> QED
      BY <3>1, <3>2, Zenon DEF LeavesNothing
  <2> QED
    BY <2>1, <2>2, <2>3, <2>4, <2>5, Zenon DEF ForEachInv
<1>2. CASE UNCHANGED forEachVars
  <2>1. ForEachTypeOK'
    BY <1>2, Zenon DEF forEachVars, state, ForEachTypeOK, ForEachInv
  <2>2. ASSUME NEW u \in Owners PROVE Own(u)' /\ Acquires(u)'
    BY <1>2, SameKeeps, Zenon DEF forEachVars, state, SameOwner
  <2>3. Exclusive' /\ LeavesNothing'
    BY <1>2, Zenon DEF forEachVars, state, Exclusive, LeavesNothing, ForEachInv, Quiet
  <2>4. ASSUME NEW x \in WorkItems PROVE Alone(x)'
    <3>1. Alone(x)
      BY Zenon DEF ForEachInv
    <3> QED
      BY <1>2, <3>1, CreatedSame, SameItemKeeps, Zenon DEF forEachVars, state, SameItem, Runs, InQueue
  <2> QED
    BY <2>1, <2>2, <2>3, <2>4, Zenon DEF ForEachInv
<1> QED
  BY <1>1, <1>2, Zenon DEF ForEachNext

\* The invariant of a for_each.
LEMMA ForEachInvariance == ForEachSpec => []ForEachInv
  BY ForEachInitInv, ForEachNextInv, PTL DEF ForEachSpec

--------------------------------------------------------------------------------
\* An item that is in one place has one copy, an item that has not been created none.
LEMMA OneCopy ==
  ASSUME ForEachInv, NEW x \in WorkItems
  PROVE  IF Created(x) THEN \E c \in Copies(x) : Copies(x) = {c} ELSE Copies(x) = {}
<1>0. Alone(x) /\ aborted \in [Owners -> Seq(Item)]
  BY Zenon DEF ForEachInv, ForEachTypeOK
<1>1. \A p : p \in Waiting(x) <=> \E t \in Owners : \E n \in Nat : p = <<"aborted", t, n>> /\ InQueue(x, t, n)
  <2>1. \A t \in Owners : DOMAIN aborted[t] = 1 .. Len(aborted[t]) /\ Len(aborted[t]) \in Nat
    BY <1>0
  <2>2. \A t, n : <<"aborted", t, n>>[2] = t /\ <<"aborted", t, n>>[3] = n
    OBVIOUS
  <2>3. \A t \in Owners : \A n \in DOMAIN aborted[t] : n \in Nat
    BY <2>1
  <2>4. \A t \in Owners : \A n : InQueue(x, t, n) <=> n \in DOMAIN aborted[t] /\ aborted[t][n].val = x
    BY <2>1 DEF InQueue, EntryAt
  <2>5. \A p : p \in Waiting(x) <=> \E t \in Owners : \E n \in DOMAIN aborted[t] : p = <<"aborted", t, n>> /\ aborted[t][n].val = x
    <3>1. ASSUME NEW p, p \in Waiting(x)
          PROVE  \E t \in Owners : \E n \in DOMAIN aborted[t] : p = <<"aborted", t, n>> /\ aborted[t][n].val = x
      <4>1. p \in UNION {{<<"aborted", t, n>> : n \in DOMAIN aborted[t]} : t \in Owners} /\ aborted[p[2]][p[3]].val = x
        BY <3>1, Zenon DEF Waiting
      <4>2. PICK t \in Owners : p \in {<<"aborted", t, n>> : n \in DOMAIN aborted[t]}
        BY <4>1, Zenon
      <4>3. PICK n \in DOMAIN aborted[t] : p = <<"aborted", t, n>>
        BY <4>2, Zenon
      <4>4. p[2] = t /\ p[3] = n
        BY <4>3
      <4> QED
        BY <4>1, <4>3, <4>4, Zenon
    <3>2. ASSUME NEW t \in Owners, NEW n \in DOMAIN aborted[t], aborted[t][n].val = x
          PROVE  <<"aborted", t, n>> \in Waiting(x)
      <4>1. PICK p : p = <<"aborted", t, n>>
        BY ZenonT(60)
      <4>2. p[2] = t /\ p[3] = n
        BY <4>1
      <4>3. p \in {<<"aborted", t, m>> : m \in DOMAIN aborted[t]}
        BY <4>1, Zenon
      <4>4. p \in UNION {{<<"aborted", u, m>> : m \in DOMAIN aborted[u]} : u \in Owners}
        BY <4>3, Zenon
      <4>5. aborted[p[2]][p[3]].val = x
        BY <3>2, <4>2, Zenon
      <4> QED
        BY <4>1, <4>4, <4>5, Zenon DEF Waiting
    <3> QED
      BY <3>1, <3>2, Zenon
  <2>6. \A t \in Owners : \A n : (n \in Nat /\ InQueue(x, t, n)) <=> (n \in DOMAIN aborted[t] /\ aborted[t][n].val = x)
    BY <2>3, <2>4, Zenon
  <2>7. ASSUME NEW p
        PROVE  (\E t \in Owners : \E n \in DOMAIN aborted[t] : p = <<"aborted", t, n>> /\ aborted[t][n].val = x)
               <=> (\E t \in Owners : \E n \in Nat : p = <<"aborted", t, n>> /\ InQueue(x, t, n))
    BY <2>6, ZenonT(60)
  <2> QED
    BY <2>5, <2>7, Zenon
<1>2. \A p : p \in Running(x) <=> \E t \in Owners : p = <<"running", t>> /\ Runs(x, t)
  BY Zenon DEF Running, Runs
<1>3. wl[x] \in {0, 1} /\ committed[x] \in {0, 1}
  BY <1>0, Zenon DEF Alone
<1>4. {<<"wl", n>> : n \in 1 .. wl[x]} = IF wl[x] = 1 THEN {<<"wl", 1>>} ELSE {}
  BY <1>3
<1>5. {<<"committed", n>> : n \in 1 .. committed[x]} = IF committed[x] = 1 THEN {<<"committed", 1>>} ELSE {}
  BY <1>3
<1>6. \A p : p \in Copies(x) <=>
        \/ wl[x] = 1 /\ p = <<"wl", 1>>
        \/ committed[x] = 1 /\ p = <<"committed", 1>>
        \/ \E t \in Owners : \E n \in Nat : p = <<"aborted", t, n>> /\ InQueue(x, t, n)
        \/ \E t \in Owners : p = <<"running", t>> /\ Runs(x, t)
  BY <1>1, <1>2, <1>4, <1>5, Zenon DEF Copies
<1>7. ASSUME NEW c, c \in Copies(x), \A p \in Copies(x) : p = c PROVE \E e \in Copies(x) : Copies(x) = {e}
  BY <1>7, Zenon
<1>8. CASE wl[x] = 1
  <2>1. committed[x] # 1 /\ ~Queued(x) /\ (\A t \in Owners : ~Runs(x, t)) /\ Created(x)
    <3>0. 0 # 1
      OBVIOUS
    <3>1. committed[x] = 0 /\ 0 # 1
      BY <1>0, <1>8, <3>0, Zenon DEF Alone
    <3> QED
      BY <1>0, <1>8, <3>1, Zenon DEF Alone
  <2>2. <<"wl", 1>> \in Copies(x) /\ \A p \in Copies(x) : p = <<"wl", 1>>
    BY <1>6, <1>8, <2>1, Zenon DEF Queued
  <2>3. PICK c : c = <<"wl", 1>>
    BY ZenonT(60)
  <2> QED
    BY <1>7, <2>1, <2>2, <2>3, Zenon
<1>9. CASE committed[x] = 1
  <2>1. wl[x] # 1 /\ ~Queued(x) /\ (\A t \in Owners : ~Runs(x, t)) /\ Created(x)
    <3>1. wl[x] = 1 => committed[x] = 0
      BY <1>0, Zenon DEF Alone
    <3>2. wl[x] # 1
      BY <1>9, <3>1
    <3> QED
      BY <1>0, <1>9, <3>2, Zenon DEF Alone
  <2>2. <<"committed", 1>> \in Copies(x) /\ \A p \in Copies(x) : p = <<"committed", 1>>
    BY <1>6, <1>9, <2>1, Zenon DEF Queued
  <2>3. PICK c : c = <<"committed", 1>>
    BY ZenonT(60)
  <2> QED
    BY <1>7, <2>1, <2>2, <2>3, Zenon
<1>10. CASE Queued(x) /\ wl[x] # 1 /\ committed[x] # 1
  <2>1. PICK t \in Owners, n \in Nat : InQueue(x, t, n)
    BY <1>10, Zenon DEF Queued
  <2>2. \A u \in Owners : ~Runs(x, u)
    BY <1>0, <1>10, Zenon DEF Alone
  <2>3. \A u \in Owners, m \in Nat : InQueue(x, u, m) => u = t /\ m = n
    BY <1>0, <2>1, Zenon DEF Alone
  <2>4. <<"aborted", t, n>> \in Copies(x) /\ \A p \in Copies(x) : p = <<"aborted", t, n>>
    <3>1. <<"aborted", t, n>> \in Copies(x)
      BY <1>6, <2>1, Zenon
    <3>2. ASSUME NEW p \in Copies(x) PROVE p = <<"aborted", t, n>>
      <4>1. PICK u \in Owners, m \in Nat : p = <<"aborted", u, m>> /\ InQueue(x, u, m)
        BY <1>6, <1>10, <2>2, Zenon
      <4> QED
        BY <2>3, <4>1, Zenon
    <3> QED
      BY <3>1, <3>2, Zenon
  <2>5. Created(x)
    BY <1>0, <1>10, Zenon DEF Alone
  <2> QED
    BY <1>7, <2>4, <2>5, Zenon
<1>11. ASSUME NEW t \in Owners, Runs(x, t), wl[x] # 1, committed[x] # 1, ~Queued(x)
       PROVE  Created(x) /\ \E c \in Copies(x) : Copies(x) = {c}
  <2>1. Created(x) /\ \A u \in Owners : Runs(x, u) => u = t
    BY <1>0, <1>11, Zenon DEF Alone
  <2>2. <<"running", t>> \in Copies(x) /\ \A p \in Copies(x) : p = <<"running", t>>
    BY <1>6, <1>11, <2>1, Zenon DEF Queued
  <2> QED
    BY <1>7, <2>1, <2>2, Zenon
<1>12. CASE wl[x] # 1 /\ committed[x] # 1 /\ ~Queued(x) /\ \A t \in Owners : ~Runs(x, t)
  <2>1. ~Created(x)
    BY <1>0, <1>12, Zenon DEF Alone
  <2>2. \A p : p \notin Copies(x)
    BY <1>6, <1>12, Zenon DEF Queued
  <2> QED
    BY <2>1, <2>2, Zenon
<1> QED
  BY <1>8, <1>9, <1>10, <1>11, <1>12, Zenon

(***************************************************************************)
(* Every item of a for_each has one copy from the time it is created, for  *)
(* any number of threads, any items, neighborhoods and pushes, and any     *)
(* machine: an abort puts an item back whole, and a commit makes exactly   *)
(* what its operator pushed.                                               *)
(***************************************************************************)
THEOREM ItemsAreConserved == ForEachSpec => []ItemsConserved
<1>1. ForEachInv => ItemsConserved
  BY OneCopy, Zenon DEF ForEachInv, ItemsConserved
<1> QED
  BY <1>1, ForEachInvariance, PTL

(***************************************************************************)
(* Two iterations of a for_each that are past their acquires share no      *)
(* object that one of them writes: what an operator has gone through of    *)
(* its neighborhood it holds, and an object has one holder.                *)
(***************************************************************************)
THEOREM IterationsAreIsolated == ForEachSpec => []Isolation
<1>1. ASSUME ForEachInv, NEW t \in Owners, InBody(t), NEW a \in Accesses(t)
      PROVE  a.obj \in Objects /\ <<t, a.obj>> \in held
  <2>1. Busy(t) /\ phase[t] = "acquire" /\ rest[t] = <<>>
    BY <1>1 DEF InBody, Busy
  <2>2. PICK x \in WorkItems : x = item[t].val
    BY <1>1, <2>1, BusyRuns, Zenon
  <2>3. PICK s \in Seq(Access) : s = Nhood[x]
    BY ItemTypes, Zenon
  <2>4. Acquired(t, s, <<>>)
    BY <1>1, <2>1, <2>2, <2>3, Zenon DEF ForEachInv, Acquires
  <2>5. PICK n \in DOMAIN s : a = s[n] /\ s[n].flag # "UNPROTECTED"
    BY <1>1, <2>2, <2>3, Zenon DEF Accesses
  <2>6. n \in 1 .. Len(s) - Len(<<>>) /\ s[n] \in Access
    OBVIOUS
  <2>7. s[n].obj \in Objects
    BY <2>6 DEF Access
  <2> QED
    BY <2>4, <2>5, <2>6, <2>7, Zenon DEF Acquired
<1>2. ForEachInv => Isolation
  BY <1>1, Zenon DEF ForEachInv, Exclusive, Isolation
<1> QED
  BY <1>2, ForEachInvariance, PTL

================================================================================
