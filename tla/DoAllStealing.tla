--------------------------- MODULE DoAllStealing ---------------------------
(* galois::do_all with stealing (runtime/Executor_DoAll.h).  Every thread   *)
(* owns a shared range protected by a lock; it takes chunks from it, and    *)
(* when it is empty looks for a victim in its own socket, then in others,   *)
(* and moves half of the victim's range to its own.  There is no            *)
(* termination detection (USE_TERM is false): a thread leaves when it sees  *)
(* no work anywhere.  Each critical section is one step; try_lock may fail. *)
EXTENDS Integers, Sequences

CONSTANTS N,            \* active threads
          Size,         \* the loop iterates over 0..Size-1
          ChunkSize,
          MaxThreads, MaxSockets,
          SocketOf,     \* socket of every thread
          Leaders       \* threads that lead their socket

ASSUME DoAllAssumption ==
    /\ N \in Nat \ {0} /\ Size \in Nat /\ ChunkSize \in Nat \ {0}
    /\ MaxThreads \in Nat /\ MaxSockets \in Nat \ {0}
    /\ N <= MaxThreads /\ MaxSockets <= MaxThreads
    /\ SocketOf \in [0..(MaxThreads - 1) -> 0..(MaxSockets - 1)]

Threads == 0..(N - 1)
Items == 0..(Size - 1)

VARIABLES shared_beg, shared_end, m_size,   \* ThreadContext
          pc,
          beg, end,                         \* private chunk (doWork)
          steal_beg, steal_end, steal_size, \* range in a thief's hands
          stage, i, sawWork,                \* trySteal and its loops
          executed                          \* how often each item was executed

shared == <<shared_beg, shared_end, m_size>>
private == <<beg, end>>
hand == <<steal_beg, steal_end, steal_size>>
search == <<stage, i, sawWork>>
vars == <<shared, private, hand, search, pc, executed>>
-----------------------------------------------------------------------------
(* block_range: the block of thread id when dist items are cut into num     *)
(* blocks of equal size, rounded up.                                        *)
Min2(a, b) == IF a < b THEN a ELSE b
Max2(a, b) == IF a > b THEN a ELSE b

PerBlock_RoundedDown(dist, num) == Max2(dist \div num, 1)
PerBlock(dist, num) == Max2((dist + num - 1) \div num, 1)
BlockBegin(dist, id, num) == Min2(PerBlock(dist, num) * id, dist)
BlockEnd(dist, id, num) == Min2(PerBlock(dist, num) * (id + 1), dist)

\* after initThread and the barrier
Init ==
    /\ shared_beg = [t \in Threads |-> BlockBegin(Size, t, N)]
    /\ shared_end = [t \in Threads |-> BlockEnd(Size, t, N)]
    /\ m_size = [t \in Threads |-> shared_end[t] - shared_beg[t]]
    /\ pc = [t \in Threads |-> "work"]
    /\ beg = [t \in Threads |-> 0] /\ end = beg
    /\ steal_beg = [t \in Threads |-> 0] /\ steal_end = steal_beg
    /\ steal_size = [t \in Threads |-> 0]
    /\ stage = [t \in Threads |-> 0]
    /\ i = [t \in Threads |-> 0]
    /\ sawWork = [t \in Threads |-> FALSE]
    /\ executed = [x \in Items |-> 0]

Goto(t, p) == pc' = [pc EXCEPT ![t] = p]
-----------------------------------------------------------------------------
(* doWork.                                                                  *)
LastChunk(t) == m_size[t] <= ChunkSize

\* getWork: a chunk from the front, or the whole range when it is no longer
GetWork(t) ==
    /\ pc[t] = "work" /\ beg[t] = end[t] /\ m_size[t] > 0
    /\ LET nbeg == IF LastChunk(t) THEN shared_end[t] ELSE shared_beg[t] + ChunkSize
       IN /\ beg' = [beg EXCEPT ![t] = shared_beg[t]]
          /\ end' = [end EXCEPT ![t] = nbeg]
          /\ shared_beg' = [shared_beg EXCEPT ![t] = nbeg]
    /\ m_size' = [m_size EXCEPT ![t] = IF LastChunk(t) THEN 0 ELSE @ - ChunkSize]
    /\ UNCHANGED <<shared_end, hand, search, pc, executed>>

Execute(t) ==
    /\ pc[t] = "work" /\ beg[t] # end[t]
    /\ executed' = [executed EXCEPT ![beg[t]] = @ + 1]
    /\ beg' = [beg EXCEPT ![t] = @ + 1]
    /\ UNCHANGED <<shared, end, hand, search, pc>>

\* the first index of the loop of each stage
First(s) == IF s = 1 THEN 1 ELSE 0

\* getWork fails, doWork returns and trySteal starts; sawWork is a fresh local
SawWorkAtEntry(t) == FALSE
NoWork(t) ==
    /\ pc[t] = "work" /\ beg[t] = end[t] /\ m_size[t] <= 0
    /\ beg' = [beg EXCEPT ![t] = 0] /\ end' = [end EXCEPT ![t] = 0]
    /\ Goto(t, "search")
    /\ stage' = [stage EXCEPT ![t] = 1] /\ i' = [i EXCEPT ![t] = First(1)]
    /\ sawWork' = [sawWork EXCEPT ![t] = SawWorkAtEntry(t)]
    /\ UNCHANGED <<shared, hand, executed>>
-----------------------------------------------------------------------------
(* trySteal: stage 1 is stealWithinSocket, stages 2 and 3 are               *)
(* stealOutsideSocket, once more for socket leaders.                        *)
PerPack == MaxThreads \div MaxSockets
PackBeg(t) == SocketOf[t] * PerPack
PackEnd(t) == (SocketOf[t] + 1) * PerPack

Last(t) == IF stage[t] = 1 THEN PackEnd(t) ELSE N
Victim(t) == IF stage[t] = 1 THEN ((t + i[t]) % PerPack) + PackBeg(t)
             ELSE (t + i[t]) % N
Candidate(t) == IF stage[t] = 1 THEN Victim(t) < N
                ELSE SocketOf[Victim(t)] # SocketOf[t]
Searching(t) == pc[t] = "search" /\ i[t] < Last(t)
Stages(t) == IF t \in Leaders THEN 3 ELSE 2

\* the loops of trySteal are over and their variables not read again
EndSearch(t, p) ==
    /\ Goto(t, p)
    /\ stage' = [stage EXCEPT ![t] = 0] /\ i' = [i EXCEPT ![t] = 0]

\* hasWorkWeak reads the victim's size without its lock
Look(t) ==
    /\ Searching(t) /\ Candidate(t) /\ m_size[Victim(t)] > 0
    /\ sawWork' = [sawWork EXCEPT ![t] = TRUE]
    /\ Goto(t, "steal")
    /\ UNCHANGED <<shared, private, hand, stage, i, executed>>

Skip(t) ==
    /\ Searching(t) /\ (Candidate(t) => m_size[Victim(t)] <= 0)
    /\ i' = [i EXCEPT ![t] = @ + 1]
    /\ UNCHANGED <<shared, private, hand, stage, sawWork, pc, executed>>

\* stealWork with HALF, under the victim's lock
StealSize(v) == IF m_size[v] > ChunkSize THEN m_size[v] \div 2 ELSE m_size[v]

RichBegin_Kept(v) == shared_beg[v]
RichBegin(v) == IF m_size[v] <= StealSize(v) THEN shared_end[v]
                ELSE shared_beg[v] + StealSize(v)

Steal(t) ==
    /\ pc[t] = "steal" /\ m_size[Victim(t)] > 0
    /\ LET v == Victim(t)
       IN /\ steal_beg' = [steal_beg EXCEPT ![t] = shared_beg[v]]
          /\ steal_end' = [steal_end EXCEPT ![t] =
                 IF m_size[v] <= StealSize(v) THEN shared_end[v]
                 ELSE shared_beg[v] + StealSize(v)]
          /\ steal_size' = [steal_size EXCEPT ![t] = StealSize(v)]
          /\ shared_beg' = [shared_beg EXCEPT ![v] = RichBegin(v)]
          /\ m_size' = [m_size EXCEPT ![v] = @ - StealSize(v)]
    /\ EndSearch(t, "assign")
    /\ UNCHANGED <<shared_end, private, sawWork, executed>>

\* try_lock fails (another thread is in a critical section on the victim, or
\* compare_exchange_weak fails spuriously), or the victim's work is gone
StealFails(t) ==
    /\ pc[t] = "steal"
    /\ i' = [i EXCEPT ![t] = @ + 1]
    /\ Goto(t, "search")
    /\ UNCHANGED <<shared, private, hand, stage, sawWork, executed>>

\* assignWork; trySteal has succeeded
AssignWork(t) ==
    /\ pc[t] = "assign"
    /\ shared_beg' = [shared_beg EXCEPT ![t] = steal_beg[t]]
    /\ shared_end' = [shared_end EXCEPT ![t] = steal_end[t]]
    /\ m_size' = [m_size EXCEPT ![t] = steal_size[t]]
    /\ steal_beg' = [steal_beg EXCEPT ![t] = 0] /\ steal_end' = [steal_end EXCEPT ![t] = 0]
    /\ steal_size' = [steal_size EXCEPT ![t] = 0]
    /\ Goto(t, "work")
    /\ UNCHANGED <<private, search, executed>>

\* a stage that saw work sends the thread back to its own range
EndStage(t) ==
    /\ pc[t] = "search" /\ ~(i[t] < Last(t))
    /\ IF sawWork[t] THEN EndSearch(t, "work")
       ELSE IF stage[t] < Stages(t)
            THEN /\ stage' = [stage EXCEPT ![t] = @ + 1]
                 /\ i' = [i EXCEPT ![t] = First(stage[t] + 1)]
                 /\ UNCHANGED pc
            ELSE EndSearch(t, "left")
    /\ UNCHANGED <<shared, private, hand, sawWork, executed>>
-----------------------------------------------------------------------------
Step(t) == \/ GetWork(t) \/ Execute(t) \/ NoWork(t)
           \/ Look(t) \/ Skip(t) \/ Steal(t) \/ StealFails(t) \/ AssignWork(t) \/ EndStage(t)

Left == (\A t \in Threads : pc[t] = "left") /\ UNCHANGED vars

Next == (\E t \in Threads : Step(t)) \/ Left

Spec == Init /\ [][Next]_vars
-----------------------------------------------------------------------------
InRange(x, b, e) == b <= x /\ x < e
HoldsShared(t, x) == InRange(x, shared_beg[t], shared_end[t])
HoldsPrivate(t, x) == InRange(x, beg[t], end[t])
HoldsStolen(t, x) == InRange(x, steal_beg[t], steal_end[t])
Holds(t, x) == HoldsShared(t, x) \/ HoldsPrivate(t, x) \/ HoldsStolen(t, x)

TypeOK ==
    /\ shared_beg \in [Threads -> 0..Size] /\ shared_end \in [Threads -> 0..Size]
    /\ m_size \in [Threads -> 0..Size]
    /\ beg \in [Threads -> 0..Size] /\ end \in [Threads -> 0..Size]
    /\ steal_beg \in [Threads -> 0..Size] /\ steal_end \in [Threads -> 0..Size]
    /\ steal_size \in [Threads -> 0..Size]
    /\ pc \in [Threads -> {"work", "search", "steal", "assign", "left"}]
    /\ stage \in [Threads -> 0..3] /\ i \in [Threads -> Nat]
    /\ sawWork \in [Threads -> BOOLEAN]
    /\ executed \in [Items -> Nat]

\* x is executed once and held by nobody, or not executed and held once
AtMostOneHold(t, x) ==
    /\ ~(HoldsShared(t, x) /\ HoldsPrivate(t, x))
    /\ ~(HoldsShared(t, x) /\ HoldsStolen(t, x))
    /\ ~(HoldsPrivate(t, x) /\ HoldsStolen(t, x))
Conserved(x) ==
    \/ executed[x] = 1 /\ \A t \in Threads : ~Holds(t, x)
    \/ /\ executed[x] = 0
       /\ \E t \in Threads : /\ Holds(t, x) /\ AtMostOneHold(t, x)
                             /\ \A u \in Threads \ {t} : ~Holds(u, x)

\* every item is executed once or in exactly one range
NothingLostOrDuplicated == \A x \in Items : Conserved(x)

\* the assertions of hasWork, transferWork, assignWork and operator()
CodeAssertions ==
    \A t \in Threads :
        /\ m_size[t] > 0 => shared_beg[t] # shared_end[t]
        /\ pc[t] = "steal" => Victim(t) # t /\ Victim(t) \in Threads
        /\ pc[t] = "assign" => /\ m_size[t] = 0
                               /\ steal_beg[t] # steal_end[t]
                               /\ steal_end[t] - steal_beg[t] = steal_size[t]
        /\ pc[t] \in {"search", "left"} => m_size[t] = 0

(* While chunks and stolen halves move between threads every item of the    *)
(* loop is either executed once and in nobody's range, or not executed and  *)
(* in exactly one range: a victim's owner taking a chunk and several        *)
(* thieves never leave with the same item, and none falls between two cuts. *)
(* And the assertions of the code hold: the count agrees with the range it  *)
(* is kept beside, a thread never steals from itself or from an inactive    *)
(* thread, and a thief that assigns a stolen range has a non-empty one of   *)
(* the announced size and no other work.                                    *)
StealingSafe == NothingLostOrDuplicated /\ CodeAssertions

(* Threads leave one by one, on unlocked reads, while ranges are still in   *)
(* thieves' hands.  When the last one has left, every item was executed     *)
(* exactly once (the destructor's "Unprocessed work left").                 *)
LoopComplete ==
    (\A t \in Threads : pc[t] = "left") => \A x \in Items : executed[x] = 1
=============================================================================
