--------------------------------- MODULE Chunk ---------------------------------
(***************************************************************************)
(* The chunked worklists: ChunkMaster of                                   *)
(* libgalois/include/galois/worklists/Chunk.h with its five instances. A   *)
(* thread fills chunk next and drains chunk cur, or one chunk for both; a  *)
(* full chunk goes to a shared list of chunks, one for all or one per      *)
(* socket. popChunk looks at the lists one after the other, each with one  *)
(* step, while other threads push and pop. seen and st are history.        *)
(***************************************************************************)
EXTENDS Naturals, Sequences, SequencesExt

CONSTANTS N,           \* activeThreads
          Items,
          ChunkSize,
          Leader,      \* Leader[t]: the thread whose list t's socket uses
          Kinds,       \* the instances of ChunkMaster to try
          NoChunk      \* the null pointer

Threads == 0 .. N - 1

VARIABLES kind,   \* the template arguments
          cur, next,   \* the members of p: a chunk is the sequence of its items
          Q,      \* the shared lists of chunks, by leader
          todo,   \* the lists popChunk has yet to look at
          call,   \* what the call under way is to do
          seen, st

vars == <<kind, cur, next, Q, todo, call, seen, st>>

Contents(c) == IF c = NoChunk THEN {} ELSE Range(c)

Mine == [t \in Threads |-> Contents(cur[t]) \cup Contents(next[t])]
Shared == UNION {UNION {Contents(Q[l][n]) : n \in DOMAIN Q[l]} : l \in Threads}

Worklist == INSTANCE WorklistSpec WITH mine <- Mine, shared <- Shared

TypeOK ==
  /\ kind \in Kinds
  /\ \A t \in Threads :
       /\ Contents(cur[t]) \cup Contents(next[t]) \subseteq Items
       /\ \A c \in {cur[t], next[t]} \cup Range(Q[t]) : c # NoChunk => Len(c) <= ChunkSize
       /\ call[t] \in {"none", "pop", "peek"}
       /\ seen[t] \subseteq Items

Init ==
  /\ kind \in Kinds
  /\ cur = [t \in Threads |-> NoChunk]
  /\ next = [t \in Threads |-> NoChunk]
  /\ Q = [l \in Threads |-> <<>>]
  /\ todo = [t \in Threads |-> <<>>]
  /\ call = [t \in Threads |-> "none"]
  /\ seen = [t \in Threads |-> {}]
  /\ st = [t \in Threads |-> "out"]

\* squeue::get(i): the list of thread i's socket, or the only one
List(i) == IF kind.Distributed THEN Leader[i] ELSE 0

\* ConExtLinkedQueue and ConExtLinkedStack
PushedTo(l, c) == [Q EXCEPT ![l] = IF kind.QT = "Queue" THEN Append(@, c) ELSE <<c>> \o @]

\* The ids popChunk tries: its own, the larger ones, then the smaller ones.
ScanOrder(t) ==
  IF kind.Distributed THEN <<t>> \o [n \in 1 .. N - 1 - t |-> t + n] \o [n \in 1 .. t |-> n - 1]
  ELSE <<0>>

HasItem(c) == c # NoChunk /\ c # <<>>

History(t, how) == st' = [st EXCEPT ![t] = how]

\* FixedSizeRing::emplace_back finds room
HasRoom(c) == c # NoChunk /\ Len(c) < ChunkSize

\* emplacei, for push and emplace: a full next is published
PushItem(t, x) ==
  /\ call[t] = "none"
  /\ Worklist!Elsewhere(x)
  /\ \/ /\ HasRoom(next[t])
        /\ next' = [next EXCEPT ![t] = Append(@, x)]
        /\ UNCHANGED Q
     \/ /\ ~HasRoom(next[t])
        /\ Q' = IF next[t] = NoChunk THEN Q ELSE PushedTo(List(t), next[t])
        /\ next' = [next EXCEPT ![t] = <<x>>]
  /\ History(t, "out")
  /\ UNCHANGED <<kind, cur, todo, call, seen>>

\* flush(): OwnerComputes calls it after the initial pushes and before any pop, so
\* next holds an item or is null.
Flush(t) ==
  /\ call[t] = "none"
  /\ HasItem(next[t])
  /\ Q' = PushedTo(List(t), next[t])
  /\ next' = [next EXCEPT ![t] = NoChunk]
  /\ History(t, "out")
  /\ UNCHANGED <<kind, cur, todo, call, seen>>

\* The chunk that pop() and peek() work on.
Active(t) == IF kind.IsStack THEN next[t] ELSE cur[t]

\* extract_back or extract_front
Extracted(c) == IF kind.IsStack THEN Front(c) ELSE Tail(c)

Becomes(t, c) ==
  IF kind.IsStack THEN next' = [next EXCEPT ![t] = c] /\ UNCHANGED cur
  ELSE cur' = [cur EXCEPT ![t] = c] /\ UNCHANGED next

\* pop() finds an item in the thread's chunk; so does pop_peeked()
PopLocal(t) ==
  /\ call[t] = "none"
  /\ HasItem(Active(t))
  /\ Becomes(t, Extracted(Active(t)))
  /\ History(t, "out")
  /\ seen' = [seen EXCEPT ![t] = {}]
  /\ UNCHANGED <<kind, Q, todo, call>>

\* pop() or peek() deletes its empty chunk and calls popChunk
BeginScan(t, what) ==
  /\ call[t] = "none"
  /\ ~HasItem(Active(t))
  /\ Becomes(t, NoChunk)
  /\ call' = [call EXCEPT ![t] = what]
  /\ todo' = [todo EXCEPT ![t] = ScanOrder(t)]
  /\ seen' = [seen EXCEPT ![t] = Shared]
  /\ History(t, "look")
  /\ UNCHANGED <<kind, Q>>

EndCall(t) ==
  /\ call' = [call EXCEPT ![t] = "none"]
  /\ todo' = [todo EXCEPT ![t] = <<>>]

\* What is left of chunk c once pop() has extracted an item from it.
Remains(t, c) == IF call[t] = "pop" THEN Extracted(c) ELSE c

\* popChunkByID finds a chunk
ScanFinds(t) ==
  /\ todo[t] # <<>>
  /\ LET l == List(Head(todo[t]))
         c == Head(Q[l])
     IN  /\ Q[l] # <<>>
         /\ Q' = [Q EXCEPT ![l] = Tail(@)]
         /\ Becomes(t, Remains(t, c))
         /\ seen' = [u \in Threads |-> IF u = t THEN {} ELSE seen[u] \ Contents(c)]
  /\ EndCall(t)
  /\ History(t, "out")
  /\ UNCHANGED kind

\* popChunkByID finds none and popChunk goes on
ScanMisses(t) ==
  /\ todo[t] # <<>>
  /\ Len(todo[t]) > 1
  /\ Q[List(Head(todo[t]))] = <<>>
  /\ todo' = [todo EXCEPT ![t] = Tail(@)]
  /\ UNCHANGED <<kind, cur, next, Q, call, seen, st>>

FallBack_None(t) == NoChunk

\* if (!n.cur) { n.cur = n.next; n.next = 0; }
FallBack(t) == IF kind.IsStack THEN NoChunk ELSE next[t]

\* The last list is empty too: the thread's own next is all that is left
ScanEnds(t) ==
  /\ Len(todo[t]) = 1
  /\ Q[List(Head(todo[t]))] = <<>>
  /\ EndCall(t)
  /\ \/ /\ HasItem(FallBack(t))
        /\ cur' = [cur EXCEPT ![t] = Remains(t, FallBack(t))]
        /\ next' = [next EXCEPT ![t] = NoChunk]
        /\ History(t, "out")
        /\ seen' = [seen EXCEPT ![t] = {}]
     \/ /\ ~HasItem(FallBack(t))
        /\ History(t, "dry")
        /\ UNCHANGED <<cur, next, seen>>
  /\ UNCHANGED <<kind, Q>>

Step(t) == PopLocal(t) \/ ScanFinds(t) \/ ScanMisses(t) \/ ScanEnds(t)

Next ==
  \E t \in Threads :
    \/ \E x \in Items : PushItem(t, x)
    \/ Flush(t)
    \/ \E what \in {"pop", "peek"} : BeginScan(t, what)
    \/ Step(t)

Spec == Init /\ [][Next]_vars

--------------------------------------------------------------------------------
(***************************************************************************)
(* Every instance keeps the promise of WorklistSpec: no item is lost or    *)
(* handed out twice, and a pop that looks at list after list while chunks  *)
(* move between them never gives up on an item it should have found.       *)
(***************************************************************************)
KeepsPromise == Worklist!WlSpec

(***************************************************************************)
(* When the last call of every thread was a pop that came back with        *)
(* nothing, no item is left in any chunk: this is what termination         *)
(* detection takes a failed pop to mean.                                   *)
(***************************************************************************)
DryMeansDone == Worklist!DryMeansDone

================================================================================
