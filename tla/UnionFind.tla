------------------------------- MODULE UnionFind -------------------------------
(***************************************************************************)
(* Concurrent union-find: UnionFindNode of                                 *)
(* libgalois/include/galois/UnionFind.h. The nodes are their addresses.    *)
(* Threads merge, find and compress without locks; every load, store and   *)
(* compare-exchange of an m_component is a step of its own. comp, call and *)
(* result are the state of UnionFindSpec, carried along as history;        *)
(* nothing in the code reads them but for the arguments of a call.         *)
(***************************************************************************)
EXTENDS UnionFindSpec, FiniteSets

CONSTANTS Edges,     \* bound: the pairs of nodes that merge is called for
          Sought     \* bound: the nodes that the other calls are made on

ASSUME UnionFindAssumption ==
  /\ N \in Nat
  /\ Edges \subseteq Nodes \X Nodes
  /\ Sought \subseteq Nodes

VARIABLES parent,        \* m_component of each node
          pc,            \* where each thread is
          a, b,          \* the locals of merge
          side,          \* which of them merge's findAndCompress works on
          node,          \* this, in find, findAndCompress and compress
          rep, prev, nxt,\* the locals of their loops
          merges         \* how many merges returned a node

frame == <<side, node, rep, prev, nxt>>
vars == <<parent, pc, a, b, frame, merges, comp, call, result>>

TypeOK ==
  /\ parent \in [Nodes -> Nodes]
  /\ pc \in [Threads -> {"idle", "mergeLoad", "isRep", "repLoad", "first", "test", "next",
                         "prevTest", "store", "compressStore", "cas"}]
  /\ a \in [Threads -> Nodes \cup {Null}]
  /\ b \in [Threads -> Nodes \cup {Null}]
  /\ side \in [Threads -> {"-", "a", "b"}]
  /\ node \in [Threads -> Nodes \cup {Null}]
  /\ rep \in [Threads -> Nodes \cup {Null}]
  /\ prev \in [Threads -> Nodes \cup {Null}]
  /\ nxt \in [Threads -> Nodes \cup {Null}]
  /\ merges \in Nat
  /\ comp \in [Nodes -> Nodes]
  /\ call \in [Threads -> Calls]
  /\ result \in [Threads -> Nodes \cup {Null}]

\* Every node starts as a component of its own: UnionFindNode(this).
Init ==
  /\ parent = [n \in Nodes |-> n]
  /\ pc = [t \in Threads |-> "idle"]
  /\ a = [t \in Threads |-> Null]
  /\ b = [t \in Threads |-> Null]
  /\ side = [t \in Threads |-> "-"]
  /\ node = [t \in Threads |-> Null]
  /\ rep = [t \in Threads |-> Null]
  /\ prev = [t \in Threads |-> Null]
  /\ nxt = [t \in Threads |-> Null]
  /\ merges = 0
  /\ SpecInit

At(t, from) == pc[t] = from
Goto(t, to) == pc' = [pc EXCEPT ![t] = to]

IsRep(n) == parent[n] = n
Reps == {n \in Nodes : IsRep(n)}

\* A thread calls find(), findAndCompress() or compress() on x.
BeginFind(t, op, x) ==
  /\ At(t, "idle")
  /\ Begin(t, op, x, Null)
  /\ Goto(t, "isRep")
  /\ node' = [node EXCEPT ![t] = x]
  /\ UNCHANGED <<parent, a, b, side, rep, prev, nxt, merges>>

\* A thread calls x->merge(y).
BeginMerge(t, x, y) ==
  /\ At(t, "idle")
  /\ Begin(t, "merge", x, y)
  /\ Goto(t, "mergeLoad")
  /\ UNCHANGED <<parent, a, b, frame, merges>>

\* a = m_component.load(), and the call of a->findAndCompress()
MergeLoad(t) ==
  /\ At(t, "mergeLoad")
  /\ Goto(t, "isRep")
  /\ a' = [a EXCEPT ![t] = parent[call[t].x]]
  /\ b' = [b EXCEPT ![t] = call[t].y]
  /\ side' = [side EXCEPT ![t] = "a"]
  /\ node' = [node EXCEPT ![t] = parent[call[t].x]]
  /\ UNCHANGED <<parent, rep, prev, nxt, merges, comp, call, result>>

\* The locals of the loop go out of scope.
LeaveLoop(t) ==
  /\ rep' = [rep EXCEPT ![t] = Null]
  /\ prev' = [prev EXCEPT ![t] = Null]
  /\ nxt' = [nxt EXCEPT ![t] = Null]

\* The call on node returns r: to merge, which goes on with b or with the
\* comparison of a and b, or to the caller.
Return(t, r) ==
  /\ LeaveLoop(t)
  /\ UNCHANGED <<parent, merges, comp>>
  /\ \/ /\ side[t] = "a"
        /\ Goto(t, "isRep")
        /\ a' = [a EXCEPT ![t] = r]
        /\ side' = [side EXCEPT ![t] = "b"]
        /\ node' = [node EXCEPT ![t] = b[t]]
        /\ UNCHANGED <<b, call, result>>
     \/ /\ side[t] = "b"
        /\ Goto(t, "cas")
        /\ b' = [b EXCEPT ![t] = r]
        /\ side' = [side EXCEPT ![t] = "-"]
        /\ node' = [node EXCEPT ![t] = Null]
        /\ UNCHANGED <<a, call, result>>
     \/ /\ side[t] = "-"
        /\ Goto(t, "idle")
        /\ node' = [node EXCEPT ![t] = Null]
        /\ Finish(t, r)
        /\ UNCHANGED <<a, b, side>>

\* compress() returns, having stored p in m_component.
ReturnCompress(t) ==
  /\ Goto(t, "idle")
  /\ LeaveLoop(t)
  /\ node' = [node EXCEPT ![t] = Null]
  /\ Finish(t, Null)
  /\ UNCHANGED <<a, b, side, merges, comp>>

\* if (isRep())
TestIsRep(t) ==
  /\ At(t, "isRep")
  /\ \/ /\ IsRep(node[t])
        /\ call[t].op = "compress"
        /\ ReturnCompress(t)
        /\ UNCHANGED parent
     \/ /\ IsRep(node[t]) => call[t].op # "compress"
        /\ Goto(t, IF IsRep(node[t]) THEN "repLoad" ELSE "first")
        /\ UNCHANGED <<parent, a, b, frame, merges, comp, call, result>>

\* return m_component.load(): a second load, which may see a merge
RepLoad(t) ==
  /\ At(t, "repLoad")
  /\ Return(t, parent[node[t]])

\* T* rep = m_component, T* prev = 0
First(t) ==
  /\ At(t, "first")
  /\ Goto(t, "test")
  /\ rep' = [rep EXCEPT ![t] = parent[node[t]]]
  /\ UNCHANGED <<parent, a, b, side, node, prev, nxt, merges, comp, call, result>>

\* while (rep->m_component.load() != rep)
Test(t) ==
  /\ At(t, "test")
  /\ \/ /\ IsRep(rep[t])
        /\ call[t].op # "compress"
        /\ Return(t, rep[t])
     \/ /\ IsRep(rep[t]) => call[t].op = "compress"
        /\ Goto(t, IF IsRep(rep[t]) THEN "compressStore" ELSE "next")
        /\ UNCHANGED <<parent, a, b, frame, merges, comp, call, result>>

\* The loop goes on from n.
Advance(t, n) ==
  /\ Goto(t, "test")
  /\ rep' = [rep EXCEPT ![t] = n]
  /\ prev' = [prev EXCEPT ![t] = IF call[t].op \in {"find", "compress"} THEN Null ELSE rep[t]]
  /\ nxt' = [nxt EXCEPT ![t] = Null]
  /\ UNCHANGED <<a, b, side, node, merges, comp, call, result>>

\* T* next = rep->m_component.load(); find and compress have no prev
LoadNext(t) ==
  /\ At(t, "next")
  /\ UNCHANGED parent
  /\ \/ /\ prev[t] = Null
        /\ Advance(t, parent[rep[t]])
     \/ /\ prev[t] # Null
        /\ Goto(t, "prevTest")
        /\ nxt' = [nxt EXCEPT ![t] = parent[rep[t]]]
        /\ UNCHANGED <<a, b, side, node, rep, prev, merges, comp, call, result>>

\* prev->m_component.load() == rep
TestPrev(t) ==
  /\ At(t, "prevTest")
  /\ UNCHANGED parent
  /\ \/ /\ parent[prev[t]] # rep[t]
        /\ Advance(t, nxt[t])
     \/ /\ parent[prev[t]] = rep[t]
        /\ Goto(t, "store")
        /\ UNCHANGED <<a, b, frame, merges, comp, call, result>>

Shortcut_Whole(t) == [parent EXCEPT ![rep[t]] = prev[t]]

\* prev->m_component.store(next): the test before it may be stale
Shortcut(t) == [parent EXCEPT ![prev[t]] = nxt[t]]

StorePrev(t) ==
  /\ At(t, "store")
  /\ parent' = Shortcut(t)
  /\ Advance(t, nxt[t])

\* m_component.store(rep) at the end of compress()
CompressStore(t) ==
  /\ At(t, "compressStore")
  /\ parent' = [parent EXCEPT ![node[t]] = rep[t]]
  /\ ReturnCompress(t)

Directed_AsGiven(x, y) == <<x, y>>

\* if (a < b) std::swap(a, b)
Directed(x, y) == IF x < y THEN <<y, x>> ELSE <<x, y>>

Swings_Always(n) == TRUE

\* compare_exchange_strong(a, b) succeeds
Swings(n) == parent[n] = n

MergeReturns(t) ==
  /\ Goto(t, "idle")
  /\ a' = [a EXCEPT ![t] = Null]
  /\ b' = [b EXCEPT ![t] = Null]
  /\ UNCHANGED frame

\* a == b, or the compare-exchange: its success, or its failure, which loads a
Cas(t) ==
  LET hi == Directed(a[t], b[t])[1]
      lo == Directed(a[t], b[t])[2]
  IN  /\ At(t, "cas")
      /\ \/ /\ a[t] = b[t]
            /\ MergeReturns(t)
            /\ Finish(t, Null)
            /\ UNCHANGED <<parent, merges, comp>>
         \/ /\ a[t] # b[t]
            /\ Swings(hi)
            /\ parent' = [parent EXCEPT ![hi] = lo]
            /\ merges' = merges + 1
            /\ comp' = Joined(hi, lo)
            /\ call' = Overlapped(t)
            /\ result' = [result EXCEPT ![t] = lo]
            /\ MergeReturns(t)
         \/ /\ a[t] # b[t]
            /\ ~Swings(hi)
            /\ Goto(t, "isRep")
            /\ a' = [a EXCEPT ![t] = parent[hi]]
            /\ b' = [b EXCEPT ![t] = lo]
            /\ side' = [side EXCEPT ![t] = "a"]
            /\ node' = [node EXCEPT ![t] = parent[hi]]
            /\ UNCHANGED <<parent, rep, prev, nxt, merges, comp, call, result>>

Step(t) ==
  \/ MergeLoad(t) \/ TestIsRep(t) \/ RepLoad(t) \/ First(t) \/ Test(t) \/ LoadNext(t)
  \/ TestPrev(t) \/ StorePrev(t) \/ CompressStore(t) \/ Cas(t)

Next ==
  \E t \in Threads :
    \/ \E op \in Finds \cup {"compress"}, x \in Sought : BeginFind(t, op, x)
    \/ \E e \in Edges : BeginMerge(t, e[1], e[2])
    \/ Step(t)

Spec == Init /\ [][Next]_vars

--------------------------------------------------------------------------------
\* Links lead to smaller addresses inside a component, so there is no cycle,
\* and the one node without a link is the representative.
Forest ==
  \A n \in Nodes :
    /\ parent[n] <= n
    /\ comp[n] <= n
    /\ comp[comp[n]] = comp[n]
    /\ comp[parent[n]] = comp[n]
    /\ IsRep(n) => comp[n] = n

\* What thread t's locals point to while it walks a path.
Walking(t) ==
  /\ pc[t] \in {"isRep", "repLoad", "first", "test", "next", "prevTest", "store", "compressStore"} =>
       /\ node[t] # Null
       /\ call[t].op # "none"
       /\ call[t].op = "merge" <=> side[t] # "-"
       /\ side[t] = "a" => node[t] = a[t]
       /\ side[t] = "b" => node[t] = b[t]
       /\ side[t] = "-" => node[t] = call[t].x
  /\ pc[t] \in {"repLoad", "compressStore"} => (call[t].op = "compress" <=> pc[t] = "compressStore")
  /\ pc[t] = "repLoad" /\ call[t].quiet => IsRep(node[t])
  /\ pc[t] \in {"first", "test", "next", "prevTest", "store", "compressStore"} => ~IsRep(node[t])
  /\ pc[t] \in {"test", "next", "prevTest", "store", "compressStore"} =>
       rep[t] # Null /\ comp[rep[t]] = comp[node[t]] /\ rep[t] < node[t]
  /\ pc[t] \in {"next", "prevTest", "store"} => ~IsRep(rep[t])
  /\ pc[t] \in {"prevTest", "store"} =>
       prev[t] # Null /\ nxt[t] # Null /\ comp[nxt[t]] = comp[rep[t]] /\ nxt[t] < rep[t]
  /\ prev[t] # Null =>
       /\ pc[t] \in {"test", "next", "prevTest", "store"} /\ call[t].op # "compress"
       /\ comp[prev[t]] = comp[rep[t]] /\ rep[t] < prev[t] /\ ~IsRep(prev[t])

\* merge's a and b are in the components of the nodes it was called for.
Merging(t) ==
  /\ pc[t] = "idle" <=> call[t].op = "none"
  /\ pc[t] \in {"mergeLoad", "cas"} => call[t].op = "merge"
  /\ pc[t] \in {"idle", "mergeLoad", "cas"} => side[t] = "-"
  /\ call[t].op # "none" => call[t].x # Null
  /\ call[t].op = "merge" => call[t].y # Null
  /\ call[t].op = "merge" /\ pc[t] # "mergeLoad" =>
       /\ a[t] # Null /\ b[t] # Null
       /\ \/ comp[a[t]] = comp[call[t].x] /\ comp[b[t]] = comp[call[t].y]
          \/ comp[a[t]] = comp[call[t].y] /\ comp[b[t]] = comp[call[t].x]

ForestInv ==
  /\ TypeOK
  /\ Forest
  /\ \A t \in Threads : Walking(t) /\ Merging(t)

(***************************************************************************)
(* The links stay a forest over the components that the merges so far have *)
(* formed, whatever the compressions racing with them store, and every     *)
(* merge that returned a node joined two components: the components that   *)
(* are left and those merges add up to the nodes. Minimum spanning forests *)
(* take an edge exactly when merge returns a node. The types are part of   *)
(* the invariant.                                                          *)
(***************************************************************************)
UnionFindInv == ForestInv /\ Cardinality(Reps) + merges = N

(***************************************************************************)
(* The callers see a partition: a merge takes effect in one step, no       *)
(* component ever splits, and a find that no merge overlaps returns the    *)
(* representative. A find that overlaps one may return a node that is not. *)
(***************************************************************************)
Partition == PartitionSpec

\* What is left of thread t's call, the weightiest part first: the addresses that
\* merge works on, its searches, the address a walk has reached, and the steps
\* of this turn of the loop.
Operands(t) ==
  IF call[t].op # "merge" THEN 0
  ELSE IF pc[t] = "mergeLoad" THEN 2 * N + 1 ELSE a[t] + b[t]

Searches(t) == IF side[t] = "a" THEN 2 ELSE IF side[t] = "b" THEN 1 ELSE 0

Reached(t) ==
  IF pc[t] \in {"isRep", "repLoad", "first"} THEN N + 1
  ELSE IF pc[t] \in {"test", "next", "prevTest", "store", "compressStore"} THEN rep[t] ELSE 0

Remains(t) ==
  IF pc[t] \in {"isRep", "test"} THEN 4
  ELSE IF pc[t] \in {"first", "repLoad", "next", "compressStore"} THEN 3
  ELSE IF pc[t] = "prevTest" THEN 2 ELSE 1

Shrinks(t) ==
  \/ Operands(t)' < Operands(t)
  \/ /\ Operands(t)' = Operands(t)
     /\ \/ Searches(t)' < Searches(t)
        \/ /\ Searches(t)' = Searches(t)
           /\ \/ Reached(t)' < Reached(t)
              \/ Reached(t)' = Reached(t) /\ Remains(t)' < Remains(t)

(***************************************************************************)
(* Every call is wait-free: each step a thread takes in it ends it or      *)
(* makes what is left of it smaller, in a lexicographic order on naturals, *)
(* and no other thread's step makes it larger. In particular each retry of *)
(* merge and each turn of a loop goes down to a smaller address, although  *)
(* the links change under the walk.                                        *)
(***************************************************************************)
CallsShrink ==
  [][\A t \in Threads : pc[t] # "idle" =>
       IF Step(t) THEN pc'[t] = "idle" \/ Shrinks(t)
       ELSE UNCHANGED <<Operands(t), Searches(t), Reached(t), Remains(t)>>]_vars

================================================================================
