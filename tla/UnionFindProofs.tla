---------------------------- MODULE UnionFindProofs ----------------------------
(***************************************************************************)
(* Union-find keeps its forest, for every number of nodes and every set of *)
(* threads. The first part is about the steps that only read the links     *)
(* (calls that begin, walk and return) and what a step leaves alone, the   *)
(* second about what callers rely on: each step is one of the partition or *)
(* none, and brings the call that takes it nearer to its end. The third    *)
(* part has the steps that write the links, and the theorems.              *)
(***************************************************************************)
EXTENDS UnionFind, FiniteSetTheorems, TLAPS

USE UnionFindAssumption DEF Nodes, Null

\* Nothing is merged and every node is its own representative.
LEMMA InitInv == Init => ForestInv
<1> SUFFICES ASSUME Init PROVE ForestInv
  BY Zenon
<1> USE DEF Init, SpecInit, NoCall
<1>1. TypeOK
  BY Zenon DEF TypeOK, Calls, Finds
<1>2. Forest
  BY DEF Forest
<1>3. \A t \in Threads : Walking(t) /\ Merging(t)
  BY ZenonT(30) DEF Walking, Merging
<1> QED
  BY <1>1, <1>2, <1>3, Zenon DEF ForestInv

\* In a forest over components a node without a link is the representative, and
\* the representative has no link.
LEMMA RepsAreRoots ==
  ASSUME TypeOK, Forest
  PROVE  \A n \in Nodes : IsRep(n) <=> comp[n] = n
  BY DEF TypeOK, Forest, IsRep

\* The types of what belongs to thread t.
Locals(t) ==
  /\ a[t] \in Nodes \cup {Null}
  /\ b[t] \in Nodes \cup {Null}
  /\ node[t] \in Nodes \cup {Null}
  /\ rep[t] \in Nodes \cup {Null}
  /\ prev[t] \in Nodes \cup {Null}
  /\ nxt[t] \in Nodes \cup {Null}
  /\ side[t] \in {"-", "a", "b"}
  /\ call[t].op \in {"none", "merge", "compress"} \cup Finds
  /\ call[t].x \in Nodes \cup {Null}
  /\ call[t].y \in Nodes \cup {Null}
  /\ call[t].quiet \in BOOLEAN

\* The type invariant, thread by thread.
LEMMA Typed == TypeOK => \A t \in Threads : Locals(t)
  BY ZenonT(30) DEF TypeOK, Locals, Calls

\* The fresh call record is one.
LEMMA NoCallTyped == NoCall \in Calls
  BY Zenon DEF NoCall, Calls

\* What the invariant says of one thread.
LEMMA Own ==
  ASSUME ForestInv, NEW t \in Threads
  PROVE  TypeOK /\ Forest /\ Walking(t) /\ Merging(t) /\ Locals(t)
  BY Typed, Zenon DEF ForestInv

\* The per-thread variables are functions on the threads.
PerThread ==
  /\ pc = [u \in Threads |-> pc[u]]
  /\ a = [u \in Threads |-> a[u]]
  /\ b = [u \in Threads |-> b[u]]
  /\ side = [u \in Threads |-> side[u]]
  /\ node = [u \in Threads |-> node[u]]
  /\ rep = [u \in Threads |-> rep[u]]
  /\ prev = [u \in Threads |-> prev[u]]
  /\ nxt = [u \in Threads |-> nxt[u]]
  /\ call = [u \in Threads |-> call[u]]

\* The part of the types that is about whose a local is.
LEMMA ArePerThread == TypeOK => PerThread
  BY Zenon DEF TypeOK, PerThread

\* Thread u's locals stay, and a merge that takes effect only ends the quiet of
\* its call.
SameCall(u) ==
  /\ pc'[u] = pc[u] /\ a'[u] = a[u] /\ b'[u] = b[u] /\ side'[u] = side[u] /\ node'[u] = node[u]
  /\ rep'[u] = rep[u] /\ prev'[u] = prev[u] /\ nxt'[u] = nxt[u]
  /\ call'[u].op = call[u].op /\ call'[u].x = call[u].x /\ call'[u].y = call[u].y
  /\ call'[u].quiet => call[u].quiet \/ call[u].op = "none"

\* A step of thread t, whether it begins a call or goes on with it.
StepOf(t) ==
  \/ \E op \in Finds \cup {"compress"}, x \in Nodes : BeginFind(t, op, x)
  \/ \E x, y \in Nodes : BeginMerge(t, x, y)
  \/ Step(t)

\* A thread writes no local of another one.
LEMMA OthersUntouched ==
  ASSUME TypeOK, NEW t \in Threads, StepOf(t), NEW u \in Threads \ {t}
  PROVE  SameCall(u)
<1>0. PerThread
  BY ArePerThread, Zenon
<1> USE DEF SameCall, PerThread, Goto
<1>1. CASE \E op \in Finds \cup {"compress"}, x \in Nodes : BeginFind(t, op, x)
  BY <1>0, <1>1, Zenon DEF BeginFind, Begin
<1>2. CASE \E x, y \in Nodes : BeginMerge(t, x, y)
  BY <1>0, <1>2, Zenon DEF BeginMerge, Begin, frame
<1>3. CASE MergeLoad(t)
  BY <1>0, <1>3, ZenonT(30) DEF MergeLoad
<1>4. CASE TestIsRep(t)
  BY <1>0, <1>4, Zenon DEF TestIsRep, ReturnCompress, LeaveLoop, Finish, frame
<1>5. CASE RepLoad(t)
  BY <1>0, <1>5, ZenonT(30) DEF RepLoad, Return, LeaveLoop, Finish, frame
<1>6. CASE First(t)
  BY <1>0, <1>6, Zenon DEF First
<1>7. CASE Test(t)
  BY <1>0, <1>7, Zenon DEF Test, Return, LeaveLoop, Finish, frame
<1>8. CASE LoadNext(t)
  BY <1>0, <1>8, Zenon DEF LoadNext, Advance
<1>9. CASE TestPrev(t)
  BY <1>0, <1>9, Zenon DEF TestPrev, Advance, frame
<1>10. CASE StorePrev(t)
  BY <1>0, <1>10, ZenonT(30) DEF StorePrev, Advance
<1>11. CASE CompressStore(t)
  BY <1>0, <1>11, ZenonT(30) DEF CompressStore, ReturnCompress, LeaveLoop, Finish
<1>12. CASE Cas(t)
  <2>1. CASE MergeReturns(t) /\ Finish(t, Null)
    BY <1>0, <2>1, ZenonT(30) DEF MergeReturns, Finish, frame
  <2>2. CASE MergeReturns(t) /\ call' = Overlapped(t)
    <3>1. call[u] \in Calls /\ call'[u] = [call[u] EXCEPT !.quiet = call[u].op = "none"]
      BY <2>2, Zenon DEF TypeOK, Overlapped
    <3>2. /\ call'[u].op = call[u].op /\ call'[u].x = call[u].x /\ call'[u].y = call[u].y
          /\ call'[u].quiet => call[u].op = "none"
      BY <3>1, ZenonT(30) DEF Calls
    <3> QED
      BY <1>0, <2>2, <3>2, ZenonT(30) DEF MergeReturns, frame
  <2>3. CASE /\ Goto(t, "isRep")
             /\ \E m : a' = [a EXCEPT ![t] = m]
             /\ \E m : b' = [b EXCEPT ![t] = m]
             /\ side' = [side EXCEPT ![t] = "a"]
             /\ \E m : node' = [node EXCEPT ![t] = m]
             /\ UNCHANGED <<rep, prev, nxt, call>>
    BY <1>0, <2>3, ZenonT(30)
  <2> QED
    BY <1>12, <2>1, <2>2, <2>3, Zenon DEF Cas
<1> QED
  BY <1>1, <1>2, <1>3, <1>4, <1>5, <1>6, <1>7, <1>8, <1>9, <1>10, <1>11, <1>12, Zenon DEF StepOf, Step

\* What the actions of thread t may do to the nodes without disturbing another
\* thread in the middle of a call: a node with a link keeps one, one without
\* gets none while the call is quiet, and components only join.
Harmless(t) ==
  /\ \A n \in Nodes : ~IsRep(n) => ~IsRep(n)'
  /\ \A u \in Threads \ {t} : call'[u].quiet => \/ call[u].op = "none"
                                                \/ \A n \in Nodes : IsRep(n) => IsRep(n)'
  /\ \A m, n \in Nodes : comp[m] = comp[n] => comp'[m] = comp'[n]
  /\ \A u \in Threads \ {t} : SameCall(u)

\* A step that makes no representative and no component is harmless.
LEMMA QuietStep ==
  ASSUME ForestInv, NEW t \in Threads, StepOf(t), UNCHANGED comp,
         \A n \in Nodes : IsRep(n)' <=> IsRep(n)
  PROVE  Harmless(t)
<1>1. \A u \in Threads \ {t} : SameCall(u)
  BY Own, OthersUntouched, Zenon
<1> QED
  BY <1>1, Zenon DEF Harmless

\* A thread in a call tolerates every harmless step of the others.
LEMMA OthersKeep ==
  ASSUME ForestInv, NEW t \in Threads, Harmless(t)
  PROVE  \A u \in Threads \ {t} : Walking(u)' /\ Merging(u)'
<1> TAKE u \in Threads \ {t}
<1>1. Walking(u) /\ Merging(u) /\ Locals(u)
  BY Own, Zenon
<1>2. Walking(u)'
  BY <1>1 DEF Walking, Harmless, SameCall, Locals
<1>3. Merging(u)'
  BY <1>1 DEF Merging, Harmless, SameCall, Locals
<1> QED
  BY <1>2, <1>3, Zenon

\* Representatives and merges change together: a merge that returns a node takes
\* one representative away, and nothing else does.
CountStep ==
  \/ Reps' = Reps /\ merges' = merges
  \/ merges' = merges + 1 /\ \E n \in Reps : Reps' = Reps \ {n}

\* What every step has to keep.
Keeps == ForestInv' /\ CountStep

\* The steps that leave the nodes alone leave the forest and its count alone.
LEMMA SameNodes ==
  ASSUME ForestInv, UNCHANGED <<parent, comp, merges>>
  PROVE  /\ Forest'
         /\ CountStep
         /\ \A n \in Nodes : IsRep(n)' <=> IsRep(n)
<1>1. Reps' = Reps
  BY Zenon DEF Reps, IsRep
<1>2. CountStep
  BY <1>1, Zenon DEF CountStep
<1> QED
  BY <1>2, Zenon DEF ForestInv, Forest, IsRep

\* What a step of thread t has to establish.
LEMMA StepKeeps ==
  ASSUME ForestInv, NEW t \in Threads, TypeOK', Forest', Harmless(t), Walking(t)', Merging(t)',
         CountStep
  PROVE  Keeps
<1>1. \A u \in Threads \ {t} : Walking(u)' /\ Merging(u)'
  BY OthersKeep, Zenon
<1>2. \A u \in Threads : Walking(u)' /\ Merging(u)'
  BY <1>1, Zenon
<1> QED
  BY <1>2, Zenon DEF ForestInv, Keeps

\* A thread that starts a walk has no locals of the loop yet.
LEMMA WalkStarts ==
  ASSUME NEW t \in Threads, pc'[t] = "isRep", prev'[t] = Null, node'[t] # Null, call'[t].op # "none",
         call'[t].op = "merge" <=> side'[t] # "-",
         side'[t] = "a" => node'[t] = a'[t],
         side'[t] = "b" => node'[t] = b'[t],
         side'[t] = "-" => node'[t] = call'[t].x
  PROVE  Walking(t)'
  BY Zenon DEF Walking

\* A merge past its first load keeps the components of its operands.
LEMMA MergeGoesOn ==
  ASSUME NEW t \in Threads, pc'[t] \notin {"idle", "mergeLoad"}, call'[t].op = "merge",
         pc'[t] = "cas" => side'[t] = "-", call'[t].x # Null, call'[t].y # Null,
         a'[t] # Null, b'[t] # Null,
         \/ comp'[a'[t]] = comp'[call'[t].x] /\ comp'[b'[t]] = comp'[call'[t].y]
         \/ comp'[a'[t]] = comp'[call'[t].y] /\ comp'[b'[t]] = comp'[call'[t].x]
  PROVE  Merging(t)'
  BY Zenon DEF Merging

\* The beginning of a find or of a compression.
LEMMA BeginFindKeeps ==
  ASSUME ForestInv, NEW t \in Threads, NEW op \in Finds \cup {"compress"}, NEW x \in Nodes,
         BeginFind(t, op, x)
  PROVE  Keeps
<1>0. TypeOK /\ Walking(t) /\ Merging(t) /\ Locals(t)
  BY Own, Zenon
<1>20. StepOf(t)
  BY Zenon DEF StepOf
<1>1. \A n \in Nodes : IsRep(n)' <=> IsRep(n)
  BY Zenon DEF BeginFind, IsRep
<1>2. TypeOK'
  BY <1>0, ZenonT(30) DEF TypeOK, Calls, BeginFind, Begin, Goto, Finds
<1> USE DEF BeginFind, Begin, At, Goto, Finds
<1>3. Harmless(t)
  BY <1>1, <1>20, QuietStep, Zenon
<1>6. /\ pc'[t] = "isRep" /\ node'[t] = x /\ side'[t] = "-" /\ prev'[t] = Null
      /\ call'[t].op = op /\ call'[t].x = x
  BY <1>0, Zenon DEF TypeOK, Walking, Merging
<1>4. Walking(t)'
  BY <1>6 DEF Walking
<1>5. Merging(t)'
  BY <1>6 DEF Merging
<1> QED
  BY <1>2, <1>3, <1>4, <1>5, SameNodes, StepKeeps, Zenon

\* The beginning of a merge.
LEMMA BeginMergeKeeps ==
  ASSUME ForestInv, NEW t \in Threads, NEW x \in Nodes, NEW y \in Nodes, BeginMerge(t, x, y)
  PROVE  Keeps
<1>0. TypeOK /\ Walking(t) /\ Merging(t) /\ Locals(t)
  BY Own, Zenon
<1>20. StepOf(t)
  BY Zenon DEF StepOf
<1>1. \A n \in Nodes : IsRep(n)' <=> IsRep(n)
  BY Zenon DEF BeginMerge, IsRep
<1>2. TypeOK'
  BY <1>0, ZenonT(30) DEF TypeOK, Calls, BeginMerge, Begin, Goto, Finds, frame
<1> USE DEF BeginMerge, Begin, At, Goto, frame
<1>3. Harmless(t)
  BY <1>1, <1>20, QuietStep, Zenon
<1>6. /\ pc'[t] = "mergeLoad" /\ side'[t] = "-" /\ prev'[t] = Null
      /\ call'[t].op = "merge" /\ call'[t].x = x /\ call'[t].y = y
  BY <1>0, Zenon DEF TypeOK, Walking, Merging
<1>4. Walking(t)'
  BY <1>6, Zenon DEF Walking
<1>5. Merging(t)'
  BY <1>6 DEF Merging
<1> QED
  BY <1>2, <1>3, <1>4, <1>5, SameNodes, StepKeeps, Zenon

\* merge starts its first search.
LEMMA MergeLoadKeeps ==
  ASSUME ForestInv, NEW t \in Threads, MergeLoad(t)
  PROVE  Keeps
<1>0. TypeOK /\ Forest /\ Walking(t) /\ Merging(t) /\ Locals(t)
  BY Own, Zenon
<1>20. StepOf(t)
  BY Zenon DEF StepOf, Step
<1>1. \A n \in Nodes : IsRep(n)' <=> IsRep(n)
  BY Zenon DEF MergeLoad, IsRep
<1> USE DEF MergeLoad, At, Goto
<1>2. call[t].op = "merge" /\ call[t].x \in Nodes /\ call[t].y \in Nodes /\ prev[t] = Null
  BY <1>0, Zenon DEF Walking, Merging, Locals
<1>3. parent[call[t].x] \in Nodes /\ comp[parent[call[t].x]] = comp[call[t].x]
  BY <1>0, <1>2, Zenon DEF TypeOK, Forest
<1>4. TypeOK'
  BY <1>0, <1>2, <1>3, ZenonT(30) DEF TypeOK
<1>5. Harmless(t)
  BY <1>1, <1>20, QuietStep, Zenon
<1>6. Walking(t)'
  BY <1>0, <1>2, <1>3, SMTT(60) DEF TypeOK, Walking
<1>7. Merging(t)'
  BY <1>0, <1>2, <1>3, SMTT(60) DEF TypeOK, Merging
<1> QED
  BY <1>4, <1>5, <1>6, <1>7, SameNodes, StepKeeps, Zenon

\* A walk that ends with a node of the component it started in gives it back to
\* merge or to the caller.
LEMMA ReturnKeeps ==
  ASSUME ForestInv, NEW t \in Threads, NEW r \in Nodes, StepOf(t), Return(t, r),
         pc[t] \in {"repLoad", "test"}, comp[r] = comp[node[t]]
  PROVE  Keeps
<1>0. TypeOK /\ Forest /\ Walking(t) /\ Merging(t) /\ Locals(t)
  BY Own, Zenon
<1>1. \A n \in Nodes : IsRep(n)' <=> IsRep(n)
  BY Zenon DEF Return, IsRep
<1> USE DEF Return, LeaveLoop, Goto
<1>2. CASE side[t] = "a"
  <2> USE <1>2
  <2>1. call[t].op = "merge" /\ node[t] = a[t] /\ b[t] \in Nodes
    BY <1>0, Zenon DEF Walking, Merging, Locals
  <2>6. /\ pc' = [pc EXCEPT ![t] = "isRep"]
        /\ a' = [a EXCEPT ![t] = r]
        /\ side' = [side EXCEPT ![t] = "b"]
        /\ node' = [node EXCEPT ![t] = b[t]]
        /\ UNCHANGED <<b, call, result>>
    BY Zenon
  <2>7. /\ pc'[t] = "isRep" /\ a'[t] = r /\ side'[t] = "b" /\ node'[t] = b[t] /\ prev'[t] = Null
        /\ b'[t] = b[t] /\ call'[t] = call[t]
    BY <1>0, <2>6, Zenon DEF TypeOK
  <2>2. TypeOK'
    BY <1>0, <2>1, <2>6, ZenonT(30) DEF TypeOK
  <2>3. Harmless(t)
    BY <1>1, QuietStep, Zenon
  <2>4. Walking(t)'
    BY <2>1, <2>7, WalkStarts
  <2>8. /\ call[t].x # Null /\ call[t].y # Null /\ a[t] # Null /\ b[t] # Null
        /\ \/ comp[a[t]] = comp[call[t].x] /\ comp[b[t]] = comp[call[t].y]
           \/ comp[a[t]] = comp[call[t].y] /\ comp[b[t]] = comp[call[t].x]
    BY <1>0, <2>1, Zenon DEF Merging
  <2>5. Merging(t)'
    BY <2>1, <2>7, <2>8, MergeGoesOn, SMTT(60)
  <2> QED
    BY <2>2, <2>3, <2>4, <2>5, SameNodes, StepKeeps, Zenon
<1>3. CASE side[t] = "b"
  <2> USE <1>3
  <2>1. call[t].op = "merge" /\ node[t] = b[t]
    BY <1>0, Zenon DEF Walking
  <2>6. /\ pc' = [pc EXCEPT ![t] = "cas"]
        /\ b' = [b EXCEPT ![t] = r]
        /\ side' = [side EXCEPT ![t] = "-"]
        /\ node' = [node EXCEPT ![t] = Null]
        /\ UNCHANGED <<a, call, result>>
    BY Zenon
  <2>7. /\ pc'[t] = "cas" /\ b'[t] = r /\ side'[t] = "-" /\ prev'[t] = Null
        /\ a'[t] = a[t] /\ call'[t] = call[t]
    BY <1>0, <2>6, Zenon DEF TypeOK
  <2>2. TypeOK'
    BY <1>0, <2>1, <2>6, ZenonT(30) DEF TypeOK
  <2>3. Harmless(t)
    BY <1>1, QuietStep, Zenon
  <2>4. Walking(t)'
    BY <2>7, Zenon DEF Walking
  <2>8. /\ call[t].x # Null /\ call[t].y # Null /\ a[t] # Null /\ b[t] # Null
        /\ \/ comp[a[t]] = comp[call[t].x] /\ comp[b[t]] = comp[call[t].y]
           \/ comp[a[t]] = comp[call[t].y] /\ comp[b[t]] = comp[call[t].x]
    BY <1>0, <2>1, Zenon DEF Merging
  <2>5. Merging(t)'
    BY <2>1, <2>7, <2>8, MergeGoesOn, SMTT(60)
  <2> QED
    BY <2>2, <2>3, <2>4, <2>5, SameNodes, StepKeeps, Zenon
<1>4. CASE side[t] = "-"
  <2> USE <1>4 DEF Finish
  <2>6. /\ pc' = [pc EXCEPT ![t] = "idle"]
        /\ node' = [node EXCEPT ![t] = Null]
        /\ call' = [call EXCEPT ![t] = NoCall]
        /\ result' = [result EXCEPT ![t] = r]
        /\ UNCHANGED <<a, b, side>>
    BY Zenon
  <2>2. TypeOK'
    BY <1>0, <2>6, NoCallTyped, ZenonT(30) DEF TypeOK
  <2>3. Harmless(t)
    BY <1>1, QuietStep, Zenon
  <2>4. Walking(t)'
    BY <1>0, Zenon DEF TypeOK, Walking, NoCall
  <2>5. Merging(t)'
    BY <1>0, SMTT(60) DEF TypeOK, Merging, NoCall
  <2> QED
    BY <2>2, <2>3, <2>4, <2>5, SameNodes, StepKeeps, Zenon
<1> QED
  BY <1>0, <1>2, <1>3, <1>4, Zenon DEF Locals

\* The steps of a walk that leave the nodes alone and go on with it.
LEMMA WalkKeeps ==
  ASSUME ForestInv, NEW t \in Threads, StepOf(t),
         \/ At(t, "isRep") /\ Goto(t, IF IsRep(node[t]) THEN "repLoad" ELSE "first")
                           /\ (IsRep(node[t]) => call[t].op # "compress")
         \/ At(t, "test") /\ Goto(t, IF IsRep(rep[t]) THEN "compressStore" ELSE "next")
                          /\ (IsRep(rep[t]) => call[t].op = "compress")
         \/ At(t, "prevTest") /\ Goto(t, "store"),
         UNCHANGED <<parent, a, b, frame, merges, comp, call, result>>
  PROVE  Keeps
<1>0. TypeOK /\ Forest /\ Walking(t) /\ Merging(t) /\ Locals(t)
  BY Own, ZenonT(30)
<1>1. \A n \in Nodes : IsRep(n)' <=> IsRep(n)
  BY Zenon DEF IsRep
<1> USE DEF At, Goto, frame
<1>2. TypeOK'
  BY <1>0, ZenonT(30) DEF TypeOK
<1>3. Harmless(t)
  BY <1>1, QuietStep, Zenon
<1>6. \/ pc[t] = "isRep" /\ pc'[t] = "repLoad" /\ IsRep(node[t]) /\ call[t].op # "compress"
      \/ pc[t] = "isRep" /\ pc'[t] = "first" /\ ~IsRep(node[t])
      \/ pc[t] = "test" /\ pc'[t] = "compressStore" /\ call[t].op = "compress"
      \/ pc[t] = "test" /\ pc'[t] = "next" /\ ~IsRep(rep[t])
      \/ pc[t] = "prevTest" /\ pc'[t] = "store"
  BY <1>0, Zenon DEF TypeOK
<1>7. node[t] \in Nodes /\ (pc[t] # "isRep" => rep[t] \in Nodes) /\ (prev[t] # Null => prev[t] \in Nodes)
  BY <1>0, <1>6, Zenon DEF Walking, Locals
<1>8. (prev[t] # Null => call[t].op # "compress")
  BY <1>0, Zenon DEF Walking
<1>4. Walking(t)'
  BY <1>0, <1>1, <1>6, <1>7, <1>8, ZenonT(30) DEF Walking
<1>5. Merging(t)'
  BY <1>0, ZenonT(30) DEF TypeOK, Merging
<1> QED
  BY <1>2, <1>3, <1>4, <1>5, SameNodes, StepKeeps, Zenon

\* The start of the loop.
LEMMA FirstKeeps ==
  ASSUME ForestInv, NEW t \in Threads, First(t)
  PROVE  Keeps
<1>0. TypeOK /\ Forest /\ Walking(t) /\ Merging(t) /\ Locals(t)
  BY Own, Zenon
<1>20. StepOf(t)
  BY Zenon DEF StepOf, Step
<1>1. \A n \in Nodes : IsRep(n)' <=> IsRep(n)
  BY Zenon DEF First, IsRep
<1> USE DEF First, At, Goto
<1>2. node[t] \in Nodes /\ ~IsRep(node[t]) /\ prev[t] = Null
  BY <1>0, ZenonT(30) DEF Walking, Locals
<1>3. parent[node[t]] \in Nodes /\ parent[node[t]] < node[t] /\ comp[parent[node[t]]] = comp[node[t]]
  BY <1>0, <1>2 DEF TypeOK, Forest, IsRep
<1>4. TypeOK'
  BY <1>0, <1>3, ZenonT(30) DEF TypeOK
<1>5. Harmless(t)
  BY <1>1, <1>20, QuietStep, Zenon
<1>6. Walking(t)'
  BY <1>0, <1>1, <1>2, <1>3, SMTT(60) DEF TypeOK, Walking
<1>7. Merging(t)'
  BY <1>0, Zenon DEF TypeOK, Merging
<1> QED
  BY <1>4, <1>5, <1>6, <1>7, SameNodes, StepKeeps, Zenon

\* The loop goes on from the link of rep, whatever happened to the link of prev.
LEMMA AdvanceKeeps ==
  ASSUME ForestInv, NEW t \in Threads, NEW n \in Nodes, StepOf(t), Advance(t, n),
         pc[t] \in {"next", "prevTest", "store"}, comp[n] = comp[rep[t]], n < rep[t],
         parent' \in [Nodes -> Nodes], Forest', CountStep,
         \A m \in Nodes : IsRep(m)' <=> IsRep(m)
  PROVE  Keeps
<1>0. TypeOK /\ Walking(t) /\ Merging(t) /\ Locals(t)
  BY Own, ZenonT(30)
<1>1. /\ rep[t] \in Nodes /\ ~IsRep(rep[t]) /\ node[t] \in Nodes /\ ~IsRep(node[t])
      /\ rep[t] < node[t] /\ comp[rep[t]] = comp[node[t]]
  BY <1>0, ZenonT(30) DEF Walking, Locals
<1>2. TypeOK'
  BY <1>0, <1>1, ZenonT(30) DEF TypeOK, Advance, Goto
<1>3. Harmless(t)
  BY QuietStep, Zenon DEF Advance
<1>6. /\ pc'[t] = "test" /\ rep'[t] = n /\ prev'[t] \in {Null, rep[t]} /\ node'[t] = node[t]
      /\ call'[t] = call[t] /\ side'[t] = side[t] /\ node[t] \in Nodes /\ rep[t] < node[t]
      /\ a'[t] = a[t] /\ b'[t] = b[t] /\ comp' = comp
      /\ call[t].op = "compress" => prev'[t] = Null
  BY <1>0, ZenonT(30) DEF TypeOK, Walking, Locals, Advance, Goto
<1>7. ~IsRep(node[t])'
  BY <1>1, <1>6, ZenonT(30) DEF IsRep
<1>8. prev'[t] # Null => comp'[prev'[t]] = comp'[rep'[t]] /\ rep'[t] < prev'[t] /\ ~IsRep(prev[t])'
  BY <1>1, <1>6, ZenonT(30) DEF IsRep
<1>9. comp'[rep'[t]] = comp'[node'[t]] /\ rep'[t] < node'[t]
  BY <1>1, <1>6, SMTT(60) DEF IsRep
<1>10. /\ node[t] # Null /\ call[t].op # "none"
       /\ call[t].op = "merge" <=> side[t] # "-"
       /\ side[t] = "a" => node[t] = a[t]
       /\ side[t] = "b" => node[t] = b[t]
       /\ side[t] = "-" => node[t] = call[t].x
  BY <1>0, <1>1, ZenonT(30) DEF Walking, IsRep
<1>11. rep'[t] # Null
  BY <1>6, SMTT(60) DEF IsRep
<1>13. prev'[t] # Null => call'[t].op # "compress"
  BY <1>6, Zenon
<1>12. /\ node'[t] # Null /\ call'[t].op # "none"
       /\ call'[t].op = "merge" <=> side'[t] # "-"
       /\ side'[t] = "a" => node'[t] = a'[t]
       /\ side'[t] = "b" => node'[t] = b'[t]
       /\ side'[t] = "-" => node'[t] = call'[t].x
  BY <1>6, <1>10, Zenon DEF IsRep
<1>4. Walking(t)'
  BY <1>6, <1>7, <1>8, <1>9, <1>11, <1>12, <1>13, Zenon DEF Walking
<1>5. Merging(t)'
  BY <1>0, <1>6, ZenonT(30) DEF Merging
<1> QED
  BY <1>2, <1>3, <1>4, <1>5, StepKeeps, Zenon

\* The facts at the compare-exchange.
LEMMA CasFacts ==
  ASSUME ForestInv, NEW t \in Threads, At(t, "cas"), NEW hi, NEW lo,
         hi = Directed(a[t], b[t])[1], lo = Directed(a[t], b[t])[2]
  PROVE  /\ hi \in Nodes /\ lo \in Nodes
         /\ a[t] # b[t] => lo < hi
         /\ call[t].op = "merge" /\ call[t].x \in Nodes /\ call[t].y \in Nodes
         /\ \/ comp[hi] = comp[call[t].x] /\ comp[lo] = comp[call[t].y]
            \/ comp[hi] = comp[call[t].y] /\ comp[lo] = comp[call[t].x]
         /\ prev[t] = Null /\ side[t] = "-"
<1>0. Walking(t) /\ Merging(t) /\ Locals(t)
  BY Own, Zenon
<1>1. /\ a[t] \in Nodes /\ b[t] \in Nodes
      /\ call[t].op = "merge" /\ call[t].x \in Nodes /\ call[t].y \in Nodes
      /\ prev[t] = Null /\ side[t] = "-"
  BY <1>0, Zenon DEF Walking, Merging, Locals, At
<1>2. \/ hi = a[t] /\ lo = b[t] /\ ~(a[t] < b[t])
      \/ hi = b[t] /\ lo = a[t] /\ a[t] < b[t]
  BY Zenon DEF Directed
<1>3. \/ comp[a[t]] = comp[call[t].x] /\ comp[b[t]] = comp[call[t].y]
      \/ comp[a[t]] = comp[call[t].y] /\ comp[b[t]] = comp[call[t].x]
  BY <1>0, <1>1, ZenonT(30) DEF Merging, At
<1>4. \/ comp[hi] = comp[call[t].x] /\ comp[lo] = comp[call[t].y]
      \/ comp[hi] = comp[call[t].y] /\ comp[lo] = comp[call[t].x]
  BY <1>2, <1>3, ZenonT(30)
<1>5. hi \in Nodes /\ lo \in Nodes /\ (a[t] # b[t] => lo < hi)
  BY <1>1, <1>2, SMTT(30)
<1> QED
  BY <1>1, <1>4, <1>5, ZenonT(30)

--------------------------------------------------------------------------------
\* A find returns a node of the component, the representative if it was quiet.
LEMMA FindStep ==
  ASSUME ForestInv, NEW t \in Threads, 
         \/ RepLoad(t)
         \/ At(t, "test") /\ IsRep(rep[t]) /\ call[t].op # "compress" /\ Return(t, rep[t])
  PROVE  SpecNext \/ UNCHANGED specVars
<1>0. TypeOK /\ Forest /\ Walking(t) /\ Merging(t) /\ Locals(t)
  BY Own, Zenon
<1>1. PICK r \in Nodes :
        /\ Return(t, r)
        /\ comp[r] = comp[node[t]]
        /\ r <= node[t]
        /\ call[t].quiet => r = comp[r]
        /\ node[t] \in Nodes
        /\ pc[t] \in {"repLoad", "test"}
  <2>1. CASE RepLoad(t)
    <3>1. pc[t] = "repLoad" /\ node[t] \in Nodes /\ Return(t, parent[node[t]])
      BY <1>0, <2>1, Zenon DEF RepLoad, At, Walking, Locals
    <3>2. /\ parent[node[t]] \in Nodes /\ comp[parent[node[t]]] = comp[node[t]]
          /\ parent[node[t]] <= node[t]
      BY <1>0, <3>1, Zenon DEF TypeOK, Forest
    <3>3. call[t].quiet => parent[node[t]] = comp[parent[node[t]]]
      BY <1>0, <3>1, <3>2, Zenon DEF Walking, Forest, IsRep
    <3> QED
      BY <3>1, <3>2, <3>3, Zenon
  <2>2. CASE At(t, "test") /\ IsRep(rep[t]) /\ call[t].op # "compress" /\ Return(t, rep[t])
    <3>1. /\ pc[t] = "test" /\ node[t] \in Nodes /\ rep[t] \in Nodes
          /\ comp[rep[t]] = comp[node[t]] /\ rep[t] <= node[t]
      BY <1>0, <2>2, SMTT(60) DEF At, Walking, Locals
    <3>2. rep[t] = comp[rep[t]]
      BY <1>0, <2>2, <3>1, Zenon DEF Forest
    <3> QED
      BY <2>2, <3>1, <3>2, Zenon
  <2> QED
    BY <2>1, <2>2, Zenon
<1>2. CASE side[t] \in {"a", "b"}
  BY <1>1, <1>2, Zenon DEF Return, specVars
<1>3. CASE side[t] = "-" /\ call[t].op \in Finds
  <2>1. node[t] = call[t].x
    BY <1>0, <1>1, <1>3, Zenon DEF Walking
  <2>2. Finish(t, r) /\ UNCHANGED comp
    BY <1>1, <1>3, Zenon DEF Return
  <2>3. FindReturns(t)
    BY <1>1, <1>3, <2>1, <2>2, Zenon DEF FindReturns
  <2> QED
    BY <2>3, Zenon DEF SpecNext
<1>4. side[t] = "-" => call[t].op \in Finds
  BY <1>0, <1>1, Zenon DEF RepLoad, At, Walking, Merging, Locals
<1> QED
  BY <1>0, <1>2, <1>3, <1>4, Zenon DEF Locals

\* What a merge does to the partition at its compare-exchange, or when a = b.
LEMMA MergeStep ==
  ASSUME ForestInv, NEW t \in Threads, Cas(t)
  PROVE  SpecNext \/ UNCHANGED specVars
<1> DEFINE hi == Directed(a[t], b[t])[1]
           lo == Directed(a[t], b[t])[2]
<1>0. TypeOK /\ Forest
  BY Own, Zenon
<1>1. At(t, "cas")
  BY Zenon DEF Cas
<1>2. /\ hi \in Nodes /\ lo \in Nodes
      /\ a[t] # b[t] => lo < hi
      /\ call[t].op = "merge" /\ call[t].x \in Nodes /\ call[t].y \in Nodes
      /\ \/ comp[hi] = comp[call[t].x] /\ comp[lo] = comp[call[t].y]
         \/ comp[hi] = comp[call[t].y] /\ comp[lo] = comp[call[t].x]
  BY <1>1, CasFacts, SMTT(60)
<1>3. CASE /\ a[t] = b[t]
           /\ Finish(t, Null)
           /\ UNCHANGED <<parent, merges, comp>>
  <2>1. hi = lo
    BY <1>3, Zenon DEF Directed
  <2>2. MergeFindsTogether(t)
    BY <1>2, <1>3, <2>1, Zenon DEF MergeFindsTogether
  <2> QED
    BY <2>2, Zenon DEF SpecNext
<1>4. CASE /\ a[t] # b[t]
           /\ Swings(hi)
           /\ comp' = Joined(hi, lo)
           /\ call' = Overlapped(t)
           /\ result' = [result EXCEPT ![t] = lo]
  <2> HIDE DEF hi, lo
  <2>1. comp[hi] = hi /\ comp[lo] < hi
    BY <1>0, <1>2, <1>4 DEF TypeOK, Forest, Swings, IsRep
  <2>2. {comp[hi], comp[lo]} = {comp[call[t].x], comp[call[t].y]}
    BY <1>2, Zenon
  <2>3. MergeTakesEffect(t)
    BY <1>2, <1>4, <2>1, <2>2, Zenon DEF MergeTakesEffect
  <2> QED
    BY <2>3, Zenon DEF SpecNext
<1>5. CASE UNCHANGED <<comp, call, result>>
  BY <1>5, Zenon DEF specVars
<1> QED
  BY <1>3, <1>4, <1>5, Zenon DEF Cas

\* Every step of the code is a step of the partition or changes nothing of it.
LEMMA RefinementStep == ForestInv /\ [Next]_vars => [SpecNext]_specVars
<1> SUFFICES ASSUME ForestInv, [Next]_vars PROVE SpecNext \/ UNCHANGED specVars
  BY Zenon
<1>1. ASSUME NEW t \in Threads, NEW op \in Finds \cup {"compress"}, NEW x \in Sought, BeginFind(t, op, x)
      PROVE  SpecNext
  BY <1>1, Zenon DEF BeginFind, SpecNext
<1>2. ASSUME NEW t \in Threads, NEW e \in Edges, BeginMerge(t, e[1], e[2])
      PROVE  SpecNext
  <2>1. e[1] \in Nodes /\ e[2] \in Nodes
    BY Zenon
  <2>2. Begin(t, "merge", e[1], e[2])
    BY <1>2, Zenon DEF BeginMerge
  <2> QED
    BY <2>1, <2>2, Zenon DEF SpecNext
<1>3. ASSUME NEW t \in Threads, Step(t) PROVE SpecNext \/ UNCHANGED specVars
  <2>1. CASE MergeLoad(t) \/ First(t) \/ LoadNext(t) \/ TestPrev(t) \/ StorePrev(t)
    BY <2>1, Zenon DEF MergeLoad, First, LoadNext, TestPrev, StorePrev, Advance, specVars
  <2>2. CASE TestIsRep(t)
    <3>1. CASE call[t].op = "compress" /\ ReturnCompress(t)
      BY <3>1, Zenon DEF ReturnCompress, CompressReturns, SpecNext
    <3> QED
      BY <2>2, <3>1, Zenon DEF TestIsRep, specVars
  <2>3. CASE RepLoad(t)
    BY <2>3, FindStep, Zenon
  <2>4. CASE Test(t)
    <3>1. CASE IsRep(rep[t]) /\ call[t].op # "compress" /\ Return(t, rep[t])
      BY <2>4, <3>1, FindStep, Zenon DEF Test
    <3> QED
      BY <2>4, <3>1, Zenon DEF Test, specVars
  <2>5. CASE CompressStore(t)
    <3>1. call[t].op = "compress"
      BY <2>5, Own, Zenon DEF CompressStore, At, Walking
    <3> QED
      BY <2>5, <3>1, Zenon DEF CompressStore, ReturnCompress, CompressReturns, SpecNext
  <2>6. CASE Cas(t)
    BY <2>6, MergeStep, Zenon
  <2> QED
    BY <1>3, <2>1, <2>2, <2>3, <2>4, <2>5, <2>6, Zenon DEF Step
<1>4. CASE UNCHANGED vars
  BY <1>4, Zenon DEF vars, specVars
<1> QED
  BY <1>1, <1>2, <1>3, <1>4, Zenon DEF Next

\* The parts of what is left of a call are integers.
LEMMA PartsTyped ==
  ASSUME ForestInv, NEW t \in Threads, pc[t] # "idle"
  PROVE  /\ Operands(t) \in Nat /\ Searches(t) \in Nat /\ Reached(t) \in Nat
         /\ call[t].op = "merge" /\ pc[t] # "mergeLoad" =>
              a[t] \in Nodes /\ b[t] \in Nodes /\ Operands(t) = a[t] + b[t]
  BY Own, SMTT(60) DEF Operands, Searches, Reached, Locals, Merging

\* A step that goes on with the walk it is in: the address it has reached gets
\* smaller, or stays and fewer steps are left of this turn.
LEMMA WalkShrinks ==
  ASSUME NEW t \in Threads,
         pc[t] \in {"isRep", "first", "test", "next", "prevTest", "store"},
         pc'[t] \in {"repLoad", "first", "test", "next", "prevTest", "store", "compressStore"},
         a'[t] = a[t], b'[t] = b[t], side'[t] = side[t], call'[t] = call[t],
         \/ Reached(t)' < Reached(t)
         \/ Reached(t)' = Reached(t) /\ Remains(t)' < Remains(t)
  PROVE  Shrinks(t)
<1>1. Operands(t)' = Operands(t)
  BY Zenon DEF Operands
<1>2. Searches(t)' = Searches(t)
  BY Zenon DEF Searches
<1> QED
  BY <1>1, <1>2, Zenon DEF Shrinks

\* A walk that ends takes a search off a merge, and its operand does not grow.
LEMMA ReturnShrinks ==
  ASSUME ForestInv, NEW t \in Threads, NEW r \in Nodes, Return(t, r),
         pc[t] \in {"repLoad", "test"}, r <= node[t]
  PROVE  pc'[t] = "idle" \/ Shrinks(t)
<1>0. TypeOK /\ Walking(t) /\ Merging(t) /\ Locals(t)
  BY Own, Zenon
<1> USE DEF Return, Goto
<1>1. CASE side[t] = "a"
  <2>1. /\ call[t].op = "merge" /\ node[t] = a[t] /\ a[t] \in Nodes /\ b[t] \in Nodes
    BY <1>0, <1>1, Zenon DEF Walking, Merging, Locals
  <2>2. /\ pc' = [pc EXCEPT ![t] = "isRep"]
        /\ a' = [a EXCEPT ![t] = r]
        /\ side' = [side EXCEPT ![t] = "b"]
        /\ UNCHANGED <<b, call>>
    BY <1>1, Zenon
  <2>3. pc'[t] = "isRep" /\ a'[t] = r /\ b'[t] = b[t] /\ side'[t] = "b" /\ call'[t] = call[t]
    BY <1>0, <2>2, Zenon DEF TypeOK
  <2>4. Operands(t)' = r + b[t] /\ Operands(t) = a[t] + b[t]
    BY <2>1, <2>3, Zenon DEF Operands
  <2>5. Searches(t)' = 1 /\ Searches(t) = 2
    BY <1>1, <2>3, Zenon DEF Searches
  <2> QED
    BY <2>1, <2>4, <2>5 DEF Shrinks
<1>2. CASE side[t] = "b"
  <2>1. /\ call[t].op = "merge" /\ node[t] = b[t] /\ a[t] \in Nodes /\ b[t] \in Nodes
    BY <1>0, <1>2, Zenon DEF Walking, Merging, Locals
  <2>2. /\ pc' = [pc EXCEPT ![t] = "cas"]
        /\ b' = [b EXCEPT ![t] = r]
        /\ side' = [side EXCEPT ![t] = "-"]
        /\ UNCHANGED <<a, call>>
    BY <1>2, Zenon
  <2>3. pc'[t] = "cas" /\ a'[t] = a[t] /\ b'[t] = r /\ side'[t] = "-" /\ call'[t] = call[t]
    BY <1>0, <2>2, Zenon DEF TypeOK
  <2>4. Operands(t)' = a[t] + r /\ Operands(t) = a[t] + b[t]
    BY <2>1, <2>3, Zenon DEF Operands
  <2>5. Searches(t)' = 0 /\ Searches(t) = 1
    BY <1>2, <2>3, Zenon DEF Searches
  <2> QED
    BY <2>1, <2>4, <2>5 DEF Shrinks
<1>3. CASE side[t] = "-"
  BY <1>0, <1>3, Zenon DEF TypeOK
<1> QED
  BY <1>0, <1>1, <1>2, <1>3, Zenon DEF Locals

\* The next turn of a loop starts at a smaller address.
LEMMA AdvanceShrinks ==
  ASSUME ForestInv, NEW t \in Threads, NEW n \in Nodes, Advance(t, n),
         pc[t] \in {"next", "prevTest", "store"}, n < rep[t]
  PROVE  Shrinks(t)
<1>0. TypeOK
  BY Own, Zenon
<1>1. /\ pc'[t] = "test" /\ rep'[t] = n /\ a'[t] = a[t] /\ b'[t] = b[t] /\ side'[t] = side[t]
      /\ call'[t] = call[t]
  BY <1>0, Zenon DEF TypeOK, Advance, Goto
<1>2. Reached(t)' = n /\ Reached(t) = rep[t]
  BY <1>1, Zenon DEF Reached
<1> QED
  BY <1>1, <1>2, WalkShrinks, Zenon

\* Every step of a thread ends its call or makes what is left of it smaller.
LEMMA StepShrinks ==
  ASSUME ForestInv, NEW t \in Threads, Step(t)
  PROVE  pc'[t] = "idle" \/ Shrinks(t)
<1>0. TypeOK /\ Forest /\ Walking(t) /\ Merging(t) /\ Locals(t)
  BY Own, Zenon
<1>1. CASE MergeLoad(t)
  <2>1. pc[t] = "mergeLoad" /\ call[t].op = "merge" /\ call[t].x \in Nodes /\ call[t].y \in Nodes
    BY <1>0, <1>1, Zenon DEF MergeLoad, At, Merging, Locals
  <2>2. /\ pc'[t] = "isRep" /\ a'[t] = parent[call[t].x] /\ b'[t] = call[t].y
        /\ call'[t] = call[t]
    BY <1>0, <1>1, Zenon DEF MergeLoad, Goto, TypeOK
  <2>3. parent[call[t].x] \in Nodes
    BY <1>0, <2>1, Zenon DEF TypeOK
  <2>4. Operands(t)' = parent[call[t].x] + call[t].y /\ Operands(t) = 2 * N + 1
    BY <2>1, <2>2, Zenon DEF Operands
  <2> QED
    BY <2>1, <2>3, <2>4 DEF Shrinks
<1>2. CASE TestIsRep(t)
  <2>1. CASE ReturnCompress(t)
    BY <1>0, <2>1, Zenon DEF ReturnCompress, Goto, TypeOK
  <2>2. CASE /\ Goto(t, IF IsRep(node[t]) THEN "repLoad" ELSE "first")
             /\ UNCHANGED <<parent, a, b, frame, merges, comp, call, result>>
    <3>1. pc[t] = "isRep" /\ pc'[t] \in {"repLoad", "first"}
      BY <1>0, <1>2, <2>2, Zenon DEF TestIsRep, At, Goto, TypeOK
    <3>2. Reached(t)' = Reached(t) /\ Remains(t)' = 3 /\ Remains(t) = 4
      BY <3>1, Zenon DEF Reached, Remains
    <3> QED
      BY <2>2, <3>1, <3>2, WalkShrinks DEF frame
  <2> QED
    BY <1>2, <2>1, <2>2, Zenon DEF TestIsRep
<1>3. CASE RepLoad(t)
  <2>1. pc[t] = "repLoad" /\ node[t] \in Nodes /\ Return(t, parent[node[t]])
    BY <1>0, <1>3, Zenon DEF RepLoad, At, Walking, Locals
  <2>2. parent[node[t]] \in Nodes /\ parent[node[t]] <= node[t]
    BY <1>0, <2>1, Zenon DEF TypeOK, Forest
  <2> QED
    BY <2>1, <2>2, ReturnShrinks, ZenonT(30)
<1>4. CASE First(t)
  <2>1. pc[t] = "first" /\ node[t] \in Nodes
    BY <1>0, <1>4, Zenon DEF First, At, Walking, Locals
  <2>2. /\ pc'[t] = "test" /\ rep'[t] = parent[node[t]] /\ a'[t] = a[t] /\ b'[t] = b[t]
        /\ side'[t] = side[t] /\ call'[t] = call[t]
    BY <1>0, <1>4, Zenon DEF First, Goto, TypeOK
  <2>3. parent[node[t]] \in Nodes
    BY <1>0, <2>1, Zenon DEF TypeOK
  <2>4. Reached(t)' = parent[node[t]] /\ Reached(t) = N + 1
    BY <2>1, <2>2, Zenon DEF Reached
  <2> QED
    BY <2>1, <2>2, <2>3, <2>4, WalkShrinks
<1>5. CASE Test(t)
  <2>1. pc[t] = "test" /\ rep[t] \in Nodes /\ rep[t] <= node[t]
    BY <1>0, <1>5, SMTT(60) DEF Test, At, Walking, Locals
  <2>2. CASE Return(t, rep[t])
    BY <2>1, <2>2, ReturnShrinks, ZenonT(30)
  <2>3. CASE /\ Goto(t, IF IsRep(rep[t]) THEN "compressStore" ELSE "next")
             /\ UNCHANGED <<parent, a, b, frame, merges, comp, call, result>>
    <3>1. pc'[t] \in {"compressStore", "next"}
      BY <1>0, <2>3, Zenon DEF Goto, TypeOK
    <3>2. Reached(t)' = Reached(t) /\ Remains(t)' = 3 /\ Remains(t) = 4
      BY <2>1, <2>3, <3>1, Zenon DEF Reached, Remains, frame
    <3> QED
      BY <2>1, <2>3, <3>1, <3>2, WalkShrinks DEF frame
  <2> QED
    BY <1>5, <2>2, <2>3, Zenon DEF Test
<1>6. CASE LoadNext(t)
  <2>1. pc[t] = "next" /\ rep[t] \in Nodes /\ ~IsRep(rep[t])
    BY <1>0, <1>6, Zenon DEF LoadNext, At, Walking, Locals
  <2>2. parent[rep[t]] \in Nodes /\ parent[rep[t]] < rep[t]
    BY <1>0, <2>1 DEF TypeOK, Forest, IsRep
  <2>3. CASE Advance(t, parent[rep[t]])
    BY <2>1, <2>2, <2>3, AdvanceShrinks, ZenonT(30)
  <2>4. CASE /\ Goto(t, "prevTest")
             /\ UNCHANGED <<a, b, side, node, rep, prev, merges, comp, call, result>>
    <3>1. pc'[t] = "prevTest"
      BY <1>0, <2>4, Zenon DEF Goto, TypeOK
    <3>2. Reached(t)' = Reached(t) /\ Remains(t)' = 2 /\ Remains(t) = 3
      BY <2>1, <2>4, <3>1, Zenon DEF Reached, Remains
    <3> QED
      BY <2>1, <2>4, <3>1, <3>2, WalkShrinks
  <2> QED
    BY <1>6, <2>3, <2>4, Zenon DEF LoadNext
<1>7. CASE TestPrev(t)
  <2>1. pc[t] = "prevTest" /\ nxt[t] \in Nodes /\ nxt[t] < rep[t]
    BY <1>0, <1>7, Zenon DEF TestPrev, At, Walking, Locals
  <2>2. CASE Advance(t, nxt[t])
    BY <2>1, <2>2, AdvanceShrinks, ZenonT(30)
  <2>3. CASE Goto(t, "store") /\ UNCHANGED <<a, b, frame, merges, comp, call, result>>
    <3>1. pc'[t] = "store"
      BY <1>0, <2>3, Zenon DEF Goto, TypeOK
    <3>2. Reached(t)' = Reached(t) /\ Remains(t)' = 1 /\ Remains(t) = 2
      BY <2>1, <2>3, <3>1, Zenon DEF Reached, Remains, frame
    <3> QED
      BY <2>1, <2>3, <3>1, <3>2, WalkShrinks DEF frame
  <2> QED
    BY <1>7, <2>2, <2>3, Zenon DEF TestPrev
<1>8. CASE StorePrev(t)
  <2>1. pc[t] = "store" /\ nxt[t] \in Nodes /\ nxt[t] < rep[t] /\ Advance(t, nxt[t])
    BY <1>0, <1>8, Zenon DEF StorePrev, At, Walking, Locals
  <2> QED
    BY <2>1, AdvanceShrinks, ZenonT(30)
<1>9. CASE CompressStore(t)
  BY <1>0, <1>9, Zenon DEF CompressStore, ReturnCompress, Goto, TypeOK
<1>10. CASE Cas(t)
  <2> DEFINE hi == Directed(a[t], b[t])[1]
             lo == Directed(a[t], b[t])[2]
  <2>1. At(t, "cas")
    BY <1>10, Zenon DEF Cas
  <2>2. hi \in Nodes /\ lo \in Nodes /\ call[t].op = "merge"
    BY <2>1, CasFacts
  <2>3. CASE MergeReturns(t)
    BY <1>0, <2>3, Zenon DEF MergeReturns, Goto, TypeOK
  <2>4. CASE /\ ~Swings(hi)
             /\ Goto(t, "isRep")
             /\ a' = [a EXCEPT ![t] = parent[hi]]
             /\ b' = [b EXCEPT ![t] = lo]
             /\ UNCHANGED <<parent, rep, prev, nxt, merges, comp, call, result>>
    <3>1. hi + lo = a[t] + b[t]
      BY <1>0, <2>1, <2>2, SMTT(60) DEF Directed, Merging, Locals, At
    <3> HIDE DEF hi, lo
    <3>2. parent[hi] \in Nodes /\ parent[hi] < hi
      BY <1>0, <2>2, <2>4 DEF TypeOK, Forest, Swings
    <3>3. pc'[t] = "isRep" /\ a'[t] = parent[hi] /\ b'[t] = lo /\ call'[t] = call[t]
      BY <1>0, <2>4, Zenon DEF Goto, TypeOK
    <3>4. Operands(t)' = parent[hi] + lo /\ Operands(t) = a[t] + b[t]
      BY <2>1, <2>2, <3>3, Zenon DEF Operands, At
    <3>5. Operands(t)' < Operands(t)
      BY <2>2, <3>1, <3>2, <3>4
    <3> QED
      BY <3>5, Zenon DEF Shrinks
  <2> QED
    BY <1>10, <2>3, <2>4, Zenon DEF Cas
<1> QED
  BY <1>1, <1>2, <1>3, <1>4, <1>5, <1>6, <1>7, <1>8, <1>9, <1>10, Zenon DEF Step

\* One step of the program makes no call longer.
LEMMA NoCallGrows ==
  ASSUME ForestInv, [Next]_vars, NEW u \in Threads, pc[u] # "idle"
  PROVE  IF Step(u) THEN pc'[u] = "idle" \/ Shrinks(u)
         ELSE UNCHANGED <<Operands(u), Searches(u), Reached(u), Remains(u)>>
<1>1. CASE Step(u)
  BY <1>1, StepShrinks, Zenon
<1>2. CASE ~Step(u)
  <2>1. SameCall(u)
    <3>1. CASE UNCHANGED vars
      BY <3>1, Zenon DEF vars, frame, SameCall
    <3>2. ASSUME NEW t \in Threads,
                 \/ \E op \in Finds \cup {"compress"}, x \in Sought : BeginFind(t, op, x)
                 \/ \E e \in Edges : BeginMerge(t, e[1], e[2])
                 \/ Step(t)
          PROVE  SameCall(u)
      <4>1. t # u
        BY <1>2, <3>2, Zenon DEF BeginFind, BeginMerge, At
      <4>2. Sought \subseteq Nodes /\ Edges \subseteq Nodes \X Nodes
        BY Zenon
      <4>3. StepOf(t)
        BY <3>2, <4>2, Zenon DEF StepOf
      <4>4. TypeOK
        BY Zenon DEF ForestInv
      <4> QED
        BY <4>1, <4>3, <4>4, OthersUntouched, Zenon
    <3> QED
      BY <3>1, <3>2, Zenon DEF Next
  <2> QED
    BY <1>2, <2>1, Zenon DEF SameCall, Operands, Searches, Reached, Remains
<1> QED
  BY <1>1, <1>2, Zenon

--------------------------------------------------------------------------------
\* A link may move to any smaller node of the component, as a stale shortcut or
\* a compression does: the forest and its representatives stay.
LEMMA Relink ==
  ASSUME ForestInv, NEW n \in Nodes, NEW m \in Nodes, ~IsRep(n), m < n, comp[m] = comp[n],
         parent' = [parent EXCEPT ![n] = m], UNCHANGED <<comp, merges>>
  PROVE  /\ parent' \in [Nodes -> Nodes]
         /\ Forest'
         /\ CountStep
         /\ \A k \in Nodes : IsRep(k)' <=> IsRep(k)
<1>0. TypeOK /\ Forest
  BY Zenon DEF ForestInv
<1>1. parent' \in [Nodes -> Nodes]
  BY <1>0, ZenonT(30) DEF TypeOK
<1>5. ~IsRep(n)'
  BY <1>0 DEF TypeOK, IsRep
<1>6. \A k \in Nodes \ {n} : IsRep(k)' <=> IsRep(k)
  BY <1>0, Zenon DEF TypeOK, IsRep
<1>2. \A k \in Nodes : IsRep(k)' <=> IsRep(k)
  BY <1>5, <1>6, Zenon
<1>3. Reps' = Reps
  BY <1>2, Zenon DEF Reps
<1>4. Forest'
  <2>1. ASSUME NEW k \in Nodes PROVE parent'[k] <= k /\ comp[parent'[k]] = comp[k]
    <3>1. CASE k = n
      BY <1>0, <3>1 DEF TypeOK
    <3>2. CASE k # n
      BY <1>0, <3>2, Zenon DEF TypeOK, Forest
    <3> QED
      BY <3>1, <3>2, Zenon
  <2> QED
    BY <1>0, <1>2, <2>1, ZenonT(30) DEF Forest
<1> QED
  BY <1>1, <1>2, <1>3, <1>4, Zenon DEF CountStep

\* next = rep->m_component.load()
LEMMA LoadNextKeeps ==
  ASSUME ForestInv, NEW t \in Threads, LoadNext(t)
  PROVE  Keeps
<1>0. TypeOK /\ Forest /\ Walking(t) /\ Merging(t) /\ Locals(t)
  BY Own, Zenon
<1>20. StepOf(t)
  BY Zenon DEF StepOf, Step
<1>1. pc[t] = "next" /\ rep[t] \in Nodes /\ ~IsRep(rep[t]) /\ UNCHANGED <<parent, comp, merges>>
  BY <1>0, ZenonT(30) DEF Walking, Locals, LoadNext, At, Advance
<1>2. parent[rep[t]] \in Nodes /\ parent[rep[t]] < rep[t] /\ comp[parent[rep[t]]] = comp[rep[t]]
  BY <1>0, <1>1 DEF TypeOK, Forest, IsRep
<1>3. CASE Advance(t, parent[rep[t]])
  <2>1. parent' \in [Nodes -> Nodes]
    BY <1>0, <1>1, Zenon DEF TypeOK
  <2> QED
    BY <1>1, <1>2, <1>3, <2>1, SameNodes, <1>20, AdvanceKeeps, ZenonT(30)
<1>4. CASE /\ prev[t] # Null
           /\ Goto(t, "prevTest")
           /\ nxt' = [nxt EXCEPT ![t] = parent[rep[t]]]
           /\ UNCHANGED <<a, b, side, node, rep, prev, merges, comp, call, result>>
  <2> USE <1>4 DEF Goto
  <2>1. \A n \in Nodes : IsRep(n)' <=> IsRep(n)
    BY <1>1, ZenonT(30) DEF IsRep
  <2>2. TypeOK'
    BY <1>0, <1>1, <1>2, ZenonT(30) DEF TypeOK
  <2>3. Harmless(t)
    BY <2>1, <1>20, QuietStep, ZenonT(30)
  <2>4. /\ pc'[t] = "prevTest" /\ nxt'[t] = parent[rep[t]]
        /\ node[t] \in Nodes /\ prev[t] \in Nodes
    BY <1>0, <1>1, Zenon DEF TypeOK, Walking, Locals
  <2>5. Walking(t)'
    <3>1. /\ call[t].op # "none"
          /\ call[t].op = "merge" <=> side[t] # "-"
          /\ side[t] = "a" => node[t] = a[t]
          /\ side[t] = "b" => node[t] = b[t]
          /\ side[t] = "-" => node[t] = call[t].x
          /\ ~IsRep(node[t]) /\ comp[rep[t]] = comp[node[t]] /\ rep[t] < node[t]
          /\ call[t].op # "compress" /\ comp[prev[t]] = comp[rep[t]] /\ rep[t] < prev[t]
          /\ ~IsRep(prev[t])
      BY <1>0, <1>1, Zenon DEF Walking
    <3>2. ~IsRep(node[t])' /\ ~IsRep(rep[t])' /\ ~IsRep(prev[t])'
      BY <1>1, <2>1, <2>4, <3>1, Zenon DEF IsRep
    <3>3. node[t] # Null /\ rep[t] # Null /\ prev[t] # Null /\ parent[rep[t]] # Null
      BY <1>1, <1>2, <2>4, SMTT(60)
    <3> QED
      BY <1>1, <1>2, <2>4, <3>1, <3>2, <3>3, ZenonT(30) DEF Walking
  <2>6. Merging(t)'
    BY <1>0, <1>1, <2>4, ZenonT(30) DEF Merging
  <2> QED
    BY <1>1, <2>2, <2>3, <2>5, <2>6, SameNodes, StepKeeps, Zenon
<1> QED
  BY <1>3, <1>4, Zenon DEF LoadNext

\* prev->m_component.load() == rep
LEMMA TestPrevKeeps ==
  ASSUME ForestInv, NEW t \in Threads, TestPrev(t)
  PROVE  Keeps
<1>0. TypeOK /\ Walking(t) /\ Locals(t)
  BY Own, Zenon
<1>20. StepOf(t)
  BY Zenon DEF StepOf, Step
<1>1. /\ pc[t] = "prevTest" /\ nxt[t] \in Nodes /\ rep[t] \in Nodes
      /\ comp[nxt[t]] = comp[rep[t]] /\ nxt[t] < rep[t]
  BY <1>0, ZenonT(30) DEF Walking, Locals, TestPrev, At
<1>2. CASE Advance(t, nxt[t])
  <2>1. UNCHANGED <<parent, comp, merges>> /\ parent' \in [Nodes -> Nodes]
    BY <1>0, <1>2, ZenonT(30) DEF TypeOK, TestPrev, Advance
  <2> QED
    BY <1>1, <1>2, <2>1, SameNodes, <1>20, AdvanceKeeps, ZenonT(30)
<1>3. CASE Goto(t, "store") /\ UNCHANGED <<a, b, frame, merges, comp, call, result>>
  BY <1>3, <1>20, WalkKeeps, ZenonT(30) DEF TestPrev
<1> QED
  BY <1>2, <1>3, ZenonT(30) DEF TestPrev

\* prev->m_component.store(next)
LEMMA StorePrevKeeps ==
  ASSUME ForestInv, NEW t \in Threads, StorePrev(t)
  PROVE  Keeps
<1>0. Walking(t) /\ Locals(t)
  BY Own, Zenon
<1>20. StepOf(t)
  BY Zenon DEF StepOf, Step
<1>1. /\ pc[t] = "store" /\ nxt[t] \in Nodes /\ rep[t] \in Nodes /\ prev[t] \in Nodes
      /\ comp[nxt[t]] = comp[rep[t]] /\ nxt[t] < rep[t]
      /\ comp[nxt[t]] = comp[prev[t]] /\ nxt[t] < prev[t] /\ ~IsRep(prev[t])
  BY <1>0, SMTT(60) DEF Walking, Locals, StorePrev, At
<1>2. /\ parent' = [parent EXCEPT ![prev[t]] = nxt[t]]
      /\ Advance(t, nxt[t])
      /\ UNCHANGED <<comp, merges>>
  BY Zenon DEF StorePrev, Shortcut, Advance
<1> QED
  BY <1>1, <1>2, Relink, <1>20, AdvanceKeeps, ZenonT(30)

\* compress() returns.
LEMMA CompressKeeps ==
  ASSUME ForestInv, NEW t \in Threads, StepOf(t), ReturnCompress(t), pc[t] \in {"isRep", "compressStore"},
         call[t].op = "compress",
         parent' \in [Nodes -> Nodes], Forest', CountStep,
         \A m \in Nodes : IsRep(m)' <=> IsRep(m)
  PROVE  Keeps
<1>0. TypeOK /\ Walking(t) /\ Merging(t) /\ Locals(t)
  BY Own, Zenon
<1> USE DEF ReturnCompress, Goto, LeaveLoop, Finish
<1>1. side[t] = "-"
  BY <1>0, Zenon DEF Walking
<1>2. TypeOK'
  BY <1>0, NoCallTyped, ZenonT(30) DEF TypeOK
<1>3. Harmless(t)
  BY QuietStep, Zenon DEF ReturnCompress
<1>4. pc'[t] = "idle" /\ prev'[t] = Null /\ call'[t].op = "none" /\ side'[t] = "-"
  BY <1>0, <1>1, Zenon DEF TypeOK, NoCall
<1>5. Walking(t)'
  BY <1>4, Zenon DEF Walking
<1>6. Merging(t)'
  BY <1>4, Zenon DEF Merging
<1> QED
  BY <1>2, <1>3, <1>5, <1>6, StepKeeps, Zenon

\* if (isRep())
LEMMA TestIsRepKeeps ==
  ASSUME ForestInv, NEW t \in Threads, TestIsRep(t)
  PROVE  Keeps
<1>20. StepOf(t)
  BY Zenon DEF StepOf, Step
<1>1. CASE call[t].op = "compress" /\ ReturnCompress(t) /\ UNCHANGED parent
  <2>1. UNCHANGED <<parent, comp, merges>> /\ parent' \in [Nodes -> Nodes]
    BY <1>1, Own, Zenon DEF ReturnCompress, TypeOK
  <2> QED
    BY <1>1, <2>1, SameNodes, <1>20, CompressKeeps, Zenon DEF TestIsRep, At
<1>2. CASE /\ IsRep(node[t]) => call[t].op # "compress"
           /\ Goto(t, IF IsRep(node[t]) THEN "repLoad" ELSE "first")
           /\ UNCHANGED <<parent, a, b, frame, merges, comp, call, result>>
  BY <1>2, <1>20, WalkKeeps, Zenon DEF TestIsRep
<1> QED
  BY <1>1, <1>2, ZenonT(30) DEF TestIsRep

\* return m_component.load()
LEMMA RepLoadKeeps ==
  ASSUME ForestInv, NEW t \in Threads, RepLoad(t)
  PROVE  Keeps
<1>0. TypeOK /\ Forest /\ Walking(t) /\ Locals(t)
  BY Own, Zenon
<1>20. StepOf(t)
  BY Zenon DEF StepOf, Step
<1>1. pc[t] = "repLoad" /\ node[t] \in Nodes /\ Return(t, parent[node[t]])
  BY <1>0, Zenon DEF RepLoad, At, Walking, Locals
<1>2. parent[node[t]] \in Nodes /\ comp[parent[node[t]]] = comp[node[t]]
  BY <1>0, <1>1, Zenon DEF TypeOK, Forest
<1> QED
  BY <1>1, <1>2, <1>20, ReturnKeeps, Zenon

\* while (rep->m_component.load() != rep)
LEMMA TestKeeps ==
  ASSUME ForestInv, NEW t \in Threads, Test(t)
  PROVE  Keeps
<1>0. Walking(t) /\ Locals(t)
  BY Own, Zenon
<1>20. StepOf(t)
  BY Zenon DEF StepOf, Step
<1>1. pc[t] = "test" /\ rep[t] \in Nodes /\ comp[rep[t]] = comp[node[t]]
  BY <1>0, ZenonT(30) DEF Test, At, Walking, Locals
<1>2. CASE Return(t, rep[t])
  BY <1>1, <1>2, <1>20, ReturnKeeps, Zenon
<1>3. CASE /\ IsRep(rep[t]) => call[t].op = "compress"
           /\ Goto(t, IF IsRep(rep[t]) THEN "compressStore" ELSE "next")
           /\ UNCHANGED <<parent, a, b, frame, merges, comp, call, result>>
  BY <1>3, <1>20, WalkKeeps, Zenon DEF Test
<1> QED
  BY <1>2, <1>3, Zenon DEF Test

\* m_component.store(rep)
LEMMA CompressStoreKeeps ==
  ASSUME ForestInv, NEW t \in Threads, CompressStore(t)
  PROVE  Keeps
<1>0. Walking(t) /\ Locals(t)
  BY Own, Zenon
<1>20. StepOf(t)
  BY Zenon DEF StepOf, Step
<1>1. /\ pc[t] = "compressStore" /\ rep[t] \in Nodes /\ node[t] \in Nodes
      /\ comp[rep[t]] = comp[node[t]] /\ rep[t] < node[t] /\ ~IsRep(node[t])
      /\ call[t].op = "compress"
  BY <1>0, ZenonT(30) DEF Walking, Locals, CompressStore, At
<1>2. /\ parent' = [parent EXCEPT ![node[t]] = rep[t]]
      /\ ReturnCompress(t)
      /\ UNCHANGED <<comp, merges>>
  BY Zenon DEF CompressStore, ReturnCompress
<1> QED
  BY <1>1, <1>2, Relink, <1>20, CompressKeeps, ZenonT(30)

\* A compare-exchange that succeeds hangs the component of a representative under
\* a smaller node of another component.
LEMMA Join ==
  ASSUME ForestInv, NEW hi \in Nodes, NEW lo \in Nodes, lo < hi, IsRep(hi),
         parent' = [parent EXCEPT ![hi] = lo], comp' = Joined(hi, lo), merges' = merges + 1
  PROVE  /\ parent' \in [Nodes -> Nodes] /\ comp' \in [Nodes -> Nodes] /\ merges' \in Nat
         /\ Forest'
         /\ CountStep
         /\ \A n \in Nodes : ~IsRep(n) => ~IsRep(n)'
         /\ \A m, n \in Nodes : comp[m] = comp[n] => comp'[m] = comp'[n]
<1>0. TypeOK /\ Forest
  BY Zenon DEF ForestInv
<1>1. parent' \in [Nodes -> Nodes] /\ comp' \in [Nodes -> Nodes] /\ merges' \in Nat
  <2>1. parent' \in [Nodes -> Nodes]
    BY <1>0, ZenonT(30) DEF TypeOK
  <2>3. merges' \in Nat
    BY <1>0 DEF TypeOK
  <2>2. comp[lo] \in Nodes /\ \A n \in Nodes : comp[n] \in Nodes
    BY <1>0, ZenonT(30) DEF TypeOK
  <2> QED
    BY <2>1, <2>2, <2>3, Zenon DEF Joined
<1>2. comp[hi] = hi /\ comp[lo] < hi /\ comp[comp[lo]] = comp[lo]
  BY <1>0 DEF TypeOK, Forest
<1>3. \A n \in Nodes : comp'[n] = IF comp[n] = hi THEN comp[lo] ELSE comp[n]
  BY Zenon DEF Joined
<1>4. \A n \in Nodes : parent'[n] = IF n = hi THEN lo ELSE parent[n]
  BY <1>0, Zenon DEF TypeOK
<1>5. ASSUME NEW n \in Nodes
      PROVE  /\ parent'[n] <= n
             /\ comp'[n] <= n
             /\ comp'[comp'[n]] = comp'[n]
             /\ comp'[parent'[n]] = comp'[n]
             /\ parent'[n] = n => comp'[n] = n
  <2>1. /\ parent[n] <= n /\ comp[n] <= n /\ comp[comp[n]] = comp[n] /\ comp[parent[n]] = comp[n]
        /\ parent[n] = n => comp[n] = n
        /\ parent[n] \in Nodes /\ comp[n] \in Nodes /\ comp[lo] \in Nodes
    BY <1>0, Zenon DEF TypeOK, Forest, IsRep
  <2>2. parent'[n] <= n
    BY <1>4, <2>1
  <2>3. comp'[n] <= n
    BY <1>2, <1>3, <2>1
  <2>4. comp'[comp'[n]] = comp'[n]
    BY <1>2, <1>3, <2>1, Zenon
  <2>5. comp'[parent'[n]] = comp'[n]
    BY <1>2, <1>3, <1>4, <2>1
  <2>6. parent'[n] = n => comp'[n] = n
    BY <1>3, <1>4, <2>1
  <2> QED
    BY <2>2, <2>3, <2>4, <2>5, <2>6, Zenon
<1>6. Forest'
  BY <1>5, Zenon DEF Forest, IsRep
<1>7. \A n \in Nodes : ~IsRep(n) => ~IsRep(n)'
  BY <1>4, Zenon DEF IsRep
<1>8. Reps' = Reps \ {hi} /\ hi \in Reps
  BY <1>4 DEF Reps, IsRep
<1>11. CountStep
  BY <1>8, Zenon DEF CountStep
<1>12. \A m, n \in Nodes : comp[m] = comp[n] => comp'[m] = comp'[n]
  BY <1>3, Zenon
<1> QED
  BY <1>1, <1>6, <1>7, <1>11, <1>12, ZenonT(30)

\* The comparison of a and b and the compare-exchange.
LEMMA CasKeeps ==
  ASSUME ForestInv, NEW t \in Threads, Cas(t)
  PROVE  Keeps
<1> DEFINE hi == Directed(a[t], b[t])[1]
           lo == Directed(a[t], b[t])[2]
<1>0. TypeOK /\ Forest /\ Walking(t) /\ Merging(t) /\ Locals(t)
  BY Own, Zenon
<1>20. StepOf(t)
  BY Zenon DEF StepOf, Step
<1>1. At(t, "cas")
  BY Zenon DEF Cas
<1>2. /\ hi \in Nodes /\ lo \in Nodes
      /\ a[t] # b[t] => lo < hi
      /\ call[t].op = "merge" /\ call[t].x \in Nodes /\ call[t].y \in Nodes
      /\ \/ comp[hi] = comp[call[t].x] /\ comp[lo] = comp[call[t].y]
         \/ comp[hi] = comp[call[t].y] /\ comp[lo] = comp[call[t].x]
      /\ prev[t] = Null /\ side[t] = "-"
  BY <1>1, CasFacts, ZenonT(30)
<1>3. CASE /\ a[t] = b[t]
           /\ MergeReturns(t)
           /\ Finish(t, Null)
           /\ UNCHANGED <<parent, merges, comp>>
  <2> USE <1>3 DEF MergeReturns, Finish, Goto, frame
  <2>1. \A n \in Nodes : IsRep(n)' <=> IsRep(n)
    BY Zenon DEF IsRep
  <2>2. TypeOK'
    BY <1>0, NoCallTyped, ZenonT(30) DEF TypeOK
  <2>3. Harmless(t)
    BY <2>1, <1>20, QuietStep, Zenon
  <2>4. pc'[t] = "idle" /\ prev'[t] = Null /\ call'[t].op = "none" /\ side'[t] = "-"
    BY <1>0, <1>2, Zenon DEF TypeOK, NoCall
  <2>5. Walking(t)' /\ Merging(t)'
    BY <2>4, ZenonT(30) DEF Walking, Merging
  <2> QED
    BY <2>2, <2>3, <2>5, SameNodes, StepKeeps, Zenon
<1>4. CASE /\ a[t] # b[t]
           /\ Swings(hi)
           /\ parent' = [parent EXCEPT ![hi] = lo]
           /\ merges' = merges + 1
           /\ comp' = Joined(hi, lo)
           /\ call' = Overlapped(t)
           /\ result' = [result EXCEPT ![t] = lo]
           /\ MergeReturns(t)
  <2>1. IsRep(hi) /\ lo < hi
    BY <1>2, <1>4, ZenonT(30) DEF Swings, IsRep
  <2>2. /\ parent' \in [Nodes -> Nodes] /\ comp' \in [Nodes -> Nodes] /\ merges' \in Nat
        /\ Forest'
        /\ CountStep
        /\ \A n \in Nodes : ~IsRep(n) => ~IsRep(n)'
        /\ \A m, n \in Nodes : comp[m] = comp[n] => comp'[m] = comp'[n]
    BY <1>2, <1>4, <2>1, Join, ZenonT(30)
  <2>3. /\ call' \in [Threads -> Calls] /\ call'[t] = NoCall
        /\ \A u \in Threads \ {t} :
             /\ call'[u].op = call[u].op /\ call'[u].x = call[u].x /\ call'[u].y = call[u].y
             /\ call'[u].quiet => call[u].op = "none"
    BY <1>0, <1>4, NoCallTyped, ZenonT(30) DEF TypeOK, Overlapped, Calls
  <2>4. /\ pc' = [pc EXCEPT ![t] = "idle"]
        /\ a' = [a EXCEPT ![t] = Null]
        /\ b' = [b EXCEPT ![t] = Null]
        /\ UNCHANGED <<side, node, rep, prev, nxt>>
    BY <1>4, Zenon DEF MergeReturns, Goto, frame
  <2>5. TypeOK'
    BY <1>0, <1>2, <1>4, <2>2, <2>3, <2>4, ZenonT(30) DEF TypeOK
  <2>6. Harmless(t)
    <3>1. \A u \in Threads \ {t} : SameCall(u)
      BY <1>0, <1>20, OthersUntouched, ZenonT(30)
    <3> QED
      BY <2>2, <2>3, <3>1, ZenonT(30) DEF Harmless
  <2>7. pc'[t] = "idle" /\ prev'[t] = Null /\ call'[t].op = "none" /\ side'[t] = "-"
    BY <1>0, <1>2, <2>3, <2>4, SMTT(60) DEF TypeOK, NoCall
  <2>8. Walking(t)' /\ Merging(t)'
    BY <2>7, ZenonT(30) DEF Walking, Merging
  <2> QED
    BY <2>2, <2>5, <2>6, <2>8, StepKeeps, Zenon
<1>5. CASE /\ a[t] # b[t]
           /\ ~Swings(hi)
           /\ Goto(t, "isRep")
           /\ a' = [a EXCEPT ![t] = parent[hi]]
           /\ b' = [b EXCEPT ![t] = lo]
           /\ side' = [side EXCEPT ![t] = "a"]
           /\ node' = [node EXCEPT ![t] = parent[hi]]
           /\ UNCHANGED <<parent, rep, prev, nxt, merges, comp, call, result>>
  <2> HIDE DEF hi, lo
  <2> USE <1>5 DEF Goto
  <2>1. parent[hi] \in Nodes /\ comp[parent[hi]] = comp[hi]
    BY <1>0, <1>2, Zenon DEF TypeOK, Forest
  <2>2. \A n \in Nodes : IsRep(n)' <=> IsRep(n)
    BY Zenon DEF IsRep
  <2>3. TypeOK'
    BY <1>0, <1>2, <2>1, ZenonT(30) DEF TypeOK
  <2>4. Harmless(t)
    BY <2>2, <1>20, QuietStep, Zenon
  <2>5. /\ pc'[t] = "isRep" /\ node'[t] = parent[hi] /\ a'[t] = parent[hi] /\ b'[t] = lo
        /\ side'[t] = "a" /\ prev'[t] = Null /\ call'[t] = call[t] /\ comp' = comp
    BY <1>0, <1>2, Zenon DEF TypeOK
  <2>6. Walking(t)'
    <3>1. /\ node'[t] # Null /\ call'[t].op = "merge" /\ side'[t] = "a" /\ node'[t] = a'[t]
          /\ pc'[t] = "isRep" /\ prev'[t] = Null
      BY <1>2, <2>1, <2>5, SMTT(30)
    <3> QED
      BY <3>1, WalkStarts, Zenon
  <2>7. Merging(t)'
    <3>1. /\ a'[t] # Null /\ b'[t] # Null /\ call'[t].x # Null /\ call'[t].y # Null
          /\ call'[t].op = "merge" /\ pc'[t] = "isRep"
      BY <1>2, <2>1, <2>5, SMTT(60)
    <3>2. \/ comp'[a'[t]] = comp'[call'[t].x] /\ comp'[b'[t]] = comp'[call'[t].y]
          \/ comp'[a'[t]] = comp'[call'[t].y] /\ comp'[b'[t]] = comp'[call'[t].x]
      BY <1>2, <2>1, <2>5, ZenonT(30)
    <3> QED
      BY <3>1, <3>2, MergeGoesOn, Zenon
  <2> QED
    BY <2>3, <2>4, <2>6, <2>7, SameNodes, StepKeeps, Zenon
<1> QED
  BY <1>3, <1>4, <1>5, Zenon DEF Cas

\* The invariant is inductive: one case per step of the code.
LEMMA InvStep == ForestInv /\ [Next]_vars => Keeps
<1> SUFFICES ASSUME ForestInv, [Next]_vars PROVE Keeps
  BY Zenon
<1>1. ASSUME NEW t \in Threads, NEW op \in Finds \cup {"compress"}, NEW x \in Sought, BeginFind(t, op, x)
      PROVE  Keeps
  BY <1>1, BeginFindKeeps, Zenon
<1>2. ASSUME NEW t \in Threads, NEW e \in Edges, BeginMerge(t, e[1], e[2])
      PROVE  Keeps
  <2>1. e[1] \in Nodes /\ e[2] \in Nodes
    BY Zenon
  <2> QED
    BY <1>2, <2>1, BeginMergeKeeps, Zenon
<1>3. ASSUME NEW t \in Threads, Step(t) PROVE Keeps
  BY <1>3, MergeLoadKeeps, TestIsRepKeeps, RepLoadKeeps, FirstKeeps, TestKeeps, LoadNextKeeps,
     TestPrevKeeps, StorePrevKeeps, CompressStoreKeeps, CasKeeps, Zenon DEF Step
<1>4. CASE UNCHANGED vars
  <2>1. TypeOK' /\ Forest' /\ Reps' = Reps
    BY <1>4, ZenonT(30) DEF ForestInv, vars, frame, TypeOK, Forest, IsRep, Reps
  <2>2. ASSUME NEW t \in Threads PROVE Walking(t)' /\ Merging(t)'
    <3>1. Walking(t) /\ Merging(t)
      BY Own, ZenonT(30)
    <3>2. UNCHANGED <<parent, comp, pc, a, b, side, node, rep, prev, nxt, call>>
      BY <1>4, Zenon DEF vars, frame
    <3>3. Walking(t)'
      BY <3>1, <3>2, Zenon DEF Walking, IsRep
    <3>4. Merging(t)'
      BY <3>1, <3>2, Zenon DEF Merging
    <3> QED
      BY <3>3, <3>4, Zenon
  <2>3. merges' = merges
    BY <1>4, Zenon DEF vars, frame
  <2> QED
    BY <2>1, <2>2, <2>3, Zenon DEF ForestInv, Keeps, CountStep
<1> QED
  BY <1>1, <1>2, <1>3, <1>4, Zenon DEF Next

(***************************************************************************)
(* The links of union-find stay a forest over the components formed so far *)
(* whatever calls race.                                                    *)
(***************************************************************************)
THEOREM ForestInvariant == Spec => []ForestInv
<1>1. ForestInv /\ [Next]_vars => ForestInv'
  BY InvStep, Zenon DEF Keeps
<1> QED
  BY <1>1, InitInv, PTL DEF Spec

\* Every node is a representative before the first merge.
LEMMA InitCount == Init => Cardinality(Reps) + merges = N
<1> SUFFICES ASSUME Init PROVE Cardinality(Reps) + merges = N
  BY Zenon
<1>1. merges = 0 /\ Reps = 1..N
  BY Zenon DEF Init, Reps, IsRep
<1>2. Cardinality(1..N) = N
  BY FS_Interval
<1> QED
  BY <1>1, <1>2

\* A merge that returns a node is one representative less.
LEMMA CountKept ==
  ASSUME ForestInv, CountStep, Cardinality(Reps) + merges = N
  PROVE  (Cardinality(Reps) + merges = N)'
<1>1. IsFiniteSet(Reps)
  <2>1. Reps \subseteq 1..N /\ IsFiniteSet(1..N)
    BY FS_Interval DEF Reps
  <2> QED
    BY <2>1, FS_Subset, Zenon
<1>2. CASE Reps' = Reps /\ merges' = merges
  BY <1>2, Zenon
<1>3. ASSUME NEW n \in Reps, Reps' = Reps \ {n}, merges' = merges + 1
      PROVE  (Cardinality(Reps) + merges = N)'
  <2>1. Cardinality(Reps') = Cardinality(Reps) - 1
    BY <1>1, <1>3, FS_RemoveElement, Zenon
  <2>2. Cardinality(Reps) \in Nat /\ merges \in Nat
    BY <1>1, FS_CardinalityType, Zenon DEF ForestInv, TypeOK
  <2> QED
    BY <1>3, <2>1, <2>2
<1> QED
  BY <1>2, <1>3, Zenon DEF CountStep

(***************************************************************************)
(* The merges that returned a node and the representatives left always add *)
(* up to the nodes: no two racing merges both claim one join, and no join  *)
(* goes unclaimed. The links stay a forest over the joined components.     *)
(***************************************************************************)
THEOREM UnionFindInvariant == Spec => []UnionFindInv
<1>1. Init => UnionFindInv
  BY InitInv, InitCount, Zenon DEF UnionFindInv
<1>2. UnionFindInv /\ [Next]_vars => UnionFindInv'
  BY InvStep, CountKept, Zenon DEF UnionFindInv, Keeps
<1> QED
  BY <1>1, <1>2, PTL DEF Spec

(***************************************************************************)
(* Callers of union-find see a partition that only grows coarser: a merge  *)
(* takes effect in one step, and a find that no merge overlaps returns the *)
(* representative.                                                         *)
(***************************************************************************)
THEOREM ImplementsPartition == Spec => Partition
<1>1. Init => SpecInit
  BY Zenon DEF Init
<1>2. ForestInv /\ [Next]_vars => [SpecNext]_specVars
  BY RefinementStep, Zenon
<1> QED
  BY <1>1, <1>2, ForestInvariant, PTL DEF Spec, Partition, PartitionSpec

(***************************************************************************)
(* The calls of union-find are wait-free: whatever the other threads do,   *)
(* each step of a call ends it or brings it nearer to its end.             *)
(***************************************************************************)
THEOREM WaitFree == Spec => CallsShrink
<1>1. ForestInv /\ [Next]_vars =>
        [\A t \in Threads : pc[t] # "idle" =>
           IF Step(t) THEN pc'[t] = "idle" \/ Shrinks(t)
           ELSE UNCHANGED <<Operands(t), Searches(t), Reached(t), Remains(t)>>]_vars
  BY NoCallGrows, Zenon
<1> QED
  BY <1>1, ForestInvariant, PTL DEF Spec, CallsShrink

================================================================================
