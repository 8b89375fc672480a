------------------------ MODULE BarrierStorageProofs ------------------------
(***************************************************************************)
(* Theorems about two parts of the substrate, for every number of threads: *)
(* CountingBarrier, with its inductive invariant, the barrier property and *)
(* the refinement of BarrierSpec, and the blocks of per-thread storage.    *)
(***************************************************************************)
EXTENDS PerThreadStorage, CountingBarrier, FiniteSetTheorems, TLAPS

USE DEF Goto, Call, Step, Return, ClientInit, ClientReinit, ClientTypeOK

Inv == TypeOK /\ SenseInv

(***************************************************************************)
(* The set of participants has num elements, and so does Arrived at most;  *)
(* when it has num elements it is the set of all participants.             *)
(***************************************************************************)
LEMMA ArrivedCardinality ==
  ASSUME TypeOK
  PROVE  /\ IsFiniteSet(Arrived)
         /\ Cardinality(Arrived) \in 0 .. num
         /\ Cardinality(Arrived) = num => Arrived = Active
<1>1. IsFiniteSet(Active) /\ Cardinality(Active) = num
  BY FS_Interval, ConstantsAssumption DEF TypeOK, Active
<1>2. Arrived \in SUBSET Active
  BY Zenon DEF Arrived
<1> QED BY <1>1, <1>2, FS_Subset, FS_CardinalityType, ConstantsAssumption DEF TypeOK

\* Before the first wait() nobody has arrived.
LEMMA InvInit == Init => Inv
<1> SUFFICES ASSUME Init PROVE Inv
  BY Zenon
<1>0. local_sense \in [Threads -> BOOLEAN] /\ sense \in BOOLEAN
  BY Zenon DEF Init
<1>1. TypeOK
  BY <1>0, ConstantsAssumption DEF Init, TypeOK
<1>3. Active \subseteq Threads
  BY <1>1, ConstantsAssumption DEF TypeOK, Active, Threads
<1>2. Arrived = {}
  BY <1>3, Zenon DEF Init, Arrived
<1>4. \A t \in Active : InRound(t, 0)
  BY <1>3, Zenon DEF Init, InRound
<1>5. count = IF \E t \in Active : pc[t] = "release" THEN num ELSE num - Cardinality(Arrived)
  BY <1>1, <1>2, <1>3, FS_EmptySet, ConstantsAssumption DEF Init, TypeOK
<1> QED BY <1>1, <1>3, <1>4, <1>5, ConstantsAssumption DEF Init, Inv, SenseInv

\* Every step of wait() and reinit() keeps the round structure and the count.
LEMMA InvNext == Inv /\ [Next]_vars => Inv'
<1> SUFFICES ASSUME Inv, [Next]_vars PROVE Inv'
  BY Zenon
<1>a. Active \subseteq Threads
  BY ConstantsAssumption DEF Inv, TypeOK, Active, Threads
<1>g. PICK g \in 0 .. Rounds : \A t \in Active : InRound(t, g)
  BY Zenon DEF Inv, SenseInv
<1>1. ASSUME NEW t \in Active, Enter(t) PROVE Inv'
  <2>1. TypeOK'
    BY <1>1, <1>a, ConstantsAssumption DEF Enter, Flip, Inv, TypeOK
  <2>2. \A u \in Active : InRound(u, g)'
    BY <1>1, <1>a, <1>g, Zenon DEF Enter, Flip, Inv, TypeOK, InRound
  <2>3. Arrived' = Arrived
    BY <1>1, <1>a, Zenon DEF Enter, Flip, Inv, TypeOK, Arrived, Active
  <2> QED BY <1>1, <1>a, <2>1, <2>2, <2>3 DEF Enter, Flip, Inv, TypeOK, SenseInv, Active, Threads
<1>2. ASSUME NEW t \in Active, Decrement(t) PROVE Inv'
  <2>1. local_sense[t] # sense /\ t \notin Arrived
    BY <1>2, <1>g, Zenon DEF Decrement, IsLast, InRound, Arrived
  <2>2. \A u \in Active : pc[u] \notin {"reset", "release"}
    BY <1>2, Zenon DEF Decrement, IsLast, Inv, SenseInv
  <2>3. Arrived' = Arrived \cup {t}
    BY <1>2, <1>a, <2>1, Zenon DEF Decrement, IsLast, Inv, TypeOK, Arrived, Active
  <2>4. IsFiniteSet(Arrived) /\ Cardinality(Arrived) \in 0 .. num
    BY ArrivedCardinality, Zenon DEF Inv
  <2>5. Cardinality(Arrived') = Cardinality(Arrived) + 1
    BY <2>1, <2>3, <2>4, FS_AddElement, Zenon
  <2>6. count = num - Cardinality(Arrived)
    BY <2>2, Zenon DEF Inv, SenseInv
  <2>7. Cardinality(Arrived) < num
    BY <2>1, <2>4, ArrivedCardinality, ConstantsAssumption DEF Inv, TypeOK
  <2>8. TypeOK'
    BY <1>2, <1>a, <2>4, <2>6, <2>7, ConstantsAssumption DEF Decrement, IsLast, Inv, TypeOK
  <2>9. \A u \in Active : InRound(u, g)'
    BY <1>2, <1>a, <1>g, <2>1, Zenon DEF Decrement, IsLast, Inv, TypeOK, InRound
  <2>10. \A u \in Active : (pc[u])' # "release"
    BY <1>2, <1>a, <2>2, Zenon DEF Decrement, IsLast, Inv, TypeOK
  <2>11. count' = num - Cardinality(Arrived')
    BY <1>2, <2>4, <2>5, <2>6, ConstantsAssumption DEF Decrement, IsLast, Inv, TypeOK
  <2>12. ASSUME NEW v \in Active, (pc[v])' \in {"reset", "release"}, NEW u \in Active \ {v}
         PROVE  (pc[u])' = "spin" /\ (local_sense[u])' # sense'
    <3>1. v = t /\ count' = 0
      BY <1>2, <1>a, <2>2, <2>12, Zenon DEF Decrement, IsLast, Inv, TypeOK
    <3>2. IsFiniteSet(Active) /\ Cardinality(Active) = num
      BY FS_Interval, ConstantsAssumption DEF Inv, TypeOK, Active
    <3>3. Arrived' \in SUBSET Active
      BY <2>3, Zenon DEF Arrived
    <3>4. Cardinality(Arrived') = num
      BY <2>4, <2>5, <2>6, <2>11, <3>1, ConstantsAssumption DEF Inv, TypeOK
    <3>5. Arrived' = Active
      BY <3>2, <3>3, <3>4, FS_Subset, Zenon
    <3> QED BY <1>2, <1>a, <2>2, <2>3, <3>1, <3>5, <2>12 DEF Decrement, IsLast, Inv, TypeOK, Arrived
  <2> QED BY <1>2, <1>a, <2>8, <2>9, <2>10, <2>11, <2>12, ZenonT(60) DEF Decrement, IsLast, Inv, TypeOK, SenseInv, Active, Threads
<1>3. ASSUME NEW t \in Active, ResetCount(t) PROVE Inv'
  <2>1. TypeOK'
    BY <1>3, <1>a, ConstantsAssumption DEF ResetCount, Rearm, Inv, TypeOK
  <2>2. \A u \in Active : InRound(u, g)'
    BY <1>3, <1>a, <1>g, Zenon DEF ResetCount, Rearm, Inv, TypeOK, InRound
  <2>3. (pc[t])' = "release"
    BY <1>3, <1>a, Zenon DEF ResetCount, Rearm, Inv, TypeOK
  <2>4. \A v \in Active : (pc[v])' \in {"reset", "release"} =>
          \A u \in Active \ {v} : (pc[u])' = "spin" /\ (local_sense[u])' # sense'
    BY <1>3, <1>a, Zenon DEF ResetCount, Rearm, Inv, TypeOK, SenseInv
  <2> QED BY <1>3, <1>a, <2>1, <2>2, <2>3, <2>4 DEF ResetCount, Rearm, Inv, TypeOK, SenseInv, Active, Threads
<1>4. ASSUME NEW t \in Active, Release(t) PROVE Inv'
  <2>1. \A u \in Active : local_sense[u] # sense /\ entered[u] = g + 1 /\ left[u] = g
    BY <1>4, <1>a, <1>g, Zenon DEF Release, Inv, SenseInv, InRound
  <2>2. \A u \in Active : local_sense[u] = local_sense[t]
    BY <2>1, <1>4, <1>a, Zenon DEF Inv, TypeOK
  <2>3. TypeOK'
    BY <1>4, <1>a, <2>1, ConstantsAssumption, Zenon DEF Release, Inv, TypeOK
  <2>4. \A u \in Active : InRound(u, g + 1)'
    BY <1>4, <1>a, <2>1, <2>2 DEF Release, Inv, TypeOK, SenseInv, InRound
  <2>5. g + 1 \in 0 .. Rounds
    BY <2>1, <1>a, ConstantsAssumption DEF Inv, TypeOK
  <2>6. \A u \in Active : (pc[u])' \in {"out", "spin"} /\ (local_sense[u])' = sense'
    BY <1>4, <1>a, <2>2, Zenon DEF Release, Inv, TypeOK, SenseInv
  <2>7. Arrived' = {}
    BY <1>4, <2>6, Zenon DEF Release, Arrived, Active
  <2>8. count = num
    BY <1>4, Zenon DEF Release, Inv, SenseInv
  <2>9. count' = num - Cardinality(Arrived')
    BY <1>4, <2>7, <2>8, FS_EmptySet, ConstantsAssumption DEF Release, Inv, TypeOK
  <2> QED BY <1>4, <1>a, <2>3, <2>4, <2>5, <2>6, <2>9
      DEF Release, Inv, TypeOK, SenseInv, Active, Threads
<1>5. ASSUME NEW t \in Active, Spin(t) PROVE Inv'
  <2>1. local_sense[t] = sense /\ entered[t] = g /\ left[t] + 1 = g
    BY <1>5, <1>g, Zenon DEF Spin, InRound
  <2>2. \A u \in Active : pc[u] \notin {"reset", "release"}
    BY <1>5, <2>1, Zenon DEF Spin, Inv, SenseInv
  <2>3. TypeOK'
    BY <1>5, <1>a, <2>1, ConstantsAssumption, Zenon DEF Spin, Inv, TypeOK
  <2>4. \A u \in Active : InRound(u, g)'
    BY <1>5, <1>a, <1>g, <2>1, Zenon DEF Spin, Inv, TypeOK, InRound
  <2>5. Arrived' = Arrived
    BY <1>5, <1>a, <2>1, Zenon DEF Spin, Inv, TypeOK, Arrived, Active
  <2>6. \A u \in Active : (pc[u])' \notin {"reset", "release"}
    BY <1>5, <1>a, <2>2, Zenon DEF Spin, Inv, TypeOK
  <2> QED BY <1>5, <1>a, <2>2, <2>3, <2>4, <2>5, <2>6
      DEF Spin, Inv, TypeOK, SenseInv, Active, Threads
<1>6. ASSUME NEW val \in 1 .. MaxThreads, Reinit(val) PROVE Inv'
  <2>0. local_sense' \in [Threads -> BOOLEAN] /\ sense' \in BOOLEAN
    BY <1>6, Zenon DEF Reinit, ResetSenses
  <2>1. TypeOK'
    BY <1>6, <2>0, ConstantsAssumption DEF Reinit, ResetSenses, Inv, TypeOK
  <2>2. Active' \subseteq Threads
    BY <1>6, ConstantsAssumption DEF Reinit, ResetSenses, Active, Threads
  <2>3. Arrived' = {}
    BY <1>6, <2>2, Zenon DEF Reinit, ResetSenses, Arrived
  <2>4. \A u \in Active' : InRound(u, 0)'
    BY <1>6, <2>2, Zenon DEF Reinit, ResetSenses, InRound
  <2>5. count' = num' - Cardinality(Arrived')
    BY <1>6, <2>1, <2>3, FS_EmptySet, ConstantsAssumption DEF Reinit, ResetSenses, TypeOK
  <2>6. \E h \in 0 .. Rounds : \A u \in Active' : InRound(u, h)'
    BY <2>4, ConstantsAssumption
  <2>7. \A u \in Threads : (pc[u])' = "out" /\ (entered[u])' = (left[u])'
    BY <1>6, Zenon DEF Reinit
  <2> QED BY <2>1, <2>2, <2>5, <2>6, <2>7 DEF Inv, SenseInv
<1>7. CASE UNCHANGED vars
  BY <1>7 DEF vars, Inv, TypeOK, SenseInv, InRound, Arrived, Active
<1> QED BY <1>1, <1>2, <1>3, <1>4, <1>5, <1>6, <1>7 DEF Next, InWait

(***************************************************************************)
(* The round structure of wait() and the exactness of count, for every     *)
(* number of threads and of calls.                                         *)
(***************************************************************************)
THEOREM Invariance == Spec => []SenseInv
<1>1. Spec => []Inv
  BY InvInit, InvNext, PTL DEF Spec
<1>2. Inv => SenseInv
  BY Zenon DEF Inv
<1> QED BY <1>1, <1>2, PTL

(***************************************************************************)
(* Type correctness, for every number of threads.                          *)
(***************************************************************************)
THEOREM TypeCorrect == Spec => []TypeOK
<1>1. Spec => []Inv
  BY InvInit, InvNext, PTL DEF Spec
<1>2. Inv => TypeOK
  BY Zenon DEF Inv
<1> QED BY <1>1, <1>2, PTL

(***************************************************************************)
(* No call of wait() returns before every participant has made its         *)
(* matching call.                                                          *)
(***************************************************************************)
THEOREM BarrierSafety == Spec => []NobodyLeavesEarly
<1>1. Inv => NobodyLeavesEarly
  <2> SUFFICES ASSUME Inv, NEW t \in Active, NEW u \in Active
               PROVE  left[t] <= entered[u]
    BY Zenon DEF NobodyLeavesEarly, Abstract!NobodyLeavesEarly, Abstract!Active, Active
  <2>1. PICK g \in 0 .. Rounds : \A v \in Active : InRound(v, g)
    BY Zenon DEF Inv, SenseInv
  <2>2. entered[u] \in {g, g + 1}
    BY <2>1, Zenon DEF InRound
  <2>3. left[t] = g \/ left[t] + 1 = g
    BY <2>1, Zenon DEF InRound
  <2>4. t \in Threads
    BY ConstantsAssumption DEF Inv, TypeOK, Active, Threads
  <2>5. left[t] \in 0 .. Rounds
    BY <2>4, Zenon DEF Inv, TypeOK
  <2> QED BY <2>2, <2>3, <2>5, ConstantsAssumption
<1>2. Spec => []Inv
  BY InvInit, InvNext, PTL DEF Spec
<1> QED BY <1>1, <1>2, PTL

(***************************************************************************)
(* A step of the counting barrier is a step of the abstract barrier, or    *)
(* leaves the abstract state alone.                                        *)
(***************************************************************************)
LEMMA StepRefines == Inv /\ [Next]_vars => [Abstract!Next]_(Abstract!vars)
<1> SUFFICES ASSUME Inv, [Next]_vars PROVE [Abstract!Next]_(Abstract!vars)
  BY Zenon
<1> USE DEF Abstract!Active, Abstract!Threads, Active, Threads
<1>a. Active \subseteq Threads
  BY ConstantsAssumption DEF Inv, TypeOK
<1>g. PICK g \in 0 .. Rounds : \A t \in Active : InRound(t, g)
  BY Zenon DEF Inv, SenseInv
<1>1. ASSUME NEW t \in Active, Enter(t) PROVE Abstract!Next
  <2>1. entered[t] = left[t]
    BY <1>1, <1>g, Zenon DEF Enter, Flip, InRound
  <2> QED BY <1>1, <2>1, ZenonT(60) DEF Enter, Flip, Abstract!Next, Abstract!Enter
<1>2. ASSUME NEW t \in Active, Decrement(t) \/ ResetCount(t) PROVE UNCHANGED Abstract!vars
  BY <1>2, Zenon DEF Decrement, IsLast, ResetCount, Abstract!vars
<1>3. ASSUME NEW t \in Active, Release(t) PROVE Abstract!Next
  <2>1. \A u \in Active : entered[u] = g + 1 /\ left[u] = g
    BY <1>3, <1>g, Zenon DEF Release, Inv, SenseInv, InRound
  <2>2. left[t] < entered[t] /\ \A u \in Active : entered[t] <= entered[u]
    BY <2>1, ConstantsAssumption
  <2> QED BY <1>3, <2>2, ZenonT(60) DEF Release, Abstract!Next, Abstract!Leave
<1>4. ASSUME NEW t \in Active, Spin(t) PROVE Abstract!Next
  <2>1. entered[t] = g /\ left[t] + 1 = g
    BY <1>4, <1>g, Zenon DEF Spin, InRound
  <2>2. \A u \in Active : entered[u] \in {g, g + 1}
    BY <1>g, Zenon DEF InRound
  <2>3. left[t] \in 0 .. Rounds
    BY <1>a, Zenon DEF Inv, TypeOK
  <2>4. left[t] < entered[t] /\ \A u \in Active : entered[t] <= entered[u]
    BY <2>1, <2>2, <2>3, ConstantsAssumption
  <2> QED BY <1>4, <2>4, ZenonT(60) DEF Spin, Abstract!Next, Abstract!Leave
<1>5. ASSUME NEW val \in 1 .. MaxThreads, Reinit(val) PROVE Abstract!Next
  <2>1. \A t \in Active : entered[t] = left[t]
    BY <1>5, <1>a, <1>g, Zenon DEF Reinit, ResetSenses, InRound
  <2>2. \A t \in Threads : entered[t] = left[t]
    BY <2>1, Zenon DEF Inv, SenseInv
  <2> QED BY <1>5, <2>2 DEF Reinit, ResetSenses, Abstract!Next, Abstract!Reinit
<1>6. CASE UNCHANGED vars
  BY <1>6, Zenon DEF vars, Abstract!vars
<1> QED BY <1>1, <1>2, <1>3, <1>4, <1>5, <1>6 DEF Next, InWait

(***************************************************************************)
(* The counting barrier implements the abstract barrier.                   *)
(***************************************************************************)
THEOREM ImplementsBarrier == Spec => Refinement
<1>1. Init => Abstract!Init
  BY Zenon DEF Init, Abstract!Init, Abstract!Threads, Threads
<1>2. Spec => []Inv
  BY InvInit, InvNext, PTL DEF Spec
<1> QED BY <1>1, <1>2, StepRefines, PTL DEF Spec, Refinement, Abstract!Spec

--------------------------------------------------------------------------------
(***************************************************************************)
(* PerThreadStorage: the blocks tile the used part of the page, for every  *)
(* number of threads, page size and largest class.                         *)
(*                                                                         *)
(* Every action of PerThreadStorage changes the extents in one of four     *)
(* ways: it replaces an extent by others that tile it (an object becomes a *)
(* block in flight, a free block is split), it adds one at the bump        *)
(* pointer, it gives the last one back, or it loses the tail of the page.  *)
(* The lemmas of the first part are about sets of extents alone; those of  *)
(* the second part say which change an action is.                          *)
(***************************************************************************)
Proper(E) == \A e \in E : e.from \in Int /\ e.to \in Int

Apart(E) == \A e, f \in E : e # f => Disjoint(e, f)

Bounded(E, n) == \A e \in E : 0 <= e.from /\ e.from < e.to /\ e.to <= Page /\ e.to <= n

Covers(E, n) == \A l \in 0 .. Page - 1 : l < n => \E e \in E : e.from <= l /\ l < e.to

\* The conjuncts of BlocksTile but the types, for any set of extents and any
\* position of the bump pointer.
Tiles(E, n) == Proper(E) /\ Apart(E) /\ Bounded(E, n) /\ Covers(E, n)

\* G is E with the extent e replaced by the extents of F.
Replaces(G, E, e, F) ==
  /\ \A g \in G : g \in F \/ (g \in E /\ g # e)
  /\ \A f \in F : f \in G
  /\ \A d \in E : d # e => d \in G

\* F tiles the extent e.
Parts(F, e) ==
  /\ Proper(F) /\ Apart(F)
  /\ \A f \in F : e.from <= f.from /\ f.from < f.to /\ f.to <= e.to
  /\ \A l \in Int : e.from <= l /\ l < e.to => \E f \in F : f.from <= l /\ l < f.to

--------------------------------------------------------------------------------
(***************************************************************************)
(* An extent may be replaced by extents that tile it.                      *)
(***************************************************************************)
LEMMA ReplaceTiles ==
  ASSUME NEW E, NEW G, NEW F, NEW e \in E, NEW n \in Nat,
         Tiles(E, n), Replaces(G, E, e, F), Parts(F, e)
  PROVE  Tiles(G, n)
<1>1. Proper(G)
  BY Zenon DEF Tiles, Proper, Replaces, Parts
<1>2. Bounded(G, n)
  <2> SUFFICES ASSUME NEW g \in G
               PROVE  0 <= g.from /\ g.from < g.to /\ g.to <= Page /\ g.to <= n
    BY Zenon DEF Bounded
  <2>1. CASE g \in F
    BY <2>1, PerThreadStorageAssumption DEF Tiles, Proper, Bounded, Parts
  <2>2. CASE g \in E
    BY <2>2, Zenon DEF Tiles, Bounded
  <2> QED
    BY <2>1, <2>2, Zenon DEF Replaces
<1>3. Apart(G)
  <2> SUFFICES ASSUME NEW g \in G, NEW h \in G, g # h
               PROVE  Disjoint(g, h)
    BY Zenon DEF Apart
  <2>0. ASSUME NEW f \in F, NEW d \in E, d # e
        PROVE  Disjoint(f, d) /\ Disjoint(d, f)
    <3>1. Disjoint(e, d)
      BY <2>0, Zenon DEF Tiles, Apart
    <3> QED
      BY <3>1, <2>0 DEF Disjoint, Parts, Tiles, Proper
  <2>1. CASE g \in F /\ h \in F
    BY <2>1, Zenon DEF Parts, Apart
  <2>2. CASE g \in F /\ h \in E /\ h # e
    BY <2>2, <2>0, Zenon
  <2>3. CASE g \in E /\ g # e /\ h \in F
    BY <2>3, <2>0, Zenon
  <2>4. CASE g \in E /\ h \in E
    BY <2>4, Zenon DEF Tiles, Apart
  <2> QED
    BY <2>1, <2>2, <2>3, <2>4, Zenon DEF Replaces
<1>4. Covers(G, n)
  <2> SUFFICES ASSUME NEW l \in 0 .. Page - 1, l < n
               PROVE  \E g \in G : g.from <= l /\ l < g.to
    BY Zenon DEF Covers
  <2>1. PICK d \in E : d.from <= l /\ l < d.to
    BY Zenon DEF Tiles, Covers
  <2>2. CASE d # e
    BY <2>1, <2>2, Zenon DEF Replaces
  <2>3. CASE d = e
    <3>1. PICK f \in F : f.from <= l /\ l < f.to
      BY <2>1, <2>3 DEF Parts
    <3> QED
      BY <3>1, Zenon DEF Replaces
  <2> QED
    BY <2>2, <2>3, Zenon
<1> QED
  BY <1>1, <1>2, <1>3, <1>4, Zenon DEF Tiles

(***************************************************************************)
(* An extent may be added where the bump pointer was when the pointer      *)
(* moves to its end, or to beyond the page when the extent ends there.     *)
(***************************************************************************)
LEMMA ExtendTiles ==
  ASSUME NEW E, NEW G, NEW e, NEW n \in Nat, NEW m \in Nat,
         Tiles(E, n),
         \A g \in G : g = e \/ g \in E,
         e \in G, \A d \in E : d \in G,
         e.from = n, e.to \in Int, n < e.to, e.to <= Page,
         m = e.to \/ (e.to = Page /\ Page <= m)
  PROVE  Tiles(G, m)
<1>1. Proper(G)
  BY DEF Tiles, Proper
<1>2. Bounded(G, m)
  BY PerThreadStorageAssumption DEF Tiles, Proper, Bounded
<1>3. Apart(G)
  <2> SUFFICES ASSUME NEW g \in G, NEW h \in G, g # h
               PROVE  Disjoint(g, h)
    BY Zenon DEF Apart
  <2>1. CASE g \in E /\ h \in E
    BY <2>1, Zenon DEF Tiles, Apart
  <2>2. CASE g = e /\ h \in E
    BY <2>2, Zenon DEF Tiles, Bounded, Disjoint
  <2>3. CASE g \in E /\ h = e
    BY <2>3, Zenon DEF Tiles, Bounded, Disjoint
  <2> QED
    BY <2>1, <2>2, <2>3, Zenon
<1>4. Covers(G, m)
  <2> SUFFICES ASSUME NEW l \in 0 .. Page - 1, l < m
               PROVE  \E g \in G : g.from <= l /\ l < g.to
    BY Zenon DEF Covers
  <2>1. CASE l < n
    BY <2>1, Zenon DEF Tiles, Covers
  <2>2. CASE n <= l
    BY <2>2, PerThreadStorageAssumption
  <2> QED
    BY <2>1, <2>2
<1> QED
  BY <1>1, <1>2, <1>3, <1>4, Zenon DEF Tiles

(***************************************************************************)
(* The extent that ends at the bump pointer may be given back.             *)
(***************************************************************************)
LEMMA TruncateTiles ==
  ASSUME NEW E, NEW G, NEW e \in E, NEW n \in Nat,
         Tiles(E, n), e.to = n, Replaces(G, E, e, {})
  PROVE  Tiles(G, e.from)
<1>1. \A g \in G : g \in E /\ g # e
  BY Zenon DEF Replaces
<1>2. Proper(G) /\ Apart(G)
  BY <1>1, Zenon DEF Tiles, Proper, Apart
<1>3. Bounded(G, e.from)
  <2> SUFFICES ASSUME NEW g \in G
               PROVE  0 <= g.from /\ g.from < g.to /\ g.to <= Page /\ g.to <= e.from
    BY Zenon DEF Bounded
  <2>1. Disjoint(g, e)
    BY <1>1, Zenon DEF Tiles, Apart
  <2> QED
    BY <1>1, <2>1 DEF Disjoint, Tiles, Bounded, Proper
<1>4. Covers(G, e.from)
  <2> SUFFICES ASSUME NEW l \in 0 .. Page - 1, l < e.from
               PROVE  \E g \in G : g.from <= l /\ l < g.to
    BY Zenon DEF Covers
  <2>1. l < n
    BY DEF Tiles, Bounded, Proper
  <2>2. PICK d \in E : d.from <= l /\ l < d.to
    BY <2>1, Zenon DEF Tiles, Covers
  <2>3. d # e
    BY <2>2 DEF Tiles, Proper
  <2> QED
    BY <2>2, <2>3, Zenon DEF Replaces
<1> QED
  BY <1>2, <1>3, <1>4, Zenon DEF Tiles

--------------------------------------------------------------------------------
\* What a thread that splits a block still has to hand out: the classes from its
\* own up to i make up the rest.
Splitting ==
  \A t \in Callers :
    place[t] = "change" =>
      /\ ll[t] <= i[t] + 1 /\ i[t] + 1 <= MaxClass
      /\ end[t] - start[t] = Size[i[t] + 1] - Size[ll[t]]

BackendInv == BackendTypeOK /\ Tiles(Extents, nextLoc) /\ Splitting

Block(who, by, o, k) == Extent(who, by, o, o + Size[k])

\* The extents of the blocks L of objects, and of the free lists F.
ObjectExtents(L) == {Block("object", Nobody, b[1], b[2]) : b \in L}

FreeExtents(F) ==
  {Block("free", Nobody, b[1], b[2]) : b \in {c \in Offsets \X Classes : c[1] \in F[c[2]]}}

(***************************************************************************)
(* The sizes of the classes are positive and grow with the class.          *)
(***************************************************************************)
LEMMA Sizes ==
  /\ \A k \in 0 .. MaxClass + 1 : Size[k] \in Nat /\ Size[k] > 0
  /\ \A j, k \in 0 .. MaxClass + 1 : Size[j] = Size[k] => j = k
  /\ \A j, k \in 0 .. MaxClass + 1 : j < k => Size[j] < Size[k]
  /\ \A j, k \in 0 .. MaxClass + 1 : j <= k => Size[j] <= Size[k]
  /\ \A k \in Classes : Size[k + 1] = 2 * Size[k]
  /\ Classes \subseteq 0 .. MaxClass + 1
<1>1. MaxClass \in Nat /\ Size \in [0 .. MaxClass + 1 -> Nat \ {0}]
  BY PerThreadStorageAssumption, Zenon
<1>2. \A k \in 0 .. MaxClass + 1 : Size[k] \in Nat /\ Size[k] > 0
  BY <1>1
<1>3. \A j, k \in 0 .. MaxClass + 1 : j < k => Size[j] < Size[k]
  BY PerThreadStorageAssumption, Zenon
<1>4. \A j, k \in 0 .. MaxClass + 1 : j <= k => Size[j] <= Size[k]
  BY <1>1, <1>2, <1>3
<1>5. \A j, k \in 0 .. MaxClass + 1 : Size[j] = Size[k] => j = k
  BY <1>1, <1>2, <1>3
<1>6. Classes \subseteq 0 .. MaxClass + 1
  BY <1>1 DEF Classes
<1>7. \A k \in Classes : Size[k + 1] = 2 * Size[k]
  BY PerThreadStorageAssumption, Zenon
<1> QED
  BY <1>2, <1>3, <1>4, <1>5, <1>6, <1>7, Zenon

\* Thread t has the extent r in its hands.
Held(t, r) ==
  \/ place[t] \in {"change", "lockFree", "push"} /\ r = Block("hand", t, offset[t], ll[t])
  \/ place[t] = "change" /\ start[t] < end[t] /\ r = Extent("rest", t, start[t], end[t])

OthersHold(t, r) == \E u \in Callers \ {t} : Held(u, r)

LostIs(r) == lost # Page /\ r = Extent("lost", Nobody, lost, Page)

OthersStay(t) ==
  \A u \in Callers \ {t} :
    /\ place'[u] = place[u] /\ ll'[u] = ll[u] /\ offset'[u] = offset[u]
    /\ start'[u] = start[u] /\ end'[u] = end[u] /\ i'[u] = i[u]

(***************************************************************************)
(* Who holds which extent.                                                 *)
(***************************************************************************)
LEMMA InExtents ==
  ASSUME NEW r
  PROVE  r \in Extents <=>
           \/ r \in ObjectExtents(live)
           \/ r \in FreeExtents(freeOffsets)
           \/ \E t \in Callers : Held(t, r)
           \/ LostIs(r)
BY Zenon DEF Extents, Block, ObjectExtents, FreeExtents, Held, LostIs

(***************************************************************************)
(* A step of thread t leaves alone what the others hold.                   *)
(***************************************************************************)
LEMMA InExtentsNext ==
  ASSUME NEW r, NEW t \in Callers, OthersStay(t)
  PROVE  /\ r \in Extents <=>
              \/ r \in ObjectExtents(live)
              \/ r \in FreeExtents(freeOffsets)
              \/ Held(t, r) \/ OthersHold(t, r)
              \/ LostIs(r)
         /\ r \in Extents' <=>
              \/ r \in ObjectExtents(live')
              \/ r \in FreeExtents(freeOffsets')
              \/ Held(t, r)' \/ OthersHold(t, r)
              \/ LostIs(r)'
<1>1. r \in Extents' <=>
        \/ r \in ObjectExtents(live')
        \/ r \in FreeExtents(freeOffsets')
        \/ \E u \in Callers : Held(u, r)'
        \/ LostIs(r)'
  BY Zenon DEF Extents, Block, ObjectExtents, FreeExtents, Held, LostIs
<1>2. \A u \in Callers \ {t} : Held(u, r)' <=> Held(u, r)
  BY Zenon DEF Held, OthersStay
<1>3. (\E u \in Callers : Held(u, r)) <=> Held(t, r) \/ OthersHold(t, r)
  BY Zenon DEF OthersHold
<1>4. (\E u \in Callers : Held(u, r)') <=> Held(t, r)' \/ OthersHold(t, r)
  BY <1>2, Zenon DEF OthersHold
<1> QED
  BY <1>1, <1>3, <1>4, InExtents, Zenon

(***************************************************************************)
(* A pair of a product.                                                    *)
(***************************************************************************)
LEMMA PairOf ==
  ASSUME NEW S, NEW T, NEW o \in S, NEW k \in T
  PROVE  \E c \in S \X T : c = <<o, k>> /\ c[1] = o /\ c[2] = k
<1>1. <<o, k>> \in S \X T /\ <<o, k>>[1] = o /\ <<o, k>>[2] = k
  BY Zenon
<1> QED
  BY <1>1, Zenon

(***************************************************************************)
(* An extent replaced by one with the same lines.                          *)
(***************************************************************************)
LEMMA OnePart ==
  ASSUME NEW e, NEW f, e.from \in Int, e.to \in Int, e.from < e.to,
         f.from = e.from, f.to = e.to
  PROVE  Parts({f}, e)
BY DEF Parts, Proper, Apart

(***************************************************************************)
(* An extent cut in two.                                                   *)
(***************************************************************************)
LEMMA TwoParts ==
  ASSUME NEW e, NEW f, NEW g, e.from \in Int, e.to \in Int, f.to \in Int,
         f.from = e.from, f.to = g.from, g.to = e.to, f.from < f.to, g.from < g.to
  PROVE  Parts({f, g}, e)
BY DEF Parts, Proper, Apart, Disjoint

(***************************************************************************)
(* An extent determines what it is made of.                                *)
(***************************************************************************)
LEMMA ExtentFields ==
  /\ \A w, b, f, t : /\ Extent(w, b, f, t).who = w /\ Extent(w, b, f, t).by = b
                     /\ Extent(w, b, f, t).from = f /\ Extent(w, b, f, t).to = t
  /\ \A w, b, o, k : /\ Block(w, b, o, k).who = w /\ Block(w, b, o, k).by = b
                     /\ Block(w, b, o, k).from = o /\ Block(w, b, o, k).to = o + Size[k]
BY DEF Extent, Block

(***************************************************************************)
(* A block of an object, of a free list or in a hand is inside the page.   *)
(***************************************************************************)
LEMMA BlocksInPage ==
  ASSUME BackendInv
  PROVE  /\ \A b \in live : Block("object", Nobody, b[1], b[2]) \in Extents
         /\ \A k \in Classes : \A o \in freeOffsets[k] :
              Block("free", Nobody, o, k) \in Extents /\ o + Size[k] <= Page
         /\ \A t \in Callers : place[t] \in {"change", "lockFree", "push"} =>
              Block("hand", t, offset[t], ll[t]) \in Extents
         /\ \A t \in Callers : place[t] = "change" /\ start[t] < end[t] =>
              Extent("rest", t, start[t], end[t]) \in Extents
         /\ lost # Page => Page <= nextLoc
<1>1. BackendTypeOK /\ Bounded(Extents, nextLoc)
  BY Zenon DEF BackendInv, Tiles
<1>2. \A b \in live : Block("object", Nobody, b[1], b[2]) \in Extents
  BY <1>1, InExtents, Zenon DEF ObjectExtents
<1>3. ASSUME NEW k \in Classes, NEW o \in freeOffsets[k]
      PROVE  Block("free", Nobody, o, k) \in Extents
  <2>1. PICK c \in Offsets \X Classes : c = <<o, k>> /\ c[1] = o /\ c[2] = k
    BY <1>1, PairOf DEF BackendTypeOK
  <2>2. Block("free", Nobody, o, k) \in FreeExtents(freeOffsets)
    BY <2>1, Zenon DEF FreeExtents
  <2> QED
    BY <1>1, <2>2, InExtents, Zenon
<1>4. \A k \in Classes : \A o \in freeOffsets[k] : o + Size[k] <= Page
  BY <1>1, <1>3, ExtentFields DEF Bounded
<1>5. lost # Page => Page <= nextLoc
  <2>1. lost # Page => Extent("lost", Nobody, lost, Page) \in Extents
    BY <1>1, InExtents, Zenon DEF LostIs
  <2> QED
    BY <1>1, <2>1, ExtentFields DEF Bounded
<1>6. \A t \in Callers : place[t] \in {"change", "lockFree", "push"} =>
        Block("hand", t, offset[t], ll[t]) \in Extents
  BY <1>1, InExtents, Zenon DEF Held
<1>7. \A t \in Callers : place[t] = "change" /\ start[t] < end[t] =>
        Extent("rest", t, start[t], end[t]) \in Extents
  BY <1>1, InExtents, Zenon DEF Held
<1> QED
  BY <1>2, <1>3, <1>4, <1>5, <1>6, <1>7, Zenon

(***************************************************************************)
(* A step that leaves every extent where it is keeps the tiling.           *)
(***************************************************************************)
LEMMA SameExtents ==
  ASSUME BackendInv, BackendTypeOK', UNCHANGED <<nextLoc, freeOffsets, live, lost, offset, loop>>,
         \A t \in Callers :
           /\ place[t] \in {"change", "lockFree", "push"} <=>
                place'[t] \in {"change", "lockFree", "push"}
           /\ place[t] \in {"change", "lockFree", "push"} => ll'[t] = ll[t]
           /\ place[t] = "change" <=> place'[t] = "change"
  PROVE  Tiles(Extents, nextLoc)' /\ Splitting'
<1>1. ASSUME NEW r PROVE r \in Extents' <=> r \in Extents
  <2>1. r \in Extents' <=>
          \/ r \in ObjectExtents(live')
          \/ r \in FreeExtents(freeOffsets')
          \/ \E u \in Callers : Held(u, r)'
          \/ LostIs(r)'
    BY Zenon DEF Extents, Block, ObjectExtents, FreeExtents, Held, LostIs
  <2>2. \A u \in Callers : Held(u, r)' <=> Held(u, r)
    BY Zenon DEF Held, loop
  <2>3. LostIs(r)' <=> LostIs(r)
    BY Zenon DEF LostIs
  <2> QED
    BY <2>1, <2>2, <2>3, InExtents, Zenon
<1>2. Extents' = Extents
  BY <1>1, Zenon
<1>3. Tiles(Extents, nextLoc)'
  BY <1>2, Zenon DEF BackendInv, Tiles, Proper, Apart, Bounded, Covers, Disjoint
<1>4. Splitting'
  BY Zenon DEF BackendInv, Splitting, loop
<1> QED
  BY <1>3, <1>4, Zenon

Numbers == INSTANCE WellFoundedInduction

(***************************************************************************)
(* A nonempty set of natural numbers has a least element.                  *)
(***************************************************************************)
LEMMA HasLeast ==
  ASSUME NEW S, S \subseteq Nat, S # {}
  PROVE  \E x \in S : \A y \in S : x <= y
<1>1. PICK x \in S : \A y \in S : ~(<<y, x>> \in Numbers!OpToRel(<, Nat))
  BY Numbers!NatLessThanWellFounded, Numbers!WFMin, Zenon
<1>2. \A y \in S : ~(y < x)
  BY <1>1, Zenon DEF Numbers!OpToRel
<1> QED
  BY <1>2

(***************************************************************************)
(* Every size up to that of the largest class has a class (nextLog2).      *)
(***************************************************************************)
LEMMA ClassOfSize ==
  ASSUME NEW sz \in 1 .. Size[MaxClass]
  PROVE  nextLog2(sz) \in Classes
<1> DEFINE Large == {k \in Classes : sz <= Size[k]}
<1>0. MaxClass \in Nat
  BY PerThreadStorageAssumption, Zenon
<1>1. MaxClass \in Large /\ Large \subseteq Nat
  BY <1>0, Sizes DEF Classes
<1>2. PICK k \in Large : \A j \in Large : k <= j
  BY <1>1, HasLeast, Zenon
<1>3. \A j \in Classes : j < k => Size[j] < sz
  BY <1>0, <1>2, Sizes DEF Classes
<1> QED
  BY <1>2, <1>3, Zenon DEF nextLog2

(***************************************************************************)
(* allocOffset up to the bump.                                             *)
(***************************************************************************)
LEMMA AllocKeepsInv ==
  ASSUME BackendInv, NEW t \in Callers, NEW sz \in 1 .. Size[MaxClass], Alloc(t, sz)
  PROVE  BackendInv'
<1>1. nextLog2(sz) \in Classes
  BY ClassOfSize, Zenon
<1>2. BackendTypeOK'
  BY <1>1, Zenon DEF BackendInv, BackendTypeOK, Alloc, Move, heap, loop
<1> QED
  BY <1>2, SameExtents, Zenon DEF BackendInv, BackendTypeOK, Alloc, Move, heap, loop

(***************************************************************************)
(* GALOIS_DIE and the lock.                                                *)
(***************************************************************************)
LEMMA LockKeepsInv ==
  ASSUME BackendInv, NEW t \in Callers, NEW from, NEW to, Lock(t, from, to),
         <<from, to>> \in {<<"lock", "search">>, <<"lockFree", "push">>}
  PROVE  BackendInv'
<1>1. BackendTypeOK'
  BY Zenon DEF BackendInv, BackendTypeOK, Lock, Die, Move, loop
<1> QED
  BY <1>1, SameExtents, Zenon DEF BackendInv, BackendTypeOK, Lock, Die, Move, loop

\* The destructor marks the backend invalid and moves no block.
LEMMA DestroyKeepsInv ==
  ASSUME BackendInv, Destroy
  PROVE  BackendInv'
<1>1. BackendTypeOK'
  BY Zenon DEF BackendInv, BackendTypeOK, Destroy, loop
<1> QED
  BY <1>1, SameExtents, Zenon DEF BackendInv, BackendTypeOK, Destroy, loop

(***************************************************************************)
(* One object more, one object less.                                       *)
(***************************************************************************)
LEMMA ObjectAdded ==
  ASSUME NEW L, NEW o, NEW k, NEW r
  PROVE  r \in ObjectExtents(L \cup {<<o, k>>}) <=>
           r = Block("object", Nobody, o, k) \/ r \in ObjectExtents(L)
<1>1. <<o, k>>[1] = o /\ <<o, k>>[2] = k
  BY Zenon
<1>2. PICK c : c = <<o, k>>
  BY Zenon
<1> QED
  BY <1>1, <1>2, Zenon DEF ObjectExtents

(***************************************************************************)
(* An extent determines the offset and the class of its block.             *)
(***************************************************************************)
LEMMA BlockInjective ==
  ASSUME NEW w, NEW v, NEW b \in Offsets \X Classes, NEW c \in Offsets \X Classes,
         Block(w, v, b[1], b[2]) = Block(w, v, c[1], c[2])
  PROVE  b = c
<1>1. b[1] \in Offsets /\ b[2] \in Classes /\ c[1] \in Offsets /\ c[2] \in Classes
  BY Zenon
<1>2. b[1] = c[1] /\ b[1] + Size[b[2]] = c[1] + Size[c[2]]
  BY ExtentFields
<1>3. b[2] \in 0 .. MaxClass + 1 /\ c[2] \in 0 .. MaxClass + 1
  BY <1>1, Sizes, Zenon
<1>4. Size[b[2]] \in Nat /\ Size[c[2]] \in Nat /\ b[1] \in Nat
  BY <1>1, <1>3, Sizes, PerThreadStorageAssumption DEF Offsets
<1>5. b[2] = c[2]
  BY <1>2, <1>3, <1>4, Sizes
<1> QED
  BY <1>2, <1>5

\* Giving up the object at o with class k removes its extent, and no other.
LEMMA ObjectRemoved ==
  ASSUME NEW L \in SUBSET (Offsets \X Classes), NEW o, NEW k, <<o, k>> \in L, NEW r
  PROVE  r \in ObjectExtents(L \ {<<o, k>>}) <=>
           r # Block("object", Nobody, o, k) /\ r \in ObjectExtents(L)
<1>1. PICK c \in L : c = <<o, k>> /\ c[1] = o /\ c[2] = k
  BY Zenon
<1> QED
  BY <1>1, BlockInjective, Zenon DEF ObjectExtents

(***************************************************************************)
(* One free block more, one free block less.                               *)
(***************************************************************************)
LEMMA FreeAdded ==
  ASSUME NEW F \in [Classes -> SUBSET Offsets], NEW o \in Offsets, NEW k \in Classes, NEW r
  PROVE  r \in FreeExtents([F EXCEPT ![k] = @ \cup {o}]) <=>
           r = Block("free", Nobody, o, k) \/ r \in FreeExtents(F)
<1> DEFINE B(G) == {c \in Offsets \X Classes : c[1] \in G[c[2]]}
<1>1. PICK d \in Offsets \X Classes : d = <<o, k>> /\ d[1] = o /\ d[2] = k
  BY PairOf
<1>2. B([F EXCEPT ![k] = @ \cup {o}]) = B(F) \cup {d}
  BY <1>1
<1> QED
  BY <1>1, <1>2, Zenon DEF FreeExtents

\* Taking o off the free list of class k removes its extent, and no other.
LEMMA FreeRemoved ==
  ASSUME NEW F \in [Classes -> SUBSET Offsets], NEW k \in Classes, NEW o \in Offsets,
         o \in F[k], NEW r
  PROVE  r \in FreeExtents([F EXCEPT ![k] = @ \ {o}]) <=>
           r # Block("free", Nobody, o, k) /\ r \in FreeExtents(F)
<1> DEFINE B(G) == {c \in Offsets \X Classes : c[1] \in G[c[2]]}
<1>1. PICK d \in Offsets \X Classes : d = <<o, k>> /\ d[1] = o /\ d[2] = k
  BY PairOf
<1>2. B([F EXCEPT ![k] = @ \ {o}]) = B(F) \ {d}
  BY <1>1
<1> QED
  BY <1>1, <1>2, BlockInjective, Zenon DEF FreeExtents

(***************************************************************************)
(* The bump adds an object at the end, or loses the rest of the page.      *)
(***************************************************************************)
LEMMA BumpKeepsInv ==
  ASSUME BackendInv, NEW t \in Callers, Bump(t)
  PROVE  BackendInv'
<1> DEFINE k == ll[t]
<1>0. k \in Classes /\ Size[k] \in Nat /\ Size[k] > 0 /\ Page \in Nat /\ nextLoc \in Nat
  BY Sizes, PerThreadStorageAssumption, Zenon DEF BackendInv, BackendTypeOK
<1>1. CASE Fits(nextLoc, k)
  <2> DEFINE e == Block("object", Nobody, nextLoc, k)
  <2>1. place[t] = "bump" /\ place' = [place EXCEPT ![t] = "idle"] /\ Forget(t)
        /\ live' = live \cup {<<nextLoc, k>>} /\ lost' = lost /\ nextLoc' = nextLoc + Size[k]
        /\ UNCHANGED <<freeOffsets, freeOffsetsLock, invalid, died>>
    BY <1>1, Zenon DEF Bump, Move
  <2>a. <<nextLoc, k>> \in Offsets \X Classes /\ nextLoc' \in Nat
    BY <1>0, <1>1, <2>1 DEF Fits, Offsets
  <2>b. 0 \in Classes /\ 0 \in Offsets /\ -1 \in -1 .. MaxClass
    BY PerThreadStorageAssumption DEF Offsets, Classes
  <2>2. BackendTypeOK'
    BY <2>1, <2>a, <2>b, Zenon DEF BackendInv, BackendTypeOK, Forget
  <2>3. OthersStay(t)
    BY <2>1, Zenon DEF BackendInv, BackendTypeOK, Forget, OthersStay
  <2>4. place'[t] = "idle"
    BY <2>1, Zenon DEF BackendInv, BackendTypeOK
  <2>5. ASSUME NEW r PROVE r \in Extents' <=> r = e \/ r \in Extents
    <3>1. r \in ObjectExtents(live') <=> r = e \/ r \in ObjectExtents(live)
      BY <2>1, ObjectAdded, Zenon
    <3>2. ~Held(t, r) /\ ~Held(t, r)' /\ (LostIs(r)' <=> LostIs(r))
      BY <2>1, <2>4, Zenon DEF Held, LostIs
    <3>3. FreeExtents(freeOffsets') = FreeExtents(freeOffsets)
      BY <2>1, Zenon
    <3> QED
      BY <2>3, <3>1, <3>2, <3>3, InExtentsNext, Zenon
  <2>6. Tiles(Extents', nextLoc')
    <3>1. e.from = nextLoc /\ e.to = nextLoc' /\ nextLoc' \in Nat /\ nextLoc < nextLoc'
          /\ nextLoc' <= Page
      BY <1>0, <1>1, <2>1, ExtentFields DEF Fits
    <3>2. \A g \in Extents' : g = e \/ g \in Extents
      BY <2>5, Zenon
    <3>3. e \in Extents' /\ \A d \in Extents : d \in Extents'
      BY <2>5, Zenon
    <3> HIDE DEF e
    <3> QED
      BY <1>0, <3>1, <3>2, <3>3, ExtendTiles DEF BackendInv
  <2>7. Splitting'
    BY <2>3, <2>4, Zenon DEF BackendInv, Splitting, OthersStay
  <2> QED
    BY <2>2, <2>6, <2>7, Zenon DEF BackendInv, Tiles, Proper, Apart, Bounded, Covers, Disjoint
<1>2. CASE ~Fits(nextLoc, k)
  <2>1. place[t] = "bump" /\ place' = [place EXCEPT ![t] = "lock"]
        /\ lost' = (IF nextLoc < lost THEN nextLoc ELSE lost) /\ nextLoc' = nextLoc + Size[k]
        /\ UNCHANGED <<freeOffsets, live, ll, offset, loop>>
    BY <1>2, Zenon DEF Bump, Move
  <2>2. BackendTypeOK'
    BY <1>0, <2>1 DEF BackendInv, BackendTypeOK, Bump, Offsets, loop
  <2>3. Splitting'
    BY <2>1, Zenon DEF BackendInv, BackendTypeOK, Splitting, loop
  <2>a. OthersStay(t)
    BY <2>1, Zenon DEF BackendInv, BackendTypeOK, OthersStay, loop
  <2>b. ASSUME NEW r PROVE ~Held(t, r) /\ ~Held(t, r)'
    BY <2>1, Zenon DEF BackendInv, BackendTypeOK, Held
  <2>4. CASE nextLoc < lost
    <3>1. lost = Page /\ lost' = nextLoc
      BY <1>0, <2>1, <2>4, BlocksInPage DEF BackendInv, BackendTypeOK, Offsets
    <3> DEFINE e == Extent("lost", Nobody, nextLoc, Page)
    <3>2. ASSUME NEW r PROVE r \in Extents' <=> r = e \/ r \in Extents
      <4>1. ~LostIs(r) /\ (LostIs(r)' <=> r = e)
        BY <1>0, <2>4, <3>1 DEF LostIs
      <4> QED
        BY <2>1, <2>a, <2>b, <4>1, InExtentsNext, Zenon
    <3>3. Tiles(Extents', nextLoc')
      <4>1. e.from = nextLoc /\ e.to = Page /\ Page \in Int /\ nextLoc < Page
            /\ nextLoc' \in Nat /\ Page <= nextLoc'
        BY <1>0, <1>2, <2>1, <2>4, <3>1, ExtentFields DEF Fits
      <4>2. \A g \in Extents' : g = e \/ g \in Extents
        BY <3>2, Zenon
      <4>3. e \in Extents' /\ \A d \in Extents : d \in Extents'
        BY <3>2, Zenon
      <4> HIDE DEF e
      <4> QED
        BY <1>0, <4>1, <4>2, <4>3, ExtendTiles DEF BackendInv
    <3> QED
      BY <2>2, <2>3, <3>3, Zenon DEF BackendInv, Tiles, Proper, Apart, Bounded, Covers, Disjoint
  <2>5. CASE ~(nextLoc < lost)
    <3>1. lost' = lost /\ Page <= nextLoc
      BY <1>0, <2>1, <2>5, BlocksInPage, SMTT(60) DEF BackendInv, BackendTypeOK, Offsets
    <3>2. ASSUME NEW r PROVE r \in Extents' <=> r \in Extents
      BY <2>1, <2>a, <2>b, <3>1, InExtentsNext, Zenon DEF LostIs
    <3>3. Tiles(Extents, nextLoc')
      BY <1>0, <2>1, <3>1 DEF BackendInv, Tiles, Bounded, Covers, Proper
    <3> QED
      BY <2>2, <2>3, <3>2, <3>3, Zenon DEF BackendInv, Tiles, Proper, Apart, Bounded, Covers, Disjoint
  <2> QED
    BY <2>4, <2>5, Zenon
<1> QED
  BY <1>1, <1>2, Zenon

(***************************************************************************)
(* A step that gives the lines of one extent to another, or to two.        *)
(***************************************************************************)
LEMMA ReplaceOne ==
  ASSUME BackendInv, nextLoc' = nextLoc, NEW e \in Extents, NEW f, f.from = e.from, f.to = e.to,
         \A r : r \in Extents' <=> r = f \/ (r \in Extents /\ r # e)
  PROVE  Tiles(Extents, nextLoc)'
<1>1. e.from \in Int /\ e.to \in Int /\ e.from < e.to
  BY Zenon DEF BackendInv, Tiles, Proper, Bounded
<1>2. Parts({f}, e)
  BY <1>1, OnePart, Zenon
<1>3. Replaces(Extents', Extents, e, {f})
  BY Zenon DEF Replaces
<1>4. Tiles(Extents, nextLoc) /\ nextLoc \in Nat
  BY Zenon DEF BackendInv, BackendTypeOK
<1>5. Tiles(Extents', nextLoc)
  BY <1>2, <1>3, <1>4, ReplaceTiles, Zenon
<1> QED
  BY <1>5, Zenon DEF Tiles, Proper, Apart, Bounded, Covers, Disjoint

\* The tiling survives when an extent is cut into two.
LEMMA ReplaceTwo ==
  ASSUME BackendInv, nextLoc' = nextLoc, NEW e \in Extents, NEW f, NEW g, f.to \in Int,
         f.from = e.from, f.to = g.from, g.to = e.to, f.from < f.to, g.from < g.to,
         \A r : r \in Extents' <=> r = f \/ r = g \/ (r \in Extents /\ r # e)
  PROVE  Tiles(Extents, nextLoc)'
<1>1. e.from \in Int /\ e.to \in Int
  BY Zenon DEF BackendInv, Tiles, Proper
<1>2. Parts({f, g}, e)
  BY <1>1, TwoParts, Zenon
<1>3. Replaces(Extents', Extents, e, {f, g})
  BY Zenon DEF Replaces
<1>4. Tiles(Extents, nextLoc) /\ nextLoc \in Nat
  BY Zenon DEF BackendInv, BackendTypeOK
<1>5. Tiles(Extents', nextLoc)
  BY <1>2, <1>3, <1>4, ReplaceTiles, Zenon
<1> QED
  BY <1>5, Zenon DEF Tiles, Proper, Apart, Bounded, Covers, Disjoint

(***************************************************************************)
(* Extents of different holders are different.                             *)
(***************************************************************************)
LEMMA HoldersDiffer ==
  ASSUME NEW t \in Callers, NEW r
  PROVE  /\ r \in ObjectExtents(live) => r.who = "object"
         /\ r \in FreeExtents(freeOffsets) => r.who = "free"
         /\ Held(t, r) => r.who \in {"hand", "rest"} /\ r.by = t
         /\ OthersHold(t, r) => r.who \in {"hand", "rest"} /\ r.by # t
         /\ LostIs(r) => r.who = "lost"
BY ExtentFields DEF ObjectExtents, FreeExtents, Held, OthersHold, LostIs

(***************************************************************************)
(* deallocOffset gives the last block back, or takes an object's block     *)
(* into the thread's hands.                                                *)
(***************************************************************************)
LEMMA DeallocKeepsInv ==
  ASSUME BackendInv, NEW t \in Callers, NEW o, NEW k, Dealloc(t, o, k)
  PROVE  BackendInv'
<1> DEFINE e == Block("object", Nobody, o, k)
           f == Block("hand", t, o, k)
<1>0. /\ <<o, k>> \in live /\ live' = live \ {<<o, k>>} /\ o \in Offsets /\ k \in Classes
      /\ UNCHANGED <<freeOffsets, freeOffsetsLock, invalid, died, lost, loop>>
  BY Zenon DEF Dealloc, BackendInv, BackendTypeOK
<1>1. e \in Extents
  <2>1. <<o, k>>[1] = o /\ <<o, k>>[2] = k
    BY Zenon
  <2> QED
    BY <1>0, <2>1, BlocksInPage, Zenon
<1>2. ASSUME NEW r PROVE r \in ObjectExtents(live') <=> r # e /\ r \in ObjectExtents(live)
  BY <1>0, ObjectRemoved, Zenon DEF BackendInv, BackendTypeOK
<1>3. ASSUME NEW r PROVE LostIs(r)' <=> LostIs(r)
  BY <1>0, Zenon DEF LostIs
<1>4. e.who = "object" /\ f.who = "hand"
  BY ExtentFields
<1>5. CASE AtEnd(o, k)
  <2>1. place[t] = "idle" /\ place' = place /\ nextLoc' = o /\ UNCHANGED <<ll, offset>>
    BY <1>5 DEF Dealloc, Move, BackendInv, BackendTypeOK, AtEnd
  <2>a. o \in Nat
    BY <1>0, PerThreadStorageAssumption DEF Offsets
  <2>2. BackendTypeOK'
    BY <1>0, <2>1, <2>a, Zenon DEF BackendInv, BackendTypeOK, loop
  <2>3. Splitting'
    BY <1>0, <2>1, Zenon DEF BackendInv, Splitting, loop
  <2>4. OthersStay(t)
    BY <1>0, <2>1, Zenon DEF OthersStay, loop
  <2>5. ASSUME NEW r PROVE r \in Extents' <=> r \in Extents /\ r # e
    <3>1. ~Held(t, r) /\ ~Held(t, r)'
      BY <2>1, Zenon DEF Held
    <3> HIDE DEF e
    <3> QED
      BY <1>0, <1>2, <1>3, <1>4, <2>4, <3>1, InExtentsNext, HoldersDiffer, Zenon
  <2>6. Tiles(Extents', o)
    <3>1. e.from = o /\ e.to = nextLoc
      BY <1>5, ExtentFields DEF AtEnd
    <3>2. Replaces(Extents', Extents, e, {})
      BY <2>5, Zenon DEF Replaces
    <3>3. Tiles(Extents, nextLoc) /\ nextLoc \in Nat
      BY Zenon DEF BackendInv, BackendTypeOK
    <3> HIDE DEF e
    <3> QED
      BY <1>1, <3>1, <3>2, <3>3, TruncateTiles, Zenon
  <2> QED
    BY <2>1, <2>2, <2>3, <2>6, Zenon DEF BackendInv, Tiles, Proper, Apart, Bounded, Covers, Disjoint
<1>6. CASE ~AtEnd(o, k)
  <2>1. /\ place[t] = "idle" /\ place' = [place EXCEPT ![t] = "lockFree"] /\ nextLoc' = nextLoc
        /\ ll' = [ll EXCEPT ![t] = k] /\ offset' = [offset EXCEPT ![t] = o]
    BY <1>6, Zenon DEF Dealloc, Move
  <2>2. BackendTypeOK'
    BY <1>0, <2>1, Zenon DEF BackendInv, BackendTypeOK, loop
  <2>3. Splitting'
    BY <1>0, <2>1, Zenon DEF BackendInv, BackendTypeOK, Splitting, loop
  <2>4. OthersStay(t)
    BY <1>0, <2>1, Zenon DEF BackendInv, BackendTypeOK, OthersStay, loop
  <2>5. ASSUME NEW r PROVE r \in Extents' <=> r = f \/ (r \in Extents /\ r # e)
    <3>1. ~Held(t, r) /\ (Held(t, r)' <=> r = f)
      BY <2>1, Zenon DEF Held, BackendInv, BackendTypeOK
    <3> HIDE DEF e, f
    <3> QED
      BY <1>0, <1>2, <1>3, <1>4, <2>4, <3>1, InExtentsNext, HoldersDiffer, Zenon
  <2>6. f.from = e.from /\ f.to = e.to
    BY ExtentFields
  <2>7. Tiles(Extents, nextLoc)'
    <3> HIDE DEF e, f
    <3> QED
      BY <1>1, <2>1, <2>5, <2>6, ReplaceOne, Zenon
  <2> QED
    BY <2>2, <2>3, <2>7, Zenon DEF BackendInv
<1> QED
  BY <1>5, <1>6, Zenon

(***************************************************************************)
(* The locals of a call that is over are well typed, and the other threads *)
(* keep theirs.                                                            *)
(***************************************************************************)
LEMMA ForgetTypes ==
  ASSUME BackendInv, NEW t \in Callers, Forget(t), place' = [place EXCEPT ![t] = "idle"]
  PROVE  /\ place' \in [Callers -> {"idle", "bump", "lock", "search", "change", "lockFree", "push"}]
         /\ ll' \in [Callers -> Classes] /\ offset' \in [Callers -> Offsets]
         /\ start' \in [Callers -> Offsets] /\ end' \in [Callers -> Offsets]
         /\ i' \in [Callers -> -1 .. MaxClass]
         /\ OthersStay(t) /\ place'[t] = "idle" /\ Splitting'
<1>1. 0 \in Classes /\ 0 \in Offsets /\ -1 \in -1 .. MaxClass
  BY PerThreadStorageAssumption DEF Offsets, Classes
<1>2. OthersStay(t) /\ place'[t] = "idle"
  BY Zenon DEF BackendInv, BackendTypeOK, Forget, OthersStay
<1>3. Splitting'
  BY <1>2, Zenon DEF BackendInv, Splitting, OthersStay
<1> QED
  BY <1>1, <1>2, <1>3, Zenon DEF BackendInv, BackendTypeOK, Forget

(***************************************************************************)
(* The block in a thread's hands goes to its free list.                    *)
(***************************************************************************)
LEMMA PushKeepsInv ==
  ASSUME BackendInv, NEW t \in Callers, Push(t)
  PROVE  BackendInv'
<1> DEFINE e == Block("hand", t, offset[t], ll[t])
           f == Block("free", Nobody, offset[t], ll[t])
<1>1. /\ place[t] = "push" /\ place' = [place EXCEPT ![t] = "idle"] /\ Forget(t)
      /\ freeOffsets' = [freeOffsets EXCEPT ![ll[t]] = @ \cup {offset[t]}]
      /\ freeOffsetsLock' = Nobody
      /\ UNCHANGED <<nextLoc, invalid, died, live, lost>>
  BY Zenon DEF Push, Move
<1>2. offset[t] \in Offsets /\ ll[t] \in Classes /\ freeOffsets \in [Classes -> SUBSET Offsets]
  BY Zenon DEF BackendInv, BackendTypeOK
<1>3. OthersStay(t) /\ place'[t] = "idle" /\ Splitting'
  BY <1>1, ForgetTypes, Zenon
<1>4. BackendTypeOK'
  <2>1. freeOffsets' \in [Classes -> SUBSET Offsets]
    BY <1>1, <1>2, Zenon
  <2> QED
    BY <1>1, <2>1, ForgetTypes, Zenon DEF BackendInv, BackendTypeOK
<1>5. e \in Extents
  BY <1>1, BlocksInPage, Zenon
<1>6. ASSUME NEW r PROVE r \in Extents' <=> r = f \/ (r \in Extents /\ r # e)
  <2>1. r \in FreeExtents(freeOffsets') <=> r = f \/ r \in FreeExtents(freeOffsets)
    BY <1>1, <1>2, FreeAdded, Zenon
  <2>2. (Held(t, r) <=> r = e) /\ ~Held(t, r)' /\ (LostIs(r)' <=> LostIs(r))
    BY <1>1, <1>3, Zenon DEF Held, LostIs
  <2>3. e.who = "hand" /\ e.by = t
    BY ExtentFields, SMTT(60)
  <2> HIDE DEF e, f
  <2> QED
    BY <1>1, <1>3, <2>1, <2>2, <2>3, InExtentsNext, HoldersDiffer, Zenon
<1>7. f.from = e.from /\ f.to = e.to
  BY ExtentFields, SMTT(60)
<1>8. Tiles(Extents, nextLoc)'
  <2> HIDE DEF e, f
  <2> QED
    BY <1>1, <1>5, <1>6, <1>7, ReplaceOne, Zenon
<1> QED
  BY <1>3, <1>4, <1>8, Zenon DEF BackendInv

(***************************************************************************)
(* A free block of the class becomes an object; a larger one is cut in the *)
(* block to return and a rest.                                             *)
(***************************************************************************)
LEMMA SearchKeepsInv ==
  ASSUME BackendInv, NEW t \in Callers, Search(t)
  PROVE  BackendInv'
<1> DEFINE k == ll[t]
<1>0. /\ k \in Classes /\ freeOffsets \in [Classes -> SUBSET Offsets]
      /\ live \in SUBSET (Offsets \X Classes)
  BY Zenon DEF BackendInv, BackendTypeOK
<1>1. ASSUME Move(t, "search", "idle"), Forget(t), freeOffsetsLock' = Nobody,
             UNCHANGED <<nextLoc, invalid, died, lost>>,
             NEW o \in freeOffsets[k],
             freeOffsets' = [freeOffsets EXCEPT ![k] = @ \ {o}],
             live' = live \cup {<<o, k>>}
      PROVE  BackendInv'
  <2> DEFINE e == Block("free", Nobody, o, k)
             f == Block("object", Nobody, o, k)
  <2>1. place[t] = "search" /\ place' = [place EXCEPT ![t] = "idle"]
    BY <1>1, Zenon DEF Move
  <2>2. OthersStay(t) /\ place'[t] = "idle" /\ Splitting'
    BY <1>1, <2>1, ForgetTypes, Zenon
  <2>3. o \in Offsets /\ <<o, k>> \in Offsets \X Classes
    BY <1>0, <1>1, Zenon
  <2>4. BackendTypeOK'
    <3>1. freeOffsets' \in [Classes -> SUBSET Offsets]
      BY <1>0, <1>1, Zenon
    <3> QED
      BY <1>0, <1>1, <2>1, <2>3, <3>1, ForgetTypes, Zenon DEF BackendInv, BackendTypeOK
  <2>5. e \in Extents
    BY <1>0, <1>1, BlocksInPage, Zenon
  <2>6. ASSUME NEW r PROVE r \in Extents' <=> r = f \/ (r \in Extents /\ r # e)
    <3>1. r \in FreeExtents(freeOffsets') <=> r # e /\ r \in FreeExtents(freeOffsets)
      BY <1>0, <1>1, <2>3, FreeRemoved, Zenon
    <3>2. r \in ObjectExtents(live') <=> r = f \/ r \in ObjectExtents(live)
      BY <1>1, ObjectAdded, Zenon
    <3>3. ~Held(t, r) /\ ~Held(t, r)' /\ (LostIs(r)' <=> LostIs(r))
      BY <1>1, <2>1, <2>2, Zenon DEF Held, LostIs
    <3>4. e.who = "free"
      BY ExtentFields
    <3> HIDE DEF e, f
    <3> QED
      BY <2>2, <3>1, <3>2, <3>3, <3>4, InExtentsNext, HoldersDiffer, Zenon
  <2>7. f.from = e.from /\ f.to = e.to
    BY ExtentFields, SMTT(60)
  <2>8. Tiles(Extents, nextLoc)'
    <3> HIDE DEF e, f
    <3> QED
      BY <1>1, <2>5, <2>6, <2>7, ReplaceOne, Zenon
  <2> QED
    BY <2>2, <2>4, <2>8, Zenon DEF BackendInv
<1>2. ASSUME Die(t, "search")
      PROVE  BackendInv'
  <2>1. BackendTypeOK'
    BY <1>2, Zenon DEF BackendInv, BackendTypeOK, Die, Move, loop
  <2> QED
    BY <1>2, <2>1, SameExtents, Zenon DEF BackendInv, BackendTypeOK, Die, Move, loop
<1>3. ASSUME NEW index \in k + 1 .. MaxClass, Move(t, "search", "change"),
             NEW o \in freeOffsets[index],
             freeOffsets' = [freeOffsets EXCEPT ![index] = @ \ {o}],
             offset' = [offset EXCEPT ![t] = o],
             start' = [start EXCEPT ![t] = ChangeFrom(o, k)],
             end' = [end EXCEPT ![t] = o + Size[index]],
             i' = [i EXCEPT ![t] = index - 1],
             UNCHANGED <<nextLoc, freeOffsetsLock, invalid, died, live, lost, ll>>
      PROVE  BackendInv'
  <2> DEFINE e == Block("free", Nobody, o, index)
             f == Block("hand", t, o, k)
             g == Extent("rest", t, o + Size[k], o + Size[index])
  <2>1. place[t] = "search" /\ place' = [place EXCEPT ![t] = "change"]
    BY <1>3, Zenon DEF Move
  <2>2. /\ index \in Classes /\ o \in Offsets /\ k < index /\ o + Size[index] <= Page
        /\ k \in 0 .. MaxClass /\ MaxClass \in Nat /\ Page \in Nat
    <3>1. MaxClass \in Nat /\ Page \in Nat /\ k \in 0 .. MaxClass
      BY <1>0, PerThreadStorageAssumption, Zenon DEF Classes
    <3>2. index \in Classes /\ k < index
      <4>1. index \in k + 1 .. MaxClass
        BY <1>3, Zenon
      <4> QED
        BY <3>1, <4>1 DEF Classes
    <3>3. o \in Offsets
      BY <1>0, <1>3, <3>2, Zenon
    <3> QED
      BY <1>3, <3>1, <3>2, <3>3, BlocksInPage, Zenon
  <2>3. Size[k] \in Nat /\ Size[k] > 0 /\ Size[index] \in Nat /\ Size[k] < Size[index]
    BY <1>0, <2>2, Sizes, Zenon
  <2>4. o + Size[k] \in Offsets /\ o + Size[index] \in Offsets /\ index - 1 \in -1 .. MaxClass
    BY <2>2, <2>3 DEF Offsets, Classes
  <2>5. BackendTypeOK'
    <3>1. freeOffsets' \in [Classes -> SUBSET Offsets]
      BY <1>0, <1>3, Zenon
    <3> QED
      BY <1>3, <2>1, <2>2, <2>4, <3>1, Zenon DEF BackendInv, BackendTypeOK, ChangeFrom
  <2>6. OthersStay(t)
    BY <1>3, <2>1, Zenon DEF BackendInv, BackendTypeOK, OthersStay
  <2>7. /\ place'[t] = "change" /\ offset'[t] = o /\ ll'[t] = k
        /\ start'[t] = o + Size[k] /\ end'[t] = o + Size[index] /\ i'[t] = index - 1
    BY <1>3, <2>1, Zenon DEF BackendInv, BackendTypeOK, ChangeFrom
  <2>8. Splitting'
    <3>1. ll'[t] <= i'[t] + 1 /\ i'[t] + 1 <= MaxClass
          /\ end'[t] - start'[t] = Size[i'[t] + 1] - Size[ll'[t]]
      <4>1. (index - 1) + 1 = index /\ o \in Int
        BY <2>2 DEF Offsets, Classes
      <4> QED
        BY <2>2, <2>3, <2>7, <4>1, SMTT(60)
    <3> QED
      BY <2>6, <3>1, Zenon DEF BackendInv, Splitting, OthersStay
  <2>9. e \in Extents
    BY <2>2, <1>3, BlocksInPage, Zenon
  <2>10. ASSUME NEW r PROVE r \in Extents' <=> r = f \/ r = g \/ (r \in Extents /\ r # e)
    <3>1. r \in FreeExtents(freeOffsets') <=> r # e /\ r \in FreeExtents(freeOffsets)
      BY <1>0, <1>3, <2>2, FreeRemoved, Zenon
    <3>2. o + Size[k] < o + Size[index]
      BY <2>2, <2>3, SMTT(60) DEF Offsets
    <3>3. ~Held(t, r) /\ (Held(t, r)' <=> r = f \/ r = g) /\ (LostIs(r)' <=> LostIs(r))
      BY <1>3, <2>1, <2>7, <3>2, Zenon DEF Held, LostIs
    <3>4. e.who = "free" /\ live' = live
      <4>1. e.who = "free"
        BY DEF Block, Extent
      <4> QED
        BY <1>3, <4>1, Zenon
    <3> HIDE DEF e, f, g
    <3> QED
      BY <2>6, <3>1, <3>3, <3>4, InExtentsNext, HoldersDiffer, Zenon
  <2>11. /\ f.to \in Int /\ f.from = e.from /\ f.to = g.from /\ g.to = e.to
         /\ f.from < f.to /\ g.from < g.to
    <3>1. /\ e.from = o /\ e.to = o + Size[index] /\ f.from = o /\ f.to = o + Size[k]
          /\ g.from = o + Size[k] /\ g.to = o + Size[index]
      BY DEF Block, Extent
    <3>2. o + Size[k] \in Int /\ o < o + Size[k] /\ o + Size[k] < o + Size[index]
      BY <2>2, <2>3 DEF Offsets
    <3> HIDE DEF e, f, g
    <3> QED
      BY <3>1, <3>2, Zenon
  <2>12. Tiles(Extents, nextLoc)'
    <3> HIDE DEF e, f, g
    <3> QED
      BY <1>3, <2>9, <2>10, <2>11, ReplaceTwo, Zenon
  <2> QED
    BY <2>5, <2>8, <2>12, Zenon DEF BackendInv
<1>4. CASE Index(k) = k
  <2>1. k # MaxClass + 1 /\ ~(k > MaxClass) /\ k \notin k + 1 .. MaxClass
    BY <1>0, PerThreadStorageAssumption, SMTT(60) DEF Classes
  <2> QED
    BY <1>1, <1>4, <2>1, Zenon DEF Search
<1>5. CASE Index(k) # k
  BY <1>2, <1>3, <1>5, Zenon DEF Search
<1> QED
  BY <1>4, <1>5, Zenon

(***************************************************************************)
(* A turn of the splitting loop cuts a free block off the rest, the last   *)
(* one uses it up; then the block in hand is the new object.               *)
(***************************************************************************)
LEMMA ChangeKeepsInv ==
  ASSUME BackendInv, NEW t \in Callers, Change(t)
  PROVE  BackendInv'
<1> DEFINE k == ll[t]
           j == i[t]
<1>0. /\ k \in Classes /\ freeOffsets \in [Classes -> SUBSET Offsets]
      /\ live \in SUBSET (Offsets \X Classes) /\ offset[t] \in Offsets
      /\ start[t] \in Offsets /\ end[t] \in Offsets /\ j \in -1 .. MaxClass
      /\ Page \in Nat /\ MaxClass \in Nat
  BY PerThreadStorageAssumption, Zenon DEF BackendInv, BackendTypeOK
<1>1. place[t] = "change"
  BY Zenon DEF Change, Move
<1>2. k <= j + 1 /\ j + 1 <= MaxClass /\ end[t] - start[t] = Size[j + 1] - Size[k]
  BY <1>1, Zenon DEF BackendInv, Splitting
<1>3. CASE start[t] < end[t]
  <2> DEFINE e == Extent("rest", t, start[t], end[t])
             f == Block("free", Nobody, start[t], j)
             g == Extent("rest", t, start[t] + Size[j], end[t])
  <2>1. /\ freeOffsets' = [freeOffsets EXCEPT ![j] = @ \cup {start[t]}]
        /\ start' = [start EXCEPT ![t] = @ + Size[j]] /\ i' = [i EXCEPT ![t] = @ - 1]
        /\ place' = [place EXCEPT ![t] = "change"]
        /\ UNCHANGED <<nextLoc, freeOffsetsLock, invalid, died, live, lost, ll, offset, end>>
    <3>1. ~(start[t] >= end[t])
      BY <1>0, <1>3 DEF Offsets
    <3> QED
      BY <3>1, Zenon DEF Change, Move
  <2>2. start[t] \in Int /\ end[t] \in Int /\ k \in 0 .. MaxClass
    BY <1>0, SMTT(60) DEF Offsets, Classes
  <2>3. Size[k] \in Nat /\ Size[k] > 0 /\ Size[j + 1] \in Nat /\ j + 1 \in 0 .. MaxClass + 1
    <3>1. k \in 0 .. MaxClass + 1 /\ j + 1 \in 0 .. MaxClass + 1
      BY <1>0, <1>2, <2>2
    <3> QED
      BY <3>1, Sizes, Zenon
  <2>4. j \in Classes /\ k <= j
    <3>1. k # j + 1
      BY <1>2, <1>3, <2>2, <2>3, SMTT(60)
    <3> QED
      BY <1>0, <1>2, <2>2, <3>1, SMTT(60) DEF Classes
  <2>5. Size[j] \in Nat /\ Size[j] > 0 /\ Size[k] <= Size[j] /\ Size[j + 1] = 2 * Size[j]
    BY <1>0, <2>4, Sizes, Zenon
  <2>6. start[t] + Size[j] <= end[t] /\ (end[t] - (start[t] + Size[j]) = Size[j] - Size[k])
    BY <1>2, <2>2, <2>3, <2>5, SMTT(60)
  <2>7. start[t] + Size[j] \in Offsets /\ j - 1 \in -1 .. MaxClass
    <3>1. 0 <= start[t] /\ end[t] <= Page
      BY <1>0 DEF Offsets
    <3>2. start[t] + Size[j] \in Offsets
      BY <1>0, <2>2, <2>5, <2>6, <3>1, SMTT(60) DEF Offsets
    <3> QED
      BY <1>0, <2>4, <3>2, SMTT(60) DEF Classes
  <2>8. BackendTypeOK'
    <3>1. freeOffsets' \in [Classes -> SUBSET Offsets]
      BY <1>0, <2>1, Zenon
    <3> QED
      BY <2>1, <2>7, <3>1, Zenon DEF BackendInv, BackendTypeOK
  <2>9. OthersStay(t)
    BY <2>1, Zenon DEF BackendInv, BackendTypeOK, OthersStay
  <2>10. /\ place'[t] = "change" /\ offset'[t] = offset[t] /\ ll'[t] = k
         /\ start'[t] = start[t] + Size[j] /\ end'[t] = end[t] /\ i'[t] = j - 1
    BY <2>1, Zenon DEF BackendInv, BackendTypeOK
  <2>11. Splitting'
    <3>1. ll'[t] <= i'[t] + 1 /\ i'[t] + 1 <= MaxClass
          /\ end'[t] - start'[t] = Size[i'[t] + 1] - Size[ll'[t]]
      <4>1. (j - 1) + 1 = j /\ j <= MaxClass
        BY <1>0
      <4> QED
        BY <2>4, <2>6, <2>10, <4>1, Zenon
    <3> QED
      BY <2>9, <3>1, Zenon DEF BackendInv, Splitting, OthersStay
  <2>12. e \in Extents /\ e.who = "rest" /\ e.by = t
    <3>1. e.who = "rest" /\ e.by = t
      BY DEF Extent
    <3> QED
      BY <1>1, <1>3, <3>1, BlocksInPage, Zenon
  <2>13. ASSUME NEW r PROVE r \in FreeExtents(freeOffsets') <=> r = f \/ r \in FreeExtents(freeOffsets)
    BY <1>0, <2>1, <2>4, FreeAdded, Zenon
  <2>14. ASSUME NEW r
         PROVE  /\ LostIs(r)' <=> LostIs(r)
                /\ Held(t, r) <=> r = Block("hand", t, offset[t], k) \/ r = e
                /\ Held(t, r)' <=>
                     \/ r = Block("hand", t, offset[t], k)
                     \/ start[t] + Size[j] < end[t] /\ r = g
    BY <1>1, <1>3, <2>1, <2>10, Zenon DEF Held, LostIs
  <2>15. Block("hand", t, offset[t], k) # e
    <3>1. Block("hand", t, offset[t], k).who = "hand" /\ e.who = "rest"
      BY DEF Extent, Block
    <3>2. "hand" # "rest"
      OBVIOUS
    <3> HIDE DEF e
    <3> QED
      BY <3>1, <3>2, Zenon
  <2>16. CASE start[t] + Size[j] < end[t]
    <3>1. ASSUME NEW r PROVE r \in Extents' <=> r = f \/ r = g \/ (r \in Extents /\ r # e)
      <4> HIDE DEF e, f, g
      <4> QED
        BY <2>1, <2>9, <2>12, <2>13, <2>14, <2>15, <2>16, InExtentsNext, HoldersDiffer, Zenon
    <3>2. /\ f.to \in Int /\ f.from = e.from /\ f.to = g.from /\ g.to = e.to
          /\ f.from < f.to /\ g.from < g.to
      <4>1. /\ f.from = start[t] /\ f.to = start[t] + Size[j] /\ g.from = start[t] + Size[j] /\ g.to = end[t]
            /\ e.from = start[t] /\ e.to = end[t]
        BY DEF Extent, Block
      <4> HIDE DEF e, f, g
      <4> QED
        BY <2>2, <2>5, <2>16, <4>1
    <3>3. Tiles(Extents, nextLoc)'
      <4> HIDE DEF e, f, g
      <4> QED
        BY <2>1, <2>12, <3>1, <3>2, ReplaceTwo, Zenon
    <3> QED
      BY <2>8, <2>11, <3>3, Zenon DEF BackendInv
  <2>17. CASE start[t] + Size[j] = end[t]
    <3>1. ASSUME NEW r PROVE r \in Extents' <=> r = f \/ (r \in Extents /\ r # e)
      <4>1. ~(start[t] + Size[j] < end[t])
        BY <2>2, <2>17
      <4> HIDE DEF e, f, g
      <4> QED
        BY <2>1, <2>9, <2>12, <2>13, <2>14, <2>15, <4>1, InExtentsNext, HoldersDiffer, Zenon
    <3>2. f.from = e.from /\ f.to = e.to
      <4>1. /\ e.from = start[t] /\ e.to = end[t] /\ f.from = start[t] /\ f.to = start[t] + Size[j]
        BY DEF Block, Extent
      <4> HIDE DEF e, f
      <4> QED
        BY <2>17, <4>1, Zenon
    <3>3. Tiles(Extents, nextLoc)'
      <4> HIDE DEF e, f, g
      <4> QED
        BY <2>1, <2>12, <3>1, <3>2, ReplaceOne, Zenon
    <3> QED
      BY <2>8, <2>11, <3>3, Zenon DEF BackendInv
  <2> QED
    BY <2>2, <2>5, <2>6, <2>16, <2>17, SMTT(60)
<1>4. CASE ~(start[t] < end[t])
  <2> DEFINE e == Block("hand", t, offset[t], k)
             f == Block("object", Nobody, offset[t], k)
  <2>1. /\ place' = [place EXCEPT ![t] = "idle"] /\ Forget(t)
        /\ live' = live \cup {<<offset[t], k>>} /\ freeOffsetsLock' = Nobody
        /\ UNCHANGED <<nextLoc, freeOffsets, invalid, died, lost>>
    BY <1>0, <1>4, Zenon DEF Change, Move, Offsets
  <2>2. OthersStay(t) /\ place'[t] = "idle" /\ Splitting'
    BY <2>1, ForgetTypes, Zenon
  <2>3. BackendTypeOK'
    <3>1. <<offset[t], k>> \in Offsets \X Classes
      BY <1>0, Zenon
    <3> QED
      BY <1>0, <2>1, <3>1, ForgetTypes, Zenon DEF BackendInv, BackendTypeOK
  <2>4. e \in Extents /\ e.who = "hand" /\ e.by = t
    BY <1>1, BlocksInPage, ExtentFields, SMTT(60)
  <2>5. ASSUME NEW r PROVE r \in Extents' <=> r = f \/ (r \in Extents /\ r # e)
    <3>1. r \in ObjectExtents(live') <=> r = f \/ r \in ObjectExtents(live)
      BY <2>1, ObjectAdded, Zenon
    <3>2. (Held(t, r) <=> r = e) /\ ~Held(t, r)' /\ (LostIs(r)' <=> LostIs(r))
      BY <1>1, <1>4, <2>1, <2>2, Zenon DEF Held, LostIs
    <3> HIDE DEF e, f
    <3> QED
      BY <2>1, <2>2, <2>4, <3>1, <3>2, InExtentsNext, HoldersDiffer, Zenon
  <2>6. f.from = e.from /\ f.to = e.to
    BY ExtentFields, SMTT(60)
  <2>7. Tiles(Extents, nextLoc)'
    <3> HIDE DEF e, f
    <3> QED
      BY <2>1, <2>4, <2>5, <2>6, ReplaceOne, Zenon
  <2> QED
    BY <2>2, <2>3, <2>7, Zenon DEF BackendInv
<1> QED
  BY <1>3, <1>4, Zenon

--------------------------------------------------------------------------------
\* A fresh page has no extents.
LEMMA BackendInitInv == BackendInit => BackendInv
<1> SUFFICES ASSUME BackendInit
             PROVE  BackendInv
  BY Zenon
<1>0. 0 \in Classes /\ 0 \in Offsets /\ Page \in Offsets /\ -1 \in -1 .. MaxClass
  BY PerThreadStorageAssumption DEF Offsets, Classes
<1>1. BackendTypeOK
  BY <1>0, Zenon DEF BackendInit, BackendTypeOK
<1>2. ASSUME NEW r PROVE r \notin Extents
  BY Zenon DEF Extents, BackendInit
<1>3. Tiles(Extents, nextLoc)
  BY <1>2 DEF Tiles, Proper, Apart, Bounded, Covers, BackendInit
<1>4. Splitting
  BY Zenon DEF Splitting, BackendInit
<1> QED
  BY <1>1, <1>3, <1>4, Zenon DEF BackendInv

\* Every step of allocOffset and deallocOffset keeps the tiling.
LEMMA BackendNextInv == BackendInv /\ [BackendNext]_backendVars => BackendInv'
<1> SUFFICES ASSUME BackendInv, [BackendNext]_backendVars
             PROVE  BackendInv'
  BY Zenon
<1>1. CASE UNCHANGED backendVars
  <2>1. BackendTypeOK'
    BY <1>1, Zenon DEF BackendInv, BackendTypeOK, backendVars, heap, loop
  <2> QED
    BY <1>1, <2>1, SameExtents, Zenon DEF BackendInv, backendVars, heap, loop
<1>2. ASSUME NEW t \in Callers, NEW sz \in 1 .. Size[MaxClass], Alloc(t, sz)
      PROVE  BackendInv'
  BY <1>2, AllocKeepsInv, Zenon
<1>3. ASSUME NEW t \in Callers, NEW block \in live, Dealloc(t, block[1], block[2])
      PROVE  BackendInv'
  BY <1>3, DeallocKeepsInv, Zenon
<1>4. ASSUME NEW t \in Callers, BackendStep(t)
      PROVE  BackendInv'
  BY <1>4, BumpKeepsInv, LockKeepsInv, SearchKeepsInv, ChangeKeepsInv, PushKeepsInv, Zenon
     DEF BackendStep
<1>5. CASE Destroy
  BY <1>5, DestroyKeepsInv, Zenon
<1> QED
  BY <1>1, <1>2, <1>3, <1>4, <1>5, Zenon DEF BackendNext

(***************************************************************************)
(* PerBackend hands out disjoint blocks and forgets no line but a lost     *)
(* tail, for every page, every number of classes and any number of threads *)
(* in allocOffset and deallocOffset at once.                               *)
(***************************************************************************)
THEOREM BlocksAlwaysTile == BackendSpec => []BlocksTile
<1>1. BackendInv => BlocksTile
  BY Zenon DEF BackendInv, BlocksTile, Tiles, Apart, Bounded, Covers
<1> QED
  BY <1>1, BackendInitInv, BackendNextInv, PTL DEF BackendSpec

================================================================================
