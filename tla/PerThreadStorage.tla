--------------------------- MODULE PerThreadStorage ----------------------------
(***************************************************************************)
(* The allocator of per-thread storage: PerBackend of                      *)
(* libgalois/src/PerThreadStorage.cpp. Every PerThreadStorage object owns  *)
(* the same range of offsets in a page of every thread. The page is        *)
(* measured in cache lines, so class k stands for blocks of 1 << MIN_SIZE+k*)
(* bytes. Offsets come from a bump pointer that moves without a lock, or   *)
(* from free lists under freeOffsetsLock. Each access to nextLoc is a step *)
(* and so is each turn of the loop that splits a block.                    *)
(***************************************************************************)
EXTENDS Integers

CONSTANTS Callers, Nobody,
          Page,      \* ptAllocSize, in cache lines
          MaxClass,  \* the largest class, MAX_SIZE - 1 - MIN_SIZE
          Size       \* Size[k]: the lines of a block of class k, 1 << k

Classes == 0 .. MaxClass

ASSUME PerThreadStorageAssumption ==
  /\ Nobody \notin Callers
  /\ Page \in Nat
  /\ MaxClass \in Nat
  /\ Size \in [0 .. MaxClass + 1 -> Nat \ {0}]
  /\ \A k \in Classes : Size[k + 1] = 2 * Size[k]
  /\ \A j, k \in 0 .. MaxClass + 1 : j < k => Size[j] < Size[k]

Offsets == 0 .. Page

VARIABLES nextLoc,          \* the bump pointer
          freeOffsets,      \* the free blocks of each class
          freeOffsetsLock,  \* who holds the lock
          invalid,          \* the backend has been destroyed
          died,             \* GALOIS_DIE has ended the process
          live,             \* the blocks, <<offset, class>>, of the objects that exist
          lost,             \* where a bump pointer that overshot began, or Page
          place, ll,           \* where each thread is, and the class it is about
          offset,           \* the offset it holds
          start, end, i     \* the locals of the splitting loop

heap == <<nextLoc, freeOffsets, freeOffsetsLock, invalid, died, live, lost>>
loop == <<start, end, i>>
backendVars == <<heap, place, ll, offset, loop>>

BackendTypeOK ==
  /\ nextLoc \in Nat
  /\ freeOffsets \in [Classes -> SUBSET Offsets]
  /\ freeOffsetsLock \in Callers \cup {Nobody}
  /\ invalid \in BOOLEAN
  /\ died \in BOOLEAN
  /\ live \in SUBSET (Offsets \X Classes)
  /\ lost \in Offsets
  /\ place \in [Callers -> {"idle", "bump", "lock", "search", "change", "lockFree", "push"}]
  /\ ll \in [Callers -> Classes]
  /\ offset \in [Callers -> Offsets]
  /\ start \in [Callers -> Offsets]
  /\ end \in [Callers -> Offsets]
  /\ i \in [Callers -> -1 .. MaxClass]

\* PerBackend()
BackendInit ==
  /\ nextLoc = 0
  /\ freeOffsets = [k \in Classes |-> {}]
  /\ freeOffsetsLock = Nobody
  /\ invalid = FALSE
  /\ died = FALSE
  /\ live = {}
  /\ lost = Page
  /\ place = [t \in Callers |-> "idle"]
  /\ ll = [t \in Callers |-> 0]
  /\ offset = [t \in Callers |-> 0]
  /\ start = [t \in Callers |-> 0]
  /\ end = [t \in Callers |-> 0]
  /\ i = [t \in Callers |-> -1]

Move(t, from, to) ==
  /\ ~died
  /\ place[t] = from
  /\ place' = [place EXCEPT ![t] = to]

\* nextLog2: the smallest class that holds sz lines
nextLog2(sz) == CHOOSE k \in Classes : sz <= Size[k] /\ \A j \in Classes : j < k => Size[j] < sz

\* allocOffset(sz): the test before the bump
Alloc(t, sz) ==
  LET k == nextLog2(sz)
  IN  /\ Move(t, "idle", IF nextLoc + Size[k] <= Page THEN "bump" ELSE "lock")
      /\ ll' = [ll EXCEPT ![t] = k]
      /\ UNCHANGED <<heap, offset, loop>>

\* A call is over and its locals are gone.
Forget(t) ==
  /\ ll' = [ll EXCEPT ![t] = 0]
  /\ offset' = [offset EXCEPT ![t] = 0]
  /\ start' = [start EXCEPT ![t] = 0]
  /\ end' = [end EXCEPT ![t] = 0]
  /\ i' = [i EXCEPT ![t] = -1]

Fits_Unchecked(o, k) == o < Page

\* offset + size <= ptAllocSize, with the offset that fetch_add returned
Fits(o, k) == o + Size[k] <= Page

\* nextLoc.fetch_add(size): the pointer may have moved since the test
Bump(t) ==
  LET k == ll[t]
  IN  /\ nextLoc' = nextLoc + Size[k]
      /\ \/ /\ Fits(nextLoc, k)
            /\ Move(t, "bump", "idle")
            /\ live' = live \cup {<<nextLoc, k>>}
            /\ Forget(t)
            /\ UNCHANGED lost
         \/ /\ ~Fits(nextLoc, k)
            /\ Move(t, "bump", "lock")
            /\ lost' = IF nextLoc < lost THEN nextLoc ELSE lost
            /\ UNCHANGED <<live, ll, offset, loop>>
      /\ UNCHANGED <<freeOffsets, freeOffsetsLock, invalid, died>>

\* GALOIS_DIE
Die(t, from) ==
  /\ Move(t, from, from)
  /\ died' = TRUE
  /\ UNCHANGED <<nextLoc, freeOffsets, freeOffsetsLock, invalid, live, lost, ll, offset, loop>>

\* if (invalid) GALOIS_DIE, or the lock of freeOffsets
Lock(t, from, to) ==
  \/ invalid /\ Die(t, from)
  \/ /\ ~invalid
     /\ freeOffsetsLock = Nobody
     /\ Move(t, from, to)
     /\ freeOffsetsLock' = t
     /\ UNCHANGED <<nextLoc, freeOffsets, invalid, died, live, lost, ll, offset, loop>>

\* The first class from ll on with a free block; MAX_SIZE if there is none.
Index(k) ==
  LET filled == {j \in Classes : j >= k /\ freeOffsets[j] # {}}
  IN  IF filled = {} THEN MaxClass + 1 ELSE CHOOSE j \in filled : \A m \in filled : j <= m

\* start = offset + size
ChangeFrom(o, k) == o + Size[k]

\* Under the lock: a free block of the class, a larger one to split, or none
Search(t) ==
  LET k == ll[t]
      index == Index(k)
  IN  \/ /\ index = k
         /\ Move(t, "search", "idle")
         /\ \E o \in freeOffsets[k] :
              /\ freeOffsets' = [freeOffsets EXCEPT ![k] = @ \ {o}]
              /\ live' = live \cup {<<o, k>>}
         /\ freeOffsetsLock' = Nobody
         /\ Forget(t)
         /\ UNCHANGED <<nextLoc, invalid, died, lost>>
      \/ /\ index > MaxClass
         /\ Die(t, "search")
      \/ /\ index \in k + 1 .. MaxClass
         /\ Move(t, "search", "change")
         /\ \E o \in freeOffsets[index] :
              /\ freeOffsets' = [freeOffsets EXCEPT ![index] = @ \ {o}]
              /\ offset' = [offset EXCEPT ![t] = o]
              /\ start' = [start EXCEPT ![t] = ChangeFrom(o, k)]
              /\ end' = [end EXCEPT ![t] = o + Size[index]]
         /\ i' = [i EXCEPT ![t] = index - 1]
         /\ UNCHANGED <<nextLoc, freeOffsetsLock, invalid, died, live, lost, ll>>

\* One turn of the splitting loop, or its end and the return of the offset
Change(t) ==
  \/ /\ start[t] < end[t]
     /\ Move(t, "change", "change")
     /\ freeOffsets' = [freeOffsets EXCEPT ![i[t]] = @ \cup {start[t]}]
     /\ start' = [start EXCEPT ![t] = @ + Size[i[t]]]
     /\ i' = [i EXCEPT ![t] = @ - 1]
     /\ UNCHANGED <<nextLoc, freeOffsetsLock, invalid, died, live, lost, ll, offset, end>>
  \/ /\ start[t] >= end[t]
     /\ Move(t, "change", "idle")
     /\ live' = live \cup {<<offset[t], ll[t]>>}
     /\ freeOffsetsLock' = Nobody
     /\ Forget(t)
     /\ UNCHANGED <<nextLoc, freeOffsets, invalid, died, lost>>

\* expected = offset + size
AtEnd(o, k) == nextLoc = o + Size[k]

\* deallocOffset(offset, sz) by the destructor of an object, up to the
\* compare-exchange
Dealloc(t, o, k) ==
  /\ <<o, k>> \in live
  /\ live' = live \ {<<o, k>>}
  /\ \/ /\ AtEnd(o, k)
        /\ Move(t, "idle", "idle")
        /\ nextLoc' = o
        /\ UNCHANGED <<ll, offset>>
     \/ /\ ~AtEnd(o, k)
        /\ Move(t, "idle", "lockFree")
        /\ ll' = [ll EXCEPT ![t] = k]
        /\ offset' = [offset EXCEPT ![t] = o]
        /\ UNCHANGED nextLoc
  /\ UNCHANGED <<freeOffsets, freeOffsetsLock, invalid, died, lost, loop>>

\* freeOffsets[ll].push_back(offset)
Push(t) ==
  /\ Move(t, "push", "idle")
  /\ freeOffsets' = [freeOffsets EXCEPT ![ll[t]] = @ \cup {offset[t]}]
  /\ freeOffsetsLock' = Nobody
  /\ Forget(t)
  /\ UNCHANGED <<nextLoc, invalid, died, live, lost>>

\* ~PerBackend, when the static objects of the process are destroyed
Destroy ==
  /\ ~invalid /\ ~died
  /\ \A t \in Callers : place[t] = "idle"
  /\ invalid' = TRUE
  /\ UNCHANGED <<nextLoc, freeOffsets, freeOffsetsLock, died, live, lost, place, ll, offset, loop>>

BackendStep(t) ==
  \/ Bump(t) \/ Lock(t, "lock", "search") \/ Search(t) \/ Change(t)
  \/ Lock(t, "lockFree", "push") \/ Push(t)

BackendNext ==
  \/ \E t \in Callers :
       \/ \E sz \in 1 .. Size[MaxClass] : Alloc(t, sz)
       \/ \E block \in live : Dealloc(t, block[1], block[2])
       \/ BackendStep(t)
  \/ Destroy

BackendSpec == BackendInit /\ [][BackendNext]_backendVars

--------------------------------------------------------------------------------
\* The lines of the page that something holds: the objects, the free lists, a
\* thread inside a call, and the tail that an overshot pointer lost.
Extent(who, by, from, to) == [who |-> who, by |-> by, from |-> from, to |-> to]

Extents ==
  {Extent("object", Nobody, b[1], b[1] + Size[b[2]]) : b \in live}
  \cup {Extent("free", Nobody, b[1], b[1] + Size[b[2]]) :
          b \in {c \in Offsets \X Classes : c[1] \in freeOffsets[c[2]]}}
  \cup {Extent("hand", t, offset[t], offset[t] + Size[ll[t]]) :
          t \in {u \in Callers : place[u] \in {"change", "lockFree", "push"}}}
  \cup {Extent("rest", t, start[t], end[t]) :
          t \in {u \in Callers : place[u] = "change" /\ start[u] < end[u]}}
  \cup {Extent("lost", Nobody, l, Page) : l \in {lost} \ {Page}}

Disjoint(e, f) == e.to <= f.from \/ f.to <= e.from

(***************************************************************************)
(* The extents tile the used part of the page at every moment: no two      *)
(* objects, free blocks or blocks in flight share a line, however bumps    *)
(* that overshoot, deallocations at the end and splits interleave, and no  *)
(* line is forgotten but the tail that an overshot pointer lost. The types *)
(* are part of the invariant.                                              *)
(***************************************************************************)
BlocksTile ==
  /\ BackendTypeOK
  /\ \A e, f \in Extents : e # f => Disjoint(e, f)
  /\ \A e \in Extents : 0 <= e.from /\ e.from < e.to /\ e.to <= Page /\ e.to <= nextLoc
  /\ \A l \in 0 .. Page - 1 : l < nextLoc => \E e \in Extents : e.from <= l /\ l < e.to

================================================================================
