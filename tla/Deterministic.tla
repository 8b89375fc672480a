----------------------------- MODULE Deterministic -----------------------------
(***************************************************************************)
(* The deterministic scheduler: Executor of                                *)
(* libgalois/include/galois/runtime/Executor_Deterministic.h, without      *)
(* det_id, fixed_neighborhood and det_parallel_break. In a round every     *)
(* item of the window first visits its neighborhood; the locks go to the   *)
(* smallest id, which steals them from larger ones, and an item that lost  *)
(* a lock waits for the next round. The barriers keep the promise of       *)
(* BarrierSpec, so that all threads leave one in the step in which the     *)
(* last arrives; leaving has no other effect.                              *)
(***************************************************************************)
EXTENDS Naturals, Sequences, SequencesExt

CONSTANTS N,                          \* numActive
          Initial,                    \* the range of the loop
          Creates,                    \* Creates[x]: the sequence of items that x pushes
          Lockables,
          Operators,                  \* the operators to run
          MinDelta, InitialNumRounds  \* of OptionsCommon

Threads == 0 .. N - 1
Items == DOMAIN Creates
None == "none"
Nobody == <<None, None>>

VARIABLES op,             \* op.intentToRead, op.nhood[x]: what x acquires, in order
          id,             \* DItem::id
          worklist, reserve,   \* what each thread has to pop, and has put aside
          pending,        \* the contexts each thread has emplaced
          notReady,       \* the items whose context is not ready
          owner, locker,  \* of a Lockable: its owner and the context that has it in its list
          pc, ctx, rest, other,   \* a thread's context, what it has yet to acquire
          window, delta, committed, iterations,   \* WindowManager
          new,            \* the new items with the ids of their parents and counts
          innerDone, outerDone, hasNewWork, tldNewWork,
          round, done     \* history: the items of this round; those that committed

locks == <<owner, locker>>
windows == <<window, delta, committed, iterations>>
flags == <<innerDone, outerDone, hasNewWork, tldNewWork>>
regs == <<ctx, rest, other>>
vars == <<op, id, worklist, reserve, pending, notReady, locks, pc, regs, windows, new, flags,
          round, done>>

PerThread(v) == [t \in Threads |-> v]
Set(f, t, v) == f' = [f EXCEPT ![t] = v]
Goto(t, from, to) == pc[t] = from /\ Set(pc, t, to)

--------------------------------------------------------------------------------
(* Ids *)

InitialWindow(dist) == Max({dist \div InitialNumRounds, MinDelta})

\* redistribute: the position that the item at cur moves to
Position(cur, dist, blockSize) ==
  LET numBlocks == dist \div blockSize
  IN  IF cur < blockSize * numBlocks
      THEN (cur % numBlocks) * blockSize + cur \div numBlocks
      ELSE cur

\* The ids of the items of s
Ids(s) ==
  [x \in Items |->
     IF x \in Range(s)
     THEN Position((CHOOSE n \in DOMAIN s : s[n] = x) - 1, Len(s), InitialWindow(Len(s)))
     ELSE 0]

\* copyMine: thread t takes every N-th item, the ones in the window to work on
Share(s, t, below) ==
  {x \in Range(s) : Ids(s)[x] % N = t /\ (Ids(s)[x] < InitialWindow(Len(s)) <=> below)}

Init ==
  /\ op \in Operators
  /\ id = Ids(Initial)
  /\ worklist = [t \in Threads |-> Share(Initial, t, TRUE)]
  /\ reserve = [t \in Threads |-> Share(Initial, t, FALSE)]
  /\ pending = PerThread({}) /\ notReady = {}
  /\ owner = [l \in Lockables |-> Nobody] /\ locker = [l \in Lockables |-> None]
  /\ pc = PerThread("pending")
  /\ ctx = PerThread(None) /\ rest = PerThread(<<>>) /\ other = PerThread(Nobody)
  /\ window = PerThread(InitialWindow(Len(Initial))) /\ delta = window
  /\ committed = PerThread(0) /\ iterations = PerThread(0)
  /\ new = {}
  /\ innerDone = FALSE /\ outerDone = FALSE /\ hasNewWork = FALSE /\ tldNewWork = PerThread(FALSE)
  /\ round = {} /\ done = {}

--------------------------------------------------------------------------------
(* pendingLoop: the first pass of the operator acquires its neighborhood *)

\* wlcur->pop(), from the thread's own chunks or one it finds
Pop(t) ==
  /\ \E u \in Threads : \E x \in worklist[u] :
       /\ Set(worklist, u, worklist[u] \ {x})
       /\ Set(pending, t, pending[t] \cup {x})
       /\ Set(ctx, t, x)
       /\ Set(rest, t, op.nhood[x])
       /\ round' = round \cup {x}
  /\ Goto(t, "pending", "lock")
  /\ Set(iterations, t, iterations[t] + 1)
  /\ UNCHANGED <<op, id, reserve, notReady, locks, other, window, delta, committed, new, flags, done>>

Lockable(t) == Head(rest[t])[1]

\* A context that reads does so as its readerCtx, one that writes as itself.
Self(t) == <<ctx[t], IF op.intentToRead THEN Head(rest[t])[2] ELSE "W">>

\* alwaysAcquire: if (tryLock(lockable)) addToNhood(lockable)
TryLock(t) ==
  /\ rest[t] # <<>>
  /\ Goto(t, "lock", "read")
  /\ LET l == Lockable(t)
     IN  Set(locker, l, IF locker[l] = None THEN ctx[t] ELSE locker[l])
  /\ UNCHANGED <<op, id, worklist, reserve, pending, notReady, owner, regs, windows, new, flags,
                 round, done>>

\* A lock that I want but can't get: a reader's flag is never looked at, because
\* nothing calls pushIntentToReadTask, and nor is what merge() joins.
NotAcquired(t, isReader) == IF isReader THEN notReady ELSE notReady \cup {ctx[t]}

\* other->item.id < this->item.id
Conflict(t, o) == id[o[1]] < id[ctx[t]]

\* getOwner, and what follows from it
ReadOwner(t) ==
  LET o == owner[Lockable(t)]
  IN  /\ pc[t] = "read"
      /\ \/ /\ o # Nobody /\ o[1] = ctx[t]
            /\ Goto(t, "read", "lock")
            /\ Set(rest, t, Tail(rest[t]))
            /\ UNCHANGED <<notReady, other>>
         \/ /\ o # Nobody /\ o[1] # ctx[t] /\ Conflict(t, o)
            /\ Goto(t, "read", "lock")
            /\ notReady' = NotAcquired(t, Self(t)[2] = "R")
            /\ Set(rest, t, Tail(rest[t]))
            /\ UNCHANGED other
         \/ /\ o # Nobody => o[1] # ctx[t] /\ ~Conflict(t, o)
            /\ Goto(t, "read", "steal")
            /\ Set(other, t, o)
            /\ UNCHANGED <<notReady, rest>>
      /\ UNCHANGED <<op, id, worklist, reserve, pending, locks, ctx, windows, new, flags, round, done>>

Steals(t) == owner[Lockable(t)] = other[t]

\* stealByCAS: somebody has locked the lockable, and nobody unlocks it now
StealByCAS(t) ==
  /\ \/ /\ Goto(t, "steal", "disable")
        /\ Steals(t)
        /\ Set(owner, Lockable(t), Self(t))
     \/ /\ Goto(t, "steal", "read")
        /\ ~Steals(t)
        /\ UNCHANGED owner
  /\ UNCHANGED <<op, id, worklist, reserve, pending, notReady, locker, regs, windows, new, flags,
                 round, done>>

Loser_Forgotten(o) == {}

\* The loser, unless it only reads
Loser(o) == IF o[2] = "W" THEN {o[1]} ELSE {}

\* Disable loser
DisableLoser(t) ==
  /\ Goto(t, "disable", "lock")
  /\ notReady' = notReady \cup Loser(other[t])
  /\ Set(rest, t, Tail(rest[t]))
  /\ Set(other, t, Nobody)
  /\ UNCHANGED <<op, id, worklist, reserve, pending, locks, ctx, windows, new, flags, round, done>>

\* The end of the first pass
EndFirstPass(t) ==
  /\ rest[t] = <<>>
  /\ Goto(t, "lock", "pending")
  /\ Set(ctx, t, None)
  /\ UNCHANGED <<op, id, worklist, reserve, pending, notReady, locks, rest, other, windows, new, flags,
                 round, done>>

\* pop() finds nothing: what is left is in the chunks of others
LeavePending(t) ==
  /\ worklist[t] = {}
  /\ Goto(t, "pending", "meetPending")
  /\ innerDone' = TRUE
  /\ UNCHANGED <<op, id, worklist, reserve, pending, notReady, locks, regs, windows, new, outerDone,
                 hasNewWork, tldNewWork, round, done>>

--------------------------------------------------------------------------------
(* commitLoop *)

\* All threads are at a barrier, and leave it.
Barrier(from, to) == (\A t \in Threads : pc[t] = from) /\ pc' = PerThread(to)

\* barrier.wait(); buildDAG and buildIntentToRead have nothing to do
MeetPending ==
  /\ Barrier("meetPending", "commit")
  /\ outerDone' = TRUE
  /\ UNCHANGED <<op, id, worklist, reserve, pending, notReady, locks, regs, windows, new, innerDone,
                 hasNewWork, tldNewWork, round, done>>

NewItems(x) == {<<id[x], n, Creates[x][n]>> : n \in DOMAIN Creates[x]}

\* commitIteration and cancelIteration release what is in the context's list.
Released(x) == {l \in Lockables : locker[l] = x}

\* A context is ready and its second pass runs, or it goes to the next round.
Commit(t) ==
  /\ pc[t] = "commit"
  /\ \E u \in Threads : \E x \in pending[u] :
       /\ Set(pending, u, pending[u] \ {x})
       /\ owner' = [l \in Lockables |-> IF l \in Released(x) THEN Nobody ELSE owner[l]]
       /\ locker' = [l \in Lockables |-> IF l \in Released(x) THEN None ELSE locker[l]]
       /\ \/ /\ x \notin notReady
             /\ done' = done \cup {x}
             /\ new' = new \cup NewItems(x)
             /\ Set(tldNewWork, t, tldNewWork[t] \/ Creates[x] # <<>>)
             /\ Set(committed, t, committed[t] + 1)
             /\ UNCHANGED <<worklist, innerDone>>
          \/ /\ x \in notReady
             /\ Set(worklist, t, worklist[t] \cup {x})
             /\ innerDone' = FALSE
             /\ UNCHANGED <<done, new, tldNewWork, committed>>
  /\ UNCHANGED <<op, id, reserve, notReady, pc, regs, window, delta, iterations, outerDone, hasNewWork,
                 round>>

LeaveCommit(t) ==
  /\ pending[t] = {}
  /\ Goto(t, "commit", "meetCommit")
  /\ UNCHANGED <<op, id, worklist, reserve, pending, notReady, locks, regs, windows, new, flags,
                 round, done>>

\* barrier.wait(); if (innerDone) break. The contexts are gone.
MeetCommit ==
  /\ Barrier("meetCommit", IF innerDone THEN "outer" ELSE "calculateInner")
  /\ notReady' = {} /\ round' = {}
  /\ UNCHANGED <<op, id, worklist, reserve, pending, locks, regs, windows, new, flags, done>>

--------------------------------------------------------------------------------
(* Windows *)

Sum(f) == FoldFunction(LAMBDA a, b : a + b, 0, f)

\* calculateWindow, with the target 0.95, of the counters in all and those of the
\* threads outside of lost
CalculateWindow(t, inner, lostCommitted, lostIterations) ==
  LET c == Sum([u \in Threads |-> IF u \in lostCommitted THEN 0 ELSE committed[u]])
      i == Sum([u \in Threads |-> IF u \in lostIterations THEN 0 ELSE iterations[u]])
      d == IF 100 * c >= 95 * i \/ c = 0 THEN delta[t] + delta[t]
           ELSE (100 * c * delta[t]) \div (95 * i)
  IN  Set(delta, t, IF d >= MinDelta THEN d ELSE IF inner THEN 0 ELSE MinDelta)

\* Only the inner call is followed by a barrier: other threads may get to
\* nextWindow, which resets iterations and then committed, while this one is reading.
Calculate(t, from, to, inner) ==
  /\ Goto(t, from, to)
  /\ LET resetting == {u \in Threads \ {t} : ~inner /\ pc[u] \in {from, "nextWindow"}}
     IN  \E i \in SUBSET resetting : \E c \in SUBSET i : CalculateWindow(t, inner, c, i)
  /\ UNCHANGED <<op, id, worklist, reserve, pending, notReady, locks, regs, window, committed, iterations,
                 new, flags, round, done>>

MeetWindow ==
  /\ Barrier("meetWindow", "nextWindow")
  /\ UNCHANGED <<op, id, worklist, reserve, pending, notReady, locks, regs, windows, new, flags,
                 round, done>>

\* pushNextWindow: reserve.peek() has an id below the new window
InNext(t, x) == id[x] < window[t] + delta[t]

\* pushNextWindow(wlnext, nextWindow())
PushNextWindow(t) ==
  /\ Goto(t, "nextWindow", "pending")
  /\ Set(window, t, window[t] + delta[t])
  /\ Set(committed, t, 0) /\ Set(iterations, t, 0)
  /\ LET nexts == {x \in reserve[t] : InNext(t, x)}
     IN  Set(worklist, t, worklist[t] \cup nexts) /\ Set(reserve, t, reserve[t] \ nexts)
  /\ UNCHANGED <<op, id, pending, notReady, locks, regs, delta, new, flags, round, done>>

--------------------------------------------------------------------------------
(* The outer loop *)

\* if (!emptyReserve()) outerDone = false
Remaining(t) == outerDone /\ reserve[t] = {}

Outer(t) ==
  /\ Goto(t, "outer", "meetOuter")
  /\ outerDone' = Remaining(t)
  /\ hasNewWork' = (hasNewWork \/ tldNewWork[t])
  /\ UNCHANGED <<op, id, worklist, reserve, pending, notReady, locks, regs, windows, new, innerDone,
                 tldNewWork, round, done>>

MeetOuter ==
  /\ Barrier("meetOuter", IF ~outerDone THEN "calculateOuter"
                          ELSE IF hasNewWork THEN "distribute" ELSE "done")
  /\ UNCHANGED <<op, id, worklist, reserve, pending, notReady, locks, regs, windows, new, flags,
                 round, done>>

\* DNewItem::operator<
Before(x, y) == x[1] < y[1] \/ (x[1] = y[1] /\ x[2] < y[2])

SortedNew == LET s == SetToSortSeq(new, Before) IN [n \in DOMAIN s |-> s[n][3]]

\* distributeNewWork: its barriers are between steps whose outcome does not
\* depend on their order, and the sorted items are dealt out like the initial ones.
\* The counters keep their values.
DistributeNewWork ==
  /\ Barrier("distribute", "pending")
  /\ id' = Ids(SortedNew)
  /\ worklist' = [t \in Threads |-> Share(SortedNew, t, TRUE)]
  /\ reserve' = [t \in Threads |-> Share(SortedNew, t, FALSE)]
  /\ window' = PerThread(InitialWindow(Len(SortedNew))) /\ delta' = window'
  /\ new' = {}
  /\ hasNewWork' = FALSE /\ tldNewWork' = PerThread(FALSE)
  /\ UNCHANGED <<op, pending, notReady, locks, regs, committed, iterations, innerDone, outerDone,
                 round, done>>

Step(t) ==
  \/ Pop(t) \/ TryLock(t) \/ ReadOwner(t) \/ StealByCAS(t) \/ DisableLoser(t)
  \/ EndFirstPass(t) \/ LeavePending(t) \/ Commit(t) \/ LeaveCommit(t)
  \/ Calculate(t, "calculateInner", "meetWindow", TRUE)
  \/ Calculate(t, "calculateOuter", "nextWindow", FALSE)
  \/ PushNextWindow(t) \/ Outer(t)

Meet == MeetPending \/ MeetCommit \/ MeetWindow \/ MeetOuter \/ DistributeNewWork

Next == Meet \/ \E t \in Threads : Step(t)

Spec == Init /\ [][Next]_vars

--------------------------------------------------------------------------------
Acquires(x) == {op.nhood[x][n][1] : n \in DOMAIN op.nhood[x]}
Writes(x) ==
  {l \in Acquires(x) : \E n \in DOMAIN op.nhood[x] : op.nhood[x][n][1] = l /\ (op.intentToRead => op.nhood[x][n][2] = "W")}

Committing == \E t \in Threads : pc[t] \in {"commit", "meetCommit"}
Ready(x) == x \notin notReady

\* x has the smallest id of the items of the round that acquire l
Least(x, l) == \A y \in round : l \in Acquires(y) /\ y # x => id[x] < id[y]

(***************************************************************************)
(* Which items commit in a round is decided by the ids of the items in it  *)
(* and by nothing else, however their first passes interleave: the ones    *)
(* with the smallest id on all they acquire. So two of them never share a  *)
(* lockable. With intent_to_read this holds of what an item writes. A lock *)
(* never names a context of an earlier round.                              *)
(***************************************************************************)
ChosenById ==
  /\ Committing => \A x \in round :
       /\ Ready(x) => \A l \in Writes(x) : Least(x, l)
       /\ ~op.intentToRead /\ ~Ready(x) => \E l \in Acquires(x) : ~Least(x, l)
  /\ \A l \in Lockables : owner[l] # Nobody => owner[l][1] \in round /\ locker[l] # None
  /\ \A l \in Lockables : locker[l] # None => locker[l] \in UNION {pending[t] : t \in Threads}

\* "In each round, it deterministically chooses a conflict-free subset of currently
\* active elements to process" (docs/tutorial.dox): no item that commits writes
\* what another one acquires.
ConflictFree ==
  Committing => \A x, y \in round : x # y /\ Ready(x) /\ Ready(y) => Writes(x) \cap Acquires(y) = {}

Everything == Range(Initial) \cup UNION {Range(Creates[x]) : x \in done}

\* No item is lost or waits in two places, and threads leave the loop when all
\* items, those created by others included, have committed.
NothingLost ==
  LET Waiting == UNION {worklist[t] \cup reserve[t] \cup pending[t] : t \in Threads}
      News == {x[3] : x \in new}
  IN  /\ Everything = Waiting \cup News \cup done
      /\ (Waiting \cup News) \cap done = {} /\ Waiting \cap News = {}
      /\ (\E t \in Threads : pc[t] = "done") => done = Everything

AllOut == \A t \in Threads : pc[t] = "done"

================================================================================
