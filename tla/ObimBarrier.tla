------------------------------- MODULE ObimBarrier -----------------------------
(***************************************************************************)
(* OrderedByIntegerMetric with UseBarrier, as the delta-stepping programs  *)
(* use it: the threads of the loop stay at one priority until termination  *)
(* is detected there, and then meet in empty() to agree on the next one.   *)
(* The push and the search are those of module Obim.                       *)
(***************************************************************************)
EXTENDS Obim

VARIABLES stored,     \* what slowPop found in empty(): pairs of a bucket and a value
          hasWork,
          met,        \* calls of barrier.wait() by each thread, modulo 3
          announced   \* globalTermination()

barrierVars == <<stored, hasWork, met, announced>>
allVars == <<vars, barrierVars>>

BarrierInit ==
  /\ InitWith(TRUE)
  /\ stored = [t \in Threads |-> {}]
  /\ hasWork = [t \in Threads |-> FALSE]
  /\ met = [t \in Threads |-> 0]
  /\ announced = FALSE

--------------------------------------------------------------------------------
(* push, by a thread that pushes its initial items or processes one *)

LevelPush(t, x) ==
  /\ st[t] = "out"
  /\ \A u \in Threads, b \in Buckets : <<b, x>> \notin stored[u]
  /\ BeginPush(t, x)
  /\ UNCHANGED barrierVars

LevelPushes(t) ==
  (FindOrLock(t) \/ Create(t) \/ Lower(t) \/ Put(t)) /\ UNCHANGED barrierVars

--------------------------------------------------------------------------------
(* pop *)

\* hasStored(p, curIndex) and popStored
PopStored(t) ==
  /\ pc[t] = "out"
  /\ \E x \in stored[t] : masterLog[x[1]] = curIndex[t] /\ Set(stored, t, stored[t] \ {x})
  /\ Set(st, t, "out")
  /\ UNCHANGED <<useBarrier, masterLog, data, pc, regs, parts, hasWork, met, announced>>

NoneStored(t) == \A x \in stored[t] : masterLog[x[1]] # curIndex[t]

LevelPop(t) ==
  /\ pc[t] = "out" /\ NoneStored(t)
  /\ \/ /\ current[t] # None
        /\ Set(pc, t, "fast")
        /\ Set(C, t, current[t])
        /\ Set(st, t, "look")
        /\ Bucket!LookInto(t, In(current[t]))
     \/ /\ current[t] = None
        /\ Set(st, t, "dry")
        /\ UNCHANGED <<pc, C, parts>>
  /\ UNCHANGED <<useBarrier, masterLog, data, val, msS, unread, barrierVars>>

LevelPopEnds(t) ==
  /\ pc[t] = "fast"
  /\ \/ Gets(t) /\ Set(st, t, "out")
     \/ Bucket!FindsNothing(t, In(C[t])) /\ Set(st, t, "dry") /\ UNCHANGED parts
  /\ Set(pc, t, "out")
  /\ UNCHANGED <<useBarrier, masterLog, data, regs, barrierVars>>

\* The detector announces that the last pop of every thread found nothing.
Announce ==
  /\ ~announced
  /\ \A t \in Threads : pc[t] = "out" /\ st[t] = "dry"
  /\ announced' = TRUE
  /\ UNCHANGED <<vars, stored, hasWork, met>>

--------------------------------------------------------------------------------
(* empty() *)

BeginEmpty(t) ==
  /\ announced /\ pc[t] = "out" /\ st[t] = "dry"
  /\ SlowPop(t)
  /\ UNCHANGED <<useBarrier, masterLog, val, C, parts, st, barrierVars>>

\* slowPop looks into bucket b, or finds nothing at all
EmptyScan(t, b) ==
  IF b = None
  THEN Set(pc, t, "choose") /\ UNCHANGED <<C, parts>>
  ELSE Set(pc, t, "scan") /\ Set(C, t, b) /\ Bucket!LookInto(t, In(b))

EmptyBeginScan(t) ==
  /\ pc[t] = "min" /\ unread[t] = {}
  /\ EmptyScan(t, After(t, msS[t]))
  /\ UNCHANGED <<useBarrier, masterLog, data, val, msS, unread, st, barrierVars>>

EmptyScanMisses(t) ==
  /\ pc[t] = "scan"
  /\ Bucket!FindsNothing(t, In(C[t]))
  /\ EmptyScan(t, After(t, masterLog[C[t]] + 1))
  /\ UNCHANGED <<useBarrier, masterLog, data, val, msS, unread, st, barrierVars>>

EmptyScanGets(t) ==
  /\ pc[t] = "scan"
  /\ \E x \in In(C[t]) :
       /\ \/ Bucket!TakeOwn(t, x)
          \/ \E D \in SUBSET (shared \cap In(C[t])) : x \in D /\ Bucket!TakeShared(t, D, {x})
       /\ Set(stored, t, stored[t] \cup {x})
  /\ Set(current, t, C[t])
  /\ Set(curIndex, t, masterLog[C[t]])
  /\ Set(scanStart, t, masterLog[C[t]])
  /\ Set(pc, t, "choose")
  /\ UNCHANGED <<useBarrier, masterLog, lastMasterVersion, regs, st, hasWork, met, announced>>

Arrive(t) == Set(met, t, (met[t] + 1) % 3)
AllArrived(t) == \A u \in Threads : met[u] # (met[t] + 2) % 3

\* The bucket of the earliest index among a set of buckets.
Earliest(B) == CHOOSE b \in B : \A d \in B : masterLog[b] <= masterLog[d]

\* The earliest of the thread's stored items, up to the first barrier.wait()
Choose(t) ==
  /\ pc[t] = "choose"
  /\ IF stored[t] = {} THEN UNCHANGED <<current, curIndex>>
     ELSE LET b == Earliest({x[1] : x \in stored[t]})
          IN  Set(current, t, b) /\ Set(curIndex, t, masterLog[b])
  /\ Set(hasWork, t, stored[t] # {})
  /\ Arrive(t)
  /\ Set(pc, t, "wait1")
  /\ UNCHANGED <<useBarrier, masterLog, lastMasterVersion, scanStart, regs, parts, st, stored, announced>>

Agreed_Own(t) == IF hasWork[t] THEN current[t] ELSE None

\* The earliest level among the threads that have work
Agreed(t) ==
  IF \A u \in Threads : ~hasWork[u] THEN None
  ELSE Earliest({current[u] : u \in {u \in Threads : hasWork[u]}})

Align(t) ==
  /\ pc[t] = "wait1" /\ AllArrived(t)
  /\ Set(C, t, Agreed(t))
  /\ Arrive(t)
  /\ Set(pc, t, "wait2")
  /\ UNCHANGED <<useBarrier, masterLog, data, val, msS, unread, parts, st, stored, hasWork, announced>>

\* Nothing left, or on to the executor's barrier before the next level
Adopt(t) ==
  /\ pc[t] = "wait2" /\ AllArrived(t)
  /\ \/ C[t] = None /\ Set(pc, t, "done") /\ UNCHANGED <<current, curIndex, met>>
     \/ /\ C[t] # None
        /\ Set(current, t, C[t])
        /\ Set(curIndex, t, masterLog[C[t]])
        /\ Arrive(t)
        /\ Set(pc, t, "wait3")
  /\ UNCHANGED <<useBarrier, masterLog, lastMasterVersion, scanStart, regs, parts, st, stored, hasWork, announced>>

Resume(t) ==
  /\ pc[t] = "wait3" /\ AllArrived(t)
  /\ announced' = FALSE
  /\ Set(pc, t, "out")
  /\ Set(st, t, "fresh")
  /\ UNCHANGED <<useBarrier, masterLog, data, regs, parts, stored, hasWork, met>>

LevelStep(t) ==
  \/ LevelPushes(t) \/ PopStored(t) \/ LevelPop(t) \/ LevelPopEnds(t)
  \/ BeginEmpty(t) \/ (ReadScanStart(t) /\ UNCHANGED barrierVars)
  \/ EmptyBeginScan(t) \/ EmptyScanMisses(t) \/ EmptyScanGets(t)
  \/ Choose(t) \/ Align(t) \/ Adopt(t) \/ Resume(t)

BarrierNext ==
  \/ Announce
  \/ \E t \in Threads : LevelStep(t) \/ \E x \in Work : LevelPush(t, x)

BarrierSpec == BarrierInit /\ [][BarrierNext]_allVars

--------------------------------------------------------------------------------
\* The index of an item that is waiting somewhere.
Waiting == shared \cup UNION {mine[t] \cup stored[t] : t \in Threads}

(***************************************************************************)
(* The barrier leaves no priority inversion: when the threads go on to a   *)
(* level they are all at the same bucket, and no item of an earlier one is *)
(* waiting in any bucket, chunk or store; and when they stop, no item is.  *)
(* Each thread has looked only where scanStart told it to.                 *)
(***************************************************************************)
LevelsInOrder ==
  /\ \A t, u \in Threads : pc[t] = "wait3" /\ pc[u] = "wait3" => current[t] = current[u]
  /\ \A t \in Threads :
       announced /\ pc[t] = "wait3" => \A x \in Waiting : curIndex[t] <= masterLog[x[1]]
  /\ (\E t \in Threads : pc[t] = "done") => Waiting = {}

================================================================================
