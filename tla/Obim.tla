---------------------------------- MODULE Obim ---------------------------------
(***************************************************************************)
(* OrderedByIntegerMetric of libgalois/include/galois/worklists/Obim.h     *)
(* with back-scan prevention and not monotonic, as it is by default: one   *)
(* chunked worklist for each priority, a smaller index first. The pop is   *)
(* the one without UseBarrier. The buckets are announced in                *)
(* masterLog, which each thread follows with a map of its own, and each    *)
(* thread remembers in scanStart where its search has to begin. A bucket   *)
(* keeps the promise of WorklistSpec; what is in it is a pair of the       *)
(* bucket and an item.                                                     *)
(***************************************************************************)
EXTENDS Naturals, Sequences, FiniteSets

CONSTANTS N,         \* activeThreads
          Work,      \* the values pushed
          Index,     \* indexer(val)
          Leader,    \* the leader of each thread's socket
          Blocks     \* whether BlockPeriod makes some pops begin with slowPop

Threads == 0 .. N - 1

earliest == 0
None == 0              \* no bucket
NoVal == "none"

ASSUME ObimAssumption ==
  /\ N \in Nat
  /\ NoVal \notin Work
  /\ Index \in [Work -> Nat]
  /\ Leader \in [Threads -> Threads]

Buckets == 1 .. Cardinality(Work) + N
Items == Buckets \X Work

VARIABLES useBarrier,          \* the template argument
          masterLog,           \* the index of each bucket, in the order of creation
          lastMasterVersion, curIndex, current, scanStart,   \* ThreadData
          pc, val, C,          \* the call under way, its item and bucket
          msS, unread,         \* slowPop: where to begin, scanStarts to read
          mine, shared, seen, st

Bucket == INSTANCE WorklistSpec

data == <<lastMasterVersion, curIndex, current, scanStart>>
regs == <<val, C, msS, unread>>
parts == <<mine, shared, seen>>
vars == <<useBarrier, masterLog, data, pc, regs, parts, st>>

InitWith(barrier) ==
  /\ useBarrier = barrier
  /\ masterLog = <<>>
  /\ lastMasterVersion = [t \in Threads |-> 0]
  /\ curIndex = [t \in Threads |-> earliest]
  /\ scanStart = [t \in Threads |-> earliest]
  /\ current = [t \in Threads |-> None]
  /\ pc = [t \in Threads |-> "out"]
  /\ val = [t \in Threads |-> NoVal]
  /\ C = [t \in Threads |-> None]
  /\ msS = [t \in Threads |-> earliest]
  /\ unread = [t \in Threads |-> {}]
  /\ Bucket!WlInit

Init == InitWith(FALSE)

Set(f, t, v) == f' = [f EXCEPT ![t] = v]

\* p.local, a map that follows the first lastMasterVersion entries of the log
Local(t) == 1 .. lastMasterVersion[t]
Holding(i, version) == {b \in 1 .. version : masterLog[b] = i}
Found(i, version) == IF Holding(i, version) = {} THEN None ELSE CHOOSE b \in Holding(i, version) :
                                                         \A d \in Holding(i, version) : d <= b

\* The pairs of bucket b.
In(b) == {b} \X Work

--------------------------------------------------------------------------------
(* push *)

BeginPush(t, x) ==
  /\ pc[t] = "out"
  /\ \A b \in Buckets : Bucket!Elsewhere(<<b, x>>)
  /\ \A u \in Threads : val[u] # x
  /\ Set(val, t, x)
  /\ Set(st, t, "out")
  /\ \/ /\ Index[x] = curIndex[t] /\ current[t] # None
        /\ Set(C, t, current[t])
        /\ Set(pc, t, "put")
     \/ /\ ~(Index[x] = curIndex[t] /\ current[t] # None)
        /\ Set(C, t, Found(Index[x], lastMasterVersion[t]))
        /\ Set(pc, t, IF C'[t] # None THEN "lower" ELSE "find")
  /\ UNCHANGED <<useBarrier, masterLog, data, msS, unread, parts>>

\* slowUpdateLocalOrCreate: updateLocal and look again, before try_lock
FindOrLock(t) ==
  /\ pc[t] = "find"
  /\ Set(lastMasterVersion, t, Len(masterLog))
  /\ Set(C, t, Found(Index[val[t]], Len(masterLog)))
  /\ Set(pc, t, IF C'[t] # None THEN "lower" ELSE "locked")
  /\ UNCHANGED <<useBarrier, masterLog, curIndex, current, scanStart, val, msS, unread, parts, st>>

AlreadyThere_No(t) == None

\* The second look, under masterLock
AlreadyThere(t) == Found(Index[val[t]], Len(masterLog))

Create(t) ==
  /\ pc[t] = "locked"
  /\ \/ /\ AlreadyThere(t) # None
        /\ Set(C, t, AlreadyThere(t))
        /\ Set(lastMasterVersion, t, Len(masterLog))
        /\ UNCHANGED masterLog
     \/ /\ AlreadyThere(t) = None
        /\ masterLog' = Append(masterLog, Index[val[t]])
        /\ Set(C, t, Len(masterLog'))
        /\ Set(lastMasterVersion, t, Len(masterLog'))
  /\ Set(pc, t, "lower")
  /\ UNCHANGED <<useBarrier, curIndex, current, scanStart, val, msS, unread, parts, st>>

\* if (compare(index, p.scanStart)) p.scanStart = index;
Lowered(t) == IF Index[val[t]] < scanStart[t] THEN Index[val[t]] ELSE scanStart[t]

Lower(t) ==
  /\ pc[t] = "lower"
  /\ Set(scanStart, t, Lowered(t))
  /\ IF ~useBarrier /\ Index[val[t]] < curIndex[t]
     THEN Set(curIndex, t, Index[val[t]]) /\ Set(current, t, C[t])
     ELSE UNCHANGED <<curIndex, current>>
  /\ Set(pc, t, "put")
  /\ UNCHANGED <<useBarrier, masterLog, lastMasterVersion, regs, parts, st>>

Put(t) ==
  /\ pc[t] = "put"
  /\ \E P \in SUBSET (mine[t] \cap In(C[t])) : Bucket!Add(t, <<C[t], val[t]>>, P)
  /\ Set(val, t, NoVal)
  /\ Set(pc, t, "out")
  /\ UNCHANGED <<useBarrier, masterLog, data, C, msS, unread, st>>

--------------------------------------------------------------------------------
(* pop *)

\* The reads of slowPop before the loop over the buckets
SlowPop(t) ==
  /\ Set(pc, t, "min")
  /\ Set(lastMasterVersion, t, Len(masterLog))
  /\ Set(msS, t, scanStart[t])
  /\ Set(unread, t, IF Leader[t] = t THEN Threads ELSE {Leader[t]})
  /\ UNCHANGED <<curIndex, current, scanStart>>

BeginPop(t) ==
  /\ pc[t] = "out"
  /\ Set(st, t, "look")
  /\ \/ /\ current[t] # None
        /\ Set(pc, t, "fast")
        /\ Set(C, t, current[t])
        /\ Bucket!LookInto(t, In(current[t]))
        /\ UNCHANGED <<data, msS, unread>>
     \/ /\ current[t] = None \/ Blocks
        /\ SlowPop(t)
        /\ UNCHANGED <<C, parts>>
  /\ UNCHANGED <<useBarrier, masterLog, val>>

\* pop() of bucket C[t] finds an item
Gets(t) ==
  \/ \E x \in mine[t] \cap In(C[t]) : Bucket!TakeOwn(t, x)
  \/ \E D \in SUBSET (shared \cap In(C[t])) : \E x \in D : Bucket!TakeShared(t, D, {x})

FastPop(t) ==
  /\ pc[t] = "fast"
  /\ \/ /\ Gets(t)
        /\ Set(pc, t, "out")
        /\ Set(st, t, "out")
        /\ UNCHANGED <<data, msS, unread>>
     \/ /\ Bucket!FindsNothing(t, In(C[t]))
        /\ SlowPop(t)
        /\ UNCHANGED <<parts, st>>
  /\ UNCHANGED <<useBarrier, masterLog, val, C>>

\* The leader of a socket reads every scanStart, another thread its leader's.
ReadScanStart(t) ==
  /\ pc[t] = "min"
  /\ unread[t] # {}
  /\ LET i == CHOOSE i \in unread[t] : \A j \in unread[t] : i <= j
     IN  /\ Set(msS, t, IF scanStart[i] < msS[t] THEN scanStart[i] ELSE msS[t])
         /\ Set(unread, t, unread[t] \ {i})
  /\ UNCHANGED <<useBarrier, masterLog, data, pc, val, C, parts, st>>

\* The bucket of p.local that follows index i, or is at i, in the order of the map
After(t, i) ==
  LET later == {b \in Local(t) : masterLog[b] >= i}
  IN  IF later = {} THEN None
      ELSE CHOOSE b \in later : \A d \in later : masterLog[b] <= masterLog[d]

\* ii moves to bucket b and its pop begins, or the loop is over
Scan(t, b) ==
  IF b = None
  THEN Set(pc, t, "out") /\ Set(st, t, "dry") /\ UNCHANGED <<C, parts>>
  ELSE Set(pc, t, "scan") /\ Set(C, t, b) /\ Bucket!LookInto(t, In(b)) /\ UNCHANGED st

BeginScan(t) ==
  /\ pc[t] = "min"
  /\ unread[t] = {}
  /\ Scan(t, After(t, msS[t]))
  /\ UNCHANGED <<useBarrier, masterLog, data, val, msS, unread>>

ScanGets(t) ==
  /\ pc[t] = "scan"
  /\ Gets(t)
  /\ Set(current, t, C[t])
  /\ Set(curIndex, t, masterLog[C[t]])
  /\ Set(scanStart, t, masterLog[C[t]])
  /\ Set(pc, t, "out")
  /\ Set(st, t, "out")
  /\ UNCHANGED <<useBarrier, masterLog, lastMasterVersion, regs>>

ScanMisses(t) ==
  /\ pc[t] = "scan"
  /\ Bucket!FindsNothing(t, In(C[t]))
  /\ Scan(t, After(t, masterLog[C[t]] + 1))
  /\ UNCHANGED <<useBarrier, masterLog, data, val, msS, unread>>

Step(t) ==
  \/ FindOrLock(t) \/ Create(t) \/ Lower(t) \/ Put(t)
  \/ FastPop(t) \/ ReadScanStart(t) \/ BeginScan(t) \/ ScanGets(t) \/ ScanMisses(t)

Next == \E t \in Threads : BeginPop(t) \/ (\E x \in Work : BeginPush(t, x)) \/ Step(t)

Spec == Init /\ [][Next]_vars

--------------------------------------------------------------------------------
\* Thread t is sure to find item x, a pair of bucket and value, unless somebody
\* takes it first: t knows the bucket, its search begins no later and has not
\* passed it, and t has not given up.
WillReach(t, x) ==
  /\ x[1] \in Local(t)
  /\ scanStart[t] <= masterLog[x[1]]
  /\ pc[t] = "min" => msS[t] <= masterLog[x[1]]
  /\ pc[t] = "scan" => masterLog[C[t]] <= masterLog[x[1]]
  /\ st[t] # "dry"

(***************************************************************************)
(* No priority loses its work although a search begins at scanStart and    *)
(* not at the first bucket, and every thread has its own, possibly stale,  *)
(* map of the buckets. There is one bucket for each index, also when two   *)
(* threads want to create it at the same time; what a thread keeps to      *)
(* itself it will reach; and each shared item will be reached by some      *)
(* thread that has not looked past it.                                     *)
(***************************************************************************)
NoStrandedWork ==
  ~useBarrier =>
    /\ \A b, d \in DOMAIN masterLog : masterLog[b] = masterLog[d] => b = d
    /\ \A t \in Threads : \A x \in mine[t] : WillReach(t, x)
    /\ \A x \in shared : \E t \in Threads :
          WillReach(t, x) /\ (pc[t] = "scan" /\ C[t] = x[1] => x \in seen[t])

(***************************************************************************)
(* When the last call of every thread was a pop that found nothing, no     *)
(* bucket holds an item, although every thread has looked at part of the   *)
(* buckets only: this is what termination detection takes it to mean.      *)
(***************************************************************************)
DryMeansDone == ~useBarrier => Bucket!DryMeansDone

================================================================================
