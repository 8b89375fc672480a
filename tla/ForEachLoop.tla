------------------------------ MODULE ForEachLoop ------------------------------
(***************************************************************************)
(* The loop every thread of a for_each runs around its worklist and its    *)
(* termination detector: ForEachExecutor::go of libgalois/include/galois/  *)
(* runtime/Executor_ForEach.h. Items are counted, not told apart.          *)
(* queue[t] is the part of the worklist that thread t fills and is sure to *)
(* find; other threads may steal from it. aborted[t] is the queue of the   *)
(* AbortHandler: any thread may add to it and only t removes.              *)
(* The modules of the detectors supply initializeThread, localTermination  *)
(* (between the labels "term" and "decide") and globalTermination.         *)
(***************************************************************************)
EXTENDS Naturals

CONSTANTS N,               \* activeThreads
          MaxItems,        \* bound: items one loop starts with or pushes
          Leader,          \* ThreadPool::getLeader of each thread
          ParentLeader,    \* getLeaderForSocket(socket / 2) of each thread
          UseBasicPolicy   \* more than two sockets

Threads == 0 .. N - 1

ASSUME LoopAssumption ==
  /\ N \in Nat \ {0}
  /\ MaxItems \in Nat
  /\ Leader \in [Threads -> Threads]
  /\ \A t \in Threads : Leader[t] <= t
  /\ ParentLeader \in [Threads -> Threads]
  /\ UseBasicPolicy \in BOOLEAN

VARIABLES pc,           \* where each thread is
          couldAbort,   \* the loop detects conflicts (needsAborts)
          queue,        \* items in each thread's part of the worklist
          aborted,      \* items in each thread's abort queue
          didWork,      \* the local of go()
          created       \* items this loop started with and pushed

loopVars == <<pc, couldAbort, queue, aborted, didWork, created>>

LoopTypeOK ==
  /\ couldAbort \in BOOLEAN
  /\ queue \in [Threads -> Nat]
  /\ aborted \in [Threads -> Nat]
  /\ didWork \in [Threads -> BOOLEAN]
  /\ created \in 0 .. MaxItems

LoopInit ==
  /\ pc = [t \in Threads |-> "init"]
  /\ couldAbort \in BOOLEAN
  /\ queue = [t \in Threads |-> 0]
  /\ aborted = [t \in Threads |-> 0]
  /\ didWork = [t \in Threads |-> FALSE]
  /\ created = 0

Goto(t, from, to) ==
  /\ pc[t] = from
  /\ pc' = [pc EXCEPT ![t] = to]

\* wl.push_initial(range); the detector conjoins its initializeThread
InitThread(t) ==
  /\ Goto(t, "init", "barrier")
  /\ \E n \in 0 .. MaxItems - created :
       /\ queue' = [queue EXCEPT ![t] = n]
       /\ created' = created + n
  /\ UNCHANGED <<couldAbort, aborted, didWork>>

Initialized == \A t \in Threads : pc[t] # "init"

\* the barrier between initThread and operator()
StartLoop(t) ==
  /\ Initialized
  /\ Goto(t, "barrier", "run")
  /\ UNCHANGED <<couldAbort, queue, aborted, didWork, created>>

AfterQueue == IF couldAbort THEN "aborts" ELSE "term"

Available(u) == queue[u] > 0

\* wl.pop() finds an item, t's own or another thread's
Pop(t, u) ==
  /\ Available(u)
  /\ Goto(t, "run", "work")
  /\ queue' = [queue EXCEPT ![u] = @ - 1]
  /\ didWork' = [didWork EXCEPT ![t] = TRUE]
  /\ UNCHANGED <<couldAbort, aborted, created>>


\* wl.pop() looks into t's own part before it gives up
PopsNothing(t) == queue[t] = 0

PopEmpty(t) ==
  /\ PopsNothing(t)
  /\ Goto(t, "run", AfterQueue)
  /\ UNCHANGED <<couldAbort, queue, aborted, didWork, created>>

\* runQueue<64>: leaders look at their abort queue and the token now and then
LimitReached(t) ==
  /\ couldAbort
  /\ t = Leader[t]
  /\ didWork[t]
  /\ Goto(t, "run", "aborts")
  /\ UNCHANGED <<couldAbort, queue, aborted, didWork, created>>

\* fastPushBack: without conflict detection the operator pushes directly
FastPush(t) ==
  /\ ~couldAbort
  /\ pc[t] = "work"
  /\ created < MaxItems
  /\ queue' = [queue EXCEPT ![t] = @ + 1]
  /\ created' = created + 1
  /\ UNCHANGED <<pc, couldAbort, aborted, didWork>>

\* commitIteration: the push buffer goes to the worklist
Commit(t, from, to) ==
  /\ Goto(t, from, to)
  /\ \E n \in 0 .. (IF couldAbort THEN MaxItems - created ELSE 0) :
       /\ queue' = [queue EXCEPT ![t] = @ + n]
       /\ created' = created + n
  /\ UNCHANGED <<couldAbort, aborted, didWork>>

\* abortIteration of an item of the worklist: AbortHandler::push(value_type)
Abort(t) ==
  /\ couldAbort
  /\ Goto(t, "work", "aborts")
  /\ aborted' = [aborted EXCEPT ![t] = @ + 1]
  /\ UNCHANGED <<couldAbort, queue, didWork, created>>

\* handleAborts
PopAborted(t) ==
  /\ aborted[t] > 0
  /\ Goto(t, "aborts", "rework")
  /\ aborted' = [aborted EXCEPT ![t] = @ - 1]
  /\ didWork' = [didWork EXCEPT ![t] = TRUE]
  /\ UNCHANGED <<couldAbort, queue, created>>

NoneAborted(t) ==
  /\ aborted[t] = 0
  /\ Goto(t, "aborts", "term")
  /\ UNCHANGED <<couldAbort, queue, aborted, didWork, created>>

DoublePolicy(t) ==
  {t, IF t # Leader[t] THEN Leader[t] + (t - Leader[t]) \div 2 ELSE ParentLeader[t]}

AbortTargets(t) == IF UseBasicPolicy THEN {ParentLeader[t]} ELSE DoublePolicy(t)

\* abortIteration of an item of the abort queue: AbortHandler::push(Item)
AbortAgain(t) ==
  /\ Goto(t, "rework", "term")
  /\ \E u \in AbortTargets(t) : aborted' = [aborted EXCEPT ![u] = @ + 1]
  /\ UNCHANGED <<couldAbort, queue, didWork, created>>

RunQueues(t) ==
  \/ StartLoop(t)
  \/ \E u \in Threads : Pop(t, u)
  \/ PopEmpty(t)
  \/ LimitReached(t)
  \/ FastPush(t)
  \/ Commit(t, "work", "run")
  \/ Abort(t)
  \/ PopAborted(t)
  \/ NoneAborted(t)
  \/ Commit(t, "rework", "aborts")
  \/ AbortAgain(t)

\* while (!term.globalTermination())
Decide(t, globalTermination) ==
  /\ Goto(t, "decide", IF globalTermination THEN "done" ELSE "run")
  /\ didWork' = [didWork EXCEPT ![t] = FALSE]
  /\ UNCHANGED <<couldAbort, queue, aborted, created>>

\* the pool runs the next loop over the same detector
NewLoop ==
  /\ \A t \in Threads : pc[t] = "done"
  /\ pc' = [t \in Threads |-> "init"]
  /\ couldAbort' \in BOOLEAN
  /\ created' = 0
  /\ UNCHANGED <<queue, aborted, didWork>>

Working(t) == pc[t] \in {"work", "rework"}

NoWork == \A t \in Threads : queue[t] = 0 /\ aborted[t] = 0 /\ ~Working(t)

Quiet == Initialized /\ NoWork

================================================================================
