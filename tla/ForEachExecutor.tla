---------------------------- MODULE ForEachExecutor ----------------------------
(***************************************************************************)
(* A for_each with conflict detection: ForEachExecutor and AbortHandler of *)
(* libgalois/include/galois/runtime/Executor_ForEach.h. An iteration       *)
(* acquires its neighborhood object by object, as module Neighborhoods     *)
(* promises, buffers what it pushes, and either commits or is aborted and  *)
(* tried again, after a while on a thread nearer to thread 0. Termination  *)
(* is detected as module TerminationSpec promises.                         *)
(***************************************************************************)
EXTENDS Neighborhoods, Integers, Sequences, FiniteSets

CONSTANTS WorkItems,
          Initial,         \* the items of the range
          Nhood,           \* the objects an item's operator acquires, in order,
                           \* each with its MethodFlag
          Spawn,           \* the items it pushes
          Breaks,          \* items whose operator may call breakLoop()
          Machines         \* machines to run on: for each thread, getLeader()
                           \* and getLeaderForSocket(socket / 2)

Access == [obj : Objects, flag : {"READ", "WRITE", "UNPROTECTED"}]

\* The threads are numbered from 0. Items are told apart: an item is in the
\* range once, or pushed once by one operator.
ASSUME ForEachAssumption ==
  /\ \E n \in Owners : n \in Nat /\ Owners = 0 .. n
  /\ "none" \notin WorkItems
  /\ Initial \subseteq WorkItems
  /\ Nhood \in [WorkItems -> Seq(Access)]
  /\ Spawn \in [WorkItems -> SUBSET (WorkItems \ Initial)]
  /\ \A x, y \in WorkItems : x # y => Spawn[x] \cap Spawn[y] = {}
  /\ Machines \subseteq [leader : [Owners -> Owners], parent : [Owners -> Owners]]
  /\ \A m \in Machines, t \in Owners : m.leader[t] <= t

Item == [val : WorkItems, retries : {0, 1}]

NoItem == [val |-> "none", retries |-> 0]

VARIABLES ex_pc,          \* where each thread is
          wl,          \* how often each item is in the worklist
          aborted,     \* AbortHandler::queues
          item,        \* the item of RunQueueState, with the parity of retries
          rest,        \* what the operator still has to acquire
          pushBuffer,
          broke,
          didWork,     \* the local of go()
          committed,   \* how often each item has committed
          machine      \* the machine of this run

state == <<held, phase, ex_pc, wl, aborted, item, rest, pushBuffer, broke, didWork, committed>>
forEachVars == <<state, machine>>

Leader(t) == machine.leader[t]

ParentLeader(t) == machine.parent[t]

\* AbortHandler(): more than two sockets
UseBasicPolicy == Cardinality({Leader(t) : t \in Owners}) > 2

ForEachTypeOK ==
  /\ held \subseteq Owners \X Objects
  /\ phase \in [Owners -> Phases]
  /\ ex_pc \in [Owners -> {"wl", "wlItem", "aborts", "abortsItem", "term", "done"}]
  /\ wl \in [WorkItems -> Nat]
  /\ aborted \in [Owners -> Seq(Item)]
  /\ item \in [Owners -> Item \cup {NoItem}]
  /\ rest \in [Owners -> Seq(Access)]
  /\ pushBuffer \in [Owners -> SUBSET WorkItems]
  /\ broke \in BOOLEAN
  /\ didWork \in [Owners -> BOOLEAN]
  /\ committed \in [WorkItems -> Nat]
  /\ machine \in Machines

ForEachInit ==
  /\ NhInit
  /\ ex_pc = [t \in Owners |-> "wl"]
  /\ wl = [i \in WorkItems |-> IF i \in Initial THEN 1 ELSE 0]
  /\ aborted = [t \in Owners |-> <<>>]
  /\ item = [t \in Owners |-> NoItem]
  /\ rest = [t \in Owners |-> <<>>]
  /\ pushBuffer = [t \in Owners |-> {}]
  /\ broke = FALSE
  /\ didWork = [t \in Owners |-> FALSE]
  /\ committed = [i \in WorkItems |-> 0]
  /\ machine \in Machines

GoOn(t, from, to) ==
  /\ ex_pc[t] = from
  /\ ex_pc' = [ex_pc EXCEPT ![t] = to]

\* doProcess up to the operator's first acquire
StartIteration(t, i) ==
  /\ Begin(t)
  /\ rest' = [rest EXCEPT ![t] = Nhood[i]]
  /\ pushBuffer' = [pushBuffer EXCEPT ![t] = @ \cup Spawn[i]]
  /\ didWork' = [didWork EXCEPT ![t] = TRUE]

Available(i) == wl[i] > 0

PopWork(t, i) ==
  /\ Available(i)
  /\ GoOn(t, "wl", "wlItem")
  /\ wl' = [wl EXCEPT ![i] = @ - 1]
  /\ item' = [item EXCEPT ![t] = [val |-> i, retries |-> 0]]
  /\ StartIteration(t, i)
  /\ UNCHANGED <<aborted, broke, committed>>

\* wl.pop() finds nothing
WorkIsEmpty(t) ==
  /\ \A i \in WorkItems : wl[i] = 0
  /\ GoOn(t, "wl", "aborts")
  /\ UNCHANGED <<nhVars, wl, aborted, item, rest, pushBuffer, broke, didWork, committed>>

\* runQueue<64> for leaders, and for all when the loop may break
LimitReached(t) ==
  /\ (t = Leader(t) \/ Breaks # {})
  /\ didWork[t]
  /\ GoOn(t, "wl", "aborts")
  /\ UNCHANGED <<nhVars, wl, aborted, item, rest, pushBuffer, broke, didWork, committed>>

\* handleAborts
PopAborted(t) ==
  /\ aborted[t] # <<>>
  /\ GoOn(t, "aborts", "abortsItem")
  /\ item' = [item EXCEPT ![t] = Head(aborted[t])]
  /\ aborted' = [aborted EXCEPT ![t] = Tail(@)]
  /\ StartIteration(t, Head(aborted[t]).val)
  /\ UNCHANGED <<wl, broke, committed>>

NoneAborted(t) ==
  /\ aborted[t] = <<>>
  /\ GoOn(t, "aborts", "term")
  /\ UNCHANGED <<nhVars, wl, aborted, item, rest, pushBuffer, broke, didWork, committed>>

--------------------------------------------------------------------------------
ShouldLock_WritesOnly(flag) == flag = "WRITE"

ShouldLock(flag) == flag \in {"READ", "WRITE"}

\* acquire(): readers lock too, and exclusively
AcquireNext(t) ==
  /\ rest[t] # <<>>
  /\ phase[t] = "acquire"
  /\ IF ShouldLock(Head(rest[t]).flag) THEN Acquire(t, Head(rest[t]).obj) ELSE UNCHANGED nhVars
  /\ rest' = [rest EXCEPT ![t] = Tail(@)]
  /\ UNCHANGED <<ex_pc, wl, aborted, item, pushBuffer, broke, didWork, committed>>

NextConflicts(t) ==
  /\ rest[t] # <<>>
  /\ ShouldLock(Head(rest[t]).flag)
  /\ Conflict(t, Head(rest[t]).obj)
  /\ UNCHANGED <<ex_pc, wl, aborted, item, rest, pushBuffer, broke, didWork, committed>>

ReleaseOne(t, o) ==
  /\ Release(t, o)
  /\ UNCHANGED <<ex_pc, wl, aborted, item, rest, pushBuffer, broke, didWork, committed>>

InBody(t) == phase[t] = "acquire" /\ rest[t] = <<>>

ClearedBuffer_Kept(t) == pushBuffer

ClearedBuffer(t) == [pushBuffer EXCEPT ![t] = {}]

\* the rest of the operator, then commitIteration up to the release of the locks
CommitIteration(t) ==
  LET i == item[t].val
  IN  /\ InBody(t)
      /\ Commit(t)
      /\ \E calls \in BOOLEAN : (calls => i \in Breaks) /\ broke' = (broke \/ calls)
      /\ wl' = [j \in WorkItems |-> wl[j] + IF j \in pushBuffer[t] THEN 1 ELSE 0]
      /\ pushBuffer' = ClearedBuffer(t)
      /\ committed' = [committed EXCEPT ![i] = @ + 1]
      /\ item' = [item EXCEPT ![t] = NoItem]
      /\ UNCHANGED <<ex_pc, aborted, rest, didWork>>

\* The thread goes on with the same queue.
Committed(t) ==
  /\ phase[t] = "commit"
  /\ End(t)
  /\ ex_pc' = [ex_pc EXCEPT ![t] = IF @ = "wlItem" THEN "wl" ELSE "aborts"]
  /\ UNCHANGED <<wl, aborted, item, rest, pushBuffer, broke, didWork, committed>>

\* to the leader of a lower socket
BasicPolicy(t) == ParentLeader(t)

DoublePolicy_LocalOnly(t, retries) == t

\* two attempts, then one step towards the leader of the socket, and from
\* there to the leader of a lower socket; retries counts this abort too
DoublePolicy(t, retries) ==
  IF retries = 0 THEN t
  ELSE IF t # Leader(t) THEN Leader(t) + (t - Leader(t)) \div 2 ELSE ParentLeader(t)

\* AbortHandler::push: on the first abort an item stays on its thread
AbortTarget(t, retries) ==
  IF ex_pc[t] = "wlItem" THEN t
  ELSE IF UseBasicPolicy THEN BasicPolicy(t) ELSE DoublePolicy(t, retries)

\* abortIteration once the locks are released; it leaves runQueue
AbortIteration(t) ==
  LET retries == (item[t].retries + 1) % 2
  IN  /\ phase[t] = "conflict"
      /\ End(t)
      /\ aborted' = [aborted EXCEPT ![AbortTarget(t, retries)] =
                       Append(@, [val |-> item[t].val, retries |-> retries])]
      /\ item' = [item EXCEPT ![t] = NoItem]
      /\ rest' = [rest EXCEPT ![t] = <<>>]
      /\ pushBuffer' = ClearedBuffer(t)
      /\ ex_pc' = [ex_pc EXCEPT ![t] = IF @ = "wlItem" THEN "aborts" ELSE "term"]
      /\ UNCHANGED <<wl, broke, didWork, committed>>

--------------------------------------------------------------------------------
Quiet ==
  /\ \A i \in WorkItems : wl[i] = 0
  /\ \A t \in Owners : aborted[t] = <<>> /\ phase[t] = "out"

Leaves(t) == Quiet \/ broke

\* term.localTermination(didWork); while (!term.globalTermination() && !broke)
Decide(t) ==
  /\ GoOn(t, "term", IF Leaves(t) THEN "done" ELSE "wl")
  /\ didWork' = [didWork EXCEPT ![t] = FALSE]
  /\ UNCHANGED <<nhVars, wl, aborted, item, rest, pushBuffer, broke, committed>>

ForEachStep(t) ==
  \/ \E i \in WorkItems : PopWork(t, i)
  \/ WorkIsEmpty(t) \/ LimitReached(t) \/ PopAborted(t) \/ NoneAborted(t)
  \/ AcquireNext(t) \/ NextConflicts(t) \/ (\E o \in Objects : ReleaseOne(t, o))
  \/ CommitIteration(t) \/ Committed(t) \/ AbortIteration(t)
  \/ Decide(t)

ForEachNext == (\E t \in Owners : ForEachStep(t)) /\ UNCHANGED machine

ForEachSpec == ForEachInit /\ [][ForEachNext]_forEachVars

--------------------------------------------------------------------------------
Waiting(x) ==
  {p \in UNION {{<<"aborted", t, n>> : n \in DOMAIN aborted[t]} : t \in Owners} :
     aborted[p[2]][p[3]].val = x}

Running(x) == {<<"running", t>> : t \in {u \in Owners : item[u].val = x}}

\* where x is
Copies(x) ==
  {<<"wl", n>> : n \in 1 .. wl[x]} \cup Waiting(x) \cup Running(x)
    \cup {<<"committed", n>> : n \in 1 .. committed[x]}

Created(x) == x \in Initial \/ \E y \in WorkItems : committed[y] > 0 /\ x \in Spawn[y]

LeavesNothing ==
  /\ (\E t \in Owners : ex_pc[t] = "done") /\ ~broke => Quiet
  /\ (\A t \in Owners : ex_pc[t] = "done") => held = {}

(***************************************************************************)
(* No item of a for_each is lost, run twice, or pushed by an iteration     *)
(* that is aborted: an item of the range, or pushed by a committed         *)
(* iteration, is in exactly one of the worklist, an abort queue, a running *)
(* iteration and the committed ones. A thread that leaves without a break  *)
(* leaves no work behind, and once all have left, after a break too, no    *)
(* object is locked. The types are part of the invariant.                  *)
(***************************************************************************)
ItemsConserved ==
  /\ ForEachTypeOK
  /\ \A x \in WorkItems :
       IF Created(x) THEN \E c \in Copies(x) : Copies(x) = {c} ELSE Copies(x) = {}
  /\ LeavesNothing

Accesses(t) == 
  LET nhood == Nhood[item[t].val]
  IN  {nhood[n] : n \in {m \in DOMAIN nhood : nhood[m].flag # "UNPROTECTED"}}

(***************************************************************************)
(* Iterations of a for_each appear atomic: when two operators are past     *)
(* their last acquire at the same time, what one of them writes under      *)
(* protection is nothing the other one accesses under protection.          *)
(***************************************************************************)
Isolation ==
  \A t, u \in Owners :
    t # u /\ InBody(t) /\ InBody(u) =>
      \A a \in Accesses(t), b \in Accesses(u) :
        a.obj = b.obj => a.flag # "WRITE" /\ b.flag # "WRITE"

AllDone == \A t \in Owners : ex_pc[t] = "done"

================================================================================
