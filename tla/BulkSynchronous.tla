---------------------------- MODULE BulkSynchronous ----------------------------
(***************************************************************************)
(* The bulk-synchronous scheduler                                          *)
(* (libgalois/include/galois/worklists/BulkSynchronous.h) under the        *)
(* threads of a for_each loop (Executor_ForEach.h): two chunked worklists  *)
(* that swap roles when the threads meet at a barrier inside pop. The      *)
(* worklists keep the promise of WorklistSpec, the barrier that of         *)
(* BarrierSpec, and the loop ends as TerminationSpec says, once the last   *)
(* turn of every thread found no work. An item that meets a conflict goes  *)
(* to the queues of the executor's AbortHandler.                           *)
(***************************************************************************)
EXTENDS Naturals, Sequences

CONSTANTS N,           \* activeThreads
          Initial,     \* Initial[t]: the items thread t pushes first
          Creates,     \* Creates[x]: the sequence of items that x pushes
          MaxAborts    \* bound: how often an item meets a conflict

Threads == 0 .. N - 1
Elements == DOMAIN Creates
Items == {0, 1} \X Elements
NoItem == "none"

VARIABLES round, some, isEmpty,   \* the members of BulkSynchronous
          entered,                \* calls of barrier.wait() by each thread
          pc,
          item, out,              \* the item in a thread's hand, what it has to push
          aborted, retries,       \* AbortHandler: its queues, the retries of an item
          didWork,                \* "yes", "no", or "reported" when a turn without
                                  \* work was the last thing the detector heard
          status,                 \* each item: "unborn", "waiting" or "done"
          born, swaps,            \* history: the rounds of items and threads
          mine, shared, seen      \* the two worklists

bulk == <<round, some, isEmpty>>
loop == <<aborted, retries, didWork>>
history == <<status, born, swaps>>
parts == <<mine, shared, seen>>
vars == <<bulk, entered, pc, item, out, loop, history, parts>>

wl == INSTANCE WorklistSpec WITH st <- pc

PerThread(v) == [t \in Threads |-> v]
Set(f, t, v) == f' = [f EXCEPT ![t] = v]
Goto(t, p) == Set(pc, t, p)

\* What is in worklist wls[w].
In(w) == {w} \X Elements

Init ==
  /\ round = PerThread(0) /\ some = FALSE /\ isEmpty = FALSE
  /\ entered = PerThread(0)
  /\ pc = PerThread("push")
  /\ item = PerThread(NoItem) /\ out = Initial
  /\ aborted = PerThread(<<>>) /\ retries = [x \in Elements |-> 0]
  /\ didWork = PerThread("no")
  /\ status = [x \in Elements |-> "unborn"]
  /\ born = [x \in Elements |-> 0] /\ swaps = PerThread(0)
  /\ mine = PerThread({}) /\ shared = {} /\ seen = PerThread({})

--------------------------------------------------------------------------------
(* push *)

PushTo_Current(t) == round[t]

\* wls[(round + 1) & 1]
PushTo(t) == (round[t] + 1) % 2

\* push(val), for push_initial and when an iteration commits
Push(t) ==
  /\ pc[t] = "push" /\ out[t] # <<>>
  /\ LET x == Head(out[t])
         w == PushTo(t)
     IN  /\ \E P \in SUBSET (mine[t] \cap In(w)) : wl!Add(t, <<w, x>>, P)
         /\ Set(status, x, "waiting")
         /\ Set(born, x, swaps[t] + 1)
  /\ Set(out, t, Tail(out[t]))
  /\ UNCHANGED <<bulk, entered, pc, item, loop, swaps>>

\* The end of push_initial
EndInitial(t) ==
  /\ pc[t] = "push" /\ out[t] = <<>> /\ item[t] = NoItem
  /\ Set(round, t, 1)
  /\ Set(swaps, t, 1)
  /\ some' = TRUE
  /\ Goto(t, "meet")
  /\ UNCHANGED <<isEmpty, entered, item, out, loop, status, born, parts>>

\* The executor's barrier between initThread and the loop
Meet(t) ==
  /\ pc[t] = "meet" /\ \A u \in Threads : swaps[u] > 0
  /\ Goto(t, "pop")
  /\ UNCHANGED <<bulk, entered, item, out, loop, history, parts>>

--------------------------------------------------------------------------------
(* pop *)

\* if (isEmpty) return r; otherwise the pop of wls[round] begins
BeginPop(t) ==
  /\ pc[t] = "pop"
  /\ \/ isEmpty /\ Goto(t, IF MaxAborts > 0 THEN "aborts" ELSE "turn") /\ UNCHANGED parts
     \/ ~isEmpty /\ Goto(t, "first") /\ wl!LookInto(t, In(round[t]))
  /\ UNCHANGED <<bulk, entered, item, out, loop, history>>

\* wls[round].pop() returns x
Gets(t, x) ==
  \/ wl!TakeOwn(t, <<round[t], x>>)
  \/ \E C \in SUBSET (shared \cap In(round[t])) :
       <<round[t], x>> \in C /\ wl!TakeShared(t, C, {<<round[t], x>>})

\* some.get() = true, if the pop behind the barrier finds an item
NotesSome(t) == some \/ pc[t] = "second"

PopGets(t, x) ==
  /\ pc[t] \in {"first", "second"}
  /\ Gets(t, x)
  /\ some' = NotesSome(t)
  /\ Set(item, t, x)
  /\ Set(didWork, t, "yes")
  /\ Goto(t, "run")
  /\ UNCHANGED <<round, isEmpty, entered, out, aborted, retries, history>>

\* No item: into barrier.wait(), or around the loop of pop
PopMisses(t) ==
  /\ pc[t] \in {"first", "second"}
  /\ wl!FindsNothing(t, In(round[t]))
  /\ IF pc[t] = "first"
     THEN Goto(t, "wait1") /\ Set(entered, t, entered[t] + 1)
     ELSE Goto(t, "pop") /\ UNCHANGED entered
  /\ UNCHANGED <<bulk, item, out, loop, history, parts>>

\* Everybody has called barrier.wait() as often as t.
AllMet(t) == \A u \in Threads : entered[u] >= entered[t]

LeaveFirst(t) ==
  /\ pc[t] = "wait1" /\ AllMet(t)
  /\ Goto(t, IF t = 0 THEN "test" ELSE "swap")
  /\ UNCHANGED <<bulk, entered, item, out, loop, history, parts>>

\* Thread 0 looks at some and clears it
TestSome(t) ==
  /\ pc[t] = "test"
  /\ isEmpty' = (isEmpty \/ ~some)
  /\ some' = FALSE
  /\ Goto(t, "swap")
  /\ UNCHANGED <<round, entered, item, out, loop, history, parts>>

\* round = (round + 1) & 1, and into the second barrier.wait()
Swap(t) ==
  /\ pc[t] = "swap"
  /\ Set(round, t, (round[t] + 1) % 2)
  /\ Set(swaps, t, swaps[t] + 1)
  /\ Set(entered, t, entered[t] + 1)
  /\ Goto(t, "wait2")
  /\ UNCHANGED <<some, isEmpty, item, out, loop, status, born, parts>>

MetAgain_NoBarrier(t) == TRUE

MetAgain(t) == AllMet(t)

LeaveSecond(t) ==
  /\ pc[t] = "wait2" /\ MetAgain(t)
  /\ wl!LookInto(t, In(round[t]))
  /\ Goto(t, "second")
  /\ UNCHANGED <<bulk, entered, item, out, loop, history>>

--------------------------------------------------------------------------------
(* The loop around pop *)

\* The operator meets no conflict
Commit(t) ==
  /\ pc[t] = "run"
  /\ Set(out, t, Creates[item[t]])
  /\ Goto(t, "push")
  /\ UNCHANGED <<bulk, entered, item, loop, history, parts>>

\* What it has created is pushed: on with the worklist, or the aborted items if
\* this was one
EndPush(t) ==
  /\ pc[t] = "push" /\ out[t] = <<>> /\ item[t] # NoItem
  /\ Goto(t, IF retries[item[t]] = 0 THEN "pop" ELSE "aborts")
  /\ Set(status, item[t], "done")
  /\ Set(item, t, NoItem)
  /\ UNCHANGED <<bulk, entered, out, loop, born, swaps, parts>>

\* doublePolicy on one socket: twice with the thread, then half way to thread 0
Queue(t, n) == IF n = 1 \/ (n - 1) % 2 = 1 THEN t ELSE t \div 2

\* It meets one, with the iteration another thread is in: the item is put off, and
\* the thread leaves the worklist or the aborted items
Abort(t) ==
  /\ pc[t] = "run"
  /\ \E u \in Threads \ {t} : item[u] # NoItem
  /\ LET n == retries[item[t]] + 1
         q == Queue(t, n)
     IN  /\ n <= MaxAborts
         /\ Set(retries, item[t], n)
         /\ Set(aborted, q, Append(aborted[q], item[t]))
         /\ Goto(t, IF n = 1 THEN "aborts" ELSE "turn")
  /\ Set(item, t, NoItem)
  /\ UNCHANGED <<bulk, entered, out, didWork, history, parts>>

\* handleAborts, in loops with conflict detection. (A turn of at most a few items
\* never reaches the limit of runQueue<64>, after which a leader also comes here.)
HandleAborts(t) ==
  /\ pc[t] = "aborts"
  /\ \/ /\ aborted[t] # <<>>
        /\ Set(item, t, Head(aborted[t]))
        /\ Set(aborted, t, Tail(aborted[t]))
        /\ Set(didWork, t, "yes")
        /\ Goto(t, "run")
     \/ /\ aborted[t] = <<>>
        /\ Goto(t, "turn")
        /\ UNCHANGED <<item, aborted, didWork>>
  /\ UNCHANGED <<bulk, entered, out, retries, history, parts>>

\* localTermination(didWork) and globalTermination()
Turn(t) ==
  /\ pc[t] = "turn"
  /\ Set(didWork, t, IF didWork[t] = "yes" THEN "no" ELSE "reported")
  /\ Goto(t, IF \A u \in Threads : didWork'[u] = "reported" THEN "done" ELSE "pop")
  /\ UNCHANGED <<bulk, entered, item, out, aborted, retries, history, parts>>

Step(t) ==
  \/ Push(t) \/ EndInitial(t) \/ Meet(t)
  \/ BeginPop(t) \/ (\E x \in Elements : PopGets(t, x)) \/ PopMisses(t)
  \/ LeaveFirst(t) \/ TestSome(t) \/ Swap(t) \/ LeaveSecond(t)
  \/ Commit(t) \/ EndPush(t) \/ HandleAborts(t) \/ Turn(t)

Next == \E t \in Threads : Step(t) \/ Abort(t)

\* Threads run; nothing obliges an iteration to meet a conflict.
Fairness == \A t \in Threads : WF_vars(Step(t))

Spec == Init /\ [][Next]_vars
FairSpec == Spec /\ Fairness

--------------------------------------------------------------------------------
(***************************************************************************)
(* While an item of one round is in some thread's hand, no item of an      *)
(* earlier round is waiting or in hand: a thread that is through its       *)
(* barrier first cannot get ahead of work it did not see. Threads are      *)
(* never more than one swap apart, so the two worklists are enough.        *)
(***************************************************************************)
RoundsSeparate ==
  /\ \A t \in Threads, x \in Elements :
       item[t] # NoItem /\ status[x] = "waiting" => born[item[t]] <= born[x]
  /\ \A t, u \in Threads : swaps[t] <= swaps[u] + 1

(***************************************************************************)
(* A thread leaves the loop only when each item that was ever pushed has   *)
(* been processed: isEmpty, which ends all pops for good, is set after a   *)
(* round in which nobody found an item, and not one round early.           *)
(***************************************************************************)
NothingLeft == \A x \in Elements : (\E t \in Threads : pc[t] = "done") => status[x] # "waiting"

(***************************************************************************)
(* Every thread leaves: nobody is left alone in the barrier inside pop.    *)
(***************************************************************************)
AllOut == \A t \in Threads : pc[t] = "done"

AllLeave == <>AllOut

================================================================================
