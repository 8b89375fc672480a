------------------------------- MODULE ThreadPool -------------------------------
(***************************************************************************)
(* The thread pool, libgalois/src/ThreadPool.cpp and its header: run(num)  *)
(* wakes the threads [1, num) along a binary tree of ranges, every thread  *)
(* executes work, and completion is collected along the same tree. Threads *)
(* wait on a condition variable, or spin on fastRelease in fast mode       *)
(* (burnPower, beKind). runDedicated takes a thread out of the pool for    *)
(* good, and the destructor shuts the others down.                         *)
(***************************************************************************)
EXTENDS Naturals

CONSTANTS PoolSize,                \* getMaxThreads()
          DedicatedModes    \* subset of {"slow", "fast"}: modes of the pool in
                            \* which the program calls runDedicated

ASSUME PoolAssumption == PoolSize \in Nat \ {0}

PoolThreads == 0 .. PoolSize - 1

VARIABLES pool_pc,               \* where each thread is; thread 0 is the caller
          wbegin, wend,     \* range a thread has to wake
          done,             \* per_signal::done
          fastRelease,      \* per_signal::fastRelease
          fastmode,         \* local of threadLoop
          masterFastmode,
          reserved,
          work,             \* what run() was given, "none" outside
          todo,             \* what the caller does when its run() returns
          ran               \* executions of the last parallel section

poolVars == <<pool_pc, wbegin, wend, done, fastRelease, fastmode, masterFastmode, reserved, work, todo, ran>>

Modes == {"none", "user", "fastOn", "fastOff", "shutdown", "dedicated"}

PoolTypeOK ==
  /\ pool_pc \in [PoolThreads -> {"out", "resume", "waking", "spinning", "joining", "gone",
                         "wait", "release", "asleep", "cascade1", "cascade2", "work",
                         "decascade1", "decascade2", "dedicated", "exit"}]
  /\ wbegin \in [PoolThreads -> 0 .. PoolSize]
  /\ wend \in [PoolThreads -> 0 .. PoolSize]
  /\ done \in [PoolThreads -> BOOLEAN]
  /\ fastRelease \in [PoolThreads -> BOOLEAN]
  /\ fastmode \in [PoolThreads -> BOOLEAN]
  /\ masterFastmode \in 0 .. PoolSize
  /\ reserved \in 0 .. PoolSize - 1
  /\ work \in Modes
  /\ todo \in [then : {"return", "burn", "burnAgain", "kind", "destroy"}, num : 0 .. PoolSize]
  /\ ran \in [PoolThreads -> 0 .. 2]

\* The constructor returns when every thread has set done; it need not have
\* reached wait() yet.
PoolInit ==
  /\ pool_pc = [t \in PoolThreads |-> IF t = 0 THEN "out" ELSE "wait"]
  /\ wbegin = [t \in PoolThreads |-> 0]
  /\ wend = [t \in PoolThreads |-> 0]
  /\ done = [t \in PoolThreads |-> TRUE]
  /\ fastRelease = [t \in PoolThreads |-> FALSE]
  /\ fastmode = [t \in PoolThreads |-> FALSE]
  /\ masterFastmode = 0
  /\ reserved = 0
  /\ work = "none"
  /\ todo = [then |-> "return", num |-> 0]
  /\ ran = [t \in PoolThreads |-> 0]

GoOn(t, label) == pool_pc' = [pool_pc EXCEPT ![t] = label]

MinOf(a, b) == IF a < b THEN a ELSE b
MaxOf(a, b) == IF a > b THEN a ELSE b

getMaxUsableThreads == PoolSize - reserved

--------------------------------------------------------------------------------
\* sanitize num
Sanitized(num) == MinOf(MaxOf(1, num), getMaxUsableThreads)

\* run(num, w) up to cascade(); then says what follows its return
Run(num, w, then) ==
  /\ work' = w
  /\ todo' = then
  /\ wbegin' = [wbegin EXCEPT ![0] = 1]
  /\ wend' = [wend EXCEPT ![0] = Sanitized(num)]
  /\ GoOn(0, "cascade1")
  /\ ran' = IF w = "user" THEN [t \in PoolThreads |-> 0] ELSE ran
  /\ UNCHANGED <<done, fastRelease, fastmode, masterFastmode, reserved>>

\* A parallel section. In fast mode callers keep to the number of threads
\* they burn power with.
CallRun(num) ==
  /\ pool_pc[0] = "out"
  /\ masterFastmode \in {0, num}
  /\ Run(num, "user", [then |-> "return", num |-> num])

\* changing number of threads? just do a reset
Reset(n) == masterFastmode # 0 /\ masterFastmode # n

BurnPower(num) ==
  LET n == MinOf(num, getMaxUsableThreads)
  IN  /\ pool_pc[0] = "out"
      /\ masterFastmode = n => n = 0
      /\ IF Reset(n)
         THEN Run(masterFastmode, "fastOff", [then |-> "burnAgain", num |-> n])
         ELSE Run(n, "fastOn", [then |-> "burn", num |-> n])

BeKind ==
  /\ pool_pc[0] = "out"
  /\ masterFastmode # 0
  /\ Run(masterFastmode, "fastOff", [then |-> "kind", num |-> 0])

\* ~ThreadPool: beKind, then run the shutdown on all threads
DestroyPool ==
  /\ pool_pc[0] = "out"
  /\ IF masterFastmode # 0
     THEN Run(masterFastmode, "fastOff", [then |-> "destroy", num |-> 0])
     ELSE Run(PoolSize, "shutdown", [then |-> "return", num |-> PoolSize])

\* Too many dedicated threads
MayReserve == reserved + 1 < PoolSize

\* runDedicated up to child->done = 0
RunDedicated ==
  LET child == PoolSize - reserved - 1
  IN  /\ pool_pc[0] = "out"
      /\ (IF masterFastmode = 0 THEN "slow" ELSE "fast") \in DedicatedModes
      /\ MayReserve
      /\ reserved' = reserved + 1
      /\ work' = "dedicated"
      /\ wbegin' = [wbegin EXCEPT ![child] = 0]
      /\ wend' = [wend EXCEPT ![child] = 0]
      /\ done' = [done EXCEPT ![child] = FALSE]
      /\ GoOn(0, "waking")
      /\ UNCHANGED <<fastRelease, fastmode, masterFastmode, todo, ran>>

DedicatedChild == PoolSize - reserved

Wakeups_NoNotify(c) == pool_pc[c]

\* cv.notify_one() sends a sleeping thread back to its predicate
Wakeups(c) == IF pool_pc[c] = "asleep" THEN "wait" ELSE pool_pc[c]

\* per_signal::wakeup(fast) of thread c, by a thread that goes on at label
Wakeup(t, label, c, fast) ==
  /\ done' = [done EXCEPT ![c] = FALSE]
  /\ fastRelease' = IF fast THEN [fastRelease EXCEPT ![c] = TRUE] ELSE fastRelease
  /\ pool_pc' = [pool_pc EXCEPT ![t] = label, ![c] = IF fast THEN @ ELSE Wakeups(c)]

\* child->wakeup(masterFastmode)
WakeDedicated ==
  /\ pool_pc[0] = "waking"
  /\ Wakeup(0, "spinning", DedicatedChild, masterFastmode # 0)
  /\ UNCHANGED <<wbegin, wend, fastmode, masterFastmode, reserved, work, todo, ran>>

\* while (!child->done)
DedicatedStarted ==
  /\ pool_pc[0] = "spinning"
  /\ done[DedicatedChild]
  /\ work' = "none"
  /\ GoOn(0, "out")
  /\ UNCHANGED <<wbegin, wend, done, fastRelease, fastmode, masterFastmode, reserved, todo, ran>>

--------------------------------------------------------------------------------
\* per_signal::wait(false): the predicate is tested with the mutex held
WaitSlow(t) ==
  /\ t # 0
  /\ pool_pc[t] = "wait"
  /\ ~fastmode[t]
  /\ GoOn(t, IF done[t] THEN "asleep" ELSE "cascade1")
  /\ UNCHANGED <<wbegin, wend, done, fastRelease, fastmode, masterFastmode, reserved, work, todo, ran>>

\* a condition variable may wake up spuriously
SpuriousWakeup(t) ==
  /\ pool_pc[t] = "asleep"
  /\ GoOn(t, "wait")
  /\ UNCHANGED <<wbegin, wend, done, fastRelease, fastmode, masterFastmode, reserved, work, todo, ran>>

Consumed_Kept(t) == fastRelease

\* fastRelease = 0
Consumed(t) == [fastRelease EXCEPT ![t] = FALSE]

\* per_signal::wait(true), up to the end of its loop
WaitFast(t) ==
  /\ t # 0
  /\ pool_pc[t] = "wait"
  /\ fastmode[t]
  /\ fastRelease[t]
  /\ GoOn(t, "release")
  /\ UNCHANGED <<wbegin, wend, done, fastRelease, fastmode, masterFastmode, reserved, work, todo, ran>>

ConsumeRelease(t) ==
  /\ pool_pc[t] = "release"
  /\ fastRelease' = Consumed(t)
  /\ GoOn(t, "cascade1")
  /\ UNCHANGED <<wbegin, wend, done, fastmode, masterFastmode, reserved, work, todo, ran>>

Midpoint(t) == wbegin[t] + (1 + wend[t] - wbegin[t]) \div 2

IsFast(t) == IF t = 0 THEN masterFastmode # 0 ELSE fastmode[t]

NothingToWake(t) ==
  /\ pool_pc[t] = "cascade1"
  /\ wbegin[t] = wend[t]
  /\ GoOn(t, "work")
  /\ UNCHANGED <<wbegin, wend, done, fastRelease, fastmode, masterFastmode, reserved, work, todo, ran>>

\* cascade: the first child
Cascade1(t) ==
  LET child1 == wbegin[t]
  IN  /\ pool_pc[t] = "cascade1"
      /\ wbegin[t] # wend[t]
      /\ wbegin' = [wbegin EXCEPT ![child1] = wbegin[t] + 1]
      /\ wend' = [wend EXCEPT ![child1] = Midpoint(t)]
      /\ Wakeup(t, "cascade2", child1, IsFast(t))
      /\ UNCHANGED <<fastmode, masterFastmode, reserved, work, todo, ran>>

HasSecond_Never(t) == FALSE

HasSecond(t) == Midpoint(t) < wend[t]

\* cascade: the second child, if there is one
Cascade2(t) ==
  LET child2 == Midpoint(t)
  IN  /\ pool_pc[t] = "cascade2"
      /\ IF HasSecond(t)
         THEN /\ wbegin' = [wbegin EXCEPT ![child2] = child2 + 1]
              /\ wend' = [wend EXCEPT ![child2] = wend[t]]
              /\ Wakeup(t, "work", child2, IsFast(t))
         ELSE /\ GoOn(t, "work")
              /\ UNCHANGED <<wbegin, wend, done, fastRelease>>
      /\ UNCHANGED <<fastmode, masterFastmode, reserved, work, todo, ran>>

--------------------------------------------------------------------------------
\* work() of a parallel section
Execute(t) ==
  /\ pool_pc[t] = "work"
  /\ work = "user"
  /\ ran' = [ran EXCEPT ![t] = @ + 1]
  /\ GoOn(t, "decascade1")
  /\ UNCHANGED <<wbegin, wend, done, fastRelease, fastmode, masterFastmode, reserved, work, todo>>

\* work() throws fastmode_ty; the caller has no fastmode of its own
SetFastmode(t) ==
  /\ pool_pc[t] = "work"
  /\ work \in {"fastOn", "fastOff"}
  /\ fastmode' = IF t = 0 THEN fastmode ELSE [fastmode EXCEPT ![t] = (work = "fastOn")]
  /\ GoOn(t, "decascade1")
  /\ UNCHANGED <<wbegin, wend, done, fastRelease, masterFastmode, reserved, work, todo, ran>>

\* work() throws shutdown_ty; the caller goes on to join the threads
Shutdown(t) ==
  /\ pool_pc[t] = "work"
  /\ work = "shutdown"
  /\ GoOn(t, IF t = 0 THEN "joining" ELSE "exit")
  /\ UNCHANGED <<wbegin, wend, done, fastRelease, fastmode, masterFastmode, reserved, work, todo, ran>>

\* work() throws dedicated_ty: me.done = 1; dt.fn()
BecomeDedicated(t) ==
  /\ pool_pc[t] = "work"
  /\ work = "dedicated"
  /\ done' = [done EXCEPT ![t] = TRUE]
  /\ GoOn(t, "dedicated")
  /\ UNCHANGED <<wbegin, wend, fastRelease, fastmode, masterFastmode, reserved, work, todo, ran>>

\* the dedicated function may return; the thread never comes back
DedicatedReturns(t) ==
  /\ pool_pc[t] = "dedicated"
  /\ GoOn(t, "exit")
  /\ UNCHANGED <<wbegin, wend, done, fastRelease, fastmode, masterFastmode, reserved, work, todo, ran>>

Join ==
  /\ pool_pc[0] = "joining"
  /\ \A t \in PoolThreads \ {0} : pool_pc[t] = "exit"
  /\ GoOn(0, "gone")
  /\ UNCHANGED <<wbegin, wend, done, fastRelease, fastmode, masterFastmode, reserved, work, todo, ran>>

FirstIsDone_Assumed(t) == TRUE

\* decascade: while (!c1done)
FirstIsDone(t) == wbegin[t] # wend[t] => done[wbegin[t]]

Decascade1(t) ==
  /\ pool_pc[t] = "decascade1"
  /\ FirstIsDone(t)
  /\ GoOn(t, "decascade2")
  /\ UNCHANGED <<wbegin, wend, done, fastRelease, fastmode, masterFastmode, reserved, work, todo, ran>>

\* decascade: while (!c2done)
SecondIsDone(t) == wbegin[t] # wend[t] /\ HasSecond(t) => done[Midpoint(t)]

\* me.done = 1, and a worker waits for its next task
Decascade2(t) ==
  /\ t # 0
  /\ pool_pc[t] = "decascade2"
  /\ SecondIsDone(t)
  /\ done' = [done EXCEPT ![t] = TRUE]
  /\ GoOn(t, "wait")
  /\ UNCHANGED <<wbegin, wend, fastRelease, fastmode, masterFastmode, reserved, work, todo, ran>>

\* run() returns; masterFastmode = num or 0 in burnPower and beKind
ReturnFromRun ==
  /\ pool_pc[0] = "decascade2"
  /\ SecondIsDone(0)
  /\ done' = [done EXCEPT ![0] = TRUE]
  /\ work' = "none"
  /\ masterFastmode' = CASE todo.then = "return" -> masterFastmode
                         [] todo.then = "burn" -> todo.num
                         [] OTHER -> 0
  /\ GoOn(0, IF todo.then \in {"burnAgain", "destroy"} THEN "resume" ELSE "out")
  /\ UNCHANGED <<wbegin, wend, fastRelease, fastmode, reserved, todo, ran>>

\* the run() that follows the reset in burnPower and destroyCommon
Resume ==
  /\ pool_pc[0] = "resume"
  /\ IF todo.then = "burnAgain"
     THEN Run(todo.num, "fastOn", [then |-> "burn", num |-> todo.num])
     ELSE Run(PoolSize, "shutdown", [then |-> "return", num |-> PoolSize])

--------------------------------------------------------------------------------
Call ==
  \/ \E num \in 0 .. PoolSize : CallRun(num) \/ BurnPower(num)
  \/ BeKind \/ DestroyPool \/ RunDedicated

Caller == WakeDedicated \/ DedicatedStarted \/ Join \/ ReturnFromRun \/ Resume

PoolStep(t) ==
  \/ WaitSlow(t) \/ WaitFast(t) \/ ConsumeRelease(t)
  \/ NothingToWake(t) \/ Cascade1(t) \/ Cascade2(t)
  \/ Execute(t) \/ SetFastmode(t) \/ Shutdown(t) \/ BecomeDedicated(t)
  \/ Decascade1(t) \/ Decascade2(t)

PoolNext ==
  \/ Call
  \/ Caller
  \/ \E t \in PoolThreads : PoolStep(t) \/ SpuriousWakeup(t) \/ DedicatedReturns(t)

PoolSpec == PoolInit /\ [][PoolNext]_poolVars

\* Every thread is scheduled; the program need not call anything, a condition
\* variable need not wake up by itself, a dedicated function need not return.
FairPoolSpec == PoolSpec /\ WF_poolVars(Caller) /\ \A t \in PoolThreads : WF_poolVars(PoolStep(t))

--------------------------------------------------------------------------------
Idle(t) == pool_pc[t] \in {"wait", "asleep"} /\ done[t] /\ ~fastRelease[t]

\* The assertions of cascade (wbegin <= wend) and of runInternal (fast mode
\* is off, or on for exactly the threads of this run).
PoolAssertions ==
  /\ \A t \in PoolThreads : pool_pc[t] = "cascade1" => wbegin[t] <= wend[t]
  /\ pool_pc[0] = "cascade1" => masterFastmode \in {0, wend[0]}

(***************************************************************************)
(* cascade writes wbegin, wend and done of another thread's mailbox with   *)
(* no lock held: that thread has finished the section before, has no       *)
(* wakeup pending, and is in the mode in which it is woken up. The types   *)
(* are part of the invariant.                                              *)
(***************************************************************************)
MailboxOwnerIdle ==
  /\ PoolTypeOK
  /\ \A t \in PoolThreads :
       LET Safe(c) == Idle(c) /\ fastmode[c] = IsFast(t)
       IN  /\ pool_pc[t] = "cascade1" /\ wbegin[t] # wend[t] => Safe(wbegin[t])
           /\ pool_pc[t] = "cascade2" /\ HasSecond(t) => Safe(Midpoint(t))

(***************************************************************************)
(* work refers to a local of run(): no thread is about to call it, or      *)
(* still inside it, once run() or runDedicated has returned and cleared    *)
(* it. The assertions of cascade and of runInternal hold.                  *)
(***************************************************************************)
WorkOutlivesItsUse ==
  /\ work = "none" => \A t \in PoolThreads : pool_pc[t] \notin {"cascade1", "cascade2", "work"}
  /\ PoolAssertions

(***************************************************************************)
(* run(num) returns only when each of the num threads (at least one, at    *)
(* most the usable ones) has executed the section exactly once, and no     *)
(* other has.                                                              *)
(***************************************************************************)
RunCompletes ==
  [][work = "user" /\ work' = "none" =>
       ran = [t \in PoolThreads |->
                IF t < PoolSize - reserved /\ (t < todo.num \/ t = 0) THEN 1 ELSE 0]]_poolVars

(***************************************************************************)
(* run, burnPower, beKind and the destructor return to the program; only   *)
(* the destructor waits, in join, for a dedicated function that does not   *)
(* return.                                                                 *)
(***************************************************************************)
OperationsReturn ==
  pool_pc[0] \notin {"out", "gone", "waking", "spinning"} ~>
    \/ pool_pc[0] \in {"out", "gone"}
    \/ pool_pc[0] = "joining" /\ \E t \in PoolThreads : pool_pc[t] = "dedicated"

\* runDedicated returns once the thread has been handed over.
RunDedicatedReturns == pool_pc[0] \in {"waking", "spinning"} ~> pool_pc[0] = "out"

================================================================================
