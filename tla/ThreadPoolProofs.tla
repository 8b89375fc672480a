--------------------------- MODULE ThreadPoolProofs ----------------------------
(***************************************************************************)
(* Theorems about the thread pool that every parallel loop runs on, for    *)
(* every number of threads.                                                *)
(***************************************************************************)
EXTENDS ThreadPool, TLAPS

--------------------------------------------------------------------------------
(***************************************************************************)
(* The inductive invariant of the thread pool.                             *)
(***************************************************************************)
InCascade == {"cascade1", "cascade2", "work", "decascade1", "decascade2"}

\* run() is active, or the destructor has run the shutdown.
Sectioned == pool_pc[0] \in InCascade \cup {"joining", "gone"}

\* runDedicated is active.
Dedicating == pool_pc[0] \in {"waking", "spinning"}

\* The threads of the present section.
Party == 0 .. wend[0] - 1

\* A thread's mode when the section began, and when the thread has executed it.
ModeOf(u) == masterFastmode # 0 /\ u < masterFastmode
ModeAfter(u) ==
  \/ work = "fastOn"
  \/ work # "fastOff" /\ ModeOf(u)

\* A thread that has not been woken up for the section, and one that is through
\* with it.
Untouched(u) == Idle(u) /\ (fastmode[u] <=> ModeOf(u)) /\ (work = "user" => ran[u] = 0)
Through(u) == Idle(u) /\ (fastmode[u] <=> ModeAfter(u)) /\ (work = "user" => ran[u] = 1)

Woken(u) == pool_pc[u] = "wait" /\ ~done[u] /\ (fastRelease[u] <=> fastmode[u])
Released(u) == pool_pc[u] = "release" /\ ~done[u] /\ fastRelease[u] /\ fastmode[u]
Cascading(u) == pool_pc[u] \in InCascade /\ (u # 0 => ~done[u] /\ ~fastRelease[u])

\* A thread between its wakeup and the end of its decascade.
Busy(u) == Cascading(u) \/ (u # 0 /\ (Woken(u) \/ Released(u)))

\* The range a busy thread is responsible for begins behind it.
Ranged(t) == wbegin[t] = t + 1 /\ t < wend[t] /\ wend[t] <= wend[0]

Executed(t) == pool_pc[t] \in {"decascade1", "decascade2"}

\* A busy thread's own mode and count.
Current(t) ==
  /\ t # 0 => (fastmode[t] <=> IF Executed(t) THEN ModeAfter(t) ELSE ModeOf(t))
  /\ work = "user" => ran[t] = IF Executed(t) THEN 1 ELSE 0
  /\ work = "shutdown" => ~Executed(t)

\* u is in the part of t's range that t has not handed to a child yet.
InReach(t, u) ==
  /\ u < wend[t]
  /\ \/ t < u /\ pool_pc[t] \in {"wait", "release", "cascade1"}
     \/ Midpoint(t) <= u /\ pool_pc[t] = "cascade2"

\* The range of a later thread is behind that of an earlier one, or in one of
\* its two halves.
Nested(p, q) ==
  \/ wend[p] <= q
  \/ q < Midpoint(p) /\ wend[q] <= Midpoint(p)
  \/ Midpoint(p) <= q /\ wend[q] <= wend[p]

\* The threads c .. e - 1 are through, or c still answers for them.
Rooted(c, e) ==
  \/ \A u \in Party : c <= u /\ u < e => Through(u)
  \/ c \in Party /\ Busy(c) /\ wend[c] = e

\* What a thread knows of the two halves of its range.
Awaits(p) ==
  /\ pool_pc[p] \in {"cascade2", "work", "decascade1"} => Rooted(p + 1, Midpoint(p))
  /\ pool_pc[p] = "decascade2" => \A u \in Party : p < u /\ u < Midpoint(p) => Through(u)
  /\ pool_pc[p] \in {"work", "decascade1", "decascade2"} => Rooted(Midpoint(p), wend[p])

Tree ==
  /\ \A t \in Party : Busy(t) => Ranged(t) /\ Current(t)
  /\ \A t, u \in Party : Busy(t) /\ InReach(t, u) => Untouched(u)
  /\ \A p, q \in Party : Busy(p) /\ Busy(q) /\ p < q => Nested(p, q)
  /\ work # "shutdown" => \A p \in Party : Busy(p) => Awaits(p)
  /\ \A u \in Party : u # 0 => Idle(u) \/ Busy(u) \/ (pool_pc[u] = "exit" /\ work = "shutdown")

Outside ==
  /\ \A u \in PoolThreads : wend[0] <= u /\ u < PoolSize - reserved => Untouched(u)
  /\ work = "user" => \A u \in PoolThreads : wend[0] <= u => ran[u] = 0

Request ==
  /\ wend[0] \in 1 .. PoolSize - reserved
  /\ masterFastmode \in {0, wend[0]}
  /\ work \in {"user", "fastOn", "fastOff", "shutdown"}
  /\ work = "user" => todo.then = "return" /\ wend[0] = MinOf(MaxOf(1, todo.num), PoolSize - reserved)
  /\ work = "fastOn" => todo.then = "burn" /\ masterFastmode = 0 /\ wend[0] = MaxOf(1, todo.num)
  /\ work = "fastOff" => /\ todo.then \in {"burnAgain", "kind", "destroy"}
                         /\ masterFastmode # 0 /\ todo.num <= PoolSize - reserved
  /\ work = "shutdown" => masterFastmode = 0
  /\ pool_pc[0] \in {"joining", "gone"} => work = "shutdown"

\* No section and no runDedicated is active.
Between ==
  /\ work = "none"
  /\ masterFastmode <= PoolSize - reserved
  /\ \A u \in PoolThreads : u # 0 /\ u < PoolSize - reserved => Idle(u) /\ (fastmode[u] <=> ModeOf(u))
  /\ pool_pc[0] = "resume" => /\ masterFastmode = 0 /\ todo.then \in {"burnAgain", "destroy"}
                              /\ todo.num <= PoolSize - reserved

\* The thread that runDedicated takes may run ahead of the wakeup it is sent.
Handover ==
  /\ work = "dedicated" /\ masterFastmode = 0
  /\ \A u \in PoolThreads : u # 0 /\ u < DedicatedChild => Idle(u) /\ ~fastmode[u]
  /\ DedicatedChild \in PoolThreads
  /\ wbegin[DedicatedChild] = 0 /\ wend[DedicatedChild] = 0
  /\ ~fastRelease[DedicatedChild] /\ ~fastmode[DedicatedChild]
  /\ pool_pc[DedicatedChild] \in {"wait", "asleep", "cascade1", "work", "dedicated", "exit"}
  /\ done[DedicatedChild] => pool_pc[DedicatedChild] \in {"dedicated", "exit"}

\* The threads that have been taken out of the pool.
Taken ==
  \A u \in PoolThreads :
    u >= PoolSize - reserved /\ (Dedicating => u # DedicatedChild) => pool_pc[u] \in {"dedicated", "exit"}

CallerAt == pool_pc[0] \in {"out", "resume", "waking", "spinning", "joining", "gone"} \cup InCascade

SleepsSlow == \A u \in PoolThreads : pool_pc[u] = "asleep" => ~fastmode[u]

PoolInv ==
  /\ PoolTypeOK /\ CallerAt /\ SleepsSlow /\ Taken
  /\ Sectioned => Request /\ Tree /\ Outside
  /\ pool_pc[0] \in {"out", "resume"} => Between
  /\ Dedicating => Handover

--------------------------------------------------------------------------------
\* A step that leaves thread u alone, and one that leaves the section alone.
SameThread(u) ==
  /\ pool_pc'[u] = pool_pc[u] /\ done'[u] = done[u] /\ fastRelease'[u] = fastRelease[u]
  /\ wbegin'[u] = wbegin[u] /\ wend'[u] = wend[u] /\ fastmode'[u] = fastmode[u] /\ ran'[u] = ran[u]

SameSection == UNCHANGED <<masterFastmode, reserved, work, todo>> /\ wend'[0] = wend[0]

\* A thread that a step leaves alone stays in the state it is in.
LEMMA FrameThread ==
  ASSUME NEW u, SameThread(u), SameSection
  PROVE  /\ Idle(u)' <=> Idle(u)
         /\ Busy(u)' <=> Busy(u)
         /\ Untouched(u)' <=> Untouched(u)
         /\ Through(u)' <=> Through(u)
         /\ Ranged(u)' <=> Ranged(u)
         /\ Current(u)' <=> Current(u)
         /\ Midpoint(u)' = Midpoint(u)
         /\ \A v : InReach(u, v)' <=> InReach(u, v)
<1>1. /\ Idle(u)' <=> Idle(u)
      /\ Busy(u)' <=> Busy(u)
  BY Zenon DEF SameThread, Idle, Busy, Woken, Released, Cascading
<1>2. /\ ModeOf(u)' <=> ModeOf(u)
      /\ ModeAfter(u)' <=> ModeAfter(u)
      /\ Executed(u)' <=> Executed(u)
      /\ Midpoint(u)' = Midpoint(u)
  BY Zenon DEF SameThread, SameSection, ModeOf, ModeAfter, Executed, Midpoint
<1>3. /\ Untouched(u)' <=> Untouched(u)
      /\ Through(u)' <=> Through(u)
  BY <1>1, <1>2 DEF SameThread, SameSection, Untouched, Through
<1>4. Ranged(u)' <=> Ranged(u)
  BY Zenon DEF SameThread, SameSection, Ranged
<1>5. Current(u)' <=> Current(u)
  BY <1>2 DEF SameThread, SameSection, Current
<1>6. \A v : InReach(u, v)' <=> InReach(u, v)
  BY <1>2, Zenon DEF SameThread, InReach
<1> QED
  BY <1>1, <1>2, <1>3, <1>4, <1>5, <1>6, Zenon

\* The threads of a section are threads of the pool.
LEMMA PartyType ==
  ASSUME PoolTypeOK, wend[0] \in 1 .. PoolSize - reserved, NEW u \in Party
  PROVE  u \in PoolThreads /\ u \in Nat /\ u < wend[0]
  BY PoolAssumption DEF PoolTypeOK, Party, PoolThreads

\* The types of one thread's mailbox.
LEMMA ThreadTypes ==
  ASSUME PoolTypeOK, NEW u \in PoolThreads
  PROVE  /\ u \in Nat /\ u < PoolSize
         /\ wbegin[u] \in Nat /\ wend[u] \in Nat /\ wend[u] <= PoolSize
         /\ done[u] \in BOOLEAN /\ fastRelease[u] \in BOOLEAN /\ fastmode[u] \in BOOLEAN
         /\ ran[u] \in Nat
<1>1. wbegin[u] \in 0 .. PoolSize /\ wend[u] \in 0 .. PoolSize /\ ran[u] \in 0 .. 2
  BY Zenon DEF PoolTypeOK
<1>2. /\ u \in Nat /\ u < PoolSize
      /\ wbegin[u] \in Nat /\ wend[u] \in Nat /\ wend[u] <= PoolSize
      /\ ran[u] \in Nat
  BY <1>1, PoolAssumption DEF PoolThreads
<1>3. done[u] \in BOOLEAN /\ fastRelease[u] \in BOOLEAN /\ fastmode[u] \in BOOLEAN
  BY Zenon DEF PoolTypeOK
<1> QED
  BY <1>2, <1>3, Zenon

\* cascade splits a range of at least one thread into a first part that is not
\* empty and a second that may be.
LEMMA MidpointSplits ==
  ASSUME NEW t \in Nat, wend[t] \in Nat, wbegin[t] = t + 1, t < wend[t]
  PROVE  /\ Midpoint(t) \in Nat /\ t + 1 <= Midpoint(t) /\ Midpoint(t) <= wend[t]
         /\ wbegin[t] # wend[t] => t + 1 < Midpoint(t)
  BY SMTT(60) DEF Midpoint

\* A busy thread is not idle.
LEMMA BusyNotIdle == ASSUME NEW u, u # 0, Busy(u) PROVE ~Idle(u)
  BY DEF Busy, Idle, Woken, Released, Cascading, InCascade


\* The rest of the party does not see a step of one busy thread: what is rooted
\* at a thread stays rooted.
LEMMA StayRooted ==
  ASSUME NEW t, Busy(t), Busy(t)', t # 0 => ~Idle(t), wend'[t] = wend[t], SameSection,
         \A u \in Party : u # t => SameThread(u),
         NEW c, NEW e, \A u \in Party : c <= u => u # 0, Rooted(c, e)
  PROVE  Rooted(c, e)'
<1>1. Party' = Party
  BY DEF SameSection, Party
<1>2. CASE \A u \in Party : c <= u /\ u < e => Through(u)
  <2> SUFFICES ASSUME NEW u \in Party, c <= u, u < e PROVE Through(u)'
    BY <1>1, Zenon DEF Rooted
  <2>1. Through(u) /\ u # t
    BY <1>2, Zenon DEF Through
  <2> QED
    BY <2>1, FrameThread, Zenon
<1>3. CASE c \in Party /\ Busy(c) /\ wend[c] = e
  <2>1. Busy(c)' /\ wend'[c] = e
    <3>1. CASE c = t
      BY <1>3, <3>1, Zenon
    <3>2. CASE c # t
      <4>1. SameThread(c)
        BY <1>3, <3>2, Zenon
      <4>2. Busy(c)'
        BY <4>1, <1>3, FrameThread, Zenon
      <4> QED
        BY <4>1, <4>2, <1>3, Zenon DEF SameThread
    <3> QED
      BY <3>1, <3>2, Zenon
  <2> QED
    BY <2>1, <1>1, <1>3, Zenon DEF Rooted
<1> QED
  BY <1>2, <1>3, Zenon DEF Rooted

\* What thread t may count on once it has taken a step to its present label.
Earned(t) ==
  /\ pool_pc'[t] \in {"cascade2", "work", "decascade1"} => Rooted(t + 1, Midpoint(t))
  /\ pool_pc'[t] = "decascade2" => \A u \in Party : t < u /\ u < Midpoint(t) => Through(u)
  /\ pool_pc'[t] \in {"work", "decascade1", "decascade2"} => Rooted(Midpoint(t), wend[t])

(***************************************************************************)
(* A busy thread takes a step and wakes nobody up.                         *)
(***************************************************************************)
LEMMA AdvanceKeepsTree ==
  ASSUME PoolTypeOK, wend[0] \in 1 .. PoolSize - reserved, Tree, SameSection,
         NEW t \in Party, Busy(t), Busy(t)', wbegin'[t] = wbegin[t], wend'[t] = wend[t],
         \A u \in Party : u # t => SameThread(u),
         Current(t)',
         \A u : InReach(t, u)' => InReach(t, u),
         work # "shutdown" => Earned(t)
  PROVE  Tree'
<1>1. Party' = Party /\ work' = work
  BY DEF SameSection, Party
<1>2. \A u \in Party : u \in PoolThreads /\ u \in Nat /\ u < wend[0]
  BY PartyType, Zenon
<1>3. t # 0 => ~Idle(t)
  BY BusyNotIdle, Zenon
<1>4. \A u \in Party : u # t => SameThread(u) /\ (Busy(u)' <=> Busy(u))
  BY FrameThread, Zenon
<1>5. \A u \in Party : Busy(u)' <=> Busy(u)
  BY <1>4, Zenon
<1>6. Midpoint(t)' = Midpoint(t)
  BY Zenon DEF Midpoint
<1>7. \A u \in Party : Midpoint(u)' = Midpoint(u) /\ wend'[u] = wend[u]
  BY <1>6, FrameThread, Zenon DEF SameThread
<1>8. \A u \in Party : Busy(u)' => Ranged(u)' /\ Current(u)'
  <2>1. Ranged(t) /\ Ranged(t)'
    BY Zenon DEF Ranged, SameSection, Tree
  <2> QED
    BY <2>1, <1>5, FrameThread, Zenon DEF Tree
<1>9. \A p, u \in Party : Busy(p)' /\ InReach(p, u)' => Untouched(u)'
  <2> SUFFICES ASSUME NEW p \in Party, NEW u \in Party, Busy(p)', InReach(p, u)' PROVE Untouched(u)'
    BY Zenon
  <2>1. Busy(p) /\ InReach(p, u)
    BY <1>5, FrameThread, Zenon
  <2>2. Untouched(u)
    BY <2>1, Zenon DEF Tree
  <2>3. u # 0
    <3>1. Ranged(p)
      BY <2>1, Zenon DEF Tree
    <3>2. p \in Nat /\ u \in Nat /\ wend[p] \in Nat
      BY <1>2, ThreadTypes, Zenon
    <3> QED
      BY <2>1, <3>1, <3>2, MidpointSplits DEF InReach, Ranged
  <2>4. u # t
    BY <2>2, <2>3, <1>3, Zenon DEF Untouched
  <2> QED
    BY <2>2, <2>4, FrameThread, Zenon
<1>10. \A p, q \in Party : Busy(p)' /\ Busy(q)' /\ p < q => Nested(p, q)'
  BY <1>5, <1>7, Zenon DEF Nested, Tree
<1>11. \A u \in Party : u # 0 => Idle(u)' \/ Busy(u)' \/ (pool_pc'[u] = "exit" /\ work' = "shutdown")
  <2> SUFFICES ASSUME NEW u \in Party, u # 0 PROVE Idle(u)' \/ Busy(u)' \/ (pool_pc'[u] = "exit" /\ work' = "shutdown")
    BY Zenon
  <2>1. CASE u = t
    BY <2>1, Zenon
  <2>2. CASE u # t
    <3>1. SameThread(u)
      BY <2>2, Zenon
    <3> QED
      BY <3>1, <1>1, FrameThread, Zenon DEF SameThread, Tree
  <2> QED
    BY <2>1, <2>2, Zenon
<1>12. ASSUME work # "shutdown", NEW p \in Party, Busy(p)' PROVE Awaits(p)'
  <2>0. Busy(p) /\ Awaits(p) /\ Ranged(p)
    BY <1>5, <1>12, Zenon DEF Tree
  <2>a. p \in Nat /\ Midpoint(p) \in Nat /\ p + 1 <= Midpoint(p) /\ wend[p] \in Nat
    BY <2>0, <1>2, ThreadTypes, MidpointSplits DEF Ranged
  <2>b. \A u \in Party : p + 1 <= u \/ Midpoint(p) <= u => u # 0
    BY <2>a, <1>2
  <2>1. ASSUME Rooted(p + 1, Midpoint(p)) PROVE Rooted(p + 1, Midpoint(p))'
    <3>1. PICK c, e : c = p + 1 /\ e = Midpoint(p)
      OBVIOUS
    <3>2. Rooted(c, e)'
      BY <2>1, <2>b, <3>1, <1>3, StayRooted, Zenon
    <3> QED
      BY <3>1, <3>2, <1>7, Zenon
  <2>2. ASSUME Rooted(Midpoint(p), wend[p]) PROVE Rooted(Midpoint(p), wend[p])'
    <3>1. PICK c, e : c = Midpoint(p) /\ e = wend[p]
      OBVIOUS
    <3>2. Rooted(c, e)'
      BY <2>2, <2>b, <3>1, <1>3, StayRooted, Zenon
    <3> QED
      BY <3>1, <3>2, <1>7, Zenon DEF Rooted
  <2>3. ASSUME \A u \in Party : p < u /\ u < Midpoint(p) => Through(u)
        PROVE  \A u \in Party : p < u /\ u < Midpoint(p) => Through(u)'
    <3> SUFFICES ASSUME NEW u \in Party, p < u, u < Midpoint(p) PROVE Through(u)'
      BY Zenon
    <3>1. Through(u) /\ u # 0
      BY <2>3, <2>a, <1>2
    <3>2. u # t
      BY <3>1, <1>3, Zenon DEF Through
    <3> QED
      BY <3>1, <3>2, FrameThread, Zenon
  <2>4. CASE p = t
    BY <2>1, <2>2, <2>3, <2>4, <1>1, <1>6, <1>12, Zenon DEF Earned, Awaits
  <2>5. CASE p # t
    <3>1. pool_pc'[p] = pool_pc[p]
      BY <2>5, Zenon DEF SameThread
    <3> QED
      BY <2>1, <2>2, <2>3, <2>0, <3>1, <1>1, <1>7, Zenon DEF Awaits
  <2> QED
    BY <2>4, <2>5, Zenon
<1> QED
  BY <1>1, <1>8, <1>9, <1>10, <1>11, <1>12, Zenon DEF Tree


(***************************************************************************)
(* A thread that is not busy after its step: an idle one changes how it    *)
(* waits, a busy one ends its decascade or leaves at the shutdown.         *)
(***************************************************************************)
LEMMA RetireKeepsTree ==
  ASSUME PoolTypeOK, wend[0] \in 1 .. PoolSize - reserved, Tree, SameSection,
         NEW t \in Party, ~Busy(t)',
         t # 0 => Idle(t)' \/ (pool_pc'[t] = "exit" /\ work = "shutdown"),
         \A u \in Party : u # t => SameThread(u),
         Untouched(t) => Untouched(t)' \/ t = 0,
         work # "shutdown" => t # 0 /\ (Through(t) => Through(t)'),
         work # "shutdown" /\ Busy(t) =>
           Through(t)' /\ \A u \in Party : t < u /\ u < wend[t] => Through(u)
  PROVE  Tree'
<1>1. Party' = Party /\ work' = work
  BY DEF SameSection, Party
<1>2. \A u \in Party : u \in PoolThreads /\ u \in Nat /\ u < wend[0]
  BY PartyType, Zenon
<1>3. \A u \in Party : Busy(u)' => u # t /\ SameThread(u) /\ Busy(u)
  BY FrameThread, Zenon
<1>4. \A u \in Party : Busy(u)' => Midpoint(u)' = Midpoint(u) /\ wend'[u] = wend[u]
  BY <1>3, FrameThread, Zenon DEF SameThread
<1>5. \A u \in Party : Busy(u)' => Ranged(u)' /\ Current(u)'
  BY <1>3, FrameThread, Zenon DEF Tree
<1>6. \A p, u \in Party : Busy(p)' /\ InReach(p, u)' => Untouched(u)'
  <2> SUFFICES ASSUME NEW p \in Party, NEW u \in Party, Busy(p)', InReach(p, u)' PROVE Untouched(u)'
    BY Zenon
  <2>1. Busy(p) /\ InReach(p, u)
    BY <1>3, FrameThread, Zenon
  <2>2. Untouched(u)
    BY <2>1, Zenon DEF Tree
  <2>3. u # 0
    <3>1. Ranged(p)
      BY <2>1, Zenon DEF Tree
    <3>2. p \in Nat /\ u \in Nat /\ wend[p] \in Nat
      BY <1>2, ThreadTypes, Zenon
    <3> QED
      BY <2>1, <3>1, <3>2, MidpointSplits DEF InReach, Ranged
  <2> QED
    BY <2>2, <2>3, FrameThread, Zenon
<1>7. \A p, q \in Party : Busy(p)' /\ Busy(q)' /\ p < q => Nested(p, q)'
  BY <1>3, <1>4, Zenon DEF Nested, Tree
<1>8. \A u \in Party : u # 0 => Idle(u)' \/ Busy(u)' \/ (pool_pc'[u] = "exit" /\ work' = "shutdown")
  <2> SUFFICES ASSUME NEW u \in Party, u # 0, u # t PROVE Idle(u)' \/ Busy(u)' \/ (pool_pc'[u] = "exit" /\ work' = "shutdown")
    BY <1>1, Zenon
  <2>1. SameThread(u)
    BY Zenon
  <2> QED
    BY <2>1, <1>1, FrameThread, Zenon DEF SameThread, Tree
<1>9. ASSUME work # "shutdown", NEW p \in Party, Busy(p)' PROVE Awaits(p)'
  <2>0. Busy(p) /\ Awaits(p) /\ SameThread(p) /\ pool_pc'[p] = pool_pc[p]
    BY <1>3, <1>9, Zenon DEF Tree, SameThread
  <2>1. \A u \in Party : Through(u) => Through(u)'
    BY <1>9, FrameThread, Zenon
  <2>2. ASSUME NEW c, NEW e, Rooted(c, e) PROVE Rooted(c, e)'
    <3>1. CASE \A u \in Party : c <= u /\ u < e => Through(u)
      BY <3>1, <2>1, <1>1, Zenon DEF Rooted
    <3>2. CASE c \in Party /\ Busy(c) /\ wend[c] = e
      <4>1. CASE c = t
        <5>1. \A u \in Party : c <= u /\ u < e => c = u \/ c < u
          BY <3>2, <1>2
        <5>2. \A u \in Party : c <= u /\ u < e => Through(u)'
          BY <4>1, <3>2, <5>1, <2>1, <1>9, Zenon
        <5> QED
          BY <5>2, <1>1, Zenon DEF Rooted
      <4>2. CASE c # t
        <5>1. Busy(c)' /\ wend'[c] = e
          BY <3>2, <4>2, FrameThread, Zenon DEF SameThread
        <5> QED
          BY <5>1, <3>2, <1>1, Zenon DEF Rooted
      <4> QED
        BY <4>1, <4>2, Zenon
    <3> QED
      BY <2>2, <3>1, <3>2, Zenon DEF Rooted
  <2>3. ASSUME Rooted(p + 1, Midpoint(p)) PROVE Rooted(p + 1, Midpoint(p))'
    <3>1. PICK c, e : c = p + 1 /\ e = Midpoint(p)
      OBVIOUS
    <3>2. Rooted(c, e)'
      BY <2>3, <2>2, <3>1, Zenon
    <3> QED
      BY <3>1, <3>2, <1>4, <1>9, Zenon
  <2>4. ASSUME Rooted(Midpoint(p), wend[p]) PROVE Rooted(Midpoint(p), wend[p])'
    <3>1. PICK c, e : c = Midpoint(p) /\ e = wend[p]
      OBVIOUS
    <3>2. Rooted(c, e)'
      BY <2>4, <2>2, <3>1, Zenon
    <3> QED
      BY <3>1, <3>2, <1>4, <1>9, Zenon DEF Rooted
  <2> QED
    BY <2>0, <2>1, <2>3, <2>4, <1>1, <1>4, <1>9, Zenon DEF Awaits
<1> QED
  BY <1>1, <1>5, <1>6, <1>7, <1>8, <1>9, Zenon DEF Tree

\* A thread that has not been woken up is not through.
LEMMA UntouchedNotThrough ==
  ASSUME Request, NEW u \in Nat, u < wend[0], work # "shutdown", PoolTypeOK
  PROVE  ~(Untouched(u) /\ Through(u))
  BY DEF Request, Untouched, Through, ModeOf, ModeAfter

\* No thread is in the reach of two threads.
LEMMA OneReach ==
  ASSUME PoolTypeOK, wend[0] \in 1 .. PoolSize - reserved, Tree,
         NEW p \in Party, NEW q \in Party, NEW u \in Party, p < q, Busy(p), Busy(q)
  PROVE  ~(InReach(p, u) /\ InReach(q, u))
<1>1. p \in Nat /\ q \in Nat /\ u \in Nat /\ wend[p] \in Nat /\ wend[q] \in Nat
  BY PartyType, ThreadTypes, Zenon
<1>2. Ranged(p) /\ Ranged(q) /\ Nested(p, q)
  BY Zenon DEF Tree
<1>3. /\ Midpoint(p) \in Nat /\ p + 1 <= Midpoint(p) /\ Midpoint(p) <= wend[p]
      /\ Midpoint(q) \in Nat /\ q + 1 <= Midpoint(q) /\ Midpoint(q) <= wend[q]
  BY <1>1, <1>2, MidpointSplits DEF Ranged
<1>4. ~InReach(p, q)
  <2>1. q # 0
    BY <1>1
  <2> QED
    BY <2>1, BusyNotIdle, Zenon DEF Tree, Untouched
<1> QED
  BY <1>1, <1>2, <1>3, <1>4 DEF InReach, Nested


\* The threads c .. e - 1 are the first or the second part of t's range, and t
\* goes on behind the wakeup of c.
Hands(t, c, e) ==
  \/ /\ pool_pc[t] = "cascade1" /\ pool_pc'[t] = "cascade2" /\ wbegin[t] # wend[t]
     /\ c = t + 1 /\ e = Midpoint(t)
  \/ /\ pool_pc[t] = "cascade2" /\ pool_pc'[t] = "work"
     /\ c = Midpoint(t) /\ e = wend[t] /\ c < e

(***************************************************************************)
(* A busy thread wakes up the first thread of a part of its range.         *)
(***************************************************************************)
LEMMA WakeKeepsTree ==
  ASSUME PoolTypeOK, Request, Tree, SameSection,
         NEW t \in Party, NEW c \in Party, NEW e \in Nat, Hands(t, c, e),
         Busy(t), Busy(t)', wbegin'[t] = wbegin[t], wend'[t] = wend[t], Current(t)',
         Busy(c)', pool_pc'[c] = "wait", wbegin'[c] = c + 1, wend'[c] = e, Current(c)',
         \A u \in Party : u # t /\ u # c => SameThread(u)
  PROVE  Tree'
<1>0. wend[0] \in 1 .. PoolSize - reserved
  BY Zenon DEF Request
<1>1. Party' = Party /\ work' = work
  BY DEF SameSection, Party
<1>2. \A u \in Party : u \in PoolThreads /\ u \in Nat /\ u < wend[0] /\ wend[u] \in Nat
  BY <1>0, PartyType, ThreadTypes, Zenon
<1>3. Ranged(t)
  BY Zenon DEF Tree
<1>4. /\ Midpoint(t) \in Nat /\ t + 1 <= Midpoint(t) /\ Midpoint(t) <= wend[t]
      /\ wbegin[t] # wend[t] => t + 1 < Midpoint(t)
  BY <1>2, <1>3, MidpointSplits DEF Ranged
<1>5. /\ InReach(t, c) /\ t < c /\ c < e /\ e <= wend[t]
  BY <1>2, <1>3, <1>4 DEF Hands, InReach, Ranged
<1>6. Untouched(c) /\ c # 0
  <2>1. c # 0
    BY <1>5, <1>2
  <2> QED
    BY <2>1, <1>5, Zenon DEF Tree
<1>7. ~Busy(c)
  BY <1>6, BusyNotIdle, Zenon DEF Untouched
<1>8. ASSUME NEW u \in Party, u # 0, Idle(u), u # c PROVE SameThread(u)
  BY <1>8, BusyNotIdle, Zenon
<1>9. Midpoint(t)' = Midpoint(t)
  BY Zenon DEF Midpoint
<1>10. \A u \in Party : u # c => (Busy(u)' <=> Busy(u)) /\ Midpoint(u)' = Midpoint(u) /\ wend'[u] = wend[u]
  BY <1>9, FrameThread, Zenon DEF SameThread
<1>11. \A u \in Party : Busy(u)' => Ranged(u)' /\ Current(u)'
  <2>1. Ranged(t)'
    BY <1>3, Zenon DEF Ranged, SameSection
  <2>2. Ranged(c)'
    BY <1>0, <1>2, <1>3, <1>5 DEF Ranged, SameSection
  <2> QED
    BY <2>1, <2>2, <1>10, FrameThread, Zenon DEF Tree
<1>12. \A p, u \in Party : Busy(p)' /\ InReach(p, u)' => Untouched(u)'
  <2> SUFFICES ASSUME NEW p \in Party, NEW u \in Party, Busy(p)', InReach(p, u)' PROVE Untouched(u)'
    BY Zenon
  <2>1. ASSUME NEW q \in Party, Busy(q), InReach(q, u), u # c PROVE Untouched(u)'
    <3>1. Untouched(u)
      BY <2>1, Zenon DEF Tree
    <3>2. u # 0
      <4>1. Ranged(q)
        BY <2>1, Zenon DEF Tree
      <4> QED
        BY <2>1, <4>1, <1>2, MidpointSplits DEF InReach, Ranged
    <3> QED
      BY <2>1, <3>1, <3>2, <1>8, FrameThread, Zenon DEF Untouched
  <2>2. CASE p = t
    <3>1. InReach(t, u) /\ u # c
      BY <2>2, <1>2, <1>4, <1>9 DEF InReach, Hands
    <3> QED
      BY <3>1, <2>1, Zenon
  <2>3. CASE p = c
    <3>1. c < u /\ u < e
      BY <2>3 DEF InReach
    <3>2. InReach(t, u) /\ u # c
      BY <3>1, <1>2, <1>4, <1>5 DEF InReach, Hands
    <3> QED
      BY <3>2, <2>1, Zenon
  <2>4. CASE p # t /\ p # c
    <3>1. Busy(p) /\ InReach(p, u)
      BY <2>4, FrameThread, Zenon
    <3>2. u # c
      <4>1. p < t \/ t < p
        BY <2>4, <1>2
      <4> QED
        BY <4>1, <3>1, <1>0, <1>5, OneReach, Zenon
    <3> QED
      BY <3>1, <3>2, <2>1, Zenon
  <2> QED
    BY <2>2, <2>3, <2>4, Zenon
<1>13. \A p, q \in Party : Busy(p)' /\ Busy(q)' /\ p < q => Nested(p, q)'
  <2> SUFFICES ASSUME NEW p \in Party, NEW q \in Party, Busy(p)', Busy(q)', p < q PROVE Nested(p, q)'
    BY Zenon
  <2>1. CASE p # c /\ q # c
    BY <2>1, <1>10, Zenon DEF Nested, Tree
  <2>2. CASE q = c
    <3>0. p # c /\ Busy(p) /\ Midpoint(p)' = Midpoint(p) /\ wend'[p] = wend[p]
      BY <2>2, <1>2, <1>10
    <3>1. CASE p = t
      BY <3>1, <2>2, <1>2, <1>3, <1>4, <1>5, <1>9 DEF Nested, Hands, Ranged
    <3>2. CASE p < t
      <4>1. Nested(p, t)
        BY <3>0, <3>2, Zenon DEF Tree
      <4>2. Midpoint(p) \in Nat
        <5>1. Ranged(p)
          BY <3>0, Zenon DEF Tree
        <5> QED
          BY <5>1, <1>2, MidpointSplits DEF Ranged
      <4> QED
        BY <4>1, <4>2, <3>0, <2>2, <1>2, <1>5 DEF Nested
    <3>3. CASE t < p
      <4>1. Nested(t, p) /\ p < c
        BY <3>0, <3>3, <2>2, Zenon DEF Tree
      <4> QED
        BY <4>1, <3>0, <3>3, <2>2, <1>2, <1>4, <1>5 DEF Nested, Hands
    <3> QED
      BY <3>1, <3>2, <3>3, <1>2
  <2>3. CASE p = c
    <3>1. q # c /\ q # t /\ q # 0 /\ Busy(q)
      BY <2>3, <1>2, <1>5, <1>10
    <3>2. ~InReach(t, q)
      BY <3>1, BusyNotIdle, Zenon DEF Tree, Untouched
    <3>3. e <= q
      BY <3>2, <2>3, <1>2, <1>4, <1>5 DEF InReach, Hands
    <3> QED
      BY <3>3, <2>3, Zenon DEF Nested
  <2> QED
    BY <2>1, <2>2, <2>3, Zenon
<1>14. \A u \in Party : u # 0 => Idle(u)' \/ Busy(u)' \/ (pool_pc'[u] = "exit" /\ work' = "shutdown")
  <2> SUFFICES ASSUME NEW u \in Party, u # 0, u # t, u # c PROVE Idle(u)' \/ Busy(u)' \/ (pool_pc'[u] = "exit" /\ work' = "shutdown")
    BY <1>1, Zenon
  <2>1. SameThread(u)
    BY Zenon
  <2> QED
    BY <2>1, <1>1, FrameThread, Zenon DEF SameThread, Tree
<1>15. ASSUME work # "shutdown", NEW p \in Party, Busy(p)' PROVE Awaits(p)'
  <2>1. \A u \in Party : Through(u) /\ u # 0 => Through(u)'
    <3> SUFFICES ASSUME NEW u \in Party, Through(u), u # 0 PROVE Through(u)'
      BY Zenon
    <3>1. u # c
      BY <1>6, <1>2, <1>15, UntouchedNotThrough, Zenon
    <3> QED
      BY <3>1, <1>8, FrameThread, Zenon DEF Through
  <2>2. ASSUME NEW b, NEW d, Rooted(b, d), \A u \in Party : b <= u => u # 0 PROVE Rooted(b, d)'
    <3>1. CASE \A u \in Party : b <= u /\ u < d => Through(u)
      BY <3>1, <2>1, <2>2, <1>1, Zenon DEF Rooted
    <3>2. CASE b \in Party /\ Busy(b) /\ wend[b] = d
      <4>1. Busy(b)' /\ wend'[b] = d
        BY <3>2, <1>7, <1>10, Zenon
      <4> QED
        BY <4>1, <3>2, <1>1, Zenon DEF Rooted
    <3> QED
      BY <2>2, <3>1, <3>2, Zenon DEF Rooted
  <2>3. CASE p = c
    BY <2>3 DEF Awaits
  <2>4. CASE p # c
    <3>0. Busy(p) /\ Awaits(p) /\ Ranged(p) /\ Midpoint(p)' = Midpoint(p) /\ wend'[p] = wend[p]
      BY <2>4, <1>10, <1>15, Zenon DEF Tree
    <3>a. p \in Nat /\ Midpoint(p) \in Nat /\ p + 1 <= Midpoint(p) /\ wend[p] \in Nat
      BY <3>0, <1>2, MidpointSplits DEF Ranged
    <3>b. \A u \in Party : p + 1 <= u \/ Midpoint(p) <= u \/ p < u => u # 0
      BY <3>a, <1>2
    <3>1. ASSUME Rooted(p + 1, Midpoint(p)) PROVE Rooted(p + 1, Midpoint(p))'
      <4>1. PICK b, d : b = p + 1 /\ d = Midpoint(p)
        OBVIOUS
      <4>2. Rooted(b, d)'
        BY <3>1, <3>b, <2>2, <4>1, Zenon
      <4> QED
        BY <4>1, <4>2, <3>0, Zenon
    <3>2. ASSUME Rooted(Midpoint(p), wend[p]) PROVE Rooted(Midpoint(p), wend[p])'
      <4>1. PICK b, d : b = Midpoint(p) /\ d = wend[p]
        OBVIOUS
      <4>2. Rooted(b, d)'
        BY <3>2, <3>b, <2>2, <4>1, Zenon
      <4> QED
        BY <4>1, <4>2, <3>0, Zenon DEF Rooted
    <3>3. CASE p = t
      <4>1. Rooted(c, e)'
        BY <1>1, Zenon DEF Rooted
      <4>2. CASE pool_pc'[t] = "cascade2"
        <5>1. c = p + 1 /\ e = Midpoint(p)
          BY <3>3, <4>2 DEF Hands
        <5>2. Rooted(p + 1, Midpoint(p))'
          BY <5>1, <4>1, <3>0, Zenon
        <5> QED
          BY <3>3, <4>2, <5>2 DEF Awaits
      <4>3. CASE pool_pc'[t] = "work"
        <5>1. c = Midpoint(p) /\ e = wend[p] /\ pool_pc[p] = "cascade2"
          BY <3>3, <4>3 DEF Hands
        <5>2. Rooted(Midpoint(p), wend[p])'
          BY <5>1, <4>1, <3>0, Zenon DEF Rooted
        <5>3. Rooted(p + 1, Midpoint(p))'
          BY <5>1, <3>0, <3>1 DEF Awaits
        <5> QED
          BY <3>3, <4>3, <5>2, <5>3 DEF Awaits
      <4> QED
        BY <4>2, <4>3 DEF Hands
    <3>4. CASE p # t
      <4>1. pool_pc'[p] = pool_pc[p]
        BY <2>4, <3>4, Zenon DEF SameThread
      <4> QED
        BY <4>1, <3>0, <3>1, <3>2, <3>b, <2>1, <1>1, Zenon DEF Awaits
    <3> QED
      BY <3>3, <3>4, Zenon
  <2> QED
    BY <2>3, <2>4, Zenon
<1> QED
  BY <1>1, <1>11, <1>12, <1>13, <1>14, <1>15, Zenon DEF Tree


--------------------------------------------------------------------------------
\* The types of the counters of the pool.
LEMMA PoolNumbers ==
  ASSUME PoolTypeOK
  PROVE  /\ PoolSize \in Nat /\ 0 < PoolSize
         /\ reserved \in Nat /\ reserved < PoolSize
         /\ masterFastmode \in Nat /\ masterFastmode <= PoolSize
<1>1. masterFastmode \in 0 .. PoolSize /\ reserved \in 0 .. PoolSize - 1
  BY Zenon DEF PoolTypeOK
<1> QED
  BY <1>1, PoolAssumption

\* A thread that is past its wakeup takes part in a section or is the one that
\* runDedicated takes.
LEMMA WhoRuns ==
  ASSUME PoolInv, NEW t \in PoolThreads, pool_pc[t] \in InCascade \cup {"release"}
  PROVE  \/ Sectioned /\ ~Dedicating /\ t \in Party /\ Busy(t)
         \/ /\ Dedicating /\ ~Sectioned /\ t = DedicatedChild /\ t # 0
            /\ pool_pc[t] \in {"cascade1", "work"} /\ wbegin[t] = wend[t]
<1> USE DEF PoolInv
<1>1. t \in Nat /\ t < PoolSize /\ PoolSize \in Nat /\ reserved \in Nat /\ reserved < PoolSize
  BY ThreadTypes, PoolNumbers, Zenon
<1>2. ~Idle(t) /\ pool_pc[t] \notin {"dedicated", "exit", "out", "resume", "waking", "spinning"}
  BY DEF Idle, InCascade
<1>3. CASE t = 0
  <2>1. pool_pc[0] \in InCascade
    BY <1>3 DEF CallerAt, InCascade
  <2>2. Sectioned /\ ~Dedicating
    BY <2>1 DEF Sectioned, Dedicating, InCascade
  <2>3. 0 \in Party /\ Busy(0)
    BY <2>1, <2>2 DEF Request, Party, Busy, Cascading
  <2> QED
    BY <1>3, <2>2, <2>3, Zenon
<1>4. CASE t # 0 /\ Sectioned
  <2>1. ~Dedicating
    BY <1>4 DEF Sectioned, Dedicating, InCascade
  <2>2. t < PoolSize - reserved
    BY <1>1, <1>2, <2>1 DEF Taken
  <2>3. t < wend[0]
    BY <2>2, <1>1, <1>2, <1>4 DEF Outside, Untouched, Request
  <2>4. t \in Party
    BY <2>3, <1>1, <1>4 DEF Party, Request
  <2>5. Busy(t)
    BY <2>4, <1>2, <1>4, Zenon DEF Tree
  <2> QED
    BY <2>1, <2>4, <2>5, <1>4, Zenon
<1>5. CASE t # 0 /\ Dedicating
  <2>1. ~Sectioned /\ Handover
    BY <1>5 DEF Sectioned, Dedicating, InCascade
  <2>2. ~(t < DedicatedChild)
    BY <1>2, <1>5, <2>1, Zenon DEF Handover
  <2>3. t = DedicatedChild
    BY <2>2, <1>1, <1>2 DEF Taken, DedicatedChild
  <2>4. pool_pc[t] \in {"cascade1", "work"} /\ wbegin[t] = wend[t]
    BY <2>1, <2>3, <1>2 DEF Handover, InCascade
  <2> QED
    BY <2>1, <2>3, <2>4, <1>5, Zenon
<1>6. CASE t # 0 /\ pool_pc[0] \in {"out", "resume"}
  <2>1. ~Dedicating
    BY <1>6 DEF Dedicating
  <2>2. t < PoolSize - reserved
    BY <1>1, <1>2, <2>1 DEF Taken
  <2> QED
    BY <2>2, <1>2, <1>6, Zenon DEF Between
<1> QED
  BY <1>3, <1>4, <1>5, <1>6 DEF CallerAt, Sectioned, Dedicating

\* Every step keeps the types.
LEMMA PoolTypeStep == PoolInv /\ [PoolNext]_poolVars => PoolTypeOK'
<1> SUFFICES ASSUME PoolInv, [PoolNext]_poolVars PROVE PoolTypeOK'
  BY Zenon
<1>0. PoolTypeOK
  BY Zenon DEF PoolInv
<1>1. ASSUME NEW num \in 0 .. PoolSize, NEW w \in Modes,
             NEW then \in [then : {"return", "burn", "burnAgain", "kind", "destroy"}, num : 0 .. PoolSize],
             Run(num, w, then)
      PROVE  PoolTypeOK'
  <2>1. Sanitized(num) \in 0 .. PoolSize /\ 1 \in 0 .. PoolSize
    BY <1>0, PoolAssumption DEF PoolTypeOK, Sanitized, MinOf, MaxOf, getMaxUsableThreads
  <2>2. [t \in PoolThreads |-> 0] \in [PoolThreads -> 0 .. 2]
    OBVIOUS
  <2> QED
    BY <1>0, <1>1, <2>1, <2>2, ZenonT(60) DEF PoolTypeOK, Run, GoOn
<1>2. ASSUME NEW num \in 0 .. PoolSize, CallRun(num) PROVE PoolTypeOK'
  BY <1>1, <1>2 DEF CallRun, Modes
<1>3. ASSUME NEW num \in 0 .. PoolSize, BurnPower(num) PROVE PoolTypeOK'
  <2>1. MinOf(num, getMaxUsableThreads) \in 0 .. PoolSize /\ masterFastmode \in 0 .. PoolSize
    BY <1>0, PoolNumbers DEF MinOf, getMaxUsableThreads
  <2> QED
    BY <1>1, <1>3, <2>1 DEF BurnPower, Modes
<1>4. CASE BeKind
  BY <1>0, <1>1, <1>4, PoolAssumption DEF BeKind, Modes, PoolTypeOK
<1>5. CASE DestroyPool
  BY <1>0, <1>1, <1>5, PoolAssumption, SMTT(60) DEF DestroyPool, Modes, PoolTypeOK
<1>6. CASE RunDedicated
  <2>1. reserved' \in 0 .. PoolSize - 1 /\ 0 \in 0 .. PoolSize
    BY <1>0, <1>6, PoolNumbers DEF RunDedicated, MayReserve
  <2> QED
    BY <1>0, <1>6, <2>1, ZenonT(60) DEF RunDedicated, PoolTypeOK, GoOn, Modes
<1>7. CASE WakeDedicated
  BY <1>0, <1>7, ZenonT(60) DEF WakeDedicated, Wakeup, Wakeups, PoolTypeOK
<1>8. CASE DedicatedStarted
  BY <1>0, <1>8, ZenonT(60) DEF DedicatedStarted, PoolTypeOK, GoOn, Modes
<1>9. CASE Join
  BY <1>0, <1>9, ZenonT(60) DEF Join, PoolTypeOK, GoOn
<1>10. CASE ReturnFromRun
  <2>1. masterFastmode' \in 0 .. PoolSize
    <3>1. masterFastmode \in 0 .. PoolSize /\ todo.num \in 0 .. PoolSize /\ 0 \in 0 .. PoolSize
      BY <1>0, PoolNumbers DEF PoolTypeOK
    <3> QED
      BY <1>10, <3>1 DEF ReturnFromRun
  <2> QED
    BY <1>0, <1>10, <2>1, ZenonT(60) DEF ReturnFromRun, PoolTypeOK, GoOn, Modes
<1>11. CASE Resume
  BY <1>0, <1>1, <1>11, PoolAssumption, SMTT(60) DEF Resume, Modes, PoolTypeOK
<1>12. ASSUME NEW t \in PoolThreads,
              \/ WaitSlow(t) \/ WaitFast(t) \/ NothingToWake(t) \/ Shutdown(t)
              \/ Decascade1(t) \/ SpuriousWakeup(t) \/ DedicatedReturns(t)
       PROVE  PoolTypeOK'
  BY <1>0, <1>12 DEF WaitSlow, WaitFast, NothingToWake, Shutdown, Decascade1, SpuriousWakeup, DedicatedReturns,
                     PoolTypeOK, GoOn
<1>13. ASSUME NEW t \in PoolThreads, ConsumeRelease(t) PROVE PoolTypeOK'
  BY <1>0, <1>13 DEF ConsumeRelease, Consumed, PoolTypeOK, GoOn
<1>14. ASSUME NEW t \in PoolThreads, Cascade1(t) \/ Cascade2(t) PROVE PoolTypeOK'
  <2>1. \/ t \in Party /\ Busy(t) /\ Sectioned /\ Tree
        \/ wbegin[t] = wend[t] /\ pool_pc[t] = "cascade1"
    <3>1. pool_pc[t] \in InCascade \cup {"release"} /\ pool_pc[t] \in {"cascade1", "cascade2"}
      BY <1>14 DEF Cascade1, Cascade2, InCascade
    <3>2. Sectioned => Tree
      BY Zenon DEF PoolInv
    <3>3. pool_pc[t] \in {"cascade1", "work"} => pool_pc[t] = "cascade1"
      BY <3>1
    <3>4. \/ Sectioned /\ ~Dedicating /\ t \in Party /\ Busy(t)
          \/ /\ Dedicating /\ ~Sectioned /\ t = DedicatedChild /\ t # 0
             /\ pool_pc[t] \in {"cascade1", "work"} /\ wbegin[t] = wend[t]
      BY <3>1, WhoRuns, Zenon
    <3> QED
      BY <3>2, <3>3, <3>4
  <2>2. Ranged(t)
    BY <2>1, <1>14 DEF Cascade1, Cascade2, Tree
  <2>3. /\ t \in Nat /\ wend[t] \in Nat /\ wend[t] <= PoolSize
        /\ Midpoint(t) \in Nat /\ t + 1 <= Midpoint(t) /\ Midpoint(t) <= wend[t]
        /\ wbegin[t] # wend[t] => t + 1 < Midpoint(t)
    BY <1>0, <2>2, ThreadTypes, MidpointSplits DEF Ranged
  <2>4. ASSUME NEW label \in {"cascade2", "work"}, NEW c, NEW fast, Wakeup(t, label, c, fast)
        PROVE  /\ pool_pc' \in [PoolThreads -> {"out", "resume", "waking", "spinning", "joining", "gone",
                         "wait", "release", "asleep", "cascade1", "cascade2", "work",
                         "decascade1", "decascade2", "dedicated", "exit"}]
               /\ done' \in [PoolThreads -> BOOLEAN]
               /\ fastRelease' \in [PoolThreads -> BOOLEAN]
    BY <1>0, <2>4, ZenonT(60) DEF PoolTypeOK, Wakeup, Wakeups
  <2>5. ASSUME Cascade1(t) PROVE PoolTypeOK'
    <3>1. wbegin[t] + 1 \in 0 .. PoolSize /\ Midpoint(t) \in 0 .. PoolSize
      BY <2>2, <2>3, <2>5, PoolAssumption DEF Cascade1, Ranged
    <3> QED
      BY <1>0, <2>4, <2>5, <3>1, ZenonT(60) DEF Cascade1, PoolTypeOK
  <2>6. ASSUME Cascade2(t), HasSecond(t) PROVE PoolTypeOK'
    <3>1. Midpoint(t) + 1 \in 0 .. PoolSize /\ wend[t] \in 0 .. PoolSize
      BY <2>2, <2>3, <2>6, PoolAssumption DEF HasSecond
    <3> QED
      BY <1>0, <2>4, <2>6, <3>1, SMTT(60) DEF Cascade2, PoolTypeOK
  <2>7. ASSUME Cascade2(t), ~HasSecond(t) PROVE PoolTypeOK'
    BY <1>0, <2>7 DEF Cascade2, PoolTypeOK, GoOn
  <2> QED
    BY <1>14, <2>5, <2>6, <2>7, Zenon
<1>15. ASSUME NEW t \in PoolThreads, Execute(t) PROVE PoolTypeOK'
  <2>1. Sectioned /\ t \in Party /\ Busy(t) /\ Tree
    <3>1. ~Handover
      BY <1>15 DEF Execute, Handover
    <3> QED
      BY <1>15, <3>1, WhoRuns DEF Execute, InCascade, PoolInv
  <2>2. ran[t] = 0
    BY <1>15, <2>1 DEF Execute, Tree, Current, Executed
  <2> QED
    BY <1>0, <1>15, <2>2 DEF Execute, PoolTypeOK, GoOn
<1>16. ASSUME NEW t \in PoolThreads, SetFastmode(t) PROVE PoolTypeOK'
  <2>1. (work = "fastOn") \in BOOLEAN
    OBVIOUS
  <2>2. fastmode' \in [PoolThreads -> BOOLEAN]
    BY <1>0, <1>16, <2>1 DEF SetFastmode, PoolTypeOK
  <2> QED
    BY <1>0, <1>16, <2>2 DEF SetFastmode, PoolTypeOK, GoOn
<1>17. ASSUME NEW t \in PoolThreads, BecomeDedicated(t) \/ Decascade2(t) PROVE PoolTypeOK'
  BY <1>0, <1>17, ZenonT(60) DEF BecomeDedicated, Decascade2, PoolTypeOK, GoOn
<1>18. CASE UNCHANGED poolVars
  BY <1>0, <1>18 DEF poolVars, PoolTypeOK
<1> QED
  BY <1>2, <1>3, <1>4, <1>5, <1>6, <1>7, <1>8, <1>9, <1>10, <1>11, <1>12, <1>13, <1>14, <1>15, <1>16, <1>17, <1>18,
     Zenon DEF PoolNext, Call, Caller, PoolStep


--------------------------------------------------------------------------------
\* What a step of a section leaves to be shown.
LEMMA SectionKept ==
  ASSUME PoolInv, PoolTypeOK', Sectioned, Sectioned', SameSection, Tree', SleepsSlow', Outside', Taken',
         pool_pc'[0] \in {"joining", "gone"} => work = "shutdown"
  PROVE  PoolInv'
<1>1. Request'
  <2>1. Request
    BY Zenon DEF PoolInv
  <2> QED
    BY <2>1, Zenon DEF Request, SameSection
<1>2. CallerAt' /\ ~Dedicating' /\ pool_pc'[0] \notin {"out", "resume"}
  BY DEF CallerAt, Sectioned, Dedicating, InCascade
<1> QED
  BY <1>1, <1>2, Zenon DEF PoolInv

\* ... by threads of the party alone.
LEMMA PartyStep ==
  ASSUME PoolInv, Sectioned, Sectioned', SameSection,
         \A u \in PoolThreads : u \notin Party => SameThread(u)
  PROVE  Outside' /\ Taken'
<1>1. Request /\ Outside /\ Taken /\ PoolTypeOK /\ ~Dedicating /\ ~Dedicating'
  BY DEF PoolInv, Sectioned, Dedicating, InCascade
<1>2. \A u \in PoolThreads : wend[0] <= u => u \notin Party
  BY <1>1, ThreadTypes, SMTT(60) DEF Party, Request
<1>3. \A u \in PoolThreads : u >= PoolSize - reserved => wend[0] <= u
  BY <1>1, ThreadTypes, PoolNumbers, SMTT(60) DEF Request
<1>4. Outside'
  <2>1. \A u \in PoolThreads : wend[0] <= u /\ u < PoolSize - reserved => Untouched(u)'
    BY <1>1, <1>2, FrameThread, Zenon DEF Outside
  <2>2. work = "user" => \A u \in PoolThreads : wend[0] <= u => ran'[u] = 0
    BY <1>1, <1>2, Zenon DEF Outside, SameThread
  <2> QED
    BY <2>1, <2>2, Zenon DEF Outside, SameSection
<1>5. Taken'
  BY <1>1, <1>2, <1>3, Zenon DEF Taken, SameThread, SameSection
<1> QED
  BY <1>4, <1>5, Zenon

\* What the invariant says while a section is active.
LEMMA PartyIsUsable ==
  ASSUME PoolInv, Sectioned
  PROVE  /\ PoolTypeOK /\ Request /\ Tree /\ Outside /\ ~Dedicating
         /\ wend[0] \in 1 .. PoolSize - reserved
         /\ 0 \in Party /\ 0 \in PoolThreads
         /\ \A u \in Party : u \in PoolThreads /\ u \in Nat /\ u < wend[0] /\ wend[u] \in Nat
<1>1. PoolTypeOK /\ Request /\ Tree /\ Outside /\ wend[0] \in 1 .. PoolSize - reserved
  BY Zenon DEF PoolInv, Request
<1>2. 0 \in Party /\ 0 \in PoolThreads
  BY <1>1, PoolNumbers DEF Party, PoolThreads
<1>3. \A u \in Party : u \in PoolThreads /\ u \in Nat /\ u < wend[0] /\ wend[u] \in Nat
  BY <1>1, PartyType, ThreadTypes, Zenon
<1>4. ~Dedicating
  BY DEF Sectioned, Dedicating, InCascade
<1> QED
  BY <1>1, <1>2, <1>3, <1>4, Zenon

(***************************************************************************)
(* A busy thread takes a step and wakes nobody up.                         *)
(***************************************************************************)
LEMMA AdvanceKeepsInv ==
  ASSUME PoolInv, PoolTypeOK', Sectioned, NEW t \in Party, Busy(t), Busy(t)', pool_pc'[t] # "asleep",
         UNCHANGED <<wbegin, wend, masterFastmode, reserved, work, todo>>,
         \A u \in PoolThreads : u # t => SameThread(u),
         Current(t)', \A u : InReach(t, u)' => InReach(t, u), work # "shutdown" => Earned(t)
  PROVE  PoolInv'
<1>1. /\ PoolTypeOK /\ Request /\ Tree /\ Outside /\ ~Dedicating
      /\ wend[0] \in 1 .. PoolSize - reserved
      /\ 0 \in Party /\ 0 \in PoolThreads
      /\ \A u \in Party : u \in PoolThreads
  BY PartyIsUsable, Zenon
<1>2. SameSection
  BY Zenon DEF SameSection
<1>3. Tree'
  BY <1>1, <1>2, AdvanceKeepsTree, Zenon
<1>4. Sectioned' /\ (pool_pc'[0] \in {"joining", "gone"} => work = "shutdown")
  <2>1. CASE t = 0
    <3>1. pool_pc'[0] \in InCascade
      BY <2>1, Zenon DEF Busy, Cascading
    <3> QED
      BY <3>1 DEF Sectioned, InCascade
  <2>2. CASE t # 0
    BY <2>2, <1>1, Zenon DEF SameThread, Sectioned, Request
  <2> QED
    BY <2>1, <2>2, Zenon
<1>5. Outside' /\ Taken'
  BY <1>1, <1>2, <1>4, PartyStep, Zenon
<1>6. SleepsSlow'
  BY Zenon DEF SleepsSlow, SameThread, PoolInv
<1> QED
  BY <1>2, <1>3, <1>4, <1>5, <1>6, SectionKept, Zenon

(***************************************************************************)
(* A thread that is not busy after its step.                               *)
(***************************************************************************)
LEMMA RetireKeepsInv ==
  ASSUME PoolInv, PoolTypeOK', Sectioned, Sectioned', NEW t \in Party, ~Busy(t)',
         pool_pc'[t] = "asleep" => ~fastmode'[t],
         t = 0 => work = "shutdown",
         UNCHANGED <<wbegin, wend, masterFastmode, reserved, work, todo>>,
         \A u \in PoolThreads : u # t => SameThread(u),
         t # 0 => Idle(t)' \/ (pool_pc'[t] = "exit" /\ work = "shutdown"),
         Untouched(t) => Untouched(t)' \/ t = 0,
         work # "shutdown" => t # 0 /\ (Through(t) => Through(t)'),
         work # "shutdown" /\ Busy(t) =>
           Through(t)' /\ \A u \in Party : t < u /\ u < wend[t] => Through(u)
  PROVE  PoolInv'
<1>1. /\ PoolTypeOK /\ Request /\ Tree /\ Outside /\ ~Dedicating
      /\ wend[0] \in 1 .. PoolSize - reserved
      /\ 0 \in Party /\ 0 \in PoolThreads
      /\ \A u \in Party : u \in PoolThreads
  BY PartyIsUsable, Zenon
<1>2. SameSection
  BY Zenon DEF SameSection
<1>3. Tree'
  BY <1>1, <1>2, RetireKeepsTree, Zenon
<1>4. pool_pc'[0] \in {"joining", "gone"} => work = "shutdown"
  BY <1>1, Zenon DEF SameThread, Request
<1>5. Outside' /\ Taken'
  BY <1>1, <1>2, PartyStep, Zenon
<1>6. SleepsSlow'
  BY Zenon DEF SleepsSlow, SameThread, PoolInv
<1> QED
  BY <1>2, <1>3, <1>4, <1>5, <1>6, SectionKept, Zenon


--------------------------------------------------------------------------------
\* A thread that goes on leaves the others where they are.
LEMMA GoOnThread ==
  ASSUME PoolTypeOK, NEW t \in PoolThreads, NEW label, GoOn(t, label)
  PROVE  pool_pc'[t] = label /\ \A u \in PoolThreads : u # t => pool_pc'[u] = pool_pc[u]
  BY Zenon DEF PoolTypeOK, GoOn

\* The actions that change the place of one thread only.
PlaceOnly(t, label) ==
  GoOn(t, label) /\ UNCHANGED <<wbegin, wend, done, fastRelease, fastmode, masterFastmode, reserved, work, todo, ran>>

\* Such a step changes nothing of the other threads.
LEMMA PlaceOnlyThread ==
  ASSUME PoolTypeOK, NEW t \in PoolThreads, NEW label, PlaceOnly(t, label)
  PROVE  /\ pool_pc'[t] = label
         /\ \A u \in PoolThreads : u # t => SameThread(u)
         /\ UNCHANGED <<wbegin, wend, masterFastmode, reserved, work, todo>>
  BY GoOnThread, Zenon DEF PlaceOnly, SameThread

\* A thread that waits is idle or has been woken up.
LEMMA WhoWaits ==
  ASSUME PoolInv, Sectioned, NEW t \in PoolThreads, pool_pc[t] \in {"wait", "asleep"}
  PROVE  /\ t # 0
         /\ \/ t \in Party /\ Idle(t)
            \/ t \in Party /\ Busy(t) /\ Woken(t)
            \/ t \notin Party /\ wend[0] <= t /\ t < PoolSize - reserved /\ Untouched(t)
<1>1. /\ PoolTypeOK /\ Request /\ Tree /\ Outside /\ ~Dedicating
      /\ wend[0] \in 1 .. PoolSize - reserved
  BY PartyIsUsable, Zenon
<1>2. t # 0
  BY DEF Sectioned, InCascade
<1>3. t < PoolSize - reserved
  BY <1>1, ThreadTypes, PoolNumbers DEF Taken, PoolInv
<1>4. CASE t \in Party
  <2>1. pool_pc[t] # "exit"
    OBVIOUS
  <2>2. Idle(t) \/ Busy(t)
    BY <1>1, <1>2, <1>4, <2>1, Zenon DEF Tree
  <2>3. Busy(t) => Woken(t)
    BY DEF Busy, Cascading, Released, InCascade
  <2> QED
    BY <1>2, <1>4, <2>2, <2>3, Zenon
<1>5. CASE t \notin Party
  <2>1. wend[0] <= t
    BY <1>1, <1>5, ThreadTypes DEF Party
  <2> QED
    BY <1>1, <1>2, <1>3, <1>5, <2>1, Zenon DEF Outside
<1> QED
  BY <1>4, <1>5, Zenon

\* The tree does not see a step that leaves the party alone.
LEMMA TreeFrame ==
  ASSUME Tree, SameSection, \A u \in Party : SameThread(u)
  PROVE  Tree'
<1>1. Party' = Party /\ work' = work
  BY DEF SameSection, Party
<1>2. \A u \in Party : /\ (Busy(u)' <=> Busy(u)) /\ (Idle(u)' <=> Idle(u)) /\ (Untouched(u)' <=> Untouched(u))
                       /\ (Through(u)' <=> Through(u)) /\ (Ranged(u)' <=> Ranged(u)) /\ (Current(u)' <=> Current(u))
                       /\ Midpoint(u)' = Midpoint(u) /\ wend'[u] = wend[u] /\ pool_pc'[u] = pool_pc[u]
  BY FrameThread, Zenon DEF SameThread
<1>3. \A p, u \in Party : InReach(p, u)' <=> InReach(p, u)
  BY FrameThread, Zenon
<1>4. \A p, q \in Party : Nested(p, q)' <=> Nested(p, q)
  BY <1>2, Zenon DEF Nested
<1>5. ASSUME NEW c, NEW e PROVE Rooted(c, e)' <=> Rooted(c, e)
  BY <1>1, <1>2, Zenon DEF Rooted
<1>6. ASSUME NEW p \in Party, Awaits(p) PROVE Awaits(p)'
  <2>1. PICK c, d, e : c = p + 1 /\ d = Midpoint(p) /\ e = wend[p]
    OBVIOUS
  <2>2. (Rooted(c, d)' <=> Rooted(c, d)) /\ (Rooted(d, e)' <=> Rooted(d, e))
    BY <1>5, Zenon
  <2>3. (Rooted(p + 1, Midpoint(p))' <=> Rooted(c, d)') /\ (Rooted(Midpoint(p), wend[p])' <=> Rooted(d, e)')
    BY <2>1, <1>2, Zenon DEF Rooted
  <2> QED
    BY <1>6, <2>1, <2>2, <2>3, <1>1, <1>2, Zenon DEF Awaits
<1> QED
  BY <1>1, <1>2, <1>3, <1>4, <1>6, Zenon DEF Tree

\* A thread outside the party falls asleep, wakes up by itself, or returns from
\* its dedicated function.
LEMMA OutsideStirs ==
  ASSUME PoolInv, PoolTypeOK', Sectioned, NEW t \in PoolThreads, t \notin Party, t # 0,
         NEW label, PlaceOnly(t, label), label = "asleep" => ~fastmode[t],
         t < PoolSize - reserved => Untouched(t)', t >= PoolSize - reserved => label \in {"dedicated", "exit"}
  PROVE  PoolInv'
<1>1. /\ PoolTypeOK /\ Request /\ Tree /\ Outside /\ ~Dedicating
      /\ wend[0] \in 1 .. PoolSize - reserved
      /\ 0 \in Party /\ 0 \in PoolThreads
      /\ \A u \in Party : u \in PoolThreads
  BY PartyIsUsable, Zenon
<1>2. /\ pool_pc'[t] = label
      /\ \A u \in PoolThreads : u # t => SameThread(u)
      /\ UNCHANGED <<wbegin, wend, masterFastmode, reserved, work, todo>>
  BY <1>1, PlaceOnlyThread, Zenon
<1>3. SameSection
  BY <1>2, Zenon DEF SameSection
<1>4. \A u \in Party : u # t /\ SameThread(u)
  BY <1>1, <1>2, Zenon
<1>5. Sectioned' /\ (pool_pc'[0] \in {"joining", "gone"} => work = "shutdown")
  BY <1>1, <1>4, Zenon DEF SameThread, Sectioned, Request
<1>6. SleepsSlow'
  BY <1>2, Zenon DEF SleepsSlow, SameThread, PoolInv, PlaceOnly
<1>8. Outside'
  <2>1. \A u \in PoolThreads : wend[0] <= u /\ u < PoolSize - reserved => Untouched(u)'
    BY <1>1, <1>2, <1>3, FrameThread, Zenon DEF Outside
  <2> QED
    BY <1>1, <2>1, <1>3, Zenon DEF Outside, SameSection, PlaceOnly
<1>9. Taken'
  <2>1. ~Dedicating'
    BY <1>5 DEF Sectioned, Dedicating, InCascade
  <2> QED
    BY <1>1, <1>2, <1>3, <2>1, Zenon DEF Taken, SameThread, SameSection, PoolInv
<1>10. Tree'
  BY <1>1, <1>3, <1>4, TreeFrame, Zenon
<1> QED
  BY <1>3, <1>5, <1>6, <1>8, <1>9, <1>10, SectionKept, Zenon


\* The steps of a waiting thread, in a section.
LEMMA SectionWaits ==
  ASSUME PoolInv, PoolTypeOK', Sectioned, NEW t \in PoolThreads,
         WaitSlow(t) \/ WaitFast(t) \/ SpuriousWakeup(t)
  PROVE  PoolInv'
<1>0. PoolTypeOK
  BY Zenon DEF PoolInv
<1>1. PICK label : PlaceOnly(t, label) /\ \/ label = "asleep" /\ pool_pc[t] = "wait" /\ done[t] /\ ~fastmode[t]
                                          \/ label = "cascade1" /\ pool_pc[t] = "wait" /\ ~done[t] /\ ~fastmode[t]
                                          \/ label = "release" /\ pool_pc[t] = "wait" /\ fastmode[t] /\ fastRelease[t]
                                          \/ label = "wait" /\ pool_pc[t] = "asleep"
  <2>1. ASSUME WaitSlow(t) PROVE \/ PlaceOnly(t, "asleep") /\ pool_pc[t] = "wait" /\ done[t] /\ ~fastmode[t]
                                 \/ PlaceOnly(t, "cascade1") /\ pool_pc[t] = "wait" /\ ~done[t] /\ ~fastmode[t]
    BY <2>1, Zenon DEF WaitSlow, PlaceOnly
  <2>2. ASSUME WaitFast(t) PROVE PlaceOnly(t, "release") /\ pool_pc[t] = "wait" /\ fastmode[t] /\ fastRelease[t]
    BY <2>2, Zenon DEF WaitFast, PlaceOnly
  <2>3. ASSUME SpuriousWakeup(t) PROVE PlaceOnly(t, "wait") /\ pool_pc[t] = "asleep"
    BY <2>3, Zenon DEF SpuriousWakeup, PlaceOnly
  <2> QED
    BY <2>1, <2>2, <2>3, Zenon
<1>2. /\ pool_pc'[t] = label
      /\ \A u \in PoolThreads : u # t => SameThread(u)
      /\ UNCHANGED <<wbegin, wend, masterFastmode, reserved, work, todo>>
  BY <1>0, <1>1, PlaceOnlyThread, Zenon
<1>3. /\ done'[t] = done[t] /\ fastRelease'[t] = fastRelease[t] /\ fastmode'[t] = fastmode[t] /\ ran'[t] = ran[t]
  BY <1>1, Zenon DEF PlaceOnly
<1>4. /\ t # 0
      /\ \/ t \in Party /\ Idle(t)
         \/ t \in Party /\ Busy(t) /\ Woken(t)
         \/ t \notin Party /\ wend[0] <= t /\ t < PoolSize - reserved /\ Untouched(t)
  BY <1>1, WhoWaits
<1>5. ASSUME Idle(t) PROVE Idle(t)' /\ ~Busy(t)' /\ (label = "asleep" => ~fastmode[t])
  <2>1. label \in {"asleep", "wait"} /\ (label = "asleep" => ~fastmode[t])
    BY <1>1, <1>5 DEF Idle
  <2>2. Idle(t)'
    BY <1>2, <1>3, <1>5, <2>1, Zenon DEF Idle
  <2> QED
    BY <2>1, <2>2, <1>4 DEF Idle, Busy, Woken, Released, Cascading, InCascade
<1>6. ASSUME Untouched(t) PROVE Untouched(t)'
  BY <1>2, <1>3, <1>5, <1>6, Zenon DEF Untouched, ModeOf
<1>7. CASE t \in Party /\ Idle(t)
  <2>1. ASSUME Through(t) PROVE Through(t)'
    BY <1>2, <1>3, <1>5, <2>1, Zenon DEF Through, ModeAfter, ModeOf
  <2>2. ~Busy(t)
    BY <1>4, <1>7, BusyNotIdle, Zenon
  <2>3. Sectioned'
    <3>1. 0 \in PoolThreads
      BY PartyIsUsable, Zenon
    <3> QED
      BY <3>1, <1>2, <1>4, Zenon DEF Sectioned, SameThread
  <2> QED
    BY <1>2, <1>3, <1>4, <1>5, <1>6, <1>7, <2>1, <2>2, <2>3, RetireKeepsInv, Zenon
<1>8. CASE t \in Party /\ Busy(t) /\ Woken(t)
  <2>0. Tree
    BY PartyIsUsable, Zenon
  <2>1. \/ label = "cascade1" /\ ~done[t] /\ ~fastRelease[t]
        \/ label = "release" /\ ~done[t] /\ fastRelease[t] /\ fastmode[t]
    BY <1>0, <1>1, <1>8 DEF Woken
  <2>2. Busy(t)' /\ label # "asleep"
    BY <1>2, <1>3, <1>4, <2>1 DEF Busy, Cascading, Released, InCascade
  <2>3. Current(t)'
    <3>1. Current(t)
      BY <1>8, <2>0, Zenon DEF Tree
    <3>2. ~Executed(t) /\ ~Executed(t)'
      BY <1>2, <1>8, <2>1 DEF Executed, Woken
    <3> QED
      BY <1>2, <1>3, <3>1, <3>2, Zenon DEF Current, ModeOf
  <2>4. \A u : InReach(t, u)' => InReach(t, u)
    BY <1>2, <1>8, <2>1 DEF InReach, Woken
  <2>5. Earned(t)
    BY <1>2, <2>1 DEF Earned
  <2> QED
    BY <1>2, <1>8, <2>2, <2>3, <2>4, <2>5, AdvanceKeepsInv, Zenon
<1>9. CASE t \notin Party /\ t < PoolSize - reserved /\ Untouched(t)
  <2>1. ~(t >= PoolSize - reserved)
    BY <1>0, <1>9, ThreadTypes, PoolNumbers
  <2> QED
    BY <1>1, <1>4, <1>5, <1>6, <1>9, <2>1, OutsideStirs, Zenon DEF Untouched
<1> QED
  BY <1>4, <1>7, <1>8, <1>9, Zenon


\* A busy thread knows the midpoint of its range.
LEMMA BusyRange ==
  ASSUME PoolInv, Sectioned, NEW t \in Party, Busy(t)
  PROVE  /\ Ranged(t) /\ Current(t) /\ t \in Nat /\ t \in PoolThreads /\ wend[t] \in Nat
         /\ Midpoint(t) \in Nat /\ t + 1 <= Midpoint(t) /\ Midpoint(t) <= wend[t]
         /\ wbegin[t] # wend[t] => t + 1 < Midpoint(t)
<1>1. Ranged(t) /\ Current(t) /\ t \in Nat /\ t \in PoolThreads /\ wend[t] \in Nat
  BY PartyIsUsable, Zenon DEF Tree
<1> QED
  BY <1>1, MidpointSplits DEF Ranged

\* Nobody has to answer for an empty range.
LEMMA EmptyRooted == ASSUME NEW c \in Nat, NEW e \in Nat, e <= c, Party \subseteq Nat PROVE Rooted(c, e)
  BY DEF Rooted

\* The steps that only change the place of a thread of the party.
LEMMA SectionMoves ==
  ASSUME PoolInv, PoolTypeOK', Sectioned, NEW t \in Party, Busy(t),
         \/ NothingToWake(t) \/ (Cascade2(t) /\ ~HasSecond(t)) \/ Decascade1(t)
  PROVE  PoolInv'
<1>0. PoolTypeOK /\ Tree /\ Party \subseteq Nat
  BY PartyIsUsable, Zenon
<1>r. /\ Ranged(t) /\ Current(t) /\ t \in Nat /\ t \in PoolThreads /\ wend[t] \in Nat
      /\ Midpoint(t) \in Nat /\ t + 1 <= Midpoint(t) /\ Midpoint(t) <= wend[t]
      /\ wbegin[t] # wend[t] => t + 1 < Midpoint(t)
  BY BusyRange, Zenon
<1>1. PICK label : PlaceOnly(t, label) /\ \/ label = "work" /\ NothingToWake(t)
                                          \/ label = "work" /\ Cascade2(t) /\ ~HasSecond(t)
                                          \/ label = "decascade2" /\ Decascade1(t)
  <2>1. ASSUME NothingToWake(t) PROVE PlaceOnly(t, "work")
    BY <2>1, Zenon DEF NothingToWake, PlaceOnly
  <2>2. ASSUME Cascade2(t), ~HasSecond(t) PROVE PlaceOnly(t, "work")
    BY <2>2, Zenon DEF Cascade2, PlaceOnly
  <2>3. ASSUME Decascade1(t) PROVE PlaceOnly(t, "decascade2")
    BY <2>3, Zenon DEF Decascade1, PlaceOnly
  <2> QED
    BY <2>1, <2>2, <2>3, Zenon
<1>2. /\ pool_pc'[t] = label
      /\ \A u \in PoolThreads : u # t => SameThread(u)
      /\ UNCHANGED <<wbegin, wend, masterFastmode, reserved, work, todo>>
  BY <1>0, <1>1, <1>r, PlaceOnlyThread, Zenon
<1>3. /\ done'[t] = done[t] /\ fastRelease'[t] = fastRelease[t] /\ fastmode'[t] = fastmode[t] /\ ran'[t] = ran[t]
  BY <1>1, Zenon DEF PlaceOnly
<1>4. label \in {"work", "decascade2"} /\ pool_pc[t] \in InCascade /\ (label = "decascade2" <=> pool_pc[t] = "decascade1")
  BY <1>1 DEF NothingToWake, Cascade2, Decascade1, InCascade
<1>5. Busy(t)' /\ label # "asleep"
  <2>1. Cascading(t)
    BY <1>4 DEF Busy, Woken, Released, InCascade
  <2> QED
    BY <1>2, <1>3, <1>4, <2>1, ZenonT(60) DEF Busy, Cascading, InCascade
<1>6. Current(t)'
  <2>1. Executed(t)' <=> Executed(t)
    BY <1>1, <1>2 DEF Executed, NothingToWake, Cascade2, Decascade1
  <2> QED
    BY <1>r, <1>2, <1>3, <2>1, Zenon DEF Current, ModeOf, ModeAfter
<1>7. \A u : InReach(t, u)' => InReach(t, u)
  BY <1>2, <1>4 DEF InReach
<1>8. ASSUME work # "shutdown" PROVE Earned(t)
  <2>0. Awaits(t)
    BY <1>0, <1>8, Zenon DEF Tree
  <2>1. CASE label = "work" /\ NothingToWake(t)
    <3>1. Midpoint(t) = t + 1 /\ wend[t] = t + 1
      BY <2>1, <1>r, SMTT(60) DEF NothingToWake, Ranged, Midpoint
    <3>2. Rooted(t + 1, Midpoint(t)) /\ Rooted(Midpoint(t), wend[t])
      BY <3>1, <1>0, <1>r, EmptyRooted
    <3> QED
      BY <3>2, <2>1, <1>2 DEF Earned
  <2>2. CASE label = "work" /\ Cascade2(t) /\ ~HasSecond(t)
    <3>1. wend[t] <= Midpoint(t) /\ pool_pc[t] = "cascade2"
      BY <2>2, <1>r DEF HasSecond, Cascade2
    <3>2. Rooted(Midpoint(t), wend[t])
      BY <3>1, <1>0, <1>r, EmptyRooted
    <3>3. Rooted(t + 1, Midpoint(t))
      BY <3>1, <2>0 DEF Awaits
    <3> QED
      BY <3>2, <3>3, <2>2, <1>2 DEF Earned
  <2>3. CASE label = "decascade2" /\ Decascade1(t)
    <3>1. Rooted(t + 1, Midpoint(t)) /\ Rooted(Midpoint(t), wend[t])
      BY <2>3, <2>0 DEF Awaits, Decascade1
    <3>3. ASSUME t + 1 \in Party, Busy(t + 1), wend[t + 1] = Midpoint(t) PROVE FALSE
      <4>1. ~done[t + 1]
        <5>1. t + 1 # 0
          BY <1>r
        <5> QED
          BY <3>3, <5>1, Zenon DEF Busy, Cascading, Woken, Released
      <4>2. Ranged(t + 1)
        BY <1>0, <3>3, Zenon DEF Tree
      <4>3. wbegin[t] # wend[t] /\ wbegin[t] = t + 1
        BY <4>2, <3>3, <1>r DEF Ranged
      <4> QED
        BY <4>1, <4>3, <2>3 DEF Decascade1, FirstIsDone
    <3>4. \A u \in Party : t + 1 <= u /\ u < Midpoint(t) => Through(u)
      BY <3>1, <3>3, Zenon DEF Rooted
    <3>5. \A u \in Party : t < u /\ u < Midpoint(t) => Through(u)
      BY <3>4, <1>0, <1>r
    <3> QED
      BY <3>1, <3>5, <2>3, <1>2 DEF Earned
  <2> QED
    BY <1>1, <2>1, <2>2, <2>3, Zenon
<1> QED
  BY <1>2, <1>5, <1>6, <1>7, <1>8, AdvanceKeepsInv, Zenon


\* The steps that change a thread's flags besides its place.
LEMMA SectionWorks ==
  ASSUME PoolInv, PoolTypeOK', Sectioned, NEW t \in Party, Busy(t),
         ConsumeRelease(t) \/ Execute(t) \/ SetFastmode(t)
  PROVE  PoolInv'
<1>0. PoolTypeOK /\ Tree /\ Request
  BY PartyIsUsable, Zenon
<1>r. /\ Current(t) /\ t \in PoolThreads
  BY BusyRange, Zenon
<1>1. CASE ConsumeRelease(t)
  <2>1. pool_pc'[t] = "cascade1" /\ \A u \in PoolThreads : u # t => pool_pc'[u] = pool_pc[u]
    BY <1>0, <1>1, <1>r, GoOnThread, Zenon DEF ConsumeRelease
  <2>2. /\ UNCHANGED <<wbegin, wend, done, fastmode, masterFastmode, reserved, work, todo, ran>>
        /\ ~fastRelease'[t] /\ \A u \in PoolThreads : u # t => fastRelease'[u] = fastRelease[u]
    BY <1>0, <1>1, <1>r, Zenon DEF ConsumeRelease, Consumed, PoolTypeOK
  <2>3. Released(t)
    BY <1>1 DEF ConsumeRelease, Busy, Cascading, Woken, InCascade
  <2>4. Busy(t)' /\ pool_pc'[t] # "asleep"
    BY <2>1, <2>2, <2>3 DEF Busy, Cascading, Released, InCascade
  <2>5. Current(t)'
    <3>1. ~Executed(t) /\ ~Executed(t)'
      BY <2>1, <2>3 DEF Executed, Released
    <3> QED
      BY <1>r, <2>2, <3>1, Zenon DEF Current, ModeOf
  <2>6. \A u : InReach(t, u)' => InReach(t, u)
    BY <2>1, <2>2, <2>3, ZenonT(60) DEF InReach, Released
  <2>7. Earned(t)
    BY <2>1 DEF Earned
  <2>8. \A u \in PoolThreads : u # t => SameThread(u)
    BY <2>1, <2>2, Zenon DEF SameThread
  <2> QED
    BY <2>2, <2>4, <2>5, <2>6, <2>7, <2>8, AdvanceKeepsInv, Zenon
<1>2. CASE Execute(t) \/ SetFastmode(t)
  <2>1. pool_pc[t] = "work" /\ GoOn(t, "decascade1") /\ UNCHANGED <<wbegin, wend, done, fastRelease, masterFastmode, reserved, work, todo>>
    BY <1>2, Zenon DEF Execute, SetFastmode
  <2>2. pool_pc'[t] = "decascade1" /\ \A u \in PoolThreads : u # t => pool_pc'[u] = pool_pc[u]
    BY <1>0, <1>r, <2>1, GoOnThread, Zenon
  <2>3. \A u \in PoolThreads : u # t => ran'[u] = ran[u] /\ fastmode'[u] = fastmode[u]
    BY <1>0, <1>2, <1>r, Zenon DEF Execute, SetFastmode, PoolTypeOK
  <2>4. \A u \in PoolThreads : u # t => SameThread(u)
    BY <2>1, <2>2, <2>3, Zenon DEF SameThread
  <2>5. Cascading(t)
    BY <2>1 DEF Busy, Woken, Released
  <2>6. Busy(t)' /\ pool_pc'[t] # "asleep"
    BY <2>1, <2>2, <2>5 DEF Busy, Cascading, InCascade
  <2>7. \A u : InReach(t, u)' => InReach(t, u)
    BY <2>2 DEF InReach
  <2>8. ASSUME work # "shutdown" PROVE Earned(t)
    <3>1. Awaits(t)
      BY <1>0, <2>8, Zenon DEF Tree
    <3> QED
      BY <3>1, <2>1, <2>2 DEF Awaits, Earned
  <2>9. Current(t)'
    <3>1. ~Executed(t) /\ Executed(t)'
      BY <2>1, <2>2, ZenonT(60) DEF Executed
    <3>2. (ModeOf(t)' <=> ModeOf(t)) /\ (ModeAfter(t)' <=> ModeAfter(t)) /\ work' = work
      BY <2>1, Zenon DEF ModeOf, ModeAfter
    <3>3. CASE Execute(t)
      <4>1. work = "user" /\ fastmode' = fastmode
        BY <3>3, Zenon DEF Execute
      <4>2. ran'[t] = ran[t] + 1
        BY <1>0, <1>r, <3>3, Zenon DEF Execute, PoolTypeOK
      <4>3. ran'[t] = 1
        BY <1>r, <3>1, <4>1, <4>2 DEF Current
      <4>4. ModeAfter(t) <=> ModeOf(t)
        BY <4>1 DEF ModeAfter
      <4> QED
        BY <1>r, <3>1, <3>2, <4>1, <4>3, <4>4 DEF Current
    <3>4. CASE SetFastmode(t)
      <4>1. work \in {"fastOn", "fastOff"}
        BY <3>4, Zenon DEF SetFastmode
      <4>2. t # 0 => fastmode'[t] = (work = "fastOn")
        BY <1>0, <1>r, <3>4, Zenon DEF SetFastmode, PoolTypeOK
      <4>3. ModeAfter(t) <=> work = "fastOn"
        BY <4>1 DEF ModeAfter
      <4>4. t # 0 => (fastmode'[t] <=> ModeAfter(t)')
        BY <4>2, <4>3, <3>2, Zenon
      <4> QED
        BY <4>1, <4>4, <3>1, <3>2 DEF Current
    <3> QED
      BY <1>2, <3>3, <3>4, Zenon
  <2> QED
    BY <2>1, <2>4, <2>6, <2>7, <2>8, <2>9, AdvanceKeepsInv, Zenon
<1> QED
  BY <1>1, <1>2, Zenon


\* A thread that is about to be woken up is idle, in the mode of its waker.
LEMMA ReachIsIdle ==
  ASSUME PoolInv, Sectioned, NEW t \in Party, Busy(t), NEW c \in Party, InReach(t, c)
  PROVE  Untouched(c) /\ fastmode[c] = IsFast(t)
<1>0. PoolTypeOK /\ Tree /\ Request /\ t \in Nat /\ c \in Nat /\ t < wend[0] /\ c < wend[0]
      /\ t \in PoolThreads /\ c \in PoolThreads
  BY PartyIsUsable, Zenon
<1>1. Untouched(c) /\ Current(t)
  BY <1>0, Zenon DEF Tree
<1>2. ~Executed(t)
  BY DEF InReach, Executed
<1>3. (ModeOf(c) <=> masterFastmode # 0) /\ (ModeOf(t) <=> masterFastmode # 0)
  BY <1>0 DEF Request, ModeOf
<1>4. fastmode[c] <=> masterFastmode # 0
  BY <1>1, <1>3, Zenon DEF Untouched
<1>5. t # 0 => (fastmode[t] <=> masterFastmode # 0)
  BY <1>1, <1>2, <1>3, Zenon DEF Current
<1>6. fastmode[c] \in BOOLEAN /\ fastmode[t] \in BOOLEAN
  BY <1>0, ThreadTypes, Zenon
<1> QED
  BY <1>1, <1>4, <1>5, <1>6, Zenon DEF IsFast

(***************************************************************************)
(* cascade, with a child to wake up.                                       *)
(***************************************************************************)
LEMMA SectionWakes ==
  ASSUME PoolInv, PoolTypeOK', Sectioned, NEW t \in Party, Busy(t),
         Cascade1(t) \/ (Cascade2(t) /\ HasSecond(t))
  PROVE  PoolInv'
<1>0. /\ PoolTypeOK /\ Tree /\ Request /\ SleepsSlow /\ wend[0] \in 1 .. PoolSize - reserved
      /\ 0 \in Party /\ 0 \in PoolThreads
      /\ \A u \in Party : u \in PoolThreads
  BY PartyIsUsable, Zenon DEF PoolInv
<1>r. /\ Ranged(t) /\ Current(t) /\ t \in Nat /\ t \in PoolThreads /\ wend[t] \in Nat
      /\ Midpoint(t) \in Nat /\ t + 1 <= Midpoint(t) /\ Midpoint(t) <= wend[t]
      /\ wbegin[t] # wend[t] => t + 1 < Midpoint(t)
  BY BusyRange, Zenon
<1>1. PICK c, e, label :
        /\ \/ pool_pc[t] = "cascade1" /\ label = "cascade2" /\ wbegin[t] # wend[t] /\ c = t + 1 /\ e = Midpoint(t)
           \/ pool_pc[t] = "cascade2" /\ label = "work" /\ c = Midpoint(t) /\ e = wend[t] /\ c < e
        /\ wbegin' = [wbegin EXCEPT ![c] = c + 1]
        /\ wend' = [wend EXCEPT ![c] = e]
        /\ Wakeup(t, label, c, IsFast(t))
        /\ UNCHANGED <<fastmode, masterFastmode, reserved, work, todo, ran>>
  <2>1. CASE Cascade1(t)
    <3>1. wbegin[t] = t + 1
      BY <1>r DEF Ranged
    <3>2. /\ wbegin' = [wbegin EXCEPT ![t + 1] = t + 1 + 1]
          /\ wend' = [wend EXCEPT ![t + 1] = Midpoint(t)]
          /\ Wakeup(t, "cascade2", t + 1, IsFast(t))
          /\ pool_pc[t] = "cascade1" /\ wbegin[t] # wend[t]
          /\ UNCHANGED <<fastmode, masterFastmode, reserved, work, todo, ran>>
      BY <2>1, <3>1, Zenon DEF Cascade1
    <3> QED
      BY <3>2, Zenon
  <2>2. CASE Cascade2(t) /\ HasSecond(t)
    <3>1. /\ wbegin' = [wbegin EXCEPT ![Midpoint(t)] = Midpoint(t) + 1]
          /\ wend' = [wend EXCEPT ![Midpoint(t)] = wend[t]]
          /\ Wakeup(t, "work", Midpoint(t), IsFast(t))
          /\ pool_pc[t] = "cascade2" /\ Midpoint(t) < wend[t]
          /\ UNCHANGED <<fastmode, masterFastmode, reserved, work, todo, ran>>
      BY <2>2, Zenon DEF Cascade2, HasSecond
    <3> QED
      BY <3>1, Zenon
  <2> QED
    BY <2>1, <2>2, Zenon
<1>2. c \in Nat /\ e \in Nat /\ c \in Party /\ c # t /\ c # 0
  <2>1. \/ wbegin[t] # wend[t] /\ c = t + 1 /\ e = Midpoint(t)
        \/ c = Midpoint(t) /\ e = wend[t] /\ c < e
    BY <1>1, Zenon
  <2>2. wend[t] <= wend[0] /\ wend[0] \in Nat
    BY <1>0, <1>r DEF Ranged
  <2> QED
    BY <1>r, <2>1, <2>2 DEF Party
<1>3. InReach(t, c) /\ ~Executed(t)
  <2>1. CASE pool_pc[t] = "cascade1" /\ wbegin[t] # wend[t] /\ c = t + 1
    <3>1. t < c /\ c < wend[t]
      BY <1>r, <2>1
    <3> QED
      BY <2>1, <3>1, Zenon DEF InReach, Executed
  <2>2. CASE pool_pc[t] = "cascade2" /\ c = Midpoint(t) /\ c < wend[t]
    <3>1. Midpoint(t) <= c
      BY <1>r, <2>2
    <3> QED
      BY <2>2, <3>1, Zenon DEF InReach, Executed
  <2> QED
    BY <1>1, <2>1, <2>2, Zenon
<1>4. Untouched(c) /\ fastmode[c] = IsFast(t) /\ c \in PoolThreads
  BY <1>0, <1>2, <1>3, ReachIsIdle, Zenon
<1>5. /\ pool_pc'[t] = label /\ pool_pc'[c] = (IF IsFast(t) THEN pool_pc[c] ELSE Wakeups(c))
      /\ \A u \in PoolThreads : u # t /\ u # c => pool_pc'[u] = pool_pc[u]
  BY <1>0, <1>1, <1>2, <1>4, <1>r, Zenon DEF Wakeup, PoolTypeOK
<1>6. /\ ~done'[c] /\ \A u \in PoolThreads : u # c => done'[u] = done[u]
  BY <1>0, <1>1, <1>4, Zenon DEF Wakeup, PoolTypeOK
<1>7. /\ IsFast(t) => fastRelease'[c]
      /\ ~IsFast(t) => fastRelease'[c] = fastRelease[c]
      /\ \A u \in PoolThreads : u # c => fastRelease'[u] = fastRelease[u]
  BY <1>0, <1>1, <1>4, ZenonT(60) DEF Wakeup, PoolTypeOK
<1>8. /\ wbegin'[c] = c + 1 /\ wend'[c] = e
      /\ \A u \in PoolThreads : u # c => wbegin'[u] = wbegin[u] /\ wend'[u] = wend[u]
  BY <1>0, <1>1, <1>4, Zenon DEF PoolTypeOK
<1>9. \A u \in PoolThreads : u # t /\ u # c => SameThread(u)
  BY <1>1, <1>5, <1>6, <1>7, <1>8, Zenon DEF SameThread
<1>10. SameSection
  BY <1>0, <1>1, <1>2, <1>8, Zenon DEF SameSection
<1>11. pool_pc'[c] = "wait"
  <2>1. pool_pc[c] \in {"wait", "asleep"} /\ (pool_pc[c] = "asleep" => ~fastmode[c])
    BY <1>0, <1>4, Zenon DEF Untouched, Idle, SleepsSlow
  <2> QED
    BY <2>1, <1>4, <1>5, SMTT(60) DEF Wakeups
<1>12. Woken(c)'
  BY <1>1, <1>4, <1>6, <1>7, <1>11, Zenon DEF Woken, Untouched, Idle
<1>13. Busy(c)'
  BY <1>2, <1>12, Zenon DEF Busy
<1>14. Current(c)'
  <2>1. ~Executed(c)'
    BY <1>11 DEF Executed
  <2> QED
    BY <1>1, <1>4, <2>1, Zenon DEF Current, Untouched, ModeOf
<1>15. label \in {"cascade2", "work"} /\ Hands(t, c, e)
  BY <1>1, <1>5 DEF Hands
<1>16. Busy(t)' /\ Current(t)'
  <2>1. Cascading(t)
    BY <1>1 DEF Busy, Woken, Released
  <2>2. Busy(t)'
    BY <2>1, <1>2, <1>5, <1>6, <1>7, <1>15, <1>r, ZenonT(60) DEF Busy, Cascading, InCascade
  <2>3. ~Executed(t)'
    BY <1>5, <1>15 DEF Executed
  <2> QED
    BY <1>1, <1>3, <1>r, <2>2, <2>3, Zenon DEF Current, ModeOf
<1>17. Tree'
  BY <1>0, <1>2, <1>8, <1>9, <1>10, <1>11, <1>13, <1>14, <1>15, <1>16, <1>r, WakeKeepsTree, Zenon
<1>18. Sectioned' /\ (pool_pc'[0] \in {"joining", "gone"} => work = "shutdown")
  <2>1. CASE t = 0
    BY <2>1, <1>5, <1>15 DEF Sectioned, InCascade
  <2>2. CASE t # 0
    BY <2>2, <1>0, <1>2, <1>5, Zenon DEF Sectioned, Request
  <2> QED
    BY <2>1, <2>2, Zenon
<1>19. Outside' /\ Taken'
  BY <1>2, <1>9, <1>10, <1>18, PartyStep, Zenon
<1>20. SleepsSlow'
  <2>1. pool_pc'[t] # "asleep" /\ pool_pc'[c] # "asleep"
    BY <1>5, <1>11, <1>15, ZenonT(60)
  <2> QED
    BY <2>1, <1>0, <1>9, Zenon DEF SleepsSlow, SameThread
<1> QED
  BY <1>10, <1>17, <1>18, <1>19, <1>20, SectionKept, Zenon


\* What is rooted at a thread whose done flag is set is through.
LEMMA DoneIsThrough ==
  ASSUME PoolInv, Sectioned, work # "shutdown", NEW t \in Party, Busy(t), pool_pc[t] = "decascade2", SecondIsDone(t)
  PROVE  \A u \in Party : t < u /\ u < wend[t] => Through(u)
<1>0. PoolTypeOK /\ Tree /\ \A u \in Party : u \in Nat
  BY PartyIsUsable, Zenon
<1>r. /\ Ranged(t) /\ t \in Nat /\ wend[t] \in Nat
      /\ Midpoint(t) \in Nat /\ t + 1 <= Midpoint(t) /\ Midpoint(t) <= wend[t]
      /\ wbegin[t] # wend[t] => t + 1 < Midpoint(t)
  BY BusyRange, Zenon
<1>1. /\ \A u \in Party : t < u /\ u < Midpoint(t) => Through(u)
      /\ Rooted(Midpoint(t), wend[t])
  BY <1>0 DEF Tree, Awaits
<1>2. PICK c : c = Midpoint(t)
  OBVIOUS
<1>3. ASSUME c \in Party, Busy(c), wend[c] = wend[t] PROVE FALSE
  <2>1. Ranged(c) /\ c # 0
    BY <1>0, <1>2, <1>3, <1>r DEF Tree
  <2>2. ~done[c]
    BY <1>3, <2>1, Zenon DEF Busy, Cascading, Woken, Released
  <2>3. c < wend[t] /\ wbegin[t] # wend[t]
    BY <1>2, <1>3, <1>r, <2>1, SMTT(60) DEF Ranged
  <2> QED
    BY <1>2, <2>2, <2>3 DEF SecondIsDone, HasSecond
<1>4. \A u \in Party : Midpoint(t) <= u /\ u < wend[t] => Through(u)
  BY <1>1, <1>2, <1>3, Zenon DEF Rooted
<1> QED
  BY <1>0, <1>1, <1>4, <1>r

\* A worker ends its decascade, or leaves at the shutdown.
LEMMA SectionEnds ==
  ASSUME PoolInv, PoolTypeOK', Sectioned, NEW t \in Party, Busy(t), Decascade2(t) \/ Shutdown(t)
  PROVE  PoolInv'
<1>0. PoolTypeOK /\ Request /\ 0 \in PoolThreads
  BY PartyIsUsable, Zenon
<1>r. Current(t) /\ t \in PoolThreads
  BY BusyRange, Zenon
<1>1. CASE Decascade2(t)
  <2>1. /\ t # 0 /\ pool_pc[t] = "decascade2" /\ SecondIsDone(t) /\ GoOn(t, "wait")
        /\ UNCHANGED <<wbegin, wend, fastRelease, fastmode, masterFastmode, reserved, work, todo, ran>>
    BY <1>1, Zenon DEF Decascade2
  <2>2. pool_pc'[t] = "wait" /\ \A u \in PoolThreads : u # t => pool_pc'[u] = pool_pc[u]
    BY <1>0, <1>r, <2>1, GoOnThread, Zenon
  <2>3. done'[t] /\ \A u \in PoolThreads : u # t => done'[u] = done[u]
    BY <1>0, <1>1, <1>r, Zenon DEF Decascade2, PoolTypeOK
  <2>4. \A u \in PoolThreads : u # t => SameThread(u)
    BY <2>1, <2>2, <2>3, Zenon DEF SameThread
  <2>5. ~fastRelease[t] /\ Executed(t)
    BY <2>1 DEF Busy, Cascading, Woken, Released, Executed
  <2>6. Idle(t)'
    BY <2>1, <2>2, <2>3, <2>5 DEF Idle
  <2>7. ~Busy(t)'
    BY <2>1, <2>2, <2>3, ZenonT(60) DEF Busy, Cascading, Woken, Released, InCascade
  <2>8. Through(t)'
    BY <1>r, <2>1, <2>5, <2>6, Zenon DEF Through, Current, ModeAfter, ModeOf
  <2>9. ~Idle(t) /\ pool_pc'[t] # "asleep" /\ ~Untouched(t) /\ ~Through(t)
    BY <2>1, <2>2 DEF Idle, Untouched, Through
  <2>10. work # "shutdown" => \A u \in Party : t < u /\ u < wend[t] => Through(u)
    BY <2>1, DoneIsThrough, Zenon
  <2>11. Sectioned'
    BY <1>0, <2>1, <2>2, Zenon DEF Sectioned
  <2> QED
    BY <2>1, <2>4, <2>6, <2>7, <2>8, <2>9, <2>10, <2>11, RetireKeepsInv, Zenon
<1>2. CASE Shutdown(t)
  <2>1. PICK label : PlaceOnly(t, label) /\ label = (IF t = 0 THEN "joining" ELSE "exit")
    BY <1>2, Zenon DEF Shutdown, PlaceOnly
  <2>2. /\ pool_pc'[t] = label
        /\ \A u \in PoolThreads : u # t => SameThread(u)
        /\ UNCHANGED <<wbegin, wend, masterFastmode, reserved, work, todo>>
    BY <1>0, <1>r, <2>1, PlaceOnlyThread, Zenon
  <2>3. work = "shutdown" /\ pool_pc[t] = "work"
    BY <1>2, Zenon DEF Shutdown
  <2>4. ~Busy(t)' /\ ~Untouched(t) /\ pool_pc'[t] # "asleep"
    BY <2>1, <2>2, <2>3 DEF Busy, Cascading, Woken, Released, InCascade, Untouched, Idle
  <2>5. Sectioned'
    <3>1. CASE t = 0
      BY <3>1, <2>1, <2>2 DEF Sectioned
    <3>2. CASE t # 0
      BY <3>2, <1>0, <2>2, Zenon DEF Sectioned, SameThread
    <3> QED
      BY <3>1, <3>2, Zenon
  <2>6. t # 0 => pool_pc'[t] = "exit"
    BY <2>1, <2>2
  <2> QED
    BY <2>2, <2>3, <2>4, <2>5, <2>6, RetireKeepsInv, Zenon
<1> QED
  BY <1>1, <1>2, Zenon

\* The destructor joins the threads.
LEMMA JoinKeepsInv == ASSUME PoolInv, PoolTypeOK', Join PROVE PoolInv'
<1>1. Sectioned
  BY DEF Join, Sectioned
<1>2. PoolTypeOK /\ Request /\ 0 \in PoolThreads /\ 0 \in Party
  BY <1>1, PartyIsUsable, Zenon
<1>3. PlaceOnly(0, "gone") /\ pool_pc[0] = "joining"
  BY Zenon DEF Join, PlaceOnly
<1>4. /\ pool_pc'[0] = "gone"
      /\ \A u \in PoolThreads : u # 0 => SameThread(u)
      /\ UNCHANGED <<wbegin, wend, masterFastmode, reserved, work, todo>>
  BY <1>2, <1>3, PlaceOnlyThread, Zenon
<1>5. work = "shutdown"
  BY <1>2, <1>3 DEF Request
<1>6. Sectioned' /\ ~Busy(0)' /\ pool_pc'[0] # "asleep"
  BY <1>4 DEF Sectioned, Busy, Cascading, InCascade
<1> QED
  BY <1>1, <1>2, <1>4, <1>5, <1>6, RetireKeepsInv, Zenon

\* A dedicated function returns during a section.
LEMMA SectionReturns ==
  ASSUME PoolInv, PoolTypeOK', Sectioned, NEW t \in PoolThreads, DedicatedReturns(t)
  PROVE  PoolInv'
<1>0. PoolTypeOK /\ Request /\ Tree /\ Outside /\ wend[0] \in 1 .. PoolSize - reserved
  BY PartyIsUsable, Zenon
<1>1. PlaceOnly(t, "exit") /\ pool_pc[t] = "dedicated"
  BY Zenon DEF DedicatedReturns, PlaceOnly
<1>2. t # 0
  BY <1>1 DEF Sectioned, InCascade
<1>3. ~Idle(t) /\ ~Busy(t)
  BY <1>1 DEF Idle, Busy, Cascading, Woken, Released, InCascade
<1>4. t \notin Party
  BY <1>0, <1>1, <1>2, <1>3 DEF Tree
<1>5. ~(t < PoolSize - reserved)
  BY <1>0, <1>3, <1>4, ThreadTypes DEF Outside, Untouched, Party
<1> QED
  BY <1>1, <1>2, <1>4, <1>5, OutsideStirs


--------------------------------------------------------------------------------
(***************************************************************************)
(* A section begins.                                                       *)
(***************************************************************************)
LEMMA RunKeepsInv ==
  ASSUME PoolInv, PoolTypeOK', pool_pc[0] \in {"out", "resume"},
         NEW num, NEW w, NEW then, Run(num, w, then), Request'
  PROVE  PoolInv'
<1>0. /\ PoolTypeOK /\ PoolTypeOK' /\ Between /\ Taken /\ SleepsSlow /\ 0 \in PoolThreads
      /\ wend'[0] \in 1 .. PoolSize - reserved /\ reserved' = reserved /\ masterFastmode' = masterFastmode
      /\ work' = w
  <2>1. 0 \in PoolThreads
    BY PoolAssumption DEF PoolThreads
  <2> QED
    BY <2>1, Zenon DEF PoolInv, Request, Run
<1>1. pool_pc'[0] = "cascade1" /\ \A u \in PoolThreads : u # 0 => pool_pc'[u] = pool_pc[u]
  BY <1>0, GoOnThread, Zenon DEF Run
<1>2. wbegin'[0] = 1 /\ UNCHANGED <<done, fastRelease, fastmode>>
  BY <1>0, Zenon DEF Run, PoolTypeOK
<1>3. work' = "user" => \A u \in PoolThreads : ran'[u] = 0
  BY <1>0, Zenon DEF Run
<1>4. Sectioned' /\ ~Dedicating' /\ ~Dedicating /\ CallerAt' /\ Cascading(0)'
  BY <1>1 DEF Sectioned, Dedicating, CallerAt, Cascading, InCascade
<1>5. \A u \in PoolThreads : u # 0 /\ u < PoolSize - reserved => Idle(u)' /\ Untouched(u)'
  <2> SUFFICES ASSUME NEW u \in PoolThreads, u # 0, u < PoolSize - reserved PROVE Idle(u)' /\ Untouched(u)'
    BY Zenon
  <2>1. Idle(u) /\ (fastmode[u] <=> ModeOf(u))
    BY <1>0, Zenon DEF Between
  <2>2. Idle(u)'
    BY <2>1, <1>1, <1>2, Zenon DEF Idle
  <2> QED
    BY <2>1, <2>2, <1>0, <1>2, <1>3, Zenon DEF Untouched, ModeOf
<1>6. \A u \in Party' : u \in PoolThreads /\ u \in Nat /\ u < PoolSize - reserved
  BY <1>0, PoolNumbers DEF Party, PoolThreads
<1>7. \A u \in Party' : u # 0 => Idle(u)' /\ Untouched(u)' /\ ~Busy(u)'
  <2>1. \A u \in Party' : u # 0 => Idle(u)' /\ Untouched(u)'
    BY <1>5, <1>6, Zenon
  <2> QED
    BY <2>1 DEF Idle, Busy, Cascading, Woken, Released, InCascade
<1>8. Tree'
  <2>1. Ranged(0)' /\ Current(0)'
    BY <1>0, <1>1, <1>2, <1>3 DEF Ranged, Current, Executed
  <2>2. Awaits(0)'
    BY <1>1 DEF Awaits
  <2>3. \A u \in Party' : InReach(0, u)' => u # 0
    BY <1>1, <1>6 DEF InReach
  <2>4. \A q \in Party' : Busy(q)' => q = 0
    BY <1>7, Zenon
  <2>5. \A p, q \in Party' : ~(Busy(p)' /\ Busy(q)' /\ p < q)
    BY <2>4
  <2>6. \A p, u \in Party' : Busy(p)' /\ InReach(p, u)' => Untouched(u)'
    BY <2>3, <2>4, <1>7, Zenon
  <2>7. \A p \in Party' : Busy(p)' => Ranged(p)' /\ Current(p)' /\ Awaits(p)'
    BY <2>1, <2>2, <2>4, Zenon
  <2> QED
    BY <2>5, <2>6, <2>7, <1>7, Zenon DEF Tree
<1>9. Outside'
  <2>1. \A u \in PoolThreads : wend'[0] <= u => u # 0
    BY <1>0, PoolNumbers
  <2> QED
    BY <2>1, <1>0, <1>3, <1>5, Zenon DEF Outside
<1>10. Taken'
  <2>1. ~(0 >= PoolSize - reserved)
    BY <1>0, PoolNumbers
  <2> QED
    BY <2>1, <1>0, <1>1, <1>4, Zenon DEF Taken
<1>11. SleepsSlow'
  <2>1. pool_pc'[0] # "asleep"
    BY <1>1
  <2> QED
    BY <2>1, <1>0, <1>1, <1>2, Zenon DEF SleepsSlow
<1>12. pool_pc'[0] \notin {"out", "resume"}
  BY <1>1
<1> QED
  BY <1>4, <1>8, <1>9, <1>10, <1>11, <1>12, Zenon DEF PoolInv

\* The calls of the program that begin a section, and the one that burnPower
\* and the destructor make when their reset is through.
LEMMA CallsKeepInv ==
  ASSUME PoolInv, PoolTypeOK',
         \/ \E num \in 0 .. PoolSize : CallRun(num) \/ BurnPower(num)
         \/ BeKind \/ DestroyPool \/ Resume
  PROVE  PoolInv'
<1>0. /\ PoolTypeOK /\ 0 \in PoolThreads /\ PoolSize \in Nat /\ 0 < PoolSize /\ reserved \in Nat /\ reserved < PoolSize
      /\ masterFastmode \in Nat /\ todo.num \in Nat
  <2>1. PoolTypeOK
    BY Zenon DEF PoolInv
  <2>2. todo.num \in 0 .. PoolSize
    BY <2>1 DEF PoolTypeOK
  <2> QED
    BY <2>1, <2>2, PoolNumbers DEF PoolThreads
<1>1. pool_pc[0] \in {"out", "resume"}
  BY ZenonT(60) DEF CallRun, BurnPower, BeKind, DestroyPool, Resume
<1>2. Between
  BY <1>1, Zenon DEF PoolInv
<1>3. ASSUME NEW num \in Nat, NEW w, NEW then, Run(num, w, then)
      PROVE  /\ wend'[0] = MinOf(MaxOf(1, num), PoolSize - reserved)
             /\ masterFastmode' = masterFastmode /\ reserved' = reserved /\ work' = w /\ todo' = then
             /\ pool_pc'[0] \notin {"joining", "gone"}
  <2>1. pool_pc'[0] = "cascade1"
    BY <1>0, <1>3, GoOnThread, Zenon DEF Run
  <2>2. wend'[0] = Sanitized(num)
    BY <1>0, <1>3, Zenon DEF Run, PoolTypeOK
  <2> QED
    BY <1>3, <2>1, <2>2 DEF Run, Sanitized, getMaxUsableThreads
<1>4. ASSUME NEW num \in 0 .. PoolSize, CallRun(num) PROVE PoolInv'
  <2>1. Run(num, "user", [then |-> "return", num |-> num]) /\ masterFastmode \in {0, num} /\ num \in Nat
    BY <1>0, <1>4 DEF CallRun
  <2>2. /\ wend'[0] = MinOf(MaxOf(1, num), PoolSize - reserved)
        /\ masterFastmode' = masterFastmode /\ reserved' = reserved /\ work' = "user"
        /\ todo' = [then |-> "return", num |-> num]
        /\ pool_pc'[0] \notin {"joining", "gone"}
    BY <2>1, <1>3, Zenon
  <2>3. Request'
    BY <2>1, <2>2, <1>0, <1>2, SMTT(60) DEF Request, MinOf, MaxOf, Between
  <2> QED
    BY <2>1, <2>3, <1>1, RunKeepsInv, Zenon
<1>5. ASSUME masterFastmode # 0, NEW num \in Nat, num <= PoolSize - reserved, NEW how \in {"burnAgain", "kind", "destroy"},
             Run(masterFastmode, "fastOff", [then |-> how, num |-> num])
      PROVE  PoolInv'
  <2>2. /\ wend'[0] = MinOf(MaxOf(1, masterFastmode), PoolSize - reserved)
        /\ masterFastmode' = masterFastmode /\ reserved' = reserved /\ work' = "fastOff"
        /\ todo' = [then |-> how, num |-> num]
        /\ pool_pc'[0] \notin {"joining", "gone"}
    <3> DEFINE m == masterFastmode
    <3> HIDE DEF m
    <3>1. m \in Nat /\ Run(m, "fastOff", [then |-> how, num |-> num])
      BY <1>0, <1>5, Zenon DEF m
    <3>2. /\ wend'[0] = MinOf(MaxOf(1, m), PoolSize - reserved)
          /\ masterFastmode' = masterFastmode /\ reserved' = reserved /\ work' = "fastOff"
          /\ todo' = [then |-> how, num |-> num]
          /\ pool_pc'[0] \notin {"joining", "gone"}
      BY <3>1, <1>3, Zenon
    <3> QED
      BY <3>2, Zenon DEF m
  <2>3. Request'
    BY <1>5, <2>2, <1>0, <1>2, SMTT(60) DEF Request, MinOf, MaxOf, Between
  <2> QED
    BY <2>3, <1>1, <1>5, RunKeepsInv, Zenon
<1>6. ASSUME masterFastmode = 0, NEW num \in Nat, num <= PoolSize - reserved,
             Run(num, "fastOn", [then |-> "burn", num |-> num])
      PROVE  PoolInv'
  <2>2. /\ wend'[0] = MinOf(MaxOf(1, num), PoolSize - reserved)
        /\ masterFastmode' = masterFastmode /\ reserved' = reserved /\ work' = "fastOn"
        /\ todo' = [then |-> "burn", num |-> num]
        /\ pool_pc'[0] \notin {"joining", "gone"}
    BY <1>3, <1>6, Zenon
  <2>3. Request'
    BY <1>6, <2>2, <1>0 DEF Request, MinOf, MaxOf
  <2> QED
    BY <2>3, <1>1, <1>6, RunKeepsInv, Zenon
<1>7. ASSUME masterFastmode = 0, Run(PoolSize, "shutdown", [then |-> "return", num |-> PoolSize])
      PROVE  PoolInv'
  <2>2. /\ wend'[0] = MinOf(MaxOf(1, PoolSize), PoolSize - reserved)
        /\ masterFastmode' = masterFastmode /\ reserved' = reserved /\ work' = "shutdown"
        /\ pool_pc'[0] \notin {"joining", "gone"}
    BY <1>0, <1>3, <1>7, Zenon
  <2>3. Request'
    BY <1>7, <2>2, <1>0 DEF Request, MinOf, MaxOf
  <2> QED
    BY <2>3, <1>1, <1>7, RunKeepsInv, Zenon
<1>8. ASSUME NEW num \in 0 .. PoolSize, BurnPower(num) PROVE PoolInv'
  <2>1. PICK n : n = MinOf(num, getMaxUsableThreads)
    OBVIOUS
  <2>2. n \in Nat /\ n <= PoolSize - reserved
    BY <2>1, <1>0 DEF MinOf, getMaxUsableThreads
  <2>3. /\ masterFastmode = n => n = 0
        /\ IF Reset(n)
           THEN Run(masterFastmode, "fastOff", [then |-> "burnAgain", num |-> n])
           ELSE Run(n, "fastOn", [then |-> "burn", num |-> n])
    BY <1>8, <2>1, Zenon DEF BurnPower
  <2>4. CASE Reset(n)
    <3>1. masterFastmode # 0
      BY <2>4, Zenon DEF Reset
    <3> QED
      BY <3>1, <2>2, <2>3, <2>4, <1>5, ZenonT(60)
  <2>5. CASE ~Reset(n)
    <3>1. masterFastmode = 0
      BY <2>5, <2>3, Zenon DEF Reset
    <3> QED
      BY <3>1, <2>2, <2>3, <2>5, <1>6, Zenon
  <2> QED
    BY <2>4, <2>5, Zenon
<1>9. ASSUME BeKind PROVE PoolInv'
  <2>1. masterFastmode # 0 /\ Run(masterFastmode, "fastOff", [then |-> "kind", num |-> 0])
    BY <1>9, Zenon DEF BeKind
  <2>2. 0 \in Nat /\ 0 <= PoolSize - reserved /\ "kind" \in {"burnAgain", "kind", "destroy"}
    BY <1>0
  <2> QED
    BY <2>1, <2>2, <1>5, Zenon
<1>10. ASSUME DestroyPool PROVE PoolInv'
  <2>1. CASE masterFastmode # 0
    <3>1. Run(masterFastmode, "fastOff", [then |-> "destroy", num |-> 0])
      BY <1>10, <2>1, Zenon DEF DestroyPool
    <3>2. 0 \in Nat /\ 0 <= PoolSize - reserved /\ "destroy" \in {"burnAgain", "kind", "destroy"}
      BY <1>0
    <3> QED
      BY <3>1, <3>2, <2>1, <1>5, Zenon
  <2>2. CASE masterFastmode = 0
    BY <1>7, <1>10, <2>2, Zenon DEF DestroyPool
  <2> QED
    BY <2>1, <2>2, Zenon
<1>11. ASSUME Resume PROVE PoolInv'
  <2>1. masterFastmode = 0 /\ todo.num <= PoolSize - reserved
    BY <1>2, <1>11, Zenon DEF Resume, Between
  <2>2. CASE todo.then = "burnAgain"
    <3>1. PICK n : n = todo.num
      OBVIOUS
    <3>2. Run(n, "fastOn", [then |-> "burn", num |-> n])
      BY <3>1, <2>2, <1>11, Zenon DEF Resume
    <3> QED
      BY <3>1, <3>2, <2>1, <1>0, <1>6, Zenon
  <2>3. CASE todo.then # "burnAgain"
    BY <2>1, <2>3, <1>7, <1>11, Zenon DEF Resume
  <2> QED
    BY <2>2, <2>3, Zenon
<1> QED
  BY <1>4, <1>8, <1>9, <1>10, <1>11, Zenon


(***************************************************************************)
(* A section ends: its threads are through, the others were not touched.   *)
(***************************************************************************)
LEMMA AllThrough ==
  ASSUME PoolInv, ReturnFromRun
  PROVE  /\ Sectioned /\ PoolTypeOK /\ Request /\ Outside /\ work # "shutdown"
         /\ Current(0) /\ Executed(0)
         /\ \A u \in PoolThreads : u # 0 /\ u < wend[0] => Through(u)
<1>1. Sectioned /\ pool_pc[0] = "decascade2" /\ SecondIsDone(0)
  BY DEF ReturnFromRun, Sectioned, InCascade
<1>2. PoolTypeOK /\ Request /\ Outside /\ Tree /\ 0 \in Party /\ wend[0] \in 1 .. PoolSize - reserved
  BY <1>1, PartyIsUsable, Zenon
<1>3. Busy(0) /\ Executed(0)
  BY <1>1 DEF Busy, Cascading, InCascade, Executed
<1>4. Current(0)
  BY <1>2, <1>3, Zenon DEF Tree
<1>5. work # "shutdown"
  BY <1>3, <1>4, Zenon DEF Current
<1>6. \A u \in Party : 0 < u /\ u < wend[0] => Through(u)
  BY <1>1, <1>2, <1>3, <1>5, DoneIsThrough, Zenon
<1>7. \A u \in PoolThreads : u # 0 /\ u < wend[0] => u \in Party /\ 0 < u
  BY <1>2, ThreadTypes DEF Party
<1> QED
  BY <1>1, <1>2, <1>3, <1>4, <1>5, <1>6, <1>7, Zenon

\* run() returns: its threads are through, and the pool is between two sections.
LEMMA ReturnKeepsInv == ASSUME PoolInv, PoolTypeOK', ReturnFromRun PROVE PoolInv'
<1>0. /\ Sectioned /\ PoolTypeOK /\ Request /\ Outside /\ work # "shutdown"
      /\ \A u \in PoolThreads : u # 0 /\ u < wend[0] => Through(u)
  BY AllThrough, Zenon
<1>n. /\ PoolSize \in Nat /\ 0 < PoolSize /\ reserved \in Nat /\ reserved < PoolSize /\ 0 \in PoolThreads
      /\ masterFastmode \in Nat /\ todo.num \in Nat /\ wend[0] \in Nat
  <2>1. todo.num \in 0 .. PoolSize
    BY <1>0 DEF PoolTypeOK
  <2>2. 0 \in PoolThreads
    BY PoolAssumption DEF PoolThreads
  <2> QED
    BY <2>1, <2>2, <1>0, PoolNumbers, ThreadTypes
<1>1. PICK label : GoOn(0, label) /\ label = (IF todo.then \in {"burnAgain", "destroy"} THEN "resume" ELSE "out")
  BY Zenon DEF ReturnFromRun
<1>2. /\ pool_pc'[0] = label /\ \A u \in PoolThreads : u # 0 => pool_pc'[u] = pool_pc[u]
  BY <1>0, <1>1, <1>n, GoOnThread, Zenon
<1>3. /\ work' = "none" /\ UNCHANGED <<wbegin, wend, fastRelease, fastmode, reserved, todo, ran>>
      /\ \A u \in PoolThreads : u # 0 => done'[u] = done[u]
  BY <1>0, Zenon DEF ReturnFromRun, PoolTypeOK
<1>4. /\ todo.then = "return" => masterFastmode' = masterFastmode
      /\ todo.then = "burn" => masterFastmode' = todo.num
      /\ todo.then \in {"burnAgain", "kind", "destroy"} => masterFastmode' = 0
  BY DEF ReturnFromRun
<1>5. label \in {"resume", "out"} /\ (label = "resume" => work = "fastOff" /\ todo.then \in {"burnAgain", "destroy"})
  BY <1>0, <1>1 DEF Request
<1>6. /\ masterFastmode' \in Nat /\ masterFastmode' <= PoolSize - reserved
  BY <1>0, <1>4, <1>n DEF Request, MaxOf
<1>7. ASSUME NEW u \in PoolThreads, u # 0, u < PoolSize - reserved PROVE Idle(u)' /\ (fastmode'[u] <=> ModeOf(u)')
  <2>0. u \in Nat /\ u # 0
    BY <1>0, <1>7, ThreadTypes, Zenon
  <2>1. CASE u < wend[0]
    <3>1. Through(u)
      BY <1>0, <1>7, <2>1, Zenon
    <3>2. ModeAfter(u) <=> ModeOf(u)'
      BY <1>0, <1>4, <1>n, <2>0, <2>1 DEF Request, ModeAfter, ModeOf, MaxOf
    <3> QED
      BY <3>1, <3>2, <1>2, <1>3, <1>7, Zenon DEF Through, Idle
  <2>2. CASE wend[0] <= u
    <3>1. Untouched(u)
      BY <1>0, <1>7, <2>2, Zenon DEF Outside
    <3>2. ModeOf(u) <=> ModeOf(u)'
      BY <1>0, <1>4, <1>n, <2>0, <2>2, SMTT(60) DEF Request, ModeOf, MaxOf
    <3> QED
      BY <3>1, <3>2, <1>2, <1>3, <1>7, Zenon DEF Untouched, Idle
  <2> QED
    BY <2>0, <2>1, <2>2, <1>n
<1>8. Between'
  <2>1. pool_pc'[0] = "resume" => /\ masterFastmode' = 0 /\ todo'.then \in {"burnAgain", "destroy"}
                                  /\ todo'.num <= PoolSize - reserved'
    BY <1>0, <1>2, <1>3, <1>4, <1>5 DEF Request
  <2> QED
    BY <2>1, <1>3, <1>6, <1>7, Zenon DEF Between
<1>9. CallerAt' /\ ~Sectioned' /\ ~Dedicating' /\ ~Dedicating /\ pool_pc'[0] # "asleep"
  BY <1>0, <1>2, <1>5 DEF CallerAt, Sectioned, Dedicating, InCascade
<1>10. Taken'
  <2>1. ~(0 >= PoolSize - reserved)
    BY <1>n
  <2> QED
    BY <2>1, <1>2, <1>3, <1>9, Zenon DEF Taken, PoolInv
<1>11. SleepsSlow'
  BY <1>2, <1>3, <1>9, Zenon DEF SleepsSlow, PoolInv
<1> QED
  BY <1>8, <1>9, <1>10, <1>11, Zenon DEF PoolInv

\* An idle thread falls asleep or wakes up by itself.
LEMMA IdleStirs ==
  ASSUME PoolTypeOK, NEW t \in PoolThreads, Idle(t), WaitSlow(t) \/ WaitFast(t) \/ SpuriousWakeup(t)
  PROVE  /\ Idle(t)' /\ (pool_pc'[t] = "asleep" => ~fastmode[t])
         /\ \A u \in PoolThreads : u # t => pool_pc'[u] = pool_pc[u]
         /\ UNCHANGED <<wbegin, wend, done, fastRelease, fastmode, masterFastmode, reserved, work, todo, ran>>
<1>1. PICK label : PlaceOnly(t, label) /\ \/ label = "asleep" /\ ~fastmode[t]
                                          \/ label = "wait"
  <2>1. ASSUME WaitSlow(t) PROVE PlaceOnly(t, "asleep") /\ ~fastmode[t]
    BY <2>1, Zenon DEF WaitSlow, PlaceOnly, Idle
  <2>2. ~WaitFast(t)
    BY Zenon DEF WaitFast, Idle
  <2>3. ASSUME SpuriousWakeup(t) PROVE PlaceOnly(t, "wait")
    BY <2>3, Zenon DEF SpuriousWakeup, PlaceOnly
  <2> QED
    BY <2>1, <2>2, <2>3, Zenon
<1>2. /\ pool_pc'[t] = label
      /\ \A u \in PoolThreads : u # t => pool_pc'[u] = pool_pc[u]
      /\ UNCHANGED <<wbegin, wend, done, fastRelease, fastmode, masterFastmode, reserved, work, todo, ran>>
  BY <1>1, GoOnThread, Zenon DEF PlaceOnly
<1>3. Idle(t)'
  BY <1>1, <1>2, ZenonT(60) DEF Idle
<1>4. label = "asleep" => ~fastmode[t]
  BY <1>1
<1> QED
  BY <1>2, <1>3, <1>4, Zenon


\* Between the calls only the waiting threads and the dedicated ones take steps.
LEMMA BetweenKept ==
  ASSUME PoolInv, PoolTypeOK', pool_pc[0] \in {"out", "resume"}, NEW t \in PoolThreads,
         WaitSlow(t) \/ WaitFast(t) \/ SpuriousWakeup(t) \/ DedicatedReturns(t)
  PROVE  PoolInv'
<1>0. PoolTypeOK /\ Between /\ Taken /\ SleepsSlow /\ ~Dedicating /\ ~Sectioned
  BY DEF PoolInv, Dedicating, Sectioned, InCascade
<1>n. /\ PoolSize \in Nat /\ reserved \in Nat /\ t \in Nat /\ t < PoolSize
  BY <1>0, PoolNumbers, ThreadTypes, Zenon
<1>1. t # 0
  BY DEF WaitSlow, WaitFast, SpuriousWakeup, DedicatedReturns
<1>2. /\ \A u \in PoolThreads : u # t => pool_pc'[u] = pool_pc[u]
      /\ UNCHANGED <<wbegin, wend, done, fastRelease, fastmode, masterFastmode, reserved, work, todo, ran>>
      /\ pool_pc'[t] = "asleep" => ~fastmode[t]
      /\ t < PoolSize - reserved => Idle(t)'
      /\ t >= PoolSize - reserved => pool_pc'[t] \in {"dedicated", "exit"}
  <2>1. CASE DedicatedReturns(t)
    <3>1. pool_pc[t] = "dedicated" /\ GoOn(t, "exit")
          /\ UNCHANGED <<wbegin, wend, done, fastRelease, fastmode, masterFastmode, reserved, work, todo, ran>>
      BY <2>1, Zenon DEF DedicatedReturns
    <3>2. pool_pc'[t] = "exit" /\ \A u \in PoolThreads : u # t => pool_pc'[u] = pool_pc[u]
      BY <1>0, <3>1, GoOnThread, Zenon
    <3>3. ~Idle(t) /\ pool_pc'[t] # "asleep"
      BY <3>1, <3>2 DEF Idle
    <3>4. ~(t < PoolSize - reserved)
      BY <1>0, <1>1, <3>3, Zenon DEF Between
    <3>5. pool_pc'[t] \in {"dedicated", "exit"}
      BY <3>2
    <3> QED
      BY <3>1, <3>2, <3>3, <3>4, <3>5, Zenon
  <2>2. CASE WaitSlow(t) \/ WaitFast(t) \/ SpuriousWakeup(t)
    <3>1. pool_pc[t] \notin {"dedicated", "exit"}
      BY <2>2 DEF WaitSlow, WaitFast, SpuriousWakeup
    <3>2. ~(t >= PoolSize - reserved)
      BY <1>0, <3>1, Zenon DEF Taken
    <3>3. t < PoolSize - reserved
      BY <3>2, <1>n
    <3>4. Idle(t)
      BY <3>3, <1>0, <1>1, Zenon DEF Between
    <3> QED
      BY <2>2, <3>2, <3>4, <1>0, IdleStirs, Zenon
  <2> QED
    BY <2>1, <2>2, Zenon
<1>3. 0 \in PoolThreads
  BY PoolAssumption DEF PoolThreads
<1>4. pool_pc'[0] = pool_pc[0]
  BY <1>1, <1>2, <1>3, Zenon
<1>5. Between'
  <2>1. \A u \in PoolThreads : u # t /\ Idle(u) => Idle(u)'
    BY <1>2, Zenon DEF Idle
  <2>2. \A u \in PoolThreads : ModeOf(u)' <=> ModeOf(u)
    BY <1>2, Zenon DEF ModeOf
  <2> QED
    BY <1>0, <1>2, <1>4, <2>1, <2>2, Zenon DEF Between
<1>6. CallerAt' /\ ~Sectioned' /\ ~Dedicating'
  BY <1>0, <1>4, Zenon DEF CallerAt, Sectioned, Dedicating, PoolInv
<1>7. Taken'
  BY <1>0, <1>2, <1>6, Zenon DEF Taken
<1>8. SleepsSlow'
  BY <1>0, <1>2, Zenon DEF SleepsSlow
<1> QED
  BY <1>5, <1>6, <1>7, <1>8, Zenon DEF PoolInv

(***************************************************************************)
(* runDedicated takes the last usable thread of the pool.                  *)
(***************************************************************************)
LEMMA RunDedicatedKeepsInv ==
  ASSUME PoolInv, PoolTypeOK', DedicatedModes \subseteq {"slow"}, RunDedicated
  PROVE  PoolInv'
<1>0. PoolTypeOK /\ Between /\ Taken /\ SleepsSlow /\ ~Dedicating /\ pool_pc[0] = "out"
  BY DEF PoolInv, Dedicating, RunDedicated
<1>n. /\ PoolSize \in Nat /\ 0 < PoolSize /\ reserved \in Nat /\ reserved + 1 < PoolSize /\ 0 \in PoolThreads
  BY <1>0, PoolNumbers DEF RunDedicated, MayReserve, PoolThreads
<1>1. PICK c : c = PoolSize - reserved - 1
  OBVIOUS
<1>2. c \in PoolThreads /\ c # 0 /\ c \in Nat /\ c < PoolSize - reserved
  BY <1>1, <1>n DEF PoolThreads
<1>3. /\ masterFastmode = 0 /\ reserved' = reserved + 1 /\ work' = "dedicated"
      /\ wbegin' = [wbegin EXCEPT ![c] = 0] /\ wend' = [wend EXCEPT ![c] = 0]
      /\ done' = [done EXCEPT ![c] = FALSE] /\ GoOn(0, "waking")
      /\ UNCHANGED <<fastRelease, fastmode, masterFastmode, todo, ran>>
  BY <1>1 DEF RunDedicated
<1>4. /\ wbegin'[c] = 0 /\ wend'[c] = 0 /\ ~done'[c]
      /\ \A u \in PoolThreads : u # c => done'[u] = done[u]
  BY <1>0, <1>2, <1>3, Zenon DEF PoolTypeOK
<1>5. pool_pc'[0] = "waking" /\ \A u \in PoolThreads : u # 0 => pool_pc'[u] = pool_pc[u]
  BY <1>0, <1>3, <1>n, GoOnThread, Zenon
<1>6. DedicatedChild' = c
  BY <1>1, <1>3, <1>n DEF DedicatedChild
<1>7. Idle(c) /\ ~fastmode[c]
  BY <1>0, <1>2, <1>3 DEF Between, ModeOf
<1>8. \A u \in PoolThreads : u # 0 /\ u < c => Idle(u)' /\ ~fastmode'[u]
  <2> SUFFICES ASSUME NEW u \in PoolThreads, u # 0, u < c PROVE Idle(u)' /\ ~fastmode'[u]
    BY Zenon
  <2>1. u < PoolSize - reserved /\ u # c
    BY <1>0, <1>2, <1>n, ThreadTypes
  <2>2. Idle(u) /\ ~fastmode[u]
    BY <1>0, <1>3, <2>1 DEF Between, ModeOf
  <2> QED
    BY <2>1, <2>2, <1>3, <1>4, <1>5, Zenon DEF Idle
<1>9. pool_pc'[c] \in {"wait", "asleep", "cascade1", "work", "dedicated", "exit"}
  BY <1>2, <1>5, <1>7 DEF Idle
<1>10. Handover'
  BY <1>2, <1>3, <1>4, <1>6, <1>7, <1>8, <1>9, Zenon DEF Handover, Idle
<1>11. CallerAt' /\ ~Sectioned' /\ Dedicating' /\ pool_pc'[0] \notin {"out", "resume", "asleep"}
  BY <1>5 DEF CallerAt, Sectioned, Dedicating, InCascade
<1>12. Taken'
  <2> SUFFICES ASSUME NEW u \in PoolThreads, u >= PoolSize - reserved', u # c PROVE pool_pc'[u] \in {"dedicated", "exit"}
    BY <1>6, <1>11, Zenon DEF Taken
  <2>1. u >= PoolSize - reserved /\ u # 0
    BY <1>0, <1>1, <1>3, <1>n, ThreadTypes
  <2> QED
    BY <2>1, <1>0, <1>5, Zenon DEF Taken
<1>13. SleepsSlow'
  BY <1>0, <1>3, <1>5, <1>11 DEF SleepsSlow
<1> QED
  BY <1>10, <1>11, <1>12, <1>13, Zenon DEF PoolInv


\* What a step of one thread leaves to be shown while runDedicated is active.
LEMMA HandoverKept ==
  ASSUME PoolInv, PoolTypeOK', Dedicating, Dedicating',
         UNCHANGED <<wbegin, wend, fastRelease, fastmode, masterFastmode, reserved, work, todo, ran>>,
         NEW t \in PoolThreads, t # 0,
         \A u \in PoolThreads : u # 0 /\ u # t => pool_pc'[u] = pool_pc[u] /\ done'[u] = done[u],
         pool_pc'[t] = "asleep" => ~fastmode[t],
         t < DedicatedChild => Idle(t)',
         t > DedicatedChild => pool_pc'[t] \in {"dedicated", "exit"},
         t = DedicatedChild => /\ pool_pc'[t] \in {"wait", "asleep", "cascade1", "work", "dedicated", "exit"}
                               /\ done'[t] => pool_pc'[t] \in {"dedicated", "exit"}
  PROVE  PoolInv'
<1>0. PoolTypeOK /\ Handover /\ Taken /\ SleepsSlow
  BY Zenon DEF PoolInv
<1>n. /\ PoolSize \in Nat /\ reserved \in Nat /\ 0 \in PoolThreads
      /\ \A u \in PoolThreads : u \in Nat /\ u < PoolSize
  BY <1>0, PoolNumbers, ThreadTypes, SMTT(60) DEF PoolThreads
<1>1. DedicatedChild' = DedicatedChild /\ DedicatedChild \in PoolThreads /\ DedicatedChild \in Nat
      /\ DedicatedChild = PoolSize - reserved
  BY <1>0, <1>n DEF DedicatedChild, Handover
<1>2. DedicatedChild # 0
  BY <1>0, <1>1, PoolNumbers, SMTT(60)
<1>3. Handover'
  <2>1. \A u \in PoolThreads : u # 0 /\ u < DedicatedChild => Idle(u)' /\ ~fastmode'[u]
    BY <1>0, Zenon DEF Handover, Idle
  <2>2. PICK c : c = DedicatedChild
    OBVIOUS
  <2>3. /\ pool_pc'[c] \in {"wait", "asleep", "cascade1", "work", "dedicated", "exit"}
        /\ done'[c] => pool_pc'[c] \in {"dedicated", "exit"}
    BY <2>2, <1>0, <1>1, <1>2, Zenon DEF Handover
  <2> QED
    BY <2>1, <2>2, <2>3, <1>0, <1>1, Zenon DEF Handover
<1>4. CallerAt' /\ ~Sectioned' /\ pool_pc'[0] \notin {"out", "resume", "asleep"}
  BY DEF CallerAt, Sectioned, Dedicating, InCascade
<1>5. Taken'
  <2> SUFFICES ASSUME NEW u \in PoolThreads, u >= PoolSize - reserved, u # DedicatedChild
               PROVE  pool_pc'[u] \in {"dedicated", "exit"}
    BY <1>1, Zenon DEF Taken
  <2>1. u # 0 /\ u > DedicatedChild
    BY <1>1, <1>n
  <2> QED
    BY <2>1, <1>0, Zenon DEF Taken
<1>6. SleepsSlow'
  BY <1>0, <1>4 DEF SleepsSlow
<1> QED
  BY <1>3, <1>4, <1>5, <1>6, Zenon DEF PoolInv

\* The steps of the threads while runDedicated is active.
LEMMA HandoverSteps ==
  ASSUME PoolInv, PoolTypeOK', Dedicating, NEW t \in PoolThreads,
         \/ WaitSlow(t) \/ WaitFast(t) \/ SpuriousWakeup(t) \/ NothingToWake(t)
         \/ BecomeDedicated(t) \/ DedicatedReturns(t)
  PROVE  PoolInv'
<1>0. PoolTypeOK /\ Handover /\ Taken /\ SleepsSlow /\ t \in Nat /\ t < PoolSize
  BY ThreadTypes, Zenon DEF PoolInv
<1>n. /\ PoolSize \in Nat /\ reserved \in Nat /\ 0 \in PoolThreads
      /\ DedicatedChild \in PoolThreads /\ DedicatedChild \in Nat /\ DedicatedChild = PoolSize - reserved
  BY <1>0, PoolNumbers, ThreadTypes, SMTT(60) DEF PoolThreads, Handover, DedicatedChild
<1>1. t # 0
  BY ZenonT(60) DEF WaitSlow, WaitFast, SpuriousWakeup, NothingToWake, BecomeDedicated, DedicatedReturns, Dedicating
<1>2. ASSUME NEW label, GoOn(t, label) PROVE pool_pc'[t] = label /\ Dedicating' /\ \A u \in PoolThreads : u # t => pool_pc'[u] = pool_pc[u]
  BY <1>0, <1>1, <1>2, <1>n, GoOnThread, Zenon DEF Dedicating
<1>3. CASE t < DedicatedChild
  <2>1. Idle(t) /\ t # DedicatedChild
    BY <1>0, <1>1, <1>3, <1>n DEF Handover
  <2>2. WaitSlow(t) \/ WaitFast(t) \/ SpuriousWakeup(t)
    BY <2>1, ZenonT(60) DEF Idle, NothingToWake, BecomeDedicated, DedicatedReturns
  <2>3. /\ Idle(t)' /\ (pool_pc'[t] = "asleep" => ~fastmode[t])
        /\ \A u \in PoolThreads : u # t => pool_pc'[u] = pool_pc[u]
        /\ UNCHANGED <<wbegin, wend, done, fastRelease, fastmode, masterFastmode, reserved, work, todo, ran>>
    BY <1>0, <2>1, <2>2, IdleStirs, Zenon
  <2>4. Dedicating'
    BY <1>1, <1>n, <2>3, Zenon DEF Dedicating
  <2>5. ~(t > DedicatedChild)
    BY <1>0, <1>3, <1>n
  <2> QED
    BY <1>1, <2>1, <2>3, <2>4, <2>5, HandoverKept, Zenon
<1>4. CASE t > DedicatedChild
  <2>1. pool_pc[t] \in {"dedicated", "exit"} /\ t # DedicatedChild /\ ~(t < DedicatedChild)
    BY <1>0, <1>4, <1>n DEF Taken
  <2>2. DedicatedReturns(t)
    BY <2>1, ZenonT(60) DEF WaitSlow, WaitFast, SpuriousWakeup, NothingToWake, BecomeDedicated
  <2>3. GoOn(t, "exit") /\ UNCHANGED <<wbegin, wend, done, fastRelease, fastmode, masterFastmode, reserved, work, todo, ran>>
    BY <2>2, Zenon DEF DedicatedReturns
  <2>4. pool_pc'[t] = "exit"
    BY <2>3, <1>2, Zenon
  <2>5. pool_pc'[t] \in {"dedicated", "exit"} /\ pool_pc'[t] # "asleep"
    BY <2>4, Zenon
  <2> QED
    BY <1>1, <1>2, <2>1, <2>3, <2>5, HandoverKept, Zenon
<1>5. CASE t = DedicatedChild
  <2>0. ~(t < DedicatedChild) /\ ~(t > DedicatedChild)
    BY <1>5, <1>n
  <2>1. /\ ~fastRelease[t] /\ ~fastmode[t]
        /\ pool_pc[t] \in {"wait", "asleep", "cascade1", "work", "dedicated", "exit"}
        /\ done[t] => pool_pc[t] \in {"dedicated", "exit"}
    BY <1>0, <1>5, Zenon DEF Handover
  <2>2. \E label : /\ GoOn(t, label)
                   /\ UNCHANGED <<wbegin, wend, fastRelease, fastmode, masterFastmode, reserved, work, todo, ran>>
                   /\ \A u \in PoolThreads : u # 0 /\ u # t => done'[u] = done[u]
                   /\ \/ label = "cascade1" /\ ~done[t] /\ done' = done
                      \/ label = "wait" /\ ~done[t] /\ done' = done
                      \/ label = "work" /\ ~done[t] /\ done' = done
                      \/ label = "dedicated"
                      \/ label = "exit"
    <3>1. CASE WaitSlow(t)
      <4>1. ~done[t]
        BY <2>1, <3>1 DEF WaitSlow
      <4> QED
        BY <3>1, <4>1, Zenon DEF WaitSlow
    <3>2. CASE WaitFast(t)
      BY <2>1, <3>2, Zenon DEF WaitFast
    <3>3. CASE SpuriousWakeup(t)
      <4>1. ~done[t]
        BY <2>1, <3>3 DEF SpuriousWakeup
      <4> QED
        BY <3>3, <4>1, Zenon DEF SpuriousWakeup
    <3>4. CASE NothingToWake(t)
      <4>1. ~done[t]
        BY <2>1, <3>4 DEF NothingToWake
      <4> QED
        BY <3>4, <4>1, Zenon DEF NothingToWake
    <3>5. CASE BecomeDedicated(t)
      <4>1. \A u \in PoolThreads : u # 0 /\ u # t => done'[u] = done[u]
        BY <1>0, <3>5, Zenon DEF BecomeDedicated, PoolTypeOK
      <4> QED
        BY <3>5, <4>1, Zenon DEF BecomeDedicated
    <3>6. CASE DedicatedReturns(t)
      BY <3>6, Zenon DEF DedicatedReturns
    <3> QED
      BY <3>1, <3>2, <3>3, <3>4, <3>5, <3>6, Zenon
  <2>3. PICK label : /\ GoOn(t, label)
                     /\ UNCHANGED <<wbegin, wend, fastRelease, fastmode, masterFastmode, reserved, work, todo, ran>>
                     /\ \A u \in PoolThreads : u # 0 /\ u # t => done'[u] = done[u]
                     /\ \/ label = "cascade1" /\ ~done[t] /\ done' = done
                        \/ label = "wait" /\ ~done[t] /\ done' = done
                        \/ label = "work" /\ ~done[t] /\ done' = done
                        \/ label = "dedicated"
                        \/ label = "exit"
    BY <2>2, Zenon
  <2>4. pool_pc'[t] = label /\ Dedicating' /\ \A u \in PoolThreads : u # t => pool_pc'[u] = pool_pc[u]
    BY <2>3, <1>2, Zenon
  <2>5. /\ pool_pc'[t] \in {"wait", "asleep", "cascade1", "work", "dedicated", "exit"}
        /\ done'[t] => pool_pc'[t] \in {"dedicated", "exit"}
    BY <2>3, <2>4
  <2> QED
    BY <1>1, <2>0, <2>1, <2>3, <2>4, <2>5, HandoverKept, Zenon
<1> QED
  BY <1>0, <1>3, <1>4, <1>5, <1>n

\* runDedicated wakes the thread up and waits for it.
LEMMA HandoverEnds ==
  ASSUME PoolInv, PoolTypeOK', WakeDedicated \/ DedicatedStarted
  PROVE  PoolInv'
<1>0. PoolTypeOK /\ Handover /\ Taken /\ SleepsSlow /\ Dedicating
  BY DEF PoolInv, Dedicating, WakeDedicated, DedicatedStarted
<1>n. /\ PoolSize \in Nat /\ reserved \in Nat /\ 0 \in PoolThreads /\ 0 < DedicatedChild /\ reserved < PoolSize
      /\ DedicatedChild \in PoolThreads /\ DedicatedChild \in Nat /\ DedicatedChild = PoolSize - reserved
  BY <1>0, PoolNumbers, ThreadTypes DEF PoolThreads, Handover, DedicatedChild
<1>1. PICK c : c = DedicatedChild
  OBVIOUS
<1>2. c \in PoolThreads /\ c # 0 /\ ~(c < DedicatedChild) /\ ~(c > DedicatedChild)
  BY <1>1, <1>n
<1>3. /\ ~fastRelease[c] /\ ~fastmode[c]
      /\ pool_pc[c] \in {"wait", "asleep", "cascade1", "work", "dedicated", "exit"}
      /\ done[c] => pool_pc[c] \in {"dedicated", "exit"}
  BY <1>0, <1>1, Zenon DEF Handover
<1>4. CASE WakeDedicated
  <2>1. /\ done' = [done EXCEPT ![c] = FALSE] /\ fastRelease' = fastRelease
        /\ pool_pc' = [pool_pc EXCEPT ![0] = "spinning", ![c] = Wakeups(c)]
        /\ UNCHANGED <<wbegin, wend, fastmode, masterFastmode, reserved, work, todo, ran>>
    BY <1>0, <1>1, <1>4 DEF WakeDedicated, Wakeup, Handover
  <2>2. /\ pool_pc'[0] = "spinning" /\ pool_pc'[c] = Wakeups(c)
        /\ \A u \in PoolThreads : u # 0 /\ u # c => pool_pc'[u] = pool_pc[u]
    BY <1>0, <1>2, <1>n, <2>1, Zenon DEF PoolTypeOK
  <2>3. ~done'[c] /\ \A u \in PoolThreads : u # 0 /\ u # c => done'[u] = done[u]
    BY <1>0, <1>2, <2>1, ZenonT(60) DEF PoolTypeOK
  <2>4. pool_pc'[c] \in {"wait", "asleep", "cascade1", "work", "dedicated", "exit"}
    BY <1>3, <2>2 DEF Wakeups
  <2>5. Dedicating'
    BY <2>2 DEF Dedicating
  <2> QED
    BY <1>0, <1>2, <1>3, <2>1, <2>2, <2>3, <2>4, <2>5, HandoverKept, Zenon
<1>5. CASE DedicatedStarted
  <2>1. /\ done[c] /\ work' = "none" /\ GoOn(0, "out")
        /\ UNCHANGED <<wbegin, wend, done, fastRelease, fastmode, masterFastmode, reserved, todo, ran>>
    BY <1>1, <1>5, Zenon DEF DedicatedStarted
  <2>2. pool_pc'[0] = "out" /\ \A u \in PoolThreads : u # 0 => pool_pc'[u] = pool_pc[u]
    BY <1>0, <1>n, <2>1, GoOnThread, Zenon
  <2>3. CallerAt' /\ ~Sectioned' /\ ~Dedicating' /\ pool_pc'[0] # "asleep" /\ pool_pc'[0] # "resume"
    BY <2>2 DEF CallerAt, Sectioned, Dedicating, InCascade
  <2>4. Between'
    <3>1. masterFastmode = 0
      BY <1>0, Zenon DEF Handover
    <3>2. \A u \in PoolThreads : ~ModeOf(u)'
      BY <2>1, <3>1, Zenon DEF ModeOf
    <3>3. \A u \in PoolThreads : u # 0 /\ u < PoolSize - reserved => Idle(u)' /\ ~fastmode'[u]
      BY <1>0, <1>n, <2>1, <2>2, Zenon DEF Handover, Idle
    <3>4. masterFastmode' <= PoolSize - reserved'
      BY <1>n, <2>1, <3>1
    <3> QED
      BY <2>1, <2>3, <3>2, <3>3, <3>4, Zenon DEF Between
  <2>5. Taken'
    <3>1. pool_pc[c] \in {"dedicated", "exit"}
      BY <1>3, <2>1, Zenon
    <3>2. ~(0 >= PoolSize - reserved)
      BY <1>n
    <3> QED
      BY <1>0, <1>1, <2>1, <2>2, <3>1, <3>2, Zenon DEF Taken
  <2>6. SleepsSlow'
    BY <1>0, <2>1, <2>2, <2>3, Zenon DEF SleepsSlow
  <2> QED
    BY <2>3, <2>4, <2>5, <2>6, Zenon DEF PoolInv
<1> QED
  BY <1>4, <1>5, Zenon


--------------------------------------------------------------------------------
\* A new pool: every thread waits.
LEMMA PoolInitInv == PoolInit => PoolInv
<1> SUFFICES ASSUME PoolInit PROVE PoolInv
  BY Zenon
<1>1. PoolTypeOK
  BY PoolAssumption, SMTT(60) DEF PoolInit, PoolTypeOK, Modes, PoolThreads
<1>2. 0 \in PoolThreads /\ \A u \in PoolThreads : u < PoolSize - 0
  BY PoolAssumption DEF PoolThreads
<1>3. pool_pc[0] = "out" /\ \A u \in PoolThreads : u # 0 => pool_pc[u] = "wait"
  BY <1>2, Zenon DEF PoolInit
<1>4. CallerAt /\ ~Sectioned /\ ~Dedicating /\ pool_pc[0] # "resume"
  BY <1>3 DEF CallerAt, Sectioned, Dedicating, InCascade
<1>5. SleepsSlow
  BY Zenon DEF PoolInit, SleepsSlow
<1>6. Taken
  BY <1>1, <1>2, ThreadTypes, PoolAssumption DEF PoolInit, Taken
<1>7. Between
  <2>1. \A u \in PoolThreads : u # 0 => Idle(u) /\ ~fastmode[u]
    BY <1>3 DEF PoolInit, Idle
  <2>2. masterFastmode = 0 /\ work = "none" /\ masterFastmode <= PoolSize - reserved
    BY PoolAssumption DEF PoolInit
  <2> QED
    BY <1>4, <2>1, <2>2, Zenon DEF Between, ModeOf
<1> QED
  BY <1>1, <1>4, <1>5, <1>6, <1>7, Zenon DEF PoolInv

\* The invariant is inductive.
LEMMA PoolNextInv ==
  ASSUME DedicatedModes \subseteq {"slow"}
  PROVE  PoolInv /\ [PoolNext]_poolVars => PoolInv'
<1> SUFFICES ASSUME PoolInv, [PoolNext]_poolVars PROVE PoolInv'
  BY Zenon
<1>0. PoolTypeOK'
  BY PoolTypeStep, Zenon
<1>1. CASE Call
  BY <1>0, <1>1, CallsKeepInv, RunDedicatedKeepsInv, Zenon DEF Call
<1>2. CASE Caller
  BY <1>0, <1>2, CallsKeepInv, HandoverEnds, JoinKeepsInv, ReturnKeepsInv, Zenon DEF Caller
<1>3. ASSUME NEW t \in PoolThreads, WaitSlow(t) \/ WaitFast(t) \/ SpuriousWakeup(t) PROVE PoolInv'
  <2>1. CallerAt
    BY Zenon DEF PoolInv
  <2>2. Sectioned \/ Dedicating \/ pool_pc[0] \in {"out", "resume"}
    BY <2>1 DEF CallerAt, Sectioned, Dedicating
  <2> QED
    BY <1>0, <1>3, <2>2, SectionWaits, HandoverSteps, BetweenKept, Zenon
<1>4. ASSUME NEW t \in PoolThreads, DedicatedReturns(t) PROVE PoolInv'
  <2>1. CallerAt
    BY Zenon DEF PoolInv
  <2>2. Sectioned \/ Dedicating \/ pool_pc[0] \in {"out", "resume"}
    BY <2>1 DEF CallerAt, Sectioned, Dedicating
  <2> QED
    BY <1>0, <1>4, <2>2, SectionReturns, HandoverSteps, BetweenKept, Zenon
<1>5. ASSUME NEW t \in PoolThreads,
             \/ ConsumeRelease(t) \/ NothingToWake(t) \/ Cascade1(t) \/ Cascade2(t) \/ Execute(t)
             \/ SetFastmode(t) \/ Shutdown(t) \/ BecomeDedicated(t) \/ Decascade1(t) \/ Decascade2(t)
      PROVE  PoolInv'
  <2>1. pool_pc[t] \in InCascade \cup {"release"}
    BY <1>5, ZenonT(60) DEF ConsumeRelease, NothingToWake, Cascade1, Cascade2, Execute, SetFastmode, Shutdown,
                BecomeDedicated, Decascade1, Decascade2, InCascade
  <2>2. \/ Sectioned /\ ~Dedicating /\ t \in Party /\ Busy(t)
        \/ /\ Dedicating /\ ~Sectioned /\ t = DedicatedChild /\ t # 0
           /\ pool_pc[t] \in {"cascade1", "work"} /\ wbegin[t] = wend[t]
    BY <2>1, WhoRuns, Zenon
  <2>3. CASE Sectioned /\ t \in Party /\ Busy(t)
    <3>1. ~BecomeDedicated(t)
      <4>1. Request
        BY <2>3, Zenon DEF PoolInv
      <4> QED
        BY <4>1 DEF Request, BecomeDedicated
    <3> QED
      BY <1>0, <1>5, <2>3, <3>1, SectionMoves, SectionWorks, SectionWakes, SectionEnds, Zenon
  <2>4. CASE Dedicating /\ pool_pc[t] \in {"cascade1", "work"} /\ wbegin[t] = wend[t]
    <3>1. work = "dedicated"
      BY <2>4, Zenon DEF PoolInv, Handover
    <3>2. NothingToWake(t) \/ BecomeDedicated(t)
      BY <1>5, <2>4, <3>1, ZenonT(60) DEF ConsumeRelease, Cascade1, Cascade2, Execute, SetFastmode, Shutdown, Decascade1, Decascade2
    <3> QED
      BY <1>0, <2>4, <3>2, HandoverSteps, Zenon
  <2> QED
    BY <2>2, <2>3, <2>4, Zenon
<1>6. CASE UNCHANGED poolVars
  <2>1. SameSection /\ \A u : SameThread(u)
    BY <1>6, Zenon DEF poolVars, SameSection, SameThread
  <2>2. (Sectioned' <=> Sectioned) /\ (Dedicating' <=> Dedicating) /\ DedicatedChild' = DedicatedChild
    BY <1>6, Zenon DEF poolVars, Sectioned, Dedicating, DedicatedChild
  <2>3. CallerAt' /\ SleepsSlow' /\ Taken'
    BY <1>6, <2>2, Zenon DEF poolVars, CallerAt, SleepsSlow, Taken, PoolInv
  <2>4. Sectioned => Request' /\ Outside' /\ Tree'
    <3>1. Sectioned => Tree'
      BY <2>1, TreeFrame, Zenon DEF PoolInv
    <3>2. Sectioned => Request'
      BY <1>6, Zenon DEF poolVars, Request, PoolInv
    <3>3. \A u : Untouched(u)' <=> Untouched(u)
      BY <2>1, FrameThread, Zenon
    <3>4. Sectioned => Outside'
      BY <1>6, <3>3, Zenon DEF poolVars, Outside, PoolInv
    <3> QED
      BY <3>1, <3>2, <3>4, Zenon
  <2>5. \A u : (Idle(u)' <=> Idle(u)) /\ (ModeOf(u)' <=> ModeOf(u))
    BY <1>6, Zenon DEF poolVars, Idle, ModeOf
  <2>6. pool_pc[0] \in {"out", "resume"} => Between'
    BY <1>6, <2>5, Zenon DEF poolVars, Between, PoolInv
  <2>7. Dedicating => Handover'
    BY <1>6, <2>2, <2>5, Zenon DEF poolVars, Handover, PoolInv
  <2> QED
    BY <1>0, <1>6, <2>2, <2>3, <2>4, <2>6, <2>7, Zenon DEF PoolInv, poolVars
<1> QED
  BY <1>1, <1>2, <1>3, <1>4, <1>5, <1>6, Zenon DEF PoolNext, PoolStep


\* The invariant keeps the mailboxes apart.
LEMMA InvMailbox == PoolInv => MailboxOwnerIdle
<1> SUFFICES ASSUME PoolInv PROVE MailboxOwnerIdle
  BY Zenon
<1>0. PoolTypeOK
  BY Zenon DEF PoolInv
<1>1. ASSUME NEW t \in PoolThreads, NEW c,
             \/ pool_pc[t] = "cascade1" /\ wbegin[t] # wend[t] /\ c = wbegin[t]
             \/ pool_pc[t] = "cascade2" /\ HasSecond(t) /\ c = Midpoint(t)
      PROVE  Idle(c) /\ fastmode[c] = IsFast(t)
  <2>1. pool_pc[t] \in InCascade \cup {"release"}
    BY <1>1 DEF InCascade
  <2>2. Sectioned /\ t \in Party /\ Busy(t)
    <3>1. \/ Sectioned /\ ~Dedicating /\ t \in Party /\ Busy(t)
          \/ /\ Dedicating /\ ~Sectioned /\ t = DedicatedChild /\ t # 0
             /\ pool_pc[t] \in {"cascade1", "work"} /\ wbegin[t] = wend[t]
      BY <2>1, WhoRuns, Zenon
    <3> QED
      BY <1>1, <3>1
  <2>3. /\ Ranged(t) /\ t \in Nat /\ wend[t] \in Nat
        /\ Midpoint(t) \in Nat /\ t + 1 <= Midpoint(t) /\ Midpoint(t) <= wend[t]
    BY <2>2, BusyRange, Zenon
  <2>4. wend[0] \in 1 .. PoolSize - reserved
    BY <2>2, PartyIsUsable, Zenon
  <2>5. c \in Party /\ InReach(t, c)
    BY <1>1, <2>3, <2>4 DEF Ranged, HasSecond, InReach, Party
  <2> QED
    BY <2>2, <2>5, ReachIsIdle, Zenon DEF Untouched
<1>2. ASSUME NEW t \in PoolThreads, pool_pc[t] = "cascade1", wbegin[t] # wend[t]
      PROVE  Idle(wbegin[t]) /\ fastmode[wbegin[t]] = IsFast(t)
  BY <1>1, <1>2, Zenon
<1>3. ASSUME NEW t \in PoolThreads, pool_pc[t] = "cascade2", HasSecond(t)
      PROVE  Idle(Midpoint(t)) /\ fastmode[Midpoint(t)] = IsFast(t)
  BY <1>1, <1>3, Zenon
<1> QED
  BY <1>0, <1>2, <1>3, Zenon DEF MailboxOwnerIdle

\* The invariant covers the use of work.
LEMMA InvWork == PoolInv => WorkOutlivesItsUse
<1> SUFFICES ASSUME PoolInv PROVE WorkOutlivesItsUse
  BY Zenon
<1>1. ASSUME NEW t \in PoolThreads, pool_pc[t] \in {"cascade1", "cascade2", "work"}
      PROVE  work # "none" /\ wbegin[t] <= wend[t]
  <2>1. pool_pc[t] \in InCascade \cup {"release"}
    BY <1>1 DEF InCascade
  <2>2. \/ Sectioned /\ ~Dedicating /\ t \in Party /\ Busy(t)
        \/ /\ Dedicating /\ ~Sectioned /\ t = DedicatedChild /\ t # 0
           /\ pool_pc[t] \in {"cascade1", "work"} /\ wbegin[t] = wend[t]
    BY <2>1, WhoRuns, Zenon
  <2>3. CASE Sectioned /\ t \in Party /\ Busy(t)
    <3>1. /\ Ranged(t) /\ t \in Nat /\ wend[t] \in Nat
      BY <2>3, BusyRange, Zenon
    <3>2. Request
      BY <2>3, Zenon DEF PoolInv
    <3> QED
      BY <3>1, <3>2 DEF Ranged, Request
  <2>4. CASE Dedicating /\ wbegin[t] = wend[t]
    <3>1. work = "dedicated"
      BY <2>4, Zenon DEF PoolInv, Handover
    <3>2. wbegin[t] \in Nat
      BY ThreadTypes, Zenon DEF PoolInv
    <3> QED
      BY <3>1, <3>2, <2>4
  <2> QED
    BY <2>2, <2>3, <2>4, Zenon
<1>2. work = "none" => \A t \in PoolThreads : pool_pc[t] \notin {"cascade1", "cascade2", "work"}
  BY <1>1, Zenon
<1>3. \A t \in PoolThreads : pool_pc[t] = "cascade1" => wbegin[t] <= wend[t]
  BY <1>1
<1>4. pool_pc[0] = "cascade1" => masterFastmode \in {0, wend[0]}
  BY DEF PoolInv, Sectioned, InCascade, Request
<1> QED
  BY <1>2, <1>3, <1>4, Zenon DEF WorkOutlivesItsUse, PoolAssertions

\* When run() returns, the counts are those of the threads it was asked for.
LEMMA ReturnCounts ==
  PoolInv /\ [PoolNext]_poolVars =>
    (work = "user" /\ work' = "none" =>
       ran = [t \in PoolThreads |-> IF t < PoolSize - reserved /\ (t < todo.num \/ t = 0) THEN 1 ELSE 0])
<1> SUFFICES ASSUME PoolInv, [PoolNext]_poolVars, work = "user", work' = "none"
             PROVE  ran = [t \in PoolThreads |-> IF t < PoolSize - reserved /\ (t < todo.num \/ t = 0) THEN 1 ELSE 0]
  BY Zenon
<1>1. ReturnFromRun
  <2>1. work' # work
    OBVIOUS
  <2>2. ~UNCHANGED poolVars
    BY <2>1, Zenon DEF poolVars
  <2>3. ~Call
    BY ZenonT(60) DEF Call, CallRun, BurnPower, BeKind, DestroyPool, RunDedicated, Run
  <2>4. \A t : ~PoolStep(t) /\ ~SpuriousWakeup(t) /\ ~DedicatedReturns(t)
    BY <2>1, Zenon DEF PoolStep, SpuriousWakeup, DedicatedReturns, WaitSlow, WaitFast, ConsumeRelease, NothingToWake,
       Cascade1, Cascade2, Execute, SetFastmode, Shutdown, BecomeDedicated, Decascade1, Decascade2
  <2>5. ~Resume /\ ~Join /\ ~WakeDedicated
    BY DEF Resume, Join, WakeDedicated, Run
  <2>6. ~DedicatedStarted
    <3>1. Dedicating => work = "dedicated"
      BY Zenon DEF PoolInv, Handover
    <3> QED
      BY <3>1 DEF DedicatedStarted, Dedicating
  <2> QED
    BY <2>2, <2>3, <2>4, <2>5, <2>6, Zenon DEF PoolNext, Caller
<1>2. /\ Sectioned /\ PoolTypeOK /\ Request /\ Outside
      /\ Current(0) /\ Executed(0)
      /\ \A u \in PoolThreads : u # 0 /\ u < wend[0] => Through(u)
  BY <1>1, AllThrough, Zenon
<1>n. /\ PoolSize \in Nat /\ 0 < PoolSize /\ reserved \in Nat /\ reserved < PoolSize
      /\ todo.num \in Nat /\ \A u \in PoolThreads : u \in Nat
  <2>1. todo.num \in 0 .. PoolSize
    BY <1>2 DEF PoolTypeOK
  <2> QED
    BY <2>1, <1>2, PoolNumbers, ThreadTypes
<1>3. wend[0] = MinOf(MaxOf(1, todo.num), PoolSize - reserved)
  BY <1>2, Zenon DEF Request
<1>4. \A u \in PoolThreads : ran[u] = IF u < wend[0] THEN 1 ELSE 0
  <2>1. ran[0] = 1
    BY <1>2, Zenon DEF Current
  <2>2. \A u \in PoolThreads : u # 0 /\ u < wend[0] => ran[u] = 1
    BY <1>2, Zenon DEF Through
  <2>3. \A u \in PoolThreads : wend[0] <= u => ran[u] = 0
    BY <1>2, Zenon DEF Outside
  <2>4. wend[0] \in Nat /\ 0 < wend[0]
    BY <1>2, <1>n DEF Request
  <2> QED
    BY <2>1, <2>2, <2>3, <2>4, <1>n
<1>5. \A u \in PoolThreads : u < wend[0] <=> u < PoolSize - reserved /\ (u < todo.num \/ u = 0)
  BY <1>3, <1>n DEF MinOf, MaxOf
<1>6. ran = [u \in PoolThreads |-> ran[u]]
  BY <1>2, Zenon DEF PoolTypeOK
<1> QED
  BY <1>4, <1>5, <1>6, Zenon

--------------------------------------------------------------------------------
(***************************************************************************)
(* cascade writes the mailbox of an idle thread only, for every number of  *)
(* threads, whatever sequence of run, burnPower, beKind and runDedicated   *)
(* the program calls (runDedicated in slow mode).                          *)
(***************************************************************************)
THEOREM MailboxesAreSafe ==
  ASSUME DedicatedModes \subseteq {"slow"}
  PROVE  PoolSpec => []MailboxOwnerIdle
<1>1. PoolInv /\ [PoolNext]_poolVars => PoolInv'
  BY PoolNextInv, Zenon
<1> QED
  BY <1>1, PoolInitInv, InvMailbox, PTL DEF PoolSpec

(***************************************************************************)
(* The work of a section, a local of run(), outlives its use, and the      *)
(* assertions of the thread pool hold, for every number of threads.        *)
(***************************************************************************)
THEOREM WorkIsOutlived ==
  ASSUME DedicatedModes \subseteq {"slow"}
  PROVE  PoolSpec => []WorkOutlivesItsUse
<1>1. PoolInv /\ [PoolNext]_poolVars => PoolInv'
  BY PoolNextInv, Zenon
<1> QED
  BY <1>1, PoolInitInv, InvWork, PTL DEF PoolSpec

(***************************************************************************)
(* When run(num) returns, each of the threads it was asked for has         *)
(* executed the section exactly once and no other has, for every number of *)
(* threads.                                                                *)
(***************************************************************************)
THEOREM RunsAreComplete ==
  ASSUME DedicatedModes \subseteq {"slow"}
  PROVE  PoolSpec => RunCompletes
<1>1. PoolInv /\ [PoolNext]_poolVars => PoolInv'
  BY PoolNextInv, Zenon
<1>2. PoolInv /\ [PoolNext]_poolVars =>
        [work = "user" /\ work' = "none" =>
           ran = [t \in PoolThreads |->
                    IF t < PoolSize - reserved /\ (t < todo.num \/ t = 0) THEN 1 ELSE 0]]_poolVars
  BY ReturnCounts, Zenon
<1> QED
  BY <1>1, <1>2, PoolInitInv, PTL DEF PoolSpec, RunCompletes

================================================================================
