---------------------------- MODULE TerminationProofs ----------------------------
(***************************************************************************)
(* Proofs about the two termination detectors: the token ring of the       *)
(* threads, for every number of threads, every topology and every number   *)
(* of items, and the snapshots of the hosts, for every set of hosts and    *)
(* every number of updates.                                                *)
(***************************************************************************)
EXTENDS LocalTermination, DGTerminator, TLAPS

(***************************************************************************)
(* propToken's (id + 1) % activeThreads is the next thread, or thread 0    *)
(* after the last one.                                                     *)
(***************************************************************************)
LEMMA RightThread ==
  ASSUME NEW t \in Threads
  PROVE  /\ Right(t) \in Threads
         /\ Right(t) = IF t = N - 1 THEN 0 ELSE t + 1
<1>1. N \in Nat /\ N > 0 /\ t \in Nat /\ t < N
  BY LoopAssumption DEF LoopAssumption, Threads
<1>2. CASE t = N - 1
  <2>1. N % N = 0
    BY <1>1, Z3
  <2>2. t + 1 = N
    BY <1>1, <1>2
  <2> QED BY <1>1, <1>2, <2>1, <2>2 DEF Right, Threads
<1>3. CASE t # N - 1
  <2>1. (t + 1) % N = t + 1
    BY <1>1, <1>3, Z3
  <2> QED BY <1>1, <1>3, <2>1 DEF Right, Threads
<1> QED BY <1>2, <1>3, Zenon

(***************************************************************************)
(* How the set of visited threads grows: thread 0 starts a round with none *)
(* visited, and every other thread joins when it takes the token.          *)
(***************************************************************************)
LEMMA VisitedGrows ==
  ASSUME NEW t \in Threads
  PROVE  /\ Visited(t) \subseteq Threads
         /\ 0 \in Threads
         /\ 0 \notin Visited(t)
         /\ t \notin Visited(t)
         /\ t = 0 => Visited(Right(t)) = {} /\ Threads = Visited(t) \union {0}
         /\ t # 0 => Visited(Right(t)) = Visited(t) \union {t}
<1>1. N \in Nat /\ N > 0 /\ t \in Nat /\ t < N
  BY LoopAssumption DEF LoopAssumption, Threads
<1>2. CASE t = N - 1
  BY <1>1, <1>2, RightThread DEF Visited, Threads
<1>3. CASE t # N - 1
  BY <1>1, <1>3, RightThread DEF Visited, Threads
<1> QED BY <1>2, <1>3, Zenon

(***************************************************************************)
(* The policies of the AbortHandler name threads of the loop.              *)
(***************************************************************************)
LEMMA TargetsAreThreads ==
  ASSUME NEW t \in Threads
  PROVE  AbortTargets(t) \subseteq Threads
<1>1. /\ N \in Nat /\ t \in 0 .. N - 1 /\ Leader[t] \in 0 .. N - 1 /\ Leader[t] <= t
      /\ ParentLeader[t] \in Threads
  BY LoopAssumption, Zenon DEF LoopAssumption, Threads
<1>2. Leader[t] + (t - Leader[t]) \div 2 \in 0 .. N - 1
  BY <1>1
<1> QED BY <1>1, <1>2, Zenon DEF AbortTargets, DoublePolicy, Threads

(***************************************************************************)
(* Type correctness holds initially and is kept by every step.             *)
(***************************************************************************)
LEMMA TypeInit == Init => TypeOK
BY LoopAssumption DEF LoopAssumption, Init, LoopInit, TypeOK, LoopTypeOK, Labels

\* Every step of the loop and of the detector keeps the types.
LEMMA TypeNext == TypeOK /\ [Next]_vars => TypeOK'
<1> SUFFICES ASSUME TypeOK, [Next]_vars PROVE TypeOK'
  BY Zenon
<1> USE DEF TypeOK, LoopTypeOK, Labels, Goto, ringVars
<1>0. N \in Nat /\ MaxItems \in Nat
  BY LoopAssumption, Zenon DEF LoopAssumption
<1>1. ASSUME NEW t \in Threads, InitializeThread(t) PROVE TypeOK'
  <2>1. InitialColor \in BOOLEAN /\ (t = 0) \in BOOLEAN
    BY Zenon DEF InitialColor
  <2>2. LoopTypeOK' /\ (pc \in [Threads -> Labels])'
    BY <1>0, <1>1 DEF InitializeThread, InitThread
  <2>3. /\ (tokenIsBlack \in [Threads -> BOOLEAN])'
        /\ (hasToken \in [Threads -> BOOLEAN])'
        /\ (processIsBlack \in [Threads -> BOOLEAN])'
        /\ (lastWasWhite \in BOOLEAN)'
        /\ (globalTerm \in BOOLEAN)'
        /\ (taint \in [Threads -> BOOLEAN])'
    BY <1>1, <2>1, Zenon DEF InitializeThread
  <2> QED BY <2>2, <2>3, Zenon
<1>2. ASSUME NEW t \in Threads, StartLoop(t), UNCHANGED ringVars PROVE TypeOK'
  BY <1>2, Zenon DEF StartLoop
<1>3. ASSUME NEW t \in Threads, NEW u \in Threads, Pop(t, u), UNCHANGED ringVars PROVE TypeOK'
  BY <1>3 DEF Pop, Available
<1>4. ASSUME NEW t \in Threads, PopEmpty(t), UNCHANGED ringVars PROVE TypeOK'
  BY <1>4, Zenon DEF PopEmpty, AfterQueue
<1>5. ASSUME NEW t \in Threads, LimitReached(t), UNCHANGED ringVars PROVE TypeOK'
  BY <1>5, Zenon DEF LimitReached
<1>6. ASSUME NEW t \in Threads, FastPush(t), UNCHANGED ringVars PROVE TypeOK'
  BY <1>0, <1>6 DEF FastPush
<1>7. ASSUME NEW t \in Threads, Commit(t, "work", "run"), UNCHANGED ringVars PROVE TypeOK'
  BY <1>0, <1>7 DEF Commit
<1>8. ASSUME NEW t \in Threads, Commit(t, "rework", "aborts"), UNCHANGED ringVars PROVE TypeOK'
  BY <1>0, <1>8 DEF Commit
<1>9. ASSUME NEW t \in Threads, Abort(t), UNCHANGED ringVars PROVE TypeOK'
  BY <1>9 DEF Abort
<1>10. ASSUME NEW t \in Threads, PopAborted(t), UNCHANGED ringVars PROVE TypeOK'
  BY <1>10 DEF PopAborted
<1>11. ASSUME NEW t \in Threads, NoneAborted(t), UNCHANGED ringVars PROVE TypeOK'
  BY <1>11, Zenon DEF NoneAborted
<1>12. ASSUME NEW t \in Threads, AbortAgain(t), UNCHANGED ringVars PROVE TypeOK'
  BY <1>12, TargetsAreThreads DEF AbortAgain
<1>13. ASSUME NEW t \in Threads, LocalTermination(t) PROVE TypeOK'
  <2>1. Blackened(t) \in BOOLEAN
    BY Zenon DEF Blackened
  <2> QED BY <1>13, <2>1, Zenon DEF LocalTermination
<1>14. ASSUME NEW t \in Threads, Announce(t) PROVE TypeOK'
  BY <1>14, Zenon DEF Announce
<1>15. ASSUME NEW t \in Threads, TakeToken(t) PROVE TypeOK'
  <2>1. Taint(t) \in BOOLEAN /\ (~Failed(t)) \in BOOLEAN
    BY Zenon DEF Taint, Failed
  <2> QED BY <1>15, <2>1, Zenon DEF TakeToken
<1>16. ASSUME NEW t \in Threads, ColorToken(t) PROVE TypeOK'
  BY <1>16, RightThread, Zenon DEF ColorToken
<1>17. ASSUME NEW t \in Threads, PassToken(t) PROVE TypeOK'
  BY <1>17, RightThread, Zenon DEF PassToken, PassedTo
<1>18. ASSUME NEW t \in Threads, Decide(t, globalTerm), UNCHANGED ringVars PROVE TypeOK'
  BY <1>18, Zenon DEF Decide
<1>19. CASE NewLoop /\ UNCHANGED ringVars
  BY <1>0, <1>19 DEF NewLoop
<1>20. CASE UNCHANGED vars
  BY <1>20, Zenon DEF vars, loopVars
<1> QED
  BY <1>1, <1>2, <1>3, <1>4, <1>5, <1>6, <1>7, <1>8, <1>9, <1>10, <1>11, <1>12,
     <1>13, <1>14, <1>15, <1>16, <1>17, <1>18, <1>19, <1>20, Zenon
  DEF Next, Thread, RunQueues

--------------------------------------------------------------------------------
(***************************************************************************)
(* Rounds are kept by a step after which a thread is dirty, when that      *)
(* thread was dirty before or has found an item.                           *)
(***************************************************************************)
LEMMA RoundsWork ==
  ASSUME FirstRound, SecondRound, NEW t \in Threads,
         UNCHANGED <<tokenIsBlack, hasToken, lastWasWhite, taint>>,
         \A u \in Threads : (pc'[u] \in Passing) <=> (pc[u] \in Passing),
         \A u \in Threads : Dirty(u) => Dirty(u)',
         Dirty(t)',
         ~Dirty(t) => aborted[t] # 0 \/ \E u \in Threads : queue[u] # 0
  PROVE  FirstRound' /\ SecondRound'
<1>1. \A k \in Threads : /\ TokenAt(k)' <=> TokenAt(k)
                         /\ TokenIsWhite(k)' <=> TokenIsWhite(k)
  BY Zenon DEF TokenAt, TokenIsWhite, Right
<1>2. FirstRound'
  BY Zenon DEF FirstRound
<1>3. SecondRound'
  <2> SUFFICES ASSUME NEW k \in Threads, TokenAt(k), TokenIsWhite(k), lastWasWhite
               PROVE  \E w \in Threads \ Visited(k) : Dirty(w)'
    BY <1>1, Zenon DEF SecondRound, Visited
  <2>1. CASE \E w \in Threads \ Visited(k) : Dirty(w)
    BY <2>1, Zenon
  <2>2. CASE ~\E w \in Threads \ Visited(k) : Dirty(w)
    <3>1. /\ ~Dirty(t)
          /\ \A u \in Threads : WillNotice(u)
          /\ \A u \in Visited(k) : Empty(u)
      BY <2>2, Zenon DEF SecondRound
    <3>2. aborted[t] # 0
      BY <3>1, Zenon DEF WillNotice
    <3>3. t \notin Visited(k)
      BY <3>1, <3>2, Zenon DEF Empty
    <3> QED BY <3>3, Zenon
  <2> QED BY <2>1, <2>2, Zenon
<1> QED BY <1>2, <1>3, Zenon

(***************************************************************************)
(* Rounds are kept by a step that moves no item and dirties no thread,     *)
(* when a thread that ends its pass has looked into its abort queue.       *)
(***************************************************************************)
LEMMA RoundsIdle ==
  ASSUME FirstRound, SecondRound,
         UNCHANGED <<queue, aborted, tokenIsBlack, hasToken, lastWasWhite, taint>>,
         \A u \in Threads : (pc'[u] \in Passing) <=> (pc[u] \in Passing),
         \A u \in Threads : Dirty(u)' <=> Dirty(u),
         \A u \in Threads : pc'[u] \in LookedAtAborted =>
                              pc[u] \in LookedAtAborted \/ aborted[u] = 0
  PROVE  FirstRound' /\ SecondRound'
<1>1. \A k \in Threads : /\ TokenAt(k)' <=> TokenAt(k)
                         /\ TokenIsWhite(k)' <=> TokenIsWhite(k)
  BY Zenon DEF TokenAt, TokenIsWhite, Right
<1>2. \A u \in Threads : WillNotice(u) => WillNotice(u)'
  BY Zenon DEF WillNotice
<1>3. \A u \in Threads : Empty(u) => Empty(u)'
  BY Zenon DEF Empty
<1>4. \A k \in Threads : Visited(k) \subseteq Threads
  BY VisitedGrows, Zenon
<1>5. FirstRound'
  BY <1>1, <1>2, <1>4, Zenon DEF FirstRound, Visited
<1>6. SecondRound'
  BY <1>1, <1>2, <1>3, <1>4, Zenon DEF SecondRound, Visited
<1> QED BY <1>5, <1>6, Zenon

(***************************************************************************)
(* The token is kept by a step that neither takes nor passes it.           *)
(***************************************************************************)
LEMMA TokenKept ==
  ASSUME OneToken, UNCHANGED <<tokenIsBlack, hasToken, taint>>,
         \A u \in Threads : (pc'[u] \in Passing) <=> (pc[u] \in Passing),
         \A u \in Threads : pc'[u] = "pass" <=> pc[u] = "pass",
         \A u \in Threads : pc'[u] = "token" => hasToken[u]
  PROVE  OneToken'
BY Zenon DEF OneToken, Right

\* What the steps of thread t that execute or move items have in common.
WorkStep(t, l) ==
  /\ pc' = [pc EXCEPT ![t] = l]
  /\ pc[t] \in {"run", "work", "aborts", "rework"}
  /\ l \in {"run", "work", "aborts", "rework", "term"}
  /\ didWork' = [didWork EXCEPT ![t] = TRUE]
  /\ ~didWork[t] => aborted[t] # 0 \/ \E u \in Threads : queue[u] # 0
  /\ \A u \in Threads \ {t} : queue[u] = 0 => queue'[u] = 0
  /\ ~couldAbort => aborted' = aborted /\ l \notin {"aborts", "rework"}
  /\ UNCHANGED <<couldAbort, tokenIsBlack, hasToken, processIsBlack, lastWasWhite, globalTerm, taint>>

(***************************************************************************)
(* The steps that execute or move items keep the invariant.                *)
(***************************************************************************)
LEMMA WorkStepInv ==
  ASSUME TypeOK, RingInv, NEW t \in Threads, NEW l, WorkStep(t, l)
  PROVE  RingInv'
<1> USE DEF WorkStep
<1>1. Initialized /\ Initialized' /\ Together' /\ InitPhase'
  BY Zenon DEF RingInv, Together, Initialized, InitPhase, TypeOK
<1>2. ThreadInv'
  BY Zenon DEF RingInv, ThreadInv, TypeOK, LoopTypeOK, Working, Dirty, LookedAtQueue
<1>3. OneToken'
  <2>1. /\ OneToken
        /\ \A u \in Threads : (pc'[u] \in Passing) <=> (pc[u] \in Passing)
        /\ \A u \in Threads : pc'[u] = "pass" <=> pc[u] = "pass"
        /\ \A u \in Threads : pc'[u] = "token" => hasToken[u]
    BY <1>1, Zenon DEF RingInv, OneToken, Passing, TypeOK
  <2> QED BY <2>1, TokenKept, Zenon
<1>4. FirstRound' /\ SecondRound'
  <2>1. /\ FirstRound /\ SecondRound
        /\ \A u \in Threads : (pc'[u] \in Passing) <=> (pc[u] \in Passing)
        /\ \A u \in Threads : Dirty(u) => Dirty(u)'
        /\ Dirty(t)'
        /\ ~Dirty(t) => aborted[t] # 0 \/ \E u \in Threads : queue[u] # 0
    BY <1>1, Zenon DEF RingInv, Passing, Dirty, TypeOK, LoopTypeOK
  <2> QED BY <2>1, RoundsWork, Zenon
<1>5. Finished'
  <2>1. ~globalTerm
    BY <1>1, Zenon DEF RingInv, Finished, NoWork, Dirty
  <2> QED BY <1>1, <2>1, Zenon DEF RingInv, Finished, TypeOK
<1> QED BY <1>1, <1>2, <1>3, <1>4, <1>5, Zenon DEF RingInv

\* What the steps of thread t that leave all items where they are have in common.
IdleStep(t, l) ==
  /\ pc' = [pc EXCEPT ![t] = l]
  /\ pc[t] \in {"barrier", "run", "aborts", "term", "decide"}
  /\ l \in {"run", "aborts", "term", "token", "decide", "done"}
  /\ pc[t] = "barrier" => Initialized
  /\ UNCHANGED <<couldAbort, queue, aborted, tokenIsBlack, hasToken, lastWasWhite, globalTerm, taint>>
  /\ \A u \in Threads : Dirty(u)' <=> Dirty(u)
  /\ \A u \in Threads \ {t} : didWork'[u] = didWork[u]
  /\ l \in {"token", "decide", "done"} => ~didWork'[t]
  /\ l \in LookedAtAborted => pc[t] \in LookedAtAborted \/ aborted[t] = 0
  /\ l \in LookedAtQueue => pc[t] \in LookedAtQueue \/ queue[t] = 0
  /\ l = "token" => hasToken[t]
  /\ l = "done" <=> pc[t] = "decide" /\ globalTerm
  /\ ~couldAbort => l # "aborts"

(***************************************************************************)
(* The steps that leave all items where they are keep the invariant.       *)
(***************************************************************************)
LEMMA IdleStepInv ==
  ASSUME TypeOK, RingInv, NEW t \in Threads, NEW l, IdleStep(t, l)
  PROVE  RingInv'
<1> USE DEF IdleStep
<1>1. Initialized /\ Initialized' /\ Together' /\ InitPhase'
  BY Zenon DEF RingInv, Together, Initialized, InitPhase, TypeOK
<1>2. ThreadInv'
  BY Zenon DEF RingInv, ThreadInv, TypeOK, LoopTypeOK, Working, LookedAtQueue
<1>3. OneToken'
  <2>1. /\ OneToken
        /\ \A u \in Threads : (pc'[u] \in Passing) <=> (pc[u] \in Passing)
        /\ \A u \in Threads : pc'[u] = "pass" <=> pc[u] = "pass"
        /\ \A u \in Threads : pc'[u] = "token" => hasToken[u]
    BY <1>1, SMTT(30) DEF RingInv, OneToken, Passing, TypeOK
  <2> QED BY <2>1, TokenKept, Zenon
<1>4. FirstRound' /\ SecondRound'
  <2>1. /\ FirstRound /\ SecondRound
        /\ \A u \in Threads : (pc'[u] \in Passing) <=> (pc[u] \in Passing)
        /\ \A u \in Threads : pc'[u] \in LookedAtAborted =>
                                pc[u] \in LookedAtAborted \/ aborted[u] = 0
    BY <1>1, Zenon DEF RingInv, Passing, TypeOK
  <2> QED BY <2>1, RoundsIdle, Zenon
<1>5. Finished'
  BY <1>1 DEF RingInv, Finished, NoWork, Working, TypeOK
<1> QED BY <1>1, <1>2, <1>3, <1>4, <1>5, Zenon DEF RingInv

(***************************************************************************)
(* Every step of go() on the queues is one of the two kinds.               *)
(***************************************************************************)
LEMMA LoopSteps ==
  ASSUME TypeOK, RingInv, NEW t \in Threads,
         \/ RunQueues(t) /\ UNCHANGED ringVars
         \/ LocalTermination(t)
         \/ Decide(t, globalTerm) /\ UNCHANGED ringVars
  PROVE  \E l \in Labels : WorkStep(t, l) \/ IdleStep(t, l)
<1> USE DEF TypeOK, LoopTypeOK, Goto, ringVars, Labels
<1>0. ThreadInv
  BY Zenon DEF RingInv
<1>1. CASE StartLoop(t) /\ UNCHANGED ringVars
  <2>1. IdleStep(t, "run")
    BY <1>1, Zenon DEF StartLoop, IdleStep, LookedAtQueue, LookedAtAborted, Dirty
  <2> QED BY <2>1, Zenon
<1>2. ASSUME NEW u \in Threads, Pop(t, u), UNCHANGED ringVars
      PROVE  \E l \in Labels : WorkStep(t, l) \/ IdleStep(t, l)
  <2>1. WorkStep(t, "work")
    BY <1>2 DEF Pop, Available, WorkStep
  <2> QED BY <2>1, Zenon
<1>3. CASE PopEmpty(t) /\ UNCHANGED ringVars
  <2>1. IdleStep(t, AfterQueue)
    BY <1>0, <1>3, Zenon DEF PopEmpty, PopsNothing, AfterQueue, IdleStep, LookedAtQueue,
                      LookedAtAborted, ThreadInv, Dirty
  <2> QED BY <2>1, Zenon DEF AfterQueue
<1>4. CASE LimitReached(t) /\ UNCHANGED ringVars
  <2>1. WorkStep(t, "aborts")
    BY <1>4, Zenon DEF LimitReached, WorkStep
  <2> QED BY <2>1, Zenon
<1>5. CASE FastPush(t) /\ UNCHANGED ringVars
  <2>1. WorkStep(t, "work")
    BY <1>0, <1>5, Zenon DEF FastPush, WorkStep, ThreadInv, Working
  <2> QED BY <2>1, Zenon
<1>6. CASE Commit(t, "work", "run") /\ UNCHANGED ringVars
  <2>1. WorkStep(t, "run")
    BY <1>0, <1>6, Zenon DEF Commit, WorkStep, ThreadInv, Working
  <2> QED BY <2>1, Zenon
<1>7. CASE Commit(t, "rework", "aborts") /\ UNCHANGED ringVars
  <2>1. WorkStep(t, "aborts")
    BY <1>0, <1>7, Zenon DEF Commit, WorkStep, ThreadInv, Working
  <2> QED BY <2>1, Zenon
<1>8. CASE Abort(t) /\ UNCHANGED ringVars
  <2>1. WorkStep(t, "aborts")
    BY <1>0, <1>8, Zenon DEF Abort, WorkStep, ThreadInv, Working
  <2> QED BY <2>1, Zenon
<1>9. CASE PopAborted(t) /\ UNCHANGED ringVars
  <2>1. WorkStep(t, "rework")
    BY <1>0, <1>9 DEF PopAborted, WorkStep, ThreadInv
  <2> QED BY <2>1, Zenon
<1>10. CASE NoneAborted(t) /\ UNCHANGED ringVars
  <2>1. IdleStep(t, "term")
    BY <1>10, Zenon DEF NoneAborted, IdleStep, LookedAtQueue, LookedAtAborted, Dirty
  <2> QED BY <2>1, Zenon
<1>11. CASE AbortAgain(t) /\ UNCHANGED ringVars
  <2>1. WorkStep(t, "term")
    BY <1>0, <1>11, Zenon DEF AbortAgain, WorkStep, ThreadInv, Working
  <2> QED BY <2>1, Zenon
<1>12. CASE LocalTermination(t)
  <2>1. \A u \in Threads : Dirty(u)' <=> Dirty(u)
    BY <1>12, Zenon DEF LocalTermination, Blackened, Dirty
  <2>2. IdleStep(t, IF hasToken[t] THEN "token" ELSE "decide")
    BY <1>12, <2>1, Zenon DEF LocalTermination, IdleStep, LookedAtQueue, LookedAtAborted
  <2> QED BY <2>2, Zenon
<1>13. CASE Decide(t, globalTerm) /\ UNCHANGED ringVars
  <2>1. IdleStep(t, IF globalTerm THEN "done" ELSE "run")
    BY <1>0, <1>13, Zenon DEF Decide, IdleStep, LookedAtQueue, LookedAtAborted, Dirty, ThreadInv
  <2> QED BY <2>1, Zenon
<1> QED
  BY <1>1, <1>2, <1>3, <1>4, <1>5, <1>6, <1>7, <1>8, <1>9, <1>10, <1>11, <1>12, <1>13, Zenon
  DEF RunQueues

(***************************************************************************)
(* A thread takes the token: the threads visited grow by this one, or a    *)
(* new round starts.                                                       *)
(***************************************************************************)
LEMMA TakeTokenInv ==
  ASSUME TypeOK, RingInv, NEW t \in Threads, TakeToken(t)
  PROVE  RingInv'
<1> USE DEF TypeOK, LoopTypeOK, Goto, TakeToken
<1>1. Initialized /\ Initialized' /\ Together' /\ InitPhase'
  BY Zenon DEF RingInv, Together, Initialized, InitPhase
<1>2. hasToken[t] /\ ~didWork[t] /\ ~globalTerm
  BY <1>1, VisitedGrows, Zenon DEF RingInv, OneToken, ThreadInv, Finished
<1>3. ThreadInv'
  BY Zenon DEF RingInv, ThreadInv, Working, Dirty, LookedAtQueue
<1>4. OneToken'
  BY <1>1, <1>2, ZenonT(60) DEF RingInv, OneToken, Passing, Right
<1>5. Finished'
  BY <1>1, <1>2, Zenon DEF RingInv, Finished
<1>6. \A u \in Threads \ {t} : (Dirty(u)' <=> Dirty(u)) /\ (WillNotice(u)' <=> WillNotice(u))
  BY Zenon DEF Dirty, WillNotice
<1>7. ~Dirty(t)' /\ (~Dirty(t) => WillNotice(t)')
  BY <1>1, <1>2, Zenon DEF RingInv, ThreadInv, Dirty, WillNotice, LookedAtQueue, LookedAtAborted
<1>8. \A u \in Threads : Empty(u)' <=> Empty(u)
  BY Zenon DEF Empty
<1>9. TokenAt(t) /\ (TokenIsWhite(t) <=> ~tokenIsBlack[t]) /\ (Failed(t) <=> ~TokenIsWhite(t) \/ Dirty(t))
  BY <1>1, <1>2, Zenon DEF RingInv, OneToken, TokenAt, TokenIsWhite, Failed, Dirty, Passing
<1>10. \A k \in Threads : TokenAt(k)' => k = Right(t)
  BY <1>4, <1>2, <1>1, SMTT(60) DEF RingInv, OneToken, TokenAt, Passing, Right
<1>11. TokenIsWhite(Right(t))' => ~Taint(t)
  BY Zenon DEF TokenIsWhite, Passing
<1>12. CASE t = 0
  <2>1. Visited(Right(t)) = {} /\ Threads = Visited(t) \union {0}
    BY <1>12, VisitedGrows, Zenon
  <2>2. FirstRound'
    BY <1>10, <2>1, Zenon DEF FirstRound, Visited
  <2>3. SecondRound'
    <3> SUFFICES ASSUME lastWasWhite'
                 PROVE  \/ \E w \in Threads : Dirty(w)'
                        \/ (\A w \in Threads : ~Dirty(w)') /\ \A u \in Threads : WillNotice(u)'
      BY <1>10, <2>1, Zenon DEF SecondRound, Visited
    <3>1. ~Failed(t) /\ ~lastWasWhite
      BY <1>12, Zenon DEF SecondSuccess
    <3>2. \/ \E w \in Threads : Dirty(w)
          \/ \A u \in Visited(t) : WillNotice(u)
      BY <1>1, <1>9, <3>1, Zenon DEF RingInv, FirstRound
    <3> QED BY <1>6, <1>7, <1>9, <1>12, <2>1, <3>1, <3>2, Zenon
  <2> QED BY <1>1, <1>3, <1>4, <1>5, <2>2, <2>3, Zenon DEF RingInv
<1>13. CASE t # 0
  <2>1. Visited(Right(t)) = Visited(t) \union {t} /\ t \notin Visited(t) /\ Visited(t) \subseteq Threads
    BY <1>13, VisitedGrows, Zenon
  <2>2. TokenIsWhite(Right(t))' => TokenIsWhite(t) /\ ~Dirty(t)
    BY <1>9, <1>11, <1>13, Zenon DEF Taint
  <2>3. lastWasWhite' = lastWasWhite
    BY <1>13, Zenon
  <2>4. FirstRound'
    <3> SUFFICES ASSUME TokenIsWhite(t), ~Dirty(t), ~lastWasWhite
                 PROVE  \/ \E w \in Threads : Dirty(w)'
                        \/ \A u \in Visited(Right(t)) : WillNotice(u)'
      BY <1>10, <2>2, <2>3 DEF FirstRound, Visited
    <3>1. \/ \E w \in Threads : Dirty(w)
          \/ \A u \in Visited(t) : WillNotice(u)
      BY <1>1, <1>9, Zenon DEF RingInv, FirstRound
    <3> QED BY <1>6, <1>7, <2>1, <3>1, Zenon
  <2>5. SecondRound'
    <3> SUFFICES ASSUME TokenIsWhite(t), ~Dirty(t), lastWasWhite
                 PROVE  \/ \E w \in Threads \ Visited(Right(t)) : Dirty(w)'
                        \/ /\ \A w \in Threads : ~Dirty(w)'
                           /\ \A u \in Threads : WillNotice(u)'
                           /\ \A u \in Visited(Right(t)) : Empty(u)'
      BY <1>10, <2>2, <2>3, SMTT(60) DEF SecondRound, Visited
    <3>1. \/ \E w \in Threads \ Visited(t) : Dirty(w)
          \/ /\ \A w \in Threads : ~Dirty(w)
             /\ \A u \in Threads : WillNotice(u)
             /\ \A u \in Visited(t) : Empty(u)
      BY <1>1, <1>9, Zenon DEF RingInv, SecondRound
    <3>2. WillNotice(t) => Empty(t)
      BY Zenon DEF WillNotice, Empty, LookedAtAborted
    <3> QED BY <1>6, <1>7, <1>8, <2>1, <3>1, <3>2, Zenon
  <2> QED BY <1>1, <1>3, <1>4, <1>5, <2>4, <2>5, Zenon DEF RingInv
<1> QED BY <1>12, <1>13, Zenon

(***************************************************************************)
(* The master announces termination: the second white round has come to    *)
(* its end, so every thread is empty.                                      *)
(***************************************************************************)
LEMMA AnnounceInv ==
  ASSUME TypeOK, RingInv, NEW t \in Threads, Announce(t)
  PROVE  RingInv' /\ NoWork
<1> USE DEF TypeOK, LoopTypeOK, Goto, Announce
<1>1. Initialized /\ Initialized' /\ Together' /\ InitPhase'
  BY Zenon DEF RingInv, Together, Initialized, InitPhase
<1>2. hasToken[0] /\ ~didWork[0] /\ t = 0
  BY <1>1, Zenon DEF RingInv, OneToken, ThreadInv
<1>3. /\ TokenAt(0) /\ TokenIsWhite(0) /\ lastWasWhite /\ ~Dirty(0)
      /\ Threads \ Visited(0) = {0} /\ Threads = Visited(0) \union {0}
  BY <1>1, <1>2, VisitedGrows, SMTT(60) DEF RingInv, OneToken, TokenAt, TokenIsWhite, SecondSuccess, Failed,
                                  Dirty, Passing
<1>4. /\ \A w \in Threads : ~Dirty(w)
      /\ \A u \in Threads : WillNotice(u)
      /\ \A u \in Visited(0) : Empty(u)
  BY <1>1, <1>2, <1>3 DEF RingInv, SecondRound
<1>5. \A u \in Threads : Empty(u)
  BY <1>2, <1>3, <1>4, Zenon DEF WillNotice, Empty, LookedAtAborted
<1>6. NoWork
  BY <1>4, <1>5, Zenon DEF RingInv, ThreadInv, NoWork, Empty, Dirty
<1>7. \A w \in Threads : ~Dirty(w)'
  BY <1>4, Zenon DEF Dirty
<1>8. \A u \in Threads : Empty(u)' /\ WillNotice(u)'
  BY <1>5, Zenon DEF Empty, WillNotice
<1>9. ThreadInv'
  BY <1>5, <1>7, Zenon DEF RingInv, ThreadInv, Working, Dirty, Empty, LookedAtQueue
<1>10. OneToken'
  BY <1>1, <1>2, ZenonT(60) DEF RingInv, OneToken, Passing, Right
<1>11. FirstRound' /\ SecondRound'
  BY <1>7, <1>8, VisitedGrows, Zenon DEF FirstRound, SecondRound, Visited
<1>12. Finished'
  BY <1>1, <1>2, <1>6, <1>7 DEF RingInv, Finished, NoWork, Working
<1> QED BY <1>1, <1>6, <1>9, <1>10, <1>11, <1>12, Zenon DEF RingInv

(***************************************************************************)
(* Passing the token on, in two stores, changes nothing that counts.       *)
(***************************************************************************)
LEMMA PassingInv ==
  ASSUME TypeOK, RingInv, NEW t \in Threads, ColorToken(t) \/ PassToken(t)
  PROVE  RingInv'
<1> USE DEF TypeOK, LoopTypeOK, Goto
<1>0. pc[t] \in Passing /\ Right(t) \in Threads
  BY RightThread, Zenon DEF ColorToken, PassToken, Passing
<1>1. Initialized /\ Initialized' /\ Together' /\ InitPhase'
  BY ZenonT(60) DEF RingInv, Together, Initialized, InitPhase, ColorToken, PassToken
<1>2. ThreadInv'
  BY DEF RingInv, ThreadInv, Working, Dirty, LookedAtQueue, ColorToken, PassToken
<1>3. OneToken'
  <2>1. CASE ColorToken(t)
    BY <1>0, <1>1, <2>1, Zenon DEF RingInv, OneToken, Passing, ColorToken, Right
  <2>2. CASE PassToken(t)
    BY <1>0, <1>1, <2>2, SMTT(60) DEF RingInv, OneToken, Passing, PassToken, PassedTo, Right
  <2> QED BY <2>1, <2>2, Zenon
<1>4. \A u \in Threads : /\ Dirty(u)' <=> Dirty(u)
                         /\ WillNotice(u)' <=> WillNotice(u)
                         /\ Empty(u)' <=> Empty(u)
  BY DEF Dirty, WillNotice, Empty, ColorToken, PassToken, LookedAtAborted
<1>5. TokenAt(Right(t)) /\ \A k \in Threads : TokenAt(k)' => k = Right(t)
  <2>1. TokenAt(Right(t))
    BY <1>0, Zenon DEF TokenAt
  <2>2. CASE ColorToken(t)
    BY <1>0, <1>1, <2>2, Zenon DEF RingInv, OneToken, TokenAt, Passing, ColorToken, Right
  <2>3. CASE PassToken(t)
    BY <1>0, <1>1, <2>3, Zenon DEF RingInv, OneToken, TokenAt, Passing, PassToken, PassedTo, Right
  <2> QED BY <2>1, <2>2, <2>3, Zenon
<1>6. TokenIsWhite(Right(t))' => TokenIsWhite(Right(t))
  <2>1. ~hasToken[Right(t)] /\ \A u \in Threads : pc[u] \in Passing => u = t
    BY <1>0, <1>1, Zenon DEF RingInv, OneToken
  <2>2. CASE ColorToken(t)
    BY <2>1, <2>2, Zenon DEF TokenIsWhite, ColorToken, Passing
  <2>3. CASE PassToken(t)
    <3>1. TokenIsWhite(Right(t))' => ~tokenIsBlack[Right(t)]
      BY <1>0, <2>3, Zenon DEF TokenIsWhite, PassToken, PassedTo
    <3>2. tokenIsBlack[Right(t)] = taint[t]
      BY <1>1, <2>3, Zenon DEF RingInv, OneToken, PassToken
    <3> QED BY <2>1, <3>1, <3>2, Zenon DEF TokenIsWhite
  <2> QED BY <2>2, <2>3, Zenon
<1>7. lastWasWhite' = lastWasWhite /\ globalTerm' = globalTerm
  BY Zenon DEF ColorToken, PassToken
<1>8. Visited(Right(t)) \subseteq Threads
  BY <1>0, VisitedGrows, Zenon
<1>9. FirstRound'
  <2> SUFFICES ASSUME TokenIsWhite(Right(t)), ~lastWasWhite
               PROVE  \/ \E w \in Threads : Dirty(w)'
                      \/ \A u \in Visited(Right(t)) : WillNotice(u)'
    BY <1>5, <1>6, <1>7, Zenon DEF FirstRound, Visited
  <2> QED BY <1>0, <1>1, <1>4, <1>5, <1>8, Zenon DEF RingInv, FirstRound
<1>10. SecondRound'
  <2> SUFFICES ASSUME TokenIsWhite(Right(t)), lastWasWhite
               PROVE  \/ \E w \in Threads \ Visited(Right(t)) : Dirty(w)'
                      \/ /\ \A w \in Threads : ~Dirty(w)'
                         /\ \A u \in Threads : WillNotice(u)'
                         /\ \A u \in Visited(Right(t)) : Empty(u)'
    BY <1>5, <1>6, <1>7, Zenon DEF SecondRound, Visited
  <2> QED BY <1>0, <1>1, <1>4, <1>5, <1>8, Zenon DEF RingInv, SecondRound
<1>11. Finished'
  <2>1. ~globalTerm
    BY <1>0, <1>1, VisitedGrows, Zenon DEF RingInv, OneToken, Finished, Passing
  <2> QED BY <1>1, <1>7, <2>1, Zenon DEF RingInv, Finished, ColorToken, PassToken
<1> QED BY <1>1, <1>2, <1>3, <1>9, <1>10, <1>11, Zenon DEF RingInv

(***************************************************************************)
(* Threads initialize their holders one by one; the last one completes a   *)
(* state with one token, at the master, and the master dirty.              *)
(***************************************************************************)
LEMMA InitializeInv ==
  ASSUME TypeOK, RingInv, NEW t \in Threads, InitializeThread(t)
  PROVE  RingInv'
<1> USE DEF TypeOK, LoopTypeOK, Goto, InitializeThread, InitThread
<1>1. \A u \in Threads : pc[u] \in {"init", "barrier"}
  BY Zenon DEF RingInv, Together
<1>2. Together' /\ \A u \in Threads : pc'[u] \in {"init", "barrier"}
  BY <1>1, Zenon DEF Together
<1>3. \A u \in Threads : pc'[u] = "barrier" =>
        /\ hasToken'[u] = (u = 0)
        /\ processIsBlack'[u]
        /\ ~tokenIsBlack'[u]
        /\ u = 0 => lastWasWhite'
        /\ ~globalTerm'
  BY <1>1, Zenon DEF RingInv, InitPhase, InitialColor
<1>4. ThreadInv'
  BY <1>1, <1>2, Zenon DEF RingInv, ThreadInv, Working, LookedAtQueue
<1>5. ASSUME Initialized' PROVE OneToken' /\ FirstRound' /\ SecondRound' /\ Finished'
  <2>1. \A u \in Threads : pc'[u] = "barrier"
    BY <1>2, <1>5, Zenon DEF Initialized
  <2>2. 0 \in Threads
    BY VisitedGrows, Zenon
  <2>3. OneToken'
    BY <1>3, <2>1, <2>2, ZenonT(60) DEF OneToken, Passing
  <2>4. \A k \in Threads : TokenAt(k)' => k = 0
    BY <1>3, <2>1, Zenon DEF TokenAt, Passing
  <2>5. Dirty(0)' /\ lastWasWhite' /\ ~globalTerm'
    BY <1>3, <2>1, <2>2, Zenon DEF Dirty
  <2>6. FirstRound' /\ SecondRound'
    BY <2>2, <2>4, <2>5, VisitedGrows, Zenon DEF FirstRound, SecondRound, Visited
  <2>7. Finished'
    BY <2>1, <2>5, Zenon DEF Finished
  <2> QED BY <2>3, <2>6, <2>7, Zenon
<1> QED BY <1>2, <1>3, <1>4, <1>5, Zenon DEF RingInv, InitPhase

(***************************************************************************)
(* A new loop starts only after an announcement.                           *)
(***************************************************************************)
LEMMA NewLoopInv ==
  ASSUME TypeOK, RingInv, NewLoop, UNCHANGED ringVars
  PROVE  RingInv' /\ globalTerm /\ Initialized
<1> USE DEF TypeOK, LoopTypeOK, NewLoop, ringVars
<1>1. 0 \in Threads
  BY LoopAssumption DEF LoopAssumption, Threads
<1>2. Initialized /\ globalTerm /\ NoWork
  BY <1>1, Zenon DEF RingInv, Initialized, Finished
<1>3. ~Initialized' /\ Together' /\ InitPhase'
  BY <1>1, Zenon DEF Initialized, Together, InitPhase
<1>4. ThreadInv'
  BY <1>2, Zenon DEF RingInv, ThreadInv, Working, LookedAtQueue, NoWork
<1> QED BY <1>2, <1>3, <1>4, Zenon DEF RingInv

--------------------------------------------------------------------------------
(***************************************************************************)
(* The inductive invariant.                                                *)
(***************************************************************************)
IInv == TypeOK /\ RingInv

\* Whatever an earlier loop left in the detector, nothing is concluded from it.
LEMMA IInvInit == Init => IInv
<1> SUFFICES ASSUME Init PROVE RingInv
  BY TypeInit, Zenon DEF IInv
<1>1. 0 \in Threads
  BY LoopAssumption DEF LoopAssumption, Threads
<1>2. ~Initialized /\ Together /\ InitPhase
  BY <1>1, Zenon DEF Init, LoopInit, Initialized, Together, InitPhase
<1>3. ThreadInv
  BY Zenon DEF Init, LoopInit, ThreadInv, Working, LookedAtQueue
<1> QED BY <1>2, <1>3, Zenon DEF RingInv

\* Every step of the loop and of the detector keeps the invariant of the ring.
LEMMA IInvNext == IInv /\ [Next]_vars => IInv'
<1> SUFFICES ASSUME TypeOK, RingInv, [Next]_vars PROVE RingInv'
  BY TypeNext, Zenon DEF IInv
<1>1. ASSUME NEW t \in Threads,
             \/ RunQueues(t) /\ UNCHANGED ringVars
             \/ LocalTermination(t)
             \/ Decide(t, globalTerm) /\ UNCHANGED ringVars
      PROVE  RingInv'
  BY <1>1, LoopSteps, WorkStepInv, IdleStepInv, Zenon
<1>2. ASSUME NEW t \in Threads, InitializeThread(t) PROVE RingInv'
  BY <1>2, InitializeInv, Zenon
<1>3. ASSUME NEW t \in Threads, Announce(t) PROVE RingInv'
  BY <1>3, AnnounceInv, Zenon
<1>4. ASSUME NEW t \in Threads, TakeToken(t) PROVE RingInv'
  BY <1>4, TakeTokenInv, Zenon
<1>5. ASSUME NEW t \in Threads, ColorToken(t) \/ PassToken(t) PROVE RingInv'
  BY <1>5, PassingInv, Zenon
<1>6. CASE NewLoop /\ UNCHANGED ringVars
  BY <1>6, NewLoopInv, Zenon
<1>7. CASE UNCHANGED vars
  <2>1. /\ UNCHANGED <<pc, couldAbort, queue, aborted, didWork>>
        /\ UNCHANGED <<tokenIsBlack, hasToken, processIsBlack, lastWasWhite, globalTerm, taint>>
    BY <1>7, Zenon DEF vars, loopVars, ringVars
  <2>2. Together' /\ InitPhase' /\ (Initialized' <=> Initialized)
    BY <2>1, Zenon DEF RingInv, Together, InitPhase, Initialized
  <2>3. ThreadInv'
    BY <2>1, Zenon DEF RingInv, ThreadInv, Working, Dirty
  <2>4. ASSUME Initialized PROVE OneToken' /\ FirstRound' /\ SecondRound' /\ Finished'
    <3>1. OneToken'
      BY <2>1, <2>4, Zenon DEF RingInv, OneToken, Right
    <3>2. \A u \in Threads : Dirty(u)' <=> Dirty(u)
      BY <2>1, Zenon DEF Dirty
    <3>3. FirstRound' /\ SecondRound'
      BY <2>1, <2>4, <3>2, RoundsIdle, Zenon DEF RingInv
    <3>4. Finished'
      BY <2>1, <2>4, Zenon DEF RingInv, Finished, NoWork, Working, Dirty
    <3> QED BY <3>1, <3>3, <3>4, Zenon
  <2> QED BY <2>2, <2>3, <2>4, Zenon DEF RingInv
<1> QED BY <1>1, <1>2, <1>3, <1>4, <1>5, <1>6, <1>7, Zenon DEF Next, Thread

(***************************************************************************)
(* The invariant of the ring holds for any number of threads: in the       *)
(* second white round of localTermination the visited threads are empty    *)
(* unless a dirty thread is still ahead of the token.                      *)
(***************************************************************************)
THEOREM RingInvariant == Spec => []RingInv
<1>1. Spec => []IInv
  BY IInvInit, IInvNext, PTL DEF Spec
<1> QED BY <1>1, PTL DEF IInv

(***************************************************************************)
(* The assertions of localTermination hold: no thread reports work, and no *)
(* thread handles a token, once globalTerm is set.                         *)
(***************************************************************************)
THEOREM AssertionsHold == Spec => []CodeAssertions
<1>1. RingInv => CodeAssertions
  BY VisitedGrows, Zenon DEF RingInv, CodeAssertions, Finished, OneToken, Dirty, Passing
<1> QED BY <1>1, RingInvariant, PTL

(***************************************************************************)
(* The invariant of the ring and the assertions of localTermination, for   *)
(* any number of threads.                                                  *)
(***************************************************************************)
THEOREM RingIsSafe == Spec => []RingSafe
  BY RingInvariant, AssertionsHold, PTL DEF RingSafe

(***************************************************************************)
(* Every step of the ring is a step of the abstract detector or changes    *)
(* nothing it can see.                                                     *)
(***************************************************************************)
LEMMA StepRefines == IInv /\ [Next]_vars => [Abstract!Next]_(Abstract!vars)
<1> SUFFICES ASSUME TypeOK, RingInv, [Next]_vars PROVE [Abstract!Next]_(Abstract!vars)
  BY Zenon DEF IInv
<1> USE DEF Abstract!Next, Abstract!vars
<1>0. 0 \in Threads
  BY LoopAssumption DEF LoopAssumption, Threads
<1>1. ASSUME NEW t \in Threads,
             \/ RunQueues(t) /\ UNCHANGED ringVars
             \/ LocalTermination(t)
             \/ Decide(t, globalTerm) /\ UNCHANGED ringVars
      PROVE  (Quiet => Quiet') /\ Announced' = Announced
  <2>1. PICK l \in Labels : WorkStep(t, l) \/ IdleStep(t, l)
    BY <1>1, LoopSteps, Zenon
  <2>2. Initialized /\ Initialized'
    BY <2>1, SMTT(30) DEF WorkStep, IdleStep, RingInv, Together, Initialized, TypeOK
  <2>3. globalTerm' = globalTerm
    BY <2>1, Zenon DEF WorkStep, IdleStep
  <2>4. ASSUME NoWork, WorkStep(t, l) PROVE NoWork'
    <3>1. pc[t] \in {"run", "aborts"} /\ didWork[t]
      BY <2>4, Zenon DEF WorkStep, NoWork, Working
    <3>2. RunQueues(t) /\ UNCHANGED ringVars
      BY <1>1, <3>1, SMTT(30) DEF LocalTermination, Decide, Goto
    <3>3. LimitReached(t) \/ PopEmpty(t) \/ NoneAborted(t)
      BY <2>4, <3>1, <3>2, SMTT(60) DEF RunQueues, StartLoop, Pop, Available, FastPush, Commit, Abort,
                              PopAborted, AbortAgain, Goto, NoWork
    <3> QED BY <2>4, <3>1, <3>3, Zenon
            DEF LimitReached, PopEmpty, NoneAborted, NoWork, Working, WorkStep, Goto, AfterQueue, TypeOK
  <2>5. ASSUME NoWork, IdleStep(t, l) PROVE NoWork'
    BY <2>5, Zenon DEF IdleStep, NoWork, Working, TypeOK
  <2> QED BY <2>1, <2>2, <2>3, <2>4, <2>5, Zenon DEF Quiet, Announced
<1>2. ASSUME NEW t \in Threads, InitializeThread(t) PROVE ~Quiet /\ ~Announced /\ ~Announced'
  BY <1>2, Zenon DEF InitializeThread, InitThread, Goto, Quiet, Announced, Initialized
<1>3. ASSUME NEW t \in Threads, Announce(t) PROVE Quiet /\ Quiet' /\ Announced' /\ ~Announced
  <2>1. NoWork /\ NoWork'
    BY <1>3, AnnounceInv, Zenon DEF Announce, NoWork, Working, Goto, TypeOK
  <2>2. Initialized /\ Initialized'
    BY <1>3, Zenon DEF Announce, Goto, RingInv, Together, Initialized, TypeOK
  <2>3. ~globalTerm
    BY <1>3, <2>2, Zenon DEF Announce, Goto, RingInv, Finished
  <2> QED BY <1>3, <2>1, <2>2, <2>3, Zenon DEF Quiet, Announced, Announce
<1>4. ASSUME NEW t \in Threads, TakeToken(t) \/ ColorToken(t) \/ PassToken(t)
      PROVE  Quiet' = Quiet /\ Announced' = Announced
  <2>1. Initialized /\ Initialized' /\ globalTerm' = globalTerm
    BY <1>4, Zenon DEF TakeToken, ColorToken, PassToken, Goto, RingInv, Together, Initialized, TypeOK
  <2>2. NoWork' <=> NoWork
    BY <1>4, Zenon DEF TakeToken, ColorToken, PassToken, Goto, NoWork, Working, TypeOK
  <2> QED BY <2>1, <2>2, Zenon DEF Quiet, Announced
<1>5. CASE NewLoop /\ UNCHANGED ringVars
  <2>1. Announced
    BY <1>5, NewLoopInv, Zenon DEF Announced
  <2>2. ~Quiet' /\ ~Announced'
    BY <1>0, <1>5, SMTT(30) DEF NewLoop, Quiet, Announced, Initialized
  <2> QED BY <2>1, <2>2, Zenon DEF Abstract!Restart, Quiet, Announced
<1>6. CASE UNCHANGED vars
  BY <1>6, Zenon DEF vars, loopVars, ringVars, Quiet, Announced, Initialized, NoWork, Working
<1>7. (Quiet => Quiet') /\ Announced' = Announced => [Abstract!Next]_(Abstract!vars)
  BY Zenon DEF Abstract!BecomeQuiet, Quiet, Announced
<1>8. ~Quiet /\ ~Announced /\ ~Announced' => [Abstract!Next]_(Abstract!vars)
  BY Zenon DEF Abstract!BecomeQuiet, Quiet, Announced
<1>9. Quiet /\ Quiet' /\ Announced' /\ ~Announced => [Abstract!Next]_(Abstract!vars)
  BY Zenon DEF Abstract!Announce, Quiet, Announced
<1> QED BY <1>1, <1>2, <1>3, <1>4, <1>5, <1>6, <1>7, <1>8, <1>9, Zenon DEF Next, Thread

(***************************************************************************)
(* The ring implements the abstract detector for any number of threads:    *)
(* globalTerm is set only when no item is queued or being executed.        *)
(***************************************************************************)
THEOREM ImplementsDetector == Spec => Refinement
<1>1. Init => Abstract!Init
  <2>1. 0 \in Threads
    BY LoopAssumption DEF LoopAssumption, Threads
  <2> QED BY <2>1, Zenon DEF Init, LoopInit, Abstract!Init, Quiet, Announced, Initialized
<1>2. Spec => []IInv
  BY IInvInit, IInvNext, PTL DEF Spec
<1> QED BY <1>1, <1>2, StepRefines, PTL DEF Spec, Refinement, Abstract!Spec

--------------------------------------------------------------------------------
(***************************************************************************)
(* The snapshots of the hosts. A host that is clean has done and seen no   *)
(* work since its last snapshot, and has nothing on its way to others.     *)
(***************************************************************************)
NoSends(h) ==
  /\ unreported[h] = 0
  /\ \A d \in Hosts : queued[h][d] = 0 /\ hand[h][d] = 0 /\ wire[h][d] = 0

Clean(h) ==
  /\ ~work_done[h] /\ ~anyReceivedMessages[h]
  /\ host_pc[h] \in {"sync", "sends"} => ~local_mdata[h]

Rounds == Len(maximum)

\* Every message was sent by an update of its own.
Bounded ==
  \A h, d \in Hosts :
    hand[h][d] <= 1 /\ queued[h][d] + hand[h][d] + wire[h][d] + arrived[h][d] <= updates

\* What a host knows of the last snapshot and of the one before it.
Reports(h) ==
  /\ entered[h] \in {Rounds - 1, Rounds}
  /\ entered[h] = 0 <=> host_pc[h] \in {"first", "firstsync", "construct"}
  /\ entered[h] = 0 => snapshot[h] = 1 /\ prev_snapshot[h] = 0 /\ global_snapshot[h] = 1
  /\ host_pc[h] = "receives" /\ snapshot_ended[h] => ~snapshot_request[h]
  /\ entered[h] > 0 /\ ~Halted(h) =>
       /\ prev_snapshot[h] = IF entered[h] = 1 THEN 0 ELSE maximum[entered[h] - 1]
       /\ global_snapshot[h] = IF snapshot_request[h] /\ entered[h] > 1 THEN maximum[entered[h] - 1]
                               ELSE maximum[entered[h]]
       /\ ~snapshot_request[h] => SnapshotComplete(h)

\* The numbers of snapshots start with 1 and do not become smaller.
Numbered ==
  /\ Rounds > 0 => maximum[1] = 1
  /\ Rounds > 1 => maximum[Rounds - 1] <= maximum[Rounds]

\* A clean host sends nothing, nor does one that has just looked.
Sent(h) ==
  /\ host_pc[h] \notin {"first", "firstsync"}
  /\ Clean(h) \/ host_pc[h] \in {"construct", "test", "receives"} => NoSends(h)

\* A host that saw no active node and received nothing since has no work.
FoundNone(h) ==
  \/ host_pc[h] \in {"test", "receives"}
  \/ host_pc[h] \in {"sync", "sends"} /\ ~local_mdata[h]

Idle(h) == ~anyReceivedMessages[h] /\ FoundNone(h) => ~work[h]

\* The last snapshot has the number of the one before it.
Repeated == Rounds > 1 /\ maximum[Rounds] = maximum[Rounds - 1]

\* Nothing has reached host g, and it does nothing.
Settled(g) == Clean(g) /\ ~work[g] /\ \A s \in Hosts : arrived[s][g] = 0

\* As long as the hosts that have not entered the last snapshot stay clean and
\* those that have entered it were clean, nothing can reach the latter.
Settles ==
  Repeated /\ (\A u \in Hosts : entered[u] # Rounds => Clean(u)) =>
    \A g \in Hosts : entered[g] = Rounds => Settled(g)

\* No snapshot follows one that repeats the one before it.
NotBefore == Rounds > 2 => maximum[Rounds - 1] # maximum[Rounds - 2]

HaltedInv ==
  (\E h \in Hosts : Halted(h)) => Repeated /\ \A g \in Hosts : entered[g] = Rounds

QuietInv == (\A h \in Hosts : Sent(h) /\ Idle(h)) /\ Settles /\ NotBefore /\ HaltedInv

CountsInv == DistTypeOK /\ Bounded /\ Numbered /\ \A h \in Hosts : Reports(h)

DistInv == CountsInv /\ (~firstItr => QuietInv)

--------------------------------------------------------------------------------
Places == {"first", "firstsync", "construct", "round", "sync", "sends", "test", "receives", "halted"}

\* The types, with messages counted without a bound.
Matrix == [Hosts -> [Hosts -> Nat]]

DistTypes ==
  /\ host_pc \in [Hosts -> Places] /\ updates \in 0 .. MaxUpdates /\ firstItr \in BOOLEAN
  /\ work \in [Hosts -> BOOLEAN] /\ local_mdata \in [Hosts -> BOOLEAN]
  /\ work_done \in [Hosts -> BOOLEAN] /\ snapshot_ended \in [Hosts -> BOOLEAN]
  /\ snapshot_request \in [Hosts -> BOOLEAN] /\ anyReceivedMessages \in [Hosts -> BOOLEAN]
  /\ prev_snapshot \in [Hosts -> Nat] /\ snapshot \in [Hosts -> Nat]
  /\ global_snapshot \in [Hosts -> Nat] /\ entered \in [Hosts -> Nat] /\ unreported \in [Hosts -> Nat]
  /\ maximum \in Seq(Nat)
  /\ queued \in Matrix /\ hand \in Matrix /\ wire \in Matrix /\ arrived \in Matrix

(***************************************************************************)
(* The types of the specification, without the bound on the messages.      *)
(***************************************************************************)
LEMMA TypesOf == DistTypeOK => DistTypes
<1> SUFFICES ASSUME DistTypeOK PROVE DistTypes
  OBVIOUS
<1>1. ASSUME NEW f, f \in [Hosts -> [Hosts -> 0 .. MaxUpdates]] PROVE f \in Matrix
  <2>1. 0 .. MaxUpdates \subseteq Nat
    BY DistAssumption
  <2>2. [Hosts -> 0 .. MaxUpdates] \subseteq [Hosts -> Nat]
    BY <2>1
  <2> QED
    BY <1>1, <2>2 DEF Matrix
<1>2. /\ queued \in [Hosts -> [Hosts -> 0 .. MaxUpdates]] /\ hand \in [Hosts -> [Hosts -> 0 .. MaxUpdates]]
      /\ wire \in [Hosts -> [Hosts -> 0 .. MaxUpdates]] /\ arrived \in [Hosts -> [Hosts -> 0 .. MaxUpdates]]
  BY Zenon DEF DistTypeOK
<1>3. queued \in Matrix /\ hand \in Matrix /\ wire \in Matrix /\ arrived \in Matrix
  BY <1>2 DEF Matrix
<1> QED
  BY <1>3, Zenon DEF DistTypeOK, DistTypes, Places

\* With the bound on the messages, the types are those of the specification.
LEMMA TypesBounded == DistTypes /\ Bounded => DistTypeOK
<1> SUFFICES ASSUME DistTypes, Bounded PROVE DistTypeOK
  OBVIOUS
<1>1. \A h, d \in Hosts : queued[h][d] \in Nat /\ hand[h][d] \in Nat /\ wire[h][d] \in Nat /\ arrived[h][d] \in Nat
  BY DEF DistTypes, Matrix
<1>2. \A h, d \in Hosts : /\ queued[h][d] \in 0 .. MaxUpdates /\ hand[h][d] \in 0 .. MaxUpdates
                          /\ wire[h][d] \in 0 .. MaxUpdates /\ arrived[h][d] \in 0 .. MaxUpdates
  <2> SUFFICES ASSUME NEW h \in Hosts, NEW d \in Hosts
               PROVE  /\ queued[h][d] \in 0 .. MaxUpdates /\ hand[h][d] \in 0 .. MaxUpdates
                      /\ wire[h][d] \in 0 .. MaxUpdates /\ arrived[h][d] \in 0 .. MaxUpdates
    BY Zenon
  <2>1. updates \in 0 .. MaxUpdates /\ queued[h][d] + hand[h][d] + wire[h][d] + arrived[h][d] <= updates
    BY Zenon DEF DistTypes, Bounded
  <2> QED
    BY <1>1, <2>1, DistAssumption, SMTT(60)
<1>3. /\ queued \in [Hosts -> [Hosts -> 0 .. MaxUpdates]] /\ hand \in [Hosts -> [Hosts -> 0 .. MaxUpdates]]
      /\ wire \in [Hosts -> [Hosts -> 0 .. MaxUpdates]] /\ arrived \in [Hosts -> [Hosts -> 0 .. MaxUpdates]]
  BY <1>2 DEF DistTypes, Matrix
<1> QED
  BY <1>3, Zenon DEF DistTypeOK, DistTypes, Places

\* One entry of a matrix is replaced.
CellSet(f, g, h, d, v) == g = [f EXCEPT ![h][d] = v]

OnlyCell(f, g, h, d, v) ==
  /\ g \in Matrix /\ g[h][d] = v
  /\ \A a, b \in Hosts : a # h \/ b # d => g[a][b] = f[a][b]

\* ... and only that one.
LEMMA OneCell ==
  ASSUME NEW f \in Matrix, NEW g, NEW h \in Hosts, NEW d \in Hosts, NEW v \in Nat,
         CellSet(f, g, h, d, v)
  PROVE  OnlyCell(f, g, h, d, v)
  BY DEF Matrix, CellSet, OnlyCell

\* Entering the k-th reduction with the number x: the first to enter extends the
\* sequence of the maxima, the others may raise its last entry.
Reduced(m, k, x) == IF k > Len(m) THEN Append(m, x) ELSE [m EXCEPT ![k] = Max2(m[k], x)]

(***************************************************************************)
(* Both ways give a sequence of length k whose earlier entries are the     *)
(* same.                                                                   *)
(***************************************************************************)
LEMMA ReducedSeq ==
  ASSUME NEW m \in Seq(Nat), NEW k \in Nat, k > 0, k = Len(m) \/ k = Len(m) + 1, NEW x \in Nat
  PROVE  /\ Reduced(m, k, x) \in Seq(Nat) /\ Len(Reduced(m, k, x)) = k
         /\ Reduced(m, k, x)[k] = IF k > Len(m) THEN x ELSE Max2(m[k], x)
         /\ \A j \in 1 .. k - 1 : Reduced(m, k, x)[j] = m[j]
<1>1. CASE k = Len(m) + 1
  <2>1. Reduced(m, k, x) = Append(m, x)
    BY <1>1 DEF Reduced
  <2>2. k - 1 = Len(m) /\ k > Len(m)
    BY <1>1
  <2> QED
    BY <1>1, <2>1, <2>2, SMTT(60)
<1>2. CASE k = Len(m)
  <2>1. Reduced(m, k, x) = [m EXCEPT ![k] = Max2(m[k], x)]
    BY <1>2 DEF Reduced
  <2>2. m[k] \in Nat /\ k \in 1 .. Len(m) /\ ~(k > Len(m))
    BY <1>2
  <2>3. PICK y \in Nat : y = Max2(m[k], x)
    BY <2>2 DEF Max2
  <2>4. PICK r : r = [m EXCEPT ![k] = y]
    BY ZenonT(60)
  <2>5. r \in [1 .. Len(m) -> Nat] /\ r[k] = y /\ \A j \in 1 .. Len(m) : j # k => r[j] = m[j]
    BY <2>2, <2>4
  <2>6. r \in Seq(Nat) /\ Len(r) = Len(m)
    BY <2>5, SMTT(60)
  <2>7. Reduced(m, k, x) = r
    BY <2>1, <2>3, <2>4, Zenon
  <2>8. \A j \in 1 .. k - 1 : j \in 1 .. Len(m) /\ j # k
    BY <1>2
  <2>9. \A j \in 1 .. k - 1 : r[j] = m[j]
    BY <2>5, <2>8, Zenon
  <2> QED
    BY <1>2, <2>2, <2>3, <2>5, <2>6, <2>7, <2>9, Zenon
<1> QED
  BY <1>1, <1>2

--------------------------------------------------------------------------------
\* Nothing about host u changes but what it has sent and what is for it.
SameHost(u) ==
  /\ host_pc'[u] = host_pc[u] /\ work'[u] = work[u] /\ local_mdata'[u] = local_mdata[u]
  /\ work_done'[u] = work_done[u] /\ snapshot_ended'[u] = snapshot_ended[u]
  /\ snapshot_request'[u] = snapshot_request[u] /\ prev_snapshot'[u] = prev_snapshot[u]
  /\ snapshot'[u] = snapshot[u] /\ global_snapshot'[u] = global_snapshot[u]
  /\ anyReceivedMessages'[u] = anyReceivedMessages[u] /\ entered'[u] = entered[u]

SameSends(u) ==
  /\ unreported'[u] = unreported[u]
  /\ \A d \in Hosts : queued'[u][d] = queued[u][d] /\ hand'[u][d] = hand[u][d] /\ wire'[u][d] = wire[u][d]

SameArrived(u) == \A s \in Hosts : arrived'[s][u] = arrived[s][u]

\* An update of a label, if any: a message more to another host.
Updated(h) ==
  \/ updates' = updates /\ queued' = queued
  \/ updates' = updates + 1 /\ updates < MaxUpdates /\ queued' = queued
  \/ /\ updates' = updates + 1 /\ updates < MaxUpdates
     /\ \E d \in Hosts : queued' = [queued EXCEPT ![h][d] = @ + 1]

\* What the operations of a host do to the network.
LEMMA HostSends ==
  ASSUME NEW h \in Hosts, Host(h)
  PROVE  /\ Updated(h) /\ hand' = hand /\ wire' = wire /\ unreported' = unreported
         /\ \/ arrived' = arrived
            \/ \E s \in Hosts : arrived[s][h] > 0 /\ arrived' = [arrived EXCEPT ![s][h] = @ - 1]
         /\ firstItr' = firstItr
<1> USE DEF Updated
<1>1. Relax(h) \/ UNCHANGED <<work, queued, updates>> => Updated(h)
  BY Zenon DEF Relax, Unimproved, Improve
<1>2. CASE FirstIteration(h)
  BY <1>1, <1>2, Zenon DEF FirstIteration
<1>3. CASE DoAll(h)
  BY <1>1, <1>3, Zenon DEF DoAll
<1>4. CASE Apply(h)
  BY <1>4, Zenon DEF Apply, Unimproved, Improve
<1>5. CASE Construct(h) \/ EndSync(h) \/ CheckSends(h) \/ TestSnapshot(h) \/ CheckReceives(h)
  BY <1>5, Zenon DEF Construct, EndSync, CheckSends, TestSnapshot, CheckReceives, network
<1> QED
  BY <1>2, <1>3, <1>4, <1>5, Zenon DEF Host

\* A host changes nothing of the others.
LEMMA HostFrame ==
  ASSUME DistTypes, NEW h \in Hosts, Host(h), NEW u \in Hosts, u # h
  PROVE  SameHost(u) /\ SameSends(u) /\ SameArrived(u)
<1>1. SameSends(u)
  <2>1. queued \in [Hosts -> [Hosts -> Nat]] /\ Updated(h)
    BY HostSends, Zenon DEF DistTypes, Matrix
  <2>2. queued'[u] = queued[u]
    BY <2>1, Zenon DEF Updated
  <2> QED
    BY <2>2, HostSends, Zenon DEF SameSends
<1>2. SameArrived(u)
  <2>1. arrived \in Matrix
    BY Zenon DEF DistTypes
  <2>2. CASE arrived' = arrived
    BY <2>2, Zenon DEF SameArrived
  <2>3. ASSUME NEW s \in Hosts, arrived[s][h] > 0, arrived' = [arrived EXCEPT ![s][h] = @ - 1]
        PROVE  SameArrived(u)
    BY <2>1, <2>3 DEF Matrix, SameArrived
  <2> QED
    BY <2>2, <2>3, HostSends, Zenon
<1>3. /\ host_pc \in [Hosts -> Places] /\ work \in [Hosts -> BOOLEAN] /\ local_mdata \in [Hosts -> BOOLEAN]
      /\ work_done \in [Hosts -> BOOLEAN] /\ snapshot_ended \in [Hosts -> BOOLEAN]
      /\ snapshot_request \in [Hosts -> BOOLEAN] /\ anyReceivedMessages \in [Hosts -> BOOLEAN]
      /\ prev_snapshot \in [Hosts -> Nat] /\ snapshot \in [Hosts -> Nat]
      /\ global_snapshot \in [Hosts -> Nat] /\ entered \in [Hosts -> Nat]
  BY Zenon DEF DistTypes
<1> USE DEF SameHost, GoOn, detector, collectives, app
<1>4. Relax(h) => work'[u] = work[u]
  BY <1>3, Zenon DEF Relax
<1>5. CASE FirstIteration(h)
  BY <1>1, <1>2, <1>3, <1>4, <1>5, Zenon DEF FirstIteration
<1>6. CASE DoAll(h)
  BY <1>1, <1>2, <1>3, <1>4, <1>6, Zenon DEF DoAll
<1>7. CASE Apply(h)
  BY <1>1, <1>2, <1>3, <1>7, Zenon DEF Apply
<1>8. CASE EndSync(h)
  BY <1>1, <1>2, <1>3, <1>8, Zenon DEF EndSync, network
<1>9. CASE Construct(h)
  BY <1>1, <1>2, <1>3, <1>9, Zenon DEF Construct, InitiateSnapshot, network
<1>10. CASE CheckSends(h)
  BY <1>1, <1>2, <1>3, <1>10, Zenon DEF CheckSends, StillActive, network
<1>11. CASE TestSnapshot(h)
  BY <1>1, <1>2, <1>3, <1>11, Zenon DEF TestSnapshot, network
<1>12. CASE CheckReceives(h)
  <2>1. StillActive(h) => host_pc'[u] = host_pc[u] /\ work_done'[u] = work_done[u]
    BY <1>3, Zenon DEF StillActive
  <2>2. DecideSnapshot(h) =>
          /\ host_pc'[u] = host_pc[u] /\ work_done'[u] = work_done[u] /\ prev_snapshot'[u] = prev_snapshot[u]
          /\ snapshot'[u] = snapshot[u] /\ global_snapshot'[u] = global_snapshot[u]
          /\ snapshot_request'[u] = snapshot_request[u] /\ entered'[u] = entered[u]
    BY <1>3, ZenonT(60) DEF DecideSnapshot, TakeSnapshot, InitiateSnapshot, Reinitialize
  <2> QED
    BY <1>1, <1>2, <1>3, <1>12, <2>1, <2>2, Zenon DEF CheckReceives, ForgetReceived
<1> QED
  BY <1>5, <1>6, <1>7, <1>8, <1>9, <1>10, <1>11, <1>12, Zenon DEF Host

\* The network changes nothing of the hosts, and moves messages of one of them.
LEMMA NetworkFrame ==
  ASSUME DistTypes, NEW h \in Hosts, Network(h)
  PROVE  /\ \A u \in Hosts : SameHost(u) /\ (u # h => SameSends(u))
         /\ UNCHANGED <<app, detector, collectives>>
<1>1. UNCHANGED <<app, detector, collectives>> /\ anyReceivedMessages' = anyReceivedMessages
  BY Zenon DEF Network, CompleteSend, Assemble, Enqueue, Match
<1>2. \A u \in Hosts : SameHost(u)
  BY <1>1, Zenon DEF app, detector, collectives, SameHost
<1>3. ASSUME NEW u \in Hosts, u # h PROVE SameSends(u)
  <2>1. /\ queued \in [Hosts -> [Hosts -> Nat]] /\ hand \in [Hosts -> [Hosts -> Nat]]
        /\ wire \in [Hosts -> [Hosts -> Nat]] /\ unreported \in [Hosts -> Nat]
    BY Zenon DEF DistTypes, Matrix
  <2>2. queued'[u] = queued[u] /\ hand'[u] = hand[u] /\ wire'[u] = wire[u] /\ unreported'[u] = unreported[u]
    BY <1>3, <2>1, Zenon DEF Network, CompleteSend, Assemble, Enqueue, Match
  <2> QED
    BY <2>2, Zenon DEF SameSends
<1> QED
  BY <1>1, <1>2, <1>3, Zenon

--------------------------------------------------------------------------------
\* A step keeps the types, and an update comes before every message of its own.
LEMMA HostMatrices ==
  ASSUME DistTypes, Bounded, NEW h \in Hosts, Host(h)
  PROVE  /\ queued' \in Matrix /\ hand' \in Matrix /\ wire' \in Matrix /\ arrived' \in Matrix
         /\ updates' \in 0 .. MaxUpdates /\ Bounded'
<1>1. /\ queued \in Matrix /\ hand \in Matrix /\ wire \in Matrix /\ arrived \in Matrix
      /\ updates \in 0 .. MaxUpdates
  BY Zenon DEF DistTypes
<1>2. PICK q : q = queued
  OBVIOUS
<1>3. PICK r : r = queued'
  OBVIOUS
<1>4. /\ r \in Matrix /\ updates' \in 0 .. MaxUpdates
      /\ \A a, b \in Hosts : r[a][b] - q[a][b] <= updates' - updates
  <2>1. CASE r = q /\ (updates' = updates \/ (updates' = updates + 1 /\ updates < MaxUpdates))
    BY <1>1, <1>2, <2>1, DistAssumption DEF Matrix
  <2>2. ASSUME updates' = updates + 1 /\ updates < MaxUpdates, NEW d \in Hosts,
               CellSet(q, r, h, d, q[h][d] + 1)
        PROVE  /\ r \in Matrix /\ updates' \in 0 .. MaxUpdates
               /\ \A a, b \in Hosts : r[a][b] - q[a][b] <= updates' - updates
    <3>1. q \in Matrix /\ q[h][d] \in Nat /\ q[h][d] + 1 \in Nat
      BY <1>1, <1>2 DEF Matrix
    <3>2. OnlyCell(q, r, h, d, q[h][d] + 1)
      BY <2>2, <3>1, OneCell, Zenon
    <3>3. \A a, b \in Hosts : q[a][b] \in Nat
      BY <3>1 DEF Matrix
    <3>4. updates' \in 0 .. MaxUpdates
      BY <1>1, <2>2, DistAssumption
    <3>5. ASSUME NEW a \in Hosts, NEW b \in Hosts PROVE r[a][b] - q[a][b] <= updates' - updates
      BY <1>1, <2>2, <3>2, <3>3, DistAssumption DEF OnlyCell
    <3> QED
      BY <3>2, <3>4, <3>5, Zenon DEF OnlyCell
  <2> QED
    BY <1>2, <1>3, <2>1, <2>2, HostSends, Zenon DEF Updated, CellSet
<1>5. PICK p : p = arrived
  OBVIOUS
<1>6. PICK a1 : a1 = arrived'
  OBVIOUS
<1>7. a1 \in Matrix /\ \A a, b \in Hosts : a1[a][b] <= p[a][b]
  <2>1. CASE a1 = p
    BY <1>1, <1>5, <2>1 DEF Matrix
  <2>2. ASSUME NEW c \in Hosts, p[c][h] > 0, CellSet(p, a1, c, h, p[c][h] - 1)
        PROVE  a1 \in Matrix /\ \A a, b \in Hosts : a1[a][b] <= p[a][b]
    <3>1. p \in Matrix /\ p[c][h] \in Nat /\ p[c][h] - 1 \in Nat
      BY <1>1, <1>5, <2>2 DEF Matrix
    <3>2. OnlyCell(p, a1, c, h, p[c][h] - 1)
      BY <2>2, <3>1, OneCell, Zenon
    <3>3. \A a, b \in Hosts : p[a][b] \in Nat
      BY <3>1 DEF Matrix
    <3>4. ASSUME NEW a \in Hosts, NEW b \in Hosts PROVE a1[a][b] <= p[a][b]
      BY <3>2, <3>3 DEF OnlyCell
    <3> QED
      BY <3>2, <3>4, Zenon DEF OnlyCell
  <2> QED
    BY <1>5, <1>6, <2>1, <2>2, HostSends, Zenon DEF CellSet
<1>8. hand' = hand /\ wire' = wire
  BY HostSends, Zenon
<1>9. ASSUME NEW a \in Hosts, NEW b \in Hosts
      PROVE  /\ hand'[a][b] <= 1
             /\ queued'[a][b] + hand'[a][b] + wire'[a][b] + arrived'[a][b] <= updates'
  <2>1. /\ hand[a][b] <= 1 /\ queued[a][b] + hand[a][b] + wire[a][b] + arrived[a][b] <= updates
        /\ queued'[a][b] - queued[a][b] <= updates' - updates /\ arrived'[a][b] <= arrived[a][b]
    BY <1>2, <1>3, <1>4, <1>5, <1>6, <1>7, Zenon DEF Bounded
  <2>2. /\ queued[a][b] \in Nat /\ hand[a][b] \in Nat /\ wire[a][b] \in Nat /\ arrived[a][b] \in Nat
        /\ queued'[a][b] \in Nat /\ arrived'[a][b] \in Nat /\ updates \in Nat /\ updates' \in Nat
    BY <1>1, <1>3, <1>4, <1>6, <1>7, DistAssumption DEF Matrix
  <2> QED
    BY <1>8, <2>1, <2>2, SMTT(60)
<1> QED
  BY <1>1, <1>3, <1>4, <1>6, <1>7, <1>8, <1>9, Zenon DEF Bounded

\* ... the same for the network.
LEMMA NetworkMatrices ==
  ASSUME DistTypes, Bounded, NEW h \in Hosts, Network(h)
  PROVE  /\ queued' \in Matrix /\ hand' \in Matrix /\ wire' \in Matrix /\ arrived' \in Matrix
         /\ unreported' \in [Hosts -> Nat] /\ Bounded'
<1>1. /\ queued \in Matrix /\ hand \in Matrix /\ wire \in Matrix /\ arrived \in Matrix
      /\ updates \in Nat /\ unreported \in [Hosts -> Nat]
  BY DistAssumption DEF DistTypes
<1>2. updates' = updates
  BY NetworkFrame, Zenon DEF app
<1>3. \A a, b \in Hosts : /\ queued[a][b] \in Nat /\ hand[a][b] \in Nat /\ wire[a][b] \in Nat /\ arrived[a][b] \in Nat
                          /\ hand[a][b] <= 1 /\ queued[a][b] + hand[a][b] + wire[a][b] + arrived[a][b] <= updates
  BY <1>1 DEF Matrix, Bounded
<1>4. CASE CompleteSend(h)
  <2>1. unreported' \in [Hosts -> Nat]
    BY <1>1, <1>4 DEF CompleteSend
  <2> QED
    BY <1>1, <1>2, <1>3, <1>4, <2>1, Zenon DEF CompleteSend, Bounded
<1>5. PICK q, n, w, p : q = queued /\ n = hand /\ w = wire /\ p = arrived
  OBVIOUS
<1>6. PICK q1, n1, w1, p1 : q1 = queued' /\ n1 = hand' /\ w1 = wire' /\ p1 = arrived'
  OBVIOUS
<1>7. ASSUME NEW d \in Hosts, Assemble(h, d) \/ Enqueue(h, d) \/ Match(h, d)
      PROVE  /\ q1 \in Matrix /\ n1 \in Matrix /\ w1 \in Matrix /\ p1 \in Matrix
             /\ \A a, b \in Hosts : /\ n1[a][b] <= 1
                                    /\ q1[a][b] + n1[a][b] + w1[a][b] + p1[a][b] <= updates
             /\ unreported' \in [Hosts -> Nat]
  <2>1. /\ q[h][d] \in Nat /\ n[h][d] \in Nat /\ w[h][d] \in Nat /\ p[h][d] \in Nat /\ n[h][d] <= 1
        /\ q[h][d] + n[h][d] + w[h][d] + p[h][d] <= updates
        /\ w[h][d] + 1 \in Nat /\ p[h][d] + 1 \in Nat /\ 0 \in Nat /\ 1 \in Nat
    BY <1>3, <1>5, SMTT(60)
  <2>2. CASE Assemble(h, d)
    <3>1. /\ q[h][d] > 0 /\ n[h][d] = 0 /\ CellSet(n, n1, h, d, 1) /\ CellSet(q, q1, h, d, 0)
          /\ w1 = w /\ p1 = p /\ unreported' = unreported
      BY <1>5, <1>6, <2>2, Zenon DEF Assemble, CellSet
    <3>2. OnlyCell(n, n1, h, d, 1)
      BY <1>1, <1>5, <2>1, <3>1, OneCell, Zenon
    <3>3. OnlyCell(q, q1, h, d, 0)
      BY <1>1, <1>5, <2>1, <3>1, OneCell, Zenon
    <3>4. 1 <= 1 /\ 0 + 1 + w[h][d] + p[h][d] <= updates
      BY <1>1, <2>1, <3>1, SMTT(60)
    <3>5. ASSUME NEW a \in Hosts, NEW b \in Hosts
          PROVE  n1[a][b] <= 1 /\ q1[a][b] + n1[a][b] + w1[a][b] + p1[a][b] <= updates
      <4>1. CASE a = h /\ b = d
        BY <2>1, <3>1, <3>2, <3>3, <3>4, <4>1, Zenon DEF OnlyCell
      <4>2. CASE a # h \/ b # d
        BY <1>3, <1>5, <3>1, <3>2, <3>3, <4>2, ZenonT(60) DEF OnlyCell
      <4> QED
        BY <4>1, <4>2, Zenon
    <3> QED
      BY <1>1, <1>5, <3>1, <3>2, <3>3, <3>5, Zenon DEF OnlyCell
  <2>3. CASE Enqueue(h, d)
    <3>1. /\ n[h][d] > 0 /\ CellSet(n, n1, h, d, 0) /\ CellSet(w, w1, h, d, w[h][d] + 1)
          /\ q1 = q /\ p1 = p /\ unreported' = unreported
      BY <1>5, <1>6, <2>3, Zenon DEF Enqueue, CellSet
    <3>2. OnlyCell(n, n1, h, d, 0)
      BY <1>1, <1>5, <2>1, <3>1, OneCell, Zenon
    <3>3. OnlyCell(w, w1, h, d, w[h][d] + 1)
      BY <1>1, <1>5, <2>1, <3>1, OneCell, Zenon
    <3>4. 0 <= 1 /\ q[h][d] + 0 + (w[h][d] + 1) + p[h][d] <= updates
      BY <1>1, <2>1, <3>1, SMTT(60)
    <3>5. ASSUME NEW a \in Hosts, NEW b \in Hosts
          PROVE  n1[a][b] <= 1 /\ q1[a][b] + n1[a][b] + w1[a][b] + p1[a][b] <= updates
      <4>1. CASE a = h /\ b = d
        BY <2>1, <3>1, <3>2, <3>3, <3>4, <4>1, Zenon DEF OnlyCell
      <4>2. CASE a # h \/ b # d
        BY <1>3, <1>5, <3>1, <3>2, <3>3, <4>2, ZenonT(60) DEF OnlyCell
      <4> QED
        BY <4>1, <4>2, Zenon
    <3> QED
      BY <1>1, <1>5, <3>1, <3>2, <3>3, <3>5, Zenon DEF OnlyCell
  <2>4. CASE Match(h, d)
    <3>1. /\ w[h][d] > 0 /\ CellSet(w, w1, h, d, w[h][d] - 1) /\ CellSet(p, p1, h, d, p[h][d] + 1)
          /\ q1 = q /\ n1 = n /\ unreported' = [unreported EXCEPT ![h] = @ + 1]
      BY <1>5, <1>6, <2>4, Zenon DEF Match, CellSet
    <3>0. w[h][d] - 1 \in Nat /\ unreported' \in [Hosts -> Nat]
      BY <1>1, <2>1, <3>1, SMTT(60)
    <3>2. OnlyCell(w, w1, h, d, w[h][d] - 1)
      BY <1>1, <1>5, <3>0, <3>1, OneCell, Zenon
    <3>3. OnlyCell(p, p1, h, d, p[h][d] + 1)
      BY <1>1, <1>5, <2>1, <3>1, OneCell, Zenon
    <3>4. q[h][d] + n[h][d] + (w[h][d] - 1) + (p[h][d] + 1) <= updates
      BY <1>1, <2>1, <3>1, SMTT(60)
    <3>5. ASSUME NEW a \in Hosts, NEW b \in Hosts
          PROVE  n1[a][b] <= 1 /\ q1[a][b] + n1[a][b] + w1[a][b] + p1[a][b] <= updates
      <4>1. CASE a = h /\ b = d
        BY <2>1, <3>1, <3>2, <3>3, <3>4, <4>1, Zenon DEF OnlyCell
      <4>2. CASE a # h \/ b # d
        BY <1>3, <1>5, <3>1, <3>2, <3>3, <4>2, ZenonT(60) DEF OnlyCell
      <4> QED
        BY <4>1, <4>2, Zenon
    <3> QED
      BY <1>1, <1>5, <3>0, <3>1, <3>2, <3>3, <3>5, Zenon DEF OnlyCell
  <2> QED
    BY <1>7, <2>2, <2>3, <2>4
<1> QED
  BY <1>2, <1>4, <1>6, <1>7, Zenon DEF Network, Bounded

\* A host keeps its own types.
LEMMA HostTypes ==
  ASSUME DistTypes, \A u \in Hosts : Reports(u), Bounded, NEW h \in Hosts, Host(h)
  PROVE  DistTypes'
<1>1. /\ host_pc \in [Hosts -> Places] /\ updates \in 0 .. MaxUpdates /\ firstItr \in BOOLEAN
      /\ work \in [Hosts -> BOOLEAN] /\ local_mdata \in [Hosts -> BOOLEAN]
      /\ work_done \in [Hosts -> BOOLEAN] /\ snapshot_ended \in [Hosts -> BOOLEAN]
      /\ snapshot_request \in [Hosts -> BOOLEAN] /\ anyReceivedMessages \in [Hosts -> BOOLEAN]
      /\ prev_snapshot \in [Hosts -> Nat] /\ snapshot \in [Hosts -> Nat]
      /\ global_snapshot \in [Hosts -> Nat] /\ entered \in [Hosts -> Nat] /\ unreported \in [Hosts -> Nat]
      /\ maximum \in Seq(Nat)
  BY Zenon DEF DistTypes
<1>2. /\ firstItr' \in BOOLEAN /\ unreported' \in [Hosts -> Nat] /\ updates' \in 0 .. MaxUpdates
      /\ queued' \in Matrix /\ hand' \in Matrix /\ wire' \in Matrix /\ arrived' \in Matrix
  BY <1>1, HostSends, HostMatrices, Zenon
<1>3. ASSUME NEW x \in Places, GoOn(h, x) PROVE host_pc' \in [Hosts -> Places]
  BY <1>1, <1>3, Zenon DEF GoOn
<1>4. /\ "first" \in Places /\ "firstsync" \in Places /\ "construct" \in Places /\ "round" \in Places
      /\ "sync" \in Places /\ "sends" \in Places /\ "test" \in Places /\ "receives" \in Places
      /\ "halted" \in Places
  BY DEF Places
<1>5. Relax(h) => work' \in [Hosts -> BOOLEAN]
  BY <1>1, Zenon DEF Relax
<1>6. ASSUME NEW x \in Nat, InitiateSnapshot(h, x)
      PROVE  entered' \in [Hosts -> Nat] /\ maximum' \in Seq(Nat) /\ snapshot_request' \in [Hosts -> BOOLEAN]
  <2>1. PICK k : k = entered[h] + 1
    OBVIOUS
  <2>2. k \in Nat /\ k > 0 /\ (k = Len(maximum) \/ k = Len(maximum) + 1)
    BY <1>1, <2>1 DEF Reports, Rounds
  <2>3. entered' \in [Hosts -> Nat] /\ snapshot_request' \in [Hosts -> BOOLEAN]
    BY <1>1, <1>6, <2>1, <2>2, Zenon DEF InitiateSnapshot
  <2>4. PICK m \in Seq(Nat) : m = maximum
    BY <1>1, Zenon
  <2>5. maximum' = Reduced(m, k, x)
    BY <1>6, <2>1, <2>4, Zenon DEF InitiateSnapshot, Reduced
  <2>6. Reduced(m, k, x) \in Seq(Nat)
    BY <2>2, <2>4, ReducedSeq, Zenon
  <2> QED
    BY <2>3, <2>5, <2>6, Zenon
<1> USE DEF detector, collectives, app
<1>7. CASE FirstIteration(h)
  BY <1>1, <1>2, <1>3, <1>4, <1>5, <1>7, Zenon DEF FirstIteration, DistTypes
<1>8. CASE DoAll(h)
  <2>1. work[h] \in BOOLEAN
    BY <1>1, Zenon
  <2> QED
    BY <1>1, <1>2, <1>3, <1>4, <1>5, <1>8, <2>1, Zenon DEF DoAll, DistTypes
<1>9. CASE Apply(h)
  BY <1>1, <1>2, <1>9, Zenon DEF Apply, DistTypes
<1>10. CASE EndSync(h)
  BY <1>1, <1>2, <1>3, <1>4, <1>10, Zenon DEF EndSync, DistTypes, network
<1>11. CASE Construct(h)
  BY <1>1, <1>2, <1>3, <1>4, <1>6, <1>11, Zenon DEF Construct, DistTypes, network
<1>12. CASE CheckSends(h)
  BY <1>1, <1>2, <1>3, <1>4, <1>12, Zenon DEF CheckSends, StillActive, DistTypes, network
<1>13. CASE TestSnapshot(h)
  <2>1. snapshot_request[h] => maximum[entered[h]] \in Nat
    <3>1. entered[h] \in Nat /\ entered[h] \in {Len(maximum) - 1, Len(maximum)} /\ entered[h] # 0
      BY <1>1, <1>13 DEF Reports, Rounds, TestSnapshot
    <3> QED
      BY <1>1, <3>1
  <2> QED
    BY <1>1, <1>2, <1>3, <1>4, <1>13, <2>1, Zenon DEF TestSnapshot, DistTypes, network
<1>14. CASE CheckReceives(h)
  <2>1. PICK x : x = global_snapshot[h] + (IF work_done[h] THEN 1 ELSE 0)
    BY ZenonT(60)
  <2>2. x \in Nat
    BY <1>1, <2>1
  <2>3. global_snapshot[h] \in Nat /\ 0 \in Nat /\ 1 \in Nat
    BY <1>1
  <2>4. anyReceivedMessages' \in [Hosts -> BOOLEAN]
    BY <1>1, <1>14, Zenon DEF CheckReceives, ForgetReceived
  <2>5. StillActive(h) => work_done' \in [Hosts -> BOOLEAN] /\ host_pc' \in [Hosts -> Places]
    BY <1>1, <1>3, <1>4, Zenon DEF StillActive
  <2>6. DecideSnapshot(h) =>
          /\ host_pc' \in [Hosts -> Places] /\ work_done' \in [Hosts -> BOOLEAN]
          /\ prev_snapshot' \in [Hosts -> Nat] /\ snapshot' \in [Hosts -> Nat] /\ global_snapshot' \in [Hosts -> Nat]
          /\ snapshot_request' \in [Hosts -> BOOLEAN] /\ entered' \in [Hosts -> Nat] /\ maximum' \in Seq(Nat)
    <3> HIDE DEF detector, app
    <3>1. Reinitialize(h) => /\ work_done' \in [Hosts -> BOOLEAN] /\ prev_snapshot' \in [Hosts -> Nat]
                             /\ snapshot' \in [Hosts -> Nat] /\ global_snapshot' \in [Hosts -> Nat]
      <4>1. /\ prev_snapshot \in [Hosts -> Nat] /\ snapshot \in [Hosts -> Nat]
            /\ global_snapshot \in [Hosts -> Nat] /\ work_done \in [Hosts -> BOOLEAN]
        BY <1>1, Zenon
      <4> QED
        BY <4>1 DEF Reinitialize
    <3>2. TakeSnapshot(h) =>
            /\ work_done' \in [Hosts -> BOOLEAN]
            /\ prev_snapshot' \in [Hosts -> Nat] /\ snapshot' \in [Hosts -> Nat] /\ global_snapshot' \in [Hosts -> Nat]
            /\ snapshot_request' \in [Hosts -> BOOLEAN] /\ entered' \in [Hosts -> Nat] /\ maximum' \in Seq(Nat)
      <4> SUFFICES ASSUME TakeSnapshot(h)
                   PROVE  /\ work_done' \in [Hosts -> BOOLEAN]
                          /\ prev_snapshot' \in [Hosts -> Nat] /\ snapshot' \in [Hosts -> Nat] /\ global_snapshot' \in [Hosts -> Nat]
                          /\ snapshot_request' \in [Hosts -> BOOLEAN] /\ entered' \in [Hosts -> Nat] /\ maximum' \in Seq(Nat)
        BY Zenon
      <4>1. InitiateSnapshot(h, x)
        BY <2>1, Zenon DEF TakeSnapshot
      <4>2. /\ prev_snapshot' = [prev_snapshot EXCEPT ![h] = global_snapshot[h]]
            /\ snapshot' = [snapshot EXCEPT ![h] = x] /\ global_snapshot' = global_snapshot
            /\ work_done' = [work_done EXCEPT ![h] = FALSE]
        BY <2>1, Zenon DEF TakeSnapshot
      <4>3. /\ prev_snapshot \in [Hosts -> Nat] /\ snapshot \in [Hosts -> Nat]
            /\ global_snapshot \in [Hosts -> Nat] /\ work_done \in [Hosts -> BOOLEAN]
        BY <1>1, Zenon
      <4>4. /\ entered' \in [Hosts -> Nat] /\ maximum' \in Seq(Nat) /\ snapshot_request' \in [Hosts -> BOOLEAN]
        BY <1>6, <2>2, <4>1, Zenon
      <4>5. /\ work_done' \in [Hosts -> BOOLEAN]
            /\ prev_snapshot' \in [Hosts -> Nat] /\ snapshot' \in [Hosts -> Nat] /\ global_snapshot' \in [Hosts -> Nat]
        BY <2>2, <4>2, <4>3
      <4> QED
        BY <4>4, <4>5, Zenon
    <3> QED
      BY <1>1, <1>3, <1>4, <3>1, <3>2, Zenon DEF DecideSnapshot
  <2> QED
    BY <1>1, <1>2, <1>14, <2>4, <2>5, <2>6, Zenon DEF CheckReceives, DistTypes
<1> QED
  BY <1>7, <1>8, <1>9, <1>10, <1>11, <1>12, <1>13, <1>14, Zenon DEF Host

--------------------------------------------------------------------------------
\* The operations of a host as changes of its own state.
Counters(h) ==
  /\ prev_snapshot'[h] = prev_snapshot[h] /\ snapshot'[h] = snapshot[h] /\ global_snapshot'[h] = global_snapshot[h]
  /\ snapshot_request'[h] = snapshot_request[h] /\ snapshot_ended'[h] = snapshot_ended[h]

Moved(h, p, q) == host_pc[h] = p /\ host_pc'[h] = q

Outside(h) ==
  \/ Moved(h, "first", "firstsync")
  \/ Moved(h, "firstsync", "firstsync") /\ anyReceivedMessages'[h]

Searched(h) ==
  /\ Moved(h, "round", "sync") /\ local_mdata'[h] = work[h]
  /\ work[h] \/ (~work'[h] /\ queued' = queued)
  /\ anyReceivedMessages'[h] = anyReceivedMessages[h] /\ work_done'[h] = work_done[h] /\ arrived' = arrived

Applied(h) ==
  /\ Moved(h, "sync", "sync") /\ anyReceivedMessages'[h] /\ \E s \in Hosts : arrived[s][h] > 0
  /\ local_mdata'[h] = local_mdata[h] /\ work_done'[h] = work_done[h]

\* Nothing is sent or received, and no work is found.
Watches(h) ==
  work'[h] = work[h] /\ local_mdata'[h] = local_mdata[h] /\ queued' = queued /\ arrived' = arrived

Synced(h) ==
  /\ Moved(h, "sync", "sends") /\ Watches(h)
  /\ anyReceivedMessages'[h] = anyReceivedMessages[h] /\ work_done'[h] = work_done[h]

SawSends(h) ==
  /\ Watches(h) /\ anyReceivedMessages'[h] = anyReceivedMessages[h]
  /\ \/ Moved(h, "sends", "round") /\ work_done'[h] /\ (local_mdata[h] \/ AnyPendingSends(h))
     \/ Moved(h, "sends", "test") /\ ~local_mdata[h] /\ ~AnyPendingSends(h) /\ work_done'[h] = work_done[h]

Tested(h) ==
  /\ Moved(h, "test", "receives") /\ Watches(h)
  /\ anyReceivedMessages'[h] = anyReceivedMessages[h] /\ work_done'[h] = work_done[h]
  /\ prev_snapshot'[h] = prev_snapshot[h] /\ snapshot'[h] = snapshot[h]
  /\ \/ /\ snapshot_request[h] /\ SnapshotComplete(h) /\ ~snapshot_request'[h]
        /\ global_snapshot'[h] = maximum[entered[h]]
     \/ /\ snapshot_ended'[h] = ~snapshot_request[h] /\ snapshot_request'[h] = snapshot_request[h]
        /\ global_snapshot'[h] = global_snapshot[h]

Received(h) ==
  /\ Moved(h, "receives", "round") /\ Watches(h) /\ ~anyReceivedMessages'[h]
  /\ \/ work_done'[h] /\ (anyReceivedMessages[h] \/ InflightRecvs(h))
     \/ work_done'[h] = work_done[h] /\ ~anyReceivedMessages[h] /\ ~InflightRecvs(h)

Halts(h) ==
  /\ Moved(h, "receives", "halted") /\ Watches(h) /\ ~anyReceivedMessages'[h]
  /\ ~anyReceivedMessages[h] /\ ~InflightRecvs(h) /\ snapshot_ended[h]
  /\ ~work_done[h] /\ ~work_done'[h] /\ prev_snapshot[h] = global_snapshot[h]
  /\ snapshot_request'[h] = snapshot_request[h] /\ snapshot_ended'[h] = snapshot_ended[h]

\* Host h joins the next reduction with the number x.
Enters(h, x) ==
  /\ host_pc'[h] = "round" /\ Watches(h) /\ snapshot_request'[h]
  /\ entered' = [entered EXCEPT ![h] = entered[h] + 1]
  /\ maximum' = Reduced(maximum, entered[h] + 1, x)

Constructs(h) ==
  /\ host_pc[h] \in {"firstsync", "construct"} /\ Enters(h, snapshot[h])
  /\ prev_snapshot'[h] = prev_snapshot[h] /\ global_snapshot'[h] = global_snapshot[h]
  /\ work_done'[h] = work_done[h] /\ anyReceivedMessages'[h] = anyReceivedMessages[h]

Takes(h) ==
  /\ host_pc[h] = "receives" /\ Enters(h, global_snapshot[h] + (IF work_done[h] THEN 1 ELSE 0))
  /\ ~anyReceivedMessages[h] /\ ~InflightRecvs(h) /\ snapshot_ended[h]
  /\ work_done[h] \/ prev_snapshot[h] # global_snapshot[h]
  /\ prev_snapshot'[h] = global_snapshot[h] /\ global_snapshot'[h] = global_snapshot[h]
  /\ ~work_done'[h] /\ ~anyReceivedMessages'[h]

\* The host stays in its round of snapshots ...
Plain(h) ==
  /\ entered' = entered /\ maximum' = maximum
  /\ \/ Counters(h) /\ (Outside(h) \/ Searched(h) \/ Applied(h) \/ Synced(h) \/ SawSends(h) \/ Received(h))
     \/ Tested(h) \/ Halts(h)

\* ... or joins the next one.
LEMMA HostSteps ==
  ASSUME DistTypes, NEW h \in Hosts, Host(h)
  PROVE  Plain(h) \/ Constructs(h) \/ Takes(h)
<1>1. /\ host_pc \in [Hosts -> Places]
      /\ work \in [Hosts -> BOOLEAN] /\ local_mdata \in [Hosts -> BOOLEAN]
      /\ work_done \in [Hosts -> BOOLEAN] /\ snapshot_ended \in [Hosts -> BOOLEAN]
      /\ snapshot_request \in [Hosts -> BOOLEAN] /\ anyReceivedMessages \in [Hosts -> BOOLEAN]
      /\ prev_snapshot \in [Hosts -> Nat] /\ snapshot \in [Hosts -> Nat]
      /\ global_snapshot \in [Hosts -> Nat] /\ entered \in [Hosts -> Nat]
  BY Zenon DEF DistTypes
<1>2. ASSUME NEW x, GoOn(h, x) PROVE host_pc'[h] = x
  BY <1>1, <1>2, Zenon DEF GoOn
<1>3. ASSUME NEW x, InitiateSnapshot(h, x)
      PROVE  /\ snapshot_request'[h] /\ entered' = [entered EXCEPT ![h] = entered[h] + 1]
             /\ maximum' = Reduced(maximum, entered[h] + 1, x)
  BY <1>1, <1>3, Zenon DEF InitiateSnapshot, Reduced
<1>4. CASE FirstIteration(h)
  BY <1>2, <1>4, Zenon DEF FirstIteration, Plain, Counters, Outside, Moved, detector, collectives
<1>5. CASE DoAll(h)
  <2>1. Searched(h)
    BY <1>1, <1>2, <1>5, Zenon DEF DoAll, Searched, Moved
  <2> QED
    BY <1>5, <2>1, Zenon DEF DoAll, Plain, Counters, collectives
<1>6. CASE Apply(h)
  <2>1. /\ anyReceivedMessages'[h] /\ host_pc' = host_pc /\ Counters(h) /\ entered' = entered /\ maximum' = maximum
        /\ local_mdata' = local_mdata /\ work_done' = work_done
        /\ \E s \in Hosts : arrived[s][h] > 0
    BY <1>1, <1>6, Zenon DEF Apply, Counters, detector, collectives
  <2>2. host_pc[h] = "firstsync" \/ host_pc[h] = "sync"
    BY <1>6, Zenon DEF Apply
  <2>3. Outside(h) \/ Applied(h)
    BY <2>1, <2>2, Zenon DEF Outside, Applied, Moved
  <2> QED
    BY <2>1, <2>3, Zenon DEF Plain
<1>7. CASE EndSync(h)
  <2>1. Synced(h)
    BY <1>2, <1>7, Zenon DEF EndSync, Synced, Moved, Watches, network, detector
  <2> QED
    BY <1>7, <2>1, Zenon DEF EndSync, Plain, Counters, detector, collectives
<1>8. CASE Construct(h)
  BY <1>2, <1>3, <1>8, Zenon DEF Construct, Constructs, Enters, Watches, network
<1>9. CASE CheckSends(h)
  <2>1. StillActive(h) => work_done'[h] /\ host_pc'[h] = "round"
    BY <1>1, <1>2, Zenon DEF StillActive
  <2>2. SawSends(h)
    BY <1>2, <1>9, <2>1, Zenon DEF CheckSends, SawSends, Moved, Watches, network
  <2> QED
    BY <1>9, <2>2, Zenon DEF CheckSends, Plain, Counters, collectives
<1>10. CASE TestSnapshot(h)
  <2>1. Tested(h)
    <3>1. /\ snapshot_request' = [snapshot_request EXCEPT ![h] = FALSE] => ~snapshot_request'[h]
          /\ global_snapshot' = [global_snapshot EXCEPT ![h] = maximum[entered[h]]] =>
               global_snapshot'[h] = maximum[entered[h]]
          /\ snapshot_ended' = [snapshot_ended EXCEPT ![h] = ~snapshot_request[h]] =>
               snapshot_ended'[h] = ~snapshot_request[h]
      BY <1>1, Zenon
    <3> QED
      BY <1>2, <1>10, <3>1, Zenon DEF TestSnapshot, Tested, Moved, Watches, network
  <2> QED
    BY <1>10, <2>1, Zenon DEF TestSnapshot, Plain, collectives
<1>11. CASE CheckReceives(h)
  <2>1. Watches(h) /\ ~anyReceivedMessages'[h] /\ host_pc[h] = "receives" /\ snapshot_ended' = snapshot_ended
    BY <1>1, <1>11, Zenon DEF CheckReceives, ForgetReceived, Watches
  <2>2. CASE anyReceivedMessages[h] \/ InflightRecvs(h)
    <3>1. work_done'[h] /\ host_pc'[h] = "round"
      BY <1>1, <1>2, <1>11, <2>2, Zenon DEF CheckReceives, StillActive
    <3> QED
      BY <1>11, <2>1, <2>2, <3>1, Zenon DEF CheckReceives, Received, Moved, Plain, Counters, collectives
  <2>3. CASE ~(anyReceivedMessages[h] \/ InflightRecvs(h))
    <3>1. DecideSnapshot(h)
      BY <1>11, <2>3, Zenon DEF CheckReceives
    <3>2. CASE /\ ~snapshot_ended[h] /\ GoOn(h, "round")
               /\ UNCHANGED <<prev_snapshot, snapshot, global_snapshot, work_done, snapshot_request, collectives>>
      BY <1>2, <2>1, <2>3, <3>2, Zenon DEF Received, Moved, Plain, Counters, collectives
    <3>3. CASE /\ snapshot_ended[h] /\ (work_done[h] \/ prev_snapshot[h] # global_snapshot[h])
               /\ GoOn(h, "round") /\ TakeSnapshot(h)
      <4>1. /\ InitiateSnapshot(h, global_snapshot[h] + (IF work_done[h] THEN 1 ELSE 0))
            /\ prev_snapshot'[h] = global_snapshot[h] /\ global_snapshot' = global_snapshot /\ ~work_done'[h]
        BY <1>1, <3>3, Zenon DEF TakeSnapshot
      <4>2. PICK x : x = global_snapshot[h] + (IF work_done[h] THEN 1 ELSE 0)
        OBVIOUS
      <4>3. Enters(h, x)
        BY <1>2, <1>3, <2>1, <3>3, <4>1, <4>2, Zenon DEF Enters
      <4> QED
        BY <2>1, <2>3, <3>3, <4>1, <4>2, <4>3, Zenon DEF Takes
    <3>4. CASE /\ snapshot_ended[h] /\ ~work_done[h] /\ prev_snapshot[h] = global_snapshot[h]
               /\ GoOn(h, "halted") /\ Reinitialize(h)
               /\ UNCHANGED <<snapshot_request, collectives>>
      <4>1. host_pc'[h] = "halted" /\ ~work_done'[h]
        BY <1>1, <1>2, <3>4, Zenon DEF Reinitialize
      <4> QED
        BY <2>1, <2>3, <3>4, <4>1, Zenon DEF Halts, Moved, Plain, collectives
    <3> QED
      BY <3>1, <3>2, <3>3, <3>4, Zenon DEF DecideSnapshot
  <2> QED
    BY <2>2, <2>3, Zenon
<1> QED
  BY <1>4, <1>5, <1>6, <1>7, <1>8, <1>9, <1>10, <1>11, Zenon DEF Host

--------------------------------------------------------------------------------
\* A host that stays in its round knows the same of it, or has just been told.
LEMMA ReportsPlain ==
  ASSUME DistTypes, NEW h \in Hosts, Reports(h), Plain(h)
  PROVE  Reports(h)'
<1>1. /\ entered' = entered /\ maximum' = maximum /\ entered'[h] = entered[h] /\ Rounds' = Rounds
      /\ SnapshotComplete(h)' <=> SnapshotComplete(h)
  BY Zenon DEF Plain, Rounds, SnapshotComplete
<1>2. /\ entered[h] \in {Rounds - 1, Rounds}
      /\ entered[h] = 0 <=> host_pc[h] \in {"first", "firstsync", "construct"}
      /\ entered[h] = 0 => snapshot[h] = 1 /\ prev_snapshot[h] = 0 /\ global_snapshot[h] = 1
      /\ host_pc[h] = "receives" /\ snapshot_ended[h] => ~snapshot_request[h]
      /\ entered[h] > 0 /\ host_pc[h] # "halted" =>
           /\ prev_snapshot[h] = IF entered[h] = 1 THEN 0 ELSE maximum[entered[h] - 1]
           /\ global_snapshot[h] = IF snapshot_request[h] /\ entered[h] > 1 THEN maximum[entered[h] - 1]
                                   ELSE maximum[entered[h]]
           /\ ~snapshot_request[h] => SnapshotComplete(h)
  BY Zenon DEF Reports, Halted
<1>3. /\ snapshot_request[h] \in BOOLEAN /\ snapshot_ended[h] \in BOOLEAN
  BY Zenon DEF DistTypes
<1>4. SUFFICES
      /\ host_pc'[h] \in {"first", "firstsync", "construct"} <=> host_pc[h] \in {"first", "firstsync", "construct"}
      /\ entered[h] = 0 => snapshot'[h] = 1 /\ prev_snapshot'[h] = 0 /\ global_snapshot'[h] = 1
      /\ host_pc'[h] = "receives" /\ snapshot_ended'[h] => ~snapshot_request'[h]
      /\ entered[h] > 0 /\ host_pc'[h] # "halted" =>
           /\ prev_snapshot'[h] = IF entered[h] = 1 THEN 0 ELSE maximum[entered[h] - 1]
           /\ global_snapshot'[h] = IF snapshot_request'[h] /\ entered[h] > 1 THEN maximum[entered[h] - 1]
                                    ELSE maximum[entered[h]]
           /\ ~snapshot_request'[h] => SnapshotComplete(h)
  BY <1>1, <1>2, Zenon DEF Reports, Halted
<1>5. CASE Counters(h) /\ (Outside(h) \/ Searched(h) \/ Applied(h) \/ Synced(h) \/ SawSends(h) \/ Received(h))
  <2>1. /\ host_pc'[h] \in {"first", "firstsync", "construct"} <=> host_pc[h] \in {"first", "firstsync", "construct"}
        /\ host_pc'[h] # "receives" /\ host_pc[h] # "halted"
    BY <1>5, ZenonT(60) DEF Outside, Searched, Applied, Synced, SawSends, Received, Moved
  <2> QED
    BY <1>2, <1>5, <2>1, Zenon DEF Counters
<1>6. CASE Tested(h)
  <2>1. /\ host_pc[h] = "test" /\ host_pc'[h] = "receives" /\ prev_snapshot'[h] = prev_snapshot[h]
        /\ snapshot'[h] = snapshot[h]
    BY <1>6, Zenon DEF Tested, Moved
  <2>2. /\ host_pc'[h] \notin {"first", "firstsync", "construct"} /\ host_pc[h] \notin {"first", "firstsync", "construct"}
        /\ host_pc'[h] # "halted" /\ host_pc[h] # "halted"
    BY <2>1
  <2>3. entered[h] # 0
    BY <1>2, <2>2, Zenon
  <2>4. CASE /\ snapshot_request[h] /\ SnapshotComplete(h) /\ ~snapshot_request'[h]
             /\ global_snapshot'[h] = maximum[entered[h]]
    BY <1>2, <2>1, <2>2, <2>3, <2>4, Zenon
  <2>5. CASE /\ snapshot_ended'[h] = ~snapshot_request[h] /\ snapshot_request'[h] = snapshot_request[h]
             /\ global_snapshot'[h] = global_snapshot[h]
    BY <1>2, <1>3, <2>1, <2>2, <2>3, <2>5, Zenon
  <2> QED
    BY <1>6, <2>4, <2>5, Zenon DEF Tested
<1>7. CASE Halts(h)
  <2>1. host_pc[h] = "receives" /\ host_pc'[h] = "halted"
    BY <1>7, Zenon DEF Halts, Moved
  <2>2. /\ host_pc'[h] \notin {"first", "firstsync", "construct"} /\ host_pc[h] \notin {"first", "firstsync", "construct"}
        /\ host_pc'[h] # "receives"
    BY <2>1
  <2> QED
    BY <1>2, <2>1, <2>2, Zenon
<1> QED
  BY <1>5, <1>6, <1>7, Zenon DEF Plain

\* What joining a reduction does to the sequence of the maxima.
LEMMA EnterFacts ==
  ASSUME DistTypes, NEW h \in Hosts, Reports(h), NEW x \in Nat, Enters(h, x)
  PROVE  \E k \in Nat :
           /\ k = entered[h] + 1 /\ k > 0 /\ (k = Rounds \/ k = Rounds + 1)
           /\ Rounds' = k /\ Rounds \in Nat /\ entered'[h] = k /\ \A u \in Hosts : u # h => entered'[u] = entered[u]
           /\ \A j \in 1 .. k - 1 : maximum'[j] = maximum[j]
           /\ maximum'[k] = IF k > Rounds THEN x ELSE Max2(maximum[k], x)
<1>1. entered \in [Hosts -> Nat] /\ maximum \in Seq(Nat)
  BY Zenon DEF DistTypes
<1>2. PICK k : k = entered[h] + 1
  OBVIOUS
<1>3. k \in Nat /\ k > 0 /\ (k = Rounds \/ k = Rounds + 1) /\ Rounds \in Nat
  BY <1>1, <1>2, SMTT(60) DEF Reports, Rounds
<1>4. PICK m \in Seq(Nat) : m = maximum
  BY <1>1, Zenon
<1>5. maximum' = Reduced(m, k, x) /\ entered' = [entered EXCEPT ![h] = k]
  BY <1>2, <1>4, Zenon DEF Enters
<1>6. k = Len(m) \/ k = Len(m) + 1
  BY <1>3, <1>4, Zenon DEF Rounds
<1>7. /\ Reduced(m, k, x) \in Seq(Nat) /\ Len(Reduced(m, k, x)) = k
      /\ Reduced(m, k, x)[k] = IF k > Len(m) THEN x ELSE Max2(m[k], x)
      /\ \A j \in 1 .. k - 1 : Reduced(m, k, x)[j] = m[j]
  BY <1>3, <1>6, ReducedSeq, Zenon
<1>8. entered'[h] = k /\ \A u \in Hosts : u # h => entered'[u] = entered[u]
  BY <1>1, <1>5, Zenon
<1> QED
  BY <1>2, <1>3, <1>4, <1>5, <1>7, <1>8, Zenon DEF Rounds

\* The number a host joins with.
LEMMA EnterNumber ==
  ASSUME DistTypes, Numbered, NEW h \in Hosts, Reports(h), Constructs(h) \/ Takes(h)
  PROVE  \E x \in Nat :
           /\ Enters(h, x)
           /\ Constructs(h) => x = 1 /\ entered[h] = 0 /\ prev_snapshot'[h] = 0 /\ global_snapshot'[h] = 1
           /\ Takes(h) => /\ entered[h] > 0 /\ SnapshotComplete(h) /\ global_snapshot[h] = maximum[entered[h]]
                          /\ maximum[entered[h]] \in Nat
                          /\ x = maximum[entered[h]] + (IF work_done[h] THEN 1 ELSE 0)
                          /\ x >= maximum[entered[h]] /\ (x = maximum[entered[h]] => ~work_done[h])
                          /\ prev_snapshot[h] = IF entered[h] = 1 THEN 0 ELSE maximum[entered[h] - 1]
                          /\ prev_snapshot'[h] = maximum[entered[h]] /\ global_snapshot'[h] = maximum[entered[h]]
<1>1. /\ entered \in [Hosts -> Nat] /\ maximum \in Seq(Nat) /\ snapshot \in [Hosts -> Nat]
      /\ work_done \in [Hosts -> BOOLEAN] /\ entered[h] \in Nat /\ work_done[h] \in BOOLEAN
  BY Zenon DEF DistTypes
<1>2. CASE Constructs(h)
  <2>1. host_pc[h] \in {"first", "firstsync", "construct"}
    BY <1>2 DEF Constructs
  <2>2. entered[h] = 0
    BY <2>1, Zenon DEF Reports
  <2>3. snapshot[h] = 1 /\ prev_snapshot[h] = 0 /\ global_snapshot[h] = 1
    BY <2>2, Zenon DEF Reports
  <2>4. ~Takes(h)
    BY <1>2, ZenonT(60) DEF Constructs, Takes
  <2>5. 1 \in Nat
    OBVIOUS
  <2> QED
    BY <1>2, <2>2, <2>3, <2>4, <2>5, Zenon DEF Constructs
<1>3. CASE Takes(h)
  <2>1. host_pc[h] = "receives" /\ snapshot_ended[h]
    BY <1>3, Zenon DEF Takes
  <2>2. host_pc[h] \notin {"first", "firstsync", "construct"} /\ ~Halted(h)
    BY <2>1 DEF Halted
  <2>3. entered[h] # 0 /\ ~snapshot_request[h]
    BY <2>1, <2>2, Zenon DEF Reports
  <2>4. entered[h] > 0
    BY <1>1, <2>3
  <2>5. /\ SnapshotComplete(h) /\ global_snapshot[h] = maximum[entered[h]]
        /\ prev_snapshot[h] = IF entered[h] = 1 THEN 0 ELSE maximum[entered[h] - 1]
    BY <2>2, <2>3, <2>4, Zenon DEF Reports
  <2>6. maximum[entered[h]] \in Nat
    BY <1>1, <2>4, SMTT(60) DEF Reports, Rounds
  <2>7. PICK x : x = maximum[entered[h]] + (IF work_done[h] THEN 1 ELSE 0)
    BY ZenonT(60)
  <2>8. x \in Nat /\ x >= maximum[entered[h]] /\ (x = maximum[entered[h]] => ~work_done[h])
    <3>1. PICK y \in Nat : y = maximum[entered[h]]
      BY <2>6, Zenon
    <3> QED
      BY <1>1, <2>7, <3>1, SMTT(60)
  <2>9. ~Constructs(h)
    BY <1>3 DEF Constructs, Takes
  <2>10. Enters(h, x) /\ prev_snapshot'[h] = maximum[entered[h]] /\ global_snapshot'[h] = maximum[entered[h]]
    BY <1>3, <2>5, <2>7, Zenon DEF Takes
  <2> QED
    BY <2>4, <2>5, <2>6, <2>7, <2>8, <2>9, <2>10, Zenon
<1> QED
  BY <1>2, <1>3, Zenon

\* Joining a reduction keeps what the hosts know of it.
LEMMA ReportsEnter ==
  ASSUME DistTypes, Numbered, \A u \in Hosts : Reports(u),
         NEW h \in Hosts, Host(h), Constructs(h) \/ Takes(h)
  PROVE  Numbered' /\ \A u \in Hosts : Reports(u)'
<1>1. entered \in [Hosts -> Nat] /\ maximum \in Seq(Nat) /\ snapshot_request \in [Hosts -> BOOLEAN]
  BY Zenon DEF DistTypes
<1>2. PICK x \in Nat :
           /\ Enters(h, x)
           /\ Constructs(h) => x = 1 /\ entered[h] = 0 /\ prev_snapshot'[h] = 0 /\ global_snapshot'[h] = 1
           /\ Takes(h) => /\ entered[h] > 0 /\ SnapshotComplete(h) /\ global_snapshot[h] = maximum[entered[h]]
                          /\ maximum[entered[h]] \in Nat
                          /\ x >= maximum[entered[h]]
                          /\ prev_snapshot'[h] = maximum[entered[h]] /\ global_snapshot'[h] = maximum[entered[h]]
  BY EnterNumber, Zenon
<1>3. PICK k \in Nat :
           /\ k = entered[h] + 1 /\ k > 0 /\ (k = Rounds \/ k = Rounds + 1)
           /\ Rounds' = k /\ Rounds \in Nat /\ entered'[h] = k /\ \A u \in Hosts : u # h => entered'[u] = entered[u]
           /\ \A j \in 1 .. k - 1 : maximum'[j] = maximum[j]
           /\ maximum'[k] = IF k > Rounds THEN x ELSE Max2(maximum[k], x)
  BY <1>2, EnterFacts, Zenon
<1>4. \A j \in 1 .. Rounds : maximum[j] \in Nat
  BY <1>1 DEF Rounds
<1>n. k \in Nat /\ Rounds \in Nat /\ Rounds' = k /\ k > 0 /\ (k = Rounds \/ k = Rounds + 1)
  BY <1>3, Zenon
<1>5. /\ k = 1 <=> Constructs(h)
      /\ k > 1 <=> Takes(h)
  <2>1. entered[h] \in Nat /\ k = entered[h] + 1
    BY <1>1, <1>3, Zenon
  <2>2. k = 1 <=> ~(k > 1)
    BY <1>n
  <2>3. (k = 1 <=> entered[h] = 0) /\ (entered[h] = 0 <=> ~(entered[h] > 0))
    BY <2>1
  <2> QED
    BY <1>2, <2>2, <2>3, Zenon
<1>6. maximum'[1] = 1
  <2>1. CASE k = 1
    <3>1. x = 1
      BY <1>2, <1>5, <2>1, Zenon
    <3>2. Rounds > 0 => maximum[1] = 1
      BY Zenon DEF Numbered
    <3> QED
      <4>1. CASE k > Rounds
        BY <1>3, <2>1, <3>1, <4>1, Zenon
      <4>2. CASE ~(k > Rounds)
        <5>1. Rounds > 0 /\ Max2(1, 1) = 1
          BY <1>n, <2>1, <4>2 DEF Max2
        <5> QED
          BY <1>3, <2>1, <3>1, <3>2, <4>2, <5>1, Zenon
      <4> QED
        BY <4>1, <4>2, Zenon
  <2>2. CASE k > 1
    <3>1. Rounds > 0 /\ 1 \in 1 .. k - 1
      BY <1>n, <2>2
    <3> QED
      BY <1>3, <3>1, Zenon DEF Numbered
  <2>3. k = 1 \/ k > 1
    BY <1>n
  <2> QED
    BY <2>1, <2>2, <2>3, Zenon
<1>7. k > 1 => maximum'[k - 1] = maximum[k - 1] /\ maximum[k - 1] <= maximum'[k]
  <2> SUFFICES ASSUME k > 1 PROVE maximum'[k - 1] = maximum[k - 1] /\ maximum[k - 1] <= maximum'[k]
    BY Zenon
  <2>0. entered[h] \in Nat /\ k = entered[h] + 1
    BY <1>1, <1>3, Zenon
  <2>1. k - 1 \in 1 .. k - 1 /\ k - 1 = entered[h] /\ k - 1 \in 1 .. Rounds
    BY <1>n, <2>0
  <2>2. maximum[k - 1] \in Nat /\ maximum'[k - 1] = maximum[k - 1] /\ x >= maximum[k - 1]
    BY <1>2, <1>3, <1>4, <1>5, <2>1, Zenon
  <2>3. maximum'[k] >= x
    <3>0. k = Rounds => k \in 1 .. Rounds
      BY <1>n
    <3>1. k = Rounds => maximum[k] \in Nat
      BY <1>4, <3>0, Zenon
    <3>2. maximum'[k] = IF k > Rounds THEN x ELSE Max2(maximum[k], x)
      BY <1>3, Zenon
    <3> QED
      BY <1>n, <3>1, <3>2 DEF Max2
  <2>4. maximum'[k] \in Nat
    <3>0. k = Rounds => k \in 1 .. Rounds
      BY <1>n
    <3>1. k = Rounds => maximum[k] \in Nat
      BY <1>4, <3>0, Zenon
    <3>2. maximum'[k] = IF k > Rounds THEN x ELSE Max2(maximum[k], x)
      BY <1>3, Zenon
    <3> QED
      BY <1>n, <3>1, <3>2 DEF Max2
  <2> QED
    BY <2>2, <2>3, <2>4
<1>8. Numbered'
  BY <1>3, <1>6, <1>7, Zenon DEF Numbered
<1>9. ASSUME NEW u \in Hosts PROVE entered'[u] >= entered[u] /\ entered'[u] \in Nat /\ entered[u] \in Nat
  <2>1. entered[u] \in Nat /\ (u # h => entered'[u] = entered[u]) /\ (u = h => entered'[u] = k /\ k = entered[u] + 1)
    BY <1>1, <1>3, Zenon
  <2> QED
    BY <2>1
<1>10. Reports(h)'
  <2>1. /\ host_pc'[h] = "round" /\ snapshot_request'[h]
    BY <1>2, Zenon DEF Enters
  <2>2. /\ entered'[h] \in {k - 1, k} /\ entered'[h] # 0 /\ host_pc'[h] \notin {"first", "firstsync", "construct"}
        /\ host_pc'[h] # "receives"
    <3>1. entered'[h] = k /\ k # 0
      <4>1. k # 0
        BY <1>n
      <4> QED
        BY <1>3, <4>1, Zenon
    <3> QED
      BY <2>1, <3>1, Zenon
  <2>3. /\ prev_snapshot'[h] = IF k = 1 THEN 0 ELSE maximum'[k - 1]
        /\ global_snapshot'[h] = IF k > 1 THEN maximum'[k - 1] ELSE maximum'[k]
    <3>1. CASE k = 1
      <4>1. ~(k > 1)
        BY <3>1
      <4> QED
        BY <1>2, <1>5, <1>6, <3>1, <4>1, Zenon
    <3>2. CASE k > 1
      <4>1. k # 1 /\ k - 1 = entered[h]
        BY <1>1, <1>3, <3>2
      <4> QED
        BY <1>2, <1>5, <1>7, <3>2, <4>1, Zenon
    <3>3. k = 1 \/ k > 1
      BY <1>n
    <3> QED
      BY <3>1, <3>2, <3>3, Zenon
  <2> QED
    BY <1>3, <2>1, <2>2, <2>3, ZenonT(60) DEF Reports
<1>11. ASSUME NEW u \in Hosts, u # h PROVE Reports(u)'
  <2>1. SameHost(u) /\ Reports(u) /\ entered'[u] = entered[u]
    BY <1>3, <1>11, HostFrame, Zenon
  <2>2. PICK e \in Nat : e = entered[u]
    BY <1>1, Zenon
  <2>3. e \in {Rounds - 1, Rounds}
    BY <2>1, <2>2, Zenon DEF Reports
  <2>4. e = k - 1 \/ (e = k /\ k = Rounds)
    <3>1. CASE k = Rounds
      BY <2>3, <3>1
    <3>2. CASE k = Rounds + 1 /\ k = 1
      BY <1>3, <2>2, <2>3, <3>2, SMTT(60)
    <3>3. CASE k = Rounds + 1 /\ k > 1
      <4>1. e >= entered[h]
        BY <1>2, <1>5, <2>2, <3>3, Zenon DEF SnapshotComplete
      <4> QED
        BY <1>1, <1>3, <2>3, <3>3, <4>1
    <3> QED
      BY <1>3, <3>1, <3>2, <3>3, SMTT(60)
  <2>5. SnapshotComplete(u) => SnapshotComplete(u)'
    <3>1. ASSUME SnapshotComplete(u), NEW g \in Hosts PROVE entered'[g] >= entered'[u]
      <4>1. entered[g] >= e /\ entered'[g] >= entered[g] /\ entered'[g] \in Nat /\ entered[g] \in Nat /\ entered'[u] = e
        BY <1>9, <2>1, <2>2, <3>1, Zenon DEF SnapshotComplete
      <4> QED
        BY <4>1
    <3> QED
      BY <3>1, Zenon DEF SnapshotComplete
  <2>6. ASSUME e > 0, ~Halted(u)
        PROVE  /\ prev_snapshot[u] = IF e = 1 THEN 0 ELSE maximum'[e - 1]
               /\ global_snapshot[u] = IF snapshot_request[u] /\ e > 1 THEN maximum'[e - 1] ELSE maximum'[e]
               /\ ~snapshot_request[u] => SnapshotComplete(u)
    <3>1. /\ prev_snapshot[u] = IF e = 1 THEN 0 ELSE maximum[e - 1]
          /\ global_snapshot[u] = IF snapshot_request[u] /\ e > 1 THEN maximum[e - 1] ELSE maximum[e]
          /\ ~snapshot_request[u] => SnapshotComplete(u)
      BY <2>1, <2>2, <2>6, Zenon DEF Reports
    <3>0. e > 0 /\ (e = k - 1 \/ e = k)
      BY <2>4, <2>6, Zenon
    <3>2. e # 1 => maximum'[e - 1] = maximum[e - 1]
      <4>1. e # 1 => e - 1 \in 1 .. k - 1
        BY <3>0
      <4> QED
        BY <1>3, <4>1, Zenon
    <3>3. CASE e = k - 1
      <4>1. maximum'[e] = maximum[e]
        <5>1. e \in 1 .. k - 1
          BY <2>6, <3>3
        <5> QED
          BY <1>3, <5>1, Zenon
      <4>2. e > 1 => e # 1
        OBVIOUS
      <4> QED
        BY <3>1, <3>2, <4>1, <4>2, Zenon
    <3>4. CASE e = k /\ k = Rounds
      <4>1. ~SnapshotComplete(u)
        <5>1. ~(entered[h] >= entered[u])
          BY <1>1, <1>3, <2>2, <3>4
        <5> QED
          BY <5>1, Zenon DEF SnapshotComplete
      <4>2. snapshot_request[u]
        BY <3>1, <4>1, Zenon
      <4>3. CASE e > 1
        <5>1. e # 1
          BY <4>3
        <5> QED
          BY <3>1, <3>2, <4>1, <4>2, <4>3, <5>1, Zenon
      <4>4. CASE e = 1
        <5>1. maximum[1] = 1 /\ ~(e > 1)
          BY <3>4, <4>4 DEF Numbered
        <5> QED
          BY <1>6, <3>1, <4>1, <4>2, <4>4, <5>1, Zenon
      <4>5. e > 1 \/ e = 1
        BY <3>0
      <4> QED
        BY <4>3, <4>4, <4>5, Zenon
    <3> QED
      BY <2>4, <3>3, <3>4, ZenonT(60)
  <2>7. entered'[u] \in {k - 1, k} /\ entered'[u] = e
    BY <2>1, <2>2, <2>4
  <2>8. Halted(u)' <=> Halted(u)
    BY <2>1, Zenon DEF Halted, SameHost
  <2>9. /\ e = 0 <=> host_pc[u] \in {"first", "firstsync", "construct"}
        /\ e = 0 => snapshot[u] = 1 /\ prev_snapshot[u] = 0 /\ global_snapshot[u] = 1
        /\ host_pc[u] = "receives" /\ snapshot_ended[u] => ~snapshot_request[u]
    BY <2>1, <2>2, Zenon DEF Reports
  <2> QED
    BY <1>3, <2>1, <2>5, <2>6, <2>7, <2>8, <2>9, Zenon DEF Reports, SameHost
<1> QED
  BY <1>8, <1>10, <1>11, Zenon

--------------------------------------------------------------------------------
\* What the network has for a host depends on what it has sent.
LEMMA SendsKept ==
  ASSUME NEW h \in Hosts, Host(h), queued' = queued
  PROVE  NoSends(h)' <=> NoSends(h)
  BY HostSends, Zenon DEF NoSends

\* A count that is not 0 is positive.
LEMMA PositiveCount == \A n \in Nat : n > 0 <=> n # 0
  OBVIOUS

(***************************************************************************)
(* anyPendingSends is false exactly when nothing of the host is on its     *)
(* way.                                                                    *)
(***************************************************************************)
LEMMA NothingPending ==
  ASSUME HandCounted, DistTypes, NEW h \in Hosts
  PROVE  AnyPendingSends(h) <=> ~NoSends(h)
<1>1. unreported[h] \in Nat /\ \A d \in Hosts : queued[h][d] \in Nat /\ hand[h][d] \in Nat /\ wire[h][d] \in Nat
  BY DEF DistTypes, Matrix
<1> QED
  BY <1>1, PositiveCount, Zenon DEF AnyPendingSends, NoSends

(***************************************************************************)
(* ... and there are no inflight receives when nothing has arrived for it. *)
(***************************************************************************)
LEMMA NothingInflight ==
  ASSUME DistTypes, NEW h \in Hosts
  PROVE  InflightRecvs(h) <=> ~(\A s \in Hosts : arrived[s][h] = 0)
<1>1. \A s \in Hosts : arrived[s][h] \in Nat
  BY DEF DistTypes, Matrix
<1> QED
  BY <1>1, PositiveCount, Zenon DEF InflightRecvs

\* A host that stays in its round does not become clean.
LEMMA CleanPlain ==
  ASSUME NEW h \in Hosts, Plain(h), Sent(h), Clean(h)'
  PROVE  Clean(h)
<1>1. /\ ~work_done'[h] /\ ~anyReceivedMessages'[h] /\ host_pc[h] \notin {"first", "firstsync"}
      /\ host_pc'[h] \in {"sync", "sends"} => ~local_mdata'[h]
  BY Zenon DEF Clean, Sent
<1>2. CASE Outside(h)
  BY <1>1, <1>2 DEF Outside, Moved
<1>3. CASE Searched(h) \/ Applied(h)
  BY <1>1, <1>3 DEF Searched, Applied, Moved, Clean
<1>4. CASE Synced(h) \/ SawSends(h)
  BY <1>1, <1>4 DEF Synced, SawSends, Watches, Moved, Clean
<1>5. CASE Received(h) \/ Tested(h) \/ Halts(h)
  BY <1>1, <1>5, ZenonT(60) DEF Received, Tested, Halts, Moved, Clean
<1> QED
  BY <1>2, <1>3, <1>4, <1>5, Zenon DEF Plain

\* What a clean host does not send.
LEMMA SentHost ==
  ASSUME HandCounted, DistTypes, NEW h \in Hosts, Host(h), Sent(h)
  PROVE  Sent(h)'
<1>1. host_pc[h] \notin {"first", "firstsync"} /\ (Clean(h) \/ host_pc[h] \in {"construct", "test", "receives"} => NoSends(h))
  BY Zenon DEF Sent
<1>2. queued' = queued => (NoSends(h)' <=> NoSends(h))
  BY SendsKept, Zenon
<1>3. CASE Plain(h)
  <2>1. Clean(h)' => Clean(h)
    BY <1>3, CleanPlain
  <2>2. CASE Outside(h)
    BY <1>1, <2>2 DEF Outside, Moved
  <2>3. CASE Searched(h)
    <3>1. host_pc'[h] = "sync" /\ local_mdata'[h] = work[h] /\ (work[h] \/ queued' = queued)
      BY <2>3, Zenon DEF Searched, Moved
    <3>2. Clean(h)' => ~work[h]
      BY <3>1 DEF Clean
    <3>3. host_pc'[h] \notin {"first", "firstsync"} /\ host_pc'[h] \notin {"construct", "test", "receives"}
      BY <3>1, ZenonT(60)
    <3> QED
      BY <1>1, <1>2, <2>1, <3>1, <3>2, <3>3, Zenon DEF Sent
  <2>4. CASE Applied(h)
    <3>1. host_pc'[h] = "sync" /\ ~Clean(h)'
      BY <2>4, Zenon DEF Applied, Moved, Clean
    <3>2. host_pc'[h] \notin {"first", "firstsync"} /\ host_pc'[h] \notin {"construct", "test", "receives"}
      BY <3>1
    <3> QED
      BY <3>1, <3>2, Zenon DEF Sent
  <2>5. CASE Synced(h)
    <3>1. host_pc'[h] = "sends" /\ queued' = queued
      BY <2>5, Zenon DEF Synced, Moved, Watches
    <3>2. host_pc'[h] \notin {"first", "firstsync"} /\ host_pc'[h] \notin {"construct", "test", "receives"}
      BY <3>1
    <3> QED
      BY <1>1, <1>2, <2>1, <3>1, <3>2, Zenon DEF Sent
  <2>6. CASE SawSends(h)
    <3>1. queued' = queued /\ (host_pc'[h] = "round" \/ (host_pc'[h] = "test" /\ ~AnyPendingSends(h)))
      BY <2>6, Zenon DEF SawSends, Moved, Watches
    <3>2. host_pc'[h] \notin {"first", "firstsync"} /\ (host_pc'[h] \in {"construct", "test", "receives"} => host_pc'[h] # "round")
      BY <3>1
    <3> QED
      BY <1>1, <1>2, <2>1, <3>1, <3>2, NothingPending, Zenon DEF Sent
  <2>7. CASE Received(h) \/ Tested(h) \/ Halts(h)
    <3>1. /\ queued' = queued /\ host_pc[h] \in {"construct", "test", "receives"}
          /\ host_pc'[h] \notin {"first", "firstsync"}
      BY <2>7, ZenonT(60) DEF Received, Tested, Halts, Moved, Watches
    <3> QED
      BY <1>1, <1>2, <3>1, Zenon DEF Sent
  <2> QED
    BY <1>3, <2>2, <2>3, <2>4, <2>5, <2>6, <2>7, Zenon DEF Plain
<1>4. CASE Constructs(h) \/ Takes(h)
  <2>1. /\ queued' = queued /\ host_pc[h] \in {"construct", "test", "receives"}
        /\ host_pc'[h] \notin {"first", "firstsync"}
    <3>1. /\ host_pc'[h] = "round" /\ queued' = queued
          /\ host_pc[h] \in {"firstsync", "construct"} \/ host_pc[h] = "receives"
      BY <1>4, Zenon DEF Constructs, Takes, Enters, Watches
    <3> QED
      BY <1>1, <3>1
  <2> QED
    BY <1>1, <1>2, <2>1, Zenon DEF Sent
<1> QED
  BY <1>3, <1>4, HostSteps, Zenon

\* A host that found no work has none.
LEMMA IdleHost ==
  ASSUME DistTypes, NEW h \in Hosts, Host(h), Sent(h), Idle(h)
  PROVE  Idle(h)'
<1>1. host_pc[h] \notin {"first", "firstsync"} /\ (~anyReceivedMessages[h] /\ FoundNone(h) => ~work[h])
  BY Zenon DEF Sent, Idle
<1>2. CASE Plain(h)
  <2>1. CASE Outside(h)
    BY <1>1, <2>1 DEF Outside, Moved
  <2>2. CASE Searched(h)
    BY <2>2, ZenonT(60) DEF Searched, Moved, Idle, FoundNone
  <2>3. CASE Applied(h)
    BY <2>3, Zenon DEF Applied, Idle
  <2>4. CASE Synced(h) \/ SawSends(h)
    BY <1>1, <2>4, ZenonT(60) DEF Synced, SawSends, Watches, Moved, Idle, FoundNone
  <2>5. CASE Received(h) \/ Tested(h) \/ Halts(h)
    BY <1>1, <2>5, ZenonT(60) DEF Received, Tested, Halts, Watches, Moved, Idle, FoundNone
  <2> QED
    BY <1>2, <2>1, <2>2, <2>3, <2>4, <2>5, Zenon DEF Plain
<1>3. CASE Constructs(h) \/ Takes(h)
  <2>1. host_pc'[h] = "round"
    BY <1>3, Zenon DEF Constructs, Takes, Enters
  <2> QED
    BY <2>1, ZenonT(60) DEF Idle, FoundNone
<1> QED
  BY <1>2, <1>3, HostSteps, Zenon

\* A settled host that stays in its round stays settled.
LEMMA SettledPlain ==
  ASSUME HandCounted, DistTypes, NEW h \in Hosts, Plain(h), Sent(h), Settled(h)
  PROVE  Settled(h)'
<1>1. /\ ~work_done[h] /\ ~anyReceivedMessages[h] /\ ~work[h] /\ ~InflightRecvs(h) /\ ~AnyPendingSends(h)
      /\ host_pc[h] \in {"sync", "sends"} => ~local_mdata[h]
      /\ host_pc[h] \notin {"first", "firstsync"} /\ \A s \in Hosts : arrived[s][h] = 0
  BY NothingPending, NothingInflight, Zenon DEF Settled, Clean, Sent
<1>2. CASE Outside(h)
  BY <1>1, <1>2, ZenonT(60) DEF Outside, Moved
<1>3. CASE Searched(h)
  BY <1>1, <1>3, Zenon DEF Searched, Moved, Settled, Clean
<1>4. CASE Applied(h)
  BY <1>1, <1>4, Zenon DEF Applied, InflightRecvs
<1>5. CASE Synced(h)
  BY <1>1, <1>5, ZenonT(60) DEF Synced, Watches, Moved, Settled, Clean
<1>6. CASE SawSends(h)
  BY <1>1, <1>6, ZenonT(60) DEF SawSends, Watches, Moved, Settled, Clean
<1>7. CASE Received(h)
  BY <1>1, <1>7, ZenonT(60) DEF Received, Watches, Moved, Settled, Clean
<1>8. CASE Tested(h)
  BY <1>1, <1>8, ZenonT(60) DEF Tested, Watches, Moved, Settled, Clean
<1>9. CASE Halts(h)
  BY <1>1, <1>9, ZenonT(60) DEF Halts, Watches, Moved, Settled, Clean
<1> QED
  BY <1>2, <1>3, <1>4, <1>5, <1>6, <1>7, <1>8, <1>9, Zenon DEF Plain

\* Predicates of a host that a step does not change.
LEMMA HostKept ==
  ASSUME NEW u \in Hosts, SameHost(u)
  PROVE  /\ Clean(u)' <=> Clean(u)
         /\ Halted(u)' <=> Halted(u)
         /\ Idle(u) => Idle(u)'
         /\ SameSends(u) /\ Sent(u) => Sent(u)'
         /\ SameArrived(u) /\ Settled(u) => Settled(u)'
<1>1. Clean(u)' <=> Clean(u)
  BY Zenon DEF SameHost, Clean
<1>2. Halted(u)' <=> Halted(u)
  BY Zenon DEF SameHost, Halted
<1>3. Idle(u) => Idle(u)'
  BY Zenon DEF SameHost, Idle, FoundNone
<1>4. SameSends(u) /\ NoSends(u) => NoSends(u)'
  BY Zenon DEF SameSends, NoSends
<1>5. SameSends(u) /\ Sent(u) => Sent(u)'
  BY <1>1, <1>4, Zenon DEF SameHost, Sent
<1>6. SameArrived(u) /\ Settled(u) => Settled(u)'
  BY <1>1, Zenon DEF SameHost, SameArrived, Settled
<1> QED
  BY <1>1, <1>2, <1>3, <1>5, <1>6, Zenon

\* A host leaves only when the last snapshot repeats the one before, and then
\* all hosts have joined it: a snapshot in between would have been the repeat.
LEMMA HaltsRepeated ==
  ASSUME DistTypes, Numbered, \A u \in Hosts : Reports(u), NotBefore, NEW h \in Hosts, Halts(h)
  PROVE  Repeated /\ \A g \in Hosts : entered[g] = Rounds
<1>1. entered \in [Hosts -> Nat] /\ maximum \in Seq(Nat) /\ Rounds \in Nat
  BY DEF DistTypes, Rounds
<1>2. /\ host_pc[h] = "receives" /\ snapshot_ended[h] /\ prev_snapshot[h] = global_snapshot[h]
  BY Zenon DEF Halts, Moved
<1>3. host_pc[h] \notin {"first", "firstsync", "construct"} /\ ~Halted(h)
  BY <1>2, ZenonT(60) DEF Halted
<1>4. entered[h] # 0 /\ ~snapshot_request[h]
  BY <1>2, <1>3, Zenon DEF Reports
<1>5. PICK e \in Nat : e = entered[h]
  BY <1>1, Zenon
<1>6. e > 0 /\ (e = Rounds - 1 \/ e = Rounds)
  <2>1. entered[h] \in {Rounds - 1, Rounds}
    BY Zenon DEF Reports
  <2> QED
    BY <1>4, <1>5, <2>1, PositiveCount, Zenon
<1>7. /\ SnapshotComplete(h) /\ global_snapshot[h] = maximum[e]
      /\ prev_snapshot[h] = IF e = 1 THEN 0 ELSE maximum[e - 1]
  BY <1>3, <1>4, <1>5, <1>6, Zenon DEF Reports
<1>8. e # 1 /\ maximum[e] = maximum[e - 1]
  <2>1. e = 1 => maximum[e] = 1
    BY <1>1, <1>6 DEF Numbered
  <2>2. e = 1 => FALSE
    <3>1. 0 # 1
      OBVIOUS
    <3> QED
      BY <1>2, <1>7, <2>1, <3>1, Zenon
  <2> QED
    BY <1>2, <1>7, <2>2, Zenon
<1>9. e = Rounds
  <2>1. CASE e = Rounds - 1
    <3>1. Rounds > 2 /\ e - 1 = Rounds - 2
      BY <1>1, <1>6, <1>8, <2>1
    <3> QED
      BY <1>8, <2>1, <3>1, Zenon DEF NotBefore
  <2> QED
    BY <1>6, <2>1
<1>10. ASSUME NEW g \in Hosts PROVE entered[g] = Rounds
  <2>1. entered[g] >= Rounds /\ entered[g] \in Nat
    BY <1>1, <1>5, <1>7, <1>9, Zenon DEF SnapshotComplete
  <2>2. entered[g] = Rounds - 1 \/ entered[g] = Rounds
    BY Zenon DEF Reports
  <2> QED
    BY <1>1, <2>1, <2>2
<1>11. Repeated
  <2>1. Rounds > 1
    BY <1>1, <1>6, <1>8, <1>9
  <2> QED
    BY <1>8, <1>9, <2>1, Zenon DEF Repeated
<1> QED
  BY <1>10, <1>11, Zenon

\* Steps of a host that stays in its round of snapshots.
LEMMA QuietPlain ==
  ASSUME HandCounted, DistTypes, Numbered, \A u \in Hosts : Reports(u), QuietInv,
         NEW h \in Hosts, Host(h), Plain(h)
  PROVE  Settles' /\ NotBefore' /\ HaltedInv'
<1>1. (\A u \in Hosts : Sent(u) /\ Idle(u)) /\ Settles /\ NotBefore /\ HaltedInv
  BY Zenon DEF QuietInv
<1>2. entered' = entered /\ Rounds' = Rounds /\ (Repeated' <=> Repeated) /\ NotBefore'
  BY <1>1, Zenon DEF Plain, Rounds, Repeated, NotBefore
<1>3. ASSUME NEW u \in Hosts PROVE Clean(u)' => Clean(u)
  BY <1>1, CleanPlain, HostFrame, HostKept, Zenon
<1>4. Settles'
  <2> SUFFICES ASSUME Repeated', \A u \in Hosts : entered'[u] # Rounds' => Clean(u)',
                      NEW g \in Hosts, entered'[g] = Rounds'
               PROVE  Settled(g)'
    BY Zenon DEF Settles
  <2>1. Settled(g)
    BY <1>1, <1>2, <1>3, Zenon DEF Settles
  <2> QED
    BY <1>1, <2>1, SettledPlain, HostFrame, HostKept, Zenon
<1>5. HaltedInv'
  <2> SUFFICES ASSUME NEW g \in Hosts, Halted(g)' PROVE Repeated /\ \A u \in Hosts : entered[u] = Rounds
    BY <1>2, Zenon DEF HaltedInv
  <2>1. CASE Halted(g)
    BY <1>1, <2>1, Zenon DEF HaltedInv
  <2>2. CASE ~Halted(g)
    <3>1. g = h
      BY <2>2, HostFrame, HostKept, Zenon
    <3>2. host_pc'[h] = "halted"
      BY <3>1, Zenon DEF Halted
    <3>3. ~(Outside(h) \/ Searched(h) \/ Applied(h) \/ Synced(h) \/ SawSends(h) \/ Received(h) \/ Tested(h))
      BY <3>2, ZenonT(60) DEF Outside, Searched, Applied, Synced, SawSends, Received, Tested, Moved
    <3>4. Halts(h)
      BY <3>3, Zenon DEF Plain
    <3> QED
      BY <1>1, <3>4, HaltsRepeated, Zenon
  <2> QED
    BY <2>1, <2>2, Zenon
<1> QED
  BY <1>2, <1>4, <1>5, Zenon

\* The first snapshot repeats none.
LEMMA QuietConstructs ==
  ASSUME DistTypes, Numbered, \A u \in Hosts : Reports(u), HaltedInv,
         NEW h \in Hosts, Host(h), Constructs(h)
  PROVE  Settles' /\ NotBefore' /\ HaltedInv'
<1>1. PICK x \in Nat : Enters(h, x) /\ entered[h] = 0
  BY EnterNumber, Zenon
<1>2. PICK k \in Nat :
           /\ k = entered[h] + 1 /\ k > 0 /\ (k = Rounds \/ k = Rounds + 1)
           /\ Rounds' = k /\ Rounds \in Nat /\ entered'[h] = k /\ \A u \in Hosts : u # h => entered'[u] = entered[u]
           /\ \A j \in 1 .. k - 1 : maximum'[j] = maximum[j]
           /\ maximum'[k] = IF k > Rounds THEN x ELSE Max2(maximum[k], x)
  BY <1>1, EnterFacts, Zenon
<1>3. Rounds' = 1 /\ ~(Rounds' > 1) /\ ~(Rounds' > 2) /\ ~(Rounds > 1)
  <2>1. k \in Nat /\ k = 1 /\ Rounds' = k /\ Rounds \in Nat /\ (k = Rounds \/ k = Rounds + 1)
    <3>1. k = entered[h] + 1 /\ entered[h] = 0
      BY <1>1, <1>2, Zenon
    <3>2. k = 1
      BY <3>1
    <3> QED
      BY <1>2, <3>2, Zenon
  <2> QED
    BY <2>1
<1>4. ASSUME NEW g \in Hosts PROVE ~Halted(g)'
  <2>1. CASE g = h
    BY <1>1, <2>1 DEF Enters, Halted
  <2>2. CASE g # h
    BY <1>3, <2>2, HostFrame, HostKept, Zenon DEF HaltedInv, Repeated
  <2> QED
    BY <2>1, <2>2, Zenon
<1> QED
  BY <1>3, <1>4, Zenon DEF Settles, Repeated, NotBefore, HaltedInv

\* A host that takes a snapshot.
LEMMA QuietTakes ==
  ASSUME DistTypes, Numbered, \A u \in Hosts : Reports(u), QuietInv,
         NEW h \in Hosts, Host(h), Takes(h)
  PROVE  Settles' /\ NotBefore' /\ HaltedInv'
<1>1. Idle(h) /\ Settles /\ NotBefore /\ HaltedInv
  BY Zenon DEF QuietInv
<1>2. entered \in [Hosts -> Nat] /\ maximum \in Seq(Nat) /\ Rounds \in Nat
  BY DEF DistTypes, Rounds
<1>3. PICK x \in Nat :
           /\ Enters(h, x) /\ entered[h] > 0 /\ SnapshotComplete(h) /\ global_snapshot[h] = maximum[entered[h]]
           /\ maximum[entered[h]] \in Nat
           /\ x >= maximum[entered[h]] /\ (x = maximum[entered[h]] => ~work_done[h])
           /\ prev_snapshot[h] = IF entered[h] = 1 THEN 0 ELSE maximum[entered[h] - 1]
  BY EnterNumber, Zenon
<1>4. PICK k \in Nat :
           /\ k = entered[h] + 1 /\ k > 0 /\ (k = Rounds \/ k = Rounds + 1)
           /\ Rounds' = k /\ Rounds \in Nat /\ entered'[h] = k /\ \A u \in Hosts : u # h => entered'[u] = entered[u]
           /\ \A j \in 1 .. k - 1 : maximum'[j] = maximum[j]
           /\ maximum'[k] = IF k > Rounds THEN x ELSE Max2(maximum[k], x)
  BY <1>3, EnterFacts, Zenon
<1>n. k \in Nat /\ k = entered[h] + 1 /\ k > 0 /\ entered[h] \in Nat /\ entered[h] > 0 /\ Rounds \in Nat
  BY <1>2, <1>3, <1>4, Zenon
<1>5. /\ host_pc[h] = "receives" /\ ~anyReceivedMessages[h] /\ ~InflightRecvs(h)
      /\ work_done[h] \/ prev_snapshot[h] # global_snapshot[h]
      /\ ~work_done'[h] /\ ~anyReceivedMessages'[h]
      /\ host_pc'[h] = "round" /\ work'[h] = work[h] /\ arrived' = arrived
  BY <1>3, Zenon DEF Takes, Enters, Watches
<1>6. Settled(h)'
  <2>1. ~work[h]
    <3>1. FoundNone(h)
      BY <1>5, ZenonT(60) DEF FoundNone
    <3> QED
      BY <1>1, <1>5, <3>1, Zenon DEF Idle
  <2>2. \A s \in Hosts : arrived[s][h] = 0
    BY <1>5, NothingInflight, Zenon
  <2>3. Clean(h)'
    BY <1>5, ZenonT(60) DEF Clean
  <2> QED
    BY <1>5, <2>1, <2>2, <2>3, Zenon DEF Settled
<1>7. ~work_done[h] => Clean(h)
  BY <1>5, ZenonT(60) DEF Clean
<1>8. ASSUME NEW u \in Hosts, u # h
      PROVE  /\ entered'[u] = entered[u] /\ (Clean(u)' <=> Clean(u)) /\ (Halted(u)' <=> Halted(u))
             /\ Settled(u) => Settled(u)'
  BY <1>4, <1>8, HostFrame, HostKept, Zenon
<1>9. ~Halted(h)'
  BY <1>5 DEF Halted
<1>10. CASE k = Rounds + 1
  <2>1. entered[h] = Rounds /\ Rounds > 0
    BY <1>10, <1>n
  <2>2. ASSUME NEW u \in Hosts PROVE entered[u] = Rounds
    <3>1. entered[u] >= Rounds /\ entered[u] \in Nat
      BY <1>2, <1>3, <2>1, Zenon DEF SnapshotComplete
    <3>2. entered[u] = Rounds - 1 \/ entered[u] = Rounds
      BY Zenon DEF Reports
    <3> QED
      BY <1>2, <3>1, <3>2
  <2>3. ~Repeated
    <3> SUFFICES ASSUME Repeated PROVE FALSE
      BY Zenon
    <3>1. Settled(h)
      BY <1>1, <2>2, Zenon DEF Settles
    <3>2. ~work_done[h]
      BY <3>1, Zenon DEF Settled, Clean
    <3>3. Rounds # 1 /\ maximum[Rounds] = maximum[Rounds - 1]
      BY <1>2 DEF Repeated
    <3> QED
      BY <1>3, <1>5, <2>1, <3>2, <3>3, Zenon
  <2>4. NotBefore'
    <3> SUFFICES ASSUME k > 2 PROVE maximum'[k - 1] # maximum'[k - 2]
      BY <1>4, Zenon DEF NotBefore
    <3>1. /\ k - 1 \in 1 .. k - 1 /\ k - 2 \in 1 .. k - 1 /\ k - 1 = Rounds /\ k - 2 = Rounds - 1 /\ Rounds > 1
      BY <1>2, <1>10
    <3>2. maximum'[k - 1] = maximum[k - 1] /\ maximum'[k - 2] = maximum[k - 2]
      BY <1>4, <3>1, Zenon
    <3> QED
      BY <2>3, <3>1, <3>2, Zenon DEF Repeated
  <2>5. HaltedInv'
    <3>1. ASSUME NEW g \in Hosts PROVE ~Halted(g)'
      BY <1>1, <1>8, <1>9, <2>3, Zenon DEF HaltedInv
    <3> QED
      BY <3>1, Zenon DEF HaltedInv
  <2>6. Settles'
    <3>1. ASSUME NEW g \in Hosts, entered'[g] = Rounds' PROVE g = h
      <4>1. g # h => entered'[g] = Rounds
        BY <1>8, <2>2, Zenon
      <4> QED
        BY <1>2, <1>4, <1>10, <3>1, <4>1
    <3> QED
      BY <1>6, <3>1, Zenon DEF Settles
  <2> QED
    BY <2>4, <2>5, <2>6, Zenon
<1>11. CASE k = Rounds
  <2>1. entered[h] = Rounds - 1 /\ entered[h] # Rounds /\ Rounds > 1
    BY <1>11, <1>n
  <2>2. NotBefore'
    <3> SUFFICES ASSUME k > 2 PROVE maximum'[k - 1] # maximum'[k - 2]
      BY <1>4, Zenon DEF NotBefore
    <3>1. k - 1 \in 1 .. k - 1 /\ k - 2 \in 1 .. k - 1
      BY <1>n
    <3>2. maximum'[k - 1] = maximum[k - 1] /\ maximum'[k - 2] = maximum[k - 2]
      BY <1>4, <3>1, Zenon
    <3> QED
      BY <1>1, <1>11, <3>2, Zenon DEF NotBefore
  <2>3. HaltedInv'
    <3>1. ASSUME NEW g \in Hosts PROVE ~Halted(g)'
      BY <1>1, <1>8, <1>9, <2>1, Zenon DEF HaltedInv
    <3> QED
      BY <3>1, Zenon DEF HaltedInv
  <2>4. Repeated' => Repeated /\ ~work_done[h]
    <3> SUFFICES ASSUME Repeated' PROVE Repeated /\ ~work_done[h]
      BY Zenon
    <3>1. k - 1 \in 1 .. k - 1 /\ k - 1 = entered[h] /\ ~(k > Rounds)
      BY <1>2, <1>4, <1>11, <2>1
    <3>2. maximum'[k] = maximum'[k - 1] /\ maximum'[k - 1] = maximum[k - 1] /\ maximum'[k] = Max2(maximum[k], x)
      BY <1>4, <3>1, Zenon DEF Repeated
    <3>3. maximum[k] \in Nat /\ maximum[k - 1] \in Nat /\ x >= maximum[k - 1] /\ maximum[k - 1] <= maximum[k]
      <4>1. maximum[k] \in Nat
        BY <1>2, <1>4, <1>11 DEF Rounds
      <4>2. maximum[k - 1] \in Nat /\ x >= maximum[k - 1]
        BY <1>3, <3>1, Zenon
      <4>3. maximum[k - 1] <= maximum[k]
        BY <1>11, <2>1, Zenon DEF Numbered
      <4> QED
        BY <4>1, <4>2, <4>3, Zenon
    <3>4. PICK a \in Nat, b \in Nat : a = maximum[k] /\ b = maximum[k - 1]
      BY <3>3, Zenon
    <3>5. Max2(a, x) = b /\ x >= b /\ b <= a
      BY <3>2, <3>3, <3>4, Zenon
    <3>6. x = b /\ a = b
      BY <3>5 DEF Max2
    <3> QED
      BY <1>3, <1>11, <2>1, <3>1, <3>4, <3>6, Zenon DEF Repeated
  <2>5. Settles'
    <3> SUFFICES ASSUME Repeated', \A u \in Hosts : entered'[u] # Rounds' => Clean(u)',
                        NEW g \in Hosts, entered'[g] = Rounds'
                 PROVE  Settled(g)'
      BY Zenon DEF Settles
    <3>1. ASSUME NEW u \in Hosts, entered[u] # Rounds PROVE Clean(u)
      BY <1>4, <1>7, <1>8, <1>11, <2>4, <3>1, Zenon
    <3>2. g # h => Settled(g)
      BY <1>1, <1>4, <1>8, <1>11, <2>4, <3>1, Zenon DEF Settles
    <3> QED
      BY <1>6, <1>8, <3>2, Zenon
  <2> QED
    BY <2>2, <2>3, <2>5, Zenon
<1> QED
  BY <1>4, <1>10, <1>11, Zenon

\* The steps of the network: it has nothing of a clean host.
LEMMA QuietNetwork ==
  ASSUME DistTypes, QuietInv, NEW h \in Hosts, Network(h)
  PROVE  QuietInv'
<1>1. (\A u \in Hosts : Sent(u) /\ Idle(u)) /\ Settles /\ NotBefore /\ HaltedInv
  BY Zenon DEF QuietInv
<1>2. entered' = entered /\ maximum' = maximum
  BY NetworkFrame, Zenon DEF collectives
<1>3. Rounds' = Rounds /\ (Repeated' <=> Repeated) /\ NotBefore'
  BY <1>1, <1>2, Zenon DEF Rounds, Repeated, NotBefore
<1>4. \A u \in Hosts : /\ SameHost(u) /\ (Clean(u)' <=> Clean(u)) /\ (Halted(u)' <=> Halted(u)) /\ Idle(u)'
                       /\ u # h => Sent(u)'
  BY <1>1, NetworkFrame, HostKept, Zenon
<1>5. ~NoSends(h)
  <2>1. ~(0 > 0)
    OBVIOUS
  <2> QED
    BY <2>1, Zenon DEF Network, CompleteSend, Assemble, Enqueue, Match, NoSends
<1>6. ~Clean(h) /\ Sent(h)'
  BY <1>1, <1>4, <1>5, Zenon DEF Sent, SameHost
<1>7. HaltedInv'
  BY <1>1, <1>2, <1>3, <1>4, Zenon DEF HaltedInv
<1>8. Settles'
  <2> SUFFICES ASSUME Repeated', \A u \in Hosts : entered'[u] # Rounds' => Clean(u)'
               PROVE  FALSE
    BY Zenon DEF Settles
  <2>1. CASE entered[h] = Rounds
    BY <1>1, <1>2, <1>3, <1>4, <1>6, <2>1, Zenon DEF Settles, Settled
  <2>2. CASE entered[h] # Rounds
    BY <1>2, <1>3, <1>4, <1>6, <2>2, Zenon
  <2> QED
    BY <2>1, <2>2, Zenon
<1> QED
  BY <1>3, <1>4, <1>6, <1>7, <1>8, Zenon DEF QuietInv

--------------------------------------------------------------------------------
\* Initially no snapshot is taken and no message sent.
LEMMA DistInitInv == DistInit => DistInv
<1> SUFFICES ASSUME DistInit PROVE DistInv
  OBVIOUS
<1>1. /\ firstItr \in BOOLEAN /\ updates = 0 /\ maximum = <<>>
      /\ host_pc = [h \in Hosts |-> IF firstItr THEN "first" ELSE "construct"]
      /\ work = [h \in Hosts |-> h \in Sources] /\ local_mdata = [h \in Hosts |-> FALSE]
      /\ prev_snapshot = [h \in Hosts |-> 0] /\ snapshot = [h \in Hosts |-> 1] /\ global_snapshot = [h \in Hosts |-> 1]
      /\ work_done = [h \in Hosts |-> FALSE] /\ snapshot_ended = [h \in Hosts |-> FALSE]
      /\ snapshot_request = [h \in Hosts |-> FALSE] /\ entered = [h \in Hosts |-> 0]
      /\ queued = [h \in Hosts |-> [d \in Hosts |-> 0]] /\ hand = [h \in Hosts |-> [d \in Hosts |-> 0]]
      /\ wire = [h \in Hosts |-> [d \in Hosts |-> 0]] /\ arrived = [h \in Hosts |-> [d \in Hosts |-> 0]]
      /\ unreported = [h \in Hosts |-> 0] /\ anyReceivedMessages = [h \in Hosts |-> FALSE]
  BY DistAssumption, Zenon DEF DistInit, PerHost
<1>2. DistTypes
  <2>1. /\ updates \in 0 .. MaxUpdates /\ maximum \in Seq(Nat) /\ 0 \in Nat /\ 1 \in Nat
    BY <1>1, DistAssumption
  <2>2. host_pc \in [Hosts -> Places]
    BY <1>1 DEF Places
  <2>3. queued \in Matrix /\ hand \in Matrix /\ wire \in Matrix /\ arrived \in Matrix
    BY <1>1, <2>1, Zenon DEF Matrix
  <2>4. /\ prev_snapshot \in [Hosts -> Nat] /\ snapshot \in [Hosts -> Nat]
        /\ global_snapshot \in [Hosts -> Nat] /\ entered \in [Hosts -> Nat] /\ unreported \in [Hosts -> Nat]
    BY <1>1
  <2>5. /\ work \in [Hosts -> BOOLEAN] /\ local_mdata \in [Hosts -> BOOLEAN]
        /\ work_done \in [Hosts -> BOOLEAN] /\ snapshot_ended \in [Hosts -> BOOLEAN]
        /\ snapshot_request \in [Hosts -> BOOLEAN] /\ anyReceivedMessages \in [Hosts -> BOOLEAN]
    BY <1>1
  <2> QED
    BY <1>1, <2>1, <2>2, <2>3, <2>4, <2>5, Zenon DEF DistTypes
<1>3. Bounded
  BY <1>1 DEF Bounded
<1>4. Rounds = 0
  BY <1>1 DEF Rounds
<1>5. Numbered /\ ~Repeated /\ NotBefore
  BY <1>4 DEF Numbered, Repeated, NotBefore
<1>6. ASSUME NEW h \in Hosts PROVE Reports(h)
  <2>1. /\ entered[h] = 0 /\ host_pc[h] \in {"first", "construct"} /\ ~(entered[h] > 0)
        /\ snapshot[h] = 1 /\ prev_snapshot[h] = 0 /\ global_snapshot[h] = 1
    BY <1>1
  <2>2. 0 \in {0 - 1, 0}
    OBVIOUS
  <2>3. host_pc[h] \in {"first", "firstsync", "construct"} /\ host_pc[h] # "receives"
    BY <2>1
  <2> QED
    BY <1>4, <2>1, <2>2, <2>3, Zenon DEF Reports
<1>7. ASSUME ~firstItr PROVE QuietInv
  <2>1. ASSUME NEW h \in Hosts PROVE Sent(h) /\ Idle(h) /\ ~Halted(h)
    <3>1. host_pc[h] = "construct"
      BY <1>1, <1>7, Zenon
    <3>2. NoSends(h)
      BY <1>1, Zenon DEF NoSends
    <3> QED
      BY <3>1, <3>2 DEF Sent, Idle, FoundNone, Halted
  <2> QED
    BY <1>5, <2>1, Zenon DEF QuietInv, Settles, HaltedInv
<1> QED
  BY <1>2, <1>3, <1>5, <1>6, <1>7, TypesBounded, Zenon DEF DistInv, CountsInv

(***************************************************************************)
(* Every step keeps the types, the bound on messages and what the hosts    *)
(* know of the snapshots, whatever the program and the network count.      *)
(***************************************************************************)
LEMMA CountsNext == CountsInv /\ [DistNext]_distVars => CountsInv'
<1> SUFFICES ASSUME CountsInv, [DistNext]_distVars PROVE CountsInv'
  OBVIOUS
<1>1. DistTypes /\ Bounded /\ Numbered /\ \A u \in Hosts : Reports(u)
  BY TypesOf, Zenon DEF CountsInv
<1>0. DistTypes' /\ Bounded' => DistTypeOK'
  BY TypesBounded, PTL
<1>2. ASSUME NEW h \in Hosts, Host(h) PROVE CountsInv'
  <2>1. DistTypes' /\ Bounded'
    BY <1>1, <1>2, HostTypes, HostMatrices, Zenon
  <2>2. CASE Plain(h)
    <3>1. Numbered'
      BY <1>1, <2>2, Zenon DEF Numbered, Plain, Rounds
    <3>2. ASSUME NEW u \in Hosts, u # h PROVE Reports(u)'
      <4>1. SameHost(u) /\ Reports(u) /\ entered' = entered /\ maximum' = maximum
        BY <1>1, <1>2, <2>2, <3>2, HostFrame, Zenon DEF Plain
      <4> QED
        BY <4>1, Zenon DEF Reports, SameHost, Rounds, Halted, SnapshotComplete
    <3> QED
      BY <1>1, <2>1, <2>2, <3>1, <3>2, ReportsPlain, <1>0, Zenon DEF CountsInv
  <2>3. CASE Constructs(h) \/ Takes(h)
    BY <1>1, <1>2, <2>1, <2>3, ReportsEnter, <1>0, Zenon DEF CountsInv
  <2> QED
    BY <1>1, <1>2, <2>2, <2>3, HostSteps, Zenon
<1>3. ASSUME NEW h \in Hosts, Network(h) PROVE CountsInv'
  <2>1. UNCHANGED <<app, detector, collectives>> /\ \A u \in Hosts : SameHost(u)
    BY <1>1, <1>3, NetworkFrame, Zenon
  <2>2. /\ queued' \in Matrix /\ hand' \in Matrix /\ wire' \in Matrix /\ arrived' \in Matrix
        /\ unreported' \in [Hosts -> Nat] /\ Bounded'
    BY <1>1, <1>3, NetworkMatrices, Zenon
  <2>3. anyReceivedMessages' = anyReceivedMessages
    BY <1>3, Zenon DEF Network, CompleteSend, Assemble, Enqueue, Match
  <2>4. DistTypes'
    BY <1>1, <2>1, <2>2, <2>3, Zenon DEF DistTypes, app, detector, collectives
  <2>5. Numbered'
    BY <1>1, <2>1, Zenon DEF Numbered, Rounds, collectives
  <2>6. ASSUME NEW u \in Hosts PROVE Reports(u)'
    BY <1>1, <2>1, Zenon DEF Reports, Rounds, Halted, SnapshotComplete, app, detector, collectives
  <2> QED
    BY <2>2, <2>4, <2>5, <2>6, <1>0, Zenon DEF CountsInv
<1>4. CASE UNCHANGED distVars
  BY <1>4, Zenon DEF distVars, app, detector, collectives, network, CountsInv, DistTypeOK, Bounded, Numbered,
     Reports, Rounds, Halted, SnapshotComplete
<1> QED
  BY <1>2, <1>3, <1>4, Zenon DEF DistNext

(***************************************************************************)
(* Every step keeps the whole invariant, when the message in hand is       *)
(* counted.                                                                *)
(***************************************************************************)
LEMMA DistNextInv == ASSUME HandCounted PROVE DistInv /\ [DistNext]_distVars => DistInv'
<1> SUFFICES ASSUME DistInv, [DistNext]_distVars PROVE DistInv'
  OBVIOUS
<1>1. DistTypes /\ Numbered /\ (\A u \in Hosts : Reports(u)) /\ CountsInv' /\ (~firstItr => QuietInv)
  BY CountsNext, TypesOf, Zenon DEF DistInv, CountsInv
<1>2. ASSUME NEW h \in Hosts, Host(h), ~firstItr PROVE QuietInv'
  <2>1. QuietInv /\ \A u \in Hosts : Sent(u) /\ Idle(u)
    BY <1>1, <1>2, Zenon DEF QuietInv
  <2>2. ASSUME NEW u \in Hosts PROVE Sent(u)' /\ Idle(u)'
    BY <1>1, <1>2, <2>1, SentHost, IdleHost, HostFrame, HostKept, Zenon
  <2>3. Settles' /\ NotBefore' /\ HaltedInv'
    BY <1>1, <1>2, <2>1, HostSteps, QuietPlain, QuietConstructs, QuietTakes, Zenon DEF QuietInv
  <2> QED
    BY <2>2, <2>3, Zenon DEF QuietInv
<1>3. ASSUME NEW h \in Hosts, Network(h), ~firstItr PROVE QuietInv'
  BY <1>1, <1>3, QuietNetwork, Zenon
<1>4. ASSUME UNCHANGED distVars, ~firstItr PROVE QuietInv'
  <2>1. QuietInv
    BY <1>1, <1>4, Zenon
  <2>2. \A u \in Hosts : /\ SameHost(u) /\ SameSends(u) /\ SameArrived(u)
    BY <1>4, Zenon DEF distVars, app, detector, collectives, network, SameHost, SameSends, SameArrived
  <2>3. entered' = entered /\ maximum' = maximum
    BY <1>4, Zenon DEF distVars, collectives
  <2>4. Rounds' = Rounds /\ (Repeated' <=> Repeated) /\ (NotBefore => NotBefore')
    BY <2>3, Zenon DEF Rounds, Repeated, NotBefore
  <2>5. ASSUME NEW u \in Hosts
        PROVE  /\ Clean(u)' <=> Clean(u)
               /\ Halted(u)' <=> Halted(u)
               /\ Sent(u) => Sent(u)'
               /\ Idle(u) => Idle(u)'
               /\ Settled(u) => Settled(u)'
    BY <2>2, HostKept, Zenon
  <2>6. HaltedInv => HaltedInv'
    BY <2>3, <2>4, <2>5, Zenon DEF HaltedInv
  <2>7. Settles => Settles'
    BY <2>3, <2>4, <2>5, Zenon DEF Settles
  <2> QED
    BY <2>1, <2>4, <2>5, <2>6, <2>7, Zenon DEF QuietInv
<1>5. firstItr' = firstItr
  <2>1. \A h \in Hosts : Network(h) => firstItr' = firstItr
    BY <1>1, NetworkFrame, Zenon DEF app
  <2> QED
    BY <2>1, HostSends, Zenon DEF DistNext, distVars, app
<1> QED
  BY <1>1, <1>2, <1>3, <1>4, <1>5, Zenon DEF DistInv, DistNext

\* What the invariant says of the hosts that have left: they took the same
\* snapshot, all hosts took it, and all are settled and have sent nothing.
LEMMA DistSafe == DistInv => HaltsOnlyWhenQuiet /\ HaltTogether
<1> SUFFICES ASSUME DistInv PROVE HaltsOnlyWhenQuiet /\ HaltTogether
  OBVIOUS
<1>1. DistTypeOK /\ DistTypes /\ (\A u \in Hosts : Reports(u)) /\ (~firstItr => QuietInv)
  BY TypesOf, Zenon DEF DistInv, CountsInv
<1>2. ASSUME ~firstItr, NEW h \in Hosts, Halted(h)
      PROVE  AllQuiet /\ \A g \in Hosts : entered[g] = entered[h]
  <2>1. (\A u \in Hosts : Sent(u)) /\ Settles /\ HaltedInv
    BY <1>1, <1>2, Zenon DEF QuietInv
  <2>2. Repeated /\ \A g \in Hosts : entered[g] = Rounds
    BY <1>2, <2>1, Zenon DEF HaltedInv
  <2>3. \A g \in Hosts : Settled(g) /\ NoSends(g)
    BY <2>1, <2>2, Zenon DEF Settles, Settled, Sent
  <2>4. ASSUME NEW g \in Hosts, NEW d \in Hosts
        PROVE  ~work[g] /\ queued[g][d] + hand[g][d] + wire[g][d] + arrived[g][d] = 0
    <3>1. ~work[g] /\ queued[g][d] = 0 /\ hand[g][d] = 0 /\ wire[g][d] = 0 /\ arrived[g][d] = 0
      BY <2>3, Zenon DEF Settled, NoSends
    <3> QED
      BY <3>1
  <2> QED
    BY <2>2, <2>4, Zenon DEF AllQuiet
<1>3. ASSUME NEW u \in Hosts PROVE entered[u] \in Nat /\ (entered[u] = Rounds - 1 \/ entered[u] = Rounds) /\ Rounds \in Nat
  BY <1>1, SMTT(60) DEF DistTypes, Reports, Rounds
<1>4. InStep
  BY <1>3 DEF InStep
<1>5. ~firstItr => SameSnapshot
  <2>1. \A u \in Hosts : entered[u] <= entered[u]
    BY <1>3
  <2> QED
    BY <1>2, <2>1, Zenon DEF SameSnapshot
<1> QED
  BY <1>1, <1>2, <1>4, <1>5, Zenon DEF HaltsOnlyWhenQuiet, HaltTogether

(***************************************************************************)
(* For every set of hosts and every number of updates: a host leaves the   *)
(* loop only when no host has work and no message is anywhere between two  *)
(* hosts. For programs that do all their work under the detector, on a     *)
(* network that counts the message in the hand of its sending thread among *)
(* the pending ones, as anyPendingSends does.                              *)
(***************************************************************************)
THEOREM DistQuiet == ASSUME HandCounted PROVE DistSpec => []HaltsOnlyWhenQuiet
  BY DistInitInv, DistNextInv, DistSafe, PTL DEF DistSpec

(***************************************************************************)
(* Hosts are never more than one reduction apart, and under the same       *)
(* conditions all leave after the same snapshot: none enters a further     *)
(* allreduce, which the others would never join.                           *)
(***************************************************************************)
THEOREM DistTogether == ASSUME HandCounted PROVE DistSpec => []HaltTogether
  BY DistInitInv, DistNextInv, DistSafe, PTL DEF DistSpec

================================================================================
