---------------------------- MODULE LocalTermination ---------------------------
(***************************************************************************)
(* LocalTerminationDetection of libgalois/include/galois/substrate/        *)
(* Termination.h, the detector of for_each: a token goes round the ring of *)
(* threads, is tainted by threads that worked since its last visit, and    *)
(* two white rounds in a row mean termination.                             *)
(***************************************************************************)
EXTENDS ForEachLoop

VARIABLES tokenIsBlack, hasToken, processIsBlack,   \* TokenHolder of each thread
          lastWasWhite,                             \* used by thread 0 only
          globalTerm,
          taint                                     \* propToken's argument

ringVars == <<tokenIsBlack, hasToken, processIsBlack, lastWasWhite, globalTerm, taint>>

vars == <<loopVars, ringVars>>

Labels == {"init", "barrier", "run", "work", "aborts", "rework",
           "term", "token", "color", "pass", "decide", "done"}

TypeOK ==
  /\ LoopTypeOK
  /\ pc \in [Threads -> Labels]
  /\ tokenIsBlack \in [Threads -> BOOLEAN]
  /\ hasToken \in [Threads -> BOOLEAN]
  /\ processIsBlack \in [Threads -> BOOLEAN]
  /\ lastWasWhite \in BOOLEAN
  /\ globalTerm \in BOOLEAN
  /\ taint \in [Threads -> BOOLEAN]

\* The holders keep what an earlier user of the detector left in them.
Init ==
  /\ LoopInit
  /\ tokenIsBlack \in [Threads -> BOOLEAN]
  /\ hasToken \in [Threads -> BOOLEAN]
  /\ processIsBlack \in [Threads -> BOOLEAN]
  /\ lastWasWhite \in BOOLEAN
  /\ globalTerm \in BOOLEAN
  /\ taint = [t \in Threads |-> FALSE]

InitialColor == TRUE

\* initThread: push_initial and initializeThread
InitializeThread(t) ==
  /\ InitThread(t)
  /\ tokenIsBlack' = [tokenIsBlack EXCEPT ![t] = FALSE]
  /\ processIsBlack' = [processIsBlack EXCEPT ![t] = InitialColor]
  /\ lastWasWhite' = IF t = 0 THEN TRUE ELSE lastWasWhite
  /\ globalTerm' = FALSE
  /\ hasToken' = [hasToken EXCEPT ![t] = (t = 0)]
  /\ UNCHANGED taint

Blackened_Overwritten(t) == didWork[t]

\* th.processIsBlack |= workHappened
Blackened(t) == processIsBlack[t] \/ didWork[t]

\* localTermination: report work and look for the token
LocalTermination(t) ==
  /\ Goto(t, "term", IF hasToken[t] THEN "token" ELSE "decide")
  /\ processIsBlack' = [processIsBlack EXCEPT ![t] = Blackened(t)]
  /\ didWork' = [didWork EXCEPT ![t] = FALSE]
  /\ UNCHANGED <<couldAbort, queue, aborted, created>>
  /\ UNCHANGED <<tokenIsBlack, hasToken, lastWasWhite, globalTerm, taint>>

Failed(t) == tokenIsBlack[t] \/ processIsBlack[t]

SecondSuccess(t) == lastWasWhite /\ ~Failed(t)

\* the master sees the second white round: propGlobalTerm
Announce(t) ==
  /\ t = 0
  /\ SecondSuccess(t)
  /\ Goto(t, "token", "decide")
  /\ globalTerm' = TRUE
  /\ tokenIsBlack' = [tokenIsBlack EXCEPT ![t] = FALSE]
  /\ processIsBlack' = [processIsBlack EXCEPT ![t] = FALSE]
  /\ UNCHANGED <<couldAbort, queue, aborted, didWork, created>>
  /\ UNCHANGED <<hasToken, lastWasWhite, taint>>

Taint_TokenOnly(t) == t # 0 /\ tokenIsBlack[t]

\* the master starts every round with a white token
Taint(t) == t # 0 /\ Failed(t)

\* normal thread, or recirculation by the master
TakeToken(t) ==
  /\ ~(t = 0 /\ SecondSuccess(t))
  /\ Goto(t, "token", "color")
  /\ lastWasWhite' = IF t = 0 THEN ~Failed(t) ELSE lastWasWhite
  /\ taint' = [taint EXCEPT ![t] = Taint(t)]
  /\ tokenIsBlack' = [tokenIsBlack EXCEPT ![t] = FALSE]
  /\ processIsBlack' = [processIsBlack EXCEPT ![t] = FALSE]
  /\ hasToken' = [hasToken EXCEPT ![t] = FALSE]
  /\ UNCHANGED <<couldAbort, queue, aborted, didWork, created, globalTerm>>

Right(t) == (t + 1) % N

\* propToken: th.tokenIsBlack = isBlack
ColorToken(t) ==
  /\ Goto(t, "color", "pass")
  /\ tokenIsBlack' = [tokenIsBlack EXCEPT ![Right(t)] = taint[t]]
  /\ UNCHANGED <<couldAbort, queue, aborted, didWork, created>>
  /\ UNCHANGED <<hasToken, processIsBlack, lastWasWhite, globalTerm, taint>>

PassedTo_Nobody(t) == hasToken

\* propToken: th.hasToken = true
PassedTo(t) == [hasToken EXCEPT ![Right(t)] = TRUE]

PassToken(t) ==
  /\ Goto(t, "pass", "decide")
  /\ hasToken' = PassedTo(t)
  /\ UNCHANGED <<couldAbort, queue, aborted, didWork, created>>
  /\ UNCHANGED <<tokenIsBlack, processIsBlack, lastWasWhite, globalTerm, taint>>

Thread(t) ==
  \/ InitializeThread(t)
  \/ RunQueues(t) /\ UNCHANGED ringVars
  \/ LocalTermination(t)
  \/ Announce(t)
  \/ TakeToken(t)
  \/ ColorToken(t)
  \/ PassToken(t)
  \/ Decide(t, globalTerm) /\ UNCHANGED ringVars

Next ==
  \/ \E t \in Threads : Thread(t)
  \/ NewLoop /\ UNCHANGED ringVars

Spec == Init /\ [][Next]_vars

--------------------------------------------------------------------------------
Announced == Initialized /\ globalTerm

Abstract == INSTANCE TerminationSpec WITH quiet <- Quiet, announced <- Announced

(***************************************************************************)
(* The ring implements the abstract detector: globalTerm is set only when  *)
(* every queue is empty and nobody executes an iteration, for loops with   *)
(* and without conflict detection, and also when the detector is reused.   *)
(***************************************************************************)
Refinement == Abstract!Spec

(***************************************************************************)
(* The two assertions of localTermination: no work is reported once        *)
(* globalTerm is set, and no token is under way then.                      *)
(***************************************************************************)
CodeAssertions ==
  \A t \in Threads : globalTerm /\ Initialized =>
    /\ pc[t] = "term" => ~didWork[t]
    /\ pc[t] \in {"token", "color", "pass"} => FALSE

(***************************************************************************)
(* Once there is no work left the ring reports it.                         *)
(***************************************************************************)
Detection == Abstract!Detection

--------------------------------------------------------------------------------
(***************************************************************************)
(* The inductive argument. A thread is dirty when its next visit by the    *)
(* token will taint it.                                                    *)
(***************************************************************************)
Dirty(t) == processIsBlack[t] \/ didWork[t]

\* Labels at which t has looked into its queues since the last visit.
LookedAtQueue == {"aborts", "rework", "term", "token"}
LookedAtAborted == {"term", "token"}

Passing == {"color", "pass"}

\* The token is at k, or on its way there.
TokenAt(k) == hasToken[k] \/ \E t \in Threads : pc[t] \in Passing /\ Right(t) = k

TokenIsWhite(k) ==
  /\ hasToken[k] => ~tokenIsBlack[k]
  /\ \A t \in Threads : pc[t] \in Passing => ~taint[t]

\* A round ends with thread 0.
Visited(k) == IF k = 0 THEN 1 .. N - 1 ELSE 1 .. k - 1

\* t will find what is left for it before it sees the token again, and
\* nobody can take it away.
WillNotice(t) ==
  /\ queue[t] = 0
  /\ pc[t] \in LookedAtAborted => aborted[t] = 0

Empty(t) == queue[t] = 0 /\ aborted[t] = 0

OneToken ==
  /\ \A t, u \in Threads :
       (hasToken[t] \/ pc[t] \in Passing) /\ (hasToken[u] \/ pc[u] \in Passing) => t = u
  /\ \E t \in Threads : hasToken[t] \/ pc[t] \in Passing
  /\ \A t \in Threads : ~(hasToken[t] /\ pc[t] \in Passing)
  /\ \A t \in Threads : pc[t] = "token" => hasToken[t]
  /\ \A t \in Threads : pc[t] = "pass" => tokenIsBlack[Right(t)] = taint[t]

ThreadInv ==
  \A t \in Threads :
    /\ Working(t) => didWork[t]
    /\ pc[t] \in {"token", "color", "pass", "decide", "done", "init", "barrier"} => ~didWork[t]
    /\ pc[t] \in LookedAtQueue /\ ~Dirty(t) => queue[t] = 0
    /\ ~couldAbort => aborted[t] = 0 /\ pc[t] \notin {"aborts", "rework"}

FirstRound ==
  \A k \in Threads : TokenAt(k) /\ TokenIsWhite(k) /\ ~lastWasWhite =>
    \/ \E w \in Threads : Dirty(w)
    \/ \A t \in Visited(k) : WillNotice(t)

SecondRound ==
  \A k \in Threads : TokenAt(k) /\ TokenIsWhite(k) /\ lastWasWhite =>
    \/ \E w \in Threads \ Visited(k) : Dirty(w)
    \/ /\ \A w \in Threads : ~Dirty(w)
       /\ \A t \in Threads : WillNotice(t)
       /\ \A t \in Visited(k) : Empty(t)

Finished ==
  /\ \A t \in Threads : pc[t] = "done" => globalTerm
  /\ globalTerm =>
       /\ NoWork
       /\ hasToken[0]
       /\ pc[0] \in {"decide", "done"}
       /\ \A t \in Threads : ~Dirty(t)

\* Before the barrier; what initializeThread leaves for the loop.
InitPhase ==
  (\A u \in Threads : pc[u] \in {"init", "barrier"}) =>
    \A u \in Threads : pc[u] = "barrier" =>
      /\ hasToken[u] = (u = 0)
      /\ processIsBlack[u]
      /\ ~tokenIsBlack[u]
      /\ u = 0 => lastWasWhite
      /\ ~globalTerm

Together ==
  \A t \in Threads : pc[t] = "init" => \A u \in Threads : pc[u] \in {"init", "barrier"}

(***************************************************************************)
(* The inductive invariant of the ring: one token; in the first white      *)
(* round the visited threads have nothing that can be stolen, in the       *)
(* second they have nothing at all, unless a dirty thread is still ahead   *)
(* of the token; and after the announcement nothing is left.               *)
(***************************************************************************)
RingInv ==
  /\ Together
  /\ InitPhase
  /\ ThreadInv
  /\ Initialized => OneToken /\ FirstRound /\ SecondRound /\ Finished

(***************************************************************************)
(* The ring goes round as intended: RingInv, and the assertions of         *)
(* localTermination, that no work is reported and no token is under way    *)
(* once globalTerm is set.                                                 *)
(***************************************************************************)
RingSafe == RingInv /\ CodeAssertions

================================================================================
