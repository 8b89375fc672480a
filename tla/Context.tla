-------------------------------- MODULE Context --------------------------------
(***************************************************************************)
(* Conflict detection: SimpleRuntimeContext and LockManagerBase of         *)
(* libgalois/src/Context.cpp over the PtrLock in every Lockable. A Lockable*)
(* has one word, the owner pointer with the lock in its low bit, and a link*)
(* of the list of objects its owner holds. An iteration acquires any       *)
(* objects in any order, some of them again, and may abort itself.         *)
(***************************************************************************)
EXTENDS Naturals

CONSTANTS Contexts,   \* of the threads
          Objects, Nil

ASSUME ContextAssumption == Nil \notin Contexts \cup Objects

VARIABLES stage,     \* where each thread is in acquire() or commitIteration()
          target,    \* the lockable it is about
          outcome,   \* how its iteration ends
          lockBit,   \* low bit of Lockable::owner
          owner,     \* the rest of Lockable::owner, the thread of the context
          next,      \* Lockable::next
          locks      \* SimpleRuntimeContext::locks

contextVars == <<stage, target, outcome, lockBit, owner, next, locks>>

Outcomes == {"none", "commit", "conflict", "abort"}

ContextTypeOK ==
  /\ stage \in [Contexts -> {"out", "run", "fetchOr", "setOwner", "checkOwner", "unlink", "release"}]
  /\ target \in [Contexts -> Objects \cup {Nil}]
  /\ outcome \in [Contexts -> Outcomes]
  /\ lockBit \in [Objects -> BOOLEAN]
  /\ owner \in [Objects -> Contexts \cup {Nil}]
  /\ next \in [Objects -> Objects \cup {Nil}]
  /\ locks \in [Contexts -> Objects \cup {Nil}]

ContextInit ==
  /\ stage = [t \in Contexts |-> "out"]
  /\ target = [t \in Contexts |-> Nil]
  /\ outcome = [t \in Contexts |-> "none"]
  /\ lockBit = [o \in Objects |-> FALSE]
  /\ owner = [o \in Objects |-> Nil]
  /\ next = [o \in Objects |-> Nil]
  /\ locks = [t \in Contexts |-> Nil]

Enter(t, from, to) ==
  /\ stage[t] = from
  /\ stage' = [stage EXCEPT ![t] = to]

StartIteration(t) ==
  /\ Enter(t, "out", "run")
  /\ outcome' = [outcome EXCEPT ![t] = "none"]
  /\ UNCHANGED <<target, lockBit, owner, next, locks>>

\* tryAcquire: the load of PtrLock::try_lock
TryLock(t, o) ==
  /\ Enter(t, "run", IF lockBit[o] THEN "checkOwner" ELSE "fetchOr")
  /\ target' = [target EXCEPT ![t] = o]
  /\ UNCHANGED <<outcome, lockBit, owner, next, locks>>

Won_Always(o) == TRUE

\* return !(oldval & 1)
Won(o) == ~lockBit[o]

FetchOr(t) ==
  LET o == target[t]
  IN  /\ Enter(t, "fetchOr", IF Won(o) THEN "setOwner" ELSE "checkOwner")
      /\ lockBit' = [lockBit EXCEPT ![o] = TRUE]
      /\ UNCHANGED <<target, outcome, owner, next, locks>>

\* NEW_OWNER: setValue and addToNhood
SetOwner(t) ==
  LET o == target[t]
  IN  /\ Enter(t, "setOwner", "run")
      /\ owner' = [owner EXCEPT ![o] = t]
      /\ next' = [next EXCEPT ![o] = locks[t]]
      /\ locks' = [locks EXCEPT ![t] = o]
      /\ UNCHANGED <<target, outcome, lockBit>>

IsOwner_OrUnowned(t, o) == owner[o] \in {t, Nil}

IsOwner(t, o) == owner[o] = t

\* ALREADY_OWNER, or FAIL and signalConflict
CheckOwner(t) ==
  LET mine == IsOwner(t, target[t])
  IN  /\ Enter(t, "checkOwner", IF mine THEN "run" ELSE "unlink")
      /\ outcome' = [outcome EXCEPT ![t] = IF mine THEN @ ELSE "conflict"]
      /\ UNCHANGED <<target, lockBit, owner, next, locks>>

\* The operator returns, or calls UserContext::abort()
EndOperator(t, how) ==
  /\ Enter(t, "run", "unlink")
  /\ outcome' = [outcome EXCEPT ![t] = how]
  /\ UNCHANGED <<target, lockBit, owner, next, locks>>

\* lockable->next = 0
Unlinked(o) == [next EXCEPT ![o] = Nil]

\* commitIteration and cancelIteration: take a lockable off the list
Unlink(t) ==
  LET lockable == locks[t]
  IN  /\ lockable # Nil
      /\ Enter(t, "unlink", "release")
      /\ target' = [target EXCEPT ![t] = lockable]
      /\ locks' = [locks EXCEPT ![t] = next[lockable]]
      /\ next' = Unlinked(lockable)
      /\ UNCHANGED <<outcome, lockBit, owner>>

ClearedOwner(o) == [owner EXCEPT ![o] = Nil]

\* release: unlock_and_clear
Release(t) ==
  LET o == target[t]
  IN  /\ Enter(t, "release", "unlink")
      /\ lockBit' = [lockBit EXCEPT ![o] = FALSE]
      /\ owner' = ClearedOwner(o)
      /\ UNCHANGED <<target, outcome, next, locks>>

\* while (locks)
EndIteration(t) ==
  /\ locks[t] = Nil
  /\ Enter(t, "unlink", "out")
  /\ UNCHANGED <<target, outcome, lockBit, owner, next, locks>>

ContextStep(t) ==
  \/ StartIteration(t) \/ FetchOr(t) \/ SetOwner(t) \/ CheckOwner(t)
  \/ EndOperator(t, "commit") \/ EndOperator(t, "abort")
  \/ Unlink(t) \/ Release(t) \/ EndIteration(t)
  \/ \E o \in Objects : TryLock(t, o)

ContextNext == \E t \in Contexts : ContextStep(t)

ContextSpec == ContextInit /\ [][ContextNext]_contextVars

--------------------------------------------------------------------------------
\* t took the lock bit of o and has not given it back
Holds(t, o) ==
  \/ owner[o] = t
  \/ stage[t] = "setOwner" /\ target[t] = o

\* o is in t's list: it is the head, or the link of a lockable t owns
Listed(t, o) == locks[t] = o \/ \E p \in Objects : owner[p] = t /\ next[p] = o

\* t owns o and is not about to release it
Keeps(t, o) == owner[o] = t /\ ~(stage[t] = "release" /\ target[t] = o)

HasTarget == \A t \in Contexts : stage[t] \notin {"out", "run", "unlink"} => target[t] # Nil

HasOutcome == \A t \in Contexts : stage[t] \in {"unlink", "release"} => outcome[t] # "none"

BitIsHeld == \A o \in Objects : lockBit[o] <=> \E t \in Contexts : Holds(t, o)

OneHolder == \A o \in Objects, t, u \in Contexts : Holds(t, o) /\ Holds(u, o) => t = u

SetsUnowned == \A t \in Contexts : stage[t] = "setOwner" => owner[target[t]] = Nil

ReleasesOwn == \A t \in Contexts : stage[t] = "release" => owner[target[t]] = t

OutHasNone == \A t \in Contexts : stage[t] = "out" => locks[t] = Nil

HeadKept == \A t \in Contexts : locks[t] # Nil => Keeps(t, locks[t])

LinkKept ==
  \A p \in Objects : next[p] # Nil =>
    /\ owner[p] # Nil
    /\ Keeps(owner[p], p)
    /\ Keeps(owner[p], next[p])

KeptListed == \A t \in Contexts, o \in Objects : Keeps(t, o) => Listed(t, o)

OnePlace ==
  /\ \A p, q \in Objects : next[p] = next[q] /\ next[p] # Nil => p = q
  /\ \A t \in Contexts, p \in Objects : locks[t] # Nil => next[p] # locks[t]

\* The lock word and the lists agree: the lock bit is set exactly for the
\* objects some thread holds, one thread at most, and the list of a thread has
\* the objects it owns (but the one it is releasing), each in one place, and no
\* other. commitIteration walks its list without synchronisation because of it.
ContextInv ==
  /\ ContextTypeOK
  /\ HasTarget /\ HasOutcome
  /\ BitIsHeld /\ OneHolder /\ SetsUnowned /\ ReleasesOwn /\ OutHasNone
  /\ HeadKept /\ LinkKept /\ KeptListed /\ OnePlace

\* The assertions of startIteration (no locks), addToNhood (no next), release
\* (it owns the lockable, which has no next) and unlock_and_clear (it is locked).
CodeAssertions ==
  \A t \in Contexts :
    LET o == target[t]
    IN  /\ stage[t] = "out" => locks[t] = Nil
        /\ stage[t] = "setOwner" => next[o] = Nil /\ owner[o] = Nil
        /\ stage[t] = "release" => owner[o] = t /\ next[o] = Nil /\ lockBit[o]

\* Conflict detection keeps its books while threads race for objects, and none
\* of its assertions fails: the lock bit, the owner and the lists agree as
\* ContextInv says, and CodeAssertions hold.
ContextSafe == ContextInv /\ CodeAssertions

heldBar == {p \in Contexts \X Objects : Holds(p[1], p[2])}

phaseBar ==
  [t \in Contexts |->
     CASE stage[t] = "out" -> "out"
       [] stage[t] \in {"unlink", "release"} -> outcome[t]
       [] stage[t] = "checkOwner" /\ owner[target[t]] # t -> "conflict"
       [] OTHER -> "acquire"]

Promise == INSTANCE Neighborhoods WITH
  Owners <- Contexts, held <- heldBar, phase <- phaseBar

\* Iterations hold objects exclusively, fail only because another iteration
\* has the object (or on their own wish), release only at their end, and leave
\* nothing locked behind.
Refinement == Promise!NhSpec

================================================================================
