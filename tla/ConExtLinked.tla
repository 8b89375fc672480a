------------------------------ MODULE ConExtLinked -----------------------------
(***************************************************************************)
(* The intrusive lists of chunks under the worklists: ConExtLinkedStack    *)
(* and ConExtLinkedQueue of                                                *)
(* libgalois/include/galois/worklists/WorkListHelpers.h, with the lock bit *)
(* in the head pointer (substrate/PtrLock.h). The stack pushes with a      *)
(* compare-and-swap and pops under the lock; the queue locks for both and  *)
(* looks at its tail without. One access to shared memory is one step.     *)
(***************************************************************************)
EXTENDS Naturals, Sequences, SequencesExt

CONSTANTS Threads, Chunks, Null, Lists   \* Lists: the classes to run

VARIABLES kind,           \* "Stack" or "Queue"
          head, locked,   \* the two parts of PtrLock's word
          tail,
          next,           \* getNext() of each chunk
          pc,
          C, oldhead,     \* locals of push and pop; C is also what a thread holds
          list            \* history: the contents, changed where a call takes effect

vars == <<kind, head, locked, tail, next, pc, C, oldhead, list>>

TypeOK ==
  /\ kind \in Lists
  /\ {head, tail} \subseteq Chunks \cup {Null} /\ locked \in BOOLEAN
  /\ next \in [Chunks -> Chunks \cup {Null}]
  /\ C \in [Threads -> Chunks \cup {Null}] /\ oldhead \in [Threads -> Chunks \cup {Null}]
  /\ list \in Seq(Chunks)

Init ==
  /\ kind \in Lists
  /\ head = Null /\ tail = Null /\ locked = FALSE
  /\ next = [c \in Chunks |-> Null]
  /\ pc = [t \in Threads |-> "out"]
  /\ C = [t \in Threads |-> Null]
  /\ oldhead = [t \in Threads |-> Null]
  /\ list = <<>>

Set(f, t, v) == f' = [f EXCEPT ![t] = v]
Goto(t, from, to) == pc[t] = from /\ Set(pc, t, to)

\* The client pushes a chunk that nobody else has, or pops one and keeps it for
\* a while.
Free(c) == c \notin Range(list) /\ \A t \in Threads : C[t] # c

CallPush(t) ==
  /\ Goto(t, "out", IF kind = "Stack" THEN "read" ELSE "lockToPush")
  /\ \E c \in Chunks : Free(c) /\ Set(C, t, c)
  /\ UNCHANGED <<kind, head, locked, tail, next, oldhead, list>>

CallPop(t) ==
  /\ Goto(t, "out", "empty")
  /\ UNCHANGED <<kind, head, locked, tail, next, C, oldhead, list>>

\* The call is over, and the client lets go of what it popped or pushed.
Return(t) ==
  /\ Goto(t, "return", "out")
  /\ Set(C, t, Null)
  /\ UNCHANGED <<kind, head, locked, tail, next, oldhead, list>>

--------------------------------------------------------------------------------
(* ConExtLinkedStack::push *)

ReadHead(t) ==
  /\ Goto(t, "read", "cas")
  /\ Set(oldhead, t, head)
  /\ Set(next, C[t], head)
  /\ UNCHANGED <<kind, head, locked, tail, C, list>>

Swings_Blind(t) == ~locked

\* head.CAS(oldhead, C): the lock bit is part of the word
Swings(t) == head = oldhead[t] /\ ~locked

Cas(t) ==
  \/ /\ Goto(t, "cas", "return")
     /\ Swings(t)
     /\ head' = C[t] /\ locked' = FALSE
     /\ list' = <<C[t]>> \o list
     /\ Set(oldhead, t, Null)
     /\ UNCHANGED <<kind, tail, next, C>>
  \/ /\ Goto(t, "cas", "read")
     /\ ~Swings(t)
     /\ Set(oldhead, t, Null)
     /\ UNCHANGED <<kind, head, locked, tail, next, C, list>>

--------------------------------------------------------------------------------
(* ConExtLinkedQueue::push *)

Lock(t, from, to) ==
  /\ Goto(t, from, to)
  /\ ~locked /\ locked' = TRUE
  /\ UNCHANGED <<kind, head, tail, next, C, oldhead, list>>

\* C->getNext() = 0, and the new chunk becomes the tail
PushAtTail(t) ==
  /\ Goto(t, "link", IF tail = Null THEN "setHead" ELSE "unlock")
  /\ next' = [c \in Chunks |-> IF c = C[t] THEN Null ELSE IF c = tail THEN C[t] ELSE next[c]]
  /\ tail' = C[t]
  /\ list' = Append(list, C[t])
  /\ UNCHANGED <<kind, head, locked, C, oldhead>>

\* head.unlock_and_set(C)
UnlockAndSetHead(t) ==
  /\ Goto(t, "setHead", "return")
  /\ head' = C[t] /\ locked' = FALSE
  /\ UNCHANGED <<kind, tail, next, C, oldhead, list>>

Unlock(t) ==
  /\ Goto(t, "unlock", "return")
  /\ locked' = FALSE
  /\ UNCHANGED <<kind, head, tail, next, C, oldhead, list>>

--------------------------------------------------------------------------------
(* pop of both *)

\* The fast path: the stack looks at its head, the queue at its tail
IsEmpty(t) ==
  /\ Goto(t, "empty", IF (IF kind = "Stack" THEN head ELSE tail) = Null THEN "return" ELSE "lockToPop")
  /\ UNCHANGED <<kind, head, locked, tail, next, C, oldhead, list>>

LastOne_Never(c) == FALSE

\* The queue's last chunk: tail = 0 comes before head is cleared
LastOne(c) == kind = "Queue" /\ tail = c

\* if (!C) unlock; otherwise the head leaves the list
TakeHead(t) ==
  \/ /\ head = Null
     /\ Goto(t, "take", "unlock")
     /\ UNCHANGED <<kind, head, locked, tail, next, C, oldhead, list>>
  \/ /\ head # Null /\ LastOne(head)
     /\ Goto(t, "take", "clear")
     /\ Set(C, t, head)
     /\ tail' = Null
     /\ list' = Tail(list)
     /\ UNCHANGED <<kind, head, locked, next, oldhead>>
  \/ /\ head # Null /\ ~LastOne(head)
     /\ Goto(t, "take", "unlink")
     /\ Set(C, t, head)
     /\ head' = next[head] /\ locked' = FALSE
     /\ list' = Tail(list)
     /\ UNCHANGED <<kind, tail, next, oldhead>>

\* head.unlock_and_clear()
UnlockAndClear(t) ==
  /\ Goto(t, "clear", "return")
  /\ head' = Null /\ locked' = FALSE
  /\ UNCHANGED <<kind, tail, next, C, oldhead, list>>

\* C->getNext() = 0, after the unlock
Unlink(t) ==
  /\ Goto(t, "unlink", "return")
  /\ Set(next, C[t], Null)
  /\ UNCHANGED <<kind, head, locked, tail, C, oldhead, list>>

InCall(t) ==
  \/ ReadHead(t) \/ Cas(t)
  \/ Lock(t, "lockToPush", "link") \/ PushAtTail(t) \/ UnlockAndSetHead(t) \/ Unlock(t)
  \/ IsEmpty(t) \/ Lock(t, "lockToPop", "take") \/ TakeHead(t) \/ UnlockAndClear(t) \/ Unlink(t)
  \/ Return(t)

Next == \E t \in Threads : CallPush(t) \/ CallPop(t) \/ InCall(t)

Spec == Init /\ [][Next]_vars

--------------------------------------------------------------------------------
\* What a walk from the head along getNext() meets.
Linked(s) ==
  /\ head = (IF s = <<>> THEN Null ELSE s[1])
  /\ \A n \in DOMAIN s : next[s[n]] = (IF n < Len(s) THEN s[n + 1] ELSE Null)

(***************************************************************************)
(* Whenever the lock is free, a walk from the head meets the chunks pushed *)
(* and not yet popped, each once and in order, and the queue's tail is the *)
(* last of them: a push that raced with a pop has not cut off a chunk. The *)
(* types are part of the invariant, and so are the assertions of the code. *)
(***************************************************************************)
ListIsLinked ==
  /\ TypeOK
  /\ ~locked => Linked(list) /\ (kind = "Queue" => tail = (IF list = <<>> THEN Null ELSE Last(list)))
  /\ \A t \in Threads :
       /\ pc[t] = "setHead" => head = Null
       /\ pc[t] = "clear" => next[C[t]] = Null

(***************************************************************************)
(* The lists behave as their contents say: a pop takes the first chunk, and*)
(* comes back with nothing only if the list was empty when it looked.      *)
(***************************************************************************)
PopStep ==
  \A t \in Threads :
    /\ pc[t] = "take" /\ C'[t] # C[t] => C'[t] = Head(list)
    /\ pc[t] = "empty" /\ pc'[t] = "return" => list = <<>>
    /\ pc[t] = "take" /\ pc'[t] = "unlock" => list = <<>>

PopsTheFirst == [][PopStep]_vars

================================================================================
