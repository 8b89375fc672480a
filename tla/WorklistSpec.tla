----------------------------- MODULE WorklistSpec ------------------------------
(***************************************************************************)
(* What a chunked worklist promises the threads of a loop. An item is in   *)
(* the part of one thread or in the shared part, from which any thread may *)
(* take several items into its own. A pop gives up only when its thread    *)
(* has nothing of its own and each item that was shared when it began has  *)
(* been taken by somebody since: items that are published behind its back  *)
(* it may miss. The operators with a set B are about the items of one of   *)
(* several worklists.                                                      *)
(***************************************************************************)
CONSTANTS Threads, Items

VARIABLES mine,     \* the items in each thread's part
          shared,   \* the items in the shared part
          seen,     \* what a pop under way has yet to find
          st        \* "look": in a pop; "dry": the last call was a pop that gave up

parts == <<mine, shared, seen>>
wlVars == <<parts, st>>

Elsewhere(x) == x \notin shared /\ \A t \in Threads : x \notin mine[t]

\* Thread t adds x and publishes some of what it had.
Add(t, x, P) ==
  /\ P \subseteq mine[t]
  /\ mine' = [mine EXCEPT ![t] = (@ \ P) \cup {x}]
  /\ shared' = shared \cup P
  /\ UNCHANGED seen

LookInto(t, B) ==
  /\ seen' = [seen EXCEPT ![t] = shared \cap B]
  /\ UNCHANGED <<mine, shared>>

TakeOwn(t, x) ==
  /\ x \in mine[t]
  /\ mine' = [mine EXCEPT ![t] = @ \ {x}]
  /\ seen' = [seen EXCEPT ![t] = {}]
  /\ UNCHANGED shared

\* Thread t moves C from the shared part to its own, but for the items in X.
TakeShared(t, C, X) ==
  /\ C # {} /\ C \subseteq shared /\ X \subseteq C
  /\ shared' = shared \ C
  /\ mine' = [mine EXCEPT ![t] = @ \cup (C \ X)]
  /\ seen' = [u \in Threads |-> IF u = t THEN {} ELSE seen[u] \ C]

FindsNothing(t, B) == mine[t] \cap B = {} /\ seen[t] = {}

--------------------------------------------------------------------------------
WlInit ==
  /\ mine = [t \in Threads |-> {}]
  /\ shared = {}
  /\ seen = [t \in Threads |-> {}]
  /\ st = [t \in Threads |-> "out"]

InPop(t) == st[t] = "look"

Push(t) ==
  /\ ~InPop(t)
  /\ \E x \in Items : Elsewhere(x) /\ \E P \in SUBSET mine[t] : Add(t, x, P)
  /\ st' = [st EXCEPT ![t] = "out"]

\* flush(), without a push
Publish(t) ==
  /\ ~InPop(t)
  /\ \E P \in SUBSET mine[t] :
       /\ mine' = [mine EXCEPT ![t] = @ \ P]
       /\ shared' = shared \cup P
  /\ st' = [st EXCEPT ![t] = "out"]
  /\ UNCHANGED seen

BeginPop(t) ==
  /\ ~InPop(t)
  /\ LookInto(t, Items)
  /\ st' = [st EXCEPT ![t] = "look"]

PopOwn(t) ==
  /\ \E x \in Items : TakeOwn(t, x)
  /\ st' = [st EXCEPT ![t] = "out"]

PopShared(t) ==
  /\ InPop(t)
  /\ \E C \in SUBSET shared : \E x \in C : TakeShared(t, C, {x})
  /\ st' = [st EXCEPT ![t] = "out"]

\* peek() leaves the item it finds in the thread's part.
Peek(t) ==
  /\ InPop(t)
  /\ \/ \E C \in SUBSET shared : TakeShared(t, C, {})
     \/ mine[t] # {} /\ seen' = [seen EXCEPT ![t] = {}] /\ UNCHANGED <<mine, shared>>
  /\ st' = [st EXCEPT ![t] = "out"]

GiveUp(t) ==
  /\ InPop(t)
  /\ FindsNothing(t, Items)
  /\ st' = [st EXCEPT ![t] = "dry"]
  /\ UNCHANGED parts

WlNext ==
  \E t \in Threads :
    Push(t) \/ Publish(t) \/ BeginPop(t) \/ PopOwn(t) \/ PopShared(t) \/ Peek(t) \/ GiveUp(t)

WlSpec == WlInit /\ [][WlNext]_wlVars

(***************************************************************************)
(* When the last call of every thread was a pop that gave up, the worklist *)
(* is empty, whatever was pushed while the pops of the others were over.   *)
(***************************************************************************)
DryMeansDone == (\A t \in Threads : st[t] = "dry") => \A x \in Items : Elsewhere(x)

================================================================================
