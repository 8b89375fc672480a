--------------------------------- MODULE Loops ---------------------------------
(***************************************************************************)
(* The two kinds of parallel loops: do_all with stealing (DoAllStealing)   *)
(* and for_each with conflict detection (ForEachExecutor).  A behaviour    *)
(* runs one of them, and the other keeps its initial state.                *)
(***************************************************************************)
EXTENDS DoAllStealing, ForEachExecutor

VARIABLE loop    \* the one that runs

\* Two items that want the same objects in opposite orders, one of them twice,
\* and a third one, pushed by the first, that reads what both write.
W(o) == [obj |-> o, flag |-> "WRITE"]

R(o) == [obj |-> o, flag |-> "READ"]

SomeNhoods ==
  [x \in WorkItems |->
     CASE x = "a" -> <<W("x"), R("y")>>
       [] x = "b" -> <<W("y"), W("x"), W("y")>>
       [] OTHER -> <<[obj |-> "y", flag |-> "UNPROTECTED"], R("x")>>]

SomePushes == [x \in WorkItems |-> IF x = "a" THEN {"c"} ELSE {}]

\* one socket
OneSocket == [leader |-> [t \in Threads |-> 0], parent |-> [t \in Threads |-> 0]]

\* a socket for every thread; the parent of socket s is s / 2
OwnSockets == [leader |-> [t \in Threads |-> t], parent |-> [t \in Threads |-> t \div 2]]

SomeMachines == {OneSocket, OwnSockets}

LoopsInit ==
  /\ loop \in {"do_all", "for_each"}
  /\ Init
  /\ ForEachInit
  /\ loop = "do_all" => machine = OneSocket

LoopsNext ==
  /\ UNCHANGED loop
  /\ \/ loop = "do_all" /\ Next /\ UNCHANGED forEachVars
     \/ loop = "for_each" /\ ForEachNext /\ UNCHANGED vars

\* Every thread of the pool is scheduled.
LoopsSpec ==
  /\ LoopsInit /\ [][LoopsNext]_<<loop, vars, forEachVars>>
  /\ \A t \in Threads :
       /\ WF_vars(loop = "do_all" /\ Step(t))
       /\ WF_forEachVars(loop = "for_each" /\ ForEachStep(t) /\ UNCHANGED machine)

--------------------------------------------------------------------------------
(***************************************************************************)
(* Every loop ends. Conflicting iterations of a for_each do not abort each *)
(* other for ever, because aborted items are handed on towards one thread. *)
(* Threads of a do_all that see work and lose the race for it do not keep  *)
(* each other searching, unless thefts go on for ever; that is possible in *)
(* the code: a range no longer than a chunk is stolen whole, and idle      *)
(* threads can pass it around, each thief arriving between the assignWork  *)
(* and the getWork of the one before.                                      *)
(***************************************************************************)
LoopEnds ==
  <>[](\A t \in Threads : pc[t] # "assign") =>
    <>(IF loop = "do_all" THEN \A t \in Threads : pc[t] = "left" ELSE AllDone)

--------------------------------------------------------------------------------
\* do_all runs on two sockets of two threads, one thread of the second inactive.
TwoByTwo == [t \in 0 .. 3 |-> t \div 2]

FirstOfSocket == {0, 2}

================================================================================
