----------------------------- MODULE Neighborhoods -----------------------------
(***************************************************************************)
(* What conflict detection promises to the iterations of a parallel loop.  *)
(* The iteration a thread runs acquires objects one at a time, each of     *)
(* them exclusively, and gives up only if another iteration has the object *)
(* it wants or if it asks to be aborted. It releases nothing before it has *)
(* committed or given up, and everything before the thread starts another. *)
(***************************************************************************)
CONSTANTS Owners, Objects

VARIABLES held,    \* the pairs <<t, o>> where thread t's iteration has o
          phase    \* of the iteration of each thread

nhVars == <<held, phase>>

Phases == {"out", "acquire", "commit", "conflict", "abort"}

NhInit ==
  /\ held = {}
  /\ phase = [t \in Owners |-> "out"]

Enter(t, from, to) ==
  /\ phase[t] \in from
  /\ phase' = [phase EXCEPT ![t] = to]

HeldByOther(t, o) == \E u \in Owners \ {t} : <<u, o>> \in held

Begin(t) ==
  /\ Enter(t, {"out"}, "acquire")
  /\ UNCHANGED held

Acquire(t, o) ==
  /\ phase[t] = "acquire"
  /\ ~HeldByOther(t, o)
  /\ held' = held \cup {<<t, o>>}
  /\ UNCHANGED phase

Conflict(t, o) ==
  /\ HeldByOther(t, o)
  /\ Enter(t, {"acquire"}, "conflict")
  /\ UNCHANGED held

ForceAbort(t) ==
  /\ Enter(t, {"acquire"}, "abort")
  /\ UNCHANGED held

Commit(t) ==
  /\ Enter(t, {"acquire"}, "commit")
  /\ UNCHANGED held

Release(t, o) ==
  /\ phase[t] \in {"commit", "conflict", "abort"}
  /\ <<t, o>> \in held
  /\ held' = held \ {<<t, o>>}
  /\ UNCHANGED phase

End(t) ==
  /\ \A o \in Objects : <<t, o>> \notin held
  /\ Enter(t, {"commit", "conflict", "abort"}, "out")
  /\ UNCHANGED held

NhNext ==
  \E t \in Owners :
    \/ Begin(t) \/ ForceAbort(t) \/ Commit(t) \/ End(t)
    \/ \E o \in Objects : Acquire(t, o) \/ Conflict(t, o) \/ Release(t, o)

NhSpec == NhInit /\ [][NhNext]_nhVars

================================================================================
