------------------------------- MODULE Termination -----------------------------
(***************************************************************************)
(* The two termination detectors: the ring of the threads of one host      *)
(* (LocalTermination) and the snapshots of the hosts (DGTerminator). They  *)
(* share no code; a behaviour runs one of them, and the other keeps its    *)
(* initial state.                                                          *)
(***************************************************************************)
EXTENDS LocalTermination, DGTerminator

VARIABLE scope    \* where the detector that runs looks for work

terminationVars == <<scope, vars, distVars>>

Ring == scope = "threads"
Snapshots == scope = "hosts"

\* The one that does not run starts in one of its initial states.
TerminationInit ==
  /\ scope \in {"threads", "hosts"}
  /\ Init
  /\ DistInit
  /\ Ring => firstItr = (TRUE \in FirstItrs)
  /\ Snapshots => /\ TRUE \notin {couldAbort, lastWasWhite, globalTerm}
                  /\ \A t \in Threads : TRUE \notin {tokenIsBlack[t], hasToken[t], processIsBlack[t]}

TerminationNext ==
  /\ UNCHANGED scope
  /\ \/ Ring /\ Next /\ UNCHANGED distVars
     \/ Snapshots /\ DistNext /\ UNCHANGED vars

\* Every thread of the pool and every host keeps running. As long as there is
\* something for them to do, workers and MPI do some of it, exchanges that find
\* messages again and again apply some, and snapshots that have ended are seen
\* to have ended somewhere.
TerminationFairness ==
  /\ \A t \in Threads : WF_vars(Ring /\ Thread(t))
  /\ \A h \in Hosts : WF_distVars(Snapshots /\ Host(h))
  /\ WF_distVars(Snapshots /\ \E h \in Hosts : Network(h))
  /\ SF_distVars(Snapshots /\ \E h \in Hosts : Apply(h))
  /\ SF_distVars(Snapshots /\ \E h \in Hosts : TestSnapshot(h) /\ snapshot_ended'[h])

DetectorsSpec == TerminationInit /\ [][TerminationNext]_terminationVars /\ TerminationFairness

--------------------------------------------------------------------------------
(***************************************************************************)
(* Once no thread of the host has work left the ring reports it; and the   *)
(* hosts of a program that does all its work under the detector all leave  *)
(* the loop.                                                               *)
(***************************************************************************)
TerminationDetected ==
  (Ring /\ Quiet) \/ (Snapshots /\ ~firstItr)
    ~> (Ring /\ Announced) \/ (Snapshots /\ \A h \in Hosts : Halted(h))

--------------------------------------------------------------------------------
\* Threads 0 and 1 on socket 0, the others on socket 1.
SomeLeader == [t \in Threads |-> IF t < 2 THEN 0 ELSE 2]
SomeParentLeader == [t \in Threads |-> 0]

================================================================================
