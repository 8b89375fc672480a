---------------------------- MODULE TerminationSpec ----------------------------
(***************************************************************************)
(* What a termination detector promises the loops that use it: it          *)
(* announces termination only when no work is left, work does not come     *)
(* back by itself, and once there is none the announcement is made. A      *)
(* detector is reused: a new loop may start after an announcement.         *)
(***************************************************************************)
VARIABLES quiet,      \* no item is queued and none is being executed
          announced   \* the detector has reported termination

vars == <<quiet, announced>>

Init == quiet = FALSE /\ announced = FALSE

BecomeQuiet ==
  /\ ~quiet
  /\ quiet' = TRUE
  /\ UNCHANGED announced

Announce ==
  /\ quiet
  /\ ~announced
  /\ announced' = TRUE
  /\ UNCHANGED quiet

Restart ==
  /\ announced
  /\ quiet' = FALSE
  /\ announced' = FALSE

Next == BecomeQuiet \/ Announce \/ Restart

Spec == Init /\ [][Next]_vars

NoEarlyTermination == announced => quiet

Detection == quiet ~> announced

================================================================================
