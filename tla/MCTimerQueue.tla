---------------------------- MODULE MCTimerQueue ----------------------------
(***************************************************************************)
(* Small instances of the timer queue for TLC.  A program's nodes are any  *)
(* and its clock is the one that Wraps describes, or its clock wraps and   *)
(* its nodes are one-shot.                                                 *)
(***************************************************************************)
EXTENDS TimerQueue

CONSTANTS n1, n2, n3

VARIABLE program

MCNodes == {n1, n2, n3}
MCTwoNodes == {n1, n2}
MCIntervals == {-2, 0, 1}
MCPeriodic == {1, 3, -2}

OneShot == INSTANCE TimerQueue WITH Intervals <- {i \in Intervals : i <= 0}, Wraps <- TRUE

MCInit ==
  \/ program = "any" /\ Init
  \/ program = "oneshot" /\ OneShot!Init
MCNext ==
  \/ program = "any" /\ Next /\ UNCHANGED program
  \/ program = "oneshot" /\ OneShot!Next /\ UNCHANGED program
MCSpec == MCInit /\ [][MCNext]_<<vars, program>> /\ Fairness
=============================================================================
