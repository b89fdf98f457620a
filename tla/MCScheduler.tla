---------------------------- MODULE MCScheduler ----------------------------
(* The interval is not a whole number of milliseconds, so that the         *)
(* truncation of the wait shows.                                           *)
EXTENDS Scheduler, TLC
=============================================================================
