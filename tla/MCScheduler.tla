---------------------------- MODULE MCScheduler ----------------------------
(***************************************************************************)
(* Scheduler for TLC.                                                      *)
(***************************************************************************)
EXTENDS SchedulerRefinement, TLC

Symmetry == Permutations(Runs)

=============================================================================
