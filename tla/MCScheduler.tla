---------------------------- MODULE MCScheduler ----------------------------
(* Symmetry for the safety runs of Scheduler. *)
EXTENDS SchedulerContract, TLC

\* Passes are interchangeable, and so are runs.
MCSymmetry == Permutations(Passes) \cup Permutations(Runs)
=============================================================================
