---------------------------- MODULE MCScheduler ----------------------------
(***************************************************************************)
(* The scheduler with beads that are all of the target rig: no step tells  *)
(* one from another, nor one dispatcher from another, so that states that  *)
(* differ in their names only are checked once.                            *)
(***************************************************************************)
EXTENDS Scheduler, TLC

Symmetry == Permutations(Beads) \cup Permutations(Dispatchers)
=============================================================================
