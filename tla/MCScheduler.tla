------------------------------ MODULE MCScheduler ------------------------------
(***************************************************************************)
(* Scheduler instantiated for TLC.                                         *)
(***************************************************************************)
EXTENDS Scheduler, TLC

TwoCpus == 0 :> 0 @@ 1 :> 1
TaskSymmetry == Permutations(Task)
================================================================================
