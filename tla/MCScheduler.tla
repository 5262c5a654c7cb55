----------------------------- MODULE MCScheduler -----------------------------
(***************************************************************************)
(* Scheduler for TLC: the slots but the first process's are interchangeable, *)
(* which is sound for the properties this instance checks.                  *)
(***************************************************************************)
EXTENDS Scheduler, TLC

Workers == Permutations(Slots \ {Idle})
=============================================================================
