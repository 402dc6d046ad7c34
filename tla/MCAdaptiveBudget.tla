-------------------------- MODULE MCAdaptiveBudget --------------------------
(* The budget controller with the window sizes of the code. *)
EXTENDS AdaptiveBudget
=============================================================================
