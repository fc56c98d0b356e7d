------------------------------- MODULE MCProc -------------------------------
(* Instances of Proc for TLC. *)
EXTENDS Proc, TLC

CPUSymmetry == Permutations(CPUs)
=============================================================================
