------------------------- MODULE MC_ExecutionContext --------------------------
(* Instances of ExecutionContext for TLC. *)
EXTENDS ExecutionContext, TLC

CONSTANTS k1, k2, b1

KernelSymmetry == Permutations(Kernels)
=============================================================================
