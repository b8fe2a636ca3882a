---------------------------- MODULE MC_TensorCopy -----------------------------
(* An instance of TensorCopy for TLC. *)
EXTENDS TensorCopy, TLC

CONSTANTS c1, c2, g1, g2

TensorSymmetry == {p @@ q : p \in Permutations(CpuTensors), q \in Permutations(GpuTensors)}
=============================================================================
