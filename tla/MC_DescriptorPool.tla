-------------------------- MODULE MC_DescriptorPool ---------------------------
(* Instances of DescriptorPool for TLC. *)
EXTENDS DescriptorPool

CONSTANTS k1, b1
=============================================================================
