---------------------------- MODULE MCTracedThread ----------------------------
(***************************************************************************)
(* TracedThread with CPUs that may be exchanged.                           *)
(***************************************************************************)
EXTENDS TracedThread, TLC

CPUSymmetry == Permutations(CPUs)

=============================================================================
