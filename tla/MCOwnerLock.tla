---------------------------- MODULE MCOwnerLock ----------------------------
(***************************************************************************)
(* Instances of OwnerLock for TLC.  Processes are interchangeable, so a    *)
(* run with no liveness property takes them up to permutation.             *)
(***************************************************************************)
EXTENDS OwnerLock, TLC

Symmetry == Permutations(Procs)
=============================================================================
