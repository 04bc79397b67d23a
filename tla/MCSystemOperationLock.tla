----------------------- MODULE MCSystemOperationLock -----------------------
(* Instances of SystemOperationLock for TLC. *)
EXTENDS SystemOperationLock, TLC

Symmetry == Permutations(Workers)
=============================================================================
