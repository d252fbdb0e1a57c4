---------------------------- MODULE MCLockManager ----------------------------
(* Model values and symmetry for model-checking LockManager. *)
EXTENDS LockManager, TLC

Symmetry == Permutations(Xids)

=============================================================================
