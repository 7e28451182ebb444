------------------------------ MODULE MCVault ------------------------------
(* Vault on small instances: see the cfg files for the bounds of each run. *)
EXTENDS Vault, TLC

Symmetry == Permutations(Files) \cup Permutations(Stores)
=============================================================================
