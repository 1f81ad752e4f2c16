-------------------------- MODULE MCIdentityRegistry --------------------------
(***************************************************************************)
(* The identity contract instantiated for TLC.  Addresses and keys are     *)
(* only compared for equality, so both sets are symmetric.                 *)
(***************************************************************************)
EXTENDS IdentityRegistry, TLC

Symmetry == Permutations(Address) \cup Permutations(Key)
===============================================================================
