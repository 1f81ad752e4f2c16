---------------------------- MODULE MCParentPortal ----------------------------
(***************************************************************************)
(* The parent portal instantiated for TLC.                                 *)
(***************************************************************************)
EXTENDS ParentPortal, TLC

Symmetry == Permutations(Request) \cup Permutations(Child) \cup Permutations(Parent)
===============================================================================
