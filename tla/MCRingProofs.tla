----------------------------- MODULE MCRingProofs -----------------------------
(***************************************************************************)
(* Registration proofs instantiated for TLC.                               *)
(***************************************************************************)
EXTENDS RingProofs, TLC

\* The keys with all their bytes may be exchanged, and so may the attempts.
Symmetry == Permutations(Key \ ShortKey) \cup Permutations(Attempt)

\* Bounds of the contract once a second attempt has begun.
SharedIDs == 3
SharedEvents == 4

tried == {p \in Attempt : try[p] # untried}

\* One attempt meets a long history of the contract, several that share the
\* bridge a shorter one.
Shorter == Cardinality(tried) > 1 => Len(idList) <= SharedIDs /\ Len(log) <= SharedEvents

SharedSpec == RingInit /\ [][RingNext /\ Shorter']_<<vars, try>>
===============================================================================
