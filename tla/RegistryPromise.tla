---------------------------- MODULE RegistryPromise ----------------------------
(***************************************************************************)
(* What the identity contract promises to the provers and verifiers that   *)
(* read it, with roles and events left out.  An identity is a slot number  *)
(* and a key.  It joins the ring when it is issued, the slot numbers are   *)
(* 0, 1, 2, ... in that order, it may leave the ring once, and it never    *)
(* comes back.                                                             *)
(***************************************************************************)
EXTENDS Integers

CONSTANT Key

VARIABLES
    issued,     \* how many slots have been handed out
    ring,       \* the identities that proofs may be built from
    retired     \* the identities that were revoked

vars == <<issued, ring, retired>>

Member == [index: Nat, key: Key]

Init ==
    /\ issued = 0
    /\ ring = {}
    /\ retired = {}

Issue(k) ==
    /\ issued' = issued + 1
    /\ ring' = ring \cup {[index |-> issued, key |-> k]}
    /\ UNCHANGED retired

Retire(m) ==
    /\ m \in ring
    /\ ring' = ring \ {m}
    /\ retired' = retired \cup {m}
    /\ UNCHANGED issued

Next ==
    \/ \E k \in Key : Issue(k)
    \/ \E m \in ring : Retire(m)

Spec == Init /\ [][Next]_vars

\* Slots are accounted for exactly once: every slot below `issued` belongs to
\* one identity, which is either in the ring or retired, never both.
SlotsAccounted ==
    /\ ring \cap retired = {}
    /\ \A m, n \in ring \cup retired : m.index = n.index => m = n
    /\ {m.index : m \in ring \cup retired} = 0..(issued - 1)

===============================================================================
