----------------------------- MODULE V2Parameters -----------------------------
(***************************************************************************)
(* What the extended identity contract (contracts/contracts/VeriqidV2.sol) *)
(* is parameterised by beside the accounts and the keys, which it has in   *)
(* common with the first contract.                                         *)
(***************************************************************************)
EXTENDS Naturals

CONSTANTS
    TreeRoot,           \* tree roots other than zero
    NoRoot,             \* bytes32(0)
    MAX_ROOT_HISTORY,   \* 100 in the code
    Duration,           \* epoch durations passed to setEpochDuration
    InitialDuration,    \* and to the constructor, in units of the clock
    MaxTime,            \* bound: block.timestamp
    MaxTx               \* bound: transactions

ASSUME V2RootAssumption == NoRoot \notin TreeRoot /\ MAX_ROOT_HISTORY \in Nat \ {0}
ASSUME V2NumberAssumption ==
    Duration \subseteq Nat /\ InitialDuration \in Nat /\ MaxTime \in Nat /\ MaxTx \in Nat
===============================================================================
