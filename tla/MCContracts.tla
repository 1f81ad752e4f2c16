------------------------------ MODULE MCContracts ------------------------------
(***************************************************************************)
(* The identity contract for TLC, its extended version and the bridge's    *)
(* tree.  The three share no state, so that a behaviour is one of one of   *)
(* them, chosen by its first action.  Addresses, keys, roots and requests  *)
(* are only compared for equality, so that their sets are symmetric; the   *)
(* tree's keys are the contract's.                                         *)
(***************************************************************************)
EXTENDS IdentityRegistry, BridgeTree, V2Parameters, TLC

CONSTANTS Commit, Nullifier, MaxV2IDs

VARIABLES
    v2Admin, v2IdList, v2NextIndex, v2Verifiers, merkleRoot, merkleRootHistory, revocationRoot, replaced,
    nullifierRecords, totalNullifiers, epochNullifierUsed, epochDuration, timestamp, txs

V2 == INSTANCE VeriqidV2Proofs WITH
    admin <- v2Admin, idList <- v2IdList, nextIndex <- v2NextIndex, authorizedVerifiers <- v2Verifiers,
    Bracket <- BracketInput, MaxIDs <- MaxV2IDs

v2Vars ==
    <<v2Admin, v2IdList, v2NextIndex, v2Verifiers, merkleRoot, merkleRootHistory, revocationRoot, replaced,
      nullifierRecords, totalNullifiers, epochNullifierUsed, epochDuration, timestamp, txs>>

Symmetry == Permutations(Address) \cup Permutations(Key) \cup Permutations(TreeRoot) \cup Permutations(Request)

\* One account deploys both contracts.
RegistryInit == Init /\ TreeInit /\ V2!Init /\ v2Admin = admin

RegistryNext ==
    \/ TreeInit /\ V2!Init /\ Next /\ UNCHANGED <<treeVars, v2Vars>>
    \/ Init /\ V2!Init /\ TreeNext /\ UNCHANGED <<vars, v2Vars>>
    \/ Init /\ TreeInit /\ V2!Next /\ UNCHANGED <<vars, treeVars>>

RegistrySpec == RegistryInit /\ [][RegistryNext]_<<vars, treeVars, v2Vars>>

\* Properties of the extended contract, in this module's variables: a root is
\* valid for as long as VeriqidV2.sol keeps it, and the contract refines the
\* promise of the first one.
RootsServeTheirTime == V2!RootsServeTheirTime
KeepsPromise == V2!KeepsPromise
===============================================================================
