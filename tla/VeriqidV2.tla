------------------------------- MODULE VeriqidV2 -------------------------------
(***************************************************************************)
(* The extended identity contract (contracts/contracts/VeriqidV2.sol):     *)
(* identities with attribute commitments and epochs, nullifiers, and the   *)
(* roots of the membership and revocation trees that verifiers publish.    *)
(*                                                                         *)
(* As in IdentityRegistry, a transaction is one action, one that fails a   *)
(* require is no step, and entry i of an array is element i + 1.  Events   *)
(* are left out.                                                           *)
(***************************************************************************)
EXTENDS Integers, Sequences, FiniteSets, V2Parameters

CONSTANTS
    Address,            \* externally owned accounts
    ZeroAddress,        \* address(0)
    Key,                \* compressed master public keys
    Commit,             \* attribute commitments that are passed to addID
    Bracket,            \* age brackets that are passed to addIDLegacy
    Nullifier,          \* hashes of nullifiers, of either kind
    MaxIDs              \* bound: identities

VARIABLES
    admin,
    idList,
    nextIndex,
    merkleRoot,
    merkleRootHistory,
    nullifierRecords,       \* the nullifiers used, with what is kept of each
    totalNullifiers,
    epochNullifierUsed,     \* epoch nullifiers mapped to true
    epochDuration,
    revocationRoot,
    authorizedVerifiers,
    timestamp,              \* of the block; genesisTimestamp is 0
    txs,                    \* how many transactions there were
    replaced                \* history: the roots that were replaced, oldest first

roleVars == <<admin, authorizedVerifiers>>
idVars == <<idList, nextIndex>>
rootVars == <<merkleRoot, merkleRootHistory, revocationRoot, replaced>>
nullifierVars == <<nullifierRecords, totalNullifiers, epochNullifierUsed>>
vars == <<roleVars, idVars, rootVars, nullifierVars, epochDuration, timestamp, txs>>

-------------------------------------------------------------------------------
Indices == 0 .. nextIndex - 1

getState(i) == idList[i + 1].active

getCurrentEpoch == IF epochDuration = 0 THEN 0 ELSE timestamp \div epochDuration

isNullifierUsed(n) == n \in DOMAIN nullifierRecords

\* The current root or one of the history; the zero root before the first update.
isValidMerkleRoot(root) ==
    root = merkleRoot \/ \E i \in DOMAIN merkleRootHistory : merkleRootHistory[i] = root

onlyAdmin(sender) == sender = admin

onlyVerifier(sender) == sender \in authorizedVerifiers \/ sender = admin

transaction == txs < MaxTx /\ txs' = txs + 1

\* constructor
Init ==
    /\ \E deployer \in Address : admin = deployer /\ authorizedVerifiers = {deployer}
    /\ epochDuration = InitialDuration
    /\ idList = <<>> /\ nextIndex = 0
    /\ merkleRoot = NoRoot /\ merkleRootHistory = <<>> /\ revocationRoot = NoRoot
    /\ replaced = <<>>
    /\ nullifierRecords = <<>> /\ totalNullifiers = 0 /\ epochNullifierUsed = {}
    /\ timestamp = 0 /\ txs = 0

-------------------------------------------------------------------------------
addID(sender, k, attributeCommit) ==
    /\ transaction
    /\ onlyVerifier(sender)
    /\ Len(idList) < MaxIDs
    /\ idList' = Append(idList, [key |-> k, active |-> TRUE, owner |-> sender,
                                 attributeCommit |-> attributeCommit,
                                 registeredEpoch |-> getCurrentEpoch])
    /\ nextIndex' = nextIndex + 1
    /\ UNCHANGED <<roleVars, rootVars, nullifierVars, epochDuration, timestamp>>

\* The bracket takes the commitment's place; no bracket is refused.
addIDLegacy(sender, k, ageBracket) == addID(sender, k, ageBracket)

\* Mutant of revoked: `delete idList[_index]`, which clears the whole entry.
revoked_delete(index) == [idList EXCEPT ![index + 1].active = FALSE, ![index + 1].key = 0]

revoked(index) == [idList EXCEPT ![index + 1].active = FALSE]

revokeID(sender, index) ==
    /\ transaction
    /\ index < nextIndex
    /\ sender = idList[index + 1].owner \/ sender = admin
    /\ getState(index)
    /\ idList' = revoked(index)
    /\ UNCHANGED <<roleVars, nextIndex, rootVars, nullifierVars, epochDuration, timestamp>>

\* Anybody may register a nullifier; it is bound to nothing but its epoch.
registerNullifier(n, spk) ==
    /\ transaction
    /\ ~isNullifierUsed(n)
    /\ nullifierRecords' = [m \in DOMAIN nullifierRecords \cup {n} |->
            IF m = n THEN [spkHash |-> spk, epoch |-> getCurrentEpoch] ELSE nullifierRecords[m]]
    /\ totalNullifiers' = totalNullifiers + 1
    /\ UNCHANGED <<roleVars, idVars, rootVars, epochNullifierUsed, epochDuration, timestamp>>

registerEpochNullifier(n) ==
    /\ transaction
    /\ n \notin epochNullifierUsed
    /\ epochNullifierUsed' = epochNullifierUsed \cup {n}
    /\ UNCHANGED <<roleVars, idVars, rootVars, nullifierRecords, totalNullifiers, epochDuration, timestamp>>

-------------------------------------------------------------------------------
\* Mutant of trimmed: the last element is dropped without the shift.
trimmed_newest(history) ==
    IF Len(history) > MAX_ROOT_HISTORY THEN [i \in 1 .. Len(history) - 1 |-> history[i]] ELSE history

\* Too long a history is shifted by one and its last element popped.
trimmed(history) ==
    IF Len(history) > MAX_ROOT_HISTORY THEN [i \in 1 .. Len(history) - 1 |-> history[i + 1]] ELSE history

\* The zero root is not kept when it is replaced.
updateMerkleRoot(sender, newRoot) ==
    /\ transaction
    /\ onlyVerifier(sender)
    /\ IF merkleRoot = NoRoot
       THEN UNCHANGED <<merkleRootHistory, replaced>>
       ELSE /\ merkleRootHistory' = trimmed(Append(merkleRootHistory, merkleRoot))
            /\ replaced' = Append(replaced, merkleRoot)
    /\ merkleRoot' = newRoot
    /\ UNCHANGED <<roleVars, idVars, revocationRoot, nullifierVars, epochDuration, timestamp>>

updateRevocationRoot(sender, newRoot) ==
    /\ transaction
    /\ onlyVerifier(sender)
    /\ revocationRoot' = newRoot
    /\ UNCHANGED <<roleVars, idVars, merkleRoot, merkleRootHistory, replaced, nullifierVars,
                   epochDuration, timestamp>>

\* Numbers of epochs may fall when the duration grows.
setEpochDuration(sender, newDuration) ==
    /\ transaction
    /\ onlyAdmin(sender)
    /\ newDuration > 0
    /\ epochDuration' = newDuration
    /\ UNCHANGED <<roleVars, idVars, rootVars, nullifierVars, timestamp>>

-------------------------------------------------------------------------------
\* Unlike in Veriqid.sol, a verifier may be authorized twice, removed without
\* being one, and be address(0).
authorizeVerifier(sender, verifier) ==
    /\ transaction
    /\ onlyAdmin(sender)
    /\ authorizedVerifiers' = authorizedVerifiers \cup {verifier}
    /\ UNCHANGED <<admin, idVars, rootVars, nullifierVars, epochDuration, timestamp>>

removeVerifier(sender, verifier) ==
    /\ transaction
    /\ onlyAdmin(sender)
    /\ authorizedVerifiers' = authorizedVerifiers \ {verifier}
    /\ UNCHANGED <<admin, idVars, rootVars, nullifierVars, epochDuration, timestamp>>

transferAdmin(sender, newAdmin) ==
    /\ transaction
    /\ onlyAdmin(sender)
    /\ newAdmin # ZeroAddress
    /\ admin' = newAdmin
    /\ UNCHANGED <<authorizedVerifiers, idVars, rootVars, nullifierVars, epochDuration, timestamp>>

block ==
    /\ timestamp < MaxTime
    /\ timestamp' = timestamp + 1
    /\ UNCHANGED <<roleVars, idVars, rootVars, nullifierVars, epochDuration, txs>>

identityTx(sender) ==
    \/ \E k \in Key, c \in Commit : addID(sender, k, c)
    \/ \E k \in Key, b \in Bracket : addIDLegacy(sender, k, b)
    \/ \E i \in Indices : revokeID(sender, i)

adminTx(sender) ==
    \/ \E v \in Address \cup {ZeroAddress} :
        authorizeVerifier(sender, v) \/ removeVerifier(sender, v) \/ transferAdmin(sender, v)
    \/ \E d \in Duration : setEpochDuration(sender, d)

rootTx(sender) ==
    \/ \E r \in TreeRoot \cup {NoRoot} : updateMerkleRoot(sender, r)
    \/ \E r \in TreeRoot : updateRevocationRoot(sender, r)

Next ==
    \/ \E sender \in Address : identityTx(sender) \/ adminTx(sender) \/ rootTx(sender)
    \/ \E n \in Nullifier :
        \/ \E k \in Key : registerNullifier(n, k)
        \/ registerEpochNullifier(n)
    \/ block

Spec == Init /\ [][Next]_vars

-------------------------------------------------------------------------------
(* Properties. *)

\* The roots replaced last, as far back as the history reaches.
recentlyReplaced ==
    {replaced[i] : i \in {i \in DOMAIN replaced : i > Len(replaced) - MAX_ROOT_HISTORY}}

\* A proof made against a root is good for exactly as long as the root is the
\* current one or among the last MAX_ROOT_HISTORY that were replaced: trimming
\* loses no root early and keeps none too long, also when a root comes back or
\* the root was zero in between.
RootsServeTheirTime ==
    \A r \in TreeRoot : isValidMerkleRoot(r) <=> r = merkleRoot \/ r \in recentlyReplaced

\* The extended contract keeps the promise of the one it extends, although it
\* has other roles and requires and two ways to add an identity.
Entries(flag) == {[index |-> i, key |-> idList[i + 1].key] : i \in {i \in Indices : getState(i) = flag}}

Promise == INSTANCE RegistryPromise WITH
    issued <- nextIndex, ring <- Entries(TRUE), retired <- Entries(FALSE)

KeepsPromise == Promise!Spec
===============================================================================
