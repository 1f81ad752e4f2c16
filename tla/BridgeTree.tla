------------------------------- MODULE BridgeTree -------------------------------
(***************************************************************************)
(* The bridge's Merkle tree (bridge/bridge.go) beside the contract.        *)
(* HandleCreateIdentity registers a key on the contract and then inserts   *)
(* it into a tree in memory that has no lock; HandleRegister takes the     *)
(* index of a key on the contract for its place in the tree.               *)
(*                                                                         *)
(* Of the contract only the keys in the order of their entries matter:     *)
(* neither handler's use of the tree looks at roles or active flags.       *)
(***************************************************************************)
EXTENDS MembershipTree, FiniteSets

CONSTANTS
    Mpk,        \* compressed master public keys
    Request,    \* HandleCreateIdentity calls that may run at the same time
    NoMpk,      \* no key yet
    MaxListed   \* bound: entries of the contract

ASSUME MpkAssumption == NoMpk \notin Mpk
ASSUME ListedAssumption == MaxListed \in Nat

VARIABLES
    listed,         \* the keys of the contract's entries, oldest first
    MerkleTree,     \* b.MerkleTree
    creating,       \* how far each creation is, and what it has read
    registering,    \* one HandleRegister call, from the root it reads to the proof
    disturbed,      \* history: creations overlapped or the two lists parted
    torn            \* history: two insertions into this tree overlapped

treeVars == <<listed, MerkleTree, creating, registering, disturbed, torn>>

\* leaves and size are the fields of the tree that the request has in hand.
resting == [at |-> "resting", key |-> NoMpk, leaves |-> <<>>, size |-> 0]

asleep == [at |-> "asleep", key |-> NoMpk, index |-> 0, root |-> zeroHash, calm |-> FALSE]

\* NewBridge: the tree of a new process is empty, whatever the contract holds.
TreeInit ==
    /\ listed = <<>>
    /\ MerkleTree = NewMerkleTree
    /\ creating = [r \in Request |-> resting]
    /\ registering = asleep
    /\ disturbed = FALSE /\ torn = FALSE

-------------------------------------------------------------------------------
(* A creation, from the transaction to the end of Insert.  *)

busy(r) == creating[r].at # "resting"
inInsert(r) == creating[r].at \in {"room", "appended", "placed"}

rest(r) == creating' = [creating EXCEPT ![r] = resting]

onlyHandler == UNCHANGED <<MerkleTree, registering>>

\* getIDIndex: the first entry with the key, or -1.
indexOf(k) ==
    LET entries == {i \in DOMAIN listed : listed[i] = k}
    IN  IF entries = {} THEN -1 ELSE (CHOOSE i \in entries : \A j \in entries : i <= j) - 1

entered(k) ==
    /\ Len(listed) < MaxListed
    /\ listed' = Append(listed, k)

\* AddIDstoIdR has sent the transaction.
HandleCreateIdentity(r, k) ==
    /\ ~busy(r)
    /\ creating' = [creating EXCEPT ![r] = [resting EXCEPT !.at = "sent", !.key = k]]
    /\ disturbed' = (disturbed \/ \E o \in Request : busy(o))
    /\ registering' = [registering EXCEPT !.calm = FALSE]
    /\ UNCHANGED <<listed, MerkleTree, torn>>

mined(r) ==
    /\ creating[r].at = "sent"
    /\ entered(creating[r].key)
    /\ creating' = [creating EXCEPT ![r].at = "mined"]
    /\ onlyHandler /\ UNCHANGED <<disturbed, torn>>

\* The index is asked for at once.  The entry may not be there yet: the answer
\* is then -1, or an older entry of the key, the handler goes on all the same,
\* and the entry comes when the transaction is mined.
lookedUp(r) ==
    /\ creating[r].at \in {"sent", "mined"}
    /\ creating' = [creating EXCEPT ![r].at = "known"]
    /\ disturbed' = (disturbed \/ creating[r].at = "sent")
    /\ onlyHandler /\ UNCHANGED <<listed, torn>>

\* A call to the node fails, and no leaf is inserted for what was sent.
callFails(r) ==
    /\ creating[r].at \in {"sent", "mined"}
    /\ rest(r)
    /\ disturbed' = TRUE
    /\ onlyHandler /\ UNCHANGED <<listed, torn>>

\* Insert compares the size with the capacity.  A full tree is only logged.
hasRoom(r) ==
    /\ creating[r].at = "known"
    /\ IF MerkleTree.size >= capacity
       THEN rest(r) /\ UNCHANGED torn
       ELSE /\ creating' = [creating EXCEPT ![r].at = "room", ![r].leaves = MerkleTree.leaves]
            /\ torn' = (torn \/ \E o \in Request : inInsert(o))
    /\ onlyHandler /\ UNCHANGED <<listed, disturbed>>

\* append reads the slice and writes it back; another append may come between.
appended(r) ==
    /\ creating[r].at = "room"
    /\ \E leaves \in {MerkleTree.leaves, creating[r].leaves} :
        MerkleTree' = [MerkleTree EXCEPT !.leaves = Append(leaves, hashLeaf(creating[r].key))]
    /\ creating' = [creating EXCEPT ![r].at = "appended", ![r].leaves = <<>>]
    /\ UNCHANGED <<listed, registering, disturbed, torn>>

\* The leaf goes where the size says now.  If others have filled the tree since
\* it was compared, the index is beyond the array and the request panics.
placed(r) ==
    LET i == capacity - 1 + MerkleTree.size
    IN  /\ creating[r].at = "appended"
        /\ IF i >= nodeCount
           THEN rest(r) /\ UNCHANGED MerkleTree
           ELSE /\ MerkleTree' = [MerkleTree EXCEPT
                    !.nodes = updatePath([@ EXCEPT ![i] = hashLeaf(creating[r].key)], i)]
                /\ creating' = [creating EXCEPT ![r].at = "placed", ![r].size = MerkleTree.size]
        /\ UNCHANGED <<listed, registering, disturbed, torn>>

\* size++ is a read and a write.
grown(r) ==
    /\ creating[r].at = "placed"
    /\ \E size \in {MerkleTree.size, creating[r].size} :
        MerkleTree' = [MerkleTree EXCEPT !.size = size + 1]
    /\ rest(r)
    /\ UNCHANGED <<listed, registering, disturbed, torn>>

-------------------------------------------------------------------------------
(* HandleRegister, as far as the tree is concerned.  *)

HandleRegister(k) ==
    /\ registering = asleep
    /\ indexOf(k) # -1
    /\ registering' = [at |-> "root", key |-> k, index |-> indexOf(k), root |-> Root(MerkleTree),
                       calm |-> \A r \in Request : ~busy(r)]
    /\ UNCHANGED <<listed, MerkleTree, creating, disturbed, torn>>

\* "if this identity is in the tree": the contract's index is below the size.
inTree(index) == index < MerkleTree.size

\* The answer, without a proof or with one; then the request is forgotten.
\* The slice of leaves may be shorter than the size, and then this panics.
merkleProof(index) == IF inTree(index) THEN <<GenerateProof(MerkleTree, index)>> ELSE <<>>

answered ==
    /\ registering.at = "root"
    /\ registering' = asleep
    /\ UNCHANGED <<listed, MerkleTree, creating, disturbed, torn>>

-------------------------------------------------------------------------------
(* Everybody else.  *)

\* Other users of the contract, and transactions that outlived their request.
outsider ==
    /\ \E k \in Mpk : entered(k)
    /\ disturbed' = TRUE
    /\ UNCHANGED <<MerkleTree, creating, registering, torn>>

restart ==
    /\ MerkleTree' = NewMerkleTree
    /\ creating' = [r \in Request |-> resting]
    /\ registering' = asleep
    /\ disturbed' = (disturbed \/ listed # <<>> \/ \E r \in Request : busy(r))
    /\ torn' = FALSE
    /\ UNCHANGED listed

creationStep(r) ==
    \/ mined(r)
    \/ lookedUp(r)
    \/ callFails(r)
    \/ hasRoom(r)
    \/ appended(r)
    \/ placed(r)
    \/ grown(r)

\* Bound: nothing is said of a tree that overlapping insertions have torn, and
\* no creation begins before it is gone.
TreeNext ==
    \/ ~torn /\ \E r \in Request, k \in Mpk : HandleCreateIdentity(r, k)
    \/ \E r \in Request : creationStep(r)
    \/ \E k \in Mpk : HandleRegister(k)
    \/ answered
    \/ outsider
    \/ restart

TreeSpec == TreeInit /\ [][TreeNext]_treeVars

-------------------------------------------------------------------------------
(* Properties. *)

proves(proof, leaf, root) == proof.leafHash = leaf /\ VerifyMerkleProof(proof, root)

\* Between insertions, every place below the size has a leaf, and the proof for
\* that place leads from the leaf to the root.
everyPlaceProves ==
    ~torn /\ (\A r \in Request : ~inInsert(r)) =>
        /\ MerkleTree.size = Len(MerkleTree.leaves) /\ MerkleTree.size <= capacity
        /\ \A i \in 0 .. MerkleTree.size - 1 :
            proves(GenerateProof(MerkleTree, i), MerkleTree.leaves[i + 1], Root(MerkleTree))

\* The answer HandleRegister is about to give while nobody creates a key: a
\* proof of the key's own leaf, unless the key came after the tree was full.
answersOwnLeaf ==
    registering.calm /\ ~disturbed =>
        LET answer == merkleProof(registering.index)
        IN  IF answer = <<>> THEN registering.index >= capacity
            ELSE proves(answer[1], hashLeaf(registering.key), registering.root)

\* The tree stays a tree of its leaves whatever requests overlap, as long as no
\* two of them are inside Insert at once; and the contract's index serves as
\* the place in the tree as long as all keys are created through one process of
\* the bridge, one after the other, and no lookup fails or comes before its entry.
TreeProofsHold == everyPlaceProves /\ answersOwnLeaf
===============================================================================
