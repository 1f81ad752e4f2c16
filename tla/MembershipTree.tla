---------------------------- MODULE MembershipTree ----------------------------
(***************************************************************************)
(* The Merkle tree of the anonymity set (pkg/ve_asc/merkle.go): a complete *)
(* binary tree in one array, node i over nodes 2i + 1 and 2i + 2, with the *)
(* leaves in its second half.                                              *)
(*                                                                         *)
(* SHA-256 is taken to be injective: a hash is the tuple of what went into *)
(* it, which also keeps leaves, inner nodes and empty nodes apart as the   *)
(* prefixes in the code do.                                                *)
(***************************************************************************)
EXTENDS Integers, Sequences

CONSTANT Depth      \* levels above the leaves; 20 in the code

ASSUME DepthAssumption == Depth \in Nat \ {0}

\* Nodes at a level: 1 << level of them.
width == LET w[l \in 0 .. Depth] == IF l = 0 THEN 1 ELSE 2 * w[l - 1] IN w

capacity == width[Depth]
nodeCount == 2 * capacity - 1

zeroHash == <<>>
hashLeaf(mpk) == <<mpk>>
hashPair(left, right) == <<left, right>>

\* Inner nodes over empty leaves are the zero hash too, not a hash of two.
NewMerkleTree ==
    [leaves |-> <<>>, nodes |-> [i \in 0 .. nodeCount - 1 |-> zeroHash], size |-> 0]

Root(t) == t.nodes[0]

\* The node above node i at each level, beginning with i itself.
above(i) == LET a[l \in 0 .. Depth] == IF l = 0 THEN i ELSE (a[l - 1] - 1) \div 2 IN a

\* Mutant of updatePath: the loop stops below the root.
updatePath_short(nodes, i) ==
    LET after[l \in 0 .. Depth] ==
            IF l = 0 THEN nodes
            ELSE LET parent == above(i)[l]
                 IN  [after[l - 1] EXCEPT ![parent] = IF parent = 0 THEN @ ELSE
                        hashPair(after[l - 1][2 * parent + 1], after[l - 1][2 * parent + 2])]
    IN  after[Depth]

updatePath(nodes, i) ==
    LET after[l \in 0 .. Depth] ==
            IF l = 0 THEN nodes
            ELSE LET parent == above(i)[l]
                 IN  [after[l - 1] EXCEPT ![parent] =
                        hashPair(after[l - 1][2 * parent + 1], after[l - 1][2 * parent + 2])]
    IN  after[Depth]

\* Left children have odd numbers.
isLeft(i) == i % 2 = 1

sibling(i) == IF isLeft(i) THEN i + 1 ELSE i - 1

\* A node beyond the array counts as empty.
nodeAt(t, i) == IF i < nodeCount THEN t.nodes[i] ELSE zeroHash

\* GenerateProof for an index below the size, which the caller has seen to.
GenerateProof(t, index) ==
    LET way == above(capacity - 1 + index)
    IN  [leafHash |-> t.leaves[index + 1],
         siblings |-> [l \in 1 .. Depth |-> nodeAt(t, sibling(way[l - 1]))],
         directions |-> [l \in 1 .. Depth |-> isLeft(way[l - 1])],
         root |-> Root(t)]

VerifyMerkleProof(proof, expectedRoot) ==
    LET hash[l \in 0 .. Depth] ==
            IF l = 0 THEN proof.leafHash
            ELSE IF proof.directions[l] THEN hashPair(hash[l - 1], proof.siblings[l])
            ELSE hashPair(proof.siblings[l], hash[l - 1])
    IN  hash[Depth] = expectedRoot
===============================================================================
