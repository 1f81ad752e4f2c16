---------------------------- MODULE ContractsProofs ----------------------------
(***************************************************************************)
(* Theorems about the bridge's Merkle tree, and about the tree, the        *)
(* contract and its extended version side by side.  For every depth, every *)
(* set of keys and any number of requests, a tree that no two insertions   *)
(* tore proves every leaf, and the contract's index of a key is its place  *)
(* as long as nothing has parted the two lists.  Side by side each does    *)
(* what it does alone, so that what is proved of the extended contract     *)
(* holds of the composition that TLC checks.                               *)
(***************************************************************************)
EXTENDS MCContracts, SequenceTheorems, WellFoundedInduction, TLAPS

-------------------------------------------------------------------------------
(* The shape of the array.                                                 *)

\* A set of numbers that is not empty has a least one.
LEMMA LeastNumber ==
    ASSUME NEW S, S \subseteq Nat, S # {}
    PROVE  \E m \in S : \A k \in S : m <= k
<1>1. IsWellFoundedOn(OpToRel(<, Nat), Nat)
      BY NatLessThanWellFounded
<1>2. PICK m \in S : \A k \in S : ~ (<<k, m>> \in OpToRel(<, Nat))
      BY <1>1, WFMin, Zenon
<1>3. \A k \in S : ~ (k < m)
      BY <1>2 DEF OpToRel
<1>4. QED
      BY <1>3

\* w gives the widths of the first n levels.
Widths(w, n) == w = [l \in 0 .. n |-> IF l = 0 THEN 1 ELSE 2 * w[l - 1]]

LEMMA WidthsExist ==
    \E w : Widths(w, Depth)
<1> DEFINE bad == {n \in 0 .. Depth : ~ \E w : Widths(w, n)}
<1>0. Depth \in Nat
      BY DepthAssumption
<1>1. SUFFICES ASSUME bad # {} PROVE FALSE
      BY <1>0
<1>2. PICK m \in bad : \A k \in bad : m <= k
      <2>1. bad \subseteq Nat
            BY <1>0
      <2> HIDE DEF bad
      <2>2. QED
            BY <1>1, <2>1, LeastNumber, Zenon
<1>3. m \in 0 .. Depth /\ ~ \E w : Widths(w, m)
      BY <1>2
<1>4. m # 0
      <2>1. Widths([l \in 0 .. 0 |-> 1], 0)
            BY DEF Widths
      <2>2. QED
            BY <1>3, <2>1
<1>5. m - 1 \in 0 .. Depth /\ ~ (m - 1 \in bad)
      <2>1. m - 1 \in 0 .. Depth /\ ~ (m <= m - 1)
            BY <1>0, <1>3, <1>4
      <2> HIDE DEF bad
      <2>2. QED
            BY <1>2, <2>1
<1>6. PICK w : Widths(w, m - 1)
      BY <1>5
<1> DEFINE g == [l \in 0 .. m |-> IF l = m THEN 2 * w[m - 1] ELSE w[l]]
<1>7. Widths(g, m)
      BY <1>0, <1>3, <1>4, <1>6 DEF Widths
<1>8. QED
      BY <1>3, <1>7

\* Each level above the root has twice the nodes of the one before.
LEMMA WidthDoubles ==
    /\ width[0] = 1
    /\ \A l \in 1 .. Depth : width[l] = 2 * width[l - 1]
<1>1. width = CHOOSE w : Widths(w, Depth)
      BY DEF width, Widths
<1>2. Widths(width, Depth)
      BY <1>1, WidthsExist, Zenon
<1>3. width = [l \in 0 .. Depth |-> IF l = 0 THEN 1 ELSE 2 * width[l - 1]]
      BY <1>2 DEF Widths
<1>4. Depth \in Nat
      BY DepthAssumption
<1>5. \A l \in 0 .. Depth : width[l] = IF l = 0 THEN 1 ELSE 2 * width[l - 1]
      BY <1>3, Zenon
<1>6. QED
      BY <1>4, <1>5

LEMMA WidthPositive ==
    \A l \in 0 .. Depth : width[l] \in Nat /\ width[l] >= 1
<1> DEFINE bad == {l \in 0 .. Depth : ~ (width[l] \in Nat /\ width[l] >= 1)}
<1>0. Depth \in Nat
      BY DepthAssumption
<1>1. SUFFICES ASSUME bad # {} PROVE FALSE
      BY <1>0
<1>2. PICK m \in bad : \A k \in bad : m <= k
      <2>1. bad \subseteq Nat
            BY <1>0
      <2> HIDE DEF bad
      <2>2. QED
            BY <1>1, <2>1, LeastNumber, Zenon
<1>3. m \in 1 .. Depth
      BY <1>0, <1>2, WidthDoubles
<1>4. m - 1 \in 0 .. Depth /\ ~ (m - 1 \in bad)
      <2>1. m - 1 \in 0 .. Depth /\ ~ (m <= m - 1)
            BY <1>0, <1>3
      <2> HIDE DEF bad
      <2>2. QED
            BY <1>2, <2>1
<1>5. width[m - 1] \in Nat /\ width[m - 1] >= 1
      BY <1>4
<1>6. width[m] = 2 * width[m - 1]
      BY <1>3, WidthDoubles
<1>7. ~ (width[m] \in Nat /\ width[m] >= 1)
      BY <1>2
<1> HIDE DEF bad
<1>8. QED
      BY <1>5, <1>6, <1>7

\* The places of the leaves and of the inner nodes.
LEMMA ArrayShape ==
    /\ capacity \in Nat /\ capacity >= 2
    /\ nodeCount = 2 * capacity - 1
    /\ capacity - 1 \in 0 .. nodeCount - 1
<1>1. Depth \in 1 .. Depth /\ Depth - 1 \in 0 .. Depth /\ Depth \in 0 .. Depth
      BY DepthAssumption
<1>2. width[Depth] = 2 * width[Depth - 1] /\ width[Depth - 1] \in Nat /\ width[Depth - 1] >= 1
      BY <1>1, WidthDoubles, WidthPositive
<1>3. QED
      BY <1>2 DEF capacity, nodeCount

\* No level has more nodes than the leaves are.
LEMMA WidestBelow ==
    \A l \in 0 .. Depth : width[l] <= width[Depth]
<1> DEFINE bad == {h \in 0 .. Depth : ~ (width[Depth - h] <= width[Depth])}
<1>0. Depth \in Nat
      BY DepthAssumption
<1>1. SUFFICES ASSUME bad # {} PROVE FALSE
      <2>1. \A h \in 0 .. Depth : width[Depth - h] <= width[Depth]
            BY <1>1
      <2>2. \A l \in 0 .. Depth : Depth - l \in 0 .. Depth /\ Depth - (Depth - l) = l
            BY <1>0
      <2> HIDE DEF bad
      <2>3. QED
            BY <2>1, <2>2
<1>2. PICK m \in bad : \A k \in bad : m <= k
      <2>1. bad \subseteq Nat
            BY <1>0
      <2> HIDE DEF bad
      <2>2. QED
            BY <1>1, <2>1, LeastNumber, Zenon
<1>3. m \in 0 .. Depth /\ ~ (width[Depth - m] <= width[Depth])
      BY <1>2
<1>4. m # 0
      <2>1. Depth - 0 = Depth /\ width[Depth] \in Nat
            BY <1>0, WidthPositive
      <2>2. QED
            BY <1>3, <2>1
<1>5. m - 1 \in 0 .. Depth /\ ~ (m - 1 \in bad)
      <2>1. m - 1 \in 0 .. Depth /\ ~ (m <= m - 1)
            BY <1>0, <1>3, <1>4
      <2> HIDE DEF bad
      <2>2. QED
            BY <1>2, <2>1
<1>6. width[Depth - (m - 1)] <= width[Depth]
      BY <1>5
<1>7. Depth - (m - 1) \in 1 .. Depth /\ Depth - (m - 1) - 1 = Depth - m /\ Depth - m \in 0 .. Depth
      BY <1>0, <1>3, <1>4
<1>8. /\ width[Depth - (m - 1)] = 2 * width[Depth - m]
      /\ width[Depth - m] \in Nat /\ width[Depth] \in Nat
      BY <1>0, <1>7, WidthDoubles, WidthPositive
<1> HIDE DEF bad
<1>9. QED
      BY <1>3, <1>6, <1>8
leafPlace == capacity - 1 .. nodeCount - 1
innerPlace == 0 .. capacity - 2

\* A node is one of the two children of the node above it, the left one if its
\* number is odd.
LEMMA ParentOf ==
    ASSUME NEW c \in Nat, c >= 1
    PROVE  /\ (c - 1) \div 2 \in Nat
           /\ isLeft(c) => c = 2 * ((c - 1) \div 2) + 1
           /\ ~ isLeft(c) => c = 2 * ((c - 1) \div 2) + 2
<1>1. (c - 1) \div 2 \in Nat
      OBVIOUS
<1>2. c % 2 = 1 => c = 2 * ((c - 1) \div 2) + 1
      OBVIOUS
<1>3. c % 2 # 1 => c = 2 * ((c - 1) \div 2) + 2
      OBVIOUS
<1>4. QED
      BY <1>1, <1>2, <1>3 DEF isLeft

\* a climbs from node i through n levels.
Climbs(a, i, n) == a = [l \in 0 .. n |-> IF l = 0 THEN i ELSE (a[l - 1] - 1) \div 2]

LEMMA ClimbExists ==
    ASSUME NEW i
    PROVE  \E a : Climbs(a, i, Depth)
<1> DEFINE bad == {n \in 0 .. Depth : ~ \E a : Climbs(a, i, n)}
<1>0. Depth \in Nat
      BY DepthAssumption
<1>1. SUFFICES ASSUME bad # {} PROVE FALSE
      BY <1>0
<1>2. PICK m \in bad : \A k \in bad : m <= k
      <2>1. bad \subseteq Nat
            BY <1>0
      <2> HIDE DEF bad
      <2>2. QED
            BY <1>1, <2>1, LeastNumber, Zenon
<1>3. m \in 0 .. Depth /\ ~ \E a : Climbs(a, i, m)
      BY <1>2
<1>4. m # 0
      <2>1. Climbs([l \in 0 .. 0 |-> i], i, 0)
            BY DEF Climbs
      <2>2. QED
            BY <1>3, <2>1
<1>5. m - 1 \in 0 .. Depth /\ ~ (m - 1 \in bad)
      <2>1. m - 1 \in 0 .. Depth /\ ~ (m <= m - 1)
            BY <1>0, <1>3, <1>4
      <2> HIDE DEF bad
      <2>2. QED
            BY <1>2, <2>1
<1>6. PICK a : Climbs(a, i, m - 1)
      BY <1>5
<1> DEFINE g == [l \in 0 .. m |-> IF l = m THEN (a[m - 1] - 1) \div 2 ELSE a[l]]
<1>7. Climbs(g, i, m)
      BY <1>0, <1>3, <1>4, <1>6 DEF Climbs
<1>8. QED
      BY <1>3, <1>7

LEMMA AboveClimbs ==
    ASSUME NEW i
    PROVE  /\ above(i)[0] = i
           /\ \A l \in 1 .. Depth : above(i)[l] = (above(i)[l - 1] - 1) \div 2
<1>1. above(i) = CHOOSE a : Climbs(a, i, Depth)
      BY DEF above, Climbs
<1>2. Climbs(above(i), i, Depth)
      BY <1>1, ClimbExists, Zenon
<1>3. \A l \in 0 .. Depth : above(i)[l] = IF l = 0 THEN i ELSE (above(i)[l - 1] - 1) \div 2
      BY <1>2, Zenon DEF Climbs
<1>4. Depth \in Nat
      BY DepthAssumption
<1>5. QED
      BY <1>3, <1>4

\* Above a leaf, the node at a height is one of the nodes of that level.
LEMMA AboveLevels ==
    ASSUME NEW i \in leafPlace, NEW l \in 0 .. Depth
    PROVE  above(i)[l] \in width[Depth - l] - 1 .. 2 * width[Depth - l] - 2
<1> DEFINE level(k) == width[Depth - k] - 1 .. 2 * width[Depth - k] - 2
           bad == {k \in 0 .. Depth : above(i)[k] \notin level(k)}
<1>0. Depth \in Nat
      BY DepthAssumption
<1>1. SUFFICES ASSUME bad # {} PROVE FALSE
      BY <1>0
<1>2. PICK m \in bad : \A k \in bad : m <= k
      <2>1. bad \subseteq Nat
            BY <1>0
      <2> HIDE DEF bad
      <2>2. QED
            BY <1>1, <2>1, LeastNumber, Zenon
<1>3. m \in 0 .. Depth /\ above(i)[m] \notin level(m)
      BY <1>2
<1>4. m # 0
      <2>1. above(i)[0] \in level(0)
            BY <1>0, AboveClimbs, ArrayShape DEF leafPlace, capacity, nodeCount
      <2>2. QED
            BY <1>3, <2>1
<1>5. m - 1 \in 0 .. Depth /\ ~ (m - 1 \in bad)
      <2>1. m - 1 \in 0 .. Depth /\ ~ (m <= m - 1)
            BY <1>0, <1>3, <1>4
      <2> HIDE DEF bad
      <2>2. QED
            BY <1>2, <2>1
<1> DEFINE below == above(i)[m - 1]
           half == width[Depth - m]
<1>6. below \in level(m - 1)
      BY <1>5
<1>7. width[Depth - (m - 1)] = 2 * half /\ half \in Nat /\ half >= 1
      <2>1. Depth - (m - 1) \in 1 .. Depth /\ Depth - (m - 1) - 1 = Depth - m
            BY <1>0, <1>3, <1>4
      <2>2. Depth - m \in 0 .. Depth
            BY <1>0, <1>3
      <2>3. QED
            BY <2>1, <2>2, WidthDoubles, WidthPositive
<1>8. above(i)[m] = (below - 1) \div 2
      BY <1>0, <1>3, <1>4, AboveClimbs
<1>9. below \in 2 * half - 1 .. 4 * half - 2
      BY <1>6, <1>7
<1>10. above(i)[m] \notin half - 1 .. 2 * half - 2
      BY <1>3
<1> HIDE DEF below, half, bad
<1>11. QED
      BY <1>7, <1>8, <1>9, <1>10

\* From a leaf one comes to the root, by inner nodes only.
LEMMA WayUp ==
    ASSUME NEW i \in leafPlace
    PROVE  /\ above(i)[Depth] = 0
           /\ \A l \in 1 .. Depth :
                /\ above(i)[l] \in innerPlace
                /\ above(i)[l - 1] \in Nat /\ above(i)[l - 1] >= 1
                /\ above(i)[l] < above(i)[l - 1]
<1>0. Depth \in Nat /\ Depth # 0
      BY DepthAssumption
<1>1. above(i)[Depth] = 0
      <2>1. Depth \in 0 .. Depth /\ Depth - Depth = 0
            BY <1>0
      <2>2. above(i)[Depth] \in width[0] - 1 .. 2 * width[0] - 2
            BY <2>1, AboveLevels
      <2>3. QED
            BY <2>2, WidthDoubles
<1>2. ASSUME NEW l \in 1 .. Depth
      PROVE  /\ above(i)[l] \in innerPlace
             /\ above(i)[l - 1] \in Nat /\ above(i)[l - 1] >= 1
             /\ above(i)[l] < above(i)[l - 1]
      <2> DEFINE c == above(i)[l - 1]
                 half == width[Depth - l]
                 top == width[Depth - (l - 1)]
      <2>1. l \in 0 .. Depth /\ l - 1 \in 0 .. Depth
            BY <1>0
      <2>2. Depth - (l - 1) \in 1 .. Depth /\ Depth - (l - 1) - 1 = Depth - l /\ Depth - l \in 0 .. Depth
            BY <1>0
      <2>3. top = 2 * half /\ half \in Nat /\ half >= 1
            BY <2>2, WidthDoubles, WidthPositive
      <2>4. c \in top - 1 .. 2 * top - 2
            BY <2>1, AboveLevels
      <2>5. above(i)[l] = (c - 1) \div 2
            BY <1>0, AboveClimbs
      <2>6. c \in 1 .. nodeCount - 1
            <3>1. CASE l = 1
                  <4>1. c = i
                        BY <3>1, AboveClimbs
                  <4>2. QED
                        BY <4>1, ArrayShape DEF leafPlace
            <3>2. CASE l # 1
                  <4>1. l - 1 \in 1 .. Depth /\ l - 1 \in Nat
                        BY <1>0, <3>2
                  <4>2. top <= capacity
                        BY <2>2, WidestBelow DEF capacity
                  <4> HIDE DEF c, top, half
                  <4>3. QED
                        BY <2>3, <2>4, <4>2, ArrayShape
            <3>3. QED
                  BY <3>1, <3>2
      <2> HIDE DEF c, top, half
      <2>7. above(i)[l] \in innerPlace /\ above(i)[l] < c
            BY <2>5, <2>6, ArrayShape DEF innerPlace
      <2>8. QED
            BY <2>6, <2>7 DEF c
<1>3. QED
      BY <1>1, <1>2

\* Every node on the way is above all the ones before it.
LEMMA WayDescends ==
    ASSUME NEW i \in leafPlace, NEW m \in 0 .. Depth, NEW l \in m + 1 .. Depth
    PROVE  above(i)[l] < above(i)[m]
<1> DEFINE bad == {k \in m + 1 .. Depth : ~ (above(i)[k] < above(i)[m])}
<1>0. Depth \in Nat /\ m \in Nat
      BY DepthAssumption
<1>1. SUFFICES ASSUME bad # {} PROVE FALSE
      BY <1>0
<1>2. PICK n \in bad : \A k \in bad : n <= k
      <2>1. bad \subseteq Nat
            BY <1>0
      <2> HIDE DEF bad
      <2>2. QED
            BY <1>1, <2>1, LeastNumber, Zenon
<1>3. n \in m + 1 .. Depth /\ ~ (above(i)[n] < above(i)[m])
      BY <1>2
<1>4. above(i)[n] < above(i)[n - 1] /\ above(i)[n] \in Nat /\ above(i)[n - 1] \in Nat
      BY <1>0, <1>3, WayUp DEF innerPlace
<1>5. n # m + 1
      BY <1>0, <1>3, <1>4
<1>6. n - 1 \in m + 1 .. Depth /\ ~ (n - 1 \in bad)
      <2>1. n - 1 \in m + 1 .. Depth /\ ~ (n <= n - 1)
            BY <1>0, <1>3, <1>5
      <2> HIDE DEF bad
      <2>2. QED
            BY <1>2, <2>1
<1>7. above(i)[n - 1] < above(i)[m]
      BY <1>6
<1>8. above(i)[m] \in Nat
      <2>1. CASE m = 0
            BY <2>1, AboveClimbs, ArrayShape DEF leafPlace
      <2>2. CASE m # 0
            <3>1. m \in 1 .. Depth
                  BY <1>0, <2>2
            <3>2. QED
                  BY <3>1, WayUp DEF innerPlace
      <2>3. QED
            BY <2>1, <2>2
<1> HIDE DEF bad
<1>9. QED
      BY <1>3, <1>4, <1>7, <1>8

-------------------------------------------------------------------------------
(* What updatePath leaves behind.                                          *)

nodePlace == 0 .. nodeCount - 1

isArray(nodes) == nodes = [n \in nodePlace |-> nodes[n]]

\* The inner node p is the hash of its children.
hashed(nodes, p) == nodes[p] = hashPair(nodes[2 * p + 1], nodes[2 * p + 2])

hashedAt(nodes, p) == [nodes EXCEPT ![p] = hashPair(nodes[2 * p + 1], nodes[2 * p + 2])]

\* f[l] is the array after l levels of the loop.
Rebuilds(f, nodes, i, n) ==
    f = [l \in 0 .. n |-> IF l = 0 THEN nodes ELSE hashedAt(f[l - 1], above(i)[l])]

LEMMA RebuildExists ==
    ASSUME NEW nodes, NEW i
    PROVE  \E f : Rebuilds(f, nodes, i, Depth)
<1> DEFINE bad == {n \in 0 .. Depth : ~ \E f : Rebuilds(f, nodes, i, n)}
<1>0. Depth \in Nat
      BY DepthAssumption
<1>1. SUFFICES ASSUME bad # {} PROVE FALSE
      BY <1>0
<1>2. PICK m \in bad : \A k \in bad : m <= k
      <2>1. bad \subseteq Nat
            BY <1>0
      <2> HIDE DEF bad
      <2>2. QED
            BY <1>1, <2>1, LeastNumber, Zenon
<1>3. m \in 0 .. Depth /\ ~ \E f : Rebuilds(f, nodes, i, m)
      BY <1>2
<1>4. m # 0
      <2>1. Rebuilds([l \in 0 .. 0 |-> nodes], nodes, i, 0)
            BY DEF Rebuilds
      <2>2. QED
            BY <1>3, <2>1
<1>5. m - 1 \in 0 .. Depth /\ ~ (m - 1 \in bad)
      <2>1. m - 1 \in 0 .. Depth /\ ~ (m <= m - 1)
            BY <1>0, <1>3, <1>4
      <2> HIDE DEF bad
      <2>2. QED
            BY <1>2, <2>1
<1>6. PICK f : Rebuilds(f, nodes, i, m - 1)
      BY <1>5
<1> DEFINE g == [l \in 0 .. m |-> IF l = m THEN hashedAt(f[m - 1], above(i)[m]) ELSE f[l]]
<1>7. Rebuilds(g, nodes, i, m)
      BY <1>0, <1>3, <1>4, <1>6 DEF Rebuilds
<1>8. QED
      BY <1>3, <1>7

LEMMA UpdatePathRebuilds ==
    ASSUME NEW nodes, NEW i
    PROVE  \E f : /\ f[0] = nodes
                  /\ \A l \in 1 .. Depth : f[l] = hashedAt(f[l - 1], above(i)[l])
                  /\ updatePath(nodes, i) = f[Depth]
<1> DEFINE after == CHOOSE f : Rebuilds(f, nodes, i, Depth)
<1>1. updatePath(nodes, i) = after[Depth]
      BY DEF updatePath, Rebuilds, hashedAt
<1>2. Rebuilds(after, nodes, i, Depth)
      BY RebuildExists, Zenon
<1> HIDE DEF after
<1>3. \A l \in 0 .. Depth : after[l] = IF l = 0 THEN nodes ELSE hashedAt(after[l - 1], above(i)[l])
      BY <1>2, Zenon DEF Rebuilds
<1>4. Depth \in Nat
      BY DepthAssumption
<1>5. QED
      BY <1>1, <1>3, <1>4

\* An inner node's children are nodes, and the node above each of them is it.
LEMMA ChildrenOf ==
    ASSUME NEW p \in innerPlace
    PROVE  /\ p \in nodePlace
           /\ 2 * p + 1 \in nodePlace /\ 2 * p + 2 \in nodePlace
           /\ (2 * p + 1 - 1) \div 2 = p /\ (2 * p + 2 - 1) \div 2 = p
           /\ p < 2 * p + 1 /\ p < 2 * p + 2
<1>1. p \in Nat /\ capacity \in Nat /\ nodeCount = 2 * capacity - 1 /\ p <= capacity - 2
      BY ArrayShape DEF innerPlace
<1>2. QED
      BY <1>1 DEF nodePlace

\* Every node on the leaf's way is the hash of its children again, and no other
\* node has changed.
LEMMA PathIsHashed ==
    ASSUME NEW nodes, isArray(nodes), NEW i \in leafPlace
    PROVE  /\ isArray(updatePath(nodes, i))
           /\ \A n \in nodePlace :
                (\A m \in 1 .. Depth : n # above(i)[m]) => updatePath(nodes, i)[n] = nodes[n]
           /\ \A m \in 1 .. Depth : hashed(updatePath(nodes, i), above(i)[m])
<1>0. Depth \in Nat
      BY DepthAssumption
<1>1. PICK f : /\ f[0] = nodes
               /\ \A l \in 1 .. Depth : f[l] = hashedAt(f[l - 1], above(i)[l])
               /\ updatePath(nodes, i) = f[Depth]
      BY UpdatePathRebuilds
<1> DEFINE good(l) ==
               /\ isArray(f[l])
               /\ \A n \in nodePlace : (\A m \in 1 .. l : n # above(i)[m]) => f[l][n] = nodes[n]
               /\ \A m \in 1 .. l : hashed(f[l], above(i)[m])
           bad == {l \in 0 .. Depth : ~ good(l)}
<1>2. SUFFICES ASSUME bad # {} PROVE FALSE
      <2>1. good(Depth)
            BY <1>0, <1>2
      <2>2. QED
            BY <1>1, <2>1
<1>3. PICK l \in bad : \A k \in bad : l <= k
      <2>1. bad \subseteq Nat
            BY <1>0
      <2> HIDE DEF bad
      <2>2. QED
            BY <1>2, <2>1, LeastNumber, Zenon
<1>4. l \in 0 .. Depth /\ ~ good(l)
      BY <1>3
<1>5. l # 0
      <2>1. good(0)
            BY <1>1
      <2>2. QED
            BY <1>4, <2>1
<1>6. l - 1 \in 0 .. Depth /\ ~ (l - 1 \in bad)
      <2>1. l - 1 \in 0 .. Depth /\ ~ (l <= l - 1)
            BY <1>0, <1>4, <1>5
      <2> HIDE DEF bad, good
      <2>2. QED
            BY <1>3, <2>1
<1>7. good(l - 1)
      <2> HIDE DEF good
      <2>1. QED
            BY <1>6
<1> DEFINE p == above(i)[l]
           old == f[l - 1]
           new == f[l]
<1>8. l \in 1 .. Depth /\ l - 1 \in Nat
      BY <1>0, <1>4, <1>5
<1>9. new = hashedAt(old, p)
      BY <1>1, <1>8
<1>10. p \in innerPlace
      BY <1>8, WayUp
<1>11. isArray(new) /\ new[p] = hashPair(old[2 * p + 1], old[2 * p + 2])
       /\ \A n \in nodePlace : n # p => new[n] = old[n]
      <2>1. isArray(old)
            BY <1>7
      <2> HIDE DEF old, new, p, good, bad
      <2>2. QED
            BY <1>9, <1>10, <2>1, ChildrenOf DEF isArray, hashedAt
<1>12. ASSUME NEW n \in nodePlace, \A m \in 1 .. l : n # above(i)[m]
       PROVE  new[n] = nodes[n]
      <2>1. n # p
            BY <1>8, <1>12
      <2>2. \A m \in 1 .. l - 1 : m \in 1 .. l
            BY <1>8
      <2>3. old[n] = nodes[n]
            BY <1>7, <1>12, <2>2
      <2>4. QED
            BY <1>11, <2>1, <2>3
<1>13. ASSUME NEW m \in 1 .. l PROVE hashed(new, above(i)[m])
      <2> DEFINE q == above(i)[m]
      <2>1. m \in 1 .. Depth
            BY <1>0, <1>8
      <2>2. /\ q \in innerPlace /\ q \in nodePlace
            /\ 2 * q + 1 \in nodePlace /\ 2 * q + 2 \in nodePlace
            /\ q < 2 * q + 1 /\ q < 2 * q + 2
            BY <2>1, WayUp, ChildrenOf
      <2>3. CASE m = l
            <3>1. 2 * q + 1 # q /\ 2 * q + 2 # q /\ q = p
                  <4>1. q \in Nat
                        BY <2>2 DEF innerPlace
                  <4> HIDE DEF q
                  <4>2. 2 * q + 1 # q /\ 2 * q + 2 # q
                        BY <4>1
                  <4>3. QED
                        BY <2>3, <4>2 DEF q
            <3> HIDE DEF new, old, p, q, good, bad
            <3>2. new[2 * q + 1] = old[2 * q + 1] /\ new[2 * q + 2] = old[2 * q + 2]
                  BY <1>11, <2>2, <3>1
            <3>3. hashed(new, q)
                  BY <1>11, <3>1, <3>2 DEF hashed
            <3>4. QED
                  BY <3>3 DEF q
      <2>4. CASE m # l
            <3>1. m \in 1 .. l - 1 /\ l \in m + 1 .. Depth /\ m \in 0 .. Depth
                  BY <1>0, <1>8, <2>4
            <3>2. hashed(old, q)
                  BY <1>7, <3>1
            <3>3. p < q
                  BY <3>1, WayDescends
            <3>4. q # p /\ 2 * q + 1 # p /\ 2 * q + 2 # p
                  <4>1. q \in Nat /\ p \in Nat
                        BY <1>10, <2>2 DEF innerPlace
                  <4> HIDE DEF q, p
                  <4>2. QED
                        BY <3>3, <4>1
            <3> HIDE DEF new, old, p, q, good, bad
            <3>5. new[q] = old[q] /\ new[2 * q + 1] = old[2 * q + 1] /\ new[2 * q + 2] = old[2 * q + 2]
                  BY <1>11, <2>2, <3>4
            <3>6. hashed(new, q)
                  BY <3>2, <3>5 DEF hashed
            <3>7. QED
                  BY <3>6 DEF q
      <2>5. QED
            BY <2>3, <2>4
<1>14. good(l)
      BY <1>11, <1>12, <1>13
<1>15. QED
      BY <1>4, <1>14

-------------------------------------------------------------------------------
(* Insertion keeps what proofs rest on.                                    *)

\* The j-th leaf is in its place, and every node above it is hashed.
covered(nodes, leaves, j) ==
    /\ nodes[capacity - 1 + j] = leaves[j + 1]
    /\ \A l \in 1 .. Depth : hashed(nodes, above(capacity - 1 + j)[l])

covers(nodes, leaves, n) == \A j \in 0 .. n - 1 : covered(nodes, leaves, j)

LEMMA LeafPlaces ==
    ASSUME NEW j \in Nat, j < capacity
    PROVE  /\ capacity - 1 + j \in leafPlace
           /\ capacity - 1 + j \in nodePlace
           /\ capacity - 1 + j \notin innerPlace
BY ArrayShape DEF leafPlace, nodePlace, innerPlace

\* A new leaf beside n covered ones makes n + 1 covered leaves: the ways of the
\* old leaves meet the new one's in nodes that were hashed again, and below
\* those nothing has changed.
LEMMA PlacingCovers ==
    ASSUME NEW nodes, isArray(nodes), NEW n \in Nat, n < capacity, NEW leaves,
           covers(nodes, leaves, n),
           NEW new, new = updatePath([nodes EXCEPT ![capacity - 1 + n] = leaves[n + 1]], capacity - 1 + n)
    PROVE  isArray(new) /\ covers(new, leaves, n + 1)
<1> DEFINE place == capacity - 1 + n
           with == [nodes EXCEPT ![place] = leaves[n + 1]]
           onWay(k) == \E m \in 1 .. Depth : k = above(place)[m]
<1>0. Depth \in Nat /\ Depth # 0 /\ capacity \in Nat
      BY DepthAssumption, ArrayShape
<1>1. place \in leafPlace /\ place \in nodePlace /\ place \notin innerPlace
      BY LeafPlaces
<1>2. /\ isArray(with) /\ with[place] = leaves[n + 1]
      /\ \A k \in nodePlace : k # place => with[k] = nodes[k]
      <2> HIDE DEF place
      <2>1. QED
            BY <1>1 DEF isArray
<1> HIDE DEF with
<1>3. /\ isArray(new)
      /\ \A k \in nodePlace : ~ onWay(k) => new[k] = with[k]
      /\ \A m \in 1 .. Depth : hashed(new, above(place)[m])
      <2>1. new = updatePath(with, place)
            BY DEF with
      <2> HIDE DEF place
      <2>2. QED
            BY <1>1, <1>2, <2>1, PathIsHashed, Zenon
<1>4. \A k : onWay(k) => k \in innerPlace
      BY <1>1, WayUp, Zenon
<1>5. covered(new, leaves, n)
      <2>1. new[place] = leaves[n + 1]
            BY <1>1, <1>2, <1>3, <1>4, Zenon
      <2>2. QED
            BY <1>3, <2>1 DEF covered
<1>6. ASSUME NEW j \in 0 .. n - 1
      PROVE  covered(new, leaves, j)
      <2> DEFINE own == capacity - 1 + j
      <2>1. own \in leafPlace /\ own \in nodePlace /\ own \notin innerPlace /\ own # place
            BY <1>0, LeafPlaces
      <2>2. covered(nodes, leaves, j)
            BY DEF covers
      <2>3. new[own] = leaves[j + 1]
            <3>1. new[own] = nodes[own]
                  <4> HIDE DEF own, place, onWay
                  <4>1. QED
                        BY <1>2, <1>3, <1>4, <2>1, Zenon
            <3>2. QED
                  BY <2>2, <3>1 DEF covered
      <2>4. ASSUME NEW l \in 1 .. Depth
            PROVE  hashed(new, above(own)[l])
            <3> DEFINE p == above(own)[l]
            <3>1. p \in innerPlace /\ hashed(nodes, p)
                  BY <2>1, <2>2, WayUp DEF covered
            <3> HIDE DEF p
            <3>2. CASE onWay(p)
                  <4>1. hashed(new, p)
                        BY <1>3, <3>2
                  <4>2. QED
                        BY <4>1 DEF p
            <3>3. CASE ~ onWay(p)
                  <4>1. ASSUME NEW c \in {p, 2 * p + 1, 2 * p + 2}
                        PROVE  new[c] = nodes[c]
                        <5>1. c \in nodePlace
                              BY <3>1, ChildrenOf
                        <5>2. ~ onWay(c)
                              <6>1. CASE c = p
                                    BY <3>3, <6>1
                              <6>2. CASE c # p
                                    <7>1. (c - 1) \div 2 = p /\ c # 0
                                          BY <3>1, <6>2, ChildrenOf DEF innerPlace
                                    <7>2. ASSUME NEW m \in 1 .. Depth, c = above(place)[m]
                                          PROVE  FALSE
                                          <8>1. m # Depth
                                                BY <1>1, <7>1, <7>2, WayUp
                                          <8>2. m + 1 \in 1 .. Depth /\ m + 1 - 1 = m
                                                BY <1>0, <8>1
                                          <8>3. above(place)[m + 1] = p
                                                BY <7>1, <7>2, <8>2, AboveClimbs
                                          <8>4. QED
                                                BY <3>3, <8>2, <8>3
                                    <7>3. QED
                                          BY <7>2
                              <6>3. QED
                                    BY <6>1, <6>2
                        <5>3. c # place
                              <6>1. CASE c = p
                                    BY <1>1, <3>1, <6>1
                              <6>2. CASE c # p
                                    <7>1. (c - 1) \div 2 = p
                                          BY <3>1, <6>2, ChildrenOf DEF innerPlace
                                    <7>2. 1 \in 1 .. Depth /\ 1 - 1 = 0
                                          BY <1>0
                                    <7>3. c = place => above(place)[1] = p
                                          BY <7>1, <7>2, AboveClimbs
                                    <7>4. QED
                                          BY <3>3, <7>2, <7>3
                              <6>3. QED
                                    BY <6>1, <6>2
                        <5>4. QED
                              BY <1>2, <1>3, <5>1, <5>2, <5>3
                  <4>2. hashed(new, p)
                        BY <3>1, <4>1 DEF hashed
                  <4>3. QED
                        BY <4>2 DEF p
            <3>4. QED
                  BY <3>2, <3>3
      <2>5. QED
            BY <2>3, <2>4 DEF covered
<1>7. ASSUME NEW j \in 0 .. (n + 1) - 1
      PROVE  covered(new, leaves, j)
      <2>1. j = n \/ j \in 0 .. n - 1
            OBVIOUS
      <2>2. QED
            BY <1>5, <1>6, <2>1
<1>8. QED
      BY <1>3, <1>7 DEF covers

-------------------------------------------------------------------------------
(* A proof of a covered leaf leads to the root.                            *)

oneUp(proof, l, x) ==
    IF proof.directions[l] THEN hashPair(x, proof.siblings[l]) ELSE hashPair(proof.siblings[l], x)

\* h is what the verifier has in hand after each sibling.
Follows(h, proof, n) ==
    h = [l \in 0 .. n |-> IF l = 0 THEN proof.leafHash ELSE oneUp(proof, l, h[l - 1])]

LEMMA FollowExists ==
    ASSUME NEW proof
    PROVE  \E h : Follows(h, proof, Depth)
<1> DEFINE bad == {n \in 0 .. Depth : ~ \E h : Follows(h, proof, n)}
<1>0. Depth \in Nat
      BY DepthAssumption
<1>1. SUFFICES ASSUME bad # {} PROVE FALSE
      BY <1>0
<1>2. PICK m \in bad : \A k \in bad : m <= k
      <2>1. bad \subseteq Nat
            BY <1>0
      <2> HIDE DEF bad
      <2>2. QED
            BY <1>1, <2>1, LeastNumber, Zenon
<1>3. m \in 0 .. Depth /\ ~ \E h : Follows(h, proof, m)
      BY <1>2
<1>4. m # 0
      <2>1. Follows([l \in 0 .. 0 |-> proof.leafHash], proof, 0)
            BY DEF Follows
      <2>2. QED
            BY <1>3, <2>1
<1>5. m - 1 \in 0 .. Depth /\ ~ (m - 1 \in bad)
      <2>1. m - 1 \in 0 .. Depth /\ ~ (m <= m - 1)
            BY <1>0, <1>3, <1>4
      <2> HIDE DEF bad
      <2>2. QED
            BY <1>2, <2>1
<1>6. PICK h : Follows(h, proof, m - 1)
      BY <1>5
<1> DEFINE g == [l \in 0 .. m |-> IF l = m THEN oneUp(proof, m, h[m - 1]) ELSE h[l]]
<1>7. Follows(g, proof, m)
      BY <1>0, <1>3, <1>4, <1>6 DEF Follows
<1>8. QED
      BY <1>3, <1>7

\* What VerifyMerkleProof compares with the root.
LEMMA VerifierFollows ==
    ASSUME NEW proof, NEW root
    PROVE  \E h : /\ h[0] = proof.leafHash
                  /\ \A l \in 1 .. Depth : h[l] = oneUp(proof, l, h[l - 1])
                  /\ VerifyMerkleProof(proof, root) <=> h[Depth] = root
<1> DEFINE hash == CHOOSE h : Follows(h, proof, Depth)
<1>1. VerifyMerkleProof(proof, root) <=> hash[Depth] = root
      BY DEF VerifyMerkleProof, Follows, oneUp
<1>2. Follows(hash, proof, Depth)
      BY FollowExists, Zenon
<1> HIDE DEF hash
<1>3. \A l \in 0 .. Depth : hash[l] = IF l = 0 THEN proof.leafHash ELSE oneUp(proof, l, hash[l - 1])
      BY <1>2, Zenon DEF Follows
<1>4. Depth \in Nat
      BY DepthAssumption
<1>5. QED
      BY <1>1, <1>3, <1>4

LEMMA CoveredProves ==
    ASSUME NEW t, NEW j \in Nat, j < capacity, covered(t.nodes, t.leaves, j)
    PROVE  proves(GenerateProof(t, j), t.leaves[j + 1], Root(t))
<1> DEFINE i == capacity - 1 + j
           way == above(i)
           proof == GenerateProof(t, j)
<1>0. Depth \in Nat
      BY DepthAssumption
<1>1. i \in leafPlace
      BY LeafPlaces
<1>2. /\ proof.leafHash = t.leaves[j + 1]
      /\ \A l \in 1 .. Depth : /\ proof.siblings[l] = nodeAt(t, sibling(way[l - 1]))
                               /\ proof.directions[l] = isLeft(way[l - 1])
      BY DEF GenerateProof
<1>3. /\ t.nodes[i] = t.leaves[j + 1]
      /\ \A l \in 1 .. Depth : hashed(t.nodes, way[l])
      BY DEF covered
<1>4. PICK h : /\ h[0] = proof.leafHash
               /\ \A l \in 1 .. Depth : h[l] = oneUp(proof, l, h[l - 1])
               /\ VerifyMerkleProof(proof, Root(t)) <=> h[Depth] = Root(t)
      <2> HIDE DEF proof
      <2>1. QED
            BY VerifierFollows
<1> HIDE DEF proof, i
<1> DEFINE bad == {l \in 0 .. Depth : h[l] # t.nodes[way[l]]}
<1>5. bad = {}
      <2>1. SUFFICES ASSUME bad # {} PROVE FALSE
            OBVIOUS
      <2>2. PICK m \in bad : \A k \in bad : m <= k
            <3>1. bad \subseteq Nat
                  BY <1>0
            <3> HIDE DEF bad
            <3>2. QED
                  BY <2>1, <3>1, LeastNumber, Zenon
      <2>3. m \in 0 .. Depth /\ h[m] # t.nodes[way[m]]
            BY <2>2
      <2>4. m # 0
            BY <1>2, <1>3, <1>4, <2>3, AboveClimbs
      <2>5. m \in 1 .. Depth /\ m - 1 \in 0 .. Depth /\ ~ (m - 1 \in bad)
            <3>1. m \in 1 .. Depth /\ m - 1 \in 0 .. Depth /\ ~ (m <= m - 1)
                  BY <1>0, <2>3, <2>4
            <3> HIDE DEF bad
            <3>2. QED
                  BY <2>2, <3>1
      <2> DEFINE c == way[m - 1]
                 p == way[m]
      <2>6. h[m - 1] = t.nodes[c]
            BY <2>5
      <2>7. /\ c \in Nat /\ c >= 1 /\ p \in innerPlace
            /\ p = (c - 1) \div 2
            BY <1>1, <2>5, WayUp, AboveClimbs
      <2>8. /\ h[m] = oneUp(proof, m, t.nodes[c])
            /\ proof.siblings[m] = nodeAt(t, sibling(c))
            /\ proof.directions[m] = isLeft(c)
            /\ hashed(t.nodes, p)
            BY <1>2, <1>3, <1>4, <2>5, <2>6
      <2> HIDE DEF c, p, bad, way
      <2>9. /\ 2 * p + 1 < nodeCount /\ 2 * p + 2 < nodeCount /\ p \in Nat
            BY <2>7, ChildrenOf, ArrayShape DEF nodePlace, innerPlace
      <2>10. CASE isLeft(c)
             <3>1. c = 2 * p + 1 /\ sibling(c) = 2 * p + 2
                   BY <2>7, <2>9, <2>10, ParentOf DEF sibling
             <3>2. QED
                   BY <2>3, <2>8, <2>9, <2>10, <3>1 DEF oneUp, nodeAt, hashed, p
      <2>11. CASE ~ isLeft(c)
             <3>1. c = 2 * p + 2 /\ sibling(c) = 2 * p + 1
                   BY <2>7, <2>9, <2>11, ParentOf DEF sibling
             <3>2. QED
                   BY <2>3, <2>8, <2>9, <2>11, <3>1 DEF oneUp, nodeAt, hashed, p
      <2>12. QED
             BY <2>10, <2>11
<1>6. h[Depth] = t.nodes[0]
      <2>1. Depth \in 0 .. Depth /\ way[Depth] = 0
            BY <1>0, <1>1, WayUp
      <2>2. QED
            BY <1>5, <2>1
<1>7. QED
      BY <1>2, <1>4, <1>6 DEF proves, Root, proof

-------------------------------------------------------------------------------
(* A tree that no two insertions tore.                                     *)

Stage == {"resting", "sent", "mined", "known", "room", "appended", "placed"}

Leaf == {hashLeaf(k) : k \in Mpk \cup {NoMpk}}

Creation == [at : Stage, key : Mpk \cup {NoMpk}, leaves : Seq(Leaf), size : Nat]

inside(x) == x.at \in {"room", "appended", "placed"}
holdsLeaf(x) == x.at \in {"appended", "placed"}

\* What a request inside Insert knows of the tree t.
knows(t, x) ==
    /\ x.at = "room" => x.leaves = t.leaves /\ t.size < capacity
    /\ holdsLeaf(x) => Len(t.leaves) = t.size + 1 /\ t.size < capacity
    /\ x.at = "appended" => t.leaves[t.size + 1] = hashLeaf(x.key)
    /\ x.at = "placed" => x.size = t.size /\ covers(t.nodes, t.leaves, t.size + 1)

isTree(t) ==
    /\ t = [leaves |-> t.leaves, nodes |-> t.nodes, size |-> t.size]
    /\ t.leaves \in Seq(Leaf) /\ isArray(t.nodes)
    /\ t.size \in 0 .. capacity
    /\ covers(t.nodes, t.leaves, t.size)

oneInside(c) == \A r, o \in Request : inside(c[r]) /\ inside(c[o]) => r = o

\* The tree t is whole while the creations stand at c.
Whole(t, c) ==
    /\ c \in [Request -> Creation]
    /\ isTree(t)
    /\ oneInside(c)
    /\ (\A r \in Request : ~ holdsLeaf(c[r])) => Len(t.leaves) = t.size
    /\ \A r \in Request : knows(t, c[r])

Untorn == ~ torn => Whole(MerkleTree, creating)

LEMMA EmptyTree ==
    isTree(NewMerkleTree) /\ Len(NewMerkleTree.leaves) = NewMerkleTree.size /\ NewMerkleTree.size = 0
<1> DEFINE zeros == [i \in 0 .. nodeCount - 1 |-> zeroHash]
<1>1. NewMerkleTree = [leaves |-> <<>>, nodes |-> zeros, size |-> 0]
      BY DEF NewMerkleTree
<1>2. isArray(zeros)
      BY DEF isArray, nodePlace
<1> HIDE DEF zeros
<1>3. covers(zeros, <<>>, 0)
      BY DEF covers
<1>4. QED
      BY <1>1, <1>2, <1>3, ArrayShape DEF isTree

LEMMA WholeAtFirst ==
    Whole(NewMerkleTree, [r \in Request |-> resting])
<1> DEFINE c == [r \in Request |-> resting]
<1>1. resting \in Creation /\ resting.at = "resting"
      BY DEF resting, Creation, Stage
<1>2. c \in [Request -> Creation] /\ \A r \in Request : c[r].at = "resting"
      BY <1>1
<1> HIDE DEF c
<1>3. \A r \in Request : ~ inside(c[r]) /\ ~ holdsLeaf(c[r])
      BY <1>2 DEF inside, holdsLeaf
<1>4. \A r \in Request : knows(NewMerkleTree, c[r])
      BY <1>2, <1>3 DEF knows
<1>5. QED
      BY <1>2, <1>3, <1>4, EmptyTree DEF Whole, oneInside, c

\* A request outside Insert that stays outside touches nothing.
LEMMA StaysOutside ==
    ASSUME NEW t, NEW c, Whole(t, c), NEW r \in Request, ~ inside(c[r]),
           NEW x \in Creation, ~ inside(x)
    PROVE  Whole(t, [c EXCEPT ![r] = x])
<1> DEFINE d == [c EXCEPT ![r] = x]
<1>1. /\ d \in [Request -> Creation] /\ d[r] = x
      /\ \A o \in Request : o # r => d[o] = c[o]
      BY DEF Whole
<1> HIDE DEF d
<1>2. ~ holdsLeaf(c[r]) /\ ~ holdsLeaf(x) /\ knows(t, x)
      BY DEF inside, holdsLeaf, knows
<1>3. oneInside(d)
      BY <1>1 DEF Whole, oneInside
<1>4. (\A o \in Request : ~ holdsLeaf(d[o])) => \A o \in Request : ~ holdsLeaf(c[o])
      BY <1>1, <1>2
<1>5. \A o \in Request : knows(t, d[o])
      BY <1>1, <1>2 DEF Whole
<1>6. QED
      BY <1>1, <1>3, <1>4, <1>5 DEF Whole, d

\* A request that finds room, with nobody else inside.
LEMMA FindsRoom ==
    ASSUME NEW t, NEW c, Whole(t, c), NEW r \in Request, \A o \in Request : ~ inside(c[o]),
           t.size < capacity
    PROVE  Whole(t, [c EXCEPT ![r].at = "room", ![r].leaves = t.leaves])
<1> DEFINE d == [c EXCEPT ![r].at = "room", ![r].leaves = t.leaves]
<1>1. t.leaves \in Seq(Leaf) /\ c[r] \in Creation
      BY DEF Whole, isTree
<1>2. /\ d \in [Request -> Creation] /\ d[r].at = "room" /\ d[r].leaves = t.leaves
      /\ \A o \in Request : o # r => d[o] = c[o]
      BY <1>1 DEF Whole, Creation, Stage
<1> HIDE DEF d
<1>3. ~ holdsLeaf(c[r]) /\ ~ holdsLeaf(d[r]) /\ knows(t, d[r])
      BY <1>2 DEF inside, holdsLeaf, knows
<1>4. oneInside(d)
      BY <1>2 DEF oneInside
<1>5. (\A o \in Request : ~ holdsLeaf(d[o])) => \A o \in Request : ~ holdsLeaf(c[o])
      BY <1>2, <1>3
<1>6. \A o \in Request : knows(t, d[o])
      BY <1>2, <1>3 DEF Whole
<1>7. QED
      BY <1>2, <1>4, <1>5, <1>6 DEF Whole, d

\* Who moves inside Insert is alone there, so that what the others know is
\* nothing.
LEMMA MovesAlone ==
    ASSUME NEW t, NEW c, Whole(t, c), NEW r \in Request, inside(c[r]),
           NEW s, isTree(s), NEW x \in Creation, knows(s, x),
           ~ holdsLeaf(x) => Len(s.leaves) = s.size
    PROVE  Whole(s, [c EXCEPT ![r] = x])
<1> DEFINE d == [c EXCEPT ![r] = x]
<1>1. /\ d \in [Request -> Creation] /\ d[r] = x
      /\ \A o \in Request : o # r => d[o] = c[o]
      BY DEF Whole
<1> HIDE DEF d
<1>2. \A o \in Request : o # r => ~ inside(d[o])
      BY <1>1 DEF Whole, oneInside
<1>3. \A o \in Request : o # r => knows(s, d[o])
      BY <1>2 DEF inside, holdsLeaf, knows
<1>4. oneInside(d)
      BY <1>2 DEF oneInside
<1>5. QED
      BY <1>1, <1>3, <1>4 DEF Whole, d

\* The leaf is appended to the slice.
LEMMA AppendsLeaf ==
    ASSUME NEW t, NEW c, Whole(t, c), NEW r \in Request, c[r].at = "room",
           NEW s, s = [t EXCEPT !.leaves = Append(t.leaves, hashLeaf(c[r].key))]
    PROVE  Whole(s, [c EXCEPT ![r].at = "appended", ![r].leaves = <<>>])
<1> DEFINE x == [c[r] EXCEPT !.at = "appended", !.leaves = <<>>]
           leaf == hashLeaf(c[r].key)
<1>1. c \in [Request -> Creation] /\ c[r] \in Creation /\ leaf \in Leaf
      BY DEF Whole, Creation, Leaf
<1>2. x \in Creation /\ x.at = "appended" /\ x.key = c[r].key
      <2> HIDE DEF leaf
      <2>1. <<>> \in Seq(Leaf)
            OBVIOUS
      <2>2. QED
            BY <1>1, <2>1 DEF Creation, Stage
<1>3. inside(c[r]) /\ \A o \in Request : ~ holdsLeaf(c[o])
      BY DEF Whole, oneInside, inside, holdsLeaf
<1>4. /\ t.leaves \in Seq(Leaf) /\ t.size \in 0 .. capacity /\ t.size < capacity
      /\ Len(t.leaves) = t.size
      /\ isArray(t.nodes) /\ covers(t.nodes, t.leaves, t.size)
      /\ t = [leaves |-> t.leaves, nodes |-> t.nodes, size |-> t.size]
      BY <1>3 DEF Whole, isTree, knows
<1>5. s.leaves = Append(t.leaves, leaf) /\ s.nodes = t.nodes /\ s.size = t.size
      /\ s = [leaves |-> s.leaves, nodes |-> s.nodes, size |-> s.size]
      BY <1>4
<1> HIDE DEF leaf, x
<1>6. /\ s.leaves \in Seq(Leaf) /\ Len(s.leaves) = s.size + 1
      /\ s.leaves[s.size + 1] = leaf
      /\ \A j \in 0 .. t.size - 1 : s.leaves[j + 1] = t.leaves[j + 1]
      BY <1>1, <1>4, <1>5
<1>7. covers(s.nodes, s.leaves, s.size)
      BY <1>4, <1>5, <1>6 DEF covers, covered
<1>8. isTree(s) /\ knows(s, x)
      <2>1. isTree(s)
            BY <1>4, <1>5, <1>6, <1>7 DEF isTree
      <2>2. knows(s, x)
            BY <1>2, <1>4, <1>5, <1>6 DEF knows, leaf
      <2>3. QED
            BY <2>1, <2>2
<1>9. holdsLeaf(x)
      BY <1>2 DEF holdsLeaf
<1>10. [c EXCEPT ![r].at = "appended", ![r].leaves = <<>>] = [c EXCEPT ![r] = x]
      BY <1>1 DEF x
<1>11. QED
      BY <1>2, <1>3, <1>8, <1>9, <1>10, MovesAlone

\* The leaf is placed and its way hashed.
LEMMA PlacesLeaf ==
    ASSUME NEW t, NEW c, Whole(t, c), NEW r \in Request, c[r].at = "appended",
           NEW s, s = [t EXCEPT !.nodes =
               updatePath([@ EXCEPT ![capacity - 1 + t.size] = hashLeaf(c[r].key)], capacity - 1 + t.size)]
    PROVE  Whole(s, [c EXCEPT ![r].at = "placed", ![r].size = t.size])
<1> DEFINE x == [c[r] EXCEPT !.at = "placed", !.size = t.size]
           leaf == hashLeaf(c[r].key)
           hashes == updatePath([t.nodes EXCEPT ![capacity - 1 + t.size] = leaf], capacity - 1 + t.size)
<1>1. c \in [Request -> Creation] /\ c[r] \in Creation
      BY DEF Whole
<1>2. inside(c[r]) /\ holdsLeaf(c[r])
      BY DEF inside, holdsLeaf
<1>3. /\ t.leaves \in Seq(Leaf) /\ t.size \in 0 .. capacity /\ t.size < capacity
      /\ Len(t.leaves) = t.size + 1 /\ t.leaves[t.size + 1] = leaf
      /\ isArray(t.nodes) /\ covers(t.nodes, t.leaves, t.size)
      /\ t = [leaves |-> t.leaves, nodes |-> t.nodes, size |-> t.size]
      BY <1>2 DEF Whole, isTree, knows
<1> HIDE DEF leaf, hashes
<1>4. s.leaves = t.leaves /\ s.nodes = hashes /\ s.size = t.size
      /\ s = [leaves |-> s.leaves, nodes |-> s.nodes, size |-> s.size]
      BY <1>3 DEF leaf, hashes
<1>5. t.size \in Nat /\ capacity \in Nat
      BY <1>3, ArrayShape
<1>6. hashes = updatePath([t.nodes EXCEPT ![capacity - 1 + t.size] = t.leaves[t.size + 1]], capacity - 1 + t.size)
      BY <1>3 DEF hashes
<1>7. isArray(hashes) /\ covers(hashes, t.leaves, t.size + 1)
      BY <1>3, <1>5, <1>6, PlacingCovers
<1>8. covers(hashes, t.leaves, t.size)
      BY <1>5, <1>7 DEF covers
<1>9. x \in Creation /\ x.at = "placed" /\ x.size = t.size
      BY <1>1, <1>5 DEF Creation, Stage
<1> HIDE DEF x
<1>10. isTree(s)
      BY <1>3, <1>4, <1>7, <1>8 DEF isTree
<1>11. knows(s, x) /\ holdsLeaf(x)
      BY <1>3, <1>4, <1>7, <1>9 DEF knows, holdsLeaf
<1>12. [c EXCEPT ![r].at = "placed", ![r].size = t.size] = [c EXCEPT ![r] = x]
      BY <1>1 DEF x
<1>13. QED
      BY <1>2, <1>9, <1>10, <1>11, <1>12, MovesAlone

\* The size is counted up, and the request is done.
LEMMA CountsLeaf ==
    ASSUME NEW t, NEW c, Whole(t, c), NEW r \in Request, c[r].at = "placed",
           NEW s, s = [t EXCEPT !.size = t.size + 1]
    PROVE  Whole(s, [c EXCEPT ![r] = resting])
<1>1. inside(c[r]) /\ holdsLeaf(c[r])
      BY DEF inside, holdsLeaf
<1>2. /\ t.leaves \in Seq(Leaf) /\ t.size \in 0 .. capacity /\ t.size < capacity
      /\ Len(t.leaves) = t.size + 1
      /\ isArray(t.nodes) /\ covers(t.nodes, t.leaves, t.size + 1)
      /\ t = [leaves |-> t.leaves, nodes |-> t.nodes, size |-> t.size]
      BY <1>1 DEF Whole, isTree, knows
<1>3. s.leaves = t.leaves /\ s.nodes = t.nodes /\ s.size = t.size + 1
      /\ s = [leaves |-> s.leaves, nodes |-> s.nodes, size |-> s.size]
      BY <1>2
<1>4. s.size \in 0 .. capacity
      BY <1>2, <1>3, ArrayShape
<1>5. isTree(s)
      BY <1>2, <1>3, <1>4 DEF isTree
<1>6. resting \in Creation /\ resting.at = "resting"
      BY DEF resting, Creation, Stage
<1>7. knows(s, resting)
      BY <1>6 DEF knows, holdsLeaf
<1>8. Len(s.leaves) = s.size
      BY <1>2, <1>3
<1>9. QED
      BY <1>1, <1>5, <1>6, <1>7, <1>8, MovesAlone

\* A step of a creation keeps an untorn tree whole.
LEMMA CreationKeepsWhole ==
    ASSUME Untorn, NEW r \in Request, creationStep(r), ~ torn'
    PROVE  Whole(MerkleTree, creating)'
<1> DEFINE t == MerkleTree
           c == creating
<1>1. ~ torn
      BY DEF creationStep, mined, lookedUp, callFails, hasRoom, appended, placed, grown
<1>2. Whole(t, c)
      BY <1>1 DEF Untorn
<1>3. c \in [Request -> Creation] /\ c[r] \in Creation
      BY <1>2 DEF Whole
<1>4. resting \in Creation /\ ~ inside(resting)
      BY DEF resting, Creation, Stage, inside
<1>5. CASE mined(r)
      <2> DEFINE x == [c[r] EXCEPT !.at = "mined"]
      <2>1. ~ inside(c[r]) /\ x \in Creation /\ ~ inside(x)
            BY <1>3, <1>5 DEF mined, Creation, Stage, inside
      <2>2. t' = t /\ c' = [c EXCEPT ![r] = x]
            BY <1>3, <1>5 DEF mined, onlyHandler
      <2> HIDE DEF x, t, c
      <2>3. Whole(t, [c EXCEPT ![r] = x])
            BY <1>2, <2>1, StaysOutside
      <2>4. QED
            BY <2>2, <2>3 DEF t, c
<1>6. CASE lookedUp(r)
      <2> DEFINE x == [c[r] EXCEPT !.at = "known"]
      <2>1. ~ inside(c[r]) /\ x \in Creation /\ ~ inside(x)
            BY <1>3, <1>6 DEF lookedUp, Creation, Stage, inside
      <2>2. t' = t /\ c' = [c EXCEPT ![r] = x]
            BY <1>3, <1>6 DEF lookedUp, onlyHandler
      <2> HIDE DEF x, t, c
      <2>3. Whole(t, [c EXCEPT ![r] = x])
            BY <1>2, <2>1, StaysOutside
      <2>4. QED
            BY <2>2, <2>3 DEF t, c
<1>7. CASE callFails(r)
      <2>1. ~ inside(c[r]) /\ t' = t /\ c' = [c EXCEPT ![r] = resting]
            BY <1>7 DEF callFails, rest, onlyHandler, inside
      <2> HIDE DEF t, c
      <2>2. Whole(t, [c EXCEPT ![r] = resting])
            BY <1>2, <1>4, <2>1, StaysOutside
      <2>3. QED
            BY <2>1, <2>2 DEF t, c
<1>8. CASE hasRoom(r)
      <2>1. ~ inside(c[r]) /\ t' = t
            BY <1>8 DEF hasRoom, onlyHandler, inside
      <2>2. CASE t.size >= capacity
            <3>1. c' = [c EXCEPT ![r] = resting]
                  BY <1>8, <2>2 DEF hasRoom, rest
            <3> HIDE DEF t, c
            <3>2. Whole(t, [c EXCEPT ![r] = resting])
                  BY <1>2, <1>4, <2>1, StaysOutside
            <3>3. QED
                  BY <2>1, <3>1, <3>2 DEF t, c
      <2>3. CASE ~ (t.size >= capacity)
            <3>1. c' = [c EXCEPT ![r].at = "room", ![r].leaves = t.leaves]
                  BY <1>8, <2>3 DEF hasRoom
            <3>2. \A o \in Request : ~ inside(c[o])
                  BY <1>8, <2>3, Zenon DEF hasRoom, inInsert, inside
            <3>3. t.size < capacity
                  BY <1>2, <2>3, ArrayShape DEF Whole, isTree
            <3> HIDE DEF t, c
            <3>4. Whole(t, [c EXCEPT ![r].at = "room", ![r].leaves = t.leaves])
                  BY <1>2, <3>2, <3>3, FindsRoom
            <3>5. QED
                  BY <2>1, <3>1, <3>4 DEF t, c
      <2>4. QED
            BY <2>2, <2>3
<1>9. CASE appended(r)
      <2> DEFINE s == [t EXCEPT !.leaves = Append(t.leaves, hashLeaf(c[r].key))]
      <2>1. c[r].at = "room"
            BY <1>9 DEF appended
      <2>2. c[r].leaves = t.leaves
            BY <1>2, <2>1 DEF Whole, knows
      <2>3. t' = s /\ c' = [c EXCEPT ![r].at = "appended", ![r].leaves = <<>>]
            BY <1>9, <2>2 DEF appended
      <2>4. Whole(s, [c EXCEPT ![r].at = "appended", ![r].leaves = <<>>])
            <3> HIDE DEF t, c
            <3>1. QED
                  BY <1>2, <2>1, AppendsLeaf
      <2> HIDE DEF s, t, c
      <2>5. QED
            BY <2>3, <2>4 DEF t, c
<1>10. CASE placed(r)
      <2> DEFINE i == capacity - 1 + t.size
                 s == [t EXCEPT !.nodes = updatePath([@ EXCEPT ![i] = hashLeaf(c[r].key)], i)]
      <2>1. c[r].at = "appended"
            BY <1>10 DEF placed
      <2>2. ~ (i >= nodeCount)
            <3>1. t.size \in 0 .. capacity /\ t.size < capacity
                  BY <1>2, <2>1 DEF Whole, isTree, knows, holdsLeaf
            <3>2. QED
                  BY <3>1, ArrayShape
      <2>3. t' = s /\ c' = [c EXCEPT ![r].at = "placed", ![r].size = t.size]
            BY <1>10, <2>2 DEF placed
      <2>4. Whole(s, [c EXCEPT ![r].at = "placed", ![r].size = t.size])
            <3> HIDE DEF t, c
            <3>1. QED
                  BY <1>2, <2>1, PlacesLeaf
      <2> HIDE DEF s, t, c
      <2>5. QED
            BY <2>3, <2>4 DEF t, c
<1>11. CASE grown(r)
      <2> DEFINE s == [t EXCEPT !.size = t.size + 1]
      <2>1. c[r].at = "placed"
            BY <1>11 DEF grown
      <2>2. c[r].size = t.size
            BY <1>2, <2>1 DEF Whole, knows
      <2>3. t' = s /\ c' = [c EXCEPT ![r] = resting]
            BY <1>11, <2>2 DEF grown, rest
      <2>4. Whole(s, [c EXCEPT ![r] = resting])
            <3> HIDE DEF t, c
            <3>1. QED
                  BY <1>2, <2>1, CountsLeaf
      <2> HIDE DEF s, t, c
      <2>5. QED
            BY <2>3, <2>4 DEF t, c
<1>12. QED
      BY <1>5, <1>6, <1>7, <1>8, <1>9, <1>10, <1>11 DEF creationStep

LEMMA UntornNext ==
    ASSUME Untorn, [TreeNext]_treeVars
    PROVE  Untorn'
<1>1. ASSUME NEW r \in Request, NEW k \in Mpk, ~ torn, HandleCreateIdentity(r, k)
      PROVE  Untorn'
      <2> DEFINE x == [resting EXCEPT !.at = "sent", !.key = k]
      <2>1. Whole(MerkleTree, creating)
            BY <1>1 DEF Untorn
      <2>2. ~ inside(creating[r]) /\ x \in Creation /\ ~ inside(x)
            <3>1. <<>> \in Seq(Leaf)
                  OBVIOUS
            <3>2. QED
                  BY <1>1, <3>1 DEF HandleCreateIdentity, busy, resting, Creation, Stage, inside
      <2>3. MerkleTree' = MerkleTree /\ creating' = [creating EXCEPT ![r] = x]
            BY <1>1 DEF HandleCreateIdentity
      <2> HIDE DEF x
      <2>4. Whole(MerkleTree, [creating EXCEPT ![r] = x])
            BY <2>1, <2>2, StaysOutside
      <2>5. QED
            BY <2>3, <2>4 DEF Untorn
<1>2. ASSUME NEW r \in Request, creationStep(r)
      PROVE  Untorn'
      BY <1>2, CreationKeepsWhole DEF Untorn
<1>3. ASSUME MerkleTree' = MerkleTree, creating' = creating, torn' = torn
      PROVE  Untorn'
      BY <1>3 DEF Untorn
<1>4. ASSUME NEW k \in Mpk, HandleRegister(k)
      PROVE  Untorn'
      BY <1>3, <1>4 DEF HandleRegister
<1>5. CASE answered
      BY <1>3, <1>5 DEF answered
<1>6. CASE outsider
      BY <1>3, <1>6 DEF outsider
<1>7. CASE restart
      BY <1>7, WholeAtFirst DEF restart, Untorn
<1>8. CASE UNCHANGED treeVars
      BY <1>3, <1>8 DEF treeVars
<1>9. QED
      BY <1>1, <1>2, <1>4, <1>5, <1>6, <1>7, <1>8 DEF TreeNext

\* As long as no two insertions have overlapped in this process, the tree is
\* whole: its inner nodes are the hashes of their children above every leaf, and
\* the slice of leaves, the size and the array agree up to the leaf in hand.
THEOREM TreeStaysWhole == TreeSpec => []Untorn
<1>1. TreeInit => Untorn
      BY WholeAtFirst DEF TreeInit, Untorn
<1>2. Untorn /\ [TreeNext]_treeVars => Untorn'
      BY UntornNext
<1>3. QED
      BY <1>1, <1>2, PTL DEF TreeSpec

\* Between insertions every place of an untorn tree proves its leaf.
LEMMA WholeProves ==
    ASSUME Untorn
    PROVE  everyPlaceProves
<1>1. SUFFICES ASSUME ~ torn, \A r \in Request : ~ inInsert(r)
               PROVE  /\ MerkleTree.size = Len(MerkleTree.leaves) /\ MerkleTree.size <= capacity
                      /\ \A i \in 0 .. MerkleTree.size - 1 :
                            proves(GenerateProof(MerkleTree, i), MerkleTree.leaves[i + 1], Root(MerkleTree))
      BY DEF everyPlaceProves
<1>2. Whole(MerkleTree, creating)
      BY <1>1 DEF Untorn
<1>3. \A r \in Request : ~ holdsLeaf(creating[r])
      BY <1>1 DEF inInsert, holdsLeaf
<1>4. /\ MerkleTree.size \in 0 .. capacity /\ MerkleTree.size = Len(MerkleTree.leaves)
      /\ covers(MerkleTree.nodes, MerkleTree.leaves, MerkleTree.size)
      BY <1>2, <1>3 DEF Whole, isTree
<1>5. ASSUME NEW i \in 0 .. MerkleTree.size - 1
      PROVE  proves(GenerateProof(MerkleTree, i), MerkleTree.leaves[i + 1], Root(MerkleTree))
      <2>1. i \in Nat /\ i < capacity
            BY <1>4, ArrayShape
      <2>2. covered(MerkleTree.nodes, MerkleTree.leaves, i)
            BY <1>4 DEF covers
      <2>3. QED
            BY <2>1, <2>2, CoveredProves
<1>6. MerkleTree.size <= capacity
      BY <1>4, ArrayShape
<1>7. QED
      BY <1>4, <1>5, <1>6, Zenon

-------------------------------------------------------------------------------
(* The tree beside the contract's list.                                    *)

least(a, b) == IF a <= b THEN a ELSE b

\* The request's key is the contract's newest entry and not yet the tree's.
ahead(x) == x.at \in {"mined", "known", "room", "appended", "placed"}

atRest(x) == x.at = "resting"

isAnswer(g) == "calm" \in DOMAIN g

\* The entries l, the tree t and the creations c tell the same story, and the
\* answer under way, g, is about it.
Aligned(l, t, c, g) ==
    /\ \A r, o \in Request : ~ atRest(c[r]) /\ ~ atRest(c[o]) => r = o
    /\ (\A r \in Request : ~ ahead(c[r])) => t.size = least(Len(l), capacity)
    /\ \A r \in Request : ahead(c[r]) =>
        Len(l) >= 1 /\ t.size = least(Len(l) - 1, capacity) /\ l[Len(l)] = c[r].key
    /\ \A i \in 1 .. Len(t.leaves) : i <= Len(l) /\ t.leaves[i] = hashLeaf(l[i])
    /\ g.calm => /\ \A r \in Request : atRest(c[r])
                 /\ g.root = Root(t)
                 /\ g.index \in 0 .. Len(l) - 1 /\ l[g.index + 1] = g.key

Level ==
    ~ disturbed =>
        /\ ~ torn
        /\ listed \in Seq(Mpk \cup {NoMpk})
        /\ isAnswer(registering)
        /\ Aligned(listed, MerkleTree, creating, registering)

\* With one request at work, and no answer that would have to be about it.
AlignedWith(l, t, x) ==
    /\ ~ ahead(x) => t.size = least(Len(l), capacity)
    /\ ahead(x) => Len(l) >= 1 /\ t.size = least(Len(l) - 1, capacity) /\ l[Len(l)] = x.key
    /\ \A i \in 1 .. Len(t.leaves) : i <= Len(l) /\ t.leaves[i] = hashLeaf(l[i])

LEMMA OneAtWork ==
    ASSUME NEW l, NEW t, NEW c, NEW g, NEW r \in Request
    PROVE  /\ Aligned(l, t, c, g) /\ ~ atRest(c[r]) =>
                (\A o \in Request : o # r => atRest(c[o])) /\ ~ g.calm /\ AlignedWith(l, t, c[r])
           /\ (\A o \in Request : o # r => atRest(c[o])) /\ ~ g.calm /\ AlignedWith(l, t, c[r]) =>
                Aligned(l, t, c, g)
<1>1. \A x : atRest(x) => ~ ahead(x)
      BY DEF atRest, ahead
<1>2. ASSUME Aligned(l, t, c, g), ~ atRest(c[r])
      PROVE  (\A o \in Request : o # r => atRest(c[o])) /\ ~ g.calm /\ AlignedWith(l, t, c[r])
      <2>1. (\A o \in Request : o # r => atRest(c[o])) /\ ~ g.calm
            BY <1>2, Zenon DEF Aligned
      <2>2. ~ ahead(c[r]) => \A o \in Request : ~ ahead(c[o])
            BY <1>1, <2>1
      <2>3. QED
            BY <1>2, <2>1, <2>2 DEF Aligned, AlignedWith
<1>3. ASSUME \A o \in Request : o # r => atRest(c[o]), ~ g.calm, AlignedWith(l, t, c[r])
      PROVE  Aligned(l, t, c, g)
      <2>1. \A q, o \in Request : ~ atRest(c[q]) /\ ~ atRest(c[o]) => q = o
            BY <1>3
      <2>2. \A o \in Request : ahead(c[o]) => o = r
            BY <1>1, <1>3
      <2>3. QED
            BY <1>3, <2>1, <2>2 DEF Aligned, AlignedWith
<1>4. QED
      BY <1>2, <1>3

\* A creation that moves on keeps the list and the tree level.
LEMMA CreationKeepsLevel ==
    ASSUME Untorn, Level, NEW r \in Request, creationStep(r), ~ disturbed'
    PROVE  /\ listed' \in Seq(Mpk \cup {NoMpk})
           /\ Aligned(listed, MerkleTree, creating, registering)'
<1> DEFINE t == MerkleTree
           c == creating
           l == listed
           g == registering
<1>1. ~ disturbed /\ g' = g
      <2>1. mined(r) \/ lookedUp(r) \/ callFails(r) \/ hasRoom(r) => registering' = registering
            BY DEF mined, lookedUp, callFails, hasRoom, onlyHandler
      <2>2. appended(r) \/ placed(r) \/ grown(r) => registering' = registering
            BY DEF appended, placed, grown
      <2>3. ~ disturbed
            BY DEF creationStep, mined, lookedUp, callFails, hasRoom, appended, placed, grown
      <2>4. QED
            BY <2>1, <2>2, <2>3 DEF creationStep
<1>2. ~ torn /\ Whole(t, c) /\ Aligned(l, t, c, g) /\ l \in Seq(Mpk \cup {NoMpk})
      BY <1>1 DEF Untorn, Level
<1>3. c \in [Request -> Creation] /\ c[r] \in Creation /\ knows(t, c[r]) /\ isTree(t)
      BY <1>2 DEF Whole
<1>4. ~ atRest(c[r])
      BY DEF creationStep, mined, lookedUp, callFails, hasRoom, appended, placed, grown, atRest
<1>5. (\A o \in Request : o # r => atRest(c[o])) /\ ~ g.calm /\ AlignedWith(l, t, c[r])
      BY <1>2, <1>4, OneAtWork, Zenon
<1>6. /\ t.size \in Nat /\ capacity \in Nat /\ t.size <= capacity /\ Len(l) \in Nat
      /\ t.leaves \in Seq(Leaf) /\ Len(t.leaves) \in Nat
      /\ t = [leaves |-> t.leaves, nodes |-> t.nodes, size |-> t.size]
      BY <1>2, <1>3, ArrayShape DEF isTree
<1>7. SUFFICES /\ l' \in Seq(Mpk \cup {NoMpk})
               /\ \A o \in Request : o # r => c'[o] = c[o]
               /\ AlignedWith(l', t', c'[r])
      <2>1. ASSUME NEW d, NEW k, NEW s, \A o \in Request : o # r => d[o] = c[o], AlignedWith(k, s, d[r])
            PROVE  Aligned(k, s, d, g)
            <3>1. \A o \in Request : o # r => atRest(d[o])
                  BY <1>5, <2>1
            <3>2. QED
                  BY <1>5, <2>1, <3>1, OneAtWork, Zenon
      <2>2. QED
            BY <1>1, <2>1
<1> HIDE DEF t, c, l, g
<1>8. CASE mined(r)
      <2> DEFINE k == c[r].key
                 m == Append(l, k)
      <2>1. /\ c[r].at = "sent" /\ t' = t /\ l' = m
            /\ c' = [c EXCEPT ![r].at = "mined"]
            BY <1>8 DEF mined, entered, onlyHandler, t, c, l, g
      <2>2. k \in Mpk \cup {NoMpk}
            BY <1>3 DEF Creation
      <2>3. /\ c'[r].at = "mined" /\ c'[r].key = k
            /\ \A o \in Request : o # r => c'[o] = c[o]
            BY <1>3, <2>1 DEF Creation
      <2>4. t.size = least(Len(l), capacity)
            BY <1>5, <2>1 DEF AlignedWith, ahead
      <2> HIDE DEF k
      <2>5. /\ m \in Seq(Mpk \cup {NoMpk}) /\ Len(m) = Len(l) + 1 /\ m[Len(m)] = k
            /\ \A i \in 1 .. Len(l) : m[i] = l[i]
            BY <1>2, <2>2
      <2> HIDE DEF m
      <2>6. \A i \in 1 .. Len(t.leaves) : i <= Len(m) /\ t.leaves[i] = hashLeaf(m[i])
            <3>1. \A i \in 1 .. Len(t.leaves) : i <= Len(l) /\ t.leaves[i] = hashLeaf(l[i])
                  BY <1>5 DEF AlignedWith
            <3>2. QED
                  BY <1>6, <2>5, <3>1
      <2>7. Len(m) >= 1 /\ Len(m) - 1 = Len(l)
            BY <1>6, <2>5
      <2>8. AlignedWith(m, t, c'[r])
            BY <2>3, <2>4, <2>5, <2>6, <2>7 DEF AlignedWith, ahead
      <2>9. QED
            BY <2>1, <2>3, <2>5, <2>8
<1>9. CASE lookedUp(r)
      <2>1. c[r].at = "mined" /\ t' = t /\ l' = l /\ c' = [c EXCEPT ![r].at = "known"]
            BY <1>9 DEF lookedUp, onlyHandler, t, c, l, g
      <2>2. /\ c'[r].at = "known" /\ c'[r].key = c[r].key
            /\ \A o \in Request : o # r => c'[o] = c[o]
            BY <1>3, <2>1 DEF Creation
      <2>3. AlignedWith(l, t, c'[r])
            BY <1>5, <2>1, <2>2 DEF AlignedWith, ahead
      <2>4. QED
            BY <1>2, <2>1, <2>2, <2>3
<1>10. CASE callFails(r)
      BY <1>10 DEF callFails
<1>11. CASE hasRoom(r)
      <2>1. c[r].at = "known" /\ t' = t /\ l' = l
            BY <1>11 DEF hasRoom, onlyHandler, t, c, l, g
      <2>2. Len(l) >= 1 /\ t.size = least(Len(l) - 1, capacity)
            BY <1>5, <2>1 DEF AlignedWith, ahead
      <2>3. CASE t.size >= capacity
            <3>1. c' = [c EXCEPT ![r] = resting]
                  BY <1>11, <2>3 DEF hasRoom, rest, t, c
            <3>2. /\ c'[r] = resting
                  /\ \A o \in Request : o # r => c'[o] = c[o]
                  BY <1>3, <3>1
            <3>3. ~ ahead(c'[r])
                  BY <3>2 DEF resting, ahead
            <3>4. t.size = least(Len(l), capacity)
                  BY <1>6, <2>2, <2>3 DEF least
            <3>5. AlignedWith(l, t, c'[r])
                  BY <1>5, <3>3, <3>4 DEF AlignedWith
            <3>6. QED
                  BY <1>2, <2>1, <3>2, <3>5
      <2>4. CASE ~ (t.size >= capacity)
            <3>1. c' = [c EXCEPT ![r].at = "room", ![r].leaves = t.leaves]
                  BY <1>11, <2>4 DEF hasRoom, t, c
            <3>2. /\ c'[r].at = "room" /\ c'[r].key = c[r].key
                  /\ \A o \in Request : o # r => c'[o] = c[o]
                  BY <1>3, <3>1 DEF Creation
            <3>3. AlignedWith(l, t, c'[r])
                  BY <1>5, <2>1, <3>2 DEF AlignedWith, ahead
            <3>4. QED
                  BY <1>2, <2>1, <3>2, <3>3
      <2>5. QED
            BY <2>3, <2>4
<1>12. CASE appended(r)
      <2> DEFINE leaf == hashLeaf(c[r].key)
                 leaves == Append(t.leaves, leaf)
      <2>1. c[r].at = "room" /\ l' = l /\ c' = [c EXCEPT ![r].at = "appended", ![r].leaves = <<>>]
            BY <1>12 DEF appended, t, c, l, g
      <2>2. c[r].leaves = t.leaves /\ t.size < capacity
            BY <1>3, <2>1 DEF knows
      <2>3. t' = [t EXCEPT !.leaves = leaves]
            BY <1>12, <2>2 DEF appended, t, c
      <2>4. /\ c'[r].at = "appended" /\ c'[r].key = c[r].key
            /\ \A o \in Request : o # r => c'[o] = c[o]
            BY <1>3, <2>1 DEF Creation
      <2>5. Len(t.leaves) = t.size
            <3>1. \A o \in Request : ~ holdsLeaf(c[o])
                  BY <1>5, <2>1 DEF atRest, holdsLeaf
            <3>2. QED
                  BY <1>2, <3>1 DEF Whole
      <2>6. Len(l) >= 1 /\ t.size = least(Len(l) - 1, capacity) /\ l[Len(l)] = c[r].key
            BY <1>5, <2>1 DEF AlignedWith, ahead
      <2>7. leaf \in Leaf
            BY <1>3 DEF Creation, Leaf
      <2> HIDE DEF leaf
      <2>8. /\ t'.leaves = leaves /\ t'.size = t.size
            /\ Len(leaves) = Len(t.leaves) + 1 /\ leaves[Len(leaves)] = leaf
            /\ \A i \in 1 .. Len(t.leaves) : leaves[i] = t.leaves[i]
            BY <1>6, <2>3, <2>7
      <2> HIDE DEF leaves
      <2>9. Len(leaves) = Len(l)
            BY <1>6, <2>2, <2>5, <2>6, <2>8 DEF least
      <2>10. ASSUME NEW i \in 1 .. Len(leaves)
             PROVE  i <= Len(l) /\ leaves[i] = hashLeaf(l[i])
            <3>1. CASE i = Len(leaves)
                  BY <1>6, <2>6, <2>8, <2>9, <3>1 DEF leaf
            <3>2. CASE i # Len(leaves)
                  <4>1. i \in 1 .. Len(t.leaves)
                        BY <1>6, <2>8, <3>2
                  <4>2. QED
                        BY <1>5, <2>8, <4>1 DEF AlignedWith
            <3>3. QED
                  BY <3>1, <3>2
      <2>11. AlignedWith(l, t', c'[r])
            BY <2>4, <2>6, <2>8, <2>10 DEF AlignedWith, ahead
      <2>12. QED
            BY <1>2, <2>1, <2>4, <2>11
<1>13. CASE placed(r)
      <2> DEFINE i == capacity - 1 + t.size
                 hashes == updatePath([t.nodes EXCEPT ![i] = hashLeaf(c[r].key)], i)
      <2>1. c[r].at = "appended" /\ l' = l
            BY <1>13 DEF placed, t, c, l, g
      <2>2. ~ (i >= nodeCount)
            <3>1. t.size < capacity
                  BY <1>3, <2>1 DEF knows, holdsLeaf
            <3>2. QED
                  BY <1>6, <3>1, ArrayShape
      <2>3. t' = [t EXCEPT !.nodes = hashes] /\ c' = [c EXCEPT ![r].at = "placed", ![r].size = t.size]
            BY <1>13, <2>2 DEF placed, t, c
      <2>4. /\ c'[r].at = "placed" /\ c'[r].key = c[r].key
            /\ \A o \in Request : o # r => c'[o] = c[o]
            BY <1>3, <2>3 DEF Creation
      <2> HIDE DEF hashes
      <2>5. t'.leaves = t.leaves /\ t'.size = t.size
            BY <1>6, <2>3
      <2>6. AlignedWith(l, t', c'[r])
            BY <1>5, <2>1, <2>4, <2>5 DEF AlignedWith, ahead
      <2>7. QED
            BY <1>2, <2>1, <2>4, <2>6
<1>14. CASE grown(r)
      <2>1. c[r].at = "placed" /\ l' = l /\ c' = [c EXCEPT ![r] = resting]
            BY <1>14 DEF grown, rest, t, c, l, g
      <2>2. c[r].size = t.size /\ t.size < capacity
            BY <1>3, <2>1 DEF knows, holdsLeaf
      <2>3. t' = [t EXCEPT !.size = t.size + 1]
            BY <1>14, <2>2 DEF grown, t, c
      <2>4. /\ c'[r] = resting
            /\ \A o \in Request : o # r => c'[o] = c[o]
            BY <1>3, <2>1
      <2>5. t'.leaves = t.leaves /\ t'.size = t.size + 1
            BY <1>6, <2>3
      <2>6. Len(l) >= 1 /\ t.size = least(Len(l) - 1, capacity)
            BY <1>5, <2>1 DEF AlignedWith, ahead
      <2>7. t.size + 1 = least(Len(l), capacity)
            BY <1>6, <2>2, <2>6 DEF least
      <2>8. ~ ahead(c'[r])
            BY <2>4 DEF resting, ahead
      <2>9. AlignedWith(l, t', c'[r])
            BY <1>5, <2>5, <2>7, <2>8 DEF AlignedWith
      <2>10. QED
            BY <1>2, <2>1, <2>4, <2>9
<1>15. QED
      BY <1>8, <1>9, <1>10, <1>11, <1>12, <1>13, <1>14 DEF creationStep

LEMMA LevelAtFirst ==
    Aligned(<<>>, NewMerkleTree, [r \in Request |-> resting], asleep)
<1> DEFINE c == [r \in Request |-> resting]
<1>1. \A r \in Request : atRest(c[r]) /\ ~ ahead(c[r])
      BY DEF resting, atRest, ahead
<1>2. NewMerkleTree.size = 0 /\ Len(NewMerkleTree.leaves) = 0
      BY EmptyTree
<1>3. least(Len(<<>>), capacity) = 0
      BY ArrayShape DEF least
<1>4. ~ asleep.calm
      BY DEF asleep
<1> HIDE DEF c
<1>5. Aligned(<<>>, NewMerkleTree, c, asleep)
      BY <1>1, <1>2, <1>3, <1>4 DEF Aligned
<1>6. QED
      BY <1>5 DEF c

\* getIDIndex gives a place of the key.
LEMMA IndexOfKey ==
    ASSUME listed \in Seq(Mpk \cup {NoMpk}), NEW k, indexOf(k) # -1
    PROVE  indexOf(k) \in 0 .. Len(listed) - 1 /\ listed[indexOf(k) + 1] = k
<1> DEFINE entries == {i \in DOMAIN listed : listed[i] = k}
           first == CHOOSE i \in entries : \A j \in entries : i <= j
<1>1. entries # {} /\ indexOf(k) = first - 1
      BY DEF indexOf
<1>2. \E i \in entries : \A j \in entries : i <= j
      <2>1. entries \subseteq Nat
            OBVIOUS
      <2> HIDE DEF entries
      <2>2. QED
            BY <1>1, <2>1, LeastNumber, Zenon
<1>3. first \in entries
      <2> HIDE DEF entries
      <2>1. QED
            BY <1>2, Zenon
<1> HIDE DEF first
<1>4. first \in 1 .. Len(listed) /\ listed[first] = k
      BY <1>3
<1>5. QED
      BY <1>1, <1>4

LEMMA Uncalmed ==
    ASSUME NEW g, isAnswer(g)
    PROVE  isAnswer([g EXCEPT !.calm = FALSE]) /\ ~ [g EXCEPT !.calm = FALSE].calm
BY DEF isAnswer

LEMMA LevelNext ==
    ASSUME Untorn, Untorn', Level, [TreeNext]_treeVars
    PROVE  Level'
<1> DEFINE Mine == Mpk \cup {NoMpk}
<1>1. ASSUME NEW r \in Request, NEW k \in Mpk, HandleCreateIdentity(r, k), ~ disturbed'
      PROVE  ~ torn' /\ listed' \in Seq(Mine) /\ isAnswer(registering')
             /\ Aligned(listed, MerkleTree, creating, registering)'
      <2> DEFINE x == [resting EXCEPT !.at = "sent", !.key = k]
                 g == [registering EXCEPT !.calm = FALSE]
      <2>1. ~ disturbed /\ \A o \in Request : ~ busy(o)
            BY <1>1, Zenon DEF HandleCreateIdentity
      <2>2. /\ ~ torn /\ listed \in Seq(Mine) /\ isAnswer(registering)
            /\ Aligned(listed, MerkleTree, creating, registering) /\ Whole(MerkleTree, creating)
            BY <2>1 DEF Level, Untorn
      <2>3. /\ creating' = [creating EXCEPT ![r] = x] /\ registering' = g
            /\ listed' = listed /\ MerkleTree' = MerkleTree /\ torn' = torn
            BY <1>1 DEF HandleCreateIdentity
      <2>4. \A o \in Request : atRest(creating[o])
            BY <2>1 DEF busy, atRest
      <2>5. creating'[r] = x /\ \A o \in Request : o # r => creating'[o] = creating[o]
            BY <2>2, <2>3 DEF Whole
      <2>6. x.at = "sent"
            BY DEF resting
      <2> HIDE DEF x
      <2>7. ~ ahead(x)
            BY <2>6 DEF ahead
      <2>8. isAnswer(g) /\ ~ g.calm
            BY <2>2, Uncalmed, Zenon
      <2> HIDE DEF g
      <2>9. \A o \in Request : ~ ahead(creating[o])
            BY <2>4 DEF atRest, ahead
      <2>10. AlignedWith(listed, MerkleTree, x)
            BY <2>2, <2>7, <2>9 DEF Aligned, AlignedWith
      <2>11. \A o \in Request : o # r => atRest(creating'[o])
            BY <2>4, <2>5
      <2>12. Aligned(listed, MerkleTree, creating', g)
            BY <2>5, <2>8, <2>10, <2>11, OneAtWork, Zenon
      <2>13. QED
            BY <2>2, <2>3, <2>8, <2>12
<1>2. ASSUME NEW r \in Request, creationStep(r), ~ disturbed'
      PROVE  ~ torn' /\ listed' \in Seq(Mine) /\ isAnswer(registering')
             /\ Aligned(listed, MerkleTree, creating, registering)'
      <2>1. ~ disturbed
            BY <1>2 DEF creationStep, mined, lookedUp, callFails, hasRoom, appended, placed, grown
      <2>2. ~ torn /\ isAnswer(registering) /\ Aligned(listed, MerkleTree, creating, registering)
            BY <2>1 DEF Level
      <2>3. registering' = registering
            <3>1. mined(r) \/ lookedUp(r) \/ callFails(r) \/ hasRoom(r) => registering' = registering
                  BY DEF mined, lookedUp, callFails, hasRoom, onlyHandler
            <3>2. appended(r) \/ placed(r) \/ grown(r) => registering' = registering
                  BY DEF appended, placed, grown
            <3>3. QED
                  BY <1>2, <3>1, <3>2 DEF creationStep
      <2>4. ~ torn'
            <3>1. ASSUME hasRoom(r) PROVE ~ torn'
                  <4>1. creating[r].at = "known"
                        BY <3>1 DEF hasRoom
                  <4>2. \A o \in Request : o # r => atRest(creating[o])
                        BY <2>2, <4>1 DEF Aligned, atRest
                  <4>3. \A o \in Request : ~ inInsert(o)
                        BY <4>1, <4>2 DEF inInsert, atRest
                  <4>4. QED
                        BY <2>2, <3>1, <4>3 DEF hasRoom
            <3>2. mined(r) \/ lookedUp(r) \/ callFails(r) => torn' = torn
                  BY DEF mined, lookedUp, callFails
            <3>3. appended(r) \/ placed(r) \/ grown(r) => torn' = torn
                  BY DEF appended, placed, grown
            <3>4. QED
                  BY <1>2, <2>2, <3>1, <3>2, <3>3 DEF creationStep
      <2>5. QED
            BY <1>2, <2>2, <2>3, <2>4, CreationKeepsLevel
<1>3. ASSUME NEW k \in Mpk, HandleRegister(k), ~ disturbed'
      PROVE  ~ torn' /\ listed' \in Seq(Mine) /\ isAnswer(registering')
             /\ Aligned(listed, MerkleTree, creating, registering)'
      <2> DEFINE g == [at |-> "root", key |-> k, index |-> indexOf(k), root |-> Root(MerkleTree),
                       calm |-> \A r \in Request : ~ busy(r)]
      <2>1. /\ registering' = g /\ indexOf(k) # -1
            /\ listed' = listed /\ MerkleTree' = MerkleTree /\ creating' = creating
            /\ disturbed' = disturbed /\ torn' = torn
            BY <1>3 DEF HandleRegister
      <2>2. /\ ~ torn /\ listed \in Seq(Mine)
            /\ Aligned(listed, MerkleTree, creating, registering)
            BY <1>3, <2>1 DEF Level
      <2>3. indexOf(k) \in 0 .. Len(listed) - 1 /\ listed[indexOf(k) + 1] = k
            BY <2>1, <2>2, IndexOfKey
      <2>4. /\ isAnswer(g) /\ g.key = k /\ g.index = indexOf(k) /\ g.root = Root(MerkleTree)
            /\ g.calm <=> \A r \in Request : ~ busy(r)
            BY DEF isAnswer
      <2> HIDE DEF g
      <2>5. g.calm => \A r \in Request : atRest(creating[r])
            BY <2>4 DEF busy, atRest
      <2>6. Aligned(listed, MerkleTree, creating, g)
            BY <2>2, <2>3, <2>4, <2>5 DEF Aligned
      <2>7. QED
            BY <2>1, <2>2, <2>4, <2>6
<1>4. CASE answered
      <2>1. /\ registering' = asleep /\ listed' = listed /\ MerkleTree' = MerkleTree
            /\ creating' = creating /\ disturbed' = disturbed /\ torn' = torn
            BY <1>4 DEF answered
      <2>2. isAnswer(asleep) /\ ~ asleep.calm
            BY DEF asleep, isAnswer
      <2>3. ASSUME Aligned(listed, MerkleTree, creating, registering)
            PROVE  Aligned(listed, MerkleTree, creating, asleep)
            BY <2>2, <2>3 DEF Aligned
      <2>4. QED
            BY <2>1, <2>2, <2>3 DEF Level
<1>5. CASE outsider
      BY <1>5 DEF outsider, Level
<1>6. CASE restart
      <2>1. ASSUME ~ disturbed'
            PROVE  ~ torn' /\ listed' \in Seq(Mine) /\ isAnswer(registering')
                   /\ Aligned(listed, MerkleTree, creating, registering)'
            <3>1. /\ ~ torn' /\ listed' = <<>> /\ registering' = asleep
                  /\ MerkleTree' = NewMerkleTree /\ creating' = [r \in Request |-> resting]
                  BY <1>6, <2>1 DEF restart
            <3>2. Aligned(<<>>, NewMerkleTree, [r \in Request |-> resting], asleep)
                  BY LevelAtFirst
            <3>3. isAnswer(asleep) /\ <<>> \in Seq(Mine)
                  BY DEF asleep, isAnswer
            <3>4. QED
                  BY <3>1, <3>2, <3>3
      <2>2. QED
            BY <2>1 DEF Level
<1>7. CASE UNCHANGED treeVars
      BY <1>7 DEF treeVars, Level
<1>8. ASSUME \/ \E r \in Request, k \in Mpk : HandleCreateIdentity(r, k)
             \/ \E r \in Request : creationStep(r)
             \/ \E k \in Mpk : HandleRegister(k)
      PROVE  Level'
      BY <1>1, <1>2, <1>3, <1>8 DEF Level
<1>9. QED
      BY <1>4, <1>5, <1>6, <1>7, <1>8 DEF TreeNext

\* The answer about a key while nobody creates one proves the key's own leaf.
LEMMA LevelAnswers ==
    ASSUME Untorn, Level
    PROVE  answersOwnLeaf
<1> DEFINE t == MerkleTree
           index == registering.index
           answer == merkleProof(index)
<1>1. SUFFICES ASSUME registering.calm, ~ disturbed
               PROVE  IF answer = <<>> THEN index >= capacity
                      ELSE proves(answer[1], hashLeaf(registering.key), registering.root)
      BY DEF answersOwnLeaf
<1>2. Whole(t, creating) /\ Aligned(listed, t, creating, registering) /\ listed \in Seq(Mpk \cup {NoMpk})
      BY <1>1 DEF Level, Untorn
<1>3. /\ \A r \in Request : atRest(creating[r])
      /\ registering.root = Root(t)
      /\ index \in 0 .. Len(listed) - 1 /\ listed[index + 1] = registering.key
      BY <1>1, <1>2 DEF Aligned
<1>4. \A r \in Request : ~ ahead(creating[r]) /\ ~ holdsLeaf(creating[r])
      BY <1>3 DEF atRest, ahead, holdsLeaf
<1>5. /\ t.size = least(Len(listed), capacity)
      /\ t.size = Len(t.leaves)
      /\ \A i \in 1 .. Len(t.leaves) : t.leaves[i] = hashLeaf(listed[i])
      BY <1>2, <1>4 DEF Aligned, Whole
<1>6. t.size \in 0 .. capacity /\ covers(t.nodes, t.leaves, t.size) /\ Len(listed) \in Nat
      BY <1>2 DEF Whole, isTree
<1>7. CASE index < t.size
      <2>1. answer = <<GenerateProof(t, index)>>
            BY <1>7 DEF merkleProof, inTree
      <2>2. answer # <<>> /\ answer[1] = GenerateProof(t, index)
            BY <2>1
      <2>3. index \in Nat /\ index < capacity /\ index \in 0 .. t.size - 1 /\ index + 1 \in 1 .. t.size
            BY <1>3, <1>6, <1>7, ArrayShape
      <2>4. covered(t.nodes, t.leaves, index)
            BY <1>6, <2>3 DEF covers
      <2>5. proves(GenerateProof(t, index), t.leaves[index + 1], Root(t))
            BY <2>3, <2>4, CoveredProves
      <2>6. t.leaves[index + 1] = hashLeaf(registering.key)
            BY <1>3, <1>5, <2>3
      <2> HIDE DEF answer
      <2>7. QED
            BY <1>3, <2>2, <2>5, <2>6
<1>8. CASE ~ (index < t.size)
      <2>1. answer = <<>>
            BY <1>8 DEF merkleProof, inTree
      <2>2. index >= capacity
            BY <1>3, <1>5, <1>6, <1>8, ArrayShape DEF least
      <2>3. QED
            BY <2>1, <2>2
<1>9. QED
      BY <1>7, <1>8

\* Whatever requests overlap, an untorn tree proves every one of its leaves;
\* and as long as all keys come through one process of the bridge, one after the
\* other, the contract's index of a key finds the key's own leaf.
THEOREM ProofsHold == TreeSpec => []TreeProofsHold
<1>1. TreeInit => Untorn /\ Level
      <2>1. SUFFICES ASSUME TreeInit PROVE Untorn /\ Level
            OBVIOUS
      <2>2. Untorn
            BY <2>1, WholeAtFirst DEF TreeInit, Untorn
      <2>3. isAnswer(asleep) /\ <<>> \in Seq(Mpk \cup {NoMpk})
            BY DEF asleep, isAnswer
      <2>4. Level
            BY <2>1, <2>3, LevelAtFirst DEF TreeInit, Level
      <2>5. QED
            BY <2>2, <2>4
<1>2. Untorn /\ Level /\ [TreeNext]_treeVars => Untorn' /\ Level'
      BY UntornNext, LevelNext
<1>3. Untorn /\ Level => TreeProofsHold
      BY WholeProves, LevelAnswers DEF TreeProofsHold
<1>4. QED
      BY <1>1, <1>2, <1>3, PTL DEF TreeSpec

-------------------------------------------------------------------------------
(* The contract, the extended contract and the tree side by side.          *)

\* A step of the composition is a step of each of the three, or leaves it alone.
LEMMA StepsOfEach ==
    ASSUME [RegistryNext]_<<vars, treeVars, v2Vars>>
    PROVE  [Next]_vars /\ [TreeNext]_treeVars /\ [V2!Next]_(V2!vars)
<1>1. UNCHANGED v2Vars => UNCHANGED V2!vars
      BY DEF v2Vars, V2!vars, V2!idVars, V2!rootVars, V2!nullifierVars, V2!roleVars
<1>2. QED
      BY <1>1, Zenon DEF RegistryNext

\* Each of the three behaves as it does alone.
LEMMA EachAlone == RegistrySpec => Spec /\ TreeSpec /\ V2!Spec
<1>1. RegistryInit => Init /\ TreeInit /\ V2!Init
      BY DEF RegistryInit
<1>2. QED
      BY <1>1, StepsOfEach, PTL DEF RegistrySpec, Spec, TreeSpec, V2!Spec

\* RootsServeTheirTime: in every behaviour of the composition a root of the
\* extended contract is valid exactly while it is current or among the last
\* MAX_ROOT_HISTORY that were replaced.
THEOREM RootsServed == RegistrySpec => []RootsServeTheirTime
<1>1. V2!Spec => []V2!RootsServeTheirTime
      BY V2!RootsServed, V2RootAssumption, V2NumberAssumption
<1>2. QED
      BY EachAlone, <1>1, PTL DEF RootsServeTheirTime

\* KeepsPromise: in every behaviour of the composition each transaction of the
\* extended contract is a step of the promise that the first contract keeps, or
\* a stutter.
THEOREM PromiseKept == RegistrySpec => KeepsPromise
<1>1. V2!Spec => V2!KeepsPromise
      BY V2!PromiseKept, V2RootAssumption, V2NumberAssumption
<1>2. QED
      BY EachAlone, <1>1, PTL DEF KeepsPromise
===============================================================================
