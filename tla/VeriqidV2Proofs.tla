---------------------------- MODULE VeriqidV2Proofs ----------------------------
(***************************************************************************)
(* Theorems about the extended identity contract, for every set of         *)
(* addresses, keys, roots and durations and every length of the history.   *)
(***************************************************************************)
EXTENDS VeriqidV2, SequenceTheorems, TLAPS

-------------------------------------------------------------------------------
(* Roots. *)

\* No zero root is ever kept.
RootsTyped ==
    /\ merkleRoot \in TreeRoot \cup {NoRoot}
    /\ merkleRootHistory \in Seq(TreeRoot) /\ replaced \in Seq(TreeRoot)

\* The history is what was replaced last: all of it while that fits, else as
\* much as fits.
HistoryIsTail ==
    /\ Len(merkleRootHistory) <= MAX_ROOT_HISTORY /\ Len(merkleRootHistory) <= Len(replaced)
    /\ Len(replaced) = Len(merkleRootHistory) \/ Len(merkleRootHistory) = MAX_ROOT_HISTORY
    /\ \A i \in 1 .. Len(merkleRootHistory) :
        merkleRootHistory[i] = replaced[Len(replaced) - Len(merkleRootHistory) + i]

\* What a transaction may do to the roots.
RootStep ==
    \/ UNCHANGED <<merkleRoot, merkleRootHistory, replaced>>
    \/ /\ merkleRoot' \in TreeRoot \cup {NoRoot}
       /\ \/ merkleRoot = NoRoot /\ UNCHANGED <<merkleRootHistory, replaced>>
          \/ /\ merkleRoot # NoRoot
             /\ merkleRootHistory' = trimmed(Append(merkleRootHistory, merkleRoot))
             /\ replaced' = Append(replaced, merkleRoot)

\* Only updateMerkleRoot touches them.
LEMMA EveryStepOnRoots == ASSUME [Next]_vars PROVE RootStep
<1>1. ASSUME NEW sender \in Address, NEW r \in TreeRoot \cup {NoRoot}, updateMerkleRoot(sender, r)
      PROVE  RootStep
  BY <1>1 DEF updateMerkleRoot, RootStep
<1>2. ASSUME NEW sender \in Address, NEW r \in TreeRoot, updateRevocationRoot(sender, r)
      PROVE  RootStep
  BY <1>2 DEF updateRevocationRoot, RootStep
<1>3. ASSUME NEW sender \in Address, identityTx(sender) PROVE RootStep
  BY <1>3 DEF identityTx, addID, addIDLegacy, revokeID, rootVars, RootStep
<1>4. ASSUME NEW sender \in Address, adminTx(sender) PROVE RootStep
  BY <1>4 DEF adminTx, authorizeVerifier, removeVerifier, transferAdmin, setEpochDuration, rootVars, RootStep
<1>5. ASSUME NEW n \in Nullifier,
             registerEpochNullifier(n) \/ \E k \in Key : registerNullifier(n, k)
      PROVE  RootStep
  BY <1>5 DEF registerEpochNullifier, registerNullifier, rootVars, RootStep
<1>6. CASE block
  BY <1>6 DEF block, rootVars, RootStep
<1>7. CASE UNCHANGED vars
  BY <1>7 DEF vars, rootVars, RootStep
<1>8. ASSUME NEW sender \in Address, rootTx(sender) PROVE RootStep
  BY <1>1, <1>2, <1>8, Zenon DEF rootTx
<1>9. QED
  BY <1>3, <1>4, <1>5, <1>6, <1>7, <1>8, Zenon DEF Next

\* Roots keep their types, and zero is never kept.
LEMMA RootsStayTyped == ASSUME RootsTyped, RootStep PROVE RootsTyped'
<1>1. CASE UNCHANGED <<merkleRoot, merkleRootHistory, replaced>>
  BY <1>1 DEF RootsTyped
<1>2. CASE merkleRoot' \in TreeRoot \cup {NoRoot} /\ UNCHANGED <<merkleRootHistory, replaced>>
  BY <1>2 DEF RootsTyped
<1>3. CASE /\ merkleRoot' \in TreeRoot \cup {NoRoot} /\ merkleRoot # NoRoot
           /\ merkleRootHistory' = trimmed(Append(merkleRootHistory, merkleRoot))
           /\ replaced' = Append(replaced, merkleRoot)
  <2> DEFINE long == Append(merkleRootHistory, merkleRoot)
  <2>1. merkleRoot \in TreeRoot
    BY <1>3 DEF RootsTyped
  <2>2. long \in Seq(TreeRoot) /\ replaced' \in Seq(TreeRoot)
    BY <1>3, <2>1 DEF RootsTyped
  <2>3. CASE Len(long) > MAX_ROOT_HISTORY
    <3>1. merkleRootHistory' = [i \in 1 .. Len(long) - 1 |-> long[i + 1]]
      BY <1>3, <2>3 DEF trimmed
    <3>2. \A i \in 1 .. Len(long) - 1 : long[i + 1] \in TreeRoot
      BY <2>2
    <3>3. Len(long) - 1 \in Nat
      BY <2>3, V2RootAssumption, <2>2
    <3>4. merkleRootHistory' \in Seq(TreeRoot)
      BY <3>1, <3>2, <3>3, IsASeq
    <3>5. QED
      BY <1>3, <2>2, <3>4 DEF RootsTyped
  <2>4. CASE ~(Len(long) > MAX_ROOT_HISTORY)
    BY <1>3, <2>2, <2>4 DEF trimmed, RootsTyped
  <2>5. QED
    BY <2>3, <2>4
<1>4. QED
  BY <1>1, <1>2, <1>3 DEF RootStep

\* A replaced root moves the window of the history by one place at most.
LEMMA HistoryStaysTail ==
    ASSUME RootsTyped, HistoryIsTail, RootStep
    PROVE  HistoryIsTail'
<1>1. CASE UNCHANGED <<merkleRootHistory, replaced>>
  BY <1>1 DEF HistoryIsTail
<1>2. CASE /\ merkleRoot # NoRoot
           /\ merkleRootHistory' = trimmed(Append(merkleRootHistory, merkleRoot))
           /\ replaced' = Append(replaced, merkleRoot)
  <2> DEFINE h == Len(merkleRootHistory)
             n == Len(replaced)
             long == Append(merkleRootHistory, merkleRoot)
  <2>1. merkleRoot \in TreeRoot
    BY <1>2 DEF RootsTyped
  <2>2. /\ h \in Nat /\ n \in Nat /\ h <= n /\ h <= MAX_ROOT_HISTORY
        /\ n = h \/ h = MAX_ROOT_HISTORY
    BY DEF RootsTyped, HistoryIsTail
  <2>3. /\ Len(long) = h + 1 /\ long[h + 1] = merkleRoot
        /\ \A i \in 1 .. h : long[i] = merkleRootHistory[i]
    BY <2>1 DEF RootsTyped
  <2>4. /\ Len(replaced') = n + 1 /\ replaced'[n + 1] = merkleRoot
        /\ \A i \in 1 .. n : replaced'[i] = replaced[i]
    BY <1>2, <2>1 DEF RootsTyped
  <2>5. \A i \in 1 .. h : merkleRootHistory[i] = replaced[n - h + i]
    BY DEF HistoryIsTail
  <2>6. \A i \in 1 .. h + 1 : long[i] = replaced'[n - h + i]
    <3> TAKE i \in 1 .. h + 1
    <3>1. CASE i = h + 1
      BY <2>2, <2>3, <2>4, <3>1
    <3>2. CASE i \in 1 .. h
      <4>1. n - h + i \in 1 .. n
        BY <2>2, <3>2
      <4>2. QED
        BY <2>3, <2>4, <2>5, <3>2, <4>1
    <3>3. QED
      BY <2>2, <3>1, <3>2
  <2> HIDE DEF long
  <2>7. CASE h = MAX_ROOT_HISTORY
    <3>1. merkleRootHistory' = [i \in 1 .. h |-> long[i + 1]]
      <4>1. Len(long) > MAX_ROOT_HISTORY /\ Len(long) - 1 = h
        BY <2>2, <2>3, <2>7
      <4>2. QED
        BY <1>2, <4>1 DEF trimmed, long
    <3>2. Len(merkleRootHistory') = h
      BY <2>2, <3>1
    <3>3. \A i \in 1 .. h : merkleRootHistory'[i] = replaced'[(n + 1) - h + i]
      <4> TAKE i \in 1 .. h
      <4>1. i + 1 \in 1 .. h + 1 /\ n - h + (i + 1) = (n + 1) - h + i
        BY <2>2
      <4>2. QED
        BY <2>6, <3>1, <4>1
    <3>4. QED
      BY <2>2, <2>4, <2>7, <3>2, <3>3 DEF HistoryIsTail
  <2>8. CASE h # MAX_ROOT_HISTORY
    <3>1. merkleRootHistory' = long
      <4>1. ~(Len(long) > MAX_ROOT_HISTORY)
        BY <2>2, <2>3, <2>8, V2RootAssumption
      <4>2. QED
        BY <1>2, <4>1 DEF trimmed, long
    <3>2. n = h /\ h + 1 <= MAX_ROOT_HISTORY
      BY <2>2, <2>8, V2RootAssumption
    <3>3. \A i \in 1 .. h + 1 : long[i] = replaced'[(n + 1) - (h + 1) + i]
      <4> TAKE i \in 1 .. h + 1
      <4>1. n - h + i = (n + 1) - (h + 1) + i
        BY <2>2
      <4>2. QED
        BY <2>6, <4>1
    <3>4. QED
      BY <2>2, <2>3, <2>4, <3>1, <3>2, <3>3 DEF HistoryIsTail
  <2>9. QED
    BY <2>7, <2>8
<1>3. QED
  BY <1>1, <1>2 DEF RootStep

\* The arithmetic of a window of at most m places at the end of n.
LEMMA Window ==
    ASSUME NEW h \in Nat, NEW n \in Nat, NEW m \in Nat, h <= n, h <= m, n = h \/ h = m
    PROVE  /\ \A i \in 1 .. h : n - h + i \in 1 .. n /\ n - h + i > n - m
           /\ \A j \in 1 .. n : j > n - m => j - (n - h) \in 1 .. h /\ n - h + (j - (n - h)) = j
<1>1. CASE n = h
  BY <1>1
<1>2. CASE h = m
  BY <1>2
<1>3. QED
  BY <1>1, <1>2

\* When the history is that tail, membership in it is membership in the window.
LEMMA TailServes ==
    ASSUME RootsTyped, HistoryIsTail
    PROVE  RootsServeTheirTime
<1> SUFFICES ASSUME NEW r \in TreeRoot
             PROVE  (\E i \in DOMAIN merkleRootHistory : merkleRootHistory[i] = r) <=> r \in recentlyReplaced
  BY DEF RootsServeTheirTime, isValidMerkleRoot
<1> DEFINE h == Len(merkleRootHistory)
           n == Len(replaced)
<1>1. /\ h \in Nat /\ n \in Nat /\ h <= n /\ h <= MAX_ROOT_HISTORY
      /\ n = h \/ h = MAX_ROOT_HISTORY
      /\ DOMAIN merkleRootHistory = 1 .. h /\ DOMAIN replaced = 1 .. n
  BY DEF RootsTyped, HistoryIsTail
<1>2. \A i \in 1 .. h : merkleRootHistory[i] = replaced[n - h + i]
  BY DEF HistoryIsTail
<1>3. r \in recentlyReplaced <=> \E j \in 1 .. n : j > n - MAX_ROOT_HISTORY /\ replaced[j] = r
  BY <1>1, Zenon DEF recentlyReplaced
<1>4. ASSUME NEW i \in 1 .. h, merkleRootHistory[i] = r PROVE r \in recentlyReplaced
  <2>1. n - h + i \in 1 .. n /\ n - h + i > n - MAX_ROOT_HISTORY
    BY <1>1, V2RootAssumption, Window
  <2>2. r = replaced[n - h + i]
    BY <1>2, <1>4
  <2>3. QED
    BY <1>3, <2>1, <2>2, Zenon
<1>5. ASSUME r \in recentlyReplaced PROVE \E i \in 1 .. h : merkleRootHistory[i] = r
  <2>1. PICK j \in 1 .. n : j > n - MAX_ROOT_HISTORY /\ replaced[j] = r
    BY <1>5, <1>3, Zenon
  <2>2. j - (n - h) \in 1 .. h /\ n - h + (j - (n - h)) = j
    BY <1>1, <2>1, V2RootAssumption, Window
  <2>3. merkleRootHistory[j - (n - h)] = replaced[j]
    BY <1>2, <2>2
  <2>4. QED
    BY <2>1, <2>2, <2>3
<1>6. QED
  BY <1>1, <1>4, <1>5

\* RootsServeTheirTime: isValidMerkleRoot holds of a root exactly as long as it
\* is current or among the last MAX_ROOT_HISTORY that were replaced.
THEOREM RootsServed == Spec => []RootsServeTheirTime
<1>1. Init => RootsTyped /\ HistoryIsTail
  BY V2RootAssumption DEF Init, RootsTyped, HistoryIsTail
<1>2. RootsTyped /\ HistoryIsTail /\ [Next]_vars => (RootsTyped /\ HistoryIsTail)'
  BY EveryStepOnRoots, RootsStayTyped, HistoryStaysTail
<1>3. RootsTyped /\ HistoryIsTail => RootsServeTheirTime
  BY TailServes
<1>4. QED
  BY <1>1, <1>2, <1>3, PTL DEF Spec

-------------------------------------------------------------------------------
(* Identities.  *)

ID == [key: Key, active: BOOLEAN, owner: Address, attributeCommit: Commit \cup Bracket, registeredEpoch: Nat]

\* The counter equals the length of the list beside it, as in Veriqid.sol, and
\* the numbers that make an epoch are numbers.
IDsTyped ==
    /\ idList \in Seq(ID) /\ nextIndex = Len(idList)
    /\ epochDuration \in Nat /\ timestamp \in Nat

\* What a transaction may do to the identities.
IDStep ==
    \/ UNCHANGED idVars
    \/ \E sender \in Address, k \in Key, c \in Commit \cup Bracket : addID(sender, k, c)
    \/ \E sender \in Address, r \in Indices : revokeID(sender, r)

\* Both ways to add an identity are the same step.
LEMMA EveryStepOnIDs == ASSUME [Next]_vars PROVE IDStep
<1>1. ASSUME NEW sender \in Address, identityTx(sender) PROVE IDStep
  BY <1>1, Zenon DEF identityTx, addIDLegacy, IDStep
<1>2. ASSUME NEW sender \in Address, adminTx(sender) PROVE IDStep
  BY <1>2 DEF adminTx, authorizeVerifier, removeVerifier, transferAdmin, setEpochDuration, IDStep
<1>3. ASSUME NEW sender \in Address, rootTx(sender) PROVE IDStep
  BY <1>3 DEF rootTx, updateMerkleRoot, updateRevocationRoot, IDStep
<1>4. ASSUME NEW n \in Nullifier,
             registerEpochNullifier(n) \/ \E k \in Key : registerNullifier(n, k)
      PROVE  IDStep
  BY <1>4 DEF registerEpochNullifier, registerNullifier, IDStep
<1>5. CASE block
  BY <1>5 DEF block, IDStep
<1>6. CASE UNCHANGED vars
  BY <1>6 DEF vars, IDStep
<1>7. QED
  BY <1>1, <1>2, <1>3, <1>4, <1>5, <1>6, Zenon DEF Next

\* Epochs are numbers: the duration may be set, the clock only advances.
LEMMA EpochsStayTyped ==
    ASSUME epochDuration \in Nat, timestamp \in Nat, [Next]_vars
    PROVE  epochDuration' \in Nat /\ timestamp' \in Nat
<1> DEFINE Typed == epochDuration' \in Nat /\ timestamp' \in Nat
<1>1. ASSUME NEW sender \in Address, identityTx(sender) PROVE Typed
  BY <1>1 DEF identityTx, addID, addIDLegacy, revokeID
<1>2. ASSUME NEW sender \in Address, adminTx(sender) PROVE Typed
  BY <1>2, V2NumberAssumption DEF adminTx, authorizeVerifier, removeVerifier, transferAdmin, setEpochDuration
<1>3. ASSUME NEW sender \in Address, rootTx(sender) PROVE Typed
  BY <1>3 DEF rootTx, updateMerkleRoot, updateRevocationRoot
<1>4. ASSUME NEW n \in Nullifier,
             registerEpochNullifier(n) \/ \E k \in Key : registerNullifier(n, k)
      PROVE  Typed
  BY <1>4 DEF registerEpochNullifier, registerNullifier
<1>5. CASE block
  BY <1>5 DEF block
<1>6. CASE UNCHANGED vars
  BY <1>6 DEF vars
<1>7. QED
  BY <1>1, <1>2, <1>3, <1>4, <1>5, <1>6, Zenon DEF Next

\* The list and its counter grow together.
LEMMA IDsStayTyped == ASSUME IDsTyped, IDStep PROVE idList' \in Seq(ID) /\ nextIndex' = Len(idList')
<1>1. CASE UNCHANGED idVars
  BY <1>1 DEF IDsTyped, idVars
<1>2. ASSUME NEW sender \in Address, NEW k \in Key, NEW c \in Commit \cup Bracket, addID(sender, k, c)
      PROVE  idList' \in Seq(ID) /\ nextIndex' = Len(idList')
  <2>1. getCurrentEpoch \in Nat
    BY DEF getCurrentEpoch, IDsTyped
  <2> DEFINE d == [key |-> k, active |-> TRUE, owner |-> sender, attributeCommit |-> c,
                   registeredEpoch |-> getCurrentEpoch]
  <2>2. d \in ID
    BY <2>1 DEF ID
  <2>3. idList' = Append(idList, d) /\ nextIndex' = nextIndex + 1
    BY <1>2 DEF addID
  <2> HIDE DEF d
  <2>4. QED
    BY <2>2, <2>3 DEF IDsTyped
<1>3. ASSUME NEW sender \in Address, NEW r \in Indices, revokeID(sender, r)
      PROVE  idList' \in Seq(ID) /\ nextIndex' = Len(idList')
  <2>1. r + 1 \in 1 .. Len(idList)
    BY DEF Indices, IDsTyped
  <2>2. idList[r + 1] \in ID
    BY <2>1, ElementOfSeq DEF IDsTyped
  <2> DEFINE d == [idList[r + 1] EXCEPT !.active = FALSE]
  <2>3. d \in ID
    BY <2>2 DEF ID
  <2>4. idList' = [idList EXCEPT ![r + 1] = d] /\ nextIndex' = nextIndex
    BY <1>3, <2>1 DEF revokeID, revoked, IDsTyped
  <2> HIDE DEF d
  <2>5. QED
    BY <2>1, <2>3, <2>4, ExceptSeq DEF IDsTyped
<1>4. QED
  BY <1>1, <1>2, <1>3 DEF IDStep

\* Membership in the two abstract sets, stated without the set constructor.
LEMMA EntriesMembers ==
    ASSUME NEW flag, NEW m
    PROVE  m \in Entries(flag) <=>
             \E i \in Indices : /\ getState(i) = flag
                                /\ m = [index |-> i, key |-> idList[i + 1].key]
  BY DEF Entries

\* A registration issues the next slot and leaves all others alone.
LEMMA RegistrationIssues ==
    ASSUME IDsTyped, NEW sender \in Address, NEW k \in Key, NEW c \in Commit \cup Bracket,
           addID(sender, k, c)
    PROVE  Promise!Issue(k)
<1>1. PICK slot \in Nat : slot = nextIndex
  BY DEF IDsTyped
<1> DEFINE new == [index |-> slot, key |-> k]
<1>2. /\ nextIndex' = nextIndex + 1
      /\ Indices' = Indices \cup {slot}
      /\ slot \notin Indices
  BY <1>1 DEF addID, Indices, IDsTyped
<1> DEFINE d == [key |-> k, active |-> TRUE, owner |-> sender, attributeCommit |-> c,
                  registeredEpoch |-> getCurrentEpoch]
<1>3. idList' = Append(idList, d) /\ d.key = k /\ d.active = TRUE
  BY DEF addID
<1> HIDE DEF d
<1>4. ASSUME NEW i \in Indices
      PROVE  idList'[i + 1].key = idList[i + 1].key /\ getState(i)' = getState(i)
  <2>1. i \in Nat /\ i + 1 \in 1..Len(idList)
    BY DEF Indices, IDsTyped
  <2>2. idList'[i + 1] = idList[i + 1]
    BY <1>3, <2>1 DEF IDsTyped
  <2>3. QED
    BY <2>2 DEF getState
<1>5. idList'[slot + 1].key = k /\ getState(slot)' = TRUE
  <2>1. idList'[slot + 1] = d
    BY <1>1, <1>3 DEF IDsTyped
  <2>2. QED
    BY <1>3, <2>1 DEF getState
<1>6. Entries(TRUE)' = Entries(TRUE) \cup {new}
  <2>1. ASSUME NEW m \in Entries(TRUE)' PROVE m \in Entries(TRUE) \cup {new}
    <3>1. PICK i \in Indices' : /\ getState(i)' = TRUE
                                /\ m = [index |-> i, key |-> idList'[i + 1].key]
      BY <2>1 DEF Entries
    <3>2. CASE i \in Indices
      BY <1>4, <3>1, <3>2, EntriesMembers
    <3>3. CASE i = slot
      BY <1>5, <3>1, <3>3
    <3>4. QED
      BY <1>2, <3>2, <3>3
  <2>2. ASSUME NEW m \in Entries(TRUE) PROVE m \in Entries(TRUE)'
    BY <1>2, <1>4, <2>2 DEF Entries
  <2>3. new \in Entries(TRUE)'
    BY <1>2, <1>5 DEF Entries
  <2>4. QED
    BY <2>1, <2>2, <2>3
<1>7. Entries(FALSE)' = Entries(FALSE)
  <2>1. ASSUME NEW m \in Entries(FALSE)' PROVE m \in Entries(FALSE)
    <3>1. PICK i \in Indices' : /\ getState(i)' = FALSE
                                /\ m = [index |-> i, key |-> idList'[i + 1].key]
      BY <2>1 DEF Entries
    <3>2. i \in Indices
      BY <1>2, <1>5, <3>1
    <3>3. QED
      BY <1>4, <3>1, <3>2, EntriesMembers
  <2>2. ASSUME NEW m \in Entries(FALSE) PROVE m \in Entries(FALSE)'
    BY <1>2, <1>4, <2>2 DEF Entries
  <2>3. QED
    BY <2>1, <2>2
<1>8. QED
  BY <1>1, <1>2, <1>6, <1>7 DEF Promise!Issue

\* A revocation retires the entry it names and leaves all others alone.
LEMMA RevocationRetires ==
    ASSUME IDsTyped, NEW sender \in Address, NEW r \in Indices, revokeID(sender, r)
    PROVE  \E m \in Entries(TRUE) : Promise!Retire(m)
<1> DEFINE gone == [index |-> r, key |-> idList[r + 1].key]
<1>1. nextIndex' = nextIndex /\ Indices' = Indices
  BY DEF revokeID, Indices
<1>2. r + 1 \in DOMAIN idList /\ idList[r + 1] \in ID /\ getState(r) = TRUE
  <2>1. r + 1 \in DOMAIN idList
    BY DEF Indices, IDsTyped
  <2>2. idList[r + 1] \in ID
    BY <2>1, ElementOfSeq DEF IDsTyped
  <2>3. QED
    BY <2>1, <2>2 DEF revokeID, getState, ID
<1>3. ASSUME NEW i \in Indices
      PROVE  /\ idList'[i + 1].key = idList[i + 1].key
             /\ i # r => getState(i)' = getState(i)
             /\ i = r => getState(i)' = FALSE
  <2>1. i + 1 \in DOMAIN idList
    BY DEF Indices, IDsTyped
  <2>2. r \in Int /\ i \in Int
    BY DEF Indices, IDsTyped
  <2>3. CASE i = r
    <3>1. idList'[r + 1] = [idList[r + 1] EXCEPT !.active = FALSE]
      BY <1>2 DEF revokeID, revoked, IDsTyped
    <3>2. idList'[r + 1].key = idList[r + 1].key /\ idList'[r + 1].active = FALSE
      BY <1>2, <3>1 DEF ID
    <3>3. QED
      BY <2>3, <3>2 DEF getState
  <2>4. CASE i # r
    <3>1. idList'[i + 1] = idList[i + 1]
      BY <2>1, <2>2, <2>4 DEF revokeID, revoked, IDsTyped
    <3>2. QED
      BY <2>4, <3>1 DEF getState
  <2>5. QED
    BY <2>3, <2>4
<1>4. gone \in Entries(TRUE)
  BY <1>2 DEF Entries
<1>5. Entries(TRUE)' = Entries(TRUE) \ {gone}
  <2>1. ASSUME NEW m \in Entries(TRUE)' PROVE m \in Entries(TRUE) \ {gone}
    <3>1. PICK i \in Indices : /\ getState(i)' = TRUE
                               /\ m = [index |-> i, key |-> idList'[i + 1].key]
      BY <1>1, <2>1 DEF Entries
    <3>2. i # r
      BY <1>3, <3>1
    <3>3. m.index = i /\ gone.index = r
      BY <3>1
    <3>4. QED
      BY <1>3, <3>1, <3>2, <3>3, EntriesMembers
  <2>2. ASSUME NEW m \in Entries(TRUE) \ {gone} PROVE m \in Entries(TRUE)'
    <3>1. m \in Entries(TRUE) /\ m # gone
      BY <2>2
    <3>2. PICK i \in Indices : /\ getState(i) = TRUE
                               /\ m = [index |-> i, key |-> idList[i + 1].key]
      BY <3>1 DEF Entries
    <3>3. i # r
      BY <3>1, <3>2
    <3>4. QED
      BY <1>1, <1>3, <3>2, <3>3 DEF Entries
  <2>3. QED
    BY <2>1, <2>2
<1>6. Entries(FALSE)' = Entries(FALSE) \cup {gone}
  <2>1. ASSUME NEW m \in Entries(FALSE)' PROVE m \in Entries(FALSE) \cup {gone}
    <3>1. PICK i \in Indices : /\ getState(i)' = FALSE
                               /\ m = [index |-> i, key |-> idList'[i + 1].key]
      BY <1>1, <2>1 DEF Entries
    <3>2. QED
      BY <1>3, <3>1, EntriesMembers
  <2>2. ASSUME NEW m \in Entries(FALSE) PROVE m \in Entries(FALSE)'
    <3>1. PICK i \in Indices : /\ getState(i) = FALSE
                               /\ m = [index |-> i, key |-> idList[i + 1].key]
      BY <2>2, EntriesMembers
    <3>2. getState(i)' = FALSE /\ idList'[i + 1].key = idList[i + 1].key
      BY <1>3, <3>1
    <3>3. QED
      BY <1>1, <3>1, <3>2 DEF Entries
  <2>3. gone \in Entries(FALSE)'
    BY <1>1, <1>3 DEF Entries
  <2>4. QED
    BY <2>1, <2>2, <2>3
<1>7. QED
  BY <1>1, <1>4, <1>5, <1>6 DEF Promise!Retire

\* KeepsPromise: the extended contract implements RegistryPromise.  Adding an
\* identity in either way is Issue, revoking one is Retire, and all else, roots
\* and nullifiers and roles, are stuttering steps.
THEOREM PromiseKept == Spec => KeepsPromise
<1>1. Init => Promise!Init /\ IDsTyped
  BY V2NumberAssumption DEF Init, Promise!Init, Entries, Indices, IDsTyped
<1>2. IDsTyped /\ [Next]_vars => IDsTyped'
  BY EveryStepOnIDs, EpochsStayTyped, IDsStayTyped DEF IDsTyped
<1>3. IDsTyped /\ [Next]_vars => [Promise!Next]_(Promise!vars)
  <2> SUFFICES ASSUME IDsTyped, IDStep
               PROVE  Promise!Next \/ UNCHANGED Promise!vars
    BY EveryStepOnIDs
  <2>1. CASE UNCHANGED idVars
    BY <2>1 DEF idVars, Promise!vars, Entries, Indices, getState
  <2>2. ASSUME NEW sender \in Address, NEW k \in Key, NEW c \in Commit \cup Bracket, addID(sender, k, c)
        PROVE  Promise!Next
    BY <2>2, RegistrationIssues DEF Promise!Next
  <2>3. ASSUME NEW sender \in Address, NEW r \in Indices, revokeID(sender, r)
        PROVE  Promise!Next
    BY <2>3, RevocationRetires DEF Promise!Next
  <2>4. QED
    BY <2>1, <2>2, <2>3 DEF IDStep
<1>4. QED
  BY <1>1, <1>2, <1>3, PTL DEF Spec, KeepsPromise, Promise!Spec
===============================================================================
