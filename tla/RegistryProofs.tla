---------------------------- MODULE RegistryProofs ----------------------------
(***************************************************************************)
(* Theorems about the identity contract, for every set of addresses and    *)
(* keys and every bound, and about the two programs that work on it.       *)
(*                                                                         *)
(* The parent portal, for every number of children, parents and concurrent *)
(* requests and every bound; and registration proofs, for every number of  *)
(* attempts, keys and ring parameters: what the reads of a changing        *)
(* contract add up to.                                                     *)
(***************************************************************************)
EXTENDS ParentPortal, RingProofs, SequenceTheorems, FiniteSetTheorems, WellFoundedInduction, TLAPS

-------------------------------------------------------------------------------
(* The contract. *)

\* What an appended log contains; cited by every transaction.
LEMMA EmitType ==
    ASSUME log \in Seq(Event), NEW e \in Event, emit(e)
    PROVE  log' \in Seq(Event)
  BY DEF emit

\* The constructor leaves the contract well typed.
LEMMA TypeInit == ASSUME Init PROVE TypeOK
<1>1. PICK deployer \in Address :
        /\ admin = deployer
        /\ idList = <<>>
        /\ nextIndex = 0
        /\ authorizedVerifiers = {deployer}
        /\ log = <<[event |-> "VerifierAuthorized", verifier |-> deployer]>>
  BY DEF Init
<1>2. [event |-> "VerifierAuthorized", verifier |-> deployer] \in Event
  BY DEF Event, AnyAddress
<1>3. log \in Seq(Event)
  BY <1>1, <1>2
<1>4. QED
  BY <1>1, <1>3 DEF TypeOK, AnyAddress

\* So does every transaction.
LEMMA TypeStep == ASSUME TypeOK, [Next]_vars PROVE TypeOK'
<1> USE DEF TypeOK
<1>1. ASSUME NEW sender \in Address, NEW a \in AnyAddress,
             authorizeVerifier(sender, a)
      PROVE  TypeOK'
  <2>1. [event |-> "VerifierAuthorized", verifier |-> a] \in Event
    BY DEF Event
  <2>2. log' \in Seq(Event)
    BY <1>1, <2>1, EmitType DEF authorizeVerifier
  <2>3. QED
    BY <1>1, <2>2 DEF authorizeVerifier
<1>2. ASSUME NEW sender \in Address, NEW a \in AnyAddress,
             removeVerifier(sender, a)
      PROVE  TypeOK'
  <2>1. [event |-> "VerifierRemoved", verifier |-> a] \in Event
    BY DEF Event
  <2>2. log' \in Seq(Event)
    BY <1>2, <2>1, EmitType DEF removeVerifier
  <2>3. QED
    BY <1>2, <2>2 DEF removeVerifier
<1>3. ASSUME NEW sender \in Address, NEW a \in AnyAddress,
             transferAdmin(sender, a)
      PROVE  TypeOK'
  <2>1. [event |-> "AdminTransferred", previousAdmin |-> admin,
         newAdmin |-> a] \in Event
    BY DEF Event
  <2>2. log' \in Seq(Event)
    BY <1>3, <2>1, EmitType DEF transferAdmin
  <2>3. QED
    BY <1>3, <2>2 DEF transferAdmin
<1>4. ASSUME NEW sender \in Address, NEW k \in Key, NEW b \in BracketInput,
             addID(sender, k, b)
      PROVE  TypeOK'
  <2>1. b \in AgeBracket
    BY <1>4, BracketAssumption DEF addID, validBracket, AgeBracket
  <2>2. [key |-> k, active |-> TRUE, owner |-> sender, ageBracket |-> b] \in ID
    BY <2>1 DEF ID
  <2>3. [event |-> "IDRegistered", index |-> nextIndex, owner |-> sender,
         ageBracket |-> b] \in Event
    BY <2>1 DEF Event
  <2>4. log' \in Seq(Event)
    BY <1>4, <2>3, EmitType DEF addID
  <2>5. idList' \in Seq(ID) /\ Len(idList') = Len(idList) + 1
    BY <1>4, <2>2 DEF addID
  <2>6. QED
    BY <1>4, <2>4, <2>5 DEF addID
<1>5. ASSUME NEW sender \in Address, NEW i \in Indices, revokeID(sender, i)
      PROVE  TypeOK'
  <2>1. i \in Nat /\ i + 1 \in 1..Len(idList)
    BY <1>5 DEF Indices
  <2>2. [event |-> "IDRevoked", index |-> i, revokedBy |-> sender] \in Event
    BY <2>1 DEF Event
  <2>3. log' \in Seq(Event)
    BY <1>5, <2>2, EmitType DEF revokeID
  <2>4. idList[i + 1] \in ID
    BY <2>1
  <2>5. [idList[i + 1] EXCEPT !.active = FALSE] \in ID
    BY <2>4 DEF ID
  <2>6. idList' = [idList EXCEPT ![i + 1] = [idList[i + 1] EXCEPT !.active = FALSE]]
    BY <1>5 DEF revokeID, deactivated
  <2>7. idList' \in Seq(ID) /\ Len(idList') = Len(idList)
    BY <2>1, <2>5, <2>6
  <2>8. QED
    BY <1>5, <2>3, <2>7 DEF revokeID
<1>6. CASE UNCHANGED vars
  BY <1>6 DEF vars
<1>7. QED
  BY <1>1, <1>2, <1>3, <1>4, <1>5, <1>6 DEF Next

\* The storage, the roles and the log keep their types, and the counter
\* nextIndex stays equal to the length of idList (Veriqid.sol, line 40).
THEOREM TypeCorrect == Spec => []TypeOK
BY TypeInit, TypeStep, PTL DEF Spec

-------------------------------------------------------------------------------
(* What one step does to idList. *)

\* A step appends at most one active entry and otherwise changes at most one
\* active flag, from TRUE to FALSE.
EntriesStep ==
    \/ idList' = idList
    \/ \E d \in ID : d.active /\ idList' = Append(idList, d)
    \/ \E n \in DOMAIN idList :
        /\ idList[n].active
        /\ idList' = [idList EXCEPT ![n] = [idList[n] EXCEPT !.active = FALSE]]

\* Every transaction changes idList by one append, one deactivation, or not.
LEMMA EveryStepOnEntries == ASSUME TypeOK, [Next]_vars PROVE EntriesStep
<1>1. ASSUME NEW sender \in Address, NEW a \in AnyAddress,
             \/ authorizeVerifier(sender, a)
             \/ removeVerifier(sender, a)
             \/ transferAdmin(sender, a)
      PROVE  EntriesStep
  BY <1>1 DEF authorizeVerifier, removeVerifier, transferAdmin, EntriesStep
<1>2. ASSUME NEW sender \in Address, NEW k \in Key, NEW b \in BracketInput,
             addID(sender, k, b)
      PROVE  EntriesStep
  <2> DEFINE d == [key |-> k, active |-> TRUE, owner |-> sender, ageBracket |-> b]
  <2>1. b \in AgeBracket
    BY <1>2, BracketAssumption DEF addID, validBracket, AgeBracket
  <2>2. d \in ID /\ d.active
    BY <2>1 DEF ID
  <2>3. idList' = Append(idList, d)
    BY <1>2 DEF addID
  <2>4. QED
    BY <2>2, <2>3 DEF EntriesStep
<1>3. ASSUME NEW sender \in Address, NEW i \in Indices, revokeID(sender, i)
      PROVE  EntriesStep
  <2>1. i + 1 \in DOMAIN idList
    BY DEF Indices, TypeOK
  <2>2. idList[i + 1].active
    BY <1>3 DEF revokeID, revocable, getState
  <2>3. idList' = [idList EXCEPT ![i + 1] = [idList[i + 1] EXCEPT !.active = FALSE]]
    BY <1>3 DEF revokeID, deactivated
  <2>4. QED
    BY <2>1, <2>2, <2>3 DEF EntriesStep
<1>4. CASE UNCHANGED vars
  BY <1>4 DEF vars, EntriesStep
<1>5. QED
  BY <1>1, <1>2, <1>3, <1>4 DEF Next

\* The same fact read entry by entry.
LEMMA EntriesAreFinal ==
    ASSUME TypeOK, EntriesStep
    PROVE  /\ Len(idList') >= Len(idList)
           /\ idList' \in Seq(ID)
           /\ \A n \in DOMAIN idList :
                /\ idList'[n].key = idList[n].key
                /\ idList'[n].owner = idList[n].owner
                /\ idList'[n].ageBracket = idList[n].ageBracket
                /\ idList'[n].active => idList[n].active
<1> USE DEF TypeOK
<1>1. CASE idList' = idList
  BY <1>1
<1>2. ASSUME NEW d \in ID, idList' = Append(idList, d)
      PROVE  /\ Len(idList') >= Len(idList)
             /\ idList' \in Seq(ID)
             /\ \A n \in DOMAIN idList : idList'[n] = idList[n]
  BY <1>2
<1>3. ASSUME NEW m \in DOMAIN idList, idList[m].active,
             idList' = [idList EXCEPT ![m] = [idList[m] EXCEPT !.active = FALSE]]
      PROVE  /\ Len(idList') >= Len(idList)
             /\ idList' \in Seq(ID)
             /\ \A n \in DOMAIN idList :
                  /\ idList'[n].key = idList[n].key
                  /\ idList'[n].owner = idList[n].owner
                  /\ idList'[n].ageBracket = idList[n].ageBracket
                  /\ idList'[n].active => idList[n].active
  <2> DEFINE r == [idList[m] EXCEPT !.active = FALSE]
  <2>1. idList[m] \in ID
    BY ElementOfSeq
  <2>2. /\ r \in ID /\ r.active = FALSE
        /\ r.key = idList[m].key
        /\ r.owner = idList[m].owner
        /\ r.ageBracket = idList[m].ageBracket
    BY <2>1 DEF ID
  <2>3. idList' = [idList EXCEPT ![m] = r]
    BY <1>3
  <2> HIDE DEF r
  <2>4. idList' \in Seq(ID) /\ Len(idList') = Len(idList)
    BY <2>2, <2>3
  <2>5. ASSUME NEW n \in DOMAIN idList
        PROVE  idList'[n] = IF n = m THEN r ELSE idList[n]
    BY <2>3
  <2>6. QED
    BY <2>2, <2>4, <2>5
<1>4. QED
  BY <1>1, <1>2, <1>3 DEF EntriesStep

\* RecordsAreFinal: entries are append only, and only the active flag of an
\* entry ever changes, once, from TRUE to FALSE.
THEOREM RecordsFinal == Spec => RecordsAreFinal
<1>1. TypeOK /\ [Next]_vars =>
        /\ Len(idList') >= Len(idList)
        /\ \A n \in DOMAIN idList :
             /\ idList'[n].key = idList[n].key
             /\ idList'[n].owner = idList[n].owner
             /\ idList'[n].ageBracket = idList[n].ageBracket
             /\ idList'[n].active => idList[n].active
  BY EveryStepOnEntries, EntriesAreFinal
<1>2. QED
  BY <1>1, TypeCorrect, PTL DEF Spec, RecordsAreFinal

-------------------------------------------------------------------------------
(* The index of a key. *)

\* A non-empty set of indices has a least one.
LEMMA LeastIndex ==
    ASSUME NEW S, S \subseteq Nat, S # {}
    PROVE  \E m \in S : \A n \in S : m <= n
<1> DEFINE less == OpToRel(<, Nat)
<1>1. IsWellFoundedOn(less, Nat)
  BY NatLessThanWellFounded
<1>2. PICK m \in S : \A n \in S : <<n, m>> \notin less
  BY <1>1, WFMin
<1>3. ASSUME NEW n \in S PROVE m <= n
  <2>1. m \in Nat /\ n \in Nat /\ ~(n < m)
    BY <1>2 DEF OpToRel
  <2>2. QED
    BY <2>1
<1>4. QED
  BY <1>3

\* getIDIndex is -1 for an unknown key and otherwise the first entry of the key.
LEMMA IndexOfKey ==
    ASSUME TypeOK, NEW k
    PROVE  /\ entriesOf(k) = {} => getIDIndex(k) = -1
           /\ entriesOf(k) # {} => /\ getIDIndex(k) \in entriesOf(k)
                                   /\ \A j \in entriesOf(k) : getIDIndex(k) <= j
<1>1. CASE entriesOf(k) = {}
  BY <1>1 DEF getIDIndex
<1>2. CASE entriesOf(k) # {}
  <2>1. entriesOf(k) \subseteq Nat
    BY DEF entriesOf, Indices, TypeOK
  <2>2. \E m \in entriesOf(k) : \A j \in entriesOf(k) : m <= j
    BY <1>2, <2>1, LeastIndex
  <2>3. QED
    BY <1>2, <2>2 DEF getIDIndex
<1>3. QED
  BY <1>1, <1>2

\* IndexStable: a key keeps the index by which it was first found.
THEOREM IndexNeverMoves == Spec => IndexStable
<1>1. TypeOK /\ TypeOK' /\ [Next]_vars =>
        \A k \in Key : getIDIndex(k) # -1 => getIDIndex(k)' = getIDIndex(k)
  <2> SUFFICES ASSUME TypeOK, TypeOK', [Next]_vars,
                      NEW k \in Key, getIDIndex(k) # -1
               PROVE  getIDIndex(k)' = getIDIndex(k)
    OBVIOUS
  <2> DEFINE m == getIDIndex(k)
  <2>1. EntriesStep
    BY EveryStepOnEntries
  <2>2. m \in entriesOf(k) /\ \A j \in entriesOf(k) : m <= j
    BY IndexOfKey
  <2>3. Indices \subseteq Indices'
    BY <2>1, EntriesAreFinal DEF Indices, TypeOK
  <2>4. ASSUME NEW j \in Indices PROVE getIDs(j)' = getIDs(j)
    <3>1. j + 1 \in DOMAIN idList
      BY DEF Indices, TypeOK
    <3>2. QED
      BY <2>1, <3>1, EntriesAreFinal DEF getIDs
  <2>5. m \in entriesOf(k)'
    BY <2>2, <2>3, <2>4 DEF entriesOf
  <2>6. ASSUME NEW j \in entriesOf(k)' PROVE m <= j
    <3>1. CASE j \in Indices
      BY <2>2, <2>4, <3>1 DEF entriesOf
    <3>2. CASE j \notin Indices
      BY <2>2, <3>2 DEF entriesOf, Indices, TypeOK
    <3>3. QED
      BY <3>1, <3>2
  <2>7. /\ getIDIndex(k)' \in entriesOf(k)'
        /\ \A j \in entriesOf(k)' : getIDIndex(k)' <= j
    <3>1. entriesOf(k)' # {}
      BY <2>5
    <3>2. (/\ entriesOf(k) = {} => getIDIndex(k) = -1
           /\ entriesOf(k) # {} => /\ getIDIndex(k) \in entriesOf(k)
                                   /\ \A j \in entriesOf(k) : getIDIndex(k) <= j)'
      BY IndexOfKey, PTL
    <3>3. QED
      BY <3>1, <3>2
  <2>8. m <= getIDIndex(k)' /\ getIDIndex(k)' <= m
    BY <2>5, <2>6, <2>7
  <2>9. m \in Int /\ getIDIndex(k)' \in Int
    BY <2>2, <2>7 DEF entriesOf, Indices, TypeOK
  <2>10. QED
    BY <2>8, <2>9
<1>2. QED
  BY <1>1, TypeCorrect, PTL DEF Spec, IndexStable

-------------------------------------------------------------------------------
(* Roles. *)

\* RolesNeverLost: no transaction hands a role to address(0), so an active
\* identity always has an owner and an admin able to revoke it.
THEOREM RolesKept == Spec => []RolesNeverLost
<1>1. Init => RolesNeverLost
  BY AddressAssumption DEF Init, RolesNeverLost
<1>2. RolesNeverLost /\ [Next]_vars => RolesNeverLost'
  <2> SUFFICES ASSUME RolesNeverLost, [Next]_vars PROVE RolesNeverLost'
    OBVIOUS
  <2> USE DEF RolesNeverLost
  <2>1. ASSUME NEW sender \in Address, NEW a \in AnyAddress,
               authorizeVerifier(sender, a)
        PROVE  RolesNeverLost'
    BY <2>1 DEF authorizeVerifier, nonZero
  <2>2. ASSUME NEW sender \in Address, NEW a \in AnyAddress,
               removeVerifier(sender, a)
        PROVE  RolesNeverLost'
    BY <2>2 DEF removeVerifier
  <2>3. ASSUME NEW sender \in Address, NEW a \in AnyAddress,
               transferAdmin(sender, a)
        PROVE  RolesNeverLost'
    BY <2>3 DEF transferAdmin, nonZero
  <2>4. ASSUME NEW sender \in Address, NEW k \in Key, NEW b \in BracketInput,
               addID(sender, k, b)
        PROVE  RolesNeverLost'
    BY <2>4 DEF addID
  <2>5. ASSUME NEW sender \in Address, NEW i \in Indices, revokeID(sender, i)
        PROVE  RolesNeverLost'
    BY <2>5 DEF revokeID
  <2>6. CASE UNCHANGED vars
    BY <2>6 DEF vars
  <2>7. QED
    BY <2>1, <2>2, <2>3, <2>4, <2>5, <2>6 DEF Next
<1>3. QED
  BY <1>1, <1>2, PTL DEF Spec

-------------------------------------------------------------------------------
(* Refinement. *)

\* Membership in the two abstract sets, stated without the set constructor.
LEMMA EntriesMembers ==
    ASSUME NEW flag, NEW m
    PROVE  m \in Entries(flag) <=>
             \E i \in Indices : /\ getState(i) = flag
                                /\ m = [index |-> i, key |-> getIDs(i)]
  BY DEF Entries

\* A registration issues the next slot and leaves all others alone.
LEMMA RegistrationIssues ==
    ASSUME TypeOK, NEW sender \in Address, NEW k \in Key, NEW b \in BracketInput,
           addID(sender, k, b)
    PROVE  Promise!Issue(k)
<1>1. PICK slot \in Nat : slot = nextIndex
  BY DEF TypeOK
<1> DEFINE new == [index |-> slot, key |-> k]
<1>2. /\ nextIndex' = nextIndex + 1
      /\ Indices' = Indices \cup {slot}
      /\ slot \notin Indices
  BY <1>1 DEF addID, Indices, TypeOK
<1> DEFINE d == [key |-> k, active |-> TRUE, owner |-> sender, ageBracket |-> b]
<1>3. idList' = Append(idList, d) /\ d.key = k /\ d.active = TRUE
  BY DEF addID
<1> HIDE DEF d
<1>4. ASSUME NEW i \in Indices
      PROVE  getIDs(i)' = getIDs(i) /\ getState(i)' = getState(i)
  <2>1. i \in Nat /\ i + 1 \in 1..Len(idList)
    BY DEF Indices, TypeOK
  <2>2. idList'[i + 1] = idList[i + 1]
    BY <1>3, <2>1 DEF TypeOK
  <2>3. QED
    BY <2>2 DEF getIDs, getState
<1>5. getIDs(slot)' = k /\ getState(slot)' = TRUE
  <2>1. idList'[slot + 1] = d
    BY <1>1, <1>3 DEF TypeOK
  <2>2. QED
    BY <1>3, <2>1 DEF getIDs, getState
<1>6. Entries(TRUE)' = Entries(TRUE) \cup {new}
  <2>1. ASSUME NEW m \in Entries(TRUE)' PROVE m \in Entries(TRUE) \cup {new}
    <3>1. PICK i \in Indices' : /\ getState(i)' = TRUE
                                /\ m = [index |-> i, key |-> getIDs(i)']
      BY <2>1 DEF Entries
    <3>2. CASE i \in Indices
      BY <1>4, <3>1, <3>2, EntriesMembers
    <3>3. CASE i = slot
      BY <1>5, <3>1, <3>3
    <3>4. QED
      BY <1>2, <3>2, <3>3
  <2>2. ASSUME NEW m \in Entries(TRUE) PROVE m \in Entries(TRUE)'
    BY <1>2, <1>4, <2>2 DEF Entries
  <2>3. new \in Entries(TRUE)'
    BY <1>2, <1>5 DEF Entries
  <2>4. QED
    BY <2>1, <2>2, <2>3
<1>7. Entries(FALSE)' = Entries(FALSE)
  <2>1. ASSUME NEW m \in Entries(FALSE)' PROVE m \in Entries(FALSE)
    <3>1. PICK i \in Indices' : /\ getState(i)' = FALSE
                                /\ m = [index |-> i, key |-> getIDs(i)']
      BY <2>1 DEF Entries
    <3>2. i \in Indices
      BY <1>2, <1>5, <3>1
    <3>3. QED
      BY <1>4, <3>1, <3>2, EntriesMembers
  <2>2. ASSUME NEW m \in Entries(FALSE) PROVE m \in Entries(FALSE)'
    BY <1>2, <1>4, <2>2 DEF Entries
  <2>3. QED
    BY <2>1, <2>2
<1>8. QED
  BY <1>1, <1>2, <1>6, <1>7 DEF Promise!Issue

\* A revocation retires the entry it names and leaves all others alone.
LEMMA RevocationRetires ==
    ASSUME TypeOK, NEW sender \in Address, NEW r \in Indices, revokeID(sender, r)
    PROVE  \E m \in Entries(TRUE) : Promise!Retire(m)
<1> DEFINE gone == [index |-> r, key |-> getIDs(r)]
<1>1. nextIndex' = nextIndex /\ Indices' = Indices
  BY DEF revokeID, Indices
<1>2. r + 1 \in DOMAIN idList /\ idList[r + 1] \in ID /\ getState(r) = TRUE
  <2>1. r + 1 \in DOMAIN idList
    BY DEF Indices, TypeOK
  <2>2. idList[r + 1] \in ID
    BY <2>1, ElementOfSeq DEF TypeOK
  <2>3. QED
    BY <2>1, <2>2 DEF revokeID, revocable, getState, ID
<1>3. ASSUME NEW i \in Indices
      PROVE  /\ getIDs(i)' = getIDs(i)
             /\ i # r => getState(i)' = getState(i)
             /\ i = r => getState(i)' = FALSE
  <2>1. i + 1 \in DOMAIN idList
    BY DEF Indices, TypeOK
  <2>2. r \in Int /\ i \in Int
    BY DEF Indices, TypeOK
  <2>3. CASE i = r
    <3>1. idList'[r + 1] = [idList[r + 1] EXCEPT !.active = FALSE]
      BY <1>2 DEF revokeID, deactivated, TypeOK
    <3>2. idList'[r + 1].key = idList[r + 1].key /\ idList'[r + 1].active = FALSE
      BY <1>2, <3>1 DEF ID
    <3>3. QED
      BY <2>3, <3>2 DEF getIDs, getState
  <2>4. CASE i # r
    <3>1. idList'[i + 1] = idList[i + 1]
      BY <2>1, <2>2, <2>4 DEF revokeID, deactivated, TypeOK
    <3>2. QED
      BY <2>4, <3>1 DEF getIDs, getState
  <2>5. QED
    BY <2>3, <2>4
<1>4. gone \in Entries(TRUE)
  BY <1>2 DEF Entries
<1>5. Entries(TRUE)' = Entries(TRUE) \ {gone}
  <2>1. ASSUME NEW m \in Entries(TRUE)' PROVE m \in Entries(TRUE) \ {gone}
    <3>1. PICK i \in Indices : /\ getState(i)' = TRUE
                               /\ m = [index |-> i, key |-> getIDs(i)']
      BY <1>1, <2>1 DEF Entries
    <3>2. i # r
      BY <1>3, <3>1
    <3>3. m.index = i /\ gone.index = r
      BY <3>1
    <3>4. QED
      BY <1>3, <3>1, <3>2, <3>3, EntriesMembers
  <2>2. ASSUME NEW m \in Entries(TRUE) \ {gone} PROVE m \in Entries(TRUE)'
    <3>1. PICK i \in Indices : /\ getState(i) = TRUE
                               /\ m = [index |-> i, key |-> getIDs(i)]
      BY <2>2, EntriesMembers
    <3>2. i # r
      BY <2>2, <3>1
    <3>3. QED
      BY <1>1, <1>3, <3>1, <3>2 DEF Entries
  <2>3. QED
    BY <2>1, <2>2
<1>6. Entries(FALSE)' = Entries(FALSE) \cup {gone}
  <2>1. ASSUME NEW m \in Entries(FALSE)' PROVE m \in Entries(FALSE) \cup {gone}
    <3>1. PICK i \in Indices : /\ getState(i)' = FALSE
                               /\ m = [index |-> i, key |-> getIDs(i)']
      BY <1>1, <2>1 DEF Entries
    <3>2. QED
      BY <1>3, <3>1, EntriesMembers
  <2>2. ASSUME NEW m \in Entries(FALSE) PROVE m \in Entries(FALSE)'
    <3>1. PICK i \in Indices : /\ getState(i) = FALSE
                               /\ m = [index |-> i, key |-> getIDs(i)]
      BY <2>2, EntriesMembers
    <3>2. getState(i)' = FALSE /\ getIDs(i)' = getIDs(i)
      BY <1>3, <3>1
    <3>3. QED
      BY <1>1, <3>1, <3>2 DEF Entries
  <2>3. gone \in Entries(FALSE)'
    BY <1>1, <1>3 DEF Entries
  <2>4. QED
    BY <2>1, <2>2, <2>3
<1>7. QED
  BY <1>1, <1>4, <1>5, <1>6 DEF Promise!Retire

\* ImplementsPromise: the contract implements RegistryPromise.  Registration is
\* Issue, revocation is Retire, and role changes are stuttering steps.
THEOREM RegistryImplementsPromise == Spec => ImplementsPromise
<1>1. Init => Promise!Init
  BY DEF Init, Promise!Init, Entries, Indices
<1>2. TypeOK /\ [Next]_vars => [Promise!Next]_(Promise!vars)
  <2> SUFFICES ASSUME TypeOK, [Next]_vars
               PROVE  Promise!Next \/ UNCHANGED Promise!vars
    OBVIOUS
  <2>1. ASSUME idList' = idList, nextIndex' = nextIndex
        PROVE  UNCHANGED Promise!vars
    BY <2>1 DEF Promise!vars, Entries, Indices, getIDs, getState
  <2>2. ASSUME NEW sender \in Address, NEW a \in AnyAddress,
               \/ authorizeVerifier(sender, a)
               \/ removeVerifier(sender, a)
               \/ transferAdmin(sender, a)
        PROVE  UNCHANGED Promise!vars
    BY <2>1, <2>2 DEF authorizeVerifier, removeVerifier, transferAdmin
  <2>3. ASSUME NEW sender \in Address, NEW k \in Key, NEW b \in BracketInput,
               addID(sender, k, b)
        PROVE  Promise!Next
    BY <2>3, RegistrationIssues DEF Promise!Next
  <2>4. ASSUME NEW sender \in Address, NEW r \in Indices, revokeID(sender, r)
        PROVE  Promise!Next
    BY <2>4, RevocationRetires DEF Promise!Next
  <2>5. CASE UNCHANGED vars
    BY <2>1, <2>5 DEF vars
  <2>6. QED
    BY <2>2, <2>3, <2>4, <2>5 DEF Next
<1>3. QED
  BY <1>1, <1>2, TypeCorrect, PTL DEF Spec, ImplementsPromise, Promise!Spec

-------------------------------------------------------------------------------
(* The ring, page by page. *)

\* What the loop from start makes of the keys it has, at entry i - 1.
collectedAt(start, i, keys) ==
    IF i <= start THEN <<>>
    ELSE IF getState(i - 1) THEN Append(keys, getIDs(i - 1))
    ELSE keys

\* f holds what the loop from start has collected, up to entry n - 1.
Collects(f, start, n) ==
    f = [i \in 0 .. n |-> IF i = 0 THEN <<>> ELSE collectedAt(start, i, f[i - 1])]

LEMMA CollectionExists ==
    ASSUME nextIndex \in Nat, NEW start \in Nat
    PROVE  \E f : Collects(f, start, nextIndex)
<1> DEFINE bad == {n \in 0 .. nextIndex : ~ \E f : Collects(f, start, n)}
<1>1. SUFFICES ASSUME bad # {} PROVE FALSE
  BY <1>1
<1>2. PICK m \in bad : \A k \in bad : m <= k
  <2>1. bad \subseteq Nat
    OBVIOUS
  <2> HIDE DEF bad
  <2>2. QED
    BY <1>1, <2>1, LeastIndex, Zenon
<1>3. m \in 0 .. nextIndex /\ ~ \E f : Collects(f, start, m)
  BY <1>2
<1>4. m # 0
  <2>1. Collects([i \in 0 .. 0 |-> <<>>], start, 0)
    BY DEF Collects
  <2>2. QED
    BY <1>3, <2>1
<1>5. m - 1 \in 0 .. nextIndex /\ ~ (m - 1 \in bad)
  <2>1. m - 1 \in 0 .. nextIndex /\ ~ (m <= m - 1)
    BY <1>3, <1>4
  <2> HIDE DEF bad
  <2>2. QED
    BY <1>2, <2>1
<1>6. PICK f : Collects(f, start, m - 1)
  BY <1>5
<1> DEFINE g == [i \in 0 .. m |-> IF i = m THEN collectedAt(start, m, f[m - 1]) ELSE f[i]]
<1>7. Collects(g, start, m)
  BY <1>3, <1>4, <1>6 DEF Collects
<1>8. QED
  BY <1>3, <1>7

\* What the loop does with each entry.
LEMMA CollectedSteps ==
    ASSUME TypeOK, NEW start \in Nat
    PROVE  \A i \in 0 .. nextIndex :
             collected(start)[i] =
                IF i <= start THEN <<>>
                ELSE IF getState(i - 1) THEN Append(collected(start)[i - 1], getIDs(i - 1))
                ELSE collected(start)[i - 1]
<1>1. collected(start) = CHOOSE f : Collects(f, start, nextIndex)
  BY DEF collected, Collects, collectedAt
<1>2. nextIndex \in Nat
  BY DEF TypeOK
<1>3. Collects(collected(start), start, nextIndex)
  BY <1>1, <1>2, CollectionExists, Zenon
<1>4. \A i \in 0 .. nextIndex :
        collected(start)[i] = IF i = 0 THEN <<>> ELSE collectedAt(start, i, collected(start)[i - 1])
  BY <1>3, Zenon DEF Collects
<1>5. QED
  BY <1>2, <1>4 DEF collectedAt

LEMMA CollectedKeys ==
    ASSUME TypeOK, NEW start \in Nat, NEW i \in 0 .. nextIndex
    PROVE  collected(start)[i] \in Seq(Key)
<1> DEFINE bad == {n \in 0 .. nextIndex : collected(start)[n] \notin Seq(Key)}
<1>0. nextIndex \in Nat /\ nextIndex = Len(idList) /\ idList \in Seq(ID)
  BY DEF TypeOK
<1>1. SUFFICES ASSUME bad # {} PROVE FALSE
  BY <1>1
<1>2. PICK m \in bad : \A k \in bad : m <= k
  <2>1. bad \subseteq Nat
    BY <1>0
  <2> HIDE DEF bad
  <2>2. QED
    BY <1>1, <2>1, LeastIndex, Zenon
<1>3. m \in 0 .. nextIndex /\ collected(start)[m] \notin Seq(Key)
  BY <1>2
<1>4. ~ (m <= start)
  <2>1. m <= start => collected(start)[m] = <<>>
    BY <1>3, CollectedSteps
  <2>2. <<>> \in Seq(Key)
    OBVIOUS
  <2>3. QED
    BY <1>3, <2>1, <2>2
<1>5. m - 1 \in 0 .. nextIndex /\ ~ (m - 1 \in bad) /\ m \in 1 .. nextIndex
  <2>1. m - 1 \in 0 .. nextIndex /\ ~ (m <= m - 1) /\ m \in 1 .. nextIndex
    BY <1>0, <1>3, <1>4
  <2> HIDE DEF bad
  <2>2. QED
    BY <1>2, <2>1
<1>6. collected(start)[m - 1] \in Seq(Key)
  BY <1>5
<1>7. getIDs(m - 1) \in Key
  <2>1. idList[m] \in ID /\ m - 1 + 1 = m
    BY <1>0, <1>5
  <2>2. QED
    BY <2>1 DEF getIDs, ID
<1>8. \/ collected(start)[m] = Append(collected(start)[m - 1], getIDs(m - 1))
      \/ collected(start)[m] = collected(start)[m - 1]
  BY <1>3, <1>4, CollectedSteps
<1>9. Append(collected(start)[m - 1], getIDs(m - 1)) \in Seq(Key)
  BY <1>6, <1>7, AppendProperties
<1>10. QED
  BY <1>3, <1>6, <1>8, <1>9, Zenon

\* What was collected up to a, and from a to b, is what is collected up to b.
LEMMA CollectedJoins ==
    ASSUME TypeOK, NEW a \in 0 .. nextIndex, NEW b \in a .. nextIndex
    PROVE  collected(0)[a] \o collected(a)[b] = collected(0)[b]
<1> DEFINE joins(n) == collected(0)[a] \o collected(a)[n] = collected(0)[n]
           bad == {n \in a .. nextIndex : ~ joins(n)}
<1>0. nextIndex \in Nat /\ a \in Nat
  BY DEF TypeOK
<1>1. SUFFICES ASSUME bad # {} PROVE FALSE
  BY <1>1
<1>2. PICK m \in bad : \A k \in bad : m <= k
  <2> HIDE DEF joins
  <2>1. bad \subseteq Nat
    BY <1>0
  <2> HIDE DEF bad
  <2>2. QED
    BY <1>1, <2>1, LeastIndex, Zenon
<1>3. m \in a .. nextIndex /\ ~ joins(m)
  BY <1>2
<1>4. m # a
  <2>1. collected(a)[a] = <<>> /\ collected(0)[a] \in Seq(Key)
    BY <1>0, CollectedSteps, CollectedKeys
  <2>2. collected(0)[a] \o <<>> = collected(0)[a]
    BY <2>1, ConcatEmptySeq
  <2>3. joins(a)
    BY <2>1, <2>2
  <2>4. QED
    BY <1>3, <2>3
<1>5. m - 1 \in a .. nextIndex /\ ~ (m - 1 \in bad)
  <2>1. m - 1 \in a .. nextIndex /\ ~ (m <= m - 1)
    BY <1>0, <1>3, <1>4
  <2> HIDE DEF bad
  <2>2. QED
    BY <1>2, <2>1
<1>6. joins(m - 1)
  BY <1>5
<1> DEFINE s == collected(0)[a]
           t == collected(a)[m - 1]
           k == getIDs(m - 1)
<1>7. /\ m \in 0 .. nextIndex /\ m - 1 \in 0 .. nextIndex
      /\ ~ (m <= a) /\ ~ (m <= 0) /\ m \in 1 .. nextIndex
  BY <1>0, <1>3, <1>4
<1>8. s \in Seq(Key) /\ t \in Seq(Key)
  BY <1>0, <1>7, CollectedKeys
<1>9. CASE getState(m - 1)
  <2>1. k \in Key
    <3>1. idList[m] \in ID /\ m - 1 + 1 = m
      BY <1>0, <1>7 DEF TypeOK
    <3>2. QED
      BY <3>1 DEF getIDs, ID
  <2>2. /\ collected(a)[m] = Append(t, k)
        /\ collected(0)[m] = Append(collected(0)[m - 1], k)
    BY <1>0, <1>7, <1>9, CollectedSteps
  <2> HIDE DEF s, t, k
  <2>3. s \o Append(t, k) = Append(s \o t, k)
    BY <1>8, <2>1
  <2>4. QED
    BY <1>3, <1>6, <2>2, <2>3 DEF s, t, k
<1>10. CASE ~ getState(m - 1)
  <2>1. collected(a)[m] = t /\ collected(0)[m] = collected(0)[m - 1]
    BY <1>0, <1>7, <1>10, CollectedSteps
  <2>2. QED
    BY <1>3, <1>6, <2>1
<1>11. QED
  BY <1>9, <1>10

withPage(size, p, keys) == keys \o getBatchIDs((p - 1) * size, size)

\* f holds what a client has read after each of n pages.
ReadsPages(f, size, n) ==
    f = [p \in 0 .. n |-> IF p = 0 THEN <<>> ELSE withPage(size, p, f[p - 1])]

\* The last page ends with the list, and every page begins inside it.
LEMMA PageBounds ==
    ASSUME NEW n \in Nat, NEW size \in Nat, size >= 1
    PROVE  /\ (n + size - 1) \div size \in Nat
           /\ ((n + size - 1) \div size) * size >= n
           /\ \A p \in 1 .. (n + size - 1) \div size :
                (p - 1) * size \in Nat /\ (p - 1) * size < n /\ (p - 1) * size + size = p * size
<1> DEFINE q == (n + size - 1) \div size
           r == (n + size - 1) % size
<1>1. q \in Nat /\ r \in Nat /\ r < size /\ n + size - 1 = q * size + r
  OBVIOUS
<1> HIDE DEF q, r
<1>2. q * size >= n
  BY <1>1
<1>3. ASSUME NEW p \in 1 .. q
      PROVE  (p - 1) * size \in Nat /\ (p - 1) * size < n /\ (p - 1) * size + size = p * size
  <2>1. p \in Nat /\ p >= 1 /\ p - 1 \in Nat /\ q - p \in Nat
    BY <1>1
  <2>2. (p - 1) * size \in Nat /\ (p - 1) * size + size = p * size
    BY <2>1
  <2>3. p * size <= q * size
    BY <1>1, <2>1
  <2>4. QED
    BY <1>1, <2>2, <2>3
<1>4. QED
  BY <1>1, <1>2, <1>3 DEF q

LEMMA ReadingExists ==
    ASSUME NEW size, NEW n \in Nat
    PROVE  \E f : ReadsPages(f, size, n)
<1> DEFINE bad == {k \in 0 .. n : ~ \E f : ReadsPages(f, size, k)}
<1>1. SUFFICES ASSUME bad # {} PROVE FALSE
  BY <1>1
<1>2. PICK m \in bad : \A k \in bad : m <= k
  <2>1. bad \subseteq Nat
    OBVIOUS
  <2> HIDE DEF bad
  <2>2. QED
    BY <1>1, <2>1, LeastIndex, Zenon
<1>3. m \in 0 .. n /\ ~ \E f : ReadsPages(f, size, m)
  BY <1>2
<1>4. m # 0
  <2>1. ReadsPages([p \in 0 .. 0 |-> <<>>], size, 0)
    BY DEF ReadsPages
  <2>2. QED
    BY <1>3, <2>1
<1>5. m - 1 \in 0 .. n /\ ~ (m - 1 \in bad)
  <2>1. m - 1 \in 0 .. n /\ ~ (m <= m - 1)
    BY <1>3, <1>4
  <2> HIDE DEF bad
  <2>2. QED
    BY <1>2, <2>1
<1>6. PICK f : ReadsPages(f, size, m - 1)
  BY <1>5
<1> DEFINE g == [p \in 0 .. m |-> IF p = m THEN withPage(size, m, f[m - 1]) ELSE f[p]]
<1>7. ReadsPages(g, size, m)
  BY <1>3, <1>4, <1>6 DEF ReadsPages
<1>8. QED
  BY <1>3, <1>7

LEMMA ReadingSteps ==
    ASSUME NEW size, pages(size) \in Nat
    PROVE  /\ readByPage(size)[0] = <<>>
           /\ \A p \in 1 .. pages(size) :
                readByPage(size)[p] = readByPage(size)[p - 1] \o getBatchIDs((p - 1) * size, size)
<1>1. readByPage(size) = CHOOSE f : ReadsPages(f, size, pages(size))
  BY DEF readByPage, ReadsPages, withPage
<1>2. ReadsPages(readByPage(size), size, pages(size))
  BY <1>1, ReadingExists, Zenon
<1>3. \A p \in 0 .. pages(size) :
        readByPage(size)[p] =
            IF p = 0 THEN <<>> ELSE withPage(size, p, readByPage(size)[p - 1])
  BY <1>2, Zenon DEF ReadsPages
<1>4. /\ readByPage(size)[0] = <<>>
      /\ \A p \in 1 .. pages(size) : readByPage(size)[p] = withPage(size, p, readByPage(size)[p - 1])
  BY <1>3
<1>5. QED
  BY <1>4, Zenon DEF withPage

\* After p pages a client has what the loop over the first p * size entries
\* collects, or over all of them.
LEMMA ReadSoFar ==
    ASSUME TypeOK, NEW size \in Nat, size >= 1, NEW p \in 0 .. pages(size)
    PROVE  readByPage(size)[p] = collected(0)[batchEnd(0, p * size)]
<1> DEFINE right(q) == readByPage(size)[q] = collected(0)[batchEnd(0, q * size)]
           bad == {q \in 0 .. pages(size) : ~ right(q)}
<1>0. nextIndex \in Nat
  BY DEF TypeOK
<1>1. /\ pages(size) \in Nat
      /\ \A q \in 1 .. pages(size) :
            (q - 1) * size \in Nat /\ (q - 1) * size < nextIndex /\ (q - 1) * size + size = q * size
  BY <1>0, PageBounds DEF pages
<1>2. SUFFICES ASSUME bad # {} PROVE FALSE
  BY <1>2
<1>3. PICK m \in bad : \A k \in bad : m <= k
  <2> HIDE DEF right
  <2>1. bad \subseteq Nat
    BY <1>1
  <2> HIDE DEF bad
  <2>2. QED
    BY <1>2, <2>1, LeastIndex, Zenon
<1>4. m \in 0 .. pages(size) /\ ~ right(m)
  BY <1>3
<1>5. m # 0
  <2>1. batchEnd(0, 0 * size) = 0
    BY <1>0 DEF batchEnd
  <2>2. collected(0)[0] = <<>>
    BY <1>0, CollectedSteps
  <2>3. right(0)
    BY <1>1, <2>1, <2>2, ReadingSteps
  <2>4. QED
    BY <1>4, <2>3
<1>6. m \in 1 .. pages(size) /\ m - 1 \in 0 .. pages(size) /\ ~ (m - 1 \in bad)
  <2>1. m \in 1 .. pages(size) /\ m - 1 \in 0 .. pages(size) /\ ~ (m <= m - 1)
    BY <1>1, <1>4, <1>5
  <2> HIDE DEF bad
  <2>2. QED
    BY <1>3, <2>1
<1>7. right(m - 1)
  BY <1>6
<1> DEFINE a == (m - 1) * size
           b == batchEnd(a, size)
<1>8. a \in Nat /\ a < nextIndex /\ a + size = m * size
  BY <1>1, <1>6
<1>9. b = batchEnd(0, m * size) /\ a = batchEnd(0, (m - 1) * size)
  <2> DEFINE c == m * size
  <2> HIDE DEF a, c
  <2>1. batchEnd(a, size) = batchEnd(0, c)
    BY <1>0, <1>8 DEF batchEnd, c
  <2>2. a = batchEnd(0, a)
    BY <1>0, <1>8 DEF batchEnd
  <2>3. QED
    BY <2>1, <2>2 DEF a, c
<1>10. a \in 0 .. nextIndex /\ b \in a .. nextIndex
  <2> HIDE DEF a
  <2>1. QED
    BY <1>0, <1>8 DEF batchEnd
<1>11. readByPage(size)[m] = readByPage(size)[m - 1] \o collected(a)[b]
  BY <1>1, <1>6, ReadingSteps DEF getBatchIDs
<1>12. readByPage(size)[m - 1] = collected(0)[a]
  BY <1>7, <1>9
<1>13. collected(0)[a] \o collected(a)[b] = collected(0)[b]
  <2> HIDE DEF a, b
  <2>1. QED
    BY <1>10, CollectedJoins
<1>14. QED
  BY <1>4, <1>9, <1>11, <1>12, <1>13, Zenon

\* The first pass counts what the second one collects.
LEMMA CollectedCounts ==
    ASSUME TypeOK, NEW i \in 0 .. nextIndex
    PROVE  Len(collected(0)[i]) = Cardinality({j \in 0 .. i - 1 : getState(j)})
<1> DEFINE standing(n) == {j \in 0 .. n - 1 : getState(j)}
           counted(n) == Len(collected(0)[n]) = Cardinality(standing(n))
           bad == {n \in 0 .. nextIndex : ~ counted(n)}
<1>0. nextIndex \in Nat
  BY DEF TypeOK
<1>1. SUFFICES ASSUME bad # {} PROVE FALSE
  BY <1>1
<1>2. PICK m \in bad : \A k \in bad : m <= k
  <2> HIDE DEF counted
  <2>1. bad \subseteq Nat
    BY <1>0
  <2> HIDE DEF bad
  <2>2. QED
    BY <1>1, <2>1, LeastIndex, Zenon
<1>3. m \in 0 .. nextIndex /\ ~ counted(m)
  BY <1>2
<1>4. m # 0
  <2>1. collected(0)[0] = <<>>
    BY <1>0, CollectedSteps
  <2>2. standing(0) = {}
    OBVIOUS
  <2> HIDE DEF standing
  <2>3. counted(0)
    BY <2>1, <2>2, FS_EmptySet
  <2>4. QED
    BY <1>3, <2>3
<1>5. m \in 1 .. nextIndex /\ m - 1 \in 0 .. nextIndex /\ ~ (m - 1 \in bad)
  <2>1. m \in 1 .. nextIndex /\ m - 1 \in 0 .. nextIndex /\ ~ (m <= m - 1)
    BY <1>0, <1>3, <1>4
  <2> HIDE DEF bad
  <2>2. QED
    BY <1>2, <2>1
<1>6. counted(m - 1)
  BY <1>5
<1> DEFINE keys == collected(0)[m - 1]
           known == standing(m - 1)
<1>7. keys \in Seq(Key)
  BY <1>0, <1>5, CollectedKeys
<1>8. IsFiniteSet(known)
  <2>1. known \subseteq 0 .. (m - 1) - 1 /\ m - 1 - 1 \in Int
    BY <1>0, <1>5
  <2> HIDE DEF known
  <2>2. IsFiniteSet(0 .. (m - 1) - 1)
    BY <2>1, FS_Interval
  <2>3. QED
    BY <2>1, <2>2, FS_Subset
<1>9. ~ (m <= 0) /\ m \in 0 .. nextIndex
  BY <1>0, <1>5
<1>10. CASE getState(m - 1)
  <2>1. standing(m) = known \cup {m - 1} /\ m - 1 \notin known
    BY <1>0, <1>5, <1>10
  <2>2. collected(0)[m] = Append(keys, getIDs(m - 1))
    BY <1>9, <1>10, CollectedSteps
  <2>3. Len(collected(0)[m]) = Len(keys) + 1
    <3> HIDE DEF keys
    <3>1. QED
      BY <1>7, <2>2
  <2>4. Cardinality(known \cup {m - 1}) = Cardinality(known) + 1
    <3> HIDE DEF known
    <3>1. QED
      BY <1>8, <2>1, FS_AddElement
  <2>5. Len(keys) = Cardinality(known)
    BY <1>6
  <2> HIDE DEF keys, known, standing
  <2>6. QED
    BY <1>3, <2>1, <2>3, <2>4, <2>5
<1>11. CASE ~ getState(m - 1)
  <2>1. standing(m) = known
    BY <1>0, <1>5, <1>11
  <2>2. collected(0)[m] = keys
    BY <1>9, <1>11, CollectedSteps
  <2>3. Len(keys) = Cardinality(known)
    BY <1>6
  <2> HIDE DEF keys, known, standing
  <2>4. QED
    BY <1>3, <2>1, <2>2, <2>3
<1>12. QED
  BY <1>10, <1>11

LEMMA PagesCover == ASSUME TypeOK PROVE BatchesCoverRing
<1>0. nextIndex \in Nat /\ nextIndex \in 0 .. nextIndex
  BY DEF TypeOK
<1>1. batchEnd(0, nextIndex) = nextIndex
  BY <1>0 DEF batchEnd
<1> DEFINE whole == getBatchIDs(0, nextIndex)
<1>2. whole = collected(0)[nextIndex]
  BY <1>1 DEF getBatchIDs
<1>3. Len(whole) = getActiveIDCount
  BY <1>0, <1>2, CollectedCounts DEF getActiveIDCount, Indices
<1>4. ASSUME NEW size \in 1 .. (nextIndex + 1)
      PROVE  /\ \A p \in 1..pages(size) : startsInside((p - 1) * size)
             /\ readByPage(size)[pages(size)] = whole
  <2>1. size \in Nat /\ size >= 1
    BY <1>0
  <2>2. pages(size) \in Nat /\ pages(size) * size >= nextIndex
    BY <1>0, <2>1, PageBounds DEF pages
  <2>3. batchEnd(0, pages(size) * size) = nextIndex
    <3> DEFINE all == pages(size) * size
    <3>1. all \in Int
      BY <2>1, <2>2
    <3> HIDE DEF all
    <3>2. all >= nextIndex
      BY <2>2 DEF all
    <3>3. batchEnd(0, all) = nextIndex
      BY <1>0, <3>1, <3>2 DEF batchEnd
    <3>4. QED
      BY <3>3 DEF all
  <2>4. pages(size) \in 0 .. pages(size)
    BY <2>2
  <2>5. readByPage(size)[pages(size)] = collected(0)[batchEnd(0, pages(size) * size)]
    BY <2>1, <2>4, ReadSoFar
  <2>6. readByPage(size)[pages(size)] = whole
    BY <1>2, <2>3, <2>5, Zenon
  <2>7. \A p \in 1..pages(size) : (p - 1) * size < nextIndex
    BY <1>0, <2>1, PageBounds DEF pages
  <2>8. \A p \in 1..pages(size) : startsInside((p - 1) * size)
    BY <2>7 DEF startsInside
  <2>9. QED
    BY <2>6, <2>8
<1>5. startsInside(0)
  BY <1>0 DEF startsInside
<1>6. QED
  BY <1>3, <1>4, <1>5 DEF BatchesCoverRing

\* BatchesCoverRing: whatever the page size, no page is refused, and the pages
\* put together are the active keys in the order of the list, as many as getActiveIDCount reports.
THEOREM PagesCoverRing == Spec => []BatchesCoverRing
<1>1. TypeOK => BatchesCoverRing
  BY PagesCover
<1>2. QED
  BY <1>1, TypeCorrect, PTL

-------------------------------------------------------------------------------
(***************************************************************************)
(* The event log tells who has which role, what became of every identity,  *)
(* and that whoever changed one was entitled to.  What a log tells is      *)
(* stated of a sequence l, so that a transaction is a fact about l and l   *)
(* with one event more.                                                    *)
(***************************************************************************)
Granted(a) == [event |-> "VerifierAuthorized", verifier |-> a]
Taken(a) == [event |-> "VerifierRemoved", verifier |-> a]

\* VerifierBefore, AdminBefore and EventsOf, of any log.
VerifierIn(l, a, j) ==
    \E g \in 1..(j - 1) :
        /\ l[g] = Granted(a)
        /\ \A h \in (g + 1)..(j - 1) : l[h] # Taken(a)

AdminIn(l, a, j) ==
    \/ \E g \in 1..(j - 1) :
        /\ l[g].event = "AdminTransferred"
        /\ l[g].newAdmin = a
        /\ \A h \in (g + 1)..(j - 1) : l[h].event # "AdminTransferred"
    \/ /\ \A g \in 1..(j - 1) : l[g].event # "AdminTransferred"
       /\ a = l[1].verifier

Named(l, kind, i) == {j \in DOMAIN l : l[j].event = kind /\ l[j].index = i}

\* m is l with the event e at its end.
Extends(l, m, e) ==
    /\ l \in Seq(Event) /\ m \in Seq(Event)
    /\ Len(m) = Len(l) + 1
    /\ m[Len(l) + 1] = e
    /\ \A j \in 1..Len(l) : m[j] = l[j]

\* That is what emitting an event does.
LEMMA EmitExtends ==
    ASSUME log \in Seq(Event), NEW e \in Event, emit(e)
    PROVE  Extends(log, log', e)
  BY DEF emit, Extends

\* Nothing that was told of a moment changes when the log grows.
LEMMA TheRestStands ==
    ASSUME NEW l, NEW m, NEW e, Extends(l, m, e), NEW a, NEW j \in 1..(Len(l) + 1)
    PROVE  VerifierIn(m, a, j) <=> VerifierIn(l, a, j)
<1>1. Len(l) \in Nat /\ \A h \in 1..(j - 1) : m[h] = l[h]
  BY DEF Extends
<1>2. ASSUME NEW g \in 1..(j - 1), NEW h \in (g + 1)..(j - 1) PROVE h \in 1..(j - 1)
  BY <1>1
<1>3. QED
  BY <1>1, <1>2 DEF VerifierIn

\* The same of the admin; a log starts with an event that stays.
LEMMA AdminStands ==
    ASSUME NEW l, NEW m, NEW e, Extends(l, m, e), Len(l) > 0, NEW a,
           NEW j \in 1..(Len(l) + 1)
    PROVE  AdminIn(m, a, j) <=> AdminIn(l, a, j)
<1>1. Len(l) \in Nat /\ (\A h \in 1..(j - 1) : m[h] = l[h]) /\ m[1] = l[1]
  BY DEF Extends
<1>2. ASSUME NEW g \in 1..(j - 1), NEW h \in (g + 1)..(j - 1) PROVE h \in 1..(j - 1)
  BY <1>1
<1>3. QED
  BY <1>1, <1>2 DEF AdminIn

\* One event more makes a verifier, or ends one, or leaves the rest alone.
LEMMA VerifierThen ==
    ASSUME NEW l, NEW m, NEW e, Extends(l, m, e), NEW a
    PROVE  VerifierIn(m, a, Len(m) + 1) <=>
             \/ e = Granted(a)
             \/ VerifierIn(l, a, Len(l) + 1) /\ e # Taken(a)
<1> DEFINE n == Len(l) + 1
<1>1. n \in Nat \ {0} /\ Len(l) = n - 1 /\ Len(m) = n /\ m[n] = e
      /\ \A j \in 1..(n - 1) : m[j] = l[j]
  BY DEF Extends
<1> HIDE DEF n
<1>2. Granted(a) # Taken(a)
  BY DEF Granted, Taken
<1>3. ASSUME VerifierIn(m, a, Len(m) + 1), e # Granted(a)
      PROVE  VerifierIn(l, a, Len(l) + 1) /\ e # Taken(a)
  <2>1. PICK g \in 1..n : m[g] = Granted(a) /\ \A h \in (g + 1)..n : m[h] # Taken(a)
    BY <1>1, <1>3 DEF VerifierIn
  <2>2. g \in 1..(n - 1) /\ l[g] = Granted(a)
    BY <1>1, <1>3, <2>1
  <2>3. \A h \in (g + 1)..(n - 1) : l[h] # Taken(a)
    BY <1>1, <2>1, <2>2
  <2>4. n \in (g + 1)..n
    BY <1>1, <2>2
  <2>5. e # Taken(a)
    BY <1>1, <2>1, <2>4
  <2>6. QED
    BY <1>1, <2>2, <2>3, <2>5 DEF VerifierIn
<1>4. ASSUME e = Granted(a) PROVE VerifierIn(m, a, Len(m) + 1)
  <2>1. n \in 1..n /\ m[n] = Granted(a) /\ \A h \in (n + 1)..n : m[h] # Taken(a)
    BY <1>1, <1>4
  <2>2. QED
    BY <1>1, <2>1 DEF VerifierIn
<1>5. ASSUME VerifierIn(l, a, Len(l) + 1), e # Taken(a) PROVE VerifierIn(m, a, Len(m) + 1)
  <2>1. PICK g \in 1..(n - 1) : l[g] = Granted(a) /\ \A h \in (g + 1)..(n - 1) : l[h] # Taken(a)
    BY <1>1, <1>5 DEF VerifierIn
  <2>2. g \in 1..n /\ m[g] = Granted(a)
    BY <1>1, <2>1
  <2>3. ASSUME NEW h \in (g + 1)..n PROVE m[h] # Taken(a)
    BY <1>1, <1>5, <2>1
  <2>4. QED
    BY <1>1, <2>2, <2>3 DEF VerifierIn
<1>6. QED
  BY <1>3, <1>4, <1>5

\* One event more names the new admin, or leaves the old one.
LEMMA AdminThen ==
    ASSUME NEW l, NEW m, NEW e, Extends(l, m, e), Len(l) > 0, NEW a
    PROVE  /\ e.event = "AdminTransferred" =>
                (AdminIn(m, a, Len(m) + 1) <=> e.newAdmin = a)
           /\ e.event # "AdminTransferred" =>
                (AdminIn(m, a, Len(m) + 1) <=> AdminIn(l, a, Len(l) + 1))
<1> DEFINE n == Len(l) + 1
<1>1. n \in Nat /\ n > 1 /\ Len(l) = n - 1 /\ Len(m) = n /\ m[n] = e
      /\ \A j \in 1..(n - 1) : m[j] = l[j]
  BY DEF Extends
<1>1a. m[1] = l[1] /\ n \in 1..n
  BY <1>1
<1> HIDE DEF n
<1>2. ASSUME e.event = "AdminTransferred" PROVE AdminIn(m, a, Len(m) + 1) <=> e.newAdmin = a
  <2>1. ASSUME AdminIn(m, a, Len(m) + 1) PROVE e.newAdmin = a
    <3>1. PICK g \in 1..n :
            /\ m[g].newAdmin = a
            /\ \A h \in (g + 1)..n : m[h].event # "AdminTransferred"
      BY <1>1, <1>1a, <1>2, <2>1 DEF AdminIn
    <3>2. ~ (n \in (g + 1)..n)
      BY <1>1, <1>2, <3>1
    <3>3. g = n
      BY <1>1, <3>2
    <3>4. QED
      BY <1>1, <3>1, <3>3
  <2>2. ASSUME e.newAdmin = a PROVE AdminIn(m, a, Len(m) + 1)
    <3>1. \A h \in (n + 1)..n : m[h].event # "AdminTransferred"
      BY <1>1
    <3>2. QED
      BY <1>1, <1>1a, <1>2, <2>2, <3>1 DEF AdminIn
  <2>3. QED
    BY <2>1, <2>2
<1>3. ASSUME e.event # "AdminTransferred"
      PROVE  AdminIn(m, a, Len(m) + 1) <=> AdminIn(l, a, Len(l) + 1)
  <2>1. ASSUME NEW g \in 1..n, m[g].event = "AdminTransferred" PROVE g \in 1..(n - 1)
    BY <1>1, <1>3, <2>1
  <2>2. ASSUME NEW g \in 1..(n - 1), NEW h \in (g + 1)..(n - 1) PROVE h \in (g + 1)..n /\ m[h] = l[h]
    BY <1>1
  <2>3. ASSUME NEW g \in 1..(n - 1), NEW h \in (g + 1)..n, h \notin (g + 1)..(n - 1)
        PROVE  m[h].event # "AdminTransferred"
    <3>1. h = n
      BY <1>1, <2>3
    <3>2. QED
      BY <1>1, <1>3, <3>1
  <2>4. 1..(n - 1) \subseteq 1..n
    BY <1>1
  <2>5. ASSUME NEW g \in 1..(n - 1)
        PROVE  (\A h \in (g + 1)..n : m[h].event # "AdminTransferred") <=>
               (\A h \in (g + 1)..(n - 1) : l[h].event # "AdminTransferred")
    BY <2>2, <2>3
  <2>6. (\A g \in 1..n : m[g].event # "AdminTransferred") <=>
        (\A g \in 1..(n - 1) : l[g].event # "AdminTransferred")
    BY <1>1, <2>1, <2>4
  <2>7. (\E g \in 1..n : /\ m[g].event = "AdminTransferred" /\ m[g].newAdmin = a
                         /\ \A h \in (g + 1)..n : m[h].event # "AdminTransferred") <=>
        (\E g \in 1..(n - 1) : /\ l[g].event = "AdminTransferred" /\ l[g].newAdmin = a
                               /\ \A h \in (g + 1)..(n - 1) : l[h].event # "AdminTransferred")
    BY <1>1, <2>1, <2>4, <2>5
  <2>8. Len(m) + 1 - 1 = n /\ Len(l) + 1 - 1 = n - 1
    BY <1>1
  <2>9. QED
    BY <1>1a, <2>6, <2>7, <2>8 DEF AdminIn
<1>4. QED
  BY <1>2, <1>3

-------------------------------------------------------------------------------
(* The events about identities.                                            *)

\* What addID does, in terms of its event.
LEMMA RegisteredEvent ==
    ASSUME TypeOK, NEW sender \in Address, NEW k \in Key, NEW b \in BracketInput,
           addID(sender, k, b)
    PROVE  \E e \in Event :
             /\ emit(e) /\ e.event = "IDRegistered" /\ e.index = nextIndex
             /\ e.owner = sender /\ e.ageBracket = b
             /\ sender \in authorizedVerifiers
             /\ idList' = Append(idList, [key |-> k, active |-> TRUE,
                                          owner |-> sender, ageBracket |-> b])
             /\ nextIndex' = nextIndex + 1
             /\ admin' = admin /\ authorizedVerifiers' = authorizedVerifiers
<1> DEFINE e == [event |-> "IDRegistered", index |-> nextIndex,
                 owner |-> sender, ageBracket |-> b]
<1>1. b \in AgeBracket
  BY BracketAssumption DEF addID, validBracket, AgeBracket
<1>2. e \in Event
  BY <1>1 DEF Event, TypeOK
<1>3. e.event = "IDRegistered" /\ e.index = nextIndex /\ e.owner = sender /\ e.ageBracket = b
  OBVIOUS
<1>4. emit(e)
  BY DEF addID
<1> HIDE DEF e
<1>5. QED
  BY <1>2, <1>3, <1>4 DEF addID, onlyVerifier

\* What revokeID does, in terms of its event.
LEMMA RevokedEvent ==
    ASSUME TypeOK, NEW sender \in Address, NEW i \in Indices, revokeID(sender, i)
    PROVE  \E e \in Event :
             /\ emit(e) /\ e.event = "IDRevoked" /\ e.index = i /\ e.revokedBy = sender
             /\ sender = idList[i + 1].owner \/ sender = admin
             /\ idList[i + 1].active
             /\ idList' = [idList EXCEPT ![i + 1].active = FALSE]
             /\ nextIndex' = nextIndex
             /\ admin' = admin /\ authorizedVerifiers' = authorizedVerifiers
<1> DEFINE e == [event |-> "IDRevoked", index |-> i, revokedBy |-> sender]
<1>1. i \in Nat
  BY DEF Indices, TypeOK
<1>2. e \in Event
  BY <1>1 DEF Event
<1>3. e.event = "IDRevoked" /\ e.index = i /\ e.revokedBy = sender
  OBVIOUS
<1>4. emit(e)
  BY DEF revokeID
<1> HIDE DEF e
<1>5. QED
  BY <1>2, <1>3, <1>4 DEF revokeID, revocable, getState, getOwner, deactivated

-------------------------------------------------------------------------------
(* Roles.                                                                  *)

\* Replaying l gives the roles owner and verifiers.
Tells(l, owner, verifiers) ==
    /\ \A a \in AnyAddress : AdminIn(l, a, Len(l) + 1) <=> a = owner
    /\ \A a \in AnyAddress : VerifierIn(l, a, Len(l) + 1) <=> a \in verifiers

RolesInv == TypeOK /\ Len(log) > 0 /\ Tells(log, admin, authorizedVerifiers)

\* An event about neither role leaves both.
LEMMA RolesUntouched ==
    ASSUME NEW l, NEW m, NEW e, Extends(l, m, e), Len(l) > 0,
           e.event \in {"IDRegistered", "IDRevoked"},
           NEW owner, NEW verifiers, Tells(l, owner, verifiers)
    PROVE  Tells(m, owner, verifiers)
<1>1. e.event # "AdminTransferred" /\ \A a : e # Granted(a) /\ e # Taken(a)
  BY DEF Granted, Taken
<1>2. QED
  BY <1>1, AdminThen, VerifierThen DEF Tells

\* The event of a new verifier adds it.
LEMMA VerifierGranted ==
    ASSUME NEW l, NEW m, NEW v, Extends(l, m, Granted(v)), Len(l) > 0,
           NEW owner, NEW verifiers, Tells(l, owner, verifiers)
    PROVE  Tells(m, owner, verifiers \cup {v})
<1>1. Granted(v).event # "AdminTransferred" /\ \A a : Granted(v) # Taken(a)
  BY DEF Granted, Taken
<1>2. \A a : Granted(v) = Granted(a) <=> a = v
  BY DEF Granted
<1>3. \A a \in AnyAddress : AdminIn(m, a, Len(m) + 1) <=> a = owner
  BY <1>1, AdminThen DEF Tells
<1>4. ASSUME NEW a \in AnyAddress
      PROVE  VerifierIn(m, a, Len(m) + 1) <=> a \in verifiers \cup {v}
  BY <1>1, <1>2, VerifierThen DEF Tells
<1>5. QED
  BY <1>3, <1>4 DEF Tells

\* The event of a removed verifier takes it out.
LEMMA VerifierTaken ==
    ASSUME NEW l, NEW m, NEW v, Extends(l, m, Taken(v)), Len(l) > 0,
           NEW owner, NEW verifiers, Tells(l, owner, verifiers)
    PROVE  Tells(m, owner, verifiers \ {v})
<1>1. Taken(v).event # "AdminTransferred" /\ \A a : Taken(v) # Granted(a)
  BY DEF Granted, Taken
<1>2. \A a : Taken(v) = Taken(a) <=> a = v
  BY DEF Taken
<1>3. \A a \in AnyAddress : AdminIn(m, a, Len(m) + 1) <=> a = owner
  BY <1>1, AdminThen DEF Tells
<1>4. ASSUME NEW a \in AnyAddress
      PROVE  VerifierIn(m, a, Len(m) + 1) <=> a \in verifiers \ {v}
  BY <1>1, <1>2, VerifierThen DEF Tells
<1>5. QED
  BY <1>3, <1>4 DEF Tells

\* The event of a transfer names the admin from now on.
LEMMA AdminPassed ==
    ASSUME NEW l, NEW m, NEW e, Extends(l, m, e), Len(l) > 0,
           e.event = "AdminTransferred",
           NEW owner, NEW verifiers, Tells(l, owner, verifiers)
    PROVE  Tells(m, e.newAdmin, verifiers)
<1>1. \A a : e # Granted(a) /\ e # Taken(a)
  BY DEF Granted, Taken
<1>2. \A a \in AnyAddress : AdminIn(m, a, Len(m) + 1) <=> a = e.newAdmin
  BY AdminThen
<1>3. ASSUME NEW a \in AnyAddress
      PROVE  VerifierIn(m, a, Len(m) + 1) <=> a \in verifiers
  BY <1>1, VerifierThen DEF Tells
<1>4. QED
  BY <1>2, <1>3 DEF Tells

\* The constructor's one event tells its two roles.
LEMMA RolesInit == ASSUME Init PROVE RolesInv
<1>1. PICK deployer \in Address :
        /\ admin = deployer
        /\ authorizedVerifiers = {deployer}
        /\ log = <<Granted(deployer)>>
  BY DEF Init, Granted
<1> DEFINE l == <<Granted(deployer)>>
<1>2. Len(l) = 1 /\ l[1] = Granted(deployer)
  OBVIOUS
<1>3. l[1].event # "AdminTransferred" /\ l[1].verifier = deployer
  BY <1>2 DEF Granted
<1>4. \A a : Granted(deployer) = Granted(a) <=> a = deployer
  BY DEF Granted
<1> HIDE DEF l
<1>5. 1..(Len(l) + 1 - 1) = {1} /\ \A h : ~ (h \in (1 + 1)..(Len(l) + 1 - 1))
  BY <1>2
<1>6. \A a : AdminIn(l, a, Len(l) + 1) <=> a = deployer
  BY <1>3, <1>5 DEF AdminIn
<1>7. \A a : VerifierIn(l, a, Len(l) + 1) <=> a = deployer
  BY <1>2, <1>4, <1>5 DEF VerifierIn
<1>8. Tells(l, deployer, {deployer})
  BY <1>6, <1>7 DEF Tells
<1>9. QED
  BY <1>1, <1>2, <1>8, TypeInit DEF RolesInv, l

\* Every transaction tells its log what it does to the roles.
LEMMA RolesStep == ASSUME RolesInv, [Next]_vars PROVE RolesInv'
<1>0. TypeOK' /\ TypeOK /\ log \in Seq(Event) /\ Len(log) > 0
      /\ Tells(log, admin, authorizedVerifiers)
  BY TypeStep DEF RolesInv, TypeOK
<1>1. ASSUME NEW e \in Event, emit(e)
      PROVE  Extends(log, log', e) /\ Len(log') > 0
  <2>1. Extends(log, log', e)
    BY <1>0, <1>1, EmitExtends
  <2>2. Len(log') > 0
    BY <1>0, <2>1 DEF Extends
  <2>3. QED
    BY <2>1, <2>2
<1>2. ASSUME NEW sender \in Address, NEW a \in AnyAddress, authorizeVerifier(sender, a)
      PROVE  RolesInv'
  <2>1. Granted(a) \in Event /\ emit(Granted(a))
    BY <1>2 DEF authorizeVerifier, Granted, Event
  <2>2. Tells(log', admin, authorizedVerifiers \cup {a})
    BY <1>0, <1>1, <2>1, VerifierGranted
  <2>3. admin' = admin /\ authorizedVerifiers' = authorizedVerifiers \cup {a}
    BY <1>2 DEF authorizeVerifier
  <2>4. QED
    BY <1>0, <1>1, <2>1, <2>2, <2>3 DEF RolesInv
<1>3. ASSUME NEW sender \in Address, NEW a \in AnyAddress, removeVerifier(sender, a)
      PROVE  RolesInv'
  <2>1. Taken(a) \in Event /\ emit(Taken(a))
    BY <1>3 DEF removeVerifier, Taken, Event
  <2>2. Tells(log', admin, authorizedVerifiers \ {a})
    BY <1>0, <1>1, <2>1, VerifierTaken
  <2>3. admin' = admin /\ authorizedVerifiers' = authorizedVerifiers \ {a}
    BY <1>3 DEF removeVerifier
  <2>4. QED
    BY <1>0, <1>1, <2>1, <2>2, <2>3 DEF RolesInv
<1>4. ASSUME NEW sender \in Address, NEW a \in AnyAddress, transferAdmin(sender, a)
      PROVE  RolesInv'
  <2> DEFINE e == [event |-> "AdminTransferred", previousAdmin |-> admin, newAdmin |-> a]
  <2>1. e \in Event /\ e.event = "AdminTransferred" /\ e.newAdmin = a
    BY <1>0 DEF Event, TypeOK
  <2>2. emit(e) /\ admin' = a /\ authorizedVerifiers' = authorizedVerifiers
    BY <1>4 DEF transferAdmin
  <2> HIDE DEF e
  <2>3. Tells(log', a, authorizedVerifiers)
    BY <1>0, <1>1, <2>1, <2>2, AdminPassed
  <2>4. QED
    BY <1>0, <1>1, <2>1, <2>2, <2>3 DEF RolesInv
<1>5. ASSUME NEW e \in Event, e.event \in {"IDRegistered", "IDRevoked"}, emit(e),
             admin' = admin, authorizedVerifiers' = authorizedVerifiers
      PROVE  RolesInv'
  <2>1. Tells(log', admin, authorizedVerifiers)
    BY <1>0, <1>1, <1>5, RolesUntouched
  <2>2. QED
    BY <1>0, <1>1, <1>5, <2>1 DEF RolesInv
<1>6. ASSUME NEW sender \in Address, NEW k \in Key, NEW b \in BracketInput,
             addID(sender, k, b)
      PROVE  RolesInv'
  BY <1>0, <1>5, <1>6, RegisteredEvent
<1>7. ASSUME NEW sender \in Address, NEW i \in Indices, revokeID(sender, i)
      PROVE  RolesInv'
  BY <1>0, <1>5, <1>7, RevokedEvent
<1>8. CASE UNCHANGED vars
  BY <1>0, <1>8 DEF vars, RolesInv
<1>9. QED
  BY <1>2, <1>3, <1>4, <1>6, <1>7, <1>8 DEF Next

\* EventsDescribeRoles: replaying the log gives the admin and the verifiers.
THEOREM RolesTold == Spec => []EventsDescribeRoles
<1>1. Spec => []RolesInv
  BY RolesInit, RolesStep, PTL DEF Spec
<1>2. RolesInv => EventsDescribeRoles
  BY DEF RolesInv, Tells, EventsDescribeRoles, VerifierBefore, AdminBefore,
         VerifierIn, AdminIn, Granted, Taken
<1>3. QED
  BY <1>1, <1>2, PTL

-------------------------------------------------------------------------------
(* What became of the identities.                                          *)

\* l tells the story of the entry d at index i.
Told(l, d, i) ==
    \E j \in DOMAIN l :
        /\ Named(l, "IDRegistered", i) = {j}
        /\ l[j].owner = d.owner
        /\ l[j].ageBracket = d.ageBracket
        /\ IF d.active
           THEN Named(l, "IDRevoked", i) = {}
           ELSE \E r \in DOMAIN l : r > j /\ Named(l, "IDRevoked", i) = {r}

\* l speaks of the first n entries only.
Heard(l, n) ==
    \A j \in DOMAIN l :
        l[j].event \in {"IDRegistered", "IDRevoked"} => l[j].index \in 0..(n - 1)

Story(l, ids) ==
    /\ \A i \in 0..(Len(ids) - 1) : Told(l, ids[i + 1], i)
    /\ Heard(l, Len(ids))

\* One event more is one position more, for the identity it names.
LEMMA NamedThen ==
    ASSUME NEW l, NEW m, NEW e, Extends(l, m, e), NEW kind, NEW i
    PROVE  /\ e.event = kind /\ e.index = i =>
                Named(m, kind, i) = Named(l, kind, i) \cup {Len(l) + 1}
           /\ ~ (e.event = kind /\ e.index = i) => Named(m, kind, i) = Named(l, kind, i)
<1>1. /\ Len(l) \in Nat /\ DOMAIN l = 1..Len(l) /\ DOMAIN m = 1..(Len(l) + 1)
      /\ m[Len(l) + 1] = e /\ \A j \in 1..Len(l) : m[j] = l[j]
  BY DEF Extends
<1>2. DOMAIN m = DOMAIN l \cup {Len(l) + 1} /\ Len(l) + 1 \notin DOMAIN l
  BY <1>1
<1>3. QED
  BY <1>1, <1>2, Zenon DEF Named

\* A story goes on as it is when the event is about another entry.
LEMMA ToldStill ==
    ASSUME NEW l, NEW m, NEW e, Extends(l, m, e), NEW d, NEW i, Told(l, d, i),
           e.event \in {"IDRegistered", "IDRevoked"} => e.index # i
    PROVE  Told(m, d, i)
<1>1. /\ Named(m, "IDRegistered", i) = Named(l, "IDRegistered", i)
      /\ Named(m, "IDRevoked", i) = Named(l, "IDRevoked", i)
  BY NamedThen
<1>2. \A j \in DOMAIN l : j \in DOMAIN m /\ m[j] = l[j]
  BY DEF Extends
<1>3. QED
  BY <1>1, <1>2 DEF Told

\* A registration starts the story of an entry nobody spoke of.
LEMMA ToldFirst ==
    ASSUME NEW l, NEW m, NEW e, Extends(l, m, e), NEW i \in Nat, Heard(l, i),
           e.event = "IDRegistered", e.index = i,
           NEW d, d.active, e.owner = d.owner, e.ageBracket = d.ageBracket
    PROVE  Told(m, d, i)
<1>1. i \notin 0..(i - 1)
  OBVIOUS
<1>2. Named(l, "IDRegistered", i) = {} /\ Named(l, "IDRevoked", i) = {}
  BY <1>1 DEF Heard, Named
<1>3. Named(m, "IDRegistered", i) = {Len(l) + 1} /\ Named(m, "IDRevoked", i) = {}
  <2>1. Named(m, "IDRegistered", i) = Named(l, "IDRegistered", i) \cup {Len(l) + 1}
    BY NamedThen
  <2>2. ~ (e.event = "IDRevoked" /\ e.index = i)
    OBVIOUS
  <2>3. Named(m, "IDRevoked", i) = Named(l, "IDRevoked", i)
    BY <2>2, NamedThen
  <2>4. QED
    BY <1>2, <2>1, <2>3
<1>4. Len(l) + 1 \in DOMAIN m /\ m[Len(l) + 1] = e
  BY DEF Extends
<1>5. QED
  BY <1>3, <1>4 DEF Told

\* A revocation ends the story of an active entry.
LEMMA ToldLast ==
    ASSUME NEW l, NEW m, NEW e, Extends(l, m, e), NEW d, NEW i, Told(l, d, i),
           e.event = "IDRevoked", e.index = i, d.active,
           NEW c, ~ c.active, c.owner = d.owner, c.ageBracket = d.ageBracket
    PROVE  Told(m, c, i)
<1>1. PICK j \in DOMAIN l :
        /\ Named(l, "IDRegistered", i) = {j}
        /\ l[j].owner = d.owner
        /\ l[j].ageBracket = d.ageBracket
        /\ Named(l, "IDRevoked", i) = {}
  BY DEF Told
<1>2. Named(m, "IDRegistered", i) = {j} /\ Named(m, "IDRevoked", i) = {Len(l) + 1}
  <2>1. ~ (e.event = "IDRegistered" /\ e.index = i)
    OBVIOUS
  <2>2. Named(m, "IDRegistered", i) = Named(l, "IDRegistered", i)
    BY <2>1, NamedThen
  <2>3. Named(m, "IDRevoked", i) = Named(l, "IDRevoked", i) \cup {Len(l) + 1}
    BY NamedThen
  <2>4. QED
    BY <1>1, <2>2, <2>3
<1>3. j \in DOMAIN m /\ m[j] = l[j] /\ Len(l) + 1 \in DOMAIN m /\ Len(l) + 1 > j
  BY <1>1 DEF Extends
<1>4. QED
  BY <1>1, <1>2, <1>3 DEF Told

\* A log that grows by an event about a known entry still speaks of known ones.
LEMMA KnownThen ==
    ASSUME NEW l, NEW m, NEW e, Extends(l, m, e), NEW n \in Nat, NEW k \in Nat, n <= k,
           Heard(l, n),
           e.event \in {"IDRegistered", "IDRevoked"} => e.index \in 0..(k - 1)
    PROVE  Heard(m, k)
<1>1. 0..(n - 1) \subseteq 0..(k - 1)
  OBVIOUS
<1>2. /\ Len(l) \in Nat /\ DOMAIN l = 1..Len(l) /\ DOMAIN m = 1..(Len(l) + 1)
      /\ m[Len(l) + 1] = e /\ \A j \in 1..Len(l) : m[j] = l[j]
  BY DEF Extends
<1>3. DOMAIN m = DOMAIN l \cup {Len(l) + 1}
  BY <1>2
<1>4. QED
  BY <1>1, <1>2, <1>3, Zenon DEF Heard

\* A transaction about roles adds nothing to the story.
LEMMA StoryUntouched ==
    ASSUME NEW l, NEW m, NEW e, Extends(l, m, e), NEW ids \in Seq(ID), Story(l, ids),
           e.event \notin {"IDRegistered", "IDRevoked"}
    PROVE  Story(m, ids)
<1>1. Len(ids) \in Nat
  OBVIOUS
<1>2. Heard(m, Len(ids))
  BY <1>1, KnownThen DEF Story
<1>3. QED
  BY <1>2, ToldStill DEF Story

\* A registration adds the story of the new entry.
LEMMA StoryOfRegistration ==
    ASSUME NEW l, NEW m, NEW e, Extends(l, m, e), NEW ids \in Seq(ID), Story(l, ids),
           e.event = "IDRegistered", e.index = Len(ids),
           NEW d \in ID, d.active, e.owner = d.owner, e.ageBracket = d.ageBracket
    PROVE  Story(m, Append(ids, d))
<1> DEFINE new == Append(ids, d)
           n == Len(ids)
<1>1. n \in Nat /\ Len(new) = n + 1 /\ new[n + 1] = d /\ \A i \in 1..n : new[i] = ids[i]
  OBVIOUS
<1> HIDE DEF new, n
<1>2. Heard(m, n + 1)
  <2>1. Heard(l, n) /\ n + 1 \in Nat /\ n <= n + 1 /\ e.index \in 0..(n + 1 - 1)
    BY <1>1 DEF Story, n
  <2>2. QED
    BY <1>1, <2>1, KnownThen
<1>3. ASSUME NEW i \in 0..(n - 1) PROVE Told(m, new[i + 1], i)
  <2>1. i + 1 \in 1..n /\ i # n
    BY <1>1
  <2>2. new[i + 1] = ids[i + 1]
    BY <1>1, <2>1
  <2>3. Told(l, ids[i + 1], i)
    BY DEF Story, n
  <2>4. e.index # i
    BY <2>1 DEF n
  <2>5. QED
    BY <2>2, <2>3, <2>4, ToldStill
<1>4. Told(m, new[n + 1], n)
  <2>1. Heard(l, n) /\ e.index = n
    BY DEF Story, n
  <2>2. QED
    BY <1>1, <2>1, ToldFirst
<1>5. ASSUME NEW i \in 0..(Len(new) - 1) PROVE i \in 0..(n - 1) \/ i = n
  BY <1>1
<1>6. Story(m, new)
  BY <1>1, <1>2, <1>3, <1>4, <1>5 DEF Story
<1>7. QED
  BY <1>6 DEF new

\* A revocation ends the story of an active entry.
LEMMA StoryOfRevocation ==
    ASSUME NEW l, NEW m, NEW e, Extends(l, m, e), NEW ids \in Seq(ID), Story(l, ids),
           NEW r \in 0..(Len(ids) - 1), e.event = "IDRevoked", e.index = r,
           ids[r + 1].active
    PROVE  Story(m, [ids EXCEPT ![r + 1].active = FALSE])
<1> DEFINE n == Len(ids)
           c == [ids[r + 1] EXCEPT !.active = FALSE]
           new == [ids EXCEPT ![r + 1] = c]
<1>1. n \in Nat /\ r \in Nat /\ r + 1 \in 1..n
  OBVIOUS
<1>2. ids[r + 1] \in ID
  BY <1>1
<1>3. /\ c \in ID /\ c.active = FALSE
      /\ c.owner = ids[r + 1].owner /\ c.ageBracket = ids[r + 1].ageBracket
  BY <1>2 DEF ID
<1> HIDE DEF c
<1>4. Len(new) = n /\ new[r + 1] = c /\ \A i \in 1..n : i # r + 1 => new[i] = ids[i]
  BY <1>1, <1>3
<1> HIDE DEF new, n
<1>5. Heard(m, n)
  BY <1>1, KnownThen DEF Story, n
<1>6. ASSUME NEW i \in 0..(n - 1) PROVE Told(m, new[i + 1], i)
  <2>1. Told(l, ids[i + 1], i)
    BY DEF Story, n
  <2>2. CASE i = r
    BY <1>3, <1>4, <2>1, <2>2, ToldLast
  <2>3. CASE i # r
    <3>1. i + 1 \in 1..n /\ i + 1 # r + 1
      BY <1>1, <2>3
    <3>2. new[i + 1] = ids[i + 1]
      BY <1>4, <3>1
    <3>3. QED
      BY <2>1, <2>3, <3>2, ToldStill
  <2>4. QED
    BY <2>2, <2>3
<1>7. Story(m, new)
  BY <1>4, <1>5, <1>6 DEF Story
<1>8. QED
  BY <1>7 DEF new, c

StoryInv == TypeOK /\ Story(log, idList)

\* The constructor's event is about no identity, and there is none.
LEMMA StoryInit == ASSUME Init PROVE StoryInv
<1>1. PICK deployer \in Address : log = <<Granted(deployer)>> /\ idList = <<>>
  BY DEF Init, Granted
<1> DEFINE l == <<Granted(deployer)>>
<1>2. DOMAIN l = {1} /\ l[1].event = "VerifierAuthorized"
  BY DEF Granted
<1> HIDE DEF l
<1>3. Heard(l, 0)
  BY <1>2 DEF Heard
<1>4. Len(<<>>) = 0 /\ 0..(0 - 1) = {}
  OBVIOUS
<1>5. Story(l, <<>>)
  BY <1>3, <1>4 DEF Story
<1>6. QED
  BY <1>1, <1>5, TypeInit DEF StoryInv, l

\* Every transaction carries the story on.
LEMMA StoryStep == ASSUME StoryInv, [Next]_vars PROVE StoryInv'
<1>0. /\ TypeOK' /\ TypeOK /\ log \in Seq(Event) /\ idList \in Seq(ID)
      /\ nextIndex = Len(idList) /\ Story(log, idList)
  BY TypeStep DEF StoryInv, TypeOK
<1>1. ASSUME NEW e \in Event, emit(e) PROVE Extends(log, log', e)
  BY <1>0, <1>1, EmitExtends
<1>2. ASSUME NEW e \in Event, emit(e), e.event \notin {"IDRegistered", "IDRevoked"},
             idList' = idList
      PROVE  StoryInv'
  <2>1. Story(log', idList)
    BY <1>0, <1>1, <1>2, StoryUntouched
  <2>2. QED
    BY <1>0, <1>2, <2>1 DEF StoryInv
<1>3. ASSUME NEW sender \in Address, NEW a \in AnyAddress, authorizeVerifier(sender, a)
      PROVE  StoryInv'
  <2>1. /\ Granted(a) \in Event /\ emit(Granted(a)) /\ idList' = idList
        /\ Granted(a).event = "VerifierAuthorized"
    BY <1>3 DEF authorizeVerifier, Granted, Event
  <2>2. QED
    BY <1>2, <2>1
<1>4. ASSUME NEW sender \in Address, NEW a \in AnyAddress, removeVerifier(sender, a)
      PROVE  StoryInv'
  <2>1. /\ Taken(a) \in Event /\ emit(Taken(a)) /\ idList' = idList
        /\ Taken(a).event = "VerifierRemoved"
    BY <1>4 DEF removeVerifier, Taken, Event
  <2>2. QED
    BY <1>2, <2>1
<1>5. ASSUME NEW sender \in Address, NEW a \in AnyAddress, transferAdmin(sender, a)
      PROVE  StoryInv'
  <2> DEFINE e == [event |-> "AdminTransferred", previousAdmin |-> admin, newAdmin |-> a]
  <2>1. e \in Event /\ e.event = "AdminTransferred"
    BY <1>0 DEF Event, TypeOK
  <2>2. emit(e) /\ idList' = idList
    BY <1>5 DEF transferAdmin
  <2> HIDE DEF e
  <2>3. QED
    BY <1>2, <2>1, <2>2
<1>6. ASSUME NEW sender \in Address, NEW k \in Key, NEW b \in BracketInput,
             addID(sender, k, b)
      PROVE  StoryInv'
  <2> DEFINE d == [key |-> k, active |-> TRUE, owner |-> sender, ageBracket |-> b]
  <2>1. PICK e \in Event :
          /\ emit(e) /\ e.event = "IDRegistered" /\ e.index = nextIndex
          /\ e.owner = sender /\ e.ageBracket = b
          /\ idList' = Append(idList, d)
    BY <1>0, <1>6, RegisteredEvent
  <2>2. b \in AgeBracket
    BY <1>6, BracketAssumption DEF addID, validBracket, AgeBracket
  <2>3. d \in ID /\ d.active /\ d.owner = sender /\ d.ageBracket = b
    BY <2>2 DEF ID
  <2> HIDE DEF d
  <2>4. Story(log', Append(idList, d))
    BY <1>0, <1>1, <2>1, <2>3, StoryOfRegistration
  <2>5. QED
    BY <1>0, <2>1, <2>4 DEF StoryInv
<1>7. ASSUME NEW sender \in Address, NEW i \in Indices, revokeID(sender, i)
      PROVE  StoryInv'
  <2>1. PICK e \in Event :
          /\ emit(e) /\ e.event = "IDRevoked" /\ e.index = i
          /\ idList[i + 1].active
          /\ idList' = [idList EXCEPT ![i + 1].active = FALSE]
    BY <1>0, <1>7, RevokedEvent
  <2>2. i \in 0..(Len(idList) - 1)
    BY <1>0 DEF Indices
  <2>3. Story(log', [idList EXCEPT ![i + 1].active = FALSE])
    BY <1>0, <1>1, <2>1, <2>2, StoryOfRevocation
  <2>4. QED
    BY <1>0, <2>1, <2>3 DEF StoryInv
<1>8. CASE UNCHANGED vars
  BY <1>0, <1>8 DEF vars, StoryInv
<1>9. QED
  BY <1>3, <1>4, <1>5, <1>6, <1>7, <1>8 DEF Next

\* The story of the log is what EventsDescribeIDs says of it.
LEMMA StoryDescribes == ASSUME StoryInv PROVE EventsDescribeIDs
<1>1. /\ Indices = 0..(Len(idList) - 1)
      /\ \A i \in Indices : Told(log, idList[i + 1], i)
      /\ Heard(log, Len(idList))
  BY DEF StoryInv, TypeOK, Indices, Story
<1>2. \A kind, i : EventsOf(kind, i) = Named(log, kind, i)
  BY DEF EventsOf, Named
<1>3. QED
  BY <1>1, <1>2 DEF EventsDescribeIDs, Told, Heard, getState

\* EventsDescribeIDs: each entry was announced once, with the owner and bracket
\* it has, and is inactive exactly when one later event says so.
THEOREM EntriesTold == Spec => []EventsDescribeIDs
BY StoryInit, StoryStep, StoryDescribes, PTL DEF Spec

-------------------------------------------------------------------------------
(* Who was entitled.                                                       *)

\* The event at position j of l was legitimate when it was emitted.
Rightful(l, j) ==
    /\ l[j].event = "IDRegistered" => VerifierIn(l, l[j].owner, j)
    /\ l[j].event = "IDRevoked" =>
        \/ AdminIn(l, l[j].revokedBy, j)
        \/ \E g \in Named(l, "IDRegistered", l[j].index) :
            g < j /\ l[g].owner = l[j].revokedBy

AuditInv == RolesInv /\ StoryInv /\ \A j \in DOMAIN log : Rightful(log, j)

\* A legitimate event stays one, whoever comes and goes afterwards.
LEMMA RightfulStill ==
    ASSUME NEW l, NEW m, NEW e, Extends(l, m, e), Len(l) > 0,
           NEW j \in DOMAIN l, Rightful(l, j)
    PROVE  Rightful(m, j)
<1>1. j \in 1..(Len(l) + 1) /\ m[j] = l[j] /\ \A g \in DOMAIN l : m[g] = l[g]
  BY DEF Extends
<1>2. \A a : VerifierIn(m, a, j) <=> VerifierIn(l, a, j)
  BY <1>1, TheRestStands
<1>3. \A a : AdminIn(m, a, j) <=> AdminIn(l, a, j)
  BY <1>1, AdminStands
<1>4. \A i : \A g \in Named(l, "IDRegistered", i) :
        g \in Named(m, "IDRegistered", i) /\ m[g] = l[g]
  BY <1>1, NamedThen DEF Named
<1>5. QED
  BY <1>1, <1>2, <1>3, <1>4 DEF Rightful

\* Every transaction leaves a legitimate log.
LEMMA AuditStep == ASSUME AuditInv, [Next]_vars PROVE AuditInv'
<1>0. /\ TypeOK /\ log \in Seq(Event) /\ Len(log) > 0 /\ Len(log) \in Nat
      /\ nextIndex = Len(idList) /\ admin \in AnyAddress
      /\ Tells(log, admin, authorizedVerifiers) /\ Story(log, idList)
      /\ RolesInv' /\ StoryInv'
  BY RolesStep, StoryStep DEF AuditInv, RolesInv, StoryInv, TypeOK
<1> DEFINE n == Len(log) + 1
<1>1. ASSUME NEW e \in Event, emit(e)
      PROVE  /\ Extends(log, log', e) /\ log'[n] = e /\ n \in 1..(Len(log) + 1)
             /\ Rightful(log', n) => AuditInv'
  <2>1. Extends(log, log', e)
    BY <1>0, <1>1, EmitExtends
  <2>2. DOMAIN log' = DOMAIN log \cup {n} /\ log'[n] = e
    BY <2>1 DEF Extends
  <2>3. \A j \in DOMAIN log : Rightful(log', j)
    BY <1>0, <2>1, RightfulStill DEF AuditInv
  <2>4. Rightful(log', n) => \A j \in DOMAIN log' : Rightful(log', j)
    BY <2>2, <2>3
  <2>5. QED
    BY <1>0, <2>1, <2>2, <2>4 DEF AuditInv
<1>2. ASSUME NEW e \in Event, emit(e), e.event \notin {"IDRegistered", "IDRevoked"}
      PROVE  AuditInv'
  BY <1>1, <1>2 DEF Rightful
<1>3. ASSUME NEW sender \in Address, NEW a \in AnyAddress,
             \/ authorizeVerifier(sender, a)
             \/ removeVerifier(sender, a)
             \/ transferAdmin(sender, a)
      PROVE  AuditInv'
  <2> DEFINE t == [event |-> "AdminTransferred", previousAdmin |-> admin, newAdmin |-> a]
  <2>1. /\ Granted(a) \in Event /\ Granted(a).event = "VerifierAuthorized"
        /\ Taken(a) \in Event /\ Taken(a).event = "VerifierRemoved"
        /\ t \in Event /\ t.event = "AdminTransferred"
    BY <1>0 DEF Granted, Taken, Event
  <2>2. emit(Granted(a)) \/ emit(Taken(a)) \/ emit(t)
    BY <1>3 DEF authorizeVerifier, removeVerifier, transferAdmin, Granted, Taken
  <2> HIDE DEF t
  <2>3. QED
    BY <1>2, <2>1, <2>2
<1>4. ASSUME NEW sender \in Address, NEW k \in Key, NEW b \in BracketInput,
             addID(sender, k, b)
      PROVE  AuditInv'
  <2>1. PICK e \in Event :
          /\ emit(e) /\ e.event = "IDRegistered" /\ e.owner = sender
          /\ sender \in authorizedVerifiers
    BY <1>0, <1>4, RegisteredEvent
  <2>2. VerifierIn(log, sender, n)
    BY <1>0, <2>1 DEF Tells, AnyAddress
  <2>3. VerifierIn(log', sender, n)
    BY <1>1, <2>1, <2>2, TheRestStands
  <2>4. Rightful(log', n)
    BY <1>1, <2>1, <2>3 DEF Rightful
  <2>5. QED
    BY <1>1, <2>1, <2>4
<1>5. ASSUME NEW sender \in Address, NEW i \in Indices, revokeID(sender, i)
      PROVE  AuditInv'
  <2>1. PICK e \in Event :
          /\ emit(e) /\ e.event = "IDRevoked" /\ e.index = i /\ e.revokedBy = sender
          /\ sender = idList[i + 1].owner \/ sender = admin
    BY <1>0, <1>5, RevokedEvent
  <2>2. Extends(log, log', e) /\ log'[n] = e /\ n \in 1..(Len(log) + 1)
    BY <1>1, <2>1
  <2>3. CASE sender = admin
    <3>1. AdminIn(log, sender, n)
      BY <1>0, <2>3 DEF Tells
    <3>2. AdminIn(log', sender, n)
      BY <1>0, <2>2, <3>1, AdminStands
    <3>3. Rightful(log', n)
      BY <2>1, <2>2, <3>2 DEF Rightful
    <3>4. QED
      BY <1>1, <2>1, <3>3
  <2>4. CASE sender = idList[i + 1].owner
    <3>1. i \in 0..(Len(idList) - 1)
      BY <1>0 DEF Indices
    <3>2. PICK g \in DOMAIN log :
            Named(log, "IDRegistered", i) = {g} /\ log[g].owner = sender
      BY <1>0, <2>4, <3>1 DEF Story, Told
    <3>3. g < n /\ log'[g] = log[g]
      BY <2>2 DEF Extends
    <3>4. g \in Named(log', "IDRegistered", i)
      <4>1. Named(log', "IDRegistered", i) = Named(log, "IDRegistered", i)
        BY <2>1, <2>2, NamedThen
      <4>2. QED
        BY <3>2, <4>1
    <3>5. Rightful(log', n)
      BY <2>1, <2>2, <3>2, <3>3, <3>4 DEF Rightful
    <3>6. QED
      BY <1>1, <2>1, <3>5
  <2>5. QED
    BY <2>1, <2>3, <2>4
<1>6. CASE UNCHANGED vars
  BY <1>0, <1>6 DEF vars, AuditInv
<1>7. QED
  BY <1>3, <1>4, <1>5, <1>6 DEF Next

\* AuditTrailSound: every registration and revocation in the log was made by
\* somebody entitled to it at that moment.
THEOREM TrailSound == Spec => []AuditTrailSound
<1>1. Init => AuditInv
  <2> SUFFICES ASSUME Init PROVE AuditInv
    OBVIOUS
  <2>1. PICK deployer \in Address : log = <<Granted(deployer)>>
    BY DEF Init, Granted
  <2>2. \A j \in DOMAIN log : log[j].event = "VerifierAuthorized"
    BY <2>1 DEF Granted
  <2>3. \A j \in DOMAIN log : Rightful(log, j)
    BY <2>2 DEF Rightful
  <2>4. QED
    BY <2>3, RolesInit, StoryInit DEF AuditInv
<1>2. AuditInv => AuditTrailSound
  BY DEF AuditInv, Rightful, AuditTrailSound, VerifierBefore, AdminBefore,
         VerifierIn, AdminIn, Granted, Taken, EventsOf, Named
<1>3. QED
  BY <1>1, <1>2, AuditStep, PTL DEF Spec

-------------------------------------------------------------------------------
(* The portal. *)

pv == <<vars, portalVars>>

-------------------------------------------------------------------------------
(* Updates of one request. *)

\* A request that is idle is a request.
LEMMA IdleType ==
    idle \in Handler /\ idle.at = "done" /\ idle.child = NULL
  BY DEF idle, Handler

\* A request that begins has its stage and its child.
LEMMA BegunType ==
    ASSUME NEW c \in Child, NEW a \in {"nonce", "revoke"}
    PROVE  LET h == [idle EXCEPT !.at = a, !.child = c]
           IN  h \in Handler /\ h.at = a /\ h.child = c
<1>1. ASSUME NEW d \in Handler
      PROVE  [d EXCEPT !.at = a] \in Handler /\ [d EXCEPT !.at = a].at = a
  BY DEF Handler
<1>2. ASSUME NEW d \in Handler
      PROVE  /\ [d EXCEPT !.child = c] \in Handler
             /\ [d EXCEPT !.child = c].at = d.at
             /\ [d EXCEPT !.child = c].child = c
  BY DEF Handler
<1>3. QED
  BY <1>1, <1>2, IdleType, Zenon

\* Only request r changes from f to g, and it stays with its child.
Only(r, f, g) ==
    /\ g \in [Request -> Handler]
    /\ g[r].child = f[r].child
    /\ \A q \in Request \ {r} : g[q] = f[q]

\* Moving a request on changes nothing but its stage.
LEMMA SetAt ==
    ASSUME NEW f \in [Request -> Handler], NEW r \in Request,
           NEW a \in {"done", "nonce", "send", "lookup", "store", "revoke"}
    PROVE  LET g == [f EXCEPT ![r].at = a]
           IN  /\ Only(r, f, g) /\ g[r].at = a
               /\ g[r].nonce = f[r].nonce /\ g[r].index = f[r].index
  BY DEF Only, Handler

\* Storing a nonce changes nothing but the nonce.
LEMMA SetNonce ==
    ASSUME NEW f \in [Request -> Handler], NEW r \in Request, NEW n \in Nat
    PROVE  LET g == [f EXCEPT ![r].nonce = n]
           IN  Only(r, f, g) /\ g[r].at = f[r].at /\ g[r].nonce = n
  BY DEF Only, Handler

\* Storing an index changes nothing but the index.
LEMMA SetIndex ==
    ASSUME NEW f \in [Request -> Handler], NEW r \in Request, NEW i \in Int
    PROVE  LET g == [f EXCEPT ![r].index = i]
           IN  Only(r, f, g) /\ g[r].at = f[r].at /\ g[r].index = i
  BY DEF Only, Handler

\* Storing a reply changes nothing but the reply.
LEMMA SetReply ==
    ASSUME NEW f \in [Request -> Handler], NEW r \in Request,
           NEW answer \in {"none", "chain failed", "store failed", "verified", "revoked"}
    PROVE  LET g == [f EXCEPT ![r].reply = answer]
           IN  Only(r, f, g) /\ g[r].at = f[r].at
  BY DEF Only, Handler

\* Two updates of one request are one.
LEMMA OnlyTwice ==
    ASSUME NEW r \in Request, NEW f, NEW g, NEW h, Only(r, f, g), Only(r, g, h)
    PROVE  Only(r, f, h)
<1>1. \A q \in Request \ {r} : h[q] = f[q]
  BY Zenon DEF Only
<1>2. QED
  BY <1>1, Zenon DEF Only

\* A reply ends the request.
LEMMA ReplyStep ==
    ASSUME req \in [Request -> Handler], NEW r \in Request,
           NEW answer \in {"chain failed", "store failed", "verified", "revoked"},
           reply(r, answer)
    PROVE  Only(r, req, req') /\ req'[r].at = "done"
<1> DEFINE f == [req EXCEPT ![r].at = "done"]
<1>1. Only(r, req, f) /\ f[r].at = "done"
  BY SetAt
<1>2. req' = [f EXCEPT ![r].reply = answer]
  BY DEF reply
<1> HIDE DEF f
<1>0. f \in [Request -> Handler]
  BY <1>1, Zenon DEF Only
<1>3. Only(r, f, req') /\ req'[r].at = f[r].at
  BY <1>0, <1>2, SetReply, Zenon
<1>4. QED
  BY <1>1, <1>3, OnlyTwice, Zenon

\* What each handler step does to its request.
LEMMA ReadNonceStep ==
    ASSUME req \in [Request -> Handler], pendingNonce \in Nat,
           NEW r \in Request, readNonce(r)
    PROVE  /\ Only(r, req, req') /\ req[r].at = "nonce"
           /\ \/ req'[r].at = "done"
              \/ req'[r].at = "send" /\ req'[r].nonce = pendingNonce
<1> DEFINE f == [req EXCEPT ![r].at = "send"]
<1>1. CASE reply(r, "chain failed")
  BY <1>1, ReplyStep, Zenon DEF readNonce
<1>2. CASE req' = [f EXCEPT ![r].nonce = pendingNonce]
  <2>1. Only(r, req, f) /\ f[r].at = "send"
    BY SetAt
  <2> HIDE DEF f
  <2>2. f \in [Request -> Handler]
    BY <2>1, Zenon DEF Only
  <2>3. Only(r, f, req') /\ req'[r].at = f[r].at /\ req'[r].nonce = pendingNonce
    BY <1>2, <2>2, SetNonce, Zenon
  <2>4. Only(r, req, req')
    BY <2>1, <2>3, OnlyTwice, Zenon
  <2>5. QED
    BY <2>1, <2>3, <2>4, Zenon DEF readNonce
<1>3. QED
  BY <1>1, <1>2 DEF readNonce, chosenNonce

\* sendTx ends the request or goes on with an accepted nonce.
LEMMA SendStep ==
    ASSUME req \in [Request -> Handler], NEW r \in Request, sendTx(r)
    PROVE  /\ Only(r, req, req') /\ req[r].at = "send"
           /\ \/ req'[r].at = "done"
              \/ req'[r].at = "lookup" /\ accepts(req[r].nonce)
<1>1. CASE reply(r, "chain failed")
  BY <1>1, ReplyStep, Zenon DEF sendTx
<1>2. CASE step(r, "lookup") /\ accepts(req[r].nonce)
  BY <1>2, SetAt DEF step, sendTx
<1>3. QED
  BY <1>1, <1>2 DEF sendTx, refused

\* The answer of whereIs is an integer.
LEMMA IndexType ==
    ASSUME TypeOK, NEW k PROVE whereIs(k) \in Int
<1>1. CASE entriesOf(k) = {}
  BY <1>1, IndexOfKey DEF whereIs
<1>2. CASE entriesOf(k) # {}
  <2>1. getIDIndex(k) \in entriesOf(k)
    BY <1>2, IndexOfKey
  <2>2. QED
    BY <2>1 DEF whereIs, entriesOf, Indices, TypeOK
<1>3. QED
  BY <1>1, <1>2

\* lookupIndex ends the request or keeps what the contract answered.
LEMMA LookupStep ==
    ASSUME TypeOK, req \in [Request -> Handler], NEW r \in Request, lookupIndex(r)
    PROVE  /\ Only(r, req, req') /\ req[r].at = "lookup"
           /\ \/ req'[r].at = "done"
              \/ req'[r].at = "store" /\ req'[r].index = whereIs(req[r].child)
<1> DEFINE f == [req EXCEPT ![r].at = "store"]
           i == whereIs(req[r].child)
<1>1. CASE reply(r, "chain failed")
  BY <1>1, ReplyStep, Zenon DEF lookupIndex
<1>2. CASE req' = [f EXCEPT ![r].index = i]
  <2>1. Only(r, req, f) /\ f[r].at = "store"
    BY SetAt
  <2>2. i \in Int
    BY IndexType
  <2> HIDE DEF f, i
  <2>3. f \in [Request -> Handler]
    BY <2>1, Zenon DEF Only
  <2>4. Only(r, f, req') /\ req'[r].at = f[r].at /\ req'[r].index = i
    BY <1>2, <2>2, <2>3, SetIndex, Zenon
  <2>5. Only(r, req, req')
    BY <2>1, <2>4, OnlyTwice, Zenon
  <2>6. QED
    BY <2>1, <2>4, <2>5, Zenon DEF lookupIndex, i
<1>3. QED
  BY <1>1, <1>2 DEF lookupIndex

\* Either of the two writes to SQLite ends the request.
LEMMA MarkStep ==
    ASSUME req \in [Request -> Handler], NEW r \in Request,
           markChildVerified(r) \/ markChildRevoked(r)
    PROVE  Only(r, req, req') /\ req'[r].at = "done" /\ req[r].at \in {"store", "revoke"}
<1>1. CASE reply(r, "verified")
  BY <1>1, ReplyStep, Zenon DEF markChildVerified, markChildRevoked
<1>2. CASE reply(r, "revoked")
  BY <1>2, ReplyStep, Zenon DEF markChildVerified, markChildRevoked
<1>3. CASE reply(r, "store failed")
  BY <1>3, ReplyStep, Zenon DEF markChildVerified, markChildRevoked
<1>4. QED
  BY <1>1, <1>2, <1>3 DEF markChildVerified, markChildRevoked

\* Rows change one at a time, and keep their bracket.
RowOnly(c, f, g) ==
    /\ g \in [Child -> Row]
    /\ g[c].ageBracket = f[c].ageBracket
    /\ \A d \in Child \ {c} : g[d] = f[d]

\* Writing a status changes nothing but the status.
LEMMA SetStatus ==
    ASSUME NEW f \in [Child -> Row], NEW c \in Child,
           NEW a \in {"none", "pending", "verified", "revoked"}
    PROVE  LET g == [f EXCEPT ![c].status = a]
           IN  RowOnly(c, f, g) /\ g[c].status = a /\ g[c].contractIndex = f[c].contractIndex
  BY DEF RowOnly, Row

\* Writing a contract index changes nothing but the index.
LEMMA SetContractIndex ==
    ASSUME NEW f \in [Child -> Row], NEW c \in Child, NEW i \in Int
    PROVE  LET g == [f EXCEPT ![c].contractIndex = i]
           IN  RowOnly(c, f, g) /\ g[c].status = f[c].status /\ g[c].contractIndex = i
  BY DEF RowOnly, Row

\* MarkChildVerified and MarkChildRevoked, on the table.
LEMMA MarkedRow ==
    ASSUME children \in [Child -> Row], req \in [Request -> Handler], NEW r \in Request,
           req[r].child \in Child, markChildVerified(r) \/ markChildRevoked(r)
    PROVE  LET c == req[r].child
           IN  \/ UNCHANGED children
               \/ /\ RowOnly(c, children, children')
                  /\ \/ /\ req[r].at = "store"
                        /\ children'[c].status = "verified"
                        /\ children'[c].contractIndex = req[r].index
                     \/ /\ req[r].at = "revoke"
                        /\ children'[c].status = "revoked"
                        /\ children'[c].contractIndex = children[c].contractIndex
<1> DEFINE c == req[r].child
           f == [children EXCEPT ![c].status = "verified"]
<1>1. CASE /\ req[r].at = "store"
           /\ children' = [f EXCEPT ![c].contractIndex = req[r].index]
  <2>1. RowOnly(c, children, f) /\ f[c].status = "verified"
    BY SetStatus
  <2>2. req[r].index \in Int
    BY DEF Handler
  <2> HIDE DEF f
  <2>3. f \in [Child -> Row]
    BY <2>1, Zenon DEF RowOnly
  <2>4. /\ RowOnly(c, f, children') /\ children'[c].status = f[c].status
        /\ children'[c].contractIndex = req[r].index
    BY <1>1, <2>2, <2>3, SetContractIndex, Zenon
  <2>5. \A d \in Child \ {c} : children'[d] = children[d]
    BY <2>1, <2>4, Zenon DEF RowOnly
  <2>6. RowOnly(c, children, children')
    BY <2>1, <2>4, <2>5, Zenon DEF RowOnly
  <2>7. QED
    BY <1>1, <2>1, <2>4, <2>6, Zenon
<1>2. CASE req[r].at = "revoke" /\ children' = [children EXCEPT ![c].status = "revoked"]
  <2>1. /\ RowOnly(c, children, children') /\ children'[c].status = "revoked"
        /\ children'[c].contractIndex = children[c].contractIndex
    BY <1>2, SetStatus
  <2>2. QED
    BY <1>2, <2>1, Zenon
<1>3. QED
  BY <1>1, <1>2 DEF markChildVerified, markChildRevoked

-------------------------------------------------------------------------------
(* Rows, requests and transactions fit together. *)

\* Types of the portal's own variables; requests and transactions name
\* children that were added, with the bracket that is in the row.
Rows ==
    /\ \A c \in Child :
        children[c].status # "none" => children[c].ageBracket \in BracketInput
    /\ \A r \in Request :
        req[r].at # "done" =>
            /\ req[r].child \in Child
            /\ children[req[r].child].status # "none"
    /\ \A tx \in pool :
        /\ tx.key \in Child
        /\ children[tx.key].status # "none"
        /\ tx.ageBracket = children[tx.key].ageBracket

Fit == PortalTypeOK /\ IsFiniteSet(pool) /\ Rows

\* The portal starts in a fit state.
LEMMA FitInit == ASSUME PortalInit PROVE Fit
<1>1. TypeOK
  BY TypeInit DEF PortalInit
<1>2. [status |-> "none", parent |-> NULL, ageBracket |-> 0, contractIndex |-> NULL] \in Row
  BY DEF Row, AgeBracket
<1>3. IsFiniteSet(pool)
  BY FS_EmptySet DEF PortalInit
<1>4. QED
  BY <1>1, <1>2, <1>3, IdleType DEF PortalInit, Fit, PortalTypeOK, Rows, Tx

\* The pending nonce is a natural number.
LEMMA PendingNonceType ==
    ASSUME Fit PROVE pendingNonce \in Nat
  BY FS_CardinalityType DEF Fit, PortalTypeOK, pendingNonce

\* What the contract sees of a step of the portal is a transaction or nothing.
LEMMA PortalStepOnContract ==
    ASSUME Fit, [PortalNext]_pv PROVE [Next]_vars
<1> USE DEF Fit, PortalTypeOK
<1>1. ASSUME mine PROVE [Next]_vars
  <2>1. PICK tx \in pool : execute(tx)
    BY <1>1 DEF mine
  <2>2. tx.key \in Key /\ tx.ageBracket \in BracketInput
    BY ChildAssumption DEF Rows
  <2>3. CASE addID(Server, tx.key, tx.ageBracket)
    BY <2>2, <2>3, ServerAssumption DEF Next
  <2>4. CASE UNCHANGED vars
    BY <2>4
  <2>5. QED
    BY <2>1, <2>3, <2>4 DEF execute
<1>2. ASSUME outsider PROVE [Next]_vars
  <2>1. PICK s \in Address :
        \/ authorizeVerifier(s, Server)
        \/ removeVerifier(s, Server)
        \/ \E k \in Key \ Child, b \in BracketInput : addID(s, k, b)
        \/ \E i \in Indices : revokeID(s, i)
    BY <1>2 DEF outsider
  <2>2. Server \in AnyAddress
    BY ServerAssumption DEF AnyAddress
  <2>3. QED
    BY <2>1, <2>2 DEF Next
<1>3. CASE UNCHANGED pv
  BY <1>3 DEF pv, vars
<1>4. CASE crash \/ \E p \in Parent, c \in Child :
            \/ \E b \in BracketInput : handleAddChild(p, c, b)
            \/ \E r \in Request : approveRead(r, p, c) \/ revokeRead(r, p, c)
  BY <1>4 DEF crash, handleAddChild, approveRead, revokeRead, vars
<1>5. CASE \E r \in Request : handlerStep(r)
  BY <1>5 DEF handlerStep, readNonce, sendTx, lookupIndex, markChildVerified,
              markChildRevoked, vars
<1>6. QED
  BY <1>1, <1>2, <1>3, <1>4, <1>5 DEF PortalNext

\* Every step keeps the portal fit.
LEMMA FitStep == ASSUME Fit, [PortalNext]_pv PROVE Fit'
<1> USE DEF Fit, PortalTypeOK
<1>t. TypeOK'
  BY PortalStepOnContract, TypeStep
<1>1. ASSUME NEW p \in Parent, NEW c \in Child, NEW b \in BracketInput,
             handleAddChild(p, c, b)
      PROVE  Fit'
  <2> DEFINE row == [status |-> "pending", parent |-> p, ageBracket |-> b,
                     contractIndex |-> NULL]
  <2>1. row \in Row
    BY <1>1, BracketAssumption DEF handleAddChild, validAge, Row, AgeBracket
  <2>2. children' = [children EXCEPT ![c] = row] /\ children[c].status = "none"
    BY <1>1 DEF handleAddChild
  <2>3. UNCHANGED <<req, pool, accountNonce, undisturbed>>
    BY <1>1 DEF handleAddChild
  <2>4. row.status = "pending" /\ row.ageBracket = b
    OBVIOUS
  <2> HIDE DEF row
  <2>5. QED
    BY <1>t, <2>1, <2>2, <2>3, <2>4 DEF Rows
<1>2. ASSUME NEW r \in Request, NEW p \in Parent, NEW c \in Child, approveRead(r, p, c)
      PROVE  Fit'
  <2> DEFINE h == [idle EXCEPT !.at = "nonce", !.child = c]
  <2>1. h \in Handler /\ h.child = c
    BY BegunType
  <2>2. req' = [req EXCEPT ![r] = h] /\ children[c].status # "none"
    BY <1>2 DEF approveRead, approvable
  <2>3. UNCHANGED <<children, pool, accountNonce>> /\ undisturbed' \subseteq Child
    BY <1>2 DEF approveRead
  <2> HIDE DEF h
  <2>4. QED
    BY <1>t, <2>1, <2>2, <2>3 DEF Rows
<1>3. ASSUME NEW r \in Request, NEW p \in Parent, NEW c \in Child, revokeRead(r, p, c)
      PROVE  Fit'
  <2> DEFINE h == [idle EXCEPT !.at = "revoke", !.child = c]
  <2>1. h \in Handler /\ h.child = c
    BY BegunType
  <2>2. req' = [req EXCEPT ![r] = h] /\ children[c].status # "none"
    BY <1>3 DEF revokeRead
  <2>3. UNCHANGED <<children, pool, accountNonce, undisturbed>>
    BY <1>3 DEF revokeRead
  <2> HIDE DEF h
  <2>4. QED
    BY <1>t, <2>1, <2>2, <2>3 DEF Rows
<1>4. ASSUME NEW r \in Request, readNonce(r) PROVE Fit'
  <2>1. UNCHANGED <<children, pool, accountNonce, undisturbed>>
    BY <1>4 DEF readNonce
  <2>2. Only(r, req, req') /\ req[r].at # "done"
    BY <1>4, PendingNonceType, ReadNonceStep
  <2>3. QED
    BY <1>t, <2>1, <2>2 DEF Rows, Only
<1>5. ASSUME NEW r \in Request, sendTx(r) PROVE Fit'
  <2>1. UNCHANGED <<children, accountNonce>> /\ undisturbed' \subseteq Child
    BY <1>5 DEF sendTx
  <2>2. Only(r, req, req') /\ req[r].at # "done"
    BY <1>5, SendStep
  <2> DEFINE tx == [nonce |-> req[r].nonce, key |-> req[r].child,
                    ageBracket |-> children[req[r].child].ageBracket]
  <2>4. req[r].child \in Child /\ children[req[r].child].status # "none"
    BY <1>5 DEF sendTx, Rows
  <2>5. tx \in Tx
    BY <2>4, ChildAssumption DEF Tx, Handler, Row
  <2>6. tx.key = req[r].child /\ tx.ageBracket = children[req[r].child].ageBracket
    OBVIOUS
  <2>7. pool' = pool \/ pool' = pool \cup {tx}
    BY <1>5 DEF sendTx
  <2> HIDE DEF tx
  <2>8. IsFiniteSet(pool')
    BY <2>7, FS_AddElement
  <2>9. QED
    BY <1>t, <2>1, <2>2, <2>4, <2>5, <2>6, <2>7, <2>8 DEF Rows, Only
<1>6. ASSUME NEW r \in Request, lookupIndex(r) PROVE Fit'
  <2>1. UNCHANGED <<children, pool, accountNonce>> /\ undisturbed' \subseteq Child
    BY <1>6 DEF lookupIndex
  <2>2. Only(r, req, req') /\ req[r].at # "done"
    BY <1>6, LookupStep
  <2>3. QED
    BY <1>t, <2>1, <2>2 DEF Rows, Only
<1>7. ASSUME NEW r \in Request, markChildVerified(r) \/ markChildRevoked(r) PROVE Fit'
  <2>1. UNCHANGED <<pool, accountNonce>> /\ undisturbed' \subseteq Child
    BY <1>7 DEF markChildVerified, markChildRevoked
  <2>2. Only(r, req, req') /\ req[r].at # "done"
    BY <1>7, MarkStep
  <2>3. req[r].child \in Child /\ children[req[r].child].status # "none"
    BY <2>2 DEF Rows
  <2>4. /\ children' \in [Child -> Row]
        /\ \A c \in Child : /\ children'[c].ageBracket = children[c].ageBracket
                            /\ children'[c].status # "none" <=> children[c].status # "none"
    BY <1>7, <2>3, MarkedRow DEF RowOnly
  <2>5. QED
    BY <1>t, <2>1, <2>2, <2>4 DEF Rows, Only
<1>8. ASSUME mine PROVE Fit'
  <2>1. UNCHANGED <<children, req, undisturbed>> /\ accountNonce' = accountNonce + 1
    BY <1>8 DEF mine
  <2>2. PICK tx \in pool : pool' = pool \ {tx}
    BY <1>8 DEF mine
  <2>3. IsFiniteSet(pool')
    BY <2>2, FS_RemoveElement
  <2>4. QED
    BY <1>t, <2>1, <2>2, <2>3 DEF Rows
<1>9. ASSUME crash PROVE Fit'
  <2>1. UNCHANGED <<children, pool, accountNonce>> /\ undisturbed' \subseteq Child
    BY <1>9 DEF crash
  <2>2. req' = [r \in Request |-> idle]
    BY <1>9 DEF crash
  <2>3. QED
    BY <1>t, <2>1, <2>2, IdleType DEF Rows
<1>10. CASE outsider \/ UNCHANGED pv
  <2>1. UNCHANGED portalVars
    BY <1>10 DEF outsider, pv
  <2>2. QED
    BY <1>t, <2>1 DEF portalVars, Rows
<1>11. QED
  BY <1>1, <1>2, <1>3, <1>4, <1>5, <1>6, <1>7, <1>8, <1>9, <1>10
  DEF PortalNext, handlerStep

\* The portal's rows, requests and transactions keep their types together with
\* the contract's, whatever requests overlap and whatever fails.
THEOREM PortalTypeCorrect == PortalSpec => []PortalTypeOK
<1>1. PortalSpec => []Fit
  BY FitInit, FitStep, PTL DEF PortalSpec, pv
<1>2. Fit => PortalTypeOK
  BY DEF Fit
<1>3. QED
  BY <1>1, <1>2, PTL

\* The portal changes the contract by the contract's own transactions only, so
\* every theorem about the contract holds of the portal's contract as well.
THEOREM PortalRunsContract == PortalSpec => Spec
<1>1. PortalSpec => []Fit
  BY FitInit, FitStep, PTL DEF PortalSpec, pv
<1>2. PortalInit => Init
  BY DEF PortalInit
<1>3. Fit /\ [PortalNext]_pv => [Next]_vars
  BY PortalStepOnContract
<1>4. QED
  BY <1>1, <1>2, <1>3, PTL DEF PortalSpec, Spec, pv

-------------------------------------------------------------------------------
(* Nonces. *)

\* The strengthening: no two pending transactions share a nonce, and a nonce
\* that was read and not yet used is not beyond the next one, because the
\* number of transactions of the account never falls.
Nonces ==
    /\ PoolHasNoGaps
    /\ \A t, u \in pool : t.nonce = u.nonce => t = u
    /\ \A r \in Request : req[r].at = "send" => req[r].nonce <= pendingNonce

\* Steps that neither send, nor mine, nor read a nonce leave all of it alone.
LEMMA OtherStep ==
    ASSUME Fit, [PortalNext]_pv,
           ~mine, \A r \in Request : ~sendTx(r) /\ ~readNonce(r)
    PROVE  /\ UNCHANGED <<pool, accountNonce>>
           /\ \A r \in Request : req'[r].at = "send" => req'[r] = req[r]
<1> USE DEF Fit, PortalTypeOK
<1>1. ASSUME NEW p \in Parent, NEW c \in Child, NEW b \in BracketInput,
             handleAddChild(p, c, b)
      PROVE  UNCHANGED <<pool, accountNonce, req>>
  BY <1>1 DEF handleAddChild
<1>2. ASSUME NEW q \in Request, NEW p \in Parent, NEW c \in Child,
             approveRead(q, p, c) \/ revokeRead(q, p, c)
      PROVE  /\ UNCHANGED <<pool, accountNonce>>
             /\ \A r \in Request : req'[r].at = "send" => req'[r] = req[r]
  <2>1. UNCHANGED <<pool, accountNonce>>
    BY <1>2 DEF approveRead, revokeRead
  <2>2. \A a \in {"nonce", "revoke"} : [idle EXCEPT !.at = a, !.child = c].at = a
    BY BegunType
  <2>3. PICK a \in {"nonce", "revoke"} :
            req' = [req EXCEPT ![q] = [idle EXCEPT !.at = a, !.child = c]]
    BY <1>2 DEF approveRead, revokeRead
  <2>4. req'[q].at # "send" /\ \A r \in Request \ {q} : req'[r] = req[r]
    BY <2>2, <2>3
  <2>5. QED
    BY <2>1, <2>4
<1>3. ASSUME NEW q \in Request,
             lookupIndex(q) \/ markChildVerified(q) \/ markChildRevoked(q)
      PROVE  /\ UNCHANGED <<pool, accountNonce>>
             /\ \A r \in Request : req'[r].at = "send" => req'[r] = req[r]
  <2>1. UNCHANGED <<pool, accountNonce>>
    BY <1>3 DEF lookupIndex, markChildVerified, markChildRevoked
  <2>2. Only(q, req, req') /\ req'[q].at # "send"
    BY <1>3, LookupStep, MarkStep
  <2>3. QED
    BY <2>1, <2>2 DEF Only
<1>4. CASE crash
  BY <1>4, IdleType DEF crash
<1>5. CASE outsider \/ UNCHANGED pv
  BY <1>5 DEF outsider, pv, portalVars
<1>6. QED
  BY <1>1, <1>2, <1>3, <1>4, <1>5 DEF PortalNext, handlerStep

\* Every step keeps the nonces in order.
LEMMA NoncesStep == ASSUME Fit, Nonces, [PortalNext]_pv PROVE Nonces'
<1> USE DEF Fit, PortalTypeOK
<1> DEFINE size == Cardinality(pool)
<1>s. size \in Nat /\ pendingNonce = accountNonce + size
  BY FS_CardinalityType DEF pendingNonce
<1>1. ASSUME NEW r \in Request, sendTx(r) PROVE Nonces'
  <2> DEFINE tx == [nonce |-> req[r].nonce, key |-> req[r].child,
                    ageBracket |-> children[req[r].child].ageBracket]
  <2>1. /\ Only(r, req, req') /\ req[r].at = "send" /\ req'[r].at # "send"
        /\ accountNonce' = accountNonce
    BY <1>1, SendStep DEF sendTx
  <2>2. \A q \in Request : req'[q].at = "send" => q # r /\ req'[q] = req[q]
    BY <2>1 DEF Only
  <2>3. CASE pool' = pool
    BY <2>1, <2>2, <2>3 DEF Nonces, PoolHasNoGaps, pendingNonce
  <2>4. CASE pool' = pool \cup {tx} /\ accepts(req[r].nonce)
    <3>1. tx.nonce = req[r].nonce /\ req[r].nonce \in Nat
      BY DEF Handler
    <3> HIDE DEF tx
    <3>2. /\ tx.nonce >= accountNonce /\ tx.nonce <= accountNonce + size
          /\ \A t \in pool : t.nonce # tx.nonce
      BY <1>s, <2>1, <2>4, <3>1 DEF Nonces, accepts
    <3>3. tx.nonce \notin accountNonce..(accountNonce + size - 1)
      BY <3>2, <1>s DEF Nonces, PoolHasNoGaps
    <3>4. tx.nonce = accountNonce + size
      BY <3>1, <3>2, <3>3, <1>s
    <3>5. tx \notin pool
      BY <3>2
    <3>6. Cardinality(pool') = size + 1
      BY <2>4, <3>5, FS_AddElement
    <3>7. {t.nonce : t \in pool'} = {t.nonce : t \in pool} \cup {tx.nonce}
      BY <2>4
    <3>8. PoolHasNoGaps'
      BY <1>s, <2>1, <3>4, <3>6, <3>7 DEF Nonces, PoolHasNoGaps
    <3>9. pendingNonce' = pendingNonce + 1
      BY <1>s, <2>1, <3>6 DEF pendingNonce
    <3>10. \A q \in Request : req'[q].at = "send" => req'[q].nonce <= pendingNonce'
      <4>1. \A q \in Request : req[q].nonce \in Nat
        BY DEF Handler
      <4>2. QED
        BY <1>s, <2>2, <3>9, <4>1 DEF Nonces
    <3>11. \A t, u \in pool' : t.nonce = u.nonce => t = u
      BY <2>4, <3>2 DEF Nonces
    <3>12. QED
      BY <3>8, <3>10, <3>11 DEF Nonces
  <2>5. QED
    BY <1>1, <2>3, <2>4 DEF sendTx
<1>2. ASSUME mine PROVE Nonces'
  <2>1. PICK tx \in pool : tx.nonce = accountNonce /\ pool' = pool \ {tx}
    BY <1>2 DEF mine
  <2>2. accountNonce' = accountNonce + 1 /\ req' = req
    BY <1>2 DEF mine
  <2>3. Cardinality(pool') = size - 1
    BY <2>1, FS_RemoveElement
  <2>4. {t.nonce : t \in pool'} = {t.nonce : t \in pool} \ {accountNonce}
    BY <2>1 DEF Nonces
  <2>5. PoolHasNoGaps'
    <3>1. {t.nonce : t \in pool'} = accountNonce..(accountNonce + size - 1) \ {accountNonce}
      BY <2>4 DEF Nonces, PoolHasNoGaps
    <3>2. \A a, n \in Nat : a..(a + n - 1) \ {a} = (a + 1)..((a + 1) + (n - 1) - 1)
      OBVIOUS
    <3>3. QED
      BY <1>s, <2>2, <2>3, <3>1, <3>2 DEF PoolHasNoGaps
  <2>6. pendingNonce' = pendingNonce
    BY <1>s, <2>2, <2>3 DEF pendingNonce
  <2>7. QED
    BY <2>1, <2>2, <2>5, <2>6 DEF Nonces
<1>3. ASSUME NEW r \in Request, readNonce(r) PROVE Nonces'
  <2>1. UNCHANGED <<pool, accountNonce>>
    BY <1>3 DEF readNonce
  <2>2. /\ Only(r, req, req')
        /\ req'[r].at = "done" \/ req'[r].nonce = pendingNonce
    BY <1>3, ReadNonceStep, PendingNonceType
  <2>3. QED
    BY <1>s, <2>1, <2>2 DEF Nonces, PoolHasNoGaps, pendingNonce, Only
<1>4. CASE ~mine /\ \A r \in Request : ~sendTx(r) /\ ~readNonce(r)
  BY <1>4, OtherStep DEF Nonces, PoolHasNoGaps, pendingNonce
<1>5. QED
  BY <1>1, <1>2, <1>3, <1>4

\* The nonces of the server's pending transactions follow the mined ones
\* without a gap, for any number of requests that read a nonce and use it much
\* later, so no accepted transaction waits for one that never comes.
THEOREM PoolGapless == PortalSpec => []PoolHasNoGaps
<1>1. PortalSpec => []Fit
  BY FitInit, FitStep, PTL DEF PortalSpec, pv
<1>2. PortalInit => Nonces
  <2> SUFFICES ASSUME PortalInit PROVE Nonces
    OBVIOUS
  <2>1. Cardinality({}) = 0
    BY FS_EmptySet
  <2>2. {tx.nonce : tx \in {}} = 0..(0 + 0 - 1)
    OBVIOUS
  <2>3. QED
    BY <2>1, <2>2, IdleType DEF PortalInit, Nonces, PoolHasNoGaps
<1>3. Fit /\ Nonces /\ [PortalNext]_pv => Nonces'
  BY NoncesStep
<1>4. Nonces => PoolHasNoGaps
  BY DEF Nonces
<1>5. QED
  BY <1>1, <1>2, <1>3, <1>4, PTL DEF PortalSpec, pv

-------------------------------------------------------------------------------
(* Entries of the children's keys. *)

\* An entry of a key stays one, with its bracket.
LEMMA EntriesStay ==
    ASSUME TypeOK, TypeOK', EntriesStep, NEW k, NEW i \in entriesOf(k)
    PROVE  i \in entriesOf(k)' /\ idList'[i + 1].ageBracket = idList[i + 1].ageBracket
<1>1. i \in Nat /\ i + 1 \in DOMAIN idList
  BY DEF entriesOf, Indices, TypeOK
<1>2. /\ idList'[i + 1].key = idList[i + 1].key
      /\ idList'[i + 1].ageBracket = idList[i + 1].ageBracket
      /\ Len(idList') >= Len(idList)
  BY <1>1, EntriesAreFinal
<1>3. Len(idList') = nextIndex'
  BY DEF TypeOK
<1>4. QED
  BY <1>1, <1>2, <1>3 DEF entriesOf, Indices, getIDs, TypeOK

\* addID gives one key one more entry.
LEMMA EntriesAfterAdd ==
    ASSUME TypeOK, NEW s, NEW k \in Key, NEW b \in AgeBracket, addID(s, k, b)
    PROVE  /\ nextIndex \notin entriesOf(k)
           /\ entriesOf(k)' = entriesOf(k) \cup {nextIndex}
           /\ idList'[nextIndex + 1].ageBracket = b
           /\ \A q \in Key \ {k} : entriesOf(q)' = entriesOf(q)
<1> DEFINE d == [key |-> k, active |-> TRUE, owner |-> s, ageBracket |-> b]
<1>1. /\ idList' = Append(idList, d) /\ nextIndex' = nextIndex + 1
      /\ nextIndex = Len(idList) /\ nextIndex \in Nat /\ idList \in Seq(ID)
  BY DEF addID, TypeOK
<1>2. d.key = k /\ d.ageBracket = b
  OBVIOUS
<1> HIDE DEF d
<1>3. /\ \A i \in Indices : idList'[i + 1] = idList[i + 1]
      /\ idList'[nextIndex + 1] = d
      /\ Indices' = Indices \cup {nextIndex} /\ nextIndex \notin Indices
  BY <1>1 DEF Indices
<1>4. QED
  BY <1>2, <1>3 DEF entriesOf, getIDs

\* revokeID leaves every key its entries.
LEMMA EntriesAfterRevoke ==
    ASSUME TypeOK, NEW s, NEW i \in Indices, revokeID(s, i), NEW k
    PROVE  entriesOf(k)' = entriesOf(k)
<1>1. /\ idList \in Seq(ID) /\ nextIndex = Len(idList) /\ nextIndex' = nextIndex
      /\ i + 1 \in DOMAIN idList
  BY DEF revokeID, TypeOK, Indices
<1>2. idList' = [idList EXCEPT ![i + 1] = [idList[i + 1] EXCEPT !.active = FALSE]]
  BY DEF revokeID, deactivated
<1>3. idList[i + 1] \in ID
  BY <1>1
<1>4. [idList[i + 1] EXCEPT !.active = FALSE].key = idList[i + 1].key
  BY <1>3 DEF ID
<1>5. \A j \in Indices : idList'[j + 1].key = idList[j + 1].key
  BY <1>1, <1>2, <1>4 DEF Indices
<1>6. QED
  BY <1>1, <1>5 DEF entriesOf, getIDs, Indices

\* The entries of children's keys change only when a transaction that the
\* server sent for that child is mined.
MinesFor(tx) ==
    /\ tx.nonce = accountNonce
    /\ pool' = pool \ {tx}
    /\ UNCHANGED <<children, req, undisturbed>>
    /\ entriesOf(tx.key)' = entriesOf(tx.key) \cup {nextIndex}
    /\ nextIndex \notin entriesOf(tx.key)
    /\ idList'[nextIndex + 1].ageBracket = tx.ageBracket
    /\ \A c \in Child \ {tx.key} : entriesOf(c)' = entriesOf(c)

\* Nothing but the mining of a transaction gives a child an entry.
LEMMA PortalEntries ==
    ASSUME Fit, [PortalNext]_pv
    PROVE  \/ \A c \in Child : entriesOf(c)' = entriesOf(c)
           \/ \E tx \in pool : MinesFor(tx)
<1> USE DEF Fit, PortalTypeOK
<1>1. CASE UNCHANGED vars
  BY <1>1 DEF vars, entriesOf, Indices, getIDs
<1>2. ASSUME mine PROVE (\E tx \in pool : MinesFor(tx)) \/ UNCHANGED vars
  <2>1. PICK tx \in pool : tx.nonce = accountNonce /\ execute(tx) /\ pool' = pool \ {tx}
    BY <1>2 DEF mine
  <2>2. UNCHANGED <<children, req, undisturbed>>
    BY <1>2 DEF mine
  <2>3. CASE addID(Server, tx.key, tx.ageBracket)
    <3>1. tx.key \in Key /\ tx.ageBracket \in AgeBracket
      BY DEF Tx
    <3>2. /\ nextIndex \notin entriesOf(tx.key)
          /\ entriesOf(tx.key)' = entriesOf(tx.key) \cup {nextIndex}
          /\ idList'[nextIndex + 1].ageBracket = tx.ageBracket
          /\ \A q \in Key \ {tx.key} : entriesOf(q)' = entriesOf(q)
      BY <2>3, <3>1, EntriesAfterAdd
    <3>3. QED
      BY <2>1, <2>2, <3>2, ChildAssumption DEF MinesFor
  <2>4. QED
    BY <2>1, <2>3 DEF execute
<1>3. ASSUME outsider PROVE \A c \in Child : entriesOf(c)' = entriesOf(c)
  <2>1. ASSUME NEW s \in Address, authorizeVerifier(s, Server) \/ removeVerifier(s, Server)
        PROVE  \A c \in Child : entriesOf(c)' = entriesOf(c)
    BY <2>1 DEF authorizeVerifier, removeVerifier, entriesOf, Indices, getIDs
  <2>2. ASSUME NEW s \in Address, NEW k \in Key \ Child, NEW b \in BracketInput,
               addID(s, k, b)
        PROVE  \A c \in Child : entriesOf(c)' = entriesOf(c)
    <3>1. b \in AgeBracket
      BY <2>2, BracketAssumption DEF addID, validBracket, AgeBracket
    <3>2. \A q \in Key \ {k} : entriesOf(q)' = entriesOf(q)
      BY <2>2, <3>1, EntriesAfterAdd
    <3>3. QED
      BY <3>2, ChildAssumption
  <2>3. ASSUME NEW s \in Address, NEW i \in Indices, revokeID(s, i)
        PROVE  \A c \in Child : entriesOf(c)' = entriesOf(c)
    BY <2>3, EntriesAfterRevoke
  <2>4. QED
    BY <1>3, <2>1, <2>2, <2>3 DEF outsider
<1>4. CASE UNCHANGED pv
  BY <1>1, <1>4 DEF pv
<1>5. CASE crash \/ \E p \in Parent, c \in Child :
            \/ \E b \in BracketInput : handleAddChild(p, c, b)
            \/ \E r \in Request : approveRead(r, p, c) \/ revokeRead(r, p, c)
  BY <1>1, <1>5 DEF crash, handleAddChild, approveRead, revokeRead
<1>6. CASE \E r \in Request : handlerStep(r)
  BY <1>1, <1>6 DEF handlerStep, readNonce, sendTx, lookupIndex, markChildVerified,
                    markChildRevoked
<1>7. QED
  BY <1>1, <1>2, <1>3, <1>4, <1>5, <1>6 DEF PortalNext

-------------------------------------------------------------------------------
(* What one step does to one row and to one request. *)

\* A row changes when the child is added, or by a handler of the child.
LEMMA RowStep ==
    ASSUME Fit, [PortalNext]_pv, NEW c \in Child
    PROVE  \/ children'[c] = children[c]
           \/ /\ children[c].status = "none"
              /\ children'[c].status = "pending" /\ children'[c].contractIndex = NULL
           \/ /\ children'[c].ageBracket = children[c].ageBracket
              /\ \E r \in Request :
                  /\ req[r].child = c
                  /\ \/ /\ markChildVerified(r) /\ req[r].at = "store"
                        /\ children'[c].status = "verified"
                        /\ children'[c].contractIndex = req[r].index
                     \/ /\ markChildRevoked(r) /\ req[r].at = "revoke"
                        /\ children'[c].status = "revoked"
                        /\ children'[c].contractIndex = children[c].contractIndex
<1> USE DEF Fit, PortalTypeOK
<1>1. CASE children' = children
  BY <1>1
<1>2. ASSUME NEW p \in Parent, NEW d \in Child, NEW b \in BracketInput,
             handleAddChild(p, d, b)
      PROVE  \/ children'[c] = children[c]
             \/ /\ children[c].status = "none"
                /\ children'[c].status = "pending" /\ children'[c].contractIndex = NULL
  BY <1>2 DEF handleAddChild
<1>3. ASSUME NEW r \in Request, markChildVerified(r) \/ markChildRevoked(r),
             children' # children
      PROVE  \/ children'[c] = children[c]
             \/ /\ children'[c].ageBracket = children[c].ageBracket
                /\ req[r].child = c
                /\ \/ /\ markChildVerified(r) /\ req[r].at = "store"
                      /\ children'[c].status = "verified"
                      /\ children'[c].contractIndex = req[r].index
                   \/ /\ markChildRevoked(r) /\ req[r].at = "revoke"
                      /\ children'[c].status = "revoked"
                      /\ children'[c].contractIndex = children[c].contractIndex
  <2> DEFINE d == req[r].child
  <2>1. req[r].at # "done"
    BY <1>3 DEF markChildVerified, markChildRevoked
  <2>2. d \in Child
    BY <2>1 DEF Rows
  <2>3. /\ RowOnly(d, children, children')
        /\ \/ /\ req[r].at = "store"
              /\ children'[d].status = "verified"
              /\ children'[d].contractIndex = req[r].index
           \/ /\ req[r].at = "revoke"
              /\ children'[d].status = "revoked"
              /\ children'[d].contractIndex = children[d].contractIndex
    BY <1>3, <2>2, MarkedRow
  <2>4. /\ req[r].at = "store" => markChildVerified(r)
        /\ req[r].at = "revoke" => markChildRevoked(r)
    BY <1>3 DEF markChildVerified, markChildRevoked
  <2>5. CASE d = c
    BY <2>3, <2>4, <2>5 DEF RowOnly
  <2>6. CASE d # c
    BY <2>3, <2>6 DEF RowOnly
  <2>7. QED
    BY <2>5, <2>6
<1>4. CASE mine \/ crash \/ outsider \/ UNCHANGED pv
  BY <1>1, <1>4 DEF mine, crash, outsider, pv, portalVars
<1>5. ASSUME NEW r \in Request, readNonce(r) \/ sendTx(r) \/ lookupIndex(r)
      PROVE  children' = children
  BY <1>5 DEF readNonce, sendTx, lookupIndex
<1>6. ASSUME NEW r \in Request, NEW p \in Parent, NEW d \in Child,
             approveRead(r, p, d) \/ revokeRead(r, p, d)
      PROVE  children' = children
  BY <1>6 DEF approveRead, revokeRead
<1>7. QED
  BY <1>1, <1>2, <1>3, <1>4, <1>5, <1>6 DEF PortalNext, handlerStep

\* A request stays, ends, begins, or goes on by its own handler.
LEMMA RequestStep ==
    ASSUME Fit, [PortalNext]_pv, NEW r \in Request
    PROVE  \/ req'[r] = req[r]
           \/ req'[r].at = "done"
           \/ /\ req[r].at = "done" /\ req'[r].at = "revoke"
              /\ \E p \in Parent : revokeRead(r, p, req'[r].child)
           \/ /\ req[r].at = "done" /\ req'[r].at = "nonce"
              /\ \E p \in Parent : approveRead(r, p, req'[r].child)
           \/ readNonce(r) /\ req'[r].at = "send" /\ req'[r].child = req[r].child
           \/ sendTx(r) /\ req'[r].at = "lookup" /\ req'[r].child = req[r].child
           \/ /\ lookupIndex(r) /\ req'[r].at = "store" /\ req'[r].child = req[r].child
              /\ req'[r].index = whereIs(req[r].child)
<1> USE DEF Fit, PortalTypeOK
<1>1. CASE req' = req
  BY <1>1
<1>2. CASE mine \/ outsider \/ UNCHANGED pv
  BY <1>1, <1>2 DEF mine, outsider, pv, portalVars
<1>3. CASE crash
  BY <1>3, IdleType DEF crash
<1>4. ASSUME NEW p \in Parent, NEW c \in Child, NEW b \in BracketInput,
             handleAddChild(p, c, b)
      PROVE  req' = req
  BY <1>4 DEF handleAddChild
<1>5. ASSUME NEW q \in Request, NEW p \in Parent, NEW c \in Child, approveRead(q, p, c)
      PROVE  \/ req'[r] = req[r]
             \/ q = r /\ req[r].at = "done" /\ req'[r].at = "nonce" /\ req'[r].child = c
  <2> DEFINE h == [idle EXCEPT !.at = "nonce", !.child = c]
  <2>1. h.at = "nonce" /\ h.child = c
    BY BegunType
  <2>2. req[q].at = "done" /\ req' = [req EXCEPT ![q] = h]
    BY <1>5 DEF approveRead
  <2> HIDE DEF h
  <2>3. QED
    BY <2>1, <2>2
<1>6. ASSUME NEW q \in Request, NEW p \in Parent, NEW c \in Child, revokeRead(q, p, c)
      PROVE  \/ req'[r] = req[r]
             \/ q = r /\ req[r].at = "done" /\ req'[r].at = "revoke" /\ req'[r].child = c
  <2> DEFINE h == [idle EXCEPT !.at = "revoke", !.child = c]
  <2>1. h.at = "revoke" /\ h.child = c
    BY BegunType
  <2>2. req[q].at = "done" /\ req' = [req EXCEPT ![q] = h]
    BY <1>6 DEF revokeRead
  <2> HIDE DEF h
  <2>3. QED
    BY <2>1, <2>2
<1>7. ASSUME NEW q \in Request, handlerStep(q)
      PROVE  \/ req'[r] = req[r]
             \/ req'[r].at = "done"
             \/ readNonce(r) /\ req'[r].at = "send" /\ req'[r].child = req[r].child
             \/ sendTx(r) /\ req'[r].at = "lookup" /\ req'[r].child = req[r].child
             \/ /\ lookupIndex(r) /\ req'[r].at = "store" /\ req'[r].child = req[r].child
                /\ req'[r].index = whereIs(req[r].child)
  <2>1. /\ Only(q, req, req')
        /\ \/ req'[q].at = "done"
           \/ readNonce(q) /\ req'[q].at = "send"
           \/ sendTx(q) /\ req'[q].at = "lookup"
           \/ /\ lookupIndex(q) /\ req'[q].at = "store"
              /\ req'[q].index = whereIs(req[q].child)
    BY <1>7, ReadNonceStep, PendingNonceType, SendStep, LookupStep, MarkStep
    DEF handlerStep
  <2>2. CASE q = r
    BY <2>1, <2>2 DEF Only
  <2>3. CASE q # r
    BY <2>1, <2>3 DEF Only
  <2>4. QED
    BY <2>2, <2>3
<1>8. QED
  BY <1>1, <1>2, <1>3, <1>4, <1>5, <1>6, <1>7 DEF PortalNext

-------------------------------------------------------------------------------
(* The index that is kept for a child. *)

\* The strengthening: an entry of a child's key carries the bracket of the row,
\* and an index on its way to the row is unknown or an entry of the key.
Own ==
    /\ \A c \in Child : \A i \in entriesOf(c) :
        /\ children[c].status # "none"
        /\ idList[i + 1].ageBracket = children[c].ageBracket
    /\ \A r \in Request :
        req[r].at = "store" =>
            req[r].index = -1 \/ req[r].index \in entriesOf(req[r].child)
    /\ \A c \in Child :
        children[c].contractIndex \in {NULL, -1} \cup entriesOf(c)

\* Every step keeps the kept indices right.
LEMMA OwnStep == ASSUME Fit, Own, [PortalNext]_pv PROVE Own'
<1>f. Fit'
  BY FitStep
<1>t. TypeOK /\ TypeOK'
  BY <1>f DEF Fit, PortalTypeOK
<1>e. EntriesStep
  BY <1>t, PortalStepOnContract, EveryStepOnEntries
<1>s. \A k : \A i \in entriesOf(k) :
        i \in entriesOf(k)' /\ idList'[i + 1].ageBracket = idList[i + 1].ageBracket
  BY <1>t, <1>e, EntriesStay
<1>1. ASSUME NEW c \in Child, NEW i \in entriesOf(c)'
      PROVE  /\ children'[c].status # "none"
             /\ idList'[i + 1].ageBracket = children'[c].ageBracket
  <2>1. CASE i \in entriesOf(c)
    <3>1. /\ children[c].status # "none"
          /\ idList'[i + 1].ageBracket = children[c].ageBracket
      BY <1>s, <2>1 DEF Own
    <3>2. QED
      BY <3>1, RowStep
  <2>2. CASE i \notin entriesOf(c)
    <3>1. PICK tx \in pool : MinesFor(tx)
      BY <2>2, PortalEntries
    <3>2. tx.key = c /\ i = nextIndex
      BY <2>2, <3>1 DEF MinesFor
    <3>3. QED
      BY <3>1, <3>2 DEF MinesFor, Fit, Rows
  <2>3. QED
    BY <2>1, <2>2
<1>2. ASSUME NEW r \in Request, req'[r].at = "store"
      PROVE  req'[r].index = -1 \/ req'[r].index \in entriesOf(req[r].child)'
  <2>k. PICK k : k = req'[r].child
    OBVIOUS
  <2>1. CASE req'[r] = req[r]
    <3>1. req[r].index = -1 \/ req[r].index \in entriesOf(k)
      BY <1>2, <2>k, <2>1 DEF Own
    <3>2. req'[r].index = -1 \/ req'[r].index \in entriesOf(k)'
      BY <1>s, <2>1, <3>1
    <3>3. QED
      BY <2>k, <3>2
  <2>2. CASE req'[r].child = req[r].child /\ req'[r].index = whereIs(req[r].child)
    <3>1. whereIs(k) = -1 \/ whereIs(k) \in entriesOf(k)
      BY <1>t, IndexOfKey DEF whereIs
    <3>2. req'[r].index = whereIs(k)
      BY <2>k, <2>2
    <3>3. req'[r].index = -1 \/ req'[r].index \in entriesOf(k)'
      BY <1>s, <3>1, <3>2
    <3>4. QED
      BY <2>k, <3>3
  <2>3. QED
    BY <1>2, <2>1, <2>2, RequestStep
<1>3. ASSUME NEW c \in Child
      PROVE  children'[c].contractIndex \in {NULL, -1} \cup entriesOf(c)'
  <2>1. children'[c].contractIndex \in {NULL, -1} \cup entriesOf(c)
    BY RowStep DEF Own
  <2>2. QED
    BY <1>s, <2>1
<1>4. QED
  BY <1>1, <1>2, <1>3 DEF Own

\* A contract_index kept in SQLite is the child's own, for any number of
\* children, overlapping requests, failures and outsiders.
THEOREM StoredIndexRight == PortalSpec => []StoredIndexIsOwn
<1>1. PortalSpec => []Fit
  BY FitInit, FitStep, PTL DEF PortalSpec, pv
<1>2. PortalInit => Own
  <2> SUFFICES ASSUME PortalInit PROVE Own
    OBVIOUS
  <2>1. \A c : entriesOf(c) = {}
    BY DEF PortalInit, Init, entriesOf, Indices
  <2>2. QED
    BY <2>1, IdleType DEF PortalInit, Own
<1>3. Fit /\ Own /\ [PortalNext]_pv => Own'
  BY OwnStep
<1>4. Own => StoredIndexIsOwn
  BY DEF Own, StoredIndexIsOwn, entriesOf
<1>5. QED
  BY <1>1, <1>2, <1>3, <1>4, PTL DEF PortalSpec, pv

-------------------------------------------------------------------------------
(* Why the contract may not know a key that was sent. *)

Cause ==
    \/ log[1].verifier # Server
    \/ \E j \in DOMAIN log :
        log[j] = [event |-> "VerifierRemoved", verifier |-> Server]

\* The log grows by one event, and the server loses its role with an event.
LEMMA LogStep ==
    ASSUME TypeOK, [Next]_vars
    PROVE  /\ log' = log \/ \E e : log' = Append(log, e)
           /\ Server \in authorizedVerifiers =>
                \/ Server \in authorizedVerifiers'
                \/ log' = Append(log, [event |-> "VerifierRemoved", verifier |-> Server])
<1>1. CASE UNCHANGED vars
  BY <1>1 DEF vars
<1>2. ASSUME NEW s \in Address, NEW a \in AnyAddress, removeVerifier(s, a)
      PROVE  /\ \E e : log' = Append(log, e)
             /\ Server \in authorizedVerifiers =>
                  \/ Server \in authorizedVerifiers'
                  \/ log' = Append(log, [event |-> "VerifierRemoved", verifier |-> Server])
  <2>1. /\ log' = Append(log, [event |-> "VerifierRemoved", verifier |-> a])
        /\ authorizedVerifiers' = authorizedVerifiers \ {a}
    BY <1>2 DEF removeVerifier, emit
  <2>2. CASE a = Server
    BY <2>1, <2>2
  <2>3. CASE a # Server
    BY <2>1, <2>3
  <2>4. QED
    BY <2>2, <2>3
<1>3. ASSUME NEW s \in Address, NEW a \in AnyAddress,
             authorizeVerifier(s, a) \/ transferAdmin(s, a)
      PROVE  /\ \E e : log' = Append(log, e)
             /\ authorizedVerifiers \subseteq authorizedVerifiers'
  BY <1>3, Zenon DEF authorizeVerifier, transferAdmin, emit
<1>4. ASSUME NEW s \in Address, NEW k \in Key, NEW b \in BracketInput, addID(s, k, b)
      PROVE  (\E e : log' = Append(log, e)) /\ authorizedVerifiers' = authorizedVerifiers
  BY <1>4, Zenon DEF addID, emit
<1>5. ASSUME NEW s \in Address, NEW i \in Indices, revokeID(s, i)
      PROVE  (\E e : log' = Append(log, e)) /\ authorizedVerifiers' = authorizedVerifiers
  BY <1>5, Zenon DEF revokeID, emit
<1>6. QED
  BY <1>1, <1>2, <1>3, <1>4, <1>5 DEF Next

\* A cause, once in the log, stays there.
LEMMA CauseStays == ASSUME TypeOK, [Next]_vars, 1 \in DOMAIN log, Cause
                    PROVE  Cause'
<1>1. CASE log' = log
  BY <1>1 DEF Cause
<1>2. ASSUME NEW e, log' = Append(log, e) PROVE Cause'
  <2>1. /\ DOMAIN log \subseteq DOMAIN log'
        /\ \A j \in DOMAIN log : log'[j] = log[j]
    BY <1>2 DEF TypeOK
  <2>2. QED
    BY <2>1 DEF Cause
<1>3. QED
  BY <1>1, <1>2, LogStep

\* A transaction leaves the pool for an entry, unless it was reverted.
LEMMA PoolStep ==
    ASSUME Fit, [PortalNext]_pv
    PROVE  \/ pool \subseteq pool'
           \/ \E tx \in pool : MinesFor(tx)
           \/ Server \notin authorizedVerifiers
<1> USE DEF Fit, PortalTypeOK
<1>1. CASE pool' = pool
  BY <1>1
<1>2. CASE mine
  <2>1. PICK tx \in pool : tx.nonce = accountNonce /\ execute(tx) /\ pool' = pool \ {tx}
    BY <1>2 DEF mine
  <2>2. UNCHANGED <<children, req, undisturbed>>
    BY <1>2 DEF mine
  <2>3. tx.key \in Key /\ tx.ageBracket \in AgeBracket
    BY DEF Tx
  <2>4. CASE Server \in authorizedVerifiers
    <3>1. validBracket(tx.ageBracket)
      BY <2>3 DEF validBracket, AgeBracket
    <3>2. addID(Server, tx.key, tx.ageBracket)
      BY <2>1, <2>4, <3>1 DEF execute, onlyVerifier
    <3>3. /\ nextIndex \notin entriesOf(tx.key)
          /\ entriesOf(tx.key)' = entriesOf(tx.key) \cup {nextIndex}
          /\ idList'[nextIndex + 1].ageBracket = tx.ageBracket
          /\ \A q \in Key \ {tx.key} : entriesOf(q)' = entriesOf(q)
      BY <2>3, <3>2, EntriesAfterAdd
    <3>4. QED
      BY <2>1, <2>2, <3>3, ChildAssumption DEF MinesFor
  <2>5. QED
    BY <2>4
<1>3. ASSUME NEW r \in Request, sendTx(r) PROVE pool \subseteq pool'
  BY <1>3 DEF sendTx
<1>4. CASE UNCHANGED pv \/ outsider
  BY <1>1, <1>4 DEF pv, portalVars, outsider
<1>5. CASE crash \/ \E p \in Parent, c \in Child :
            \/ \E b \in BracketInput : handleAddChild(p, c, b)
            \/ \E r \in Request : approveRead(r, p, c) \/ revokeRead(r, p, c)
  BY <1>1, <1>5 DEF crash, handleAddChild, approveRead, revokeRead
<1>6. ASSUME NEW r \in Request,
             readNonce(r) \/ lookupIndex(r) \/ markChildVerified(r) \/ markChildRevoked(r)
      PROVE  pool' = pool
  BY <1>6 DEF readNonce, lookupIndex, markChildVerified, markChildRevoked
<1>7. QED
  BY <1>1, <1>2, <1>3, <1>4, <1>5, <1>6 DEF PortalNext, handlerStep

\* The key that a request is about to look up is in the pool or in the
\* contract, or there is a cause.
Known(k) ==
    \/ \E tx \in pool : tx.key = k
    \/ entriesOf(k) # {}
    \/ Cause

Traced ==
    /\ 1 \in DOMAIN log
    /\ Server \in authorizedVerifiers \/ Cause
    /\ \A r \in Request : req[r].at = "lookup" => \A k : k = req[r].child => Known(k)

\* Every step keeps the sent keys traced.
LEMMA TracedStep == ASSUME Fit, Traced, [PortalNext]_pv PROVE Traced'
<1>f. Fit'
  BY FitStep
<1>t. TypeOK /\ TypeOK' /\ [Next]_vars
  BY <1>f, PortalStepOnContract DEF Fit, PortalTypeOK
<1>e. EntriesStep
  BY <1>t, EveryStepOnEntries
<1>1. 1 \in DOMAIN log'
  <2>1. ASSUME NEW e, log' = Append(log, e) PROVE 1 \in DOMAIN log'
    BY <1>t, <2>1 DEF Traced, TypeOK
  <2>2. QED
    BY <1>t, <2>1, LogStep DEF Traced
<1>2. Server \in authorizedVerifiers' \/ Cause'
  <2>1. CASE Cause
    BY <1>t, <2>1, CauseStays DEF Traced
  <2>2. CASE log' = Append(log, [event |-> "VerifierRemoved", verifier |-> Server])
    <3>1. /\ Len(log) + 1 \in DOMAIN log'
          /\ log'[Len(log) + 1] = [event |-> "VerifierRemoved", verifier |-> Server]
      BY <1>t, <2>2 DEF TypeOK
    <3>2. QED
      BY <3>1 DEF Cause
  <2>3. QED
    BY <1>t, <2>1, <2>2, LogStep DEF Traced
<1>3. ASSUME NEW k \in Child, Known(k) PROVE Known(k)'
  <2>1. CASE Cause
    BY <1>t, <2>1, CauseStays DEF Traced, Known
  <2>2. CASE entriesOf(k) # {}
    BY <1>t, <1>e, <2>2, EntriesStay DEF Known
  <2>3. ASSUME NEW tx \in pool, tx.key = k, ~Cause PROVE Known(k)'
    <3>1. CASE pool \subseteq pool'
      BY <2>3, <3>1 DEF Known
    <3>2. ASSUME NEW ux \in pool, MinesFor(ux) PROVE Known(k)'
      <4>1. CASE ux.key = k
        BY <3>2, <4>1 DEF MinesFor, Known
      <4>2. CASE ux.key # k
        BY <2>3, <3>2, <4>2 DEF MinesFor, Known
      <4>3. QED
        BY <4>1, <4>2
    <3>3. QED
      BY <2>3, <3>1, <3>2, PoolStep DEF Traced
  <2>4. QED
    BY <1>3, <2>1, <2>2, <2>3 DEF Known
<1>4. ASSUME NEW r \in Request, req'[r].at = "lookup", NEW k, k = req'[r].child
      PROVE  Known(k)'
  <2>1. CASE req'[r] = req[r]
    <3>1. Known(k) /\ k \in Child
      BY <1>4, <2>1 DEF Traced, Fit, Rows
    <3>2. QED
      BY <1>3, <3>1
  <2>2. CASE sendTx(r) /\ req'[r].child = req[r].child
    <3>1. accepts(req[r].nonce)
      BY <1>4, <2>2, SendStep DEF Fit, PortalTypeOK
    <3> DEFINE tx == [nonce |-> req[r].nonce, key |-> req[r].child,
                      ageBracket |-> children[req[r].child].ageBracket]
    <3>2. tx.key = req[r].child
      OBVIOUS
    <3>3. pool' = pool \cup {tx}
      BY <2>2, <3>1 DEF sendTx
    <3> HIDE DEF tx
    <3>4. \E t \in pool' : t.key = k
      BY <1>4, <2>2, <3>2, <3>3
    <3>5. QED
      BY <3>4 DEF Known
  <2>3. QED
    BY <1>4, <2>1, <2>2, RequestStep
<1>5. QED
  BY <1>1, <1>2, <1>4 DEF Traced

\* The contract answers -1 for a key that was just sent only while the
\* transaction waits, or because the server was not a verifier throughout.
THEOREM LostHasCause == PortalSpec => LostIdentityHasCause
<1>1. PortalSpec => []Fit
  BY FitInit, FitStep, PTL DEF PortalSpec, pv
<1>2. PortalInit => Traced
  BY IdleType DEF PortalInit, Init, Traced, Cause
<1>3. Fit /\ Traced /\ [PortalNext]_pv => Traced'
  BY TracedStep
<1>4. ASSUME Fit, Traced, [PortalNext]_pv
      PROVE  \A r \in Request :
                req[r].at = "lookup" /\ req'[r].at = "store" /\ req'[r].index = -1 =>
                    \/ \E tx \in pool : tx.key = req[r].child
                    \/ log[1].verifier # Server
                    \/ \E j \in DOMAIN log :
                        log[j] = [event |-> "VerifierRemoved", verifier |-> Server]
  <2> TAKE r \in Request
  <2> HAVE req[r].at = "lookup" /\ req'[r].at = "store" /\ req'[r].index = -1
  <2>1. lookupIndex(r) /\ req'[r].index = whereIs(req[r].child)
    BY <1>4, RequestStep DEF sendTx, readNonce
  <2>2. PICK k : k = req[r].child
    OBVIOUS
  <2>3. whereIs(k) = -1
    BY <2>1, <2>2
  <2>4. entriesOf(k) = {}
    <3>1. entriesOf(k) # {} => whereIs(k) \in entriesOf(k)
      BY <1>4, IndexOfKey DEF whereIs, Fit, PortalTypeOK
    <3>2. \A i \in entriesOf(k) : i >= 0
      BY <1>4 DEF entriesOf, Indices, Fit, PortalTypeOK, TypeOK
    <3>3. QED
      BY <2>3, <3>1, <3>2
  <2>5. Known(k)
    BY <1>4, <2>2 DEF Traced
  <2>6. QED
    BY <2>2, <2>4, <2>5 DEF Known, Cause
<1>5. QED
  BY <1>1, <1>2, <1>3, <1>4, PTL DEF PortalSpec, pv, LostIdentityHasCause

-------------------------------------------------------------------------------
(* Approvals that neither overlap nor break off. *)

Approves(r, c) == approving(r) /\ req[r].child = c
Sent(r, c) == req[r].at \in {"lookup", "store"} /\ req[r].child = c
Waiting(c) == {tx \in pool : tx.key = c}

\* Only one request approves the child, and only while the row is pending.
Sole(c) ==
    \A r \in Request : Approves(r, c) =>
        children[c].status = "pending" /\ \A q \in Request : Approves(q, c) => q = r

\* The key was sent once: it waits in the pool or it is in the contract.
SentOnce(c) ==
    /\ \A i, j \in entriesOf(c) : i = j
    /\ \A t, u \in Waiting(c) : t = u
    /\ entriesOf(c) = {} \/ Waiting(c) = {}

\* What was sent for a row that is not verified was sent by a request that is
\* still to write the row.
SentBy(c) ==
    (entriesOf(c) # {} \/ Waiting(c) # {}) /\ children[c].status \in {"none", "pending"} =>
        \E r \in Request : Sent(r, c)

Undisturbed ==
    /\ \A c \in undisturbed : Sole(c) /\ SentOnce(c) /\ SentBy(c)
    /\ \A r \in Request : \A c \in Child : req[r].at = "revoke" /\ req[r].child = c =>
        children[c].status \in {"verified", "revoked"}

\* A child that was disturbed stays so.
LEMMA UndisturbedShrinks == ASSUME [PortalNext]_pv PROVE undisturbed' \subseteq undisturbed
<1>1. CASE UNCHANGED pv \/ mine \/ crash \/ outsider
  BY <1>1 DEF pv, portalVars, mine, crash, outsider
<1>2. ASSUME NEW p \in Parent, NEW c \in Child, NEW r \in Request, approveRead(r, p, c)
      PROVE  undisturbed' \subseteq undisturbed
  BY <1>2, Zenon DEF approveRead
<1>3. CASE \E p \in Parent, c \in Child :
            \/ \E b \in BracketInput : handleAddChild(p, c, b)
            \/ \E r \in Request : revokeRead(r, p, c)
  BY <1>3 DEF handleAddChild, revokeRead
<1>4. ASSUME NEW r \in Request, handlerStep(r) PROVE undisturbed' \subseteq undisturbed
  BY <1>4 DEF handlerStep, readNonce, sendTx, lookupIndex, markChildVerified, markChildRevoked
<1>5. QED
  BY <1>1, <1>2, <1>3, <1>4 DEF PortalNext

\* A request that has sent its transaction and ends has verified the row or
\* leaves the child disturbed.
LEMMA SentEnds ==
    ASSUME Fit, [PortalNext]_pv, NEW r \in Request, NEW c, Sent(r, c),
           req'[r].at = "done"
    PROVE  c \notin undisturbed' \/ children'[c].status = "verified"
<1> USE DEF Fit, PortalTypeOK
<1>0. c \in Child /\ req[r].at \in {"lookup", "store"}
  BY DEF Sent, Rows
<1>1. CASE req'[r] = req[r]
  BY <1>1, <1>0
<1>2. CASE crash
  BY <1>2 DEF crash, Sent
<1>3. CASE lookupIndex(r)
  <2>1. CASE reply(r, "chain failed") /\ undisturbed' = undisturbed \ {req[r].child}
    BY <2>1 DEF Sent
  <2>2. CASE req' = [req EXCEPT ![r].at = "store", ![r].index = whereIs(req[r].child)]
    <3>1. req'[r].at = "store"
      BY <2>2
    <3>2. QED
      BY <3>1
  <2>3. QED
    BY <1>3, <2>1, <2>2 DEF lookupIndex
<1>4. CASE markChildVerified(r)
  <2>1. CASE undisturbed' = undisturbed \ {req[r].child}
    BY <2>1 DEF Sent
  <2>2. CASE children' = [children EXCEPT ![req[r].child].status = "verified",
                                          ![req[r].child].contractIndex = req[r].index]
    <3>1. req[r].child = c
      BY DEF Sent
    <3>2. children'[c].status = "verified"
      BY <1>0, <2>2, <3>1
    <3>3. QED
      BY <3>2
  <2>3. QED
    BY <1>4, <2>1, <2>2 DEF markChildVerified
<1>5. CASE UNCHANGED req
  BY <1>1, <1>5
<1>6. ASSUME NEW q \in Request, q # r, handlerStep(q) PROVE req'[r] = req[r]
  <2>1. Only(q, req, req')
    BY <1>6, ReadNonceStep, PendingNonceType, SendStep, LookupStep, MarkStep
    DEF handlerStep
  <2>2. QED
    BY <1>6, <2>1 DEF Only
<1>7. ASSUME NEW q \in Request, NEW p \in Parent, NEW d \in Child,
             approveRead(q, p, d) \/ revokeRead(q, p, d)
      PROVE  req'[r] = req[r]
  <2>1. /\ req[q].at = "done"
        /\ \E h : req' = [req EXCEPT ![q] = h]
    BY <1>7, Zenon DEF approveRead, revokeRead
  <2>2. QED
    BY <1>0, <2>1
<1>8. CASE readNonce(r) \/ sendTx(r) \/ markChildRevoked(r)
  BY <1>0, <1>8 DEF readNonce, sendTx, markChildRevoked
<1>9. CASE mine \/ outsider \/ UNCHANGED pv \/
           \E p \in Parent, d \in Child, b \in BracketInput : handleAddChild(p, d, b)
  BY <1>5, <1>9 DEF mine, outsider, pv, portalVars, handleAddChild
<1>10. QED
  BY <1>1, <1>2, <1>3, <1>4, <1>6, <1>7, <1>8, <1>9 DEF PortalNext, handlerStep

\* A new transaction in the pool was sent by a request that was to send, and
\* goes on to the lookup or leaves its child disturbed.
LEMMA PoolGrows ==
    ASSUME Fit, [PortalNext]_pv, ~(pool' \subseteq pool)
    PROVE  \E r \in Request :
            /\ approving(r) /\ ~Sent(r, req[r].child)
            /\ \E tx : tx.key = req[r].child /\ pool' = pool \cup {tx}
            /\ UNCHANGED <<children, vars>>
            /\ \/ req'[r].at = "lookup" /\ req'[r].child = req[r].child
               \/ req[r].child \notin undisturbed'
<1> USE DEF Fit, PortalTypeOK
<1>1. ASSUME NEW r \in Request, sendTx(r)
      PROVE  /\ approving(r) /\ ~Sent(r, req[r].child)
             /\ \E tx : tx.key = req[r].child /\ pool' = pool \cup {tx}
             /\ UNCHANGED <<children, vars>>
             /\ \/ req'[r].at = "lookup" /\ req'[r].child = req[r].child
                \/ req[r].child \notin undisturbed'
  <2> DEFINE tx == [nonce |-> req[r].nonce, key |-> req[r].child,
                    ageBracket |-> children[req[r].child].ageBracket]
  <2>1. tx.key = req[r].child
    OBVIOUS
  <2>2. /\ pool' = pool \cup {tx}
        /\ \/ step(r, "lookup")
           \/ undisturbed' = undisturbed \ {req[r].child}
        /\ UNCHANGED <<children, vars>> /\ req[r].at = "send"
    BY <1>1, Zenon DEF sendTx
  <2>3. ASSUME step(r, "lookup")
        PROVE  req'[r].at = "lookup" /\ req'[r].child = req[r].child
    <3> DEFINE g == [req EXCEPT ![r].at = "lookup"]
    <3>1. Only(r, req, g) /\ g[r].at = "lookup"
      BY SetAt, Zenon
    <3>2. req' = g
      BY <2>3 DEF step
    <3> HIDE DEF g
    <3>3. QED
      BY <3>1, <3>2 DEF Only
  <2> HIDE DEF tx
  <2>4. approving(r) /\ ~Sent(r, req[r].child)
    BY <2>2 DEF approving, Sent
  <2>5. \E t : t.key = req[r].child /\ pool' = pool \cup {t}
    BY <2>1, <2>2
  <2>6. QED
    BY <2>2, <2>3, <2>4, <2>5
<1>2. ASSUME NEW r \in Request,
             readNonce(r) \/ lookupIndex(r) \/ markChildVerified(r) \/ markChildRevoked(r)
      PROVE  FALSE
  BY <1>2 DEF readNonce, lookupIndex, markChildVerified, markChildRevoked
<1>3. CASE UNCHANGED pv \/ mine \/ crash \/ outsider
  BY <1>3 DEF pv, portalVars, mine, crash, outsider
<1>4. CASE \E p \in Parent, c \in Child :
            \/ \E b \in BracketInput : handleAddChild(p, c, b)
            \/ \E r \in Request : approveRead(r, p, c) \/ revokeRead(r, p, c)
  BY <1>4 DEF handleAddChild, approveRead, revokeRead
<1>5. QED
  BY <1>1, <1>2, <1>3, <1>4 DEF PortalNext, handlerStep

\* An approval under way began before or begins now.
LEMMA ApprovesStep ==
    ASSUME Fit, [PortalNext]_pv, NEW r \in Request, NEW c \in undisturbed', Approves(r, c)'
    PROVE  \/ Approves(r, c)
           \/ /\ \A q \in Request : ~Approves(q, c)
              /\ \A q \in Request \ {r} : req'[q] = req[q]
              /\ children[c].status = "pending" /\ children' = children
<1>0. c = req'[r].child /\ req'[r].at \in {"nonce", "send", "lookup", "store"}
  BY DEF Approves, approving
<1>1. CASE req'[r] = req[r]
  BY <1>0, <1>1 DEF Approves, approving
<1>2. ASSUME NEW p \in Parent, approveRead(r, p, c)
      PROVE  /\ \A q \in Request : ~Approves(q, c)
             /\ \A q \in Request \ {r} : req'[q] = req[q]
             /\ children[c].status = "pending" /\ children' = children
  <2>1. \E h : req' = [req EXCEPT ![r] = h]
    BY <1>2, Zenon DEF approveRead
  <2>2. \A q \in Request : ~Approves(q, c)
    BY <1>2 DEF approveRead, Approves
  <2>3. QED
    BY <1>2, <2>1, <2>2 DEF approveRead, approvable, Fit, PortalTypeOK
<1>3. CASE readNonce(r) \/ sendTx(r) \/ lookupIndex(r)
  <2>1. req[r].at \in {"nonce", "send", "lookup"}
    BY <1>3 DEF readNonce, sendTx, lookupIndex
  <2>2. req'[r].child = req[r].child
    BY <1>0, <2>1, RequestStep DEF approveRead, revokeRead
  <2>3. QED
    BY <1>0, <2>1, <2>2 DEF Approves, approving
<1>4. QED
  BY <1>0, <1>1, <1>2, <1>3, RequestStep

\* An undisturbed child keeps to one approval at a time.
LEMMA SoleStep ==
    ASSUME Fit, Undisturbed, [PortalNext]_pv, NEW c \in undisturbed' PROVE Sole(c)'
<1>1. c \in undisturbed /\ c \in Child
  BY UndisturbedShrinks DEF Fit, PortalTypeOK
<1>2. ASSUME NEW r \in Request, Approves(r, c)'
      PROVE  children'[c].status = "pending" /\ \A q \in Request : Approves(q, c)' => q = r
  <2>1. ASSUME ~Approves(r, c)
        PROVE  /\ children'[c].status = "pending"
               /\ \A q \in Request : Approves(q, c)' => q = r
    <3>1. /\ \A q \in Request : ~Approves(q, c)
          /\ \A q \in Request \ {r} : req'[q] = req[q]
          /\ children[c].status = "pending" /\ children' = children
      BY <1>2, <2>1, ApprovesStep
    <3>2. \A q \in Request \ {r} : ~Approves(q, c)'
      BY <3>1 DEF Approves, approving
    <3>3. QED
      BY <3>1, <3>2
  <2>2. ASSUME Approves(r, c)
        PROVE  /\ children'[c].status = "pending"
               /\ \A q \in Request : Approves(q, c)' => q = r
    <3>1. children[c].status = "pending" /\ \A q \in Request : Approves(q, c) => q = r
      BY <1>1, <2>2 DEF Undisturbed, Sole
    <3>2. \A q \in Request : Approves(q, c)' => q = r
      BY <2>2, <3>1, ApprovesStep
    <3>3. ASSUME NEW q \in Request, req[q].child = c, markChildVerified(q) PROVE FALSE
      <4>1. Approves(q, c)
        BY <3>3 DEF markChildVerified, Approves, approving
      <4>2. q = r
        BY <3>1, <4>1
      <4>3. req'[q].at = "done"
        BY <3>3, MarkStep DEF Fit, PortalTypeOK
      <4>4. QED
        BY <1>2, <4>2, <4>3 DEF Approves, approving
    <3>4. ASSUME NEW q \in Request, req[q].child = c, req[q].at = "revoke" PROVE FALSE
      BY <1>1, <3>1, <3>4 DEF Undisturbed
    <3>5. QED
      BY <1>1, <3>1, <3>2, <3>3, <3>4, RowStep
  <2>3. QED
    BY <2>1, <2>2
<1>3. QED
  BY <1>2 DEF Sole

\* An undisturbed child keeps to one transaction or entry.
LEMMA SentOnceStep ==
    ASSUME Fit, Undisturbed, [PortalNext]_pv, NEW c \in undisturbed' PROVE SentOnce(c)'
<1>1. /\ c \in undisturbed /\ c \in Child
      /\ Sole(c) /\ SentOnce(c) /\ SentBy(c)
  BY UndisturbedShrinks DEF Fit, PortalTypeOK, Undisturbed
<1>2. CASE pool' \subseteq pool
  <2>1. Waiting(c)' \subseteq Waiting(c)
    BY <1>2 DEF Waiting
  <2>2. CASE entriesOf(c)' = entriesOf(c)
    BY <1>1, <2>1, <2>2 DEF SentOnce
  <2>3. ASSUME NEW tx \in pool, MinesFor(tx), tx.key = c PROVE SentOnce(c)'
    <3>1. tx \in Waiting(c) /\ tx \notin Waiting(c)'
      BY <2>3 DEF Waiting, MinesFor
    <3>2. entriesOf(c) = {} /\ Waiting(c) = {tx}
      BY <1>1, <3>1 DEF SentOnce
    <3>3. entriesOf(c)' = {nextIndex} /\ Waiting(c)' = {}
      BY <2>1, <2>3, <3>1, <3>2 DEF MinesFor
    <3>4. QED
      BY <3>3 DEF SentOnce
  <2>4. ASSUME NEW tx \in pool, MinesFor(tx), tx.key # c
        PROVE  entriesOf(c)' = entriesOf(c)
    BY <1>1, <2>4 DEF MinesFor
  <2>5. QED
    BY <1>1, <2>2, <2>3, <2>4, PortalEntries
<1>3. CASE ~(pool' \subseteq pool)
  <2>1. PICK r \in Request :
            /\ approving(r) /\ ~Sent(r, req[r].child)
            /\ \E tx : tx.key = req[r].child /\ pool' = pool \cup {tx}
            /\ UNCHANGED vars
    BY <1>3, PoolGrows
  <2>2. PICK tx : tx.key = req[r].child /\ pool' = pool \cup {tx}
    BY <2>1
  <2>3. entriesOf(c)' = entriesOf(c)
    BY <2>1 DEF vars, entriesOf, Indices, getIDs
  <2>4. CASE req[r].child = c
    <3>1. Approves(r, c) /\ ~Sent(r, c)
      BY <2>1, <2>4 DEF Approves
    <3>2. \A q \in Request : Sent(q, c) => q = r
      BY <1>1, <3>1 DEF Sole, Sent, Approves, approving
    <3>3. entriesOf(c) = {} /\ Waiting(c) = {}
      BY <1>1, <3>1, <3>2 DEF Sole, SentBy
    <3>4. Waiting(c)' = {tx}
      BY <2>2, <2>4, <3>3 DEF Waiting
    <3>5. QED
      BY <2>3, <3>3, <3>4 DEF SentOnce
  <2>5. CASE req[r].child # c
    <3>1. Waiting(c)' = Waiting(c)
      BY <2>2, <2>5 DEF Waiting
    <3>2. QED
      BY <1>1, <2>3, <3>1 DEF SentOnce
  <2>6. QED
    BY <2>4, <2>5
<1>4. QED
  BY <1>2, <1>3

\* What was sent for a row not yet verified still has its sender.
LEMMA SentByStep ==
    ASSUME Fit, Undisturbed, [PortalNext]_pv, NEW c \in undisturbed',
           (entriesOf(c) # {} \/ Waiting(c) # {})',
           children'[c].status \in {"none", "pending"}
    PROVE  \E r \in Request : Sent(r, c)'
<1>1. /\ c \in undisturbed /\ c \in Child /\ SentBy(c)
  BY UndisturbedShrinks DEF Fit, PortalTypeOK, Undisturbed
<1>2. children[c].status \in {"none", "pending"}
  BY <1>1, RowStep
<1>3. CASE entriesOf(c) # {} \/ Waiting(c) # {}
  <2>1. PICK q \in Request : Sent(q, c)
    BY <1>1, <1>2, <1>3 DEF SentBy
  <2>2. req[q].at \in {"lookup", "store"} /\ req[q].child = c
    BY <2>1 DEF Sent
  <2>3. req'[q].at # "done"
    BY <2>1, SentEnds
  <2>4. \/ req'[q] = req[q]
        \/ req'[q].at = "store" /\ req'[q].child = req[q].child
    BY <2>2, <2>3, RequestStep DEF readNonce, sendTx
  <2>5. QED
    BY <2>2, <2>4 DEF Sent
<1>4. CASE entriesOf(c) = {} /\ Waiting(c) = {}
  <2>1. entriesOf(c)' = {}
    <3>1. ASSUME NEW tx \in pool, MinesFor(tx) PROVE entriesOf(c)' = entriesOf(c)
      <4>1. tx.key # c
        BY <1>4 DEF Waiting
      <4>2. QED
        BY <1>1, <3>1, <4>1 DEF MinesFor
    <3>2. QED
      BY <1>1, <1>4, <3>1, PortalEntries
  <2>2. PICK t \in pool' : t.key = c
    BY <2>1 DEF Waiting
  <2>3. t \notin pool
    BY <1>4, <2>2 DEF Waiting
  <2>4. PICK r \in Request :
            /\ \E tx : tx.key = req[r].child /\ pool' = pool \cup {tx}
            /\ \/ req'[r].at = "lookup" /\ req'[r].child = req[r].child
               \/ req[r].child \notin undisturbed'
    BY <2>2, <2>3, PoolGrows
  <2>5. req[r].child = c
    BY <2>2, <2>3, <2>4
  <2>6. QED
    BY <2>4, <2>5 DEF Sent
<1>5. QED
  BY <1>3, <1>4

\* Every step keeps the facts about undisturbed children.
LEMMA UndisturbedStep == ASSUME Fit, Undisturbed, [PortalNext]_pv PROVE Undisturbed'
<1>1. ASSUME NEW r \in Request, NEW c \in Child, req'[r].at = "revoke", req'[r].child = c
      PROVE  children'[c].status \in {"verified", "revoked"}
  <2>1. CASE req'[r] = req[r]
    <3>1. children[c].status \in {"verified", "revoked"}
      BY <1>1, <2>1 DEF Undisturbed
    <3>2. QED
      BY <3>1, RowStep
  <2>2. ASSUME NEW p \in Parent, revokeRead(r, p, c)
        PROVE  children'[c].status \in {"verified", "revoked"}
    BY <2>2 DEF revokeRead
  <2>3. QED
    BY <1>1, <2>1, <2>2, RequestStep
<1>2. \A c \in undisturbed' : Sole(c)' /\ SentOnce(c)'
  BY SoleStep, SentOnceStep
<1>3. ASSUME NEW c \in undisturbed' PROVE SentBy(c)'
  BY SentByStep DEF SentBy
<1>4. QED
  BY <1>1, <1>2, <1>3 DEF Undisturbed

\* At first every child is undisturbed and nothing was sent.
LEMMA UndisturbedInit == PortalInit => Undisturbed
<1> SUFFICES ASSUME PortalInit PROVE Undisturbed
  OBVIOUS
<1>1. pool = {} /\ \A c : entriesOf(c) = {}
  BY DEF PortalInit, Init, entriesOf, Indices
<1>2. \A r \in Request : req[r].at = "done"
  BY IdleType DEF PortalInit
<1>3. \A c : Waiting(c) = {}
  BY <1>1 DEF Waiting
<1>4. QED
  BY <1>1, <1>2, <1>3 DEF Undisturbed, Sole, SentOnce, SentBy, Approves, approving

\* Both invariants together hold throughout.
LEMMA AlwaysUndisturbed == PortalSpec => [](Fit /\ Undisturbed)
<1>1. PortalInit => Fit /\ Undisturbed
  BY FitInit, UndisturbedInit
<1>2. Fit /\ Undisturbed /\ [PortalNext]_pv => (Fit /\ Undisturbed)'
  BY FitStep, UndisturbedStep
<1>3. QED
  BY <1>1, <1>2, PTL DEF PortalSpec, pv

\* UndisturbedApprovalsAgree: a child whose approvals neither overlapped nor
\* broke off has at most one entry in the contract, and while its row is pending
\* it has one only if its approval is still under way.
THEOREM UndisturbedAgree == PortalSpec => []UndisturbedApprovalsAgree
<1>1. ASSUME Fit, Undisturbed PROVE UndisturbedApprovalsAgree
  <2>1. ASSUME NEW c \in undisturbed PROVE Cardinality(entriesOf(c)) <= 1
    <3>1. \A i, j \in entriesOf(c) : i = j
      BY <1>1 DEF Undisturbed, SentOnce
    <3>2. CASE entriesOf(c) = {}
      BY <3>2, FS_EmptySet
    <3>3. ASSUME NEW i \in entriesOf(c) PROVE Cardinality(entriesOf(c)) <= 1
      <4>1. entriesOf(c) = {i}
        BY <3>1
      <4>2. QED
        BY <4>1, FS_Singleton
    <3>4. QED
      BY <3>2, <3>3
  <2>2. ASSUME NEW c \in undisturbed, children[c].status = "pending", entriesOf(c) # {}
        PROVE  \E r \in Request : approving(r) /\ req[r].child = c
    BY <1>1, <2>2 DEF Undisturbed, SentBy, Sent, approving
  <2>3. QED
    BY <2>1, <2>2 DEF UndisturbedApprovalsAgree
<1>2. QED
  BY <1>1, AlwaysUndisturbed, PTL

\* Only an approval older than a revocation undoes it, and only one that
\* overlapped another approval of the child.
THEOREM RevocationUndoneByOlder == PortalSpec => ReinstatedByOlderApproval
<1>1. ASSUME Fit, Undisturbed, [PortalNext]_pv, NEW c \in Child,
             children[c].status = "revoked", children'[c].status # "revoked"
      PROVE  /\ c \notin undisturbed
             /\ \E r \in Request : req[r].at = "store" /\ req[r].child = c
  <2>1. PICK r \in Request : req[r].at = "store" /\ req[r].child = c
    BY <1>1, RowStep
  <2>2. ~Sole(c)
    BY <1>1, <2>1 DEF Sole, Approves, approving
  <2>3. QED
    BY <1>1, <2>1, <2>2 DEF Undisturbed
<1>2. Fit /\ Undisturbed /\ [PortalNext]_pv =>
        \A c \in Child :
            children[c].status = "revoked" /\ children'[c].status # "revoked" =>
                /\ c \notin undisturbed
                /\ \E r \in Request : req[r].at = "store" /\ req[r].child = c
  BY <1>1
<1>3. QED
  BY <1>2, AlwaysUndisturbed, PTL DEF PortalSpec, pv, ReinstatedByOlderApproval

-------------------------------------------------------------------------------
(* Registration proofs.                                                    *)
(*                                                                         *)
(* The invariants are stated of one attempt t and one list of identities,  *)
(* so that a step of the contract and a step of an attempt are facts about *)
(* values: the list grows or ages (Later), or the attempt moves on.        *)

-------------------------------------------------------------------------------
(* The parameter loops.                                                    *)

\* p holds the powers of N up to the exponent m.
Powers(p, m) ==
  /\ p \in [0..m -> Nat]
  /\ p[0] = 1
  /\ \A i \in 1..m : p[i] = N * p[i - 1]

\* There are powers up to every exponent.
LEMMA PowersExist == \E p : Powers(p, M)
<1> DEFINE bad == {m \in 0..M : ~ \E p : Powers(p, m)}
<1>0. M \in Nat /\ N \in Nat
  BY RingAssumption
<1>1. SUFFICES ASSUME bad # {} PROVE FALSE
  BY <1>0, <1>1
<1>2. PICK m \in bad : \A k \in bad : m <= k
  <2>1. bad \subseteq Nat
    BY <1>0
  <2> HIDE DEF bad
  <2>2. QED
    BY <1>1, <2>1, LeastIndex, Zenon
<1>3. m \in 0..M /\ ~ \E p : Powers(p, m)
  BY <1>2
<1>4. m # 0
  <2>1. Powers([i \in 0..0 |-> 1], 0)
    BY DEF Powers
  <2>2. QED
    BY <1>3, <2>1
<1>5. m \in 1..M /\ m - 1 \in 0..M /\ m - 1 \notin bad
  <2>1. m \in 1..M /\ m - 1 < m /\ m - 1 \in 0..M
    BY <1>0, <1>3, <1>4
  <2> HIDE DEF bad
  <2>2. QED
    BY <1>0, <1>2, <2>1
<1>6. PICK p : Powers(p, m - 1)
  BY <1>5
<1> DEFINE q == [i \in 0..m |-> IF i = m THEN N * p[m - 1] ELSE p[i]]
<1>7. Powers(q, m)
  <2>1. p \in [0..(m - 1) -> Nat] /\ p[0] = 1
    BY <1>6 DEF Powers
  <2>2. \A i \in 1..(m - 1) : p[i] = N * p[i - 1]
    BY <1>6 DEF Powers
  <2>3. N * p[m - 1] \in Nat
    BY <1>0, <1>5, <2>1
  <2>4. q \in [0..m -> Nat]
    BY <1>5, <2>1, <2>3
  <2>5. q[0] = 1
    BY <1>5, <2>1
  <2>6. ASSUME NEW i \in 1..m PROVE q[i] = N * q[i - 1]
    BY <1>5, <2>1, <2>2
  <2>7. QED
    BY <2>4, <2>5, <2>6 DEF Powers
<1>8. QED
  BY <1>3, <1>7

\* The loop's powers are natural numbers.
LEMMA PowerType == power \in [0..M -> Nat]
<1> DEFINE next(p, i) == IF i = 0 THEN 1 ELSE N * p[i - 1]
           bad == {i \in 0..M : power[i] \notin Nat}
<1>0. M \in Nat /\ N \in Nat
  BY RingAssumption
<1>1. PICK p : Powers(p, M)
  BY PowersExist
<1>2. p = [i \in 0..M |-> next(p, i)]
  BY <1>1 DEF Powers
<1>3. power = CHOOSE f : f = [i \in 0..M |-> next(f, i)]
  BY DEF power
<1>4. power = [i \in 0..M |-> next(power, i)]
  <2> HIDE DEF next
  <2>1. QED
    BY <1>2, <1>3
<1>5. SUFFICES ASSUME bad # {} PROVE FALSE
  <2>1. power = [i \in 0..M |-> power[i]]
    <3> HIDE DEF next
    <3>1. QED
      BY <1>4
  <2>2. QED
    BY <1>5, <2>1
<1>6. PICK m \in bad : \A k \in bad : m <= k
  <2>1. bad \subseteq Nat
    BY <1>0
  <2> HIDE DEF bad
  <2>2. QED
    BY <1>5, <2>1, LeastIndex, Zenon
<1>7. m \in 0..M /\ power[m] \notin Nat
  BY <1>6
<1>8. power[m] = next(power, m)
  <2> HIDE DEF next
  <2>1. QED
    BY <1>4, <1>7
<1>9. m \in 1..M /\ power[m] = N * power[m - 1]
  BY <1>0, <1>7, <1>8
<1>10. m - 1 \in 0..M /\ m - 1 \notin bad
  <2>1. m - 1 \in 0..M /\ m - 1 < m
    BY <1>0, <1>9
  <2> HIDE DEF bad
  <2>2. QED
    BY <1>6, <1>9, <2>1
<1>11. QED
  BY <1>0, <1>7, <1>9, <1>10

\* Both loops return an exponent from 1 to M; they agree, on one whose ring is
\* large enough, as soon as the largest ring of the loops is large enough.
LEMMA Parameters ==
  ASSUME NEW n \in Nat
  PROVE  /\ bridgeM(n) \in 1..M /\ serverM(n) \in 1..M
         /\ n <= power[M - 1] => /\ bridgeM(n) = serverM(n)
                                 /\ n <= power[bridgeM(n)]
<1>1. M \in Nat /\ M > 1 /\ power \in [0..M -> Nat]
  BY RingAssumption, PowerType
<1>2. fitting(n) \subseteq 1..(M - 1)
  BY DEF fitting
<1>3. ASSUME fitting(n) # {} PROVE least(fitting(n)) \in fitting(n)
  <2>1. fitting(n) \subseteq Nat
    BY <1>1, <1>2
  <2>2. \E m \in fitting(n) : \A o \in fitting(n) : m <= o
    BY <1>3, <2>1, LeastIndex
  <2>3. QED
    BY <2>2 DEF least
<1>4. bridgeM(n) \in 1..M /\ serverM(n) \in 1..M
  BY <1>1, <1>2, <1>3 DEF bridgeM, serverM
<1>5. ASSUME n <= power[M - 1]
      PROVE  bridgeM(n) = serverM(n) /\ n <= power[bridgeM(n)]
  <2>1. M - 1 \in 1..(M - 1) /\ M - 1 \in 0..M
    BY <1>1
  <2>2. power[M - 1] >= n
    BY <1>1, <1>5, <2>1
  <2>3. M - 1 \in fitting(n)
    BY <2>1, <2>2 DEF fitting
  <2>4. least(fitting(n)) \in fitting(n)
    BY <1>3, <2>3
  <2>5. bridgeM(n) = least(fitting(n)) /\ serverM(n) = least(fitting(n))
    BY <2>3 DEF bridgeM, serverM
  <2>6. bridgeM(n) \in 0..M /\ power[bridgeM(n)] >= n
    BY <1>1, <2>4, <2>5 DEF fitting
  <2>7. QED
    BY <1>1, <2>5, <2>6
<1>6. QED
  BY <1>4, <1>5

-------------------------------------------------------------------------------
(* One attempt against one list of identities.                             *)

AttemptType ==
  [at : Stage, outcome : Outcome, key : Key \cup {Unset}, n : Nat, m : 1..M,
   index : Int, upto : Nat, next : Nat, list : Seq(Key), proof : Proof \cup {Unset},
   began : SUBSET Nat, wasActive : SUBSET Nat]

Slots(ids) == 0..(Len(ids) - 1)
Live(ids) == {i \in Slots(ids) : ids[i + 1].active}

\* A later list: longer perhaps, and with fewer of its old entries active.
Later(ids, new) ==
  /\ ids \in Seq(ID) /\ new \in Seq(ID)
  /\ Len(ids) <= Len(new)
  /\ \A i \in 1..Len(ids) : new[i].key = ids[i].key /\ (new[i].active => ids[i].active)

\* What the fields of an attempt have to do with each other.
Shape(t, ids) ==
  /\ t \in AttemptType
  /\ t.next <= t.upto
  /\ t.began \subseteq Slots(ids) /\ t.wasActive \subseteq Slots(ids)
  /\ t.at \in {"scan size", "scan", "holding"} => t.index \in Nat
  /\ t.at # "done" => t.outcome = "none"
  /\ t.at = "holding" => t.proof # Unset

\* The keys read so far are those of an ascending order of entries that were
\* active when the scan began, none skipped that is active still.
Ordered(t, ids) ==
  \E order \in [1..Len(t.list) -> t.wasActive] :
    /\ \A j \in 1..Len(t.list) : \A k \in 1..(j - 1) : order[k] < order[j]
    /\ \A j \in 1..Len(t.list) : order[j] < t.next /\ t.list[j] = ids[order[j] + 1].key
    /\ \A i \in Live(ids) : i < t.next => \E j \in 1..Len(t.list) : order[j] = i

Scanning(t, ids) ==
  t.at = "scan" =>
    /\ t.upto <= Len(ids)
    /\ \A i \in Live(ids) : i < t.upto => i \in t.wasActive
    /\ Ordered(t, ids)

\* A proof is about the attempt's own key, and its ring has it.
ProofHeld(t) ==
  t.proof # Unset =>
    /\ t.proof \in Proof /\ t.proof.key = t.key /\ Len(t.proof.ring) = t.proof.n
    /\ \E j \in 1..Len(t.proof.ring) : t.proof.ring[j] = t.key

\* AcceptedWasActive, of one attempt.
Accepted(t, ids) ==
  t.outcome = "accepted" => \E i \in t.wasActive : ids[i + 1].key = t.key

Good(t, ids) == Shape(t, ids) /\ Scanning(t, ids) /\ ProofHeld(t) /\ Accepted(t, ids)

\* What was true of an attempt stays true while the list ages.
LEMMA GoodLater ==
  ASSUME NEW ids, NEW new, Later(ids, new), NEW t, Good(t, ids)
  PROVE  Good(t, new)
<1>1. /\ ids \in Seq(ID) /\ new \in Seq(ID) /\ Len(ids) <= Len(new)
      /\ \A i \in 1..Len(ids) : new[i].key = ids[i].key /\ (new[i].active => ids[i].active)
  BY DEF Later
<1>2. Slots(ids) \subseteq Slots(new)
  BY <1>1 DEF Slots
<1>3. ASSUME NEW i \in Slots(ids)
      PROVE  i + 1 \in 1..Len(ids) /\ new[i + 1].key = ids[i + 1].key
             /\ (new[i + 1].active => ids[i + 1].active)
  <2>1. i + 1 \in 1..Len(ids)
    BY <1>1 DEF Slots
  <2>2. QED
    BY <1>1, <2>1
<1>4. t \in AttemptType /\ t.began \subseteq Slots(ids) /\ t.wasActive \subseteq Slots(ids)
  BY DEF Good, Shape
<1>5. Shape(t, new)
  BY <1>2 DEF Good, Shape
<1>6. Scanning(t, new)
  <2> SUFFICES ASSUME t.at = "scan"
               PROVE  /\ t.upto <= Len(new)
                      /\ \A i \in Live(new) : i < t.upto => i \in t.wasActive
                      /\ Ordered(t, new)
    BY DEF Scanning
  <2>1. /\ t.upto <= Len(ids) /\ t.next <= t.upto /\ t.upto \in Nat /\ t.next \in Nat
        /\ \A i \in Live(ids) : i < t.upto => i \in t.wasActive
        /\ Ordered(t, ids)
    BY <1>4 DEF Good, Scanning, Shape, AttemptType
  <2>2. ASSUME NEW i \in Live(new), i < t.upto PROVE i \in Live(ids)
    <3>1. i \in Nat /\ i < Len(ids)
      BY <1>1, <2>1, <2>2 DEF Live, Slots
    <3>2. i \in Slots(ids) /\ new[i + 1].active
      BY <1>1, <2>2, <3>1 DEF Live, Slots
    <3>3. QED
      BY <1>3, <3>2 DEF Live
  <2>3. PICK order \in [1..Len(t.list) -> t.wasActive] :
          /\ \A j \in 1..Len(t.list) : \A k \in 1..(j - 1) : order[k] < order[j]
          /\ \A j \in 1..Len(t.list) : order[j] < t.next /\ t.list[j] = ids[order[j] + 1].key
          /\ \A i \in Live(ids) : i < t.next => \E j \in 1..Len(t.list) : order[j] = i
    BY <2>1 DEF Ordered
  <2>4. ASSUME NEW j \in 1..Len(t.list)
        PROVE  order[j] < t.next /\ t.list[j] = new[order[j] + 1].key
    <3>1. order[j] \in Slots(ids)
      BY <1>4, <2>3
    <3>2. QED
      BY <1>3, <2>3, <3>1
  <2>5. ASSUME NEW i \in Live(new), i < t.next
        PROVE  \E j \in 1..Len(t.list) : order[j] = i
    <3>1. i < t.upto
      BY <1>1, <2>1, <2>5 DEF Live, Slots
    <3>2. QED
      BY <2>2, <2>3, <2>5, <3>1
  <2>6. Ordered(t, new)
    BY <2>3, <2>4, <2>5 DEF Ordered
  <2>7. t.upto <= Len(new)
    BY <1>1, <2>1
  <2>8. QED
    BY <2>1, <2>2, <2>6, <2>7
<1>7. Accepted(t, new)
  BY <1>3, <1>4 DEF Good, Accepted
<1>8. QED
  BY <1>5, <1>6, <1>7 DEF Good

-------------------------------------------------------------------------------
(* What an attempt does in one step, as a relation of its records.         *)

Ended(t, o) == [t EXCEPT !.at = "done", !.outcome = o]
ScanOver(t) == t.at = "scan" /\ t.next = t.upto
RingRead(t) == SubSeq(t.list, 1, t.n)

Begins(t, u, ids) ==
  /\ t.at = "done"
  /\ \E k \in Key : u = [untried EXCEPT !.at = "size", !.key = k, !.began = Live(ids)]
Sizes(t, u, ids) ==
  /\ t.at = "size"
  /\ u = IF Len(ids) < 2 THEN Ended(t, "too few")
         ELSE [t EXCEPT !.at = "index", !.n = Len(ids), !.m = bridgeM(Len(ids))]
Finds(t, u, ids) ==
  /\ t.at = "index"
  /\ \/ /\ \A i \in Slots(ids) : ids[i + 1].key # t.key
        /\ u = Ended(t, "not registered")
     \/ \E i \in Slots(ids) :
          /\ ids[i + 1].key = t.key
          /\ \A j \in Slots(ids) : ids[j + 1].key = t.key => i <= j
          /\ u = [t EXCEPT !.at = "scan size", !.index = i]
Scans(t, u, ids) ==
  /\ t.at = "scan size"
  /\ u = [t EXCEPT !.at = "scan", !.upto = Len(ids), !.next = 0, !.list = <<>>,
                   !.wasActive = Live(ids)]
Reads(t, u, ids) ==
  /\ t.at = "scan" /\ t.next < t.upto
  /\ u = [t EXCEPT !.next = t.next + 1,
                   !.list = IF ids[t.next + 1].active THEN Append(t.list, ids[t.next + 1].key)
                            ELSE t.list]
Proves(t, u) ==
  /\ ScanOver(t) /\ t.proof = Unset
  /\ \/ ~ copied(t.list, t.n) /\ u = Ended(t, "aborted")
     \/ /\ copied(t.list, t.n)
        /\ t.n > power[t.m] \/ RingRead(t)[t.index + 1] # t.key
        /\ u = Ended(t, "refused")
     \/ /\ copied(t.list, t.n) /\ ~ outside(t)
        /\ RingRead(t)[t.index + 1] = t.key
        /\ u = [t EXCEPT !.at = "holding",
                         !.proof = [key |-> t.key, n |-> t.n, m |-> t.m, ring |-> RingRead(t)]]
Submits(t, u) ==
  /\ t.at = "holding"
  /\ u = [t EXCEPT !.at = "scan size", !.m = serverM(t.proof.n)]
Verifies(t, u) ==
  /\ ScanOver(t) /\ t.proof # Unset
  /\ \/ (~ copied(t.list, t.proof.n) \/ t.m > t.proof.m) /\ u = Ended(t, "aborted")
     \/ /\ copied(t.list, t.proof.n) /\ t.m <= t.proof.m
        /\ u = Ended(t, IF t.m = t.proof.m /\ sameRing(t.proof, t.list)
                        THEN "accepted" ELSE "bad proof")
Fails(t, u) ==
  t.at \in {"size", "index", "scan size", "scan"} /\ u = Ended(t, "chain failed")

\* An attempt ends with the bridge that had its request.
Dies(t, u) ==
  /\ t.at \in {"size", "index", "scan size", "scan"} /\ t.proof = Unset
  /\ u = Ended(t, "crashed")

Moves(t, u, ids) ==
  \/ Begins(t, u, ids) \/ Sizes(t, u, ids) \/ Finds(t, u, ids) \/ Scans(t, u, ids)
  \/ Reads(t, u, ids) \/ Proves(t, u) \/ Submits(t, u) \/ Verifies(t, u) \/ Fails(t, u)

\* An ending changes two fields of a record.
LEMMA EndingIs ==
  ASSUME NEW p \in Attempt, NEW o, try \in [Attempt -> AttemptType], ends(p, o)
  PROVE  try' = [try EXCEPT ![p] = Ended(try[p], o)]
BY DEF ends, Ended

\* The bridge dies of this attempt.
Kills(p) == /\ scanned(p) /\ try[p].proof = Unset /\ outside(try[p])
            /\ bridgeDies

\* Every step of an attempt moves its record, and no other one, unless the
\* bridge dies of it.
LEMMA StepMoves ==
  ASSUME TypeOK, try \in [Attempt -> AttemptType], NEW p \in Attempt, attemptStep(p)
  PROVE  \/ \E u : try' = [try EXCEPT ![p] = u] /\ Moves(try[p], u, idList)
         \/ Kills(p)
<1> DEFINE t == try[p]
           done(u) == try' = [try EXCEPT ![p] = u] /\ Moves(t, u, idList)
<1>0. /\ getIDSize = Len(idList) /\ Indices = Slots(idList) /\ active = Live(idList)
      /\ \A i : getIDs(i) = idList[i + 1].key /\ getState(i) = idList[i + 1].active
  BY DEF TypeOK, getIDSize, Indices, Slots, active, Live, getIDs, getState
<1>1. ASSUME NEW k \in Key, HandleRegister(p, k) PROVE \E u : done(u)
  <2> DEFINE u == [untried EXCEPT !.at = "size", !.key = k, !.began = Live(idList)]
  <2>1. try' = [try EXCEPT ![p] = u] /\ t.at = "done"
    BY <1>0, <1>1 DEF HandleRegister
  <2>2. Begins(t, u, idList)
    BY <2>1 DEF Begins
  <2>3. QED
    BY <2>1, <2>2 DEF Moves
<1>2. ASSUME readSize(p) PROVE \E u : done(u)
  <2>1. CASE getIDSize < 2
    <3>1. try' = [try EXCEPT ![p] = Ended(t, "too few")] /\ t.at = "size"
      BY <1>2, <2>1, EndingIs DEF readSize
    <3>2. Sizes(t, Ended(t, "too few"), idList)
      BY <1>0, <2>1, <3>1 DEF Sizes
    <3>3. QED
      BY <3>1, <3>2 DEF Moves
  <2>2. CASE ~ (getIDSize < 2)
    <3> DEFINE u == [t EXCEPT !.at = "index", !.n = Len(idList), !.m = bridgeM(Len(idList))]
    <3>1. try' = [try EXCEPT ![p] = u] /\ t.at = "size"
      BY <1>0, <1>2, <2>2 DEF readSize
    <3>2. Sizes(t, u, idList)
      BY <1>0, <2>2, <3>1 DEF Sizes
    <3>3. QED
      BY <3>1, <3>2 DEF Moves
  <2>3. QED
    BY <2>1, <2>2
<1>3. ASSUME readIndex(p) PROVE \E u : done(u)
  <2> DEFINE k == t.key
  <2>1. /\ entriesOf(k) = {} => getIDIndex(k) = -1
        /\ entriesOf(k) # {} => /\ getIDIndex(k) \in entriesOf(k)
                                /\ \A j \in entriesOf(k) : getIDIndex(k) <= j
    BY IndexOfKey
  <2>2. entriesOf(k) = {i \in Slots(idList) : idList[i + 1].key = k}
    BY <1>0 DEF entriesOf
  <2>3. CASE getIDIndex(k) = -1
    <3>1. try' = [try EXCEPT ![p] = Ended(t, "not registered")] /\ t.at = "index"
      BY <1>3, <2>3, EndingIs DEF readIndex
    <3>2. entriesOf(k) = {}
      BY <2>1, <2>2, <2>3 DEF Slots
    <3>3. \A i \in Slots(idList) : idList[i + 1].key # k
      BY <2>2, <3>2
    <3>4. Finds(t, Ended(t, "not registered"), idList)
      BY <3>1, <3>3 DEF Finds
    <3>5. QED
      BY <3>1, <3>4 DEF Moves
  <2>4. CASE getIDIndex(k) # -1
    <3> DEFINE i == getIDIndex(k)
               u == [t EXCEPT !.at = "scan size", !.index = i]
    <3>1. try' = [try EXCEPT ![p] = u] /\ t.at = "index"
      BY <1>3, <2>4 DEF readIndex
    <3>2. i \in entriesOf(k) /\ \A j \in entriesOf(k) : i <= j
      BY <2>1, <2>4
    <3> HIDE DEF i
    <3>3. /\ i \in Slots(idList) /\ idList[i + 1].key = t.key
          /\ \A j \in Slots(idList) : idList[j + 1].key = t.key => i <= j
      BY <2>2, <3>2
    <3>4. Finds(t, u, idList)
      BY <3>1, <3>3 DEF Finds
    <3>5. QED
      BY <3>1, <3>4 DEF Moves
  <2>5. QED
    BY <2>3, <2>4
<1>4. ASSUME beginScan(p) PROVE \E u : done(u)
  <2> DEFINE u == [t EXCEPT !.at = "scan", !.upto = Len(idList), !.next = 0, !.list = <<>>,
                            !.wasActive = Live(idList)]
  <2>1. try' = [try EXCEPT ![p] = u] /\ t.at = "scan size"
    BY <1>0, <1>4 DEF beginScan
  <2>2. Scans(t, u, idList)
    BY <2>1 DEF Scans
  <2>3. QED
    BY <2>1, <2>2 DEF Moves
<1>5. ASSUME scanNext(p) PROVE \E u : done(u)
  <2> DEFINE u == [t EXCEPT !.next = t.next + 1,
                     !.list = IF idList[t.next + 1].active
                              THEN Append(t.list, idList[t.next + 1].key) ELSE t.list]
  <2>1. try' = [try EXCEPT ![p] = u] /\ t.at = "scan" /\ t.next < t.upto
    BY <1>5 DEF scanNext, inRing, getState, getIDs
  <2>2. Reads(t, u, idList)
    BY <2>1 DEF Reads
  <2>3. QED
    BY <2>1, <2>2 DEF Moves
<1>6. ASSUME RegistrationProof(p) PROVE Kills(p) \/ \E u : done(u)
  <2>1. ScanOver(t) /\ t.proof = Unset
    BY <1>6 DEF RegistrationProof, scanned, ScanOver
  <2>2. CASE ~ copied(t.list, t.n) /\ ends(p, "aborted")
    <3>1. try' = [try EXCEPT ![p] = Ended(t, "aborted")]
      BY <2>2, EndingIs
    <3>2. Proves(t, Ended(t, "aborted"))
      BY <2>1, <2>2 DEF Proves
    <3>3. QED
      BY <3>1, <3>2 DEF Moves
  <2>3. CASE /\ copied(t.list, t.n)
             /\ t.n > power[t.m] \/ RingRead(t)[t.index + 1] # t.key
             /\ ends(p, "refused")
    <3>1. try' = [try EXCEPT ![p] = Ended(t, "refused")]
      BY <2>3, EndingIs
    <3>2. Proves(t, Ended(t, "refused"))
      BY <2>1, <2>3 DEF Proves
    <3>3. QED
      BY <3>1, <3>2 DEF Moves
  <2> DEFINE u == [t EXCEPT !.at = "holding",
                     !.proof = [key |-> t.key, n |-> t.n, m |-> t.m, ring |-> RingRead(t)]]
  <2>4. CASE /\ copied(t.list, t.n) /\ ~ outside(t)
             /\ RingRead(t)[t.index + 1] = t.key
             /\ try' = [try EXCEPT ![p] = u]
    <3>1. Proves(t, u)
      BY <2>1, <2>4 DEF Proves
    <3>2. QED
      BY <2>4, <3>1 DEF Moves
  <2>5. CASE outside(t) /\ bridgeDies
    BY <1>6, <2>5 DEF RegistrationProof, Kills
  <2>6. QED
    BY <1>6, <2>2, <2>3, <2>4, <2>5 DEF RegistrationProof, RingRead
<1>7. ASSUME HandleSignupSubmit(p) PROVE \E u : done(u)
  <2> DEFINE u == [t EXCEPT !.at = "scan size", !.m = serverM(t.proof.n)]
  <2>1. try' = [try EXCEPT ![p] = u] /\ t.at = "holding"
    BY <1>7 DEF HandleSignupSubmit
  <2>2. Submits(t, u)
    BY <2>1 DEF Submits
  <2>3. QED
    BY <2>1, <2>2 DEF Moves
<1>8. ASSUME RegistrationVerify(p) PROVE \E u : done(u)
  <2>1. ScanOver(t) /\ t.proof # Unset
    BY <1>8 DEF RegistrationVerify, scanned, ScanOver
  <2>2. CASE /\ ~ copied(t.list, t.proof.n) \/ t.m > t.proof.m
             /\ ends(p, "aborted")
    <3>1. try' = [try EXCEPT ![p] = Ended(t, "aborted")]
      BY <2>2, EndingIs
    <3>2. Verifies(t, Ended(t, "aborted"))
      BY <2>1, <2>2 DEF Verifies
    <3>3. QED
      BY <3>1, <3>2 DEF Moves
  <2> DEFINE o == IF t.m = t.proof.m /\ sameRing(t.proof, t.list) THEN "accepted" ELSE "bad proof"
  <2>3. CASE /\ copied(t.list, t.proof.n) /\ t.m <= t.proof.m
             /\ ends(p, o)
    <3>1. try' = [try EXCEPT ![p] = Ended(t, o)]
      <4> HIDE DEF o
      <4>1. QED
        BY <2>3, EndingIs
    <3>2. Verifies(t, Ended(t, o))
      BY <2>1, <2>3 DEF Verifies
    <3>3. QED
      BY <3>1, <3>2 DEF Moves
  <2>4. QED
    BY <1>8, <2>2, <2>3 DEF RegistrationVerify
<1>9. ASSUME callFails(p) PROVE \E u : done(u)
  <2>1. /\ try' = [try EXCEPT ![p] = Ended(t, "chain failed")]
        /\ t.at \in {"size", "index", "scan size", "scan"}
    BY <1>9, EndingIs DEF callFails
  <2>2. Fails(t, Ended(t, "chain failed"))
    BY <2>1 DEF Fails
  <2>3. QED
    BY <2>1, <2>2 DEF Moves
<1>10. QED
  BY <1>1, <1>2, <1>3, <1>4, <1>5, <1>6, <1>7, <1>8, <1>9 DEF attemptStep

-------------------------------------------------------------------------------
(* Good is kept by every move.                                             *)

\* The first n elements of a sequence.
LEMMA Prefix ==
  ASSUME NEW S, NEW s \in Seq(S), NEW n \in Nat, n <= Len(s)
  PROVE  /\ SubSeq(s, 1, n) \in Seq(S) /\ Len(SubSeq(s, 1, n)) = n
         /\ SubSeq(s, 1, n) = [i \in 1..n |-> s[i]]
<1>1. n \in 0..Len(s)
  OBVIOUS
<1>2. SubSeq(s, 1, n) = Restrict(s, 1..n)
  BY <1>1, SubSeqRestrict
<1>3. SubSeq(s, 1, n) = [i \in 1..n |-> s[i]]
  BY <1>2 DEF Restrict
<1>4. [i \in 1..n |-> s[i]] \in Seq(S) /\ Len([i \in 1..n |-> s[i]]) = n
  <2>1. \A i \in 1..n : s[i] \in S
    OBVIOUS
  <2>2. QED
    BY <2>1
<1>5. QED
  BY <1>3, <1>4

\* An ending is good when what it claims is.
LEMMA GoodEnding ==
  ASSUME NEW ids, NEW t, Good(t, ids), NEW o \in Outcome,
         o = "accepted" => \E i \in t.wasActive : ids[i + 1].key = t.key
  PROVE  Good(Ended(t, o), ids)
<1> DEFINE u == Ended(t, o)
<1>1. t \in AttemptType
  BY DEF Good, Shape
<1>2. /\ u \in AttemptType
      /\ u.at = "done" /\ u.outcome = o /\ u.key = t.key /\ u.next = t.next /\ u.upto = t.upto
      /\ u.proof = t.proof /\ u.began = t.began /\ u.wasActive = t.wasActive
  BY <1>1 DEF Ended, AttemptType, Stage
<1> HIDE DEF u
<1>3. Shape(u, ids)
  BY <1>2 DEF Good, Shape
<1>4. Scanning(u, ids)
  BY <1>2 DEF Scanning
<1>5. ProofHeld(u)
  BY <1>2 DEF Good, ProofHeld
<1>6. Accepted(u, ids)
  BY <1>2 DEF Accepted
<1>7. QED
  BY <1>3, <1>4, <1>5, <1>6 DEF Good, u

\* A scan that goes on stays in order.
LEMMA GoodReading ==
  ASSUME NEW ids \in Seq(ID), NEW t, Good(t, ids), NEW u, Reads(t, u, ids)
  PROVE  Good(u, ids)
<1> DEFINE key == ids[t.next + 1].key
           live == ids[t.next + 1].active
<1>1. /\ t \in AttemptType /\ t.at = "scan" /\ t.next < t.upto /\ t.upto <= Len(ids)
      /\ t.next \in Nat /\ t.upto \in Nat /\ Len(ids) \in Nat /\ t.list \in Seq(Key)
      /\ \A i \in Live(ids) : i < t.upto => i \in t.wasActive
      /\ t.wasActive \subseteq Nat
  BY DEF Good, Shape, Scanning, Reads, AttemptType
<1>2. t.next + 1 \in 1..Len(ids) /\ key \in Key
  <2>1. t.next + 1 \in 1..Len(ids)
    BY <1>1
  <2>2. ids[t.next + 1] \in ID
    BY <2>1
  <2>3. QED
    BY <2>1, <2>2 DEF ID
<1>3. PICK order \in [1..Len(t.list) -> t.wasActive] :
        /\ \A j \in 1..Len(t.list) : \A k \in 1..(j - 1) : order[k] < order[j]
        /\ \A j \in 1..Len(t.list) : order[j] < t.next /\ t.list[j] = ids[order[j] + 1].key
        /\ \A i \in Live(ids) : i < t.next => \E j \in 1..Len(t.list) : order[j] = i
  BY <1>1 DEF Good, Scanning, Ordered
<1>4. ASSUME live PROVE Good(u, ids)
  <2> DEFINE len == Len(t.list)
             more == Append(t.list, key)
             longer == [j \in 1..(len + 1) |-> IF j = len + 1 THEN t.next ELSE order[j]]
  <2>1. u = [t EXCEPT !.next = t.next + 1, !.list = more]
    BY <1>4 DEF Reads
  <2>2. /\ more \in Seq(Key) /\ Len(more) = len + 1 /\ more[len + 1] = key
        /\ \A j \in 1..len : more[j] = t.list[j]
        /\ len \in Nat
    BY <1>1, <1>2
  <2>3. t.next \in Live(ids) /\ t.next \in t.wasActive
    <3>1. t.next \in Live(ids)
      BY <1>1, <1>4 DEF Live, Slots
    <3>2. QED
      BY <1>1, <3>1
  <2> HIDE DEF more, key, live
  <2>4. /\ u \in AttemptType /\ u.at = "scan" /\ u.next = t.next + 1 /\ u.list = more
        /\ u.outcome = t.outcome /\ u.key = t.key /\ u.upto = t.upto /\ u.proof = t.proof
        /\ u.began = t.began /\ u.wasActive = t.wasActive /\ u.index = t.index
    <3> DEFINE n == t.next + 1
    <3>1. n \in Nat
      BY <1>1
    <3> HIDE DEF n
    <3>2. u = [t EXCEPT !.next = n, !.list = more]
      BY <2>1, <1>1 DEF n, AttemptType
    <3>3. u \in AttemptType
      BY <1>1, <2>2, <3>1, <3>2 DEF AttemptType
    <3>4. QED
      BY <1>1, <2>1, <3>3 DEF AttemptType
  <2>5. longer \in [1..(len + 1) -> t.wasActive]
    BY <1>3, <2>2, <2>3
  <2>6. ASSUME NEW j \in 1..(len + 1), NEW k \in 1..(j - 1) PROVE longer[k] < longer[j]
    <3>1. k \in 1..len /\ longer[k] = order[k]
      BY <2>2
    <3>2. CASE j = len + 1
      BY <1>3, <3>1, <3>2
    <3>3. CASE j # len + 1
      <4>1. j \in 1..len /\ longer[j] = order[j]
        BY <2>2, <3>3
      <4>2. QED
        BY <1>3, <3>1, <4>1
    <3>4. QED
      BY <3>2, <3>3
  <2>7. ASSUME NEW j \in 1..(len + 1)
        PROVE  longer[j] < t.next + 1 /\ more[j] = ids[longer[j] + 1].key
    <3>1. CASE j = len + 1
      BY <1>1, <2>2, <3>1 DEF key
    <3>2. CASE j # len + 1
      <4>1. j \in 1..len /\ longer[j] = order[j] /\ more[j] = t.list[j]
        BY <2>2, <3>2
      <4>2. order[j] < t.next /\ t.list[j] = ids[order[j] + 1].key /\ order[j] \in Nat
        BY <1>1, <1>3, <4>1
      <4>3. QED
        BY <1>1, <4>1, <4>2
    <3>3. QED
      BY <3>1, <3>2
  <2>8. ASSUME NEW i \in Live(ids), i < t.next + 1 PROVE \E j \in 1..(len + 1) : longer[j] = i
    <3>1. CASE i = t.next
      <4>1. len + 1 \in 1..(len + 1) /\ longer[len + 1] = t.next
        BY <2>2
      <4>2. QED
        BY <3>1, <4>1
    <3>2. CASE i # t.next
      <4>1. i < t.next
        BY <1>1, <2>8, <3>2 DEF Live, Slots
      <4>2. PICK j \in 1..len : order[j] = i
        BY <1>3, <4>1
      <4>3. j \in 1..(len + 1) /\ longer[j] = order[j]
        BY <2>2
      <4>4. QED
        BY <4>2, <4>3
    <3>3. QED
      BY <3>1, <3>2
  <2> HIDE DEF longer
  <2>9. Ordered(u, ids)
    <3>1. longer \in [1..Len(u.list) -> u.wasActive]
      BY <2>2, <2>4, <2>5
    <3>2. /\ \A j \in 1..Len(u.list) : \A k \in 1..(j - 1) : longer[k] < longer[j]
          /\ \A j \in 1..Len(u.list) : longer[j] < u.next /\ u.list[j] = ids[longer[j] + 1].key
          /\ \A i \in Live(ids) : i < u.next => \E j \in 1..Len(u.list) : longer[j] = i
      BY <2>2, <2>4, <2>6, <2>7, <2>8
    <3>3. QED
      BY <3>1, <3>2 DEF Ordered
  <2>10. Scanning(u, ids)
    BY <1>1, <2>4, <2>9 DEF Scanning
  <2>11. Shape(u, ids)
    BY <1>1, <2>4 DEF Good, Shape
  <2>12. ProofHeld(u) /\ Accepted(u, ids)
    BY <2>4 DEF Good, ProofHeld, Accepted
  <2>13. QED
    BY <2>10, <2>11, <2>12 DEF Good
<1>5. ASSUME ~ live PROVE Good(u, ids)
  <2>1. u = [t EXCEPT !.next = t.next + 1]
    BY <1>1, <1>5 DEF Reads, AttemptType
  <2>2. /\ u \in AttemptType /\ u.at = "scan" /\ u.next = t.next + 1 /\ u.list = t.list
        /\ u.outcome = t.outcome /\ u.key = t.key /\ u.upto = t.upto /\ u.proof = t.proof
        /\ u.began = t.began /\ u.wasActive = t.wasActive /\ u.index = t.index
    <3> DEFINE n == t.next + 1
    <3>1. n \in Nat
      BY <1>1
    <3> HIDE DEF n
    <3>2. u = [t EXCEPT !.next = n]
      BY <2>1, <1>1 DEF n, AttemptType
    <3>3. u \in AttemptType
      BY <1>1, <3>1, <3>2 DEF AttemptType
    <3>4. QED
      BY <1>1, <2>1, <3>3 DEF AttemptType
  <2>3. ASSUME NEW i \in Live(ids), i < t.next + 1
        PROVE  \E j \in 1..Len(t.list) : order[j] = i
    <3>1. i # t.next /\ i \in Nat
      BY <1>1, <1>5 DEF Live, Slots
    <3>2. i < t.next
      BY <1>1, <2>3, <3>1
    <3>3. QED
      BY <1>3, <3>2
  <2>4. ASSUME NEW j \in 1..Len(t.list) PROVE order[j] < t.next + 1
    <3>1. order[j] \in Nat /\ order[j] < t.next
      BY <1>1, <1>3
    <3>2. QED
      BY <1>1, <3>1
  <2> HIDE DEF live
  <2>5. Ordered(u, ids)
    BY <1>3, <2>2, <2>3, <2>4 DEF Ordered
  <2>6. Scanning(u, ids)
    BY <1>1, <2>2, <2>5 DEF Scanning
  <2>7. Shape(u, ids)
    BY <1>1, <2>2 DEF Good, Shape
  <2>8. ProofHeld(u) /\ Accepted(u, ids)
    BY <2>2 DEF Good, ProofHeld, Accepted
  <2>9. QED
    BY <2>6, <2>7, <2>8 DEF Good
<1>6. QED
  BY <1>4, <1>5

\* Every move of an attempt is good.
LEMMA GoodMoves ==
  ASSUME NEW ids \in Seq(ID), NEW t, Good(t, ids), NEW u, Moves(t, u, ids)
  PROVE  Good(u, ids)
<1>0. /\ t \in AttemptType /\ Len(ids) \in Nat /\ Live(ids) \subseteq Slots(ids)
      /\ t.key \in Key \cup {Unset} /\ t.n \in Nat /\ t.m \in 1..M /\ t.list \in Seq(Key)
      /\ t.upto \in Nat /\ t.next \in Nat /\ t.proof \in Proof \cup {Unset}
      /\ Slots(ids) \subseteq Nat
      /\ M \in Nat /\ M > 1
  <2>1. t \in AttemptType
    BY DEF Good, Shape
  <2>2. /\ t.key \in Key \cup {Unset} /\ t.n \in Nat /\ t.m \in 1..M /\ t.list \in Seq(Key)
        /\ t.upto \in Nat /\ t.next \in Nat /\ t.proof \in Proof \cup {Unset}
    BY <2>1 DEF AttemptType
  <2>3. Len(ids) \in Nat /\ Live(ids) \subseteq Slots(ids) /\ Slots(ids) \subseteq Nat
    BY DEF Live, Slots
  <2>4. QED
    BY <2>1, <2>2, <2>3, RingAssumption
<1>e. ASSUME NEW o \in Outcome, o # "accepted", u = Ended(t, o) PROVE Good(u, ids)
  BY <1>e, GoodEnding
<1>1. ASSUME Begins(t, u, ids) PROVE Good(u, ids)
  <2>1. PICK k \in Key : u = [untried EXCEPT !.at = "size", !.key = k, !.began = Live(ids)]
    BY <1>1 DEF Begins
  <2>2. u = [at |-> "size", outcome |-> "none", key |-> k, n |-> 0, m |-> 1, index |-> -1,
             upto |-> 0, next |-> 0, list |-> <<>>, proof |-> Unset, began |-> Live(ids),
             wasActive |-> {}]
    BY <2>1 DEF untried
  <2>3. u \in AttemptType
    <3>1. <<>> \in Seq(Key) /\ 1 \in 1..M /\ -1 \in Int /\ Live(ids) \in SUBSET Nat
      BY <1>0
    <3>2. QED
      BY <2>2, <3>1 DEF AttemptType, Stage, Outcome
  <2>4. /\ u.at = "size" /\ u.outcome = "none" /\ u.next = 0 /\ u.upto = 0 /\ u.proof = Unset
        /\ u.began = Live(ids) /\ u.wasActive = {}
    BY <2>2
  <2>5. Shape(u, ids)
    BY <1>0, <2>3, <2>4 DEF Shape
  <2>6. QED
    BY <2>4, <2>5 DEF Good, Scanning, ProofHeld, Accepted
<1>2. ASSUME Sizes(t, u, ids) PROVE Good(u, ids)
  <2>1. CASE Len(ids) < 2
    <3>1. u = Ended(t, "too few")
      BY <1>2, <2>1 DEF Sizes
    <3>2. QED
      BY <1>e, <3>1 DEF Outcome
  <2>2. CASE ~ (Len(ids) < 2)
    <3> DEFINE b == bridgeM(Len(ids))
    <3>1. u = [t EXCEPT !.at = "index", !.n = Len(ids), !.m = b] /\ t.at = "size"
      BY <1>2, <2>2 DEF Sizes
    <3>2. b \in 1..M
      BY <1>0, Parameters
    <3> HIDE DEF b
    <3>3. u \in AttemptType
      BY <1>0, <3>1, <3>2 DEF AttemptType, Stage
    <3>4. /\ u.at = "index" /\ u.outcome = t.outcome /\ u.key = t.key /\ u.next = t.next
          /\ u.upto = t.upto /\ u.proof = t.proof /\ u.began = t.began
          /\ u.wasActive = t.wasActive
      BY <1>0, <3>1 DEF AttemptType
    <3>5. QED
      BY <3>1, <3>3, <3>4 DEF Good, Shape, Scanning, ProofHeld, Accepted
  <2>3. QED
    BY <2>1, <2>2
<1>3. ASSUME Finds(t, u, ids) PROVE Good(u, ids)
  <2>1. CASE u = Ended(t, "not registered")
    BY <1>e, <2>1 DEF Outcome
  <2>2. ASSUME NEW i \in Slots(ids), u = [t EXCEPT !.at = "scan size", !.index = i]
        PROVE  Good(u, ids)
    <3>1. i \in Nat /\ i \in Int /\ t.at = "index"
      <4>1. i \in Nat
        BY <1>0
      <4>2. t.at = "index"
        BY <1>3, Zenon DEF Finds
      <4>3. QED
        BY <4>1, <4>2
    <3>2. u \in AttemptType
      BY <1>0, <2>2, <3>1 DEF AttemptType, Stage
    <3>3. /\ u.at = "scan size" /\ u.outcome = t.outcome /\ u.key = t.key /\ u.next = t.next
          /\ u.upto = t.upto /\ u.proof = t.proof /\ u.began = t.began
          /\ u.wasActive = t.wasActive /\ u.index = i
      BY <1>0, <2>2 DEF AttemptType
    <3>4. QED
      BY <3>1, <3>2, <3>3 DEF Good, Shape, Scanning, ProofHeld, Accepted
  <2>3. QED
    BY <1>3, <2>1, <2>2 DEF Finds
<1>4. ASSUME Scans(t, u, ids) PROVE Good(u, ids)
  <2>1. /\ t.at = "scan size"
        /\ u = [t EXCEPT !.at = "scan", !.upto = Len(ids), !.next = 0, !.list = <<>>,
                         !.wasActive = Live(ids)]
    BY <1>4 DEF Scans
  <2>2. u \in AttemptType
    <3>1. <<>> \in Seq(Key) /\ Live(ids) \in SUBSET Nat
      BY <1>0
    <3>2. QED
      BY <1>0, <2>1, <3>1 DEF AttemptType, Stage
  <2>3. /\ u.at = "scan" /\ u.outcome = t.outcome /\ u.key = t.key /\ u.next = 0
        /\ u.upto = Len(ids) /\ u.proof = t.proof /\ u.began = t.began
        /\ u.wasActive = Live(ids) /\ u.index = t.index /\ u.list = <<>>
    BY <1>0, <2>1 DEF AttemptType
  <2>4. Ordered(u, ids)
    <3> DEFINE none == [j \in 1..0 |-> 0]
    <3>1. Len(u.list) = 0 /\ none \in [1..0 -> u.wasActive]
      BY <2>3
    <3>2. /\ \A j \in 1..0 : \A k \in 1..(j - 1) : none[k] < none[j]
          /\ \A j \in 1..0 : none[j] < u.next /\ u.list[j] = ids[none[j] + 1].key
      OBVIOUS
    <3>3. \A i \in Live(ids) : ~ (i < u.next)
      BY <1>0, <2>3
    <3> HIDE DEF none
    <3>4. QED
      BY <3>1, <3>2, <3>3 DEF Ordered
  <2>5. Scanning(u, ids)
    BY <1>0, <2>3, <2>4 DEF Scanning
  <2>6. Shape(u, ids)
    <3>1. /\ t.began \subseteq Slots(ids) /\ t.index \in Nat /\ t.outcome = "none"
      BY <2>1 DEF Good, Shape
    <3>2. QED
      BY <1>0, <2>2, <2>3, <3>1 DEF Shape
  <2>7. ProofHeld(u) /\ Accepted(u, ids)
    BY <2>1, <2>3 DEF Good, Shape, ProofHeld, Accepted
  <2>8. QED
    BY <2>5, <2>6, <2>7 DEF Good
<1>5. ASSUME Reads(t, u, ids) PROVE Good(u, ids)
  BY <1>5, GoodReading
<1>6. ASSUME Proves(t, u) PROVE Good(u, ids)
  <2>1. CASE u = Ended(t, "aborted") \/ u = Ended(t, "refused")
    BY <1>e, <2>1 DEF Outcome
  <2>2. ASSUME copied(t.list, t.n), ~ outside(t), RingRead(t)[t.index + 1] = t.key,
               u = [t EXCEPT !.at = "holding",
                      !.proof = [key |-> t.key, n |-> t.n, m |-> t.m, ring |-> RingRead(t)]]
        PROVE  Good(u, ids)
    <3> DEFINE ring == RingRead(t)
               proof == [key |-> t.key, n |-> t.n, m |-> t.m, ring |-> ring]
    <3>1. t.at = "scan" /\ t.index \in Nat /\ t.index < t.n /\ t.n <= Len(t.list)
      BY <1>0, <1>6, <2>2 DEF Proves, ScanOver, Good, Shape, copied, outside
    <3>2. ring \in Seq(Key) /\ Len(ring) = t.n
      BY <1>0, <3>1, Prefix DEF RingRead
    <3>3. t.index + 1 \in 1..Len(ring) /\ ring[t.index + 1] = t.key
      BY <1>0, <2>2, <3>1, <3>2
    <3>4. ring[t.index + 1] \in Key
      <4> HIDE DEF ring
      <4>1. QED
        BY <3>2, <3>3
    <3> HIDE DEF ring
    <3>5. proof \in Proof
      <4>1. t.m \in Nat /\ t.key \in Key
        BY <1>0, <3>3, <3>4
      <4>2. QED
        BY <1>0, <3>2, <4>1 DEF Proof
    <3>6. proof.key = t.key /\ proof.n = t.n /\ proof.ring = ring
      OBVIOUS
    <3>7. u = [t EXCEPT !.at = "holding", !.proof = proof]
      BY <2>2 DEF ring
    <3> HIDE DEF proof
    <3>8. u \in AttemptType
      BY <1>0, <3>5, <3>7 DEF AttemptType, Stage
    <3>9. /\ u.at = "holding" /\ u.outcome = t.outcome /\ u.key = t.key /\ u.next = t.next
          /\ u.upto = t.upto /\ u.proof = proof /\ u.began = t.began
          /\ u.wasActive = t.wasActive /\ u.index = t.index
      BY <1>0, <3>7 DEF AttemptType
    <3>10. ProofHeld(u)
      BY <3>2, <3>3, <3>5, <3>6, <3>9 DEF ProofHeld
    <3>11. proof # Unset
      BY <3>5, UnsetAssumption
    <3>12. QED
      BY <3>1, <3>8, <3>9, <3>10, <3>11 DEF Good, Shape, Scanning, Accepted
  <2>3. QED
    BY <1>6, <2>1, <2>2 DEF Proves
<1>7. ASSUME Submits(t, u) PROVE Good(u, ids)
  <2> DEFINE s == serverM(t.proof.n)
  <2>1. t.at = "holding" /\ u = [t EXCEPT !.at = "scan size", !.m = s]
    BY <1>7 DEF Submits
  <2>2. t.proof \in Proof
    BY <1>0, <2>1 DEF Good, Shape
  <2>3. s \in 1..M
    BY <2>2, Parameters DEF Proof
  <2> HIDE DEF s
  <2>4. u \in AttemptType
    BY <1>0, <2>1, <2>3 DEF AttemptType, Stage
  <2>5. /\ u.at = "scan size" /\ u.outcome = t.outcome /\ u.key = t.key /\ u.next = t.next
        /\ u.upto = t.upto /\ u.proof = t.proof /\ u.began = t.began
        /\ u.wasActive = t.wasActive /\ u.index = t.index
    BY <1>0, <2>1 DEF AttemptType
  <2>6. QED
    BY <2>1, <2>4, <2>5 DEF Good, Shape, Scanning, ProofHeld, Accepted
<1>8. ASSUME Verifies(t, u) PROVE Good(u, ids)
  <2>1. CASE u = Ended(t, "aborted") \/ u = Ended(t, "bad proof")
    BY <1>e, <2>1 DEF Outcome
  <2>2. ASSUME copied(t.list, t.proof.n), sameRing(t.proof, t.list), u = Ended(t, "accepted")
        PROVE  Good(u, ids)
    <3>1. t.proof # Unset /\ t.at = "scan"
      BY <1>8 DEF Verifies, ScanOver
    <3>2. /\ t.proof \in Proof /\ t.proof.key = t.key /\ Len(t.proof.ring) = t.proof.n
          /\ \E j \in 1..Len(t.proof.ring) : t.proof.ring[j] = t.key
      BY <3>1 DEF Good, ProofHeld
    <3>3. t.proof.n \in Nat /\ t.proof.n <= Len(t.list)
      BY <1>0, <2>2, <3>2 DEF Proof, copied
    <3>4. t.proof.ring = [j \in 1..t.proof.n |-> t.list[j]]
      <4>1. SubSeq(t.list, 1, t.proof.n) = [j \in 1..t.proof.n |-> t.list[j]]
        BY <1>0, <3>3, Prefix
      <4>2. QED
        BY <2>2, <4>1 DEF sameRing
    <3>5. PICK j \in 1..Len(t.list) : t.list[j] = t.key
      <4>1. PICK j \in 1..t.proof.n : t.proof.ring[j] = t.key
        BY <3>2
      <4>2. j \in 1..Len(t.list)
        BY <1>0, <3>3
      <4>3. QED
        BY <3>4, <4>1, <4>2
    <3>6. PICK order \in [1..Len(t.list) -> t.wasActive] :
            \A i \in 1..Len(t.list) : order[i] < t.next /\ t.list[i] = ids[order[i] + 1].key
      BY <3>1 DEF Good, Scanning, Ordered
    <3>7. order[j] \in t.wasActive /\ ids[order[j] + 1].key = t.key
      BY <3>5, <3>6
    <3>8. QED
      BY <2>2, <3>7, GoodEnding DEF Outcome
  <2>3. QED
    BY <1>8, <2>1, <2>2 DEF Verifies
<1>9. ASSUME Fails(t, u) PROVE Good(u, ids)
  BY <1>9, <1>e DEF Fails, Outcome
<1>10. QED
  BY <1>1, <1>2, <1>3, <1>4, <1>5, <1>6, <1>7, <1>8, <1>9 DEF Moves

\* The end of the bridge spoils no attempt either: it is over.
LEMMA GoodDeath ==
  ASSUME NEW ids, NEW t, Good(t, ids), NEW u, Dies(t, u)
  PROVE  Good(u, ids)
BY GoodEnding DEF Dies, Outcome

-------------------------------------------------------------------------------
(* The invariant, and what follows from it.                                *)

RingInv ==
  /\ TypeOK
  /\ try \in [Attempt -> AttemptType]
  /\ \A p \in Attempt : Good(try[p], idList)

\* Nothing has happened to an untried attempt.
LEMMA GoodIdle == ASSUME NEW ids PROVE Good(untried, ids) /\ untried \in AttemptType
<1>1. <<>> \in Seq(Key) /\ 1 \in 1..M /\ -1 \in Int
  BY RingAssumption
<1>2. untried \in AttemptType
  BY <1>1 DEF untried, AttemptType, Stage, Outcome
<1>3. /\ untried.at = "done" /\ untried.outcome = "none" /\ untried.next = 0 /\ untried.upto = 0
      /\ untried.proof = Unset /\ untried.began = {} /\ untried.wasActive = {}
  BY DEF untried
<1>4. Shape(untried, ids)
  BY <1>2, <1>3 DEF Shape
<1>5. QED
  BY <1>2, <1>3, <1>4 DEF Good, Scanning, ProofHeld, Accepted

\* A transaction of the contract, or none, makes the list a later one.
LEMMA ContractAges ==
  ASSUME TypeOK, [Next]_vars
  PROVE  TypeOK' /\ Later(idList, idList')
<1>1. EntriesStep /\ TypeOK'
  BY EveryStepOnEntries, TypeStep
<1>2. /\ Len(idList') >= Len(idList) /\ idList' \in Seq(ID)
      /\ \A n \in DOMAIN idList :
           idList'[n].key = idList[n].key /\ (idList'[n].active => idList[n].active)
  BY <1>1, EntriesAreFinal
<1>3. idList \in Seq(ID) /\ DOMAIN idList = 1..Len(idList)
  BY DEF TypeOK
<1>4. QED
  BY <1>1, <1>2, <1>3 DEF Later

\* Registrations and revocations are transactions of the contract.
LEMMA ContractSteps == ASSUME contractStep PROVE [Next]_vars
BY DEF contractStep, Next

\* A list is later than itself.
LEMMA LaterSame == ASSUME NEW ids \in Seq(ID) PROVE Later(ids, ids)
BY DEF Later

\* What an invariant of attempts needs to be kept by a step of the system: the
\* list is later, and an attempt stands still, moves against the old list, or
\* ends with the bridge.
LEMMA SystemStep ==
  ASSUME RingInv, [RingNext]_<<vars, try>>
  PROVE  /\ TypeOK' /\ Later(idList, idList')
         /\ try' = [q \in Attempt |-> try'[q]]
         /\ \/ try' = try
            \/ /\ idList' = idList
               /\ \A q \in Attempt : \/ try'[q] = try[q]
                                     \/ Moves(try[q], try'[q], idList)
                                     \/ Dies(try[q], try'[q])
<1>0. try \in [Attempt -> AttemptType]
  BY DEF RingInv
<1>1. CASE contractStep /\ UNCHANGED try
  BY <1>0, <1>1, ContractSteps, ContractAges DEF RingInv
<1>2. ASSUME NEW p \in Attempt, attemptStep(p), UNCHANGED vars
      PROVE  /\ TypeOK' /\ Later(idList, idList') /\ idList' = idList
             /\ try' = [q \in Attempt |-> try'[q]]
             /\ \A q \in Attempt : \/ try'[q] = try[q]
                                   \/ Moves(try[q], try'[q], idList)
                                   \/ Dies(try[q], try'[q])
  <2>1. TypeOK' /\ Later(idList, idList') /\ idList' = idList
    BY <1>2, ContractAges DEF RingInv, vars
  <2>2. CASE \E u : try' = [try EXCEPT ![p] = u] /\ Moves(try[p], u, idList)
    <3>1. PICK u : try' = [try EXCEPT ![p] = u] /\ Moves(try[p], u, idList)
      BY <2>2
    <3>2. try'[p] = u /\ try' = [q \in Attempt |-> try'[q]]
      BY <1>0, <3>1
    <3>3. \A q \in Attempt : q # p => try'[q] = try[q]
      BY <1>0, <3>1
    <3>4. QED
      BY <2>1, <3>1, <3>2, <3>3
  <2>3. CASE Kills(p)
    <3>1. \A q \in Attempt : try'[q] = try[q] \/ Dies(try[q], try'[q])
      BY <2>3 DEF Kills, bridgeDies, inBridge, Dies, Ended
    <3>2. try' = [q \in Attempt |-> try'[q]]
      BY <2>3 DEF Kills, bridgeDies
    <3>3. QED
      BY <2>1, <3>1, <3>2
  <2>4. QED
    BY <1>0, <1>2, <2>2, <2>3, StepMoves DEF RingInv
<1>3. CASE UNCHANGED <<vars, try>>
  BY <1>0, <1>3, ContractAges DEF RingInv
<1>4. QED
  BY <1>1, <1>2, <1>3 DEF RingNext

\* Every step of the system preserves the invariant.
LEMMA RingStep == ASSUME RingInv, [RingNext]_<<vars, try>> PROVE RingInv'
<1> DEFINE ids == idList
           new == idList'
<1>1. TypeOK' /\ Later(ids, new) /\ try' = [q \in Attempt |-> try'[q]]
  BY SystemStep
<1>2. /\ try \in [Attempt -> AttemptType] /\ ids \in Seq(ID)
      /\ \A p \in Attempt : Good(try[p], ids)
  BY DEF RingInv, TypeOK
<1>3. CASE try' = try
  <2>1. \A p \in Attempt : Good(try'[p], new)
    BY <1>1, <1>2, <1>3, GoodLater
  <2>2. QED
    BY <1>1, <1>2, <1>3, <2>1 DEF RingInv
<1>4. ASSUME new = ids,
             \A q \in Attempt : \/ try'[q] = try[q]
                                \/ Moves(try[q], try'[q], ids)
                                \/ Dies(try[q], try'[q])
      PROVE  RingInv'
  <2>1. ASSUME NEW q \in Attempt PROVE Good(try'[q], new)
    <3>1. CASE try'[q] = try[q]
      BY <1>2, <1>4, <3>1
    <3>2. CASE Moves(try[q], try'[q], ids)
      BY <1>2, <1>4, <3>2, GoodMoves
    <3>3. CASE Dies(try[q], try'[q])
      BY <1>2, <1>4, <3>3, GoodDeath
    <3>4. QED
      BY <1>4, <3>1, <3>2, <3>3
  <2>2. \A q \in Attempt : try'[q] \in AttemptType
    BY <2>1 DEF Good, Shape
  <2>3. try' \in [Attempt -> AttemptType]
    BY <1>1, <2>2
  <2>4. QED
    BY <1>1, <2>1, <2>3 DEF RingInv
<1>5. QED
  BY <1>3, <1>4, SystemStep

\* The invariant holds throughout.
LEMMA RingInvariant == RingSpec => []RingInv
<1>1. RingInit => RingInv
  <2> SUFFICES ASSUME RingInit PROVE RingInv
    OBVIOUS
  <2>1. TypeOK
    BY TypeInit DEF RingInit
  <2>2. try = [p \in Attempt |-> untried]
    BY DEF RingInit
  <2>3. QED
    BY <2>1, <2>2, GoodIdle DEF RingInv
<1>2. QED
  BY <1>1, RingStep, PTL DEF RingSpec

\* RingTypeOK: what an attempt has read and holds keeps its types, the indices
\* it remembers exist, and its ring parameter is one of the library's.
THEOREM RingTypes == RingSpec => []RingTypeOK
<1>1. RingInv => RingTypeOK
  <2> SUFFICES ASSUME RingInv, NEW p \in Attempt
               PROVE  TypeOK /\ LET t == try[p]
                      IN  /\ t.at \in Stage
                          /\ t.outcome \in Outcome
                          /\ t.key \in Key \cup {Unset}
                          /\ t.n \in Nat /\ t.upto \in Nat /\ t.next \in 0..t.upto
                          /\ t.m \in 1..M
                          /\ t.list \in Seq(Key)
                          /\ t.proof \in Proof \cup {Unset}
                          /\ t.began \subseteq Indices /\ t.wasActive \subseteq Indices
                          /\ t.at \in {"scan size", "scan", "holding"} => t.index \in Nat
    BY DEF RingInv, RingTypeOK
  <2> DEFINE t == try[p]
  <2>0. TypeOK /\ Good(t, idList)
    BY DEF RingInv
  <2>1. TypeOK /\ Shape(t, idList) /\ Indices = Slots(idList)
    BY <2>0 DEF Good, TypeOK, Indices, Slots
  <2> HIDE DEF t
  <2>2. /\ t.at \in Stage /\ t.outcome \in Outcome /\ t.key \in Key \cup {Unset}
        /\ t.n \in Nat /\ t.upto \in Nat /\ t.next \in Nat /\ t.m \in 1..M
        /\ t.list \in Seq(Key) /\ t.proof \in Proof \cup {Unset} /\ t.next <= t.upto
    <3>1. t \in AttemptType /\ t.next <= t.upto
      BY <2>1 DEF Shape
    <3>2. QED
      BY <3>1 DEF AttemptType
  <2>3. t.next \in 0..t.upto
    BY <2>2
  <2>4. /\ t.began \subseteq Indices /\ t.wasActive \subseteq Indices
        /\ t.at \in {"scan size", "scan", "holding"} => t.index \in Nat
    BY <2>1 DEF Shape
  <2>5. QED
    BY <2>0, <2>2, <2>3, <2>4, Zenon DEF t
<1>2. QED
  BY <1>1, RingInvariant, PTL

\* ScanBetween: the ring an attempt has read lies between the entries active
\* when its scan began and those active still, in index order.
THEOREM ScansBetween == RingSpec => []ScanBetween
<1>1. RingInv => ScanBetween
  <2> SUFFICES ASSUME RingInv, NEW p \in Attempt, scanned(p)
               PROVE  \E order \in [1..Len(try[p].list) -> try[p].wasActive] :
                        /\ \A j \in DOMAIN order : \A k \in 1..(j - 1) : order[k] < order[j]
                        /\ \A j \in DOMAIN order : try[p].list[j] = getIDs(order[j])
                        /\ \A i \in active : i < try[p].upto => \E j \in DOMAIN order : order[j] = i
    BY DEF ScanBetween
  <2> DEFINE t == try[p]
  <2>1. t.at = "scan" /\ t.next = t.upto /\ Good(t, idList)
    BY DEF scanned, RingInv
  <2>2. active = Live(idList) /\ \A i : getIDs(i) = idList[i + 1].key
    BY DEF RingInv, TypeOK, active, Live, Indices, Slots, getState, getIDs
  <2>3. PICK order \in [1..Len(t.list) -> t.wasActive] :
          /\ \A j \in 1..Len(t.list) : \A k \in 1..(j - 1) : order[k] < order[j]
          /\ \A j \in 1..Len(t.list) : order[j] < t.next /\ t.list[j] = idList[order[j] + 1].key
          /\ \A i \in Live(idList) : i < t.next => \E j \in 1..Len(t.list) : order[j] = i
    BY <2>1 DEF Good, Scanning, Ordered
  <2>4. DOMAIN order = 1..Len(t.list)
    BY <2>3
  <2>5. QED
    BY <2>1, <2>2, <2>3, <2>4
<1>2. QED
  BY <1>1, RingInvariant, PTL

\* AcceptedWasActive: a proof is accepted only of a key that some entry, active
\* when the platform began to read, carried.
THEOREM AcceptedAreActive == RingSpec => []AcceptedWasActive
<1>1. RingInv => AcceptedWasActive
  BY DEF RingInv, Good, Accepted, AcceptedWasActive, getIDs
<1>2. QED
  BY <1>1, RingInvariant, PTL

-------------------------------------------------------------------------------
(* Attempts while nobody is revoked.                                       *)

\* Nobody was ever revoked, every key has all its bytes, and the ring is small
\* enough for the loops.
Everyone(ids) ==
  /\ Live(ids) = Slots(ids) /\ Len(ids) <= power[M - 1]
  /\ \A i \in Slots(ids) : ids[i + 1].key \notin ShortKey

\* The attempt's key was listed when it began.
Listed(t, ids) == \E i \in t.began : ids[i + 1].key = t.key

\* list is the first n keys of all.
Whole(list, n, ids) == list = [j \in 1..n |-> ids[j].key]

\* How an attempt may end, or that it has not.
Ends == {"none", "too few", "chain failed", "crashed", "accepted"}

\* The index lies inside the ring read for it, the list is the contract's, and
\* the proof's ring is too; so that reads at different moments fit together.
Steady(t, ids) ==
  /\ t.outcome \in Ends
  /\ t.at \in {"size", "index"} => t.proof = Unset
  /\ t.at \in {"index", "scan size", "scan", "holding"} =>
       t.n <= Len(ids) /\ \E i \in t.began : ids[i + 1].key = t.key /\ i < t.n
  /\ t.at \in {"index", "scan size", "scan"} /\ t.proof = Unset => t.m = bridgeM(t.n)
  /\ t.at \in {"scan size", "scan"} /\ t.proof # Unset => t.m = serverM(t.n)
  /\ t.at \in {"scan size", "scan", "holding"} =>
       t.index < t.n /\ ids[t.index + 1].key = t.key
  /\ t.at = "scan" => t.n <= t.upto /\ Whole(t.list, t.next, ids)
  /\ t.proof # Unset => /\ t.n <= Len(ids)
                       /\ t.proof.n = t.n /\ t.proof.m = bridgeM(t.n)
                       /\ Whole(t.proof.ring, t.n, ids)

Calm(t, ids) == Everyone(ids) /\ Listed(t, ids) => Steady(t, ids)

\* Registrations do not disturb an attempt that stands still, and after a
\* revocation nothing is claimed any more.
LEMMA CalmLater ==
  ASSUME NEW ids, NEW new, Later(ids, new), NEW t, Good(t, ids), Calm(t, ids)
  PROVE  Calm(t, new)
<1> SUFFICES ASSUME Everyone(new), Listed(t, new) PROVE Steady(t, new)
  BY DEF Calm
<1>1. /\ ids \in Seq(ID) /\ new \in Seq(ID) /\ Len(ids) <= Len(new)
      /\ Len(ids) \in Nat /\ Len(new) \in Nat
      /\ \A i \in 1..Len(ids) : new[i].key = ids[i].key /\ (new[i].active => ids[i].active)
  BY DEF Later
<1>2. /\ t \in AttemptType /\ t.began \subseteq Slots(ids) /\ t.next <= t.upto
      /\ t.at \in {"scan size", "scan", "holding"} => t.index \in Nat
      /\ t.at = "scan" => t.upto <= Len(ids)
  BY DEF Good, Shape, Scanning
<1>3. t.n \in Nat /\ t.next \in Nat /\ t.upto \in Nat
  BY <1>2 DEF AttemptType
<1>4. ASSUME NEW i \in Slots(ids)
      PROVE  /\ i + 1 \in 1..Len(ids) /\ new[i + 1].key = ids[i + 1].key
             /\ (new[i + 1].active => ids[i + 1].active)
             /\ i \in Slots(new)
  <2>1. i + 1 \in 1..Len(ids) /\ i \in Slots(new)
    BY <1>1 DEF Slots
  <2>2. QED
    BY <1>1, <2>1
<1>5. Everyone(ids)
  <2>1. \A i \in Slots(ids) : ids[i + 1].active
    BY <1>4 DEF Everyone, Live
  <2>2. power[M - 1] \in Nat
    BY PowerType, RingAssumption
  <2>3. Len(ids) <= power[M - 1]
    BY <1>1, <2>2 DEF Everyone
  <2>4. \A i \in Slots(ids) : ids[i + 1].key \notin ShortKey
    BY <1>4 DEF Everyone
  <2>5. QED
    BY <2>1, <2>3, <2>4 DEF Everyone, Live
<1>6. \A i \in t.began : new[i + 1].key = ids[i + 1].key
  BY <1>2, <1>4
<1>7. Listed(t, ids)
  BY <1>6 DEF Listed
<1>8. Steady(t, ids)
  BY <1>5, <1>7 DEF Calm
<1>9. ASSUME NEW list, NEW n \in Nat, n <= Len(ids), Whole(list, n, ids) PROVE Whole(list, n, new)
  <2>1. \A j \in 1..n : new[j].key = ids[j].key
    BY <1>1, <1>9
  <2>2. [j \in 1..n |-> new[j].key] = [j \in 1..n |-> ids[j].key]
    BY <2>1
  <2>3. QED
    BY <1>9, <2>2 DEF Whole
<1>a. ASSUME t.n <= Len(ids) PROVE t.n <= Len(new)
  BY <1>1, <1>3, <1>a
<1>b. ASSUME t.index \in Nat, t.index < t.n, t.n <= Len(ids) PROVE t.index + 1 \in 1..Len(ids)
  BY <1>1, <1>3, <1>b
<1>10. t.at \in {"index", "scan size", "scan", "holding"} =>
         t.n <= Len(new) /\ \E i \in t.began : new[i + 1].key = t.key /\ i < t.n
  <2> SUFFICES ASSUME t.at \in {"index", "scan size", "scan", "holding"}
               PROVE  t.n <= Len(new) /\ \E i \in t.began : new[i + 1].key = t.key /\ i < t.n
    OBVIOUS
  <2>1. t.n <= Len(ids) /\ \E i \in t.began : ids[i + 1].key = t.key /\ i < t.n
    BY <1>8, Zenon DEF Steady
  <2>2. t.n <= Len(new)
    BY <1>a, <2>1
  <2>3. QED
    BY <1>6, <2>1, <2>2
<1>11. t.at \in {"scan size", "scan", "holding"} =>
         t.index < t.n /\ new[t.index + 1].key = t.key
  <2> SUFFICES ASSUME t.at \in {"scan size", "scan", "holding"}
               PROVE  t.index < t.n /\ new[t.index + 1].key = t.key
    OBVIOUS
  <2>0. t.at \in {"index", "scan size", "scan", "holding"}
    OBVIOUS
  <2>1. t.index \in Nat /\ t.index < t.n /\ t.n <= Len(ids) /\ ids[t.index + 1].key = t.key
    BY <1>2, <1>8, <2>0, Zenon DEF Steady
  <2>2. t.index + 1 \in 1..Len(ids)
    BY <1>b, <2>1
  <2>3. QED
    BY <1>1, <2>1, <2>2
<1>12. t.at = "scan" => t.n <= t.upto /\ Whole(t.list, t.next, new)
  <2> SUFFICES ASSUME t.at = "scan" PROVE t.n <= t.upto /\ Whole(t.list, t.next, new)
    OBVIOUS
  <2>1. t.n <= t.upto /\ Whole(t.list, t.next, ids)
    BY <1>8 DEF Steady
  <2>2. t.next <= Len(ids)
    BY <1>1, <1>2, <1>3
  <2>3. QED
    BY <1>3, <1>9, <2>1, <2>2
<1>13. t.proof # Unset => /\ t.n <= Len(new)
                         /\ t.proof.n = t.n /\ t.proof.m = bridgeM(t.n)
                         /\ Whole(t.proof.ring, t.n, new)
  <2> SUFFICES ASSUME t.proof # Unset
               PROVE  /\ t.n <= Len(new)
                      /\ t.proof.n = t.n /\ t.proof.m = bridgeM(t.n)
                      /\ Whole(t.proof.ring, t.n, new)
    OBVIOUS
  <2>1. /\ t.n <= Len(ids) /\ t.proof.n = t.n /\ t.proof.m = bridgeM(t.n)
        /\ Whole(t.proof.ring, t.n, ids)
    BY <1>8 DEF Steady
  <2>2. t.n <= Len(new)
    BY <1>1, <1>3, <2>1
  <2>3. QED
    BY <1>3, <1>9, <2>1, <2>2
<1>14. QED
  BY <1>8, <1>10, <1>11, <1>12, <1>13 DEF Steady

\* An ending that the property allows leaves nothing else to claim.
LEMMA SteadyEnding ==
  ASSUME NEW ids, NEW t \in AttemptType, Steady(t, ids),
         NEW o \in Ends
  PROVE  Steady(Ended(t, o), ids)
<1> DEFINE u == Ended(t, o)
<1>1. u.at = "done" /\ u.outcome = o /\ u.n = t.n /\ u.proof = t.proof
  BY DEF Ended, AttemptType
<1> HIDE DEF u
<1>2. Steady(u, ids)
  BY <1>1 DEF Steady
<1>3. QED
  BY <1>2 DEF u

\* Every move of an attempt with a listed key is steady.
LEMMA CalmMoves ==
  ASSUME NEW ids \in Seq(ID), NEW t, Good(t, ids), Calm(t, ids), NEW u, Moves(t, u, ids)
  PROVE  Calm(u, ids)
<1> SUFFICES ASSUME Everyone(ids), Listed(u, ids) PROVE Steady(u, ids)
  BY DEF Calm
<1>0. /\ t \in AttemptType /\ Len(ids) \in Nat
      /\ t.began \subseteq Slots(ids) /\ Live(ids) = Slots(ids)
      /\ t.next <= t.upto /\ Slots(ids) \subseteq Nat /\ power[M - 1] \in Nat
      /\ Len(ids) <= power[M - 1]
  <2>1. t \in AttemptType /\ t.began \subseteq Slots(ids) /\ t.next <= t.upto
    BY DEF Good, Shape
  <2>2. Len(ids) \in Nat /\ Slots(ids) \subseteq Nat
    BY DEF Slots
  <2>3. power[M - 1] \in Nat
    BY PowerType, RingAssumption
  <2>4. QED
    BY <2>1, <2>2, <2>3 DEF Everyone
<1>f. /\ t.n \in Nat /\ t.upto \in Nat /\ t.next \in Nat /\ t.list \in Seq(Key)
      /\ t.proof \in Proof \cup {Unset} /\ t.m \in 1..M
  BY <1>0 DEF AttemptType
<1>s. ASSUME NEW j \in 1..Len(ids) PROVE ids[j].key \notin ShortKey
  <2>1. j - 1 \in Slots(ids) /\ (j - 1) + 1 = j
    BY <1>0 DEF Slots
  <2>2. QED
    BY <2>1 DEF Everyone
<1>p. ASSUME NEW n \in Nat, n <= Len(ids)
      PROVE  bridgeM(n) = serverM(n) /\ n <= power[bridgeM(n)]
  <2>1. n <= power[M - 1]
    BY <1>0, <1>p
  <2>2. QED
    BY <2>1, Parameters
<1>1. ASSUME Begins(t, u, ids) PROVE Steady(u, ids)
  <2>1. PICK k \in Key : u = [untried EXCEPT !.at = "size", !.key = k, !.began = Live(ids)]
    BY <1>1 DEF Begins
  <2>2. u.at = "size" /\ u.outcome = "none" /\ u.proof = Unset
    BY <2>1 DEF untried
  <2>3. QED
    BY <2>2 DEF Steady, Ends
<1>2. ASSUME u.began = t.began, u.key = t.key PROVE Steady(t, ids)
  BY <1>2 DEF Calm, Listed
<1>3. ASSUME Sizes(t, u, ids) PROVE Steady(u, ids)
  <2>1. CASE Len(ids) < 2
    <3>1. u = Ended(t, "too few")
      BY <1>3, <2>1 DEF Sizes
    <3>2. u.began = t.began /\ u.key = t.key
      BY <1>0, <3>1 DEF Ended, AttemptType
    <3>3. QED
      BY <1>0, <1>2, <3>1, <3>2, SteadyEnding DEF Ends
  <2>2. CASE ~ (Len(ids) < 2)
    <3> DEFINE b == bridgeM(Len(ids))
    <3>1. u = [t EXCEPT !.at = "index", !.n = Len(ids), !.m = b] /\ t.at = "size"
      BY <1>3, <2>2 DEF Sizes
    <3> HIDE DEF b
    <3>2. /\ u.at = "index" /\ u.outcome = t.outcome /\ u.key = t.key /\ u.proof = t.proof
          /\ u.began = t.began /\ u.n = Len(ids) /\ u.m = b
      BY <1>0, <3>1 DEF AttemptType
    <3>3. t.proof = Unset /\ t.outcome \in Ends
      BY <1>2, <3>1, <3>2 DEF Steady
    <3>4. \E i \in u.began : ids[i + 1].key = u.key /\ i < u.n
      <4>1. PICK i \in u.began : ids[i + 1].key = u.key
        BY DEF Listed
      <4>2. i < Len(ids)
        BY <1>0, <3>2, <4>1 DEF Slots
      <4>3. QED
        BY <3>2, <4>1, <4>2
    <3>5. u.n <= Len(ids)
      BY <1>0, <3>2
    <3>6. QED
      BY <3>2, <3>3, <3>4, <3>5 DEF Steady, b
  <2>3. QED
    BY <2>1, <2>2
<1>4. ASSUME Finds(t, u, ids) PROVE Steady(u, ids)
  <2>1. t.at = "index"
    BY <1>4, Zenon DEF Finds
  <2>2. CASE /\ \A i \in Slots(ids) : ids[i + 1].key # t.key
             /\ u = Ended(t, "not registered")
    <3>1. u.began = t.began /\ u.key = t.key
      BY <1>0, <2>2 DEF Ended, AttemptType
    <3>2. PICK i \in t.began : ids[i + 1].key = t.key
      BY <3>1 DEF Listed
    <3>3. QED
      BY <1>0, <2>2, <3>2
  <2>3. ASSUME NEW i \in Slots(ids), ids[i + 1].key = t.key,
               \A j \in Slots(ids) : ids[j + 1].key = t.key => i <= j,
               u = [t EXCEPT !.at = "scan size", !.index = i]
        PROVE  Steady(u, ids)
    <3>1. /\ u.at = "scan size" /\ u.outcome = t.outcome /\ u.key = t.key /\ u.proof = t.proof
          /\ u.began = t.began /\ u.n = t.n /\ u.m = t.m /\ u.index = i
      BY <1>0, <2>3 DEF AttemptType
    <3>2. Steady(t, ids)
      BY <1>2, <3>1
    <3>3. PICK j \in t.began : ids[j + 1].key = t.key /\ j < t.n
      BY <2>1, <3>2 DEF Steady
    <3>4. i < t.n
      <4>1. i \in Nat /\ j \in Nat /\ i <= j
        BY <1>0, <2>3, <3>3
      <4>2. QED
        BY <1>f, <3>3, <4>1
    <3>5. QED
      BY <2>1, <2>3, <3>1, <3>2, <3>4 DEF Steady
  <2>4. QED
    BY <1>4, <2>2, <2>3 DEF Finds
<1>5. ASSUME Scans(t, u, ids) PROVE Steady(u, ids)
  <2>1. /\ t.at = "scan size"
        /\ u = [t EXCEPT !.at = "scan", !.upto = Len(ids), !.next = 0, !.list = <<>>,
                         !.wasActive = Live(ids)]
    BY <1>5 DEF Scans
  <2>2. /\ u.at = "scan" /\ u.outcome = t.outcome /\ u.key = t.key /\ u.proof = t.proof
        /\ u.began = t.began /\ u.n = t.n /\ u.m = t.m /\ u.index = t.index
        /\ u.upto = Len(ids) /\ u.next = 0 /\ u.list = <<>>
    BY <1>0, <2>1 DEF AttemptType
  <2>3. Steady(t, ids)
    BY <1>2, <2>2
  <2>4. Whole(u.list, u.next, ids)
    BY <2>2 DEF Whole
  <2>5. QED
    BY <2>1, <2>2, <2>3, <2>4 DEF Steady
<1>6. ASSUME Reads(t, u, ids) PROVE Steady(u, ids)
  <2> DEFINE n == t.next + 1
             key == ids[n].key
  <2>1. /\ t.at = "scan" /\ t.next < t.upto /\ t.upto <= Len(ids)
    BY <1>6 DEF Reads, Good, Scanning
  <2>2. n \in 1..Len(ids) /\ t.next \in Slots(ids)
    BY <1>0, <1>f, <2>1 DEF Slots
  <2>3. ids[n].active
    BY <1>0, <2>2 DEF Live
  <2>4. u = [t EXCEPT !.next = n, !.list = Append(t.list, key)]
    BY <1>6, <2>3 DEF Reads
  <2>5. key \in Key
    <3> HIDE DEF n
    <3>1. ids[n] \in ID
      BY <2>2
    <3>2. QED
      BY <3>1 DEF ID
  <2> HIDE DEF n, key
  <2>6. /\ u.at = "scan" /\ u.outcome = t.outcome /\ u.key = t.key /\ u.proof = t.proof
        /\ u.began = t.began /\ u.n = t.n /\ u.m = t.m /\ u.index = t.index
        /\ u.upto = t.upto /\ u.next = n /\ u.list = Append(t.list, key)
    BY <1>0, <2>1, <2>4 DEF AttemptType
  <2>7. Steady(t, ids)
    BY <1>2, <2>6
  <2>8. t.list = [j \in 1..t.next |-> ids[j].key]
    BY <2>1, <2>7 DEF Steady, Whole
  <2>9. Whole(u.list, n, ids)
    <3>1. Len(t.list) = t.next /\ n = t.next + 1
      BY <1>f, <2>8 DEF n
    <3>2. /\ Append(t.list, key) = [j \in 1..(t.next + 1) |->
                                      IF j = t.next + 1 THEN key ELSE t.list[j]]
      BY <1>f, <2>5, <3>1
    <3>3. ASSUME NEW j \in 1..(t.next + 1)
          PROVE  (IF j = t.next + 1 THEN key ELSE t.list[j]) = ids[j].key
      <4>1. CASE j = t.next + 1
        BY <3>1, <4>1 DEF key
      <4>2. CASE j # t.next + 1
        BY <1>f, <2>8, <4>2
      <4>3. QED
        BY <4>1, <4>2
    <3>4. QED
      BY <2>6, <3>1, <3>2, <3>3 DEF Whole
  <2>10. QED
    BY <2>1, <2>6, <2>7, <2>9 DEF Steady
<1>7. ASSUME Proves(t, u) PROVE Steady(u, ids)
  <2> DEFINE ring == RingRead(t)
             proof == [key |-> t.key, n |-> t.n, m |-> t.m, ring |-> ring]
             held == [t EXCEPT !.at = "holding", !.proof = proof]
  <2>1. t.at = "scan" /\ t.next = t.upto /\ t.proof = Unset
    BY <1>7 DEF Proves, ScanOver
  <2>2. u \in {Ended(t, "aborted"), Ended(t, "refused"), held}
    BY <1>7 DEF Proves
  <2>3. u.began = t.began /\ u.key = t.key
    BY <1>0, <2>2 DEF Ended, AttemptType
  <2> HIDE DEF ring, proof, held
  <2>4. Steady(t, ids) /\ t.index \in Nat
    BY <1>2, <2>1, <2>3 DEF Good, Shape
  <2>5. /\ t.m = bridgeM(t.n) /\ t.n <= Len(ids)
        /\ t.outcome \in Ends
    BY <2>1, <2>4 DEF Steady
  <2>5a. t.n <= t.upto /\ t.list = [j \in 1..t.upto |-> ids[j].key]
    BY <2>1, <2>4 DEF Steady, Whole
  <2>5b. t.index < t.n /\ ids[t.index + 1].key = t.key
    BY <2>1, <2>4 DEF Steady
  <2>6. Len(t.list) = t.upto /\ t.n <= Len(t.list)
    BY <1>f, <2>5a
  <2>7. ring = [j \in 1..t.n |-> ids[j].key]
    <3>1. ring = [j \in 1..t.n |-> t.list[j]]
      BY <1>f, <2>6, Prefix DEF RingRead, ring
    <3>2. \A j \in 1..t.n : t.list[j] = ids[j].key
      BY <1>f, <2>5a
    <3>3. QED
      BY <3>1, <3>2
  <2>8. ring[t.index + 1] = t.key
    <3>1. t.index + 1 \in 1..t.n
      <4>1. t.index < t.n
        BY <2>5b
      <4>2. QED
        BY <1>f, <2>4, <4>1
    <3>2. ring[t.index + 1] = ids[t.index + 1].key
      BY <2>7, <3>1, Zenon
    <3>3. QED
      BY <2>5b, <3>2
  <2>9. ~ (t.n > power[t.m])
    <3>1. t.n <= power[t.m]
      BY <1>f, <1>p, <2>5
    <3>2. power[t.m] \in Nat
      <4>1. t.m \in 0..M
        BY <1>f, RingAssumption
      <4>2. QED
        BY <4>1, PowerType
    <3>3. QED
      BY <1>f, <3>1, <3>2
  <2>10. copied(t.list, t.n) /\ ~ outside(t)
    <3>1. ~ outside(t)
      BY <1>f, <2>4, <2>5b DEF outside
    <3>2. ASSUME NEW j \in 1..t.n PROVE t.list[j] \notin ShortKey
      <4>1. j \in 1..t.upto /\ j \in 1..Len(ids)
        BY <1>0, <1>f, <2>5, <2>5a
      <4>2. t.list[j] = ids[j].key
        BY <2>5a, <4>1
      <4>3. QED
        BY <1>s, <4>1, <4>2
    <3>3. QED
      BY <2>6, <3>1, <3>2 DEF copied
  <2>11. u = held
    BY <1>7, <2>8, <2>9, <2>10 DEF Proves, ring, proof, held
  <2>12. /\ u.at = "holding" /\ u.outcome = t.outcome /\ u.proof = proof /\ u.n = t.n
         /\ u.index = t.index
    BY <1>0, <2>11 DEF AttemptType, held
  <2>13. proof.n = t.n /\ proof.m = t.m /\ proof.ring = ring
    BY DEF proof
  <2>14. \E i \in t.began : ids[i + 1].key = t.key /\ i < t.n
    BY <2>1, <2>4 DEF Steady
  <2>15. Whole(u.proof.ring, u.n, ids)
    BY <2>7, <2>12, <2>13 DEF Whole
  <2>16. u.at = "holding" /\ u.proof.n = u.n /\ u.proof.m = bridgeM(u.n)
    BY <2>5, <2>12, <2>13
  <2>17. u.outcome \in Ends /\ u.n <= Len(ids)
    BY <2>5, <2>12
  <2>18. \E i \in u.began : ids[i + 1].key = u.key /\ i < u.n
    BY <2>3, <2>12, <2>14
  <2>19. u.index < u.n /\ ids[u.index + 1].key = u.key
    BY <2>3, <2>5b, <2>12
  <2>20. QED
    BY <2>15, <2>16, <2>17, <2>18, <2>19 DEF Steady
<1>8. ASSUME Submits(t, u) PROVE Steady(u, ids)
  <2> DEFINE s == serverM(t.proof.n)
  <2>1. t.at = "holding" /\ u = [t EXCEPT !.at = "scan size", !.m = s] /\ t.proof # Unset
    BY <1>8 DEF Submits, Good, Shape
  <2> HIDE DEF s
  <2>2. /\ u.at = "scan size" /\ u.outcome = t.outcome /\ u.key = t.key /\ u.proof = t.proof
        /\ u.began = t.began /\ u.n = t.n /\ u.m = s /\ u.index = t.index
    BY <1>0, <2>1 DEF AttemptType
  <2>3. Steady(t, ids)
    BY <1>2, <2>2
  <2>4. s = serverM(t.n)
    BY <2>1, <2>3 DEF Steady, s
  <2>5. QED
    BY <2>1, <2>2, <2>3, <2>4 DEF Steady
<1>9. ASSUME Verifies(t, u) PROVE Steady(u, ids)
  <2>1. t.at = "scan" /\ t.next = t.upto /\ t.proof # Unset
    BY <1>9 DEF Verifies, ScanOver
  <2>2. u \in {Ended(t, "aborted"), Ended(t, "accepted"), Ended(t, "bad proof")}
    BY <1>9 DEF Verifies
  <2>3. u.began = t.began /\ u.key = t.key
    BY <1>0, <2>2 DEF Ended, AttemptType
  <2>4. Steady(t, ids)
    BY <1>2, <2>3
  <2>5. /\ t.n <= t.upto /\ t.list = [j \in 1..t.upto |-> ids[j].key]
        /\ t.m = serverM(t.n) /\ t.n <= Len(ids)
        /\ t.proof.n = t.n /\ t.proof.m = bridgeM(t.n)
        /\ t.proof.ring = [j \in 1..t.n |-> ids[j].key]
    BY <2>1, <2>4 DEF Steady, Whole
  <2>6. Len(t.list) = t.upto /\ t.n <= Len(t.list)
    BY <1>f, <2>5
  <2>7. sameRing(t.proof, t.list)
    <3>1. SubSeq(t.list, 1, t.n) = [j \in 1..t.n |-> t.list[j]]
      BY <1>f, <2>6, Prefix
    <3>2. \A j \in 1..t.n : t.list[j] = ids[j].key
      BY <1>f, <2>5
    <3>3. QED
      BY <2>5, <3>1, <3>2 DEF sameRing
  <2>8. t.m = t.proof.m
    BY <1>f, <1>p, <2>5
  <2>9. copied(t.list, t.proof.n) /\ ~ (t.m > t.proof.m)
    <3>1. ASSUME NEW j \in 1..t.n PROVE t.list[j] \notin ShortKey
      <4>1. j \in 1..t.upto /\ j \in 1..Len(ids)
        BY <1>0, <1>f, <2>5
      <4>2. t.list[j] = ids[j].key
        BY <2>5, <4>1
      <4>3. QED
        BY <1>s, <4>1, <4>2
    <3>2. copied(t.list, t.proof.n)
      BY <2>5, <2>6, <3>1 DEF copied
    <3>3. QED
      BY <1>f, <2>5, <2>8, <3>2
  <2>10. u = Ended(t, "accepted")
    BY <1>9, <2>7, <2>8, <2>9 DEF Verifies
  <2>11. QED
    BY <1>0, <2>4, <2>10, SteadyEnding DEF Ends
<1>10. ASSUME Fails(t, u) PROVE Steady(u, ids)
  <2>1. u = Ended(t, "chain failed")
    BY <1>10 DEF Fails
  <2>2. u.began = t.began /\ u.key = t.key
    BY <1>0, <2>1 DEF Ended, AttemptType
  <2>3. QED
    BY <1>0, <1>2, <2>1, <2>2, SteadyEnding DEF Ends
<1>11. QED
  BY <1>1, <1>3, <1>4, <1>5, <1>6, <1>7, <1>8, <1>9, <1>10 DEF Moves

\* Nor does the end of the bridge claim more than that.
LEMMA CalmDeath ==
  ASSUME NEW ids, NEW t, Good(t, ids), Calm(t, ids), NEW u, Dies(t, u)
  PROVE  Calm(u, ids)
<1>1. t \in AttemptType /\ u = Ended(t, "crashed")
  BY DEF Good, Shape, Dies
<1>2. u.began = t.began /\ u.key = t.key
  BY <1>1 DEF Ended, AttemptType
<1>3. ASSUME Steady(t, ids) PROVE Steady(u, ids)
  BY <1>1, <1>3, SteadyEnding DEF Ends
<1>4. QED
  BY <1>2, <1>3 DEF Calm, Listed

\* RegistrationsDoNotDisturb: while nobody is revoked, every key has all its
\* bytes and the ring is small enough for both loops, an attempt with a listed
\* key is accepted, unless the ring has one key only, a call fails, or the bridge
\* dies under it.
THEOREM NotDisturbed == RingSpec => []RegistrationsDoNotDisturb
<1> DEFINE CalmInv == \A p \in Attempt : Calm(try[p], idList)
<1>1. RingInit => CalmInv
  <2>1. ASSUME NEW ids PROVE Calm(untried, ids)
    BY DEF Calm, Listed, untried
  <2>2. QED
    BY <2>1 DEF RingInit
<1>2. RingInv /\ CalmInv /\ [RingNext]_<<vars, try>> => CalmInv'
  <2> SUFFICES ASSUME RingInv, CalmInv, [RingNext]_<<vars, try>> PROVE CalmInv'
    OBVIOUS
  <2>1. /\ idList \in Seq(ID)
        /\ \A p \in Attempt : Good(try[p], idList) /\ Calm(try[p], idList)
    BY DEF RingInv, TypeOK
  <2>2. Later(idList, idList')
    BY SystemStep
  <2>3. CASE try' = try
    BY <2>1, <2>2, <2>3, CalmLater
  <2>4. ASSUME idList' = idList,
               \A q \in Attempt : \/ try'[q] = try[q]
                                  \/ Moves(try[q], try'[q], idList)
                                  \/ Dies(try[q], try'[q])
        PROVE  CalmInv'
    <3>1. ASSUME NEW q \in Attempt PROVE Calm(try'[q], idList)
      BY <2>1, <2>4, CalmMoves, CalmDeath
    <3>2. QED
      BY <2>4, <3>1
  <2>5. QED
    BY <2>3, <2>4, SystemStep
<1>3. RingInv /\ CalmInv => RegistrationsDoNotDisturb
  <2> SUFFICES ASSUME RingInv, CalmInv, active = Indices, getIDSize <= power[M - 1],
                      \A i \in Indices : getIDs(i) \notin ShortKey,
                      NEW p \in Attempt, \E i \in try[p].began : getIDs(i) = try[p].key
               PROVE  try[p].outcome \in Ends
    BY DEF RegistrationsDoNotDisturb, Ends
  <2>1. Everyone(idList)
    BY DEF RingInv, TypeOK, active, Live, Indices, Slots, getState, getIDs, getIDSize, Everyone
  <2>2. Listed(try[p], idList)
    BY DEF Listed, getIDs
  <2>3. QED
    BY <2>1, <2>2 DEF Calm, Steady
<1>4. QED
  BY <1>1, <1>2, <1>3, RingInvariant, PTL DEF RingSpec

-------------------------------------------------------------------------------
(* What the bridge dies of.                                                *)

\* The index is that of the first entry with the attempt's key.
Found(t, ids) ==
  /\ t.index \in Slots(ids) /\ ids[t.index + 1].key = t.key
  /\ \A i \in Slots(ids) : ids[i + 1].key = t.key => t.index <= i

\* In the bridge, the ring size counts everyone who was active when the attempt
\* began, and the index is that of its key.
Placed(t, ids) ==
  t.proof = Unset =>
    /\ t.at \in {"index", "scan size", "scan"} => \A i \in t.began : i < t.n
    /\ t.at \in {"scan size", "scan"} => Found(t, ids)

\* Entries that join later come after the one that was found.
LEMMA FoundLater ==
  ASSUME NEW ids, NEW new, Later(ids, new), NEW t, Found(t, ids)
  PROVE  Found(t, new)
<1>1. \A i \in 1..Len(ids) : new[i].key = ids[i].key
  BY DEF Later
<1>2. Len(ids) \in Nat /\ Len(new) \in Nat /\ Len(ids) <= Len(new)
  <2>1. ids \in Seq(ID) /\ new \in Seq(ID) /\ Len(ids) <= Len(new)
    BY DEF Later
  <2>2. QED
    BY <2>1
<1>3. /\ t.index \in Slots(ids) /\ ids[t.index + 1].key = t.key
      /\ \A i \in Slots(ids) : ids[i + 1].key = t.key => t.index <= i
  BY DEF Found
<1>4. ASSUME NEW i \in Slots(ids) PROVE i \in Slots(new) /\ new[i + 1].key = ids[i + 1].key
  <2>1. i + 1 \in 1..Len(ids) /\ i \in Slots(new)
    BY <1>2 DEF Slots
  <2>2. QED
    BY <1>1, <2>1
<1>5. t.index \in Slots(new) /\ new[t.index + 1].key = t.key
  BY <1>3, <1>4
<1>6. ASSUME NEW i \in Slots(new), new[i + 1].key = t.key PROVE t.index <= i
  <2>1. CASE i \in Slots(ids)
    BY <1>3, <1>4, <1>6, <2>1
  <2>2. CASE i \notin Slots(ids)
    <3>1. i \in 0..(Len(new) - 1) /\ ~ (i \in 0..(Len(ids) - 1))
      BY <2>2 DEF Slots
    <3>2. t.index \in 0..(Len(ids) - 1)
      BY <1>3 DEF Slots
    <3>3. QED
      BY <1>2, <3>1, <3>2
  <2>3. QED
    BY <2>1, <2>2
<1>7. QED
  BY <1>5, <1>6 DEF Found

\* So a placed attempt stays placed while the list ages.
LEMMA PlacedLater ==
  ASSUME NEW ids, NEW new, Later(ids, new), NEW t, Placed(t, ids)
  PROVE  Placed(t, new)
BY FoundLater DEF Placed

\* Every move keeps an attempt placed.
LEMMA PlacedMoves ==
  ASSUME NEW ids \in Seq(ID), NEW t, Good(t, ids), Placed(t, ids), NEW u, Moves(t, u, ids)
  PROVE  Placed(u, ids)
<1>0. /\ t \in AttemptType /\ t.began \subseteq Slots(ids) /\ Len(ids) \in Nat
      /\ t.at = "holding" => t.proof # Unset
  <2>1. Len(ids) \in Nat
    OBVIOUS
  <2>2. Shape(t, ids)
    BY DEF Good
  <2>3. QED
    BY <2>1, <2>2 DEF Shape
<1>e. ASSUME NEW o, u = Ended(t, o) PROVE Placed(u, ids)
  <2>1. u.at = "done"
    BY <1>0, <1>e DEF Ended, AttemptType
  <2>2. QED
    BY <2>1 DEF Placed
<1>1. ASSUME Begins(t, u, ids) PROVE Placed(u, ids)
  <2>1. u.at = "size"
    BY <1>1 DEF Begins, untried
  <2>2. QED
    BY <2>1 DEF Placed
<1>2. ASSUME Sizes(t, u, ids) PROVE Placed(u, ids)
  <2>1. CASE u = Ended(t, "too few")
    BY <1>e, <2>1
  <2>2. CASE u = [t EXCEPT !.at = "index", !.n = Len(ids), !.m = bridgeM(Len(ids))]
    <3>1. u.at = "index" /\ u.n = Len(ids) /\ u.began = t.began
      BY <1>0, <2>2 DEF AttemptType
    <3>2. \A i \in u.began : i < u.n
      BY <1>0, <3>1 DEF Slots
    <3>3. QED
      BY <3>1, <3>2 DEF Placed
  <2>3. QED
    BY <1>2, <2>1, <2>2 DEF Sizes
<1>3. ASSUME Finds(t, u, ids) PROVE Placed(u, ids)
  <2>1. CASE u = Ended(t, "not registered")
    BY <1>e, <2>1
  <2>2. ASSUME NEW i \in Slots(ids), ids[i + 1].key = t.key,
               \A j \in Slots(ids) : ids[j + 1].key = t.key => i <= j,
               u = [t EXCEPT !.at = "scan size", !.index = i]
        PROVE  Placed(u, ids)
    <3>1. /\ u.index = i /\ u.key = t.key /\ u.began = t.began /\ u.n = t.n
          /\ u.proof = t.proof
      BY <1>0, <2>2 DEF AttemptType
    <3>2. t.at = "index"
      BY <1>3, Zenon DEF Finds
    <3>3. QED
      BY <2>2, <3>1, <3>2 DEF Placed, Found
  <2>3. QED
    BY <1>3, <2>1, <2>2 DEF Finds
<1>4. ASSUME Scans(t, u, ids) \/ Reads(t, u, ids) PROVE Placed(u, ids)
  <2>1. /\ t.at \in {"scan size", "scan"}
        /\ u.index = t.index /\ u.key = t.key /\ u.began = t.began /\ u.n = t.n
        /\ u.proof = t.proof
    BY <1>0, <1>4 DEF Scans, Reads, AttemptType
  <2>2. QED
    BY <2>1 DEF Placed, Found
<1>5. ASSUME Proves(t, u) PROVE Placed(u, ids)
  <2>1. CASE u = Ended(t, "aborted") \/ u = Ended(t, "refused")
    BY <1>e, <2>1
  <2>2. ASSUME NEW proof, u = [t EXCEPT !.at = "holding", !.proof = proof]
        PROVE  Placed(u, ids)
    <3>1. u.at = "holding"
      BY <1>0, <2>2 DEF AttemptType
    <3>2. QED
      BY <3>1 DEF Placed
  <2>3. QED
    BY <1>5, <2>1, <2>2 DEF Proves
<1>6. ASSUME Submits(t, u) PROVE Placed(u, ids)
  <2>1. u.proof # Unset
    BY <1>0, <1>6 DEF Submits, AttemptType
  <2>2. QED
    BY <2>1 DEF Placed
<1>7. ASSUME Verifies(t, u) \/ Fails(t, u) PROVE Placed(u, ids)
  <2>1. \E o : u = Ended(t, o)
    BY <1>7 DEF Verifies, Fails
  <2>2. QED
    BY <1>e, <2>1
<1>8. QED
  BY <1>1, <1>2, <1>3, <1>4, <1>5, <1>6, <1>7 DEF Moves

\* No move of its own makes an attempt one that ended with the bridge.
LEMMA MovesOn ==
  ASSUME NEW ids, NEW t \in AttemptType, NEW u, Moves(t, u, ids), t.outcome # "crashed"
  PROVE  u.outcome # "crashed"
<1>1. ASSUME NEW o, o # "crashed", u = Ended(t, o) PROVE u.outcome # "crashed"
  BY <1>1 DEF Ended, AttemptType
<1>2. ASSUME u.outcome \in {t.outcome, "none"} PROVE u.outcome # "crashed"
  BY <1>2
<1>3. CASE Begins(t, u, ids)
  BY <1>2, <1>3 DEF Begins, untried
<1>4. CASE Sizes(t, u, ids)
  BY <1>1, <1>2, <1>4 DEF Sizes, AttemptType
<1>5. CASE Finds(t, u, ids)
  BY <1>1, <1>2, <1>5 DEF Finds, AttemptType
<1>6. CASE Scans(t, u, ids) \/ Reads(t, u, ids) \/ Submits(t, u)
  BY <1>2, <1>6 DEF Scans, Reads, Submits, AttemptType
<1>7. CASE Proves(t, u)
  <2>1. CASE u = Ended(t, "aborted") \/ u = Ended(t, "refused")
    BY <1>1, <2>1
  <2>2. ASSUME NEW proof, u = [t EXCEPT !.at = "holding", !.proof = proof]
        PROVE  u.outcome # "crashed"
    BY <1>2, <2>2 DEF AttemptType
  <2>3. QED
    BY <1>7, <2>1, <2>2 DEF Proves
<1>8. CASE Verifies(t, u) \/ Fails(t, u)
  BY <1>1, <1>8 DEF Verifies, Fails
<1>9. QED
  BY <1>3, <1>4, <1>5, <1>6, <1>7, <1>8 DEF Moves

\* CrashNeedsLateKey: whenever the bridge goes down, some attempt in it found
\* its key listed, although no entry active when it began had that key.
THEOREM CrashesHaveCause == RingSpec => CrashNeedsLateKey
<1> DEFINE PlacedInv == \A p \in Attempt : Placed(try[p], idList)
           late(q) == /\ scanned(q) /\ try[q].proof = Unset
                      /\ \A i \in try[q].began : getIDs(i) # try[q].key
                      /\ \E i \in Indices : getIDs(i) = try[q].key
           fell == \E p \in Attempt : try[p].at # "done" /\ try'[p].outcome = "crashed"
<1>1. RingInit => PlacedInv
  <2>1. ASSUME NEW ids PROVE Placed(untried, ids)
    BY DEF Placed, untried
  <2>2. QED
    BY <2>1 DEF RingInit
<1>2. RingInv /\ PlacedInv /\ [RingNext]_<<vars, try>> => PlacedInv'
  <2> SUFFICES ASSUME RingInv, PlacedInv, [RingNext]_<<vars, try>> PROVE PlacedInv'
    OBVIOUS
  <2>1. /\ idList \in Seq(ID)
        /\ \A p \in Attempt : Good(try[p], idList) /\ Placed(try[p], idList)
    BY DEF RingInv, TypeOK
  <2>2. Later(idList, idList')
    BY SystemStep
  <2>3. CASE try' = try
    BY <2>1, <2>2, <2>3, PlacedLater
  <2>4. ASSUME idList' = idList,
               \A q \in Attempt : \/ try'[q] = try[q]
                                  \/ Moves(try[q], try'[q], idList)
                                  \/ Dies(try[q], try'[q])
        PROVE  PlacedInv'
    <3>1. ASSUME NEW q \in Attempt, Dies(try[q], try'[q]) PROVE Placed(try'[q], idList)
      <4>1. try'[q].at = "done"
        BY <2>1, <3>1 DEF Dies, Ended, Good, Shape, AttemptType
      <4>2. QED
        BY <4>1 DEF Placed
    <3>2. ASSUME NEW q \in Attempt PROVE Placed(try'[q], idList)
      BY <2>1, <2>4, <3>1, PlacedMoves
    <3>3. QED
      BY <2>4, <3>2
  <2>5. QED
    BY <2>3, <2>4, SystemStep
<1>3. RingInv /\ PlacedInv /\ [RingNext]_<<vars, try>> => [fell => \E q \in Attempt : late(q)]_try
  <2> SUFFICES ASSUME RingInv, PlacedInv, [RingNext]_<<vars, try>>,
                      NEW p \in Attempt, try[p].at # "done", try'[p].outcome = "crashed"
               PROVE  \E q \in Attempt : late(q)
    OBVIOUS
  <2>1. /\ try \in [Attempt -> AttemptType] /\ TypeOK
        /\ \A q \in Attempt : Good(try[q], idList) /\ Placed(try[q], idList)
    BY DEF RingInv
  <2>2. try[p].outcome = "none"
    BY <2>1 DEF Good, Shape
  <2>3. PICK q \in Attempt : attemptStep(q)
    <3>1. try' # try
      BY <2>2
    <3>2. QED
      BY <3>1 DEF RingNext
  <2>4. ASSUME NEW u, try' = [try EXCEPT ![q] = u], Moves(try[q], u, idList) PROVE FALSE
    <3>1. CASE p = q
      <4>1. try'[p] = u
        BY <2>1, <2>4, <3>1
      <4>2. QED
        BY <2>1, <2>2, <2>4, <3>1, <4>1, MovesOn
    <3>2. CASE p # q
      BY <2>1, <2>2, <2>4, <3>2
    <3>3. QED
      BY <3>1, <3>2
  <2>5. Kills(q)
    BY <2>1, <2>3, <2>4, StepMoves
  <2> DEFINE t == try[q]
  <2>6. scanned(q) /\ t.proof = Unset /\ t.at = "scan" /\ t.index >= t.n
    BY <2>5 DEF Kills, scanned, outside
  <2>7. /\ \A i \in t.began : i < t.n
        /\ t.index \in Slots(idList) /\ idList[t.index + 1].key = t.key
        /\ \A i \in Slots(idList) : idList[i + 1].key = t.key => t.index <= i
    BY <2>1, <2>6 DEF Placed, Found
  <2>8. /\ Indices = Slots(idList) /\ \A i : getIDs(i) = idList[i + 1].key
        /\ t.began \subseteq Slots(idList) /\ Slots(idList) \subseteq Nat /\ t.n \in Nat
    <3>1. Indices = Slots(idList) /\ \A i : getIDs(i) = idList[i + 1].key
      BY <2>1 DEF TypeOK, Indices, Slots, getIDs
    <3>2. Shape(t, idList)
      BY <2>1 DEF Good
    <3>3. t.began \subseteq Slots(idList) /\ t.n \in Nat
      BY <3>2 DEF Shape, AttemptType
    <3>4. QED
      BY <3>1, <3>3 DEF Slots
  <2>9. ASSUME NEW i \in t.began, getIDs(i) = t.key PROVE FALSE
    <3>1. i < t.n /\ t.index <= i /\ i \in Nat /\ t.index \in Nat
      BY <2>7, <2>8, <2>9
    <3>2. QED
      BY <2>6, <2>8, <3>1
  <2>10. \E i \in Indices : getIDs(i) = t.key
    BY <2>7, <2>8
  <2>11. QED
    BY <2>6, <2>9, <2>10
<1>4. QED
  BY <1>1, <1>2, <1>3, RingInvariant, PTL DEF RingSpec, CrashNeedsLateKey
===============================================================================
