--------------------------- MODULE IdentityRegistry ---------------------------
(***************************************************************************)
(* The identity contract (contracts/contracts/Veriqid.sol): the on-chain   *)
(* list of master public keys that every anonymity ring is built from, the *)
(* verifier role that may extend it and the owner/admin right to revoke.   *)
(*                                                                         *)
(* The chain executes transactions one at a time, so an external function  *)
(* is one action; a transaction that fails a require leaves the storage    *)
(* alone and is not a step.  View functions are operators of the current   *)
(* storage.  Arrays are zero based in the contract, so entry i of idList   *)
(* is idList[i + 1] here.                                                  *)
(***************************************************************************)
EXTENDS Integers, Sequences, FiniteSets

CONSTANTS
    Address,        \* externally owned accounts that send transactions
    ZeroAddress,    \* address(0): an argument, never a sender
    Key,            \* compressed master public keys, the (id, id33) pairs
    BracketInput,   \* uint8 values passed for the age bracket
    MaxIDs,         \* bound: identities registered in one behaviour
    MaxEvents       \* bound: events emitted in one behaviour

ASSUME AddressAssumption == Address # {} /\ ZeroAddress \notin Address
ASSUME BoundAssumption == MaxIDs \in Nat /\ MaxEvents \in Nat
ASSUME BracketAssumption == BracketInput \subseteq Nat

VARIABLES
    admin,                  \* may manage verifiers and revoke anything
    idList,                 \* every identity ever registered
    nextIndex,              \* counter the contract keeps beside idList
    authorizedVerifiers,    \* addresses mapped to true
    log                     \* events emitted so far, oldest first

vars == <<admin, idList, nextIndex, authorizedVerifiers, log>>

\* Unknown, Under13, Teen, Adult
AgeBracket == 0..3

ID == [key: Key, active: BOOLEAN, owner: Address, ageBracket: AgeBracket]

AnyAddress == Address \cup {ZeroAddress}

Event ==
    [event: {"IDRegistered"}, index: Nat, owner: Address, ageBracket: AgeBracket]
    \cup [event: {"IDRevoked"}, index: Nat, revokedBy: Address]
    \cup [event: {"VerifierAuthorized", "VerifierRemoved"}, verifier: AnyAddress]
    \cup [event: {"AdminTransferred"}, previousAdmin: AnyAddress, newAdmin: AnyAddress]

-------------------------------------------------------------------------------
(* View functions.  The operators whose names end in an underscore and a    *)
(* word are faulty variants, used only to see that the properties notice.  *)

Indices == 0..(nextIndex - 1)

getIDs(i) == idList[i + 1].key
getState(i) == idList[i + 1].active
getOwner(i) == idList[i + 1].owner
getIDSize == nextIndex

\* Entries that carry the key, active or not.
entriesOf(k) == {i \in Indices : getIDs(i) = k}

\* The first entry that carries the key; -1 when there is none.
getIDIndex(k) ==
    IF entriesOf(k) = {} THEN -1
    ELSE CHOOSE i \in entriesOf(k) : \A j \in entriesOf(k) : i <= j

getActiveIDCount == Cardinality({i \in Indices : getState(i)})

\* Mutant of batchEnd: the last index is taken to be inclusive.
batchEnd_inclusive(start, count) ==
    IF start + count >= nextIndex THEN nextIndex ELSE start + count + 1

\* One past the last index of a page.
batchEnd(start, count) ==
    IF start + count > nextIndex THEN nextIndex ELSE start + count

\* The active keys among entries start .. start + count - 1, in index order:
\* what the loop over them has collected after entry i - 1.
collected(start) ==
    LET keys[i \in 0 .. nextIndex] ==
            IF i <= start THEN <<>>
            ELSE IF getState(i - 1) THEN Append(keys[i - 1], getIDs(i - 1))
            ELSE keys[i - 1]
    IN  keys

\* The require of getBatchIDs: a call that starts outside the list reverts,
startsInside(start) == start < nextIndex \/ nextIndex = 0

\* and any other returns the keys of the active entries in its range.
getBatchIDs(start, count) == collected(start)[batchEnd(start, count)]

-------------------------------------------------------------------------------
(* Modifiers and requires.  *)

onlyAdmin(sender) == sender = admin

\* Mutant of onlyVerifier: the admin passes as well, as in VeriqidV2.sol.
onlyVerifier_orAdmin(sender) == sender \in authorizedVerifiers \/ sender = admin

onlyVerifier(sender) == sender \in authorizedVerifiers

\* Mutant of nonZero: the require is missing.
nonZero_unchecked(a) == TRUE

nonZero(a) == a # ZeroAddress

\* Mutant of validBracket: the require is missing.
validBracket_unchecked(bracket) == TRUE

validBracket(bracket) == bracket <= 3

\* Mutant of revocable: an identity may be revoked again.
revocable_again(index) == index < nextIndex

revocable(index) == index < nextIndex /\ getState(index)

\* Mutant of deactivated: `delete idList[index]`, which clears the whole entry.
deactivated_delete(index) ==
    [idList EXCEPT ![index + 1].active = FALSE, ![index + 1].key = 0]

deactivated(index) == [idList EXCEPT ![index + 1].active = FALSE]

-------------------------------------------------------------------------------
(* Transactions.  Every action takes the sender of the transaction first.  *)

emit(e) ==
    /\ Len(log) < MaxEvents
    /\ log' = Append(log, e)

\* constructor
Init ==
    \E deployer \in Address :
        /\ admin = deployer
        /\ idList = <<>>
        /\ nextIndex = 0
        /\ authorizedVerifiers = {deployer}
        /\ log = <<[event |-> "VerifierAuthorized", verifier |-> deployer]>>

authorizeVerifier(sender, verifier) ==
    /\ onlyAdmin(sender)
    /\ nonZero(verifier)
    /\ verifier \notin authorizedVerifiers
    /\ authorizedVerifiers' = authorizedVerifiers \cup {verifier}
    /\ emit([event |-> "VerifierAuthorized", verifier |-> verifier])
    /\ UNCHANGED <<admin, idList, nextIndex>>

removeVerifier(sender, verifier) ==
    /\ onlyAdmin(sender)
    /\ verifier \in authorizedVerifiers
    /\ authorizedVerifiers' = authorizedVerifiers \ {verifier}
    /\ emit([event |-> "VerifierRemoved", verifier |-> verifier])
    /\ UNCHANGED <<admin, idList, nextIndex>>

\* Mutant of transferAdmin: the new admin silently becomes a verifier too.
transferAdmin_alsoVerifier(sender, newAdmin) ==
    /\ onlyAdmin(sender)
    /\ nonZero(newAdmin)
    /\ emit([event |-> "AdminTransferred",
             previousAdmin |-> admin, newAdmin |-> newAdmin])
    /\ admin' = newAdmin
    /\ authorizedVerifiers' = authorizedVerifiers \cup {newAdmin}
    /\ UNCHANGED <<idList, nextIndex>>

\* The verifier roles stay as they are: the new admin does not become a
\* verifier and the old one does not stop being one.
transferAdmin(sender, newAdmin) ==
    /\ onlyAdmin(sender)
    /\ nonZero(newAdmin)
    /\ emit([event |-> "AdminTransferred",
             previousAdmin |-> admin, newAdmin |-> newAdmin])
    /\ admin' = newAdmin
    /\ UNCHANGED <<idList, nextIndex, authorizedVerifiers>>

\* A key that is already listed is accepted again: there is no require on it.
addID(sender, k, bracket) ==
    /\ onlyVerifier(sender)
    /\ validBracket(bracket)
    /\ Len(idList) < MaxIDs
    /\ idList' = Append(idList, [key |-> k, active |-> TRUE,
                                 owner |-> sender, ageBracket |-> bracket])
    /\ nextIndex' = nextIndex + 1
    /\ emit([event |-> "IDRegistered", index |-> nextIndex,
             owner |-> sender, ageBracket |-> bracket])
    /\ UNCHANGED <<admin, authorizedVerifiers>>

revokeID(sender, index) ==
    /\ revocable(index)
    /\ sender = getOwner(index) \/ sender = admin
    /\ idList' = deactivated(index)
    /\ emit([event |-> "IDRevoked", index |-> index, revokedBy |-> sender])
    /\ UNCHANGED <<admin, nextIndex, authorizedVerifiers>>

Next ==
    \E sender \in Address :
        \/ \E a \in AnyAddress :
            \/ authorizeVerifier(sender, a)
            \/ removeVerifier(sender, a)
            \/ transferAdmin(sender, a)
        \/ \E k \in Key, bracket \in BracketInput : addID(sender, k, bracket)
        \/ \E index \in Indices : revokeID(sender, index)

Spec == Init /\ [][Next]_vars

-------------------------------------------------------------------------------
(* Properties. *)

\* Types of the storage and the log, and the comment on nextIndex (line 40):
\* the counter always equals the length of the array beside it.
TypeOK ==
    /\ admin \in AnyAddress
    /\ idList \in Seq(ID)
    /\ nextIndex \in Nat
    /\ authorizedVerifiers \subseteq AnyAddress
    /\ log \in Seq(Event)
    /\ nextIndex = Len(idList)

\* Positions of the events of one kind about one identity.
EventsOf(kind, i) ==
    {j \in DOMAIN log : log[j].event = kind /\ log[j].index = i}

\* The event log tells the whole story of idList to an indexer that reads only
\* events: each entry was announced once, with the owner and bracket it still
\* has; it is inactive exactly when one later IDRevoked names it; and no event
\* names an entry that does not exist.
EventsDescribeIDs ==
    /\ \A i \in Indices : \E j \in DOMAIN log :
        /\ EventsOf("IDRegistered", i) = {j}
        /\ log[j].owner = idList[i + 1].owner
        /\ log[j].ageBracket = idList[i + 1].ageBracket
        /\ IF getState(i)
           THEN EventsOf("IDRevoked", i) = {}
           ELSE \E r \in DOMAIN log : r > j /\ EventsOf("IDRevoked", i) = {r}
    /\ \A j \in DOMAIN log :
        log[j].event \in {"IDRegistered", "IDRevoked"} => log[j].index \in Indices

\* The roles as an indexer computes them from the events before position j.
VerifierBefore(a, j) ==
    \E g \in 1..(j - 1) :
        /\ log[g] = [event |-> "VerifierAuthorized", verifier |-> a]
        /\ \A h \in (g + 1)..(j - 1) :
            log[h] # [event |-> "VerifierRemoved", verifier |-> a]

\* The constructor makes the deployer admin without an AdminTransferred event;
\* the deployer is the verifier of the first event.
AdminBefore(a, j) ==
    \/ \E g \in 1..(j - 1) :
        /\ log[g].event = "AdminTransferred"
        /\ log[g].newAdmin = a
        /\ \A h \in (g + 1)..(j - 1) : log[h].event # "AdminTransferred"
    \/ /\ \A g \in 1..(j - 1) : log[g].event # "AdminTransferred"
       /\ a = log[1].verifier

\* Replaying the log gives the current roles: who is admin and who may add.
EventsDescribeRoles ==
    /\ \A a \in AnyAddress : AdminBefore(a, Len(log) + 1) <=> a = admin
    /\ \A a \in AnyAddress :
        VerifierBefore(a, Len(log) + 1) <=> a \in authorizedVerifiers

\* Every entry of the log was legitimate when it was written, judged by the
\* roles in force at that moment: only a verifier of that time registered, and
\* only the owner or the admin of that time revoked.  Later removals of a
\* verifier or transfers of the admin role do not excuse or taint old entries.
AuditTrailSound ==
    \A j \in DOMAIN log :
        /\ log[j].event = "IDRegistered" => VerifierBefore(log[j].owner, j)
        /\ log[j].event = "IDRevoked" =>
            \/ AdminBefore(log[j].revokedBy, j)
            \/ \E g \in EventsOf("IDRegistered", log[j].index) :
                g < j /\ log[g].owner = log[j].revokedBy

\* Neither transferAdmin nor authorizeVerifier can hand a role to address(0),
\* so every active identity always has somebody able to revoke it.
RolesNeverLost ==
    /\ admin # ZeroAddress
    /\ ZeroAddress \notin authorizedVerifiers

\* What a client has read after each page of getBatchIDs.
pages(size) == (nextIndex + size - 1) \div size

readByPage(size) ==
    LET read[p \in 0 .. pages(size)] ==
            IF p = 0 THEN <<>> ELSE read[p - 1] \o getBatchIDs((p - 1) * size, size)
    IN  read

\* A client that reads the ring page by page with getBatchIDs has no call
\* reverted and gets what one call for the whole list returns, whatever the page
\* size, and as many keys as getActiveIDCount reports.
BatchesCoverRing ==
    LET whole == getBatchIDs(0, nextIndex)
    IN  /\ Len(whole) = getActiveIDCount
        /\ startsInside(0)
        /\ \A size \in 1..(nextIndex + 1) :
            /\ \A p \in 1..pages(size) : startsInside((p - 1) * size)
            /\ readByPage(size)[pages(size)] = whole

\* Entries are append only and final but for the active flag, and the active
\* flag only ever falls: a revoked identity is never reinstated.
RecordsAreFinal ==
    [][/\ Len(idList') >= Len(idList)
       /\ \A n \in DOMAIN idList :
            /\ idList'[n].key = idList[n].key
            /\ idList'[n].owner = idList[n].owner
            /\ idList'[n].ageBracket = idList[n].ageBracket
            /\ idList'[n].active => idList[n].active]_vars

\* The index a key is known by never changes once it has one, although the key
\* may be registered again or revoked: contract_index values kept by servers
\* stay meaningful.
IndexStable ==
    [][\A k \in Key : getIDIndex(k) # -1 => getIDIndex(k)' = getIDIndex(k)]_vars

\* revokeID is documented to revoke "the ENTIRE identity across all platforms"
\* (Veriqid.sol:145): once a key is revoked, rings no longer contain the key.
RevokedKeyLeavesRing ==
    [][\A i \in Indices :
        getState(i) /\ ~getState(i)' =>
            \A j \in Indices' : getIDs(j)' = getIDs(i) => ~getState(j)']_vars

\* The contract implements its promise: slots, active entries and revoked
\* entries are the promise's issued, ring and retired.
Entries(flag) ==
    {[index |-> i, key |-> getIDs(i)] : i \in {i \in Indices : getState(i) = flag}}

Promise == INSTANCE RegistryPromise WITH
    issued <- nextIndex, ring <- Entries(TRUE), retired <- Entries(FALSE)

ImplementsPromise == Promise!Spec

===============================================================================
