# Veriqid in TLA+

Models, model-checking runs and machine-checked proofs for Veriqid: a system in
which a parent registers a child's key in a smart contract, and the child signs
up on platforms with a ring signature that shows membership in the contract's
list without telling which member it is.

Every module is written from the code in `src/`; where code and documentation
disagree the module follows the code, and a run shows the difference.

## 1. The system

| part | state it keeps | operations | talks to |
| --- | --- | --- | --- |
| Identity contract, `contracts/contracts/Veriqid.sol` | `idList`, `nextIndex`, `admin`, `authorizedVerifiers`, event log | `addID`, `revokeID`, role changes, views | called by everything below through `pkg/u2sso/u2ssolib.go` |
| Parent portal, `cmd/veriqid-server/main.go` (`handleAddChild`, `handleVerifyApprove`, `handleRevokeChild`), `internal/store/parent_store.go` | table `children` | add, approve, revoke a child | sends `addID` from the server's Ethereum account, then updates SQLite |
| Platform server, `cmd/veriqid-server/main.go` (`Handle*`), `internal/store/sqlite.go`, `internal/session/session.go`, `pkg/ve_asc/nullifier.go` | tables `challenges`, `users`; sessions and nullifier registries in memory | challenge, sign-up, login, logout, registration API, clean-ups | reads the ring from the contract |
| Ring signature library, `crypto-dbpoe/src` (C) | contexts with their generators, tables and blinding; scratch spaces; aggregation contexts | ring proofs, service keys, commitments, range and surjection proofs, whitelists, aggregated signatures, ECDSA and Schnorr | called by bridge, server and client through cgo, ring proofs only |
| Bridge, `bridge/bridge.go` | key files, a Merkle tree in memory | create identity, register, authenticate | reads the contract, proves with the C library |
| VE-ASC, `pkg/ve_asc` | Merkle tree, revocation tree, nullifier registry | insert, prove, verify, revoke | used by bridge and server |
| Extended contract, `VeriqidV2.sol` | identities, nullifiers, roots, epochs | `addID`, `registerNullifier`, `updateMerkleRoot`, ... | no Go code calls it yet |
| Demo platform, `cmd/demo-platform/main.go` | own `challenges`, `users`; sessions | sign-up, login, revocation look-up | contract; reports activity to the server |
| Parent accounts, `internal/parent`, `internal/session/parent_session.go` | parents, one-time codes, 24 h sessions | register, login, codes | SQLite |
| Phase-1 server and client, `cmd/server`, `cmd/client` | slice `registeredSPK` | sign-up, login | contract |
| Browser extensions, dashboards | form state, local storage | fill forms, poll | bridge, server |

Interaction. Nothing is shared but the contract, SQLite and the memory of one
server process. A server runs one goroutine per HTTP request, takes no lock
across two statements or calls, and trusts what it read. The contract changes
under everybody: each call to the node sees the chain of that moment.

What is hard:

* *two stores, no transaction*: an approval sends a transaction and then
  updates a row; calls fail, processes stop, requests overlap;
* *no receipts*: a sent transaction may be mined later, or fail;
* *reads without a snapshot*: ring, size and index come from separate calls;
* *check, then act*: account and nullifier are looked up and entered in
  separate steps;
* *two lifetimes*: accounts and challenges survive a restart, nullifiers and
  sessions do not;
* *clocks*: challenges are timed by two clocks in two notations;
* *one process for all*: a panic ends one request, but a check of the C library
  that fails ends the bridge and every request in it.

`PROJECT.json` lists these as hazards, each at its line, with the properties
that answer to it.

What makes each part correct:

| part | properties |
| --- | --- |
| contract | records are append only and final; an index is for ever; events tell the whole story; every entry was legitimate when made; roles are never lost; pages add up to the ring |
| extended contract | a root serves exactly its time; the same ring is promised as by the first contract |
| bridge's tree | each place proves its leaf; the answer to a registration proves the key's own leaf |
| portal | an index in SQLite is the child's own; an approval that no other overlaps and nothing breaks off registers its child once; a key is lost only for known causes; nonces leave no gap and accepted transactions are mined; a revocation is final |
| platform | a challenge serves once, and in time; an account comes of one challenge and a challenge makes one account; a session has an account; without overlapping requests a nullifier admits once under a name |
| rings | a revoked key is not let in; registrations of others spoil no attempt; the bridge dies only of an attempt that came before its key was listed; prover and verifier agree on ring, position and parameter |
| library: proofs | what an owner makes is accepted; what is accepted was made by an owner, for these inputs; what is rewound is what was hidden |
| library: arithmetic | every way to a product gives the same point; limbs hold the number they stand for; scratch frames keep their word |
| library: formats | what is written is read back, by the strict and the lax reader alike |

## 2. Modules

| module | models | composed of |
| --- | --- | --- |
| `IdentityRegistry` | `Veriqid.sol`: one action per transaction, views as operators | |
| `RegistryPromise` | the abstract ring: slots issued in order, a member leaves once | implemented by `IdentityRegistry` |
| `ParentPortal` | a child's life in SQLite and in the contract, the server's transactions and the node's pool | extends `IdentityRegistry` |
| `PlatformServer` | sign-up, login, API, nullifiers, sessions | |
| `PlatformServerProofs` | theorems about the platform | extends `PlatformServer` |
| `RingProofs` | how a proof is made and judged while the contract changes | extends `IdentityRegistry` |
| `RegistryProofs` | theorems about the contract, its events and its pages, and about the portal and rings, the two that work on it | extends `ParentPortal`, `RingProofs` |
| `V2Parameters`, `VeriqidV2` | `VeriqidV2.sol`, with the history of roots | second implementation of `RegistryPromise` |
| `VeriqidV2Proofs` | theorems about the extended contract | extends `VeriqidV2` |
| `MembershipTree` | `pkg/ve_asc/merkle.go` as operators | |
| `BridgeTree` | `HandleCreateIdentity` and the tree it fills, with `HandleRegister`'s Merkle proof | extends `MembershipTree` |
| `MCContracts` | the contract, the extended contract and the tree side by side | extends `IdentityRegistry` and `BridgeTree`, instantiates `VeriqidV2Proofs` (the extended contract with its theorems) |
| `ContractsProofs` | theorems about the tree and the answers made from it, and about the three side by side | extends `MCContracts` |
| `PrimeGroup` | scalars and points as the library's headers promise them | |
| `RingCip`, `RingSession` | `modules/ringcip`: the proofs, and one use of them from end to end | extend `PrimeGroup` |
| `Commitments`, `RangeProof`, `ListProofs` | `modules/generator`, `commitment`, `rangeproof`, `surjection`, `whitelist` | each extends the one before |
| `Aggsig` | `modules/aggsig` | extends `PrimeGroup` |
| `CurveGroup`, `Scratch`, `EcMult` | `group_impl.h`, `scratch_impl.h`, the `ecmult*_impl.h` | `EcMult` extends both |
| `DerCodec`, `Signatures` | `ecdsa_impl.h`, `eckey_impl.h`, `secp256k1.c`, `modules/recovery`, `schnorrsig`, `ecdh` | extend `EcMult` |
| `FieldLimbs`, `ScalarLimbs` | `field_10x26_impl.h`, `scalar_8x32_impl.h` | |
| `LibraryProofs` | theorems about the scratch space, the batches of sums and the tally of commitments; the lemmas on scalars, sums and points | extends `EcMult`, `Commitments` |
| `BorromeanProofs` | theorems about range proofs and proofs over lists | extends `LibraryProofs`, `ListProofs` |
| `SignatureProofs` | theorems about ECDSA signatures on the wire | extends `Signatures`, `LibraryProofs` |
| `ProtocolProofs` | the ring proofs are complete, and so are the signatures of several signers | extends `RingSession`, `Aggsig`, `LibraryProofs` |
| `MCSecp256k1` | the library's components side by side, with hashes and jobs | extends all of them |
| `MC...` | the other instances for TLC: symmetry and the few values a `.cfg` cannot hold | |

An operator `name_word` next to a definition `name` is a faulty variant of it
(a dropped guard, a shifted bound). No specification uses it; it exists to see
that a property notices the fault, and `PROJECT.json` pairs the two.

### IdentityRegistry

The contract's storage is the five variables; its `log` is the events. The
chain runs transactions one at a time, so a transaction is one action; a
transaction that fails a `require` changes nothing and is no step. Keys are
model values standing for the pair `(id, id33)`. `EventsDescribeIDs`,
`EventsDescribeRoles` and `AuditTrailSound` replay the log as
`handleGetEvents` (main.go:1359) does. `ImplementsPromise` is the refinement:
slots, active entries and revoked entries are `issued`, `ring` and `retired`.

### ParentPortal

`children` is the table, `req` the goroutines, `pool` and `accountNonce` the
node's view of the server's account. An approval is the chain
`approveRead`, `readNonce`, `sendTx`, `lookupIndex`, `markChildVerified`: the
status check of main.go:1229, the calls of `AddIDstoIdR` in their order
(u2ssolib.go:364-413) and the UPDATE of parent_store.go:177. A revocation is
`revokeRead` and `markChildRevoked`. Every call may fail, `sendTx` also after
the node has taken the transaction, and `crash` drops all goroutines.
`mine` executes the next transaction whenever it likes; a node that mines at
once, as Ganache does by default, is the case with no step in between.
`outsider` is everything other accounts do: role changes, foreign keys,
revocations. `undisturbed` is a history variable: the children whose approvals
have neither overlapped nor broken off once the transaction was out.

### PlatformServer

A request is a record in `req` that runs through the stages of
`HandleSignupSubmit` (main.go:232), `HandleLoginSubmit` (399) or
`HandleAPIVerifyRegistration` (578). `ValidateChallenge` is one step since it
is one UPDATE. The nullifier part is four: reading the map of registries,
making an entry, `Check`, and `Register`, with the error of the last dropped
as in the code. Times: `clock` is UTC, `created` is stamped in UTC, and the
WHERE clauses compare it with `localTime`, which is what the driver writes for
a Go time. The outcome of the proof check is a choice, except that nobody
outside the ring passes.

One platform is modelled, and what clients send is taken as it comes. A
pseudonym is the string in the form (`SpkHex`): the identity and the service name
it was derived from, and a spelling, which stands for upper and lower case and for
whatever follows the first 33 bytes. `users` is keyed by that string (main.go:271,
367) while the proof is checked for the bytes it decodes to, and the form's service
name is compared with nothing (main.go:250), so that an identity may have an
account under each of its strings: no property claims one account per identity.
A nullifier is a value of the form, which nothing ties to the proof; the form
handler enters it under the platform's own name, the API under the name it is
sent (`Name`, main.go:651). What the properties say of nullifiers is said of values
and names, not of people. A login is told "expired or already used" when the store
fails too (main.go:423), a sign-up is not, and `FreshChallengeAccepted` speaks of
sign-ups only. After a nullifier the form handler may panic where it logs its first
16 digits (main.go:351); the account is then not made.

### RingProofs

An attempt reads the size, the index and then the ring, one call at a time
(bridge.go:559-598, u2ssolib.go:447-479), makes a proof, and the platform reads
the ring again and verifies. A proof is the key, the ring and the parameter it
was made with; it verifies against the same ring and parameter only. `bridgeM`
and `serverM` are the two variants of the parameter loop.

The lengths and bounds the Go and C code rely on are modelled as they fail. A slice
out of range in Go is a panic, which `net/http` confines to its request (`aborted`).
So it is when the first n keys cannot be copied with all their bytes (`copied`):
the list is too short, or it holds a key of `ShortKey`, whose leading zero bytes
`Bytes()` dropped (u2ssolib.go:467). A failed check of the library is no panic:
`ARG_CHECK(index < ring_size)` (ring_impl.h:292) calls `abort()`, which ends the bridge
process with every attempt in it (`bridgeDies`, outcome `crashed`). The attempts of
a run share one bridge; those that only wait for a platform outlive it.

### VeriqidV2

As in `IdentityRegistry`, a transaction is an action and a failed `require` no
step; events are left out. `onlyVerifier` lets the admin pass, a verifier may be
authorized twice or be address(0), and `addIDLegacy` puts the bracket where the
commitment goes. `trimmed` is the shift and `pop` of lines 262-268. `replaced` is
a history variable: the roots that were replaced, oldest first, which the
contract forgets. `V2Parameters` holds what this contract is parameterised by
beside accounts and keys, so that an instance next to the first contract can
share it.

### MembershipTree, BridgeTree

A tree is the record of its fields. A hash is the tuple of what went into it, so
that leaves, pairs and empty nodes differ as their prefixes make them differ; a
level's arithmetic on array indices is the code's. `above` is the way from a node
to the root that both `updatePath` and `GenerateProof` walk.

`listed` is the keys of the contract's entries. A creation is a record in
`creating` that runs through `HandleCreateIdentity` (bridge.go:372): the
transaction is sent, mined, the index looked up, and then the tree's `Insert`
in the steps that another goroutine may come between, since nothing locks it:
the comparison with the capacity (`hasRoom`), the append to the slice of leaves
(`appended`, with the slice read before it), the leaf and its path (`placed`),
and `size++`, which reads and writes (`grown`). An index beyond the array is a
panic, which the HTTP server turns into the end of that request.
`HandleRegister` takes the root, then the index, then the proof. `outsider` adds
keys the bridge does not know of and `restart` empties the tree. `torn` and
`disturbed` are history variables that say when the properties promise nothing.

### The library

The library is modelled in layers, each over what the headers of the one below
promise. At the bottom `FieldLimbs` and `ScalarLimbs` are the portable
representations limb by limb, with the widths of their words: every function
that changes an element is an action or an operator of a register that goes
through legal calls. `CurveGroup` has the formulas over field elements that are
numbers, with each special case (equal, opposite, infinite, and the degenerate
case of the branchless addition). `EcMult` has the recodings, the tables, and
the algorithms of Strauss, Pippenger and the two constant-time products, with
and without the endomorphism, and the batches that share a scratch space.
`Scratch` keeps with each frame what its user asked for. `DerCodec` and
`Signatures` are the interface: keys, tweaks, signatures in every form.

Above `PrimeGroup` a point is the tuple of its coordinates over independent
generators, so that two points are equal exactly when nobody's secret is needed
to say so. `RingCip` has the ring proofs of `ringcip` as the bridge and the
server use them: contexts, master keys, service keys, one-out-of-many proofs with
and without topics, proofs of possession. `RingSession` is one use: a job says
who proves what, with which numbers drawn; the proof is made, handed over as it
is or next to inputs that differ from the prover's (`altered`), and checked. The
other modules of this layer are built alike: a job, the steps of the protocol,
what the verifier says.

A hash is a constant, given for TLC as a function that no two inputs in use
share (`Digest`), and for the small curve one that is often out of range and
sometimes zero (`SmallDigest`). What is sampled is part of the job.

## 3. Runs

| run | asks | bounds | states |
| --- | --- | --- | --- |
| `registry` | all of the contract's properties and the refinement; the same promise of the extended contract, and its roots; the bridge's tree | contract: 2 accounts, 2 keys, valid and invalid bracket, 3 entries, 7 events; extended: 2 identities, 2 roots, history of 2, clock to 2, 5 transactions; tree: 4 leaves, 5 entries, 2 creations and a registration at a time | 1.1 million |
| `registry_reregister` | does a revoked key leave the rings? *violated* | 1 account, 2 keys | |
| `portal` | portal safety | 2 children and a foreign key, 2 requests, 2 pending transactions, 2 outside events | 1.6 million |
| `portal_live` | is what the node accepted mined? | 1 child, 2 requests, 3 transactions, an outsider | 53 thousand |
| `portal_revoke_final` | is a revocation final? *violated* | 1 child, 2 requests | |
| `platform` | platform safety: sign-ups, challenges, sessions; nullifiers while no requests overlap | 1 identity with 2 key strings, 1 nullifier, 2 names, 2 challenges, 2 requests, clock to 2 | 1.1 million |
| `platform_race` | does a nullifier admit once in any case? *violated* | 1 nullifier, 1 name, 2 requests | |
| `platform_zone` | do challenges expire? *violated* | 1 request, server west of UTC | |
| `ring` | what an accepted proof means while the contract changes; what the bridge dies of | 3 keys (one short); 1 attempt, 4 entries, 7 events, or 2 attempts, 3 entries, 4 events | 3.7 million |
| `ring_index` | is the index the position in the ring? *violated* | 1 attempt, 3 entries | |
| `ring_limit` | do rings up to the stated limit work? *violated* | N = M = 2, 3 keys | |
| `library` | does each part of the library do what its header says? | see below | 53 thousand |

Why the bounds are enough. The contract's properties relate at most two
entries and an event before and after each: three entries and seven events
hold a key registered twice, a revocation by owner and by admin, and a role
that goes and comes. A race in a handler needs two requests, and a third adds
no new pair. Two children are needed for requests that do not disturb each
other. `MaxTx` lets two transactions wait at once, or three for liveness. A
challenge is good for one tick and kept for one more, so that the clock reaches
the moments before, at and after each limit. `N` and `M` are small so that the
limits `N^(M-1)` and `N^M` are within reach of three or four entries. Two attempts
are enough for the bridge they share, since one that ends it ends all others
alike; three entries are one more than the smallest ring, and four events
register two keys for the ring and one that comes too late. Two key
strings of one identity stand for any two, whether spelling or service name parts
them, since `users` compares strings only; two names do the same for the
registries.

Two instances bound what meets what in one behaviour. `Apart` (`MCPlatformServer`)
lets a behaviour turn to nullifiers at the first moment and with one challenge
only, since nullifiers look at neither clock nor challenges; a restart forgets
them, and then time goes on. `Shorter` (`MCRingProofs`) gives the contract
`SharedIDs` entries and `SharedEvents` events once a second attempt has begun,
while an attempt on its own meets the longer history.

In `registry` the three components share nothing, so that a behaviour is one of
one of them; their states add up instead of multiplying. Four leaves are two
levels, with left and right children on each; five entries are one more than
fit. A history of two roots is full after three updates, and five transactions
bring the first root back after it was dropped. `TreeNext` begins no creation
once two insertions have overlapped: the property promises nothing of such a
tree until a restart has dropped it.

`library` holds ten components in the same way. The proofs are over the prime
order 46337, as large as TLC's 32-bit products allow, so that a chance collision
does not pass for an acceptance: rings of one to four keys with a key at each
place or at none, with a topic or without, amounts of six bits in range proofs.
Products and signatures are over y^2 = x^3 + 7 modulo 43, which has 31 points and
an endomorphism: all points and scalars meet, among them the sums that the
formulas treat apart, which on the real curve nobody ever sees. The field has
five limbs of five bits and the scalars eight words of three, with a modulus of
the form of the real one (2^24 - 39 need not be prime, since inverses and roots
are left to `CurveGroup`).
A signer draws 31 nonces at most (`MaxDraws`, where the code goes on while its nonce
function does), which the hash of the run never needs; `SignaturesVerify` says so.
The words are as much wider than the limbs as the real ones, so that a missing
carry shows.

Deadlock is not checked where bounds stop the behaviours (entries, events,
transactions, clock) or where everybody may have been revoked; the code has
nothing that blocks on another request.

Fairness is assumed in `portal_live` only. `FairPortalSpec` lets each handler
that can go on go on (goroutines are scheduled, and each call to the node or to
SQLite returns, if with an error) and lets the node mine what it can. Nobody is
assumed to send requests, crash or refrain from crashing.

## 4. Where code and documents disagree

* **A revoked key may stay in the rings** (`registry_reregister`). `addID` takes
  a key that is already listed, and `revokeID` clears one entry.
* **A revocation is not final** (`portal_revoke_final`). `MarkChildVerified`
  does not look at the status; the slower of two approvals reinstates.
  `ReinstatedByOlderApproval` shows that this is the only way.
* **A nullifier may admit twice** (`platform_race`), when two requests overlap.
  `NullifierAdmitsOnceAlone` shows that without an overlap a value is let through
  once under one name in one life of the server. That is all the registry
  sees to: the value is what the form says, and another value, or on the API
  another spelling of the name, is another entry.
* **Challenges may not expire** (`platform_zone`), west of UTC; east of UTC
  every challenge is refused. `platform` is checked for a server that runs in UTC;
  the theorems of section 5 hold in every zone but for `FreshAccepted`.
* **The index is not the position** (`ring_index`), after any revocation: the
  ring is then also shorter than the size the bridge uses it with, the request
  panics, and nobody can register.
* **Half of the stated maximum** (`ring_limit`): above 512 keys the loops fall
  through, with different results on the two sides.

Seen while reading, and not given a run because they follow from a line or two:

* `handleRevokeChild` does not call `revokeID` (main.go:1336).
* An approval answers "registered on-chain" with index -1 when the transaction
  was not mined yet or was refused by the contract (main.go:1274).
* The bridge may go down instead of answering, where a guide's list of checks says
  "no crashes" (PHASE2_DETAILED_GUIDE.md:880). An attempt that begins before its
  key is listed and finds it listed when it asks for the index may have an index not
  below the size it read, and the library aborts the process. `CrashNeedsLateKey`
  shows that every crash has such an attempt behind it.
* An identity may have several accounts: under another spelling of its key's
  hex, with bytes after the 33rd (main.go:271, 367, u2ssolib.go:233), or under
  another service name, which the form handler does not compare with its own
  (main.go:250, 326). The nullifier that should prevent it is a form value that is
  not part of the proof (main.go:335, 648).
* A listed key with a leading zero byte comes back shorter (u2ssolib.go:467), and
  the loops that copy 33 bytes panic in every attempt to prove or verify with a ring
  that includes it. `addID` takes such a key, `CreateID` makes none.
* Nullifiers are in memory only (main.go:144), so they last until a restart.
* A nullifier is taken before the account is inserted (main.go:350, 367): when
  the insertion fails the next attempt is told that it "has already registered".
* A login does not look at the contract (main.go:429).
* In the VE-ASC package: `verifyRangeProof` and `VerifySelectiveDisclosure`
  (attributes.go) never check the responses against the commitment; a "not
  expired" predicate is marked proven unchecked; the revocation tree inserts in
  the order of revocation, not at the identity's position.
* The server calls a Merkle proof verified when its tree is not empty
  (main.go:668). Only siblings are sent with it, not directions.
* `HandleRegister` takes the contract's index for the place in the tree, "if this
  identity is in the tree" (bridge.go:640). They part after other users'
  registrations, a restart, creations that overlap, or an index that was asked
  for too early. Two overlapping insertions may lose a leaf, grow the size beyond
  the capacity or panic; `answersOwnLeaf` says when the proof is right.
* `getIDIndex` returns -1 instead of reverting, so that `AddIDstoIdR` returns -1
  without an error and its caller goes on.
* `VeriqidV2.sol`: the zero root is valid before the first update; a larger
  `setEpochDuration` lets the epoch number fall.
* In the library's ring proofs: only the last number drawn has its overflow flag
  looked at (ring_impl.h:317-339); `topic_index` must be below `topic_size`, so
  that the last topic can never be proven; `serialize_cint` copies in the wrong
  direction (ring_impl.h:214); the header says that a master secret has 64 bytes
  and the code reads 32; infinity has no valid encoding; the random generator is
  a static variable that nothing locks (ring_impl.h:16), and Go never clears a
  ring context.
* In the library's other modules: a whitelist signature over exactly `MAX_KEYS`
  keys, which whitelist.h:50 allows, cannot be serialized; an unblinded
  surjection proof is generated but never verifies; a refused partial signature
  has already turned the secret nonce round; a zero-byte frame is granted beyond
  the scratch space's limit, and the room left wraps; `privkey_tweak_add` accepts
  secret keys out of range where the public side refuses; strict DER reads
  negative and too large integers as zero and lax DER reads negative ones as
  unsigned; magnitudes of field elements and the number of frames are checked in
  a VERIFY build only.
* `HandleAPIVerifyRegistration` does not use the challenge up (main.go:578), and
  `HandleAPIChallenge` hands one out even when it was not stored (main.go:542).

## 5. Proofs

All theorems hold for every value of the constants: any sets of addresses, keys,
children, identities and requests, and any bounds. They rest on the named
assumptions of the modules only:

* `AddressAssumption`: somebody can send transactions, and address(0) cannot;
* `BracketAssumption`: brackets are natural numbers, as a `uint8` is;
* `BoundAssumption`: the bounds are natural numbers;
* `ServerAssumption`, `ChildAssumption`: the server's account is an address and
  the children's mpks are keys;
* `NullAssumption`, `UnsetAssumption`: NULL is no value, and what is unset is no key and no proof;
* `OwnNameAssumption`: the platform's own name is among those that are sent;
* `ShortKeyAssumption`: the keys that come back short are keys;
* `V2RootAssumption`, `V2NumberAssumption`: the zero root is not among the
  others, the history has room for one, times and durations are natural numbers;
* `DepthAssumption`: the tree's depth is a natural number;
* `RingAssumption`: N and M are above 1 (2 and 10 in the code);
* `RingCipAssumption`, `RingJobAssumption`: a ring context has a base above 1, at
  least one digit and a generator for each of its places; the callers' jobs are as
  described below, under the ring proofs;
* `AggAssumption`: there is a signer, secret keys are not 0, messages and seeds are
  numbers, and what is added to a signature or taken as its nonce is a scalar;
* `ScratchAssumption`: the alignment is positive, sizes are natural numbers;
* `GroupAssumption`: the group's order is odd and above 2, a string of 32 bytes
  holds at least the scalars (the order of secp256k1 is a prime just below 2^256);
* `AmountAssumption`: the generators G, H and J are three different ones; a
  transaction has an amount, a blinding value for each, and no more inputs than
  amounts;
* `CurveAssumption`: the prime of the field leaves 7 modulo 12, the base point has
  its coordinates in the field, the order is above 3;
* `EcMultAssumption`: the widths of windows are numbers above 1, a sum of products
  has a sequence of points, a limit and a place where its callback fails (0 for
  none); the x coordinate of the generator's second base belongs to a point;
* `DerAssumption`, `SignaturesAssumption`: field elements and scalars fit their bytes, the
  length of a signature fits one; keys, messages and tweaks are numbers, what is put
  into a signature on its way is bytes, and the order is a prime;
* `RangeAssumption`: the word of values has at least three bits (64), the largest
  power of ten is below half of it (10^18), the group's order is above four words,
  and what a power of ten leaves of the word is room for the minima that fit
  beside it. The last is a fact about 64 and 18 that no induction yields; it is
  computed, by TLC for the word of the run;
* `RangeJobAssumption`: values and minima fit the word, all else is numbers;
* `ListAssumption`, `ListJobAssumption`: the number of keys has a limit; an input
  has a tag and a key, a listed entry two secrets, and the owner is one of the
  entries;
* `TimeAssumption`: time limits are natural numbers and a challenge is kept for
  as long as it is valid (`5 * time.Minute` and `10 * time.Minute` in the code).

No theorem assumes fairness.

### The contract (`RegistryProofs`)

`TypeCorrect` is inductive as it stands, since it says that `nextIndex` is the
length of `idList`. `EveryStepOnEntries` reduces each transaction to what it
does to the list (append an active entry, clear one flag, nothing), and
`RecordsFinal`, `IndexNeverMoves` and `RegistryImplementsPromise` follow from
that one lemma. `RolesKept` is an invariant of its own. `RegistryImplementsPromise`
shows the refinement step by step: `addID` is the promise's issue, `revokeID`
its retirement, role changes are stutters.

`PagesCoverRing` is about `BatchesCoverRing`, which compares what two ways of
reading collect. Both are recursive functions: `collected` is the second loop of
`getBatchIDs`, `readByPage` a client that appends one page to the other.
`CollectedJoins` says that what one scan has collected up to an entry, and what a
scan from there collects, is what one long scan collects; then a client that has
read p pages has what one scan up to the end of page p has (`ReadSoFar`), and the
last page ends at the list's end (`PageBounds`). `CollectedCounts` is the
count: each active entry adds one. That no page is refused is part of it: each begins
inside the list (`startsInside`, Veriqid.sol:231).

### The portal (`RegistryProofs`)

`Fit` joins the types with two facts about what requests hold: the pool is
finite, and a request that runs, or a transaction that waits, names a child
whose row exists with the bracket sent. `PortalRunsContract` shows that
each step of the portal is a step of the contract, so that the contract's
theorems carry over. `RowStep`, `RequestStep` and `PortalEntries` say once what
a step can do to a row, to a request and to the entries of a child; the
arguments below use them instead of the actions.

* `PoolGapless`. A gap could come from a nonce that was read long before it is
  used. `Nonces` adds that a request never holds a nonce above the pending one
  and that no two transactions in the pool share one; a nonce the node accepts
  is then the next one.
* `StoredIndexRight`. `Own` adds that an index on its way from the contract to
  SQLite is already right; it stays so since entries are final.
* `LostHasCause`. `Traced` says that the key of a request about to look up is
  in the pool or in the contract, or that the log names the reason.
* `UndisturbedAgree` and `RevocationUndoneByOlder`. The first says that a child
  whose approvals neither overlapped nor broke off has at most one entry in the
  contract, and none while its row is pending, unless its approval is still
  under way. It does not say that a verified row has an entry: the transaction
  may wait or fail, which is `LostHasCause`'s subject. `Undisturbed` says of an
  undisturbed child that one request approves it at a time and only while the
  row is pending (`Sole`), that its key is in the pool or in the contract once
  (`SentOnce`), and that what was sent for a row not yet verified has its sender
  still at work (`SentBy`). None of the three is inductive without the others:
  a second send is excluded since the first sender would still be there.

### The platform (`PlatformServerProofs`)

`Fit` adds to the types what a request holds at each stage (`Shape`): without
it nobody knows that the request about to enter a nullifier has a registry.

* `ChallengeOnce`: a challenge that let somebody through is marked used, and no
  row that is used is ever issued again.
* `SessionOnce`: `OnePlace` follows a challenge from the request that used it to
  the session it earned.
* `SignupOnce` states `AccountsMatchChallenges`: an account, which is a string, is
  made by one challenge, and a challenge makes one account. `Welcome` says why: the
  row that was made is in `users`, whose primary key decides and not the check
  before it, and whoever still holds the challenge is past the insertion.
* `SessionsHaveAccounts`: rows of `users` stay.
* `FreshAccepted`, of sign-ups, assumes `ZoneOffset <= 0`; it is false east of UTC. `Outdated`
  says that what the clean-up took was out of date and stays so.
* `NullifierOnceAlone`, of any nullifiers and any names: `Alone` says that one
  request at a time is in the nullifier stages and that what it knows of the
  registry of its name is still true.

### The events (`RegistryProofs`)

`EventsDescribeRoles`, `EventsDescribeIDs` and `AuditTrailSound` speak of a whole
log, so the proofs first say what one more event does to each of them.
`EmitExtends`: every event leaves the earlier ones where they were;
`TheRestStands` and `AdminStands`: what was told of an earlier moment stays told;
`VerifierThen` and `AdminThen`: what the new event adds. `RolesInv` is then
`EventsDescribeRoles` with the types; the story of an entry (`Told`) is
begun by its registration, ended by its revocation and untouched by events about
others; `AuditInv` joins both, since whether a new entry is legitimate is asked of
the roles told so far, which `RolesInv` equates with the roles in force.

### Rings (`RegistryProofs`)

`RingInv` says of each attempt, as a predicate of its record and the list
(`Good`), that what it has read lies between the list of then and the list of
now (`Scanning`), that the proof it holds was made from it (`ProofHeld`), and
that what was accepted had an active entry (`Accepted`). `GoodLater` carries
`Good` from a list to any later one (`Later`: entries stay, flags fall), so a step
of the contract needs no look at attempts, and a step of one attempt none at the
others, but for the end of the bridge, which does to each attempt in it the same
(`Dies`, `SystemStep`). `NotDisturbed` needs more: `Steady` says what an attempt
has in hand at each stage while nobody is revoked and every key has all its bytes,
and `Parameters` that the two loops agree on an exponent, from the powers of N up to
M. It excepts the attempts that go down with the bridge, and `CrashesHaveCause`
says when that is: `Placed` keeps where the first entry with an attempt's key is,
so that an attempt whose key was listed when it began has an index below the
size it reads afterwards; the one that ends the bridge was not such, though it
has found its key since (`Found`). Both loops and the scan
are recursive in the code; what they compute is proved from the least place where
it would fail (`WellFoundedInduction`'s least elements), as induction itself
is out of reach.

### The extended contract (`VeriqidV2Proofs`)

`RootsServed` holds because the history is the tail of `replaced`: all of it while
it fits, then its last `MAX_ROOT_HISTORY` (`HistoryIsTail`, which is inductive
with `RootsTyped`). A zero root never enters either. `PromiseKept` is the
refinement, after the pattern of the first contract: `EveryStepOnIDs` reduces
both ways of adding to one step. The two theorems state `RootsServeTheirTime` and
`KeepsPromise` of `VeriqidV2`. `ContractsProofs` carries them over to what the run
`registry` checks: a step of the composition is a step of each of the three or
leaves it alone (`StepsOfEach`), so that the extended contract behaves there as it
does alone, and `MCContracts`' properties of the same names are theorems of
`RegistrySpec`.

### The bridge's tree (`ContractsProofs`)

The tree is proved for every depth, and for every number of creations and
registrations at a time. `TreeStaysWhole` is the invariant behind the rest:
as long as the tree is not torn, every inner node is the hash of the two below
it, the places beyond the last leaf are empty, and the levels hold the default
hashes there (`Untorn`). It is inductive because `placed` writes a leaf and the
nodes on its way up, and every node off that way has both children off it
(`WayUp`, `PathIsHashed`, `PlacingCovers`). A walk from a leaf to the root
and one from the root to the leaf meet the same nodes (`WayDescends`), so
that `VerifyMerkleProof` recomputes what the tree holds (`CoveredProves`); the
leaf found there is the only one the proof is for.

`Level` joins the list to the tree: as long as nothing has disturbed them, the
key of entry i is the leaf of place i, and every creation under way has the index
it will be placed at. With `Untorn` it gives the second half of `TreeProofsHold`:
the answer to a registration is the proof of the key's own leaf. `ProofsHold` joins
both halves. Both walks and `width`, the number of places at a level, are
recursive functions, and each fact about them is proved from the least level at
which it would fail.

### The scratch space (`LibraryProofs`)

`FramesKept` shows that room for rounding is set aside in the right amount: each
frame's size is its bytes plus one alignment per object, and what is used of it
stays below the bytes cut plus one alignment per piece (`HasRoom`). `FramesFit`
bounds the sum of the lower frames as long as none of them was of zero bytes:
the exception that is granted beyond the limit. The total is a recursive
function; `TotalsExist` and `RunningTotal` say what it computes.

### The batches of a sum of products (`LibraryProofs`)

`BatchesKept` states `BatchesReturnTheirScratch` for every number of points, every
limit, both builds and every alignment, not only the few of the run. The code
decides on a number of points per batch from what the scratch space has
left, and never looks at a batch's pieces again (a NULL would be written to); so
`OnItsWay`, the invariant, says that the plan is sound: `Plannable`, every batch of
1 to `per` points has a frame that fits. A step alone does not show it, since the last
batch is smaller and Pippenger's window depends on the number.

* `PippengerFits`: every number up to `pippenger_max_points` fits with the window
  of *that* number. The window is the least one whose limit is not exceeded
  (`WindowIs`), the loop that finds the maximum went on only from windows filled
  up to their limit (`PointsTyped`, `TriedWindow`). With the endomorphism window 8
  is never chosen, and its limit equals that of window 7: the proof needs exactly
  this.
* `PerBatchIs`: batches of equal length are not empty, and not longer than the
  maximum they were computed from.
* `StraussPiecesFit`, `PippengerPiecesFit`: the six pieces add up to no more than the
  size the frame is asked for; `PiecesAreCut`: then all six are cut, by the
  same argument as in `FramesKept`, and releasing the frame gives back the space
  as it came.

That 2^w is a number is no fact the provers know; `PowerIs` takes it from the number
of subsets of 1 .. w.

### The tally of commitments (`LibraryProofs`)

`TallyBalanced` states `TallyHoldsExactlyWhenBalanced` for every group of odd
order, every number of generators above two, every number of inputs and outputs
and every amount and blinding value. The invariant `TxInv` says that the
commitments of a job are what `pedersen_commitment_save` makes of points P that
open them (`Opens`): on H each point has its value, on every other generator
the coordinates cancel once the outputs are turned. It holds because

* `pedersen_blind_sum` makes up what the others leave (`BlindSumIs`,
  `LastMakesUp`), on G alone when the generator is H (`PlainOpens`), and with the
  generators' own blinding values times the amounts when it is not
  (`BlindedOpens`, `LastTakesOff`);
* a commitment that is written, read and turned into a public key and back is the
  same one (`TravelsUnchanged`). This is where the order must be odd: a point and
  its inverse have different forms since no point but infinity is its own inverse
  (`OneIsQuad`, `LoadsWhatWasSaved`);
* sums of scalars and of points, recursive functions in the model, agree with each
  other coordinate by coordinate (`SumsAgree`, `GSumIs`) and with the sums of the
  amounts as numbers (`ValuesCount`), the group's laws being proved from `%`
  (`SAddAssociates`, `SumLaws`).

`OpenedTally` then reads the tally off: it is infinity exactly when the values on H
agree modulo the order. The theorem has one hypothesis, `HashesAreBytes`: the
hash that `secp256k1_blind_switch` takes gives a string of 32 bytes.

### Range proofs (`BorromeanProofs`)

`RangeAlwaysHoldsTheValue` states `RangeHoldsTheValue` for every width of the word, every
value, minimum, exponent and number of bits asked for, every blinding value, with the
generator H or a blinded one, and every message and binding data: a proof that is made
is accepted, shows a range that holds the value and does not begin below the minimum, and
fits the buffer. The invariant `RangeInv` says of a proof what it was made from
(`rangeMade`); all else is about one call of the maker and one of the verifier.

* *Parameters.* `range_proveparams` lowers the exponent and raises the number of bits
  until everything fits the word. `ParamsSay` takes its branches one by one; what comes
  out says the value (`SaysOf`), and minimum and maximum are within the word (`TopFits`,
  `TopOfRoom`, `TopOfMin`), so that `rangeproof_getheader` refuses nothing that was
  written (`HeaderIsRead`). Powers are products of the length of the exponent
  (`powerOf`, of `PrimeGroup`), with the laws that are used proved from their steps (`PowersAdd`,
  `PowersGrow`, `FoursAreTwos`), and the number of bits is the least that holds
  (`BitLengthIs`).
* *Digits.* The value is the sum of its digits at base 4 times their weights
  (`DigitsAddUp`), and each digit has a place in its ring, the last ring with two places
  when a bit is left over (`RangeDigitsFit`). The sum is followed along a finite function
  from the first ring to the last (`DigitStep`), which needs no induction over data.
* *Points.* The maker leaves the last ring's first point out, and the verifier makes it
  up from the commitment; `FirstsAddUp` and `LastFirst` say that both are the same, since
  the secrets of the rings add up to the blinding value (`LastAdded`). At the place of
  its digit each ring has a multiple of G by its own secret, at any other place a point
  that the digit's weight parts from it (`RangePubsAre`): below four words of the order no
  weight is 0 (`UnitOfRing`).
* *Rings.* `BorromeanComplete`: whatever rings are signed with the secret of one point
  each, the verifier's walk along every ring ends in the point that the signer's began
  from. It is the same lemma for ranges, surjections and whitelists. `RingWalkIs` says
  what a walk computes; the two walks agree before the own place and behind it, and at
  the own place by `k = s + e x`.
* *Length.* `RangeFits`: the bytes written are those the maker set aside, for as many
  points as the mantissa has, which are never more than it had asked room for.

Its hypotheses are `RangeHashesAreBytes`, that SHA-256 gives 32 bytes, and
`RangeSecretsAreDrawn`, that of eleven draws in a row one is a scalar other than 0: the code
(rangeproof_impl.h:85) draws until one is, the model eleven times. Draws for which the
Borromean hash is out of range, or a point infinity, make the maker fail, and the theorem
speaks of proofs that were made.

### Proofs over lists (`BorromeanProofs`)

`EntriesAlwaysAccepted` states `ListProofsNameAnEntry` for any number of inputs and of
listed keys. A surjection proof that was initialized names an input of the output's asset,
whatever inputs were drawn in however many rounds (`DrawStep`, `RoundStep`), and is
accepted unless it is an unblinded match, whose ring has infinity in it and which the
verifier refuses (section 4). The owner of
an entry is believed at that entry's place exactly when no listed key is made empty by
its own tweak, and the signature can be written.

`ListInv` keeps what was drawn (`DrawnWell`) and, from then on, what a proof was made from
(`MadeFrom`, `SignedList`). The work is in three places:

* the input at place k of a proof is the one with k used inputs before it, counted by
  cardinalities (`CountsUp`), so that prover and verifier build the same ring and the
  owner's place in it is the one the prover computed;
* the key of an input is its distance from the output, which is a multiple of G by the
  difference of the blinding keys exactly when the assets are the same;
* an entry's key is the online key, plus the sum of offline key and the shared key tweaked
  by its hash, of which the owner knows the discrete logarithm (`TweakedTyped`).

Then `BorromeanComplete` applies, with one ring. The hypotheses are `RangeHashesAreBytes`;
`SurjectionDrawsCount`, that what the maker of a surjection proof draws is not 0 (the
code looks for an overflow only); and `WhitelistNoncesAreDrawn`, that one of ten draws
serves all entries (whitelist_impl.h draws until one does).

### Signatures on the wire (`SignatureProofs`)

`WireFormsAlwaysAgree` states `WireFormsAgree` for every base of the bytes, every order
and number of bytes that a scalar takes, every key, message and tweak, and every
signature, made or put together from any r and s: the strict reader gives back what was
written; it takes a string of bytes for two numbers other than 0 only when that string is
what is written for them; what it takes the lax reader reads as the same; and no buffer one
byte short is written to. The strings are those with one byte replaced, put in or left
out, as the actions make them; `WireMeans` holds of all.

* *Numbers in bytes.* `SpanIs` says what the bytes between two places are worth, byte by
  byte. As many bytes with the same number are the same bytes (`SameBytes`), so that a number has
  one form without zeros in front (`ProperOnly`), and `b32` writes the number that is
  read (`B32Is`).
* *Integers.* What is written for a scalar, tag, length, a zero when the first byte would
  have its high bit, and the bytes, is read back by both readers (`StrictReads`,
  `LaxReads`). The converse, `IntegerRead`, is read off the early returns of
  `der_parse_integer`, one after the other: with a needless byte in front, the high
  bit or a number beyond the order there is no integer other than 0, and with a length that is not
  in its shortest form there is none either (`LengthRead`).
* *Sequences.* `WrittenIs` puts two of them after a head; the strict reader wants the
  length in the head to be that of the rest, which leaves nothing over (`ReadWasWritten`).
* *The signer.* `SignerSound` is the invariant: a key as its job and its tweaks left it,
  a signature whose r and s are scalars, or bytes on their way, which are those
  written as long as nobody put others in. That r is a scalar (`TryIs`) needs the x
  coordinate of the nonce's point to be a number:
  `GenTyped` follows the blinded product with the generator through its table
  (`GenPointsTyped`, `AllAffineTyped`, `PrecTyped`, `EntryTyped`), and every formula for a double or
  a sum stays in the field (`DoubleTyped`, `AddTyped`, `UnifiedTyped`).

The hypothesis is `SignHashesAreBytes`: SHA-256 gives 32 bytes. Three assumptions on
constants serve this proof: that the order is a prime, as each number below it has an
inverse (`SignaturesAssumption`); that a scalar fits its bytes (`DerAssumption`); and that the
x coordinate of the second base of the generator's table is one of a point, which
the code checks when it builds the table (`EcMultAssumption`, ecmult_gen_impl.h:57-59).

### The ring proofs (`ProtocolProofs`)

`MembersAlwaysAccepted` states `MembersAreAccepted`, the completeness of the
one-out-of-many proof, for every base n and number of digits m, every number of
topics, every ring of at most n^m keys and every place in it, every 32-byte
string drawn and every challenge, 0 included; and of the proof of possession of a
service key. The invariant says where the proof in hand comes from (`ProofIsMade`,
`AnswerIsMade`); the work is in `ProverComplete`, which has no state.

* *Scalars.* `RingLaws`: the scalars are a commutative ring, proved from `%`.
  Sums and products, recursive functions in the model, get one lemma for each law
  used: a sum of sums, of multiples, of one term, and exchanged sums (`SumSwap`).
* *Digits.* Of the keys that m digits tell apart no two have the same digits
  (`SameDigits`, by `DigitWalk` and `NothingLeft`: after m divisions nothing is left of
  a number below n^m).
* *Polynomials.* What the loops over `p[t][d]` compute has the value of the
  product of the factors a + delta x at every x (`PolynomialIs`, `ValueOfProduct`), and
  its leading coefficient is 1 for the prover's own index and 0 for every other
  (`LeadingCoefficient` with `SameDigits`).
* *The digits' commitments.* `BitsPass`: A, B, C and D open as the verifier computes
  them from f, the first entry of each row made up so that the row adds to x
  (`FullRowIs`), each delta being its own square (`BitBalances`).
* *The ring equation.* `RingBalances` in one coordinate, `RingPasses` for points: what
  the Q[j] carry of the ring cancels all but the leading coefficients, which leave
  x^m times the one key, and z makes up for the blinding.
* *Topics.* With the shown topic's share taken out of every key, and its
  generator out of the list, the member's key is the combination of the others
  (`CombinationWithout`, `LessenedIs`), so that the same lemma serves both provers.

Its one hypothesis, `RingHashesAreBytes`, says that SHA-256 gives 32 bytes.
`RingJobAssumption` says what the callers see to: keys made with success, and at
least one digit (with none the code would read and write beyond the first row).
One case is the model's and not the code's: infinity has 33 bytes of its own in
the model, where the code writes whatever coordinates it finds. For keys and
draws that make a commitment or a side of an equation infinity, which nobody
meets by chance in a group of the library's order, the theorem says nothing
about the code.

### Aggregated signatures (`ProtocolProofs`)

`SignersAlwaysAccepted` states `SignersAreAccepted` for any number of signers with
any keys, for every order of their calls and every call that is refused: a
signature combined from all parts is accepted when no secret nonce was left turned
around, and refused when exactly one was; the sum of two parts is a signature for
the sum of the keys, and with the one part taken away gives back the other; and a
signature made alone is accepted.

Every point of this protocol is a multiple of G, so that all is said of scalars
(`MultipleIs`, `MultiplesAdd`). The invariant `AggInv` tells where a context comes from:
`Signs(a, n, k)` says that there are nonces k, as drawn, so that each signer's
secret nonce is k[i] as often turned around as the signer was called
(`turnedBy`), each part is key times hash plus that nonce, and the public sum is
that of the nonces, `facing` a square y. It needs that nobody has signed, or been
refused, before all nonces are drawn: the code refuses before it turns anything
while a nonce is missing, and later the sum changes no more. The rest is sums.
The verifier's side is the sum of the parts exactly when the nonces as used add up
to the nonce that is shown; all of them turned with the sum do, and with one of them
turned once more the sum is off by twice that nonce, which is not 0 in a group
of odd order.

The hypotheses are `AggHashesAreBytes`, that SHA-256 gives 32 bytes, and
`AggNoncesAreDrawn`, that of ten draws in a row one is not 0 (the code draws until
one is not). Nonces whose sum is 0 are left out: their signature would have
infinity for its nonce, which nobody meets by chance. That a signature is refused when
the nonces of several signers were left turned around, and that it serves for no
other message and no other keys, is `AcceptedMeansSigned`: chance and the hash
have a say in it, and it stays with the run.

### Proved, and in no run

`RecordsFinal`, `IndexNeverMoves`, `RolesKept` and `SessionsHaveAccounts` are
theorems about properties that no run checks: they hold of each step by itself,
and the refinement, the replay of the roles and the session properties would
break before them.

### Only model-checked

Liveness (`AcceptedTxMined`) needs fairness and `ENABLED`, which are out of the
prover's reach.
`AcceptedMeansMade` (what is accepted was made by a member of the ring, by all
signers, for this commitment, or by an entry of this list) holds only for a hash without
collisions and for values that no hash has met by accident, which a run can pick
and a theorem would have to exclude by assumptions of its own. So does
`RewindGivesBackTheSecrets`: no other nonce may give anything, and when the last digit is
the largest, its own answer must not look like a value where the reader looks first. `ProductsAgree` and
`SignaturesVerify` need that the formulas of a curve, with every special case, make its points
a group; `LimbsAreExact` compares carries over ten and eight limbs with an arithmetic modulo
a prime. Neither is within the reach of the solvers.

## 6. Not modelled

* *Demo platform*, `cmd/demo-platform`: a sample; its sign-up and login are those
  of the platform server with weaker challenges.
* *Prove, Verify, revocation tree and root history of `pkg/ve_asc`*: nothing but
  the benchmarks calls them. Disclosure of attributes is cryptography whose
  responses are not checked; the server's nullifiers are in `PlatformServer`.
* *Parent accounts and the activity feed*: each operation is one statement or one
  critical section; the feed is a query for display.
* *The bridge's `HandleAuth`, key files and mnemonics*: no state, or files and
  encodings.
* *`U2SSO.sol` and the Phase-1 server and client*: predecessors.
* *Browser extensions, dashboards, generated contract bindings, benchmarks*.
* *Of the library*: bulletproofs, which nothing in Veriqid calls; SHA-256 and GMP,
  which are functions taken as given; the 64-bit representations, which are the
  portable ones in other widths, and the assembly; test randomness, benchmarks
  and the generator of `ecmult_static_context.h`, whose table is what
  `ecmult_gen_context_build` makes. The private-key DER of `contrib` is left out.

Whether the discrete logarithm is hard, and whether a proof hides its maker, are
outside what these models can say: knowledge of a secret is given to those who
have it, and a coordinate is known to nobody else.
