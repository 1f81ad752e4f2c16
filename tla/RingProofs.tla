------------------------------ MODULE RingProofs ------------------------------
(***************************************************************************)
(* How a registration proof comes about and is judged, while the contract  *)
(* keeps changing: HandleRegister of the bridge (bridge/bridge.go) reads   *)
(* the contract call by call and proves membership in what it read; later  *)
(* HandleSignupSubmit of a platform (cmd/veriqid-server/main.go) reads the *)
(* contract anew and verifies.  Both use GetallActiveIDfromContract        *)
(* (pkg/u2sso/u2ssolib.go), a loop of calls with no snapshot.              *)
(*                                                                         *)
(* The ring signature itself is external: a proof binds the key, the ring  *)
(* and the ring parameter it was made with.  The attempts share one bridge *)
(* process, and they all end with it.                                      *)
(***************************************************************************)
EXTENDS IdentityRegistry

CONSTANTS
    Attempt,    \* sign-up attempts going on
    ShortKey,   \* keys whose bytes, as they are read back, are fewer than 33
    N, M,       \* ring parameters of u2ssolib.go (2 and 10)
    Unset       \* no proof yet

ASSUME RingAssumption == N \in Nat \ {0, 1} /\ M \in Nat \ {0, 1}

\* Bytes() of a big.Int drops leading zeros.  A key of the library begins with
\* 8 or 9 (ring_impl.h), but the contract lists whatever addID was given.
ASSUME ShortKeyAssumption == ShortKey \subseteq Key

VARIABLE try    \* how far each attempt is and what it has read

\* The prover's and the verifier's reads use the same fields one after the
\* other; proof is Unset until the bridge has answered.  The last two fields
\* are history: the entries active when the attempt and when the scan began.
Proof == [key: Key, n: Nat, m: Nat, ring: Seq(Key)]

ASSUME UnsetAssumption == Unset \notin Key \cup Proof

Stage == {"done", "size", "index", "scan size", "scan", "holding"}

Outcome == {"none", "too few", "not registered", "chain failed", "refused",
            "aborted", "crashed", "bad proof", "accepted"}

untried == [at |-> "done", outcome |-> "none", key |-> Unset, n |-> 0, m |-> 1,
            index |-> -1, upto |-> 0, next |-> 0, list |-> <<>>, proof |-> Unset,
            began |-> {}, wasActive |-> {}]

active == {i \in Indices : getState(i)}

\* The powers of N, as the loops that look for the parameter raise them.
power == LET p[i \in 0..M] == IF i = 0 THEN 1 ELSE N * p[i - 1] IN p

\* The exponents whose ring is large enough for n keys.
fitting(n) == {m \in 1..(M - 1) : power[m] >= n}

least(S) == CHOOSE m \in S : \A o \in S : m <= o

\* bridge.go, cmd/client, cmd/demo-platform: 1 when the loop finds nothing.
bridgeM(n) == IF fitting(n) = {} THEN 1 ELSE least(fitting(n))

\* Mutant of serverM: the power is compared before it is raised.
serverM_late(n) == IF fitting(n) = {} THEN M ELSE least(fitting(n)) + 1

\* cmd/veriqid-server, cmd/server: the loop variable ends as M.
serverM(n) == IF fitting(n) = {} THEN M ELSE least(fitting(n))

RingInit ==
    /\ Init
    /\ try = [p \in Attempt |-> untried]

-------------------------------------------------------------------------------
(* Steps of one attempt.  Each is at most one call to the contract.         *)

ends(p, outcome) ==
    try' = [try EXCEPT ![p].at = "done", ![p].outcome = outcome]

\* HandleRegister begins, with a key that CreateID made.
HandleRegister(p, k) ==
    /\ try[p].at = "done"
    /\ k \notin ShortKey
    /\ try' = [try EXCEPT ![p] = [untried EXCEPT !.at = "size", !.key = k,
                                            !.began = active]]

\* GetIDSize, with the revoked ones, fixes the ring size and parameter.
readSize(p) ==
    /\ try[p].at = "size"
    /\ IF getIDSize < 2
       THEN ends(p, "too few")
       ELSE try' = [try EXCEPT ![p].at = "index", ![p].n = getIDSize,
                               ![p].m = bridgeM(getIDSize)]

\* Mutant of readIndex: the -1 of an unknown key is not looked at.
readIndex_unchecked(p) ==
    /\ try[p].at = "index"
    /\ try' = [try EXCEPT ![p].at = "scan size", ![p].index = getIDIndex(try[p].key)]

readIndex(p) ==
    /\ try[p].at = "index"
    /\ IF getIDIndex(try[p].key) = -1
       THEN ends(p, "not registered")
       ELSE try' = [try EXCEPT ![p].at = "scan size",
                               ![p].index = getIDIndex(try[p].key)]

\* GetallActiveIDfromContract asks for the size on its own account,
beginScan(p) ==
    /\ try[p].at = "scan size"
    /\ try' = [try EXCEPT ![p].at = "scan", ![p].upto = getIDSize,
                          ![p].next = 0, ![p].list = <<>>,
                          ![p].wasActive = active]

\* Mutant of inRing: the state that was read is not looked at.
inRing_any(i) == TRUE

inRing(i) == getState(i)

\* and then for the state of each entry, and for the key of an active one.
scanNext(p) ==
    LET i == try[p].next
    IN  /\ try[p].at = "scan"
        /\ i < try[p].upto
        /\ try' = [try EXCEPT ![p].next = i + 1,
                    ![p].list = IF inRing(i) THEN Append(@, getIDs(i)) ELSE @]

scanned(p) == try[p].at = "scan" /\ try[p].next = try[p].upto

\* The loop that copies the first n keys of the list into C memory panics, and
\* net/http ends the request, unless all of them are there with all their bytes.
copied(list, n) == Len(list) >= n /\ \A j \in 1..n : list[j] \notin ShortKey

\* The attempts whose request is in the bridge.
inBridge(p) == try[p].at \in {"size", "index", "scan size", "scan"} /\ try[p].proof = Unset

\* abort() in the library ends the bridge and every request in it.  Whoever
\* runs the bridge starts it again; no attempt outlives it there.
bridgeDies ==
    try' = [p \in Attempt |->
              IF inBridge(p) THEN [try[p] EXCEPT !.at = "done", !.outcome = "crashed"]
              ELSE try[p]]

\* Mutant of outside: off by one, the last place of the ring is outside.
outside_early(t) == t.index >= t.n - 1

\* ARG_CHECK(index < ring_size), whose default callback is abort().
outside(t) == t.index >= t.n

\* RegistrationProof.  The library refuses a ring too large for m, aborts on an
\* index outside the ring, and its own check refuses another key at the index.
RegistrationProof(p) ==
    LET t == try[p]
        ring == SubSeq(t.list, 1, t.n)
    IN  /\ scanned(p)
        /\ t.proof = Unset
        /\ \/ /\ ~ copied(t.list, t.n)
              /\ ends(p, "aborted")
           \/ /\ copied(t.list, t.n)
              /\ t.n > power[t.m]
              /\ ends(p, "refused")
           \/ /\ copied(t.list, t.n)
              /\ t.n <= power[t.m] /\ outside(t)
              /\ bridgeDies
           \/ /\ copied(t.list, t.n)
              /\ t.n <= power[t.m] /\ ~ outside(t) /\ ring[t.index + 1] # t.key
              /\ ends(p, "refused")
           \/ /\ copied(t.list, t.n)
              /\ t.n <= power[t.m] /\ ~ outside(t) /\ ring[t.index + 1] = t.key
              /\ try' = [try EXCEPT ![p].at = "holding",
                    ![p].proof = [key |-> t.key, n |-> t.n, m |-> t.m, ring |-> ring]]

\* The form is posted: HandleSignupSubmit computes its own parameter.
HandleSignupSubmit(p) ==
    /\ try[p].at = "holding"
    /\ try' = [try EXCEPT ![p].at = "scan size", ![p].m = serverM(try[p].proof.n)]

\* Mutant of sameRing: only the size is compared.
sameRing_size(proof, list) == Len(list) >= proof.n

sameRing(proof, list) == SubSeq(list, 1, proof.n) = proof.ring

\* RegistrationVerify, in the platform.  It panics on a ring it cannot copy, or
\* when the proof is shorter than one for its own parameter would be.
RegistrationVerify(p) ==
    LET t == try[p]
    IN  /\ scanned(p)
        /\ t.proof # Unset
        /\ \/ /\ ~ copied(t.list, t.proof.n) \/ t.m > t.proof.m
              /\ ends(p, "aborted")
           \/ /\ copied(t.list, t.proof.n) /\ t.m <= t.proof.m
              /\ ends(p, IF t.m = t.proof.m /\ sameRing(t.proof, t.list)
                         THEN "accepted" ELSE "bad proof")

\* Any call to the node may fail.
callFails(p) ==
    /\ try[p].at \in {"size", "index", "scan size", "scan"}
    /\ ends(p, "chain failed")

attemptStep(p) ==
    \/ \E k \in Key : HandleRegister(p, k)
    \/ readSize(p)
    \/ readIndex(p)
    \/ beginScan(p)
    \/ scanNext(p)
    \/ RegistrationProof(p)
    \/ HandleSignupSubmit(p)
    \/ RegistrationVerify(p)
    \/ callFails(p)

\* Identities come and go meanwhile; who may do so is IdentityRegistry's
\* subject, and nothing here reads the roles.
contractStep ==
    \E sender \in Address :
        \/ \E k \in Key, bracket \in BracketInput : addID(sender, k, bracket)
        \/ \E index \in Indices : revokeID(sender, index)

RingNext ==
    \/ \E p \in Attempt : attemptStep(p) /\ UNCHANGED vars
    \/ contractStep /\ UNCHANGED try

RingSpec == RingInit /\ [][RingNext]_<<vars, try>>

-------------------------------------------------------------------------------
(* Properties. *)

RingTypeOK ==
    /\ TypeOK
    /\ \A p \in Attempt :
        LET t == try[p]
        IN  /\ t.at \in Stage
            /\ t.outcome \in Outcome
            /\ t.key \in Key \cup {Unset}
            /\ t.n \in Nat /\ t.upto \in Nat /\ t.next \in 0..t.upto
            /\ t.m \in 1..M
            /\ t.list \in Seq(Key)
            /\ t.proof \in Proof \cup {Unset}
            /\ t.began \subseteq Indices /\ t.wasActive \subseteq Indices
            /\ t.at \in {"scan size", "scan", "holding"} => t.index \in Nat

\* The loop has no snapshot, but what it returns lies between two: in index
\* order, it has every entry still active at the end and nothing that was not
\* active at the start, although it may equal the ring of no single moment.
ScanBetween ==
    \A p \in Attempt :
        scanned(p) =>
            \E order \in [1..Len(try[p].list) -> try[p].wasActive] :
                /\ \A j \in DOMAIN order : \A k \in 1..(j - 1) : order[k] < order[j]
                /\ \A j \in DOMAIN order : try[p].list[j] = getIDs(order[j])
                /\ \A i \in active : i < try[p].upto => \E j \in DOMAIN order : order[j] = i

\* A key whose every entry was revoked before the platform began to read the
\* contract is not let in, however old the proof and whatever changed since.
AcceptedWasActive ==
    \A p \in Attempt :
        try[p].outcome = "accepted" =>
            \E i \in try[p].wasActive : getIDs(i) = try[p].key

\* Registrations spoil no proof: while nobody is revoked, every key has all its
\* bytes and the ring is small enough for both parameter loops, an attempt with
\* a listed key ends well, however many keys join between its reads or before
\* the platform's, unless it is alone in the ring, a call fails, or the bridge
\* dies under it.
RegistrationsDoNotDisturb ==
    /\ active = Indices /\ getIDSize <= power[M - 1]
    /\ \A i \in Indices : getIDs(i) \notin ShortKey
    => \A p \in Attempt :
        (\E i \in try[p].began : getIDs(i) = try[p].key) =>
            try[p].outcome \in {"none", "too few", "chain failed", "crashed", "accepted"}

\* The bridge dies only of an attempt that came too early: whenever it goes down,
\* some attempt in it began before its key was listed and found it listed later.
\* Attempts with listed keys bring down neither themselves nor each other.
CrashNeedsLateKey ==
    [][(\E p \in Attempt : try[p].at # "done" /\ try'[p].outcome = "crashed") =>
        \E q \in Attempt :
            /\ scanned(q) /\ try[q].proof = Unset
            /\ \A i \in try[q].began : getIDs(i) # try[q].key
            /\ \E i \in Indices : getIDs(i) = try[q].key]_try

\* The contract did not change since the attempt began.
untouched(p) == try[p].began = active /\ try[p].n = getIDSize

\* "GetIDIndexfromContract(...) -> find our position in the ring"
\* (bridge.go:486): an active key is in the ring at the index that was read.
IndexIsRingPosition ==
    \A p \in Attempt :
        LET t == try[p]
        IN  scanned(p) /\ t.proof = Unset /\ untouched(p) /\ t.index \in active =>
                /\ t.index < Len(t.list)
                /\ t.list[t.index + 1] = t.key

\* "Ring parameters: N=2, M=10 -> max 1024 identities" (protocol.go:414): a
\* ring of up to N^M active keys that does not change admits its members.
RingsUpToTheLimit ==
    active = Indices /\ getIDSize <= power[M] =>
        \A p \in Attempt :
            untouched(p) =>
                try[p].outcome \notin {"refused", "aborted", "crashed", "bad proof"}

===============================================================================
