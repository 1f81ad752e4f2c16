----------------------------- MODULE RingSession ------------------------------
(***************************************************************************)
(* One use of the ring proofs from end to end: a member (or somebody who   *)
(* is not) proves, and a verifier checks the proof, against the same       *)
(* inputs or against others.                                               *)
(***************************************************************************)
EXTENDS RingCip, FiniteSets

CONSTANT
    RingJob         \* the proofs asked for, see jobs in the MC module

\* Whoever asks has generated the keys of the ring with success, and uses at
\* least one digit; the generator of the library gives as many 32-byte strings
\* as are drawn.
ASSUME RingJobAssumption ==
    /\ RingJob \subseteq [msks : Seq(Scalar), index : Nat, msk : Bytes32, W : Nat, name : Nat, m : Nat \ {0},
                          draws : Seq(Bytes32), topic : Nat]
    /\ \A job \in RingJob : Len(job.draws) >= 4 + job.m * RingBase

VARIABLE ring       \* [at, job, proof, altered, accepted]

RingIdle == [at |-> "idle"]

rctxOf(job) == IF job.topic = 0 THEN ringcip_context_create(Infinity) ELSE ringcip_DBPoE_context_create
mpkOf(job, msk) ==
    IF job.topic = 0 THEN gen_mpk(rctxOf(job), msk) ELSE gen_DBPoE_mpk(rctxOf(job), msk)
mpksOf(job) == Tuple(Len(job.msks), LAMBDA t : mpkOf(job, job.msks[t]).pk)
spkOf(job) == derive_spk(rctxOf(job), derive_ssk(job.msk, job.name))

RingBegin(job) ==
    /\ ring.at = "idle"
    /\ ring' = [at |-> "keys", job |-> job]

membershipOf(job, rctx, mpks, spk) ==
    IF job.topic = 0
    THEN prove_memmpk(rctx, mpks, job.msk, job.W, job.name, spk, job.index, job.m, job.draws)
    ELSE prove_DBPoE_memmpk(rctx, mpks, job.msk, job.W, job.name, spk, job.index, job.topic, job.m, job.draws)
proved(job, spk) ==
    /\ spk.ok
    /\ ring' = [at |-> "proved", job |-> job, proof |-> membershipOf(job, rctxOf(job), mpksOf(job), spk.pk)]
ProveMembership == ring.at = "keys" /\ proved(ring.job, spkOf(ring.job))

\* What the verifier may hold that the prover did not: nothing, another
\* challenge, another service, a ring in another order, another nullifier.
Alteration == {"none", "W", "name", "ring", "nullifier"}

turned(mpks) == Tail(mpks) \o <<mpks[1]>>
heldRing(mpks, altered) == IF altered = "ring" THEN turned(mpks) ELSE mpks
heldW(job, altered) == IF altered = "W" THEN job.W + 1 ELSE job.W
heldName(job, altered) == IF altered = "name" THEN job.name + 1 ELSE job.name
heldNullifier(altered) ==
    IF altered = "nullifier" THEN SAdd(ring.proof.nullifier, 1) ELSE ring.proof.nullifier

membershipHolds(job, rctx, mpks, W, name, nullifier, spk) ==
    IF job.topic = 0 THEN verify_memmpk(rctx, ring.proof, mpks, W, name, spk, job.m)
    ELSE verify_DBPoE_memmpk(rctx, ring.proof.proof, nullifier, mpks, W, name, spk, job.topic, job.m)
CheckMembership(altered) ==
    LET job == ring.job
    IN /\ ring.at = "proved"
       /\ ring.proof.ok
       /\ altered = "nullifier" => job.topic > 0
       /\ ring' = [at |-> "checked", job |-> job, proof |-> ring.proof, altered |-> altered,
                   accepted |->
                     membershipHolds(job, rctxOf(job), heldRing(mpksOf(job), altered), heldW(job, altered),
                                     heldName(job, altered), heldNullifier(altered), spkOf(job).pk)]

\* The owner of a service key answers a challenge, and the service checks it.
ProveKey(r) ==
    LET job == ring.job
        rctx == rctxOf(job)
        prove == IF job.topic = 0 THEN auth_prove(rctx, job.msk, r, job.name, spkOf(job).pk, job.W)
                 ELSE DBPoE_auth_prove(rctx, job.msk, r, job.name, spkOf(job).pk, job.W)
    IN /\ ring.at = "keys"
       /\ spkOf(job).ok
       /\ ring' = [at |-> "answered", job |-> job, proof |-> prove]

heldSpk(job, altered) == spkOf([job EXCEPT !.name = heldName(job, altered)]).pk

CheckKey(altered) ==
    LET job == ring.job
        rctx == rctxOf(job)
    IN /\ ring.at = "answered"
       /\ ring.proof.ok
       /\ altered \in {"none", "W", "name"}
       /\ ring' = [at |-> "authenticated", altered |-> altered,
                   accepted |->
                     IF job.topic = 0
                     THEN auth_verify(rctx, ring.proof, heldSpk(job, altered), heldW(job, altered))
                     ELSE DBPoE_auth_verify(rctx, ring.proof, heldSpk(job, altered), heldW(job, altered))]

RingNext ==
    \/ \E job \in RingJob : RingBegin(job)
    \/ ProveMembership
    \/ \E altered \in Alteration : CheckMembership(altered)
    \/ \E r \in {0, 1} : ProveKey(r)
    \/ \E altered \in Alteration : CheckKey(altered)

-------------------------------------------------------------------------------
member(job) == job.index < Len(job.msks) /\ job.msks[job.index + 1] = job.msk
sameInputs == ring.altered = "none" \/ (ring.altered = "ring" /\ Len(ring.job.msks) = 1)

theProof == IF ring.job.topic = 0 THEN ring.proof ELSE ring.proof.proof
proofBytes(rctx, p) == 33 * Len(p.coms) + 32 * (Len(p.z) + 2 + Len(p.f) * (rctx.n - 1))
allocated(job) ==
    IF job.topic = 0 THEN zero_mcom_get_size(rctxOf(job), job.m)
    ELSE zero_mcom_DBPoE_get_size(rctxOf(job), job.m)

\* A proof that a member makes fills exactly the bytes its caller was told to
\* allocate and is accepted, whatever values were drawn and wherever in a
\* ring of whatever size the key stands; and so is the answer of the owner
\* of a service key.
MembersAreAccepted ==
    /\ ring.at = "proved" /\ ring.proof.ok =>
          proofBytes(rctxOf(ring.job), theProof) = allocated(ring.job)
    /\ ring.at = "checked" /\ ring.altered = "none" /\ member(ring.job) => ring.accepted
    /\ ring.at = "authenticated" /\ ring.altered = "none" => ring.accepted

\* An accepted proof was made with the key at its index of this very ring,
\* for this very message and nullifier; an accepted answer was given to this
\* very challenge with this very service key.
AcceptedMeansMember ==
    /\ ring.at = "checked" /\ ring.accepted => member(ring.job) /\ sameInputs
    /\ ring.at = "authenticated" /\ ring.accepted => ring.altered = "none"
===============================================================================
