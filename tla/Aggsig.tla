-------------------------------- MODULE Aggsig --------------------------------
(***************************************************************************)
(* Aggregated Schnorr signatures (modules/aggsig): the context in which    *)
(* one party generates a nonce and signs for every key, and the signatures *)
(* that several parties make each on their own and add up or take apart.   *)
(***************************************************************************)
EXTENDS PrimeGroup

CONSTANTS
    AggHash(_),         \* SHA-256 and the RFC 6979 generator, from tuples to 32 bytes
    AggJobs,            \* [keys: secret keys, msg, seed] to sign for
    AggExtras,          \* scalars to add to a signature, or to take as its nonce
    MaxFailures         \* bound on the calls with a key that is not one

\* The signers have made their public keys with success.
ASSUME AggAssumption ==
    /\ AggJobs \subseteq [keys : Seq(Scalar \ {0}), msg : Nat, seed : Nat]
    /\ \A job \in AggJobs : Len(job.keys) > 0
    /\ AggExtras \subseteq Scalar

VARIABLE agg

quadY(P) == P # Infinity /\ HasQuadY(P)
pubkeysOf(keys) == Tuple(Len(keys), LAMBDA i : GMul(keys[i], G))

\* The hash for one signer; a key is left out when there is none.
compute_sighash_single(pubnonce, pubkey, msg) == ScalarOf(AggHash(XCoordinate(pubnonce) \o pubkey \o <<msg>>))

compute_prehash(pubkeys, x, msg) == AggHash(x \o Flat(Len(pubkeys), LAMBDA i : pubkeys[i]) \o <<msg>>)
\* The index (from 0) goes in as its base-128 digits, so that 0 adds nothing.
compute_sighash(prehash, index) == AggHash((IF index = 0 THEN <<>> ELSE <<index>>) \o <<prehash>>)

\* Mutant of generate_nonce_single: the nonce is used as it was drawn.
generate_nonce_single_drawn(seed, count) ==
    LET draw(c) == ScalarOf(AggHash(<<seed, c>>))
        first == CHOOSE c \in count .. count + 9 : draw(c) # 0 /\ \A d \in count .. c - 1 : draw(d) = 0
    IN [sec |-> draw(first), count |-> first + 1]

\* A secret nonce other than 0, turned around so that its point has a square y.
generate_nonce_single(seed, count) ==
    LET draw(c) == ScalarOf(AggHash(<<seed, c>>))
        first == CHOOSE c \in count .. count + 9 : draw(c) # 0 /\ \A d \in count .. c - 1 : draw(d) = 0
        k == draw(first)
    IN [sec |-> IF quadY(GMul(k, G)) THEN k ELSE SNeg(k), count |-> first + 1]

-------------------------------------------------------------------------------
(* The context.  progress follows the code's enumeration; partial holds    *)
(* what the calls returned; failures counts refused calls for an index     *)
(* that had come as far as the secret nonce.                               *)

AggIdle == [at |-> "idle"]

aggsig_context_create(job) ==
    /\ agg.at = "idle"
    /\ agg' = [at |-> "context", job |-> job, pubkeys |-> pubkeysOf(job.keys),
               progress |-> Tuple(Len(job.keys), LAMBDA i : "UNKNOWN"),
               secnonce |-> Tuple(Len(job.keys), LAMBDA i : 0),
               partial |-> Tuple(Len(job.keys), LAMBDA i : 0),
               sum |-> Infinity, drawn |-> 0,
               failures |-> Tuple(Len(job.keys), LAMBDA i : 0), odd |-> FALSE]

aggsig_generate_nonce(i) ==
    LET nonce == generate_nonce_single(agg.job.seed, agg.drawn) IN
    /\ agg.at = "context"
    /\ i \in DOMAIN agg.progress
    /\ agg.progress[i] = "UNKNOWN"
    /\ agg' = [agg EXCEPT !.secnonce[i] = nonce.sec,
                          !.drawn = nonce.count,
                          !.sum = GAdd(@, GMul(nonce.sec, G)),
                          !.progress[i] = "OURS"]

\* The secret nonce is turned around in place when the sum of the nonces has
\* no square y, before the hash and the key are looked at.
aggsig_partial_sign(i, key) ==
    LET secnonce == IF quadY(agg.sum) THEN agg.secnonce[i] ELSE SNeg(agg.secnonce[i])
        prehash == compute_prehash(agg.pubkeys, XCoordinate(agg.sum), agg.job.msg)
        sighash == compute_sighash(prehash, i - 1)
    IN /\ agg.at = "context"
       /\ i \in DOMAIN agg.progress
       /\ \A j \in DOMAIN agg.progress : agg.progress[j] # "UNKNOWN"
       /\ agg.progress[i] = "OURS"
       /\ IF Overflow(sighash) \/ Overflow(key)
          THEN agg' = [agg EXCEPT !.secnonce[i] = secnonce, !.failures[i] = @ + 1]
          ELSE agg' = [agg EXCEPT !.secnonce[i] = secnonce,
                         !.partial[i] = SAdd(SMul(ScalarOf(key), ScalarOf(sighash)), secnonce),
                         !.progress[i] = "SIGNED"]

\* A call that fails: the key is no scalar.
PartialSignFails(i) ==
    /\ agg.at = "context"
    /\ i \in DOMAIN agg.failures
    /\ agg.failures[i] < MaxFailures
    /\ aggsig_partial_sign(i, Order)

\* The sum of the nonces is turned around in place.
aggsig_combine_signatures ==
    LET sum == IF quadY(agg.sum) THEN agg.sum ELSE GNeg(agg.sum)
    IN /\ agg.at \in {"context", "combined"}
       /\ \A j \in DOMAIN agg.progress : agg.progress[j] = "SIGNED"
       /\ agg' = [agg EXCEPT !.at = "combined", !.sum = sum,
                             !.odd = @ \/ ~quadY(agg.sum)]

combined == [x |-> XCoordinate(agg.sum), s |-> SSum(agg.partial)]

\* sG less every hash times its key must be the nonce, with a square y.
aggsig_verify(sig, msg, pubkeys) ==
    LET prehash == compute_prehash(pubkeys, sig.x, msg)
        e(i) == compute_sighash(prehash, i - 1)
        sum == GAdd(GMul(sig.s, G),
                    GSum(Tuple(Len(pubkeys), LAMBDA i : GMul(SNeg(ScalarOf(e(i))), pubkeys[i]))))
    IN /\ Len(pubkeys) > 0
       /\ \A i \in DOMAIN pubkeys : ~Overflow(e(i))
       /\ XCoordinate(sum) = sig.x /\ quadY(sum)

-------------------------------------------------------------------------------
(* Signatures without a context                                            *)

Absent == <<>>

singleSignature(msg, key, k0, extra, pubnonceForE, total, pubkeyForE, turns, own) ==
    LET k == IF turns /\ ~quadY(total) THEN SNeg(k0) ELSE k0
        e == compute_sighash_single(IF pubnonceForE # Absent THEN pubnonceForE ELSE own, pubkeyForE, msg)
    IN Gives([x |-> XCoordinate(own), s |-> SAdd(SAdd(SMul(ScalarOf(key), e), k), ScalarOf(extra))])

\* secnonce = 0 has the nonce drawn from the seed; total is the sum of
\* everybody's nonces, whose sign decides over the sign of this one.
aggsig_sign_single(msg, key, secnonce, extra, pubnonceForE, total, pubkeyForE, seed) ==
    LET k0 == IF secnonce = 0 THEN generate_nonce_single(seed, 0).sec ELSE ScalarOf(secnonce)
    IN IF Overflow(key) \/ Overflow(extra) THEN Fails
       ELSE singleSignature(msg, key, k0, extra, pubnonceForE, IF total # Absent THEN total ELSE GMul(k0, G), pubkeyForE,
                     secnonce # 0, GMul(k0, G))

aggsig_verify_single(sig, msg, pubnonce, pubkey, pubkeyTotal, extraKey, isPartial) ==
    LET e == compute_sighash_single(IF pubnonce # Absent THEN pubnonce ELSE sig.x, pubkeyTotal, msg)
        sum0 == GAdd(GMul(sig.s, G), GMul(SNeg(e), pubkey))
        sum == IF extraKey # Absent THEN GAdd(sum0, GNeg(extraKey)) ELSE sum0
    IN XCoordinate(sum) = sig.x /\ (isPartial \/ quadY(sum))

aggsig_add_signatures_single(sigs, total) ==
    [x |-> XCoordinate(total), s |-> SSum(Tuple(Len(sigs), LAMBDA i : sigs[i].s))]

\* What is left of a sum without one of its signatures.  Only x coordinates
\* are known, so that there may be two answers, or none (-1).
aggsig_subtract_partial_signature(sig, partial) ==
    LET s == SAdd(sig.s, SNeg(partial.s))
        plus == GAdd(sig.x, GNeg(partial.x))
        minus == GAdd(GNeg(sig.x), GNeg(partial.x))
        candidates == {R \in {plus, minus} : quadY(R)}
    IN [ret |-> IF candidates = {} THEN -1 ELSE IF quadY(plus) /\ quadY(minus) THEN 2 ELSE 1,
        sigs |-> {[x |-> XCoordinate(R), s |-> s] : R \in candidates}]

\* Two parties sign with nonces and keys of their own; pub is what all see.
partyNonce(job, i) == generate_nonce_single(job.seed + i, 0).sec
public(job) ==
    [R |-> GSum(Tuple(2, LAMBDA i : GMul(partyNonce(job, i), G))),
     P |-> GSum(Tuple(2, LAMBDA i : GMul(job.keys[i], G)))]
partySig(job, i, extra, pub) ==
    aggsig_sign_single(job.msg, job.keys[i], partyNonce(job, i), IF i = 1 THEN extra ELSE 0,
                       pub.R, pub.R, pub.P, job.seed).v

\* With extra the first party adds a scalar that the verifier knows the point of.
checkedTogether(job, extra, pub, sigs, sum) ==
    LET point(i) == IF i = 1 /\ extra # 0 THEN GMul(extra, G) ELSE Absent
    IN [at |-> "together", job |-> job, extra |-> extra,
        partsAccepted |-> \A i \in 1 .. 2 :
            aggsig_verify_single(sigs[i], job.msg, pub.R, GMul(job.keys[i], G), pub.P, point(i), TRUE),
        sumAccepted |-> aggsig_verify_single(sum, job.msg, Absent, pub.P, pub.P, point(1), FALSE),
        rest |-> aggsig_subtract_partial_signature(sum, sigs[1]), second |-> sigs[2]]
addedTogether(job, extra, pub, sigs) ==
    checkedTogether(job, extra, pub, sigs, aggsig_add_signatures_single(sigs, pub.R))
signedTogether(job, extra, pub) ==
    addedTogether(job, extra, pub, Tuple(2, LAMBDA i : partySig(job, i, extra, pub)))
SignTogether(job, extra) ==
    /\ agg.at = "idle"
    /\ Len(job.keys) > 1
    /\ agg' = signedTogether(job, extra, public(job))

\* One party signs for itself, with a nonce of its own or one that is drawn.
signedAlone(job, P, sig) ==
    [at |-> "alone", accepted |-> aggsig_verify_single(sig, job.msg, Absent, P, P, Absent, FALSE)]
keepsTo(job, secnonce, P) ==
    signedAlone(job, P, aggsig_sign_single(job.msg, job.keys[1], secnonce, 0, Absent, Absent, P, job.seed).v)
SignAlone(job, secnonce) ==
    /\ agg.at = "idle"
    /\ agg' = keepsTo(job, secnonce, GMul(job.keys[1], G))

AggNext ==
    \/ \E job \in AggJobs : aggsig_context_create(job)
    \/ \E i \in 1 .. 3 : aggsig_generate_nonce(i)
    \/ \E i \in 1 .. 3 : agg.at = "context" /\ i \in DOMAIN agg.job.keys /\ aggsig_partial_sign(i, agg.job.keys[i])
    \/ \E i \in 1 .. 3 : PartialSignFails(i)
    \/ aggsig_combine_signatures
    \/ \E job \in AggJobs, extra \in AggExtras : SignTogether(job, extra) \/ SignAlone(job, extra)

-------------------------------------------------------------------------------
\* The signers whose secret nonce refused calls have turned around and left so.
late(a) == {i \in DOMAIN a.failures : a.failures[i] % 2 = 1}
combinedAccepted == aggsig_verify(combined, agg.job.msg, agg.pubkeys)

\* A signature combined from the parts of all keys verifies, in whatever order
\* the nonces were drawn and the parts signed, when no nonce was turned around
\* once too often, and not when that of one signer was: when the sum of the
\* nonces has no square y, every refused call has turned the secret nonce of
\* its index around and left it so.  Nonces that cancel have no signature.
CombinedSignatureVerifies ==
    agg.at = "combined" /\ agg.sum # Infinity =>
        /\ (agg.odd => late(agg) = {}) => combinedAccepted
        /\ \A i \in DOMAIN agg.failures : agg.odd /\ late(agg) = {i} => ~combinedAccepted

\* The parts of a signature that two parties make verify, so does their sum as
\* an ordinary signature of the sum of the keys, and taking one part away from
\* the sum leaves the other among the answers, whatever the signs of the nonces.
PartsAddUp ==
    agg.at = "together" =>
        /\ agg.partsAccepted /\ agg.sumAccepted
        /\ agg.extra = 0 => agg.rest.ret > 0 /\ agg.second \in agg.rest.sigs

\* What signers make is accepted: in one context, one by one, and alone.
SignersAreAccepted == CombinedSignatureVerifies /\ PartsAddUp /\ (agg.at = "alone" => agg.accepted)

\* What is accepted of a context is a signature for its message and its keys
\* alone, and none of its nonces was left turned around.
AcceptedMeansSigned ==
    agg.at = "combined" =>
        /\ combinedAccepted => (agg.odd => late(agg) = {})
        /\ ~aggsig_verify(combined, agg.job.msg + 1, agg.pubkeys)
        /\ ~aggsig_verify(combined, agg.job.msg, Append(agg.pubkeys, G))
===============================================================================
