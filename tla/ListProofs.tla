------------------------------ MODULE ListProofs ------------------------------
(***************************************************************************)
(* Borromean ring signatures over lists: surjection proofs (an output's    *)
(* asset is that of one of the inputs) and whitelist signatures (the       *)
(* signer owns one pair of listed keys).                                   *)
(***************************************************************************)
EXTENDS RangeProof, FiniteSets

CONSTANTS
    MaxKeys,            \* SECP256K1_WHITELIST_MAX_N_KEYS and SECP256K1_SURJECTIONPROOF_MAX_N_INPUTS (256)
    SurjectionJobs,     \* the proofs asked for
    WhitelistJobs       \* the signatures asked for

VARIABLE list           \* one proof over a list, from its maker to its reader

ASSUME ListAssumption == MaxKeys \in Nat /\ MaxKeys > 0

\* Assets have generators, an input has an asset and a blinding key, a listed
\* entry an online and an offline secret, and own is one of the entries.
ASSUME ListJobAssumption ==
    /\ SurjectionJobs \subseteq [fixed : Seq(1 .. Dim - 1), tag : 1 .. Dim - 1, use : Nat, tries : Nat,
                                 inKeys : Seq(Nat), outKey : Nat]
    /\ \A job \in SurjectionJobs : Len(job.inKeys) = Len(job.fixed)
    /\ WhitelistJobs \subseteq [online : Seq(Scalar), offline : Seq(Scalar), sub : Scalar, own : Nat, index : Nat]
    /\ \A job \in WhitelistJobs : Len(job.offline) = Len(job.online) /\ job.own \in 1 .. Len(job.online)

ListIdle == [at |-> "idle"]

-------------------------------------------------------------------------------
(* Surjection proofs.  Indices count from 0, used is the set of inputs     *)
(* whose bit is set.                                                       *)

\* The differences to the output of the used inputs, in the order of the inputs.
nthUsed(used, j) == CHOOSE i \in used : Cardinality({k \in used : k < i}) = j - 1
surjection_compute_public_keys(inputs, used, output) ==
    Tuple(Cardinality(used), LAMBDA j : GAdd(GNeg(inputs[nthUsed(used, j) + 1]), output))

surjection_genmessage(inputs, output) == RangeHash(Flat(Len(inputs), LAMBDA i : inputs[i]) \o output)

\* Each value is the hash of its number and of the hash before it.
surjection_genrand(n, key) ==
    LET s[i \in 0 .. n] == IF i = 0 THEN key ELSE RangeHash(<<i - 1, s[i - 1], key>>)
    IN [ok |-> \A i \in 1 .. n : ~Overflow(s[i]), s |-> Tuple(n, LAMBDA i : ScalarOf(s[i]))]

surjectionproof_serialized_size(n, used) == 2 + (n + 7) \div 8 + 32 * (1 + Cardinality(used))

\* As many inputs as are allowed can be sent here.
surjectionproof_serialize(proof) ==
    [n |-> proof.n, used |-> proof.used, data |-> <<proof.e0>> \o proof.s,
     len |-> surjectionproof_serialized_size(proof.n, proof.used)]
surjectionproof_parse(bytes) ==
    IF bytes.n > MaxKeys \/ bytes.len # surjectionproof_serialized_size(bytes.n, bytes.used) THEN Fails
    ELSE Gives([n |-> bytes.n, used |-> bytes.used, e0 |-> Head(bytes.data), s |-> Tail(bytes.data)])

surjectionFrom(n, used, signed) ==
    IF signed.ok THEN Gives([n |-> n, used |-> used, e0 |-> signed.v.e0, s |-> signed.v.s[1]]) ELSE Fails

\* The proof must be initialized with the number of its inputs; equal keys
\* are let through only when nothing was blinded.
surjectionproof_generate(n, used, inputs, output, index, inKey, outKey) ==
    LET key == SAdd(ScalarOf(outKey), SNeg(ScalarOf(inKey)))
        rand == surjection_genrand(Cardinality(used), key)
        at == Cardinality({i \in used : i < index}) + 1
    IN IF \/ Overflow(inKey) \/ Overflow(outKey)
          \/ ScalarOf(inKey) = ScalarOf(outKey) /\ ScalarOf(outKey) # 0
          \/ Cardinality(used) > n \/ n # Len(inputs)
          \/ ~rand.ok
       THEN Fails
       ELSE surjectionFrom(n, used, borromean_sign(<<[rand.s EXCEPT ![at] = 0]>>,
                     <<surjection_compute_public_keys(inputs, used, output)>>,
                     <<rand.s[at]>>, <<key>>, <<at - 1>>, surjection_genmessage(inputs, output)))

surjectionproof_verify(proof, inputs, output) ==
    /\ proof.used # {}
    /\ Cardinality(proof.used) <= proof.n
    /\ proof.n = Len(inputs)
    /\ borromean_verify(proof.e0, <<proof.s>>,
          <<surjection_compute_public_keys(inputs, proof.used, output)>>,
          surjection_genmessage(inputs, output)).ok

\* job = [fixed: tags of the inputs, tag: the output's, use: how many to use,
\*        tries: n_max_iterations, inKeys, outKey: blinding keys]
SurjectionBegin(job) ==
    /\ list.at = "idle"
    /\ Len(job.fixed) <= MaxKeys /\ job.use <= Len(job.fixed)
    /\ list' = [at |-> "drawing", job |-> job, used |-> {}, index |-> 0, has |-> FALSE, tries |-> 0]

\* One number from the generator (any below the number of inputs), and the end
\* of the iteration when enough inputs are in the set.
SurjectionDraw(next) ==
    LET job == list.job
        match == job.fixed[next + 1] = job.tag
        used == list.used \union {next}
    IN /\ list.at = "drawing"
       /\ Cardinality(list.used) < job.use
       /\ next \in 0 .. Len(job.fixed) - 1
       /\ list' = [list EXCEPT !.used = used,
                               !.has = @ \/ match,
                               !.index = IF match THEN next ELSE @]

SurjectionRound ==
    /\ list.at = "drawing"
    /\ Cardinality(list.used) = list.job.use
    /\ list' = IF list.has THEN [list EXCEPT !.at = "initialized", !.tries = @ + 1]
               ELSE IF list.tries + 1 >= list.job.tries THEN [at |-> "refused"]
               ELSE [list EXCEPT !.used = {}, !.tries = @ + 1]

assetTag(asset, key) == generator_generate_blinded(Unit(1 + asset), key)
surjectionInputs(job) == Tuple(Len(job.fixed), LAMBDA i : assetTag(job.fixed[i], job.inKeys[i]))
surjectionOutput(job) == assetTag(job.tag, job.outKey)

SurjectionGenerate ==
    LET job == list.job IN
    /\ list.at = "initialized"
    /\ list' = [at |-> "generated", job |-> job, index |-> list.index,
                proof |-> surjectionproof_generate(Len(job.fixed), list.used, surjectionInputs(job),
                             surjectionOutput(job), list.index, job.inKeys[list.index + 1], job.outKey)]

SurjectionVerify(altered) ==
    LET job == list.job
        inputs == IF altered = "inputs" THEN Tail(surjectionInputs(job)) \o <<J>> ELSE surjectionInputs(job)
        output == IF altered = "output" THEN assetTag(job.tag + 1, job.outKey) ELSE surjectionOutput(job)
        sent == surjectionproof_parse(surjectionproof_serialize(list.proof.v))
    IN /\ list.at = "generated"
       /\ list.proof.ok
       /\ altered \in {"none", "inputs", "output"}
       /\ list' = [at |-> "surjection", altered |-> altered, job |-> job, used |-> list.proof.v.used,
                   accepted |-> sent.ok /\ surjectionproof_verify(sent.v, inputs, output)]

-------------------------------------------------------------------------------
(* Whitelist signatures                                                    *)

whitelist_hash_pubkey(P) ==
    IF P = Infinity \/ ~usable(RangeHash(P)) THEN Fails ELSE Gives(ScalarOf(RangeHash(P)))

\* Mutant of whitelist_tweak_pubkey: the tweak is computed and not applied.
whitelist_tweak_pubkey_unused(P) == P

\* When the hash fails the key stays as it is, and nobody looks.
whitelist_tweak_pubkey(P) ==
    LET tweak == whitelist_hash_pubkey(P) IN IF tweak.ok THEN GMul(tweak.v, P) ELSE P

whitelist_compute_tweaked_privkey(online, summed) ==
    LET tweak == whitelist_hash_pubkey(GMul(ScalarOf(summed), G))
    IN IF ~usable(summed) \/ ~tweak.ok \/ ~usable(online) THEN Fails
       ELSE Gives(SAdd(SMul(ScalarOf(summed), tweak.v), ScalarOf(online)))

whitelistKeys(onlines, offlines, sub) ==
    Tuple(Len(onlines), LAMBDA i : GAdd(whitelist_tweak_pubkey(GAdd(offlines[i], sub)), onlines[i]))
whitelistMessage(onlines, offlines, sub) ==
    RangeHash(sub \o Flat(Len(onlines), LAMBDA i : offlines[i] \o onlines[i]))

\* The first count of the nonce function for which every value can be used.
whitelistNonces(n, msg, sec) ==
    LET draw(count, i) == RangeHash(<<msg, i, sec, count>>)
        good(count) == \A i \in 0 .. n : usable(draw(count, i))
        count == CHOOSE c \in 0 .. 9 : good(c) /\ \A b \in 0 .. c - 1 : ~good(b)
    IN Tuple(n + 1, LAMBDA i : ScalarOf(draw(count, i - 1)))

whitelistFrom(n, signed) == IF signed.ok THEN Gives([n |-> n, e0 |-> signed.v.e0, s |-> signed.v.s[1]]) ELSE Fails
whitelist_sign(onlines, offlines, sub, online, summed, index) ==
    LET sec == whitelist_compute_tweaked_privkey(online, summed)
        msg == whitelistMessage(onlines, offlines, sub)
        signed(nonces) == borromean_sign(<<Tail(nonces)>>, <<whitelistKeys(onlines, offlines, sub)>>,
                                         <<nonces[1]>>, <<sec.v>>, <<index>>, msg)
    IN IF Len(onlines) > MaxKeys \/ index >= Len(onlines) \/ ~sec.ok THEN Fails
       ELSE whitelistFrom(Len(onlines), signed(whitelistNonces(Len(onlines), msg, sec.v)))

whitelist_verify(sig, onlines, offlines, sub) ==
    /\ sig.n <= MaxKeys
    /\ sig.n = Len(onlines)
    /\ \A i \in 1 .. sig.n : sig.s[i] # 0
    /\ borromean_verify(sig.e0, <<sig.s>>, <<whitelistKeys(onlines, offlines, sub)>>,
                        whitelistMessage(onlines, offlines, sub)).ok

\* One byte holds the number of keys, and MaxKeys itself is refused.
whitelist_signature_serialize(sig) ==
    [count |-> sig.n % MaxKeys, data |-> <<sig.e0>> \o sig.s, len |-> 1 + 32 * (sig.n + 1)]
whitelist_signature_parse(bytes) ==
    IF bytes.count >= MaxKeys \/ bytes.len # 1 + 32 * (bytes.count + 1) THEN Fails
    ELSE Gives([n |-> bytes.count, e0 |-> Head(bytes.data), s |-> Tail(bytes.data)])

\* job = [online, offline: the secrets of the keys; sub: the secret of the
\*        key to be listed; own: whose secrets are used; index: where they claim to be]
WhitelistSign(job) ==
    LET keys(s) == Tuple(Len(s), LAMBDA i : GMul(s[i], G))
    IN /\ list.at = "idle"
       /\ list' = [at |-> "listed", job |-> job,
                   onlines |-> keys(job.online), offlines |-> keys(job.offline), sub |-> GMul(job.sub, G),
                   proof |-> whitelist_sign(keys(job.online), keys(job.offline), GMul(job.sub, G),
                                job.online[job.own], SAdd(job.offline[job.own], job.sub), job.index)]

\* The signature travels as bytes and is checked against the keys held there.
WhitelistVerify(altered) ==
    LET sig == whitelist_signature_parse(whitelist_signature_serialize(list.proof.v))
        swap == altered = "swapped"
    IN /\ list.at = "listed"
       /\ list.proof.ok
       /\ altered \in {"none", "swapped", "sub"}
       /\ list' = [at |-> "whitelist", altered |-> altered, job |-> list.job,
                   parsed |-> sig.ok,
                   accepted |-> sig.ok /\ whitelist_verify(sig.v,
                                   IF swap THEN list.offlines ELSE list.onlines,
                                   IF swap THEN list.onlines ELSE list.offlines,
                                   IF altered = "sub" THEN GAdd(list.sub, G) ELSE list.sub)]

ListNext ==
    \/ \E job \in SurjectionJobs : SurjectionBegin(job)
    \/ \E next \in 0 .. 3 : SurjectionDraw(next)
    \/ SurjectionRound
    \/ SurjectionGenerate
    \/ \E altered \in {"none", "inputs", "output"} : SurjectionVerify(altered)
    \/ \E job \in WhitelistJobs : WhitelistSign(job)
    \/ \E altered \in {"none", "swapped", "sub"} : WhitelistVerify(altered)

unblindedMatch(job, used) ==
    \E i \in used : surjectionInputs(job)[i + 1] = surjectionOutput(job)

\* A listed key whose tweak takes its online key away is no key.
emptyEntry(job) ==
    LET keys(s) == Tuple(Len(s), LAMBDA i : GMul(s[i], G))
    IN \E i \in DOMAIN job.online :
          whitelistKeys(keys(job.online), keys(job.offline), GMul(job.sub, G))[i] = Infinity

\* A proof over a list that was made with the secret of an entry at its place
\* is accepted: an initialized surjection proof names an input of the output's
\* asset, whatever numbers were drawn; the owner of the online and the offline
\* secret of one entry is believed at that entry's place.
\* Two proofs that were made are lost: a surjection proof that counts an
\* unblinded input equal to its output (the signer lets it through, but the
\* difference is the point at infinity, which the verifier refuses), and a
\* whitelist signature over as many keys as are allowed, which cannot be sent.
ListProofsNameAnEntry ==
    /\ list.at = "generated" => list.job.fixed[list.index + 1] = list.job.tag
    /\ list.at = "surjection" /\ list.altered = "none" => (list.accepted <=> ~unblindedMatch(list.job, list.used))
    /\ list.at = "whitelist" =>
          /\ list.parsed <=> Len(list.job.online) < MaxKeys
          /\ list.accepted => list.parsed
          /\ list.parsed /\ list.altered = "none" /\ list.job.own = list.job.index + 1 =>
                (list.accepted <=> ~emptyEntry(list.job))

\* Who is believed is on the list: a proof is bound to all of its inputs and
\* its output, or to all keys, and nobody signs at another's place.
AcceptedMeansListed ==
    /\ list.at = "surjection" /\ list.accepted => list.altered = "none"
    /\ list.at = "whitelist" /\ list.accepted => list.altered = "none" /\ list.job.own = list.job.index + 1
===============================================================================
