------------------------------- MODULE Signatures ------------------------------
(***************************************************************************)
(* The interface of the library: contexts, keys and their tweaks, ECDSA    *)
(* with and without recovery, Schnorr signatures one by one and in         *)
(* batches, and ECDH (secp256k1.c, ecdsa_impl.h, eckey_impl.h and the      *)
(* modules recovery, schnorrsig and ecdh).  A public key of zeros, which   *)
(* a failed call leaves behind, is NoKey.                                  *)
(***************************************************************************)
EXTENDS DerCodec

CONSTANTS
    SignHash(_),    \* SHA-256 and the RFC 6979 generator, from tuples to 32 bytes
    SignJobs,       \* [key, msg, data: tuple, flags] to sign with
    Tweaks,         \* the 32-byte tweaks tried
    MaxTweaks,      \* bound on the tweaks of one key
    WireBytes       \* the bytes that are put into a signature on its way

VARIABLE signer

p_minus_order == FieldPrime - CurveOrder
NoKey == GeInfinity
endomorphism == TRUE

ASSUME SignaturesAssumption ==
    /\ \A job \in SignJobs : job.key \in Nat /\ job.msg \in Nat /\ job.data \in Seq(Nat)
    /\ Tweaks \subseteq Nat /\ MaxTweaks \in Nat /\ WireBytes \subseteq 0 .. ByteBase - 1
    \* the order is a prime
    /\ \A a \in 1 .. CurveOrder - 1 : \E i \in 1 .. CurveOrder - 1 : cmul(a, i) = 1

cinv(a) == IF a = 0 THEN 0 ELSE CHOOSE i \in 1 .. CurveOrder - 1 : cmul(a, i) = 1
product(P, na, ng) == ecmult_product(endomorphism, gej_set_ge(P), na, ng)
gen(k) == ge_set_gej(ecmult_gen(unblinded, k))

-------------------------------------------------------------------------------
(* Contexts.  A context has its own size and that of the tables it holds;  *)
(* a clone is given as much memory as the tables that are built take.      *)

ctxBytes == 208
signBytes == 65536
verifyBytes == 1048576
preallocated_size(flags) ==
    ctxBytes + (IF "sign" \in flags THEN signBytes ELSE 0) + (IF "verify" \in flags THEN verifyBytes ELSE 0)
context_preallocated_create(flags) ==
    [built |-> flags, room |-> preallocated_size(flags),
     taken |-> ctxBytes + (IF "sign" \in flags THEN signBytes ELSE 0)
                        + (IF "verify" \in flags THEN verifyBytes ELSE 0)]
context_create(flags) == context_preallocated_create(flags)
preallocated_clone_size(ctx) == preallocated_size(ctx.built)
context_preallocated_clone(ctx) == [ctx EXCEPT !.room = preallocated_clone_size(ctx)]
context_clone(ctx) == context_preallocated_clone(ctx)

-------------------------------------------------------------------------------
(* Keys.  Secret keys are 32 bytes and looked at when they are used.       *)

pubkey_load(P) == ~P.inf
ec_seckey_verify(k) == k < CurveOrder /\ k # 0
ec_pubkey_create(k) == IF ec_seckey_verify(k) THEN gen(k) ELSE NoKey

eckey_pubkey_serialize(P, compressed) ==
    IF compressed THEN <<IF P.y % 2 = 1 THEN 3 ELSE 2, P.x>> ELSE <<4, P.x, P.y>>
eckey_pubkey_parse(bytes) ==
    IF Len(bytes) = 2 /\ bytes[1] \in {2, 3}
    THEN IF bytes[2] < FieldPrime THEN ge_set_xo_var(bytes[2], bytes[1] - 2) ELSE Fails
    ELSE IF Len(bytes) = 3 /\ bytes[1] \in {4, 6, 7}
    THEN IF /\ bytes[2] < FieldPrime /\ bytes[3] < FieldPrime
            /\ bytes[1] # 4 => bytes[3] % 2 = bytes[1] - 6
            /\ ge_is_valid_var(Ge(bytes[2], bytes[3]))
         THEN Gives(Ge(bytes[2], bytes[3])) ELSE Fails
    ELSE Fails

\* The secret key that is tweaked may be any number; a failed call clears it.
ec_privkey_tweak_add(k, t) ==
    IF t < CurveOrder /\ cadd(k % CurveOrder, t) # 0 THEN Gives(cadd(k % CurveOrder, t)) ELSE Fails
ec_privkey_tweak_mul(k, t) == IF t < CurveOrder /\ t # 0 THEN Gives(cmul(k % CurveOrder, t)) ELSE Fails
ec_privkey_negate(k) == cneg(k % CurveOrder)
ec_privkey_tweak_neg(k) == IF k < CurveOrder THEN Gives(cneg(k)) ELSE Fails
ec_privkey_tweak_inv(k) == IF k < CurveOrder THEN Gives(cinv(k)) ELSE Fails

affineSum(sum) == IF sum.inf THEN Fails ELSE Gives(ge_set_gej(sum))
ec_pubkey_tweak_add(P, t) == IF t >= CurveOrder \/ ~pubkey_load(P) THEN Fails ELSE affineSum(product(P, 1, t))
ec_pubkey_tweak_mul(P, t) ==
    IF t >= CurveOrder \/ ~pubkey_load(P) \/ t = 0 THEN Fails ELSE Gives(ge_set_gej(product(P, t, 0)))
ec_pubkey_negate(P) == IF pubkey_load(P) THEN Gives(ge_neg(P)) ELSE Fails
ec_pubkey_combine(Ps) ==
    LET sum[i \in 0 .. Len(Ps)] == IF i = 0 THEN GejInfinity ELSE gej_add_ge(sum[i - 1], Ps[i])
    IN affineSum(sum[Len(Ps)])

\* The hash of a shared point in compressed form.
ecdh(P, k) ==
    IF k >= CurveOrder \/ k = 0 THEN Fails
    ELSE Gives(SignHash(eckey_pubkey_serialize(ge_set_gej(ecmult_const(endomorphism, P, k)), TRUE)))

-------------------------------------------------------------------------------
(* ECDSA                                                                   *)

nonce_function_rfc6979(msg, key, data, count) == SignHash(<<key, msg>> \o data \o <<count>>)

\* Mutant of lowSignature: the parity is not turned with s.
lowSignature_sameParity(r, s, parity) ==
    LET recid == IF r.overflow THEN 2 ELSE 0
    IN IF s = 0 THEN Fails
       ELSE Gives([r |-> r.v, s |-> IF isHigh(s) THEN cneg(s) ELSE s, recid |-> recid + parity])

\* recid: whether the x of the nonce went beyond the order, and the parity of
\* its y, which turns with s.
lowSignature(r, s, parity) ==
    LET recid == IF r.overflow THEN 2 ELSE 0
    IN IF s = 0 THEN Fails
       ELSE Gives([r |-> r.v, s |-> IF isHigh(s) THEN cneg(s) ELSE s,
                   recid |-> recid + (IF isHigh(s) THEN 1 - parity ELSE parity)])
signedAt(R, r, key, msg, nonce) == lowSignature(r, cmul(cinv(nonce), cadd(cmul(r.v, key), msg)), R.y % 2)
signedWith(R, key, msg, nonce) == signedAt(R, scalar_set_b32(R.x), key, msg, nonce)
ecdsa_sig_sign(key, msg, nonce) == signedWith(gen(nonce), key, msg, nonce)

\* Nonces are drawn until one is a scalar other than 0 and its signature has an s.
\* The code draws without end unless the nonce function gives up, which it is
\* taken to do after MaxDraws.
MaxDraws == 31
firstMade(tries) ==
    IF \E c \in DOMAIN tries : tries[c].ok
    THEN tries[CHOOSE c \in DOMAIN tries : tries[c].ok /\ \A b \in 0 .. c - 1 : ~tries[b].ok] ELSE Fails
tryNonce(key, msg, nonce) == IF nonce = 0 \/ nonce >= CurveOrder THEN Fails ELSE ecdsa_sig_sign(key, msg, nonce)
ecdsa_sign_recoverable(key, msg, data) ==
    IF ec_seckey_verify(key)
    THEN firstMade([c \in 0 .. MaxDraws - 1 |->
                      tryNonce(key, msg % CurveOrder, nonce_function_rfc6979(msg, key, data, c))]) ELSE Fails
ecdsa_sign(key, msg, data) == ecdsa_sign_recoverable(key, msg, data)

hasX(R, r) == ~R.inf /\ (gej_eq_x_var(r, R) \/ (r < p_minus_order /\ gej_eq_x_var(r + CurveOrder, R)))
ecdsa_sig_verify(r, s, P, msg) ==
    r # 0 /\ s # 0 /\ hasX(product(P, cmul(cinv(s), r), cmul(cinv(s), msg)), r)

\* Only signatures with a low s are accepted.
ecdsa_verify(sig, msg, P) ==
    ~isHigh(sig.s) /\ pubkey_load(P) /\ ecdsa_sig_verify(sig.r, sig.s, P, msg % CurveOrder)
ecdsa_signature_normalize(sig) ==
    [ret |-> isHigh(sig.s), sig |-> [sig EXCEPT !.s = IF isHigh(@) THEN cneg(@) ELSE @]]

affineOrFails(Q) == IF Q.inf THEN Fails ELSE Gives(ge_set_gej_var(Q))
recoverFrom(x, sig, msg) ==
    IF ~x.ok THEN Fails
    ELSE affineOrFails(product(x.v, cmul(cinv(sig.r), sig.s), cneg(cmul(cinv(sig.r), msg))))
ecdsa_sig_recover(sig, msg) ==
    LET beyond == sig.recid >= 2
    IN IF sig.r = 0 \/ sig.s = 0 \/ (beyond /\ sig.r >= p_minus_order) THEN Fails
       ELSE recoverFrom(ge_set_xo_var(IF beyond THEN sig.r + CurveOrder ELSE sig.r, sig.recid % 2), sig, msg)
orNoKey(Q) == IF Q.ok THEN Q.v ELSE NoKey
ecdsa_recover(sig, msg) == orNoKey(ecdsa_sig_recover(sig, msg % CurveOrder))
recoverable_signature_parse_compact(r, s, recid) ==
    LET sig == ecdsa_signature_parse_compact(r, s)
    IN IF recid \in 0 .. 3 /\ sig.ok THEN Gives([r |-> r, s |-> s, recid |-> recid]) ELSE Fails

-------------------------------------------------------------------------------
(* Schnorr signatures                                                      *)

nonce_function_bipschnorr(msg, key) == SignHash(<<key, msg>>)
schnorrE(rx, P, msg) == scalar_set_b32(SignHash(<<rx>> \o eckey_pubkey_serialize(P, TRUE) \o <<msg>>)).v

\* The nonce is reduced and turned so that its point has a square y.
schnorrWith(R, key, msg, k0) ==
    LET k == IF isSquare(R.y) THEN k0 ELSE cneg(k0)
    IN Gives([rx |-> R.x, s |-> cadd(cmul(schnorrE(R.x, gen(key), msg), key), k), negated |-> k # k0])
schnorrByNonce(key, msg, k0) == IF k0 = 0 THEN Fails ELSE schnorrWith(gen(k0), key, msg, k0)
schnorrsig_sign(key, msg) ==
    IF ~ec_seckey_verify(key) THEN Fails
    ELSE schnorrByNonce(key, msg, scalar_set_b32(nonce_function_bipschnorr(msg, key)).v)

schnorrsig_real_verify(s, e, P) == product(P, cneg(e), s)
squareAt(R, rx) == gej_has_quad_y_var(R) /\ gej_eq_x_var(rx, R)
schnorrsig_verify(sig, msg, P) ==
    /\ sig.rx < FieldPrime /\ sig.s < CurveOrder
    /\ pubkey_load(P)
    /\ squareAt(schnorrsig_real_verify(sig.s, schnorrE(sig.rx, P, msg), P), sig.rx)

\* A batch: [sig, msg, P] each.  The first has the factor 1, the others two at
\* a time from a generator seeded with all of it (but for the last byte of
\* every key); they are taken to be other than 0.
schnorrsig_verify_batch_init_randomizer(sigs) ==
    SignHash(Flat(Len(sigs), LAMBDA i : <<sigs[i].sig.rx, sigs[i].sig.s, sigs[i].msg>>
                                        \o eckey_pubkey_serialize(sigs[i].P, TRUE)))
randomizer(seed, i) ==
    IF i = 0 THEN 1 ELSE 1 + (SignHash(<<seed, (i + 1) \div 2, (i + 1) % 2>>) % (CurveOrder - 1))

schnorrsig_verify_batch_sum_s(seed, sigs) ==
    LET sum[i \in 0 .. Len(sigs)] ==
          IF i = 0 THEN 0 ELSE cadd(sum[i - 1], cmul(sigs[i].sig.s, randomizer(seed, i - 1)))
    IN sum[Len(sigs)]

\* The scalar and the point at idx, or that there is none.
verify_batch_ecmult_callback(seed, sigs, idx) ==
    LET one == sigs[(idx \div 2) + 1]
        a == randomizer(seed, idx \div 2)
        R == ge_set_xquad(one.sig.rx)
    IN IF idx % 2 = 0
       THEN IF one.sig.rx < FieldPrime /\ R.ok THEN Gives([s |-> a, P |-> R.v]) ELSE Fails
       ELSE IF pubkey_load(one.P)
            THEN Gives([s |-> cmul(schnorrE(one.sig.rx, one.P, one.msg), a), P |-> one.P]) ELSE Fails

termsVanish(terms, s) ==
    LET first == [P |-> GeInfinity, s |-> 0]
        term(i, one) == product(one.P, one.s, IF i = 0 THEN cneg(s) ELSE NoScalar)
        sum[i \in -1 .. Len(terms)] ==
            IF i = -1 THEN GejInfinity ELSE gej_add_var(sum[i - 1], term(i, IF i = 0 THEN first ELSE terms[i].v))
    IN (\A i \in DOMAIN terms : terms[i].ok) /\ sum[Len(terms)].inf
batchVerifies(seed, sigs) ==
    termsVanish(Tuple(2 * Len(sigs), LAMBDA i : verify_batch_ecmult_callback(seed, sigs, i - 1)),
                schnorrsig_verify_batch_sum_s(seed, sigs))
schnorrsig_verify_batch(sigs) ==
    /\ \A i \in DOMAIN sigs : sigs[i].sig.s < CurveOrder
    /\ batchVerifies(schnorrsig_verify_batch_init_randomizer(sigs), sigs)

-------------------------------------------------------------------------------
(* One signer.  It tweaks its secret key, and whoever knows only the       *)
(* public key tweaks that; it signs, and the signatures travel.            *)

SignerIdle == [at |-> "idle"]

SignerBegin(job) ==
    /\ signer.at = "idle"
    /\ signer' = [at |-> "key", ctx |-> context_clone(context_create(job.flags)), flags |-> job.flags,
                  key |-> job.key, P |-> ec_pubkey_create(job.key), msg |-> job.msg, data |-> job.data,
                  tweaks |-> 0, batch |-> <<>>, spoiled |-> FALSE]

\* Both sides go on when both could; a side that could not has cleared its key.
tweaked(secret, public) ==
    IF secret.ok /\ public.ok
    THEN [signer EXCEPT !.key = secret.v, !.P = public.v, !.tweaks = @ + 1]
    ELSE [at |-> "stopped", valid |-> ec_seckey_verify(signer.key), secret |-> secret.ok, public |-> public.ok]

mayTweak == signer.at = "key" /\ signer.tweaks < MaxTweaks

TweakAdd(t) ==
    /\ mayTweak /\ "verify" \in signer.ctx.built
    /\ signer' = tweaked(ec_privkey_tweak_add(signer.key, t), ec_pubkey_tweak_add(signer.P, t))
TweakMul(t) ==
    /\ mayTweak /\ "verify" \in signer.ctx.built
    /\ signer' = tweaked(ec_privkey_tweak_mul(signer.key, t), ec_pubkey_tweak_mul(signer.P, t))
TweakNegate ==
    /\ mayTweak
    /\ signer' = tweaked(Gives(ec_privkey_negate(signer.key)), ec_pubkey_negate(signer.P))
known(P) == IF P = NoKey THEN Fails ELSE Gives(P)
withItsKey(secret) == tweaked(secret, known(IF secret.ok THEN ec_pubkey_create(secret.v) ELSE NoKey))
TweakInvert ==
    /\ mayTweak
    /\ signer' = withItsKey(ec_privkey_tweak_inv(signer.key))
\* Adding the key of t to the public key.
Combine(t) ==
    /\ mayTweak
    /\ ec_seckey_verify(t) /\ pubkey_load(signer.P)
    /\ signer' = tweaked(ec_privkey_tweak_add(signer.key, t), ec_pubkey_combine(<<signer.P, ec_pubkey_create(t)>>))

signedEcdsa(sig) ==
    [at |-> "ecdsa", key |-> signer.key, P |-> signer.P, msg |-> signer.msg,
     made |-> sig.ok, sig |-> IF sig.ok THEN sig.v ELSE [r |-> 0, s |-> 0, recid |-> 0]]
SignEcdsa ==
    /\ signer.at = "key"
    /\ "verify" \in signer.ctx.built
    /\ signer' = signedEcdsa(ecdsa_sign_recoverable(signer.key, signer.msg, signer.data))

\* Anybody may put other numbers there.
Replace(r, s) ==
    /\ signer.at = "ecdsa" /\ signer.made
    /\ signer' = [signer EXCEPT !.made = FALSE, !.sig = [r |-> r, s |-> s, recid |-> 0]]

SendDer ==
    /\ signer.at = "ecdsa" /\ signer.made
    /\ ecdsa_sig_serialize(signer.sig, 2 * ScalarBytes + 8).ok
    /\ signer' = [at |-> "wire", r |-> signer.sig.r, s |-> signer.sig.s, edits |-> 0,
                  bytes |-> ecdsa_sig_serialize(signer.sig, 2 * ScalarBytes + 8).v]

\* One byte is replaced, put in or left out.
Mangle(i, new) ==
    /\ signer.at = "wire" /\ signer.edits = 0
    /\ i \in DOMAIN signer.bytes
    /\ \E upTo \in {i - 1, i} :
          signer' = [signer EXCEPT !.edits = 1,
                       !.bytes = SubSeq(@, 1, upTo) \o new \o SubSeq(@, i + 1, Len(@))]

\* Signatures of several keys are collected and one of them may be spoiled.
collected(sig) ==
    IF sig.ok THEN [signer EXCEPT !.batch = Append(@, [sig |-> sig.v, msg |-> signer.msg, P |-> signer.P])]
    ELSE [at |-> "stopped", valid |-> ec_seckey_verify(signer.key), secret |-> FALSE, public |-> FALSE]
SignSchnorr ==
    /\ signer.at = "key"
    /\ "verify" \in signer.ctx.built
    /\ Len(signer.batch) <= signer.tweaks
    /\ signer' = collected(schnorrsig_sign(signer.key, signer.msg))

SpoilSchnorr(i) ==
    /\ signer.at = "key" /\ ~signer.spoiled
    /\ i \in DOMAIN signer.batch
    /\ signer' = [signer EXCEPT !.spoiled = TRUE, !.tweaks = MaxTweaks,
                                !.batch[i].sig.s = cadd(@, 1)]

SignerNext ==
    \/ \E job \in SignJobs : SignerBegin(job)
    \/ \E t \in Tweaks : TweakAdd(t) \/ TweakMul(t) \/ Combine(t)
    \/ TweakNegate
    \/ TweakInvert
    \/ SignEcdsa
    \/ \E r \in 0 .. CurveOrder - 1, s \in Tweaks : s < CurveOrder /\ Replace(r, s)
    \/ SendDer
    \/ \E i \in 1 .. 2 * ScalarBytes + 8, new \in {<<>>} \union {<<b>> : b \in WireBytes} : Mangle(i, new)
    \/ SignSchnorr
    \/ \E i \in 1 .. MaxTweaks + 1 : SpoilSchnorr(i)

-------------------------------------------------------------------------------
\* ECDSA as the textbook has it, with a low s.
validEcdsa(r, s, key, msg) ==
    LET R == pointOf(cmul(cinv(s), cadd(msg % CurveOrder, cmul(r, key))))
    IN r # 0 /\ s # 0 /\ ~isHigh(s) /\ ~R.inf /\ R.x % CurveOrder = r

\* Whatever tweaks a key went through, the owner of the secret key and those
\* who know the public key arrive at the same pair or fail together; a valid key
\* signs, what its owner signs verifies under it, its recovery gives the key, its other half
\* (n - s) does not verify until it is normalized; nothing verifies that the
\* textbook would refuse, also where the nonce's x is beyond the order; a batch
\* is accepted exactly when each of its signatures is; and a shared secret is
\* the same on both sides.
SignaturesVerify ==
    /\ signer.at = "key" =>
          /\ ec_seckey_verify(signer.key) =>
                signer.P = pointOf(signer.key) /\ ecdsa_sign(signer.key, signer.msg, signer.data).ok
          /\ signer.tweaks > 0 => ec_seckey_verify(signer.key)
          /\ signer.ctx = context_create(signer.flags) /\ signer.ctx.taken = signer.ctx.room
          /\ schnorrsig_verify_batch(signer.batch) = ~signer.spoiled
          /\ signer.spoiled = \E i \in DOMAIN signer.batch :
                ~schnorrsig_verify(signer.batch[i].sig, signer.batch[i].msg, signer.batch[i].P)
          /\ ec_seckey_verify(signer.key) =>
                \A k \in {1, 2} : \A ends \in {<<signer.P, k>>, <<pointOf(k), signer.key>>} :
                   ecdh(ends[1], ends[2]) = Gives(SignHash(eckey_pubkey_serialize(pointOf(k * signer.key), TRUE)))
          /\ \A compressed \in BOOLEAN : ~signer.P.inf =>
                eckey_pubkey_parse(eckey_pubkey_serialize(signer.P, compressed)) = Gives(signer.P)
    /\ signer.at = "stopped" => (signer.valid => signer.secret = signer.public)
    /\ signer.at = "ecdsa" =>
          /\ \A s \in {signer.sig.s, cneg(signer.sig.s)} :
                ecdsa_verify([signer.sig EXCEPT !.s = s], signer.msg, signer.P)
                   <=> ~signer.P.inf /\ validEcdsa(signer.sig.r, s, signer.key, signer.msg)
          /\ signer.made =>
                /\ validEcdsa(signer.sig.r, signer.sig.s, signer.key, signer.msg)
                /\ ecdsa_recover(signer.sig, signer.msg) = signer.P
                /\ ecdsa_signature_normalize([signer.sig EXCEPT !.s = cneg(@)]).sig = signer.sig

\* Signatures on the wire mean one thing: the strict reader gives back what
\* was written and takes no other bytes for it, one byte changed, put in or
\* left out; and what it reads as two numbers other than 0 the lax reader reads
\* as the same.
wireMeans(strict, bytes) ==
    /\ signer.edits = 0 => strict = [ret |-> TRUE, sig |-> [r |-> signer.r, s |-> signer.s]]
    /\ strict.ret /\ strict.sig.r # 0 /\ strict.sig.s # 0 =>
          /\ ecdsa_sig_serialize(strict.sig, Len(bytes)).v = bytes
          /\ ecdsa_signature_parse_der_lax(bytes) = strict
    /\ ~ecdsa_sig_serialize(strict.sig, ecdsa_sig_serialize(strict.sig, 0).size - 1).ok
WireFormsAgree == signer.at = "wire" => wireMeans(ecdsa_signature_parse_der(signer.bytes), signer.bytes)
===============================================================================
