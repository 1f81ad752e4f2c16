------------------------------ MODULE RangeProof ------------------------------
(***************************************************************************)
(* Range proofs (modules/rangeproof): a Borromean ring signature for each  *)
(* base-4 digit of the committed value, the header that says which range   *)
(* is shown, and the rewinding that gives the owner of the nonce the value,*)
(* the blinding factor and a message back.                                 *)
(***************************************************************************)
EXTENDS Commitments

CONSTANTS
    RangeHash(_),       \* SHA-256 and the RFC 6979 generator, from tuples to 32 bytes
    Word,               \* the width of uint64_t
    MaxExp,             \* the largest exponent (18 for 64 bits)
    RangeJobs           \* the proofs asked for

VARIABLE range          \* one proof from its maker to its reader

ASSUME RangeAssumption ==
    /\ Word \in Nat /\ Word > 3
    /\ MaxExp \in Nat /\ powerOf(10, MaxExp) < powerOf(2, Word - 1)
    \* no multiple of a digit's weight that a ring has is 0
    /\ Order > 4 * powerOf(2, Word)
    \* what the powers of ten leave of the word is room for a minimum above them
    /\ \A e \in 1 .. MaxExp, b \in 1 .. Word - 3 :
          (powerOf(2, b) - 1) * powerOf(10, e) < powerOf(2, Word) =>
             powerOf(2, b) * powerOf(10, e) + powerOf(2, Word - b) <= powerOf(2, Word)
    /\ Dim > 2

\* Values and minima fit their words; all else is numbers.
ASSUME RangeJobAssumption ==
    RangeJobs \subseteq [value : 0 .. powerOf(2, Word) - 1, min : 0 .. powerOf(2, Word) - 1,
                        exp : Int, minBits : Int, blind : Nat, nonce : Nat, message : Seq(Nat),
                        extra : Seq(Nat), plen : Nat, genBlind : Nat]

UMax == powerOf(2, Word) - 1
SMax == powerOf(2, Word - 1) - 1
least(a, b) == IF a < b THEN a ELSE b
greatest(a, b) == IF a < b THEN b ELSE a
bitLength(v) == CHOOSE k \in 0 .. Word : v < powerOf(2, k) /\ (k > 0 => v >= powerOf(2, k - 1))

-------------------------------------------------------------------------------
(* Borromean ring signatures.  pubs and s are indexed by ring and position *)
(* from 1; positions are hashed from 0.                                    *)

borromean_hash(m, e, ridx, eidx) == RangeHash(e \o <<m, ridx, eidx>>)
usable(e) == ~Overflow(e) /\ ScalarOf(e) # 0
ecmult(P, e, s) == GAdd(GMul(ScalarOf(e), P), GMul(s, G))

\* The challenges and points of ring i from position from on, where the challenge is e.
ringWalk(m, i, pubs, s, from, to, e) ==
    LET w[j \in from .. to] ==
          LET ej == IF j = from THEN e ELSE borromean_hash(m, w[j - 1].R, i - 1, j - 1)
          IN [e |-> ej, R |-> ecmult(pubs[i][j], ej, s[i][j])]
    IN w

walkable(w) == \A j \in DOMAIN w : usable(w[j].e) /\ w[j].R # Infinity

finalHash(Rs, m) == RangeHash(Flat(Len(Rs), LAMBDA i : Rs[i]) \o <<m>>)

borromean_verify(e0, s, pubs, m) ==
    LET walk == Tuple(Len(pubs), LAMBDA i :
                    ringWalk(m, i, pubs, s, 1, Len(pubs[i]), borromean_hash(m, <<e0>>, i - 1, 0)))
    IN [ok |-> /\ \A i \in DOMAIN pubs : /\ walkable(walk[i])
                                         /\ \A j \in DOMAIN pubs[i] : s[i][j] # 0 /\ pubs[i][j] # Infinity
               /\ e0 = finalHash(Tuple(Len(pubs), LAMBDA i : walk[i][Len(pubs[i])].R), m),
        evalues |-> walk]

\* secidx counts from 0, as in the code.
borromean_sign(s, pubs, k, sec, secidx, m) ==
    LET n == Len(pubs)
        own(i) == secidx[i] + 1
        size(i) == Len(pubs[i])
        kG(i) == GMul(k[i], G)
        after == Tuple(n, LAMBDA i : ringWalk(m, i, pubs, s, own(i) + 1, size(i),
                                              borromean_hash(m, kG(i), i - 1, own(i))))
        e0 == finalHash(Tuple(n, LAMBDA i : IF own(i) = size(i) THEN kG(i) ELSE after[i][size(i)].R), m)
        before == Tuple(n, LAMBDA i : ringWalk(m, i, pubs, s, 1, own(i) - 1,
                                               borromean_hash(m, <<e0>>, i - 1, 0)))
        ownE(i) == IF own(i) = 1 THEN borromean_hash(m, <<e0>>, i - 1, 0)
                   ELSE borromean_hash(m, before[i][own(i) - 1].R, i - 1, own(i) - 1)
        ownS(i) == SAdd(SNeg(SMul(ScalarOf(ownE(i)), sec[i])), k[i])
    IN IF \A i \in 1 .. n : /\ k[i] # 0 /\ walkable(after[i]) /\ walkable(before[i])
                            /\ usable(ownE(i)) /\ ownS(i) # 0
       THEN Gives([e0 |-> e0, s |-> Tuple(n, LAMBDA i : [s[i] EXCEPT ![own(i)] = ownS(i)])])
       ELSE Fails

-------------------------------------------------------------------------------
(* What a proof says of its value                                          *)

\* The sizes of the rings: digits of base 4, the last of base 2 when the length is odd.
sizesOf(mantissa) ==
    IF mantissa = 0 THEN <<1>>
    ELSE LET rings == (mantissa + 1) \div 2
         IN Tuple(rings, LAMBDA i : IF i < rings \/ mantissa % 2 = 0 THEN 4 ELSE 2)

\* Mutant of fittingExp: the exponent is taken as asked for.
fittingExp_asked(exp, minBits) == exp

\* The exponent is reduced until minBits bits still fit under it.
fittingExp(exp, minBits) ==
    CHOOSE e \in 0 .. exp :
        /\ e < exp => (powerOf(2, minBits) - 1) * powerOf(10, e) > UMax \div 10
        /\ \A d \in 0 .. e - 1 : (powerOf(2, minBits) - 1) * powerOf(10, d) <= UMax \div 10

range_proveparams(value, minValue, exp, minBits) ==
    IF exp < 0 \/ minValue = UMax
    THEN Gives([v |-> 0, mantissa |-> 0, exp |-> 0, min |-> value, npub |-> 2])
    ELSE IF (minValue > 0 /\ value > SMax) \/ (value > 0 /\ minValue >= SMax)
    THEN Fails
    ELSE LET bits == IF minValue > 0 THEN least(minBits, Word - bitLength(minValue)) ELSE minBits
             e == fittingExp(IF bits > Word - 3 \/ value > SMax THEN 0 ELSE exp, bits)
             v == (value - minValue) \div powerOf(10, e)
             mantissa == greatest(bits, IF v > 0 THEN bitLength(v) ELSE 1)
         IN Gives([v |-> v, mantissa |-> mantissa, exp |-> e, min |-> value - v * powerOf(10, e),
                   npub |-> SSum(sizesOf(mantissa))])

digit(v, i) == (v \div powerOf(4, i - 1)) % 4
headerLen(header) == 1 + (IF header.mantissa > 0 THEN 1 ELSE 0) + (IF header.min > 0 THEN 8 ELSE 0)
bodyLen(npub, rings) == 32 * (npub + rings - 1) + 32 + (rings + 6) \div 8

\* The header as it is read back; a proof of an exact value has no exponent.
rangeproof_getheader(header) ==
    LET top == IF header.mantissa = 0 THEN 0 ELSE (powerOf(2, header.mantissa) - 1) * powerOf(10, header.exp)
    IN IF \/ header.exp > MaxExp \/ header.mantissa > Word
          \/ \E e \in 0 .. header.exp - 1 :
                header.mantissa > 0 /\ (powerOf(2, header.mantissa) - 1) * powerOf(10, e) > UMax \div 10
          \/ top > UMax - header.min
       THEN Fails
       ELSE Gives([min |-> header.min, max |-> header.min + top, scale |-> powerOf(10, header.exp)])

\* Each ring counts down from its first point by the digit's weight.
rangeproof_pub_expand(firsts, exp, sizes, gen) ==
    Tuple(Len(sizes), LAMBDA i : Tuple(sizes[i], LAMBDA j :
        GAdd(firsts[i], GNeg(GMul(((j - 1) * powerOf(10, exp) * powerOf(4, i - 1)) % Order, gen)))))

-------------------------------------------------------------------------------
(* The random values, from a generator seeded with the nonce, the          *)
(* commitment and the header; the message is masked into them.             *)

\* XOR as far as anything here can tell: its own inverse, and 0 masks nothing.
Mask(x, pad) == (pad - x) % Width

seedOf(nonce, commit, gen, header) == <<nonce>> \o commit \o gen \o <<header.exp, header.mantissa, header.min>>

rangeproof_genrand(seed, sizes, message) ==
    LET rings == Len(sizes)
        draw(i, j) == RangeHash(seed \o <<i, j>>)
        \* the first of a ring's own draws that is a scalar other than 0
        firstUsable(i) == CHOOSE j \in 100 .. 110 :
                              usable(draw(i, j)) /\ \A l \in 100 .. j - 1 : ~usable(draw(i, l))
        sec(i) == ScalarOf(draw(i, firstUsable(i)))
        pads == Tuple(rings, LAMBDA i : Tuple(sizes[i], LAMBDA j : Mask(message[i][j], draw(i, j))))
    IN [sec |-> Tuple(rings, LAMBDA i : IF i < rings THEN sec(i) ELSE SNeg(SSum(Tuple(rings - 1, sec)))),
        s |-> Tuple(rings, LAMBDA i : Tuple(sizes[i], LAMBDA j : ScalarOf(pads[i][j]))),
        prep |-> pads,
        ok |-> \A i \in 1 .. rings : \A j \in 1 .. sizes[i] : usable(pads[i][j])]

\* A value in a 32-byte slot, three times over and with a flag.
sparse == Width \div powerOf(2, Word + 1)
slotOf(v) == Width \div 2 + sparse * v
valueIn(x) == (x - Width \div 2) \div sparse
isValueSlot(x) == x >= Width \div 2 /\ valueIn(x) <= UMax /\ x = slotOf(valueIn(x))

\* The slots of a message, and in the last ring the value, in the last slot
\* that is not the digit's own.
preparedMessage(message, sizes, secidx, v) ==
    LET rings == Len(sizes)
        last == sizes[rings]
        home == IF secidx[rings] = last - 1 THEN last - 1 ELSE last
        at(i, j) == (i - 1) * 4 + j
    IN Tuple(rings, LAMBDA i : Tuple(sizes[i], LAMBDA j :
          IF i = rings /\ last > 1 /\ j = home THEN slotOf(v)
          ELSE IF i < rings /\ at(i, j) <= Len(message) THEN message[at(i, j)] ELSE 0))

transcript(commit, gen, header, firsts, extra) ==
    RangeHash(commit \o gen \o <<header.exp, header.mantissa, header.min>>
              \o Flat(Len(firsts), LAMBDA i : firsts[i]) \o extra)

\* The steps of signing, each with its ways to fail.  call holds the arguments,
\* p the parameters with the digits, firsts the first point of every ring.
proofOf(header, sizes, firsts, signed) ==
    IF signed.ok
    THEN Gives([header |-> header, firsts |-> firsts, e0 |-> signed.v.e0, s |-> signed.v.s,
                len |-> headerLen(header) + bodyLen(SSum(sizes), Len(sizes))])
    ELSE Fails
signRings(call, p, sizes, rand, sec, firsts, shown) ==
    IF \E i \in DOMAIN sizes : firsts[i] = Infinity THEN Fails
    ELSE proofOf(p.header, sizes, shown,
                 borromean_sign(rand.s, rangeproof_pub_expand(firsts, p.header.exp, sizes, call.gen),
                                Tuple(Len(sizes), LAMBDA i : rand.s[i][p.secidx[i] + 1]), sec, p.secidx,
                                transcript(call.commit, call.gen, p.header, shown, call.extra)))
signPoints(call, p, sizes, rand, sec, firsts) ==
    signRings(call, p, sizes, rand, sec, firsts, SubSeq(firsts, 1, Len(sizes) - 1))
signSecrets(call, p, sizes, rand, sec) ==
    IF sec[Len(sizes)] = 0 THEN Fails
    ELSE signPoints(call, p, sizes, rand, sec,
                    Tuple(Len(sizes), LAMBDA i :
                       pedersen_ecmult(sec[i], (p.secidx[i] * powerOf(10, p.header.exp) * powerOf(4, i - 1)) % Order,
                                       call.gen, G)))
signRandom(call, p, sizes, rand) ==
    IF ~rand.ok \/ Overflow(call.blind) THEN Fails
    ELSE signSecrets(call, p, sizes, rand, [rand.sec EXCEPT ![Len(sizes)] = SAdd(@, ScalarOf(call.blind))])
signDigits(call, p, sizes) ==
    IF \/ Len(call.message) > 0 /\ Len(call.message) > 4 * (Len(sizes) - 1)
       \/ call.plen - headerLen(p.header) < bodyLen(p.npub, Len(sizes))
    THEN Fails
    ELSE signRandom(call, p, sizes,
                    rangeproof_genrand(seedOf(call.nonce, call.commit, call.gen, p.header), sizes,
                                       preparedMessage(call.message, sizes, p.secidx, p.v)))
signSizes(call, p, sizes) ==
    signDigits(call, [v |-> p.v, npub |-> p.npub, secidx |-> Tuple(Len(sizes), LAMBDA i : digit(p.v, i)),
                      header |-> [exp |-> p.exp, mantissa |-> p.mantissa, min |-> p.min]], sizes)
signParams(call, params) == IF ~params.ok THEN Fails ELSE signSizes(call, params.v, sizesOf(params.v.mantissa))
rangeproof_sign(plen, commit, blind, nonce, exp, minBits, minValue, value, message, extra, gen) ==
    IF plen < 65 \/ minValue > value \/ minBits \notin 0 .. Word \/ exp \notin -1 .. MaxExp THEN Fails
    ELSE signParams([plen |-> plen, commit |-> commit, blind |-> blind, nonce |-> nonce, message |-> message,
                     extra |-> extra, gen |-> gen], range_proveparams(value, minValue, exp, minBits))

-------------------------------------------------------------------------------
recover_x(k, e, s) == SMul(SAdd(SNeg(s), k), SInv(ScalarOf(e)))
\* Mutant of recover_k: the product has the wrong sign.
recover_k_minus(x, e, s) == SAdd(s, SNeg(SMul(x, ScalarOf(e))))

recover_k(x, e, s) == SAdd(s, SMul(x, ScalarOf(e)))

\* What the slots hold when home has the value in it.
rewindFrom(evalues, s, sizes, wanted, rand, home, value) ==
    LET rings == Len(sizes)
        own(i) == digit(value, i) + 1
        x == recover_x(rand.s[rings][own(rings)], evalues[rings][own(rings)].e, s[rings][own(rings)])
        text(i, j) == IF j = own(i) THEN recover_k(rand.sec[i], evalues[i][j].e, s[i][j]) ELSE s[i][j]
        upTo(texts) == SubSeq(texts, 1, least(wanted, Len(texts)))
    IN IF own(rings) = home \/ own(rings) > sizes[rings] THEN Fails
       ELSE Gives([v |-> value, blind |-> SAdd(x, SNeg(rand.sec[rings])),
                   message |-> upTo(Flat(rings, LAMBDA i : Flat(sizes[i], LAMBDA j :
                                  IF i = rings /\ j \in {home, own(i)} THEN <<>>
                                  ELSE <<Mask(text(i, j), rand.prep[i][j])>>)))])

\* The value is looked for in the last and the last but one slot.
rewindSlots(evalues, s, sizes, wanted, rand, last, slot, before) ==
    IF last = 1
    THEN Gives([v |-> 0, message |-> <<>>, blind |-> recover_x(rand.s[1][1], evalues[1][1].e, s[1][1])])
    ELSE IF ~isValueSlot(slot) /\ ~isValueSlot(before) THEN Fails
    ELSE rewindFrom(evalues, s, sizes, wanted, rand, IF isValueSlot(slot) THEN last ELSE last - 1,
                    valueIn(IF isValueSlot(slot) THEN slot ELSE before))
rewindRandom(evalues, s, sizes, wanted, rand) ==
    LET rings == Len(sizes)
        slot(j) == Mask(s[rings][j], rand.prep[rings][j])
    IN rewindSlots(evalues, s, sizes, wanted, rand, sizes[rings], slot(sizes[rings]), slot(sizes[rings] - 1))
rewind_inner(evalues, s, sizes, seed, wanted) ==
    rewindRandom(evalues, s, sizes, wanted,
                 rangeproof_genrand(seed, sizes, Tuple(Len(sizes), LAMBDA i : Tuple(sizes[i], LAMBDA j : 0))))

\* The rings of points the proof is about, from its own points and the commitment.
provenRings(proof, min, commit, gen) ==
    LET sizes == sizesOf(proof.header.mantissa)
        shown == GAdd(GMul(min % Order, gen), GSum(proof.firsts))
    IN rangeproof_pub_expand(Append(proof.firsts, GAdd(GNeg(shown), commit)), proof.header.exp, sizes, gen)

shownRange(info, result) ==
    IF ~result.ok THEN Fails
    ELSE Gives([min |-> info.min, max |-> info.max, scale |-> info.scale, evalues |-> result.evalues])
verifyRings(info, proof, pubs, m) ==
    IF pubs[Len(pubs)][1] = Infinity THEN Fails
    ELSE shownRange(info, borromean_verify(proof.e0, proof.s, pubs, m))
verifyHeader(commit, proof, extra, gen, info) ==
    IF ~info.ok THEN Fails
    ELSE verifyRings(info.v, proof, provenRings(proof, info.v.min, commit, gen),
                     transcript(commit, gen, proof.header, proof.firsts, extra))
rangeproof_verify(commit, proof, extra, gen) ==
    verifyHeader(commit, proof, extra, gen, rangeproof_getheader(proof.header))

\* A rewound value is believed only when it opens the commitment.
opened(commit, gen, value, inner) ==
    IF pedersen_ecmult(inner.blind, value % Order, gen, G) # commit THEN Fails
    ELSE Gives([value |-> value, blind |-> inner.blind, message |-> inner.message])
rewoundWith(commit, gen, shown, inner) ==
    IF ~inner.ok THEN Fails
    ELSE opened(commit, gen, (inner.v.v * shown.scale + shown.min) % powerOf(2, Word), inner.v)
rewindShown(commit, proof, gen, nonce, wanted, shown) ==
    IF ~shown.ok THEN Fails
    ELSE rewoundWith(commit, gen, shown.v,
                     rewind_inner(shown.v.evalues, proof.s, sizesOf(proof.header.mantissa),
                                  seedOf(nonce, commit, gen, proof.header), wanted))
rangeproof_rewind(commit, proof, extra, gen, nonce, wanted) ==
    rewindShown(commit, proof, gen, nonce, wanted, rangeproof_verify(commit, proof, extra, gen))

-------------------------------------------------------------------------------
(* One proof from its maker to its reader                                  *)

RangeIdle == [at |-> "idle"]
rangeGen(job) == IF job.genBlind = 0 THEN H ELSE generator_generate_blinded(H, job.genBlind)
rangeCommit(job) == pedersen_ecmult(ScalarOf(job.blind), job.value, rangeGen(job), G)

RangeSign(job) ==
    /\ range.at = "idle"
    /\ range' = [at |-> "signed", job |-> job,
                 proof |-> rangeproof_sign(job.plen, rangeCommit(job), job.blind, job.nonce, job.exp,
                              job.minBits, job.min, job.value, job.message, job.extra, rangeGen(job))]

\* What the reader holds: the maker's, or another commitment, generator,
\* binding data or (for the rewinding) nonce.
RangeHeld == {"none", "commit", "gen", "extra", "nonce"}

RangeCheck(altered) ==
    LET job == range.job
        commit == IF altered = "commit" THEN GAdd(rangeCommit(job), rangeGen(job)) ELSE rangeCommit(job)
        gen == IF altered = "gen" THEN J ELSE rangeGen(job)
        extra == IF altered = "extra" THEN Append(job.extra, 1) ELSE job.extra
        nonce == IF altered = "nonce" THEN job.nonce + 1 ELSE job.nonce
    IN /\ range.at = "signed"
       /\ range.proof.ok
       /\ range' = [at |-> "checked", job |-> job, altered |-> altered, len |-> range.proof.v.len,
                    shown |-> rangeproof_verify(commit, range.proof.v, extra, gen),
                    rewound |-> rangeproof_rewind(commit, range.proof.v, extra, gen, nonce, Len(job.message))]

RangeNext ==
    \/ \E job \in RangeJobs : RangeSign(job)
    \/ \E altered \in RangeHeld : RangeCheck(altered)

\* A proof that was made is accepted for its own commitment, generator and
\* binding data, fits the buffer it was made in, and shows a range that holds
\* the value: at every exponent, minimum and number of bits that are reduced
\* on the way so that the range ends below 2^64.
RangeHoldsTheValue ==
    range.at = "checked" =>
        /\ range.altered \in {"none", "nonce"} => range.shown.ok
        /\ range.shown.ok => /\ range.job.value \in range.shown.v.min .. range.shown.v.max
                             /\ range.job.min <= range.shown.v.min
        /\ range.len <= range.job.plen

\* A proof is accepted for no other commitment, generator and binding data.
AcceptedMeansShown == range.at = "checked" /\ range.shown.ok => range.altered \in {"none", "nonce"}

\* Whoever knows the nonce gets back the value, the blinding factor and the
\* message, at every place of the digits; nobody else gets anything.
RewindGivesBackTheSecrets ==
    range.at = "checked" =>
        IF range.altered # "none" THEN ~range.rewound.ok
        ELSE /\ range.rewound.ok
             /\ range.rewound.v.value = range.job.value
             /\ range.rewound.v.blind = ScalarOf(range.job.blind)
             /\ range.rewound.v.message = range.job.message
===============================================================================
