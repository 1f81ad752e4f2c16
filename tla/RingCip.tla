------------------------------- MODULE RingCip --------------------------------
(***************************************************************************)
(* The ring membership proofs of crypto-dbpoe/src/modules/ringcip: master  *)
(* keys, service keys, one-out-of-many proofs over rings of at most n^m    *)
(* keys, their variant with one nullifier per topic, and the proofs of     *)
(* possession of a service key.                                            *)
(***************************************************************************)
EXTENDS PrimeGroup

CONSTANTS
    Hash(_),        \* SHA-256, from tuples of numbers to 32 bytes
    RingBase,       \* n of the ring context
    RingDigits,     \* m of the ring context
    TopicSize       \* topic_size of a context with topics

ASSUME RingCipAssumption ==
    /\ RingBase \in Nat /\ RingBase > 1
    /\ RingDigits \in Nat /\ RingDigits > 0
    /\ TopicSize \in Nat
    /\ Dim = TopicSize + 3 + RingBase * RingDigits
    /\ Hash(<<>>) \in Bytes32

-------------------------------------------------------------------------------
(* Points as 33 bytes: the x coordinate, and 8 for a square y, 9 for the   *)
(* other.  The point at infinity has no such form.                         *)

ge_save_boquila(P) == <<IF HasQuadY(P) THEN 8 ELSE 9>> \o XCoordinate(P)
ge_load_boquila(buf) == IF buf[1] % 2 = 1 THEN GNeg(Tail(buf)) ELSE Tail(buf)

(***************************************************************************)
(* A context.  Each generator comes from the next hash of one chain that   *)
(* starts at the seed; a generator is named by its place in that chain.    *)
(* (secp256k1_generator_generate never returns 0: it aborts instead, so    *)
(* the retry loops run once.)  A given base point leaves its place to the  *)
(* next generator.                                                         *)
(***************************************************************************)
ringcip_context_create(blind_gen) ==
    LET start == IF blind_gen = Infinity THEN 1 ELSE 0 IN
    [n |-> RingBase, m |-> RingDigits, topics |-> 0,
     geng |-> <<IF blind_gen = Infinity THEN Unit(1) ELSE blind_gen>>,
     genh |-> Unit(start + 1), genmu |-> Unit(start + 2),
     multigen |-> Tuple(RingBase * RingDigits, LAMBDA k : Unit(start + 2 + k))]

ringcip_DBPoE_context_create ==
    [n |-> RingBase, m |-> RingDigits, topics |-> TopicSize,
     geng |-> Tuple(TopicSize + 1, LAMBDA k : Unit(k)),
     genh |-> Unit(TopicSize + 2), genmu |-> Unit(TopicSize + 3),
     multigen |-> Tuple(RingBase * RingDigits, LAMBDA k : Unit(TopicSize + 3 + k))]

-------------------------------------------------------------------------------
(* Commitments to an integer, and to a vector of values                    *)

create_secret_cint(v, key) == [ok |-> ~Overflow(key), v |-> v, key |-> ScalarOf(key)]

create_cint(rctx, csk) ==
    ge_save_boquila(GAdd(GMul(csk.key, rctx.geng[1]), GMul(csk.v % Order, rctx.genmu)))

create_multival_com(rctx, vals, key) ==
    GAdd(GMul(key, rctx.genh), GSum(Tuple(rctx.n * rctx.m, LAMBDA k : GMul(vals[k], rctx.multigen[k]))))

-------------------------------------------------------------------------------
(* The one-out-of-many proof                                               *)

\* Digit j (from 0) of num in base n: num is divided j times.
get_jth(j, n, num) ==
    LET rem[i \in 0 .. j] == IF i = 0 THEN num ELSE rem[i - 1] \div n IN rem[j] % n

\* How many keys m digits tell apart.
capacity(n, m) == LET tmpN[i \in 0 .. m] == IF i = 0 THEN 1 ELSE tmpN[i - 1] * n IN tmpN[m]

zero_mcom_get_size(rctx, m) == 33 * (4 + m) + 32 * (3 + m * (rctx.n - 1))
zero_mcom_DBPoE_get_size(rctx, m) == 33 * (4 + m) + 32 * (2 + rctx.topics + m * (rctx.n - 1))

delta(rctx, index, j, i) == IF get_jth(j, rctx.n, index) = i THEN 1 ELSE 0

(***************************************************************************)
(* The random values, in the order they are drawn: rA, rB, rC, rD, then    *)
(* rho[j] and a[j][1] .. a[j][n-1] for each j; a[j][0] makes the sum zero. *)
(* Only the flag of the last draw is looked at.  With topics one rho[j]    *)
(* serves every generator.                                                 *)
(***************************************************************************)
drawn(rctx, m, draws) ==
    LET n == rctx.n
        at(j, i) == ScalarOf(draws[4 + j * n + 1 + i])
    IN [rA |-> ScalarOf(draws[1]), rB |-> ScalarOf(draws[2]),
        rC |-> ScalarOf(draws[3]), rD |-> ScalarOf(draws[4]),
        rho |-> Tuple(m, LAMBDA j : at(j - 1, 0)),
        a |-> Tuple(m, LAMBDA j : Tuple(n, LAMBDA i :
                  IF i > 1 THEN at(j - 1, i - 1)
                  ELSE SNeg(SSum(Tuple(n - 1, LAMBDA k : at(j - 1, k)))))),
        overflow |-> Overflow(draws[4 + m * n])]

\* The coefficients of p times (a + d x), of degree m at most.
times(m, p, a, d) ==
    Tuple(m + 1, LAMBDA k : SAdd(SMul(p[k], a), IF k = 1 THEN 0 ELSE SMul(p[k - 1], d)))

\* Coefficients 0 .. m of the product over j of (a[j][t_j] + delta x).
polynomial(rctx, m, r, index, t) ==
    LET i(j) == get_jth(j - 1, rctx.n, t)
        p[j \in 0 .. m] ==
          IF j = 0 THEN Tuple(m + 1, LAMBDA k : IF k = 1 THEN 1 ELSE 0)
          ELSE times(m, p[j - 1], r.a[j][i(j) + 1], delta(rctx, index, j - 1, i(j)))
    IN p[m]

\* h^key times the product of h[j][i]^F(j, i).
vectorCom(rctx, m, key, F(_, _)) ==
    GAdd(GMul(key, rctx.genh),
         GSum(Tuple(m * rctx.n, LAMBDA k :
            GMul(F((k - 1) \div rctx.n, (k - 1) % rctx.n), rctx.multigen[k]))))

comB(rctx, m, r, index) == vectorCom(rctx, m, r.rB, LAMBDA j, i : delta(rctx, index, j, i))
comA(rctx, m, r) == vectorCom(rctx, m, r.rA, LAMBDA j, i : r.a[j + 1][i + 1])
comC(rctx, m, r, index) ==
    vectorCom(rctx, m, r.rC, LAMBDA j, i :
        SMul(r.a[j + 1][i + 1], SAdd(1, SNeg(2 * delta(rctx, index, j, i)))))
comD(rctx, m, r) ==
    vectorCom(rctx, m, r.rD, LAMBDA j, i : SNeg(SMul(r.a[j + 1][i + 1], r.a[j + 1][i + 1])))

\* Q[j]: the blinding over the generators of bases, and the ring to the j-th coefficients.
comQ(rctx, m, r, bases, ring, polys) ==
    Tuple(m, LAMBDA j :
        GAdd(GSum(Tuple(Len(bases), LAMBDA b : GMul(r.rho[j], bases[b]))),
             GSum(Tuple(Len(ring), LAMBDA t : GMul(polys[t][j], ring[t])))))

\* Mutant of challenge: the message is left out of the hash.
challenge_ofRing(Cs, chal, coms) ==
    ScalarOf(Hash(Flat(Len(Cs), LAMBDA t : Cs[t]) \o Flat(Len(coms), LAMBDA k : coms[k])))

\* The hash of the ring, the message and the commitments.
challenge(Cs, chal, coms) ==
    ScalarOf(Hash(Flat(Len(Cs), LAMBDA t : Cs[t]) \o <<chal>> \o Flat(Len(coms), LAMBDA k : coms[k])))

responseF(rctx, m, r, index, x) ==
    Tuple(m, LAMBDA j : Tuple(rctx.n - 1, LAMBDA i :
        SAdd(SMul(delta(rctx, index, j - 1, i), x), r.a[j][i + 1])))

\* Mutant of responseZ: the powers of the challenge start one too high.
responseZ_shifted(m, r, key, x) ==
    SAdd(SMul(key, SPow(x, m)), SNeg(SSum(Tuple(m, LAMBDA j : SMul(r.rho[j], SPow(x, j))))))

\* key x^m - sum of rho[j] x^j.
responseZ(m, r, key, x) ==
    SAdd(SMul(key, SPow(x, m)), SNeg(SSum(Tuple(m, LAMBDA j : SMul(r.rho[j], SPow(x, j - 1))))))

Refused == [ok |-> FALSE]

commitments(rctx, m, r, index, Q) ==
    Tuple(4 + m, LAMBDA k : ge_save_boquila(
        CASE k = 1 -> comA(rctx, m, r)
          [] k = 2 -> comB(rctx, m, r, index)
          [] k = 3 -> comC(rctx, m, r, index)
          [] k = 4 -> comD(rctx, m, r)
          [] OTHER -> Q[k - 4]))
responses(rctx, m, r, index, keys, coms, x) ==
    [ok |-> TRUE, coms |-> coms,
     f |-> responseF(rctx, m, r, index, x),
     zA |-> SAdd(SMul(x, r.rB), r.rA),
     zC |-> SAdd(SMul(x, r.rC), r.rD),
     z |-> Tuple(Len(keys), LAMBDA b : responseZ(m, r, keys[b], x))]
challenged(rctx, Cs, index, keys, m, chal, r, coms) ==
    responses(rctx, m, r, index, keys, coms, challenge(Cs, chal, coms))

(***************************************************************************)
(* What both provers do; bases and keys leave out the generator of the     *)
(* shown topic.  Only the capacity, the index, the digits and the last     *)
(* draw are checked.                                                       *)
(***************************************************************************)
proveOver(rctx, Cs, index, bases, keys, m, chal, r) ==
    LET ring == Tuple(Len(Cs), LAMBDA t : ge_load_boquila(Cs[t]))
        polys == Tuple(Len(Cs), LAMBDA t : polynomial(rctx, m, r, index, t - 1))
    IN IF capacity(rctx.n, m) < Len(Cs) \/ index >= Len(Cs) \/ m > rctx.m \/ r.overflow THEN Refused
       ELSE challenged(rctx, Cs, index, keys, m, chal, r,
                       commitments(rctx, m, r, index, comQ(rctx, m, r, bases, ring, polys)))

create_zero_mcom_proof(rctx, Cs, index, key, m, chal, draws) ==
    proveOver(rctx, Cs, index, rctx.geng, <<key>>, m, chal, drawn(rctx, m, draws))

without(s, k) == SubSeq(s, 1, k - 1) \o SubSeq(s, k + 1, Len(s))

create_zero_mcom_DBPoE_proof(rctx, Cs, index, vals, topic, m, chal, draws) ==
    proveOver(rctx, Cs, index, without(rctx.geng, topic + 1), without(vals, topic + 1),
              m, chal, drawn(rctx, m, draws))

\* f[j] with its first entry, which makes the sum x.
fullF(f, x) == Tuple(Len(f), LAMBDA j :
                 <<SAdd(SNeg(SSum(Tuple(Len(f[j]), LAMBDA i : f[j][i]))), x)>> \o f[j])

\* The ring equation: the ring to the products of f, less Q[j] to x^j, is the bases to z.
ringEquation(rctx, m, proof, f, Cs, bases, x) ==
    LET lhs == GAdd(GSum(Tuple(m, LAMBDA j : GMul(SNeg(SPow(x, j - 1)), ge_load_boquila(proof.coms[4 + j])))),
                    GSum(Tuple(Len(Cs), LAMBDA t :
                        GMul(SProd(Tuple(m, LAMBDA j : f[j][get_jth(j - 1, rctx.n, t - 1) + 1])),
                             ge_load_boquila(Cs[t])))))
        rhs == GSum(Tuple(Len(bases), LAMBDA b : GMul(proof.z[b], bases[b])))
    IN ge_save_boquila(lhs) = ge_save_boquila(rhs)

\* B^x A opens to f, and C^x D to f (x - f): the digits are bits.
bitEquations(rctx, m, proof, f, x) ==
    LET com(k) == ge_load_boquila(proof.coms[k])
    IN /\ ge_save_boquila(GAdd(GMul(x, com(2)), com(1)))
            = ge_save_boquila(vectorCom(rctx, m, proof.zA, LAMBDA j, i : f[j + 1][i + 1]))
       /\ ge_save_boquila(GAdd(GMul(x, com(3)), com(4)))
            = ge_save_boquila(vectorCom(rctx, m, proof.zC,
                LAMBDA j, i : SMul(f[j + 1][i + 1], SAdd(x, SNeg(f[j + 1][i + 1])))))

equationsHold(rctx, proof, Cs, bases, m, x, f) ==
    ringEquation(rctx, m, proof, f, Cs, bases, x) /\ bitEquations(rctx, m, proof, f, x)
holdsAt(rctx, proof, Cs, bases, m, x) == equationsHold(rctx, proof, Cs, bases, m, x, fullF(proof.f, x))
verifyOver(rctx, proof, Cs, bases, m, chal) ==
    /\ capacity(rctx.n, m) >= Len(Cs)
    /\ m <= rctx.m
    /\ holdsAt(rctx, proof, Cs, bases, m, challenge(Cs, chal, proof.coms))

verify_zero_mcom_proof(rctx, proof, Cs, m, chal) == verifyOver(rctx, proof, Cs, rctx.geng, m, chal)

verify_zero_mcom_DBPoE_proof(rctx, proof, Cs, topic, m, chal) ==
    verifyOver(rctx, proof, Cs, without(rctx.geng, topic + 1), m, chal)

-------------------------------------------------------------------------------
(* Keys and proofs of the identity scheme (main_impl.h)                    *)

\* The key of each topic under a master key; the names of the topics up to it are hashed.
topicKeys(rctx, msk) ==
    <<ScalarOf(msk)>> \o Tuple(rctx.topics, LAMBDA k : ScalarOf(Hash(<<msk, k, 10>>)))

gen_mpk(rctx, msk) ==
    IF Overflow(msk) THEN Refused
    ELSE [ok |-> TRUE, pk |-> ge_save_boquila(GMul(ScalarOf(msk), rctx.geng[1]))]

gen_DBPoE_mpk(rctx, msk) ==
    IF Overflow(msk) THEN Refused
    ELSE LET vals == topicKeys(rctx, msk)
         IN [ok |-> TRUE,
             pk |-> ge_save_boquila(GSum(Tuple(rctx.topics + 1, LAMBDA k : GMul(vals[k], rctx.geng[k]))))]

derive_ssk(msk, name) == Hash(<<msk, name>>)

derive_spk(rctx, csk) ==
    IF Overflow(csk) THEN Refused
    ELSE [ok |-> TRUE, pk |-> ge_save_boquila(GMul(ScalarOf(csk), rctx.geng[1]))]

derive_DBPoE_spk(rctx, csk) == derive_spk(rctx, csk)

memberChallenge(spk, W, name) == Hash(spk \o <<W, name>>)

prove_memmpk(rctx, mpks, msk, W, name, spk, j, m, draws) ==
    IF Overflow(msk) THEN Refused
    ELSE create_zero_mcom_proof(rctx, mpks, j, ScalarOf(msk), m, memberChallenge(spk, W, name), draws)

verify_memmpk(rctx, proof, mpks, W, name, spk, m) ==
    verify_zero_mcom_proof(rctx, proof, mpks, m, memberChallenge(spk, W, name))

\* The ring with one topic's share of every key taken to be the shown nullifier.
withoutTopic(rctx, mpks, nullifier, topic) ==
    Tuple(Len(mpks), LAMBDA t :
        ge_save_boquila(GAdd(GMul(SNeg(ScalarOf(nullifier)), rctx.geng[topic + 1]),
                             ge_load_boquila(mpks[t]))))

topicInRange(rctx, topic) == topic > 0 /\ topic < rctx.topics

shown(proof, nullifier) == IF proof.ok THEN [proof |-> proof, nullifier |-> nullifier, ok |-> TRUE] ELSE Refused
shownWith(rctx, mpks, vals, j, topic, m, chal, draws) ==
    shown(create_zero_mcom_DBPoE_proof(rctx, withoutTopic(rctx, mpks, vals[topic + 1], topic), j, vals, topic, m,
                                       chal, draws), vals[topic + 1])
prove_DBPoE_memmpk(rctx, mpks, msk, W, name, spk, j, topic, m, draws) ==
    IF ~topicInRange(rctx, topic) \/ Overflow(msk) THEN Refused
    ELSE shownWith(rctx, mpks, topicKeys(rctx, msk), j, topic, m, memberChallenge(spk, W, name), draws)

verify_DBPoE_memmpk(rctx, proof, nullifier, mpks, W, name, spk, topic, m) ==
    /\ topicInRange(rctx, topic)
    /\ verify_zero_mcom_DBPoE_proof(rctx, proof, withoutTopic(rctx, mpks, nullifier, topic),
                                    topic, m, memberChallenge(spk, W, name))

\* A Schnorr proof of the service key: R, and s = x csk + r.
auth_prove(rctx, msk, r, name, spk, chal) ==
    LET csk == derive_ssk(msk, name)
        R == ge_save_boquila(GMul(ScalarOf(r), rctx.geng[1]))
        x == ScalarOf(Hash(spk \o <<chal>> \o R))
    IN IF Overflow(csk) \/ ScalarOf(r) = 0 THEN Refused
       ELSE [ok |-> TRUE, R |-> R, s |-> SAdd(SMul(x, ScalarOf(csk)), ScalarOf(r))]

auth_verify(rctx, proof, spk, chal) ==
    LET x == ScalarOf(Hash(spk \o <<chal>> \o proof.R))
    IN ge_save_boquila(GAdd(GMul(x, ge_load_boquila(spk)), ge_load_boquila(proof.R)))
         = ge_save_boquila(GMul(ScalarOf(proof.s), rctx.geng[1]))

DBPoE_auth_prove(rctx, msk, r, name, spk, chal) == auth_prove(rctx, msk, r, name, spk, chal)
DBPoE_auth_verify(rctx, proof, spk, chal) == auth_verify(rctx, proof, spk, chal)
===============================================================================
