------------------------------ MODULE Commitments -----------------------------
(***************************************************************************)
(* Generators and Pedersen commitments (modules/generator and              *)
(* modules/commitment): their 33-byte forms, commitments to values, sums   *)
(* of commitments and of blinding values, and the tally of a transaction.  *)
(***************************************************************************)
EXTENDS PrimeGroup

CONSTANTS
    CommitHash(_),      \* SHA-256, from tuples of numbers to 32 bytes
    Amounts             \* the inputs and outputs of the transactions tried

VARIABLE tx             \* a transaction: [at, job, commits, ...]

\* A transaction has an amount at least, and each has its blinding values; the
\* generators G, H and J are different ones.
ASSUME AmountAssumption ==
    /\ Dim > 2
    /\ Amounts \subseteq [value : Seq(Nat), blind : Seq(Nat), genBlind : Seq(Nat), inputs : Nat]
    /\ \A a \in Amounts :
          /\ Len(a.value) > 0 /\ a.inputs <= Len(a.value)
          /\ Len(a.blind) = Len(a.value) /\ Len(a.genBlind) = Len(a.value)

\* A point as the prefix of its kind (even) or the next byte, and the x
\* coordinate of a point with a square y.
quadForm(prefix, P) == <<IF HasQuadY(P) THEN prefix ELSE prefix + 1>> \o XCoordinate(P)
onCurve(x) == x # Infinity /\ HasQuadY(x)
parseQuad(prefix, input) ==
    IF input[1] \notin {prefix, prefix + 1} \/ ~onCurve(Tail(input)) THEN Fails
    ELSE Gives(IF input[1] % 2 = 1 THEN GNeg(Tail(input)) ELSE Tail(input))

generator_parse(input) == parseQuad(10, input)
generator_serialize(gen) == quadForm(10, gen)

pedersen_commitment_load(commit) == IF commit[1] % 2 = 1 THEN GNeg(Tail(commit)) ELSE Tail(commit)
pedersen_commitment_save(P) == quadForm(8, P)
pedersen_commitment_parse(input) ==
    LET P == parseQuad(8, input) IN IF P.ok THEN Gives(pedersen_commitment_save(P.v)) ELSE Fails
pedersen_commitment_serialize(commit) == quadForm(8, pedersen_commitment_load(commit))
pedersen_commitment_to_pubkey(commit) ==
    IF commit[1] % 2 = 1 THEN GNeg(Tail(commit)) ELSE Tail(commit)
pubkey_to_pedersen_commitment(P) == pedersen_commitment_save(P)

-------------------------------------------------------------------------------
\* A generator that belongs to the key, plus blind times G.
generator_generate_blinded(gen, blind) == GAdd(GMul(ScalarOf(blind), G), gen)

pedersen_ecmult(sec, value, valueGen, blindGen) == GAdd(GMul(value, valueGen), GMul(sec, blindGen))
pedersen_blind_ecmult(sec, value, valueGen, blindGen) ==
    GAdd(GMul(value, valueGen), GMul(sec, blindGen))

saved(P) == IF P = Infinity THEN Fails ELSE Gives(pedersen_commitment_save(P))

\* A value of 64 bits is always below the order.
pedersen_commit(blind, value, valueGen, blindGen) ==
    IF Overflow(blind) THEN Fails
    ELSE saved(pedersen_ecmult(ScalarOf(blind), value % Order, valueGen, blindGen))

pedersen_blind_commit(blind, value, valueGen, blindGen) ==
    IF Overflow(blind) \/ Overflow(value) THEN Fails
    ELSE saved(pedersen_blind_ecmult(ScalarOf(blind), ScalarOf(value), valueGen, blindGen))

\* The first npositive are added, the others subtracted.
pedersen_blind_sum(blinds, npositive) ==
    IF npositive > Len(blinds) \/ \E i \in DOMAIN blinds : Overflow(blinds[i]) THEN Fails
    ELSE Gives(SSum(Tuple(Len(blinds), LAMBDA i :
                 IF i > npositive THEN SNeg(ScalarOf(blinds[i])) ELSE ScalarOf(blinds[i]))))

\* Mutant of difference: the sum is turned around too late.
difference_late(pos, neg) ==
    GNeg(GAdd(GSum(Tuple(Len(neg), LAMBDA i : pedersen_commitment_load(neg[i]))),
              GSum(Tuple(Len(pos), LAMBDA i : pedersen_commitment_load(pos[i])))))

\* The negatives are added up first, and the sum is turned around.
difference(pos, neg) ==
    GAdd(GNeg(GSum(Tuple(Len(neg), LAMBDA i : pedersen_commitment_load(neg[i])))),
         GSum(Tuple(Len(pos), LAMBDA i : pedersen_commitment_load(pos[i]))))

pedersen_commit_sum(pos, neg) == saved(difference(pos, neg))
pedersen_verify_tally(pos, neg) == difference(pos, neg) = Infinity

\* The last blinding value, changed so that the outputs less the inputs have
\* no blinding left, when the value generators are blinded too.
pedersen_blind_generator_blind_sum(value, generatorBlind, blind, inputs) ==
    LET n == Len(value)
        addend(i) == SAdd(SMul(value[i] % Order, ScalarOf(generatorBlind[i])), ScalarOf(blind[i]))
        sum == SSum(Tuple(n, LAMBDA i : IF i <= inputs THEN SNeg(addend(i)) ELSE addend(i)))
    IN IF n <= inputs \/ \E i \in 1 .. n : Overflow(generatorBlind[i]) \/ Overflow(blind[i]) THEN Fails
       ELSE Gives([blind EXCEPT ![n] = SAdd(ScalarOf(blind[n]), SNeg(sum))])

\* The blinding value plus the hash of its commitment and of blind times the switch key.
blind_switch(blind, value, valueGen, blindGen, switchKey) ==
    LET commit == pedersen_commit(blind, value, valueGen, blindGen)
        xJ == GMul(ScalarOf(blind), switchKey)
        hashed == CommitHash(commit.v \o xJ)
    IN IF ~commit.ok \/ Overflow(blind) \/ ScalarOf(blind) = 0 \/ Overflow(hashed) THEN Fails
       ELSE Gives(SAdd(ScalarOf(hashed), ScalarOf(blind)))

-------------------------------------------------------------------------------
(* A transaction: the amounts are committed to with blinding values of     *)
(* which the last is computed, and anybody tallies the commitments.        *)

H == Unit(2)
J == Unit(3)
TxIdle == [at |-> "idle"]

\* amounts = [value, blind, genBlind: sequences; inputs: how many are inputs]
TxBegin(amounts) == tx.at = "idle" /\ tx' = [at |-> "amounts", job |-> amounts]

othersThan(s) == SubSeq(s, 1, Len(s) - 1)

\* All on the generator H, the last blinding value by pedersen_blind_sum.
CommitPlain ==
    LET job == tx.job
        last == pedersen_blind_sum(othersThan(job.blind), job.inputs)
        blind == othersThan(job.blind) \o <<last.v>>
        commits == Tuple(Len(blind), LAMBDA i : pedersen_commit(blind[i], job.value[i], H, G))
    IN /\ tx.at = "amounts"
       /\ job.inputs < Len(job.value)
       /\ tx' = IF last.ok /\ \A i \in DOMAIN commits : commits[i].ok
                THEN [at |-> "committed", job |-> job,
                      commits |-> Tuple(Len(blind), LAMBDA i : commits[i].v)]
                ELSE [at |-> "refused"]

\* Each on a generator of its own that blinds H, as confidential assets do.
CommitBlinded ==
    LET job == tx.job
        gens == Tuple(Len(job.value), LAMBDA i : generator_generate_blinded(H, job.genBlind[i]))
        blind == pedersen_blind_generator_blind_sum(job.value, job.genBlind, job.blind, job.inputs)
        commits == Tuple(Len(gens), LAMBDA i : pedersen_blind_commit(blind.v[i], job.value[i], gens[i], G))
    IN /\ tx.at = "amounts"
       /\ tx' = IF blind.ok /\ \A i \in DOMAIN commits : commits[i].ok
                THEN [at |-> "committed", job |-> job,
                      commits |-> Tuple(Len(gens), LAMBDA i : commits[i].v)]
                ELSE [at |-> "refused"]

\* The commitments travel as 33 bytes, some of them as public keys.
Travel ==
    LET arrives(c) == pubkey_to_pedersen_commitment(pedersen_commitment_to_pubkey(
                          pedersen_commitment_parse(pedersen_commitment_serialize(c)).v))
    IN /\ tx.at = "committed"
       /\ tx' = [tx EXCEPT !.at = "sent",
                           !.commits = Tuple(Len(@), LAMBDA i : arrives(@[i]))]

Tally ==
    LET ins == SubSeq(tx.commits, 1, tx.job.inputs)
        outs == SubSeq(tx.commits, tx.job.inputs + 1, Len(tx.commits))
    IN /\ tx.at \in {"committed", "sent"}
       /\ tx' = [at |-> "tallied", job |-> tx.job,
                 holds |-> pedersen_verify_tally(ins, outs),
                 rest |-> pedersen_commit_sum(ins, outs)]

\* The blinding value of the first amount is replaced by one that commits to
\* the switch key as well.
Switch ==
    LET job == tx.job
        blind == blind_switch(job.blind[1], job.value[1], H, G, J)
    IN /\ tx.at = "amounts"
       /\ blind.ok
       /\ tx' = [at |-> "amounts", job |-> [job EXCEPT !.blind[1] = blind.v]]

TxNext ==
    \/ \E amounts \in Amounts : TxBegin(amounts)
    \/ CommitPlain
    \/ CommitBlinded
    \/ Travel
    \/ Tally
    \/ tx.at = "amounts" /\ tx.job.blind \in {a.blind : a \in Amounts} /\ Switch

\* The tally of a transaction holds exactly when its inputs and outputs are
\* worth the same, however its generators and blinding values were blinded and
\* whatever form its commitments travelled in; and otherwise what is left over
\* is a commitment to the difference on H with no blinding, so that nothing of
\* the blinding values leaks into the balance.
TallyHoldsExactlyWhenBalanced ==
    tx.at = "tallied" =>
        LET v == tx.job.value
            ins == SSum(SubSeq(v, 1, tx.job.inputs))
            outs == SSum(SubSeq(v, tx.job.inputs + 1, Len(v)))
        IN /\ tx.holds <=> ins = outs
           /\ tx.rest = pedersen_commit(0, SAdd(ins, SNeg(outs)), H, G)
===============================================================================
