------------------------------ MODULE MCSecp256k1 ------------------------------
(***************************************************************************)
(* The library for TLC: ring proofs, commitments, range proofs, proofs     *)
(* over lists, aggregated signatures, products of points, the scratch      *)
(* space, signatures and the limbs, side by side.  They share no state, so *)
(* that a behaviour is one of one component, chosen by its first action.   *)
(***************************************************************************)
EXTENDS RingSession, ListProofs, Aggsig, Signatures, ScalarLimbs

\* A hash onto the numbers below Width that no pair of inputs in use shares.
Digest(s) ==
    LET h[i \in 0 .. Len(s)] == IF i = 0 THEN 3 ELSE (h[i - 1] * 31421 + s[i] * 6927 + i) % 46349
    IN h[Len(s)]
\* One that is often beyond the order of the small curve, and sometimes 0.
SmallDigest(s) == Digest(s) % 33

-------------------------------------------------------------------------------
\* Rings of one to four keys, with an index or a key that may not belong to it;
\* the last draw of the third seed is no scalar.
Draws(seed) ==
    Tuple(8, LAMBDA i : IF seed = 3 /\ i = 8 THEN Order + 1 ELSE Digest(<<seed, i>>) % Order)
RingJobs ==
    {[msks |-> SubSeq(<<3, 1, 6, 2>>, 1, size), index |-> index, msk |-> k, W |-> 1, name |-> 2, m |-> 2,
      draws |-> Draws(seed), topic |-> topic] :
        size \in 1 .. 4, index \in 0 .. 4, k \in {1, 2, 6}, seed \in 1 .. 3, topic \in 0 .. 2}

\* Three amounts; the second seed has a blinding factor that is no scalar.
AmountJobs ==
    {[value |-> v, genBlind |-> Tuple(3, LAMBDA i : Digest(<<seed, 9, i>>) % Order), inputs |-> k,
      blind |-> Tuple(3, LAMBDA i : IF seed = 2 /\ i = 2 THEN Order
                                    ELSE IF seed = 3 /\ i < 3 THEN 0 ELSE Digest(<<seed, i>>) % Order)] :
        v \in [1 .. 3 -> 0 .. 2], seed \in 1 .. 3, k \in 0 .. 3}

\* Values of six bits, also below the minimum or beyond what exp leaves room for.
RangeProofJobs ==
    {[value |-> v, min |-> low, exp |-> e, minBits |-> b, blind |-> (v * 7919 + low * 31 + e * 11 + b + 1) % Order,
      nonce |-> 77 + v, message |-> message, extra |-> <<5>>, plen |-> plen,
      genBlind |-> IF v % 2 = 0 THEN 0 ELSE 4321] :
        v \in {0, 1, 5, 13, 32, 63}, low \in {0, 1, 12}, e \in -1 .. 1, b \in {0, 3, 6},
        message \in {<<>>, <<11, 12>>}, plen \in {65, 5134}}

\* Assets that occur once, twice or never among the inputs, blinded or not.
SurjectionProofJobs ==
    {[fixed |-> f, tag |-> 1, use |-> u, tries |-> 2, inKeys |-> <<11, 22, k>>, outKey |-> o] :
        f \in {<<1, 2, 1>>, <<2, 2, 1>>, <<2, 2, 2>>}, u \in 0 .. 3, k \in {0, 33}, o \in {0, 33, 46340}}
WhitelistProofJobs ==
    {[online |-> SubSeq(<<3, 5, 7>>, 1, n), offline |-> SubSeq(<<101, 103, 107>>, 1, n), sub |-> s, own |-> o,
      index |-> i] :
        n \in 2 .. 3, s \in {1, Order - 103, 555}, o \in 1 .. 2, i \in 0 .. 3}

AggregateJobs ==
    {[keys |-> keys, msg |-> 5, seed |-> seed] : keys \in {<<7>>, <<11, 13>>, <<17, 19, 23>>}, seed \in 1 .. 6}

-------------------------------------------------------------------------------
\* The curve y^2 = x^3 + 7 over 43 elements has 31 points, as many as there
\* are scalars: every sum that the formulas treat apart comes up.
SmallBasePoint == <<2, 12>>

ProductJobs ==
    {[endo |-> e, points |-> SubSeq(ps, 1, n), scalars |-> SubSeq(<<k, 0, 7, 30>>, 1, n), ng |-> g, limit |-> l,
      failAt |-> f] :
        e \in BOOLEAN, ps \in {<<1, 5, 1, 30>>, <<3, 0, 3, 28>>}, n \in {0, 2, 4}, k \in {2, 29},
        g \in {-1, 17}, l \in {0, 500, 3500, 20000}, f \in {0, 3}}

FrameRequests == {0, 17}
PieceSizes == {1, 16}
SpaceLimits == {0, 64}

\* Secret keys at both ends of the range and beyond, with both kinds of contexts.
SignatureJobs ==
    {[key |-> k, msg |-> m, data |-> <<>>, flags |-> f] :
        k \in {0, 1, 16, 30, 31}, m \in {5, 40}, f \in {{"sign", "verify"}, {"sign"}}}
TweaksTried == {0, 1, 7, 30, 31}
BytesPut == {0, 2, 3, 15, 16, 17, 30, 31}

\* Numbers of the stream; about every other pair has one beyond the order.
Stream(seed, idx, tries) ==
    <<16777215 - ((seed * 1021 + idx * 4001 + tries * 3001) % 8192),
      (seed * 77777 + idx * 333331 + tries * 9999991) % 16777216>>

-------------------------------------------------------------------------------
proofVars == <<ring, tx, range, list, agg>>
curveVars == <<curve, space, signer>>
limbVars == <<register, number>>
libraryVars == <<proofVars, curveVars, limbVars>>

LibraryInit ==
    /\ ring = RingIdle /\ tx = TxIdle /\ range = RangeIdle /\ list = ListIdle /\ agg = AggIdle
    /\ curve = CurveIdle /\ space = SpaceIdle /\ signer = SignerIdle
    /\ register = FieldIdle /\ number = ScalarIdle

\* The component of the last step, or none: only it goes on.
ringOnly == UNCHANGED <<tx, range, list, agg, curveVars, limbVars>>
txOnly == UNCHANGED <<ring, range, list, agg, curveVars, limbVars>>
rangeOnly == UNCHANGED <<ring, tx, list, agg, curveVars, limbVars>>
listOnly == UNCHANGED <<ring, tx, range, agg, curveVars, limbVars>>
aggOnly == UNCHANGED <<ring, tx, range, list, curveVars, limbVars>>
curveOnly == UNCHANGED <<proofVars, space, signer, limbVars>>
spaceOnly == UNCHANGED <<proofVars, curve, signer, limbVars>>
signerOnly == UNCHANGED <<proofVars, curve, space, limbVars>>
fieldOnly == UNCHANGED <<proofVars, curveVars, number>>
scalarOnly == UNCHANGED <<proofVars, curveVars, register>>

quietProofs(but) ==
    /\ "ring" \in but \/ ring = RingIdle
    /\ "tx" \in but \/ tx = TxIdle
    /\ "range" \in but \/ range = RangeIdle
    /\ "list" \in but \/ list = ListIdle
    /\ "agg" \in but \/ agg = AggIdle
quietCurve(but) ==
    /\ "curve" \in but \/ curve = CurveIdle
    /\ "space" \in but \/ space = SpaceIdle
    /\ "signer" \in but \/ signer = SignerIdle
quietLimbs(but) ==
    /\ "field" \in but \/ register = FieldIdle
    /\ "scalar" \in but \/ number = ScalarIdle
alone(one) == quietProofs({one}) /\ quietCurve({one}) /\ quietLimbs({one})

LibraryNext ==
    \/ alone("ring") /\ RingNext /\ ringOnly
    \/ alone("tx") /\ TxNext /\ txOnly
    \/ alone("range") /\ RangeNext /\ rangeOnly
    \/ alone("list") /\ ListNext /\ listOnly
    \/ alone("agg") /\ AggNext /\ aggOnly
    \/ alone("curve") /\ CurveNext /\ curveOnly
    \/ alone("space") /\ ScratchNext /\ spaceOnly
    \/ alone("signer") /\ SignerNext /\ signerOnly
    \/ alone("field") /\ FieldNext /\ fieldOnly
    \/ alone("scalar") /\ ScalarNext /\ scalarOnly

Spec == LibraryInit /\ [][LibraryNext]_libraryVars

\* What a verifier accepts was made by whom and for what it stands for: a ring
\* proof by a member of the ring, a combined signature by all its signers, a
\* range proof for its commitment, a proof over a list by an entry at its place.
AcceptedMeansMade == AcceptedMeansMember /\ AcceptedMeansSigned /\ AcceptedMeansShown /\ AcceptedMeansListed
===============================================================================
