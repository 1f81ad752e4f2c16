-------------------------------- MODULE EcMult --------------------------------
(***************************************************************************)
(* Multiplication of points: recodings of scalars (ecmult_wnaf, wnaf_fixed,*)
(* wnaf_const, lambda splitting), tables of odd multiples, the algorithms  *)
(* of Strauss and Pippenger and their batches in a scratch space, the      *)
(* constant-time product and the blinded product with the generator.  The  *)
(* builds with and without USE_ENDOMORPHISM are both modelled (endo).      *)
(***************************************************************************)
EXTENDS CurveGroup, Scratch

CONSTANTS
    ScalarBits,     \* the bits of a scalar (256)
    HalfBits,       \* the bits of a half scalar (128)
    WindowA,        \* WINDOW_A
    WindowG,        \* WINDOW_G
    GenBits,        \* the bits of a window of ecmult_gen (4)
    NumsX,          \* the x coordinate of the point nobody knows the scalar of
    Lambda,         \* the scalar that Beta belongs to
    SplitShift,     \* the shift of the lambda splitting (272)
    SplitB1,        \* -b1 of the lattice
    SplitB2,        \* b2 of the lattice
    PippengerThreshold,     \* ECMULT_PIPPENGER_THRESHOLD
    CurveHash(_),   \* the RFC 6979 generator, from tuples to a number
    MultiJobs       \* the products asked for, see MultiBegin

VARIABLE curve      \* the state of one user of the group

ASSUME EcMultAssumption ==
    /\ ScalarBits \in Nat /\ CurveOrder < 2 ^ ScalarBits /\ CurveOrder > 2 ^ (ScalarBits - 1)
    /\ HalfBits \in Nat /\ WindowA \in Nat /\ WindowA > 1 /\ WindowG \in Nat /\ WindowG > 1
    /\ 2 ^ WindowA < CurveOrder /\ 2 ^ WindowG < CurveOrder
    /\ GenBits \in Nat \ {0} /\ NumsX \in Fe /\ ge_set_xquad(NumsX).ok
    /\ PippengerThreshold \in Nat
    /\ MultiJobs \subseteq [endo : BOOLEAN, points : Seq(Nat), scalars : Seq(Nat), ng : Int, limit : Nat,
                            failAt : Nat]

cadd(a, b) == (a + b) % CurveOrder
cmul(a, b) == (a * b) % CurveOrder
cneg(a) == (CurveOrder - a) % CurveOrder
isHigh(a) == a > CurveOrder \div 2
lesser(a, b) == IF a < b THEN a ELSE b
larger(a, b) == IF a < b THEN b ELSE a
bitsOf(a, offset, count) == (a \div 2 ^ offset) % 2 ^ count
windows(bits, w) == (bits + w - 1) \div w

-------------------------------------------------------------------------------
(* Recodings.  Digits are tuples, digit i standing for 2^(i-1) or for the  *)
(* (i-1)-th window.                                                        *)

\* Zeros and odd digits below 2^(w-1); a scalar with its top bit set is negated.
ecmult_wnaf(len, a, w) ==
    LET negative == bitsOf(a, ScalarBits - 1, 1) = 1
        s == IF negative THEN cneg(a) ELSE a
        step(st, bit) ==
          LET now == lesser(w, len - bit)
              word == bitsOf(s, bit, now) + st.carry
              carry == (word \div 2 ^ (w - 1)) % 2
              digit == word - carry * 2 ^ w
          IN IF bit < st.next \/ bitsOf(s, bit, 1) = st.carry THEN st
             ELSE [carry |-> carry, next |-> bit + now,
                   digits |-> [st.digits EXCEPT ![bit + 1] = IF negative THEN -digit ELSE digit]]
        run[bit \in 0 .. len] ==
          IF bit = 0 THEN [carry |-> 0, next |-> 0, digits |-> Tuple(len, LAMBDA i : 0)]
          ELSE step(run[bit - 1], bit - 1)
    IN run[len].digits

\* A digit for every window; skew is what was added to make the scalar odd.
wnaf_fixed(a, w, bits) ==
    LET size == windows(bits, w)
        val(pos) == bitsOf(a, pos * w, IF pos = size - 1 THEN bits - (size - 1) * w ELSE w)
        skew == IF a % 2 = 0 THEN 1 ELSE 0
        top == CHOOSE p \in 0 .. size - 1 : /\ p > 0 => val(p) # 0
                                            /\ \A q \in p + 1 .. size - 1 : val(q) = 0
        odd(d, pos) == IF val(pos) % 2 = 0
                       THEN [d EXCEPT ![pos] = @ - 2 ^ w, ![pos + 1] = val(pos) + 1]
                       ELSE [d EXCEPT ![pos + 1] = val(pos)]
        \* a 1 after a negative digit, or a -1 after a positive one, is folded into it
        folded(d, pos) ==
            IF pos < 2 THEN d
            ELSE IF d[pos] = 1 /\ d[pos - 1] < 0 THEN [d EXCEPT ![pos - 1] = @ + 2 ^ w, ![pos] = 0]
            ELSE IF d[pos] = -1 /\ d[pos - 1] > 0 THEN [d EXCEPT ![pos - 1] = @ - 2 ^ w, ![pos] = 0]
            ELSE d
        run[pos \in 0 .. top] ==
            IF pos = 0 THEN Tuple(size, LAMBDA i : IF i = 1 THEN val(0) + skew ELSE 0)
            ELSE folded(odd(run[pos - 1], pos), pos)
    IN IF a = 0 THEN [skew |-> 0, digits |-> Tuple(size, LAMBDA i : 0)]
       ELSE [skew |-> skew, digits |-> run[top]]

\* Odd digits throughout: 1 is added to an even number, 2 to an odd one, after
\* a high number was negated, except that -1 is taken as it is.
oddDigits(n, w, s, sign) ==
    LET \* the digit last before its window part is looked at, d towards 0
        next(digits, last, part, d) ==
            IF part % 2 = 0 THEN [last |-> part + d, digits |-> Append(digits, sign * (last - d * 2 ^ w))]
            ELSE [last |-> part, digits |-> Append(digits, sign * last)]
        after(st, part) == next(st.digits, st.last, part, IF st.last > 0 THEN 1 ELSE -1)
        run[i \in 0 .. n] == IF i = 0 THEN [last |-> bitsOf(s, 0, w), digits |-> <<>>]
                             ELSE after(run[i - 1], bitsOf(s, i * w, w))
    IN Append(run[n].digits, sign * run[n].last)
recodedOdd(a, w, n, flip, notNegOne, skew) ==
    [skew |-> skew,
     digits |-> oddDigits(n, w, (IF notNegOne THEN a + skew ELSE a) * (IF flip THEN -1 ELSE 1) % CurveOrder,
                          IF flip = notNegOne THEN -1 ELSE 1)]
wnaf_const(a, w, size) ==
    recodedOdd(a, w, windows(size, w), isHigh(a), cneg(a) # 1, IF isHigh(a) # (a % 2 = 1) THEN 2 ELSE 1)

\* Two short scalars k1 and k2 with k1 + k2 lambda = k, by rounded products.
scalar_mul_shift_var(a, b, shift) == (a * b + 2 ^ (shift - 1)) \div 2 ^ shift
g1 == (2 ^ SplitShift * SplitB2 + CurveOrder \div 2) \div CurveOrder
g2 == (2 ^ SplitShift * SplitB1 + CurveOrder \div 2) \div CurveOrder
scalar_split_lambda(k) ==
    LET c1 == cmul(scalar_mul_shift_var(k, g1, SplitShift), SplitB1)
        c2 == cmul(scalar_mul_shift_var(k, g2, SplitShift), cneg(SplitB2))
        r2 == cadd(c1, c2)
    IN <<cadd(cmul(r2, cneg(Lambda)), k), r2>>
scalar_split_128(k) == <<bitsOf(k, 0, HalfBits), k \div 2 ^ HalfBits>>

-------------------------------------------------------------------------------
(* Tables of odd multiples                                                 *)

\* The additions are done where the double d of a is affine.
stepsFrom(n, d, az, first) ==
    LET steps[i \in 1 .. n] == IF i = 1 THEN Sum(Gej(first.x, first.y, az), d.z)
                               ELSE gej_add_ge_ratio(steps[i - 1].r, Ge(d.x, d.y))
    IN Tuple(n, LAMBDA i : steps[i])
oddSteps(n, a, d) == stepsFrom(n, d, a.z, ge_set_gej_zinv(a, d.z))

tableOfSteps(n, steps, dz) ==
    [prej |-> Tuple(n, LAMBDA i : IF i = n THEN [steps[n].r EXCEPT !.z = FMul(@, dz)] ELSE steps[i].r),
     zr |-> Tuple(n, LAMBDA i : steps[i].rzr)]
tableByDouble(n, a, d) == tableOfSteps(n, oddSteps(n, a, d), d.z)
ecmult_odd_multiples_table(n, a) == tableByDouble(n, a, gej_double_var(a))

globalz(t) == ge_globalz_set_table_gej(t.prej, t.zr)
ecmult_odd_multiples_table_globalz_windowa(a) == globalz(ecmult_odd_multiples_table(2 ^ (WindowA - 2), a))

\* Affine, from the y and the z ratio of each step alone and one inversion.
storedSteps(n, steps, last, dx) ==
    LET zi[i \in 1 .. n] == IF i = n THEN FInv(last.z) ELSE FMul(zi[i + 1], steps[i + 1].rzr)
        at(i, z) == IF i = n THEN ge_set_gej_zinv(last, z)
                    ELSE Ge(FSub(dx, FMul(steps[i + 1].rzr, FSqr(z))), FMul(steps[i].r.y, FCube(z)))
    IN Tuple(n, LAMBDA i : at(i, zi[i]))
storedByDouble(n, steps, d) ==
    storedSteps(n, steps, [steps[n].r EXCEPT !.z = FMul(@, d.z)], FMul(FSqr(FInv(d.z)), d.x))
storedTable(n, a, d) == storedByDouble(n, oddSteps(n, a, d), d)
ecmult_odd_multiples_table_storage_var(n, a) == storedTable(n, a, gej_double_var(a))

table_get_ge(table, n) == IF n > 0 THEN table[(n + 1) \div 2] ELSE ge_neg(table[(1 - n) \div 2])

\* The tables of the generator and of 2^128 times it.
ecmult_context_build ==
    LET twice[i \in 0 .. HalfBits] == IF i = 0 THEN gej_set_ge(ge_const_g) ELSE gej_double_var(twice[i - 1])
        of == Tuple(2, LAMBDA i : ecmult_odd_multiples_table_storage_var(2 ^ (WindowG - 2), twice[(i - 1) * HalfBits]))
    IN [pre_g |-> of[1], pre_g_128 |-> of[2]]
preG == ecmult_context_build

-------------------------------------------------------------------------------
(* Strauss: all points and the generator over one chain of doublings.      *)
(* NoScalar stands for an absent generator scalar (NULL).                  *)

NoScalar == -1

\* Each table is built where the table before it ended, so that all have one z.
sharedTables(n, size, all) ==
    [Z |-> all.globalz, of |-> Tuple(n, LAMBDA k : SubSeq(all.table, (k - 1) * size + 1, k * size))]
joinedTables(n, tab) ==
    globalz([prej |-> Flat(n, LAMBDA k : tab[k].prej), zr |-> Flat(n, LAMBDA k : tab[k].zr)])
nextTable(size, pt, follows, before) ==
    [ecmult_odd_multiples_table(size, IF follows THEN gej_rescale(pt, before.prej[size].z) ELSE pt)
        EXCEPT !.zr[1] = IF follows THEN FMul(@, pt.z) ELSE @]
straussTables(pts, size) ==
    LET tab[k \in 1 .. Len(pts)] == nextTable(size, pts[k], k > 1, tab[k - 1])
    IN IF Len(pts) = 0 THEN [Z |-> 1, of |-> <<>>]
       ELSE sharedTables(Len(pts), size, joinedTables(Len(pts), tab))

\* Digits with the table they choose from; the generator's tables are affine.
stream(len, scalar, w, table, own) == [len |-> len, scalar |-> scalar, w |-> w, table |-> table, own |-> own]
recoded(streams) ==
    Tuple(Len(streams), LAMBDA k : [digits |-> ecmult_wnaf(streams[k].len, streams[k].scalar, streams[k].w),
                                    table |-> streams[k].table, own |-> streams[k].own])
halfStreams(halves, w, len, table, turned, own) ==
    <<stream(len, halves[1], w, table, own), stream(len, halves[2], w, turned, own)>>
lambdaTable(table) == Tuple(Len(table), LAMBDA i : ge_mul_lambda(table[i]))
straussStreams(endo, tables, na, ng) ==
    LET point(k) ==
            IF endo THEN halfStreams(scalar_split_lambda(na[k]), WindowA, HalfBits + 2, tables[k],
                                     lambdaTable(tables[k]), TRUE)
            ELSE <<stream(ScalarBits, na[k], WindowA, tables[k], TRUE)>>
        generator(pre) ==
            IF ng = NoScalar THEN <<>>
            ELSE IF endo THEN halfStreams(scalar_split_128(ng), WindowG, HalfBits + 1, pre.pre_g, pre.pre_g_128, FALSE)
            ELSE <<stream(ScalarBits, ng, WindowG, pre.pre_g, FALSE)>>
    IN recoded(Flat(Len(na), point) \o generator(preG))

addDigit(r, st, i, Z) ==
    LET addEntry(entry) == IF st.own THEN gej_add_ge_var(r, entry) ELSE gej_add_zinv_var(r, entry, Z)
    IN IF i > Len(st.digits) \/ st.digits[i] = 0 THEN r ELSE addEntry(table_get_ge(st.table, st.digits[i]))

\* The sum is made where the tables are affine, and brought back to their z.
broughtBack(r, Z) == IF r.inf THEN r ELSE [r EXCEPT !.z = FMul(@, Z)]
straussSum(streams, Z) ==
    LET atBit(r, i) == LET s[k \in 0 .. Len(streams)] ==
                             IF k = 0 THEN gej_double_var(r) ELSE addDigit(s[k - 1], streams[k], i, Z)
                       IN s[Len(streams)]
        bits == larger(ScalarBits, HalfBits + 2)
        run[i \in 1 .. bits + 1] == IF i = bits + 1 THEN GejInfinity ELSE atBit(run[i + 1], i)
    IN broughtBack(run[1], Z)
straussByTables(endo, tables, na, ng) == straussSum(straussStreams(endo, tables.of, na, ng), tables.Z)
straussOver(endo, a, na, used, ng) ==
    straussByTables(endo, straussTables(Tuple(Len(used), LAMBDA k : a[used[k]]), 2 ^ (WindowA - 2)),
                    Tuple(Len(used), LAMBDA k : na[used[k]]), ng)
ecmult_strauss_wnaf(endo, a, na, ng) ==
    straussOver(endo, a, na, SelectSeq(Tuple(Len(a), LAMBDA i : i), LAMBDA i : na[i] # 0 /\ ~a[i].inf), ng)

ecmult_product(endo, a, na, ng) == ecmult_strauss_wnaf(endo, <<a>>, <<na>>, ng)

-------------------------------------------------------------------------------
(* Pippenger: for every window each point goes into the bucket of its      *)
(* digit, and the buckets are added up 1, 3, 5, ... times.                 *)

ecmult_endo_split(k, P) ==
    LET halves == scalar_split_lambda(k)
        turned(s, Q) == IF isHigh(s) THEN [s |-> cneg(s), P |-> ge_neg(Q)] ELSE [s |-> s, P |-> Q]
    IN <<turned(halves[1], P), turned(halves[2], ge_mul_lambda(P))>>

addToBucket(r, d, idx, P) ==
    IF d # 0 /\ ((IF d > 0 THEN d ELSE -d) - 1) \div 2 = idx THEN gej_add_ge_var(r, IF d > 0 THEN P ELSE ge_neg(P))
    ELSE r

\* points: [P, wnaf].  The skew is taken off in the lowest window, where -P
\* goes into the bucket 0 that is added once.
pippengerSum(window, n, points) ==
    LET skewed(r, one, i, idx) == IF i = 0 /\ one.wnaf.skew = 1 /\ idx = 0 THEN gej_add_ge_var(r, ge_neg(one.P)) ELSE r
        inBucket(r, one, i, idx) == addToBucket(skewed(r, one, i, idx), one.wnaf.digits[i + 1], idx, one.P)
        bucket(i, idx) == LET b[k \in 0 .. Len(points)] ==
                                IF k = 0 THEN GejInfinity ELSE inBucket(b[k - 1], points[k], i, idx)
                          IN b[Len(points)]
        last == 2 ^ window - 1
        \* the buckets from j upwards: their sum, and r with the sums above the lowest added
        withSum(j, r, sum) == [sum |-> sum, r |-> IF j = 0 THEN r ELSE gej_add_var(r, sum)]
        oneMore(j, above, own) == withSum(j, above.r, gej_add_var(above.sum, own))
        sums(i, r) ==
            LET s[j \in 0 .. last + 1] == IF j = last + 1 THEN [sum |-> GejInfinity, r |-> r]
                                          ELSE oneMore(j, s[j + 1], bucket(i, j))
            IN s[0]
        doubled(r) == LET d[j \in 0 .. window] == IF j = 0 THEN r ELSE gej_double_var(d[j - 1]) IN d[window]
        closed(s) == gej_add_var(gej_double_var(s.r), s.sum)
        run[i \in 0 .. n] == IF i = n THEN GejInfinity ELSE closed(sums(i, doubled(run[i + 1])))
    IN IF Len(points) = 0 THEN GejInfinity ELSE run[0]

ecmult_pippenger_wnaf(endo, window, entries) ==
    LET bits == IF endo THEN HalfBits ELSE ScalarBits
        used == SelectSeq(entries, LAMBDA e : e.s # 0 /\ ~e.P.inf)
    IN pippengerSum(window, windows(bits, window + 1),
                    Tuple(Len(used), LAMBDA k : [P |-> used[k].P, wnaf |-> wnaf_fixed(used[k].s, window + 1, bits)]))

\* The window for a number of points, and the most points of a window (with
\* the endomorphism the tables end elsewhere).
windowLimits(endo) == IF endo THEN <<1, 4, 20, 57, 136, 235, 1260, 1260, 4420, 7880, 16050>>
                      ELSE <<1, 11, 45, 100, 275, 625, 1850, 3400, 9630, 17900, 32800>>
pippenger_bucket_window(endo, n) ==
    LET fitting == {w \in 1 .. 11 : n <= windowLimits(endo)[w] /\ ~(endo /\ w = 8)}
    IN IF fitting = {} THEN 12 ELSE CHOOSE w \in fitting : \A v \in fitting : w <= v
pippenger_bucket_window_inv(endo, w) == IF w < 12 THEN windowLimits(endo)[w] ELSE 2 ^ 30
-------------------------------------------------------------------------------
(* Batches in a scratch space.  Sizes in bytes are those of a 64-bit build *)
(* with scalars of ScalarBits bits.                                        *)

sizeGe == 88
sizeGej == 128
sizeScalar == 32
sizeInt == 4
straussPointState(endo) == IF endo THEN 80 + 2 * sizeInt * (HalfBits + 2) ELSE 16 + sizeInt * ScalarBits
pippengerPointState == 16
pippengerState == 16
wnafSize(endo, w) == windows(IF endo THEN HalfBits ELSE ScalarBits, w)

\* The pieces a batch cuts off its frame, in order.
straussPieces(endo, n) ==
    LET table == n * 2 ^ (WindowA - 2)
    IN <<n * sizeGej, n * sizeScalar, table * sizeGej, table * 40,
         table * sizeGe * (IF endo THEN 2 ELSE 1), n * straussPointState(endo)>>
strauss_scratch_size(endo, n) == LET p == straussPieces(endo, 1) IN n * (p[1] + p[2] + p[3] + p[4] + p[5] + p[6])
strauss_max_points(endo, s) == scratch_max_allocation(s, 6) \div strauss_scratch_size(endo, 1)

entrySize(endo, window) ==
    sizeGe + sizeScalar + pippengerPointState + (wnafSize(endo, window + 1) + 1) * sizeInt
entriesOf(endo, n) == IF endo THEN 2 * n + 2 ELSE n + 1
pippengerPieces(endo, n, window) ==
    LET entries == entriesOf(endo, n)
    IN <<entries * sizeGe, entries * sizeScalar, pippengerState, entries * pippengerPointState,
         entries * wnafSize(endo, window + 1) * sizeInt, 2 ^ window * sizeGej>>
pippenger_scratch_size(endo, n, window) ==
    2 ^ window * sizeGej + pippengerState + entriesOf(endo, n) * entrySize(endo, window)

\* The most points for which every smaller number fits too: a window is tried
\* once the one before it is at its limit.
entryOf(endo, w) == IF endo THEN 2 * entrySize(endo, w) ELSE entrySize(endo, w)
overheadOf(endo, w) == 2 ^ w * sizeGej + entryOf(endo, w) + pippengerState
pointsIn(endo, most, w) ==
    lesser((most - overheadOf(endo, w)) \div entryOf(endo, w), pippenger_bucket_window_inv(endo, w))
atItsLimit(endo, most, w) ==
    overheadOf(endo, w) <= most /\ pointsIn(endo, most, w) >= pippenger_bucket_window_inv(endo, w)
isTried(endo, most, w) == overheadOf(endo, w) <= most /\ \A v \in 1 .. w - 1 : atItsLimit(endo, most, v)
pointsUpTo(endo, most) ==
    LET run[w \in 0 .. 12] == IF w = 0 THEN 0
                              ELSE IF isTried(endo, most, w) THEN larger(run[w - 1], pointsIn(endo, most, w))
                              ELSE run[w - 1]
    IN run
pippenger_max_points(endo, s) == pointsUpTo(endo, scratch_max_allocation(s, 6))[12]

cut(s, pieces) == LET c[i \in 0 .. Len(pieces)] == IF i = 0 THEN s ELSE scratch_alloc(c[i - 1], pieces[i])
                  IN c[Len(pieces)]

\* The sum of the points from..to by one of the two algorithms.
entriesFor(endo, Q, a) == IF endo THEN ecmult_endo_split(a, Q) ELSE <<[s |-> a, P |-> Q]>>
batchSum(job, pippenger, window, from, n, ng) ==
    LET P(i) == pointOf(job.points[from + i - 1])
        k(i) == job.scalars[from + i - 1]
        generator == IF ng = NoScalar THEN <<>> ELSE entriesFor(job.endo, ge_const_g, ng)
    IN IF pippenger
       THEN ecmult_pippenger_wnaf(job.endo, window,
                                  generator \o Flat(n, LAMBDA i : entriesFor(job.endo, P(i), k(i))))
       ELSE ecmult_strauss_wnaf(job.endo, Tuple(n, LAMBDA i : gej_set_ge(P(i))), Tuple(n, k), ng)

\* Mutant of cutAndReleased: the frame is not given back.
cutAndReleased_kept(ok, pieces, full, sum) ==
    [ok |-> ok, null |-> full.frames[Len(full.frames)].count < Len(pieces), s |-> full, sum |-> sum]

\* One batch of the points from..to: the scratch space it leaves, whether it
\* worked, whether one of its pieces was NULL (nobody looks), and its sum.
cutAndReleased(ok, pieces, full, sum) ==
    [ok |-> ok, null |-> full.frames[Len(full.frames)].count < Len(pieces),
     s |-> scratch_deallocate_frame(full), sum |-> sum]
framedBatch(ok, s, size, pieces, sum) ==
    IF frameFits(s, size, 6) THEN cutAndReleased(ok, pieces, cut(scratch_allocate_frame(s, size, 6), pieces), sum)
    ELSE [ok |-> FALSE, null |-> FALSE, s |-> s, sum |-> GejInfinity]
batchIn(job, s, pippenger, window, from, n, ng) ==
    IF n = 0 /\ ng = NoScalar THEN [ok |-> TRUE, null |-> FALSE, s |-> s, sum |-> GejInfinity]
    ELSE framedBatch(job.failAt \notin from .. from + n - 1, s,
                     IF pippenger THEN pippenger_scratch_size(job.endo, n, window)
                     ELSE strauss_scratch_size(job.endo, n),
                     IF pippenger THEN pippengerPieces(job.endo, n, window) ELSE straussPieces(job.endo, n),
                     batchSum(job, pippenger, window, from, n, ng))
batch(job, s, pippenger, from, to, ng) ==
    batchIn(job, s, pippenger, pippenger_bucket_window(job.endo, to - from + 1), from, to - from + 1, ng)

-------------------------------------------------------------------------------
(* The constant-time product of a point that is not infinity               *)

\* From the highest digits down, the lambda part after the other in each step.
constSum(endo, wnaf, table, turned) ==
    LET n == Len(wnaf[1].digits)
        doubled(r) == LET d[j \in 0 .. WindowA - 1] == IF j = 0 THEN r ELSE gej_double_var(d[j - 1]) IN d[WindowA - 1]
        entry(i, w) == table_get_ge(IF i = 1 THEN table ELSE turned, wnaf[i].digits[w])
        second(r, w) == IF endo THEN gej_add_ge(r, entry(2, w)) ELSE r
        run[w \in 1 .. n] ==
            second(IF w = n THEN gej_set_ge(entry(1, n)) ELSE gej_add_ge(doubled(run[w + 1]), entry(1, w)), w)
    IN run[1]
\* What the recodings added is taken off again: a or its double each.
skewOff(endo, wnaf, r, a, twice) ==
    LET correction(i) == ge_neg(IF wnaf[i].skew = 2 THEN twice ELSE a)
        corrected == gej_add_ge(r, correction(1))
    IN IF endo THEN gej_add_ge(corrected, ge_mul_lambda(correction(2))) ELSE corrected
constOver(endo, wnaf, a, pre) ==
    skewOff(endo, wnaf, [constSum(endo, wnaf, pre.table, lambdaTable(pre.table)) EXCEPT !.z = FMul(@, pre.globalz)],
            a, ge_set_gej(gej_double_var(gej_set_ge(a))))
ecmult_const(endo, a, k) ==
    LET size == IF endo THEN HalfBits ELSE ScalarBits
        parts == IF endo THEN scalar_split_lambda(k) ELSE <<k>>
    IN constOver(endo, Tuple(Len(parts), LAMBDA i : wnaf_const(parts[i], WindowA - 1, size)), a,
                 ecmult_odd_multiples_table_globalz_windowa(gej_set_ge(a)))

-------------------------------------------------------------------------------
(* The blinded product with the generator: in row j stand multiples of     *)
(* 2^(GenBits j) G, each with a multiple of nums on it; the multiples of   *)
(* nums add up to 0 over the rows.                                         *)

ecmult_gen_context_build ==
    LET rows == windows(ScalarBits, GenBits)
        twice(a, k) == LET d[i \in 0 .. k] == IF i = 0 THEN a ELSE gej_double_var(d[i - 1]) IN d[k]
        lastBase(doubled, nums) == gej_add_var(gej_neg(doubled), nums)
        nextBase(j, doubled, nums) == IF j < rows - 1 THEN doubled ELSE lastBase(doubled, nums)
        numsbase[j \in 0 .. rows - 1] ==
            IF j = 0 THEN gej_add_ge_var(gej_set_ge(ge_set_xo_var(NumsX, 0).v), ge_const_g)
            ELSE nextBase(j, gej_double_var(numsbase[j - 1]), numsbase[0])
        gbase == Tuple(rows, LAMBDA j : twice(gej_set_ge(ge_const_g), (j - 1) * GenBits))
        row(j) == LET e[i \in 0 .. 2 ^ GenBits - 1] ==
                        IF i = 0 THEN numsbase[j - 1] ELSE gej_add_var(e[i - 1], gbase[j])
                  IN Tuple(2 ^ GenBits, LAMBDA i : e[i - 1])
    IN ge_set_all_gej_var(Flat(rows, row))
prec == ecmult_gen_context_build

ecmult_gen(ctx, gn) ==
    LET gnb == cadd(gn, ctx.blind)
        rows == windows(ScalarBits, GenBits)
        add(j) == prec[(j - 1) * 2 ^ GenBits + bitsOf(gnb, (j - 1) * GenBits, GenBits) + 1]
        run[j \in 0 .. rows] == IF j = 0 THEN ctx.initial ELSE gej_add_ge(run[j - 1], add(j))
    IN run[rows]

unblinded == [blind |-> 1, initial |-> gej_neg(gej_set_ge(ge_const_g))]

\* The numbers drawn are taken to be in range: the code draws until they are.
ecmult_gen_blind(ctx, seed) ==
    LET from == IF seed = 0 THEN unblinded ELSE ctx
        s == 1 + (CurveHash(<<from.blind, seed, 1>>) % (FieldPrime - 1))
        b == 1 + (CurveHash(<<from.blind, seed, 2>>) % (CurveOrder - 1))
    IN [blind |-> cneg(b), initial |-> ecmult_gen([from EXCEPT !.initial = gej_rescale(@, s)], b)]

-------------------------------------------------------------------------------
(* One user.  A walk adds, doubles, negates and rescales one point; log is *)
(* what it should be a multiple of.                                        *)

CurveIdle == [at |-> "idle"]
WalkBegin == curve.at = "idle" /\ curve' = [at |-> "walk", r |-> GejInfinity, log |-> 0]

step(r, log) == curve.at = "walk" /\ curve' = [at |-> "walk", r |-> r, log |-> log % CurveOrder]

WalkAdd(k, z) ==
    LET b == IF pointOf(k).inf THEN GejInfinity ELSE gej_rescale(gej_set_ge(pointOf(k)), z)
    IN step(gej_add_var(curve.r, b), curve.log + k)
WalkAddAffine(k) == step(gej_add_ge_var(curve.r, pointOf(k)), curve.log + k)
WalkAddConst(k) == k # 0 /\ step(gej_add_ge(curve.r, pointOf(k)), curve.log + k)
WalkAddZinv(k, z) ==
    step(gej_add_zinv_var(curve.r, IF pointOf(k).inf THEN GeInfinity ELSE ge_set_gej_zinv(pointOf(k), z), FInv(z)),
         curve.log + k)
WalkDouble == step(gej_double_var(curve.r), 2 * curve.log)
WalkTurn == step(gej_neg(curve.r), CurveOrder - curve.log)

\* A generator from two field elements, blinded or not.
GenerateGenerator(blind, t1, t2) ==
    LET accum == IF blind = NoScalar THEN GejInfinity ELSE ecmult_gen(unblinded, blind)
    IN /\ curve.at = "idle"
       /\ curve' = [at |-> "mapped", blind |-> blind, ts |-> <<t1, t2>>,
                    gen |-> generator_generate_internal(accum, t1, t2)]

\* The context of the generator is blinded again and again.
GenContext == curve.at = "idle" /\ curve' = [at |-> "gen", ctx |-> ecmult_gen_blind(unblinded, 0)]
ContextRandomize(seed) == curve.at = "gen" /\ curve' = [curve EXCEPT !.ctx = ecmult_gen_blind(curve.ctx, seed)]

\* job = [endo, points: the multiples of G, scalars, ng, limit: of the scratch
\*        space (0 for none), failAt: where the callback fails]
\* The plan for n points: which algorithm, and how many points a batch.
perBatch(n, most) ==
    IF n = 0 \/ most = 0 THEN 0 ELSE LET batches == (n + most - 1) \div most IN (n + batches - 1) \div batches
planAs(job, s, n, pippenger, most) ==
    [at |-> IF n = 0 THEN "product" ELSE IF job.limit > 0 /\ most = 0 THEN "failed" ELSE "multi",
     job |-> job, s |-> s, done |-> 0, null |-> FALSE, pippenger |-> pippenger, per |-> perBatch(n, most),
     r |-> IF n > 0 \/ job.ng = NoScalar THEN GejInfinity
           ELSE ecmult_product(job.endo, GejInfinity, 0, job.ng)]
planFor(job, s, n, mostP) ==
    planAs(job, s, n, perBatch(n, mostP) >= PippengerThreshold,
           IF mostP = 0 \/ perBatch(n, mostP) >= PippengerThreshold THEN mostP ELSE strauss_max_points(job.endo, s))
ECMULT_MAX_POINTS_PER_BATCH(endo) == IF endo THEN 5000000 ELSE 10000000
planned(job, s) ==
    planFor(job, s, Len(job.points), lesser(pippenger_max_points(job.endo, s), ECMULT_MAX_POINTS_PER_BATCH(job.endo)))
MultiBegin(job) ==
    /\ curve.at = "idle"
    /\ curve' = planned(job, scratch_create(job.limit))

afterBatch(b, to) ==
    [curve EXCEPT !.s = b.s,
                  !.null = @ \/ b.null,
                  !.done = to,
                  !.r = IF b.ok THEN gej_add_var(@, b.sum) ELSE @,
                  !.at = IF ~b.ok THEN "failed" ELSE IF to = Len(curve.job.points) THEN "product" ELSE "multi"]
MultiBatch ==
    LET to == lesser(Len(curve.job.points), curve.done + curve.per)
    IN /\ curve.at = "multi"
       /\ curve.job.limit > 0
       /\ curve' = afterBatch(batch(curve.job, curve.s, curve.pippenger, curve.done + 1, to,
                                   IF curve.done = 0 THEN curve.job.ng ELSE NoScalar), to)

\* Without a scratch space the products are added up one by one.
ecmult_multi_var_simple ==
    LET job == curve.job
        n == Len(job.points)
        term(i) == ecmult_product(job.endo, IF i = 0 THEN GejInfinity ELSE gej_set_ge(pointOf(job.points[i])),
                                  IF i = 0 THEN 0 ELSE job.scalars[i], IF i = 0 THEN job.ng ELSE NoScalar)
        run[i \in -1 .. n] == IF i = -1 THEN GejInfinity ELSE gej_add_var(run[i - 1], term(i))
    IN /\ curve.at = "multi"
       /\ job.limit = 0
       /\ curve' = IF job.failAt \in 1 .. n THEN [curve EXCEPT !.at = "failed"]
                   ELSE [curve EXCEPT !.at = "product", !.r = run[n]]

WalkPoints == {0, 1, 2, Lambda, CurveOrder - 1}
CurveNext ==
    \/ WalkBegin
    \/ \E k \in WalkPoints \union {CurveOrder - 2 * Lambda}, z \in {1, 3} :
          WalkAdd(k, z) \/ WalkAddZinv(k, z)
    \/ \E k \in WalkPoints : WalkAddAffine(k) \/ WalkAddConst(k)
    \/ WalkDouble
    \/ WalkTurn
    \/ \E blind \in {NoScalar, 0, 1, 20}, t1, t2 \in {1, 2, 5, 20} : GenerateGenerator(blind, t1, t2)
    \/ GenContext
    \/ \E seed \in 0 .. 3 : ContextRandomize(seed)
    \/ \E job \in MultiJobs : MultiBegin(job)
    \/ MultiBatch
    \/ ecmult_multi_var_simple

-------------------------------------------------------------------------------
\* However a product is made it is the same point: a walk stands where its
\* steps say, through sums of a point with itself, with its opposite and with
\* its lambda multiples; the blinded and the constant-time products are those
\* of the textbook for every scalar after any number of blindings; and sums of
\* products come out the same in one batch or many, by Strauss or Pippenger,
\* with and without the endomorphism.
ProductsAgree ==
    /\ curve.at = "walk" => /\ affine(curve.r) = pointOf(curve.log)
                            /\ curve.log # 0 => gej_is_valid_var(curve.r)
    /\ curve.at = "gen" => \A k \in 0 .. CurveOrder - 1 :
          affine(ecmult_gen(curve.ctx, k)) = pointOf(k)
    /\ curve.at = "product" =>
          affine(curve.r) =
             pointOf((IF curve.job.ng = NoScalar THEN 0 ELSE curve.job.ng)
                     + LET n == Len(curve.job.points)
                           sum[i \in 0 .. n] == IF i = 0 THEN 0
                                                ELSE sum[i - 1] + curve.job.points[i] * curve.job.scalars[i]
                       IN sum[n])
    /\ curve.at = "product" /\ Len(curve.job.points) > 0 /\ curve.job.points[1] # 0 =>
          affine(ecmult_const(curve.job.endo, pointOf(curve.job.points[1]), curve.job.scalars[1]))
             = pointOf(curve.job.points[1] * curve.job.scalars[1])
    /\ curve.at = "mapped" =>
          LET sum == (IF curve.blind = NoScalar THEN 0 ELSE curve.blind)
                     + logOf(shallue_van_de_woestijne(curve.ts[1])) + logOf(shallue_van_de_woestijne(curve.ts[2]))
          IN sum % CurveOrder # 0 => curve.gen = pointOf(sum)

\* A sum of products gives its scratch space back whether it succeeds, runs
\* out of room or is stopped by a callback, its batches never miss a point or
\* a piece of memory, and it fails only for one of the two reasons.
BatchesReturnTheirScratch ==
    curve.at \in {"multi", "product", "failed"} =>
        /\ curve.s.frames = <<>>
        /\ ~curve.null
        /\ curve.at = "failed" => \/ curve.job.failAt \in 1 .. Len(curve.job.points)
                                  \/ curve.done = 0
===============================================================================
