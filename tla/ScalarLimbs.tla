----------------------------- MODULE ScalarLimbs -----------------------------
(***************************************************************************)
(* Scalars of libsecp256k1 in the representation of the portable build     *)
(* (scalar_8x32_impl.h): eight words, always below the order.  The order   *)
(* is the span of the words less a complement of four free words and a 1   *)
(* in the fifth, and its own top words are full: the comparisons rely on   *)
(* it, and so does the reduction of a product in three folds.  The carries *)
(* run through an accumulator of three words (c0, c1, c2).                 *)
(*                                                                         *)
(* A register is read from a string and goes through legal calls; the      *)
(* contracts that only a VERIFY build asserts are guards.                  *)
(***************************************************************************)
EXTENDS FieldLimbs

CONSTANTS
    ScalarWordBits,         \* 32
    ScalarOrder,            \* the order, a number of eight words
    ScalarInputs,           \* the numbers that the strings read stand for
    ScalarBitsSet,          \* the bits that cadd_bit is asked to add
    ScalarShifts,           \* the shifts of a product
    KeyStream(_, _, _),     \* the stream's numbers: seed, index, tries so far
    MaxScalarCalls          \* how many operations a register goes through

VARIABLE number

scalarVars == <<number>>

S == 2 ^ ScalarWordBits
ScalarSpan == 2 ^ (8 * ScalarWordBits)

cut8(v) == Tuple(8, LAMBDA k : (v \div 2 ^ (ScalarWordBits * (k - 1))) % S)
joined(d) == LET v[k \in 0 .. 8] == IF k = 0 THEN 0 ELSE v[k - 1] + d[k] * 2 ^ (ScalarWordBits * (k - 1))
             IN  v[8]

N == cut8(ScalarOrder)
NH == cut8(ScalarOrder \div 2)

\* The complement's words, as the code derives them from those of the order.
NC == Tuple(5, LAMBDA k : CASE k = 1 -> S - N[1] [] k = 5 -> 1 [] OTHER -> S - 1 - N[k])

ASSUME ScalarAssumption ==
    /\ ScalarOrder % 2 = 1 /\ ScalarOrder < ScalarSpan
    /\ N[8] = S - 1 /\ N[7] = S - 1 /\ N[6] = S - 1 /\ N[5] = S - 2

-------------------------------------------------------------------------------
(* Comparisons and bits                                                    *)

\* From the top word: "no" once a word is lower, "yes" once one is higher;
\* only the words of looked are compared both ways.
compared(a, n, looked) ==
    LET f[k \in 1 .. 9] ==
            IF k = 9 THEN [yes |-> FALSE, no |-> FALSE]
            ELSE LET above == f[k + 1]
                     no == above.no \/ (a[k] < n[k] /\ ~above.yes)
                 IN  [no |-> no, yes |-> above.yes \/ (k \in looked /\ a[k] > n[k] /\ ~no)]
    IN  f

\* Mutant of scalar_check_overflow: the order itself passes for a number below it.
scalar_check_overflow_strict(a) ==
    LET f == compared(a, N, 2 .. 5)[2] IN f.yes \/ (a[1] > N[1] /\ ~f.no)

scalar_check_overflow(a) ==
    LET f == compared(a, N, 2 .. 5)[2] IN f.yes \/ (a[1] >= N[1] /\ ~f.no)
scalar_is_high(a) ==
    LET f == compared(a, NH, {8} \cup 2 .. 4)[2] IN f.yes \/ (a[1] > NH[1] /\ ~f.no)

scalar_is_zero(a) == \A k \in 1 .. 8 : a[k] = 0
scalar_is_one(a) == a[1] = 1 /\ \A k \in 2 .. 8 : a[k] = 0
scalar_eq(a, b) == \A k \in 1 .. 8 : a[k] = b[k]
scalar_clear == Tuple(8, LAMBDA k : 0)
scalar_set_int(v) == Tuple(8, LAMBDA k : IF k = 1 THEN v ELSE 0)
scalar_set_u64(v) == Tuple(8, LAMBDA k : CASE k = 1 -> v % S [] k = 2 -> v \div S [] OTHER -> 0)

scalar_get_bits(a, offset, count) ==
    (a[offset \div ScalarWordBits + 1] \div 2 ^ (offset % ScalarWordBits)) % 2 ^ count
\* The bits may lie across two words.
scalar_get_bits_var(a, offset, count) ==
    LET k == offset \div ScalarWordBits + 1
        low == offset % ScalarWordBits
    IN  IF (offset + count - 1) \div ScalarWordBits + 1 = k THEN scalar_get_bits(a, offset, count)
        ELSE (a[k] \div 2 ^ low + ((a[k + 1] * 2 ^ (ScalarWordBits - low)) % S)) % 2 ^ count

-------------------------------------------------------------------------------
(* Sums                                                                    *)

bit(b) == IF b THEN 1 ELSE 0

\* Eight words out of eight terms, with the carry that is left at the end.
summed(term(_)) ==
    LET t[k \in 0 .. 8] ==
            IF k = 0 THEN [d |-> <<>>, carry |-> 0]
            ELSE LET before == t[k - 1]
                     sum == before.carry + term(k)
                 IN  [d |-> Append(before.d, sum % S), carry |-> sum \div S]
    IN  t[8]

scalar_reduce(r, overflow) ==
    LET term(k) == r[k] + (IF k <= 5 THEN (overflow * NC[k]) % S ELSE 0) IN summed(term).d

scalar_add(a, b) ==
    LET term(k) == a[k] + b[k]
        sum == summed(term)
        overflow == sum.carry + bit(scalar_check_overflow(sum.d))
    IN  [d |-> scalar_reduce(sum.d, overflow), ret |-> overflow]

\* With the flag down the bit is moved above the words, where it adds nothing.
scalar_cadd_bit(r, b, flag) ==
    LET at == IF flag THEN b ELSE b + 8 * ScalarWordBits
        term(k) == r[k] + bit(at \div ScalarWordBits = k - 1) * 2 ^ (at % ScalarWordBits)
    IN  summed(term).d

limbs_set_b32(v) == LET over == bit(scalar_check_overflow(cut8(v)))
                    IN  [d |-> scalar_reduce(cut8(v), over), ret |-> over]
limbs_get_b32(a) == joined(a)

\* The order minus a is a's complement plus the order plus one, cut to the
\* words; zero is masked away so that it stays zero.
scalar_negate(a) ==
    LET term(k) == S - 1 - a[k] + N[k] + bit(k = 1)
    IN  IF scalar_is_zero(a) THEN scalar_clear ELSE summed(term).d
scalar_cond_negate(r, flag) ==
    LET term(k) == IF flag THEN S - 1 - r[k] + N[k] + bit(k = 1) ELSE r[k]
    IN  [d |-> IF scalar_is_zero(r) THEN scalar_clear ELSE summed(term).d, ret |-> IF flag THEN -1 ELSE 1]

scalar_shr_int(r, n) ==
    [d |-> Tuple(8, LAMBDA k : (r[k] \div 2 ^ n
                                + (IF k < 8 THEN (r[k + 1] * 2 ^ (ScalarWordBits - n)) % S ELSE 0)) % S),
     ret |-> r[1] % 2 ^ n]

limbs_split_128(a) == [low |-> Tuple(8, LAMBDA k : IF k <= 4 THEN a[k] ELSE 0),
                       high |-> Tuple(8, LAMBDA k : IF k <= 4 THEN a[k + 4] ELSE 0)]

-------------------------------------------------------------------------------
(* The accumulator of three words                                          *)

acc(c0, c1, c2) == [c0 |-> c0, c1 |-> c1, c2 |-> c2]

\* Every sum is cut to a word, and a sum below its term has carried.
highAdded(c, c0, th, c1) == acc(c0, c1, (c.c2 + bit(c1 < th)) % S)
lowCarried(c, c0, th) == highAdded(c, c0, th, (c.c1 + th) % S)
lowAdded(c, tl, th, c0) == lowCarried(c, c0, (th + bit(c0 < tl)) % S)
muladd(c, a, b) == lowAdded(c, (a * b) % S, (a * b) \div S, (c.c0 + ((a * b) % S)) % S)

muladd_fast(c, a, b) ==
    LET c0 == (c.c0 + ((a * b) % S)) % S
    IN  acc(c0, (c.c1 + (a * b) \div S + bit(c0 < (a * b) % S)) % S, c.c2)

\* The double of a product: th2 + carry may be cut to 0 only when c0 < tl2 does it.
doubleAdded(c, c0, tl2, thOver, th2, c1) ==
    acc(c0, c1, (c.c2 + thOver + bit(c0 < tl2 /\ th2 = 0) + bit(c1 < th2)) % S)
doubleCarried(c, c0, tl2, thOver, th2) == doubleAdded(c, c0, tl2, thOver, th2, (c.c1 + th2) % S)
doubleLow(c, c0, tl2, thOver, th2) == doubleCarried(c, c0, tl2, thOver, (th2 + bit(c0 < tl2)) % S)
doubledTo(c, tl, th, tl2, th2) ==
    doubleLow(c, (c.c0 + tl2) % S, tl2, bit(th2 < th), (th2 + bit(tl2 < tl)) % S)
muladd2(c, a, b) ==
    doubledTo(c, (a * b) % S, (a * b) \div S, (2 * (a * b)) % S, (2 * ((a * b) \div S)) % S)

sumadd(c, a) ==
    LET c0 == (c.c0 + a) % S
        over == bit(c0 < a)
        c1 == (c.c1 + over) % S
    IN  acc(c0, c1, (c.c2 + bit(c1 < over)) % S)
sumadd_fast(c, a) == LET c0 == (c.c0 + a) % S IN acc(c0, (c.c1 + bit(c0 < a)) % S, c.c2)

extract(c) == acc(c.c1, c.c2, 0)
extract_fast(c) == acc(c.c1, 0, c.c2)

\* The accumulator after the terms first .. last, in that order.
through(c, first, last, f(_, _)) ==
    LET g[i \in first - 1 .. last] == IF i = first - 1 THEN c ELSE f(g[i - 1], i)
    IN  IF last < first THEN c ELSE g[last]

\* Words out of columns: what column(c, k) leaves in c0 is word k.  The fast
\* extraction relies on c2 = 0, which a VERIFY build asserts: "clean".
wordOut(before, c, fast) ==
    [clean |-> before.clean /\ (fast => c.c2 = 0),
     c |-> IF fast THEN extract_fast(c) ELSE extract(c), l |-> Append(before.l, c.c0)]
words(start, lastColumn, column(_, _), fast) ==
    LET next(before, k) == wordOut(before, column(before.c, k), k \in fast)
        w[k \in -1 .. lastColumn] ==
            IF k = -1 THEN [clean |-> TRUE, c |-> start, l |-> <<>>]
            ELSE next(w[k - 1], k)
    IN  w[lastColumn]

-------------------------------------------------------------------------------
(* Products (words count from 0 in the columns, as in the code)            *)

top(k) == IF k < 7 THEN k ELSE 7
bottom(k) == IF k > 7 THEN k - 7 ELSE 0

mulColumns(a, b) ==
    LET column(c, k) == IF k \in {0, 14} THEN muladd_fast(c, a[k \div 2 + 1], b[k \div 2 + 1])
                        ELSE LET f(d, i) == muladd(d, a[i + 1], b[k - i + 1])
                             IN  through(c, bottom(k), top(k), f)
    IN  words(acc(0, 0, 0), 14, column, {0, 14})

withLast(w) == Append(w.l, w.c.c0)
scalar_mul_512(a, b) == withLast(mulColumns(a, b))

\* The pairs of a square are added doubled, and its middle once.
withMiddle(a, k, pairs) == IF k % 2 = 1 THEN pairs ELSE muladd(pairs, a[k \div 2 + 1], a[k \div 2 + 1])
sqrColumns(a) ==
    LET column(c, k) ==
            IF k \in {0, 14} THEN muladd_fast(c, a[k \div 2 + 1], a[k \div 2 + 1])
            ELSE LET f(d, i) == muladd2(d, a[i + 1], a[k - i + 1])
                 IN  withMiddle(a, k, through(c, bottom(k), (k - 1) \div 2, f))
    IN  words(acc(0, 0, 0), 14, column, {0, 14})

scalar_sqr_512(a) == withLast(sqrColumns(a))

\* low + high * NC: word k of low, the products of high with the four free
\* words of NC, and high itself four words up for the 1 in the fifth.
foldedHigh(products, high, h, last, k) ==
    CASE k < 4 \/ k - 4 > h -> products
      [] k = last -> sumadd_fast(products, high[k - 3])
      [] OTHER -> sumadd(products, high[k - 3])
foldColumn(low, high, last, c, k) ==
    LET h == Len(high) - 1
        ownWord == CASE k = 0 \/ k > 7 -> c
                     [] k \in {1, last} -> sumadd_fast(c, low[k + 1])
                     [] OTHER -> sumadd(c, low[k + 1])
        f(d, i) == IF k \in {0, last} THEN muladd_fast(d, high[i + 1], NC[k - i + 1])
                   ELSE muladd(d, high[i + 1], NC[k - i + 1])
    IN  foldedHigh(through(ownWord, IF k > 3 THEN k - 3 ELSE 0, IF k < h THEN k ELSE h, f), high, h, last, k)

\* 512 bits into 385.
reduceTo385(l) ==
    LET column(c, k) == foldColumn(l, SubSeq(l, 9, 16), 11, c, k)
    IN  withLast(words(acc(l[1], 0, 0), 11, column, {0, 11}))

\* 385 bits into 258.
topAdded(w, m12) == Append(w.l, w.c.c0 + m12)
reduceTo258(m) ==
    LET column(c, k) == foldColumn(m, SubSeq(m, 9, 13), 7, c, k)
    IN  topAdded(words(acc(m[1], 0, 0), 7, column, {0, 7}), m[13])

\* 258 bits into 256, and the last reduction with the carry of that sum.
lastReduction(sum) == scalar_reduce(sum.d, sum.carry + bit(scalar_check_overflow(sum.d)))
foldTop(p) == LET term(k) == p[k] + (IF k <= 5 THEN NC[k] * p[9] ELSE 0) IN lastReduction(summed(term))
scalar_reduce_512(l) == foldTop(reduceTo258(reduceTo385(l)))

scalar_mul(a, b) == scalar_reduce_512(scalar_mul_512(a, b))
scalar_sqr(a) == scalar_reduce_512(scalar_sqr_512(a))

\* The product shifted down, rounded by the last bit that is shifted out.
shiftedDown(l, shift, at, low) ==
    LET word_(k) == IF k + at > 15 THEN 0
                    ELSE l[k + at + 1] \div 2 ^ low
                         + (IF k + at < 15 /\ low > 0 THEN (l[k + at + 2] * 2 ^ (ScalarWordBits - low)) % S ELSE 0)
        rounding == (l[(shift - 1) \div ScalarWordBits + 1] \div 2 ^ ((shift - 1) % ScalarWordBits)) % 2
    IN  scalar_cadd_bit(Tuple(8, LAMBDA k : word_(k - 1)), 0, rounding = 1)
limbs_mul_shift_var(a, b, shift) ==
    shiftedDown(scalar_mul_512(a, b), shift, shift \div ScalarWordBits, shift % ScalarWordBits)

\* The stream is asked again until both of its numbers are below the order.
bothOf(drawn_) == [r1 |-> cut8(drawn_[1]), r2 |-> cut8(drawn_[2])]
scalar_chacha20(seed, idx) ==
    LET refused(tries) == \E i \in 1 .. 2 : scalar_check_overflow(cut8(KeyStream(seed, idx, tries)[i]))
    IN  bothOf(KeyStream(seed, idx, CHOOSE n \in 0 .. S : \A j \in 0 .. n : refused(j) <=> j < n))

-------------------------------------------------------------------------------
(* What exact arithmetic gives                                             *)

exactScalarProduct(v, w) ==
    LET h[k \in 0 .. 8] == IF k = 0 THEN 0 ELSE (h[k - 1] * S + v * cut8(w)[9 - k]) % ScalarOrder
    IN  h[8]

\* The product of two numbers in halves, above and below the span.
half == 2 ^ (4 * ScalarWordBits)
exactShift(v, w, shift) ==
    LET middle == (v \div half) * (w % half) + (v % half) * (w \div half) + ((v % half) * (w % half)) \div half
        high == (v \div half) * (w \div half) + middle \div half
        low == (middle % half) * half + (((v % half) * (w % half)) % half)
        beyond == 2 ^ (shift - 8 * ScalarWordBits)
    IN  high \div beyond + (IF beyond = 1 THEN (2 * low) \div ScalarSpan ELSE ((2 * high) \div beyond) % 2)

-------------------------------------------------------------------------------
(* A register and its calls: "value" is the number it should stand for,    *)
(* "ret" what the last call returned and "due" what it should have.        *)

ScalarIdle == [phase |-> "idle"]

holdScalar(calls, d, value, ret, due) ==
    number' = [phase |-> "held", calls |-> calls, d |-> d, value |-> value, ret |-> ret, due |-> due]

ScalarRead == \E v \in ScalarInputs :
    /\ number.phase = "idle"
    /\ holdScalar(0, limbs_set_b32(v).d, v % ScalarOrder, limbs_set_b32(v).ret, bit(v >= ScalarOrder))

ScalarDraw == \E seed, idx \in {0, 1} :
    /\ number.phase = "idle"
    /\ LET r == scalar_chacha20(seed, idx)
       IN  \/ holdScalar(0, r.r1, joined(r.r1), 0, 0)
           \/ holdScalar(0, r.r2, joined(r.r2), 0, 0)

mayCall == number.phase = "held" /\ number.calls < MaxScalarCalls
scalarStep(d, value) == mayCall /\ holdScalar(number.calls + 1, d, value, 0, 0)
scalarReturn(r, value, due) == mayCall /\ holdScalar(number.calls + 1, r.d, value, r.ret, due)

operand(v) == limbs_set_b32(v).d

ScalarAdd == \E v \in ScalarInputs :
    LET sum == number.value + (v % ScalarOrder)
    IN  mayCall /\ scalarReturn(scalar_add(number.d, operand(v)), sum % ScalarOrder, bit(sum >= ScalarOrder))

ScalarAddBit == \E b \in ScalarBitsSet, flag \in BOOLEAN :
    /\ mayCall /\ number.value + 2 ^ b < ScalarOrder
    /\ scalarStep(scalar_cadd_bit(number.d, b, flag), number.value + bit(flag) * 2 ^ b)

ScalarNegate == \E flag \in BOOLEAN :
    LET negative == (ScalarOrder - number.value) % ScalarOrder
    IN  /\ mayCall
        /\ \/ flag /\ scalarStep(scalar_negate(number.d), negative)
           \/ scalarReturn(scalar_cond_negate(number.d, flag), IF flag THEN negative ELSE number.value,
                           IF flag THEN -1 ELSE 1)

ScalarMul == \E v \in ScalarInputs :
    mayCall /\ scalarStep(scalar_mul(number.d, operand(v)), exactScalarProduct(number.value, v % ScalarOrder))

ScalarSquare == mayCall /\ scalarStep(scalar_sqr(number.d), exactScalarProduct(number.value, number.value))

ScalarShiftRight == \E n \in 1 .. ScalarWordBits - 1 :
    mayCall /\ scalarReturn(scalar_shr_int(number.d, n), number.value \div 2 ^ n, number.value % 2 ^ n)

ScalarMulShift == \E v \in ScalarInputs, shift \in ScalarShifts :
    mayCall /\ scalarStep(limbs_mul_shift_var(number.d, operand(v), shift),
                          exactShift(number.value, v % ScalarOrder, shift))

ScalarSplit ==
    \/ mayCall /\ scalarStep(limbs_split_128(number.d).low, number.value % half)
    \/ mayCall /\ scalarStep(limbs_split_128(number.d).high, number.value \div half)

ScalarNext == ScalarRead \/ ScalarDraw \/ ScalarAdd \/ ScalarAddBit \/ ScalarNegate \/ ScalarMul
              \/ ScalarSquare \/ ScalarShiftRight \/ ScalarMulShift \/ ScalarSplit

-------------------------------------------------------------------------------
(* A register always holds the one representation, below the order, of the *)
(* number that exact arithmetic gives, its calls return the carries, signs *)
(* and remainders they should, and its questions are answered by it.       *)
ScalarLimbsAreExact ==
    number.phase = "held" =>
        /\ number.value < ScalarOrder /\ number.d = cut8(number.value)
        /\ ~scalar_check_overflow(number.d) /\ limbs_get_b32(number.d) = number.value
        /\ number.ret = number.due
        /\ mulColumns(number.d, number.d).clean /\ sqrColumns(number.d).clean
        /\ scalar_is_high(number.d) = (number.value > ScalarOrder \div 2)
        /\ scalar_is_zero(number.d) = (number.value = 0)
        /\ scalar_is_one(number.d) = (number.value = 1)
        /\ scalar_eq(number.d, scalar_clear) = (number.value = 0)
        /\ scalar_eq(number.d, scalar_set_u64(number.value % (S * S))) = (number.value < S * S)
        /\ scalar_eq(number.d, scalar_set_int(number.value % S)) = (number.value < S)
        /\ \A offset \in 0 .. 8 * ScalarWordBits - 2 :
             scalar_get_bits_var(number.d, offset, 2) = (number.value \div 2 ^ offset) % 4

\* Both representations at once: see FieldLimbsAreExact and ScalarLimbsAreExact.
LimbsAreExact == FieldLimbsAreExact /\ ScalarLimbsAreExact
===============================================================================
