------------------------------ MODULE FieldLimbs ------------------------------
(***************************************************************************)
(* Field elements of libsecp256k1 in the representation of the portable    *)
(* build (field_10x26_impl.h): FieldLimbCount limbs of FieldLimbBits bits, *)
(* the last one of FieldTopBits, kept in machine words with room to spare. *)
(* Additions do not carry, so an element has a magnitude, the multiple of  *)
(* its limbs' widths that the limbs may reach, and is brought back by the  *)
(* normalisations and by every multiplication.  The prime is the power of  *)
(* two above the limbs minus C, and C takes two limbs: C0 + C1 * 2^Bits.   *)
(*                                                                         *)
(* A register starts from a string and goes through legal calls: the       *)
(* contracts on magnitudes, which only a VERIFY build asserts, are guards. *)
(***************************************************************************)
EXTENDS PrimeGroup

CONSTANTS
    FieldLimbCount, FieldLimbBits, FieldTopBits,    \* 10, 26, 22
    FieldC0, FieldC1,                               \* 0x3D1, 0x40
    WordBits,                                       \* bits of a limb's word: 32
    DoubleBits,                                     \* bits of an accumulator: 64
    FieldInputs,        \* the numbers that the strings read stand for
    MaxMagnitude,       \* the contract of a magnitude: 32
    MaxFactor,          \* and of the operands of a multiplication: 8
    MaxFieldCalls       \* how many operations a register goes through

VARIABLE register

fieldVars == <<register>>

L == FieldLimbCount
LimbSpan == 2 ^ FieldLimbBits
TopSpan == 2 ^ FieldTopBits
FieldSpan == 2 ^ (FieldLimbBits * (L - 1) + FieldTopBits)
FieldCharacteristic == FieldSpan - FieldC0 - FieldC1 * LimbSpan

\* R0 and R1: what a limb beyond the last is worth, in the two lowest limbs.
FoldShift == 2 ^ (FieldLimbBits - FieldTopBits)
R0 == FieldC0 * FoldShift
R1 == FieldC1 * FoldShift

ASSUME FieldAssumption ==
    /\ FieldLimbCount > 3 /\ FieldTopBits > 0 /\ FieldTopBits <= FieldLimbBits
    /\ FieldC1 * FoldShift < LimbSpan
    /\ 2 * MaxMagnitude * (LimbSpan - 1) < 2 ^ WordBits /\ 2 * MaxMagnitude + 2 < TopSpan

word(x) == x % 2 ^ WordBits
wide(x) == x % 2 ^ DoubleBits

\* The largest limb k of a normalised element, and the limb of the prime.
fullLimb(k) == IF k = L THEN TopSpan - 1 ELSE LimbSpan - 1
primeLimb(k) ==
    CASE k = 1 -> LimbSpan - FieldC0
      [] k = 2 -> LimbSpan - 1 - FieldC1
      [] OTHER -> fullLimb(k)

limbsValue(n) == LET v[k \in 0 .. L] == IF k = 0 THEN 0 ELSE v[k - 1] + n[k] * 2 ^ (FieldLimbBits * (k - 1))
                 IN v[L]
limbsOf(v) == Tuple(L, LAMBDA k : IF k = L THEN v \div 2 ^ (FieldLimbBits * (L - 1))
                                  ELSE (v \div 2 ^ (FieldLimbBits * (k - 1))) % LimbSpan)

fe(n, magnitude, normalized) == [n |-> n, magnitude |-> magnitude, normalized |-> normalized]

-------------------------------------------------------------------------------
(* What a VERIFY build asserts of an element                               *)

\* Are the limbs of n those of a number of at least the prime?
reachesPrime(n, low0, low1) ==
    /\ n[L] = TopSpan - 1
    /\ \A k \in 3 .. L - 1 : n[k] = LimbSpan - 1
    /\ low1 + FieldC1 + (low0 + FieldC0) \div LimbSpan > LimbSpan - 1

fe_verify(a) ==
    LET m == IF a.normalized THEN 1 ELSE 2 * a.magnitude
    IN  /\ \A k \in 1 .. L : a.n[k] <= fullLimb(k) * m
        /\ a.magnitude \in 0 .. MaxMagnitude
        /\ a.normalized => a.magnitude <= 1 /\ ~reachesPrime(a.n, a.n[1], a.n[2])

-------------------------------------------------------------------------------
(* Normalisation                                                           *)

\* Limb t[k] takes the carry of the limb below; all but the last are cut.
carried(t) ==
    LET c[k \in 1 .. L] == IF k = 1 THEN t[1] ELSE word(t[k] + c[k - 1] \div LimbSpan)
    IN  Tuple(L, LAMBDA k : IF k = L THEN c[L] ELSE c[k] % LimbSpan)

\* x times the power of two above the element is x times C.
folded(t, x) ==
    Tuple(L, LAMBDA k : CASE k = 1 -> word(t[1] + x * FieldC0)
                          [] k = 2 -> word(t[2] + x * FieldC1)
                          [] OTHER -> t[k])

topCut(t) == [t EXCEPT ![L] = t[L] % TopSpan]
firstPass(n) == carried(folded(topCut(n), n[L] \div TopSpan))

fe_normalize_weak(a) == fe(firstPass(a.n), 1, a.normalized)

\* The second pass is taken when a bit is left above the top limb, or when
\* the number is not below the prime; the constant-time form folds 0 or 1.
fe_normalize(a) ==
    LET t == firstPass(a.n)
        x == IF t[L] \div TopSpan > 0 \/ reachesPrime(t, t[1], t[2]) THEN 1 ELSE 0
    IN  fe(topCut(carried(folded(t, x))), 1, TRUE)

fe_normalize_var(a) ==
    LET t == firstPass(a.n)
    IN  IF t[L] \div TopSpan > 0 \/ reachesPrime(t, t[1], t[2])
        THEN fe(topCut(carried(folded(t, 1))), 1, TRUE) ELSE fe(t, 1, TRUE)

\* z0 and z1: are the limbs after one pass those of 0, or those of the prime?
rawZero(t) == \/ \A k \in 1 .. L : t[k] = 0
              \/ \A k \in 1 .. L : t[k] = primeLimb(k)

fe_normalizes_to_zero(a) == rawZero(firstPass(a.n))

\* The lowest limb alone decides most cases.
fe_normalizes_to_zero_var(a) ==
    LET low == word(a.n[1] + (a.n[L] \div TopSpan) * FieldC0) % LimbSpan
    IN  IF low # 0 /\ low # primeLimb(1) THEN FALSE ELSE rawZero(firstPass(a.n))

-------------------------------------------------------------------------------
(* Reading, writing and comparing                                          *)

fe_set_int(i) == fe(Tuple(L, LAMBDA k : IF k = 1 THEN i ELSE 0), 1, TRUE)
fe_clear == fe(Tuple(L, LAMBDA k : 0), 0, TRUE)
fe_is_zero(a) == \A k \in 1 .. L : a.n[k] = 0
fe_is_odd(a) == a.n[1] % 2 = 1

\* 1, -1 or 0, from the highest limb that differs.
fe_cmp_var(a, b) ==
    LET c[k \in 0 .. L] == CASE k = 0 -> 0
                             [] k > 0 /\ a.n[k] > b.n[k] -> 1
                             [] k > 0 /\ a.n[k] < b.n[k] -> -1
                             [] OTHER -> c[k - 1]
    IN  c[L]

\* A string of at least the prime is refused; its limbs are left as read.
fe_set_b32(v) == LET n == limbsOf(v)
                 IN  [ok |-> ~reachesPrime(n, n[1], n[2]), v |-> fe(n, 1, TRUE)]
fe_get_b32(a) == limbsValue(a.n)

\* Storage packs the limbs without gaps: bit i of the number is bit i there.
fe_to_storage(a) == limbsValue(a.n)
fe_from_storage(s) == fe(limbsOf(s), 1, TRUE)

fe_cmov(r, a, flag) ==
    fe(Tuple(L, LAMBDA k : IF flag THEN a.n[k] ELSE r.n[k]),
       IF a.magnitude > r.magnitude THEN a.magnitude ELSE r.magnitude,
       r.normalized /\ a.normalized)
fe_storage_cmov(r, a, flag) == IF flag THEN a ELSE r

-------------------------------------------------------------------------------
(* Arithmetic                                                              *)

fe_negate(a, m) ==
    fe(Tuple(L, LAMBDA k : word(primeLimb(k) * 2 * (m + 1) - a.n[k])), m + 1, FALSE)
fe_mul_int(r, i) == fe(Tuple(L, LAMBDA k : word(r.n[k] * i)), r.magnitude * i, FALSE)
fe_add(r, a) == fe(Tuple(L, LAMBDA k : word(r.n[k] + a.n[k])), r.magnitude + a.magnitude, FALSE)

\* Column x of the product, p_x in the code (limbs count from 0 there).
productColumn(a, b, x) ==
    LET s[i \in 0 .. L] == IF i = 0 THEN 0
                           ELSE s[i - 1] + (IF x - i + 2 \in 1 .. L THEN a[i] * b[x - i + 2] ELSE 0)
    IN  wide(s[L])

\* The square takes the two products of a pair as one with the doubled limb.
squareColumn(a, x) ==
    LET s[i \in 0 .. L] == IF i = 0 THEN 0
                           ELSE s[i - 1] + (CASE x - i + 2 \in i + 1 .. L -> word(a[i] * 2) * a[x - i + 2]
                                              [] x - i + 2 = i -> a[i] * a[i]
                                              [] OTHER -> 0)
    IN  wide(s[L])

\* The columns from below (c) and from the middle (d) are walked together:
\* what a step takes off d is worth R0 in this limb and R1 in the next one.
columns(p(_)) ==
    LET w[k \in 0 .. L - 1] ==
            IF k = 0 THEN [c |-> 0, d |-> p(L - 1) \div LimbSpan, t |-> <<>>]
            ELSE LET before == w[k - 1]
                     dk == wide(before.d + p(L + k - 1))
                     u == dk % LimbSpan
                     ck == wide(before.c + p(k - 1) + u * R0)
                 IN  [c |-> wide(ck \div LimbSpan + u * R1), d |-> dk \div LimbSpan,
                      t |-> Append(before.t, ck % LimbSpan)]
    IN  w[L - 1]

\* The rest of d and the bits above the top limb are folded into the bottom;
\* the third limb is not cut again, so the product may be one bit too wide.
lastFold(w, top) ==
    LET c1 == wide(w.c + w.d * R0 + top)
        c2 == wide(c1 \div TopSpan + w.d * (R1 * FoldShift))
        d0 == wide(c2 * FieldC0 + w.t[1])
        d1 == wide(d0 \div LimbSpan + c2 * FieldC1 + w.t[2])
    IN  Tuple(L, LAMBDA k : CASE k = 1 -> d0 % LimbSpan
                              [] k = 2 -> d1 % LimbSpan
                              [] k = 3 -> word(d1 \div LimbSpan + w.t[3])
                              [] k = L -> c1 % TopSpan
                              [] OTHER -> w.t[k])

fe_mul_inner(a, b) == LET p == Tuple(2 * L - 1, LAMBDA i : productColumn(a, b, i - 1))
                          col(x) == p[x + 1]
                      IN  lastFold(columns(col), col(L - 1) % LimbSpan)
fe_sqr_inner(a) == LET p == Tuple(2 * L - 1, LAMBDA i : squareColumn(a, i - 1))
                       col(x) == p[x + 1]
                   IN  lastFold(columns(col), col(L - 1) % LimbSpan)

fe_mul(a, b) == fe(fe_mul_inner(a.n, b.n), 1, FALSE)
fe_sqr(a) == fe(fe_sqr_inner(a.n), 1, FALSE)

-------------------------------------------------------------------------------
(* A register and its calls; "value" is the number it should stand for     *)

FieldIdle == [phase |-> "idle"]

FieldRead ==
    /\ register.phase = "idle"
    /\ \E v \in FieldInputs :
         register' = IF fe_set_b32(v).ok
                     THEN [phase |-> "held", input |-> v, calls |-> 0, r |-> fe_set_b32(v).v, value |-> v]
                     ELSE [phase |-> "refused", input |-> v, r |-> fe_set_b32(v).v]

fieldStep(r, value) ==
    /\ register.phase = "held" /\ register.calls < MaxFieldCalls
    /\ register' = [register EXCEPT !.calls = @ + 1, !.r = r, !.value = value % FieldCharacteristic]

\* The other operand: an element read from a string, as it is or negated.
otherElement(v, negated) == IF negated THEN fe_negate(fe_set_b32(v).v, 1) ELSE fe_set_b32(v).v
otherValue(v, negated) == IF negated THEN FieldCharacteristic - v ELSE v
FieldOthers == {v \in FieldInputs : v < FieldCharacteristic}

\* The product of two numbers below the prime, limb by limb from the top.
exactProduct(v, w) ==
    LET h[k \in 0 .. L] == IF k = 0 THEN 0
                           ELSE (h[k - 1] * LimbSpan + v * limbsOf(w)[L + 1 - k]) % FieldCharacteristic
    IN  h[L]

FieldNegate ==
    /\ register.phase = "held" /\ register.r.magnitude < MaxMagnitude
    /\ fieldStep(fe_negate(register.r, register.r.magnitude), FieldCharacteristic - register.value)

FieldScale == \E i \in {0, 2, 3, 8} :
    /\ register.phase = "held" /\ register.r.magnitude * i <= MaxMagnitude
    /\ fieldStep(fe_mul_int(register.r, i), register.value * i)

FieldAdd == \E v \in FieldOthers, negated \in BOOLEAN :
    /\ register.phase = "held"
    /\ register.r.magnitude + otherElement(v, negated).magnitude <= MaxMagnitude
    /\ fieldStep(fe_add(register.r, otherElement(v, negated)), register.value + otherValue(v, negated))

FieldMul == \E v \in FieldOthers, negated \in BOOLEAN :
    /\ register.phase = "held" /\ register.r.magnitude <= MaxFactor
    /\ fieldStep(fe_mul(register.r, otherElement(v, negated)),
                 exactProduct(register.value, otherValue(v, negated) % FieldCharacteristic))

FieldSquare ==
    /\ register.phase = "held" /\ register.r.magnitude <= MaxFactor
    /\ fieldStep(fe_sqr(register.r), exactProduct(register.value, register.value))

FieldNormalize ==
    /\ register.phase = "held"
    /\ \/ fieldStep(fe_normalize(register.r), register.value)
       \/ fieldStep(fe_normalize_var(register.r), register.value)
       \/ fieldStep(fe_normalize_weak(register.r), register.value)

FieldMove == \E v \in FieldOthers, flag \in BOOLEAN :
    /\ register.phase = "held"
    /\ fieldStep(fe_cmov(register.r, otherElement(v, TRUE), flag),
                 IF flag THEN otherValue(v, TRUE) ELSE register.value)

FieldNext == FieldRead \/ FieldNegate \/ FieldScale \/ FieldAdd \/ FieldMul \/ FieldSquare
             \/ FieldNormalize \/ FieldMove

-------------------------------------------------------------------------------
(* However long it goes without carrying, a register stands for the number *)
(* that exact arithmetic gives, its limbs stay within what its magnitude   *)
(* promises, both tests for zero and both normalisations agree with that   *)
(* number, and the normalised form is the only one of its value.           *)
FieldLimbsAreExact ==
    register.phase = "held" =>
        LET r == register.r
            n == fe_normalize(r)
        IN  /\ fe_verify(r)
            /\ limbsValue(r.n) % FieldCharacteristic = register.value
            /\ fe_verify(n) /\ fe_verify(fe_normalize_weak(r))
            /\ n.n = fe_set_b32(register.value).v.n /\ fe_normalize_var(r) = n
            /\ fe_get_b32(n) = register.value
            /\ fe_normalizes_to_zero(r) = (register.value = 0)
            /\ fe_normalizes_to_zero_var(r) = (register.value = 0)
            /\ fe_is_zero(n) = (register.value = 0)
            /\ fe_is_odd(n) = (register.value % 2 = 1)
            /\ fe_from_storage(fe_to_storage(n)) = n
            /\ \A v \in FieldOthers :
                 fe_cmp_var(n, fe_set_b32(v).v) = (CASE register.value > v -> 1
                                                     [] register.value < v -> -1
                                                     [] OTHER -> 0)
===============================================================================
