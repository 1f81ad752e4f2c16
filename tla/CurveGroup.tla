------------------------------ MODULE CurveGroup ------------------------------
(***************************************************************************)
(* The group of the curve y^2 = x^3 + CurveB with the formulas of          *)
(* group_impl.h: affine and Jacobian points, the flag for infinity, and    *)
(* the special cases each formula has to look for.  Field elements are     *)
(* numbers below the prime; the limbs they are kept in are the subject of  *)
(* FieldLimbs.                                                             *)
(***************************************************************************)
EXTENDS PrimeGroup

CONSTANTS
    FieldPrime,     \* p, with p % 12 = 7 as 2^256 - 2^32 - 977 has
    CurveB,         \* b of the curve (7)
    CurveOrder,     \* the (prime) number of its points
    BasePoint,      \* <<x, y>> of the generator
    Beta            \* a cube root of 1 in the field

ASSUME CurveAssumption ==
    /\ FieldPrime \in Nat /\ FieldPrime % 12 = 7
    /\ CurveB \in 1 .. FieldPrime - 1
    /\ CurveOrder \in Nat /\ CurveOrder > 3
    /\ Beta \in 2 .. FieldPrime - 1 /\ (Beta * Beta * Beta) % FieldPrime = 1
    /\ BasePoint \in (0 .. FieldPrime - 1) \X (0 .. FieldPrime - 1)

Fe == 0 .. FieldPrime - 1
FAdd(a, b) == (a + b) % FieldPrime
FMul(a, b) == (a * b) % FieldPrime
FNeg(a) == (-a) % FieldPrime
FSub(a, b) == (a - b) % FieldPrime
FSqr(a) == (a * a) % FieldPrime
FCube(a) == (a * a * a) % FieldPrime
FPow(a, k) == LET pow[i \in 0 .. k] == IF i = 0 THEN 1 ELSE FMul(pow[i - 1], a) IN pow[k]

\* a^(p-2), so that 0 has the inverse 0; a^((p+1)/4), a root of a or of -a.
inverses == Tuple(FieldPrime, LAMBDA i : FPow(i - 1, FieldPrime - 2))
FInv(a) == inverses[a + 1]
roots == Tuple(FieldPrime, LAMBDA i : FPow(i - 1, (FieldPrime + 1) \div 4))
FRoot(a) == roots[a + 1]
isSquare(a) == FSqr(FRoot(a)) = a

-------------------------------------------------------------------------------
(* Points.  What is left in the coordinates of a point at infinity is      *)
(* looked at by no formula whose result is used.                           *)

Ge(x, y) == [inf |-> FALSE, x |-> x, y |-> y]
GeInfinity == [inf |-> TRUE, x |-> 0, y |-> 0]
Gej(x, y, z) == [inf |-> FALSE, x |-> x, y |-> y, z |-> z]
GejInfinity == [inf |-> TRUE, x |-> 0, y |-> 0, z |-> 0]
ge_const_g == Ge(BasePoint[1], BasePoint[2])

ge_set_gej_zinv(a, zi) == [inf |-> a.inf, x |-> FMul(a.x, FSqr(zi)), y |-> FMul(a.y, FCube(zi))]
ge_neg(a) == [a EXCEPT !.y = FNeg(@)]
gej_neg(a) == [a EXCEPT !.y = FNeg(@)]
ge_set_gej(a) == ge_set_gej_zinv(a, FInv(a.z))
ge_set_gej_var(a) == IF a.inf THEN GeInfinity ELSE ge_set_gej_zinv(a, FInv(a.z))
gej_set_ge(a) == [inf |-> a.inf, x |-> a.x, y |-> a.y, z |-> 1]

\* One inversion for all points that are not infinity: the product of their
\* z up to each, inverted at the end and taken apart on the way back.
ge_set_all_gej_var(a) ==
    LET n == Len(a)
        upTo[i \in 0 .. n] == IF i = 0 THEN 1
                              ELSE IF a[i].inf THEN upTo[i - 1] ELSE FMul(upTo[i - 1], a[i].z)
        back[i \in 1 .. n + 1] == IF i = n + 1 THEN FInv(upTo[n])
                                  ELSE IF a[i].inf THEN back[i + 1] ELSE FMul(back[i + 1], a[i].z)
    IN Tuple(n, LAMBDA i : IF a[i].inf THEN GeInfinity
                           ELSE ge_set_gej_zinv(a[i], FMul(upTo[i - 1], back[i + 1])))

\* A table whose neighbours have z ratios zr[i], brought to the z of its last point.
ge_globalz_set_table_gej(a, zr) ==
    LET n == Len(a)
        zs[i \in 1 .. n] == IF i = n THEN 1 ELSE FMul(zs[i + 1], zr[i + 1])
    IN [globalz |-> a[n].z, table |-> Tuple(n, LAMBDA i : [ge_set_gej_zinv(a[i], zs[i]) EXCEPT !.inf = FALSE])]

\* The point with this x whose y is a square; ok says whether there is one.
ge_set_xquad(x) ==
    LET c == FAdd(CurveB, FCube(x)) IN [ok |-> isSquare(c), v |-> Ge(x, FRoot(c))]
ofParity(r, odd) == IF r.ok THEN Gives(IF r.v.y % 2 # odd THEN ge_neg(r.v) ELSE r.v) ELSE Fails
ge_set_xo_var(x, odd) == ofParity(ge_set_xquad(x), odd)

gej_eq_x_var(x, a) == FMul(FSqr(a.z), x) = a.x
ge_is_valid_var(a) == ~a.inf /\ FSqr(a.y) = FAdd(FCube(a.x), CurveB)
gej_is_valid_var(a) ==
    ~a.inf /\ FSqr(a.y) = FAdd(FCube(a.x), FMul(CurveB, FSqr(FCube(a.z))))
gej_has_quad_y_var(a) == ~a.inf /\ isSquare(FMul(a.y, a.z))

\* Every doubling and addition also says by what its z differs from a's.
Sum(r, rzr) == [r |-> r, rzr |-> rzr]

doubledFrom(a, t1, t2, s) ==
    Sum(Gej(FSub(FSqr(t1), 4 * s), FSub(FMul(t1, FSub(6 * s, FSqr(t1))), 2 * FSqr(t2)), FMul(2 * a.z, a.y)),
        FMul(2, a.y))
gej_double(a) ==
    IF a.inf THEN Sum(GejInfinity, 1)
    ELSE doubledFrom(a, FMul(3, FSqr(a.x)), FMul(2, FSqr(a.y)), FMul(2 * FSqr(a.y), a.x))
gej_double_var(a) == gej_double(a).r

\* What the three additions share: from the differences h in x and i in y
\* over a common z, the doubling and the opposite are told apart from the rest.
chordFrom(h, i, t, x, s1, z, ratio) ==
    Sum(Gej(x, FSub(FMul(FSub(t, x), i), FMul(FCube(h), s1)), FMul(z, h)), FMul(ratio, h))
sumFrom(a, h, i, t, s1, z, ratio) ==
    IF h # 0 THEN chordFrom(h, i, t, FSub(FSqr(i), 2 * t + FCube(h)), s1, z, ratio)
    ELSE IF i = 0 THEN gej_double(a) ELSE Sum(GejInfinity, 0)
sumOver(a, u1, u2, s1, s2, z, ratio) ==
    sumFrom(a, FSub(u2, u1), FSub(s2, s1), FMul(u1, FSqr(FSub(u2, u1))), s1, z, ratio)

gej_add(a, b) ==
    LET z22 == FSqr(b.z)
        z12 == FSqr(a.z)
    IN IF a.inf THEN Sum(b, 0)
       ELSE IF b.inf THEN Sum(a, 1)
       ELSE sumOver(a, FMul(a.x, z22), FMul(b.x, z12), FMul(a.y, FMul(z22, b.z)),
                    FMul(b.y, FMul(z12, a.z)), FMul(a.z, b.z), b.z)
gej_add_var(a, b) == gej_add(a, b).r

gej_add_ge_ratio(a, b) ==
    IF a.inf THEN Sum(gej_set_ge(b), 0)
    ELSE IF b.inf THEN Sum(a, 1)
    ELSE sumOver(a, a.x, FMul(b.x, FSqr(a.z)), a.y, FMul(b.y, FCube(a.z)), a.z, 1)
gej_add_ge_var(a, b) == gej_add_ge_ratio(a, b).r

\* b has the z coordinate 1/bzinv: a's z is multiplied by bzinv on the way in.
gej_add_zinv_var(a, b, bzinv) ==
    LET az == FMul(a.z, bzinv)
    IN IF b.inf THEN a
       ELSE IF a.inf THEN gej_set_ge(ge_set_gej_zinv(b, bzinv))
       ELSE sumOver(a, a.x, FMul(b.x, FSqr(az)), a.y, FMul(b.y, FCube(az)), a.z, 1).r

\* One formula for sums and doublings; b must not be infinity.  When both
\* sides of its quotient rr / m are 0 although the points differ in x, another
\* quotient takes its place.
quotientSum(az, rr, m, q, x, n) ==
    [inf |-> FMul(az, m) = 0, x |-> FMul(4, x), y |-> FNeg(4 * FAdd(FMul(rr, FSub(2 * x, q)), n)),
     z |-> FMul(2 * az, m)]
sumByQuotient(a, rr, m, t, n) ==
    quotientSum(a.z, rr, m, FMul(FSqr(m), t), FSub(FSqr(rr), FMul(FSqr(m), t)), n)
\* Mutant of unifiedSum: the other quotient is forgotten.
unifiedSum_plain(a, u2, t, m, rr) == sumByQuotient(a, rr, m, t, FSqr(FSqr(m)))

unifiedSum(a, u2, t, m, rr) ==
    IF m = 0 /\ rr = 0 THEN sumByQuotient(a, FMul(2, a.y), FSub(a.x, u2), t, m)
    ELSE sumByQuotient(a, rr, m, t, FSqr(FSqr(m)))
gej_add_ge(a, b) ==
    LET u2 == FMul(b.x, FSqr(a.z))
        t == FAdd(a.x, u2)
    IN IF a.inf THEN gej_set_ge(b)
       ELSE unifiedSum(a, u2, t, FAdd(a.y, FMul(b.y, FCube(a.z))), FSub(FSqr(t), FMul(a.x, u2)))

gej_rescale(a, s) == [a EXCEPT !.x = FMul(@, FSqr(s)), !.y = FMul(@, FCube(s)), !.z = FMul(@, s)]

\* lambda times the point: x times the cube root of 1 that belongs to lambda.
ge_mul_lambda(a) == [a EXCEPT !.x = FMul(@, Beta)]

-------------------------------------------------------------------------------
(* The map from field elements to points (modules/generator).              *)

sqrtOfMinus3 == FRoot(FNeg(3))
overCurve(x) == isSquare(FAdd(FCube(x), CurveB))
firstFitting(x1, x2, x3) == IF overCurve(x1) THEN x1 ELSE IF overCurve(x2) THEN x2 ELSE x3
signedBy(t, x, y) == Ge(x, IF t % 2 = 1 THEN FNeg(y) ELSE y)
imageAt(t, x) == signedBy(t, x, FRoot(FAdd(FCube(x), CurveB)))
\* The three x's are quotients over x3d wd, which is inverted once.
candidateOf(t, wd, x1n, x3d, jinv) ==
    firstFitting(FMul(x1n * x3d, jinv), FMul(FNeg(x1n + wd) * x3d, jinv), FMul(FAdd(FSqr(wd), x3d) * wd, jinv))
imageFrom(t, c, wd, x3d) ==
    imageAt(t, candidateOf(t, wd, FSub(FMul(FMul(c - 1, FInv(2)), wd), FMul(c, t * t)), x3d,
                           FInv(FMul(x3d, wd))))
shallue_van_de_woestijne(t) ==
    imageFrom(t, sqrtOfMinus3, FAdd(FSqr(t), FAdd(CurveB, 1)), FSqr(FMul(sqrtOfMinus3, t)))

\* The sum of two images, and of blind times the base point when there is a
\* blinding value (accum is then its multiple, and infinity otherwise).
generator_generate_internal(accum, t1, t2) ==
    ge_set_gej(gej_add_ge(gej_add_ge(accum, shallue_van_de_woestijne(t1)), shallue_van_de_woestijne(t2)))

-------------------------------------------------------------------------------
\* The textbook: k times the generator in affine coordinates.
chordTo(P, slope, x) == Ge(x, FSub(FMul(slope, FSub(P.x, x)), P.y))
chordAt(P, Q, slope) == chordTo(P, slope, FSub(FSqr(slope), P.x + Q.x))
chord(P, Q) ==
    IF P.inf THEN Q ELSE IF Q.inf THEN P
    ELSE IF P.x = Q.x /\ FAdd(P.y, Q.y) = 0 THEN GeInfinity
    ELSE chordAt(P, Q, IF P.x = Q.x THEN FMul(3 * FSqr(P.x), FInv(FMul(2, P.y)))
                       ELSE FMul(FSub(Q.y, P.y), FInv(FSub(Q.x, P.x))))
multiples ==
    LET pow[i \in 0 .. CurveOrder - 1] == IF i = 0 THEN GeInfinity ELSE chord(pow[i - 1], ge_const_g)
    IN Tuple(CurveOrder, LAMBDA i : pow[i - 1])
pointOf(k) == multiples[(k % CurveOrder) + 1]
logOf(P) == (CHOOSE i \in 1 .. CurveOrder : multiples[i] = P) - 1
affine(a) == ge_set_gej_var(a)
===============================================================================
