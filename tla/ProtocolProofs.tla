--------------------------- MODULE ProtocolProofs ----------------------------
(***************************************************************************)
(* What is made as the library asks is accepted.                           *)
(*                                                                         *)
(* The ring proofs are complete: whatever the base, the digits, the size   *)
(* of the ring, the place of the key, the values drawn and the challenge,  *)
(* a proof that a member makes is accepted.  So are the signatures that    *)
(* several signers make together, alone and from each other's parts.       *)
(***************************************************************************)
EXTENDS RingSession, Aggsig, LibraryProofs

-------------------------------------------------------------------------------
(* Powers and products.                                                    *)

\* What SPow computes.
LEMMA PowerWalk ==
    ASSUME NEW x \in Scalar, NEW k \in Nat
    PROVE  \E t \in [0 .. k -> Scalar] :
              /\ t[0] = 1 /\ SPow(x, k) = t[k]
              /\ \A i \in 1 .. k : t[i] = SMul(t[i - 1], x)
<1> DEFINE move == [p \in Scalar \X (1 .. k) |-> SMul(p[1], x)]
           next(t, i) == IF i = 0 THEN 1 % Order ELSE SMul(t[i - 1], x)
           u == CHOOSE t : t = [i \in 0 .. k |-> next(t, i)]
<1>1. k \in Nat /\ 1 % Order = 1 /\ 1 \in Scalar /\ \A i \in 1 .. k : x \in Scalar
      BY ScalarOfScalar, ZeroAndOne DEF Scalars
<1>2. move \in [Scalar \X (1 .. k) -> Scalar]
      BY <1>1, RingLaws
<1>3. PICK t : Walks(t, k, Scalar, 1, move)
      <2> HIDE DEF move
      <2>1. QED
            BY <1>1, <1>2, WalkExists
<1>4. /\ t \in [0 .. k -> Scalar] /\ t[0] = 1
      /\ \A i \in 1 .. k : t[i] = SMul(t[i - 1], x)
      <2>1. /\ t \in [0 .. k -> Scalar] /\ t[0] = 1
            /\ \A i \in 1 .. k : t[i] = move[<<t[i - 1], i>>]
            BY <1>3 DEF Walks
      <2>2. ASSUME NEW i \in 1 .. k PROVE <<t[i - 1], i>> \in Scalar \X (1 .. k)
            <3>1. i - 1 \in 0 .. k
                  BY <1>1
            <3>2. QED
                  BY <2>1, <3>1
      <2>3. QED
            BY <2>1, <2>2
<1>5. t = [i \in 0 .. k |-> next(t, i)]
      BY <1>1, <1>4
<1>6. u = [i \in 0 .. k |-> next(u, i)]
      <2> HIDE DEF next
      <2>1. QED
            BY <1>5
<1>7. u[0] = 1 /\ \A i \in 1 .. k : u[i] = SMul(u[i - 1], x)
      <2>1. \A i \in 0 .. k : u[i] = next(u, i)
            <3> HIDE DEF u, next
            <3>1. QED
                  BY <1>6
      <2> HIDE DEF u
      <2>2. u[0] = 1
            BY <1>1, <2>1
      <2>3. ASSUME NEW i \in 1 .. k PROVE u[i] = SMul(u[i - 1], x)
            <3>1. i \in 0 .. k /\ i # 0
                  BY <1>1
            <3>2. QED
                  BY <2>1, <3>1
      <2>4. QED
            BY <2>2, <2>3
<1>8. SPow(x, k) = u[k]
      BY DEF SPow
<1> HIDE DEF u, next, move
<1>9. \A i \in 0 .. k : u[i] \in Scalar
      <2> DEFINE good == {i \in 0 .. k : u[i] \in Scalar}
      <2>1. 0 \in good
            BY <1>1, <1>7
      <2>2. ASSUME NEW i \in 1 .. k, i - 1 \in good PROVE i \in good
            <3>1. i \in 0 .. k /\ u[i - 1] \in Scalar /\ x \in Scalar
                  BY <1>1, <2>2
            <3>2. u[i] = SMul(u[i - 1], x)
                  BY <1>7
            <3>3. u[i] \in Scalar
                  BY <3>1, <3>2, SMulIs
            <3>4. QED
                  BY <3>1, <3>3
      <2>3. \A i \in 0 .. k : i \in good
            <3> HIDE DEF good
            <3>1. QED
                  BY <1>1, <2>1, <2>2, CountUp
      <2>4. QED
            BY <2>3
<1>10. u \in [0 .. k -> Scalar]
      BY <1>6, <1>9
<1>11. QED
      BY <1>7, <1>8, <1>10

\* What SProd computes.
LEMMA ProductWalk ==
    ASSUME NEW s \in Seq(Scalar)
    PROVE  \E t \in [0 .. Len(s) -> Scalar] :
              /\ t[0] = 1 /\ SProd(s) = t[Len(s)]
              /\ \A i \in 1 .. Len(s) : t[i] = SMul(t[i - 1], s[i])
<1> DEFINE move == [p \in Scalar \X (1 .. Len(s)) |-> SMul(p[1], s[p[2]])]
           next(t, i) == IF i = 0 THEN 1 % Order ELSE SMul(t[i - 1], s[i])
           u == CHOOSE t : t = [i \in 0 .. Len(s) |-> next(t, i)]
<1>1. Len(s) \in Nat /\ 1 % Order = 1 /\ 1 \in Scalar /\ \A i \in 1 .. Len(s) : s[i] \in Scalar
      BY ScalarOfScalar, ZeroAndOne DEF Scalars
<1>2. move \in [Scalar \X (1 .. Len(s)) -> Scalar]
      BY <1>1, RingLaws
<1>3. PICK t : Walks(t, Len(s), Scalar, 1, move)
      <2> HIDE DEF move
      <2>1. QED
            BY <1>1, <1>2, WalkExists
<1>4. /\ t \in [0 .. Len(s) -> Scalar] /\ t[0] = 1
      /\ \A i \in 1 .. Len(s) : t[i] = SMul(t[i - 1], s[i])
      <2>1. /\ t \in [0 .. Len(s) -> Scalar] /\ t[0] = 1
            /\ \A i \in 1 .. Len(s) : t[i] = move[<<t[i - 1], i>>]
            BY <1>3 DEF Walks
      <2>2. ASSUME NEW i \in 1 .. Len(s) PROVE <<t[i - 1], i>> \in Scalar \X (1 .. Len(s))
            <3>1. i - 1 \in 0 .. Len(s)
                  BY <1>1
            <3>2. QED
                  BY <2>1, <3>1
      <2>3. QED
            BY <2>1, <2>2
<1>5. t = [i \in 0 .. Len(s) |-> next(t, i)]
      BY <1>1, <1>4
<1>6. u = [i \in 0 .. Len(s) |-> next(u, i)]
      <2> HIDE DEF next
      <2>1. QED
            BY <1>5
<1>7. u[0] = 1 /\ \A i \in 1 .. Len(s) : u[i] = SMul(u[i - 1], s[i])
      <2>1. \A i \in 0 .. Len(s) : u[i] = next(u, i)
            <3> HIDE DEF u, next
            <3>1. QED
                  BY <1>6
      <2> HIDE DEF u
      <2>2. u[0] = 1
            BY <1>1, <2>1
      <2>3. ASSUME NEW i \in 1 .. Len(s) PROVE u[i] = SMul(u[i - 1], s[i])
            <3>1. i \in 0 .. Len(s) /\ i # 0
                  BY <1>1
            <3>2. QED
                  BY <2>1, <3>1
      <2>4. QED
            BY <2>2, <2>3
<1>8. SProd(s) = u[Len(s)]
      BY DEF SProd
<1> HIDE DEF u, next, move
<1>9. \A i \in 0 .. Len(s) : u[i] \in Scalar
      <2> DEFINE good == {i \in 0 .. Len(s) : u[i] \in Scalar}
      <2>1. 0 \in good
            BY <1>1, <1>7
      <2>2. ASSUME NEW i \in 1 .. Len(s), i - 1 \in good PROVE i \in good
            <3>1. i \in 0 .. Len(s) /\ u[i - 1] \in Scalar /\ s[i] \in Scalar
                  BY <1>1, <2>2
            <3>2. u[i] = SMul(u[i - 1], s[i])
                  BY <1>7
            <3>3. u[i] \in Scalar
                  BY <3>1, <3>2, SMulIs
            <3>4. QED
                  BY <3>1, <3>3
      <2>3. \A i \in 0 .. Len(s) : i \in good
            <3> HIDE DEF good
            <3>1. QED
                  BY <1>1, <2>1, <2>2, CountUp
      <2>4. QED
            BY <2>3
<1>10. u \in [0 .. Len(s) -> Scalar]
      BY <1>6, <1>9
<1>11. QED
      BY <1>7, <1>8, <1>10

\* What starts at 1 and is multiplied by the entries are the products.
LEMMA ProductOnly ==
    ASSUME NEW n \in Nat, NEW s \in Scalars(n), NEW t, t[0] = 1,
           \A i \in 1 .. n : t[i - 1] \in Scalar => t[i] = SMul(t[i - 1], s[i])
    PROVE  SProd(s) = t[n] /\ SProd(s) \in Scalar
<1>1. s \in Seq(Scalar) /\ Len(s) = n
      BY DEF Scalars
<1>2. PICK u \in [0 .. n -> Scalar] :
         u[0] = 1 /\ SProd(s) = u[n] /\ \A i \in 1 .. n : u[i] = SMul(u[i - 1], s[i])
      BY <1>1, ProductWalk
<1> DEFINE good == {i \in 0 .. n : t[i] = u[i]}
<1>3. 0 \in good
      BY <1>2
<1>4. ASSUME NEW i \in 1 .. n, i - 1 \in good PROVE i \in good
      <2>1. i \in 0 .. n /\ i - 1 \in 0 .. n /\ t[i - 1] = u[i - 1] /\ u[i - 1] \in Scalar
            BY <1>2, <1>4
      <2>2. t[i] = u[i]
            BY <1>2, <2>1
      <2>3. QED
            BY <2>1, <2>2
<1>5. \A i \in 0 .. n : i \in good
      <2> HIDE DEF good
      <2>1. QED
            BY <1>3, <1>4, CountUp
<1>6. QED
      BY <1>2, <1>5

\* The powers of a scalar, one from the other.
LEMMA PowersAre ==
    ASSUME NEW x \in Scalar
    PROVE  /\ SPow(x, 0) = 1
           /\ \A k \in Nat : SPow(x, k) \in Scalar /\ SPow(x, k + 1) = SMul(SPow(x, k), x)
<1>1. SPow(x, 0) = 1
      <2>1. \E t \in [0 .. 0 -> Scalar] : t[0] = 1 /\ SPow(x, 0) = t[0]
            BY PowerWalk, Zenon
      <2>2. QED
            BY <2>1
<1>2. ASSUME NEW k \in Nat PROVE SPow(x, k) \in Scalar /\ SPow(x, k + 1) = SMul(SPow(x, k), x)
      <2>1. PICK t \in [0 .. k -> Scalar] :
               t[0] = 1 /\ SPow(x, k) = t[k] /\ \A i \in 1 .. k : t[i] = SMul(t[i - 1], x)
            BY PowerWalk
      <2>2. PICK u \in [0 .. k + 1 -> Scalar] :
               u[0] = 1 /\ SPow(x, k + 1) = u[k + 1] /\ \A i \in 1 .. k + 1 : u[i] = SMul(u[i - 1], x)
            <3>1. k + 1 \in Nat
                  OBVIOUS
            <3>2. QED
                  BY <3>1, PowerWalk
      <2> DEFINE good == {i \in 0 .. k : t[i] = u[i]}
      <2>3. 0 \in good
            BY <2>1, <2>2
      <2>4. ASSUME NEW i \in 1 .. k, i - 1 \in good PROVE i \in good
            <3>1. i \in 0 .. k /\ i \in 1 .. k + 1 /\ t[i - 1] = u[i - 1]
                  BY <2>4
            <3>2. t[i] = u[i]
                  BY <2>1, <2>2, <3>1
            <3>3. QED
                  BY <3>1, <3>2
      <2>5. \A i \in 0 .. k : i \in good
            <3> HIDE DEF good
            <3>1. QED
                  BY <2>3, <2>4, CountUp
      <2>6. u[k + 1] = SMul(u[k], x)
            <3>1. k + 1 \in 1 .. k + 1 /\ (k + 1) - 1 = k
                  OBVIOUS
            <3>2. QED
                  BY <2>2, <3>1
      <2>7. QED
            BY <2>1, <2>2, <2>5, <2>6
<1>3. QED
      BY <1>1, <1>2

-------------------------------------------------------------------------------
(* A product of linear factors, and the polynomial it expands to.          *)

\* The value at x of the polynomial with coefficients p.
valueAt(p, n, x) == SSum([k \in 1 .. n |-> SMul(p[k], SPow(x, k - 1))])

LEMMA ValueTyped ==
    ASSUME NEW n \in Nat, NEW p \in Scalars(n), NEW x \in Scalar
    PROVE  /\ \A k \in 1 .. n : p[k] \in Scalar /\ SPow(x, k - 1) \in Scalar
           /\ [k \in 1 .. n |-> SMul(p[k], SPow(x, k - 1))] \in Scalars(n)
           /\ valueAt(p, n, x) \in Scalar
<1>1. ASSUME NEW k \in 1 .. n PROVE p[k] \in Scalar /\ SPow(x, k - 1) \in Scalar
      <2>1. k - 1 \in Nat
            OBVIOUS
      <2>2. QED
            BY <2>1, PowersAre DEF Scalars
<1>2. [k \in 1 .. n |-> SMul(p[k], SPow(x, k - 1))] \in Scalars(n)
      BY <1>1, SMulIs DEF Scalars
<1>3. QED
      BY <1>1, <1>2, SumWalk DEF valueAt

\* Times d x: every coefficient moves up by one.
LEMMA ShiftedValue ==
    ASSUME NEW m \in Nat, NEW p \in Scalars(m + 1), p[m + 1] = 0, NEW d \in Scalar, NEW x \in Scalar
    PROVE  SSum([k \in 1 .. m + 1 |-> IF k = 1 THEN 0 ELSE SMul(SMul(p[k - 1], d), SPow(x, k - 1))])
              = SMul(SMul(d, x), valueAt(p, m + 1, x))
<1> DEFINE n == m + 1
           e == [k \in 1 .. n |-> SMul(p[k], SPow(x, k - 1))]
           sh == [k \in 1 .. n |-> IF k = 1 THEN 0 ELSE SMul(SMul(p[k - 1], d), SPow(x, k - 1))]
           c == SMul(d, x)
           S == scalarSums(e)
           t == [i \in 0 .. n |-> IF i = 0 THEN 0 ELSE SMul(c, S[i - 1])]
<1>1. /\ n \in Nat /\ e \in Scalars(n) /\ c \in Scalar
      /\ \A k \in 1 .. n : p[k] \in Scalar /\ SPow(x, k - 1) \in Scalar
      <2>1. n \in Nat /\ p \in Scalars(n)
            OBVIOUS
      <2>2. c \in Scalar
            BY SMulIs
      <2> HIDE DEF n, c
      <2>3. QED
            BY <2>1, <2>2, ValueTyped
<1>2. /\ S \in [0 .. n -> Scalar] /\ S[0] = 0 /\ SSum(e) = S[n]
      /\ \A i \in 1 .. n : S[i] = SAdd(S[i - 1], e[i])
      <2> HIDE DEF e, n
      <2>1. QED
            BY <1>1, SumWalk
<1>3. ASSUME NEW k \in 2 .. n PROVE sh[k] = SMul(c, e[k - 1]) /\ sh[k] \in Scalar
      <2>1. k \in 1 .. n /\ k # 1 /\ k - 1 \in 1 .. n /\ k - 2 \in Nat /\ (k - 1) - 1 = k - 2 /\ (k - 2) + 1 = k - 1
            BY <1>3
      <2>2. SPow(x, k - 1) = SMul(SPow(x, k - 2), x) /\ SPow(x, k - 2) \in Scalar
            BY <2>1, PowersAre
      <2>3. sh[k] = SMul(SMul(p[k - 1], d), SMul(SPow(x, k - 2), x))
            BY <2>1, <2>2
      <2>4. e[k - 1] = SMul(p[k - 1], SPow(x, k - 2))
            BY <2>1
      <2>5. \A a, b \in Scalar : SMul(SMul(a, d), SMul(b, x)) = SMul(SMul(d, x), SMul(a, b))
            BY MulFour
      <2>6. p[k - 1] \in Scalar
            BY <1>1, <2>1
      <2>7. SMul(p[k - 1], d) \in Scalar /\ SMul(SPow(x, k - 2), x) \in Scalar
            BY <2>2, <2>6, SMulIs
      <2>8. SMul(SMul(p[k - 1], d), SMul(SPow(x, k - 2), x)) \in Scalar
            BY <2>7, SMulIs
      <2> HIDE DEF sh, e
      <2>9. QED
            BY <2>2, <2>3, <2>4, <2>5, <2>6, <2>8
<1>4. sh \in Scalars(n)
      <2>1. ASSUME NEW k \in 1 .. n PROVE sh[k] \in Scalar
            <3>1. CASE k = 1
                  BY <3>1, ZeroAndOne
            <3>2. CASE k # 1
                  <4>1. k \in 2 .. n
                        BY <3>2
                  <4> HIDE DEF sh
                  <4>2. QED
                        BY <1>3, <4>1
            <3>3. QED
                  BY <3>1, <3>2
      <2>2. sh = [k \in 1 .. n |-> sh[k]]
            OBVIOUS
      <2> HIDE DEF sh
      <2>3. QED
            BY <2>1, <2>2 DEF Scalars
<1>5. t[0] = 0 /\ t[n] = SMul(c, S[m])
      OBVIOUS
<1>6. ASSUME NEW i \in 1 .. n PROVE t[i] = SAdd(t[i - 1], sh[i])
      <2>1. CASE i = 1
            <3>1. t[1] = SMul(c, S[0]) /\ t[0] = 0 /\ sh[1] = 0
                  OBVIOUS
            <3> HIDE DEF t, sh, S, c
            <3>2. SMul(c, 0) = 0 /\ SAdd(0, 0) = 0
                  BY <1>1, RingLaws
            <3>3. QED
                  BY <1>2, <2>1, <3>1, <3>2
      <2>2. CASE i # 1
            <3>1. i \in 2 .. n /\ i - 1 \in 1 .. n /\ i - 2 \in 0 .. n
                  BY <2>2
            <3>2. t[i] = SMul(c, S[i - 1]) /\ t[i - 1] = SMul(c, S[i - 2])
                  BY <3>1
            <3>3. S[i - 1] = SAdd(S[i - 2], e[i - 1])
                  <4>1. (i - 1) - 1 = i - 2
                        BY <3>1
                  <4> HIDE DEF S, e
                  <4>2. QED
                        BY <1>2, <3>1, <4>1
            <3>4. e[i - 1] \in Scalar /\ S[i - 2] \in Scalar
                  <4> HIDE DEF S, e
                  <4>1. QED
                        BY <1>1, <1>2, <3>1 DEF Scalars
            <3>5. sh[i] = SMul(c, e[i - 1])
                  BY <1>3, <3>1
            <3> HIDE DEF t, sh, S, c, e
            <3>6. QED
                  BY <1>1, <3>2, <3>3, <3>4, <3>5, SMulDistributes
      <2>3. QED
            BY <2>1, <2>2
<1>7. SSum(sh) = t[n]
      <2> HIDE DEF sh, t, n
      <2>1. QED
            BY <1>1, <1>4, <1>5, <1>6, SumOnly
<1>8. S[m] = S[n]
      <2>1. SPow(x, m) \in Scalar
            BY PowersAre
      <2>2. e[n] = 0
            <3>1. n \in 1 .. n /\ n - 1 = m
                  OBVIOUS
            <3>2. e[n] = SMul(p[n], SPow(x, m))
                  BY <3>1
            <3>3. SMul(0, SPow(x, m)) = 0
                  BY <2>1, WithZero
            <3> HIDE DEF e
            <3>4. QED
                  BY <3>2, <3>3
      <2>3. n \in 1 .. n /\ n - 1 = m /\ m \in 0 .. n
            OBVIOUS
      <2> HIDE DEF S, e, n
      <2>4. S[n] = SAdd(S[m], e[n]) /\ S[m] \in Scalar
            BY <1>2, <2>3
      <2>5. QED
            BY <2>2, <2>4, SumLaws
<1>9. QED
      BY <1>2, <1>5, <1>7, <1>8 DEF valueAt

\* Times (a + d x).
LEMMA ValueOfProduct ==
    ASSUME NEW m \in Nat, NEW p \in Scalars(m + 1), p[m + 1] = 0, NEW a \in Scalar, NEW d \in Scalar,
           NEW x \in Scalar, NEW q \in Scalars(m + 1),
           \A k \in 1 .. m + 1 : q[k] = SAdd(SMul(p[k], a), IF k = 1 THEN 0 ELSE SMul(p[k - 1], d))
    PROVE  valueAt(q, m + 1, x) = SMul(valueAt(p, m + 1, x), SAdd(a, SMul(d, x)))
<1> DEFINE n == m + 1
           V == valueAt(p, n, x)
           e == [k \in 1 .. n |-> SMul(p[k], SPow(x, k - 1))]
           up == [k \in 1 .. n |-> SMul(a, e[k])]
           sh == [k \in 1 .. n |-> IF k = 1 THEN 0 ELSE SMul(SMul(p[k - 1], d), SPow(x, k - 1))]
<1>1. /\ n \in Nat /\ e \in Scalars(n) /\ V \in Scalar /\ V = SSum(e)
      /\ \A k \in 1 .. n : p[k] \in Scalar /\ SPow(x, k - 1) \in Scalar
      BY ValueTyped DEF valueAt
<1>2. up \in Scalars(n) /\ SSum(up) = SMul(a, V)
      <2>1. \A k \in 1 .. n : e[k] \in Scalar
            <3> HIDE DEF e
            <3>1. QED
                  BY <1>1 DEF Scalars
      <2> HIDE DEF e, n, V
      <2>2. SSum(up) = SMul(a, SSum(e))
            BY <1>1, SumOfMultiples
      <2>3. up \in Scalars(n)
            BY <2>1, SMulIs DEF Scalars
      <2>4. QED
            BY <1>1, <2>2, <2>3
<1>3. sh \in Scalars(n)
      <2>1. ASSUME NEW k \in 1 .. n, k # 1 PROVE SMul(SMul(p[k - 1], d), SPow(x, k - 1)) \in Scalar
            <3>1. k - 1 \in 1 .. n
                  BY <2>1
            <3>2. p[k - 1] \in Scalar /\ SPow(x, k - 1) \in Scalar
                  BY <1>1, <3>1
            <3>3. SMul(p[k - 1], d) \in Scalar
                  BY <3>2, SMulIs
            <3>4. QED
                  BY <3>2, <3>3, SMulIs
      <2> HIDE DEF n
      <2>2. QED
            BY <2>1, ZeroAndOne DEF Scalars
<1>4. SSum(sh) = SMul(SMul(d, x), V)
      BY ShiftedValue
<1>5. [k \in 1 .. n |-> SMul(q[k], SPow(x, k - 1))] = [k \in 1 .. n |-> SAdd(up[k], sh[k])]
      <2>1. ASSUME NEW k \in 1 .. n PROVE SMul(q[k], SPow(x, k - 1)) = SAdd(up[k], sh[k])
            <3> DEFINE X == SPow(x, k - 1)
                       b == IF k = 1 THEN 0 ELSE SMul(p[k - 1], d)
            <3>1. p[k] \in Scalar /\ X \in Scalar
                  BY <1>1
            <3>2. b \in Scalar
                  <4>1. CASE k = 1
                        BY <4>1, ZeroAndOne
                  <4>2. CASE k # 1
                        <5>1. k - 1 \in 1 .. n
                              BY <4>2
                        <5>2. QED
                              BY <1>1, <5>1, <4>2, SMulIs, ZeroAndOne
                  <4>3. QED
                        BY <4>1, <4>2
            <3>3. q[k] = SAdd(SMul(p[k], a), b)
                  OBVIOUS
            <3>4. sh[k] = SMul(b, X)
                  <4>1. CASE k = 1
                        <5>1. sh[k] = 0 /\ b = 0
                              BY <4>1
                        <5>2. SMul(0, X) = 0
                              BY <3>1, WithZero
                        <5> HIDE DEF sh, X
                        <5>3. QED
                              BY <5>1, <5>2
                  <4>2. CASE k # 1
                        BY <4>2
                  <4>3. QED
                        BY <4>1, <4>2
            <3>5. up[k] = SMul(a, SMul(p[k], X))
                  OBVIOUS
            <3> HIDE DEF X, b, up, sh
            <3>6. SMul(p[k], a) \in Scalar
                  BY <3>1, SMulIs
            <3>7. SMul(SAdd(SMul(p[k], a), b), X) = SAdd(SMul(SMul(p[k], a), X), SMul(b, X))
                  BY <3>1, <3>2, <3>6, MulSum
            <3>8. SMul(SMul(p[k], a), X) = SMul(a, SMul(p[k], X))
                  <4>1. SMul(p[k], a) = SMul(a, p[k])
                        BY <3>1, SMulCommutes
                  <4>2. QED
                        BY <3>1, <4>1, SMulAssociates
            <3>9. QED
                  BY <3>3, <3>4, <3>5, <3>7, <3>8 DEF X
      <2> HIDE DEF up, sh, n
      <2>2. QED
            BY <2>1
<1>6. valueAt(q, n, x) = SAdd(SMul(a, V), SMul(SMul(d, x), V))
      <2> HIDE DEF up, sh, V, n
      <2>1. SSum([k \in 1 .. n |-> SAdd(up[k], sh[k])]) = SAdd(SSum(up), SSum(sh))
            BY <1>1, <1>2, <1>3, SumOfSums
      <2>2. QED
            BY <1>2, <1>4, <1>5, <2>1 DEF valueAt
<1>7. SAdd(SMul(a, V), SMul(SMul(d, x), V)) = SMul(V, SAdd(a, SMul(d, x)))
      <2> HIDE DEF V
      <2>1. SMul(d, x) \in Scalar
            BY SMulIs
      <2>2. SMul(V, SAdd(a, SMul(d, x))) = SAdd(SMul(V, a), SMul(V, SMul(d, x)))
            BY <1>1, <2>1, SMulDistributes
      <2>3. QED
            BY <1>1, <2>1, <2>2, SMulCommutes
<1>8. QED
      BY <1>6, <1>7

\* p is 1 at place 0, and grows by the factor a[j] + d[j] x at place j.
Expands(p, m, a, d) ==
    /\ p \in [0 .. m -> Scalars(m + 1)]
    /\ \A k \in 1 .. m + 1 : p[0][k] = IF k = 1 THEN 1 ELSE 0
    /\ \A j \in 1 .. m, k \in 1 .. m + 1 :
          p[j][k] = SAdd(SMul(p[j - 1][k], a[j]), IF k = 1 THEN 0 ELSE SMul(p[j - 1][k - 1], d[j]))

\* After j factors the degree is j at most, and the coefficient there is the
\* product of the d's, each of which is 0 or 1.
LEMMA LeadingCoefficient ==
    ASSUME NEW m \in Nat, NEW a \in Scalars(m), NEW d \in [1 .. m -> {0, 1}], NEW p, Expands(p, m, a, d)
    PROVE  \A j \in 0 .. m :
              /\ \A k \in 1 .. m + 1 : k > j + 1 => p[j][k] = 0
              /\ p[j][j + 1] = IF \A i \in 1 .. j : d[i] = 1 THEN 1 ELSE 0
<1> DEFINE low(j) == \A k \in 1 .. m + 1 : k > j + 1 => p[j][k] = 0
           lead(j) == p[j][j + 1] = IF \A i \in 1 .. j : d[i] = 1 THEN 1 ELSE 0
           good == {j \in 0 .. m : low(j) /\ lead(j)}
<1>1. 0 \in good
      <2>1. low(0)
            BY DEF Expands
      <2>2. lead(0)
            <3>1. 1 \in 1 .. m + 1 /\ \A i \in 1 .. 0 : d[i] = 1
                  OBVIOUS
            <3>2. p[0][1] = 1
                  BY <3>1 DEF Expands
            <3>3. QED
                  BY <3>1, <3>2
      <2> HIDE DEF low, lead
      <2>3. QED
            BY <2>1, <2>2
<1>2. ASSUME NEW j \in 1 .. m, j - 1 \in good PROVE j \in good
      <2>1. low(j - 1) /\ lead(j - 1)
            <3> HIDE DEF low, lead
            <3>1. QED
                  BY <1>2
      <2>2. /\ j - 1 \in 0 .. m /\ j \in 0 .. m /\ a[j] \in Scalar /\ d[j] \in {0, 1} /\ d[j] \in Scalar
            /\ \A k \in 1 .. m + 1 : p[j - 1][k] \in Scalar
            /\ \A k \in 1 .. m + 1 :
                  p[j][k] = SAdd(SMul(p[j - 1][k], a[j]), IF k = 1 THEN 0 ELSE SMul(p[j - 1][k - 1], d[j]))
            BY ZeroAndOne DEF Expands, Scalars
      <2>3. SMul(0, a[j]) = 0 /\ SMul(0, d[j]) = 0 /\ SAdd(0, 0) = 0
            BY <2>2, WithZero, ZeroAndOne
      <2>4. \A k \in 1 .. m + 1 : k > j => p[j - 1][k] = 0
            BY <2>1
      <2>5. low(j)
            <3>1. ASSUME NEW k \in 1 .. m + 1, k > j + 1 PROVE p[j][k] = 0
                  <4>1. k # 1 /\ k - 1 \in 1 .. m + 1 /\ k - 1 > j /\ k > j
                        BY <3>1
                  <4>2. p[j - 1][k] = 0 /\ p[j - 1][k - 1] = 0
                        BY <2>4, <4>1
                  <4>3. p[j][k] = SAdd(SMul(p[j - 1][k], a[j]), SMul(p[j - 1][k - 1], d[j]))
                        BY <2>2, <4>1
                  <4>4. QED
                        BY <2>3, <4>2, <4>3
            <3>2. QED
                  BY <3>1
      <2>6. lead(j)
            <3>1. j + 1 \in 1 .. m + 1 /\ j + 1 # 1 /\ (j + 1) - 1 = j /\ j \in 1 .. m + 1 /\ j + 1 > j
                  OBVIOUS
            <3>2. p[j - 1][j + 1] = 0
                  BY <2>4, <3>1
            <3>3. p[j][j + 1] = SAdd(SMul(p[j - 1][j + 1], a[j]), SMul(p[j - 1][j], d[j]))
                  BY <2>2, <3>1
            <3>4. p[j - 1][j] \in Scalar /\ SMul(p[j - 1][j], d[j]) \in Scalar
                  BY <2>2, <3>1, Closed
            <3>5. p[j][j + 1] = SMul(p[j - 1][j], d[j])
                  BY <2>3, <3>2, <3>3, <3>4, WithZero
            <3>6. p[j - 1][j] = IF \A i \in 1 .. j - 1 : d[i] = 1 THEN 1 ELSE 0
                  <4>1. (j - 1) + 1 = j
                        OBVIOUS
                  <4>2. QED
                        BY <2>1, <4>1
            <3>7. (\A i \in 1 .. j : d[i] = 1) <=> (\A i \in 1 .. j - 1 : d[i] = 1) /\ d[j] = 1
                  <4>1. j \in 1 .. j /\ 1 .. j = (1 .. j - 1) \cup {j}
                        OBVIOUS
                  <4>2. QED
                        BY <4>1
            <3>8. SMul(1, 1) = 1 /\ SMul(1, 0) = 0 /\ SMul(0, 0) = 0 /\ SMul(0, 1) = 0
                  BY WithZero, WithOne, ZeroAndOne
            <3>9. CASE d[j] = 1
                  <4>1. CASE \A i \in 1 .. j - 1 : d[i] = 1
                        BY <3>5, <3>6, <3>7, <3>8, <3>9, <4>1
                  <4>2. CASE ~ \A i \in 1 .. j - 1 : d[i] = 1
                        BY <3>5, <3>6, <3>7, <3>8, <3>9, <4>2
                  <4>3. QED
                        BY <4>1, <4>2
            <3>10. CASE d[j] = 0
                  <4>1. SMul(p[j - 1][j], 0) = 0
                        BY <3>4, WithZero
                  <4>2. ~ \A i \in 1 .. j : d[i] = 1
                        BY <3>7, <3>10
                  <4>3. QED
                        BY <3>5, <3>10, <4>1, <4>2
            <3>11. QED
                  BY <2>2, <3>9, <3>10
      <2> HIDE DEF low, lead
      <2>7. QED
            BY <2>2, <2>5, <2>6
<1>3. \A j \in 0 .. m : j \in good
      <2> HIDE DEF good
      <2>1. QED
            BY <1>1, <1>2, CountUp
<1>4. QED
      BY <1>3

\* The value of the whole polynomial is the product of its factors.
LEMMA ProductsExpand ==
    ASSUME NEW m \in Nat, NEW a \in Scalars(m), NEW d \in [1 .. m -> {0, 1}], NEW p, Expands(p, m, a, d),
           NEW x \in Scalar
    PROVE  SProd([j \in 1 .. m |-> SAdd(a[j], SMul(d[j], x))]) = valueAt(p[m], m + 1, x)
<1> DEFINE s == [j \in 1 .. m |-> SAdd(a[j], SMul(d[j], x))]
           t == [j \in 0 .. m |-> valueAt(p[j], m + 1, x)]
<1>1. /\ p \in [0 .. m -> Scalars(m + 1)] /\ \A j \in 1 .. m : a[j] \in Scalar /\ d[j] \in Scalar
      BY ZeroAndOne DEF Expands, Scalars
<1>2. s \in Scalars(m)
      <2>1. ASSUME NEW j \in 1 .. m PROVE SAdd(a[j], SMul(d[j], x)) \in Scalar
            BY <1>1, Closed
      <2>2. QED
            BY <2>1 DEF Scalars
<1>3. t[0] = 1
      <2> DEFINE one == [k \in 1 .. m + 1 |-> SMul(p[0][k], SPow(x, k - 1))]
      <2>1. p[0] \in Scalars(m + 1) /\ m + 1 \in Nat /\ 1 \in 1 .. m + 1
            BY <1>1
      <2>2. one \in Scalars(m + 1) /\ \A k \in 1 .. m + 1 : SPow(x, k - 1) \in Scalar
            BY <2>1, ValueTyped
      <2>3. one[1] = 1
            <3>1. one[1] = SMul(p[0][1], SPow(x, 0)) /\ p[0][1] = 1
                  BY <2>1 DEF Expands
            <3>2. SPow(x, 0) = 1 /\ SMul(1, 1) = 1
                  BY PowersAre, WithOne, ZeroAndOne
            <3>3. QED
                  BY <3>1, <3>2
      <2>4. ASSUME NEW k \in 1 .. m + 1, k # 1 PROVE one[k] = 0
            <3>1. one[k] = SMul(p[0][k], SPow(x, k - 1)) /\ p[0][k] = 0
                  BY <2>4 DEF Expands
            <3>2. SMul(0, SPow(x, k - 1)) = 0
                  BY <2>2, WithZero
            <3>3. QED
                  BY <3>1, <3>2
      <2>5. t[0] = SSum(one)
            BY DEF valueAt
      <2> HIDE DEF one, t
      <2>6. SSum(one) = one[1]
            BY <2>1, <2>2, <2>4, SumOfOne
      <2>7. QED
            BY <2>3, <2>5, <2>6
<1>4. ASSUME NEW j \in 1 .. m PROVE t[j] = SMul(t[j - 1], s[j])
      <2>1. j - 1 \in 0 .. m /\ j \in 0 .. m /\ m + 1 \in 1 .. m + 1 /\ m + 1 > (j - 1) + 1
            OBVIOUS
      <2>2. p[j - 1] \in Scalars(m + 1) /\ p[j] \in Scalars(m + 1) /\ a[j] \in Scalar /\ d[j] \in Scalar
            BY <1>1, <2>1
      <2>3. p[j - 1][m + 1] = 0
            BY <2>1, LeadingCoefficient
      <2>4. \A k \in 1 .. m + 1 :
               p[j][k] = SAdd(SMul(p[j - 1][k], a[j]), IF k = 1 THEN 0 ELSE SMul(p[j - 1][k - 1], d[j]))
            BY DEF Expands
      <2>5. valueAt(p[j], m + 1, x) = SMul(valueAt(p[j - 1], m + 1, x), SAdd(a[j], SMul(d[j], x)))
            <3> DEFINE u == p[j - 1]
                       q == p[j]
                       aj == a[j]
                       dj == d[j]
            <3>1. /\ u \in Scalars(m + 1) /\ u[m + 1] = 0 /\ q \in Scalars(m + 1) /\ aj \in Scalar /\ dj \in Scalar
                  /\ \A k \in 1 .. m + 1 : q[k] = SAdd(SMul(u[k], aj), IF k = 1 THEN 0 ELSE SMul(u[k - 1], dj))
                  BY <2>2, <2>3, <2>4
            <3> HIDE DEF u, q, aj, dj
            <3>2. valueAt(q, m + 1, x) = SMul(valueAt(u, m + 1, x), SAdd(aj, SMul(dj, x)))
                  BY <3>1, ValueOfProduct
            <3>3. QED
                  BY <3>2 DEF u, q, aj, dj
      <2>6. QED
            BY <2>1, <2>5
<1>5. t[m] = valueAt(p[m], m + 1, x)
      OBVIOUS
<1> HIDE DEF s, t
<1>6. SProd(s) = t[m]
      BY <1>2, <1>3, <1>4, ProductOnly
<1>7. QED
      BY <1>5, <1>6 DEF s

-------------------------------------------------------------------------------
(* Digits.                                                                 *)

\* What get_jth and capacity walk through.
Quotients(r, j, n, num) ==
    /\ r \in [0 .. j -> Nat]
    /\ r[0] = num
    /\ \A i \in 1 .. j : r[i] = r[i - 1] \div n
Powers(c, m, n) ==
    /\ c \in [0 .. m -> Nat]
    /\ c[0] = 1
    /\ \A i \in 1 .. m : c[i] = c[i - 1] * n

LEMMA QuotientIsNumber == ASSUME NEW a \in Nat, NEW n \in Nat \ {0} PROVE a \div n \in Nat
BY QuotientIs

LEMMA DigitWalk ==
    ASSUME NEW j \in Nat, NEW n \in Nat \ {0}, NEW num \in Nat
    PROVE  \E r : Quotients(r, j, n, num) /\ get_jth(j, n, num) = r[j] % n
<1> DEFINE move == [p \in Nat \X (1 .. j) |-> p[1] \div n]
           next(t, i) == IF i = 0 THEN num ELSE t[i - 1] \div n
           u == CHOOSE t : t = [i \in 0 .. j |-> next(t, i)]
<1>1. move \in [Nat \X (1 .. j) -> Nat]
      BY QuotientIsNumber
<1>2. PICK t : Walks(t, j, Nat, num, move)
      <2> HIDE DEF move
      <2>1. QED
            BY <1>1, WalkExists
<1>3. /\ t \in [0 .. j -> Nat] /\ t[0] = num
      /\ \A i \in 1 .. j : t[i] = t[i - 1] \div n
      <2>1. /\ t \in [0 .. j -> Nat] /\ t[0] = num
            /\ \A i \in 1 .. j : t[i] = move[<<t[i - 1], i>>]
            BY <1>2 DEF Walks
      <2>2. ASSUME NEW i \in 1 .. j PROVE <<t[i - 1], i>> \in Nat \X (1 .. j)
            <3>1. i - 1 \in 0 .. j
                  OBVIOUS
            <3>2. QED
                  BY <2>1, <3>1
      <2>3. QED
            BY <2>1, <2>2
<1>4. t = [i \in 0 .. j |-> next(t, i)]
      BY <1>3
<1>5. u = [i \in 0 .. j |-> next(u, i)]
      <2> HIDE DEF next
      <2>1. QED
            BY <1>4
<1>6. u[0] = num /\ \A i \in 1 .. j : u[i] = u[i - 1] \div n
      <2>1. \A i \in 0 .. j : u[i] = next(u, i)
            <3> HIDE DEF u, next
            <3>1. QED
                  BY <1>5
      <2> HIDE DEF u
      <2>2. u[0] = num
            BY <2>1
      <2>3. ASSUME NEW i \in 1 .. j PROVE u[i] = u[i - 1] \div n
            <3>1. i \in 0 .. j /\ i # 0
                  OBVIOUS
            <3>2. QED
                  BY <2>1, <3>1
      <2>4. QED
            BY <2>2, <2>3
<1>7. get_jth(j, n, num) = u[j] % n
      BY DEF get_jth
<1> HIDE DEF u, next, move
<1>8. \A i \in 0 .. j : u[i] \in Nat
      <2> DEFINE good == {i \in 0 .. j : u[i] \in Nat}
      <2>1. 0 \in good
            BY <1>6
      <2>2. ASSUME NEW i \in 1 .. j, i - 1 \in good PROVE i \in good
            <3>1. i \in 0 .. j /\ u[i - 1] \in Nat
                  BY <2>2
            <3>2. u[i] \in Nat
                  BY <1>6, <3>1, QuotientIsNumber
            <3>3. QED
                  BY <3>1, <3>2
      <2>3. \A i \in 0 .. j : i \in good
            <3> HIDE DEF good
            <3>1. QED
                  BY <2>1, <2>2, CountUp
      <2>4. QED
            BY <2>3
<1>9. u \in [0 .. j -> Nat]
      BY <1>5, <1>8
<1>10. QED
      BY <1>6, <1>7, <1>9 DEF Quotients

LEMMA CapacityWalk ==
    ASSUME NEW m \in Nat, NEW n \in Nat
    PROVE  \E c : Powers(c, m, n) /\ capacity(n, m) = c[m]
<1> DEFINE move == [p \in Nat \X (1 .. m) |-> p[1] * n]
           next(t, i) == IF i = 0 THEN 1 ELSE t[i - 1] * n
           u == CHOOSE t : t = [i \in 0 .. m |-> next(t, i)]
<1>1. move \in [Nat \X (1 .. m) -> Nat]
      OBVIOUS
<1>2. PICK t : Walks(t, m, Nat, 1, move)
      <2> HIDE DEF move
      <2>1. QED
            BY <1>1, WalkExists
<1>3. /\ t \in [0 .. m -> Nat] /\ t[0] = 1
      /\ \A i \in 1 .. m : t[i] = t[i - 1] * n
      <2>1. /\ t \in [0 .. m -> Nat] /\ t[0] = 1
            /\ \A i \in 1 .. m : t[i] = move[<<t[i - 1], i>>]
            BY <1>2 DEF Walks
      <2>2. ASSUME NEW i \in 1 .. m PROVE <<t[i - 1], i>> \in Nat \X (1 .. m)
            <3>1. i - 1 \in 0 .. m
                  OBVIOUS
            <3>2. QED
                  BY <2>1, <3>1
      <2>3. QED
            BY <2>1, <2>2
<1>4. t = [i \in 0 .. m |-> next(t, i)]
      BY <1>3
<1>5. u = [i \in 0 .. m |-> next(u, i)]
      <2> HIDE DEF next
      <2>1. QED
            BY <1>4
<1>6. u[0] = 1 /\ \A i \in 1 .. m : u[i] = u[i - 1] * n
      <2>1. \A i \in 0 .. m : u[i] = next(u, i)
            <3> HIDE DEF u, next
            <3>1. QED
                  BY <1>5
      <2> HIDE DEF u
      <2>2. u[0] = 1
            BY <2>1
      <2>3. ASSUME NEW i \in 1 .. m PROVE u[i] = u[i - 1] * n
            <3>1. i \in 0 .. m /\ i # 0
                  OBVIOUS
            <3>2. QED
                  BY <2>1, <3>1
      <2>4. QED
            BY <2>2, <2>3
<1>7. capacity(n, m) = u[m]
      BY DEF capacity
<1> HIDE DEF u, next, move
<1>8. \A i \in 0 .. m : u[i] \in Nat
      <2> DEFINE good == {i \in 0 .. m : u[i] \in Nat}
      <2>1. 0 \in good
            BY <1>6
      <2>2. ASSUME NEW i \in 1 .. m, i - 1 \in good PROVE i \in good
            <3>1. i \in 0 .. m /\ u[i - 1] \in Nat
                  BY <2>2
            <3>2. u[i] \in Nat
                  BY <1>6, <3>1
            <3>3. QED
                  BY <3>1, <3>2
      <2>3. \A i \in 0 .. m : i \in good
            <3> HIDE DEF good
            <3>1. QED
                  BY <2>1, <2>2, CountUp
      <2>4. QED
            BY <2>3
<1>9. u \in [0 .. m -> Nat]
      BY <1>5, <1>8
<1>10. QED
      BY <1>6, <1>7, <1>9 DEF Powers

\* All digits come from one walk.
LEMMA DigitsAre ==
    ASSUME NEW m \in Nat, NEW n \in Nat \ {0}, NEW num \in Nat, NEW r, Quotients(r, m, n, num)
    PROVE  \A j \in 0 .. m : get_jth(j, n, num) = r[j] % n
<1>1. ASSUME NEW j \in 0 .. m PROVE get_jth(j, n, num) = r[j] % n
      <2>1. j \in Nat
            OBVIOUS
      <2>2. PICK s : Quotients(s, j, n, num) /\ get_jth(j, n, num) = s[j] % n
            BY <2>1, DigitWalk
      <2> DEFINE good == {i \in 0 .. j : s[i] = r[i]}
      <2>3. 0 \in good
            BY <2>1, <2>2 DEF Quotients
      <2>4. ASSUME NEW i \in 1 .. j, i - 1 \in good PROVE i \in good
            <3>1. i \in 0 .. j /\ i \in 1 .. m /\ s[i - 1] = r[i - 1]
                  BY <2>4
            <3>2. s[i] = r[i]
                  BY <2>2, <3>1 DEF Quotients
            <3>3. QED
                  BY <3>1, <3>2
      <2>5. \A i \in 0 .. j : i \in good
            <3> HIDE DEF good
            <3>1. QED
                  BY <2>1, <2>3, <2>4, CountUp
      <2>6. QED
            BY <2>1, <2>2, <2>5
<1>2. QED
      BY <1>1

LEMMA DigitTyped ==
    ASSUME NEW j \in Nat, NEW n \in Nat \ {0}, NEW num \in Nat
    PROVE  get_jth(j, n, num) \in 0 .. n - 1
<1>1. PICK r : Quotients(r, j, n, num) /\ get_jth(j, n, num) = r[j] % n
      BY DigitWalk
<1>2. r[j] \in Nat
      BY <1>1 DEF Quotients
<1>3. r[j] % n \in 0 .. n - 1
      BY <1>2
<1>4. QED
      BY <1>1, <1>3

\* After m divisions nothing is left of a number below the capacity.
LEMMA NothingLeft ==
    ASSUME NEW m \in Nat, NEW n \in Nat \ {0}, NEW num \in Nat, num < capacity(n, m),
           NEW r, Quotients(r, m, n, num)
    PROVE  r[m] = 0
<1>1. PICK c : Powers(c, m, n) /\ capacity(n, m) = c[m]
      BY CapacityWalk
<1>2. /\ r \in [0 .. m -> Nat] /\ r[0] = num /\ \A i \in 1 .. m : r[i] = r[i - 1] \div n
      /\ c \in [0 .. m -> Nat] /\ c[0] = 1 /\ \A i \in 1 .. m : c[i] = c[i - 1] * n
      BY <1>1 DEF Quotients, Powers
<1> DEFINE good == {i \in 0 .. m : c[i] * r[i] <= num}
<1>3. 0 \in good
      BY <1>2
<1>4. ASSUME NEW i \in 1 .. m, i - 1 \in good PROVE i \in good
      <2>1. i \in 0 .. m /\ i - 1 \in 0 .. m /\ c[i - 1] * r[i - 1] <= num
            BY <1>4
      <2> DEFINE a == r[i - 1]
                 b == r[i]
                 e == c[i - 1]
      <2>2. a \in Nat /\ b \in Nat /\ e \in Nat /\ b = a \div n /\ c[i] = e * n /\ e * a <= num
            BY <1>2, <2>1
      <2> HIDE DEF a, b, e
      <2>3. n * b <= a /\ n * b \in Nat
            <3>1. n * (a \div n) <= a /\ a \div n \in Nat
                  BY <2>2, QuotientIs
            <3>2. QED
                  BY <2>2, <3>1
      <2>4. e * (n * b) <= e * a /\ e * (n * b) \in Nat /\ e * a \in Nat
            BY <2>2, <2>3, ProductGrows
      <2>5. (e * n) * b = e * (n * b)
            BY <2>2
      <2>6. c[i] * r[i] = (e * n) * b
            BY <2>2 DEF b
      <2>7. c[i] * r[i] <= num
            BY <2>2, <2>4, <2>5, <2>6
      <2>8. QED
            BY <2>1, <2>7
<1>5. \A i \in 0 .. m : i \in good
      <2> HIDE DEF good
      <2>1. QED
            BY <1>3, <1>4, CountUp
<1>6. c[m] * r[m] <= num /\ num < c[m] /\ c[m] \in Nat /\ r[m] \in Nat
      BY <1>1, <1>2, <1>5
<1>7. r[m] >= 1 => c[m] * 1 <= c[m] * r[m]
      BY <1>6, ProductGrows
<1>8. c[m] * 1 = c[m] /\ c[m] * r[m] \in Nat
      BY <1>6
<1>9. QED
      BY <1>6, <1>7, <1>8

\* Numbers below the capacity with the same digits are the same.
LEMMA SameDigits ==
    ASSUME NEW m \in Nat, NEW n \in Nat \ {0}, NEW a \in Nat, NEW b \in Nat,
           a < capacity(n, m), b < capacity(n, m),
           \A j \in 0 .. m - 1 : get_jth(j, n, a) = get_jth(j, n, b)
    PROVE  a = b
<1>1. PICK r : Quotients(r, m, n, a)
      BY DigitWalk
<1>2. PICK s : Quotients(s, m, n, b)
      BY DigitWalk
<1>3. /\ r \in [0 .. m -> Nat] /\ r[0] = a /\ \A i \in 1 .. m : r[i] = r[i - 1] \div n
      /\ s \in [0 .. m -> Nat] /\ s[0] = b /\ \A i \in 1 .. m : s[i] = s[i - 1] \div n
      BY <1>1, <1>2 DEF Quotients
<1>4. r[m] = 0 /\ s[m] = 0
      BY <1>1, <1>2, NothingLeft
<1>5. \A j \in 0 .. m - 1 : r[j] % n = s[j] % n
      <2>1. ASSUME NEW j \in 0 .. m - 1 PROVE r[j] % n = s[j] % n
            <3>1. j \in 0 .. m
                  OBVIOUS
            <3>2. get_jth(j, n, a) = r[j] % n /\ get_jth(j, n, b) = s[j] % n
                  BY <1>1, <1>2, <3>1, DigitsAre
            <3>3. QED
                  BY <3>2
      <2>2. QED
            BY <2>1
<1> DEFINE good == {i \in 0 .. m : r[m - i] = s[m - i]}
<1>6. 0 \in good
      BY <1>4
<1>7. ASSUME NEW i \in 1 .. m, i - 1 \in good PROVE i \in good
      <2> DEFINE j == m - i
      <2>1. i \in 0 .. m /\ j \in 0 .. m - 1 /\ j \in 0 .. m /\ j + 1 \in 1 .. m /\ m - (i - 1) = j + 1
            /\ (j + 1) - 1 = j
            OBVIOUS
      <2>2. r[j + 1] = s[j + 1]
            <3>1. r[m - (i - 1)] = s[m - (i - 1)]
                  BY <1>7
            <3> HIDE DEF j
            <3>2. QED
                  BY <2>1, <3>1
      <2> HIDE DEF j
      <2> DEFINE x == r[j]
                 y == s[j]
      <2>3. x \in Nat /\ y \in Nat /\ x \div n = y \div n /\ x % n = y % n
            BY <1>3, <1>5, <2>1, <2>2
      <2> HIDE DEF x, y
      <2>4. x = n * (x \div n) + (x % n) /\ y = n * (y \div n) + (y % n)
            BY <2>3
      <2>5. x = y
            BY <2>3, <2>4
      <2>6. QED
            BY <2>1, <2>5 DEF x, y, j
<1>8. \A i \in 0 .. m : i \in good
      <2> HIDE DEF good
      <2>1. QED
            BY <1>6, <1>7, CountUp
<1>9. m \in good
      BY <1>8
<1>10. QED
      BY <1>3, <1>9

-------------------------------------------------------------------------------
(* The polynomials of the prover.                                          *)

LEMMA TimesIs ==
    ASSUME NEW m \in Nat, NEW p \in Scalars(m + 1), NEW a \in Scalar, NEW d \in Scalar
    PROVE  /\ times(m, p, a, d) \in Scalars(m + 1)
           /\ \A k \in 1 .. m + 1 :
                 times(m, p, a, d)[k] = SAdd(SMul(p[k], a), IF k = 1 THEN 0 ELSE SMul(p[k - 1], d))
<1> DEFINE f == [k \in 1 .. m + 1 |-> SAdd(SMul(p[k], a), IF k = 1 THEN 0 ELSE SMul(p[k - 1], d))]
<1>1. \A k \in 1 .. m + 1 : f[k] \in Scalar
      <2>1. ASSUME NEW k \in 1 .. m + 1 PROVE f[k] \in Scalar
            <3>1. p[k] \in Scalar /\ (k # 1 => p[k - 1] \in Scalar) /\ 0 \in Scalar
                  BY ZeroAndOne DEF Scalars
            <3>2. SMul(p[k], a) \in Scalar /\ (IF k = 1 THEN 0 ELSE SMul(p[k - 1], d)) \in Scalar
                  BY <3>1, Closed
            <3>3. QED
                  BY <3>2, Closed
      <2>2. QED
            BY <2>1
<1>2. f = [k \in 1 .. m + 1 |-> f[k]]
      OBVIOUS
<1>3. times(m, p, a, d) = SubSeq(f, 1, m + 1)
      BY DEF times, Tuple
<1>4. \A k \in 1 .. m + 1 : f[k] = SAdd(SMul(p[k], a), IF k = 1 THEN 0 ELSE SMul(p[k - 1], d))
      OBVIOUS
<1> HIDE DEF f
<1>5. m + 1 \in Nat
      OBVIOUS
<1>6. times(m, p, a, d) = f
      BY <1>2, <1>3, <1>5, TupleIs
<1>7. f \in Scalars(m + 1)
      BY <1>1, <1>2 DEF Scalars
<1>8. QED
      BY <1>4, <1>6, <1>7

\* The first polynomial is 1.
LEMMA OneIs ==
    ASSUME NEW m \in Nat
    PROVE  /\ Tuple(m + 1, LAMBDA k : IF k = 1 THEN 1 ELSE 0) \in Scalars(m + 1)
           /\ \A k \in 1 .. m + 1 :
                 Tuple(m + 1, LAMBDA i : IF i = 1 THEN 1 ELSE 0)[k] = IF k = 1 THEN 1 ELSE 0
<1> DEFINE f == [k \in 1 .. m + 1 |-> IF k = 1 THEN 1 ELSE 0]
<1>1. f = [k \in 1 .. m + 1 |-> f[k]] /\ m + 1 \in Nat /\ f \in Scalars(m + 1)
      BY ZeroAndOne DEF Scalars
<1>2. Tuple(m + 1, LAMBDA k : IF k = 1 THEN 1 ELSE 0) = SubSeq(f, 1, m + 1)
      BY DEF Tuple
<1>3. \A k \in 1 .. m + 1 : f[k] = IF k = 1 THEN 1 ELSE 0
      OBVIOUS
<1> HIDE DEF f
<1>4. SubSeq(f, 1, m + 1) = f
      BY <1>1, TupleIs
<1>5. QED
      BY <1>1, <1>2, <1>3, <1>4

\* The values drawn for every digit.
EntriesTyped(r, m, n) == \A j \in 1 .. m, i \in 1 .. n : r.a[j][i] \in Scalar

\* The factors that belong to the t-th key of the ring.
factorA(rctx, m, r, t) == [j \in 1 .. m |-> r.a[j][get_jth(j - 1, rctx.n, t) + 1]]
factorD(rctx, m, index, t) == [j \in 1 .. m |-> delta(rctx, index, j - 1, get_jth(j - 1, rctx.n, t))]

LEMMA FactorsTyped ==
    ASSUME NEW m \in Nat, NEW rctx, rctx.n \in Nat \ {0}, NEW r,
           EntriesTyped(r, m, rctx.n),
           NEW index, NEW t \in Nat
    PROVE  factorA(rctx, m, r, t) \in Scalars(m) /\ factorD(rctx, m, index, t) \in [1 .. m -> {0, 1}]
<1>1. ASSUME NEW j \in 1 .. m
      PROVE  r.a[j][get_jth(j - 1, rctx.n, t) + 1] \in Scalar
      <2> DEFINE i == get_jth(j - 1, rctx.n, t)
                 n == rctx.n
      <2>1. j - 1 \in Nat
            OBVIOUS
      <2>2. i \in 0 .. n - 1
            BY <2>1, DigitTyped
      <2> HIDE DEF i, n
      <2>3. i + 1 \in 1 .. n
            BY <2>2 DEF n
      <2>4. QED
            BY <2>3 DEF i, n, EntriesTyped
<1>2. QED
      BY <1>1 DEF factorA, factorD, Scalars, delta

LEMMA PolynomialIs ==
    ASSUME NEW m \in Nat, NEW rctx, rctx.n \in Nat \ {0}, NEW r,
           EntriesTyped(r, m, rctx.n),
           NEW index, NEW t \in Nat
    PROVE  \E p : /\ Expands(p, m, factorA(rctx, m, r, t), factorD(rctx, m, index, t))
                  /\ polynomial(rctx, m, r, index, t) = p[m]
<1> DEFINE A == factorA(rctx, m, r, t)
           D == factorD(rctx, m, index, t)
           S == Scalars(m + 1)
           one == Tuple(m + 1, LAMBDA k : IF k = 1 THEN 1 ELSE 0)
           move == [q \in S \X (1 .. m) |-> times(m, q[1], A[q[2]], D[q[2]])]
           next(p, j) ==
             IF j = 0 THEN one
             ELSE times(m, p[j - 1], r.a[j][get_jth(j - 1, rctx.n, t) + 1],
                        delta(rctx, index, j - 1, get_jth(j - 1, rctx.n, t)))
           u == CHOOSE p : p = [j \in 0 .. m |-> next(p, j)]
<1>1. A \in Scalars(m) /\ D \in [1 .. m -> {0, 1}]
      BY FactorsTyped
<1>2. \A j \in 1 .. m : A[j] \in Scalar /\ D[j] \in Scalar
      <2> HIDE DEF A, D
      <2>1. QED
            BY <1>1, ZeroAndOne DEF Scalars
<1>3. ASSUME NEW p, NEW j \in 1 .. m PROVE next(p, j) = times(m, p[j - 1], A[j], D[j])
      <2>1. A[j] = r.a[j][get_jth(j - 1, rctx.n, t) + 1] /\ D[j] = delta(rctx, index, j - 1, get_jth(j - 1, rctx.n, t))
            BY DEF factorA, factorD
      <2>2. j # 0
            OBVIOUS
      <2>3. next(p, j) = times(m, p[j - 1], r.a[j][get_jth(j - 1, rctx.n, t) + 1],
                               delta(rctx, index, j - 1, get_jth(j - 1, rctx.n, t)))
            BY <2>2, Zenon
      <2> HIDE DEF next, A, D
      <2>4. QED
            BY <2>1, <2>3
<1>4. \A p : next(p, 0) = one
      OBVIOUS
<1>5. polynomial(rctx, m, r, index, t) = u[m]
      BY DEF polynomial
<1>6. one \in S /\ \A k \in 1 .. m + 1 : one[k] = IF k = 1 THEN 1 ELSE 0
      BY OneIs
<1> HIDE DEF A, D, one, next, u
<1>7. \A p \in S : \A j \in 1 .. m : times(m, p, A[j], D[j]) \in S
      BY <1>2, TimesIs
<1>8. move \in [S \X (1 .. m) -> S]
      <2> HIDE DEF S
      <2>1. QED
            BY <1>7
<1>9. PICK w : Walks(w, m, S, one, move)
      <2> HIDE DEF move, S
      <2>1. QED
            BY <1>6, <1>8, WalkExists
<1>10. /\ w \in [0 .. m -> S] /\ w[0] = one
       /\ \A j \in 1 .. m : w[j] = times(m, w[j - 1], A[j], D[j])
      <2> HIDE DEF S
      <2>1. /\ w \in [0 .. m -> S] /\ w[0] = one
            /\ \A j \in 1 .. m : w[j] = move[<<w[j - 1], j>>]
            BY <1>9 DEF Walks
      <2>2. ASSUME NEW j \in 1 .. m PROVE <<w[j - 1], j>> \in S \X (1 .. m)
            <3>1. j - 1 \in 0 .. m
                  OBVIOUS
            <3>2. QED
                  BY <2>1, <3>1
      <2>3. QED
            BY <2>1, <2>2
<1> HIDE DEF move
<1>11. w = [j \in 0 .. m |-> next(w, j)]
      <2> HIDE DEF S
      <2>1. ASSUME NEW j \in 0 .. m PROVE w[j] = next(w, j)
            <3>1. CASE j = 0
                  BY <1>4, <1>10, <3>1
            <3>2. CASE j # 0
                  <4>1. j \in 1 .. m
                        BY <3>2
                  <4>2. QED
                        BY <1>3, <1>10, <4>1
            <3>3. QED
                  BY <3>1, <3>2
      <2>2. QED
            BY <1>10, <2>1
<1>12. u = [j \in 0 .. m |-> next(u, j)]
      BY <1>11 DEF u
<1>13. u[0] = one /\ \A j \in 1 .. m : u[j] = times(m, u[j - 1], A[j], D[j])
      <2>1. \A j \in 0 .. m : u[j] = next(u, j)
            BY <1>12
      <2>2. u[0] = one
            BY <1>4, <2>1
      <2>3. ASSUME NEW j \in 1 .. m PROVE u[j] = times(m, u[j - 1], A[j], D[j])
            <3>1. j \in 0 .. m
                  OBVIOUS
            <3>2. QED
                  BY <1>3, <2>1, <3>1
      <2>4. QED
            BY <2>2, <2>3
<1>14. \A j \in 0 .. m : u[j] \in S
      <2> DEFINE good == {j \in 0 .. m : u[j] \in S}
      <2> HIDE DEF S
      <2>1. 0 \in good
            BY <1>6, <1>13
      <2>2. ASSUME NEW j \in 1 .. m, j - 1 \in good PROVE j \in good
            <3>1. j \in 0 .. m /\ u[j - 1] \in S
                  BY <2>2
            <3>2. u[j] \in S
                  BY <1>7, <1>13, <3>1
            <3>3. QED
                  BY <3>1, <3>2
      <2>3. \A j \in 0 .. m : j \in good
            <3> HIDE DEF good
            <3>1. QED
                  BY <2>1, <2>2, CountUp
      <2>4. QED
            BY <2>3
<1>15. u \in [0 .. m -> S]
      <2> HIDE DEF S
      <2>1. QED
            BY <1>12, <1>14
<1>16. ASSUME NEW j \in 1 .. m, NEW k \in 1 .. m + 1
       PROVE  u[j][k] = SAdd(SMul(u[j - 1][k], A[j]), IF k = 1 THEN 0 ELSE SMul(u[j - 1][k - 1], D[j]))
      <2>1. j - 1 \in 0 .. m
            OBVIOUS
      <2>2. u[j - 1] \in Scalars(m + 1) /\ u[j] = times(m, u[j - 1], A[j], D[j])
            BY <1>13, <1>14, <2>1
      <2>3. QED
            BY <1>2, <2>2, TimesIs
<1>17. Expands(u, m, A, D)
      BY <1>6, <1>13, <1>15, <1>16 DEF Expands
<1>18. QED
      BY <1>5, <1>17 DEF A, D

\* The leading coefficient tells the key of the prover from the others.
\* p has the values of the product of the a[j] + d[j] x.
ValuedAs(p, m, a, d) ==
    \A x \in Scalar : SProd([j \in 1 .. m |-> SAdd(a[j], SMul(d[j], x))]) = valueAt(p, m + 1, x)

LEMMA PolynomialFits ==
    ASSUME NEW m \in Nat, NEW rctx, rctx.n \in Nat \ {0}, NEW r,
           EntriesTyped(r, m, rctx.n),
           NEW index \in Nat, NEW t \in Nat, index < capacity(rctx.n, m), t < capacity(rctx.n, m)
    PROVE  LET p == polynomial(rctx, m, r, index, t)
               a == factorA(rctx, m, r, t)
               d == factorD(rctx, m, index, t)
           IN /\ p \in Scalars(m + 1)
              /\ p[m + 1] = IF t = index THEN 1 ELSE 0
              /\ ValuedAs(p, m, a, d)
<1> DEFINE a == factorA(rctx, m, r, t)
           d == factorD(rctx, m, index, t)
           pol == polynomial(rctx, m, r, index, t)
<1>1. a \in Scalars(m) /\ d \in [1 .. m -> {0, 1}]
      BY FactorsTyped
<1>2. PICK p : Expands(p, m, a, d) /\ pol = p[m]
      <2>1. \E p : /\ Expands(p, m, factorA(rctx, m, r, t), factorD(rctx, m, index, t))
                   /\ polynomial(rctx, m, r, index, t) = p[m]
            BY PolynomialIs
      <2>2. QED
            BY <2>1
<1>3. \A j \in 1 .. m : d[j] = delta(rctx, index, j - 1, get_jth(j - 1, rctx.n, t))
      BY DEF factorD
<1>4. (\A j \in 1 .. m : d[j] = 1) <=> t = index
      <2>1. ASSUME t = index PROVE \A j \in 1 .. m : d[j] = 1
            BY <1>3, <2>1 DEF delta
      <2>2. ASSUME \A j \in 1 .. m : d[j] = 1 PROVE t = index
            <3>1. ASSUME NEW j \in 0 .. m - 1
                  PROVE  get_jth(j, rctx.n, t) = get_jth(j, rctx.n, index)
                  <4>1. j + 1 \in 1 .. m /\ (j + 1) - 1 = j
                        OBVIOUS
                  <4>2. d[j + 1] = 1
                        BY <2>2, <4>1
                  <4>3. d[j + 1] = delta(rctx, index, j, get_jth(j, rctx.n, t))
                        BY <1>3, <4>1
                  <4>4. QED
                        BY <4>2, <4>3 DEF delta
            <3>2. QED
                  BY <3>1, SameDigits
      <2>3. QED
            BY <2>1, <2>2
<1> HIDE DEF a, d, pol
<1>5. p[m] \in Scalars(m + 1)
      BY <1>2 DEF Expands
<1>6. p[m][m + 1] = IF \A i \in 1 .. m : d[i] = 1 THEN 1 ELSE 0
      BY <1>1, <1>2, LeadingCoefficient
<1>7. \A x \in Scalar : SProd([j \in 1 .. m |-> SAdd(a[j], SMul(d[j], x))]) = valueAt(p[m], m + 1, x)
      BY <1>1, <1>2, ProductsExpand
<1>8. ValuedAs(p[m], m, a, d)
      BY <1>7 DEF ValuedAs
<1>9. QED
      BY <1>2, <1>4, <1>5, <1>6, <1>8 DEF a, d, pol

-------------------------------------------------------------------------------
(* Combinations of points.                                                 *)

combination(n, e, P) == GSum([i \in 1 .. n |-> GMul(e[i], P[i])])

\* One coordinate of points, and a combination of scalars.
part(n, P, k) == [i \in 1 .. n |-> P[i][k]]
dot(n, e, h) == SSum([i \in 1 .. n |-> SMul(e[i], h[i])])

LEMMA DotTyped ==
    ASSUME NEW n \in Nat, NEW e \in Scalars(n), NEW h \in Scalars(n)
    PROVE  dot(n, e, h) \in Scalar
<1> DEFINE f == [i \in 1 .. n |-> SMul(e[i], h[i])]
<1>1. \A i \in 1 .. n : SMul(e[i], h[i]) \in Scalar
      BY Closed DEF Scalars
<1>2. f \in Scalars(n)
      BY <1>1 DEF Scalars
<1> HIDE DEF f
<1>3. SSum(f) \in Scalar
      BY <1>2, SumWalk
<1>4. QED
      BY <1>3 DEF f, dot

\* In every coordinate a combination of points is one of scalars.
LEMMA CombinationIs ==
    ASSUME NEW n \in Nat, NEW e \in Scalars(n), NEW P \in Points(n)
    PROVE  /\ combination(n, e, P) \in Point
           /\ \A k \in 1 .. Dim :
                 /\ \A i \in 1 .. n : e[i] \in Scalar /\ P[i] \in Point /\ P[i][k] \in Scalar
                 /\ [i \in 1 .. n |-> P[i][k]] \in Scalars(n)
                 /\ [i \in 1 .. n |-> SMul(e[i], P[i][k])] \in Scalars(n)
                 /\ combination(n, e, P)[k] = SSum([i \in 1 .. n |-> SMul(e[i], P[i][k])])
                 /\ part(n, P, k) \in Scalars(n) /\ combination(n, e, P)[k] = dot(n, e, part(n, P, k))
<1> DEFINE s == [i \in 1 .. n |-> GMul(e[i], P[i])]
<1>1. \A i \in 1 .. n : e[i] \in Scalar /\ P[i] \in Point /\ GMul(e[i], P[i]) \in Point
      BY GMulIs DEF Scalars, Points
<1>2. s \in Seq(Point) /\ Len(s) = n /\ \A i \in 1 .. n : s[i] = GMul(e[i], P[i])
      <2>1. s \in [1 .. n -> Point]
            BY <1>1
      <2>2. \A i \in 1 .. n : s[i] = GMul(e[i], P[i])
            OBVIOUS
      <2> HIDE DEF s
      <2>3. QED
            BY <2>1, <2>2
<1>3. combination(n, e, P) = GSum(s)
      BY DEF combination
<1> HIDE DEF s
<1>4. GSum(s) \in Point /\ \A k \in 1 .. Dim : GSum(s)[k] = SSum(column(s, k))
      BY <1>2, GSumIs
<1>5. ASSUME NEW k \in 1 .. Dim
      PROVE  /\ \A i \in 1 .. n : e[i] \in Scalar /\ P[i] \in Point /\ P[i][k] \in Scalar
             /\ [i \in 1 .. n |-> P[i][k]] \in Scalars(n)
             /\ [i \in 1 .. n |-> SMul(e[i], P[i][k])] \in Scalars(n)
             /\ combination(n, e, P)[k] = SSum([i \in 1 .. n |-> SMul(e[i], P[i][k])])
             /\ part(n, P, k) \in Scalars(n) /\ combination(n, e, P)[k] = dot(n, e, part(n, P, k))
      <2>1. \A i \in 1 .. n : P[i][k] \in Scalar
            BY <1>1 DEF Point
      <2>2. \A i \in 1 .. n : SMul(e[i], P[i][k]) \in Scalar
            BY <1>1, <2>1, Closed
      <2>3. ASSUME NEW i \in 1 .. n PROVE s[i][k] = SMul(e[i], P[i][k])
            <3>1. GMul(e[i], P[i]) = [j \in 1 .. Dim |-> SMul(e[i], P[i][j])]
                  BY <1>1, GMulIs
            <3>2. QED
                  BY <1>2, <3>1
      <2>4. column(s, k) = [i \in 1 .. n |-> SMul(e[i], P[i][k])]
            BY <1>2, <2>3 DEF column
      <2>5. GSum(s)[k] = SSum(column(s, k))
            BY <1>4
      <2>6. [i \in 1 .. n |-> P[i][k]] \in Scalars(n)
            BY <2>1 DEF Scalars
      <2>7. [i \in 1 .. n |-> SMul(e[i], P[i][k])] \in Scalars(n)
            BY <2>2 DEF Scalars
      <2>8. part(n, P, k) = [i \in 1 .. n |-> P[i][k]]
            BY DEF part
      <2>9. [i \in 1 .. n |-> SMul(e[i], part(n, P, k)[i])] = [i \in 1 .. n |-> SMul(e[i], P[i][k])]
            BY <2>8
      <2>10. dot(n, e, part(n, P, k)) = SSum([i \in 1 .. n |-> SMul(e[i], part(n, P, k)[i])])
            BY DEF dot
      <2>11. QED
            BY <1>1, <1>3, <2>1, <2>4, <2>5, <2>6, <2>7, <2>8, <2>9, <2>10
<1>6. QED
      BY <1>3, <1>4, <1>5

\* The combination of the entries that a tuple lists.
LEMMA TupleCombines ==
    ASSUME NEW n \in Nat, NEW e, NEW P
    PROVE  GSum(Tuple(n, LAMBDA i : GMul(e[i], P[i]))) = combination(n, e, P)
<1> DEFINE f == [i \in 1 .. n |-> GMul(e[i], P[i])]
<1>1. f = [i \in 1 .. n |-> f[i]]
      OBVIOUS
<1>2. Tuple(n, LAMBDA i : GMul(e[i], P[i])) = SubSeq(f, 1, n)
      BY DEF Tuple
<1>3. combination(n, e, P) = GSum(f)
      BY DEF combination
<1> HIDE DEF f
<1>4. QED
      BY <1>1, <1>2, <1>3, TupleIs

\* A point is read back from its 33 bytes.
LEMMA ReadsBack == ASSUME NEW P \in Point PROVE ge_load_boquila(ge_save_boquila(P)) = P
<1>1. ge_save_boquila(P) = quadForm(8, P)
      BY DEF ge_save_boquila, quadForm
<1>2. pedersen_commitment_load(quadForm(8, P)) = P
      BY LoadsWhatWasSaved
<1>3. QED
      BY <1>1, <1>2 DEF ge_load_boquila, pedersen_commitment_load

-------------------------------------------------------------------------------
(* The equations of the verifier, in one coordinate.                       *)

\* w is x u + v.
Mixes(n, w, x, u, v) == \A i \in 1 .. n : w[i] = SAdd(SMul(x, u[i]), v[i])

\* Commitments to u and to v make one to x u + v.
LEMMA OpensLinearly ==
    ASSUME NEW n \in Nat, NEW u \in Scalars(n), NEW v \in Scalars(n), NEW w \in Scalars(n), NEW h \in Scalars(n),
           NEW x \in Scalar, NEW kb \in Scalar, NEW ka \in Scalar, NEW H0 \in Scalar,
           Mixes(n, w, x, u, v)
    PROVE  SAdd(SMul(x, SAdd(SMul(kb, H0), dot(n, u, h))), SAdd(SMul(ka, H0), dot(n, v, h)))
             = SAdd(SMul(SAdd(SMul(x, kb), ka), H0), dot(n, w, h))
<1> DEFINE U == [i \in 1 .. n |-> SMul(u[i], h[i])]
           V == [i \in 1 .. n |-> SMul(v[i], h[i])]
           W == [i \in 1 .. n |-> SMul(w[i], h[i])]
           XU == [i \in 1 .. n |-> SMul(x, U[i])]
<1>1. \A i \in 1 .. n : u[i] \in Scalar /\ v[i] \in Scalar /\ w[i] \in Scalar /\ h[i] \in Scalar
      BY DEF Scalars
<1>2. /\ \A i \in 1 .. n : U[i] = SMul(u[i], h[i]) /\ V[i] = SMul(v[i], h[i]) /\ W[i] = SMul(w[i], h[i])
      /\ U \in Scalars(n) /\ V \in Scalars(n) /\ W \in Scalars(n)
      <2>1. \A i \in 1 .. n : SMul(u[i], h[i]) \in Scalar /\ SMul(v[i], h[i]) \in Scalar /\ SMul(w[i], h[i]) \in Scalar
            BY <1>1, Closed
      <2>2. QED
            BY <2>1 DEF Scalars
<1> HIDE DEF U, V, W
<1>3. \A i \in 1 .. n : U[i] \in Scalar /\ V[i] \in Scalar /\ W[i] \in Scalar /\ SMul(x, U[i]) \in Scalar
      BY <1>2, Closed DEF Scalars
<1>4. XU \in Scalars(n) /\ SSum(XU) = SMul(x, SSum(U)) /\ \A i \in 1 .. n : XU[i] = SMul(x, U[i])
      <2>1. SSum(XU) = SMul(x, SSum(U))
            BY <1>2, SumOfMultiples
      <2>2. XU \in Scalars(n)
            BY <1>3 DEF Scalars
      <2>3. QED
            BY <2>1, <2>2
<1> HIDE DEF XU
<1>5. ASSUME NEW i \in 1 .. n PROVE W[i] = SAdd(XU[i], V[i])
      <2>1. W[i] = SMul(SAdd(SMul(x, u[i]), v[i]), h[i])
            BY <1>2 DEF Mixes
      <2>2. u[i] \in Scalar /\ v[i] \in Scalar /\ h[i] \in Scalar /\ SMul(x, u[i]) \in Scalar
            BY <1>1, Closed
      <2>3. SMul(SAdd(SMul(x, u[i]), v[i]), h[i]) = SAdd(SMul(SMul(x, u[i]), h[i]), SMul(v[i], h[i]))
            BY <2>2, MulSum
      <2>4. SMul(SMul(x, u[i]), h[i]) = SMul(x, SMul(u[i], h[i]))
            BY <2>2, SMulAssociates
      <2>5. QED
            BY <1>2, <1>4, <2>1, <2>3, <2>4
<1>6. SSum(W) = SAdd(SSum(XU), SSum(V))
      <2>1. W = [i \in 1 .. n |-> SAdd(XU[i], V[i])]
            BY <1>2, <1>5 DEF Scalars
      <2>2. QED
            BY <1>2, <1>4, <2>1, SumOfSums
<1> DEFINE su == SSum(U)
           sv == SSum(V)
           b == SMul(kb, H0)
           a == SMul(ka, H0)
<1>7. su \in Scalar /\ sv \in Scalar /\ b \in Scalar /\ a \in Scalar /\ SMul(x, kb) \in Scalar
      BY <1>2, SumWalk, Closed
<1>8. SMul(SAdd(SMul(x, kb), ka), H0) = SAdd(SMul(x, b), a)
      <2>1. SMul(SAdd(SMul(x, kb), ka), H0) = SAdd(SMul(SMul(x, kb), H0), SMul(ka, H0))
            BY <1>7, MulSum
      <2>2. SMul(SMul(x, kb), H0) = SMul(x, SMul(kb, H0))
            BY SMulAssociates
      <2>3. QED
            BY <2>1, <2>2
<1>9. SSum(W) = SAdd(SMul(x, su), sv)
      BY <1>4, <1>6
<1>10. SAdd(SMul(x, SAdd(b, su)), SAdd(a, sv)) = SAdd(SAdd(SMul(x, b), a), SAdd(SMul(x, su), sv))
      <2> HIDE DEF su, sv, a, b
      <2>1. SMul(x, SAdd(b, su)) = SAdd(SMul(x, b), SMul(x, su))
            BY <1>7, SMulDistributes
      <2>2. SMul(x, b) \in Scalar /\ SMul(x, su) \in Scalar
            BY <1>7, Closed
      <2>3. SAdd(SAdd(SMul(x, b), SMul(x, su)), SAdd(a, sv)) = SAdd(SAdd(SMul(x, b), a), SAdd(SMul(x, su), sv))
            BY <1>7, <2>2, AddFour
      <2>4. QED
            BY <2>1, <2>3
<1>11. QED
      BY <1>8, <1>9, <1>10 DEF U, V, W, dot

\* The ring equation: the blinding of the j-th commitments is taken off the key,
\* and of the polynomials only the leading one of the prover's own key is left.
Leads(P, N, m, own) == \A t \in 1 .. N : P[t][m + 1] = IF t = own THEN 1 ELSE 0
Values(W, P, X, N, n) == \A t \in 1 .. N : W[t] = dot(n, P[t], X)
blindings(B, rho, j) == [b \in 1 .. B |-> rho[j]]
coefficients(N, P, j) == [t \in 1 .. N |-> P[t][j]]
Blinds(q, rho, P, g, c, m, B, N) ==
    \A j \in 1 .. m : q[j] = SAdd(dot(B, blindings(B, rho, j), g), dot(N, coefficients(N, P, j), c))
Responds(z, key, rho, X, m, B) ==
    \A b \in 1 .. B : z[b] = SAdd(SMul(key[b], X[m + 1]), SNeg(dot(m, rho, X)))
negated(m, X) == [j \in 1 .. m |-> SNeg(X[j])]

Ready(m, N, B, X, rho, P, c, g, key, own, W, q, z) ==
    /\ m \in Nat /\ N \in Nat /\ B \in Nat
    /\ X \in Scalars(m + 1) /\ rho \in Scalars(m) /\ P \in [1 .. N -> Scalars(m + 1)]
    /\ c \in Scalars(N) /\ g \in Scalars(B) /\ key \in Scalars(B) /\ own \in 1 .. N
    /\ Leads(P, N, m, own)
    /\ dot(B, key, g) = c[own]
    /\ W \in Scalars(N) /\ Values(W, P, X, N, m + 1)
    /\ q \in Scalars(m) /\ Blinds(q, rho, P, g, c, m, B, N)
    /\ z \in Scalars(B) /\ Responds(z, key, rho, X, m, B)

LEMMA RingBalances ==
    ASSUME NEW m, NEW N, NEW B, NEW X, NEW rho, NEW P, NEW c, NEW g, NEW key, NEW own, NEW W, NEW q, NEW z,
           Ready(m, N, B, X, rho, P, c, g, key, own, W, q, z)
    PROVE  SAdd(dot(m, negated(m, X), q), dot(N, W, c)) = dot(B, z, g)
<1> SUFFICES ASSUME m \in Nat, N \in Nat, B \in Nat,
                    X \in Scalars(m + 1), rho \in Scalars(m), P \in [1 .. N -> Scalars(m + 1)],
                    c \in Scalars(N), g \in Scalars(B), key \in Scalars(B), own \in 1 .. N,
                    Leads(P, N, m, own),
                    dot(B, key, g) = c[own],
                    W \in Scalars(N), Values(W, P, X, N, m + 1),
                    q \in Scalars(m), Blinds(q, rho, P, g, c, m, B, N),
                    z \in Scalars(B), Responds(z, key, rho, X, m, B)
             PROVE  SAdd(dot(m, negated(m, X), q), dot(N, W, c)) = dot(B, z, g)
    BY DEF Ready
<1>a. /\ \A t \in 1 .. N : P[t][m + 1] = IF t = own THEN 1 ELSE 0
      /\ SSum([b \in 1 .. B |-> SMul(key[b], g[b])]) = c[own]
      /\ \A t \in 1 .. N : W[t] = SSum([k \in 1 .. m + 1 |-> SMul(P[t][k], X[k])])
      /\ \A b \in 1 .. B : z[b] = SAdd(SMul(key[b], X[m + 1]), SNeg(SSum([j \in 1 .. m |-> SMul(rho[j], X[j])])))
      BY DEF Leads, Values, Responds, dot
<1>b. \A j \in 1 .. m : q[j] = SAdd(SSum([b \in 1 .. B |-> SMul(rho[j], g[b])]),
                                    SSum([t \in 1 .. N |-> SMul(P[t][j], c[t])]))
      <2>1. ASSUME NEW j \in 1 .. m
            PROVE  /\ dot(B, [b \in 1 .. B |-> rho[j]], g) = SSum([b \in 1 .. B |-> SMul(rho[j], g[b])])
                   /\ dot(N, [t \in 1 .. N |-> P[t][j]], c) = SSum([t \in 1 .. N |-> SMul(P[t][j], c[t])])
            <3> DEFINE e == [b \in 1 .. B |-> rho[j]]
                       f == [t \in 1 .. N |-> P[t][j]]
            <3>1. [b \in 1 .. B |-> SMul(e[b], g[b])] = [b \in 1 .. B |-> SMul(rho[j], g[b])]
                  OBVIOUS
            <3>2. [t \in 1 .. N |-> SMul(f[t], c[t])] = [t \in 1 .. N |-> SMul(P[t][j], c[t])]
                  OBVIOUS
            <3> HIDE DEF e, f
            <3>3. QED
                  BY <3>1, <3>2 DEF dot, e, f
      <2>2. QED
            BY <2>1 DEF Blinds, blindings, coefficients
<1>c. SUFFICES SAdd(SSum([j \in 1 .. m |-> SMul(SNeg(X[j]), q[j])]), SSum([t \in 1 .. N |-> SMul(W[t], c[t])]))
                 = SSum([b \in 1 .. B |-> SMul(z[b], g[b])])
      <2>1. dot(m, negated(m, X), q) = SSum([j \in 1 .. m |-> SMul(SNeg(X[j]), q[j])])
            <3> DEFINE e == negated(m, X)
            <3>1. [j \in 1 .. m |-> SMul(e[j], q[j])] = [j \in 1 .. m |-> SMul(SNeg(X[j]), q[j])]
                  BY DEF negated
            <3> HIDE DEF e
            <3>2. QED
                  BY <3>1 DEF dot, e
      <2>2. QED
            BY <2>1 DEF dot
<1> DEFINE n == m + 1
           top == X[m + 1]
           RX == [j \in 1 .. m |-> SMul(rho[j], X[j])]
           R == SSum(RX)
           gs == SSum(g)
           row(k) == [t \in 1 .. N |-> SMul(P[t][k], c[t])]
           u == [k \in 1 .. n |-> SSum(row(k))]
           Xu == [k \in 1 .. n |-> SMul(X[k], u[k])]
           low == [j \in 1 .. m |-> Xu[j]]
<1>1. /\ \A j \in 1 .. m : j \in 1 .. n /\ rho[j] \in Scalar /\ X[j] \in Scalar /\ q[j] \in Scalar
      /\ \A k \in 1 .. n : X[k] \in Scalar
      /\ \A t \in 1 .. N : c[t] \in Scalar /\ W[t] \in Scalar /\ \A k \in 1 .. n : P[t][k] \in Scalar
      /\ \A b \in 1 .. B : g[b] \in Scalar /\ key[b] \in Scalar /\ z[b] \in Scalar
      /\ top \in Scalar /\ n \in Nat
      BY DEF Scalars
<1>2. /\ RX \in Scalars(m) /\ \A j \in 1 .. m : RX[j] = SMul(rho[j], X[j]) /\ RX[j] \in Scalar
      <2>1. \A j \in 1 .. m : SMul(rho[j], X[j]) \in Scalar
            BY <1>1, Closed
      <2>2. QED
            BY <2>1 DEF Scalars
<1> HIDE DEF RX
<1>3. R \in Scalar /\ gs \in Scalar /\ SNeg(R) \in Scalar
      BY <1>2, SumWalk, Closed
<1>4. /\ \A k \in 1 .. n : row(k) \in Scalars(N) /\ u[k] = SSum(row(k)) /\ u[k] \in Scalar
      /\ \A k \in 1 .. n, t \in 1 .. N : row(k)[t] = SMul(P[t][k], c[t]) /\ row(k)[t] \in Scalar
      /\ u \in Scalars(n)
      <2>1. \A k \in 1 .. n, t \in 1 .. N : row(k)[t] = SMul(P[t][k], c[t]) /\ row(k)[t] \in Scalar
            BY <1>1, Closed
      <2>2. \A k \in 1 .. n : row(k) \in Scalars(N)
            BY <2>1 DEF Scalars
      <2> HIDE DEF row
      <2>3. \A k \in 1 .. n : SSum(row(k)) \in Scalar
            BY <2>2, SumWalk
      <2>4. QED
            BY <2>1, <2>2, <2>3 DEF Scalars
<1> HIDE DEF row, u
<1>5. Xu \in Scalars(n) /\ \A k \in 1 .. n : Xu[k] = SMul(X[k], u[k]) /\ Xu[k] \in Scalar
      <2>1. \A k \in 1 .. n : SMul(X[k], u[k]) \in Scalar
            BY <1>1, <1>4, Closed
      <2>2. QED
            BY <2>1 DEF Scalars
<1> HIDE DEF Xu
<1>6. low \in Scalars(m) /\ \A j \in 1 .. m : low[j] = Xu[j]
      BY <1>1, <1>5 DEF Scalars
<1> HIDE DEF low
<1> DEFINE U == SSum(low)
<1>7. U \in Scalar /\ SNeg(U) \in Scalar
      BY <1>6, SumWalk, Closed
<1>8. u[n] = c[own]
      <2>1. n \in 1 .. n /\ own \in 1 .. N
            BY <1>1
      <2>2. row(n)[own] = c[own]
            <3>1. row(n)[own] = SMul(1, c[own])
                  BY <1>4, <1>a, <2>1
            <3>2. QED
                  BY <1>1, <3>1, WithOne
      <2>3. ASSUME NEW t \in 1 .. N, t # own PROVE row(n)[t] = 0
            <3>1. row(n)[t] = SMul(0, c[t])
                  BY <1>4, <1>a, <2>1, <2>3
            <3>2. QED
                  BY <1>1, <3>1, WithZero
      <2>4. SSum(row(n)) = row(n)[own]
            BY <1>4, <2>1, <2>3, SumOfOne
      <2>5. QED
            BY <1>4, <2>1, <2>2, <2>4
<1>9. SSum([t \in 1 .. N |-> SMul(W[t], c[t])]) = SAdd(U, SMul(top, c[own]))
      <2> DEFINE f == [t \in 1 .. N |-> [k \in 1 .. n |-> SMul(SMul(P[t][k], X[k]), c[t])]]
                 PX(t) == [k \in 1 .. n |-> SMul(P[t][k], X[k])]
      <2>1. \A t \in 1 .. N, k \in 1 .. n : SMul(P[t][k], X[k]) \in Scalar
            BY <1>1, Closed
      <2>2. \A t \in 1 .. N : PX(t) \in Scalars(n) /\ \A k \in 1 .. n : PX(t)[k] = SMul(P[t][k], X[k])
            BY <2>1 DEF Scalars
      <2>3. ASSUME NEW t \in 1 .. N PROVE SMul(W[t], c[t]) = SSum(f[t])
            <3>1. W[t] = SSum(PX(t))
                  BY <1>a
            <3> HIDE DEF PX
            <3>2. SSum(PX(t)) \in Scalar /\ SMul(W[t], c[t]) = SMul(c[t], SSum(PX(t)))
                  BY <1>1, <2>2, <3>1, SumWalk, SMulCommutes
            <3>3. SSum([k \in 1 .. n |-> SMul(c[t], PX(t)[k])]) = SMul(c[t], SSum(PX(t)))
                  BY <1>1, <2>2, SumOfMultiples
            <3>4. \A k \in 1 .. n : SMul(c[t], PX(t)[k]) = SMul(SMul(P[t][k], X[k]), c[t])
                  BY <1>1, <2>1, <2>2, SMulCommutes
            <3>5. [k \in 1 .. n |-> SMul(c[t], PX(t)[k])] = f[t]
                  BY <3>4
            <3>6. QED
                  BY <3>2, <3>3, <3>5
      <2>4. f \in [1 .. N -> Scalars(n)]
            <3>1. \A t \in 1 .. N, k \in 1 .. n : SMul(SMul(P[t][k], X[k]), c[t]) \in Scalar
                  BY <1>1, <2>1, Closed
            <3>2. QED
                  BY <3>1 DEF Scalars
      <2>5. SSum([t \in 1 .. N |-> SSum(f[t])]) = SSum([k \in 1 .. n |-> SSum([t \in 1 .. N |-> f[t][k]])])
            <3> HIDE DEF f
            <3>1. QED
                  BY <1>1, <2>4, SumSwap
      <2>6. ASSUME NEW k \in 1 .. n PROVE SSum([t \in 1 .. N |-> f[t][k]]) = Xu[k]
            <3>1. \A t \in 1 .. N : f[t][k] = SMul(SMul(P[t][k], X[k]), c[t])
                  OBVIOUS
            <3> HIDE DEF f
            <3>2. ASSUME NEW t \in 1 .. N PROVE f[t][k] = SMul(X[k], row(k)[t])
                  <4>1. P[t][k] \in Scalar /\ X[k] \in Scalar /\ c[t] \in Scalar
                        BY <1>1
                  <4>2. SMul(P[t][k], X[k]) = SMul(X[k], P[t][k])
                        BY <4>1, SMulCommutes
                  <4>3. SMul(SMul(X[k], P[t][k]), c[t]) = SMul(X[k], SMul(P[t][k], c[t]))
                        BY <4>1, SMulAssociates
                  <4>4. QED
                        BY <1>4, <3>1, <4>2, <4>3
            <3>3. [t \in 1 .. N |-> f[t][k]] = [t \in 1 .. N |-> SMul(X[k], row(k)[t])]
                  BY <3>2
            <3>4. SSum([t \in 1 .. N |-> SMul(X[k], row(k)[t])]) = SMul(X[k], SSum(row(k)))
                  BY <1>1, <1>4, SumOfMultiples
            <3>5. QED
                  BY <1>4, <1>5, <3>3, <3>4
      <2>7. [t \in 1 .. N |-> SMul(W[t], c[t])] = [t \in 1 .. N |-> SSum(f[t])]
            <3> HIDE DEF f
            <3>1. QED
                  BY <2>3
      <2>8. [k \in 1 .. n |-> SSum([t \in 1 .. N |-> f[t][k]])] = Xu
            <3> HIDE DEF f
            <3>1. QED
                  BY <1>5, <2>6 DEF Scalars
      <2>9. SSum(Xu) = SAdd(U, Xu[n])
            <3>1. low = [j \in 1 .. m |-> Xu[j]]
                  BY DEF low
            <3>2. SSum(Xu) = SAdd(SSum([j \in 1 .. m |-> Xu[j]]), Xu[m + 1])
                  BY <1>5, SumOfLast
            <3>3. QED
                  BY <3>1, <3>2
      <2>10. Xu[n] = SMul(top, c[own])
            BY <1>1, <1>5, <1>8
      <2> HIDE DEF f, n
      <2>11. QED
            BY <2>5, <2>7, <2>8, <2>9, <2>10
<1>10. SSum([j \in 1 .. m |-> SMul(SNeg(X[j]), q[j])]) = SAdd(SMul(SNeg(R), gs), SNeg(U))
      <2> DEFINE y == [j \in 1 .. m |-> SMul(SNeg(gs), RX[j])]
                 v == [j \in 1 .. m |-> SNeg(low[j])]
      <2>1. y \in Scalars(m) /\ v \in Scalars(m)
            /\ \A j \in 1 .. m : y[j] = SMul(SNeg(gs), RX[j]) /\ v[j] = SNeg(low[j])
            <3>1. \A j \in 1 .. m : SMul(SNeg(gs), RX[j]) \in Scalar /\ SNeg(low[j]) \in Scalar
                  BY <1>2, <1>3, <1>5, <1>6, Closed, <1>1
            <3>2. QED
                  BY <3>1 DEF Scalars
      <2>2. SSum(y) = SMul(SNeg(R), gs)
            <3>1. SSum(y) = SMul(SNeg(gs), R)
                  BY <1>2, <1>3, Closed, SumOfMultiples
            <3>2. SMul(SNeg(gs), R) = SNeg(SMul(gs, R)) /\ SMul(SNeg(R), gs) = SNeg(SMul(R, gs))
                  BY <1>3, RingLaws
            <3>3. SMul(gs, R) = SMul(R, gs)
                  BY <1>3, SMulCommutes
            <3>4. QED
                  BY <3>1, <3>2, <3>3
      <2>3. SSum(v) = SNeg(U)
            BY <1>6, SumOfNegatives
      <2> HIDE DEF y, v
      <2>4. ASSUME NEW j \in 1 .. m PROVE SMul(SNeg(X[j]), q[j]) = SAdd(y[j], v[j])
            <3> DEFINE a == X[j]
                       b == rho[j]
                       d == u[j]
            <3>1. a \in Scalar /\ b \in Scalar /\ d \in Scalar /\ SNeg(a) \in Scalar /\ SMul(b, gs) \in Scalar
                  /\ SMul(a, b) \in Scalar /\ SMul(a, d) \in Scalar
                  BY <1>1, <1>3, <1>4, Closed
            <3>2. q[j] = SAdd(SMul(b, gs), d)
                  <4>1. SSum([i \in 1 .. B |-> SMul(rho[j], g[i])]) = SMul(rho[j], gs)
                        BY <1>1, SumOfMultiples
                  <4>2. row(j) = [t \in 1 .. N |-> SMul(P[t][j], c[t])]
                        BY DEF row
                  <4>3. QED
                        BY <1>1, <1>4, <1>b, <4>1, <4>2
            <3>3. y[j] = SMul(SNeg(gs), SMul(b, a)) /\ v[j] = SNeg(SMul(a, d))
                  BY <1>1, <1>2, <1>5, <1>6, <2>1
            <3> HIDE DEF a, b, d, gs, U, R
            <3>4. SMul(SNeg(a), q[j]) = SAdd(SMul(SNeg(a), SMul(b, gs)), SMul(SNeg(a), d))
                  BY <3>1, <3>2, SMulDistributes
            <3>5. SMul(SNeg(a), d) = SNeg(SMul(a, d))
                  BY <3>1, RingLaws
            <3>6. SMul(SNeg(a), SMul(b, gs)) = SMul(SNeg(gs), SMul(b, a))
                  <4>1. SMul(SNeg(a), SMul(b, gs)) = SNeg(SMul(a, SMul(b, gs)))
                        BY <3>1, RingLaws
                  <4>2. SMul(SNeg(gs), SMul(b, a)) = SNeg(SMul(gs, SMul(b, a)))
                        BY <1>3, <3>1, Closed, RingLaws
                  <4>3. SMul(a, SMul(b, gs)) = SMul(SMul(a, b), gs)
                        BY <1>3, <3>1, SMulAssociates
                  <4>4. SMul(SMul(a, b), gs) = SMul(gs, SMul(a, b)) /\ SMul(a, b) = SMul(b, a)
                        BY <1>3, <3>1, SMulCommutes
                  <4>5. QED
                        BY <4>1, <4>2, <4>3, <4>4
            <3>7. QED
                  BY <3>3, <3>4, <3>5, <3>6 DEF a
      <2>5. [j \in 1 .. m |-> SMul(SNeg(X[j]), q[j])] = [j \in 1 .. m |-> SAdd(y[j], v[j])]
            BY <2>4
      <2>6. SSum([j \in 1 .. m |-> SAdd(y[j], v[j])]) = SAdd(SSum(y), SSum(v))
            BY <2>1, SumOfSums
      <2>7. QED
            BY <2>2, <2>3, <2>5, <2>6
<1>11. SSum([b \in 1 .. B |-> SMul(z[b], g[b])]) = SAdd(SMul(top, c[own]), SMul(SNeg(R), gs))
      <2> DEFINE kg == [b \in 1 .. B |-> SMul(key[b], g[b])]
                 y == [b \in 1 .. B |-> SMul(top, kg[b])]
                 v == [b \in 1 .. B |-> SMul(SNeg(R), g[b])]
      <2>1. kg \in Scalars(B) /\ \A b \in 1 .. B : kg[b] = SMul(key[b], g[b]) /\ kg[b] \in Scalar
            <3>1. \A b \in 1 .. B : SMul(key[b], g[b]) \in Scalar
                  BY <1>1, Closed
            <3>2. QED
                  BY <3>1 DEF Scalars
      <2>2. SSum(kg) = c[own]
            BY <1>a
      <2> HIDE DEF kg
      <2>3. /\ y \in Scalars(B) /\ v \in Scalars(B)
            /\ \A b \in 1 .. B : y[b] = SMul(top, kg[b]) /\ v[b] = SMul(SNeg(R), g[b])
            <3>1. \A b \in 1 .. B : SMul(top, kg[b]) \in Scalar /\ SMul(SNeg(R), g[b]) \in Scalar
                  BY <1>1, <1>3, <2>1, Closed
            <3>2. QED
                  BY <3>1 DEF Scalars
      <2>4. SSum(y) = SMul(top, c[own])
            BY <1>1, <2>1, <2>2, SumOfMultiples
      <2>5. SSum(v) = SMul(SNeg(R), gs)
            BY <1>3, SumOfMultiples
      <2> HIDE DEF y, v
      <2>6. ASSUME NEW b \in 1 .. B PROVE SMul(z[b], g[b]) = SAdd(y[b], v[b])
            <3>1. z[b] = SAdd(SMul(key[b], top), SNeg(R))
                  BY <1>a DEF RX
            <3>2. key[b] \in Scalar /\ top \in Scalar /\ SMul(key[b], top) \in Scalar /\ g[b] \in Scalar
                  BY <1>1, Closed
            <3> HIDE DEF top, R, gs
            <3>3. SMul(SAdd(SMul(key[b], top), SNeg(R)), g[b])
                     = SAdd(SMul(SMul(key[b], top), g[b]), SMul(SNeg(R), g[b]))
                  BY <1>3, <3>2, MulSum
            <3>4. SMul(key[b], top) = SMul(top, key[b])
                  BY <3>2, SMulCommutes
            <3>5. SMul(SMul(top, key[b]), g[b]) = SMul(top, SMul(key[b], g[b]))
                  BY <3>2, SMulAssociates
            <3>6. QED
                  BY <2>1, <2>3, <3>1, <3>3, <3>4, <3>5
      <2>7. [b \in 1 .. B |-> SMul(z[b], g[b])] = [b \in 1 .. B |-> SAdd(y[b], v[b])]
            BY <2>6
      <2>8. SSum([b \in 1 .. B |-> SAdd(y[b], v[b])]) = SAdd(SSum(y), SSum(v))
            BY <2>3, SumOfSums
      <2>9. QED
            BY <2>4, <2>5, <2>7, <2>8
<1> DEFINE A == SMul(SNeg(R), gs)
           Y == SMul(top, c[own])
<1>12. A \in Scalar /\ Y \in Scalar
      BY <1>1, <1>3, Closed
<1>13. SAdd(SAdd(A, SNeg(U)), SAdd(U, Y)) = SAdd(Y, A)
      <2> HIDE DEF A, Y, U
      <2>1. SAdd(SAdd(A, SNeg(U)), SAdd(U, Y)) = SAdd(A, SAdd(SNeg(U), SAdd(U, Y)))
            BY <1>7, <1>12, Closed, SAddAssociates
      <2>2. SAdd(SNeg(U), SAdd(U, Y)) = SAdd(SAdd(SNeg(U), U), Y)
            BY <1>7, <1>12, SAddAssociates
      <2>3. SAdd(SNeg(U), U) = 0 /\ SAdd(0, Y) = Y /\ SAdd(A, Y) = SAdd(Y, A)
            BY <1>7, <1>12, RingLaws
      <2>4. QED
            BY <2>1, <2>2, <2>3
<1>14. QED
      BY <1>9, <1>10, <1>11, <1>13

-------------------------------------------------------------------------------
(* What the prover draws, and the responses that complete f.               *)

Randoms(r, m, n) ==
    /\ r.rA \in Scalar /\ r.rB \in Scalar /\ r.rC \in Scalar /\ r.rD \in Scalar
    /\ r.rho \in Scalars(m)
    /\ EntriesTyped(r, m, n)
    /\ \A j \in 1 .. m : r.a[j][1] = SNeg(SSum([i \in 1 .. n - 1 |-> r.a[j][i + 1]]))

\* The entry of a table of m rows of n that a number stands for.
LEMMA PlaceInTable ==
    ASSUME NEW m \in Nat, NEW n \in Nat \ {0}, NEW j \in 0 .. m - 1, NEW i \in 0 .. n - 1
    PROVE  j * n + 1 + i \in 1 .. m * n
<1>1. j * n \in Nat /\ m * n \in Nat /\ n * j = j * n /\ n * m = m * n /\ n * (j + 1) = n * j + n
      OBVIOUS
<1>2. n * (j + 1) <= n * m
      <2>1. j + 1 <= m /\ j + 1 \in Nat
            OBVIOUS
      <2>2. QED
            BY <2>1, ProductGrows
<1> DEFINE u == j * n
           v == m * n
<1>3. u \in Nat /\ v \in Nat /\ u + n <= v
      BY <1>1, <1>2
<1> HIDE DEF u, v
<1>4. u + 1 + i \in 1 .. v
      BY <1>3
<1>5. QED
      BY <1>4 DEF u, v

LEMMA DrawnIs ==
    ASSUME NEW rctx, rctx.n = RingBase, NEW m \in Nat, NEW draws \in Seq(Bytes32), Len(draws) >= 4 + m * RingBase
    PROVE  Randoms(drawn(rctx, m, draws), m, RingBase)
<1> DEFINE n == RingBase
           at(j, i) == ScalarOf(draws[4 + j * n + 1 + i])
           rest(j) == [i \in 1 .. n - 1 |-> at(j, i)]
           rowOf(j) == [i \in 1 .. n |-> IF i > 1 THEN at(j - 1, i - 1)
                                         ELSE SNeg(SSum(Tuple(n - 1, LAMBDA k : at(j - 1, k))))]
           row(j) == Tuple(n, LAMBDA i : IF i > 1 THEN at(j - 1, i - 1)
                                         ELSE SNeg(SSum(Tuple(n - 1, LAMBDA k : at(j - 1, k)))))
           rows == [j \in 1 .. m |-> row(j)]
           rhos == [j \in 1 .. m |-> at(j - 1, 0)]
           r == drawn(rctx, m, draws)
<1>1. n \in Nat /\ n > 1 /\ n \in Nat \ {0}
      BY RingCipAssumption
<1>2. \A k \in 1 .. 4 + m * n : ScalarOf(draws[k]) \in Scalar
      <2>1. m * n \in Nat /\ Len(draws) \in Nat
            BY <1>1
      <2>2. \A k \in 1 .. 4 + m * n : draws[k] \in Bytes32
            <3> DEFINE v == m * n
            <3>1. v \in Nat /\ Len(draws) >= 4 + v
                  BY <2>1
            <3> HIDE DEF v
            <3>2. \A k \in 1 .. 4 + v : k \in 1 .. Len(draws)
                  BY <2>1, <3>1
            <3>3. QED
                  BY <3>2 DEF v
      <2>3. QED
            BY <2>2, BytesMakeScalars
<1>3. \A j \in 0 .. m - 1, i \in 0 .. n - 1 : at(j, i) \in Scalar
      <2>1. ASSUME NEW j \in 0 .. m - 1, NEW i \in 0 .. n - 1 PROVE at(j, i) \in Scalar
            <3> DEFINE u == j * n
                       v == m * n
            <3>1. u + 1 + i \in 1 .. v /\ u \in Nat /\ v \in Nat
                  <4> HIDE DEF n
                  <4>1. QED
                        BY <1>1, PlaceInTable
            <3>2. at(j, i) = ScalarOf(draws[4 + u + 1 + i]) /\ \A k \in 1 .. 4 + v : ScalarOf(draws[k]) \in Scalar
                  BY <1>2
            <3> HIDE DEF u, v, at
            <3>3. 4 + u + 1 + i \in 1 .. 4 + v
                  BY <3>1
            <3>4. QED
                  BY <3>2, <3>3
      <2>2. QED
            BY <2>1
<1>4. r = [rA |-> ScalarOf(draws[1]), rB |-> ScalarOf(draws[2]), rC |-> ScalarOf(draws[3]),
           rD |-> ScalarOf(draws[4]), rho |-> SubSeq(rhos, 1, m), a |-> SubSeq(rows, 1, m),
           overflow |-> Overflow(draws[4 + m * n])]
      BY DEF drawn, Tuple
<1>5. \A j \in 1 .. m : row(j) = SubSeq(rowOf(j), 1, n)
      BY DEF Tuple
<1>6. \A j \in 1 .. m : rowOf(j) = [i \in 1 .. n |-> rowOf(j)[i]]
      OBVIOUS
<1>7. \A j \in 1 .. m : Tuple(n - 1, LAMBDA k : at(j - 1, k)) = rest(j - 1)
      <2>1. ASSUME NEW j \in 1 .. m PROVE Tuple(n - 1, LAMBDA k : at(j - 1, k)) = rest(j - 1)
            <3>1. Tuple(n - 1, LAMBDA k : at(j - 1, k)) = SubSeq(rest(j - 1), 1, n - 1)
                  BY DEF Tuple
            <3>2. rest(j - 1) = [i \in 1 .. n - 1 |-> rest(j - 1)[i]] /\ n - 1 \in Nat
                  BY <1>1
            <3> HIDE DEF rest, at
            <3>3. SubSeq(rest(j - 1), 1, n - 1) = rest(j - 1)
                  BY <3>2, TupleIs
            <3>4. QED
                  BY <3>1, <3>3
      <2>2. QED
            BY <2>1
<1>8. \A j \in 1 .. m, i \in 1 .. n : rowOf(j)[i] = IF i > 1 THEN at(j - 1, i - 1) ELSE SNeg(SSum(rest(j - 1)))
      <2> HIDE DEF rest, at
      <2>1. QED
            BY <1>7
<1>9. rows = [j \in 1 .. m |-> rows[j]] /\ rhos = [j \in 1 .. m |-> rhos[j]] /\ \A j \in 1 .. m : rows[j] = row(j)
      OBVIOUS
<1>10. rhos \in Scalars(m)
       <2>1. \A j \in 1 .. m : at(j - 1, 0) \in Scalar
             <3>1. \A j \in 1 .. m : j - 1 \in 0 .. m - 1 /\ 0 \in 0 .. n - 1
                   BY <1>1
             <3> HIDE DEF at
             <3>2. QED
                   BY <1>3, <3>1
       <2> HIDE DEF at
       <2>2. QED
             BY <2>1 DEF Scalars
<1>11. \A j \in 1 .. m : rest(j - 1) \in Scalars(n - 1) /\ SSum(rest(j - 1)) \in Scalar
       <2>1. ASSUME NEW j \in 1 .. m PROVE rest(j - 1) \in Scalars(n - 1)
             <3>1. \A i \in 1 .. n - 1 : at(j - 1, i) \in Scalar
                   <4>1. j - 1 \in 0 .. m - 1 /\ \A i \in 1 .. n - 1 : i \in 0 .. n - 1
                         BY <1>1
                   <4> HIDE DEF at
                   <4>2. QED
                         BY <1>3, <4>1
             <3> HIDE DEF at
             <3>2. QED
                   BY <3>1 DEF Scalars
       <2>2. n - 1 \in Nat
             BY <1>1
       <2> HIDE DEF rest
       <2>3. QED
             BY <2>1, <2>2, SumWalk
<1>12. \A j \in 1 .. m, i \in 1 .. n - 1 : rest(j - 1)[i] = at(j - 1, i)
       OBVIOUS
<1> HIDE DEF rows, rhos, rowOf, row, rest, r
<1>13. \A j \in 1 .. m : row(j) = rowOf(j)
       <2> HIDE DEF at, n
       <2>1. QED
             BY <1>1, <1>5, <1>6, TupleIs
<1>14. SubSeq(rhos, 1, m) = rhos /\ SubSeq(rows, 1, m) = rows
       BY <1>9, TupleIs
<1>15. /\ r.rA = ScalarOf(draws[1]) /\ r.rB = ScalarOf(draws[2]) /\ r.rC = ScalarOf(draws[3])
       /\ r.rD = ScalarOf(draws[4]) /\ r.rho = rhos /\ r.a = rows
       <2> HIDE DEF at, n
       <2>1. QED
             BY <1>4, <1>14
<1>16. \A j \in 1 .. m, i \in 1 .. n :
          r.a[j][i] = IF i > 1 THEN at(j - 1, i - 1) ELSE SNeg(SSum(rest(j - 1)))
       <2> HIDE DEF at, n
       <2>1. QED
             BY <1>8, <1>9, <1>13, <1>15
<1>17. EntriesTyped(r, m, n)
       <2>1. ASSUME NEW j \in 1 .. m, NEW i \in 1 .. n PROVE r.a[j][i] \in Scalar
             <3>1. CASE i > 1
                   <4>1. i - 1 \in 0 .. n - 1 /\ j - 1 \in 0 .. m - 1
                         BY <1>1, <3>1
                   <4> HIDE DEF at, n
                   <4>2. QED
                         BY <1>3, <1>16, <3>1, <4>1
             <3>2. CASE ~(i > 1)
                   <4>1. r.a[j][i] = SNeg(SSum(rest(j - 1)))
                         BY <1>16, <3>2
                   <4>2. QED
                         BY <1>11, <4>1, Closed
             <3>3. QED
                   BY <3>1, <3>2
       <2>2. QED
             BY <2>1 DEF EntriesTyped
<1>18. ASSUME NEW j \in 1 .. m PROVE r.a[j][1] = SNeg(SSum([i \in 1 .. n - 1 |-> r.a[j][i + 1]]))
       <2>1. 1 \in 1 .. n /\ ~(1 > 1) /\ n - 1 \in Nat
             BY <1>1
       <2>2. r.a[j][1] = SNeg(SSum(rest(j - 1)))
             BY <1>16, <2>1
       <2>3. ASSUME NEW i \in 1 .. n - 1 PROVE r.a[j][i + 1] = rest(j - 1)[i]
             <3>1. i + 1 \in 1 .. n /\ i + 1 > 1 /\ (i + 1) - 1 = i
                   BY <1>1
             <3> HIDE DEF at, n
             <3>2. r.a[j][i + 1] = at(j - 1, i)
                   BY <1>16, <3>1
             <3>3. QED
                   BY <1>12, <3>2
       <2>4. rest(j - 1) = [i \in 1 .. n - 1 |-> r.a[j][i + 1]]
             <3> HIDE DEF at, n
             <3>1. rest(j - 1) = [i \in 1 .. n - 1 |-> rest(j - 1)[i]]
                   BY <1>11 DEF Scalars
             <3>2. QED
                   BY <2>3, <3>1
       <2>5. QED
             BY <2>2, <2>4
<1>19. \A k \in 1 .. 4 : ScalarOf(draws[k]) \in Scalar
       <2>1. m * n \in Nat
             BY <1>1
       <2>2. \A k \in 1 .. 4 : k \in 1 .. 4 + m * n
             BY <2>1
       <2>3. QED
             BY <1>2, <2>2
<1>20. QED
       BY <1>10, <1>15, <1>17, <1>18, <1>19 DEF Randoms, r, n

LEMMA DeltaIs == \A rctx, index, j, i : delta(rctx, index, j, i) \in {0, 1} /\ delta(rctx, index, j, i) \in Scalar
BY ZeroAndOne DEF delta

\* A sequence with one entry in front of it.
LEMMA Prefixed ==
    ASSUME NEW one \in Seq(Scalar), Len(one) = 1, NEW s \in Seq(Scalar)
    PROVE  (one \o s)[1] = one[1] /\ \A i \in 1 .. Len(s) : (one \o s)[i + 1] = s[i]
<1>1. /\ Len(s) \in Nat
      /\ \A k \in 1 .. Len(one) + Len(s) : (one \o s)[k] = IF k <= Len(one) THEN one[k] ELSE s[k - Len(one)]
      <2>1. Len(s) \in Nat
            OBVIOUS
      <2>2. \A k \in 1 .. Len(one) + Len(s) : (one \o s)[k] = IF k <= Len(one) THEN one[k] ELSE s[k - Len(one)]
            BY ConcatProperties
      <2>3. QED
            BY <2>1, <2>2
<1>2. 1 \in 1 .. 1 + Len(s) /\ 1 <= 1
      BY <1>1
<1>3. ASSUME NEW i \in 1 .. Len(s) PROVE (one \o s)[i + 1] = s[i]
      <2>1. i + 1 \in 1 .. 1 + Len(s) /\ ~(i + 1 <= 1) /\ (i + 1) - 1 = i
            BY <1>1
      <2>2. QED
            BY <1>1, <2>1
<1>4. QED
      BY <1>1, <1>2, <1>3

\* What the j-th row of f is to open to.
openedDigit(rctx, r, index, x, j, i) == SAdd(SMul(delta(rctx, index, j, i), x), r.a[j + 1][i + 1])

\* With the entry that makes its sum x each row of f holds delta x + a.
LEMMA FullRowIs ==
    ASSUME NEW m \in Nat, NEW rctx, rctx.n \in Nat, rctx.n > 1, NEW r, Randoms(r, m, rctx.n),
           NEW index \in Nat, NEW x \in Scalar
    PROVE  LET f == fullF(responseF(rctx, m, r, index, x), x)
           IN /\ f = [j \in 1 .. m |-> f[j]]
              /\ \A j \in 0 .. m - 1, i \in 0 .. rctx.n - 1 :
                    f[j + 1][i + 1] = openedDigit(rctx, r, index, x, j, i) /\ f[j + 1][i + 1] \in Scalar
              /\ Len(responseF(rctx, m, r, index, x)) = m
<1> DEFINE n == rctx.n
           F == responseF(rctx, m, r, index, x)
           f == fullF(F, x)
           dx(j) == [i \in 1 .. n - 1 |-> SMul(delta(rctx, index, j - 1, i), x)]
           as(j) == [i \in 1 .. n - 1 |-> r.a[j][i + 1]]
           row(j) == [i \in 1 .. n - 1 |-> SAdd(SMul(delta(rctx, index, j - 1, i), x), r.a[j][i + 1])]
           rowT(j) == Tuple(n - 1, LAMBDA i : SAdd(SMul(delta(rctx, index, j - 1, i), x), r.a[j][i + 1]))
           rows == [j \in 1 .. m |-> rowT(j)]
<1>1. n - 1 \in Nat /\ n - 1 > 0 /\ n \in Nat \ {0}
      OBVIOUS
<1>2. \A j \in 1 .. m, i \in 1 .. n - 1 :
         /\ SMul(delta(rctx, index, j - 1, i), x) \in Scalar
         /\ r.a[j][i + 1] \in Scalar
         /\ SAdd(SMul(delta(rctx, index, j - 1, i), x), r.a[j][i + 1]) \in Scalar
      <2>1. ASSUME NEW j \in 1 .. m, NEW i \in 1 .. n - 1
            PROVE  /\ SMul(delta(rctx, index, j - 1, i), x) \in Scalar
                   /\ r.a[j][i + 1] \in Scalar
                   /\ SAdd(SMul(delta(rctx, index, j - 1, i), x), r.a[j][i + 1]) \in Scalar
            <3>1. SMul(delta(rctx, index, j - 1, i), x) \in Scalar
                  BY DeltaIs, Closed
            <3>2. i + 1 \in 1 .. n
                  OBVIOUS
            <3>3. r.a[j][i + 1] \in Scalar
                  BY <3>2 DEF Randoms, EntriesTyped
            <3>4. QED
                  BY <3>1, <3>3, Closed
      <2>2. QED
            BY <2>1
<1>3. \A j \in 1 .. m : dx(j) \in Scalars(n - 1) /\ as(j) \in Scalars(n - 1) /\ row(j) \in Scalars(n - 1)
      BY <1>2 DEF Scalars
<1>4. \A j \in 1 .. m, i \in 1 .. n - 1 :
         /\ dx(j)[i] = SMul(delta(rctx, index, j - 1, i), x) /\ as(j)[i] = r.a[j][i + 1]
         /\ row(j)[i] = SAdd(dx(j)[i], as(j)[i])
      OBVIOUS
<1>5. \A j \in 1 .. m : rowT(j) = row(j)
      <2>1. ASSUME NEW j \in 1 .. m PROVE rowT(j) = row(j)
            <3>1. rowT(j) = SubSeq(row(j), 1, n - 1)
                  BY DEF Tuple
            <3>2. row(j) = [i \in 1 .. n - 1 |-> row(j)[i]]
                  OBVIOUS
            <3> HIDE DEF row, n
            <3>3. QED
                  BY <1>1, <3>1, <3>2, TupleIs
      <2>2. QED
            BY <2>1
<1>6. F = SubSeq(rows, 1, m)
      BY DEF responseF, Tuple
<1>7. rows = [j \in 1 .. m |-> rows[j]] /\ \A j \in 1 .. m : rows[j] = rowT(j)
      OBVIOUS
<1>8. \A j \in 1 .. m : row(j) = [i \in 1 .. n - 1 |-> SAdd(dx(j)[i], as(j)[i])]
      OBVIOUS
<1> HIDE DEF dx, as, row, rowT, rows, F
<1>9. F = rows
      BY <1>6, <1>7, TupleIs
<1>10. Len(F) = m /\ \A j \in 1 .. m : F[j] = row(j) /\ Len(F[j]) = n - 1 /\ F[j] \in Scalars(n - 1)
       <2>1. \A j \in 1 .. m : F[j] = row(j)
             BY <1>5, <1>7, <1>9
       <2>2. F = [j \in 1 .. m |-> F[j]]
             BY <1>7, <1>9
       <2>3. F \in [1 .. m -> Scalars(n - 1)]
             BY <1>3, <2>1, <2>2
       <2>4. Len(F) = m
             BY <2>3
       <2>5. \A s \in Scalars(n - 1) : Len(s) = n - 1
             BY <1>1 DEF Scalars
       <2> HIDE DEF n
       <2>6. QED
             BY <1>3, <2>1, <2>4, <2>5
<1> DEFINE inner(j) == Tuple(Len(F[j]), LAMBDA i : F[j][i])
           first(j) == SAdd(SNeg(SSum(inner(j))), x)
           full == [j \in 1 .. Len(F) |-> <<first(j)>> \o F[j]]
<1>11. f = SubSeq(full, 1, Len(F))
       BY DEF fullF, Tuple
<1>12. full = [j \in 1 .. m |-> full[j]] /\ \A j \in 1 .. m : full[j] = <<first(j)>> \o F[j]
       <2> HIDE DEF first
       <2>1. QED
             BY <1>10
<1>13. \A j \in 1 .. m : inner(j) = F[j]
       <2>1. ASSUME NEW j \in 1 .. m PROVE inner(j) = F[j]
             <3> DEFINE s == F[j]
                        fn == [i \in 1 .. n - 1 |-> s[i]]
             <3>1. inner(j) = SubSeq(fn, 1, n - 1)
                   BY <1>10 DEF Tuple
             <3>2. s \in Scalars(n - 1)
                   BY <1>10
             <3> HIDE DEF s
             <3>3. s = fn
                   BY <3>2 DEF Scalars
             <3>4. s = [i \in 1 .. n - 1 |-> s[i]]
                   BY <3>3
             <3> HIDE DEF fn, n
             <3>5. SubSeq(s, 1, n - 1) = s
                   BY <1>1, <3>4, TupleIs
             <3> HIDE DEF inner
             <3>6. QED
                   BY <3>1, <3>3, <3>5 DEF s
       <2>2. QED
             BY <2>1
<1> HIDE DEF inner
<1>14. \A j \in 1 .. m : first(j) = SAdd(SNeg(SSum(row(j))), x)
       BY <1>10, <1>13
<1> HIDE DEF first, full, f
<1>15. f = full
       BY <1>10, <1>11, <1>12, TupleIs
<1>16. ASSUME NEW j \in 1 .. m PROVE first(j) = openedDigit(rctx, r, index, x, j - 1, 0) /\ first(j) \in Scalar
       <2> DEFINE sa == SSum(as(j))
                  sd == SSum(dx(j))
                  a1 == r.a[j][1]
                  dig == get_jth(j - 1, n, index)
       <2>1. sa \in Scalar /\ sd \in Scalar /\ a1 = SNeg(sa) /\ a1 \in Scalar
             <3>1. sa \in Scalar /\ sd \in Scalar
                   <4> HIDE DEF n
                   <4>1. QED
                         BY <1>1, <1>3, SumWalk
             <3>2. as(j) = [i \in 1 .. n - 1 |-> r.a[j][i + 1]]
                   BY DEF as
             <3>3. a1 = SNeg(sa)
                   BY <3>2 DEF Randoms
             <3> HIDE DEF sa, a1
             <3>4. QED
                   BY <3>1, <3>3, Closed
       <2>2. SSum(row(j)) = SAdd(sd, sa)
             <3>1. SSum([i \in 1 .. n - 1 |-> SAdd(dx(j)[i], as(j)[i])]) = SAdd(SSum(dx(j)), SSum(as(j)))
                   <4>1. dx(j) \in Scalars(n - 1) /\ as(j) \in Scalars(n - 1)
                         BY <1>3
                   <4> HIDE DEF n
                   <4>2. QED
                         BY <1>1, <4>1, SumOfSums
             <3>2. row(j) = [i \in 1 .. n - 1 |-> SAdd(dx(j)[i], as(j)[i])]
                   BY <1>8
             <3> HIDE DEF n
             <3>3. QED
                   BY <3>1, <3>2
       <2>3. dig \in 0 .. n - 1
             <3>1. j - 1 \in Nat
                   OBVIOUS
             <3> HIDE DEF n
             <3>2. QED
                   BY <1>1, <3>1, DigitTyped
       <2>4. \A i : delta(rctx, index, j - 1, i) = IF dig = i THEN 1 ELSE 0
             BY DEF delta
       <2>5. (j - 1) + 1 = j /\ 0 + 1 = 1
             OBVIOUS
       <2>6. openedDigit(rctx, r, index, x, j - 1, 0) = SAdd(SMul(delta(rctx, index, j - 1, 0), x), a1)
             BY <2>5 DEF openedDigit
       <2>7. first(j) = SAdd(SNeg(SAdd(sd, sa)), x)
             BY <1>14, <2>2
       <2> HIDE DEF sa, sd, a1, dig
       <2>8. SNeg(SAdd(sd, sa)) = SAdd(SNeg(sd), a1) /\ SNeg(sd) \in Scalar
             BY <2>1, SumLaws, Closed
       <2>9. CASE dig = 0
             <3>1. ASSUME NEW i \in 1 .. n - 1 PROVE dx(j)[i] = 0
                   <4>0. delta(rctx, index, j - 1, i) = 0
                         <5>1. dig # i
                               BY <2>9
                         <5>2. delta(rctx, index, j - 1, i) = IF dig = i THEN 1 ELSE 0
                               BY <2>4
                         <5>3. QED
                               BY <5>1, <5>2
                   <4>1. dx(j)[i] = SMul(0, x)
                         BY <1>4, <4>0
                   <4>2. QED
                         BY <4>1, WithZero
             <3>2. dx(j) = [i \in 1 .. n - 1 |-> 0]
                   BY <1>3, <3>1 DEF Scalars
             <3>3. sd = 0
                   <4> HIDE DEF n
                   <4>1. QED
                         BY <1>1, <3>2, SumOfZeros DEF sd
             <3>4. SNeg(0) = 0 /\ SAdd(0, a1) = a1 /\ SAdd(a1, x) = SAdd(x, a1) /\ SMul(1, x) = x
                   BY <2>1, ZeroAndOne, SNegIs, RingLaws
             <3>5. first(j) = SAdd(x, a1)
                   BY <2>7, <2>8, <3>3, <3>4
             <3>6. openedDigit(rctx, r, index, x, j - 1, 0) = SAdd(x, a1)
                   BY <2>4, <2>6, <2>9, <3>4
             <3>7. QED
                   BY <2>1, <3>5, <3>6, Closed
       <2>10. CASE dig # 0
             <3>1. dig \in 1 .. n - 1
                   BY <2>3, <2>10
             <3>2. ASSUME NEW i \in 1 .. n - 1, i # dig PROVE dx(j)[i] = 0
                   <4>1. dx(j)[i] = SMul(0, x)
                         BY <1>4, <2>4, <3>2
                   <4>2. QED
                         BY <4>1, WithZero
             <3>3. dx(j)[dig] = x
                   <4>1. dx(j)[dig] = SMul(1, x)
                         BY <1>4, <2>4, <3>1
                   <4>2. QED
                         BY <4>1, WithOne
             <3>4. sd = x
                   <4> HIDE DEF n
                   <4>1. QED
                         BY <1>1, <1>3, <3>1, <3>2, <3>3, SumOfOne DEF sd
             <3>5. SAdd(SAdd(SNeg(x), a1), x) = a1
                   <4>1. SAdd(SNeg(x), a1) = SAdd(a1, SNeg(x)) /\ SNeg(x) \in Scalar
                         BY <2>1, RingLaws
                   <4>2. SAdd(SAdd(a1, SNeg(x)), x) = SAdd(a1, SAdd(SNeg(x), x))
                         BY <2>1, <4>1, SAddAssociates
                   <4>3. SAdd(SNeg(x), x) = 0 /\ SAdd(a1, 0) = a1
                         BY <2>1, RingLaws
                   <4>4. QED
                         BY <4>1, <4>2, <4>3
             <3>6. first(j) = a1
                   BY <2>7, <2>8, <3>4, <3>5
             <3>7. SMul(0, x) = 0 /\ SAdd(0, a1) = a1
                   BY <2>1, WithZero
             <3>8. openedDigit(rctx, r, index, x, j - 1, 0) = a1
                   BY <2>4, <2>6, <2>10, <3>7
             <3>9. QED
                   BY <2>1, <3>6, <3>8
       <2>11. QED
             BY <2>9, <2>10
<1>17. ASSUME NEW j \in 1 .. m
       PROVE  f[j][1] = first(j) /\ \A i \in 1 .. n - 1 : f[j][i + 1] = row(j)[i]
       <2> DEFINE one == <<first(j)>>
                  s == F[j]
       <2>1. one \in Seq(Scalar) /\ Len(one) = 1 /\ one[1] = first(j)
             BY <1>16
       <2>2. s \in Seq(Scalar) /\ Len(s) = n - 1 /\ s = row(j)
             <3>1. s \in Scalars(n - 1) /\ s = row(j)
                   BY <1>10
             <3> HIDE DEF s
             <3>2. QED
                   BY <1>1, <3>1 DEF Scalars
       <2>3. f[j] = one \o s
             BY <1>12, <1>15
       <2> HIDE DEF one, s, n
       <2>4. (one \o s)[1] = one[1] /\ \A i \in 1 .. Len(s) : (one \o s)[i + 1] = s[i]
             BY <2>1, <2>2, Prefixed
       <2>5. QED
             BY <2>1, <2>2, <2>3, <2>4
<1>18. ASSUME NEW j \in 0 .. m - 1, NEW i \in 0 .. n - 1
       PROVE  f[j + 1][i + 1] = openedDigit(rctx, r, index, x, j, i) /\ f[j + 1][i + 1] \in Scalar
       <2>1. j + 1 \in 1 .. m /\ (j + 1) - 1 = j
             OBVIOUS
       <2>2. CASE i = 0
             <3>1. f[j + 1][1] = first(j + 1)
                   BY <1>17, <2>1
             <3>2. first(j + 1) = openedDigit(rctx, r, index, x, j, 0) /\ first(j + 1) \in Scalar
                   BY <1>16, <2>1
             <3>3. i + 1 = 1
                   BY <2>2
             <3>4. QED
                   BY <2>2, <3>1, <3>2, <3>3
       <2>3. CASE i # 0
             <3>1. i \in 1 .. n - 1
                   BY <2>3
             <3>2. f[j + 1][i + 1] = row(j + 1)[i]
                   BY <1>17, <2>1, <3>1
             <3>3. row(j + 1)[i] = SAdd(SMul(delta(rctx, index, j, i), x), r.a[j + 1][i + 1])
                   BY <1>4, <2>1, <3>1
             <3>4. row(j + 1)[i] \in Scalar
                   BY <1>2, <2>1, <3>1, <3>3
             <3>5. QED
                   BY <3>2, <3>3, <3>4 DEF openedDigit
       <2>4. QED
             BY <2>2, <2>3
<1>19. f = [j \in 1 .. m |-> f[j]]
       BY <1>12, <1>15
<1>20. QED
       BY <1>10, <1>18, <1>19 DEF f, F, n

-------------------------------------------------------------------------------
(* The commitments A, B, C and D, and the two equations about the digits.  *)

ContextOk(rctx) ==
    /\ rctx.n \in Nat /\ rctx.n > 1
    /\ rctx.m \in Nat
    /\ rctx.genh \in Point
    /\ \A k \in 1 .. rctx.n * rctx.m : rctx.multigen[k] \in Point

gensOf(rctx, N) == [k \in 1 .. N |-> rctx.multigen[k]]
vector(N, h, P, key, e) == GAdd(GMul(key, h), combination(N, e, P))

LEMMA GensTyped ==
    ASSUME NEW rctx, ContextOk(rctx), NEW m \in Nat, m <= rctx.m
    PROVE  m * rctx.n \in Nat /\ gensOf(rctx, m * rctx.n) \in Points(m * rctx.n)
<1> DEFINE n == rctx.n
           M == rctx.m
<1>1. n \in Nat /\ M \in Nat
      BY DEF ContextOk
<1>2. n * m \in Nat /\ n * M \in Nat /\ n * m <= n * M
      <2> HIDE DEF n, M
      <2>1. m <= M
            BY DEF M
      <2>2. QED
            BY <1>1, <2>1, ProductGrows
<1>3. m * n = n * m
      BY <1>1
<1> DEFINE N == m * n
           K == n * M
<1>4. N \in Nat /\ K \in Nat /\ N <= K /\ \A k \in 1 .. K : rctx.multigen[k] \in Point
      BY <1>2, <1>3 DEF ContextOk
<1> HIDE DEF N, K
<1>5. \A k \in 1 .. N : rctx.multigen[k] \in Point
      BY <1>4
<1>6. gensOf(rctx, N) \in Points(N)
      BY <1>5 DEF gensOf, Points
<1>7. QED
      BY <1>4, <1>6 DEF N

\* The row and the column of an entry of a table of m rows of n.
LEMMA RowAndColumn ==
    ASSUME NEW m \in Nat, NEW n \in Nat \ {0}, NEW k \in 1 .. m * n
    PROVE  (k - 1) \div n \in 0 .. m - 1 /\ (k - 1) % n \in 0 .. n - 1
<1>1. m * n \in Nat /\ n * m = m * n
      OBVIOUS
<1>2. k - 1 \in Nat /\ k - 1 < m * n
      BY <1>1
<1> DEFINE q == (k - 1) \div n
<1>3. q \in Nat /\ n * q <= k - 1
      BY <1>2, QuotientIs
<1> HIDE DEF q
<1>4. ~(m <= q)
      <2>1. ASSUME m <= q PROVE FALSE
            <3>1. n * m <= n * q /\ n * m \in Nat /\ n * q \in Nat
                  BY <1>3, <2>1, ProductGrows
            <3> DEFINE v == n * m
                       w == n * q
            <3>2. v <= w /\ w <= k - 1 /\ k - 1 < v /\ v \in Nat /\ w \in Nat
                  BY <1>1, <1>2, <1>3, <3>1
            <3> HIDE DEF v, w
            <3>3. QED
                  BY <1>2, <3>2
      <2>2. QED
            BY <2>1
<1>5. (k - 1) % n \in 0 .. n - 1
      BY <1>2
<1>6. QED
      BY <1>3, <1>4, <1>5 DEF q

LEMMA VectorIs ==
    ASSUME NEW N \in Nat, NEW P \in Points(N), NEW h \in Point, NEW key \in Scalar, NEW e \in Scalars(N)
    PROVE  /\ vector(N, h, P, key, e) \in Point
           /\ \A k \in 1 .. Dim : vector(N, h, P, key, e)[k] = SAdd(SMul(key, h[k]), dot(N, e, part(N, P, k)))
<1> DEFINE Q == combination(N, e, P)
           T == GMul(key, h)
<1>1. Q \in Point /\ \A k \in 1 .. Dim : Q[k] = dot(N, e, part(N, P, k))
      BY CombinationIs
<1>2. T \in Point /\ T = [k \in 1 .. Dim |-> SMul(key, h[k])]
      BY GMulIs
<1>3. vector(N, h, P, key, e) = GAdd(T, Q)
      BY DEF vector
<1> HIDE DEF Q, T
<1>4. GAdd(T, Q) \in Point /\ GAdd(T, Q) = [k \in 1 .. Dim |-> SAdd(T[k], Q[k])]
      BY <1>1, <1>2, GAddIs
<1>5. ASSUME NEW k \in 1 .. Dim
      PROVE  vector(N, h, P, key, e)[k] = SAdd(SMul(key, h[k]), dot(N, e, part(N, P, k)))
      <2>1. GAdd(T, Q)[k] = SAdd(T[k], Q[k])
            BY <1>4
      <2>2. T[k] = SMul(key, h[k])
            BY <1>2
      <2>3. QED
            BY <1>1, <1>3, <2>1, <2>2
<1>6. QED
      BY <1>3, <1>4, <1>5

\* Commitments to u and to v make one to x u + v.
LEMMA VectorsOpen ==
    ASSUME NEW N \in Nat, NEW P \in Points(N), NEW h \in Point,
           NEW u \in Scalars(N), NEW v \in Scalars(N), NEW w \in Scalars(N),
           NEW x \in Scalar, NEW kb \in Scalar, NEW ka \in Scalar,
           Mixes(N, w, x, u, v)
    PROVE  GAdd(GMul(x, vector(N, h, P, kb, u)), vector(N, h, P, ka, v))
             = vector(N, h, P, SAdd(SMul(x, kb), ka), w)
<1> DEFINE U == vector(N, h, P, kb, u)
           V == vector(N, h, P, ka, v)
           key == SAdd(SMul(x, kb), ka)
           W == vector(N, h, P, key, w)
<1>1. key \in Scalar
      BY Closed
<1>2. U \in Point /\ V \in Point /\ W \in Point
      BY <1>1, VectorIs
<1>3. GMul(x, U) \in Point /\ GMul(x, U) = [k \in 1 .. Dim |-> SMul(x, U[k])]
      <2> HIDE DEF U
      <2>1. QED
            BY <1>2, GMulIs
<1>4. GAdd(GMul(x, U), V) \in Point /\ GAdd(GMul(x, U), V) = [k \in 1 .. Dim |-> SAdd(GMul(x, U)[k], V[k])]
      <2> DEFINE T == GMul(x, U)
      <2> HIDE DEF T, U, V
      <2>1. QED
            BY <1>2, <1>3, GAddIs DEF T
<1>5. ASSUME NEW k \in 1 .. Dim PROVE GAdd(GMul(x, U), V)[k] = W[k]
      <2> DEFINE p == part(N, P, k)
      <2>1. p \in Scalars(N)
            BY CombinationIs
      <2>2. h[k] \in Scalar
            BY DEF Point
      <2>3. /\ U[k] = SAdd(SMul(kb, h[k]), dot(N, u, p))
            /\ V[k] = SAdd(SMul(ka, h[k]), dot(N, v, p))
            /\ W[k] = SAdd(SMul(key, h[k]), dot(N, w, p))
            BY <1>1, VectorIs
      <2> HIDE DEF p
      <2>4. GAdd(GMul(x, U), V)[k] = SAdd(SMul(x, U[k]), V[k])
            <3> HIDE DEF U, V
            <3>1. QED
                  BY <1>3, <1>4
      <2> HIDE DEF U, V, W
      <2>5. SAdd(SMul(x, U[k]), V[k]) = W[k]
            <3> DEFINE hk == h[k]
            <3>1. SAdd(SMul(x, SAdd(SMul(kb, hk), dot(N, u, p))), SAdd(SMul(ka, hk), dot(N, v, p)))
                    = SAdd(SMul(SAdd(SMul(x, kb), ka), hk), dot(N, w, p))
                  <4>1. hk \in Scalar
                        BY <2>2
                  <4> HIDE DEF hk
                  <4>2. QED
                        BY <2>1, <4>1, OpensLinearly
            <3>2. QED
                  BY <2>3, <3>1
      <2>6. QED
            BY <2>4, <2>5
<1> DEFINE L == GAdd(GMul(x, U), V)
<1>6. L \in Point /\ \A k \in 1 .. Dim : L[k] = W[k]
      BY <1>4, <1>5
<1> HIDE DEF L, W
<1>7. L = W
      BY <1>2, <1>6, SamePoint
<1>8. QED
      BY <1>7 DEF L, W, U, V, key

\* The entries of the tables that the four commitments are to.
rowOf(k, n) == (k - 1) \div n
columnOf(k, n) == (k - 1) % n
tableB(rctx, N, index) == [k \in 1 .. N |-> delta(rctx, index, rowOf(k, rctx.n), columnOf(k, rctx.n))]
tableA(rctx, N, r) == [k \in 1 .. N |-> r.a[rowOf(k, rctx.n) + 1][columnOf(k, rctx.n) + 1]]
tableC(rctx, N, r, index) ==
    [k \in 1 .. N |-> SMul(tableA(rctx, N, r)[k], SAdd(1, SNeg(2 * tableB(rctx, N, index)[k])))]
tableD(rctx, N, r) == [k \in 1 .. N |-> SNeg(SMul(tableA(rctx, N, r)[k], tableA(rctx, N, r)[k]))]
tableF(rctx, N, f) == [k \in 1 .. N |-> f[rowOf(k, rctx.n) + 1][columnOf(k, rctx.n) + 1]]
tableG(rctx, N, f, x) ==
    [k \in 1 .. N |-> SMul(tableF(rctx, N, f)[k], SAdd(x, SNeg(tableF(rctx, N, f)[k])))]

\* What a combination looks like before its tuple is one.
LEMMA CombinesAs ==
    ASSUME NEW N \in Nat, NEW e, NEW P, NEW f, f = [k \in 1 .. N |-> GMul(e[k], P[k])]
    PROVE  GSum(SubSeq(f, 1, N)) = combination(N, e, P)
<1>1. f = [k \in 1 .. N |-> f[k]]
      OBVIOUS
<1>2. SubSeq(f, 1, N) = f
      BY <1>1, TupleIs
<1>3. QED
      BY <1>2 DEF combination

LEMMA CommitmentsAre ==
    ASSUME NEW rctx, ContextOk(rctx), NEW m \in Nat, m <= rctx.m, NEW r, NEW index
    PROVE  LET N == m * rctx.n
               P == gensOf(rctx, N)
           IN /\ comA(rctx, m, r) = vector(N, rctx.genh, P, r.rA, tableA(rctx, N, r))
              /\ comB(rctx, m, r, index) = vector(N, rctx.genh, P, r.rB, tableB(rctx, N, index))
              /\ comC(rctx, m, r, index) = vector(N, rctx.genh, P, r.rC, tableC(rctx, N, r, index))
              /\ comD(rctx, m, r) = vector(N, rctx.genh, P, r.rD, tableD(rctx, N, r))
<1> DEFINE n == rctx.n
           N == m * n
           P == gensOf(rctx, N)
           fA == [k \in 1 .. N |-> GMul(r.a[((k - 1) \div n) + 1][((k - 1) % n) + 1], rctx.multigen[k])]
           fB == [k \in 1 .. N |-> GMul(delta(rctx, index, (k - 1) \div n, (k - 1) % n), rctx.multigen[k])]
           fC == [k \in 1 .. N |-> GMul(SMul(r.a[((k - 1) \div n) + 1][((k - 1) % n) + 1],
                                          SAdd(1, SNeg(2 * delta(rctx, index, (k - 1) \div n, (k - 1) % n)))),
                                     rctx.multigen[k])]
           fD == [k \in 1 .. N |-> GMul(SNeg(SMul(r.a[((k - 1) \div n) + 1][((k - 1) % n) + 1],
                                               r.a[((k - 1) \div n) + 1][((k - 1) % n) + 1])), rctx.multigen[k])]
<1>1. N \in Nat
      BY GensTyped
<1>2. /\ comA(rctx, m, r) = GAdd(GMul(r.rA, rctx.genh), GSum(SubSeq(fA, 1, N)))
      /\ comB(rctx, m, r, index) = GAdd(GMul(r.rB, rctx.genh), GSum(SubSeq(fB, 1, N)))
      /\ comC(rctx, m, r, index) = GAdd(GMul(r.rC, rctx.genh), GSum(SubSeq(fC, 1, N)))
      /\ comD(rctx, m, r) = GAdd(GMul(r.rD, rctx.genh), GSum(SubSeq(fD, 1, N)))
      <2>1. comA(rctx, m, r) = GAdd(GMul(r.rA, rctx.genh), GSum(SubSeq(fA, 1, N)))
            BY DEF comA, vectorCom, Tuple
      <2>2. comB(rctx, m, r, index) = GAdd(GMul(r.rB, rctx.genh), GSum(SubSeq(fB, 1, N)))
            BY DEF comB, vectorCom, Tuple
      <2>3. comC(rctx, m, r, index) = GAdd(GMul(r.rC, rctx.genh), GSum(SubSeq(fC, 1, N)))
            BY DEF comC, vectorCom, Tuple
      <2>4. comD(rctx, m, r) = GAdd(GMul(r.rD, rctx.genh), GSum(SubSeq(fD, 1, N)))
            BY DEF comD, vectorCom, Tuple
      <2>5. QED
            BY <2>1, <2>2, <2>3, <2>4
<1>3. \A k \in 1 .. N :
         /\ P[k] = rctx.multigen[k]
         /\ tableA(rctx, N, r)[k] = r.a[((k - 1) \div n) + 1][((k - 1) % n) + 1]
         /\ tableB(rctx, N, index)[k] = delta(rctx, index, (k - 1) \div n, (k - 1) % n)
      BY DEF gensOf, tableA, tableB, rowOf, columnOf
<1>4. \A k \in 1 .. N :
         /\ tableC(rctx, N, r, index)[k] =
               SMul(tableA(rctx, N, r)[k], SAdd(1, SNeg(2 * tableB(rctx, N, index)[k])))
         /\ tableD(rctx, N, r)[k] = SNeg(SMul(tableA(rctx, N, r)[k], tableA(rctx, N, r)[k]))
      BY DEF tableC, tableD
<1> HIDE DEF N, P
<1>5. fA = [k \in 1 .. N |-> GMul(tableA(rctx, N, r)[k], P[k])]
      BY <1>3
<1>6. fB = [k \in 1 .. N |-> GMul(tableB(rctx, N, index)[k], P[k])]
      BY <1>3
<1>7. fC = [k \in 1 .. N |-> GMul(tableC(rctx, N, r, index)[k], P[k])]
      BY <1>3, <1>4
<1>8. fD = [k \in 1 .. N |-> GMul(tableD(rctx, N, r)[k], P[k])]
      BY <1>3, <1>4
<1> HIDE DEF fA, fB, fC, fD
<1>9. /\ GSum(SubSeq(fA, 1, N)) = combination(N, tableA(rctx, N, r), P)
      /\ GSum(SubSeq(fB, 1, N)) = combination(N, tableB(rctx, N, index), P)
      /\ GSum(SubSeq(fC, 1, N)) = combination(N, tableC(rctx, N, r, index), P)
      /\ GSum(SubSeq(fD, 1, N)) = combination(N, tableD(rctx, N, r), P)
      BY <1>1, <1>5, <1>6, <1>7, <1>8, CombinesAs
<1>10. QED
       BY <1>2, <1>9 DEF vector, N, P, n

\* The vectors that the verifier forms of f.
checkedF(rctx, m, z, f) == vectorCom(rctx, m, z, LAMBDA j, i : f[j + 1][i + 1])
checkedG(rctx, m, z, f, x) ==
    vectorCom(rctx, m, z, LAMBDA j, i : SMul(f[j + 1][i + 1], SAdd(x, SNeg(f[j + 1][i + 1]))))

LEMMA CheckedVectorsAre ==
    ASSUME NEW rctx, ContextOk(rctx), NEW m \in Nat, m <= rctx.m, NEW f, NEW x, NEW zA, NEW zC
    PROVE  LET N == m * rctx.n
               P == gensOf(rctx, N)
           IN /\ checkedF(rctx, m, zA, f)
                    = vector(N, rctx.genh, P, zA, tableF(rctx, N, f))
              /\ checkedG(rctx, m, zC, f, x)
                    = vector(N, rctx.genh, P, zC, tableG(rctx, N, f, x))
<1> DEFINE n == rctx.n
           N == m * n
           P == gensOf(rctx, N)
           fF == [k \in 1 .. N |-> GMul(f[((k - 1) \div n) + 1][((k - 1) % n) + 1], rctx.multigen[k])]
           fG == [k \in 1 .. N |-> GMul(SMul(f[((k - 1) \div n) + 1][((k - 1) % n) + 1],
                                          SAdd(x, SNeg(f[((k - 1) \div n) + 1][((k - 1) % n) + 1]))),
                                     rctx.multigen[k])]
<1>1. N \in Nat
      BY GensTyped
<1>2. checkedF(rctx, m, zA, f)
         = GAdd(GMul(zA, rctx.genh), GSum(SubSeq(fF, 1, N)))
      BY DEF checkedF, vectorCom, Tuple
<1>3. checkedG(rctx, m, zC, f, x)
         = GAdd(GMul(zC, rctx.genh), GSum(SubSeq(fG, 1, N)))
      BY DEF checkedG, vectorCom, Tuple
<1>4. \A k \in 1 .. N :
         /\ P[k] = rctx.multigen[k]
         /\ tableF(rctx, N, f)[k] = f[((k - 1) \div n) + 1][((k - 1) % n) + 1]
      BY DEF gensOf, tableF, rowOf, columnOf
<1>5. \A k \in 1 .. N :
         tableG(rctx, N, f, x)[k] = SMul(tableF(rctx, N, f)[k], SAdd(x, SNeg(tableF(rctx, N, f)[k])))
      BY DEF tableG
<1> HIDE DEF N, P
<1>6. fF = [k \in 1 .. N |-> GMul(tableF(rctx, N, f)[k], P[k])]
      BY <1>4
<1>7. fG = [k \in 1 .. N |-> GMul(tableG(rctx, N, f, x)[k], P[k])]
      BY <1>4, <1>5
<1> HIDE DEF fF, fG
<1>8. /\ GSum(SubSeq(fF, 1, N)) = combination(N, tableF(rctx, N, f), P)
      /\ GSum(SubSeq(fG, 1, N)) = combination(N, tableG(rctx, N, f, x), P)
      BY <1>1, <1>6, <1>7, CombinesAs
<1>9. QED
      BY <1>2, <1>3, <1>8 DEF vector, N, P, n

\* A digit that is 0 or 1: C and D make up for f (x - f).
LEMMA BitBalances ==
    ASSUME NEW d \in {0, 1}, NEW a \in Scalar, NEW x \in Scalar, NEW f, f = SAdd(SMul(d, x), a)
    PROVE  /\ SMul(a, SAdd(1, SNeg(2 * d))) \in Scalar
           /\ SMul(f, SAdd(x, SNeg(f))) = SAdd(SMul(x, SMul(a, SAdd(1, SNeg(2 * d)))), SNeg(SMul(a, a)))
<1>1. CASE d = 0
      <2>1. 2 * d = 0 /\ SNeg(0) = 0 /\ SAdd(1, 0) = 1
            BY <1>1, ZeroAndOne, SNegIs, WithZero
      <2>2. SMul(a, SAdd(1, SNeg(2 * d))) = a
            BY <2>1, WithOne
      <2>3. f = a
            BY <1>1, WithZero
      <2>4. SMul(a, SAdd(x, SNeg(a))) = SAdd(SMul(a, x), SMul(a, SNeg(a)))
            BY Closed, SMulDistributes
      <2>5. SMul(a, x) = SMul(x, a) /\ SMul(a, SNeg(a)) = SNeg(SMul(a, a))
            BY RingLaws
      <2>6. QED
            BY <2>2, <2>3, <2>4, <2>5
<1>2. CASE d = 1
      <2>1. 2 * d = 2 /\ SAdd(1, SNeg(2)) = SNeg(1)
            <3>1. Order \in Nat /\ Order > 2 /\ 2 \in Scalar /\ 1 \in Scalar
                  BY GroupAssumption DEF Scalar
            <3>2. SNeg(2) = Order - 2 /\ SNeg(1) = Order - 1
                  BY <3>1, SNegIs
            <3>3. Order - 2 \in Scalar /\ Order - 1 \in Scalar /\ Order - 1 = 1 + (Order - 2)
                  BY <3>1 DEF Scalar
            <3>4. (Order - 1) % Order = Order - 1
                  BY <3>3, ScalarOfScalar
            <3>5. SAdd(1, Order - 2) = Order - 1
                  BY <3>3, <3>4 DEF SAdd
            <3>6. QED
                  BY <1>2, <3>2, <3>5
      <2>2. SMul(a, SNeg(1)) = SNeg(a)
            BY ZeroAndOne, RingLaws
      <2>3. SMul(a, SAdd(1, SNeg(2 * d))) = SNeg(a) /\ SNeg(a) \in Scalar
            BY <2>1, <2>2, Closed
      <2>4. f = SAdd(x, a) /\ f \in Scalar
            BY <1>2, WithOne, Closed
      <2>5. SAdd(x, SNeg(f)) = SNeg(a)
            <3>1. SNeg(f) = SAdd(SNeg(x), SNeg(a)) /\ SNeg(x) \in Scalar
                  BY <2>4, RingLaws
            <3>2. SAdd(x, SAdd(SNeg(x), SNeg(a))) = SAdd(SAdd(x, SNeg(x)), SNeg(a))
                  BY <2>3, <3>1, SAddAssociates
            <3>3. SAdd(x, SNeg(x)) = 0 /\ SAdd(0, SNeg(a)) = SNeg(a)
                  BY <2>3, RingLaws
            <3>4. QED
                  BY <3>1, <3>2, <3>3
      <2>6. SMul(f, SNeg(a)) = SAdd(SMul(x, SNeg(a)), SMul(a, SNeg(a)))
            BY <2>3, <2>4, MulSum
      <2>7. SMul(a, SNeg(a)) = SNeg(SMul(a, a))
            BY RingLaws
      <2>8. QED
            BY <2>3, <2>5, <2>6, <2>7
<1>3. QED
      BY <1>1, <1>2

\* The rows of f are opened rows.
RowsOpen(f, rctx, m, r, index, x) ==
    \A j \in 0 .. m - 1, i \in 0 .. rctx.n - 1 :
       f[j + 1][i + 1] = openedDigit(rctx, r, index, x, j, i) /\ f[j + 1][i + 1] \in Scalar

LEMMA TablesMix ==
    ASSUME NEW rctx, ContextOk(rctx), NEW m \in Nat, m <= rctx.m, NEW r, Randoms(r, m, rctx.n), NEW index \in Nat,
           NEW x \in Scalar, NEW f, RowsOpen(f, rctx, m, r, index, x)
    PROVE  LET N == m * rctx.n
               A == tableA(rctx, N, r)
               B == tableB(rctx, N, index)
               C == tableC(rctx, N, r, index)
               D == tableD(rctx, N, r)
               F == tableF(rctx, N, f)
               K == tableG(rctx, N, f, x)
           IN /\ A \in Scalars(N) /\ B \in Scalars(N) /\ C \in Scalars(N) /\ D \in Scalars(N)
              /\ F \in Scalars(N) /\ K \in Scalars(N)
              /\ Mixes(N, F, x, B, A) /\ Mixes(N, K, x, C, D)
<1> DEFINE n == rctx.n
           N == m * n
           A == tableA(rctx, N, r)
           B == tableB(rctx, N, index)
           C == tableC(rctx, N, r, index)
           D == tableD(rctx, N, r)
           F == tableF(rctx, N, f)
           K == tableG(rctx, N, f, x)
<1>1. n \in Nat \ {0} /\ N \in Nat
      BY GensTyped DEF ContextOk
<1>2. ASSUME NEW k \in 1 .. N
      PROVE  /\ A[k] \in Scalar /\ B[k] \in {0, 1} /\ F[k] \in Scalar /\ F[k] = SAdd(SMul(B[k], x), A[k])
             /\ C[k] = SMul(A[k], SAdd(1, SNeg(2 * B[k]))) /\ D[k] = SNeg(SMul(A[k], A[k]))
             /\ K[k] = SMul(F[k], SAdd(x, SNeg(F[k])))
      <2> DEFINE j == rowOf(k, n)
                 i == columnOf(k, n)
      <2>1. j \in 0 .. m - 1 /\ i \in 0 .. n - 1
            <3>1. (k - 1) \div n \in 0 .. m - 1 /\ (k - 1) % n \in 0 .. n - 1
                  <4> HIDE DEF n
                  <4>1. QED
                        BY <1>1, RowAndColumn
            <3>2. QED
                  BY <3>1 DEF rowOf, columnOf
      <2>2. A[k] = r.a[j + 1][i + 1] /\ B[k] = delta(rctx, index, j, i) /\ F[k] = f[j + 1][i + 1]
            BY DEF tableA, tableB, tableF
      <2>3. C[k] = SMul(A[k], SAdd(1, SNeg(2 * B[k]))) /\ D[k] = SNeg(SMul(A[k], A[k]))
            BY DEF tableC, tableD
      <2>4. K[k] = SMul(F[k], SAdd(x, SNeg(F[k])))
            BY DEF tableG
      <2> HIDE DEF A, B, C, D, F, K, i, j
      <2>5. F[k] = SAdd(SMul(B[k], x), A[k]) /\ F[k] \in Scalar
            BY <2>1, <2>2 DEF RowsOpen, openedDigit
      <2>6. j + 1 \in 1 .. m /\ i + 1 \in 1 .. n
            BY <1>1, <2>1
      <2>7. A[k] \in Scalar
            BY <2>2, <2>6 DEF Randoms, EntriesTyped
      <2>8. B[k] \in {0, 1}
            BY <2>2, DeltaIs
      <2>9. QED
            BY <2>3, <2>4, <2>5, <2>7, <2>8
<1>3. /\ A = [k \in 1 .. N |-> A[k]] /\ B = [k \in 1 .. N |-> B[k]] /\ C = [k \in 1 .. N |-> C[k]]
      /\ D = [k \in 1 .. N |-> D[k]] /\ F = [k \in 1 .. N |-> F[k]] /\ K = [k \in 1 .. N |-> K[k]]
      BY DEF tableA, tableB, tableC, tableD, tableF, tableG
<1> HIDE DEF A, B, C, D, F, K, N
<1>4. ASSUME NEW k \in 1 .. N
      PROVE  /\ B[k] \in Scalar /\ C[k] \in Scalar /\ D[k] \in Scalar /\ K[k] \in Scalar
             /\ F[k] = SAdd(SMul(x, B[k]), A[k]) /\ K[k] = SAdd(SMul(x, C[k]), D[k])
      <2> DEFINE a == A[k]
                 d == B[k]
                 g == F[k]
      <2>1. a \in Scalar /\ d \in {0, 1} /\ d \in Scalar /\ g \in Scalar /\ g = SAdd(SMul(d, x), a)
            BY <1>2, ZeroAndOne
      <2>2. C[k] = SMul(a, SAdd(1, SNeg(2 * d))) /\ D[k] = SNeg(SMul(a, a)) /\ K[k] = SMul(g, SAdd(x, SNeg(g)))
            BY <1>2
      <2> HIDE DEF a, d, g
      <2>3. C[k] \in Scalar /\ K[k] = SAdd(SMul(x, C[k]), D[k])
            BY <2>1, <2>2, BitBalances
      <2>4. D[k] \in Scalar /\ SMul(x, C[k]) \in Scalar
            BY <2>1, <2>2, <2>3, Closed
      <2>5. K[k] \in Scalar
            BY <2>3, <2>4, Closed
      <2>6. SMul(d, x) = SMul(x, d)
            BY <2>1, SMulCommutes
      <2>7. g = SAdd(SMul(x, d), a)
            BY <2>1, <2>6
      <2>8. QED
            BY <2>1, <2>3, <2>4, <2>5, <2>7 DEF a, d, g
<1>5. A \in Scalars(N) /\ B \in Scalars(N) /\ C \in Scalars(N)
      BY <1>2, <1>3, <1>4 DEF Scalars
<1>6. D \in Scalars(N) /\ F \in Scalars(N) /\ K \in Scalars(N)
      BY <1>2, <1>3, <1>4 DEF Scalars
<1>7. Mixes(N, F, x, B, A) /\ Mixes(N, K, x, C, D)
      BY <1>4 DEF Mixes
<1>8. QED
      BY <1>5, <1>6, <1>7 DEF A, B, C, D, F, K, N

\* The digits of an honest proof pass for bits.
LEMMA BitsPass ==
    ASSUME NEW rctx, ContextOk(rctx), NEW m \in Nat, m <= rctx.m, NEW r, Randoms(r, m, rctx.n), NEW index \in Nat,
           NEW x \in Scalar, NEW f, RowsOpen(f, rctx, m, r, index, x), NEW proof,
           proof.coms[1] = ge_save_boquila(comA(rctx, m, r)),
           proof.coms[2] = ge_save_boquila(comB(rctx, m, r, index)),
           proof.coms[3] = ge_save_boquila(comC(rctx, m, r, index)),
           proof.coms[4] = ge_save_boquila(comD(rctx, m, r)),
           proof.zA = SAdd(SMul(x, r.rB), r.rA), proof.zC = SAdd(SMul(x, r.rC), r.rD)
    PROVE  bitEquations(rctx, m, proof, f, x)
<1> DEFINE N == m * rctx.n
           h == rctx.genh
           P == gensOf(rctx, N)
           A == tableA(rctx, N, r)
           B == tableB(rctx, N, index)
           C == tableC(rctx, N, r, index)
           D == tableD(rctx, N, r)
           F == tableF(rctx, N, f)
           K == tableG(rctx, N, f, x)
           cA == comA(rctx, m, r)
           cB == comB(rctx, m, r, index)
           cC == comC(rctx, m, r, index)
           cD == comD(rctx, m, r)
<1>1. N \in Nat /\ P \in Points(N) /\ h \in Point
      BY GensTyped DEF ContextOk
<1>2. r.rA \in Scalar /\ r.rB \in Scalar /\ r.rC \in Scalar /\ r.rD \in Scalar
      BY DEF Randoms
<1>3. /\ A \in Scalars(N) /\ B \in Scalars(N) /\ C \in Scalars(N) /\ D \in Scalars(N)
      /\ F \in Scalars(N) /\ K \in Scalars(N)
      /\ Mixes(N, F, x, B, A) /\ Mixes(N, K, x, C, D)
      BY TablesMix
<1>4. /\ cA = vector(N, h, P, r.rA, A) /\ cB = vector(N, h, P, r.rB, B)
      /\ cC = vector(N, h, P, r.rC, C) /\ cD = vector(N, h, P, r.rD, D)
      BY CommitmentsAre
<1> DEFINE zA == proof.zA
           zC == proof.zC
<1> HIDE DEF zA, zC
<1>5. checkedF(rctx, m, zA, f) = vector(N, h, P, zA, F) /\ checkedG(rctx, m, zC, f, x) = vector(N, h, P, zC, K)
      BY CheckedVectorsAre
<1>6. zA = proof.zA /\ zC = proof.zC
      BY DEF zA, zC
<1> HIDE DEF N, h, P, A, B, C, D, F, K
<1>7. cA \in Point /\ cB \in Point /\ cC \in Point /\ cD \in Point
      <2> HIDE DEF cA, cB, cC, cD
      <2>1. QED
            BY <1>1, <1>2, <1>3, <1>4, VectorIs
<1>8. /\ ge_load_boquila(proof.coms[1]) = cA /\ ge_load_boquila(proof.coms[2]) = cB
      /\ ge_load_boquila(proof.coms[3]) = cC /\ ge_load_boquila(proof.coms[4]) = cD
      <2>1. /\ proof.coms[1] = ge_save_boquila(cA) /\ proof.coms[2] = ge_save_boquila(cB)
            /\ proof.coms[3] = ge_save_boquila(cC) /\ proof.coms[4] = ge_save_boquila(cD)
            OBVIOUS
      <2> HIDE DEF cA, cB, cC, cD
      <2>2. QED
            BY <1>7, <2>1, ReadsBack
<1> HIDE DEF cA, cB, cC, cD
<1>9. GAdd(GMul(x, vector(N, h, P, r.rB, B)), vector(N, h, P, r.rA, A)) = vector(N, h, P, SAdd(SMul(x, r.rB), r.rA), F)
      BY <1>1, <1>2, <1>3, VectorsOpen
<1>10. GAdd(GMul(x, vector(N, h, P, r.rC, C)), vector(N, h, P, r.rD, D)) = vector(N, h, P, SAdd(SMul(x, r.rC), r.rD), K)
       BY <1>1, <1>2, <1>3, VectorsOpen
<1>11. GAdd(GMul(x, ge_load_boquila(proof.coms[2])), ge_load_boquila(proof.coms[1]))
             = checkedF(rctx, m, proof.zA, f)
       BY <1>4, <1>5, <1>6, <1>8, <1>9
<1>12. GAdd(GMul(x, ge_load_boquila(proof.coms[3])), ge_load_boquila(proof.coms[4]))
             = checkedG(rctx, m, proof.zC, f, x)
       BY <1>4, <1>5, <1>6, <1>8, <1>10
<1>13. QED
       BY <1>11, <1>12 DEF bitEquations, checkedF, checkedG

-------------------------------------------------------------------------------
(* The ring equation.                                                      *)

published(N, C) == [t \in 1 .. N |-> ge_save_boquila(C[t])]
powersOf(x, m) == [k \in 1 .. m + 1 |-> SPow(x, k - 1)]
polynomialsOf(rctx, m, r, index, N) == [t \in 1 .. N |-> polynomial(rctx, m, r, index, t - 1)]
qEntry(m, r, bases, B, C, N, polys, j) ==
    GAdd(combination(B, blindings(B, r.rho, j), bases), combination(N, coefficients(N, polys, j), C))

Committing(m, r, B, bases, N, C, polys) ==
    /\ m \in Nat /\ r.rho \in Scalars(m) /\ B \in Nat /\ bases \in Points(B)
    /\ N \in Nat /\ C \in Points(N) /\ polys \in [1 .. N -> Scalars(m + 1)]

LEMMA QIs ==
    ASSUME NEW rctx, NEW m, NEW r, NEW B, NEW bases, NEW N, NEW C, NEW polys,
           Committing(m, r, B, bases, N, C, polys)
    PROVE
  /\ comQ(rctx, m, r, bases, C, polys) \in Points(m)
           /\ \A j \in 1 .. m : /\ comQ(rctx, m, r, bases, C, polys)[j] = qEntry(m, r, bases, B, C, N, polys, j)
                                /\ blindings(B, r.rho, j) \in Scalars(B)
                                /\ coefficients(N, polys, j) \in Scalars(N)
<1> USE DEF Committing
<1> DEFINE fb(j) == [b \in 1 .. B |-> GMul(r.rho[j], bases[b])]
           fc(j) == [t \in 1 .. N |-> GMul(polys[t][j], C[t])]
           eb(j) == blindings(B, r.rho, j)
           ec(j) == coefficients(N, polys, j)
           Q == [j \in 1 .. m |-> GAdd(GSum(SubSeq(fb(j), 1, B)), GSum(SubSeq(fc(j), 1, N)))]
<1>1. Len(bases) = B /\ Len(C) = N
      BY LengthIs
<1>2. comQ(rctx, m, r, bases, C, polys) = SubSeq(Q, 1, m)
      BY <1>1 DEF comQ, Tuple
<1>3. Q = [j \in 1 .. m |-> Q[j]] /\ \A j \in 1 .. m : Q[j] = GAdd(GSum(SubSeq(fb(j), 1, B)), GSum(SubSeq(fc(j), 1, N)))
      OBVIOUS
<1>4. \A j \in 1 .. m : fb(j) = [b \in 1 .. B |-> GMul(eb(j)[b], bases[b])]
      BY DEF blindings
<1>5. \A j \in 1 .. m : fc(j) = [t \in 1 .. N |-> GMul(ec(j)[t], C[t])]
      BY DEF coefficients
<1>6. \A j \in 1 .. m : eb(j) \in Scalars(B) /\ ec(j) \in Scalars(N)
      <2>1. ASSUME NEW j \in 1 .. m PROVE eb(j) \in Scalars(B) /\ ec(j) \in Scalars(N)
            <3>1. r.rho[j] \in Scalar /\ j \in 1 .. m + 1
                  BY DEF Scalars
            <3>2. \A t \in 1 .. N : polys[t][j] \in Scalar
                  BY <3>1 DEF Scalars
            <3>3. QED
                  BY <3>1, <3>2 DEF Scalars, blindings, coefficients
      <2>2. QED
            BY <2>1
<1>7. \A j \in 1 .. m : qEntry(m, r, bases, B, C, N, polys, j) = GAdd(combination(B, eb(j), bases), combination(N, ec(j), C))
      BY DEF qEntry
<1> HIDE DEF Q, fb, fc, eb, ec
<1>8. SubSeq(Q, 1, m) = Q
      BY <1>3, TupleIs
<1>9. \A j \in 1 .. m : /\ GSum(SubSeq(fb(j), 1, B)) = combination(B, eb(j), bases)
                        /\ GSum(SubSeq(fc(j), 1, N)) = combination(N, ec(j), C)
      BY <1>4, <1>5, CombinesAs
<1>10. ASSUME NEW j \in 1 .. m PROVE Q[j] = qEntry(m, r, bases, B, C, N, polys, j) /\ Q[j] \in Point
       <2>1. Q[j] = GAdd(combination(B, eb(j), bases), combination(N, ec(j), C))
             BY <1>3, <1>9
       <2>2. combination(B, eb(j), bases) \in Point /\ combination(N, ec(j), C) \in Point
             BY <1>6, CombinationIs
       <2>3. Q[j] \in Point
             BY <2>1, <2>2, GAddIs
       <2>4. QED
             BY <1>7, <2>1, <2>3
<1>11. Q \in Points(m)
       BY <1>3, <1>10 DEF Points
<1>12. QED
       BY <1>2, <1>6, <1>8, <1>10, <1>11 DEF eb, ec

LEMMA PowersTyped ==
    ASSUME NEW x \in Scalar, NEW m \in Nat
    PROVE  powersOf(x, m) \in Scalars(m + 1) /\ negated(m, powersOf(x, m)) \in Scalars(m)
<1> DEFINE X == powersOf(x, m)
<1>1. \A k \in 1 .. m + 1 : X[k] \in Scalar
      <2>1. ASSUME NEW k \in 1 .. m + 1 PROVE SPow(x, k - 1) \in Scalar
            <3>1. k - 1 \in Nat
                  OBVIOUS
            <3>2. QED
                  BY <3>1, PowersAre
      <2>2. QED
            BY <2>1 DEF powersOf
<1>2. X \in Scalars(m + 1)
      BY <1>1 DEF powersOf, Scalars
<1> HIDE DEF X
<1>3. \A j \in 1 .. m : SNeg(X[j]) \in Scalar
      BY <1>1, Closed
<1>4. negated(m, X) \in Scalars(m)
      BY <1>3 DEF negated, Scalars
<1>5. QED
      BY <1>2, <1>4 DEF X

\* The products of f that the verifier forms are the values of the polynomials.
product(rctx, m, f, t) == SProd(Tuple(m, LAMBDA j : f[j][get_jth(j - 1, rctx.n, t - 1) + 1]))

LEMMA ProductsAre ==
    ASSUME NEW rctx, rctx.n \in Nat \ {0}, NEW m \in Nat, NEW r, Randoms(r, m, rctx.n), NEW index \in Nat,
           index < capacity(rctx.n, m), NEW x \in Scalar, NEW f, RowsOpen(f, rctx, m, r, index, x),
           NEW t \in Nat \ {0}, t - 1 < capacity(rctx.n, m)
    PROVE  LET p == polynomial(rctx, m, r, index, t - 1)
           IN /\ p \in Scalars(m + 1)
              /\ p[m + 1] = IF t = index + 1 THEN 1 ELSE 0
              /\ product(rctx, m, f, t) = dot(m + 1, p, powersOf(x, m))
<1> DEFINE p == polynomial(rctx, m, r, index, t - 1)
           A == factorA(rctx, m, r, t - 1)
           D == factorD(rctx, m, index, t - 1)
           g == [j \in 1 .. m |-> f[j][get_jth(j - 1, rctx.n, t - 1) + 1]]
           s == [j \in 1 .. m |-> SAdd(A[j], SMul(D[j], x))]
<1>1. t - 1 \in Nat /\ EntriesTyped(r, m, rctx.n)
      BY DEF Randoms
<1>2. /\ p \in Scalars(m + 1) /\ p[m + 1] = IF t - 1 = index THEN 1 ELSE 0
      /\ ValuedAs(p, m, A, D)
      <2> DEFINE num == t - 1
      <2>1. num \in Nat /\ num < capacity(rctx.n, m)
            BY <1>1
      <2> HIDE DEF num
      <2>2. LET q == polynomial(rctx, m, r, index, num)
            IN /\ q \in Scalars(m + 1) /\ q[m + 1] = IF num = index THEN 1 ELSE 0
               /\ ValuedAs(q, m, factorA(rctx, m, r, num), factorD(rctx, m, index, num))
            BY <1>1, <2>1, PolynomialFits
      <2>3. QED
            BY <2>2 DEF num
<1>3. A \in Scalars(m) /\ D \in [1 .. m -> {0, 1}]
      BY <1>1, FactorsTyped
<1>4. \A j \in 1 .. m : /\ A[j] = r.a[j][get_jth(j - 1, rctx.n, t - 1) + 1]
                        /\ D[j] = delta(rctx, index, j - 1, get_jth(j - 1, rctx.n, t - 1))
      BY DEF factorA, factorD
<1> HIDE DEF A, D, p
<1>5. ASSUME NEW j \in 1 .. m PROVE g[j] = s[j]
      <2> DEFINE i == get_jth(j - 1, rctx.n, t - 1)
                 n == rctx.n
      <2>1. j - 1 \in Nat /\ j - 1 \in 0 .. m - 1 /\ (j - 1) + 1 = j
            OBVIOUS
      <2>2. i \in 0 .. n - 1
            BY <1>1, <2>1, DigitTyped
      <2>3. g[j] = f[j][i + 1]
            OBVIOUS
      <2>4. A[j] = r.a[j][i + 1] /\ D[j] = delta(rctx, index, j - 1, i)
            BY <1>4
      <2>5. s[j] = SAdd(A[j], SMul(D[j], x))
            OBVIOUS
      <2>6. A[j] \in Scalar /\ D[j] \in Scalar
            BY <1>3, ZeroAndOne DEF Scalars
      <2> HIDE DEF i, g, s
      <2>7. f[j][i + 1] = SAdd(SMul(delta(rctx, index, j - 1, i), x), r.a[j][i + 1])
            <3>1. f[(j - 1) + 1][i + 1] = openedDigit(rctx, r, index, x, j - 1, i)
                  BY <2>1, <2>2 DEF RowsOpen, n
            <3>2. QED
                  BY <2>1, <3>1 DEF openedDigit
      <2>8. SAdd(SMul(D[j], x), A[j]) = SAdd(A[j], SMul(D[j], x))
            BY <2>6, Closed, RingLaws
      <2>9. QED
            BY <2>3, <2>4, <2>5, <2>7, <2>8
<1>6. g = [j \in 1 .. m |-> g[j]] /\ s = [j \in 1 .. m |-> s[j]]
      OBVIOUS
<1>7. product(rctx, m, f, t) = SProd(SubSeq(g, 1, m))
      BY DEF product, Tuple
<1>8. SProd(s) = valueAt(p, m + 1, x)
      BY <1>2 DEF ValuedAs
<1> HIDE DEF g, s
<1>9. SubSeq(g, 1, m) = g /\ g = s
      <2>1. SubSeq(g, 1, m) = g
            BY <1>6, TupleIs
      <2>2. g = s
            BY <1>5, <1>6
      <2>3. QED
            BY <2>1, <2>2
<1>10. valueAt(p, m + 1, x) = dot(m + 1, p, powersOf(x, m))
       <2> DEFINE X == powersOf(x, m)
       <2>1. [k \in 1 .. m + 1 |-> SMul(p[k], X[k])] = [k \in 1 .. m + 1 |-> SMul(p[k], SPow(x, k - 1))]
             BY DEF powersOf
       <2> HIDE DEF X
       <2>2. QED
             BY <2>1 DEF dot, valueAt, X
<1>11. t - 1 = index <=> t = index + 1
       OBVIOUS
<1>12. QED
       BY <1>2, <1>7, <1>8, <1>9, <1>10, <1>11 DEF p

\* What the verifier computes of the ring, the commitments and the responses.
productsOf(rctx, m, f, N) == [t \in 1 .. N |-> product(rctx, m, f, t)]

LEMMA SidesAre ==
    ASSUME NEW rctx, NEW m \in Nat, NEW x \in Scalar, NEW f, NEW proof, NEW Q \in Points(m),
           \A j \in 1 .. m : proof.coms[4 + j] = ge_save_boquila(Q[j]),
           NEW N \in Nat, NEW C \in Points(N), NEW B \in Nat, NEW bases \in Points(B)
    PROVE  LET W == productsOf(rctx, m, f, N)
           IN ringEquation(rctx, m, proof, f, published(N, C), bases, x)
                <=> ge_save_boquila(GAdd(combination(m, negated(m, powersOf(x, m)), Q), combination(N, W, C)))
                      = ge_save_boquila(combination(B, proof.z, bases))
<1> DEFINE W == productsOf(rctx, m, f, N)
           Cs == published(N, C)
           X == powersOf(x, m)
           E == negated(m, X)
           fq == [j \in 1 .. m |-> GMul(SNeg(SPow(x, j - 1)), ge_load_boquila(proof.coms[4 + j]))]
           fc == [t \in 1 .. N |-> GMul(product(rctx, m, f, t), ge_load_boquila(Cs[t]))]
           fz == [b \in 1 .. B |-> GMul(proof.z[b], bases[b])]
<1>1. Len(bases) = B
      BY LengthIs
<1>2. Len(Cs) = N /\ \A t \in 1 .. N : Cs[t] = ge_save_boquila(C[t])
      <2> DEFINE S == {ge_save_boquila(C[t]) : t \in 1 .. N}
      <2>1. \A t \in 1 .. N : Cs[t] = ge_save_boquila(C[t])
            BY DEF published
      <2>2. Cs \in [1 .. N -> S]
            BY DEF published
      <2> HIDE DEF Cs, S
      <2>3. Len(Cs) = N
            BY <2>2
      <2>4. QED
            BY <2>1, <2>3
<1>3. \A j \in 1 .. m : Q[j] \in Point
      BY DEF Points
<1>4. \A t \in 1 .. N : C[t] \in Point
      BY DEF Points
<1>5. ringEquation(rctx, m, proof, f, Cs, bases, x)
        <=> ge_save_boquila(GAdd(GSum(SubSeq(fq, 1, m)), GSum(SubSeq(fc, 1, N)))) = ge_save_boquila(GSum(SubSeq(fz, 1, B)))
      <2> HIDE DEF Cs
      <2>1. QED
            BY <1>1, <1>2 DEF ringEquation, Tuple, product
<1>6. \A j \in 1 .. m : E[j] = SNeg(SPow(x, j - 1))
      <2>1. \A j \in 1 .. m : j \in 1 .. m + 1
            OBVIOUS
      <2>2. QED
            BY <2>1 DEF negated, powersOf
<1>7. \A t \in 1 .. N : W[t] = product(rctx, m, f, t)
      BY DEF productsOf
<1> HIDE DEF Cs, E, W
<1>8. fq = [j \in 1 .. m |-> GMul(E[j], Q[j])]
      <2>1. ASSUME NEW j \in 1 .. m PROVE ge_load_boquila(proof.coms[4 + j]) = Q[j]
            BY <1>3, ReadsBack
      <2>2. QED
            BY <1>6, <2>1
<1>9. fc = [t \in 1 .. N |-> GMul(W[t], C[t])]
      <2>1. ASSUME NEW t \in 1 .. N PROVE ge_load_boquila(Cs[t]) = C[t]
            BY <1>2, <1>4, ReadsBack
      <2>2. QED
            BY <1>7, <2>1
<1>10. fz = [b \in 1 .. B |-> GMul(proof.z[b], bases[b])]
       OBVIOUS
<1> HIDE DEF fq, fc, fz
<1> DEFINE z == proof.z
<1>11. /\ GSum(SubSeq(fq, 1, m)) = combination(m, E, Q)
       /\ GSum(SubSeq(fc, 1, N)) = combination(N, W, C)
       /\ GSum(SubSeq(fz, 1, B)) = combination(B, z, bases)
       <2>1. fz = [b \in 1 .. B |-> GMul(z[b], bases[b])]
             BY <1>10
       <2> HIDE DEF z
       <2>2. QED
             BY <1>8, <1>9, <2>1, CombinesAs
<1>12. QED
       BY <1>5, <1>11 DEF W, Cs, E, X

\* The response for one generator.
LEMMA ResponseIs ==
    ASSUME NEW m \in Nat, NEW r, r.rho \in Scalars(m), NEW key \in Scalar, NEW x \in Scalar
    PROVE  LET X == powersOf(x, m)
           IN /\ responseZ(m, r, key, x) = SAdd(SMul(key, X[m + 1]), SNeg(dot(m, r.rho, X)))
              /\ responseZ(m, r, key, x) \in Scalar
<1> DEFINE X == powersOf(x, m)
           f == [j \in 1 .. m |-> SMul(r.rho[j], SPow(x, j - 1))]
           s == [j \in 1 .. m |-> SMul(r.rho[j], X[j])]
           d == dot(m, r.rho, X)
<1>1. X \in Scalars(m + 1)
      BY PowersTyped
<1>2. \A j \in 1 .. m : r.rho[j] \in Scalar /\ X[j] = SPow(x, j - 1) /\ X[j] \in Scalar
      <2>1. \A j \in 1 .. m : j \in 1 .. m + 1
            OBVIOUS
      <2>2. \A j \in 1 .. m : X[j] = SPow(x, j - 1)
            BY <2>1 DEF powersOf
      <2> HIDE DEF X
      <2>3. QED
            BY <1>1, <2>1, <2>2 DEF Scalars
<1>3. X[m + 1] = SPow(x, m) /\ X[m + 1] \in Scalar
      <2>1. m + 1 \in 1 .. m + 1 /\ (m + 1) - 1 = m
            OBVIOUS
      <2>2. X[m + 1] = SPow(x, m)
            BY <2>1 DEF powersOf
      <2> HIDE DEF X
      <2>3. QED
            BY <1>1, <2>1, <2>2 DEF Scalars
<1>4. f = [j \in 1 .. m |-> f[j]]
      OBVIOUS
<1>5. responseZ(m, r, key, x) = SAdd(SMul(key, SPow(x, m)), SNeg(SSum(SubSeq(f, 1, m))))
      BY DEF responseZ, Tuple
<1> HIDE DEF X
<1>6. f = s
      BY <1>2
<1>7. SSum(s) = d
      BY DEF dot
<1>8. d \in Scalar
      <2>1. [j \in 1 .. m |-> X[j]] \in Scalars(m)
            BY <1>2 DEF Scalars
      <2>2. dot(m, r.rho, [j \in 1 .. m |-> X[j]]) \in Scalar
            BY <2>1, DotTyped
      <2>3. dot(m, r.rho, [j \in 1 .. m |-> X[j]]) = d
            <3>1. [j \in 1 .. m |-> SMul(r.rho[j], [i \in 1 .. m |-> X[i]][j])] = s
                  OBVIOUS
            <3>2. QED
                  BY <3>1 DEF dot
      <2>4. QED
            BY <2>2, <2>3
<1> HIDE DEF f, s, d
<1>9. responseZ(m, r, key, x) = SAdd(SMul(key, X[m + 1]), SNeg(d))
      BY <1>3, <1>4, <1>5, <1>6, <1>7, TupleIs
<1>10. SMul(key, X[m + 1]) \in Scalar /\ SNeg(d) \in Scalar
       BY <1>3, <1>8, Closed
<1>11. SAdd(SMul(key, X[m + 1]), SNeg(d)) \in Scalar
       BY <1>10, Closed
<1>12. QED
       BY <1>9, <1>11 DEF X, d

\* What is known of all polynomials of a ring and of the products of f.
LEMMA TermsOfRing ==
    ASSUME NEW rctx, rctx.n \in Nat \ {0}, NEW m \in Nat, NEW r, Randoms(r, m, rctx.n), NEW index \in Nat,
           NEW x \in Scalar, NEW f, RowsOpen(f, rctx, m, r, index, x),
           NEW N \in Nat, index < N, N <= capacity(rctx.n, m), capacity(rctx.n, m) \in Nat
    PROVE  LET P == polynomialsOf(rctx, m, r, index, N)
               W == productsOf(rctx, m, f, N)
           IN /\ P \in [1 .. N -> Scalars(m + 1)]
              /\ Leads(P, N, m, index + 1)
              /\ W \in Scalars(N)
              /\ Values(W, P, powersOf(x, m), N, m + 1)
<1> DEFINE P == polynomialsOf(rctx, m, r, index, N)
           W == productsOf(rctx, m, f, N)
           X == powersOf(x, m)
<1>1. ASSUME NEW t \in 1 .. N
      PROVE  /\ P[t] \in Scalars(m + 1)
             /\ P[t][m + 1] = IF t = index + 1 THEN 1 ELSE 0
             /\ W[t] = dot(m + 1, P[t], X) /\ W[t] \in Scalar
      <2>1. t \in Nat \ {0} /\ t - 1 < capacity(rctx.n, m) /\ index < capacity(rctx.n, m)
            OBVIOUS
      <2>2. LET p == polynomial(rctx, m, r, index, t - 1)
            IN /\ p \in Scalars(m + 1)
               /\ p[m + 1] = IF t = index + 1 THEN 1 ELSE 0
               /\ product(rctx, m, f, t) = dot(m + 1, p, powersOf(x, m))
            BY <2>1, ProductsAre
      <2>3. P[t] = polynomial(rctx, m, r, index, t - 1) /\ W[t] = product(rctx, m, f, t)
            BY DEF polynomialsOf, productsOf
      <2>4. X \in Scalars(m + 1)
            BY PowersTyped
      <2> HIDE DEF P, W, X
      <2>5. P[t] \in Scalars(m + 1) /\ P[t][m + 1] = (IF t = index + 1 THEN 1 ELSE 0) /\ W[t] = dot(m + 1, P[t], X)
            BY <2>2, <2>3 DEF X
      <2>6. dot(m + 1, P[t], X) \in Scalar
            <3> DEFINE k == m + 1
            <3>1. k \in Nat /\ P[t] \in Scalars(k) /\ X \in Scalars(k)
                  BY <2>4, <2>5
            <3> HIDE DEF k
            <3>2. dot(k, P[t], X) \in Scalar
                  BY <3>1, DotTyped
            <3>3. QED
                  BY <3>2 DEF k
      <2>7. QED
            BY <2>5, <2>6
<1>2. P = [t \in 1 .. N |-> P[t]] /\ W = [t \in 1 .. N |-> W[t]]
      BY DEF polynomialsOf, productsOf
<1> HIDE DEF P, W
<1>3. P \in [1 .. N -> Scalars(m + 1)]
      BY <1>1, <1>2
<1>4. W \in Scalars(N)
      BY <1>1, <1>2 DEF Scalars
<1>5. Leads(P, N, m, index + 1)
      BY <1>1 DEF Leads
<1>6. Values(W, P, X, N, m + 1)
      BY <1>1 DEF Values
<1>7. QED
      BY <1>3, <1>4, <1>5, <1>6 DEF P, W, X

LEMMA InCoordinate ==
    ASSUME NEW n \in Nat, NEW e \in Scalars(n), NEW P \in Points(n), NEW k \in 1 .. Dim
    PROVE  /\ combination(n, e, P) \in Point
           /\ part(n, P, k) \in Scalars(n)
           /\ combination(n, e, P)[k] = dot(n, e, part(n, P, k))
BY CombinationIs

\* The ring equation holds of what the prover made, once the keys are those
\* of the key at the index of the ring.
Passing(rctx, m, r, index, x, f, N, C, B, bases, keys, proof) ==
    /\ rctx.n \in Nat \ {0} /\ m \in Nat /\ Randoms(r, m, rctx.n) /\ index \in Nat
    /\ x \in Scalar /\ RowsOpen(f, rctx, m, r, index, x)
    /\ N \in Nat /\ index < N /\ N <= capacity(rctx.n, m) /\ capacity(rctx.n, m) \in Nat
    /\ C \in Points(N) /\ B \in Nat /\ bases \in Points(B) /\ keys \in Scalars(B)
    /\ C[index + 1] = combination(B, keys, bases)
    /\ \A j \in 1 .. m : proof.coms[4 + j]
          = ge_save_boquila(comQ(rctx, m, r, bases, C, polynomialsOf(rctx, m, r, index, N))[j])
    /\ proof.z = [b \in 1 .. B |-> responseZ(m, r, keys[b], x)]

LEMMA RingPasses ==
    ASSUME NEW rctx, NEW m, NEW r, NEW index, NEW x, NEW f, NEW N, NEW C, NEW B, NEW bases, NEW keys, NEW proof,
           Passing(rctx, m, r, index, x, f, N, C, B, bases, keys, proof)
    PROVE  ringEquation(rctx, m, proof, f, published(N, C), bases, x)
<1> SUFFICES ASSUME rctx.n \in Nat \ {0}, m \in Nat, Randoms(r, m, rctx.n), index \in Nat,
                    x \in Scalar, RowsOpen(f, rctx, m, r, index, x),
                    N \in Nat, index < N, N <= capacity(rctx.n, m), capacity(rctx.n, m) \in Nat,
                    C \in Points(N), B \in Nat, bases \in Points(B), keys \in Scalars(B),
                    C[index + 1] = combination(B, keys, bases),
                    \A j \in 1 .. m : proof.coms[4 + j]
                       = ge_save_boquila(comQ(rctx, m, r, bases, C, polynomialsOf(rctx, m, r, index, N))[j]),
                    proof.z = [b \in 1 .. B |-> responseZ(m, r, keys[b], x)]
             PROVE  ringEquation(rctx, m, proof, f, published(N, C), bases, x)
    BY DEF Passing
<1> DEFINE P == polynomialsOf(rctx, m, r, index, N)
           W == productsOf(rctx, m, f, N)
           X == powersOf(x, m)
           E == negated(m, X)
           Q == comQ(rctx, m, r, bases, C, P)
           z == proof.z
           own == index + 1
<1>0. LET p == polynomialsOf(rctx, m, r, index, N)
          w == productsOf(rctx, m, f, N)
      IN /\ p \in [1 .. N -> Scalars(m + 1)]
         /\ Leads(p, N, m, index + 1)
         /\ w \in Scalars(N)
         /\ Values(w, p, powersOf(x, m), N, m + 1)
      <2> HIDE DEF P, W, X, E, Q, z, own
      <2>1. QED
            BY TermsOfRing
<1>1. /\ P \in [1 .. N -> Scalars(m + 1)] /\ Leads(P, N, m, own)
      /\ W \in Scalars(N) /\ Values(W, P, X, N, m + 1)
      BY <1>0
<1>2. X \in Scalars(m + 1) /\ E \in Scalars(m)
      BY PowersTyped
<1>3. r.rho \in Scalars(m)
      BY DEF Randoms
<1>4. \A b \in 1 .. B : keys[b] \in Scalar
      BY DEF Scalars
<1>5. \A b \in 1 .. B : z[b] = SAdd(SMul(keys[b], X[m + 1]), SNeg(dot(m, r.rho, X))) /\ z[b] \in Scalar
      <2>1. ASSUME NEW b \in 1 .. B
            PROVE  z[b] = SAdd(SMul(keys[b], X[m + 1]), SNeg(dot(m, r.rho, X))) /\ z[b] \in Scalar
            <3>1. z[b] = responseZ(m, r, keys[b], x)
                  OBVIOUS
            <3>2. keys[b] \in Scalar
                  BY <1>4
            <3> HIDE DEF z
            <3>3. QED
                  BY <1>3, <3>1, <3>2, ResponseIs
      <2>2. QED
            BY <2>1
<1>6. z \in Scalars(B)
      <2>1. z = [b \in 1 .. B |-> z[b]]
            OBVIOUS
      <2> HIDE DEF z
      <2>2. QED
            BY <1>5, <2>1 DEF Scalars
<1> HIDE DEF P, W, X, E
<1>7. /\ Q \in Points(m)
      /\ \A j \in 1 .. m : /\ Q[j] = qEntry(m, r, bases, B, C, N, P, j)
                           /\ blindings(B, r.rho, j) \in Scalars(B)
                           /\ coefficients(N, P, j) \in Scalars(N)
      <2> HIDE DEF z, own
      <2>1. Committing(m, r, B, bases, N, C, P)
            BY <1>1, <1>3 DEF Committing
      <2>2. Q \in Points(m)
            BY <2>1, QIs
      <2>3. ASSUME NEW j \in 1 .. m PROVE Q[j] = qEntry(m, r, bases, B, C, N, P, j)
            BY <2>1, QIs
      <2>4. ASSUME NEW j \in 1 .. m PROVE blindings(B, r.rho, j) \in Scalars(B)
            BY <2>1, QIs
      <2>5. ASSUME NEW j \in 1 .. m PROVE coefficients(N, P, j) \in Scalars(N)
            BY <2>1, QIs
      <2> HIDE DEF Q
      <2>6. QED
            BY <2>2, <2>3, <2>4, <2>5
<1>8. \A j \in 1 .. m : proof.coms[4 + j] = ge_save_boquila(Q[j])
      BY DEF P
<1> HIDE DEF z, Q, own
<1> DEFINE L == GAdd(combination(m, E, Q), combination(N, W, C))
           R == combination(B, z, bases)
<1>9. L \in Point /\ R \in Point
      <2>1. combination(m, E, Q) \in Point /\ combination(N, W, C) \in Point
            BY <1>1, <1>2, <1>7, CombinationIs
      <2>2. QED
            BY <1>6, <2>1, CombinationIs, GAddIs
<1>10. own \in 1 .. N /\ C[own] = combination(B, keys, bases)
       BY DEF own
<1>11. Responds(z, keys, r.rho, X, m, B)
       BY <1>5 DEF Responds
<1>12. ASSUME NEW k \in 1 .. Dim PROVE L[k] = R[k]
       <2> DEFINE c == part(N, C, k)
                  g == part(B, bases, k)
                  q == part(m, Q, k)
       <2>1. /\ c \in Scalars(N) /\ combination(N, W, C)[k] = dot(N, W, c)
             /\ g \in Scalars(B) /\ R[k] = dot(B, z, g) /\ combination(B, keys, bases)[k] = dot(B, keys, g)
             /\ q \in Scalars(m) /\ combination(m, E, Q)[k] = dot(m, E, q)
             <3> HIDE DEF c, g, q, L
             <3>1. c \in Scalars(N) /\ combination(N, W, C)[k] = dot(N, W, c)
                   BY <1>1, InCoordinate DEF c
             <3>2. g \in Scalars(B) /\ combination(B, z, bases)[k] = dot(B, z, g)
                   BY <1>6, InCoordinate DEF g
             <3>3. combination(B, keys, bases)[k] = dot(B, keys, g)
                   BY InCoordinate DEF g
             <3>4. q \in Scalars(m) /\ combination(m, E, Q)[k] = dot(m, E, q)
                   BY <1>2, <1>7, InCoordinate DEF q
             <3>5. QED
                   BY <3>1, <3>2, <3>3, <3>4
       <2>2. dot(B, keys, g) = c[own]
             BY <1>10, <2>1 DEF part
       <2>3. Blinds(q, r.rho, P, g, c, m, B, N)
             <3>1. ASSUME NEW j \in 1 .. m
                   PROVE  q[j] = SAdd(dot(B, blindings(B, r.rho, j), g), dot(N, coefficients(N, P, j), c))
                   <4> DEFINE eb == blindings(B, r.rho, j)
                              ec == coefficients(N, P, j)
                   <4>1. eb \in Scalars(B) /\ ec \in Scalars(N)
                         BY <1>7
                   <4>2. q[j] = Q[j][k]
                         BY DEF part
                   <4>3. Q[j] = GAdd(combination(B, eb, bases), combination(N, ec, C))
                         BY <1>7 DEF qEntry
                   <4> HIDE DEF eb, ec, c, g, q, L, R
                   <4>4. /\ combination(B, eb, bases) \in Point /\ combination(B, eb, bases)[k] = dot(B, eb, g)
                         /\ combination(N, ec, C) \in Point /\ combination(N, ec, C)[k] = dot(N, ec, c)
                         <5>1. combination(B, eb, bases) \in Point /\ combination(B, eb, bases)[k] = dot(B, eb, g)
                               BY <4>1, InCoordinate DEF g
                         <5>2. combination(N, ec, C) \in Point /\ combination(N, ec, C)[k] = dot(N, ec, c)
                               BY <4>1, InCoordinate DEF c
                         <5>3. QED
                               BY <5>1, <5>2
                   <4>5. Q[j][k] = SAdd(combination(B, eb, bases)[k], combination(N, ec, C)[k])
                         BY <4>3, <4>4, SumInCoordinate
                   <4>6. q[j] = SAdd(dot(B, eb, g), dot(N, ec, c))
                         BY <4>2, <4>4, <4>5
                   <4>7. QED
                         BY <4>6 DEF eb, ec
             <3>2. QED
                   BY <3>1 DEF Blinds
       <2> HIDE DEF c, g, q
       <2>4. SAdd(dot(m, negated(m, X), q), dot(N, W, c)) = dot(B, z, g)
             <3> HIDE DEF L, R
             <3>1. Ready(m, N, B, X, r.rho, P, c, g, keys, own, W, q, z)
                   BY <1>1, <1>2, <1>3, <1>6, <1>10, <1>11, <2>1, <2>2, <2>3 DEF Ready
             <3>2. QED
                   BY <3>1, RingBalances
       <2>5. L[k] = SAdd(combination(m, E, Q)[k], combination(N, W, C)[k])
             <3>1. combination(m, E, Q) \in Point /\ combination(N, W, C) \in Point
                   BY <1>1, <1>2, <1>7, CombinationIs
             <3>2. QED
                   BY <3>1, SumInCoordinate
       <2>6. QED
             BY <2>1, <2>4, <2>5 DEF E
<1> HIDE DEF L, R
<1>13. L = R
       BY <1>9, <1>12, SamePoint
<1>14. ringEquation(rctx, m, proof, f, published(N, C), bases, x) <=> ge_save_boquila(L) = ge_save_boquila(R)
       BY <1>7, <1>8, SidesAre DEF L, R, E, X, W, z
<1>15. QED
       BY <1>13, <1>14

-------------------------------------------------------------------------------
(* The proof that is made, and that it is accepted.                        *)

\* The hash of the library gives 32 bytes.
RingHashesAreBytes == \A t \in Seq(Nat) : Hash(t) \in Bytes32

LEMMA FormTyped == ASSUME NEW P \in Point PROVE ge_save_boquila(P) \in Seq(Nat)
<1>1. ge_save_boquila(P) = quadForm(8, P)
      BY DEF ge_save_boquila, quadForm
<1>2. QED
      BY <1>1, FormIsBytes

\* The challenge is a scalar.
LEMMA ChallengeTyped ==
    ASSUME RingHashesAreBytes, NEW N \in Nat, NEW Cs, Len(Cs) = N, \A t \in 1 .. N : Cs[t] \in Seq(Nat),
           NEW chal \in Nat, NEW n \in Nat, NEW coms, Len(coms) = n, \A k \in 1 .. n : coms[k] \in Seq(Nat)
    PROVE  challenge(Cs, chal, coms) \in Scalar
<1> DEFINE a == joined(N, Cs)
           b == joined(n, coms)
<1>1. a \in Seq(Nat)
      BY FlatTyped
<1>2. b \in Seq(Nat)
      BY FlatTyped
<1>3. challenge(Cs, chal, coms) = ScalarOf(Hash(a \o <<chal>> \o b))
      BY DEF challenge, joined, Flat
<1> HIDE DEF a, b
<1>4. a \o <<chal>> \o b \in Seq(Nat)
      <2>1. <<chal>> \in Seq(Nat)
            OBVIOUS
      <2>2. a \o <<chal>> \in Seq(Nat)
            BY <1>1, <2>1
      <2>3. QED
            BY <1>2, <2>2
<1>5. Hash(a \o <<chal>> \o b) \in Bytes32
      BY <1>4 DEF RingHashesAreBytes
<1>6. QED
      BY <1>3, <1>5, BytesMakeScalars

LEMMA SavedIs ==
    ASSUME NEW N \in Nat, NEW C \in Points(N)
    PROVE  /\ Len(published(N, C)) = N
           /\ \A t \in 1 .. N : published(N, C)[t] = ge_save_boquila(C[t]) /\ published(N, C)[t] \in Seq(Nat)
<1> DEFINE Cs == published(N, C)
<1>1. \A t \in 1 .. N : Cs[t] = ge_save_boquila(C[t])
      BY DEF published
<1>2. \A t \in 1 .. N : Cs[t] \in Seq(Nat)
      <2>1. \A t \in 1 .. N : C[t] \in Point
            BY DEF Points
      <2> HIDE DEF Cs
      <2>2. QED
            BY <1>1, <2>1, FormTyped
<1>3. Cs = [t \in 1 .. N |-> Cs[t]]
      BY DEF published
<1> HIDE DEF Cs
<1>4. Cs \in [1 .. N -> Seq(Nat)]
      BY <1>2, <1>3
<1>5. Len(Cs) = N
      BY <1>4
<1>6. QED
      BY <1>1, <1>2, <1>5 DEF Cs

\* The commitments that the prover publishes.
comsOver(rctx, m, r, index, bases, N, C) ==
    commitments(rctx, m, r, index, comQ(rctx, m, r, bases, C, polynomialsOf(rctx, m, r, index, N)))

Lists(coms, rctx, m, r, index, Q) ==
    /\ Len(coms) = 4 + m
    /\ \A k \in 1 .. 4 + m : coms[k] \in Seq(Nat)
    /\ coms[1] = ge_save_boquila(comA(rctx, m, r))
    /\ coms[2] = ge_save_boquila(comB(rctx, m, r, index))
    /\ coms[3] = ge_save_boquila(comC(rctx, m, r, index))
    /\ coms[4] = ge_save_boquila(comD(rctx, m, r))
    /\ \A j \in 1 .. m : coms[4 + j] = ge_save_boquila(Q[j])

LEMMA ComsAre ==
    ASSUME NEW rctx, NEW m \in Nat, NEW r, NEW index, NEW Q \in Points(m),
           comA(rctx, m, r) \in Point, comB(rctx, m, r, index) \in Point,
           comC(rctx, m, r, index) \in Point, comD(rctx, m, r) \in Point
    PROVE  Lists(commitments(rctx, m, r, index, Q), rctx, m, r, index, Q)
<1> DEFINE entry(k) == CASE k = 1 -> comA(rctx, m, r)
                         [] k = 2 -> comB(rctx, m, r, index)
                         [] k = 3 -> comC(rctx, m, r, index)
                         [] k = 4 -> comD(rctx, m, r)
                         [] OTHER -> Q[k - 4]
           f == [k \in 1 .. 4 + m |-> ge_save_boquila(entry(k))]
           coms == commitments(rctx, m, r, index, Q)
<1>1. coms = SubSeq(f, 1, 4 + m)
      BY DEF commitments, Tuple
<1>2. /\ entry(1) = comA(rctx, m, r) /\ entry(2) = comB(rctx, m, r, index)
      /\ entry(3) = comC(rctx, m, r, index) /\ entry(4) = comD(rctx, m, r)
      OBVIOUS
<1>3. ASSUME NEW j \in 1 .. m PROVE entry(4 + j) = Q[j]
      <2>1. 4 + j # 1 /\ 4 + j # 2 /\ 4 + j # 3 /\ 4 + j # 4 /\ (4 + j) - 4 = j
            OBVIOUS
      <2>2. QED
            BY <2>1
<1>4. \A j \in 1 .. m : Q[j] \in Point
      BY DEF Points
<1>5. ASSUME NEW k \in 1 .. 4 + m PROVE entry(k) \in Point
      <2>1. CASE k = 1 \/ k = 2 \/ k = 3 \/ k = 4
            <3> HIDE DEF entry
            <3>1. QED
                  BY <1>2, <2>1
      <2>2. CASE k > 4
            <3>1. k - 4 \in 1 .. m /\ 4 + (k - 4) = k
                  BY <2>2
            <3> HIDE DEF entry
            <3>2. entry(4 + (k - 4)) = Q[k - 4]
                  BY <1>3, <3>1
            <3>3. QED
                  BY <1>4, <3>1, <3>2
      <2>3. QED
            BY <2>1, <2>2
<1> HIDE DEF entry
<1>6. f = [k \in 1 .. 4 + m |-> f[k]] /\ \A k \in 1 .. 4 + m : f[k] = ge_save_boquila(entry(k))
      OBVIOUS
<1>7. 4 + m \in Nat /\ 1 \in 1 .. 4 + m /\ 2 \in 1 .. 4 + m /\ 3 \in 1 .. 4 + m /\ 4 \in 1 .. 4 + m
      OBVIOUS
<1>8. \A j \in 1 .. m : 4 + j \in 1 .. 4 + m
      OBVIOUS
<1> HIDE DEF f
<1>9. coms = f
      <2> DEFINE n == 4 + m
      <2>1. n \in Nat /\ f = [k \in 1 .. n |-> f[k]]
            BY <1>6, <1>7
      <2> HIDE DEF n
      <2>2. SubSeq(f, 1, n) = f
            BY <2>1, TupleIs
      <2>3. QED
            BY <1>1, <2>2 DEF n
<1>10. \A k \in 1 .. 4 + m : f[k] \in Seq(Nat)
       BY <1>5, <1>6, FormTyped
<1>11. Len(f) = 4 + m
       <2>1. f \in [1 .. 4 + m -> Seq(Nat)]
             BY <1>6, <1>10
       <2>2. QED
             BY <1>7, <2>1
<1>12. Lists(f, rctx, m, r, index, Q)
       BY <1>2, <1>3, <1>6, <1>7, <1>8, <1>10, <1>11 DEF Lists
<1>13. QED
       BY <1>9, <1>12 DEF coms

\* A ring, the place in it and the keys of a proof.
Asking(rctx, m, r, index, N, C, B, bases, keys) ==
    /\ ContextOk(rctx) /\ m \in Nat /\ m <= rctx.m /\ Randoms(r, m, rctx.n)
    /\ index \in Nat /\ N \in Nat /\ index < N /\ N <= capacity(rctx.n, m) /\ C \in Points(N)
    /\ B \in Nat /\ bases \in Points(B) /\ keys \in Scalars(B)

LEMMA CapacityTyped == ASSUME NEW m \in Nat, NEW n \in Nat PROVE capacity(n, m) \in Nat
<1>1. PICK c : Powers(c, m, n) /\ capacity(n, m) = c[m]
      BY CapacityWalk
<1>2. c \in [0 .. m -> Nat] /\ m \in 0 .. m
      BY <1>1 DEF Powers
<1>3. QED
      BY <1>1, <1>2

\* The rows that answer a challenge.
answersTo(rctx, m, r, index, x) == fullF(responseF(rctx, m, r, index, x), x)

LEMMA AnswersOpen ==
    ASSUME NEW m \in Nat, NEW rctx, rctx.n \in Nat, rctx.n > 1, NEW r, Randoms(r, m, rctx.n),
           NEW index \in Nat, NEW x \in Scalar
    PROVE  /\ RowsOpen(answersTo(rctx, m, r, index, x), rctx, m, r, index, x)
           /\ Len(responseF(rctx, m, r, index, x)) = m
<1> DEFINE f == answersTo(rctx, m, r, index, x)
<1>1. /\ \A j \in 0 .. m - 1, i \in 0 .. rctx.n - 1 :
            f[j + 1][i + 1] = openedDigit(rctx, r, index, x, j, i) /\ f[j + 1][i + 1] \in Scalar
      /\ Len(responseF(rctx, m, r, index, x)) = m
      BY FullRowIs DEF answersTo
<1> HIDE DEF f
<1>2. RowsOpen(f, rctx, m, r, index, x)
      BY <1>1 DEF RowsOpen
<1>3. QED
      BY <1>1, <1>2 DEF f

LEMMA DigitCommitmentsTyped ==
    ASSUME NEW rctx, ContextOk(rctx), NEW m \in Nat, m <= rctx.m, NEW r, Randoms(r, m, rctx.n), NEW index \in Nat
    PROVE  /\ comA(rctx, m, r) \in Point /\ comB(rctx, m, r, index) \in Point
           /\ comC(rctx, m, r, index) \in Point /\ comD(rctx, m, r) \in Point
<1> DEFINE f == answersTo(rctx, m, r, index, 0)
           N == m * rctx.n
           h == rctx.genh
           P == gensOf(rctx, N)
           A == tableA(rctx, N, r)
           B == tableB(rctx, N, index)
           C == tableC(rctx, N, r, index)
           D == tableD(rctx, N, r)
<1>1. N \in Nat /\ P \in Points(N) /\ h \in Point
      BY GensTyped DEF ContextOk
<1>2. r.rA \in Scalar /\ r.rB \in Scalar /\ r.rC \in Scalar /\ r.rD \in Scalar
      BY DEF Randoms
<1>3. 0 \in Scalar /\ rctx.n \in Nat /\ rctx.n > 1
      BY ZeroAndOne DEF ContextOk
<1>4. RowsOpen(f, rctx, m, r, index, 0)
      BY <1>3, AnswersOpen
<1> HIDE DEF f
<1>5. A \in Scalars(N) /\ B \in Scalars(N) /\ C \in Scalars(N) /\ D \in Scalars(N)
      BY <1>3, <1>4, TablesMix
<1>6. /\ comA(rctx, m, r) = vector(N, h, P, r.rA, A) /\ comB(rctx, m, r, index) = vector(N, h, P, r.rB, B)
      /\ comC(rctx, m, r, index) = vector(N, h, P, r.rC, C) /\ comD(rctx, m, r) = vector(N, h, P, r.rD, D)
      BY CommitmentsAre
<1> HIDE DEF N, h, P, A, B, C, D
<1>7. QED
      BY <1>1, <1>2, <1>5, <1>6, VectorIs

LEMMA AskingCommits ==
    ASSUME NEW rctx, NEW m, NEW r, NEW index, NEW N, NEW C, NEW B, NEW bases, NEW keys,
           Asking(rctx, m, r, index, N, C, B, bases, keys)
    PROVE  Committing(m, r, B, bases, N, C, polynomialsOf(rctx, m, r, index, N))
<1> DEFINE f == answersTo(rctx, m, r, index, 0)
           p == polynomialsOf(rctx, m, r, index, N)
<1>1. /\ ContextOk(rctx) /\ m \in Nat /\ Randoms(r, m, rctx.n)
      /\ index \in Nat /\ N \in Nat /\ index < N /\ N <= capacity(rctx.n, m) /\ C \in Points(N)
      /\ B \in Nat /\ bases \in Points(B)
      BY DEF Asking
<1>2. 0 \in Scalar /\ rctx.n \in Nat /\ rctx.n > 1
      BY <1>1, ZeroAndOne DEF ContextOk
<1>3. RowsOpen(f, rctx, m, r, index, 0)
      BY <1>1, <1>2, AnswersOpen
<1>4. capacity(rctx.n, m) \in Nat /\ rctx.n \in Nat \ {0}
      <2> DEFINE n == rctx.n
      <2>1. n \in Nat /\ n \in Nat \ {0}
            BY <1>2
      <2> HIDE DEF n
      <2>2. capacity(n, m) \in Nat
            BY <1>1, <2>1, CapacityTyped
      <2>3. QED
            BY <2>1, <2>2 DEF n
<1> HIDE DEF f, p
<1>5. polynomialsOf(rctx, m, r, index, N) \in [1 .. N -> Scalars(m + 1)]
      BY <1>1, <1>2, <1>3, <1>4, TermsOfRing
<1>6. r.rho \in Scalars(m)
      BY <1>1 DEF Randoms
<1>7. QED
      BY <1>1, <1>5, <1>6 DEF Committing

\* What the provers refuse, and what both compute in terms of the points of the ring.
Refuses(rctx, m, r, index, N) == capacity(rctx.n, m) < N \/ index >= N \/ m > rctx.m \/ r.overflow

LEMMA ProveOverIs ==
    ASSUME NEW rctx, NEW m, NEW r, NEW index, NEW N \in Nat, NEW C \in Points(N), NEW bases, NEW keys, NEW chal
    PROVE  LET p == proveOver(rctx, published(N, C), index, bases, keys, m, chal, r)
           IN /\ Refuses(rctx, m, r, index, N) => p = Refused
              /\ ~Refuses(rctx, m, r, index, N)
                   => p = challenged(rctx, published(N, C), index, keys, m, chal, r,
                                     comsOver(rctx, m, r, index, bases, N, C))
<1> DEFINE Cs == published(N, C)
           ring0 == [t \in 1 .. N |-> ge_load_boquila(Cs[t])]
           polys == [t \in 1 .. N |-> polynomial(rctx, m, r, index, t - 1)]
<1>1. Len(Cs) = N /\ \A t \in 1 .. N : Cs[t] = ge_save_boquila(C[t])
      BY SavedIs
<1>2. C = [t \in 1 .. N |-> C[t]] /\ \A t \in 1 .. N : C[t] \in Point
      BY DEF Points
<1> HIDE DEF Cs
<1>3. ring0 = C
      <2>1. \A t \in 1 .. N : ge_load_boquila(Cs[t]) = C[t]
            BY <1>1, <1>2, ReadsBack
      <2>2. QED
            BY <1>2, <2>1
<1>4. polys = polynomialsOf(rctx, m, r, index, N)
      BY DEF polynomialsOf
<1>5. ring0 = [t \in 1 .. N |-> ring0[t]] /\ polys = [t \in 1 .. N |-> polys[t]]
      OBVIOUS
<1>6. proveOver(rctx, Cs, index, bases, keys, m, chal, r)
        = IF Refuses(rctx, m, r, index, N) THEN Refused
          ELSE challenged(rctx, Cs, index, keys, m, chal, r,
                          commitments(rctx, m, r, index, comQ(rctx, m, r, bases, SubSeq(ring0, 1, N), SubSeq(polys, 1, N))))
      BY <1>1 DEF proveOver, Tuple, Refuses
<1> HIDE DEF ring0, polys
<1>7. SubSeq(ring0, 1, N) = C /\ SubSeq(polys, 1, N) = polynomialsOf(rctx, m, r, index, N)
      BY <1>3, <1>4, <1>5, TupleIs
<1>8. QED
      BY <1>6, <1>7 DEF comsOver, Cs

\* The proof over a ring has the size announced, and is accepted of a member.
LEMMA OverComplete ==
    ASSUME RingHashesAreBytes,
           NEW rctx, NEW m, NEW r, NEW index, NEW N, NEW C, NEW B, NEW bases, NEW keys,
           Asking(rctx, m, r, index, N, C, B, bases, keys), NEW chal \in Nat,
           NEW p, p = challenged(rctx, published(N, C), index, keys, m, chal, r, comsOver(rctx, m, r, index, bases, N, C))
    PROVE  /\ Len(p.coms) = 4 + m /\ Len(p.f) = m /\ Len(p.z) = B
           /\ C[index + 1] = combination(B, keys, bases) => verifyOver(rctx, p, published(N, C), bases, m, chal)
<1> DEFINE Cs == published(N, C)
           P == polynomialsOf(rctx, m, r, index, N)
           Q == comQ(rctx, m, r, bases, C, P)
           coms == comsOver(rctx, m, r, index, bases, N, C)
           x == challenge(Cs, chal, coms)
           F == responseF(rctx, m, r, index, x)
           f == answersTo(rctx, m, r, index, x)
           z == [b \in 1 .. B |-> responseZ(m, r, keys[b], x)]
<1>1. /\ ContextOk(rctx) /\ m \in Nat /\ m <= rctx.m /\ Randoms(r, m, rctx.n)
      /\ index \in Nat /\ N \in Nat /\ index < N /\ N <= capacity(rctx.n, m) /\ C \in Points(N)
      /\ B \in Nat /\ bases \in Points(B) /\ keys \in Scalars(B)
      BY DEF Asking
<1>2. rctx.n \in Nat /\ rctx.n > 1 /\ rctx.n \in Nat \ {0}
      BY <1>1 DEF ContextOk
<1>3. capacity(rctx.n, m) \in Nat
      BY <1>1, <1>2, CapacityTyped
<1>4. Q \in Points(m)
      <2>1. Committing(m, r, B, bases, N, C, P)
            BY AskingCommits
      <2> HIDE DEF P
      <2>2. QED
            BY <2>1, QIs
<1>5. /\ comA(rctx, m, r) \in Point /\ comB(rctx, m, r, index) \in Point
      /\ comC(rctx, m, r, index) \in Point /\ comD(rctx, m, r) \in Point
      BY <1>1, DigitCommitmentsTyped
<1>6. coms = commitments(rctx, m, r, index, Q)
      BY DEF comsOver
<1> HIDE DEF coms, Q
<1>7. /\ Len(coms) = 4 + m
      /\ \A k \in 1 .. 4 + m : coms[k] \in Seq(Nat)
      /\ coms[1] = ge_save_boquila(comA(rctx, m, r))
      /\ coms[2] = ge_save_boquila(comB(rctx, m, r, index))
      /\ coms[3] = ge_save_boquila(comC(rctx, m, r, index))
      /\ coms[4] = ge_save_boquila(comD(rctx, m, r))
      /\ \A j \in 1 .. m : coms[4 + j] = ge_save_boquila(Q[j])
      <2> HIDE DEF Cs, P, x, F, f, z
      <2>1. Lists(commitments(rctx, m, r, index, Q), rctx, m, r, index, Q)
            BY <1>1, <1>4, <1>5, ComsAre
      <2>2. QED
            BY <1>6, <2>1 DEF Lists
<1>8. Len(Cs) = N /\ \A t \in 1 .. N : Cs[t] \in Seq(Nat)
      BY <1>1, SavedIs
<1> HIDE DEF Cs
<1>9. x \in Scalar
      <2> DEFINE n == 4 + m
      <2>1. n \in Nat /\ Len(coms) = n /\ \A k \in 1 .. n : coms[k] \in Seq(Nat)
            BY <1>1, <1>7
      <2> HIDE DEF n
      <2>2. QED
            BY <1>1, <1>8, <2>1, ChallengeTyped
<1>10. p = [ok |-> TRUE, coms |-> coms, f |-> F, zA |-> SAdd(SMul(x, r.rB), r.rA), zC |-> SAdd(SMul(x, r.rC), r.rD),
            z |-> Tuple(Len(keys), LAMBDA b : responseZ(m, r, keys[b], x))]
       BY DEF challenged, responses, coms, Cs
<1>11. Tuple(Len(keys), LAMBDA b : responseZ(m, r, keys[b], x)) = z
       <2>1. Len(keys) = B
             BY <1>1 DEF Scalars
       <2>2. Tuple(Len(keys), LAMBDA b : responseZ(m, r, keys[b], x)) = SubSeq(z, 1, B)
             BY <2>1 DEF Tuple
       <2>3. z = [b \in 1 .. B |-> z[b]]
             OBVIOUS
       <2> HIDE DEF z
       <2>4. QED
             BY <1>1, <2>2, <2>3, TupleIs
<1> HIDE DEF x, F
<1>12. p.coms = coms /\ p.f = F /\ p.zA = SAdd(SMul(x, r.rB), r.rA) /\ p.zC = SAdd(SMul(x, r.rC), r.rD) /\ p.z = z
       BY <1>10, <1>11
<1>13. Len(F) = m /\ RowsOpen(f, rctx, m, r, index, x)
       BY <1>1, <1>2, <1>9, AnswersOpen DEF F
<1>14. Len(z) = B
       <2>1. \A b \in 1 .. B : keys[b] \in Scalar
             BY <1>1 DEF Scalars
       <2>2. r.rho \in Scalars(m)
             BY <1>1 DEF Randoms
       <2>3. \A b \in 1 .. B : responseZ(m, r, keys[b], x) \in Scalar
             BY <1>1, <1>9, <2>1, <2>2, ResponseIs
       <2>4. z \in [1 .. B -> Scalar]
             BY <2>3
       <2>5. QED
             BY <1>1, <2>4
<1>15. f = fullF(p.f, x)
       BY <1>12 DEF answersTo, F
<1>16. x = challenge(Cs, chal, p.coms)
       BY <1>12 DEF x
<1> HIDE DEF f
<1>17. bitEquations(rctx, m, p, f, x)
       BY <1>1, <1>7, <1>9, <1>12, <1>13, BitsPass
<1>18. ASSUME C[index + 1] = combination(B, keys, bases) PROVE ringEquation(rctx, m, p, f, Cs, bases, x)
       <2>1. \A j \in 1 .. m : p.coms[4 + j]
               = ge_save_boquila(comQ(rctx, m, r, bases, C, polynomialsOf(rctx, m, r, index, N))[j])
             BY <1>7, <1>12 DEF Q
       <2>2. p.z = [b \in 1 .. B |-> responseZ(m, r, keys[b], x)]
             BY <1>12
       <2>3. Passing(rctx, m, r, index, x, f, N, C, B, bases, keys, p)
             BY <1>1, <1>2, <1>3, <1>9, <1>13, <1>18, <2>1, <2>2 DEF Passing
       <2>4. QED
             BY <2>3, RingPasses DEF Cs
<1>19. ASSUME C[index + 1] = combination(B, keys, bases) PROVE verifyOver(rctx, p, Cs, bases, m, chal)
       <2>1. capacity(rctx.n, m) >= Len(Cs)
             BY <1>1, <1>3, <1>8
       <2>2. equationsHold(rctx, p, Cs, bases, m, x, f)
             BY <1>17, <1>18, <1>19 DEF equationsHold
       <2>3. holdsAt(rctx, p, Cs, bases, m, x)
             BY <1>15, <2>2 DEF holdsAt
       <2>4. QED
             BY <1>1, <1>16, <2>1, <2>3 DEF verifyOver
<1>20. QED
       BY <1>7, <1>12, <1>13, <1>14, <1>19 DEF Cs

-------------------------------------------------------------------------------
(* One generator less.                                                     *)

LEMMA NegativeProduct == \A a, b \in Scalar : SMul(SNeg(a), b) = SNeg(SMul(a, b))
BY RingLaws

\* A function on 1 .. n + 1 without its entry k.
less(n, s, k) == [i \in 1 .. n |-> IF i < k THEN s[i] ELSE s[i + 1]]

LEMMA SumWithout ==
    ASSUME NEW n \in Nat, NEW s \in Scalars(n + 1), NEW k \in 1 .. n + 1
    PROVE  /\ less(n, s, k) \in Scalars(n)
           /\ SSum(s) = SAdd(s[k], SSum(less(n, s, k)))
           /\ SSum(less(n, s, k)) \in Scalar /\ s[k] \in Scalar
<1> DEFINE w == less(n, s, k)
           v == scalarSums(w)
           N == n + 1
           t == [i \in 0 .. N |-> IF i < k THEN v[i] ELSE SAdd(s[k], v[i - 1])]
<1>1. \A i \in 1 .. N : s[i] \in Scalar
      BY DEF Scalars
<1>2. \A i \in 1 .. n : /\ i \in 1 .. N /\ i + 1 \in 1 .. N
                        /\ w[i] = IF i < k THEN s[i] ELSE s[i + 1]
      BY DEF less
<1>3. w \in Scalars(n)
      BY <1>1, <1>2 DEF Scalars, less
<1> HIDE DEF w
<1>4. /\ v \in [0 .. n -> Scalar] /\ v[0] = 0 /\ SSum(w) = v[n]
      /\ \A i \in 1 .. n : v[i] = SAdd(v[i - 1], w[i])
      BY <1>3, SumWalk
<1> HIDE DEF v
<1>5. s[k] \in Scalar /\ N \in Nat /\ k \in 1 .. N
      BY <1>1
<1>6. t[0] = 0 /\ t[N] = SAdd(s[k], v[n])
      <2>1. 0 \in 0 .. N /\ 0 < k /\ N \in 0 .. N /\ ~(N < k) /\ N - 1 = n
            BY <1>5
      <2>2. QED
            BY <1>4, <2>1
<1>7. ASSUME NEW i \in 1 .. N, t[i - 1] \in Scalar PROVE t[i] = SAdd(t[i - 1], s[i])
      <2>1. i \in 0 .. N /\ i - 1 \in 0 .. N
            BY <1>5
      <2>2. /\ t[i] = IF i < k THEN v[i] ELSE SAdd(s[k], v[i - 1])
            /\ t[i - 1] = IF i - 1 < k THEN v[i - 1] ELSE SAdd(s[k], v[i - 1 - 1])
            BY <2>1
      <2> HIDE DEF t
      <2>3. CASE i < k
            <3>1. i \in 1 .. n /\ i - 1 < k
                  BY <1>5, <2>3
            <3>2. w[i] = s[i]
                  BY <1>2, <2>3, <3>1
            <3>3. QED
                  BY <1>4, <2>2, <2>3, <3>1, <3>2
      <2>4. CASE i = k
            <3>1. i - 1 \in 0 .. n /\ i - 1 < k /\ ~(i < k)
                  BY <1>5, <2>4
            <3>2. v[i - 1] \in Scalar
                  BY <1>4, <3>1
            <3>3. SAdd(s[k], v[i - 1]) = SAdd(v[i - 1], s[k])
                  BY <1>5, <3>2, RingLaws
            <3>4. QED
                  BY <2>2, <2>4, <3>1, <3>3
      <2>5. CASE i > k
            <3> DEFINE j == i - 1
            <3>1. j \in 1 .. n /\ j + 1 = i /\ ~(j < k) /\ ~(i < k) /\ j - 1 \in 0 .. n
                  BY <1>5, <2>5
            <3>2. w[j] = s[i]
                  BY <1>2, <3>1
            <3>3. v[j] = SAdd(v[j - 1], w[j])
                  BY <1>4, <3>1
            <3>4. v[j - 1] \in Scalar /\ s[i] \in Scalar
                  BY <1>1, <1>4, <3>1
            <3>5. t[i] = SAdd(s[k], v[j]) /\ t[j] = SAdd(s[k], v[j - 1])
                  BY <2>2, <3>1
            <3> HIDE DEF j
            <3>6. SAdd(s[k], SAdd(v[j - 1], s[i])) = SAdd(SAdd(s[k], v[j - 1]), s[i])
                  <4> DEFINE a == s[k]
                             b == v[j - 1]
                             c == s[i]
                  <4>1. a \in Scalar /\ b \in Scalar /\ c \in Scalar
                        BY <1>5, <3>4
                  <4> HIDE DEF a, b, c
                  <4>2. SAdd(SAdd(a, b), c) = SAdd(a, SAdd(b, c))
                        BY <4>1, SAddAssociates
                  <4>3. QED
                        BY <4>2 DEF a, b, c
            <3>7. t[i] = SAdd(t[j], s[i])
                  BY <3>2, <3>3, <3>5, <3>6
            <3>8. QED
                  BY <3>7 DEF j
      <2>6. QED
            BY <1>5, <2>3, <2>4, <2>5
<1>8. SSum(s) = t[N]
      <2> HIDE DEF t
      <2>1. s \in Scalars(N)
            OBVIOUS
      <2> HIDE DEF N
      <2>2. QED
            BY <1>5, <1>6, <1>7, <2>1, SumOnly
<1>9. v[n] \in Scalar
      BY <1>4
<1>10. QED
       BY <1>3, <1>4, <1>5, <1>6, <1>8, <1>9 DEF w

LEMMA WithoutIs ==
    ASSUME NEW n \in Nat, NEW S, NEW s \in [1 .. n + 1 -> S], NEW k \in 1 .. n + 1
    PROVE  without(s, k) = less(n, s, k)
<1> DEFINE a == SubSeq(s, 1, k - 1)
           b == SubSeq(s, k + 1, n + 1)
<1>1. s \in Seq(S) /\ Len(s) = n + 1
      OBVIOUS
<1>2. a \in Seq(S) /\ Len(a) = k - 1 /\ \A i \in 1 .. k - 1 : a[i] = s[i]
      BY <1>1
<1>3. b \in Seq(S) /\ Len(b) = n + 1 - k /\ \A i \in 1 .. n + 1 - k : b[i] = s[k + i]
      <2>1. b \in Seq(S) /\ Len(b) = n + 1 - k
            BY <1>1
      <2>2. ASSUME NEW i \in 1 .. n + 1 - k PROVE b[i] = s[k + i]
            <3>1. b[i] = s[(k + 1) + i - 1]
                  BY <1>1
            <3>2. (k + 1) + i - 1 = k + i
                  OBVIOUS
            <3>3. QED
                  BY <3>1, <3>2
      <2>3. QED
            BY <2>1, <2>2
<1>4. without(s, k) = a \o b
      BY <1>1 DEF without
<1> HIDE DEF a, b
<1>5. /\ a \o b \in Seq(S) /\ Len(a \o b) = n
      /\ \A i \in 1 .. n : (a \o b)[i] = IF i <= k - 1 THEN a[i] ELSE b[i - (k - 1)]
      <2>1. Len(a) + Len(b) = n
            BY <1>2, <1>3
      <2>2. /\ a \o b \in Seq(S) /\ Len(a \o b) = Len(a) + Len(b)
            /\ \A i \in 1 .. Len(a) + Len(b) : (a \o b)[i] = IF i <= Len(a) THEN a[i] ELSE b[i - Len(a)]
            BY <1>2, <1>3, ConcatProperties
      <2>3. QED
            BY <1>2, <2>1, <2>2
<1>6. ASSUME NEW i \in 1 .. n PROVE (a \o b)[i] = IF i < k THEN s[i] ELSE s[i + 1]
      <2>1. CASE i < k
            <3>1. i \in 1 .. k - 1 /\ i <= k - 1
                  BY <2>1
            <3>2. QED
                  BY <1>2, <1>5, <2>1, <3>1
      <2>2. CASE ~(i < k)
            <3>1. ~(i <= k - 1) /\ i - (k - 1) \in 1 .. n + 1 - k /\ k + (i - (k - 1)) = i + 1
                  BY <2>2
            <3>2. QED
                  BY <1>3, <1>5, <2>2, <3>1
      <2>3. QED
            BY <2>1, <2>2
<1>7. a \o b = [i \in 1 .. n |-> (a \o b)[i]]
      <2> DEFINE q == a \o b
      <2>1. q \in Seq(S) /\ Len(q) = n
            BY <1>5
      <2> HIDE DEF q
      <2>2. q \in [1 .. Len(q) -> S]
            BY <2>1, LenProperties
      <2>3. q = [i \in 1 .. n |-> q[i]]
            BY <2>1, <2>2
      <2>4. QED
            BY <2>3 DEF q
<1>8. a \o b = less(n, s, k)
      BY <1>6, <1>7 DEF less
<1>9. QED
      BY <1>4, <1>8

\* What is left of a combination when one of its terms is taken off.
LEMMA CombinationWithout ==
    ASSUME NEW n \in Nat, NEW e \in Scalars(n + 1), NEW P \in Points(n + 1), NEW k \in 1 .. n + 1
    PROVE  /\ less(n, e, k) \in Scalars(n) /\ less(n, P, k) \in Points(n)
           /\ GAdd(GMul(SNeg(e[k]), P[k]), combination(n + 1, e, P)) = combination(n, less(n, e, k), less(n, P, k))
<1> DEFINE N == n + 1
           e1 == less(n, e, k)
           P1 == less(n, P, k)
           T == GMul(SNeg(e[k]), P[k])
           L == GAdd(T, combination(N, e, P))
           R == combination(n, e1, P1)
<1>1. N \in Nat /\ k \in 1 .. N
      OBVIOUS
<1>2. e1 \in Scalars(n)
      BY SumWithout
<1>3. \A i \in 1 .. N : P[i] \in Point /\ e[i] \in Scalar
      BY DEF Points, Scalars
<1>4. \A i \in 1 .. n : /\ i \in 1 .. N /\ i + 1 \in 1 .. N
                        /\ P1[i] = (IF i < k THEN P[i] ELSE P[i + 1])
                        /\ e1[i] = (IF i < k THEN e[i] ELSE e[i + 1])
      BY DEF less
<1>5. P1 \in Points(n)
      <2>1. P1 = [i \in 1 .. n |-> P1[i]]
            BY DEF less
      <2> HIDE DEF P1
      <2>2. QED
            BY <1>3, <1>4, <2>1 DEF Points
<1>6. SNeg(e[k]) \in Scalar /\ e[k] \in Scalar /\ P[k] \in Point
      BY <1>1, <1>3, Closed
<1>7. e \in Scalars(N) /\ P \in Points(N)
      OBVIOUS
<1> HIDE DEF N, e1, P1, T, L, R
<1>8. T \in Point /\ combination(N, e, P) \in Point /\ L \in Point
      BY <1>1, <1>6, <1>7, GMulIs, GAddIs, CombinationIs DEF T, L
<1>9. R \in Point
      BY <1>2, <1>5, CombinationIs DEF R
<1>10. ASSUME NEW d \in 1 .. Dim PROVE L[d] = R[d]
       <2> DEFINE g == part(N, P, d)
                  h == part(n, P1, d)
                  s == [i \in 1 .. N |-> SMul(e[i], g[i])]
                  w == [i \in 1 .. n |-> SMul(e1[i], h[i])]
       <2>1. /\ g \in Scalars(N) /\ combination(N, e, P)[d] = dot(N, e, g)
             BY <1>1, <1>7, InCoordinate
       <2>2. R[d] = dot(n, e1, h)
             BY <1>2, <1>5, InCoordinate DEF R
       <2>3. T[d] = SMul(SNeg(e[k]), g[k])
             <3>1. T = [i \in 1 .. Dim |-> SMul(SNeg(e[k]), P[k][i])]
                   BY <1>6, GMulIs DEF T
             <3>2. g[k] = P[k][d]
                   BY <1>1 DEF part
             <3>3. QED
                   BY <3>1, <3>2
       <2>4. L[d] = SAdd(T[d], combination(N, e, P)[d])
             BY <1>8, SumInCoordinate DEF L
       <2>5. \A i \in 1 .. N : g[i] \in Scalar /\ s[i] \in Scalar
             <3>1. \A i \in 1 .. N : g[i] \in Scalar
                   BY <2>1 DEF Scalars
             <3> HIDE DEF g
             <3>2. QED
                   BY <1>3, <3>1, Closed
       <2>6. s \in Scalars(N)
             <3>1. s = [i \in 1 .. N |-> s[i]]
                   OBVIOUS
             <3> HIDE DEF s
             <3>2. QED
                   BY <2>5, <3>1 DEF Scalars
       <2>7. w = less(n, s, k)
             <3>1. ASSUME NEW i \in 1 .. n PROVE w[i] = IF i < k THEN s[i] ELSE s[i + 1]
                   <4>1. h[i] = P1[i][d] /\ w[i] = SMul(e1[i], h[i])
                         BY DEF part
                   <4>2. /\ s[i] = SMul(e[i], g[i]) /\ s[i + 1] = SMul(e[i + 1], g[i + 1])
                         /\ g[i] = P[i][d] /\ g[i + 1] = P[i + 1][d]
                         BY <1>4 DEF part
                   <4> HIDE DEF w, s, g, h
                   <4>3. QED
                         BY <1>4, <4>1, <4>2
             <3>2. w = [i \in 1 .. n |-> w[i]]
                   OBVIOUS
             <3> HIDE DEF w, s
             <3>3. QED
                   BY <3>1, <3>2 DEF less
       <2>8. dot(N, e, g) = SSum(s) /\ dot(n, e1, h) = SSum(w)
             BY DEF dot
       <2>9. s[k] = SMul(e[k], g[k]) /\ g[k] \in Scalar
             BY <1>1, <2>5
       <2> HIDE DEF g, h, s, w
       <2>10. SSum(s) = SAdd(s[k], SSum(w)) /\ SSum(w) \in Scalar /\ s[k] \in Scalar
              BY <1>1, <2>6, <2>7, SumWithout DEF N
       <2>11. T[d] = SNeg(s[k])
              BY <1>6, <2>3, <2>9, NegativeProduct
       <2>12. SAdd(SNeg(s[k]), SAdd(s[k], SSum(w))) = SSum(w)
              <3> DEFINE a == s[k]
                         b == SSum(w)
              <3>1. a \in Scalar /\ b \in Scalar /\ SNeg(a) \in Scalar
                    BY <2>10, Closed
              <3> HIDE DEF a, b
              <3>2. SAdd(SNeg(a), SAdd(a, b)) = SAdd(SAdd(SNeg(a), a), b)
                    BY <3>1, RingLaws
              <3>3. SAdd(SAdd(SNeg(a), a), b) = b
                    BY <3>1, RingLaws
              <3>4. QED
                    BY <3>2, <3>3 DEF a, b
       <2>13. QED
              BY <2>1, <2>2, <2>4, <2>8, <2>10, <2>11, <2>12
<1>11. L = R
       BY <1>8, <1>9, <1>10, SamePoint
<1>12. QED
       BY <1>2, <1>5, <1>11 DEF N, e1, P1, T, L, R

\* A combination of one point.
LEMMA OneTerm ==
    ASSUME NEW e \in Scalars(1), NEW P \in Points(1)
    PROVE  combination(1, e, P) = GMul(e[1], P[1])
<1> DEFINE L == combination(1, e, P)
           R == GMul(e[1], P[1])
<1>1. e[1] \in Scalar /\ P[1] \in Point /\ 1 \in Nat
      BY DEF Scalars, Points
<1>2. L \in Point /\ R \in Point
      BY <1>1, CombinationIs, GMulIs
<1>3. ASSUME NEW d \in 1 .. Dim PROVE L[d] = R[d]
      <2> DEFINE g == part(1, P, d)
                 s == [i \in 1 .. 1 |-> SMul(e[i], g[i])]
      <2>1. g \in Scalars(1) /\ L[d] = dot(1, e, g)
            BY <1>1, InCoordinate
      <2>2. g[1] = P[1][d] /\ s[1] = SMul(e[1], g[1])
            BY DEF part
      <2>3. R[d] = SMul(e[1], P[1][d])
            <3>1. R = [i \in 1 .. Dim |-> SMul(e[1], P[1][i])]
                  BY <1>1, GMulIs
            <3>2. QED
                  BY <3>1
      <2>4. dot(1, e, g) = SSum(s)
            BY DEF dot
      <2>5. s \in Scalars(1) /\ s[1] \in Scalar
            <3>1. g[1] \in Scalar
                  BY <2>1 DEF Scalars
            <3> HIDE DEF g
            <3>2. SMul(e[1], g[1]) \in Scalar
                  BY <1>1, <3>1, Closed
            <3>3. \A i \in 1 .. 1 : i = 1
                  OBVIOUS
            <3>4. QED
                  BY <3>2, <3>3 DEF Scalars
      <2> HIDE DEF g, s, L, R
      <2>6. SSum(s) = s[1]
            <3>1. 1 \in 1 .. 1 /\ \A i \in 1 .. 1 : i # 1 => s[i] = 0
                  OBVIOUS
            <3>2. QED
                  BY <1>1, <2>5, <3>1, SumOfOne
      <2>7. QED
            BY <2>1, <2>2, <2>3, <2>4, <2>6
<1>4. QED
      BY <1>2, <1>3, SamePoint

\* The prover over a ring of points, whatever it is asked.
Asked(rctx, m, r, index, N, C, B, bases, keys) ==
    /\ ContextOk(rctx) /\ m \in Nat /\ Randoms(r, m, rctx.n)
    /\ index \in Nat /\ N \in Nat /\ C \in Points(N)
    /\ B \in Nat /\ bases \in Points(B) /\ keys \in Scalars(B)

LEMMA ProverComplete ==
    ASSUME RingHashesAreBytes,
           NEW rctx, NEW m, NEW r, NEW index, NEW N, NEW C, NEW B, NEW bases, NEW keys,
           Asked(rctx, m, r, index, N, C, B, bases, keys), NEW chal \in Nat,
           NEW p, p = proveOver(rctx, published(N, C), index, bases, keys, m, chal, r), p.ok
    PROVE  /\ index < N
           /\ Len(p.coms) = 4 + m /\ Len(p.f) = m /\ Len(p.z) = B
           /\ C[index + 1] = combination(B, keys, bases) => verifyOver(rctx, p, published(N, C), bases, m, chal)
<1> DEFINE q == challenged(rctx, published(N, C), index, keys, m, chal, r, comsOver(rctx, m, r, index, bases, N, C))
           bad == capacity(rctx.n, m) < N \/ index >= N \/ m > rctx.m \/ r.overflow
<1>1. /\ ContextOk(rctx) /\ m \in Nat /\ Randoms(r, m, rctx.n)
      /\ index \in Nat /\ N \in Nat /\ C \in Points(N)
      /\ B \in Nat /\ bases \in Points(B) /\ keys \in Scalars(B)
      BY DEF Asked
<1>2. rctx.n \in Nat /\ rctx.m \in Nat
      BY <1>1 DEF ContextOk
<1>3. capacity(rctx.n, m) \in Nat
      <2> DEFINE n == rctx.n
      <2>1. n \in Nat
            BY <1>2
      <2> HIDE DEF n
      <2>2. capacity(n, m) \in Nat
            BY <1>1, <2>1, CapacityTyped
      <2>3. QED
            BY <2>2 DEF n
<1>4. /\ Refuses(rctx, m, r, index, N) => p = Refused
      /\ ~Refuses(rctx, m, r, index, N) => p = q
      BY <1>1, ProveOverIs
<1>5. ~bad /\ p = q
      <2>1. ASSUME Refuses(rctx, m, r, index, N) PROVE FALSE
            <3>1. p = Refused
                  BY <1>4, <2>1
            <3>2. p.ok = FALSE
                  BY <3>1 DEF Refused
            <3>3. QED
                  BY <3>2
      <2>2. ~bad
            BY <2>1 DEF Refuses
      <2>3. p = q
            BY <1>4, <2>1
      <2>4. QED
            BY <2>2, <2>3
<1>6. index < N /\ N <= capacity(rctx.n, m) /\ m <= rctx.m
      <2> DEFINE c == capacity(rctx.n, m)
                 M == rctx.m
      <2>1. ~(c < N) /\ ~(index >= N) /\ ~(m > M)
            BY <1>5
      <2>2. c \in Nat /\ M \in Nat
            BY <1>2, <1>3
      <2> HIDE DEF c, M
      <2>3. index < N /\ N <= c /\ m <= M
            BY <1>1, <2>1, <2>2
      <2>4. QED
            BY <2>3 DEF c, M
<1>7. Asking(rctx, m, r, index, N, C, B, bases, keys)
      BY <1>1, <1>6 DEF Asking
<1>8. p = q
      BY <1>5
<1> HIDE DEF bad
<1>9. QED
      BY <1>6, <1>7, <1>8, OverComplete

-------------------------------------------------------------------------------
(* The contexts, the keys and the ring of a job.                           *)

Spans(rctx, B) ==
    /\ ContextOk(rctx) /\ rctx.n = RingBase /\ rctx.m = RingDigits
    /\ B \in Nat /\ B = rctx.topics + 1 /\ rctx.topics \in Nat /\ rctx.geng \in Points(B)

LEMMA PlainContext ==
    Spans(ringcip_context_create(Infinity), 1) /\ ringcip_context_create(Infinity).topics = 0
<1> DEFINE c == ringcip_context_create(Infinity)
           N == RingBase * RingDigits
           f == [k \in 1 .. N |-> Unit(1 + 2 + k)]
<1>1. /\ c.n = RingBase /\ c.m = RingDigits /\ c.topics = 0 /\ c.geng = <<Unit(1)>> /\ c.genh = Unit(1 + 1)
      /\ c.multigen = SubSeq(f, 1, N)
      BY DEF ringcip_context_create, Tuple
<1>2. RingBase \in Nat /\ RingBase > 1 /\ RingDigits \in Nat /\ N \in Nat
      BY RingCipAssumption
<1>3. f = [k \in 1 .. N |-> f[k]] /\ \A k \in 1 .. N : f[k] = Unit(1 + 2 + k)
      OBVIOUS
<1> HIDE DEF c, f, N
<1>4. c.multigen = f
      BY <1>1, <1>2, <1>3, TupleIs
<1>5. \A k \in 1 .. N : c.multigen[k] \in Point
      BY <1>3, <1>4, UnitIs
<1>6. c.genh \in Point /\ Unit(1) \in Point
      BY <1>1, UnitIs
<1>7. c.geng \in Points(1)
      <2>1. <<Unit(1)>> \in [1 .. 1 -> Point]
            <3> DEFINE u == Unit(1)
            <3>1. u \in Point
                  BY <1>6
            <3> HIDE DEF u
            <3>2. <<u>> \in [1 .. 1 -> Point]
                  BY <3>1
            <3>3. QED
                  BY <3>2 DEF u
      <2>2. QED
            BY <1>1, <2>1 DEF Points
<1>8. ContextOk(c)
      BY <1>1, <1>2, <1>5, <1>6 DEF ContextOk, N
<1>9. QED
      BY <1>1, <1>7, <1>8 DEF Spans, c

LEMMA TopicContext ==
    /\ Spans(ringcip_DBPoE_context_create, TopicSize + 1)
    /\ ringcip_DBPoE_context_create.topics = TopicSize
<1> DEFINE c == ringcip_DBPoE_context_create
           N == RingBase * RingDigits
           B == TopicSize + 1
           f == [k \in 1 .. N |-> Unit(TopicSize + 3 + k)]
           g == [k \in 1 .. B |-> Unit(k)]
<1>1. /\ c.n = RingBase /\ c.m = RingDigits /\ c.topics = TopicSize /\ c.genh = Unit(TopicSize + 2)
      /\ c.geng = SubSeq(g, 1, B) /\ c.multigen = SubSeq(f, 1, N)
      BY DEF ringcip_DBPoE_context_create, Tuple
<1>2. /\ RingBase \in Nat /\ RingBase > 1 /\ RingDigits \in Nat /\ N \in Nat
      /\ TopicSize \in Nat /\ B \in Nat
      BY RingCipAssumption
<1>3. /\ f = [k \in 1 .. N |-> f[k]] /\ \A k \in 1 .. N : f[k] = Unit(TopicSize + 3 + k)
      /\ g = [k \in 1 .. B |-> g[k]] /\ \A k \in 1 .. B : g[k] = Unit(k)
      OBVIOUS
<1>4. B = TopicSize + 1
      OBVIOUS
<1> HIDE DEF c, f, g, N, B
<1>5. c.multigen = f /\ c.geng = g
      BY <1>1, <1>2, <1>3, TupleIs
<1>6. \A k \in 1 .. N : c.multigen[k] \in Point
      BY <1>3, <1>5, UnitIs
<1>7. c.genh \in Point
      BY <1>1, UnitIs
<1>8. c.geng \in Points(B)
      <2>1. \A k \in 1 .. B : g[k] \in Point
            BY <1>3, UnitIs
      <2>2. QED
            BY <1>3, <1>5, <2>1 DEF Points
<1>9. ContextOk(c)
      BY <1>1, <1>2, <1>6, <1>7 DEF ContextOk, N
<1>10. QED
       BY <1>1, <1>2, <1>4, <1>8, <1>9 DEF Spans, c, B

LEMMA JobTyped ==
    ASSUME NEW job \in RingJob
    PROVE  /\ job.msks \in Seq(Scalar) /\ job.index \in Nat /\ job.msk \in Bytes32 /\ job.W \in Nat
           /\ job.name \in Nat /\ job.m \in Nat /\ job.draws \in Seq(Bytes32) /\ job.topic \in Nat
           /\ Len(job.draws) >= 4 + job.m * RingBase
           /\ [job EXCEPT !.name = job.name] = job
<1>1. job \in [msks : Seq(Scalar), index : Nat, msk : Bytes32, W : Nat, name : Nat, m : Nat \ {0},
               draws : Seq(Bytes32), topic : Nat]
      BY RingJobAssumption
<1>2. Len(job.draws) >= 4 + job.m * RingBase
      BY RingJobAssumption
<1>3. QED
      BY <1>1, <1>2

\* The keys under a master key, one for every generator.
keysOf(job, msk) == IF job.topic = 0 THEN <<ScalarOf(msk)>> ELSE topicKeys(rctxOf(job), msk)

LEMMA JobContext ==
    ASSUME NEW job \in RingJob
    PROVE  LET c == rctxOf(job)
           IN Spans(c, c.topics + 1) /\ c.topics = IF job.topic = 0 THEN 0 ELSE TopicSize
<1>1. CASE job.topic = 0
      <2>1. rctxOf(job) = ringcip_context_create(Infinity)
            BY <1>1 DEF rctxOf
      <2> DEFINE c == ringcip_context_create(Infinity)
      <2>2. Spans(c, 1) /\ c.topics = 0
            BY PlainContext
      <2> HIDE DEF c
      <2>3. c.topics + 1 = 1
            BY <2>2
      <2>4. QED
            BY <1>1, <2>1, <2>2, <2>3 DEF c
<1>2. CASE job.topic # 0
      <2>1. rctxOf(job) = ringcip_DBPoE_context_create
            BY <1>2 DEF rctxOf
      <2> DEFINE c == ringcip_DBPoE_context_create
      <2>2. Spans(c, TopicSize + 1) /\ c.topics = TopicSize
            BY TopicContext
      <2> HIDE DEF c
      <2>3. QED
            BY <1>2, <2>1, <2>2 DEF c
<1>3. QED
      BY <1>1, <1>2

LEMMA BytesAreNumbers == ASSUME NEW b \in Bytes32 PROVE b \in Nat
BY BytesMakeScalars

LEMMA HashTyped == ASSUME RingHashesAreBytes, NEW s \in Seq(Nat) PROVE Hash(s) \in Bytes32 /\ ScalarOf(Hash(s)) \in Scalar
<1>1. Hash(s) \in Bytes32
      BY DEF RingHashesAreBytes
<1>2. QED
      BY <1>1, BytesMakeScalars

LEMMA TopicKeysTyped ==
    ASSUME RingHashesAreBytes, NEW rctx, rctx.topics \in Nat, NEW msk \in Bytes32
    PROVE  topicKeys(rctx, msk) \in Scalars(rctx.topics + 1)
<1> DEFINE n == rctx.topics
           f == [k \in 1 .. n |-> ScalarOf(Hash(<<msk, k, 10>>))]
           one == <<ScalarOf(msk)>>
<1>1. msk \in Nat /\ ScalarOf(msk) \in Scalar
      BY BytesMakeScalars
<1>2. n \in Nat
      OBVIOUS
<1>3. topicKeys(rctx, msk) = one \o SubSeq(f, 1, n)
      BY DEF topicKeys, Tuple
<1> HIDE DEF n
<1>4. \A k \in 1 .. n : ScalarOf(Hash(<<msk, k, 10>>)) \in Scalar
      <2>1. ASSUME NEW k \in 1 .. n PROVE ScalarOf(Hash(<<msk, k, 10>>)) \in Scalar
            <3>1. k \in Nat /\ 10 \in Nat
                  BY <1>2
            <3>2. <<msk, k, 10>> \in Seq(Nat)
                  BY <1>1, <3>1
            <3>3. QED
                  BY <3>2, HashTyped
      <2>2. QED
            BY <2>1
<1>5. f = [k \in 1 .. n |-> f[k]] /\ f \in [1 .. n -> Scalar]
      BY <1>4
<1>6. one \in Seq(Scalar) /\ Len(one) = 1
      <2> DEFINE s == ScalarOf(msk)
      <2>1. s \in Scalar
            BY <1>1
      <2> HIDE DEF s
      <2>2. <<s>> \in Seq(Scalar) /\ Len(<<s>>) = 1
            BY <2>1
      <2>3. QED
            BY <2>2 DEF s
<1> HIDE DEF f, one
<1>7. SubSeq(f, 1, n) = f
      BY <1>2, <1>5, TupleIs
<1>8. f \in Seq(Scalar) /\ Len(f) = n
      BY <1>2, <1>5
<1>9. one \o f \in Seq(Scalar) /\ Len(one \o f) = n + 1
      <2>1. one \o f \in Seq(Scalar) /\ Len(one \o f) = Len(one) + Len(f)
            BY <1>6, <1>8, ConcatProperties
      <2> DEFINE l == Len(one \o f)
      <2>2. l = 1 + n
            BY <1>6, <1>8, <2>1
      <2> HIDE DEF l
      <2>3. l = n + 1
            BY <1>2, <2>2
      <2>4. QED
            BY <2>1, <2>3 DEF l
<1>10. one \o f \in [1 .. n + 1 -> Scalar]
       <2> DEFINE q == one \o f
       <2>1. q \in Seq(Scalar) /\ Len(q) = n + 1
             BY <1>9
       <2> HIDE DEF q
       <2>2. q \in [1 .. Len(q) -> Scalar]
             BY <2>1, LenProperties
       <2>3. QED
             BY <2>1, <2>2 DEF q
<1>11. QED
       BY <1>3, <1>7, <1>10 DEF Scalars, n

LEMMA KeysTyped ==
    ASSUME RingHashesAreBytes, NEW job \in RingJob, NEW msk \in Bytes32
    PROVE  keysOf(job, msk) \in Scalars(rctxOf(job).topics + 1)
<1> DEFINE c == rctxOf(job)
<1>1. Spans(c, c.topics + 1) /\ c.topics = IF job.topic = 0 THEN 0 ELSE TopicSize
      BY JobContext
<1>2. c.topics \in Nat
      BY <1>1 DEF Spans
<1>3. CASE job.topic = 0
      <2>1. c.topics + 1 = 1 /\ keysOf(job, msk) = <<ScalarOf(msk)>>
            BY <1>1, <1>3 DEF keysOf
      <2> DEFINE s == ScalarOf(msk)
      <2>2. s \in Scalar
            BY BytesMakeScalars
      <2> HIDE DEF s
      <2>3. <<s>> \in [1 .. 1 -> Scalar]
            BY <2>2
      <2>4. QED
            BY <2>1, <2>3 DEF Scalars, s
<1>4. CASE job.topic # 0
      <2>1. keysOf(job, msk) = topicKeys(c, msk)
            BY <1>4 DEF keysOf
      <2> HIDE DEF c
      <2>2. topicKeys(c, msk) \in Scalars(c.topics + 1)
            BY <1>2, TopicKeysTyped
      <2>3. QED
            BY <2>1, <2>2 DEF c
<1>5. QED
      BY <1>3, <1>4

\* The public key under a master key, as a point and as it is published.
keyPoint(job, msk) == combination(rctxOf(job).topics + 1, keysOf(job, msk), rctxOf(job).geng)
keyPoints(job) == [t \in 1 .. Len(job.msks) |-> keyPoint(job, job.msks[t])]

LEMMA MpkIs ==
    ASSUME RingHashesAreBytes, NEW job \in RingJob, NEW msk \in Scalar
    PROVE  keyPoint(job, msk) \in Point /\ mpkOf(job, msk).pk = ge_save_boquila(keyPoint(job, msk))
<1> DEFINE c == rctxOf(job)
           B == c.topics + 1
           e == keysOf(job, msk)
<1>1. Spans(c, B) /\ c.topics = IF job.topic = 0 THEN 0 ELSE TopicSize
      BY JobContext
<1>2. B \in Nat /\ c.geng \in Points(B) /\ c.topics \in Nat
      BY <1>1 DEF Spans
<1>3. msk \in Bytes32 /\ ~Overflow(msk)
      BY ScalarsAreBytes
<1>4. e \in Scalars(B)
      BY <1>3, KeysTyped
<1>5. keyPoint(job, msk) = combination(B, e, c.geng)
      BY DEF keyPoint
<1>6. keyPoint(job, msk) \in Point
      <2> HIDE DEF c, B, e
      <2>1. QED
            BY <1>2, <1>4, <1>5, CombinationIs
<1>7. CASE job.topic = 0
      <2>1. B = 1 /\ e = <<ScalarOf(msk)>>
            BY <1>1, <1>7 DEF keysOf
      <2>2. mpkOf(job, msk).pk = ge_save_boquila(GMul(ScalarOf(msk), c.geng[1]))
            <3>1. mpkOf(job, msk) = gen_mpk(c, msk)
                  BY <1>7 DEF mpkOf
            <3> HIDE DEF c
            <3>2. gen_mpk(c, msk).pk = ge_save_boquila(GMul(ScalarOf(msk), c.geng[1]))
                  BY <1>3 DEF gen_mpk
            <3>3. QED
                  BY <3>1, <3>2
      <2>3. e[1] = ScalarOf(msk)
            BY <2>1
      <2> HIDE DEF c, B, e
      <2>4. e \in Scalars(1) /\ c.geng \in Points(1)
            BY <1>2, <1>4, <2>1
      <2>5. combination(1, e, c.geng) = GMul(e[1], c.geng[1])
            BY <2>4, OneTerm
      <2>6. QED
            BY <1>5, <1>6, <2>1, <2>2, <2>3, <2>5
<1>8. CASE job.topic # 0
      <2>1. mpkOf(job, msk) = gen_DBPoE_mpk(c, msk) /\ e = topicKeys(c, msk)
            BY <1>8 DEF mpkOf, keysOf
      <2> DEFINE f == [k \in 1 .. B |-> GMul(e[k], c.geng[k])]
      <2>2. gen_DBPoE_mpk(c, msk).pk = ge_save_boquila(GSum(SubSeq(f, 1, B)))
            <3> DEFINE vals == topicKeys(c, msk)
                       h == [k \in 1 .. B |-> GMul(vals[k], c.geng[k])]
                       made == ge_save_boquila(GSum(SubSeq(h, 1, B)))
            <3>1. gen_DBPoE_mpk(c, msk) = [ok |-> TRUE, pk |-> made]
                  BY <1>3 DEF gen_DBPoE_mpk, Tuple
            <3>2. h = f
                  BY <2>1
            <3>3. gen_DBPoE_mpk(c, msk).pk = made
                  <4> HIDE DEF made
                  <4>1. QED
                        BY <3>1
            <3>4. made = ge_save_boquila(GSum(SubSeq(f, 1, B)))
                  <4> HIDE DEF vals, f, h, B, c
                  <4>1. QED
                        BY <3>2
            <3>5. QED
                  <4> HIDE DEF made, vals, f, h, B, c
                  <4>1. QED
                        BY <3>3, <3>4
      <2>3. GSum(SubSeq(f, 1, B)) = combination(B, e, c.geng)
            <3> DEFINE P == c.geng
            <3>1. f = [k \in 1 .. B |-> GMul(e[k], P[k])]
                  OBVIOUS
            <3> HIDE DEF P, f, e, B
            <3>2. GSum(SubSeq(f, 1, B)) = combination(B, e, P)
                  BY <1>2, <3>1, CombinesAs
            <3>3. QED
                  BY <3>2 DEF P
      <2> HIDE DEF c, B, e, f
      <2>4. QED
            BY <1>5, <1>6, <2>1, <2>2, <2>3
<1>9. QED
      BY <1>7, <1>8

\* The ring of a job.
LEMMA MpksAre ==
    ASSUME RingHashesAreBytes, NEW job \in RingJob
    PROVE  /\ Len(job.msks) \in Nat /\ keyPoints(job) \in Points(Len(job.msks))
           /\ mpksOf(job) = published(Len(job.msks), keyPoints(job))
<1> DEFINE N == Len(job.msks)
           D == keyPoints(job)
           f == [t \in 1 .. N |-> mpkOf(job, job.msks[t]).pk]
<1>1. job.msks \in Seq(Scalar)
      BY JobTyped
<1>2. N \in Nat /\ \A t \in 1 .. N : job.msks[t] \in Scalar
      BY <1>1
<1>3. mpksOf(job) = SubSeq(f, 1, N)
      BY DEF mpksOf, Tuple
<1>4. \A t \in 1 .. N : D[t] = keyPoint(job, job.msks[t])
      BY DEF keyPoints
<1>5. ASSUME NEW t \in 1 .. N PROVE D[t] \in Point /\ f[t] = ge_save_boquila(D[t])
      <2>1. job.msks[t] \in Scalar
            BY <1>2
      <2>2. keyPoint(job, job.msks[t]) \in Point /\ mpkOf(job, job.msks[t]).pk = ge_save_boquila(keyPoint(job, job.msks[t]))
            BY <2>1, MpkIs
      <2>3. QED
            BY <1>4, <2>2
<1>6. D = [t \in 1 .. N |-> D[t]] /\ f = [t \in 1 .. N |-> f[t]]
      BY DEF keyPoints
<1> HIDE DEF N, D, f
<1>7. D \in Points(N)
      BY <1>5, <1>6 DEF Points
<1>8. f = published(N, D)
      BY <1>5, <1>6 DEF published
<1>9. SubSeq(f, 1, N) = f
      BY <1>2, <1>6, TupleIs
<1>10. QED
       BY <1>2, <1>3, <1>7, <1>8, <1>9 DEF N, D

\* The key of the member at the index.
LEMMA MembersPoint ==
    ASSUME RingHashesAreBytes, NEW job \in RingJob, member(job)
    PROVE  keyPoints(job)[job.index + 1] = keyPoint(job, job.msk)
<1>1. job.index \in Nat /\ Len(job.msks) \in Nat
      BY JobTyped
<1>2. job.index + 1 \in 1 .. Len(job.msks) /\ job.msks[job.index + 1] = job.msk
      BY <1>1 DEF member
<1>3. QED
      BY <1>2 DEF keyPoints

\* The service key of a job.
LEMMA ServiceKeyIs ==
    ASSUME RingHashesAreBytes, NEW job \in RingJob, spkOf(job).ok
    PROVE  LET csk == ScalarOf(derive_ssk(job.msk, job.name))
               g == rctxOf(job).geng[1]
           IN /\ csk \in Scalar /\ g \in Point /\ ~Overflow(derive_ssk(job.msk, job.name))
              /\ spkOf(job).pk = ge_save_boquila(GMul(csk, g))
              /\ spkOf(job).pk \in Seq(Nat)
<1> DEFINE b == derive_ssk(job.msk, job.name)
           c == rctxOf(job)
           g == c.geng[1]
<1>1. job.msk \in Nat /\ job.name \in Nat
      BY JobTyped, BytesAreNumbers
<1>2. b \in Bytes32 /\ ScalarOf(b) \in Scalar
      <2>1. <<job.msk, job.name>> \in Seq(Nat)
            BY <1>1
      <2>2. QED
            BY <2>1, HashTyped DEF derive_ssk
<1>3. g \in Point
      <2>1. Spans(c, c.topics + 1)
            BY JobContext
      <2> HIDE DEF c
      <2>2. c.topics \in Nat /\ c.geng \in Points(c.topics + 1)
            BY <2>1 DEF Spans
      <2>3. 1 \in 1 .. c.topics + 1
            BY <2>2
      <2>4. QED
            BY <2>2, <2>3 DEF Points
<1>4. spkOf(job) = IF Overflow(b) THEN Refused ELSE [ok |-> TRUE, pk |-> ge_save_boquila(GMul(ScalarOf(b), g))]
      BY DEF spkOf, derive_spk
<1> HIDE DEF b, c, g
<1>5. ~Overflow(b) /\ spkOf(job).pk = ge_save_boquila(GMul(ScalarOf(b), g))
      <2>1. CASE Overflow(b)
            <3>1. spkOf(job).ok = FALSE
                  BY <1>4, <2>1 DEF Refused
            <3>2. QED
                  BY <3>1
      <2>2. CASE ~Overflow(b)
            BY <1>4, <2>2
      <2>3. QED
            BY <2>1, <2>2
<1>6. GMul(ScalarOf(b), g) \in Point
      BY <1>2, <1>3, GMulIs
<1>7. spkOf(job).pk \in Seq(Nat)
      BY <1>5, <1>6, FormTyped
<1>8. QED
      BY <1>2, <1>3, <1>5, <1>7 DEF b, c, g

LEMMA MessageIs ==
    ASSUME RingHashesAreBytes, NEW job \in RingJob, spkOf(job).ok
    PROVE  memberChallenge(spkOf(job).pk, job.W, job.name) \in Nat
<1> DEFINE spk == spkOf(job).pk
<1>1. spk \in Seq(Nat)
      BY ServiceKeyIs
<1>2. job.W \in Nat /\ job.name \in Nat
      BY JobTyped
<1> HIDE DEF spk
<1>3. spk \o <<job.W, job.name>> \in Seq(Nat)
      <2> DEFINE t == <<job.W, job.name>>
      <2>1. t \in Seq(Nat)
            BY <1>2
      <2> HIDE DEF t
      <2>2. spk \o t \in Seq(Nat)
            BY <1>1, <2>1
      <2>3. QED
            BY <2>2 DEF t
<1>4. QED
      BY <1>3, HashTyped, BytesAreNumbers DEF memberChallenge, spk

-------------------------------------------------------------------------------
(* What a member proves is accepted.                                       *)

\* The bytes of a proof are counted by the sizes of its three lists.
LEMMA BytesCount ==
    ASSUME NEW job \in RingJob, NEW p,
           Len(p.coms) = 4 + job.m, Len(p.f) = job.m,
           Len(p.z) = IF job.topic = 0 THEN 1 ELSE TopicSize
    PROVE  proofBytes(rctxOf(job), p) = allocated(job)
<1> DEFINE c == rctxOf(job)
           B == Len(p.z)
<1>1. job.m \in Nat
      BY JobTyped
<1>2. Spans(c, c.topics + 1) /\ c.topics = IF job.topic = 0 THEN 0 ELSE TopicSize
      BY JobContext
<1>3. c.n = RingBase /\ RingBase \in Nat /\ TopicSize \in Nat
      BY <1>2, RingCipAssumption DEF Spans
<1>4. allocated(job) = 33 * (4 + job.m) + 32 * (2 + B + job.m * (c.n - 1))
      <2>1. CASE job.topic = 0
            <3>1. allocated(job) = 33 * (4 + job.m) + 32 * (3 + job.m * (c.n - 1))
                  BY <2>1 DEF allocated, zero_mcom_get_size
            <3>2. B = 1
                  BY <2>1
            <3> HIDE DEF c, B
            <3>3. QED
                  BY <3>1, <3>2
      <2>2. CASE job.topic # 0
            <3>1. allocated(job) = 33 * (4 + job.m) + 32 * (2 + c.topics + job.m * (c.n - 1))
                  BY <2>2 DEF allocated, zero_mcom_DBPoE_get_size
            <3>2. B = c.topics
                  BY <1>2, <2>2
            <3> HIDE DEF c, B
            <3>3. QED
                  BY <3>1, <3>2
      <2>3. QED
            BY <2>1, <2>2
<1>5. proofBytes(c, p) = 33 * (4 + job.m) + 32 * (B + 2 + job.m * (c.n - 1))
      BY DEF proofBytes
<1>6. B \in Nat
      BY <1>3
<1> DEFINE u == job.m * (c.n - 1)
<1>7. u \in Int
      BY <1>1, <1>3
<1> HIDE DEF c, B, u
<1>8. B + 2 + u = 2 + B + u
      BY <1>6, <1>7
<1>9. allocated(job) = 33 * (4 + job.m) + 32 * (2 + B + u)
      BY <1>4 DEF u
<1>10. proofBytes(c, p) = 33 * (4 + job.m) + 32 * (B + 2 + u)
       BY <1>5 DEF u
<1>11. proofBytes(c, p) = allocated(job)
       BY <1>8, <1>9, <1>10
<1>12. QED
       BY <1>11 DEF c

\* A prover that was not refused.
LEMMA NotRefused ==
    ASSUME NEW bad \in BOOLEAN, NEW q, NEW p, p = IF bad THEN Refused ELSE q, p.ok
    PROVE  ~bad /\ p = q
<1>1. ASSUME bad PROVE FALSE
      <2>1. p.ok = FALSE
            BY <1>1 DEF Refused
      <2>2. QED
            BY <2>1
<1>2. QED
      BY <1>1

\* The values drawn for a job.
LEMMA JobDraws ==
    ASSUME NEW job \in RingJob
    PROVE  Randoms(drawn(rctxOf(job), job.m, job.draws), job.m, rctxOf(job).n)
<1> DEFINE c == rctxOf(job)
<1>1. Spans(c, c.topics + 1)
      BY JobContext
<1>2. c.n = RingBase
      BY <1>1 DEF Spans
<1>3. job.m \in Nat /\ job.draws \in Seq(Bytes32) /\ Len(job.draws) >= 4 + job.m * RingBase
      BY JobTyped
<1> HIDE DEF c
<1>4. Randoms(drawn(c, job.m, job.draws), job.m, RingBase)
      BY <1>2, <1>3, DrawnIs
<1>5. QED
      BY <1>2, <1>4 DEF c

LEMMA PlainComplete ==
    ASSUME RingHashesAreBytes, NEW job \in RingJob, job.topic = 0, spkOf(job).ok,
           NEW p, p = membershipOf(job, rctxOf(job), mpksOf(job), spkOf(job).pk), p.ok
    PROVE  /\ proofBytes(rctxOf(job), p) = allocated(job)
           /\ member(job) => verify_memmpk(rctxOf(job), p, mpksOf(job), job.W, job.name, spkOf(job).pk, job.m)
<1> DEFINE c == rctxOf(job)
           mpks == mpksOf(job)
           spk == spkOf(job).pk
           chal == memberChallenge(spk, job.W, job.name)
           r == drawn(c, job.m, job.draws)
           N == Len(job.msks)
           D == keyPoints(job)
           keys == <<ScalarOf(job.msk)>>
           bad == Overflow(job.msk)
           q == proveOver(c, mpks, job.index, c.geng, keys, job.m, chal, r)
<1>1. p = IF bad THEN Refused ELSE q
      BY DEF membershipOf, prove_memmpk, create_zero_mcom_proof
<1>2. p = q
      <2>1. bad \in BOOLEAN
            BY DEF Overflow
      <2> HIDE DEF bad, q
      <2>2. QED
            BY <1>1, <2>1, NotRefused
<1>3. N \in Nat /\ D \in Points(N) /\ mpks = published(N, D)
      BY MpksAre
<1>4. job.index \in Nat /\ job.msk \in Bytes32 /\ job.m \in Nat
      BY JobTyped
<1>5. Spans(c, c.topics + 1) /\ c.topics = 0
      BY JobContext
<1>6. ContextOk(c) /\ c.geng \in Points(1)
      <2> HIDE DEF c
      <2>1. ContextOk(c) /\ c.geng \in Points(c.topics + 1) /\ c.topics + 1 = 1
            BY <1>5 DEF Spans
      <2>2. QED
            BY <2>1
<1>7. keys \in Scalars(1) /\ keysOf(job, job.msk) = keys
      <2>1. keysOf(job, job.msk) = keys
            BY DEF keysOf
      <2>2. c.topics + 1 = 1
            BY <1>5
      <2>3. keysOf(job, job.msk) \in Scalars(c.topics + 1)
            BY <1>4, KeysTyped
      <2> HIDE DEF c, keys
      <2>4. QED
            BY <2>1, <2>2, <2>3
<1>8. Randoms(r, job.m, c.n)
      BY JobDraws
<1>9. chal \in Nat
      BY MessageIs
<1>10. member(job) => D[job.index + 1] = combination(1, keys, c.geng)
       <2> HAVE member(job)
       <2>1. D[job.index + 1] = keyPoint(job, job.msk)
             BY MembersPoint
       <2>2. keyPoint(job, job.msk) = combination(c.topics + 1, keysOf(job, job.msk), c.geng)
             BY DEF keyPoint
       <2> HIDE DEF c, D, keys
       <2>3. QED
             BY <1>5, <1>7, <2>1, <2>2
<1>11. verify_memmpk(c, p, mpks, job.W, job.name, spk, job.m) = verifyOver(c, p, mpks, c.geng, job.m, chal)
       BY DEF verify_memmpk, verify_zero_mcom_proof
<1> DEFINE g == c.geng
           m == job.m
           index == job.index
           B == 1
<1>12. Asked(c, m, r, index, N, D, B, g, keys)
       <2> HIDE DEF c, D, keys, r, N
       <2>1. QED
             BY <1>3, <1>4, <1>6, <1>7, <1>8 DEF Asked
<1>13. p = proveOver(c, published(N, D), index, g, keys, m, chal, r)
       <2> HIDE DEF c, D, keys, r, N, chal, mpks
       <2>1. QED
             BY <1>2, <1>3
<1>14. member(job) => D[index + 1] = combination(B, keys, g)
       BY <1>10
<1> HIDE DEF c, D, keys, r, N, chal, mpks, g, m, index, q, bad, spk, B
<1>15. /\ Len(p.coms) = 4 + m /\ Len(p.f) = m /\ Len(p.z) = B
       /\ D[index + 1] = combination(B, keys, g) => verifyOver(c, p, published(N, D), g, m, chal)
       BY <1>9, <1>12, <1>13, ProverComplete
<1>16. proofBytes(rctxOf(job), p) = allocated(job)
       <2>1. Len(p.coms) = 4 + job.m /\ Len(p.f) = job.m /\ Len(p.z) = IF job.topic = 0 THEN 1 ELSE TopicSize
             BY <1>15 DEF m, B
       <2>2. QED
             BY <2>1, BytesCount
<1>17. member(job) => verifyOver(c, p, mpks, g, m, chal)
       BY <1>3, <1>14, <1>15
<1>18. QED
       BY <1>11, <1>16, <1>17 DEF c, mpks, spk, g, m

\* The ring with the shown topic's share taken out of every key.
lessened(c, nul, k, D, N) == [t \in 1 .. N |-> GAdd(GMul(SNeg(nul), c.geng[k]), D[t])]

LEMMA LessenedIs ==
    ASSUME NEW c, NEW k \in Nat, NEW N \in Nat, NEW D \in Points(N), NEW nul \in Scalar, c.geng[k + 1] \in Point
    PROVE  /\ lessened(c, nul, k + 1, D, N) \in Points(N)
           /\ withoutTopic(c, published(N, D), nul, k) = published(N, lessened(c, nul, k + 1, D, N))
<1> DEFINE C == lessened(c, nul, k + 1, D, N)
           S == published(N, D)
           T == GMul(SNeg(ScalarOf(nul)), c.geng[k + 1])
           f == [t \in 1 .. N |-> ge_save_boquila(GAdd(T, ge_load_boquila(S[t])))]
<1>1. \A t \in 1 .. N : D[t] \in Point
      BY DEF Points
<1>2. ScalarOf(nul) = nul
      BY ScalarsAreBytes
<1>3. T \in Point
      <2>1. SNeg(nul) \in Scalar
            BY Closed
      <2>2. QED
            BY <1>2, <2>1, GMulIs
<1>4. C = [t \in 1 .. N |-> GAdd(T, D[t])]
      BY <1>2 DEF lessened
<1>5. Len(S) = N /\ \A t \in 1 .. N : S[t] = ge_save_boquila(D[t])
      BY SavedIs
<1>6. withoutTopic(c, S, nul, k) = SubSeq(f, 1, N)
      BY <1>5 DEF withoutTopic, Tuple
<1>7. f = [t \in 1 .. N |-> f[t]] /\ \A t \in 1 .. N : f[t] = ge_save_boquila(GAdd(T, ge_load_boquila(S[t])))
      OBVIOUS
<1> HIDE DEF T, S, f, C
<1>8. \A t \in 1 .. N : f[t] = ge_save_boquila(C[t]) /\ C[t] \in Point
      <2> TAKE t \in 1 .. N
      <2>1. ge_load_boquila(S[t]) = D[t]
            BY <1>1, <1>5, ReadsBack
      <2>2. C[t] = GAdd(T, D[t])
            BY <1>4
      <2>3. C[t] \in Point
            BY <1>1, <1>3, <2>2, GAddIs
      <2>4. QED
            BY <1>7, <2>1, <2>2, <2>3
<1>9. f = published(N, C)
      BY <1>7, <1>8 DEF published
<1>10. C \in Points(N)
       BY <1>4, <1>8 DEF Points
<1>11. SubSeq(f, 1, N) = f
       BY <1>7, TupleIs
<1>12. QED
       BY <1>6, <1>9, <1>10, <1>11 DEF C, S

LEMMA ShownIs ==
    ASSUME NEW q, NEW nul, NEW p, p = shown(q, nul), p.ok
    PROVE  q.ok /\ p.proof = q /\ p.nullifier = nul
<1>1. ASSUME ~q.ok PROVE FALSE
      <2>1. p = Refused
            BY <1>1 DEF shown
      <2>2. p.ok = FALSE
            BY <2>1 DEF Refused
      <2>3. QED
            BY <2>2
<1>2. p = [proof |-> q, nullifier |-> nul, ok |-> TRUE]
      BY <1>1 DEF shown
<1>3. QED
      BY <1>1, <1>2

LEMMA TopicComplete ==
    ASSUME RingHashesAreBytes, NEW job \in RingJob, job.topic # 0, spkOf(job).ok,
           NEW p, p = membershipOf(job, rctxOf(job), mpksOf(job), spkOf(job).pk), p.ok
    PROVE  /\ proofBytes(rctxOf(job), p.proof) = allocated(job)
           /\ member(job) => verify_DBPoE_memmpk(rctxOf(job), p.proof, p.nullifier, mpksOf(job), job.W, job.name,
                                                 spkOf(job).pk, job.topic, job.m)
<1> DEFINE c == rctxOf(job)
           mpks == mpksOf(job)
           spk == spkOf(job).pk
           chal == memberChallenge(spk, job.W, job.name)
           m == job.m
           index == job.index
           r == drawn(c, m, job.draws)
           N == Len(job.msks)
           D == keyPoints(job)
           B == c.topics
           topic == job.topic
           k == topic + 1
           v == topicKeys(c, job.msk)
           nul == v[k]
           C == lessened(c, nul, k, D, N)
           bases == without(c.geng, k)
           keys == without(v, k)
           bad == ~topicInRange(c, topic) \/ Overflow(job.msk)
           q == proveOver(c, withoutTopic(c, mpks, nul, topic), index, bases, keys, m, chal, r)
<1>1. p = IF bad THEN Refused ELSE shown(q, nul)
      BY DEF membershipOf, prove_DBPoE_memmpk, shownWith, create_zero_mcom_DBPoE_proof
<1>2. topicInRange(c, topic) /\ p = shown(q, nul)
      <2> DEFINE s == shown(q, nul)
      <2>1. bad \in BOOLEAN
            BY DEF Overflow
      <2>2. p = IF bad THEN Refused ELSE s
            BY <1>1
      <2>3. ~bad /\ p = s
            <3> HIDE DEF bad, s
            <3>1. QED
                  BY <2>1, <2>2, NotRefused
      <2> HIDE DEF s, c, topic
      <2>4. topicInRange(c, topic)
            BY <2>3
      <2>5. QED
            BY <2>3, <2>4 DEF s
<1>3. q.ok /\ p.proof = q /\ p.nullifier = nul
      <2> HIDE DEF q, nul
      <2>1. QED
            BY <1>2, ShownIs
<1>4. N \in Nat /\ D \in Points(N) /\ mpks = published(N, D)
      BY MpksAre
<1>5. index \in Nat /\ job.msk \in Bytes32 /\ m \in Nat /\ topic \in Nat
      BY JobTyped
<1>6. ContextOk(c) /\ c.geng \in Points(B + 1) /\ B = TopicSize /\ B \in Nat
      <2>1. Spans(c, c.topics + 1) /\ c.topics = TopicSize
            BY JobContext
      <2> HIDE DEF c
      <2>2. QED
            BY <2>1 DEF Spans
<1>7. k \in Nat /\ k \in 1 .. B + 1
      <2>1. topic > 0 /\ topic < B
            BY <1>2 DEF topicInRange
      <2> HIDE DEF topic, B
      <2>2. QED
            BY <1>5, <1>6, <2>1
<1>8. v \in Scalars(B + 1) /\ keysOf(job, job.msk) = v
      <2>1. keysOf(job, job.msk) = v
            BY DEF keysOf
      <2>2. keysOf(job, job.msk) \in Scalars(c.topics + 1)
            BY <1>5, KeysTyped
      <2> HIDE DEF c, v
      <2>3. QED
            BY <2>1, <2>2
<1>9. Randoms(r, m, c.n)
      BY JobDraws
<1>10. chal \in Nat
       BY MessageIs
<1>11. member(job) => D[index + 1] = combination(B + 1, v, c.geng)
       <2> HAVE member(job)
       <2>1. D[job.index + 1] = keyPoint(job, job.msk)
             BY MembersPoint
       <2>2. keyPoint(job, job.msk) = combination(c.topics + 1, keysOf(job, job.msk), c.geng)
             BY DEF keyPoint
       <2> HIDE DEF c, D, v
       <2>3. QED
             BY <1>8, <2>1, <2>2
<1>12. verify_DBPoE_memmpk(c, q, nul, mpks, job.W, job.name, spk, topic, m)
         = (topicInRange(c, topic) /\ verifyOver(c, q, withoutTopic(c, mpks, nul, topic), bases, m, chal))
       <2> HIDE DEF q, nul, c, mpks, spk, topic, m
       <2>1. QED
             BY DEF verify_DBPoE_memmpk, verify_zero_mcom_DBPoE_proof
<1> DEFINE g == c.geng
<1>13. nul \in Scalar /\ g[k] \in Point
       <2> HIDE DEF k, B, v, g
       <2>1. v[k] \in Scalar
             BY <1>7, <1>8 DEF Scalars
       <2>2. g[k] \in Point
             BY <1>6, <1>7 DEF Points, g
       <2>3. QED
             BY <2>1, <2>2
<1>14. C \in Points(N) /\ withoutTopic(c, mpks, nul, topic) = published(N, C)
       <2> HIDE DEF c, N, D, nul, mpks, topic
       <2>1. c.geng[topic + 1] \in Point
             BY <1>13
       <2>2. lessened(c, nul, topic + 1, D, N) \in Points(N)
             /\ withoutTopic(c, published(N, D), nul, topic) = published(N, lessened(c, nul, topic + 1, D, N))
             BY <1>4, <1>5, <1>13, <2>1, LessenedIs
       <2>3. QED
             BY <1>4, <2>2
<1>15. /\ bases = less(B, g, k) /\ keys = less(B, v, k)
       /\ less(B, v, k) \in Scalars(B) /\ less(B, g, k) \in Points(B)
       /\ GAdd(GMul(SNeg(v[k]), g[k]), combination(B + 1, v, g)) = combination(B, less(B, v, k), less(B, g, k))
       <2>1. bases = without(g, k)
             OBVIOUS
       <2>2. keys = without(v, k)
             OBVIOUS
       <2> HIDE DEF B, k, v, g, bases, keys
       <2>3. v \in [1 .. B + 1 -> Scalar] /\ g \in [1 .. B + 1 -> Point] /\ g \in Points(B + 1)
             BY <1>6, <1>8 DEF Scalars, Points, g
       <2>4. without(g, k) = less(B, g, k)
             BY <1>6, <1>7, <2>3, WithoutIs
       <2>5. without(v, k) = less(B, v, k)
             BY <1>6, <1>7, <2>3, WithoutIs
       <2>6. QED
             BY <1>6, <1>7, <1>8, <2>1, <2>2, <2>3, <2>4, <2>5, CombinationWithout
<1>16. member(job) => C[index + 1] = combination(B, keys, bases)
       <2> HAVE member(job)
       <2>1. D[index + 1] = combination(B + 1, v, g)
             BY <1>11
       <2>2. index + 1 \in 1 .. N
             BY <1>4, <1>5 DEF member
       <2>3. C[index + 1] = GAdd(GMul(SNeg(nul), g[k]), D[index + 1])
             <3> HIDE DEF N, index, D, nul, k, c
             <3>1. QED
                   BY <2>2 DEF lessened
       <2>4. nul = v[k]
             OBVIOUS
       <2> HIDE DEF C, D, index, B, v, g, nul, k, keys, bases
       <2>5. QED
             BY <1>15, <2>1, <2>3, <2>4
<1>17. Asked(c, m, r, index, N, C, B, bases, keys)
       <2>1. bases \in Points(B) /\ keys \in Scalars(B)
             <3> HIDE DEF B, k, v, g, bases, keys
             <3>1. QED
                   BY <1>15
       <2> HIDE DEF c, C, keys, r, N, bases, m, index, B
       <2>2. QED
             BY <1>4, <1>5, <1>6, <1>9, <1>14, <2>1 DEF Asked
<1>18. q = proveOver(c, published(N, C), index, bases, keys, m, chal, r)
       <2> DEFINE w == withoutTopic(c, mpks, nul, topic)
       <2>1. w = published(N, C)
             BY <1>14
       <2>2. q = proveOver(c, w, index, bases, keys, m, chal, r)
             OBVIOUS
       <2> HIDE DEF w, q, C, c, N, index, bases, keys, m, chal, r
       <2>3. QED
             BY <2>1, <2>2
<1> DEFINE vp == verify_DBPoE_memmpk(c, q, nul, mpks, job.W, job.name, spk, topic, m)
<1>19. vp = (topicInRange(c, topic) /\ verifyOver(c, q, published(N, C), bases, m, chal))
       <2> DEFINE w == withoutTopic(c, mpks, nul, topic)
       <2>1. w = published(N, C)
             BY <1>14
       <2>2. vp = (topicInRange(c, topic) /\ verifyOver(c, q, w, bases, m, chal))
             BY <1>12
       <2> HIDE DEF w, vp, q, C, c, N, topic, bases, m, chal
       <2>3. QED
             BY <2>1, <2>2
<1>20. verify_DBPoE_memmpk(rctxOf(job), p.proof, p.nullifier, mpksOf(job), job.W, job.name,
                           spkOf(job).pk, job.topic, job.m) = vp
       <2> DEFINE a == p.proof
                  b == p.nullifier
       <2>1. a = q /\ b = nul
             BY <1>3
       <2>2. verify_DBPoE_memmpk(c, a, b, mpks, job.W, job.name, spk, topic, m) = vp
             <3> HIDE DEF a, b, q, nul, c, mpks, spk, topic, m
             <3>1. QED
                   BY <2>1
       <2>3. QED
             BY <2>2
<1> HIDE DEF c, D, keys, r, N, chal, mpks, g, m, index, bad, spk, B, topic, k, v, nul, C, bases, q, vp
<1>21. /\ Len(q.coms) = 4 + m /\ Len(q.f) = m /\ Len(q.z) = B
       /\ C[index + 1] = combination(B, keys, bases) => verifyOver(c, q, published(N, C), bases, m, chal)
       BY <1>3, <1>10, <1>17, <1>18, ProverComplete
<1>22. proofBytes(rctxOf(job), q) = allocated(job)
       <2>1. Len(q.coms) = 4 + job.m /\ Len(q.f) = job.m /\ Len(q.z) = IF job.topic = 0 THEN 1 ELSE TopicSize
             BY <1>6, <1>21 DEF m, topic
       <2>2. QED
             BY <2>1, BytesCount
<1>23. proofBytes(rctxOf(job), p.proof) = allocated(job)
       BY <1>3, <1>22
<1>24. member(job) => vp
       BY <1>2, <1>16, <1>19, <1>21
<1>25. QED
       BY <1>20, <1>23, <1>24

\* A multiple of a multiple, and one more.
LEMMA ScaledTwice ==
    ASSUME NEW x \in Scalar, NEW k \in Scalar, NEW s \in Scalar, NEW P \in Point
    PROVE  GAdd(GMul(x, GMul(k, P)), GMul(s, P)) = GMul(SAdd(SMul(x, k), s), P)
<1> DEFINE A == GMul(k, P)
           L == GAdd(GMul(x, A), GMul(s, P))
           y == SAdd(SMul(x, k), s)
           R == GMul(y, P)
<1>1. A \in Point /\ A = [i \in 1 .. Dim |-> SMul(k, P[i])]
      BY GMulIs
<1>2. y \in Scalar /\ SMul(x, k) \in Scalar
      BY Closed
<1> HIDE DEF A
<1>3. GMul(x, A) \in Point /\ GMul(x, A) = [i \in 1 .. Dim |-> SMul(x, A[i])]
      BY <1>1, GMulIs
<1>4. GMul(s, P) \in Point /\ GMul(s, P) = [i \in 1 .. Dim |-> SMul(s, P[i])]
      BY GMulIs
<1>5. L \in Point /\ L = [i \in 1 .. Dim |-> SAdd(GMul(x, A)[i], GMul(s, P)[i])]
      BY <1>3, <1>4, GAddIs
<1> HIDE DEF y
<1>6. R \in Point /\ R = [i \in 1 .. Dim |-> SMul(y, P[i])]
      BY <1>2, GMulIs
<1>7. ASSUME NEW i \in 1 .. Dim PROVE L[i] = R[i]
      <2> DEFINE u == P[i]
      <2>1. u \in Scalar
            BY DEF Point
      <2>2. L[i] = SAdd(SMul(x, SMul(k, u)), SMul(s, u))
            BY <1>1, <1>3, <1>4, <1>5
      <2>3. R[i] = SMul(y, u)
            BY <1>6
      <2> HIDE DEF u, L, R
      <2>4. SMul(y, u) = SAdd(SMul(SMul(x, k), u), SMul(s, u))
            BY <1>2, <2>1, MulSum DEF y
      <2>5. SMul(SMul(x, k), u) = SMul(x, SMul(k, u))
            BY <2>1, SMulAssociates
      <2>6. QED
            BY <2>2, <2>3, <2>4, <2>5
<1> HIDE DEF L, R
<1>8. L = R
      BY <1>5, <1>6, <1>7, SamePoint
<1>9. QED
      BY <1>8 DEF L, R, A, y

\* The answer with the service key is accepted.
LEMMA AnswerComplete ==
    ASSUME RingHashesAreBytes, NEW job \in RingJob, spkOf(job).ok, NEW r \in {0, 1},
           NEW a, a = auth_prove(rctxOf(job), job.msk, r, job.name, spkOf(job).pk, job.W), a.ok
    PROVE  auth_verify(rctxOf(job), a, spkOf(job).pk, job.W)
<1> DEFINE c == rctxOf(job)
           spk == spkOf(job).pk
           b == derive_ssk(job.msk, job.name)
           csk == ScalarOf(b)
           g == c.geng[1]
           s == ScalarOf(r)
           R == ge_save_boquila(GMul(s, g))
           str == spk \o <<job.W>> \o R
           x == ScalarOf(Hash(str))
           y == SAdd(SMul(x, csk), s)
           bad == Overflow(b) \/ s = 0
           q == [ok |-> TRUE, R |-> R, s |-> y]
<1>1. csk \in Scalar /\ g \in Point /\ spk = ge_save_boquila(GMul(csk, g)) /\ spk \in Seq(Nat)
      BY ServiceKeyIs
<1>2. r \in Scalar /\ s = r /\ s \in Scalar
      <2>1. r \in Scalar
            BY GroupAssumption DEF Scalar
      <2>2. QED
            BY <2>1, ScalarsAreBytes
<1>3. GMul(s, g) \in Point /\ GMul(csk, g) \in Point
      <2> HIDE DEF s, csk, g
      <2>1. QED
            BY <1>1, <1>2, GMulIs
<1>4. R \in Seq(Nat)
      <2> DEFINE P == GMul(s, g)
      <2>1. P \in Point
            BY <1>3
      <2> HIDE DEF P
      <2>2. ge_save_boquila(P) \in Seq(Nat)
            BY <2>1, FormTyped
      <2>3. QED
            BY <2>2 DEF P
<1>5. x \in Scalar
      <2> DEFINE w == <<job.W>>
      <2>1. w \in Seq(Nat)
            <3>1. job.W \in Nat
                  BY JobTyped
            <3>2. QED
                  BY <3>1
      <2> HIDE DEF w, R, spk
      <2>2. spk \o w \o R \in Seq(Nat)
            BY <1>1, <1>4, <2>1
      <2>3. str \in Seq(Nat)
            BY <2>2 DEF w
      <2> HIDE DEF str
      <2>4. QED
            BY <2>3, HashTyped
<1>6. a = IF bad THEN Refused ELSE q
      BY DEF auth_prove
<1>7. a = q
      <2>1. bad \in BOOLEAN
            BY DEF Overflow
      <2> HIDE DEF bad, q
      <2>2. QED
            BY <1>6, <2>1, NotRefused
<1>8. a.R = R /\ a.s = y
      <2> HIDE DEF R, y
      <2>1. QED
            BY <1>7
<1>9. y \in Scalar /\ ScalarOf(y) = y
      <2> HIDE DEF x, csk, s
      <2>1. y \in Scalar
            BY <1>1, <1>2, <1>5, Closed
      <2> HIDE DEF y
      <2>2. QED
            BY <2>1, ScalarsAreBytes
<1>10. auth_verify(c, a, spk, job.W)
         = (ge_save_boquila(GAdd(GMul(ScalarOf(Hash(spk \o <<job.W>> \o a.R)), ge_load_boquila(spk)), ge_load_boquila(a.R)))
              = ge_save_boquila(GMul(ScalarOf(a.s), c.geng[1])))
       <2> HIDE DEF c, spk
       <2>1. QED
             BY DEF auth_verify
<1>11. ge_load_boquila(spk) = GMul(csk, g) /\ ge_load_boquila(R) = GMul(s, g)
       <2> DEFINE P == GMul(csk, g)
                  Q == GMul(s, g)
       <2>1. P \in Point /\ Q \in Point /\ spk = ge_save_boquila(P) /\ R = ge_save_boquila(Q)
             BY <1>1, <1>3
       <2> HIDE DEF P, Q, spk, R
       <2>2. ge_load_boquila(spk) = P /\ ge_load_boquila(R) = Q
             BY <2>1, ReadsBack
       <2>3. QED
             BY <2>2 DEF P, Q
<1>12. GAdd(GMul(x, GMul(csk, g)), GMul(s, g)) = GMul(y, g)
       <2> HIDE DEF x, csk, s, g
       <2>1. QED
             BY <1>1, <1>2, <1>5, ScaledTwice
<1>13. ScalarOf(Hash(spk \o <<job.W>> \o a.R)) = x
       <2> DEFINE t == a.R
       <2>1. t = R
             BY <1>8
       <2> HIDE DEF t, R, spk
       <2>2. ScalarOf(Hash(spk \o <<job.W>> \o t)) = x
             BY <2>1
       <2>3. QED
             BY <2>2 DEF t
<1>14. auth_verify(c, a, spk, job.W)
       <2> DEFINE h == ScalarOf(Hash(spk \o <<job.W>> \o a.R))
                  t == a.R
                  v == a.s
       <2>1. auth_verify(c, a, spk, job.W)
               = (ge_save_boquila(GAdd(GMul(h, ge_load_boquila(spk)), ge_load_boquila(t)))
                    = ge_save_boquila(GMul(ScalarOf(v), g)))
             BY <1>10
       <2>2. h = x /\ t = R /\ v = y
             BY <1>8, <1>13
       <2> HIDE DEF h, t, v, x, R, y, spk, c, g, csk, s
       <2>3. GAdd(GMul(h, ge_load_boquila(spk)), ge_load_boquila(t)) = GMul(ScalarOf(v), g)
             BY <1>9, <1>11, <1>12, <2>2
       <2>4. QED
             BY <2>1, <2>3
<1>15. QED
       BY <1>14

-------------------------------------------------------------------------------
(* The invariant: a proof is what the prover makes of the job, an answer   *)
(* what the owner of the service key makes of it.                          *)

RingSessionSpec == ring = RingIdle /\ [][RingNext]_ring

JobIsAsked == ring.at \in {"keys", "proved", "answered"} => ring.job \in RingJob
ProofIsMade ==
    ring.at = "proved" =>
        /\ spkOf(ring.job).ok
        /\ ring.proof = membershipOf(ring.job, rctxOf(ring.job), mpksOf(ring.job), spkOf(ring.job).pk)
AnswerIsMade ==
    ring.at = "answered" =>
        /\ spkOf(ring.job).ok
        /\ \E r \in {0, 1} :
              ring.proof = auth_prove(rctxOf(ring.job), ring.job.msk, r, ring.job.name, spkOf(ring.job).pk, ring.job.W)
RingInv == JobIsAsked /\ ProofIsMade /\ AnswerIsMade /\ MembersAreAccepted

LEMMA RingBeginStep ==
    ASSUME NEW job \in RingJob, RingBegin(job)
    PROVE  RingInv'
<1>1. ring'.at = "keys" /\ ring'.job = job
      BY DEF RingBegin
<1>2. QED
      BY <1>1 DEF RingInv, JobIsAsked, ProofIsMade, AnswerIsMade, MembersAreAccepted

LEMMA MembershipProved ==
    ASSUME RingHashesAreBytes, RingInv, ProveMembership
    PROVE  RingInv'
<1> DEFINE job == ring.job
           p == membershipOf(job, rctxOf(job), mpksOf(job), spkOf(job).pk)
<1>1. ring.at = "keys" /\ spkOf(job).ok /\ ring' = [at |-> "proved", job |-> job, proof |-> p]
      BY DEF ProveMembership, proved
<1>2. job \in RingJob
      BY <1>1 DEF RingInv, JobIsAsked
<1>3. ring'.at = "proved" /\ ring'.job = job /\ ring'.proof = p
      <2> HIDE DEF job, p
      <2>1. QED
            BY <1>1
<1>4. JobIsAsked'
      <2> HIDE DEF job, p
      <2>1. QED
            BY <1>2, <1>3 DEF JobIsAsked
<1>5. ProofIsMade'
      <2>1. p = membershipOf(job, rctxOf(job), mpksOf(job), spkOf(job).pk)
            OBVIOUS
      <2> HIDE DEF job, p
      <2>2. QED
            BY <1>1, <1>3, <2>1 DEF ProofIsMade
<1>6. AnswerIsMade'
      BY <1>3 DEF AnswerIsMade
<1>7. p.ok => proofBytes(rctxOf(job), IF job.topic = 0 THEN p ELSE p.proof) = allocated(job)
      <2> HAVE p.ok
      <2>1. p = membershipOf(job, rctxOf(job), mpksOf(job), spkOf(job).pk)
            OBVIOUS
      <2> HIDE DEF job, p
      <2>2. CASE job.topic = 0
            <3>1. proofBytes(rctxOf(job), p) = allocated(job)
                  BY <1>1, <1>2, <2>1, <2>2, PlainComplete
            <3>2. QED
                  BY <2>2, <3>1
      <2>3. CASE job.topic # 0
            <3>1. proofBytes(rctxOf(job), p.proof) = allocated(job)
                  BY <1>1, <1>2, <2>1, <2>3, TopicComplete
            <3>2. QED
                  BY <2>3, <3>1
      <2>4. QED
            BY <2>2, <2>3
<1>8. MembersAreAccepted'
      <2> HIDE DEF job, p
      <2>1. QED
            BY <1>3, <1>7 DEF MembersAreAccepted, theProof
<1>9. QED
      BY <1>4, <1>5, <1>6, <1>8 DEF RingInv

LEMMA MembershipChecked ==
    ASSUME RingHashesAreBytes, RingInv, NEW altered \in Alteration, CheckMembership(altered)
    PROVE  RingInv'
<1> DEFINE job == ring.job
           p == ring.proof
           holds == membershipHolds(job, rctxOf(job), heldRing(mpksOf(job), altered), heldW(job, altered),
                                    heldName(job, altered), heldNullifier(altered), spkOf(job).pk)
<1>1. /\ ring.at = "proved" /\ p.ok
      /\ ring' = [at |-> "checked", job |-> job, proof |-> p, altered |-> altered, accepted |-> holds]
      BY DEF CheckMembership
<1>2. /\ job \in RingJob /\ spkOf(job).ok
      /\ p = membershipOf(job, rctxOf(job), mpksOf(job), spkOf(job).pk)
      BY <1>1 DEF RingInv, JobIsAsked, ProofIsMade
<1>3. ring'.at = "checked" /\ ring'.job = job /\ ring'.altered = altered /\ ring'.accepted = holds
      <2> HIDE DEF job, p, holds
      <2>1. QED
            BY <1>1
<1>4. ASSUME altered = "none", member(job) PROVE holds
      <2>1. /\ heldRing(mpksOf(job), altered) = mpksOf(job)
            /\ heldW(job, altered) = job.W /\ heldName(job, altered) = job.name
            /\ heldNullifier(altered) = p.nullifier
            BY <1>4 DEF heldRing, heldW, heldName, heldNullifier
      <2>2. holds = membershipHolds(job, rctxOf(job), mpksOf(job), job.W, job.name, p.nullifier, spkOf(job).pk)
            BY <2>1
      <2>3. CASE job.topic = 0
            <3>1. holds = verify_memmpk(rctxOf(job), p, mpksOf(job), job.W, job.name, spkOf(job).pk, job.m)
                  BY <2>2, <2>3 DEF membershipHolds
            <3> HIDE DEF job, p, holds
            <3>2. verify_memmpk(rctxOf(job), p, mpksOf(job), job.W, job.name, spkOf(job).pk, job.m)
                  BY <1>1, <1>2, <1>4, <2>3, PlainComplete
            <3>3. QED
                  BY <3>1, <3>2
      <2>4. CASE job.topic # 0
            <3>1. holds = verify_DBPoE_memmpk(rctxOf(job), p.proof, p.nullifier, mpksOf(job), job.W, job.name,
                                              spkOf(job).pk, job.topic, job.m)
                  BY <2>2, <2>4 DEF membershipHolds
            <3> HIDE DEF job, p, holds
            <3>2. verify_DBPoE_memmpk(rctxOf(job), p.proof, p.nullifier, mpksOf(job), job.W, job.name,
                                      spkOf(job).pk, job.topic, job.m)
                  BY <1>1, <1>2, <1>4, <2>4, TopicComplete
            <3>3. QED
                  BY <3>1, <3>2
      <2>5. QED
            BY <2>3, <2>4
<1> HIDE DEF job, p, holds
<1>5. MembersAreAccepted'
      BY <1>3, <1>4 DEF MembersAreAccepted
<1>6. JobIsAsked' /\ ProofIsMade' /\ AnswerIsMade'
      BY <1>3 DEF JobIsAsked, ProofIsMade, AnswerIsMade
<1>7. QED
      BY <1>5, <1>6 DEF RingInv

LEMMA KeyProved ==
    ASSUME RingInv, NEW r \in {0, 1}, ProveKey(r)
    PROVE  RingInv'
<1> DEFINE job == ring.job
           a == auth_prove(rctxOf(job), job.msk, r, job.name, spkOf(job).pk, job.W)
<1>1. ring.at = "keys" /\ spkOf(job).ok /\ ring' = [at |-> "answered", job |-> job, proof |-> a]
      <2>1. DBPoE_auth_prove(rctxOf(job), job.msk, r, job.name, spkOf(job).pk, job.W) = a
            BY DEF DBPoE_auth_prove
      <2>2. QED
            BY <2>1 DEF ProveKey
<1>2. job \in RingJob
      BY <1>1 DEF RingInv, JobIsAsked
<1>3. ring'.at = "answered" /\ ring'.job = job /\ ring'.proof = a
      <2> HIDE DEF job, a
      <2>1. QED
            BY <1>1
<1>4. AnswerIsMade'
      <2>1. a = auth_prove(rctxOf(job), job.msk, r, job.name, spkOf(job).pk, job.W)
            OBVIOUS
      <2> HIDE DEF job, a
      <2>2. QED
            BY <1>1, <1>3, <2>1 DEF AnswerIsMade
<1> HIDE DEF job, a
<1>5. JobIsAsked' /\ ProofIsMade' /\ MembersAreAccepted'
      BY <1>2, <1>3 DEF JobIsAsked, ProofIsMade, MembersAreAccepted
<1>6. QED
      BY <1>4, <1>5 DEF RingInv

LEMMA KeyChecked ==
    ASSUME RingHashesAreBytes, RingInv, NEW altered \in Alteration, CheckKey(altered)
    PROVE  RingInv'
<1> DEFINE job == ring.job
           a == ring.proof
           holds == auth_verify(rctxOf(job), a, heldSpk(job, altered), heldW(job, altered))
<1>1. ring.at = "answered" /\ a.ok /\ ring' = [at |-> "authenticated", altered |-> altered, accepted |-> holds]
      <2>1. DBPoE_auth_verify(rctxOf(job), a, heldSpk(job, altered), heldW(job, altered)) = holds
            BY DEF DBPoE_auth_verify
      <2>2. QED
            BY <2>1 DEF CheckKey
<1>2. job \in RingJob /\ spkOf(job).ok
      BY <1>1 DEF RingInv, JobIsAsked, AnswerIsMade
<1>3. PICK r \in {0, 1} : a = auth_prove(rctxOf(job), job.msk, r, job.name, spkOf(job).pk, job.W)
      BY <1>1 DEF RingInv, AnswerIsMade
<1>4. ring'.at = "authenticated" /\ ring'.altered = altered /\ ring'.accepted = holds
      <2> HIDE DEF job, a, holds
      <2>1. QED
            BY <1>1
<1>5. ASSUME altered = "none" PROVE holds
      <2>1. heldSpk(job, altered) = spkOf(job).pk /\ heldW(job, altered) = job.W
            <3>1. heldName(job, altered) = job.name /\ heldW(job, altered) = job.W
                  BY <1>5 DEF heldName, heldW
            <3>2. [job EXCEPT !.name = job.name] = job
                  BY <1>2, JobTyped
            <3> HIDE DEF job
            <3>3. QED
                  BY <3>1, <3>2 DEF heldSpk
      <2>2. holds = auth_verify(rctxOf(job), a, spkOf(job).pk, job.W)
            BY <2>1
      <2> HIDE DEF job, a, holds
      <2>3. auth_verify(rctxOf(job), a, spkOf(job).pk, job.W)
            BY <1>1, <1>2, <1>3, AnswerComplete
      <2>4. QED
            BY <2>2, <2>3
<1> HIDE DEF job, a, holds
<1>6. MembersAreAccepted'
      BY <1>4, <1>5 DEF MembersAreAccepted
<1>7. JobIsAsked' /\ ProofIsMade' /\ AnswerIsMade'
      BY <1>4 DEF JobIsAsked, ProofIsMade, AnswerIsMade
<1>8. QED
      BY <1>6, <1>7 DEF RingInv

\* Every step keeps the invariant.
LEMMA RingSessionStep ==
    ASSUME RingHashesAreBytes, RingInv, [RingNext]_ring
    PROVE  RingInv'
<1>1. CASE UNCHANGED ring
      BY <1>1 DEF RingInv, JobIsAsked, ProofIsMade, AnswerIsMade, MembersAreAccepted, theProof
<1>2. ASSUME NEW job \in RingJob, RingBegin(job) PROVE RingInv'
      BY <1>2, RingBeginStep
<1>3. CASE ProveMembership
      BY <1>3, MembershipProved
<1>4. ASSUME NEW altered \in Alteration, CheckMembership(altered) PROVE RingInv'
      BY <1>4, MembershipChecked
<1>5. ASSUME NEW r \in {0, 1}, ProveKey(r) PROVE RingInv'
      BY <1>5, KeyProved
<1>6. ASSUME NEW altered \in Alteration, CheckKey(altered) PROVE RingInv'
      BY <1>6, KeyChecked
<1>7. QED
      BY <1>1, <1>2, <1>3, <1>4, <1>5, <1>6 DEF RingNext

\* Whatever the base and the number of digits, the size of the ring, the place
\* of the key in it, the values drawn and the challenge: a proof fills exactly
\* the bytes announced for it, and the proof of a member and the answer of the
\* owner of a service key are accepted, with topics and without.
THEOREM MembersAlwaysAccepted == RingHashesAreBytes => (RingSessionSpec => []MembersAreAccepted)
<1> SUFFICES ASSUME RingHashesAreBytes PROVE RingSessionSpec => []MembersAreAccepted
    OBVIOUS
<1>1. ring = RingIdle => RingInv
      BY DEF RingIdle, RingInv, JobIsAsked, ProofIsMade, AnswerIsMade, MembersAreAccepted
<1>2. RingInv /\ [RingNext]_ring => RingInv'
      BY RingSessionStep
<1>3. RingInv => MembersAreAccepted
      BY DEF RingInv
<1>4. QED
      BY <1>1, <1>2, <1>3, PTL DEF RingSessionSpec

-------------------------------------------------------------------------------
(* Multiples of the base point.                                            *)

\* Of a number and its opposite the one below half of the order.
isQuad(a) == a # 0 /\ 2 * a < Order
facing(a) == IF isQuad(a) THEN a ELSE SNeg(a)

LEMMA MultipleFaces ==
    ASSUME NEW a \in Scalar
    PROVE  /\ quadY(GMul(a, G)) <=> isQuad(a)
           /\ XCoordinate(GMul(a, G)) = GMul(facing(a), G)
           /\ GMul(a, G) = Infinity <=> a = 0
<1> DEFINE P == GMul(a, G)
<1>1. P \in Point /\ P = [i \in 1 .. Dim |-> IF i = 1 THEN a ELSE 0] /\ P[1] = a /\ 1 \in 1 .. Dim
      BY MultipleIs, MultiplesAdd, ZeroAndOne
<1>2. P = Infinity <=> a = 0
      BY MultiplesAdd, NoMultiple, ZeroAndOne
<1>3. GNeg(P) = GMul(SNeg(a), G)
      BY MultiplesAdd
<1> HIDE DEF P
<1>4. HasQuadY(P) <=> a = 0 \/ isQuad(a)
      <2>1. ASSUME NEW i \in 1 .. Dim
            PROVE  (P[i] # 0 /\ 2 * P[i] < Order /\ \A j \in 1 .. i - 1 : P[j] = 0) => isQuad(a)
            <3>1. CASE i = 1
                  BY <1>1, <3>1 DEF isQuad
            <3>2. CASE i # 1
                  BY <1>1, <3>2
            <3>3. QED
                  BY <3>1, <3>2
      <2>2. isQuad(a) => P[1] # 0 /\ 2 * P[1] < Order /\ \A j \in 1 .. 1 - 1 : P[j] = 0
            BY <1>1 DEF isQuad
      <2>3. QED
            BY <1>1, <1>2, <2>1, <2>2 DEF HasQuadY
<1>5. quadY(P) <=> isQuad(a)
      BY <1>2, <1>4 DEF quadY, isQuad
<1>6. XCoordinate(P) = GMul(facing(a), G)
      <2>1. CASE a = 0
            <3>1. SNeg(0) = 0 /\ ~isQuad(0)
                  BY SNegIs, ZeroAndOne DEF isQuad
            <3>2. facing(a) = a
                  BY <2>1, <3>1 DEF facing
            <3>3. QED
                  BY <1>4, <2>1, <3>2 DEF XCoordinate, P
      <2>2. CASE a # 0
            BY <1>3, <1>4, <2>2 DEF XCoordinate, facing, P
      <2>3. QED
            BY <2>1, <2>2
<1>7. QED
      BY <1>2, <1>5, <1>6 DEF P

LEMMA FacingIs ==
    ASSUME NEW a \in Scalar
    PROVE  /\ facing(a) \in Scalar /\ SNeg(a) \in Scalar
           /\ a # 0 => isQuad(facing(a)) /\ facing(a) # 0 /\ (isQuad(SNeg(a)) <=> ~isQuad(a))
           /\ facing(0) = 0 /\ SNeg(0) = 0 /\ ~isQuad(0)
           /\ facing(facing(a)) = facing(a) /\ facing(SNeg(a)) = facing(a)
<1>1. /\ Order \in Nat /\ Order > 2 /\ Order % 2 = 1 /\ a \in Nat /\ a < Order
      /\ SNeg(a) \in Scalar /\ SNeg(a) = IF a = 0 THEN 0 ELSE Order - a
      /\ SNeg(0) = 0 /\ 0 \in Scalar /\ SNeg(SNeg(a)) = a
      BY GroupAssumption, SNegIs, ZeroAndOne, SumLaws DEF Scalar
<1>2. 2 * a # Order
      BY <1>1
<1>3. a # 0 => (isQuad(SNeg(a)) <=> ~isQuad(a))
      BY <1>1, <1>2 DEF isQuad
<1>4. ~isQuad(0)
      BY DEF isQuad
<1>5. CASE a = 0
      BY <1>1, <1>4, <1>5 DEF facing
<1>6. CASE a # 0
      <2>1. SNeg(a) # 0
            BY <1>1, <1>6
      <2>2. CASE isQuad(a)
            <3>1. facing(a) = a /\ facing(SNeg(a)) = a /\ facing(0) = 0
                  BY <1>1, <1>3, <1>4, <1>6, <2>2 DEF facing
            <3>2. QED
                  BY <1>1, <1>3, <1>4, <1>6, <2>2, <3>1
      <2>3. CASE ~isQuad(a)
            <3>1. isQuad(SNeg(a)) /\ facing(a) = SNeg(a) /\ facing(SNeg(a)) = SNeg(a) /\ facing(0) = 0
                  BY <1>1, <1>3, <1>4, <1>6, <2>3 DEF facing
            <3>2. QED
                  BY <1>1, <1>3, <1>4, <1>6, <2>1, <2>3, <3>1
      <2>4. QED
            BY <2>2, <2>3
<1>7. QED
      BY <1>5, <1>6

\* Sums of multiples are multiples.
multiplesOf(n, k) == [i \in 1 .. n |-> GMul(k[i], G)]

LEMMA MultiplesTyped ==
    ASSUME NEW n \in Nat, NEW k \in Scalars(n)
    PROVE  multiplesOf(n, k) \in Points(n) /\ \A i \in 1 .. n : k[i] \in Scalar /\ multiplesOf(n, k)[i] = GMul(k[i], G)
<1>1. \A i \in 1 .. n : k[i] \in Scalar /\ GMul(k[i], G) \in Point
      BY MultipleIs DEF Scalars
<1>2. QED
      BY <1>1 DEF multiplesOf, Points

LEMMA CombinedMultiples ==
    ASSUME NEW n \in Nat, NEW e \in Scalars(n), NEW k \in Scalars(n)
    PROVE  /\ combination(n, e, multiplesOf(n, k)) = GMul(dot(n, e, k), G)
           /\ dot(n, e, k) \in Scalar
<1> DEFINE P == multiplesOf(n, k)
           L == combination(n, e, P)
           R == GMul(dot(n, e, k), G)
<1>1. P \in Points(n) /\ \A i \in 1 .. n : k[i] \in Scalar /\ P[i] = GMul(k[i], G)
      BY MultiplesTyped
<1>2. dot(n, e, k) \in Scalar
      BY DotTyped
<1> HIDE DEF P
<1>3. L \in Point /\ \A c \in 1 .. Dim : L[c] = dot(n, e, part(n, P, c))
      BY <1>1, CombinationIs
<1>4. R \in Point /\ R = [i \in 1 .. Dim |-> IF i = 1 THEN dot(n, e, k) ELSE 0]
      BY <1>2, MultipleIs
<1>5. ASSUME NEW c \in 1 .. Dim PROVE L[c] = R[c]
      <2>1. \A i \in 1 .. n : P[i][c] = IF c = 1 THEN k[i] ELSE 0
            <3>1. ASSUME NEW i \in 1 .. n PROVE P[i][c] = IF c = 1 THEN k[i] ELSE 0
                  <4>1. P[i] = [j \in 1 .. Dim |-> IF j = 1 THEN k[i] ELSE 0]
                        BY <1>1, MultipleIs
                  <4>2. QED
                        BY <4>1
            <3>2. QED
                  BY <3>1
      <2>2. CASE c = 1
            <3>1. part(n, P, c) = k
                  <4>1. k = [i \in 1 .. n |-> k[i]]
                        BY DEF Scalars
                  <4>2. part(n, P, c) = [i \in 1 .. n |-> k[i]]
                        BY <2>1, <2>2 DEF part
                  <4>3. QED
                        BY <4>1, <4>2
            <3>2. QED
                  BY <1>3, <1>4, <2>2, <3>1
      <2>3. CASE c # 1
            <3>1. \A i \in 1 .. n : SMul(e[i], part(n, P, c)[i]) = 0
                  <4>1. \A i \in 1 .. n : part(n, P, c)[i] = 0 /\ e[i] \in Scalar
                        BY <2>1, <2>3 DEF part, Scalars
                  <4>2. QED
                        BY <4>1, WithZero
            <3>2. dot(n, e, part(n, P, c)) = SSum([i \in 1 .. n |-> 0])
                  BY <3>1 DEF dot
            <3>3. QED
                  BY <1>3, <1>4, <2>3, <3>2, SumOfZeros
      <2>4. QED
            BY <2>2, <2>3
<1> HIDE DEF L, R
<1>6. L = R
      BY <1>3, <1>4, <1>5, SamePoint
<1>7. QED
      BY <1>2, <1>6 DEF L, R, P

\* The sum of two points, and of two scalars.
LEMMA TwoPoints ==
    ASSUME NEW a \in Scalar, NEW b \in Scalar, NEW f, f = [i \in 1 .. 2 |-> IF i = 1 THEN GMul(a, G) ELSE GMul(b, G)]
    PROVE  GSum(SubSeq(f, 1, 2)) = GMul(SAdd(a, b), G)
<1> DEFINE one == [i \in 1 .. 2 |-> 1]
           k == [i \in 1 .. 2 |-> IF i = 1 THEN a ELSE b]
           d == [i \in 1 .. 2 |-> SMul(one[i], k[i])]
           t == [i \in 0 .. 2 |-> IF i = 0 THEN 0 ELSE IF i = 1 THEN a ELSE SAdd(a, b)]
<1>1. one \in Scalars(2) /\ k \in Scalars(2) /\ 2 \in Nat
      BY ZeroAndOne DEF Scalars
<1>2. \A i \in 1 .. 2 : one[i] = 1 /\ k[i] = IF i = 1 THEN a ELSE b
      OBVIOUS
<1>3. f = [i \in 1 .. 2 |-> GMul(one[i], multiplesOf(2, k)[i])]
      <2>1. \A i \in 1 .. 2 : GMul(1, GMul(k[i], G)) = GMul(k[i], G)
            BY <1>2, MultiplesAdd, WithOne, ZeroAndOne
      <2>2. \A i \in 1 .. 2 : GMul(one[i], multiplesOf(2, k)[i]) = IF i = 1 THEN GMul(a, G) ELSE GMul(b, G)
            BY <1>2, <2>1 DEF multiplesOf
      <2>3. QED
            BY <2>2
<1>4. GSum(SubSeq(f, 1, 2)) = combination(2, one, multiplesOf(2, k))
      BY <1>3, <1>1, CombinesAs
<1>5. combination(2, one, multiplesOf(2, k)) = GMul(dot(2, one, k), G)
      BY <1>1, CombinedMultiples
<1>6. dot(2, one, k) = SAdd(a, b)
      <2>1. d \in Scalars(2) /\ d[1] = a /\ d[2] = b
            BY <1>2, WithOne DEF Scalars
      <2>2. t[0] = 0 /\ t[1] = a /\ t[2] = SAdd(a, b) /\ SAdd(0, a) = a
            BY WithZero
      <2>3. ASSUME NEW i \in 1 .. 2 PROVE t[i] = SAdd(t[i - 1], d[i])
            <3>1. i = 1 \/ i = 2
                  OBVIOUS
            <3>2. QED
                  BY <2>1, <2>2, <3>1
      <2> HIDE DEF t, d
      <2>4. SSum(d) = t[2]
            BY <1>1, <2>1, <2>2, <2>3, SumOnly
      <2>5. QED
            BY <2>2, <2>4 DEF dot, d
<1>7. QED
      BY <1>4, <1>5, <1>6

LEMMA TwoScalars ==
    ASSUME NEW a \in Scalar, NEW b \in Scalar, NEW f, f = [i \in 1 .. 2 |-> IF i = 1 THEN a ELSE b]
    PROVE  SSum(SubSeq(f, 1, 2)) = SAdd(a, b)
<1> DEFINE t == [i \in 0 .. 2 |-> IF i = 0 THEN 0 ELSE IF i = 1 THEN a ELSE SAdd(a, b)]
<1>1. f \in Scalars(2) /\ 2 \in Nat /\ f = [i \in 1 .. 2 |-> f[i]] /\ f[1] = a /\ f[2] = b
      BY DEF Scalars
<1>2. SubSeq(f, 1, 2) = f
      BY <1>1, TupleIs
<1>3. t[0] = 0 /\ t[1] = a /\ t[2] = SAdd(a, b) /\ SAdd(0, a) = a
      BY WithZero
<1>4. ASSUME NEW i \in 1 .. 2 PROVE t[i] = SAdd(t[i - 1], f[i])
      <2>1. i = 1 \/ i = 2
            OBVIOUS
      <2>2. QED
            BY <1>1, <1>3, <2>1
<1> HIDE DEF t
<1>5. SSum(f) = t[2]
      BY <1>1, <1>3, <1>4, SumOnly
<1>6. QED
      BY <1>2, <1>3, <1>5

-------------------------------------------------------------------------------
(* Hashes and nonces.                                                      *)

\* What SHA-256 and the generator of nonces are asked for: 32 bytes, and among
\* ten draws in a row one that is not 0.
AggHashesAreBytes == \A t \in Seq(Nat) : AggHash(t) \in Bytes32
AggNoncesAreDrawn == \A seed, count \in Nat : \E c \in count .. count + 9 : ScalarOf(AggHash(<<seed, c>>)) # 0

\* A nonce is not 0, and its point has a square y.
LEMMA NonceIs ==
    ASSUME AggHashesAreBytes, AggNoncesAreDrawn, NEW seed \in Nat, NEW count \in Nat
    PROVE  LET nonce == generate_nonce_single(seed, count)
           IN nonce.sec \in Scalar /\ nonce.sec # 0 /\ isQuad(nonce.sec) /\ nonce.count \in Nat
<1> DEFINE draw(c) == ScalarOf(AggHash(<<seed, c>>))
           fits(c) == c \in count .. count + 9 /\ draw(c) # 0 /\ \A d \in count .. c - 1 : draw(d) = 0
           first == CHOOSE c \in count .. count + 9 : draw(c) # 0 /\ \A d \in count .. c - 1 : draw(d) = 0
           good == {c \in count .. count + 9 : draw(c) # 0}
           nonce == generate_nonce_single(seed, count)
<1>1. \A c \in Nat : draw(c) \in Scalar
      <2>1. ASSUME NEW c \in Nat PROVE draw(c) \in Scalar
            <3>1. <<seed, c>> \in Seq(Nat)
                  OBVIOUS
            <3>2. AggHash(<<seed, c>>) \in Nat
                  <4>1. AggHash(<<seed, c>>) \in Bytes32
                        BY <3>1, Zenon DEF AggHashesAreBytes
                  <4>2. Bytes32 \subseteq Nat
                        BY GroupAssumption DEF Bytes32
                  <4>3. QED
                        BY <4>1, <4>2, Zenon
            <3>3. QED
                  BY <3>2, GroupAssumption DEF ScalarOf, Scalar
      <2>2. QED
            BY <2>1
<1>2. good # {} /\ good \subseteq Nat
      <2>1. \E c \in count .. count + 9 : draw(c) # 0
            BY Zenon DEF AggNoncesAreDrawn
      <2> HIDE DEF draw
      <2>2. QED
            BY <2>1
<1>3. nonce = [sec |-> IF quadY(GMul(draw(first), G)) THEN draw(first) ELSE SNeg(draw(first)), count |-> first + 1]
      BY DEF generate_nonce_single
<1> HIDE DEF draw
<1>4. \E c : fits(c)
      <2>1. PICK m \in good : \A k \in good : m <= k
            <3> HIDE DEF good
            <3>1. QED
                  BY <1>2, LeastOf, Zenon
      <2>2. m \in count .. count + 9 /\ draw(m) # 0
            BY <2>1
      <2>3. ASSUME NEW d \in count .. m - 1 PROVE draw(d) = 0
            <3>1. d \in count .. count + 9 /\ ~ (m <= d)
                  BY <2>2
            <3>2. QED
                  BY <2>1, <3>1
      <2>4. fits(m)
            BY <2>2, <2>3
      <2>5. QED
            BY <2>4
<1>5. fits(first)
      BY <1>4
<1> HIDE DEF first
<1>6. first \in Nat /\ draw(first) \in Scalar /\ draw(first) # 0
      BY <1>1, <1>5
<1> HIDE DEF nonce
<1>7. nonce.sec = facing(draw(first)) /\ nonce.count \in Nat
      BY <1>3, <1>6, MultipleFaces DEF facing
<1>8. QED
      BY <1>6, <1>7, FacingIs DEF nonce

-------------------------------------------------------------------------------
(* What is hashed.                                                         *)

LEMMA HashedKeys ==
    ASSUME AggHashesAreBytes, NEW n \in Nat, NEW P \in Points(n), NEW x \in Point, NEW msg \in Nat
    PROVE  compute_prehash(P, x, msg) \in Nat
<1> DEFINE all == joined(n, P)
           t == x \o all \o <<msg>>
<1>1. P \in Seq(Point) /\ Len(P) = n /\ \A i \in 1 .. n : P[i] \in Point
      BY DEF Points
<1>2. \A i \in 1 .. n : P[i] \in Seq(Nat)
      BY <1>1, PointIsTuple
<1>3. all \in Seq(Nat) /\ x \in Seq(Nat) /\ <<msg>> \in Seq(Nat)
      BY <1>2, FlatTyped, PointIsTuple
<1>4. all = Flat(Len(P), LAMBDA i : P[i])
      BY <1>1 DEF joined
<1>5. compute_prehash(P, x, msg) = AggHash(t)
      BY <1>4 DEF compute_prehash
<1> HIDE DEF all
<1>6. t \in Seq(Nat)
      BY <1>3
<1> HIDE DEF t
<1>7. AggHash(t) \in Bytes32
      BY <1>6, Zenon DEF AggHashesAreBytes
<1>8. Bytes32 \subseteq Nat
      BY GroupAssumption DEF Bytes32
<1>9. QED
      BY <1>5, <1>7, <1>8

LEMMA HashedIndex ==
    ASSUME AggHashesAreBytes, NEW prehash \in Nat, NEW index \in Nat
    PROVE  compute_sighash(prehash, index) \in Nat
<1> DEFINE t == (IF index = 0 THEN <<>> ELSE <<index>>) \o <<prehash>>
<1>1. t \in Seq(Nat)
      <2>1. (IF index = 0 THEN <<>> ELSE <<index>>) \in Seq(Nat) /\ <<prehash>> \in Seq(Nat)
            OBVIOUS
      <2>2. QED
            BY <2>1
<1>2. compute_sighash(prehash, index) = AggHash(t)
      BY DEF compute_sighash
<1> HIDE DEF t
<1>3. AggHash(t) \in Bytes32
      BY <1>1, Zenon DEF AggHashesAreBytes
<1>4. Bytes32 \subseteq Nat
      BY GroupAssumption DEF Bytes32
<1>5. QED
      BY <1>2, <1>3, <1>4

\* The hash for one signer is a scalar, and that of the opposite nonce.
LEMMA HashedSingle ==
    ASSUME AggHashesAreBytes, NEW r \in Scalar, NEW p \in Scalar, NEW msg \in Nat
    PROVE  /\ compute_sighash_single(GMul(r, G), GMul(p, G), msg) \in Scalar
           /\ compute_sighash_single(GMul(facing(r), G), GMul(p, G), msg)
                 = compute_sighash_single(GMul(r, G), GMul(p, G), msg)
<1> DEFINE X == GMul(facing(r), G)
           P == GMul(p, G)
           t == X \o P \o <<msg>>
<1>1. facing(r) \in Scalar /\ facing(facing(r)) = facing(r)
      BY FacingIs
<1>2. XCoordinate(GMul(r, G)) = X /\ XCoordinate(X) = X
      BY <1>1, MultipleFaces
<1>3. X \in Seq(Nat) /\ P \in Seq(Nat) /\ <<msg>> \in Seq(Nat)
      BY <1>1, MultipleIs, PointIsTuple
<1> HIDE DEF X, P
<1>4. t \in Seq(Nat)
      BY <1>3
<1>5. /\ compute_sighash_single(GMul(r, G), P, msg) = ScalarOf(AggHash(t))
      /\ compute_sighash_single(X, P, msg) = ScalarOf(AggHash(t))
      BY <1>2 DEF compute_sighash_single
<1> HIDE DEF t
<1>6. AggHash(t) \in Bytes32
      BY <1>4, Zenon DEF AggHashesAreBytes
<1>7. AggHash(t) \in Nat
      <2>1. Bytes32 \subseteq Nat
            BY GroupAssumption DEF Bytes32
      <2>2. QED
            BY <1>6, <2>1
<1>8. ScalarOf(AggHash(t)) \in Scalar
      BY <1>7, GroupAssumption DEF ScalarOf, Scalar
<1>9. QED
      BY <1>5, <1>8 DEF X, P

-------------------------------------------------------------------------------
(* Signatures of one signer, alone or as parts of a sum.                   *)

\* What a signature leaves of its scalar when hash, key and extra are taken off.
remainder(s, e, p, ex) == SAdd(SAdd(s, SMul(SNeg(e), p)), SNeg(ex))

LEMMA RemainderIs ==
    ASSUME NEW p \in Scalar, NEW e \in Scalar, NEW k \in Scalar, NEW ex \in Scalar
    PROVE  /\ SAdd(SAdd(SMul(p, e), k), ex) \in Scalar
           /\ remainder(SAdd(SAdd(SMul(p, e), k), ex), e, p, ex) = k
<1> DEFINE u == SMul(p, e)
<1>1. u \in Scalar /\ SNeg(u) \in Scalar /\ SNeg(ex) \in Scalar /\ SAdd(u, k) \in Scalar
      BY Closed
<1>2. SMul(SNeg(e), p) = SNeg(u)
      BY RingLaws
<1> HIDE DEF u
<1>3. SAdd(SAdd(u, k), ex) \in Scalar
      BY <1>1, Closed
<1>4. SAdd(SAdd(SAdd(u, k), ex), SAdd(SNeg(u), SNeg(ex))) = SAdd(SAdd(SAdd(u, k), SNeg(u)), SAdd(ex, SNeg(ex)))
      BY <1>1, AddFour
<1>5. SAdd(SAdd(SAdd(SAdd(u, k), ex), SNeg(u)), SNeg(ex)) = SAdd(SAdd(SAdd(u, k), ex), SAdd(SNeg(u), SNeg(ex)))
      BY <1>1, <1>3, SAddAssociates
<1>6. SAdd(SAdd(u, k), SNeg(u)) = k
      <2>1. SAdd(SAdd(k, u), SNeg(u)) = SAdd(k, SAdd(u, SNeg(u)))
            BY <1>1, SAddAssociates
      <2>2. SAdd(u, k) = SAdd(k, u) /\ SAdd(u, SNeg(u)) = 0 /\ SAdd(k, 0) = k
            BY <1>1, RingLaws
      <2>3. QED
            BY <2>1, <2>2
<1>7. SAdd(ex, SNeg(ex)) = 0 /\ SAdd(k, 0) = k
      BY RingLaws
<1>8. QED
      BY <1>2, <1>3, <1>4, <1>5, <1>6, <1>7 DEF remainder, u

\* The sum of two signatures over one hash is a signature of the sums.
LEMMA SignaturesAdd ==
    \A e, p, q, k, l, ex \in Scalar :
        SAdd(SAdd(SAdd(SMul(p, e), k), ex), SAdd(SAdd(SMul(q, e), l), 0))
             = SAdd(SAdd(SMul(SAdd(p, q), e), SAdd(k, l)), ex)
<1> SUFFICES ASSUME NEW e \in Scalar, NEW p \in Scalar, NEW q \in Scalar, NEW k \in Scalar, NEW l \in Scalar,
                    NEW ex \in Scalar
             PROVE  SAdd(SAdd(SAdd(SMul(p, e), k), ex), SAdd(SAdd(SMul(q, e), l), 0))
                      = SAdd(SAdd(SMul(SAdd(p, q), e), SAdd(k, l)), ex)
      BY Zenon
<1> DEFINE u == SMul(p, e)
           v == SMul(q, e)
<1>1. u \in Scalar /\ v \in Scalar /\ SAdd(u, k) \in Scalar /\ SAdd(v, l) \in Scalar /\ 0 \in Scalar
      /\ SAdd(u, v) \in Scalar /\ SAdd(k, l) \in Scalar
      BY Closed, ZeroAndOne
<1>2. SMul(SAdd(p, q), e) = SAdd(u, v)
      BY RingLaws
<1> HIDE DEF u, v
<1>3. SAdd(SAdd(SAdd(u, k), ex), SAdd(SAdd(v, l), 0)) = SAdd(SAdd(SAdd(u, k), SAdd(v, l)), SAdd(ex, 0))
      BY <1>1, AddFour
<1>4. SAdd(SAdd(u, k), SAdd(v, l)) = SAdd(SAdd(u, v), SAdd(k, l)) /\ SAdd(ex, 0) = ex
      BY <1>1, AddFour, WithZero
<1>5. QED
      BY <1>2, <1>3, <1>4 DEF u, v

\* A point is there; an absent one is not.
LEMMA PointIsThere == ASSUME NEW P \in Point PROVE P # Absent
<1>1. DOMAIN P = 1 .. Dim /\ 1 \in 1 .. Dim
      BY ZeroAndOne DEF Point
<1>2. DOMAIN Absent = {}
      BY DEF Absent
<1>3. QED
      BY <1>1, <1>2

\* The point of a scalar that is added, and none for 0.
pointFor(ex) == IF ex # 0 THEN GMul(ex, G) ELSE Absent

\* What the verifier of one signature sees.
LEMMA VerifiesSingle ==
    ASSUME AggHashesAreBytes, NEW s \in Scalar, NEW f \in Scalar, NEW p \in Scalar, NEW t \in Scalar,
           NEW ex \in Scalar, NEW msg \in Nat, NEW r \in Scalar, NEW nonce,
           NEW sig, sig = [x |-> GMul(f, G), s |-> s],
           nonce = GMul(r, G) \/ (nonce = Absent /\ f = facing(r)),
           NEW e, e = compute_sighash_single(GMul(r, G), GMul(t, G), msg),
           facing(remainder(s, e, p, ex)) = f
    PROVE  /\ aggsig_verify_single(sig, msg, nonce, GMul(p, G), GMul(t, G), pointFor(ex), TRUE)
           /\ isQuad(remainder(s, e, p, ex))
                => aggsig_verify_single(sig, msg, nonce, GMul(p, G), GMul(t, G), pointFor(ex), FALSE)
<1> DEFINE sum0 == GAdd(GMul(s, G), GMul(SNeg(e), GMul(p, G)))
           b == SAdd(s, SMul(SNeg(e), p))
           sum == IF pointFor(ex) # Absent THEN GAdd(sum0, GNeg(pointFor(ex))) ELSE sum0
<1>1. e \in Scalar /\ SNeg(e) \in Scalar /\ SMul(SNeg(e), p) \in Scalar /\ b \in Scalar /\ SNeg(ex) \in Scalar
      /\ SAdd(b, SNeg(ex)) \in Scalar
      BY HashedSingle, Closed
<1>2. sum0 = GMul(b, G)
      BY <1>1, MultiplesAdd
<1>3. compute_sighash_single(IF nonce # Absent THEN nonce ELSE sig.x, GMul(t, G), msg) = e
      <2>1. GMul(r, G) # Absent
            BY MultipleIs, PointIsThere
      <2>2. CASE nonce = GMul(r, G)
            BY <2>1, <2>2
      <2>3. CASE nonce = Absent /\ f = facing(r)
            <3>1. sig.x = GMul(facing(r), G)
                  BY <2>3
            <3>2. QED
                  BY <2>3, <3>1, HashedSingle
      <2>4. QED
            BY <2>2, <2>3
<1> HIDE DEF sum0
<1>4. sum = GMul(SAdd(b, SNeg(ex)), G)
      <2>1. CASE ex = 0
            <3>1. pointFor(ex) = Absent /\ SNeg(ex) = 0 /\ SAdd(b, 0) = b
                  BY <1>1, <2>1, SNegIs, WithZero, ZeroAndOne DEF pointFor
            <3>2. QED
                  BY <1>2, <3>1
      <2>2. CASE ex # 0
            <3>1. pointFor(ex) = GMul(ex, G) /\ GMul(ex, G) # Absent
                  BY <2>2, MultipleIs, PointIsThere DEF pointFor
            <3>2. GNeg(GMul(ex, G)) = GMul(SNeg(ex), G)
                  BY MultiplesAdd
            <3>3. GAdd(GMul(b, G), GMul(SNeg(ex), G)) = GMul(SAdd(b, SNeg(ex)), G)
                  BY <1>1, MultiplesAdd
            <3>4. QED
                  BY <1>2, <3>1, <3>2, <3>3
      <2>3. QED
            BY <2>1, <2>2
<1>5. SAdd(b, SNeg(ex)) = remainder(s, e, p, ex)
      BY DEF remainder
<1>6. /\ aggsig_verify_single(sig, msg, nonce, GMul(p, G), GMul(t, G), pointFor(ex), TRUE)
            <=> XCoordinate(sum) = sig.x
      /\ aggsig_verify_single(sig, msg, nonce, GMul(p, G), GMul(t, G), pointFor(ex), FALSE)
            <=> (XCoordinate(sum) = sig.x /\ quadY(sum))
      BY <1>3 DEF aggsig_verify_single, sum0
<1> HIDE DEF sum, b
<1>7. XCoordinate(sum) = GMul(f, G) /\ (quadY(sum) <=> isQuad(remainder(s, e, p, ex)))
      BY <1>1, <1>4, <1>5, MultipleFaces
<1>8. QED
      BY <1>6, <1>7

\* Turned around when the sum of the nonces, R, is on the wrong side.
sided(R, k) == IF ~isQuad(R) THEN SNeg(k) ELSE k

LEMMA NotOver == ASSUME NEW a \in Scalar PROVE ~Overflow(a) /\ ScalarOf(a) = a
BY ScalarOfScalar, GroupAssumption DEF Overflow, Scalar

\* What one of two signers returns; the nonce is its own and not 0.
LEMMA PartIs ==
    ASSUME NEW msg, NEW key \in Scalar, NEW k \in Scalar, k # 0, NEW ex \in Scalar, NEW R \in Scalar,
           NEW P, NEW seed
    PROVE  aggsig_sign_single(msg, key, k, ex, GMul(R, G), GMul(R, G), P, seed).v
             = [x |-> GMul(facing(k), G),
                s |-> SAdd(SAdd(SMul(key, compute_sighash_single(GMul(R, G), P, msg)), sided(R, k)), ex)]
<1>1. ~Overflow(key) /\ ~Overflow(ex) /\ ScalarOf(k) = k
      BY NotOver
<1>2. GMul(R, G) # Absent
      BY MultipleIs, PointIsThere
<1>3. aggsig_sign_single(msg, key, k, ex, GMul(R, G), GMul(R, G), P, seed)
        = singleSignature(msg, key, k, ex, GMul(R, G), GMul(R, G), P, TRUE, GMul(k, G))
      BY <1>1, <1>2 DEF aggsig_sign_single
<1> DEFINE e == compute_sighash_single(GMul(R, G), P, msg)
<1>4. e = compute_sighash_single(IF GMul(R, G) # Absent THEN GMul(R, G) ELSE GMul(k, G), P, msg)
      BY <1>2
<1> HIDE DEF e
<1>5. QED
      <2> DEFINE sig == [x |-> GMul(facing(k), G), s |-> SAdd(SAdd(SMul(key, e), sided(R, k)), ex)]
      <2>1. ScalarOf(key) = key /\ ScalarOf(ex) = ex
            BY NotOver
      <2>2. XCoordinate(GMul(k, G)) = GMul(facing(k), G) /\ (quadY(GMul(R, G)) <=> isQuad(R))
            BY MultipleFaces
      <2>3. (IF TRUE /\ ~quadY(GMul(R, G)) THEN SNeg(k) ELSE k) = sided(R, k)
            BY <2>2 DEF sided
      <2>4. singleSignature(msg, key, k, ex, GMul(R, G), GMul(R, G), P, TRUE, GMul(k, G)) = Gives(sig)
            BY <1>4, <2>1, <2>2, <2>3 DEF singleSignature
      <2> HIDE DEF sig
      <2>5. Gives(sig).v = sig
            BY DEF Gives
      <2>6. QED
            BY <1>3, <2>4, <2>5 DEF sig, e

\* A signer alone is accepted, with a nonce of its own and with one that is drawn.
LEMMA AloneIsAccepted ==
    ASSUME AggHashesAreBytes, AggNoncesAreDrawn, NEW job \in AggJobs, NEW secnonce \in Scalar
    PROVE  keepsTo(job, secnonce, GMul(job.keys[1], G)).accepted
<1> DEFINE key == job.keys[1]
           k == IF secnonce = 0 THEN generate_nonce_single(job.seed, 0).sec ELSE ScalarOf(secnonce)
           P == GMul(key, G)
           e == compute_sighash_single(GMul(k, G), P, job.msg)
           s == SAdd(SAdd(SMul(key, e), facing(k)), 0)
           sig == [x |-> GMul(facing(k), G), s |-> s]
<1>1. job.msg \in Nat /\ job.seed \in Nat /\ key \in Scalar
      <2>1. job \in [keys : Seq(Scalar \ {0}), msg : Nat, seed : Nat] /\ Len(job.keys) > 0
            BY AggAssumption
      <2>2. 1 \in 1 .. Len(job.keys)
            BY <2>1
      <2>3. QED
            BY <2>1, <2>2
<1>2. k \in Scalar /\ k # 0 /\ (secnonce = 0 => isQuad(k))
      <2>1. CASE secnonce = 0
            <3>1. 0 \in Nat
                  OBVIOUS
            <3>2. QED
                  BY <1>1, <2>1, <3>1, NonceIs
      <2>2. CASE secnonce # 0
            BY <2>2, NotOver
      <2>3. QED
            BY <2>1, <2>2
<1> DEFINE ks == aggsig_sign_single(job.msg, key, secnonce, 0, Absent, Absent, P, job.seed)
<1>3. ks = singleSignature(job.msg, key, k, 0, Absent, GMul(k, G), P, secnonce # 0, GMul(k, G))
      <2>1. ~Overflow(key) /\ ~Overflow(0) /\ 0 \in Scalar
            BY <1>1, NotOver, ZeroAndOne
      <2>2. QED
            BY <2>1 DEF aggsig_sign_single
<1> HIDE DEF k, key
<1>4. e \in Scalar /\ facing(k) \in Scalar /\ 0 \in Scalar /\ facing(facing(k)) = facing(k) /\ isQuad(facing(k))
      BY <1>1, <1>2, HashedSingle, FacingIs, ZeroAndOne
<1>5. (IF secnonce # 0 /\ ~quadY(GMul(k, G)) THEN SNeg(k) ELSE k) = facing(k)
      BY <1>2, MultipleFaces DEF facing
<1>6. ks.v = sig
      <2>1. e = compute_sighash_single(IF Absent # Absent THEN Absent ELSE GMul(k, G), P, job.msg)
            OBVIOUS
      <2>2. XCoordinate(GMul(k, G)) = GMul(facing(k), G) /\ ScalarOf(key) = key /\ ScalarOf(0) = 0
            BY <1>1, <1>2, <1>4, MultipleFaces, NotOver
      <2> HIDE DEF P, e
      <2>3. ks = Gives(sig)
            BY <1>3, <1>5, <2>1, <2>2 DEF singleSignature
      <2> HIDE DEF sig
      <2>4. Gives(sig).v = sig
            BY DEF Gives
      <2>5. QED
            BY <2>3, <2>4
<1>7. keepsTo(job, secnonce, P).accepted = aggsig_verify_single(sig, job.msg, Absent, P, P, Absent, FALSE)
      <2>1. keepsTo(job, secnonce, P) = signedAlone(job, P, sig)
            BY <1>6 DEF keepsTo, key
      <2> HIDE DEF sig, P
      <2>2. QED
            BY <2>1 DEF signedAlone
<1>8. s \in Scalar /\ remainder(s, e, key, 0) = facing(k)
      <2> HIDE DEF e
      <2>1. QED
            BY <1>1, <1>4, RemainderIs
<1>9. pointFor(0) = Absent
      BY DEF pointFor
<1> HIDE DEF s
<1>10. aggsig_verify_single(sig, job.msg, Absent, P, P, pointFor(0), FALSE)
      <2>1. sig = [x |-> GMul(facing(k), G), s |-> s] /\ e = compute_sighash_single(GMul(k, G), GMul(key, G), job.msg)
            OBVIOUS
      <2>2. facing(remainder(s, e, key, 0)) = facing(k) /\ isQuad(remainder(s, e, key, 0))
            BY <1>4, <1>8
      <2>3. Absent = GMul(k, G) \/ (Absent = Absent /\ facing(k) = facing(k))
            OBVIOUS
      <2> HIDE DEF sig, e
      <2>4. aggsig_verify_single(sig, job.msg, Absent, GMul(key, G), GMul(key, G), pointFor(0), FALSE)
            BY <1>1, <1>2, <1>4, <1>8, <2>1, <2>2, <2>3, VerifiesSingle
      <2>5. QED
            BY <2>4
<1>11. QED
      BY <1>7, <1>9, <1>10 DEF key, P

\* Taking one of two signatures off their sum leaves the other among the answers.
LEMMA TakesOff == ASSUME NEW a \in Scalar, NEW b \in Scalar PROVE SAdd(SAdd(a, b), SNeg(a)) = b
<1>1. SAdd(SAdd(b, a), SNeg(a)) = SAdd(b, SAdd(a, SNeg(a))) /\ SNeg(a) \in Scalar
      BY SAddAssociates, Closed
<1>2. SAdd(a, b) = SAdd(b, a) /\ SAdd(a, SNeg(a)) = 0 /\ SAdd(b, 0) = b
      BY RingLaws
<1>3. QED
      BY <1>1, <1>2

LEMMA SubtractLeaves ==
    ASSUME NEW k \in Scalar, NEW l \in Scalar, isQuad(k), isQuad(l), NEW s \in Scalar, NEW t \in Scalar,
           NEW sum, sum = [x |-> GMul(facing(SAdd(k, l)), G), s |-> SAdd(s, t)],
           NEW one, one = [x |-> GMul(facing(k), G), s |-> s],
           NEW other, other = [x |-> GMul(facing(l), G), s |-> t]
    PROVE  LET rest == aggsig_subtract_partial_signature(sum, one)
           IN rest.ret > 0 /\ other \in rest.sigs
<1> DEFINE R == SAdd(k, l)
           plus == GAdd(sum.x, GNeg(one.x))
           minus == GAdd(GNeg(sum.x), GNeg(one.x))
           candidates == {Q \in {plus, minus} : quadY(Q)}
           rest == aggsig_subtract_partial_signature(sum, one)
           L == GMul(l, G)
<1>1. R \in Scalar /\ facing(R) \in Scalar /\ SNeg(facing(R)) \in Scalar /\ SNeg(k) \in Scalar /\ facing(k) = k
      BY Closed, FacingIs DEF facing
<1>2. SAdd(SAdd(s, t), SNeg(s)) = t
      BY TakesOff
<1>3. SAdd(R, SNeg(k)) = l
      BY TakesOff
<1>4. /\ plus = GMul(SAdd(facing(R), SNeg(k)), G)
      /\ minus = GMul(SAdd(SNeg(facing(R)), SNeg(k)), G)
      <2>1. sum.x = GMul(facing(R), G) /\ one.x = GMul(k, G)
            BY <1>1
      <2>2. GNeg(GMul(k, G)) = GMul(SNeg(k), G) /\ GNeg(GMul(facing(R), G)) = GMul(SNeg(facing(R)), G)
            BY <1>1, MultiplesAdd
      <2> HIDE DEF R
      <2>3. QED
            BY <1>1, <2>1, <2>2, MultiplesAdd
<1>5. L \in {plus, minus}
      <2>1. CASE isQuad(R)
            <3>1. facing(R) = R
                  BY <2>1 DEF facing
            <3>2. QED
                  BY <1>3, <1>4, <3>1
      <2>2. CASE ~isQuad(R)
            <3>1. facing(R) = SNeg(R) /\ SNeg(SNeg(R)) = R
                  BY <1>1, <2>2, SumLaws DEF facing
            <3>2. QED
                  BY <1>3, <1>4, <3>1
      <2>3. QED
            BY <2>1, <2>2
<1>6. quadY(L) /\ XCoordinate(L) = GMul(facing(l), G)
      BY MultipleFaces
<1> HIDE DEF plus, minus, L
<1>7. L \in candidates
      BY <1>5, <1>6
<1>8. /\ rest.ret = IF candidates = {} THEN -1 ELSE IF quadY(plus) /\ quadY(minus) THEN 2 ELSE 1
      /\ rest.sigs = {[x |-> XCoordinate(Q), s |-> SAdd(sum.s, SNeg(one.s))] : Q \in candidates}
      BY DEF aggsig_subtract_partial_signature, plus, minus
<1> HIDE DEF candidates, rest
<1>9. rest.ret > 0
      BY <1>7, <1>8
<1>10. other \in rest.sigs
      <2>1. SAdd(sum.s, SNeg(one.s)) = t
            BY <1>2
      <2>2. other = [x |-> XCoordinate(L), s |-> SAdd(sum.s, SNeg(one.s))]
            BY <1>6, <2>1
      <2>3. QED
            BY <1>7, <1>8, <2>2
<1>11. QED
      BY <1>9, <1>10 DEF rest

-------------------------------------------------------------------------------
(* Two signers.                                                            *)

\* Two keys, and two nonces whose points have square y coordinates.
LEMMA PartnersAre ==
    ASSUME AggHashesAreBytes, AggNoncesAreDrawn, NEW job \in AggJobs, Len(job.keys) > 1
    PROVE  LET k == partyNonce(job, 1)
               l == partyNonce(job, 2)
           IN /\ job.keys[1] \in Scalar /\ job.keys[2] \in Scalar /\ job.msg \in Nat
              /\ k \in Scalar /\ k # 0 /\ isQuad(k) /\ l \in Scalar /\ l # 0 /\ isQuad(l)
              /\ SAdd(k, l) \in Scalar /\ SAdd(k, l) # 0
              /\ public(job).R = GMul(SAdd(k, l), G)
              /\ public(job).P = GMul(SAdd(job.keys[1], job.keys[2]), G)
<1> DEFINE k == partyNonce(job, 1)
           l == partyNonce(job, 2)
           x == job.keys[1]
           y == job.keys[2]
           nonces == [i \in 1 .. 2 |-> GMul(partyNonce(job, i), G)]
           points == [i \in 1 .. 2 |-> GMul(job.keys[i], G)]
<1>1. job.msg \in Nat /\ job.seed \in Nat /\ x \in Scalar /\ y \in Scalar
      <2>1. job \in [keys : Seq(Scalar \ {0}), msg : Nat, seed : Nat]
            BY AggAssumption
      <2>2. 1 \in 1 .. Len(job.keys) /\ 2 \in 1 .. Len(job.keys)
            BY <2>1
      <2>3. QED
            BY <2>1, <2>2
<1>2. k \in Scalar /\ k # 0 /\ isQuad(k) /\ l \in Scalar /\ l # 0 /\ isQuad(l)
      <2>1. job.seed + 1 \in Nat /\ job.seed + 2 \in Nat /\ 0 \in Nat
            BY <1>1
      <2>2. QED
            BY <2>1, NonceIs DEF partyNonce
<1>3. nonces = [i \in 1 .. 2 |-> IF i = 1 THEN GMul(k, G) ELSE GMul(l, G)]
      <2> HIDE DEF k, l
      <2>1. \A i \in 1 .. 2 : GMul(partyNonce(job, i), G) = IF i = 1 THEN GMul(k, G) ELSE GMul(l, G)
            <3>1. \A i \in 1 .. 2 : i = 1 \/ i = 2
                  OBVIOUS
            <3>2. QED
                  BY <3>1 DEF k, l
      <2>2. QED
            BY <2>1
<1>4. points = [i \in 1 .. 2 |-> IF i = 1 THEN GMul(x, G) ELSE GMul(y, G)]
      <2>1. \A i \in 1 .. 2 : GMul(job.keys[i], G) = IF i = 1 THEN GMul(x, G) ELSE GMul(y, G)
            <3>1. \A i \in 1 .. 2 : i = 1 \/ i = 2
                  OBVIOUS
            <3>2. QED
                  BY <3>1
      <2>2. QED
            BY <2>1
<1>5. public(job).R = GSum(SubSeq(nonces, 1, 2)) /\ public(job).P = GSum(SubSeq(points, 1, 2))
      BY DEF public, Tuple
<1> HIDE DEF k, l, x, y, nonces, points
<1>6. public(job).R = GMul(SAdd(k, l), G) /\ public(job).P = GMul(SAdd(x, y), G)
      BY <1>1, <1>2, <1>3, <1>4, <1>5, TwoPoints
<1>7. SAdd(k, l) \in Scalar /\ SAdd(k, l) # 0
      <2>1. k \in Nat /\ l \in Nat /\ Order \in Nat /\ 2 * k < Order /\ 2 * l < Order
            BY <1>2, GroupAssumption DEF isQuad, Scalar
      <2>2. k + l < Order /\ k + l # 0
            BY <1>2, <2>1
      <2>3. QED
            BY <1>2, <2>2, SAddIs
<1>8. QED
      BY <1>1, <1>2, <1>6, <1>7 DEF k, l, x, y

LEMMA TogetherHolds ==
    ASSUME AggHashesAreBytes, AggNoncesAreDrawn, NEW job \in AggJobs, Len(job.keys) > 1, NEW extra \in Scalar
    PROVE  LET a == signedTogether(job, extra, public(job))
           IN /\ a.at = "together" /\ a.partsAccepted /\ a.sumAccepted
              /\ a.rest.ret > 0 /\ a.second \in a.rest.sigs
<1> DEFINE k == partyNonce(job, 1)
           l == partyNonce(job, 2)
           x == job.keys[1]
           y == job.keys[2]
           pub == public(job)
           R == SAdd(k, l)
           P == SAdd(x, y)
           e == compute_sighash_single(GMul(R, G), GMul(P, G), job.msg)
           s == SAdd(SAdd(SMul(x, e), sided(R, k)), extra)
           t == SAdd(SAdd(SMul(y, e), sided(R, l)), 0)
           first == [x |-> GMul(facing(k), G), s |-> s]
           second == [x |-> GMul(facing(l), G), s |-> t]
           f == [i \in 1 .. 2 |-> partySig(job, i, extra, pub)]
           sigs == Tuple(2, LAMBDA i : partySig(job, i, extra, pub))
           sum == [x |-> GMul(facing(R), G), s |-> SAdd(s, t)]
           a == signedTogether(job, extra, pub)
<1>1. /\ x \in Scalar /\ y \in Scalar /\ job.msg \in Nat
      /\ k \in Scalar /\ k # 0 /\ isQuad(k) /\ l \in Scalar /\ l # 0 /\ isQuad(l)
      /\ R \in Scalar /\ R # 0
      /\ pub.R = GMul(R, G) /\ pub.P = GMul(P, G)
      BY PartnersAre
<1>2. /\ partySig(job, 1, extra, pub) = aggsig_sign_single(job.msg, x, k, extra, pub.R, pub.R, pub.P, job.seed).v
      /\ partySig(job, 2, extra, pub) = aggsig_sign_single(job.msg, y, l, 0, pub.R, pub.R, pub.P, job.seed).v
      BY DEF partySig
<1>3. a = addedTogether(job, extra, pub, sigs)
      BY DEF signedTogether
<1>4. sigs = SubSeq(f, 1, 2)
      BY DEF Tuple
<1> HIDE DEF k, l, x, y, pub, R, P
<1>5. P \in Scalar /\ e \in Scalar /\ 0 \in Scalar /\ SNeg(k) \in Scalar /\ SNeg(l) \in Scalar
      /\ sided(R, k) \in Scalar /\ sided(R, l) \in Scalar
      <2>1. P \in Scalar /\ SNeg(k) \in Scalar /\ SNeg(l) \in Scalar /\ 0 \in Scalar
            BY <1>1, Closed, ZeroAndOne DEF P
      <2>2. e \in Scalar
            BY <1>1, <2>1, HashedSingle
      <2>3. QED
            BY <1>1, <2>1, <2>2 DEF sided
<1>6. partySig(job, 1, extra, pub) = first /\ partySig(job, 2, extra, pub) = second
      <2>1. aggsig_sign_single(job.msg, x, k, extra, GMul(R, G), GMul(R, G), GMul(P, G), job.seed).v
              = [x |-> GMul(facing(k), G), s |-> SAdd(SAdd(SMul(x, e), sided(R, k)), extra)]
            BY <1>1, PartIs
      <2>2. aggsig_sign_single(job.msg, y, l, 0, GMul(R, G), GMul(R, G), GMul(P, G), job.seed).v
              = [x |-> GMul(facing(l), G), s |-> SAdd(SAdd(SMul(y, e), sided(R, l)), 0)]
            BY <1>1, <1>5, PartIs
      <2> HIDE DEF e
      <2>3. QED
            BY <1>1, <1>2, <2>1, <2>2
<1> HIDE DEF e
<1>7. s \in Scalar /\ remainder(s, e, x, extra) = sided(R, k)
      BY <1>1, <1>5, RemainderIs
<1>8. t \in Scalar /\ remainder(t, e, y, 0) = sided(R, l)
      BY <1>1, <1>5, RemainderIs
<1>9. SAdd(s, t) = SAdd(SAdd(SMul(P, e), SAdd(sided(R, k), sided(R, l))), extra)
      <2> DEFINE k1 == sided(R, k)
                 l1 == sided(R, l)
      <2>1. k1 \in Scalar /\ l1 \in Scalar
            BY <1>5
      <2> HIDE DEF k1, l1
      <2>2. SAdd(SAdd(SAdd(SMul(x, e), k1), extra), SAdd(SAdd(SMul(y, e), l1), 0))
              = SAdd(SAdd(SMul(SAdd(x, y), e), SAdd(k1, l1)), extra)
            <3>1. x \in Scalar /\ y \in Scalar /\ e \in Scalar /\ extra \in Scalar
                  BY <1>1, <1>5
            <3>2. QED
                  BY <2>1, <3>1, SignaturesAdd
      <2>3. QED
            BY <2>2 DEF k1, l1, P
<1>10. SAdd(sided(R, k), sided(R, l)) = facing(R)
      <2>1. SNeg(SAdd(k, l)) = SAdd(SNeg(k), SNeg(l))
            BY <1>1, SumLaws
      <2>2. QED
            BY <2>1 DEF sided, facing, R
<1>11. facing(R) \in Scalar /\ isQuad(facing(R)) /\ facing(facing(R)) = facing(R)
       /\ facing(sided(R, k)) = facing(k) /\ facing(sided(R, l)) = facing(l)
       /\ facing(k) \in Scalar /\ facing(l) \in Scalar
      BY <1>1, FacingIs DEF sided
<1>12. SAdd(s, t) \in Scalar /\ remainder(SAdd(s, t), e, P, extra) = facing(R)
      BY <1>5, <1>7, <1>8, <1>9, <1>10, <1>11, RemainderIs
<1>13. f = [i \in 1 .. 2 |-> IF i = 1 THEN first ELSE second]
      <2>1. \A i \in 1 .. 2 : i = 1 \/ i = 2
            OBVIOUS
      <2> HIDE DEF first, second
      <2>2. \A i \in 1 .. 2 : partySig(job, i, extra, pub) = IF i = 1 THEN first ELSE second
            BY <1>6, <2>1
      <2>3. QED
            BY <2>2
<1>14. sigs = f /\ sigs[1] = first /\ sigs[2] = second /\ Len(sigs) = 2
      <2> HIDE DEF first, second, f
      <2>1. f = [i \in 1 .. 2 |-> f[i]] /\ f[1] = first /\ f[2] = second
            BY <1>13
      <2>2. SubSeq(f, 1, 2) = f
            BY <2>1, TupleIs
      <2>3. Len(f) = 2
            BY <1>13
      <2> HIDE DEF sigs
      <2>4. QED
            BY <1>4, <2>1, <2>2, <2>3
<1> HIDE DEF s, t, f, sigs
<1>15. aggsig_add_signatures_single(sigs, pub.R) = sum
      <2> DEFINE g == [i \in 1 .. 2 |-> sigs[i].s]
      <2>1. g = [i \in 1 .. 2 |-> IF i = 1 THEN s ELSE t]
            <3>1. \A i \in 1 .. 2 : i = 1 \/ i = 2
                  OBVIOUS
            <3>2. \A i \in 1 .. 2 : sigs[i].s = IF i = 1 THEN s ELSE t
                  BY <1>14, <3>1
            <3>3. QED
                  BY <3>2
      <2>2. aggsig_add_signatures_single(sigs, pub.R) = [x |-> XCoordinate(pub.R), s |-> SSum(SubSeq(g, 1, 2))]
            BY <1>14 DEF aggsig_add_signatures_single, Tuple
      <2> HIDE DEF g
      <2>3. SSum(SubSeq(g, 1, 2)) = SAdd(s, t)
            BY <1>7, <1>8, <2>1, TwoScalars
      <2>4. XCoordinate(pub.R) = GMul(facing(R), G)
            BY <1>1, MultipleFaces
      <2>5. QED
            BY <2>2, <2>3, <2>4
<1>16. a = checkedTogether(job, extra, pub, sigs, sum)
      BY <1>3, <1>15 DEF addedTogether
<1> HIDE DEF sum, first, second, a
<1>17. aggsig_verify_single(first, job.msg, pub.R, GMul(x, G), pub.P, pointFor(extra), TRUE)
      <2>1. first = [x |-> GMul(facing(k), G), s |-> s]
            BY DEF first
      <2>2. pub.R = GMul(R, G) \/ (pub.R = Absent /\ facing(k) = facing(R))
            BY <1>1
      <2>3. e = compute_sighash_single(GMul(R, G), GMul(P, G), job.msg)
            BY DEF e
      <2>4. facing(remainder(s, e, x, extra)) = facing(k)
            BY <1>7, <1>11
      <2>5. aggsig_verify_single(first, job.msg, pub.R, GMul(x, G), GMul(P, G), pointFor(extra), TRUE)
            BY <1>1, <1>5, <1>7, <1>11, <2>1, <2>2, <2>3, <2>4, VerifiesSingle
      <2>6. QED
            BY <1>1, <2>5
<1>18. aggsig_verify_single(second, job.msg, pub.R, GMul(y, G), pub.P, pointFor(0), TRUE)
      <2>1. second = [x |-> GMul(facing(l), G), s |-> t]
            BY DEF second
      <2>2. pub.R = GMul(R, G) \/ (pub.R = Absent /\ facing(l) = facing(R))
            BY <1>1
      <2>3. e = compute_sighash_single(GMul(R, G), GMul(P, G), job.msg)
            BY DEF e
      <2>4. facing(remainder(t, e, y, 0)) = facing(l)
            BY <1>8, <1>11
      <2>5. aggsig_verify_single(second, job.msg, pub.R, GMul(y, G), GMul(P, G), pointFor(0), TRUE)
            BY <1>1, <1>5, <1>8, <1>11, <2>1, <2>2, <2>3, <2>4, VerifiesSingle
      <2>6. QED
            BY <1>1, <2>5
<1>19. aggsig_verify_single(sum, job.msg, Absent, pub.P, pub.P, pointFor(extra), FALSE)
      <2>1. sum = [x |-> GMul(facing(R), G), s |-> SAdd(s, t)]
            BY DEF sum
      <2>2. Absent = GMul(R, G) \/ (Absent = Absent /\ facing(R) = facing(R))
            OBVIOUS
      <2>3. e = compute_sighash_single(GMul(R, G), GMul(P, G), job.msg)
            BY DEF e
      <2>4. facing(remainder(SAdd(s, t), e, P, extra)) = facing(R) /\ isQuad(remainder(SAdd(s, t), e, P, extra))
            BY <1>11, <1>12
      <2>5. aggsig_verify_single(sum, job.msg, Absent, GMul(P, G), GMul(P, G), pointFor(extra), FALSE)
            BY <1>1, <1>5, <1>11, <1>12, <2>1, <2>2, <2>3, <2>4, VerifiesSingle
      <2>6. QED
            BY <1>1, <2>5
<1>20. aggsig_subtract_partial_signature(sum, first).ret > 0 /\ second \in aggsig_subtract_partial_signature(sum, first).sigs
      BY <1>1, <1>7, <1>8, SubtractLeaves DEF sum, first, second, R
<1>21. a.at = "together" /\ a.rest = aggsig_subtract_partial_signature(sum, first) /\ a.second = second
      BY <1>14, <1>16 DEF checkedTogether
<1>22. a.sumAccepted = aggsig_verify_single(sum, job.msg, Absent, pub.P, pub.P, pointFor(extra), FALSE)
      BY <1>16 DEF checkedTogether, pointFor
<1>23. a.partsAccepted
         = \A i \in 1 .. 2 : aggsig_verify_single(sigs[i], job.msg, pub.R, GMul(job.keys[i], G), pub.P,
                                                  IF i = 1 /\ extra # 0 THEN GMul(extra, G) ELSE Absent, TRUE)
      BY <1>16 DEF checkedTogether
<1>24. a.partsAccepted
      <2>1. ASSUME NEW i \in 1 .. 2
            PROVE  aggsig_verify_single(sigs[i], job.msg, pub.R, GMul(job.keys[i], G), pub.P,
                                        IF i = 1 /\ extra # 0 THEN GMul(extra, G) ELSE Absent, TRUE)
            <3>1. CASE i = 1
                  BY <1>14, <1>17, <3>1 DEF pointFor, x
            <3>2. CASE i = 2
                  <4>1. (IF i = 1 /\ extra # 0 THEN GMul(extra, G) ELSE Absent) = Absent /\ pointFor(0) = Absent
                        BY <3>2 DEF pointFor
                  <4>2. GMul(job.keys[i], G) = GMul(y, G) /\ sigs[i] = second
                        BY <1>14, <3>2 DEF y
                  <4>3. QED
                        BY <1>18, <4>1, <4>2
            <3>3. i = 1 \/ i = 2
                  OBVIOUS
            <3>4. QED
                  BY <3>1, <3>2, <3>3
      <2>2. QED
            BY <1>23, <2>1
<1>25. QED
      BY <1>19, <1>20, <1>21, <1>22, <1>24 DEF a, pub

-------------------------------------------------------------------------------
(* One context for all signers.                                            *)

Contexts(n) ==
    [at : {"context", "combined"}, job : AggJobs, pubkeys : Points(n), progress : [1 .. n -> {"UNKNOWN", "OURS", "SIGNED"}],
     secnonce : Scalars(n), partial : Scalars(n), sum : Point, drawn : Nat, failures : [1 .. n -> Nat],
     odd : BOOLEAN]

\* A nonce that a number of calls have turned around or not; K is their sum.
turnedBy(K, calls, k) == IF ~isQuad(K) /\ calls % 2 = 1 THEN SNeg(k) ELSE k

hashFor(a, K, i) == compute_sighash(compute_prehash(a.pubkeys, GMul(facing(K), G), a.job.msg), i - 1)

\* Signer i, whose nonce was drawn as k: the secret nonce is as often turned
\* around as it was called for, and its part was made with what it then was.
SignerOf(a, K, k, i) ==
    /\ a.progress[i] = "UNKNOWN" => k = 0
    /\ a.progress[i] # "UNKNOWN" => k # 0
    /\ a.progress[i] = "OURS" => a.secnonce[i] = turnedBy(K, a.failures[i], k)
    /\ a.progress[i] = "SIGNED" =>
          /\ ~Overflow(hashFor(a, K, i))
          /\ a.partial[i] = SAdd(SMul(a.job.keys[i], hashFor(a, K, i)), turnedBy(K, a.failures[i] + 1, k))

\* The context a, whose nonces were drawn as k; nobody signs before all are.
Signs(a, n, k) ==
    /\ n = Len(a.job.keys)
    /\ a \in Contexts(n)
    /\ a.pubkeys = multiplesOf(n, a.job.keys)
    /\ k \in Scalars(n)
    /\ \A i \in 1 .. n : SignerOf(a, SSum(k), k[i], i)
    /\ (\E j \in 1 .. n : a.progress[j] = "UNKNOWN")
          => \A i \in 1 .. n : a.progress[i] # "SIGNED" /\ a.failures[i] = 0
    /\ a.at = "context" => a.sum = GMul(SSum(k), G) /\ ~a.odd
    /\ a.at = "combined" => /\ a.sum = GMul(facing(SSum(k)), G)
                            /\ \A i \in 1 .. n : a.progress[i] = "SIGNED"
                            /\ SSum(k) # 0 => (a.odd <=> ~isQuad(SSum(k)))

LEMMA AggJobTyped ==
    ASSUME NEW job \in AggJobs
    PROVE  /\ Len(job.keys) \in Nat /\ Len(job.keys) > 0 /\ job.keys \in Scalars(Len(job.keys))
           /\ job.msg \in Nat /\ job.seed \in Nat
<1>1. job \in [keys : Seq(Scalar \ {0}), msg : Nat, seed : Nat] /\ Len(job.keys) > 0
      BY AggAssumption
<1> DEFINE keys == job.keys
<1>2. keys \in Seq(Scalar \ {0})
      BY <1>1
<1> HIDE DEF keys
<1>3. Len(keys) \in Nat /\ keys \in [1 .. Len(keys) -> Scalar]
      <2>1. Len(keys) \in Nat /\ keys \in [1 .. Len(keys) -> Scalar \ {0}]
            BY <1>2
      <2>2. QED
            BY <2>1
<1>4. QED
      BY <1>1, <1>3 DEF keys, Scalars

\* A context that was created.
LEMMA CreateStep ==
    ASSUME NEW job \in AggJobs, aggsig_context_create(job)
    PROVE  \E n \in Nat : \E k : Signs(agg', n, k)
<1> DEFINE n == Len(job.keys)
           zeros == [i \in 1 .. n |-> 0]
           unknown == [i \in 1 .. n |-> "UNKNOWN"]
           points == multiplesOf(n, job.keys)
           a == [at |-> "context", job |-> job, pubkeys |-> points, progress |-> unknown, secnonce |-> zeros,
                 partial |-> zeros, sum |-> Infinity, drawn |-> 0, failures |-> zeros, odd |-> FALSE]
<1>1. n \in Nat /\ job.keys \in Scalars(n)
      BY AggJobTyped
<1>2. /\ SubSeq(zeros, 1, n) = zeros /\ SubSeq(unknown, 1, n) = unknown /\ SubSeq(points, 1, n) = points
      <2>1. zeros = [i \in 1 .. n |-> zeros[i]] /\ unknown = [i \in 1 .. n |-> unknown[i]]
            OBVIOUS
      <2>2. points = [i \in 1 .. n |-> points[i]]
            BY DEF multiplesOf
      <2> HIDE DEF zeros, unknown, points, n
      <2>3. QED
            BY <1>1, <2>1, <2>2, TupleIs
<1>3. agg' = a
      <2>1. pubkeysOf(job.keys) = SubSeq(points, 1, n)
            BY DEF pubkeysOf, Tuple, multiplesOf
      <2>2. /\ Tuple(n, LAMBDA i : "UNKNOWN") = SubSeq(unknown, 1, n)
            /\ Tuple(n, LAMBDA i : 0) = SubSeq(zeros, 1, n)
            BY DEF Tuple
      <2> HIDE DEF zeros, unknown, points
      <2>3. QED
            BY <1>2, <2>1, <2>2 DEF aggsig_context_create
<1>4. zeros \in Scalars(n) /\ zeros \in [1 .. n -> Nat] /\ unknown \in [1 .. n -> {"UNKNOWN", "OURS", "SIGNED"}]
      /\ \A i \in 1 .. n : zeros[i] = 0 /\ unknown[i] = "UNKNOWN"
      BY ZeroAndOne DEF Scalars
<1>5. points \in Points(n)
      BY <1>1, MultiplesTyped
<1>6. SSum(zeros) = 0
      <2> HIDE DEF n
      <2>1. QED
            BY <1>1, SumOfZeros
<1> HIDE DEF zeros, unknown, points
<1>7. a \in Contexts(n)
      BY <1>4, <1>5, InfinityIs DEF Contexts
<1>8. /\ a.at = "context" /\ a.job = job /\ a.pubkeys = points /\ a.progress = unknown /\ a.failures = zeros
      /\ a.sum = Infinity /\ ~a.odd
      OBVIOUS
<1> HIDE DEF a
<1>9. \A i \in 1 .. n : SignerOf(a, SSum(zeros), zeros[i], i)
      BY <1>4, <1>8 DEF SignerOf
<1>10. Signs(a, n, zeros)
      BY <1>4, <1>6, <1>7, <1>8, <1>9, NoMultiple DEF Signs, points
<1>11. QED
      BY <1>1, <1>3, <1>10

\* One more scalar in a sum.
LEMMA SumPlusOne ==
    ASSUME NEW n \in Nat, NEW k \in Scalars(n), NEW i \in 1 .. n, k[i] = 0, NEW c \in Scalar
    PROVE  LET l == [k EXCEPT ![i] = c]
           IN /\ l \in Scalars(n) /\ l[i] = c /\ \A j \in 1 .. n : j # i => l[j] = k[j]
              /\ SSum(l) = SAdd(SSum(k), c)
<1> DEFINE l == [k EXCEPT ![i] = c]
           d == [j \in 1 .. n |-> IF j = i THEN c ELSE 0]
<1>1. k \in [1 .. n -> Scalar] /\ 0 \in Scalar
      BY ZeroAndOne DEF Scalars
<1>2. d \in Scalars(n) /\ d[i] = c /\ \A j \in 1 .. n : j # i => d[j] = 0
      BY <1>1 DEF Scalars
<1>3. l \in Scalars(n) /\ l[i] = c /\ \A j \in 1 .. n : j # i => l[j] = k[j]
      BY <1>1 DEF Scalars
<1>4. SSum(d) = c
      <2> HIDE DEF d
      <2>1. QED
            BY <1>2, SumOfOne
<1>5. l = [j \in 1 .. n |-> SAdd(k[j], d[j])]
      <2>1. \A j \in 1 .. n : l[j] = SAdd(k[j], d[j])
            <3>1. ASSUME NEW j \in 1 .. n PROVE l[j] = SAdd(k[j], d[j])
                  <4>1. CASE j = i
                        <5>1. SAdd(0, c) = c
                              BY WithZero
                        <5>2. QED
                              BY <1>2, <1>3, <4>1, <5>1
                  <4>2. CASE j # i
                        <5>1. k[j] \in Scalar
                              BY <1>1
                        <5>2. SAdd(k[j], 0) = k[j]
                              BY <5>1, WithZero
                        <5>3. QED
                              BY <1>2, <1>3, <4>2, <5>2
                  <4>3. QED
                        BY <4>1, <4>2
            <3>2. QED
                  BY <3>1
      <2> HIDE DEF d
      <2>2. l = [j \in 1 .. n |-> l[j]]
            BY <1>3 DEF Scalars
      <2> HIDE DEF l
      <2>3. QED
            BY <2>1, <2>2
<1> HIDE DEF l, d
<1>6. SSum(l) = SAdd(SSum(k), c)
      BY <1>2, <1>4, <1>5, SumOfSums
<1>7. QED
      BY <1>3, <1>6 DEF l

\* A nonce that is drawn joins the sum.
LEMMA NonceStep ==
    ASSUME AggHashesAreBytes, AggNoncesAreDrawn, NEW n \in Nat, NEW k, Signs(agg, n, k),
           NEW i, aggsig_generate_nonce(i)
    PROVE  \E l : Signs(agg', n, l)
<1> DEFINE nonce == generate_nonce_single(agg.job.seed, agg.drawn)
           c == nonce.sec
           l == [k EXCEPT ![i] = c]
           K == SSum(k)
           L == SSum(l)
           a == [agg EXCEPT !.secnonce[i] = c, !.drawn = nonce.count,
                            !.sum = GAdd(@, GMul(c, G)), !.progress[i] = "OURS"]
<1>1. /\ agg \in Contexts(n) /\ n = Len(agg.job.keys) /\ k \in Scalars(n)
      /\ agg.pubkeys = multiplesOf(n, agg.job.keys)
      BY DEF Signs
<1>2. agg.job \in AggJobs /\ agg.drawn \in Nat /\ agg.job.seed \in Nat
      <2>1. agg.job \in AggJobs /\ agg.drawn \in Nat
            BY <1>1 DEF Contexts
      <2>2. QED
            BY <2>1, AggJobTyped
<1>3. c \in Scalar /\ c # 0 /\ nonce.count \in Nat
      BY <1>2, NonceIs
<1>4. /\ agg.at = "context" /\ i \in DOMAIN agg.progress /\ agg.progress[i] = "UNKNOWN"
      /\ agg' = a
      BY DEF aggsig_generate_nonce
<1>5. i \in 1 .. n
      BY <1>1, <1>4 DEF Contexts
<1>6. k[i] = 0 /\ \A j \in 1 .. n : agg.progress[j] # "SIGNED" /\ agg.failures[j] = 0
      BY <1>4, <1>5 DEF Signs, SignerOf
<1> HIDE DEF nonce, c
<1>7. l \in Scalars(n) /\ l[i] = c /\ (\A j \in 1 .. n : j # i => l[j] = k[j]) /\ L = SAdd(K, c)
      BY <1>1, <1>3, <1>5, <1>6, SumPlusOne
<1>8. K \in Scalar /\ agg.sum = GMul(K, G) /\ ~agg.odd
      BY <1>1, <1>4, SumWalk DEF Signs
<1>9. GAdd(agg.sum, GMul(c, G)) = GMul(L, G) /\ GMul(L, G) \in Point
      BY <1>3, <1>7, <1>8, MultiplesAdd, MultipleIs, Closed
<1> HIDE DEF l, K, L
<1>10. /\ a \in Contexts(n)
       /\ a.at = "context" /\ a.job = agg.job /\ a.pubkeys = agg.pubkeys /\ a.failures = agg.failures
       /\ a.sum = GMul(L, G) /\ a.odd = agg.odd
       /\ a.progress[i] = "OURS" /\ a.secnonce[i] = c
       /\ \A j \in 1 .. n : j # i => a.progress[j] = agg.progress[j] /\ a.secnonce[j] = agg.secnonce[j]
       <2>1. agg.secnonce \in [1 .. n -> Scalar] /\ agg.progress \in [1 .. n -> {"UNKNOWN", "OURS", "SIGNED"}]
             BY <1>1 DEF Contexts, Scalars
       <2> DEFINE sec == [agg.secnonce EXCEPT ![i] = c]
                  pro == [agg.progress EXCEPT ![i] = "OURS"]
       <2>2. /\ sec \in Scalars(n) /\ pro \in [1 .. n -> {"UNKNOWN", "OURS", "SIGNED"}]
             /\ sec[i] = c /\ pro[i] = "OURS"
             /\ \A j \in 1 .. n : j # i => pro[j] = agg.progress[j] /\ sec[j] = agg.secnonce[j]
             BY <1>3, <1>5, <2>1 DEF Scalars
       <2>3. a = [agg EXCEPT !.secnonce = sec, !.drawn = nonce.count, !.sum = GMul(L, G), !.progress = pro]
             BY <1>1, <1>9 DEF Contexts
       <2> HIDE DEF sec, pro, a
       <2>4. QED
             BY <1>1, <1>3, <1>4, <1>9, <2>2, <2>3 DEF Contexts
<1> HIDE DEF a
<1>11. ASSUME NEW j \in 1 .. n PROVE SignerOf(a, L, l[j], j)
      <2>1. CASE j = i
            <3>1. turnedBy(L, 0, c) = c
                  BY DEF turnedBy
            <3>2. a.failures[j] = 0
                  BY <1>6, <1>10
            <3>3. QED
                  BY <1>3, <1>7, <1>10, <2>1, <3>1, <3>2 DEF SignerOf
      <2>2. CASE j # i
            <3>1. SignerOf(agg, K, k[j], j)
                  BY DEF Signs, K
            <3>2. \A x, y : turnedBy(x, 0, y) = y
                  BY DEF turnedBy
            <3>3. a.failures[j] = 0 /\ agg.failures[j] = 0 /\ a.progress[j] = agg.progress[j]
                  /\ a.secnonce[j] = agg.secnonce[j] /\ agg.progress[j] # "SIGNED" /\ l[j] = k[j]
                  BY <1>6, <1>7, <1>10, <2>2
            <3>4. QED
                  BY <3>1, <3>2, <3>3 DEF SignerOf
      <2>3. QED
            BY <2>1, <2>2
<1>12. \A j \in 1 .. n : a.progress[j] # "SIGNED" /\ a.failures[j] = 0
      <2>1. ASSUME NEW j \in 1 .. n PROVE a.progress[j] # "SIGNED" /\ a.failures[j] = 0
            <3>1. a.failures[j] = 0
                  BY <1>6, <1>10
            <3>2. CASE j = i
                  BY <1>10, <3>1, <3>2
            <3>3. CASE j # i
                  BY <1>6, <1>10, <3>1, <3>3
            <3>4. QED
                  BY <3>2, <3>3
      <2>2. QED
            BY <2>1
<1>13. Signs(a, n, l)
      BY <1>1, <1>7, <1>8, <1>10, <1>11, <1>12 DEF Signs, L
<1>14. QED
      BY <1>4, <1>13

\* Called once more a nonce is turned around once more, when the sum asks for it.
LEMMA TurnsOnce ==
    ASSUME NEW K, NEW calls \in Nat, NEW k \in Scalar
    PROVE  (IF isQuad(K) THEN turnedBy(K, calls, k) ELSE SNeg(turnedBy(K, calls, k))) = turnedBy(K, calls + 1, k)
<1>1. SNeg(SNeg(k)) = k
      BY SumLaws
<1>2. (calls + 1) % 2 = 1 <=> calls % 2 # 1
      OBVIOUS
<1>3. QED
      BY <1>1, <1>2 DEF turnedBy

\* The hash of the context is the same for the sum of the nonces and its opposite.
LEMMA ContextHash ==
    ASSUME AggHashesAreBytes, NEW n \in Nat, NEW a \in Contexts(n), NEW K \in Scalar, NEW i \in 1 .. n,
           a.sum = GMul(K, G) \/ a.sum = GMul(facing(K), G)
    PROVE  /\ compute_sighash(compute_prehash(a.pubkeys, XCoordinate(a.sum), a.job.msg), i - 1) = hashFor(a, K, i)
           /\ hashFor(a, K, i) \in Nat
<1>1. facing(K) \in Scalar /\ facing(facing(K)) = facing(K)
      BY FacingIs
<1>2. XCoordinate(a.sum) = GMul(facing(K), G) /\ GMul(facing(K), G) \in Point
      BY <1>1, MultipleFaces, MultipleIs
<1>3. a.pubkeys \in Points(n) /\ a.job.msg \in Nat
      <2>1. a.pubkeys \in Points(n) /\ a.job \in AggJobs
            BY DEF Contexts
      <2>2. QED
            BY <2>1, AggJobTyped
<1>4. compute_prehash(a.pubkeys, GMul(facing(K), G), a.job.msg) \in Nat
      BY <1>2, <1>3, HashedKeys
<1>5. i - 1 \in Nat
      OBVIOUS
<1>6. QED
      BY <1>2, <1>4, <1>5, HashedIndex DEF hashFor

\* A call to sign, with the key of the signer or with one that is no scalar.
LEMMA PartStep ==
    ASSUME AggHashesAreBytes, NEW n \in Nat, NEW k, Signs(agg, n, k), NEW i, NEW key,
           key = agg.job.keys[i] \/ key = Order, aggsig_partial_sign(i, key)
    PROVE  Signs(agg', n, k)
<1> DEFINE K == SSum(k)
           sec == IF quadY(agg.sum) THEN agg.secnonce[i] ELSE SNeg(agg.secnonce[i])
           hash == hashFor(agg, K, i)
           failed == [agg EXCEPT !.secnonce[i] = sec, !.failures[i] = @ + 1]
           part1 == SAdd(SMul(ScalarOf(key), ScalarOf(hash)), sec)
           done == [agg EXCEPT !.secnonce[i] = sec, !.partial[i] = part1, !.progress[i] = "SIGNED"]
<1>1. /\ agg \in Contexts(n) /\ n = Len(agg.job.keys) /\ k \in Scalars(n) /\ K \in Scalar
      /\ agg.pubkeys = multiplesOf(n, agg.job.keys)
      BY SumWalk DEF Signs
<1>2. agg.job \in AggJobs /\ agg.job.keys \in Scalars(n)
      <2>1. agg.job \in AggJobs
            BY <1>1 DEF Contexts
      <2>2. QED
            BY <1>1, <2>1, AggJobTyped
<1>3. /\ agg.at = "context" /\ i \in DOMAIN agg.progress /\ agg.progress[i] = "OURS"
      /\ \A j \in DOMAIN agg.progress : agg.progress[j] # "UNKNOWN"
      BY DEF aggsig_partial_sign
<1>4. i \in 1 .. n /\ \A j \in 1 .. n : agg.progress[j] # "UNKNOWN"
      BY <1>1, <1>3 DEF Contexts
<1>5. agg.sum = GMul(K, G) /\ ~agg.odd /\ k[i] \in Scalar /\ SignerOf(agg, K, k[i], i)
      BY <1>1, <1>3, <1>4 DEF Signs, Scalars
<1>6. compute_sighash(compute_prehash(agg.pubkeys, XCoordinate(agg.sum), agg.job.msg), i - 1) = hash /\ hash \in Nat
      BY <1>1, <1>4, <1>5, ContextHash
<1>7. IF Overflow(hash) \/ Overflow(key) THEN agg' = failed ELSE agg' = done
      BY <1>6 DEF aggsig_partial_sign
<1>8. agg.failures[i] \in Nat
      BY <1>1, <1>4 DEF Contexts
<1>9. sec = turnedBy(K, agg.failures[i] + 1, k[i])
      <2>1. agg.secnonce[i] = turnedBy(K, agg.failures[i], k[i])
            BY <1>3, <1>5 DEF SignerOf
      <2>2. quadY(agg.sum) <=> isQuad(K)
            BY <1>1, <1>5, MultipleFaces
      <2>3. (IF isQuad(K) THEN turnedBy(K, agg.failures[i], k[i]) ELSE SNeg(turnedBy(K, agg.failures[i], k[i])))
              = turnedBy(K, agg.failures[i] + 1, k[i])
            BY <1>5, <1>8, TurnsOnce
      <2>4. QED
            BY <2>1, <2>2, <2>3
<1>10. sec \in Scalar
      BY <1>5, <1>9, Closed DEF turnedBy
<1> HIDE DEF sec, hash, K
<1>11. k[i] # 0
      BY <1>3, <1>5 DEF SignerOf
<1>12. /\ agg.secnonce \in [1 .. n -> Scalar] /\ agg.partial \in [1 .. n -> Scalar]
       /\ agg.progress \in [1 .. n -> {"UNKNOWN", "OURS", "SIGNED"}] /\ agg.failures \in [1 .. n -> Nat]
      BY <1>1 DEF Contexts, Scalars
<1>13. CASE agg' = failed
      <2> DEFINE sn == [agg.secnonce EXCEPT ![i] = sec]
                 fl == [agg.failures EXCEPT ![i] = @ + 1]
      <2>1. /\ sn \in Scalars(n) /\ fl \in [1 .. n -> Nat] /\ sn[i] = sec /\ fl[i] = agg.failures[i] + 1
            /\ \A j \in 1 .. n : j # i => sn[j] = agg.secnonce[j] /\ fl[j] = agg.failures[j]
            BY <1>4, <1>8, <1>10, <1>12 DEF Scalars
      <2>2. failed = [agg EXCEPT !.secnonce = sn, !.failures = fl]
            BY <1>1 DEF Contexts
      <2> HIDE DEF sn, fl, failed
      <2>3. /\ agg' \in Contexts(n)
            /\ agg'.at = "context" /\ agg'.job = agg.job /\ agg'.pubkeys = agg.pubkeys
            /\ agg'.sum = agg.sum /\ agg'.odd = agg.odd /\ agg'.progress = agg.progress /\ agg'.partial = agg.partial
            /\ agg'.secnonce = sn /\ agg'.failures = fl
            BY <1>1, <1>3, <1>13, <2>1, <2>2 DEF Contexts
      <2>4. ASSUME NEW j \in 1 .. n PROVE SignerOf(agg', K, k[j], j)
            <3>1. SignerOf(agg, K, k[j], j)
                  BY DEF Signs, K
            <3>2. hashFor(agg', K, j) = hashFor(agg, K, j)
                  BY <2>3 DEF hashFor
            <3>3. CASE j = i
                  BY <1>3, <1>9, <1>11, <2>1, <2>3, <3>3 DEF SignerOf
            <3>4. CASE j # i
                  BY <2>1, <2>3, <3>1, <3>2, <3>4 DEF SignerOf
            <3>5. QED
                  BY <3>3, <3>4
      <2>5. QED
            BY <1>1, <1>4, <1>5, <2>3, <2>4 DEF Signs, K
<1>14. CASE agg' = done /\ ~Overflow(hash) /\ ~Overflow(key)
      <2> DEFINE sn == [agg.secnonce EXCEPT ![i] = sec]
                 pt == [agg.partial EXCEPT ![i] = part1]
                 pr == [agg.progress EXCEPT ![i] = "SIGNED"]
      <2>0. key = agg.job.keys[i] /\ key \in Scalar
            <3>1. key # Order
                  BY <1>14, GroupAssumption DEF Overflow
            <3>2. QED
                  BY <1>2, <1>4, <3>1 DEF Scalars
      <2>1. part1 = SAdd(SMul(key, hash), sec) /\ part1 \in Scalar
            <3>1. ScalarOf(key) = key /\ ScalarOf(hash) = hash /\ hash \in Scalar
                  BY <1>6, <1>14, <2>0, NoOverflow, NotOver
            <3>2. QED
                  BY <1>10, <2>0, <3>1, Closed
      <2> HIDE DEF part1
      <2>2. /\ sn \in Scalars(n) /\ sn[i] = sec /\ pt \in Scalars(n) /\ pt[i] = part1
            /\ pr \in [1 .. n -> {"UNKNOWN", "OURS", "SIGNED"}] /\ pr[i] = "SIGNED"
            /\ \A j \in 1 .. n : j # i => sn[j] = agg.secnonce[j] /\ pt[j] = agg.partial[j] /\ pr[j] = agg.progress[j]
            BY <1>4, <1>10, <1>12, <2>1 DEF Scalars
      <2>3. done = [agg EXCEPT !.secnonce = sn, !.partial = pt, !.progress = pr]
            BY <1>1 DEF Contexts
      <2> HIDE DEF sn, pt, pr, done
      <2>4. /\ agg' \in Contexts(n)
            /\ agg'.at = "context" /\ agg'.job = agg.job /\ agg'.pubkeys = agg.pubkeys
            /\ agg'.sum = agg.sum /\ agg'.odd = agg.odd /\ agg'.failures = agg.failures
            /\ agg'.secnonce = sn /\ agg'.partial = pt /\ agg'.progress = pr
            BY <1>1, <1>3, <1>14, <2>2, <2>3 DEF Contexts
      <2>5. ASSUME NEW j \in 1 .. n PROVE SignerOf(agg', K, k[j], j)
            <3>1. SignerOf(agg, K, k[j], j)
                  BY DEF Signs, K
            <3>2. hashFor(agg', K, j) = hashFor(agg, K, j)
                  BY <2>4 DEF hashFor
            <3>3. CASE j = i
                  BY <1>9, <1>11, <1>14, <2>0, <2>1, <2>2, <2>4, <3>2, <3>3 DEF SignerOf, hash
            <3>4. CASE j # i
                  BY <2>2, <2>4, <3>1, <3>2, <3>4 DEF SignerOf
            <3>5. QED
                  BY <3>3, <3>4
      <2>6. \A j \in 1 .. n : agg'.progress[j] # "UNKNOWN"
            BY <1>4, <2>2, <2>4
      <2>7. QED
            BY <1>1, <1>5, <2>4, <2>5, <2>6 DEF Signs, K
<1>15. QED
      BY <1>7, <1>13, <1>14

\* The sum of the nonces is turned around to where its y is a square.
LEMMA CombineStep ==
    ASSUME NEW n \in Nat, NEW k, Signs(agg, n, k), aggsig_combine_signatures
    PROVE  Signs(agg', n, k)
<1> DEFINE K == SSum(k)
           sum == IF quadY(agg.sum) THEN agg.sum ELSE GNeg(agg.sum)
           a == [agg EXCEPT !.at = "combined", !.sum = sum, !.odd = @ \/ ~quadY(agg.sum)]
<1>1. /\ agg \in Contexts(n) /\ n = Len(agg.job.keys) /\ k \in Scalars(n) /\ K \in Scalar
      /\ agg.pubkeys = multiplesOf(n, agg.job.keys)
      BY SumWalk DEF Signs
<1>2. agg.at \in {"context", "combined"} /\ \A j \in 1 .. n : agg.progress[j] = "SIGNED"
      BY <1>1 DEF aggsig_combine_signatures, Contexts
<1>3. agg' = a
      BY DEF aggsig_combine_signatures
<1>4. /\ facing(K) \in Scalar /\ facing(facing(K)) = facing(K) /\ SNeg(K) \in Scalar
      /\ K # 0 => isQuad(facing(K))
      /\ facing(0) = 0 /\ SNeg(0) = 0 /\ ~isQuad(0)
      BY <1>1, FacingIs
<1>5. \/ agg.at = "context" /\ agg.sum = GMul(K, G) /\ ~agg.odd
      \/ agg.at = "combined" /\ agg.sum = GMul(facing(K), G) /\ (K # 0 => (agg.odd <=> ~isQuad(K)))
      BY <1>2 DEF Signs
<1>6. (quadY(GMul(K, G)) <=> isQuad(K)) /\ (quadY(GMul(facing(K), G)) <=> isQuad(facing(K)))
      BY <1>1, <1>4, MultipleFaces
<1>7. GNeg(GMul(K, G)) = GMul(SNeg(K), G) /\ GNeg(GMul(0, G)) = GMul(0, G)
      BY <1>1, <1>4, MultiplesAdd, ZeroAndOne
<1> HIDE DEF K
<1>8. sum = GMul(facing(K), G) /\ sum \in Point
      <2>1. GMul(facing(K), G) \in Point
            BY <1>4, MultipleIs
      <2>2. CASE agg.sum = GMul(K, G)
            BY <1>6, <1>7, <2>1, <2>2 DEF facing
      <2>3. CASE agg.sum = GMul(facing(K), G) /\ K # 0
            BY <1>4, <1>6, <2>1, <2>3
      <2>4. CASE agg.sum = GMul(facing(K), G) /\ K = 0
            BY <1>4, <1>7, <2>1, <2>4
      <2>5. QED
            BY <1>5, <2>2, <2>3, <2>4
<1> HIDE DEF sum
<1>9. /\ a \in Contexts(n) /\ a.at = "combined" /\ a.sum = sum /\ a.job = agg.job /\ a.pubkeys = agg.pubkeys
      /\ a.progress = agg.progress /\ a.failures = agg.failures /\ a.partial = agg.partial
      /\ a.secnonce = agg.secnonce /\ (a.odd <=> agg.odd \/ ~quadY(agg.sum))
      BY <1>1, <1>8 DEF Contexts
<1> HIDE DEF a
<1>10. ASSUME K # 0 PROVE a.odd <=> ~isQuad(K)
      BY <1>4, <1>5, <1>6, <1>9, <1>10
<1>11. ASSUME NEW j \in 1 .. n PROVE SignerOf(a, K, k[j], j)
      <2>1. SignerOf(agg, K, k[j], j)
            BY DEF Signs, K
      <2>2. hashFor(a, K, j) = hashFor(agg, K, j)
            BY <1>9 DEF hashFor
      <2>3. QED
            BY <1>9, <2>1, <2>2 DEF SignerOf
<1>12. QED
      BY <1>1, <1>2, <1>3, <1>8, <1>9, <1>10, <1>11 DEF Signs, K

-------------------------------------------------------------------------------
(* The signature of the context.                                           *)

\* The nonces as they went into the parts.
usedNonces(a, n, k) == [i \in 1 .. n |-> turnedBy(SSum(k), a.failures[i] + 1, k[i])]

\* A combined signature verifies exactly when the nonces in its parts add up
\* to the nonce that it names.
LEMMA CombinedIs ==
    ASSUME AggHashesAreBytes, NEW n \in Nat, NEW k, Signs(agg, n, k), agg.at = "combined"
    PROVE  LET T == SSum(usedNonces(agg, n, k))
           IN aggsig_verify(combined, agg.job.msg, agg.pubkeys) <=> (isQuad(T) /\ facing(T) = facing(SSum(k)))
<1> DEFINE K == SSum(k)
           keys == agg.job.keys
           used == usedNonces(agg, n, k)
           T == SSum(used)
           E == [i \in 1 .. n |-> hashFor(agg, K, i)]
           W == [i \in 1 .. n |-> SNeg(E[i])]
           Q == [i \in 1 .. n |-> SMul(keys[i], E[i])]
           P == agg.pubkeys
           e(i) == compute_sighash(compute_prehash(P, combined.x, agg.job.msg), i - 1)
           terms == [i \in 1 .. n |-> GMul(SNeg(ScalarOf(e(i))), P[i])]
           sum == GAdd(GMul(combined.s, G), GSum(Tuple(Len(P), LAMBDA i : GMul(SNeg(ScalarOf(e(i))), P[i]))))
<1>1. /\ agg \in Contexts(n) /\ n = Len(keys) /\ k \in Scalars(n) /\ K \in Scalar
      /\ P = multiplesOf(n, keys) /\ agg.sum = GMul(facing(K), G)
      /\ \A i \in 1 .. n : agg.progress[i] = "SIGNED" /\ SignerOf(agg, K, k[i], i)
      BY SumWalk DEF Signs
<1>2. agg.job \in AggJobs /\ keys \in Scalars(n) /\ n > 0 /\ Len(P) = n
      <2>1. agg.job \in AggJobs /\ P \in Points(n)
            BY <1>1 DEF Contexts
      <2>2. Len(P) = n
            BY <2>1 DEF Points
      <2>3. QED
            BY <1>1, <2>1, <2>2, AggJobTyped
<1>3. facing(K) \in Scalar /\ facing(facing(K)) = facing(K)
      BY <1>1, FacingIs
<1>4. combined.x = GMul(facing(K), G) /\ combined.s = SSum(agg.partial) /\ combined.x = XCoordinate(agg.sum)
      BY <1>1, <1>3, MultipleFaces DEF combined
<1> HIDE DEF K, keys
<1>5. ASSUME NEW i \in 1 .. n
      PROVE  /\ e(i) = E[i] /\ E[i] \in Scalar /\ ~Overflow(e(i)) /\ ScalarOf(e(i)) = E[i]
             /\ keys[i] \in Scalar /\ Q[i] \in Scalar /\ used[i] \in Scalar /\ W[i] \in Scalar
             /\ agg.partial[i] = SAdd(Q[i], used[i])
      <2>1. e(i) = hashFor(agg, K, i) /\ hashFor(agg, K, i) \in Nat
            BY <1>1, <1>4, ContextHash
      <2>2. /\ ~Overflow(hashFor(agg, K, i))
            /\ agg.partial[i] = SAdd(SMul(keys[i], hashFor(agg, K, i)), turnedBy(K, agg.failures[i] + 1, k[i]))
            BY <1>1 DEF SignerOf, keys
      <2>3. hashFor(agg, K, i) \in Scalar /\ ScalarOf(hashFor(agg, K, i)) = hashFor(agg, K, i)
            BY <2>1, <2>2, NoOverflow
      <2>4. keys[i] \in Scalar /\ k[i] \in Scalar
            BY <1>1, <1>2 DEF Scalars
      <2>5. used[i] = turnedBy(K, agg.failures[i] + 1, k[i]) /\ used[i] \in Scalar
            BY <2>4, Closed DEF usedNonces, turnedBy, K
      <2>6. E[i] = hashFor(agg, K, i) /\ Q[i] = SMul(keys[i], hashFor(agg, K, i)) /\ W[i] = SNeg(hashFor(agg, K, i))
            OBVIOUS
      <2> HIDE DEF e, E, Q, W, used
      <2>7. QED
            BY <2>1, <2>2, <2>3, <2>4, <2>5, <2>6, Closed
<1>6. terms = [i \in 1 .. n |-> GMul(W[i], P[i])]
      <2>1. \A i \in 1 .. n : SNeg(ScalarOf(e(i))) = W[i]
            BY <1>5
      <2> HIDE DEF e, W, E
      <2>2. QED
            BY <2>1
<1>7. Tuple(Len(P), LAMBDA i : GMul(SNeg(ScalarOf(e(i))), P[i])) = SubSeq(terms, 1, n)
      BY <1>2 DEF Tuple
<1>8. Q \in Scalars(n) /\ W \in Scalars(n) /\ E \in Scalars(n) /\ used \in Scalars(n)
      <2>1. \A i \in 1 .. n : Q[i] \in Scalar /\ W[i] \in Scalar /\ E[i] \in Scalar /\ used[i] \in Scalar
            BY <1>5
      <2>2. used = [i \in 1 .. n |-> used[i]]
            BY DEF usedNonces
      <2>3. Q = [i \in 1 .. n |-> Q[i]] /\ W = [i \in 1 .. n |-> W[i]] /\ E = [i \in 1 .. n |-> E[i]]
            OBVIOUS
      <2> HIDE DEF Q, W, E, used
      <2>4. QED
            BY <2>1, <2>2, <2>3 DEF Scalars
<1>9. agg.partial = [i \in 1 .. n |-> SAdd(Q[i], used[i])]
      <2>1. agg.partial = [i \in 1 .. n |-> agg.partial[i]]
            BY <1>1 DEF Contexts, Scalars
      <2> HIDE DEF Q, used
      <2>2. QED
            BY <1>5, <2>1
<1>10. \A i \in 1 .. n : SMul(W[i], keys[i]) = SNeg(Q[i])
      <2>1. ASSUME NEW i \in 1 .. n PROVE SMul(W[i], keys[i]) = SNeg(Q[i])
            <3>1. E[i] \in Scalar /\ keys[i] \in Scalar
                  BY <1>5
            <3>2. W[i] = SNeg(E[i]) /\ Q[i] = SMul(keys[i], E[i])
                  OBVIOUS
            <3> HIDE DEF W, Q, E
            <3>3. SMul(SNeg(E[i]), keys[i]) = SNeg(SMul(E[i], keys[i])) /\ SMul(E[i], keys[i]) = SMul(keys[i], E[i])
                  BY <3>1, RingLaws
            <3>4. QED
                  BY <3>2, <3>3
      <2>2. QED
            BY <2>1
<1> HIDE DEF E, W, Q, used, e
<1>11. GSum(SubSeq(terms, 1, n)) = GMul(dot(n, W, keys), G) /\ dot(n, W, keys) \in Scalar
      <2>1. GSum(SubSeq(terms, 1, n)) = combination(n, W, P)
            BY <1>6, CombinesAs
      <2>2. QED
            BY <1>1, <1>2, <1>8, <2>1, CombinedMultiples DEF keys
<1>12. dot(n, W, keys) = SNeg(SSum(Q))
      <2>1. dot(n, W, keys) = SSum([i \in 1 .. n |-> SNeg(Q[i])])
            BY <1>10 DEF dot
      <2>2. QED
            BY <1>8, <2>1, SumOfNegatives
<1>13. SSum(agg.partial) = SAdd(SSum(Q), T)
      BY <1>8, <1>9, SumOfSums
<1>14. SSum(Q) \in Scalar /\ T \in Scalar /\ SNeg(SSum(Q)) \in Scalar /\ SSum(agg.partial) \in Scalar
      BY <1>8, <1>13, SumWalk, Closed
<1>15. SAdd(SSum(agg.partial), dot(n, W, keys)) = T
      BY <1>12, <1>13, <1>14, TakesOff
<1>16. sum = GMul(T, G)
      <2>1. sum = GAdd(GMul(SSum(agg.partial), G), GMul(dot(n, W, keys), G))
            BY <1>4, <1>7, <1>11
      <2> HIDE DEF sum
      <2>2. QED
            BY <1>11, <1>14, <1>15, <2>1, MultiplesAdd
<1>17. aggsig_verify(combined, agg.job.msg, P)
         <=> (XCoordinate(sum) = combined.x /\ quadY(sum))
      <2>1. \A i \in DOMAIN P : ~Overflow(e(i))
            <3>1. DOMAIN P = 1 .. n
                  BY <1>1 DEF multiplesOf
            <3>2. QED
                  BY <1>5, <3>1
      <2>2. Len(P) > 0
            BY <1>2
      <2>3. QED
            BY <2>1, <2>2 DEF aggsig_verify, e
<1> HIDE DEF sum, T
<1>18. XCoordinate(sum) = GMul(facing(T), G) /\ (quadY(sum) <=> isQuad(T)) /\ facing(T) \in Scalar
      BY <1>14, <1>16, MultipleFaces, FacingIs
<1>19. XCoordinate(sum) = combined.x <=> facing(T) = facing(K)
      <2> DEFINE u == facing(T)
                 v == facing(K)
      <2>1. u \in Scalar /\ v \in Scalar /\ XCoordinate(sum) = GMul(u, G) /\ combined.x = GMul(v, G)
            BY <1>3, <1>4, <1>18
      <2> HIDE DEF u, v
      <2>2. GMul(u, G)[1] = u /\ GMul(v, G)[1] = v
            BY <2>1, MultiplesAdd
      <2>3. XCoordinate(sum) = combined.x <=> u = v
            BY <2>1, <2>2
      <2>4. QED
            BY <2>3 DEF u, v
<1>20. QED
      BY <1>17, <1>18, <1>19 DEF T, K, used

\* The nonce of the signature is reached unless one signer's nonce is left turned.
LEMMA CombinedAccepted ==
    ASSUME AggHashesAreBytes, NEW n \in Nat, NEW k, Signs(agg, n, k), agg.at = "combined", agg.sum # Infinity
    PROVE  /\ (agg.odd => late(agg) = {}) => aggsig_verify(combined, agg.job.msg, agg.pubkeys)
           /\ \A i : agg.odd /\ late(agg) = {i} => ~aggsig_verify(combined, agg.job.msg, agg.pubkeys)
<1> DEFINE K == SSum(k)
           used == usedNonces(agg, n, k)
           T == SSum(used)
<1>1. /\ agg \in Contexts(n) /\ k \in Scalars(n) /\ K \in Scalar /\ agg.sum = GMul(facing(K), G)
      /\ \A i \in 1 .. n : agg.progress[i] = "SIGNED" /\ SignerOf(agg, K, k[i], i)
      /\ (K # 0 => (agg.odd <=> ~isQuad(K)))
      BY SumWalk DEF Signs
<1>2. K # 0
      <2>1. facing(0) = 0
            BY FacingIs, ZeroAndOne
      <2>2. QED
            BY <1>1, <2>1, NoMultiple
<1>3. /\ facing(K) \in Scalar /\ isQuad(facing(K)) /\ facing(facing(K)) = facing(K) /\ SNeg(K) \in Scalar
      BY <1>1, <1>2, FacingIs
<1>4. DOMAIN agg.failures = 1 .. n /\ \A i \in 1 .. n : agg.failures[i] \in Nat /\ k[i] \in Scalar
      BY <1>1 DEF Contexts, Scalars
<1>5. /\ \A i \in 1 .. n : used[i] = turnedBy(K, agg.failures[i] + 1, k[i])
      /\ used = [i \in 1 .. n |-> used[i]]
      BY DEF usedNonces
<1>6. aggsig_verify(combined, agg.job.msg, agg.pubkeys) <=> (isQuad(T) /\ facing(T) = facing(K))
      BY CombinedIs
<1> HIDE DEF K, used
<1>7. CASE isQuad(K)
      <2>1. \A i \in 1 .. n : used[i] = k[i]
            BY <1>5, <1>7 DEF turnedBy
      <2>2. used = k
            BY <1>1, <1>5, <2>1 DEF Scalars
      <2>3. T = K
            BY <2>2 DEF K
      <2>4. QED
            BY <1>1, <1>2, <1>6, <1>7, <2>3
<1>8. CASE ~isQuad(K)
      <2>1. facing(K) = SNeg(K) /\ agg.odd
            BY <1>1, <1>2, <1>8 DEF facing
      <2>2. \A i \in 1 .. n : i \notin late(agg) => used[i] = SNeg(k[i])
            <3>1. ASSUME NEW i \in 1 .. n, i \notin late(agg) PROVE used[i] = SNeg(k[i])
                  <4>1. agg.failures[i] % 2 # 1
                        BY <1>4, <3>1 DEF late
                  <4>2. (agg.failures[i] + 1) % 2 = 1
                        BY <1>4, <4>1
                  <4>3. QED
                        BY <1>5, <1>8, <4>2 DEF turnedBy
            <3>2. QED
                  BY <3>1
      <2>3. \A i \in 1 .. n : i \in late(agg) => used[i] = k[i]
            <3>1. ASSUME NEW i \in 1 .. n, i \in late(agg) PROVE used[i] = k[i]
                  <4>1. agg.failures[i] % 2 = 1
                        BY <3>1 DEF late
                  <4>2. (agg.failures[i] + 1) % 2 # 1
                        BY <1>4, <4>1
                  <4>3. QED
                        BY <1>5, <4>2 DEF turnedBy
            <3>2. QED
                  BY <3>1
      <2> DEFINE minus == [i \in 1 .. n |-> SNeg(k[i])]
      <2>4. minus \in Scalars(n) /\ SSum(minus) = SNeg(K)
            <3>1. minus \in Scalars(n)
                  BY <1>4, Closed DEF Scalars
            <3>2. QED
                  BY <1>1, <3>1, SumOfNegatives DEF K
      <2>5. ASSUME late(agg) = {} PROVE aggsig_verify(combined, agg.job.msg, agg.pubkeys)
            <3>1. used = minus
                  BY <1>5, <2>2, <2>5
            <3>2. T = facing(K)
                  BY <2>1, <2>4, <3>1
            <3>3. QED
                  BY <1>3, <1>6, <3>2
      <2>6. ASSUME NEW i, late(agg) = {i} PROVE ~aggsig_verify(combined, agg.job.msg, agg.pubkeys)
            <3> DEFINE c == k[i]
                       d == [j \in 1 .. n |-> IF j = i THEN SAdd(c, c) ELSE 0]
            <3>1. i \in 1 .. n /\ c \in Scalar /\ c # 0
                  <4>1. i \in 1 .. n
                        BY <1>4, <2>6 DEF late
                  <4>2. agg.progress[i] = "SIGNED" /\ SignerOf(agg, K, k[i], i)
                        BY <1>1, <4>1
                  <4>3. QED
                        BY <1>4, <4>1, <4>2 DEF SignerOf
            <3>2. SAdd(c, c) \in Scalar /\ SAdd(c, c) # 0 /\ SAdd(SNeg(c), SAdd(c, c)) = c
                  <4> HIDE DEF c
                  <4>1. SAdd(c, c) \in Scalar /\ SNeg(c) \in Scalar
                        BY <3>1, Closed
                  <4>2. SAdd(c, c) # 0
                        <5>1. c \in Nat /\ c < Order /\ Order \in Nat /\ Order % 2 = 1
                              BY <3>1, GroupAssumption DEF Scalar
                        <5>2. c + c # Order
                              BY <5>1
                        <5>3. SAdd(c, c) = IF c + c < Order THEN c + c ELSE c + c - Order
                              BY <3>1, SAddIs
                        <5>4. QED
                              BY <3>1, <5>1, <5>2, <5>3
                  <4>3. SAdd(SNeg(c), SAdd(c, c)) = SAdd(SAdd(SNeg(c), c), c)
                        BY <3>1, <4>1, SAddAssociates
                  <4>4. SAdd(SNeg(c), c) = 0 /\ SAdd(0, c) = c
                        BY <3>1, RingLaws
                  <4>5. QED
                        BY <4>1, <4>2, <4>3, <4>4
            <3>3. d \in Scalars(n) /\ d[i] = SAdd(c, c) /\ \A j \in 1 .. n : j # i => d[j] = 0
                  BY <3>1, <3>2, ZeroAndOne DEF Scalars
            <3>4. \A j \in 1 .. n : used[j] = SAdd(minus[j], d[j])
                  <4>1. ASSUME NEW j \in 1 .. n PROVE used[j] = SAdd(minus[j], d[j])
                        <5>1. minus[j] = SNeg(k[j]) /\ SNeg(k[j]) \in Scalar
                              BY <1>4, Closed
                        <5>2. SAdd(SNeg(k[j]), 0) = SNeg(k[j])
                              BY <5>1, WithZero
                        <5>3. CASE j = i
                              BY <2>3, <2>6, <3>2, <3>3, <5>1, <5>3
                        <5>4. CASE j # i
                              BY <2>2, <2>6, <3>3, <5>1, <5>2, <5>4
                        <5>5. QED
                              BY <5>3, <5>4
                  <4>2. QED
                        BY <4>1
            <3> HIDE DEF minus, d
            <3>5. T = SAdd(SNeg(K), SAdd(c, c))
                  <4>1. used = [j \in 1 .. n |-> SAdd(minus[j], d[j])]
                        BY <1>5, <3>4
                  <4>2. SSum(d) = SAdd(c, c)
                        BY <3>1, <3>3, SumOfOne
                  <4>3. QED
                        BY <2>4, <3>3, <4>1, <4>2, SumOfSums
            <3> HIDE DEF c, T
            <3>6. T # SNeg(K)
                  <4> DEFINE D == SAdd(c, c)
                             S == SNeg(K)
                  <4>1. S \in Scalar /\ D \in Scalar /\ D # 0 /\ T = SAdd(S, D)
                        BY <1>3, <3>2, <3>5
                  <4> HIDE DEF D, S
                  <4>2. SAdd(S, D) = S => D = 0
                        <5>1. SAdd(SAdd(S, D), SNeg(S)) = D /\ SAdd(S, SNeg(S)) = 0
                              BY <4>1, TakesOff, RingLaws
                        <5>2. QED
                              BY <5>1
                  <4>3. QED
                        BY <4>1, <4>2 DEF S
            <3>7. isQuad(T) => facing(T) = T
                  BY DEF facing
            <3>8. QED
                  BY <1>6, <2>1, <3>6, <3>7 DEF T
      <2>7. QED
            BY <2>1, <2>5, <2>6
<1>9. QED
      BY <1>7, <1>8

-------------------------------------------------------------------------------
(* The theorem.                                                            *)

AggSpec == agg = AggIdle /\ [][AggNext]_agg

AggInv ==
    /\ agg.at \in {"idle", "context", "combined", "together", "alone"}
    /\ agg.at \in {"context", "combined"} => \E n \in Nat : \E k : Signs(agg, n, k)
    /\ PartsAddUp
    /\ agg.at = "alone" => agg.accepted

LEMMA AggStep ==
    ASSUME AggHashesAreBytes, AggNoncesAreDrawn, AggInv, AggNext
    PROVE  AggInv'
<1>1. ASSUME \E n \in Nat : \E k : Signs(agg', n, k) PROVE AggInv'
      <2>0. PICK n \in Nat : \E k : Signs(agg', n, k)
            BY <1>1
      <2>1. PICK k : Signs(agg', n, k)
            BY <2>0
      <2>2. agg'.at \in {"context", "combined"}
            BY <2>1 DEF Signs, Contexts
      <2>3. QED
            BY <1>1, <2>2 DEF AggInv, PartsAddUp
<1>2. ASSUME agg.at \in {"context", "combined"} PROVE \E n \in Nat : \E k : Signs(agg, n, k)
      BY <1>2 DEF AggInv
<1>3. ASSUME NEW job \in AggJobs, aggsig_context_create(job) PROVE AggInv'
      BY <1>1, <1>3, CreateStep
<1>4. ASSUME NEW i \in 1 .. 3, aggsig_generate_nonce(i) PROVE AggInv'
      <2>0. PICK n \in Nat : \E k : Signs(agg, n, k)
            BY <1>2, <1>4 DEF aggsig_generate_nonce
      <2>1. PICK k : Signs(agg, n, k)
            BY <2>0
      <2>2. \E l : Signs(agg', n, l)
            BY <1>4, <2>1, NonceStep
      <2>3. QED
            BY <1>1, <2>2
<1>5. ASSUME NEW i \in 1 .. 3, NEW key, key = agg.job.keys[i] \/ key = Order, aggsig_partial_sign(i, key)
      PROVE  AggInv'
      <2>0. PICK n \in Nat : \E k : Signs(agg, n, k)
            BY <1>2, <1>5 DEF aggsig_partial_sign
      <2>1. PICK k : Signs(agg, n, k)
            BY <2>0
      <2>2. Signs(agg', n, k)
            BY <1>5, <2>1, PartStep
      <2>3. QED
            BY <1>1, <2>2
<1>6. ASSUME aggsig_combine_signatures PROVE AggInv'
      <2>0. PICK n \in Nat : \E k : Signs(agg, n, k)
            BY <1>2, <1>6 DEF aggsig_combine_signatures
      <2>1. PICK k : Signs(agg, n, k)
            BY <2>0
      <2>2. Signs(agg', n, k)
            BY <1>6, <2>1, CombineStep
      <2>3. QED
            BY <1>1, <2>2
<1>7. ASSUME NEW job \in AggJobs, NEW extra \in AggExtras, SignTogether(job, extra) PROVE AggInv'
      <2> DEFINE a == signedTogether(job, extra, public(job))
      <2>1. agg' = a /\ Len(job.keys) > 1 /\ extra \in Scalar
            BY <1>7, AggAssumption DEF SignTogether
      <2>2. a.at = "together" /\ a.partsAccepted /\ a.sumAccepted /\ a.rest.ret > 0 /\ a.second \in a.rest.sigs
            BY <2>1, TogetherHolds
      <2> HIDE DEF a
      <2>3. QED
            BY <2>1, <2>2 DEF AggInv, PartsAddUp
<1>8. ASSUME NEW job \in AggJobs, NEW extra \in AggExtras, SignAlone(job, extra) PROVE AggInv'
      <2> DEFINE a == keepsTo(job, extra, GMul(job.keys[1], G))
      <2>1. agg' = a /\ extra \in Scalar
            BY <1>8, AggAssumption DEF SignAlone
      <2>2. a.accepted
            BY <2>1, AloneIsAccepted
      <2>3. a.at = "alone"
            BY DEF keepsTo, signedAlone
      <2> HIDE DEF a
      <2>4. QED
            BY <2>1, <2>2, <2>3 DEF AggInv, PartsAddUp
<1>9. QED
      BY <1>3, <1>4, <1>5, <1>6, <1>7, <1>8 DEF AggNext, PartialSignFails

\* Whatever the number of signers, the order of their calls and the calls that
\* are refused, the signatures of aggsig verify as far as SignersAreAccepted
\* says, for every hash that gives 32 bytes and every generator of nonces that
\* does not give nothing but zeros.
THEOREM SignersAlwaysAccepted ==
    AggHashesAreBytes /\ AggNoncesAreDrawn => (AggSpec => []SignersAreAccepted)
<1> SUFFICES ASSUME AggHashesAreBytes, AggNoncesAreDrawn PROVE AggSpec => []SignersAreAccepted
      OBVIOUS
<1>1. agg = AggIdle => AggInv
      BY DEF AggIdle, AggInv, PartsAddUp
<1>2. AggInv /\ [AggNext]_agg => AggInv'
      <2>1. CASE agg' = agg
            BY <2>1 DEF AggInv, PartsAddUp, Signs, SignerOf, hashFor
      <2>2. CASE AggNext
            BY <2>2, AggStep
      <2>3. QED
            BY <2>1, <2>2
<1>3. AggInv => SignersAreAccepted
      <2> SUFFICES ASSUME AggInv PROVE SignersAreAccepted
            OBVIOUS
      <2>1. ASSUME agg.at = "combined", agg.sum # Infinity
            PROVE  /\ (agg.odd => late(agg) = {}) => aggsig_verify(combined, agg.job.msg, agg.pubkeys)
                   /\ \A i : agg.odd /\ late(agg) = {i} => ~aggsig_verify(combined, agg.job.msg, agg.pubkeys)
            <3>0. PICK n \in Nat : \E k : Signs(agg, n, k)
                  BY <2>1 DEF AggInv
            <3>1. PICK k : Signs(agg, n, k)
                  BY <3>0
            <3>2. QED
                  BY <2>1, <3>1, CombinedAccepted
      <2>2. PartsAddUp /\ (agg.at = "alone" => agg.accepted)
            BY DEF AggInv
      <2>3. CombinedSignatureVerifies
            BY <2>1 DEF CombinedSignatureVerifies, combinedAccepted
      <2>4. QED
            BY <2>2, <2>3 DEF SignersAreAccepted
<1>4. QED
      BY <1>1, <1>2, <1>3, PTL DEF AggSpec
===============================================================================
