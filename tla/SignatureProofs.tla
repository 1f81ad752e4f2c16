---------------------------- MODULE SignatureProofs ----------------------------
(***************************************************************************)
(* Theorems about ECDSA signatures on the wire: the strict reader takes    *)
(* what was written for them and nothing else, for every base of bytes,    *)
(* order and signature.  The formulas for points of the curve stay in the  *)
(* field, the blinded product with the generator among them.               *)
(***************************************************************************)
EXTENDS Signatures, LibraryProofs

-------------------------------------------------------------------------------
(* Numbers in bytes.                                                       *)

Byte == 0 .. ByteBase - 1
Bytes == Seq(Byte)

LEMMA ByteIs ==
    /\ ByteBase \in Nat /\ ByteBase > 4 /\ HighBit \in Nat /\ HighBit > 2 /\ ByteBase = 2 * HighBit
    /\ 2 * ScalarBytes + 6 < HighBit /\ ScalarBytes \in Nat
    /\ TagSequence \in Byte /\ TagInteger \in Byte /\ SizeBytes \in Nat
    /\ CurveOrder \in Nat /\ CurveOrder > 3 /\ CurveOrder <= powerOf(ByteBase, ScalarBytes)
    /\ Byte \subseteq Nat
<1>1. /\ ByteBase \in Nat /\ ByteBase > 4 /\ ByteBase % 2 = 0 /\ HighBit = ByteBase \div 2
      /\ TagSequence \in Byte /\ TagInteger \in Byte /\ ScalarBytes \in Nat /\ SizeBytes \in Nat
      /\ 2 * ScalarBytes + 6 < HighBit
      BY DerAssumption DEF HighBit, Byte
<1>2. HighBit \in Nat /\ ByteBase = 2 * HighBit /\ HighBit > 2
      BY <1>1
<1>3. powerOf(ByteBase, ScalarBytes) \in Nat
      BY <1>1, PowerSteps
<1>4. CurveOrder \in Nat /\ CurveOrder > 3 /\ CurveOrder <= powerOf(ByteBase, ScalarBytes)
      BY <1>3, CurveAssumption, DerAssumption
<1>5. QED
      BY <1>1, <1>2, <1>4 DEF Byte

\* Bytes are numbers.
LEMMA BytesTyped ==
    ASSUME NEW s \in Bytes
    PROVE  /\ s \in Seq(Byte) /\ s \in Seq(Nat) /\ Len(s) \in Nat
           /\ \A i \in 1 .. Len(s) : s[i] \in Byte /\ s[i] \in Nat /\ s[i] < ByteBase
<1>1. s \in Seq(Byte)
      BY DEF Bytes
<1>2. Byte \subseteq Nat
      BY ByteIs
<1>3. s \in Seq(Nat)
      BY <1>1, <1>2, SeqMonotonic
<1>4. Len(s) \in Nat
      BY <1>1
<1>5. ASSUME NEW i \in 1 .. Len(s) PROVE s[i] \in Byte
      BY <1>1, ElementOfSeq
<1>6. ASSUME NEW x \in Byte PROVE x \in Nat /\ x < ByteBase
      BY ByteIs DEF Byte
<1>7. QED
      BY <1>1, <1>3, <1>4, <1>5, <1>6

\* The number in a sequence is read from its first byte on.
LEMMA NumberWalk ==
    ASSUME NEW s \in Seq(Nat)
    PROVE  \E c \in [0 .. Len(s) -> Nat] :
              c[0] = 0 /\ numberIn(s) = c[Len(s)] /\ \A i \in 1 .. Len(s) : c[i] = c[i - 1] * ByteBase + s[i]
<1> DEFINE n == Len(s)
           move == [p \in Nat \X (1 .. n) |-> p[1] * ByteBase + s[p[2]]]
           next(t, i) == IF i = 0 THEN 0 ELSE t[i - 1] * ByteBase + s[i]
           u == CHOOSE t : t = [i \in 0 .. n |-> next(t, i)]
<1>1. n \in Nat /\ ByteBase \in Nat /\ \A i \in 1 .. n : s[i] \in Nat
      BY ByteIs
<1> HIDE DEF n
<1>2. move \in [Nat \X (1 .. n) -> Nat]
      <2>1. ASSUME NEW p \in Nat \X (1 .. n) PROVE p[1] * ByteBase + s[p[2]] \in Nat
            <3> DEFINE x == p[1]
                       y == s[p[2]]
            <3>1. x \in Nat /\ y \in Nat /\ ByteBase \in Nat
                  BY <1>1
            <3> HIDE DEF x, y
            <3>2. x * ByteBase \in Nat
                  BY <3>1
            <3>3. x * ByteBase + y \in Nat
                  BY <3>1, <3>2
            <3>4. QED
                  BY <3>3 DEF x, y
      <2>2. QED
            BY <2>1
<1>3. PICK t : Walks(t, n, Nat, 0, move)
      <2> HIDE DEF move
      <2>1. 0 \in Nat
            OBVIOUS
      <2>2. QED
            BY <1>1, <1>2, <2>1, WalkExists
<1>4. /\ t \in [0 .. n -> Nat] /\ t[0] = 0
      /\ \A i \in 1 .. n : t[i] = t[i - 1] * ByteBase + s[i]
      <2>1. /\ t \in [0 .. n -> Nat] /\ t[0] = 0
            /\ \A i \in 1 .. n : t[i] = move[<<t[i - 1], i>>]
            BY <1>3 DEF Walks
      <2>2. ASSUME NEW i \in 1 .. n PROVE <<t[i - 1], i>> \in Nat \X (1 .. n)
            <3>1. i - 1 \in 0 .. n
                  BY <1>1
            <3>2. QED
                  BY <2>1, <3>1
      <2>3. QED
            BY <2>1, <2>2
<1>5. t = [i \in 0 .. n |-> next(t, i)]
      <2>1. ASSUME NEW i \in 0 .. n PROVE t[i] = next(t, i)
            <3>1. CASE i = 0
                  BY <1>4, <3>1
            <3>2. CASE i # 0
                  <4>1. i \in 1 .. n
                        BY <1>1, <3>2
                  <4>2. QED
                        BY <1>4, <3>2, <4>1
            <3>3. QED
                  BY <3>1, <3>2
      <2> HIDE DEF next
      <2>2. QED
            BY <1>4, <2>1
<1>6. u = [i \in 0 .. n |-> next(u, i)]
      <2> HIDE DEF next
      <2>1. QED
            BY <1>5
<1>7. numberIn(s) = u[n]
      BY DEF numberIn, n
<1>8. u[0] = 0 /\ \A i \in 1 .. n : u[i] = u[i - 1] * ByteBase + s[i]
      <2>1. \A i \in 0 .. n : u[i] = next(u, i)
            <3> HIDE DEF u, next
            <3>1. QED
                  BY <1>6
      <2> HIDE DEF u
      <2>2. u[0] = 0
            BY <1>1, <2>1
      <2>3. ASSUME NEW i \in 1 .. n PROVE u[i] = u[i - 1] * ByteBase + s[i]
            <3>1. i \in 0 .. n /\ i # 0
                  BY <1>1
            <3>2. QED
                  BY <2>1, <3>1
      <2>4. QED
            BY <2>2, <2>3
<1> HIDE DEF u, next, move
<1>9. \A i \in 0 .. n : u[i] = t[i]
      <2> DEFINE good == {i \in 0 .. n : u[i] = t[i]}
      <2>1. 0 \in good
            BY <1>1, <1>4, <1>8
      <2>2. ASSUME NEW i \in 1 .. n, i - 1 \in good PROVE i \in good
            <3>1. i \in 0 .. n /\ u[i - 1] = t[i - 1]
                  BY <1>1, <2>2
            <3>2. u[i] = t[i]
                  BY <1>4, <1>8, <3>1
            <3>3. QED
                  BY <3>1, <3>2
      <2>3. \A i \in 0 .. n : i \in good
            <3> HIDE DEF good
            <3>1. QED
                  BY <1>1, <2>1, <2>2, CountUp
      <2>4. QED
            BY <2>3
<1>10. numberIn(s) = t[n]
       BY <1>1, <1>7, <1>9
<1>11. QED
       BY <1>4, <1>10 DEF n

\* One more byte.
LEMMA NumberIs ==
    ASSUME NEW s \in Seq(Nat)
    PROVE  /\ numberIn(s) \in Nat
           /\ s = <<>> => numberIn(s) = 0
           /\ \A b \in Nat : numberIn(s \o <<b>>) = numberIn(s) * ByteBase + b
<1>1. PICK c \in [0 .. Len(s) -> Nat] :
         c[0] = 0 /\ numberIn(s) = c[Len(s)] /\ \A i \in 1 .. Len(s) : c[i] = c[i - 1] * ByteBase + s[i]
      BY NumberWalk
<1>2. Len(s) \in Nat /\ Len(s) \in 0 .. Len(s)
      OBVIOUS
<1>3. numberIn(s) \in Nat
      BY <1>1, <1>2
<1>4. s = <<>> => numberIn(s) = 0
      BY <1>1
<1>5. ASSUME NEW b \in Nat PROVE numberIn(s \o <<b>>) = numberIn(s) * ByteBase + b
      <2> DEFINE r == s \o <<b>>
      <2>1. /\ r \in Seq(Nat) /\ Len(r) = Len(s) + 1 /\ r[Len(s) + 1] = b
            /\ \A i \in 1 .. Len(s) : r[i] = s[i]
            OBVIOUS
      <2> HIDE DEF r
      <2>2. PICK d \in [0 .. Len(r) -> Nat] :
               d[0] = 0 /\ numberIn(r) = d[Len(r)] /\ \A i \in 1 .. Len(r) : d[i] = d[i - 1] * ByteBase + r[i]
            BY <2>1, NumberWalk
      <2> DEFINE good == {i \in 0 .. Len(s) : c[i] = d[i]}
      <2>3. 0 \in good
            BY <1>1, <1>2, <2>2
      <2>4. ASSUME NEW i \in 1 .. Len(s), i - 1 \in good PROVE i \in good
            <3>1. i \in 0 .. Len(s) /\ c[i - 1] = d[i - 1] /\ i \in 1 .. Len(r) /\ r[i] = s[i]
                  BY <1>2, <2>1, <2>4
            <3>2. c[i] = d[i]
                  BY <1>1, <2>2, <3>1
            <3>3. QED
                  BY <3>1, <3>2
      <2>5. \A i \in 0 .. Len(s) : i \in good
            <3> HIDE DEF good
            <3>1. QED
                  BY <1>2, <2>3, <2>4, CountUp
      <2>6. c[Len(s)] = d[Len(s)]
            BY <1>2, <2>5
      <2>7. Len(r) \in 1 .. Len(r) /\ Len(r) - 1 = Len(s)
            BY <1>2, <2>1
      <2>8. d[Len(r)] = d[Len(s)] * ByteBase + b
            BY <2>1, <2>2, <2>7
      <2>9. QED
            BY <1>1, <2>2, <2>6, <2>8 DEF r
<1>6. QED
      BY <1>3, <1>4, <1>5

\* The number in the bytes from a to b.
span(s, a, b) == numberIn(SubSeq(s, a, b))

LEMMA SpanIs ==
    ASSUME NEW s \in Seq(Nat), NEW a \in 1 .. Len(s) + 1
    PROVE  /\ span(s, a, a - 1) = 0
           /\ \A b \in a - 1 .. Len(s) : span(s, a, b) \in Nat
           /\ \A b \in a .. Len(s) : span(s, a, b) = span(s, a, b - 1) * ByteBase + s[b]
<1>0. Len(s) \in Nat /\ a \in Nat /\ a > 0 /\ \A i \in 1 .. Len(s) : s[i] \in Nat
      OBVIOUS
<1>1. span(s, a, a - 1) = 0
      <2>1. SubSeq(s, a, a - 1) = <<>>
            BY <1>0, SubSeqEmpty
      <2>2. <<>> \in Seq(Nat)
            OBVIOUS
      <2>3. QED
            BY <2>1, <2>2, NumberIs DEF span
<1>2. ASSUME NEW b \in a - 1 .. Len(s) PROVE SubSeq(s, a, b) \in Seq(Nat)
      BY <1>0, SubSeqProperties
<1>3. ASSUME NEW b \in a - 1 .. Len(s) PROVE span(s, a, b) \in Nat
      BY <1>2, NumberIs DEF span
<1>4. ASSUME NEW b \in a .. Len(s) PROVE span(s, a, b) = span(s, a, b - 1) * ByteBase + s[b]
      <2>1. a \in 1 .. Len(s) /\ b - 1 \in a - 1 .. Len(s) /\ s[b] \in Nat
            BY <1>0
      <2>2. SubSeq(s, a, b) = SubSeq(s, a, b - 1) \o <<s[b]>>
            BY <2>1, SubSeqRecursiveSecond
      <2> DEFINE r == SubSeq(s, a, b - 1)
      <2>3. r \in Seq(Nat)
            BY <1>2, <2>1
      <2> HIDE DEF r
      <2>4. numberIn(r \o <<s[b]>>) = numberIn(r) * ByteBase + s[b]
            BY <2>1, <2>3, NumberIs
      <2>5. QED
            BY <2>2, <2>4 DEF span, r
<1>5. QED
      BY <1>1, <1>3, <1>4

\* A number and a digit make one number only.
LEMMA DigitsSplit ==
    ASSUME NEW x \in Nat, NEW y \in Nat, NEW p \in Byte, NEW q \in Byte, x * ByteBase + p = y * ByteBase + q
    PROVE  x = y /\ p = q
<1>1. ByteBase \in Nat /\ p \in Nat /\ q \in Nat /\ p < ByteBase /\ q < ByteBase
      BY ByteIs DEF Byte
<1>2. ASSUME NEW u \in Nat, NEW v \in Nat, u + 1 <= v PROVE u * ByteBase + ByteBase <= v * ByteBase
      <2>1. ByteBase * (u + 1) <= ByteBase * v
            BY <1>1, <1>2, ProductGrows
      <2>2. ByteBase * (u + 1) = u * ByteBase + ByteBase /\ ByteBase * v = v * ByteBase
            BY <1>1
      <2>3. QED
            BY <2>1, <2>2
<1>3. x * ByteBase \in Nat /\ y * ByteBase \in Nat
      BY <1>1
<1>4. ~(x + 1 <= y)
      <2>1. ASSUME x + 1 <= y PROVE FALSE
            <3>1. x * ByteBase + ByteBase <= y * ByteBase
                  BY <1>2, <2>1
            <3> DEFINE xb == x * ByteBase
                       yb == y * ByteBase
            <3> HIDE DEF xb, yb
            <3>2. xb \in Nat /\ yb \in Nat /\ xb + ByteBase <= yb /\ xb + p = yb + q
                  BY <1>3, <3>1 DEF xb, yb
            <3>3. QED
                  BY <1>1, <3>2
      <2>2. QED
            BY <2>1
<1>5. ~(y + 1 <= x)
      <2>1. ASSUME y + 1 <= x PROVE FALSE
            <3>1. y * ByteBase + ByteBase <= x * ByteBase
                  BY <1>2, <2>1
            <3> DEFINE xb == x * ByteBase
                       yb == y * ByteBase
            <3> HIDE DEF xb, yb
            <3>2. xb \in Nat /\ yb \in Nat /\ yb + ByteBase <= xb /\ xb + p = yb + q
                  BY <1>3, <3>1 DEF xb, yb
            <3>3. QED
                  BY <1>1, <3>2
      <2>2. QED
            BY <2>1
<1>6. x = y
      BY <1>4, <1>5
<1>7. p = q
      <2> DEFINE xb == x * ByteBase
      <2>1. xb \in Nat /\ xb + p = xb + q
            BY <1>3, <1>6
      <2> HIDE DEF xb
      <2>2. QED
            BY <1>1, <2>1
<1>8. QED
      BY <1>6, <1>7

\* As many bytes, as large a number; a first byte other than 0 makes it large.
LEMMA SpanFits ==
    ASSUME NEW s \in Bytes, NEW a \in 1 .. Len(s) + 1
    PROVE  /\ \A b \in a - 1 .. Len(s) : span(s, a, b) \in Nat /\ span(s, a, b) < powerOf(ByteBase, b - a + 1)
           /\ a <= Len(s) /\ s[a] # 0 => \A b \in a .. Len(s) : span(s, a, b) >= powerOf(ByteBase, b - a)
<1>1. /\ s \in Seq(Nat) /\ Len(s) \in Nat /\ \A i \in 1 .. Len(s) : s[i] \in Nat /\ s[i] < ByteBase
      /\ a \in Nat /\ a > 0
      BY BytesTyped
<1>2. /\ span(s, a, a - 1) = 0
      /\ \A b \in a - 1 .. Len(s) : span(s, a, b) \in Nat
      /\ \A b \in a .. Len(s) : span(s, a, b) = span(s, a, b - 1) * ByteBase + s[b]
      BY <1>1, SpanIs
<1>3. ByteBase \in Nat /\ ByteBase > 0
      BY ByteIs
<1>4. /\ powerOf(ByteBase, 0) = 1
      /\ \A i \in Nat : powerOf(ByteBase, i) \in Nat /\ powerOf(ByteBase, i + 1) = ByteBase * powerOf(ByteBase, i)
      BY <1>3, PowerSteps
<1> DEFINE m == Len(s) - a + 1
<1>5. m \in Nat
      BY <1>1
<1>6. \A i \in 0 .. m : span(s, a, a - 1 + i) < powerOf(ByteBase, i)
      <2> DEFINE good == {i \in 0 .. m : span(s, a, a - 1 + i) < powerOf(ByteBase, i)}
      <2>1. 0 \in good
            BY <1>1, <1>2, <1>4, <1>5
      <2>2. ASSUME NEW i \in 1 .. m, i - 1 \in good PROVE i \in good
            <3> DEFINE b == a - 1 + i
                       j == i - 1
                       x == span(s, a, b - 1)
                       y == powerOf(ByteBase, j)
            <3>1. j \in Nat /\ j + 1 = i /\ b \in a .. Len(s) /\ b \in 1 .. Len(s) /\ b - 1 = a - 1 + j
                  /\ b - 1 \in a - 1 .. Len(s)
                  BY <1>1
            <3>2. x < y
                  BY <2>2, <3>1
            <3>3. span(s, a, b) = x * ByteBase + s[b] /\ x \in Nat /\ y \in Nat /\ powerOf(ByteBase, i) = ByteBase * y
                  BY <1>2, <1>4, <3>1
            <3>4. s[b] \in Nat /\ s[b] < ByteBase
                  BY <1>1, <3>1
            <3> HIDE DEF x, y, b
            <3>5. ByteBase * (x + 1) <= ByteBase * y
                  BY <1>3, <3>2, <3>3, ProductGrows
            <3>6. ByteBase * (x + 1) = x * ByteBase + ByteBase /\ x * ByteBase \in Nat /\ ByteBase * y \in Nat
                  BY <1>3, <3>3
            <3>7. span(s, a, b) < powerOf(ByteBase, i)
                  BY <1>3, <3>3, <3>4, <3>5, <3>6
            <3>8. QED
                  BY <3>7 DEF b
      <2>3. \A i \in 0 .. m : i \in good
            <3> HIDE DEF good
            <3>1. QED
                  BY <1>5, <2>1, <2>2, CountUp
      <2>4. QED
            BY <2>3
<1>7. ASSUME NEW b \in a - 1 .. Len(s) PROVE span(s, a, b) < powerOf(ByteBase, b - a + 1)
      <2>1. b - a + 1 \in 0 .. m /\ a - 1 + (b - a + 1) = b
            BY <1>1
      <2>2. QED
            BY <1>6, <2>1
<1>8. ASSUME a <= Len(s), s[a] # 0, NEW e \in a .. Len(s) PROVE span(s, a, e) >= powerOf(ByteBase, e - a)
      <2> DEFINE k == m - 1
                 good == {i \in 0 .. k : span(s, a, a + i) >= powerOf(ByteBase, i)}
      <2>1. k \in Nat
            BY <1>1, <1>8
      <2>2. 0 \in good
            <3>1. a \in a .. Len(s) /\ a + 0 = a /\ a \in 1 .. Len(s)
                  BY <1>1, <1>8
            <3>2. span(s, a, a) = 0 * ByteBase + s[a] /\ s[a] \in Nat
                  BY <1>1, <1>2, <3>1
            <3>3. span(s, a, a) >= 1
                  BY <1>3, <1>8, <3>2
            <3>4. QED
                  BY <1>4, <2>1, <3>1, <3>3
      <2>3. ASSUME NEW i \in 1 .. k, i - 1 \in good PROVE i \in good
            <3> DEFINE b == a + i
                       j == i - 1
                       x == span(s, a, b - 1)
                       y == powerOf(ByteBase, j)
            <3>1. j \in Nat /\ j + 1 = i /\ b \in a .. Len(s) /\ b \in 1 .. Len(s) /\ b - 1 = a + j
                  /\ b - 1 \in a - 1 .. Len(s)
                  BY <1>1
            <3>2. x >= y
                  BY <2>3, <3>1
            <3>3. span(s, a, b) = x * ByteBase + s[b] /\ x \in Nat /\ y \in Nat /\ powerOf(ByteBase, i) = ByteBase * y
                  BY <1>2, <1>4, <3>1
            <3>4. s[b] \in Nat
                  BY <1>1, <3>1
            <3> HIDE DEF x, y, b
            <3>5. ByteBase * y <= ByteBase * x
                  BY <1>3, <3>2, <3>3, ProductGrows
            <3>6. ByteBase * x = x * ByteBase /\ x * ByteBase \in Nat /\ ByteBase * y \in Nat
                  BY <1>3, <3>3
            <3>7. span(s, a, b) >= powerOf(ByteBase, i)
                  <4> DEFINE u == ByteBase * y
                             v == x * ByteBase
                  <4>1. u \in Nat /\ v \in Nat /\ u <= v
                        BY <3>5, <3>6
                  <4>2. span(s, a, b) = v + s[b] /\ powerOf(ByteBase, i) = u
                        BY <3>3
                  <4> HIDE DEF u, v
                  <4>3. QED
                        BY <3>4, <4>1, <4>2
            <3>8. QED
                  BY <3>7 DEF b
      <2>4. \A i \in 0 .. k : i \in good
            <3> HIDE DEF good
            <3>1. QED
                  BY <2>1, <2>2, <2>3, CountUp
      <2>5. e - a \in 0 .. k /\ a + (e - a) = e
            BY <1>1, <1>8
      <2>6. QED
            BY <2>4, <2>5
<1>9. QED
      BY <1>2, <1>7, <1>8

\* Zeros in front do not count.
LEMMA ZerosSkipped ==
    ASSUME NEW s \in Seq(Nat), NEW z \in 0 .. Len(s), \A i \in 1 .. z : s[i] = 0
    PROVE  numberIn(s) = span(s, z + 1, Len(s)) /\ numberIn(s) = span(s, 1, Len(s)) /\ numberIn(s) \in Nat
<1>1. Len(s) \in Nat /\ z \in Nat
      OBVIOUS
<1>2. numberIn(s) = span(s, 1, Len(s))
      <2>1. SubSeq(s, 1, Len(s)) = s
            BY SubSeqFull
      <2>2. QED
            BY <2>1 DEF span
<1>3. ByteBase \in Nat
      BY ByteIs
<1>4. ASSUME NEW a \in 1 .. z PROVE span(s, a, Len(s)) = span(s, a + 1, Len(s))
      <2>1. a \in 1 .. Len(s) + 1 /\ a + 1 \in 1 .. Len(s) + 1 /\ a \in 1 .. Len(s) /\ s[a] = 0
            BY <1>1
      <2>2. /\ span(s, a, a - 1) = 0
            /\ \A b \in a - 1 .. Len(s) : span(s, a, b) \in Nat
            /\ \A b \in a .. Len(s) : span(s, a, b) = span(s, a, b - 1) * ByteBase + s[b]
            BY <2>1, SpanIs
      <2> DEFINE c == a + 1
      <2>3. /\ span(s, c, c - 1) = 0
            /\ \A b \in c .. Len(s) : span(s, c, b) = span(s, c, b - 1) * ByteBase + s[b]
            BY <2>1, SpanIs
      <2> DEFINE k == Len(s) - a
                 good == {i \in 0 .. k : span(s, a, a + i) = span(s, c, a + i)}
      <2>4. k \in Nat
            BY <1>1
      <2>5. 0 \in good
            <3>1. a \in a .. Len(s) /\ a + 0 = a /\ c - 1 = a
                  BY <1>1, <2>1
            <3>2. span(s, a, a) = 0 * ByteBase + 0
                  BY <2>1, <2>2, <3>1
            <3>3. QED
                  BY <1>3, <2>3, <2>4, <3>1, <3>2
      <2>6. ASSUME NEW i \in 1 .. k, i - 1 \in good PROVE i \in good
            <3> DEFINE b == a + i
                       j == i - 1
            <3>1. j \in Nat /\ b \in a .. Len(s) /\ b \in c .. Len(s) /\ b - 1 = a + j
                  BY <1>1
            <3>2. span(s, a, b - 1) = span(s, c, b - 1)
                  BY <2>6, <3>1
            <3> HIDE DEF b, c
            <3>3. span(s, a, b) = span(s, c, b)
                  BY <2>2, <2>3, <3>1, <3>2
            <3>4. QED
                  BY <3>3 DEF b
      <2>7. k \in good
            <3> HIDE DEF good
            <3>1. k \in 0 .. k
                  BY <2>4
            <3>2. QED
                  BY <2>4, <2>5, <2>6, <3>1, CountUp
      <2>8. a + k = Len(s)
            BY <1>1
      <2>9. QED
            BY <2>7, <2>8
<1> DEFINE good == {i \in 0 .. z : span(s, 1, Len(s)) = span(s, i + 1, Len(s))}
<1>5. 0 \in good
      BY <1>1
<1>6. ASSUME NEW i \in 1 .. z, i - 1 \in good PROVE i \in good
      <2>1. i \in 0 .. z /\ (i - 1) + 1 = i
            BY <1>1
      <2>2. span(s, 1, Len(s)) = span(s, i, Len(s))
            BY <1>6, <2>1
      <2>3. QED
            BY <1>4, <2>1, <2>2
<1>7. z \in good
      <2> HIDE DEF good
      <2>1. z \in 0 .. z
            BY <1>1
      <2>2. QED
            BY <1>1, <1>5, <1>6, <2>1, CountUp
<1>8. numberIn(s) \in Nat
      BY NumberIs
<1>9. QED
      BY <1>2, <1>7, <1>8

\* As many bytes with the same number are the same bytes.
LEMMA SameBytes ==
    ASSUME NEW s \in Bytes, NEW t \in Bytes, Len(s) = Len(t), numberIn(s) = numberIn(t)
    PROVE  s = t
<1> DEFINE n == Len(s)
<1>1. /\ n \in Nat /\ s \in Seq(Nat) /\ t \in Seq(Nat) /\ s \in Seq(Byte) /\ t \in Seq(Byte)
      /\ \A i \in 1 .. n : s[i] \in Byte /\ t[i] \in Byte
      BY BytesTyped
<1>2. span(s, 1, n) = span(t, 1, n)
      <2>1. SubSeq(s, 1, n) = s /\ SubSeq(t, 1, n) = t
            BY <1>1, SubSeqFull
      <2>2. QED
            BY <2>1 DEF span
<1>3. ASSUME NEW r \in Seq(Nat), Len(r) = n
      PROVE  /\ \A b \in 0 .. n : span(r, 1, b) \in Nat
             /\ \A b \in 1 .. n : span(r, 1, b) = span(r, 1, b - 1) * ByteBase + r[b]
      <2>1. 1 \in 1 .. Len(r) + 1 /\ 1 - 1 = 0
            BY <1>1, <1>3
      <2>2. /\ \A b \in 1 - 1 .. Len(r) : span(r, 1, b) \in Nat
            /\ \A b \in 1 .. Len(r) : span(r, 1, b) = span(r, 1, b - 1) * ByteBase + r[b]
            BY <2>1, SpanIs
      <2>3. QED
            BY <1>3, <2>1, <2>2
<1>4. Len(s) = n /\ Len(t) = n
      OBVIOUS
<1> HIDE DEF n
<1>5. ASSUME NEW b \in 1 .. n, span(s, 1, b) = span(t, 1, b)
      PROVE  span(s, 1, b - 1) = span(t, 1, b - 1) /\ s[b] = t[b]
      <2> DEFINE x == span(s, 1, b - 1)
                 y == span(t, 1, b - 1)
      <2>1. b \in 0 .. n /\ b - 1 \in 0 .. n
            BY <1>1
      <2>2. x \in Nat /\ y \in Nat /\ x * ByteBase + s[b] = y * ByteBase + t[b] /\ s[b] \in Byte /\ t[b] \in Byte
            <3>1. x \in Nat /\ span(s, 1, b) = x * ByteBase + s[b]
                  BY <1>1, <1>3, <1>4, <2>1
            <3>2. y \in Nat /\ span(t, 1, b) = y * ByteBase + t[b]
                  BY <1>1, <1>3, <1>4, <2>1
            <3> HIDE DEF x, y
            <3>3. QED
                  BY <1>1, <1>5, <3>1, <3>2
      <2> HIDE DEF x, y
      <2>3. x = y /\ s[b] = t[b]
            BY <2>2, DigitsSplit
      <2>4. QED
            BY <2>3 DEF x, y
<1> DEFINE good == {i \in 0 .. n : span(s, 1, n - i) = span(t, 1, n - i)}
<1>6. 0 \in good
      BY <1>1, <1>2
<1>7. ASSUME NEW i \in 1 .. n, i - 1 \in good PROVE i \in good
      <2> DEFINE b == n - (i - 1)
      <2>1. b \in 1 .. n /\ b - 1 = n - i /\ i \in 0 .. n
            BY <1>1
      <2>2. span(s, 1, b) = span(t, 1, b)
            BY <1>7
      <2> HIDE DEF b
      <2>3. QED
            BY <1>5, <2>1, <2>2
<1>8. \A i \in 0 .. n : i \in good
      <2> HIDE DEF good
      <2>1. QED
            BY <1>1, <1>6, <1>7, CountUp
<1>9. ASSUME NEW b \in 1 .. n PROVE s[b] = t[b]
      <2>1. n - b \in 0 .. n /\ n - (n - b) = b
            BY <1>1
      <2>2. span(s, 1, b) = span(t, 1, b)
            BY <1>8, <2>1
      <2>3. QED
            BY <1>5, <2>2
<1>10. Len(s) = Len(t) /\ \A i \in 1 .. Len(s) : s[i] = t[i]
       BY <1>4, <1>9
<1>11. QED
       BY <1>1, <1>10, SeqEqual

\* A quotient of a quotient.
LEMMA QuotientTwice ==
    ASSUME NEW k \in Nat, NEW d \in Nat \ {0}, NEW e \in Nat \ {0}
    PROVE  (k \div d) \div e = k \div (e * d)
<1> DEFINE q == k \div d
           x == q \div e
<1>1. q \in Nat /\ d * q <= k /\ k < d * q + d
      BY QuotientIs
<1>2. x \in Nat /\ e * x <= q /\ q < e * x + e
      <2> HIDE DEF q
      <2>1. QED
            BY <1>1, QuotientIs
<1> HIDE DEF q, x
<1>3. e * x \in Nat /\ e * d \in Nat /\ e * d > 0 /\ (e * d) * x \in Nat
      <2>1. e * d >= 1 * d
            <3>1. d * 1 <= d * e
                  BY ProductGrows
            <3>2. QED
                  BY <3>1
      <2>2. QED
            BY <1>2, <2>1
<1>4. (e * d) * x <= k
      <2>1. d * (e * x) <= d * q
            BY <1>1, <1>2, <1>3, ProductGrows
      <2>2. d * (e * x) = (e * d) * x
            BY <1>2
      <2>3. d * q \in Nat
            BY <1>1
      <2>4. QED
            BY <1>1, <1>3, <2>1, <2>2, <2>3
<1>5. k < (e * d) * x + e * d
      <2>1. d * (q + 1) <= d * (e * x + e)
            BY <1>1, <1>2, <1>3, ProductGrows
      <2>2. d * (q + 1) = d * q + d
            BY <1>1
      <2>3. d * (e * x + e) = (e * d) * x + e * d
            BY <1>2, <1>3
      <2>4. d * q \in Nat
            BY <1>1
      <2>5. QED
            BY <1>1, <1>3, <2>1, <2>2, <2>3, <2>4
<1>6. k \div (e * d) = x
      BY <1>2, <1>3, <1>4, <1>5, QuotientOnly
<1>7. QED
      BY <1>6 DEF q, x

\* The 32 bytes of a number.
LEMMA B32Is ==
    ASSUME NEW k \in 0 .. powerOf(ByteBase, ScalarBytes) - 1
    PROVE  b32(k) \in Bytes /\ Len(b32(k)) = ScalarBytes /\ numberIn(b32(k)) = k
<1> DEFINE n == ScalarBytes
           p(i) == powerOf(ByteBase, i)
           f == [i \in 1 .. n |-> (k \div p(n - i)) % ByteBase]
<1>1. n \in Nat /\ ByteBase \in Nat /\ ByteBase > 0
      BY ByteIs
<1>2. p(0) = 1 /\ \A i \in Nat : p(i) \in Nat /\ p(i) > 0 /\ p(i + 1) = ByteBase * p(i)
      BY <1>1, PowerSteps
<1>3. k \in Nat /\ k < p(n)
      BY <1>1, <1>2
<1>4. b32(k) = f
      <2>1. f = [i \in 1 .. n |-> f[i]]
            OBVIOUS
      <2>2. SubSeq(f, 1, n) = f
            <3> HIDE DEF f
            <3>1. QED
                  BY <1>1, <2>1, TupleIs
      <2>3. QED
            BY <2>2 DEF b32, Tuple
<1> HIDE DEF p
<1>5. ASSUME NEW i \in 1 .. n PROVE f[i] \in Byte
      <2> DEFINE q == k \div p(n - i)
      <2>1. n - i \in Nat
            BY <1>1
      <2>2. p(n - i) \in Nat \ {0}
            BY <1>2, <2>1
      <2>3. q \in Nat
            <3> DEFINE d == p(n - i)
            <3>1. d \in Nat \ {0}
                  BY <2>2
            <3> HIDE DEF d
            <3>2. k \div d \in Nat
                  BY <1>3, <3>1, QuotientIs
            <3>3. QED
                  BY <3>2 DEF d
      <2> HIDE DEF q
      <2>4. q % ByteBase \in 0 .. ByteBase - 1
            BY <1>1, <2>3
      <2>5. QED
            BY <2>4 DEF q, Byte
<1>6. f \in Seq(Byte) /\ Len(f) = n
      <2>1. f \in [1 .. n -> Byte]
            BY <1>5
      <2> HIDE DEF f
      <2>2. QED
            BY <1>1, <2>1
<1>7. f \in Bytes /\ f \in Seq(Nat) /\ 1 \in 1 .. Len(f) + 1
      <2>1. f \in Bytes
            BY <1>6 DEF Bytes
      <2> HIDE DEF f
      <2>2. QED
            BY <1>1, <1>6, <2>1, BytesTyped
<1>8. span(f, 1, 0) = 0 /\ \A i \in 1 .. n : span(f, 1, i) = span(f, 1, i - 1) * ByteBase + f[i]
      <2> HIDE DEF f
      <2>1. /\ span(f, 1, 1 - 1) = 0
            /\ \A i \in 1 .. Len(f) : span(f, 1, i) = span(f, 1, i - 1) * ByteBase + f[i]
            BY <1>7, SpanIs
      <2>2. QED
            BY <1>6, <2>1
<1> DEFINE good == {i \in 0 .. n : span(f, 1, i) = k \div p(n - i)}
<1>9. 0 \in good
      <2> DEFINE d == p(n)
      <2>1. d \in Nat \ {0} /\ k < d * 0 + d /\ d * 0 <= k
            BY <1>1, <1>2, <1>3
      <2> HIDE DEF d
      <2>2. k \div d = 0
            BY <1>3, <2>1, QuotientOnly
      <2>3. n - 0 = n
            BY <1>1
      <2> HIDE DEF f
      <2>4. QED
            BY <1>1, <1>8, <2>2, <2>3 DEF d
<1>10. ASSUME NEW i \in 1 .. n, i - 1 \in good PROVE i \in good
       <2> DEFINE d == p(n - i)
                  q == k \div d
       <2>1. n - i \in Nat /\ (n - i) + 1 = n - (i - 1) /\ i \in 0 .. n
             BY <1>1
       <2>2. d \in Nat \ {0} /\ p(n - (i - 1)) = ByteBase * d
             BY <1>2, <2>1
       <2>3. f[i] = q % ByteBase
             OBVIOUS
       <2> HIDE DEF f, d
       <2>4. q \in Nat
             BY <1>3, <2>2, QuotientIs
       <2>5. span(f, 1, i - 1) = k \div (ByteBase * d)
             BY <1>10, <2>2
       <2>6. q \div ByteBase = k \div (ByteBase * d)
             BY <1>1, <1>3, <2>2, QuotientTwice
       <2> HIDE DEF q
       <2> DEFINE x == q \div ByteBase
                  y == q % ByteBase
       <2>7. span(f, 1, i) = x * ByteBase + y
             BY <1>8, <2>3, <2>5, <2>6
       <2>8. q = ByteBase * x + y /\ x \in Nat
             BY <1>1, <2>4
       <2> HIDE DEF x, y
       <2>9. span(f, 1, i) = q
             <3>1. x * ByteBase = ByteBase * x
                   BY <1>1, <2>8
             <3>2. QED
                   BY <2>7, <2>8, <3>1
       <2>10. QED
             BY <2>1, <2>9 DEF q, d
<1>11. n \in good
       <2> HIDE DEF good
       <2>1. n \in 0 .. n
             BY <1>1
       <2>2. QED
             BY <1>1, <1>9, <1>10, <2>1, CountUp
<1>12. span(f, 1, n) = k
       <2>1. k \div 1 = k /\ n - n = 0
             BY <1>1, <1>3
       <2>2. QED
             BY <1>2, <1>11, <2>1
<1>13. numberIn(f) = k
       <2> HIDE DEF f
       <2>1. SubSeq(f, 1, n) = f
             BY <1>6, SubSeqFull
       <2>2. QED
             BY <1>12, <2>1 DEF span
<1>14. QED
       <2> HIDE DEF f
       <2>1. QED
             BY <1>4, <1>6, <1>7, <1>13

\* The zeros a sequence begins with.
Leads(s, z) == z \in 0 .. Len(s) /\ (\A i \in 1 .. z : s[i] = 0) /\ (z < Len(s) => s[z + 1] # 0)

LEMMA LeadingIs ==
    ASSUME NEW s \in Seq(Nat)
    PROVE  Leads(s, leadingZeros(s)) /\ \A z : Leads(s, z) => leadingZeros(s) = z
<1> DEFINE marks == {i \in 1 .. Len(s) : s[i] # 0}
<1>1. Len(s) \in Nat
      OBVIOUS
<1>2. \E z \in 0 .. Len(s) : Leads(s, z)
      <2>1. CASE marks = {}
            BY <1>1, <2>1 DEF Leads
      <2>2. CASE marks # {}
            <3>1. marks \subseteq Nat
                  BY <1>1
            <3>2. PICK m \in marks : \A i \in marks : m <= i
                  <4> HIDE DEF marks
                  <4>1. QED
                        BY <2>2, <3>1, LeastOf
            <3>3. m \in 1 .. Len(s) /\ s[m] # 0 /\ m - 1 \in 0 .. Len(s)
                  BY <1>1, <3>2
            <3>4. ASSUME NEW i \in 1 .. m - 1 PROVE s[i] = 0
                  BY <1>1, <3>2, <3>3, <3>4
            <3>5. Leads(s, m - 1)
                  BY <3>3, <3>4 DEF Leads
            <3>6. QED
                  BY <3>3, <3>5
      <2>3. QED
            BY <2>1, <2>2
<1>3. \E z \in 0 .. Len(s) : (\A i \in 1 .. z : s[i] = 0) /\ (z < Len(s) => s[z + 1] # 0)
      BY <1>2 DEF Leads
<1>4. Leads(s, leadingZeros(s))
      <2> DEFINE z == leadingZeros(s)
      <2>1. z \in 0 .. Len(s) /\ (\A i \in 1 .. z : s[i] = 0) /\ (z < Len(s) => s[z + 1] # 0)
            BY <1>3, Zenon DEF leadingZeros
      <2> HIDE DEF z
      <2>2. Leads(s, z)
            BY <2>1 DEF Leads
      <2>3. QED
            BY <2>2 DEF z
<1>5. ASSUME NEW y, NEW z, Leads(s, y), Leads(s, z) PROVE ~(y < z)
      BY <1>1, <1>5 DEF Leads
<1>6. ASSUME NEW z, Leads(s, z) PROVE leadingZeros(s) = z
      <2>1. z \in Nat /\ leadingZeros(s) \in Nat
            BY <1>1, <1>4, <1>6 DEF Leads
      <2>2. ~(z < leadingZeros(s)) /\ ~(leadingZeros(s) < z)
            BY <1>4, <1>5, <1>6
      <2>3. QED
            BY <2>1, <2>2
<1>7. QED
      BY <1>4, <1>6

\* Bytes that do not begin with 0.
Proper(s) == s \in Bytes /\ (s # <<>> => s[1] # 0)

\* What is left without the zeros.
LEMMA StrippedIs ==
    ASSUME NEW s \in Bytes
    PROVE  /\ Proper(stripped(s)) /\ numberIn(stripped(s)) = numberIn(s)
           /\ Len(stripped(s)) \in Nat /\ Len(stripped(s)) <= Len(s)
           /\ \A z : Leads(s, z) => stripped(s) = SubSeq(s, z + 1, Len(s))
<1> DEFINE z == leadingZeros(s)
           D == SubSeq(s, z + 1, Len(s))
<1>1. /\ s \in Seq(Nat) /\ Len(s) \in Nat
      /\ \A i \in 1 .. Len(s) : s[i] \in Byte
      BY BytesTyped
<1>2. Leads(s, z) /\ \A y : Leads(s, y) => z = y
      BY <1>1, LeadingIs
<1>3. stripped(s) = D
      BY DEF stripped
<1> HIDE DEF z
<1>4. z \in 0 .. Len(s) /\ (\A i \in 1 .. z : s[i] = 0) /\ (z < Len(s) => s[z + 1] # 0)
      BY <1>2 DEF Leads
<1>5. /\ D \in Seq(Byte) /\ Len(D) = Len(s) - z /\ \A i \in 1 .. Len(s) - z : D[i] = s[z + i]
      <2>1. z + 1 \in Int /\ Len(s) \in Int /\ \A i \in z + 1 .. Len(s) : s[i] \in Byte
            BY <1>1, <1>4
      <2>2. /\ D \in Seq(Byte) /\ Len(D) = IF z + 1 <= Len(s) THEN Len(s) - (z + 1) + 1 ELSE 0
            /\ \A i \in 1 .. Len(s) - (z + 1) + 1 : D[i] = s[(z + 1) + i - 1]
            BY <2>1, SubSeqProperties
      <2>3. Len(D) = Len(s) - z
            BY <1>1, <1>4, <2>2
      <2>4. ASSUME NEW i \in 1 .. Len(s) - z PROVE D[i] = s[z + i]
            <3>1. i \in 1 .. Len(s) - (z + 1) + 1 /\ (z + 1) + i - 1 = z + i
                  BY <1>1, <1>4
            <3>2. QED
                  BY <2>2, <3>1
      <2>5. QED
            BY <2>2, <2>3, <2>4
<1>6. Proper(D)
      <2>1. D \in Bytes
            BY <1>5 DEF Bytes
      <2>2. ASSUME D # <<>> PROVE D[1] # 0
            <3>1. Len(D) # 0
                  <4> HIDE DEF D
                  <4>1. QED
                        BY <1>5, <2>2
            <3>2. z < Len(s) /\ 1 \in 1 .. Len(s) - z
                  BY <1>1, <1>4, <1>5, <3>1
            <3>3. D[1] = s[z + 1]
                  BY <1>5, <3>2
            <3>4. QED
                  BY <1>4, <3>2, <3>3
      <2>3. QED
            BY <2>1, <2>2 DEF Proper
<1>7. numberIn(D) = numberIn(s)
      BY <1>1, <1>4, ZerosSkipped DEF span
<1>8. Len(D) \in Nat /\ Len(D) <= Len(s)
      BY <1>1, <1>4, <1>5
<1>9. QED
      BY <1>2, <1>3, <1>6, <1>7, <1>8

\* How large a number is says how many bytes it takes.
LEMMA ProperSize ==
    ASSUME NEW D, Proper(D)
    PROVE  /\ D \in Bytes /\ Len(D) \in Nat /\ numberIn(D) \in Nat /\ numberIn(D) < powerOf(ByteBase, Len(D))
           /\ D = <<>> => Len(D) = 0 /\ numberIn(D) = 0
           /\ D # <<>> => Len(D) > 0 /\ numberIn(D) >= powerOf(ByteBase, Len(D) - 1) /\ numberIn(D) > 0
<1>1. D \in Bytes /\ D \in Seq(Nat) /\ Len(D) \in Nat /\ D \in Seq(Byte)
      BY BytesTyped DEF Proper
<1>2. numberIn(D) \in Nat /\ (D = <<>> => numberIn(D) = 0)
      BY <1>1, NumberIs
<1>3. numberIn(D) = span(D, 1, Len(D))
      BY <1>1, SubSeqFull DEF span
<1>4. 1 \in 1 .. Len(D) + 1 /\ 1 - 1 = 0 /\ Len(D) \in 0 .. Len(D) /\ Len(D) - 1 + 1 = Len(D)
      BY <1>1
<1>5. /\ \A b \in 1 - 1 .. Len(D) : span(D, 1, b) \in Nat /\ span(D, 1, b) < powerOf(ByteBase, b - 1 + 1)
      /\ 1 <= Len(D) /\ D[1] # 0 => \A b \in 1 .. Len(D) : span(D, 1, b) >= powerOf(ByteBase, b - 1)
      BY <1>1, <1>4, SpanFits
<1>6. numberIn(D) < powerOf(ByteBase, Len(D))
      BY <1>3, <1>4, <1>5
<1>7. D = <<>> => Len(D) = 0
      OBVIOUS
<1>8. ASSUME D # <<>> PROVE Len(D) > 0 /\ numberIn(D) >= powerOf(ByteBase, Len(D) - 1) /\ numberIn(D) > 0
      <2>1. Len(D) > 0
            BY <1>1, <1>8, EmptySeq
      <2>2. D[1] # 0
            BY <1>8 DEF Proper
      <2>3. 1 <= Len(D) /\ Len(D) \in 1 .. Len(D) /\ Len(D) - 1 \in Nat
            BY <1>1, <2>1
      <2>4. numberIn(D) >= powerOf(ByteBase, Len(D) - 1)
            BY <1>3, <1>5, <2>2, <2>3
      <2>5. ByteBase \in Nat /\ ByteBase > 0
            BY ByteIs
      <2>6. powerOf(ByteBase, Len(D) - 1) \in Nat /\ powerOf(ByteBase, Len(D) - 1) > 0
            BY <2>3, <2>5, PowerSteps
      <2>7. QED
            BY <1>2, <2>1, <2>4, <2>6
<1>9. QED
      BY <1>1, <1>2, <1>6, <1>7, <1>8

\* A number has one form without zeros in front.
LEMMA ProperOnly ==
    ASSUME NEW D, NEW E, Proper(D), Proper(E), numberIn(D) = numberIn(E)
    PROVE  D = E
<1>1. ASSUME NEW A, NEW B, Proper(A), Proper(B), numberIn(A) = numberIn(B) PROVE ~(Len(A) < Len(B))
      <2> DEFINE a == Len(A)
                 b == Len(B)
      <2>1. /\ a \in Nat /\ b \in Nat /\ numberIn(A) \in Nat /\ numberIn(A) < powerOf(ByteBase, a)
            /\ B # <<>> => numberIn(B) >= powerOf(ByteBase, b - 1)
            /\ B = <<>> => b = 0
            BY <1>1, ProperSize
      <2> HIDE DEF a, b
      <2>2. ASSUME a < b PROVE FALSE
            <3>1. a <= b - 1 /\ b - 1 \in Nat /\ B # <<>>
                  BY <2>1, <2>2
            <3>2. ByteBase \in Nat \ {0}
                  BY ByteIs
            <3>3. powerOf(ByteBase, a) \in Nat /\ powerOf(ByteBase, b - 1) \in Nat
                  /\ powerOf(ByteBase, a) <= powerOf(ByteBase, b - 1)
                  BY <2>1, <3>1, <3>2, PowersGrow
            <3>4. QED
                  BY <1>1, <2>1, <3>1, <3>3
      <2>3. QED
            BY <2>2 DEF a, b
<1>2. Len(D) \in Nat /\ Len(E) \in Nat /\ D \in Bytes /\ E \in Bytes
      BY ProperSize
<1>3. Len(D) = Len(E)
      <2>1. ~(Len(D) < Len(E)) /\ ~(Len(E) < Len(D))
            BY <1>1
      <2>2. QED
            BY <1>2, <2>1
<1>4. QED
      BY <1>2, <1>3, SameBytes

\* The digits of a number, and the bytes written for it.
digitsOf(k) == stripped(b32(k))
positive(D) == IF D = <<>> THEN <<0>> ELSE IF D[1] >= HighBit THEN <<0>> \o D ELSE D
bodyOf(k) == positive(digitsOf(k))

Number32 == 0 .. powerOf(ByteBase, ScalarBytes) - 1

LEMMA DigitsOfNumber ==
    ASSUME NEW k \in Number32
    PROVE  Proper(digitsOf(k)) /\ numberIn(digitsOf(k)) = k /\ Len(digitsOf(k)) \in 0 .. ScalarBytes
<1>1. b32(k) \in Bytes /\ Len(b32(k)) = ScalarBytes /\ numberIn(b32(k)) = k
      BY B32Is DEF Number32
<1>2. ScalarBytes \in Nat
      BY ByteIs
<1> DEFINE b == b32(k)
<1> HIDE DEF b
<1>3. b \in Bytes /\ Len(b) = ScalarBytes /\ numberIn(b) = k
      BY <1>1 DEF b
<1>4. /\ Proper(stripped(b)) /\ numberIn(stripped(b)) = numberIn(b)
      /\ Len(stripped(b)) \in Nat /\ Len(stripped(b)) <= Len(b)
      BY <1>3, StrippedIs
<1>5. digitsOf(k) = stripped(b)
      BY DEF digitsOf, b
<1>6. QED
      BY <1>2, <1>3, <1>4, <1>5

\* Digits that fit are those of their number.
LEMMA NumberOfDigits ==
    ASSUME NEW D, Proper(D), Len(D) <= ScalarBytes
    PROVE  numberIn(D) \in Number32 /\ digitsOf(numberIn(D)) = D
<1>1. /\ Len(D) \in Nat /\ numberIn(D) \in Nat /\ numberIn(D) < powerOf(ByteBase, Len(D))
      BY ProperSize
<1>2. ByteBase \in Nat \ {0} /\ ScalarBytes \in Nat
      BY ByteIs
<1>3. /\ powerOf(ByteBase, Len(D)) \in Nat /\ powerOf(ByteBase, ScalarBytes) \in Nat
      /\ powerOf(ByteBase, Len(D)) <= powerOf(ByteBase, ScalarBytes)
      BY <1>1, <1>2, PowersGrow
<1>4. numberIn(D) \in Number32
      BY <1>1, <1>3 DEF Number32
<1> DEFINE k == numberIn(D)
<1> HIDE DEF k
<1>5. k \in Number32
      BY <1>4 DEF k
<1>6. Proper(digitsOf(k)) /\ numberIn(digitsOf(k)) = k
      BY <1>5, DigitsOfNumber
<1>7. digitsOf(k) = D
      <2>1. numberIn(digitsOf(k)) = numberIn(D)
            BY <1>6 DEF k
      <2>2. QED
            BY <1>6, <2>1, ProperOnly
<1>8. QED
      BY <1>4, <1>7 DEF k

\* A 0 is put in front of a byte that would look negative, and never otherwise.
LEMMA PositiveIs ==
    ASSUME NEW D, Proper(D)
    PROVE  LET b == positive(D)
           IN /\ b \in Bytes /\ Len(b) \in 1 .. Len(D) + 1 /\ b[1] < HighBit /\ ~excess(b)
              /\ stripped(b) = D
<1> DEFINE b == positive(D)
<1>1. /\ D \in Bytes /\ D \in Seq(Byte) /\ D \in Seq(Nat) /\ Len(D) \in Nat
      /\ \A i \in 1 .. Len(D) : D[i] \in Byte /\ D[i] \in Nat
      BY BytesTyped DEF Proper
<1>2. HighBit \in Nat /\ HighBit > 2 /\ ByteBase = 2 * HighBit /\ 0 \in Byte
      BY ByteIs DEF Byte
<1>3. D # <<>> => D[1] # 0 /\ Len(D) > 0
      BY ProperSize DEF Proper
<1>4. CASE D = <<>>
      <2>1. b = <<0>>
            BY <1>4 DEF positive
      <2>2. b \in Bytes /\ Len(b) = 1 /\ b[1] = 0
            BY <1>2, <2>1 DEF Bytes
      <2>3. ~excess(b)
            BY <2>2 DEF excess
      <2> HIDE DEF b
      <2>4. Leads(b, 1)
            <3>1. 1 \in 0 .. Len(b) /\ ~(1 < Len(b)) /\ \A i \in 1 .. 1 : b[i] = 0
                  BY <2>2
            <3>2. QED
                  BY <3>1 DEF Leads
      <2>5. stripped(b) = SubSeq(b, 1 + 1, Len(b))
            BY <2>2, <2>4, StrippedIs
      <2>6. SubSeq(b, 1 + 1, Len(b)) = <<>>
            BY <2>2, SubSeqEmpty
      <2>7. Len(D) = 0
            BY <1>4
      <2>8. /\ b \in Bytes /\ Len(b) \in 1 .. Len(D) + 1 /\ b[1] < HighBit /\ ~excess(b)
            /\ stripped(b) = D
            BY <1>2, <1>4, <2>2, <2>3, <2>5, <2>6, <2>7
      <2>9. QED
            BY <2>8 DEF b
<1>5. CASE D # <<>> /\ D[1] >= HighBit
      <2>1. b = <<0>> \o D
            BY <1>5 DEF positive
      <2>2. b \in Seq(Byte) /\ Len(b) = Len(D) + 1 /\ b[1] = 0 /\ \A i \in 1 .. Len(D) : b[i + 1] = D[i]
            <3>1. <<0>> \in Seq(Byte) /\ Len(<<0>>) = 1
                  BY <1>2
            <3>2. /\ b \in Seq(Byte) /\ Len(b) = 1 + Len(D)
                  /\ \A i \in 1 .. 1 + Len(D) : b[i] = IF i <= 1 THEN <<0>>[i] ELSE D[i - 1]
                  BY <1>1, <2>1, <3>1, ConcatProperties
            <3> HIDE DEF b
            <3>3. b[1] = 0
                  BY <1>1, <3>2
            <3>4. ASSUME NEW i \in 1 .. Len(D) PROVE b[i + 1] = D[i]
                  <4>1. i + 1 \in 1 .. 1 + Len(D) /\ ~(i + 1 <= 1) /\ (i + 1) - 1 = i
                        BY <1>1
                  <4>2. QED
                        BY <3>2, <4>1
            <3>5. QED
                  BY <1>1, <3>2, <3>3, <3>4
      <2> HIDE DEF b
      <2>3. b \in Bytes
            BY <2>2 DEF Bytes
      <2>4. b[2] = D[1] /\ b[2] >= HighBit /\ 1 \in 1 .. Len(D)
            <3>1. 1 \in 1 .. Len(D) /\ 1 + 1 = 2
                  BY <1>1, <1>3, <1>5
            <3>2. QED
                  BY <1>5, <2>2, <3>1
      <2>5. ~excess(b)
            <3>1. b[1] = 0 /\ b[2] \in Nat /\ ~(b[2] < HighBit) /\ 0 # ByteBase - 1
                  BY <1>1, <1>2, <2>2, <2>4
            <3>2. QED
                  BY <3>1 DEF excess
      <2>6. Leads(b, 1)
            <3>1. 1 \in 0 .. Len(b) /\ (\A i \in 1 .. 1 : b[i] = 0) /\ b[1 + 1] # 0
                  BY <1>1, <1>3, <1>5, <2>2, <2>4
            <3>2. QED
                  BY <3>1 DEF Leads
      <2>7. stripped(b) = SubSeq(b, 1 + 1, Len(b))
            BY <2>3, <2>6, StrippedIs
      <2>8. SubSeq(b, 1 + 1, Len(b)) = D
            <3> DEFINE r == SubSeq(b, 1 + 1, Len(b))
            <3>1. 1 + 1 \in Int /\ Len(b) \in Int /\ \A i \in 1 + 1 .. Len(b) : b[i] \in Byte
                  BY <1>1, <2>2, ElementOfSeq
            <3>2. /\ r \in Seq(Byte) /\ Len(r) = IF 1 + 1 <= Len(b) THEN Len(b) - (1 + 1) + 1 ELSE 0
                  /\ \A i \in 1 .. Len(b) - (1 + 1) + 1 : r[i] = b[(1 + 1) + i - 1]
                  BY <3>1, SubSeqProperties
            <3> HIDE DEF r
            <3>3. Len(r) = Len(D)
                  BY <1>1, <1>3, <1>5, <2>2, <3>2
            <3>4. ASSUME NEW i \in 1 .. Len(r) PROVE r[i] = D[i]
                  <4>1. i \in 1 .. Len(D) /\ i \in 1 .. Len(b) - (1 + 1) + 1 /\ (1 + 1) + i - 1 = i + 1
                        BY <1>1, <2>2, <3>3
                  <4>2. QED
                        BY <2>2, <3>2, <4>1
            <3>5. r = D
                  BY <1>1, <3>2, <3>3, <3>4, SeqEqual
            <3>6. QED
                  BY <3>5 DEF r
      <2>9. /\ b \in Bytes /\ Len(b) \in 1 .. Len(D) + 1 /\ b[1] < HighBit /\ ~excess(b)
            /\ stripped(b) = D
            BY <1>1, <1>2, <2>2, <2>3, <2>5, <2>7, <2>8
      <2>10. QED
            BY <2>9 DEF b
<1>6. CASE D # <<>> /\ ~(D[1] >= HighBit)
      <2>1. b = D
            BY <1>6 DEF positive
      <2>2. 1 \in 1 .. Len(D) /\ D[1] \in Nat /\ D[1] < HighBit /\ D[1] # 0
            BY <1>1, <1>2, <1>3, <1>6
      <2>3. ~excess(D)
            <3>1. D[1] # 0 /\ D[1] # ByteBase - 1
                  BY <1>2, <2>2
            <3>2. QED
                  BY <3>1 DEF excess
      <2>4. Leads(D, 0)
            <3>1. 0 \in 0 .. Len(D) /\ (\A i \in 1 .. 0 : D[i] = 0) /\ D[0 + 1] # 0
                  BY <1>1, <2>2
            <3>2. QED
                  BY <3>1 DEF Leads
      <2>5. stripped(D) = SubSeq(D, 0 + 1, Len(D))
            BY <1>1, <2>4, StrippedIs
      <2>6. SubSeq(D, 0 + 1, Len(D)) = D
            BY <1>1, SubSeqFull
      <2>7. Len(D) \in 1 .. Len(D) + 1
            BY <1>1, <2>2
      <2>8. QED
            BY <1>1, <2>1, <2>2, <2>3, <2>5, <2>6, <2>7
<1>7. QED
      BY <1>4, <1>5, <1>6

\* Bytes without padding are those that their digits are written as.
LEMMA PositiveOnly ==
    ASSUME NEW b \in Bytes, Len(b) > 0, b[1] < HighBit, ~excess(b)
    PROVE  positive(stripped(b)) = b
<1> DEFINE D == stripped(b)
           z == leadingZeros(b)
<1>1. b \in Seq(Byte) /\ b \in Seq(Nat) /\ Len(b) \in Nat /\ \A i \in 1 .. Len(b) : b[i] \in Byte /\ b[i] \in Nat
      BY BytesTyped
<1>2. HighBit \in Nat /\ HighBit > 2
      BY ByteIs
<1>3. Leads(b, z)
      BY <1>1, LeadingIs
<1>4. z \in 0 .. Len(b) /\ (\A i \in 1 .. z : b[i] = 0) /\ (z < Len(b) => b[z + 1] # 0)
      BY <1>3 DEF Leads
<1>5. D = SubSeq(b, z + 1, Len(b))
      BY <1>3, StrippedIs
<1> HIDE DEF z, D
<1>6. ~(z > 1)
      <2>1. ASSUME z > 1 PROVE FALSE
            <3>1. 1 \in 1 .. z /\ 2 \in 1 .. z /\ Len(b) > 1
                  BY <1>1, <1>4, <2>1
            <3>2. b[1] = 0 /\ b[2] = 0
                  BY <1>4, <3>1
            <3>3. excess(b)
                  BY <1>2, <3>1, <3>2 DEF excess
            <3>4. QED
                  BY <3>3
      <2>2. QED
            BY <2>1
<1>7. CASE z = 0
      <2>1. D = b
            BY <1>1, <1>5, <1>7, SubSeqFull
      <2>2. b # <<>> /\ ~(b[1] >= HighBit)
            <3>1. b[1] \in Nat
                  BY <1>1
            <3>2. QED
                  BY <1>2, <3>1
      <2>3. QED
            BY <2>1, <2>2 DEF positive, D
<1>8. CASE z = 1 /\ Len(b) = 1
      <2>1. D = <<>>
            BY <1>1, <1>5, <1>8, SubSeqEmpty
      <2>2. b[1] = 0
            BY <1>4, <1>8
      <2>3. b = <<0>>
            <3>1. <<0>> \in Seq(Nat) /\ Len(<<0>>) = 1 /\ \A i \in 1 .. 1 : i = 1
                  OBVIOUS
            <3>2. \A i \in 1 .. Len(b) : b[i] = <<0>>[i]
                  BY <1>8, <2>2, <3>1
            <3>3. QED
                  BY <1>1, <1>8, <3>1, <3>2, SeqEqual
      <2>4. QED
            BY <2>1, <2>3 DEF positive, D
<1>9. CASE z = 1 /\ Len(b) > 1
      <2>1. b[1] = 0 /\ b[2] # 0 /\ 2 \in 1 .. Len(b) /\ 1 \in 1 .. Len(b)
            BY <1>1, <1>4, <1>9
      <2>2. b[2] >= HighBit
            <3>1. ~(b[2] < HighBit)
                  BY <1>9, <2>1 DEF excess
            <3>2. b[2] \in Nat
                  BY <1>1, <2>1
            <3>3. QED
                  BY <1>2, <3>1, <3>2
      <2>3. b = <<b[1]>> \o SubSeq(b, 1 + 1, Len(b))
            <3>1. SubSeq(b, 1, Len(b)) = <<b[1]>> \o SubSeq(b, 1 + 1, Len(b))
                  <4>1. 1 \in 1 .. Len(b) /\ Len(b) \in 1 .. Len(b)
                        BY <1>1, <1>9
                  <4>2. QED
                        BY <1>1, <4>1, SubSeqRecursiveFirst
            <3>2. SubSeq(b, 1, Len(b)) = b
                  BY <1>1, SubSeqFull
            <3>3. QED
                  BY <3>1, <3>2
      <2>4. b = <<0>> \o D
            BY <1>5, <1>9, <2>1, <2>3
      <2>5. D # <<>> /\ D[1] = b[2]
            <3>1. /\ Len(D) = Len(b) - 1
                  /\ \A i \in 1 .. Len(b) - (1 + 1) + 1 : D[i] = b[(1 + 1) + i - 1]
                  <4>1. 1 + 1 \in Int /\ Len(b) \in Int /\ \A i \in 1 + 1 .. Len(b) : b[i] \in Byte
                        BY <1>1
                  <4>2. /\ Len(D) = IF 1 + 1 <= Len(b) THEN Len(b) - (1 + 1) + 1 ELSE 0
                        /\ \A i \in 1 .. Len(b) - (1 + 1) + 1 : D[i] = b[(1 + 1) + i - 1]
                        BY <1>5, <1>9, <4>1, SubSeqProperties
                  <4>3. QED
                        BY <1>1, <1>9, <4>2
            <3> DEFINE m == Len(b)
                       k == Len(D)
            <3>2. m \in Nat /\ m > 1 /\ k = m - 1
                  BY <1>1, <1>9, <3>1
            <3> HIDE DEF m, k
            <3>3. 1 \in 1 .. m - (1 + 1) + 1 /\ (1 + 1) + 1 - 1 = 2 /\ k # 0
                  BY <3>2
            <3>4. D[1] = b[2] /\ Len(D) # 0
                  BY <3>1, <3>3 DEF m, k
            <3>5. QED
                  BY <3>4, EmptySeq
      <2>6. QED
            BY <2>2, <2>4, <2>5 DEF positive, D
<1>10. z = 0 \/ (z = 1 /\ Len(b) = 1) \/ (z = 1 /\ Len(b) > 1)
       <2>1. z \in Nat /\ Len(b) \in Nat /\ Len(b) > 0
             BY <1>1, <1>4
       <2>2. z = 0 \/ z = 1
             BY <1>6, <2>1
       <2> DEFINE n == Len(b)
       <2>3. n \in Nat /\ n > 0
             BY <2>1
       <2> HIDE DEF n
       <2>4. n = 1 \/ n > 1
             BY <2>3
       <2>5. QED
             BY <2>2, <2>4 DEF n
<1>11. QED
       BY <1>7, <1>8, <1>9, <1>10

\* A signature on the wire: what is written for r and s.
written(r, s) == <<TagSequence, Len(derInteger(r) \o derInteger(s))>> \o (derInteger(r) \o derInteger(s))

\* t is in s from at on.
Holds(s, at, t) ==
    at > 0 /\ at + Len(t) <= Len(s) + 1 /\ \A i \in 1 .. Len(t) : s[at + i - 1] = t[i]

\* Numbers below the order.
CurveScalar == 0 .. CurveOrder - 1

LEMMA CurveScalarsFit == CurveScalar \subseteq Number32 /\ CurveScalar \subseteq Nat
<1>1. CurveOrder \in Nat /\ CurveOrder <= powerOf(ByteBase, ScalarBytes) /\ powerOf(ByteBase, ScalarBytes) \in Nat
      <2>1. ByteBase \in Nat /\ ScalarBytes \in Nat
            BY ByteIs
      <2>2. powerOf(ByteBase, ScalarBytes) \in Nat
            BY <2>1, PowerSteps
      <2>3. QED
            BY <2>2, ByteIs
<1>2. QED
      BY <1>1 DEF CurveScalar, Number32

\* The bytes of a number on the wire.
LEMMA DerIntegerIs ==
    ASSUME NEW k \in CurveScalar
    PROVE  LET t == derInteger(k)
               b == bodyOf(k)
           IN /\ t \in Bytes /\ Len(t) = Len(b) + 2 /\ t[1] = TagInteger /\ t[2] = Len(b)
              /\ \A i \in 1 .. Len(b) : t[i + 2] = b[i]
              /\ b \in Bytes /\ Len(b) \in 1 .. ScalarBytes + 1 /\ b[1] < HighBit /\ ~excess(b)
              /\ stripped(b) = digitsOf(k) /\ Proper(digitsOf(k)) /\ numberIn(digitsOf(k)) = k
              /\ Len(digitsOf(k)) \in 0 .. ScalarBytes
<1> DEFINE b == bodyOf(k)
           D == digitsOf(k)
           t == derInteger(k)
<1>1. k \in Number32
      BY CurveScalarsFit
<1>2. Proper(D) /\ numberIn(D) = k /\ Len(D) \in 0 .. ScalarBytes
      BY <1>1, DigitsOfNumber
<1>3. b = positive(D)
      BY DEF bodyOf
<1>4. t = <<TagInteger, Len(b)>> \o b
      BY DEF derInteger, positive, bodyOf, digitsOf
<1> HIDE DEF b, D, t
<1>5. b \in Bytes /\ Len(b) \in 1 .. Len(D) + 1 /\ b[1] < HighBit /\ ~excess(b) /\ stripped(b) = D
      BY <1>2, <1>3, PositiveIs
<1>6. /\ ScalarBytes \in Nat /\ HighBit \in Nat /\ 2 * ScalarBytes + 6 < HighBit /\ ByteBase = 2 * HighBit
      /\ TagInteger \in Byte
      BY ByteIs
<1>7. Len(b) \in 1 .. ScalarBytes + 1 /\ Len(b) \in Byte
      BY <1>2, <1>5, <1>6 DEF Byte
<1> DEFINE h == <<TagInteger, Len(b)>>
<1>8. h \in Seq(Byte) /\ Len(h) = 2 /\ h[1] = TagInteger /\ h[2] = Len(b)
      BY <1>6, <1>7
<1>9. b \in Seq(Byte) /\ Len(b) \in Nat
      BY <1>5, BytesTyped
<1> HIDE DEF h
<1>10. /\ t \in Seq(Byte) /\ Len(t) = 2 + Len(b)
       /\ \A i \in 1 .. 2 + Len(b) : t[i] = IF i <= 2 THEN h[i] ELSE b[i - 2]
       BY <1>4, <1>8, <1>9, ConcatProperties DEF h
<1>11. t[1] = TagInteger /\ t[2] = Len(b)
       <2>1. 1 \in 1 .. 2 + Len(b) /\ 2 \in 1 .. 2 + Len(b) /\ 1 <= 2 /\ 2 <= 2
             BY <1>9
       <2>2. t[1] = h[1] /\ t[2] = h[2]
             BY <1>10, <2>1
       <2>3. QED
             BY <1>8, <2>2
<1>12. ASSUME NEW i \in 1 .. Len(b) PROVE t[i + 2] = b[i]
       <2>1. i + 2 \in 1 .. 2 + Len(b) /\ ~(i + 2 <= 2) /\ (i + 2) - 2 = i
             BY <1>9
       <2>2. t[i + 2] = b[(i + 2) - 2]
             BY <1>10, <2>1
       <2>3. QED
             BY <2>1, <2>2
<1>13. t \in Bytes /\ Len(t) = Len(b) + 2
       BY <1>9, <1>10 DEF Bytes
<1>14. QED
       BY <1>2, <1>5, <1>7, <1>11, <1>12, <1>13 DEF b, D, t

\* Where the body of a number is.
LEMMA BodyIsThere ==
    ASSUME NEW k \in CurveScalar, NEW s \in Bytes, NEW at \in Nat, Holds(s, at, derInteger(k))
    PROVE  LET b == bodyOf(k)
           IN /\ at > 0 /\ at + 2 + Len(b) <= Len(s) + 1 /\ s[at] = TagInteger /\ s[at + 1] = Len(b)
              /\ SubSeq(s, at + 2, at + 2 + Len(b) - 1) = b
<1> DEFINE b == bodyOf(k)
           t == derInteger(k)
           r == SubSeq(s, at + 2, at + 2 + Len(b) - 1)
<1>1. /\ Len(t) = Len(b) + 2 /\ t[1] = TagInteger /\ t[2] = Len(b)
      /\ \A i \in 1 .. Len(b) : t[i + 2] = b[i]
      /\ b \in Bytes
      BY DerIntegerIs
<1>2. at > 0 /\ at + Len(t) <= Len(s) + 1 /\ \A i \in 1 .. Len(t) : s[at + i - 1] = t[i]
      BY DEF Holds
<1> HIDE DEF b, t
<1>3. b \in Seq(Byte) /\ Len(b) \in Nat /\ Len(s) \in Nat /\ \A i \in 1 .. Len(s) : s[i] \in Byte
      BY <1>1, BytesTyped
<1>4. s[at] = TagInteger /\ s[at + 1] = Len(b)
      <2>1. 1 \in 1 .. Len(t) /\ 2 \in 1 .. Len(t) /\ at + 1 - 1 = at /\ at + 2 - 1 = at + 1
            BY <1>1, <1>3
      <2>2. s[at + 1 - 1] = t[1] /\ s[at + 2 - 1] = t[2]
            BY <1>2, <2>1
      <2>3. QED
            BY <1>1, <2>1, <2>2
<1>5. at + 2 + Len(b) <= Len(s) + 1
      BY <1>1, <1>2, <1>3
<1>6. r \in Seq(Byte) /\ Len(r) = Len(b) /\ \A i \in 1 .. Len(b) : r[i] = s[at + 1 + i]
      <2> DEFINE m == at + 2
                 n == at + 2 + Len(b) - 1
      <2>1. m \in Int /\ n \in Int /\ (\A i \in m .. n : i \in 1 .. Len(s)) /\ n - m + 1 = Len(b)
            BY <1>2, <1>3, <1>5
      <2>2. \A i \in m .. n : s[i] \in Byte
            BY <1>3, <2>1
      <2>3. /\ r \in Seq(Byte) /\ Len(r) = IF m <= n THEN n - m + 1 ELSE 0
            /\ \A i \in 1 .. n - m + 1 : r[i] = s[m + i - 1]
            <3> HIDE DEF m, n
            <3>1. /\ SubSeq(s, m, n) \in Seq(Byte) /\ Len(SubSeq(s, m, n)) = IF m <= n THEN n - m + 1 ELSE 0
                  /\ \A i \in 1 .. n - m + 1 : SubSeq(s, m, n)[i] = s[m + i - 1]
                  BY <2>1, <2>2, SubSeqProperties
            <3>2. QED
                  BY <3>1 DEF m, n
      <2>4. Len(r) = Len(b)
            <3> HIDE DEF r
            <3>1. m <= n \/ (~(m <= n) /\ Len(b) = 0)
                  BY <1>3
            <3>2. QED
                  BY <2>1, <2>3, <3>1
      <2>5. ASSUME NEW i \in 1 .. Len(b) PROVE m + i - 1 = at + 1 + i
            BY <1>3
      <2>6. \A i \in 1 .. Len(b) : r[i] = s[m + i - 1]
            <3> HIDE DEF r, m, n
            <3>1. QED
                  BY <2>1, <2>3
      <2> HIDE DEF r
      <2>7. \A i \in 1 .. Len(b) : r[i] = s[at + 1 + i]
            BY <2>5, <2>6
      <2>8. QED
            BY <2>3, <2>4, <2>7
<1>7. r = b
      <2> HIDE DEF r
      <2>1. ASSUME NEW i \in 1 .. Len(b) PROVE r[i] = b[i]
            <3>1. i + 2 \in 1 .. Len(t) /\ at + (i + 2) - 1 = at + 1 + i
                  BY <1>1, <1>3
            <3>2. s[at + (i + 2) - 1] = t[i + 2]
                  BY <1>2, <3>1
            <3>3. QED
                  BY <1>1, <1>6, <3>1, <3>2
      <2>2. QED
            BY <1>3, <1>6, <2>1, SeqEqual
<1>8. QED
      BY <1>2, <1>4, <1>5, <1>7 DEF b

\* The strict reader reads what was written for a number.
LEMMA StrictReads ==
    ASSUME NEW k \in CurveScalar, NEW s \in Bytes, NEW at \in Nat, Holds(s, at, derInteger(k))
    PROVE  der_parse_integer(s, at, Len(s) + 1) = Gives([v |-> k, at |-> at + Len(derInteger(k))])
<1> DEFINE b == bodyOf(k)
           D == digitsOf(k)
           end == Len(s) + 1
           n == Len(b)
<1>1. /\ Len(derInteger(k)) = n + 2 /\ n \in 1 .. ScalarBytes + 1 /\ b[1] < HighBit /\ ~excess(b)
      /\ b \in Bytes /\ stripped(b) = D /\ numberIn(D) = k /\ Len(D) \in 0 .. ScalarBytes
      BY DerIntegerIs
<1>2. /\ at > 0 /\ at + 2 + n <= Len(s) + 1 /\ s[at] = TagInteger /\ s[at + 1] = n
      /\ SubSeq(s, at + 2, at + 2 + n - 1) = b
      BY BodyIsThere
<1> HIDE DEF b, D, n
<1>3. /\ HighBit \in Nat /\ ByteBase = 2 * HighBit /\ ScalarBytes \in Nat /\ 2 * ScalarBytes + 6 < HighBit
      /\ CurveOrder \in Nat
      BY ByteIs
<1>4. Len(s) \in Nat /\ b[1] \in Nat
      <2>1. 1 \in 1 .. Len(b)
            BY <1>1 DEF n
      <2>2. QED
            BY <1>1, <2>1, BytesTyped
<1>5. der_read_len(s, at + 1, end) = Gives([len |-> n, at |-> (at + 1) + 1])
      <2>1. ~(at + 1 >= end) /\ ~(n = ByteBase - 1 \/ n = HighBit) /\ n < HighBit
            BY <1>1, <1>2, <1>3, <1>4
      <2>2. QED
            BY <1>2, <2>1 DEF der_read_len
<1>6. (at + 1) + 1 = at + 2
      OBVIOUS
<1>7. ~scalar_set_b32(k).overflow
      <2>1. ~(k >= CurveOrder)
            BY <1>3 DEF CurveScalar
      <2>2. QED
            BY <2>1 DEF scalar_set_b32
<1>8. derNumber(b[1] >= HighBit, stripped(b)) = k
      <2>1. ~(b[1] >= HighBit) /\ ~(Len(D) > ScalarBytes)
            BY <1>1, <1>3, <1>4
      <2>2. QED
            BY <1>1, <1>7, <2>1 DEF derNumber
<1>9. derBytes(b, at + 2 + n) = Gives([v |-> k, at |-> at + 2 + n])
      BY <1>1, <1>8 DEF derBytes
<1> DEFINE L == Gives([len |-> n, at |-> at + 2])
<1>10. derContent(s, L, end) = Gives([v |-> k, at |-> at + 2 + n])
       <2>1. L.ok /\ L.v.len = n /\ L.v.at = at + 2
             BY DEF Gives
       <2>2. ~(n <= 0) /\ ~((at + 2) + n > end)
             BY <1>1, <1>2, <1>3, <1>4
       <2> HIDE DEF L
       <2>3. derContent(s, L, end) = derBytes(SubSeq(s, at + 2, at + 2 + n - 1), at + 2 + n)
             BY <2>1, <2>2 DEF derContent
       <2>4. QED
             BY <1>2, <1>9, <2>3
<1>11. der_parse_integer(s, at, end) = derContent(s, der_read_len(s, at + 1, end), end)
       <2>1. ~(at >= end)
             BY <1>1, <1>2, <1>3, <1>4
       <2>2. QED
             BY <1>2, <2>1 DEF der_parse_integer
<1>12. at + 2 + n = at + Len(derInteger(k))
       BY <1>1, <1>3
<1>13. QED
       BY <1>5, <1>6, <1>10, <1>11, <1>12

\* So does the lax one.
LEMMA LaxReads ==
    ASSUME NEW k \in CurveScalar, NEW s \in Bytes, NEW at \in Nat, Holds(s, at, derInteger(k))
    PROVE  laxInteger(s, at) = Gives([digits |-> digitsOf(k), at |-> at + Len(derInteger(k))])
<1> DEFINE b == bodyOf(k)
           D == digitsOf(k)
           n == Len(b)
<1>1. /\ Len(derInteger(k)) = n + 2 /\ n \in 1 .. ScalarBytes + 1 /\ stripped(b) = D
      BY DerIntegerIs
<1>2. /\ at > 0 /\ at + 2 + n <= Len(s) + 1 /\ s[at] = TagInteger /\ s[at + 1] = n
      /\ SubSeq(s, at + 2, at + 2 + n - 1) = b
      BY BodyIsThere
<1> HIDE DEF b, D, n
<1>3. HighBit \in Nat /\ ScalarBytes \in Nat /\ 2 * ScalarBytes + 6 < HighBit /\ Len(s) \in Nat
      BY ByteIs, BytesTyped
<1>4. laxLength(s, at + 1) = Gives([len |-> n, at |-> (at + 1) + 1])
      <2>1. ~(at + 1 > Len(s)) /\ n < HighBit
            BY <1>1, <1>2, <1>3
      <2>2. QED
            BY <1>2, <2>1 DEF laxLength
<1>5. (at + 1) + 1 = at + 2 /\ at + 2 + n = at + Len(derInteger(k))
      BY <1>1, <1>3
<1> DEFINE L == Gives([len |-> n, at |-> at + 2])
<1>6. laxContent(s, L) = Gives([digits |-> D, at |-> at + 2 + n])
      <2>1. L.ok /\ L.v.len = n /\ L.v.at = at + 2
            BY DEF Gives
      <2>2. ~(n > Len(s) - ((at + 2) - 1))
            BY <1>1, <1>2, <1>3
      <2> HIDE DEF L
      <2>3. laxContent(s, L) = Gives([digits |-> stripped(SubSeq(s, at + 2, at + 2 + n - 1)), at |-> at + 2 + n])
            BY <2>1, <2>2 DEF laxContent
      <2>4. QED
            BY <1>1, <1>2, <2>3
<1>7. laxInteger(s, at) = laxContent(s, laxLength(s, at + 1))
      <2>1. ~(at > Len(s))
            BY <1>1, <1>2, <1>3
      <2>2. QED
            BY <1>2, <2>1 DEF laxInteger
<1>8. QED
      BY <1>4, <1>5, <1>6, <1>7 DEF D

\* A length that was read; a short one takes one byte.
LEMMA LengthRead ==
    ASSUME NEW s \in Bytes, NEW at \in Nat, at > 0, der_read_len(s, at, Len(s) + 1).ok
    PROVE  LET L == der_read_len(s, at, Len(s) + 1).v
           IN /\ at <= Len(s) /\ L.at \in Nat /\ L.at > at /\ L.len \in Nat
              /\ L.len < HighBit => L.at = at + 1 /\ s[at] = L.len
<1> DEFINE end == Len(s) + 1
           b1 == s[at]
           n == b1 - HighBit
           value(i) == numberIn(SubSeq(s, at + 1, at + i))
           R == der_read_len(s, at, end)
<1>1. Len(s) \in Nat /\ s \in Seq(Nat) /\ \A i \in 1 .. Len(s) : s[i] \in Nat
      BY BytesTyped
<1>2. HighBit \in Nat
      BY ByteIs
<1>3. R = IF at >= end THEN Fails
          ELSE IF b1 = ByteBase - 1 \/ b1 = HighBit THEN Fails
          ELSE IF b1 < HighBit THEN Gives([len |-> b1, at |-> at + 1])
          ELSE IF n > end - (at + 1) \/ s[at + 1] = 0 \/ n > SizeBytes THEN Fails
          ELSE IF \E i \in 1 .. n : value(i) + (n - i + 1) > end - (at + i) THEN Fails
          ELSE IF value(n) < HighBit THEN Fails
          ELSE Gives([len |-> value(n), at |-> at + 1 + n])
      BY DEF der_read_len
<1>4. R.ok
      OBVIOUS
<1> HIDE DEF R, value, end, n
<1>5. ~Fails.ok
      BY DEF Fails
<1>6. /\ ~(at >= end) /\ ~(b1 = ByteBase - 1 \/ b1 = HighBit)
      /\ \/ b1 < HighBit /\ R = Gives([len |-> b1, at |-> at + 1])
         \/ /\ ~(b1 < HighBit) /\ ~(n > end - (at + 1) \/ s[at + 1] = 0 \/ n > SizeBytes)
            /\ ~(value(n) < HighBit) /\ R = Gives([len |-> value(n), at |-> at + 1 + n])
      BY <1>3, <1>4, <1>5
<1>7. at <= Len(s) /\ at \in 1 .. Len(s) /\ b1 \in Nat
      <2>1. at <= Len(s)
            BY <1>1, <1>6 DEF end
      <2>2. at \in 1 .. Len(s)
            BY <1>1, <2>1
      <2>3. QED
            BY <1>1, <2>1, <2>2
<1>8. CASE b1 < HighBit /\ R = Gives([len |-> b1, at |-> at + 1])
      <2>1. R.v.len = b1 /\ R.v.at = at + 1
            BY <1>8 DEF Gives
      <2>2. QED
            BY <1>7, <1>8, <2>1 DEF R, end
<1>9. CASE /\ ~(b1 < HighBit) /\ ~(n > end - (at + 1) \/ s[at + 1] = 0 \/ n > SizeBytes)
           /\ ~(value(n) < HighBit) /\ R = Gives([len |-> value(n), at |-> at + 1 + n])
      <2>1. n \in Nat
            BY <1>2, <1>7, <1>9 DEF n
      <2>2. at + 1 \in 1 .. Len(s) + 1 /\ at + n \in (at + 1) - 1 .. Len(s)
            BY <1>1, <1>7, <1>9, <2>1 DEF end
      <2>3. value(n) \in Nat
            <3>1. span(s, at + 1, at + n) \in Nat
                  BY <1>1, <2>2, SpanIs
            <3>2. QED
                  BY <3>1 DEF span, value
      <2>4. R.v.len = value(n) /\ R.v.at = at + 1 + n
            BY <1>9 DEF Gives
      <2>5. /\ at <= Len(s) /\ R.v.at \in Nat /\ R.v.at > at /\ R.v.len \in Nat /\ ~(R.v.len < HighBit)
            BY <1>7, <1>9, <2>1, <2>3, <2>4
      <2>6. QED
            BY <2>5 DEF R, end
<1>10. QED
       BY <1>6, <1>8, <1>9

\* Whatever the strict reader reads as a number other than 0 was written for it.
LEMMA IntegerRead ==
    ASSUME NEW s \in Bytes, NEW at \in Nat, at > 0, der_parse_integer(s, at, Len(s) + 1).ok
    PROVE  LET R == der_parse_integer(s, at, Len(s) + 1).v
           IN /\ R.v \in CurveScalar /\ R.at \in Nat /\ R.at > at /\ R.at <= Len(s) + 1
              /\ R.v # 0 => Holds(s, at, derInteger(R.v)) /\ R.at = at + Len(derInteger(R.v))
<1> DEFINE end == Len(s) + 1
           P == der_parse_integer(s, at, end)
           Q == der_read_len(s, at + 1, end)
           L == Q.v
           len == L.len
           from == L.at
           b == SubSeq(s, from, from + len - 1)
           D == stripped(b)
<1>1. ~Fails.ok
      BY DEF Fails
<1>2. P = IF at >= end THEN Fails
          ELSE IF s[at] # TagInteger THEN Fails ELSE derContent(s, Q, end)
      BY DEF der_parse_integer
<1>3. P.ok
      OBVIOUS
<1>4. derContent(s, Q, end) = IF ~Q.ok THEN Fails
                              ELSE IF len <= 0 \/ from + len > end THEN Fails
                              ELSE derBytes(b, from + len)
      BY DEF derContent
<1>5. derBytes(b, from + len)
         = IF excess(b) THEN Fails ELSE Gives([v |-> derNumber(b[1] >= HighBit, D), at |-> from + len])
      BY DEF derBytes
<1> HIDE DEF P, Q, L, len, from, b, D, end
<1>6. /\ ~(at >= end) /\ s[at] = TagInteger /\ Q.ok /\ ~(len <= 0) /\ ~(from + len > end) /\ ~excess(b)
      /\ P = Gives([v |-> derNumber(b[1] >= HighBit, D), at |-> from + len])
      BY <1>1, <1>2, <1>3, <1>4, <1>5
<1>7. P.v.v = derNumber(b[1] >= HighBit, D) /\ P.v.at = from + len
      BY <1>6 DEF Gives
<1>8. /\ at + 1 <= Len(s) /\ from \in Nat /\ from > at + 1 /\ len \in Nat
      /\ len < HighBit => from = (at + 1) + 1 /\ s[at + 1] = len
      <2>1. at + 1 \in Nat /\ at + 1 > 0
            OBVIOUS
      <2>2. der_read_len(s, at + 1, Len(s) + 1).ok
            BY <1>6 DEF Q, end
      <2>3. QED
            BY <2>1, <2>2, LengthRead DEF from, len, L, Q, end
<1>9. Len(s) \in Nat /\ s \in Seq(Byte) /\ \A i \in 1 .. Len(s) : s[i] \in Byte
      BY BytesTyped
<1>10. len > 0 /\ from + len <= Len(s) + 1 /\ at < from + len
       BY <1>6, <1>8, <1>9 DEF end
<1>11. b \in Bytes /\ Len(b) = len /\ \A i \in 1 .. len : b[i] = s[from + i - 1]
       <2> DEFINE m == from + len - 1
       <2>1. from \in Int /\ m \in Int /\ from <= m /\ m - from + 1 = len
             BY <1>8, <1>10
       <2>2. \A i \in from .. m : s[i] \in Byte
             BY <1>8, <1>9, <1>10
       <2> HIDE DEF m
       <2>3. /\ SubSeq(s, from, m) \in Seq(Byte)
             /\ Len(SubSeq(s, from, m)) = IF from <= m THEN m - from + 1 ELSE 0
             /\ \A i \in 1 .. m - from + 1 : SubSeq(s, from, m)[i] = s[from + i - 1]
             BY <2>1, <2>2, SubSeqProperties
       <2>4. b = SubSeq(s, from, m)
             BY DEF b, m
       <2>5. b \in Seq(Byte) /\ Len(b) = len /\ \A i \in 1 .. len : b[i] = s[from + i - 1]
             BY <2>1, <2>3, <2>4
       <2>6. QED
             BY <2>5 DEF Bytes
<1>12. Proper(D) /\ numberIn(D) \in Nat
       <2>1. Proper(D)
             BY <1>11, StrippedIs DEF D
       <2>2. QED
             BY <2>1, ProperSize
<1>13. CurveOrder \in Nat /\ CurveOrder > 3 /\ HighBit \in Nat /\ ScalarBytes \in Nat /\ 2 * ScalarBytes + 6 < HighBit
       BY ByteIs
<1> DEFINE v == derNumber(b[1] >= HighBit, D)
<1>14. v \in CurveScalar /\ (v # 0 => ~(b[1] >= HighBit) /\ ~(Len(D) > ScalarBytes) /\ v = numberIn(D))
       <2>1. v = IF b[1] >= HighBit \/ Len(D) > ScalarBytes THEN 0
                 ELSE IF scalar_set_b32(numberIn(D)).overflow THEN 0 ELSE numberIn(D)
             BY DEF derNumber
       <2>2. scalar_set_b32(numberIn(D)).overflow <=> numberIn(D) >= CurveOrder
             BY DEF scalar_set_b32
       <2>3. 0 \in CurveScalar
             BY <1>13 DEF CurveScalar
       <2>4. ~(numberIn(D) >= CurveOrder) => numberIn(D) \in CurveScalar
             BY <1>12, <1>13 DEF CurveScalar
       <2> HIDE DEF v
       <2>5. QED
             BY <2>1, <2>2, <2>3, <2>4
<1>15. ASSUME v # 0 PROVE Holds(s, at, derInteger(v)) /\ from + len = at + Len(derInteger(v))
       <2>1. ~(b[1] >= HighBit) /\ ~(Len(D) > ScalarBytes) /\ v = numberIn(D)
             BY <1>14, <1>15
       <2>2. Len(D) \in Nat /\ b[1] \in Nat /\ 1 \in 1 .. Len(b)
             <3>1. Len(D) \in Nat
                   BY <1>12, ProperSize
             <3>2. 1 \in 1 .. Len(b)
                   BY <1>8, <1>10, <1>11
             <3>3. b[1] \in Nat
                   BY <1>11, <3>2, BytesTyped
             <3>4. QED
                   BY <3>1, <3>2, <3>3
       <2>3. digitsOf(v) = D
             <3>1. Len(D) <= ScalarBytes
                   BY <1>13, <2>1, <2>2
             <3>2. digitsOf(numberIn(D)) = D
                   BY <1>12, <3>1, NumberOfDigits
             <3>3. QED
                   BY <2>1, <3>2
       <2>4. bodyOf(v) = b
             <3>1. b[1] < HighBit
                   BY <1>13, <2>1, <2>2
             <3>2. Len(b) > 0
                   BY <1>10, <1>11
             <3>3. positive(D) = b
                   BY <1>6, <1>11, <3>1, <3>2, PositiveOnly DEF D
             <3>4. QED
                   BY <2>3, <3>3 DEF bodyOf
       <2> HIDE DEF v
       <2> DEFINE t == derInteger(v)
       <2>5. /\ Len(t) = Len(b) + 2 /\ t[1] = TagInteger /\ t[2] = Len(b)
             /\ \A i \in 1 .. Len(b) : t[i + 2] = b[i]
             /\ Len(b) \in 1 .. ScalarBytes + 1
             <3>1. v \in CurveScalar
                   BY <1>14
             <3>2. QED
                   BY <2>4, <3>1, DerIntegerIs
       <2> HIDE DEF t
       <2>6. len < HighBit
             BY <1>11, <1>13, <2>5
       <2>7. from = at + 2 /\ s[at + 1] = len
             BY <1>8, <2>6
       <2>8. from + len = at + Len(t)
             BY <1>8, <1>11, <2>5, <2>7
       <2>9. at + Len(t) <= Len(s) + 1
             BY <1>10, <2>8
       <2>10. ASSUME NEW i \in 1 .. Len(t) PROVE s[at + i - 1] = t[i]
              <3>1. CASE i = 1
                    <4>1. at + 1 - 1 = at
                          OBVIOUS
                    <4>2. QED
                          BY <1>6, <2>5, <3>1, <4>1
              <3>2. CASE i = 2
                    <4>1. at + 2 - 1 = at + 1
                          OBVIOUS
                    <4>2. QED
                          BY <1>11, <2>5, <2>7, <3>2, <4>1
              <3>3. CASE i # 1 /\ i # 2
                    <4> DEFINE j == i - 2
                    <4>1. j \in 1 .. len /\ j + 2 = i /\ at + i - 1 = from + j - 1
                          BY <1>8, <1>11, <2>5, <2>7, <3>3
                    <4> HIDE DEF j
                    <4>2. b[j] = s[from + j - 1] /\ t[j + 2] = b[j]
                          BY <1>11, <2>5, <4>1
                    <4>3. QED
                          BY <4>1, <4>2
              <3>4. QED
                    BY <3>1, <3>2, <3>3
       <2>11. Holds(s, at, t)
              BY <2>9, <2>10 DEF Holds
       <2>12. QED
              BY <2>8, <2>11 DEF t
<1>16. v \in CurveScalar /\ P.v.v = v /\ P.v.at \in Nat /\ P.v.at > at /\ P.v.at <= Len(s) + 1
       BY <1>7, <1>8, <1>10, <1>14
<1> HIDE DEF v
<1>17. P.v.v # 0 => Holds(s, at, derInteger(P.v.v)) /\ P.v.at = at + Len(derInteger(P.v.v))
       BY <1>7, <1>15, <1>16
<1>18. QED
       BY <1>16, <1>17 DEF P, end

\* What is written for two numbers: the head, and both of them in it.
LEMMA WrittenIs ==
    ASSUME NEW r \in CurveScalar, NEW s \in CurveScalar
    PROVE  LET w == written(r, s)
               lr == Len(derInteger(r))
               ls == Len(derInteger(s))
           IN /\ w \in Bytes /\ Len(w) = 2 + lr + ls /\ w[1] = TagSequence /\ w[2] = lr + ls
              /\ lr \in 3 .. ScalarBytes + 3 /\ ls \in 3 .. ScalarBytes + 3 /\ lr + ls < HighBit
              /\ Holds(w, 3, derInteger(r)) /\ Holds(w, 3 + lr, derInteger(s))
<1> DEFINE w == written(r, s)
           a == derInteger(r)
           b == derInteger(s)
           c == a \o b
           lr == Len(a)
           ls == Len(b)
           h == <<TagSequence, Len(c)>>
<1>1. w = h \o c
      BY DEF written
<1>2. a \in Bytes /\ lr \in 3 .. ScalarBytes + 3
      <2>1. a \in Bytes /\ Len(a) = Len(bodyOf(r)) + 2 /\ Len(bodyOf(r)) \in 1 .. ScalarBytes + 1
            BY DerIntegerIs
      <2>2. QED
            BY <2>1, ByteIs
<1>3. b \in Bytes /\ ls \in 3 .. ScalarBytes + 3
      <2>1. b \in Bytes /\ Len(b) = Len(bodyOf(s)) + 2 /\ Len(bodyOf(s)) \in 1 .. ScalarBytes + 1
            BY DerIntegerIs
      <2>2. QED
            BY <2>1, ByteIs
<1> HIDE DEF w, a, b
<1>4. /\ HighBit \in Nat /\ ByteBase = 2 * HighBit /\ ScalarBytes \in Nat /\ 2 * ScalarBytes + 6 < HighBit
      /\ TagSequence \in Byte
      BY ByteIs
<1>5. a \in Seq(Byte) /\ b \in Seq(Byte) /\ lr \in Nat /\ ls \in Nat
      BY <1>2, <1>3, BytesTyped
<1>6. /\ c \in Seq(Byte) /\ Len(c) = lr + ls
      /\ \A i \in 1 .. lr + ls : c[i] = IF i <= lr THEN a[i] ELSE b[i - lr]
      BY <1>5, ConcatProperties
<1> HIDE DEF c, lr, ls
<1>7. Len(c) \in Byte /\ lr + ls < HighBit
      <2>1. Len(c) = lr + ls
            BY <1>6
      <2>2. lr \in 3 .. ScalarBytes + 3 /\ ls \in 3 .. ScalarBytes + 3
            BY <1>2, <1>3
      <2>3. lr + ls \in Nat /\ lr + ls < HighBit
            BY <1>4, <2>2
      <2>4. lr + ls \in Byte
            BY <1>4, <2>3 DEF Byte
      <2>5. QED
            BY <2>1, <2>3, <2>4
<1>8. h \in Seq(Byte) /\ Len(h) = 2 /\ h[1] = TagSequence /\ h[2] = Len(c)
      BY <1>4, <1>7
<1> HIDE DEF h
<1>9. /\ w \in Seq(Byte) /\ Len(w) = 2 + Len(c)
      /\ \A i \in 1 .. 2 + Len(c) : w[i] = IF i <= 2 THEN h[i] ELSE c[i - 2]
      BY <1>1, <1>6, <1>8, ConcatProperties DEF h
<1>10. w \in Bytes /\ Len(w) = 2 + lr + ls
       BY <1>5, <1>6, <1>9 DEF Bytes
<1>11. w[1] = TagSequence /\ w[2] = lr + ls
       <2>1. 1 \in 1 .. 2 + Len(c) /\ 2 \in 1 .. 2 + Len(c) /\ 1 <= 2 /\ 2 <= 2
             BY <1>5, <1>6
       <2>2. w[1] = h[1] /\ w[2] = h[2]
             BY <1>9, <2>1
       <2>3. QED
             BY <1>6, <1>8, <2>2
<1>12. ASSUME NEW i \in 1 .. lr + ls PROVE w[i + 2] = IF i <= lr THEN a[i] ELSE b[i - lr]
       <2>1. i + 2 \in 1 .. 2 + Len(c) /\ ~(i + 2 <= 2) /\ (i + 2) - 2 = i
             BY <1>5, <1>6
       <2>2. w[i + 2] = c[(i + 2) - 2]
             BY <1>9, <2>1
       <2>3. QED
             BY <1>6, <2>1, <2>2
<1>13. Holds(w, 3, a)
       <2>1. 3 > 0 /\ 3 + Len(a) <= Len(w) + 1
             BY <1>5, <1>10 DEF lr
       <2>2. ASSUME NEW i \in 1 .. Len(a) PROVE w[3 + i - 1] = a[i]
             <3>1. i \in 1 .. lr + ls /\ i <= lr /\ 3 + i - 1 = i + 2
                   BY <1>5, <2>2 DEF lr
             <3>2. QED
                   BY <1>12, <3>1
       <2>3. QED
             BY <2>1, <2>2 DEF Holds
<1>14. Holds(w, 3 + lr, b)
       <2>1. 3 + lr > 0 /\ 3 + lr + Len(b) <= Len(w) + 1
             BY <1>5, <1>10 DEF ls
       <2>2. ASSUME NEW i \in 1 .. Len(b) PROVE w[3 + lr + i - 1] = b[i]
             <3> DEFINE j == lr + i
             <3>1. j \in 1 .. lr + ls /\ ~(j <= lr) /\ 3 + lr + i - 1 = j + 2 /\ j - lr = i
                   BY <1>5, <2>2 DEF ls
             <3> HIDE DEF j
             <3>2. QED
                   BY <1>12, <3>1
       <2>3. QED
             BY <2>1, <2>2 DEF Holds
<1>15. lr \in 3 .. ScalarBytes + 3 /\ ls \in 3 .. ScalarBytes + 3
       BY <1>2, <1>3 DEF lr, ls
<1>16. QED
       BY <1>7, <1>10, <1>11, <1>13, <1>14, <1>15 DEF w, a, b, lr, ls

\* The two readers give back what was written.
LEMMA WrittenIsRead ==
    ASSUME NEW r \in CurveScalar, NEW s \in CurveScalar
    PROVE  /\ ecdsa_sig_parse(written(r, s)) = Gives([r |-> r, s |-> s])
           /\ ecdsa_signature_parse_der_lax(written(r, s)) = [ret |-> TRUE, sig |-> [r |-> r, s |-> s]]
<1> DEFINE w == written(r, s)
           a == derInteger(r)
           b == derInteger(s)
           lr == Len(a)
           ls == Len(b)
<1>1. /\ w \in Bytes /\ Len(w) = 2 + lr + ls /\ w[1] = TagSequence /\ w[2] = lr + ls
      /\ lr \in 3 .. ScalarBytes + 3 /\ ls \in 3 .. ScalarBytes + 3 /\ lr + ls < HighBit
      /\ Holds(w, 3, a) /\ Holds(w, 3 + lr, b)
      BY WrittenIs
<1> HIDE DEF w, a, b, lr, ls
<1>2. /\ HighBit \in Nat /\ ByteBase = 2 * HighBit /\ ScalarBytes \in Nat /\ CurveOrder \in Nat
      BY ByteIs
<1>3. lr \in Nat /\ ls \in Nat /\ lr > 0 /\ ls > 0 /\ 3 \in Nat /\ 3 + lr \in Nat
      BY <1>1, <1>2
<1>4. w # <<>>
      BY <1>1, <1>3
<1> DEFINE end == Len(w) + 1
<1>5. end = 3 + lr + ls
      BY <1>1, <1>3
<1>6. der_parse_integer(w, 3, end) = Gives([v |-> r, at |-> 3 + lr])
      BY <1>1, StrictReads DEF a, lr
<1>7. der_parse_integer(w, 3 + lr, end) = Gives([v |-> s, at |-> 3 + lr + ls])
      BY <1>1, <1>3, StrictReads DEF b, ls
<1>8. laxInteger(w, 3) = Gives([digits |-> digitsOf(r), at |-> 3 + lr])
      BY <1>1, LaxReads DEF a, lr
<1>9. laxInteger(w, 3 + lr) = Gives([digits |-> digitsOf(s), at |-> 3 + lr + ls])
      BY <1>1, <1>3, LaxReads DEF b, ls
<1>10. der_read_len(w, 2, end) = Gives([len |-> lr + ls, at |-> 3])
       <2> HIDE DEF end
       <2>1. ~(2 >= end) /\ ~(lr + ls = ByteBase - 1 \/ lr + ls = HighBit) /\ 2 + 1 = 3
             BY <1>1, <1>2, <1>3, <1>5
       <2>2. QED
             BY <1>1, <2>1 DEF der_read_len
<1>11. ecdsa_sig_parse(w) = Gives([r |-> r, s |-> s])
       <2> DEFINE L == Gives([len |-> lr + ls, at |-> 3])
                  R == Gives([v |-> r, at |-> 3 + lr])
                  T == Gives([v |-> s, at |-> 3 + lr + ls])
       <2>1. /\ L.ok /\ L.v.len = lr + ls /\ L.v.at = 3
             /\ R.ok /\ R.v.v = r /\ R.v.at = 3 + lr
             /\ T.ok /\ T.v.v = s /\ T.v.at = 3 + lr + ls
             BY DEF Gives
       <2>2. 3 + (lr + ls) = end
             BY <1>3, <1>5
       <2>3. ecdsa_sig_parse(w) = derSequence(w, der_read_len(w, 2, end), end)
             BY <1>1, <1>4 DEF ecdsa_sig_parse
       <2> HIDE DEF L, R, T, end
       <2>4. derSequence(w, L, end) = derAfterFirst(w, der_parse_integer(w, 3, end), end)
             BY <2>1, <2>2 DEF derSequence
       <2>5. derAfterFirst(w, R, end) = derPair(R, der_parse_integer(w, 3 + lr, end), end)
             BY <2>1 DEF derAfterFirst
       <2>6. derPair(R, T, end) = Gives([r |-> r, s |-> s])
             BY <1>5, <2>1 DEF derPair
       <2>7. QED
             BY <1>6, <1>7, <1>10, <2>3, <2>4, <2>5, <2>6 DEF L, R, T
<1>12. ecdsa_signature_parse_der_lax(w) = [ret |-> TRUE, sig |-> [r |-> r, s |-> s]]
       <2> DEFINE R == Gives([digits |-> digitsOf(r), at |-> 3 + lr])
                  T == Gives([digits |-> digitsOf(s), at |-> 3 + lr + ls])
       <2>1. /\ R.ok /\ R.v.digits = digitsOf(r) /\ R.v.at = 3 + lr
             /\ T.ok /\ T.v.digits = digitsOf(s) /\ T.v.at = 3 + lr + ls
             BY DEF Gives
       <2> HIDE DEF R, T
       <2>2. ASSUME NEW k \in CurveScalar
             PROVE  ~(Len(digitsOf(k)) > ScalarBytes) /\ numberIn(digitsOf(k)) = k /\ ~scalar_set_b32(k).overflow
             <3>1. numberIn(digitsOf(k)) = k /\ Len(digitsOf(k)) \in 0 .. ScalarBytes
                   BY DerIntegerIs
             <3>2. ~(k >= CurveOrder)
                   BY <1>2 DEF CurveScalar
             <3>3. ~scalar_set_b32(k).overflow
                   BY <3>2 DEF scalar_set_b32
             <3>4. QED
                   BY <1>2, <3>1, <3>3
       <2>3. ecdsa_signature_parse_compact(r, s) = Gives([r |-> r, s |-> s])
             BY <2>2 DEF ecdsa_signature_parse_compact
       <2>4. orZeros(Gives([r |-> r, s |-> s])) = [r |-> r, s |-> s]
             BY DEF orZeros, Gives
       <2>5. laxPair(R, T) = [ret |-> TRUE, sig |-> [r |-> r, s |-> s]]
             <3>1. ~(Len(R.v.digits) > ScalarBytes \/ Len(T.v.digits) > ScalarBytes)
                   /\ numberIn(R.v.digits) = r /\ numberIn(T.v.digits) = s
                   BY <2>1, <2>2
             <3>2. QED
                   BY <2>1, <2>3, <2>4, <3>1 DEF laxPair
       <2>6. laxAfterFirst(w, R) = laxPair(R, laxInteger(w, 3 + lr))
             BY <2>1 DEF laxAfterFirst
       <2>7. ecdsa_signature_parse_der_lax(w) = laxAfterFirst(w, laxInteger(w, 3 + 0))
             <3>1. ~(Len(w) < 2) /\ w[2] < HighBit /\ ~(w[1] # TagSequence \/ 2 + 0 > Len(w))
                   BY <1>1, <1>3
             <3>2. QED
                   BY <3>1 DEF ecdsa_signature_parse_der_lax
       <2>8. 3 + 0 = 3
             OBVIOUS
       <2>9. QED
             BY <1>8, <1>9, <2>5, <2>6, <2>7, <2>8 DEF R, T
<1>13. QED
       BY <1>11, <1>12 DEF w

\* What the strict reader takes for two numbers other than 0 was written for them.
LEMMA ReadWasWritten ==
    ASSUME NEW x \in Bytes, ecdsa_sig_parse(x).ok
    PROVE  LET sig == ecdsa_sig_parse(x).v
           IN /\ sig = [r |-> sig.r, s |-> sig.s] /\ sig.r \in CurveScalar /\ sig.s \in CurveScalar
              /\ sig.r # 0 /\ sig.s # 0 => x = written(sig.r, sig.s)
<1> DEFINE end == Len(x) + 1
           Q == der_read_len(x, 2, end)
           L == Q.v
           from == L.at
           P == der_parse_integer(x, from, end)
           next == P.v.at
           T == der_parse_integer(x, next, end)
           S == ecdsa_sig_parse(x)
<1>1. ~Fails.ok
      BY DEF Fails
<1>2. S = IF x = <<>> THEN Fails ELSE IF x[1] # TagSequence THEN Fails ELSE derSequence(x, Q, end)
      BY DEF ecdsa_sig_parse
<1>3. derSequence(x, Q, end) = IF ~Q.ok THEN Fails ELSE IF from + L.len # end THEN Fails
                               ELSE derAfterFirst(x, P, end)
      BY DEF derSequence
<1>4. derAfterFirst(x, P, end) = IF ~P.ok THEN Fails ELSE derPair(P, T, end)
      BY DEF derAfterFirst
<1>5. derPair(P, T, end) = IF ~T.ok THEN Fails ELSE IF T.v.at # end THEN Fails
                           ELSE Gives([r |-> P.v.v, s |-> T.v.v])
      BY DEF derPair
<1>6. S.ok
      OBVIOUS
<1> DEFINE r == P.v.v
           s == T.v.v
           len == L.len
<1> HIDE DEF Q, L, from, P, next, T, S, end, len
<1>7. /\ x[1] = TagSequence /\ Q.ok /\ from + len = end /\ P.ok /\ T.ok /\ T.v.at = end
      /\ S = Gives([r |-> r, s |-> s])
      BY <1>1, <1>2, <1>3, <1>4, <1>5, <1>6 DEF len
<1>8. S.v = [r |-> r, s |-> s] /\ S.v.r = r /\ S.v.s = s
      <2> HIDE DEF r, s
      <2>1. QED
            BY <1>7 DEF Gives
<1>9. /\ 2 <= Len(x) /\ from \in Nat /\ from > 2 /\ len \in Nat
      /\ len < HighBit => from = 2 + 1 /\ x[2] = len
      <2>1. der_read_len(x, 2, Len(x) + 1).ok
            BY <1>7 DEF Q, end
      <2>2. QED
            BY <2>1, LengthRead DEF Q, L, from, len, end
<1>10. /\ r \in CurveScalar /\ next \in Nat /\ next > from /\ next <= Len(x) + 1
       /\ r # 0 => Holds(x, from, derInteger(r)) /\ next = from + Len(derInteger(r))
       <2>1. der_parse_integer(x, from, Len(x) + 1).ok /\ from > 0
             BY <1>7, <1>9 DEF P, end
       <2>2. QED
             BY <1>9, <2>1, IntegerRead DEF P, next, end
<1>11. /\ s \in CurveScalar
       /\ s # 0 => Holds(x, next, derInteger(s)) /\ T.v.at = next + Len(derInteger(s))
       <2>1. der_parse_integer(x, next, Len(x) + 1).ok /\ next > 0
             BY <1>7, <1>9, <1>10 DEF T, end
       <2>2. QED
             BY <1>10, <2>1, IntegerRead DEF T, end
<1> HIDE DEF r, s
<1>12. ASSUME r # 0, s # 0 PROVE x = written(r, s)
       <2> DEFINE w == written(r, s)
                  a == derInteger(r)
                  b == derInteger(s)
                  lr == Len(a)
                  ls == Len(b)
       <2>1. /\ w \in Bytes /\ Len(w) = 2 + lr + ls /\ w[1] = TagSequence /\ w[2] = lr + ls
             /\ lr \in 3 .. ScalarBytes + 3 /\ ls \in 3 .. ScalarBytes + 3 /\ lr + ls < HighBit
             /\ Holds(w, 3, a) /\ Holds(w, 3 + lr, b)
             BY <1>10, <1>11, WrittenIs
       <2>2. /\ Holds(x, from, a) /\ next = from + lr /\ Holds(x, next, b) /\ end = next + ls
             BY <1>7, <1>10, <1>11, <1>12
       <2> HIDE DEF w, a, b, lr, ls
       <2>3. HighBit \in Nat /\ ScalarBytes \in Nat /\ Len(x) \in Nat /\ x \in Seq(Byte) /\ w \in Seq(Byte)
             BY <2>1, ByteIs, BytesTyped
       <2>4. lr \in Nat /\ ls \in Nat
             BY <2>1, <2>3
       <2>5. len = lr + ls
             BY <1>7, <1>9, <2>2, <2>4
       <2>6. from = 3 /\ x[2] = len /\ next = 3 + lr
             BY <1>9, <2>1, <2>2, <2>5
       <2>7. Len(x) = Len(w)
             BY <2>1, <2>2, <2>3, <2>4, <2>6 DEF end
       <2>8. /\ \A i \in 1 .. lr : x[3 + i - 1] = a[i] /\ w[3 + i - 1] = a[i]
             /\ \A i \in 1 .. ls : x[3 + lr + i - 1] = b[i] /\ w[3 + lr + i - 1] = b[i]
             BY <2>1, <2>2, <2>6 DEF Holds, lr, ls
       <2>9. ASSUME NEW i \in 1 .. Len(x) PROVE x[i] = w[i]
             <3>1. CASE i = 1
                   BY <1>7, <2>1, <3>1
             <3>2. CASE i = 2
                   BY <2>1, <2>5, <2>6, <3>2
             <3>3. CASE i > 2 /\ i <= lr + 2
                   <4> DEFINE j == i - 2
                   <4>1. j \in 1 .. lr /\ 3 + j - 1 = i
                         BY <2>4, <3>3
                   <4> HIDE DEF j
                   <4>2. QED
                         BY <2>8, <4>1
             <3>4. CASE i > lr + 2
                   <4> DEFINE j == i - lr - 2
                   <4>1. j \in 1 .. ls /\ 3 + lr + j - 1 = i
                         BY <2>1, <2>4, <2>7, <3>4
                   <4> HIDE DEF j
                   <4>2. QED
                         BY <2>8, <4>1
             <3>5. i \in Nat /\ i > 0
                   OBVIOUS
             <3>6. i = 1 \/ i = 2 \/ (i > 2 /\ i <= lr + 2) \/ i > lr + 2
                   BY <2>4, <3>5
             <3>7. QED
                   BY <3>1, <3>2, <3>3, <3>4, <3>6
       <2>10. x = w
              BY <2>3, <2>7, <2>9, SeqEqual
       <2>11. QED
              BY <2>10 DEF w
<1>13. QED
       BY <1>8, <1>10, <1>11, <1>12 DEF S

\* What is written for a signature of two scalars, and that it needs its room.
LEMMA SerializeIs ==
    ASSUME NEW sig, sig.r \in CurveScalar, sig.s \in CurveScalar
    PROVE  /\ \A size : ecdsa_sig_serialize(sig, size).v = written(sig.r, sig.s)
           /\ ~ecdsa_sig_serialize(sig, ecdsa_sig_serialize(sig, 0).size - 1).ok
           /\ Len(written(sig.r, sig.s)) <= 2 * ScalarBytes + 8
<1> DEFINE c == derInteger(sig.r) \o derInteger(sig.s)
           n == Len(c) + 2
<1>1. ASSUME NEW size
      PROVE  ecdsa_sig_serialize(sig, size) = [ok |-> n <= size, size |-> n, v |-> <<TagSequence, Len(c)>> \o c]
      BY DEF ecdsa_sig_serialize
<1>2. written(sig.r, sig.s) = <<TagSequence, Len(c)>> \o c
      BY DEF written
<1>3. n \in Nat /\ n <= 2 * ScalarBytes + 8 /\ n = Len(written(sig.r, sig.s))
      <2> DEFINE a == derInteger(sig.r)
                 b == derInteger(sig.s)
                 w == written(sig.r, sig.s)
      <2>1. /\ w \in Bytes /\ Len(w) = 2 + Len(a) + Len(b)
            /\ Len(a) \in 3 .. ScalarBytes + 3 /\ Len(b) \in 3 .. ScalarBytes + 3
            BY WrittenIs
      <2>2. a \in Bytes /\ b \in Bytes
            BY DerIntegerIs
      <2> HIDE DEF a, b, w
      <2>3. a \in Seq(Byte) /\ b \in Seq(Byte) /\ ScalarBytes \in Nat
            BY <2>2, BytesTyped, ByteIs
      <2>4. Len(a \o b) = Len(a) + Len(b)
            BY <2>3, ConcatProperties
      <2>5. Len(a \o b) + 2 \in Nat /\ Len(a \o b) + 2 <= 2 * ScalarBytes + 8 /\ Len(a \o b) + 2 = Len(w)
            BY <2>1, <2>3, <2>4
      <2>6. QED
            BY <2>5 DEF a, b, w
<1> HIDE DEF c, n
<1>4. \A size : ecdsa_sig_serialize(sig, size).v = written(sig.r, sig.s)
      BY <1>1, <1>2
<1>5. ecdsa_sig_serialize(sig, 0).size = n
      BY <1>1
<1>6. ecdsa_sig_serialize(sig, n - 1).ok = (n <= n - 1)
      BY <1>1
<1>7. (n <= n - 1) = FALSE
      BY <1>3
<1>8. QED
      BY <1>3, <1>4, <1>5, <1>6, <1>7

\* The bytes on their way mean one thing, changed in one place or not.
LEMMA WireMeans ==
    ASSUME NEW x \in Bytes, signer.r \in CurveScalar, signer.s \in CurveScalar,
           signer.edits = 0 => x = written(signer.r, signer.s)
    PROVE  wireMeans(ecdsa_signature_parse_der(x), x)
<1> DEFINE S == ecdsa_sig_parse(x)
           strict == ecdsa_signature_parse_der(x)
<1>1. strict.ret = S.ok /\ strict.sig = IF S.ok THEN S.v ELSE ZeroSignature
      BY DEF ecdsa_signature_parse_der, parsed, orZeros
<1>2. strict = [ret |-> strict.ret, sig |-> strict.sig]
      BY DEF ecdsa_signature_parse_der, parsed
<1> HIDE DEF S, strict
<1>3. S.ok => /\ S.v = [r |-> S.v.r, s |-> S.v.s] /\ S.v.r \in CurveScalar /\ S.v.s \in CurveScalar
              /\ S.v.r # 0 /\ S.v.s # 0 => x = written(S.v.r, S.v.s)
      BY ReadWasWritten DEF S
<1>4. ZeroSignature.r = 0 /\ ZeroSignature.s = 0 /\ 0 \in CurveScalar
      BY ByteIs DEF ZeroSignature, CurveScalar
<1>5. strict.sig.r \in CurveScalar /\ strict.sig.s \in CurveScalar
      BY <1>1, <1>3, <1>4
<1>6. ~ecdsa_sig_serialize(strict.sig, ecdsa_sig_serialize(strict.sig, 0).size - 1).ok
      BY <1>5, SerializeIs
<1>7. ASSUME strict.ret, strict.sig.r # 0, strict.sig.s # 0
      PROVE  /\ ecdsa_sig_serialize(strict.sig, Len(x)).v = x
             /\ ecdsa_signature_parse_der_lax(x) = strict
      <2>1. S.ok /\ strict.ret = TRUE /\ strict.sig = S.v
            BY <1>1, <1>7
      <2>2. x = written(strict.sig.r, strict.sig.s) /\ strict.sig = [r |-> strict.sig.r, s |-> strict.sig.s]
            BY <1>3, <1>7, <2>1
      <2> DEFINE sig == strict.sig
      <2>3. strict = [ret |-> TRUE, sig |-> [r |-> sig.r, s |-> sig.s]]
            BY <1>1, <1>2, <2>1, <2>2
      <2> HIDE DEF sig
      <2>4. sig.r \in CurveScalar /\ sig.s \in CurveScalar /\ x = written(sig.r, sig.s)
            BY <1>5, <2>2 DEF sig
      <2>5. ecdsa_signature_parse_der_lax(x) = [ret |-> TRUE, sig |-> [r |-> sig.r, s |-> sig.s]]
            BY <2>4, WrittenIsRead
      <2>6. ecdsa_sig_serialize(sig, Len(x)).v = x
            BY <2>4, SerializeIs
      <2>7. QED
            BY <2>3, <2>5, <2>6 DEF sig
<1>8. ASSUME signer.edits = 0 PROVE strict = [ret |-> TRUE, sig |-> [r |-> signer.r, s |-> signer.s]]
      <2> DEFINE r == signer.r
                 s == signer.s
      <2>1. x = written(r, s) /\ r \in CurveScalar /\ s \in CurveScalar
            BY <1>8
      <2> HIDE DEF r, s
      <2>2. S = Gives([r |-> r, s |-> s])
            BY <2>1, WrittenIsRead DEF S
      <2>3. S.ok = TRUE /\ S.v = [r |-> r, s |-> s]
            BY <2>2 DEF Gives
      <2>4. strict.ret = TRUE /\ strict.sig = [r |-> r, s |-> s]
            BY <1>1, <2>3
      <2>5. QED
            BY <1>2, <2>4 DEF r, s
<1>9. wireMeans(strict, x)
      BY <1>6, <1>7, <1>8 DEF wireMeans
<1>10. QED
       BY <1>9 DEF strict

-------------------------------------------------------------------------------
(* Points of the curve: every formula stays in the field.                  *)

\* What a walk says of each step.
LEMMA WalkMeans ==
    ASSUME NEW n \in Nat, NEW S, NEW e, NEW move, NEW t, Walks(t, n, S, e, move)
    PROVE  t \in [0 .. n -> S] /\ t[0] = e /\ \A i \in 1 .. n : t[i - 1] \in S /\ t[i] = move[<<t[i - 1], i>>]
<1>1. t \in [0 .. n -> S] /\ t[0] = e /\ \A i \in 1 .. n : t[i] = move[<<t[i - 1], i>>]
      BY DEF Walks
<1>2. ASSUME NEW i \in 1 .. n PROVE t[i - 1] \in S
      <2>1. i - 1 \in 0 .. n
            OBVIOUS
      <2>2. QED
            BY <1>1, <2>1
<1>3. QED
      BY <1>1, <1>2

\* What each step keeps holds of all.
LEMMA StepsTyped ==
    ASSUME NEW n \in Nat, NEW S, NEW u, u[0] \in S, \A i \in 1 .. n : u[i - 1] \in S => u[i] \in S
    PROVE  \A i \in 0 .. n : u[i] \in S
<1> DEFINE good == {i \in 0 .. n : u[i] \in S}
<1>1. 0 \in good
      OBVIOUS
<1>2. ASSUME NEW i \in 1 .. n, i - 1 \in good PROVE i \in good
      BY <1>2
<1>3. \A i \in 0 .. n : i \in good
      <2> HIDE DEF good
      <2>1. QED
            BY <1>1, <1>2, CountUp
<1>4. QED
      BY <1>3

LEMMA PrimeIs == FieldPrime \in Nat /\ FieldPrime >= 7 /\ Fe \subseteq Nat /\ 0 \in Fe /\ 1 \in Fe
<1>1. FieldPrime \in Nat /\ FieldPrime % 12 = 7
      BY CurveAssumption
<1>2. FieldPrime >= 7
      BY <1>1
<1>3. QED
      BY <1>1, <1>2 DEF Fe

\* The operations of the field.
LEMMA FieldClosed ==
    /\ \A a \in Fe : a \in Int
    /\ \A a, b \in Int : FAdd(a, b) \in Fe /\ FMul(a, b) \in Fe /\ FSub(a, b) \in Fe
    /\ \A a \in Int : FNeg(a) \in Fe /\ FSqr(a) \in Fe /\ FCube(a) \in Fe
<1>1. \A x \in Int : x % FieldPrime \in Fe
      BY PrimeIs DEF Fe
<1>2. \A a, b \in Int : a + b \in Int /\ a * b \in Int /\ a - b \in Int
      OBVIOUS
<1>3. \A a \in Int : -a \in Int /\ a * a \in Int /\ a * a * a \in Int
      <2>1. ASSUME NEW a \in Int PROVE -a \in Int /\ a * a \in Int /\ a * a * a \in Int
            <3>1. -a \in Int
                  OBVIOUS
            <3>2. a * a \in Int
                  BY <1>2
            <3>3. a * a * a \in Int
                  BY <1>2, <3>2
            <3>4. QED
                  BY <3>1, <3>2, <3>3
      <2>2. QED
            BY <2>1
<1>4. \A a, b \in Int : FAdd(a, b) \in Fe /\ FMul(a, b) \in Fe /\ FSub(a, b) \in Fe
      BY <1>1, <1>2 DEF FAdd, FMul, FSub
<1>5. \A a \in Int : FNeg(a) \in Fe /\ FSqr(a) \in Fe /\ FCube(a) \in Fe
      BY <1>1, <1>3 DEF FNeg, FSqr, FCube
<1>6. \A a \in Fe : a \in Int
      BY PrimeIs
<1>7. QED
      BY <1>4, <1>5, <1>6

\* Powers, and with them inverses and roots.
LEMMA FieldPower ==
    ASSUME NEW a \in Fe, NEW k \in Nat
    PROVE  FPow(a, k) \in Fe
<1> DEFINE move == [p \in Fe \X (1 .. k) |-> FMul(p[1], a)]
           next(t, i) == IF i = 0 THEN 1 ELSE FMul(t[i - 1], a)
           u == CHOOSE t : t = [i \in 0 .. k |-> next(t, i)]
<1>0. \A x \in Fe : FMul(x, a) \in Fe
      BY FieldClosed
<1>1. move \in [Fe \X (1 .. k) -> Fe] /\ 1 \in Fe
      BY <1>0, PrimeIs
<1>2. PICK t : Walks(t, k, Fe, 1, move)
      <2> HIDE DEF move
      <2>1. QED
            BY <1>1, WalkExists
<1>20. /\ t \in [0 .. k -> Fe] /\ t[0] = 1
       /\ \A i \in 1 .. k : t[i - 1] \in Fe /\ t[i] = move[<<t[i - 1], i>>]
      <2> HIDE DEF move
      <2>1. QED
            BY <1>2, WalkMeans
<1>3. t = [i \in 0 .. k |-> next(t, i)]
      <2>1. \A i \in 1 .. k : t[i] = FMul(t[i - 1], a)
            BY <1>20
      <2>2. ASSUME NEW i \in 0 .. k PROVE t[i] = next(t, i)
            BY <1>20, <2>1
      <2> HIDE DEF next, move
      <2>3. t = [i \in 0 .. k |-> t[i]]
            BY <1>20
      <2>4. QED
            BY <2>2, <2>3
<1>4. u = [i \in 0 .. k |-> next(u, i)]
      <2> HIDE DEF next
      <2>1. QED
            BY <1>3
<1>5. FPow(a, k) = u[k]
      BY DEF FPow
<1>6. \A i \in 0 .. k : u[i] = next(u, i)
      <2> HIDE DEF u, next
      <2>1. QED
            BY <1>4
<1> HIDE DEF u
<1>7. u[0] \in Fe /\ \A i \in 1 .. k : u[i - 1] \in Fe => u[i] \in Fe
      <2>1. u[0] = 1
            BY <1>6
      <2>2. ASSUME NEW i \in 1 .. k PROVE u[i] = FMul(u[i - 1], a)
            BY <1>6
      <2>3. QED
            BY <1>0, <2>1, <2>2, PrimeIs
<1>8. \A i \in 0 .. k : u[i] \in Fe
      BY <1>7, StepsTyped
<1>9. QED
      BY <1>5, <1>8

LEMMA InverseTyped == \A a \in Fe : FInv(a) \in Fe /\ FRoot(a) \in Fe
<1> DEFINE p == FieldPrime
           f == [i \in 1 .. p |-> FPow(i - 1, p - 2)]
           g == [i \in 1 .. p |-> FPow(i - 1, (p + 1) \div 4)]
<1>1. p \in Nat /\ p - 2 \in Nat /\ (p + 1) \div 4 \in Nat
      BY PrimeIs
<1>2. inverses = SubSeq(f, 1, p) /\ roots = SubSeq(g, 1, p)
      BY DEF inverses, roots, Tuple
<1>3. f = [i \in 1 .. p |-> f[i]] /\ g = [i \in 1 .. p |-> g[i]]
      OBVIOUS
<1>4. inverses = f /\ roots = g
      <2> HIDE DEF f, g
      <2>1. QED
            BY <1>1, <1>2, <1>3, TupleIs
<1>5. ASSUME NEW a \in Fe PROVE FInv(a) \in Fe /\ FRoot(a) \in Fe
      <2>1. a + 1 \in 1 .. p /\ (a + 1) - 1 = a
            BY <1>1, PrimeIs DEF Fe
      <2>2. f[a + 1] = FPow(a, p - 2) /\ g[a + 1] = FPow(a, (p + 1) \div 4)
            BY <2>1
      <2>3. FPow(a, p - 2) \in Fe /\ FPow(a, (p + 1) \div 4) \in Fe
            BY <1>1, FieldPower
      <2>4. QED
            BY <1>4, <2>2, <2>3 DEF FInv, FRoot
<1>6. QED
      BY <1>5

\* Points whose coordinates are in the field.
JPoint == [inf : BOOLEAN, x : Fe, y : Fe, z : Fe]
APoint == [inf : BOOLEAN, x : Fe, y : Fe]

LEMMA IntegersClosed == \A a, b \in Int : a + b \in Int /\ a - b \in Int /\ a * b \in Int
OBVIOUS

LEMMA PointsAre ==
    /\ GejInfinity \in JPoint /\ GeInfinity \in APoint
    /\ \A x, y, z \in Fe : Gej(x, y, z) \in JPoint
    /\ \A a \in JPoint : a.inf \in BOOLEAN /\ a.x \in Fe /\ a.y \in Fe /\ a.z \in Fe
    /\ \A a \in APoint : a.inf \in BOOLEAN /\ a.x \in Fe /\ a.y \in Fe
    /\ \A a \in APoint : gej_set_ge(a) \in JPoint
    /\ \A s, q : Sum(s, q).r = s
<1>1. 0 \in Fe /\ 1 \in Fe
      BY PrimeIs
<1>2. GejInfinity \in JPoint /\ GeInfinity \in APoint
      BY <1>1 DEF GejInfinity, GeInfinity, JPoint, APoint
<1>3. \A x, y, z \in Fe : Gej(x, y, z) \in JPoint
      BY DEF Gej, JPoint
<1>4. \A a \in JPoint : a.inf \in BOOLEAN /\ a.x \in Fe /\ a.y \in Fe /\ a.z \in Fe
      BY DEF JPoint
<1>5. \A a \in APoint : a.inf \in BOOLEAN /\ a.x \in Fe /\ a.y \in Fe
      BY DEF APoint
<1>6. \A a \in APoint : gej_set_ge(a) \in JPoint
      BY <1>1, <1>5 DEF gej_set_ge, JPoint
<1>7. \A s, q : Sum(s, q).r = s
      BY DEF Sum
<1>8. QED
      BY <1>2, <1>3, <1>4, <1>5, <1>6, <1>7

LEMMA DoubleTyped == \A a \in JPoint : gej_double(a).r \in JPoint
<1>1. ASSUME NEW a \in JPoint, NEW t1 \in Fe, NEW t2 \in Fe, NEW s \in Fe
      PROVE  doubledFrom(a, t1, t2, s).r \in JPoint
      <2> DEFINE X == FSub(FSqr(t1), 4 * s)
                 q == FSqr(t1)
                 v == 6 * s
                 d == FSub(v, q)
                 m == FMul(t1, d)
                 w == 2 * FSqr(t2)
                 Y == FSub(m, w)
                 Z == FMul(2 * a.z, a.y)
                 q2 == FSqr(t2)
      <2>1. t1 \in Int /\ t2 \in Int /\ s \in Int /\ a.z \in Int /\ a.y \in Int
            BY PointsAre, FieldClosed
      <2>2. q \in Int /\ q2 \in Int
            BY <2>1, FieldClosed
      <2>3. v \in Int /\ 4 * s \in Int /\ 2 * a.z \in Int
            BY <2>1, IntegersClosed
      <2>4. w \in Int
            <3> HIDE DEF q2
            <3>1. 2 * q2 \in Int
                  BY <2>2, IntegersClosed
            <3>2. QED
                  BY <3>1 DEF q2
      <2>5. X \in Fe
            <3> HIDE DEF q
            <3>1. FSub(q, 4 * s) \in Fe
                  BY <2>2, <2>3, FieldClosed
            <3>2. QED
                  BY <3>1 DEF q
      <2>6. d \in Int
            <3> HIDE DEF q, v
            <3>1. QED
                  BY <2>2, <2>3, FieldClosed
      <2>7. m \in Int
            <3> HIDE DEF d
            <3>1. QED
                  BY <2>1, <2>6, FieldClosed
      <2>8. Y \in Fe
            <3> HIDE DEF m, w
            <3>1. QED
                  BY <2>4, <2>7, FieldClosed
      <2>9. Z \in Fe
            BY <2>1, <2>3, FieldClosed
      <2>10. doubledFrom(a, t1, t2, s).r = Gej(X, Y, Z)
            BY PointsAre DEF doubledFrom
      <2> HIDE DEF X, Y, Z
      <2>11. QED
            BY <2>5, <2>8, <2>9, <2>10, PointsAre
<1>2. ASSUME NEW a \in JPoint PROVE gej_double(a).r \in JPoint
      <2> DEFINE q == FSqr(a.x)
                 p == FSqr(a.y)
                 t1 == FMul(3, q)
                 t2 == FMul(2, p)
                 h == 2 * p
                 s == FMul(h, a.x)
      <2>1. a.x \in Int /\ a.y \in Int
            BY PointsAre, FieldClosed
      <2>2. q \in Int /\ p \in Int
            BY <2>1, FieldClosed
      <2>3. t1 \in Fe /\ t2 \in Fe /\ h \in Int
            <3> HIDE DEF q, p
            <3>1. h \in Int
                  BY <2>2, IntegersClosed
            <3>2. QED
                  BY <2>2, <3>1, FieldClosed
      <2>4. s \in Fe
            <3> HIDE DEF h
            <3>1. QED
                  BY <2>1, <2>3, FieldClosed
      <2>5. gej_double(a) = IF a.inf THEN Sum(GejInfinity, 1) ELSE doubledFrom(a, t1, t2, s)
            BY DEF gej_double
      <2>6. doubledFrom(a, t1, t2, s).r \in JPoint
            <3> HIDE DEF t1, t2, s
            <3>1. QED
                  BY <1>1, <2>3, <2>4
      <2> HIDE DEF t1, t2, s
      <2>7. QED
            BY <2>5, <2>6, PointsAre
<1>3. QED
      BY <1>2

\* What the additions share.
LEMMA SumTyped ==
    ASSUME NEW a \in JPoint, NEW u1 \in Int, NEW u2 \in Int, NEW s1 \in Int, NEW s2 \in Int, NEW z \in Int,
           NEW ratio \in Int
    PROVE  sumOver(a, u1, u2, s1, s2, z, ratio).r \in JPoint
<1>1. ASSUME NEW h \in Int, NEW i \in Int, NEW t \in Int, NEW x \in Fe PROVE chordFrom(h, i, t, x, s1, z, ratio).r \in JPoint
      <2> DEFINE d == FSub(t, x)
                 m == FMul(d, i)
                 c == FCube(h)
                 n == FMul(c, s1)
                 Y == FSub(m, n)
                 Z == FMul(z, h)
      <2>1. d \in Int /\ c \in Int /\ Z \in Fe
            BY FieldClosed
      <2>2. m \in Int /\ n \in Int
            <3> HIDE DEF d, c
            <3>1. QED
                  BY <2>1, FieldClosed
      <2>3. Y \in Fe
            <3> HIDE DEF m, n
            <3>1. QED
                  BY <2>2, FieldClosed
      <2>4. chordFrom(h, i, t, x, s1, z, ratio).r = Gej(x, Y, Z)
            BY PointsAre DEF chordFrom
      <2> HIDE DEF Y, Z
      <2>5. QED
            BY <2>1, <2>3, <2>4, PointsAre
<1>2. ASSUME NEW h \in Int, NEW i \in Int, NEW t \in Int PROVE sumFrom(a, h, i, t, s1, z, ratio).r \in JPoint
      <2> DEFINE q == FSqr(i)
                 c == FCube(h)
                 v == 2 * t + c
                 x == FSub(q, v)
      <2>1. q \in Int /\ c \in Int
            BY FieldClosed
      <2>2. v \in Int
            <3> HIDE DEF c
            <3>1. QED
                  BY <2>1, IntegersClosed
      <2>3. x \in Fe
            <3> HIDE DEF q, v
            <3>1. QED
                  BY <2>1, <2>2, FieldClosed
      <2>4. sumFrom(a, h, i, t, s1, z, ratio)
              = IF h # 0 THEN chordFrom(h, i, t, x, s1, z, ratio)
                ELSE IF i = 0 THEN gej_double(a) ELSE Sum(GejInfinity, 0)
            BY DEF sumFrom
      <2> HIDE DEF x
      <2>5. QED
            BY <1>1, <2>3, <2>4, DoubleTyped, PointsAre
<1> DEFINE h == FSub(u2, u1)
           i == FSub(s2, s1)
           q == FSqr(h)
           t == FMul(u1, q)
<1>3. h \in Int /\ i \in Int
      BY FieldClosed
<1>4. q \in Int
      <2> HIDE DEF h
      <2>1. QED
            BY <1>3, FieldClosed
<1>5. t \in Int
      <2> HIDE DEF q
      <2>1. QED
            BY <1>4, FieldClosed
<1>6. sumOver(a, u1, u2, s1, s2, z, ratio) = sumFrom(a, h, i, t, s1, z, ratio)
      BY DEF sumOver
<1> HIDE DEF h, i, t
<1>7. QED
      BY <1>2, <1>3, <1>5, <1>6

LEMMA AddTyped ==
    /\ \A a, b \in JPoint : gej_add_var(a, b) \in JPoint
    /\ \A a \in JPoint, b \in APoint : gej_add_ge_var(a, b) \in JPoint
<1>1. ASSUME NEW a \in JPoint, NEW b \in JPoint PROVE gej_add_var(a, b) \in JPoint
      <2> DEFINE z22 == FSqr(b.z)
                 z12 == FSqr(a.z)
                 c2 == FMul(z22, b.z)
                 c1 == FMul(z12, a.z)
                 u1 == FMul(a.x, z22)
                 u2 == FMul(b.x, z12)
                 s1 == FMul(a.y, c2)
                 s2 == FMul(b.y, c1)
                 z == FMul(a.z, b.z)
                 ratio == b.z
      <2>1. a.x \in Int /\ a.y \in Int /\ a.z \in Int /\ b.x \in Int /\ b.y \in Int /\ ratio \in Int
            BY PointsAre, FieldClosed
      <2>2. z22 \in Int /\ z12 \in Int /\ z \in Int
            BY <2>1, FieldClosed
      <2>3. c1 \in Int /\ c2 \in Int /\ u1 \in Int /\ u2 \in Int
            <3> HIDE DEF z22, z12
            <3>1. QED
                  BY <2>1, <2>2, FieldClosed
      <2>4. s1 \in Int /\ s2 \in Int
            <3> HIDE DEF c1, c2
            <3>1. QED
                  BY <2>1, <2>3, FieldClosed
      <2>5. gej_add(a, b) = IF a.inf THEN Sum(b, 0) ELSE IF b.inf THEN Sum(a, 1)
                            ELSE sumOver(a, u1, u2, s1, s2, z, ratio)
            BY DEF gej_add
      <2>6. sumOver(a, u1, u2, s1, s2, z, ratio).r \in JPoint
            <3> HIDE DEF u1, u2, s1, s2, z, ratio
            <3>1. QED
                  BY <2>1, <2>2, <2>3, <2>4, SumTyped
      <2> HIDE DEF u1, u2, s1, s2, z, ratio
      <2>7. QED
            BY <2>5, <2>6, PointsAre DEF gej_add_var
<1>2. ASSUME NEW a \in JPoint, NEW b \in APoint PROVE gej_add_ge_var(a, b) \in JPoint
      <2> DEFINE z12 == FSqr(a.z)
                 c1 == FCube(a.z)
                 u1 == a.x
                 u2 == FMul(b.x, z12)
                 s1 == a.y
                 s2 == FMul(b.y, c1)
                 z == a.z
      <2>1. a.x \in Int /\ a.y \in Int /\ a.z \in Int /\ b.x \in Int /\ b.y \in Int
            BY PointsAre, FieldClosed
      <2>2. z12 \in Int /\ c1 \in Int
            BY <2>1, FieldClosed
      <2>3. u2 \in Int /\ s2 \in Int
            <3> HIDE DEF z12, c1
            <3>1. QED
                  BY <2>1, <2>2, FieldClosed
      <2>4. gej_add_ge_ratio(a, b) = IF a.inf THEN Sum(gej_set_ge(b), 0) ELSE IF b.inf THEN Sum(a, 1)
                                     ELSE sumOver(a, u1, u2, s1, s2, z, 1)
            BY DEF gej_add_ge_ratio
      <2>5. sumOver(a, u1, u2, s1, s2, z, 1).r \in JPoint
            <3>1. 1 \in Int /\ u1 \in Int /\ s1 \in Int /\ z \in Int
                  BY <2>1
            <3> HIDE DEF u1, u2, s1, s2, z
            <3>2. QED
                  BY <2>3, <3>1, SumTyped
      <2> HIDE DEF u1, u2, s1, s2, z
      <2>6. QED
            BY <2>4, <2>5, PointsAre DEF gej_add_ge_var
<1>3. QED
      BY <1>1, <1>2

LEMMA QuotientTyped ==
    ASSUME NEW a \in JPoint, NEW rr \in Int, NEW m \in Int, NEW t \in Int, NEW n \in Int
    PROVE  sumByQuotient(a, rr, m, t, n) \in JPoint
<1>1. ASSUME NEW az \in Int, NEW q \in Int, NEW x \in Int PROVE quotientSum(az, rr, m, q, x, n) \in JPoint
      <2> DEFINE v == 2 * x
                 d == FSub(v, q)
                 p == FMul(rr, d)
                 s == FAdd(p, n)
                 w == 4 * s
                 X == FMul(4, x)
                 Y == FNeg(w)
                 h == 2 * az
                 Z == FMul(h, m)
                 inf == (FMul(az, m) = 0)
      <2>1. v \in Int /\ h \in Int
            BY IntegersClosed
      <2>2. d \in Int /\ X \in Fe /\ Z \in Fe
            <3> HIDE DEF v, h
            <3>1. QED
                  BY <2>1, FieldClosed
      <2>3. p \in Int
            <3> HIDE DEF d
            <3>1. QED
                  BY <2>2, FieldClosed
      <2>4. s \in Int
            <3> HIDE DEF p
            <3>1. QED
                  BY <2>3, FieldClosed
      <2>5. w \in Int
            <3> HIDE DEF s
            <3>1. QED
                  BY <2>4, IntegersClosed
      <2>6. Y \in Fe
            <3> HIDE DEF w
            <3>1. QED
                  BY <2>5, FieldClosed
      <2>7. quotientSum(az, rr, m, q, x, n) = [inf |-> inf, x |-> X, y |-> Y, z |-> Z]
            BY DEF quotientSum
      <2>8. inf \in BOOLEAN
            OBVIOUS
      <2> HIDE DEF X, Y, Z, inf
      <2>9. QED
            BY <2>2, <2>6, <2>7, <2>8 DEF JPoint
<1> DEFINE q == FMul(FSqr(m), t)
           p == FSqr(m)
           d == FSqr(rr)
           x == FSub(d, q)
<1>2. p \in Int /\ d \in Int
      BY FieldClosed
<1>3. q \in Int
      <2>1. FMul(p, t) \in Int
            <3> HIDE DEF p
            <3>1. QED
                  BY <1>2, FieldClosed
      <2>2. QED
            BY <2>1
<1>4. x \in Int
      <2> HIDE DEF q, d
      <2>1. QED
            BY <1>2, <1>3, FieldClosed
<1>5. sumByQuotient(a, rr, m, t, n) = quotientSum(a.z, rr, m, q, x, n)
      BY DEF sumByQuotient
<1>6. a.z \in Int
      BY PointsAre, FieldClosed
<1> HIDE DEF q, x
<1>7. QED
      BY <1>1, <1>3, <1>4, <1>5, <1>6

LEMMA UnifiedTyped == \A a \in JPoint, b \in APoint : gej_add_ge(a, b) \in JPoint
<1>1. ASSUME NEW a \in JPoint, NEW u2 \in Int, NEW t \in Int, NEW m \in Int, NEW rr \in Int
      PROVE  unifiedSum(a, u2, t, m, rr) \in JPoint
      <2> DEFINE r2 == FMul(2, a.y)
                 m2 == FSub(a.x, u2)
                 p == FSqr(m)
                 n == FSqr(p)
      <2>1. a.x \in Int /\ a.y \in Int
            BY PointsAre, FieldClosed
      <2>2. r2 \in Int /\ m2 \in Int /\ p \in Int
            <3>1. 2 \in Int
                  OBVIOUS
            <3>2. r2 \in Fe
                  BY <2>1, <3>1, FieldClosed
            <3>3. m2 \in Fe /\ p \in Fe
                  BY <2>1, FieldClosed
            <3> HIDE DEF r2, m2, p
            <3>4. QED
                  BY <3>2, <3>3, FieldClosed
      <2>3. n \in Int
            <3> HIDE DEF p
            <3>1. QED
                  BY <2>2, FieldClosed
      <2>4. \/ unifiedSum(a, u2, t, m, rr) = sumByQuotient(a, r2, m2, t, m)
            \/ unifiedSum(a, u2, t, m, rr) = sumByQuotient(a, rr, m, t, n)
            BY DEF unifiedSum
      <2> HIDE DEF r2, m2, n
      <2>5. QED
            BY <2>2, <2>3, <2>4, QuotientTyped
<1>2. ASSUME NEW a \in JPoint, NEW b \in APoint PROVE gej_add_ge(a, b) \in JPoint
      <2> DEFINE q == FSqr(a.z)
                 c == FCube(a.z)
                 u2 == FMul(b.x, q)
                 t == FAdd(a.x, u2)
                 s == FMul(b.y, c)
                 m == FAdd(a.y, s)
                 v == FSqr(t)
                 w == FMul(a.x, u2)
                 rr == FSub(v, w)
      <2>1. a.x \in Int /\ a.y \in Int /\ a.z \in Int /\ b.x \in Int /\ b.y \in Int
            BY PointsAre, FieldClosed
      <2>2. q \in Int /\ c \in Int
            BY <2>1, FieldClosed
      <2>3. u2 \in Int /\ s \in Int
            <3> HIDE DEF q, c
            <3>1. QED
                  BY <2>1, <2>2, FieldClosed
      <2>4. t \in Int /\ m \in Int /\ w \in Int
            <3> HIDE DEF u2, s
            <3>1. QED
                  BY <2>1, <2>3, FieldClosed
      <2>5. v \in Int
            <3> HIDE DEF t
            <3>1. QED
                  BY <2>4, FieldClosed
      <2>6. rr \in Int
            <3> HIDE DEF v, w
            <3>1. QED
                  BY <2>4, <2>5, FieldClosed
      <2>7. gej_add_ge(a, b) = IF a.inf THEN gej_set_ge(b) ELSE unifiedSum(a, u2, t, m, rr)
            BY DEF gej_add_ge
      <2> HIDE DEF u2, t, m, rr
      <2>8. QED
            BY <1>1, <2>3, <2>4, <2>6, <2>7, PointsAre
<1>3. QED
      BY <1>2

\* Opposites, and affine points.
LEMMA AffineTyped ==
    /\ \A a \in JPoint : gej_neg(a) \in JPoint /\ ge_set_gej(a) \in APoint
    /\ \A a \in APoint : ge_neg(a) \in APoint
    /\ \A a \in JPoint, zi \in Int : ge_set_gej_zinv(a, zi) \in APoint
<1>1. ASSUME NEW a \in JPoint, NEW zi \in Int PROVE ge_set_gej_zinv(a, zi) \in APoint
      <2> DEFINE q == FSqr(zi)
                 c == FCube(zi)
                 X == FMul(a.x, q)
                 Y == FMul(a.y, c)
      <2>1. a.x \in Int /\ a.y \in Int /\ a.inf \in BOOLEAN
            BY PointsAre, FieldClosed
      <2>2. q \in Int /\ c \in Int
            BY FieldClosed
      <2>3. X \in Fe /\ Y \in Fe
            <3> HIDE DEF q, c
            <3>1. QED
                  BY <2>1, <2>2, FieldClosed
      <2>4. ge_set_gej_zinv(a, zi) = [inf |-> a.inf, x |-> X, y |-> Y]
            BY DEF ge_set_gej_zinv
      <2> HIDE DEF X, Y
      <2>5. QED
            BY <2>1, <2>3, <2>4 DEF APoint
<1>2. ASSUME NEW a \in JPoint PROVE gej_neg(a) \in JPoint
      <2> DEFINE n == FNeg(a.y)
      <2>1. n \in Fe
            BY PointsAre, FieldClosed
      <2>2. gej_neg(a) = [a EXCEPT !.y = n]
            BY DEF gej_neg
      <2> HIDE DEF n
      <2>3. QED
            BY <2>1, <2>2 DEF JPoint
<1>3. ASSUME NEW a \in APoint PROVE ge_neg(a) \in APoint
      <2> DEFINE n == FNeg(a.y)
      <2>1. n \in Fe
            BY PointsAre, FieldClosed
      <2>2. ge_neg(a) = [a EXCEPT !.y = n]
            BY DEF ge_neg
      <2> HIDE DEF n
      <2>3. QED
            BY <2>1, <2>2 DEF APoint
<1>4. ASSUME NEW a \in JPoint PROVE ge_set_gej(a) \in APoint
      <2>1. FInv(a.z) \in Int
            BY PointsAre, InverseTyped, FieldClosed
      <2>2. QED
            BY <1>1, <2>1 DEF ge_set_gej
<1>5. QED
      BY <1>1, <1>2, <1>3, <1>4

\* The generator, and the point nobody knows the scalar of.
LEMMA BasesTyped == ge_const_g \in APoint /\ ge_set_xo_var(NumsX, 0).v \in APoint
<1>1. \A x, y \in Fe : Ge(x, y) \in APoint
      BY DEF Ge, APoint
<1>2. BasePoint[1] \in Fe /\ BasePoint[2] \in Fe
      BY CurveAssumption DEF Fe
<1>3. ge_const_g \in APoint
      BY <1>1, <1>2 DEF ge_const_g
<1> DEFINE q == FCube(NumsX)
           c == FAdd(CurveB, q)
           y == FRoot(c)
           r == ge_set_xquad(NumsX)
<1>4. NumsX \in Fe /\ r.ok
      BY EcMultAssumption
<1>5. CurveB \in Int /\ q \in Int
      BY <1>4, CurveAssumption, FieldClosed
<1>6. c \in Fe
      <2> HIDE DEF q
      <2>1. QED
            BY <1>5, FieldClosed
<1>7. y \in Fe
      <2> HIDE DEF c
      <2>1. QED
            BY <1>6, InverseTyped
<1>8. r.v = Ge(NumsX, y)
      BY DEF ge_set_xquad
<1>9. r.v \in APoint
      <2> HIDE DEF y, r
      <2>1. QED
            BY <1>1, <1>4, <1>7, <1>8
<1>10. ge_set_xo_var(NumsX, 0) = Gives(IF r.v.y % 2 # 0 THEN ge_neg(r.v) ELSE r.v)
       <2>1. ge_set_xo_var(NumsX, 0) = ofParity(r, 0)
             BY DEF ge_set_xo_var
       <2> HIDE DEF r
       <2>2. QED
             BY <1>4, <2>1 DEF ofParity
<1> HIDE DEF r
<1>11. QED
      BY <1>3, <1>9, <1>10, AffineTyped DEF Gives

\* A point doubled again and again.
doublings(a, k) == LET d[i \in 0 .. k] == IF i = 0 THEN a ELSE gej_double_var(d[i - 1]) IN d[k]

LEMMA DoublingsTyped == ASSUME NEW a \in JPoint, NEW k \in Nat PROVE doublings(a, k) \in JPoint
<1> DEFINE move == [p \in JPoint \X (1 .. k) |-> gej_double_var(p[1])]
           next(t, i) == IF i = 0 THEN a ELSE gej_double_var(t[i - 1])
           u == CHOOSE t : t = [i \in 0 .. k |-> next(t, i)]
<1>0. \A x \in JPoint, i \in 1 .. k : gej_double_var(x) \in JPoint
      BY DoubleTyped DEF gej_double_var
<1>1. move \in [JPoint \X (1 .. k) -> JPoint] /\ a \in JPoint
      BY <1>0
<1>2. PICK t : Walks(t, k, JPoint, a, move)
      <2> HIDE DEF move
      <2>1. QED
            BY <1>1, WalkExists
<1>3. /\ t \in [0 .. k -> JPoint] /\ t[0] = a
      /\ \A i \in 1 .. k : t[i - 1] \in JPoint /\ t[i] = move[<<t[i - 1], i>>]
      <2> HIDE DEF move
      <2>1. QED
            BY <1>2, WalkMeans
<1>4. t = [i \in 0 .. k |-> next(t, i)]
      <2>1. \A i \in 1 .. k : t[i] = gej_double_var(t[i - 1])
            BY <1>3
      <2>2. ASSUME NEW i \in 0 .. k PROVE t[i] = next(t, i)
            <3> HIDE DEF move
            <3>1. QED
                  BY <1>3, <2>1
      <2> HIDE DEF next, move
      <2>3. t = [i \in 0 .. k |-> t[i]]
            BY <1>3
      <2>4. QED
            BY <2>2, <2>3
<1>5. u = [i \in 0 .. k |-> next(u, i)]
      <2> HIDE DEF next
      <2>1. QED
            BY <1>4
<1>6. \A i \in 0 .. k : u[i] = next(u, i)
      <2> HIDE DEF u, next
      <2>1. QED
            BY <1>5
<1> HIDE DEF u
<1>7. u[0] \in JPoint /\ \A i \in 1 .. k : u[i - 1] \in JPoint => u[i] \in JPoint
      <2>1. u[0] = a
            BY <1>6
      <2>2. ASSUME NEW i \in 1 .. k PROVE u[i] = gej_double_var(u[i - 1])
            BY <1>6
      <2>3. QED
            BY <1>0, <1>1, <2>1, <2>2
<1>8. \A i \in 0 .. k : u[i] \in JPoint
      BY <1>7, StepsTyped
<1>9. doublings(a, k) = u[k]
      BY DEF doublings, u
<1>10. QED
       BY <1>8, <1>9

\* The multiples in a row of the table.
rowEntries(base, g, m) == LET e[i \in 0 .. m] == IF i = 0 THEN base ELSE gej_add_var(e[i - 1], g) IN e

LEMMA RowTyped ==
    ASSUME NEW base \in JPoint, NEW g \in JPoint, NEW m \in Nat
    PROVE  \A i \in 0 .. m : rowEntries(base, g, m)[i] \in JPoint
<1> DEFINE move == [p \in JPoint \X (1 .. m) |-> gej_add_var(p[1], g)]
           next(t, i) == IF i = 0 THEN base ELSE gej_add_var(t[i - 1], g)
           u == CHOOSE t : t = [i \in 0 .. m |-> next(t, i)]
<1>0. \A x \in JPoint, i \in 1 .. m : gej_add_var(x, g) \in JPoint
      BY AddTyped
<1>1. move \in [JPoint \X (1 .. m) -> JPoint] /\ base \in JPoint
      BY <1>0
<1>2. PICK t : Walks(t, m, JPoint, base, move)
      <2> HIDE DEF move
      <2>1. QED
            BY <1>1, WalkExists
<1>3. /\ t \in [0 .. m -> JPoint] /\ t[0] = base
      /\ \A i \in 1 .. m : t[i - 1] \in JPoint /\ t[i] = move[<<t[i - 1], i>>]
      <2> HIDE DEF move
      <2>1. QED
            BY <1>2, WalkMeans
<1>4. t = [i \in 0 .. m |-> next(t, i)]
      <2>1. \A i \in 1 .. m : t[i] = gej_add_var(t[i - 1], g)
            BY <1>3
      <2>2. ASSUME NEW i \in 0 .. m PROVE t[i] = next(t, i)
            <3> HIDE DEF move
            <3>1. QED
                  BY <1>3, <2>1
      <2> HIDE DEF next, move
      <2>3. t = [i \in 0 .. m |-> t[i]]
            BY <1>3
      <2>4. QED
            BY <2>2, <2>3
<1>5. u = [i \in 0 .. m |-> next(u, i)]
      <2> HIDE DEF next
      <2>1. QED
            BY <1>4
<1>6. \A i \in 0 .. m : u[i] = next(u, i)
      <2> HIDE DEF u, next
      <2>1. QED
            BY <1>5
<1> HIDE DEF u
<1>7. u[0] \in JPoint /\ \A i \in 1 .. m : u[i - 1] \in JPoint => u[i] \in JPoint
      <2>1. u[0] = base
            BY <1>6
      <2>2. ASSUME NEW i \in 1 .. m PROVE u[i] = gej_add_var(u[i - 1], g)
            BY <1>6
      <2>3. QED
            BY <1>0, <1>1, <2>1, <2>2
<1>8. \A i \in 0 .. m : u[i] \in JPoint
      BY <1>7, StepsTyped
<1>9. rowEntries(base, g, m) = u
      BY DEF rowEntries, u
<1>10. QED
       BY <1>8, <1>9

\* What the rows start with.
basesFrom(first, n) ==
    LET b[j \in 0 .. n] == IF j = 0 THEN first
                           ELSE IF j < n THEN gej_double_var(b[j - 1])
                           ELSE gej_add_var(gej_neg(gej_double_var(b[j - 1])), b[0])
    IN b

LEMMA BasesFromTyped ==
    ASSUME NEW first \in JPoint, NEW n \in Nat
    PROVE  \A i \in 0 .. n : basesFrom(first, n)[i] \in JPoint
<1> DEFINE move == [p \in JPoint \X (1 .. n) |-> IF p[2] < n THEN gej_double_var(p[1]) ELSE gej_add_var(gej_neg(gej_double_var(p[1])), first)]
           next(t, i) == IF i = 0 THEN first ELSE IF i < n THEN gej_double_var(t[i - 1]) ELSE gej_add_var(gej_neg(gej_double_var(t[i - 1])), t[0])
           u == CHOOSE t : t = [i \in 0 .. n |-> next(t, i)]
<1>0. \A x \in JPoint, i \in 1 .. n : (IF i < n THEN gej_double_var(x) ELSE gej_add_var(gej_neg(gej_double_var(x)), first)) \in JPoint
      <2>1. ASSUME NEW x \in JPoint PROVE gej_double_var(x) \in JPoint /\ gej_add_var(gej_neg(gej_double_var(x)), first) \in JPoint
            <3>1. gej_double_var(x) \in JPoint
                  BY DoubleTyped DEF gej_double_var
            <3>2. gej_neg(gej_double_var(x)) \in JPoint
                  BY <3>1, AffineTyped
            <3>3. QED
                  BY <3>1, <3>2, AddTyped
      <2>2. QED
            BY <2>1
<1>1. move \in [JPoint \X (1 .. n) -> JPoint] /\ first \in JPoint
      BY <1>0
<1>2. PICK t : Walks(t, n, JPoint, first, move)
      <2> HIDE DEF move
      <2>1. QED
            BY <1>1, WalkExists
<1>3. /\ t \in [0 .. n -> JPoint] /\ t[0] = first
      /\ \A i \in 1 .. n : t[i - 1] \in JPoint /\ t[i] = move[<<t[i - 1], i>>]
      <2> HIDE DEF move
      <2>1. QED
            BY <1>2, WalkMeans
<1>4. t = [i \in 0 .. n |-> next(t, i)]
      <2>1. \A i \in 1 .. n : t[i] = IF i < n THEN gej_double_var(t[i - 1]) ELSE gej_add_var(gej_neg(gej_double_var(t[i - 1])), t[0])
            BY <1>3
      <2>2. ASSUME NEW i \in 0 .. n PROVE t[i] = next(t, i)
            <3> HIDE DEF move
            <3>1. QED
                  BY <1>3, <2>1
      <2> HIDE DEF next, move
      <2>3. t = [i \in 0 .. n |-> t[i]]
            BY <1>3
      <2>4. QED
            BY <2>2, <2>3
<1>5. u = [i \in 0 .. n |-> next(u, i)]
      <2> HIDE DEF next
      <2>1. QED
            BY <1>4
<1>6. \A i \in 0 .. n : u[i] = next(u, i)
      <2> HIDE DEF u, next
      <2>1. QED
            BY <1>5
<1> HIDE DEF u
<1>7. u[0] \in JPoint /\ \A i \in 1 .. n : u[i - 1] \in JPoint => u[i] \in JPoint
      <2>1. u[0] = first
            BY <1>6
      <2>2. ASSUME NEW i \in 1 .. n PROVE u[i] = IF i < n THEN gej_double_var(u[i - 1]) ELSE gej_add_var(gej_neg(gej_double_var(u[i - 1])), u[0])
            BY <1>6
      <2>3. QED
            BY <1>0, <1>1, <2>1, <2>2
<1>8. \A i \in 0 .. n : u[i] \in JPoint
      BY <1>7, StepsTyped
<1>9. basesFrom(first, n) = u
      BY DEF basesFrom, u
<1>10. QED
       BY <1>8, <1>9

\* The points of the table before they are made affine: rows of 2^GenBits.
genRows == windows(ScalarBits, GenBits)
genBases == basesFrom(gej_add_ge_var(gej_set_ge(ge_set_xo_var(NumsX, 0).v), ge_const_g), genRows - 1)
genSteps == Tuple(genRows, LAMBDA j : doublings(gej_set_ge(ge_const_g), (j - 1) * GenBits))
genRow(j) == Tuple(2 ^ GenBits, LAMBDA i : rowEntries(genBases[j - 1], genSteps[j], 2 ^ GenBits - 1)[i - 1])
genPoints == Flat(genRows, genRow)

LEMMA GenRowTyped ==
    /\ genRows \in Nat
    /\ \A j \in 1 .. genRows : genRow(j) \in Seq(JPoint) /\ Len(genRow(j)) = 2 ^ GenBits
<1>1. ScalarBits \in Nat /\ GenBits \in Nat \ {0} /\ 2 ^ GenBits \in Nat \ {0}
      BY EcMultAssumption, PowerPositive
<1>2. genRows \in Nat
      <2>1. ScalarBits + GenBits - 1 \in Nat
            BY <1>1
      <2>2. QED
            BY <1>1, <2>1, QuotientIs DEF genRows, windows
<1>3. ASSUME NEW j \in 1 .. genRows PROVE genRow(j) \in Seq(JPoint) /\ Len(genRow(j)) = 2 ^ GenBits
      <2> DEFINE first == gej_add_ge_var(gej_set_ge(ge_set_xo_var(NumsX, 0).v), ge_const_g)
                 g == gej_set_ge(ge_const_g)
                 f == [i \in 1 .. genRows |-> doublings(g, (i - 1) * GenBits)]
                 m == 2 ^ GenBits
                 h == [i \in 1 .. m |-> rowEntries(genBases[j - 1], genSteps[j], m - 1)[i - 1]]
      <2>1. first \in JPoint /\ g \in JPoint
            BY BasesTyped, PointsAre, AddTyped
      <2>2. genRows - 1 \in Nat /\ j - 1 \in 0 .. genRows - 1
            BY <1>2
      <2>3. genBases[j - 1] \in JPoint
            <3>1. genBases = basesFrom(first, genRows - 1)
                  BY DEF genBases
            <3> HIDE DEF first
            <3>2. QED
                  BY <2>1, <2>2, <3>1, BasesFromTyped
      <2>4. genSteps = f
            <3>1. genSteps = SubSeq(f, 1, genRows)
                  BY DEF genSteps, Tuple
            <3>2. f = [i \in 1 .. genRows |-> f[i]]
                  OBVIOUS
            <3> HIDE DEF f
            <3>3. QED
                  BY <1>2, <3>1, <3>2, TupleIs
      <2>5. genSteps[j] \in JPoint
            <3>1. (j - 1) * GenBits \in Nat
                  BY <1>1, <2>2
            <3>2. f[j] = doublings(g, (j - 1) * GenBits)
                  OBVIOUS
            <3> HIDE DEF f, g
            <3>3. QED
                  BY <2>1, <2>4, <3>1, <3>2, DoublingsTyped
      <2>6. m \in Nat \ {0} /\ m - 1 \in Nat
            <3>1. m \in Nat \ {0}
                  BY <1>1
            <3> HIDE DEF m
            <3>2. QED
                  BY <3>1
      <2>7. genRow(j) = h
            <3>1. genRow(j) = SubSeq(h, 1, m)
                  BY DEF genRow, Tuple
            <3>2. h = [i \in 1 .. m |-> h[i]]
                  OBVIOUS
            <3> HIDE DEF h, m
            <3>3. QED
                  BY <2>6, <3>1, <3>2, TupleIs
      <2>8. h \in [1 .. m -> JPoint]
            <3>1. \A i \in 0 .. m - 1 : rowEntries(genBases[j - 1], genSteps[j], m - 1)[i] \in JPoint
                  <4> HIDE DEF m
                  <4>1. QED
                        BY <2>3, <2>5, <2>6, RowTyped
            <3>2. \A i \in 1 .. m : i - 1 \in 0 .. m - 1
                  <4> HIDE DEF m
                  <4>1. QED
                        BY <2>6
            <3>3. QED
                  BY <3>1, <3>2
      <2> HIDE DEF h, m
      <2>9. h \in Seq(JPoint) /\ Len(h) = m
            BY <2>6, <2>8
      <2>10. QED
            BY <2>7, <2>9 DEF m
<1>4. QED
      BY <1>2, <1>3

LEMMA GenPointsTyped == genPoints \in Seq(JPoint) /\ Len(genPoints) = genRows * 2 ^ GenBits
<1> DEFINE n == genRows
           m == 2 ^ GenBits
           S == Seq(JPoint)
           move == [p \in S \X (1 .. n) |-> p[1] \o genRow(p[2])]
           next(t, i) == IF i = 0 THEN <<>> ELSE t[i - 1] \o genRow(i)
           u == CHOOSE t : t = [i \in 0 .. n |-> next(t, i)]
<1>n. n \in Nat
      BY GenRowTyped
<1>a. n \in Nat /\ \A j \in 1 .. n : genRow(j) \in Seq(JPoint) /\ Len(genRow(j)) = m
      BY GenRowTyped
<1>b. m \in Nat
      BY EcMultAssumption, PowerPositive
<1>c. genPoints = u[n]
      BY DEF genPoints, Flat
<1> HIDE DEF n, m
<1>0. \A x \in S, i \in 1 .. n : x \o genRow(i) \in S
      BY <1>a
<1>1. move \in [S \X (1 .. n) -> S] /\ <<>> \in S
      BY <1>0
<1>2. PICK t : Walks(t, n, S, <<>>, move)
      <2> HIDE DEF move, S
      <2>1. QED
            BY <1>1, <1>a, WalkExists
<1>3. /\ t \in [0 .. n -> S] /\ t[0] = <<>>
      /\ \A i \in 1 .. n : t[i - 1] \in S /\ t[i] = move[<<t[i - 1], i>>]
      <2> HIDE DEF move, S
      <2>1. QED
            BY <1>2, <1>a, WalkMeans
<1>4. t = [i \in 0 .. n |-> next(t, i)]
      <2>1. \A i \in 1 .. n : t[i] = t[i - 1] \o genRow(i)
            BY <1>3
      <2>2. ASSUME NEW i \in 0 .. n PROVE t[i] = next(t, i)
            <3>1. CASE i = 0
                  BY <1>3, <3>1
            <3>2. CASE i # 0
                  <4>1. i \in 1 .. n
                        BY <1>n, <3>2
                  <4>2. t[i] = t[i - 1] \o genRow(i)
                        BY <2>1, <4>1
                  <4>3. QED
                        BY <3>2, <4>2
            <3>3. QED
                  BY <3>1, <3>2
      <2> HIDE DEF next, move, S
      <2>3. t = [i \in 0 .. n |-> t[i]]
            BY <1>3
      <2>4. QED
            BY <2>2, <2>3
<1>5. u = [i \in 0 .. n |-> next(u, i)]
      <2> HIDE DEF next
      <2>1. QED
            BY <1>4
<1>6. \A i \in 0 .. n : u[i] = next(u, i)
      <2> HIDE DEF u, next
      <2>1. QED
            BY <1>5
<1> HIDE DEF u
<1> DEFINE good == {i \in 0 .. n : u[i] \in Seq(JPoint) /\ Len(u[i]) = i * m}
<1>7. 0 \in good
      <2>1. u[0] = <<>>
            <3>1. 0 \in 0 .. n
                  BY <1>n
            <3>2. u[0] = next(u, 0)
                  <4> HIDE DEF next
                  <4>1. QED
                        BY <1>6, <3>1
            <3>3. QED
                  BY <3>2
      <2>2. 0 * m = 0
            BY <1>b
      <2>3. <<>> \in Seq(JPoint) /\ Len(<<>>) = 0 * m
            BY <2>2
      <2>4. 0 \in 0 .. n
            BY <1>n
      <2>5. QED
            BY <2>1, <2>3, <2>4
<1>8. ASSUME NEW i \in 1 .. n, i - 1 \in good PROVE i \in good
      <2>1. u[i] = u[i - 1] \o genRow(i)
            <3>1. i \in 0 .. n /\ i # 0
                  BY <1>n
            <3>2. u[i] = next(u, i)
                  <4> HIDE DEF next
                  <4>1. QED
                        BY <1>6, <3>1
            <3>3. QED
                  BY <3>1, <3>2
      <2>2. u[i - 1] \in Seq(JPoint) /\ Len(u[i - 1]) = (i - 1) * m
            BY <1>8
      <2>3. genRow(i) \in Seq(JPoint) /\ Len(genRow(i)) = m
            BY <1>a
      <2>4. u[i] \in Seq(JPoint) /\ Len(u[i]) = (i - 1) * m + m
            BY <2>1, <2>2, <2>3
      <2>5. (i - 1) * m + m = i * m
            BY <1>a, <1>b
      <2>6. i \in 0 .. n
            BY <1>a
      <2>7. QED
            BY <2>4, <2>5, <2>6
<1>9. n \in good
      <2>1. \A i \in 0 .. n : i \in good
            <3> HIDE DEF good
            <3>1. QED
                  BY <1>7, <1>8, <1>a, CountUp
      <2>2. n \in 0 .. n
            BY <1>a
      <2> HIDE DEF good
      <2>3. QED
            BY <2>1, <2>2
<1>10. QED
       BY <1>9, <1>c DEF n, m

\* Points brought to affine coordinates by one inversion.
LEMMA AllAffineTyped ==
    ASSUME NEW a \in Seq(JPoint)
    PROVE  ge_set_all_gej_var(a) \in [1 .. Len(a) -> APoint]
<1> DEFINE n == Len(a)
<1>a. n \in Nat /\ \A i \in 1 .. n : a[i] \in JPoint
      BY ElementOfSeq
<1>b. \A i \in 1 .. n : a[i].z \in Fe
      BY <1>a, PointsAre
<1> HIDE DEF n
<1> DEFINE move == [p \in Fe \X (1 .. n) |-> (IF a[p[2]].inf THEN p[1] ELSE FMul(p[1], a[p[2]].z))]
           next(t, i) == IF i = 0 THEN 1 ELSE (IF a[i].inf THEN t[i - 1] ELSE FMul(t[i - 1], a[i].z))
           u == CHOOSE t : t = [i \in 0 .. n |-> next(t, i)]
<1>0. \A x \in Fe, i \in 1 .. n : (IF a[i].inf THEN x ELSE FMul(x, a[i].z)) \in Fe
      <2>1. ASSUME NEW x \in Fe, NEW i \in 1 .. n PROVE FMul(x, a[i].z) \in Fe
            <3>1. x \in Int /\ a[i].z \in Int
                  BY <1>b, FieldClosed
            <3>2. QED
                  BY <3>1, FieldClosed
      <2>2. QED
            BY <2>1
<1>1. move \in [Fe \X (1 .. n) -> Fe] /\ 1 \in Fe
      BY <1>0, PrimeIs
<1>2. PICK t : Walks(t, n, Fe, 1, move)
      <2> HIDE DEF move
      <2>1. QED
            BY <1>a, <1>1, WalkExists
<1>3. /\ t \in [0 .. n -> Fe] /\ t[0] = 1
      /\ \A i \in 1 .. n : t[i - 1] \in Fe /\ t[i] = move[<<t[i - 1], i>>]
      <2> HIDE DEF move
      <2>1. QED
            BY <1>a, <1>2, WalkMeans
<1>4. t = [i \in 0 .. n |-> next(t, i)]
      <2>1. \A i \in 1 .. n : t[i] = (IF a[i].inf THEN t[i - 1] ELSE FMul(t[i - 1], a[i].z))
            BY <1>3
      <2>2. ASSUME NEW i \in 0 .. n PROVE t[i] = next(t, i)
            <3> HIDE DEF move
            <3>1. QED
                  BY <1>3, <1>a, <2>1
      <2> HIDE DEF next, move
      <2>3. t = [i \in 0 .. n |-> t[i]]
            BY <1>3
      <2>4. QED
            BY <2>2, <2>3
<1>5. u = [i \in 0 .. n |-> next(u, i)]
      <2> HIDE DEF next
      <2>1. QED
            BY <1>4
<1>6. \A i \in 0 .. n : u[i] = next(u, i)
      <2> HIDE DEF u, next
      <2>1. QED
            BY <1>5
<1> HIDE DEF u
<1>7. u[0] \in Fe /\ \A i \in 1 .. n : u[i - 1] \in Fe => u[i] \in Fe
      <2>1. u[0] = 1
            BY <1>6, <1>a
      <2>2. ASSUME NEW i \in 1 .. n PROVE u[i] = (IF a[i].inf THEN u[i - 1] ELSE FMul(u[i - 1], a[i].z))
            BY <1>6, <1>a
      <2>3. QED
            BY <1>0, <1>1, <2>1, <2>2
<1>8. \A i \in 0 .. n : u[i] \in Fe
      BY <1>7, <1>a, StepsTyped
<1> DEFINE last == FInv(u[n])
           walk == [p \in Fe \X (1 .. n) |-> (IF a[n + 1 - p[2]].inf THEN p[1] ELSE FMul(p[1], a[n + 1 - p[2]].z))]
           back(b, i) == IF i = n + 1 THEN last ELSE IF a[i].inf THEN b[i + 1] ELSE FMul(b[i + 1], a[i].z)
           v == CHOOSE b : b = [i \in 1 .. n + 1 |-> back(b, i)]
<1>9. last \in Fe
      <2>1. u[n] \in Fe
            BY <1>8, <1>a
      <2>2. QED
            BY <2>1, InverseTyped
<1> HIDE DEF last, move, next
<1>10. walk \in [Fe \X (1 .. n) -> Fe]
       <2>1. \A i \in 1 .. n : n + 1 - i \in 1 .. n
             BY <1>a
       <2>2. QED
             BY <1>0, <2>1
<1>11. PICK w : Walks(w, n, Fe, last, walk)
       <2> HIDE DEF walk
       <2>1. QED
             BY <1>9, <1>10, <1>a, WalkExists
<1>12. /\ w \in [0 .. n -> Fe] /\ w[0] = last
       /\ \A i \in 1 .. n : w[i - 1] \in Fe /\ w[i] = walk[<<w[i - 1], i>>]
       <2> HIDE DEF walk
       <2>1. QED
             BY <1>a, <1>11, WalkMeans
<1> DEFINE s == [i \in 1 .. n + 1 |-> w[n + 1 - i]]
<1>13. s = [i \in 1 .. n + 1 |-> back(s, i)]
       <2>1. ASSUME NEW i \in 1 .. n + 1 PROVE s[i] = back(s, i)
             <3>1. CASE i = n + 1
                   <4>1. n + 1 - i = 0
                         BY <1>a, <3>1
                   <4>2. s[i] = w[0]
                         BY <4>1
                   <4>3. QED
                         BY <1>12, <3>1, <4>2
             <3>2. CASE i # n + 1
                   <4> DEFINE k == n + 1 - i
                   <4>1. k \in 1 .. n /\ n + 1 - k = i /\ i \in 1 .. n /\ i + 1 \in 1 .. n + 1 /\ n + 1 - (i + 1) = k - 1
                         BY <1>a, <3>2
                   <4>2. s[i] = w[k]
                         OBVIOUS
                   <4>3. s[i + 1] = w[k - 1]
                         BY <4>1
                   <4> HIDE DEF k, s
                   <4>4. w[k - 1] \in Fe /\ w[k] = walk[<<w[k - 1], k>>]
                         <5> HIDE DEF walk
                         <5>1. QED
                               BY <1>12, <4>1
                   <4>5. walk[<<w[k - 1], k>>] = IF a[i].inf THEN w[k - 1] ELSE FMul(w[k - 1], a[i].z)
                         BY <4>1, <4>4
                   <4> HIDE DEF walk
                   <4>6. s[i] = IF a[i].inf THEN s[i + 1] ELSE FMul(s[i + 1], a[i].z)
                         BY <4>2, <4>3, <4>4, <4>5
                   <4>7. QED
                         BY <3>2, <4>6
             <3>3. QED
                   BY <3>1, <3>2
       <2>2. s = [i \in 1 .. n + 1 |-> s[i]]
             OBVIOUS
       <2> HIDE DEF s, back
       <2>3. QED
             BY <2>1, <2>2
<1>14. v = [i \in 1 .. n + 1 |-> back(v, i)]
       <2> HIDE DEF back, s
       <2>1. QED
             BY <1>13
<1>15. \A i \in 1 .. n + 1 : v[i] = back(v, i)
       <2> HIDE DEF v, back
       <2>1. QED
             BY <1>14
<1> HIDE DEF v
<1> DEFINE h == [k \in 0 .. n |-> v[n + 1 - k]]
<1>16. h[0] \in Fe /\ \A k \in 1 .. n : h[k - 1] \in Fe => h[k] \in Fe
       <2>1. h[0] = last
             <3>1. h[0] = v[n + 1] /\ n + 1 \in 1 .. n + 1
                   BY <1>a
             <3>2. QED
                   BY <1>15, <3>1
       <2>2. ASSUME NEW k \in 1 .. n, h[k - 1] \in Fe PROVE h[k] \in Fe
             <3> DEFINE i == n + 1 - k
             <3>1. i \in 1 .. n /\ i \in 1 .. n + 1 /\ i # n + 1 /\ n + 1 - (k - 1) = i + 1 /\ k \in 0 .. n /\ k - 1 \in 0 .. n
                   BY <1>a
             <3>2. h[k] = v[i] /\ h[k - 1] = v[i + 1]
                   BY <3>1
             <3> HIDE DEF i, h
             <3>3. v[i] = back(v, i)
                   <4> HIDE DEF back
                   <4>1. QED
                         BY <1>15, <3>1
             <3>4. v[i] = IF a[i].inf THEN v[i + 1] ELSE FMul(v[i + 1], a[i].z)
                   BY <3>1, <3>3
             <3>5. QED
                   BY <1>0, <2>2, <3>1, <3>2, <3>4
       <2> HIDE DEF h
       <2>3. QED
             BY <1>9, <2>1, <2>2
<1>17. \A i \in 1 .. n + 1 : v[i] \in Fe
       <2>1. \A k \in 0 .. n : h[k] \in Fe
             <3> HIDE DEF h
             <3>1. QED
                   BY <1>16, <1>a, StepsTyped
       <2>2. ASSUME NEW i \in 1 .. n + 1 PROVE v[i] \in Fe
             <3> DEFINE k == n + 1 - i
             <3>1. k \in 0 .. n /\ n + 1 - k = i
                   BY <1>a
             <3>2. h[k] = v[n + 1 - k]
                   BY <3>1
             <3> HIDE DEF k, h
             <3>3. QED
                   BY <2>1, <3>1, <3>2
       <2>3. QED
             BY <2>2
<1> DEFINE f == [i \in 1 .. n |-> IF a[i].inf THEN GeInfinity
                                  ELSE ge_set_gej_zinv(a[i], FMul(u[i - 1], v[i + 1]))]
<1>18. ge_set_all_gej_var(a) = SubSeq(f, 1, n)
       BY DEF ge_set_all_gej_var, Tuple, u, v, last, n, next
<1>19. f \in [1 .. n -> APoint]
       <2>1. ASSUME NEW i \in 1 .. n PROVE ge_set_gej_zinv(a[i], FMul(u[i - 1], v[i + 1])) \in APoint
             <3>1. i - 1 \in 0 .. n /\ i + 1 \in 1 .. n + 1
                   BY <1>a
             <3>2. u[i - 1] \in Int /\ v[i + 1] \in Int
                   BY <1>8, <1>17, <3>1, FieldClosed
             <3>3. FMul(u[i - 1], v[i + 1]) \in Int
                   BY <3>2, FieldClosed
             <3>4. QED
                   BY <1>a, <3>3, AffineTyped
       <2>2. QED
             BY <2>1, PointsAre
<1>20. f = [i \in 1 .. n |-> f[i]]
       BY <1>19
<1>21. ge_set_all_gej_var(a) = f
       <2> HIDE DEF f
       <2>1. QED
             BY <1>18, <1>20, <1>a, TupleIs
<1>22. QED
       BY <1>19, <1>21 DEF n

\* The table of the generator.
LEMMA PrecTyped == prec \in [1 .. genRows * 2 ^ GenBits -> APoint]
<1>1. prec = ge_set_all_gej_var(genPoints)
      BY DEF prec, ecmult_gen_context_build, genPoints, genRow, genSteps, genBases, genRows, rowEntries,
             basesFrom, doublings
<1>2. genPoints \in Seq(JPoint) /\ Len(genPoints) = genRows * 2 ^ GenBits
      BY GenPointsTyped
<1>3. ge_set_all_gej_var(genPoints) \in [1 .. Len(genPoints) -> APoint]
      BY <1>2, AllAffineTyped
<1>4. QED
      BY <1>1, <1>2, <1>3

\* The entry of a row that a window of the scalar asks for is one of the table.
LEMMA EntryTyped ==
    ASSUME NEW g \in Nat, NEW j \in 1 .. genRows
    PROVE  prec[(j - 1) * 2 ^ GenBits + bitsOf(g, (j - 1) * GenBits, GenBits) + 1] \in APoint
<1> DEFINE m == 2 ^ GenBits
           o == 2 ^ ((j - 1) * GenBits)
           b == bitsOf(g, (j - 1) * GenBits, GenBits)
           n == genRows
<1>1. n \in Nat /\ j - 1 \in Nat /\ j <= n
      BY GenRowTyped
<1>2. m \in Nat \ {0}
      BY EcMultAssumption, PowerPositive
<1>3. o \in Nat \ {0}
      <2>1. (j - 1) * GenBits \in Nat
            BY <1>1, EcMultAssumption
      <2>2. QED
            BY <2>1, PowerPositive
<1>4. g \div o \in Nat
      <2> HIDE DEF o
      <2>1. QED
            BY <1>3, QuotientIs
<1>5. b \in Nat /\ b < m
      <2> DEFINE q == g \div o
      <2>1. b = q % m
            BY DEF bitsOf
      <2>2. q \in Nat
            BY <1>4
      <2> HIDE DEF q, m, b
      <2>3. QED
            BY <1>2, <2>1, <2>2
<1> DEFINE i == (j - 1) * m + b + 1
<1>6. i \in 1 .. n * m
      <2> HIDE DEF n, m, b
      <2>1. j * m <= n * m /\ j * m \in Nat /\ n * m \in Nat
            <3>1. m * j <= m * n /\ m * j \in Nat /\ m * n \in Nat
                  BY <1>1, <1>2, ProductGrows
            <3>2. m * j = j * m /\ m * n = n * m
                  BY <1>1, <1>2
            <3>3. QED
                  BY <3>1, <3>2
      <2>2. (j - 1) * m = j * m - m /\ (j - 1) * m \in Nat
            BY <1>1, <1>2
      <2> DEFINE x == (j - 1) * m
                 y == j * m
                 z == n * m
      <2>3. x = y - m /\ x \in Nat /\ y \in Nat /\ z \in Nat /\ y <= z
            BY <2>1, <2>2
      <2>4. i = x + b + 1
            OBVIOUS
      <2> HIDE DEF x, y, z, i
      <2>5. i \in 1 .. z
            BY <1>2, <1>5, <2>3, <2>4
      <2>6. QED
            BY <2>5 DEF z
<1>7. prec[i] \in APoint
      <2> HIDE DEF i
      <2>1. QED
            BY <1>6, PrecTyped DEF n, m
<1>8. QED
      BY <1>7

\* The blinded product with the generator has its coordinates in the field.
LEMMA GenTyped ==
    ASSUME NEW k \in Nat
    PROVE  ecmult_gen(unblinded, k) \in JPoint
<1> DEFINE n == genRows
           g == cadd(k, 1)
           entry(j) == prec[(j - 1) * 2 ^ GenBits + bitsOf(g, (j - 1) * GenBits, GenBits) + 1]
           first == gej_neg(gej_set_ge(ge_const_g))
<1>a. n \in Nat
      BY GenRowTyped
<1>b. g \in Nat
      <2>1. k + 1 \in Nat /\ CurveOrder \in Nat \ {0}
            BY CurveAssumption
      <2>2. QED
            BY <2>1 DEF cadd
<1>c. first \in JPoint
      BY BasesTyped, PointsAre, AffineTyped
<1>d. \A j \in 1 .. n : entry(j) \in APoint
      <2> HIDE DEF g
      <2>1. QED
            BY <1>b, EntryTyped
<1>e. unblinded.blind = 1 /\ unblinded.initial = first
      BY DEF unblinded
<1> DEFINE move == [p \in JPoint \X (1 .. n) |-> gej_add_ge(p[1], entry(p[2]))]
           next(t, i) == IF i = 0 THEN first ELSE gej_add_ge(t[i - 1], entry(i))
           u == CHOOSE t : t = [i \in 0 .. n |-> next(t, i)]
<1>0. \A x \in JPoint, i \in 1 .. n : gej_add_ge(x, entry(i)) \in JPoint
      <2> HIDE DEF entry
      <2>1. QED
            BY <1>d, UnifiedTyped
<1>f. ecmult_gen(unblinded, k) = u[n]
      BY <1>e DEF ecmult_gen, genRows
<1> HIDE DEF entry, first, n
<1>1. move \in [JPoint \X (1 .. n) -> JPoint] /\ first \in JPoint
      BY <1>0, <1>c
<1>2. PICK t : Walks(t, n, JPoint, first, move)
      <2> HIDE DEF move
      <2>1. QED
            BY <1>a, <1>1, WalkExists
<1>3. /\ t \in [0 .. n -> JPoint] /\ t[0] = first
      /\ \A i \in 1 .. n : t[i - 1] \in JPoint /\ t[i] = move[<<t[i - 1], i>>]
      <2> HIDE DEF move
      <2>1. QED
            BY <1>a, <1>2, WalkMeans
<1>4. t = [i \in 0 .. n |-> next(t, i)]
      <2>1. \A i \in 1 .. n : t[i] = gej_add_ge(t[i - 1], entry(i))
            BY <1>3
      <2>2. ASSUME NEW i \in 0 .. n PROVE t[i] = next(t, i)
            <3> HIDE DEF move
            <3>1. QED
                  BY <1>3, <1>a, <2>1
      <2> HIDE DEF next, move
      <2>3. t = [i \in 0 .. n |-> t[i]]
            BY <1>3
      <2>4. QED
            BY <2>2, <2>3
<1>5. u = [i \in 0 .. n |-> next(u, i)]
      <2> HIDE DEF next
      <2>1. QED
            BY <1>4
<1>6. \A i \in 0 .. n : u[i] = next(u, i)
      <2> HIDE DEF u, next
      <2>1. QED
            BY <1>5
<1> HIDE DEF u
<1>7. u[0] \in JPoint /\ \A i \in 1 .. n : u[i - 1] \in JPoint => u[i] \in JPoint
      <2>1. u[0] = first
            BY <1>6, <1>a
      <2>2. ASSUME NEW i \in 1 .. n PROVE u[i] = gej_add_ge(u[i - 1], entry(i))
            BY <1>6, <1>a
      <2>3. QED
            BY <1>0, <1>1, <2>1, <2>2
<1>8. \A i \in 0 .. n : u[i] \in JPoint
      BY <1>7, <1>a, StepsTyped
<1>9. QED
      BY <1>8, <1>a, <1>f

\* The x coordinate of a nonce's point is a number.
LEMMA NoncePoint == ASSUME NEW k \in CurveScalar PROVE gen(k).x \in Int
<1>1. k \in Nat
      BY CurveAssumption DEF CurveScalar
<1>2. gen(k) \in APoint
      BY <1>1, GenTyped, AffineTyped DEF gen
<1>3. QED
      BY <1>2, PointsAre, FieldClosed

-------------------------------------------------------------------------------
(* What a signer makes.                                                    *)

\* The scalars of the curve under the operations.
LEMMA CurveScalarsClosed ==
    /\ \A a, b \in Int : cadd(a, b) \in CurveScalar /\ cmul(a, b) \in CurveScalar /\ a % CurveOrder \in CurveScalar
    /\ \A a \in Int : cneg(a) \in CurveScalar
    /\ \A a \in CurveScalar : cinv(a) \in CurveScalar
    /\ \A a \in CurveScalar : a \in Int
<1>1. CurveOrder \in Nat /\ CurveOrder > 3
      BY ByteIs
<1>2. \A x \in Int : x % CurveOrder \in CurveScalar
      BY <1>1 DEF CurveScalar
<1>3. \A a, b \in Int : a + b \in Int /\ a * b \in Int /\ CurveOrder - a \in Int
      BY <1>1
<1>4. \A a, b \in Int : cadd(a, b) \in CurveScalar /\ cmul(a, b) \in CurveScalar
      BY <1>2, <1>3 DEF cadd, cmul
<1>5. \A a \in Int : cneg(a) \in CurveScalar
      BY <1>2, <1>3 DEF cneg
<1>6. ASSUME NEW a \in CurveScalar PROVE cinv(a) \in CurveScalar
      <2>1. CASE a = 0
            BY <1>6, <2>1 DEF cinv
      <2>2. CASE a # 0
            <3>1. a \in 1 .. CurveOrder - 1
                  BY <1>1, <2>2 DEF CurveScalar
            <3>2. \E i \in 1 .. CurveOrder - 1 : cmul(a, i) = 1
                  BY <3>1, SignaturesAssumption
            <3>3. (CHOOSE i \in 1 .. CurveOrder - 1 : cmul(a, i) = 1) \in 1 .. CurveOrder - 1
                  BY <3>2, Zenon
            <3>4. cinv(a) \in 1 .. CurveOrder - 1
                  BY <2>2, <3>3 DEF cinv
            <3>5. QED
                  BY <1>1, <3>4 DEF CurveScalar
      <2>3. QED
            BY <2>1, <2>2
<1>7. \A a \in CurveScalar : a \in Int
      BY DEF CurveScalar
<1>8. QED
      BY <1>2, <1>4, <1>5, <1>6, <1>7

\* Hashes are 32 bytes.
SignHashesAreBytes == \A t \in Seq(Nat) : SignHash(t) \in Number32

\* Whatever signature comes out of a nonce consists of two scalars.
LEMMA TryIs ==
    ASSUME NEW key \in Nat, NEW msg \in Nat, NEW nonce \in Nat, tryNonce(key, msg, nonce).ok
    PROVE  LET sig == tryNonce(key, msg, nonce).v IN sig.r \in CurveScalar /\ sig.s \in CurveScalar
<1> DEFINE T == tryNonce(key, msg, nonce)
           R == gen(nonce)
           r == scalar_set_b32(R.x)
           s == cmul(cinv(nonce), cadd(cmul(r.v, key), msg))
<1>1. ~Fails.ok
      BY DEF Fails
<1>2. ~(nonce = 0 \/ nonce >= CurveOrder) /\ T = ecdsa_sig_sign(key, msg, nonce)
      BY <1>1 DEF tryNonce
<1>3. CurveOrder \in Nat /\ CurveOrder > 3
      BY ByteIs
<1>4. nonce \in CurveScalar
      BY <1>2, <1>3 DEF CurveScalar
<1>5. T = lowSignature(r, s, R.y % 2)
      BY <1>2 DEF ecdsa_sig_sign, signedWith, signedAt
<1>6. r.v \in CurveScalar
      <2>1. R.x \in Int
            BY <1>4, NoncePoint
      <2>2. r.v = R.x % CurveOrder
            BY DEF scalar_set_b32
      <2>3. QED
            BY <2>1, <2>2, CurveScalarsClosed
<1>7. s \in CurveScalar
      <2> HIDE DEF r
      <2>0. cinv(nonce) \in CurveScalar
            BY <1>4, CurveScalarsClosed
      <2>1. cinv(nonce) \in Int /\ r.v \in Int /\ key \in Int /\ msg \in Int
            <3>1. \A a \in CurveScalar : a \in Int
                  BY CurveScalarsClosed
            <3>2. QED
                  BY <1>6, <2>0, <3>1
      <2>2. cmul(r.v, key) \in Int
            BY <2>1, CurveScalarsClosed
      <2>3. cadd(cmul(r.v, key), msg) \in Int
            BY <2>1, <2>2, CurveScalarsClosed
      <2>4. QED
            BY <2>1, <2>3, CurveScalarsClosed
<1> DEFINE p == R.y % 2
<1> HIDE DEF T, r, s, p
<1>8. T = IF s = 0 THEN Fails
          ELSE Gives([r |-> r.v, s |-> IF isHigh(s) THEN cneg(s) ELSE s,
                      recid |-> (IF r.overflow THEN 2 ELSE 0) + (IF isHigh(s) THEN 1 - p ELSE p)])
      BY <1>5 DEF lowSignature, p
<1>9. T.ok
      BY DEF T
<1>10. T.v.r = r.v /\ T.v.s = IF isHigh(s) THEN cneg(s) ELSE s
       BY <1>1, <1>8, <1>9 DEF Gives
<1>11. cneg(s) \in CurveScalar
       BY <1>7, CurveScalarsClosed, CurveScalarsFit
<1>12. QED
       BY <1>6, <1>7, <1>10, <1>11 DEF T

\* So does the signature that the first nonce that fits makes.
LEMMA SignedIs ==
    ASSUME SignHashesAreBytes, NEW key \in Nat, NEW msg \in Nat, NEW data \in Seq(Nat),
           ecdsa_sign_recoverable(key, msg, data).ok
    PROVE  LET sig == ecdsa_sign_recoverable(key, msg, data).v IN sig.r \in CurveScalar /\ sig.s \in CurveScalar
<1> DEFINE S == ecdsa_sign_recoverable(key, msg, data)
           m == msg % CurveOrder
           tries == [c \in 0 .. MaxDraws - 1 |-> tryNonce(key, m, nonce_function_rfc6979(msg, key, data, c))]
           first(c) == tries[c].ok /\ \A b \in 0 .. c - 1 : ~tries[b].ok
           c0 == CHOOSE c \in DOMAIN tries : first(c)
<1>1. ~Fails.ok
      BY DEF Fails
<1>2. S = firstMade(tries)
      BY <1>1 DEF ecdsa_sign_recoverable
<1>3. (\E c \in DOMAIN tries : tries[c].ok) /\ S = tries[c0]
      <2>1. firstMade(tries) = IF \E c \in DOMAIN tries : tries[c].ok THEN tries[c0] ELSE Fails
            BY DEF firstMade
      <2> HIDE DEF tries, c0, S
      <2>2. S.ok
            BY DEF S
      <2>3. QED
            BY <1>1, <1>2, <2>1, <2>2
<1>4. DOMAIN tries = 0 .. MaxDraws - 1 /\ MaxDraws \in Nat
      BY DEF MaxDraws
<1>5. m \in Nat
      <2>1. msg \in Int /\ CurveScalar \subseteq Nat
            BY CurveScalarsFit
      <2>2. m \in CurveScalar
            BY <2>1, CurveScalarsClosed
      <2> HIDE DEF m
      <2>3. QED
            BY <2>1, <2>2
<1>6. ASSUME NEW c \in 0 .. MaxDraws - 1
      PROVE  tries[c].ok => tries[c].v.r \in CurveScalar /\ tries[c].v.s \in CurveScalar
      <2> DEFINE nonce == nonce_function_rfc6979(msg, key, data, c)
      <2>1. nonce \in Nat
            <3>1. c \in Nat /\ <<key, msg>> \in Seq(Nat) /\ <<c>> \in Seq(Nat)
                  BY <1>4
            <3>2. (<<key, msg>> \o data) \o <<c>> \in Seq(Nat)
                  <4>1. <<key, msg>> \o data \in Seq(Nat)
                        BY <3>1, ConcatProperties
                  <4>2. QED
                        BY <3>1, <4>1, ConcatProperties
            <3>3. SignHash((<<key, msg>> \o data) \o <<c>>) \in Number32
                  BY <3>2 DEF SignHashesAreBytes
            <3>4. Number32 \subseteq Nat
                  BY DEF Number32
            <3>5. QED
                  BY <3>3, <3>4 DEF nonce_function_rfc6979
      <2>2. tries[c] = tryNonce(key, m, nonce)
            OBVIOUS
      <2> HIDE DEF nonce, tries, m
      <2>3. QED
            BY <1>5, <2>1, <2>2, TryIs
<1>7. c0 \in DOMAIN tries /\ first(c0)
      <2>1. \E c \in DOMAIN tries : first(c)
            <3> DEFINE made == {c \in DOMAIN tries : tries[c].ok}
            <3>1. made \subseteq Nat /\ made # {}
                  <4> HIDE DEF tries
                  <4>1. QED
                        BY <1>3, <1>4
            <3> HIDE DEF made
            <3>2. PICK k \in made : \A b \in made : k <= b
                  BY <3>1, LeastOf
            <3> HIDE DEF tries
            <3>3. k \in DOMAIN tries /\ tries[k].ok /\ k \in Nat
                  BY <3>1 DEF made
            <3>4. ASSUME NEW b \in 0 .. k - 1 PROVE ~tries[b].ok
                  <4>1. b \in DOMAIN tries
                        BY <1>4, <3>3
                  <4>2. b \notin made
                        BY <3>2, <3>3
                  <4>3. QED
                        BY <4>1, <4>2 DEF made
            <3>5. QED
                  BY <3>3, <3>4
      <2> HIDE DEF first
      <2>2. QED
            BY <2>1, Zenon
<1> HIDE DEF tries, S, c0
<1>8. S.ok
      BY DEF S
<1>9. S.v.r \in CurveScalar /\ S.v.s \in CurveScalar
      BY <1>3, <1>4, <1>6, <1>7, <1>8
<1>10. QED
       BY <1>9 DEF S

\* The states of a signer.
HasKey(s) ==
    /\ s = [at |-> "key", ctx |-> s.ctx, flags |-> s.flags, key |-> s.key, P |-> s.P, msg |-> s.msg,
            data |-> s.data, tweaks |-> s.tweaks, batch |-> s.batch, spoiled |-> s.spoiled]
    /\ s.key \in Nat /\ s.msg \in Nat /\ s.data \in Seq(Nat)
HasSigned(s) ==
    /\ s = [at |-> "ecdsa", key |-> s.key, P |-> s.P, msg |-> s.msg, made |-> s.made, sig |-> s.sig]
    /\ s.made => s.sig.r \in CurveScalar /\ s.sig.s \in CurveScalar
HasSent(s) ==
    /\ s = [at |-> "wire", r |-> s.r, s |-> s.s, edits |-> s.edits, bytes |-> s.bytes]
    /\ s.r \in CurveScalar /\ s.s \in CurveScalar /\ s.bytes \in Bytes
    /\ s.edits = 0 => s.bytes = written(s.r, s.s)
SignerSound ==
    \/ signer = SignerIdle
    \/ HasKey(signer)
    \/ HasSigned(signer)
    \/ HasSent(signer)
    \/ signer.at = "stopped"

\* Where a signer is says what it has.
LEMMA SignerIsAt ==
    ASSUME SignerSound
    PROVE  /\ signer.at = "key" => HasKey(signer)
           /\ signer.at = "ecdsa" => HasSigned(signer)
           /\ signer.at = "wire" => HasSent(signer)
<1>1. signer = SignerIdle => signer.at = "idle"
      BY DEF SignerIdle
<1>2. HasKey(signer) => signer.at = "key"
      BY DEF HasKey
<1>3. HasSigned(signer) => signer.at = "ecdsa"
      BY DEF HasSigned
<1>4. HasSent(signer) => signer.at = "wire"
      BY DEF HasSent
<1>5. QED
      BY <1>1, <1>2, <1>3, <1>4 DEF SignerSound

\* A tweak of a key gives a number.
LEMMA TweakedKeys ==
    ASSUME NEW k \in Nat
    PROVE  /\ \A t \in Nat : /\ ec_privkey_tweak_add(k, t).ok => ec_privkey_tweak_add(k, t).v \in Nat
                             /\ ec_privkey_tweak_mul(k, t).ok => ec_privkey_tweak_mul(k, t).v \in Nat
           /\ ec_privkey_negate(k) \in Nat
           /\ ec_privkey_tweak_inv(k).ok => ec_privkey_tweak_inv(k).v \in Nat
<1>1. ~Fails.ok /\ \A v : Gives(v).v = v
      BY DEF Fails, Gives
<1>2. k \in Int /\ CurveScalar \subseteq Nat
      BY CurveScalarsFit
<1>3. k % CurveOrder \in CurveScalar
      BY <1>2, CurveScalarsClosed
<1>4. k % CurveOrder \in Int
      <2>1. \A a \in CurveScalar : a \in Int
            BY CurveScalarsClosed
      <2>2. QED
            BY <1>3, <2>1
<1> DEFINE m == k % CurveOrder
<1> HIDE DEF m
<1>5. m \in Int
      BY <1>4 DEF m
<1>6. ASSUME NEW t \in Nat
      PROVE  /\ ec_privkey_tweak_add(k, t).ok => ec_privkey_tweak_add(k, t).v \in Nat
             /\ ec_privkey_tweak_mul(k, t).ok => ec_privkey_tweak_mul(k, t).v \in Nat
      <2>1. t \in Int
            OBVIOUS
      <2>2. cadd(m, t) \in CurveScalar /\ cmul(m, t) \in CurveScalar
            BY <1>5, <2>1, CurveScalarsClosed
      <2>3. cadd(m, t) \in Nat /\ cmul(m, t) \in Nat
            BY <1>2, <2>2
      <2>4. ec_privkey_tweak_add(k, t).ok => ec_privkey_tweak_add(k, t) = Gives(cadd(m, t))
            BY <1>1 DEF ec_privkey_tweak_add, m
      <2>5. ec_privkey_tweak_mul(k, t).ok => ec_privkey_tweak_mul(k, t) = Gives(cmul(m, t))
            BY <1>1 DEF ec_privkey_tweak_mul, m
      <2>6. QED
            BY <1>1, <2>3, <2>4, <2>5
<1>7. ec_privkey_negate(k) \in Nat
      <2>1. cneg(m) \in CurveScalar
            BY <1>5, CurveScalarsClosed
      <2>2. QED
            BY <1>2, <2>1 DEF ec_privkey_negate, m
<1>8. ASSUME ec_privkey_tweak_inv(k).ok PROVE ec_privkey_tweak_inv(k).v \in Nat
      <2>1. k < CurveOrder /\ ec_privkey_tweak_inv(k) = Gives(cinv(k))
            BY <1>1, <1>8 DEF ec_privkey_tweak_inv
      <2>2. k \in CurveScalar
            BY <2>1, ByteIs DEF CurveScalar
      <2>3. cinv(k) \in CurveScalar
            BY <2>2, CurveScalarsClosed
      <2>4. QED
            BY <1>1, <1>2, <2>1, <2>3
<1>9. QED
      BY <1>6, <1>7, <1>8

\* A signer that goes on with another key.
LEMMA TweakedSound ==
    ASSUME HasKey(signer), NEW secret, NEW public, secret.ok => secret.v \in Nat,
           signer' = tweaked(secret, public)
    PROVE  SignerSound'
<1>1. CASE secret.ok /\ public.ok
      <2> DEFINE c == signer.ctx
                 f == signer.flags
                 k == signer.key
                 Q == signer.P
                 m == signer.msg
                 d == signer.data
                 n == signer.tweaks
                 w == signer.batch
                 y == signer.spoiled
      <2>1. signer' = [signer EXCEPT !.key = secret.v, !.P = public.v, !.tweaks = @ + 1]
            BY <1>1 DEF tweaked
      <2>2. signer = [at |-> "key", ctx |-> c, flags |-> f, key |-> k, P |-> Q, msg |-> m, data |-> d,
                      tweaks |-> n, batch |-> w, spoiled |-> y]
            /\ m \in Nat /\ d \in Seq(Nat)
            BY DEF HasKey
      <2> HIDE DEF c, f, k, Q, m, d, n, w, y
      <2>3. signer' = [at |-> "key", ctx |-> c, flags |-> f, key |-> secret.v, P |-> public.v, msg |-> m,
                       data |-> d, tweaks |-> n + 1, batch |-> w, spoiled |-> y]
            BY <2>1, <2>2
      <2>4. HasKey(signer')
            BY <1>1, <2>2, <2>3 DEF HasKey
      <2>5. QED
            BY <2>4 DEF SignerSound, HasKey
<1>2. CASE ~(secret.ok /\ public.ok)
      <2>1. signer'.at = "stopped"
            BY <1>2 DEF tweaked
      <2>2. QED
            BY <2>1 DEF SignerSound
<1>3. QED
      BY <1>1, <1>2

\* Collecting signatures and spoiling one leaves the key alone.
LEMMA KeyStays ==
    ASSUME HasKey(signer), NEW t, NEW b, NEW z,
           signer' = [signer EXCEPT !.tweaks = t, !.batch = b, !.spoiled = z]
    PROVE  SignerSound'
<1> DEFINE c == signer.ctx
           f == signer.flags
           k == signer.key
           Q == signer.P
           m == signer.msg
           d == signer.data
           n == signer.tweaks
           w == signer.batch
           y == signer.spoiled
<1>1. signer = [at |-> "key", ctx |-> c, flags |-> f, key |-> k, P |-> Q, msg |-> m, data |-> d,
                tweaks |-> n, batch |-> w, spoiled |-> y]
      /\ k \in Nat /\ m \in Nat /\ d \in Seq(Nat)
      BY DEF HasKey
<1>2. signer' = [signer EXCEPT !.tweaks = t, !.batch = b, !.spoiled = z]
      OBVIOUS
<1> HIDE DEF c, f, k, Q, m, d, n, w, y
<1>3. signer' = [at |-> "key", ctx |-> c, flags |-> f, key |-> k, P |-> Q, msg |-> m, data |-> d,
                 tweaks |-> t, batch |-> b, spoiled |-> z]
      BY <1>1, <1>2
<1>4. HasKey(signer')
      BY <1>1, <1>3 DEF HasKey
<1>5. QED
      BY <1>4 DEF SignerSound, HasKey

\* Bytes with one of them replaced, put in or left out are bytes.
LEMMA MangledIs ==
    ASSUME NEW x \in Bytes, NEW i \in DOMAIN x, NEW upTo \in {i - 1, i},
           NEW new \in {<<>>} \union {<<b>> : b \in WireBytes}
    PROVE  SubSeq(x, 1, upTo) \o new \o SubSeq(x, i + 1, Len(x)) \in Bytes
<1>1. x \in Seq(Byte) /\ Len(x) \in Nat /\ i \in 1 .. Len(x) /\ \A k \in 1 .. Len(x) : x[k] \in Byte
      <2>1. DOMAIN x = 1 .. Len(x)
            BY BytesTyped
      <2>2. QED
            BY <2>1, BytesTyped
<1>2. SubSeq(x, 1, upTo) \in Seq(Byte)
      <2>1. 1 \in Int /\ upTo \in Int /\ \A k \in 1 .. upTo : k \in 1 .. Len(x)
            BY <1>1
      <2>2. \A k \in 1 .. upTo : x[k] \in Byte
            BY <1>1, <2>1
      <2>3. QED
            BY <2>1, <2>2, SubSeqProperties
<1>3. SubSeq(x, i + 1, Len(x)) \in Seq(Byte)
      <2>1. i + 1 \in Int /\ Len(x) \in Int /\ \A k \in i + 1 .. Len(x) : k \in 1 .. Len(x)
            BY <1>1
      <2>2. \A k \in i + 1 .. Len(x) : x[k] \in Byte
            BY <1>1, <2>1
      <2>3. QED
            BY <2>1, <2>2, SubSeqProperties
<1>4. new \in Seq(Byte)
      <2>1. WireBytes \subseteq Byte
            BY SignaturesAssumption DEF Byte
      <2>2. CASE new = <<>>
            BY <2>2
      <2>3. CASE new \in {<<b>> : b \in WireBytes}
            <3>1. PICK b \in WireBytes : new = <<b>>
                  BY <2>3
            <3>2. b \in Byte
                  BY <2>1
            <3>3. QED
                  BY <3>1, <3>2
      <2>4. QED
            BY <2>2, <2>3
<1>5. SubSeq(x, 1, upTo) \o new \in Seq(Byte)
      BY <1>2, <1>4, ConcatProperties
<1>6. (SubSeq(x, 1, upTo) \o new) \o SubSeq(x, i + 1, Len(x)) \in Seq(Byte)
      BY <1>3, <1>5, ConcatProperties
<1>7. QED
      BY <1>6 DEF Bytes

\* A step of a signer.
LEMMA SignerStep ==
    ASSUME SignHashesAreBytes, SignerSound, SignerNext
    PROVE  SignerSound'
<1>1. ASSUME signer.at = "key" PROVE HasKey(signer) /\ signer.key \in Nat /\ signer.msg \in Nat /\ signer.data \in Seq(Nat)
      <2>1. HasKey(signer)
            BY <1>1, SignerIsAt
      <2>2. QED
            BY <2>1 DEF HasKey
<1>2. Tweaks \subseteq Nat /\ \A job \in SignJobs : job.key \in Nat /\ job.msg \in Nat /\ job.data \in Seq(Nat)
      BY SignaturesAssumption
<1>3. \A v : Gives(v).ok = TRUE /\ Gives(v).v = v
      BY DEF Gives
<1>4. ASSUME NEW job \in SignJobs, SignerBegin(job) PROVE SignerSound'
      <2> DEFINE c == context_clone(context_create(job.flags))
                 Q == ec_pubkey_create(job.key)
      <2>1. signer' = [at |-> "key", ctx |-> c, flags |-> job.flags, key |-> job.key, P |-> Q, msg |-> job.msg,
                       data |-> job.data, tweaks |-> 0, batch |-> <<>>, spoiled |-> FALSE]
            BY <1>4 DEF SignerBegin
      <2>2. job.key \in Nat /\ job.msg \in Nat /\ job.data \in Seq(Nat)
            BY <1>2
      <2> HIDE DEF c, Q
      <2>3. HasKey(signer')
            BY <2>1, <2>2 DEF HasKey
      <2>4. QED
            BY <2>3 DEF SignerSound, HasKey
<1>5. ASSUME NEW t \in Tweaks, TweakAdd(t) PROVE SignerSound'
      <2> DEFINE secret == ec_privkey_tweak_add(signer.key, t)
                 public == ec_pubkey_tweak_add(signer.P, t)
      <2>1. signer.at = "key" /\ signer' = tweaked(secret, public)
            BY <1>5 DEF TweakAdd, mayTweak
      <2>2. HasKey(signer) /\ (secret.ok => secret.v \in Nat)
            BY <1>1, <1>2, <2>1, TweakedKeys
      <2> HIDE DEF secret, public
      <2>3. QED
            BY <2>1, <2>2, TweakedSound
<1>6. ASSUME NEW t \in Tweaks, TweakMul(t) PROVE SignerSound'
      <2> DEFINE secret == ec_privkey_tweak_mul(signer.key, t)
                 public == ec_pubkey_tweak_mul(signer.P, t)
      <2>1. signer.at = "key" /\ signer' = tweaked(secret, public)
            BY <1>6 DEF TweakMul, mayTweak
      <2>2. HasKey(signer) /\ (secret.ok => secret.v \in Nat)
            BY <1>1, <1>2, <2>1, TweakedKeys
      <2> HIDE DEF secret, public
      <2>3. QED
            BY <2>1, <2>2, TweakedSound
<1>7. ASSUME NEW t \in Tweaks, Combine(t) PROVE SignerSound'
      <2> DEFINE secret == ec_privkey_tweak_add(signer.key, t)
                 public == ec_pubkey_combine(<<signer.P, ec_pubkey_create(t)>>)
      <2>1. signer.at = "key" /\ signer' = tweaked(secret, public)
            BY <1>7 DEF Combine, mayTweak
      <2>2. HasKey(signer) /\ (secret.ok => secret.v \in Nat)
            BY <1>1, <1>2, <2>1, TweakedKeys
      <2> HIDE DEF secret, public
      <2>3. QED
            BY <2>1, <2>2, TweakedSound
<1>8. ASSUME TweakNegate PROVE SignerSound'
      <2> DEFINE secret == Gives(ec_privkey_negate(signer.key))
                 public == ec_pubkey_negate(signer.P)
      <2>1. signer.at = "key" /\ signer' = tweaked(secret, public)
            BY <1>8 DEF TweakNegate, mayTweak
      <2>2. HasKey(signer) /\ (secret.ok => secret.v \in Nat)
            BY <1>1, <1>3, <2>1, TweakedKeys
      <2> HIDE DEF secret, public
      <2>3. QED
            BY <2>1, <2>2, TweakedSound
<1>9. ASSUME TweakInvert PROVE SignerSound'
      <2> DEFINE secret == ec_privkey_tweak_inv(signer.key)
                 public == known(IF secret.ok THEN ec_pubkey_create(secret.v) ELSE NoKey)
      <2>1. signer.at = "key" /\ signer' = tweaked(secret, public)
            BY <1>9 DEF TweakInvert, mayTweak, withItsKey
      <2>2. HasKey(signer) /\ (secret.ok => secret.v \in Nat)
            BY <1>1, <2>1, TweakedKeys
      <2> HIDE DEF secret, public
      <2>3. QED
            BY <2>1, <2>2, TweakedSound
<1>10. ASSUME SignEcdsa PROVE SignerSound'
       <2> DEFINE S == ecdsa_sign_recoverable(signer.key, signer.msg, signer.data)
                  sig == IF S.ok THEN S.v ELSE [r |-> 0, s |-> 0, recid |-> 0]
       <2>1. signer.at = "key" /\ signer' = signedEcdsa(S)
             BY <1>10 DEF SignEcdsa
       <2>2. S.ok => S.v.r \in CurveScalar /\ S.v.s \in CurveScalar
             BY <1>1, <2>1, SignedIs
       <2> HIDE DEF S
       <2>3. signer' = [at |-> "ecdsa", key |-> signer.key, P |-> signer.P, msg |-> signer.msg,
                        made |-> S.ok, sig |-> sig]
             BY <2>1 DEF signedEcdsa
       <2>4. S.ok => sig = S.v
             OBVIOUS
       <2> HIDE DEF sig
       <2>5. HasSigned(signer')
             BY <2>2, <2>3, <2>4 DEF HasSigned
       <2>6. QED
             BY <2>5 DEF SignerSound, HasSigned
<1>11. ASSUME NEW r, NEW s, Replace(r, s) PROVE SignerSound'
       <2> DEFINE key == signer.key
                  Q == signer.P
                  msg == signer.msg
                  other == [r |-> r, s |-> s, recid |-> 0]
                  made == signer.made
                  sig == signer.sig
       <2>1. signer.at = "ecdsa" /\ signer' = [signer EXCEPT !.made = FALSE, !.sig = other]
             BY <1>11 DEF Replace
       <2>2. HasSigned(signer)
             BY <2>1, SignerIsAt
       <2>3. signer = [at |-> "ecdsa", key |-> key, P |-> Q, msg |-> msg, made |-> made, sig |-> sig]
             BY <2>2 DEF HasSigned
       <2> HIDE DEF key, Q, msg, made, sig, other
       <2>4. signer' = [at |-> "ecdsa", key |-> key, P |-> Q, msg |-> msg, made |-> FALSE, sig |-> other]
             BY <2>1, <2>3
       <2>5. HasSigned(signer')
             BY <2>4 DEF HasSigned
       <2>6. QED
             BY <2>5 DEF SignerSound, HasSigned
<1>12. ASSUME SendDer PROVE SignerSound'
       <2> DEFINE sig == signer.sig
                  x == ecdsa_sig_serialize(sig, 2 * ScalarBytes + 8).v
       <2>1. signer.at = "ecdsa" /\ signer.made
             /\ signer' = [at |-> "wire", r |-> sig.r, s |-> sig.s, edits |-> 0, bytes |-> x]
             BY <1>12 DEF SendDer
       <2>2. sig.r \in CurveScalar /\ sig.s \in CurveScalar
             <3>1. HasSigned(signer)
                   BY <2>1, SignerIsAt
             <3>2. QED
                   BY <2>1, <3>1 DEF HasSigned
       <2> HIDE DEF sig
       <2>3. x = written(sig.r, sig.s)
             BY <2>2, SerializeIs
       <2> HIDE DEF x
       <2>4. x \in Bytes
             BY <2>2, <2>3, WrittenIs
       <2>5. HasSent(signer')
             BY <2>1, <2>2, <2>3, <2>4 DEF HasSent
       <2>6. QED
             BY <2>5 DEF SignerSound, HasSent
<1>13. ASSUME NEW i, NEW new \in {<<>>} \union {<<b>> : b \in WireBytes}, Mangle(i, new) PROVE SignerSound'
       <2> DEFINE r == signer.r
                  s == signer.s
                  x == signer.bytes
                  edits == signer.edits
                  mangled(upTo) == SubSeq(x, 1, upTo) \o new \o SubSeq(x, i + 1, Len(x))
       <2>1. PICK upTo \in {i - 1, i} : signer' = [signer EXCEPT !.edits = 1, !.bytes = mangled(upTo)]
             BY <1>13 DEF Mangle
       <2>2. signer.at = "wire" /\ i \in DOMAIN x
             BY <1>13 DEF Mangle
       <2>3. signer = [at |-> "wire", r |-> r, s |-> s, edits |-> edits, bytes |-> x]
             /\ r \in CurveScalar /\ s \in CurveScalar /\ x \in Bytes
             <3>1. HasSent(signer)
                   BY <2>2, SignerIsAt
             <3>2. QED
                   BY <3>1 DEF HasSent
       <2> DEFINE y == mangled(upTo)
       <2>4. y \in Bytes
             BY <2>2, <2>3, MangledIs
       <2>5. signer' = [signer EXCEPT !.edits = 1, !.bytes = y]
             BY <2>1
       <2> HIDE DEF r, s, x, edits, y, mangled
       <2>6. signer' = [at |-> "wire", r |-> r, s |-> s, edits |-> 1, bytes |-> y]
             BY <2>3, <2>5
       <2>7. HasSent(signer')
             BY <2>3, <2>4, <2>6 DEF HasSent
       <2>8. QED
             BY <2>7 DEF SignerSound, HasSent
<1>14. ASSUME SignSchnorr PROVE SignerSound'
       <2> DEFINE sig == schnorrsig_sign(signer.key, signer.msg)
                  b == Append(signer.batch, [sig |-> sig.v, msg |-> signer.msg, P |-> signer.P])
       <2>1. signer.at = "key" /\ signer' = collected(sig)
             BY <1>14 DEF SignSchnorr
       <2>2. HasKey(signer)
             BY <1>1, <2>1
       <2>3. CASE sig.ok
             <3> DEFINE n == signer.tweaks
                        z == signer.spoiled
             <3>1. signer' = [signer EXCEPT !.batch = b]
                   BY <2>1, <2>3 DEF collected
             <3>2. signer = [signer EXCEPT !.tweaks = n, !.spoiled = z]
                   BY <2>2 DEF HasKey
             <3> HIDE DEF b, n, z
             <3>3. signer' = [signer EXCEPT !.tweaks = n, !.batch = b, !.spoiled = z]
                   BY <3>1, <3>2
             <3>4. QED
                   BY <2>2, <3>3, KeyStays
       <2>4. CASE ~sig.ok
             <3>1. signer'.at = "stopped"
                   BY <2>1, <2>4 DEF collected
             <3>2. QED
                   BY <3>1 DEF SignerSound
       <2>5. QED
             BY <2>3, <2>4
<1>15. ASSUME NEW i, SpoilSchnorr(i) PROVE SignerSound'
       <2> DEFINE b == [signer.batch EXCEPT ![i].sig.s = cadd(@, 1)]
       <2>1. signer.at = "key" /\ signer' = [signer EXCEPT !.tweaks = MaxTweaks, !.batch = b, !.spoiled = TRUE]
             BY <1>15 DEF SpoilSchnorr
       <2>2. HasKey(signer)
             BY <1>1, <2>1
       <2> HIDE DEF b
       <2>3. QED
             BY <2>1, <2>2, KeyStays
<1>16. QED
       BY <1>4, <1>5, <1>6, <1>7, <1>8, <1>9, <1>10, <1>11, <1>12, <1>13, <1>14, <1>15 DEF SignerNext

SignerSpec == signer = SignerIdle /\ [][SignerNext]_signer

\* What WireFormsAgree says, for every hash that gives 32 bytes: the strict reader
\* gives back what was written for a signature; when a byte was replaced, put in or
\* left out, it takes for two numbers other than 0 only what is written for them;
\* and the lax reader then reads the same.
THEOREM WireFormsAlwaysAgree ==
    SignHashesAreBytes => (SignerSpec => []WireFormsAgree)
<1> SUFFICES ASSUME SignHashesAreBytes PROVE SignerSpec => []WireFormsAgree
    OBVIOUS
<1>1. signer = SignerIdle => SignerSound
      BY DEF SignerSound
<1>2. SignerSound /\ [SignerNext]_signer => SignerSound'
      <2>1. CASE signer' = signer
            BY <2>1 DEF SignerSound, HasKey, HasSigned, HasSent
      <2>2. CASE SignerNext
            BY <2>2, SignerStep
      <2>3. QED
            BY <2>1, <2>2
<1>3. SignerSound => WireFormsAgree
      <2> SUFFICES ASSUME SignerSound, signer.at = "wire"
                   PROVE  wireMeans(ecdsa_signature_parse_der(signer.bytes), signer.bytes)
          BY DEF WireFormsAgree
      <2>1. HasSent(signer)
            BY SignerIsAt
      <2>2. /\ signer.bytes \in Bytes /\ signer.r \in CurveScalar /\ signer.s \in CurveScalar
            /\ signer.edits = 0 => signer.bytes = written(signer.r, signer.s)
            BY <2>1 DEF HasSent
      <2>3. QED
            BY <2>2, WireMeans
<1>4. QED
      BY <1>1, <1>2, <1>3, PTL DEF SignerSpec
===============================================================================
