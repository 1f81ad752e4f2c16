---------------------------- MODULE BorromeanProofs ----------------------------
(***************************************************************************)
(* Theorems about the proofs that a Borromean ring signature closes: range *)
(* proofs and proofs over lists that are made as asked are accepted for    *)
(* what they say, in a group of any odd order.                             *)
(***************************************************************************)
EXTENDS LibraryProofs, ListProofs

-------------------------------------------------------------------------------
(* Borromean ring signatures.                                              *)

\* What SHA-256 and the generator of the proofs over ranges and lists give.
RangeHashesAreBytes == \A t \in Seq(Nat) : RangeHash(t) \in Bytes32

\* What a ring hashes is 32 bytes.
LEMMA LinkHashed ==
    ASSUME RangeHashesAreBytes, NEW m \in Nat, NEW t \in Seq(Nat), NEW a \in Nat, NEW b \in Nat
    PROVE  borromean_hash(m, t, a, b) \in Bytes32
<1>1. t \o <<m, a, b>> \in Seq(Nat)
      OBVIOUS
<1>2. QED
      BY <1>1 DEF RangeHashesAreBytes, borromean_hash

\* A link of a ring: a challenge and an answer give a point.
LEMMA LinkTyped ==
    ASSUME NEW P \in Point, NEW e \in Bytes32, NEW s \in Scalar
    PROVE  /\ ecmult(P, e, s) = GAdd(GMul(ScalarOf(e), P), GMul(s, G))
           /\ ecmult(P, e, s) \in Point /\ ScalarOf(e) \in Scalar
<1>1. ScalarOf(e) \in Scalar
      BY BytesMakeScalars
<1>2. GMul(ScalarOf(e), P) \in Point /\ GMul(s, G) \in Point
      BY <1>1, GMulIs, MultipleIs
<1>3. QED
      BY <1>1, <1>2, GAddIs DEF ecmult

\* w holds the challenges and the points of ring i from one position to another.
Links(w, m, i, P, r, from, to, e) ==
    /\ w \in [from .. to -> [e : Bytes32, R : Point]]
    /\ from <= to => w[from].e = e
    /\ \A j \in from + 1 .. to : w[j].e = borromean_hash(m, w[j - 1].R, i - 1, j - 1)
    /\ \A j \in from .. to : w[j].R = ecmult(P[j], w[j].e, r[j])

\* A walk along a ring takes every challenge from the point before it.
LEMMA RingWalkIs ==
    ASSUME RangeHashesAreBytes, NEW m \in Nat, NEW i \in Nat \ {0}, NEW pubs, NEW s, NEW n \in Nat,
           pubs[i] \in Points(n), s[i] \in Scalars(n),
           NEW from \in 1 .. n + 1, NEW to \in 0 .. n, NEW e \in Bytes32
    PROVE  Links(ringWalk(m, i, pubs, s, from, to, e), m, i, pubs[i], s[i], from, to, e)
<1> DEFINE Entry == [e : Bytes32, R : Point]
           P == pubs[i]
           r == s[i]
           next(w, j) == LET ej == IF j = from THEN e ELSE borromean_hash(m, w[j - 1].R, i - 1, j - 1)
                         IN [e |-> ej, R |-> ecmult(P[j], ej, r[j])]
           u == CHOOSE w : w = [j \in from .. to |-> next(w, j)]
<1>1. \A j \in from .. to : j \in 1 .. n /\ P[j] \in Point /\ r[j] \in Scalar
      BY DEF Points, Scalars
<1>2. ringWalk(m, i, pubs, s, from, to, e) = u
      BY DEF ringWalk
<1> HIDE DEF P, r
<1>3. \E w \in [from .. to -> Entry] : \A j \in from .. to : w[j] = next(w, j)
      <2>1. CASE from > to
            <3> DEFINE v == [j \in from .. to |-> [e |-> e, R |-> Infinity]]
            <3>1. from .. to = {}
                  BY <2>1
            <3>2. v \in [from .. to -> Entry]
                  BY <3>1
            <3>3. QED
                  BY <3>1, <3>2
      <2>2. CASE from <= to
            <3> DEFINE start == [e |-> e, R |-> ecmult(P[from], e, r[from])]
                       hashed(x, j) == borromean_hash(m, x.R, i - 1, from + j - 1)
                       linked(x, j) == [e |-> hashed(x, j), R |-> ecmult(P[from + j], hashed(x, j), r[from + j])]
                       move == [p \in Entry \X (1 .. to - from) |-> linked(p[1], p[2])]
            <3>1. start \in Entry
                  <4>1. from \in from .. to
                        BY <2>2
                  <4>2. ecmult(P[from], e, r[from]) \in Point
                        BY <1>1, <4>1, LinkTyped
                  <4>3. QED
                        BY <4>2
            <3>2. ASSUME NEW x \in Entry, NEW j \in 1 .. to - from PROVE linked(x, j) \in Entry
                  <4>1. from + j \in from .. to /\ i - 1 \in Nat /\ from + j - 1 \in Nat
                        BY <2>2
                  <4>2. x.R \in Point /\ x.R \in Seq(Nat)
                        BY PointIsTuple
                  <4>3. hashed(x, j) \in Bytes32
                        BY <4>1, <4>2, LinkHashed
                  <4> HIDE DEF hashed
                  <4>4. ecmult(P[from + j], hashed(x, j), r[from + j]) \in Point
                        BY <1>1, <4>1, <4>3, LinkTyped
                  <4>5. QED
                        BY <4>3, <4>4
            <3> HIDE DEF start, linked
            <3>3. move \in [Entry \X (1 .. to - from) -> Entry]
                  <4>1. ASSUME NEW p \in Entry \X (1 .. to - from) PROVE linked(p[1], p[2]) \in Entry
                        <5>1. p[1] \in Entry /\ p[2] \in 1 .. to - from
                              OBVIOUS
                        <5>2. QED
                              BY <3>2, <5>1
                  <4> HIDE DEF Entry
                  <4>2. QED
                        BY <4>1
            <3>4. to - from \in Nat
                  BY <2>2
            <3>5. PICK t : Walks(t, to - from, Entry, start, move)
                  <4> HIDE DEF move, Entry
                  <4>1. QED
                        BY <3>1, <3>3, <3>4, WalkExists
            <3> DEFINE w == [j \in from .. to |-> t[j - from]]
            <3>6. /\ t \in [0 .. to - from -> Entry] /\ t[0] = start
                  /\ \A j \in 1 .. to - from : t[j] = linked(t[j - 1], j)
                  <4>1. /\ t \in [0 .. to - from -> Entry] /\ t[0] = start
                        /\ \A j \in 1 .. to - from : t[j] = move[<<t[j - 1], j>>]
                        BY <3>5 DEF Walks
                  <4> HIDE DEF Entry
                  <4>2. ASSUME NEW j \in 1 .. to - from PROVE t[j] = linked(t[j - 1], j)
                        <5>1. j - 1 \in 0 .. to - from
                              BY <3>4
                        <5>2. <<t[j - 1], j>> \in Entry \X (1 .. to - from)
                              BY <4>1, <5>1
                        <5>3. QED
                              BY <4>1, <5>2
                  <4>3. QED
                        BY <4>1, <4>2
            <3>7. w \in [from .. to -> Entry]
                  <4>1. \A j \in from .. to : j - from \in 0 .. to - from
                        BY <2>2
                  <4> HIDE DEF Entry
                  <4>2. QED
                        BY <3>6, <4>1
            <3>8. ASSUME NEW j \in from .. to PROVE w[j] = next(w, j)
                  <4>1. CASE j = from
                        <5>1. w[j] = start /\ j - from = 0
                              BY <3>6, <4>1
                        <5>2. next(w, j) = [e |-> e, R |-> ecmult(P[from], e, r[from])]
                              BY <4>1
                        <5>3. QED
                              BY <5>1, <5>2 DEF start
                  <4>2. CASE j # from
                        <5>1. j - from \in 1 .. to - from /\ j - 1 \in from .. to /\ (j - 1) - from = (j - from) - 1
                              BY <2>2, <4>2
                        <5>2. w[j] = linked(t[(j - from) - 1], j - from) /\ w[j - 1] = t[(j - from) - 1]
                              BY <3>6, <5>1
                        <5>3. w[j] = linked(w[j - 1], j - from)
                              BY <5>2
                        <5>4. from + (j - from) = j
                              OBVIOUS
                        <5> HIDE DEF w
                        <5>5. linked(w[j - 1], j - from) = next(w, j)
                              BY <4>2, <5>4 DEF linked
                        <5>6. QED
                              BY <5>3, <5>5
                  <4>3. QED
                        BY <4>1, <4>2
            <3> HIDE DEF w, next, Entry
            <3>9. QED
                  BY <3>7, <3>8
      <2>3. QED
            BY <2>1, <2>2
<1> HIDE DEF next, Entry
<1>4. PICK w \in [from .. to -> Entry] : \A j \in from .. to : w[j] = next(w, j)
      BY <1>3
<1>5. w = [j \in from .. to |-> next(w, j)]
      BY <1>4
<1>6. u = [j \in from .. to |-> next(u, j)]
      BY <1>5
<1>7. u = u /\ \A j \in from .. to : u[j] = next(u, j)
      <2> HIDE DEF u
      <2>1. QED
            BY <1>6
<1> HIDE DEF u
<1>8. \A j \in from .. to : u[j] \in Entry
      <2> DEFINE good == {d \in 0 .. n : from + d <= to => u[from + d] \in Entry}
      <2>1. 0 \in good
            <3>1. CASE from > to
                  BY <3>1
            <3>2. CASE from <= to
                  <4>1. from \in from .. to
                        BY <3>2
                  <4>2. u[from] = [e |-> e, R |-> ecmult(P[from], e, r[from])]
                        BY <1>7, <4>1 DEF next
                  <4>3. u[from] \in Entry
                        BY <1>1, <4>1, <4>2, LinkTyped DEF Entry
                  <4>4. from + 0 = from
                        OBVIOUS
                  <4>5. QED
                        BY <4>3, <4>4
            <3>3. QED
                  BY <3>1, <3>2
      <2>2. ASSUME NEW d \in 1 .. n, d - 1 \in good PROVE d \in good
            <3>1. SUFFICES ASSUME from + d <= to PROVE u[from + d] \in Entry
                  BY <3>1
            <3>2. from + d \in from .. to /\ from + (d - 1) <= to /\ from + d # from
                  BY <3>1
            <3>3. u[from + (d - 1)] \in Entry /\ from + (d - 1) = from + d - 1
                  BY <2>2, <3>2
            <3>4. u[from + d] = next(u, from + d)
                  BY <1>7, <3>2
            <3> DEFINE x == u[from + d - 1]
                       ej == borromean_hash(m, x.R, i - 1, from + d - 1)
            <3>5. x \in Entry
                  BY <3>3
            <3>6. u[from + d] = [e |-> ej, R |-> ecmult(P[from + d], ej, r[from + d])]
                  BY <3>2, <3>4 DEF next
            <3> HIDE DEF x
            <3>7. x.R \in Seq(Nat) /\ i - 1 \in Nat /\ from + d - 1 \in Nat
                  BY <3>5, PointIsTuple DEF Entry
            <3>8. ej \in Bytes32
                  BY <3>7, LinkHashed
            <3> HIDE DEF ej
            <3>9. ecmult(P[from + d], ej, r[from + d]) \in Point
                  BY <1>1, <3>2, <3>8, LinkTyped
            <3>10. QED
                  BY <3>6, <3>8, <3>9 DEF Entry
      <2>3. \A d \in 0 .. n : d \in good
            <3> HIDE DEF good
            <3>1. QED
                  BY <2>1, <2>2, CountUp
      <2>4. ASSUME NEW j \in from .. to PROVE u[j] \in Entry
            <3>1. j - from \in 0 .. n /\ from + (j - from) = j /\ j <= to
                  OBVIOUS
            <3>2. QED
                  BY <2>3, <3>1
      <2>5. QED
            BY <2>4
<1>9. u \in [from .. to -> Entry]
      BY <1>6, <1>8
<1>10. from <= to => u[from].e = e
      <2>1. SUFFICES ASSUME from <= to PROVE u[from].e = e
            BY <2>1
      <2>2. from \in from .. to
            BY <2>1
      <2>3. u[from] = next(u, from)
            BY <1>7, <2>2
      <2>4. QED
            BY <2>3 DEF next
<1>11. \A j \in from + 1 .. to : u[j].e = borromean_hash(m, u[j - 1].R, i - 1, j - 1)
      <2>1. ASSUME NEW j \in from + 1 .. to PROVE u[j].e = borromean_hash(m, u[j - 1].R, i - 1, j - 1)
            <3>1. j \in from .. to /\ j # from
                  OBVIOUS
            <3>2. u[j] = next(u, j)
                  BY <1>7, <3>1
            <3>3. QED
                  BY <3>1, <3>2 DEF next
      <2>2. QED
            BY <2>1
<1>12. \A j \in from .. to : u[j].R = ecmult(P[j], u[j].e, r[j])
      <2>1. ASSUME NEW j \in from .. to PROVE u[j].R = ecmult(P[j], u[j].e, r[j])
            <3>1. u[j] = next(u, j)
                  BY <1>7, <2>1
            <3>2. QED
                  BY <3>1 DEF next
      <2>2. QED
            BY <2>1
<1>13. QED
      BY <1>2, <1>9, <1>10, <1>11, <1>12 DEF Links, Entry, P, r

\* Two rings with the same keys, the same challenge at a and the same answers
\* from there to b.
Alike(w, v, m, i, P, r, q, from, to, e, start, stop, d, a, b) ==
    /\ Links(w, m, i, P, r, from, to, e) /\ Links(v, m, i, P, q, start, stop, d)
    /\ from \in Nat /\ to \in Nat /\ start \in Nat /\ stop \in Nat /\ a \in Nat /\ b \in Nat
    /\ from <= a /\ start <= a /\ b <= to /\ b <= stop
    /\ w[a].e = v[a].e /\ \A j \in a .. b : r[j] = q[j]

\* They are the same from there to b.
LEMMA LinksAgree ==
    ASSUME NEW w, NEW v, NEW m, NEW i, NEW P, NEW r, NEW q, NEW from, NEW to, NEW e, NEW start, NEW stop, NEW d,
           NEW a, NEW b, Alike(w, v, m, i, P, r, q, from, to, e, start, stop, d, a, b)
    PROVE  \A j \in a .. b : w[j] = v[j]
<1> USE DEF Alike
<1> DEFINE good == {k \in 0 .. b : a + k <= b => w[a + k].e = v[a + k].e}
<1>1. \A j \in a .. b :
         /\ w[j] = [e |-> w[j].e, R |-> ecmult(P[j], w[j].e, r[j])]
         /\ v[j] = [e |-> v[j].e, R |-> ecmult(P[j], v[j].e, q[j])]
      <2>1. ASSUME NEW j \in a .. b
            PROVE  /\ w[j] = [e |-> w[j].e, R |-> ecmult(P[j], w[j].e, r[j])]
                   /\ v[j] = [e |-> v[j].e, R |-> ecmult(P[j], v[j].e, q[j])]
            <3>1. j \in from .. to /\ j \in start .. stop
                  OBVIOUS
            <3>2. w[j] \in [e : Bytes32, R : Point] /\ w[j].R = ecmult(P[j], w[j].e, r[j])
                  BY <3>1 DEF Links
            <3>3. v[j] \in [e : Bytes32, R : Point] /\ v[j].R = ecmult(P[j], v[j].e, q[j])
                  BY <3>1 DEF Links
            <3>4. QED
                  BY <3>2, <3>3
      <2>2. QED
            BY <2>1
<1>2. 0 \in good
      BY a + 0 = a
<1>3. ASSUME NEW k \in 1 .. b, k - 1 \in good PROVE k \in good
      <2>1. SUFFICES ASSUME a + k <= b PROVE w[a + k].e = v[a + k].e
            BY <2>1
      <2> DEFINE l == a + (k - 1)
      <2>2. l \in a .. b /\ w[l].e = v[l].e /\ a + k = l + 1 /\ l + 1 \in from + 1 .. to /\ l + 1 \in start + 1 .. stop
            BY <1>3, <2>1
      <2> HIDE DEF l
      <2>3. r[l] = q[l]
            BY <2>2
      <2>4. w[l] = v[l]
            BY <1>1, <2>2, <2>3
      <2>5. (l + 1) - 1 = l
            BY <2>2
      <2>6. w[l + 1].e = borromean_hash(m, w[l].R, i - 1, l) /\ v[l + 1].e = borromean_hash(m, v[l].R, i - 1, l)
            BY <2>2, <2>5 DEF Links
      <2>7. QED
            BY <2>2, <2>4, <2>6
<1>4. \A k \in 0 .. b : k \in good
      <2> HIDE DEF good
      <2>1. QED
            BY <1>2, <1>3, CountUp
<1>5. ASSUME NEW j \in a .. b PROVE w[j] = v[j]
      <2>1. j - a \in 0 .. b /\ a + (j - a) = j
            OBVIOUS
      <2>2. w[j].e = v[j].e
            BY <1>4, <2>1
      <2>3. r[j] = q[j]
            OBVIOUS
      <2>4. QED
            BY <1>1, <2>2, <2>3
<1>6. QED
      BY <1>5

\* What the signer puts at the own position takes the challenge back to the nonce.
LEMMA ClosesRing ==
    ASSUME NEW k \in Scalar, NEW x \in Scalar, NEW e \in Bytes32
    PROVE  LET s == SAdd(SNeg(SMul(ScalarOf(e), x)), k)
           IN s \in Scalar /\ ecmult(GMul(x, G), e, s) = GMul(k, G)
<1> DEFINE c == ScalarOf(e)
           y == SMul(c, x)
           s == SAdd(SNeg(y), k)
<1>1. c \in Scalar
      BY BytesMakeScalars
<1>2. y \in Scalar /\ SNeg(y) \in Scalar /\ s \in Scalar
      BY <1>1, RingLaws
<1>3. ecmult(GMul(x, G), e, s) = GAdd(GMul(y, G), GMul(s, G))
      BY <1>1, MultiplesAdd DEF ecmult
<1> HIDE DEF y
<1>4. SAdd(y, s) = k
      <2>1. SAdd(y, SAdd(SNeg(y), k)) = SAdd(SAdd(y, SNeg(y)), k)
            BY <1>2, RingLaws
      <2>2. SAdd(y, SNeg(y)) = 0 /\ SAdd(0, k) = k
            BY <1>2, RingLaws
      <2>3. QED
            BY <2>1, <2>2
<1> HIDE DEF s, c
<1>5. ecmult(GMul(x, G), e, s) = GMul(k, G)
      BY <1>2, <1>3, <1>4, MultiplesAdd
<1>6. QED
      BY <1>2, <1>5 DEF s, y, c

\* One ring of a signature: r are the answers drawn, own the position of the
\* secret x, k the nonce, first the challenge of the ring.
Ring(m, i, n, P, r, own, x, k, first, before, ownE, after, answers, all) ==
    /\ n \in Nat /\ P \in Points(n) /\ r \in Scalars(n) /\ own \in 1 .. n
    /\ x \in Scalar /\ k \in Scalar /\ k # 0 /\ P[own] = GMul(x, G)
    /\ first \in Bytes32 /\ ownE \in Bytes32
    /\ Links(before, m, i, P, r, 1, own - 1, first)
    /\ ownE = IF own = 1 THEN first ELSE borromean_hash(m, before[own - 1].R, i - 1, own - 1)
    /\ Links(after, m, i, P, r, own + 1, n, borromean_hash(m, GMul(k, G), i - 1, own))
    /\ answers = [r EXCEPT ![own] = SAdd(SNeg(SMul(ScalarOf(ownE), x)), k)]
    /\ Links(all, m, i, P, answers, 1, n, first)

\* The verifier walks through the points of the signer.
LEMMA RingIsWalked ==
    ASSUME NEW m, NEW i, NEW n, NEW P, NEW r, NEW own, NEW x, NEW k, NEW first, NEW before, NEW ownE, NEW after,
           NEW answers, NEW all,
           Ring(m, i, n, P, r, own, x, k, first, before, ownE, after, answers, all)
    PROVE  /\ answers \in Scalars(n)
           /\ all[n].R = IF own = n THEN GMul(k, G) ELSE after[n].R
           /\ walkable(before) /\ usable(ownE) /\ walkable(after) => walkable(all)
<1> DEFINE s == SAdd(SNeg(SMul(ScalarOf(ownE), x)), k)
<1>1. /\ n \in Nat /\ P \in Points(n) /\ r \in Scalars(n) /\ own \in 1 .. n
      /\ x \in Scalar /\ k \in Scalar /\ k # 0 /\ P[own] = GMul(x, G)
      /\ first \in Bytes32 /\ ownE \in Bytes32
      BY DEF Ring
<1>2. s \in Scalar /\ ecmult(P[own], ownE, s) = GMul(k, G)
      BY <1>1, ClosesRing
<1>3. answers = [r EXCEPT ![own] = s]
      BY DEF Ring
<1> HIDE DEF s
<1>4. answers \in Scalars(n) /\ answers[own] = s /\ \A j \in 1 .. n : j # own => answers[j] = r[j]
      BY <1>1, <1>2, <1>3 DEF Scalars
<1>5. /\ Links(before, m, i, P, r, 1, own - 1, first)
      /\ Links(after, m, i, P, r, own + 1, n, borromean_hash(m, GMul(k, G), i - 1, own))
      /\ Links(all, m, i, P, answers, 1, n, first)
      BY DEF Ring
<1>6. all \in [1 .. n -> [e : Bytes32, R : Point]] /\ all[1].e = first
      BY <1>1, <1>5 DEF Links
<1>7. \A j \in 1 .. own - 1 : all[j] = before[j]
      <2>1. CASE own = 1
            BY <2>1
      <2>2. CASE own # 1
            <3>1. before[1].e = first
                  BY <1>1, <1>5, <2>2 DEF Links
            <3>2. \A j \in 1 .. own - 1 : answers[j] = r[j]
                  BY <1>1, <1>4
            <3>3. own - 1 \in Nat /\ own - 1 <= n /\ 1 \in Nat /\ 1 <= 1 /\ own - 1 <= own - 1 /\ n \in Nat
                  BY <1>1
            <3>4. all[1].e = before[1].e /\ \A j \in 1 .. own - 1 : answers[j] = r[j]
                  BY <1>6, <3>1, <3>2
            <3>5. Alike(all, before, m, i, P, answers, r, 1, n, first, 1, own - 1, first, 1, own - 1)
                  BY <1>5, <3>3, <3>4 DEF Alike
            <3>6. QED
                  BY <3>5, LinksAgree
      <2>3. QED
            BY <2>1, <2>2
<1>8. all[own].e = ownE
      <2>1. CASE own = 1
            BY <1>6, <2>1 DEF Ring
      <2>2. CASE own # 1
            <3>1. own \in 1 + 1 .. n /\ own - 1 \in 1 .. own - 1
                  BY <1>1, <2>2
            <3>2. all[own].e = borromean_hash(m, all[own - 1].R, i - 1, own - 1)
                  BY <1>5, <3>1 DEF Links
            <3>3. ownE = borromean_hash(m, before[own - 1].R, i - 1, own - 1)
                  BY <2>2 DEF Ring
            <3>4. QED
                  BY <1>7, <3>1, <3>2, <3>3
      <2>3. QED
            BY <2>1, <2>2
<1>9. all[own].R = GMul(k, G)
      <2>1. all[own].R = ecmult(P[own], all[own].e, answers[own])
            BY <1>1, <1>5 DEF Links
      <2>2. QED
            BY <1>2, <1>4, <1>8, <2>1
<1>10. \A j \in own + 1 .. n : all[j] = after[j]
      <2>1. CASE own = n
            BY <1>1, <2>1
      <2>2. CASE own # n
            <3>1. own + 1 \in 1 + 1 .. n /\ (own + 1) - 1 = own /\ own + 1 <= n /\ own + 1 \in Nat
                  BY <1>1, <2>2
            <3>2. all[own + 1].e = borromean_hash(m, all[own].R, i - 1, own)
                  BY <1>5, <3>1 DEF Links
            <3>3. after[own + 1].e = borromean_hash(m, GMul(k, G), i - 1, own)
                  BY <1>5, <3>1 DEF Links
            <3>4. all[own + 1].e = after[own + 1].e
                  BY <1>9, <3>2, <3>3
            <3>5. \A j \in own + 1 .. n : answers[j] = r[j]
                  BY <1>1, <1>4
            <3>6. /\ 1 \in Nat /\ n \in Nat /\ own + 1 \in Nat /\ 1 <= own + 1 /\ own + 1 <= own + 1 /\ n <= n
                  BY <1>1
            <3>7. Alike(all, after, m, i, P, answers, r, 1, n, first,
                        own + 1, n, borromean_hash(m, GMul(k, G), i - 1, own), own + 1, n)
                  BY <1>5, <3>4, <3>5, <3>6 DEF Alike
            <3>8. QED
                  BY <3>7, LinksAgree
      <2>3. QED
            BY <2>1, <2>2
<1>11. all[n].R = IF own = n THEN GMul(k, G) ELSE after[n].R
      <2>1. CASE own = n
            BY <1>9, <2>1
      <2>2. CASE own # n
            <3>1. n \in own + 1 .. n
                  BY <1>1, <2>2
            <3>2. QED
                  BY <1>10, <2>2, <3>1
      <2>3. QED
            BY <2>1, <2>2
<1>12. ASSUME walkable(before), usable(ownE), walkable(after) PROVE walkable(all)
      <2>1. DOMAIN all = 1 .. n /\ DOMAIN before = 1 .. own - 1 /\ DOMAIN after = own + 1 .. n
            BY <1>5 DEF Links
      <2>2. ASSUME NEW j \in 1 .. n PROVE usable(all[j].e) /\ all[j].R # Infinity
            <3>1. CASE j < own
                  <4>1. j \in 1 .. own - 1
                        BY <1>1, <3>1
                  <4>2. all[j] = before[j]
                        BY <1>7, <4>1
                  <4>3. QED
                        BY <1>12, <2>1, <4>1, <4>2 DEF walkable
            <3>2. CASE j = own
                  <4>1. GMul(k, G) # Infinity
                        <5>1. 0 \in Scalar
                              BY ZeroAndOne
                        <5>2. QED
                              BY <1>1, <5>1, NoMultiple, MultiplesAdd
                  <4>2. QED
                        BY <1>8, <1>9, <1>12, <3>2, <4>1
            <3>3. CASE j > own
                  <4>1. j \in own + 1 .. n
                        BY <1>1, <3>3
                  <4>2. all[j] = after[j]
                        BY <1>10, <4>1
                  <4>3. QED
                        BY <1>12, <2>1, <4>1, <4>2 DEF walkable
            <3>4. QED
                  BY <1>1, <3>1, <3>2, <3>3
      <2>3. QED
            BY <2>1, <2>2 DEF walkable
<1>13. QED
      BY <1>4, <1>11, <1>12

\* The parts of a signature: the walks from the own positions on, the points
\* the rings end in, the hash of those, and the walks up to the own positions.
afterWalks(s, pubs, k, secidx, m) ==
    [i \in 1 .. Len(pubs) |-> ringWalk(m, i, pubs, s, (secidx[i] + 1) + 1, Len(pubs[i]),
                                       borromean_hash(m, GMul(k[i], G), i - 1, secidx[i] + 1))]
lastPoints(s, pubs, k, secidx, m) ==
    [i \in 1 .. Len(pubs) |-> IF secidx[i] + 1 = Len(pubs[i]) THEN GMul(k[i], G)
                              ELSE afterWalks(s, pubs, k, secidx, m)[i][Len(pubs[i])].R]
ringsHash(s, pubs, k, secidx, m) == finalHash(lastPoints(s, pubs, k, secidx, m), m)
beforeWalks(s, pubs, secidx, m, e0) ==
    [i \in 1 .. Len(pubs) |-> ringWalk(m, i, pubs, s, 1, (secidx[i] + 1) - 1, borromean_hash(m, <<e0>>, i - 1, 0))]
ownChallenge(s, pubs, secidx, m, e0, i) ==
    IF secidx[i] + 1 = 1 THEN borromean_hash(m, <<e0>>, i - 1, 0)
    ELSE borromean_hash(m, beforeWalks(s, pubs, secidx, m, e0)[i][(secidx[i] + 1) - 1].R, i - 1, (secidx[i] + 1) - 1)
ownAnswer(s, pubs, k, sec, secidx, m, e0, i) ==
    SAdd(SNeg(SMul(ScalarOf(ownChallenge(s, pubs, secidx, m, e0, i)), sec[i])), k[i])
ringAnswers(s, pubs, k, sec, secidx, m, e0) ==
    [i \in 1 .. Len(pubs) |-> [s[i] EXCEPT ![secidx[i] + 1] = ownAnswer(s, pubs, k, sec, secidx, m, e0, i)]]
signable(s, pubs, k, sec, secidx, m, e0) ==
    \A i \in 1 .. Len(pubs) :
       /\ k[i] # 0 /\ walkable(afterWalks(s, pubs, k, secidx, m)[i])
       /\ walkable(beforeWalks(s, pubs, secidx, m, e0)[i])
       /\ usable(ownChallenge(s, pubs, secidx, m, e0, i)) /\ ownAnswer(s, pubs, k, sec, secidx, m, e0, i) # 0

\* A function on 1 .. n is the sequence of its values.
LEMMA TupleOf ==
    ASSUME NEW n \in Nat, NEW f, NEW g, f = [i \in 1 .. n |-> g[i]]
    PROVE  SubSeq(f, 1, n) = f
<1>1. f = [i \in 1 .. n |-> f[i]]
      OBVIOUS
<1>2. QED
      BY <1>1, TupleIs

\* A signature is made of these parts, unless one of them cannot be used.
LEMMA BorromeanSignIs ==
    ASSUME NEW s, NEW pubs, Len(pubs) \in Nat, NEW k, NEW sec, NEW secidx, NEW m
    PROVE  LET e0 == ringsHash(s, pubs, k, secidx, m)
           IN borromean_sign(s, pubs, k, sec, secidx, m)
                = IF signable(s, pubs, k, sec, secidx, m, e0)
                  THEN Gives([e0 |-> e0, s |-> ringAnswers(s, pubs, k, sec, secidx, m, e0)])
                  ELSE Fails
<1> DEFINE n == Len(pubs)
           A == afterWalks(s, pubs, k, secidx, m)
           L == lastPoints(s, pubs, k, secidx, m)
           e0 == ringsHash(s, pubs, k, secidx, m)
           B == beforeWalks(s, pubs, secidx, m, e0)
           R == ringAnswers(s, pubs, k, sec, secidx, m, e0)
<1>1. SubSeq(A, 1, n) = A
      <2>1. A = [i \in 1 .. n |-> A[i]]
            BY DEF afterWalks
      <2> HIDE DEF A
      <2>2. QED
            BY <2>1, TupleIs
<1>2. SubSeq(L, 1, n) = L
      <2>1. L = [i \in 1 .. n |-> L[i]]
            BY DEF lastPoints
      <2> HIDE DEF L
      <2>2. QED
            BY <2>1, TupleIs
<1>3. SubSeq(B, 1, n) = B
      <2>1. B = [i \in 1 .. n |-> B[i]]
            BY DEF beforeWalks
      <2> HIDE DEF B
      <2>2. QED
            BY <2>1, TupleIs
<1>4. SubSeq(R, 1, n) = R
      <2>1. R = [i \in 1 .. n |-> R[i]]
            BY DEF ringAnswers
      <2> HIDE DEF R
      <2>2. QED
            BY <2>1, TupleIs
<1> DEFINE own(i) == secidx[i] + 1
           size(i) == Len(pubs[i])
           kG(i) == GMul(k[i], G)
           after == Tuple(n, LAMBDA i : ringWalk(m, i, pubs, s, own(i) + 1, size(i),
                                                 borromean_hash(m, kG(i), i - 1, own(i))))
           final == finalHash(Tuple(n, LAMBDA i : IF own(i) = size(i) THEN kG(i) ELSE after[i][size(i)].R), m)
           before == Tuple(n, LAMBDA i : ringWalk(m, i, pubs, s, 1, own(i) - 1,
                                                  borromean_hash(m, <<final>>, i - 1, 0)))
           ownE(i) == IF own(i) = 1 THEN borromean_hash(m, <<final>>, i - 1, 0)
                      ELSE borromean_hash(m, before[i][own(i) - 1].R, i - 1, own(i) - 1)
           ownS(i) == SAdd(SNeg(SMul(ScalarOf(ownE(i)), sec[i])), k[i])
<1>5. borromean_sign(s, pubs, k, sec, secidx, m)
        = IF \A i \in 1 .. n : /\ k[i] # 0 /\ walkable(after[i]) /\ walkable(before[i])
                               /\ usable(ownE(i)) /\ ownS(i) # 0
          THEN Gives([e0 |-> final, s |-> Tuple(n, LAMBDA i : [s[i] EXCEPT ![own(i)] = ownS(i)])])
          ELSE Fails
      BY DEF borromean_sign
<1>6. after = A
      <2>1. after = SubSeq(A, 1, n)
            BY DEF Tuple, afterWalks
      <2>2. QED
            BY <1>1, <2>1
<1> HIDE DEF after
<1>7. final = e0
      <2>1. Tuple(n, LAMBDA i : IF own(i) = size(i) THEN kG(i) ELSE after[i][size(i)].R) = SubSeq(L, 1, n)
            BY <1>6 DEF Tuple, lastPoints
      <2>2. QED
            BY <1>2, <2>1 DEF ringsHash
<1> HIDE DEF final
<1>8. before = B
      <2>1. before = SubSeq(B, 1, n)
            BY <1>7 DEF Tuple, beforeWalks
      <2>2. QED
            BY <1>3, <2>1
<1> HIDE DEF before
<1>9. \A i \in 1 .. n : ownE(i) = ownChallenge(s, pubs, secidx, m, e0, i)
      BY <1>7, <1>8 DEF ownChallenge
<1> HIDE DEF ownE
<1>10. \A i \in 1 .. n : ownS(i) = ownAnswer(s, pubs, k, sec, secidx, m, e0, i)
      BY <1>9 DEF ownAnswer
<1> HIDE DEF ownS
<1>11. Tuple(n, LAMBDA i : [s[i] EXCEPT ![own(i)] = ownS(i)]) = R
      <2>1. Tuple(n, LAMBDA i : [s[i] EXCEPT ![own(i)] = ownS(i)]) = SubSeq(R, 1, n)
            BY <1>10 DEF Tuple, ringAnswers
      <2>2. QED
            BY <1>4, <2>1
<1>12. (\A i \in 1 .. n : /\ k[i] # 0 /\ walkable(after[i]) /\ walkable(before[i])
                          /\ usable(ownE(i)) /\ ownS(i) # 0)
         <=> signable(s, pubs, k, sec, secidx, m, e0)
      <2> HIDE DEF A, B, e0
      <2>1. A = afterWalks(s, pubs, k, secidx, m) /\ B = beforeWalks(s, pubs, secidx, m, e0)
            BY DEF A, B
      <2>2. QED
            BY <1>6, <1>8, <1>9, <1>10, <2>1 DEF signable
<1> DEFINE T == Tuple(n, LAMBDA i : [s[i] EXCEPT ![own(i)] = ownS(i)])
           C == \A i \in 1 .. n : /\ k[i] # 0 /\ walkable(after[i]) /\ walkable(before[i])
                                  /\ usable(ownE(i)) /\ ownS(i) # 0
<1>13. borromean_sign(s, pubs, k, sec, secidx, m) = IF C THEN Gives([e0 |-> final, s |-> T]) ELSE Fails
      BY <1>5
<1>14. T = R /\ (C <=> signable(s, pubs, k, sec, secidx, m, e0))
      BY <1>11, <1>12
<1> HIDE DEF T, C, R, e0
<1>15. borromean_sign(s, pubs, k, sec, secidx, m)
         = IF signable(s, pubs, k, sec, secidx, m, e0) THEN Gives([e0 |-> e0, s |-> R]) ELSE Fails
      BY <1>7, <1>13, <1>14
<1>16. QED
      BY <1>15 DEF R, e0

\* What a signer is asked to sign: in each ring the key at the own position
\* belongs to the secret, no key is infinity, and the other answers are not 0.
Signing(n, s, pubs, k, sec, secidx, m) ==
    /\ n \in Nat /\ Len(pubs) = n /\ DOMAIN pubs = 1 .. n /\ m \in Nat
    /\ \A i \in 1 .. n :
          /\ Len(pubs[i]) \in Nat /\ pubs[i] \in Points(Len(pubs[i])) /\ s[i] \in Scalars(Len(pubs[i]))
          /\ secidx[i] \in Nat /\ secidx[i] + 1 \in 1 .. Len(pubs[i])
          /\ k[i] \in Scalar /\ sec[i] \in Scalar /\ pubs[i][secidx[i] + 1] = GMul(sec[i], G)
          /\ \A j \in 1 .. Len(pubs[i]) : pubs[i][j] # Infinity /\ (j # secidx[i] + 1 => s[i][j] # 0)

\* What is signed with, ring by ring.
LEMMA RingTyped ==
    ASSUME NEW n, NEW s, NEW pubs, NEW k, NEW sec, NEW secidx, NEW m,
           Signing(n, s, pubs, k, sec, secidx, m), NEW i \in 1 .. n
    PROVE  /\ n \in Nat /\ m \in Nat /\ Len(pubs) = n /\ i \in Nat \ {0} /\ i - 1 \in Nat
           /\ Len(pubs[i]) \in Nat /\ pubs[i] \in Points(Len(pubs[i])) /\ s[i] \in Scalars(Len(pubs[i]))
           /\ secidx[i] \in Nat /\ secidx[i] + 1 \in 1 .. Len(pubs[i])
           /\ k[i] \in Scalar /\ sec[i] \in Scalar /\ pubs[i][secidx[i] + 1] = GMul(sec[i], G)
           /\ \A j \in 1 .. Len(pubs[i]) : pubs[i][j] # Infinity /\ (j # secidx[i] + 1 => s[i][j] # 0)
<1>1. n \in Nat /\ m \in Nat /\ Len(pubs) = n
      BY DEF Signing
<1>2. i \in Nat \ {0} /\ i - 1 \in Nat
      BY <1>1
<1>3. /\ Len(pubs[i]) \in Nat /\ pubs[i] \in Points(Len(pubs[i])) /\ s[i] \in Scalars(Len(pubs[i]))
      /\ secidx[i] \in Nat /\ secidx[i] + 1 \in 1 .. Len(pubs[i])
      /\ k[i] \in Scalar /\ sec[i] \in Scalar /\ pubs[i][secidx[i] + 1] = GMul(sec[i], G)
      /\ \A j \in 1 .. Len(pubs[i]) : pubs[i][j] # Infinity /\ (j # secidx[i] + 1 => s[i][j] # 0)
      BY DEF Signing
<1>4. QED
      BY <1>1, <1>2, <1>3

\* The points the rings end in are hashed to 32 bytes.
LEMMA RingsHashTyped ==
    ASSUME RangeHashesAreBytes,
           NEW n, NEW s, NEW pubs, NEW k, NEW sec, NEW secidx, NEW m, Signing(n, s, pubs, k, sec, secidx, m)
    PROVE  /\ \A i \in 1 .. n : Links(afterWalks(s, pubs, k, secidx, m)[i], m, i, pubs[i], s[i],
                                      (secidx[i] + 1) + 1, Len(pubs[i]),
                                      borromean_hash(m, GMul(k[i], G), i - 1, secidx[i] + 1))
           /\ ringsHash(s, pubs, k, secidx, m) \in Bytes32
<1> DEFINE L == lastPoints(s, pubs, k, secidx, m)
           A == afterWalks(s, pubs, k, secidx, m)
<1>1. n \in Nat /\ Len(pubs) = n /\ m \in Nat
      BY DEF Signing
<1>2. ASSUME NEW i \in 1 .. n
      PROVE  /\ Links(A[i], m, i, pubs[i], s[i], (secidx[i] + 1) + 1, Len(pubs[i]),
                      borromean_hash(m, GMul(k[i], G), i - 1, secidx[i] + 1))
             /\ L[i] \in Seq(Nat)
      <2> DEFINE own == secidx[i] + 1
                 size == Len(pubs[i])
                 e == borromean_hash(m, GMul(k[i], G), i - 1, own)
      <2>1. /\ i \in Nat \ {0} /\ i - 1 \in Nat /\ size \in Nat /\ pubs[i] \in Points(size) /\ s[i] \in Scalars(size)
            /\ own \in 1 .. size /\ own \in Nat /\ k[i] \in Scalar
            BY RingTyped
      <2>2. GMul(k[i], G) \in Point
            BY <2>1, MultipleIs
      <2>3. GMul(k[i], G) \in Seq(Nat)
            BY <2>2, PointIsTuple
      <2>4. A[i] = ringWalk(m, i, pubs, s, own + 1, size, e)
            BY <1>1 DEF afterWalks
      <2>5. L[i] = IF own = size THEN GMul(k[i], G) ELSE A[i][size].R
            BY <1>1 DEF lastPoints
      <2> HIDE DEF A, L, own, size
      <2>6. e \in Bytes32
            BY <1>1, <2>1, <2>3, LinkHashed
      <2> HIDE DEF e
      <2>7. own + 1 \in 1 .. size + 1 /\ size \in 0 .. size
            BY <2>1
      <2>8. Links(A[i], m, i, pubs[i], s[i], own + 1, size, e)
            BY <1>1, <2>1, <2>4, <2>6, <2>7, RingWalkIs
      <2>9. L[i] \in Seq(Nat)
            <3>1. CASE own = size
                  BY <2>3, <2>5, <3>1
            <3>2. CASE own # size
                  <4>1. size \in own + 1 .. size
                        BY <2>1, <3>2
                  <4>2. A[i][size].R \in Point
                        BY <2>8, <4>1 DEF Links
                  <4>3. QED
                        BY <2>5, <3>2, <4>2, PointIsTuple
            <3>3. QED
                  BY <3>1, <3>2
      <2>10. QED
            BY <2>8, <2>9 DEF e, own, size
<1>3. ringsHash(s, pubs, k, secidx, m) = RangeHash(joined(Len(L), L) \o <<m>>)
      BY DEF ringsHash, finalHash, joined
<1>4. Len(L) = n
      <2>1. L = [i \in 1 .. n |-> L[i]]
            BY <1>1 DEF lastPoints
      <2> HIDE DEF L
      <2>2. QED
            BY <1>1, <2>1
<1> HIDE DEF L
<1>5. joined(n, L) \in Seq(Nat)
      BY <1>1, <1>2, FlatTyped
<1>6. joined(n, L) \o <<m>> \in Seq(Nat)
      BY <1>1, <1>5
<1>7. ringsHash(s, pubs, k, secidx, m) \in Bytes32
      BY <1>3, <1>4, <1>6 DEF RangeHashesAreBytes
<1>8. QED
      BY <1>2, <1>7 DEF A

\* Whatever is signed with the secrets of the own positions is verified.
LEMMA BorromeanComplete ==
    ASSUME RangeHashesAreBytes,
           NEW n, NEW s, NEW pubs, NEW k, NEW sec, NEW secidx, NEW m, Signing(n, s, pubs, k, sec, secidx, m),
           borromean_sign(s, pubs, k, sec, secidx, m).ok
    PROVE  LET v == borromean_sign(s, pubs, k, sec, secidx, m).v
           IN /\ v.e0 \in Bytes32 /\ v.s = [i \in 1 .. n |-> v.s[i]]
              /\ \A i \in 1 .. n : v.s[i] \in Scalars(Len(pubs[i])) /\ \A j \in 1 .. Len(pubs[i]) : v.s[i][j] # 0
              /\ borromean_verify(v.e0, v.s, pubs, m).ok
<1> DEFINE e0 == ringsHash(s, pubs, k, secidx, m)
           A == afterWalks(s, pubs, k, secidx, m)
           B == beforeWalks(s, pubs, secidx, m, e0)
           S == ringAnswers(s, pubs, k, sec, secidx, m, e0)
           E(i) == ownChallenge(s, pubs, secidx, m, e0, i)
           F(i) == borromean_hash(m, <<e0>>, i - 1, 0)
           V == [i \in 1 .. n |-> ringWalk(m, i, pubs, S, 1, Len(pubs[i]), F(i))]
<1>1. n \in Nat /\ Len(pubs) = n /\ m \in Nat /\ DOMAIN pubs = 1 .. n
      BY DEF Signing
<1>2. /\ borromean_sign(s, pubs, k, sec, secidx, m).v = [e0 |-> e0, s |-> S]
      /\ signable(s, pubs, k, sec, secidx, m, e0)
      <2>1. borromean_sign(s, pubs, k, sec, secidx, m)
              = IF signable(s, pubs, k, sec, secidx, m, e0) THEN Gives([e0 |-> e0, s |-> S]) ELSE Fails
            BY <1>1, BorromeanSignIs
      <2> HIDE DEF e0, S
      <2>2. QED
            BY <2>1 DEF Gives, Fails
<1>3. e0 \in Bytes32
      BY RingsHashTyped
<1>4. \A i \in 1 .. n : /\ walkable(A[i]) /\ walkable(B[i]) /\ usable(E(i)) /\ k[i] # 0
                        /\ ownAnswer(s, pubs, k, sec, secidx, m, e0, i) # 0
      BY <1>1, <1>2 DEF signable
<1>5. \A i \in 1 .. n : S[i] = [s[i] EXCEPT ![secidx[i] + 1] = ownAnswer(s, pubs, k, sec, secidx, m, e0, i)]
      BY <1>1 DEF ringAnswers
<1>6. S = [i \in 1 .. n |-> S[i]]
      BY <1>1 DEF ringAnswers
<1>7. \A i \in 1 .. n : Links(A[i], m, i, pubs[i], s[i], (secidx[i] + 1) + 1, Len(pubs[i]),
                              borromean_hash(m, GMul(k[i], G), i - 1, secidx[i] + 1))
      BY RingsHashTyped
<1>8. \A i \in 1 .. n : B[i] = ringWalk(m, i, pubs, s, 1, (secidx[i] + 1) - 1, F(i))
      BY <1>1 DEF beforeWalks
<1>9. \A i \in 1 .. n : E(i) = IF secidx[i] + 1 = 1 THEN F(i)
                                ELSE borromean_hash(m, B[i][(secidx[i] + 1) - 1].R, i - 1, (secidx[i] + 1) - 1)
      BY DEF ownChallenge
<1>10. \A i \in 1 .. n : lastPoints(s, pubs, k, secidx, m)[i]
                           = IF secidx[i] + 1 = Len(pubs[i]) THEN GMul(k[i], G) ELSE A[i][Len(pubs[i])].R
      BY <1>1 DEF lastPoints
<1>11. \A i \in 1 .. n : ownAnswer(s, pubs, k, sec, secidx, m, e0, i)
                           = SAdd(SNeg(SMul(ScalarOf(E(i)), sec[i])), k[i])
      BY DEF ownAnswer
<1>12. \A i \in 1 .. n : V[i] = ringWalk(m, i, pubs, S, 1, Len(pubs[i]), F(i))
      OBVIOUS
<1>13. \A i \in 1 .. n : F(i) \in Bytes32
      <2>1. <<e0>> \in Seq(Nat)
            BY <1>3, BytesMakeScalars
      <2>2. ASSUME NEW i \in 1 .. n PROVE F(i) \in Bytes32
            <3>1. i - 1 \in Nat /\ 0 \in Nat
                  BY <1>1
            <3> HIDE DEF e0
            <3>2. QED
                  BY <1>1, <2>1, <3>1, LinkHashed
      <2>3. QED
            BY <2>2
<1> HIDE DEF e0, A, B, S, E, F, V
<1>14. ASSUME NEW i \in 1 .. n
       PROVE  /\ S[i] \in Scalars(Len(pubs[i])) /\ \A j \in 1 .. Len(pubs[i]) : S[i][j] # 0
              /\ walkable(V[i]) /\ V[i][Len(pubs[i])].R = lastPoints(s, pubs, k, secidx, m)[i]
      <2> DEFINE own == secidx[i] + 1
                 size == Len(pubs[i])
                 x == sec[i]
                 y == SAdd(SNeg(SMul(ScalarOf(E(i)), sec[i])), k[i])
      <2>1. /\ i \in Nat \ {0} /\ i - 1 \in Nat /\ size \in Nat /\ pubs[i] \in Points(size) /\ s[i] \in Scalars(size)
            /\ own \in 1 .. size /\ k[i] \in Scalar /\ x \in Scalar /\ pubs[i][own] = GMul(x, G)
            /\ \A j \in 1 .. size : pubs[i][j] # Infinity /\ (j # own => s[i][j] # 0)
            <3>1. /\ i \in Nat \ {0} /\ i - 1 \in Nat /\ Len(pubs[i]) \in Nat /\ pubs[i] \in Points(Len(pubs[i]))
                  /\ s[i] \in Scalars(Len(pubs[i])) /\ secidx[i] + 1 \in 1 .. Len(pubs[i])
                  /\ k[i] \in Scalar /\ sec[i] \in Scalar /\ pubs[i][secidx[i] + 1] = GMul(sec[i], G)
                  <4>1. n \in Nat
                        BY DEF Signing
                  <4>2. QED
                        BY <4>1 DEF Signing
            <3>2. \A j \in 1 .. Len(pubs[i]) : pubs[i][j] # Infinity /\ (j # secidx[i] + 1 => s[i][j] # 0)
                  BY DEF Signing
            <3>3. QED
                  BY <3>1, <3>2, Zenon
      <2>2. S[i] = [s[i] EXCEPT ![own] = y] /\ y # 0
            BY <1>4, <1>5, <1>11
      <2>3. Links(A[i], m, i, pubs[i], s[i], own + 1, size, borromean_hash(m, GMul(k[i], G), i - 1, own))
            BY <1>7
      <2>4. V[i] = ringWalk(m, i, pubs, S, 1, size, F(i)) /\ B[i] = ringWalk(m, i, pubs, s, 1, own - 1, F(i))
            BY <1>8, <1>12
      <2>5. E(i) = IF own = 1 THEN F(i) ELSE borromean_hash(m, B[i][own - 1].R, i - 1, own - 1)
            BY <1>9
      <2>6. F(i) \in Bytes32 /\ k[i] # 0
            BY <1>4, <1>13
      <2> HIDE DEF own, size, x
      <2>7. 1 \in 1 .. size + 1 /\ own - 1 \in 0 .. size /\ size \in 0 .. size
            BY <2>1
      <2>8. Links(B[i], m, i, pubs[i], s[i], 1, own - 1, F(i))
            BY <1>1, <2>1, <2>4, <2>6, <2>7, RingWalkIs
      <2>9. E(i) \in Bytes32
            <3>1. CASE own = 1
                  BY <2>5, <2>6, <3>1
            <3>2. CASE own # 1
                  <4>1. own - 1 \in 1 .. own - 1 /\ own - 1 \in Nat
                        BY <2>1, <3>2
                  <4>2. B[i][own - 1].R \in Point
                        BY <2>8, <4>1 DEF Links
                  <4>3. borromean_hash(m, B[i][own - 1].R, i - 1, own - 1) \in Bytes32
                        BY <1>1, <2>1, <4>1, <4>2, PointIsTuple, LinkHashed
                  <4>4. QED
                        BY <2>5, <3>2, <4>3
            <3>3. QED
                  BY <3>1, <3>2
      <2>10. y \in Scalar
            BY <2>1, <2>9, ClosesRing DEF x
      <2> HIDE DEF y
      <2>11. S[i] \in Scalars(size) /\ \A j \in 1 .. size : S[i][j] # 0
            BY <2>1, <2>2, <2>10 DEF Scalars
      <2>12. Links(V[i], m, i, pubs[i], S[i], 1, size, F(i))
            BY <1>1, <2>1, <2>4, <2>6, <2>7, <2>11, RingWalkIs
      <2>13. Ring(m, i, size, pubs[i], s[i], own, x, k[i], F(i), B[i], E(i), A[i], S[i], V[i])
            BY <2>1, <2>2, <2>3, <2>5, <2>6, <2>8, <2>9, <2>12 DEF Ring, y, x
      <2>14. /\ V[i][size].R = IF own = size THEN GMul(k[i], G) ELSE A[i][size].R
             /\ walkable(B[i]) /\ usable(E(i)) /\ walkable(A[i]) => walkable(V[i])
            BY <2>13, RingIsWalked
      <2>15. QED
            BY <1>4, <1>10, <2>11, <2>14 DEF size, own
<1>15. /\ \A i \in DOMAIN pubs : /\ walkable(V[i])
                                 /\ \A j \in DOMAIN pubs[i] : S[i][j] # 0 /\ pubs[i][j] # Infinity
      <2>1. ASSUME NEW i \in 1 .. n
            PROVE  walkable(V[i]) /\ \A j \in DOMAIN pubs[i] : S[i][j] # 0 /\ pubs[i][j] # Infinity
            <3>1. DOMAIN pubs[i] = 1 .. Len(pubs[i])
                  <4>1. pubs[i] \in Points(Len(pubs[i]))
                        BY RingTyped
                  <4>2. QED
                        BY <4>1 DEF Points
            <3>2. \A j \in 1 .. Len(pubs[i]) : pubs[i][j] # Infinity
                  BY RingTyped
            <3>3. QED
                  BY <1>14, <3>1, <3>2
      <2>2. QED
            BY <1>1, <2>1
<1>16. e0 = finalHash(Tuple(n, LAMBDA i : V[i][Len(pubs[i])].R), m)
      <2> DEFINE L == lastPoints(s, pubs, k, secidx, m)
                 f == [i \in 1 .. n |-> V[i][Len(pubs[i])].R]
      <2>1. L = [i \in 1 .. n |-> L[i]]
            BY <1>1 DEF lastPoints
      <2>2. Tuple(n, LAMBDA i : V[i][Len(pubs[i])].R) = SubSeq(f, 1, n)
            BY DEF Tuple
      <2>3. \A i \in 1 .. n : V[i][Len(pubs[i])].R = L[i]
            BY <1>14
      <2> HIDE DEF L
      <2>4. f = L
            BY <2>1, <2>3
      <2>5. SubSeq(L, 1, n) = L
            BY <1>1, <2>1, TupleIs
      <2>6. QED
            BY <2>2, <2>4, <2>5 DEF e0, ringsHash, L
<1>17. borromean_verify(e0, S, pubs, m).ok
      <2> DEFINE W == Tuple(Len(pubs), LAMBDA i : ringWalk(m, i, pubs, S, 1, Len(pubs[i]),
                                                           borromean_hash(m, <<e0>>, i - 1, 0)))
      <2>1. W = V
            <3>1. W = SubSeq(V, 1, n)
                  BY <1>1 DEF Tuple, V, F
            <3>2. V = [i \in 1 .. n |-> V[i]]
                  BY DEF V
            <3>3. QED
                  BY <1>1, <3>1, <3>2, TupleIs
      <2>2. borromean_verify(e0, S, pubs, m).ok
              <=> /\ \A i \in DOMAIN pubs : /\ walkable(W[i])
                                            /\ \A j \in DOMAIN pubs[i] : S[i][j] # 0 /\ pubs[i][j] # Infinity
                  /\ e0 = finalHash(Tuple(Len(pubs), LAMBDA i : W[i][Len(pubs[i])].R), m)
            BY DEF borromean_verify
      <2> HIDE DEF W
      <2>3. Tuple(Len(pubs), LAMBDA i : W[i][Len(pubs[i])].R) = Tuple(n, LAMBDA i : V[i][Len(pubs[i])].R)
            BY <1>1, <2>1
      <2>4. QED
            BY <1>15, <1>16, <2>1, <2>2, <2>3
<1>18. QED
      BY <1>2, <1>3, <1>6, <1>14, <1>17

\* What has infinity among its keys is refused.
LEMMA BorromeanRefuses ==
    ASSUME NEW e0, NEW s, NEW pubs, NEW m, NEW i \in DOMAIN pubs, NEW j \in DOMAIN pubs[i], pubs[i][j] = Infinity
    PROVE  ~borromean_verify(e0, s, pubs, m).ok
BY DEF borromean_verify

-------------------------------------------------------------------------------
(* The inputs of a surjection proof, in their order.                       *)

\* The inputs that come before x.
below(used, x) == {k \in used : k < x}

\* An input that is used has as many used ones before it as its place says.
LEMMA CountsUp ==
    ASSUME NEW n \in Nat, NEW used \in SUBSET (0 .. n - 1)
    PROVE  /\ IsFiniteSet(used) /\ Cardinality(used) \in Nat
           /\ \A x \in Nat : IsFiniteSet(below(used, x)) /\ Cardinality(below(used, x)) \in Nat
           /\ Cardinality(below(used, 0)) = 0 /\ below(used, n) = used
           /\ \A x \in Nat : Cardinality(below(used, x + 1))
                               = IF x \in used THEN Cardinality(below(used, x)) + 1 ELSE Cardinality(below(used, x))
           /\ \A x, y \in Nat : x <= y => Cardinality(below(used, x)) <= Cardinality(below(used, y))
<1>0. \A x, k : k \in below(used, x) <=> k \in used /\ k \in Nat /\ k < n /\ k < x
      <2>1. \A k \in used : k \in 0 .. n - 1
            OBVIOUS
      <2>2. \A k : k \in 0 .. n - 1 => k \in Nat /\ k < n
            OBVIOUS
      <2>3. \A x, k : k \in below(used, x) <=> k \in used /\ k < x
            BY DEF below
      <2>4. QED
            BY <2>1, <2>2, <2>3, Zenon
<1>1. IsFiniteSet(used)
      <2>1. IsFiniteSet(0 .. n - 1)
            BY FS_Interval
      <2>2. QED
            BY <2>1, FS_Subset
<1>2. ASSUME NEW x \in Nat PROVE IsFiniteSet(below(used, x)) /\ Cardinality(below(used, x)) \in Nat
      <2>1. below(used, x) \in SUBSET used
            BY DEF below
      <2>2. IsFiniteSet(below(used, x))
            BY <1>1, <2>1, FS_Subset
      <2>3. QED
            BY <2>2, FS_CardinalityType
<1>3. Cardinality(below(used, 0)) = 0
      <2>1. below(used, 0) = {}
            BY <1>0
      <2>2. QED
            BY <2>1, FS_EmptySet
<1>4. below(used, n) = used
      <2>1. \A k : k \in below(used, n) <=> k \in used
            <3>1. \A k \in used : k \in 0 .. n - 1
                  OBVIOUS
            <3>2. \A k : k \in 0 .. n - 1 => k \in Nat /\ k < n
                  OBVIOUS
            <3>3. QED
                  BY <1>0, <3>1, <3>2, Zenon
      <2>2. QED
            BY <2>1, Zenon
<1>5. ASSUME NEW x \in Nat
      PROVE  Cardinality(below(used, x + 1))
               = IF x \in used THEN Cardinality(below(used, x)) + 1 ELSE Cardinality(below(used, x))
      <2>1. CASE x \in used
            <3>1. \A k : k \in below(used, x + 1) <=> k \in below(used, x) \union {x}
                  BY <1>0, <2>1
            <3>3. x \notin below(used, x)
                  BY <1>0
            <3>2. below(used, x + 1) = below(used, x) \union {x}
                  BY <3>1, Zenon
            <3>4. QED
                  BY <1>2, <2>1, <3>2, <3>3, FS_AddElement
      <2>2. CASE x \notin used
            <3>1. \A k : k \in below(used, x + 1) <=> k \in below(used, x)
                  BY <1>0, <2>2
            <3>2. below(used, x + 1) = below(used, x)
                  BY <3>1, Zenon
            <3>3. QED
                  BY <2>2, <3>2
      <2>3. QED
            BY <2>1, <2>2
<1>6. ASSUME NEW x \in Nat, NEW y \in Nat, x <= y
      PROVE  Cardinality(below(used, x)) <= Cardinality(below(used, y))
      <2>1. below(used, x) \in SUBSET below(used, y)
            BY <1>0, <1>6
      <2>2. QED
            BY <1>2, <2>1, FS_Subset
<1>7. Cardinality(used) \in Nat
      BY <1>1, FS_CardinalityType
<1>8. QED
      BY <1>1, <1>2, <1>3, <1>4, <1>5, <1>6, <1>7

\* There is one input at every place, and every input has a place.
LEMMA NthUsedIs ==
    ASSUME NEW n \in Nat, NEW used \in SUBSET (0 .. n - 1)
    PROVE  /\ \A j \in 1 .. Cardinality(used) : nthUsed(used, j) \in used
           /\ \A i \in used : /\ Cardinality(below(used, i)) + 1 \in 1 .. Cardinality(used)
                              /\ nthUsed(used, Cardinality(below(used, i)) + 1) = i
<1> DEFINE c(x) == Cardinality(below(used, x))
           N == Cardinality(used)
<1>1. /\ N \in Nat /\ \A x \in Nat : c(x) \in Nat
      /\ c(0) = 0 /\ c(n) = N
      /\ \A x \in Nat : c(x + 1) = IF x \in used THEN c(x) + 1 ELSE c(x)
      /\ \A x, y \in Nat : x <= y => c(x) <= c(y)
      BY CountsUp
<1>2. used \subseteq Nat /\ \A i \in used : i < n
      OBVIOUS
<1>3. \A j : nthUsed(used, j) = CHOOSE i \in used : c(i) = j - 1
      BY DEF nthUsed, below
<1> HIDE DEF c, N
<1>4. ASSUME NEW j \in 1 .. N PROVE \E i \in used : c(i) = j - 1
      <2> DEFINE high == {x \in Nat : c(x) >= j}
      <2>1. high \subseteq Nat /\ n \in high
            BY <1>1
      <2>2. PICK m \in high : \A k \in high : m <= k
            <3> HIDE DEF high
            <3>1. high # {}
                  BY <2>1
            <3>2. QED
                  BY <2>1, <3>1, LeastOf, Zenon
      <2>3. m \in Nat /\ c(m) >= j /\ m # 0
            BY <1>1, <2>2
      <2>4. m - 1 \in Nat /\ m - 1 \notin high /\ (m - 1) + 1 = m
            BY <2>2, <2>3
      <2>5. c(m - 1) < j /\ c(m - 1) \in Nat
            BY <1>1, <2>4
      <2>6. c(m) = IF m - 1 \in used THEN c(m - 1) + 1 ELSE c(m - 1)
            BY <1>1, <2>4
      <2>7. m - 1 \in used /\ c(m - 1) = j - 1
            <3> HIDE DEF high
            <3>1. c(m) \in Nat
                  BY <1>1, <2>3
            <3>2. QED
                  BY <2>3, <2>5, <2>6, <3>1
      <2>8. QED
            BY <2>7
<1>5. ASSUME NEW i \in used PROVE c(i) \in Nat /\ c(i) + 1 \in 1 .. N /\ \A k \in used : c(k) = c(i) => k = i
      <2>1. \A k \in used : k \in Nat /\ k + 1 \in Nat /\ c(k + 1) = c(k) + 1 /\ c(k) \in Nat
            BY <1>1, <1>2
      <2>2. i + 1 <= n /\ c(i + 1) <= N
            BY <1>1, <1>2, <2>1
      <2>3. ASSUME NEW k \in used, c(k) = c(i) PROVE k = i
            <3>1. ~(i + 1 <= k)
                  <4>1. SUFFICES ASSUME i + 1 <= k PROVE FALSE
                        BY <4>1
                  <4>2. c(i + 1) <= c(k)
                        BY <1>1, <2>1, <4>1
                  <4>3. QED
                        BY <2>1, <2>3, <4>2
            <3>2. ~(k + 1 <= i)
                  <4>1. SUFFICES ASSUME k + 1 <= i PROVE FALSE
                        BY <4>1
                  <4>2. c(k + 1) <= c(i)
                        BY <1>1, <2>1, <4>1
                  <4>3. QED
                        BY <2>1, <2>3, <4>2
            <3>3. QED
                  BY <2>1, <3>1, <3>2
      <2>4. QED
            BY <1>1, <2>1, <2>2, <2>3
<1>6. ASSUME NEW j \in 1 .. N PROVE nthUsed(used, j) \in used
      BY <1>3, <1>4
<1>7. ASSUME NEW i \in used PROVE nthUsed(used, c(i) + 1) = i
      <2>1. nthUsed(used, c(i) + 1) = CHOOSE k \in used : c(k) = (c(i) + 1) - 1
            BY <1>3
      <2>2. (c(i) + 1) - 1 = c(i)
            BY <1>5
      <2>3. QED
            BY <1>5, <2>1, <2>2
<1>8. QED
      BY <1>5, <1>6, <1>7 DEF N, c

-------------------------------------------------------------------------------
(* Differences of points.                                                  *)

\* A difference is infinity only between a point and itself.
LEMMA DifferenceOf ==
    ASSUME NEW P \in Point, NEW R \in Point
    PROVE  GAdd(GNeg(P), R) \in Point /\ (GAdd(GNeg(P), R) = Infinity <=> P = R)
<1>1. GNeg(P) = [k \in 1 .. Dim |-> SNeg(P[k])] /\ GNeg(P) \in Point
      BY GNegIs
<1>2. GAdd(GNeg(P), R) = [k \in 1 .. Dim |-> SAdd(GNeg(P)[k], R[k])] /\ GAdd(GNeg(P), R) \in Point
      BY <1>1, GAddIs
<1>3. \A k \in 1 .. Dim : P[k] \in Scalar /\ R[k] \in Scalar
      BY DEF Point
<1>4. \A k \in 1 .. Dim : GAdd(GNeg(P), R)[k] = SAdd(SNeg(P[k]), R[k])
      BY <1>1, <1>2
<1>5. \A a, b \in Scalar : SAdd(SNeg(a), b) = 0 <=> a = b
      <2>1. ASSUME NEW a \in Scalar, NEW b \in Scalar PROVE SAdd(SNeg(a), b) = 0 <=> a = b
            <3>1. SNeg(a) \in Scalar /\ SAdd(SNeg(a), b) = SAdd(b, SNeg(a))
                  BY RingLaws
            <3>2. SAdd(b, SNeg(a)) = 0 => b = a
                  BY SumLaws
            <3>3. SAdd(SNeg(a), a) = 0
                  BY RingLaws
            <3>4. QED
                  BY <3>1, <3>2, <3>3
      <2>2. QED
            BY <2>1
<1>6. ASSUME GAdd(GNeg(P), R) = Infinity PROVE P = R
      <2>1. \A k \in 1 .. Dim : SAdd(SNeg(P[k]), R[k]) = 0
            BY <1>4, <1>6, InfinityIs
      <2>2. \A k \in 1 .. Dim : P[k] = R[k]
            BY <1>3, <1>5, <2>1
      <2>3. QED
            BY <2>2, SamePoint
<1>7. ASSUME P = R PROVE GAdd(GNeg(P), R) = Infinity
      <2>1. \A k \in 1 .. Dim : GAdd(GNeg(P), R)[k] = Infinity[k]
            BY <1>3, <1>4, <1>5, <1>7, InfinityIs
      <2>2. QED
            BY <1>2, <2>1, InfinityIs, SamePoint
<1>8. QED
      BY <1>2, <1>6, <1>7

\* Two blinded generators of one asset differ by their keys.
LEMMA TagsDiffer ==
    ASSUME NEW a \in Nat, NEW x \in Nat, NEW y \in Nat
    PROVE  /\ assetTag(a, x) \in Point
           /\ GAdd(GNeg(assetTag(a, x)), assetTag(a, y)) = GMul(SAdd(ScalarOf(y), SNeg(ScalarOf(x))), G)
<1> DEFINE U == Unit(1 + a)
           p == ScalarOf(x)
           q == ScalarOf(y)
           X == GMul(p, G)
           Y == GMul(q, G)
           d == SAdd(q, SNeg(p))
<1>1. p \in Scalar /\ q \in Scalar
      BY GroupAssumption DEF ScalarOf, Scalar
<1>2. U \in Point
      BY UnitIs
<1>3. assetTag(a, x) = GAdd(X, U) /\ assetTag(a, y) = GAdd(Y, U)
      BY DEF assetTag, generator_generate_blinded
<1> HIDE DEF U, p, q
<1>4. /\ X \in Point /\ X = [i \in 1 .. Dim |-> IF i = 1 THEN p ELSE 0]
      /\ Y \in Point /\ Y = [i \in 1 .. Dim |-> IF i = 1 THEN q ELSE 0]
      BY <1>1, MultipleIs
<1>5. d \in Scalar
      BY <1>1, RingLaws
<1>6. GMul(d, G) \in Point /\ GMul(d, G) = [i \in 1 .. Dim |-> IF i = 1 THEN d ELSE 0]
      BY <1>5, MultipleIs
<1> HIDE DEF X, Y, d
<1>7. /\ GAdd(X, U) \in Point /\ GAdd(X, U) = [i \in 1 .. Dim |-> SAdd(X[i], U[i])]
      /\ GAdd(Y, U) \in Point /\ GAdd(Y, U) = [i \in 1 .. Dim |-> SAdd(Y[i], U[i])]
      BY <1>2, <1>4, GAddIs
<1> DEFINE A == GAdd(X, U)
           B == GAdd(Y, U)
           D == GAdd(GNeg(A), B)
<1>8. /\ A \in Point /\ B \in Point
      /\ \A i \in 1 .. Dim : A[i] = SAdd(X[i], U[i]) /\ B[i] = SAdd(Y[i], U[i])
      BY <1>7
<1> HIDE DEF A, B
<1>9. GNeg(A) \in Point /\ GNeg(A) = [i \in 1 .. Dim |-> SNeg(A[i])]
      BY <1>8, GNegIs
<1>10. D \in Point /\ D = [i \in 1 .. Dim |-> SAdd(GNeg(A)[i], B[i])]
       BY <1>8, <1>9, GAddIs
<1> HIDE DEF D
<1>11. ASSUME NEW i \in 1 .. Dim PROVE D[i] = GMul(d, G)[i]
       <2> DEFINE u == U[i]
                  s == X[i]
                  t == Y[i]
       <2>1. u \in Scalar /\ s \in Scalar /\ t \in Scalar
             BY <1>2, <1>4 DEF Point
       <2>2. D[i] = SAdd(SNeg(SAdd(s, u)), SAdd(t, u))
             BY <1>8, <1>9, <1>10
       <2>3. s = (IF i = 1 THEN p ELSE 0) /\ t = IF i = 1 THEN q ELSE 0
             BY <1>4
       <2> HIDE DEF s, t, u
       <2>4. SAdd(SNeg(SAdd(s, u)), SAdd(t, u)) = SAdd(t, SNeg(s))
             <3>1. SNeg(s) \in Scalar /\ SNeg(u) \in Scalar /\ SNeg(SAdd(s, u)) = SAdd(SNeg(s), SNeg(u))
                   BY <2>1, RingLaws
             <3>2. SAdd(SAdd(SNeg(s), SNeg(u)), SAdd(t, u)) = SAdd(SAdd(SNeg(s), t), SAdd(SNeg(u), u))
                   BY <2>1, <3>1, AddFour
             <3>3. SAdd(SNeg(u), u) = 0 /\ SAdd(SNeg(s), t) = SAdd(t, SNeg(s)) /\ SAdd(t, SNeg(s)) \in Scalar
                   BY <2>1, <3>1, RingLaws
             <3>4. SAdd(SAdd(t, SNeg(s)), 0) = SAdd(t, SNeg(s))
                   BY <3>3, RingLaws
             <3>5. QED
                   BY <3>1, <3>2, <3>3, <3>4
       <2>5. SAdd(0, SNeg(0)) = 0
             BY RingLaws
       <2>6. GMul(d, G)[i] = IF i = 1 THEN d ELSE 0
             BY <1>6
       <2>7. QED
             BY <2>2, <2>3, <2>4, <2>5, <2>6 DEF d
<1>12. D = GMul(d, G)
       BY <1>6, <1>10, <1>11, SamePoint
<1>13. QED
       BY <1>3, <1>8, <1>12 DEF A, B, D, d, p, q

-------------------------------------------------------------------------------
(* What the maker of a surjection proof draws.                             *)

\* What the maker of a surjection proof draws is not 0: it looks for an
\* overflow only.
SurjectionDrawsCount == \A a \in Nat, b \in Bytes32, c \in Scalar : RangeHash(<<a, b, c>>) # 0

\* The maker draws an answer other than 0 for every input.
LEMMA SurjectionRandIs ==
    ASSUME RangeHashesAreBytes, SurjectionDrawsCount, NEW n \in Nat, NEW key \in Scalar,
           surjection_genrand(n, key).ok
    PROVE  surjection_genrand(n, key).s \in Scalars(n) /\ \A i \in 1 .. n : surjection_genrand(n, key).s[i] # 0
<1> DEFINE next(t, i) == IF i = 0 THEN key ELSE RangeHash(<<i - 1, t[i - 1], key>>)
           u == CHOOSE t : t = [i \in 0 .. n |-> next(t, i)]
           move == [p \in Bytes32 \X (1 .. n) |-> RangeHash(<<p[2] - 1, p[1], key>>)]
           f == [i \in 1 .. n |-> ScalarOf(u[i])]
<1>1. /\ surjection_genrand(n, key).s = Tuple(n, LAMBDA i : ScalarOf(u[i]))
      /\ surjection_genrand(n, key).ok = \A i \in 1 .. n : ~Overflow(u[i])
      BY DEF surjection_genrand
<1>2. surjection_genrand(n, key).s = SubSeq(f, 1, n)
      BY <1>1 DEF Tuple
<1>3. f = [i \in 1 .. n |-> f[i]] /\ \A i \in 1 .. n : f[i] = ScalarOf(u[i])
      OBVIOUS
<1> HIDE DEF f
<1>4. surjection_genrand(n, key).s = f
      BY <1>2, <1>3, TupleIs
<1>5. key \in Bytes32 /\ key \in Nat
      BY ScalarsAreBytes, ZeroAndOne
<1>6. ASSUME NEW x \in Bytes32, NEW i \in 1 .. n PROVE RangeHash(<<i - 1, x, key>>) \in Bytes32
      <2>1. i - 1 \in Nat /\ x \in Nat
            BY BytesMakeScalars
      <2>2. <<i - 1, x, key>> \in Seq(Nat)
            BY <1>5, <2>1
      <2>3. QED
            BY <2>2 DEF RangeHashesAreBytes
<1>7. move \in [Bytes32 \X (1 .. n) -> Bytes32]
      <2>1. ASSUME NEW p \in Bytes32 \X (1 .. n) PROVE RangeHash(<<p[2] - 1, p[1], key>>) \in Bytes32
            <3>1. p[1] \in Bytes32 /\ p[2] \in 1 .. n
                  OBVIOUS
            <3>2. QED
                  BY <1>6, <3>1
      <2>2. QED
            BY <2>1
<1>8. PICK t : Walks(t, n, Bytes32, key, move)
      <2> HIDE DEF move
      <2>1. QED
            BY <1>5, <1>7, WalkExists
<1>9. /\ t \in [0 .. n -> Bytes32] /\ t[0] = key
      /\ \A i \in 1 .. n : t[i] = RangeHash(<<i - 1, t[i - 1], key>>)
      <2>1. /\ t \in [0 .. n -> Bytes32] /\ t[0] = key
            /\ \A i \in 1 .. n : t[i] = move[<<t[i - 1], i>>]
            BY <1>8 DEF Walks
      <2>2. ASSUME NEW i \in 1 .. n PROVE <<t[i - 1], i>> \in Bytes32 \X (1 .. n)
            <3>1. i - 1 \in 0 .. n
                  OBVIOUS
            <3>2. QED
                  BY <2>1, <3>1
      <2>3. QED
            BY <2>1, <2>2
<1>10. t = [i \in 0 .. n |-> next(t, i)]
       <2>1. ASSUME NEW i \in 0 .. n PROVE t[i] = next(t, i)
             <3>1. CASE i = 0
                   BY <1>9, <3>1
             <3>2. CASE i # 0
                   <4>1. i \in 1 .. n
                         BY <3>2
                   <4>2. QED
                         BY <1>9, <3>2, <4>1
             <3>3. QED
                   BY <3>1, <3>2
       <2> HIDE DEF next
       <2>2. t = [i \in 0 .. n |-> t[i]]
             BY <1>9
       <2>3. QED
             BY <2>1, <2>2
<1>11. u = [i \in 0 .. n |-> next(u, i)]
       <2> HIDE DEF next
       <2>1. QED
             BY <1>10
<1>12. \A i \in 0 .. n : u[i] = next(u, i)
       <2> HIDE DEF u, next
       <2>1. QED
             BY <1>11
<1> HIDE DEF u
<1>13. \A i \in 0 .. n : u[i] \in Bytes32
       <2> DEFINE good == {i \in 0 .. n : u[i] \in Bytes32}
       <2>1. 0 \in good
             <3>1. 0 \in 0 .. n
                   OBVIOUS
             <3>2. u[0] = next(u, 0)
                   BY <1>12, <3>1
             <3>3. u[0] = key
                   BY <3>2
             <3>4. QED
                   BY <1>5, <3>1, <3>3
       <2>2. ASSUME NEW i \in 1 .. n, i - 1 \in good PROVE i \in good
             <3>1. i \in 0 .. n /\ i # 0 /\ u[i - 1] \in Bytes32
                   BY <2>2
             <3>2. u[i] = RangeHash(<<i - 1, u[i - 1], key>>)
                   BY <1>12, <3>1
             <3>3. QED
                   BY <1>6, <3>1, <3>2
       <2>3. \A i \in 0 .. n : i \in good
             <3> HIDE DEF good
             <3>1. QED
                   BY <2>1, <2>2, CountUp
       <2>4. QED
             BY <2>3
<1>14. ASSUME NEW i \in 1 .. n PROVE f[i] \in Scalar /\ f[i] # 0
       <2>1. i \in 0 .. n /\ i # 0 /\ i - 1 \in 0 .. n /\ i - 1 \in Nat
             OBVIOUS
       <2>2. u[i] = RangeHash(<<i - 1, u[i - 1], key>>) /\ u[i - 1] \in Bytes32 /\ u[i] \in Bytes32
             BY <1>12, <1>13, <2>1
       <2>3. u[i] # 0
             BY <2>1, <2>2 DEF SurjectionDrawsCount
       <2>4. u[i] \in Nat /\ ~Overflow(u[i])
             BY <1>1, <2>2, BytesMakeScalars
       <2>5. ScalarOf(u[i]) = u[i] /\ u[i] \in Scalar
             BY <2>4, NoOverflow
       <2>6. QED
             BY <1>3, <2>3, <2>5
<1>15. f \in Scalars(n)
       BY <1>3, <1>14 DEF Scalars
<1>16. QED
       BY <1>4, <1>14, <1>15

\* The tags and the keys of a surjection proof.
LEMMA SurjectionJobTyped ==
    ASSUME NEW job \in SurjectionJobs
    PROVE  /\ Len(job.fixed) \in Nat /\ Len(job.inKeys) = Len(job.fixed)
           /\ \A i \in 1 .. Len(job.fixed) : job.fixed[i] \in Nat /\ job.inKeys[i] \in Nat
           /\ job.tag \in Nat /\ job.outKey \in Nat /\ job.use \in Nat /\ job.tries \in Nat
<1>1. /\ job.fixed \in Seq(1 .. Dim - 1) /\ job.tag \in 1 .. Dim - 1 /\ job.use \in Nat /\ job.tries \in Nat
      /\ job.inKeys \in Seq(Nat) /\ job.outKey \in Nat /\ Len(job.inKeys) = Len(job.fixed)
      BY ListJobAssumption
<1>2. ASSUME NEW i \in 1 .. Len(job.fixed) PROVE job.fixed[i] \in Nat /\ job.inKeys[i] \in Nat
      <2>1. job.fixed[i] \in 1 .. Dim - 1
            BY <1>1, GroupAssumption
      <2>2. job.inKeys[i] \in Nat
            BY <1>1
      <2>3. QED
            BY <2>1, <2>2
<1>3. Len(job.fixed) \in Nat /\ job.tag \in Nat
      BY <1>1
<1>4. QED
      BY <1>1, <1>2, <1>3

\* The generators of the inputs and of the output.
LEMMA TagsTyped ==
    ASSUME NEW job \in SurjectionJobs
    PROVE  /\ surjectionInputs(job) \in Points(Len(job.fixed)) /\ Len(surjectionInputs(job)) = Len(job.fixed)
           /\ \A i \in 1 .. Len(job.fixed) : surjectionInputs(job)[i] = assetTag(job.fixed[i], job.inKeys[i])
           /\ surjectionOutput(job) \in Point
<1> DEFINE n == Len(job.fixed)
           f == [i \in 1 .. n |-> assetTag(job.fixed[i], job.inKeys[i])]
<1>1. n \in Nat /\ job.tag \in Nat /\ job.outKey \in Nat /\ \A i \in 1 .. n : job.fixed[i] \in Nat /\ job.inKeys[i] \in Nat
      BY SurjectionJobTyped
<1>2. surjectionInputs(job) = SubSeq(f, 1, n)
      BY DEF surjectionInputs, Tuple
<1>3. f = [i \in 1 .. n |-> f[i]] /\ \A i \in 1 .. n : f[i] = assetTag(job.fixed[i], job.inKeys[i])
      OBVIOUS
<1> HIDE DEF f, n
<1>4. surjectionInputs(job) = f
      BY <1>1, <1>2, <1>3, TupleIs
<1>5. f \in Points(n)
      <2>1. \A i \in 1 .. n : f[i] \in Point
            BY <1>1, <1>3, TagsDiffer
      <2>2. QED
            BY <1>3, <2>1 DEF Points
<1>6. surjectionOutput(job) \in Point
      BY <1>1, TagsDiffer DEF surjectionOutput
<1>7. Len(f) = n
      BY <1>1, <1>5, LengthIs
<1>8. QED
      BY <1>3, <1>4, <1>5, <1>6, <1>7 DEF n

\* The keys of the ring: the differences of the output and the used inputs.
LEMMA SurjectionKeysAre ==
    ASSUME NEW n \in Nat, NEW used \in SUBSET (0 .. n - 1), NEW inputs \in Points(n), NEW output \in Point
    PROVE  LET pubs == surjection_compute_public_keys(inputs, used, output)
               N == Cardinality(used)
           IN /\ N \in Nat /\ pubs \in Points(N) /\ Len(pubs) = N
              /\ \A j \in 1 .. N : pubs[j] = GAdd(GNeg(inputs[nthUsed(used, j) + 1]), output)
              /\ (\E j \in 1 .. N : pubs[j] = Infinity) <=> (\E i \in used : inputs[i + 1] = output)
<1> DEFINE N == Cardinality(used)
           pubs == surjection_compute_public_keys(inputs, used, output)
           f == [j \in 1 .. N |-> GAdd(GNeg(inputs[nthUsed(used, j) + 1]), output)]
           at(i) == Cardinality(below(used, i)) + 1
<1>1. /\ N \in Nat /\ \A j \in 1 .. N : nthUsed(used, j) \in used
      /\ \A i \in used : at(i) \in 1 .. N /\ nthUsed(used, at(i)) = i
      BY CountsUp, NthUsedIs
<1>2. pubs = SubSeq(f, 1, N)
      BY DEF surjection_compute_public_keys, Tuple
<1>3. f = [j \in 1 .. N |-> f[j]] /\ \A j \in 1 .. N : f[j] = GAdd(GNeg(inputs[nthUsed(used, j) + 1]), output)
      OBVIOUS
<1> HIDE DEF f, N, pubs, at
<1>4. pubs = f
      BY <1>1, <1>2, <1>3, TupleIs
<1>5. \A i \in used : inputs[i + 1] \in Point
      <2>1. ASSUME NEW i \in used PROVE inputs[i + 1] \in Point
            <3>1. i \in 0 .. n - 1
                  OBVIOUS
            <3>2. i + 1 \in 1 .. n
                  BY <3>1
            <3>3. QED
                  BY <3>2 DEF Points
      <2>2. QED
            BY <2>1
<1>6. \A j \in 1 .. N : f[j] \in Point /\ (f[j] = Infinity <=> inputs[nthUsed(used, j) + 1] = output)
      BY <1>1, <1>3, <1>5, DifferenceOf
<1>7. f \in Points(N)
      BY <1>3, <1>6 DEF Points
<1>8. (\E j \in 1 .. N : f[j] = Infinity) <=> (\E i \in used : inputs[i + 1] = output)
      <2>1. ASSUME NEW j \in 1 .. N, f[j] = Infinity PROVE \E i \in used : inputs[i + 1] = output
            BY <1>1, <1>6, <2>1
      <2>2. ASSUME NEW i \in used, inputs[i + 1] = output PROVE \E j \in 1 .. N : f[j] = Infinity
            BY <1>1, <1>6, <2>2
      <2>3. QED
            BY <2>1, <2>2
<1>9. Len(f) = N
      BY <1>1, <1>7, LengthIs
<1>10. QED
       BY <1>1, <1>3, <1>4, <1>7, <1>8, <1>9 DEF N, pubs

\* A hash over points and one more is a number.
LEMMA SurjectionMessageTyped ==
    ASSUME RangeHashesAreBytes, NEW n \in Nat, NEW inputs \in Points(n), NEW output \in Point
    PROVE  surjection_genmessage(inputs, output) \in Nat
<1>1. Len(inputs) = n
      BY LengthIs
<1>2. \A i \in 1 .. n : inputs[i] \in Seq(Nat)
      BY PointIsTuple DEF Points
<1>3. joined(n, inputs) \in Seq(Nat) /\ output \in Seq(Nat)
      BY <1>2, FlatTyped, PointIsTuple
<1>4. surjection_genmessage(inputs, output) = RangeHash(joined(n, inputs) \o output)
      BY <1>1 DEF surjection_genmessage, joined
<1>5. joined(n, inputs) \o output \in Seq(Nat)
      BY <1>3
<1>6. QED
      BY <1>4, <1>5, BytesMakeScalars DEF RangeHashesAreBytes

\* The bytes of a list hold its first and the others.
LEMMA FirstAndRest ==
    ASSUME NEW e, NEW S, NEW s \in Seq(S)
    PROVE  Head(<<e>> \o s) = e /\ Tail(<<e>> \o s) = s
<1> DEFINE T == S \union {e}
<1>1. s \in Seq(T) /\ e \in T
      <2>1. s \in Seq(T)
            BY SeqMonotonic
      <2>2. QED
            BY <2>1
<1> HIDE DEF T
<1>2. Len(<<e>> \o s) = 1 + Len(s) /\ <<e>> \o s \in Seq(T) /\ <<e>> \o s # <<>>
      BY <1>1
<1>3. Head(<<e>> \o s) = e
      BY <1>1
<1>4. Tail(<<e>> \o s) = s
      <2>1. Tail(<<e>> \o s) \in Seq(T) /\ Len(Tail(<<e>> \o s)) = Len(s)
            BY <1>1, <1>2
      <2>2. \A i \in 1 .. Len(s) : Tail(<<e>> \o s)[i] = s[i]
            BY <1>1, <1>2
      <2>3. QED
            BY <1>1, <2>1, <2>2, SeqEqual
<1>5. QED
      BY <1>3, <1>4
\* A surjection proof over an input of the output's asset is accepted, but for
\* an unblinded input that is the output.
LEMMA SurjectionComplete ==
    ASSUME RangeHashesAreBytes, SurjectionDrawsCount,
           NEW job \in SurjectionJobs, Len(job.fixed) <= MaxKeys,
           NEW used \in SUBSET (0 .. Len(job.fixed) - 1), NEW index \in used, job.fixed[index + 1] = job.tag,
           NEW made, made = surjectionproof_generate(Len(job.fixed), used, surjectionInputs(job),
                               surjectionOutput(job), index, job.inKeys[index + 1], job.outKey),
           made.ok
    PROVE  LET sent == surjectionproof_parse(surjectionproof_serialize(made.v))
           IN /\ made.v.used = used
              /\ (sent.ok /\ surjectionproof_verify(sent.v, surjectionInputs(job), surjectionOutput(job)))
                    <=> ~unblindedMatch(job, used)
<1> DEFINE n == Len(job.fixed)
           N == Cardinality(used)
           inputs == surjectionInputs(job)
           output == surjectionOutput(job)
           inKey == job.inKeys[index + 1]
           outKey == job.outKey
           key == SAdd(ScalarOf(outKey), SNeg(ScalarOf(inKey)))
           rand == surjection_genrand(N, key)
           at == Cardinality({i \in used : i < index}) + 1
           r == [rand.s EXCEPT ![at] = 0]
           pubs == surjection_compute_public_keys(inputs, used, output)
           m == surjection_genmessage(inputs, output)
           sig == borromean_sign(<<r>>, <<pubs>>, <<rand.s[at]>>, <<key>>, <<at - 1>>, m)
           bad == \/ Overflow(inKey) \/ Overflow(outKey)
                  \/ ScalarOf(inKey) = ScalarOf(outKey) /\ ScalarOf(outKey) # 0
                  \/ N > n \/ n # Len(inputs) \/ ~rand.ok
<1>1. made = IF bad THEN Fails ELSE surjectionFrom(n, used, sig)
      BY DEF surjectionproof_generate
<1>2. ~bad /\ made = surjectionFrom(n, used, sig)
      <2> HIDE DEF bad, sig
      <2>1. QED
            BY <1>1 DEF Fails
<1>3. rand.ok /\ N <= n
      <2>1. N \in Nat /\ n \in Nat
            BY CountsUp, SurjectionJobTyped
      <2> HIDE DEF N, n, rand
      <2>2. QED
            BY <1>2, <2>1
<1>4. sig.ok /\ made.v = [n |-> n, used |-> used, e0 |-> sig.v.e0, s |-> sig.v.s[1]]
      <2> HIDE DEF sig
      <2>1. QED
            BY <1>2 DEF surjectionFrom, Fails, Gives
<1>5. /\ n \in Nat /\ inKey \in Nat /\ outKey \in Nat /\ index + 1 \in 1 .. n /\ job.tag \in Nat
      /\ inputs \in Points(n) /\ Len(inputs) = n /\ output \in Point
      /\ inputs[index + 1] = assetTag(job.fixed[index + 1], inKey) /\ output = assetTag(job.tag, outKey)
      <2>1. index \in 0 .. n - 1 /\ n \in Nat
            BY SurjectionJobTyped
      <2>2. index + 1 \in 1 .. n
            BY <2>1
      <2>3. output = assetTag(job.tag, outKey)
            BY DEF surjectionOutput
      <2>4. QED
            BY <2>1, <2>2, <2>3, SurjectionJobTyped, TagsTyped
<1>6. at = Cardinality(below(used, index)) + 1
      BY DEF below
<1>7. /\ N \in Nat /\ at \in 1 .. N /\ nthUsed(used, at) = index /\ at - 1 \in Nat /\ (at - 1) + 1 = at
      <2>1. N \in Nat /\ Cardinality(below(used, index)) + 1 \in 1 .. N
               /\ nthUsed(used, Cardinality(below(used, index)) + 1) = index
            <3>1. n \in Nat /\ used \in SUBSET (0 .. n - 1) /\ index \in used
                  BY <1>5
            <3> HIDE DEF n, N
            <3>2. Cardinality(used) \in Nat
                  BY <3>1, CountsUp
            <3>3. Cardinality(below(used, index)) + 1 \in 1 .. Cardinality(used)
                  BY <3>1, CountsUp, NthUsedIs
            <3>4. nthUsed(used, Cardinality(below(used, index)) + 1) = index
                  BY <3>1, NthUsedIs
            <3>5. QED
                  BY <3>2, <3>3, <3>4 DEF N
      <2> HIDE DEF at, N
      <2>2. QED
            BY <1>6, <2>1
<1>8. /\ pubs \in Points(N) /\ Len(pubs) = N
      /\ \A j \in 1 .. N : pubs[j] = GAdd(GNeg(inputs[nthUsed(used, j) + 1]), output)
      /\ (\E j \in 1 .. N : pubs[j] = Infinity) <=> unblindedMatch(job, used)
      <2> DEFINE I == inputs
                 O == output
      <2>1. unblindedMatch(job, used) <=> \E i \in used : I[i + 1] = O
            BY DEF unblindedMatch
      <2>2. I \in Points(n) /\ O \in Point /\ n \in Nat
            BY <1>5
      <2> HIDE DEF I, O
      <2>3. LET k == surjection_compute_public_keys(I, used, O)
            IN /\ k \in Points(N) /\ Len(k) = N
               /\ \A j \in 1 .. N : k[j] = GAdd(GNeg(I[nthUsed(used, j) + 1]), O)
               /\ (\E j \in 1 .. N : k[j] = Infinity) <=> (\E i \in used : I[i + 1] = O)
            BY <2>2, SurjectionKeysAre
      <2>4. QED
            BY <2>1, <2>3 DEF I, O
<1>9. pubs[at] = GMul(key, G)
      <2>1. pubs[at] = GAdd(GNeg(inputs[index + 1]), output)
            BY <1>7, <1>8
      <2>2. GAdd(GNeg(assetTag(job.tag, inKey)), assetTag(job.tag, outKey)) = GMul(key, G)
            BY <1>5, TagsDiffer
      <2>3. QED
            BY <1>5, <2>1, <2>2
<1>10. key \in Scalar
       <2>1. ScalarOf(outKey) \in Scalar /\ ScalarOf(inKey) \in Scalar
             <3> HIDE DEF outKey, inKey
             <3>1. QED
                   BY <1>5, GroupAssumption DEF ScalarOf, Scalar
       <2>2. QED
             BY <2>1, RingLaws
<1>11. m \in Nat
       BY <1>5, SurjectionMessageTyped
<1>12. surjectionproof_verify([n |-> n, used |-> used, e0 |-> sig.v.e0, s |-> sig.v.s[1]], inputs, output)
          <=> borromean_verify(sig.v.e0, <<sig.v.s[1]>>, <<pubs>>, m).ok
       <2>1. used # {} /\ N <= n /\ n = Len(inputs)
             BY <1>3, <1>5
       <2> HIDE DEF sig
       <2>2. QED
             BY <2>1 DEF surjectionproof_verify
<1> HIDE DEF n, N, inputs, output, inKey, outKey, key, rand, at, pubs, m, bad
<1>13. rand.s \in Scalars(N) /\ \A j \in 1 .. N : rand.s[j] # 0
       BY <1>3, <1>7, <1>10, SurjectionRandIs DEF rand
<1>14. /\ r \in Scalars(N) /\ rand.s[at] \in Scalar
       /\ \A j \in 1 .. N : j # at => r[j] # 0
       BY <1>7, <1>13, ZeroAndOne DEF Scalars
<1> HIDE DEF r
<1>15. CASE unblindedMatch(job, used)
       <2>1. PICK j \in 1 .. N : pubs[j] = Infinity
             BY <1>8, <1>15
       <2>2. 1 \in DOMAIN <<pubs>> /\ <<pubs>>[1] = pubs /\ j \in DOMAIN pubs
             BY <1>8 DEF Points
       <2>3. ~borromean_verify(sig.v.e0, <<sig.v.s[1]>>, <<pubs>>, m).ok
             <3> HIDE DEF sig
             <3>1. QED
                   BY <2>1, <2>2, BorromeanRefuses
       <2> DEFINE W == [n |-> n, used |-> used, e0 |-> sig.v.e0, s |-> sig.v.s[1]]
                  sent == surjectionproof_parse(surjectionproof_serialize(made.v))
       <2>4. sent = Gives([n |-> n, used |-> used, e0 |-> Head(<<sig.v.e0>> \o sig.v.s[1]),
                           s |-> Tail(<<sig.v.e0>> \o sig.v.s[1])]) \/ ~sent.ok
             <3> HIDE DEF sig
             <3>1. QED
                   BY <1>4 DEF surjectionproof_parse, surjectionproof_serialize, Fails
       <2>5. ~(sent.ok /\ surjectionproof_verify(sent.v, inputs, output))
             <3>1. ASSUME sent.ok PROVE ~surjectionproof_verify(sent.v, inputs, output)
                   <4> DEFINE e == Head(<<sig.v.e0>> \o sig.v.s[1])
                              t == Tail(<<sig.v.e0>> \o sig.v.s[1])
                   <4>1. sent.v = [n |-> n, used |-> used, e0 |-> e, s |-> t]
                         <5>1. sent = Gives([n |-> n, used |-> used, e0 |-> e, s |-> t])
                               BY <2>4, <3>1
                         <5> HIDE DEF sent, e, t
                         <5>2. QED
                               BY <5>1 DEF Gives
                   <4> HIDE DEF e, t, sent, sig
                   <4>2. ~borromean_verify(e, <<t>>, <<pubs>>, m).ok
                         BY <2>1, <2>2, BorromeanRefuses
                   <4>3. QED
                         BY <4>1, <4>2 DEF surjectionproof_verify, pubs, m
             <3>2. QED
                   BY <3>1
       <2>6. QED
             BY <1>4, <1>15, <2>5 DEF inputs, output
<1>16. CASE ~unblindedMatch(job, used)
       <2>1. \A j \in 1 .. N : pubs[j] # Infinity
             BY <1>8, <1>16
       <2>2. Signing(1, <<r>>, <<pubs>>, <<rand.s[at]>>, <<key>>, <<at - 1>>, m)
             <3>1. /\ Len(<<pubs>>) = 1 /\ DOMAIN <<pubs>> = 1 .. 1 /\ <<pubs>>[1] = pubs /\ <<r>>[1] = r
                   /\ <<rand.s[at]>>[1] = rand.s[at] /\ <<key>>[1] = key /\ <<at - 1>>[1] = at - 1
                   OBVIOUS
             <3>2. \A i \in 1 .. 1 : i = 1
                   OBVIOUS
             <3>3. QED
                   BY <1>7, <1>8, <1>9, <1>10, <1>11, <1>14, <2>1, <3>1, <3>2 DEF Signing
       <2>3. /\ sig.v.e0 \in Bytes32 /\ sig.v.s = [i \in 1 .. 1 |-> sig.v.s[i]]
             /\ sig.v.s[1] \in Scalars(N) /\ borromean_verify(sig.v.e0, sig.v.s, <<pubs>>, m).ok
             <3>1. LET v == sig.v
                   IN /\ v.e0 \in Bytes32 /\ v.s = [i \in 1 .. 1 |-> v.s[i]]
                      /\ \A i \in 1 .. 1 : v.s[i] \in Scalars(Len(<<pubs>>[i])) /\ \A j \in 1 .. Len(<<pubs>>[i]) : v.s[i][j] # 0
                      /\ borromean_verify(v.e0, v.s, <<pubs>>, m).ok
                   BY <1>4, <2>2, BorromeanComplete
             <3>2. <<pubs>>[1] = pubs /\ 1 \in 1 .. 1
                   OBVIOUS
             <3> HIDE DEF sig
             <3>3. QED
                   BY <1>8, <3>1, <3>2
       <2> HIDE DEF sig
       <2>4. sig.v.s = <<sig.v.s[1]>>
             BY <2>3
       <2> DEFINE e == sig.v.e0
                  t == sig.v.s[1]
                  sent == surjectionproof_parse(surjectionproof_serialize(made.v))
       <2>5. Head(<<e>> \o t) = e /\ Tail(<<e>> \o t) = t
             <3>1. t \in Seq(Scalar)
                   BY <1>7, <2>3 DEF Scalars
             <3> HIDE DEF e, t
             <3>2. QED
                   BY <3>1, FirstAndRest
       <2>6. n <= MaxKeys
             BY DEF n
       <2>7. sent = Gives([n |-> n, used |-> used, e0 |-> e, s |-> t])
             <3>1. surjectionproof_serialize(made.v) = [n |-> n, used |-> used, data |-> <<e>> \o t,
                                                        len |-> surjectionproof_serialized_size(n, used)]
                   BY <1>4 DEF surjectionproof_serialize
             <3> HIDE DEF e, t
             <3>2. ~(n > MaxKeys)
                   BY <1>5, <2>6, ListAssumption
             <3> DEFINE bytes == surjectionproof_serialize(made.v)
             <3>3. /\ bytes.n = n /\ bytes.used = used /\ Head(bytes.data) = e /\ Tail(bytes.data) = t
                   /\ bytes.len = surjectionproof_serialized_size(n, used)
                   BY <2>5, <3>1
             <3>4. sent = surjectionproof_parse(bytes)
                   OBVIOUS
             <3> HIDE DEF bytes, sent
             <3>5. QED
                   BY <3>2, <3>3, <3>4 DEF surjectionproof_parse
       <2>8. sent.ok /\ sent.v = [n |-> n, used |-> used, e0 |-> e, s |-> t]
             <3> HIDE DEF sent, e, t
             <3>1. QED
                   BY <2>7 DEF Gives
       <2>9. surjectionproof_verify(sent.v, inputs, output)
             <3>1. borromean_verify(e, <<t>>, <<pubs>>, m).ok
                   BY <2>3, <2>4
             <3>2. QED
                   BY <1>12, <2>8, <3>1
       <2>10. QED
              BY <1>4, <1>16, <2>8, <2>9 DEF inputs, output
<1>17. QED
       BY <1>15, <1>16

-------------------------------------------------------------------------------
(* The keys of a whitelist, and what its signer draws.                     *)

\* One of the ten draws gives nonces that can be used, for all entries.
WhitelistNoncesAreDrawn ==
    \A n \in 0 .. MaxKeys, msg \in Nat, sec \in Scalar :
       \E c \in 0 .. 9 : \A i \in 0 .. n : usable(RangeHash(<<msg, i, sec, c>>))

\* The first of the draws that does.
LEMMA FirstOf ==
    ASSUME NEW N \in Nat, NEW good, good \in SUBSET (0 .. N), good # {}
    PROVE  \E c \in 0 .. N : c \in good /\ \A b \in 0 .. c - 1 : b \notin good
<1>1. good \subseteq Nat
      OBVIOUS
<1>2. PICK c \in good : \A b \in good : c <= b
      BY <1>1, LeastOf
<1>3. c \in 0 .. N
      OBVIOUS
<1>4. ASSUME NEW b \in 0 .. c - 1 PROVE b \notin good
      <2>1. b \in Int /\ c \in Int /\ ~(c <= b)
            BY <1>3
      <2>2. QED
            BY <1>2, <2>1
<1>5. QED
      BY <1>3, <1>4

\* The signer of a list draws a nonce other than 0 for every entry, and one for
\* itself.
LEMMA WhitelistNoncesAre ==
    ASSUME RangeHashesAreBytes, WhitelistNoncesAreDrawn, NEW n \in 0 .. MaxKeys, NEW msg \in Nat, NEW sec \in Scalar
    PROVE  /\ whitelistNonces(n, msg, sec) \in Scalars(n + 1)
           /\ \A i \in 1 .. n + 1 : whitelistNonces(n, msg, sec)[i] # 0
<1> DEFINE draw(c, i) == RangeHash(<<msg, i, sec, c>>)
           good(c) == \A i \in 0 .. n : usable(draw(c, i))
           count == CHOOSE c \in 0 .. 9 : good(c) /\ \A b \in 0 .. c - 1 : ~good(b)
           f == [i \in 1 .. n + 1 |-> ScalarOf(draw(count, i - 1))]
           those == {c \in 0 .. 9 : good(c)}
<1>1. those # {} /\ those \in SUBSET (0 .. 9)
      BY DEF WhitelistNoncesAreDrawn
<1>2. count \in 0 .. 9 /\ good(count)
      <2>1. PICK c \in 0 .. 9 : c \in those /\ \A b \in 0 .. c - 1 : b \notin those
            <3> HIDE DEF those
            <3>1. QED
                  BY <1>1, FirstOf
      <2>2. good(c)
            BY <2>1
      <2>3. ASSUME NEW b \in 0 .. c - 1 PROVE ~good(b)
            <3>1. b \in 0 .. 9 /\ b \notin those
                  BY <2>1
            <3> HIDE DEF good
            <3>2. QED
                  BY <3>1
      <2> HIDE DEF good
      <2>4. \E x \in 0 .. 9 : good(x) /\ \A b \in 0 .. x - 1 : ~good(b)
            BY <2>2, <2>3
      <2>5. QED
            BY <2>4
<1>3. whitelistNonces(n, msg, sec) = SubSeq(f, 1, n + 1)
      BY DEF whitelistNonces, Tuple
<1>4. f = [i \in 1 .. n + 1 |-> f[i]] /\ \A i \in 1 .. n + 1 : f[i] = ScalarOf(draw(count, i - 1))
      OBVIOUS
<1>5. \A i \in 0 .. n : usable(draw(count, i))
      BY <1>2
<1> HIDE DEF f, count
<1>6. n \in Nat /\ n + 1 \in Nat /\ sec \in Nat
      BY ListAssumption, ZeroAndOne
<1>7. ASSUME NEW i \in 1 .. n + 1 PROVE f[i] \in Scalar /\ f[i] # 0
      <2>1. i - 1 \in 0 .. n /\ i - 1 \in Nat /\ count \in Nat
            BY <1>2, <1>6
      <2>2. <<msg, i - 1, sec, count>> \in Seq(Nat)
            BY <1>6, <2>1
      <2>3. draw(count, i - 1) \in Bytes32
            BY <2>2 DEF RangeHashesAreBytes
      <2>4. usable(draw(count, i - 1))
            BY <1>5, <2>1
      <2> HIDE DEF draw
      <2>5. ScalarOf(draw(count, i - 1)) \in Scalar /\ ScalarOf(draw(count, i - 1)) # 0
            BY <2>3, <2>4, BytesMakeScalars DEF usable
      <2>6. QED
            BY <1>4, <2>5
<1>8. f \in Scalars(n + 1)
      BY <1>4, <1>7 DEF Scalars
<1>9. whitelistNonces(n, msg, sec) = f
      BY <1>3, <1>4, <1>6, TupleIs
<1>10. QED
       BY <1>7, <1>8, <1>9

\* The keys of secrets.
listedKeys(s) == Tuple(Len(s), LAMBDA i : GMul(s[i], G))

\* The key of each secret is its multiple of the base point.
LEMMA ListedKeysAre ==
    ASSUME NEW s \in Seq(Scalar)
    PROVE  /\ listedKeys(s) \in Points(Len(s)) /\ Len(listedKeys(s)) = Len(s)
           /\ \A i \in 1 .. Len(s) : listedKeys(s)[i] = GMul(s[i], G)
<1> DEFINE f == [i \in 1 .. Len(s) |-> GMul(s[i], G)]
<1>1. listedKeys(s) = SubSeq(f, 1, Len(s))
      BY DEF listedKeys, Tuple
<1>2. f = [i \in 1 .. Len(s) |-> f[i]] /\ \A i \in 1 .. Len(s) : f[i] = GMul(s[i], G)
      OBVIOUS
<1> HIDE DEF f
<1>3. listedKeys(s) = f
      BY <1>1, <1>2, TupleIs
<1>4. ASSUME NEW i \in 1 .. Len(s) PROVE f[i] \in Point
      <2>1. s[i] \in Scalar
            OBVIOUS
      <2>2. QED
            BY <1>2, <2>1, MultipleIs
<1>5. f \in Points(Len(s))
      BY <1>2, <1>4 DEF Points
<1>6. QED
      BY <1>2, <1>3, <1>5, LengthIs

\* A key that is tweaked is a multiple of itself by its hash.
LEMMA TweakedTyped ==
    ASSUME RangeHashesAreBytes, NEW P \in Point
    PROVE  /\ whitelist_tweak_pubkey(P) \in Point
           /\ whitelist_hash_pubkey(P).ok =>
                 /\ whitelist_hash_pubkey(P).v \in Scalar
                 /\ whitelist_tweak_pubkey(P) = GMul(whitelist_hash_pubkey(P).v, P)
<1>1. RangeHash(P) \in Bytes32
      BY PointIsTuple DEF RangeHashesAreBytes
<1>2. ScalarOf(RangeHash(P)) \in Scalar
      BY <1>1, BytesMakeScalars
<1>3. whitelist_hash_pubkey(P).ok => whitelist_hash_pubkey(P).v = ScalarOf(RangeHash(P))
      BY DEF whitelist_hash_pubkey, Fails, Gives
<1> DEFINE tweak == whitelist_hash_pubkey(P)
<1>4. whitelist_tweak_pubkey(P) = IF tweak.ok THEN GMul(tweak.v, P) ELSE P
      BY DEF whitelist_tweak_pubkey
<1> HIDE DEF tweak
<1>5. tweak.ok => tweak.v \in Scalar /\ GMul(tweak.v, P) \in Point
      BY <1>2, <1>3, GMulIs DEF tweak
<1>6. QED
      BY <1>4, <1>5 DEF tweak

\* The keys of the ring, and the message.
LEMMA WhitelistKeysAre ==
    ASSUME RangeHashesAreBytes, NEW n \in Nat, NEW A \in Points(n), NEW B \in Points(n), NEW sub \in Point
    PROVE  /\ whitelistKeys(A, B, sub) \in Points(n) /\ Len(whitelistKeys(A, B, sub)) = n
           /\ \A i \in 1 .. n : whitelistKeys(A, B, sub)[i] = GAdd(whitelist_tweak_pubkey(GAdd(B[i], sub)), A[i])
           /\ whitelistMessage(A, B, sub) \in Nat
<1> DEFINE f == [i \in 1 .. n |-> GAdd(whitelist_tweak_pubkey(GAdd(B[i], sub)), A[i])]
           cs == [i \in 1 .. n |-> B[i] \o A[i]]
<1>1. Len(A) = n
      BY LengthIs
<1>2. whitelistKeys(A, B, sub) = SubSeq(f, 1, n)
      BY <1>1 DEF whitelistKeys, Tuple
<1>3. f = [i \in 1 .. n |-> f[i]] /\ \A i \in 1 .. n : f[i] = GAdd(whitelist_tweak_pubkey(GAdd(B[i], sub)), A[i])
      OBVIOUS
<1>4. ASSUME NEW i \in 1 .. n PROVE f[i] \in Point
      <2>1. B[i] \in Point /\ A[i] \in Point
            BY DEF Points
      <2>2. GAdd(B[i], sub) \in Point
            BY <2>1, GAddIs
      <2>3. whitelist_tweak_pubkey(GAdd(B[i], sub)) \in Point
            BY <2>2, TweakedTyped
      <2>4. GAdd(whitelist_tweak_pubkey(GAdd(B[i], sub)), A[i]) \in Point
            BY <2>1, <2>3, GAddIs
      <2> HIDE DEF f
      <2>5. QED
            BY <1>3, <2>4
<1>5. whitelistMessage(A, B, sub) = RangeHash(sub \o Flat(n, LAMBDA i : B[i] \o A[i]))
      BY <1>1 DEF whitelistMessage
<1>6. Flat(n, LAMBDA i : B[i] \o A[i]) = joined(n, cs)
      <2> DEFINE one(s) == [i \in 0 .. n |-> IF i = 0 THEN <<>> ELSE s[i - 1] \o (B[i] \o A[i])]
                 other(s) == [i \in 0 .. n |-> IF i = 0 THEN <<>> ELSE s[i - 1] \o cs[i]]
      <2>1. ASSUME NEW s PROVE one(s) = other(s)
            <3>1. \A i \in 0 .. n : i # 0 => cs[i] = B[i] \o A[i]
                  <4>1. \A i \in 1 .. n : cs[i] = B[i] \o A[i]
                        OBVIOUS
                  <4>2. \A i \in 0 .. n : i # 0 => i \in 1 .. n
                        OBVIOUS
                  <4> HIDE DEF cs
                  <4>3. QED
                        BY <4>1, <4>2
            <3> HIDE DEF cs
            <3>2. QED
                  BY <3>1
      <2>2. Flat(n, LAMBDA i : B[i] \o A[i]) = (CHOOSE s : s = one(s))[n]
            BY DEF Flat
      <2>3. joined(n, cs) = (CHOOSE s : s = other(s))[n]
            BY DEF Flat, joined
      <2> HIDE DEF one, other, cs
      <2>4. \A s : (s = one(s)) <=> (s = other(s))
            BY <2>1
      <2>5. (CHOOSE s : s = one(s)) = (CHOOSE s : s = other(s))
            BY <2>4
      <2>6. QED
            BY <2>2, <2>3, <2>5
<1>7. \A i \in 1 .. n : cs[i] \in Seq(Nat)
      <2>1. ASSUME NEW i \in 1 .. n PROVE cs[i] \in Seq(Nat)
            <3>1. A[i] \in Seq(Nat) /\ B[i] \in Seq(Nat)
                  BY PointIsTuple DEF Points
            <3>2. B[i] \o A[i] \in Seq(Nat)
                  BY <3>1
            <3>3. QED
                  BY <3>2
      <2>2. QED
            BY <2>1
<1> HIDE DEF f, cs
<1>8. whitelistKeys(A, B, sub) = f
      BY <1>2, <1>3, TupleIs
<1>9. f \in Points(n)
      BY <1>3, <1>4 DEF Points
<1>10. sub \o joined(n, cs) \in Seq(Nat)
       BY <1>7, FlatTyped, PointIsTuple
<1>11. RangeHash(sub \o joined(n, cs)) \in Nat
       BY <1>10, BytesMakeScalars DEF RangeHashesAreBytes
<1>12. QED
       BY <1>3, <1>5, <1>6, <1>8, <1>9, <1>11, LengthIs

\* What can be sent is given back.
LEMMA WhitelistSent ==
    ASSUME NEW n \in 1 .. MaxKeys, NEW e, NEW s, NEW sig, sig = [n |-> n, e0 |-> e, s |-> s]
    PROVE  LET sent == whitelist_signature_parse(whitelist_signature_serialize(sig))
           IN /\ sent.ok <=> n < MaxKeys
              /\ sent.ok /\ s \in Seq(Scalar) => sent.v = sig
<1> DEFINE bytes == whitelist_signature_serialize(sig)
           sent == whitelist_signature_parse(bytes)
<1>1. n \in Nat /\ MaxKeys \in Nat /\ n >= 1 /\ n <= MaxKeys /\ MaxKeys > 0
      BY ListAssumption
<1>2. n % MaxKeys = IF n < MaxKeys THEN n ELSE 0
      BY <1>1
<1>3. bytes = [count |-> n % MaxKeys, data |-> <<e>> \o s, len |-> 1 + 32 * (n + 1)]
      BY DEF whitelist_signature_serialize
<1>4. s \in Seq(Scalar) => Head(<<e>> \o s) = e /\ Tail(<<e>> \o s) = s
      BY FirstAndRest
<1> DEFINE data == <<e>> \o s
<1> HIDE DEF data, bytes
<1>5. /\ bytes.count = n % MaxKeys /\ bytes.len = 1 + 32 * (n + 1)
      /\ s \in Seq(Scalar) => Head(bytes.data) = e /\ Tail(bytes.data) = s
      BY <1>3, <1>4 DEF data
<1>6. sent = IF bytes.count >= MaxKeys \/ bytes.len # 1 + 32 * (bytes.count + 1) THEN Fails
             ELSE Gives([n |-> bytes.count, e0 |-> Head(bytes.data), s |-> Tail(bytes.data)])
      BY DEF whitelist_signature_parse
<1> HIDE DEF sent
<1>7. CASE n < MaxKeys
      <2>1. bytes.count = n
            BY <1>2, <1>5, <1>7
      <2>2. ~(bytes.count >= MaxKeys) /\ bytes.len = 1 + 32 * (bytes.count + 1)
            BY <1>1, <1>5, <1>7, <2>1
      <2>3. sent = Gives([n |-> n, e0 |-> Head(bytes.data), s |-> Tail(bytes.data)])
            BY <1>6, <2>1, <2>2
      <2>4. sent.ok /\ sent.v = [n |-> n, e0 |-> Head(bytes.data), s |-> Tail(bytes.data)]
            BY <2>3 DEF Gives
      <2>5. s \in Seq(Scalar) => sent.v = sig
            BY <1>5, <2>4
      <2>6. QED
            BY <1>7, <2>4, <2>5 DEF sent, bytes
<1>8. CASE ~(n < MaxKeys)
      <2>1. bytes.count = 0 /\ n + 1 # 1
            BY <1>1, <1>2, <1>5, <1>8
      <2>2. bytes.len # 1 + 32 * (bytes.count + 1)
            BY <1>1, <1>5, <2>1
      <2>3. sent = Fails
            BY <1>6, <2>2
      <2>4. QED
            BY <1>8, <2>3 DEF Fails, sent, bytes
<1>9. QED
      BY <1>7, <1>8

\* The owner of the secrets of an entry has the secret of the key there.
LEMMA OwnKeyIs ==
    ASSUME RangeHashesAreBytes, NEW n \in Nat, NEW A \in Points(n), NEW B \in Points(n), NEW i \in 1 .. n,
           NEW x \in Scalar, NEW y \in Scalar, NEW z \in Scalar,
           A[i] = GMul(x, G), B[i] = GMul(y, G),
           whitelist_compute_tweaked_privkey(x, SAdd(y, z)).ok
    PROVE  LET sec == whitelist_compute_tweaked_privkey(x, SAdd(y, z))
           IN sec.v \in Scalar /\ whitelistKeys(A, B, GMul(z, G))[i] = GMul(sec.v, G)
<1> DEFINE w == SAdd(y, z)
           tweak == whitelist_hash_pubkey(GMul(w, G))
           sec == whitelist_compute_tweaked_privkey(x, w)
<1>1. w \in Scalar /\ GMul(z, G) \in Point /\ GMul(w, G) \in Point /\ GAdd(B[i], GMul(z, G)) = GMul(w, G)
      <2>1. w \in Scalar
            BY RingLaws
      <2>2. QED
            BY <2>1, MultipleIs, MultiplesAdd
<1>2. ScalarOf(w) = w /\ ScalarOf(x) = x
      BY <1>1, ScalarOfScalar
<1>3. tweak.ok /\ sec.v = SAdd(SMul(w, tweak.v), x)
      <2>1. GMul(ScalarOf(w), G) = GMul(w, G)
            BY <1>2
      <2>2. sec = IF ~usable(w) \/ ~whitelist_hash_pubkey(GMul(ScalarOf(w), G)).ok \/ ~usable(x) THEN Fails
                  ELSE Gives(SAdd(SMul(ScalarOf(w), whitelist_hash_pubkey(GMul(ScalarOf(w), G)).v), ScalarOf(x)))
            BY DEF whitelist_compute_tweaked_privkey
      <2>3. sec = IF ~usable(w) \/ ~tweak.ok \/ ~usable(x) THEN Fails ELSE Gives(SAdd(SMul(w, tweak.v), x))
            BY <1>2, <2>1, <2>2
      <2> HIDE DEF w, tweak
      <2>4. sec.ok
            BY DEF w
      <2> HIDE DEF sec
      <2>5. QED
            BY <2>3, <2>4 DEF Fails, Gives
<1> HIDE DEF w, sec
<1>4. tweak.v \in Scalar /\ whitelist_tweak_pubkey(GMul(w, G)) = GMul(tweak.v, GMul(w, G))
      BY <1>1, <1>3, TweakedTyped
<1>5. whitelistKeys(A, B, GMul(z, G))[i] = GAdd(whitelist_tweak_pubkey(GMul(w, G)), GMul(x, G))
      <2>1. whitelistKeys(A, B, GMul(z, G))[i]
               = GAdd(whitelist_tweak_pubkey(GAdd(B[i], GMul(z, G))), A[i])
            <3> DEFINE S == GMul(z, G)
            <3>1. S \in Point
                  BY <1>1
            <3> HIDE DEF S
            <3>2. \A k \in 1 .. n : whitelistKeys(A, B, S)[k] = GAdd(whitelist_tweak_pubkey(GAdd(B[k], S)), A[k])
                  BY <3>1, WhitelistKeysAre
            <3>3. QED
                  BY <3>2 DEF S
      <2>2. QED
            BY <1>1, <2>1
<1> HIDE DEF tweak
<1>6. /\ GMul(tweak.v, GMul(w, G)) = GMul(SMul(tweak.v, w), G)
      /\ SMul(tweak.v, w) \in Scalar /\ SMul(tweak.v, w) = SMul(w, tweak.v)
      BY <1>1, <1>4, MultiplesAdd, RingLaws
<1>7. GAdd(GMul(SMul(w, tweak.v), G), GMul(x, G)) = GMul(sec.v, G) /\ sec.v \in Scalar
      BY <1>3, <1>6, MultiplesAdd, RingLaws
<1>8. QED
      BY <1>4, <1>5, <1>6, <1>7 DEF sec, w

\* The nonces of the entries but the first.
LEMMA TheOtherNonces ==
    ASSUME NEW n \in Nat, NEW s \in Scalars(n + 1), \A i \in 1 .. n + 1 : s[i] # 0
    PROVE  s[1] \in Scalar /\ Tail(s) \in Scalars(n) /\ \A i \in 1 .. n : Tail(s)[i] # 0
<1>1. s \in Seq(Scalar) /\ Len(s) = n + 1 /\ 1 \in 1 .. n + 1
      BY DEF Scalars
<1>2. Tail(s) \in Seq(Scalar) /\ Len(Tail(s)) = n /\ \A i \in 1 .. n : Tail(s)[i] = s[i + 1] /\ i + 1 \in 1 .. n + 1
      BY <1>1
<1>3. Tail(s) \in Scalars(n)
      <2> DEFINE t == Tail(s)
      <2> HIDE DEF t
      <2>1. t \in Seq(Scalar) /\ Len(t) = n
            BY <1>2 DEF t
      <2>2. t \in [1 .. n -> Scalar]
            BY <2>1
      <2>3. QED
            BY <2>2 DEF Scalars, t
<1>4. QED
      BY <1>1, <1>2, <1>3 DEF Scalars

\* A signature by the owner of an entry at the entry's place is accepted,
\* unless a key of the list has come to nothing.
LEMMA WhitelistComplete ==
    ASSUME RangeHashesAreBytes, WhitelistNoncesAreDrawn,
           NEW n \in 1 .. MaxKeys, NEW A \in Points(n), NEW B \in Points(n), NEW own \in 1 .. n,
           NEW x \in Scalar, NEW y \in Scalar, NEW z \in Scalar,
           A[own] = GMul(x, G), B[own] = GMul(y, G),
           NEW made, made = whitelist_sign(A, B, GMul(z, G), x, SAdd(y, z), own - 1), made.ok
    PROVE  LET sent == whitelist_signature_parse(whitelist_signature_serialize(made.v))
           IN sent.ok => (whitelist_verify(sent.v, A, B, GMul(z, G))
                             <=> \A i \in 1 .. n : whitelistKeys(A, B, GMul(z, G))[i] # Infinity)
<1> DEFINE sub == GMul(z, G)
           sec == whitelist_compute_tweaked_privkey(x, SAdd(y, z))
           m == whitelistMessage(A, B, sub)
           pubs == whitelistKeys(A, B, sub)
           nonces == whitelistNonces(n, m, sec.v)
           sig == borromean_sign(<<Tail(nonces)>>, <<pubs>>, <<nonces[1]>>, <<sec.v>>, <<own - 1>>, m)
<1>1. n \in Nat /\ MaxKeys \in Nat /\ n \in 0 .. MaxKeys /\ Len(A) = n /\ sub \in Point
      BY ListAssumption, LengthIs, MultipleIs
<1>2. made = IF n > MaxKeys \/ own - 1 >= n \/ ~sec.ok THEN Fails ELSE whitelistFrom(n, sig)
      BY <1>1 DEF whitelist_sign
<1>3. sec.ok /\ made = whitelistFrom(n, sig)
      <2> HIDE DEF sec, sig
      <2>1. QED
            BY <1>2 DEF Fails
<1>4. sig.ok /\ made.v = [n |-> n, e0 |-> sig.v.e0, s |-> sig.v.s[1]]
      <2> HIDE DEF sig
      <2>1. QED
            BY <1>3 DEF whitelistFrom, Fails, Gives
<1>5. sec.v \in Scalar /\ pubs[own] = GMul(sec.v, G)
      BY <1>1, <1>3, OwnKeyIs
<1>6. pubs \in Points(n) /\ Len(pubs) = n /\ m \in Nat
      <2> HIDE DEF sub
      <2>1. QED
            BY <1>1, WhitelistKeysAre
<1>7. whitelist_verify(made.v, A, B, sub)
         <=> /\ \A i \in 1 .. n : sig.v.s[1][i] # 0
             /\ borromean_verify(sig.v.e0, <<sig.v.s[1]>>, <<pubs>>, m).ok
      <2> HIDE DEF sig, sub
      <2>1. n <= MaxKeys /\ n = Len(A)
            BY <1>1
      <2>2. /\ made.v.n = n /\ made.v.s = sig.v.s[1] /\ made.v.e0 = sig.v.e0
            BY <1>4
      <2>3. QED
            BY <2>1, <2>2 DEF whitelist_verify
<1> HIDE DEF sec, m, pubs, sub
<1>8. nonces \in Scalars(n + 1) /\ \A i \in 1 .. n + 1 : nonces[i] # 0
      BY <1>1, <1>5, <1>6, WhitelistNoncesAre
<1> HIDE DEF nonces
<1>9. nonces[1] \in Scalar /\ Tail(nonces) \in Scalars(n) /\ \A i \in 1 .. n : Tail(nonces)[i] # 0
      BY <1>1, <1>8, TheOtherNonces
<1>10. CASE \E i \in 1 .. n : pubs[i] = Infinity
       <2>1. PICK j \in 1 .. n : pubs[j] = Infinity
             BY <1>10
       <2>2. 1 \in DOMAIN <<pubs>> /\ <<pubs>>[1] = pubs /\ j \in DOMAIN pubs
             BY <1>6 DEF Points
       <2>3. ASSUME NEW v PROVE ~whitelist_verify(v, A, B, sub)
             <3>1. ~borromean_verify(v.e0, <<v.s>>, <<pubs>>, m).ok
                   BY <2>1, <2>2, BorromeanRefuses
             <3>2. QED
                   BY <3>1 DEF whitelist_verify, pubs, m
       <2>4. ~(\A i \in 1 .. n : pubs[i] # Infinity)
             BY <1>10
       <2>5. QED
             BY <2>3, <2>4 DEF pubs, sub
<1>11. CASE ~\E i \in 1 .. n : pubs[i] = Infinity
       <2>1. \A i \in 1 .. n : pubs[i] # Infinity
             BY <1>11
       <2>2. Signing(1, <<Tail(nonces)>>, <<pubs>>, <<nonces[1]>>, <<sec.v>>, <<own - 1>>, m)
             <3>1. /\ Len(<<pubs>>) = 1 /\ DOMAIN <<pubs>> = 1 .. 1 /\ <<pubs>>[1] = pubs
                   /\ <<Tail(nonces)>>[1] = Tail(nonces)
                   /\ <<nonces[1]>>[1] = nonces[1] /\ <<sec.v>>[1] = sec.v /\ <<own - 1>>[1] = own - 1
                   OBVIOUS
             <3>2. \A i \in 1 .. 1 : i = 1
                   OBVIOUS
             <3>3. own - 1 \in Nat /\ (own - 1) + 1 = own
                   BY <1>1
             <3>4. ASSUME NEW i \in 1 .. 1
                   PROVE  /\ Len(<<pubs>>[i]) \in Nat /\ <<pubs>>[i] \in Points(Len(<<pubs>>[i]))
                          /\ <<Tail(nonces)>>[i] \in Scalars(Len(<<pubs>>[i]))
                          /\ <<own - 1>>[i] \in Nat /\ <<own - 1>>[i] + 1 \in 1 .. Len(<<pubs>>[i])
                          /\ <<nonces[1]>>[i] \in Scalar /\ <<sec.v>>[i] \in Scalar
                          /\ <<pubs>>[i][<<own - 1>>[i] + 1] = GMul(<<sec.v>>[i], G)
                          /\ \A j \in 1 .. Len(<<pubs>>[i]) :
                                <<pubs>>[i][j] # Infinity /\ (j # <<own - 1>>[i] + 1 => <<Tail(nonces)>>[i][j] # 0)
                   <4>1. i = 1
                         BY <3>2
                   <4>2. /\ <<pubs>>[i] = pubs /\ <<Tail(nonces)>>[i] = Tail(nonces)
                         /\ <<nonces[1]>>[i] = nonces[1] /\ <<sec.v>>[i] = sec.v /\ <<own - 1>>[i] = own - 1
                         BY <3>1, <4>1
                   <4>3. Len(<<pubs>>[i]) \in Nat /\ <<pubs>>[i] \in Points(Len(<<pubs>>[i]))
                         BY <1>1, <1>5, <1>6, <1>9, <2>1, <4>2
                   <4>4. <<Tail(nonces)>>[i] \in Scalars(Len(<<pubs>>[i]))
                         BY <1>1, <1>5, <1>6, <1>9, <2>1, <4>2
                   <4>5. <<own - 1>>[i] \in Nat /\ <<own - 1>>[i] + 1 \in 1 .. Len(<<pubs>>[i])
                         BY <1>1, <1>5, <1>6, <1>9, <2>1, <3>3, <4>2
                   <4>6. <<nonces[1]>>[i] \in Scalar /\ <<sec.v>>[i] \in Scalar
                         BY <1>1, <1>5, <1>6, <1>9, <2>1, <4>2
                   <4>7. <<pubs>>[i][<<own - 1>>[i] + 1] = GMul(<<sec.v>>[i], G)
                         BY <1>1, <1>5, <1>6, <1>9, <2>1, <3>3, <4>2
                   <4>8. \A j \in 1 .. Len(<<pubs>>[i]) :
                            <<pubs>>[i][j] # Infinity /\ (j # <<own - 1>>[i] + 1 => <<Tail(nonces)>>[i][j] # 0)
                         BY <1>1, <1>5, <1>6, <1>9, <2>1, <3>3, <4>2
                   <4>9. QED
                         BY <4>3, <4>4, <4>5, <4>6, <4>7, <4>8
             <3>5. 1 \in Nat /\ m \in Nat
                   BY <1>1, <1>5, <1>6, <1>9
             <3>6. QED
                   BY <3>1, <3>4, <3>5 DEF Signing
       <2>3. /\ sig.v.s = [i \in 1 .. 1 |-> sig.v.s[i]] /\ \A j \in 1 .. n : sig.v.s[1][j] # 0
             /\ sig.v.s[1] \in Scalars(n)
             /\ borromean_verify(sig.v.e0, sig.v.s, <<pubs>>, m).ok
             <3>1. LET v == sig.v
                   IN /\ v.e0 \in Bytes32 /\ v.s = [i \in 1 .. 1 |-> v.s[i]]
                      /\ \A i \in 1 .. 1 : v.s[i] \in Scalars(Len(<<pubs>>[i])) /\ \A j \in 1 .. Len(<<pubs>>[i]) : v.s[i][j] # 0
                      /\ borromean_verify(v.e0, v.s, <<pubs>>, m).ok
                   BY <1>4, <2>2, BorromeanComplete
             <3>2. <<pubs>>[1] = pubs /\ 1 \in 1 .. 1
                   OBVIOUS
             <3> HIDE DEF sig
             <3>3. QED
                   BY <1>6, <3>1, <3>2
       <2> HIDE DEF sig
       <2>4. sig.v.s = <<sig.v.s[1]>>
             BY <2>3
       <2>5. borromean_verify(sig.v.e0, <<sig.v.s[1]>>, <<pubs>>, m).ok
             BY <2>3, <2>4
       <2>6. sig.v.s[1] \in Seq(Scalar)
             <3> DEFINE t == sig.v.s[1]
             <3>1. t \in [1 .. n -> Scalar] /\ n \in Nat
                   BY <1>1, <2>3 DEF Scalars
             <3> HIDE DEF t
             <3>2. t \in Seq(Scalar)
                   BY <3>1
             <3>3. QED
                   BY <3>2 DEF t
       <2> DEFINE sent == whitelist_signature_parse(whitelist_signature_serialize(made.v))
       <2>7. sent.ok => sent.v = made.v
             BY <1>4, <2>6, WhitelistSent
       <2> HIDE DEF sent
       <2>8. QED
             BY <1>7, <2>1, <2>3, <2>5, <2>7 DEF pubs, sub, sent
<1>12. QED
       BY <1>10, <1>11

\* What is signed is a list of scalars for as many keys.
WhitelistAsked(n, A, B, sub, x, w, index) ==
    /\ n \in 1 .. MaxKeys /\ A \in Points(n) /\ B \in Points(n) /\ sub \in Point
    /\ x \in Scalar /\ w \in Nat /\ index \in Nat
    /\ whitelist_sign(A, B, sub, x, w, index).ok
WhitelistRecord(n, v) == \E e, s : v = [n |-> n, e0 |-> e, s |-> s]

LEMMA WhitelistMadeTyped ==
    ASSUME RangeHashesAreBytes, WhitelistNoncesAreDrawn,
           NEW n, NEW A, NEW B, NEW sub, NEW x, NEW w, NEW index, WhitelistAsked(n, A, B, sub, x, w, index)
    PROVE  WhitelistRecord(n, whitelist_sign(A, B, sub, x, w, index).v)
<1> USE DEF WhitelistAsked, WhitelistRecord
<1> DEFINE made == whitelist_sign(A, B, sub, x, w, index)
           sec == whitelist_compute_tweaked_privkey(x, w)
           m == whitelistMessage(A, B, sub)
           nonces == whitelistNonces(n, m, sec.v)
           sig == borromean_sign(<<Tail(nonces)>>, <<whitelistKeys(A, B, sub)>>, <<nonces[1]>>, <<sec.v>>, <<index>>, m)
<1>1. Len(A) = n
      BY LengthIs
<1>2. made = IF n > MaxKeys \/ index >= n \/ ~sec.ok THEN Fails ELSE whitelistFrom(n, sig)
      BY <1>1 DEF whitelist_sign
<1>3. made = whitelistFrom(n, sig) /\ sig.ok
      <2>1. made.ok
            OBVIOUS
      <2> HIDE DEF sig, sec, made
      <2>2. QED
            BY <1>2, <2>1 DEF whitelistFrom, Fails
<1> HIDE DEF sig
<1> HIDE DEF made
<1>4. made.v = [n |-> n, e0 |-> sig.v.e0, s |-> sig.v.s[1]]
      BY <1>3 DEF whitelistFrom, Gives
<1> USE DEF made
<1>5. QED
      BY <1>4

-------------------------------------------------------------------------------
(* The invariant: what is kept of a list is what its proof is made from.   *)

\* The lists and what is done with them.
ListSpec == list = ListIdle /\ [][ListNext]_list

\* What is known of a proof while its inputs are drawn.
DrawnWell(l) ==
    /\ l = [at |-> l.at, job |-> l.job, used |-> l.used, index |-> l.index, has |-> l.has, tries |-> l.tries]
    /\ l.job \in SurjectionJobs /\ Len(l.job.fixed) <= MaxKeys
    /\ l.used \in SUBSET (0 .. Len(l.job.fixed) - 1)
    /\ l.has \in BOOLEAN
    /\ l.has => l.index \in l.used /\ l.job.fixed[l.index + 1] = l.job.tag

\* The proof was generated from the inputs drawn, one of them the owner's.
MadeFrom(l, used) ==
    /\ used \in SUBSET (0 .. Len(l.job.fixed) - 1) /\ l.index \in used /\ l.job.fixed[l.index + 1] = l.job.tag
    /\ l.proof = surjectionproof_generate(Len(l.job.fixed), used, surjectionInputs(l.job),
                    surjectionOutput(l.job), l.index, l.job.inKeys[l.index + 1], l.job.outKey)

\* The list was signed with the keys of the job.
SignedList(l) ==
    /\ l.job \in WhitelistJobs
    /\ l.onlines = listedKeys(l.job.online) /\ l.offlines = listedKeys(l.job.offline)
    /\ l.sub = GMul(l.job.sub, G)
    /\ l.proof = whitelist_sign(l.onlines, l.offlines, l.sub, l.job.online[l.job.own],
                                SAdd(l.job.offline[l.job.own], l.job.sub), l.job.index)

\* A proof is what its maker makes of the job, and an answer is what that proof
\* deserves.
ListInv ==
    /\ list.at \in {"drawing", "initialized"} => DrawnWell(list)
    /\ list.at = "initialized" => list.has
    /\ list.at = "generated" =>
          list.job \in SurjectionJobs /\ Len(list.job.fixed) <= MaxKeys /\ \E used : MadeFrom(list, used)
    /\ list.at = "surjection" /\ list.altered = "none" =>
          \E job, used : list.job = job /\ list.used = used /\ (list.accepted <=> ~unblindedMatch(job, used))
    /\ list.at = "listed" => SignedList(list)
    /\ list.at = "whitelist" =>
          /\ list.parsed <=> Len(list.job.online) < MaxKeys
          /\ list.accepted => list.parsed
          /\ list.parsed /\ list.altered = "none" /\ list.job.own = list.job.index + 1 =>
                \E job : list.job = job /\ (list.accepted <=> ~emptyEntry(job))

\* An input is drawn.
LEMMA DrawStep ==
    ASSUME ListInv, NEW next \in 0 .. 3, SurjectionDraw(next)
    PROVE  ListInv'
<1> DEFINE match == list.job.fixed[next + 1] = list.job.tag
           used == list.used \union {next}
<1>1. /\ list.at = "drawing" /\ DrawnWell(list) /\ next \in 0 .. Len(list.job.fixed) - 1
      /\ list' = [list EXCEPT !.used = used, !.has = @ \/ match, !.index = IF match THEN next ELSE @]
      BY DEF SurjectionDraw, ListInv
<1>2. match \in BOOLEAN
      OBVIOUS
<1> HIDE DEF match
<1>3. list' = [at |-> "drawing", job |-> list.job, used |-> used, index |-> IF match THEN next ELSE list.index,
               has |-> list.has \/ match, tries |-> list.tries]
      <2>1. list = [at |-> "drawing", job |-> list.job, used |-> list.used, index |-> list.index,
                    has |-> list.has, tries |-> list.tries]
            BY <1>1 DEF DrawnWell
      <2> HIDE DEF used
      <2> DEFINE h == list.has \/ match
                 x == IF match THEN next ELSE list.index
      <2>2. list' = [list EXCEPT !.used = used, !.has = h, !.index = x]
            BY <1>1
      <2> HIDE DEF h, x
      <2>3. list' = [at |-> "drawing", job |-> list.job, used |-> used, index |-> x, has |-> h, tries |-> list.tries]
            <3> DEFINE job == list.job
                       t == list.tries
                       i == list.index
                       c == list.has
                       l1 == [list EXCEPT !.used = used]
                       l2 == [l1 EXCEPT !.has = h]
                       l3 == [l2 EXCEPT !.index = x]
            <3>1. list' = l3
                  BY <2>2, Zenon
            <3>2. list = [at |-> "drawing", job |-> job, used |-> list.used, index |-> i, has |-> c, tries |-> t]
                  BY <2>1
            <3> HIDE DEF job, t, i, c
            <3>3. l1 = [at |-> "drawing", job |-> job, used |-> used, index |-> i, has |-> c, tries |-> t]
                  BY <3>2
            <3> HIDE DEF l1
            <3>4. l2 = [at |-> "drawing", job |-> job, used |-> used, index |-> i, has |-> h, tries |-> t]
                  BY <3>3
            <3> HIDE DEF l2
            <3>5. l3 = [at |-> "drawing", job |-> job, used |-> used, index |-> x, has |-> h, tries |-> t]
                  BY <3>4
            <3>6. QED
                  BY <3>1, <3>5 DEF job, t
      <2>4. QED
            BY <2>3 DEF h, x
<1>4. used \in SUBSET (0 .. Len(list.job.fixed) - 1)
      BY <1>1 DEF DrawnWell
<1>5. (list.has \/ match) \in BOOLEAN
      OBVIOUS
<1>6. (list.has \/ match) =>
         LET index == IF match THEN next ELSE list.index
         IN index \in used /\ list.job.fixed[index + 1] = list.job.tag
      BY <1>1 DEF DrawnWell, match
<1>7. DrawnWell(list')
      <2> DEFINE h == list.has \/ match
                 x == IF match THEN next ELSE list.index
                 l == [at |-> "drawing", job |-> list.job, used |-> used, index |-> x, has |-> h, tries |-> list.tries]
      <2>1. list.job \in SurjectionJobs /\ Len(list.job.fixed) <= MaxKeys
            BY <1>1 DEF DrawnWell
      <2>2. h \in BOOLEAN /\ (h => x \in used /\ list.job.fixed[x + 1] = list.job.tag)
            BY <1>5, <1>6
      <2>3. list' = l
            BY <1>3
      <2> HIDE DEF h, x, used
      <2>4. /\ l.at = "drawing" /\ l.job = list.job /\ l.used = used /\ l.index = x /\ l.has = h /\ l.tries = list.tries
            OBVIOUS
      <2>5. DrawnWell(l)
            BY <1>4, <2>1, <2>2, <2>4 DEF DrawnWell
      <2> HIDE DEF l
      <2>6. QED
            BY <2>3, <2>5
<1>8. list'.at = "drawing"
      BY <1>3
<1>9. QED
      BY <1>7, <1>8 DEF ListInv

\* A round of draws ends.
LEMMA RoundStep ==
    ASSUME ListInv, SurjectionRound
    PROVE  ListInv'
<1>1. /\ list.at = "drawing" /\ DrawnWell(list)
      /\ list' = IF list.has THEN [list EXCEPT !.at = "initialized", !.tries = @ + 1]
                 ELSE IF list.tries + 1 >= list.job.tries THEN [at |-> "refused"]
                 ELSE [list EXCEPT !.used = {}, !.tries = @ + 1]
      BY DEF SurjectionRound, ListInv
<1>2. list = [at |-> "drawing", job |-> list.job, used |-> list.used, index |-> list.index,
              has |-> list.has, tries |-> list.tries]
      BY <1>1 DEF DrawnWell
<1>3. CASE list.has
      <2> DEFINE l == [at |-> "initialized", job |-> list.job, used |-> list.used, index |-> list.index,
                       has |-> list.has, tries |-> list.tries + 1]
      <2>1. list' = l
            BY <1>1, <1>2, <1>3
      <2>2. DrawnWell(l) /\ l.at = "initialized" /\ l.has
            BY <1>1, <1>3 DEF DrawnWell
      <2> HIDE DEF l
      <2>3. list'.at = "initialized" /\ DrawnWell(list') /\ list'.has
            BY <2>1, <2>2
      <2>4. QED
            BY <2>3 DEF ListInv
<1>4. CASE ~list.has /\ list.tries + 1 >= list.job.tries
      <2>1. list'.at = "refused"
            BY <1>1, <1>4
      <2>2. QED
            BY <2>1 DEF ListInv
<1>5. CASE ~list.has /\ ~(list.tries + 1 >= list.job.tries)
      <2> DEFINE l == [at |-> "drawing", job |-> list.job, used |-> {}, index |-> list.index,
                       has |-> list.has, tries |-> list.tries + 1]
      <2>1. list' = l
            BY <1>1, <1>2, <1>5
      <2>2. DrawnWell(l) /\ l.at = "drawing"
            BY <1>1, <1>5 DEF DrawnWell
      <2> HIDE DEF l
      <2>3. QED
            BY <2>1, <2>2 DEF ListInv
<1>6. QED
      BY <1>3, <1>4, <1>5

\* A surjection proof is checked.
LEMMA VerifySurjectionStep ==
    ASSUME RangeHashesAreBytes, SurjectionDrawsCount, ListInv, NEW altered \in {"none", "inputs", "output"},
           SurjectionVerify(altered)
    PROVE  ListInv'
<1> DEFINE job == list.job
           inputs == IF altered = "inputs" THEN Tail(surjectionInputs(job)) \o <<J>> ELSE surjectionInputs(job)
           output == IF altered = "output" THEN assetTag(job.tag + 1, job.outKey) ELSE surjectionOutput(job)
           sent == surjectionproof_parse(surjectionproof_serialize(list.proof.v))
           believed == sent.ok /\ surjectionproof_verify(sent.v, inputs, output)
<1>1. /\ list.at = "generated" /\ list.proof.ok
      /\ list' = [at |-> "surjection", altered |-> altered, job |-> job, used |-> list.proof.v.used, accepted |-> believed]
      BY DEF SurjectionVerify
<1>2. job \in SurjectionJobs /\ Len(job.fixed) <= MaxKeys /\ \E used : MadeFrom(list, used)
      BY <1>1 DEF ListInv
<1>3. PICK used : MadeFrom(list, used)
      BY <1>2
<1>4. altered = "none" => inputs = surjectionInputs(job) /\ output = surjectionOutput(job)
      OBVIOUS
<1>5. /\ list.proof.v.used = used
      /\ (sent.ok /\ surjectionproof_verify(sent.v, surjectionInputs(job), surjectionOutput(job))) <=> ~unblindedMatch(job, used)
      BY <1>1, <1>2, <1>3, SurjectionComplete DEF MadeFrom
<1> HIDE DEF inputs, output, sent
<1>6. altered = "none" => (believed <=> ~unblindedMatch(job, list.proof.v.used))
      BY <1>4, <1>5
<1> HIDE DEF believed, job
<1>7. list'.at = "surjection" /\ list'.altered = altered /\ list'.job = job /\ list'.used = list.proof.v.used /\ list'.accepted = believed
      BY <1>1
<1>8. altered = "none" =>
         \E j, u : list'.job = j /\ list'.used = u /\ (list'.accepted <=> ~unblindedMatch(j, u))
      BY <1>6, <1>7
<1>9. QED
      BY <1>7, <1>8 DEF ListInv

\* The secrets of a whitelist.
LEMMA WhitelistJobTyped ==
    ASSUME NEW job \in WhitelistJobs
    PROVE  /\ job.online \in Seq(Scalar) /\ job.offline \in Seq(Scalar) /\ Len(job.offline) = Len(job.online)
           /\ Len(job.online) \in Nat /\ job.own \in 1 .. Len(job.online) /\ job.index \in Nat
           /\ job.sub \in Scalar /\ job.online[job.own] \in Scalar /\ job.offline[job.own] \in Scalar
<1>1. /\ job.online \in Seq(Scalar) /\ job.offline \in Seq(Scalar) /\ Len(job.offline) = Len(job.online)
      /\ job.own \in 1 .. Len(job.online) /\ job.index \in Nat /\ job.sub \in Scalar
      BY ListJobAssumption
<1>2. \A s \in Seq(Scalar), i \in 1 .. Len(job.online) : Len(s) = Len(job.online) => s[i] \in Scalar
      OBVIOUS
<1>3. QED
      BY <1>1, <1>2

\* A signature over a whitelist is checked.
LEMMA VerifyWhitelistStep ==
    ASSUME RangeHashesAreBytes, WhitelistNoncesAreDrawn, ListInv, NEW altered \in {"none", "swapped", "sub"},
           WhitelistVerify(altered)
    PROVE  ListInv'
<1> DEFINE job == list.job
           n == Len(job.online)
           A == listedKeys(job.online)
           B == listedKeys(job.offline)
           sub == GMul(job.sub, G)
           sent == whitelist_signature_parse(whitelist_signature_serialize(list.proof.v))
           swap == altered = "swapped"
           believed == sent.ok /\ whitelist_verify(sent.v,
                                   IF swap THEN list.offlines ELSE list.onlines,
                                   IF swap THEN list.onlines ELSE list.offlines,
                                   IF altered = "sub" THEN GAdd(list.sub, G) ELSE list.sub)
           x == job.online[job.own]
           y == job.offline[job.own]
           w == SAdd(y, job.sub)
           own == job.own
<1>1. /\ list.at = "listed" /\ list.proof.ok
      /\ list' = [at |-> "whitelist", altered |-> altered, job |-> job, parsed |-> sent.ok, accepted |-> believed]
      BY DEF WhitelistVerify
<1>2. /\ job \in WhitelistJobs /\ list.onlines = A /\ list.offlines = B /\ list.sub = sub
      /\ list.proof = whitelist_sign(A, B, sub, x, w, job.index)
      BY <1>1 DEF ListInv, SignedList
<1>3. /\ job.online \in Seq(Scalar) /\ job.offline \in Seq(Scalar) /\ Len(job.offline) = n
      /\ n \in Nat /\ own \in 1 .. n /\ job.index \in Nat
      /\ job.sub \in Scalar /\ x \in Scalar /\ y \in Scalar /\ w \in Scalar /\ w \in Nat
      <2>1. /\ job.online \in Seq(Scalar) /\ job.offline \in Seq(Scalar) /\ Len(job.offline) = n
            /\ n \in Nat /\ own \in 1 .. n /\ job.index \in Nat
            /\ job.sub \in Scalar /\ x \in Scalar /\ y \in Scalar
            BY <1>2, WhitelistJobTyped
      <2>2. QED
            BY <2>1, RingLaws, ZeroAndOne
<1>4. /\ A \in Points(n) /\ B \in Points(n) /\ sub \in Point /\ Len(A) = n
      /\ A[own] = GMul(x, G) /\ B[own] = GMul(y, G)
      BY <1>3, ListedKeysAre, MultipleIs
<1>5. n \in 1 .. MaxKeys
      <2>1. ~(Len(A) > MaxKeys)
            <3>1. ASSUME Len(A) > MaxKeys PROVE whitelist_sign(A, B, sub, x, w, job.index) = Fails
                  <4> HIDE DEF A, B, sub, x, w, job
                  <4>1. QED
                        BY <3>1 DEF whitelist_sign
            <3>2. Fails.ok = FALSE
                  BY DEF Fails
            <3>3. QED
                  BY <1>1, <1>2, <3>1, <3>2
      <2>2. QED
            BY <1>3, <1>4, <2>1, ListAssumption
<1>6. emptyEntry(job) <=> \E i \in 1 .. n : whitelistKeys(A, B, sub)[i] = Infinity
      <2>1. DOMAIN job.online = 1 .. n
            BY <1>3
      <2>2. QED
            BY <2>1 DEF emptyEntry, listedKeys
<1>7. altered = "none" => (believed <=> sent.ok /\ whitelist_verify(sent.v, A, B, sub))
      BY <1>2
<1>8. believed => sent.ok
      OBVIOUS
<1> HIDE DEF believed, A, B, x, y, n, w, own, swap
<1>9. sent.ok <=> n < MaxKeys
      <2>1. \E e, s : list.proof.v = [n |-> n, e0 |-> e, s |-> s]
            <3> DEFINE index == job.index
                       made == list.proof
            <3>1. index \in Nat /\ made.ok /\ made = whitelist_sign(A, B, sub, x, w, index)
                  BY <1>1, <1>2, <1>3
            <3> HIDE DEF index, made, sub, job
            <3>2. \E e, s : made.v = [n |-> n, e0 |-> e, s |-> s]
                  <4>1. /\ n \in 1 .. MaxKeys /\ A \in Points(n) /\ B \in Points(n) /\ sub \in Point
                        /\ x \in Scalar /\ w \in Nat /\ index \in Nat
                        BY <1>3, <1>4, <1>5, <3>1
                  <4>2. whitelist_sign(A, B, sub, x, w, index).ok
                        BY <3>1
                  <4>3. WhitelistAsked(n, A, B, sub, x, w, index)
                        BY <4>1, <4>2 DEF WhitelistAsked
                  <4>4. WhitelistRecord(n, whitelist_sign(A, B, sub, x, w, index).v)
                        BY <4>3, WhitelistMadeTyped
                  <4>5. QED
                        BY <3>1, <4>4 DEF WhitelistRecord
            <3>3. QED
                  BY <3>2 DEF made
      <2>2. PICK e, s : list.proof.v = [n |-> n, e0 |-> e, s |-> s]
            BY <2>1
      <2> HIDE DEF job
      <2>3. QED
            BY <1>5, <2>2, WhitelistSent
<1>10. ASSUME own = job.index + 1, sent.ok
       PROVE  whitelist_verify(sent.v, A, B, sub) <=> \A i \in 1 .. n : whitelistKeys(A, B, sub)[i] # Infinity
       <2>1. list.proof = whitelist_sign(A, B, GMul(job.sub, G), x, SAdd(y, job.sub), own - 1)
             <3>1. job.index = own - 1
                   BY <1>3, <1>10
             <3>2. QED
                   BY <1>2, <3>1 DEF w
       <2> DEFINE z == job.sub
                  made == list.proof
       <2>2. z \in Scalar /\ made.ok
             BY <1>1, <1>3
       <2> HIDE DEF z, made, job
       <2>3. LET back == whitelist_signature_parse(whitelist_signature_serialize(made.v))
             IN back.ok => (whitelist_verify(back.v, A, B, GMul(z, G))
                               <=> \A i \in 1 .. n : whitelistKeys(A, B, GMul(z, G))[i] # Infinity)
             <3>1. made = whitelist_sign(A, B, GMul(z, G), x, SAdd(y, z), own - 1)
                   BY <2>1 DEF made, z
             <3>2. QED
                   BY <1>3, <1>4, <1>5, <2>2, <3>1, WhitelistComplete
       <2>4. QED
             BY <1>10, <2>3 DEF made, z
<1>11. altered = "none" /\ own = job.index + 1 /\ sent.ok => (believed <=> ~emptyEntry(job))
       <2>1. (\A i \in 1 .. n : whitelistKeys(A, B, sub)[i] # Infinity) <=> ~emptyEntry(job)
             BY <1>6
       <2> HIDE DEF sent, job, sub
       <2>2. QED
             BY <1>7, <1>10, <2>1
<1> DEFINE ok == sent.ok
<1>12. /\ list'.at = "whitelist" /\ list'.altered = altered /\ list'.job = job
       /\ list'.parsed = ok /\ list'.accepted = believed
       BY <1>1
<1>13. ok <=> n < MaxKeys
       BY <1>9
<1>14. (believed => ok) /\ (altered = "none" /\ own = job.index + 1 /\ ok => (believed <=> ~emptyEntry(job)))
       BY <1>8, <1>11 DEF believed
<1>15. n = Len(job.online) /\ own = job.own
       BY DEF n, own
<1> HIDE DEF ok, sent, sub
<1>16. /\ list'.parsed <=> Len(list'.job.online) < MaxKeys
       /\ list'.accepted => list'.parsed
       /\ list'.parsed /\ list'.altered = "none" /\ list'.job.own = list'.job.index + 1 =>
             \E j : list'.job = j /\ (list'.accepted <=> ~emptyEntry(j))
       <2> HIDE DEF job
       <2>1. QED
             BY <1>12, <1>13, <1>14, <1>15
<1>17. QED
       BY <1>12, <1>16 DEF ListInv

\* Every step keeps the invariant.
LEMMA ListStep ==
    ASSUME RangeHashesAreBytes, SurjectionDrawsCount, WhitelistNoncesAreDrawn, ListInv, ListNext
    PROVE  ListInv'
<1>1. ASSUME NEW job \in SurjectionJobs, SurjectionBegin(job) PROVE ListInv'
      <2> DEFINE l == [at |-> "drawing", job |-> job, used |-> {}, index |-> 0, has |-> FALSE, tries |-> 0]
      <2>1. list' = l /\ Len(job.fixed) <= MaxKeys
            BY <1>1 DEF SurjectionBegin
      <2>2. l.at = "drawing" /\ DrawnWell(l)
            BY <2>1 DEF DrawnWell
      <2> HIDE DEF l
      <2>3. list'.at = "drawing" /\ DrawnWell(list')
            BY <2>1, <2>2
      <2>4. QED
            BY <2>3 DEF ListInv
<1>2. ASSUME SurjectionGenerate PROVE ListInv'
      <2> DEFINE job == list.job
                 proof == surjectionproof_generate(Len(job.fixed), list.used, surjectionInputs(job),
                             surjectionOutput(job), list.index, job.inKeys[list.index + 1], job.outKey)
                 l == [at |-> "generated", job |-> job, index |-> list.index, proof |-> proof]
      <2>1. list.at = "initialized" /\ list' = l
            BY <1>2 DEF SurjectionGenerate
      <2>2. DrawnWell(list) /\ list.has
            BY <2>1 DEF ListInv
      <2>3. l.job = job /\ l.index = list.index /\ l.proof = proof /\ l.at = "generated"
            OBVIOUS
      <2>4. MadeFrom(l, list.used) /\ l.job \in SurjectionJobs /\ Len(l.job.fixed) <= MaxKeys
            <3>1. /\ list.used \in SUBSET (0 .. Len(job.fixed) - 1) /\ list.index \in list.used
                  /\ job.fixed[list.index + 1] = job.tag /\ job \in SurjectionJobs /\ Len(job.fixed) <= MaxKeys
                  BY <2>2 DEF DrawnWell
            <3> HIDE DEF l, job
            <3>2. QED
                  BY <2>3, <3>1 DEF MadeFrom
      <2> HIDE DEF l
      <2>5. list'.at = "generated" /\ list'.job \in SurjectionJobs /\ Len(list'.job.fixed) <= MaxKeys
               /\ \E used : MadeFrom(list', used)
            BY <2>1, <2>3, <2>4
      <2>6. QED
            BY <2>5 DEF ListInv
<1>3. ASSUME NEW job \in WhitelistJobs, WhitelistSign(job) PROVE ListInv'
      <2> DEFINE A == listedKeys(job.online)
                 B == listedKeys(job.offline)
                 sub == GMul(job.sub, G)
                 proof == whitelist_sign(A, B, sub, job.online[job.own], SAdd(job.offline[job.own], job.sub), job.index)
                 l == [at |-> "listed", job |-> job, onlines |-> A, offlines |-> B, sub |-> sub, proof |-> proof]
      <2>1. list' = l
            BY <1>3 DEF WhitelistSign, listedKeys
      <2>2. SignedList(l) /\ l.at = "listed"
            <3> HIDE DEF A, B, sub
            <3>1. QED
                  BY DEF SignedList, A, B, sub
      <2> HIDE DEF l
      <2>3. list'.at = "listed" /\ SignedList(list')
            BY <2>1, <2>2
      <2>4. QED
            BY <2>3 DEF ListInv
<1>4. QED
      BY <1>1, <1>2, <1>3, DrawStep, RoundStep, VerifySurjectionStep, VerifyWhitelistStep DEF ListNext

\* Whatever inputs are drawn and whoever is on the list, the proofs over lists
\* are accepted as far as ListProofsNameAnEntry says: for every number of
\* entries, every hash that gives 32 bytes, and every generator of nonces that
\* gives some that can be used.
THEOREM EntriesAlwaysAccepted ==
    RangeHashesAreBytes /\ SurjectionDrawsCount /\ WhitelistNoncesAreDrawn => (ListSpec => []ListProofsNameAnEntry)
<1> SUFFICES ASSUME RangeHashesAreBytes, SurjectionDrawsCount, WhitelistNoncesAreDrawn
             PROVE  ListSpec => []ListProofsNameAnEntry
      OBVIOUS
<1>1. list = ListIdle => ListInv
      BY DEF ListIdle, ListInv
<1>2. ListInv /\ [ListNext]_list => ListInv'
      <2>1. CASE list' = list
            BY <2>1 DEF ListInv, DrawnWell, MadeFrom, SignedList
      <2>2. CASE ListNext
            BY <2>2, ListStep
      <2>3. QED
            BY <2>1, <2>2
<1>3. ListInv => ListProofsNameAnEntry
      <2> SUFFICES ASSUME ListInv PROVE ListProofsNameAnEntry
            OBVIOUS
      <2>1. list.at = "generated" => list.job.fixed[list.index + 1] = list.job.tag
            BY DEF ListInv, MadeFrom
      <2>2. list.at = "surjection" /\ list.altered = "none" => (list.accepted <=> ~unblindedMatch(list.job, list.used))
            BY DEF ListInv
      <2>3. list.at = "whitelist" =>
               /\ list.parsed <=> Len(list.job.online) < MaxKeys
               /\ list.accepted => list.parsed
               /\ list.parsed /\ list.altered = "none" /\ list.job.own = list.job.index + 1 =>
                     (list.accepted <=> ~emptyEntry(list.job))
            BY DEF ListInv
      <2>4. QED
            BY <2>1, <2>2, <2>3 DEF ListProofsNameAnEntry
<1>4. QED
      BY <1>1, <1>2, <1>3, PTL DEF ListSpec

-------------------------------------------------------------------------------
(* The word and what fits it.                                              *)

\* The words.
LEMMA WordsAre ==
    /\ Word \in Nat /\ Word > 3 /\ MaxExp \in Nat
    /\ powerOf(2, Word) \in Nat /\ powerOf(2, Word - 1) \in Nat /\ powerOf(2, Word - 1) > 3
    /\ powerOf(2, Word) = 2 * powerOf(2, Word - 1)
    /\ UMax = powerOf(2, Word) - 1 /\ SMax = powerOf(2, Word - 1) - 1 /\ UMax \in Nat /\ SMax \in Nat
    /\ 4 * powerOf(2, Word) < Order
<1>1. Word \in Nat /\ Word > 3 /\ MaxExp \in Nat /\ Word - 1 \in Nat /\ (Word - 1) + 1 = Word /\ 2 <= Word - 1
      BY RangeAssumption
<1>2. powerOf(2, Word - 1) \in Nat /\ powerOf(2, Word) = 2 * powerOf(2, Word - 1)
      BY <1>1, PowerSteps
<1>3. powerOf(2, 2) = 4
      <2>1. powerOf(2, 0) = 1 /\ powerOf(2, 0 + 1) = 2 * powerOf(2, 0) /\ powerOf(2, 1 + 1) = 2 * powerOf(2, 1)
            BY PowerSteps
      <2>2. QED
            BY <2>1
<1>4. powerOf(2, 2) <= powerOf(2, Word - 1)
      BY <1>1, PowersGrow
<1>5. Order \in Nat /\ 4 * powerOf(2, Word) < Order
      BY <1>1, <1>2, GroupAssumption, RangeAssumption
<1>6. QED
      BY <1>1, <1>2, <1>3, <1>4, <1>5 DEF UMax, SMax

\* The bits of a value: it is below the power of 2 of their number, and not
\* below the one before.
LEMMA BitLengthIs ==
    ASSUME NEW v \in Nat, v <= UMax
    PROVE  /\ bitLength(v) \in 0 .. Word /\ v < powerOf(2, bitLength(v))
           /\ bitLength(v) > 0 => v >= powerOf(2, bitLength(v) - 1)
           /\ v > 0 => bitLength(v) > 0
<1> DEFINE good == {k \in 0 .. Word : v < powerOf(2, k)}
<1>1. Word \in Nat /\ v < powerOf(2, Word)
      BY WordsAre
<1>2. Word \in good /\ good \in SUBSET (0 .. Word)
      BY <1>1
<1>3. PICK k \in 0 .. Word : k \in good /\ \A b \in 0 .. k - 1 : b \notin good
      <2> HIDE DEF good
      <2>1. QED
            BY <1>1, <1>2, FirstOf
<1>4. v < powerOf(2, k) /\ (k > 0 => v >= powerOf(2, k - 1))
      <2>1. ASSUME k > 0 PROVE v >= powerOf(2, k - 1)
            <3>1. k - 1 \in 0 .. k - 1 /\ k - 1 \in 0 .. Word /\ k - 1 \in Nat
                  BY <1>1, <2>1
            <3>2. ~(v < powerOf(2, k - 1))
                  BY <1>3, <3>1
            <3>3. powerOf(2, k - 1) \in Nat
                  BY <3>1, PowerSteps
            <3>4. QED
                  BY <3>2, <3>3
      <2>2. QED
            BY <1>3, <2>1
<1>5. /\ bitLength(v) \in 0 .. Word /\ v < powerOf(2, bitLength(v))
      /\ bitLength(v) > 0 => v >= powerOf(2, bitLength(v) - 1)
      BY <1>4 DEF bitLength
<1>6. powerOf(2, 0) = 1
      BY PowerSteps
<1>7. QED
      BY <1>5, <1>6

\* The exponent is lowered until the bits fit: as long as it is, they fit with
\* one power of ten to spare.
LEMMA FittingExpIs ==
    ASSUME NEW exp \in Nat, NEW b \in Nat
    PROVE  /\ fittingExp(exp, b) \in 0 .. exp
           /\ \A d \in 0 .. fittingExp(exp, b) - 1 : (powerOf(2, b) - 1) * powerOf(10, d) <= UMax \div 10
<1> DEFINE over(d) == (powerOf(2, b) - 1) * powerOf(10, d) > UMax \div 10
           good == {e \in 0 .. exp : e < exp => over(e)}
<1>1. exp \in good /\ good \in SUBSET (0 .. exp)
      OBVIOUS
<1>2. PICK e \in 0 .. exp : e \in good /\ \A d \in 0 .. e - 1 : d \notin good
      <2> HIDE DEF good
      <2>1. QED
            BY <1>1, FirstOf
<1>3. ASSUME NEW d \in 0 .. e - 1 PROVE (powerOf(2, b) - 1) * powerOf(10, d) <= UMax \div 10
      <2>1. d \in 0 .. exp /\ d \in Nat /\ ~over(d)
            BY <1>2
      <2>2. powerOf(2, b) - 1 \in Int /\ powerOf(10, d) \in Int /\ UMax \div 10 \in Int
            <3>1. powerOf(2, b) \in Nat /\ powerOf(10, d) \in Nat /\ UMax \in Nat
                  BY <2>1, PowerSteps, WordsAre
            <3>2. QED
                  BY <3>1
      <2> DEFINE x == powerOf(2, b) - 1
                 y == powerOf(10, d)
                 z == UMax \div 10
      <2>3. ~(x * y > z) /\ x \in Int /\ y \in Int /\ z \in Int
            BY <2>1, <2>2
      <2> HIDE DEF x, y, z
      <2>4. x * y <= z
            <3>1. x * y \in Int
                  BY <2>3
            <3>2. QED
                  BY <2>3, <3>1
      <2>5. QED
            BY <2>4 DEF x, y, z
<1>4. e < exp => over(e)
      BY <1>2
<1> HIDE DEF good
<1>5. \E x \in 0 .. exp : /\ x < exp => (powerOf(2, b) - 1) * powerOf(10, x) > UMax \div 10
                          /\ \A d \in 0 .. x - 1 : (powerOf(2, b) - 1) * powerOf(10, d) <= UMax \div 10
      BY <1>3, <1>4
<1>6. QED
      BY <1>5 DEF fittingExp

\* Ends of ranges: the digits reach as far as the value does, ...
LEMMA TopOfLength ==
    ASSUME NEW v \in Nat, NEW p \in Nat \ {0}, NEW M \in Nat \ {0}, M <= 2 * v, NEW low \in Nat, NEW S \in Nat,
           low + v * p <= S - 1
    PROVE  (M - 1) * p + low <= 2 * S - 1
<1> DEFINE a == v * p
           b == M * p
<1>1. a \in Nat /\ b \in Nat /\ (M - 1) * p = b - p
      OBVIOUS
<1>2. b <= 2 * a
      <2>1. p * M <= p * (2 * v) /\ p * (2 * v) = 2 * a /\ p * M = b
            <3>1. 2 * v \in Nat
                  OBVIOUS
            <3>2. p * M <= p * (2 * v)
                  BY <3>1, ProductGrows
            <3>3. QED
                  BY <3>2
      <2>2. QED
            BY <2>1
<1> HIDE DEF b
<1>3. low + a <= S - 1
      OBVIOUS
<1> HIDE DEF a
<1>4. QED
      BY <1>1, <1>2, <1>3

\* ... there is room for the minimum above them, ...
LEMMA TopOfRoom ==
    ASSUME NEW B \in Nat \ {0}, NEW p \in Nat, NEW R \in Nat, NEW T \in Nat, B * p + R <= T,
           NEW n \in Nat, n <= R, NEW r \in Nat, r < p
    PROVE  (B - 1) * p + (n + r) <= T - 1
<1> DEFINE b == B * p
<1>1. b \in Nat /\ (B - 1) * p = b - p /\ b + R <= T
      OBVIOUS
<1> HIDE DEF b
<1>2. QED
      BY <1>1

\* ... and the word holds as many bits as the minimum leaves.
LEMMA TopOfMin ==
    ASSUME NEW a \in Nat \ {0}, NEW b \in Nat \ {0}
    PROVE  a + b - 1 <= a * b
<1>1. a * 1 <= a * b /\ a * 1 = a /\ a * b \in Nat
      BY ProductGrows
<1>2. CASE b = 1
      BY <1>1, <1>2
<1>3. CASE b # 1
      <2> DEFINE c == b - 1
      <2>1. c \in Nat /\ 1 <= c /\ 1 <= a
            BY <1>3
      <2>2. a * b = a * c + a
            BY <2>1
      <2>3. c * 1 <= c * a /\ c * 1 = c /\ c * a = a * c /\ a * c \in Nat
            <3> HIDE DEF c
            <3>1. QED
                  BY <2>1, ProductGrows
      <2>4. b = c + 1
            OBVIOUS
      <2> HIDE DEF c
      <2>5. QED
            BY <2>1, <2>2, <2>3, <2>4
<1>4. QED
      BY <1>2, <1>3

\* What a proof says of its value: it is in the range of the digits above the
\* minimum, and that range ends with the word.
SaysOf(q, value, minValue) ==
    /\ q.v \in Nat /\ q.mantissa \in 0 .. Word /\ q.exp \in 0 .. MaxExp /\ q.min \in Nat
    /\ value = q.min + q.v * powerOf(10, q.exp) /\ minValue <= q.min
    /\ q.v < powerOf(2, q.mantissa)
    /\ IF q.mantissa = 0 THEN q.exp = 0 /\ q.npub = 2
       ELSE /\ (powerOf(2, q.mantissa) - 1) * powerOf(10, q.exp) + q.min <= UMax
            /\ q.npub = SSum(sizesOf(q.mantissa))

\* The digits that the value, and those that its caller asks for, reach the end of the range.
LEMMA TopFits ==
    ASSUME NEW value \in 0 .. UMax, NEW low \in 0 .. UMax, low <= value, NEW e \in 0 .. MaxExp, NEW bits \in 0 .. Word,
           value > SMax => low = 0 /\ e = 0,
           low > 0 => low <= SMax /\ bits <= Word - bitLength(low),
           e > 0 => bits <= Word - 3,
           \A d \in 0 .. e - 1 : (powerOf(2, bits) - 1) * powerOf(10, d) <= UMax \div 10,
           NEW v, v = (value - low) \div powerOf(10, e),
           NEW m, m = greatest(bits, IF v > 0 THEN bitLength(v) ELSE 1)
    PROVE  /\ v \in Nat /\ m \in 1 .. Word /\ v < powerOf(2, m)
           /\ v * powerOf(10, e) \in Nat /\ low + v * powerOf(10, e) <= value
           /\ (powerOf(2, m) - 1) * powerOf(10, e) + (value - v * powerOf(10, e)) <= UMax
<1> DEFINE p == powerOf(10, e)
           T == powerOf(2, Word)
           S == powerOf(2, Word - 1)
           L == IF v > 0 THEN bitLength(v) ELSE 1
<1>1. /\ Word \in Nat /\ Word > 3 /\ MaxExp \in Nat /\ T \in Nat /\ S \in Nat /\ S > 3 /\ T = 2 * S
      /\ UMax = T - 1 /\ SMax = S - 1 /\ UMax \in Nat /\ SMax \in Nat /\ p \in Nat /\ p > 0
      /\ value \in Nat /\ low \in Nat /\ e \in Nat /\ bits \in Nat /\ value - low \in Nat
      <2>1. /\ Word \in Nat /\ Word > 3 /\ MaxExp \in Nat /\ T \in Nat /\ S \in Nat /\ S > 3 /\ T = 2 * S
            /\ UMax = T - 1 /\ SMax = S - 1 /\ UMax \in Nat /\ SMax \in Nat
            BY WordsAre
      <2>2. e \in Nat /\ value \in Nat /\ low \in Nat /\ bits \in Nat /\ value - low \in Nat
            BY <2>1
      <2>3. p \in Nat /\ p > 0
            BY <2>2, PowerSteps
      <2>4. QED
            BY <2>1, <2>2, <2>3
<1>2. v \in Nat /\ p * v <= value - low /\ value - low < p * v + p
      <2> HIDE DEF p
      <2> DEFINE x == value - low
      <2>1. v = x \div p /\ x \in Nat /\ p \in Nat \ {0}
            BY <1>1 DEF p
      <2> HIDE DEF x
      <2>2. v \in Nat /\ p * v <= x /\ x < p * v + p
            BY <2>1, QuotientIs
      <2>3. QED
            BY <2>2 DEF x
<1> DEFINE vp == v * p
<1>3. vp \in Nat /\ vp = p * v /\ vp <= value - low /\ value - low < vp + p
      <2> HIDE DEF p
      <2>1. QED
            BY <1>1, <1>2
<1>4. v <= value
      <2>1. v * 1 <= v * p /\ v * 1 = v
            <3> HIDE DEF p
            <3>1. QED
                  BY <1>1, <1>2, ProductGrows
      <2> HIDE DEF p
      <2>2. QED
            BY <1>1, <1>3, <2>1
<1>5. v <= UMax
      BY <1>1, <1>2, <1>4
<1>6. /\ L \in 1 .. Word /\ v < powerOf(2, L)
      /\ v > 0 => v >= powerOf(2, L - 1)
      /\ v = 0 => L = 1
      <2>1. CASE v > 0
            <3>1. L = bitLength(v)
                  BY <2>1
            <3>2. QED
                  BY <1>1, <1>2, <1>5, <2>1, <3>1, BitLengthIs
      <2>2. CASE v = 0
            <3>1. L = 1
                  BY <2>2
            <3>2. powerOf(2, 1) > 0
                  BY PowerSteps
            <3>3. QED
                  BY <1>1, <2>2, <3>1, <3>2
      <2>3. QED
            BY <1>2, <2>1, <2>2
<1>7. m = IF bits < L THEN L ELSE bits
      BY DEF greatest
<1> HIDE DEF L
<1>8. m \in 1 .. Word /\ L <= m
      BY <1>1, <1>6, <1>7
<1> DEFINE M == powerOf(2, m)
<1>9. M \in Nat /\ M > 0 /\ v < M
      <2>1. L \in Nat /\ m \in Nat
            BY <1>1, <1>6, <1>8
      <2>2. powerOf(2, L) <= M /\ M \in Nat /\ M > 0 /\ powerOf(2, L) \in Nat
            BY <1>8, <2>1, PowersGrow, PowerSteps
      <2>3. QED
            BY <1>2, <1>6, <2>2
<1>10. e = 0 => p = 1 /\ vp = value - low
       <2>1. ASSUME e = 0 PROVE p = 1
             BY <2>1, PowerSteps
       <2>2. ASSUME e = 0 PROVE vp = value - low
             <3> HIDE DEF p, vp
             <3>1. QED
                   BY <1>1, <1>3, <2>1, <2>2
       <2>3. QED
             BY <2>1, <2>2
<1>11. (M - 1) * p + (value - vp) <= UMax
       <2>1. CASE value > SMax
             <3>1. low = 0 /\ e = 0
                   BY <2>1
             <3>2. p = 1 /\ vp = value
                   BY <1>1, <1>10, <3>1
             <3>3. M <= T
                   BY <1>1, <1>8, PowersGrow
             <3> HIDE DEF M, T, p, vp
             <3>4. QED
                   BY <1>1, <1>9, <3>2, <3>3
       <2>2. CASE ~(value > SMax) /\ bits < L /\ v > 0
             <3>1. m = L
                   BY <1>7, <2>2
             <3>2. M <= 2 * v
                   <4>1. L - 1 \in Nat /\ (L - 1) + 1 = L
                         BY <1>1, <1>6
                   <4>2. powerOf(2, L) = 2 * powerOf(2, L - 1) /\ powerOf(2, L - 1) \in Nat
                         BY <4>1, PowerSteps
                   <4>3. QED
                         BY <1>2, <1>6, <2>2, <3>1, <4>2
             <3> DEFINE h == value - vp
             <3>3. h \in Nat /\ h + v * p <= S - 1
                   <4>1. v * p = vp
                         OBVIOUS
                   <4> HIDE DEF vp, p, S
                   <4>2. QED
                         BY <1>1, <1>3, <2>2, <4>1
             <3> HIDE DEF h, p, M, S
             <3>4. (M - 1) * p + h <= 2 * S - 1
                   BY <1>1, <1>2, <1>9, <3>2, <3>3, TopOfLength
             <3>5. QED
                   BY <1>1, <3>4 DEF h
       <2>3. CASE ~(value > SMax) /\ bits < L /\ ~(v > 0)
             <3>1. v = 0 /\ m = 1
                   BY <1>2, <1>6, <1>7, <2>3
             <3>2. M = 2
                   <4>1. powerOf(2, 0) = 1 /\ powerOf(2, 0 + 1) = 2 * powerOf(2, 0)
                         BY PowerSteps
                   <4>2. QED
                         BY <3>1, <4>1
             <3>3. vp = 0
                   <4> HIDE DEF p
                   <4>1. QED
                         BY <1>1, <3>1
             <3>4. p <= S
                   <4>0. e <= MaxExp /\ e \in Nat /\ MaxExp \in Nat /\ 10 \in Nat \ {0}
                         BY <1>1
                   <4>1. powerOf(10, e) <= powerOf(10, MaxExp) /\ powerOf(10, MaxExp) \in Nat
                         BY <4>0, PowersGrow
                   <4>2. powerOf(10, MaxExp) < powerOf(2, Word - 1)
                         BY RangeAssumption
                   <4>3. QED
                         BY <1>1, <4>1, <4>2
             <3> HIDE DEF p, M, S, vp
             <3>5. (M - 1) * p = p
                   BY <1>1, <3>2
             <3>6. QED
                   BY <1>1, <2>3, <3>3, <3>4, <3>5
       <2>4. CASE ~(value > SMax) /\ ~(bits < L) /\ e = 0
             <3>1. m = bits /\ p = 1 /\ vp = value - low
                   BY <1>7, <1>10, <2>4
             <3>2. (M - 1) * p = M - 1 /\ value - vp = low
                   <4> HIDE DEF p, M, vp
                   <4>1. QED
                         BY <1>1, <1>9, <3>1
             <3>3. CASE low = 0
                   <4>1. M <= T
                         BY <1>1, <1>8, PowersGrow
                   <4> HIDE DEF p, M, vp, T
                   <4>2. QED
                         BY <1>1, <1>9, <3>2, <3>3, <4>1
             <3>4. CASE low > 0
                   <4> DEFINE k == bitLength(low)
                              a == powerOf(2, Word - k)
                              b == powerOf(2, k)
                   <4>1. k \in 0 .. Word /\ low < b /\ low <= SMax /\ bits <= Word - k
                         BY <1>1, <3>4, BitLengthIs
                   <4>2. k \in Nat /\ Word - k \in Nat /\ (Word - k) + k = Word
                         BY <1>1, <4>1
                   <4> HIDE DEF k
                   <4>3. T = a * b /\ a \in Nat /\ b \in Nat /\ a > 0 /\ b > 0
                         <5> DEFINE n == Word - k
                         <5>1. n \in Nat /\ n + k = Word
                               BY <4>2
                         <5> HIDE DEF n
                         <5>2. powerOf(2, n + k) = powerOf(2, n) * powerOf(2, k)
                               BY <4>2, <5>1, PowersAdd
                         <5>3. powerOf(2, n) \in Nat /\ powerOf(2, n) > 0 /\ b \in Nat /\ b > 0
                               BY <4>2, <5>1, PowerSteps
                         <5>4. QED
                               BY <5>1, <5>2, <5>3 DEF n
                   <4>4. M <= a
                         BY <1>1, <3>1, <4>1, <4>2, PowersGrow
                   <4> HIDE DEF a, b, T, M, p, vp
                   <4>5. a + b - 1 <= T
                         BY <4>3, TopOfMin
                   <4>6. QED
                         BY <1>1, <1>9, <3>2, <4>1, <4>3, <4>4, <4>5
             <3>5. QED
                   BY <1>1, <3>3, <3>4
       <2>5. CASE ~(value > SMax) /\ ~(bits < L) /\ e # 0
             <3>1. m = bits /\ e > 0 /\ bits \in 1 .. Word - 3 /\ e \in 1 .. MaxExp /\ e - 1 \in 0 .. e - 1 /\ e - 1 \in Nat
                   <4>1. m = bits /\ e > 0 /\ bits >= 1
                         BY <1>1, <1>6, <1>7, <2>5
                   <4>2. bits <= Word - 3
                         BY <4>1
                   <4>3. QED
                         BY <1>1, <4>1, <4>2
             <3> DEFINE c == powerOf(10, e - 1)
                        z == (M - 1) * c
                        R == powerOf(2, Word - bits)
             <3>2. z <= UMax \div 10 /\ c \in Nat /\ p = 10 * c
                   <4>1. (powerOf(2, bits) - 1) * powerOf(10, e - 1) <= UMax \div 10
                         BY <3>1
                   <4>2. (e - 1) + 1 = e
                         BY <1>1
                   <4>3. powerOf(10, e - 1) \in Nat /\ powerOf(10, (e - 1) + 1) = 10 * powerOf(10, e - 1)
                         BY <3>1, PowerSteps
                   <4>4. QED
                         BY <3>1, <4>1, <4>2, <4>3
             <3>3. z \in Nat
                   <4> HIDE DEF c, M
                   <4>1. QED
                         BY <1>9, <3>2
             <3>4. 10 * z <= UMax
                   <4>1. 10 * (UMax \div 10) <= UMax /\ UMax \div 10 \in Nat
                         BY <1>1, QuotientIs
                   <4> HIDE DEF z
                   <4>2. QED
                         BY <1>1, <3>2, <3>3, <4>1
             <3>5. 10 * z = (M - 1) * p
                   <4> HIDE DEF c, M, p
                   <4>1. M - 1 \in Nat
                         BY <1>9
                   <4> DEFINE y == M - 1
                   <4> HIDE DEF y
                   <4>2. 10 * (y * c) = y * (10 * c)
                         BY <3>2, <4>1 DEF y
                   <4>3. QED
                         BY <3>2, <4>2 DEF y
             <3>6. (powerOf(2, bits) - 1) * powerOf(10, e) < powerOf(2, Word)
                   <4>1. (M - 1) * p < T
                         <5> HIDE DEF z, M, p, T
                         <5>1. QED
                               BY <1>1, <3>3, <3>4, <3>5
                   <4>2. QED
                         BY <3>1, <4>1
             <3>7. powerOf(2, bits) * powerOf(10, e) + powerOf(2, Word - bits) <= powerOf(2, Word)
                   BY <3>1, <3>6, RangeAssumption
             <3>8. M * p + R <= T
                   BY <3>1, <3>7
             <3>9. Word - bits \in Nat /\ R \in Nat
                   <4>1. Word - bits \in Nat
                         BY <1>1
                   <4>2. QED
                         BY <4>1, PowerSteps
             <3>10. low <= R
                    <4>1. CASE low = 0
                          BY <3>9, <4>1
                    <4>2. CASE low > 0
                          <5> DEFINE k == bitLength(low)
                          <5>1. k \in 0 .. Word /\ low < powerOf(2, k) /\ bits <= Word - k
                                BY <1>1, <4>2, BitLengthIs
                          <5>2. k \in Nat /\ k <= Word - bits
                                BY <1>1, <5>1
                          <5> HIDE DEF k
                          <5>3. powerOf(2, k) <= R /\ powerOf(2, k) \in Nat
                                BY <3>9, <5>2, PowersGrow
                          <5>4. QED
                                BY <1>1, <3>9, <5>1, <5>3
                    <4>3. QED
                          BY <1>1, <4>1, <4>2
             <3> DEFINE r == (value - low) - vp
             <3> HIDE DEF z, M, p, T, R, vp
             <3>11. r \in Nat /\ r < p /\ value - vp = low + r
                    BY <1>1, <1>3
             <3> HIDE DEF r
             <3>12. (M - 1) * p + (low + r) <= T - 1
                    BY <1>1, <1>9, <3>8, <3>9, <3>10, <3>11, TopOfRoom
             <3>13. QED
                    BY <1>1, <3>11, <3>12
       <2>6. QED
             BY <2>1, <2>2, <2>3, <2>4, <2>5
<1>12. low + vp <= value
       <2> HIDE DEF vp
       <2>1. QED
             BY <1>1, <1>3
<1>13. QED
       BY <1>2, <1>3, <1>8, <1>9, <1>11, <1>12

-------------------------------------------------------------------------------
(* Headers.                                                                *)

\* Powers are positive.
LEMMA PowerTyped ==
    \A b \in Nat \ {0} : \A n \in Nat : powerOf(b, n) \in Nat \ {0}
<1>1. SUFFICES ASSUME NEW b \in Nat, b > 0, NEW n \in Nat PROVE powerOf(b, n) \in Nat /\ powerOf(b, n) > 0
      OBVIOUS
<1>2. powerOf(b, n) \in Nat
      BY <1>1, PowerSteps
<1>3. powerOf(b, n) > 0
      BY <1>1, PowerSteps
<1>4. QED
      BY <1>2, <1>3

\* The parameters chosen for a value say what the value is.
LEMMA ParamsSay ==
    ASSUME NEW value \in 0 .. UMax, NEW low \in 0 .. UMax, low <= value, NEW minBits \in 0 .. Word, NEW exp \in -1 .. MaxExp,
           range_proveparams(value, low, exp, minBits).ok
    PROVE  SaysOf(range_proveparams(value, low, exp, minBits).v, value, low)
<1> DEFINE p == range_proveparams(value, low, exp, minBits)
           bits == IF low > 0 THEN least(minBits, Word - bitLength(low)) ELSE minBits
           allowed == IF bits > Word - 3 \/ value > SMax THEN 0 ELSE exp
           e == fittingExp(allowed, bits)
           v == (value - low) \div powerOf(10, e)
           m == greatest(bits, IF v > 0 THEN bitLength(v) ELSE 1)
           q == [v |-> v, mantissa |-> m, exp |-> e, min |-> value - v * powerOf(10, e), npub |-> SSum(sizesOf(m))]
           one == [v |-> 0, mantissa |-> 0, exp |-> 0, min |-> value, npub |-> 2]
<1>1. p = IF exp < 0 \/ low = UMax THEN Gives(one)
          ELSE IF (low > 0 /\ value > SMax) \/ (value > 0 /\ low >= SMax) THEN Fails
          ELSE Gives(q)
      BY DEF range_proveparams
<1>2. /\ Word \in Nat /\ Word > 3 /\ MaxExp \in Nat /\ UMax \in Nat /\ SMax \in Nat
      /\ value \in Nat /\ low \in Nat
      BY WordsAre
<1>3. CASE exp < 0 \/ low = UMax
      <2>1. p.v = one
            <3> HIDE DEF q, one
            <3>1. p = Gives(one)
                  BY <1>1, <1>3
            <3> HIDE DEF p
            <3>2. QED
                  BY <3>1 DEF Gives
      <2>2. powerOf(10, 0) = 1 /\ powerOf(2, 0) = 1
            BY PowerSteps
      <2>3. SaysOf(one, value, low)
            BY <1>2, <2>2 DEF SaysOf
      <2> HIDE DEF one, p
      <2>4. QED
            BY <2>1, <2>3 DEF p
<1>4. CASE ~(exp < 0 \/ low = UMax)
      <2>1. ~((low > 0 /\ value > SMax) \/ (value > 0 /\ low >= SMax)) /\ p.v = q
            <3> HIDE DEF q, one
            <3>1. p = IF (low > 0 /\ value > SMax) \/ (value > 0 /\ low >= SMax) THEN Fails ELSE Gives(q)
                  BY <1>1, <1>4
            <3>2. p.ok
                  OBVIOUS
            <3> HIDE DEF p
            <3>3. QED
                  BY <3>1, <3>2 DEF Gives, Fails
      <2>2. bits \in 0 .. Word /\ (low > 0 => bits <= Word - bitLength(low))
            <3>1. CASE low > 0
                  <4>1. bitLength(low) \in 0 .. Word
                        BY <1>2, BitLengthIs
                  <4>2. bits = least(minBits, Word - bitLength(low))
                        BY <3>1
                  <4>3. QED
                        BY <1>2, <4>1, <4>2 DEF least
            <3>2. CASE ~(low > 0)
                  BY <1>2, <3>2
            <3>3. QED
                  BY <3>1, <3>2
      <2>3. exp \in 0 .. MaxExp
            BY <1>2, <1>4
      <2> HIDE DEF bits
      <2>4. allowed \in Nat /\ allowed <= MaxExp /\ (allowed > 0 => bits <= Word - 3 /\ ~(value > SMax))
            BY <1>2, <2>2, <2>3
      <2> HIDE DEF allowed
      <2>5. e \in 0 .. allowed /\ \A d \in 0 .. e - 1 : (powerOf(2, bits) - 1) * powerOf(10, d) <= UMax \div 10
            <3>1. bits \in Nat
                  BY <1>2, <2>2
            <3>2. QED
                  BY <2>4, <3>1, FittingExpIs
      <2> HIDE DEF e
      <2>6. e \in 0 .. MaxExp /\ (e > 0 => bits <= Word - 3) /\ (value > SMax => low = 0 /\ e = 0)
            BY <1>2, <2>1, <2>4, <2>5
      <2>7. low > 0 => low <= SMax /\ bits <= Word - bitLength(low)
            BY <1>2, <2>1, <2>2
      <2>8. v = (value - low) \div powerOf(10, e) /\ m = greatest(bits, IF v > 0 THEN bitLength(v) ELSE 1)
            OBVIOUS
      <2> HIDE DEF v, m
      <2>9. /\ v \in Nat /\ m \in 1 .. Word /\ v < powerOf(2, m)
            /\ v * powerOf(10, e) \in Nat /\ low + v * powerOf(10, e) <= value
            /\ (powerOf(2, m) - 1) * powerOf(10, e) + (value - v * powerOf(10, e)) <= UMax
            BY <2>2, <2>5, <2>6, <2>7, <2>8, TopFits
      <2> DEFINE vp == v * powerOf(10, e)
                 h == value - vp
      <2>10. h \in Nat /\ value = h + vp /\ low <= h
             <3>1. vp \in Nat /\ low + vp <= value
                   BY <2>9
             <3> HIDE DEF vp
             <3>2. QED
                   BY <1>2, <3>1
      <2>11. q.v = v /\ q.mantissa = m /\ q.exp = e /\ q.min = h /\ q.npub = SSum(sizesOf(m))
             OBVIOUS
      <2>12. m \in 0 .. Word /\ m # 0
             BY <1>2, <2>9
      <2> DEFINE top == (powerOf(2, m) - 1) * powerOf(10, e)
      <2>13. top + h <= UMax
             BY <2>9
      <2> HIDE DEF h, q
      <2>14. SaysOf(q, value, low)
             BY <2>6, <2>9, <2>10, <2>11, <2>12, <2>13 DEF SaysOf
      <2>15. QED
             BY <2>1, <2>14
<1>5. QED
      BY <1>3, <1>4

\* The header of such a proof is read back, and the range holds the value.
LEMMA HeaderIsRead ==
    ASSUME NEW value \in 0 .. UMax, NEW low \in 0 .. UMax, NEW q, SaysOf(q, value, low),
           NEW header, header = [exp |-> q.exp, mantissa |-> q.mantissa, min |-> q.min]
    PROVE  LET info == rangeproof_getheader(header)
           IN /\ info.ok /\ info.v.min = q.min
              /\ value \in info.v.min .. info.v.max /\ low <= info.v.min
              /\ q.v * powerOf(10, q.exp) \in Nat /\ q.v * powerOf(10, q.exp) <= value
<1> DEFINE m == q.mantissa
           e == q.exp
           v == q.v
           p == powerOf(10, e)
           M == powerOf(2, m)
           full == (M - 1) * p
           top == IF m = 0 THEN 0 ELSE full
           over(d) == m > 0 /\ (M - 1) * powerOf(10, d) > UMax \div 10
           info == rangeproof_getheader(header)
<1>1. /\ v \in Nat /\ m \in 0 .. Word /\ e \in 0 .. MaxExp /\ q.min \in Nat
      /\ value = q.min + v * p /\ low <= q.min /\ v < M
      /\ m = 0 => e = 0
      /\ m # 0 => full + q.min <= UMax
      BY DEF SaysOf
<1>2. header.exp = e /\ header.mantissa = m /\ header.min = q.min
      OBVIOUS
<1>3. info = IF e > MaxExp \/ m > Word \/ (\E d \in 0 .. e - 1 : over(d)) \/ top > UMax - q.min THEN Fails
             ELSE Gives([min |-> q.min, max |-> q.min + top, scale |-> p])
      <2>1. QED
            BY <1>2 DEF rangeproof_getheader
<1>4. Word \in Nat /\ MaxExp \in Nat /\ UMax \in Nat /\ e \in Nat /\ m \in Nat /\ p \in Nat /\ p > 0 /\ M \in Nat /\ M > 0 /\ value \in Nat
      <2>1. Word \in Nat /\ MaxExp \in Nat /\ UMax \in Nat
            BY WordsAre
      <2>2. e \in Nat /\ m \in Nat /\ value \in Nat
            BY <1>1, <2>1
      <2>3. p \in Nat /\ p > 0
            BY <2>2, PowerTyped
      <2>4. M \in Nat /\ M > 0
            BY <2>2, PowerTyped
      <2> HIDE DEF p, M
      <2>5. QED
            BY <2>1, <2>2, <2>3, <2>4
<1> HIDE DEF m, e, v, info
<1>5. full \in Nat /\ v * p \in Nat /\ v * p <= full
      <2> HIDE DEF M, p
      <2>1. M - 1 \in Nat /\ v <= M - 1
            BY <1>1, <1>4
      <2>2. p * v <= p * (M - 1)
            BY <1>1, <1>4, <2>1, ProductGrows
      <2>3. p * v = v * p /\ p * (M - 1) = (M - 1) * p /\ v * p \in Nat /\ (M - 1) * p \in Nat
            BY <1>1, <1>4, <2>1
      <2>4. QED
            BY <2>2, <2>3
<1>6. top \in Nat /\ v * p <= top /\ ~(top > UMax - q.min)
      <2>1. CASE m = 0
            <3>1. M = 1
                  BY <2>1, PowerSteps
            <3> HIDE DEF M, p
            <3>2. v = 0
                  BY <1>1, <3>1
            <3>3. v * p = 0
                  BY <1>4, <3>2
            <3>4. value <= UMax /\ q.min = value
                  BY <1>1, <1>4, <3>3
            <3>5. top = 0
                  BY <2>1
            <3> HIDE DEF top
            <3>6. QED
                  BY <1>1, <1>4, <3>3, <3>4, <3>5
      <2>2. CASE m # 0
            <3>1. top = full
                  BY <2>2
            <3> HIDE DEF full, top
            <3>2. QED
                  BY <1>1, <1>4, <1>5, <2>2, <3>1
      <2>3. QED
            BY <2>1, <2>2
<1>7. ASSUME NEW d \in 0 .. e - 1 PROVE ~over(d)
      <2>1. SUFFICES ASSUME m > 0 PROVE ~((M - 1) * powerOf(10, d) > UMax \div 10)
            OBVIOUS
      <2> DEFINE c == powerOf(10, d)
                 x == M - 1
                 z == x * c
      <2>2. d \in Nat /\ d + 1 \in Nat /\ d + 1 <= e
            BY <1>4
      <2>3. c \in Nat /\ powerOf(10, d + 1) = 10 * c
            BY <2>2, PowerSteps
      <2>4. 10 * c <= p
            <3>1. powerOf(10, d + 1) <= powerOf(10, e)
                  BY <1>4, <2>2, PowersGrow
            <3>2. QED
                  BY <2>3, <3>1
      <2>5. x \in Nat /\ full <= UMax /\ full = x * p
            <3>1. full <= UMax
                  <4>1. full + q.min <= UMax /\ full \in Nat /\ q.min \in Nat
                        BY <1>1, <1>4, <1>5, <2>1
                  <4> HIDE DEF full
                  <4>2. QED
                        BY <1>4, <4>1
            <3>2. QED
                  BY <1>4, <3>1
      <2> HIDE DEF c, x, p, M
      <2>6. x * (10 * c) <= x * p /\ x * (10 * c) \in Nat /\ x * p \in Nat
            <3>1. 10 * c \in Nat
                  BY <2>3
            <3>2. QED
                  BY <1>4, <2>4, <2>5, <3>1, ProductGrows
      <2>7. z \in Nat /\ x * (10 * c) = 10 * z
            BY <2>3, <2>5
      <2>8. 10 * z <= UMax
            BY <1>4, <2>5, <2>6, <2>7
      <2>9. ~(z > UMax \div 10)
            <3> DEFINE w == UMax \div 10
            <3>1. w \in Nat /\ UMax < 10 * w + 10
                  BY <1>4, QuotientIs
            <3> HIDE DEF w, z
            <3>2. ~(w + 1 <= z)
                  BY <1>4, <2>7, <2>8, <3>1
            <3>3. QED
                  BY <2>7, <3>1, <3>2 DEF w
      <2>10. QED
             BY <2>9 DEF x, c
<1>8. info = Gives([min |-> q.min, max |-> q.min + top, scale |-> p])
      <2> HIDE DEF over, top, p
      <2>1. ~(e > MaxExp) /\ ~(m > Word)
            BY <1>1, <1>4
      <2>2. QED
            BY <1>3, <1>6, <1>7, <2>1
<1>9. info.ok /\ info.v.min = q.min /\ info.v.max = q.min + top
      <2> HIDE DEF top, p
      <2>1. QED
            BY <1>8 DEF Gives
<1> DEFINE vp == v * p
<1>10. vp \in Nat /\ vp <= top /\ top \in Nat /\ value = q.min + vp
       BY <1>1, <1>5, <1>6
<1> HIDE DEF vp, top
<1>11. value \in info.v.min .. info.v.max /\ low <= info.v.min /\ vp <= value
       BY <1>1, <1>4, <1>9, <1>10
<1>12. QED
       BY <1>9, <1>10, <1>11 DEF info, vp, v, e

-------------------------------------------------------------------------------
(* The digits of a range proof.                                            *)

\* The number of rings of a mantissa: one for every two bits, and one when
\* there are none.
ringsOf(m) == IF m = 0 THEN 1 ELSE (m + 1) \div 2

\* The rings: four points for every two bits, two for the last when a bit is left.
LEMMA RingSizesAre ==
    ASSUME NEW m \in Nat
    PROVE  LET n == ringsOf(m)
           IN /\ n \in Nat \ {0} /\ sizesOf(m) = [i \in 1 .. n |-> sizesOf(m)[i]] /\ Len(sizesOf(m)) = n
              /\ sizesOf(m) \in Seq({1, 2, 4}) /\ sizesOf(m) \in Scalars(n)
              /\ m = 0 => n = 1 /\ sizesOf(m)[1] = 1
              /\ m # 0 => /\ m \in {2 * n, 2 * n - 1}
                          /\ \A i \in 1 .. n : sizesOf(m)[i] = IF i < n \/ m = 2 * n THEN 4 ELSE 2
<1> DEFINE n == ringsOf(m)
<1>0. 4 \in Scalar /\ 2 \in Scalar /\ 1 \in Scalar
      <2>1. Order \in Nat /\ Order > 4
            <3> DEFINE x == powerOf(2, Word)
            <3>1. Word \in Nat
                  BY WordsAre
            <3>2. x \in Nat /\ x > 0
                  BY <3>1, PowerTyped
            <3>3. 4 * x < Order /\ Order \in Nat
                  BY WordsAre, GroupAssumption
            <3> HIDE DEF x
            <3>4. QED
                  BY <3>2, <3>3
      <2>2. QED
            BY <2>1 DEF Scalar
<1>1. CASE m = 0
      <2>1. sizesOf(m) = <<1>> /\ n = 1
            BY <1>1 DEF sizesOf, ringsOf
      <2> DEFINE s == <<1>>
      <2>2. s = [i \in 1 .. 1 |-> s[i]] /\ Len(s) = 1 /\ s[1] = 1 /\ s \in Seq({1, 2, 4}) /\ s \in Scalars(1)
            BY <1>0 DEF Scalars
      <2>3. sizesOf(m) = s
            BY <2>1
      <2>4. ringsOf(m) = 1
            BY <2>1
      <2> HIDE DEF n, s
      <2>5. s = [i \in 1 .. ringsOf(m) |-> s[i]]
            BY <2>2, <2>4
      <2>6. sizesOf(m) = [i \in 1 .. ringsOf(m) |-> sizesOf(m)[i]]
            BY <2>3, <2>5
      <2>7. ringsOf(m) \in Nat \ {0} /\ Len(sizesOf(m)) = ringsOf(m)
            BY <2>2, <2>3, <2>4
      <2>8. sizesOf(m) \in Seq({1, 2, 4}) /\ sizesOf(m) \in Scalars(ringsOf(m)) /\ sizesOf(m)[1] = 1
            BY <2>2, <2>3, <2>4
      <2>9. QED
            BY <1>1, <2>4, <2>6, <2>7, <2>8
<1>2. CASE m # 0
      <2> DEFINE f == [i \in 1 .. n |-> IF i < n \/ m % 2 = 0 THEN 4 ELSE 2]
      <2>1. n = (m + 1) \div 2
            BY <1>2 DEF ringsOf
      <2>2. n \in Nat \ {0} /\ m \in {2 * n, 2 * n - 1} /\ (m % 2 = 0 <=> m = 2 * n)
            BY <1>2, <2>1
      <2>3. sizesOf(m) = SubSeq(f, 1, n)
            BY <1>2, <2>1 DEF sizesOf, Tuple
      <2> HIDE DEF n
      <2>4. f = [i \in 1 .. n |-> f[i]] /\ \A i \in 1 .. n : f[i] = IF i < n \/ m % 2 = 0 THEN 4 ELSE 2
            OBVIOUS
      <2> HIDE DEF f
      <2>5. sizesOf(m) = f
            BY <2>2, <2>3, <2>4, TupleIs
      <2>6. \A i \in 1 .. n : f[i] \in {1, 2, 4} /\ f[i] \in Scalar
            BY <1>0, <2>4
      <2>7. f \in Seq({1, 2, 4}) /\ Len(f) = n
            BY <2>2, <2>4, <2>6, SequenceOf
      <2>8. f \in Scalars(n)
            BY <2>4, <2>6 DEF Scalars
      <2>9. QED
            BY <1>2, <2>2, <2>4, <2>5, <2>7, <2>8 DEF n
<1>3. QED
      BY <1>1, <1>2

\* The digit before the i-th power is what the quotients differ by.
LEMMA DigitStep ==
    ASSUME NEW v \in Nat, NEW i \in Nat \ {0}
    PROVE  LET f == powerOf(4, i - 1)
           IN /\ f \in Nat \ {0} /\ powerOf(4, i) = 4 * f
              /\ digit(v, i) \in 0 .. 3
              /\ v \div f \in Nat /\ v \div powerOf(4, i) \in Nat
              /\ v \div f = 4 * (v \div powerOf(4, i)) + digit(v, i)
<1> DEFINE f == powerOf(4, i - 1)
           a == v \div f
           b == a \div 4
           d == a % 4
<1>1. i - 1 \in Nat /\ (i - 1) + 1 = i
      OBVIOUS
<1>2. f \in Nat /\ f > 0
      BY <1>1, PowerTyped
<1>3. powerOf(4, (i - 1) + 1) = 4 * f
      BY <1>1, PowerSteps
<1>4. powerOf(4, i) = 4 * f
      BY <1>1, <1>3
<1>5. digit(v, i) = d
      BY DEF digit
<1> HIDE DEF f
<1>6. a \in Nat /\ f * a <= v /\ v < f * a + f
      BY <1>2, QuotientIs
<1> HIDE DEF a
<1>7. b \in Nat /\ d \in 0 .. 3 /\ a = 4 * b + d
      BY <1>6
<1> HIDE DEF b, d
<1> DEFINE x == f * b
           y == f * d
<1>8. x \in Nat /\ y \in Nat /\ f * a = 4 * x + y /\ (4 * f) * b = 4 * x
      <2>1. d \in Nat
            BY <1>7
      <2>2. x \in Nat /\ y \in Nat
            BY <1>2, <1>7, <2>1
      <2>3. f * (4 * b + d) = 4 * (f * b) + f * d
            BY <1>2, <1>7, <2>1
      <2>4. QED
            BY <1>2, <1>7, <2>2, <2>3
<1>9. y <= f * 3
      <2>1. d \in Nat /\ d <= 3
            BY <1>7
      <2>2. QED
            BY <1>2, <2>1, ProductGrows
<1> HIDE DEF x, y
<1>10. (4 * f) * b <= v /\ v < (4 * f) * b + 4 * f
       BY <1>2, <1>6, <1>8, <1>9
<1>11. 4 * f \in Nat \ {0}
       BY <1>2
<1>12. v \div (4 * f) = b
       BY <1>7, <1>10, <1>11, QuotientOnly
<1>13. v \div f = a /\ v \div powerOf(4, i) = b
       BY <1>4, <1>12 DEF a
<1>14. f \in Nat \ {0} /\ digit(v, i) \in 0 .. 3
       BY <1>2, <1>5, <1>7
<1>15. v \div f \in Nat /\ v \div powerOf(4, i) \in Nat
       BY <1>6, <1>7, <1>13
<1>16. v \div f = 4 * (v \div powerOf(4, i)) + digit(v, i)
       <2>1. a = 4 * b + digit(v, i)
             BY <1>5, <1>7
       <2>2. QED
             BY <1>13, <2>1
<1>17. QED
       BY <1>4, <1>14, <1>15, <1>16 DEF f

\* A number of so many bits is a number of so many digits, and nothing is left of it.
LEMMA RangeDigitsFit ==
    ASSUME NEW m \in Nat, NEW v \in Nat, v < powerOf(2, m)
    PROVE  /\ v \div powerOf(4, ringsOf(m)) = 0
           /\ \A i \in 1 .. ringsOf(m) : digit(v, i) \in 0 .. sizesOf(m)[i] - 1
<1> DEFINE n == ringsOf(m)
<1>1. /\ n \in Nat \ {0}
      /\ m = 0 => n = 1 /\ sizesOf(m)[1] = 1
      /\ m # 0 => /\ m \in {2 * n, 2 * n - 1}
                  /\ \A i \in 1 .. n : sizesOf(m)[i] = IF i < n \/ m = 2 * n THEN 4 ELSE 2
      BY RingSizesAre
<1> HIDE DEF n
<1>2. v < powerOf(4, n) /\ powerOf(4, n) \in Nat \ {0}
      <2>1. n \in Nat /\ 2 * n \in Nat /\ m <= 2 * n
            BY <1>1
      <2>2. powerOf(4, n) = powerOf(2, 2 * n)
            BY <2>1, FoursAreTwos
      <2>3. powerOf(2, m) \in Nat /\ powerOf(2, 2 * n) \in Nat /\ powerOf(2, m) > 0 /\ powerOf(2, m) <= powerOf(2, 2 * n)
            <3> DEFINE k == 2 * n
            <3>1. k \in Nat /\ m <= k /\ 2 \in Nat \ {0}
                  BY <2>1
            <3> HIDE DEF k
            <3>2. powerOf(2, m) \in Nat /\ powerOf(2, k) \in Nat /\ powerOf(2, m) > 0 /\ powerOf(2, m) <= powerOf(2, k)
                  BY <3>1, PowersGrow
            <3>3. QED
                  BY <3>2 DEF k
      <2>4. QED
            BY <2>2, <2>3
<1>3. v \div powerOf(4, n) = 0
      <2> DEFINE x == powerOf(4, n)
      <2>1. x \in Nat \ {0} /\ v < x
            BY <1>2
      <2> HIDE DEF x
      <2>2. v \div x = 0
            BY <2>1, QuotientOnly
      <2>3. QED
            BY <2>2 DEF x
<1>4. ASSUME NEW i \in 1 .. n PROVE digit(v, i) \in 0 .. sizesOf(m)[i] - 1
      <2>1. i \in Nat \ {0}
            BY <1>1
      <2>2. digit(v, i) \in 0 .. 3
            BY <2>1, DigitStep
      <2>3. CASE m = 0
            <3>1. i = 1 /\ v = 0 /\ sizesOf(m)[i] = 1
                  <4>1. powerOf(2, m) = 1
                        BY <2>3, PowerSteps
                  <4>2. v = 0
                        BY <4>1
                  <4>3. i = 1
                        BY <1>1, <2>3
                  <4>4. QED
                        BY <1>1, <2>3, <4>2, <4>3
            <3>2. powerOf(4, 0) = 1
                  BY PowerSteps
            <3>3. digit(0, 1) = 0
                  BY <3>2 DEF digit
            <3>4. QED
                  BY <3>1, <3>3
      <2>4. CASE m # 0 /\ (i < n \/ m = 2 * n)
            <3>1. sizesOf(m)[i] = 4
                  BY <1>1, <2>4
            <3>2. QED
                  BY <2>2, <3>1
      <2>5. CASE m # 0 /\ ~(i < n \/ m = 2 * n)
            <3>1. i = n /\ m = 2 * n - 1 /\ sizesOf(m)[i] = 2
                  BY <1>1, <2>5
            <3> DEFINE f == powerOf(4, n - 1)
                       a == v \div f
            <3>2. n - 1 \in Nat /\ 2 * (n - 1) \in Nat /\ m = 2 * (n - 1) + 1
                  BY <1>1, <3>1
            <3>3. powerOf(2, m) = 2 * f
                  <4>1. f = powerOf(2, 2 * (n - 1))
                        BY <3>2, FoursAreTwos
                  <4>2. powerOf(2, 2 * (n - 1) + 1) = 2 * powerOf(2, 2 * (n - 1))
                        BY <3>2, PowerSteps
                  <4>3. QED
                        BY <3>2, <4>1, <4>2
            <3>4. f \in Nat /\ f > 0
                  BY <3>2, PowerTyped
            <3>5. digit(v, i) = a % 4
                  BY <3>1 DEF digit
            <3> HIDE DEF f
            <3>6. a \in Nat /\ f * a <= v
                  BY <3>4, QuotientIs
            <3> HIDE DEF a
            <3>7. ~(2 <= a)
                  <4>1. SUFFICES ASSUME 2 <= a PROVE FALSE
                        OBVIOUS
                  <4>2. f * 2 <= f * a
                        BY <3>4, <3>6, <4>1, ProductGrows
                  <4> DEFINE z == f * a
                  <4>3. z \in Nat /\ z <= v /\ f * 2 <= z
                        BY <3>4, <3>6, <4>2
                  <4> HIDE DEF z
                  <4>4. QED
                        BY <3>3, <3>4, <4>3
            <3>8. a \in {0, 1}
                  BY <3>6, <3>7
            <3>9. QED
                  BY <3>1, <3>5, <3>8
      <2>6. QED
            BY <2>3, <2>4, <2>5
<1>5. QED
      BY <1>3, <1>4 DEF n

\* What a digit of ring i is worth.
worth(d, e, i) == (d * powerOf(10, e) * powerOf(4, i - 1)) % Order

\* The digits of a proof end with the word.
EndsWithWord(m, e) ==
    /\ m \in 0 .. Word /\ e \in 0 .. MaxExp
    /\ IF m = 0 THEN e = 0 ELSE (powerOf(2, m) - 1) * powerOf(10, e) <= UMax

\* No digit is worth more than the order, ...
LEMMA UnitOfRing ==
    ASSUME NEW m, NEW e, EndsWithWord(m, e), NEW i \in 1 .. ringsOf(m)
    PROVE  LET u == powerOf(10, e) * powerOf(4, i - 1) IN u \in Nat /\ u > 0 /\ 3 * u < Order
<1> DEFINE n == ringsOf(m)
           p == powerOf(10, e)
           f == powerOf(4, i - 1)
           u == p * f
           S == powerOf(2, Word - 1)
<1>1. /\ Word \in Nat /\ MaxExp \in Nat /\ S \in Nat /\ S > 3 /\ UMax = 2 * S - 1 /\ Order \in Nat /\ 8 * S < Order
      <2>1. /\ Word \in Nat /\ MaxExp \in Nat /\ S \in Nat /\ S > 3 /\ UMax = powerOf(2, Word) - 1
            /\ powerOf(2, Word) = 2 * S /\ 4 * powerOf(2, Word) < Order
            BY WordsAre
      <2>2. Order \in Nat
            BY GroupAssumption
      <2> HIDE DEF S
      <2>3. QED
            BY <2>1, <2>2
<1>2. m \in Nat /\ e \in Nat /\ e <= MaxExp /\ (m = 0 => e = 0) /\ (m # 0 => (powerOf(2, m) - 1) * p <= UMax)
      BY <1>1 DEF EndsWithWord
<1>3. /\ n \in Nat \ {0} /\ i - 1 \in Nat /\ i <= n
      /\ m = 0 => n = 1
      /\ m # 0 => m \in {2 * n, 2 * n - 1}
      <2>1. n \in Nat \ {0} /\ (m = 0 => n = 1) /\ (m # 0 => m \in {2 * n, 2 * n - 1})
            BY <1>2, RingSizesAre
      <2> HIDE DEF n
      <2>2. i \in 1 .. n
            BY DEF n
      <2>3. QED
            BY <2>1, <2>2
<1> HIDE DEF n
<1>4. p \in Nat /\ p > 0 /\ f \in Nat /\ f > 0
      <2>1. p \in Nat /\ p > 0
            BY <1>2, PowerTyped
      <2>2. f \in Nat /\ f > 0
            BY <1>3, PowerTyped
      <2> HIDE DEF p, f
      <2>3. QED
            BY <2>1, <2>2
<1>5. u \in Nat /\ u > 0
      <2> HIDE DEF p, f
      <2>1. p * 1 <= p * f /\ p * f \in Nat
            BY <1>4, ProductGrows
      <2>2. QED
            BY <1>4, <2>1
<1>6. 2 * u <= UMax + p \/ u = 1
      <2>1. CASE m = 0
            <3>1. p = 1 /\ f = 1
                  <4>1. e = 0 /\ i - 1 = 0
                        BY <1>2, <1>3, <2>1
                  <4>2. powerOf(10, 0) = 1 /\ powerOf(4, 0) = 1
                        BY PowerSteps
                  <4>3. QED
                        BY <4>1, <4>2
            <3> HIDE DEF p, f
            <3>2. QED
                  BY <3>1
      <2>2. CASE m # 0
            <3> DEFINE M == powerOf(2, m)
                       k == 2 * (i - 1)
            <3>1. k \in Nat /\ k + 1 \in Nat /\ k + 1 <= m
                  BY <1>2, <1>3, <2>2
            <3>2. f = powerOf(2, k)
                  BY <1>3, FoursAreTwos
            <3> HIDE DEF k
            <3>3. powerOf(2, k + 1) = 2 * powerOf(2, k)
                  BY <3>1, PowerSteps
            <3>4. powerOf(2, k + 1) <= M /\ M \in Nat /\ M > 0
                  <4>1. 2 \in Nat \ {0}
                        OBVIOUS
                  <4>2. powerOf(2, k + 1) <= M /\ M \in Nat /\ powerOf(2, k + 1) > 0 /\ powerOf(2, k + 1) \in Nat
                        BY <1>2, <3>1, <4>1, PowersGrow
                  <4> HIDE DEF M
                  <4>3. QED
                        BY <4>2
            <3>5. 2 * f <= M /\ (M - 1) * p <= UMax
                  BY <1>2, <2>2, <3>2, <3>3, <3>4
            <3> HIDE DEF M, f, p
            <3>6. p * (2 * f) <= p * M
                  <4>1. 2 * f \in Nat
                        BY <1>4
                  <4>2. QED
                        BY <1>4, <3>4, <3>5, <4>1, ProductGrows
            <3>7. p * (2 * f) = 2 * (p * f) /\ (M - 1) * p = p * M - p
                  BY <1>4, <3>4
            <3> DEFINE z == p * M
            <3>8. z \in Nat
                  BY <1>4, <3>4
            <3>9. 2 * u <= z /\ z - p <= UMax
                  BY <3>5, <3>6, <3>7
            <3> HIDE DEF z, u
            <3>10. QED
                   BY <1>1, <1>4, <1>5, <3>8, <3>9
      <2>3. QED
            BY <2>1, <2>2
<1>7. p < S
      <2>1. 10 \in Nat \ {0}
            OBVIOUS
      <2>2. p <= powerOf(10, MaxExp)
            BY <1>1, <1>2, <2>1, PowersGrow
      <2>3. powerOf(10, MaxExp) \in Nat /\ powerOf(10, MaxExp) < S
            BY <1>1, <2>1, PowerTyped, RangeAssumption
      <2> HIDE DEF p, S
      <2>4. QED
            BY <1>1, <1>4, <2>2, <2>3
<1> HIDE DEF p, f, S
<1>8. 3 * u < Order
      <2> HIDE DEF u
      <2>1. QED
            BY <1>1, <1>4, <1>5, <1>6, <1>7
<1>9. QED
      BY <1>5, <1>8 DEF u, p, f

\* ... so no two digits of a ring are worth the same.
LEMMA WorthIs ==
    ASSUME NEW m, NEW e, EndsWithWord(m, e), NEW i \in 1 .. ringsOf(m), NEW d \in 0 .. 3
    PROVE  /\ worth(d, e, i) \in Scalar /\ worth(d, e, i) = (powerOf(10, e) * powerOf(4, i - 1)) * d
           /\ worth(0, e, i) = 0
           /\ \A c \in 0 .. 3 : c # d => worth(c, e, i) # worth(d, e, i)
<1> DEFINE p == powerOf(10, e)
           f == powerOf(4, i - 1)
           u == p * f
<1>1. u \in Nat /\ u > 0 /\ 3 * u < Order /\ Order \in Nat
      BY UnitOfRing, GroupAssumption
<1>2. p \in Nat /\ f \in Nat
      <2>1. Word \in Nat /\ MaxExp \in Nat
            BY WordsAre
      <2>2. m \in Nat /\ e \in Nat
            BY <2>1 DEF EndsWithWord
      <2>3. ringsOf(m) \in Nat
            BY <2>2, RingSizesAre
      <2>4. i - 1 \in Nat
            BY <2>3
      <2>5. QED
            BY <2>2, <2>4, PowerTyped
<1>3. \A c \in 0 .. 3 : worth(c, e, i) = (c * p * f) % Order
      BY DEF worth
<1> HIDE DEF p, f
<1>4. \A c \in 0 .. 3 : c * p * f = u * c
      BY <1>2
<1>5. ASSUME NEW c \in 0 .. 3 PROVE worth(c, e, i) = u * c /\ u * c \in Scalar
      <2> HIDE DEF u
      <2>1. u * c \in Nat /\ u * c <= u * 3
            BY <1>1, ProductGrows
      <2>2. u * c \in Scalar
            BY <1>1, <2>1 DEF Scalar
      <2>3. (u * c) % Order = u * c
            BY <2>2, ScalarOfScalar
      <2>4. QED
            BY <1>3, <1>4, <2>2, <2>3
<1>6. worth(d, e, i) \in Scalar /\ worth(d, e, i) = u * d
      BY <1>5
<1>7. worth(0, e, i) = 0
      <2>1. worth(0, e, i) = u * 0
            BY <1>5
      <2> HIDE DEF u
      <2>2. QED
            BY <1>1, <2>1
<1>8. ASSUME NEW c \in 0 .. 3, c # d PROVE worth(c, e, i) # worth(d, e, i)
      <2>1. worth(c, e, i) = u * c /\ worth(d, e, i) = u * d
            BY <1>5
      <2> HIDE DEF u
      <2>2. u * c # u * d
            <3>1. c \in {0, 1, 2, 3} /\ d \in {0, 1, 2, 3}
                  OBVIOUS
            <3>2. QED
                  BY <1>1, <1>8, <3>1
      <2>3. QED
            BY <2>1, <2>2
<1>9. QED
      BY <1>6, <1>7, <1>8 DEF u, p, f

\* The digits of a value add up to it.
LEMMA DigitsAddUp ==
    ASSUME NEW m, NEW e, EndsWithWord(m, e), NEW v \in Nat, v < powerOf(2, m),
           v * powerOf(10, e) \in Nat, v * powerOf(10, e) <= UMax,
           NEW w, w = [i \in 1 .. ringsOf(m) |-> worth(digit(v, i), e, i)]
    PROVE  w \in Scalars(ringsOf(m)) /\ SSum(w) = v * powerOf(10, e) /\ v * powerOf(10, e) \in Scalar
<1> DEFINE n == ringsOf(m)
           p == powerOf(10, e)
           q(i) == v \div powerOf(4, i)
           r(i) == v - powerOf(4, i) * q(i)
           t == [i \in 0 .. n |-> r(i) * p]
<1>1. /\ m \in Nat /\ e \in Nat /\ p \in Nat /\ p > 0 /\ n \in Nat \ {0} /\ UMax < Order /\ UMax \in Nat /\ Order \in Nat
      <2>1. Word \in Nat /\ MaxExp \in Nat
            BY WordsAre
      <2>2. m \in Nat /\ e \in Nat
            BY <2>1 DEF EndsWithWord
      <2>3. n \in Nat \ {0}
            BY <2>2, RingSizesAre
      <2>4. p \in Nat /\ p > 0
            <3>1. 10 \in Nat \ {0}
                  OBVIOUS
            <3>2. powerOf(10, e) \in Nat \ {0}
                  BY <2>2, <3>1, PowerTyped
            <3>3. QED
                  BY <3>2
      <2>5. UMax < Order /\ UMax \in Nat /\ Order \in Nat
            <3> DEFINE T == powerOf(2, Word)
            <3>1. T \in Nat /\ UMax = T - 1 /\ UMax \in Nat /\ 4 * T < Order /\ Order \in Nat
                  BY WordsAre, GroupAssumption
            <3> HIDE DEF T
            <3>2. QED
                  BY <3>1
      <2> HIDE DEF n, p
      <2>6. QED
            BY <2>2, <2>3, <2>4, <2>5
<1>2. w \in Scalars(n) /\ \A i \in 1 .. n : w[i] = worth(digit(v, i), e, i) /\ digit(v, i) \in 0 .. 3
      <2>1. \A i \in 1 .. n : i \in Nat \ {0}
            BY <1>1
      <2>2. \A i \in 1 .. n : digit(v, i) \in 0 .. 3
            BY <2>1, DigitStep
      <2>3. \A i \in 1 .. n : worth(digit(v, i), e, i) \in Scalar
            BY <2>2, WorthIs
      <2>4. QED
            BY <2>2, <2>3 DEF Scalars
<1>3. \A i \in 0 .. n : q(i) \in Nat /\ powerOf(4, i) \in Nat \ {0} /\ r(i) \in 0 .. v
      <2>1. SUFFICES ASSUME NEW i \in 0 .. n PROVE q(i) \in Nat /\ powerOf(4, i) \in Nat \ {0} /\ r(i) \in 0 .. v
            OBVIOUS
      <2> DEFINE f == powerOf(4, i)
                 a == v \div f
      <2>2. f \in Nat \ {0}
            <3>1. i \in Nat /\ 4 \in Nat \ {0}
                  BY <1>1
            <3>2. powerOf(4, i) \in Nat \ {0}
                  BY <3>1, PowerTyped
            <3>3. QED
                  BY <3>2
      <2> HIDE DEF f
      <2>3. a \in Nat /\ f * a <= v
            BY <2>2, QuotientIs
      <2> HIDE DEF a
      <2>4. f * a \in Nat /\ v - f * a \in 0 .. v
            BY <2>2, <2>3
      <2>5. QED
            BY <2>2, <2>3, <2>4 DEF f, a
<1>4. ASSUME NEW i \in 1 .. n
      PROVE  r(i) = r(i - 1) + powerOf(4, i - 1) * digit(v, i)
      <2> DEFINE f == powerOf(4, i - 1)
                 a == v \div f
                 b == v \div powerOf(4, i)
                 d == digit(v, i)
      <2>1. f \in Nat /\ powerOf(4, i) = 4 * f /\ d \in Nat /\ a \in Nat /\ b \in Nat /\ a = 4 * b + d
            <3>1. i \in Nat \ {0}
                  BY <1>1
            <3>2. f \in Nat \ {0} /\ powerOf(4, i) = 4 * f /\ d \in 0 .. 3 /\ a \in Nat /\ b \in Nat /\ a = 4 * b + d
                  BY <3>1, DigitStep
            <3> HIDE DEF f, a, b, d
            <3>3. QED
                  BY <3>2
      <2>2. r(i) = v - powerOf(4, i) * b /\ r(i - 1) = v - f * a
            OBVIOUS
      <2> HIDE DEF f, a, b, d, r
      <2>3. f * a = (4 * f) * b + f * d
            BY <2>1
      <2> DEFINE x == (4 * f) * b
                 y == f * d
                 z == f * a
      <2>4. x \in Nat /\ y \in Nat /\ z \in Nat /\ z = x + y
            BY <2>1, <2>3
      <2>5. r(i) = v - x /\ r(i - 1) = v - z
            BY <2>1, <2>2
      <2> HIDE DEF x, y, z
      <2>6. r(i) = r(i - 1) + y
            BY <2>4, <2>5
      <2>7. QED
            BY <2>6 DEF y, f, d
<1>5. t[0] = 0 /\ t[n] = v * p
      <2>1. powerOf(4, 0) = 1
            BY PowerSteps
      <2>2. v \div 1 = v
            OBVIOUS
      <2>3. r(0) = 0
            BY <2>1, <2>2
      <2>4. q(n) = 0
            BY <1>1, RangeDigitsFit
      <2>5. powerOf(4, n) \in Nat
            BY <1>1, <1>3
      <2>6. r(n) = v
            <3> DEFINE x == powerOf(4, n)
            <3>1. r(n) = v - x * 0
                  BY <2>4
            <3>2. x \in Nat
                  BY <2>5
            <3> HIDE DEF x, r
            <3>3. QED
                  BY <3>1, <3>2
      <2>7. t[0] = r(0) * p /\ t[n] = r(n) * p
            BY <1>1
      <2> HIDE DEF r, t, p
      <2>8. QED
            BY <1>1, <2>3, <2>6, <2>7
<1>6. \A i \in 0 .. n : t[i] = r(i) * p
      OBVIOUS
<1> HIDE DEF r, q, t, n
<1>7. v * p \in Scalar /\ v * p < Order
      <2> DEFINE z == v * p
      <2>1. z \in Nat /\ z <= UMax
            OBVIOUS
      <2> HIDE DEF z
      <2>2. z \in Scalar /\ z < Order
            BY <1>1, <2>1 DEF Scalar
      <2>3. QED
            BY <2>2 DEF z
<1>8. ASSUME NEW i \in 1 .. n PROVE t[i] = SAdd(t[i - 1], w[i])
      <2> DEFINE f == powerOf(4, i - 1)
                 d == digit(v, i)
                 x == r(i - 1)
                 y == r(i)
      <2>1. i \in 0 .. n /\ i - 1 \in 0 .. n
            BY <1>1
      <2>2. x \in 0 .. v /\ y \in 0 .. v /\ f \in Nat \ {0} /\ d \in Nat
            <3>1. \A j \in 0 .. n : r(j) \in 0 .. v /\ powerOf(4, j) \in Nat \ {0}
                  BY <1>3
            <3> HIDE DEF d
            <3>2. x \in 0 .. v /\ y \in 0 .. v
                  BY <2>1, <3>1
            <3>3. f \in Nat \ {0}
                  BY <2>1, <3>1
            <3>4. d \in Nat
                  BY <1>2 DEF d
            <3>5. QED
                  BY <3>2, <3>3, <3>4
      <2>3. w[i] = (p * f) * d /\ w[i] \in Scalar
            <3>1. d \in 0 .. 3 /\ i \in 1 .. ringsOf(m)
                  BY <1>2 DEF n
            <3>2. worth(d, e, i) \in Scalar /\ worth(d, e, i) = (p * f) * d
                  BY <3>1, WorthIs
            <3>3. QED
                  BY <1>2, <3>2
      <2>4. t[i - 1] = x * p /\ t[i] = y * p /\ y = x + f * d
            BY <1>4, <1>6, <2>1
      <2> HIDE DEF f, d, x, y, p
      <2>5. y * p = x * p + (p * f) * d /\ x * p \in Nat /\ y * p \in Nat
            BY <1>1, <2>2, <2>4
      <2>6. p * y <= p * v
            BY <1>1, <2>2, ProductGrows
      <2>7. y * p < Order
            <3> DEFINE z == v * p
            <3>1. p * v = z /\ p * y = y * p /\ z < Order /\ z \in Nat
                  BY <1>1, <1>7, <2>2
            <3> HIDE DEF z
            <3>2. QED
                  BY <1>1, <2>5, <2>6, <3>1
      <2> DEFINE a == x * p
                 c == (p * f) * d
                 b == y * p
      <2>8. a \in Nat /\ c \in Scalar /\ b \in Nat /\ b = a + c /\ b < Order
            BY <2>3, <2>5, <2>7
      <2> HIDE DEF a, b, c
      <2>9. a \in Scalar
            BY <1>1, <2>8 DEF Scalar
      <2>10. SAdd(a, c) = b
             BY <2>8, <2>9, SAddIs
      <2>11. QED
             BY <2>3, <2>4, <2>10 DEF a, b, c
<1>9. SSum(w) = t[n]
      <2>1. \A i \in 1 .. n : t[i - 1] \in Scalar => t[i] = SAdd(t[i - 1], w[i])
            BY <1>8
      <2>2. n \in Nat
            BY <1>1
      <2>3. QED
            BY <1>2, <1>5, <2>1, <2>2, SumOnly
<1>10. QED
       BY <1>2, <1>5, <1>7, <1>9 DEF n

-------------------------------------------------------------------------------
(* What the maker of a range proof draws.                                  *)

\* The maker draws until it has a scalar other than 0 for each ring: one of its draws is.
RangeSecretsAreDrawn ==
    \A seed \in Seq(Nat), i \in Nat : \E j \in 100 .. 110 : usable(RangeHash(seed \o <<i, j>>))

\* The entries of a message.
Texts(message, n, sizes) == \A i \in 1 .. n : \A j \in 1 .. sizes[i] : message[i][j] \in Nat

\* What is masked is 32 bytes.
LEMMA MaskTyped ==
    ASSUME NEW x \in Nat, NEW pad \in Bytes32
    PROVE  Mask(x, pad) \in Bytes32
<1>1. Width \in Nat /\ Width > 0
      BY GroupAssumption
<1>2. pad \in Int /\ pad - x \in Int
      BY <1>1 DEF Bytes32
<1>3. (pad - x) % Width \in 0 .. Width - 1
      BY <1>1, <1>2
<1>4. QED
      BY <1>3 DEF Mask, Bytes32

\* What is drawn for rings of these sizes.
Drawn(rand, n, sizes) ==
    /\ rand.sec \in Scalars(n) /\ SSum(rand.sec) = 0
    /\ \A i \in 1 .. n - 1 : rand.sec[i] # 0
    /\ \A i \in 1 .. n : rand.s[i] \in Scalars(sizes[i])
    /\ rand.ok => \A i \in 1 .. n : \A j \in 1 .. sizes[i] : rand.s[i][j] # 0

\* All entries but the last are secrets of their own, and the last makes them add up to 0.
LEMMA RangeRandIs ==
    ASSUME RangeHashesAreBytes, RangeSecretsAreDrawn, NEW seed \in Seq(Nat), NEW n \in Nat \ {0}, NEW sizes,
           Len(sizes) = n, \A i \in 1 .. n : sizes[i] \in Nat, NEW message, Texts(message, n, sizes)
    PROVE  Drawn(rangeproof_genrand(seed, sizes, message), n, sizes)
<1> DEFINE draw(i, j) == RangeHash(seed \o <<i, j>>)
           first(i) == CHOOSE j \in 100 .. 110 :
                          usable(draw(i, j)) /\ \A l \in 100 .. j - 1 : ~usable(draw(i, l))
           own(i) == ScalarOf(draw(i, first(i)))
           before == [i \in 1 .. n - 1 |-> own(i)]
           sec == [i \in 1 .. n |-> IF i < n THEN own(i) ELSE SNeg(SSum(SubSeq(before, 1, n - 1)))]
           row(i) == [j \in 1 .. sizes[i] |-> Mask(message[i][j], draw(i, j))]
           pads == [i \in 1 .. n |-> SubSeq(row(i), 1, sizes[i])]
           line(i) == [j \in 1 .. sizes[i] |-> ScalarOf(SubSeq(pads, 1, n)[i][j])]
           lines == [i \in 1 .. n |-> SubSeq(line(i), 1, sizes[i])]
           rand == rangeproof_genrand(seed, sizes, message)
<1>1. rand = [sec |-> SubSeq(sec, 1, n), s |-> SubSeq(lines, 1, n), prep |-> SubSeq(pads, 1, n),
              ok |-> \A i \in 1 .. n : \A j \in 1 .. sizes[i] : usable(SubSeq(pads, 1, n)[i][j])]
      BY DEF rangeproof_genrand, Tuple
<1>2. \A i \in Nat, j \in Nat : draw(i, j) \in Bytes32
      <2>1. SUFFICES ASSUME NEW i \in Nat, NEW j \in Nat PROVE RangeHash(seed \o <<i, j>>) \in Bytes32
            OBVIOUS
      <2>2. seed \o <<i, j>> \in Seq(Nat)
            OBVIOUS
      <2>3. QED
            BY <2>2 DEF RangeHashesAreBytes
<1>3. ASSUME NEW i \in 1 .. n PROVE own(i) \in Scalar /\ own(i) # 0
      <2> DEFINE good == {j \in 0 .. 110 : j >= 100 /\ usable(draw(i, j))}
      <2>0. i \in Nat
            OBVIOUS
      <2>1. PICK j \in 100 .. 110 : usable(draw(i, j))
            <3>1. \E j \in 100 .. 110 : usable(RangeHash(seed \o <<i, j>>))
                  BY <2>0 DEF RangeSecretsAreDrawn
            <3>2. QED
                  BY <3>1
      <2>2. good \in SUBSET (0 .. 110) /\ good # {} /\ 110 \in Nat
            <3> HIDE DEF draw
            <3>1. j \in good
                  BY <2>1
            <3>2. QED
                  BY <3>1
      <2>3. PICK c \in 0 .. 110 : c \in good /\ \A b \in 0 .. c - 1 : b \notin good
            <3> HIDE DEF good
            <3>1. QED
                  BY <2>2, FirstOf
      <2>4. c \in 100 .. 110 /\ usable(draw(i, c)) /\ \A l \in 100 .. c - 1 : ~usable(draw(i, l))
            <3> HIDE DEF draw
            <3>1. c \in 100 .. 110 /\ usable(draw(i, c))
                  BY <2>3
            <3>2. ASSUME NEW l \in 100 .. c - 1 PROVE ~usable(draw(i, l))
                  <4>1. l \in 0 .. c - 1 /\ l \in 0 .. 110 /\ l >= 100
                        BY <3>1
                  <4>2. QED
                        BY <2>3, <4>1
            <3>3. QED
                  BY <3>1, <3>2
      <2> HIDE DEF draw, good
      <2>5. first(i) \in 100 .. 110 /\ usable(draw(i, first(i)))
            BY <2>4
      <2> HIDE DEF first
      <2>6. draw(i, first(i)) \in Bytes32
            <3>1. i \in Nat /\ first(i) \in Nat
                  BY <2>5
            <3>2. QED
                  BY <1>2, <3>1
      <2>7. QED
            BY <2>5, <2>6, BytesMakeScalars DEF usable
<1>4. \A i \in 1 .. n : \A j \in 1 .. sizes[i] : row(i)[j] \in Bytes32
      <2>1. SUFFICES ASSUME NEW i \in 1 .. n, NEW j \in 1 .. sizes[i] PROVE Mask(message[i][j], draw(i, j)) \in Bytes32
            OBVIOUS
      <2>2. i \in Nat /\ j \in Nat /\ message[i][j] \in Nat
            BY DEF Texts
      <2> HIDE DEF draw
      <2>3. QED
            BY <1>2, <2>2, MaskTyped
<1> HIDE DEF own
<1>5. before \in Scalars(n - 1) /\ SubSeq(before, 1, n - 1) = before
      <2>1. before \in Scalars(n - 1)
            BY <1>3 DEF Scalars
      <2>2. before = [i \in 1 .. n - 1 |-> before[i]] /\ n - 1 \in Nat
            OBVIOUS
      <2> HIDE DEF before
      <2>3. QED
            BY <2>1, <2>2, TupleIs
<1> DEFINE last == SNeg(SSum(before))
<1>6. last \in Scalar /\ SSum(before) \in Scalar /\ n - 1 \in Nat
      <2>1. n - 1 \in Nat
            OBVIOUS
      <2> HIDE DEF before
      <2>2. SSum(before) \in Scalar
            BY <1>5, <2>1, SumWalk
      <2>3. QED
            BY <2>1, <2>2, RingLaws
<1>7. sec = [i \in 1 .. n |-> IF i < n THEN own(i) ELSE last]
      BY <1>5
<1> HIDE DEF last
<1>8. sec \in Scalars(n) /\ \A i \in 1 .. n : sec[i] = IF i < n THEN own(i) ELSE last
      <2> HIDE DEF sec
      <2>1. \A i \in 1 .. n : (IF i < n THEN own(i) ELSE last) \in Scalar
            BY <1>3, <1>6
      <2>2. QED
            BY <1>7, <2>1 DEF Scalars
<1>9. sec = [i \in 1 .. n |-> sec[i]]
      OBVIOUS
<1>10. SSum(sec) = 0
       <2> DEFINE k == n - 1
                  fore == [i \in 1 .. k |-> sec[i]]
       <2>1. k \in Nat /\ k + 1 = n
             OBVIOUS
       <2>2. fore = before
             <3> HIDE DEF sec
             <3>1. \A i \in 1 .. k : sec[i] = own(i)
                   BY <1>8, <2>1
             <3>2. QED
                   BY <3>1
       <2> HIDE DEF k, sec, before
       <2>3. SSum(sec) = SAdd(SSum(fore), sec[k + 1])
             BY <1>8, <2>1, SumOfLast
       <2>4. sec[k + 1] = last
             BY <1>8, <2>1
       <2> HIDE DEF fore
       <2>5. QED
             BY <1>6, <2>2, <2>3, <2>4, RingLaws DEF last
<1>11. SubSeq(sec, 1, n) = sec
       <2> HIDE DEF sec
       <2>1. QED
             BY <1>9, TupleIs
<1>12. rand.sec = sec
       <2> HIDE DEF sec, lines, pads
       <2>1. rand.sec = SubSeq(sec, 1, n)
             BY <1>1
       <2>2. QED
             BY <1>11, <2>1
<1>13. \A i \in 1 .. n : sizes[i] \in Nat /\ row(i) = [j \in 1 .. sizes[i] |-> row(i)[j]]
       OBVIOUS
<1> HIDE DEF row
<1>14. \A i \in 1 .. n : SubSeq(row(i), 1, sizes[i]) = row(i)
       BY <1>13, TupleIs
<1>15. SubSeq(pads, 1, n) = pads /\ \A i \in 1 .. n : pads[i] = row(i)
       <2>1. pads = [i \in 1 .. n |-> pads[i]] /\ \A i \in 1 .. n : pads[i] = SubSeq(row(i), 1, sizes[i])
             OBVIOUS
       <2> HIDE DEF pads
       <2>2. QED
             BY <1>14, <2>1, TupleIs
<1>16. \A i \in 1 .. n : line(i) \in Scalars(sizes[i]) /\ line(i) = [j \in 1 .. sizes[i] |-> line(i)[j]]
                         /\ \A j \in 1 .. sizes[i] : line(i)[j] = ScalarOf(row(i)[j]) /\ line(i)[j] \in Scalar
       <2>1. SUFFICES ASSUME NEW i \in 1 .. n
             PROVE  line(i) \in Scalars(sizes[i]) /\ line(i) = [j \in 1 .. sizes[i] |-> line(i)[j]]
                    /\ \A j \in 1 .. sizes[i] : line(i)[j] = ScalarOf(row(i)[j]) /\ line(i)[j] \in Scalar
             OBVIOUS
       <2>2. \A j \in 1 .. sizes[i] : ScalarOf(row(i)[j]) \in Scalar
             BY <1>4, BytesMakeScalars
       <2> HIDE DEF pads
       <2>3. \A j \in 1 .. sizes[i] : SubSeq(pads, 1, n)[i][j] = row(i)[j]
             BY <1>15
       <2>4. QED
             BY <2>2, <2>3 DEF Scalars
<1> HIDE DEF line
<1>17. \A i \in 1 .. n : SubSeq(line(i), 1, sizes[i]) = line(i)
       BY <1>13, <1>16, TupleIs
<1>18. SubSeq(lines, 1, n) = lines /\ \A i \in 1 .. n : lines[i] = line(i)
       <2>1. lines = [i \in 1 .. n |-> lines[i]] /\ \A i \in 1 .. n : lines[i] = SubSeq(line(i), 1, sizes[i])
             OBVIOUS
       <2> HIDE DEF lines
       <2>2. QED
             BY <1>17, <2>1, TupleIs
<1> HIDE DEF sec, lines, pads
<1>19. rand.s = lines
       <2>1. rand.s = SubSeq(lines, 1, n)
             BY <1>1
       <2>2. QED
             BY <1>18, <2>1
<1>20. rand.ok => \A i \in 1 .. n : \A j \in 1 .. sizes[i] : usable(row(i)[j])
       <2>1. rand.ok = (\A i \in 1 .. n : \A j \in 1 .. sizes[i] : usable(SubSeq(pads, 1, n)[i][j]))
             BY <1>1
       <2> HIDE DEF rand
       <2>2. QED
             BY <1>15, <2>1
<1> HIDE DEF rand
<1>21. rand.ok => \A i \in 1 .. n : \A j \in 1 .. sizes[i] : rand.s[i][j] # 0
       BY <1>16, <1>18, <1>19, <1>20 DEF usable
<1>22. \A i \in 1 .. n : rand.s[i] \in Scalars(sizes[i])
       BY <1>16, <1>18, <1>19
<1>23. \A i \in 1 .. n - 1 : rand.sec[i] # 0
       BY <1>3, <1>8, <1>12
<1>24. Drawn(rand, n, sizes)
       BY <1>8, <1>10, <1>12, <1>21, <1>22, <1>23 DEF Drawn
<1>25. QED
       BY <1>24 DEF rand

\* The blinding factor goes to the last secret, so that all add up to it.
LEMMA LastAdded ==
    ASSUME NEW n \in Nat \ {0}, NEW a \in Scalars(n), SSum(a) = 0, NEW b \in Scalar
    PROVE  LET s == [a EXCEPT ![n] = SAdd(@, b)]
           IN s \in Scalars(n) /\ SSum(s) = b /\ \A i \in 1 .. n - 1 : s[i] = a[i]
<1> DEFINE s == [a EXCEPT ![n] = SAdd(@, b)]
           k == n - 1
           fore == [i \in 1 .. k |-> a[i]]
           x == SSum(fore)
<1>1. k \in Nat /\ k + 1 = n
      OBVIOUS
<1>2. a[n] \in Scalar
      BY DEF Scalars
<1>3. s \in Scalars(n) /\ s[n] = SAdd(a[n], b) /\ \A i \in 1 .. k : s[i] = a[i]
      <2>1. SAdd(a[n], b) \in Scalar
            BY <1>2, RingLaws
      <2>2. QED
            BY <2>1 DEF Scalars
<1>4. [i \in 1 .. k |-> s[i]] = fore
      <2> HIDE DEF s
      <2>1. QED
            BY <1>3
<1> HIDE DEF s, k
<1>5. SSum(a) = SAdd(SSum(fore), a[n])
      BY <1>1, SumOfLast
<1>6. SSum(s) = SAdd(SSum([i \in 1 .. k |-> s[i]]), s[n])
      BY <1>1, <1>3, SumOfLast
<1>7. x \in Scalar
      <2>1. fore \in Scalars(k)
            BY <1>1 DEF Scalars
      <2> HIDE DEF fore
      <2>2. QED
            BY <1>1, <2>1, SumWalk
<1> HIDE DEF fore
<1>8. SSum(s) = SAdd(x, SAdd(a[n], b)) /\ SAdd(x, a[n]) = 0
      BY <1>3, <1>4, <1>5, <1>6
<1>9. SSum(s) = b
      <2>1. SAdd(SAdd(x, a[n]), b) = SAdd(x, SAdd(a[n], b))
            BY <1>2, <1>7, SAddAssociates
      <2>2. SAdd(0, b) = b
            BY RingLaws
      <2>3. QED
            BY <1>8, <2>1, <2>2
<1>10. QED
       BY <1>3, <1>9 DEF s, k

-------------------------------------------------------------------------------
(* The points of a range proof.                                            *)

\* A multiple of a point, in one coordinate.
LEMMA MulInCoordinate ==
    ASSUME NEW c \in Scalar, NEW P \in Point, NEW k \in 1 .. Dim
    PROVE  P[k] \in Scalar /\ GMul(c, P)[k] = SMul(c, P[k]) /\ GMul(c, P)[k] \in Scalar /\ GMul(c, P) \in Point
<1>1. P[k] \in Scalar
      BY DEF Point
<1>2. GMul(c, P) = [i \in 1 .. Dim |-> SMul(c, P[i])] /\ GMul(c, P) \in Point
      BY GMulIs
<1>3. GMul(c, P)[k] \in Scalar
      BY <1>2 DEF Point
<1>4. QED
      BY <1>1, <1>2, <1>3

\* The opposite of a point, in one coordinate.
LEMMA NegInCoordinate ==
    ASSUME NEW P \in Point, NEW k \in 1 .. Dim
    PROVE  GNeg(P)[k] = SNeg(P[k]) /\ GNeg(P) \in Point /\ P[k] \in Scalar
<1>1. P[k] \in Scalar
      BY DEF Point
<1>2. QED
      BY <1>1, GNegIs

\* A generator for values: it has H, and maybe a blinding value on G.
ForValues(gen) == gen \in Point /\ gen[2] = 1

\* The generator of a proof is one for values, blinded or not.
LEMMA RangeGenIs ==
    ASSUME NEW job, job.genBlind \in Nat
    PROVE  ForValues(rangeGen(job))
<1>1. 1 \in 1 .. Dim /\ 2 \in 1 .. Dim
      BY AmountAssumption, GroupAssumption
<1>2. H \in Point /\ H[2] = 1
      BY <1>1, UnitIs DEF H
<1>3. generator_generate_blinded(H, job.genBlind) \in Point /\ generator_generate_blinded(H, job.genBlind)[2] = 1
      BY BlindedGenerator
<1>4. QED
      BY <1>2, <1>3 DEF rangeGen, ForValues

\* The first point of a ring, and what it counts down to.
LEMMA RingPointIs ==
    ASSUME NEW gen, ForValues(gen), NEW x \in Scalar, NEW c \in Scalar, NEW d \in Scalar
    PROVE  LET first == GAdd(GMul(c, gen), GMul(x, G))
               P == GAdd(first, GNeg(GMul(d, gen)))
           IN /\ first \in Point /\ P \in Point
              /\ c = d => P = GMul(x, G)
              /\ c # d => P # Infinity
              /\ d = 0 => P = first
<1> DEFINE A == GMul(c, gen)
           X == GMul(x, G)
           D == GMul(d, gen)
           first == GAdd(A, X)
           P == GAdd(first, GNeg(D))
<1>1. gen \in Point /\ gen[2] = 1
      BY DEF ForValues
<1>2. A \in Point /\ D \in Point /\ X \in Point
      BY <1>1, GMulIs, MultipleIs
<1>3. first \in Point /\ GNeg(D) \in Point
      BY <1>2, GAddIs, GNegIs
<1>4. P \in Point
      BY <1>3, GAddIs
<1>5. ASSUME NEW k \in 1 .. Dim
      PROVE  /\ gen[k] \in Scalar /\ X[k] \in Scalar
             /\ P[k] = SAdd(SAdd(SMul(c, gen[k]), X[k]), SNeg(SMul(d, gen[k])))
             /\ first[k] = SAdd(SMul(c, gen[k]), X[k])
      <2>1. gen[k] \in Scalar /\ A[k] = SMul(c, gen[k]) /\ D[k] = SMul(d, gen[k])
            BY <1>1, MulInCoordinate
      <2>2. X[k] \in Scalar
            BY <1>2 DEF Point
      <2> HIDE DEF A, X, D
      <2>3. first[k] = SAdd(A[k], X[k]) /\ GNeg(D)[k] = SNeg(D[k])
            BY <1>2, SumInCoordinate, NegInCoordinate
      <2> HIDE DEF first
      <2>4. P[k] = SAdd(first[k], GNeg(D)[k])
            BY <1>3, SumInCoordinate
      <2>5. QED
            BY <2>1, <2>2, <2>3, <2>4
<1> HIDE DEF A, X, D, P, first
<1>6. ASSUME c = d PROVE P = X
      <2>1. ASSUME NEW k \in 1 .. Dim PROVE P[k] = X[k]
            <3> DEFINE y == SMul(c, gen[k])
                       z == X[k]
            <3>1. y \in Scalar /\ z \in Scalar /\ P[k] = SAdd(SAdd(y, z), SNeg(y))
                  BY <1>5, <1>6, RingLaws
            <3> HIDE DEF y, z
            <3>2. SNeg(y) \in Scalar /\ SAdd(y, z) = SAdd(z, y) /\ SAdd(y, SNeg(y)) = 0 /\ SAdd(z, 0) = z
                  BY <3>1, RingLaws
            <3>3. SAdd(SAdd(z, y), SNeg(y)) = SAdd(z, SAdd(y, SNeg(y)))
                  BY <3>1, <3>2, SAddAssociates
            <3>4. QED
                  BY <3>1, <3>2, <3>3 DEF z
      <2>2. QED
            BY <1>2, <1>4, <2>1, SamePoint
<1>7. ASSUME c # d PROVE P # Infinity
      <2>1. 2 \in 1 .. Dim /\ 2 # 1
            BY AmountAssumption, GroupAssumption
      <2>2. X[2] = 0
            <3>1. X = [i \in 1 .. Dim |-> IF i = 1 THEN x ELSE 0]
                  BY MultipleIs, Zenon DEF X
            <3> HIDE DEF X
            <3>2. QED
                  BY <2>1, <3>1
      <2>3. P[2] = SAdd(SAdd(SMul(c, 1), 0), SNeg(SMul(d, 1)))
            BY <1>1, <1>5, <2>1, <2>2
      <2>4. P[2] = SAdd(c, SNeg(d))
            BY <2>3, RingLaws
      <2>5. P[2] # 0
            BY <1>7, <2>4, SumLaws
      <2>6. QED
            BY <2>1, <2>5, InfinityIs
<1>8. ASSUME d = 0 PROVE P = first
      <2>1. ASSUME NEW k \in 1 .. Dim PROVE P[k] = first[k]
            <3>1. SMul(0, gen[k]) = 0 /\ SNeg(0) = 0
                  BY <1>5, RingLaws, SumLaws
            <3>2. SAdd(SMul(c, gen[k]), X[k]) \in Scalar
                  BY <1>5, RingLaws
            <3>3. SAdd(first[k], 0) = first[k]
                  BY <1>5, <3>2, RingLaws
            <3>4. QED
                  BY <1>5, <1>8, <3>1, <3>3
      <2>2. QED
            BY <1>3, <1>4, <2>1, SamePoint
<1>9. QED
      BY <1>3, <1>4, <1>6, <1>7, <1>8 DEF A, X, D, P, first

\* The rings of n digits count down from their first points.
CountDown(pubs, n, sizes, e, firsts, gen) ==
    /\ Len(pubs) = n /\ DOMAIN pubs = 1 .. n
    /\ \A i \in 1 .. n :
          /\ Len(pubs[i]) = sizes[i] /\ pubs[i] \in Points(sizes[i])
          /\ \A j \in 1 .. sizes[i] : pubs[i][j] = GAdd(firsts[i], GNeg(GMul(worth(j - 1, e, i), gen)))

LEMMA RangePubsAre ==
    ASSUME NEW m, NEW e, EndsWithWord(m, e), NEW firsts \in Points(ringsOf(m)), NEW gen \in Point
    PROVE  CountDown(rangeproof_pub_expand(firsts, e, sizesOf(m), gen), ringsOf(m), sizesOf(m), e, firsts, gen)
<1> DEFINE n == ringsOf(m)
           sizes == sizesOf(m)
           row(i) == [j \in 1 .. sizes[i] |-> GAdd(firsts[i], GNeg(GMul(worth(j - 1, e, i), gen)))]
           rows == [i \in 1 .. n |-> SubSeq(row(i), 1, sizes[i])]
<1>1. m \in Nat
      BY WordsAre DEF EndsWithWord
<1>2. n \in Nat \ {0} /\ Len(sizes) = n /\ \A i \in 1 .. n : sizes[i] \in {1, 2, 4}
      <2>1. n \in Nat \ {0} /\ Len(sizes) = n /\ sizes \in Seq({1, 2, 4})
            BY <1>1, RingSizesAre
      <2> HIDE DEF n, sizes
      <2>2. QED
            BY <2>1
<1>3. rangeproof_pub_expand(firsts, e, sizes, gen) = SubSeq(rows, 1, n)
      BY <1>2 DEF rangeproof_pub_expand, Tuple, worth
<1>4. ASSUME NEW i \in 1 .. n
      PROVE  /\ row(i) \in Points(sizes[i]) /\ SubSeq(row(i), 1, sizes[i]) = row(i) /\ Len(row(i)) = sizes[i]
             /\ \A j \in 1 .. sizes[i] : row(i)[j] = GAdd(firsts[i], GNeg(GMul(worth(j - 1, e, i), gen)))
      <2>1. sizes[i] \in Nat /\ \A j \in 1 .. sizes[i] : j - 1 \in 0 .. 3
            <3>1. sizes[i] \in {1, 2, 4}
                  BY <1>2
            <3> HIDE DEF sizes
            <3>2. QED
                  BY <3>1
      <2>2. firsts[i] \in Point
            BY DEF Points
      <2>3. ASSUME NEW j \in 1 .. sizes[i] PROVE row(i)[j] \in Point
            <3>1. worth(j - 1, e, i) \in Scalar
                  BY <2>1, WorthIs
            <3>2. GNeg(GMul(worth(j - 1, e, i), gen)) \in Point
                  BY <3>1, GMulIs, GNegIs
            <3>3. QED
                  BY <2>2, <3>2, GAddIs
      <2>4. row(i) = [j \in 1 .. sizes[i] |-> row(i)[j]]
            OBVIOUS
      <2>5. \A j \in 1 .. sizes[i] : row(i)[j] = GAdd(firsts[i], GNeg(GMul(worth(j - 1, e, i), gen)))
            OBVIOUS
      <2> HIDE DEF row
      <2>6. SubSeq(row(i), 1, sizes[i]) = row(i)
            BY <2>1, <2>4, TupleIs
      <2>7. Len(row(i)) = sizes[i]
            BY <2>1, <2>3, <2>4, SequenceOf
      <2>8. row(i) \in Points(sizes[i])
            BY <2>3, <2>4 DEF Points
      <2>9. QED
            BY <2>5, <2>6, <2>7, <2>8
<1> HIDE DEF row
<1>5. rows = [i \in 1 .. n |-> rows[i]] /\ \A i \in 1 .. n : rows[i] = row(i)
      BY <1>4
<1> HIDE DEF rows
<1>6. SubSeq(rows, 1, n) = rows
      BY <1>2, <1>5, TupleIs
<1>7. Len(rows) = n /\ DOMAIN rows = 1 .. n
      <2>1. \A i \in 1 .. n : rows[i] \in {row(c) : c \in 1 .. n}
            BY <1>5
      <2>2. Len(rows) = n
            BY <1>2, <1>5, <2>1, SequenceOf
      <2>3. DOMAIN rows = 1 .. n
            BY <1>5
      <2>4. QED
            BY <2>2, <2>3
<1>8. CountDown(rows, n, sizes, e, firsts, gen)
      <2> HIDE DEF n, sizes
      <2>1. QED
            BY <1>4, <1>5, <1>7 DEF CountDown
<1>9. rangeproof_pub_expand(firsts, e, sizes, gen) = rows
      BY <1>3, <1>6
<1>10. QED
      BY <1>8, <1>9

\* A row of points is a sequence of that length.
LEMMA PointsAreSequence ==
    ASSUME NEW n \in Nat, NEW P \in Points(n)
    PROVE  P \in Seq(Point) /\ Len(P) = n
<1>1. P = [i \in 1 .. n |-> P[i]] /\ \A i \in 1 .. n : P[i] \in Point
      BY DEF Points
<1>2. QED
      BY <1>1, SequenceOf

\* The first points add up to the value on the generator and the blinding factor on G.
LEMMA FirstsAddUp ==
    ASSUME NEW n \in Nat, NEW w \in Scalars(n), NEW x \in Scalars(n), NEW gen \in Point,
           NEW firsts, firsts = [i \in 1 .. n |-> GAdd(GMul(w[i], gen), GMul(x[i], G))]
    PROVE  /\ firsts \in Points(n)
           /\ GSum(firsts) = GAdd(GMul(SSum(w), gen), GMul(SSum(x), G)) /\ GSum(firsts) \in Point
<1>1. \A i \in 1 .. n : w[i] \in Scalar /\ x[i] \in Scalar
      BY DEF Scalars
<1>2. ASSUME NEW i \in 1 .. n
      PROVE  /\ GMul(w[i], gen) \in Point /\ GMul(x[i], G) \in Point /\ firsts[i] \in Point
             /\ firsts[i] = GAdd(GMul(w[i], gen), GMul(x[i], G))
      <2>1. GMul(w[i], gen) \in Point /\ GMul(x[i], G) \in Point
            BY <1>1, GMulIs, MultipleIs
      <2>2. firsts[i] = GAdd(GMul(w[i], gen), GMul(x[i], G))
            OBVIOUS
      <2>3. QED
            BY <2>1, <2>2, GAddIs
<1>3. firsts \in Points(n)
      BY <1>2 DEF Points
<1>4. firsts \in Seq(Point) /\ Len(firsts) = n
      BY <1>3, PointsAreSequence
<1>5. SSum(w) \in Scalar /\ SSum(x) \in Scalar
      BY SumWalk
<1> DEFINE A == GMul(SSum(w), gen)
           X == GMul(SSum(x), G)
<1>6. A \in Point /\ X \in Point
      BY <1>5, GMulIs, MultipleIs
<1>7. GSum(firsts) \in Point /\ \A k \in 1 .. Dim : GSum(firsts)[k] = SSum(column(firsts, k))
      BY <1>4, GSumIs
<1>8. G \in Point
      BY UnitIs DEF G
<1>9. ASSUME NEW k \in 1 .. Dim PROVE SSum(column(firsts, k)) = GAdd(A, X)[k]
      <2> DEFINE g == gen[k]
                 b == G[k]
                 a == [i \in 1 .. n |-> SMul(g, w[i])]
                 c == [i \in 1 .. n |-> SMul(b, x[i])]
      <2>1. g \in Scalar /\ b \in Scalar
            BY <1>8 DEF Point
      <2>2. a \in Scalars(n) /\ c \in Scalars(n)
            <3> HIDE DEF g, b
            <3>1. \A i \in 1 .. n : SMul(g, w[i]) \in Scalar /\ SMul(b, x[i]) \in Scalar
                  BY <1>1, <2>1, RingLaws
            <3>2. QED
                  BY <3>1 DEF Scalars
      <2>3. \A i \in 1 .. n : firsts[i][k] = SAdd(a[i], c[i])
            <3>1. SUFFICES ASSUME NEW i \in 1 .. n PROVE firsts[i][k] = SAdd(a[i], c[i])
                  OBVIOUS
            <3>2. GMul(w[i], gen)[k] = SMul(w[i], g) /\ GMul(x[i], G)[k] = SMul(x[i], b)
                  BY <1>1, <1>8, MulInCoordinate
            <3>3. SMul(w[i], g) = SMul(g, w[i]) /\ SMul(x[i], b) = SMul(b, x[i])
                  BY <1>1, <2>1, RingLaws
            <3>4. firsts[i][k] = SAdd(GMul(w[i], gen)[k], GMul(x[i], G)[k])
                  BY <1>2, SumInCoordinate
            <3>5. a[i] = SMul(g, w[i]) /\ c[i] = SMul(b, x[i])
                  OBVIOUS
            <3>6. QED
                  BY <3>2, <3>3, <3>4, <3>5
      <2>4. SSum(a) = SMul(g, SSum(w)) /\ SSum(c) = SMul(b, SSum(x))
            <3> HIDE DEF g, b
            <3>1. QED
                  BY <2>1, SumOfMultiples
      <2> HIDE DEF a, c
      <2>5. column(firsts, k) = [i \in 1 .. n |-> SAdd(a[i], c[i])]
            BY <1>4, <2>3 DEF column
      <2>6. SSum(column(firsts, k)) = SAdd(SSum(a), SSum(c))
            BY <2>2, <2>5, SumOfSums
      <2>7. A[k] = SMul(SSum(w), g) /\ X[k] = SMul(SSum(x), b)
            BY <1>5, <1>8, MulInCoordinate
      <2>8. SMul(SSum(w), g) = SMul(g, SSum(w)) /\ SMul(SSum(x), b) = SMul(b, SSum(x))
            BY <1>5, <2>1, RingLaws
      <2> HIDE DEF A, X
      <2>9. GAdd(A, X)[k] = SAdd(A[k], X[k])
            BY <1>6, SumInCoordinate
      <2>10. QED
             BY <2>4, <2>6, <2>7, <2>8, <2>9
<1>10. GSum(firsts) = GAdd(A, X)
       <2> HIDE DEF A, X
       <2>1. GAdd(A, X) \in Point
             BY <1>6, GAddIs
       <2>2. QED
             BY <1>7, <1>9, <2>1, SamePoint
<1>11. QED
       BY <1>3, <1>7, <1>10

\* The last of the points is what all add up to without the others.
LEMMA LastFirst ==
    ASSUME NEW n \in Nat \ {0}, NEW P \in Points(n), NEW A \in Point
    PROVE  LET s == SubSeq(P, 1, n - 1)
           IN /\ s \in Seq(Point) /\ Len(s) = n - 1
              /\ Append(s, GAdd(GNeg(GAdd(A, GSum(s))), GAdd(A, GSum(P)))) = P
<1> DEFINE k == n - 1
           s == SubSeq(P, 1, k)
<1>1. P \in Seq(Point) /\ Len(P) = n /\ P[n] \in Point /\ k \in Nat /\ k + 1 = n
      BY PointsAreSequence DEF Points
<1>2. s \in Seq(Point) /\ Len(s) = k /\ \A i \in 1 .. k : s[i] = P[i]
      BY <1>1
<1>3. Append(s, P[n]) = P
      BY <1>1, <1>2
<1> HIDE DEF s
<1>4. GSum(s) \in Point /\ \A c \in 1 .. Dim : GSum(s)[c] = SSum(column(s, c))
      BY <1>2, GSumIs
<1>5. GSum(P) \in Point /\ \A c \in 1 .. Dim : GSum(P)[c] = SSum(column(P, c))
      BY <1>1, GSumIs
<1>6. ASSUME NEW c \in 1 .. Dim PROVE GSum(P)[c] = SAdd(GSum(s)[c], P[n][c])
      <2> DEFINE a == column(P, c)
                 b == [i \in 1 .. k |-> a[i]]
      <2>1. a = [i \in 1 .. n |-> P[i][c]]
            BY <1>1 DEF column
      <2>2. a \in Scalars(n) /\ \A i \in 1 .. n : a[i] = P[i][c]
            <3> HIDE DEF a
            <3>1. \A i \in 1 .. n : P[i][c] \in Scalar
                  BY DEF Points, Point
            <3>2. QED
                  BY <2>1, <3>1 DEF Scalars
      <2> HIDE DEF a, k
      <2>3. SSum(a) = SAdd(SSum(b), a[k + 1])
            BY <1>1, <2>2, SumOfLast
      <2>4. \A i \in 1 .. k : b[i] = s[i][c]
            BY <1>1, <1>2, <2>2
      <2>5. column(s, c) = b
            BY <1>2, <2>4 DEF column
      <2>6. a[k + 1] = P[n][c]
            BY <1>1, <2>2
      <2> HIDE DEF b
      <2>7. QED
            BY <1>4, <1>5, <2>3, <2>5, <2>6 DEF a
<1> DEFINE B == GSum(s)
           C == GSum(P)
           Q == GAdd(GNeg(GAdd(A, B)), GAdd(A, C))
<1>7. B \in Point /\ C \in Point
      BY <1>4, <1>5
<1>8. \A c \in 1 .. Dim : C[c] = SAdd(B[c], P[n][c])
      BY <1>6
<1> HIDE DEF B, C
<1>9. GAdd(A, B) \in Point /\ GAdd(A, C) \in Point /\ GNeg(GAdd(A, B)) \in Point
      BY <1>7, GAddIs, GNegIs
<1>10. Q \in Point
       BY <1>9, GAddIs
<1>11. ASSUME NEW c \in 1 .. Dim PROVE Q[c] = P[n][c]
       <2> DEFINE x == A[c]
                  y == B[c]
                  z == P[n][c]
                  u == SAdd(x, y)
       <2>1. x \in Scalar /\ y \in Scalar /\ z \in Scalar
             BY <1>1, <1>7 DEF Point
       <2>2. GAdd(A, B)[c] = u /\ GAdd(A, C)[c] = SAdd(x, SAdd(y, z))
             BY <1>7, <1>8, SumInCoordinate
       <2>3. GNeg(GAdd(A, B))[c] = SNeg(u)
             BY <1>9, <2>2, NegInCoordinate
       <2>4. Q[c] = SAdd(SNeg(u), SAdd(x, SAdd(y, z)))
             BY <1>9, <2>2, <2>3, SumInCoordinate
       <2> HIDE DEF x, y, z, Q
       <2>5. SAdd(x, SAdd(y, z)) = SAdd(u, z) /\ u \in Scalar /\ SNeg(u) \in Scalar
             <3>1. u \in Scalar
                   BY <2>1, RingLaws
             <3>2. SAdd(SAdd(x, y), z) = SAdd(x, SAdd(y, z))
                   BY <2>1, SAddAssociates
             <3> HIDE DEF u
             <3>3. SNeg(u) \in Scalar
                   BY <3>1, RingLaws
             <3>4. QED
                   BY <3>1, <3>2, <3>3 DEF u
       <2> HIDE DEF u
       <2>6. SAdd(SNeg(u), SAdd(u, z)) = SAdd(SAdd(SNeg(u), u), z)
             BY <2>1, <2>5, SAddAssociates
       <2>7. SAdd(SNeg(u), u) = 0 /\ SAdd(0, z) = z
             BY <2>1, <2>5, RingLaws
       <2>8. QED
             BY <2>4, <2>5, <2>6, <2>7 DEF z
<1>12. Q = P[n]
       <2> HIDE DEF Q
       <2>1. QED
             BY <1>1, <1>10, <1>11, SamePoint
<1>13. QED
       BY <1>2, <1>3, <1>12 DEF s, B, C, k

-------------------------------------------------------------------------------
(* What the maker of a range proof does: its steps, one after the other.   *)

\* The header, the digits, the draws, the secrets, the first points, those that
\* are sent, the nonces, the rings, what is hashed, the signature, the parameters
\* and the proof.
rangeHeader(q) == [exp |-> q.exp, mantissa |-> q.mantissa, min |-> q.min]
rangeOwn(q) == Tuple(Len(sizesOf(q.mantissa)), LAMBDA i : digit(q.v, i))
rangeRand(job, q) ==
    rangeproof_genrand(seedOf(job.nonce, rangeCommit(job), rangeGen(job), rangeHeader(q)), sizesOf(q.mantissa),
                       preparedMessage(job.message, sizesOf(q.mantissa), rangeOwn(q), q.v))
rangeSecrets(job, q) ==
    [rangeRand(job, q).sec EXCEPT ![Len(sizesOf(q.mantissa))] = SAdd(@, ScalarOf(job.blind))]
rangeFirsts(job, q) ==
    Tuple(Len(sizesOf(q.mantissa)), LAMBDA i :
       pedersen_ecmult(rangeSecrets(job, q)[i], worth(rangeOwn(q)[i], q.exp, i), rangeGen(job), G))
rangeShown(job, q) == SubSeq(rangeFirsts(job, q), 1, Len(sizesOf(q.mantissa)) - 1)
rangeNonces(job, q) == Tuple(Len(sizesOf(q.mantissa)), LAMBDA i : rangeRand(job, q).s[i][rangeOwn(q)[i] + 1])
rangeRings(job, q) == rangeproof_pub_expand(rangeFirsts(job, q), q.exp, sizesOf(q.mantissa), rangeGen(job))
rangeMessage(job, q) ==
    transcript(rangeCommit(job), rangeGen(job), rangeHeader(q), rangeShown(job, q), job.extra)
rangeSigned(job, q) ==
    borromean_sign(rangeRand(job, q).s, rangeRings(job, q), rangeNonces(job, q), rangeSecrets(job, q), rangeOwn(q),
                   rangeMessage(job, q))
rangeParams(job) == range_proveparams(job.value, job.min, job.exp, job.minBits)
rangeMade(job) ==
    rangeproof_sign(job.plen, rangeCommit(job), job.blind, job.nonce, job.exp, job.minBits, job.min, job.value,
                    job.message, job.extra, rangeGen(job))

\* A proof that was made was made in these steps, and none of them failed.
LEMMA RangeSignIs ==
    ASSUME NEW job, rangeMade(job).ok
    PROVE  LET q == rangeParams(job).v
               sizes == sizesOf(q.mantissa)
               made == rangeMade(job)
           IN /\ ~(job.min > job.value) /\ job.minBits \in 0 .. Word /\ job.exp \in -1 .. MaxExp
              /\ rangeParams(job).ok
              /\ ~(job.plen - headerLen(rangeHeader(q)) < bodyLen(q.npub, Len(sizes)))
              /\ rangeRand(job, q).ok /\ ~Overflow(job.blind)
              /\ rangeSecrets(job, q)[Len(sizes)] # 0
              /\ \A i \in DOMAIN sizes : rangeFirsts(job, q)[i] # Infinity
              /\ rangeSigned(job, q).ok
              /\ made.v.header = rangeHeader(q) /\ made.v.firsts = rangeShown(job, q)
              /\ made.v.e0 = rangeSigned(job, q).v.e0 /\ made.v.s = rangeSigned(job, q).v.s
              /\ made.v.len = headerLen(rangeHeader(q)) + bodyLen(SSum(sizes), Len(sizes))
<1> DEFINE made == rangeMade(job)
           params == rangeParams(job)
           q == params.v
           sizes == sizesOf(q.mantissa)
           call == [plen |-> job.plen, commit |-> rangeCommit(job), blind |-> job.blind, nonce |-> job.nonce,
                    message |-> job.message, extra |-> job.extra, gen |-> rangeGen(job)]
           p == [v |-> q.v, npub |-> q.npub, secidx |-> rangeOwn(q), header |-> rangeHeader(q)]
           rand == rangeRand(job, q)
           sec == rangeSecrets(job, q)
           firsts == rangeFirsts(job, q)
           fore == rangeShown(job, q)
           closed == rangeSigned(job, q)
<1>1. ~Fails.ok
      BY DEF Fails
<1>2. made = IF job.plen < 65 \/ job.min > job.value \/ job.minBits \notin 0 .. Word \/ job.exp \notin -1 .. MaxExp
             THEN Fails ELSE signParams(call, params)
      BY DEF rangeMade, rangeproof_sign, rangeParams
<1>3. made.ok
      OBVIOUS
<1> HIDE DEF made, call
<1>4. /\ ~(job.min > job.value) /\ job.minBits \in 0 .. Word /\ job.exp \in -1 .. MaxExp
      /\ made = signParams(call, params)
      <2> HIDE DEF params
      <2>1. QED
            BY <1>1, <1>2, <1>3
<1>5. /\ call.plen = job.plen /\ call.commit = rangeCommit(job) /\ call.blind = job.blind /\ call.nonce = job.nonce
      /\ call.message = job.message /\ call.extra = job.extra /\ call.gen = rangeGen(job)
      BY DEF call
<1> HIDE DEF params
<1>6. params.ok /\ made = signSizes(call, q, sizes)
      BY <1>1, <1>3, <1>4 DEF signParams
<1>7. made = signDigits(call, p, sizes)
      BY <1>6 DEF signSizes, rangeOwn, rangeHeader
<1>8. p.v = q.v /\ p.npub = q.npub /\ p.secidx = rangeOwn(q) /\ p.header = rangeHeader(q)
      OBVIOUS
<1> HIDE DEF p
<1>9. /\ made = signRandom(call, p, sizes, rand)
      /\ ~(job.plen - headerLen(rangeHeader(q)) < bodyLen(q.npub, Len(sizes)))
      BY <1>1, <1>3, <1>5, <1>7, <1>8 DEF signDigits, rangeRand
<1>10. rand.ok /\ ~Overflow(job.blind) /\ made = signSecrets(call, p, sizes, rand, sec)
       <2>1. sec = [rand.sec EXCEPT ![Len(sizes)] = SAdd(@, ScalarOf(job.blind))]
             BY DEF rangeSecrets
       <2> HIDE DEF rand, sec, sizes
       <2>2. QED
             BY <1>1, <1>3, <1>5, <1>9, <2>1 DEF signRandom
<1>11. sec[Len(sizes)] # 0 /\ made = signPoints(call, p, sizes, rand, sec, firsts)
       <2>1. firsts = Tuple(Len(sizes), LAMBDA i :
                         pedersen_ecmult(sec[i], (p.secidx[i] * powerOf(10, p.header.exp) * powerOf(4, i - 1)) % Order,
                                         call.gen, G))
             BY <1>5, <1>8 DEF rangeFirsts, worth, rangeHeader
       <2> HIDE DEF rand, sec, sizes, firsts
       <2>2. QED
             BY <1>1, <1>3, <1>10, <2>1 DEF signSecrets
<1>12. made = signRings(call, p, sizes, rand, sec, firsts, fore)
       <2>1. fore = SubSeq(firsts, 1, Len(sizes) - 1)
             BY DEF rangeShown
       <2> HIDE DEF rand, sec, sizes, firsts, fore
       <2>2. QED
             BY <1>11, <2>1 DEF signPoints
<1>13. /\ \A i \in DOMAIN sizes : firsts[i] # Infinity
       /\ made = proofOf(rangeHeader(q), sizes, fore, closed)
       <2>1. closed = borromean_sign(rand.s, rangeproof_pub_expand(firsts, p.header.exp, sizes, call.gen),
                                     Tuple(Len(sizes), LAMBDA i : rand.s[i][p.secidx[i] + 1]), sec, p.secidx,
                                     transcript(call.commit, call.gen, p.header, fore, call.extra))
             BY <1>5, <1>8 DEF rangeSigned, rangeRings, rangeNonces, rangeMessage, rangeHeader
       <2> HIDE DEF rand, sec, sizes, firsts, fore, closed
       <2>2. QED
             BY <1>1, <1>3, <1>8, <1>12, <2>1 DEF signRings
<1> DEFINE result == [header |-> rangeHeader(q), firsts |-> fore, e0 |-> closed.v.e0, s |-> closed.v.s,
                      len |-> headerLen(rangeHeader(q)) + bodyLen(SSum(sizes), Len(sizes))]
<1>14. closed.ok /\ made = Gives(result)
       <2> HIDE DEF sizes, fore, closed
       <2>1. QED
             BY <1>1, <1>3, <1>13 DEF proofOf
<1>15. made.v = result
       <2> HIDE DEF result
       <2>1. QED
             BY <1>14 DEF Gives
<1>16. /\ made.v.header = rangeHeader(q) /\ made.v.firsts = fore /\ made.v.e0 = closed.v.e0 /\ made.v.s = closed.v.s
       /\ made.v.len = headerLen(rangeHeader(q)) + bodyLen(SSum(sizes), Len(sizes))
       <2> HIDE DEF sizes, fore, closed
       <2>1. QED
             BY <1>15
<1> HIDE DEF sizes, fore, closed, result, rand, sec, firsts
<1>17. QED
       BY <1>4, <1>6, <1>9, <1>10, <1>11, <1>13, <1>14, <1>16
          DEF made, params, sizes, fore, closed, rand, sec, firsts

\* The numbers of a proof that is asked for, and its generator and commitment.
LEMMA RangeJobTyped ==
    ASSUME NEW job \in RangeJobs
    PROVE  /\ job.value \in 0 .. UMax /\ job.min \in 0 .. UMax /\ job.blind \in Nat /\ job.nonce \in Nat
           /\ job.message \in Seq(Nat) /\ job.extra \in Seq(Nat) /\ job.plen \in Nat
           /\ ForValues(rangeGen(job)) /\ rangeGen(job) \in Point
           /\ ScalarOf(job.blind) \in Scalar /\ job.value \in Scalar
           /\ rangeCommit(job) = GAdd(GMul(job.value, rangeGen(job)), GMul(ScalarOf(job.blind), G))
           /\ rangeCommit(job) \in Point
<1>1. /\ job.value \in 0 .. UMax /\ job.min \in 0 .. UMax /\ job.blind \in Nat /\ job.nonce \in Nat
      /\ job.message \in Seq(Nat) /\ job.extra \in Seq(Nat) /\ job.plen \in Nat /\ job.genBlind \in Nat
      BY RangeJobAssumption DEF UMax
<1>2. ForValues(rangeGen(job)) /\ rangeGen(job) \in Point
      BY <1>1, RangeGenIs DEF ForValues
<1>3. ScalarOf(job.blind) \in Scalar
      <2>1. 0 \in Scalar
            BY RingLaws
      <2>2. QED
            BY <1>1, <2>1, RestCounts DEF ScalarOf
<1>4. job.value \in Scalar
      <2> DEFINE T == powerOf(2, Word)
      <2>1. T \in Nat /\ UMax = T - 1 /\ UMax \in Nat /\ 4 * T < Order /\ Order \in Nat
            BY WordsAre, GroupAssumption
      <2> HIDE DEF T
      <2>2. QED
            BY <1>1, <2>1 DEF Scalar
<1>5. rangeCommit(job) = GAdd(GMul(job.value, rangeGen(job)), GMul(ScalarOf(job.blind), G))
      BY DEF rangeCommit, pedersen_ecmult
<1>6. rangeCommit(job) \in Point
      <2>1. GMul(job.value, rangeGen(job)) \in Point /\ GMul(ScalarOf(job.blind), G) \in Point
            BY <1>2, <1>3, <1>4, GMulIs, MultipleIs
      <2>2. QED
            BY <1>5, <2>1, GAddIs
<1>7. QED
      BY <1>1, <1>2, <1>3, <1>4, <1>5, <1>6

\* What the parameters of the proof say of the value.
LEMMA RangeParamsAre ==
    ASSUME NEW job \in RangeJobs, rangeMade(job).ok
    PROVE  LET q == rangeParams(job).v
           IN /\ SaysOf(q, job.value, job.min) /\ EndsWithWord(q.mantissa, q.exp) /\ q.mantissa \in Nat /\ q.exp \in Nat
              /\ q.v \in Nat /\ q.min \in Nat /\ q.v < powerOf(2, q.mantissa) /\ job.value = q.min + q.v * powerOf(10, q.exp)
              /\ LET info == rangeproof_getheader(rangeHeader(q))
                 IN /\ info.ok /\ info.v.min = q.min
                    /\ job.value \in info.v.min .. info.v.max /\ job.min <= info.v.min
              /\ q.v * powerOf(10, q.exp) \in Nat /\ q.v * powerOf(10, q.exp) <= UMax
<1> DEFINE q == rangeParams(job).v
<1>1. job.value \in 0 .. UMax /\ job.min \in 0 .. UMax /\ UMax \in Nat /\ Word \in Nat /\ MaxExp \in Nat
      BY RangeJobTyped, WordsAre
<1>2. ~(job.min > job.value) /\ job.minBits \in 0 .. Word /\ job.exp \in -1 .. MaxExp /\ rangeParams(job).ok
      BY RangeSignIs
<1>3. job.min <= job.value
      BY <1>1, <1>2
<1>4. SaysOf(q, job.value, job.min)
      BY <1>1, <1>2, <1>3, ParamsSay DEF rangeParams
<1> HIDE DEF q
<1>5. q.mantissa \in 0 .. Word /\ q.exp \in 0 .. MaxExp /\ q.v \in Nat /\ q.min \in Nat /\ q.v < powerOf(2, q.mantissa)
      /\ job.value = q.min + q.v * powerOf(10, q.exp)
      BY <1>4 DEF SaysOf
<1>6. q.mantissa \in Nat /\ q.exp \in Nat
      BY <1>1, <1>5
<1>7. EndsWithWord(q.mantissa, q.exp)
      <2>1. CASE q.mantissa = 0
            BY <1>4, <1>5, <2>1 DEF SaysOf, EndsWithWord
      <2>2. CASE q.mantissa # 0
            <3> DEFINE M == powerOf(2, q.mantissa)
                       p == powerOf(10, q.exp)
                       x == (M - 1) * p
            <3>1. x + q.min <= UMax
                  BY <1>4, <2>2 DEF SaysOf
            <3>2. M \in Nat \ {0} /\ p \in Nat \ {0}
                  <4>1. 2 \in Nat \ {0} /\ 10 \in Nat \ {0}
                        OBVIOUS
                  <4>2. QED
                        BY <1>6, <4>1, PowerTyped
            <3> HIDE DEF M, p
            <3>3. x \in Nat
                  <4>1. M - 1 \in Nat
                        BY <3>2
                  <4>2. QED
                        BY <3>2, <4>1
            <3> HIDE DEF x
            <3>4. x <= UMax
                  BY <1>1, <1>5, <3>1, <3>3
            <3>5. QED
                  BY <1>5, <2>2, <3>4 DEF EndsWithWord, x, M, p
      <2>3. QED
            BY <2>1, <2>2
<1>8. LET info == rangeproof_getheader(rangeHeader(q))
      IN /\ info.ok /\ info.v.min = q.min
         /\ job.value \in info.v.min .. info.v.max /\ job.min <= info.v.min
         /\ q.v * powerOf(10, q.exp) \in Nat /\ q.v * powerOf(10, q.exp) <= job.value
      <2> DEFINE h == rangeHeader(q)
      <2>1. h = [exp |-> q.exp, mantissa |-> q.mantissa, min |-> q.min]
            BY DEF rangeHeader
      <2> HIDE DEF h
      <2>2. LET info == rangeproof_getheader(h)
            IN /\ info.ok /\ info.v.min = q.min
               /\ job.value \in info.v.min .. info.v.max /\ job.min <= info.v.min
               /\ q.v * powerOf(10, q.exp) \in Nat /\ q.v * powerOf(10, q.exp) <= job.value
            BY <1>1, <1>4, <2>1, HeaderIsRead
      <2>3. QED
            BY <2>2 DEF h
<1> DEFINE vp == q.v * powerOf(10, q.exp)
<1>9. vp \in Nat /\ vp <= UMax
      <2>1. vp \in Nat /\ vp <= job.value
            BY <1>8
      <2> HIDE DEF vp
      <2>2. QED
            BY <1>1, <2>1
<1>10. QED
       BY <1>4, <1>5, <1>6, <1>7, <1>8, <1>9 DEF q

\* What is put into the slots is a number.
LEMMA RangeTextsAre ==
    ASSUME NEW m \in Nat, NEW message \in Seq(Nat), NEW secidx, NEW v \in Nat
    PROVE  Texts(preparedMessage(message, sizesOf(m), secidx, v), ringsOf(m), sizesOf(m))
<1> DEFINE n == ringsOf(m)
           sizes == sizesOf(m)
           last == sizes[n]
           home == IF secidx[n] = last - 1 THEN last - 1 ELSE last
           at(i, j) == (i - 1) * 4 + j
           text(i, j) == IF i = n /\ last > 1 /\ j = home THEN slotOf(v)
                         ELSE IF i < n /\ at(i, j) <= Len(message) THEN message[at(i, j)] ELSE 0
           row(i) == [j \in 1 .. sizes[i] |-> text(i, j)]
           rows == [i \in 1 .. n |-> SubSeq(row(i), 1, sizes[i])]
<1>1. n \in Nat \ {0} /\ Len(sizes) = n /\ \A i \in 1 .. n : sizes[i] \in Nat
      <2>1. n \in Nat \ {0} /\ Len(sizes) = n /\ sizes \in Seq({1, 2, 4})
            BY RingSizesAre
      <2> HIDE DEF n, sizes
      <2>2. QED
            BY <2>1
<1>2. preparedMessage(message, sizes, secidx, v) = SubSeq(rows, 1, n)
      BY <1>1 DEF preparedMessage, Tuple
<1>3. slotOf(v) \in Nat
      <2> DEFINE c == powerOf(2, Word + 1)
      <2>1. Width \in Nat /\ c \in Nat \ {0}
            <3>1. Word + 1 \in Nat
                  BY WordsAre
            <3>2. QED
                  BY <3>1, GroupAssumption, PowerTyped
      <2> HIDE DEF c
      <2>2. Width \div c \in Nat /\ Width \div 2 \in Nat
            BY <2>1, QuotientIs
      <2> DEFINE y == Width \div c
                 z == Width \div 2
      <2>3. slotOf(v) = z + y * v
            BY DEF slotOf, sparse, c
      <2>4. y \in Nat /\ z \in Nat
            BY <2>2
      <2> HIDE DEF y, z
      <2>5. QED
            BY <2>3, <2>4
<1>4. ASSUME NEW i \in 1 .. n, NEW j \in 1 .. sizes[i] PROVE text(i, j) \in Nat
      <2> HIDE DEF sizes, n, last, home
      <2>1. i \in Nat /\ j \in Nat /\ at(i, j) \in Nat /\ at(i, j) > 0
            BY <1>1
      <2> HIDE DEF at
      <2>2. at(i, j) <= Len(message) => message[at(i, j)] \in Nat
            <3>1. SUFFICES ASSUME at(i, j) <= Len(message) PROVE message[at(i, j)] \in Nat
                  OBVIOUS
            <3>2. at(i, j) \in 1 .. Len(message)
                  BY <2>1, <3>1
            <3>3. QED
                  BY <3>2
      <2>3. QED
            BY <1>3, <2>2
<1> HIDE DEF text
<1>5. \A i \in 1 .. n : /\ sizes[i] \in Nat /\ row(i) = [j \in 1 .. sizes[i] |-> row(i)[j]]
                        /\ \A j \in 1 .. sizes[i] : row(i)[j] \in Nat
      BY <1>1, <1>4
<1> HIDE DEF row
<1>6. \A i \in 1 .. n : SubSeq(row(i), 1, sizes[i]) = row(i)
      BY <1>5, TupleIs
<1>7. rows = [i \in 1 .. n |-> rows[i]] /\ \A i \in 1 .. n : rows[i] = row(i)
      BY <1>6
<1> HIDE DEF rows
<1>8. SubSeq(rows, 1, n) = rows
      BY <1>1, <1>7, TupleIs
<1>9. QED
      BY <1>2, <1>5, <1>7, <1>8 DEF Texts

\* The seed and the message are hashes of numbers.
LEMMA RangeHashedTyped ==
    ASSUME RangeHashesAreBytes, NEW nonce \in Nat, NEW commit \in Point, NEW gen \in Point,
           NEW header, header.exp \in Nat, header.mantissa \in Nat, header.min \in Nat,
           NEW firsts \in Seq(Point), NEW extra \in Seq(Nat)
    PROVE  seedOf(nonce, commit, gen, header) \in Seq(Nat) /\ transcript(commit, gen, header, firsts, extra) \in Nat
<1> DEFINE tail == <<header.exp, header.mantissa, header.min>>
           k == Len(firsts)
<1>1. commit \in Seq(Nat) /\ gen \in Seq(Nat) /\ tail \in Seq(Nat) /\ <<nonce>> \in Seq(Nat) /\ k \in Nat
      BY PointIsTuple
<1>2. \A i \in 1 .. k : firsts[i] \in Seq(Nat)
      <2>1. \A i \in 1 .. k : firsts[i] \in Point
            OBVIOUS
      <2>2. QED
            BY <2>1, PointIsTuple
<1>3. joined(k, firsts) \in Seq(Nat)
      BY <1>1, <1>2, FlatTyped
<1>4. seedOf(nonce, commit, gen, header) = <<nonce>> \o commit \o gen \o tail
      BY DEF seedOf
<1>5. transcript(commit, gen, header, firsts, extra) = RangeHash(commit \o gen \o tail \o joined(k, firsts) \o extra)
      BY DEF transcript, joined
<1> HIDE DEF tail, k
<1>6. <<nonce>> \o commit \o gen \o tail \in Seq(Nat)
      BY <1>1
<1>7. commit \o gen \o tail \o joined(k, firsts) \o extra \in Seq(Nat)
      <2> DEFINE j == joined(k, firsts)
      <2>1. j \in Seq(Nat)
            BY <1>3
      <2> HIDE DEF j
      <2>2. commit \o gen \o tail \in Seq(Nat)
            BY <1>1
      <2>3. (commit \o gen \o tail) \o j \in Seq(Nat)
            BY <2>1, <2>2
      <2>4. ((commit \o gen \o tail) \o j) \o extra \in Seq(Nat)
            BY <2>3
      <2>5. QED
            BY <2>4 DEF j
<1>8. transcript(commit, gen, header, firsts, extra) \in Nat
      BY <1>5, <1>7, BytesMakeScalars DEF RangeHashesAreBytes
<1>9. QED
      BY <1>4, <1>6, <1>8

\* The digits, the secrets, the nonces and the first points of a proof that was made.
RangePieces(job, q, n, sizes) ==
    LET own == rangeOwn(q)
        rand == rangeRand(job, q)
        sec == rangeSecrets(job, q)
        firsts == rangeFirsts(job, q)
    IN /\ n = ringsOf(q.mantissa) /\ sizes = sizesOf(q.mantissa)
       /\ n \in Nat \ {0} /\ Len(sizes) = n /\ \A i \in 1 .. n : sizes[i] \in {1, 2, 4}
       /\ \A i \in 1 .. n : /\ own[i] = digit(q.v, i) /\ own[i] \in 0 .. sizes[i] - 1 /\ own[i] \in 0 .. 3
                            /\ rand.s[i] \in Scalars(sizes[i]) /\ \A j \in 1 .. sizes[i] : rand.s[i][j] # 0
                            /\ rangeNonces(job, q)[i] = rand.s[i][own[i] + 1]
       /\ sec \in Scalars(n) /\ SSum(sec) = ScalarOf(job.blind) /\ \A i \in 1 .. n : sec[i] \in Scalar /\ sec[i] # 0
       /\ firsts \in Points(n)
       /\ firsts = [i \in 1 .. n |-> GAdd(GMul(worth(digit(q.v, i), q.exp, i), rangeGen(job)), GMul(sec[i], G))]

\* They are what the rings need: each digit in its ring, the secrets adding up
\* to the blinding factor.
LEMMA RangePiecesAre ==
    ASSUME RangeHashesAreBytes, RangeSecretsAreDrawn, NEW job \in RangeJobs, rangeMade(job).ok
    PROVE  LET q == rangeParams(job).v IN RangePieces(job, q, ringsOf(q.mantissa), sizesOf(q.mantissa))
<1> DEFINE q == rangeParams(job).v
           m == q.mantissa
           e == q.exp
           n == ringsOf(m)
           sizes == sizesOf(m)
           own == rangeOwn(q)
           rand == rangeRand(job, q)
           sec == rangeSecrets(job, q)
           firsts == rangeFirsts(job, q)
           gen == rangeGen(job)
           digits == [i \in 1 .. n |-> digit(q.v, i)]
           text == preparedMessage(job.message, sizes, own, q.v)
           seed == seedOf(job.nonce, rangeCommit(job), gen, rangeHeader(q))
<1>1. /\ m \in Nat /\ e \in Nat /\ q.v \in Nat /\ q.min \in Nat /\ q.v < powerOf(2, m) /\ EndsWithWord(m, e)
      BY RangeParamsAre
<1>2. /\ n \in Nat \ {0} /\ Len(sizes) = n /\ \A i \in 1 .. n : sizes[i] \in {1, 2, 4} /\ sizes[i] \in Nat
      <2>1. n \in Nat \ {0} /\ Len(sizes) = n /\ sizes \in Seq({1, 2, 4})
            BY <1>1, RingSizesAre
      <2> HIDE DEF n, sizes
      <2>2. QED
            BY <2>1
<1>3. job.blind \in Nat /\ job.nonce \in Nat /\ job.message \in Seq(Nat) /\ gen \in Point /\ ForValues(gen)
      /\ rangeCommit(job) \in Point /\ ScalarOf(job.blind) \in Scalar
      BY RangeJobTyped
<1>4. rand.ok /\ sec[Len(sizes)] # 0
      BY RangeSignIs
<1>5. rand = rangeproof_genrand(seed, sizes, text)
      BY DEF rangeRand
<1>6. seed \in Seq(Nat)
      <2> DEFINE h == rangeHeader(q)
      <2>1. h.exp \in Nat /\ h.mantissa \in Nat /\ h.min \in Nat
            BY <1>1 DEF rangeHeader
      <2>2. <<>> \in Seq(Point) /\ <<>> \in Seq(Nat)
            OBVIOUS
      <2> HIDE DEF h
      <2>3. seedOf(job.nonce, rangeCommit(job), gen, h) \in Seq(Nat)
            BY <1>3, <2>1, <2>2, RangeHashedTyped
      <2>4. QED
            BY <2>3 DEF h
<1>7. Texts(text, n, sizes)
      BY <1>1, <1>3, RangeTextsAre
<1> HIDE DEF seed, text
<1>8. /\ rand.sec \in Scalars(n) /\ SSum(rand.sec) = 0
      /\ \A i \in 1 .. n - 1 : rand.sec[i] # 0
      /\ \A i \in 1 .. n : rand.s[i] \in Scalars(sizes[i])
      /\ rand.ok => \A i \in 1 .. n : \A j \in 1 .. sizes[i] : rand.s[i][j] # 0
      <2> DEFINE r == rangeproof_genrand(seed, sizes, text)
      <2>0. n \in Nat \ {0} /\ Len(sizes) = n /\ \A i \in 1 .. n : sizes[i] \in Nat
            BY <1>2
      <2> HIDE DEF sizes, n
      <2>1. Drawn(rangeproof_genrand(seed, sizes, text), n, sizes)
            BY <1>6, <1>7, <2>0, RangeRandIs
      <2> HIDE DEF r, rand
      <2>2. r = rand
            BY <1>5 DEF r
      <2>3. QED
            BY <2>1, <2>2 DEF Drawn, r
<1>9. sec \in Scalars(n) /\ SSum(sec) = ScalarOf(job.blind) /\ \A i \in 1 .. n : sec[i] \in Scalar /\ sec[i] # 0
      <2> DEFINE b == ScalarOf(job.blind)
                 r == rand.sec
                 t == [r EXCEPT ![n] = SAdd(@, b)]
      <2>1. sec = t
            BY <1>2 DEF rangeSecrets
      <2> HIDE DEF sec, r, b, n
      <2>2. t \in Scalars(n) /\ SSum(t) = b /\ \A i \in 1 .. n - 1 : t[i] = r[i]
            BY <1>2, <1>3, <1>8, LastAdded DEF b, r
      <2>3. \A i \in 1 .. n - 1 : t[i] # 0
            BY <1>8, <2>2 DEF r
      <2>4. t[n] # 0
            BY <1>2, <1>4, <2>1
      <2> HIDE DEF t
      <2>5. \A i \in 1 .. n : t[i] \in Scalar /\ t[i] # 0
            <3>1. \A i \in 1 .. n : i \in 1 .. n - 1 \/ i = n
                  BY <1>2
            <3>2. \A i \in 1 .. n : t[i] \in Scalar
                  BY <2>2 DEF Scalars
            <3>3. QED
                  BY <2>3, <2>4, <3>1, <3>2
      <2>6. QED
            BY <2>1, <2>2, <2>5 DEF b
<1>10. own = digits /\ \A i \in 1 .. n : own[i] = digit(q.v, i)
       <2>1. own = SubSeq(digits, 1, n)
             BY <1>2 DEF rangeOwn, Tuple
       <2>2. digits = [i \in 1 .. n |-> digits[i]] /\ \A i \in 1 .. n : digits[i] = digit(q.v, i)
             OBVIOUS
       <2> HIDE DEF digits, own
       <2>3. QED
             BY <1>2, <2>1, <2>2, TupleIs
<1>11. \A i \in 1 .. n : own[i] \in 0 .. sizes[i] - 1 /\ own[i] \in 0 .. 3
       <2>1. \A i \in 1 .. n : digit(q.v, i) \in 0 .. sizes[i] - 1
             BY <1>1, RangeDigitsFit
       <2>2. \A i \in 1 .. n : i \in Nat \ {0}
             BY <1>2
       <2>3. \A i \in 1 .. n : digit(q.v, i) \in 0 .. 3
             BY <1>1, <2>2, DigitStep
       <2> HIDE DEF own, sizes
       <2>4. QED
             BY <1>10, <2>1, <2>3 DEF sizes
<1> DEFINE k == [i \in 1 .. n |-> rand.s[i][own[i] + 1]]
<1>12. \A i \in 1 .. n : rangeNonces(job, q)[i] = rand.s[i][own[i] + 1]
       <2>1. rangeNonces(job, q) = SubSeq(k, 1, n)
             BY <1>2 DEF rangeNonces, Tuple
       <2>2. k = [i \in 1 .. n |-> k[i]] /\ \A i \in 1 .. n : k[i] = rand.s[i][own[i] + 1]
             OBVIOUS
       <2> HIDE DEF k, rand, own
       <2>3. SubSeq(k, 1, n) = k
             BY <1>2, <2>2, TupleIs
       <2>4. QED
             BY <2>1, <2>2, <2>3
<1> DEFINE f == [i \in 1 .. n |-> GAdd(GMul(worth(own[i], e, i), gen), GMul(sec[i], G))]
           g == [i \in 1 .. n |-> GAdd(GMul(worth(digit(q.v, i), e, i), gen), GMul(sec[i], G))]
           w == [i \in 1 .. n |-> worth(digit(q.v, i), e, i)]
<1>13. firsts = g
       <2>1. firsts = SubSeq(f, 1, n)
             BY <1>2 DEF rangeFirsts, Tuple, pedersen_ecmult
       <2>2. f = g
             <3> HIDE DEF own, sec
             <3>1. \A i \in 1 .. n : worth(own[i], e, i) = worth(digit(q.v, i), e, i)
                   BY <1>10
             <3>2. QED
                   BY <3>1
       <2>3. g = [i \in 1 .. n |-> g[i]]
             OBVIOUS
       <2> HIDE DEF f, g, firsts
       <2>4. QED
             BY <1>2, <2>1, <2>2, <2>3, TupleIs
<1>14. w \in Scalars(n)
       <2>1. \A i \in 1 .. n : worth(digit(q.v, i), e, i) \in Scalar
             BY <1>1, <1>10, <1>11, WorthIs
       <2>2. QED
             BY <2>1 DEF Scalars
<1>15. g \in Points(n)
       <2>1. g = [i \in 1 .. n |-> GAdd(GMul(w[i], gen), GMul(sec[i], G))]
             OBVIOUS
       <2>2. n \in Nat
             BY <1>2
       <2> HIDE DEF g, w, sec, n, gen
       <2>3. QED
             BY <1>3, <1>9, <1>14, <2>1, <2>2, FirstsAddUp
<1> HIDE DEF n, sizes, own, rand, sec, firsts, k, f, w
<1>16. /\ n = ringsOf(q.mantissa) /\ sizes = sizesOf(q.mantissa)
       BY DEF n, sizes
<1>17. firsts \in Points(n)
       BY <1>13, <1>15
<1>18. \A i \in 1 .. n : /\ own[i] = digit(q.v, i) /\ own[i] \in 0 .. sizes[i] - 1 /\ own[i] \in 0 .. 3
                         /\ rand.s[i] \in Scalars(sizes[i]) /\ \A j \in 1 .. sizes[i] : rand.s[i][j] # 0
                         /\ rangeNonces(job, q)[i] = rand.s[i][own[i] + 1]
       BY <1>4, <1>8, <1>10, <1>11, <1>12
<1>19. RangePieces(job, q, n, sizes)
       BY <1>2, <1>9, <1>13, <1>16, <1>17, <1>18 DEF RangePieces, own, rand, sec, firsts
<1>20. QED
       BY <1>19 DEF n, sizes

\* Every ring is signed with the secret of the digit's own place.
LEMMA RangeRingsSigned ==
    ASSUME RangeHashesAreBytes, RangeSecretsAreDrawn, NEW job \in RangeJobs, rangeMade(job).ok
    PROVE  LET q == rangeParams(job).v
               n == ringsOf(q.mantissa)
               pubs == rangeRings(job, q)
           IN /\ Signing(n, rangeRand(job, q).s, pubs, rangeNonces(job, q), rangeSecrets(job, q), rangeOwn(q),
                         rangeMessage(job, q))
              /\ pubs[n][1] # Infinity /\ Len(pubs) = n
<1> DEFINE q == rangeParams(job).v
           m == q.mantissa
           e == q.exp
           n == ringsOf(m)
           sizes == sizesOf(m)
           own == rangeOwn(q)
           rand == rangeRand(job, q)
           sec == rangeSecrets(job, q)
           firsts == rangeFirsts(job, q)
           gen == rangeGen(job)
           pubs == rangeRings(job, q)
           k == rangeNonces(job, q)
           msg == rangeMessage(job, q)
<1>1. /\ m \in Nat /\ e \in Nat /\ q.v \in Nat /\ q.min \in Nat /\ EndsWithWord(m, e)
      BY RangeParamsAre
<1>2. RangePieces(job, q, n, sizes)
      BY RangePiecesAre
<1>3. /\ n \in Nat \ {0} /\ Len(sizes) = n /\ \A i \in 1 .. n : sizes[i] \in {1, 2, 4}
      /\ \A i \in 1 .. n : /\ own[i] = digit(q.v, i) /\ own[i] \in 0 .. sizes[i] - 1 /\ own[i] \in 0 .. 3
                           /\ rand.s[i] \in Scalars(sizes[i]) /\ \A j \in 1 .. sizes[i] : rand.s[i][j] # 0
                           /\ k[i] = rand.s[i][own[i] + 1]
      /\ sec \in Scalars(n) /\ \A i \in 1 .. n : sec[i] \in Scalar /\ sec[i] # 0
      /\ firsts \in Points(n)
      /\ firsts = [i \in 1 .. n |-> GAdd(GMul(worth(digit(q.v, i), e, i), gen), GMul(sec[i], G))]
      BY <1>2 DEF RangePieces
<1>4. gen \in Point /\ ForValues(gen) /\ rangeCommit(job) \in Point /\ job.extra \in Seq(Nat) /\ job.nonce \in Nat
      BY RangeJobTyped
<1>5. /\ Len(pubs) = n /\ DOMAIN pubs = 1 .. n
      /\ \A i \in 1 .. n :
            /\ Len(pubs[i]) = sizes[i] /\ pubs[i] \in Points(sizes[i])
            /\ \A j \in 1 .. sizes[i] : pubs[i][j] = GAdd(firsts[i], GNeg(GMul(worth(j - 1, e, i), gen)))
      <2>1. pubs = rangeproof_pub_expand(firsts, e, sizes, gen)
            BY DEF rangeRings
      <2>2. firsts \in Points(ringsOf(m)) /\ gen \in Point
            BY <1>3, <1>4
      <2> DEFINE r == rangeproof_pub_expand(firsts, e, sizes, gen)
      <2> HIDE DEF pubs, firsts, gen, m, e
      <2>3. CountDown(r, n, sizes, e, firsts, gen)
            <3>1. EndsWithWord(m, e)
                  BY <1>1
            <3>2. QED
                  BY <2>2, <3>1, RangePubsAre, Zenon
      <2> HIDE DEF r
      <2>4. pubs = r
            BY <2>1 DEF r
      <2> HIDE DEF n, sizes
      <2>5. QED
            BY <2>3, <2>4 DEF CountDown
<1>6. msg \in Nat
      <2> DEFINE h == rangeHeader(q)
                 fore == rangeShown(job, q)
      <2>1. h.exp \in Nat /\ h.mantissa \in Nat /\ h.min \in Nat
            BY <1>1 DEF rangeHeader
      <2>2. fore = SubSeq(firsts, 1, n - 1)
            BY <1>3 DEF rangeShown
      <2>3. firsts \in Seq(Point) /\ Len(firsts) = n
            BY <1>3, PointsAreSequence
      <2>4. fore \in Seq(Point)
            <3> HIDE DEF fore, firsts, n
            <3>1. QED
                  BY <1>3, <2>2, <2>3
      <2>5. msg = transcript(rangeCommit(job), gen, h, fore, job.extra)
            BY DEF rangeMessage
      <2> HIDE DEF h, fore, msg, gen
      <2>6. QED
            BY <1>4, <2>1, <2>4, <2>5, RangeHashedTyped
<1>7. ASSUME NEW i \in 1 .. n
      PROVE  /\ own[i] + 1 \in 1 .. sizes[i] /\ sizes[i] \in Nat /\ own[i] \in Nat
             /\ k[i] \in Scalar
             /\ pubs[i][own[i] + 1] = GMul(sec[i], G)
             /\ \A j \in 1 .. sizes[i] : pubs[i][j] # Infinity
      <2>1. own[i] + 1 \in 1 .. sizes[i] /\ sizes[i] \in Nat /\ own[i] \in Nat /\ sizes[i] <= 4
            <3>1. sizes[i] \in {1, 2, 4} /\ own[i] \in 0 .. sizes[i] - 1
                  BY <1>3
            <3> HIDE DEF sizes, own
            <3>2. QED
                  BY <3>1
      <2>2. k[i] \in Scalar
            <3>1. rand.s[i] \in Scalars(sizes[i]) /\ k[i] = rand.s[i][own[i] + 1]
                  BY <1>3
            <3> HIDE DEF sizes, own, k, rand
            <3>2. QED
                  BY <2>1, <3>1 DEF Scalars
      <2>3. ASSUME NEW j \in 1 .. sizes[i]
            PROVE  /\ j - 1 = own[i] => pubs[i][j] = GMul(sec[i], G)
                   /\ j - 1 # own[i] => pubs[i][j] # Infinity
            <3> DEFINE c == worth(own[i], e, i)
                       d == worth(j - 1, e, i)
                       x == sec[i]
            <3>1. j - 1 \in 0 .. 3 /\ own[i] \in 0 .. 3
                  <4>1. own[i] \in 0 .. 3
                        BY <1>3
                  <4> HIDE DEF sizes, own
                  <4>2. QED
                        BY <2>1, <4>1
            <3>2. c \in Scalar /\ d \in Scalar /\ (j - 1 # own[i] => c # d) /\ (j - 1 = own[i] => c = d)
                  <4>1. c \in Scalar /\ d \in Scalar
                        BY <1>1, <3>1, WorthIs
                  <4>2. j - 1 # own[i] => c # d
                        BY <1>1, <3>1, WorthIs
                  <4>3. j - 1 = own[i] => c = d
                        OBVIOUS
                  <4>4. QED
                        BY <4>1, <4>2, <4>3
            <3>3. x \in Scalar
                  BY <1>3
            <3>4. firsts[i] = GAdd(GMul(c, gen), GMul(x, G))
                  <4> HIDE DEF firsts, own, sec, n
                  <4>1. firsts[i] = GAdd(GMul(worth(digit(q.v, i), e, i), gen), GMul(sec[i], G))
                        BY <1>3
                  <4>2. QED
                        BY <1>3, <4>1
            <3>5. pubs[i][j] = GAdd(firsts[i], GNeg(GMul(d, gen)))
                  BY <1>5
            <3> HIDE DEF c, d, x, pubs, firsts, gen, own
            <3>6. /\ c = d => pubs[i][j] = GMul(x, G)
                  /\ c # d => pubs[i][j] # Infinity
                  BY <1>4, <3>2, <3>3, <3>4, <3>5, RingPointIs
            <3>7. QED
                  BY <3>2, <3>6 DEF x
      <2>4. pubs[i][own[i] + 1] = GMul(sec[i], G)
            <3> DEFINE j == own[i] + 1
            <3>1. j \in 1 .. sizes[i] /\ j - 1 = own[i]
                  BY <2>1
            <3> HIDE DEF j
            <3>2. pubs[i][j] = GMul(sec[i], G)
                  BY <2>3, <3>1
            <3>3. QED
                  BY <3>2 DEF j
      <2>5. GMul(sec[i], G) # Infinity
            <3> DEFINE x == sec[i]
            <3>1. x \in Scalar /\ x # 0
                  BY <1>3
            <3> HIDE DEF x
            <3>2. GMul(x, G)[1] = x
                  BY <3>1, MultiplesAdd
            <3>3. 1 \in 1 .. Dim
                  BY GroupAssumption
            <3>4. Infinity[1] = 0
                  BY <3>3, InfinityIs
            <3>5. GMul(x, G) # Infinity
                  BY <3>1, <3>2, <3>4
            <3>6. QED
                  BY <3>5 DEF x
      <2>6. \A j \in 1 .. sizes[i] : pubs[i][j] # Infinity
            <3>1. SUFFICES ASSUME NEW j \in 1 .. sizes[i] PROVE pubs[i][j] # Infinity
                  OBVIOUS
            <3> HIDE DEF pubs, sec, own, sizes
            <3>2. QED
                  BY <2>3, <2>5
      <2>7. QED
            BY <2>1, <2>2, <2>4, <2>6
<1> HIDE DEF n, sizes, own, rand, sec, firsts, gen, pubs, k, msg
<1>8. Signing(n, rand.s, pubs, k, sec, own, msg)
      <2>1. n \in Nat
            BY <1>3
      <2>2. ASSUME NEW i \in 1 .. n
            PROVE  /\ Len(pubs[i]) \in Nat /\ pubs[i] \in Points(Len(pubs[i])) /\ rand.s[i] \in Scalars(Len(pubs[i]))
                   /\ own[i] \in Nat /\ own[i] + 1 \in 1 .. Len(pubs[i])
                   /\ k[i] \in Scalar /\ sec[i] \in Scalar /\ pubs[i][own[i] + 1] = GMul(sec[i], G)
                   /\ \A j \in 1 .. Len(pubs[i]) : pubs[i][j] # Infinity /\ (j # own[i] + 1 => rand.s[i][j] # 0)
            <3>1. Len(pubs[i]) = sizes[i] /\ pubs[i] \in Points(sizes[i])
                  BY <1>5
            <3>2. rand.s[i] \in Scalars(sizes[i]) /\ \A j \in 1 .. sizes[i] : rand.s[i][j] # 0
                  BY <1>3
            <3>3. sec[i] \in Scalar
                  BY <1>3
            <3>4. QED
                  BY <1>7, <3>1, <3>2, <3>3
      <2>3. QED
            BY <1>5, <1>6, <2>1, <2>2 DEF Signing
<1>9. pubs[n][1] # Infinity
      <2>1. n \in 1 .. n
            BY <1>3
      <2>2. 1 \in 1 .. sizes[n]
            <3>1. sizes[n] \in {1, 2, 4}
                  BY <1>3, <2>1
            <3>2. QED
                  BY <3>1
      <2>3. QED
            BY <1>7, <2>1, <2>2
<1>10. QED
       BY <1>5, <1>8, <1>9 DEF n, rand, pubs, k, sec, own, msg

\* The verifier makes the same rings from the commitment.
LEMMA RangeRingsAgree ==
    ASSUME RangeHashesAreBytes, RangeSecretsAreDrawn, NEW job \in RangeJobs, rangeMade(job).ok
    PROVE  LET q == rangeParams(job).v
           IN provenRings(rangeMade(job).v, q.min, rangeCommit(job), rangeGen(job)) = rangeRings(job, q)
<1> DEFINE q == rangeParams(job).v
           m == q.mantissa
           e == q.exp
           n == ringsOf(m)
           sizes == sizesOf(m)
           sec == rangeSecrets(job, q)
           firsts == rangeFirsts(job, q)
           gen == rangeGen(job)
           commit == rangeCommit(job)
           proof == rangeMade(job).v
           p == powerOf(10, e)
           vp == q.v * p
           b == ScalarOf(job.blind)
           w == [i \in 1 .. n |-> worth(digit(q.v, i), e, i)]
           A == GMul(q.min % Order, gen)
           s == SubSeq(firsts, 1, n - 1)
<1>1. /\ m \in Nat /\ e \in Nat /\ q.v \in Nat /\ q.min \in Nat /\ EndsWithWord(m, e) /\ q.v < powerOf(2, m)
      /\ job.value = q.min + vp /\ vp \in Nat /\ vp <= UMax
      BY RangeParamsAre
<1>2. RangePieces(job, q, n, sizes)
      BY RangePiecesAre
<1>3. /\ n \in Nat \ {0} /\ Len(sizes) = n
      /\ sec \in Scalars(n) /\ SSum(sec) = b
      /\ firsts \in Points(n)
      /\ firsts = [i \in 1 .. n |-> GAdd(GMul(worth(digit(q.v, i), e, i), gen), GMul(sec[i], G))]
      BY <1>2 DEF RangePieces
<1>4. gen \in Point /\ commit \in Point /\ b \in Scalar /\ job.value \in Scalar
      /\ commit = GAdd(GMul(job.value, gen), GMul(b, G))
      BY RangeJobTyped
<1>5. w \in Scalars(n) /\ SSum(w) = vp /\ vp \in Scalar
      BY <1>1, DigitsAddUp
<1>6. proof.firsts = s /\ proof.header = rangeHeader(q)
      <2>1. proof.firsts = rangeShown(job, q) /\ proof.header = rangeHeader(q)
            BY RangeSignIs
      <2>2. rangeShown(job, q) = s
            BY <1>3 DEF rangeShown
      <2>3. QED
            BY <2>1, <2>2
<1>7. proof.header.exp = e /\ proof.header.mantissa = m
      BY <1>6 DEF rangeHeader
<1>8. GSum(firsts) = GAdd(GMul(vp, gen), GMul(b, G)) /\ GSum(firsts) \in Point
      <2>1. n \in Nat
            BY <1>3
      <2>2. firsts = [i \in 1 .. n |-> GAdd(GMul(w[i], gen), GMul(sec[i], G))]
            <3> HIDE DEF firsts, sec
            <3>1. QED
                  BY <1>3
      <2> HIDE DEF firsts, w, sec, n, gen, vp, b
      <2>3. GSum(firsts) = GAdd(GMul(SSum(w), gen), GMul(SSum(sec), G)) /\ GSum(firsts) \in Point
            BY <1>3, <1>4, <1>5, <2>1, <2>2, FirstsAddUp
      <2>4. QED
            BY <1>3, <1>5, <2>3
<1>9. q.min % Order = q.min /\ q.min \in Scalar
      <2> DEFINE x == q.min
      <2>1. job.value = x + vp /\ x \in Nat /\ vp \in Nat /\ job.value \in Scalar
            BY <1>1, <1>4
      <2> HIDE DEF x, vp
      <2>2. x \in Scalar
            BY <2>1, GroupAssumption DEF Scalar
      <2>3. x % Order = x
            BY <2>2, ScalarOfScalar
      <2>4. QED
            BY <2>2, <2>3 DEF x
<1>10. A \in Point
       BY <1>4, <1>9, GMulIs
<1>11. commit = GAdd(A, GSum(firsts))
       <2> DEFINE x == q.min
                  V == GMul(vp, gen)
                  B == GMul(b, G)
                  W == GMul(job.value, gen)
       <2>1. V \in Point /\ B \in Point /\ W \in Point
             BY <1>4, <1>5, GMulIs, MultipleIs
       <2>2. SAdd(x, vp) = job.value
             <3>1. x \in Scalar /\ vp \in Scalar /\ job.value \in Scalar /\ job.value = x + vp
                   BY <1>1, <1>4, <1>5, <1>9
             <3> HIDE DEF x, vp
             <3>2. job.value < Order
                   BY <3>1, GroupAssumption DEF Scalar
             <3>3. QED
                   BY <3>1, <3>2, SAddIs
       <2>3. A = GMul(x, gen)
             BY <1>9
       <2> HIDE DEF x, vp, b, A, gen, firsts, commit
       <2>4. commit = GAdd(W, B) /\ GSum(firsts) = GAdd(V, B) /\ GAdd(V, B) \in Point /\ GAdd(W, B) \in Point
             BY <1>4, <1>8, <2>1, GAddIs
       <2>5. GAdd(A, GAdd(V, B)) \in Point
             BY <1>10, <2>4, GAddIs
       <2>6. ASSUME NEW c \in 1 .. Dim PROVE GAdd(A, GAdd(V, B))[c] = GAdd(W, B)[c]
             <3> DEFINE g == gen[c]
                        y == SMul(x, g)
                        z == SMul(vp, g)
                        u == B[c]
             <3>1. g \in Scalar /\ A[c] = y /\ V[c] = z /\ W[c] = SMul(job.value, g) /\ x \in Scalar /\ vp \in Scalar
                   BY <1>4, <1>5, <1>9, <2>3, MulInCoordinate DEF x
             <3>2. u \in Scalar
                   BY <2>1 DEF Point
             <3> HIDE DEF g
             <3>3. SMul(job.value, g) = SAdd(y, z) /\ y \in Scalar /\ z \in Scalar
                   <4>1. SMul(SAdd(x, vp), g) = SAdd(SMul(x, g), SMul(vp, g))
                         BY <3>1, RingLaws
                   <4>2. y \in Scalar /\ z \in Scalar
                         BY <3>1, RingLaws
                   <4>3. QED
                         BY <2>2, <4>1, <4>2
             <3> HIDE DEF V, B, W, u, y, z
             <3>4. GAdd(V, B)[c] = SAdd(z, u) /\ GAdd(W, B)[c] = SAdd(SAdd(y, z), u)
                   BY <2>1, <3>1, <3>3, SumInCoordinate DEF u
             <3>5. GAdd(A, GAdd(V, B))[c] = SAdd(y, SAdd(z, u))
                   BY <1>10, <2>4, <3>1, <3>4, SumInCoordinate
             <3>6. SAdd(SAdd(y, z), u) = SAdd(y, SAdd(z, u))
                   BY <3>2, <3>3, SAddAssociates
             <3>7. QED
                   BY <3>4, <3>5, <3>6
       <2> HIDE DEF V, B, W
       <2>7. GAdd(A, GAdd(V, B)) = GAdd(W, B)
             BY <2>4, <2>5, <2>6, SamePoint
       <2>8. QED
             BY <2>4, <2>7
<1>12. Append(s, GAdd(GNeg(GAdd(A, GSum(s))), commit)) = firsts
       <2> HIDE DEF A, firsts, commit, n
       <2>1. Append(s, GAdd(GNeg(GAdd(A, GSum(s))), GAdd(A, GSum(firsts)))) = firsts
             BY <1>3, <1>10, LastFirst
       <2>2. QED
             BY <1>11, <2>1
<1>13. provenRings(proof, q.min, commit, gen)
         = rangeproof_pub_expand(Append(proof.firsts, GAdd(GNeg(GAdd(A, GSum(proof.firsts))), commit)),
                                 proof.header.exp, sizesOf(proof.header.mantissa), gen)
       BY DEF provenRings
<1>14. rangeRings(job, q) = rangeproof_pub_expand(firsts, e, sizes, gen)
       BY DEF rangeRings
<1> HIDE DEF proof, A, s, firsts, gen, commit
<1>15. QED
       BY <1>6, <1>7, <1>12, <1>13, <1>14 DEF proof, gen, commit

\* What a verifier that accepts is shown is what the header says.
LEMMA HeaderIsShown ==
    ASSUME NEW commit, NEW proof, NEW extra, NEW gen, rangeproof_verify(commit, proof, extra, gen).ok
    PROVE  LET info == rangeproof_getheader(proof.header)
               v == rangeproof_verify(commit, proof, extra, gen).v
           IN info.ok /\ v.min = info.v.min /\ v.max = info.v.max
<1> DEFINE info == rangeproof_getheader(proof.header)
           d == rangeproof_verify(commit, proof, extra, gen)
           pubs == provenRings(proof, info.v.min, commit, gen)
           m == transcript(commit, gen, proof.header, proof.firsts, extra)
           result == borromean_verify(proof.e0, proof.s, pubs, m)
           sent == [min |-> info.v.min, max |-> info.v.max, scale |-> info.v.scale, evalues |-> result.evalues]
<1>1. ~Fails.ok
      BY DEF Fails
<1>2. d = verifyHeader(commit, proof, extra, gen, info)
      BY DEF rangeproof_verify
<1>3. d.ok
      OBVIOUS
<1> HIDE DEF d, info
<1>4. info.ok /\ d = verifyRings(info.v, proof, pubs, m)
      BY <1>1, <1>2, <1>3 DEF verifyHeader
<1> HIDE DEF pubs, m
<1>5. d = shownRange(info.v, result)
      BY <1>1, <1>3, <1>4 DEF verifyRings
<1>6. d = Gives(sent)
      <2> HIDE DEF result
      <2>1. QED
            BY <1>1, <1>3, <1>5 DEF shownRange
<1>7. d.v = sent
      <2> HIDE DEF sent
      <2>1. QED
            BY <1>6 DEF Gives
<1>8. QED
      BY <1>4, <1>7 DEF d, info

\* The one for whom the proof was made accepts it.
LEMMA RangeComplete ==
    ASSUME RangeHashesAreBytes, RangeSecretsAreDrawn, NEW job \in RangeJobs, rangeMade(job).ok
    PROVE  rangeproof_verify(rangeCommit(job), rangeMade(job).v, job.extra, rangeGen(job)).ok
<1> DEFINE q == rangeParams(job).v
           n == ringsOf(q.mantissa)
           proof == rangeMade(job).v
           commit == rangeCommit(job)
           gen == rangeGen(job)
           pubs == rangeRings(job, q)
           m == rangeMessage(job, q)
           info == rangeproof_getheader(proof.header)
           result == borromean_verify(proof.e0, proof.s, pubs, m)
           d == rangeproof_verify(commit, proof, job.extra, gen)
           made == rangeSigned(job, q)
           sent == [min |-> info.v.min, max |-> info.v.max, scale |-> info.v.scale, evalues |-> result.evalues]
<1>1. /\ proof.header = rangeHeader(q) /\ proof.firsts = rangeShown(job, q)
      /\ made.ok /\ proof.e0 = made.v.e0 /\ proof.s = made.v.s
      BY RangeSignIs
<1>2. info.ok /\ info.v.min = q.min
      BY <1>1, RangeParamsAre
<1>3. provenRings(proof, q.min, commit, gen) = pubs
      BY RangeRingsAgree
<1>4. /\ Signing(n, rangeRand(job, q).s, pubs, rangeNonces(job, q), rangeSecrets(job, q), rangeOwn(q), m)
      /\ pubs[n][1] # Infinity /\ Len(pubs) = n
      BY RangeRingsSigned
<1>5. result.ok
      <2> DEFINE s == rangeRand(job, q).s
                 k == rangeNonces(job, q)
                 sec == rangeSecrets(job, q)
                 own == rangeOwn(q)
      <2>1. made = borromean_sign(s, pubs, k, sec, own, m)
            BY DEF rangeSigned
      <2> HIDE DEF s, k, sec, own, pubs, m, n
      <2>2. Signing(n, s, pubs, k, sec, own, m)
            BY <1>4 DEF s, k, sec, own
      <2>3. borromean_sign(s, pubs, k, sec, own, m).ok
            BY <1>1, <2>1
      <2> DEFINE b == borromean_sign(s, pubs, k, sec, own, m)
      <2>4. borromean_verify(b.v.e0, b.v.s, pubs, m).ok
            BY <2>2, <2>3, BorromeanComplete
      <2> HIDE DEF b, made, proof
      <2>5. QED
            BY <1>1, <2>1, <2>4 DEF b
<1>6. m = transcript(commit, gen, proof.header, proof.firsts, job.extra)
      <2>1. m = transcript(commit, gen, rangeHeader(q), rangeShown(job, q), job.extra)
            BY DEF rangeMessage
      <2> HIDE DEF m, proof
      <2>2. QED
            BY <1>1, <2>1
<1>7. d = verifyHeader(commit, proof, job.extra, gen, info)
      BY DEF rangeproof_verify
<1> HIDE DEF info, proof, commit, gen, pubs, m, n, q, d
<1>8. d = verifyRings(info.v, proof, pubs, m)
      BY <1>2, <1>3, <1>6, <1>7 DEF verifyHeader
<1>9. d = shownRange(info.v, result)
      BY <1>4, <1>8 DEF verifyRings
<1>10. d = Gives(sent)
       <2> HIDE DEF result
       <2>1. QED
             BY <1>5, <1>9 DEF shownRange
<1>11. d.ok
       <2> HIDE DEF sent
       <2>1. QED
             BY <1>10 DEF Gives
<1>12. QED
       BY <1>11 DEF d, commit, gen, proof

\* It fits the buffer that its maker was given.
LEMMA RangeFits ==
    ASSUME NEW job \in RangeJobs, rangeMade(job).ok
    PROVE  rangeMade(job).v.len <= job.plen
<1> DEFINE q == rangeParams(job).v
           m == q.mantissa
           n == ringsOf(m)
           sizes == sizesOf(m)
           head == headerLen(rangeHeader(q))
           S == SSum(sizes)
           len == rangeMade(job).v.len
           c == (n + 6) \div 8
<1>1. ~(job.plen - head < bodyLen(q.npub, Len(sizes))) /\ len = head + bodyLen(S, Len(sizes))
      BY RangeSignIs
<1>2. m \in Nat /\ SaysOf(q, job.value, job.min)
      BY RangeParamsAre
<1>3. n \in Nat /\ Len(sizes) = n /\ sizes \in Scalars(n) /\ (m = 0 => n = 1 /\ sizes[1] = 1)
      BY <1>2, RingSizesAre
<1>4. S \in Nat /\ (m = 0 => S = 1)
      <2>1. S \in Scalar
            <3> HIDE DEF sizes, n
            <3>1. QED
                  BY <1>3, SumWalk
      <2>2. ASSUME m = 0 PROVE S = 1
            <3> HIDE DEF sizes, n
            <3>1. SSum(sizes) = sizes[1]
                  <4>1. 1 \in 1 .. n /\ \A i \in 1 .. n : i # 1 => sizes[i] = 0
                        BY <1>3, <2>2
                  <4>2. QED
                        BY <1>3, <4>1, SumOfOne
            <3>2. QED
                  BY <1>3, <2>2, <3>1
      <2>3. S \in Nat
            BY <2>1, ZeroAndOne
      <2>4. QED
            BY <2>2, <2>3
<1>5. q.npub \in Nat /\ S <= q.npub
      <2>1. CASE m = 0
            BY <1>2, <1>4, <2>1 DEF SaysOf
      <2>2. CASE m # 0
            <3>1. q.npub = S
                  BY <1>2, <2>2 DEF SaysOf
            <3> HIDE DEF S
            <3>2. QED
                  BY <1>4, <3>1
      <2>3. QED
            BY <2>1, <2>2
<1>6. head \in Nat
      BY DEF headerLen
<1>7. job.plen \in Nat
      BY RangeJobTyped
<1> HIDE DEF head, sizes, S, n, len
<1>8. c \in Nat
      BY <1>3, QuotientIs
<1>9. bodyLen(S, Len(sizes)) = 32 * (S + n - 1) + 32 + c /\ bodyLen(q.npub, Len(sizes)) = 32 * (q.npub + n - 1) + 32 + c
      BY <1>3 DEF bodyLen
<1> HIDE DEF c
<1> DEFINE a == q.npub
<1>10. ~(job.plen - head < 32 * (a + n - 1) + 32 + c) /\ len = head + (32 * (S + n - 1) + 32 + c) /\ a \in Nat /\ S <= a
       BY <1>1, <1>5, <1>9
<1> HIDE DEF a, q
<1>11. len <= job.plen
       BY <1>3, <1>4, <1>6, <1>7, <1>8, <1>10
<1>12. QED
       BY <1>11 DEF len

-------------------------------------------------------------------------------
(* The invariant and the theorem.                                          *)

\* The proofs over ranges and what is done with them.
RangeSpec == range = RangeIdle /\ [][RangeNext]_range

\* What was made was made for its job, and what was checked holds.
RangeInv ==
    \/ range.at = "idle"
    \/ range.at = "signed" /\ \E job \in RangeJobs : range.job = job /\ range.proof = rangeMade(job)
    \/ range.at = "checked" /\ RangeHoldsTheValue

\* A proof is checked.
LEMMA RangeChecked ==
    ASSUME RangeHashesAreBytes, RangeSecretsAreDrawn, RangeInv, NEW altered \in RangeHeld, RangeCheck(altered)
    PROVE  RangeInv'
<1>1. PICK job \in RangeJobs : range.at = "signed" /\ range.job = job /\ range.proof = rangeMade(job)
      BY DEF RangeCheck, RangeInv
<1> DEFINE proof == rangeMade(job).v
           commit == IF altered = "commit" THEN GAdd(rangeCommit(job), rangeGen(job)) ELSE rangeCommit(job)
           gen == IF altered = "gen" THEN J ELSE rangeGen(job)
           extra == IF altered = "extra" THEN Append(job.extra, 1) ELSE job.extra
           nonce == IF altered = "nonce" THEN job.nonce + 1 ELSE job.nonce
           d == rangeproof_verify(commit, proof, extra, gen)
           l == [at |-> "checked", job |-> job, altered |-> altered, len |-> proof.len, shown |-> d,
                 rewound |-> rangeproof_rewind(commit, proof, extra, gen, nonce, Len(job.message))]
<1>2. rangeMade(job).ok /\ range' = l
      BY <1>1 DEF RangeCheck
<1>3. l.at = "checked" /\ l.job = job /\ l.altered = altered /\ l.len = proof.len /\ l.shown = d
      OBVIOUS
<1> HIDE DEF l
<1>4. altered \in {"none", "nonce"} => d.ok
      <2>1. SUFFICES ASSUME altered \in {"none", "nonce"} PROVE d.ok
            OBVIOUS
      <2>2. commit = rangeCommit(job) /\ gen = rangeGen(job) /\ extra = job.extra
            BY <2>1
      <2> HIDE DEF commit, gen, extra
      <2>3. rangeproof_verify(rangeCommit(job), rangeMade(job).v, job.extra, rangeGen(job)).ok
            BY <1>2, RangeComplete
      <2>4. QED
            BY <2>2, <2>3
<1>5. d.ok => job.value \in d.v.min .. d.v.max /\ job.min <= d.v.min
      <2> DEFINE info == rangeproof_getheader(proof.header)
      <2>1. job.value \in info.v.min .. info.v.max /\ job.min <= info.v.min
            <3>1. proof.header = rangeHeader(rangeParams(job).v)
                  BY <1>2, RangeSignIs
            <3>2. QED
                  BY <1>2, <3>1, RangeParamsAre
      <2> HIDE DEF commit, gen, extra, proof
      <2>2. d.ok => d.v.min = info.v.min /\ d.v.max = info.v.max
            BY HeaderIsShown
      <2> HIDE DEF info, d
      <2>3. QED
            BY <2>1, <2>2
<1>6. proof.len <= job.plen
      BY <1>2, RangeFits
<1> HIDE DEF d, proof
<1>7. /\ range'.at = "checked" /\ range'.job = job /\ range'.altered = altered /\ range'.len = proof.len /\ range'.shown = d
      BY <1>2, <1>3
<1>8. RangeHoldsTheValue'
      BY <1>4, <1>5, <1>6, <1>7 DEF RangeHoldsTheValue
<1>9. QED
      BY <1>7, <1>8 DEF RangeInv

\* A proof that is made for a value is accepted by whoever holds its commitment,
\* shows a range that holds the value and ends with the word, and fits its
\* buffer: for every width, every exponent, minimum and number of bits, and
\* every hash that gives 32 bytes.
THEOREM RangeAlwaysHoldsTheValue ==
    RangeHashesAreBytes /\ RangeSecretsAreDrawn => (RangeSpec => []RangeHoldsTheValue)
<1> SUFFICES ASSUME RangeHashesAreBytes, RangeSecretsAreDrawn
             PROVE  RangeSpec => []RangeHoldsTheValue
      OBVIOUS
<1>1. range = RangeIdle => RangeInv
      BY DEF RangeIdle, RangeInv
<1>2. RangeInv /\ [RangeNext]_range => RangeInv'
      <2>1. CASE range' = range
            BY <2>1 DEF RangeInv, RangeHoldsTheValue
      <2>2. ASSUME NEW job \in RangeJobs, RangeSign(job) PROVE RangeInv'
            <3> DEFINE l == [at |-> "signed", job |-> job, proof |-> rangeMade(job)]
            <3>1. range' = l
                  BY <2>2 DEF RangeSign, rangeMade
            <3>2. l.at = "signed" /\ l.job = job /\ l.proof = rangeMade(job)
                  OBVIOUS
            <3> HIDE DEF l
            <3>3. range'.at = "signed" /\ range'.job = job /\ range'.proof = rangeMade(job)
                  BY <3>1, <3>2
            <3>4. \E c \in RangeJobs : range'.job = c /\ range'.proof = rangeMade(c)
                  BY <3>3
            <3>5. (\E c \in RangeJobs : range.job = c /\ range.proof = rangeMade(c))'
                  BY <3>4
            <3>6. QED
                  BY <3>3, <3>5 DEF RangeInv
      <2>3. QED
            BY <2>1, <2>2, RangeChecked DEF RangeNext
<1>3. RangeInv => RangeHoldsTheValue
      BY DEF RangeInv, RangeHoldsTheValue
<1>4. QED
      BY <1>1, <1>2, <1>3, PTL DEF RangeSpec

===============================================================================
