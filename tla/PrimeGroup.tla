------------------------------ MODULE PrimeGroup ------------------------------
(***************************************************************************)
(* The group that the protocols of libsecp256k1 are written in, seen       *)
(* through the contract of its headers (scalar.h, group.h): scalars modulo *)
(* a prime order, and points of which only the coordinates over            *)
(* independent generators matter.  A point is the tuple of its coordinates *)
(* over the generators of the context, so two points are equal exactly     *)
(* when every relation between generators that nobody knows says so.       *)
(***************************************************************************)
EXTENDS Integers, Sequences

CONSTANTS
    Order,          \* the order of the group (a prime)
    Width,          \* a 32-byte string holds a number of 0 .. Width - 1
    Dim             \* how many generators the points are written over

ASSUME GroupAssumption ==
    /\ Order \in Nat /\ Order > 2 /\ Order % 2 = 1
    /\ Width \in Nat /\ Width >= Order
    /\ Dim \in Nat /\ Dim > 0

\* A power, by as many multiplications as the code takes for it.
powerOf(base, n) == LET p[i \in 0 .. n] == IF i = 0 THEN 1 ELSE base * p[i - 1] IN p[n]

Scalar == 0 .. Order - 1
Bytes32 == 0 .. Width - 1
Point == [1 .. Dim -> Scalar]

-------------------------------------------------------------------------------
(* Scalars                                                                 *)

SAdd(a, b) == (a + b) % Order
SMul(a, b) == (a * b) % Order
SNeg(a) == (Order - a) % Order

\* A string above the order is reduced, and the caller may look at the flag.
ScalarOf(b) == b % Order
Overflow(b) == b >= Order

SInv(a) == IF a = 0 THEN 0 ELSE CHOOSE i \in Scalar : SMul(a, i) = 1

SPow(a, k) == LET pow[i \in 0 .. k] == IF i = 0 THEN 1 % Order ELSE SMul(pow[i - 1], a) IN pow[k]

\* The sums of the first entries of a sequence, and the sum and the product of all.
scalarSums(s) == LET t[i \in 0 .. Len(s)] == IF i = 0 THEN 0 ELSE SAdd(t[i - 1], s[i]) IN t
SSum(s) == scalarSums(s)[Len(s)]
SProd(s) == LET t[i \in 0 .. Len(s)] == IF i = 0 THEN 1 % Order ELSE SMul(t[i - 1], s[i]) IN t[Len(s)]

Tuple(n, F(_)) == SubSeq([i \in 1 .. n |-> F(i)], 1, n)
Flat(n, F(_)) == LET s[i \in 0 .. n] == IF i = 0 THEN <<>> ELSE s[i - 1] \o F(i) IN s[n]

-------------------------------------------------------------------------------
(* Points                                                                  *)

\* What an operation of the library returns: 0, or 1 and its result.
Fails == [ok |-> FALSE]
Gives(v) == [ok |-> TRUE, v |-> v]

Infinity == Tuple(Dim, LAMBDA i : 0)
Unit(k) == Tuple(Dim, LAMBDA i : IF i = k THEN 1 ELSE 0)
G == Unit(1)
GAdd(P, R) == Tuple(Dim, LAMBDA i : SAdd(P[i], R[i]))
GNeg(P) == Tuple(Dim, LAMBDA i : SNeg(P[i]))
GMul(s, P) == Tuple(Dim, LAMBDA i : SMul(s, P[i]))
pointSums(s) == LET t[i \in 0 .. Len(s)] == IF i = 0 THEN Infinity ELSE GAdd(t[i - 1], s[i]) IN t
GSum(s) == pointSums(s)[Len(s)]

\* Of a point and its opposite exactly one has a square as its y coordinate.
HasQuadY(P) ==
    \/ P = Infinity
    \/ \E i \in 1 .. Dim : P[i] # 0 /\ 2 * P[i] < Order /\ \A j \in 1 .. i - 1 : P[j] = 0

\* The x coordinate, which a point shares with its opposite alone.
XCoordinate(P) == IF HasQuadY(P) THEN P ELSE GNeg(P)
===============================================================================
