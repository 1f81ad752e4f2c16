------------------------------- MODULE DerCodec --------------------------------
(***************************************************************************)
(* Signatures on the wire: the strict DER reader and writer of             *)
(* ecdsa_impl.h, the lax reader of contrib/lax_der_parsing.c and the       *)
(* compact form.  A signature is [r, s], a string a sequence of bytes;     *)
(* positions count from 1 and end is the position after the last byte.     *)
(***************************************************************************)
EXTENDS EcMult

CONSTANTS
    ByteBase,       \* the values of a byte (256)
    ScalarBytes,    \* the bytes of a scalar (32)
    SizeBytes,      \* sizeof(size_t)
    TagSequence,    \* 0x30
    TagInteger      \* 0x02

ASSUME DerAssumption ==
    /\ ByteBase \in Nat /\ ByteBase % 2 = 0 /\ ByteBase > 4
    /\ ScalarBytes \in Nat /\ powerOf(ByteBase, ScalarBytes) >= FieldPrime
    /\ powerOf(ByteBase, ScalarBytes) >= CurveOrder
    \* the length of a signature fits the short form
    /\ 2 * ScalarBytes + 6 < ByteBase \div 2
    /\ SizeBytes \in Nat /\ TagSequence \in 1 .. ByteBase - 1 /\ TagInteger \in 1 .. ByteBase - 1

HighBit == ByteBase \div 2

b32(k) == Tuple(ScalarBytes, LAMBDA i : (k \div powerOf(ByteBase, ScalarBytes - i)) % ByteBase)
numberIn(s) == LET n[i \in 0 .. Len(s)] == IF i = 0 THEN 0 ELSE n[i - 1] * ByteBase + s[i] IN n[Len(s)]
leadingZeros(s) == CHOOSE z \in 0 .. Len(s) : /\ \A i \in 1 .. z : s[i] = 0
                                              /\ z < Len(s) => s[z + 1] # 0
stripped(s) == SubSeq(s, leadingZeros(s) + 1, Len(s))

\* A number of 32 bytes as a scalar and the flag that it was too large.
scalar_set_b32(v) == [v |-> v % CurveOrder, overflow |-> v >= CurveOrder]

-------------------------------------------------------------------------------
(* The strict reader                                                       *)

\* A length, in the shortest form it has, of no more than what is left.
der_read_len(s, at, end) ==
    LET b1 == s[at]
        n == b1 - HighBit
        value(i) == numberIn(SubSeq(s, at + 1, at + i))
    IN IF at >= end THEN Fails
       ELSE IF b1 = ByteBase - 1 \/ b1 = HighBit THEN Fails
       ELSE IF b1 < HighBit THEN Gives([len |-> b1, at |-> at + 1])
       ELSE IF n > end - (at + 1) \/ s[at + 1] = 0 \/ n > SizeBytes THEN Fails
       ELSE IF \E i \in 1 .. n : value(i) + (n - i + 1) > end - (at + i) THEN Fails
       ELSE IF value(n) < HighBit THEN Fails
       ELSE Gives([len |-> value(n), at |-> at + 1 + n])

\* Mutant of excess: padding is not looked for.
excess_never(bytes) == FALSE

\* A number that is negative or out of range is read as 0.
excess(bytes) ==
    /\ Len(bytes) > 1
    /\ \/ bytes[1] = 0 /\ bytes[2] < HighBit
       \/ bytes[1] = ByteBase - 1 /\ bytes[2] >= HighBit
derNumber(negative, digits) ==
    IF negative \/ Len(digits) > ScalarBytes THEN 0
    ELSE IF scalar_set_b32(numberIn(digits)).overflow THEN 0 ELSE numberIn(digits)
derBytes(bytes, after) ==
    IF excess(bytes) THEN Fails ELSE Gives([v |-> derNumber(bytes[1] >= HighBit, stripped(bytes)), at |-> after])
derContent(s, length, end) ==
    IF ~length.ok THEN Fails
    ELSE IF length.v.len <= 0 \/ length.v.at + length.v.len > end THEN Fails
    ELSE derBytes(SubSeq(s, length.v.at, length.v.at + length.v.len - 1), length.v.at + length.v.len)
der_parse_integer(s, at, end) ==
    IF at >= end THEN Fails
    ELSE IF s[at] # TagInteger THEN Fails ELSE derContent(s, der_read_len(s, at + 1, end), end)

\* The second number has to end where the string does.
derPair(r, t, end) ==
    IF ~t.ok THEN Fails ELSE IF t.v.at # end THEN Fails ELSE Gives([r |-> r.v.v, s |-> t.v.v])
derAfterFirst(s, r, end) == IF ~r.ok THEN Fails ELSE derPair(r, der_parse_integer(s, r.v.at, end), end)
derSequence(s, length, end) ==
    IF ~length.ok THEN Fails
    ELSE IF length.v.at + length.v.len # end THEN Fails
    ELSE derAfterFirst(s, der_parse_integer(s, length.v.at, end), end)
ecdsa_sig_parse(s) ==
    IF s = <<>> THEN Fails
    ELSE IF s[1] # TagSequence THEN Fails
    ELSE derSequence(s, der_read_len(s, 2, Len(s) + 1), Len(s) + 1)

\* A 0 is kept before a byte that would make the number negative.
derInteger(k) ==
    LET tagged(bytes) == <<TagInteger, Len(bytes)>> \o bytes
        positive(digits) == IF digits = <<>> THEN <<0>> ELSE IF digits[1] >= HighBit THEN <<0>> \o digits ELSE digits
    IN tagged(positive(stripped(b32(k))))

\* With too little room only the size that is needed comes back.
ecdsa_sig_serialize(sig, size) ==
    LET sequence(body) == [ok |-> Len(body) + 2 <= size, size |-> Len(body) + 2,
                           v |-> <<TagSequence, Len(body)>> \o body]
    IN sequence(derInteger(sig.r) \o derInteger(sig.s))

-------------------------------------------------------------------------------
(* The compact form and the lax reader                                     *)

ZeroSignature == [r |-> 0, s |-> 0]

ecdsa_signature_parse_compact(r, s) ==
    IF scalar_set_b32(r).overflow \/ scalar_set_b32(s).overflow THEN Fails ELSE Gives([r |-> r, s |-> s])

\* The strict reader behind the interface leaves zeros when it fails.
orZeros(sig) == IF sig.ok THEN sig.v ELSE ZeroSignature
parsed(sig) == [ret |-> sig.ok, sig |-> orZeros(sig)]
ecdsa_signature_parse_der(s) == parsed(ecdsa_sig_parse(s))

\* A length in any form of fewer bytes than a size_t has.
laxLength(s, at) ==
    LET n == s[at] - HighBit
        digits == stripped(SubSeq(s, at + 1, at + n))
    IN IF at > Len(s) THEN Fails
       ELSE IF s[at] < HighBit THEN Gives([len |-> s[at], at |-> at + 1])
       ELSE IF at + n > Len(s) \/ Len(digits) >= SizeBytes THEN Fails
       ELSE Gives([len |-> numberIn(digits), at |-> at + 1 + n])

laxContent(s, length) ==
    IF ~length.ok THEN Fails
    ELSE IF length.v.len > Len(s) - (length.v.at - 1) THEN Fails
    ELSE Gives([digits |-> stripped(SubSeq(s, length.v.at, length.v.at + length.v.len - 1)),
                at |-> length.v.at + length.v.len])
laxInteger(s, at) ==
    IF at > Len(s) THEN Fails
    ELSE IF s[at] # TagInteger THEN Fails ELSE laxContent(s, laxLength(s, at + 1))

\* The length of the whole is skipped, not read, and what follows s ignored.
\* Numbers out of range make a signature of zeros, and no failure.
laxFails == [ret |-> FALSE, sig |-> ZeroSignature]
laxPair(r, t) ==
    IF ~t.ok THEN laxFails
    ELSE [ret |-> TRUE,
          sig |-> IF Len(r.v.digits) > ScalarBytes \/ Len(t.v.digits) > ScalarBytes THEN ZeroSignature
                  ELSE orZeros(ecdsa_signature_parse_compact(numberIn(r.v.digits), numberIn(t.v.digits)))]
laxAfterFirst(s, r) == IF ~r.ok THEN laxFails ELSE laxPair(r, laxInteger(s, r.v.at))
ecdsa_signature_parse_der_lax(s) ==
    LET skip == IF s[2] < HighBit THEN 0 ELSE s[2] - HighBit
    IN IF Len(s) < 2 THEN laxFails
       ELSE IF s[1] # TagSequence \/ 2 + skip > Len(s) THEN laxFails
       ELSE laxAfterFirst(s, laxInteger(s, 3 + skip))
===============================================================================
