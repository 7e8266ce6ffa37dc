------------------------------- MODULE Values --------------------------------
(***************************************************************************)
(* The values that asn1-core/src/value.rs and json.rs read from the        *)
(* contents of primitive elements: integers of any size, bit strings, and  *)
(* the choice among them that both JSON projections make by tag.           *)
(*                                                                         *)
(* A decimal string is a sign and the sequence of its digits; the texts of *)
(* times and strings are left as the octets they are made from.            *)
(***************************************************************************)
EXTENDS Oid

CONSTANT WordOctets  \* the octets of an i64: 8

ASSUME WordAssumption == WordOctets \in Nat \ {0}

Power(base, n) ==
  LET power[k \in 0 .. n] == IF k = 0 THEN 1 ELSE base * power[k - 1]
  IN power[n]

Negative(bytes) == bytes # <<>> /\ bytes[1] >= 128

\* Mutant of Magnitude: the complement of one instead of two.
MagnitudeInverted(bytes) ==
  IF Negative(bytes) THEN [k \in DOMAIN bytes |-> 255 - bytes[k]] ELSE bytes

\* Two's complement negation: inverted, and one carried in from the right.
Magnitude(bytes) ==
  LET n == Len(bytes)
      carry[k \in 1 .. n + 1] ==
        IF k = n + 1 THEN 1 ELSE (255 - bytes[k] + carry[k + 1]) \div 256
  IN IF Negative(bytes)
     THEN [k \in 1 .. n |-> (255 - bytes[k] + carry[k + 1]) % 256]
     ELSE bytes

\* One pass of the long division by ten.
DividedByTen(bytes) ==
  LET rem[k \in 0 .. Len(bytes)] ==
        IF k = 0 THEN 0 ELSE (256 * rem[k - 1] + bytes[k]) % 10
  IN [quotient |-> [k \in DOMAIN bytes |-> (256 * rem[k - 1] + bytes[k]) \div 10],
      digit |-> rem[Len(bytes)]]

\* What the passes leave, one after another.  An octet has three digits at most.
Quotients(bytes) ==
  LET left[k \in 0 .. 3 * Len(bytes)] ==
        IF k = 0 THEN bytes ELSE DividedByTen(left[k - 1]).quotient
  IN left

IsZero(bytes) == \A k \in DOMAIN bytes : bytes[k] = 0

\* The digits of the passes until nothing is left, the last pass first.
UnsignedBytesToDecimal(bytes) ==
  LET left == Quotients(bytes)
      passes == CHOOSE n \in DOMAIN left :
                  IsZero(left[n]) /\ \A k \in 0 .. n - 1 : ~ IsZero(left[k])
  IN IF IsZero(bytes) THEN <<0>>
     ELSE [j \in 1 .. passes |-> DividedByTen(left[passes - j]).digit]

\* Stripping zeros first does not change the digits and is left out.
IntegerToDecimal(bytes) ==
  LET digits == UnsignedBytesToDecimal(Magnitude(bytes))
  IN [negative |-> Negative(bytes) /\ digits # <<0>>, digits |-> digits]

FitsWord(bytes) == bytes # <<>> /\ Len(bytes) <= WordOctets

\* Shifts drop what leaves the word; for octets that fit it.
IntegerToI64(bytes) ==
  LET Word == Power(256, WordOctets)
      Signed(v) == IF v % Word >= Word \div 2 THEN (v % Word) - Word ELSE v % Word
      after[k \in 0 .. Len(bytes)] ==
        IF k = 0 THEN IF Negative(bytes) THEN -1 ELSE 0
        ELSE Signed(256 * after[k - 1] + bytes[k])
  IN after[Len(bytes)]

IsBitString(bytes) == bytes # <<>> /\ bytes[1] <= 7

\* total of bitstring_bits, with which it reserves the string.
TotalBits(bytes) == 8 * (Len(bytes) - 1) - bytes[1]

\* Mutant of Bits: the unused bits are taken off the front.
BitsFromTheEnd(bytes) ==
  [j \in 1 .. TotalBits(bytes) |->
     LET i == j - 1 + bytes[1] IN (bytes[2 + (i \div 8)] \div Power(2, 7 - (i % 8))) % 2]

\* The bits of the string, the most significant of each octet first.
Bits(bytes) ==
  [j \in 1 .. TotalBits(bytes) |->
     LET i == j - 1 IN (bytes[2 + (i \div 8)] \div Power(2, 7 - (i % 8))) % 2]

\* What bitstring_bits does when the unused bits exceed the bits there are: the
\* subtraction overflows, or wraps to a size no string can reserve.
Panic == [kind |-> "panic"]

StringTags == {12, 18, 19, 20, 22, 25, 26, 27, 28, 30}

\* decode_string reads UCS-2 and UCS-4 only from whole characters.
IsString(tag, bytes) ==
  /\ tag = 30 => Len(bytes) % 2 = 0
  /\ tag = 28 => Len(bytes) % 4 = 0

Opaque(bytes) == [kind |-> "base64", octets |-> bytes]

IntegerValue(bytes) ==
  IF FitsWord(bytes) THEN [kind |-> "number", value |-> IntegerToI64(bytes)]
  ELSE [kind |-> "decimal", value |-> IntegerToDecimal(bytes)]

OidValue(bytes) ==
  IF DecodeOid(bytes) # NoOid THEN [kind |-> "oid", arcs |-> DecodeOid(bytes)]
  ELSE [kind |-> "bad-oid", octets |-> bytes]

BitStringValue(bytes) ==
  IF ~ IsBitString(bytes) THEN Opaque(bytes)
  ELSE IF TotalBits(bytes) < 0 THEN Panic
  ELSE [kind |-> "bits", unused |-> bytes[1], octets |-> Tail(bytes), bits |-> Bits(bytes)]

\* Only the tags of the universal class say what the octets are.
PrimitiveValue(class, tag, bytes) ==
  IF class # 0 THEN Opaque(bytes)
  ELSE IF tag = 1 THEN [kind |-> "bool", value |-> Len(bytes) = 1 /\ bytes[1] # 0]
  ELSE IF tag \in {2, 10} THEN IntegerValue(bytes)
  ELSE IF tag = 3 THEN BitStringValue(bytes)
  ELSE IF tag = 5 THEN [kind |-> "null"]
  ELSE IF tag = 6 THEN OidValue(bytes)
  ELSE IF tag = 13 /\ IsRelativeOid(bytes) THEN
    [kind |-> "relative", arcs |-> DecodeRelativeOid(bytes)]
  ELSE IF tag \in StringTags /\ IsString(tag, bytes) THEN [kind |-> "text", octets |-> bytes]
  ELSE IF tag \in {23, 24} THEN [kind |-> "time", octets |-> bytes]
  ELSE Opaque(bytes)

=============================================================================
