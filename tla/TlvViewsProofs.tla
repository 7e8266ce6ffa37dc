--------------------------- MODULE TlvViewsProofs ----------------------------
(***************************************************************************)
(* Proofs about the flat views and the values they show, for every blob.   *)
(***************************************************************************)
EXTENDS TlvViews, TlvParserProofs, ValuesProofs, FiniteSetTheorems

-----------------------------------------------------------------------------
(* The contents of an element *)

LEMMA ContentsAreBytes ==
  ASSUME IInv, NEW i \in DOMAIN heap
  PROVE  Contents(i) \in Seq(Byte)
<1>1. heap[i] \in Nodes /\ heap \in Seq(Nodes) BY DEF IInv, Typed
<1>2. End(heap[i]) \in Nat /\ ContentStart(heap[i]) \in Nat /\ ContentEnd(heap[i]) \in Nat
  BY <1>1, EndIsNat
<1>3. ContentEnd(heap[i]) <= End(heap[i]) /\ ContentStart(heap[i]) <= ContentEnd(heap[i])
  <2> DEFINE n == heap[i]
  <2>1. n.content_len \in Nat /\ n.offset + n.header_len \in Nat BY <1>1, SMTT(30) DEF Nodes
  <2> HIDE DEF n
  <2>2. n.offset + n.header_len <= n.offset + n.header_len + n.content_len BY <2>1
  <2>3. ContentStart(n) <= ContentEnd(n) BY <2>2 DEF ContentStart, ContentEnd
  <2>4. ContentEnd(n) <= End(n)
    <3> DEFINE c == ContentEnd(n)
    <3>1. c \in Nat BY <1>2 DEF n
    <3> HIDE DEF c
    <3>2. c <= c + 0 /\ c <= c + 2 BY <3>1
    <3> QED BY <3>2 DEF End, c
  <2> QED BY <2>3, <2>4 DEF n
<1>4. End(heap[i]) <= Top.p /\ Top.p \in Nat /\ Top.p <= Len(data)
  <2>1. End(heap[i]) <= Top.p BY DEF IInv, ElementsBehind
  <2>2. Top.p \in Nat BY TopFacts DEF Frames
  <2>3. Top.end \in Nat /\ Len(data) \in Nat BY TopFacts, OctetsOfBlob DEF Frames, IInv
  <2> QED BY <2>1, <2>2, <2>3, TopFacts
<1>5. data \in Seq(Byte) BY DEF IInv, Typed, Octets, Byte
<1> DEFINE a == ContentStart(heap[i]) + 1
           b == ContentEnd(heap[i])
<1>6. a \in 1 .. Len(data) + 1 /\ b \in 0 .. Len(data)
  BY <1>2, <1>3, <1>4, <1>5
<1> HIDE DEF a, b
<1>7. SubSeq(data, a, b) \in Seq(Byte)
  <2> DEFINE d == data
  <2>1. d \in Seq(Byte) BY <1>5
  <2>2. \A k \in a .. b : k \in 1 .. Len(d) BY <1>5, <1>6
  <2> HIDE DEF d
  <2>3. SubSeq(d, a, b) \in Seq(Byte)
    BY <1>6, <2>1, <2>2
  <2> QED BY <2>3 DEF d
<1> QED BY <1>7 DEF Contents, a, b

-----------------------------------------------------------------------------
(* INTEGERs *)

LEMMA SpelledIs ==
  ASSUME NEW decimal
  PROVE  Spelled(decimal) =
           IF decimal.negative THEN - Number(decimal.digits) ELSE Number(decimal.digits)
BY Zenon DEF Spelled, Number, SpelledTo

LEMMA TwosComplementIs ==
  ASSUME NEW bytes
  PROVE  TwosComplement(bytes) = Signed(bytes, Len(bytes))
BY Zenon DEF TwosComplement, Signed, Unsigned, UnsignedTo

LEMMA DecimalKeepsTheValue ==
  ASSUME NEW bytes \in Seq(Byte)
  PROVE  /\ Spelled(IntegerToDecimal(bytes)) = TwosComplement(bytes)
         /\ IntegerToDecimal(bytes).digits[1] = 0 =>
              IntegerToDecimal(bytes).digits = <<0>> /\ ~ IntegerToDecimal(bytes).negative
<1> DEFINE m == Magnitude(bytes)
           d == UnsignedBytesToDecimal(m)
           n == Len(bytes)
           v == Signed(bytes, n)
           decimal == IntegerToDecimal(bytes)
<1>1. m \in Seq(Byte) /\ Len(m) = n /\ Unsigned(m)[n] = IF Negative(bytes) THEN - v ELSE v
  BY MagnitudeOf
<1> HIDE DEF m
<1>2. Number(d) = Unsigned(m)[n] /\ (d[1] = 0 => d = <<0>>) /\ (d = <<0>> => Unsigned(m)[n] = 0)
  BY <1>1, DecimalOf
<1>3. decimal.negative = (Negative(bytes) /\ d # <<0>>) /\ decimal.digits = d
  BY DEF IntegerToDecimal, m
<1>4. v \in Int
  <2>1. n \in Nat /\ n \in 0 .. n BY BytesFacts
  <2>2. Unsigned(bytes)[n] \in Nat BY <2>1, UnsignedOf
  <2>3. Power(256, n) \in Nat
    <3>1. 256 \in Nat OBVIOUS
    <3> QED BY <2>1, <3>1, NextPower
  <2> QED BY <2>2, <2>3 DEF Signed
<1>5. Spelled(decimal) = IF decimal.negative THEN - Number(d) ELSE Number(d)
  BY <1>3, SpelledIs
<1> HIDE DEF d, n, v, decimal
<1>6. Spelled(decimal) = v
  <2>1. CASE Negative(bytes) /\ d # <<0>>
    <3>1. Spelled(decimal) = - Number(d) /\ Number(d) = - v BY <1>1, <1>2, <1>3, <1>5, <2>1
    <3> QED BY <1>4, <3>1
  <2>2. CASE ~ Negative(bytes) BY <1>1, <1>2, <1>3, <1>5, <2>2
  <2>3. CASE Negative(bytes) /\ d = <<0>>
    <3>1. Spelled(decimal) = Number(d) /\ Number(d) = - v /\ Number(d) = 0
      BY <1>1, <1>2, <1>3, <1>5, <2>3
    <3> QED BY <1>4, <3>1
  <2> QED BY <2>1, <2>2, <2>3
<1> QED BY <1>2, <1>3, <1>6, TwosComplementIs DEF n, v, decimal

(* asn1.decode and asn1.to_json show every INTEGER, of any number of        *)
(* octets, with its value (integer_to_decimal, integer_to_i64).             *)
THEOREM IntegersOfAnySize == Spec => []IntegersKeepTheirValue
<1>1. ASSUME IInv PROVE IntegersKeepTheirValue
  <2> SUFFICES ASSUME NEW i \in DOMAIN heap,
                      heap[i].class = 0, heap[i].tag = 2, ~ heap[i].constructed
               PROVE  /\ Spelled(IntegerToDecimal(Contents(i))) = TwosComplement(Contents(i))
                      /\ IntegerToDecimal(Contents(i)).digits[1] = 0 =>
                           /\ IntegerToDecimal(Contents(i)).digits = <<0>>
                           /\ ~ IntegerToDecimal(Contents(i)).negative
                      /\ LeafValue(i).kind = "number" =>
                           LeafValue(i).value = TwosComplement(Contents(i))
                      /\ LeafValue(i).kind = "number" <=>
                           Contents(i) # <<>> /\ Len(Contents(i)) <= WordOctets
    BY DEF IntegersKeepTheirValue
  <2> DEFINE bytes == Contents(i)
  <2>1. bytes \in Seq(Byte) BY <1>1, ContentsAreBytes
  <2>2. LeafValue(i) = IntegerValue(bytes) BY DEF LeafValue, PrimitiveValue
  <2> HIDE DEF bytes
  <2>3. LeafValue(i).kind = "number" <=> FitsWord(bytes) BY <2>2 DEF IntegerValue
  <2>4. FitsWord(bytes) => LeafValue(i).value = IntegerToI64(bytes) BY <2>2 DEF IntegerValue
  <2>5. FitsWord(bytes) => IntegerToI64(bytes) = TwosComplement(bytes)
    BY <2>1, IntegerToI64Of, TwosComplementIs
  <2>6. FitsWord(bytes) <=> bytes # <<>> /\ Len(bytes) <= WordOctets BY DEF FitsWord
  <2> QED BY <2>1, <2>3, <2>4, <2>5, <2>6, DecimalKeepsTheValue DEF bytes
<1> QED BY <1>1, Invariance, PTL

-----------------------------------------------------------------------------
(* OBJECT IDENTIFIERs *)

(* Over every well-formed OID whose arcs fit the accumulator, encode_oid    *)
(* takes the string of decode_oid back to the octets it was made from.      *)
THEOREM OidsAreEncodedBack == Spec => []OidsThatFitNameTheirOctets
<1>1. ASSUME IInv PROVE OidsThatFitNameTheirOctets
  <2> SUFFICES ASSUME NEW i \in DOMAIN heap, OidString(i) # NoOid, ArcsFit(Contents(i))
               PROVE  EncodeOid(OidString(i)) = Contents(i)
    BY DEF OidsThatFitNameTheirOctets
  <2> DEFINE bytes == Contents(i)
             arc == CHOOSE g : NumbersTo(g, bytes)
  <2>1. bytes \in Seq(Byte) BY <1>1, ContentsAreBytes
  <2>2. OidString(i) = DecodeOid(bytes) BY DEF OidString
  <2>3. ArcsFit(bytes) OBVIOUS
  <2> HIDE DEF bytes
  <2>4. NumbersTo(arc, bytes)
    <3>1. \E g : NumbersTo(g, bytes) BY <2>1, NumbersExist
    <3> QED BY <3>1
  <2>5. \A k \in DOMAIN bytes : arc[k] < ArcModulus BY <2>3, Zenon DEF ArcsFit, NumbersTo
  <2> HIDE DEF arc
  <2>6. DecodeOid(bytes) # NoOid BY <2>2
  <2>7. EncodeOid(DecodeOid(bytes)) = bytes BY <2>1, <2>4, <2>5, <2>6, OidIsEncodedBack
  <2> QED BY <2>2, <2>7 DEF bytes
<1> QED BY <1>1, Invariance, PTL

-----------------------------------------------------------------------------
(* BIT STRINGs *)

LEMMA PackedIs ==
  ASSUME NEW bits
  PROVE  Packed(bits) = [j \in 1 .. (Len(bits) + 7) \div 8 |-> PackedOctet(bits, j)]
BY Zenon DEF Packed, PackedOctet, PacksTo, BitAt

LEMMA OnlyBitStrings ==
  ASSUME NEW class, NEW tag, NEW bytes \in Seq(Byte),
         PrimitiveValue(class, tag, bytes).kind = "bits"
  PROVE  /\ IsBitString(bytes) /\ TotalBits(bytes) >= 0
         /\ PrimitiveValue(class, tag, bytes) =
              [kind |-> "bits", unused |-> bytes[1], octets |-> Tail(bytes), bits |-> Bits(bytes)]
<1>1. PrimitiveValue(class, tag, bytes) = BitStringValue(bytes)
  BY DEF PrimitiveValue, Opaque, IntegerValue, OidValue
<1>2. IsBitString(bytes) /\ ~ (TotalBits(bytes) < 0) BY <1>1 DEF BitStringValue, Opaque, Panic
<1>3. TotalBits(bytes) \in Int
  <2>1. 1 \in 1 .. Len(bytes) BY <1>2 DEF IsBitString
  <2>2. bytes[1] \in Int BY <2>1, BytesFacts
  <2> QED BY <2>2, BytesFacts DEF TotalBits
<1> QED BY <1>1, <1>2, <1>3 DEF BitStringValue

(* The bits that asn1.decode shows for a BIT STRING of any length are those *)
(* of its octets, first to last, and only the unused ones are missing       *)
(* (bitstring_bits).                                                        *)
THEOREM BitStringsOfAnySize == Spec => []BitStringsKeepTheirBits
<1>1. ASSUME IInv PROVE BitStringsKeepTheirBits
  <2> SUFFICES ASSUME NEW i \in DOMAIN heap, LeafValue(i).kind = "bits"
               PROVE  LET shown == LeafValue(i)
                          last == Len(shown.octets)
                          cut == Power(2, shown.unused)
                      IN /\ 8 * last = Len(shown.bits) + shown.unused
                         /\ Packed(shown.bits) =
                              [k \in 1 .. last |->
                                 IF k < last THEN shown.octets[k]
                                 ELSE (shown.octets[k] \div cut) * cut]
    BY DEF BitStringsKeepTheirBits
  <2> DEFINE bytes == Contents(i)
             shown == LeafValue(i)
             n == Len(bytes) - 1
             u == bytes[1]
             cut == Power(2, u)
  <2>1. bytes \in Seq(Byte) BY <1>1, ContentsAreBytes
  <2>2. shown = PrimitiveValue(heap[i].class, heap[i].tag, bytes) BY DEF LeafValue
  <2> HIDE DEF bytes, shown
  <2>3. /\ IsBitString(bytes) /\ TotalBits(bytes) >= 0
        /\ shown = [kind |-> "bits", unused |-> u, octets |-> Tail(bytes), bits |-> Bits(bytes)]
    BY <2>1, <2>2, OnlyBitStrings DEF shown
  <2>4. /\ n \in Nat /\ u \in 0 .. 7 /\ (n = 0 => u = 0)
        /\ Len(Bits(bytes)) = 8 * n - u
        /\ \A j \in 1 .. n :
             PackedOctet(Bits(bytes), j) =
               IF j < n THEN bytes[j + 1] ELSE (bytes[j + 1] \div cut) * cut
    BY <2>1, <2>3, BitsPack
  <2>5. /\ shown.unused = u /\ shown.octets = Tail(bytes) /\ shown.bits = Bits(bytes)
    BY <2>3
  <2>6. Len(Tail(bytes)) = n /\ \A j \in 1 .. n : Tail(bytes)[j] = bytes[j + 1]
    BY <2>1, <2>4
  <2>7. (Len(Bits(bytes)) + 7) \div 8 = n
    <3> HIDE DEF n, u
    <3>1. n \in Nat /\ u \in 0 .. 7 /\ (n = 0 => u = 0) /\ Len(Bits(bytes)) = 8 * n - u
      BY <2>4, Zenon
    <3> QED BY <3>1
  <2> HIDE DEF n, u, cut
  <2>8. Packed(Bits(bytes)) =
          [k \in 1 .. n |-> IF k < n THEN Tail(bytes)[k] ELSE (Tail(bytes)[k] \div cut) * cut]
    <3>1. Packed(Bits(bytes)) = [j \in 1 .. n |-> PackedOctet(Bits(bytes), j)]
      BY <2>7, PackedIs
    <3>2. \A j \in 1 .. n : PackedOctet(Bits(bytes), j) =
            IF j < n THEN Tail(bytes)[j] ELSE (Tail(bytes)[j] \div cut) * cut
      BY <2>4, <2>6
    <3> QED BY <3>1, <3>2
  <2>9. 8 * n = Len(Bits(bytes)) + u
    <3>1. n \in Nat /\ u \in 0 .. 7 /\ Len(Bits(bytes)) = 8 * n - u BY <2>4, Zenon
    <3> QED BY <3>1
  <2> QED BY <2>5, <2>6, <2>8, <2>9 DEF shown, cut
<1> QED BY <1>1, Invariance, PTL

-----------------------------------------------------------------------------
(* The forest.  What the reader promises of its elements (ElementsTile,     *)
(* ElementsNest) makes them a forest: an element that lies in another lies  *)
(* in exactly one of its children, or is one.                               *)

ForestInv ==
  heap \in Seq(Nodes) /\ ElementsTile /\ ElementsNest

Below(j, i) == LiesIn(heap[j], heap[i])
Within(j, i) == j = i \/ Below(j, i)

LEMMA NodeFacts ==
  ASSUME ForestInv, NEW i \in DOMAIN heap
  PROVE  /\ heap[i].offset \in Nat /\ ContentStart(heap[i]) \in Nat
         /\ ContentEnd(heap[i]) \in Nat /\ End(heap[i]) \in Nat
         /\ heap[i].offset + 2 <= ContentStart(heap[i])
         /\ ContentStart(heap[i]) <= ContentEnd(heap[i]) /\ ContentEnd(heap[i]) <= End(heap[i])
         /\ heap[i].offset < End(heap[i])
         /\ heap[i].kids \in Seq(Nat)
         /\ \A k \in DOMAIN heap[i].kids : heap[i].kids[k] \in DOMAIN heap /\ heap[i].kids[k] < i
         /\ heap[i].kids # <<>> => heap[i].constructed
         /\ i \in Nat /\ i >= 1
<1>1. heap[i] \in Nodes /\ heap \in Seq(Nodes) BY DEF ForestInv
<1>2. heap[i].header_len >= 2 BY DEF ForestInv, ElementsTile, ElementIsWhole
<1>3. /\ heap[i].offset \in Nat /\ heap[i].header_len \in Nat /\ heap[i].content_len \in Nat
      /\ heap[i].kids \in Seq(Nat)
  BY <1>1 DEF Nodes
<1>4. heap[i].kids # <<>> => heap[i].constructed
  BY DEF ForestInv, ElementsTile, ElementIsWhole
<1>5. \A k \in DOMAIN heap[i].kids : heap[i].kids[k] < i
  BY DEF ForestInv, ElementsTile, ElementIsWhole
<1>6. \A k \in DOMAIN heap[i].kids : heap[i].kids[k] \in DOMAIN heap
  <2> SUFFICES ASSUME NEW k \in DOMAIN heap[i].kids PROVE heap[i].kids[k] \in DOMAIN heap
    OBVIOUS
  <2>1. heap[i].constructed BY <1>3, <1>4
  <2> QED BY <2>1 DEF ForestInv, ElementsTile, ElementIsWhole, Tiles
<1>7. i \in Nat /\ i >= 1 BY <1>1
<1>8. /\ ContentStart(heap[i]) = heap[i].offset + heap[i].header_len
      /\ ContentEnd(heap[i]) = ContentStart(heap[i]) + heap[i].content_len
      /\ End(heap[i]) = ContentEnd(heap[i]) + (IF heap[i].indefinite THEN 2 ELSE 0)
  BY DEF ContentStart, ContentEnd, End
<1> QED BY <1>2, <1>3, <1>4, <1>5, <1>6, <1>7, <1>8, SMTT(30)

LEMMA KidFacts ==
  ASSUME ForestInv, NEW i \in DOMAIN heap, NEW k \in DOMAIN heap[i].kids
  PROVE  /\ k \in Nat /\ k >= 1 /\ k <= Len(heap[i].kids) /\ Len(heap[i].kids) \in Nat
         /\ heap[i].kids[k] \in DOMAIN heap /\ heap[i].kids[k] < i
<1>1. heap[i].kids \in Seq(Nat) BY NodeFacts
<1>2. heap[i].kids[k] \in DOMAIN heap /\ heap[i].kids[k] < i BY NodeFacts
<1> QED BY <1>1, <1>2

\* What lies in an element was finished before it.
LEMMA BelowIsBefore ==
  ASSUME ForestInv, NEW i \in DOMAIN heap, NEW j \in DOMAIN heap, Below(j, i)
  PROVE  /\ j < i /\ heap[i].constructed
         /\ heap[i].offset < heap[j].offset /\ End(heap[j]) <= End(heap[i])
<1>1. ContentStart(heap[i]) <= heap[j].offset /\ End(heap[j]) <= ContentEnd(heap[i])
  BY DEF Below, LiesIn
<1>2. /\ heap[i].offset \in Nat /\ ContentStart(heap[i]) \in Nat
      /\ ContentEnd(heap[i]) \in Nat /\ End(heap[i]) \in Nat
      /\ heap[i].offset + 2 <= ContentStart(heap[i])
      /\ ContentStart(heap[i]) <= ContentEnd(heap[i]) /\ ContentEnd(heap[i]) <= End(heap[i])
      /\ i \in Nat
  BY NodeFacts
<1>3. /\ heap[j].offset \in Nat /\ ContentStart(heap[j]) \in Nat
      /\ ContentEnd(heap[j]) \in Nat /\ End(heap[j]) \in Nat
      /\ heap[j].offset + 2 <= ContentStart(heap[j])
      /\ ContentStart(heap[j]) <= ContentEnd(heap[j]) /\ ContentEnd(heap[j]) <= End(heap[j])
      /\ j \in Nat
  BY NodeFacts
<1>4. heap[i].offset < heap[j].offset /\ End(heap[j]) <= End(heap[i])
  BY <1>1, <1>2, <1>3
<1>5. ~ (i < j)
  <2> SUFFICES ASSUME i < j PROVE FALSE OBVIOUS
  <2>1. i \in 1 .. j - 1 BY <1>2, <1>3, NodeFacts
  <2>2. End(heap[i]) <= heap[j].offset \/ ContentStart(heap[j]) <= heap[i].offset
    BY <2>1 DEF ForestInv, ElementsNest, LiesIn
  <2> QED BY <1>1, <1>2, <1>3, <1>4, <2>2
<1>6. i # j BY <1>1, <1>2
<1>7. j \in 1 .. i - 1 BY <1>2, <1>3, <1>5, <1>6, NodeFacts
<1>8. End(heap[j]) <= heap[i].offset \/ heap[i].constructed
  BY <1>7 DEF ForestInv, ElementsNest
<1> QED BY <1>2, <1>3, <1>4, <1>7, <1>8

\* The children of an element: in order, apart, and in its contents.
LEMMA KidsInOrder ==
  ASSUME ForestInv, NEW i \in DOMAIN heap, NEW k \in DOMAIN heap[i].kids
  PROVE  /\ Below(heap[i].kids[k], i)
         /\ \A m \in 1 .. k - 1 : End(heap[heap[i].kids[m]]) <= heap[heap[i].kids[k]].offset
<1> DEFINE kids == heap[i].kids
           n == Len(kids)
           off(m) == heap[kids[m]].offset
           end(m) == End(heap[kids[m]])
<1>1. /\ kids \in Seq(Nat) /\ n \in Nat /\ DOMAIN kids = 1 .. n
      /\ \A m \in 1 .. n : kids[m] \in DOMAIN heap
  BY NodeFacts
<1>2. heap[i].constructed /\ kids # <<>> BY <1>1, NodeFacts
<1>3. /\ off(1) = ContentStart(heap[i]) /\ end(n) = ContentEnd(heap[i])
      /\ \A m \in 1 .. n - 1 : end(m) = off(m + 1)
  BY <1>2 DEF ForestInv, ElementsTile, ElementIsWhole, Tiles
<1>4. \A m \in 1 .. n : off(m) \in Nat /\ end(m) \in Nat /\ off(m) < end(m)
  <2> SUFFICES ASSUME NEW m \in 1 .. n
               PROVE  off(m) \in Nat /\ end(m) \in Nat /\ off(m) < end(m)
    OBVIOUS
  <2> DEFINE j == kids[m]
  <2>1. j \in DOMAIN heap BY <1>1
  <2> HIDE DEF j
  <2>2. heap[j].offset \in Nat /\ End(heap[j]) \in Nat /\ heap[j].offset < End(heap[j])
    BY <2>1, NodeFacts
  <2> QED BY <2>2 DEF j
<1> HIDE DEF kids, off, end, n
<1>5. k \in 1 .. n BY <1>1 DEF kids, n
<1>6. \A m \in 0 .. n : \A l \in 1 .. m : \A h \in l + 1 .. m : end(l) <= off(h)
  <2> DEFINE T == { m \in Nat : \A l \in 1 .. m : \A h \in l + 1 .. m : end(l) <= off(h) }
  <2>1. 0 \in T OBVIOUS
  <2>2. ASSUME NEW m \in 0 .. n - 1, m \in T PROVE m + 1 \in T
    <3>1. ASSUME NEW l \in 1 .. m + 1, NEW h \in l + 1 .. m + 1 PROVE end(l) <= off(h)
      <4>1. CASE h # m + 1
        <5>1. l \in 1 .. m /\ h \in l + 1 .. m BY <1>1, <4>1
        <5> QED BY <2>2, <5>1
      <4>2. CASE h = m + 1
        <5>1. m \in 1 .. n - 1 /\ l \in 1 .. m /\ m \in 1 .. n /\ m + 1 \in 1 .. n BY <1>1, <4>2
        <5>2. end(m) = off(m + 1) BY <1>3, <5>1
        <5>3. CASE l = m BY <1>4, <4>2, <5>1, <5>2, <5>3
        <5>4. CASE l # m
          <6>1. m \in l + 1 .. m /\ l \in 1 .. n BY <5>1, <5>4, <1>1
          <6>2. end(l) <= off(m) BY <2>2, <5>1, <6>1
          <6> QED BY <1>4, <4>2, <5>1, <5>2, <6>1, <6>2
        <5> QED BY <5>3, <5>4
      <4> QED BY <4>1, <4>2
    <3> QED BY <3>1
  <2> HIDE DEF T
  <2>3. \A m \in 0 .. n : m \in T BY <1>1, <2>1, <2>2, UpTo
  <2> QED BY <2>3 DEF T
<1>7. \A l \in 1 .. n : \A h \in l + 1 .. n : end(l) <= off(h)
  BY <1>1, <1>6
<1>8. ContentStart(heap[i]) <= off(k)
  <2>1. CASE k = 1 BY <1>3, <1>4, <1>5, <2>1
  <2>2. CASE k # 1
    <3>1. 1 \in 1 .. n /\ k \in 1 + 1 .. n BY <1>1, <1>5, <2>2
    <3>2. end(1) <= off(k) BY <1>7, <3>1
    <3> QED BY <1>3, <1>4, <1>5, <3>1, <3>2
  <2> QED BY <2>1, <2>2
<1>9. end(k) <= ContentEnd(heap[i])
  <2>1. CASE k = n BY <1>3, <1>4, <1>5, <2>1
  <2>2. CASE k # n
    <3>1. n \in 1 .. n /\ n \in k + 1 .. n BY <1>1, <1>5, <2>2
    <3>2. end(k) <= off(n) BY <1>5, <1>7, <3>1
    <3> QED BY <1>3, <1>4, <1>5, <3>1, <3>2
  <2> QED BY <2>1, <2>2
<1>10. \A m \in 1 .. k - 1 : end(m) <= off(k)
  <2> SUFFICES ASSUME NEW m \in 1 .. k - 1 PROVE end(m) <= off(k) OBVIOUS
  <2>1. m \in 1 .. n /\ k \in m + 1 .. n BY <1>1, <1>5
  <2> QED BY <1>7, <2>1
<1> QED BY <1>8, <1>9, <1>10 DEF Below, LiesIn, off, end, kids

LEMMA BelowIsTransitive ==
  ASSUME ForestInv, NEW i \in DOMAIN heap, NEW j \in DOMAIN heap, NEW k \in DOMAIN heap,
         Below(k, j), Below(j, i)
  PROVE  Below(k, i)
<1>1. /\ ContentStart(heap[i]) <= heap[j].offset /\ End(heap[j]) <= ContentEnd(heap[i])
      /\ ContentStart(heap[j]) <= heap[k].offset /\ End(heap[k]) <= ContentEnd(heap[j])
  BY DEF Below, LiesIn
<1>2. ContentStart(heap[i]) \in Nat /\ ContentEnd(heap[i]) \in Nat
  BY NodeFacts
<1>3. /\ heap[j].offset \in Nat /\ ContentStart(heap[j]) \in Nat
      /\ ContentEnd(heap[j]) \in Nat /\ End(heap[j]) \in Nat
      /\ heap[j].offset + 2 <= ContentStart(heap[j]) /\ ContentEnd(heap[j]) <= End(heap[j])
  BY NodeFacts
<1>4. heap[k].offset \in Nat /\ End(heap[k]) \in Nat BY NodeFacts
<1> QED BY <1>1, <1>2, <1>3, <1>4 DEF Below, LiesIn

LEMMA WithinKid ==
  ASSUME ForestInv, NEW i \in DOMAIN heap, NEW k \in DOMAIN heap[i].kids,
         NEW j \in DOMAIN heap, Within(j, heap[i].kids[k])
  PROVE  Below(j, i)
<1>1. heap[i].kids[k] \in DOMAIN heap /\ Below(heap[i].kids[k], i)
  BY NodeFacts, KidsInOrder
<1> QED BY <1>1, BelowIsTransitive DEF Within

\* An element that lies in another is one of its children or lies in one.
LEMMA KidAround ==
  ASSUME ForestInv, NEW i \in DOMAIN heap, NEW j \in DOMAIN heap, Below(j, i)
  PROVE  \E k \in DOMAIN heap[i].kids : Within(j, heap[i].kids[k])
<1> DEFINE kids == heap[i].kids
           n == Len(kids)
           o == heap[j].offset
           T == { k \in 1 .. n : End(heap[kids[k]]) > o }
<1>1. /\ kids \in Seq(Nat) /\ n \in Nat /\ DOMAIN kids = 1 .. n
      /\ \A m \in 1 .. n : kids[m] \in DOMAIN heap
      /\ ContentStart(heap[i]) \in Nat /\ ContentEnd(heap[i]) \in Nat
  BY NodeFacts
<1>2. /\ heap[j].offset \in Nat /\ ContentStart(heap[j]) \in Nat /\ End(heap[j]) \in Nat
      /\ heap[j].offset + 2 <= ContentStart(heap[j]) /\ o < End(heap[j])
  BY NodeFacts
<1>3. ContentStart(heap[i]) <= o /\ End(heap[j]) <= ContentEnd(heap[i])
  BY DEF Below, LiesIn
<1>4. heap[i].constructed BY BelowIsBefore
<1>5. Tiles(heap, kids, ContentStart(heap[i]), ContentEnd(heap[i]))
  BY <1>4 DEF ForestInv, ElementsTile, ElementIsWhole
<1>6. kids # <<>> BY <1>1, <1>2, <1>3, <1>5 DEF Tiles
<1>7. /\ heap[kids[1]].offset = ContentStart(heap[i])
      /\ End(heap[kids[n]]) = ContentEnd(heap[i])
      /\ \A m \in 1 .. n - 1 : End(heap[kids[m]]) = heap[kids[m + 1]].offset
  BY <1>5, <1>6 DEF Tiles
<1>8. n \in T BY <1>1, <1>2, <1>3, <1>6, <1>7
<1>9. PICK k \in T : \A m \in T : k <= m
  <2>1. T \in SUBSET Nat /\ T # {} BY <1>8
  <2> HIDE DEF T
  <2> QED BY <2>1, LeastElement
<1>10. k \in 1 .. n /\ o < End(heap[kids[k]]) BY <1>9
<1> DEFINE c == kids[k]
<1>11. c \in DOMAIN heap /\ heap[c].offset <= o
  <2>1. CASE k = 1 BY <1>1, <1>3, <1>7, <1>10, <2>1
  <2>2. CASE k # 1
    <3> DEFINE m == k - 1
    <3>1. m \in 1 .. n - 1 /\ m + 1 = k /\ m \in 1 .. n /\ m < k BY <1>1, <1>10, <2>2
    <3> HIDE DEF m
    <3>2. m \notin T BY <1>9, <3>1
    <3>3. ~ (End(heap[kids[m]]) > o) BY <3>1, <3>2
    <3>4. End(heap[kids[m]]) = heap[kids[k]].offset BY <1>7, <3>1
    <3>5. kids[m] \in DOMAIN heap BY <1>1, <3>1
    <3> HIDE DEF kids, T, n, o
    <3>6. End(heap[kids[m]]) \in Nat BY <3>5, NodeFacts
    <3>7. o \in Nat BY <1>2 DEF o
    <3>8. heap[kids[k]].offset <= o BY <3>3, <3>4, <3>6, <3>7
    <3> QED BY <1>1, <1>10, <3>8
  <2> QED BY <2>1, <2>2
<1>12. k \in DOMAIN heap[i].kids BY <1>1, <1>10
<1> HIDE DEF T, kids, n
<1>13. o < End(heap[c]) BY <1>10 DEF c
<1> HIDE DEF c
<1>14. /\ heap[c].offset \in Nat /\ ContentStart(heap[c]) \in Nat /\ End(heap[c]) \in Nat
       /\ heap[c].offset + 2 <= ContentStart(heap[c]) /\ c \in Nat /\ c >= 1
  BY <1>11, NodeFacts
<1>15. j \in Nat /\ j >= 1 BY NodeFacts
<1>16. Within(j, c)
  <2>1. CASE j < c
    <3>1. j \in 1 .. c - 1 BY <1>14, <1>15, <2>1
    <3>2. End(heap[j]) <= heap[c].offset \/ LiesIn(heap[j], heap[c])
      BY <1>11, <3>1 DEF ForestInv, ElementsNest
    <3> QED BY <1>2, <1>11, <1>14, <3>2 DEF Within, Below, o
  <2>2. CASE c < j
    <3>1. c \in 1 .. j - 1 BY <1>14, <1>15, <2>2
    <3>2. End(heap[c]) <= heap[j].offset \/ ContentStart(heap[j]) <= heap[c].offset
      BY <3>1 DEF ForestInv, ElementsNest, LiesIn
    <3> QED BY <1>2, <1>11, <1>13, <1>14, <3>2 DEF o
  <2> QED BY <1>14, <1>15, <2>1, <2>2 DEF Within
<1> QED BY <1>12, <1>16 DEF c, kids

\* It lies in one of them only.
LEMMA OneKidAround ==
  ASSUME ForestInv, NEW i \in DOMAIN heap, NEW j \in DOMAIN heap,
         NEW k \in DOMAIN heap[i].kids, NEW m \in DOMAIN heap[i].kids,
         Within(j, heap[i].kids[k]), Within(j, heap[i].kids[m])
  PROVE  k = m
<1>1. ASSUME NEW k1 \in DOMAIN heap[i].kids, NEW m1 \in DOMAIN heap[i].kids, m1 < k1,
             Within(j, heap[i].kids[k1]), Within(j, heap[i].kids[m1])
      PROVE  FALSE
  <2> DEFINE a == heap[i].kids[m1]
             b == heap[i].kids[k1]
  <2>1. m1 \in 1 .. k1 - 1 BY <1>1, KidFacts
  <2>2. End(heap[a]) <= heap[b].offset BY <2>1, KidsInOrder
  <2>3. a \in DOMAIN heap /\ b \in DOMAIN heap BY KidFacts
  <2> HIDE DEF a, b
  <2>4. End(heap[j]) <= End(heap[a]) /\ heap[b].offset <= heap[j].offset
    <3>1. /\ End(heap[a]) \in Nat /\ heap[b].offset \in Nat
          /\ End(heap[j]) \in Nat /\ heap[j].offset \in Nat
      BY <2>3, NodeFacts
    <3>2. Within(j, a) /\ Within(j, b) BY <1>1 DEF a, b
    <3>3. Below(j, a) => End(heap[j]) <= End(heap[a]) BY <2>3, BelowIsBefore
    <3>4. Below(j, b) => heap[b].offset < heap[j].offset BY <2>3, BelowIsBefore
    <3> QED BY <3>1, <3>2, <3>3, <3>4 DEF Within
  <2>5. heap[j].offset < End(heap[j]) /\ heap[j].offset \in Nat /\ End(heap[j]) \in Nat
    BY NodeFacts
  <2>6. End(heap[a]) \in Nat /\ heap[b].offset \in Nat BY <2>3, NodeFacts
  <2> QED BY <2>2, <2>4, <2>5, <2>6
<1>2. k \in Nat /\ m \in Nat BY KidFacts
<1>3. ~ (m < k) BY <1>1
<1>4. ~ (k < m) BY <1>1
<1> QED BY <1>2, <1>3, <1>4

-----------------------------------------------------------------------------
(* Navigation.  A path of numbers goes down from child to child; of two     *)
(* elements that paths lead to, one lies in the other exactly if its path   *)
(* extends the other's.                                                     *)

\* One step of at_path, from the node n.
Stepped(n, s) ==
  IF n = NoNode \/ s = EmptySegment THEN n
  ELSE IF s # BadSegment /\ s < Len(heap[n].kids) THEN heap[n].kids[s + 1]
  ELSE NoNode

VisitedTo(g, root, path) ==
  g = [k \in 0 .. Len(path) |->
         IF k = 0 THEN root
         ELSE IF g[k - 1] = NoNode \/ path[k] = EmptySegment THEN g[k - 1]
         ELSE IF path[k] # BadSegment /\ path[k] < Len(heap[g[k - 1]].kids)
         THEN heap[g[k - 1]].kids[path[k] + 1]
         ELSE NoNode]

Visited(root, path) == CHOOSE g : VisitedTo(g, root, path)

LEMMA NavigateIs ==
  ASSUME NEW root, NEW path
  PROVE  Navigate(heap, root, path) = Visited(root, path)[Len(path)]
BY Zenon DEF Navigate, Visited, VisitedTo

LEMMA SteppedStays ==
  ASSUME ForestInv, NEW n \in DOMAIN heap \cup {NoNode}, NEW s \in Segments
  PROVE  Stepped(n, s) \in DOMAIN heap \cup {NoNode}
<1>1. CASE n \in DOMAIN heap /\ s \in Nat /\ s < Len(heap[n].kids)
  <2>1. heap[n].kids \in Seq(Nat) BY <1>1, NodeFacts
  <2>2. s + 1 \in DOMAIN heap[n].kids BY <1>1, <2>1
  <2>3. heap[n].kids[s + 1] \in DOMAIN heap BY <1>1, <2>2, NodeFacts
  <2> QED BY <2>3 DEF Stepped
<1>2. CASE n = NoNode BY <1>2 DEF Stepped
<1>3. CASE ~ (s \in Nat /\ s < Len(heap[n].kids))
  BY <1>3 DEF Stepped, Segments, EmptySegment, BadSegment
<1> QED BY <1>1, <1>2, <1>3

LEMMA VisitedOf ==
  ASSUME ForestInv, NEW root \in DOMAIN heap \cup {NoNode}, NEW path \in Seq(Segments)
  PROVE  /\ Len(path) \in Nat
         /\ Visited(root, path)[0] = root
         /\ \A k \in 1 .. Len(path) :
              Visited(root, path)[k] = Stepped(Visited(root, path)[k - 1], path[k])
         /\ \A k \in 0 .. Len(path) : Visited(root, path)[k] \in DOMAIN heap \cup {NoNode}
<1> DEFINE n == Len(path)
           S == DOMAIN heap \cup {NoNode}
           step == [z \in S \X (1 .. n) |-> Stepped(z[1], path[z[2]])]
           V == Visited(root, path)
<1>1. n \in Nat /\ \A k \in 1 .. n : path[k] \in Segments OBVIOUS
<1>2. step \in [S \X (1 .. n) -> S]
  <2>1. ASSUME NEW z \in S \X (1 .. n) PROVE Stepped(z[1], path[z[2]]) \in S
    <3>1. z[1] \in S /\ path[z[2]] \in Segments BY <1>1
    <3> QED BY <3>1, SteppedStays
  <2> QED BY <2>1
<1>3. PICK g \in [0 .. n -> S] : Follows(g, n, root, step)
  <2> HIDE DEF step, S
  <2>1. root \in S BY DEF S
  <2> QED BY <1>1, <1>2, <2>1, Defined
<1> DEFINE e(k) == IF k = 0 THEN root ELSE step[<<g[k - 1], k>>]
           f(k) == IF k = 0 THEN root
                   ELSE IF g[k - 1] = NoNode \/ path[k] = EmptySegment THEN g[k - 1]
                   ELSE IF path[k] # BadSegment /\ path[k] < Len(heap[g[k - 1]].kids)
                   THEN heap[g[k - 1]].kids[path[k] + 1]
                   ELSE NoNode
<1>4. g = [k \in 0 .. n |-> e(k)] BY <1>3, Zenon DEF Follows
<1>5. ASSUME NEW k \in 0 .. n PROVE e(k) = f(k)
  <2>1. CASE k = 0 BY <2>1
  <2>2. CASE k # 0
    <3>1. k \in 1 .. n /\ k - 1 \in 0 .. n BY <2>2, <1>1
    <3>2. g[k - 1] \in S BY <1>3, <3>1
    <3> DEFINE z == <<g[k - 1], k>>
    <3>3. z \in S \X (1 .. n) /\ z[1] = g[k - 1] /\ z[2] = k BY <3>1, <3>2
    <3> HIDE DEF z
    <3>4. step[z] = Stepped(g[k - 1], path[k]) BY <3>3
    <3>5. e(k) = step[z] BY <2>2 DEF z
    <3>6. f(k) = Stepped(g[k - 1], path[k]) BY <2>2, Zenon DEF Stepped
    <3> QED BY <3>4, <3>5, <3>6
  <2> QED BY <2>1, <2>2
<1>6. g = [k \in 0 .. n |-> f(k)]
  <2> HIDE DEF e, f
  <2> QED BY <1>4, <1>5
<1>7. VisitedTo(g, root, path) BY <1>6, Zenon DEF VisitedTo
<1>8. VisitedTo(V, root, path) BY <1>7, Zenon DEF Visited
<1> HIDE DEF V, step
<1>9. /\ V[0] = root
      /\ \A k \in 1 .. n : V[k] = Stepped(V[k - 1], path[k])
  <2>1. V[0] = root BY <1>1, <1>8 DEF VisitedTo
  <2>2. ASSUME NEW k \in 1 .. n PROVE V[k] = Stepped(V[k - 1], path[k])
    <3>1. k \in 0 .. n /\ k # 0 BY <1>1
    <3> QED BY <1>8, <3>1, Zenon DEF VisitedTo, Stepped
  <2> QED BY <2>1, <2>2
<1>10. \A k \in 0 .. n : V[k] \in S
  <2>1. ASSUME NEW k \in 1 .. n, V[k - 1] \in S PROVE V[k] \in S
    <3>1. path[k] \in Segments BY <1>1
    <3>2. V[k] = Stepped(V[k - 1], path[k]) BY <1>9
    <3> QED BY <2>1, <3>1, <3>2, SteppedStays
  <2>2. V[0] \in S BY <1>9
  <2> HIDE DEF S
  <2> QED BY <1>1, <2>1, <2>2, StaysIn
<1> QED BY <1>1, <1>9, <1>10 DEF V

LEMMA NavigateEmpty ==
  ASSUME ForestInv, NEW root \in DOMAIN heap \cup {NoNode}
  PROVE  Navigate(heap, root, <<>>) = root
<1> DEFINE p == <<>>
<1>1. p \in Seq(Segments) /\ Len(p) = 0 OBVIOUS
<1> HIDE DEF p
<1>2. Visited(root, p)[0] = root BY <1>1, VisitedOf
<1>3. Navigate(heap, root, p) = root BY <1>1, <1>2, NavigateIs
<1> QED BY <1>3 DEF p

LEMMA NavigateStays ==
  ASSUME ForestInv, NEW root \in DOMAIN heap \cup {NoNode}, NEW path \in Seq(Segments)
  PROVE  Navigate(heap, root, path) \in DOMAIN heap \cup {NoNode}
<1>1. Len(path) \in Nat /\ Len(path) \in 0 .. Len(path) BY VisitedOf
<1> QED BY <1>1, NavigateIs, VisitedOf

\* The first segment, then the others.
LEMMA NavigateFirst ==
  ASSUME ForestInv, NEW root \in DOMAIN heap \cup {NoNode}, NEW s \in Segments,
         NEW path \in Seq(Segments)
  PROVE  Navigate(heap, root, <<s>> \o path) = Navigate(heap, Stepped(root, s), path)
<1> DEFINE whole == <<s>> \o path
           n == Len(path)
           next == Stepped(root, s)
           W == Visited(root, whole)
           V == Visited(next, path)
           U == [k \in 0 .. n |-> W[k + 1]]
<1>1. /\ whole \in Seq(Segments) /\ Len(whole) = n + 1 /\ n \in Nat
      /\ whole[1] = s /\ \A k \in 1 .. n : whole[k + 1] = path[k]
  OBVIOUS
<1>2. next \in DOMAIN heap \cup {NoNode} BY SteppedStays
<1> HIDE DEF whole, next
<1>3. W[0] = root /\ \A k \in 1 .. n + 1 : W[k] = Stepped(W[k - 1], whole[k])
  <2>1. W[0] = root /\ \A k \in 1 .. Len(whole) : W[k] = Stepped(W[k - 1], whole[k])
    <3> HIDE DEF n
    <3> QED BY <1>1, VisitedOf
  <2> QED BY <1>1, <2>1
<1>4. V[0] = next /\ \A k \in 1 .. n : V[k] = Stepped(V[k - 1], path[k])
  BY <1>2, VisitedOf
<1> HIDE DEF W, V
<1>5. U[0] = V[0]
  <2>1. 1 \in 1 .. n + 1 /\ 1 - 1 = 0 BY <1>1
  <2>2. W[1] = Stepped(root, s) BY <1>1, <1>3, <2>1
  <2> QED BY <1>1, <1>4, <2>2 DEF next
<1>6. ASSUME NEW k \in 1 .. n, U[k - 1] = V[k - 1] PROVE U[k] = V[k]
  <2> DEFINE j == k + 1
  <2>1. j \in 1 .. n + 1 /\ j - 1 = k /\ k - 1 \in 0 .. n /\ k \in 0 .. n /\ (k - 1) + 1 = k
    BY <1>1
  <2>2. U[k] = W[j] /\ U[k - 1] = W[k] BY <2>1
  <2>3. whole[j] = path[k] BY <1>1
  <2> HIDE DEF j, U
  <2>4. W[j] = Stepped(W[k], whole[j]) BY <1>3, <2>1
  <2>5. V[k] = Stepped(V[k - 1], path[k]) BY <1>4
  <2> QED BY <1>6, <2>2, <2>3, <2>4, <2>5
<1>7. \A k \in 0 .. n : U[k] = V[k]
  <2>1. n \in Nat BY <1>1
  <2> HIDE DEF U, n
  <2>2. GoAlike(U, V, n) BY <1>5, <1>6 DEF GoAlike
  <2>3. AreSame(U, V, n) BY <2>1, <2>2, StaySame
  <2> QED BY <2>3 DEF AreSame
<1>8. W[n + 1] = V[n]
  <2>1. n \in 0 .. n BY <1>1
  <2> QED BY <1>7, <2>1
<1>9. Navigate(heap, root, whole) = W[n + 1]
  BY <1>1, NavigateIs DEF W
<1>10. Navigate(heap, next, path) = V[n]
  BY NavigateIs DEF V
<1> QED BY <1>8, <1>9, <1>10 DEF whole, next

LEMMA NavigateNone ==
  ASSUME ForestInv, NEW path \in Seq(Segments)
  PROVE  Navigate(heap, NoNode, path) = NoNode
<1> DEFINE V == Visited(NoNode, path)
           n == Len(path)
<1>1. /\ n \in Nat /\ V[0] = NoNode
      /\ \A k \in 1 .. n : V[k] = Stepped(V[k - 1], path[k])
  BY VisitedOf
<1> HIDE DEF V
<1>2. \A k \in 1 .. n : V[k - 1] \in {NoNode} => V[k] \in {NoNode}
  BY <1>1 DEF Stepped
<1>3. \A k \in 0 .. n : V[k] \in {NoNode}
  BY <1>1, <1>2, StaysIn
<1>4. V[n] = NoNode
  <2>1. n \in 0 .. n BY <1>1
  <2> QED BY <1>3, <2>1
<1> QED BY <1>4, NavigateIs DEF V

LEMMA PathIsSegments ==
  ASSUME NEW p \in Seq(Nat) PROVE p \in Seq(Segments)
BY DEF Segments

\* Below the child that the first number of a path names.
LEMMA NavigateKid ==
  ASSUME ForestInv, NEW i \in DOMAIN heap, NEW c \in Nat, NEW p \in Seq(Nat)
  PROVE  /\ c + 1 \in DOMAIN heap[i].kids =>
              Navigate(heap, i, <<c>> \o p) = Navigate(heap, heap[i].kids[c + 1], p)
         /\ c + 1 \notin DOMAIN heap[i].kids => Navigate(heap, i, <<c>> \o p) = NoNode
<1>1. heap[i].kids \in Seq(Nat) /\ i \in Nat /\ i >= 1 BY NodeFacts
<1>2. p \in Seq(Segments) /\ c \in Segments BY PathIsSegments DEF Segments
<1>3. c + 1 \in DOMAIN heap[i].kids <=> c < Len(heap[i].kids) BY <1>1
<1>4. Stepped(i, c) = IF c < Len(heap[i].kids) THEN heap[i].kids[c + 1] ELSE NoNode
  BY <1>1 DEF Stepped, NoNode, EmptySegment, BadSegment
<1>5. Navigate(heap, i, <<c>> \o p) = Navigate(heap, Stepped(i, c), p)
  BY <1>2, NavigateFirst
<1>6. Navigate(heap, NoNode, p) = NoNode BY <1>2, NavigateNone
<1> QED BY <1>3, <1>4, <1>5, <1>6

\* A path is empty, or a number and a path.
LEMMA PathSplits ==
  ASSUME NEW p \in Seq(Nat)
  PROVE  p = <<>> \/ \E c \in Nat, t \in Seq(Nat) : p = <<c>> \o t
<1> SUFFICES ASSUME p # <<>> PROVE \E c \in Nat, t \in Seq(Nat) : p = <<c>> \o t OBVIOUS
<1>1. p[1] \in Nat /\ Tail(p) \in Seq(Nat) /\ p = <<p[1]>> \o Tail(p) OBVIOUS
<1> QED BY <1>1

FirstDecides(c, d, p, q) ==
  /\ <<c>> \o p = <<d>> \o q <=> c = d /\ p = q
  /\ IsStrictPrefix(<<c>> \o p, <<d>> \o q) <=> c = d /\ IsStrictPrefix(p, q)

LEMMA PathsCompare ==
  ASSUME NEW c \in Nat, NEW d \in Nat, NEW p \in Seq(Nat), NEW q \in Seq(Nat)
  PROVE  /\ FirstDecides(c, d, p, q)
         /\ IsStrictPrefix(<<>>, <<d>> \o q)
         /\ ~ IsStrictPrefix(<<c>> \o p, <<>>)
         /\ ~ IsStrictPrefix(<<>>, <<>>)
         /\ <<c>> \o p # <<>>
<1> DEFINE x == <<c>> \o p
           y == <<d>> \o q
           Shows(s, t) == Len(s) <= Len(t) /\ \A k \in 1 .. Len(s) : s[k] = t[k]
<1>1. /\ x \in Seq(Nat) /\ y \in Seq(Nat) /\ Len(x) = Len(p) + 1 /\ Len(y) = Len(q) + 1
      /\ x[1] = c /\ y[1] = d
      /\ \A k \in 1 .. Len(p) : x[k + 1] = p[k]
      /\ \A k \in 1 .. Len(q) : y[k + 1] = q[k]
      /\ Len(p) \in Nat /\ Len(q) \in Nat
  OBVIOUS
<1>2. ASSUME NEW s \in Seq(Nat), NEW t \in Seq(Nat) PROVE IsPrefix(s, t) <=> Shows(s, t)
  <2>1. Len(s) \in Nat /\ Len(t) \in Nat OBVIOUS
  <2>2. ASSUME Len(s) <= Len(t)
        PROVE  SubSeq(s, 1, Len(s)) = SubSeq(t, 1, Len(s)) <=> \A k \in 1 .. Len(s) : s[k] = t[k]
    <3> DEFINE a == SubSeq(s, 1, Len(s))
               b == SubSeq(t, 1, Len(s))
    <3>1. /\ a \in Seq(Nat) /\ Len(a) = Len(s) /\ \A k \in 1 .. Len(s) : a[k] = s[k]
          /\ b \in Seq(Nat) /\ Len(b) = Len(s) /\ \A k \in 1 .. Len(s) : b[k] = t[k]
      BY <2>1, <2>2
    <3> HIDE DEF a, b
    <3>2. a = b <=> \A k \in 1 .. Len(s) : a[k] = b[k]
      <4> DEFINE K == 1 .. Len(s)
      <4>1. a \in [K -> Nat] /\ b \in [K -> Nat] BY <3>1
      <4> HIDE DEF K
      <4>2. a = b <=> \A k \in K : a[k] = b[k] BY <4>1
      <4> QED BY <4>2 DEF K
    <3>3. a = b <=> \A k \in 1 .. Len(s) : s[k] = t[k] BY <3>1, <3>2
    <3> QED BY <3>3 DEF a, b
  <2> QED BY <2>2 DEF IsPrefix
<1>8. ASSUME NEW s \in Seq(Nat), NEW t \in Seq(Nat)
      PROVE  s = t <=> Shows(s, t) /\ Len(s) = Len(t)
  <2>1. /\ Len(s) \in Nat /\ s \in [1 .. Len(s) -> Nat]
        /\ Len(t) \in Nat /\ t \in [1 .. Len(t) -> Nat]
    OBVIOUS
  <2>2. ASSUME Shows(s, t), Len(s) = Len(t) PROVE s = t BY <2>1, <2>2
  <2>3. ASSUME s = t PROVE Shows(s, t) /\ Len(s) = Len(t) BY <2>1, <2>3
  <2> QED BY <2>2, <2>3
<1> HIDE DEF x, y
<1>3. Shows(x, y) <=> c = d /\ Shows(p, q)
  <2>1. ASSUME Shows(x, y) PROVE c = d /\ Shows(p, q)
    <3>1. 1 \in 1 .. Len(x) BY <1>1
    <3>2. c = d BY <1>1, <2>1, <3>1
    <3>3. ASSUME NEW k \in 1 .. Len(p) PROVE p[k] = q[k]
      <4>1. k + 1 \in 1 .. Len(x) /\ k \in 1 .. Len(q) BY <1>1, <2>1
      <4>2. x[k + 1] = y[k + 1] BY <2>1, <4>1
      <4> QED BY <1>1, <4>1, <4>2
    <3> QED BY <1>1, <2>1, <3>2, <3>3
  <2>2. ASSUME c = d, Shows(p, q) PROVE Shows(x, y)
    <3>1. ASSUME NEW k \in 1 .. Len(x) PROVE x[k] = y[k]
      <4>1. CASE k = 1 BY <1>1, <2>2, <4>1
      <4>2. CASE k # 1
        <5> DEFINE j == k - 1
        <5>1. j \in 1 .. Len(p) /\ j \in 1 .. Len(q) /\ j + 1 = k BY <1>1, <2>2, <4>2
        <5> HIDE DEF j
        <5>2. x[j + 1] = p[j] /\ y[j + 1] = q[j] /\ p[j] = q[j] BY <1>1, <2>2, <5>1
        <5> QED BY <5>1, <5>2
      <4> QED BY <4>1, <4>2
    <3> QED BY <1>1, <2>2, <3>1
  <2> QED BY <2>1, <2>2
<1>4. x = y <=> c = d /\ p = q
  <2> HIDE DEF Shows
  <2>1. p = q <=> Shows(p, q) /\ Len(p) = Len(q) BY <1>8
  <2>2. x = y <=> Shows(x, y) /\ Len(x) = Len(y) BY <1>1, <1>8
  <2> QED BY <1>1, <1>3, <2>1, <2>2
<1>5. IsStrictPrefix(x, y) <=> c = d /\ IsStrictPrefix(p, q)
  <2>1. IsPrefix(x, y) <=> Shows(x, y) BY <1>1, <1>2
  <2>2. IsPrefix(p, q) <=> Shows(p, q) BY <1>2
  <2> HIDE DEF Shows
  <2> QED BY <1>3, <1>4, <2>1, <2>2 DEF IsStrictPrefix
<1>6. IsStrictPrefix(<<>>, y) /\ ~ IsStrictPrefix(x, <<>>) /\ ~ IsStrictPrefix(<<>>, <<>>)
  <2>1. <<>> \in Seq(Nat) /\ Len(<<>>) = 0 /\ x # <<>> /\ y # <<>> BY <1>1
  <2>2. IsPrefix(<<>>, y)
    <3> DEFINE e == <<>>
    <3>1. e \in Seq(Nat) /\ Shows(e, y) BY <1>1
    <3> HIDE DEF e, Shows
    <3>2. IsPrefix(e, y) BY <1>1, <1>2, <3>1
    <3> QED BY <3>2 DEF e
  <2>3. ~ IsPrefix(x, <<>>)
    <3>1. ~ (Len(x) <= Len(<<>>)) BY <1>1, <2>1
    <3> QED BY <3>1 DEF IsPrefix
  <2> QED BY <2>1, <2>2, <2>3 DEF IsStrictPrefix
<1>7. x # <<>> BY <1>1
<1> QED BY <1>4, <1>5, <1>6, <1>7, Zenon DEF x, y, FirstDecides

LEMMA KidIndex ==
  ASSUME ForestInv, NEW i \in DOMAIN heap, NEW k \in DOMAIN heap[i].kids
  PROVE  heap[i].kids[k] \in 0 .. i - 1 /\ heap[i].kids[k] \in DOMAIN heap /\ i \in Nat
<1>1. heap[i].kids[k] \in DOMAIN heap /\ heap[i].kids[k] < i BY KidFacts
<1>2. i \in Nat BY NodeFacts
<1>3. heap[i].kids[k] \in Nat BY <1>1, NodeFacts
<1> QED BY <1>1, <1>2, <1>3

\* What a path leads to is in the forest, and lies in the element it starts at
\* unless the path is empty.
LEMMA PathsLeadBelow ==
  ASSUME ForestInv
  PROVE  \A i \in DOMAIN heap : \A p \in Seq(Nat) :
           Navigate(heap, i, p) # NoNode =>
             /\ Navigate(heap, i, p) \in DOMAIN heap
             /\ p = <<>> => Navigate(heap, i, p) = i
             /\ p # <<>> => Below(Navigate(heap, i, p), i)
<1> DEFINE Leads(i, p) ==
             Navigate(heap, i, p) # NoNode =>
               /\ Navigate(heap, i, p) \in DOMAIN heap
               /\ p = <<>> => Navigate(heap, i, p) = i
               /\ p # <<>> => Below(Navigate(heap, i, p), i)
           T == { i \in Nat : i \in DOMAIN heap => \A p \in Seq(Nat) : Leads(i, p) }
<1>1. ASSUME NEW i \in Nat, \A m \in 0 .. i - 1 : m \in T PROVE i \in T
  <2> SUFFICES ASSUME i \in DOMAIN heap, NEW p \in Seq(Nat) PROVE Leads(i, p) OBVIOUS
  <2>1. CASE p = <<>> BY <2>1, NavigateEmpty
  <2>2. CASE p # <<>>
    <3>1. PICK c \in Nat, t \in Seq(Nat) : p = <<c>> \o t BY <2>2, PathSplits
    <3> SUFFICES ASSUME Navigate(heap, i, p) # NoNode
                 PROVE  Navigate(heap, i, p) \in DOMAIN heap /\ Below(Navigate(heap, i, p), i)
      BY <2>2
    <3>2. c + 1 \in DOMAIN heap[i].kids BY <3>1, NavigateKid
    <3> DEFINE k == heap[i].kids[c + 1]
    <3>3. Navigate(heap, i, p) = Navigate(heap, k, t) BY <3>1, <3>2, NavigateKid
    <3>4. k \in 0 .. i - 1 /\ k \in DOMAIN heap BY <3>2, KidIndex
    <3> DEFINE n == Navigate(heap, k, t)
    <3>5. Leads(k, t) BY <1>1, <3>4
    <3>6. n \in DOMAIN heap /\ (n = k \/ Below(n, k)) BY <3>3, <3>5
    <3>7. Within(n, k) BY <3>6 DEF Within
    <3> HIDE DEF n
    <3>8. Below(n, i) BY <3>2, <3>6, <3>7, WithinKid
    <3> QED BY <3>3, <3>6, <3>8 DEF n
  <2> QED BY <2>1, <2>2
<1> HIDE DEF T
<1>2. \A i \in Nat : i \in T BY <1>1, StrongInduct
<1> QED BY <1>2, NodeFacts DEF T

LEMMA PathsLeadWithin ==
  ASSUME ForestInv, NEW i \in DOMAIN heap, NEW p \in Seq(Nat), Navigate(heap, i, p) # NoNode
  PROVE  Navigate(heap, i, p) \in DOMAIN heap /\ Within(Navigate(heap, i, p), i)
BY PathsLeadBelow DEF Within

\* Two paths that lead somewhere: which of the elements lies in which.
PathsTell(i, p, q) ==
  Navigate(heap, i, p) # NoNode /\ Navigate(heap, i, q) # NoNode =>
    /\ Navigate(heap, i, p) = Navigate(heap, i, q) => p = q
    /\ IsStrictPrefix(p, q) <=> Below(Navigate(heap, i, q), Navigate(heap, i, p))

LEMMA NotBelowBoth ==
  ASSUME ForestInv, NEW i \in DOMAIN heap, NEW j \in DOMAIN heap, Within(j, i)
  PROVE  ~ Below(i, j)
<1>1. i \in Nat /\ j \in Nat BY NodeFacts
<1>2. Below(j, i) => j < i BY BelowIsBefore
<1>3. Below(i, j) => i < j BY BelowIsBefore
<1> QED BY <1>1, <1>2, <1>3 DEF Within

LEMMA PathsTellOf ==
  ASSUME ForestInv
  PROVE  \A i \in DOMAIN heap : \A p \in Seq(Nat) : \A q \in Seq(Nat) : PathsTell(i, p, q)
<1> DEFINE T == { i \in Nat : i \in DOMAIN heap =>
                    \A p \in Seq(Nat) : \A q \in Seq(Nat) : PathsTell(i, p, q) }
<1>1. ASSUME NEW i \in Nat, \A m \in 0 .. i - 1 : m \in T PROVE i \in T
  <2> SUFFICES ASSUME i \in DOMAIN heap, NEW p \in Seq(Nat), NEW q \in Seq(Nat)
               PROVE  PathsTell(i, p, q)
    OBVIOUS
  <2> DEFINE a == Navigate(heap, i, p)
             b == Navigate(heap, i, q)
  <2> SUFFICES ASSUME a # NoNode, b # NoNode
               PROVE  (a = b => p = q) /\ (IsStrictPrefix(p, q) <=> Below(b, a))
    BY Zenon DEF PathsTell
  <2>1. a \in DOMAIN heap /\ b \in DOMAIN heap /\ Within(a, i) /\ Within(b, i)
    BY PathsLeadWithin
  <2>2. CASE p = <<>>
    <3>1. a = i BY <2>2, NavigateEmpty
    <3>2. CASE q = <<>>
      <4>1. b = i BY <3>2, NavigateEmpty
      <4>2. ~ Below(i, i) BY <2>1, <3>1, NotBelowBoth DEF Within
      <4>3. ~ IsStrictPrefix(p, q) BY <2>2, <3>2 DEF IsStrictPrefix
      <4> QED BY <2>2, <3>1, <3>2, <4>1, <4>2, <4>3
    <3>3. CASE q # <<>>
      <4>1. PICK d \in Nat, u \in Seq(Nat) : q = <<d>> \o u BY <3>3, PathSplits
      <4>2. IsStrictPrefix(p, q) BY <2>2, <4>1, PathsCompare
      <4>3. Below(b, i) BY <3>3, PathsLeadBelow
      <4>4. a # b BY <3>1, <4>3, NotBelowBoth DEF Within
      <4> QED BY <3>1, <4>2, <4>3, <4>4
    <3> QED BY <3>2, <3>3
  <2>3. CASE p # <<>> /\ q = <<>>
    <3>1. PICK c \in Nat, t \in Seq(Nat) : p = <<c>> \o t BY <2>3, PathSplits
    <3>2. b = i BY <2>3, NavigateEmpty
    <3>3. Below(a, i) BY <2>3, PathsLeadBelow
    <3>4. ~ Below(i, a) BY <2>1, NotBelowBoth
    <3>5. a # b BY <3>2, <3>3, <3>4
    <3>6. ~ IsStrictPrefix(p, q) BY <2>3, <3>1, PathsCompare
    <3> QED BY <3>2, <3>4, <3>5, <3>6
  <2>4. CASE p # <<>> /\ q # <<>>
    <3>1. PICK c \in Nat, t \in Seq(Nat) : p = <<c>> \o t BY <2>4, PathSplits
    <3>2. PICK d \in Nat, u \in Seq(Nat) : q = <<d>> \o u BY <2>4, PathSplits
    <3>3. c + 1 \in DOMAIN heap[i].kids /\ d + 1 \in DOMAIN heap[i].kids
      BY <3>1, <3>2, NavigateKid
    <3> DEFINE x == heap[i].kids[c + 1]
               y == heap[i].kids[d + 1]
    <3>4. a = Navigate(heap, x, t) /\ b = Navigate(heap, y, u)
      BY <3>1, <3>2, <3>3, NavigateKid
    <3>5. /\ x \in 0 .. i - 1 /\ x \in DOMAIN heap
          /\ y \in 0 .. i - 1 /\ y \in DOMAIN heap
      BY <3>3, KidIndex
    <3>6. Within(a, x) /\ Within(b, y)
      <4> HIDE DEF x, y, a, b
      <4>1. Navigate(heap, x, t) # NoNode /\ Navigate(heap, y, u) # NoNode BY <3>4
      <4> QED BY <3>4, <3>5, <4>1, PathsLeadWithin
    <3>7. /\ p = q <=> c = d /\ t = u
          /\ IsStrictPrefix(p, q) <=> c = d /\ IsStrictPrefix(t, u)
      <4>1. FirstDecides(c, d, t, u) BY <3>1, <3>2, PathsCompare
      <4> HIDE DEF a, b, x, y
      <4> QED BY <3>1, <3>2, <4>1, Zenon DEF FirstDecides
    <3>8. CASE c = d
      <4>1. x = y BY <3>8
      <4>2. PathsTell(x, t, u) BY <1>1, <3>5
      <4> HIDE DEF x, y, a, b
      <4>3. (a = b => t = u) /\ (IsStrictPrefix(t, u) <=> Below(b, a))
        BY <3>4, <4>1, <4>2, Zenon DEF PathsTell
      <4> QED BY <3>7, <3>8, <4>3
    <3>9. CASE c # d
      <4>1. ~ Within(b, x)
        <5>1. c + 1 # d + 1 BY <3>9
        <5> HIDE DEF a, b
        <5> QED BY <2>1, <3>3, <3>6, <5>1, OneKidAround
      <4> HIDE DEF x, y, a, b
      <4>2. ~ Below(b, a)
        <5> SUFFICES ASSUME Below(b, a) PROVE FALSE OBVIOUS
        <5>1. Below(a, x) => Below(b, x) BY <2>1, <3>5, BelowIsTransitive
        <5> QED BY <3>6, <4>1, <5>1 DEF Within
      <4>3. a # b BY <3>6, <4>1
      <4> QED BY <3>7, <3>9, <4>2, <4>3
    <3> QED BY <3>8, <3>9
  <2> QED BY <2>2, <2>3, <2>4
<1> HIDE DEF T
<1>2. \A i \in Nat : i \in T BY <1>1, StrongInduct
<1> QED BY <1>2, NodeFacts DEF T

-----------------------------------------------------------------------------
(* FlattenSeq puts sequences one after another: every item of the result is *)
(* an item of one of them, and they keep their order.                       *)

\* Item x of G is item at[x][2] of sequence at[x][1], of the first n.
Joins(G, n, seqs, at) ==
  /\ \A x \in DOMAIN G :
       /\ at[x][1] \in 1 .. n /\ at[x][2] \in DOMAIN seqs[at[x][1]]
       /\ G[x] = seqs[at[x][1]][at[x][2]]
  /\ \A x \in DOMAIN G : \A y \in DOMAIN G : x < y =>
       at[x][1] < at[y][1] \/ (at[x][1] = at[y][1] /\ at[x][2] < at[y][2])
  /\ \A m \in 1 .. n : \A r \in DOMAIN seqs[m] :
       \E x \in DOMAIN G : at[x][1] = m /\ at[x][2] = r

Joined(G, n, seqs) == \E at : Joins(G, n, seqs, at)

LEMMA JoinOneMore ==
  ASSUME NEW S, NEW n \in Nat, NEW seqs, NEW F \in Seq(S), Joined(F, n, seqs),
         seqs[n + 1] \in Seq(S)
  PROVE  Joined(F \o seqs[n + 1], n + 1, seqs)
<1> DEFINE t == seqs[n + 1]
           G == F \o t
           a == Len(F)
<1>1. /\ G \in Seq(S) /\ a \in Nat /\ Len(t) \in Nat /\ Len(G) = a + Len(t)
      /\ DOMAIN G = 1 .. a + Len(t) /\ DOMAIN F = 1 .. a /\ DOMAIN t = 1 .. Len(t)
      /\ \A x \in 1 .. a : G[x] = F[x]
      /\ \A r \in 1 .. Len(t) : G[a + r] = t[r]
  OBVIOUS
<1>2. PICK at : Joins(F, n, seqs, at) BY DEF Joined
<1> DEFINE new == [x \in DOMAIN G |-> IF x <= a THEN at[x] ELSE <<n + 1, x - a>>]
<1>3. /\ \A x \in 1 .. a : x \in DOMAIN G /\ new[x] = at[x]
      /\ \A x \in DOMAIN G : x > a =>
           new[x] = <<n + 1, x - a>> /\ new[x][1] = n + 1 /\ new[x][2] = x - a
  BY <1>1
<1> HIDE DEF new, G, t, a
<1>4. ASSUME NEW x \in DOMAIN G
      PROVE  /\ new[x][1] \in 1 .. n + 1 /\ new[x][2] \in DOMAIN seqs[new[x][1]]
             /\ G[x] = seqs[new[x][1]][new[x][2]]
             /\ x <= a => new[x][1] \in 1 .. n
  <2>1. CASE x <= a
    <3>1. x \in 1 .. a /\ x \in DOMAIN F BY <1>1, <2>1
    <3>2. /\ at[x][1] \in 1 .. n /\ at[x][2] \in DOMAIN seqs[at[x][1]]
          /\ F[x] = seqs[at[x][1]][at[x][2]]
      BY <1>2, <3>1, Zenon DEF Joins
    <3>3. new[x] = at[x] /\ G[x] = F[x] BY <1>1, <1>3, <3>1
    <3> QED BY <3>2, <3>3
  <2>2. CASE ~ (x <= a)
    <3> DEFINE r == x - a
    <3>1. r \in 1 .. Len(t) /\ x = a + r /\ x > a BY <1>1, <2>2
    <3>2. new[x][1] = n + 1 /\ new[x][2] = r BY <1>3, <3>1
    <3> HIDE DEF r
    <3>3. G[x] = t[r] /\ r \in DOMAIN t BY <1>1, <3>1
    <3> QED BY <2>2, <3>2, <3>3 DEF t
  <2> QED BY <2>1, <2>2
<1>5. ASSUME NEW x \in DOMAIN G, NEW y \in DOMAIN G, x < y
      PROVE  new[x][1] < new[y][1] \/ (new[x][1] = new[y][1] /\ new[x][2] < new[y][2])
  <2>0. x \in Nat /\ y \in Nat BY <1>1
  <2>1. CASE y <= a
    <3>1. x \in 1 .. a /\ y \in 1 .. a BY <1>1, <1>5, <2>1
    <3>2. x \in DOMAIN F /\ y \in DOMAIN F BY <1>1, <3>1
    <3>3. at[x][1] < at[y][1] \/ (at[x][1] = at[y][1] /\ at[x][2] < at[y][2])
      BY <1>2, <1>5, <3>2, Zenon DEF Joins
    <3> QED BY <1>3, <3>1, <3>3
  <2>2. CASE ~ (y <= a) /\ x <= a
    <3>1. new[y][1] = n + 1 BY <1>1, <1>3, <2>0, <2>2
    <3>2. new[x][1] \in 1 .. n BY <1>4, <2>2
    <3> QED BY <3>1, <3>2
  <2>3. CASE ~ (x <= a)
    <3>1. x > a /\ y > a BY <1>1, <1>5, <2>0, <2>3
    <3>2. new[x][1] = n + 1 /\ new[x][2] = x - a BY <1>3, <3>1
    <3>3. new[y][1] = n + 1 /\ new[y][2] = y - a BY <1>3, <3>1
    <3>4. x - a < y - a BY <1>1, <1>5, <2>0
    <3> QED BY <3>2, <3>3, <3>4
  <2> QED BY <2>1, <2>2, <2>3
<1>6. ASSUME NEW m \in 1 .. n + 1, NEW r \in DOMAIN seqs[m]
      PROVE  \E x \in DOMAIN G : new[x][1] = m /\ new[x][2] = r
  <2>1. CASE m = n + 1
    <3>1. r \in 1 .. Len(t) BY <1>1, <2>1 DEF t
    <3> DEFINE x == a + r
    <3>2. x \in DOMAIN G /\ x > a /\ x - a = r BY <1>1, <3>1
    <3> HIDE DEF x
    <3>3. new[x][1] = m /\ new[x][2] = r BY <1>3, <2>1, <3>2
    <3> QED BY <3>2, <3>3
  <2>2. CASE m # n + 1
    <3>1. m \in 1 .. n BY <2>2
    <3>2. PICK x \in DOMAIN F : at[x][1] = m /\ at[x][2] = r
      BY <1>2, <3>1, Zenon DEF Joins
    <3>3. x \in DOMAIN G /\ new[x] = at[x] BY <1>1, <1>3, <3>2
    <3> QED BY <3>2, <3>3
  <2> QED BY <2>1, <2>2
<1>7. Joins(G, n + 1, seqs, new) BY <1>4, <1>5, <1>6, Zenon DEF Joins
<1> QED BY <1>7, Zenon DEF Joined, G, t

LEMMA FlattenJoins ==
  ASSUME NEW S, NEW seqs \in Seq(Seq(S))
  PROVE  FlattenSeq(seqs) \in Seq(S) /\ Joined(FlattenSeq(seqs), Len(seqs), seqs)
<1> DEFINE n == Len(seqs)
<1>1. n \in Nat /\ \A k \in 1 .. n : seqs[k] \in Seq(S) OBVIOUS
<1>2. PICK h : Flattening(h, seqs) /\ FlattenSeq(seqs) = h[Len(seqs)] BY FlattenSteps
<1>3. h[0] = <<>> /\ \A k \in 1 .. n : h[k] = h[k - 1] \o seqs[k]
  BY <1>2, Zenon DEF Flattening, n
<1> DEFINE T == { k \in Nat : h[k] \in Seq(S) /\ Joined(h[k], k, seqs) }
<1>4. 0 \in T
  <2>1. Joins(<<>>, 0, seqs, <<>>) BY DEF Joins
  <2>2. Joined(h[0], 0, seqs) BY <1>3, <2>1 DEF Joined
  <2>3. h[0] \in Seq(S) BY <1>3
  <2> QED BY <2>2, <2>3
<1>5. ASSUME NEW k \in 0 .. n - 1, k \in T PROVE k + 1 \in T
  <2> DEFINE j == k + 1
  <2>1. j \in 1 .. n /\ j - 1 = k /\ k \in Nat BY <1>1
  <2> HIDE DEF j
  <2>2. h[j] = h[k] \o seqs[j] /\ seqs[j] \in Seq(S) BY <1>1, <1>3, <2>1
  <2>3. h[k] \in Seq(S) /\ Joined(h[k], k, seqs) BY <1>5
  <2>4. Joined(h[k] \o seqs[k + 1], k + 1, seqs)
    BY <2>1, <2>2, <2>3, JoinOneMore DEF j
  <2>5. h[k] \o seqs[j] \in Seq(S) BY <2>2, <2>3
  <2>6. h[j] \in Seq(S) /\ Joined(h[j], j, seqs) BY <2>2, <2>4, <2>5 DEF j
  <2> QED BY <2>1, <2>6 DEF j
<1>6. n \in T
  <2> HIDE DEF T, n
  <2>1. \A k \in 0 .. n : k \in T BY <1>1, <1>4, <1>5, UpTo
  <2> QED BY <1>1, <2>1
<1>7. FlattenSeq(seqs) = h[n] BY <1>2
<1> QED BY <1>6, <1>7

-----------------------------------------------------------------------------
(* The rows of the views.  own gives each node none or one row, with an     *)
(* empty path; RowsBelow collects them for a node and all that lies in it,  *)
(* in the order of the offsets, under the paths that lead to them.          *)

Placed(row, path) == [row EXCEPT !.path = path]

IsRow(row) == "path" \in DOMAIN row /\ row.path = <<>> /\ Placed(row, <<>>) = row

OwnRows(own) ==
  \A j \in DOMAIN heap : own[j] = <<>> \/ \E row : own[j] = <<row>> /\ IsRow(row)

RowSet(own) ==
  { Placed(own[z[1]][1], z[2]) : z \in { j \in DOMAIN heap : own[j] # <<>> } \X Seq(Nat) }

NodeAt(i, row) == Navigate(heap, i, row.path)

RowFor(own, i, row) ==
  /\ row.path \in Seq(Nat)
  /\ NodeAt(i, row) # NoNode
  /\ own[NodeAt(i, row)] # <<>>
  /\ row = Placed(own[NodeAt(i, row)][1], row.path)

RowsOk(own, i, rows) ==
  /\ rows \in Seq(RowSet(own))
  /\ \A r \in DOMAIN rows : RowFor(own, i, rows[r])
  /\ \A q \in DOMAIN rows : \A r \in DOMAIN rows : q < r =>
       heap[NodeAt(i, rows[q])].offset < heap[NodeAt(i, rows[r])].offset
  /\ \A j \in DOMAIN heap : Within(j, i) /\ own[j] # <<>> =>
       \E r \in DOMAIN rows : NodeAt(i, rows[r]) = j

\* The rows of the k-th child as its parent sees them.
Lifted(child, k) ==
  [r \in DOMAIN child |-> [child[r] EXCEPT !.path = ChildPath(k, child[r].path)]]

Lift(row, k) == [row EXCEPT !.path = ChildPath(k, row.path)]

RowsFrom(g, own, i) ==
  Collected(own[i], [k \in DOMAIN heap[i].kids |-> Lifted(g[heap[i].kids[k]], k)])

RowsTo(g, own) == g = [i \in DOMAIN heap |-> RowsFrom(g, own, i)]

LEMMA RowsExist ==
  ASSUME ForestInv, NEW own
  PROVE  \E g : RowsTo(g, own)
<1> DEFINE Is(g, n) == \A i \in 1 .. n : g[i] = RowsFrom(g, own, i)
           T == { n \in Nat : n <= Len(heap) => \E g : Is(g, n) }
<1>0. Len(heap) \in Nat /\ DOMAIN heap = 1 .. Len(heap) BY DEF ForestInv
<1>1. 0 \in T OBVIOUS
<1>2. ASSUME NEW n \in Nat, n \in T PROVE n + 1 \in T
  <2> SUFFICES ASSUME n + 1 <= Len(heap) PROVE \E g : Is(g, n + 1) OBVIOUS
  <2>1. PICK g : Is(g, n) BY <1>0, <1>2
  <2> DEFINE x == RowsFrom(g, own, n + 1)
             h == [i \in 1 .. n + 1 |-> IF i = n + 1 THEN x ELSE g[i]]
  <2>2. ASSUME NEW i \in 1 .. n + 1 PROVE RowsFrom(h, own, i) = RowsFrom(g, own, i)
    <3>1. i \in DOMAIN heap BY <1>0
    <3>2. ASSUME NEW k \in DOMAIN heap[i].kids PROVE h[heap[i].kids[k]] = g[heap[i].kids[k]]
      <4> DEFINE c == heap[i].kids[k]
      <4>1. c \in 0 .. i - 1 /\ c \in DOMAIN heap BY <3>1, KidIndex
      <4> HIDE DEF c
      <4>2. c \in 1 .. n + 1 /\ c # n + 1 BY <1>0, <4>1
      <4> HIDE DEF x
      <4> QED BY <4>2 DEF c
    <3> HIDE DEF h
    <3>3. [k \in DOMAIN heap[i].kids |-> Lifted(h[heap[i].kids[k]], k)] =
          [k \in DOMAIN heap[i].kids |-> Lifted(g[heap[i].kids[k]], k)]
      BY <3>2
    <3> QED BY <3>3, Zenon DEF RowsFrom
  <2>3. ASSUME NEW i \in 1 .. n + 1 PROVE h[i] = RowsFrom(h, own, i)
    <3>1. CASE i = n + 1
      <4> HIDE DEF x
      <4>1. h[i] = x BY <3>1
      <4> HIDE DEF h
      <4> QED BY <2>2, <3>1, <4>1 DEF x
    <3>2. CASE i # n + 1
      <4>1. i \in 1 .. n BY <3>2
      <4>2. h[i] = g[i]
        <5> HIDE DEF x
        <5> QED BY <3>2
      <4>3. g[i] = RowsFrom(g, own, i) BY <2>1, <4>1
      <4> HIDE DEF h
      <4> QED BY <2>2, <4>2, <4>3
    <3> QED BY <3>1, <3>2
  <2>4. Is(h, n + 1)
    <3> HIDE DEF h
    <3> QED BY <2>3
  <2> HIDE DEF Is, h
  <2> QED BY <2>4
<1>3. Len(heap) \in T
  <2> HIDE DEF T
  <2> QED BY <1>0, <1>1, <1>2, NatInduct
<1>4. PICK g : Is(g, Len(heap)) BY <1>0, <1>3
<1> DEFINE h == [i \in DOMAIN heap |-> g[i]]
<1>5. ASSUME NEW i \in DOMAIN heap PROVE g[i] = RowsFrom(h, own, i)
  <2>1. g[i] = RowsFrom(g, own, i) BY <1>0, <1>4
  <2>2. ASSUME NEW k \in DOMAIN heap[i].kids PROVE h[heap[i].kids[k]] = g[heap[i].kids[k]]
    <3> DEFINE c == heap[i].kids[k]
    <3>1. c \in DOMAIN heap BY KidIndex
    <3> HIDE DEF c
    <3> QED BY <3>1 DEF c
  <2> HIDE DEF h
  <2>3. [k \in DOMAIN heap[i].kids |-> Lifted(h[heap[i].kids[k]], k)] =
        [k \in DOMAIN heap[i].kids |-> Lifted(g[heap[i].kids[k]], k)]
    BY <2>2
  <2> QED BY <2>1, <2>3, Zenon DEF RowsFrom
<1>6. RowsTo(h, own)
  <2> DEFINE e(i) == RowsFrom(h, own, i)
  <2>1. h = [i \in DOMAIN heap |-> e(i)]
    <3> HIDE DEF e
    <3>1. \A i \in DOMAIN heap : g[i] = e(i) BY <1>5 DEF e
    <3> QED BY <3>1
  <2> HIDE DEF h
  <2> QED BY <2>1 DEF RowsTo
<1> QED BY <1>6

LEMMA RowsBelowIs ==
  ASSUME ForestInv, NEW own
  PROVE  \A i \in DOMAIN heap : RowsBelow(heap, own)[i] = RowsFrom(RowsBelow(heap, own), own, i)
<1> DEFINE R == RowsBelow(heap, own)
<1>1. R = CHOOSE g : RowsTo(g, own)
  BY Zenon DEF RowsBelow, RowsTo, RowsFrom, Lifted
<1>2. RowsTo(R, own) BY <1>1, RowsExist, Zenon
<1> HIDE DEF R
<1>3. \A i \in DOMAIN heap : R[i] = RowsFrom(R, own, i) BY <1>2, Zenon DEF RowsTo
<1> QED BY <1>3 DEF R

LEMMA OwnRow ==
  ASSUME NEW own, OwnRows(own), NEW j \in DOMAIN heap, own[j] # <<>>
  PROVE  IsRow(own[j][1]) /\ own[j] = <<own[j][1]>>
<1>1. PICK row : own[j] = <<row>> /\ IsRow(row) BY DEF OwnRows
<1>2. own[j][1] = row BY <1>1
<1> QED BY <1>1, <1>2

LEMMA PlacedFacts ==
  ASSUME NEW row, IsRow(row), NEW p, NEW q
  PROVE  Placed(row, p).path = p /\ Placed(Placed(row, p), q) = Placed(row, q)
BY DEF IsRow, Placed

LEMMA InRowSet ==
  ASSUME NEW own, NEW j \in DOMAIN heap, own[j] # <<>>, NEW p \in Seq(Nat)
  PROVE  Placed(own[j][1], p) \in RowSet(own)
<1> DEFINE z == <<j, p>>
<1>1. z \in { m \in DOMAIN heap : own[m] # <<>> } \X Seq(Nat) /\ z[1] = j /\ z[2] = p OBVIOUS
<1> HIDE DEF z
<1> QED BY <1>1 DEF RowSet

\* A row of a child is one of its parent, of the same node.
LEMMA LiftIsRow ==
  ASSUME ForestInv, NEW own, OwnRows(own), NEW i \in DOMAIN heap,
         NEW k \in DOMAIN heap[i].kids, NEW row, RowFor(own, heap[i].kids[k], row)
  PROVE  /\ RowFor(own, i, Lift(row, k)) /\ Lift(row, k) \in RowSet(own)
         /\ NodeAt(i, Lift(row, k)) = NodeAt(heap[i].kids[k], row)
         /\ NodeAt(i, Lift(row, k)) \in DOMAIN heap
         /\ Within(NodeAt(i, Lift(row, k)), heap[i].kids[k])
<1> DEFINE kid == heap[i].kids[k]
           j == NodeAt(kid, row)
           p == row.path
           q == ChildPath(k, p)
           x == own[j][1]
<1>1. kid \in DOMAIN heap BY KidIndex
<1>2. p \in Seq(Nat) /\ j # NoNode /\ own[j] # <<>> /\ row = Placed(x, p)
  BY Zenon DEF RowFor
<1>3. j \in DOMAIN heap /\ Within(j, kid)
  <2>1. Navigate(heap, kid, p) # NoNode BY <1>2 DEF NodeAt
  <2> HIDE DEF kid, p
  <2> QED BY <1>1, <1>2, <2>1, PathsLeadWithin DEF NodeAt, j, p
<1>4. IsRow(x)
  <2> HIDE DEF j
  <2> QED BY <1>2, <1>3, OwnRow
<1>5. k \in Nat /\ k >= 1 BY KidFacts
<1>6. k - 1 \in Nat /\ (k - 1) + 1 = k BY <1>5
<1>7. q = <<k - 1>> \o p /\ q \in Seq(Nat) BY <1>2, <1>6 DEF ChildPath
<1>8. Navigate(heap, i, q) = j
  <2> DEFINE c == k - 1
  <2>1. c \in Nat /\ c + 1 = k /\ c + 1 \in DOMAIN heap[i].kids BY <1>6
  <2> HIDE DEF c
  <2>2. Navigate(heap, i, <<c>> \o p) = Navigate(heap, heap[i].kids[c + 1], p)
    BY <1>2, <2>1, NavigateKid
  <2>3. Navigate(heap, heap[i].kids[c + 1], p) = j BY <2>1 DEF NodeAt
  <2>4. <<c>> \o p = q BY <1>7 DEF c
  <2> HIDE DEF j, p, q
  <2> QED BY <2>2, <2>3, <2>4
<1> HIDE DEF x, q, j, p, kid
<1>9. Lift(row, k) = Placed(row, q) BY DEF Lift, Placed, q, p
<1>10. Lift(row, k) = Placed(x, q) /\ Lift(row, k).path = q
  <2>1. Placed(Placed(x, p), q) = Placed(x, q) /\ Placed(x, q).path = q BY <1>4, PlacedFacts
  <2> QED BY <1>2, <1>9, <2>1
<1>11. NodeAt(i, Lift(row, k)) = j BY <1>8, <1>10 DEF NodeAt
<1>12. Lift(row, k) \in RowSet(own) BY <1>2, <1>3, <1>7, <1>10, InRowSet DEF x
<1>13. RowFor(own, i, Lift(row, k))
  BY <1>2, <1>7, <1>10, <1>11 DEF RowFor, x
<1> QED BY <1>3, <1>11, <1>12, <1>13 DEF j, kid

\* What lies in i, listed in the order of the blob, without i itself.
RowsUnder(own, i, rows) ==
  /\ rows \in Seq(RowSet(own))
  /\ \A r \in DOMAIN rows : /\ RowFor(own, i, rows[r])
                            /\ NodeAt(i, rows[r]) \in DOMAIN heap
                            /\ Below(NodeAt(i, rows[r]), i)
  /\ \A q \in DOMAIN rows : \A r \in DOMAIN rows : q < r =>
       heap[NodeAt(i, rows[q])].offset < heap[NodeAt(i, rows[r])].offset
  /\ \A j \in DOMAIN heap : Below(j, i) /\ own[j] # <<>> =>
       \E r \in DOMAIN rows : NodeAt(i, rows[r]) = j

LEMMA RowsOfKids ==
  ASSUME ForestInv, NEW own, OwnRows(own), NEW i \in DOMAIN heap, NEW R,
         \A k \in DOMAIN heap[i].kids : RowsOk(own, heap[i].kids[k], R[heap[i].kids[k]])
  PROVE  RowsUnder(own, i,
           FlattenSeq([k \in DOMAIN heap[i].kids |-> Lifted(R[heap[i].kids[k]], k)]))
<1> DEFINE kids == heap[i].kids
           n == Len(kids)
           child(k) == R[kids[k]]
           B == [k \in DOMAIN kids |-> Lifted(child(k), k)]
           G == FlattenSeq(B)
           S == RowSet(own)
<1>1. kids \in Seq(Nat) /\ n \in Nat /\ DOMAIN kids = 1 .. n BY NodeFacts
<1>2. \A k \in 1 .. n : RowsOk(own, kids[k], child(k)) BY <1>1
<1>3. ASSUME NEW k \in 1 .. n
      PROVE  /\ kids[k] \in DOMAIN heap /\ child(k) \in Seq(S)
             /\ B[k] \in Seq(S) /\ DOMAIN B[k] = DOMAIN child(k)
             /\ \A r \in DOMAIN child(k) : B[k][r] = Lift(child(k)[r], k)
             /\ \A r \in DOMAIN child(k) :
                  /\ RowFor(own, i, B[k][r])
                  /\ NodeAt(i, B[k][r]) = NodeAt(kids[k], child(k)[r])
                  /\ NodeAt(i, B[k][r]) \in DOMAIN heap
                  /\ Within(NodeAt(i, B[k][r]), kids[k])
  <2> DEFINE c == child(k)
  <2>1. k \in DOMAIN heap[i].kids /\ kids[k] \in DOMAIN heap BY <1>1, KidFacts
  <2>2. c \in Seq(S) /\ \A r \in DOMAIN c : RowFor(own, kids[k], c[r])
    BY <1>2, Zenon DEF RowsOk
  <2>3. B[k] = [r \in DOMAIN c |-> Lift(c[r], k)]
    BY <2>1, Zenon DEF Lifted, Lift
  <2> HIDE DEF B, c, S
  <2>4. DOMAIN B[k] = DOMAIN c /\ \A r \in DOMAIN c : B[k][r] = Lift(c[r], k)
    BY <2>3
  <2>5. ASSUME NEW r \in DOMAIN c
        PROVE  /\ RowFor(own, i, B[k][r]) /\ B[k][r] \in S
               /\ NodeAt(i, B[k][r]) = NodeAt(kids[k], c[r])
               /\ NodeAt(i, B[k][r]) \in DOMAIN heap
               /\ Within(NodeAt(i, B[k][r]), kids[k])
    <3>1. RowFor(own, heap[i].kids[k], c[r]) BY <2>2
    <3>2. B[k][r] = Lift(c[r], k) BY <2>4
    <3>3. /\ RowFor(own, i, Lift(c[r], k)) /\ Lift(c[r], k) \in RowSet(own)
          /\ NodeAt(i, Lift(c[r], k)) = NodeAt(heap[i].kids[k], c[r])
          /\ NodeAt(i, Lift(c[r], k)) \in DOMAIN heap
          /\ Within(NodeAt(i, Lift(c[r], k)), heap[i].kids[k])
      BY <2>1, <3>1, LiftIsRow
    <3> QED BY <3>2, <3>3 DEF S
  <2>6. B[k] \in Seq(S)
    <3>1. DOMAIN c = 1 .. Len(c) /\ Len(c) \in Nat BY <2>2
    <3>2. B[k] \in [1 .. Len(c) -> S]
      <4>1. \A r \in DOMAIN c : Lift(c[r], k) \in S BY <2>4, <2>5
      <4> QED BY <2>3, <3>1, <4>1
    <3> QED BY <3>1, <3>2
  <2> QED BY <2>1, <2>2, <2>4, <2>5, <2>6 DEF c
<1>4. B \in Seq(Seq(S)) /\ Len(B) = n /\ DOMAIN B = 1 .. n
  <2>1. B \in [1 .. n -> Seq(S)]
    <3>1. DOMAIN B = 1 .. n /\ \A k \in 1 .. n : B[k] \in Seq(S) BY <1>1, <1>3
    <3>2. B = [k \in 1 .. n |-> B[k]] BY <1>1
    <3> HIDE DEF B, S, n
    <3> QED BY <3>1, <3>2
  <2> HIDE DEF B, n, S
  <2> QED BY <1>1, <2>1
<1> HIDE DEF S, B, kids
<1>5. G \in Seq(S) /\ Joined(G, n, B) BY <1>4, FlattenJoins
<1> HIDE DEF G, n, child
<1>6. PICK at : Joins(G, n, B, at) BY <1>5 DEF Joined
<1> DEFINE m(x) == at[x][1]
           r(x) == at[x][2]
           N(x) == NodeAt(i, G[x])
<1>7. \A x \in DOMAIN G : m(x) \in 1 .. n /\ r(x) \in DOMAIN child(m(x)) /\ G[x] = B[m(x)][r(x)]
  <2>1. \A x \in DOMAIN G : m(x) \in 1 .. n /\ r(x) \in DOMAIN B[m(x)] /\ G[x] = B[m(x)][r(x)]
    BY <1>6, Zenon DEF Joins
  <2> HIDE DEF m, r
  <2> QED BY <1>3, <2>1
<1>8. \A x \in DOMAIN G : \A y \in DOMAIN G : x < y =>
        m(x) < m(y) \/ (m(x) = m(y) /\ r(x) < r(y))
  BY <1>6, Zenon DEF Joins
<1>9. \A k \in 1 .. n : \A t \in DOMAIN child(k) : \E x \in DOMAIN G : m(x) = k /\ r(x) = t
  <2>1. \A k \in 1 .. n : \A t \in DOMAIN B[k] : \E x \in DOMAIN G : m(x) = k /\ r(x) = t
    BY <1>6, Zenon DEF Joins
  <2> HIDE DEF m, r
  <2> QED BY <1>3, <2>1
<1> HIDE DEF m, r
<1>10. ASSUME NEW x \in DOMAIN G
       PROVE  /\ RowFor(own, i, G[x]) /\ N(x) \in DOMAIN heap /\ Below(N(x), i)
              /\ N(x) = NodeAt(kids[m(x)], child(m(x))[r(x)])
              /\ Within(N(x), kids[m(x)])
  <2>1. m(x) \in 1 .. n /\ r(x) \in DOMAIN child(m(x)) /\ G[x] = B[m(x)][r(x)] BY <1>7
  <2>2. /\ RowFor(own, i, B[m(x)][r(x)])
        /\ NodeAt(i, B[m(x)][r(x)]) = NodeAt(kids[m(x)], child(m(x))[r(x)])
        /\ NodeAt(i, B[m(x)][r(x)]) \in DOMAIN heap
        /\ Within(NodeAt(i, B[m(x)][r(x)]), kids[m(x)])
    BY <1>3, <2>1
  <2>3. m(x) \in DOMAIN heap[i].kids BY <1>1, <2>1 DEF kids, n
  <2> DEFINE node == N(x)
             k == m(x)
  <2>4. node \in DOMAIN heap /\ Within(node, heap[i].kids[k]) /\ k \in DOMAIN heap[i].kids
    BY <2>1, <2>2, <2>3 DEF kids
  <2> HIDE DEF node, k
  <2>5. Below(node, i) BY <2>4, WithinKid
  <2> QED BY <2>1, <2>2, <2>5 DEF node
<1>11. ASSUME NEW x \in DOMAIN G, NEW y \in DOMAIN G, x < y
       PROVE  heap[N(x)].offset < heap[N(y)].offset
  <2> DEFINE a == N(x)
             b == N(y)
             k == m(x)
             l == m(y)
  <2>1. /\ k \in 1 .. n /\ l \in 1 .. n /\ a \in DOMAIN heap /\ b \in DOMAIN heap
        /\ Within(a, kids[k]) /\ Within(b, kids[l])
        /\ a = NodeAt(kids[k], child(k)[r(x)]) /\ b = NodeAt(kids[l], child(l)[r(y)])
        /\ r(x) \in DOMAIN child(k) /\ r(y) \in DOMAIN child(l)
    BY <1>7, <1>10
  <2>2. k < l \/ (k = l /\ r(x) < r(y)) BY <1>8, <1>11
  <2> HIDE DEF a, b, k, l
  <2>3. CASE k = l /\ r(x) < r(y)
    <3> DEFINE c == child(k)
    <3>1. \A q \in DOMAIN c : \A t \in DOMAIN c : q < t =>
            heap[NodeAt(kids[k], c[q])].offset < heap[NodeAt(kids[k], c[t])].offset
      BY <1>2, <2>1, Zenon DEF RowsOk
    <3> HIDE DEF c
    <3>2. r(x) \in DOMAIN c /\ r(y) \in DOMAIN c BY <2>1, <2>3 DEF c
    <3>3. heap[NodeAt(kids[k], c[r(x)])].offset < heap[NodeAt(kids[k], c[r(y)])].offset
      BY <2>3, <3>1, <3>2
    <3>4. heap[a].offset < heap[b].offset BY <2>1, <2>3, <3>3 DEF c
    <3> QED BY <3>4 DEF a, b
  <2>4. CASE k < l
    <3>1. k \in DOMAIN heap[i].kids /\ l \in DOMAIN heap[i].kids BY <1>1, <2>1 DEF kids, n
    <3>2. k \in 1 .. l - 1 BY <1>1, <2>1, <2>4
    <3> DEFINE u == kids[k]
               v == kids[l]
    <3>3. End(heap[u]) <= heap[v].offset /\ u \in DOMAIN heap /\ v \in DOMAIN heap
      BY <3>1, <3>2, KidsInOrder, KidFacts DEF kids
    <3>4. Within(a, u) /\ Within(b, v) BY <2>1
    <3> HIDE DEF u, v
    <3>5. /\ End(heap[u]) \in Nat /\ heap[v].offset \in Nat
          /\ heap[a].offset \in Nat /\ End(heap[a]) \in Nat /\ heap[a].offset < End(heap[a])
          /\ heap[b].offset \in Nat
      BY <2>1, <3>3, NodeFacts
    <3>6. End(heap[a]) <= End(heap[u])
      <4>1. Below(a, u) => End(heap[a]) <= End(heap[u]) BY <2>1, <3>3, BelowIsBefore
      <4> QED BY <3>4, <3>5, <4>1 DEF Within
    <3>7. heap[v].offset <= heap[b].offset
      <4>1. Below(b, v) => heap[v].offset < heap[b].offset BY <2>1, <3>3, BelowIsBefore
      <4> QED BY <3>4, <3>5, <4>1 DEF Within
    <3>8. heap[a].offset < heap[b].offset BY <3>3, <3>5, <3>6, <3>7
    <3> QED BY <3>8 DEF a, b
  <2> QED BY <2>2, <2>3, <2>4
<1>12. ASSUME NEW j \in DOMAIN heap, Below(j, i), own[j] # <<>>
       PROVE  \E x \in DOMAIN G : N(x) = j
  <2>1. PICK k \in DOMAIN heap[i].kids : Within(j, heap[i].kids[k]) BY <1>12, KidAround
  <2>2. k \in 1 .. n /\ Within(j, kids[k]) BY <1>1, <2>1 DEF kids, n
  <2>3. \E t \in DOMAIN child(k) : NodeAt(kids[k], child(k)[t]) = j
    BY <1>2, <1>12, <2>2, Zenon DEF RowsOk
  <2>4. PICK t \in DOMAIN child(k) : NodeAt(kids[k], child(k)[t]) = j BY <2>3
  <2>5. PICK x \in DOMAIN G : m(x) = k /\ r(x) = t BY <1>9, <2>2, <2>4
  <2>6. N(x) = NodeAt(kids[m(x)], child(m(x))[r(x)]) BY <1>10
  <2>7. N(x) = j BY <2>4, <2>5, <2>6
  <2> QED BY <2>7
<1>13. RowsUnder(own, i, G)
  BY <1>5, <1>10, <1>11, <1>12, Zenon DEF RowsUnder, S
<1> QED BY <1>13 DEF G, B, kids, child

LEMMA RowsOfNode ==
  ASSUME ForestInv, NEW own, OwnRows(own), NEW i \in DOMAIN heap, NEW G, RowsUnder(own, i, G)
  PROVE  RowsOk(own, i, own[i] \o G)
<1> DEFINE S == RowSet(own)
           N(row) == NodeAt(i, row)
<1>1. /\ G \in Seq(S)
      /\ \A r \in DOMAIN G : RowFor(own, i, G[r]) /\ N(G[r]) \in DOMAIN heap /\ Below(N(G[r]), i)
      /\ \A q \in DOMAIN G : \A r \in DOMAIN G : q < r =>
           heap[N(G[q])].offset < heap[N(G[r])].offset
      /\ \A j \in DOMAIN heap : Below(j, i) /\ own[j] # <<>> => \E r \in DOMAIN G : N(G[r]) = j
  BY Zenon DEF RowsUnder
<1> HIDE DEF S
<1>2. CASE own[i] = <<>>
  <2>1. own[i] \o G = G BY <1>1, <1>2
  <2>2. \A j \in DOMAIN heap : Within(j, i) /\ own[j] # <<>> => \E r \in DOMAIN G : N(G[r]) = j
    <3> HIDE DEF N
    <3> QED BY <1>1, <1>2, Zenon DEF Within
  <2>3. RowsOk(own, i, G) BY <1>1, <2>2, Zenon DEF RowsOk, S
  <2> QED BY <2>1, <2>3
<1>3. CASE own[i] # <<>>
  <2> DEFINE w == own[i][1]
             rows == own[i] \o G
             e == <<>>
  <2>1. IsRow(w) /\ own[i] = <<w>> BY <1>3, OwnRow
  <2>2. w.path = e /\ Placed(w, e) = w BY <2>1 DEF IsRow
  <2>3. e \in Seq(Nat) OBVIOUS
  <2>4. N(w) = i
    <3>1. Navigate(heap, i, e) = i BY NavigateEmpty
    <3> HIDE DEF e, w
    <3> QED BY <2>2, <3>1 DEF NodeAt
  <2>5. i # NoNode BY NodeFacts DEF NoNode
  <2> HIDE DEF e
  <2>6. RowFor(own, i, w) /\ w \in S
    <3>1. Placed(own[i][1], e) \in RowSet(own) BY <1>3, <2>3, InRowSet
    <3> HIDE DEF N
    <3>2. NodeAt(i, w) = i BY <2>4 DEF N
    <3>3. w = Placed(own[NodeAt(i, w)][1], w.path) BY <2>2, <3>2 DEF w
    <3>4. w.path \in Seq(Nat) /\ NodeAt(i, w) # NoNode /\ own[NodeAt(i, w)] # <<>>
      BY <1>3, <2>2, <2>3, <2>5, <3>2
    <3> HIDE DEF w
    <3> QED BY <2>2, <3>1, <3>3, <3>4 DEF RowFor, S, w
  <2> HIDE DEF w
  <2>7. /\ rows \in Seq(S) /\ Len(G) \in Nat /\ DOMAIN rows = 1 .. Len(G) + 1 /\ rows[1] = w
        /\ DOMAIN G = 1 .. Len(G) /\ \A r \in 1 .. Len(G) : rows[r + 1] = G[r]
    BY <1>1, <2>1, <2>6
  <2> HIDE DEF rows
  <2>8. ASSUME NEW r \in DOMAIN rows
        PROVE  RowFor(own, i, rows[r]) /\ (r = 1 \/ (r - 1 \in DOMAIN G /\ rows[r] = G[r - 1]))
    <3>1. CASE r = 1 BY <2>6, <2>7, <3>1
    <3>2. CASE r # 1
      <4> DEFINE x == r - 1
      <4>1. x \in 1 .. Len(G) /\ x + 1 = r BY <2>7, <3>2
      <4> HIDE DEF x
      <4>2. rows[r] = G[x] /\ x \in DOMAIN G BY <2>7, <4>1
      <4> QED BY <1>1, <4>2 DEF x
    <3> QED BY <3>1, <3>2
  <2>9. ASSUME NEW q \in DOMAIN rows, NEW r \in DOMAIN rows, q < r
        PROVE  heap[N(rows[q])].offset < heap[N(rows[r])].offset
    <3>1. r # 1 /\ r \in Nat /\ q \in Nat BY <2>7, <2>9
    <3> DEFINE y == r - 1
    <3>2. y \in DOMAIN G /\ rows[r] = G[y] BY <2>8, <3>1
    <3>3. CASE q = 1
      <4> DEFINE b == N(G[y])
      <4>1. b \in DOMAIN heap /\ Below(b, i) BY <1>1, <3>2
      <4> HIDE DEF b
      <4>2. heap[i].offset < heap[b].offset BY <4>1, BelowIsBefore
      <4>3. N(rows[q]) = i BY <2>4, <2>7, <3>3
      <4>4. N(rows[r]) = b BY <3>2 DEF b
      <4> QED BY <4>2, <4>3, <4>4
    <3>4. CASE q # 1
      <4> DEFINE x == q - 1
      <4>1. x \in DOMAIN G /\ rows[q] = G[x] BY <2>8, <3>4
      <4>2. x < y BY <2>9, <3>1
      <4> HIDE DEF x, y
      <4>3. heap[N(G[x])].offset < heap[N(G[y])].offset BY <1>1, <3>2, <4>1, <4>2
      <4> QED BY <3>2, <4>1, <4>3
    <3> QED BY <3>3, <3>4
  <2>10. ASSUME NEW j \in DOMAIN heap, Within(j, i), own[j] # <<>>
         PROVE  \E r \in DOMAIN rows : N(rows[r]) = j
    <3>1. CASE j = i
      <4>1. 1 \in DOMAIN rows BY <2>7
      <4> QED BY <2>4, <2>7, <3>1, <4>1
    <3>2. CASE j # i
      <4>1. PICK x \in DOMAIN G : N(G[x]) = j
        <5> HIDE DEF N
        <5> QED BY <1>1, <2>10, <3>2 DEF Within
      <4>2. x \in 1 .. Len(G) /\ x + 1 \in DOMAIN rows BY <2>7, <4>1
      <4>3. rows[x + 1] = G[x] BY <2>7, <4>2
      <4> QED BY <4>1, <4>2, <4>3
    <3> QED BY <3>1, <3>2
  <2>11. RowsOk(own, i, rows)
    BY <2>7, <2>8, <2>9, <2>10, Zenon DEF RowsOk, S
  <2> QED BY <2>11 DEF rows
<1> QED BY <1>2, <1>3

\* What the walk collects: for every node, the rows of all that lies in it.
LEMMA RowsAreComplete ==
  ASSUME ForestInv, NEW own, OwnRows(own)
  PROVE  \A i \in DOMAIN heap : RowsOk(own, i, RowsBelow(heap, own)[i])
<1> DEFINE R == RowsBelow(heap, own)
           T == { i \in Nat : i \in DOMAIN heap => RowsOk(own, i, R[i]) }
<1>1. \A i \in DOMAIN heap : R[i] = RowsFrom(R, own, i) BY RowsBelowIs
<1> HIDE DEF R
<1>2. ASSUME NEW i \in Nat, \A m \in 0 .. i - 1 : m \in T PROVE i \in T
  <2> SUFFICES ASSUME i \in DOMAIN heap PROVE RowsOk(own, i, R[i]) OBVIOUS
  <2>1. ASSUME NEW k \in DOMAIN heap[i].kids
        PROVE  RowsOk(own, heap[i].kids[k], R[heap[i].kids[k]])
    <3>1. heap[i].kids[k] \in 0 .. i - 1 /\ heap[i].kids[k] \in DOMAIN heap BY KidIndex
    <3> QED BY <1>2, <3>1
  <2> DEFINE G == FlattenSeq([k \in DOMAIN heap[i].kids |-> Lifted(R[heap[i].kids[k]], k)])
  <2>2. RowsUnder(own, i, G) BY <2>1, RowsOfKids
  <2>3. R[i] = own[i] \o G BY <1>1, Zenon DEF RowsFrom, Collected
  <2> HIDE DEF G
  <2>4. RowsOk(own, i, own[i] \o G) BY <2>2, RowsOfNode
  <2> QED BY <2>3, <2>4
<1> HIDE DEF T
<1>3. \A i \in Nat : i \in T BY <1>2, StrongInduct
<1>4. \A i \in DOMAIN heap : RowsOk(own, i, R[i]) BY <1>3, NodeFacts DEF T
<1> QED BY <1>4 DEF R

-----------------------------------------------------------------------------
(* The tree that parse_rules returns spans the blob, so all lies in it.     *)

LEMMA ForestIs ==
  ASSUME IInv, OrderInv PROVE ForestInv
BY DEF ForestInv, IInv, Typed, OrderInv

LEMMA AllInTree ==
  ASSUME IInv, OrderInv, ReturnedTree
  PROVE  Tree \in DOMAIN heap /\ \A j \in DOMAIN heap : Within(j, Tree)
<1>1. ForestInv BY ForestIs
<1>2. Len(stack) = 1 /\ Top.p = Len(data) /\ Top = stack[1] /\ stack[1].kids # <<>>
  BY DEF IInv, Outcome, ReturnedTree, Returned, Top
<1>3. Len(stack[1].kids) = 1 BY <1>2 DEF IInv, OneElement, ReturnedTree
<1>4. Tiles(heap, stack[1].kids, 0, Len(data))
  <2>1. 1 \in DOMAIN stack BY <1>2 DEF IInv, Typed
  <2>2. Tiles(heap, stack[1].kids, stack[1].content, stack[1].p) BY <2>1 DEF IInv, CallsNest
  <2>3. stack[1].content = 0 BY DEF IInv, FrameKinds
  <2> QED BY <1>2, <2>2, <2>3
<1>5. stack[1].kids \in Seq(Nat)
  <2>0. stack \in Seq(Frames) BY DEF IInv, Typed
  <2>1. stack[1] \in Frames BY <1>2, <2>0
  <2> QED BY <2>1 DEF Frames
<1> DEFINE root == Tree
<1>6. root \in DOMAIN heap /\ heap[root].offset = 0 /\ End(heap[root]) = Len(data)
  BY <1>2, <1>3, <1>4, <1>5 DEF Tiles, Tree
<1> HIDE DEF root
<1>7. ASSUME NEW j \in DOMAIN heap PROVE Within(j, root)
  <2>1. End(heap[j]) <= Len(data) BY <1>2 DEF IInv, ElementsBehind
  <2>2. /\ heap[root].offset \in Nat /\ ContentStart(heap[root]) \in Nat
        /\ End(heap[root]) \in Nat /\ root \in Nat /\ root >= 1
    BY <1>1, <1>6, NodeFacts
  <2>3. /\ heap[j].offset \in Nat /\ ContentStart(heap[j]) \in Nat /\ End(heap[j]) \in Nat
        /\ heap[j].offset + 2 <= ContentStart(heap[j]) /\ heap[j].offset < End(heap[j])
        /\ j \in Nat /\ j >= 1
    BY <1>1, NodeFacts
  <2>4. CASE j < root
    <3>1. j \in 1 .. root - 1 BY <2>2, <2>3, <2>4
    <3>2. End(heap[j]) <= heap[root].offset \/ LiesIn(heap[j], heap[root])
      BY <1>6, <3>1 DEF OrderInv, ElementsNest
    <3> QED BY <1>6, <2>3, <3>2 DEF Within, Below
  <2>5. CASE root < j
    <3>1. root \in 1 .. j - 1 BY <2>2, <2>3, <2>5
    <3>2. End(heap[root]) <= heap[j].offset \/ ContentStart(heap[j]) <= heap[root].offset
      BY <3>1 DEF OrderInv, ElementsNest, LiesIn
    <3> QED BY <1>6, <2>1, <2>2, <2>3, <3>2
  <2> QED BY <2>2, <2>3, <2>4, <2>5 DEF Within
<1> QED BY <1>6, <1>7 DEF root

-----------------------------------------------------------------------------
(* asn1.tlv *)

TlvOwn == [i \in DOMAIN heap |-> <<TlvRow(i)>>]

LEMMA TlvOwnRows == OwnRows(TlvOwn) /\ \A i \in DOMAIN heap : TlvOwn[i] # <<>>
<1>1. ASSUME NEW i \in DOMAIN heap
      PROVE  TlvOwn[i] = <<TlvRow(i)>> /\ IsRow(TlvRow(i))
  <2>1. TlvOwn[i] = <<TlvRow(i)>> BY DEF TlvOwn
  <2> DEFINE v == IF heap[i].constructed THEN Null ELSE LeafValue(i)
             row == [path |-> <<>>, node |-> i, header_len |-> heap[i].header_len,
                     len |-> heap[i].content_len, value |-> v]
  <2>2. TlvRow(i) = row BY Zenon DEF TlvRow
  <2> HIDE DEF v
  <2>3. IsRow(row) BY DEF IsRow, Placed
  <2> QED BY <2>1, <2>2, <2>3
<1>2. OwnRows(TlvOwn)
  <2>1. \A i \in DOMAIN heap : \E row : TlvOwn[i] = <<row>> /\ IsRow(row) BY <1>1
  <2> QED BY <2>1 DEF OwnRows
<1> QED BY <1>1, <1>2

\* Its rows: one for every element, in their order, with what it says of it.
TlvRowsOk(rows) ==
  /\ DOMAIN rows = 1 .. Len(rows) /\ Len(rows) \in Nat
  /\ \A r \in DOMAIN rows :
       LET n == rows[r].node
       IN /\ n \in DOMAIN heap /\ rows[r].path \in Seq(Nat)
          /\ Navigate(heap, Tree, rows[r].path) = n
          /\ rows[r].header_len = heap[n].header_len /\ rows[r].len = heap[n].content_len
          /\ rows[r].value = IF heap[n].constructed THEN Null ELSE LeafValue(n)
  /\ \A q \in DOMAIN rows : \A r \in DOMAIN rows : q < r =>
       heap[rows[q].node].offset < heap[rows[r].node].offset
  /\ \A n \in DOMAIN heap : \E r \in DOMAIN rows : rows[r].node = n

LEMMA TlvRows ==
  ASSUME IInv, OrderInv, ReturnedTree
  PROVE  TlvRowsOk(Flatten(Tree))
<1> DEFINE rows == Flatten(Tree)
           N(r) == NodeAt(Tree, rows[r])
<1>1. ForestInv /\ Tree \in DOMAIN heap /\ \A j \in DOMAIN heap : Within(j, Tree)
  BY ForestIs, AllInTree
<1>2. RowsOk(TlvOwn, Tree, rows)
  <2>1. rows = RowsBelow(heap, TlvOwn)[Tree] BY Zenon DEF Flatten, TlvOwn
  <2>2. RowsOk(TlvOwn, Tree, RowsBelow(heap, TlvOwn)[Tree])
    BY <1>1, TlvOwnRows, RowsAreComplete
  <2> QED BY <2>1, <2>2
<1> HIDE DEF rows
<1>3. /\ rows \in Seq(RowSet(TlvOwn))
      /\ \A r \in DOMAIN rows : RowFor(TlvOwn, Tree, rows[r])
      /\ \A q \in DOMAIN rows : \A r \in DOMAIN rows : q < r =>
           heap[N(q)].offset < heap[N(r)].offset
      /\ \A j \in DOMAIN heap : Within(j, Tree) /\ TlvOwn[j] # <<>> =>
           \E r \in DOMAIN rows : N(r) = j
  BY <1>2, Zenon DEF RowsOk
<1>4. ASSUME NEW r \in DOMAIN rows
      PROVE  /\ N(r) \in DOMAIN heap /\ rows[r].path \in Seq(Nat)
             /\ Navigate(heap, Tree, rows[r].path) = N(r)
             /\ rows[r].node = N(r)
             /\ rows[r].header_len = heap[N(r)].header_len
             /\ rows[r].len = heap[N(r)].content_len
             /\ rows[r].value = IF heap[N(r)].constructed THEN Null ELSE LeafValue(N(r))
  <2>1. RowFor(TlvOwn, Tree, rows[r]) BY <1>3
  <2> DEFINE n == N(r)
             row == rows[r]
  <2>2. /\ row.path \in Seq(Nat) /\ n # NoNode /\ row = Placed(TlvOwn[n][1], row.path)
    BY <2>1, Zenon DEF RowFor
  <2>3. Navigate(heap, Tree, row.path) = n BY DEF NodeAt
  <2> HIDE DEF n, row
  <2>4. n \in DOMAIN heap BY <1>1, <2>2, <2>3, PathsLeadWithin
  <2>5. TlvOwn[n][1] = TlvRow(n) BY <2>4 DEF TlvOwn
  <2> DEFINE v == IF heap[n].constructed THEN Null ELSE LeafValue(n)
             w == [path |-> <<>>, node |-> n, header_len |-> heap[n].header_len,
                   len |-> heap[n].content_len, value |-> v]
  <2>6. TlvRow(n) = w BY Zenon DEF TlvRow
  <2> HIDE DEF v
  <2>7. \A p : LET x == Placed(w, p)
               IN x.node = n /\ x.header_len = heap[n].header_len
                  /\ x.len = heap[n].content_len /\ x.value = v
    BY DEF Placed
  <2> HIDE DEF w
  <2>8. row = Placed(w, row.path) BY <2>2, <2>5, <2>6
  <2>9. row.node = n /\ row.header_len = heap[n].header_len
        /\ row.len = heap[n].content_len /\ row.value = v
    BY <2>7, <2>8
  <2> QED BY <2>2, <2>3, <2>4, <2>9 DEF n, row, v
<1>5. DOMAIN rows = 1 .. Len(rows) /\ Len(rows) \in Nat BY <1>3
<1>6. \A n \in DOMAIN heap : \E r \in DOMAIN rows : N(r) = n
  BY <1>1, <1>3, TlvOwnRows
<1> HIDE DEF N
<1>7. TlvRowsOk(rows)
  <2>1. \A q \in DOMAIN rows : \A r \in DOMAIN rows : q < r =>
          heap[rows[q].node].offset < heap[rows[r].node].offset
    BY <1>3, <1>4 DEF N
  <2>2. \A n \in DOMAIN heap : \E r \in DOMAIN rows : rows[r].node = n BY <1>4, <1>6
  <2>3. \A r \in DOMAIN rows : 
          /\ rows[r].node \in DOMAIN heap /\ rows[r].path \in Seq(Nat)
          /\ Navigate(heap, Tree, rows[r].path) = rows[r].node
          /\ rows[r].header_len = heap[rows[r].node].header_len
          /\ rows[r].len = heap[rows[r].node].content_len
          /\ rows[r].value = IF heap[rows[r].node].constructed THEN Null
                             ELSE LeafValue(rows[r].node)
    BY <1>4
  <2> QED BY <1>5, <2>1, <2>2, <2>3, Zenon DEF TlvRowsOk
<1> QED BY <1>7 DEF rows

OneToOne(f, n, m) ==
  /\ f \in [1 .. n -> 1 .. m]
  /\ \A q \in 1 .. n : \A r \in 1 .. n : f[q] = f[r] => q = r
  /\ \A j \in 1 .. m : \E r \in 1 .. n : f[r] = j

LEMMA SameLength ==
  ASSUME NEW n \in Nat, NEW m \in Nat, NEW f, OneToOne(f, n, m)
  PROVE  n = m
<1>1. f \in Bijection(1 .. n, 1 .. m)
  BY DEF OneToOne, Bijection, Injection, Surjection, IsInjective
<1>2. ExistsBijection(1 .. n, 1 .. m) BY <1>1 DEF ExistsBijection
<1>3. Cardinality(1 .. m) = n BY <1>2, FS_CountingElements
<1>4. Cardinality(1 .. m) = m BY FS_Interval
<1> QED BY <1>3, <1>4

\* Every step of the reader keeps OrderInv beside IInv.
LEMMA TreeInvariance == Spec => [](IInv /\ OrderInv)
BY Invariance, OrderInvariance, PTL

(* asn1.tlv has one row for every element of any blob, in their order, and  *)
(* its paths show exactly what lies in what (tlvlist::walk).                *)
THEOREM OneRowPerElement == Spec => []RowsFollowTheBlob
<1>1. ASSUME IInv, OrderInv PROVE RowsFollowTheBlob
  <2> SUFFICES ASSUME ReturnedTree PROVE RowsFollowTheBlob BY DEF RowsFollowTheBlob
  <2> DEFINE rows == Flatten(Tree)
             N(r) == rows[r].node
  <2>1. TlvRowsOk(rows) BY <1>1, TlvRows
  <2>2. ForestInv /\ Tree \in DOMAIN heap BY <1>1, ForestIs, AllInTree
  <2> HIDE DEF rows
  <2>3. DOMAIN rows = 1 .. Len(rows) /\ Len(rows) \in Nat BY <2>1, Zenon DEF TlvRowsOk
  <2>4. \A r \in DOMAIN rows :
          /\ N(r) \in DOMAIN heap /\ rows[r].path \in Seq(Nat)
          /\ Navigate(heap, Tree, rows[r].path) = N(r)
          /\ rows[r].header_len = heap[N(r)].header_len /\ rows[r].len = heap[N(r)].content_len
    BY <2>1, Zenon DEF TlvRowsOk
  <2>5. \A q \in DOMAIN rows : \A r \in DOMAIN rows : q < r => heap[N(q)].offset < heap[N(r)].offset
    BY <2>1, Zenon DEF TlvRowsOk
  <2>6. \A n \in DOMAIN heap : \E r \in DOMAIN rows : N(r) = n
    BY <2>1, Zenon DEF TlvRowsOk
  <2>7. DOMAIN heap = 1 .. Len(heap) /\ Len(heap) \in Nat BY <2>2 DEF ForestInv
  <2> HIDE DEF N
  <2>8. Len(rows) = Len(heap)
    <3> DEFINE f == [r \in 1 .. Len(rows) |-> N(r)]
               n == Len(rows)
               m == Len(heap)
    <3>1. n \in Nat /\ m \in Nat /\ f \in [1 .. n -> 1 .. m] BY <2>3, <2>4, <2>7
    <3>2. \A q \in 1 .. n : \A r \in 1 .. n : f[q] = f[r] => q = r
      <4> SUFFICES ASSUME NEW q \in 1 .. n, NEW r \in 1 .. n, N(q) = N(r) PROVE q = r OBVIOUS
      <4>1. q \in DOMAIN rows /\ r \in DOMAIN rows /\ q \in Nat /\ r \in Nat BY <2>3
      <4> DEFINE a == N(q)
      <4>2. a \in DOMAIN heap /\ N(q) = a /\ N(r) = a BY <2>4, <4>1
      <4> HIDE DEF a
      <4>3. heap[a].offset \in Nat BY <2>2, <4>2, NodeFacts
      <4>4. ~ (q < r) BY <2>5, <4>1, <4>2, <4>3
      <4>5. ~ (r < q) BY <2>5, <4>1, <4>2, <4>3
      <4> QED BY <4>1, <4>4, <4>5
    <3>3. \A j \in 1 .. m : \E r \in 1 .. n : f[r] = j BY <2>3, <2>6, <2>7
    <3> HIDE DEF f, n, m
    <3>4. OneToOne(f, n, m) BY <3>1, <3>2, <3>3, Zenon DEF OneToOne
    <3>5. n = m BY <3>1, <3>4, SameLength
    <3> QED BY <3>5 DEF n, m
  <2>9. ASSUME NEW r \in 1 .. Len(rows) - 1
        PROVE  heap[N(r)].offset < heap[N(r + 1)].offset
    <3>1. r \in DOMAIN rows /\ r + 1 \in DOMAIN rows /\ r < r + 1 BY <2>3
    <3> QED BY <2>5, <3>1
  <2>10. ASSUME NEW q \in DOMAIN rows, NEW r \in DOMAIN rows
         PROVE  IsStrictPrefix(rows[q].path, rows[r].path) <=>
                  /\ heap[N(q)].offset + rows[q].header_len <= heap[N(r)].offset
                  /\ End(heap[N(r)]) <= heap[N(q)].offset + rows[q].header_len + rows[q].len
    <3> DEFINE a == N(q)
               b == N(r)
               p == rows[q].path
               s == rows[r].path
    <3>1. /\ a \in DOMAIN heap /\ b \in DOMAIN heap /\ p \in Seq(Nat) /\ s \in Seq(Nat)
          /\ Navigate(heap, Tree, p) = a /\ Navigate(heap, Tree, s) = b
          /\ rows[q].header_len = heap[a].header_len /\ rows[q].len = heap[a].content_len
      BY <2>4
    <3> HIDE DEF a, b, p, s
    <3>2. a # NoNode /\ b # NoNode BY <2>2, <3>1, NodeFacts DEF NoNode
    <3>3. PathsTell(Tree, p, s) BY <2>2, <3>1, PathsTellOf
    <3>4. IsStrictPrefix(p, s) <=> Below(b, a) BY <3>1, <3>2, <3>3, Zenon DEF PathsTell
    <3>5. Below(b, a) <=>
            /\ heap[a].offset + heap[a].header_len <= heap[b].offset
            /\ End(heap[b]) <= heap[a].offset + heap[a].header_len + heap[a].content_len
      BY Zenon DEF Below, LiesIn, ContentStart, ContentEnd
    <3>6. IsStrictPrefix(p, s) <=>
            /\ heap[a].offset + rows[q].header_len <= heap[b].offset
            /\ End(heap[b]) <= heap[a].offset + rows[q].header_len + rows[q].len
      BY <3>1, <3>4, <3>5
    <3> QED BY <3>6, Zenon DEF a, b, p, s
  <2> QED BY <2>8, <2>9, <2>10, Zenon DEF RowsFollowTheBlob, rows, N
<1> QED BY <1>1, TreeInvariance, PTL

-----------------------------------------------------------------------------
(* Any path that leads somewhere                                            *)

KeptTo(f, path) ==
  f = [k \in 0 .. Len(path) |->
         IF k = 0 THEN <<>>
         ELSE IF path[k] = EmptySegment THEN f[k - 1] ELSE Append(f[k - 1], path[k])]

Kept(path) == CHOOSE f : KeptTo(f, path)

\* The segments kept after k of them.
KeepsSegments(f, path) ==
  /\ f[0] = <<>>
  /\ \A k \in 1 .. Len(path) :
       f[k] = IF path[k] = EmptySegment THEN f[k - 1] ELSE Append(f[k - 1], path[k])

LEMMA KeptOf ==
  ASSUME NEW path \in Seq(Segments)
  PROVE  KeepsSegments(Kept(path), path) /\ Shortened(path) = Kept(path)[Len(path)]
<1> DEFINE n == Len(path)
           S == Seq(Segments)
           more(s, x) == IF x = EmptySegment THEN s ELSE Append(s, x)
           step == [z \in S \X (1 .. n) |-> more(z[1], path[z[2]])]
           c == <<>>
<1>1. n \in Nat /\ \A k \in 1 .. n : path[k] \in Segments OBVIOUS
<1>2. step \in [S \X (1 .. n) -> S]
  <2>1. ASSUME NEW z \in S \X (1 .. n) PROVE more(z[1], path[z[2]]) \in S
    <3>1. z[1] \in S /\ path[z[2]] \in Segments BY <1>1
    <3> QED BY <3>1
  <2> HIDE DEF more
  <2> QED BY <2>1
<1>3. c \in S OBVIOUS
<1> HIDE DEF c, more
<1>4. PICK g \in [0 .. n -> S] : Follows(g, n, c, step)
  <2> HIDE DEF step, S
  <2> QED BY <1>1, <1>2, <1>3, Defined
<1> DEFINE e(k) == IF k = 0 THEN c ELSE step[<<g[k - 1], k>>]
           f(k) == IF k = 0 THEN c ELSE more(g[k - 1], path[k])
<1>5. g = [k \in 0 .. n |-> e(k)] BY <1>4, Zenon DEF Follows
<1>6. ASSUME NEW k \in 0 .. n PROVE e(k) = f(k)
  <2>1. CASE k = 0 BY <2>1
  <2>2. CASE k # 0
    <3>1. k \in 1 .. n /\ k - 1 \in 0 .. n BY <2>2, <1>1
    <3>2. g[k - 1] \in S BY <1>4, <3>1
    <3> DEFINE z == <<g[k - 1], k>>
    <3>3. z \in S \X (1 .. n) /\ z[1] = g[k - 1] /\ z[2] = k BY <3>1, <3>2
    <3> HIDE DEF z
    <3>4. step[z] = more(g[k - 1], path[k]) BY <3>3
    <3>5. e(k) = step[z] BY <2>2 DEF z
    <3> QED BY <2>2, <3>4, <3>5
  <2> QED BY <2>1, <2>2
<1>7. g = [k \in 0 .. n |-> f(k)]
  <2> HIDE DEF e, f
  <2> QED BY <1>5, <1>6
<1>8. KeptTo(g, path) BY <1>7, Zenon DEF KeptTo, more, c
<1>9. KeptTo(Kept(path), path) BY <1>8, Zenon DEF Kept
<1> DEFINE K == Kept(path)
<1> HIDE DEF K, step
<1>10. K[0] = <<>>
  <2>1. 0 \in 0 .. n BY <1>1
  <2> QED BY <1>9, <2>1, Zenon DEF KeptTo, K
<1>11. ASSUME NEW k \in 1 .. n
       PROVE  K[k] = IF path[k] = EmptySegment THEN K[k - 1] ELSE Append(K[k - 1], path[k])
  <2>1. k \in 0 .. n /\ k # 0 BY <1>1
  <2> QED BY <1>9, <2>1, Zenon DEF KeptTo, K
<1>12. Shortened(path) = K[n] BY Zenon DEF Shortened, Kept, KeptTo, K
<1>13. KeepsSegments(K, path) BY <1>10, <1>11, Zenon DEF KeepsSegments
<1> QED BY <1>12, <1>13 DEF K

\* The last step.
LEMMA NavigateLast ==
  ASSUME ForestInv, NEW root \in DOMAIN heap \cup {NoNode}, NEW path \in Seq(Segments),
         NEW s \in Segments
  PROVE  Navigate(heap, root, Append(path, s)) = Stepped(Navigate(heap, root, path), s)
<1> DEFINE whole == Append(path, s)
           n == Len(path)
           W == Visited(root, whole)
           V == Visited(root, path)
<1>1. /\ whole \in Seq(Segments) /\ Len(whole) = n + 1 /\ n \in Nat
      /\ whole[n + 1] = s /\ \A k \in 1 .. n : whole[k] = path[k]
  OBVIOUS
<1> HIDE DEF whole
<1>2. W[0] = root /\ \A k \in 1 .. n + 1 : W[k] = Stepped(W[k - 1], whole[k])
  <2>1. W[0] = root /\ \A k \in 1 .. Len(whole) : W[k] = Stepped(W[k - 1], whole[k])
    <3> HIDE DEF n
    <3> QED BY <1>1, VisitedOf
  <2> QED BY <1>1, <2>1
<1>3. V[0] = root /\ \A k \in 1 .. n : V[k] = Stepped(V[k - 1], path[k])
  BY VisitedOf
<1> HIDE DEF W, V
<1>4. ASSUME NEW k \in 1 .. n, W[k - 1] = V[k - 1] PROVE W[k] = V[k]
  <2>1. k \in 1 .. n + 1 BY <1>1
  <2>2. W[k] = Stepped(W[k - 1], whole[k]) /\ whole[k] = path[k] BY <1>1, <1>2, <2>1
  <2>3. V[k] = Stepped(V[k - 1], path[k]) BY <1>3
  <2> QED BY <1>4, <2>2, <2>3
<1>5. \A k \in 0 .. n : W[k] = V[k]
  <2>1. n \in Nat BY <1>1
  <2>2. W[0] = V[0] BY <1>2, <1>3
  <2> HIDE DEF n
  <2>3. GoAlike(W, V, n) BY <1>4, <2>2 DEF GoAlike
  <2>4. AreSame(W, V, n) BY <2>1, <2>3, StaySame
  <2> QED BY <2>4 DEF AreSame
<1>6. W[n + 1] = Stepped(V[n], s)
  <2> DEFINE j == n + 1
  <2>1. j \in 1 .. n + 1 /\ j - 1 = n /\ n \in 0 .. n BY <1>1
  <2> HIDE DEF j
  <2>2. W[j] = Stepped(W[n], whole[j]) BY <1>2, <2>1
  <2>3. whole[j] = s /\ W[n] = V[n] BY <1>1, <1>5, <2>1 DEF j
  <2> QED BY <2>2, <2>3 DEF j
<1>7. Navigate(heap, root, whole) = W[n + 1] BY <1>1, NavigateIs DEF W
<1>8. Navigate(heap, root, path) = V[n] BY NavigateIs DEF V
<1> QED BY <1>6, <1>7, <1>8 DEF whole

\* Where a path leads to a node, it is one of numbers and empty segments, and
\* without these it leads there too.
LEMMA ShortenedLeads ==
  ASSUME ForestInv, NEW root \in DOMAIN heap, NEW path \in Seq(Segments),
         Navigate(heap, root, path) # NoNode
  PROVE  /\ Shortened(path) \in Seq(Nat)
         /\ Navigate(heap, root, Shortened(path)) = Navigate(heap, root, path)
<1> DEFINE n == Len(path)
           V == Visited(root, path)
           K == Kept(path)
           Leads(k) == V[k] # NoNode => K[k] \in Seq(Nat) /\ Navigate(heap, root, K[k]) = V[k]
           T == { k \in Nat : Leads(k) }
<1>1. /\ n \in Nat /\ V[0] = root
      /\ \A k \in 1 .. n : V[k] = Stepped(V[k - 1], path[k])
      /\ \A k \in 0 .. n : V[k] \in DOMAIN heap \cup {NoNode}
      /\ \A k \in 1 .. n : path[k] \in Segments
  BY VisitedOf
<1>2. /\ K[0] = <<>>
      /\ \A k \in 1 .. n :
           K[k] = IF path[k] = EmptySegment THEN K[k - 1] ELSE Append(K[k - 1], path[k])
  BY KeptOf, Zenon DEF KeepsSegments
<1>3. Shortened(path) = K[n] BY KeptOf
<1>4. Navigate(heap, root, path) = V[n] BY NavigateIs
<1> HIDE DEF K, V
<1>5. 0 \in T
  <2>1. Navigate(heap, root, <<>>) = root BY NavigateEmpty
  <2>2. K[0] \in Seq(Nat) BY <1>2
  <2> QED BY <1>1, <1>2, <2>1, <2>2
<1>6. ASSUME NEW k \in 1 .. n, k - 1 \in T PROVE Leads(k)
  <2> SUFFICES ASSUME V[k] # NoNode
               PROVE  K[k] \in Seq(Nat) /\ Navigate(heap, root, K[k]) = V[k]
    OBVIOUS
  <2> DEFINE m == V[k - 1]
             p == K[k - 1]
             s == path[k]
  <2>1. V[k] = Stepped(m, s) /\ s \in Segments BY <1>1
  <2>2. m # NoNode BY <2>1 DEF Stepped
  <2>3. p \in Seq(Nat) /\ Navigate(heap, root, p) = m BY <1>6, <2>2
  <2>4. K[k] = IF s = EmptySegment THEN p ELSE Append(p, s) BY <1>2
  <2> HIDE DEF m, p, s
  <2>5. CASE s = EmptySegment
    <3>1. V[k] = m BY <2>1, <2>5 DEF Stepped
    <3> QED BY <2>3, <2>4, <2>5, <3>1
  <2>6. CASE s # EmptySegment
    <3>1. s # BadSegment BY <2>1, <2>2, <2>6 DEF Stepped
    <3>2. s \in Nat BY <2>1, <2>6, <3>1 DEF Segments
    <3>3. Navigate(heap, root, Append(p, s)) = Stepped(m, s)
      <4>1. p \in Seq(Segments) BY <2>3, PathIsSegments
      <4>2. Navigate(heap, root, Append(p, s)) = Stepped(Navigate(heap, root, p), s)
        BY <2>1, <4>1, NavigateLast
      <4> QED BY <2>3, <4>2
    <3>4. Append(p, s) \in Seq(Nat) BY <2>3, <3>2
    <3> QED BY <2>1, <2>4, <2>6, <3>3, <3>4
  <2> QED BY <2>5, <2>6
<1>7. n \in T
  <2> HIDE DEF Leads, n
  <2>1. ASSUME NEW k \in 0 .. n - 1, k \in T PROVE k + 1 \in T
    <3> DEFINE j == k + 1
    <3>1. j \in 1 .. n /\ j - 1 = k BY <1>1
    <3> HIDE DEF j
    <3>2. Leads(j) /\ j \in Nat BY <1>6, <2>1, <3>1
    <3> QED BY <3>2 DEF j
  <2> HIDE DEF T
  <2>2. \A k \in 0 .. n : k \in T BY <1>1, <1>5, <2>1, UpTo
  <2> QED BY <1>1, <2>2
<1>8. V[n] # NoNode BY <1>4
<1> QED BY <1>3, <1>4, <1>7, <1>8

EveryPathLeads ==
  ReturnedTree => \A path \in Seq(Segments) : LeadsToItsRow(Flatten(Tree), path)

(* Every path that asn1.tlv prints leads at_path back to the row's element, *)
(* and any path at all that leads to an element is the path of its row,     *)
(* empty segments apart.                                                    *)
THEOREM EveryPathLeadsBack == Spec => [](PathsLeadBack /\ EveryPathLeads)
<1>1. ASSUME IInv, OrderInv, ReturnedTree, NEW path \in Seq(Segments)
      PROVE  LeadsToItsRow(Flatten(Tree), path)
  <2> DEFINE rows == Flatten(Tree)
             node == Navigate(heap, Tree, path)
             p == Shortened(path)
  <2>1. TlvRowsOk(rows) BY <1>1, TlvRows
  <2>2. ForestInv /\ Tree \in DOMAIN heap BY <1>1, ForestIs, AllInTree
  <2> HIDE DEF rows
  <2> SUFFICES ASSUME node # NoNode
               PROVE  \E r \in DOMAIN rows : rows[r].node = node /\ rows[r].path = p
    BY Zenon DEF LeadsToItsRow, rows
  <2>3. p \in Seq(Nat) /\ Navigate(heap, Tree, p) = node BY <2>2, ShortenedLeads
  <2>4. node \in DOMAIN heap BY <2>2, NavigateStays
  <2> HIDE DEF node, p
  <2>5. PICK r \in DOMAIN rows : rows[r].node = node
    BY <2>1, <2>4, Zenon DEF TlvRowsOk
  <2> DEFINE q == rows[r].path
  <2>6. q \in Seq(Nat) /\ Navigate(heap, Tree, q) = node
    BY <2>1, <2>5, Zenon DEF TlvRowsOk
  <2> HIDE DEF q
  <2>7. PathsTell(Tree, q, p) BY <2>2, <2>3, <2>6, PathsTellOf
  <2>8. node # NoNode OBVIOUS
  <2>9. q = p BY <2>3, <2>6, <2>7, <2>8, Zenon DEF PathsTell
  <2> QED BY <2>5, <2>9 DEF q
<1>2. ASSUME IInv, OrderInv PROVE EveryPathLeads BY <1>1, <1>2 DEF EveryPathLeads
<1>3. ASSUME IInv, OrderInv PROVE PathsLeadBack
  <2> SUFFICES ASSUME ReturnedTree PROVE PathsLeadBack BY DEF PathsLeadBack
  <2> DEFINE rows == Flatten(Tree)
  <2>1. TlvRowsOk(rows) BY <1>3, TlvRows
  <2>2. ASSUME NEW path \in BoundedSeq({BadSegment, EmptySegment, 0, 1, 2}, 3)
        PROVE  path \in Seq(Segments)
    <3> DEFINE S == {BadSegment, EmptySegment, 0, 1, 2}
    <3>1. S \subseteq Segments BY DEF Segments
    <3> HIDE DEF S
    <3>2. PICK m \in 0 .. 3 : path \in [1 .. m -> S] BY <2>2, Zenon DEF BoundedSeq, SeqOf, S
    <3>3. path \in [1 .. m -> Segments] BY <3>1, <3>2
    <3> QED BY <3>3
  <2>3. \A path \in BoundedSeq({BadSegment, EmptySegment, 0, 1, 2}, 3) : LeadsToItsRow(rows, path)
    BY <1>1, <1>3, <2>2
  <2> HIDE DEF rows
  <2>4. \A r \in DOMAIN rows : Navigate(heap, Tree, rows[r].path) = rows[r].node
    BY <2>1, Zenon DEF TlvRowsOk
  <2> QED BY <2>3, <2>4, Zenon DEF PathsLeadBack, rows
<1>4. IInv /\ OrderInv => PathsLeadBack /\ EveryPathLeads BY <1>2, <1>3
<1> QED BY <1>4, TreeInvariance, PTL

-----------------------------------------------------------------------------
(* asn1.oids.  The arc modulus is a multiple of 128, so what a shift leaves *)
(* in the accumulator has room for seven more bits: checked_add never fails,*)
(* and decode_oid refuses what is no run of subidentifiers, nothing else.   *)

LEMMA RoomForSeptet ==
  ASSUME NEW s \in SubStates, NEW b \in Byte
  PROVE  SubAcc(s, b) < ArcModulus
<1> DEFINE a == s.acc
           M == ArcModulus
           q == M \div 128
           k == (128 * a) \div M
           r == (128 * a) % M
           u == q * k
           t == a - u
<1>1. a \in Nat /\ M \in Nat /\ M >= 128 BY ArcModulusAssumption DEF SubStates
<1>2. q \in Int /\ M = 128 * q
  <2>1. M % 128 = 0 BY ArcModulusAssumption
  <2> QED BY <1>1, <2>1, DividesInto
<1>3. k \in Int /\ r \in 0 .. M - 1 /\ 128 * a = M * k + r
  <2> DEFINE x == 128 * a
  <2>1. x \in Int BY <1>1
  <2> HIDE DEF x, a, M
  <2>2. M \in Nat \ {0} BY <1>1
  <2>3. x \div M \in Int /\ x % M \in 0 .. M - 1 /\ x = M * (x \div M) + (x % M)
    BY <2>1, <2>2, DividesInto
  <2> QED BY <2>3 DEF x
<1>4. b % 128 \in 0 .. 127 BY DEF Byte
<1> HIDE DEF a, M, q, k, r
<1>5. M * k = 128 * u /\ u \in Int BY <1>2, <1>3
<1>6. r = 128 * t /\ t \in Int
  <2> HIDE DEF u
  <2> QED BY <1>1, <1>3, <1>5
<1>7. t < q
  <2> HIDE DEF t
  <2> QED BY <1>2, <1>3, <1>6
<1>8. r + 127 < M
  <2> HIDE DEF t
  <2> QED BY <1>2, <1>6, <1>7
<1>9. r + (b % 128) < M BY <1>1, <1>3, <1>4, <1>8
<1> QED BY <1>9 DEF SubAcc, r, M, a

LEMMA ByteIsNat == ASSUME NEW b \in Byte PROVE b \in Nat
BY DEF Byte

LEMMA TwoAndMore ==
  ASSUME NEW x \in Seq(Nat), NEW y \in Seq(Nat), Len(x) = 2
  PROVE  x \o y # <<>>
<1>1. Len(x \o y) = Len(x) + Len(y) BY ConcatFacts, Zenon
<1>2. Len(y) \in Nat OBVIOUS
<1>3. Len(x \o y) # 0 BY <1>1, <1>2
<1> QED BY <1>3

LEMMA FirstArcsAreTwo ==
  ASSUME NEW x \in Nat
  PROVE  FirstArcs(x) \in Seq(Nat) /\ Len(FirstArcs(x)) = 2
BY DEF FirstArcs

LEMMA DecodesSubidentifiers ==
  ASSUME NEW bytes \in Seq(Byte)
  PROVE  DecodeOid(bytes) # NoOid <=> AreSubidentifiers(bytes)
<1> DEFINE n == Len(bytes)
<1>1. n \in Nat /\ \A k \in 1 .. n : bytes[k] \in Byte OBVIOUS
<1>2. PICK g \in [0 .. n -> SubStates] :
        /\ g[0] = SubStart
        /\ \A k \in 1 .. n : g[k] = SubStep(g[k - 1], bytes[k])
        /\ Subidentifiers(bytes) = g[n]
  BY ScanChosen
<1> DEFINE Marked(k) == k >= 1 /\ bytes[k] >= 128
           Lone(j) == bytes[j] = 128 /\ ~ Marked(j - 1)
<1>3. ASSUME NEW k \in 1 .. n
      PROVE  /\ g[k].started <=> Marked(k)
             /\ g[k].failed <=> g[k - 1].failed \/ (~ g[k - 1].started /\ bytes[k] = 128)
             /\ g[k].arcs = IF bytes[k] < 128 THEN Append(g[k - 1].arcs, SubAcc(g[k - 1], bytes[k]))
                            ELSE g[k - 1].arcs
             /\ g[k - 1] \in SubStates /\ bytes[k] \in Byte
  <2>1. k - 1 \in 0 .. n /\ k >= 1 BY <1>1
  <2>2. g[k - 1] \in SubStates /\ bytes[k] \in Byte BY <1>1, <1>2, <2>1
  <2>3. SubAcc(g[k - 1], bytes[k]) < ArcModulus /\ SubAcc(g[k - 1], bytes[k]) \in Nat
    BY <2>2, RoomForSeptet, SubAccIsNat
  <2>4. ~ (SubAcc(g[k - 1], bytes[k]) >= ArcModulus)
    BY <2>3, ArcModulusAssumption
  <2> DEFINE s == g[k - 1]
             b == bytes[k]
  <2>5. g[k] = SubStep(s, b) BY <1>2
  <2>6. b \in Nat BY <2>2, ByteIsNat
  <2> HIDE DEF s, b
  <2>7. /\ SubStep(s, b).started <=> b >= 128
        /\ SubStep(s, b).failed <=>
             s.failed \/ (~ s.started /\ b = 128) \/ SubAcc(s, b) >= ArcModulus
        /\ SubStep(s, b).arcs = IF b < 128 THEN Append(s.arcs, SubAcc(s, b)) ELSE s.arcs
    BY Zenon DEF SubStep
  <2>8. ~ (SubAcc(s, b) >= ArcModulus) BY <2>4 DEF s, b
  <2>9. g[k].started <=> Marked(k) BY <2>1, <2>5, <2>7 DEF b
  <2> QED BY <2>2, <2>5, <2>7, <2>8, <2>9 DEF s, b
<1>4. ~ g[0].started /\ ~ g[0].failed BY <1>2 DEF SubStart
<1>5. \A k \in 0 .. n : g[k].started <=> Marked(k)
  <2> SUFFICES ASSUME NEW k \in 0 .. n PROVE g[k].started <=> Marked(k) OBVIOUS
  <2>1. k = 0 \/ k \in 1 .. n BY <1>1
  <2> QED BY <1>3, <1>4, <2>1
<1>6. \A k \in 0 .. n : g[k].failed <=> \E j \in 1 .. k : Lone(j)
  <2> DEFINE T == { k \in Nat : g[k].failed <=> \E j \in 1 .. k : Lone(j) }
  <2>1. 0 \in T BY <1>4
  <2>2. ASSUME NEW k \in 0 .. n - 1, k \in T PROVE k + 1 \in T
    <3> DEFINE j == k + 1
    <3>1. j \in 1 .. n /\ j - 1 = k /\ k \in 0 .. n /\ j \in Nat BY <1>1
    <3>2. \A l : l \in 1 .. j <=> l \in 1 .. k \/ l = j BY <3>1
    <3> HIDE DEF j
    <3>3. g[j].failed <=> g[k].failed \/ (~ g[k].started /\ bytes[j] = 128) BY <1>3, <3>1
    <3>4. g[k].started <=> Marked(k) BY <1>5, <3>1
    <3> HIDE DEF Marked
    <3>5. Lone(j) <=> bytes[j] = 128 /\ ~ Marked(k) BY <3>1
    <3> HIDE DEF Lone
    <3>6. g[j].failed <=> \E l \in 1 .. j : Lone(l) BY <2>2, <3>2, <3>3, <3>4, <3>5
    <3> QED BY <3>1, <3>6 DEF j
  <2> HIDE DEF T, n
  <2>3. \A k \in 0 .. n : k \in T BY <1>1, <2>1, <2>2, UpTo
  <2> QED BY <2>3 DEF T
<1>7. n \in 0 .. n BY <1>1
<1>8. g[n].failed <=> \E j \in 1 .. n : Lone(j) BY <1>6, <1>7
<1>9. (\E j \in 1 .. n : Lone(j)) <=>
        ~ \A k \in DOMAIN bytes : bytes[k] = 128 => k > 1 /\ bytes[k - 1] >= 128
  <2>1. DOMAIN bytes = 1 .. n BY <1>1
  <2>2. \A j \in 1 .. n : Marked(j - 1) <=> j > 1 /\ bytes[j - 1] >= 128 BY <1>1
  <2> HIDE DEF Marked
  <2>3. \A j \in 1 .. n : Lone(j) <=> ~ (bytes[j] = 128 => j > 1 /\ bytes[j - 1] >= 128)
    BY <2>2
  <2> HIDE DEF Lone
  <2> QED BY <2>1, <2>3, SMTT(30)
<1> DEFINE Shape == bytes # <<>> /\ bytes[n] < 128
<1>10. AreSubidentifiers(bytes) <=> Shape /\ ~ g[n].failed
  BY <1>8, <1>9, Zenon DEF AreSubidentifiers
<1>11. DecodeOid(bytes) # NoOid => Shape /\ ~ g[n].failed
  <2> SUFFICES ASSUME DecodeOid(bytes) # NoOid PROVE Shape /\ ~ g[n].failed OBVIOUS
  <2>1. bytes # <<>> /\ ~ (bytes[n] >= 128) /\ ~ g[n].failed
    BY <1>2, Zenon DEF DecodeOid
  <2>2. n \in 1 .. n BY <1>1, <2>1
  <2>3. bytes[n] \in Byte BY <1>1, <2>2
  <2> HIDE DEF n
  <2>4. bytes[n] \in Nat BY <2>3, ByteIsNat
  <2> QED BY <2>1, <2>4
<1>12. ASSUME Shape, ~ g[n].failed PROVE DecodeOid(bytes) # NoOid
  <2>1. n \in 1 .. n /\ n - 1 \in 0 .. n BY <1>1, <1>12
  <2>2. bytes[n] \in Nat /\ ~ (bytes[n] >= 128)
    <3>1. bytes[n] \in Byte /\ bytes[n] < 128 BY <1>1, <1>12, <2>1
    <3>2. bytes[n] \in Nat BY <3>1, ByteIsNat
    <3> HIDE DEF n
    <3> QED BY <3>1, <3>2
  <2>3. ~ g[n].started BY <1>3, <2>1, <2>2
  <2> DEFINE arcs == g[n].arcs
             v == SubAcc(g[n - 1], bytes[n])
             before == g[n - 1].arcs
  <2>4. arcs = Append(before, v) BY <1>3, <1>12, <2>1
  <2>5. before \in Seq(Nat) /\ v \in Nat
    <3>1. g[n - 1] \in SubStates /\ bytes[n] \in Byte BY <1>3, <2>1
    <3>2. v \in Nat BY <3>1, SubAccIsNat
    <3> QED BY <3>1, <3>2 DEF SubStates
  <2> HIDE DEF v, arcs, before
  <2>6. arcs \in Seq(Nat) /\ arcs # <<>>
    <3>1. before \in Seq(Nat) /\ v \in Nat /\ arcs = Append(before, v) BY <2>4, <2>5
    <3>2. Len(arcs) = Len(before) + 1 /\ Len(before) \in Nat /\ arcs \in Seq(Nat) BY <3>1
    <3>3. Len(arcs) # 0 BY <3>2
    <3> QED BY <3>2, <3>3
  <2>7. arcs[1] \in Nat /\ Tail(arcs) \in Seq(Nat) BY <2>6
  <2>8. FirstArcs(arcs[1]) \in Seq(Nat) /\ Len(FirstArcs(arcs[1])) = 2
    BY <2>7, FirstArcsAreTwo
  <2>9. DecodeOid(bytes) = FirstArcs(arcs[1]) \o Tail(arcs)
    BY <1>2, <1>12, <2>2, <2>3, Zenon DEF DecodeOid, arcs
  <2> DEFINE x == FirstArcs(arcs[1])
             y == Tail(arcs)
  <2>10. x \in Seq(Nat) /\ y \in Seq(Nat) /\ Len(x) = 2 BY <2>7, <2>8
  <2> HIDE DEF x, y
  <2>11. x \o y # <<>> BY <2>10, TwoAndMore
  <2> QED BY <2>9, <2>11 DEF x, y, NoOid
<1> HIDE DEF Shape
<1> QED BY <1>10, <1>11, <1>12

OidOwn ==
  [i \in DOMAIN heap |-> IF OidString(i) = NoOid THEN <<>>
                         ELSE <<[oid |-> OidString(i), path |-> <<>>]>>]

LEMMA OidOwnRows ==
  /\ OwnRows(OidOwn)
  /\ \A i \in DOMAIN heap : OidOwn[i] # <<>> <=> OidString(i) # NoOid
<1>1. ASSUME NEW i \in DOMAIN heap
      PROVE  /\ OidOwn[i] = <<>> \/ \E row : OidOwn[i] = <<row>> /\ IsRow(row)
             /\ OidOwn[i] # <<>> <=> OidString(i) # NoOid
  <2> DEFINE o == OidString(i)
             row == [oid |-> o, path |-> <<>>]
  <2>1. OidOwn[i] = IF o = NoOid THEN <<>> ELSE <<row>> BY DEF OidOwn
  <2> HIDE DEF o
  <2>2. IsRow(row) BY DEF IsRow, Placed
  <2> HIDE DEF row
  <2>3. <<row>> # <<>> OBVIOUS
  <2> QED BY <2>1, <2>2, <2>3 DEF o
<1>2. OwnRows(OidOwn)
  <2>1. \A i \in DOMAIN heap : OidOwn[i] = <<>> \/ \E row : OidOwn[i] = <<row>> /\ IsRow(row)
    BY <1>1
  <2> QED BY <2>1 DEF OwnRows
<1> QED BY <1>1, <1>2

\* The rows of asn1.oids.
OidRowsOk(listed) ==
  /\ DOMAIN listed \subseteq Nat
  /\ \A l \in DOMAIN listed :
       LET n == Navigate(heap, Tree, listed[l].path)
       IN /\ listed[l].path \in Seq(Nat) /\ n \in DOMAIN heap
          /\ OidString(n) # NoOid /\ listed[l].oid = OidString(n)
  /\ \A k \in DOMAIN listed : \A l \in DOMAIN listed : k < l =>
       heap[Navigate(heap, Tree, listed[k].path)].offset <
         heap[Navigate(heap, Tree, listed[l].path)].offset
  /\ \A n \in DOMAIN heap : OidString(n) # NoOid =>
       \E l \in DOMAIN listed : Navigate(heap, Tree, listed[l].path) = n

LEMMA OidRows ==
  ASSUME IInv, OrderInv, ReturnedTree
  PROVE  OidRowsOk(Oids(Tree))
<1> DEFINE listed == Oids(Tree)
           N(l) == Navigate(heap, Tree, listed[l].path)
<1>1. ForestInv /\ Tree \in DOMAIN heap /\ \A j \in DOMAIN heap : Within(j, Tree)
  BY ForestIs, AllInTree
<1>2. RowsOk(OidOwn, Tree, listed)
  <2>1. listed = RowsBelow(heap, OidOwn)[Tree] BY Zenon DEF Oids, OidOwn
  <2>2. RowsOk(OidOwn, Tree, RowsBelow(heap, OidOwn)[Tree])
    BY <1>1, OidOwnRows, RowsAreComplete
  <2> QED BY <2>1, <2>2
<1> HIDE DEF listed
<1>3. /\ listed \in Seq(RowSet(OidOwn))
      /\ \A l \in DOMAIN listed : RowFor(OidOwn, Tree, listed[l])
      /\ \A k \in DOMAIN listed : \A l \in DOMAIN listed :
           k < l => heap[N(k)].offset < heap[N(l)].offset
      /\ \A j \in DOMAIN heap : Within(j, Tree) /\ OidOwn[j] # <<>> =>
           \E l \in DOMAIN listed : N(l) = j
  BY <1>2, Zenon DEF RowsOk, NodeAt
<1>4. ASSUME NEW l \in DOMAIN listed
      PROVE  /\ listed[l].path \in Seq(Nat) /\ N(l) \in DOMAIN heap
             /\ OidString(N(l)) # NoOid /\ listed[l].oid = OidString(N(l))
  <2> DEFINE n == N(l)
             row == listed[l]
  <2>1. /\ row.path \in Seq(Nat) /\ n # NoNode /\ OidOwn[n] # <<>>
        /\ row = Placed(OidOwn[n][1], row.path)
    BY <1>3, Zenon DEF RowFor, NodeAt
  <2>2. Navigate(heap, Tree, row.path) = n OBVIOUS
  <2> HIDE DEF n, row
  <2>3. n \in DOMAIN heap BY <1>1, <2>1, <2>2, PathsLeadWithin
  <2>4. OidString(n) # NoOid BY <2>1, <2>3, OidOwnRows
  <2> DEFINE o == OidString(n)
             w == [oid |-> o, path |-> <<>>]
  <2>5. OidOwn[n] = <<w>> BY <2>3, <2>4 DEF OidOwn
  <2> HIDE DEF o
  <2>6. \A p : Placed(w, p).oid = o BY DEF Placed
  <2> HIDE DEF w
  <2>7. OidOwn[n][1] = w BY <2>5
  <2>8. row = Placed(w, row.path) BY <2>1, <2>7
  <2>9. row.oid = o BY <2>6, <2>8
  <2> QED BY <2>1, <2>3, <2>4, <2>9 DEF n, row, o
<1>5. DOMAIN listed \subseteq Nat BY <1>3
<1>6. \A n \in DOMAIN heap : OidString(n) # NoOid => \E l \in DOMAIN listed : N(l) = n
  BY <1>1, <1>3, OidOwnRows
<1>7. OidRowsOk(listed) BY <1>3, <1>4, <1>5, <1>6, Zenon DEF OidRowsOk
<1> QED BY <1>7 DEF listed

(* asn1.oids lists the well-formed OBJECT IDENTIFIERs of any blob, each     *)
(* once, in the order and under the paths of asn1.tlv (collect_oids), and   *)
(* decode_oid takes exactly what is a run of subidentifiers in their        *)
(* shortest form.                                                           *)
THEOREM EveryOidIsListed == Spec => []OidsAreListed
<1>1. ASSUME IInv, OrderInv PROVE OidsAreListed
  <2> SUFFICES ASSUME ReturnedTree PROVE OidsAreListed BY DEF OidsAreListed
  <2> DEFINE rows == Flatten(Tree)
             listed == Oids(Tree)
             N(l) == Navigate(heap, Tree, listed[l].path)
  <2>1. TlvRowsOk(rows) /\ OidRowsOk(listed) BY <1>1, TlvRows, OidRows
  <2>2. ForestInv /\ Tree \in DOMAIN heap BY <1>1, ForestIs, AllInTree
  <2> HIDE DEF rows, listed
  <2>3. /\ \A r \in DOMAIN rows : /\ rows[r].node \in DOMAIN heap /\ rows[r].path \in Seq(Nat)
                                  /\ Navigate(heap, Tree, rows[r].path) = rows[r].node
        /\ \A q \in DOMAIN rows : \A r \in DOMAIN rows : q < r =>
             heap[rows[q].node].offset < heap[rows[r].node].offset
        /\ \A n \in DOMAIN heap : \E r \in DOMAIN rows : rows[r].node = n
        /\ DOMAIN rows = 1 .. Len(rows) /\ Len(rows) \in Nat
    BY <2>1, Zenon DEF TlvRowsOk
  <2>4. /\ \A l \in DOMAIN listed : /\ listed[l].path \in Seq(Nat) /\ N(l) \in DOMAIN heap
                                    /\ OidString(N(l)) # NoOid /\ listed[l].oid = OidString(N(l))
        /\ \A k \in DOMAIN listed : \A l \in DOMAIN listed : k < l =>
             heap[N(k)].offset < heap[N(l)].offset
        /\ \A n \in DOMAIN heap : OidString(n) # NoOid => \E l \in DOMAIN listed : N(l) = n
        /\ DOMAIN listed \subseteq Nat
    BY <2>1, Zenon DEF OidRowsOk
  <2>5. ASSUME NEW n \in DOMAIN heap
        PROVE  /\ OidString(n) # NoOid <=> IsOid(n)
               /\ OidString(n) # NoOid => OidString(n) = DecodeOid(Contents(n))
    <3>1. Contents(n) \in Seq(Byte) BY <1>1, ContentsAreBytes
    <3>2. DecodeOid(Contents(n)) # NoOid <=> AreSubidentifiers(Contents(n))
      BY <3>1, DecodesSubidentifiers
    <3> QED BY <3>2, Zenon DEF OidString, IsOid
  <2>6. ASSUME NEW l \in DOMAIN listed, NEW r \in DOMAIN rows
        PROVE  rows[r].node = N(l) <=> listed[l].path = rows[r].path
    <3> DEFINE n == N(l)
               p == listed[l].path
               q == rows[r].path
               m == rows[r].node
    <3>1. /\ p \in Seq(Nat) /\ q \in Seq(Nat) /\ n \in DOMAIN heap /\ m \in DOMAIN heap
          /\ Navigate(heap, Tree, p) = n /\ Navigate(heap, Tree, q) = m
      BY <2>3, <2>4
    <3> HIDE DEF n, p, q, m
    <3>2. n # NoNode /\ m # NoNode BY <2>2, <3>1, NodeFacts DEF NoNode
    <3>3. PathsTell(Tree, p, q) BY <2>2, <3>1, PathsTellOf
    <3>4. m = n => p = q BY <3>1, <3>2, <3>3, Zenon DEF PathsTell
    <3>5. m = n <=> p = q BY <3>1, <3>4
    <3> QED BY <3>5 DEF n, m, p, q
  <2> HIDE DEF N
  <2>7. ASSUME NEW l \in DOMAIN listed
        PROVE  \E r \in DOMAIN rows : /\ IsOid(rows[r].node) /\ listed[l].path = rows[r].path
                                      /\ listed[l].oid = DecodeOid(Contents(rows[r].node))
    <3> DEFINE n == N(l)
    <3>1. n \in DOMAIN heap /\ OidString(n) # NoOid /\ listed[l].oid = OidString(n) BY <2>4
    <3> HIDE DEF n
    <3>2. PICK r \in DOMAIN rows : rows[r].node = n BY <2>3, <3>1
    <3>3. listed[l].path = rows[r].path BY <2>6, <3>2 DEF n
    <3>4. IsOid(n) /\ OidString(n) = DecodeOid(Contents(n)) BY <2>5, <3>1
    <3> QED BY <3>1, <3>2, <3>3, <3>4
  <2>8. ASSUME NEW r \in DOMAIN rows, IsOid(rows[r].node)
        PROVE  \E l \in DOMAIN listed : listed[l].path = rows[r].path
    <3>1. rows[r].node \in DOMAIN heap BY <2>3
    <3>2. OidString(rows[r].node) # NoOid BY <2>5, <2>8, <3>1
    <3>3. PICK l \in DOMAIN listed : N(l) = rows[r].node BY <2>4, <3>1, <3>2
    <3>4. listed[l].path = rows[r].path BY <2>6, <3>3
    <3> QED BY <3>4
  <2>9. ASSUME NEW k \in DOMAIN listed, NEW l \in DOMAIN listed,
               NEW q \in DOMAIN rows, NEW r \in DOMAIN rows,
               k < l, listed[k].path = rows[q].path, listed[l].path = rows[r].path
        PROVE  q < r
    <3> DEFINE a == rows[q].node
               b == rows[r].node
    <3>1. a = N(k) /\ b = N(l) BY <2>6, <2>9
    <3>2. a \in DOMAIN heap /\ b \in DOMAIN heap BY <2>3
    <3>3. heap[a].offset < heap[b].offset BY <2>4, <2>9, <3>1
    <3>4. r < q => heap[b].offset < heap[a].offset BY <2>3
    <3>5. q = r => a = b OBVIOUS
    <3> HIDE DEF a, b
    <3>6. heap[a].offset \in Nat /\ heap[b].offset \in Nat BY <2>2, <3>2, NodeFacts
    <3>7. q \in Nat /\ r \in Nat BY <2>3
    <3> QED BY <3>3, <3>4, <3>5, <3>6, <3>7
  <2> QED BY <2>7, <2>8, <2>9, Zenon DEF OidsAreListed, rows, listed
<1> QED BY <1>1, TreeInvariance, PTL

-----------------------------------------------------------------------------
(* The JSON projections                                                     *)

LEMMA LeafIsNoArray ==
  ASSUME NEW class, NEW tag, NEW bytes
  PROVE  PrimitiveValue(class, tag, bytes).kind # "array"
<1>1. BitStringValue(bytes).kind # "array" BY DEF BitStringValue, Opaque, Panic
<1>2. IntegerValue(bytes).kind # "array" BY DEF IntegerValue
<1>3. OidValue(bytes).kind # "array" BY DEF OidValue
<1>4. Opaque(bytes).kind # "array" BY DEF Opaque
<1> QED BY <1>1, <1>2, <1>3, <1>4 DEF PrimitiveValue

\* What a projection makes of a node, given what it makes of its children:
\* decode_value, and to_json_verbose.
Shown(g, i) ==
  Projected(i, LeafValue(i), [k \in DOMAIN heap[i].kids |-> g[heap[i].kids[k]]])

ShownVerbose(g, i) ==
  [class |-> heap[i].class, tag |-> heap[i].tag, constructed |-> heap[i].constructed,
   indefinite |-> heap[i].indefinite, value |-> Shown(g, i)]

JsonOf(g, i, verbose) == IF verbose THEN ShownVerbose(g, i) ELSE Shown(g, i)

JsonTo(g, verbose) == g = [i \in DOMAIN heap |-> JsonOf(g, i, verbose)]

LEMMA SameKidsSameJson ==
  ASSUME NEW g, NEW h, NEW i, NEW verbose,
         \A k \in DOMAIN heap[i].kids : h[heap[i].kids[k]] = g[heap[i].kids[k]]
  PROVE  JsonOf(h, i, verbose) = JsonOf(g, i, verbose)
<1>1. [k \in DOMAIN heap[i].kids |-> h[heap[i].kids[k]]] =
      [k \in DOMAIN heap[i].kids |-> g[heap[i].kids[k]]]
  OBVIOUS
<1>2. Shown(h, i) = Shown(g, i) BY <1>1, Zenon DEF Shown
<1> QED BY <1>2, Zenon DEF JsonOf, ShownVerbose

LEMMA JsonExists ==
  ASSUME ForestInv, NEW verbose
  PROVE  \E g : JsonTo(g, verbose)
<1> DEFINE Is(g, n) == \A i \in 1 .. n : g[i] = JsonOf(g, i, verbose)
           T == { n \in Nat : n <= Len(heap) => \E g : Is(g, n) }
<1>0. Len(heap) \in Nat /\ DOMAIN heap = 1 .. Len(heap) BY DEF ForestInv
<1>1. 0 \in T OBVIOUS
<1>2. ASSUME NEW n \in Nat, n \in T PROVE n + 1 \in T
  <2> SUFFICES ASSUME n + 1 <= Len(heap) PROVE \E g : Is(g, n + 1) OBVIOUS
  <2>1. PICK g : Is(g, n) BY <1>0, <1>2
  <2> DEFINE x == JsonOf(g, n + 1, verbose)
             h == [i \in 1 .. n + 1 |-> IF i = n + 1 THEN x ELSE g[i]]
  <2>2. ASSUME NEW i \in 1 .. n + 1 PROVE JsonOf(h, i, verbose) = JsonOf(g, i, verbose)
    <3>1. i \in DOMAIN heap BY <1>0
    <3>2. ASSUME NEW k \in DOMAIN heap[i].kids PROVE h[heap[i].kids[k]] = g[heap[i].kids[k]]
      <4> DEFINE c == heap[i].kids[k]
      <4>1. c \in 0 .. i - 1 /\ c \in DOMAIN heap BY <3>1, KidIndex
      <4> HIDE DEF c
      <4>2. c \in 1 .. n + 1 /\ c # n + 1 BY <1>0, <4>1
      <4> HIDE DEF x
      <4> QED BY <4>2 DEF c
    <3> HIDE DEF h
    <3> QED BY <3>2, SameKidsSameJson
  <2>3. ASSUME NEW i \in 1 .. n + 1 PROVE h[i] = JsonOf(h, i, verbose)
    <3>1. CASE i = n + 1
      <4> HIDE DEF x
      <4>1. h[i] = x BY <3>1
      <4> HIDE DEF h
      <4> QED BY <2>2, <3>1, <4>1 DEF x
    <3>2. CASE i # n + 1
      <4>1. i \in 1 .. n BY <3>2
      <4>2. h[i] = g[i]
        <5> HIDE DEF x
        <5> QED BY <3>2
      <4>3. g[i] = JsonOf(g, i, verbose) BY <2>1, <4>1
      <4> HIDE DEF h
      <4> QED BY <2>2, <4>2, <4>3
    <3> QED BY <3>1, <3>2
  <2>4. Is(h, n + 1)
    <3> HIDE DEF h
    <3> QED BY <2>3
  <2> HIDE DEF Is, h
  <2> QED BY <2>4
<1>3. Len(heap) \in T
  <2> HIDE DEF T
  <2> QED BY <1>0, <1>1, <1>2, NatInduct
<1>4. PICK g : Is(g, Len(heap)) BY <1>0, <1>3
<1> DEFINE h == [i \in DOMAIN heap |-> g[i]]
<1>5. ASSUME NEW i \in DOMAIN heap PROVE g[i] = JsonOf(h, i, verbose)
  <2>1. g[i] = JsonOf(g, i, verbose) BY <1>0, <1>4
  <2>2. ASSUME NEW k \in DOMAIN heap[i].kids PROVE h[heap[i].kids[k]] = g[heap[i].kids[k]]
    <3> DEFINE c == heap[i].kids[k]
    <3>1. c \in DOMAIN heap BY KidIndex
    <3> HIDE DEF c
    <3> QED BY <3>1 DEF c
  <2> HIDE DEF h
  <2> QED BY <2>1, <2>2, SameKidsSameJson
<1>6. JsonTo(h, verbose)
  <2> DEFINE e(i) == JsonOf(h, i, verbose)
  <2>1. h = [i \in DOMAIN heap |-> e(i)]
    <3> HIDE DEF e
    <3>1. \A i \in DOMAIN heap : g[i] = e(i) BY <1>5 DEF e
    <3> QED BY <3>1
  <2> HIDE DEF h
  <2> QED BY <2>1 DEF JsonTo
<1> QED BY <1>6

DecodeTo(g) == g = [i \in DOMAIN heap |-> Shown(g, i)]
VerboseTo(g) == g = [i \in DOMAIN heap |-> ShownVerbose(g, i)]

LEMMA JsonIs ==
  ASSUME ForestInv
  PROVE  \A i \in DOMAIN heap : /\ DecodeValue[i] = Shown(DecodeValue, i)
                                /\ ToJsonVerbose[i] = ShownVerbose(ToJsonVerbose, i)
<1>1. DecodeTo(DecodeValue)
  <2>1. DecodeValue = CHOOSE g : DecodeTo(g) BY Zenon DEF DecodeValue, DecodeTo, Shown
  <2>2. PICK g : JsonTo(g, FALSE) BY JsonExists
  <2>3. \A i : JsonOf(g, i, FALSE) = Shown(g, i) BY Zenon DEF JsonOf
  <2>4. DecodeTo(g) BY <2>2, <2>3, Zenon DEF JsonTo, DecodeTo
  <2> QED BY <2>1, <2>4, Zenon
<1>2. VerboseTo(ToJsonVerbose)
  <2>1. ToJsonVerbose = CHOOSE g : VerboseTo(g)
    BY Zenon DEF ToJsonVerbose, VerboseTo, ShownVerbose, Shown
  <2>2. PICK g : JsonTo(g, TRUE) BY JsonExists
  <2>3. \A i : JsonOf(g, i, TRUE) = ShownVerbose(g, i) BY Zenon DEF JsonOf
  <2>4. VerboseTo(g) BY <2>2, <2>3, Zenon DEF JsonTo, VerboseTo
  <2> QED BY <2>1, <2>4, Zenon
<1> DEFINE D == DecodeValue
           V == ToJsonVerbose
<1> HIDE DEF D, V
<1>3. \A i \in DOMAIN heap : D[i] = Shown(D, i) BY <1>1, Zenon DEF DecodeTo, D
<1>4. \A i \in DOMAIN heap : V[i] = ShownVerbose(V, i) BY <1>2, Zenon DEF VerboseTo, V
<1> QED BY <1>3, <1>4 DEF D, V

\* What a projection shows of a node.
LEMMA ShownIs ==
  ASSUME ForestInv, NEW i \in DOMAIN heap, NEW g
  PROVE  /\ heap[i].constructed =>
              /\ Shown(g, i).kind = "array" /\ Len(Shown(g, i).items) = Len(heap[i].kids)
              /\ \A k \in DOMAIN heap[i].kids : Shown(g, i).items[k] = g[heap[i].kids[k]]
         /\ ~ heap[i].constructed => Shown(g, i) = LeafValue(i) /\ Shown(g, i).kind # "array"
<1> DEFINE items == [k \in DOMAIN heap[i].kids |-> g[heap[i].kids[k]]]
<1>1. Shown(g, i) = IF heap[i].constructed THEN [kind |-> "array", items |-> items]
                    ELSE LeafValue(i)
  BY Zenon DEF Shown, Projected
<1>2. LeafValue(i).kind # "array" BY LeafIsNoArray DEF LeafValue
<1>3. Len(items) = Len(heap[i].kids)
  <2> DEFINE n == Len(heap[i].kids)
             S == { items[k] : k \in 1 .. n }
  <2>1. DOMAIN heap[i].kids = 1 .. n /\ n \in Nat
    <3>1. heap[i].kids \in Seq(Nat) BY NodeFacts
    <3> QED BY <3>1
  <2>2. DOMAIN items = 1 .. n BY <2>1
  <2>3. items \in [1 .. n -> S]
    <3>1. items = [k \in 1 .. n |-> items[k]] BY <2>1
    <3> HIDE DEF items
    <3> QED BY <3>1
  <2> HIDE DEF items, S, n
  <2>4. Len(items) = n BY <2>1, <2>3
  <2> QED BY <2>4 DEF n
<1>4. \A k \in DOMAIN heap[i].kids : items[k] = g[heap[i].kids[k]] OBVIOUS
<1> HIDE DEF items
<1> QED BY <1>1, <1>2, <1>3, <1>4

\* The nodes on the way of a path of numbers that leads to one.
OnTheWay(path, g) ==
  \A k \in 1 .. Len(path) :
    /\ g[k - 1] \in DOMAIN heap /\ path[k] + 1 \in DOMAIN heap[g[k - 1]].kids
    /\ g[k] = heap[g[k - 1]].kids[path[k] + 1]

LEMMA TheWay ==
  ASSUME ForestInv, NEW root \in DOMAIN heap, NEW path \in Seq(Nat),
         Navigate(heap, root, path) # NoNode
  PROVE  /\ Len(path) \in Nat /\ Visited(root, path)[0] = root
         /\ OnTheWay(path, Visited(root, path))
         /\ Navigate(heap, root, path) = Visited(root, path)[Len(path)]
<1> DEFINE n == Len(path)
           V == Visited(root, path)
           T == { m \in Nat : m <= n => V[n - m] # NoNode }
<1>1. /\ n \in Nat /\ V[0] = root
      /\ \A k \in 1 .. n : V[k] = Stepped(V[k - 1], path[k])
      /\ \A k \in 0 .. n : V[k] \in DOMAIN heap \cup {NoNode}
  BY PathIsSegments, VisitedOf
<1>2. Navigate(heap, root, path) = V[n] BY NavigateIs
<1>3. \A k \in 1 .. n : path[k] \in Nat OBVIOUS
<1> HIDE DEF V, n
<1>4. V[n] # NoNode BY <1>2
<1>5. 0 \in T
  <2>1. n - 0 = n BY <1>1
  <2> QED BY <1>4, <2>1
<1>6. ASSUME NEW m \in Nat, m \in T PROVE m + 1 \in T
  <2> SUFFICES ASSUME m + 1 <= n PROVE V[n - (m + 1)] # NoNode OBVIOUS
  <2> DEFINE k == n - m
  <2>1. k \in 1 .. n /\ k - 1 = n - (m + 1) /\ m <= n BY <1>1
  <2>2. V[k] # NoNode BY <1>6, <2>1
  <2> HIDE DEF k
  <2>3. V[k] = Stepped(V[k - 1], path[k]) BY <1>1, <2>1
  <2>4. V[k - 1] # NoNode BY <2>2, <2>3 DEF Stepped
  <2> QED BY <2>1, <2>4
<1>7. \A k \in 0 .. n : V[k] \in DOMAIN heap
  <2> SUFFICES ASSUME NEW k \in 0 .. n PROVE V[k] \in DOMAIN heap OBVIOUS
  <2>1. \A m \in Nat : m \in T
    <3> HIDE DEF T
    <3> QED BY <1>5, <1>6, NatInduct
  <2> DEFINE m == n - k
  <2>2. m \in Nat /\ m <= n /\ n - m = k BY <1>1
  <2> HIDE DEF m
  <2>3. V[n - m] # NoNode BY <2>1, <2>2
  <2> QED BY <1>1, <2>2, <2>3
<1>8. ASSUME NEW k \in 1 .. n
      PROVE  /\ V[k - 1] \in DOMAIN heap /\ path[k] + 1 \in DOMAIN heap[V[k - 1]].kids
             /\ V[k] = heap[V[k - 1]].kids[path[k] + 1]
  <2> DEFINE a == V[k - 1]
             c == path[k]
  <2>1. k - 1 \in 0 .. n /\ k \in 0 .. n BY <1>1
  <2>2. a \in DOMAIN heap /\ c \in Nat /\ V[k] = Stepped(a, c) BY <1>1, <1>3, <1>7, <2>1
  <2>3. V[k] \in DOMAIN heap BY <1>7, <2>1
  <2> HIDE DEF a, c
  <2>4. V[k] # NoNode BY <2>3, NodeFacts DEF NoNode
  <2>5. a # NoNode BY <2>2, NodeFacts DEF NoNode
  <2>6. c # EmptySegment BY <2>2 DEF EmptySegment
  <2>7. c < Len(heap[a].kids) /\ V[k] = heap[a].kids[c + 1] BY <2>2, <2>4, <2>5, <2>6 DEF Stepped
  <2>8. heap[a].kids \in Seq(Nat) BY <2>2, NodeFacts
  <2>9. c + 1 \in DOMAIN heap[a].kids BY <2>2, <2>7, <2>8
  <2> QED BY <2>2, <2>7, <2>9 DEF a, c
<1>9. OnTheWay(path, V) BY <1>8 DEF OnTheWay, n
<1> QED BY <1>1, <1>2, <1>9 DEF V, n

UnderTo(g, json, path) ==
  g = [k \in 0 .. Len(path) |-> IF k = 0 THEN json ELSE g[k - 1].items[path[k] + 1]]

UnderVerboseTo(g, json, path) ==
  g = [k \in 0 .. Len(path) |-> IF k = 0 THEN json ELSE g[k - 1].value.items[path[k] + 1]]

\* What a projection shows under a path is what it shows of the node there.
LEMMA UnderIs ==
  ASSUME ForestInv, NEW root \in DOMAIN heap, NEW path \in Seq(Nat),
         Navigate(heap, root, path) # NoNode
  PROVE  /\ Under(DecodeValue[root], path) = DecodeValue[Navigate(heap, root, path)]
         /\ UnderVerbose(ToJsonVerbose[root], path) = ToJsonVerbose[Navigate(heap, root, path)]
<1> DEFINE n == Len(path)
           V == Visited(root, path)
           D == DecodeValue
           W == ToJsonVerbose
           d == [k \in 0 .. n |-> D[V[k]]]
           w == [k \in 0 .. n |-> W[V[k]]]
<1>1. n \in Nat /\ V[0] = root /\ OnTheWay(path, V) /\ Navigate(heap, root, path) = V[n]
  BY TheWay
<1>2. \A i \in DOMAIN heap : D[i] = Shown(D, i) /\ W[i] = ShownVerbose(W, i) BY JsonIs
<1> HIDE DEF n, V, D, W
<1>3. \A k \in 1 .. n : /\ V[k - 1] \in DOMAIN heap /\ path[k] + 1 \in DOMAIN heap[V[k - 1]].kids
                        /\ V[k] = heap[V[k - 1]].kids[path[k] + 1]
  BY <1>1, Zenon DEF OnTheWay, n
<1>4. ASSUME NEW k \in 1 .. n
      PROVE  /\ D[V[k]] = D[V[k - 1]].items[path[k] + 1]
             /\ W[V[k]] = W[V[k - 1]].value.items[path[k] + 1]
  <2> DEFINE a == V[k - 1]
             c == path[k] + 1
  <2>1. a \in DOMAIN heap /\ c \in DOMAIN heap[a].kids /\ V[k] = heap[a].kids[c] BY <1>3
  <2> HIDE DEF a, c
  <2>2. heap[a].constructed
    <3>1. heap[a].kids \in Seq(Nat) BY <2>1, NodeFacts
    <3>2. heap[a].kids # <<>> BY <2>1, <3>1
    <3> QED BY <2>1, <3>2, NodeFacts
  <2>3. Shown(D, a).items[c] = D[heap[a].kids[c]] BY <2>1, <2>2, ShownIs
  <2>4. Shown(W, a).items[c] = W[heap[a].kids[c]] BY <2>1, <2>2, ShownIs
  <2>5. D[a] = Shown(D, a) /\ W[a].value = Shown(W, a)
    <3>1. D[a] = Shown(D, a) /\ W[a] = ShownVerbose(W, a) BY <1>2, <2>1
    <3>2. ShownVerbose(W, a).value = Shown(W, a) BY Zenon DEF ShownVerbose
    <3> QED BY <3>1, <3>2
  <2> QED BY <2>1, <2>3, <2>4, <2>5 DEF a, c
<1>5. Under(D[root], path) = D[V[n]]
  <2> DEFINE json == D[root]
             e(k) == IF k = 0 THEN json ELSE d[k - 1].items[path[k] + 1]
             U == CHOOSE g : UnderTo(g, json, path)
  <2>1. ASSUME NEW k \in 0 .. n PROVE d[k] = e(k)
    <3>1. d[k] = D[V[k]] OBVIOUS
    <3>2. CASE k = 0 BY <1>1, <3>1, <3>2
    <3>3. CASE k # 0
      <4>1. k \in 1 .. n /\ k - 1 \in 0 .. n BY <1>1, <3>3
      <4>2. d[k - 1] = D[V[k - 1]] BY <4>1
      <4> HIDE DEF d
      <4>3. e(k) = d[k - 1].items[path[k] + 1] BY <3>3
      <4> HIDE DEF e
      <4> QED BY <1>4, <3>1, <4>1, <4>2, <4>3
    <3> QED BY <3>2, <3>3
  <2>2. d = [k \in 0 .. n |-> e(k)]
    <3> HIDE DEF e
    <3> QED BY <2>1
  <2> HIDE DEF d
  <2>3. UnderTo(d, json, path) BY <2>2, Zenon DEF UnderTo, e, n
  <2>4. UnderTo(U, json, path) BY <2>3, Zenon
  <2> HIDE DEF U, json
  <2>5. U[0] = d[0]
    <3>1. 0 \in 0 .. Len(path) BY <1>1 DEF n
    <3>2. U[0] = json BY <2>4, <3>1, Zenon DEF UnderTo
    <3>3. d[0] = json BY <2>3, <3>1, Zenon DEF UnderTo
    <3> QED BY <3>2, <3>3
  <2>6. \A k \in 1 .. n : U[k - 1] = d[k - 1] => U[k] = d[k]
    <3> SUFFICES ASSUME NEW k \in 1 .. n, U[k - 1] = d[k - 1] PROVE U[k] = d[k] OBVIOUS
    <3>1. k \in 0 .. Len(path) /\ k # 0 BY <1>1 DEF n
    <3>2. U[k] = U[k - 1].items[path[k] + 1] BY <2>4, <3>1, Zenon DEF UnderTo
    <3>3. d[k] = d[k - 1].items[path[k] + 1] BY <2>3, <3>1, Zenon DEF UnderTo
    <3> QED BY <3>2, <3>3
  <2>7. U[n] = d[n]
    <3> HIDE DEF n
    <3>1. n \in Nat BY <1>1
    <3>2. GoAlike(U, d, n) BY <2>5, <2>6 DEF GoAlike
    <3>3. AreSame(U, d, n) BY <3>1, <3>2, StaySame
    <3> QED BY <3>1, <3>3 DEF AreSame
  <2>8. n \in 0 .. n BY <1>1
  <2>9. U[n] = D[V[n]] BY <2>7, <2>8 DEF d
  <2>10. Under(json, path) = U[n] BY Zenon DEF Under, UnderTo, U, n
  <2> QED BY <2>9, <2>10 DEF json
<1>6. UnderVerbose(W[root], path) = W[V[n]]
  <2> DEFINE json == W[root]
             e(k) == IF k = 0 THEN json ELSE w[k - 1].value.items[path[k] + 1]
             U == CHOOSE g : UnderVerboseTo(g, json, path)
  <2>1. ASSUME NEW k \in 0 .. n PROVE w[k] = e(k)
    <3>1. w[k] = W[V[k]] OBVIOUS
    <3>2. CASE k = 0 BY <1>1, <3>1, <3>2
    <3>3. CASE k # 0
      <4>1. k \in 1 .. n /\ k - 1 \in 0 .. n BY <1>1, <3>3
      <4>2. w[k - 1] = W[V[k - 1]] BY <4>1
      <4> HIDE DEF w
      <4>3. e(k) = w[k - 1].value.items[path[k] + 1] BY <3>3
      <4> HIDE DEF e
      <4> QED BY <1>4, <3>1, <4>1, <4>2, <4>3
    <3> QED BY <3>2, <3>3
  <2>2. w = [k \in 0 .. n |-> e(k)]
    <3> HIDE DEF e
    <3> QED BY <2>1
  <2> HIDE DEF w
  <2>3. UnderVerboseTo(w, json, path) BY <2>2, Zenon DEF UnderVerboseTo, e, n
  <2>4. UnderVerboseTo(U, json, path) BY <2>3, Zenon
  <2> HIDE DEF U, json
  <2>5. U[0] = w[0]
    <3>1. 0 \in 0 .. Len(path) BY <1>1 DEF n
    <3>2. U[0] = json BY <2>4, <3>1, Zenon DEF UnderVerboseTo
    <3>3. w[0] = json BY <2>3, <3>1, Zenon DEF UnderVerboseTo
    <3> QED BY <3>2, <3>3
  <2>6. \A k \in 1 .. n : U[k - 1] = w[k - 1] => U[k] = w[k]
    <3> SUFFICES ASSUME NEW k \in 1 .. n, U[k - 1] = w[k - 1] PROVE U[k] = w[k] OBVIOUS
    <3>1. k \in 0 .. Len(path) /\ k # 0 BY <1>1 DEF n
    <3>2. U[k] = U[k - 1].value.items[path[k] + 1] BY <2>4, <3>1, Zenon DEF UnderVerboseTo
    <3>3. w[k] = w[k - 1].value.items[path[k] + 1] BY <2>3, <3>1, Zenon DEF UnderVerboseTo
    <3> QED BY <3>2, <3>3
  <2>7. U[n] = w[n]
    <3> HIDE DEF n
    <3>1. n \in Nat BY <1>1
    <3>2. GoAlike(U, w, n) BY <2>5, <2>6 DEF GoAlike
    <3>3. AreSame(U, w, n) BY <3>1, <3>2, StaySame
    <3> QED BY <3>1, <3>3 DEF AreSame
  <2>8. n \in 0 .. n BY <1>1
  <2>9. U[n] = W[V[n]] BY <2>7, <2>8 DEF w
  <2>10. UnderVerbose(json, path) = U[n] BY Zenon DEF UnderVerbose, UnderVerboseTo, U, n
  <2> QED BY <2>9, <2>10 DEF json
<1> QED BY <1>1, <1>5, <1>6 DEF D, W

(* Of any blob, what a row of asn1.tlv says of an element stands in both    *)
(* JSON projections under the row's path, and is what at_path finds there;  *)
(* a group has its children.                                                *)
THEOREM ProjectionsAlwaysAgree == Spec => []ProjectionsAgree
<1>1. ASSUME IInv, OrderInv PROVE ProjectionsAgree
  <2> SUFFICES ASSUME ReturnedTree PROVE ProjectionsAgree BY DEF ProjectionsAgree
  <2> DEFINE rows == Flatten(Tree)
  <2>1. TlvRowsOk(rows) BY <1>1, TlvRows
  <2>2. ForestInv /\ Tree \in DOMAIN heap BY <1>1, ForestIs, AllInTree
  <2> HIDE DEF rows
  <2>3. ASSUME NEW r \in DOMAIN rows
        PROVE  LET row == rows[r]
                   node == heap[row.node]
                   json == Under(DecodeValue[Tree], row.path)
                   verbose == UnderVerbose(ToJsonVerbose[Tree], row.path)
               IN /\ AtPath(Tree, row.path) = json
                  /\ verbose.class = node.class /\ verbose.tag = node.tag
                  /\ json.kind = "array" <=> node.constructed
                  /\ IF node.constructed
                     THEN /\ Len(json.items) = Len(node.kids)
                          /\ Len(verbose.value.items) = Len(node.kids)
                     ELSE json = row.value /\ verbose.value = row.value
    <3> DEFINE m == rows[r].node
               p == rows[r].path
               v == rows[r].value
               D == DecodeValue
               W == ToJsonVerbose
    <3>1. /\ m \in DOMAIN heap /\ p \in Seq(Nat) /\ Navigate(heap, Tree, p) = m
          /\ v = IF heap[m].constructed THEN Null ELSE LeafValue(m)
      BY <2>1, Zenon DEF TlvRowsOk
    <3> HIDE DEF m, p, v, D, W
    <3>2. m # NoNode BY <2>2, <3>1, NodeFacts DEF NoNode
    <3>3. Under(D[Tree], p) = D[m] /\ UnderVerbose(W[Tree], p) = W[m]
      BY <2>2, <3>1, <3>2, UnderIs DEF D, W
    <3>4. AtPath(Tree, p) = D[m] BY <3>1, <3>2, Zenon DEF AtPath, D
    <3>5. D[m] = Shown(D, m) /\ W[m] = ShownVerbose(W, m) BY <2>2, <3>1, JsonIs DEF D, W
    <3>6. W[m].class = heap[m].class /\ W[m].tag = heap[m].tag /\ W[m].value = Shown(W, m)
      <4> DEFINE x == ShownVerbose(W, m)
      <4>1. x.class = heap[m].class /\ x.tag = heap[m].tag /\ x.value = Shown(W, m)
        BY DEF ShownVerbose
      <4> HIDE DEF x
      <4>2. W[m] = x BY <3>5 DEF x
      <4> QED BY <4>1, <4>2
    <3>7. CASE heap[m].constructed
      <4>1. D[m].kind = "array" /\ Len(D[m].items) = Len(heap[m].kids)
        BY <2>2, <3>1, <3>5, <3>7, ShownIs
      <4>2. Len(W[m].value.items) = Len(heap[m].kids) BY <2>2, <3>1, <3>6, <3>7, ShownIs
      <4> QED BY <3>3, <3>4, <3>6, <3>7, <4>1, <4>2, Zenon DEF m, p, v, D, W
    <3>8. CASE ~ heap[m].constructed
      <4>1. D[m] = v /\ D[m].kind # "array" BY <2>2, <3>1, <3>5, <3>8, ShownIs
      <4>2. W[m].value = v BY <2>2, <3>1, <3>6, <3>8, ShownIs
      <4> QED BY <3>3, <3>4, <3>6, <3>8, <4>1, <4>2, Zenon DEF m, p, v, D, W
    <3> QED BY <3>7, <3>8, Zenon DEF m
  <2> QED BY <2>3, Zenon DEF ProjectionsAgree, rows
<1> QED BY <1>1, TreeInvariance, PTL

=============================================================================
