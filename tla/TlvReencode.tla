----------------------------- MODULE TlvReencode -----------------------------
(***************************************************************************)
(* asn1-core/src/reencode.rs: the canonical DER octets of a decoded tree,  *)
(* as functions of the blob it was read from and its forest of nodes.      *)
(***************************************************************************)
EXTENDS TlvForest, SequencesExt

\* The digits of n in base b, most significant first, none of them padding.
Digits(n, b) ==
  LET digits[m \in 0 .. n] == IF m < b THEN <<m>> ELSE Append(digits[m \div b], m % b)
  IN digits[n]

\* Mutant of EncodeIdentifier: the class is lost in the high form.
EncodeIdentifierNoClass(n) ==
  LET first == (IF n.tag < 31 THEN 64 * n.class ELSE 0) + (IF n.constructed THEN 32 ELSE 0)
      septets == Digits(n.tag, 128)
  IN IF n.tag < 31
     THEN <<first + n.tag>>
     ELSE <<first + 31>> \o [i \in DOMAIN septets |->
                               septets[i] + (IF i < Len(septets) THEN 128 ELSE 0)]

\* encode_identifier: continuation bit on every septet but the last.
EncodeIdentifier(n) ==
  LET first == 64 * n.class + (IF n.constructed THEN 32 ELSE 0)
      septets == Digits(n.tag, 128)
  IN IF n.tag < 31
     THEN <<first + n.tag>>
     ELSE <<first + 31>> \o [i \in DOMAIN septets |->
                               septets[i] + (IF i < Len(septets) THEN 128 ELSE 0)]

\* Mutant of EncodeLength: 128 still in short form.
EncodeLengthShort(len) ==
  IF len <= 128 THEN <<len>>
  ELSE LET octets == Digits(len, 256) IN <<128 + Len(octets)>> \o octets

EncodeLength(len) ==
  IF len < 128 THEN <<len>>
  ELSE LET octets == Digits(len, 256) IN <<128 + Len(octets)>> \o octets

\* The order of Vec<u8>: octet by octet, a prefix before what extends it.
Precedes(v, w) ==
  \E k \in 1 .. Len(w) :
    /\ \A i \in 1 .. k - 1 : i <= Len(v) /\ v[i] = w[i]
    /\ k > Len(v) \/ v[k] < w[k]

IsSet(n) == n.class = 0 /\ n.tag = 17

\* Item j of s goes before item k: the sort is stable.
Before(s, j, k) == Precedes(s[j], s[k]) \/ (s[j] = s[k] /\ j < k)

\* Which item of s a sort puts i-th: the one that i - 1 others go before.
Sorting(s) ==
  [i \in DOMAIN s |->
     CHOOSE k \in DOMAIN s : Cardinality({ j \in DOMAIN s : Before(s, j, k) }) = i - 1]

\* Mutant of Arranged: sets are left in the order they came in.
ArrangedAsRead(n, encoded) == encoded

\* What the children of n are put in order by: a SET is sorted by encoding.
Arranged(n, encoded) ==
  LET sorting == Sorting(encoded)
  IN IF IsSet(n) THEN [i \in DOMAIN encoded |-> encoded[sorting[i]]] ELSE encoded

\* encode_node, for every node of the forest: the children of a node come
\* before it.
Encodings(data, forest) ==
  LET encode[i \in DOMAIN forest] ==
        LET n == forest[i]
            content == IF n.constructed
                       THEN FlattenSeq(Arranged(n, [k \in DOMAIN n.kids |-> encode[n.kids[k]]]))
                       ELSE SubSeq(data, ContentStart(n) + 1, ContentEnd(n))
        IN EncodeIdentifier(n) \o EncodeLength(Len(content)) \o content
  IN encode

ToDer(data, forest, root) == Encodings(data, forest)[root]

=============================================================================
