------------------------------ MODULE TlvForest ------------------------------
(***************************************************************************)
(* The tree of elements that a decode yields (struct Tlv and enum Body of  *)
(* asn1-core/src/tlv.rs), as a sequence of nodes in which a constructed    *)
(* node names its children by index, and what it means for such a forest   *)
(* to be made of whole elements.                                           *)
(* The limits of the format and of the build are declared here.            *)
(***************************************************************************)
EXTENDS Integers, Sequences

CONSTANTS
  MaxNesting,       \* MAX_NESTING (256)
  TagMax,           \* u32::MAX
  MaxLengthOctets,  \* most octets of a long-form length (8)
  UsizeMax          \* usize::MAX of the build

ASSUME LimitsAssumption ==
  /\ MaxNesting \in Nat
  /\ TagMax \in Nat /\ TagMax >= 31 /\ TagMax \div 65536 < 65536
  /\ MaxLengthOctets \in 0 .. 8
  /\ UsizeMax \in Nat

Octets == 0 .. 255

ErrorKinds == {"truncated", "nesting-limit", "length-overflow", "invalid-tag",
               "indefinite-in-der", "non-canonical", "trailing-bytes"}

Nodes ==
  [offset : Nat, header_len : Nat, content_len : Nat,
   indefinite : BOOLEAN, class : 0 .. 3, constructed : BOOLEAN,
   tag : 0 .. TagMax, kids : Seq(Nat)]

\* The first octet of a node's contents, and the one after the last.
ContentStart(n) == n.offset + n.header_len
ContentEnd(n) == n.offset + n.header_len + n.content_len

\* One past the last octet of a node, the 00 00 marker of an indefinite
\* one included: offset plus the number of octets parse_tlv reports as used.
End(n) == ContentEnd(n) + (IF n.indefinite THEN 2 ELSE 0)

\* Node m lies in the contents of node n.
LiesIn(m, n) == ContentStart(n) <= m.offset /\ End(m) <= ContentEnd(n)

\* The nodes of forest that the indices kids name lie end to end and fill
\* the octets in from .. to - 1.
Tiles(forest, kids, from, to) ==
  /\ \A i \in DOMAIN kids : kids[i] \in DOMAIN forest
  /\ IF kids = <<>>
     THEN from = to
     ELSE /\ forest[kids[1]].offset = from
          /\ End(forest[kids[Len(kids)]]) = to
          /\ \A i \in 1 .. Len(kids) - 1 :
               End(forest[kids[i]]) = forest[kids[i + 1]].offset

\* Node i of forest is a whole element: it has a header of two octets at
\* least; a primitive one has no children, those of a constructed one were
\* finished before it and tile its contents.
ElementIsWhole(forest, i) ==
  /\ forest[i].header_len >= 2
  /\ ~ forest[i].constructed => forest[i].kids = <<>> /\ ~ forest[i].indefinite
  /\ \A k \in DOMAIN forest[i].kids : forest[i].kids[k] < i
  /\ forest[i].constructed =>
       Tiles(forest, forest[i].kids, ContentStart(forest[i]), ContentEnd(forest[i]))

\* The powers of 128 up to 128 ^ 5, and of 256 up to 256 ^ 8: what five octets
\* of a tag number and eight of a length can hold.  Written out, as the
\* provers know no exponents.
Power128(n) ==
  CASE n = 0 -> 1
    [] n = 1 -> 128
    [] n = 2 -> 128 * 128
    [] n = 3 -> 128 * 128 * 128
    [] n = 4 -> 128 * 128 * 128 * 128
    [] n = 5 -> 128 * 128 * 128 * 128 * 128

Power256(n) ==
  CASE n = 0 -> 1
    [] n = 1 -> 256
    [] n = 2 -> 65536
    [] n = 3 -> 256 * 65536
    [] n = 4 -> 65536 * 65536
    [] n = 5 -> 256 * 65536 * 65536
    [] n = 6 -> 65536 * 65536 * 65536
    [] n = 7 -> 256 * 65536 * 65536 * 65536
    [] n = 8 -> 65536 * 65536 * 65536 * 65536

\* Octets of the shortest high form of a tag number after the identifier
\* octet, and of the shortest form of a length.
TagOctets(tag) ==
  IF tag < 31 THEN 0
  ELSE CHOOSE n \in 1 .. 5 :
         tag < Power128(n) /\ (n = 1 \/ tag >= Power128(n - 1))

LengthOctets(len) ==
  IF len < 128 THEN 1
  ELSE 1 + CHOOSE n \in 1 .. 8 : len < Power256(n) /\ len >= Power256(n - 1)

=============================================================================
