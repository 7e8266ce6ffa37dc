------------------------------ MODULE TlvViews -------------------------------
(***************************************************************************)
(* The flat views of asn1-core/src/tlvlist.rs on a tree the reader has     *)
(* returned: the rows of asn1.tlv, the inventory of asn1.oids, and the     *)
(* navigation of asn1.at_path; and the JSON projections of json.rs.        *)
(*                                                                         *)
(* A path is the sequence of its segments.  A segment counts for the       *)
(* number it starts with, is empty, or starts with no number of a usize.   *)
(***************************************************************************)
EXTENDS TlvParser, Values, SequencesExt

EmptySegment == -1
BadSegment == -2

NoNode == 0

Contents(i) == SubSeq(data, ContentStart(heap[i]) + 1, ContentEnd(heap[i]))

LeafValue(i) == PrimitiveValue(heap[i].class, heap[i].tag, Contents(i))

Null == [kind |-> "null"]

\* Mutant of Projected: only a SEQUENCE or a SET is a group.
ProjectedByTag(i, leaf, items) ==
  IF heap[i].class = 0 /\ heap[i].tag \in {16, 17} THEN [kind |-> "array", items |-> items] ELSE leaf

\* A group is the array of its children.
Projected(i, leaf, items) ==
  IF heap[i].constructed THEN [kind |-> "array", items |-> items] ELSE leaf

\* decode_value of every node.
DecodeValue ==
  LET json[i \in DOMAIN heap] ==
        Projected(i, LeafValue(i), [k \in DOMAIN heap[i].kids |-> json[heap[i].kids[k]]])
  IN json

\* to_json_verbose of every node.
ToJsonVerbose ==
  LET json[i \in DOMAIN heap] ==
        [class |-> heap[i].class, tag |-> heap[i].tag, constructed |-> heap[i].constructed,
         indefinite |-> heap[i].indefinite,
         value |-> Projected(i, LeafValue(i), [k \in DOMAIN heap[i].kids |-> json[heap[i].kids[k]]])]
  IN json

\* Mutant of ChildPath: children are counted from 1.
ChildPathFromOne(k, path) == <<k>> \o path

\* The path of a node below the k-th child of the node that path starts from.
ChildPath(k, path) == <<k - 1>> \o path

\* Mutant of Collected: a node comes after its children.
CollectedAfter(own, below) == FlattenSeq(below) \o own

\* The rows of a node, then those of each of its children.
Collected(own, below) == own \o FlattenSeq(below)

\* For every node of a forest, with paths that start at it, what walk and
\* collect_oids push for it and for what is below it; own gives a node's rows.
RowsBelow(forest, own) ==
  LET rows[i \in DOMAIN forest] ==
        Collected(own[i],
                  [k \in DOMAIN forest[i].kids |->
                     LET child == rows[forest[i].kids[k]]
                     IN [r \in DOMAIN child |->
                           [child[r] EXCEPT !.path = ChildPath(k, child[r].path)]]])
  IN rows

\* One row of asn1.tlv; node stands for the other columns.
TlvRow(i) ==
  [path |-> <<>>, node |-> i, header_len |-> heap[i].header_len, len |-> heap[i].content_len,
   value |-> IF heap[i].constructed THEN Null ELSE LeafValue(i)]

Flatten(root) ==
  RowsBelow(heap, [i \in DOMAIN heap |-> <<TlvRow(i)>>])[root]

\* Mutant of OidString: the class is not looked at.
OidStringAnyClass(i) ==
  IF heap[i].tag = 6 /\ ~ heap[i].constructed THEN DecodeOid(Contents(i)) ELSE NoOid

\* A constructed node has no primitive octets and so no OID.
OidString(i) ==
  IF heap[i].class = 0 /\ heap[i].tag = 6 /\ ~ heap[i].constructed
  THEN DecodeOid(Contents(i))
  ELSE NoOid

Oids(root) ==
  RowsBelow(heap, [i \in DOMAIN heap |->
                     IF OidString(i) = NoOid THEN <<>>
                     ELSE <<[oid |-> OidString(i), path |-> <<>>]>>])[root]

Navigate(forest, root, path) ==
  LET node[k \in 0 .. Len(path)] ==
        IF k = 0 THEN root
        ELSE IF node[k - 1] = NoNode \/ path[k] = EmptySegment THEN node[k - 1]
        ELSE IF path[k] # BadSegment /\ path[k] < Len(forest[node[k - 1]].kids)
        THEN forest[node[k - 1]].kids[path[k] + 1]
        ELSE NoNode
  IN node[Len(path)]

AtPath(root, path) ==
  LET node == Navigate(heap, root, path)
  IN IF node = NoNode THEN Null ELSE DecodeValue[node]

-----------------------------------------------------------------------------
(* Properties *)

Returned == result.kind = "ok"

\* parse_rules has returned a tree, and its root.
ReturnedTree == Returned /\ caller = "parse_rules"
Tree == stack[1].kids[1]

(* asn1.tlv has one row for each element, in the order in which the         *)
(* elements start in the blob, and paths show what lies in what: one row's  *)
(* path extends another's exactly if its element lies in the other's        *)
(* contents.                                                                *)
RowsFollowTheBlob ==
  ReturnedTree =>
    LET rows == Flatten(Tree)
        element(r) == heap[rows[r].node]
    IN /\ Len(rows) = Len(heap)
       /\ \A r \in 1 .. Len(rows) - 1 : element(r).offset < element(r + 1).offset
       /\ \A q, r \in DOMAIN rows :
            IsStrictPrefix(rows[q].path, rows[r].path) <=>
              /\ element(q).offset + rows[q].header_len <= element(r).offset
              /\ End(element(r)) <= element(q).offset + rows[q].header_len + rows[q].len

Segments == {BadSegment, EmptySegment} \cup Nat

\* A path without its empty segments.
Shortened(path) ==
  LET kept[k \in 0 .. Len(path)] ==
        IF k = 0 THEN <<>>
        ELSE IF path[k] = EmptySegment THEN kept[k - 1] ELSE Append(kept[k - 1], path[k])
  IN kept[Len(path)]

\* Where a path leads to a node, it is the path of the node's row.
LeadsToItsRow(rows, path) ==
  LET node == Navigate(heap, Tree, path)
  IN node # NoNode => \E r \in DOMAIN rows : rows[r].node = node /\ rows[r].path = Shortened(path)

(* The paths that asn1.tlv and asn1.oids print are those at_path takes:     *)
(* each leads back to the node of its row, and whatever leads to a node is  *)
(* the path of its row, empty segments apart.                               *)
PathsLeadBack ==
  ReturnedTree =>
    LET rows == Flatten(Tree)
    IN /\ \A r \in DOMAIN rows : Navigate(heap, Tree, rows[r].path) = rows[r].node
       /\ \A path \in BoundedSeq({BadSegment, EmptySegment, 0, 1, 2}, 3) :
            LeadsToItsRow(rows, path)

\* Octets that are subidentifiers in their shortest form, one after another.
AreSubidentifiers(bytes) ==
  /\ bytes # <<>> /\ bytes[Len(bytes)] < 128
  /\ \A k \in DOMAIN bytes : bytes[k] = 128 => k > 1 /\ bytes[k - 1] >= 128

\* A well-formed OBJECT IDENTIFIER.
IsOid(i) ==
  /\ heap[i].class = 0 /\ heap[i].tag = 6 /\ ~ heap[i].constructed
  /\ AreSubidentifiers(Contents(i))

(* asn1.oids lists exactly the OBJECT IDENTIFIERs of the blob that are well *)
(* formed, each once, in the order and under the paths of asn1.tlv, with    *)
(* what their octets spell, constructed elements searched like any other.   *)
OidsAreListed ==
  ReturnedTree =>
    LET rows == Flatten(Tree)
        listed == Oids(Tree)
    IN /\ \A l \in DOMAIN listed : \E r \in DOMAIN rows :
            /\ IsOid(rows[r].node) /\ listed[l].path = rows[r].path
            /\ listed[l].oid = DecodeOid(Contents(rows[r].node))
       /\ \A r \in DOMAIN rows : IsOid(rows[r].node) =>
            \E l \in DOMAIN listed : listed[l].path = rows[r].path
       /\ \A k, l \in DOMAIN listed : \A q, r \in DOMAIN rows :
            k < l /\ listed[k].path = rows[q].path /\ listed[l].path = rows[r].path => q < r

\* What lies in a projection under a path.
Under(json, path) ==
  LET at[k \in 0 .. Len(path)] == IF k = 0 THEN json ELSE at[k - 1].items[path[k] + 1]
  IN at[Len(path)]

UnderVerbose(json, path) ==
  LET at[k \in 0 .. Len(path)] == IF k = 0 THEN json ELSE at[k - 1].value.items[path[k] + 1]
  IN at[Len(path)]

(* asn1.tlv, asn1.decode, asn1.to_json and asn1.at_path show one tree: what *)
(* a row of asn1.tlv says of a node stands in both projections under the    *)
(* row's path, and is what at_path finds there; a group has its children.   *)
ProjectionsAgree ==
  ReturnedTree =>
    \A r \in DOMAIN Flatten(Tree) :
      LET row == Flatten(Tree)[r]
          node == heap[row.node]
          json == Under(DecodeValue[Tree], row.path)
          verbose == UnderVerbose(ToJsonVerbose[Tree], row.path)
      IN /\ AtPath(Tree, row.path) = json
         /\ verbose.class = node.class /\ verbose.tag = node.tag
         /\ json.kind = "array" <=> node.constructed
         /\ IF node.constructed
            THEN Len(json.items) = Len(node.kids) /\ Len(verbose.value.items) = Len(node.kids)
            ELSE json = row.value /\ verbose.value = row.value

\* The number that octets stand for in two's complement.
TwosComplement(bytes) ==
  LET unsigned[k \in 0 .. Len(bytes)] ==
        IF k = 0 THEN 0 ELSE 256 * unsigned[k - 1] + bytes[k]
  IN unsigned[Len(bytes)] - (IF Negative(bytes) THEN Power(256, Len(bytes)) ELSE 0)

\* The number a decimal string spells.
Spelled(decimal) ==
  LET value[k \in 0 .. Len(decimal.digits)] ==
        IF k = 0 THEN 0 ELSE 10 * value[k - 1] + decimal.digits[k]
  IN IF decimal.negative THEN - value[Len(decimal.digits)] ELSE value[Len(decimal.digits)]

(* Whether an INTEGER fits an i64 or is spelled in decimal, it keeps its    *)
(* value, and the decimal has no leading zero and no negative zero.         *)
IntegersKeepTheirValue ==
  Returned =>
    \A i \in DOMAIN heap :
      heap[i].class = 0 /\ heap[i].tag = 2 /\ ~ heap[i].constructed =>
        LET bytes == Contents(i)
            decimal == IntegerToDecimal(bytes)
        IN /\ Spelled(decimal) = TwosComplement(bytes)
           /\ decimal.digits[1] = 0 => decimal.digits = <<0>> /\ ~ decimal.negative
           /\ LeafValue(i).kind = "number" => LeafValue(i).value = TwosComplement(bytes)
           /\ LeafValue(i).kind = "number" <=> bytes # <<>> /\ Len(bytes) <= WordOctets

\* The octets that bits fill, with zeros at the end.
Packed(bits) ==
  [j \in 1 .. (Len(bits) + 7) \div 8 |->
     LET bit(k) == IF 8 * (j - 1) + k <= Len(bits) THEN bits[8 * (j - 1) + k] ELSE 0
         octet[k \in 0 .. 8] == IF k = 0 THEN 0 ELSE 2 * octet[k - 1] + bit(k)
     IN octet[8]]

(* The bits shown for a BIT STRING are its octets', first to last, and only *)
(* the unused ones at the end are missing.                                  *)
BitStringsKeepTheirBits ==
  Returned =>
    \A i \in DOMAIN heap :
      ~ heap[i].constructed /\ LeafValue(i).kind = "bits" =>
        LET shown == LeafValue(i)
            last == Len(shown.octets)
            cut == Power(2, shown.unused)
        IN /\ 8 * last = Len(shown.bits) + shown.unused
           /\ Packed(shown.bits) =
                [k \in 1 .. last |-> IF k < last THEN shown.octets[k]
                                     ELSE (shown.octets[k] \div cut) * cut]

(* Every blob the reader takes is decoded.                                  *)
DecodingIsTotal ==
  Returned => \A i \in DOMAIN heap : heap[i].constructed \/ LeafValue(i) # Panic

\* The number that the octets of a subidentifier make up to each of them.
ArcsFit(bytes) ==
  LET arc[k \in 0 .. Len(bytes)] ==
        IF k = 0 THEN 0
        ELSE 128 * (IF k > 1 /\ bytes[k - 1] >= 128 THEN arc[k - 1] ELSE 0) + (bytes[k] % 128)
  IN \A k \in DOMAIN bytes : arc[k] < ArcModulus

(* If its arcs fit the accumulator, encode_oid takes the string decode_oid  *)
(* made of an OID back to its octets, so no two of them are given one name. *)
OidsThatFitNameTheirOctets ==
  Returned =>
    \A i \in DOMAIN heap :
      OidString(i) # NoOid /\ ArcsFit(Contents(i)) => EncodeOid(OidString(i)) = Contents(i)

(* encode_oid takes the string of decode_oid back to the octets it was made *)
(* from, so no two OIDs are given one name.                                 *)
OidsNameTheirOctets ==
  Returned =>
    \A i \in DOMAIN heap : OidString(i) # NoOid => EncodeOid(OidString(i)) = Contents(i)

=============================================================================
