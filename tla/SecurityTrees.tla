---------------------------- MODULE SecurityTrees ----------------------------
(***************************************************************************)
(* What the decoders of asn1-core/src/security/ have in common: the trees  *)
(* the reader hands them and the helpers of security/mod.rs.               *)
(*                                                                         *)
(* A node is a record with kids when it is constructed and with octets     *)
(* when it is primitive.  The octets are a sequence of pieces, records     *)
(* told apart by their one field: a number, a name, a text, a time; the    *)
(* DER encoding of a tree is two pieces, its halves, so that a cut, a      *)
(* segment out of place or octets left behind do not read as the tree.     *)
(* An Option is a sequence of at most one element.                         *)
(***************************************************************************)
EXTENDS Integers, Sequences, SequencesExt, TLC

CONSTANT Registry  \* the names of registered OBJECT IDENTIFIERs, by dotted form

None == <<>>
Some(x) == <<x>>
Map(s, F(_)) == [i \in DOMAIN s |-> F(s[i])]
AndThen(o, F(_)) == IF o = None THEN None ELSE F(o[1])
OrElse(o, p) == IF o = None THEN p ELSE o
Get(s, i) == IF i \in DOMAIN s THEN Some(s[i]) ELSE None
Find(s, Test(_)) == Get(s, SelectInSeq(s, Test))
FindLast(s, Test(_)) == Get(s, SelectLastInSeq(s, Test))
FilterMap(s, F(_)) == FlattenSeq(Map(s, F))

-----------------------------------------------------------------------------
\* Nodes, as tlv.rs hands them out.

Constructed(class, tag, kids) == [class |-> class, tag |-> tag, kids |-> kids]
Primitive(class, tag, octets) == [class |-> class, tag |-> tag, octets |-> octets]

IsPrimitive(t) == "octets" \in DOMAIN t
OctetsOf(t) == IF IsPrimitive(t) THEN Some(t.octets) ELSE None
IsUniversal(t, tag) == t.class = "universal" /\ t.tag = tag
IsContext(t, tag) == t.class = "context" /\ t.tag = tag

IsSequence(t) == IsUniversal(t, 16)
IsSet(t) == IsUniversal(t, 17)

Kids(t) == IF IsPrimitive(t) THEN <<>> ELSE t.kids
FirstKid(t) == Get(Kids(t), 1)

\* Mutant of GatherOctets: a segmented string has no octets.
GatherOctetsFlat(t) == IF IsPrimitive(t) THEN t.octets ELSE <<>>

\* The octets of a string, the segments of a constructed one end to end.
RECURSIVE GatherOctets(_)
GatherOctets(t) ==
  IF IsPrimitive(t) THEN t.octets ELSE FlattenSeq(Map(t.kids, GatherOctets))

\* The encoding of a tree, and reading it back: all of it, or an error.
Der(t) == <<[der |-> t, part |-> 1], [der |-> t, part |-> 2]>>

Parse(octets) ==
  IF Len(octets) = 2 /\ "der" \in DOMAIN octets[1] /\ octets = Der(octets[1].der)
  THEN Some(octets[1].der)
  ELSE None

\* parse_all: the trees end to end, None when any of them cannot be read.
ParseAll(octets) ==
  LET n == (Len(octets) + 1) \div 2
      tree(i) == Parse(Get(octets, 2 * i - 1) \o Get(octets, 2 * i))
  IN IF \A i \in 1 .. n : tree(i) # None
     THEN Some([i \in 1 .. n |-> tree(i)[1]])
     ELSE None

\* to_der, up to the encoding: trees that differ in the order of sets alone
\* have the same DER.
RECURSIVE ToDer(_)
ToDer(t) ==
  IF IsPrimitive(t) THEN t
  ELSE [class |-> t.class, tag |-> t.tag,
        content |-> LET encoded == Map(t.kids, ToDer)
                    IN IF IsSet(t) THEN [bag |-> ToBag(encoded)] ELSE [list |-> encoded]]

-----------------------------------------------------------------------------
\* The helpers of security/mod.rs.

HasPiece(octets, kind) == Len(octets) = 1 /\ kind \in DOMAIN octets[1]

\* INTEGER and ENUMERATED; a number too big for an i64 is a piece of its own.
AsI64(t) ==
  IF /\ IsUniversal(t, 2) \/ IsUniversal(t, 10)
     /\ IsPrimitive(t) /\ HasPiece(t.octets, "int")
  THEN Some(t.octets[1].int)
  ELSE None

\* Octets above 7F, by name: one that is no UTF-8 where it stands, and those of
\* a character of two, with the Latin-1 characters they are.
RawOctets == "octet E9" :> "e acute"
TwoOctets == "e acute" :> <<"A tilde", "copyright">>

Latin1(piece) ==
  CASE "octet" \in DOMAIN piece -> <<[text |-> RawOctets[piece.octet]]>>
    [] "text" \in DOMAIN piece /\ piece.text \in DOMAIN TwoOctets ->
         Map(TwoOctets[piece.text], LAMBDA c : [text |-> c])
    [] OTHER -> <<piece>>

\* Octets that are not UTF-8 throughout are Latin-1.
Decoded(octets) ==
  IF \E i \in DOMAIN octets : "octet" \in DOMAIN octets[i]
  THEN FlattenSeq(Map(octets, Latin1))
  ELSE octets

\* Text of any primitive node, whatever its tag.
AsStr(t) == Map(OctetsOf(t), Decoded)

AsOid(t) ==
  IF IsUniversal(t, 6) /\ IsPrimitive(t) /\ HasPiece(t.octets, "oid")
  THEN Some(t.octets[1].oid)
  ELSE None

NameFor(dotted) == IF dotted \in DOMAIN Registry THEN Some(Registry[dotted]) ELSE None

OidNamed(t) == Map(AsOid(t), LAMBDA d : OrElse(NameFor(d), Some(d))[1])

\* The algorithm of an AlgorithmIdentifier.
AlgorithmOf(t) == AndThen(FirstKid(t), OidNamed)

Ctx(children, tag) == Find(children, LAMBDA t : IsContext(t, tag))

\* The one child of an EXPLICIT wrapper; a node that is no wrapper is itself.
Explicit(t) == IF Len(Kids(t)) = 1 THEN t.kids[1] ELSE t

\* Character strings are told by their tag alone, times too.
StringTags == {12, 18, 19, 20, 22, 25, 26, 27, 28, 30}
DecodeString(tag, octets) == IF tag \in StringTags THEN Some(Decoded(octets)) ELSE None

DecodeTime(tag, octets) ==
  IF tag \in {23, 24} /\ HasPiece(octets, "time") THEN Some(octets[1].time) ELSE None
TimeOf(t) == AndThen(OctetsOf(t), LAMBDA o : DecodeTime(t.tag, o))

AttributeKeys ==
  "2.5.4.3" :> "CN" @@ "2.5.4.6" :> "C" @@ "2.5.4.7" :> "L" @@ "2.5.4.8" :> "ST" @@
  "2.5.4.10" :> "O" @@ "2.5.4.11" :> "OU" @@ "0.9.2342.19200300.100.1.25" :> "DC" @@
  "1.2.840.113549.1.9.1" :> "E"
ShortAttr(dotted) ==
  IF dotted \in DOMAIN AttributeKeys THEN AttributeKeys[dotted] ELSE dotted

\* The attributes of a Name in order, those without an OID or a value left out.
RenderName(name) ==
  LET attribute(atv) ==
        IF Len(Kids(atv)) < 2 THEN None
        ELSE LET value == atv.kids[2]
                 text == DecodeString(value.tag, OrElse(OctetsOf(value), Some(<<>>))[1])
             IN Map(AsOid(atv.kids[1]),
                    LAMBDA d : <<ShortAttr(d), OrElse(text, Some(<<>>))[1]>>)
  IN FlattenSeq(Map(Kids(name), LAMBDA rdn : FilterMap(Kids(rdn), attribute)))

\* A code by its name, or as a number when it has none.
CodeName(names, n) == IF n \in DOMAIN names THEN names[n] ELSE ToString(n)

Hex(octets) == [hex |-> octets]
Sha256(encoding) == [sha256 |-> encoding]

-----------------------------------------------------------------------------
\* How the messages of the RFCs are built, for the reference encoders.

Sequence(kids) == Constructed("universal", 16, kids)
SetOf(kids) == Constructed("universal", 17, kids)
Tagged(tag, kids) == Constructed("context", tag, kids)
Application(tag, kids) == Constructed("application", tag, kids)
Integer(n) == Primitive("universal", 2, <<[int |-> n]>>)
Enumerated(n) == Primitive("universal", 10, <<[int |-> n]>>)
OctetString(octets) == Primitive("universal", 4, octets)
ObjectId(dotted) == Primitive("universal", 6, <<[oid |-> dotted]>>)
NullValue == Primitive("universal", 5, <<>>)
Text(tag, chars) == Primitive("universal", tag, chars)
GeneralizedTime(t) == Primitive("universal", 24, <<[time |-> t]>>)
AlgorithmId(dotted) == Sequence(<<ObjectId(dotted), NullValue>>)

\* A string in one piece, or with every piece in a segment of its own.
Segmented(octets, cut) ==
  IF cut THEN Constructed("universal", 4, [i \in DOMAIN octets |-> OctetString(<<octets[i]>>)])
  ELSE OctetString(octets)

\* A Name: RDNs, each a sequence of attributes <<OID, text>>.
Name(rdns) ==
  Sequence(Map(rdns, LAMBDA rdn :
    SetOf(Map(rdn, LAMBDA atv : Sequence(<<ObjectId(atv[1]), Text(12, <<[text |-> atv[2]]>>)>>)))))

=============================================================================
