-------------------------------- MODULE Pkcs ---------------------------------
(***************************************************************************)
(* asn1-core/src/security/pkcs.rs: pkcs8_info and pkcs12_bags, and the     *)
(* keys of RFC 5208 and RFC 5958 and the PFX of RFC 7292 built from their  *)
(* parts.  The octets nobody may see are pieces of their own.              *)
(***************************************************************************)
EXTENDS SecurityTrees

IdPbes2 == "1.2.840.113549.1.5.13"
IdData == "1.2.840.113549.1.7.1"
IdEncryptedData == "1.2.840.113549.1.7.6"
KeyBag == "1.2.840.113549.1.12.10.1.1"
ShroudedKeyBag == "1.2.840.113549.1.12.10.1.2"
CertBag == "1.2.840.113549.1.12.10.1.3"
SecretBag == "1.2.840.113549.1.12.10.1.5"
FriendlyNameAttr == "1.2.840.113549.1.9.20"
LocalKeyIdAttr == "1.2.840.113549.1.9.21"

NoInfo ==
  [version |-> None, algorithm |-> None, params |-> None, public_key |-> None,
   encrypted |-> FALSE, kdf |-> None, enc_alg |-> None]

\* EncryptedPrivateKeyInfo: under PBES2 the scheme and the derivation are
\* among the parameters.
EncryptedInfo(alg) ==
  LET ac == Kids(alg)
      pc == FlattenSeq(Map(Get(ac, 2), Kids))
      name == AlgorithmOf(alg)
  IN IF AndThen(Get(ac, 1), AsOid) = Some(IdPbes2)
     THEN [NoInfo EXCEPT !.encrypted = TRUE, !.algorithm = Some("id-PBES2"),
                         !.kdf = AndThen(Get(pc, 1), AlgorithmOf),
                         !.enc_alg = AndThen(Get(pc, 2), AlgorithmOf)]
     ELSE [NoInfo EXCEPT !.encrypted = TRUE, !.algorithm = name, !.enc_alg = name]

\* The public key [1]: a BIT STRING in an EXPLICIT wrapper loses its count of
\* unused bits, an IMPLICIT one keeps it.
PublicKeyOf(c) ==
  LET inner == Map(Ctx(c, 1), Explicit)
      bits(o) == IF o # <<>> /\ "unused" \in DOMAIN o[1] THEN Some(Tail(o)) ELSE None
  IN AndThen(inner, LAMBDA t : IF IsUniversal(t, 3) THEN AndThen(OctetsOf(t), bits)
                               ELSE Some(GatherOctets(t)))

PlainInfo(c) ==
  LET alg == SelectSeq(Get(c, 2), IsSequence)
  IN [NoInfo EXCEPT !.version = AsI64(c[1]), !.algorithm = AndThen(alg, AlgorithmOf),
                    !.params = AndThen(alg, LAMBDA a : Get(Kids(a), 2)),
                    !.public_key = PublicKeyOf(c)]

Pkcs8Info(blob) ==
  LET info(root) ==
        LET c == Kids(root)
        IN CASE IsSequence(root) /\ c # <<>> /\ IsSequence(c[1]) -> Some(EncryptedInfo(c[1]))
             [] IsSequence(root) /\ c # <<>> /\ IsUniversal(c[1], 2) -> Some(PlainInfo(c))
             [] OTHER -> None
  IN AndThen(Parse(blob), info)

BagTypeNames ==
  KeyBag :> "keyBag" @@ ShroudedKeyBag :> "pkcs8ShroudedKeyBag" @@ CertBag :> "certBag"
  @@ "1.2.840.113549.1.12.10.1.4" :> "crlBag" @@ SecretBag :> "secretBag"
  @@ "1.2.840.113549.1.12.10.1.6" :> "safeContentsBag"

NoBag ==
  [bag_type |-> "", friendly_name |-> None, local_key_id |-> None, alg |-> None,
   cert_sha256 |-> None, encrypted |-> FALSE]

\* The hash of the value [0] of a CertBag.
CertHashOf(cb) ==
  LET der == AndThen(Ctx(Kids(cb), 0), LAMBDA cv : Some(GatherOctets(Explicit(cv))))
  IN Map(SelectSeq(der, LAMBDA o : o # <<>>), Sha256)

\* Mutant of ValueFields: a shrouded key is hashed like a certificate.
ValueFieldsHashed(id, value) ==
  [cert_sha256 |-> Map(value, LAMBDA v : Sha256(GatherOctets(v))), alg |-> None]

\* What is shown of the value of a bag: of a key, its algorithm alone.
ValueFields(id, value) ==
  LET algorithm(kv) ==
        LET first == FirstKid(kv)
        IN IF first # None /\ IsSequence(first[1]) THEN AlgorithmOf(first[1])
           ELSE AndThen(SelectSeq(Get(Kids(kv), 2), IsSequence), AlgorithmOf)
  IN [cert_sha256 |-> IF id = CertBag THEN AndThen(value, CertHashOf) ELSE None,
      alg |-> IF id \in {KeyBag, ShroudedKeyBag} THEN AndThen(value, algorithm) ELSE None]

BagAttribute(row, attr) ==
  LET type == AndThen(FirstKid(attr), AsOid)
      value == AndThen(Get(Kids(attr), 2), FirstKid)
      name(v) == DecodeString(v.tag, OrElse(OctetsOf(v), <<<<>>>>)[1])
  IN CASE type = Some(FriendlyNameAttr) -> [row EXCEPT !.friendly_name = AndThen(value, name)]
       [] type = Some(LocalKeyIdAttr) ->
            [row EXCEPT !.local_key_id = Map(AndThen(value, OctetsOf), Hex)]
       [] OTHER -> row

ShredBag(bag) ==
  LET c == Kids(bag)
      id == AndThen(Get(c, 1), AsOid)
      attrs == Find(c, LAMBDA t : IsSet(t) \/ IsContext(t, 1))
      row(d) ==
        ValueFields(d, Map(Get(c, 2), Explicit))
        @@ [NoBag EXCEPT !.bag_type = IF d \in DOMAIN BagTypeNames THEN BagTypeNames[d] ELSE "unknown",
                         !.encrypted = (d = ShroudedKeyBag)]
  IN IF ~IsSequence(bag) THEN None
     ELSE Map(id, LAMBDA d : FoldLeft(BagAttribute, row(d), FlattenSeq(Map(attrs, Kids))))

\* The tree in the content [0] of a ContentInfo.
ContentOf(ci) == AndThen(Ctx(Kids(ci), 0), LAMBDA c0 : Parse(GatherOctets(Explicit(c0))))

\* Mutant of BagsIn: encrypted bags leave no trace.
BagsInPlain(ci) == FilterMap(FlattenSeq(Map(ContentOf(ci), Kids)), ShredBag)

BagsIn(ci) ==
  LET type == AndThen(FirstKid(ci), AsOid)
  IN CASE type = Some(IdData) -> FilterMap(FlattenSeq(Map(ContentOf(ci), Kids)), ShredBag)
       [] type = Some(IdEncryptedData) ->
            <<[NoBag EXCEPT !.bag_type = "encryptedData", !.encrypted = TRUE]>>
       [] OTHER -> <<>>

Pkcs12Bags(blob) ==
  LET authSafe == SelectSeq(AndThen(Parse(blob), LAMBDA pfx : Get(Kids(pfx), 2)), IsSequence)
  IN FlattenSeq(Map(FlattenSeq(Map(AndThen(authSafe, ContentOf), Kids)), BagsIn))

-----------------------------------------------------------------------------
\* RFC 5208, RFC 5958 and RFC 7292.  p.secret stands for the key material.

Secret(p) == OctetString(<<[secret |-> p.secret]>>)

PublicKey(style) ==
  IF style = "explicit"
  THEN Tagged(1, <<Primitive("universal", 3, <<[unused |-> 0], [public |-> 1]>>)>>)
  ELSE Primitive("context", 1, <<[unused |-> 0], [public |-> 1]>>)

PrivateKeyInfo(p) ==
  Sequence(<<Integer(p.version), AlgorithmId(p.alg), Secret(p)>>
           \o (IF p.attributed THEN <<Tagged(0, <<Sequence(<<ObjectId("2.5.29.15"), SetOf(<<>>)>>)>>)>>
               ELSE <<>>)
           \o Map(p.public, PublicKey))

EncryptedPrivateKeyInfo(p) ==
  Sequence(<<IF p.pbes2
             THEN Sequence(<<ObjectId(IdPbes2), Sequence(<<AlgorithmId("1.2.840.113549.1.5.12"),
                                                          AlgorithmId(p.alg)>>)>>)
             ELSE AlgorithmId(p.alg),
             Secret(p)>>)

BagValue(b, p) ==
  CASE b.id = KeyBag ->
         PrivateKeyInfo([version |-> 0, alg |-> b.alg, secret |-> p.secret, attributed |-> FALSE,
                         public |-> None])
    [] b.id = ShroudedKeyBag ->
         EncryptedPrivateKeyInfo([pbes2 |-> FALSE, alg |-> b.alg, secret |-> p.secret])
    [] b.id = CertBag ->
         Sequence(<<ObjectId("1.2.840.113549.1.9.22.1"),
                    Tagged(0, <<Segmented(<<[cert |-> b.alg], [cert |-> 2]>>, b.cut)>>)>>)
    [] b.id = SecretBag -> Sequence(<<ObjectId("1.2.3"), Tagged(0, <<Secret(p)>>)>>)

BagAttributes(b) ==
  Map(b.name, LAMBDA s : Sequence(<<ObjectId(FriendlyNameAttr), SetOf(<<Text(30, <<[text |-> s]>>)>>)>>))
  \o Map(b.key_id, LAMBDA h : Sequence(<<ObjectId(LocalKeyIdAttr), SetOf(<<OctetString(<<[hash |-> h]>>)>>)>>))

SafeBag(b, p) ==
  Sequence(<<ObjectId(b.id), Tagged(0, <<BagValue(b, p)>>)>>
           \o IF BagAttributes(b) = <<>> THEN <<>> ELSE <<SetOf(BagAttributes(b))>>)

DataContent(tree, cut) == Sequence(<<ObjectId(IdData), Tagged(0, <<Segmented(Der(tree), cut)>>)>>)

\* A safe is a sequence of bags, or the bags are encrypted as a whole.
Safe(s, p) ==
  IF s.encrypted
  THEN Sequence(<<ObjectId(IdEncryptedData),
                  Tagged(0, <<Sequence(<<Integer(0), Sequence(<<ObjectId(IdData), Secret(p)>>)>>)>>)>>)
  ELSE DataContent(Sequence(Map(s.bags, LAMBDA b : SafeBag(b, p))), p.cut)

Pfx(p) ==
  Sequence(<<Integer(3), DataContent(Sequence(Map(p.safes, LAMBDA s : Safe(s, p))), p.cut)>>
           \o IF p.mac THEN <<Sequence(<<AlgorithmId("1.3.14.3.2.26")>>)>> ELSE <<>>)

PlainAnswer(p) ==
  [NoInfo EXCEPT !.version = Some(p.version), !.algorithm = OidNamed(ObjectId(p.alg)),
                 !.params = Some(NullValue),
                 !.public_key = Map(p.public, LAMBDA style : <<[public |-> 1]>>)]

EncryptedAnswer(p) ==
  LET scheme == OidNamed(ObjectId(p.alg))
  IN [NoInfo EXCEPT !.encrypted = TRUE, !.enc_alg = scheme,
                    !.algorithm = IF p.pbes2 THEN Some("id-PBES2") ELSE scheme,
                    !.kdf = IF p.pbes2 THEN OidNamed(ObjectId("1.2.840.113549.1.5.12")) ELSE None]

BagAnswer(b) ==
  [bag_type |-> BagTypeNames[b.id], encrypted |-> b.id = ShroudedKeyBag,
   friendly_name |-> Map(b.name, LAMBDA s : <<[text |-> s]>>),
   local_key_id |-> Map(b.key_id, LAMBDA h : Hex(<<[hash |-> h]>>)),
   alg |-> IF b.id \in {KeyBag, ShroudedKeyBag} THEN OidNamed(ObjectId(b.alg)) ELSE None,
   cert_sha256 |-> IF b.id = CertBag THEN Some(Sha256(<<[cert |-> b.alg], [cert |-> 2]>>)) ELSE None]

BagsAnswer(p) ==
  FlattenSeq(Map(p.safes, LAMBDA s :
    IF s.encrypted THEN <<[NoBag EXCEPT !.bag_type = "encryptedData", !.encrypted = TRUE]>>
    ELSE Map(s.bags, BagAnswer)))

=============================================================================
