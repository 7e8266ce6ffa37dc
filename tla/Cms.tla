--------------------------------- MODULE Cms ---------------------------------
(***************************************************************************)
(* asn1-core/src/security/cms.rs: what is read out of a ContentInfo and    *)
(* its SignedData, and the SignedData of RFC 5652 built from its parts.    *)
(***************************************************************************)
EXTENDS SecurityTrees

IdSignedData == "1.2.840.113549.1.7.2"
ContentTypeAttr == "1.2.840.113549.1.9.3"
MessageDigestAttr == "1.2.840.113549.1.9.4"
SigningTimeAttr == "1.2.840.113549.1.9.5"

\* The SignedData of a ContentInfo, or the root when it begins with a version.
SignedDataOf(root) ==
  LET top == Kids(root)
  IN IF /\ Len(top) >= 2 /\ AsOid(top[1]) = Some(IdSignedData)
        /\ top[2].class = "context"
     THEN FirstKid(top[2])
     ELSE IF top # <<>> /\ IsUniversal(top[1], 2) THEN Some(root) ELSE None

\* The children of the SignedData of a blob; an option of their sequence.
PartsOf(blob) == Map(AndThen(Parse(blob), SignedDataOf), Kids)

CmsDecode(blob) ==
  LET top == FlattenSeq(Map(Parse(blob), Kids))
      type == AndThen(Get(top, 1), AsOid)
  IN CASE Parse(blob) = None -> [error |-> "not well-formed"]
       [] Len(top) >= 2 /\ type # None ->
            [content_type |-> OrElse(NameFor(type[1]), <<"unknown">>)[1],
             content_type_oid |-> type[1], content |-> Explicit(top[2])]
       [] OTHER -> [error |-> "not a CMS ContentInfo"]

\* The X.509 certificates among the certificates [0].
CertificatesIn(parts) == SelectSeq(FlattenSeq(Map(Ctx(parts, 0), Kids)), IsSequence)

CmsCerts(blob) ==
  Map(FlattenSeq(Map(PartsOf(blob), CertificatesIn)), ToDer)

\* encapContentInfo: the first SEQUENCE that begins with an OBJECT IDENTIFIER.
EncapIn(parts) ==
  Find(parts, LAMBDA c : IsSequence(c) /\ Kids(c) # <<>> /\ IsUniversal(c.kids[1], 6))

CmsContent(blob) ==
  LET econtent == AndThen(AndThen(PartsOf(blob), EncapIn), LAMBDA e : Ctx(Kids(e), 0))
  IN Map(econtent, LAMBDA c : GatherOctets(Explicit(c)))

\* The issuer, as DER, and the serial number of a certificate.
CertIssuerSerial(cert) ==
  LET c == FlattenSeq(Map(SelectSeq(FirstKid(cert), IsSequence), Kids))
      pos == IF c # <<>> /\ IsContext(c[1], 0) THEN 1 ELSE 0
  IN [issuer |-> Map(SelectSeq(Get(c, pos + 3), IsSequence), ToDer),
      serial |-> AndThen(SelectSeq(Get(c, pos + 1), LAMBDA t : IsUniversal(t, 2)), OctetsOf)]

CollectCerts(parts) ==
  Map(CertificatesIn(parts),
      LAMBDA cert : CertIssuerSerial(cert) @@ [sha256 |-> Sha256(ToDer(cert))])

\* Mutant of CertFor: the serial number alone is compared.
CertForSerial(certs, issuer, serial) == Find(certs, LAMBDA ci : ci.serial = serial)

CertFor(certs, issuer, serial) ==
  Find(certs, LAMBDA ci : ci.issuer = Some(ToDer(issuer)) /\ ci.serial = serial)

NoSigner ==
  [signer_sid |-> "", signer_issuer |-> None, signer_serial |-> None, signer_skid |-> None,
   signer_cert_sha256 |-> None]

\* IssuerAndSerialNumber, or [0] subjectKeyIdentifier.
ShredSid(sid, certs) ==
  LET issuer == SelectSeq(FirstKid(sid), IsSequence)
      serial == AndThen(Get(Kids(sid), 2), OctetsOf)
      named == [NoSigner EXCEPT !.signer_sid = "issuerAndSerialNumber"]
  IN CASE IsSequence(sid) /\ issuer # None ->
            [named EXCEPT
               !.signer_issuer = Map(issuer, RenderName), !.signer_serial = serial,
               !.signer_cert_sha256 = Map(CertFor(certs, issuer[1], serial),
                                          LAMBDA ci : ci.sha256)]
       [] IsSequence(sid) /\ issuer = None -> named
       [] IsContext(sid, 0) ->
            [NoSigner EXCEPT !.signer_sid = "subjectKeyIdentifier",
                             !.signer_skid = Map(OctetsOf(sid), Hex)]
       [] OTHER -> NoSigner

NoAttributes ==
  [content_type |-> None, message_digest |-> None, signing_time |-> None, signed_attrs |-> <<>>]

\* One signed attribute; one with the OID of an earlier one replaces it.
ApplyAttribute(row, attr) ==
  LET type == AndThen(FirstKid(attr), AsOid)
      value == AndThen(Get(Kids(attr), 2), FirstKid)
  IN CASE type = None -> row
       [] type = Some(ContentTypeAttr) ->
            [row EXCEPT !.content_type = AndThen(value, OidNamed)]
       [] type = Some(MessageDigestAttr) ->
            [row EXCEPT !.message_digest = Map(value, GatherOctets)]
       [] type = Some(SigningTimeAttr) ->
            [row EXCEPT !.signing_time = IF value = None THEN @ ELSE TimeOf(value[1])]
       [] OTHER -> [row EXCEPT !.signed_attrs =
                      (OrElse(NameFor(type[1]), type)[1] :> value) @@ @]

\* Mutant of Step: an absent optional part is stepped over.
StepAlways(position, part) == position + 1

\* The place after an optional part.
Step(position, part) == position + Len(part)

\* A SignerInfo, part by part: a part that is not there leaves its place to
\* the next.
ShredSigner(si, certs, encap_ct) ==
  LET c == Kids(si)
      version == AndThen(Get(c, 1), AsI64)
      at_sid == Step(1, version)
      sid == Get(c, at_sid)
      at_digest == Step(at_sid, sid)
      digest == SelectSeq(Get(c, at_digest), IsSequence)
      at_attrs == Step(at_digest, digest)
      attrs == SelectSeq(Get(c, at_attrs), LAMBDA t : IsContext(t, 0))
      at_alg == Step(at_attrs, attrs)
      alg == SelectSeq(Get(c, at_alg), IsSequence)
      signature == SelectSeq(Get(c, Step(at_alg, alg)), LAMBDA t : IsUniversal(t, 4))
      applied == FoldLeft(ApplyAttribute, NoAttributes, FlattenSeq(Map(attrs, Kids)))
  IN [version |-> version,
      digest_alg |-> AndThen(digest, AlgorithmOf),
      sig_alg |-> AndThen(alg, AlgorithmOf),
      signature |-> Map(signature, GatherOctets)]
     @@ OrElse(Map(sid, LAMBDA s : ShredSid(s, certs)), <<NoSigner>>)[1]
     @@ [applied EXCEPT !.content_type = OrElse(@, encap_ct)]

\* signerInfos: the last SET.
SignerInfosIn(parts) == FindLast(parts, IsSet)

CmsSigners(blob) ==
  LET rows(parts) ==
        LET encap_ct == AndThen(AndThen(AndThen(EncapIn(parts), FirstKid), AsOid), NameFor)
            infos == SelectSeq(FlattenSeq(Map(SignerInfosIn(parts), Kids)), IsSequence)
        IN Map(infos, LAMBDA si : ShredSigner(si, CollectCerts(parts), encap_ct))
  IN FlattenSeq(Map(PartsOf(blob), rows))

-----------------------------------------------------------------------------
\* RFC 5652.

Certificate(c) ==
  Sequence(<<Sequence((IF c.versioned THEN <<Tagged(0, <<Integer(2)>>)>> ELSE <<>>)
                      \o <<Integer(c.serial), AlgorithmId("1.2.840.113549.1.1.11"),
                           Name(c.issuer), Name(c.subject)>>),
             AlgorithmId("1.2.840.113549.1.1.11"),
             Primitive("universal", 3, <<[unused |-> 0], [signature |-> 1]>>)>>)

\* A certificate, or an attribute certificate [1].
CertificateChoice(c) ==
  IF c.attribute THEN Tagged(1, Certificate(c).kids) ELSE Certificate(c)

SignerIdentifier(sid) ==
  IF "skid" \in DOMAIN sid THEN Primitive("context", 0, <<[hash |-> sid.skid]>>)
  ELSE Sequence(<<Name(sid.issuer), Integer(sid.serial)>>)

Attribute(dotted, value) == Sequence(<<ObjectId(dotted), SetOf(<<value>>)>>)

SignedAttributes(a) ==
  <<Attribute(ContentTypeAttr, ObjectId(a.type))>>
  \o Map(a.time, LAMBDA t : Attribute(SigningTimeAttr, Primitive("universal", 23, <<[time |-> t]>>)))
  \o <<Attribute(MessageDigestAttr, Segmented(<<[hash |-> 1], [hash |-> 2]>>, a.cut))>>
  \o Map(a.other, LAMBDA v : Attribute("1.2.840.113549.1.9.15", v))

SignerInfo(s) ==
  Sequence(<<Integer(IF "skid" \in DOMAIN s.sid THEN 3 ELSE 1), SignerIdentifier(s.sid),
             AlgorithmId("2.16.840.1.101.3.4.2.1")>>
           \o Map(s.attrs, LAMBDA a : Tagged(0, SignedAttributes(a)))
           \o <<AlgorithmId("1.2.840.113549.1.1.1"), OctetString(<<[signature |-> 2]>>)>>
           \o Map(s.unsigned, LAMBDA v : Tagged(1, <<Attribute("1.2.840.113549.1.9.6", v)>>)))

SignedData(p) ==
  Sequence(<<Integer(1), SetOf(<<AlgorithmId("2.16.840.1.101.3.4.2.1")>>),
             Sequence(<<ObjectId(p.type)>>
                      \o Map(p.content, LAMBDA o : Tagged(0, <<Segmented(o, p.cut)>>)))>>
           \o Map(p.certs, LAMBDA cs : Tagged(0, Map(cs, CertificateChoice)))
           \o Map(p.crls, LAMBDA crl : Tagged(1, <<crl>>))
           \o <<SetOf(Map(p.signers, SignerInfo))>>)

ContentInfo(p) ==
  IF p.bare THEN SignedData(p)
  ELSE Sequence(<<ObjectId(IdSignedData), Tagged(0, <<SignedData(p)>>)>>)

\* The rows its signers should give, but for the certificate they are joined to.
SignerAnswer(s, p) ==
  [version |-> Some(IF "skid" \in DOMAIN s.sid THEN 3 ELSE 1),
   digest_alg |-> OidNamed(ObjectId("2.16.840.1.101.3.4.2.1")),
   sig_alg |-> OidNamed(ObjectId("1.2.840.113549.1.1.1")),
   signature |-> Some(<<[signature |-> 2]>>),
   content_type |-> IF s.attrs = None THEN NameFor(p.type)
                    ELSE OidNamed(ObjectId(s.attrs[1].type)),
   message_digest |-> Map(s.attrs, LAMBDA a : <<[hash |-> 1], [hash |-> 2]>>),
   signing_time |-> AndThen(s.attrs, LAMBDA a : a.time),
   signed_attrs |-> IF AndThen(s.attrs, LAMBDA a : a.other) = None THEN <<>>
                    ELSE OidNamed(ObjectId("1.2.840.113549.1.9.15"))[1] :> s.attrs[1].other]
  @@ IF "skid" \in DOMAIN s.sid
     THEN [signer_sid |-> "subjectKeyIdentifier", signer_skid |-> Some(Hex(<<[hash |-> s.sid.skid]>>)),
           signer_issuer |-> None, signer_serial |-> None]
     ELSE [signer_sid |-> "issuerAndSerialNumber", signer_skid |-> None,
           signer_issuer |-> Some(RenderName(Name(s.sid.issuer))),
           signer_serial |-> Some(<<[int |-> s.sid.serial]>>)]

\* The order of the attributes of an RDN does not count.
SameName(n, m) == Len(n) = Len(m) /\ \A i \in DOMAIN n : ToBag(n[i]) = ToBag(m[i])

\* The place of a signer's certificate among the X.509 certificates: the
\* first of its issuer with its serial number, or none.
CertificateOf(s, p) ==
  LET x509 == SelectSeq(FlattenSeq(p.certs), LAMBDA c : ~c.attribute)
      i == SelectInSeq(x509, LAMBDA c : SameName(c.issuer, s.sid.issuer) /\ c.serial = s.sid.serial)
  IN IF "skid" \in DOMAIN s.sid \/ i = 0 THEN None ELSE Some(i)

=============================================================================
