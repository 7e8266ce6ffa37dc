-------------------------------- MODULE Ocsp ---------------------------------
(***************************************************************************)
(* asn1-core/src/security/ocsp.rs: ocsp_decode, and the requests and       *)
(* responses of RFC 6960 it is meant for, built from their parts.          *)
(***************************************************************************)
EXTENDS SecurityTrees

StatusNames ==
  0 :> "successful" @@ 1 :> "malformedRequest" @@ 2 :> "internalError" @@
  3 :> "tryLater" @@ 5 :> "sigRequired" @@ 6 :> "unauthorized"

ReasonNames ==
  0 :> "unspecified" @@ 1 :> "keyCompromise" @@ 2 :> "cACompromise" @@
  3 :> "affiliationChanged" @@ 4 :> "superseded" @@ 5 :> "cessationOfOperation" @@
  6 :> "certificateHold" @@ 8 :> "removeFromCRL" @@ 9 :> "privilegeWithdrawn" @@
  10 :> "aACompromise"

FirstTime(children) == AndThen(Find(children, LAMBDA t : IsUniversal(t, 24)), TimeOf)

\* The three hashes and numbers of a CertID that are shown.
CertIdOf(cid) ==
  LET field(i, Show(_)) == Map(AndThen(Get(Kids(cid), i), OctetsOf), Show)
  IN [issuer_name_hash |-> field(2, Hex), issuer_key_hash |-> field(3, Hex),
      cert_serial |-> field(4, LAMBDA o : o)]

NoCertId == [issuer_name_hash |-> None, issuer_key_hash |-> None, cert_serial |-> None]

\* certStatus: the first context node, a CHOICE of [0] good, [1] revoked, [2] unknown.
CertStatusOf(c) ==
  LET node == Find(c, LAMBDA t : t.class = "context")
      other(status) == [cert_status |-> status, revocation_time |-> None,
                        revocation_reason |-> None]
  IN CASE node # None /\ node[1].tag = 0 -> other("good")
       [] node # None /\ node[1].tag = 1 ->
            [cert_status |-> "revoked",
             revocation_time |-> AndThen(FirstKid(node[1]), TimeOf),
             revocation_reason |-> Map(AndThen(Ctx(Kids(node[1]), 0), LAMBDA r : AsI64(Explicit(r))),
                                       LAMBDA n : CodeName(ReasonNames, n))]
       [] OTHER -> other("unknown")

\* nextUpdate [0]: the first context node 0, whatever it is.
NextUpdateOf(c) ==
  AndThen(SelectSeq(Map(Ctx(c, 0), Explicit), LAMBDA t : IsUniversal(t, 24)), TimeOf)

DecodeSingle(sr) ==
  LET c == Kids(sr)
  IN OrElse(Map(Get(c, 1), CertIdOf), <<NoCertId>>)[1]
     @@ CertStatusOf(c)
     @@ [this_update |-> FirstTime(c), next_update |-> NextUpdateOf(c)]

\* Mutant of ResponderOf: the first context node is the responder.
ResponderOfFirst(tc) ==
  Map(Find(tc, LAMBDA t : t.class = "context"),
      LAMBDA t : IF t.tag = 1 THEN [byName |-> RenderName(Explicit(t))]
                 ELSE [byKey |-> Hex(GatherOctets(Explicit(t)))])

ResponderOf(tc) ==
  Map(Find(tc, LAMBDA t : t.class = "context" /\ t.tag \in {1, 2}),
      LAMBDA t : IF t.tag = 1 THEN [byName |-> RenderName(Explicit(t))]
                 ELSE [byKey |-> Hex(GatherOctets(Explicit(t)))])

\* responses and requestList: the last SEQUENCE of their parent.
LastSequence(children) == FindLast(children, IsSequence)

\* Null without a tbsResponseData, else an option of one record.
DecodeBasic(basic) ==
  LET c == Kids(basic)
      tbs == SelectSeq(Get(c, 1), IsSequence)
      decoded(t) ==
        LET tc == Kids(t)
        IN [responder_id |-> ResponderOf(tc),
            produced_at |-> FirstTime(tc),
            sig_alg |-> AndThen(Get(c, 2), AlgorithmOf),
            responses |-> Map(FlattenSeq(Map(LastSequence(tc), Kids)), DecodeSingle)]
  IN Map(tbs, decoded)

DecodeResponse(c) ==
  [kind |-> "OCSPResponse",
   response_status |-> Map(AsI64(c[1]), LAMBDA n : CodeName(StatusNames, n)),
   basic |-> LET response == AndThen(Ctx(c, 0), LAMBDA rb : Get(Kids(Explicit(rb)), 2))
             IN AndThen(AndThen(response, LAMBDA r : Parse(GatherOctets(r))), DecodeBasic)]

DecodeRequest(c) ==
  [kind |-> "OCSPRequest",
   requests |-> FilterMap(FlattenSeq(Map(LastSequence(Kids(c[1])), Kids)),
                          LAMBDA req : Map(FirstKid(req), CertIdOf))]

OcspDecode(blob) ==
  LET root == Parse(blob)
      c == Kids(root[1])
  IN CASE root = None -> [error |-> "not well-formed"]
       [] root # None /\ ~IsSequence(root[1]) -> [error |-> "not an OCSP message"]
       [] root # None /\ IsSequence(root[1]) ->
            CASE c # <<>> /\ IsUniversal(c[1], 10) -> DecodeResponse(c)
              [] c # <<>> /\ IsSequence(c[1]) -> DecodeRequest(c)
              [] OTHER -> [error |-> "unrecognized OCSP structure"]

-----------------------------------------------------------------------------
\* RFC 6960.  Optional parts are options; extensions are present or not.

Extensions(tag, present) ==
  IF present THEN <<Tagged(tag, <<Sequence(<<Sequence(<<ObjectId("1.3.6.1.5.5.7.48.1.2"),
                                                          OctetString(<<[text |-> "nonce"]>>)>>)>>)>>)>>
  ELSE <<>>

CertId(serial) ==
  Sequence(<<AlgorithmId("1.3.14.3.2.26"), OctetString(<<[hash |-> "name"]>>),
             OctetString(<<[hash |-> "key"]>>), Integer(serial)>>)

CertStatus(s) ==
  CASE s.status = "good" -> Primitive("context", 0, <<>>)
    [] s.status = "unknown" -> Primitive("context", 2, <<>>)
    [] s.status = "revoked" ->
         Tagged(1, <<GeneralizedTime(s.time)>>
                   \o Map(s.reason, LAMBDA n : Tagged(0, <<Enumerated(n)>>)))

SingleResponse(s) ==
  Sequence(<<CertId(s.serial), CertStatus(s), GeneralizedTime(s.this)>>
           \o Map(s.next, LAMBDA t : Tagged(0, <<GeneralizedTime(t)>>))
           \o Extensions(1, s.extended))

Responder(r) ==
  IF "name" \in DOMAIN r THEN Tagged(1, <<Name(r.name)>>)
  ELSE Tagged(2, <<OctetString(<<[hash |-> r.key]>>)>>)

BasicResponse(p) ==
  Sequence(<<Sequence((IF p.versioned THEN <<Tagged(0, <<Integer(1)>>)>> ELSE <<>>)
                      \o <<Responder(p.responder), GeneralizedTime(p.produced),
                           Sequence(Map(p.singles, SingleResponse))>>
                      \o Extensions(1, p.extended)),
             AlgorithmId("1.2.840.113549.1.1.11"),
             Primitive("universal", 3, <<[unused |-> 0], [signature |-> 1]>>)>>)

OcspResponse(p) ==
  Sequence(<<Enumerated(p.status)>>
           \o Map(p.basic, LAMBDA b :
                Tagged(0, <<Sequence(<<ObjectId("1.3.6.1.5.5.7.48.1.1"),
                                       Segmented(Der(BasicResponse(b)), b.cut)>>)>>)))

OcspRequest(p) ==
  Sequence(<<Sequence((IF p.versioned THEN <<Tagged(0, <<Integer(1)>>)>> ELSE <<>>)
                      \o Map(p.requestor, LAMBDA n : Tagged(1, <<Name(n)>>))
                      \o <<Sequence(Map(p.serials, LAMBDA n :
                             Sequence(<<CertId(n)>> \o Extensions(0, p.extended))))>>
                      \o Extensions(2, p.extended))>>)

\* What ocsp_decode should say of them.
CertIdAnswer(serial) ==
  [issuer_name_hash |-> Some(Hex(<<[hash |-> "name"]>>)),
   issuer_key_hash |-> Some(Hex(<<[hash |-> "key"]>>)), cert_serial |-> Some(<<[int |-> serial]>>)]

SingleAnswer(s) ==
  CertIdAnswer(s.serial)
  @@ [cert_status |-> s.status, this_update |-> Some(s.this), next_update |-> s.next]
  @@ IF s.status = "revoked"
     THEN [revocation_time |-> Some(s.time),
           revocation_reason |-> Map(s.reason, LAMBDA n : CodeName(ReasonNames, n))]
     ELSE [revocation_time |-> None, revocation_reason |-> None]

ResponseAnswer(p) ==
  [kind |-> "OCSPResponse", response_status |-> Some(CodeName(StatusNames, p.status)),
   basic |-> Map(p.basic, LAMBDA b :
     [responder_id |-> Some(IF "name" \in DOMAIN b.responder
                            THEN [byName |-> RenderName(Name(b.responder.name))]
                            ELSE [byKey |-> Hex(<<[hash |-> b.responder.key]>>)]),
      produced_at |-> Some(b.produced),
      sig_alg |-> OidNamed(ObjectId("1.2.840.113549.1.1.11")),
      responses |-> Map(b.singles, SingleAnswer)])]

RequestAnswer(p) == [kind |-> "OCSPRequest", requests |-> Map(p.serials, CertIdAnswer)]

\* A response but for the nextUpdate of the certificates that are good.
ButNextUpdateOfGood(response) ==
  LET single(s) == IF s.cert_status = "good" THEN [s EXCEPT !.next_update = None] ELSE s
      basic(b) == [b EXCEPT !.responses = Map(@, single)]
  IN [response EXCEPT !.basic = Map(@, basic)]

=============================================================================
