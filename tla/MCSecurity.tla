----------------------------- MODULE MCSecurity ------------------------------
(***************************************************************************)
(* Security on messages of every kind: each optional part there and not,   *)
(* names that differ in the order of a set, serial numbers shared between  *)
(* issuers, strings in one piece and in segments, lists of none, one and   *)
(* two; and on octets that are no message, or one of another protocol.     *)
(***************************************************************************)
EXTENDS Security

MCRegistry ==
  "1.2.840.113549.1.1.11" :> "sha256WithRSAEncryption" @@ "1.2.840.113549.1.7.1" :> "id-data"
  @@ "2.16.840.1.101.3.4.2.1" :> "sha256" @@ "1.2.840.113549.1.1.1" :> "rsaEncryption"
  @@ "1.2.840.113549.1.7.2" :> "signedData" @@ "1.3.6.1.2.1.1.1.0" :> "sysDescr.0"
  @@ "1.2.840.113549.1.9.15" :> "smimeCapabilities" @@ "1.2.840.113549.1.5.12" :> "id-PBKDF2"

Option(S) == { None } \cup { Some(x) : x \in S }

\* Names of two RDNs, one of them with two attributes in either order.
Acme == << <<<<"2.5.4.6", "US">>>>, <<<<"2.5.4.10", "Acme">>, <<"2.5.4.3", "CA">>>> >>
AcmeTurned == << <<<<"2.5.4.6", "US">>>>, <<<<"2.5.4.3", "CA">>, <<"2.5.4.10", "Acme">>>> >>
Other == << <<<<"2.5.4.3", "CA">>>> >>

Single(serial, status, reason, next) ==
  [serial |-> serial, status |-> status, time |-> "t0", reason |-> reason, this |-> "t1",
   next |-> next, extended |-> reason # None]

Singles ==
  { Single(7, status, reason, next) :
      status \in {"good", "unknown", "revoked"}, reason \in Option({1, 7}), next \in Option({"t2"}) }

MCOcspResponses ==
  { [status |-> n, basic |-> None] : n \in {0, 4, 6} }
  \cup { [status |-> 0,
          basic |-> Some([versioned |-> v, extended |-> e, responder |-> r, produced |-> "t3",
                          singles |-> ss, cut |-> v])] :
           v \in BOOLEAN, e \in BOOLEAN, r \in {[name |-> AcmeTurned], [key |-> 1]},
           ss \in { <<s>> : s \in Singles }
                  \cup { <<>>, <<Single(1, "revoked", None, Some("t2")), Single(2, "good", None, None)>> } }

MCOcspRequests ==
  [versioned : BOOLEAN, requestor : Option({Acme}), serials : { <<>>, <<1>>, <<1, 2>> },
   extended : BOOLEAN]

Cert(issuer, serial) ==
  [issuer |-> issuer, serial |-> serial, subject |-> Other, versioned |-> serial # 2,
   attribute |-> FALSE]
AttributeCert == [Cert(Acme, 1) EXCEPT !.attribute = TRUE]

CertLists ==
  { <<>>, <<Cert(Acme, 1)>>, <<Cert(Other, 1), Cert(Acme, 1)>>, <<Cert(Acme, 2), Cert(Acme, 1)>>,
    <<AttributeCert, Cert(Acme, 2)>>, <<Cert(AcmeTurned, 1), Cert(Acme, 1)>> }

Attrs == { [type |-> "1.2.840.113549.1.7.1", time |-> None, cut |-> FALSE, other |-> None],
           [type |-> "1.2.3", time |-> Some("t4"), cut |-> TRUE, other |-> Some(NullValue)] }

Signer(sid, attrs) == [sid |-> sid, attrs |-> attrs, unsigned |-> Map(attrs, LAMBDA a : NullValue)]

Signers ==
  { Signer(sid, attrs) :
      sid \in { [issuer |-> n, serial |-> s] : n \in {Acme, AcmeTurned}, s \in 1 .. 3 },
      attrs \in Option(Attrs) }
  \cup { Signer([skid |-> 1], attrs) : attrs \in Option(Attrs) }

SignedParts(bare, signers, certs, content) ==
  [bare |-> bare, type |-> IF certs = None THEN "1.2.3.4" ELSE "1.2.840.113549.1.7.1",
   content |-> content, cut |-> certs # None, certs |-> certs,
   crls |-> Map(content, LAMBDA c : Sequence(<<NullValue>>)), signers |-> signers]

MCSignedDatas ==
  { SignedParts(bare, <<s>>, certs, content) :
      bare \in BOOLEAN, s \in Signers, certs \in Option(CertLists), content \in Option({ <<[text |-> "a"], [text |-> "b"]>> }) }
  \cup { SignedParts(bare, ss, certs, None) :
           bare \in BOOLEAN,
           ss \in { <<>>, <<Signer([issuer |-> Acme, serial |-> 2], None), Signer([skid |-> 1], Some([
                     type |-> "1.2.840.113549.1.7.1", time |-> None, cut |-> FALSE, other |-> None]))>> },
           certs \in Option(CertLists) }

Bind(oid, type, value) == [oid |-> oid, type |-> type, value |-> value]
Binds ==
  { <<>>,
    <<Bind("1.3.6.1.2.1.1.1.0", "OCTET STRING", OctetString(<<[text |-> "Router"]>>)),
      Bind("1.3.6.1.2.1.1.3.0", "TimeTicks", Primitive("application", 3, <<[int |-> 9]>>))>>,
    <<Bind("1.3.1", "Null", NullValue), Bind("1.3.2", "OID", ObjectId("1.3.6.1.2.1.1.1.0")),
      Bind("1.3.3", "noSuchInstance", Primitive("context", 1, <<>>)),
      Bind("1.3.4", "Counter64", Primitive("application", 6, <<[big |-> "2^63"]>>)),
      Bind("1.3.5", "Integer32", Integer(-1))>> }

MCSnmpMessages ==
  { [tag |-> t, version |-> 1, id |-> id, status |-> e, index |-> 1, binds |-> b] :
      t \in (0 .. 8) \ {4}, id \in {-8, -1, 0, 7}, e \in {0, 5, 13}, b \in Binds }
  \cup { [tag |-> 4, version |-> 0, generic |-> g, specific |-> 3, binds |-> b] :
           g \in {0, 6}, b \in Binds }

Values ==
  { <<>>, <<"x">>, <<"*">>, <<"\\", "2", "a">>, <<"\\">>, <<")", "(">>, <<"NUL">>,
    <<"octet E9">>, <<"e acute">>, <<"e acute", "octet E9">>, <<"A tilde", "copyright", "e acute">> }
SubstringParts == { <<"x">>, <<"*">>, <<"\\", "2", "a">>, <<"octet E9">> }

Simple ==
  { [kind |-> k, attr |-> a, value |-> v] :
      k \in {"=", ">=", "<=", "~="}, a \in { <<"a">>, <<"a", "b">> }, v \in Values }
  \cup { [kind |-> "present", attr |-> a] : a \in { <<"a">>, <<"a", "b">> } }
  \cup ({ [kind |-> "substrings", attr |-> <<"a">>, initial |-> i, any |-> m, final |-> f] :
            i \in Option(SubstringParts),
            m \in { <<>>, <<<<"x">>>>, <<<<"*">>, <<"x">>>>, <<<<"octet E9">>>>, <<<<"x">>, <<"octet E9">>>> },
            f \in Option(SubstringParts) }
        \ { [kind |-> "substrings", attr |-> <<"a">>, initial |-> None, any |-> <<>>, final |-> None] })
  \cup { [kind |-> "extensible", rule |-> r, attr |-> <<"a">>, value |-> v] :
           r \in Option({ <<"r">> }), v \in { <<"x">>, <<"octet E9">> } }

Members ==
  { [kind |-> "=", attr |-> <<"a">>, value |-> <<"octet E9">>], [kind |-> "present", attr |-> <<"a">>],
    [kind |-> "extensible", rule |-> None, attr |-> <<"a">>, value |-> <<"x">>] }
Groups(members) ==
  { [kind |-> k, of |-> s] : k \in {"and", "or"}, s \in BoundedSeq(members, 2) }
  \cup { [kind |-> "not", of |-> <<f>>] : f \in members }

Inner == { f \in Members : f.kind # "present" }

MCFilters == Simple \cup Groups(Members) \cup Groups(Groups(Inner) \cup Inner)

MsgOf(tag, id) ==
  [tag |-> tag, id |-> id, controls |-> id = 2, dn |-> <<"d">>, attributes |-> <<<<"a">>, <<"b">>>>,
   scope |-> id, filter |-> [kind |-> "present", attr |-> <<"a">>], code |-> 10 * id,
   matched |-> <<"m">>, diagnostic |-> <<"e">>]
Msgs ==
  { MsgOf(tag, id) : tag \in (0 .. 16) \cup {19} \cup (23 .. 25), id \in 1 .. 2 }
NoMsg == [tag |-> -1]

MCLdapSegments ==
  { [items |-> <<m>>, cut |-> c] : m \in Msgs, c \in BOOLEAN }
  \cup { [items |-> <<MsgOf(0, 1), m, NoMsg, MsgOf(3, 2)>>, cut |-> c] : m \in Msgs, c \in BOOLEAN }
  \cup { [items |-> s, cut |-> FALSE] : s \in { <<>>, <<NoMsg>>, <<NoMsg, MsgOf(5, 1)>> } }
  \cup { [items |-> <<[MsgOf(3, 1) EXCEPT !.filter = f]>>, cut |-> FALSE] : f \in MCFilters }

MCTickets ==
  [realm : {"R"}, name_type : {0, 2, 9}, sname : { <<>>, <<"krbtgt">>, <<"krbtgt", "R">> },
   etype : {18, 2}, kvno : Option({2}), cut : BOOLEAN]

Keys == {"1.2.840.113549.1.1.1", "1.3.101.112"}

MCPlainKeys ==
  [version : {0, 1}, alg : Keys, secret : {"key"}, attributed : BOOLEAN,
   public : Option({"explicit", "implicit"})]

MCEncryptedKeys == [pbes2 : BOOLEAN, alg : Keys, secret : {"key"}]

Bags ==
  [id : {KeyBag, ShroudedKeyBag, CertBag, SecretBag}, alg : {"1.2.840.113549.1.1.1"},
   cut : BOOLEAN, name : Option({"me"}), key_id : Option({1})]

MCPfxs ==
  { [secret |-> "key", cut |-> c, mac |-> c, safes |-> ss] :
      c \in BOOLEAN,
      ss \in { <<[encrypted |-> FALSE, bags |-> <<b>>]>> : b \in Bags }
             \cup { <<[encrypted |-> TRUE], [encrypted |-> FALSE, bags |-> <<b, [b EXCEPT !.id = KeyBag]>>],
                      [encrypted |-> FALSE, bags |-> <<>>]>> : b \in Bags } }

MCForeign ==
  { <<>>, <<[text |-> "junk"]>>, SubSeq(Der(NullValue), 1, 1) }
  \cup { Der(t) : t \in { NullValue, Sequence(<<>>), Sequence(<<Sequence(<<>>)>>),
                          Sequence(<<Integer(1)>>), Sequence(<<Integer(1), Sequence(<<>>)>>),
                          Sequence(<<ObjectId(IdSignedData), Tagged(0, <<>>)>>),
                          Sequence(<<ObjectId(IdSignedData), Tagged(0, <<NullValue>>)>>),
                          Application(1, <<>>), Application(1, <<Sequence(<<Tagged(3, <<>>)>>)>>),
                          Sequence(<<Integer(1), OctetString(<<>>), Tagged(4, <<>>)>>),
                          Sequence(<<Integer(1), Tagged(0, <<SetOf(<<>>)>>), SetOf(<<Sequence(<<>>)>>)>>) } }

=============================================================================
