------------------------------ MODULE Kerberos -------------------------------
(***************************************************************************)
(* asn1-core/src/security/kerberos.rs, and the Ticket of RFC 4120 built    *)
(* from its parts.                                                         *)
(***************************************************************************)
EXTENDS SecurityTrees

MessageNames ==
  1 :> "Ticket" @@ 2 :> "Authenticator" @@ 3 :> "EncTicketPart" @@ 10 :> "AS-REQ" @@
  11 :> "AS-REP" @@ 12 :> "TGS-REQ" @@ 13 :> "TGS-REP" @@ 14 :> "AP-REQ" @@
  15 :> "AP-REP" @@ 30 :> "KRB-ERROR"
EtypeNames ==
  1 :> "des-cbc-crc" @@ 3 :> "des-cbc-md5" @@ 16 :> "des3-cbc-sha1-kd" @@
  17 :> "aes128-cts-hmac-sha1-96" @@ 18 :> "aes256-cts-hmac-sha1-96" @@
  19 :> "aes128-cts-hmac-sha256-128" @@ 20 :> "aes256-cts-hmac-sha384-192" @@ 23 :> "rc4-hmac"
NameTypes ==
  0 :> "NT-UNKNOWN" @@ 1 :> "NT-PRINCIPAL" @@ 2 :> "NT-SRV-INST" @@ 3 :> "NT-SRV-HST" @@
  4 :> "NT-SRV-XHST"

KrbDecode(blob) ==
  LET root == Parse(blob)
  IN CASE root = None -> [error |-> "not well-formed"]
       [] root # None /\ root[1].class # "application" ->
            [error |-> "not a Kerberos APPLICATION-tagged message"]
       [] OTHER ->
            [msg_type |-> IF root[1].tag \in DOMAIN MessageNames THEN MessageNames[root[1].tag]
                          ELSE "unknown",
             app_tag |-> root[1].tag, body |-> Explicit(root[1])]

\* The value in the EXPLICIT field [tag] of a SEQUENCE, read by Read.
FieldOf(children, tag, Read(_)) == AndThen(Ctx(children, tag), LAMBDA n : Read(Explicit(n)))

\* Mutant of Principal: the wrapper is taken for the list of components.
PrincipalWrapped(children) ==
  [sname |-> Map(Ctx(children, 1), LAMBDA n : FilterMap(Kids(n), AsStr)),
   name_type |-> Map(FieldOf(children, 0, AsI64), LAMBDA n : CodeName(NameTypes, n))]

\* The components of a PrincipalName, in order, and its name-type.
Principal(children) ==
  [sname |-> Map(Ctx(children, 1), LAMBDA n : FilterMap(Kids(Explicit(n)), AsStr)),
   name_type |-> Map(FieldOf(children, 0, AsI64), LAMBDA n : CodeName(NameTypes, n))]

\* The EncryptedData stays what it is; its etype is named.
EncPart(children) ==
  [enc_part_etype |-> Map(FieldOf(children, 0, AsI64), LAMBDA n : CodeName(EtypeNames, n)),
   enc_part_kvno |-> FieldOf(children, 1, AsI64),
   enc_part_cipher |-> FieldOf(children, 2, LAMBDA t : Some(GatherOctets(t)))]

\* An absent field is an empty SEQUENCE to Principal and EncPart: all is null.
KrbTicket(blob) ==
  LET ticket(root) ==
        IF root.class # "application" \/ root.tag # 1 THEN None
        ELSE LET c == Kids(Explicit(root))
                 within(tag) == FlattenSeq(Map(Ctx(c, tag), LAMBDA n : Kids(Explicit(n))))
             IN Some([tkt_vno |-> FieldOf(c, 0, AsI64), realm |-> FieldOf(c, 1, AsStr)]
                     @@ Principal(within(2)) @@ EncPart(within(3)))
  IN AndThen(Parse(blob), ticket)

-----------------------------------------------------------------------------
\* RFC 4120.

KerberosString(s) == Text(27, <<[text |-> s]>>)

Ticket(p) ==
  Application(1, <<Sequence(<<
    Tagged(0, <<Integer(5)>>), Tagged(1, <<KerberosString(p.realm)>>),
    Tagged(2, <<Sequence(<<Tagged(0, <<Integer(p.name_type)>>),
                           Tagged(1, <<Sequence(Map(p.sname, KerberosString))>>)>>)>>),
    Tagged(3, <<Sequence(<<Tagged(0, <<Integer(p.etype)>>)>>
                         \o Map(p.kvno, LAMBDA n : Tagged(1, <<Integer(n)>>))
                         \o <<Tagged(2, <<Segmented(<<[cipher |-> 1], [cipher |-> 2]>>, p.cut)>>)>>)>>)
    >>)>>)

TicketAnswer(p) ==
  [tkt_vno |-> Some(5), realm |-> Some(<<[text |-> p.realm]>>),
   sname |-> Some(Map(p.sname, LAMBDA s : <<[text |-> s]>>)),
   name_type |-> Some(CodeName(NameTypes, p.name_type)),
   enc_part_etype |-> Some(CodeName(EtypeNames, p.etype)), enc_part_kvno |-> p.kvno,
   enc_part_cipher |-> Some(<<[cipher |-> 1], [cipher |-> 2]>>)]

=============================================================================
