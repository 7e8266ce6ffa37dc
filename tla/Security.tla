------------------------------ MODULE Security -------------------------------
(***************************************************************************)
(* The entry points of asn1-core/src/security/ on messages of all their    *)
(* protocols.  Every entry point may be called on every blob: a decoder    *)
(* must answer, and answer null, nothing or an error, for what it does not *)
(* know.  A message carries the parts it was built from, which no decoder  *)
(* sees; the properties compare them with the answers.                     *)
(***************************************************************************)
EXTENDS Ocsp, Cms, Snmp, Ldap, Kerberos, Pkcs

CONSTANTS
  OcspResponses, OcspRequests, SignedDatas, SnmpMessages, LdapSegments, Tickets,
  PlainKeys, EncryptedKeys, Pfxs,  \* the parts of the messages of each kind
  Foreign,                         \* octets that are no such message
  Filters                          \* the parts of LDAP filters

VARIABLES
  message,  \* what is decoded: its kind, its parts and its octets
  answer    \* the last call and what it returned

vars == <<message, answer>>

Message(kind, parts, octets) == [kind |-> kind, parts |-> parts, blob |-> octets]

Init ==
  /\ answer = [call |-> "none"]
  /\ \/ \E p \in OcspResponses : message = Message("ocsp_response", p, Der(OcspResponse(p)))
     \/ \E p \in OcspRequests : message = Message("ocsp_request", p, Der(OcspRequest(p)))
     \/ \E p \in SignedDatas : message = Message("signed_data", p, Der(ContentInfo(p)))
     \/ \E p \in SnmpMessages : message = Message("snmp", p, Der(SnmpMessage(p)))
     \/ \E p \in LdapSegments : message = Message("ldap", p, Segment(p))
     \/ \E p \in Tickets : message = Message("ticket", p, Der(Ticket(p)))
     \/ \E p \in PlainKeys : message = Message("plain_key", p, Der(PrivateKeyInfo(p)))
     \/ \E p \in EncryptedKeys :
          message = Message("encrypted_key", p, Der(EncryptedPrivateKeyInfo(p)))
     \/ \E p \in Pfxs : message = Message("pfx", p, Der(Pfx(p)))
     \/ \E o \in Foreign : message = Message("foreign", None, o)

Answer(call, value) ==
  /\ answer' = [call |-> call, value |-> value]
  /\ UNCHANGED message

Blob == message.blob

CallOcspDecode == Answer("ocsp_decode", OcspDecode(Blob))
CallCmsDecode == Answer("cms_decode", CmsDecode(Blob))
CallCmsCerts == Answer("cms_certs", CmsCerts(Blob))
CallCmsContent == Answer("cms_content", CmsContent(Blob))
CallCmsSigners == Answer("cms_signers", CmsSigners(Blob))
CallSnmpDecode == Answer("snmp_decode", SnmpDecode(Blob))
CallSnmpVarbinds == Answer("snmp_varbinds", SnmpVarbinds(Blob))
CallLdapDecode == Answer("ldap_decode", LdapDecode(Blob))
CallLdapMessages == Answer("ldap_messages", LdapMessages(Blob))
CallKrbDecode == Answer("krb_decode", KrbDecode(Blob))
CallKrbTicket == Answer("krb_ticket", KrbTicket(Blob))
CallPkcs8Info == Answer("pkcs8_info", Pkcs8Info(Blob))
CallPkcs12Bags == Answer("pkcs12_bags", Pkcs12Bags(Blob))

Next ==
  \/ CallOcspDecode \/ CallCmsDecode \/ CallCmsCerts \/ CallCmsContent \/ CallCmsSigners
  \/ CallSnmpDecode \/ CallSnmpVarbinds \/ CallLdapDecode \/ CallLdapMessages
  \/ CallKrbDecode \/ CallKrbTicket \/ CallPkcs8Info \/ CallPkcs12Bags

Spec == Init /\ [][Next]_vars

-----------------------------------------------------------------------------

Answers(call, kind) == answer.call = call /\ message.kind = kind

(***************************************************************************)
(* An OCSP response or request is given back part by part, whatever        *)
(* optional parts stand between, however the responder is named and        *)
(* however the inner response is segmented.  The nextUpdate of a           *)
(* certificate that is good is left to NextUpdateIsKept.                   *)
(***************************************************************************)
OcspPartsAreKept ==
  /\ Answers("ocsp_decode", "ocsp_response") =>
       ButNextUpdateOfGood(answer.value) = ButNextUpdateOfGood(ResponseAnswer(message.parts))
  /\ Answers("ocsp_decode", "ocsp_request") => answer.value = RequestAnswer(message.parts)

(***************************************************************************)
(* The nextUpdate of a single response is shown when there is one, as the  *)
(* description of ocsp_decode says ("this/next update").                   *)
(***************************************************************************)
NextUpdateIsKept ==
  Answers("ocsp_decode", "ocsp_response") => answer.value = ResponseAnswer(message.parts)

(***************************************************************************)
(* Every SignerInfo gives one row, in order, with its own parts in their   *)
(* columns: absent signed attributes or certificates shift nothing, and    *)
(* the set of digest algorithms is never taken for the signers.            *)
(***************************************************************************)
SignersKeepTheirParts ==
  Answers("cms_signers", "signed_data") =>
    /\ Len(answer.value) = Len(message.parts.signers)
    /\ \A i \in DOMAIN answer.value :
         LET expected == SignerAnswer(message.parts.signers[i], message.parts)
         IN \A column \in DOMAIN expected : answer.value[i][column] = expected[column]

(***************************************************************************)
(* signer_cert_sha256 is the hash of the element of cms_certs that is the  *)
(* signer's certificate: the one with its issuer, whatever the order of    *)
(* the sets in either name, and its serial number; and it is null when     *)
(* none is.  Attribute certificates are never listed.                      *)
(***************************************************************************)
SignersAreJoined ==
  Answers("cms_signers", "signed_data") =>
    \A i \in DOMAIN answer.value :
      answer.value[i].signer_cert_sha256 =
        Map(CertificateOf(message.parts.signers[i], message.parts),
            LAMBDA n : Sha256(CmsCerts(Blob)[n]))

(***************************************************************************)
(* cms_content gives back the octets that were signed, in one piece or in  *)
(* segments, from a ContentInfo and from a bare SignedData.                *)
(***************************************************************************)
ContentIsWhole ==
  Answers("cms_content", "signed_data") => answer.value = message.parts.content

(***************************************************************************)
(* The fields of an SNMP PDU and its binds come out of the decoder in      *)
(* their order and type, and the table repeats the id in every row, for    *)
(* every id an Integer32 holds.                                            *)
(***************************************************************************)
PdusAreKept ==
  /\ Answers("snmp_decode", "snmp") => answer.value = SnmpAnswer(message.parts)
  /\ Answers("snmp_varbinds", "snmp") =>
       LET pdu == SnmpAnswer(message.parts)
       IN answer.value = Map(pdu.varbinds, LAMBDA vb :
            vb @@ [request_id |-> pdu.request_id, pdu_type |-> pdu.pdu_type])

(***************************************************************************)
(* A segment of LDAP messages gives a row for each of them, in order and   *)
(* with its parts; what is not a message gives none, a segment that was    *)
(* cut gives no rows at all, and ldap_decode shows the first row.  The     *)
(* name of a DelRequest is left to DeletedNameIsShown; those of a          *)
(* ModifyRequest and a CompareRequest are not shown and not asked for.     *)
(***************************************************************************)
SegmentsAreSplit ==
  LET expected == Map(RowsAnswer(message.parts), ButLostName)
  IN /\ Answers("ldap_messages", "ldap") => Map(answer.value, ButLostName) = expected
     /\ Answers("ldap_decode", "ldap") /\ expected # <<>> =>
          ButLostName(answer.value) = expected[1]

(***************************************************************************)
(* The row of a DelRequest shows the name of the entry to delete, as       *)
(* shred_op counts its tag with those whose dn is shown and the column     *)
(* promises "the base/object DN".                                          *)
(***************************************************************************)
DeletedNameIsShown ==
  Answers("ldap_messages", "ldap") =>
    \A i \in DOMAIN answer.value :
      answer.value[i].op = "DelRequest" => answer.value[i].dn = RowsAnswer(message.parts)[i].dn

\* The text of every filter, evaluated once.
FilterTexts == [f \in Filters |-> RenderFilter(Filter(f))]

(***************************************************************************)
(* Filters have the same text only when they show the same: the filter in  *)
(* a row is that of a message of the segment, and a value that holds       *)
(* characters of the syntax, or those of an escape, is never read as       *)
(* another filter.  What a text does not show, and Legible leaves out, is  *)
(* the inside of an extensibleMatch, which is (?) always, and octets that  *)
(* are not UTF-8, which are read as Latin-1 or dropped.                    *)
(***************************************************************************)
FilterTextsAreDistinct ==
  Answers("ldap_messages", "ldap") =>
    \A i \in DOMAIN answer.value :
      LET shown == answer.value[i].filter
          same == { f \in Filters : shown = Some(FilterTexts[f]) }
          sent == { p.filter : p \in { q \in ToSet(message.parts.items) : q.tag = 3 } }
      IN { Legible(f) : f \in same } \subseteq { Legible(f) : f \in sent }

(***************************************************************************)
(* A Ticket is given back field by field, its components in order, with    *)
(* and without a key version, the cipher whole in either form.             *)
(***************************************************************************)
TicketsAreKept ==
  Answers("krb_ticket", "ticket") => answer.value = Some(TicketAnswer(message.parts))

(***************************************************************************)
(* A key, plain or encrypted, and every bag of every safe of a PFX, in     *)
(* order and with the attributes that are its own, are listed; a safe      *)
(* that is encrypted as a whole leaves its one row.  A public key in an    *)
(* IMPLICIT tag is excluded: PublicKeyOf leaves it its count of unused     *)
(* bits.                                                                   *)
(***************************************************************************)
KeysAreListed ==
  /\ Answers("pkcs8_info", "plain_key") /\ message.parts.public # <<"implicit">> =>
       answer.value = Some(PlainAnswer(message.parts))
  /\ Answers("pkcs8_info", "encrypted_key") => answer.value = Some(EncryptedAnswer(message.parts))
  /\ Answers("pkcs12_bags", "pfx") => answer.value = BagsAnswer(message.parts)

(***************************************************************************)
(* Key material stays hidden: a key or a PFX with other secrets in the     *)
(* same places gets the same answer from pkcs12_bags, and a key from       *)
(* pkcs8_info; not even a hash of them shows.  (pkcs8_info takes a PFX for *)
(* a key and shows its content as the parameters of an algorithm.)         *)
(***************************************************************************)
KeyMaterialStaysHidden ==
  LET other == [message.parts EXCEPT !.secret = "other"]
      octets == CASE message.kind = "plain_key" -> Der(PrivateKeyInfo(other))
                  [] message.kind = "encrypted_key" -> Der(EncryptedPrivateKeyInfo(other))
                  [] message.kind = "pfx" -> Der(Pfx(other))
  IN message.kind \in {"plain_key", "encrypted_key", "pfx"} =>
       /\ answer.call = "pkcs8_info" /\ message.kind # "pfx" => answer.value = Pkcs8Info(octets)
       /\ answer.call = "pkcs12_bags" => answer.value = Pkcs12Bags(octets)

=============================================================================
