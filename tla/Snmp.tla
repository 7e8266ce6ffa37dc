-------------------------------- MODULE Snmp ---------------------------------
(***************************************************************************)
(* asn1-core/src/security/snmp.rs, the rows the table snmp_varbinds makes  *)
(* of it, and the messages of RFC 1157 and RFC 3416 built from their parts.*)
(***************************************************************************)
EXTENDS SecurityTrees

CONSTANT RequestIdBits  \* the width of the column request_id: 32 in the code

PduNames ==
  0 :> "GetRequest" @@ 1 :> "GetNextRequest" @@ 2 :> "GetResponse" @@ 3 :> "SetRequest" @@
  4 :> "Trap" @@ 5 :> "GetBulkRequest" @@ 6 :> "InformRequest" @@ 7 :> "SNMPv2-Trap" @@
  8 :> "Report"
PduTypeName(tag) == IF tag \in DOMAIN PduNames THEN PduNames[tag] ELSE "unknown"

VersionNames == 0 :> "v1" @@ 1 :> "v2c" @@ 3 :> "v3"

ErrorNames ==
  0 :> "noError" @@ 1 :> "tooBig" @@ 2 :> "noSuchName" @@ 3 :> "badValue" @@
  4 :> "readOnly" @@ 5 :> "genErr"

ApplicationTypes ==
  0 :> "IpAddress" @@ 1 :> "Counter32" @@ 2 :> "Gauge32" @@ 3 :> "TimeTicks" @@
  6 :> "Counter64"
ExceptionTypes == 0 :> "noSuchObject" @@ 1 :> "noSuchInstance" @@ 2 :> "endOfMibView"
UniversalTypes == 2 :> "Integer32" @@ 5 :> "Null" @@ 6 :> "OID"

VarbindType(value) ==
  LET named(names, other) == IF value.tag \in DOMAIN names THEN names[value.tag] ELSE other
  IN CASE value.class = "universal" -> named(UniversalTypes, "OCTET STRING")
       [] value.class = "application" -> named(ApplicationTypes, "Opaque")
       [] value.class = "context" -> named(ExceptionTypes, "context")
       [] OTHER -> "private"

\* Binds without a value or an OID are left out.
ShredVarbinds(list) ==
  LET varbind(vb) ==
        IF Len(Kids(vb)) < 2 THEN None
        ELSE Map(AsOid(vb.kids[1]),
                 LAMBDA d : [oid |-> d, oid_name |-> NameFor(d),
                             type |-> VarbindType(vb.kids[2]), value |-> vb.kids[2]])
  IN FilterMap(Kids(list), varbind)

\* Octets as numbers with dots; an address is a piece of its own.
Dotted(octets) == [dotted |-> octets]

NoPdu ==
  [request_id |-> None, error_status |-> None, error_index |-> None, enterprise |-> None,
   agent_addr |-> None, trap_type |-> None, specific_trap |-> None, varbinds |-> <<>>]

\* Mutant of TrapBody: the fields after the address are shifted by one.
TrapBodyShifted(body) ==
  IF Len(body) < 6 THEN NoPdu
  ELSE [NoPdu EXCEPT !.enterprise = AsOid(body[1]),
                     !.agent_addr = Map(OctetsOf(body[2]), Dotted),
                     !.trap_type = Map(AsI64(body[4]), ToString),
                     !.specific_trap = AsI64(body[5]),
                     !.varbinds = ShredVarbinds(body[6])]

TrapBody(body) ==
  IF Len(body) < 6 THEN NoPdu
  ELSE [NoPdu EXCEPT !.enterprise = AsOid(body[1]),
                     !.agent_addr = Map(OctetsOf(body[2]), Dotted),
                     !.trap_type = Map(AsI64(body[3]), ToString),
                     !.specific_trap = AsI64(body[4]),
                     !.varbinds = ShredVarbinds(body[6])]

PduBody(body) ==
  IF Len(body) < 4 THEN NoPdu
  ELSE [NoPdu EXCEPT !.request_id = AsI64(body[1]),
                     !.error_status = Map(AsI64(body[2]), LAMBDA n : CodeName(ErrorNames, n)),
                     !.error_index = AsI64(body[3]),
                     !.varbinds = ShredVarbinds(body[4])]

DecodeMessage(blob) ==
  LET top == FlattenSeq(Map(Parse(blob), Kids))
      pdu == top[3]
  IN IF \/ Len(top) < 3
        \/ AsI64(top[1]) = None
        \/ pdu.class # "context"
     THEN None
     ELSE Some([version |-> CodeName(VersionNames, AsI64(top[1])[1]),
                community |-> AsStr(top[2]), pdu_type |-> PduTypeName(pdu.tag)]
               @@ IF pdu.tag = 4 THEN TrapBody(Kids(pdu)) ELSE PduBody(Kids(pdu)))

SnmpDecode(blob) ==
  OrElse(DecodeMessage(blob), <<[error |-> "not a recognizable SNMP message"]>>)[1]

\* The cast of an i64 to the width of the column.
Narrowed(n) == ((n + 2 ^ (RequestIdBits - 1)) % 2 ^ RequestIdBits) - 2 ^ (RequestIdBits - 1)

\* The table snmp_varbinds: one row for every bind, the PDU's fields in each.
SnmpVarbinds(blob) ==
  LET rows(m) ==
        Map(m.varbinds, LAMBDA vb :
          vb @@ [request_id |-> Map(m.request_id, Narrowed), pdu_type |-> m.pdu_type])
  IN FlattenSeq(Map(DecodeMessage(blob), rows))

-----------------------------------------------------------------------------
\* RFC 1157 and RFC 3416.  A request id is an Integer32.

RequestIds == -(2 ^ (RequestIdBits - 1)) .. 2 ^ (RequestIdBits - 1) - 1

VarbindList(binds) ==
  Sequence(Map(binds, LAMBDA b : Sequence(<<ObjectId(b.oid), b.value>>)))

SnmpMessage(p) ==
  LET pdu == IF p.tag = 4
             THEN <<ObjectId("1.3.6.1.4.1.9"), Primitive("application", 0, <<[address |-> 1]>>),
                    Integer(p.generic), Integer(p.specific),
                    Primitive("application", 3, <<[int |-> 7]>>), VarbindList(p.binds)>>
             ELSE <<Integer(p.id), Integer(p.status), Integer(p.index), VarbindList(p.binds)>>
  IN Sequence(<<Integer(p.version), OctetString(<<[text |-> "public"]>>), Tagged(p.tag, pdu)>>)

\* What snmp_decode should say of it.
SnmpAnswer(p) ==
  [version |-> IF p.version = 0 THEN "v1" ELSE "v2c", community |-> Some(<<[text |-> "public"]>>),
   pdu_type |-> PduNames[p.tag]]
  @@ IF p.tag = 4
     THEN [NoPdu EXCEPT !.enterprise = Some("1.3.6.1.4.1.9"),
                        !.agent_addr = Some([dotted |-> <<[address |-> 1]>>]),
                        !.trap_type = Some(ToString(p.generic)),
                        !.specific_trap = Some(p.specific),
                        !.varbinds = Map(p.binds, LAMBDA b : b @@ [oid_name |-> NameFor(b.oid)])]
     ELSE [NoPdu EXCEPT !.request_id = Some(p.id),
                        !.error_status = Some(CodeName(ErrorNames, p.status)),
                        !.error_index = Some(p.index),
                        !.varbinds = Map(p.binds, LAMBDA b : b @@ [oid_name |-> NameFor(b.oid)])]

=============================================================================
