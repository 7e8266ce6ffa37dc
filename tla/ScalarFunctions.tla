--------------------------- MODULE ScalarFunctions ---------------------------
(***************************************************************************)
(* The scalar functions of asn1-worker/src/scalar/: what each of them does *)
(* with the cells of one row.  What the core library makes of the octets   *)
(* of a cell is a parameter, Core; the modules of the core say more of it. *)
(*                                                                         *)
(* A cell is an option, <<>> when it is NULL; so is the answer for a row.  *)
(***************************************************************************)
EXTENDS Integers, Sequences, FiniteSets

CONSTANTS
  Contents,     \* the contents of cells that are not NULL
  WellFormed,   \* the contents that parse accepts
  Elements,     \* the elements of list answers
  Core(_, _)    \* what a function of the core returns for its arguments

None == <<>>
Some(x) == <<x>>

\* json_output, and decode in both its modes: the core answers for every
\* blob, an error object for one it cannot read.
JsonFunctions ==
  {"to_json", "snmp_decode", "krb_decode", "ldap_decode", "cms_decode", "ocsp_decode"}
JsonRow(fn, b) == Some(Core(fn, b))
DecodeRow(fn, b) == Some(Core(fn, b))

\* dump: a text in place of the dump of a blob that is not well-formed.
ParseErrorText == "<parse error>"
DumpRow(b) == Some(IF b \in WellFormed THEN Core("dump", b) ELSE ParseErrorText)

\* tlv and oids: no elements for a blob that is not well-formed.
TlvRow(b) == Some(IF b \in WellFormed THEN Core("tlv", b) ELSE <<>>)
OidsRow(b) == Some(IF b \in WellFormed THEN Core("oids", b) ELSE <<>>)
CmsCertsRow(b) == Some(Core("cms_certs", b))

\* at_path: the JSON text null for a blob that is not well-formed.
AtPathRow(b, p) == Some(IF b \in WellFormed THEN Core("at_path", <<b, p>>) ELSE "null")

\* oid_name, oid and pem_label: NULL for what the core does not know.
OidNameRow(s) == Core("oid_name", s)
OidRow(s) == Core("oid", s)
PemLabelRow(s) == Core("pem_label", s)

IsValidRow(b) == Some(Core("is_valid", b))

\* to_der and reencode, and cms_content: NULL when there is nothing to give.
ToDerRow(b) == IF b \in WellFormed THEN Some(Core("to_der", b)) ELSE None
ReencodeRow(b) == IF b \in WellFormed THEN Some(Core("to_der", b)) ELSE None
CmsContentRow(b) == Core("cms_content", b)

\* The structs: well_formed always has one, a ticket and a key may not.
EmptyAsNull(text) == IF text = "" THEN None ELSE Some(text)
WellFormedRow(b) ==
  LET wf == Core("well_formed", b)
  IN Some([ok |-> Some(wf.ok), error |-> EmptyAsNull(wf.error), kind |-> EmptyAsNull(wf.kind)])
KrbTicketRow(b) == Core("krb_ticket", b)
Pkcs8InfoRow(b) == Core("pkcs8_info", b)

FieldsOf(fn) ==
  CASE fn = "well_formed" -> {"ok", "error", "kind"}
    [] fn = "krb_ticket" ->
         {"tkt_vno", "realm", "sname", "name_type", "enc_part_etype", "enc_part_kvno",
          "enc_part_cipher"}
    [] fn = "pkcs8_info" ->
         {"version", "algorithm", "params", "public_key", "encrypted", "kdf", "enc_alg"}
    [] OTHER -> {}

\* What stands in a child column of a struct where the struct is NULL.
Filler(field) == IF field \in {"ok", "encrypted"} THEN Some(FALSE) ELSE None

DecodeFunctions == {"decode", "decode_tlv"}
StructFunctions == {"well_formed", "krb_ticket", "pkcs8_info"}
ListFunctions == {"tlv", "oids", "cms_certs"}
TextFunctions == {"oid_name", "oid", "pem_label"}
ColumnFunctions ==
  JsonFunctions \cup DecodeFunctions \cup TextFunctions
  \cup {"dump", "at_path", "is_valid", "to_der", "reencode", "cms_content"}
Functions == StructFunctions \cup ListFunctions \cup ColumnFunctions

RowAnswer(fn, args) ==
  LET b == args[1]
  IN CASE fn \in JsonFunctions -> JsonRow(fn, b)
       [] fn \in DecodeFunctions -> DecodeRow(fn, b)
       [] fn = "dump" -> DumpRow(b)
       [] fn = "tlv" -> TlvRow(b)
       [] fn = "oids" -> OidsRow(b)
       [] fn = "cms_certs" -> CmsCertsRow(b)
       [] fn = "at_path" -> AtPathRow(b, args[2])
       [] fn = "oid_name" -> OidNameRow(b)
       [] fn = "oid" -> OidRow(b)
       [] fn = "pem_label" -> PemLabelRow(b)
       [] fn = "is_valid" -> IsValidRow(b)
       [] fn = "to_der" -> ToDerRow(b)
       [] fn = "reencode" -> ReencodeRow(b)
       [] fn = "cms_content" -> CmsContentRow(b)
       [] fn = "well_formed" -> WellFormedRow(b)
       [] fn = "krb_ticket" -> KrbTicketRow(b)
       [] fn = "pkcs8_info" -> Pkcs8InfoRow(b)

\* The core answers a list function with a sequence of elements, or with
\* nothing, and a struct function with a record of the fields, or with nothing.
ASSUME CoreAssumption ==
  \A b \in Contents :
    /\ \A fn \in ListFunctions : Core(fn, b) \in Seq(Elements)
    /\ \A fn \in {"krb_ticket", "pkcs8_info"} :
         \/ Core(fn, b) = None
         \/ Core(fn, b) = Some([f \in FieldsOf(fn) |-> Core(fn, b)[1][f]])

-----------------------------------------------------------------------------
\* A call: a function and its columns.  A column has a type and cells.

Types == {"binary", "text", "other"}

\* blob_bytes reads binary and text columns, text_str text alone.
TypesRead(fn, k) == IF fn \in TextFunctions \/ k = 2 THEN {"text"} ELSE {"binary", "text"}

Arity(fn) == IF fn = "at_path" THEN 2 ELSE 1

IsCall(c) ==
  /\ c.fn \in Functions
  /\ c.rows \in Nat
  /\ Len(c.columns) = Arity(c.fn)
  /\ \A k \in 1 .. Arity(c.fn) :
       /\ c.columns[k].type \in Types
       /\ c.columns[k].cells \in [1 .. c.rows -> { None } \cup { Some(b) : b \in Contents }]

CellOf(c, k, row) == c.columns[k].cells[row]

\* A cell that is not NULL in a column of a type the function does not read.
Unreadable(c, row) ==
  \E k \in 1 .. Arity(c.fn) :
    CellOf(c, k, row) # None /\ c.columns[k].type \notin TypesRead(c.fn, k)

IsNull(c, row) == \E k \in 1 .. Arity(c.fn) : CellOf(c, k, row) = None

\* A row with a NULL in it is answered with NULL.
AnswerAt(c, row) ==
  IF IsNull(c, row) THEN None
  ELSE RowAnswer(c.fn, [k \in 1 .. Arity(c.fn) |-> CellOf(c, k, row)[1]])

IsList(c) == c.fn \in ListFunctions
IsStruct(c) == c.fn \in StructFunctions

=============================================================================
