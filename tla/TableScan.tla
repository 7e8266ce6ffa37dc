------------------------------ MODULE TableScan ------------------------------
(***************************************************************************)
(* The table functions of asn1-worker/src/table/: the producer, which      *)
(* decodes its constant argument and fills the columns of a batch, and     *)
(* next_batch, which hands the batch out.  Five tables build the batch     *)
(* before they are asked and keep it in a SingleBatch; pem_decode keeps    *)
(* the blocks and builds it when it is asked first.  The engine asks until *)
(* there is no batch; it may stop before, and it may ask again after.      *)
(***************************************************************************)
EXTENDS Integers, Sequences

CONSTANTS
  Scans,          \* the scans that may be made: a table and its argument
  NoContent,      \* the empty content
  Decoded(_, _),  \* the rows a table's decoder finds in a content
  IntHalf,        \* half the numbers of an Int32 column: 2^31 in the code
  MaxAsks         \* how often the engine asks: a bound for the model

Tables ==
  {"snmp_varbinds", "ldap_messages", "cms_signers", "pkcs12_bags", "oid_registry", "pem_decode"}

\* What is cast from i64 to the i32 of its column.
IntColumns(table) ==
  CASE table = "snmp_varbinds" -> {"request_id"}
    [] table = "ldap_messages" -> {"message_id"}
    [] table = "cms_signers" -> {"version"}
    [] OTHER -> {}

Columns(table) ==
  CASE table = "snmp_varbinds" ->
         {"request_id", "pdu_type", "oid", "oid_name", "type", "value"}
    [] table = "ldap_messages" ->
         {"message_id", "op", "dn", "scope", "filter", "attributes", "result_code",
          "matched_dn", "diagnostic"}
    [] table = "cms_signers" ->
         {"version", "signer_sid", "signer_issuer", "signer_serial", "signer_skid",
          "digest_alg", "sig_alg", "signing_time", "content_type", "message_digest",
          "signature", "signer_cert_sha256", "signed_attrs"}
    [] table = "pkcs12_bags" ->
         {"bag_type", "friendly_name", "local_key_id", "alg", "cert_sha256", "encrypted"}
    [] table = "oid_registry" -> {"oid", "name"}
    [] table = "pem_decode" -> {"idx", "label", "der"}

ASSUME TableAssumption ==
  /\ IntHalf \in Nat \ {0} /\ MaxAsks \in Nat
  /\ \A s \in Scans :
       /\ s.table \in Tables
       /\ s.argument.kind \in {"bytes", "text", "absent"}
       /\ \A content \in {NoContent, s.argument.content} :
            /\ Len(Decoded(s.table, content)) \in Nat
            /\ \A i \in 1 .. Len(Decoded(s.table, content)) :
                 LET decoded == Decoded(s.table, content)[i]
                 IN /\ DOMAIN decoded = Columns(s.table)
                    /\ \A c \in IntColumns(s.table) :
                         decoded[c] # <<>> => decoded[c] = <<decoded[c][1]>>

VARIABLES
  scan,       \* the table and its argument
  tpc,        \* "idle", "fill", "ready", "ended" or "left"
  columns,    \* the builders of the columns
  next,       \* the row they are at
  batch,      \* the batch of a SingleBatch, an option
  done,       \* whether a PemProducer has been asked
  delivered,  \* the batches handed out
  asks        \* how often the engine has asked

tableVars == <<scan, tpc, columns, next, batch, done, delivered, asks>>

\* const_blob takes bytes and text, pem_decode text alone; nothing is empty.
ConstContent(s) ==
  IF \/ s.argument.kind = "absent"
     \/ s.table = "pem_decode" /\ s.argument.kind = "bytes"
  THEN NoContent
  ELSE s.argument.content

IsPem == scan.table = "pem_decode"
Rows == Decoded(scan.table, ConstContent(scan))
NoRows(table) == [c \in Columns(table) |-> <<>>]

TableInit ==
  /\ scan \in Scans
  /\ tpc = IF IsPem THEN "ready" ELSE "fill"
  /\ columns = NoRows(scan.table) /\ next = 1
  /\ batch = <<>> /\ done = FALSE
  /\ delivered = <<>> /\ asks = 0

-----------------------------------------------------------------------------

Narrowed(n) == ((n + IntHalf) % (2 * IntHalf)) - IntHalf

\* An optional integer is an option, and so is its column.
Cell(c, v) == IF c \in IntColumns(scan.table) /\ v # <<>> THEN <<Narrowed(v[1])>> ELSE v

FillRow ==
  /\ tpc = "fill" /\ next <= Len(Rows)
  /\ columns' = [c \in Columns(scan.table) |-> Append(columns[c], Cell(c, Rows[next][c]))]
  /\ next' = next + 1
  /\ UNCHANGED <<scan, tpc, batch, done, delivered, asks>>

\* The batch is kept, or handed out at once by a PemProducer.
EndFill ==
  /\ tpc = "fill" /\ next > Len(Rows)
  /\ tpc' = "ready"
  /\ IF IsPem
     THEN delivered' = Append(delivered, columns) /\ UNCHANGED batch
     ELSE batch' = <<columns>> /\ UNCHANGED delivered
  /\ UNCHANGED <<scan, columns, next, done, asks>>

Asked == tpc \in {"ready", "ended"} /\ asks < MaxAsks /\ asks' = asks + 1

\* Mutant of Take: the batch is kept.
TakeClone ==
  /\ Asked /\ ~IsPem /\ batch # <<>>
  /\ delivered' = Append(delivered, batch[1])
  /\ UNCHANGED <<scan, tpc, columns, next, batch, done>>

\* SingleBatch hands its batch out.
Take ==
  /\ Asked /\ ~IsPem /\ batch # <<>>
  /\ delivered' = Append(delivered, batch[1])
  /\ batch' = <<>>
  /\ UNCHANGED <<scan, tpc, columns, next, done>>

\* Mutant of AskPem: the producer forgets that it was asked.
AskPemForgetting ==
  /\ Asked /\ IsPem /\ ~done
  /\ tpc' = "fill"
  /\ columns' = NoRows(scan.table) /\ next' = 1
  /\ UNCHANGED <<scan, batch, done, delivered>>

\* PemProducer fills its builders when it is asked first.
AskPem ==
  /\ Asked /\ IsPem /\ ~done
  /\ done' = TRUE
  /\ tpc' = "fill"
  /\ columns' = NoRows(scan.table) /\ next' = 1
  /\ UNCHANGED <<scan, batch, delivered>>

\* There is no batch: this is how the engine learns of the end.
AskAtEnd ==
  /\ Asked
  /\ IF IsPem THEN done ELSE batch = <<>>
  /\ tpc' = "ended"
  /\ UNCHANGED <<scan, columns, next, batch, done, delivered>>

\* The engine needs no more rows and drops the producer.
Leave ==
  /\ tpc = "ready"
  /\ tpc' = "left"
  /\ UNCHANGED <<scan, columns, next, batch, done, delivered, asks>>

\* What the worker does, and the engine as long as it wants rows.
TableStep == FillRow \/ EndFill \/ Take \/ AskPem \/ AskAtEnd

TableNext == TableStep \/ Leave

TableSpec == TableInit /\ [][TableNext]_tableVars

-----------------------------------------------------------------------------
\* The cell of a column against what the decoder found.

Fits(n) == n \in -IntHalf .. IntHalf - 1

Kept(c, cell, v) ==
  IF c \in IntColumns(scan.table) /\ v # <<>> THEN Fits(v[1]) => cell = v ELSE cell = v

(***************************************************************************)
(* The engine is given one batch, however often it asks, and has had it    *)
(* when it is told of the end; it holds every row the decoder found, in    *)
(* order and with its own cells in all columns, the empty batch too, and   *)
(* an integer that fits its column is shown as it is.                      *)
(***************************************************************************)
RowsDeliveredOnce ==
  /\ Len(delivered) <= 1
  /\ tpc = "ended" => Len(delivered) = 1
  /\ \A k \in DOMAIN delivered, c \in Columns(scan.table) :
       /\ Len(delivered[k][c]) = Len(Rows)
       /\ \A i \in 1 .. Len(Rows) : Kept(c, delivered[k][c][i], Rows[i][c])

=============================================================================
