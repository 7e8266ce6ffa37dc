# vgi-asn1 in TLA+

vgi-asn1 is a worker for DuckDB that reads ASN.1: it turns BER, CER and DER
blobs into trees, JSON, rows and re-encoded blobs. It has two crates: the
engine `asn1-core`, which is pure, and `asn1-worker`, which fetches cells from
Arrow batches, calls the engine and builds Arrow columns. There is one thread,
nothing is shared and nothing is stored. What is hard here is not interleaving:
it is a recursive reader of arbitrary octets whose offsets, slices and limits
must agree at every depth, writers that must agree with that reader, and loops
over rows and lines in which one bad item must not cost the others.

All paths below are under `src/crates/`.

## 1. Inventory

| Part | State it keeps | Operations | What makes it correct |
|---|---|---|---|
| TLV reader, `asn1-core/src/tlv.rs` | the call stack of `parse_tlv`, in each frame the slice, the offset in it and the children so far | `parse`, `parse_rules`, `parse_all` | elements tile their contents; slices nest; errors are located; exactly the grammar is accepted; it stops; DER means shortest headers |
| Validation, `validate.rs` | none | `is_valid`, `well_formed` | it reports what the reader says under the rules it names |
| Re-encoding, `reencode.rs` | none | `to_der` (SQL `to_der`, `reencode`) | the result is DER, is the same tree, and is a fixed point |
| Flat views, `tlvlist.rs` | the rows so far | `flatten`, `oids`, `at_path` | one row per node, in document order; a row's path leads back to its node |
| OID codec and registry, `oid.rs` | the accumulator and the arcs | `decode_oid`, `decode_relative_oid`, `encode_oid`, `name_for`, `oid_for` | decode after encode is the identity; no two encodings share a name; no overflow |
| Primitive values, `value.rs` | loop locals | integers, booleans, times, strings, bit strings | both integer decoders agree; ISO text and microseconds name one instant; no panic on any octets |
| JSON and dumps, `json.rs`, `lib.rs`, `dump.rs` | none | `decode_json`, `to_json`, `tlv_json`, `dump` | total: an error value, never a panic |
| PEM, `pem.rs` | the line iterator shared by two loops, block index | `pem_decode`, `pem_label` | blocks numbered without gaps, in order, none merged or lost |
| Security decoders, `security/*.rs` | a position in a list of children with optional fields | CMS, PKCS#8/#12, SNMP, LDAP, Kerberos, OCSP | every part of a message is shown under its own name, whatever optional parts stand beside it; signers are joined with their own certificates; keys stay hidden |
| Arrow helpers, `asn1-worker/src/arrow_io.rs` | offsets, validity, child builders | `blob_bytes`, `text_str`, `build_*_list` | row i of the result belongs to row i of the input, nulls included; offsets do not overflow |
| Scalar functions, `asn1-worker/src/scalar/` | the row loop | one `process` per function | the answer in a row is a function of its cells; a bad blob costs its row only |
| Table functions, `asn1-worker/src/table/` | a batch handed out once, or a flag | `producer`, `next_batch` | every row once, then the end |
| Start-up and metadata, `main.rs`, `meta.rs` | none | the loop that serves calls; registration | every call is answered |

The worker calls the engine once per cell. Within the engine every part takes
the tree the reader returns, so what the reader promises (`TlvContract`) is what
all the others rest on; `to_der` feeds the reader again, and CMS hashes and
compares what `to_der` writes.

`PROJECT.json` lists the hazards found in the code, each at its line, with the
properties that would catch it going wrong.

## 2. Modules

| Module | Models |
|---|---|
| `TlvForest` | the tree of `struct Tlv`/`enum Body` as a sequence of nodes, and what whole elements are |
| `TlvParser` | `parse_tlv`, `parse_children`, `parse_rules`, `parse_all` |
| `TlvContract` | what these promise their callers, in one step |
| `TlvGrammar` | the accepted encodings, as a grammar; written apart from the reader to be compared with it |
| `TlvReencode` | `reencode.rs`, as functions of a forest |
| `RoundTrip` | a blob read, re-encoded, and read back under DER |
| `Oid` | `decode_oid`, `decode_relative_oid` and `encode_oid`, between octets and arcs |
| `Values` | integers and bit strings of `value.rs`, and the choice by tag of `json.rs` |
| `TlvViews` | `flatten`, `oids`, `at_path` and the JSON projections, on the trees `TlvParser` returns |
| `CivilTime` | `decode_time` and the calendar algorithms of `value.rs` |
| `Pem` | `pem_decode`, as a machine, and `pem_label` |
| `SecurityTrees` | the trees the decoders of `security/` walk and the helpers of `security/mod.rs` |
| `Ocsp`, `Cms`, `Snmp`, `Ldap`, `Kerberos`, `Pkcs` | one decoder each, and the messages of its RFC built from their parts |
| `Security` | all thirteen entry points on messages of every kind |
| `ScalarFunctions` | what each scalar function does with the cells of one row |
| `RowByRow` | what a call of one promises: a function of each row, in one step |
| `ScalarScan` | the row loop of `process` and the list builders of `arrow_io.rs` |
| `TableScan` | the six producers and the engine that asks them for batches |
| `Worker` | calls and scans, served one at a time |
| `TlvParserProofs`, `RoundTripProofs`, `TlvViewsProofs`, `PemProofs`, `WorkerProofs`, `CivilTimeProofs` | the theorems |
| `ValuesProofs`, `Induction` | what the theorems need of numbers, and induction over the naturals |
| `MCTlv` (the reader and the views), `MCRoundTrip`, `MCCivilTime`, `MCPem`, `MCSecurity`, `MCWorker` | the blobs, texts, messages and batches TLC tries |

`RoundTrip` composes the reader with `TlvReencode`, and `TlvViews` composes it
with the views, `Values` and `Oid`; `CivilTime` and `Pem` stand alone.
`Security` composes the six decoders, `Worker` the scalar functions and the
tables. The worker takes what the core answers as a parameter (`Core`,
`Decoded`): what holds of its loops holds whatever the core answers.

### The reader as a machine

`data`, `rules` and `caller` are the arguments. The Rust call stack is `stack`:
the bottom frame is the caller (`parse_rules` or `parse_all`) and there is one
frame for each constructed element whose contents are being read, so the
`depth` argument of a call is `Len(stack) - 1`. A frame holds what the loop
over the contents keeps: where the contents start, where the slice ends, the
next octet `p` and the children so far. The code counts offsets from the start
of each slice and passes `abs` along; the model counts from the start of the
blob throughout. `hdr` holds the locals of the innermost call while it reads a
header. `heap` collects the elements in the order in which their calls return,
and names children by their index; the body of a primitive element is not
copied, since offset and lengths say where it is.

`pc` says which stretch of the code is next, and every stretch has one action
for the way on and one for the errors, in the order of the code:

| `pc` | Code (`tlv.rs`) | Actions |
|---|---|---|
| `contents` | the loops 294-325 and 385-392, the callers, and the top of `parse_tlv` 168-190 | `BeginElement`, `TooDeep`, `NoTag`, `CloseDefinite`, `CloseIndefinite`, `MarkerError`, `Accept`, `TrailingBytes` |
| `tag` | one turn of the high-tag loop 195-216 and the test 217-223 | `TagOctet`, `TagError` |
| `length` | 227-269 | `ShortLength`, `IndefiniteLength`, `LongLength`, `LengthError` |
| `longlength` | one turn of the loop 271-273, and 275-284 | `LongLengthOctet`, `LongLengthEnd`, `LongLengthError` |
| `body` | 341-358 | `PrimitiveBody`, `ConstructedBody`, `BodyError` |

Left out: the texts of the messages; `Rules::parse`; the test for a zero-length
element (387) and for an overflow of `p` (323), which cannot fire because an
element takes at least two octets and ends within the blob, as `ElementsTile`
and `CallsNest` show.

`RoundTrip` adds the step the SQL functions take after a successful parse
(`generic.rs`, `process` of `to_der` and `reencode`), and then reads the result
under DER. A `Vec` cannot hold more than `UsizeMax` octets, where the process
would end; the step is guarded by that. `Sorting` says which child a stable sort
puts at a place: the one with that many others before it.

### The views

`tlvlist.rs` walks a tree that does not change, so its functions are functions
of the forest the reader leaves behind, and `TlvViews` adds no step to the
reader: its properties are about the states in which the reader has returned.
`RowsBelow` is the recursion that `walk` and `collect_oids` share. A path is
the sequence of its segments: `at_path` takes the number a segment starts with,
skips empty segments, and gives up at any other. The decoded value of a node is
that of `Values`, where texts and times stay the octets they are made from. A
dotted string is the sequence of its arcs, a decimal string its sign and
digits; `ArcModulus` is 2^128 and `WordOctets` the 8 octets of an i64, both
made small.

### Times

`CivilTime` has one step: a text is decoded. A text is the record of the
numbers it spells, of which minutes, seconds, fraction and zone may be missing;
what `decode_time` decides by lengths and digits is decided there by what is
missing. A UTCTime has no fraction: `parse_utctime` hands one, and the zone
behind it, to `parse_tz`, which takes what starts with a point for local time
(`UtctimeOffset`). In a GeneralizedTime a fraction may stand behind hours or
minutes, where X.680 means a fraction of these; `parse_generalized` adds one of
a second wherever it stands (`value.rs:151-166`). The ISO text is the record of what it shows. The calendar algorithms
are those of the code, with its division towards zero. TLC's integers do not
hold microseconds since 1970, so a day has 4 hours of 3 minutes of 3 seconds of
10 microseconds there; only the calendar keeps its numbers.

### The two loops over lines

`pem_decode` has an outer loop that looks for a BEGIN line and an inner one
that takes lines, from the same iterator, until a line that starts with
`-----END` or the end of the text. `pc` says which loop runs, `next` where the
iterator stands, `block` holds the label and the body so far, and the actions
are the branches: `SkipLine`, `BeginBlock`, `BodyLine`, `EndLine` and
`EndOfText` (both of which run `Decode`), `Finish`. Lines are trimmed by both
loops, so a line is what is left of it. A piece of a body is one of five kinds
told apart by what base64 makes of them. `block.at` and the rows' `at` record
where a block began and are read by properties only, and a row keeps the body
where the code keeps its octets.

### The security decoders

The decoders are functions of a tree and keep no state, so `Security` has one
action for each of them, which may be called on every blob, in any order. Their
hazard is the optional field: it is found by its position among the children,
by its tag, or as the first or last child of a kind, and each way can go wrong
when another part is missing. The properties compare an answer with the parts a
message was built from. The messages are built by reference encoders, written
from the RFCs and apart from the decoders: `OcspResponse`, `ContentInfo`,
`SnmpMessage`, `Segment`, `Ticket`, `PrivateKeyInfo`, `Pfx` and the rest take a
record of parts and give a tree; `ResponseAnswer`, `SignerAnswer` and so on say
what should be shown of the parts.

A node is a record with `kids` or with `octets`; octets are a sequence of
pieces, each a number, a name, a text, a time or half of an encoding, which
stands for what `value.rs` would make of them (checked by `Values`, `Oid` and
`CivilTime`). A piece may also be an octet that is no UTF-8, which turns the
octets it stands among into Latin-1 (`Decoded`). A string may be cut into segments, one piece in each; an encoding
is two pieces, so that a decoder that loses a segment does not find the tree
inside. `Parse` and `ParseAll` are what `TlvContract` promises. `ToDer` is an
equivalence: trees that differ in the order of sets alone have the same image,
which `RoundTrip` justifies. An `Option` is a sequence of at most one element
throughout, as is a Rust `?` chain (`AndThen`). LDAP's filters are printed
character by character, since their escapes are what the property about them is
about; every class of characters `esc` tells apart has a member.

What the decoders do, and the models with them, where a reader might expect
otherwise: SNMPv3 is claimed at `snmp.rs:1`, but a message whose third part is
not a context-specific PDU is answered by an error; the two counts of a GetBulk
are shown under the names of the error fields; a ModifyRequest and a
CompareRequest show no name, and a SearchResultReference is "unknown"; a
signer known by its
key identifier is never joined with a certificate; a content type that is
neither registered nor an attribute is NULL; the public key of a version 2 key
in an IMPLICIT tag keeps its count of unused bits; `pkcs8_info` takes a PFX,
and any SEQUENCE of its shape, for a key.

### The worker

`ScalarFunctions` gives each `process` function as an operator of the cells of
one row (`DecodeRow`, `TlvRow`, `AtPathRow`, ...), and `AnswerAt` as what is
appended for a row: NULL if any cell is. `Unreadable` is the error of
`blob_bytes` and `text_str`, for a column of a type they do not read: it is
raised at the first row that holds a value, so a column of NULLs passes.

`ScalarScan` runs the loop. `ScanValue` appends to `values`, or `ScanStruct` to
the child columns and the validity of a struct. List functions then run a
second loop, `build_tlv_list`, `build_oid_list` or `build_blob_list`, which has
one action for an element (`BuildElement`) and one for the end of a row
(`EndRow`), as `total` is counted by elements and may overflow between two of
one row (`Overflow`). In a release build the counter wraps, and
`OffsetBuffer::new` then panics on offsets that fall; both end in "panicked".
The properties read the result the way Arrow does: a list is what lies between
two offsets (`ListAt`), a struct is what its children hold where it is valid.

`TableScan` runs a producer. Five tables decode and fill their columns before
they are asked (`tpc` starts in "fill") and keep the batch in a `SingleBatch`;
`pem_decode` starts "ready" and fills when it is asked first. The engine may
ask again after the end (`AskAtEnd` is enabled there) and may drop the producer
before (`Leave`). `Narrowed` is the `as i32` of three columns.

`Worker` starts with a call or a scan; nothing is kept between two of them, so
a behaviour with one shows all there is. `main` hands each to the same library
loop and waits for nothing else.

## 3. Runs

`MCTlv.cfg` (run `tlv`, passes, 1.4 million states). Blobs for the reader: all
words of up to six octets over {0, 2, 31, 48, 128, 129}, which hold a primitive
and a constructed identifier, the high-tag marker, the end marker, an
indefinite and a long length, and small numbers; words of up to four octets inside nested definite
and indefinite elements; and blobs made for a limit: nesting at and beyond the
bound, tags around 31, 128 and `TagMax`, lengths around 128, 256 and
`UsizeMax`. The limits are small versions of those in the code: `MaxNesting`
3 for 256, `TagMax` 255 for 2^32-1, `MaxLengthOctets` 3 for 8, `UsizeMax`
65535; each is crossed by some blob, and the proofs do not depend on them.
Every rule set and both entry points are tried.

- `TypeOK`: types; a tag number never outgrows `TagMax`.
- `ElementsTile`: children fill their parent's contents exactly.
- `ElementsNest`: of any two elements, wherever in the tree, one lies in the
  contents of the other or they are apart.
- `CallsNest`: slices handed down nest, the loops stand within them, the
  recursion is bounded.
- `ErrorBehindElements`: an error's offset is absolute and behind all finished
  elements.
- `DerIsMinimal`: under DER every header is the shortest there is.
- `AcceptsTheGrammar`: for blobs over the alphabet, the result is "ok" exactly
  when the grammar gives the blob.
- `KeepsContract`: the reader implements `TlvContract` under the refinement
  mapping that shows the forest only when the result is "ok".
- `Termination`: the reader answers, and no step of it goes back. Every step
  that does not end the decode makes `Progress` grow, which counts four for each
  octet behind the place where the innermost loop or header stands, the stages
  from a header to its body and contents, and the elements closed there; it is
  bounded by four times the octets of the blob and four. A loop that did not
  advance by what a call used would be a step without progress, and one that
  went round for ever.

Blobs for the views: trees of three levels, groups of up to two members in both
length forms and of two identifiers, with well-formed, empty and cut-off OBJECT
IDENTIFIERs, constructed ones and context-specific look-alikes; OBJECT
IDENTIFIERs of up to three octets over the boundaries of arcs (39, 40, 79, 80,
127, 128); INTEGERs and BIT STRINGs of up to three octets; and elements of
every tag. `ArcModulus` is 2^14, which two octets cannot exceed and three can.

- `RowsFollowTheBlob`: one row per element, in the order of their offsets, and
  one path extends another exactly if the one element lies in the other.
- `PathsLeadBack`: every row's path leads `at_path` to the row's node, and a
  path of up to three segments that leads to a node is, empty segments apart,
  the path of its row.
- `OidsAreListed`: the inventory is the well-formed OBJECT IDENTIFIERs, stated
  apart from the decoder, each once, in the order and under the paths of
  `asn1.tlv`, with what their octets spell.
- `OidsThatFitNameTheirOctets`: `encode_oid` takes a decoded OID back to its
  octets, if its arcs fit the accumulator.
- `ProjectionsAgree`: under the path of every row, `asn1.decode`, `asn1.to_json`
  and `asn1.at_path` show what the row shows; every tag occurs.
- `IntegersKeepTheirValue`: both integer decoders give the number the octets
  stand for; all contents of up to three octets over 0, 1, 9, 127, 128, 246,
  255, with words of two.
- `BitStringsKeepTheirBits`: the bits shown are those of the octets but for the
  unused ones at the end.

`MCTlvCer.cfg` (run `tlv_parser_cer`, a violation). `validate.rs` says
that CER, like DER, requires minimal lengths and rejects indefinite ones;
`CerIsMinimal` says so of the reader and TLC refutes it with the blob
`30 80 00 00`: the three tests of the reader ask for DER alone.

`MCTlvArcs.cfg` (run `oid_wide_arcs`, a violation). `OidsNameTheirOctets` is the
property on OBJECT IDENTIFIERs without that premise: three octets can hold an
arc that does not fit.
`checked_shl` at `oid.rs:29` refuses only a shift by the whole width, so the
top bits are lost, the OID is decoded, and its name is that of another. In the
program this takes an arc of 2^128 or more (19 octets).

`MCTlvBits.cfg` (run `bit_strings`, a violation). `lib.rs` and `value.rs`
say that malformed contents never panic; `DecodingIsTotal` says so of every
blob the reader takes. TLC finds a BIT STRING with unused bits and no bits, such
as `03 01 01` or `03 01 05`: the subtraction at `value.rs:334` overflows.

`MCRoundTrip.cfg` (run `round_trip`, passes). Blobs: all words of up to six
octets over {0, 1, 49, 128, 129} (49 is SET), sets and sequences of two and
three elements in every order and length form, and contents and tags around
the sizes where the headers grow, definite and indefinite.

- `ReencodingIsDer`: what `to_der` writes is octets, and they are read back
  under DER without error.
- `ReencodingKeepsTheTree`: it is the same tree, sets up to order.
- `DerIsFixed`: DER with its sets in order is left alone, and what `to_der`
  writes is such DER, hence idempotence (the header of `reencode.rs`).

`MCCivilTime.cfg` (run `civil_time`, passes). Every day, and days and months
that are none, of fourteen years: the first two, the turns of centuries, leap
years and others, around 1970, the last; every combination of present and
missing parts, numbers in and out of range, fractions short and long, and zones
of either sign, on days from which a zone leads into another month or year; and
UTCTime with years around 50, with and without a fraction that should not be
there.

- `MicrosNameTheInstant`: the microseconds are those of the day and time in
  their zone, counted from the lengths of years and months, and of the digits of
  a fraction, each by its place.
- `IsoNamesTheInstantOfUtc`: the ISO text is that instant if the zone is UTC or
  a fraction is shown.
- `CalendarIsInverse`: the two algorithms are inverses on every day reached,
  and give days of the calendar.

Both first properties are about texts that name a day: 31 February is taken,
shown as it is and counted as 3 March. `MicrosNameTheInstant` says nothing of a
fraction behind hours or minutes, nor of one in a UTCTime: what such a text
means is not what the code makes of it (see Times, above). Nor does it say
anything of a text with something else than Z or an offset behind the time. That
a time without a zone counts as UTC is the code's choice (`value.rs:193`), and
the property follows it.

`MCCivilTimeIso.cfg` (run `iso_zone`, a violation). `value.rs:4` speaks of
times normalized to ISO-8601 and microseconds. `IsoNamesTheInstant` fails for a
time with an offset and no fraction: the ISO text shows the local time with
a Z (`value.rs:223`).

`MCPem.cfg` (run `pem`, passes). Every text of up to five lines over BEGIN and
END lines with two labels and the five kinds of pieces: two whole blocks and a
line beside them, or a block of three pieces.

- `TypeOK`.
- `BlocksAreNumbered`: rows are numbered from 0 without gaps, in the order of
  the text, whatever is skipped.
- `BlocksAreApart`: a row's body is the lines from its BEGIN line to the first
  END line after it, and the next block begins after that.
- `BundlesAreSplit`: if every block of the text is closed before the next one
  begins, the rows are exactly the blocks that decode, and `pem_label` names
  the first when that one decodes.
- `Termination`.

The premise of `BundlesAreSplit` is needed: a block that is not closed swallows
the next BEGIN line, does not decode because of it, and is skipped with the
whole block inside it. And any END line closes a block: the comparison with
`end_marker` (31) is implied by the test beside it.

`MCSecurity.cfg` (run `security`, passes, 34 thousand states). Messages of
every kind with every optional part present and absent: single responses of
three statuses with and without reason, `nextUpdate` and extensions, lists of
none, one and two of them, both kinds of responder; six lists of certificates
(shared serial numbers, names that differ in the order of a set, an attribute
certificate) against signers of every kind, with and without signed attributes;
every PDU with ids at both ends of what an Integer32 holds (`RequestIdBits` 4
for 32; those beyond are left out, the decoder's cast changes them) and binds of
every type; a SignedData in a ContentInfo and bare, with and without its
content; every operation of RFC 4511 alone and between others, filters nested
two deep, of every kind, over values that hold each special character, the text
of an escape, or octets that are not UTF-8; tickets, keys, PFXs with two safes; and octets that are no
such message. Every entry point is called on every message.

- `OcspPartsAreKept`: a request or response is given back part by part.
- `SignersKeepTheirParts`: one row per SignerInfo, its parts in their columns.
- `SignersAreJoined`: the certificate hash is that of the element of
  `cms_certs` with the signer's issuer and serial number, or NULL.
- `ContentIsWhole`: `cms_content` gives the octets that were signed, from a
  ContentInfo and from a bare SignedData, and NULL when they are detached.
- `PdusAreKept`: SNMP PDUs, the trap of version 1 too, in both functions.
- `SegmentsAreSplit`: a row for each LDAP message of a segment; none at all for
  a segment that was cut, since `parse_all` is all or nothing. The reference
  gives the dn of every operation that names an entry; it is not asked for where
  `ldap.rs` does not show it (`ButLostName`): of a ModifyRequest and a
  CompareRequest it takes no dn, and that of a DelRequest is lost, which has a
  run of its own.
- `FilterTextsAreDistinct`: two filters have the same text only if they differ
  in nothing but what a text does not show (`Legible`). Without that it would be
  false: every extensibleMatch prints as `(?)` (`ldap.rs:136`); a value that is
  not UTF-8 is read as Latin-1 (`mod.rs:45`), so that octet E9 prints like the
  two octets C3 A9; and a substring that is not UTF-8 prints as nothing
  (`ldap.rs:149`), so that `(a=*)` may be a substring filter.
- `TicketsAreKept`, `KeysAreListed`: the same for Kerberos and PKCS.
- `KeyMaterialStaysHidden`: two keys, or two PFXs, that differ in their secret
  alone have the same answer from `pkcs12_bags`, and two keys from `pkcs8_info`,
  so nothing these show depends on the secret. Not included is `pkcs8_info` on
  a PFX, which it takes for a key and whose contents it shows as parameters.

An optional field takes two values and a list up to two or three elements: the
decoders look at neighbours and at the first or last of a kind, so a shift by
one shows with two.

`MCSecurityNext.cfg` (run `ocsp_next_update`, a violation). The description of
`ocsp_decode` promises "this/next update"; `NextUpdateIsKept` says so of every
response. TLC refutes it with a good certificate: `nextUpdate [0]` is looked for
as the first `[0]` of the SingleResponse, which is `certStatus [0]`
(`ocsp.rs:160`).

`MCSecurityDel.cfg` (run `ldap_deleted_name`, a violation). `shred_op` counts
the tag of a DelRequest with those whose dn it shows (`ldap.rs:207`), and the
column is "the base/object DN (op-dependent)"; `DeletedNameIsShown` says so of
its row. TLC refutes it with any DelRequest: the name is the operation itself,
which is primitive, and the code looks for a child of it.

`MCWorker.cfg` (run `worker`, passes, 25 thousand states). Every function with
batches of none to three rows over NULL, a malformed cell and two well-formed
ones, in columns of every type (`at_path` with two columns); the list functions
answer with none, one and two elements, and `OffsetMax` is 3 where it is 2^31-1
in the code, so that full, exact and overflowing batches of up to six elements
occur. Every table with every kind of argument, none to three rows, integers at
and beyond the bounds of their column (`IntHalf` 8 for 2^31), and an engine that
asks up to four times (`MaxAsks`), twice after the end. A row's treatment
depends on the row and on the counters so far; three rows put NULL, empty and
full lists in every order around one another. The proofs do not depend on any
of these bounds.

- `KeepsRowByRow`: the loops implement `RowByRow` under the refinement mapping
  that reads the finished column back.
- `RowsDeliveredOnce`: the engine is given one batch, with every row, in order,
  with its own cells; an integer that fits its column is shown as it is.
- `EveryCallEnds`: every call is answered and every scan ends or is dropped.

Deadlock is not checked, except in `security`: a finished call stops.

### Fairness

`WF_vars(Next)` in `TlvParser`, `RoundTrip`, `TlvViews` and `Pem`: the code runs
in one thread and waits for nothing, so as long as it has a step to take it
takes it. In `Worker` it is `WF_vars(Serve)`: the worker's own steps, and the
asking of an engine that still wants rows. `Leave` is not fair, since no engine
has to drop a producer. Nothing stronger is assumed.

## 4. Proofs

`TlvParserProofs` proves for all blobs, limits, rule sets and entry points:

- `Invariance`: `Spec => []IInv`, from which
- `TypeCorrect` (`TypeOK`), `WholeElements` (`ElementsTile`), `NestedElements`
  (`ElementsNest`), `NestedCalls` (`CallsNest`), `LocatedErrors`
  (`ErrorBehindElements`);
- `EveryStepAdvances`: `Spec => [][Advances]_vars`, the half of `Termination`
  that is no liveness: each step makes `Progress` grow below its bound, so there
  are only so many of them, whatever the blob;
- `ImplementsContract`: `Spec => KeepsContract`.

The assumptions are `LimitsAssumption` and `ParserAssumption`: tags are within
u32 and those up to 31 fit, a length has at most eight octets, and blobs are
sequences of octets no longer than `UsizeMax`.

`CallsNest` is not inductive by itself: that an element's end is within its
slice depends on what `hdr` says while the header is read, and that a returned
element can be appended to its parent's children depends on where the parent's
loop stood when the call began. `IInv` adds those: the header being read starts
at the top frame's `p` and its `idx` lies in the slice, the number of length
octets left fits, the bottom frame is the caller's and no other is, and the
flags of frames and of nodes agree. The proof has one lemma per action; they
share lemmas about what opening, returning and failing do, and about `Tiles`
in a forest that grows (`TilesInLargerForest`, `TilesOneMore`).

`ElementsNest` needs `OrderInv` besides, which relates the finished elements to
the open ones: an element that is finished ended before an open one began, or
lies in its contents, behind where they start. When an element closes it takes
its place in the heap, and this is what makes it nest with all that came
before it.

It also proves `ShortestHeaders` (`DerIsMinimal`), from `IInv` and an invariant
of its own. A header is minimal because none of its octets was
needless when it was read, so `MinimalInv` says what the octets so far are
worth: after n octets of a tag number it is below 128^n and not below
128^(n-1), after n octets of a length it is below 256^n and, unless it is to
have one octet only, not below 256^(n-1). The frames of open elements carry the
same fact to the element that is made from them. The powers are written out
(`Power128`, `Power256`), as the provers know no exponents; each is shown to be
the one before it times the base.

`RoundTripProofs` proves what `to_der` promises, for every blob, under every
rule set it was read with, and for all limits:

- `WrittenIsDer` (`ReencodingIsDer`), `TheTreeIsKept`
  (`ReencodingKeepsTheTree`) and `DerStaysAsItIs` (`DerIsFixed`), from
- `RoundTripInvariance`: `RSpec => []RInv`.

Beside `LimitsAssumption` and `ParserAssumption` it rests on `WidthAssumption`:
a length of the build's `usize` fits the octets a long form may have, as one of
64 bits does in eight. Without it the writer could write a length its reader
refuses. `RInv` is `IInv` and three more parts.

- `DerInv`, of a blob read under DER: an element's header is, octet for octet,
  what `encode_identifier` and `encode_length` write for it (`HeaderStands`).
  While a header is read, its octets so far are the first digits of the number
  they spell (`IdentifierRead`, `LengthIsRead`). This is why DER with sorted
  sets is a fixed point: by induction over the nodes, each encodes to the octets
  it spans (`NodesEncodeThemselves`), for its children do.
- `LevelInv`, of the blob that is re-encoded: there is a level for each element
  that grows by one from parent to child and stays within `MaxNesting`. A tree
  is not deeper after its lengths have changed, so the reader cannot refuse its
  re-encoding as too deep.
- `ReadsBack`, of the re-encoding while it is read: there are a path of nodes of
  the source tree and, for each element found, the node it is a copy of
  (`Copies`). The calls in progress follow the path from the root down
  (`PathIs`); a frame's slice holds the content the writer wrote for its node,
  and its children so far are copies of the first of that node's children, in
  the order they were written in (`FrameIs`); an element that is finished has
  the class, tag, form and octets of the node it copies, and its children copy
  that node's (`NodeIs`); the header being read is that of the next child, and
  what was read of it is a prefix of what was written (`HeaderCopies`).

`CopiesStep` has a lemma for each action of the reader: `BeginElement` finds the
first octet of the next child, or the slice is at its end and so is the list
of children, and so on to `ConstructedBody`, which extends the path by one node,
and `CloseDefinite`, which takes it back. The actions for errors are shown not
to be enabled (`NoError`), each by the octets that stand where it looks.

What the encoder computes is put in terms of places first: an encoding is the
identifier, the length and the content one after another, a content is its
children's encodings one after another (`CutAt` gives the place where each
begins), and `Stands(d, o, w)` says that `w` is in `d` at `o`. Digits in a base
are unique and have no leading zero (`DigitsOf`), so what is read from them is
what was written. The sort is shown to put every child somewhere, once, and none
before one it follows (`SortsWell`): of two different children exactly one goes
before the other, the number of those before a child tells the children apart,
and so these numbers are all the places there are.

`TheTreeIsKept` then follows by induction over the source's nodes: an element
and what it copies say the same, and their children are copies already; under
a SET the sort is the order that `Twins` asks for. That what is written has its
sets sorted holds as an element's octets in the new blob are its node's
encoding, which the sort went by.

`PemProofs` proves for all labels and texts (`PemAssumption`: texts are
sequences of lines):

- `Invariance`: `Spec => []IInv`, from which
- `TypeCorrect` (`TypeOK`), `NumberedBlocks` (`BlocksAreNumbered`) and
  `BlocksApart` (`BlocksAreApart`);
- `BundlesSplit` (`BundlesAreSplit`).

Here `IInv` says of each finished block that it has an extent: there is a line
that closes it, its body is what lies between, and the next block, finished or
open, begins after that line (`Extent`). Of the open block it says that its
body is the lines since its BEGIN line and that none of them is an END line
(`InnerInv`), which is what an extent is made from when the block is finished.
That no block is lost needs `RowInv` besides: in a text whose blocks are closed
every block that decodes and begins before the place where the outer loop
stands (`Reached`) has its row. The step that could break it is the end of a
block, which moves `Reached` past all the block's lines at once.

`WorkerProofs` proves of `ScalarScan`, for every core, batch and limit of the
offsets:

- `Invariance`: `ScanSpec => []IInv`;
- `ScanKeepsRowByRow`: the loops implement `RowByRow`.

It assumes of the core what the types of the Rust functions say
(`CoreAssumption`), and of the calls that a column has as many cells as the
batch has rows (`ScanAssumption`). `KeepsRowByRow` speaks of the column when it
is finished; `IInv` says what has been built before. The columns of the first
loop are the answers for the rows behind it, and those rows were readable,
which is why an error may name the first unreadable one. In the second loop,
the offsets and elements so far are laid out by the lengths of the answers
behind (`LaidOut`), `InRow` places the element that is next, and `total` is the
number of elements laid out: this is why the counter can pass `OffsetMax` only
in a call that has too many elements, which is the one case in which
`RowByRow` lets a call panic.

It proves `TableDelivers` (`RowsDeliveredOnce`), for every decoder
and width of the integer columns (`TableAssumption`: a table's rows are those of
its decoder, and its integer columns hold integers or nothing). `TableInv` says
where the rows are: in the builders, in the `SingleBatch`, or with the engine,
and never in two of these. It then carries both results to the worker
(`CallsKeepRowByRow`, `ScansDeliverOnce`): a step of a call leaves the variables
of a scan alone, and the reverse. `WorkerAssumption` says that there is some
call and some scan.

`CivilTimeProofs` proves for every time text there is, and every length of a
day's hours, minutes, seconds and fractions (`TimeAssumption`):

- `CalendarOfEveryText` (`CalendarIsInverse`), `MicrosOfEveryText`
  (`MicrosNameTheInstant`) and `IsoOfEveryText` (`IsoNamesTheInstantOfUtc`).

`TextsAssumption` says that texts have the shape the code splits them into.
The code reads the digits of a fraction one behind the other and fills up with
zeros, the property adds what each digit stands for: after k digits the one is
the other divided by the power of ten that is left (`Fractions`).
The calendar has no loop to reason about, but nested divisions which the solver
does not see through: the proof names the quotients (era, century, cycle of
four years, year) and shows that each is the one that the bounds on what is left
over allow. Days counted from the lengths of years are then the days of
`days_from_civil`, by induction over years and months.

`TlvViewsProofs` proves of every blob the reader takes, with `IInv` for what
the contents of an element are:

- `IntegersOfAnySize` (`IntegersKeepTheirValue`): the value, the absence of
  leading zeros and the choice between number and decimal, for contents of any
  length and a machine word of any size (`WordAssumption`);
- `OidsAreEncodedBack` (`OidsThatFitNameTheirOctets`), for OIDs of any length
  and an `ArcModulus` of any multiple of 128, as 2^128 is
  (`ArcModulusAssumption`);
- `BitStringsOfAnySize` (`BitStringsKeepTheirBits`).

It proves the flat views of every tree `parse_rules` returns:

- `OneRowPerElement` (`RowsFollowTheBlob`);
- `EveryPathLeadsBack` (`PathsLeadBack`), and more than TLC can try: a path of
  any number of segments, each any number, empty, or no number at all
  (`EveryPathLeads`);
- `EveryOidIsListed` (`OidsAreListed`);
- `ProjectionsAlwaysAgree` (`ProjectionsAgree`).

These are about trees of any shape and need no invariant of their own, for
`ElementsTile` and `ElementsNest` are enough to make the heap a forest: an
element that lies in another is one of its children or lies in exactly one of
them (`WithinKid`, `KidAround`, `OneKidAround`), and children come before their
parents in the heap, which is what the inductions go by. Of two elements that
paths lead to, one lies in the other exactly if its path extends the other's
(`PathsTellOf`). What `RowsBelow` collects for a node (`RowsOk`) is a row for
each element within it that has one, under a path that leads there, in the
order of the offsets: the rows of the children are put one after another
(`RowsOfKids`), and children do not overlap. The root of the tree spans the
blob, so every element lies within it (`AllInTree`). Thus a row is missing or
doubled nowhere, and the number of rows is that of the elements.

For `asn1.oids` it remains to show which contents the decoder takes
(`DecodesSubidentifiers`): those that are subidentifiers in their shortest form,
whatever their size. That the sum in `decode_oid` never overflows where the
shift did not rests on `ArcModulus` being a multiple of 128. For
the projections, the walk down `Under` and the walk down `Navigate` are
shown to be at the same node after each segment (`TheWay`, `UnderIs`).

The loops of the code are recursive functions in the model, and `ValuesProofs`
proves what each computes by induction over its steps. A recursive function is
a CHOOSE: that there is one (`Defined`, in `Induction`) and that there is no
other (`StaySame`) come from the least element of a set of naturals, which the
library gives for well-founded relations. Each decoder has an invariant of its
loop: the long division of `UnsignedBytesToDecimal` keeps the value of rest and digits,
`decode_oid` after k octets has the arcs whose encodings are those octets but
for the one begun, a BIT STRING after k octets has 8k bits that pack to them.

Model-checked only:

- `Termination` and `EveryCallEnds`, which are liveness (what makes the reader
  stop, a measure that grows with every step and is bounded, is proved);
- `AcceptsTheGrammar`, which compares the reader with a set of words that is
  enumerated for one alphabet and one length;
- the properties of `Security`: its modules use RECURSIVE operators
  (`GatherOctets`, `Filter`, ...), which the prover does not take.

## 5. Not modelled

Left out for good:

- the layout of dumps (`dump.rs`) and of JSON texts, the texts of messages: no
  behaviour depends on them. Which value is shown under which key is in
  `Values` and `TlvViews`;
- the table of OID names (`oid.rs`, data), the catalog and its metadata
  (`meta.rs`, `main.rs`), tests and packaging: no state;
- the optional constant arguments (`mode`, `format`, `rules`): they are parsed
  once for a call and choose between functions that are modelled one by one;
- the transcoding of character sets (`value.rs`): a function of octets with no
  neighbour to go wrong with; that it cannot panic is part of `DecodingIsTotal`
  only in so far as the lengths matter;
- the offsets of the text and blob columns that arrow's own builders write; a
  column of more than 2 GiB makes the library panic.

What could be added: a model of octets for the messages of `Security`, so that
they are read by `TlvParser` and not taken from `TlvContract`; it would make
`MCSecurity` too large for what it adds, as `ImplementsContract` is proved.
