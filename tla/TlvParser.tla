------------------------------ MODULE TlvParser ------------------------------
(***************************************************************************)
(* The tag-length-value reader of asn1-core/src/tlv.rs: parse_tlv, the     *)
(* parse_children loop it is mutually recursive with, and their two        *)
(* callers, parse_rules (one element that must span the whole blob) and    *)
(* parse_all (a run of elements).                                          *)
(*                                                                         *)
(* The call stack of the recursion is a variable: a frame for the caller   *)
(* at the bottom and one for every constructed element whose contents are  *)
(* being read.  Each action is one stretch of the code between two calls   *)
(* or two turns of a loop.  A blob is a sequence of octets; offsets count  *)
(* from 0, as in the code, so the octet at offset o is data[o + 1].        *)
(*                                                                         *)
(* Finished elements are collected in heap, in the order in which their    *)
(* parse_tlv call returns; an element names its children by their index    *)
(* there.  The octets of a primitive body are those of the blob between    *)
(* the element's header and its end, so they are not copied.               *)
(***************************************************************************)
EXTENDS TlvForest

CONSTANTS
  Blobs,      \* the blobs the parser may be given
  RulesUsed,  \* the rule sets it is run under
  Callers     \* the entry points: subset of {"parse_rules", "parse_all"}

ASSUME ParserAssumption ==
  /\ Blobs \subseteq Seq(Octets)
  /\ RulesUsed \subseteq {"ber", "cer", "der"}
  /\ Callers \subseteq {"parse_rules", "parse_all"}
  /\ \A b \in Blobs : Len(b) <= UsizeMax

VARIABLES
  data,    \* the blob
  rules,   \* the encoding rules in force
  caller,  \* the entry point that was called
  pc,      \* the stretch of code to run next
  hdr,     \* the header being read: locals of the innermost parse_tlv call
  stack,   \* the calls in progress, the caller's frame first
  heap,    \* the elements finished so far
  result   \* what the call returned, "pending" before

input == <<data, rules, caller>>
vars == <<data, rules, caller, pc, hdr, stack, heap, result>>

-----------------------------------------------------------------------------
(* Types *)

Results == [kind : {"pending", "ok"} \cup ErrorKinds, offset : Nat]

Headers == [at : Nat, idx : Nat, class : 0 .. 3, constructed : BOOLEAN,
            tag : 0 .. TagMax, left : Nat, len : Nat]

(* kind: "definite" and "indefinite" frames are open elements, the others  *)
(* the caller.  Contents start at content, must not pass end, and the next *)
(* octet to read is at p (all three from the start of the blob).           *)
Frames == [kind : {"parse_rules", "parse_all", "definite", "indefinite"},
           at : Nat, class : 0 .. 3, tag : 0 .. TagMax,
           content : Nat, end : Nat, p : Nat, kids : Seq(Nat)]

TypeOK ==
  /\ data \in Blobs
  /\ rules \in RulesUsed
  /\ caller \in Callers
  /\ pc \in {"contents", "tag", "length", "longlength", "body", "done"}
  /\ hdr \in Headers
  /\ stack \in Seq(Frames) /\ Len(stack) >= 1
  /\ heap \in Seq(Nodes)
  /\ result \in Results

-----------------------------------------------------------------------------
(* Reading the blob *)

Octet(o) == data[o + 1]

Top == stack[Len(stack)]

\* The depth argument of a parse_tlv call made by the frame on top.
Depth == Len(stack) - 1

\* header_len of the header being read, once its last octet is behind idx.
HeaderLen == hdr.idx - hdr.at

AllowsIndefinite == rules # "der"

\* The frame on top goes on to call parse_tlv at its offset p: parse_rules
\* once, parse_all and a definite element while octets are left, an
\* indefinite element unless the next octet is 0.
WantsElement ==
  \/ Top.kind = "parse_rules" /\ Top.kids = <<>>
  \/ Top.kind \in {"parse_all", "definite"} /\ Top.p < Top.end
  \/ Top.kind = "indefinite" /\ Top.p < Top.end /\ Octet(Top.p) # 0

-----------------------------------------------------------------------------
(* Returning *)

\* Mutant of Fail: the offset is counted from the enclosing element.
FailRelative(kind, offset) ==
  /\ result' = [kind |-> kind, offset |-> offset - Top.at]
  /\ pc' = "done"
  /\ UNCHANGED <<input, hdr, stack, heap>>

\* An Err passes through every caller by `?`, so the whole call returns it.
Fail(kind, offset) ==
  /\ result' = [kind |-> kind, offset |-> offset]
  /\ pc' = "done"
  /\ UNCHANGED <<input, hdr, stack, heap>>

\* Mutant of Resumed: the loop up to a marker does not add what the child used.
ResumedInPlace(f, end, child) ==
  [f EXCEPT !.p = IF f.kind = "indefinite" THEN f.p ELSE end, !.kids = Append(f.kids, child)]

\* The loop of frame f after a child: the child is collected, end is next.
Resumed(f, end, child) == [f EXCEPT !.p = end, !.kids = Append(f.kids, child)]

\* parse_tlv returns node to the innermost of frames, which goes on at end.
Return(frames, node, end) ==
  /\ heap' = Append(heap, node)
  /\ stack' = [frames EXCEPT ![Len(frames)] =
                 Resumed(frames[Len(frames)], end, Len(heap) + 1)]
  /\ pc' = "contents"
  /\ UNCHANGED <<input, hdr, result>>

\* parse_tlv starts on the contents of the element whose header it has read.
Open(kind, content, end) ==
  /\ stack' = Append(stack, [kind |-> kind, at |-> hdr.at, class |-> hdr.class,
                             tag |-> hdr.tag, content |-> content, end |-> end,
                             p |-> content, kids |-> <<>>])
  /\ pc' = "contents"
  /\ UNCHANGED <<input, hdr, heap, result>>

\* The element whose contents frame f has read.
NodeOf(f) ==
  [offset |-> f.at, header_len |-> f.content - f.at,
   content_len |-> (IF f.kind = "definite" THEN f.end ELSE f.p) - f.content,
   indefinite |-> f.kind = "indefinite",
   class |-> f.class, constructed |-> TRUE, tag |-> f.tag, kids |-> f.kids]

-----------------------------------------------------------------------------
(* The identifier octets *)

BeginElement ==
  /\ pc = "contents" /\ WantsElement
  /\ Depth <= MaxNesting
  /\ Top.p < Top.end
  /\ LET id == Octet(Top.p)
     IN /\ hdr' = [at |-> Top.p, idx |-> Top.p + 1,
                   class |-> id \div 64, constructed |-> (id \div 32) % 2 = 1,
                   tag |-> IF id % 32 = 31 THEN 0 ELSE id % 32,
                   left |-> 0, len |-> 0]
        /\ pc' = IF id % 32 = 31 THEN "tag" ELSE "length"
  /\ UNCHANGED <<input, stack, heap, result>>

TooDeep ==
  /\ pc = "contents" /\ WantsElement
  /\ Depth > MaxNesting
  /\ Fail("nesting-limit", Top.p)

NoTag ==
  /\ pc = "contents" /\ WantsElement
  /\ Depth <= MaxNesting
  /\ Top.p >= Top.end
  /\ Fail("truncated", Top.p)

\* The accumulator t after one more octet of a high tag number.
TagSoFar == 128 * hdr.tag + (Octet(hdr.idx) % 128)

\* Mutant of TagOctet: the tag number may outgrow u32.
TagOctetUnbounded ==
  /\ pc = "tag"
  /\ hdr.idx < Top.end
  /\ ~ (hdr.idx = hdr.at + 1 /\ Octet(hdr.idx) = 128)
  /\ Octet(hdr.idx) < 128 => TagSoFar >= 31
  /\ hdr' = [hdr EXCEPT !.tag = TagSoFar, !.idx = hdr.idx + 1]
  /\ pc' = IF Octet(hdr.idx) < 128 THEN "length" ELSE "tag"
  /\ UNCHANGED <<input, stack, heap, result>>

TagOctet ==
  /\ pc = "tag"
  /\ hdr.idx < Top.end
  /\ ~ (hdr.idx = hdr.at + 1 /\ Octet(hdr.idx) = 128)
  /\ TagSoFar <= TagMax
  /\ Octet(hdr.idx) < 128 => TagSoFar >= 31
  /\ hdr' = [hdr EXCEPT !.tag = TagSoFar, !.idx = hdr.idx + 1]
  /\ pc' = IF Octet(hdr.idx) < 128 THEN "length" ELSE "tag"
  /\ UNCHANGED <<input, stack, heap, result>>

TagError ==
  /\ pc = "tag"
  /\ \/ /\ hdr.idx >= Top.end
        /\ Fail("truncated", hdr.at)
     \/ /\ hdr.idx < Top.end
        /\ hdr.idx = hdr.at + 1 /\ Octet(hdr.idx) = 128
        /\ Fail("non-canonical", hdr.at)
     \/ /\ hdr.idx < Top.end
        /\ TagSoFar > TagMax
        /\ Fail("invalid-tag", hdr.at)
     \/ /\ hdr.idx < Top.end
        /\ ~ (hdr.idx = hdr.at + 1 /\ Octet(hdr.idx) = 128)
        /\ Octet(hdr.idx) < 128 /\ TagSoFar < 31
        /\ Fail("non-canonical", hdr.at)

-----------------------------------------------------------------------------
(* The length octets *)

ShortLength ==
  /\ pc = "length"
  /\ hdr.idx < Top.end
  /\ Octet(hdr.idx) < 128
  /\ hdr' = [hdr EXCEPT !.len = Octet(hdr.idx), !.idx = hdr.idx + 1]
  /\ pc' = "body"
  /\ UNCHANGED <<input, stack, heap, result>>

\* The contents of an indefinite element may run to the end of the slice its
\* parse_tlv was given.
IndefiniteLength ==
  /\ pc = "length"
  /\ hdr.idx < Top.end
  /\ Octet(hdr.idx) = 128
  /\ hdr.constructed
  /\ AllowsIndefinite
  /\ Open("indefinite", hdr.idx + 1, Top.end)

\* The number of octets a long-form length octet announces.
Announced == Octet(hdr.idx) - 128

\* Mutant of PaddedLength: one octet of padding passes.
PaddedLengthLax == rules = "der" /\ Announced > 2 /\ Octet(hdr.idx + 1) = 0

\* DER: a first length octet of 0 is not minimal (a single one is judged by
\* its value).
PaddedLength == rules = "der" /\ Announced > 1 /\ Octet(hdr.idx + 1) = 0

LongLength ==
  /\ pc = "length"
  /\ hdr.idx < Top.end
  /\ Octet(hdr.idx) \in 129 .. 254
  /\ Announced <= MaxLengthOctets
  /\ hdr.idx + 1 + Announced <= Top.end
  /\ ~ PaddedLength
  /\ hdr' = [hdr EXCEPT !.left = Announced, !.len = 0, !.idx = hdr.idx + 1]
  /\ pc' = "longlength"
  /\ UNCHANGED <<input, stack, heap, result>>

LengthError ==
  /\ pc = "length"
  /\ \/ /\ hdr.idx >= Top.end
        /\ Fail("truncated", hdr.at)
     \/ /\ hdr.idx < Top.end /\ Octet(hdr.idx) = 128
        /\ ~ hdr.constructed
        /\ Fail("invalid-tag", hdr.at)
     \/ /\ hdr.idx < Top.end /\ Octet(hdr.idx) = 128
        /\ hdr.constructed /\ ~ AllowsIndefinite
        /\ Fail("indefinite-in-der", hdr.at)
     \/ /\ hdr.idx < Top.end /\ Octet(hdr.idx) = 255
        /\ Fail("invalid-tag", hdr.at)
     \/ /\ hdr.idx < Top.end /\ Octet(hdr.idx) \in 129 .. 254
        /\ Announced > MaxLengthOctets
        /\ Fail("length-overflow", hdr.at)
     \/ /\ hdr.idx < Top.end /\ Octet(hdr.idx) \in 129 .. 254
        /\ Announced <= MaxLengthOctets
        /\ hdr.idx + 1 + Announced > Top.end
        /\ Fail("truncated", hdr.at)
     \/ /\ hdr.idx < Top.end /\ Octet(hdr.idx) \in 129 .. 254
        /\ Announced <= MaxLengthOctets
        /\ hdr.idx + 1 + Announced <= Top.end
        /\ PaddedLength
        /\ Fail("non-canonical", hdr.at)

LongLengthOctet ==
  /\ pc = "longlength"
  /\ hdr.left > 0
  /\ hdr' = [hdr EXCEPT !.len = 256 * hdr.len + Octet(hdr.idx),
                        !.idx = hdr.idx + 1, !.left = hdr.left - 1]
  /\ UNCHANGED <<input, pc, stack, heap, result>>

\* DER: a length that fits the short form must use it.
NeedlesslyLong == rules = "der" /\ hdr.len < 128

LongLengthEnd ==
  /\ pc = "longlength"
  /\ hdr.left = 0
  /\ ~ NeedlesslyLong
  /\ hdr.len <= UsizeMax
  /\ pc' = "body"
  /\ UNCHANGED <<input, hdr, stack, heap, result>>

LongLengthError ==
  /\ pc = "longlength"
  /\ hdr.left = 0
  /\ \/ /\ NeedlesslyLong
        /\ Fail("non-canonical", hdr.at)
     \/ /\ ~ NeedlesslyLong
        /\ hdr.len > UsizeMax
        /\ Fail("length-overflow", hdr.at)

-----------------------------------------------------------------------------
(* The body of a definite element *)

\* checked_add(header_len, content_len)
SumOverflows == HeaderLen + hdr.len > UsizeMax

\* The end of the element, from the start of the blob.
DefiniteEnd == hdr.at + HeaderLen + hdr.len

\* Mutant of BodyFits: the sum wraps around at usize::MAX and is not checked.
BodyFitsWrapping == hdr.at + ((HeaderLen + hdr.len) % (UsizeMax + 1)) <= Top.end

BodyFits == ~ SumOverflows /\ DefiniteEnd <= Top.end

PrimitiveBody ==
  /\ pc = "body"
  /\ BodyFits
  /\ ~ hdr.constructed
  /\ Return(stack,
            [offset |-> hdr.at, header_len |-> HeaderLen, content_len |-> hdr.len,
             indefinite |-> FALSE, class |-> hdr.class, constructed |-> FALSE,
             tag |-> hdr.tag, kids |-> <<>>],
            DefiniteEnd)

ConstructedBody ==
  /\ pc = "body"
  /\ BodyFits
  /\ hdr.constructed
  /\ Open("definite", hdr.idx, DefiniteEnd)

BodyError ==
  /\ pc = "body"
  /\ \/ /\ SumOverflows
        /\ Fail("length-overflow", hdr.at)
     \/ /\ ~ SumOverflows /\ DefiniteEnd > Top.end
        /\ Fail("length-overflow", hdr.at)

-----------------------------------------------------------------------------
(* The contents of an open element, and the callers *)

Enclosing == SubSeq(stack, 1, Len(stack) - 1)

CloseDefinite ==
  /\ pc = "contents"
  /\ Top.kind = "definite"
  /\ Top.p >= Top.end
  /\ Return(Enclosing, NodeOf(Top), Top.end)

\* Mutant of MarkerAt: the second octet of the pair is not looked at.
MarkerAtFirst(o) == o + 1 < Top.end /\ Octet(o) = 0

\* The 00 00 pair that ends an indefinite element.
MarkerAt(o) == o + 1 < Top.end /\ Octet(o) = 0 /\ Octet(o + 1) = 0

\* Mutant of CloseIndefinite: the marker is left to the caller.
CloseIndefiniteEarly ==
  /\ pc = "contents"
  /\ Top.kind = "indefinite"
  /\ MarkerAt(Top.p)
  /\ Return(Enclosing, NodeOf(Top), Top.p)

CloseIndefinite ==
  /\ pc = "contents"
  /\ Top.kind = "indefinite"
  /\ MarkerAt(Top.p)
  /\ Return(Enclosing, NodeOf(Top), Top.p + 2)

MarkerError ==
  /\ pc = "contents"
  /\ Top.kind = "indefinite"
  /\ \/ /\ Top.p >= Top.end
        /\ Fail("truncated", Top.p)
     \/ /\ Top.p < Top.end /\ Octet(Top.p) = 0
        /\ Top.p + 1 >= Top.end
        /\ Fail("truncated", Top.p)
     \/ /\ Top.p + 1 < Top.end /\ Octet(Top.p) = 0
        /\ Octet(Top.p + 1) # 0
        /\ Fail("invalid-tag", Top.p)

\* Mutant of Accept: what follows the element is not looked at.
AcceptPrefix ==
  /\ pc = "contents"
  /\ \/ Top.kind = "parse_rules" /\ Top.kids # <<>>
     \/ Top.kind = "parse_all" /\ Top.p >= Top.end
  /\ result' = [kind |-> "ok", offset |-> 0]
  /\ pc' = "done"
  /\ UNCHANGED <<input, hdr, stack, heap>>

\* parse_rules wants the element to span the blob, parse_all reads elements
\* until none is left.
Accept ==
  /\ pc = "contents"
  /\ \/ Top.kind = "parse_rules" /\ Top.kids # <<>> /\ Top.p = Len(data)
     \/ Top.kind = "parse_all" /\ Top.p >= Top.end
  /\ result' = [kind |-> "ok", offset |-> 0]
  /\ pc' = "done"
  /\ UNCHANGED <<input, hdr, stack, heap>>

TrailingBytes ==
  /\ pc = "contents"
  /\ Top.kind = "parse_rules" /\ Top.kids # <<>>
  /\ Top.p # Len(data)
  /\ Fail("trailing-bytes", Top.p)

-----------------------------------------------------------------------------

NoHeader == [at |-> 0, idx |-> 0, class |-> 0, constructed |-> FALSE,
             tag |-> 0, left |-> 0, len |-> 0]

CallFrame == [kind |-> caller, at |-> 0, class |-> 0, tag |-> 0,
              content |-> 0, end |-> Len(data), p |-> 0, kids |-> <<>>]

\* parse_all reads under BER; parse_rules is told the rules.
Init ==
  /\ data \in Blobs
  /\ rules \in RulesUsed
  /\ caller \in Callers
  /\ caller = "parse_all" => rules = "ber"
  /\ pc = "contents"
  /\ hdr = NoHeader
  /\ stack = <<CallFrame>>
  /\ heap = <<>>
  /\ result = [kind |-> "pending", offset |-> 0]

Next ==
  \/ BeginElement \/ TooDeep \/ NoTag
  \/ TagOctet \/ TagError
  \/ ShortLength \/ IndefiniteLength \/ LongLength \/ LengthError
  \/ LongLengthOctet \/ LongLengthEnd \/ LongLengthError
  \/ PrimitiveBody \/ ConstructedBody \/ BodyError
  \/ CloseDefinite \/ CloseIndefinite \/ MarkerError
  \/ Accept \/ TrailingBytes

\* The code runs in one thread and never waits: it keeps taking its next step.
Spec == Init /\ [][Next]_vars /\ WF_vars(Next)

-----------------------------------------------------------------------------
(* Properties *)

(* Every finished element owns exactly the octets of its children: the      *)
(* children of a constructed element lie end to end, from its header to the *)
(* end of its contents, so no octet is read twice, skipped, or taken from   *)
(* an element outside; and an element takes two octets at least, which is   *)
(* why the zero-length test of parse_children never fires.                  *)
ElementsTile == \A i \in DOMAIN heap : ElementIsWhole(heap, i)

(* Any two finished elements are apart, or the one that was finished first  *)
(* lies in the contents of the other, which then is constructed: wherever   *)
(* they stand in the tree, no octet of the blob belongs to both.            *)
ElementsNest ==
  \A i \in DOMAIN heap : \A j \in 1 .. i - 1 :
    End(heap[j]) <= heap[i].offset \/ (heap[i].constructed /\ LiesIn(heap[j], heap[i]))

(* The slices handed down the recursion nest: the contents of an open       *)
(* element never reach past those of the element around it, the element     *)
(* being read starts where its parent's loop stands, what the parent has    *)
(* collected ends there too, and the recursion stays within the limit.      *)
CallsNest ==
  /\ Depth <= MaxNesting + 1
  /\ \A i \in DOMAIN stack :
       /\ stack[i].content <= stack[i].p
       /\ stack[i].p <= stack[i].end /\ stack[i].end <= Len(data)
       /\ Tiles(heap, stack[i].kids, stack[i].content, stack[i].p)
  /\ \A i \in 1 .. Len(stack) - 1 :
       /\ stack[i + 1].at = stack[i].p
       /\ stack[i + 1].end <= stack[i].end

(* An error is blamed on a place of the blob that no finished element       *)
(* covers: the offset is absolute however deep the element was, and the     *)
(* elements finished before the error all end at or before it.              *)
ErrorBehindElements ==
  result.kind \in ErrorKinds =>
    /\ result.offset <= Len(data)
    /\ \A i \in DOMAIN heap : End(heap[i]) <= result.offset

\* The shortest header there is for the tag and the length of n.
MinimalHeader(n) ==
  /\ ~ n.indefinite
  /\ n.header_len = 1 + TagOctets(n.tag) + LengthOctets(n.content_len)

(* Under DER an element that was read has the shortest header there is: no  *)
(* indefinite length, a tag number in high form only from 31 up and without *)
(* padding, a length in long form only from 128 up and without padding.     *)
DerIsMinimal == rules = "der" => \A i \in DOMAIN heap : MinimalHeader(heap[i])

(* The documentation of is_valid (validate.rs): cer, like der, enforces     *)
(* minimal length encoding and rejects indefinite lengths.                  *)
CerIsMinimal == rules = "cer" => \A i \in DOMAIN heap : MinimalHeader(heap[i])

\* How far the reader has come: the octet it stands at, and there from a
\* header it reads to a body and on to contents.  Closing an element takes no
\* octet but a frame off the stack.
Standing == IF pc = "contents" THEN Top.p ELSE hdr.idx
Stage == CASE pc = "contents" -> 5 [] pc = "body" -> 3 [] OTHER -> 2
Progress == 4 * Standing + Stage - Len(stack)

\* A step that does not return comes further, and there is an end to that.
Advances ==
  result'.kind = "pending" => Progress < Progress' /\ Progress <= 4 * Len(data) + 4

(* The parser answers: no blob, however malformed, makes it loop.  Every    *)
(* turn of a loop and every call takes it further into the blob or ends an  *)
(* element it is in, so no child can use nothing and be read again; and no  *)
(* blob leaves it without a next step.                                      *)
Termination == [][Advances]_vars /\ <>(result.kind # "pending")

(* What its callers rely on: the parser implements the contract.            *)
Contract == INSTANCE TlvContract WITH
  forest <- IF result.kind = "ok" THEN heap ELSE <<>>,
  roots <- IF result.kind = "ok" THEN stack[1].kids ELSE <<>>

KeepsContract == Contract!Spec

=============================================================================
