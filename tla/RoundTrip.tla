------------------------------ MODULE RoundTrip ------------------------------
(***************************************************************************)
(* to_der and reencode of asn1-worker/src/scalar/generic.rs, and what is   *)
(* done with their result: a blob is read under some rules, its tree is    *)
(* written as DER, and the octets are read back under DER.  The parser and *)
(* the encoder must agree on the format, which neither does by itself.     *)
(***************************************************************************)
EXTENDS TlvParser, TlvReencode

\* A length of the build's usize fits the octets a long form may have.
ASSUME WidthAssumption == MaxLengthOctets > 0 /\ UsizeMax < Power256(MaxLengthOctets)

VARIABLES
  stage,   \* 1 while the given blob is read, 2 while its re-encoding is
  source   \* the blob and the tree that were re-encoded

allVars == <<vars, stage, source>>

NoSource == [data |-> <<>>, forest |-> <<>>, root |-> 0]

RInit == Init /\ caller = "parse_rules" /\ stage = 1 /\ source = NoSource

Root == stack[1].kids[1]

Parse == Next /\ UNCHANGED <<stage, source>>

\* to_der on the tree that was read; its octets are the next blob.  A Vec holds
\* at most usize::MAX octets: the process ends where it would have to grow more.
Reencode ==
  /\ pc = "done" /\ result.kind = "ok"
  /\ stage = 1
  /\ Len(ToDer(data, heap, Root)) <= UsizeMax
  /\ stage' = 2
  /\ source' = [data |-> data, forest |-> heap, root |-> Root]
  /\ data' = ToDer(data, heap, Root)
  /\ rules' = "der"
  /\ caller' = "parse_rules"
  /\ pc' = "contents"
  /\ hdr' = NoHeader
  /\ stack' = <<CallFrame'>>
  /\ heap' = <<>>
  /\ result' = [kind |-> "pending", offset |-> 0]

RNext == Parse \/ Reencode

RSpec == RInit /\ [][RNext]_allVars /\ WF_allVars(RNext)

-----------------------------------------------------------------------------
(* Properties *)

Finished == stage = 2 /\ result.kind = "ok"

(* to_der writes octets, and they are DER: whatever rules the blob was read *)
(* under, however deep or oddly encoded it was, the parser takes the result *)
(* back under DER.                                                          *)
ReencodingIsDer ==
  stage = 2 => data \in Seq(Octets) /\ result.kind \in {"pending", "ok"}

\* Node j of f2, in blob d2, says what node i of f1 in d1 says: the same class,
\* tag and octets, and children that say the same, in order or, under a SET, in
\* some order.
Twins(d1, f1, d2, f2) ==
  LET twins[i \in DOMAIN f1] ==
        { j \in DOMAIN f2 :
            LET m == f1[i]
                n == f2[j]
            IN /\ m.class = n.class /\ m.tag = n.tag /\ m.constructed = n.constructed
               /\ ~ m.constructed => SubSeq(d1, ContentStart(m) + 1, ContentEnd(m))
                                       = SubSeq(d2, ContentStart(n) + 1, ContentEnd(n))
               /\ Len(m.kids) = Len(n.kids)
               /\ \E order \in Bijection(DOMAIN m.kids, DOMAIN m.kids) :
                    /\ ~ IsSet(m) => \A k \in DOMAIN m.kids : order[k] = k
                    /\ \A k \in DOMAIN m.kids : n.kids[k] \in twins[m.kids[order[k]]] }
  IN twins

(* Re-encoding changes how a value is written and never what it says.       *)
ReencodingKeepsTheTree ==
  Finished => Root \in Twins(source.data, source.forest, data, heap)[source.root]

SetsSorted(d, forest) ==
  \A i \in DOMAIN forest :
    IsSet(forest[i]) /\ forest[i].constructed =>
      LET octets(k) == SubSeq(d, forest[k].offset + 1, End(forest[k]))
          kids == forest[i].kids
      IN \A k \in 1 .. Len(kids) - 1 : ~ Precedes(octets(kids[k + 1]), octets(kids[k]))

(* The header of reencode.rs: to_der leaves DER alone when the sets are in  *)
(* order, and what it writes is such DER, so it is idempotent.              *)
DerIsFixed ==
  result.kind = "ok" /\ rules = "der" =>
    /\ stage = 2 => SetsSorted(data, heap)
    /\ SetsSorted(data, heap) => ToDer(data, heap, Root) = data

=============================================================================
