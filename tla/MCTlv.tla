-------------------------------- MODULE MCTlv ---------------------------------
(***************************************************************************)
(* TlvParser, and TlvViews on what it returns: on every blob of up to      *)
(* Longest octets over a small alphabet; on longer ones made for a limit,  *)
(* of nesting, long tags and lengths; on trees of three levels in both     *)
(* length forms, with OBJECT IDENTIFIERs, malformed ones and look-alikes   *)
(* among their leaves; on OBJECT IDENTIFIERs, INTEGERs and BIT STRINGs     *)
(* around the boundaries of their forms; and on elements of every tag.     *)
(***************************************************************************)
EXTENDS TlvViews, TlvGrammar

-----------------------------------------------------------------------------
(* Blobs for the reader *)

AllWords == UNION { Words(n) : n \in 0 .. Longest }

Repeat(w, n) == [i \in 1 .. n * Len(w) |-> w[((i - 1) % Len(w)) + 1]]

\* 30 80 .. 00 00 and 30 05 .. around short words over the interesting octets.
Wrapped ==
  UNION { { <<48, 128>> \o w \o <<0, 0>>, <<48, 5>> \o w \o <<5, 0>>,
            <<161, 128, 48, 4>> \o w, <<48, 7, 160, 128>> \o w \o <<0, 0>> } :
          w \in UNION { [1 .. n -> {0, 2, 48, 128}] : n \in 0 .. 4 } }

AtLimits ==
  { Repeat(<<48, 128>>, n) \o w \o Repeat(<<0, 0>>, n) : n \in 1 .. MaxNesting + 2,
                                                      w \in {<<>>, <<5, 0>>, <<48, 0>>} }
  \cup { <<i>> \o w \o l : i \in {31, 63},
                           w \in {<<30>>, <<31>>, <<128, 31>>, <<129, 0>>, <<129, 127>>, <<130, 0>>,
                                  <<129, 130, 0>>, <<129>>},
                           l \in {<<0>>, <<1, 7>>, <<128, 0, 0>>, <<>>} }
  \cup { <<4>> \o l \o Repeat(<<170>>, n) :
           l \in {<<127>>, <<129, 127>>, <<129, 128>>, <<130, 0, 128>>}, n \in {127, 128} }
  \cup { <<i>> \o l : i \in {4, 48, 160},
                      l \in {<<130, 255, 255>>, <<130, 255, 251>>, <<130, 255, 252>>,
                             <<131, 1, 0, 0>>, <<131, 0, 0, 0>>, <<132, 0, 0, 0, 0>>,
                             <<255>>, <<3, 2, 255, 0>>} }

ReaderBlobs == AllWords \cup Wrapped \cup AtLimits

\* Evaluated once: which words are to be accepted from whom under which rules.
Acceptable ==
  UNION { { <<c, r, w>> : w \in Accepted(c, r) } : c \in Callers, r \in RulesUsed }

(* The parser accepts exactly the octet strings of the grammar: it turns    *)
(* away nothing that is an encoding under its rules, and lets nothing else  *)
(* through, whatever way it went through its loops.                         *)
AcceptsTheGrammar ==
  result.kind # "pending" /\ Len(data) <= Longest /\ (\A i \in DOMAIN data : data[i] \in Alphabet) =>
    (result.kind = "ok" <=> <<caller, rules, data>> \in Acceptable)

-----------------------------------------------------------------------------
(* Blobs for the views *)

Leaf == { <<5, 0>>, <<6, 1, 42>>, <<6, 1, 128>>, <<6, 0>>, <<134, 1, 42>> }

\* A constructed element around a content, in both length forms.
Around(id, content) == { <<id, Len(content)>> \o content, <<id, 128>> \o content \o <<0, 0>> }

Group(members) ==
  UNION { Around(id, c) : id \in {48, 38},
                          c \in { <<>> } \cup { e \o f : e \in members, f \in Leaf \cup { <<>> } } }

Inner == Group({ <<5, 0>>, <<6, 1, 42>>, <<6, 2, 129, 0>> })

\* Groups to stand behind another.
Neighbours == UNION { Around(48, c) : c \in { <<>>, <<6, 1, 42>>, <<5, 0, 6, 1, 128>> } }

Trees ==
  Leaf \cup Inner
  \cup UNION { Around(48, e \o f \o g) : e \in Inner, f \in { <<>>, <<6, 1, 80>> }, g \in Neighbours }
  \cup UNION { Around(48, d) : d \in UNION { Around(160, e \o <<6, 1, 43>>) : e \in Inner } }

\* OBJECT IDENTIFIERs of one to three octets.
Numbers ==
  { <<6, n>> \o w : n \in 1 .. 3, w \in UNION { [1 .. k -> {0, 1, 39, 40, 79, 80, 127, 128, 129, 255}] : k \in 1 .. 3 } }

\* INTEGERs of up to three octets.
IntegerBlobs ==
  { <<2, Len(w)>> \o w : w \in BoundedSeq({0, 1, 9, 127, 128, 246, 255}, 3) }

BitStrings ==
  { <<3, Len(w)>> \o w : w \in BoundedSeq({0, 1, 5, 7, 8, 165}, 3) }

\* Primitive elements of every tag and class, in a group.
Leaves ==
  { <<id, 4, t, 2, 1, 0>> : id \in {48, 163}, t \in 1 .. 30 \cup {129, 65} }

MCBlobs == ReaderBlobs \cup Trees \cup Numbers \cup IntegerBlobs \cup BitStrings \cup Leaves

=============================================================================
