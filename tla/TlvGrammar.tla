----------------------------- MODULE TlvGrammar ------------------------------
(***************************************************************************)
(* The encodings the reader of asn1-core/src/tlv.rs is meant to accept,    *)
(* written as a grammar: what an element is made of, not how it is read.   *)
(* An element is identifier octets, length octets and contents; the        *)
(* contents of a constructed one are elements.  Under an indefinite length *)
(* a 00 00 pair ends the contents and no element in them starts with 00.   *)
(* The grammar gives every encoding of at most Longest octets whose octets *)
(* are all in Alphabet, as a set that can be compared with the parser.     *)
(***************************************************************************)
EXTENDS TlvForest

CONSTANTS Alphabet, Longest

\* The words of n octets of Alphabet.
Words(n) == [1 .. n -> Alphabet]

\* The number that the octets of w spell in base b, w[i] % b a digit.
Value(w, b) ==
  LET value[i \in 0 .. Len(w)] == IF i = 0 THEN 0 ELSE b * value[i - 1] + (w[i] % b)
  IN value[Len(w)]

\* The septets that may follow a first identifier octet with low bits 11111:
\* all but the last have bit 8 set, no padding, and a number of 31 or more.
HighTags ==
  { w \in UNION { Words(n) : n \in 1 .. Longest - 2 } :
      /\ \A i \in 1 .. Len(w) - 1 : w[i] >= 128
      /\ w[Len(w)] < 128
      /\ w[1] # 128
      /\ Value(w, 128) \in 31 .. TagMax }

Identifiers ==
  { <<b>> : b \in { a \in Alphabet : a % 32 # 31 } }
    \cup { <<b>> \o w : b \in { a \in Alphabet : a % 32 = 31 }, w \in HighTags }

IsConstructed(id) == (id[1] \div 32) % 2 = 1

\* The length octets that say n; only the shortest of them under DER.
Lengths(n, ruleset) ==
  IF ruleset = "der" /\ n < 128
  THEN { <<n>> } \cap Words(1)
  ELSE ({ w \in Words(1) : w[1] = n /\ n < 128 }
        \cup { <<128 + k>> \o w :
                 k \in { i \in 1 .. MaxLengthOctets : 128 + i \in Alphabet /\ i < Longest },
                 w \in UNION { Words(i) : i \in 1 .. MaxLengthOctets } })

\* Of those, the well-formed ones (the count of octets and their value agree).
LengthForms(n, ruleset) ==
  { l \in Lengths(n, ruleset) :
      Len(l) > 1 =>
        LET w == Tail(l)
        IN /\ l[1] = 128 + Len(w)
           /\ Value(w, 256) = n
           /\ ruleset = "der" => w[1] # 0 }

\* The three kinds of octet strings the grammar speaks of.  levels is how
\* much deeper elements may still nest.
Kinds == {"element", "contents", "marked"}

Primitives == { id \in Identifiers : ~ IsConstructed(id) }
Constructed == Identifiers \ Primitives

\* The words of n octets made of an identifier, length octets and contents,
\* and those with an indefinite length.
Definite(n, ids, lengths, bodies) ==
  { w \in { id \o l \o c : id \in ids, l \in lengths, c \in bodies } : Len(w) = n }
Indefinite(n, bodies) ==
  { w \in { id \o <<128>> \o c \o <<0, 0>> : id \in Constructed, c \in bodies } : Len(w) = n }

Strings(ruleset) ==
  LET string[kind \in Kinds, n \in 0 .. Longest, levels \in -1 .. MaxNesting] ==
        IF kind = "element"
        THEN IF levels = -1 THEN {}
             ELSE UNION { Definite(n, Primitives, LengthForms(m, ruleset), Words(m))
                            \cup Definite(n, Constructed, LengthForms(m, ruleset),
                                          string["contents", m, levels - 1])
                          : m \in 0 .. n - 2 }
                  \cup (IF ruleset = "der" \/ 128 \notin Alphabet THEN {}
                        ELSE UNION { Indefinite(n, string["marked", m, levels - 1])
                                     : m \in 0 .. n - 4 })
        ELSE IF n = 0 THEN { <<>> }
             ELSE UNION { { e \o c : e \in { f \in string["element", m, levels] :
                                               kind = "marked" => f[1] # 0 },
                                     c \in string[kind, n - m, levels] }
                          : m \in 2 .. n }
  IN string

\* What parse_rules and parse_all are to accept.
Single == [ruleset \in {"ber", "cer", "der"} |->
             UNION { Strings(ruleset)["element", n, MaxNesting] : n \in 0 .. Longest }]

Runs == UNION { Strings("ber")["contents", n, MaxNesting] : n \in 0 .. Longest }

Accepted(entry, ruleset) == IF entry = "parse_all" THEN Runs ELSE Single[ruleset]

=============================================================================
