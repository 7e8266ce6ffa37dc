--------------------------------- MODULE Pem ---------------------------------
(***************************************************************************)
(* pem_decode and pem_label of asn1-core/src/pem.rs.  pem_decode runs two  *)
(* loops over one iterator of lines: the outer one looks for a BEGIN line, *)
(* the inner one takes lines into the body until an END line or the end of *)
(* the text, and then the body is decoded.                                 *)
(*                                                                         *)
(* A line is a BEGIN or END line with its label, or a piece of a body; the *)
(* pieces are told apart by what they do to a base64 decode.               *)
(***************************************************************************)
EXTENDS Integers, Sequences, SequencesExt

CONSTANTS
  Labels,  \* the labels of BEGIN and END lines
  Texts    \* the texts pem_decode may be given

\* "quad": four characters of the alphabet, "half": two, "padded": two and
\* "==", "blank": an empty line, "junk": other characters.
Pieces == {"quad", "half", "padded", "blank", "junk"}

Lines == [kind : {"begin", "end"}, text : Labels] \cup [kind : {"body"}, text : Pieces]

ASSUME PemAssumption == Texts \subseteq Seq(Lines)

VARIABLES
  text,    \* the lines of the text
  next,    \* the line the iterator stands at
  pc,      \* the loop that runs: "outer", "inner", or "done"
  block,   \* the block being read: where it began, its label and body
  idx,     \* the index of the next block
  blocks   \* the blocks decoded so far

vars == <<text, next, pc, block, idx, blocks>>

NoBlock == [at |-> 0, label |-> "", body |-> <<>>]

OpenBlocks == [at : Nat, label : Labels \cup {""}, body : Seq(Pieces)]
PemBlocks == [idx : Nat, at : Nat, label : Labels, body : Seq(Pieces)]

TypeOK ==
  /\ text \in Seq(Lines)
  /\ next \in 1 .. Len(text) + 1
  /\ pc \in {"outer", "inner", "done"}
  /\ block \in OpenBlocks
  /\ idx \in Nat
  /\ blocks \in Seq(PemBlocks)

-----------------------------------------------------------------------------

AtEnd == next > Len(text)

IsBegin(line) == line.kind = "begin"
IsEnd(line) == line.kind = "end"

\* What a line adds to a body; a BEGIN line has characters base64 refuses.
Piece(line) == IF line.kind = "body" THEN line.text ELSE "junk"

\* STANDARD.decode(body): only characters of the alphabet, in groups of four,
\* padding at the end alone.
Decodable(body) ==
  LET pieces == SelectSeq(body, LAMBDA p : p # "blank")
  IN /\ \A k \in DOMAIN pieces : pieces[k] # "junk"
     /\ \A k \in DOMAIN pieces : pieces[k] = "padded" => k = Len(pieces)
     /\ Len(SelectSeq(pieces, LAMBDA p : p = "half")) % 2 = 0

Init ==
  /\ text \in Texts
  /\ next = 1
  /\ pc = "outer"
  /\ block = NoBlock
  /\ idx = 0
  /\ blocks = <<>>

SkipLine ==
  /\ pc = "outer" /\ ~ AtEnd
  /\ ~ IsBegin(text[next])
  /\ next' = next + 1
  /\ UNCHANGED <<text, pc, block, idx, blocks>>

\* Mutant of BeginBlock: the body of the block before is kept.
BeginBlockDirty ==
  /\ pc = "outer" /\ ~ AtEnd
  /\ IsBegin(text[next])
  /\ block' = [at |-> next, label |-> text[next].text, body |-> block.body]
  /\ next' = next + 1
  /\ pc' = "inner"
  /\ UNCHANGED <<text, idx, blocks>>

\* Mutant of BeginBlock: a BEGIN line is read again by the inner loop.
BeginBlockPeeked ==
  /\ pc = "outer" /\ ~ AtEnd
  /\ IsBegin(text[next])
  /\ block' = [at |-> next, label |-> text[next].text, body |-> <<>>]
  /\ pc' = "inner"
  /\ UNCHANGED <<text, next, idx, blocks>>

BeginBlock ==
  /\ pc = "outer" /\ ~ AtEnd
  /\ IsBegin(text[next])
  /\ block' = [at |-> next, label |-> text[next].text, body |-> <<>>]
  /\ next' = next + 1
  /\ pc' = "inner"
  /\ UNCHANGED <<text, idx, blocks>>

\* Mutant of BodyLine: at a blank line the iterator is peeked at, not advanced.
BodyLineStuck ==
  /\ pc = "inner" /\ ~ AtEnd
  /\ ~ IsEnd(text[next])
  /\ IF text[next].text = "blank"
     THEN UNCHANGED <<next, block>>
     ELSE /\ block' = [block EXCEPT !.body = Append(@, Piece(text[next]))]
          /\ next' = next + 1
  /\ UNCHANGED <<text, pc, idx, blocks>>

BodyLine ==
  /\ pc = "inner" /\ ~ AtEnd
  /\ ~ IsEnd(text[next])
  /\ block' = [block EXCEPT !.body = Append(@, Piece(text[next]))]
  /\ next' = next + 1
  /\ UNCHANGED <<text, pc, idx, blocks>>

\* Mutant of Decode: a block that is skipped takes an index.
DecodeCounting ==
  /\ blocks' = IF Decodable(block.body)
               THEN Append(blocks, [idx |-> idx, at |-> block.at,
                                    label |-> block.label, body |-> block.body])
               ELSE blocks
  /\ idx' = idx + 1
  /\ pc' = "outer"
  /\ UNCHANGED <<text, block>>

\* A block whose body does not decode is skipped and takes no index.
Decode ==
  /\ blocks' = IF Decodable(block.body)
               THEN Append(blocks, [idx |-> idx, at |-> block.at,
                                    label |-> block.label, body |-> block.body])
               ELSE blocks
  /\ idx' = IF Decodable(block.body) THEN idx + 1 ELSE idx
  /\ pc' = "outer"
  /\ UNCHANGED <<text, block>>

\* Any END line closes the block, whatever label it has.
EndLine ==
  /\ pc = "inner" /\ ~ AtEnd
  /\ IsEnd(text[next])
  /\ next' = next + 1
  /\ Decode

\* Mutant of EndOfText: the iterator is asked for one more line.
EndOfTextTwice ==
  /\ pc = "inner" /\ AtEnd
  /\ next' = next + 1
  /\ Decode

\* So does the end of the text.
EndOfText ==
  /\ pc = "inner" /\ AtEnd
  /\ UNCHANGED next
  /\ Decode

Finish ==
  /\ pc = "outer" /\ AtEnd
  /\ pc' = "done"
  /\ UNCHANGED <<text, next, block, idx, blocks>>

Next == SkipLine \/ BeginBlock \/ BodyLine \/ EndLine \/ EndOfText \/ Finish

\* One thread: it keeps taking its next step.
Spec == Init /\ [][Next]_vars /\ WF_vars(Next)

\* pem_label: the label of the first BEGIN line, "" for None.
PemLabel ==
  LET first == SelectInSeq(text, IsBegin)
  IN IF first = 0 THEN "" ELSE text[first].text

-----------------------------------------------------------------------------
(* Properties *)

(* The rows of pem_decode are numbered from 0 without gaps although blocks  *)
(* may be skipped, and come in the order of the text.                       *)
BlocksAreNumbered ==
  /\ idx = Len(blocks)
  /\ \A k \in DOMAIN blocks :
       /\ blocks[k].idx = k - 1
       /\ k > 1 => blocks[k - 1].at < blocks[k].at

\* The first END line after line i, or one past the last line.
ClosedAt(i) ==
  CHOOSE j \in i + 1 .. Len(text) + 1 :
    /\ j <= Len(text) => IsEnd(text[j])
    /\ \A l \in i + 1 .. j - 1 : ~ IsEnd(text[l])

BodyAt(i) == [k \in 1 .. ClosedAt(i) - i - 1 |-> Piece(text[i + k])]

(* No line is taken twice: a block's body is the lines between its BEGIN    *)
(* line and the END line that closes it, it decodes, and no block begins    *)
(* before the one before it is closed.                                      *)
BlocksAreApart ==
  \A k \in DOMAIN blocks :
    /\ IsBegin(text[blocks[k].at]) /\ blocks[k].label = text[blocks[k].at].text
    /\ blocks[k].body = BodyAt(blocks[k].at)
    /\ Decodable(blocks[k].body)
    /\ ClosedAt(blocks[k].at) <= next
    /\ k > 1 => ClosedAt(blocks[k - 1].at) < blocks[k].at

\* Every block of the text is closed before the next one begins.
Bracketed ==
  \A i \in DOMAIN text :
    IsBegin(text[i]) => \A l \in i + 1 .. ClosedAt(i) - 1 : ~ IsBegin(text[l])

(* Of a text whose blocks are closed, no block that decodes is lost,        *)
(* whatever stands between the blocks and whatever their END lines say; and *)
(* pem_label names the first of them, if the first one decodes.             *)
BundlesAreSplit ==
  pc = "done" /\ Bracketed =>
    LET begins == { i \in DOMAIN text : IsBegin(text[i]) }
    IN /\ { blocks[k].at : k \in DOMAIN blocks }
            = { i \in begins : Decodable(BodyAt(i)) }
       /\ \A k \in DOMAIN blocks :
            (\A i \in begins : blocks[k].at <= i) => PemLabel = blocks[k].label

(* pem_decode answers for every text.                                       *)
Termination == <>(pc = "done")

=============================================================================
