------------------------------ MODULE PemProofs ------------------------------
(***************************************************************************)
(* Theorems about the splitting of PEM bundles, for all labels and texts.  *)
(***************************************************************************)
EXTENDS Pem, TLAPS

\* Line j is the first END line after line i, or one past the last line.
Closes(i, j) ==
  /\ j \in i + 1 .. Len(text) + 1
  /\ j <= Len(text) => IsEnd(text[j])
  /\ \A l \in i + 1 .. j - 1 : ~ IsEnd(text[l])

\* The pieces of the lines between line i and line j.
Between(i, j) == [k \in 1 .. j - i - 1 |-> Piece(text[i + k])]

\* Finished block k ends at line j: before the next block, the one being read
\* or, while none is, before the line the iterator stands at.
Extent(k, j) ==
  /\ Closes(blocks[k].at, j) /\ j <= next
  /\ blocks[k].body = Between(blocks[k].at, j)
  /\ k < Len(blocks) => j < blocks[k + 1].at
  /\ k = Len(blocks) /\ pc = "inner" => j < block.at
  /\ k = Len(blocks) /\ pc # "inner" => j < next \/ AtEnd

BlockInv(k) ==
  /\ blocks[k].idx = k - 1
  /\ blocks[k].at \in DOMAIN text
  /\ IsBegin(text[blocks[k].at]) /\ blocks[k].label = text[blocks[k].at].text
  /\ Decodable(blocks[k].body)
  /\ \E j \in Nat : Extent(k, j)

\* What the inner loop knows: the lines since the BEGIN line are its body.
InnerInv ==
  pc = "inner" =>
    /\ block.at \in 1 .. next - 1
    /\ IsBegin(text[block.at]) /\ block.label = text[block.at].text
    /\ block.body = Between(block.at, next)
    /\ \A l \in block.at + 1 .. next - 1 : ~ IsEnd(text[l])

IInv ==
  /\ TypeOK
  /\ idx = Len(blocks)
  /\ \A k \in DOMAIN blocks : BlockInv(k)
  /\ InnerInv

-----------------------------------------------------------------------------

LEMMA ClosedAtIs ==
  ASSUME NEW i \in Nat, NEW j \in Nat, Closes(i, j), text \in Seq(Lines)
  PROVE  ClosedAt(i) = j
<1>1. ASSUME NEW m \in i + 1 .. Len(text) + 1, Closes(i, m) PROVE m = j
  <2>1. CASE m < j
    <3>1. m \in i + 1 .. j - 1 /\ m <= Len(text) BY <2>1 DEF Closes
    <3> QED BY <3>1, <1>1 DEF Closes
  <2>2. CASE j < m
    <3>1. j \in i + 1 .. m - 1 /\ j <= Len(text) BY <2>2, <1>1 DEF Closes
    <3> QED BY <3>1, <1>1 DEF Closes
  <2>3. j \in Nat /\ m \in Nat BY DEF Closes
  <2> QED BY <2>1, <2>2, <2>3
<1> QED BY <1>1 DEF ClosedAt, Closes

\* A line has a kind, and its piece is one a body may hold.
LEMMA LineFacts ==
  ASSUME TypeOK, ~ AtEnd
  PROVE  /\ next \in DOMAIN text /\ text[next] \in Lines
         /\ Piece(text[next]) \in Pieces
         /\ IsBegin(text[next]) => text[next].text \in Labels
         /\ IsBegin(text[next]) => ~ IsEnd(text[next])
<1>1. next \in DOMAIN text /\ text[next] \in Lines
  BY DEF TypeOK, AtEnd
<1>2. CASE text[next] \in [kind : {"begin", "end"}, text : Labels]
  BY <1>1, <1>2 DEF Piece, Pieces, IsBegin, IsEnd
<1>3. CASE text[next] \in [kind : {"body"}, text : Pieces]
  BY <1>1, <1>3 DEF Piece, IsBegin, IsEnd
<1> QED BY <1>1, <1>2, <1>3 DEF Lines

\* Steps that finish no block leave the finished ones as they are.
LEMMA BlocksStay ==
  ASSUME IInv, UNCHANGED <<text, blocks>>, next' \in Nat, next <= next',
         pc' = "inner" /\ pc = "inner" => block'.at = block.at,
         pc' = "inner" /\ pc # "inner" => block'.at = next /\ ~ AtEnd,
         pc = "inner" => pc' = "inner",
         NEW k \in DOMAIN blocks
  PROVE  BlockInv(k)'
<1>1. PICK j \in Nat : Extent(k, j)
  BY DEF IInv, BlockInv
<1>2. Extent(k, j)'
  BY <1>1 DEF IInv, TypeOK, Extent, Closes, Between, AtEnd
<1> QED BY <1>2 DEF IInv, BlockInv

\* An open block is its three parts.
LEMMA OpenBlockIs ==
  ASSUME NEW a \in Nat, NEW l \in Labels \cup {""}, NEW b \in Seq(Pieces)
  PROVE  [at |-> a, label |-> l, body |-> b] \in OpenBlocks
BY DEF OpenBlocks

LEMMA OpenBlockHas ==
  ASSUME NEW o \in OpenBlocks
  PROVE  /\ o = [at |-> o.at, label |-> o.label, body |-> o.body]
         /\ o.at \in Nat /\ o.label \in Labels \cup {""} /\ o.body \in Seq(Pieces)
BY DEF OpenBlocks

LEMMA SkipLineInv == ASSUME IInv, SkipLine PROVE IInv'
<1>1. TypeOK'
  BY DEF IInv, TypeOK, SkipLine, AtEnd
<1>2. \A k \in DOMAIN blocks' : BlockInv(k)'
  BY BlocksStay DEF SkipLine, IInv, TypeOK
<1> QED BY <1>1, <1>2 DEF IInv, SkipLine, InnerInv

LEMMA BeginBlockInv == ASSUME IInv, BeginBlock PROVE IInv'
<1>0. TypeOK /\ ~ AtEnd
  BY DEF IInv, BeginBlock
<1>1. TypeOK'
  <2>1. block' \in OpenBlocks
    <3>1. next \in Nat /\ text[next].text \in Labels
      <4>1. IsBegin(text[next]) BY DEF BeginBlock
      <4>2. next \in Nat BY <1>0 DEF TypeOK
      <4> QED BY <1>0, <4>1, <4>2, LineFacts
    <3>2. <<>> \in Seq(Pieces) OBVIOUS
    <3>3. text[next].text \in Labels \cup {""} BY <3>1
    <3>4. [at |-> next, label |-> text[next].text, body |-> <<>>] \in OpenBlocks
      BY <3>1, <3>2, <3>3, OpenBlockIs
    <3> QED BY <3>4 DEF BeginBlock
  <2> QED BY <2>1 DEF IInv, TypeOK, BeginBlock, AtEnd
<1>2. \A k \in DOMAIN blocks' : BlockInv(k)'
  BY BlocksStay DEF BeginBlock, IInv, TypeOK
<1>3. InnerInv'
  BY <1>0 DEF InnerInv, BeginBlock, Between, TypeOK
<1> QED BY <1>1, <1>2, <1>3 DEF IInv, BeginBlock

\* One more line lies between two lines when the second moves on.
LEMMA BetweenGrows ==
  ASSUME NEW i \in Nat, NEW j \in Nat, i < j
  PROVE  Append(Between(i, j), Piece(text[j])) = Between(i, j + 1)
<1> DEFINE n == j - i - 1
<1> DEFINE T == { Piece(text[i + k]) : k \in 1 .. n + 1 }
<1>1. n \in Nat /\ j = i + (n + 1) /\ (j + 1) - i - 1 = n + 1
  OBVIOUS
<1>2. Between(i, j) \in Seq(T) /\ Len(Between(i, j)) = n
  BY <1>1 DEF Between
<1>3. Piece(text[j]) \in T
  BY <1>1
<1> QED BY <1>1, <1>2, <1>3 DEF Between

LEMMA BodyLineInv == ASSUME IInv, BodyLine PROVE IInv'
<1>0. TypeOK /\ ~ AtEnd
  BY DEF IInv, BodyLine
<1>1. TypeOK'
  <2>1. block' \in OpenBlocks
    <3>1. Piece(text[next]) \in Pieces BY <1>0, LineFacts
    <3>2. block \in OpenBlocks BY <1>0 DEF TypeOK
    <3>3. Append(block.body, Piece(text[next])) \in Seq(Pieces)
      <4>1. block.body \in Seq(Pieces) BY <3>2, OpenBlockHas
      <4> QED BY <3>1, <4>1
    <3> QED BY <3>2, <3>3 DEF BodyLine, OpenBlocks
  <2> QED BY <2>1 DEF IInv, TypeOK, BodyLine, AtEnd
<1>2. block'.at = block.at
  BY <1>0 DEF BodyLine, TypeOK, OpenBlocks
<1>3. \A k \in DOMAIN blocks' : BlockInv(k)'
  BY <1>2, BlocksStay DEF BodyLine, IInv, TypeOK
<1>4. InnerInv'
  <2>1. /\ pc = "inner" /\ InnerInv /\ next \in Nat
        /\ block \in OpenBlocks /\ block.at \in Nat
    <3>1. pc = "inner" /\ InnerInv BY DEF IInv, BodyLine
    <3>2. block \in OpenBlocks /\ next \in Nat BY <1>0 DEF TypeOK
    <3> QED BY <3>1, <3>2, OpenBlockHas
  <2>2. block'.body = Append(Between(block.at, next), Piece(text[next]))
    BY <2>1 DEF BodyLine, InnerInv, OpenBlocks
  <2>3. block'.body = Between(block.at, next + 1)
    <3>1. block.at < next BY <2>1 DEF InnerInv
    <3> HIDE DEF Between
    <3> QED BY <2>1, <2>2, <3>1, BetweenGrows
  <2>4. block'.label = block.label
    BY <1>0 DEF BodyLine, TypeOK, OpenBlocks
  <2> QED BY <1>0, <1>2, <2>1, <2>3, <2>4, SMTT(30) DEF InnerInv, BodyLine, Between
<1> QED BY <1>1, <1>3, <1>4 DEF IInv, BodyLine

\* The end of a block, by an END line or by the end of the text.
LEMMA DecodeInv ==
  ASSUME IInv, pc = "inner", Decode, Closes(block.at, next),
         next' \in {next, next + 1}, next' \in 1 .. Len(text) + 1,
         next' = next => AtEnd
  PROVE  IInv'
<1> USE DEF Decode
<1>0. TypeOK /\ InnerInv /\ text' = text /\ block' = block /\ idx = Len(blocks)
  BY DEF IInv
<1>1. CASE ~ Decodable(block.body)
  <2>1. TypeOK' BY <1>0, <1>1 DEF TypeOK
  <2>2. ASSUME NEW k \in DOMAIN blocks PROVE BlockInv(k)'
    <3>1. PICK j \in Nat : Extent(k, j)
      BY <2>2 DEF IInv, BlockInv
    <3>2. Extent(k, j)'
      BY <3>1, <1>0, <1>1 DEF IInv, TypeOK, Extent, Closes, Between, AtEnd, InnerInv
    <3> QED BY <3>2, <1>0, <1>1, <2>2 DEF IInv, BlockInv
  <2> QED BY <2>1, <2>2, <1>0, <1>1 DEF IInv, InnerInv
<1>2. CASE Decodable(block.body)
  <2> DEFINE new == [idx |-> idx, at |-> block.at, label |-> block.label, body |-> block.body]
  <2>1. new \in PemBlocks
    <3>1. text[block.at] \in Lines
      BY <1>0 DEF TypeOK, InnerInv
    <3>2. block.label \in Labels
      BY <1>0, <3>1 DEF InnerInv, IsBegin, Lines
    <3> QED BY <1>0, <3>2 DEF TypeOK, OpenBlocks, PemBlocks
  <2>2. blocks' = Append(blocks, new) /\ idx' = idx + 1
    BY <1>2
  <2>3. TypeOK' BY <1>0, <2>1, <2>2 DEF TypeOK
  <2>4. /\ Len(blocks') = Len(blocks) + 1 /\ blocks'[Len(blocks) + 1] = new
        /\ \A k \in DOMAIN blocks : blocks'[k] = blocks[k]
        /\ \A k \in DOMAIN blocks' : k \in DOMAIN blocks \/ k = Len(blocks) + 1
    BY <2>1, <2>2, <1>0 DEF TypeOK
  <2>5. ASSUME NEW k \in DOMAIN blocks PROVE BlockInv(k)'
    <3>1. PICK j \in Nat : Extent(k, j)
      BY <2>5 DEF IInv, BlockInv
    <3>2. Extent(k, j)'
      <4>1. k < Len(blocks) => k + 1 \in DOMAIN blocks
        BY <2>5, <1>0 DEF TypeOK
      <4>2. k = Len(blocks) => j < blocks'[k + 1].at
        BY <3>1, <2>4 DEF Extent
      <4>3. k < Len(blocks') => j < blocks'[k + 1].at
        BY <3>1, <2>4, <2>5, <4>1, <4>2, <1>0 DEF Extent, TypeOK
      <4>4. k \in Nat /\ Len(blocks) \in Nat /\ k <= Len(blocks)
        BY <2>5, <1>0 DEF TypeOK
      <4> QED BY <3>1, <2>4, <2>5, <4>3, <4>4, <1>0 DEF Extent, Closes, Between, TypeOK
    <3> QED BY <3>2, <2>4, <2>5, <1>0 DEF IInv, BlockInv
  <2>6. PICK n \in Nat : n = Len(blocks) + 1
    BY <1>0 DEF TypeOK
  <2>7. BlockInv(n)'
    <3>1. PICK m \in Nat : m = next
      BY <1>0 DEF TypeOK
    <3>2. block \in OpenBlocks /\ block.at \in Nat /\ block.at \in DOMAIN text
      <4>1. block \in OpenBlocks BY <1>0 DEF TypeOK
      <4>2. block.at \in DOMAIN text BY <1>0 DEF TypeOK, InnerInv
      <4> QED BY <4>1, <4>2, OpenBlockHas
    <3>3. /\ blocks'[n].idx = n - 1 /\ blocks'[n].at = block.at
          /\ blocks'[n].label = block.label /\ blocks'[n].body = block.body
      BY <2>4, <2>6, <1>0
    <3>4. IsBegin(text[block.at]) /\ block.label = text[block.at].text
      BY <1>0 DEF InnerInv
    <3>5. block.body = Between(block.at, m)
      BY <3>1, <1>0 DEF InnerInv
    <3>6. Closes(block.at, m)
      BY <3>1
    <3>7. m <= next' /\ (m < next' \/ AtEnd') /\ ~ n < Len(blocks') /\ pc' # "inner"
      BY <3>1, <2>4, <2>6, <1>0 DEF AtEnd, TypeOK
    <3>8. Extent(n, m)'
      BY <3>3, <3>5, <3>6, <3>7, <1>0 DEF Extent, Closes, Between
    <3> QED BY <3>2, <3>3, <3>4, <3>8, <1>0, <1>2 DEF BlockInv
  <2>8. idx' = Len(blocks') /\ pc' = "outer"
    BY <2>2, <2>4, <1>0
  <2>9. \A k \in DOMAIN blocks' : BlockInv(k)'
    BY <2>4, <2>5, <2>6, <2>7
  <2> QED BY <2>3, <2>8, <2>9 DEF IInv, InnerInv
<1> QED BY <1>1, <1>2

LEMMA EndLineInv == ASSUME IInv, EndLine PROVE IInv'
<1>1. TypeOK /\ InnerInv /\ ~ AtEnd /\ pc = "inner"
  BY DEF IInv, EndLine
<1>2. Closes(block.at, next)
  BY <1>1 DEF EndLine, Closes, InnerInv, TypeOK, AtEnd
<1> QED BY <1>1, <1>2, DecodeInv DEF EndLine, TypeOK, AtEnd

LEMMA EndOfTextInv == ASSUME IInv, EndOfText PROVE IInv'
<1>1. TypeOK /\ InnerInv /\ AtEnd /\ pc = "inner"
  BY DEF IInv, EndOfText
<1>2. Closes(block.at, next)
  BY <1>1 DEF EndOfText, Closes, InnerInv, TypeOK, AtEnd
<1> QED BY <1>1, <1>2, DecodeInv DEF EndOfText, TypeOK, AtEnd

LEMMA FinishInv == ASSUME IInv, Finish PROVE IInv'
<1>1. TypeOK'
  BY DEF IInv, TypeOK, Finish
<1>2. \A k \in DOMAIN blocks' : BlockInv(k)'
  BY BlocksStay DEF Finish, IInv, TypeOK
<1> QED BY <1>1, <1>2 DEF IInv, Finish, InnerInv

LEMMA InitInv == Init => IInv
<1> SUFFICES ASSUME Init PROVE IInv
  OBVIOUS
<1>1. text \in Seq(Lines) /\ Len(text) \in Nat
  BY PemAssumption DEF Init
<1>2. next \in 1 .. Len(text) + 1
  BY <1>1 DEF Init
<1>3. block \in OpenBlocks
  <2>1. <<>> \in Seq(Pieces) OBVIOUS
  <2> QED BY <2>1, OpenBlockIs DEF Init, NoBlock
<1>4. TypeOK
  BY <1>1, <1>2, <1>3 DEF Init, TypeOK
<1> QED BY <1>4 DEF Init, IInv, InnerInv

LEMMA StutterInv == ASSUME IInv, UNCHANGED vars PROVE IInv'
<1>1. TypeOK' BY DEF vars, IInv, TypeOK
<1>2. ASSUME NEW k \in DOMAIN blocks' PROVE BlockInv(k)'
  BY <1>2, ZenonT(30) DEF vars, IInv, BlockInv, Extent, Closes, Between, AtEnd
<1> QED BY <1>1, <1>2 DEF vars, IInv, InnerInv, Between

LEMMA NextInv == IInv /\ [Next]_vars => IInv'
BY SkipLineInv, BeginBlockInv, BodyLineInv, EndLineInv, EndOfTextInv, FinishInv, StutterInv
   DEF Next

THEOREM Invariance == Spec => []IInv
BY InitInv, NextInv, PTL DEF Spec

(* The parts of a block, and the indices of the rows, have their types.     *)
THEOREM TypeCorrect == Spec => []TypeOK
<1>1. IInv => TypeOK BY DEF IInv
<1> QED BY <1>1, Invariance, PTL

(* A finished block ends where its first END line stands.                   *)
LEMMA ExtentIsClosedAt ==
  ASSUME IInv, NEW k \in DOMAIN blocks, NEW j \in Nat, Extent(k, j)
  PROVE  /\ ClosedAt(blocks[k].at) = j
         /\ blocks[k].at \in Nat /\ blocks[k].at < j
<1>1. blocks[k] \in PemBlocks /\ text \in Seq(Lines)
  BY DEF IInv, TypeOK
<1>2. blocks[k].at \in Nat
  BY <1>1 DEF PemBlocks
<1>3. Closes(blocks[k].at, j)
  BY DEF Extent
<1>4. blocks[k].at < j
  BY <1>2, <1>3 DEF Closes
<1> QED BY <1>1, <1>2, <1>3, <1>4, ClosedAtIs

(* The indices of pem_decode's rows count from 0 without gaps, and the rows *)
(* come in the order of the text, however many blocks are skipped.          *)
THEOREM NumberedBlocks == Spec => []BlocksAreNumbered
<1>1. ASSUME IInv PROVE BlocksAreNumbered
  <2>1. ASSUME NEW k \in DOMAIN blocks, k > 1 PROVE blocks[k - 1].at < blocks[k].at
    <3>1. k - 1 \in DOMAIN blocks /\ k - 1 < Len(blocks)
      BY <1>1, <2>1 DEF IInv, TypeOK
    <3>2. PICK j \in Nat : Extent(k - 1, j)
      BY <1>1, <3>1 DEF IInv, BlockInv
    <3>3. j < blocks[k].at
      BY <3>1, <3>2, <2>1, <1>1 DEF Extent, IInv, TypeOK
    <3>4. blocks[k].at \in Nat
      <4>1. blocks[k] \in PemBlocks BY <1>1, <2>1 DEF IInv, TypeOK
      <4> QED BY <4>1 DEF PemBlocks
    <3> QED BY <3>1, <3>2, <3>3, <3>4, <1>1, ExtentIsClosedAt
  <2> QED BY <1>1, <2>1 DEF BlocksAreNumbered, IInv, BlockInv
<1> QED BY <1>1, Invariance, PTL

(* No line is in two blocks: a block is the lines from its BEGIN line to    *)
(* the first END line after it, and the next block begins after that.       *)
THEOREM BlocksApart == Spec => []BlocksAreApart
<1>1. ASSUME IInv, NEW k \in DOMAIN blocks
      PROVE  /\ IsBegin(text[blocks[k].at]) /\ blocks[k].label = text[blocks[k].at].text
             /\ blocks[k].body = BodyAt(blocks[k].at)
             /\ Decodable(blocks[k].body)
             /\ ClosedAt(blocks[k].at) <= next
             /\ k > 1 => ClosedAt(blocks[k - 1].at) < blocks[k].at
  <2>1. PICK j \in Nat : Extent(k, j)
    BY <1>1 DEF IInv, BlockInv
  <2>2. ClosedAt(blocks[k].at) = j
    BY <1>1, <2>1, ExtentIsClosedAt
  <2>3. ASSUME k > 1 PROVE ClosedAt(blocks[k - 1].at) < blocks[k].at
    <3>1. k - 1 \in DOMAIN blocks /\ k - 1 < Len(blocks)
      BY <1>1, <2>3 DEF IInv, TypeOK
    <3>2. PICK m \in Nat : Extent(k - 1, m)
      BY <1>1, <3>1 DEF IInv, BlockInv
    <3>3. m < blocks[k].at
      BY <3>1, <3>2, <1>1 DEF Extent, IInv, TypeOK
    <3> QED BY <3>1, <3>2, <3>3, <1>1, ExtentIsClosedAt
  <2> QED BY <1>1, <2>1, <2>2, <2>3 DEF IInv, BlockInv, Extent, Between, BodyAt
<1>2. IInv => BlocksAreApart
  BY <1>1 DEF BlocksAreApart
<1> QED BY <1>2, Invariance, PTL

-----------------------------------------------------------------------------
\* Nothing is lost.

\* Where the outer loop stands: the blocks that begin before it are finished.
Reached == IF pc = "inner" THEN block.at ELSE next

\* Line i begins a block that should have a row.
Due(i) == i \in DOMAIN text /\ IsBegin(text[i]) /\ Decodable(BodyAt(i))

HasRow(i) == \E k \in DOMAIN blocks : blocks[k].at = i

RowInv ==
  /\ IInv
  /\ pc = "done" => AtEnd
  /\ Bracketed => \A i \in Nat : Due(i) /\ i < Reached => HasRow(i)

\* Steps that change neither the text nor the rows lose none, if the line they
\* pass begins no block.
LEMMA RowsStay ==
  ASSUME RowInv, IInv', UNCHANGED <<text, blocks>>, pc' = "done" => AtEnd',
         \A i \in Nat : Due(i) /\ i < Reached' => i < Reached
  PROVE  RowInv'
<1>1. Bracketed' <=> Bracketed BY DEF Bracketed, ClosedAt
<1>2. \A i : HasRow(i)' <=> HasRow(i) BY DEF HasRow
<1>3. \A i : Due(i)' <=> Due(i) BY DEF Due, BodyAt, ClosedAt
<1> QED BY <1>1, <1>2, <1>3 DEF RowInv

\* The end of a block gives it its row, if it should have one; and a text in
\* which blocks are closed has no BEGIN line between its own and its end.
LEMMA DecodeKeepsRows ==
  ASSUME RowInv, IInv', pc = "inner", Decode, Closes(block.at, next),
         next' \in {next, next + 1}, next' = next + 1 => IsEnd(text[next]) /\ ~ AtEnd
  PROVE  RowInv'
<1>1. /\ text' = text /\ pc' = "outer" /\ text \in Seq(Lines) /\ next \in Nat
      /\ block.at \in 1 .. next - 1 /\ block.at \in Nat
      /\ block.body = Between(block.at, next) /\ IsBegin(text[block.at])
      /\ block.at \in DOMAIN text /\ blocks \in Seq(PemBlocks)
  BY DEF RowInv, IInv, TypeOK, InnerInv, Decode
<1>2. ClosedAt(block.at) = next BY <1>1, ClosedAtIs
<1>3. BodyAt(block.at) = block.body BY <1>1, <1>2 DEF BodyAt, Between
<1>4. \A k \in DOMAIN blocks : k \in DOMAIN blocks' /\ blocks'[k] = blocks[k]
  <2> DEFINE new == [idx |-> idx, at |-> block.at, label |-> block.label, body |-> block.body]
  <2>1. blocks' = blocks \/ blocks' = Append(blocks, new) BY DEF Decode
  <2> HIDE DEF new
  <2> QED BY <1>1, <2>1
<1>5. Decodable(block.body) => HasRow(block.at)'
  <2> SUFFICES ASSUME Decodable(block.body) PROVE HasRow(block.at)'
    OBVIOUS
  <2> DEFINE new == [idx |-> idx, at |-> block.at, label |-> block.label, body |-> block.body]
  <2>1. blocks' = Append(blocks, new) /\ block' = block BY DEF Decode
  <2>2. new.at = block.at OBVIOUS
  <2> HIDE DEF new
  <2>3. Len(blocks) + 1 \in DOMAIN blocks' /\ blocks'[Len(blocks) + 1] = new BY <1>1, <2>1
  <2> QED BY <2>1, <2>2, <2>3 DEF HasRow
<1>6. Bracketed' <=> Bracketed BY <1>1 DEF Bracketed, ClosedAt
<1>7. \A i : Due(i)' <=> Due(i) BY <1>1 DEF Due, BodyAt, ClosedAt
<1>8. ASSUME Bracketed, NEW i \in Nat, Due(i), i < Reached' PROVE HasRow(i)'
  <2>1. i < next' BY <1>1, <1>8 DEF Reached
  <2>2. CASE i < block.at
    <3>1. HasRow(i) BY <1>8, <2>2 DEF RowInv, Reached
    <3> QED BY <1>4, <3>1 DEF HasRow
  <2>3. CASE i = block.at
    <3>1. Decodable(block.body) BY <1>3, <1>8, <2>3 DEF Due
    <3>2. block' = block BY DEF Decode
    <3> QED BY <1>5, <2>3, <3>1, <3>2 DEF HasRow
  <2>4. CASE i \in block.at + 1 .. next - 1
    <3>1. ~ IsBegin(text[i]) BY <1>1, <1>2, <1>8, <2>4 DEF Bracketed
    <3> QED BY <1>8, <3>1 DEF Due
  <2>5. CASE i = next
    <3>1. IsEnd(text[next]) BY <1>1, <2>1, <2>5
    <3> QED BY <1>8, <2>5, <3>1 DEF Due, IsBegin, IsEnd
  <2> QED BY <1>1, <2>1, <2>2, <2>3, <2>4, <2>5
<1> QED BY <1>1, <1>6, <1>7, <1>8 DEF RowInv

LEMMA RowInvStep == RowInv /\ [Next]_vars => RowInv'
<1> SUFFICES ASSUME RowInv, [Next]_vars PROVE RowInv'
  OBVIOUS
<1>0. IInv' BY NextInv DEF RowInv
<1>1. /\ IInv /\ TypeOK /\ InnerInv /\ text \in Seq(Lines) /\ next \in Nat
  BY DEF RowInv, IInv, TypeOK
<1>2. CASE SkipLine
  <2>1. Reached = next /\ Reached' = next + 1 /\ ~ IsBegin(text[next]) BY <1>2 DEF SkipLine, Reached
  <2>2. \A i \in Nat : Due(i) /\ i < Reached' => i < Reached BY <1>1, <2>1 DEF Due
  <2> QED BY <1>0, <1>2, <2>2, RowsStay DEF SkipLine
<1>3. CASE BeginBlock
  <2>1. Reached = next /\ Reached' = next BY <1>3 DEF BeginBlock, Reached
  <2> QED BY <1>0, <1>3, <2>1, RowsStay DEF BeginBlock
<1>4. CASE BodyLine
  <2>1. block \in OpenBlocks BY <1>1 DEF TypeOK
  <2>2. block'.at = block.at BY <1>4, <2>1 DEF BodyLine, OpenBlocks
  <2>3. Reached' = Reached BY <1>4, <2>2 DEF BodyLine, Reached
  <2> QED BY <1>0, <1>4, <2>3, RowsStay DEF BodyLine
<1>5. CASE EndLine
  <2>1. Closes(block.at, next)
    BY <1>1, <1>5 DEF EndLine, Closes, InnerInv, TypeOK, AtEnd
  <2> QED BY <1>0, <1>5, <2>1, DecodeKeepsRows DEF EndLine
<1>6. CASE EndOfText
  <2>1. Closes(block.at, next)
    BY <1>1, <1>6 DEF EndOfText, Closes, InnerInv, TypeOK, AtEnd
  <2> QED BY <1>0, <1>1, <1>6, <2>1, DecodeKeepsRows DEF EndOfText
<1>7. CASE Finish
  <2>1. Reached' = Reached /\ AtEnd' BY <1>7 DEF Finish, Reached, AtEnd
  <2> QED BY <1>0, <1>7, <2>1, RowsStay DEF Finish
<1>8. CASE UNCHANGED vars
  <2>1. Reached' = Reached /\ (AtEnd' <=> AtEnd) BY <1>8 DEF vars, Reached, AtEnd
  <2>2. pc' = "done" => AtEnd' BY <1>8, <2>1 DEF vars, RowInv
  <2> QED BY <1>0, <1>8, <2>1, <2>2, RowsStay DEF vars
<1> QED BY <1>2, <1>3, <1>4, <1>5, <1>6, <1>7, <1>8 DEF Next

LEMMA RowInvInit == Init => RowInv
<1> SUFFICES ASSUME Init PROVE RowInv
  OBVIOUS
<1>1. pc = "outer" /\ Reached = 1 BY DEF Init, Reached
<1>2. \A i \in Nat : Due(i) => i >= 1
  <2>1. text \in Seq(Lines) BY PemAssumption DEF Init
  <2> QED BY <2>1 DEF Due
<1> QED BY <1>1, <1>2, InitInv DEF RowInv

\* The label of the first BEGIN line is the one pem_label finds.
LEMMA LabelIs ==
  ASSUME text \in Seq(Lines), NEW i \in DOMAIN text, IsBegin(text[i]),
         \A j \in DOMAIN text : IsBegin(text[j]) => i <= j
  PROVE  PemLabel = text[i].text
<1> DEFINE I == { j \in 1 .. Len(text) : IsBegin(text[j]) }
<1>1. i \in I /\ (\A j \in I : i <= j) /\ I \subseteq Nat OBVIOUS
<1> HIDE DEF I
<1>2. Min(I) = i
  <2>1. \A m \in I : (\A j \in I : m <= j) => m = i BY <1>1
  <2> QED BY <1>1, <2>1 DEF Min
<1>3. SelectInSeq(text, IsBegin) = i BY <1>1, <1>2 DEF SelectInSeq, I
<1>4. i # 0 OBVIOUS
<1> QED BY <1>3, <1>4 DEF PemLabel

(* Of a text whose blocks are closed, every block that decodes has a row,   *)
(* and the rows have no others; pem_label names the first, if it decodes.   *)
THEOREM BundlesSplit == Spec => []BundlesAreSplit
<1>1. Spec => []RowInv BY RowInvInit, RowInvStep, PTL DEF Spec
<1>2. ASSUME RowInv, BlocksAreApart PROVE BundlesAreSplit
  <2> SUFFICES ASSUME pc = "done", Bracketed
               PROVE  LET begins == { i \in DOMAIN text : IsBegin(text[i]) }
                      IN /\ { blocks[k].at : k \in DOMAIN blocks }
                              = { i \in begins : Decodable(BodyAt(i)) }
                         /\ \A k \in DOMAIN blocks :
                              (\A i \in begins : blocks[k].at <= i) => PemLabel = blocks[k].label
    BY DEF BundlesAreSplit
  <2>1. /\ text \in Seq(Lines) /\ next \in Nat /\ next > Len(text) /\ Reached = next
        /\ \A k \in DOMAIN blocks : blocks[k].at \in DOMAIN text
    BY <1>2 DEF RowInv, IInv, TypeOK, AtEnd, Reached, BlockInv
  <2>2. \A i : Due(i) => HasRow(i)
    <3> SUFFICES ASSUME NEW i, Due(i) PROVE HasRow(i)
      OBVIOUS
    <3>1. i \in Nat /\ i < Reached BY <2>1 DEF Due
    <3> QED BY <1>2, <3>1 DEF RowInv
  <2>3. \A k \in DOMAIN blocks : Due(blocks[k].at)
    BY <1>2, <2>1 DEF BlocksAreApart, Due
  <2>4. ASSUME NEW k \in DOMAIN blocks,
               \A i \in DOMAIN text : IsBegin(text[i]) => blocks[k].at <= i
        PROVE  PemLabel = blocks[k].label
    <3>1. IsBegin(text[blocks[k].at]) /\ blocks[k].label = text[blocks[k].at].text
      BY <1>2, <2>4 DEF BlocksAreApart
    <3> QED BY <2>1, <2>4, <3>1, LabelIs
  <2>5. { blocks[k].at : k \in DOMAIN blocks }
          = { i \in { j \in DOMAIN text : IsBegin(text[j]) } : Decodable(BodyAt(i)) }
    BY <2>2, <2>3 DEF Due, HasRow
  <2> QED BY <2>4, <2>5
<1> QED BY <1>1, <1>2, BlocksApart, PTL

=============================================================================
