--------------------------- MODULE TlvParserProofs ---------------------------
(***************************************************************************)
(* Proofs about TlvParser, for every set of blobs and every value of the   *)
(* limits that its assumptions allow.                                      *)
(***************************************************************************)
EXTENDS TlvParser, TLAPS

-----------------------------------------------------------------------------
(* Elements that lie end to end *)

\* The end of a node is a number of octets.
LEMMA EndIsNat ==
  ASSUME NEW n \in Nodes
  PROVE  End(n) \in Nat /\ ContentStart(n) \in Nat /\ ContentEnd(n) \in Nat
BY DEF End, ContentStart, ContentEnd, Nodes

\* A node that is added at the end of a forest leaves the others where they are.
LEMMA AppendKeeps ==
  ASSUME NEW f \in Seq(Nodes), NEW n \in Nodes
  PROVE  /\ Append(f, n) \in Seq(Nodes)
         /\ Len(Append(f, n)) = Len(f) + 1
         /\ Append(f, n)[Len(f) + 1] = n
         /\ \A i \in 1 .. Len(f) : Append(f, n)[i] = f[i]
OBVIOUS

\* Tiling does not depend on nodes added to the forest later.
LEMMA TilesInLargerForest ==
  ASSUME NEW f \in Seq(Nodes), NEW n \in Nodes, NEW kids \in Seq(Nat),
         NEW from, NEW to, Tiles(f, kids, from, to)
  PROVE  Tiles(Append(f, n), kids, from, to)
<1>1. \A i \in DOMAIN kids : kids[i] \in 1 .. Len(f)
  BY DEF Tiles
<1>2. \A i \in DOMAIN kids : Append(f, n)[kids[i]] = f[kids[i]]
  BY <1>1, AppendKeeps
<1>3. \A i \in DOMAIN kids : kids[i] \in DOMAIN Append(f, n)
  BY <1>1, AppendKeeps
<1>4. CASE kids = <<>>
  BY <1>3, <1>4 DEF Tiles
<1>5. CASE kids # <<>>
  <2>1. Len(kids) \in Nat /\ Len(kids) >= 1 /\ DOMAIN kids = 1 .. Len(kids)
    BY <1>5
  <2>2. \A i \in 1 .. Len(kids) - 1 : i \in DOMAIN kids /\ i + 1 \in DOMAIN kids
    BY <2>1
  <2> DEFINE g == Append(f, n)
  <2>3. \A i \in DOMAIN kids : g[kids[i]] = f[kids[i]] /\ kids[i] \in DOMAIN g
    BY <1>2, <1>3
  <2> HIDE DEF g
  <2>4. g[kids[1]].offset = from /\ End(g[kids[Len(kids)]]) = to
    BY <1>5, <2>1, <2>3 DEF Tiles
  <2>5. \A i \in 1 .. Len(kids) - 1 : End(g[kids[i]]) = g[kids[i + 1]].offset
    BY <1>5, <2>2, <2>3 DEF Tiles
  <2>6. Tiles(g, kids, from, to)
    BY <1>5, <2>3, <2>4, <2>5 DEF Tiles
  <2> QED BY <2>6 DEF g
<1> QED BY <1>4, <1>5

\* Adding a node that starts where the tiling ends extends the tiling.
LEMMA TilesOneMore ==
  ASSUME NEW f \in Seq(Nodes), NEW n \in Nodes, NEW kids \in Seq(Nat),
         NEW from, NEW to, Tiles(f, kids, from, to), n.offset = to
  PROVE  Tiles(Append(f, n), Append(kids, Len(f) + 1), from, End(n))
<1> DEFINE g == Append(f, n)
           more == Append(kids, Len(f) + 1)
<1>1. /\ more \in Seq(Nat)
      /\ Len(more) = Len(kids) + 1
      /\ DOMAIN more = 1 .. Len(kids) + 1
      /\ more[Len(kids) + 1] = Len(f) + 1
      /\ \A i \in 1 .. Len(kids) : more[i] = kids[i]
  OBVIOUS
<1>2. /\ DOMAIN g = 1 .. Len(f) + 1
      /\ g[Len(f) + 1] = n
  BY AppendKeeps
<1>3. Tiles(g, kids, from, to)
  BY TilesInLargerForest
<1>4. \A i \in DOMAIN more : more[i] \in DOMAIN g
  BY <1>1, <1>2, <1>3 DEF Tiles
<1>5. more # <<>>
  BY <1>1
<1> HIDE DEF g, more
<1>6. ASSUME kids = <<>>
      PROVE  Tiles(g, more, from, End(n))
  BY <1>1, <1>2, <1>3, <1>4, <1>5, <1>6 DEF Tiles
<1>7. ASSUME kids # <<>>
      PROVE  Tiles(g, more, from, End(n))
  <2>1. Len(kids) \in Nat /\ Len(kids) >= 1
    BY <1>7
  <2>2. g[more[1]].offset = from
    BY <1>1, <1>3, <1>7, <2>1 DEF Tiles
  <2>3. End(g[more[Len(more)]]) = End(n)
    BY <1>1, <1>2
  <2>4. ASSUME NEW i \in 1 .. Len(more) - 1
        PROVE  End(g[more[i]]) = g[more[i + 1]].offset
    <3>1. CASE i = Len(kids)
      BY <1>1, <1>2, <1>3, <1>7, <2>1, <3>1 DEF Tiles
    <3>2. CASE i < Len(kids)
      <4>1. i \in 1 .. Len(kids) - 1 /\ i \in 1 .. Len(kids) /\ i + 1 \in 1 .. Len(kids)
        BY <1>1, <2>1, <3>2
      <4>2. more[i] = kids[i] /\ more[i + 1] = kids[i + 1]
        BY <1>1, <4>1
      <4>3. End(g[kids[i]]) = g[kids[i + 1]].offset
        BY <1>3, <1>7, <4>1 DEF Tiles
      <4> QED BY <4>2, <4>3
    <3> QED BY <1>1, <2>1, <3>1, <3>2
  <2> QED BY <1>4, <1>5, <2>2, <2>3, <2>4 DEF Tiles
<1>8. Tiles(g, more, from, End(n))
  BY <1>6, <1>7
<1> QED BY <1>8 DEF g, more

-----------------------------------------------------------------------------
(* The inductive invariant.  CallsNest and ElementsTile are not inductive   *)
(* by themselves: that a child stays inside its parent needs the header     *)
(* octets to be inside the parent's slice, and that a finished element is   *)
(* whole needs its frame to have been.                                      *)

\* TypeOK of a parser that is given any blob.
Typed ==
  /\ data \in Seq(Octets) /\ Len(data) <= UsizeMax
  /\ rules \in {"ber", "cer", "der"}
  /\ caller \in {"parse_rules", "parse_all"}
  /\ pc \in {"contents", "tag", "length", "longlength", "body", "done"}
  /\ hdr \in Headers
  /\ stack \in Seq(Frames) /\ Len(stack) >= 1
  /\ heap \in Seq(Nodes)
  /\ result \in Results

HeaderPcs == {"tag", "length", "longlength", "body"}

\* The caller's frame is at the bottom, open elements above it.
FrameKinds ==
  /\ stack[1].kind = caller
  /\ stack[1].content = 0 /\ stack[1].end = Len(data)
  /\ \A i \in 2 .. Len(stack) :
       stack[i].kind \in {"definite", "indefinite"} /\ stack[i].content >= stack[i].at + 2

\* The header octets read so far, and those still announced, are in the slice.
HeaderInSlice ==
  pc \in HeaderPcs =>
    /\ Depth <= MaxNesting
    /\ hdr.at = Top.p
    /\ hdr.at < hdr.idx
    /\ hdr.idx <= Top.end
    /\ pc = "longlength" => hdr.idx >= hdr.at + 2 /\ hdr.idx + hdr.left <= Top.end
    /\ pc = "body" => hdr.idx >= hdr.at + 2

\* parse_rules calls parse_tlv once.
OneElement ==
  caller = "parse_rules" /\ stack[1].kids # <<>> =>
    Len(stack) = 1 /\ Len(stack[1].kids) = 1 /\ pc \in {"contents", "done"}

NoneIndefiniteInDer ==
  rules = "der" =>
    /\ \A i \in DOMAIN stack : stack[i].kind # "indefinite"
    /\ \A i \in DOMAIN heap : ~ heap[i].indefinite

ElementsBehind == \A i \in DOMAIN heap : End(heap[i]) <= Top.p

Outcome ==
  /\ result.kind = "pending" <=> pc # "done"
  /\ result.kind \in ErrorKinds => result.offset = Top.p
  /\ result.kind = "trailing-bytes" => caller = "parse_rules"
  /\ result.kind = "indefinite-in-der" => rules = "der"
  /\ result.kind = "ok" =>
       /\ Len(stack) = 1
       /\ Top.p = Len(data)
       /\ caller = "parse_rules" => Top.kids # <<>>

IInv ==
  /\ Typed
  /\ CallsNest
  /\ ElementsTile
  /\ FrameKinds
  /\ HeaderInSlice
  /\ OneElement
  /\ NoneIndefiniteInDer
  /\ ElementsBehind
  /\ Outcome

-----------------------------------------------------------------------------
(* Facts about the state that the steps below use *)

LEMMA OctetsOfBlob ==
  ASSUME Typed
  PROVE  /\ Len(data) \in Nat /\ Len(data) <= UsizeMax
         /\ \A o \in Nat : o < Len(data) => Octet(o) \in Octets
<1>1. data \in Seq(Octets) /\ Len(data) <= UsizeMax
  BY DEF Typed
<1> QED BY <1>1 DEF Octet

LEMMA TopFacts ==
  ASSUME IInv
  PROVE  /\ Len(stack) \in Nat /\ Len(stack) >= 1
         /\ Top \in Frames /\ Top = stack[Len(stack)]
         /\ Top.content <= Top.p /\ Top.p <= Top.end /\ Top.end <= Len(data)
         /\ Tiles(heap, Top.kids, Top.content, Top.p)
         /\ Depth \in Nat
<1>1. stack \in Seq(Frames) /\ Len(stack) \in Nat /\ Len(stack) >= 1
  BY DEF IInv, Typed
<1> QED BY <1>1 DEF IInv, CallsNest, Top, Depth

-----------------------------------------------------------------------------
(* The four ways a step ends *)

\* A header octet was read: the calls and the elements are as they were.
LEMMA HeaderStep ==
  ASSUME IInv, pc # "done",
         UNCHANGED <<input, stack, heap, result>>,
         hdr' \in Headers, pc' \in HeaderPcs,
         HeaderInSlice', OneElement'
  PROVE  IInv'
<1> USE DEF IInv
<1>1. Typed'
  BY DEF Typed, input, HeaderPcs
<1>2. CallsNest'
  BY DEF CallsNest, Depth, input
<1>3. ElementsTile'
  BY DEF ElementsTile
<1>4. FrameKinds'
  BY DEF FrameKinds, input
<1>5. NoneIndefiniteInDer'
  BY DEF NoneIndefiniteInDer, input
<1>6. ElementsBehind'
  BY DEF ElementsBehind, Top
<1>7. Outcome'
  BY DEF Outcome, Top, input, HeaderPcs
<1> QED BY <1>1, <1>2, <1>3, <1>4, <1>5, <1>6, <1>7

\* An error was met at the element that was being read.
LEMMA FailStep ==
  ASSUME IInv, pc # "done",
         NEW kind \in ErrorKinds, NEW offset, offset = Top.p,
         kind = "trailing-bytes" => caller = "parse_rules",
         kind = "indefinite-in-der" => rules = "der",
         Fail(kind, offset)
  PROVE  IInv'
<1> USE DEF IInv
<1>0. /\ result' = [kind |-> kind, offset |-> offset]
      /\ result'.kind = kind /\ result'.offset = offset
      /\ pc' = "done"
      /\ UNCHANGED <<data, rules, caller, hdr, stack, heap>>
  BY DEF Fail, input
<1>1. Typed'
  <2>1. offset \in Nat
    BY TopFacts DEF Frames
  <2> QED BY <1>0, <2>1 DEF Typed, Results
<1>2. CallsNest'
  BY <1>0 DEF CallsNest, Depth
<1>3. ElementsTile'
  BY <1>0 DEF ElementsTile
<1>4. FrameKinds'
  BY <1>0 DEF FrameKinds
<1>5. HeaderInSlice'
  BY <1>0 DEF HeaderInSlice, HeaderPcs
<1>6. OneElement'
  BY <1>0 DEF OneElement
<1>7. NoneIndefiniteInDer'
  BY <1>0 DEF NoneIndefiniteInDer
<1>8. ElementsBehind'
  BY <1>0 DEF ElementsBehind, Top
<1>9. Outcome'
  <2>1. kind # "pending" /\ kind # "ok"
    BY DEF ErrorKinds
  <2> QED BY <1>0, <2>1 DEF Outcome, Top
<1> QED BY <1>1, <1>2, <1>3, <1>4, <1>5, <1>6, <1>7, <1>8, <1>9

\* The header of a constructed element was read: its contents are next.
LEMMA OpenStep ==
  ASSUME IInv, pc \in HeaderPcs,
         NEW kind \in {"definite", "indefinite"}, NEW content \in Nat, NEW end \in Nat,
         content >= hdr.at + 2, content <= end, end <= Top.end,
         kind = "indefinite" => rules # "der",
         Open(kind, content, end)
  PROVE  IInv'
<1> USE DEF IInv
<1> DEFINE f == [kind |-> kind, at |-> hdr.at, class |-> hdr.class,
                 tag |-> hdr.tag, content |-> content, end |-> end,
                 p |-> content, kids |-> <<>>]
<1>0. /\ stack' = Append(stack, f)
      /\ pc' = "contents"
      /\ UNCHANGED <<data, rules, caller, hdr, heap, result>>
  BY DEF Open, input
<1>1. f \in Frames
  BY DEF Typed, Frames, Headers
<1>2. /\ stack' \in Seq(Frames)
      /\ Len(stack') = Len(stack) + 1
      /\ stack'[Len(stack) + 1] = f
      /\ \A i \in 1 .. Len(stack) : stack'[i] = stack[i]
      /\ Len(stack) \in Nat /\ Len(stack) >= 1
  BY <1>0, <1>1 DEF Typed
<1>3. Top' = f /\ Depth' = Depth + 1 /\ Depth \in Nat
  BY <1>2 DEF Top, Depth
<1>4. /\ f.kind = kind /\ f.at = hdr.at /\ f.content = content
      /\ f.end = end /\ f.p = content /\ f.kids = <<>>
  OBVIOUS
<1> HIDE DEF f
<1>5. hdr.at = Top.p /\ Depth <= MaxNesting
  BY DEF HeaderInSlice
<1>6. hdr.at \in Nat
  BY DEF Typed, Headers
<1>a. Typed'
  BY <1>0, <1>2 DEF Typed
<1>b. CallsNest'
  <2>1. Depth' <= MaxNesting + 1
    BY <1>3, <1>5, LimitsAssumption
  <2>2. Tiles(heap', f.kids, f.content, f.p)
    BY <1>4 DEF Tiles
  <2>3. ASSUME NEW i \in 1 .. Len(stack')
        PROVE  /\ stack'[i].content <= stack'[i].p
               /\ stack'[i].p <= stack'[i].end /\ stack'[i].end <= Len(data')
               /\ Tiles(heap', stack'[i].kids, stack'[i].content, stack'[i].p)
    <3>1. CASE i = Len(stack) + 1
      <4>1. Top.end \in Nat /\ Len(data) \in Nat /\ Top.end <= Len(data)
        BY TopFacts, OctetsOfBlob DEF Frames
      <4> QED BY <1>0, <1>2, <1>4, <2>2, <3>1, <4>1
    <3>2. CASE i \in 1 .. Len(stack)
      BY <1>0, <1>2, <3>2 DEF CallsNest
    <3> QED BY <1>2, <3>1, <3>2
  <2>4. ASSUME NEW i \in 1 .. Len(stack') - 1
        PROVE  stack'[i + 1].at = stack'[i].p /\ stack'[i + 1].end <= stack'[i].end
    <3>1. CASE i = Len(stack)
      BY <1>2, <1>4, <1>5, <3>1, TopFacts
    <3>2. CASE i \in 1 .. Len(stack) - 1
      <4>1. i \in 1 .. Len(stack) /\ i + 1 \in 1 .. Len(stack)
        BY <1>2, <3>2
      <4> QED BY <1>2, <3>2, <4>1 DEF CallsNest
    <3> QED BY <1>2, <3>1, <3>2
  <2> QED BY <1>2, <2>1, <2>3, <2>4 DEF CallsNest
<1>c. ElementsTile'
  BY <1>0 DEF ElementsTile
<1>d. FrameKinds'
  <2>1. ASSUME NEW i \in 2 .. Len(stack')
        PROVE  /\ stack'[i].kind \in {"definite", "indefinite"}
               /\ stack'[i].content >= stack'[i].at + 2
    <3>1. CASE i = Len(stack) + 1
      BY <1>2, <1>4, <3>1
    <3>2. CASE i \in 2 .. Len(stack)
      BY <1>2, <3>2 DEF FrameKinds
    <3> QED BY <1>2, <3>1, <3>2
  <2> QED BY <1>0, <1>2, <2>1 DEF FrameKinds
<1>e. HeaderInSlice'
  BY <1>0 DEF HeaderInSlice, HeaderPcs
<1>f. OneElement'
  BY <1>0, <1>2 DEF OneElement, HeaderPcs
<1>g. NoneIndefiniteInDer'
  <2>1. ASSUME rules = "der", NEW i \in 1 .. Len(stack')
        PROVE  stack'[i].kind # "indefinite"
    <3>1. CASE i = Len(stack) + 1
      BY <1>2, <1>4, <2>1, <3>1
    <3>2. CASE i \in 1 .. Len(stack)
      BY <1>2, <2>1, <3>2 DEF NoneIndefiniteInDer
    <3> QED BY <1>2, <3>1, <3>2
  <2> QED BY <1>0, <1>2, <2>1 DEF NoneIndefiniteInDer
<1>h. ElementsBehind'
  <2>1. ASSUME NEW i \in DOMAIN heap
        PROVE  End(heap[i]) <= content
    <3>1. End(heap[i]) <= Top.p
      BY DEF ElementsBehind
    <3>2. End(heap[i]) \in Nat
      BY EndIsNat DEF Typed
    <3> QED BY <1>5, <1>6, <3>1, <3>2
  <2> QED BY <1>0, <1>3, <1>4, <2>1 DEF ElementsBehind
<1>i. Outcome'
  <2>1. result.kind = "pending"
    BY DEF Outcome, HeaderPcs
  <2> QED BY <1>0, <2>1 DEF Outcome, ErrorKinds
<1> QED BY <1>a, <1>b, <1>c, <1>d, <1>e, <1>f, <1>g, <1>h, <1>i

\* parse_tlv returned node, which ends at end, to the innermost of frames.
LEMMA ReturnStep ==
  ASSUME IInv, pc # "done",
         NEW m \in 1 .. Len(stack), NEW frames \in Seq(Frames), Len(frames) = m,
         \A i \in 1 .. m : frames[i] = stack[i],
         NEW node \in Nodes, NEW end \in Nat,
         Return(frames, node, end),
         node.offset = frames[m].p, end = End(node),
         Top.p <= end, end <= frames[m].end,
         caller = "parse_rules" => stack[1].kids = <<>>,
         rules = "der" => ~ node.indefinite,
         node.header_len >= 2,
         ~ node.constructed => node.kids = <<>> /\ ~ node.indefinite,
         \A k \in DOMAIN node.kids : node.kids[k] <= Len(heap),
         node.constructed => Tiles(heap, node.kids, ContentStart(node), ContentEnd(node))
  PROVE  IInv'
<1> USE DEF IInv
<1> DEFINE f == Resumed(frames[m], end, Len(heap) + 1)
<1>0. /\ stack' = [frames EXCEPT ![m] = f]
      /\ heap' = Append(heap, node)
      /\ pc' = "contents"
      /\ UNCHANGED <<data, rules, caller, hdr, result>>
  BY DEF Return, input
<1>1. /\ heap \in Seq(Nodes) /\ stack \in Seq(Frames)
      /\ Len(stack) \in Nat /\ m \in Nat /\ m >= 1 /\ m <= Len(stack)
      /\ frames[m] \in Frames
      /\ Len(heap) \in Nat
  BY DEF Typed
<1>2. f \in Frames
  <2>1. frames[m].kids \in Seq(Nat) /\ Append(frames[m].kids, Len(heap) + 1) \in Seq(Nat)
    BY <1>1 DEF Frames
  <2> QED BY <1>1, <2>1 DEF Frames, Resumed
<1>3. /\ f.kind = frames[m].kind /\ f.at = frames[m].at
      /\ f.content = frames[m].content /\ f.end = frames[m].end
      /\ f.p = end /\ f.kids = Append(frames[m].kids, Len(heap) + 1)
  BY <1>1 DEF Frames, Resumed
<1> HIDE DEF f
<1>4. /\ stack' \in Seq(Frames)
      /\ Len(stack') = m
      /\ stack'[m] = f
      /\ \A i \in 1 .. m - 1 : stack'[i] = stack[i]
  BY <1>0, <1>1, <1>2
<1>5. Top' = f /\ Depth' = m - 1
  BY <1>1, <1>4 DEF Top, Depth
<1>6. /\ heap' \in Seq(Nodes)
      /\ Len(heap') = Len(heap) + 1
      /\ heap'[Len(heap) + 1] = node
      /\ \A i \in 1 .. Len(heap) : heap'[i] = heap[i]
  BY <1>0, <1>1, AppendKeeps
<1>7. frames[m] = stack[m]
  BY <1>1
<1>a. Typed'
  BY <1>0, <1>1, <1>4, <1>6 DEF Typed
<1>b. CallsNest'
  <2>1. Depth' <= MaxNesting + 1
    BY <1>1, <1>5, LimitsAssumption DEF CallsNest, Depth
  <2>2. /\ f.content <= f.p /\ f.p <= f.end /\ f.end <= Len(data)
        /\ Tiles(heap', f.kids, f.content, f.p)
    <3>1. /\ stack[m].content <= stack[m].p
          /\ stack[m].end <= Len(data)
          /\ Tiles(heap, stack[m].kids, stack[m].content, stack[m].p)
      BY <1>1 DEF CallsNest
    <3>2. /\ stack[m].kids \in Seq(Nat) /\ stack[m].p \in Nat
          /\ stack[m].content \in Nat
      BY <1>1, <1>7 DEF Frames
    <3>3. Tiles(heap', f.kids, f.content, end)
      BY <1>0, <1>1, <1>3, <1>7, <3>1, <3>2, TilesOneMore
    <3>4. stack[m].p <= end
      <4>1. end = node.offset + node.header_len + node.content_len
                    + (IF node.indefinite THEN 2 ELSE 0)
        BY DEF End, ContentEnd
      <4> QED BY <1>7, <3>2, <4>1 DEF Nodes
    <3> QED BY <1>3, <1>7, <3>1, <3>2, <3>3, <3>4
  <2>3. ASSUME NEW i \in 1 .. Len(stack')
        PROVE  /\ stack'[i].content <= stack'[i].p
               /\ stack'[i].p <= stack'[i].end /\ stack'[i].end <= Len(data')
               /\ Tiles(heap', stack'[i].kids, stack'[i].content, stack'[i].p)
    <3>1. CASE i = m
      BY <1>0, <1>4, <2>2, <3>1
    <3>2. CASE i \in 1 .. m - 1
      <4>1. stack'[i] = stack[i] /\ i \in 1 .. Len(stack)
        BY <1>1, <1>4, <3>2
      <4>2. /\ stack[i].content <= stack[i].p
            /\ stack[i].p <= stack[i].end /\ stack[i].end <= Len(data)
            /\ Tiles(heap, stack[i].kids, stack[i].content, stack[i].p)
        BY <4>1 DEF CallsNest
      <4>3. stack[i].kids \in Seq(Nat)
        <5>1. stack[i] \in Frames
          BY <1>1, <4>1
        <5> QED BY <5>1 DEF Frames
      <4>4. Tiles(heap', stack[i].kids, stack[i].content, stack[i].p)
        BY <1>0, <1>1, <4>2, <4>3, TilesInLargerForest
      <4> QED BY <1>0, <4>1, <4>2, <4>4
    <3> QED BY <1>1, <1>4, <3>1, <3>2
  <2>4. ASSUME NEW i \in 1 .. Len(stack') - 1
        PROVE  stack'[i + 1].at = stack'[i].p /\ stack'[i + 1].end <= stack'[i].end
    <3>1. i \in 1 .. Len(stack) - 1 /\ i \in 1 .. m - 1 /\ i + 1 \in 1 .. m
      BY <1>1, <1>4
    <3>2. stack[i + 1].at = stack[i].p /\ stack[i + 1].end <= stack[i].end
      BY <3>1 DEF CallsNest
    <3>3. stack'[i] = stack[i]
      BY <1>4, <3>1
    <3>4. stack'[i + 1].at = stack[i + 1].at /\ stack'[i + 1].end = stack[i + 1].end
      <4>1. CASE i + 1 = m
        BY <1>3, <1>4, <1>7, <4>1
      <4>2. CASE i + 1 # m
        BY <1>1, <1>4, <3>1, <4>2
      <4> QED BY <4>1, <4>2
    <3> QED BY <3>2, <3>3, <3>4
  <2> QED BY <1>4, <2>1, <2>3, <2>4 DEF CallsNest
<1>c. ElementsTile'
  <2>1. ASSUME NEW i \in 1 .. Len(heap) + 1
        PROVE  ElementIsWhole(heap', i)
    <3>1. CASE i = Len(heap) + 1
      <4>1. heap'[i] = node
        BY <1>6, <3>1
      <4>2. node.kids \in Seq(Nat)
        BY DEF Nodes
      <4>3. node.constructed =>
              Tiles(heap', node.kids, ContentStart(node), ContentEnd(node))
        BY <1>0, <1>1, <4>2, TilesInLargerForest
      <4>4. \A k \in DOMAIN node.kids : node.kids[k] < i
        BY <1>1, <3>1, <4>2
      <4> QED BY <4>1, <4>3, <4>4 DEF ElementIsWhole
    <3>2. CASE i \in 1 .. Len(heap)
      <4>1. heap'[i] = heap[i]
        BY <1>6, <3>2
      <4>2. ElementIsWhole(heap, i)
        BY <1>1, <3>2 DEF ElementsTile
      <4>3. heap[i].kids \in Seq(Nat)
        <5>1. heap[i] \in Nodes
          BY <1>1, <3>2
        <5> QED BY <5>1 DEF Nodes
      <4>4. heap[i].constructed =>
              Tiles(heap', heap[i].kids, ContentStart(heap[i]), ContentEnd(heap[i]))
        BY <1>0, <1>1, <4>2, <4>3, TilesInLargerForest DEF ElementIsWhole
      <4> QED BY <4>1, <4>2, <4>4 DEF ElementIsWhole
    <3> QED BY <1>1, <3>1, <3>2
  <2> QED BY <1>6, <2>1 DEF ElementsTile
<1>d. FrameKinds'
  <2>1. /\ stack'[1].kind = stack[1].kind /\ stack'[1].content = stack[1].content
        /\ stack'[1].end = stack[1].end
    BY <1>1, <1>3, <1>4, <1>7
  <2>2. ASSUME NEW i \in 2 .. Len(stack')
        PROVE  /\ stack'[i].kind \in {"definite", "indefinite"}
               /\ stack'[i].content >= stack'[i].at + 2
    <3>1. /\ stack[i].kind \in {"definite", "indefinite"}
          /\ stack[i].content >= stack[i].at + 2
      BY <1>1, <1>4 DEF FrameKinds
    <3>2. /\ stack'[i].kind = stack[i].kind /\ stack'[i].content = stack[i].content
          /\ stack'[i].at = stack[i].at
      BY <1>1, <1>3, <1>4, <1>7
    <3> QED BY <3>1, <3>2
  <2> QED BY <1>0, <2>1, <2>2 DEF FrameKinds
<1>e. HeaderInSlice'
  BY <1>0 DEF HeaderInSlice, HeaderPcs
<1>f. OneElement'
  <2>1. CASE m = 1
    <3>1. caller = "parse_rules" => Len(stack'[1].kids) = 1
      BY <1>1, <1>3, <1>4, <1>7, <2>1
    <3> QED BY <1>0, <1>4, <2>1, <3>1 DEF OneElement
  <2>2. CASE m # 1
    BY <1>0, <1>1, <1>4, <2>2 DEF OneElement
  <2> QED BY <2>1, <2>2
<1>g. NoneIndefiniteInDer'
  <2>1. ASSUME rules = "der", NEW i \in 1 .. Len(stack')
        PROVE  stack'[i].kind # "indefinite"
    <3>1. stack[i].kind # "indefinite"
      BY <1>1, <1>4, <2>1 DEF NoneIndefiniteInDer
    <3>2. stack'[i].kind = stack[i].kind
      BY <1>1, <1>3, <1>4, <1>7
    <3> QED BY <3>1, <3>2
  <2>2. ASSUME rules = "der", NEW i \in 1 .. Len(heap')
        PROVE  ~ heap'[i].indefinite
    <3>1. CASE i = Len(heap) + 1
      BY <1>6, <2>2, <3>1
    <3>2. CASE i \in 1 .. Len(heap)
      BY <1>1, <1>6, <2>2, <3>2 DEF NoneIndefiniteInDer
    <3> QED BY <1>1, <1>6, <3>1, <3>2
  <2> QED BY <1>0, <1>4, <1>6, <2>1, <2>2 DEF NoneIndefiniteInDer
<1>h. ElementsBehind'
  <2>1. ASSUME NEW i \in 1 .. Len(heap')
        PROVE  End(heap'[i]) <= end
    <3>1. CASE i = Len(heap) + 1
      BY <1>6, <3>1, EndIsNat
    <3>2. CASE i \in 1 .. Len(heap)
      <4>1. End(heap[i]) <= Top.p
        BY <1>1, <3>2 DEF ElementsBehind
      <4>2. End(heap[i]) \in Nat
        BY <1>1, <3>2, EndIsNat, SMTT(30)
      <4>3. Top.p \in Nat
        BY TopFacts DEF Frames
      <4> QED BY <1>6, <3>2, <4>1, <4>2, <4>3
    <3> QED BY <1>1, <1>6, <3>1, <3>2
  <2> QED BY <1>3, <1>5, <1>6, <2>1 DEF ElementsBehind
<1>i. Outcome'
  <2>1. result.kind = "pending"
    BY DEF Outcome
  <2> QED BY <1>0, <2>1 DEF Outcome, ErrorKinds
<1> QED BY <1>a, <1>b, <1>c, <1>d, <1>e, <1>f, <1>g, <1>h, <1>i

-----------------------------------------------------------------------------
(* The invariant is inductive *)

\* What is known while a header is being read.
LEMMA InHeader ==
  ASSUME IInv, pc \in HeaderPcs
  PROVE  /\ hdr \in Headers /\ hdr.at = Top.p /\ hdr.at < hdr.idx /\ hdr.idx <= Top.end
         /\ hdr.at \in Nat /\ hdr.idx \in Nat /\ hdr.len \in Nat /\ hdr.left \in Nat
         /\ Top.end \in Nat /\ Len(data) \in Nat /\ Top.end <= Len(data)
         /\ Depth <= MaxNesting
         /\ hdr.idx < Top.end => Octet(hdr.idx) \in Octets
<1>1. hdr \in Headers /\ Typed
  BY DEF IInv, Typed
<1>2. hdr.at = Top.p /\ hdr.at < hdr.idx /\ hdr.idx <= Top.end /\ Depth <= MaxNesting
  BY DEF IInv, HeaderInSlice
<1>3. hdr.at \in Nat /\ hdr.idx \in Nat /\ hdr.len \in Nat /\ hdr.left \in Nat
  BY <1>1 DEF Headers
<1>4. Top.end \in Nat /\ Len(data) \in Nat /\ Top.end <= Len(data)
  BY <1>1, TopFacts, OctetsOfBlob DEF Frames
<1>5. hdr.idx < Top.end => Octet(hdr.idx) \in Octets
  BY <1>1, <1>3, <1>4, OctetsOfBlob
<1> QED BY <1>1, <1>2, <1>3, <1>4, <1>5

\* One more octet of the header: idx moves by one and stays in the slice.
LEMMA ReadOctetStep ==
  ASSUME IInv, pc \in HeaderPcs,
         UNCHANGED <<input, stack, heap, result>>,
         hdr' \in Headers, hdr'.at = hdr.at, hdr'.idx \in {hdr.idx, hdr.idx + 1},
         hdr'.idx <= Top.end,
         pc' \in HeaderPcs,
         pc' = "longlength" => hdr'.idx >= hdr.at + 2 /\ hdr'.idx + hdr'.left <= Top.end,
         pc' = "body" => hdr'.idx >= hdr.at + 2
  PROVE  IInv'
<1>1. HeaderInSlice'
  BY InHeader DEF HeaderInSlice, Depth, Top
<1>2. OneElement'
  BY DEF IInv, OneElement, HeaderPcs, input
<1>3. pc # "done"
  BY DEF HeaderPcs
<1> QED BY <1>1, <1>2, <1>3, HeaderStep

LEMMA BeginElementInv ==
  ASSUME IInv, BeginElement
  PROVE  IInv'
<1> DEFINE id == Octet(Top.p)
<1>1. /\ pc = "contents" /\ WantsElement /\ Depth <= MaxNesting /\ Top.p < Top.end
      /\ hdr' = [at |-> Top.p, idx |-> Top.p + 1,
                 class |-> id \div 64, constructed |-> (id \div 32) % 2 = 1,
                 tag |-> IF id % 32 = 31 THEN 0 ELSE id % 32,
                 left |-> 0, len |-> 0]
      /\ pc' \in {"tag", "length"}
      /\ UNCHANGED <<input, stack, heap, result>>
  BY DEF BeginElement
<1>2. Top.p \in Nat /\ Top.end \in Nat /\ Top.end <= Len(data) /\ Len(data) \in Nat
  BY TopFacts, OctetsOfBlob DEF Frames, IInv
<1>3. id \in Octets
  BY <1>1, <1>2, OctetsOfBlob DEF IInv
<1> HIDE DEF id
<1>4. id \div 64 \in 0 .. 3 /\ id % 32 \in 0 .. 31
  BY <1>3 DEF Octets
<1>5. hdr' \in Headers /\ hdr'.at = Top.p /\ hdr'.idx = Top.p + 1
  <2>1. Top.p + 1 \in Nat
    BY <1>2
  <2>2. ((id \div 32) % 2 = 1) \in BOOLEAN
    OBVIOUS
  <2>3. (IF id % 32 = 31 THEN 0 ELSE id % 32) \in 0 .. TagMax
    BY <1>4, LimitsAssumption
  <2>11. hdr' \in Headers
    BY <1>1, <1>2, <1>4, <2>1, <2>2, <2>3 DEF Headers
  <2>12. hdr'.at = Top.p
    BY <1>1, <1>2, <1>4, <2>1, <2>2, <2>3 DEF Headers
  <2>13. hdr'.idx = Top.p + 1
    BY <1>1, <1>2, <1>4, <2>1, <2>2, <2>3 DEF Headers
  <2> QED BY <2>11, <2>12, <2>13
<1>6. HeaderInSlice'
  BY <1>1, <1>2, <1>5 DEF HeaderInSlice, Depth, Top
<1>7. OneElement'
  <2>1. caller = "parse_rules" => stack[1].kids = <<>>
    <3>1. CASE Len(stack) = 1
      <4>1. Top = stack[1] /\ stack[1].kind = caller
        BY <3>1 DEF Top, IInv, FrameKinds
      <4> QED BY <1>1, <4>1 DEF WantsElement
    <3>2. CASE Len(stack) # 1
      BY <3>2 DEF IInv, OneElement
    <3> QED BY <3>1, <3>2
  <2> QED BY <1>1, <2>1 DEF OneElement, input
<1>8. pc # "done" /\ pc' \in HeaderPcs
  BY <1>1 DEF HeaderPcs
<1> QED BY <1>1, <1>5, <1>6, <1>7, <1>8, HeaderStep

LEMMA TagOctetInv ==
  ASSUME IInv, TagOctet
  PROVE  IInv'
<1>1. pc \in HeaderPcs /\ pc' \in {"length", "tag"} /\ hdr.idx < Top.end
  BY DEF TagOctet, HeaderPcs
<1>2. Octet(hdr.idx) \in 0 .. 255 /\ hdr.tag \in Nat
  BY <1>1, InHeader DEF Octets, Headers
<1>3. TagSoFar \in 0 .. TagMax
  <2>1. Octet(hdr.idx) % 128 \in 0 .. 127
    BY <1>2
  <2>2. TagSoFar \in Nat
    BY <1>2, <2>1 DEF TagSoFar
  <2> QED BY <2>2, LimitsAssumption DEF TagOctet
<1>4. hdr' = [hdr EXCEPT !.tag = TagSoFar, !.idx = hdr.idx + 1]
  BY DEF TagOctet
<1>a. hdr \in Headers /\ hdr.idx + 1 \in Nat
  BY <1>1, InHeader
<1>5. hdr' \in Headers /\ hdr'.at = hdr.at /\ hdr'.idx = hdr.idx + 1
  <2>11. hdr' \in Headers
    BY <1>3, <1>4, <1>a DEF Headers
  <2>12. hdr'.at = hdr.at
    BY <1>3, <1>4, <1>a DEF Headers
  <2>13. hdr'.idx = hdr.idx + 1
    BY <1>3, <1>4, <1>a DEF Headers
  <2> QED BY <2>11, <2>12, <2>13
<1>6. UNCHANGED <<input, stack, heap, result>>
  BY DEF TagOctet
<1>7. hdr'.idx <= Top.end /\ pc' \in HeaderPcs
  BY <1>1, <1>5, InHeader DEF HeaderPcs
<1> QED BY <1>1, <1>5, <1>6, <1>7, ReadOctetStep

LEMMA ShortLengthInv ==
  ASSUME IInv, ShortLength
  PROVE  IInv'
<1>1. pc \in HeaderPcs /\ pc' = "body" /\ hdr.idx < Top.end
  BY DEF ShortLength, HeaderPcs
<1>2. Octet(hdr.idx) \in Nat
  <2>1. Octet(hdr.idx) \in Octets
    BY <1>1, InHeader
  <2> QED BY <2>1 DEF Octets
<1>3. hdr' = [hdr EXCEPT !.len = Octet(hdr.idx), !.idx = hdr.idx + 1]
  BY DEF ShortLength
<1>a. hdr \in Headers /\ hdr.idx + 1 \in Nat
  BY <1>1, InHeader
<1>4. hdr' \in Headers /\ hdr'.at = hdr.at /\ hdr'.idx = hdr.idx + 1
  <2>11. hdr' \in Headers
    BY <1>2, <1>3, <1>a DEF Headers
  <2>12. hdr'.at = hdr.at
    BY <1>2, <1>3, <1>a DEF Headers
  <2>13. hdr'.idx = hdr.idx + 1
    BY <1>2, <1>3, <1>a DEF Headers
  <2> QED BY <2>11, <2>12, <2>13
<1>5. UNCHANGED <<input, stack, heap, result>>
  BY DEF ShortLength
<1>6. hdr'.idx <= Top.end /\ hdr'.idx >= hdr.at + 2 /\ pc' \in HeaderPcs
  BY <1>1, <1>4, InHeader DEF HeaderPcs
<1> QED BY <1>1, <1>4, <1>5, <1>6, ReadOctetStep

LEMMA IndefiniteLengthInv ==
  ASSUME IInv, IndefiniteLength
  PROVE  IInv'
<1>1. /\ pc \in HeaderPcs /\ hdr.idx < Top.end /\ rules # "der"
      /\ Open("indefinite", hdr.idx + 1, Top.end)
  BY DEF IndefiniteLength, HeaderPcs, AllowsIndefinite
<1>2. hdr.idx + 1 \in Nat /\ hdr.idx + 1 >= hdr.at + 2 /\ hdr.idx + 1 <= Top.end
  BY <1>1, InHeader
<1>3. Top.end \in Nat /\ Top.end <= Top.end
  BY <1>1, InHeader
<1> QED BY <1>1, <1>2, <1>3, OpenStep

LEMMA LongLengthInv ==
  ASSUME IInv, LongLength
  PROVE  IInv'
<1>1. /\ pc \in HeaderPcs /\ pc' = "longlength" /\ hdr.idx < Top.end
      /\ Octet(hdr.idx) \in 129 .. 254
      /\ hdr.idx + 1 + Announced <= Top.end
      /\ hdr' = [hdr EXCEPT !.left = Announced, !.len = 0, !.idx = hdr.idx + 1]
      /\ UNCHANGED <<input, stack, heap, result>>
  BY DEF LongLength, HeaderPcs
<1>2. Announced \in Nat
  BY <1>1 DEF Announced
<1>3. /\ hdr' \in Headers /\ hdr'.at = hdr.at /\ hdr'.idx = hdr.idx + 1
      /\ hdr'.left = Announced
  <2>1. hdr \in Headers /\ hdr.idx + 1 \in Nat /\ 0 \in Nat
    BY <1>1, InHeader
  <2>11. hdr' \in Headers
    BY <1>1, <1>2, <2>1 DEF Headers
  <2>12. hdr'.at = hdr.at
    BY <1>1, <1>2, <2>1 DEF Headers
  <2>13. hdr'.idx = hdr.idx + 1
    BY <1>1, <1>2, <2>1 DEF Headers
  <2>14. hdr'.left = Announced
    BY <1>1, <1>2, <2>1 DEF Headers
  <2> QED BY <2>11, <2>12, <2>13, <2>14
<1>4. /\ hdr'.idx <= Top.end /\ pc' \in HeaderPcs
      /\ hdr'.idx >= hdr.at + 2 /\ hdr'.idx + hdr'.left <= Top.end
  <2>1. hdr.at \in Nat /\ hdr.idx \in Nat /\ hdr.at < hdr.idx /\ Top.end \in Nat
    BY <1>1, InHeader
  <2> QED BY <1>1, <1>2, <1>3, <2>1 DEF HeaderPcs
<1> QED BY <1>1, <1>3, <1>4, ReadOctetStep

LEMMA LongLengthOctetInv ==
  ASSUME IInv, LongLengthOctet
  PROVE  IInv'
<1>1. /\ pc = "longlength" /\ pc \in HeaderPcs /\ pc' = pc /\ hdr.left > 0
      /\ hdr' = [hdr EXCEPT !.len = 256 * hdr.len + Octet(hdr.idx),
                            !.idx = hdr.idx + 1, !.left = hdr.left - 1]
      /\ UNCHANGED <<input, stack, heap, result>>
  BY DEF LongLengthOctet, HeaderPcs
<1>2. hdr.idx >= hdr.at + 2 /\ hdr.idx + hdr.left <= Top.end
  BY <1>1 DEF IInv, HeaderInSlice
<1>3. hdr.idx < Top.end
  BY <1>1, <1>2, InHeader
<1>4. Octet(hdr.idx) \in Nat /\ hdr.left - 1 \in Nat
  <2>1. Octet(hdr.idx) \in Octets /\ hdr.left \in Nat
    BY <1>1, <1>3, InHeader
  <2> QED BY <1>1, <2>1 DEF Octets
<1>5. 256 * hdr.len + Octet(hdr.idx) \in Nat
  BY <1>1, <1>4, InHeader
<1>6. /\ hdr' \in Headers /\ hdr'.at = hdr.at /\ hdr'.idx = hdr.idx + 1
      /\ hdr'.left = hdr.left - 1
  <2>1. hdr \in Headers /\ hdr.idx + 1 \in Nat
    BY <1>1, InHeader
  <2>11. hdr' \in Headers
    BY <1>1, <1>4, <1>5, <2>1, ZenonT(30) DEF Headers
  <2>12. hdr'.at = hdr.at
    BY <1>1, <1>4, <1>5, <2>1 DEF Headers
  <2>13. hdr'.idx = hdr.idx + 1
    BY <1>1, <1>4, <1>5, <2>1 DEF Headers
  <2>14. hdr'.left = hdr.left - 1
    BY <1>1, <1>4, <1>5, <2>1 DEF Headers
  <2> QED BY <2>11, <2>12, <2>13, <2>14
<1>7. /\ hdr'.idx <= Top.end /\ hdr'.idx >= hdr.at + 2
      /\ hdr'.idx + hdr'.left <= Top.end
  BY <1>1, <1>2, <1>3, <1>6, InHeader
<1> QED BY <1>1, <1>6, <1>7, ReadOctetStep

LEMMA LongLengthEndInv ==
  ASSUME IInv, LongLengthEnd
  PROVE  IInv'
<1>1. /\ pc = "longlength" /\ pc \in HeaderPcs /\ pc' = "body" /\ pc' \in HeaderPcs
      /\ UNCHANGED <<input, hdr, stack, heap, result>>
  BY DEF LongLengthEnd, HeaderPcs
<1>2. hdr.idx >= hdr.at + 2 /\ hdr.idx <= Top.end /\ hdr \in Headers
  BY <1>1, InHeader DEF IInv, HeaderInSlice
<1> QED BY <1>1, <1>2, ReadOctetStep

LEMMA PrimitiveBodyInv ==
  ASSUME IInv, PrimitiveBody
  PROVE  IInv'
<1> DEFINE node == [offset |-> hdr.at, header_len |-> HeaderLen, content_len |-> hdr.len,
                    indefinite |-> FALSE, class |-> hdr.class, constructed |-> FALSE,
                    tag |-> hdr.tag, kids |-> <<>>]
<1>1. /\ pc = "body" /\ pc \in HeaderPcs /\ pc # "done"
      /\ DefiniteEnd <= Top.end
      /\ Return(stack, node, DefiniteEnd)
  BY DEF PrimitiveBody, BodyFits, HeaderPcs
<1>2. /\ hdr \in Headers /\ hdr.at = Top.p /\ hdr.idx >= hdr.at + 2
      /\ hdr.at \in Nat /\ hdr.idx \in Nat /\ hdr.len \in Nat
  BY <1>1, InHeader DEF IInv, HeaderInSlice
<1>3. HeaderLen \in Nat /\ HeaderLen >= 2
  BY <1>2 DEF HeaderLen
<1>4. hdr.class \in 0 .. 3 /\ hdr.tag \in 0 .. TagMax
  BY <1>2 DEF Headers
<1>5. node \in Nodes
  BY <1>2, <1>3, <1>4 DEF Nodes
<1>6. /\ node.offset = hdr.at /\ node.header_len = HeaderLen
      /\ node.content_len = hdr.len /\ ~ node.indefinite /\ ~ node.constructed
      /\ node.kids = <<>>
  OBVIOUS
<1> HIDE DEF node
<1>7. DefiniteEnd \in Nat /\ DefiniteEnd = End(node) /\ Top.p <= DefiniteEnd
  BY <1>2, <1>3, <1>6 DEF DefiniteEnd, End, ContentEnd
<1>8. /\ stack \in Seq(Frames) /\ Len(stack) \in 1 .. Len(stack)
      /\ stack[Len(stack)] = Top
  BY TopFacts DEF IInv, Typed
<1>9. caller = "parse_rules" => stack[1].kids = <<>>
  BY <1>1 DEF IInv, OneElement
<1> QED BY <1>1, <1>2, <1>3, <1>5, <1>6, <1>7, <1>8, <1>9, ReturnStep

LEMMA ConstructedBodyInv ==
  ASSUME IInv, ConstructedBody
  PROVE  IInv'
<1>1. /\ pc = "body" /\ pc \in HeaderPcs
      /\ DefiniteEnd <= Top.end
      /\ Open("definite", hdr.idx, DefiniteEnd)
  BY DEF ConstructedBody, BodyFits, HeaderPcs
<1>2. /\ hdr.idx >= hdr.at + 2
      /\ hdr.at \in Nat /\ hdr.idx \in Nat /\ hdr.len \in Nat
  BY <1>1, InHeader DEF IInv, HeaderInSlice
<1>3. DefiniteEnd \in Nat /\ hdr.idx <= DefiniteEnd
  BY <1>2 DEF DefiniteEnd, HeaderLen
<1> QED BY <1>1, <1>2, <1>3, OpenStep

\* What both ways of closing an element share.
LEMMA CloseStep ==
  ASSUME IInv, pc = "contents", Top.kind \in {"definite", "indefinite"},
         NEW end \in Nat, end = End(NodeOf(Top)),
         Top.p <= end, end <= Top.end,
         Top.kind = "definite" => Top.p = Top.end,
         Return(Enclosing, NodeOf(Top), end)
  PROVE  IInv'
<1> DEFINE m == Len(stack) - 1
           node == NodeOf(Top)
<1>1. /\ stack \in Seq(Frames) /\ Len(stack) \in Nat /\ Len(stack) >= 1
      /\ Top \in Frames /\ Top = stack[Len(stack)]
      /\ Top.content <= Top.p /\ Top.p <= Top.end
      /\ Tiles(heap, Top.kids, Top.content, Top.p)
  BY TopFacts DEF IInv, Typed
<1>2. /\ Top.at \in Nat /\ Top.content \in Nat /\ Top.p \in Nat /\ Top.end \in Nat
      /\ Top.class \in 0 .. 3 /\ Top.tag \in 0 .. TagMax /\ Top.kids \in Seq(Nat)
  BY <1>1 DEF Frames
<1>3. Len(stack) >= 2
  <2>1. caller \in {"parse_rules", "parse_all"}
    BY DEF IInv, Typed
  <2>2. stack[1].kind = caller
    BY DEF IInv, FrameKinds
  <2> QED BY <1>1, <2>1, <2>2
<1>4. m \in 1 .. Len(stack) /\ m + 1 = Len(stack) /\ m \in Nat
  BY <1>1, <1>3
<1>5. /\ Enclosing \in Seq(Frames) /\ Len(Enclosing) = m
      /\ \A i \in 1 .. m : Enclosing[i] = stack[i]
  BY <1>1, <1>4 DEF Enclosing
<1>6. Top.at = stack[m].p /\ Top.end <= stack[m].end /\ stack[m].end \in Nat
  <2>1. m \in 1 .. Len(stack) - 1 /\ stack[m] \in Frames
    BY <1>1, <1>4
  <2>2. stack[m + 1].at = stack[m].p /\ stack[m + 1].end <= stack[m].end
    BY <2>1 DEF IInv, CallsNest
  <2> QED BY <1>1, <1>4, <2>1, <2>2 DEF Frames
<1>7. Top.content >= Top.at + 2
  BY <1>1, <1>3 DEF IInv, FrameKinds
<1>8. /\ node.offset = Top.at /\ node.header_len = Top.content - Top.at
      /\ node.content_len = (IF Top.kind = "definite" THEN Top.end ELSE Top.p) - Top.content
      /\ node.indefinite = (Top.kind = "indefinite")
      /\ node.constructed = TRUE /\ node.kids = Top.kids
      /\ node.class = Top.class /\ node.tag = Top.tag
  BY DEF NodeOf
<1>9. node.content_len = Top.p - Top.content
  BY <1>8
<1>10. Top.content - Top.at \in Nat /\ Top.p - Top.content \in Nat
  BY <1>1, <1>2, <1>7
<1>11. node \in Nodes
  <2>1. (Top.kind = "indefinite") \in BOOLEAN
    OBVIOUS
  <2>2. (IF Top.kind = "definite" THEN Top.end ELSE Top.p) - Top.content = Top.p - Top.content
    OBVIOUS
  <2> QED BY <1>2, <1>10, <2>1, <2>2 DEF NodeOf, Nodes
<1> HIDE DEF node
<1>12. node.header_len >= 2 /\ ContentStart(node) = Top.content /\ ContentEnd(node) = Top.p
  <2>1. node.header_len >= 2
    BY <1>2, <1>7, <1>8
  <2>2. Top.at + (Top.content - Top.at) = Top.content
    BY <1>2
  <2>3. Top.content + (Top.p - Top.content) = Top.p
    BY <1>2
  <2> QED BY <1>8, <1>9, <2>1, <2>2, <2>3 DEF ContentStart, ContentEnd
<1>13. \A k \in DOMAIN node.kids : node.kids[k] <= Len(heap)
  <2>1. \A k \in DOMAIN Top.kids : Top.kids[k] \in DOMAIN heap
    BY <1>1 DEF Tiles
  <2>2. heap \in Seq(Nodes)
    BY DEF IInv, Typed
  <2> QED BY <1>8, <2>1, <2>2
<1>14. caller = "parse_rules" => stack[1].kids = <<>>
  BY <1>1, <1>3 DEF IInv, OneElement
<1>15. rules = "der" => ~ node.indefinite
  <2>1. rules = "der" => Top.kind # "indefinite"
    BY <1>1 DEF IInv, NoneIndefiniteInDer
  <2> QED BY <1>8, <2>1
<1>16. Tiles(heap, node.kids, ContentStart(node), ContentEnd(node))
  BY <1>1, <1>8, <1>12
<1>17. end <= Enclosing[m].end /\ node.offset = Enclosing[m].p
  <2>1. m \in 1 .. m
    BY <1>4
  <2>2. Enclosing[m] = stack[m]
    BY <1>5, <2>1
  <2>3. end <= stack[m].end
    BY <1>2, <1>6
  <2>4. node.offset = stack[m].p
    BY <1>6, <1>8
  <2> QED BY <2>2, <2>3, <2>4
<1>18. Return(Enclosing, node, end) /\ end = End(node)
  BY DEF node
<1>19. pc # "done" /\ node.constructed
  BY <1>8
<1> HIDE DEF m
<1> QED BY <1>4, <1>5, <1>11, <1>12, <1>13, <1>14, <1>15, <1>16, <1>17, <1>18, <1>19, ReturnStep

LEMMA CloseDefiniteInv ==
  ASSUME IInv, CloseDefinite
  PROVE  IInv'
<1>1. /\ pc = "contents" /\ Top.kind = "definite" /\ Top.p >= Top.end
      /\ Return(Enclosing, NodeOf(Top), Top.end)
  BY DEF CloseDefinite
<1>2. /\ Top.at \in Nat /\ Top.content \in Nat /\ Top.p \in Nat /\ Top.end \in Nat
      /\ Top.p <= Top.end
  BY TopFacts DEF Frames
<1>3. Top.p = Top.end /\ Top.end <= Top.end /\ Top.p <= Top.end
  BY <1>1, <1>2
<1>4. /\ NodeOf(Top).offset = Top.at /\ NodeOf(Top).header_len = Top.content - Top.at
      /\ NodeOf(Top).content_len = Top.end - Top.content /\ ~ NodeOf(Top).indefinite
  BY <1>1 DEF NodeOf
<1>5. Top.end = End(NodeOf(Top))
  BY <1>2, <1>4 DEF End, ContentEnd
<1> QED BY <1>1, <1>2, <1>3, <1>5, CloseStep

LEMMA CloseIndefiniteInv ==
  ASSUME IInv, CloseIndefinite
  PROVE  IInv'
<1>1. /\ pc = "contents" /\ Top.kind = "indefinite" /\ Top.p + 1 < Top.end
      /\ Return(Enclosing, NodeOf(Top), Top.p + 2)
  BY DEF CloseIndefinite, MarkerAt
<1>2. /\ Top.at \in Nat /\ Top.content \in Nat /\ Top.p \in Nat /\ Top.end \in Nat
  BY TopFacts DEF Frames
<1>3. Top.p + 2 \in Nat /\ Top.p <= Top.p + 2 /\ Top.p + 2 <= Top.end
  BY <1>1, <1>2
<1>4. /\ NodeOf(Top).offset = Top.at /\ NodeOf(Top).header_len = Top.content - Top.at
      /\ NodeOf(Top).content_len = Top.p - Top.content /\ NodeOf(Top).indefinite
  BY <1>1 DEF NodeOf
<1>5. Top.p + 2 = End(NodeOf(Top))
  BY <1>2, <1>4 DEF End, ContentEnd
<1> QED BY <1>1, <1>3, <1>5, CloseStep

LEMMA CallerOnTop ==
  ASSUME IInv, Top.kind \in {"parse_rules", "parse_all"}
  PROVE  Len(stack) = 1
<1>1. Len(stack) \in Nat /\ Len(stack) >= 1 /\ Top = stack[Len(stack)]
  BY TopFacts
<1>2. SUFFICES ASSUME Len(stack) # 1
               PROVE  FALSE
  OBVIOUS
<1>3. Len(stack) \in 2 .. Len(stack)
  BY <1>1, <1>2, SMTT(30)
<1>4. Top.kind \in {"definite", "indefinite"}
  BY <1>1, <1>3 DEF IInv, FrameKinds
<1> QED BY <1>4

\* An action that fails blames the element being read, or the place where an
\* element or a marker should start: the offset of the top frame's loop.
LEMMA ErrorInv ==
  ASSUME IInv,
         \/ TooDeep \/ NoTag \/ TagError \/ LengthError \/ LongLengthError
         \/ BodyError \/ MarkerError \/ TrailingBytes
  PROVE  IInv'
<1> DEFINE Blames(o) ==
      \E kind \in ErrorKinds :
        /\ Fail(kind, o)
        /\ kind = "trailing-bytes" => caller = "parse_rules"
        /\ kind = "indefinite-in-der" => rules = "der"
<1>1. ASSUME Blames(Top.p), pc # "done"
      PROVE  IInv'
  BY <1>1, FailStep
<1>2. ASSUME Blames(hdr.at), pc \in HeaderPcs
      PROVE  IInv'
  <2>1. hdr.at = Top.p
    BY <1>2, InHeader
  <2>2. pc # "done"
    BY <1>2 DEF HeaderPcs
  <2> QED BY <1>1, <1>2, <2>1, <2>2
<1>3. CASE TooDeep \/ NoTag \/ MarkerError
  <2>1. Blames(Top.p) /\ pc # "done"
    BY <1>3 DEF TooDeep, NoTag, MarkerError, ErrorKinds
  <2> QED BY <1>1, <2>1
<1>4. CASE TrailingBytes
  <2>1. Top.kind = "parse_rules" => caller = "parse_rules"
    <3>1. ASSUME Top.kind = "parse_rules"
          PROVE  Len(stack) = 1
      BY <3>1, CallerOnTop
    <3> QED BY <3>1 DEF IInv, FrameKinds, Top
  <2>2. Blames(Top.p) /\ pc # "done"
    BY <1>4, <2>1 DEF TrailingBytes, ErrorKinds
  <2> QED BY <1>1, <2>2
<1>5. CASE TagError
  <2>1. Blames(hdr.at) /\ pc \in HeaderPcs
    BY <1>5 DEF TagError, ErrorKinds, HeaderPcs
  <2> QED BY <1>2, <2>1
<1>6. CASE LengthError
  <2>1. Blames(hdr.at) /\ pc \in HeaderPcs
    BY <1>6 DEF LengthError, AllowsIndefinite, ErrorKinds, HeaderPcs
  <2> QED BY <1>2, <2>1
<1>7. CASE LongLengthError \/ BodyError
  <2>1. Blames(hdr.at) /\ pc \in HeaderPcs
    BY <1>7 DEF LongLengthError, BodyError, ErrorKinds, HeaderPcs
  <2> QED BY <1>2, <2>1
<1> QED BY <1>3, <1>4, <1>5, <1>6, <1>7

LEMMA AcceptInv ==
  ASSUME IInv, Accept
  PROVE  IInv'
<1>1. /\ pc = "contents" /\ pc' = "done"
      /\ result' = [kind |-> "ok", offset |-> 0]
      /\ UNCHANGED <<data, rules, caller, hdr, stack, heap>>
      /\ \/ Top.kind = "parse_rules" /\ Top.kids # <<>> /\ Top.p = Len(data)
         \/ Top.kind = "parse_all" /\ Top.p >= Top.end
  BY DEF Accept, input
<1>2. Len(stack) = 1
  BY <1>1, CallerOnTop
<1>3. Top = stack[1] /\ Top.kind = caller /\ Top.end = Len(data)
  BY <1>2 DEF IInv, FrameKinds, Top
<1>4. Top.p = Len(data)
  <2>1. Top.p \in Nat /\ Top.end \in Nat /\ Top.p <= Top.end
    BY TopFacts DEF Frames
  <2> QED BY <1>1, <1>3, <2>1
<1>5. /\ Typed' /\ CallsNest' /\ ElementsTile' /\ FrameKinds'
      /\ NoneIndefiniteInDer' /\ ElementsBehind'
  <2>1. Typed'
    BY <1>1 DEF IInv, Typed, Results
  <2>2. CallsNest' /\ ElementsTile'
    BY <1>1 DEF IInv, CallsNest, ElementsTile, Depth
  <2>3. FrameKinds' /\ NoneIndefiniteInDer' /\ ElementsBehind'
    BY <1>1 DEF IInv, FrameKinds, NoneIndefiniteInDer, ElementsBehind, Top
  <2> QED BY <2>1, <2>2, <2>3
<1>6. HeaderInSlice' /\ OneElement'
  BY <1>1 DEF IInv, HeaderInSlice, OneElement, HeaderPcs
<1>7. Outcome'
  BY <1>1, <1>2, <1>3, <1>4 DEF Outcome, Top, ErrorKinds
<1> QED BY <1>5, <1>6, <1>7 DEF IInv

\* The parser is about to read some blob.
Starting ==
  /\ data \in Seq(Octets) /\ Len(data) <= UsizeMax
  /\ rules \in {"ber", "cer", "der"}
  /\ caller \in {"parse_rules", "parse_all"}
  /\ pc = "contents" /\ hdr = NoHeader /\ stack = <<CallFrame>> /\ heap = <<>>
  /\ result = [kind |-> "pending", offset |-> 0]

LEMMA StartInv == Starting => IInv
<1> SUFFICES ASSUME Starting PROVE IInv OBVIOUS
<1>1. /\ data \in Seq(Octets) /\ Len(data) <= UsizeMax /\ rules \in {"ber", "cer", "der"}
      /\ pc = "contents" /\ hdr = NoHeader /\ stack = <<CallFrame>> /\ heap = <<>>
      /\ result = [kind |-> "pending", offset |-> 0]
  BY DEF Starting
<1>2. data \in Seq(Octets) /\ Len(data) \in Nat /\ caller \in {"parse_rules", "parse_all"}
  BY DEF Starting
<1>3. CallFrame \in Frames
  BY <1>2, LimitsAssumption DEF CallFrame, Frames
<1>4. /\ CallFrame.kind = caller /\ CallFrame.content = 0 /\ CallFrame.p = 0
      /\ CallFrame.end = Len(data) /\ CallFrame.kids = <<>> /\ CallFrame.at = 0
  BY DEF CallFrame
<1>5. NoHeader \in Headers
  BY LimitsAssumption DEF NoHeader, Headers
<1> HIDE DEF CallFrame
<1>6. /\ stack \in Seq(Frames) /\ Len(stack) = 1 /\ stack[1] = CallFrame
      /\ Top = CallFrame /\ Depth = 0
  BY <1>1, <1>3 DEF Top, Depth
<1>a. Typed
  BY <1>1, <1>2, <1>5, <1>6 DEF Typed, Results
<1>b. CallsNest
  <2>1. Tiles(heap, <<>>, 0, 0)
    BY DEF Tiles
  <2> QED BY <1>2, <1>4, <1>6, <2>1, LimitsAssumption DEF CallsNest
<1>c. ElementsTile /\ ElementsBehind
  BY <1>1 DEF ElementsTile, ElementsBehind
<1>d. FrameKinds
  BY <1>4, <1>6 DEF FrameKinds
<1>e. HeaderInSlice /\ OneElement
  BY <1>1, <1>4, <1>6 DEF HeaderInSlice, HeaderPcs, OneElement
<1>f. NoneIndefiniteInDer
  BY <1>1, <1>2, <1>4, <1>6 DEF NoneIndefiniteInDer
<1>g. Outcome
  BY <1>1 DEF Outcome, ErrorKinds
<1> QED BY <1>a, <1>b, <1>c, <1>d, <1>e, <1>f, <1>g DEF IInv

LEMMA InitInv == Init => Starting /\ IInv
<1>1. Init => Starting BY ParserAssumption DEF Init, Starting
<1> QED BY <1>1, StartInv

LEMMA NextInv ==
  ASSUME IInv, [Next]_vars
  PROVE  IInv'
<1>1. CASE UNCHANGED vars
  BY <1>1 DEF vars, IInv, Typed, CallsNest, ElementsTile, FrameKinds, HeaderInSlice,
              OneElement, NoneIndefiniteInDer, ElementsBehind, Outcome, Top, Depth
<1>2. CASE \/ TooDeep \/ NoTag \/ TagError \/ LengthError \/ LongLengthError
           \/ BodyError \/ MarkerError \/ TrailingBytes
  BY <1>2, ErrorInv
<1>3. CASE BeginElement
  BY <1>3, BeginElementInv
<1>4. CASE TagOctet
  BY <1>4, TagOctetInv
<1>5. CASE ShortLength
  BY <1>5, ShortLengthInv
<1>6. CASE IndefiniteLength
  BY <1>6, IndefiniteLengthInv
<1>7. CASE LongLength
  BY <1>7, LongLengthInv
<1>8. CASE LongLengthOctet
  BY <1>8, LongLengthOctetInv
<1>9. CASE LongLengthEnd
  BY <1>9, LongLengthEndInv
<1>10. CASE PrimitiveBody
  BY <1>10, PrimitiveBodyInv
<1>11. CASE ConstructedBody
  BY <1>11, ConstructedBodyInv
<1>12. CASE CloseDefinite
  BY <1>12, CloseDefiniteInv
<1>13. CASE CloseIndefinite
  BY <1>13, CloseIndefiniteInv
<1>14. CASE Accept
  BY <1>14, AcceptInv
<1> QED BY <1>1, <1>2, <1>3, <1>4, <1>5, <1>6, <1>7, <1>8, <1>9, <1>10, <1>11,
           <1>12, <1>13, <1>14 DEF Next

\* No step of the parser changes what it was given.
LEMMA InputIsGiven ==
  ASSUME [Next]_vars
  PROVE  UNCHANGED input
BY DEF vars, input, Next, BeginElement, TooDeep, NoTag, TagOctet, TagError, ShortLength,
       IndefiniteLength, LongLength, LengthError, LongLengthOctet, LongLengthEnd,
       LongLengthError, PrimitiveBody, ConstructedBody, BodyError, CloseDefinite,
       CloseIndefinite, MarkerError, Accept, TrailingBytes, Fail, Return, Open

-----------------------------------------------------------------------------
(* The theorems *)

(* The inductive invariant holds of every state the parser reaches, on any  *)
(* set of blobs and for any limits.                                         *)
THEOREM Invariance == Spec => []IInv
<1>1. Init => IInv
  BY InitInv
<1>2. IInv /\ [Next]_vars => IInv'
  BY NextInv
<1> QED BY <1>1, <1>2, PTL DEF Spec

(* The state keeps its types: in particular the indexing of the blob and of *)
(* the call stack is never out of range.                                    *)
THEOREM TypeCorrect == Spec => []TypeOK
<1> DEFINE Given == data \in Blobs /\ rules \in RulesUsed /\ caller \in Callers
<1>1. IInv /\ Given => TypeOK
  BY DEF IInv, Typed, TypeOK
<1>2. Init => Given
  BY DEF Init
<1>3. Given /\ [Next]_vars => Given'
  BY InputIsGiven DEF input
<1> QED BY <1>1, <1>2, <1>3, Invariance, PTL DEF Spec

(* Every element that parse_tlv returns is whole: its children tile its     *)
(* contents (tlv.rs parse_tlv and parse_children).                          *)
THEOREM WholeElements == Spec => []ElementsTile
<1>1. IInv => ElementsTile
  BY DEF IInv
<1> QED BY <1>1, Invariance, PTL

(* The slices handed down the recursion nest, and the recursion is no       *)
(* deeper than MAX_NESTING allows.                                          *)
THEOREM NestedCalls == Spec => []CallsNest
<1>1. IInv => CallsNest
  BY DEF IInv
<1> QED BY <1>1, Invariance, PTL

(* Errors carry an absolute offset that no finished element covers.         *)
THEOREM LocatedErrors == Spec => []ErrorBehindElements
<1>1. ASSUME IInv
      PROVE  ErrorBehindElements
  <2>1. Top.p \in Nat /\ Top.end \in Nat /\ Len(data) \in Nat /\ Top.p <= Top.end
        /\ Top.end <= Len(data)
    BY <1>1, TopFacts, OctetsOfBlob DEF Frames, IInv
  <2>2. Top.p <= Len(data)
    BY <2>1
  <2> QED BY <1>1, <2>2 DEF ErrorBehindElements, IInv, ElementsBehind, Outcome
<1> QED BY <1>1, Invariance, PTL

OffsetInBlob == result.kind \in ErrorKinds => result.offset \in 0 .. Len(data)

LEMMA ErrorOffset ==
  ASSUME IInv
  PROVE  OffsetInBlob
<1>1. Top.p \in Nat /\ Top.end \in Nat /\ Len(data) \in Nat /\ Top.p <= Top.end
      /\ Top.end <= Len(data)
  BY TopFacts, OctetsOfBlob DEF Frames, IInv
<1>2. Top.p \in 0 .. Len(data)
  BY <1>1
<1> QED BY <1>2 DEF OffsetInBlob, IInv, Outcome

(* The parser implements the contract its callers rely on: every step of it *)
(* either leaves what they see unchanged or is the one step that answers.   *)
THEOREM ImplementsContract == Spec => KeepsContract
<1>0. IInv => OffsetInBlob
  BY ErrorOffset
<1>1. Init => Contract!Init
  BY DEF Init, Contract!Init
<1>2. IInv' => OffsetInBlob'
  BY <1>0, PTL
<1>3. \A f, kids, from, to : Tiles(f, kids, from, to) => Contract!Tiles(f, kids, from, to)
  BY DEF Tiles, Contract!Tiles, End, Contract!End, ContentEnd, Contract!ContentEnd
<1>4. \A f, i : ElementIsWhole(f, i) => Contract!ElementIsWhole(f, i)
  BY <1>3 DEF ElementIsWhole, Contract!ElementIsWhole, ContentStart, ContentEnd,
              Contract!ContentStart, Contract!ContentEnd
<1>5. ErrorKinds = Contract!ErrorKinds
  BY DEF ErrorKinds, Contract!ErrorKinds
<1>6. ASSUME IInv, IInv', [Next]_vars
      PROVE  [Contract!Next]_Contract!vars
  <2>1. CASE UNCHANGED vars
    BY <2>1 DEF vars, Contract!vars
  <2>2. CASE Next
    <3>1. UNCHANGED <<data, rules, caller>>
      BY <2>2 DEF Next, BeginElement, TooDeep, NoTag, TagOctet, TagError, ShortLength,
           IndefiniteLength, LongLength, LengthError, LongLengthOctet, LongLengthEnd,
           LongLengthError, PrimitiveBody, ConstructedBody, BodyError, CloseDefinite,
           CloseIndefinite, MarkerError, Accept, TrailingBytes, Fail, Return, Open, input
    <3>2. pc # "done"
      BY <2>2 DEF Next, BeginElement, TooDeep, NoTag, TagOctet, TagError, ShortLength,
           IndefiniteLength, LongLength, LengthError, LongLengthOctet, LongLengthEnd,
           LongLengthError, PrimitiveBody, ConstructedBody, BodyError, CloseDefinite,
           CloseIndefinite, MarkerError, Accept, TrailingBytes
    <3>3. result.kind = "pending"
      BY <1>6, <3>2 DEF IInv, Outcome
    <3>4. result' = result \/ (result'.kind = "ok" \/ result'.kind \in ErrorKinds)
      BY <2>2 DEF Next, BeginElement, TooDeep, NoTag, TagOctet, TagError, ShortLength,
           IndefiniteLength, LongLength, LengthError, LongLengthOctet, LongLengthEnd,
           LongLengthError, PrimitiveBody, ConstructedBody, BodyError, CloseDefinite,
           CloseIndefinite, MarkerError, Accept, TrailingBytes, Fail, Return, Open,
           ErrorKinds
    <3>5. CASE result' = result
      BY <3>1, <3>3, <3>5 DEF Contract!vars
    <3>6. CASE result'.kind = "ok"
      <4>1. \A i \in DOMAIN heap' : ElementIsWhole(heap', i)
        BY <1>6 DEF IInv, ElementsTile
      <4>2. Len(stack') = 1 /\ Top' = stack'[1] /\ stack'[1].p = Len(data')
        BY <1>6, <3>6 DEF IInv, Outcome, Top
      <4>3. Tiles(heap', stack'[1].kids, 0, Len(data))
        <5>1. stack'[1].content = 0
          BY <1>6 DEF IInv, FrameKinds
        <5>2. Tiles(heap', stack'[1].kids, stack'[1].content, stack'[1].p)
          BY <1>6, <4>2 DEF IInv, CallsNest
        <5> QED BY <3>1, <4>2, <5>1, <5>2
      <4>4. caller = "parse_rules" => Len(stack'[1].kids) = 1
        BY <1>6, <3>1, <3>6, <4>2 DEF IInv, Outcome, OneElement
      <4>5. rules = "der" => \A i \in DOMAIN heap' : ~ heap'[i].indefinite
        BY <1>6, <3>1 DEF IInv, NoneIndefiniteInDer
      <4>6. Contract!Accept
        <5>1. /\ (IF result.kind = "ok" THEN heap ELSE <<>>)' = heap'
              /\ (IF result.kind = "ok" THEN stack[1].kids ELSE <<>>)' = stack'[1].kids
          BY <3>6
        <5>2. /\ \A i \in DOMAIN heap' : Contract!ElementIsWhole(heap', i)
              /\ Contract!Tiles(heap', stack'[1].kids, 0, Len(data))
          BY <1>3, <1>4, <4>1, <4>3
        <5> QED BY <3>1, <3>3, <3>6, <4>4, <4>5, <5>1, <5>2 DEF Contract!Accept
      <4> QED BY <4>6 DEF Contract!Next
    <3>7. CASE result'.kind \in ErrorKinds
      <4>1. result'.offset \in 0 .. Len(data)
        BY <1>6, <1>2, <3>1, <3>7 DEF OffsetInBlob
      <4>2. result'.kind # "ok" /\ result.kind # "ok"
        BY <3>3, <3>7 DEF ErrorKinds
      <4>4. /\ result'.kind = "trailing-bytes" => caller = "parse_rules"
            /\ result'.kind = "indefinite-in-der" => rules = "der"
        BY <1>6, <3>1 DEF IInv, Outcome
      <4>5. Contract!Reject
        BY <1>5, <3>1, <3>3, <3>7, <4>1, <4>2, <4>4 DEF Contract!Reject
      <4> QED BY <4>5 DEF Contract!Next
    <3> QED BY <3>4, <3>5, <3>6, <3>7
  <2> QED BY <1>6, <2>1, <2>2
<1> QED BY <1>1, <1>6, Invariance, PTL DEF Spec, KeepsContract, Contract!Spec

-----------------------------------------------------------------------------
(* DerIsMinimal: under DER an element that was read has the shortest       *)
(* header there is.                                                        *)

-----------------------------------------------------------------------------
(* The powers *)

\* Each power is 128 or 256 times the one before.
LEMMA NextPower128 ==
  /\ Power128(0) = 1
  /\ \A n \in 0 .. 4 : Power128(n + 1) = 128 * Power128(n)
<1>1. Power128(0) = 1 BY DEF Power128
<1>2. Power128(1) = 128 * Power128(0) BY DEF Power128
<1>3. Power128(2) = 128 * Power128(1) BY DEF Power128
<1>4. Power128(3) = 128 * Power128(2) BY DEF Power128
<1>5. Power128(4) = 128 * Power128(3) BY DEF Power128
<1>6. Power128(5) = 128 * Power128(4) BY DEF Power128
<1>7. ASSUME NEW n \in 0 .. 4 PROVE Power128(n + 1) = 128 * Power128(n)
  <2>1. n = 0 \/ n = 1 \/ n = 2 \/ n = 3 \/ n = 4 OBVIOUS
  <2>2. CASE n = 0 BY <1>2, <2>2
  <2>3. CASE n = 1 BY <1>3, <2>3
  <2>4. CASE n = 2 BY <1>4, <2>4
  <2>5. CASE n = 3 BY <1>5, <2>5
  <2>6. CASE n = 4 BY <1>6, <2>6
  <2> QED BY <2>1, <2>2, <2>3, <2>4, <2>5, <2>6
<1> QED BY <1>1, <1>7

LEMMA NextPower256 ==
  /\ Power256(0) = 1
  /\ \A n \in 0 .. 7 : Power256(n + 1) = 256 * Power256(n)
<1>1. Power256(0) = 1 BY DEF Power256
<1>2. Power256(1) = 256 * Power256(0) BY DEF Power256
<1>3. Power256(2) = 256 * Power256(1) BY DEF Power256
<1>4. Power256(3) = 256 * Power256(2) BY DEF Power256
<1>5. Power256(4) = 256 * Power256(3) BY DEF Power256
<1>6. Power256(5) = 256 * Power256(4) BY DEF Power256
<1>7. Power256(6) = 256 * Power256(5) BY DEF Power256
<1>8. Power256(7) = 256 * Power256(6) BY DEF Power256
<1>9. Power256(8) = 256 * Power256(7) BY DEF Power256
<1>10. ASSUME NEW n \in 0 .. 7 PROVE Power256(n + 1) = 256 * Power256(n)
  <2>1. n = 0 \/ n = 1 \/ n = 2 \/ n = 3 \/ n = 4 \/ n = 5 \/ n = 6 \/ n = 7 OBVIOUS
  <2>2. CASE n = 0 BY <1>2, <2>2
  <2>3. CASE n = 1 BY <1>3, <2>3
  <2>4. CASE n = 2 BY <1>4, <2>4
  <2>5. CASE n = 3 BY <1>5, <2>5
  <2>6. CASE n = 4 BY <1>6, <2>6
  <2>7. CASE n = 5 BY <1>7, <2>7
  <2>8. CASE n = 6 BY <1>8, <2>8
  <2>9. CASE n = 7 BY <1>9, <2>9
  <2> QED BY <2>1, <2>2, <2>3, <2>4, <2>5, <2>6, <2>7, <2>8, <2>9
<1> QED BY <1>1, <1>10

\* They are natural numbers, and grow.
LEMMA Powers128Grow ==
  /\ \A n \in 0 .. 5 : Power128(n) \in Nat
  /\ \A m, n \in 0 .. 5 : m <= n => Power128(m) <= Power128(n)
<1>1. Power128(0) \in Nat /\ Power128(1) = 128 * Power128(0)
  BY NextPower128
<1>2. Power128(1) \in Nat /\ Power128(0) <= Power128(1) /\ Power128(2) = 128 * Power128(1)
  BY <1>1, NextPower128
<1>3. Power128(2) \in Nat /\ Power128(1) <= Power128(2) /\ Power128(3) = 128 * Power128(2)
  BY <1>2, NextPower128
<1>4. Power128(3) \in Nat /\ Power128(2) <= Power128(3) /\ Power128(4) = 128 * Power128(3)
  BY <1>3, NextPower128
<1>5. Power128(4) \in Nat /\ Power128(3) <= Power128(4) /\ Power128(5) = 128 * Power128(4)
  BY <1>4, NextPower128
<1>6. Power128(5) \in Nat /\ Power128(4) <= Power128(5)
  BY <1>5
<1>7. \A n \in 0 .. 5 : n = 0 \/ n = 1 \/ n = 2 \/ n = 3 \/ n = 4 \/ n = 5
  OBVIOUS
<1>8. \A n \in 0 .. 5 : Power128(n) \in Nat
  BY <1>1, <1>2, <1>3, <1>4, <1>5, <1>6, <1>7
<1>9. ASSUME NEW m \in 0 .. 5, NEW n \in 0 .. 5, m <= n
      PROVE  Power128(m) <= Power128(n)
  BY <1>1, <1>2, <1>3, <1>4, <1>5, <1>6, <1>7, <1>9
<1> QED BY <1>8, <1>9

LEMMA Powers256Grow ==
  /\ \A n \in 0 .. 8 : Power256(n) \in Nat
  /\ \A m, n \in 0 .. 8 : m <= n => Power256(m) <= Power256(n)
<1>1. Power256(0) \in Nat /\ Power256(1) = 256 * Power256(0)
  BY NextPower256
<1>2. Power256(1) \in Nat /\ Power256(0) <= Power256(1) /\ Power256(2) = 256 * Power256(1)
  BY <1>1, NextPower256
<1>3. Power256(2) \in Nat /\ Power256(1) <= Power256(2) /\ Power256(3) = 256 * Power256(2)
  BY <1>2, NextPower256
<1>4. Power256(3) \in Nat /\ Power256(2) <= Power256(3) /\ Power256(4) = 256 * Power256(3)
  BY <1>3, NextPower256
<1>5. Power256(4) \in Nat /\ Power256(3) <= Power256(4) /\ Power256(5) = 256 * Power256(4)
  BY <1>4, NextPower256
<1>6. Power256(5) \in Nat /\ Power256(4) <= Power256(5) /\ Power256(6) = 256 * Power256(5)
  BY <1>5, NextPower256
<1>7. Power256(6) \in Nat /\ Power256(5) <= Power256(6) /\ Power256(7) = 256 * Power256(6)
  BY <1>6, NextPower256
<1>8. Power256(7) \in Nat /\ Power256(6) <= Power256(7) /\ Power256(8) = 256 * Power256(7)
  BY <1>7, NextPower256
<1>9. Power256(8) \in Nat /\ Power256(7) <= Power256(8)
  BY <1>8
<1>10. \A n \in 0 .. 8 : n = 0 \/ n = 1 \/ n = 2 \/ n = 3 \/ n = 4 \/ n = 5 \/ n = 6
                          \/ n = 7 \/ n = 8
  OBVIOUS
<1>11. \A n \in 0 .. 8 : Power256(n) \in Nat
  BY <1>1, <1>2, <1>3, <1>4, <1>5, <1>6, <1>7, <1>8, <1>9, <1>10
<1>12. ASSUME NEW m \in 0 .. 8, NEW n \in 0 .. 8, m <= n
       PROVE  Power256(m) <= Power256(n)
  BY <1>1, <1>2, <1>3, <1>4, <1>5, <1>6, <1>7, <1>8, <1>9, <1>10, <1>12
<1> QED BY <1>11, <1>12

\* A tag number that n octets hold and n - 1 do not takes n octets.
LEMMA TagOctetsAre ==
  ASSUME NEW tag \in Nat, tag >= 31, NEW n \in 1 .. 5,
         tag < Power128(n), Power128(n - 1) <= tag
  PROVE  TagOctets(tag) = n
<1> DEFINE Fits(k) == tag < Power128(k) /\ (k = 1 \/ tag >= Power128(k - 1))
<1>1. Fits(n) BY Powers128Grow
<1>2. ASSUME NEW k \in 1 .. 5, Fits(k) PROVE k = n
  <2>1. /\ k \in 0 .. 5 /\ n \in 0 .. 5 /\ k - 1 \in 0 .. 5 /\ n - 1 \in 0 .. 5
        /\ Power128(k) \in Nat /\ Power128(n) \in Nat
        /\ Power128(k - 1) \in Nat /\ Power128(n - 1) \in Nat
    BY Powers128Grow
  <2>2. CASE k < n
    <3>1. Power128(k) <= Power128(n - 1) BY <2>1, <2>2, Powers128Grow
    <3> QED BY <1>2, <2>1, <3>1
  <2>3. CASE k > n
    <3>1. Power128(n) <= Power128(k - 1) BY <2>1, <2>3, Powers128Grow
    <3> QED BY <1>2, <2>1, <2>3, <3>1
  <2> QED BY <2>2, <2>3
<1>3. (CHOOSE k \in 1 .. 5 : Fits(k)) = n
  <2> HIDE DEF Fits
  <2> QED BY <1>1, <1>2
<1> QED BY <1>3 DEF TagOctets

LEMMA LengthOctetsAre ==
  ASSUME NEW len \in Nat, len >= 128, NEW n \in 1 .. 8,
         len < Power256(n), Power256(n - 1) <= len
  PROVE  LengthOctets(len) = 1 + n
<1> DEFINE Fits(k) == len < Power256(k) /\ len >= Power256(k - 1)
<1>1. Fits(n) BY Powers256Grow
<1>2. ASSUME NEW k \in 1 .. 8, Fits(k) PROVE k = n
  <2>1. /\ k \in 0 .. 8 /\ n \in 0 .. 8 /\ k - 1 \in 0 .. 8 /\ n - 1 \in 0 .. 8
        /\ Power256(k) \in Nat /\ Power256(n) \in Nat
        /\ Power256(k - 1) \in Nat /\ Power256(n - 1) \in Nat
    BY Powers256Grow
  <2>2. CASE k < n
    <3>1. Power256(k) <= Power256(n - 1) BY <2>1, <2>2, Powers256Grow
    <3> QED BY <1>2, <2>1, <3>1
  <2>3. CASE k > n
    <3>1. Power256(n) <= Power256(k - 1) BY <2>1, <2>3, Powers256Grow
    <3> QED BY <1>2, <2>1, <2>3, <3>1
  <2> QED BY <2>2, <2>3
<1>3. (CHOOSE k \in 1 .. 8 : Fits(k)) = n
  <2> HIDE DEF Fits
  <2> QED BY <1>1, <1>2
<1>4. ~ (len < 128) OBVIOUS
<1>5. LengthOctets(len) = 1 + (CHOOSE k \in 1 .. 8 : Fits(k))
  BY <1>4, Zenon DEF LengthOctets
<1> QED BY <1>3, <1>5, Zenon

\* The tag numbers there are take five octets at most.
LEMMA TagOctetsBound ==
  ASSUME NEW tag \in 0 .. TagMax
  PROVE  tag < Power128(5) /\ TagOctets(tag) \in 0 .. 5
<1>1. tag \in Nat /\ tag < 65536 * 65536
  BY LimitsAssumption
<1>2. Power128(5) = 128 * 128 * 128 * 128 * 128
  BY DEF Power128
<1>3. tag < Power128(5)
  BY <1>1, <1>2
<1>4. ASSUME NEW m \in 0 .. 4, NEW n \in 1 .. 5, n = m + 1,
             tag >= 31, tag < Power128(n), Power128(m) <= tag
      PROVE  TagOctets(tag) \in 0 .. 5
  <2>1. n - 1 = m BY <1>4
  <2>2. TagOctets(tag) = n BY <1>1, <1>4, <2>1, TagOctetsAre
  <2> QED BY <2>2
<1>5. CASE tag < 31
  BY <1>3, <1>5 DEF TagOctets
<1>6. CASE tag >= 31
  <2>1. /\ Power128(0) \in Nat /\ Power128(1) \in Nat /\ Power128(2) \in Nat
        /\ Power128(3) \in Nat /\ Power128(4) \in Nat /\ Power128(5) \in Nat
    BY Powers128Grow
  <2>2. Power128(0) <= tag
    BY <1>6, NextPower128
  <2>3. CASE tag < Power128(1) BY <1>3, <1>4, <1>6, <2>2, <2>3
  <2>4. CASE Power128(1) <= tag /\ tag < Power128(2) BY <1>3, <1>4, <1>6, <2>4
  <2>5. CASE Power128(2) <= tag /\ tag < Power128(3) BY <1>3, <1>4, <1>6, <2>5
  <2>6. CASE Power128(3) <= tag /\ tag < Power128(4) BY <1>3, <1>4, <1>6, <2>6
  <2>7. CASE Power128(4) <= tag BY <1>3, <1>4, <1>6, <2>7
  <2> QED BY <1>1, <2>1, <2>3, <2>4, <2>5, <2>6, <2>7
<1> QED BY <1>1, <1>3, <1>5, <1>6

-----------------------------------------------------------------------------
(* What the octets read so far say of the header: no octet of a tag number *)
(* or, under DER, of a length was needless.                                *)

\* Octets of the tag number and of the length read so far.
TagRead == hdr.idx - hdr.at - 1
LengthRead == hdr.idx - hdr.at - 2 - TagOctets(hdr.tag)

TagIsMinimal ==
  /\ pc = "tag" =>
       \/ TagRead = 0 /\ hdr.tag = 0
       \/ /\ TagRead \in 1 .. 5
          /\ hdr.tag < Power128(TagRead) /\ Power128(TagRead - 1) <= hdr.tag
  /\ pc = "length" => hdr.idx - hdr.at = 1 + TagOctets(hdr.tag)

LengthIsMinimal ==
  /\ pc = "longlength" =>
       \/ /\ LengthRead = 0 /\ hdr.len = 0 /\ hdr.left \in 1 .. 8
          /\ hdr.left > 1 => Octet(hdr.idx) # 0
       \/ /\ LengthRead \in 1 .. 8 /\ LengthRead + hdr.left <= 8
          /\ hdr.len < Power256(LengthRead)
          /\ LengthRead + hdr.left > 1 => Power256(LengthRead - 1) <= hdr.len
  /\ pc = "body" => HeaderLen = 1 + TagOctets(hdr.tag) + LengthOctets(hdr.len)

\* The header of an open element is minimal too.
FramesAreMinimal ==
  \A i \in DOMAIN stack :
    stack[i].kind = "definite" =>
      stack[i].content - stack[i].at =
        1 + TagOctets(stack[i].tag) + LengthOctets(stack[i].end - stack[i].content)

MinimalInv ==
  /\ TagIsMinimal
  /\ rules = "der" => LengthIsMinimal /\ FramesAreMinimal
  /\ DerIsMinimal

\* A step that leaves the header's octets behind it.
LEMMA NotInHeader ==
  ASSUME MinimalInv, pc' \in {"contents", "done"}, UNCHANGED <<input, stack, heap>>
  PROVE  MinimalInv'
BY DEF MinimalInv, TagIsMinimal, LengthIsMinimal, FramesAreMinimal, DerIsMinimal, input

\* A step that reads the header on.
LEMMA HeaderReadOn ==
  ASSUME MinimalInv, UNCHANGED <<input, stack, heap>>,
         TagIsMinimal', rules = "der" => LengthIsMinimal'
  PROVE  MinimalInv'
BY DEF MinimalInv, FramesAreMinimal, DerIsMinimal, input

LEMMA BeginElementMinimal ==
  ASSUME IInv, MinimalInv, BeginElement
  PROVE  MinimalInv'
<1> DEFINE id == Octet(Top.p)
           tag == IF id % 32 = 31 THEN 0 ELSE id % 32
<1>1. Top.p \in Nat /\ id \in 0 .. 255
  <2>1. Top.p \in Nat /\ Top.end \in Nat /\ Top.end <= Len(data) /\ Top.p < Top.end
    BY TopFacts DEF Frames, BeginElement
  <2>2. id \in Octets
    BY <2>1, OctetsOfBlob DEF IInv
  <2> QED BY <2>1, <2>2 DEF Octets
<1>2. /\ hdr'.at = Top.p /\ hdr'.idx = Top.p + 1 /\ hdr'.tag = tag
      /\ pc' = IF id % 32 = 31 THEN "tag" ELSE "length"
      /\ UNCHANGED <<input, stack, heap>>
  BY DEF BeginElement
<1> HIDE DEF id
<1>3. id % 32 \in 0 .. 31
  BY <1>1
<1>4. TagIsMinimal'
  <2>1. CASE id % 32 = 31
    BY <1>1, <1>2, <2>1 DEF TagIsMinimal, TagRead
  <2>2. CASE id % 32 # 31
    <3>1. TagOctets(tag) = 0
      BY <1>3, <2>2 DEF TagOctets
    <3> QED BY <1>1, <1>2, <2>2, <3>1 DEF TagIsMinimal
  <2> QED BY <2>1, <2>2
<1>5. LengthIsMinimal'
  BY <1>2 DEF LengthIsMinimal
<1> QED BY <1>2, <1>4, <1>5, HeaderReadOn

LEMMA TagOctetMinimal ==
  ASSUME IInv, MinimalInv, TagOctet
  PROVE  MinimalInv'
<1> DEFINE low == Octet(hdr.idx) % 128
<1>1. /\ pc = "tag" /\ hdr.idx < Top.end
      /\ ~ (hdr.idx = hdr.at + 1 /\ Octet(hdr.idx) = 128)
      /\ Octet(hdr.idx) < 128 => TagSoFar >= 31
      /\ hdr' = [hdr EXCEPT !.tag = TagSoFar, !.idx = hdr.idx + 1]
      /\ pc' = IF Octet(hdr.idx) < 128 THEN "length" ELSE "tag"
      /\ UNCHANGED <<input, stack, heap>>
  BY DEF TagOctet
<1>2. /\ hdr \in Headers /\ hdr.at \in Nat /\ hdr.idx \in Nat /\ hdr.at < hdr.idx
      /\ hdr.tag \in Nat /\ Octet(hdr.idx) \in 0 .. 255
  BY <1>1, InHeader DEF HeaderPcs, Headers, Octets
<1>3. low \in 0 .. 127 /\ TagSoFar = 128 * hdr.tag + low
  BY <1>2 DEF TagSoFar
<1> HIDE DEF low
<1>4. /\ hdr'.at = hdr.at /\ hdr'.idx = hdr.idx + 1 /\ hdr'.tag = TagSoFar
  BY <1>1, <1>2 DEF Headers
<1>5. TagRead \in Nat /\ TagRead' = TagRead + 1
  BY <1>2, <1>4 DEF TagRead
<1>6. TagSoFar \in 0 .. TagMax
  BY <1>2, <1>3, LimitsAssumption DEF TagOctet
<1>7. /\ TagRead + 1 \in 1 .. 5
      /\ TagSoFar < Power128(TagRead + 1) /\ Power128(TagRead) <= TagSoFar
  <2>1. CASE TagRead = 0
    <3>1. hdr.tag = 0 /\ hdr.idx = hdr.at + 1
      BY <1>1, <1>2, <2>1 DEF MinimalInv, TagIsMinimal, TagRead
    <3>2. TagSoFar = low /\ low >= 1
      <4>1. Octet(hdr.idx) # 128
        BY <1>1, <3>1
      <4>2. CASE Octet(hdr.idx) < 128
        BY <1>1, <1>3, <3>1, <4>2
      <4>3. CASE Octet(hdr.idx) > 128
        BY <1>2, <1>3, <3>1, <4>3 DEF low
      <4> QED BY <1>2, <4>1, <4>2, <4>3
    <3>3. Power128(0) = 1 /\ Power128(1) = 128
      BY NextPower128
    <3> QED BY <1>3, <2>1, <3>2, <3>3
  <2>2. CASE TagRead # 0
    <3>1. /\ TagRead \in 1 .. 5
          /\ hdr.tag < Power128(TagRead) /\ Power128(TagRead - 1) <= hdr.tag
      BY <1>1, <2>2 DEF MinimalInv, TagIsMinimal
    <3>2. Power128(TagRead) \in Nat /\ Power128(TagRead - 1) \in Nat
      BY <3>1, Powers128Grow
    <3>3. Power128(TagRead) = 128 * Power128(TagRead - 1)
      BY <3>1, NextPower128
    <3>4. Power128(TagRead) <= TagSoFar
      BY <1>2, <1>3, <3>1, <3>2, <3>3
    <3>5. TagRead # 5
      BY <1>6, <3>2, <3>4, TagOctetsBound
    <3>6. Power128(TagRead + 1) = 128 * Power128(TagRead)
      BY <3>1, <3>5, NextPower128
    <3> QED BY <1>2, <1>3, <3>1, <3>2, <3>4, <3>5, <3>6
  <2> QED BY <2>1, <2>2
<1>8. TagIsMinimal'
  <2>1. CASE Octet(hdr.idx) < 128
    <3>1. TagOctets(TagSoFar) = TagRead + 1
      BY <1>1, <1>5, <1>6, <1>7, <2>1, TagOctetsAre
    <3> QED BY <1>1, <1>2, <1>4, <1>5, <2>1, <3>1 DEF TagIsMinimal, TagRead
  <2>2. CASE ~ (Octet(hdr.idx) < 128)
    BY <1>1, <1>4, <1>5, <1>7, <2>2 DEF TagIsMinimal
  <2> QED BY <2>1, <2>2
<1>9. LengthIsMinimal'
  BY <1>1 DEF LengthIsMinimal
<1> QED BY <1>1, <1>8, <1>9, HeaderReadOn

\* Under DER the header read so far, at its length octet: where idx stands.
LEMMA AtLength ==
  ASSUME IInv, MinimalInv, pc = "length", hdr.idx < Top.end
  PROVE  /\ hdr \in Headers /\ hdr.at \in Nat /\ hdr.idx \in Nat
         /\ TagOctets(hdr.tag) \in 0 .. 5
         /\ hdr.idx = hdr.at + 1 + TagOctets(hdr.tag)
         /\ Octet(hdr.idx) \in 0 .. 255
<1>1. /\ hdr \in Headers /\ hdr.at \in Nat /\ hdr.idx \in Nat
      /\ Octet(hdr.idx) \in 0 .. 255
  BY InHeader DEF HeaderPcs, Octets
<1>2. TagOctets(hdr.tag) \in 0 .. 5
  BY <1>1, TagOctetsBound DEF Headers
<1>3. hdr.idx - hdr.at = 1 + TagOctets(hdr.tag)
  BY DEF MinimalInv, TagIsMinimal
<1> QED BY <1>1, <1>2, <1>3

LEMMA ShortLengthMinimal ==
  ASSUME IInv, MinimalInv, ShortLength
  PROVE  MinimalInv'
<1>1. /\ pc = "length" /\ hdr.idx < Top.end /\ Octet(hdr.idx) < 128
      /\ hdr' = [hdr EXCEPT !.len = Octet(hdr.idx), !.idx = hdr.idx + 1]
      /\ pc' = "body"
      /\ UNCHANGED <<input, stack, heap>>
  BY DEF ShortLength
<1>2. /\ hdr'.at = hdr.at /\ hdr'.idx = hdr.idx + 1 /\ hdr'.tag = hdr.tag
      /\ hdr'.len = Octet(hdr.idx)
  BY <1>1, AtLength DEF Headers
<1>3. LengthOctets(Octet(hdr.idx)) = 1
  BY <1>1 DEF LengthOctets
<1>4. hdr'.idx - hdr'.at = 1 + TagOctets(hdr.tag) + 1
  BY <1>1, <1>2, AtLength
<1>5. LengthIsMinimal'
  BY <1>1, <1>2, <1>3, <1>4 DEF LengthIsMinimal, HeaderLen
<1>6. TagIsMinimal'
  BY <1>1 DEF TagIsMinimal
<1> QED BY <1>1, <1>5, <1>6, HeaderReadOn

LEMMA LongLengthMinimal ==
  ASSUME IInv, MinimalInv, LongLength
  PROVE  MinimalInv'
<1>1. /\ pc = "length" /\ hdr.idx < Top.end /\ Octet(hdr.idx) \in 129 .. 254
      /\ Announced <= MaxLengthOctets
      /\ ~ PaddedLength
      /\ hdr' = [hdr EXCEPT !.left = Announced, !.len = 0, !.idx = hdr.idx + 1]
      /\ pc' = "longlength"
      /\ UNCHANGED <<input, stack, heap>>
  BY DEF LongLength
<1>2. Announced \in 1 .. 8
  BY <1>1, LimitsAssumption DEF Announced
<1>3. /\ hdr'.at = hdr.at /\ hdr'.idx = hdr.idx + 1 /\ hdr'.tag = hdr.tag
      /\ hdr'.len = 0 /\ hdr'.left = Announced
  BY <1>1, AtLength DEF Headers
<1>4. LengthRead' = 0
  BY <1>1, <1>3, AtLength DEF LengthRead
<1>5. rules = "der" /\ Announced > 1 => Octet(hdr.idx)' # 0
  <2>1. Octet(hdr.idx)' = Octet(hdr.idx + 1)
    BY <1>1, <1>3 DEF Octet, input
  <2> QED BY <1>1, <2>1 DEF PaddedLength
<1>6. rules = "der" => LengthIsMinimal'
  BY <1>1, <1>2, <1>3, <1>4, <1>5 DEF LengthIsMinimal
<1>7. TagIsMinimal'
  BY <1>1 DEF TagIsMinimal
<1> QED BY <1>1, <1>6, <1>7, HeaderReadOn

LEMMA LongLengthOctetMinimal ==
  ASSUME IInv, MinimalInv, LongLengthOctet
  PROVE  MinimalInv'
<1>1. /\ pc = "longlength" /\ hdr.left > 0 /\ pc' = pc
      /\ hdr' = [hdr EXCEPT !.len = 256 * hdr.len + Octet(hdr.idx),
                            !.idx = hdr.idx + 1, !.left = hdr.left - 1]
      /\ UNCHANGED <<input, stack, heap>>
  BY DEF LongLengthOctet
<1>2. /\ hdr \in Headers /\ hdr.at \in Nat /\ hdr.idx \in Nat /\ hdr.len \in Nat
      /\ hdr.left \in Nat /\ Octet(hdr.idx) \in 0 .. 255
  <2>1. hdr.idx < Top.end
    BY <1>1, InHeader DEF HeaderPcs, IInv, HeaderInSlice
  <2> QED BY <1>1, <2>1, InHeader DEF HeaderPcs, Octets
<1>3. TagOctets(hdr.tag) \in 0 .. 5
  BY <1>2, TagOctetsBound DEF Headers
<1>4. /\ hdr'.at = hdr.at /\ hdr'.idx = hdr.idx + 1 /\ hdr'.tag = hdr.tag
      /\ hdr'.len = 256 * hdr.len + Octet(hdr.idx) /\ hdr'.left = hdr.left - 1
  BY <1>1, <1>2 DEF Headers
<1>5. LengthRead' = LengthRead + 1
  BY <1>2, <1>3, <1>4 DEF LengthRead
<1>6. ASSUME rules = "der"
      PROVE  /\ LengthRead + 1 \in 1 .. 8 /\ LengthRead + hdr.left <= 8
             /\ hdr'.len < Power256(LengthRead + 1)
             /\ LengthRead + hdr.left > 1 => Power256(LengthRead) <= hdr'.len
  <2>1. CASE LengthRead = 0
    <3>1. /\ hdr.len = 0 /\ hdr.left \in 1 .. 8
          /\ hdr.left > 1 => Octet(hdr.idx) # 0
      BY <1>1, <1>6, <2>1 DEF MinimalInv, LengthIsMinimal
    <3>2. Power256(0) = 1 /\ Power256(1) = 256
      BY NextPower256
    <3> QED BY <1>2, <1>4, <2>1, <3>1, <3>2
  <2>2. CASE LengthRead # 0
    <3>1. /\ LengthRead \in 1 .. 8 /\ LengthRead + hdr.left <= 8
          /\ hdr.len < Power256(LengthRead)
          /\ LengthRead + hdr.left > 1 => Power256(LengthRead - 1) <= hdr.len
      BY <1>1, <1>6, <2>2 DEF MinimalInv, LengthIsMinimal
    <3>2. LengthRead \in 1 .. 7 /\ LengthRead + hdr.left > 1
      BY <1>1, <1>2, <3>1
    <3>3. Power256(LengthRead) \in Nat /\ Power256(LengthRead - 1) \in Nat
      BY <3>2, Powers256Grow
    <3>4. /\ Power256(LengthRead) = 256 * Power256(LengthRead - 1)
          /\ Power256(LengthRead + 1) = 256 * Power256(LengthRead)
      BY <3>2, NextPower256
    <3> QED BY <1>2, <1>4, <3>1, <3>2, <3>3, <3>4
  <2> QED BY <2>1, <2>2
<1>7. rules = "der" => LengthIsMinimal'
  <2>1. ASSUME rules = "der" PROVE LengthIsMinimal'
    <3>1. LengthRead \in Int /\ LengthRead + 1 - 1 = LengthRead
      BY <1>2, <1>3 DEF LengthRead
    <3>2. LengthRead + 1 + hdr'.left = LengthRead + hdr.left
      BY <1>2, <1>4, <3>1
    <3> QED BY <1>1, <1>5, <1>6, <2>1, <3>1, <3>2 DEF LengthIsMinimal
  <2> QED BY <2>1
<1>8. TagIsMinimal'
  BY <1>1 DEF TagIsMinimal
<1> QED BY <1>1, <1>7, <1>8, HeaderReadOn

LEMMA LongLengthEndMinimal ==
  ASSUME IInv, MinimalInv, LongLengthEnd
  PROVE  MinimalInv'
<1>1. /\ pc = "longlength" /\ hdr.left = 0 /\ ~ NeedlesslyLong /\ pc' = "body"
      /\ UNCHANGED <<input, hdr, stack, heap>>
  BY DEF LongLengthEnd
<1>2. /\ hdr \in Headers /\ hdr.at \in Nat /\ hdr.idx \in Nat /\ hdr.len \in Nat
  BY <1>1, InHeader DEF HeaderPcs
<1>3. TagOctets(hdr.tag) \in 0 .. 5
  BY <1>2, TagOctetsBound DEF Headers
<1>4. ASSUME rules = "der"
      PROVE  HeaderLen = 1 + TagOctets(hdr.tag) + LengthOctets(hdr.len)
  <2>1. hdr.len >= 128
    BY <1>1, <1>2, <1>4 DEF NeedlesslyLong
  <2>2. /\ LengthRead \in 1 .. 8 /\ hdr.len < Power256(LengthRead)
        /\ LengthRead > 1 => Power256(LengthRead - 1) <= hdr.len
    BY <1>1, <1>4 DEF MinimalInv, LengthIsMinimal
  <2>3. Power256(LengthRead - 1) <= hdr.len
    <3>1. CASE LengthRead = 1
      <4>1. LengthRead - 1 = 0 /\ Power256(0) = 1
        BY <3>1, NextPower256
      <4> QED BY <1>2, <2>1, <4>1
    <3>2. CASE LengthRead # 1
      BY <2>2, <3>2
    <3> QED BY <3>1, <3>2
  <2>4. LengthOctets(hdr.len) = 1 + LengthRead
    BY <1>2, <2>1, <2>2, <2>3, LengthOctetsAre
  <2> QED BY <1>2, <1>3, <2>4 DEF LengthRead, HeaderLen
<1>5. rules = "der" => LengthIsMinimal'
  BY <1>1, <1>4 DEF LengthIsMinimal, HeaderLen
<1>6. TagIsMinimal'
  BY <1>1 DEF TagIsMinimal
<1> QED BY <1>1, <1>5, <1>6, HeaderReadOn

\* A definite element is returned to frames, which are open still.
LEMMA ReturnMinimal ==
  ASSUME IInv, MinimalInv,
         NEW frames \in Seq(Frames), Len(frames) >= 1, Len(frames) <= Len(stack),
         \A i \in 1 .. Len(frames) : frames[i] = stack[i],
         NEW node \in Nodes, NEW end,
         Return(frames, node, end),
         rules = "der" => MinimalHeader(node)
  PROVE  MinimalInv'
<1> DEFINE m == Len(frames)
           f == Resumed(frames[m], end, Len(heap) + 1)
<1>1. /\ heap' = Append(heap, node)
      /\ stack' = [frames EXCEPT ![m] = f]
      /\ pc' = "contents"
      /\ UNCHANGED <<data, rules, caller>>
  BY DEF Return, input
<1>2. heap \in Seq(Nodes) /\ m \in Nat /\ Len(stack) \in Nat /\ stack \in Seq(Frames)
  BY DEF IInv, Typed
<1>3. frames[m] \in Frames
  BY <1>2
<1>4. /\ f.kind = frames[m].kind /\ f.at = frames[m].at /\ f.tag = frames[m].tag
      /\ f.content = frames[m].content /\ f.end = frames[m].end
  BY <1>3 DEF Resumed, Frames
<1> HIDE DEF f
<1>5. TagIsMinimal' /\ LengthIsMinimal'
  BY <1>1 DEF TagIsMinimal, LengthIsMinimal
<1>6. rules = "der" => FramesAreMinimal'
  <2>1. SUFFICES ASSUME rules = "der", NEW i \in DOMAIN stack', stack'[i].kind = "definite"
        PROVE  stack'[i].content - stack'[i].at =
                 1 + TagOctets(stack'[i].tag)
                   + LengthOctets(stack'[i].end - stack'[i].content)
    BY DEF FramesAreMinimal
  <2>2. i \in 1 .. m /\ i \in DOMAIN stack
    BY <1>1, <1>2
  <2>3. /\ stack'[i].kind = stack[i].kind /\ stack'[i].at = stack[i].at
        /\ stack'[i].tag = stack[i].tag /\ stack'[i].content = stack[i].content
        /\ stack'[i].end = stack[i].end
    <3>1. CASE i = m
      <4>1. stack'[i] = f
        BY <1>1, <1>2, <2>2, <3>1
      <4>2. frames[m] = stack[i]
        BY <2>2, <3>1
      <4> QED BY <1>4, <4>1, <4>2
    <3>2. CASE i # m
      BY <1>1, <1>2, <2>2, <3>2
    <3> QED BY <3>1, <3>2
  <2> QED BY <2>1, <2>2, <2>3 DEF MinimalInv, FramesAreMinimal
<1>7. DerIsMinimal'
  <2>1. SUFFICES ASSUME rules = "der", NEW i \in DOMAIN heap'
        PROVE  MinimalHeader(heap'[i])
    BY <1>1 DEF DerIsMinimal
  <2>2. CASE i = Len(heap) + 1
    BY <1>1, <1>2, <2>1, <2>2
  <2>3. CASE i # Len(heap) + 1
    <3>1. i \in DOMAIN heap /\ heap'[i] = heap[i]
      BY <1>1, <1>2, <2>3
    <3> QED BY <2>1, <3>1 DEF MinimalInv, DerIsMinimal
  <2> QED BY <2>2, <2>3
<1> QED BY <1>1, <1>5, <1>6, <1>7 DEF MinimalInv

LEMMA PrimitiveBodyMinimal ==
  ASSUME IInv, MinimalInv, PrimitiveBody
  PROVE  MinimalInv'
<1> DEFINE node ==
      [offset |-> hdr.at, header_len |-> HeaderLen, content_len |-> hdr.len,
       indefinite |-> FALSE, class |-> hdr.class, constructed |-> FALSE,
       tag |-> hdr.tag, kids |-> <<>>]
<1>1. pc = "body" /\ Return(stack, node, DefiniteEnd)
  BY DEF PrimitiveBody
<1>2. /\ hdr \in Headers /\ hdr.at \in Nat /\ hdr.idx \in Nat /\ hdr.at < hdr.idx
  BY <1>1, InHeader DEF HeaderPcs
<1>3. node \in Nodes
  BY <1>2 DEF Nodes, Headers, HeaderLen
<1>4. rules = "der" => MinimalHeader(node)
  BY <1>1 DEF MinimalInv, LengthIsMinimal, MinimalHeader
<1>5. stack \in Seq(Frames) /\ Len(stack) >= 1 /\ Len(stack) <= Len(stack)
  BY TopFacts DEF IInv, Typed
<1> HIDE DEF node
<1> QED BY <1>1, <1>3, <1>4, <1>5, ReturnMinimal

\* The element on top is closed and returned to the one around it.
LEMMA CloseMinimal ==
  ASSUME IInv, MinimalInv, NEW end,
         Top.kind \in {"definite", "indefinite"},
         Return(Enclosing, NodeOf(Top), end)
  PROVE  MinimalInv'
<1>1. /\ Len(stack) \in Nat /\ stack \in Seq(Frames) /\ Len(stack) >= 1
      /\ Top \in Frames /\ Top = stack[Len(stack)]
  BY TopFacts DEF IInv, Typed
<1>2. Len(stack) >= 2
  <2>1. caller \in {"parse_rules", "parse_all"} /\ stack[1].kind = caller
    BY DEF IInv, Typed, FrameKinds
  <2> QED BY <1>1, <2>1
<1>3. /\ Enclosing \in Seq(Frames) /\ Len(Enclosing) = Len(stack) - 1
      /\ \A i \in 1 .. Len(Enclosing) : Enclosing[i] = stack[i]
  <2>1. Len(stack) - 1 \in 1 .. Len(stack)
    BY <1>1, <1>2
  <2> QED BY <1>1, <2>1 DEF Enclosing
<1>4. /\ Top.content \in Nat /\ Top.p \in Nat /\ Top.end \in Nat /\ Top.at \in Nat
      /\ Top.kids \in Seq(Nat) /\ Top.class \in 0 .. 3 /\ Top.tag \in 0 .. TagMax
  BY <1>1 DEF Frames
<1>5. NodeOf(Top) \in Nodes
  <2>1. Top.content <= Top.p /\ Top.p <= Top.end
    BY TopFacts
  <2>2. Top.content >= Top.at + 2
    BY <1>1, <1>2 DEF IInv, FrameKinds
  <2>3. Top.content - Top.at \in Nat /\ Top.p - Top.content \in Nat
        /\ Top.end - Top.content \in Nat
    BY <1>4, <2>1, <2>2
  <2>4. (IF Top.kind = "definite" THEN Top.end ELSE Top.p) - Top.content \in Nat
    BY <2>3
  <2>5. (Top.kind = "indefinite") \in BOOLEAN
    OBVIOUS
  <2> QED BY <1>4, <2>3, <2>4, <2>5 DEF NodeOf, Nodes
<1>6. rules = "der" => MinimalHeader(NodeOf(Top))
  <2>1. SUFFICES ASSUME rules = "der" PROVE MinimalHeader(NodeOf(Top))
    OBVIOUS
  <2>2. Top.kind = "definite"
    BY <1>1, <2>1 DEF IInv, NoneIndefiniteInDer
  <2>3. Top.content - Top.at =
          1 + TagOctets(Top.tag) + LengthOctets(Top.end - Top.content)
    BY <1>1, <2>1, <2>2 DEF MinimalInv, FramesAreMinimal
  <2>4. /\ NodeOf(Top).header_len = Top.content - Top.at
        /\ NodeOf(Top).content_len = Top.end - Top.content
        /\ NodeOf(Top).tag = Top.tag
        /\ ~ NodeOf(Top).indefinite
    BY <2>2 DEF NodeOf
  <2> QED BY <2>3, <2>4 DEF MinimalHeader
<1> QED BY <1>1, <1>2, <1>3, <1>5, <1>6, ReturnMinimal

LEMMA ConstructedBodyMinimal ==
  ASSUME IInv, MinimalInv, ConstructedBody
  PROVE  MinimalInv'
<1> DEFINE f == [kind |-> "definite", at |-> hdr.at, class |-> hdr.class,
                 tag |-> hdr.tag, content |-> hdr.idx, end |-> DefiniteEnd,
                 p |-> hdr.idx, kids |-> <<>>]
<1>1. /\ pc = "body" /\ stack' = Append(stack, f) /\ pc' = "contents"
      /\ UNCHANGED <<data, rules, caller, heap>>
  BY DEF ConstructedBody, Open, input
<1>2. /\ hdr.at \in Nat /\ hdr.idx \in Nat /\ hdr.len \in Nat
  BY <1>1, InHeader DEF HeaderPcs
<1>3. DefiniteEnd - hdr.idx = hdr.len /\ hdr.idx - hdr.at = HeaderLen
  BY <1>2 DEF DefiniteEnd, HeaderLen
<1>4. stack \in Seq(Frames) /\ Len(stack) \in Nat
  BY DEF IInv, Typed
<1>5. TagIsMinimal' /\ LengthIsMinimal'
  BY <1>1 DEF TagIsMinimal, LengthIsMinimal
<1>6. rules = "der" => FramesAreMinimal'
  <2>1. SUFFICES ASSUME rules = "der", NEW i \in DOMAIN stack', stack'[i].kind = "definite"
        PROVE  stack'[i].content - stack'[i].at =
                 1 + TagOctets(stack'[i].tag)
                   + LengthOctets(stack'[i].end - stack'[i].content)
    BY DEF FramesAreMinimal
  <2>2. CASE i = Len(stack) + 1
    <3>1. stack'[i] = f
      BY <1>1, <1>4, <2>2
    <3>2. HeaderLen = 1 + TagOctets(hdr.tag) + LengthOctets(hdr.len)
      BY <1>1, <2>1 DEF MinimalInv, LengthIsMinimal
    <3> QED BY <1>3, <3>1, <3>2
  <2>3. CASE i # Len(stack) + 1
    <3>1. i \in DOMAIN stack /\ stack'[i] = stack[i]
      BY <1>1, <1>4, <2>3
    <3> QED BY <2>1, <3>1 DEF MinimalInv, FramesAreMinimal
  <2> QED BY <2>2, <2>3
<1>7. DerIsMinimal'
  BY <1>1 DEF MinimalInv, DerIsMinimal
<1> QED BY <1>1, <1>5, <1>6, <1>7 DEF MinimalInv

\* Indefinite elements are opened outside DER only.
LEMMA IndefiniteLengthMinimal ==
  ASSUME IInv, MinimalInv, IndefiniteLength
  PROVE  MinimalInv'
<1>1. rules # "der" /\ pc' = "contents" /\ UNCHANGED rules
  BY DEF IndefiniteLength, AllowsIndefinite, Open, input
<1> QED BY <1>1 DEF MinimalInv, TagIsMinimal, DerIsMinimal

LEMMA MinimalStep ==
  ASSUME IInv, MinimalInv, [Next]_vars
  PROVE  MinimalInv'
<1>1. CASE UNCHANGED vars
  BY <1>1 DEF vars, input, MinimalInv, TagIsMinimal, LengthIsMinimal, FramesAreMinimal,
              DerIsMinimal, TagRead, LengthRead, HeaderLen, Octet
<1>2. CASE \/ TooDeep \/ NoTag \/ TagError \/ LengthError \/ LongLengthError
           \/ BodyError \/ MarkerError \/ TrailingBytes \/ Accept
  <2>1. pc' = "done" /\ UNCHANGED <<input, stack, heap>>
    BY <1>2 DEF TooDeep, NoTag, TagError, LengthError, LongLengthError, BodyError,
                MarkerError, TrailingBytes, Accept, Fail
  <2> QED BY <2>1, NotInHeader
<1>3. CASE BeginElement
  BY <1>3, BeginElementMinimal
<1>4. CASE TagOctet
  BY <1>4, TagOctetMinimal
<1>5. CASE ShortLength
  BY <1>5, ShortLengthMinimal
<1>6. CASE IndefiniteLength
  BY <1>6, IndefiniteLengthMinimal
<1>7. CASE LongLength
  BY <1>7, LongLengthMinimal
<1>8. CASE LongLengthOctet
  BY <1>8, LongLengthOctetMinimal
<1>9. CASE LongLengthEnd
  BY <1>9, LongLengthEndMinimal
<1>10. CASE PrimitiveBody
  BY <1>10, PrimitiveBodyMinimal
<1>11. CASE ConstructedBody
  BY <1>11, ConstructedBodyMinimal
<1>12. CASE CloseDefinite
  BY <1>12, CloseMinimal DEF CloseDefinite
<1>13. CASE CloseIndefinite
  BY <1>13, CloseMinimal DEF CloseIndefinite
<1> QED BY <1>1, <1>2, <1>3, <1>4, <1>5, <1>6, <1>7, <1>8, <1>9, <1>10, <1>11,
           <1>12, <1>13 DEF Next

(* Under DER every element that is read has the shortest header there is    *)
(* (the three tests of parse_tlv that ask for DER, and those of tag numbers *)
(* that do not): for all blobs, tags within u32 and up to eight octets of   *)
(* length.                                                                  *)
THEOREM ShortestHeaders == Spec => []DerIsMinimal
<1>1. Init => MinimalInv
  <2>1. ASSUME Init PROVE MinimalInv
    <3>1. pc = "contents" /\ heap = <<>> /\ stack = <<CallFrame>> /\ CallFrame.kind = caller
      BY <2>1 DEF Init, CallFrame
    <3>2. caller \in {"parse_rules", "parse_all"}
      BY <2>1, ParserAssumption DEF Init
    <3>3. TagIsMinimal /\ LengthIsMinimal
      BY <3>1 DEF TagIsMinimal, LengthIsMinimal
    <3>4. FramesAreMinimal /\ DerIsMinimal
      BY <3>1, <3>2 DEF FramesAreMinimal, DerIsMinimal
    <3> QED BY <3>3, <3>4 DEF MinimalInv
  <2> QED BY <2>1
<1>2. IInv /\ MinimalInv /\ [Next]_vars => MinimalInv'
  BY MinimalStep
<1>3. MinimalInv => DerIsMinimal
  BY DEF MinimalInv
<1> QED BY <1>1, <1>2, <1>3, Invariance, PTL DEF Spec

-----------------------------------------------------------------------------
(* The order of the elements.  An element that was finished before another  *)
(* ended before it began, or lies in its contents: so it is for the open    *)
(* elements too, as they are when they are closed.                          *)

FramesInOrder ==
  /\ \A f \in 2 .. Len(stack) : \A j \in DOMAIN heap :
       End(heap[j]) <= stack[f].at \/ stack[f].content <= heap[j].offset
  /\ \A g \in 2 .. Len(stack) : \A f \in 2 .. g - 1 : stack[f].content <= stack[g].at

OrderInv == ElementsNest /\ FramesInOrder

LEMMA ContentsBehind ==
  ASSUME IInv, OrderInv
  PROVE  \A f \in 2 .. Len(stack) : stack[f].content <= Top.p
<1>1. /\ stack \in Seq(Frames) /\ Len(stack) \in Nat /\ Top = stack[Len(stack)]
      /\ Top \in Frames /\ Top.content <= Top.p
  BY TopFacts DEF IInv, Typed
<1>2. Top.at \in Nat /\ Top.content \in Nat /\ Top.p \in Nat
  BY <1>1 DEF Frames
<1> SUFFICES ASSUME NEW f \in 2 .. Len(stack) PROVE stack[f].content <= Top.p
  OBVIOUS
<1>3. CASE f = Len(stack)
  BY <1>1, <1>3
<1>4. CASE f # Len(stack)
  <2>1. Len(stack) \in 2 .. Len(stack) /\ f \in 2 .. Len(stack) - 1 /\ stack[f] \in Frames
    BY <1>1, <1>4
  <2>2. stack[f].content <= Top.at
    BY <1>1, <2>1 DEF OrderInv, FramesInOrder
  <2>3. Top.content >= Top.at + 2
    BY <1>1, <2>1 DEF IInv, FrameKinds
  <2>4. stack[f].content \in Nat
    BY <2>1 DEF Frames
  <2> QED BY <1>1, <1>2, <2>2, <2>3, <2>4
<1> QED BY <1>3, <1>4

\* A constructed element is opened at the offset the loops have reached.
LEMMA OpenOrder ==
  ASSUME IInv, OrderInv, pc \in HeaderPcs, NEW kind, NEW content, NEW end,
         Open(kind, content, end)
  PROVE  OrderInv'
<1> DEFINE f == [kind |-> kind, at |-> hdr.at, class |-> hdr.class,
                 tag |-> hdr.tag, content |-> content, end |-> end,
                 p |-> content, kids |-> <<>>]
<1>1. stack' = Append(stack, f) /\ heap' = heap
  BY DEF Open
<1>2. f.at = Top.p /\ f.content = content
  BY InHeader
<1> HIDE DEF f
<1>3. stack \in Seq(Frames) /\ Len(stack) \in Nat
  BY DEF IInv, Typed
<1>4. /\ Len(stack') = Len(stack) + 1 /\ stack'[Len(stack) + 1] = f
      /\ \A g \in 1 .. Len(stack) : stack'[g] = stack[g]
  BY <1>1, <1>3
<1>5. ElementsNest'
  BY <1>1 DEF OrderInv, ElementsNest
<1>6. ASSUME NEW g \in 2 .. Len(stack'), NEW j \in DOMAIN heap
      PROVE  End(heap[j]) <= stack'[g].at \/ stack'[g].content <= heap[j].offset
  <2>1. CASE g = Len(stack) + 1
    BY <1>2, <1>4, <2>1 DEF IInv, ElementsBehind
  <2>2. CASE g # Len(stack) + 1
    <3>1. g \in 2 .. Len(stack) /\ stack'[g] = stack[g]
      BY <1>3, <1>4, <2>2
    <3> QED BY <3>1 DEF OrderInv, FramesInOrder
  <2> QED BY <2>1, <2>2
<1>7. ASSUME NEW g \in 2 .. Len(stack'), NEW h \in 2 .. g - 1
      PROVE  stack'[h].content <= stack'[g].at
  <2>0. h \in 2 .. Len(stack) /\ stack'[h] = stack[h]
    BY <1>3, <1>4
  <2>1. CASE g = Len(stack) + 1
    BY <1>2, <1>4, <2>0, <2>1, ContentsBehind
  <2>2. CASE g # Len(stack) + 1
    <3>1. g \in 2 .. Len(stack) /\ stack'[g] = stack[g]
      BY <1>3, <1>4, <2>2
    <3> QED BY <2>0, <3>1 DEF OrderInv, FramesInOrder
  <2> QED BY <2>1, <2>2
<1> QED BY <1>1, <1>5, <1>6, <1>7 DEF OrderInv, FramesInOrder

\* An element is returned that begins behind the starts of the open ones and
\* has the finished ones before it or in it.
LEMMA ReturnOrder ==
  ASSUME IInv, OrderInv,
         NEW frames \in Seq(Frames), Len(frames) >= 1, Len(frames) <= Len(stack),
         \A i \in 1 .. Len(frames) : frames[i] = stack[i],
         NEW node \in Nodes, NEW end,
         Return(frames, node, end),
         \A j \in DOMAIN heap :
           End(heap[j]) <= node.offset \/ (node.constructed /\ LiesIn(heap[j], node)),
         \A f \in 2 .. Len(frames) : stack[f].content <= node.offset
  PROVE  OrderInv'
<1> DEFINE m == Len(frames)
           t == Resumed(frames[m], end, Len(heap) + 1)
<1>1. heap' = Append(heap, node) /\ stack' = [frames EXCEPT ![m] = t]
  BY DEF Return
<1>2. /\ heap \in Seq(Nodes) /\ m \in Nat /\ m >= 1 /\ Len(stack) \in Nat
      /\ stack \in Seq(Frames) /\ Len(heap) \in Nat
  BY DEF IInv, Typed
<1>3. t.at = frames[m].at /\ t.content = frames[m].content
  <2>1. frames[m] \in Frames
    BY <1>2
  <2> QED BY <2>1 DEF Resumed, Frames
<1> HIDE DEF t
<1>4. /\ Len(stack') = m
      /\ \A f \in 1 .. m : stack'[f].at = stack[f].at /\ stack'[f].content = stack[f].content
  <2>1. Len(stack') = m /\ \A f \in 1 .. m : stack'[f] = IF f = m THEN t ELSE frames[f]
    BY <1>1, <1>2
  <2> QED BY <1>2, <1>3, <2>1
<1>5. /\ Len(heap') = Len(heap) + 1 /\ heap'[Len(heap) + 1] = node
      /\ \A j \in 1 .. Len(heap) : heap'[j] = heap[j]
      /\ DOMAIN heap' = 1 .. Len(heap) + 1 /\ DOMAIN heap = 1 .. Len(heap)
  BY <1>1, <1>2
<1>6. ASSUME NEW i \in DOMAIN heap', NEW j \in 1 .. i - 1
      PROVE  \/ End(heap'[j]) <= heap'[i].offset
             \/ heap'[i].constructed /\ LiesIn(heap'[j], heap'[i])
  <2>0. j \in DOMAIN heap /\ heap'[j] = heap[j]
    BY <1>2, <1>5
  <2>1. CASE i = Len(heap) + 1
    BY <1>5, <2>0, <2>1
  <2>2. CASE i # Len(heap) + 1
    <3>1. i \in DOMAIN heap /\ heap'[i] = heap[i]
      BY <1>2, <1>5, <2>2
    <3> QED BY <2>0, <3>1 DEF OrderInv, ElementsNest
  <2> QED BY <2>1, <2>2
<1>7. ElementsNest'
  BY <1>6 DEF ElementsNest
<1>8. ASSUME NEW f \in 2 .. m, NEW j \in DOMAIN heap'
      PROVE  End(heap'[j]) <= stack'[f].at \/ stack'[f].content <= heap'[j].offset
  <2>0. f \in 2 .. Len(stack) /\ f \in 1 .. m
    BY <1>2
  <2>1. CASE j = Len(heap) + 1
    BY <1>4, <1>5, <2>0, <2>1
  <2>2. CASE j # Len(heap) + 1
    <3>1. j \in DOMAIN heap /\ heap'[j] = heap[j]
      BY <1>2, <1>5, <2>2
    <3> QED BY <1>4, <2>0, <3>1 DEF OrderInv, FramesInOrder
  <2> QED BY <2>1, <2>2
<1>9. ASSUME NEW g \in 2 .. m, NEW f \in 2 .. g - 1
      PROVE  stack'[f].content <= stack'[g].at
  <2>1. f \in 1 .. m /\ g \in 1 .. m /\ g \in 2 .. Len(stack)
    BY <1>2
  <2> QED BY <1>4, <2>1 DEF OrderInv, FramesInOrder
<1> QED BY <1>4, <1>7, <1>8, <1>9 DEF OrderInv, FramesInOrder

LEMMA PrimitiveBodyOrder ==
  ASSUME IInv, OrderInv, PrimitiveBody
  PROVE  OrderInv'
<1> DEFINE node ==
      [offset |-> hdr.at, header_len |-> HeaderLen, content_len |-> hdr.len,
       indefinite |-> FALSE, class |-> hdr.class, constructed |-> FALSE,
       tag |-> hdr.tag, kids |-> <<>>]
<1>1. pc \in HeaderPcs /\ Return(stack, node, DefiniteEnd)
  BY DEF PrimitiveBody, HeaderPcs
<1>2. /\ hdr \in Headers /\ hdr.at \in Nat /\ hdr.idx \in Nat /\ hdr.at < hdr.idx
      /\ hdr.at = Top.p
  BY <1>1, InHeader
<1>3. node \in Nodes
  BY <1>2 DEF Nodes, Headers, HeaderLen
<1>4. stack \in Seq(Frames) /\ Len(stack) >= 1 /\ Len(stack) <= Len(stack)
  BY TopFacts DEF IInv, Typed
<1>5. node.offset = Top.p
  BY <1>2
<1> HIDE DEF node
<1>6. \A j \in DOMAIN heap : End(heap[j]) <= node.offset
  BY <1>5 DEF IInv, ElementsBehind
<1>7. \A f \in 2 .. Len(stack) : stack[f].content <= node.offset
  BY <1>5, ContentsBehind
<1> QED BY <1>1, <1>3, <1>4, <1>6, <1>7, ReturnOrder

LEMMA CloseOrder ==
  ASSUME IInv, OrderInv, NEW end,
         Top.kind \in {"definite", "indefinite"},
         Top.kind = "definite" => Top.p >= Top.end,
         Return(Enclosing, NodeOf(Top), end)
  PROVE  OrderInv'
<1> DEFINE node == NodeOf(Top)
<1>1. /\ Len(stack) \in Nat /\ stack \in Seq(Frames) /\ Len(stack) >= 1
      /\ Top \in Frames /\ Top = stack[Len(stack)]
      /\ Top.content <= Top.p /\ Top.p <= Top.end
  BY TopFacts DEF IInv, Typed
<1>2. Len(stack) \in 2 .. Len(stack)
  <2>1. caller \in {"parse_rules", "parse_all"} /\ stack[1].kind = caller
    BY DEF IInv, Typed, FrameKinds
  <2> QED BY <1>1, <2>1
<1>3. /\ Enclosing \in Seq(Frames) /\ Len(Enclosing) = Len(stack) - 1
      /\ \A i \in 1 .. Len(Enclosing) : Enclosing[i] = stack[i]
  <2>1. Len(stack) - 1 \in 1 .. Len(stack)
    BY <1>1, <1>2
  <2> QED BY <1>1, <2>1 DEF Enclosing
<1>4. /\ Top.content \in Nat /\ Top.p \in Nat /\ Top.end \in Nat /\ Top.at \in Nat
      /\ Top.kids \in Seq(Nat) /\ Top.class \in 0 .. 3 /\ Top.tag \in 0 .. TagMax
  BY <1>1 DEF Frames
<1>5. Top.content >= Top.at + 2
  BY <1>1, <1>2 DEF IInv, FrameKinds
<1>6. (IF Top.kind = "definite" THEN Top.end ELSE Top.p) = Top.p
  BY <1>1, <1>4
<1>7. node \in Nodes
  <2>1. Top.content - Top.at \in Nat /\ Top.p - Top.content \in Nat
    BY <1>1, <1>4, <1>5
  <2>2. (Top.kind = "indefinite") \in BOOLEAN
    OBVIOUS
  <2> QED BY <1>4, <1>6, <2>1, <2>2 DEF NodeOf, Nodes
<1>8. node.offset = Top.at /\ ContentStart(node) = Top.content /\ ContentEnd(node) = Top.p
  <2>1. /\ node.offset = Top.at /\ node.header_len = Top.content - Top.at
        /\ node.content_len = Top.p - Top.content
    BY <1>6 DEF NodeOf
  <2> QED BY <1>4, <2>1 DEF ContentStart, ContentEnd
<1>9. Return(Enclosing, node, end)
  OBVIOUS
<1> HIDE DEF node
<1>10. \A j \in DOMAIN heap :
         End(heap[j]) <= node.offset \/ (node.constructed /\ LiesIn(heap[j], node))
  <2>1. ASSUME NEW j \in DOMAIN heap
        PROVE  End(heap[j]) <= Top.at \/ Top.content <= heap[j].offset
    BY <1>1, <1>2 DEF OrderInv, FramesInOrder
  <2>2. \A j \in DOMAIN heap : End(heap[j]) <= Top.p
    BY DEF IInv, ElementsBehind
  <2>3. node.constructed
    BY DEF node, NodeOf
  <2> QED BY <1>8, <2>1, <2>2, <2>3 DEF LiesIn
<1>11. \A f \in 2 .. Len(Enclosing) : stack[f].content <= node.offset
  <2>1. \A f \in 2 .. Len(stack) - 1 : stack[f].content <= stack[Len(stack)].at
    BY <1>2 DEF OrderInv, FramesInOrder
  <2> QED BY <1>1, <1>3, <1>8, <2>1
<1>12. Len(Enclosing) >= 1 /\ Len(Enclosing) <= Len(stack)
  BY <1>1, <1>2, <1>3
<1> QED BY <1>3, <1>7, <1>9, <1>10, <1>11, <1>12, ReturnOrder

LEMMA OrderStep ==
  ASSUME IInv, OrderInv, [Next]_vars
  PROVE  OrderInv'
<1>1. CASE UNCHANGED <<stack, heap>>
  BY <1>1 DEF OrderInv, ElementsNest, FramesInOrder
<1>2. CASE \/ TooDeep \/ NoTag \/ TagError \/ LengthError \/ LongLengthError
           \/ BodyError \/ MarkerError \/ TrailingBytes \/ Accept
           \/ BeginElement \/ TagOctet \/ ShortLength \/ LongLength \/ LongLengthOctet
           \/ LongLengthEnd \/ UNCHANGED vars
  <2>1. UNCHANGED <<stack, heap>>
    BY <1>2 DEF TooDeep, NoTag, TagError, LengthError, LongLengthError, BodyError,
                MarkerError, TrailingBytes, Accept, Fail, BeginElement, TagOctet,
                ShortLength, LongLength, LongLengthOctet, LongLengthEnd, vars
  <2> QED BY <1>1, <2>1
<1>3. CASE IndefiniteLength
  BY <1>3, OpenOrder DEF IndefiniteLength, HeaderPcs
<1>4. CASE ConstructedBody
  BY <1>4, OpenOrder DEF ConstructedBody, HeaderPcs
<1>5. CASE PrimitiveBody
  BY <1>5, PrimitiveBodyOrder
<1>6. CASE CloseDefinite
  BY <1>6, CloseOrder DEF CloseDefinite
<1>7. CASE CloseIndefinite
  BY <1>7, CloseOrder DEF CloseIndefinite
<1> QED BY <1>2, <1>3, <1>4, <1>5, <1>6, <1>7 DEF Next

LEMMA OrderInvariance == Spec => []OrderInv
<1>1. Init => OrderInv
  <2>1. ASSUME Init PROVE OrderInv
    <3>1. heap = <<>> /\ Len(stack) = 1
      BY <2>1 DEF Init
    <3> QED BY <3>1 DEF OrderInv, ElementsNest, FramesInOrder
  <2> QED BY <2>1
<1>2. IInv /\ OrderInv /\ [Next]_vars => OrderInv'
  BY OrderStep
<1> QED BY <1>1, <1>2, Invariance, PTL DEF Spec

(* Elements are apart or nested, whatever the blob (parse_tlv and           *)
(* parse_children hand slices down and offsets back).                       *)
THEOREM NestedElements == Spec => []ElementsNest
<1>1. OrderInv => ElementsNest
  BY DEF OrderInv
<1> QED BY <1>1, OrderInvariance, PTL

-----------------------------------------------------------------------------
(* The reader advances.  IInv bounds how far: it stands in the blob.  The   *)
(* rest is arithmetic, one lemma for each way a step ends.                  *)

LEMMA ProgressIs ==
  ASSUME IInv, pc # "done"
  PROVE  /\ Standing \in Nat /\ Stage \in Nat /\ Len(stack) \in Nat /\ Len(data) \in Nat
         /\ Progress <= 4 * Len(data) + 4
<1>1. Len(stack) \in Nat /\ Len(stack) >= 1 /\ Len(data) \in Nat
  BY TopFacts, OctetsOfBlob DEF IInv
<1>2. Stage \in Nat /\ Stage <= 5
  BY DEF Stage
<1>3. Standing \in Nat /\ Standing <= Len(data)
  <2>1. CASE pc = "contents"
    BY <1>1, <2>1, TopFacts DEF Standing, Frames
  <2>2. CASE pc # "contents"
    <3>1. pc \in HeaderPcs
      BY <2>2 DEF IInv, Typed, HeaderPcs
    <3> QED BY <2>2, <3>1, InHeader DEF Standing
  <2> QED BY <2>1, <2>2
<1> QED BY <1>1, <1>2, <1>3 DEF Progress

\* A header octet was read, or the header is complete.
LEMMA HeaderAdvances ==
  ASSUME IInv, pc \in HeaderPcs, pc # "body", pc' \in HeaderPcs, UNCHANGED stack,
         \/ hdr'.idx = hdr.idx + 1
         \/ hdr' = hdr /\ pc' = "body"
  PROVE  Progress < Progress'
<1>1. hdr.idx \in Nat /\ Len(stack) \in Nat
  BY InHeader, TopFacts
<1>2. Standing = hdr.idx /\ Stage = 2
  BY DEF Standing, Stage, HeaderPcs
<1>3. Standing' = hdr'.idx /\ Stage' \in {2, 3} /\ (pc' = "body" => Stage' = 3)
  BY DEF Standing, Stage, HeaderPcs
<1> QED BY <1>1, <1>2, <1>3 DEF Progress

\* A call was made for the contents of an element.
LEMMA OpenAdvances ==
  ASSUME IInv, pc \in HeaderPcs, NEW kind, NEW content, NEW end,
         Open(kind, content, end),
         content = hdr.idx + 1 \/ (content = hdr.idx /\ pc = "body")
  PROVE  Progress < Progress'
<1>1. hdr.idx \in Nat /\ stack \in Seq(Frames) /\ Len(stack) \in Nat
  BY InHeader, TopFacts DEF IInv, Typed
<1>2. Standing = hdr.idx /\ Stage \in {2, 3} /\ (pc = "body" => Stage = 3)
  BY DEF Standing, Stage, HeaderPcs
<1>3. Len(stack') = Len(stack) + 1 /\ Top'.p = content /\ pc' = "contents"
  BY <1>1 DEF Open, Top
<1>4. Standing' = content /\ Stage' = 5
  BY <1>3 DEF Standing, Stage
<1> QED BY <1>1, <1>2, <1>3, <1>4 DEF Progress

\* A call returned to the frame on top of frames.
LEMMA ReturnAdvances ==
  ASSUME IInv, NEW frames \in Seq(Frames), Len(frames) >= 1, NEW node, NEW end \in Nat,
         Return(frames, node, end), pc # "done",
         Standing <= end, Len(frames) <= Len(stack),
         Stage < 5 \/ Len(frames) < Len(stack)
  PROVE  Progress < Progress'
<1>1. Standing \in Nat /\ Stage \in Nat /\ Len(stack) \in Nat /\ Stage <= 5
  BY ProgressIs DEF Stage
<1>2. Len(stack') = Len(frames) /\ Top'.p = end /\ pc' = "contents"
  <2>1. frames[Len(frames)] \in Frames /\ Len(frames) \in Nat
    OBVIOUS
  <2>2. Resumed(frames[Len(frames)], end, Len(heap) + 1).p = end
    BY <2>1 DEF Resumed, Frames
  <2> QED BY <2>1, <2>2 DEF Return, Top
<1>3. Standing' = end /\ Stage' = 5
  BY <1>2 DEF Standing, Stage
<1> QED BY <1>1, <1>2, <1>3 DEF Progress

LEMMA CloseAdvances ==
  ASSUME IInv, CloseDefinite \/ CloseIndefinite
  PROVE  Progress < Progress'
<1>1. /\ stack \in Seq(Frames) /\ Len(stack) \in Nat /\ Len(stack) >= 1
      /\ Top \in Frames /\ Top.p \in Nat /\ Top.end \in Nat
  BY TopFacts DEF IInv, Typed, Frames
<1>2. pc = "contents" /\ Top.kind \in {"definite", "indefinite"}
  BY DEF CloseDefinite, CloseIndefinite
<1>3. Len(stack) >= 2
  <2>1. caller \in {"parse_rules", "parse_all"} /\ stack[1].kind = caller
    BY DEF IInv, Typed, FrameKinds
  <2> QED BY <1>1, <1>2, <2>1 DEF Top
<1>4. Enclosing \in Seq(Frames) /\ Len(Enclosing) = Len(stack) - 1
  BY <1>1, <1>3 DEF Enclosing
<1>5. PICK end \in Nat : Return(Enclosing, NodeOf(Top), end) /\ Top.p <= end
  <2>1. CASE CloseDefinite
    <3>1. Return(Enclosing, NodeOf(Top), Top.end) /\ Top.p <= Top.end
      BY <2>1, TopFacts DEF CloseDefinite
    <3> QED BY <1>1, <3>1
  <2>2. CASE CloseIndefinite
    <3>1. Return(Enclosing, NodeOf(Top), Top.p + 2)
      BY <2>2 DEF CloseIndefinite
    <3>2. Top.p + 2 \in Nat /\ Top.p <= Top.p + 2
      BY <1>1
    <3> QED BY <3>1, <3>2
  <2> QED BY <2>1, <2>2
<1>6. Standing <= end /\ pc # "done"
  BY <1>2, <1>5 DEF Standing
<1>7. Len(Enclosing) >= 1 /\ Len(Enclosing) <= Len(stack) /\ Len(Enclosing) < Len(stack)
  BY <1>1, <1>3, <1>4
<1> QED BY <1>4, <1>5, <1>6, <1>7, ReturnAdvances

LEMMA StepAdvances ==
  ASSUME IInv, Next
  PROVE  Advances
<1>1. CASE \/ TooDeep \/ NoTag \/ TagError \/ LengthError \/ LongLengthError
           \/ BodyError \/ MarkerError \/ TrailingBytes \/ Accept
  <2>1. result'.kind # "pending"
    BY <1>1 DEF TooDeep, NoTag, TagError, LengthError, LongLengthError, BodyError,
                MarkerError, TrailingBytes, Accept, Fail
  <2> QED BY <2>1 DEF Advances
<1>2. CASE BeginElement
  <2>1. pc = "contents" /\ pc' \in {"tag", "length"} /\ UNCHANGED stack /\ hdr'.idx = Top.p + 1
    BY <1>2 DEF BeginElement
  <2>2. Standing = Top.p /\ Stage = 5 /\ Standing' = Top.p + 1 /\ Stage' = 2
    BY <2>1 DEF Standing, Stage
  <2>3. Progress < Progress'
    BY <2>1, <2>2, ProgressIs DEF Progress
  <2> QED BY <2>1, <2>3, ProgressIs DEF Advances
<1>3. CASE TagOctet \/ ShortLength \/ LongLength \/ LongLengthOctet \/ LongLengthEnd
  <2>1. pc \in HeaderPcs /\ pc # "body" /\ pc # "done" /\ pc' \in HeaderPcs /\ UNCHANGED stack
    BY <1>3 DEF TagOctet, ShortLength, LongLength, LongLengthOctet, LongLengthEnd, HeaderPcs
  <2>2. hdr \in Headers
    BY DEF IInv, Typed
  <2>3. hdr'.idx = hdr.idx + 1 \/ (hdr' = hdr /\ pc' = "body")
    BY <1>3, <2>2 DEF TagOctet, ShortLength, LongLength, LongLengthOctet, LongLengthEnd, Headers
  <2> QED BY <2>1, <2>3, HeaderAdvances, ProgressIs DEF Advances
<1>4. CASE IndefiniteLength
  <2>1. pc \in HeaderPcs /\ pc # "done" /\ Open("indefinite", hdr.idx + 1, Top.end)
    BY <1>4 DEF IndefiniteLength, HeaderPcs
  <2> QED BY <2>1, OpenAdvances, ProgressIs DEF Advances
<1>5. CASE ConstructedBody
  <2>1. pc = "body" /\ pc \in HeaderPcs /\ pc # "done" /\ Open("definite", hdr.idx, DefiniteEnd)
    BY <1>5 DEF ConstructedBody, HeaderPcs
  <2> QED BY <2>1, OpenAdvances, ProgressIs DEF Advances
<1>6. CASE PrimitiveBody
  <2>1. pc = "body" /\ pc \in HeaderPcs /\ pc # "done" /\ Standing = hdr.idx /\ Stage = 3
    BY <1>6 DEF PrimitiveBody, HeaderPcs, Standing, Stage
  <2>2. hdr.idx <= DefiniteEnd /\ DefiniteEnd \in Nat
    BY <2>1, InHeader DEF DefiniteEnd, HeaderLen
  <2>3. stack \in Seq(Frames) /\ Len(stack) >= 1 /\ Len(stack) \in Nat
    BY TopFacts DEF IInv, Typed
  <2>4. PICK node : Return(stack, node, DefiniteEnd)
    BY <1>6 DEF PrimitiveBody
  <2> QED BY <2>1, <2>2, <2>3, <2>4, ReturnAdvances, ProgressIs DEF Advances
<1>7. CASE CloseDefinite \/ CloseIndefinite
  <2>1. pc # "done"
    BY <1>7 DEF CloseDefinite, CloseIndefinite
  <2> QED BY <1>7, <2>1, CloseAdvances, ProgressIs DEF Advances
<1> QED BY <1>1, <1>2, <1>3, <1>4, <1>5, <1>6, <1>7 DEF Next

(* The safety half of Termination, for every blob and all limits: every     *)
(* step of the reader that does not return comes further into a blob that   *)
(* has an end, so neither the recursion nor a loop of parse_tlv and         *)
(* parse_children can go on for ever.                                       *)
THEOREM EveryStepAdvances == Spec => [][Advances]_vars
<1>1. IInv /\ [Next]_vars => [Advances]_vars
  BY StepAdvances
<1> QED BY <1>1, Invariance, PTL DEF Spec

=============================================================================
