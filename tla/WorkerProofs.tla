----------------------------- MODULE WorkerProofs ----------------------------
(***************************************************************************)
(* What is proved of the scalar functions and of the tables, and of the    *)
(* worker that serves either.                                              *)
(***************************************************************************)
EXTENDS Worker, TLAPS, FiniteSetTheorems

-----------------------------------------------------------------------------
(* The loops of the scalar functions, for every core, every call and every *)
(* limit of the offsets.                                                   *)

Prefix(f, k) == [r \in 1 .. k |-> f[r]]

\* The columns a call should have, row by row.
Answers == [r \in 1 .. call.rows |-> AnswerAt(call, r)]
Validity == [r \in 1 .. call.rows |-> AnswerAt(call, r) # None]
ChildAnswers(f) ==
  [r \in 1 .. call.rows |->
     IF AnswerAt(call, r) = None THEN Filler(f) ELSE AnswerAt(call, r)[1][f]]
Count(r) == IF AnswerAt(call, r) = None THEN 0 ELSE Len(AnswerAt(call, r)[1])

\* What the first loop has done after k rows.
Readable(k) == \A r \in 1 .. k : ~ Unreadable(call, r)

Scanned(k) ==
  IF IsStruct(call)
  THEN /\ children = [f \in FieldsOf(call.fn) |-> Prefix(ChildAnswers(f), k)]
       /\ valid = Prefix(Validity, k)
  ELSE values = Prefix(Answers, k)

NothingLaid ==
  /\ offsets = <<0>> /\ elements = <<>> /\ total = 0 /\ at = 0
  /\ ~ IsStruct(call) => valid = <<>>

\* What the second loop has done after k rows: the elements of each lie
\* between its two offsets, and these follow from the lengths of the answers.
LaidOut(k) ==
  /\ offsets \in Seq(Nat) /\ Len(offsets) = k + 1 /\ offsets[1] = 0
  /\ elements \in Seq(Elements) /\ Len(elements) = total
  /\ valid = Prefix(Validity, k)
  /\ \A r \in 1 .. k : offsets[r + 1] = offsets[r] + Count(r)
  /\ \A r \in 1 .. k + 1 : offsets[r] <= total
  /\ \A r \in 1 .. k : \A j \in 1 .. Count(r) :
       elements[offsets[r] + j] = AnswerAt(call, r)[1][j]

\* Where it stands in the row it is at.
InRow ==
  /\ at \in Nat /\ total \in Nat /\ total = offsets[row] + at /\ total <= OffsetMax
  /\ row <= call.rows =>
       /\ at <= Count(row)
       /\ \A j \in 1 .. at : elements[offsets[row] + j] = AnswerAt(call, row)[1][j]
  /\ row > call.rows => at = 0

\* The elements before element at of row k, and that one.
Laid(k, j) == { p \in Promise!AllElements(call) : p[1] < k \/ (p[1] = k /\ p[2] <= j) }

IInv ==
  /\ call \in Calls
  /\ pc \in {"idle", "scan", "build", "done", "failed", "panicked"}
  /\ row \in 1 .. call.rows + 1
  /\ pc = "scan" => Readable(row - 1) /\ Scanned(row - 1) /\ NothingLaid
  /\ pc = "build" =>
       /\ IsList(call) /\ Readable(call.rows) /\ Scanned(call.rows)
       /\ LaidOut(row - 1) /\ InRow
       /\ Cardinality(Laid(row, at)) = total

-----------------------------------------------------------------------------
LEMMA AppendPrefix ==
  ASSUME NEW f, NEW k \in Nat
  PROVE  Append(Prefix(f, k), f[k + 1]) = Prefix(f, k + 1)
<1> DEFINE S == { f[r] : r \in 1 .. k }
<1>1. Prefix(f, k) \in Seq(S) BY DEF Prefix
<1>2. Len(Prefix(f, k)) = k BY DEF Prefix
<1> QED BY <1>1, <1>2 DEF Prefix

LEMMA CallFacts ==
  ASSUME NEW c, IsCall(c)
  PROVE  /\ c.rows \in Nat
         /\ c.fn \in Functions
         /\ \A r \in 1 .. c.rows :
              ~ IsNull(c, r) => CellOf(c, 1, r)[1] \in Contents
<1>1. Arity(c.fn) \in {1, 2} BY DEF Arity
<1>2. ASSUME NEW r \in 1 .. c.rows, ~ IsNull(c, r) PROVE CellOf(c, 1, r)[1] \in Contents
  <2>1. 1 \in 1 .. Arity(c.fn) BY <1>1
  <2>2. CellOf(c, 1, r) # None BY <1>2, <2>1 DEF IsNull
  <2>3. c.columns[1].cells \in [1 .. c.rows -> { None } \cup { Some(b) : b \in Contents }]
    BY <2>1 DEF IsCall
  <2>4. c.columns[1].cells[r] \in { None } \cup { Some(b) : b \in Contents } BY <2>3
  <2>5. PICK b \in Contents : c.columns[1].cells[r] = Some(b) BY <2>2, <2>4 DEF CellOf
  <2> QED BY <2>5 DEF CellOf, Some
<1> QED BY <1>2 DEF IsCall

LEMMA ListAnswers ==
  ASSUME NEW c, IsCall(c), IsList(c), NEW r \in 1 .. c.rows
  PROVE  AnswerAt(c, r) = None \/ \E s \in Seq(Elements) : AnswerAt(c, r) = <<s>>
<1>1. CASE IsNull(c, r) BY <1>1 DEF AnswerAt
<1>2. CASE ~ IsNull(c, r)
  <2> DEFINE b == CellOf(c, 1, r)[1]
             args == [k \in 1 .. Arity(c.fn) |-> CellOf(c, k, r)[1]]
  <2>1. b \in Contents BY <1>2, CallFacts
  <2>2. c.fn \in {"tlv", "oids", "cms_certs"} BY DEF IsList, ListFunctions
  <2>3. args[1] = b BY <2>2 DEF Arity
  <2>4. Core(c.fn, b) \in Seq(Elements) BY <2>1, <2>2, CoreAssumption DEF ListFunctions
  <2>5. <<>> \in Seq(Elements) OBVIOUS
  <2>6. AnswerAt(c, r) = RowAnswer(c.fn, args) BY <1>2 DEF AnswerAt
  <2> HIDE DEF args
  <2>7. CASE c.fn = "tlv"
    <3>1. RowAnswer("tlv", args) = TlvRow(b) BY <2>3 DEF RowAnswer, JsonFunctions, DecodeFunctions
    <3> QED BY <3>1, <2>7, <2>6, <2>4, <2>5 DEF TlvRow, Some
  <2>8. CASE c.fn = "oids"
    <3>1. RowAnswer("oids", args) = OidsRow(b) BY <2>3 DEF RowAnswer, JsonFunctions, DecodeFunctions
    <3> QED BY <3>1, <2>8, <2>6, <2>4, <2>5 DEF OidsRow, Some
  <2>9. CASE c.fn = "cms_certs"
    <3>1. RowAnswer("cms_certs", args) = CmsCertsRow(b) BY <2>3 DEF RowAnswer, JsonFunctions, DecodeFunctions
    <3> QED BY <3>1, <2>9, <2>6, <2>4 DEF CmsCertsRow, Some
  <2> QED BY <2>2, <2>7, <2>8, <2>9
<1> QED BY <1>1, <1>2

LEMMA StructAnswers ==
  ASSUME NEW c, IsCall(c), IsStruct(c), NEW r \in 1 .. c.rows
  PROVE  \/ AnswerAt(c, r) = None
         \/ AnswerAt(c, r) = Some([f \in FieldsOf(c.fn) |-> AnswerAt(c, r)[1][f]])
<1>1. CASE IsNull(c, r) BY <1>1 DEF AnswerAt
<1>2. CASE ~ IsNull(c, r)
  <2> DEFINE b == CellOf(c, 1, r)[1]
             args == [k \in 1 .. Arity(c.fn) |-> CellOf(c, k, r)[1]]
  <2>1. b \in Contents BY <1>2, CallFacts
  <2>2. c.fn \in {"well_formed", "krb_ticket", "pkcs8_info"} BY DEF IsStruct, StructFunctions
  <2>3. args[1] = b BY <2>2 DEF Arity
  <2>4. AnswerAt(c, r) = RowAnswer(c.fn, args) BY <1>2 DEF AnswerAt
  <2> HIDE DEF args
  <2>5. CASE c.fn = "well_formed"
    <3>1. RowAnswer("well_formed", args) = WellFormedRow(b)
      BY <2>3 DEF RowAnswer, JsonFunctions, DecodeFunctions
    <3>2. FieldsOf(c.fn) = {"ok", "error", "kind"} BY <2>5 DEF FieldsOf
    <3> QED BY <3>1, <3>2, <2>5, <2>4 DEF WellFormedRow, Some
  <2>6. CASE c.fn \in {"krb_ticket", "pkcs8_info"}
    <3>1. RowAnswer(c.fn, args) = Core(c.fn, b)
      BY <2>6, <2>3 DEF RowAnswer, JsonFunctions, DecodeFunctions, KrbTicketRow, Pkcs8InfoRow
    <3>2. \/ Core(c.fn, b) = None
          \/ Core(c.fn, b) = Some([f \in FieldsOf(c.fn) |-> Core(c.fn, b)[1][f]])
      BY <2>1, <2>6, CoreAssumption
    <3> QED BY <3>1, <3>2, <2>4
  <2> QED BY <2>2, <2>5, <2>6
<1> QED BY <1>1, <1>2

\* The abstract specification speaks of the same functions and calls.
LEMMA SameAnswer ==
  ASSUME NEW c, NEW r
  PROVE  Promise!AnswerAt(c, r) = AnswerAt(c, r)
<1>1. Promise!IsNull(c, r) = IsNull(c, r)
  BY DEF Promise!IsNull, IsNull, Promise!Arity, Arity, Promise!CellOf, CellOf, Promise!None, None
<1>2. ASSUME NEW fn, NEW args PROVE Promise!RowAnswer(fn, args) = RowAnswer(fn, args)
  BY DEF Promise!RowAnswer, RowAnswer, Promise!JsonRow, JsonRow, Promise!DecodeRow, DecodeRow,
         Promise!DumpRow, DumpRow, Promise!TlvRow, TlvRow, Promise!OidsRow, OidsRow,
         Promise!CmsCertsRow, CmsCertsRow, Promise!AtPathRow, AtPathRow, Promise!OidNameRow,
         OidNameRow, Promise!OidRow, OidRow, Promise!PemLabelRow, PemLabelRow,
         Promise!IsValidRow, IsValidRow, Promise!ToDerRow, ToDerRow, Promise!ReencodeRow,
         ReencodeRow, Promise!CmsContentRow, CmsContentRow, Promise!WellFormedRow,
         WellFormedRow, Promise!KrbTicketRow, KrbTicketRow, Promise!Pkcs8InfoRow,
         Pkcs8InfoRow, Promise!JsonFunctions, JsonFunctions, Promise!DecodeFunctions,
         DecodeFunctions, Promise!None, None, Promise!Some, Some, Promise!ParseErrorText,
         ParseErrorText, Promise!EmptyAsNull, EmptyAsNull
<1> QED
  BY <1>1, <1>2 DEF Promise!AnswerAt, AnswerAt, Promise!Arity, Arity, Promise!CellOf, CellOf,
                    Promise!None, None

LEMMA SameCall ==
  ASSUME NEW c
  PROVE  /\ Promise!IsCall(c) = IsCall(c)
         /\ Promise!IsList(c) = IsList(c)
         /\ \A r : Promise!Unreadable(c, r) = Unreadable(c, r)
<1>1. Promise!IsCall(c) = IsCall(c)
  BY DEF Promise!IsCall, IsCall, Promise!Arity, Arity, Promise!Functions, Functions,
         Promise!Types, Types, Promise!None, None, Promise!Some, Some,
         Promise!StructFunctions, StructFunctions, Promise!ListFunctions, ListFunctions,
         Promise!ColumnFunctions, ColumnFunctions, Promise!JsonFunctions, JsonFunctions,
         Promise!DecodeFunctions, DecodeFunctions, Promise!TextFunctions, TextFunctions
<1>2. Promise!IsList(c) = IsList(c)
  BY DEF Promise!IsList, IsList, Promise!ListFunctions, ListFunctions
<1>3. ASSUME NEW r PROVE Promise!Unreadable(c, r) = Unreadable(c, r)
  BY DEF Promise!Unreadable, Unreadable, Promise!Arity, Arity, Promise!CellOf, CellOf,
         Promise!None, None, Promise!TypesRead, TypesRead, Promise!TextFunctions, TextFunctions
<1> QED BY <1>1, <1>2, <1>3

\* The elements of a call, counted row by row.
LEMMA ElementFacts ==
  ASSUME IsCall(call), IsList(call)
  PROVE  /\ \A r \in 1 .. call.rows :
              /\ Count(r) \in Nat
              /\ AnswerAt(call, r) # None => AnswerAt(call, r)[1] \in Seq(Elements)
         /\ \A p : p \in Promise!AllElements(call) <=>
                     \E r \in 1 .. call.rows : \E j \in 1 .. Count(r) : p = <<r, j>>
         /\ IsFiniteSet(Promise!AllElements(call))
<1> DEFINE C(r) == {r} \X (1 .. Count(r))
           S == { C(r) : r \in 1 .. call.rows }
<1>1. call.rows \in Nat BY CallFacts
<1>2. \A r \in 1 .. call.rows :
        /\ Count(r) \in Nat
        /\ AnswerAt(call, r) # None => AnswerAt(call, r)[1] \in Seq(Elements)
  BY ListAnswers DEF Count
<1>3. \A r \in 1 .. call.rows : Promise!ElementsAt(call, r) = 1 .. Count(r)
  BY SameAnswer DEF Promise!ElementsAt, Count, Promise!None, None
<1>4. Promise!AllElements(call) = UNION S
  BY <1>3 DEF Promise!AllElements
<1>5. \A p : p \in UNION S <=> \E r \in 1 .. call.rows : \E j \in 1 .. Count(r) : p = <<r, j>>
  OBVIOUS
<1>6. IsFiniteSet(S)
  <2> DEFINE f == [r \in 1 .. call.rows |-> C(r)]
  <2>1. f \in Surjection(1 .. call.rows, S) BY DEF Surjection
  <2>2. IsFiniteSet(1 .. call.rows) BY <1>1, FS_Interval
  <2> HIDE DEF f, S
  <2> QED BY <2>1, <2>2, FS_Surjection
<1>7. ASSUME NEW T \in S PROVE IsFiniteSet(T)
  <2>1. PICK r \in 1 .. call.rows : T = C(r) OBVIOUS
  <2>2. IsFiniteSet({r}) BY FS_Singleton
  <2>3. IsFiniteSet(1 .. Count(r)) BY <1>2, FS_Interval
  <2> QED BY <2>1, <2>2, <2>3, FS_Product
<1> HIDE DEF S
<1>8. IsFiniteSet(UNION S) BY <1>6, <1>7, FS_UNION
<1> QED BY <1>2, <1>4, <1>5, <1>8

\* A call of a function that gives no struct or list has its answers at once.
LEMMA CallIs ==
  ASSUME IInv
  PROVE  IsCall(call) /\ call.rows \in Nat
BY ScanAssumption, CallFacts DEF IInv

LEMMA EmptyPrefix ==
  ASSUME NEW f
  PROVE  Prefix(f, 0) = <<>>
BY DEF Prefix

LEMMA ValidAt ==
  ASSUME valid = Prefix(Validity, call.rows), NEW r \in 1 .. call.rows
  PROVE  valid[r] <=> AnswerAt(call, r) # None
<1>1. valid[r] = Validity[r] BY Zenon DEF Prefix
<1>2. Validity[r] <=> AnswerAt(call, r) # None BY Zenon DEF Validity
<1> QED BY <1>1, <1>2

\* A finished column reads back as the answers.
LEMMA ReadsBack ==
  ASSUME call \in Calls, Scanned(call.rows), IsList(call) => LaidOut(call.rows),
         NEW r \in 1 .. call.rows
  PROVE  ReadBack(r) = AnswerAt(call, r)
<1>1. IsCall(call) /\ call.rows \in Nat BY ScanAssumption, CallFacts
<1>2. CASE IsList(call)
  <2>1. LaidOut(call.rows) BY <1>2
  <2>2. valid[r] <=> AnswerAt(call, r) # None BY <2>1, ValidAt DEF LaidOut
  <2>3. ReadBack(r) = ListAt(r)
    <3>1. ~ IsStruct(call) BY <1>2 DEF IsStruct, IsList, StructFunctions, ListFunctions
    <3> QED BY <1>2, <3>1 DEF ReadBack
  <2>4. CASE AnswerAt(call, r) = None BY <2>2, <2>3, <2>4 DEF ListAt
  <2>5. CASE AnswerAt(call, r) # None
    <3>1. PICK s \in Seq(Elements) : AnswerAt(call, r) = <<s>> BY <1>1, <1>2, <2>5, ListAnswers
    <3>2. Count(r) = Len(s) BY <2>5, <3>1 DEF Count
    <3>3. offsets[r] \in Nat /\ offsets[r + 1] - offsets[r] = Len(s)
      <4>1. offsets \in Seq(Nat) /\ Len(offsets) = call.rows + 1 BY <2>1 DEF LaidOut
      <4>2. offsets[r + 1] = offsets[r] + Len(s) BY <2>1, <3>2 DEF LaidOut
      <4>3. r \in 1 .. call.rows + 1 BY <1>1
      <4>4. offsets[r] \in Nat BY <4>1, <4>3
      <4>5. Len(s) \in Nat OBVIOUS
      <4> QED BY <4>2, <4>4, <4>5
    <3>4. \A j \in 1 .. Len(s) : elements[offsets[r] + j] = s[j]
      BY <1>1, <2>1, <3>1, <3>2 DEF LaidOut
    <3>5. [j \in 1 .. offsets[r + 1] - offsets[r] |-> elements[offsets[r] + j]] = s
      BY <3>3, <3>4
    <3> QED BY <2>2, <2>3, <2>5, <3>1, <3>5 DEF ListAt, Some
  <2> QED BY <2>4, <2>5
<1>3. CASE IsStruct(call)
  <2>1. ~ IsList(call) BY <1>3 DEF IsStruct, IsList, StructFunctions, ListFunctions
  <2>2. valid[r] <=> AnswerAt(call, r) # None BY <1>3, ValidAt DEF Scanned
  <2>3. \A f \in FieldsOf(call.fn) : children[f][r] = ChildAnswers(f)[r]
    BY <1>1, <1>3 DEF Scanned, Prefix
  <2>4. ReadBack(r) = StructAt(r) BY <1>3, <2>1 DEF ReadBack
  <2>5. CASE AnswerAt(call, r) = None BY <2>2, <2>4, <2>5 DEF StructAt
  <2>6. CASE AnswerAt(call, r) # None
    <3>1. AnswerAt(call, r) = Some([f \in FieldsOf(call.fn) |-> AnswerAt(call, r)[1][f]])
      BY <1>1, <1>3, <2>6, StructAnswers
    <3>2. \A f \in FieldsOf(call.fn) : children[f][r] = AnswerAt(call, r)[1][f]
      BY <2>3, <2>6 DEF ChildAnswers
    <3>3. StructAt(r) = Some([f \in FieldsOf(call.fn) |-> AnswerAt(call, r)[1][f]])
      BY <2>2, <2>6, <3>2 DEF StructAt
    <3> QED BY <2>4, <3>1, <3>3
  <2> QED BY <2>5, <2>6
<1>4. CASE ~ IsList(call) /\ ~ IsStruct(call)
  BY <1>1, <1>4 DEF ReadBack, Scanned, Prefix, Answers
<1> QED BY <1>2, <1>3, <1>4

-----------------------------------------------------------------------------
\* The invariant.

LEMMA InvInit ==
  ASSUME ScanInit
  PROVE  IInv
<1>1. IsCall(call) /\ call.rows \in Nat BY ScanAssumption, CallFacts DEF ScanInit
<1>2. Scanned(0) BY EmptyPrefix DEF Scanned, ScanInit
<1>3. Readable(0) BY DEF Readable
<1> QED BY <1>1, <1>2, <1>3 DEF IInv, ScanInit, NothingLaid

LEMMA ScanValueKeeps ==
  ASSUME IInv, ScanValue
  PROVE  IInv'
<1>1. IsCall(call) /\ call.rows \in Nat /\ row \in 1 .. call.rows BY CallIs DEF IInv, ScanValue, Reads, Scanning
<1>2. Readable(row - 1) /\ Scanned(row - 1) /\ NothingLaid BY DEF IInv, ScanValue, Reads, Scanning
<1>3. Readable(row - 1)'
  <2>1. ASSUME NEW r \in 1 .. row PROVE ~ Unreadable(call, r)
    BY <1>1, <1>2 DEF Readable, ScanValue, Reads
  <2>2. (row - 1)' = row /\ call' = call BY <1>1 DEF ScanValue
  <2> QED BY <2>1, <2>2 DEF Readable
<1>4. values' = Prefix(Answers, row)
  <2>1. values = Prefix(Answers, row - 1) BY <1>2 DEF Scanned, ScanValue
  <2>2. Answers[row] = AnswerAt(call, row) BY <1>1 DEF Answers
  <2> HIDE DEF Answers
  <2>3. Append(Prefix(Answers, row - 1), Answers[(row - 1) + 1]) = Prefix(Answers, (row - 1) + 1)
    <3>1. row - 1 \in Nat BY <1>1
    <3> QED BY <3>1, AppendPrefix
  <2>4. (row - 1) + 1 = row BY <1>1
  <2> QED BY <2>1, <2>2, <2>3, <2>4 DEF ScanValue
<1>5. (row - 1)' = row BY <1>1 DEF ScanValue
<1>6. Scanned(row - 1)'
  BY <1>4, <1>5 DEF Scanned, ScanValue, IsStruct, Prefix, Answers
<1>8. NothingLaid' BY <1>2 DEF NothingLaid, ScanValue, IsStruct
<1>9. pc' = "scan" /\ row' \in 1 .. call.rows + 1 /\ call' = call BY <1>1 DEF ScanValue, Reads, Scanning
<1> QED BY <1>3, <1>6, <1>8, <1>9 DEF IInv

LEMMA ScanStructKeeps ==
  ASSUME IInv, ScanStruct
  PROVE  IInv'
<1>1. IsCall(call) /\ call.rows \in Nat /\ row \in 1 .. call.rows
  BY CallIs DEF IInv, ScanStruct, Reads, Scanning
<1>2. Readable(row - 1) /\ Scanned(row - 1) /\ NothingLaid
  BY DEF IInv, ScanStruct, Reads, Scanning
<1>3. (row - 1)' = row /\ call' = call /\ pc' = "scan" /\ row' \in 1 .. call.rows + 1
  BY <1>1 DEF ScanStruct, Reads, Scanning
<1>4. Readable(row - 1)'
  <2>1. ASSUME NEW r \in 1 .. row PROVE ~ Unreadable(call, r)
    BY <1>1, <1>2 DEF Readable, ScanStruct, Reads
  <2> QED BY <1>3, <2>1 DEF Readable
<1>5. row - 1 \in Nat /\ (row - 1) + 1 = row BY <1>1
<1>6. ASSUME NEW f \in FieldsOf(call.fn) PROVE children'[f] = Prefix(ChildAnswers(f), row)
  <2>1. children[f] = Prefix(ChildAnswers(f), row - 1) BY <1>2 DEF Scanned, ScanStruct
  <2>2. children'[f] = Append(children[f], ChildAnswers(f)[row])
    BY <1>1 DEF ScanStruct, ChildAnswers
  <2> HIDE DEF ChildAnswers
  <2>3. Append(Prefix(ChildAnswers(f), row - 1), ChildAnswers(f)[(row - 1) + 1])
          = Prefix(ChildAnswers(f), (row - 1) + 1)
    BY <1>5, AppendPrefix
  <2> QED BY <2>1, <2>2, <2>3, <1>5
<1>7. valid' = Prefix(Validity, row)
  <2>1. valid = Prefix(Validity, row - 1) BY <1>2 DEF Scanned, ScanStruct
  <2>2. Validity[row] = (AnswerAt(call, row) # None) BY <1>1, Zenon DEF Validity
  <2>3. valid' = Append(valid, Validity[row]) BY <2>2 DEF ScanStruct
  <2>4. Append(Prefix(Validity, row - 1), Validity[(row - 1) + 1]) = Prefix(Validity, (row - 1) + 1)
    BY <1>5, AppendPrefix
  <2> QED BY <2>1, <2>3, <2>4, <1>5
<1>8. children' = [f \in FieldsOf(call.fn) |-> Prefix(ChildAnswers(f), row)]
  BY <1>6 DEF ScanStruct
<1>9. Scanned(row - 1)'
  <2>1. Validity' = Validity BY <1>3 DEF Validity
  <2>2. \A f : ChildAnswers(f)' = ChildAnswers(f) BY <1>3 DEF ChildAnswers
  <2>3. IsStruct(call)' BY <1>3 DEF ScanStruct, IsStruct
  <2> HIDE DEF Validity, ChildAnswers
  <2>4. valid' = Prefix(Validity', (row - 1)') BY <1>3, <1>7, <2>1
  <2>5. children' = [f \in FieldsOf(call'.fn) |-> Prefix(ChildAnswers(f)', (row - 1)')]
    BY <1>3, <1>8, <2>2
  <2> QED BY <2>3, <2>4, <2>5 DEF Scanned
<1>10. NothingLaid' BY <1>2 DEF NothingLaid, ScanStruct, IsStruct
<1> QED BY <1>3, <1>4, <1>9, <1>10 DEF IInv

LEMMA EndScanKeeps ==
  ASSUME IInv, EndScan
  PROVE  IInv'
<1>1. IsCall(call) /\ call.rows \in Nat /\ row = call.rows + 1 BY CallIs DEF IInv, EndScan
<1>2. Readable(call.rows) /\ Scanned(call.rows) /\ NothingLaid
  <2>1. row - 1 = call.rows BY <1>1
  <2>2. Readable(row - 1) /\ Scanned(row - 1) /\ NothingLaid BY DEF IInv, EndScan
  <2> QED BY <2>1, <2>2
<1>3. call' = call /\ row' = 1 /\ pc' \in {"build", "done"} /\ row' \in 1 .. call.rows + 1
  BY <1>1 DEF EndScan
<1>4. CASE ~ IsList(call) BY <1>3, <1>4 DEF IInv, EndScan
<1>5. CASE IsList(call)
  <2>1. ~ IsStruct(call) BY <1>5 DEF IsStruct, IsList, StructFunctions, ListFunctions
  <2>2. IsList(call)' /\ Readable(call.rows)' /\ Scanned(call.rows)'
    <3>1. Answers' = Answers BY <1>3 DEF Answers
    <3>2. values' = Prefix(Answers', call'.rows) BY <1>2, <1>3, <2>1, <3>1 DEF Scanned, EndScan
    <3>3. Scanned(call.rows)' BY <1>3, <2>1, <3>2 DEF Scanned, IsStruct
    <3> QED BY <1>2, <1>3, <1>5, <3>3 DEF Readable, IsList
  <2>3. offsets' = <<0>> /\ elements' = <<>> /\ total' = 0 /\ at' = 0 /\ valid' = <<>>
    BY <1>2, <2>1 DEF NothingLaid, EndScan
  <2>4. (row - 1)' = 0 BY <1>3
  <2>5. LaidOut(row - 1)'
    <3>1. valid' = Prefix(Validity, 0)' BY <2>3, EmptyPrefix DEF Prefix
    <3> QED BY <2>3, <2>4, <3>1 DEF LaidOut
  <2>6. InRow'
    <3>1. Count(1)' \in Nat \/ call.rows = 0
      BY <1>1, <1>3, <1>5, ElementFacts DEF Count
    <3> QED BY <1>1, <1>3, <2>3, <3>1, ScanAssumption DEF InRow
  <2>7. (Cardinality(Laid(row, at)) = total)'
    <3>1. \A p \in Promise!AllElements(call) : p[1] >= 1 /\ p[2] >= 1
      BY <1>1, <1>5, ElementFacts
    <3>2. \A p \in Promise!AllElements(call) : p[1] \in Nat /\ p[2] \in Nat
      BY <1>1, <1>5, ElementFacts
    <3>3. Laid(1, 0) = {} BY <3>1, <3>2 DEF Laid
    <3>4. Laid(row, at)' = Laid(1, 0) BY <1>3, <2>3 DEF Laid
    <3> QED BY <2>3, <3>3, <3>4, FS_EmptySet
  <2> QED BY <1>3, <2>2, <2>5, <2>6, <2>7 DEF IInv
<1> QED BY <1>4, <1>5

\* What the second loop sees of the row it is at.
LEMMA RowAt ==
  ASSUME IInv, Building
  PROVE  /\ IsCall(call) /\ IsList(call) /\ ~ IsStruct(call) /\ call.rows \in Nat
         /\ row \in 1 .. call.rows /\ (row - 1) + 1 = row /\ row - 1 \in Nat
         /\ LaidOut(row - 1) /\ InRow /\ Readable(call.rows) /\ Scanned(call.rows)
         /\ Count(row) \in Nat
         /\ values[row] = AnswerAt(call, row)
         /\ MoreElements <=> at < Count(row)
<1>1. IsCall(call) /\ call.rows \in Nat BY CallIs
<1>2. IsList(call) /\ LaidOut(row - 1) /\ InRow /\ Readable(call.rows) /\ Scanned(call.rows)
  BY DEF IInv, Building
<1>3. ~ IsStruct(call) BY <1>2 DEF IsStruct, IsList, StructFunctions, ListFunctions
<1>4. row \in 1 .. call.rows /\ (row - 1) + 1 = row /\ row - 1 \in Nat
  BY <1>1 DEF IInv, Building
<1>5. values[row] = AnswerAt(call, row)
  BY <1>2, <1>3, <1>4 DEF Scanned, Prefix, Answers
<1>6. Count(row) \in Nat BY <1>1, <1>2, <1>4, ElementFacts
<1>7. MoreElements <=> at < Count(row)
  BY <1>2, <1>5 DEF MoreElements, Building, Count, InRow
<1> QED BY <1>1, <1>2, <1>3, <1>4, <1>5, <1>6, <1>7

LEMMA BuildElementKeeps ==
  ASSUME IInv, BuildElement
  PROVE  IInv'
<1>1. Building BY DEF BuildElement, MoreElements
<1>2. /\ IsCall(call) /\ IsList(call) /\ ~ IsStruct(call) /\ call.rows \in Nat
      /\ row \in 1 .. call.rows /\ (row - 1) + 1 = row /\ row - 1 \in Nat
      /\ LaidOut(row - 1) /\ InRow /\ Readable(call.rows) /\ Scanned(call.rows)
      /\ Count(row) \in Nat /\ values[row] = AnswerAt(call, row) /\ at < Count(row)
  BY <1>1, RowAt DEF BuildElement
<1> DEFINE s == AnswerAt(call, row)[1]
<1>3. s \in Seq(Elements) /\ Len(s) = Count(row) /\ AnswerAt(call, row) # None
  <2>1. AnswerAt(call, row) # None BY <1>2 DEF Count, InRow
  <2> QED BY <1>2, <2>1, ElementFacts DEF Count
<1>4. /\ call' = call /\ pc' = pc /\ row' = row /\ offsets' = offsets /\ valid' = valid
      /\ at' = at + 1 /\ total' = total + 1 /\ values' = values /\ children' = children
  BY DEF BuildElement
<1>5. at \in Nat /\ total \in Nat /\ total = offsets[row] + at /\ total < OffsetMax
      /\ OffsetMax \in Nat
  BY <1>2, ScanAssumption DEF InRow, BuildElement
<1>6. elements \in Seq(Elements) /\ Len(elements) = total /\ elements' = Append(elements, s[at + 1])
  BY <1>2 DEF LaidOut, BuildElement
<1>7. s[at + 1] \in Elements BY <1>2, <1>3, <1>5
<1> HIDE DEF s
<1>8. /\ elements' \in Seq(Elements) /\ Len(elements') = total + 1
      /\ \A i \in 1 .. total : elements'[i] = elements[i]
      /\ elements'[total + 1] = s[at + 1]
  BY <1>5, <1>6, <1>7
<1>9. offsets \in Seq(Nat) /\ Len(offsets) = row /\ offsets[1] = 0 /\ valid = Prefix(Validity, row - 1)
  BY <1>2 DEF LaidOut
<1>10. \A r \in 1 .. row - 1 : offsets[r + 1] = offsets[r] + Count(r)
  BY <1>2 DEF LaidOut
<1>11. \A r \in 1 .. row : offsets[r] \in Nat /\ offsets[r] <= total
  BY <1>2, <1>9 DEF LaidOut
<1>12. \A r \in 1 .. row - 1 : \A j \in 1 .. Count(r) :
         elements[offsets[r] + j] = AnswerAt(call, r)[1][j]
  BY <1>2 DEF LaidOut
<1>13. \A r \in 1 .. row - 1 : \A j \in 1 .. Count(r) :
         elements'[offsets[r] + j] = AnswerAt(call, r)[1][j]
  <2> TAKE r \in 1 .. row - 1
  <2> TAKE j \in 1 .. Count(r)
  <2>1. Count(r) \in Nat BY <1>2, ElementFacts
  <2>2. r \in 1 .. row /\ r + 1 \in 1 .. row BY <1>2
  <2>3. offsets[r] \in Nat /\ offsets[r] + Count(r) <= total BY <1>10, <1>11, <2>2
  <2>4. offsets[r] + j \in 1 .. total BY <1>5, <2>1, <2>3
  <2> QED BY <1>8, <1>12, <2>4
<1>14. \A r : Count(r)' = Count(r) BY <1>4 DEF Count
<1>15. Validity' = Validity BY <1>4 DEF Validity
<1>16. LaidOut(row - 1)'
  <2>1. \A r \in 1 .. row : offsets[r] <= total + 1 BY <1>5, <1>11
  <2> HIDE DEF Count, Validity
  <2> QED BY <1>2, <1>4, <1>8, <1>9, <1>10, <2>1, <1>13, <1>14, <1>15 DEF LaidOut
<1>17. InRow'
  <2>1. \A j \in 1 .. at : elements[offsets[row] + j] = AnswerAt(call, row)[1][j]
    BY <1>2 DEF InRow
  <2>2. offsets[row] \in Nat BY <1>2, <1>11
  <2>3. ASSUME NEW j \in 1 .. at + 1 PROVE elements'[offsets[row] + j] = AnswerAt(call, row)[1][j]
    <3>1. CASE j = at + 1 BY <1>5, <1>8, <2>2, <3>1 DEF s
    <3>2. CASE j \in 1 .. at
      <4>1. offsets[row] + j \in 1 .. total BY <1>5, <2>2, <3>2
      <4> QED BY <1>8, <2>1, <3>2, <4>1
    <3> QED BY <1>5, <3>1, <3>2
  <2>4. total + 1 = offsets[row] + (at + 1) /\ total + 1 <= OffsetMax /\ at + 1 <= Count(row)
    BY <1>2, <1>5, <2>2
  <2>5. ~ (row > call.rows) BY <1>2
  <2> QED BY <1>4, <1>5, <1>14, <2>3, <2>4, <2>5 DEF InRow
<1>18. (Cardinality(Laid(row, at)) = total)'
  <2> DEFINE new == <<row, at + 1>>
  <2>1. new \in Promise!AllElements(call)
    <3>1. at + 1 \in 1 .. Count(row) BY <1>2, <1>5
    <3> QED BY <1>2, <3>1, ElementFacts
  <2>2. \A p \in Promise!AllElements(call) : p = <<p[1], p[2]>> /\ p[1] \in Nat /\ p[2] \in Nat
    BY <1>2, ElementFacts
  <2>3. Laid(row, at + 1) = Laid(row, at) \cup {new}
    <3>1. ASSUME NEW p \in Promise!AllElements(call)
          PROVE  p \in Laid(row, at + 1) <=> p \in Laid(row, at) \/ p = new
      BY <1>2, <1>5, <2>2 DEF Laid
    <3> QED BY <2>1, <3>1 DEF Laid
  <2>4. new \notin Laid(row, at) BY <1>2, <1>5 DEF Laid
  <2>5. IsFiniteSet(Laid(row, at))
    <3>1. Laid(row, at) \in SUBSET Promise!AllElements(call) BY DEF Laid
    <3> QED BY <1>2, <3>1, ElementFacts, FS_Subset
  <2> HIDE DEF new
  <2>6. Cardinality(Laid(row, at + 1)) = total + 1
    <3>1. Cardinality(Laid(row, at)) = total BY <1>1 DEF IInv, Building
    <3> QED BY <2>3, <2>4, <2>5, <3>1, FS_AddElement
  <2>7. Laid(row, at)' = Laid(row, at + 1) BY <1>4 DEF Laid
  <2> QED BY <1>4, <2>6, <2>7
<1>19. IsList(call)' /\ Readable(call.rows)' /\ Scanned(call.rows)' /\ pc' = "build"
  <2>1. Answers' = Answers BY <1>4 DEF Answers
  <2>2. values' = Prefix(Answers', call'.rows) BY <1>2, <1>4, <2>1 DEF Scanned
  <2>3. Scanned(call.rows)' BY <1>2, <1>4, <2>2 DEF Scanned, IsStruct
  <2> QED BY <1>1, <1>2, <1>4, <2>3 DEF Readable, IsList, Building
<1> QED BY <1>2, <1>4, <1>16, <1>17, <1>18, <1>19 DEF IInv

LEMMA EndRowKeeps ==
  ASSUME IInv, EndRow
  PROVE  IInv'
<1>1. Building /\ ~ MoreElements BY DEF EndRow
<1>2. /\ IsCall(call) /\ IsList(call) /\ ~ IsStruct(call) /\ call.rows \in Nat
      /\ row \in 1 .. call.rows /\ (row - 1) + 1 = row /\ row - 1 \in Nat
      /\ LaidOut(row - 1) /\ InRow /\ Readable(call.rows) /\ Scanned(call.rows)
      /\ Count(row) \in Nat /\ values[row] = AnswerAt(call, row) /\ ~ (at < Count(row))
  BY <1>1, RowAt
<1>3. /\ call' = call /\ pc' = pc /\ row' = row + 1 /\ elements' = elements
      /\ at' = 0 /\ total' = total /\ values' = values /\ children' = children
      /\ offsets' = Append(offsets, total)
  BY DEF EndRow
<1>4. (row - 1)' = row /\ row' \in 1 .. call.rows + 1 BY <1>2, <1>3
<1>5. /\ at \in Nat /\ total \in Nat /\ total = offsets[row] + at /\ total <= OffsetMax
      /\ at = Count(row)
      /\ \A j \in 1 .. at : elements[offsets[row] + j] = AnswerAt(call, row)[1][j]
  BY <1>2 DEF InRow
<1>6. offsets \in Seq(Nat) /\ Len(offsets) = row /\ offsets[1] = 0
      /\ elements \in Seq(Elements) /\ Len(elements) = total
  BY <1>2 DEF LaidOut
<1>7. \A r \in 1 .. row - 1 : offsets[r + 1] = offsets[r] + Count(r)
  BY <1>2 DEF LaidOut
<1>8. \A r \in 1 .. row : offsets[r] <= total BY <1>2 DEF LaidOut
<1>9. /\ offsets' \in Seq(Nat) /\ Len(offsets') = row + 1 /\ offsets'[1] = 0
      /\ \A r \in 1 .. row : offsets'[r] = offsets[r]
      /\ offsets'[row + 1] = total
  BY <1>2, <1>3, <1>5, <1>6
<1>10. \A r \in 1 .. row : offsets'[r + 1] = offsets'[r] + Count(r)
  <2> TAKE r \in 1 .. row
  <2>1. CASE r = row BY <1>5, <1>9, <2>1
  <2>2. CASE r \in 1 .. row - 1
    <3>1. r + 1 \in 1 .. row BY <1>2, <2>2
    <3> QED BY <1>7, <1>9, <2>2, <3>1
  <2> QED BY <1>2, <2>1, <2>2
<1>11. \A r \in 1 .. row + 1 : offsets'[r] <= total
  <2> TAKE r \in 1 .. row + 1
  <2>1. CASE r = row + 1 BY <1>5, <1>9, <2>1
  <2>2. CASE r \in 1 .. row BY <1>8, <1>9, <2>2
  <2> QED BY <1>2, <2>1, <2>2
<1>12. \A r \in 1 .. row : \A j \in 1 .. Count(r) :
         elements[offsets'[r] + j] = AnswerAt(call, r)[1][j]
  <2> TAKE r \in 1 .. row
  <2> TAKE j \in 1 .. Count(r)
  <2>1. CASE r = row BY <1>5, <1>9, <2>1
  <2>2. CASE r \in 1 .. row - 1
    <3>1. elements[offsets[r] + j] = AnswerAt(call, r)[1][j] BY <1>2, <2>2 DEF LaidOut
    <3> QED BY <1>9, <3>1
  <2> QED BY <1>2, <2>1, <2>2
<1>13. valid' = Prefix(Validity, row)
  <2>1. valid = Prefix(Validity, row - 1) BY <1>2 DEF LaidOut
  <2>2. Validity[row] = (AnswerAt(call, row) # None) BY <1>2, Zenon DEF Validity
  <2>3. valid' = Append(valid, Validity[row]) BY <1>2, <2>2 DEF EndRow
  <2>4. Append(Prefix(Validity, row - 1), Validity[(row - 1) + 1]) = Prefix(Validity, (row - 1) + 1)
    BY <1>2, AppendPrefix
  <2> QED BY <1>2, <2>1, <2>3, <2>4
<1>14. \A r : Count(r)' = Count(r) BY <1>3 DEF Count
<1>15. Validity' = Validity BY <1>3 DEF Validity
<1>16. LaidOut(row - 1)'
  <2> HIDE DEF Count, Validity
  <2> QED BY <1>3, <1>4, <1>6, <1>9, <1>10, <1>11, <1>12, <1>13, <1>14, <1>15 DEF LaidOut
<1>17. InRow'
  <2>1. row' <= call.rows => Count(row') \in Nat
    BY <1>2, <1>4, ElementFacts
  <2>2. (Count(row))' = Count(row') BY <1>3 DEF Count
  <2>3. total' = offsets'[row'] + at' BY <1>3, <1>5, <1>9
  <2>4. at' \in Nat /\ total' \in Nat /\ total' <= OffsetMax BY <1>3, <1>5
  <2>5. row' <= call'.rows => at' <= (Count(row))'
    <3> HIDE DEF Count
    <3> QED BY <1>3, <2>1, <2>2
  <2>6. \A j \in 1 .. at' : elements'[offsets'[row'] + j] = AnswerAt(call', row')[1][j]
    <3>1. 1 .. at' = {} BY <1>3
    <3> QED BY <3>1
  <2> HIDE DEF Count
  <2> QED BY <1>3, <2>3, <2>4, <2>5, <2>6 DEF InRow
<1>18. (Cardinality(Laid(row, at)) = total)'
  <2>1. \A p \in Promise!AllElements(call) :
          \E r \in 1 .. call.rows : \E j \in 1 .. Count(r) : p = <<r, j>>
    BY <1>2, ElementFacts
  <2>2. \A p \in Promise!AllElements(call) :
          (p[1] < row + 1 \/ (p[1] = row + 1 /\ p[2] <= 0)) <=> (p[1] < row \/ (p[1] = row /\ p[2] <= at))
    <3> TAKE p \in Promise!AllElements(call)
    <3>1. PICK r \in 1 .. call.rows : \E j \in 1 .. Count(r) : p = <<r, j>> BY <2>1
    <3>2. PICK j \in 1 .. Count(r) : p = <<r, j>> BY <3>1
    <3>3. Count(r) \in Nat BY <1>2, ElementFacts
    <3>4. r = row => j <= at BY <1>5, <3>2
    <3> QED BY <1>2, <1>5, <3>2, <3>3, <3>4
  <2>3. Laid(row + 1, 0) = Laid(row, at) BY <2>2 DEF Laid
  <2>4. Laid(row, at)' = Laid(row + 1, 0) BY <1>3 DEF Laid
  <2>5. Cardinality(Laid(row, at)) = total BY <1>1 DEF IInv, Building
  <2> QED BY <1>3, <2>3, <2>4, <2>5
<1>19. IsList(call)' /\ Readable(call.rows)' /\ Scanned(call.rows)' /\ pc' = "build"
  <2>1. Answers' = Answers BY <1>3 DEF Answers
  <2>2. values' = Prefix(Answers', call'.rows) BY <1>2, <1>3, <2>1 DEF Scanned
  <2>3. Scanned(call.rows)' BY <1>2, <1>3, <2>2 DEF Scanned, IsStruct
  <2> QED BY <1>1, <1>2, <1>3, <2>3 DEF Readable, IsList, Building
<1> QED BY <1>2, <1>3, <1>4, <1>16, <1>17, <1>18, <1>19 DEF IInv

LEMMA InvStep ==
  ASSUME IInv, [ScanNext]_scanVars
  PROVE  IInv'
<1>1. CASE ReadError BY <1>1 DEF ReadError, IInv
<1>2. CASE ScanValue BY <1>2, ScanValueKeeps
<1>3. CASE ScanStruct BY <1>3, ScanStructKeeps
<1>4. CASE EndScan BY <1>4, EndScanKeeps
<1>5. CASE BuildElement BY <1>5, BuildElementKeeps
<1>6. CASE Overflow BY <1>6 DEF Overflow, IInv
<1>7. CASE EndRow BY <1>7, EndRowKeeps
<1>8. CASE EndBuild BY <1>8 DEF EndBuild, IInv
<1>9. CASE UNCHANGED scanVars
  <2>1. /\ call' = call /\ pc' = pc /\ row' = row /\ values' = values
        /\ children' = children /\ valid' = valid /\ offsets' = offsets
        /\ elements' = elements /\ total' = total /\ at' = at
    BY <1>9 DEF scanVars
  <2>2. Answers' = Answers /\ Validity' = Validity BY <2>1 DEF Answers, Validity
  <2>3. \A f : ChildAnswers(f)' = ChildAnswers(f) BY <2>1 DEF ChildAnswers
  <2>4. \A r : Count(r)' = Count(r) BY <2>1 DEF Count
  <2>5. Readable(row - 1)' <=> Readable(row - 1) BY <2>1 DEF Readable
  <2>6. Readable(call.rows)' <=> Readable(call.rows) BY <2>1 DEF Readable
  <2>7. Scanned(row - 1)' <=> Scanned(row - 1)
    <3> HIDE DEF Answers, Validity, ChildAnswers
    <3> QED BY <2>1, <2>2, <2>3 DEF Scanned
  <2>8. Scanned(call.rows)' <=> Scanned(call.rows)
    <3> HIDE DEF Answers, Validity, ChildAnswers
    <3> QED BY <2>1, <2>2, <2>3 DEF Scanned
  <2>9. NothingLaid' <=> NothingLaid BY <2>1 DEF NothingLaid
  <2>10. LaidOut(row - 1)' <=> LaidOut(row - 1)
    <3> HIDE DEF Validity, Count
    <3> QED BY <2>1, <2>2, <2>4 DEF LaidOut
  <2>11. InRow' <=> InRow
    <3>1. (Count(row))' = Count(row) BY <2>1 DEF Count
    <3> HIDE DEF Count
    <3> QED BY <2>1, <3>1 DEF InRow
  <2>12. Laid(row, at)' = Laid(row, at) BY <2>1 DEF Laid
  <2> QED
    BY <2>1, <2>5, <2>6, <2>7, <2>8, <2>9, <2>10, <2>11, <2>12 DEF IInv
<1> QED BY <1>1, <1>2, <1>3, <1>4, <1>5, <1>6, <1>7, <1>8, <1>9 DEF ScanNext

\* The invariant of the two loops: what they have done is what the answers of
\* the rows behind them say, and they have counted every element of those.
THEOREM Invariance == ScanSpec => []IInv
<1>1. ScanInit => IInv BY InvInit
<1>2. IInv /\ [ScanNext]_scanVars => IInv' BY InvStep
<1> QED BY <1>1, <1>2, PTL DEF ScanSpec

-----------------------------------------------------------------------------
\* The refinement.

LEMMA RefInit ==
  ASSUME ScanInit
  PROVE  Promise!Init
<1>1. IsCall(call) BY ScanAssumption DEF ScanInit
<1>2. Outcome = Promise!Pending BY DEF Outcome, Promise!Pending, ScanInit
<1> QED BY <1>1, <1>2, SameCall DEF Promise!Init

\* A column that is finished is the one promised.
LEMMA Finishes ==
  ASSUME call \in Calls, Readable(call.rows), Scanned(call.rows),
         IsList(call) => LaidOut(call.rows),
         pc \in {"scan", "build"}, pc' = "done",
         UNCHANGED <<call, values, children, valid, offsets, elements>>
  PROVE  Promise!Next
<1>1. \A r \in 1 .. call.rows : ReadBack(r) = AnswerAt(call, r) BY ReadsBack
<1>2. \A r : ReadBack(r)' = ReadBack(r) BY DEF ReadBack, ListAt, StructAt
<1>3. Outcome = Promise!Pending BY DEF Outcome, Promise!Pending
<1>4. Outcome' = Promise!Column([r \in 1 .. call.rows |-> Promise!AnswerAt(call, r)])
  <2>1. Outcome' = [status |-> "column", cells |-> [r \in 1 .. call'.rows |-> ReadBack(r)']]
    BY DEF Outcome
  <2>2. [r \in 1 .. call'.rows |-> ReadBack(r)'] = [r \in 1 .. call.rows |-> AnswerAt(call, r)]
    BY <1>1, <1>2
  <2>3. [r \in 1 .. call.rows |-> Promise!AnswerAt(call, r)] = [r \in 1 .. call.rows |-> AnswerAt(call, r)]
    BY SameAnswer
  <2> QED BY <2>1, <2>2, <2>3 DEF Promise!Column
<1>5. ~ Promise!AnyUnreadable(call) BY SameCall DEF Promise!AnyUnreadable, Readable
<1> QED BY <1>3, <1>4, <1>5 DEF Promise!Next, Promise!Answered

\* Only a column of the wrong type is an error.
LEMMA ErrorIsPromised ==
  ASSUME IInv, ReadError
  PROVE  Promise!Next
<1>1. /\ IsCall(call) /\ call.rows \in Nat /\ row \in 1 .. call.rows
      /\ pc = "scan" /\ pc' = "failed" /\ call' = call /\ Unreadable(call, row)
  BY CallIs DEF IInv, ReadError, Scanning
<1>2. Promise!AnyUnreadable(call) BY <1>1, SameCall DEF Promise!AnyUnreadable
<1>3. Outcome = Promise!Pending BY <1>1 DEF Outcome, Promise!Pending
<1>4. Outcome' = Promise!Failed BY <1>1 DEF Outcome, Promise!Failed
<1> QED BY <1>1, <1>2, <1>3, <1>4 DEF Promise!Next, Promise!Answered

\* The counter runs over only when the call has more elements than it counts.
LEMMA PanicIsPromised ==
  ASSUME IInv, Overflow
  PROVE  Promise!Next
<1>1. Building /\ MoreElements /\ total = OffsetMax BY DEF Overflow, MoreElements
<1>2. /\ IsCall(call) /\ IsList(call) /\ row \in 1 .. call.rows /\ row \in Int
      /\ Readable(call.rows) /\ InRow
      /\ Count(row) \in Nat /\ at < Count(row)
  BY <1>1, RowAt
<1>3. at \in Nat BY <1>2 DEF InRow
<1>4. Cardinality(Laid(row, at)) = OffsetMax BY <1>1 DEF IInv, Building
<1> DEFINE All == Promise!AllElements(call)
           p == <<row, at + 1>>
<1>5. IsFiniteSet(All) /\ p \in All
  <2>1. at + 1 \in 1 .. Count(row) BY <1>2, <1>3
  <2> QED BY <1>2, <2>1, ElementFacts
<1>6. Laid(row, at) \subseteq All /\ p \notin Laid(row, at)
  BY <1>2, <1>3 DEF Laid
<1>7. IsFiniteSet(Laid(row, at)) BY <1>5, <1>6, FS_Subset
<1> HIDE DEF All, p
<1>8. /\ IsFiniteSet(Laid(row, at) \cup {p})
      /\ Cardinality(Laid(row, at) \cup {p}) = OffsetMax + 1
  BY <1>4, <1>6, <1>7, FS_AddElement
<1>9. Cardinality(Laid(row, at) \cup {p}) <= Cardinality(All)
  BY <1>5, <1>6, FS_Subset
<1>10. Cardinality(All) \in Nat BY <1>5, FS_CardinalityType
<1>11. Cardinality(All) > OffsetMax BY <1>8, <1>9, <1>10, ScanAssumption
<1>12. Promise!TooMany(call)
  <2>1. Promise!IsList(call)
    <3>1. Promise!IsList(call) <=> IsList(call) BY SameCall, Zenon
    <3> QED BY <1>2, <3>1
  <2>2. Cardinality(Promise!AllElements(call)) > OffsetMax BY <1>11 DEF All
  <2>3. Promise!Cardinality(Promise!AllElements(call)) = Cardinality(Promise!AllElements(call))
    BY Zenon DEF Promise!Cardinality, Cardinality
  <2> QED BY <2>1, <2>2, <2>3 DEF Promise!TooMany
<1>13. ~ Promise!AnyUnreadable(call) BY <1>2, SameCall DEF Promise!AnyUnreadable, Readable
<1>14. /\ Outcome = Promise!Pending /\ Outcome' = Promise!Panicked /\ call' = call
  BY <1>1 DEF Overflow, Building, Outcome, Promise!Pending, Promise!Panicked
<1> QED BY <1>12, <1>13, <1>14 DEF Promise!Next, Promise!Answered

LEMMA RefStep ==
  ASSUME IInv, [ScanNext]_scanVars
  PROVE  [Promise!Next]_<<call, Outcome>>
<1>1. CASE ReadError BY <1>1, ErrorIsPromised
<1>2. CASE ScanValue
  BY <1>2 DEF ScanValue, Reads, Scanning, Outcome
<1>3. CASE ScanStruct
  BY <1>3 DEF ScanStruct, Reads, Scanning, Outcome
<1>4. CASE EndScan
  <2>1. /\ call \in Calls /\ call.rows \in Nat /\ row = call.rows + 1
        /\ Readable(row - 1) /\ Scanned(row - 1) /\ row - 1 = call.rows
        /\ pc = "scan" /\ call' = call
    <3>1. row \in 1 .. call.rows + 1 /\ row > call.rows /\ call.rows \in Nat
      BY <1>4, CallIs DEF IInv, EndScan
    <3>2. row = call.rows + 1 /\ row - 1 = call.rows BY <3>1
    <3> QED BY <1>4, <3>1, <3>2 DEF IInv, EndScan
  <2>2. CASE IsList(call) BY <1>4, <2>1, <2>2 DEF EndScan, Outcome
  <2>3. CASE ~ IsList(call)
    <3>1. Readable(call.rows) /\ Scanned(call.rows) BY <2>1
    <3>2. pc' = "done" /\ UNCHANGED <<call, values, children, valid, offsets, elements>>
      BY <1>4, <2>3 DEF EndScan
    <3> QED BY <2>1, <2>3, <3>1, <3>2, Finishes
  <2> QED BY <2>2, <2>3
<1>5. CASE BuildElement
  BY <1>5 DEF BuildElement, MoreElements, Building, Outcome
<1>6. CASE Overflow BY <1>6, PanicIsPromised
<1>7. CASE EndRow
  BY <1>7 DEF EndRow, Building, Outcome
<1>8. CASE EndBuild
  <2>1. row \in 1 .. call.rows + 1 /\ row > call.rows /\ call.rows \in Nat
    BY <1>8, CallIs DEF IInv, EndBuild
  <2>2. row - 1 = call.rows BY <2>1
  <2>3. /\ call \in Calls /\ Readable(call.rows) /\ Scanned(call.rows) /\ LaidOut(call.rows)
        /\ pc = "build"
    BY <1>8, <2>2 DEF IInv, EndBuild
  <2>4. pc' = "done" /\ UNCHANGED <<call, values, children, valid, offsets, elements>>
    BY <1>8 DEF EndBuild
  <2> QED BY <2>3, <2>4, Finishes
<1>9. CASE UNCHANGED scanVars
  BY <1>9 DEF scanVars, Outcome, ReadBack, ListAt, StructAt
<1> QED BY <1>1, <1>2, <1>3, <1>4, <1>5, <1>6, <1>7, <1>8, <1>9 DEF ScanNext

\* The loops implement the promise that the answer in a row is a function of
\* the cells of that row: every batch, with NULLs, malformed cells and lists
\* of any length in any order, is read back as the answers of its rows, a
\* call fails only for a column of the wrong type and panics only when its
\* elements are more than its offsets can count.
THEOREM ScanKeepsRowByRow == ScanSpec => KeepsRowByRow
<1>1. ScanInit => Promise!Init BY RefInit
<1>2. IInv /\ [ScanNext]_scanVars => [Promise!Next]_<<call, Outcome>> BY RefStep
<1> QED BY <1>1, <1>2, Invariance, PTL DEF ScanSpec, KeepsRowByRow, Promise!Spec

-----------------------------------------------------------------------------
(* The tables, for every table, every decoder and every width of the       *)
(* integer columns.                                                        *)

\* The columns when the first k rows are in them.
Filled(k) == [c \in Columns(scan.table) |-> [i \in 1 .. k |-> Cell(c, Rows[i][c])]]

Full == Filled(Len(Rows))

\* The rows are in the builders, in the SingleBatch, or with the engine.
TableInv ==
  /\ scan \in Scans
  /\ tpc \in {"idle", "fill", "ready", "ended", "left"}
  /\ tpc = "idle" => delivered = <<>>
  /\ tpc = "fill" =>
       /\ next \in 1 .. Len(Rows) + 1 /\ columns = Filled(next - 1)
       /\ delivered = <<>> /\ (done <=> IsPem)
  /\ tpc \in {"ready", "ended", "left"} =>
       IF IsPem
       THEN delivered = IF done THEN <<Full>> ELSE <<>>
       ELSE \/ batch = <<Full>> /\ delivered = <<>>
            \/ batch = <<>> /\ delivered = <<Full>>
  /\ tpc = "ended" => delivered = <<Full>>

-----------------------------------------------------------------------------
LEMMA NarrowedKeeps ==
  ASSUME NEW n, Fits(n)
  PROVE  Narrowed(n) = n
<1>1. IntHalf \in Nat /\ IntHalf > 0 BY TableAssumption
<1>2. n + IntHalf \in 0 .. 2 * IntHalf - 1 /\ n \in Int BY <1>1 DEF Fits
<1>3. \A m \in Nat : \A k \in 0 .. m - 1 : k % m = k OBVIOUS
<1>4. 2 * IntHalf \in Nat BY <1>1
<1>5. (n + IntHalf) % (2 * IntHalf) = n + IntHalf BY <1>2, <1>3, <1>4
<1> QED BY <1>1, <1>2, <1>5 DEF Narrowed

\* What is asked of the content of a scan is asked of its rows.
LEMMA RowFacts ==
  ASSUME scan \in Scans
  PROVE  /\ Len(Rows) \in Nat
         /\ \A i \in 1 .. Len(Rows) : \A c \in IntColumns(scan.table) :
              Rows[i][c] # <<>> => Rows[i][c] = <<Rows[i][c][1]>>
<1>1. ConstContent(scan) \in {NoContent, scan.argument.content} BY DEF ConstContent
<1> QED BY <1>1, TableAssumption DEF Rows

LEMMA CellKept ==
  ASSUME scan \in Scans, NEW i \in 1 .. Len(Rows), NEW c
  PROVE  Kept(c, Cell(c, Rows[i][c]), Rows[i][c])
<1>1. CASE c \in IntColumns(scan.table) /\ Rows[i][c] # <<>>
  <2>1. Rows[i][c] = <<Rows[i][c][1]>> BY <1>1, RowFacts
  <2>2. Cell(c, Rows[i][c]) = <<Narrowed(Rows[i][c][1])>> BY <1>1 DEF Cell
  <2>3. Fits(Rows[i][c][1]) => Cell(c, Rows[i][c]) = Rows[i][c] BY <2>1, <2>2, NarrowedKeeps
  <2> QED BY <1>1, <2>3 DEF Kept
<1>2. CASE ~ (c \in IntColumns(scan.table) /\ Rows[i][c] # <<>>)
  BY <1>2 DEF Kept, Cell
<1> QED BY <1>1, <1>2

LEMMA InvGives ==
  ASSUME TableInv
  PROVE  RowsDeliveredOnce
<1>1. delivered = <<>> \/ delivered = <<Full>> BY DEF TableInv
<1>2. tpc = "ended" => delivered = <<Full>> BY DEF TableInv
<1>3. Len(Rows) \in Nat BY RowFacts DEF TableInv
<1>4. ASSUME NEW c \in Columns(scan.table)
      PROVE  /\ Len(Full[c]) = Len(Rows)
             /\ \A i \in 1 .. Len(Rows) : Kept(c, Full[c][i], Rows[i][c])
  <2>1. Full[c] = [i \in 1 .. Len(Rows) |-> Cell(c, Rows[i][c])] BY DEF Full, Filled
  <2>2. Len(Full[c]) = Len(Rows) BY <1>3, <2>1
  <2>3. \A i \in 1 .. Len(Rows) : Kept(c, Full[c][i], Rows[i][c])
    BY <2>1, CellKept DEF TableInv
  <2> QED BY <2>2, <2>3
<1>5. \A k \in DOMAIN delivered : delivered[k] = Full BY <1>1
<1>6. Len(delivered) <= 1 /\ (tpc = "ended" => Len(delivered) = 1) BY <1>1, <1>2
<1> QED BY <1>4, <1>5, <1>6 DEF RowsDeliveredOnce

-----------------------------------------------------------------------------
LEMMA NothingFilled == NoRows(scan.table) = Filled(0)
BY DEF NoRows, Filled

LEMMA TableInvInit ==
  ASSUME TableInit
  PROVE  TableInv
<1>1. scan \in Scans BY DEF TableInit
<1>2. Len(Rows) \in Nat BY <1>1, RowFacts
<1>3. columns = Filled(next - 1) BY NothingFilled DEF TableInit
<1>4. next \in 1 .. Len(Rows) + 1 BY <1>2 DEF TableInit
<1>5. delivered = <<>> /\ done = FALSE BY DEF TableInit
<1>6. CASE IsPem BY <1>1, <1>5, <1>6 DEF TableInv, TableInit
<1>7. CASE ~ IsPem
  <2>1. tpc = "fill" /\ ~ done BY <1>7 DEF TableInit
  <2> QED BY <1>1, <1>3, <1>4, <1>5, <1>7, <2>1 DEF TableInv
<1> QED BY <1>6, <1>7

\* The next row goes to the end of every column.
LEMMA FilledGrows ==
  ASSUME NEW k \in Nat
  PROVE  [c \in Columns(scan.table) |-> Append(Filled(k)[c], Cell(c, Rows[k + 1][c]))]
           = Filled(k + 1)
<1>1. ASSUME NEW c \in Columns(scan.table)
      PROVE  Append(Filled(k)[c], Cell(c, Rows[k + 1][c])) = Filled(k + 1)[c]
  <2> DEFINE V(i) == Cell(c, Rows[i][c])
             S == { V(i) : i \in 1 .. k }
             s == [i \in 1 .. k |-> V(i)]
  <2>1. Filled(k)[c] = s /\ Filled(k + 1)[c] = [i \in 1 .. k + 1 |-> V(i)] BY DEF Filled
  <2> HIDE DEF V
  <2>2. s \in Seq(S) /\ Len(s) = k OBVIOUS
  <2>3. Append(s, V(k + 1)) = [i \in 1 .. k + 1 |-> V(i)] BY <2>2
  <2> QED BY <2>1, <2>3 DEF V
<1> QED BY <1>1 DEF Filled

LEMMA FillRowKeeps ==
  ASSUME TableInv, FillRow
  PROVE  TableInv'
<1>1. /\ scan \in Scans /\ tpc = "fill" /\ next \in 1 .. Len(Rows) + 1
      /\ columns = Filled(next - 1) /\ next <= Len(Rows)
  BY DEF TableInv, FillRow
<1>2. Len(Rows) \in Nat BY <1>1, RowFacts
<1>3. next - 1 \in Nat /\ (next - 1) + 1 = next /\ (next + 1) - 1 = next
      /\ next + 1 \in 1 .. Len(Rows) + 1
  BY <1>1, <1>2
<1>4. columns' = Filled(next) BY <1>1, <1>3, FilledGrows DEF FillRow
<1>5. scan' = scan /\ next' = next + 1 BY DEF FillRow
<1>6. (Len(Rows))' = Len(Rows) /\ (\A k : Filled(k)' = Filled(k)) /\ IsPem' = IsPem
  BY <1>5 DEF Filled, Rows, Cell, IsPem
<1> QED BY <1>3, <1>4, <1>5, <1>6 DEF TableInv, FillRow

LEMMA TableInvStep ==
  ASSUME TableInv, [TableNext]_tableVars
  PROVE  TableInv'
<1>1. CASE FillRow BY <1>1, FillRowKeeps
<1>2. scan' = scan => /\ Full' = Full /\ IsPem' = IsPem
                      /\ (Len(Rows))' = Len(Rows)
                      /\ \A k : Filled(k)' = Filled(k)
  BY DEF Full, Filled, Rows, Cell, IsPem
<1>3. scan \in Scans /\ Len(Rows) \in Nat BY RowFacts DEF TableInv
<1>4. CASE EndFill
  <2>1. next - 1 = Len(Rows)
    <3>1. next \in 1 .. Len(Rows) + 1 /\ next > Len(Rows) BY <1>4 DEF EndFill, TableInv
    <3> QED BY <1>3, <3>1
  <2>2. columns = Full BY <1>4, <2>1 DEF EndFill, TableInv, Full
  <2>3. scan' = scan /\ tpc' = "ready" /\ tpc = "fill" /\ done' = done BY <1>4 DEF EndFill
  <2>4. delivered = <<>> /\ (done <=> IsPem) BY <2>3 DEF TableInv
  <2>5. CASE IsPem
    <3>1. delivered' = <<Full>> BY <1>4, <2>2, <2>4, <2>5 DEF EndFill
    <3> QED BY <1>2, <1>3, <2>3, <2>4, <2>5, <3>1 DEF TableInv
  <2>6. CASE ~ IsPem
    <3>1. batch' = <<Full>> /\ delivered' = <<>> BY <1>4, <2>2, <2>4, <2>6 DEF EndFill
    <3> QED BY <1>2, <1>3, <2>3, <2>6, <3>1 DEF TableInv
  <2> QED BY <2>5, <2>6
<1>5. CASE Take
  <2>1. /\ scan' = scan /\ tpc' = tpc /\ tpc \in {"ready", "ended"} /\ ~ IsPem /\ batch # <<>>
        /\ delivered' = Append(delivered, batch[1]) /\ batch' = <<>>
    BY <1>5 DEF Take, Asked
  <2>2. batch = <<Full>> /\ delivered = <<>> BY <2>1 DEF TableInv
  <2>3. delivered' = <<Full>> BY <2>1, <2>2
  <2> QED BY <1>2, <1>3, <2>1, <2>3 DEF TableInv
<1>6. CASE AskPem
  <2>1. /\ scan' = scan /\ tpc' = "fill" /\ tpc \in {"ready", "ended"} /\ IsPem /\ ~ done
        /\ done' = TRUE /\ columns' = NoRows(scan.table) /\ next' = 1 /\ delivered' = delivered
    BY <1>6 DEF AskPem, Asked
  <2>2. delivered = <<>> BY <2>1 DEF TableInv
  <2>3. 1 \in 1 .. Len(Rows) + 1 /\ 1 - 1 = 0 BY <1>3
  <2> QED BY <1>2, <1>3, <2>1, <2>2, <2>3, NothingFilled DEF TableInv
<1>7. CASE AskAtEnd
  <2>1. /\ scan' = scan /\ tpc' = "ended" /\ tpc \in {"ready", "ended"}
        /\ batch' = batch /\ done' = done /\ delivered' = delivered
        /\ IF IsPem THEN done ELSE batch = <<>>
    BY <1>7 DEF AskAtEnd, Asked
  <2>2. delivered = <<Full>> BY <2>1 DEF TableInv
  <2> QED BY <1>2, <1>3, <2>1, <2>2 DEF TableInv
<1>8. CASE Leave
  BY <1>2, <1>3, <1>8 DEF Leave, TableInv
<1>9. CASE UNCHANGED tableVars
  BY <1>2, <1>9 DEF tableVars, TableInv
<1> QED BY <1>1, <1>4, <1>5, <1>6, <1>7, <1>8, <1>9 DEF TableNext, TableStep

\* The engine is given the decoder's rows once, in order and in every column,
\* however often it asks, and has had them when it is told of the end.
THEOREM TableDelivers == TableSpec => []RowsDeliveredOnce
<1>1. TableInit => TableInv BY TableInvInit
<1>2. TableInv /\ [TableNext]_tableVars => TableInv' BY TableInvStep
<1>3. TableInv => RowsDeliveredOnce BY InvGives
<1> QED BY <1>1, <1>2, <1>3, PTL DEF TableSpec

-----------------------------------------------------------------------------
(* The worker                                                              *)

WorkerInv == IInv /\ TableInv

LEMMA WorkerInit ==
  ASSUME Init
  PROVE  WorkerInv /\ Promise!Init
<1>1. ASSUME ScanIdle PROVE IInv /\ Promise!Init
  <2>1. /\ call \in Calls /\ pc = "idle" /\ row = 1
    BY <1>1, WorkerAssumption DEF ScanIdle, SomeCall
  <2>2. IsCall(call) /\ call.rows \in Nat BY <2>1, ScanAssumption, CallFacts
  <2>3. IInv BY <2>1, <2>2 DEF IInv
  <2>4. Outcome = Promise!Pending BY <2>1 DEF Outcome, Promise!Pending
  <2> QED BY <2>2, <2>3, <2>4, SameCall DEF Promise!Init
<1>2. ASSUME TableIdle PROVE TableInv
  BY <1>2, WorkerAssumption DEF TableIdle, SomeScan, TableInv
<1> QED BY <1>1, <1>2, InvInit, RefInit, TableInvInit DEF Init, WorkerInv

\* A step of the worker is one of a call, of a scan, or of neither.
LEMMA WorkerStep ==
  ASSUME [Next]_vars
  PROVE  [ScanNext]_scanVars /\ [TableNext]_tableVars
BY DEF Next, Serve, TableNext, vars

LEMMA WorkerInvStep ==
  ASSUME WorkerInv, [Next]_vars
  PROVE  WorkerInv' /\ [Promise!Next]_<<call, Outcome>>
BY WorkerStep, InvStep, RefStep, TableInvStep DEF WorkerInv

\* The column a call of the worker returns holds in every row the answer for
\* the cells of that row alone: arrow_io.rs and the process functions of
\* scalar/ shift nothing, fail and panic only as RowByRow allows.
THEOREM CallsKeepRowByRow == Spec => KeepsRowByRow
<1>1. Init => WorkerInv /\ Promise!Init BY WorkerInit
<1>2. WorkerInv /\ [Next]_vars => WorkerInv' /\ [Promise!Next]_<<call, Outcome>>
  BY WorkerInvStep
<1> QED BY <1>1, <1>2, PTL DEF Spec, KeepsRowByRow, Promise!Spec

\* A scan gives the engine the decoder's rows once, in order and in every
\* column, however often next_batch is asked, and before it says there are
\* no more.
THEOREM ScansDeliverOnce == Spec => []RowsDeliveredOnce
<1>1. Init => WorkerInv BY WorkerInit
<1>2. WorkerInv /\ [Next]_vars => WorkerInv' BY WorkerInvStep
<1>3. WorkerInv => RowsDeliveredOnce BY InvGives DEF WorkerInv
<1> QED BY <1>1, <1>2, <1>3, PTL DEF Spec

=============================================================================
