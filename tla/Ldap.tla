-------------------------------- MODULE Ldap ---------------------------------
(***************************************************************************)
(* asn1-core/src/security/ldap.rs: the messages of a segment as rows and   *)
(* filters as text, and the messages and filters of RFC 4511 built from    *)
(* their parts.  A text is a sequence of characters, one piece each; the   *)
(* parts name an octet that is no UTF-8 like a character.                  *)
(***************************************************************************)
EXTENDS SecurityTrees

OpNames ==
  0 :> "BindRequest" @@ 1 :> "BindResponse" @@ 2 :> "UnbindRequest" @@ 3 :> "SearchRequest" @@
  4 :> "SearchResultEntry" @@ 5 :> "SearchResultDone" @@ 6 :> "ModifyRequest" @@
  7 :> "ModifyResponse" @@ 8 :> "AddRequest" @@ 9 :> "AddResponse" @@ 10 :> "DelRequest" @@
  11 :> "DelResponse" @@ 12 :> "ModifyDNRequest" @@ 13 :> "ModifyDNResponse" @@
  14 :> "CompareRequest" @@ 15 :> "CompareResponse" @@ 16 :> "AbandonRequest" @@
  23 :> "ExtendedRequest" @@ 24 :> "ExtendedResponse" @@ 25 :> "IntermediateResponse"
OpName(tag) == IF tag \in DOMAIN OpNames THEN OpNames[tag] ELSE "unknown"

ScopeNames == 0 :> "baseObject" @@ 1 :> "singleLevel" @@ 2 :> "wholeSubtree"

ResultNames ==
  0 :> "success" @@ 1 :> "operationsError" @@ 2 :> "protocolError" @@
  3 :> "timeLimitExceeded" @@ 4 :> "sizeLimitExceeded" @@ 7 :> "authMethodNotSupported" @@
  10 :> "referral" @@ 16 :> "noSuchAttribute" @@ 32 :> "noSuchObject" @@
  34 :> "invalidDNSyntax" @@ 48 :> "inappropriateAuthentication" @@
  49 :> "invalidCredentials" @@ 50 :> "insufficientAccessRights" @@ 53 :> "unwillingToPerform"

Chars(s) == Map(s, LAMBDA c : [text |-> c])

\* The octets of a text, some of which may be no UTF-8.
TextOctets(s) ==
  Map(s, LAMBDA c : IF c \in DOMAIN RawOctets THEN [octet |-> c] ELSE [text |-> c])

\* Mutant of Escapes: a backslash is left as it is.
EscapesLax ==
  "*" :> Chars(<<"\\", "2", "a">>) @@ "(" :> Chars(<<"\\", "2", "8">>)
  @@ ")" :> Chars(<<"\\", "2", "9">>)

Escapes ==
  "*" :> Chars(<<"\\", "2", "a">>) @@ "(" :> Chars(<<"\\", "2", "8">>)
  @@ ")" :> Chars(<<"\\", "2", "9">>) @@ "\\" :> Chars(<<"\\", "5", "c">>)
  @@ "NUL" :> Chars(<<"\\", "0", "0">>)

Esc(octets) ==
  FlattenSeq(Map(octets, LAMBDA o :
    IF "text" \in DOMAIN o /\ o.text \in DOMAIN Escapes THEN Escapes[o.text] ELSE <<o>>))

\* The octets of a primitive node that are UTF-8, as those of a text are.
Utf8(t) ==
  LET octets == FlattenSeq(OctetsOf(t))
  IN IF \A i \in DOMAIN octets : "text" \in DOMAIN octets[i] THEN octets ELSE <<>>

Unreadable == Chars(<<"(", "?", ")">>)
Bracketed(octets) == Chars(<<"(">>) \o octets \o Chars(<<")">>)
TextOr(t) == FlattenSeq(AsStr(t))

\* initial [0], any [1] and final [2] with the stars between them.
RenderSubstrings(t) ==
  LET c == Kids(t)
      star == Chars(<<"*">>)
      starred(pat) == IF IsSuffix(star, pat) THEN pat ELSE pat \o star
      step(acc, sub) ==
        LET s == Esc(Utf8(sub))
        IN [first |-> FALSE,
            pat |-> CASE sub.tag = 0 -> acc.pat \o s \o star
                      [] sub.tag = 1 -> acc.pat \o (IF acc.first THEN star ELSE <<>>) \o s \o star
                      [] sub.tag = 2 -> starred(acc.pat) \o s
                      [] OTHER -> acc.pat]
      pattern == FoldLeft(step, [first |-> TRUE, pat |-> <<>>], Kids(c[2])).pat
  IN IF Len(c) < 2 THEN Unreadable
     ELSE Bracketed(Esc(TextOr(c[1])) \o Chars(<<"=">>) \o (IF pattern = <<>> THEN star ELSE pattern))

\* An attribute, an operator and a value.
RenderAva(t, op) ==
  LET c == Kids(t)
  IN IF Len(c) < 2 THEN Unreadable
     ELSE Bracketed(Esc(TextOr(c[1])) \o Chars(op) \o Esc(TextOr(c[2])))

RECURSIVE RenderFilter(_)
RenderFilter(t) ==
  LET combined(op, members) == Bracketed(Chars(<<op>>) \o FlattenSeq(Map(members, RenderFilter)))
  IN IF t.class # "context" THEN Unreadable
     ELSE CASE t.tag = 0 -> combined("&", Kids(t))
            [] t.tag = 1 -> combined("|", Kids(t))
            [] t.tag = 2 -> combined("!", FirstKid(t))
            [] t.tag = 3 -> RenderAva(t, <<"=">>)
            [] t.tag = 4 -> RenderSubstrings(t)
            [] t.tag = 5 -> RenderAva(t, <<">", "=">>)
            [] t.tag = 6 -> RenderAva(t, <<"<", "=">>)
            [] t.tag = 7 -> Bracketed(Esc(Utf8(t)) \o Chars(<<"=", "*">>))
            [] t.tag = 8 -> RenderAva(t, <<"~", "=">>)
            [] OTHER -> Unreadable

NoRow ==
  [message_id |-> None, op |-> "", dn |-> None, scope |-> None, filter |-> None,
   attributes |-> <<>>, result_code |-> None, matched_dn |-> None, diagnostic |-> None]

\* Mutant of ResultTags: the one response whose tag follows a gap is forgotten.
ResultTagsShort == {1, 5, 7, 9, 11, 13, 15}

ResultTags == {1, 5, 7, 9, 11, 13, 15, 24}

ShredOp(op, row) ==
  LET c == Kids(op)
      text(i) == AndThen(Get(c, i), AsStr)
      members(i) == FlattenSeq(Map(Get(c, i), Kids))
      number(i, names) == Map(AndThen(Get(c, i), AsI64), LAMBDA n : CodeName(names, n))
  IN CASE op.tag = 3 ->
            [row EXCEPT !.dn = text(1), !.scope = number(2, ScopeNames),
                        !.filter = Map(Get(c, 7), RenderFilter),
                        !.attributes = FilterMap(members(8), AsStr)]
       [] op.tag = 4 ->
            [row EXCEPT !.dn = text(1),
                        !.attributes = FilterMap(members(2), LAMBDA a : AndThen(FirstKid(a), AsStr))]
       [] op.tag = 0 -> [row EXCEPT !.dn = text(2)]
       [] op.tag \in {8, 10, 12} -> [row EXCEPT !.dn = text(1)]
       [] op.tag \in ResultTags ->
            [row EXCEPT !.result_code = number(1, ResultNames), !.matched_dn = text(2),
                        !.diagnostic = text(3)]
       [] OTHER -> row

\* A row of every SEQUENCE with an id and an operation.
LdapRow(msg) ==
  LET c == Kids(msg)
      row == [NoRow EXCEPT !.message_id = AsI64(c[1])]
      op == c[2]
  IN IF ~IsSequence(msg) \/ Len(c) < 2 THEN None
     ELSE IF op.class = "application" THEN Some(ShredOp(op, [row EXCEPT !.op = OpName(op.tag)]))
     ELSE Some([row EXCEPT !.op = "unknown"])

LdapMessages(blob) == FilterMap(FlattenSeq(ParseAll(blob)), LdapRow)

\* The first row, or the first tree when there is none.
LdapDecode(blob) ==
  LET rows == LdapMessages(blob)
      trees == FlattenSeq(ParseAll(blob))
  IN CASE rows # <<>> -> rows[1]
       [] rows = <<>> /\ trees # <<>> -> [raw |-> trees[1]]
       [] OTHER -> [error |-> "not an LDAPMessage"]

-----------------------------------------------------------------------------
\* RFC 4511.

String(s) == OctetString(Chars(s))

\* extensibleMatch [9] has a rule, an attribute and a value, each in its tag.
FilterTags == "and" :> 0 @@ "or" :> 1 @@ "not" :> 2 @@ "=" :> 3 @@ ">=" :> 5 @@ "<=" :> 6 @@ "~=" :> 8

RECURSIVE Filter(_)
Filter(f) ==
  CASE f.kind \in {"and", "or", "not"} -> Tagged(FilterTags[f.kind], Map(f.of, Filter))
    [] f.kind \in {"=", ">=", "<=", "~="} ->
         Tagged(FilterTags[f.kind], <<String(f.attr), OctetString(TextOctets(f.value))>>)
    [] f.kind = "present" -> Primitive("context", 7, Chars(f.attr))
    [] f.kind = "substrings" ->
         LET part(tag, s) == Primitive("context", tag, TextOctets(s))
         IN Tagged(4, <<String(f.attr),
                        Sequence(Map(f.initial, LAMBDA s : part(0, s))
                                 \o Map(f.any, LAMBDA s : part(1, s))
                                 \o Map(f.final, LAMBDA s : part(2, s)))>>)
    [] f.kind = "extensible" ->
         Tagged(9, Map(f.rule, LAMBDA r : Primitive("context", 1, Chars(r)))
                   \o <<Primitive("context", 2, Chars(f.attr)),
                        Primitive("context", 3, TextOctets(f.value))>>)

\* What of a filter its text can show.  An extensibleMatch shows as (?) whatever
\* it holds; a value that is not UTF-8 as the Latin-1 characters of its octets;
\* a substring that is not UTF-8 not at all, so that one at an end is as good
\* as missing, and nothing but missing substrings is a test for presence.
Shown(s) ==
  IF \E i \in DOMAIN s : s[i] \in DOMAIN RawOctets
  THEN FlattenSeq(Map(s, LAMBDA c :
         IF c \in DOMAIN RawOctets THEN <<RawOctets[c]>>
         ELSE IF c \in DOMAIN TwoOctets THEN TwoOctets[c] ELSE <<c>>))
  ELSE s

IsUtf8(s) == \A i \in DOMAIN s : s[i] \notin DOMAIN RawOctets

RECURSIVE Legible(_)
Legible(f) ==
  CASE f.kind \in {"and", "or", "not"} -> [f EXCEPT !.of = Map(f.of, Legible)]
    [] f.kind \in {"=", ">=", "<=", "~="} -> [f EXCEPT !.value = Shown(f.value)]
    [] f.kind = "present" -> f
    [] f.kind = "substrings" ->
         LET initial == SelectSeq(f.initial, IsUtf8)
             any == Map(f.any, LAMBDA s : IF IsUtf8(s) THEN s ELSE <<>>)
             final == SelectSeq(f.final, IsUtf8)
         IN IF initial = None /\ any = <<>> /\ final = None
            THEN [kind |-> "present", attr |-> f.attr]
            ELSE [f EXCEPT !.initial = initial, !.any = any, !.final = final]
    [] f.kind = "extensible" -> [kind |-> "extensible"]

\* An operation by its tag; those that are a name, a number or nothing are
\* primitive.
Operation(p) ==
  CASE p.tag = 3 ->
         Application(3, <<String(p.dn), Enumerated(p.scope), Enumerated(0), Integer(0), Integer(0),
                          Primitive("universal", 1, <<[bool |-> FALSE]>>), Filter(p.filter),
                          Sequence(Map(p.attributes, String))>>)
    [] p.tag = 4 ->
         Application(4, <<String(p.dn), Sequence(Map(p.attributes, LAMBDA a :
                            Sequence(<<String(a), SetOf(<<String(<<"v">>)>>)>>)))>>)
    [] p.tag = 0 ->
         Application(0, <<Integer(3), String(p.dn), Primitive("context", 0, Chars(<<"x">>))>>)
    [] p.tag \in {6, 8, 12} -> Application(p.tag, <<String(p.dn), Sequence(<<>>)>>)
    [] p.tag = 14 ->
         Application(14, <<String(p.dn), Sequence(<<String(p.attributes[1]), String(<<"v">>)>>)>>)
    [] p.tag = 10 -> Primitive("application", 10, Chars(p.dn))
    [] p.tag = 16 -> Primitive("application", 16, <<[int |-> p.id]>>)
    [] p.tag = 2 -> Primitive("application", 2, <<>>)
    [] p.tag = 19 -> Application(19, <<String(<<"u">>)>>)
    [] p.tag \in {23, 25} ->
         Application(p.tag, <<Primitive("context", 0, Chars(<<"o">>)),
                              Primitive("context", 1, Chars(<<"v">>))>>)
    [] p.tag \in {1, 5, 7, 9, 11, 13, 15, 24} ->
         Application(p.tag, <<Enumerated(p.code), String(p.matched), String(p.diagnostic)>>
                            \o (IF p.code = 10 THEN <<Tagged(3, <<String(<<"u">>)>>)>> ELSE <<>>))

\* A message, or something else between the messages of a segment.
Item(p) ==
  IF p.tag = -1 THEN OctetString(<<[text |-> "?"]>>)
  ELSE Sequence(<<Integer(p.id), Operation(p)>>
                \o IF p.controls THEN <<Tagged(0, <<Sequence(<<String(<<"c">>)>>)>>)>> ELSE <<>>)

\* The octets of a segment, the last of them lost when it was cut.
Segment(p) ==
  LET octets == FlattenSeq(Map(p.items, LAMBDA i : Der(Item(i))))
  IN IF p.cut THEN SubSeq(octets, 1, Len(octets) - 1) ELSE octets

\* The row of a message: the dn is the entry that the operation names.
RowAnswer(p) ==
  LET row == [NoRow EXCEPT !.message_id = Some(p.id), !.op = OpName(p.tag)]
  IN CASE p.tag = 3 ->
            [row EXCEPT !.dn = Some(Chars(p.dn)), !.scope = Some(ScopeNames[p.scope]),
                        !.filter = Some(RenderFilter(Filter(p.filter))),
                        !.attributes = Map(p.attributes, Chars)]
       [] p.tag = 4 ->
            [row EXCEPT !.dn = Some(Chars(p.dn)), !.attributes = Map(p.attributes, Chars)]
       [] p.tag \in {0, 6, 8, 10, 12, 14} -> [row EXCEPT !.dn = Some(Chars(p.dn))]
       [] p.tag \in {2, 16, 19, 23, 25} -> row
       [] OTHER -> [row EXCEPT !.result_code = Some(CodeName(ResultNames, p.code)),
                               !.matched_dn = Some(Chars(p.matched)),
                               !.diagnostic = Some(Chars(p.diagnostic))]

\* All rows, in order, or none when the segment was cut.
RowsAnswer(p) ==
  IF p.cut THEN <<>>
  ELSE Map(SelectSeq(p.items, LAMBDA i : i.tag # -1), RowAnswer)

\* A row without a dn that ldap.rs does not find: the one in a DelRequest, where
\* it looks for a child, and those of a ModifyRequest and a CompareRequest,
\* which it does not look for.
ButLostName(row) ==
  IF row.op \in {"DelRequest", "ModifyRequest", "CompareRequest"}
  THEN [row EXCEPT !.dn = None] ELSE row

=============================================================================
