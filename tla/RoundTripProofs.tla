--------------------------- MODULE RoundTripProofs ---------------------------
(***************************************************************************)
(* What is proved of writing a tree as DER and reading it back, for all    *)
(* blobs and limits: the reader takes what to_der writes, finds the same   *)
(* tree in it, and to_der has nothing more to change.                      *)
(***************************************************************************)
EXTENDS RoundTrip, TlvParserProofs, Induction, FiniteSetTheorems

-----------------------------------------------------------------------------
(* Octets that stand in a blob *)

\* The octets w are those of d from offset o on.
Stands(d, o, w) ==
  o + Len(w) <= Len(d) /\ \A m \in 1 .. Len(w) : d[o + m] = w[m]

LEMMA StandsIs ==
  ASSUME NEW S, NEW d \in Seq(S), NEW w \in Seq(S), NEW o \in Nat, Stands(d, o, w)
  PROVE  /\ SubSeq(d, o + 1, o + Len(w)) = w
         /\ o = 0 /\ Len(w) = Len(d) => d = w
<1>1. o + Len(w) <= Len(d) /\ \A m \in 1 .. Len(w) : d[o + m] = w[m] BY DEF Stands
<1>2. Len(w) \in Nat /\ Len(d) \in Nat OBVIOUS
<1> DEFINE s == SubSeq(d, o + 1, o + Len(w))
<1>3. s \in Seq(S) /\ Len(s) = Len(w) /\ \A m \in 1 .. Len(w) : s[m] = d[o + m]
  BY <1>1, <1>2
<1> HIDE DEF s
<1>4. \A m \in 1 .. Len(w) : s[m] = w[m] BY <1>1, <1>3
<1>5. s = w BY <1>2, <1>3, <1>4
<1>6. ASSUME o = 0, Len(w) = Len(d) PROVE d = w BY <1>1, <1>2, <1>6
<1> QED BY <1>5, <1>6 DEF s

LEMMA StandsJoined ==
  ASSUME NEW S, NEW d \in Seq(S), NEW u \in Seq(S), NEW v \in Seq(S), NEW o \in Nat
  PROVE  Stands(d, o, u \o v) <=> Stands(d, o, u) /\ Stands(d, o + Len(u), v)
<1> DEFINE w == u \o v
<1>1. /\ w \in Seq(S) /\ Len(w) = Len(u) + Len(v) /\ Len(u) \in Nat /\ Len(v) \in Nat
      /\ Len(d) \in Nat
      /\ \A m \in 1 .. Len(u) : w[m] = u[m]
      /\ \A m \in 1 .. Len(v) : w[Len(u) + m] = v[m]
  OBVIOUS
<1> HIDE DEF w
<1>2. ASSUME Stands(d, o, w) PROVE Stands(d, o, u) /\ Stands(d, o + Len(u), v)
  <2>1. o + Len(w) <= Len(d) /\ \A m \in 1 .. Len(w) : d[o + m] = w[m] BY <1>2 DEF Stands
  <2>2. ASSUME NEW m \in 1 .. Len(v) PROVE d[(o + Len(u)) + m] = v[m]
    <3>1. Len(u) + m \in 1 .. Len(w) BY <1>1
    <3>2. d[o + (Len(u) + m)] = w[Len(u) + m] BY <2>1, <3>1
    <3>3. o + (Len(u) + m) = (o + Len(u)) + m BY <1>1
    <3> QED BY <1>1, <3>2, <3>3
  <2>3. ASSUME NEW m \in 1 .. Len(u) PROVE d[o + m] = u[m]
    <3>1. m \in 1 .. Len(w) BY <1>1
    <3> QED BY <1>1, <2>1, <3>1
  <2>4. o + Len(u) <= Len(d) /\ (o + Len(u)) + Len(v) <= Len(d) BY <1>1, <2>1
  <2> QED BY <2>2, <2>3, <2>4 DEF Stands
<1>3. ASSUME Stands(d, o, u), Stands(d, o + Len(u), v) PROVE Stands(d, o, w)
  <2>1. (o + Len(u)) + Len(v) <= Len(d) BY <1>3 DEF Stands
  <2>2. ASSUME NEW m \in 1 .. Len(w) PROVE d[o + m] = w[m]
    <3>1. CASE m <= Len(u)
      <4>1. m \in 1 .. Len(u) BY <3>1
      <4>2. d[o + m] = u[m] BY <1>3, <4>1 DEF Stands
      <4> QED BY <1>1, <4>1, <4>2
    <3>2. CASE m > Len(u)
      <4> DEFINE k == m - Len(u)
      <4>1. k \in 1 .. Len(v) /\ Len(u) + k = m /\ (o + Len(u)) + k = o + m
        BY <1>1, <3>2
      <4> HIDE DEF k
      <4>2. d[(o + Len(u)) + k] = v[k] BY <1>3, <4>1 DEF Stands
      <4> QED BY <1>1, <4>1, <4>2
    <3> QED BY <1>1, <3>1, <3>2
  <2>3. o + Len(w) <= Len(d) BY <1>1, <2>1
  <2> QED BY <2>2, <2>3 DEF Stands
<1> QED BY <1>2, <1>3 DEF w

LEMMA StandsInside ==
  ASSUME NEW S, NEW d \in Seq(S), NEW w \in Seq(S), NEW u \in Seq(S), NEW o \in Nat,
         NEW a \in Nat, Stands(d, o, w), Stands(w, a, u)
  PROVE  Stands(d, o + a, u)
<1>1. o + Len(w) <= Len(d) /\ \A m \in 1 .. Len(w) : d[o + m] = w[m] BY DEF Stands
<1>2. a + Len(u) <= Len(w) /\ \A m \in 1 .. Len(u) : w[a + m] = u[m] BY DEF Stands
<1>3. Len(w) \in Nat /\ Len(d) \in Nat /\ Len(u) \in Nat OBVIOUS
<1>4. ASSUME NEW m \in 1 .. Len(u) PROVE d[(o + a) + m] = u[m]
  <2>1. a + m \in 1 .. Len(w) BY <1>2, <1>3
  <2>2. d[o + (a + m)] = w[a + m] BY <1>1, <2>1
  <2>3. o + (a + m) = (o + a) + m OBVIOUS
  <2> QED BY <1>2, <2>2, <2>3
<1>5. (o + a) + Len(u) <= Len(d) BY <1>1, <1>2, <1>3
<1> QED BY <1>4, <1>5 DEF Stands

\* Where each of seqs starts when they are put one after another.
IsCut(at, seqs) ==
  /\ at \in [0 .. Len(seqs) -> Nat]
  /\ at[0] = 0
  /\ \A k \in 1 .. Len(seqs) : at[k] = at[k - 1] + Len(seqs[k])

\* w is made of seqs, cut at those places.
CutAt(w, at, seqs) ==
  /\ IsCut(at, seqs)
  /\ at[Len(seqs)] = Len(w)
  /\ \A k \in 1 .. Len(seqs) : Stands(w, at[k - 1], seqs[k])

LEMMA FlattenIsCut ==
  ASSUME NEW S, NEW seqs \in Seq(Seq(S))
  PROVE  FlattenSeq(seqs) \in Seq(S) /\ \E at : CutAt(FlattenSeq(seqs), at, seqs)
<1> DEFINE n == Len(seqs)
<1>1. n \in Nat /\ \A k \in 1 .. n : seqs[k] \in Seq(S) /\ Len(seqs[k]) \in Nat OBVIOUS
<1>2. PICK h : Flattening(h, seqs) /\ FlattenSeq(seqs) = h[n] BY FlattenSteps
<1>3. h[0] = <<>> /\ \A k \in 1 .. n : h[k] = h[k - 1] \o seqs[k]
  BY <1>2, Zenon DEF Flattening, n
<1> DEFINE at == [k \in 0 .. n |-> Len(h[k])]
           Made(k) == \A j \in 1 .. k : Stands(h[k], at[j - 1], seqs[j])
           T == { k \in Nat : h[k] \in Seq(S) /\ Made(k) }
<1>4. \A k \in 0 .. n : at[k] = Len(h[k]) OBVIOUS
<1>13. \A k \in 0 .. n : h[k] \in Seq(S)
  <2> DEFINE Q == Seq(S)
  <2>1. h[0] \in Q BY <1>3
  <2>2. ASSUME NEW k \in 1 .. n, h[k - 1] \in Q PROVE h[k] \in Q
    <3>1. h[k] = h[k - 1] \o seqs[k] /\ seqs[k] \in Seq(S) BY <1>1, <1>3
    <3>2. h[k - 1] \in Seq(S) BY <2>2
    <3> HIDE DEF n
    <3>3. h[k - 1] \o seqs[k] \in Seq(S) BY <3>1, <3>2
    <3> QED BY <3>1, <3>3
  <2> HIDE DEF Q, n
  <2>3. \A k \in 0 .. n : h[k] \in Q BY <1>1, <2>1, <2>2, StaysIn
  <2> QED BY <2>3 DEF Q
<1>14. \A k \in 0 .. n : Len(h[k]) \in Nat BY <1>13
<1> HIDE DEF at, n
<1>5. 0 \in T
  <2>1. h[0] \in Seq(S) BY <1>3
  <2> QED BY <2>1
<1>6. ASSUME NEW k \in 0 .. n - 1, k \in T PROVE k + 1 \in T
  <2> DEFINE j == k + 1
  <2>1. j \in 1 .. n /\ j - 1 = k /\ k \in Nat /\ k \in 0 .. n BY <1>1
  <2> HIDE DEF j
  <2>2. h[j] = h[k] \o seqs[j] /\ seqs[j] \in Seq(S) BY <1>1, <1>3, <2>1
  <2>3. h[k] \in Seq(S) /\ Made(k) BY <1>6
  <2>4. h[j] \in Seq(S) BY <2>2, <2>3
  <2>5. Stands(h[j], 0, h[k]) /\ Stands(h[j], 0 + Len(h[k]), seqs[j])
    <3>1. 0 \in Nat OBVIOUS
    <3>2. Stands(h[j], 0, h[k] \o seqs[j])
      <4>1. 0 + Len(h[k] \o seqs[j]) <= Len(h[j])
        <5>1. Len(h[j]) \in Nat BY <2>4
        <5> QED BY <2>2, <5>1
      <4>2. \A m \in 1 .. Len(h[j]) : h[j][0 + m] = h[j][m] OBVIOUS
      <4> QED BY <2>2, <4>1, <4>2 DEF Stands
    <3> QED BY <2>2, <2>3, <2>4, <3>1, <3>2, StandsJoined
  <2>6. ASSUME NEW i \in 1 .. j PROVE Stands(h[j], at[i - 1], seqs[i])
    <3>1. CASE i = j
      <4>1. Len(h[k]) \in Nat BY <2>3
      <4>2. at[i - 1] = 0 + Len(h[k]) BY <1>4, <2>1, <3>1, <4>1
      <4> QED BY <2>5, <3>1, <4>2
    <3>2. CASE i # j
      <4>1. i \in 1 .. k /\ i - 1 \in 0 .. n /\ i \in 1 .. n BY <1>1, <2>1, <3>2
      <4>2. Stands(h[k], at[i - 1], seqs[i]) BY <2>3, <4>1
      <4>3. at[i - 1] = Len(h[i - 1]) BY <1>4, <4>1
      <4>4. at[i - 1] \in Nat BY <1>14, <4>1, <4>3
      <4>5. seqs[i] \in Seq(S) BY <1>1, <4>1
      <4>6. Stands(h[j], 0 + at[i - 1], seqs[i])
        <5>1. 0 \in Nat OBVIOUS
        <5> QED BY <2>3, <2>4, <2>5, <4>2, <4>4, <4>5, <5>1, StandsInside
      <4>7. 0 + at[i - 1] = at[i - 1] BY <4>4
      <4> QED BY <4>6, <4>7
    <3> QED BY <3>1, <3>2
  <2>7. Made(j) BY <2>6
  <2> HIDE DEF Made
  <2> QED BY <2>1, <2>4, <2>7 DEF j
<1>7. \A k \in 0 .. n : k \in T
  <2> HIDE DEF T
  <2> QED BY <1>1, <1>5, <1>6, UpTo
<1>8. \A k \in 0 .. n : h[k] \in Seq(S) /\ Len(h[k]) \in Nat BY <1>7
<1>9. IsCut(at, seqs)
  <2>1. at \in [0 .. n -> Nat] BY <1>8 DEF at
  <2>2. at[0] = 0
    <3>1. 0 \in 0 .. n BY <1>1
    <3> QED BY <1>3, <1>4, <3>1
  <2>3. ASSUME NEW k \in 1 .. n PROVE at[k] = at[k - 1] + Len(seqs[k])
    <3>1. k \in 0 .. n /\ k - 1 \in 0 .. n BY <1>1
    <3>2. h[k] = h[k - 1] \o seqs[k] BY <1>3
    <3>3. seqs[k] \in Seq(S) /\ h[k - 1] \in Seq(S) BY <1>1, <1>8, <3>1
    <3>4. Len(h[k]) = Len(h[k - 1]) + Len(seqs[k]) BY <3>2, <3>3
    <3> QED BY <1>4, <3>1, <3>4
  <2> QED BY <2>1, <2>2, <2>3 DEF IsCut, n
<1>10. n \in 0 .. n BY <1>1
<1>11. Made(n) /\ at[n] = Len(h[n]) /\ h[n] \in Seq(S) BY <1>4, <1>7, <1>8, <1>10
<1>12. CutAt(FlattenSeq(seqs), at, seqs) BY <1>2, <1>9, <1>11 DEF CutAt, n
<1> QED BY <1>2, <1>11, <1>12

\* What is cut that way stands where all its parts do.
LEMMA StandsInParts ==
  ASSUME NEW S, NEW d \in Seq(S), NEW w \in Seq(S), NEW seqs \in Seq(Seq(S)), NEW at,
         CutAt(w, at, seqs), NEW o \in Nat, o + Len(w) <= Len(d),
         \A k \in 1 .. Len(seqs) : Stands(d, o + at[k - 1], seqs[k])
  PROVE  Stands(d, o, w)
<1> DEFINE n == Len(seqs)
           T == { k \in Nat : \A m \in 1 .. at[k] : d[o + m] = w[m] }
<1>1. n \in Nat /\ \A k \in 1 .. n : seqs[k] \in Seq(S) /\ Len(seqs[k]) \in Nat OBVIOUS
<1>2. /\ at \in [0 .. n -> Nat] /\ at[0] = 0 /\ at[n] = Len(w)
      /\ \A k \in 1 .. n : at[k] = at[k - 1] + Len(seqs[k])
      /\ \A k \in 1 .. n : Stands(w, at[k - 1], seqs[k])
  BY DEF CutAt, IsCut
<1>3. \A k \in 0 .. n : at[k] \in Nat BY <1>2
<1>4. \A k \in 1 .. n : Stands(d, o + at[k - 1], seqs[k]) OBVIOUS
<1> HIDE DEF n
<1>5. 0 \in T BY <1>2
<1>6. ASSUME NEW k \in 0 .. n - 1, k \in T PROVE k + 1 \in T
  <2> DEFINE j == k + 1
  <2>1. j \in 1 .. n /\ j - 1 = k /\ k \in Nat /\ k \in 0 .. n /\ j \in 0 .. n BY <1>1
  <2> HIDE DEF j
  <2>2. at[j] = at[k] + Len(seqs[j]) /\ at[k] \in Nat /\ at[j] \in Nat /\ Len(seqs[j]) \in Nat
    BY <1>1, <1>2, <1>3, <2>1
  <2>3. Stands(w, at[k], seqs[j]) /\ Stands(d, o + at[k], seqs[j]) BY <1>2, <1>4, <2>1
  <2>4. ASSUME NEW m \in 1 .. at[j] PROVE d[o + m] = w[m]
    <3>1. CASE m <= at[k]
      <4>1. m \in 1 .. at[k] BY <2>2, <3>1
      <4> QED BY <1>6, <4>1
    <3>2. CASE ~ (m <= at[k])
      <4> DEFINE r == m - at[k]
      <4>1. r \in 1 .. Len(seqs[j]) /\ at[k] + r = m /\ (o + at[k]) + r = o + m
        BY <2>2, <3>2, SMTT(60)
      <4> HIDE DEF r
      <4>2. w[at[k] + r] = seqs[j][r] /\ d[(o + at[k]) + r] = seqs[j][r]
        BY <2>3, <4>1 DEF Stands
      <4> QED BY <4>1, <4>2
    <3> QED BY <3>1, <3>2
  <2> QED BY <2>1, <2>4 DEF j
<1>7. n \in T
  <2> HIDE DEF T
  <2>1. \A k \in 0 .. n : k \in T BY <1>1, <1>5, <1>6, UpTo
  <2> QED BY <1>1, <2>1
<1> QED BY <1>2, <1>7 DEF Stands

-----------------------------------------------------------------------------
(* The digits of a number *)

Bases == { b \in Nat : b >= 2 }

DigitsTo(g, n, b) ==
  g = [m \in 0 .. n |-> IF m < b THEN <<m>> ELSE Append(g[m \div b], m % b)]

LEMMA DigitsExist ==
  ASSUME NEW b \in Bases, NEW n \in Nat
  PROVE  \E g : DigitsTo(g, n, b)
<1> DEFINE leaf == [m \in Nat |-> <<m>>]
           step == [p \in Seq(Nat) \X Nat |-> Append(p[1], p[2] % b)]
<1>0. b \in Nat /\ b >= 2 BY DEF Bases
<1>1. leaf \in [Nat -> Seq(Nat)] OBVIOUS
<1>2. step \in [Seq(Nat) \X Nat -> Seq(Nat)]
  <2>1. ASSUME NEW s \in Seq(Nat), NEW m \in Nat PROVE Append(s, m % b) \in Seq(Nat)
    <3>1. m % b \in Nat BY <1>0
    <3> QED BY <3>1
  <2> QED BY <2>1
<1> HIDE DEF leaf, step
<1>3. DivRecursion(n, b, Seq(Nat), leaf, step)
  <2> DEFINE S == Seq(Nat)
  <2>1. leaf \in [Nat -> S] /\ step \in [S \X Nat -> S] BY <1>1, <1>2
  <2> HIDE DEF S
  <2>2. DivRecursion(n, b, S, leaf, step) BY <1>0, <2>1, DigitRecursion
  <2> QED BY <2>2 DEF S
<1>4. PICK g \in [0 .. n -> Seq(Nat)] :
        \A m \in 0 .. n : g[m] = IF m < b THEN leaf[m] ELSE step[<<g[m \div b], m>>]
  BY <1>3 DEF DivRecursion
<1> DEFINE e(m) == IF m < b THEN <<m>> ELSE Append(g[m \div b], m % b)
<1>5. ASSUME NEW m \in 0 .. n PROVE g[m] = e(m)
  <2>1. m \in Nat OBVIOUS
  <2>2. leaf[m] = <<m>> BY <2>1 DEF leaf
  <2> DEFINE j == m \div b
  <2>3. ASSUME m >= b PROVE j \in 0 .. n
    <3>1. m >= 1 BY <1>0, <2>3
    <3>2. j \in 0 .. m - 1 BY <1>0, <2>1, <3>1, QuotientIsLess
    <3> HIDE DEF j
    <3> QED BY <3>2
  <2>4. g[m] = IF m < b THEN leaf[m] ELSE step[<<g[j], m>>] BY <1>4
  <2> HIDE DEF j
  <2>5. CASE m < b
    <3>1. g[m] = <<m>> BY <2>2, <2>4, <2>5, Zenon
    <3> QED BY <2>5, <3>1, Zenon
  <2>6. CASE ~ (m < b)
    <3>1. m >= b BY <1>0, <2>6
    <3>2. <<g[j], m>> \in Seq(Nat) \X Nat BY <1>4, <2>1, <2>3, <3>1
    <3> DEFINE p == <<g[j], m>>
    <3>3. p[1] = g[j] /\ p[2] = m OBVIOUS
    <3> HIDE DEF p
    <3>4. step[p] = Append(g[j], m % b) BY <3>2, <3>3 DEF step, p
    <3>5. g[m] = Append(g[j], m % b) BY <2>4, <2>6, <3>4, Zenon DEF p
    <3> QED BY <2>6, <3>5, Zenon DEF j
  <2> QED BY <2>5, <2>6
<1>6. g = [m \in 0 .. n |-> e(m)]
  <2> HIDE DEF e
  <2> QED BY <1>4, <1>5
<1> QED BY <1>6, Zenon DEF DigitsTo

LEMMA DigitsAgree ==
  ASSUME NEW b \in Bases, NEW n \in Nat, NEW k \in Nat, k <= n, NEW g, NEW h,
         DigitsTo(g, n, b), DigitsTo(h, k, b)
  PROVE  \A m \in 0 .. k : g[m] = h[m]
<1> DEFINE T == { m \in Nat : m <= k => g[m] = h[m] }
<1>0. b \in Nat /\ b >= 2 BY DEF Bases
<1>1. ASSUME NEW m \in Nat, \A i \in 0 .. m - 1 : i \in T PROVE m \in T
  <2> SUFFICES ASSUME m <= k PROVE g[m] = h[m] OBVIOUS
  <2>1. m \in 0 .. n /\ m \in 0 .. k OBVIOUS
  <2> DEFINE j == m \div b
  <2>2. g[m] = IF m < b THEN <<m>> ELSE Append(g[j], m % b) BY <2>1, Zenon DEF DigitsTo
  <2>3. h[m] = IF m < b THEN <<m>> ELSE Append(h[j], m % b) BY <2>1, Zenon DEF DigitsTo
  <2>4. ASSUME ~ (m < b) PROVE g[j] = h[j]
    <3>1. m >= 1 BY <1>0, <2>4
    <3>2. j \in 0 .. m - 1 BY <1>0, <3>1, QuotientIsLess
    <3> HIDE DEF j
    <3> QED BY <1>1, <3>2
  <2> HIDE DEF j
  <2>5. CASE m < b BY <2>2, <2>3, <2>5, Zenon
  <2>6. CASE ~ (m < b) BY <2>2, <2>3, <2>4, <2>6, Zenon
  <2> QED BY <2>5, <2>6
<1>2. \A m \in Nat : m \in T
  <2> HIDE DEF T
  <2> QED BY <1>1, StrongInduct
<1> QED BY <1>2

LEMMA DigitsChosen ==
  ASSUME NEW b \in Bases, NEW n \in Nat
  PROVE  \E g : DigitsTo(g, n, b) /\ Digits(n, b) = g[n]
<1> DEFINE V == CHOOSE g : DigitsTo(g, n, b)
<1>1. Digits(n, b) = V[n] BY Zenon DEF Digits, DigitsTo
<1>2. DigitsTo(V, n, b) BY DigitsExist, Zenon
<1> HIDE DEF V
<1> QED BY <1>1, <1>2

\* The digits of n are those of n \div b with one more.
LEMMA DigitsStep ==
  ASSUME NEW b \in Bases, NEW n \in Nat
  PROVE  /\ n < b => Digits(n, b) = <<n>>
         /\ ~ (n < b) => Digits(n, b) = Append(Digits(n \div b, b), n % b)
<1>0. b \in Nat /\ b >= 2 BY DEF Bases
<1>1. PICK g : DigitsTo(g, n, b) /\ Digits(n, b) = g[n] BY DigitsChosen
<1> DEFINE j == n \div b
<1>2. g[n] = IF n < b THEN <<n>> ELSE Append(g[j], n % b)
  <2>1. n \in 0 .. n OBVIOUS
  <2> QED BY <1>1, <2>1, Zenon DEF DigitsTo
<1>3. ASSUME ~ (n < b) PROVE g[j] = Digits(j, b)
  <2>1. n >= 1 BY <1>0, <1>3
  <2>2. j \in 0 .. n - 1 BY <1>0, <2>1, QuotientIsLess
  <2> HIDE DEF j
  <2>3. PICK h : DigitsTo(h, j, b) /\ Digits(j, b) = h[j] BY <2>2, DigitsChosen
  <2>4. j \in Nat /\ j <= n /\ j \in 0 .. j BY <2>2
  <2>5. \A m \in 0 .. j : g[m] = h[m] BY <1>1, <2>3, <2>4, DigitsAgree
  <2> QED BY <2>3, <2>4, <2>5
<1> HIDE DEF j
<1>4. n < b => g[n] = <<n>> BY <1>2, Zenon
<1>5. ~ (n < b) => g[n] = Append(Digits(j, b), n % b) BY <1>2, <1>3, Zenon
<1> QED BY <1>1, <1>4, <1>5, Zenon DEF j

\* What one digit more makes of a number.
LEMMA DigitsAppend ==
  ASSUME NEW b \in Bases, NEW n \in Nat, n >= 1, NEW d \in 0 .. b - 1
  PROVE  Digits(b * n + d, b) = Append(Digits(n, b), d)
<1>0. b \in Nat \ {0} /\ b >= 2 BY DEF Bases
<1> DEFINE m == b * n + d
<1>1. m \div b = n /\ m % b = d BY <1>0, Division
<1>2. m \in Nat /\ ~ (m < b)
  <2>1. b * n \in Nat /\ b * n >= b
    <3>1. n = (n - 1) + 1 /\ n - 1 \in Nat OBVIOUS
    <3> DEFINE k == n - 1
    <3>2. b * (k + 1) = b * k + b /\ b * k \in Nat BY <1>0, <3>1
    <3> QED BY <1>0, <3>1, <3>2
  <2> DEFINE x == b * n
  <2> HIDE DEF x
  <2>2. x \in Nat /\ x >= b /\ m = x + d BY <2>1 DEF x
  <2> HIDE DEF m
  <2> QED BY <1>0, <2>2
<1> HIDE DEF m
<1>3. Digits(m, b) = Append(Digits(m \div b, b), m % b) BY <1>2, DigitsStep
<1> QED BY <1>1, <1>3 DEF m

\* V gives what a reader has accumulated of n after each of the digits s.
ReadsAs(V, s, n, b) ==
  /\ V \in [0 .. Len(s) -> 0 .. n]
  /\ V[0] = 0 /\ V[Len(s)] = n
  /\ \A k \in 1 .. Len(s) : V[k] = b * V[k - 1] + s[k]

DigitsOf(s, n, b) ==
  /\ s \in Seq(0 .. b - 1) /\ Len(s) >= 1
  /\ n >= 1 => s[1] >= 1
  /\ \E V : ReadsAs(V, s, n, b)

LEMMA DigitsReadBack ==
  ASSUME NEW b \in Bases, NEW n \in Nat
  PROVE  DigitsOf(Digits(n, b), n, b)
<1> DEFINE T == { m \in Nat : DigitsOf(Digits(m, b), m, b) }
<1>0. b \in Nat /\ b >= 2 BY DEF Bases
<1>1. ASSUME NEW m \in Nat, \A i \in 0 .. m - 1 : i \in T PROVE m \in T
  <2>1. CASE m < b
    <3> DEFINE s == <<m>>
               V == [k \in 0 .. 1 |-> IF k = 0 THEN 0 ELSE m]
    <3>1. Digits(m, b) = s BY <2>1, DigitsStep
    <3>2. s \in Seq(0 .. b - 1) /\ Len(s) = 1 /\ s[1] = m BY <1>0, <2>1
    <3>3. V \in [0 .. 1 -> 0 .. m] /\ V[0] = 0 /\ V[1] = m OBVIOUS
    <3> HIDE DEF s, V
    <3>4. b * V[0] + s[1] = m BY <1>0, <3>2, <3>3
    <3>5. ASSUME NEW k \in 1 .. 1 PROVE V[k] = b * V[k - 1] + s[k]
      <4>1. k = 1 /\ k - 1 = 0 OBVIOUS
      <4> QED BY <3>3, <3>4, <4>1
    <3>6. ReadsAs(V, s, m, b) BY <3>2, <3>3, <3>5 DEF ReadsAs
    <3>7. DigitsOf(s, m, b) BY <3>2, <3>6 DEF DigitsOf
    <3> QED BY <3>1, <3>7
  <2>2. CASE ~ (m < b)
    <3> DEFINE j == m \div b
               d == m % b
               r == Digits(j, b)
               s == Append(r, d)
    <3>1. Digits(m, b) = s BY <2>2, DigitsStep
    <3>2. m >= 1 /\ b \in Nat \ {0} BY <1>0, <2>2
    <3>3. j \in 0 .. m - 1 BY <1>0, <3>2, QuotientIsLess
    <3>4. d \in 0 .. b - 1 /\ m = b * j + d
      <4>1. m \in Int OBVIOUS
      <4>2. m \div b \in Int /\ m % b \in 0 .. b - 1 /\ m = b * (m \div b) + (m % b)
        BY <3>2, <4>1, DividesInto
      <4> QED BY <4>2
    <3>5. DigitsOf(r, j, b) BY <1>1, <3>3
    <3> HIDE DEF j, d, r
    <3>6. j >= 1
      <4> SUFFICES ASSUME j = 0 PROVE FALSE BY <3>3
      <4> QED BY <1>0, <2>2, <3>4
    <3>7. PICK W : ReadsAs(W, r, j, b) BY <3>5 DEF DigitsOf
    <3>8. r \in Seq(0 .. b - 1) /\ Len(r) >= 1 /\ r[1] >= 1 BY <3>5, <3>6 DEF DigitsOf
    <3> DEFINE n1 == Len(r)
    <3>9. /\ s \in Seq(0 .. b - 1) /\ Len(s) = n1 + 1 /\ n1 \in Nat /\ s[n1 + 1] = d
          /\ \A k \in 1 .. n1 : s[k] = r[k]
      BY <3>4, <3>8
    <3>10. /\ W \in [0 .. n1 -> 0 .. j] /\ W[0] = 0 /\ W[n1] = j
           /\ \A k \in 1 .. n1 : W[k] = b * W[k - 1] + r[k]
      BY <3>7 DEF ReadsAs
    <3> HIDE DEF s, n1
    <3> DEFINE V == [k \in 0 .. n1 + 1 |-> IF k = n1 + 1 THEN m ELSE W[k]]
    <3>11. V \in [0 .. n1 + 1 -> 0 .. m]
      <4>1. ASSUME NEW k \in 0 .. n1 + 1, k # n1 + 1 PROVE W[k] \in 0 .. m
        <5>1. k \in 0 .. n1 BY <3>9, <4>1
        <5>2. W[k] \in 0 .. j BY <3>10, <5>1
        <5> QED BY <3>3, <5>2
      <4> QED BY <4>1
    <3>12. V[n1 + 1] = m /\ \A k \in 0 .. n1 : V[k] = W[k] BY <3>9
    <3> HIDE DEF V
    <3>13. V[0] = 0 BY <3>9, <3>10, <3>12
    <3>14. ASSUME NEW k \in 1 .. n1 + 1 PROVE V[k] = b * V[k - 1] + s[k]
      <4>1. CASE k = n1 + 1
        <5>1. V[k - 1] = j BY <3>9, <3>10, <3>12, <4>1
        <5> QED BY <3>4, <3>9, <3>12, <4>1, <5>1
      <4>2. CASE k # n1 + 1
        <5>1. k \in 1 .. n1 /\ k \in 0 .. n1 /\ k - 1 \in 0 .. n1 BY <3>9, <4>2
        <5> QED BY <3>9, <3>10, <3>12, <5>1
      <4> QED BY <4>1, <4>2
    <3>15. ReadsAs(V, s, m, b) BY <3>9, <3>11, <3>12, <3>13, <3>14 DEF ReadsAs
    <3>16. Len(s) >= 1 /\ s[1] >= 1
      <4>1. 1 \in 1 .. n1 BY <3>8, <3>9 DEF n1
      <4> QED BY <3>8, <3>9, <4>1
    <3>17. DigitsOf(s, m, b) BY <3>9, <3>15, <3>16 DEF DigitsOf
    <3> QED BY <3>1, <3>17
  <2> QED BY <2>1, <2>2
<1>2. \A m \in Nat : m \in T
  <2> HIDE DEF T
  <2> QED BY <1>1, StrongInduct
<1> QED BY <1>2

\* A number below a power of 256 has no more digits than that.
LEMMA FewDigits ==
  ASSUME NEW n \in Nat, NEW k \in 1 .. 8, n < Power256(k)
  PROVE  Len(Digits(n, 256)) <= k
<1> DEFINE T == { i \in Nat : i >= 1 => \A m \in Nat : m < Power256(i) =>
                                          Len(Digits(m, 256)) <= i }
           b == 256
<1>0. b \in Bases BY DEF Bases
<1>1. 0 \in T OBVIOUS
<1>2. ASSUME NEW i \in 0 .. 8 - 1, i \in T PROVE i + 1 \in T
  <2> SUFFICES ASSUME NEW m \in Nat, m < Power256(i + 1)
               PROVE  Len(Digits(m, 256)) <= i + 1
    OBVIOUS
  <2>1. CASE m < 256
    <3> DEFINE D == Digits(m, b)
    <3>0. m < b => D = <<m>> BY <1>0, DigitsStep
    <3> HIDE DEF D
    <3>1. D = <<m>> BY <2>1, <3>0
    <3>2. Len(D) = 1 BY <3>1
    <3>3. Len(Digits(m, 256)) = 1 BY <3>2 DEF D
    <3> DEFINE L == Len(Digits(m, 256))
    <3> HIDE DEF L
    <3>4. L = 1 BY <3>3 DEF L
    <3>5. L <= i + 1 BY <3>4
    <3> QED BY <3>5 DEF L
  <2>2. CASE ~ (m < 256)
    <3> DEFINE j == m \div 256
               d == m % 256
               r == Digits(j, 256)
    <3>1. Digits(m, 256) = Append(r, d)
      <4>1. ~ (m < b) => Digits(m, b) = Append(Digits(m \div b, b), m % b)
        BY <1>0, DigitsStep
      <4> QED BY <2>2, <4>1
    <3>2. Power256(i + 1) = 256 * Power256(i) /\ Power256(i) \in Nat
      BY NextPower256, Powers256Grow
    <3>3. j \in Nat /\ m = 256 * j + d /\ d \in 0 .. 255 OBVIOUS
    <3> HIDE DEF j, d
    <3>4. j < Power256(i) /\ j >= 1
      <4> DEFINE P == Power256(i)
      <4>1. P \in Nat /\ m < 256 * P BY <3>2
      <4> HIDE DEF P
      <4>2. j < P /\ j >= 1 BY <2>2, <3>3, <4>1
      <4> QED BY <4>2 DEF P
    <3>5. i >= 1
      <4> SUFFICES ASSUME i = 0 PROVE FALSE OBVIOUS
      <4>1. Power256(i) = 1 BY NextPower256
      <4> QED BY <3>3, <3>4, <4>1
    <3>6. Len(r) <= i BY <1>2, <3>3, <3>4, <3>5
    <3>7. r \in Seq(0 .. b - 1)
      <4>1. DigitsOf(Digits(j, b), j, b) BY <1>0, <3>3, DigitsReadBack
      <4>2. Digits(j, b) \in Seq(0 .. b - 1) BY <4>1, Zenon DEF DigitsOf
      <4> QED BY <4>2
    <3> HIDE DEF r
    <3>8. Len(Append(r, d)) = Len(r) + 1 /\ Len(r) \in Nat BY <3>7
    <3> QED BY <3>1, <3>6, <3>8
  <2> QED BY <2>1, <2>2
<1>3. k \in T
  <2> HIDE DEF T
  <2>1. \A i \in 0 .. 8 : i \in T BY <1>1, <1>2, UpTo
  <2> QED BY <2>1
<1> QED BY <1>3

-----------------------------------------------------------------------------
(* The header octets *)

LEMMA ItemIn ==
  ASSUME NEW S, NEW s \in Seq(S)
  PROVE  \A i \in 1 .. Len(s) : s[i] \in S
OBVIOUS

\* The octets that give a tag number s in high form.
Continued(s) == [i \in DOMAIN s |-> s[i] + (IF i < Len(s) THEN 128 ELSE 0)]

FirstOctet(n) ==
  64 * n.class + (IF n.constructed THEN 32 ELSE 0) + (IF n.tag < 31 THEN n.tag ELSE 31)

IdentifierForm(n, w) ==
  /\ w \in Seq(Octets) /\ Len(w) >= 1 /\ w[1] = FirstOctet(n)
  /\ n.tag < 31 => Len(w) = 1
  /\ ~ (n.tag < 31) =>
       /\ Len(w) = 1 + Len(Digits(n.tag, 128))
       /\ \A k \in 1 .. Len(Digits(n.tag, 128)) :
            w[1 + k] = Digits(n.tag, 128)[k]
                       + (IF k < Len(Digits(n.tag, 128)) THEN 128 ELSE 0)

Tagged(n) == n.class \in 0 .. 3 /\ n.constructed \in BOOLEAN /\ n.tag \in Nat

LEMMA IdentifierOctets ==
  ASSUME NEW n, Tagged(n)
  PROVE  IdentifierForm(n, EncodeIdentifier(n))
<1> DEFINE s == Digits(n.tag, 128)
           c == 64 * n.class
           k == IF n.constructed THEN 32 ELSE 0
           w == EncodeIdentifier(n)
           b == 128
<1>1. n.tag \in Nat /\ c \in Int /\ c >= 0 /\ c <= 192 /\ k \in Nat /\ k <= 32 BY DEF Tagged
<1>2. s \in Seq(0 .. 127) /\ Len(s) >= 1
  <2>1. b \in Bases BY DEF Bases
  <2>2. DigitsOf(Digits(n.tag, b), n.tag, b) BY <1>1, <2>1, DigitsReadBack
  <2> QED BY <2>2 DEF DigitsOf
<1>3. w = IF n.tag < 31 THEN <<(c + k) + n.tag>> ELSE <<(c + k) + 31>> \o Continued(s)
  BY Zenon DEF EncodeIdentifier, Continued
<1>4. FirstOctet(n) = (c + k) + (IF n.tag < 31 THEN n.tag ELSE 31) BY DEF FirstOctet
<1> HIDE DEF c, k, s, w
<1>5. CASE n.tag < 31
  <2> DEFINE x == (c + k) + n.tag
  <2>0. x \in 0 .. 255 BY <1>1, <1>5
  <2>1. x \in Octets BY <2>0 DEF Octets
  <2>2. w = <<x>> BY <1>3, <1>5, Zenon
  <2>3. FirstOctet(n) = x BY <1>4, <1>5
  <2> HIDE DEF x
  <2>4. w \in Seq(Octets) /\ Len(w) = 1 /\ w[1] = x BY <2>1, <2>2
  <2> QED BY <1>5, <2>3, <2>4 DEF IdentifierForm, w
<1>6. CASE ~ (n.tag < 31)
  <2> DEFINE x == (c + k) + 31
             t == Continued(s)
  <2>1. x \in Octets BY <1>1 DEF Octets
  <2>2. /\ t \in Seq(Octets) /\ Len(t) = Len(s)
        /\ \A i \in 1 .. Len(s) : t[i] = s[i] + (IF i < Len(s) THEN 128 ELSE 0)
    <3>1. \A i \in 1 .. Len(s) : s[i] \in 0 .. 127 BY <1>2, ItemIn
    <3>2. \A i \in 1 .. Len(s) : s[i] + (IF i < Len(s) THEN 128 ELSE 0) \in Octets
      <4> SUFFICES ASSUME NEW i \in 1 .. Len(s)
                   PROVE  s[i] + (IF i < Len(s) THEN 128 ELSE 0) \in Octets
        OBVIOUS
      <4>1. s[i] \in 0 .. 127 BY <3>1
      <4> DEFINE y == s[i]
      <4> HIDE DEF y
      <4>2. y \in 0 .. 127 BY <4>1 DEF y
      <4>3. y + (IF i < Len(s) THEN 128 ELSE 0) \in 0 .. 255 BY <4>2
      <4> QED BY <4>3 DEF Octets, y
    <3>3. DOMAIN s = 1 .. Len(s) /\ Len(s) \in Nat BY <1>2
    <3> QED BY <3>2, <3>3 DEF Continued
  <2>3. w = <<x>> \o t BY <1>3, <1>6, Zenon
  <2>4. FirstOctet(n) = x BY <1>4, <1>6
  <2> HIDE DEF x, t
  <2>5. /\ w \in Seq(Octets) /\ Len(w) = 1 + Len(s) /\ w[1] = x
        /\ \A i \in 1 .. Len(s) : w[1 + i] = t[i]
    BY <2>1, <2>2, <2>3
  <2>6. \A i \in 1 .. Len(s) : w[1 + i] = s[i] + (IF i < Len(s) THEN 128 ELSE 0)
    BY <2>2, <2>5
  <2>7. Len(w) >= 1 BY <1>2, <2>5
  <2> QED BY <1>6, <2>4, <2>5, <2>6, <2>7 DEF IdentifierForm, w, s
<1> QED BY <1>5, <1>6

LengthForm(len, w) ==
  /\ w \in Seq(Octets) /\ Len(w) >= 1
  /\ len < 128 => w = <<len>>
  /\ ~ (len < 128) =>
       /\ Len(Digits(len, 256)) \in 1 .. MaxLengthOctets
       /\ Len(w) = 1 + Len(Digits(len, 256)) /\ w[1] = 128 + Len(Digits(len, 256))
       /\ \A k \in 1 .. Len(Digits(len, 256)) : w[1 + k] = Digits(len, 256)[k]

LEMMA LengthOctetsForm ==
  ASSUME NEW len \in Nat, len < 128 \/ len <= UsizeMax
  PROVE  LengthForm(len, EncodeLength(len))
<1> DEFINE D == Digits(len, 256)
           w == EncodeLength(len)
           b == 256
<1>0. b \in Bases BY DEF Bases
<1>1. MaxLengthOctets \in 1 .. 8 BY WidthAssumption, LimitsAssumption
<1>2. ASSUME ~ (len < 128) PROVE Len(D) <= MaxLengthOctets
  <2>2. Power256(MaxLengthOctets) \in Nat BY <1>1, Powers256Grow
  <2> DEFINE P == Power256(MaxLengthOctets)
  <2> HIDE DEF P
  <2>3. UsizeMax \in Nat /\ UsizeMax < P /\ P \in Nat
    BY <2>2, WidthAssumption, LimitsAssumption DEF P
  <2>4. len < P BY <1>2, <2>3
  <2> QED BY <1>1, <2>4, FewDigits DEF P
<1>3. D \in Seq(Octets) /\ Len(D) >= 1
  <2>1. DigitsOf(Digits(len, b), len, b) BY <1>0, DigitsReadBack
  <2>2. 0 .. b - 1 = Octets BY DEF Octets
  <2> QED BY <2>1, <2>2 DEF DigitsOf
<1>4. w = IF len < 128 THEN <<len>> ELSE <<128 + Len(D)>> \o D BY Zenon DEF EncodeLength
<1> HIDE DEF D, w
<1>5. CASE len < 128
  <2>1. w = <<len>> BY <1>4, <1>5, Zenon
  <2>2. w \in Seq(Octets) /\ Len(w) = 1 BY <1>5, <2>1 DEF Octets
  <2> QED BY <1>5, <2>1, <2>2 DEF LengthForm, w
<1>6. CASE ~ (len < 128)
  <2> DEFINE x == 128 + Len(D)
  <2>1. Len(D) \in 1 .. MaxLengthOctets BY <1>1, <1>2, <1>3, <1>6
  <2>2. x \in Octets
    <3> DEFINE l == Len(D)
    <3>1. l \in 1 .. MaxLengthOctets BY <2>1
    <3> HIDE DEF l
    <3>2. l \in 1 .. 8 BY <1>1, <3>1
    <3>3. 128 + l \in Octets BY <3>2 DEF Octets
    <3> QED BY <3>3 DEF l
  <2>3. w = <<x>> \o D BY <1>4, <1>6, Zenon
  <2> HIDE DEF x
  <2>4. /\ w \in Seq(Octets) /\ Len(w) = 1 + Len(D) /\ w[1] = x
        /\ \A i \in 1 .. Len(D) : w[1 + i] = D[i]
    BY <1>3, <2>2, <2>3
  <2>5. Len(w) >= 1 BY <1>3, <2>4
  <2> QED BY <1>6, <2>1, <2>4, <2>5 DEF LengthForm, w, D, x
<1> QED BY <1>5, <1>6

\* The digits of a tag number and of a length, as they are read.
LEMMA TagDigits ==
  ASSUME NEW n \in Nat
  PROVE  DigitsOf(Digits(n, 128), n, 128)
<1> DEFINE b == 128
<1>1. b \in Bases BY DEF Bases
<1> HIDE DEF b
<1>2. DigitsOf(Digits(n, b), n, b) BY <1>1, DigitsReadBack
<1> QED BY <1>2 DEF b

LEMMA LengthDigits ==
  ASSUME NEW n \in Nat
  PROVE  DigitsOf(Digits(n, 256), n, 256)
<1> DEFINE b == 256
<1>1. b \in Bases BY DEF Bases
<1> HIDE DEF b
<1>2. DigitsOf(Digits(n, b), n, b) BY <1>1, DigitsReadBack
<1> QED BY <1>2 DEF b

-----------------------------------------------------------------------------
(* The order of encodings *)

Words == Seq(Nat)

LEMMA WordFacts ==
  ASSUME NEW v \in Words
  PROVE  Len(v) \in Nat /\ \A i \in 1 .. Len(v) : v[i] \in Nat
<1>1. v \in Seq(Nat) BY DEF Words
<1> QED BY <1>1, ItemIn

\* The first place where two words differ decides.
Decides(v, w, k) ==
  /\ k \in 1 .. Len(w)
  /\ \A i \in 1 .. k - 1 : i <= Len(v) /\ v[i] = w[i]
  /\ k > Len(v) \/ v[k] < w[k]

LEMMA PrecedesIs ==
  ASSUME NEW v, NEW w
  PROVE  Precedes(v, w) <=> \E k : Decides(v, w, k)
BY Zenon DEF Precedes, Decides

LEMMA PrecedesAsymmetric ==
  ASSUME NEW v \in Words, NEW w \in Words, Precedes(v, w)
  PROVE  ~ Precedes(w, v)
<1> SUFFICES ASSUME Precedes(w, v) PROVE FALSE OBVIOUS
<1>1. PICK k : Decides(v, w, k) BY PrecedesIs
<1>2. PICK l : Decides(w, v, l) BY PrecedesIs
<1>3. Len(v) \in Nat /\ Len(w) \in Nat /\ k \in Nat /\ l \in Nat BY <1>1, <1>2, WordFacts DEF Decides
<1>4. CASE k = l
  <2>1. k <= Len(w) /\ k <= Len(v) BY <1>1, <1>2, <1>4 DEF Decides
  <2>2. v[k] < w[k] /\ w[k] < v[k] BY <1>1, <1>2, <1>3, <1>4, <2>1 DEF Decides
  <2>3. v[k] \in Nat /\ w[k] \in Nat
    <3>1. k \in 1 .. Len(v) /\ k \in 1 .. Len(w) BY <1>1, <1>2, <1>4 DEF Decides
    <3> QED BY <3>1, WordFacts
  <2> QED BY <2>2, <2>3
<1>5. CASE k < l
  <2>1. k \in 1 .. l - 1 BY <1>1, <1>3, <1>5 DEF Decides
  <2>2. k <= Len(w) /\ w[k] = v[k] /\ l <= Len(v) BY <1>2, <2>1 DEF Decides
  <2>3. k \in 1 .. Len(w) BY <1>1 DEF Decides
  <2>4. v[k] < w[k] BY <1>1, <1>3, <1>5, <2>2 DEF Decides
  <2>5. w[k] \in Nat BY <2>3, WordFacts
  <2> QED BY <2>2, <2>4, <2>5
<1>6. CASE l < k
  <2>1. l \in 1 .. k - 1 BY <1>2, <1>3, <1>6 DEF Decides
  <2>2. l <= Len(v) /\ w[l] = v[l] /\ k <= Len(w) BY <1>1, <2>1 DEF Decides
  <2>3. l \in 1 .. Len(v) BY <1>2 DEF Decides
  <2>4. w[l] < v[l] BY <1>2, <1>3, <1>6, <2>2 DEF Decides
  <2>5. v[l] \in Nat BY <2>3, WordFacts
  <2> QED BY <2>2, <2>4, <2>5
<1> QED BY <1>3, <1>4, <1>5, <1>6

LEMMA PrecedesTransitive ==
  ASSUME NEW u \in Words, NEW v \in Words, NEW w \in Words, Precedes(u, v), Precedes(v, w)
  PROVE  Precedes(u, w)
<1>1. PICK k : Decides(u, v, k) BY PrecedesIs
<1>2. PICK l : Decides(v, w, l) BY PrecedesIs
<1>3. /\ Len(u) \in Nat /\ Len(v) \in Nat /\ Len(w) \in Nat
      /\ k \in 1 .. Len(v) /\ l \in 1 .. Len(w)
  BY <1>1, <1>2, WordFacts DEF Decides
<1>u. \A i \in 1 .. k - 1 : i <= Len(u) /\ u[i] = v[i] BY <1>1 DEF Decides
<1>v. \A i \in 1 .. l - 1 : i <= Len(v) /\ v[i] = w[i] BY <1>2 DEF Decides
<1>4. CASE l < k
  <2>1. l <= Len(u) /\ u[l] = v[l]
    <3>1. l \in 1 .. k - 1 BY <1>3, <1>4
    <3> QED BY <1>u, <3>1
  <2>2. v[l] < w[l] BY <1>2, <1>3, <1>4 DEF Decides
  <2>3. \A i \in 1 .. l - 1 : i <= Len(u) /\ u[i] = w[i]
    <3> SUFFICES ASSUME NEW i \in 1 .. l - 1 PROVE i <= Len(u) /\ u[i] = w[i] OBVIOUS
    <3>1. i \in 1 .. k - 1 BY <1>3, <1>4
    <3> QED BY <1>u, <1>v, <3>1
  <2>4. Decides(u, w, l) BY <1>3, <2>1, <2>2, <2>3 DEF Decides
  <2> QED BY <2>4, PrecedesIs
<1>5. CASE ~ (l < k)
  <2>1. k <= Len(w) /\ k \in 1 .. Len(w) BY <1>3, <1>5
  <2>2. \A i \in 1 .. k - 1 : i <= Len(u) /\ u[i] = w[i]
    <3> SUFFICES ASSUME NEW i \in 1 .. k - 1 PROVE i <= Len(u) /\ u[i] = w[i] OBVIOUS
    <3>1. i \in 1 .. l - 1 BY <1>3, <1>5
    <3> QED BY <1>u, <1>v, <3>1
  <2>3. k > Len(u) \/ u[k] < w[k]
    <3> SUFFICES ASSUME ~ (k > Len(u)) PROVE u[k] < w[k] OBVIOUS
    <3>1. u[k] < v[k] BY <1>1 DEF Decides
    <3>2. k \in 1 .. Len(u) BY <1>3
    <3>3. u[k] \in Nat /\ v[k] \in Nat /\ w[k] \in Nat BY <1>3, <2>1, <3>2, WordFacts
    <3>4. v[k] = w[k] \/ v[k] < w[k]
      <4>1. CASE k = l BY <1>2, <1>3, <4>1 DEF Decides
      <4>2. CASE k # l
        <5>1. k \in 1 .. l - 1 BY <1>3, <1>5, <4>2
        <5> QED BY <1>v, <5>1
      <4> QED BY <4>1, <4>2
    <3> QED BY <3>1, <3>3, <3>4
  <2>4. Decides(u, w, k) BY <2>1, <2>2, <2>3 DEF Decides
  <2> QED BY <2>4, PrecedesIs
<1> QED BY <1>4, <1>5

LEMMA PrecedesTotal ==
  ASSUME NEW v \in Words, NEW w \in Words, v # w
  PROVE  Precedes(v, w) \/ Precedes(w, v)
<1> DEFINE D == { k \in Nat : /\ k >= 1 /\ (k <= Len(v) \/ k <= Len(w))
                              /\ ~ (k <= Len(v) /\ k <= Len(w) /\ v[k] = w[k]) }
<1>1. Len(v) \in Nat /\ Len(w) \in Nat BY WordFacts
<1>2. D # {}
  <2> SUFFICES ASSUME D = {} PROVE FALSE OBVIOUS
  <2>0. \A k \in Nat : k >= 1 /\ (k <= Len(v) \/ k <= Len(w)) =>
          k <= Len(v) /\ k <= Len(w) /\ v[k] = w[k]
    OBVIOUS
  <2>1. Len(v) = Len(w) BY <1>1, <2>0
  <2>2. \A k \in 1 .. Len(v) : v[k] = w[k] BY <1>1, <2>0
  <2>3. v \in Seq(Nat) /\ w \in Seq(Nat) BY DEF Words
  <2>4. v = w BY <2>1, <2>2, <2>3
  <2> QED BY <2>4
<1>3. PICK k \in D : \A n \in D : k <= n
  <2>1. D \in SUBSET Nat OBVIOUS
  <2> HIDE DEF D
  <2> QED BY <1>2, <2>1, LeastElement
<1>4. \A i \in 1 .. k - 1 : i <= Len(v) /\ i <= Len(w) /\ v[i] = w[i]
  <2> SUFFICES ASSUME NEW i \in 1 .. k - 1 PROVE i <= Len(v) /\ i <= Len(w) /\ v[i] = w[i]
    OBVIOUS
  <2>1. i \in Nat /\ ~ (k <= i) /\ i >= 1 BY <1>3
  <2>2. i \notin D BY <1>3, <2>1
  <2>3. i <= Len(v) \/ i <= Len(w) BY <1>1, <1>3
  <2> QED BY <2>1, <2>2, <2>3
<1>5. k \in Nat /\ k >= 1 /\ (k <= Len(v) \/ k <= Len(w))
      /\ ~ (k <= Len(v) /\ k <= Len(w) /\ v[k] = w[k])
  BY <1>3
<1> HIDE DEF D
<1>6. CASE k > Len(v)
  <2>1. Decides(v, w, k) BY <1>1, <1>4, <1>5, <1>6 DEF Decides
  <2> QED BY <2>1, PrecedesIs
<1>7. CASE k > Len(w)
  <2>1. \A i \in 1 .. k - 1 : i <= Len(w) /\ w[i] = v[i] BY <1>4
  <2>2. Decides(w, v, k) BY <1>1, <1>5, <1>7, <2>1 DEF Decides
  <2> QED BY <2>2, PrecedesIs
<1>8. CASE k <= Len(v) /\ k <= Len(w)
  <2>0. k \in 1 .. Len(v) /\ k \in 1 .. Len(w) BY <1>1, <1>5, <1>8
  <2>1. v[k] \in Nat /\ w[k] \in Nat /\ v[k] # w[k] BY <1>5, <1>8, <2>0, WordFacts
  <2>2. CASE v[k] < w[k]
    <3>1. Decides(v, w, k) BY <1>4, <2>0, <2>2 DEF Decides
    <3> QED BY <3>1, PrecedesIs
  <2>3. CASE w[k] < v[k]
    <3>1. \A i \in 1 .. k - 1 : i <= Len(w) /\ w[i] = v[i] BY <1>4
    <3>2. Decides(w, v, k) BY <2>0, <2>3, <3>1 DEF Decides
    <3> QED BY <3>2, PrecedesIs
  <2> QED BY <2>1, <2>2, <2>3
<1> QED BY <1>1, <1>5, <1>6, <1>7, <1>8

-----------------------------------------------------------------------------
(* Sorting *)

Ahead(s, k) == { j \in DOMAIN s : Before(s, j, k) }
Rank(s, k) == Cardinality(Ahead(s, k))

\* What is put in order is a sequence of encodings.
LEMMA BeforeIsOrder ==
  ASSUME NEW s \in Seq(Words), NEW j \in DOMAIN s, NEW k \in DOMAIN s
  PROVE  /\ Before(s, j, k) => ~ Before(s, k, j)
         /\ j # k => Before(s, j, k) \/ Before(s, k, j)
         /\ \A i \in DOMAIN s : Before(s, i, j) /\ Before(s, j, k) => Before(s, i, k)
<1>1. \A i \in DOMAIN s : s[i] \in Words /\ i \in Nat OBVIOUS
<1>2. Before(s, j, k) => ~ Before(s, k, j)
  <2> SUFFICES ASSUME Before(s, j, k), Before(s, k, j) PROVE FALSE OBVIOUS
  <2>1. CASE s[j] = s[k]
    <3>1. ~ Precedes(s[j], s[k])
      <4> SUFFICES ASSUME Precedes(s[j], s[k]) PROVE FALSE OBVIOUS
      <4>1. ~ Precedes(s[k], s[j]) BY <1>1, PrecedesAsymmetric
      <4> QED BY <2>1, <4>1
    <3>2. j < k /\ k < j BY <2>1, <3>1 DEF Before
    <3> QED BY <1>1, <3>2
  <2>2. CASE s[j] # s[k]
    <3>1. Precedes(s[j], s[k]) /\ Precedes(s[k], s[j]) BY <2>2 DEF Before
    <3> QED BY <1>1, <3>1, PrecedesAsymmetric
  <2> QED BY <2>1, <2>2
<1>3. ASSUME j # k PROVE Before(s, j, k) \/ Before(s, k, j)
  <2>1. CASE s[j] = s[k]
    <3>1. j < k \/ k < j BY <1>1, <1>3
    <3> QED BY <2>1, <3>1 DEF Before
  <2>2. CASE s[j] # s[k]
    <3>1. Precedes(s[j], s[k]) \/ Precedes(s[k], s[j]) BY <1>1, <2>2, PrecedesTotal
    <3> QED BY <3>1 DEF Before
  <2> QED BY <2>1, <2>2
<1>4. ASSUME NEW i \in DOMAIN s, Before(s, i, j), Before(s, j, k) PROVE Before(s, i, k)
  <2>1. CASE Precedes(s[i], s[j]) /\ Precedes(s[j], s[k])
    <3>1. Precedes(s[i], s[k]) BY <1>1, <2>1, PrecedesTransitive
    <3> QED BY <3>1 DEF Before
  <2>2. CASE Precedes(s[i], s[j]) /\ s[j] = s[k]
    <3>1. Precedes(s[i], s[k]) BY <2>2
    <3> QED BY <3>1 DEF Before
  <2>3. CASE s[i] = s[j] /\ Precedes(s[j], s[k])
    <3>1. Precedes(s[i], s[k]) BY <2>3
    <3> QED BY <3>1 DEF Before
  <2>4. CASE s[i] = s[j] /\ s[j] = s[k] /\ i < j /\ j < k
    <3>1. i < k BY <1>1, <2>4
    <3> QED BY <2>4, <3>1 DEF Before
  <2> QED BY <1>4, <2>1, <2>2, <2>3, <2>4 DEF Before
<1> QED BY <1>2, <1>3, <1>4

LEMMA RankFacts ==
  ASSUME NEW s \in Seq(Words), NEW k \in DOMAIN s
  PROVE  /\ Rank(s, k) \in 0 .. Len(s) - 1
         /\ \A j \in DOMAIN s : Before(s, j, k) => Rank(s, j) < Rank(s, k)
<1> DEFINE n == Len(s)
<1>0. n \in Nat /\ DOMAIN s = 1 .. n /\ k \in 1 .. n OBVIOUS
<1>1. IsFiniteSet(1 .. n) /\ Cardinality(1 .. n) = n
  <2>1. 1 \in Int /\ n \in Int BY <1>0
  <2>2. IsFiniteSet(1 .. n) /\ Cardinality(1 .. n) = IF 1 > n THEN 0 ELSE n - 1 + 1
    BY <2>1, FS_Interval
  <2> QED BY <1>0, <2>2
<1>2. \A j \in DOMAIN s : Ahead(s, j) \in SUBSET (1 .. n) BY <1>0 DEF Ahead
<1>3. \A j \in DOMAIN s : IsFiniteSet(Ahead(s, j)) /\ Rank(s, j) \in Nat /\ j \notin Ahead(s, j)
  <2> SUFFICES ASSUME NEW j \in DOMAIN s
               PROVE  IsFiniteSet(Ahead(s, j)) /\ Rank(s, j) \in Nat /\ j \notin Ahead(s, j)
    OBVIOUS
  <2>1. IsFiniteSet(Ahead(s, j)) BY <1>1, <1>2, FS_Subset
  <2>2. Rank(s, j) \in Nat BY <2>1, FS_CardinalityType DEF Rank
  <2>3. ~ Before(s, j, j) BY BeforeIsOrder
  <2> QED BY <2>1, <2>2, <2>3 DEF Ahead
<1>4. Rank(s, k) \in 0 .. n - 1
  <2> HIDE DEF n
  <2>1. Cardinality(Ahead(s, k)) <= Cardinality(1 .. n) BY <1>1, <1>2, FS_Subset
  <2>2. Cardinality(1 .. n) # Cardinality(Ahead(s, k))
    <3> SUFFICES ASSUME Cardinality(1 .. n) = Cardinality(Ahead(s, k)) PROVE FALSE OBVIOUS
    <3>1. 1 .. n = Ahead(s, k) BY <1>1, <1>2, FS_Subset
    <3> QED BY <1>0, <1>3, <3>1
  <2>3. Rank(s, k) <= n /\ Rank(s, k) # n /\ Rank(s, k) \in Nat
    BY <1>1, <1>3, <2>1, <2>2 DEF Rank
  <2> QED BY <1>0, <2>3
<1>5. ASSUME NEW j \in DOMAIN s, Before(s, j, k) PROVE Rank(s, j) < Rank(s, k)
  <2>1. Ahead(s, j) \in SUBSET Ahead(s, k)
    <3>1. \A i \in DOMAIN s : Before(s, i, j) => Before(s, i, k) BY <1>5, BeforeIsOrder
    <3> QED BY <3>1 DEF Ahead
  <2>2. j \in Ahead(s, k) /\ j \notin Ahead(s, j) BY <1>3, <1>5 DEF Ahead
  <2>3. Cardinality(Ahead(s, j)) <= Cardinality(Ahead(s, k)) BY <1>3, <2>1, FS_Subset
  <2>4. Cardinality(Ahead(s, k)) # Cardinality(Ahead(s, j))
    <3> SUFFICES ASSUME Cardinality(Ahead(s, k)) = Cardinality(Ahead(s, j)) PROVE FALSE
      OBVIOUS
    <3>1. Ahead(s, k) = Ahead(s, j) BY <1>3, <2>1, FS_Subset
    <3> QED BY <2>2, <3>1
  <2>5. Rank(s, j) <= Rank(s, k) /\ Rank(s, k) # Rank(s, j) BY <2>3, <2>4 DEF Rank
  <2> QED BY <1>3, <2>5
<1> QED BY <1>4, <1>5

\* Sorting puts every item somewhere, in order.
SortsWell(s, p) ==
  /\ p \in Bijection(DOMAIN s, DOMAIN s)
  /\ \A i, j \in DOMAIN s : i < j => ~ Precedes(s[p[j]], s[p[i]])

LEMMA SortingSorts ==
  ASSUME NEW s \in Seq(Words)
  PROVE  /\ SortsWell(s, Sorting(s))
         /\ \A i \in DOMAIN s : Rank(s, Sorting(s)[i]) = i - 1
<1> DEFINE n == Len(s)
           D == DOMAIN s
           p == Sorting(s)
           rank == [k \in D |-> Rank(s, k)]
           R == 0 .. n - 1
<1>0. n \in Nat /\ D = 1 .. n OBVIOUS
<1>1. rank \in [D -> R] BY RankFacts
<1>2. ASSUME NEW j \in D, NEW k \in D, Rank(s, j) = Rank(s, k) PROVE j = k
  <2> SUFFICES ASSUME j # k PROVE FALSE OBVIOUS
  <2>1. Before(s, j, k) \/ Before(s, k, j) BY BeforeIsOrder
  <2>2. Rank(s, j) < Rank(s, k) \/ Rank(s, k) < Rank(s, j) BY <2>1, RankFacts
  <2>3. Rank(s, j) \in 0 .. Len(s) - 1 BY RankFacts
  <2> QED BY <1>2, <2>2, <2>3
<1>3. rank \in Injection(D, R)
  <2>1. \A k \in D : rank[k] = Rank(s, k) OBVIOUS
  <2>2. DOMAIN rank = D OBVIOUS
  <2> HIDE DEF rank, D
  <2>3. \A j, k \in D : rank[j] = rank[k] => j = k BY <1>2, <2>1
  <2> QED BY <1>1, <2>2, <2>3, Zenon DEF Injection, IsInjective
<1>4. \A r \in R : \E k \in D : Rank(s, k) = r
  <2>1. IsFiniteSet(R) /\ Cardinality(R) = n
    <3>1. 0 \in Int /\ n - 1 \in Int BY <1>0
    <3>2. IsFiniteSet(0 .. n - 1) /\ Cardinality(0 .. n - 1) = IF 0 > n - 1 THEN 0 ELSE (n - 1) - 0 + 1
      BY <3>1, FS_Interval
    <3> QED BY <1>0, <3>2
  <2>2. Cardinality(D) = n
    <3>1. 1 \in Int /\ n \in Int BY <1>0
    <3>2. Cardinality(1 .. n) = IF 1 > n THEN 0 ELSE n - 1 + 1 BY <3>1, FS_Interval
    <3> QED BY <1>0, <3>2
  <2>3. rank \in Surjection(D, R)
    <3> HIDE DEF rank, D, R
    <3> QED BY <1>3, <2>1, <2>2, FS_Injection
  <2>4. \A k \in D : rank[k] = Rank(s, k) OBVIOUS
  <2> HIDE DEF rank, D, R
  <2> QED BY <2>3, <2>4 DEF Surjection
<1>5. \A i \in D : p[i] = CHOOSE k \in D : Rank(s, k) = i - 1
  BY Zenon DEF Sorting, Rank, Ahead
<1>6. ASSUME NEW i \in D PROVE p[i] \in D /\ Rank(s, p[i]) = i - 1
  <2>1. i - 1 \in R BY <1>0
  <2>2. \E k \in D : Rank(s, k) = i - 1 BY <1>4, <2>1
  <2> HIDE DEF p, D
  <2> QED BY <1>5, <2>2
<1>7. p \in [D -> D]
  <2> DEFINE e(i) == CHOOSE k \in D : Rank(s, k) = i - 1
  <2>2. p = [i \in D |-> e(i)] BY Zenon DEF Sorting, Rank, Ahead
  <2> HIDE DEF p, D, e
  <2>1. p = [i \in D |-> p[i]] BY <2>2
  <2> QED BY <1>6, <2>1
<1>8. \A i, j \in D : p[i] = p[j] => i = j
  <2> SUFFICES ASSUME NEW i \in D, NEW j \in D, p[i] = p[j] PROVE i = j OBVIOUS
  <2>1. i - 1 = j - 1 BY <1>6
  <2>2. i \in Nat /\ j \in Nat BY <1>0
  <2> HIDE DEF p, D
  <2> QED BY <2>1, <2>2
<1>9. \A k \in D : \E i \in D : p[i] = k
  <2> SUFFICES ASSUME NEW k \in D PROVE \E i \in D : p[i] = k OBVIOUS
  <2> DEFINE i == Rank(s, k) + 1
  <2>1. Rank(s, k) \in 0 .. n - 1 BY RankFacts
  <2>2. i \in D /\ i - 1 = Rank(s, k) BY <1>0, <2>1
  <2> HIDE DEF i, p, D
  <2>3. Rank(s, p[i]) = Rank(s, k) /\ p[i] \in D BY <1>6, <2>2
  <2>4. p[i] = k BY <1>2, <2>3
  <2> QED BY <2>2, <2>4
<1>10. p \in Bijection(D, D)
  <2>1. DOMAIN p = D BY <1>7
  <2> HIDE DEF p, D
  <2>2. p \in Injection(D, D) BY <1>7, <1>8, <2>1, Zenon DEF Injection, IsInjective
  <2>3. p \in Surjection(D, D) BY <1>7, <1>9, Zenon DEF Surjection
  <2> QED BY <2>2, <2>3 DEF Bijection
<1>11. ASSUME NEW i \in D, NEW j \in D, i < j PROVE ~ Precedes(s[p[j]], s[p[i]])
  <2> SUFFICES ASSUME Precedes(s[p[j]], s[p[i]]) PROVE FALSE OBVIOUS
  <2>1. p[i] \in D /\ p[j] \in D /\ Rank(s, p[i]) = i - 1 /\ Rank(s, p[j]) = j - 1 BY <1>6
  <2> HIDE DEF p
  <2>2. Before(s, p[j], p[i]) BY DEF Before
  <2>3. Rank(s, p[j]) < Rank(s, p[i]) BY <2>1, <2>2, RankFacts
  <2>4. i \in Nat /\ j \in Nat BY <1>0
  <2> QED BY <1>11, <2>1, <2>3, <2>4
<1> QED BY <1>6, <1>10, <1>11 DEF SortsWell

\* What is in order already stays as it is.
LEMMA SortedStays ==
  ASSUME NEW s \in Seq(Words),
         \A k \in 1 .. Len(s) - 1 : ~ Precedes(s[k + 1], s[k])
  PROVE  \A i \in DOMAIN s : Sorting(s)[i] = i
<1> DEFINE n == Len(s)
           D == DOMAIN s
           p == Sorting(s)
<1>0. n \in Nat /\ D = 1 .. n /\ \A i \in D : s[i] \in Words OBVIOUS
<1>1. ASSUME NEW k \in 1 .. n - 1 PROVE Before(s, k, k + 1)
  <2>1. k \in D /\ k + 1 \in D /\ k < k + 1 BY <1>0
  <2>2. ~ Precedes(s[k + 1], s[k]) OBVIOUS
  <2>3. CASE s[k] = s[k + 1] BY <2>1, <2>3 DEF Before
  <2>4. CASE s[k] # s[k + 1]
    <3>1. Precedes(s[k], s[k + 1]) BY <1>0, <2>1, <2>2, <2>4, PrecedesTotal
    <3> QED BY <3>1 DEF Before
  <2> QED BY <2>3, <2>4
<1> DEFINE T == { i \in Nat : i >= 1 /\ i <= n => Rank(s, i) >= i - 1 }
<1>2. \A i \in D : Rank(s, i) >= i - 1
  <2>1. 0 \in T OBVIOUS
  <2>2. ASSUME NEW i \in Nat, i \in T PROVE i + 1 \in T
    <3> SUFFICES ASSUME i + 1 <= n PROVE Rank(s, i + 1) >= (i + 1) - 1 OBVIOUS
    <3>1. CASE i = 0
      <4>1. i + 1 \in D BY <1>0
      <4>2. Rank(s, i + 1) \in 0 .. Len(s) - 1 BY <4>1, RankFacts
      <4> QED BY <3>1, <4>2
    <3>2. CASE i # 0
      <4>1. i \in 1 .. n - 1 /\ i \in D /\ i + 1 \in D BY <1>0, <3>2
      <4>2. Rank(s, i) < Rank(s, i + 1) BY <1>1, <4>1, RankFacts
      <4>3. Rank(s, i) \in 0 .. Len(s) - 1 /\ Rank(s, i + 1) \in 0 .. Len(s) - 1
        BY <4>1, RankFacts
      <4>4. Rank(s, i) >= i - 1 BY <2>2, <4>1
      <4> QED BY <4>2, <4>3, <4>4
    <3> QED BY <3>1, <3>2
  <2>3. \A i \in Nat : i \in T
    <3> HIDE DEF T
    <3> QED BY <2>1, <2>2, NatInduct
  <2> QED BY <1>0, <2>3
<1> DEFINE U == { i \in Nat : i < n => Rank(s, n - i) <= (n - i) - 1 }
<1>3. \A i \in D : Rank(s, i) <= i - 1
  <2>1. 0 \in U
    <3> SUFFICES ASSUME 0 < n PROVE Rank(s, n - 0) <= (n - 0) - 1 OBVIOUS
    <3>1. n \in D BY <1>0
    <3>2. Rank(s, n) \in 0 .. Len(s) - 1 BY <3>1, RankFacts
    <3>3. n - 0 = n BY <1>0
    <3> QED BY <3>2, <3>3
  <2>2. ASSUME NEW i \in Nat, i \in U PROVE i + 1 \in U
    <3> SUFFICES ASSUME i + 1 < n PROVE Rank(s, n - (i + 1)) <= (n - (i + 1)) - 1 OBVIOUS
    <3> DEFINE k == n - (i + 1)
    <3>1. k \in 1 .. n - 1 /\ k \in D /\ k + 1 \in D /\ k + 1 = n - i BY <1>0
    <3> HIDE DEF k
    <3>2. Rank(s, k) < Rank(s, k + 1) BY <1>1, <3>1, RankFacts
    <3>3. Rank(s, k) \in 0 .. Len(s) - 1 /\ Rank(s, k + 1) \in 0 .. Len(s) - 1
      BY <3>1, RankFacts
    <3>4. Rank(s, n - i) <= (n - i) - 1 BY <1>0, <2>2
    <3>5. Rank(s, k) <= k - 1 BY <3>1, <3>2, <3>3, <3>4
    <3> QED BY <3>5 DEF k
  <2>3. \A i \in Nat : i \in U
    <3> HIDE DEF U
    <3> QED BY <2>1, <2>2, NatInduct
  <2> SUFFICES ASSUME NEW i \in D PROVE Rank(s, i) <= i - 1 OBVIOUS
  <2> DEFINE j == n - i
  <2>4. j \in Nat /\ j < n /\ n - j = i BY <1>0
  <2> HIDE DEF j
  <2>5. Rank(s, n - j) <= (n - j) - 1 BY <2>3, <2>4
  <2> QED BY <2>4, <2>5
<1> SUFFICES ASSUME NEW i \in D PROVE p[i] = i OBVIOUS
<1>4. p[i] \in D
  <2>1. p \in Bijection(D, D) BY SortingSorts DEF SortsWell
  <2> HIDE DEF p, D
  <2>2. p \in [D -> D] BY <2>1 DEF Bijection, Surjection
  <2> QED BY <2>2
<1>5. Rank(s, p[i]) = i - 1 BY SortingSorts
<1> DEFINE k == p[i]
<1> HIDE DEF k
<1>6. k \in D /\ Rank(s, k) = i - 1 BY <1>4, <1>5 DEF k
<1>7. Rank(s, k) >= k - 1 /\ Rank(s, k) <= k - 1 BY <1>2, <1>3, <1>6
<1>8. k = i BY <1>0, <1>6, <1>7
<1> QED BY <1>8 DEF k

-----------------------------------------------------------------------------
(* The encodings of a forest *)

\* A forest of whole elements of blob d.
Forest(d, f) ==
  /\ d \in Seq(Octets) /\ f \in Seq(Nodes)
  /\ \A i \in DOMAIN f : ElementIsWhole(f, i) /\ End(f[i]) <= Len(d)

LEMMA ForestFacts ==
  ASSUME NEW d, NEW f, Forest(d, f), NEW i \in DOMAIN f
  PROVE  /\ f[i] \in Nodes /\ i \in Nat /\ i >= 1 /\ Len(f) \in Nat /\ DOMAIN f = 1 .. Len(f)
         /\ Tagged(f[i]) /\ f[i].kids \in Seq(Nat)
         /\ f[i].offset \in Nat /\ ContentStart(f[i]) \in Nat /\ ContentEnd(f[i]) \in Nat
         /\ f[i].offset <= ContentStart(f[i]) /\ ContentStart(f[i]) <= ContentEnd(f[i])
         /\ ContentEnd(f[i]) <= End(f[i]) /\ End(f[i]) \in Nat /\ End(f[i]) <= Len(d)
         /\ \A k \in DOMAIN f[i].kids : f[i].kids[k] \in DOMAIN f /\ f[i].kids[k] \in 1 .. i - 1
         /\ ~ f[i].constructed => f[i].kids = <<>> /\ ~ f[i].indefinite
<1>1. f[i] \in Nodes /\ i \in Nat /\ i >= 1 /\ Len(f) \in Nat /\ DOMAIN f = 1 .. Len(f)
  BY DEF Forest
<1>2. Tagged(f[i]) /\ f[i].kids \in Seq(Nat) BY <1>1, LimitsAssumption DEF Nodes, Tagged
<1>3. /\ f[i].offset \in Nat /\ ContentStart(f[i]) \in Nat /\ ContentEnd(f[i]) \in Nat
      /\ End(f[i]) \in Nat
      /\ f[i].offset <= ContentStart(f[i]) /\ ContentStart(f[i]) <= ContentEnd(f[i])
      /\ ContentEnd(f[i]) <= End(f[i])
  BY <1>1 DEF Nodes, ContentStart, ContentEnd, End
<1>4. ElementIsWhole(f, i) /\ End(f[i]) <= Len(d) BY DEF Forest
<1>5. ~ f[i].constructed => f[i].kids = <<>> /\ ~ f[i].indefinite BY <1>4 DEF ElementIsWhole
<1>6. ASSUME NEW k \in DOMAIN f[i].kids
      PROVE  f[i].kids[k] \in DOMAIN f /\ f[i].kids[k] \in 1 .. i - 1
  <2>1. f[i].constructed BY <1>5, <1>6
  <2>2. f[i].kids[k] < i /\ f[i].kids[k] \in DOMAIN f
    BY <1>4, <2>1 DEF ElementIsWhole, Tiles
  <2> QED BY <1>1, <2>2
<1> QED BY <1>1, <1>2, <1>3, <1>4, <1>5, <1>6

ContentFrom(g, d, f, i) ==
  IF f[i].constructed
  THEN FlattenSeq(Arranged(f[i], [k \in DOMAIN f[i].kids |-> g[f[i].kids[k]]]))
  ELSE SubSeq(d, ContentStart(f[i]) + 1, ContentEnd(f[i]))

EncodeFrom(g, d, f, i) ==
  EncodeIdentifier(f[i]) \o EncodeLength(Len(ContentFrom(g, d, f, i))) \o ContentFrom(g, d, f, i)

EncodesTo(g, d, f) == g = [i \in DOMAIN f |-> EncodeFrom(g, d, f, i)]

LEMMA EncodeFromSame ==
  ASSUME NEW d, NEW f, NEW i, NEW g, NEW h,
         \A k \in DOMAIN f[i].kids : g[f[i].kids[k]] = h[f[i].kids[k]]
  PROVE  EncodeFrom(g, d, f, i) = EncodeFrom(h, d, f, i)
<1>1. [k \in DOMAIN f[i].kids |-> g[f[i].kids[k]]] = [k \in DOMAIN f[i].kids |-> h[f[i].kids[k]]]
  OBVIOUS
<1>2. ContentFrom(g, d, f, i) = ContentFrom(h, d, f, i) BY <1>1, Zenon DEF ContentFrom
<1> QED BY <1>2, Zenon DEF EncodeFrom

LEMMA EncodingsExist ==
  ASSUME NEW d, NEW f, Forest(d, f)
  PROVE  \E g : EncodesTo(g, d, f)
<1> DEFINE Is(g, n) == \A i \in 1 .. n : g[i] = EncodeFrom(g, d, f, i)
           T == { n \in Nat : n <= Len(f) => \E g : Is(g, n) }
<1>0. Len(f) \in Nat /\ DOMAIN f = 1 .. Len(f) BY DEF Forest
<1>1. 0 \in T OBVIOUS
<1>2. ASSUME NEW n \in Nat, n \in T PROVE n + 1 \in T
  <2> SUFFICES ASSUME n + 1 <= Len(f) PROVE \E g : Is(g, n + 1) OBVIOUS
  <2>1. PICK g : Is(g, n) BY <1>0, <1>2
  <2> DEFINE x == EncodeFrom(g, d, f, n + 1)
             h == [i \in 1 .. n + 1 |-> IF i = n + 1 THEN x ELSE g[i]]
  <2>2. ASSUME NEW i \in 1 .. n + 1 PROVE EncodeFrom(h, d, f, i) = EncodeFrom(g, d, f, i)
    <3>1. i \in DOMAIN f BY <1>0
    <3>2. ASSUME NEW k \in DOMAIN f[i].kids PROVE h[f[i].kids[k]] = g[f[i].kids[k]]
      <4> DEFINE c == f[i].kids[k]
      <4>1. c \in 1 .. i - 1 BY <3>1, ForestFacts
      <4> HIDE DEF c
      <4>2. c \in 1 .. n + 1 /\ c # n + 1 BY <4>1
      <4> HIDE DEF x
      <4> QED BY <4>2 DEF c
    <3> HIDE DEF h
    <3> QED BY <3>2, EncodeFromSame
  <2>3. ASSUME NEW i \in 1 .. n + 1 PROVE h[i] = EncodeFrom(h, d, f, i)
    <3>1. CASE i = n + 1
      <4> HIDE DEF x
      <4>1. h[i] = x BY <3>1
      <4> HIDE DEF h
      <4> QED BY <2>2, <3>1, <4>1 DEF x
    <3>2. CASE i # n + 1
      <4>1. i \in 1 .. n BY <3>2
      <4>2. h[i] = g[i]
        <5> HIDE DEF x
        <5> QED BY <3>2
      <4>3. g[i] = EncodeFrom(g, d, f, i) BY <2>1, <4>1
      <4> HIDE DEF h
      <4> QED BY <2>2, <4>2, <4>3
    <3> QED BY <3>1, <3>2
  <2>4. Is(h, n + 1)
    <3> HIDE DEF h
    <3> QED BY <2>3
  <2> HIDE DEF Is, h
  <2> QED BY <2>4
<1>3. Len(f) \in T
  <2> HIDE DEF T
  <2> QED BY <1>0, <1>1, <1>2, NatInduct
<1>4. PICK g : Is(g, Len(f)) BY <1>0, <1>3
<1> DEFINE h == [i \in DOMAIN f |-> g[i]]
<1>5. ASSUME NEW i \in DOMAIN f PROVE g[i] = EncodeFrom(h, d, f, i)
  <2>1. g[i] = EncodeFrom(g, d, f, i) BY <1>0, <1>4
  <2>2. ASSUME NEW k \in DOMAIN f[i].kids PROVE h[f[i].kids[k]] = g[f[i].kids[k]]
    <3> DEFINE c == f[i].kids[k]
    <3>1. c \in DOMAIN f BY ForestFacts
    <3> HIDE DEF c
    <3> QED BY <3>1 DEF c
  <2> HIDE DEF h
  <2> QED BY <2>1, <2>2, EncodeFromSame
<1>6. EncodesTo(h, d, f)
  <2> DEFINE e(i) == EncodeFrom(h, d, f, i)
  <2>1. h = [i \in DOMAIN f |-> e(i)]
    <3> HIDE DEF e
    <3>1. \A i \in DOMAIN f : g[i] = e(i) BY <1>5 DEF e
    <3> QED BY <3>1
  <2> HIDE DEF h
  <2> QED BY <2>1 DEF EncodesTo
<1> QED BY <1>6

LEMMA EncodingsAre ==
  ASSUME NEW d, NEW f, Forest(d, f)
  PROVE  \A i \in DOMAIN f : Encodings(d, f)[i] = EncodeFrom(Encodings(d, f), d, f, i)
<1> DEFINE E == Encodings(d, f)
<1>1. E = CHOOSE g : EncodesTo(g, d, f)
  BY Zenon DEF Encodings, EncodesTo, EncodeFrom, ContentFrom
<1>2. EncodesTo(E, d, f) BY <1>1, EncodingsExist, Zenon
<1> HIDE DEF E
<1>3. \A i \in DOMAIN f : E[i] = EncodeFrom(E, d, f, i) BY <1>2, Zenon DEF EncodesTo
<1> QED BY <1>3 DEF E

\* The encodings of the nodes that seq names.
Codes(d, f, seq) == [k \in DOMAIN seq |-> Encodings(d, f)[seq[k]]]

\* The children of node i in the order in which they are written.
Line(d, f, i) ==
  [k \in DOMAIN f[i].kids |->
     IF IsSet(f[i]) THEN f[i].kids[Sorting(Codes(d, f, f[i].kids))[k]] ELSE f[i].kids[k]]

Content(d, f, i) == ContentFrom(Encodings(d, f), d, f, i)

LEMMA EncodingParts ==
  ASSUME NEW d, NEW f, Forest(d, f), NEW i \in DOMAIN f
  PROVE  /\ Encodings(d, f)[i] = EncodeIdentifier(f[i]) \o EncodeLength(Len(Content(d, f, i)))
                                   \o Content(d, f, i)
         /\ f[i].constructed =>
              Content(d, f, i) = FlattenSeq(Arranged(f[i], Codes(d, f, f[i].kids)))
         /\ ~ f[i].constructed =>
              Content(d, f, i) = SubSeq(d, ContentStart(f[i]) + 1, ContentEnd(f[i]))
BY EncodingsAre, Zenon DEF Content, EncodeFrom, ContentFrom, Codes

LEMMA SeqOfMore ==
  ASSUME NEW S, NEW T, S \subseteq T, NEW s \in Seq(S)
  PROVE  s \in Seq(T)
<1>1. Len(s) \in Nat /\ s = [i \in 1 .. Len(s) |-> s[i]] OBVIOUS
<1>2. \A i \in 1 .. Len(s) : s[i] \in T BY ItemIn
<1> QED BY <1>1, <1>2

LEMMA LengthIsWord ==
  ASSUME NEW len \in Nat
  PROVE  EncodeLength(len) \in Words
<1> DEFINE D == Digits(len, 256)
           w == EncodeLength(len)
           b == 256
<1>1. D \in Seq(Nat)
  <2>1. DigitsOf(D, len, b) BY LengthDigits
  <2>2. D \in Seq(0 .. b - 1) BY <2>1, Zenon DEF DigitsOf
  <2>3. 0 .. b - 1 \subseteq Nat OBVIOUS
  <2> HIDE DEF D, b
  <2> QED BY <2>2, <2>3, SeqOfMore
<1>2. w = IF len < 128 THEN <<len>> ELSE <<128 + Len(D)>> \o D BY Zenon DEF EncodeLength
<1> HIDE DEF D, w
<1>3. CASE len < 128
  <2>1. w = <<len>> BY <1>2, <1>3, Zenon
  <2> QED BY <2>1 DEF w, Words
<1>4. CASE ~ (len < 128)
  <2> DEFINE x == 128 + Len(D)
  <2>1. x \in Nat BY <1>1
  <2>2. w = <<x>> \o D BY <1>2, <1>4, Zenon
  <2> HIDE DEF x
  <2>3. w \in Seq(Nat) BY <1>1, <2>1, <2>2
  <2> QED BY <2>3 DEF w, Words
<1> QED BY <1>3, <1>4

\* What a permuted sequence of nodes encodes to.
LEMMA LineOf ==
  ASSUME NEW d, NEW f, Forest(d, f), NEW i \in DOMAIN f,
         Codes(d, f, f[i].kids) \in Seq(Words)
  PROVE  /\ Arranged(f[i], Codes(d, f, f[i].kids)) = Codes(d, f, Line(d, f, i))
         /\ Codes(d, f, Line(d, f, i)) \in Seq(Words)
         /\ Line(d, f, i) \in Seq(DOMAIN f)
         /\ Len(Line(d, f, i)) = Len(f[i].kids)
         /\ DOMAIN Line(d, f, i) = DOMAIN f[i].kids
         /\ DOMAIN Codes(d, f, Line(d, f, i)) = DOMAIN f[i].kids
         /\ \A k \in DOMAIN f[i].kids :
              Codes(d, f, Line(d, f, i))[k] = Encodings(d, f)[Line(d, f, i)[k]]
<1> DEFINE kids == f[i].kids
           E == Encodings(d, f)
           c == Codes(d, f, kids)
           p == Sorting(c)
           line == Line(d, f, i)
           n == Len(kids)
           D == 1 .. n
           z == IsSet(f[i])
           x(k) == IF z THEN kids[p[k]] ELSE kids[k]
           cl == Codes(d, f, line)
           a == Arranged(f[i], c)
<1>1. n \in Nat /\ DOMAIN kids = D /\ \A k \in D : kids[k] \in DOMAIN f
  <2>1. kids \in Seq(Nat) /\ \A k \in DOMAIN kids : kids[k] \in DOMAIN f BY ForestFacts
  <2> HIDE DEF kids
  <2> QED BY <2>1
<1>2. c \in Seq(Words) /\ c = [k \in DOMAIN kids |-> E[kids[k]]] BY Zenon DEF Codes
<1>3. line = [k \in DOMAIN kids |-> x(k)] BY Zenon DEF Line
<1>4. cl = [k \in DOMAIN line |-> E[line[k]]] BY Zenon DEF Codes
<1>5. a = IF z THEN [k \in DOMAIN c |-> c[p[k]]] ELSE c BY Zenon DEF Arranged
<1>6. SortsWell(c, p) BY <1>2, SortingSorts
<1> HIDE DEF kids, E, c, p, line, cl, a, z
<1>7. DOMAIN c = D /\ \A k \in D : c[k] = E[kids[k]] /\ c[k] \in Words
  <2>1. DOMAIN c = D /\ \A k \in D : c[k] = E[kids[k]]
    <3> HIDE DEF n
    <3> QED BY <1>1, <1>2
  <2>2. Len(c) = n BY <1>1, <1>2, <2>1
  <2> QED BY <1>2, <2>1, <2>2, ItemIn
<1>8. \A k \in D : p[k] \in D
  <2>1. p \in [D -> D] BY <1>6, <1>7 DEF SortsWell, Bijection, Injection
  <2> QED BY <2>1
<1>9. \A k \in D : x(k) \in DOMAIN f BY <1>1, <1>8
<1>10. DOMAIN line = D /\ \A k \in D : line[k] = x(k) BY <1>1, <1>3
<1>11. line \in Seq(DOMAIN f) /\ Len(line) = n
  <2>1. line = [k \in D |-> x(k)] BY <1>1, <1>3
  <2> HIDE DEF x, n
  <2> QED BY <1>1, <1>9, <2>1
<1>12. DOMAIN cl = D /\ \A k \in D : cl[k] = E[x(k)] BY <1>4, <1>10
<1>13. \A k \in D : E[x(k)] = (IF z THEN c[p[k]] ELSE c[k]) BY <1>7, <1>8
<1>14. \A k \in D : cl[k] \in Words BY <1>7, <1>8, <1>12, <1>13
<1>15. cl \in Seq(Words)
  <2>1. cl = [k \in 1 .. n |-> cl[k]] BY <1>4, <1>10
  <2> HIDE DEF n
  <2> QED BY <1>1, <1>14, <2>1
<1>16. a = cl
  <2>1. cl = [k \in D |-> E[x(k)]] 
    <3>1. cl = [k \in D |-> E[line[k]]] BY <1>4, <1>10
    <3> HIDE DEF x
    <3> QED BY <3>1, <1>10
  <2>2. CASE z
    <3>1. a = [k \in D |-> c[p[k]]] BY <1>5, <1>7, <2>2
    <3>2. \A k \in D : E[x(k)] = c[p[k]] BY <1>13, <2>2
    <3> HIDE DEF x
    <3> QED BY <2>1, <3>1, <3>2
  <2>3. CASE ~ z
    <3>1. a = c BY <1>5, <2>3
    <3>2. c = [k \in D |-> E[kids[k]]] BY <1>1, <1>2
    <3>3. \A k \in D : E[x(k)] = E[kids[k]] BY <2>3
    <3> HIDE DEF x
    <3> QED BY <2>1, <3>1, <3>2, <3>3
  <2> QED BY <2>2, <2>3
<1>17. \A k \in D : cl[k] = E[line[k]] BY <1>4, <1>10
<1> QED BY <1>1, <1>10, <1>11, <1>12, <1>15, <1>16, <1>17 DEF cl, a, c, kids, line, E

LEMMA EncodingsAreWords ==
  ASSUME NEW d, NEW f, Forest(d, f)
  PROVE  \A i \in DOMAIN f : Encodings(d, f)[i] \in Words /\ Content(d, f, i) \in Words
<1> DEFINE Fine(i) == Encodings(d, f)[i] \in Words /\ Content(d, f, i) \in Words
           T == { i \in Nat : i \in DOMAIN f => Fine(i) }
<1>1. ASSUME NEW i \in Nat, \A m \in 0 .. i - 1 : m \in T PROVE i \in T
  <2> SUFFICES ASSUME i \in DOMAIN f PROVE Fine(i) OBVIOUS
  <2> DEFINE kids == f[i].kids
             c == Codes(d, f, kids)
  <2>1. Content(d, f, i) \in Seq(Nat)
    <3>1. CASE f[i].constructed
      <4>1. kids \in Seq(Nat) /\ \A k \in DOMAIN kids : kids[k] \in DOMAIN f /\ kids[k] \in 1 .. i - 1
        BY ForestFacts
      <4>2. \A k \in DOMAIN kids : Encodings(d, f)[kids[k]] \in Words BY <1>1, <4>1
      <4>3. c \in Seq(Words)
        <5>1. c = [k \in DOMAIN kids |-> Encodings(d, f)[kids[k]]] BY Zenon DEF Codes
        <5> HIDE DEF c, kids
        <5>2. Len(kids) \in Nat /\ DOMAIN kids = 1 .. Len(kids) BY <4>1
        <5> QED BY <4>2, <5>1, <5>2
      <4> HIDE DEF c, kids
      <4>4. Codes(d, f, Line(d, f, i)) \in Seq(Words)
            /\ Content(d, f, i) = FlattenSeq(Codes(d, f, Line(d, f, i)))
        BY <3>1, <4>3, LineOf, EncodingParts DEF c, kids
      <4> QED BY <4>4, FlattenIsCut DEF Words
    <3>2. CASE ~ f[i].constructed
      <4>1. Content(d, f, i) = SubSeq(d, ContentStart(f[i]) + 1, ContentEnd(f[i]))
        BY <3>2, EncodingParts
      <4>2. d \in Seq(Octets) BY DEF Forest
      <4>3. d \in Seq(Nat)
        <5>1. Octets \subseteq Nat BY DEF Octets
        <5> QED BY <4>2, <5>1, SeqOfMore
      <4>4. ContentStart(f[i]) \in Nat /\ ContentEnd(f[i]) \in Nat /\ ContentEnd(f[i]) <= Len(d)
        BY ForestFacts
      <4> QED BY <4>1, <4>3, <4>4
    <3> QED BY <3>1, <3>2
  <2> HIDE DEF kids, c
  <2> DEFINE w == Content(d, f, i)
             I == EncodeIdentifier(f[i])
             L == EncodeLength(Len(w))
  <2>2. I \in Seq(Nat)
    <3>1. I \in Seq(Octets) BY ForestFacts, IdentifierOctets DEF IdentifierForm
    <3>2. Octets \subseteq Nat BY DEF Octets
    <3> HIDE DEF I
    <3> QED BY <3>1, <3>2, SeqOfMore
  <2>3. L \in Seq(Nat)
    <3>1. Len(w) \in Nat BY <2>1
    <3> QED BY <3>1, LengthIsWord DEF Words
  <2>4. Encodings(d, f)[i] = I \o L \o w BY EncodingParts
  <2> HIDE DEF w, I, L
  <2> QED BY <2>1, <2>2, <2>3, <2>4 DEF w, Words
<1>2. \A i \in Nat : i \in T
  <2> HIDE DEF T
  <2> QED BY <1>1, StrongInduct
<1>3. \A i \in DOMAIN f : i \in Nat BY ForestFacts
<1> QED BY <1>2, <1>3

\* A node is written as an identifier, a length and the content, and the content
\* of a constructed node as the nodes of its line.
LEMMA LineParts ==
  ASSUME NEW d, NEW f, Forest(d, f), NEW i \in DOMAIN f
  PROVE  /\ Codes(d, f, Line(d, f, i)) \in Seq(Words)
         /\ Line(d, f, i) \in Seq(DOMAIN f)
         /\ Len(Line(d, f, i)) = Len(f[i].kids)
         /\ DOMAIN Line(d, f, i) = DOMAIN f[i].kids
         /\ Len(Codes(d, f, Line(d, f, i))) = Len(f[i].kids)
         /\ DOMAIN Codes(d, f, Line(d, f, i)) = DOMAIN f[i].kids
         /\ \A k \in DOMAIN f[i].kids :
              Codes(d, f, Line(d, f, i))[k] = Encodings(d, f)[Line(d, f, i)[k]]
         /\ f[i].constructed => Content(d, f, i) = FlattenSeq(Codes(d, f, Line(d, f, i)))
         /\ Codes(d, f, f[i].kids) \in Seq(Words)
<1> DEFINE kids == f[i].kids
           c == Codes(d, f, kids)
<1>1. kids \in Seq(Nat) /\ \A k \in DOMAIN kids : kids[k] \in DOMAIN f BY ForestFacts
<1>2. \A k \in DOMAIN kids : Encodings(d, f)[kids[k]] \in Words BY <1>1, EncodingsAreWords
<1>3. c \in Seq(Words)
  <2>1. c = [k \in DOMAIN kids |-> Encodings(d, f)[kids[k]]] BY Zenon DEF Codes
  <2> HIDE DEF c, kids
  <2>2. Len(kids) \in Nat /\ DOMAIN kids = 1 .. Len(kids) BY <1>1
  <2> QED BY <1>2, <2>1, <2>2
<1>4. Codes(d, f, f[i].kids) \in Seq(Words) BY <1>3
<1> HIDE DEF kids, c
<1>5. /\ Codes(d, f, Line(d, f, i)) \in Seq(Words)
      /\ Line(d, f, i) \in Seq(DOMAIN f)
      /\ Len(Line(d, f, i)) = Len(f[i].kids)
      /\ DOMAIN Line(d, f, i) = DOMAIN f[i].kids
      /\ DOMAIN Codes(d, f, Line(d, f, i)) = DOMAIN f[i].kids
      /\ \A k \in DOMAIN f[i].kids :
              Codes(d, f, Line(d, f, i))[k] = Encodings(d, f)[Line(d, f, i)[k]]
      /\ f[i].constructed => Content(d, f, i) = FlattenSeq(Codes(d, f, Line(d, f, i)))
  BY <1>4, LineOf, EncodingParts
<1>6. Len(Codes(d, f, Line(d, f, i))) = Len(f[i].kids)
  <2> DEFINE u == Codes(d, f, Line(d, f, i))
             n == Len(f[i].kids)
  <2>1. n \in Nat /\ DOMAIN f[i].kids = 1 .. n BY <1>1 DEF kids
  <2>2. u \in Seq(Words) /\ DOMAIN u = 1 .. n BY <1>5, <2>1
  <2> HIDE DEF u, n
  <2>3. Len(u) = n BY <2>1, <2>2
  <2> QED BY <2>3 DEF u, n
<1> QED BY <1>4, <1>5, <1>6

\* Where the children of a constructed node start in its content.
Cut(d, f, i) == CHOOSE at : CutAt(Content(d, f, i), at, Codes(d, f, Line(d, f, i)))

LEMMA CutIs ==
  ASSUME NEW d, NEW f, Forest(d, f), NEW i \in DOMAIN f, f[i].constructed
  PROVE  CutAt(Content(d, f, i), Cut(d, f, i), Codes(d, f, Line(d, f, i)))
<1>1. \E at : CutAt(Content(d, f, i), at, Codes(d, f, Line(d, f, i)))
  BY LineParts, FlattenIsCut DEF Words
<1> QED BY <1>1, Zenon DEF Cut

LEMMA CutFacts ==
  ASSUME NEW w \in Words, NEW seqs \in Seq(Words), NEW at, CutAt(w, at, seqs)
  PROVE  /\ at[0] = 0 /\ at[Len(seqs)] = Len(w) /\ Len(seqs) \in Nat /\ Len(w) \in Nat
         /\ \A k \in 0 .. Len(seqs) : at[k] \in Nat /\ at[k] <= Len(w)
         /\ \A k \in 1 .. Len(seqs) :
              /\ at[k] = at[k - 1] + Len(seqs[k]) /\ Len(seqs[k]) \in Nat
              /\ Stands(w, at[k - 1], seqs[k])
<1> DEFINE n == Len(seqs)
<1>1. n \in Nat /\ Len(w) \in Nat /\ \A k \in 1 .. n : seqs[k] \in Words /\ Len(seqs[k]) \in Nat
  BY DEF Words
<1>2. /\ at \in [0 .. n -> Nat] /\ at[0] = 0 /\ at[n] = Len(w)
      /\ \A k \in 1 .. n : at[k] = at[k - 1] + Len(seqs[k])
      /\ \A k \in 1 .. n : Stands(w, at[k - 1], seqs[k])
  BY DEF CutAt, IsCut
<1> HIDE DEF n
<1>3. ASSUME NEW k \in 0 .. n PROVE at[k] \in Nat /\ at[k] <= Len(w)
  <2>1. at[k] \in Nat BY <1>2
  <2>2. CASE k = 0 BY <1>1, <1>2, <2>1, <2>2
  <2>3. CASE k # 0
    <3>1. k \in 1 .. n BY <1>1, <2>3
    <3>2. at[k - 1] + Len(seqs[k]) <= Len(w) BY <1>2, <3>1 DEF Stands
    <3> QED BY <1>2, <2>1, <3>1, <3>2
  <2> QED BY <2>2, <2>3
<1> QED BY <1>1, <1>2, <1>3 DEF n

LEMMA EncodingLength ==
  ASSUME NEW d, NEW f, Forest(d, f), NEW i \in DOMAIN f
  PROVE  /\ Len(Encodings(d, f)[i]) = Len(EncodeIdentifier(f[i]))
                + Len(EncodeLength(Len(Content(d, f, i)))) + Len(Content(d, f, i))
         /\ Len(EncodeIdentifier(f[i])) \in Nat /\ Len(EncodeIdentifier(f[i])) >= 1
         /\ Len(EncodeLength(Len(Content(d, f, i)))) \in Nat
         /\ Len(Content(d, f, i)) \in Nat /\ Len(Encodings(d, f)[i]) \in Nat
         /\ EncodeIdentifier(f[i]) \in Seq(Octets) /\ EncodeIdentifier(f[i]) \in Words
         /\ EncodeLength(Len(Content(d, f, i))) \in Words
<1> DEFINE w == Content(d, f, i)
           I == EncodeIdentifier(f[i])
           L == EncodeLength(Len(w))
           e == Encodings(d, f)[i]
<1>1. I \in Seq(Octets) /\ Len(I) >= 1
  BY ForestFacts, IdentifierOctets DEF IdentifierForm
<1>2. w \in Words /\ e \in Words BY EncodingsAreWords
<1>3. e = I \o L \o w BY EncodingParts
<1>4. Len(w) \in Nat BY <1>2 DEF Words
<1>5. L \in Words BY <1>4, LengthIsWord
<1>6. I \in Words
  <2>1. Octets \subseteq Nat BY DEF Octets
  <2> HIDE DEF I
  <2> QED BY <1>1, <2>1, SeqOfMore DEF Words
<1> HIDE DEF w, I, L, e
<1>7. Len(e) = Len(I) + Len(L) + Len(w) /\ Len(I) \in Nat /\ Len(L) \in Nat /\ Len(e) \in Nat
  BY <1>2, <1>3, <1>5, <1>6 DEF Words
<1> QED BY <1>1, <1>4, <1>5, <1>6, <1>7 DEF w, I, L, e

\* What fits usize is made of octets, and so are its parts.
LEMMA EncodingsAreOctets ==
  ASSUME NEW d, NEW f, Forest(d, f)
  PROVE  \A i \in DOMAIN f : Len(Encodings(d, f)[i]) <= UsizeMax =>
           /\ Encodings(d, f)[i] \in Seq(Octets)
           /\ Content(d, f, i) \in Seq(Octets)
           /\ Len(Content(d, f, i)) \in Nat /\ Len(Content(d, f, i)) <= UsizeMax
           /\ \A k \in DOMAIN f[i].kids : f[i].constructed =>
                Len(Encodings(d, f)[Line(d, f, i)[k]]) <= UsizeMax
<1> DEFINE Small(i) == Len(Encodings(d, f)[i]) <= UsizeMax
           Fine(i) == /\ Encodings(d, f)[i] \in Seq(Octets)
                      /\ Content(d, f, i) \in Seq(Octets)
                      /\ Len(Content(d, f, i)) \in Nat /\ Len(Content(d, f, i)) <= UsizeMax
                      /\ \A k \in DOMAIN f[i].kids : f[i].constructed =>
                                                       Small(Line(d, f, i)[k])
           T == { i \in Nat : i \in DOMAIN f /\ Small(i) => Fine(i) }
<1>0. UsizeMax \in Nat BY LimitsAssumption
<1>1. ASSUME NEW i \in Nat, \A m \in 0 .. i - 1 : m \in T PROVE i \in T
  <2> SUFFICES ASSUME i \in DOMAIN f, Small(i) PROVE Fine(i) OBVIOUS
  <2> DEFINE w == Content(d, f, i)
             I == EncodeIdentifier(f[i])
             L == EncodeLength(Len(w))
             c == Codes(d, f, Line(d, f, i))
             n == Len(f[i].kids)
  <2>1. Len(w) \in Nat /\ Len(w) <= UsizeMax
    BY <1>0, EncodingLength
  <2>2. L \in Seq(Octets) BY <2>1, LengthOctetsForm DEF LengthForm
  <2>3. I \in Seq(Octets) BY EncodingLength
  <2>4. ASSUME f[i].constructed
        PROVE  w \in Seq(Octets) /\ \A k \in DOMAIN f[i].kids : Small(Line(d, f, i)[k])
    <3>1. /\ c \in Seq(Words) /\ Len(c) = n /\ DOMAIN f[i].kids = 1 .. n
          /\ Line(d, f, i) \in Seq(DOMAIN f) /\ Len(Line(d, f, i)) = n
          /\ \A k \in DOMAIN f[i].kids : c[k] = Encodings(d, f)[Line(d, f, i)[k]]
          /\ w = FlattenSeq(c)
      <4>1. f[i].kids \in Seq(Nat) BY ForestFacts
      <4>2. DOMAIN f[i].kids = 1 .. n BY <4>1
      <4> QED BY <2>4, <4>2, LineParts
    <3>2. CutAt(w, Cut(d, f, i), c) /\ w \in Words BY <2>4, CutIs, EncodingsAreWords
    <3>3. \A k \in 1 .. n : Line(d, f, i)[k] \in DOMAIN f BY <3>1, ItemIn
    <3>4. \A k \in 1 .. n : Line(d, f, i)[k] \in 0 .. i - 1
      <4>1. ASSUME NEW k \in 1 .. n PROVE Line(d, f, i)[k] \in 0 .. i - 1
        <5>1. \A j \in DOMAIN f[i].kids : f[i].kids[j] \in 1 .. i - 1 BY ForestFacts
        <5>2. Line(d, f, i)[k] = f[i].kids[k]
              \/ Line(d, f, i)[k] = f[i].kids[Sorting(Codes(d, f, f[i].kids))[k]]
          BY <3>1 DEF Line
        <5>3. Codes(d, f, f[i].kids) \in Seq(Words) BY LineParts
        <5>4. Sorting(Codes(d, f, f[i].kids))
                \in [DOMAIN Codes(d, f, f[i].kids) -> DOMAIN Codes(d, f, f[i].kids)]
          BY <5>3, SortingSorts DEF SortsWell, Bijection, Injection
        <5>5. DOMAIN Codes(d, f, f[i].kids) = DOMAIN f[i].kids BY DEF Codes
        <5>6. Sorting(Codes(d, f, f[i].kids))[k] \in DOMAIN f[i].kids BY <3>1, <5>4, <5>5
        <5>7. Line(d, f, i)[k] \in 1 .. i - 1 BY <3>1, <5>1, <5>2, <5>6
        <5> QED BY <5>7
      <4> QED BY <4>1
    <3> HIDE DEF w, c, n
    <3>5. ASSUME NEW k \in 1 .. n PROVE Small(Line(d, f, i)[k]) /\ c[k] \in Seq(Octets)
      <4>1. /\ Cut(d, f, i)[k] \in Nat /\ Cut(d, f, i)[k] <= Len(w)
            /\ Cut(d, f, i)[k] = Cut(d, f, i)[k - 1] + Len(c[k]) /\ Len(c[k]) \in Nat
            /\ Cut(d, f, i)[k - 1] \in Nat
        <5>1. n \in Nat BY <3>1
        <5>2. k \in 0 .. n /\ k - 1 \in 0 .. n BY <5>1
        <5> QED BY <3>1, <3>2, <5>2, CutFacts
      <4>2. Len(c[k]) <= UsizeMax BY <1>0, <2>1, <4>1
      <4>3. Small(Line(d, f, i)[k]) BY <3>1, <4>2
      <4>4. Fine(Line(d, f, i)[k]) BY <1>1, <3>3, <3>4, <4>3
      <4> QED BY <3>1, <4>3, <4>4
    <3>6. c \in Seq(Seq(Octets))
      <4>1. c = [k \in 1 .. Len(c) |-> c[k]] /\ Len(c) \in Nat BY <3>1
      <4> HIDE DEF Small
      <4> DEFINE Q == Seq(Octets)
      <4>2. \A k \in 1 .. n : c[k] \in Q BY <3>5
      <4> HIDE DEF Q
      <4>3. c \in Seq(Q) BY <3>1, <4>1, <4>2
      <4> QED BY <4>3 DEF Q
    <3>7. w \in Seq(Octets) BY <3>1, <3>6, FlattenIsCut
    <3> QED BY <3>1, <3>5, <3>7
  <2>5. ASSUME ~ f[i].constructed PROVE w \in Seq(Octets)
    <3>1. w = SubSeq(d, ContentStart(f[i]) + 1, ContentEnd(f[i])) BY <2>5, EncodingParts
    <3>2. d \in Seq(Octets) BY DEF Forest
    <3>3. ContentStart(f[i]) \in Nat /\ ContentEnd(f[i]) \in Nat /\ ContentEnd(f[i]) <= Len(d)
      BY ForestFacts
    <3> HIDE DEF w
    <3> QED BY <3>1, <3>2, <3>3
  <2>6. Encodings(d, f)[i] = I \o L \o w BY EncodingParts
  <2> HIDE DEF w, I, L, c, n, Small
  <2>7. w \in Seq(Octets) BY <2>4, <2>5
  <2>8. I \o L \o w \in Seq(Octets) BY <2>2, <2>3, <2>7
  <2> QED BY <2>1, <2>4, <2>6, <2>7, <2>8 DEF w
<1>2. \A i \in Nat : i \in T
  <2> HIDE DEF T
  <2> QED BY <1>1, StrongInduct
<1>3. \A i \in DOMAIN f : i \in Nat BY ForestFacts
<1> QED BY <1>2, <1>3

-----------------------------------------------------------------------------
(* Headers in a blob *)

LEMMA SameIdentifier ==
  ASSUME NEW m, NEW n, m.class = n.class, m.constructed = n.constructed, m.tag = n.tag
  PROVE  EncodeIdentifier(m) = EncodeIdentifier(n)
BY Zenon DEF EncodeIdentifier

\* The octets of an identifier, one by one.
IdentifierAt(d, o, n) ==
  /\ d[o + 1] = FirstOctet(n)
  /\ ~ (n.tag < 31) =>
       \A k \in 1 .. Len(Digits(n.tag, 128)) :
         d[o + 1 + k] = Digits(n.tag, 128)[k] + (IF k < Len(Digits(n.tag, 128)) THEN 128 ELSE 0)

LEMMA IdentifierStands ==
  ASSUME NEW d \in Seq(Octets), NEW o \in Nat, NEW n, Tagged(n)
  PROVE  /\ Stands(d, o, EncodeIdentifier(n)) <=>
              o + Len(EncodeIdentifier(n)) <= Len(d) /\ IdentifierAt(d, o, n)
         /\ Len(EncodeIdentifier(n)) \in Nat
         /\ n.tag < 31 => Len(EncodeIdentifier(n)) = 1
         /\ ~ (n.tag < 31) => /\ Len(EncodeIdentifier(n)) = 1 + Len(Digits(n.tag, 128))
                              /\ Len(Digits(n.tag, 128)) \in Nat
                              /\ Len(Digits(n.tag, 128)) >= 1
<1> DEFINE w == EncodeIdentifier(n)
           D == Digits(n.tag, 128)
           l == Len(D)
           x(k) == D[k] + (IF k < l THEN 128 ELSE 0)
<1>1. /\ w \in Seq(Octets) /\ Len(w) >= 1 /\ w[1] = FirstOctet(n)
      /\ n.tag < 31 => Len(w) = 1
      /\ ~ (n.tag < 31) => Len(w) = 1 + l /\ \A k \in 1 .. l : w[1 + k] = x(k)
  BY IdentifierOctets, Zenon DEF IdentifierForm
<1>2. l \in Nat /\ l >= 1
  <2>1. n.tag \in Nat BY DEF Tagged
  <2>2. DigitsOf(D, n.tag, 128) BY <2>1, TagDigits
  <2>3. D \in Seq(0 .. 128 - 1) /\ l >= 1 BY <2>2, Zenon DEF DigitsOf
  <2> QED BY <2>3
<1>3. Len(w) \in Nat BY <1>1
<1>4. Stands(d, o, w) <=> o + Len(w) <= Len(d) /\ \A m \in 1 .. Len(w) : d[o + m] = w[m]
  BY Zenon DEF Stands
<1>5. IdentifierAt(d, o, n) <=>
        /\ d[o + 1] = FirstOctet(n)
        /\ ~ (n.tag < 31) => \A k \in 1 .. l : d[o + 1 + k] = x(k)
  BY Zenon DEF IdentifierAt
<1> HIDE DEF w, D, l, x
<1>6. ASSUME \A m \in 1 .. Len(w) : d[o + m] = w[m] PROVE IdentifierAt(d, o, n)
  <2>1. d[o + 1] = w[1]
    <3>1. 1 \in 1 .. Len(w) BY <1>1, <1>3
    <3> QED BY <1>6, <3>1
  <2>2. ASSUME ~ (n.tag < 31), NEW k \in 1 .. l PROVE d[o + 1 + k] = x(k)
    <3>1. 1 + k \in 1 .. Len(w) BY <1>1, <1>2, <2>2
    <3>2. d[o + (1 + k)] = w[1 + k] BY <1>6, <3>1
    <3>3. o + (1 + k) = o + 1 + k OBVIOUS
    <3> QED BY <1>1, <2>2, <3>2, <3>3
  <2> QED BY <1>1, <1>5, <2>1, <2>2
<1>7. ASSUME IdentifierAt(d, o, n), NEW m \in 1 .. Len(w) PROVE d[o + m] = w[m]
  <2>1. CASE m = 1 BY <1>1, <1>5, <1>7, <2>1
  <2>2. CASE m # 1
    <3>1. ~ (n.tag < 31)
      <4>1. m \in 1 .. Len(w) BY <1>7
      <4>2. ASSUME Len(w) = 1 PROVE FALSE
        <5>1. m = 1 BY <4>1, <4>2
        <5> QED BY <2>2, <5>1
      <4> QED BY <1>1, <4>2
    <3> DEFINE k == m - 1
    <3>2. k \in 1 .. l /\ 1 + k = m /\ o + 1 + k = o + m BY <1>1, <1>2, <2>2, <3>1
    <3> HIDE DEF k
    <3>3. d[o + 1 + k] = x(k) /\ w[1 + k] = x(k) BY <1>1, <1>5, <1>7, <3>1, <3>2
    <3> QED BY <3>2, <3>3
  <2> QED BY <2>1, <2>2
<1>8. Stands(d, o, w) <=> o + Len(w) <= Len(d) /\ IdentifierAt(d, o, n)
  BY <1>4, <1>6, <1>7
<1>9. /\ n.tag < 31 => Len(w) = 1
      /\ ~ (n.tag < 31) => Len(w) = 1 + l
  BY <1>1
<1> QED BY <1>2, <1>3, <1>8, <1>9 DEF w, l, D

LengthAt(d, o, len) ==
  /\ len < 128 => d[o + 1] = len
  /\ ~ (len < 128) =>
       /\ d[o + 1] = 128 + Len(Digits(len, 256))
       /\ \A k \in 1 .. Len(Digits(len, 256)) : d[o + 1 + k] = Digits(len, 256)[k]

LEMMA LengthStands ==
  ASSUME NEW d \in Seq(Octets), NEW o \in Nat, NEW len \in Nat,
         len < 128 \/ len <= UsizeMax
  PROVE  /\ Stands(d, o, EncodeLength(len)) <=>
              o + Len(EncodeLength(len)) <= Len(d) /\ LengthAt(d, o, len)
         /\ Len(EncodeLength(len)) \in Nat
         /\ len < 128 => Len(EncodeLength(len)) = 1
         /\ ~ (len < 128) => /\ Len(EncodeLength(len)) = 1 + Len(Digits(len, 256))
                             /\ Len(Digits(len, 256)) \in 1 .. MaxLengthOctets
<1> DEFINE w == EncodeLength(len)
           D == Digits(len, 256)
           l == Len(D)
<1>1. /\ w \in Seq(Octets) /\ Len(w) >= 1
      /\ len < 128 => w = <<len>>
      /\ ~ (len < 128) =>
           /\ l \in 1 .. MaxLengthOctets
           /\ Len(w) = 1 + l /\ w[1] = 128 + l
           /\ \A k \in 1 .. l : w[1 + k] = D[k]
  BY LengthOctetsForm, Zenon DEF LengthForm
<1>2. MaxLengthOctets \in Nat BY LimitsAssumption
<1>3. Len(w) \in Nat BY <1>1
<1>4. Stands(d, o, w) <=> o + Len(w) <= Len(d) /\ \A m \in 1 .. Len(w) : d[o + m] = w[m]
  BY Zenon DEF Stands
<1>5. LengthAt(d, o, len) <=>
        /\ len < 128 => d[o + 1] = len
        /\ ~ (len < 128) => d[o + 1] = 128 + l /\ \A k \in 1 .. l : d[o + 1 + k] = D[k]
  BY Zenon DEF LengthAt
<1> HIDE DEF w, D, l
<1>6. ASSUME len < 128
      PROVE  Len(w) = 1 /\ w[1] = len
  BY <1>1, <1>6
<1>7. ASSUME \A m \in 1 .. Len(w) : d[o + m] = w[m] PROVE LengthAt(d, o, len)
  <2>1. d[o + 1] = w[1]
    <3>1. 1 \in 1 .. Len(w) BY <1>1, <1>3
    <3> QED BY <1>7, <3>1
  <2>2. ASSUME ~ (len < 128), NEW k \in 1 .. l PROVE d[o + 1 + k] = D[k]
    <3>1. l \in Nat /\ Len(w) = 1 + l /\ w[1 + k] = D[k] BY <1>1, <1>2, <2>2
    <3>4. 1 + k \in 1 .. Len(w) BY <3>1
    <3>2. d[o + (1 + k)] = w[1 + k] BY <1>7, <3>4
    <3>3. o + (1 + k) = o + 1 + k BY <3>1
    <3> QED BY <3>1, <3>2, <3>3
  <2> QED BY <1>1, <1>5, <1>6, <2>1, <2>2
<1>8. ASSUME LengthAt(d, o, len), NEW m \in 1 .. Len(w) PROVE d[o + m] = w[m]
  <2>1. CASE len < 128
    <3>1. m = 1
      <4>1. m \in 1 .. Len(w) BY <1>8
      <4>2. Len(w) = 1 BY <1>6, <2>1
      <4> QED BY <4>1, <4>2
    <3> QED BY <1>5, <1>6, <1>8, <2>1, <3>1
  <2>2. CASE ~ (len < 128)
    <3>1. l \in Nat /\ Len(w) = 1 + l BY <1>1, <1>2, <2>2
    <3>2. CASE m = 1 BY <1>1, <1>5, <1>8, <2>2, <3>2
    <3>3. CASE m # 1
      <4> DEFINE k == m - 1
      <4>1. k \in 1 .. l /\ 1 + k = m /\ o + 1 + k = o + m BY <3>1, <3>3
      <4> HIDE DEF k
      <4>2. d[o + 1 + k] = D[k] /\ w[1 + k] = D[k] BY <1>1, <1>5, <1>8, <2>2, <4>1
      <4> QED BY <4>1, <4>2
    <3> QED BY <3>2, <3>3
  <2> QED BY <2>1, <2>2
<1>9. Stands(d, o, w) <=> o + Len(w) <= Len(d) /\ LengthAt(d, o, len)
  BY <1>4, <1>7, <1>8
<1>10. /\ len < 128 => Len(w) = 1
       /\ ~ (len < 128) => Len(w) = 1 + l /\ l \in 1 .. MaxLengthOctets
  BY <1>1, <1>6
<1> QED BY <1>3, <1>9, <1>10 DEF w, l, D

-----------------------------------------------------------------------------
(* What each step that reads a header does to it *)

LEMMA OctetIs == ASSUME NEW o PROVE Octet(o) = data[o + 1]
BY DEF Octet

LEMMA BeginFacts ==
  ASSUME IInv, BeginElement
  PROVE  /\ Top.p \in Nat /\ Top.p < Top.end /\ Top.end <= Len(data)
         /\ data[Top.p + 1] \in 0 .. 255
         /\ hdr' \in Headers /\ hdr'.at = Top.p /\ hdr'.idx = Top.p + 1
         /\ pc' = IF data[Top.p + 1] % 32 = 31 THEN "tag" ELSE "length"
         /\ hdr'.class \in 0 .. 3 /\ hdr'.constructed \in BOOLEAN
         /\ data[Top.p + 1] % 32 \in 0 .. 31
         /\ data[Top.p + 1] = 64 * hdr'.class + (IF hdr'.constructed THEN 32 ELSE 0)
                                + (data[Top.p + 1] % 32)
         /\ hdr'.tag = (IF data[Top.p + 1] % 32 = 31 THEN 0 ELSE data[Top.p + 1] % 32)
         /\ UNCHANGED <<data, rules, caller, stack, heap, result>>
<1> DEFINE id == data[Top.p + 1]
           c == id \div 64
           h == id \div 32
           k == (id \div 32) % 2 = 1
           r == id % 32
           tag == IF r = 31 THEN 0 ELSE r
<1>1. /\ hdr' = [at |-> Top.p, idx |-> Top.p + 1, class |-> c, constructed |-> k,
                 tag |-> tag, left |-> 0, len |-> 0]
      /\ pc' = IF r = 31 THEN "tag" ELSE "length"
      /\ UNCHANGED <<data, rules, caller, stack, heap, result>> /\ Top.p < Top.end
  BY DEF BeginElement, input, Octet
<1>2. Top.p \in Nat /\ Top.end \in Nat /\ Top.end <= Len(data) /\ Len(data) \in Nat
  BY TopFacts, OctetsOfBlob DEF Frames, IInv
<1>3. id \in 0 .. 255
  <2>1. Octet(Top.p) \in Octets BY <1>1, <1>2, OctetsOfBlob DEF IInv
  <2> QED BY <2>1 DEF Octet, Octets
<1> HIDE DEF id
<1>4. c \in 0 .. 3 /\ r \in 0 .. 31 /\ h \in 0 .. 7 /\ id = 32 * h + r
  <2>1. id \in Int /\ 32 \in Nat \ {0} BY <1>3
  <2>2. r \in 0 .. 32 - 1 /\ id = 32 * h + r /\ h \in Int BY <2>1, DividesInto
  <2> QED BY <1>3, <2>2
<1>5. h = 2 * c + (IF k THEN 1 ELSE 0)
  <2>1. id \in Int /\ 32 \in Nat \ {0} /\ 2 \in Nat \ {0} BY <1>3
  <2>2. (id \div 32) \div 2 = id \div (2 * 32) BY <2>1, DivideTwice
  <2>3. h \div 2 = c BY <2>2
  <2>4. h \in Int BY <1>4
  <2>5. h % 2 \in 0 .. 2 - 1 /\ h = 2 * (h \div 2) + (h % 2) BY <2>1, <2>4, DividesInto
  <2>6. k = (h % 2 = 1) OBVIOUS
  <2> DEFINE u == h % 2
             v == h \div 2
  <2>7. u \in 0 .. 1 /\ h = 2 * v + u /\ v = c BY <2>3, <2>5
  <2>8. k <=> u = 1 BY <2>6
  <2> HIDE DEF h, c, k, u, v
  <2>9. CASE u = 1 BY <1>4, <2>7, <2>8, <2>9
  <2>10. CASE u = 0 BY <1>4, <2>7, <2>8, <2>10
  <2> QED BY <2>7, <2>9, <2>10
<1>6. id = 64 * c + (IF k THEN 32 ELSE 0) + r
  <2> HIDE DEF h, c, k, r
  <2> QED BY <1>4, <1>5
<1>7. k \in BOOLEAN OBVIOUS
<1> HIDE DEF c, h, k, r
<1>8. tag \in 0 .. TagMax BY <1>4, LimitsAssumption
<1> HIDE DEF tag
<1>9. hdr' \in Headers BY <1>1, <1>2, <1>4, <1>7, <1>8 DEF Headers
<1>10. /\ hdr'.at = Top.p /\ hdr'.idx = Top.p + 1 /\ hdr'.class = c /\ hdr'.constructed = k
       /\ hdr'.tag = tag
  BY <1>1
<1> QED BY <1>1, <1>2, <1>3, <1>4, <1>6, <1>7, <1>9, <1>10 DEF id, r, tag

LEMMA TagFacts ==
  ASSUME IInv, TagOctet
  PROVE  /\ pc = "tag" /\ hdr \in Headers /\ hdr.at \in Nat /\ hdr.idx \in Nat
         /\ hdr.at < hdr.idx /\ hdr.idx < Top.end /\ Top.end <= Len(data)
         /\ hdr.tag \in Nat /\ data[hdr.idx + 1] \in 0 .. 255
         /\ TagSoFar = 128 * hdr.tag + (data[hdr.idx + 1] % 128)
         /\ hdr.idx = hdr.at + 1 => data[hdr.idx + 1] # 128
         /\ data[hdr.idx + 1] < 128 => TagSoFar >= 31
         /\ hdr' \in Headers /\ hdr'.at = hdr.at /\ hdr'.idx = hdr.idx + 1
         /\ hdr'.class = hdr.class /\ hdr'.constructed = hdr.constructed
         /\ hdr'.tag = TagSoFar
         /\ pc' = (IF data[hdr.idx + 1] < 128 THEN "length" ELSE "tag")
         /\ UNCHANGED <<data, rules, caller, stack, heap, result>>
<1>1. /\ pc = "tag" /\ hdr.idx < Top.end
      /\ ~ (hdr.idx = hdr.at + 1 /\ data[hdr.idx + 1] = 128)
      /\ data[hdr.idx + 1] < 128 => TagSoFar >= 31
      /\ TagSoFar <= TagMax
      /\ hdr' = [hdr EXCEPT !.tag = TagSoFar, !.idx = hdr.idx + 1]
      /\ pc' = (IF data[hdr.idx + 1] < 128 THEN "length" ELSE "tag")
      /\ UNCHANGED <<data, rules, caller, stack, heap, result>>
  BY DEF TagOctet, Octet, input
<1>2. /\ hdr \in Headers /\ hdr.at \in Nat /\ hdr.idx \in Nat /\ hdr.at < hdr.idx
      /\ Top.end <= Len(data) /\ Octet(hdr.idx) \in Octets
  BY <1>1, InHeader DEF HeaderPcs
<1>3. hdr.tag \in Nat /\ data[hdr.idx + 1] \in 0 .. 255
  BY <1>2 DEF Headers, Octet, Octets
<1>4. TagSoFar = 128 * hdr.tag + (data[hdr.idx + 1] % 128) BY DEF TagSoFar, Octet
<1>5. TagSoFar \in 0 .. TagMax
  <2> DEFINE low == data[hdr.idx + 1] % 128
  <2>1. low \in 0 .. 127 BY <1>3
  <2> HIDE DEF low
  <2>2. TagSoFar = 128 * hdr.tag + low BY <1>4 DEF low
  <2> QED BY <1>1, <1>3, <2>1, <2>2, LimitsAssumption
<1> DEFINE t == TagSoFar
<1>6. hdr' = [hdr EXCEPT !.tag = t, !.idx = hdr.idx + 1] /\ t \in 0 .. TagMax BY <1>1, <1>5
<1> HIDE DEF t
<1>7. hdr.idx + 1 \in Nat BY <1>2
<1>8. hdr' \in Headers BY <1>2, <1>6, <1>7 DEF Headers
<1>9. /\ hdr'.at = hdr.at /\ hdr'.idx = hdr.idx + 1
      /\ hdr'.class = hdr.class /\ hdr'.constructed = hdr.constructed
      /\ hdr'.tag = t
  BY <1>2, <1>6 DEF Headers
<1> QED BY <1>1, <1>2, <1>3, <1>4, <1>8, <1>9 DEF t

LEMMA ShortFacts ==
  ASSUME IInv, ShortLength
  PROVE  /\ pc = "length" /\ pc' = "body" /\ hdr \in Headers /\ hdr.at \in Nat /\ hdr.idx \in Nat
         /\ hdr.at < hdr.idx /\ hdr.idx < Top.end /\ Top.end <= Len(data)
         /\ data[hdr.idx + 1] \in 0 .. 127
         /\ hdr' \in Headers /\ hdr'.at = hdr.at /\ hdr'.idx = hdr.idx + 1
         /\ hdr'.class = hdr.class /\ hdr'.constructed = hdr.constructed
         /\ hdr'.tag = hdr.tag /\ hdr'.len = data[hdr.idx + 1]
         /\ UNCHANGED <<data, rules, caller, stack, heap, result>>
<1> DEFINE x == data[hdr.idx + 1]
<1>1. /\ pc = "length" /\ pc' = "body" /\ hdr.idx < Top.end /\ x < 128
      /\ hdr' = [hdr EXCEPT !.len = x, !.idx = hdr.idx + 1]
      /\ UNCHANGED <<data, rules, caller, stack, heap, result>>
  BY DEF ShortLength, Octet, input
<1>2. /\ hdr \in Headers /\ hdr.at \in Nat /\ hdr.idx \in Nat /\ hdr.at < hdr.idx
      /\ Top.end <= Len(data) /\ Octet(hdr.idx) \in Octets
  BY <1>1, InHeader DEF HeaderPcs
<1>3. x \in 0 .. 127
  <2>1. Octet(hdr.idx) \in Octets BY <1>2
  <2>2. x \in 0 .. 255 BY <2>1 DEF Octet, Octets
  <2>3. x < 128 BY <1>1
  <2> HIDE DEF x
  <2> QED BY <2>2, <2>3
<1> HIDE DEF x
<1>4. hdr.idx + 1 \in Nat /\ x \in Nat BY <1>2, <1>3
<1>5. hdr' \in Headers BY <1>1, <1>2, <1>4 DEF Headers
<1>6. /\ hdr'.at = hdr.at /\ hdr'.idx = hdr.idx + 1
      /\ hdr'.class = hdr.class /\ hdr'.constructed = hdr.constructed
      /\ hdr'.tag = hdr.tag /\ hdr'.len = x
  BY <1>1, <1>2 DEF Headers
<1> QED BY <1>1, <1>2, <1>3, <1>5, <1>6 DEF x

LEMMA LongFacts ==
  ASSUME IInv, LongLength
  PROVE  /\ pc = "length" /\ pc' = "longlength" /\ hdr \in Headers /\ hdr.at \in Nat
         /\ hdr.idx \in Nat
         /\ hdr.at < hdr.idx /\ hdr.idx < Top.end /\ Top.end <= Len(data)
         /\ data[hdr.idx + 1] \in 129 .. 254
         /\ rules = "der" /\ data[hdr.idx + 1] > 129 => data[hdr.idx + 2] # 0
         /\ hdr' \in Headers /\ hdr'.at = hdr.at /\ hdr'.idx = hdr.idx + 1
         /\ hdr'.class = hdr.class /\ hdr'.constructed = hdr.constructed
         /\ hdr'.tag = hdr.tag /\ hdr'.len = 0 /\ hdr'.left = data[hdr.idx + 1] - 128
         /\ UNCHANGED <<data, rules, caller, stack, heap, result>>
<1> DEFINE x == data[hdr.idx + 1]
           l == x - 128
<1>1. /\ pc = "length" /\ pc' = "longlength" /\ hdr.idx < Top.end /\ x \in 129 .. 254
      /\ hdr' = [hdr EXCEPT !.left = l, !.len = 0, !.idx = hdr.idx + 1]
      /\ ~ (rules = "der" /\ l > 1 /\ data[(hdr.idx + 1) + 1] = 0)
      /\ UNCHANGED <<data, rules, caller, stack, heap, result>>
  BY DEF LongLength, Octet, input, Announced, PaddedLength
<1>2. /\ hdr \in Headers /\ hdr.at \in Nat /\ hdr.idx \in Nat /\ hdr.at < hdr.idx
      /\ Top.end <= Len(data)
  BY <1>1, InHeader DEF HeaderPcs
<1>3. rules = "der" /\ x > 129 => data[hdr.idx + 2] # 0
  <2>1. (hdr.idx + 1) + 1 = hdr.idx + 2 BY <1>2
  <2> QED BY <1>1, <2>1
<1> HIDE DEF x
<1>4. hdr.idx + 1 \in Nat /\ l \in Nat /\ 0 \in Nat
  <2>1. x \in 129 .. 254 BY <1>1
  <2>2. l \in Nat BY <2>1
  <2> QED BY <1>2, <2>2
<1> HIDE DEF l
<1>5. hdr' \in Headers BY <1>1, <1>2, <1>4 DEF Headers
<1>6. /\ hdr'.at = hdr.at /\ hdr'.idx = hdr.idx + 1
      /\ hdr'.class = hdr.class /\ hdr'.constructed = hdr.constructed
      /\ hdr'.tag = hdr.tag /\ hdr'.len = 0 /\ hdr'.left = l
  BY <1>1, <1>2 DEF Headers
<1> QED BY <1>1, <1>2, <1>3, <1>5, <1>6 DEF x, l

LEMMA LongOctetFacts ==
  ASSUME IInv, LongLengthOctet
  PROVE  /\ pc = "longlength" /\ pc' = "longlength" /\ hdr \in Headers /\ hdr.at \in Nat
         /\ hdr.idx \in Nat /\ hdr.len \in Nat /\ hdr.left \in Nat /\ hdr.left > 0
         /\ hdr.at < hdr.idx /\ hdr.idx < Top.end /\ Top.end <= Len(data)
         /\ data[hdr.idx + 1] \in 0 .. 255
         /\ hdr' \in Headers /\ hdr'.at = hdr.at /\ hdr'.idx = hdr.idx + 1
         /\ hdr'.class = hdr.class /\ hdr'.constructed = hdr.constructed
         /\ hdr'.tag = hdr.tag /\ hdr'.len = 256 * hdr.len + data[hdr.idx + 1]
         /\ hdr'.left = hdr.left - 1
         /\ UNCHANGED <<data, rules, caller, stack, heap, result>>
<1> DEFINE x == data[hdr.idx + 1]
           n == 256 * hdr.len + x
           l == hdr.left - 1
<1>1. /\ pc = "longlength" /\ pc' = "longlength" /\ hdr.left > 0
      /\ hdr' = [hdr EXCEPT !.len = n, !.idx = hdr.idx + 1, !.left = l]
      /\ UNCHANGED <<data, rules, caller, stack, heap, result>>
  BY DEF LongLengthOctet, Octet, input
<1>2. /\ hdr \in Headers /\ hdr.at \in Nat /\ hdr.idx \in Nat /\ hdr.at < hdr.idx
      /\ Top.end \in Nat /\ Top.end <= Len(data) /\ hdr.len \in Nat /\ hdr.left \in Nat
      /\ hdr.idx < Top.end => Octet(hdr.idx) \in Octets
  BY <1>1, InHeader DEF HeaderPcs
<1>3. hdr.idx + hdr.left <= Top.end BY <1>1 DEF IInv, HeaderInSlice, HeaderPcs
<1>4. hdr.idx < Top.end /\ x \in 0 .. 255 BY <1>1, <1>2, <1>3 DEF Octet, Octets
<1> HIDE DEF x
<1>5. hdr.idx + 1 \in Nat /\ n \in Nat /\ l \in Nat
  <2>1. hdr.len \in Nat /\ hdr.left \in Nat /\ hdr.left > 0 BY <1>1, <1>2
  <2>2. n \in Nat /\ l \in Nat BY <1>4, <2>1
  <2> QED BY <1>2, <2>2
<1> HIDE DEF n, l
<1>6. hdr' \in Headers BY <1>1, <1>2, <1>5 DEF Headers
<1>7. /\ hdr'.at = hdr.at /\ hdr'.idx = hdr.idx + 1
      /\ hdr'.class = hdr.class /\ hdr'.constructed = hdr.constructed
      /\ hdr'.tag = hdr.tag /\ hdr'.len = n /\ hdr'.left = l
  BY <1>1, <1>2 DEF Headers
<1> QED BY <1>1, <1>2, <1>4, <1>6, <1>7 DEF x, n, l

-----------------------------------------------------------------------------
(* Under DER the header of every element is what the encoder would write *)

\* Where the length octets of the header being read start, and how many octets
\* of a long form are behind idx.
LengthPlace == hdr.at + Len(EncodeIdentifier(hdr))
LongRead == hdr.idx - LengthPlace - 1

IdentifierRead ==
  /\ pc = "tag" =>
       /\ data[hdr.at + 1] = 64 * hdr.class + (IF hdr.constructed THEN 32 ELSE 0) + 31
       /\ TagRead = 0 => hdr.tag = 0
       /\ TagRead # 0 =>
            /\ hdr.tag >= 1 /\ Len(Digits(hdr.tag, 128)) = TagRead
            /\ \A k \in 1 .. TagRead : data[hdr.at + 1 + k] = Digits(hdr.tag, 128)[k] + 128
  /\ pc \in {"length", "longlength", "body"} => Stands(data, hdr.at, EncodeIdentifier(hdr))
  /\ pc = "length" => hdr.idx = LengthPlace

LengthIsRead ==
  /\ pc = "longlength" =>
       /\ LongRead \in Nat /\ LongRead + hdr.left >= 1
       /\ data[LengthPlace + 1] = 128 + LongRead + hdr.left
       /\ LongRead = 0 => hdr.len = 0 /\ (hdr.left > 1 => data[hdr.idx + 1] # 0)
       /\ LongRead # 0 =>
            /\ Len(Digits(hdr.len, 256)) = LongRead
            /\ LongRead + hdr.left > 1 => hdr.len >= 1
            /\ \A k \in 1 .. LongRead : data[LengthPlace + 1 + k] = Digits(hdr.len, 256)[k]
  /\ pc = "body" =>
       /\ Stands(data, LengthPlace, EncodeLength(hdr.len))
       /\ hdr.idx = LengthPlace + Len(EncodeLength(hdr.len))

HeaderStands(d, n) ==
  /\ ~ n.indefinite
  /\ Stands(d, n.offset, EncodeIdentifier(n))
  /\ Stands(d, n.offset + Len(EncodeIdentifier(n)), EncodeLength(n.content_len))
  /\ n.header_len = Len(EncodeIdentifier(n)) + Len(EncodeLength(n.content_len))

FramesStand ==
  \A i \in DOMAIN stack : stack[i].kind = "definite" => HeaderStands(data, NodeOf(stack[i]))

NodesStand == \A i \in DOMAIN heap : HeaderStands(data, heap[i])

DerInv == IdentifierRead /\ (rules = "der" => LengthIsRead /\ FramesStand /\ NodesStand)

LEMMA TaggedHeader ==
  ASSUME NEW h \in Headers PROVE Tagged(h)
BY LimitsAssumption DEF Headers, Tagged

LEMMA FirstOctetIs ==
  ASSUME NEW n, Tagged(n)
  PROVE  /\ n.tag < 31 => FirstOctet(n) = 64 * n.class + (IF n.constructed THEN 32 ELSE 0) + n.tag
         /\ ~ (n.tag < 31) =>
              FirstOctet(n) = 64 * n.class + (IF n.constructed THEN 32 ELSE 0) + 31
BY DEF FirstOctet

\* A step that reads the header on.
LEMMA DerReadOn ==
  ASSUME DerInv, UNCHANGED <<data, rules, stack, heap>>,
         IdentifierRead', rules = "der" => LengthIsRead'
  PROVE  DerInv'
BY DEF DerInv, FramesStand, NodesStand

\* A step that leaves the header's octets behind it.
LEMMA DerNotInHeader ==
  ASSUME DerInv, pc' \in {"contents", "done"}, UNCHANGED <<data, rules, stack, heap>>
  PROVE  DerInv'
BY DEF DerInv, FramesStand, NodesStand, IdentifierRead, LengthIsRead

LEMMA BeginElementDer ==
  ASSUME IInv, DerInv, BeginElement
  PROVE  DerInv'
<1> DEFINE id == data[Top.p + 1]
           r == id % 32
           first == 64 * hdr'.class + (IF hdr'.constructed THEN 32 ELSE 0)
<1>1. /\ Top.p \in Nat /\ Top.p < Top.end /\ Top.end <= Len(data)
      /\ hdr' \in Headers /\ hdr'.at = Top.p /\ hdr'.idx = Top.p + 1
      /\ pc' = IF r = 31 THEN "tag" ELSE "length"
      /\ r \in 0 .. 31 /\ id = first + r /\ hdr'.tag = (IF r = 31 THEN 0 ELSE r)
      /\ UNCHANGED <<data, rules, caller, stack, heap, result>>
  BY BeginFacts
<1>2. data \in Seq(Octets) /\ Len(data) \in Nat /\ Top.end \in Nat
  BY TopFacts DEF IInv, Typed, Frames
<1>3. Tagged(hdr') BY <1>1, TaggedHeader
<1> HIDE DEF first, r, id
<1>4. IdentifierRead'
  <2>1. CASE r = 31
    <3>1. pc' = "tag" /\ hdr'.tag = 0 BY <1>1, <2>1
    <3>2. hdr'.idx - hdr'.at - 1 = 0 BY <1>1
    <3>3. data[hdr'.at + 1] = 64 * hdr'.class + (IF hdr'.constructed THEN 32 ELSE 0) + 31
      BY <1>1, <2>1 DEF id, first
    <3> QED BY <1>1, <3>1, <3>2, <3>3 DEF IdentifierRead, TagRead
  <2>2. CASE r # 31
    <3>1. pc' = "length" /\ hdr'.tag = r /\ hdr'.tag < 31 BY <1>1, <2>2
    <3>2. FirstOctet(hdr') = first + hdr'.tag BY <1>3, <3>1, FirstOctetIs DEF first
    <3>3. data[hdr'.at + 1] = FirstOctet(hdr') BY <1>1, <3>1, <3>2 DEF id
    <3>4. IdentifierAt(data, hdr'.at, hdr') BY <3>1, <3>3 DEF IdentifierAt
    <3>5. Len(EncodeIdentifier(hdr')) = 1 /\ hdr'.at \in Nat
      BY <1>1, <1>2, <1>3, <3>1, IdentifierStands
    <3>6. hdr'.at + 1 <= Len(data) BY <1>1, <1>2
    <3>7. Stands(data, hdr'.at, EncodeIdentifier(hdr'))
      BY <1>2, <1>3, <3>4, <3>5, <3>6, IdentifierStands
    <3>8. hdr'.idx = hdr'.at + Len(EncodeIdentifier(hdr')) BY <1>1, <3>5
    <3> QED BY <1>1, <3>1, <3>7, <3>8 DEF IdentifierRead, LengthPlace
  <2> QED BY <2>1, <2>2
<1>5. LengthIsRead'
  <2>1. pc' # "longlength" /\ pc' # "body" BY <1>1
  <2> QED BY <2>1 DEF LengthIsRead
<1> QED BY <1>1, <1>4, <1>5, DerReadOn

LEMMA LowBits ==
  ASSUME NEW x \in 0 .. 255
  PROVE  /\ x % 128 \in 0 .. 127
         /\ x < 128 => x = x % 128
         /\ ~ (x < 128) => x = (x % 128) + 128
OBVIOUS

LEMMA TagOctetDer ==
  ASSUME IInv, DerInv, TagOctet
  PROVE  DerInv'
<1> DEFINE x == data[hdr.idx + 1]
           low == x % 128
           t == hdr.tag
           u == 128 * t + low
           k == hdr.idx - hdr.at - 1
           D == Digits(t, 128)
           D2 == Digits(u, 128)
           first == 64 * hdr.class + (IF hdr.constructed THEN 32 ELSE 0)
<1>1. /\ pc = "tag" /\ hdr \in Headers /\ hdr.at \in Nat /\ hdr.idx \in Nat
      /\ hdr.at < hdr.idx /\ hdr.idx < Top.end /\ Top.end <= Len(data)
      /\ t \in Nat /\ x \in 0 .. 255
      /\ hdr.idx = hdr.at + 1 => x # 128
      /\ x < 128 => u >= 31
      /\ hdr' \in Headers /\ hdr'.at = hdr.at /\ hdr'.idx = hdr.idx + 1
      /\ hdr'.class = hdr.class /\ hdr'.constructed = hdr.constructed
      /\ hdr'.tag = u
      /\ pc' = (IF x < 128 THEN "length" ELSE "tag")
      /\ UNCHANGED <<data, rules, caller, stack, heap, result>>
  BY TagFacts
<1>2. data \in Seq(Octets) /\ Len(data) \in Nat /\ Top.end \in Nat
  BY TopFacts DEF IInv, Typed, Frames
<1>3. Tagged(hdr') BY <1>1, TaggedHeader
<1>4. /\ data[hdr.at + 1] = first + 31
      /\ k = 0 => t = 0
      /\ k # 0 => t >= 1 /\ Len(D) = k /\ \A j \in 1 .. k : data[hdr.at + 1 + j] = D[j] + 128
  BY <1>1 DEF DerInv, IdentifierRead, TagRead
<1>5. low \in 0 .. 127 /\ (x < 128 => x = low) /\ (~ (x < 128) => x = low + 128)
  <2>1. x \in 0 .. 255 BY <1>1
  <2> QED BY <2>1, LowBits
<1> HIDE DEF x, low
<1>6. k \in Nat /\ hdr.idx = hdr.at + 1 + k /\ hdr'.idx - hdr'.at - 1 = k + 1 BY <1>1, SMTT(60)
<1>7. k = 0 => low # 0
  <2> SUFFICES ASSUME k = 0, low = 0 PROVE FALSE OBVIOUS
  <2>1. hdr.idx = hdr.at + 1 BY <1>1, <1>6
  <2>2. t = 0 BY <1>4
  <2>3. CASE x < 128 BY <1>1, <1>5, <2>2, <2>3
  <2>4. CASE ~ (x < 128) BY <1>1, <1>5, <2>1, <2>4
  <2> QED BY <2>3, <2>4
<1>8. 128 \in Bases /\ low \in 0 .. 128 - 1 BY <1>5 DEF Bases
<1>9. D2 = (IF k = 0 THEN <<low>> ELSE Append(D, low)) /\ u >= 1 /\ u \in Nat
  <2>1. CASE k = 0
    <3>1. u = low /\ u \in Nat /\ u < 128 /\ u >= 1 BY <1>4, <1>5, <1>7, <2>1
    <3>2. D2 = <<u>> BY <1>8, <3>1, DigitsStep
    <3> QED BY <2>1, <3>1, <3>2
  <2>2. CASE k # 0
    <3>1. t >= 1 BY <1>4, <2>2
    <3>2. D2 = Append(D, low) BY <1>1, <1>8, <3>1, DigitsAppend
    <3> QED BY <1>1, <1>5, <2>2, <3>1, <3>2
  <2> QED BY <2>1, <2>2
<1>10. Len(D2) = k + 1
       /\ \A j \in 1 .. k + 1 : D2[j] = IF j = k + 1 THEN low ELSE D[j]
  <2>1. CASE k = 0
    <3>1. D2 = <<low>> BY <1>9, <2>1
    <3> HIDE DEF D2
    <3>2. \A j \in 1 .. k + 1 : j = k + 1 /\ j = 1 BY <2>1
    <3> QED BY <2>1, <3>1, <3>2
  <2>2. CASE k # 0
    <3>1. D2 = Append(D, low) /\ Len(D) = k BY <1>4, <1>9, <2>2
    <3>2. D \in Seq(0 .. 128 - 1)
      <4>1. DigitsOf(D, t, 128) BY <1>1, TagDigits
      <4> QED BY <4>1, Zenon DEF DigitsOf
    <3> HIDE DEF D, D2, k
    <3> DEFINE S == 0 .. 128 - 1
    <3>3. D \in Seq(S) /\ low \in S BY <1>8, <3>2
    <3> HIDE DEF S
    <3> QED BY <1>6, <3>1, <3>3
  <2> QED BY <2>1, <2>2
<1> HIDE DEF D2, u
<1>11. \A j \in 1 .. k : data[hdr.at + 1 + j] = D[j] + 128
  <2>1. CASE k = 0 BY <2>1
  <2>2. CASE k # 0 BY <1>4, <2>2
  <2> QED BY <2>1, <2>2
<1>12. data[hdr.at + 1 + (k + 1)] = x
  <2>1. hdr.at + 1 + (k + 1) = hdr.idx + 1 BY <1>1, <1>6
  <2> QED BY <2>1 DEF x
<1>13. ASSUME NEW j \in 1 .. k + 1
       PROVE  data[hdr.at + 1 + j] = IF j = k + 1 THEN x ELSE D2[j] + 128
  <2>1. CASE j = k + 1 BY <1>12, <2>1
  <2>2. CASE j # k + 1
    <3>1. j \in 1 .. k BY <1>6, <2>2
    <3> QED BY <1>10, <1>11, <2>2, <3>1
  <2> QED BY <2>1, <2>2
<1> HIDE DEF k, D
<1>14. IdentifierRead'
  <2>1. CASE x < 128
    <3>1. pc' = "length" /\ hdr'.tag = u /\ ~ (u < 31) BY <1>1, <1>9, <2>1
    <3>2. FirstOctet(hdr') = first + 31
      <4>1. FirstOctet(hdr') = 64 * hdr'.class + (IF hdr'.constructed THEN 32 ELSE 0) + 31
        BY <1>3, <3>1, FirstOctetIs
      <4> QED BY <1>1, <4>1
    <3>3. data[hdr'.at + 1] = FirstOctet(hdr') BY <1>1, <1>4, <3>2
    <3>4. ASSUME NEW j \in 1 .. Len(Digits(hdr'.tag, 128))
          PROVE  data[hdr'.at + 1 + j] = Digits(hdr'.tag, 128)[j]
                   + (IF j < Len(Digits(hdr'.tag, 128)) THEN 128 ELSE 0)
      <4>1. Digits(hdr'.tag, 128) = D2 BY <3>1 DEF D2
      <4>2. j \in 1 .. k + 1 BY <1>10, <3>4, <4>1
      <4>3. CASE j = k + 1
        <5>1. data[hdr.at + 1 + j] = x BY <1>13, <4>2, <4>3
        <5>2. D2[j] = low /\ low = x BY <1>5, <1>10, <2>1, <4>2, <4>3
        <5>3. ~ (j < Len(D2)) BY <1>6, <1>10, <4>2, <4>3
        <5> QED BY <1>1, <1>5, <4>1, <5>1, <5>2, <5>3
      <4>4. CASE j # k + 1
        <5>1. data[hdr.at + 1 + j] = D2[j] + 128 BY <1>13, <4>2, <4>4
        <5>2. j < Len(D2) BY <1>6, <1>10, <4>2, <4>4
        <5> QED BY <1>1, <4>1, <5>1, <5>2
      <4> QED BY <4>3, <4>4
    <3>5. IdentifierAt(data, hdr'.at, hdr') BY <3>3, <3>4 DEF IdentifierAt
    <3>6. Len(EncodeIdentifier(hdr')) = 1 + (k + 1) /\ hdr'.at \in Nat
      <4>1. Len(EncodeIdentifier(hdr')) = 1 + Len(Digits(hdr'.tag, 128))
        BY <1>1, <1>2, <1>3, <3>1, IdentifierStands
      <4>2. Digits(hdr'.tag, 128) = D2 BY <3>1 DEF D2
      <4> QED BY <1>1, <1>10, <4>1, <4>2
    <3>7. hdr'.at + (1 + (k + 1)) <= Len(data) /\ hdr'.idx = hdr'.at + (1 + (k + 1))
      BY <1>1, <1>2, <1>6, SMTT(60)
    <3>8. Stands(data, hdr'.at, EncodeIdentifier(hdr'))
      BY <1>2, <1>3, <3>5, <3>6, <3>7, IdentifierStands
    <3>9. hdr'.idx = hdr'.at + Len(EncodeIdentifier(hdr')) BY <3>6, <3>7
    <3> QED BY <1>1, <3>1, <3>8, <3>9 DEF IdentifierRead, LengthPlace
  <2>2. CASE ~ (x < 128)
    <3>1. pc' = "tag" BY <1>1, <2>2
    <3>2. hdr'.idx - hdr'.at - 1 = k + 1 BY <1>6
    <3>3. \A j \in 1 .. k + 1 : data[hdr'.at + 1 + j] = D2[j] + 128
      <4>1. ASSUME NEW j \in 1 .. k + 1 PROVE data[hdr.at + 1 + j] = D2[j] + 128
        BY <1>5, <1>10, <1>13, <2>2
      <4> QED BY <1>1, <4>1
    <3>4. Digits(hdr'.tag, 128) = D2 BY <1>1 DEF D2
    <3>5. data[hdr'.at + 1] = 64 * hdr'.class + (IF hdr'.constructed THEN 32 ELSE 0) + 31
      BY <1>1, <1>4
    <3>6. k + 1 # 0 BY <1>6
    <3>7. TagRead' = k + 1 BY <3>2 DEF TagRead
    <3> QED BY <1>1, <1>9, <1>10, <3>1, <3>3, <3>4, <3>5, <3>6, <3>7 DEF IdentifierRead
  <2> QED BY <2>1, <2>2
<1>15. LengthIsRead'
  <2>1. pc' # "longlength" /\ pc' # "body" BY <1>1
  <2> QED BY <2>1 DEF LengthIsRead
<1> QED BY <1>1, <1>14, <1>15, DerReadOn

\* A step that leaves the tag alone leaves where the length starts.
LEMMA PlaceStays ==
  ASSUME hdr'.at = hdr.at, hdr'.class = hdr.class, hdr'.constructed = hdr.constructed,
         hdr'.tag = hdr.tag
  PROVE  EncodeIdentifier(hdr') = EncodeIdentifier(hdr) /\ LengthPlace' = LengthPlace
<1>1. EncodeIdentifier(hdr') = EncodeIdentifier(hdr) BY SameIdentifier
<1> QED BY <1>1 DEF LengthPlace

LEMMA PlaceIsNat ==
  ASSUME IInv, pc \in HeaderPcs
  PROVE  LengthPlace \in Nat /\ hdr.at \in Nat /\ hdr.idx \in Nat /\ hdr.len \in Nat
         /\ hdr.left \in Nat /\ data \in Seq(Octets) /\ Len(data) \in Nat
         /\ Len(EncodeIdentifier(hdr)) \in Nat
<1>1. /\ hdr \in Headers /\ hdr.at \in Nat /\ hdr.idx \in Nat /\ hdr.len \in Nat
      /\ hdr.left \in Nat
  BY InHeader
<1>2. data \in Seq(Octets) /\ Len(data) \in Nat BY DEF IInv, Typed
<1>3. Len(EncodeIdentifier(hdr)) \in Nat BY <1>1, <1>2, TaggedHeader, IdentifierStands
<1> QED BY <1>1, <1>2, <1>3 DEF LengthPlace

LEMMA ShortLengthDer ==
  ASSUME IInv, DerInv, ShortLength
  PROVE  DerInv'
<1> DEFINE x == data[hdr.idx + 1]
           b == LengthPlace
<1>1. /\ pc = "length" /\ pc' = "body" /\ hdr \in Headers /\ hdr.at \in Nat /\ hdr.idx \in Nat
      /\ hdr.at < hdr.idx /\ hdr.idx < Top.end /\ Top.end <= Len(data)
      /\ x \in 0 .. 127
      /\ hdr' \in Headers /\ hdr'.at = hdr.at /\ hdr'.idx = hdr.idx + 1
      /\ hdr'.class = hdr.class /\ hdr'.constructed = hdr.constructed
      /\ hdr'.tag = hdr.tag /\ hdr'.len = x
      /\ UNCHANGED <<data, rules, caller, stack, heap, result>>
  BY ShortFacts
<1>2. /\ data \in Seq(Octets) /\ Len(data) \in Nat /\ Top.end \in Nat /\ b \in Nat
      /\ UsizeMax \in Nat
  <2>1. pc \in HeaderPcs BY <1>1 DEF HeaderPcs
  <2> QED BY <2>1, PlaceIsNat, InHeader, LimitsAssumption
<1>3. hdr.idx = b /\ Stands(data, hdr.at, EncodeIdentifier(hdr))
  BY <1>1 DEF DerInv, IdentifierRead
<1>4. EncodeIdentifier(hdr') = EncodeIdentifier(hdr) /\ LengthPlace' = b
  BY <1>1, PlaceStays
<1> HIDE DEF b
<1>5. IdentifierRead'
  <2>1. Stands(data', hdr'.at, EncodeIdentifier(hdr')) BY <1>1, <1>3, <1>4
  <2> QED BY <1>1, <2>1 DEF IdentifierRead
<1>6. LengthIsRead'
  <2>1. x \in Nat /\ x < 128
    <3>1. x \in 0 .. 127 BY <1>1
    <3> HIDE DEF x
    <3> QED BY <3>1
  <2>2. LengthAt(data, b, x) BY <1>3, <2>1 DEF LengthAt
  <2>3. Len(EncodeLength(x)) = 1 BY <1>2, <2>1, LengthStands
  <2>4. b + 1 <= Len(data) BY <1>1, <1>2, <1>3
  <2>5. Stands(data, b, EncodeLength(x)) BY <1>2, <2>1, <2>2, <2>3, <2>4, LengthStands
  <2>6. hdr'.idx = b + Len(EncodeLength(x)) BY <1>1, <1>3, <2>3
  <2> QED BY <1>1, <1>4, <2>1, <2>5, <2>6 DEF LengthIsRead
<1> QED BY <1>1, <1>5, <1>6, DerReadOn

LEMMA LongLengthDer ==
  ASSUME IInv, DerInv, LongLength
  PROVE  DerInv'
<1> DEFINE x == data[hdr.idx + 1]
           b == LengthPlace
<1>1. /\ pc = "length" /\ pc' = "longlength" /\ hdr \in Headers /\ hdr.at \in Nat
      /\ hdr.idx \in Nat
      /\ hdr.at < hdr.idx /\ hdr.idx < Top.end /\ Top.end <= Len(data)
      /\ x \in 129 .. 254
      /\ rules = "der" /\ x > 129 => data[hdr.idx + 2] # 0
      /\ hdr' \in Headers /\ hdr'.at = hdr.at /\ hdr'.idx = hdr.idx + 1
      /\ hdr'.class = hdr.class /\ hdr'.constructed = hdr.constructed
      /\ hdr'.tag = hdr.tag /\ hdr'.len = 0 /\ hdr'.left = x - 128
      /\ UNCHANGED <<data, rules, caller, stack, heap, result>>
  BY LongFacts
<1>2. b \in Nat
  <2>1. pc \in HeaderPcs BY <1>1 DEF HeaderPcs
  <2> QED BY <2>1, PlaceIsNat
<1>3. hdr.idx = b /\ Stands(data, hdr.at, EncodeIdentifier(hdr))
  BY <1>1 DEF DerInv, IdentifierRead
<1>4. EncodeIdentifier(hdr') = EncodeIdentifier(hdr) /\ LengthPlace' = b
  BY <1>1, PlaceStays
<1> HIDE DEF b
<1>5. IdentifierRead'
  <2>1. Stands(data', hdr'.at, EncodeIdentifier(hdr')) BY <1>1, <1>3, <1>4
  <2> QED BY <1>1, <2>1 DEF IdentifierRead
<1>6. ASSUME rules = "der" PROVE LengthIsRead'
  <2>1. LongRead' = 0 BY <1>1, <1>2, <1>3, <1>4 DEF LongRead
  <2>2. /\ 0 + hdr'.left >= 1 /\ x = 128 + 0 + hdr'.left
        /\ hdr'.left > 1 => data'[hdr'.idx + 1] # 0
    <3>1. hdr'.idx + 1 = hdr.idx + 2 BY <1>1
    <3>2. x \in 129 .. 254 /\ hdr'.left = x - 128 BY <1>1
    <3>3. hdr'.left > 1 => x > 129 BY <3>2
    <3>4. 0 + hdr'.left >= 1 /\ x = 128 + 0 + hdr'.left BY <3>2
    <3> QED BY <1>1, <1>6, <3>1, <3>3, <3>4
  <2>3. data'[LengthPlace' + 1] = x BY <1>1, <1>3, <1>4
  <2> QED BY <1>1, <2>1, <2>2, <2>3 DEF LengthIsRead
<1> QED BY <1>1, <1>5, <1>6, DerReadOn

LEMMA LongLengthOctetDer ==
  ASSUME IInv, DerInv, LongLengthOctet
  PROVE  DerInv'
<1> DEFINE x == data[hdr.idx + 1]
           b == LengthPlace
           len == hdr.len
           u == 256 * len + x
           k == LongRead
           D == Digits(len, 256)
           D2 == Digits(u, 256)
           m == 256
<1>1. /\ pc = "longlength" /\ pc' = "longlength" /\ hdr \in Headers /\ hdr.at \in Nat
      /\ hdr.idx \in Nat /\ len \in Nat /\ hdr.left \in Nat /\ hdr.left > 0
      /\ hdr.at < hdr.idx /\ hdr.idx < Top.end /\ Top.end <= Len(data)
      /\ x \in 0 .. 255
      /\ hdr' \in Headers /\ hdr'.at = hdr.at /\ hdr'.idx = hdr.idx + 1
      /\ hdr'.class = hdr.class /\ hdr'.constructed = hdr.constructed
      /\ hdr'.tag = hdr.tag /\ hdr'.len = u
      /\ hdr'.left = hdr.left - 1
      /\ UNCHANGED <<data, rules, caller, stack, heap, result>>
  BY LongOctetFacts
<1>2. b \in Nat
  <2>1. pc \in HeaderPcs BY <1>1 DEF HeaderPcs
  <2> QED BY <2>1, PlaceIsNat
<1>3. Stands(data, hdr.at, EncodeIdentifier(hdr))
  BY <1>1 DEF DerInv, IdentifierRead
<1>4. EncodeIdentifier(hdr') = EncodeIdentifier(hdr) /\ LengthPlace' = b
  BY <1>1, PlaceStays
<1>5. IdentifierRead'
  <2>1. Stands(data', hdr'.at, EncodeIdentifier(hdr')) BY <1>1, <1>3, <1>4
  <2> QED BY <1>1, <2>1 DEF IdentifierRead
<1>6. ASSUME rules = "der" PROVE LengthIsRead'
  <2>1. /\ k \in Nat /\ k + hdr.left >= 1 /\ data[b + 1] = 128 + k + hdr.left
        /\ k = 0 => len = 0 /\ (hdr.left > 1 => x # 0)
        /\ k # 0 => /\ Len(D) = k
                    /\ k + hdr.left > 1 => len >= 1
                    /\ \A j \in 1 .. k : data[b + 1 + j] = D[j]
    BY <1>1, <1>6 DEF DerInv, LengthIsRead
  <2>2. LongRead' = k + 1 /\ hdr.idx = b + 1 + k
    <3>1. k = hdr.idx - b - 1 /\ LongRead' = hdr'.idx - b - 1 BY <1>4 DEF LongRead
    <3>2. hdr'.idx = hdr.idx + 1 /\ hdr.idx \in Nat BY <1>1
    <3> HIDE DEF k, b
    <3> QED BY <1>2, <3>1, <3>2
  <2> HIDE DEF x, b, k
  <2>3. m \in Bases /\ x \in 0 .. m - 1 BY <1>1 DEF Bases
  <2>4. D2 = (IF k = 0 THEN <<x>> ELSE Append(D, x)) /\ u \in Nat
        /\ (k + 1 + (hdr.left - 1) > 1 => u >= 1)
    <3>1. CASE k = 0
      <4>1. u = x /\ u \in Nat /\ u < 256
        <5>1. len = 0 /\ x \in 0 .. 255 BY <1>1, <2>1, <3>1
        <5> HIDE DEF len
        <5> QED BY <5>1
      <4>2. D2 = <<u>>
        <5>1. u < m BY <4>1
        <5>2. Digits(u, m) = <<u>> BY <2>3, <4>1, <5>1, DigitsStep
        <5> QED BY <5>2
      <4>3. hdr.left > 1 => u >= 1 BY <1>1, <2>1, <3>1, <4>1
      <4>4. k + 1 + (hdr.left - 1) = hdr.left BY <1>1, <3>1
      <4> QED BY <3>1, <4>1, <4>2, <4>3, <4>4
    <3>2. CASE k # 0
      <4>1. k + hdr.left > 1 BY <1>1, <2>1, <3>2
      <4>2. len >= 1 BY <2>1, <3>2, <4>1
      <4>3. D2 = Append(D, x)
        <5>1. len \in Nat BY <1>1
        <5> HIDE DEF len, m
        <5>2. Digits(m * len + x, m) = Append(Digits(len, m), x)
          BY <2>3, <4>2, <5>1, DigitsAppend
        <5> QED BY <5>2 DEF m
      <4>4. u \in Nat /\ u >= 1
        <5>1. len \in Nat /\ x \in 0 .. 255 BY <1>1
        <5> HIDE DEF len
        <5> QED BY <4>2, <5>1
      <4> HIDE DEF u, D, D2
      <4> QED BY <3>2, <4>3, <4>4
    <3> QED BY <3>1, <3>2
  <2>5. Len(D2) = k + 1
        /\ \A j \in 1 .. k + 1 : D2[j] = IF j = k + 1 THEN x ELSE D[j]
    <3>1. CASE k = 0
      <4>1. D2 = <<x>> BY <2>4, <3>1
      <4> HIDE DEF D2
      <4>2. \A j \in 1 .. k + 1 : j = k + 1 /\ j = 1 BY <3>1
      <4> QED BY <3>1, <4>1, <4>2
    <3>2. CASE k # 0
      <4>1. D2 = Append(D, x) /\ Len(D) = k BY <2>1, <2>4, <3>2
      <4>2. D \in Seq(0 .. m - 1)
        <5>1. DigitsOf(D, len, 256) BY <1>1, LengthDigits
        <5> QED BY <5>1, Zenon DEF DigitsOf
      <4> HIDE DEF D, D2
      <4> DEFINE S == 0 .. m - 1
      <4>3. D \in Seq(S) /\ x \in S BY <2>3, <4>2
      <4> HIDE DEF S
      <4> QED BY <2>1, <4>1, <4>3
    <3> QED BY <3>1, <3>2
  <2> HIDE DEF D2, u
  <2>6. ASSUME NEW j \in 1 .. k + 1 PROVE data[b + 1 + j] = D2[j]
    <3>1. CASE j = k + 1
      <4>1. b + 1 + j = hdr.idx + 1 BY <1>2, <2>1, <2>2, <3>1
      <4> QED BY <2>5, <3>1, <4>1 DEF x
    <3>2. CASE j # k + 1
      <4>1. j \in 1 .. k /\ k # 0 BY <2>1, <3>2
      <4> QED BY <2>1, <2>5, <3>2, <4>1
    <3> QED BY <3>1, <3>2
  <2>7. k + 1 \in Nat /\ k + 1 # 0 /\ k + 1 + hdr'.left >= 1
        /\ data'[b + 1] = 128 + (k + 1) + hdr'.left
    <3>1. hdr'.left = hdr.left - 1 /\ hdr.left \in Nat /\ hdr.left > 0 BY <1>1
    <3>2. 128 + (k + 1) + hdr'.left = 128 + k + hdr.left BY <2>1, <3>1
    <3>3. k + 1 \in Nat /\ k + 1 # 0 /\ k + 1 + hdr'.left >= 1 BY <2>1, <3>1
    <3> QED BY <1>1, <2>1, <3>2, <3>3
  <2>8. Digits(hdr'.len, 256) = D2 /\ hdr'.len = u BY <1>1 DEF D2
  <2>9. k + 1 + hdr'.left > 1 => u >= 1
    <3>1. hdr'.left = hdr.left - 1 BY <1>1
    <3> QED BY <2>4, <3>1
  <2>10. \A j \in 1 .. k + 1 : data'[b + 1 + j] = D2[j] BY <1>1, <2>6
  <2> QED BY <1>1, <1>4, <2>2, <2>5, <2>7, <2>8, <2>9, <2>10 DEF LengthIsRead, b
<1> QED BY <1>1, <1>5, <1>6, DerReadOn

LEMMA LongLengthEndDer ==
  ASSUME IInv, DerInv, LongLengthEnd
  PROVE  DerInv'
<1>1. /\ pc = "longlength" /\ hdr.left = 0 /\ ~ NeedlesslyLong /\ pc' = "body"
      /\ hdr.len <= UsizeMax
      /\ UNCHANGED <<data, rules, hdr, stack, heap>>
  BY DEF LongLengthEnd, input
<1>2. /\ LengthPlace \in Nat /\ hdr.at \in Nat /\ hdr.idx \in Nat /\ hdr.len \in Nat
      /\ data \in Seq(Octets) /\ Len(data) \in Nat
  <2>1. pc \in HeaderPcs BY <1>1 DEF HeaderPcs
  <2> QED BY <2>1, PlaceIsNat
<1>3. IdentifierRead'
  BY <1>1 DEF DerInv, IdentifierRead
<1>4. ASSUME rules = "der" PROVE LengthIsRead'
  <2> DEFINE b == LengthPlace
             k == LongRead
             D == Digits(hdr.len, 256)
  <2>1. ~ (hdr.len < 128) BY <1>1, <1>4 DEF NeedlesslyLong
  <2>2. /\ k \in Nat /\ k + 0 >= 1 /\ data[b + 1] = 128 + k + 0
        /\ k # 0 => /\ Len(D) = k
                    /\ \A j \in 1 .. k : data[b + 1 + j] = D[j]
    BY <1>1, <1>4 DEF DerInv, LengthIsRead
  <2>3. hdr.idx = b + (1 + k)
    <3>1. k = hdr.idx - b - 1 BY DEF LongRead
    <3> HIDE DEF k, b
    <3> QED BY <1>2, <2>2, <3>1 DEF b
  <2> HIDE DEF b, k
  <2>4. k # 0 /\ data[b + 1] = 128 + k BY <2>2
  <2>5. LengthAt(data, b, hdr.len) BY <2>1, <2>2, <2>4 DEF LengthAt
  <2>6. Len(EncodeLength(hdr.len)) = 1 + k BY <1>1, <1>2, <2>1, <2>2, <2>4, LengthStands
  <2>7. b + (1 + k) <= Len(data)
    <3>1. pc \in HeaderPcs BY <1>1 DEF HeaderPcs
    <3>2. hdr.idx <= Top.end /\ Top.end <= Len(data) /\ Top.end \in Nat BY <3>1, InHeader
    <3> QED BY <1>2, <2>3, <3>2
  <2>8. Stands(data, b, EncodeLength(hdr.len))
    BY <1>1, <1>2, <2>5, <2>6, <2>7, LengthStands DEF b
  <2>9. hdr.idx = b + Len(EncodeLength(hdr.len)) BY <2>3, <2>6
  <2>10. LengthPlace' = b BY <1>1 DEF LengthPlace, b
  <2> QED BY <1>1, <2>8, <2>9, <2>10 DEF LengthIsRead
<1> QED BY <1>1, <1>3, <1>4, DerReadOn

-----------------------------------------------------------------------------
(* What an element that returns, or is opened, does to the calls *)

\* node, which ends at end, is finished, and frame m has collected it.
Collected(m, node, end) ==
  /\ pc' = "contents" /\ UNCHANGED <<data, rules, caller, hdr, result>>
  /\ heap' \in Seq(Nodes) /\ Len(heap') = Len(heap) + 1 /\ heap'[Len(heap) + 1] = node
  /\ \A i \in 1 .. Len(heap) : heap'[i] = heap[i]
  /\ stack' \in Seq(Frames) /\ Len(stack') = m
  /\ \A i \in 1 .. m - 1 : stack'[i] = stack[i]
  /\ stack'[m].kind = stack[m].kind /\ stack'[m].at = stack[m].at
  /\ stack'[m].class = stack[m].class /\ stack'[m].tag = stack[m].tag
  /\ stack'[m].content = stack[m].content /\ stack'[m].end = stack[m].end
  /\ stack'[m].p = end /\ stack'[m].kids = Append(stack[m].kids, Len(heap) + 1)

LEMMA ReturnCollects ==
  ASSUME IInv, NEW m \in 1 .. Len(stack), NEW frames \in Seq(Frames), Len(frames) = m,
         \A i \in 1 .. m : frames[i] = stack[i],
         NEW node \in Nodes, NEW end \in Nat, Return(frames, node, end)
  PROVE  Collected(m, node, end)
<1> DEFINE f == Resumed(frames[m], end, Len(heap) + 1)
<1>0. /\ stack' = [frames EXCEPT ![m] = f]
      /\ heap' = Append(heap, node)
      /\ pc' = "contents"
      /\ UNCHANGED <<data, rules, caller, hdr, result>>
  BY DEF Return, input
<1>1. /\ heap \in Seq(Nodes) /\ stack \in Seq(Frames)
      /\ Len(stack) \in Nat /\ m \in Nat /\ m >= 1 /\ m <= Len(stack)
      /\ frames[m] \in Frames /\ frames[m] = stack[m]
      /\ Len(heap) \in Nat
  BY DEF IInv, Typed
<1>2. f \in Frames
  <2> DEFINE g == frames[m]
             n == Len(heap) + 1
             s == g.kids
  <2>1. g \in Frames /\ n \in Nat BY <1>1
  <2> HIDE DEF g, n
  <2>2. s \in Seq(Nat) BY <2>1 DEF Frames
  <2>3. Append(s, n) \in Seq(Nat)
    <3> HIDE DEF s
    <3> QED BY <2>1, <2>2
  <2>4. Resumed(g, end, n) \in Frames BY <2>1, <2>3 DEF Frames, Resumed
  <2> QED BY <2>4 DEF g, n
<1>3. /\ f.kind = frames[m].kind /\ f.at = frames[m].at
      /\ f.class = frames[m].class /\ f.tag = frames[m].tag
      /\ f.content = frames[m].content /\ f.end = frames[m].end
      /\ f.p = end /\ f.kids = Append(frames[m].kids, Len(heap) + 1)
  BY <1>1 DEF Frames, Resumed
<1> HIDE DEF f
<1>4. /\ stack' \in Seq(Frames)
      /\ Len(stack') = m
      /\ stack'[m] = f
      /\ \A i \in 1 .. m - 1 : stack'[i] = stack[i]
  BY <1>0, <1>1, <1>2
<1>5. /\ heap' \in Seq(Nodes) /\ Len(heap') = Len(heap) + 1 /\ heap'[Len(heap) + 1] = node
      /\ \A i \in 1 .. Len(heap) : heap'[i] = heap[i]
  BY <1>0, <1>1, AppendKeeps
<1> QED BY <1>0, <1>1, <1>3, <1>4, <1>5 DEF Collected

BodyNode ==
  [offset |-> hdr.at, header_len |-> HeaderLen, content_len |-> hdr.len,
   indefinite |-> FALSE, class |-> hdr.class, constructed |-> FALSE,
   tag |-> hdr.tag, kids |-> <<>>]

LEMMA PrimitiveCollected ==
  ASSUME IInv, PrimitiveBody
  PROVE  /\ pc = "body" /\ ~ hdr.constructed /\ hdr \in Headers
         /\ Collected(Len(stack), BodyNode, DefiniteEnd) /\ BodyNode \in Nodes
         /\ Len(stack) \in Nat /\ Len(stack) >= 1
         /\ hdr.at \in Nat /\ hdr.idx \in Nat /\ hdr.len \in Nat /\ hdr.at < hdr.idx
         /\ HeaderLen \in Nat /\ DefiniteEnd = hdr.idx + hdr.len
<1>1. pc = "body" /\ pc \in HeaderPcs /\ ~ hdr.constructed /\ Return(stack, BodyNode, DefiniteEnd)
  BY DEF PrimitiveBody, HeaderPcs, BodyNode
<1>2. /\ hdr \in Headers /\ hdr.at \in Nat /\ hdr.idx \in Nat /\ hdr.len \in Nat
      /\ hdr.at < hdr.idx
  BY <1>1, InHeader
<1>3. HeaderLen \in Nat /\ DefiniteEnd = hdr.idx + hdr.len /\ DefiniteEnd \in Nat
  BY <1>2 DEF HeaderLen, DefiniteEnd
<1>4. BodyNode \in Nodes
  <2>1. hdr.class \in 0 .. 3 /\ hdr.tag \in 0 .. TagMax BY <1>2 DEF Headers
  <2> QED BY <1>2, <1>3, <2>1 DEF Nodes, BodyNode
<1>5. /\ stack \in Seq(Frames) /\ Len(stack) \in 1 .. Len(stack) /\ Len(stack) \in Nat
      /\ Len(stack) >= 1
  BY TopFacts DEF IInv, Typed
<1>6. Collected(Len(stack), BodyNode, DefiniteEnd)
  BY <1>1, <1>3, <1>4, <1>5, ReturnCollects
<1> QED BY <1>1, <1>2, <1>3, <1>4, <1>5, <1>6

LEMMA CloseCollected ==
  ASSUME IInv, NEW end \in Nat, Top.kind \in {"definite", "indefinite"},
         Return(Enclosing, NodeOf(Top), end)
  PROVE  /\ Collected(Len(stack) - 1, NodeOf(Top), end) /\ NodeOf(Top) \in Nodes
         /\ Len(stack) \in Nat /\ Len(stack) >= 2 /\ Top = stack[Len(stack)]
         /\ Top.kids \in Seq(Nat) /\ Top \in Frames
<1>1. /\ Len(stack) \in Nat /\ stack \in Seq(Frames) /\ Len(stack) >= 1
      /\ Top \in Frames /\ Top = stack[Len(stack)]
  BY TopFacts DEF IInv, Typed
<1>2. Len(stack) >= 2
  <2>1. caller \in {"parse_rules", "parse_all"} /\ stack[1].kind = caller
    BY DEF IInv, Typed, FrameKinds
  <2> QED BY <1>1, <2>1
<1>3. /\ Enclosing \in Seq(Frames) /\ Len(Enclosing) = Len(stack) - 1
      /\ \A i \in 1 .. Len(Enclosing) : Enclosing[i] = stack[i]
      /\ Len(stack) - 1 \in 1 .. Len(stack)
  <2>1. Len(stack) - 1 \in 1 .. Len(stack)
    BY <1>1, <1>2
  <2> QED BY <1>1, <2>1 DEF Enclosing
<1>4. /\ Top.content \in Nat /\ Top.p \in Nat /\ Top.end \in Nat /\ Top.at \in Nat
      /\ Top.kids \in Seq(Nat) /\ Top.class \in 0 .. 3 /\ Top.tag \in 0 .. TagMax
  BY <1>1 DEF Frames
<1>5. NodeOf(Top) \in Nodes
  <2>1. Top.content <= Top.p /\ Top.p <= Top.end
    BY TopFacts
  <2>2. Top.content >= Top.at + 2
    BY <1>1, <1>2 DEF IInv, FrameKinds
  <2>3. Top.content - Top.at \in Nat /\ Top.p - Top.content \in Nat
        /\ Top.end - Top.content \in Nat
    BY <1>4, <2>1, <2>2
  <2>4. (IF Top.kind = "definite" THEN Top.end ELSE Top.p) - Top.content \in Nat
    BY <2>3
  <2>5. (Top.kind = "indefinite") \in BOOLEAN
    OBVIOUS
  <2> QED BY <1>4, <2>3, <2>4, <2>5 DEF NodeOf, Nodes
<1> DEFINE m == Len(stack) - 1
<1>6. \A i \in 1 .. m : Enclosing[i] = stack[i] BY <1>3
<1>7. Collected(m, NodeOf(Top), end)
  <2> HIDE DEF m
  <2>1. m \in 1 .. Len(stack) /\ Len(Enclosing) = m BY <1>3 DEF m
  <2> QED BY <1>3, <1>5, <1>6, <2>1, ReturnCollects
<1> QED BY <1>1, <1>2, <1>4, <1>5, <1>7

LEMMA DefiniteCollected ==
  ASSUME IInv, CloseDefinite
  PROVE  /\ pc = "contents" /\ Top.kind = "definite" /\ Top.p = Top.end /\ Top.end \in Nat
         /\ Collected(Len(stack) - 1, NodeOf(Top), Top.end) /\ NodeOf(Top) \in Nodes
         /\ Len(stack) \in Nat /\ Len(stack) >= 2 /\ Top = stack[Len(stack)]
         /\ Top.kids \in Seq(Nat) /\ Top \in Frames
<1>1. /\ pc = "contents" /\ Top.kind = "definite" /\ Top.p >= Top.end
      /\ Return(Enclosing, NodeOf(Top), Top.end)
  BY DEF CloseDefinite
<1>2. Top.p \in Nat /\ Top.end \in Nat /\ Top.p <= Top.end BY TopFacts DEF Frames
<1>3. Top.p = Top.end BY <1>1, <1>2
<1> QED BY <1>1, <1>2, <1>3, CloseCollected

LEMMA IndefiniteCollected ==
  ASSUME IInv, CloseIndefinite
  PROVE  /\ pc = "contents" /\ Top.kind = "indefinite"
         /\ Collected(Len(stack) - 1, NodeOf(Top), Top.p + 2) /\ NodeOf(Top) \in Nodes
         /\ Len(stack) \in Nat /\ Len(stack) >= 2 /\ Top = stack[Len(stack)]
         /\ Top.kids \in Seq(Nat) /\ Top \in Frames
<1>1. /\ pc = "contents" /\ Top.kind = "indefinite"
      /\ Return(Enclosing, NodeOf(Top), Top.p + 2)
  BY DEF CloseIndefinite
<1>2. Top.p + 2 \in Nat BY TopFacts DEF Frames
<1> QED BY <1>1, <1>2, CloseCollected

\* The element whose header was read is open, on top of the others.
Opened(kind, content, end) ==
  /\ pc' = "contents" /\ UNCHANGED <<data, rules, caller, hdr, heap, result>>
  /\ stack' \in Seq(Frames) /\ Len(stack') = Len(stack) + 1
  /\ \A i \in 1 .. Len(stack) : stack'[i] = stack[i]
  /\ stack'[Len(stack) + 1] = [kind |-> kind, at |-> hdr.at, class |-> hdr.class,
                               tag |-> hdr.tag, content |-> content, end |-> end,
                               p |-> content, kids |-> <<>>]

LEMMA OpenOpens ==
  ASSUME IInv, pc \in HeaderPcs, NEW kind \in {"definite", "indefinite"},
         NEW content \in Nat, NEW end \in Nat, Open(kind, content, end)
  PROVE  Opened(kind, content, end) /\ Len(stack) \in Nat /\ Len(stack) >= 1
<1> DEFINE f == [kind |-> kind, at |-> hdr.at, class |-> hdr.class,
                 tag |-> hdr.tag, content |-> content, end |-> end,
                 p |-> content, kids |-> <<>>]
<1>0. /\ stack' = Append(stack, f)
      /\ pc' = "contents"
      /\ UNCHANGED <<data, rules, caller, hdr, heap, result>>
  BY DEF Open, input
<1>1. f \in Frames
  <2>1. hdr \in Headers BY InHeader
  <2> QED BY <2>1 DEF Frames, Headers
<1> HIDE DEF f
<1>2. stack \in Seq(Frames) /\ Len(stack) \in Nat /\ Len(stack) >= 1 BY DEF IInv, Typed
<1>3. /\ stack' \in Seq(Frames)
      /\ Len(stack') = Len(stack) + 1
      /\ stack'[Len(stack) + 1] = f
      /\ \A i \in 1 .. Len(stack) : stack'[i] = stack[i]
  BY <1>0, <1>1, <1>2
<1> QED BY <1>0, <1>2, <1>3 DEF Opened, f

LEMMA ConstructedOpened ==
  ASSUME IInv, ConstructedBody
  PROVE  /\ pc = "body" /\ hdr.constructed = TRUE /\ hdr \in Headers
         /\ Opened("definite", hdr.idx, hdr.idx + hdr.len)
         /\ Len(stack) \in Nat /\ Len(stack) >= 1
         /\ hdr.at \in Nat /\ hdr.idx \in Nat /\ hdr.len \in Nat /\ hdr.at < hdr.idx
<1>1. /\ pc = "body" /\ pc \in HeaderPcs /\ hdr.constructed
      /\ Open("definite", hdr.idx, DefiniteEnd)
  BY DEF ConstructedBody, HeaderPcs
<1>2. /\ hdr \in Headers /\ hdr.at \in Nat /\ hdr.idx \in Nat /\ hdr.len \in Nat
      /\ hdr.at < hdr.idx
  BY <1>1, InHeader
<1>3. DefiniteEnd = hdr.idx + hdr.len /\ hdr.idx + hdr.len \in Nat
  BY <1>2 DEF HeaderLen, DefiniteEnd
<1>4. hdr.constructed = TRUE BY <1>1, <1>2 DEF Headers
<1> QED BY <1>1, <1>2, <1>3, <1>4, OpenOpens

LEMMA NodeHeader ==
  ASSUME NEW d, NEW m, NEW n, HeaderStands(d, m),
         n.offset = m.offset, n.header_len = m.header_len, n.content_len = m.content_len,
         n.indefinite = m.indefinite, n.class = m.class, n.constructed = m.constructed,
         n.tag = m.tag
  PROVE  HeaderStands(d, n)
<1>1. EncodeIdentifier(n) = EncodeIdentifier(m) BY SameIdentifier
<1> QED BY <1>1 DEF HeaderStands

\* The header of an open element does not depend on how far its loop is.
LEMMA FrameHeader ==
  ASSUME NEW d, NEW f, NEW g, f.kind = "definite", HeaderStands(d, NodeOf(f)),
         g.kind = f.kind, g.at = f.at, g.class = f.class, g.tag = f.tag,
         g.content = f.content, g.end = f.end
  PROVE  HeaderStands(d, NodeOf(g))
<1>1. /\ NodeOf(g).offset = NodeOf(f).offset /\ NodeOf(g).header_len = NodeOf(f).header_len
      /\ NodeOf(g).content_len = NodeOf(f).content_len
      /\ NodeOf(g).indefinite = NodeOf(f).indefinite
      /\ NodeOf(g).class = NodeOf(f).class /\ NodeOf(g).constructed = NodeOf(f).constructed
      /\ NodeOf(g).tag = NodeOf(f).tag
  BY DEF NodeOf
<1> QED BY <1>1, NodeHeader

LEMMA CollectedDer ==
  ASSUME IInv, DerInv, NEW m \in Nat, m >= 1, m <= Len(stack), NEW node, NEW end,
         Collected(m, node, end), rules = "der" => HeaderStands(data, node)
  PROVE  DerInv'
<1>1. /\ pc' = "contents" /\ data' = data /\ rules' = rules
      /\ Len(heap') = Len(heap) + 1 /\ heap'[Len(heap) + 1] = node
      /\ \A i \in 1 .. Len(heap) : heap'[i] = heap[i]
      /\ Len(stack') = m /\ \A i \in 1 .. m - 1 : stack'[i] = stack[i]
  BY DEF Collected
<1>2. /\ Len(stack) \in Nat /\ Len(heap) \in Nat
      /\ DOMAIN stack = 1 .. Len(stack) /\ DOMAIN heap = 1 .. Len(heap)
      /\ DOMAIN stack' = 1 .. m /\ DOMAIN heap' = 1 .. Len(heap) + 1
  <2>1. stack \in Seq(Frames) /\ heap \in Seq(Nodes) BY DEF IInv, Typed
  <2>2. stack' \in Seq(Frames) /\ heap' \in Seq(Nodes) BY DEF Collected
  <2> QED BY <1>1, <2>1, <2>2
<1>3. IdentifierRead' /\ LengthIsRead'
  BY <1>1 DEF IdentifierRead, LengthIsRead
<1>4. ASSUME rules = "der" PROVE FramesStand'
  <2>1. SUFFICES ASSUME NEW i \in 1 .. m, stack'[i].kind = "definite"
                 PROVE  HeaderStands(data, NodeOf(stack'[i]))
    BY <1>1, <1>2 DEF FramesStand
  <2>2. i \in DOMAIN stack BY <1>2, <2>1
  <2>3. CASE i = m
    <3>1. /\ stack'[i].kind = stack[i].kind /\ stack'[i].at = stack[i].at
          /\ stack'[i].class = stack[i].class /\ stack'[i].tag = stack[i].tag
          /\ stack'[i].content = stack[i].content /\ stack'[i].end = stack[i].end
      BY <2>3 DEF Collected
    <3>2. HeaderStands(data, NodeOf(stack[i]))
      BY <1>4, <2>1, <2>2, <3>1 DEF DerInv, FramesStand
    <3> QED BY <2>1, <3>1, <3>2, FrameHeader
  <2>4. CASE i # m
    <3>1. i \in 1 .. m - 1 BY <2>1, <2>4
    <3>2. stack'[i] = stack[i] BY <1>1, <3>1
    <3> QED BY <1>4, <2>1, <2>2, <3>2 DEF DerInv, FramesStand
  <2> QED BY <2>3, <2>4
<1>5. ASSUME rules = "der" PROVE NodesStand'
  <2>1. SUFFICES ASSUME NEW i \in 1 .. Len(heap) + 1 PROVE HeaderStands(data, heap'[i])
    BY <1>1, <1>2 DEF NodesStand
  <2>2. CASE i = Len(heap) + 1 BY <1>1, <1>5, <2>2
  <2>3. CASE i # Len(heap) + 1
    <3>1. i \in 1 .. Len(heap) BY <1>2, <2>1, <2>3
    <3>2. heap'[i] = heap[i] /\ i \in DOMAIN heap BY <1>1, <1>2, <3>1
    <3> QED BY <1>5, <3>2 DEF DerInv, NodesStand
  <2> QED BY <2>2, <2>3
<1> QED BY <1>1, <1>3, <1>4, <1>5 DEF DerInv

\* Under DER the header that was read is the one of its node.
LEMMA BodyHeader ==
  ASSUME IInv, DerInv, pc = "body", rules = "der",
         NEW n, n.offset = hdr.at, n.class = hdr.class, n.constructed = hdr.constructed,
         n.tag = hdr.tag, n.header_len = hdr.idx - hdr.at, n.content_len = hdr.len,
         n.indefinite = FALSE
  PROVE  HeaderStands(data, n)
<1>1. EncodeIdentifier(n) = EncodeIdentifier(hdr) BY SameIdentifier
<1>2. /\ Stands(data, hdr.at, EncodeIdentifier(hdr))
      /\ Stands(data, LengthPlace, EncodeLength(hdr.len))
      /\ hdr.idx = LengthPlace + Len(EncodeLength(hdr.len))
  BY DEF DerInv, IdentifierRead, LengthIsRead
<1>3. /\ LengthPlace = hdr.at + Len(EncodeIdentifier(hdr)) /\ hdr.at \in Nat
      /\ Len(EncodeIdentifier(hdr)) \in Nat /\ hdr.idx \in Nat /\ LengthPlace \in Nat
  BY PlaceIsNat DEF HeaderPcs, LengthPlace
<1>4. Len(EncodeLength(hdr.len)) \in Int
  BY DEF IInv, Typed, EncodeLength
<1>5. hdr.idx - hdr.at = Len(EncodeIdentifier(hdr)) + Len(EncodeLength(hdr.len))
  <2> DEFINE p == Len(EncodeIdentifier(hdr))
             q == Len(EncodeLength(hdr.len))
  <2>1. hdr.idx = hdr.at + p + q /\ p \in Nat /\ hdr.at \in Nat /\ q \in Int
    BY <1>2, <1>3, <1>4
  <2> HIDE DEF p, q
  <2>2. hdr.idx - hdr.at = p + q BY <2>1
  <2> QED BY <2>2 DEF p, q
<1> QED BY <1>1, <1>2, <1>3, <1>5 DEF HeaderStands

LEMMA PrimitiveBodyDer ==
  ASSUME IInv, DerInv, PrimitiveBody
  PROVE  DerInv'
<1>1. /\ pc = "body" /\ ~ hdr.constructed /\ hdr \in Headers
      /\ Collected(Len(stack), BodyNode, DefiniteEnd)
      /\ Len(stack) \in Nat /\ Len(stack) >= 1
  BY PrimitiveCollected
<1>2. hdr.constructed = FALSE BY <1>1 DEF Headers
<1>3. rules = "der" => HeaderStands(data, BodyNode)
  <2>1. /\ BodyNode.offset = hdr.at /\ BodyNode.class = hdr.class
        /\ BodyNode.constructed = hdr.constructed /\ BodyNode.tag = hdr.tag
        /\ BodyNode.header_len = hdr.idx - hdr.at /\ BodyNode.content_len = hdr.len
        /\ BodyNode.indefinite = FALSE
    BY <1>2 DEF BodyNode, HeaderLen
  <2> QED BY <1>1, <2>1, BodyHeader
<1> QED BY <1>1, <1>3, CollectedDer

LEMMA CloseDefiniteDer ==
  ASSUME IInv, DerInv, CloseDefinite
  PROVE  DerInv'
<1>1. /\ Top.kind = "definite" /\ Top = stack[Len(stack)]
      /\ Collected(Len(stack) - 1, NodeOf(Top), Top.end)
      /\ Len(stack) \in Nat /\ Len(stack) >= 2
  BY DefiniteCollected
<1>2. Len(stack) \in DOMAIN stack BY <1>1 DEF IInv, Typed
<1>3. rules = "der" => HeaderStands(data, NodeOf(Top))
  BY <1>1, <1>2 DEF DerInv, FramesStand
<1>4. Len(stack) - 1 \in Nat /\ Len(stack) - 1 >= 1 /\ Len(stack) - 1 <= Len(stack)
  BY <1>1
<1> DEFINE m == Len(stack) - 1
<1> HIDE DEF m
<1> QED
  <2>1. Collected(m, NodeOf(Top), Top.end) /\ m \in Nat /\ m >= 1 /\ m <= Len(stack)
    BY <1>1, <1>4 DEF m
  <2> QED BY <1>3, <2>1, CollectedDer

LEMMA CloseIndefiniteDer ==
  ASSUME IInv, DerInv, CloseIndefinite
  PROVE  DerInv'
<1>1. /\ Top.kind = "indefinite" /\ Top = stack[Len(stack)]
      /\ Collected(Len(stack) - 1, NodeOf(Top), Top.p + 2)
      /\ Len(stack) \in Nat /\ Len(stack) >= 2
  BY IndefiniteCollected
<1>2. Len(stack) \in DOMAIN stack BY <1>1 DEF IInv, Typed
<1>3. rules # "der"
  BY <1>1, <1>2 DEF IInv, NoneIndefiniteInDer
<1>4. Len(stack) - 1 \in Nat /\ Len(stack) - 1 >= 1 /\ Len(stack) - 1 <= Len(stack)
  BY <1>1
<1> DEFINE m == Len(stack) - 1
           e == Top.p + 2
<1> HIDE DEF m, e
<1> QED
  <2>1. Collected(m, NodeOf(Top), e) /\ m \in Nat /\ m >= 1 /\ m <= Len(stack)
    BY <1>1, <1>4 DEF m, e
  <2> QED BY <1>3, <2>1, CollectedDer

LEMMA OpenedDer ==
  ASSUME IInv, DerInv, NEW kind, NEW content, NEW end, Opened(kind, content, end),
         rules = "der" =>
           HeaderStands(data, NodeOf([kind |-> kind, at |-> hdr.at, class |-> hdr.class,
                                      tag |-> hdr.tag, content |-> content, end |-> end,
                                      p |-> content, kids |-> <<>>]))
  PROVE  DerInv'
<1> DEFINE f == [kind |-> kind, at |-> hdr.at, class |-> hdr.class,
                 tag |-> hdr.tag, content |-> content, end |-> end,
                 p |-> content, kids |-> <<>>]
<1>0. rules = "der" => HeaderStands(data, NodeOf(f)) OBVIOUS
<1>1. /\ pc' = "contents" /\ data' = data /\ rules' = rules /\ heap' = heap
      /\ Len(stack') = Len(stack) + 1 /\ \A i \in 1 .. Len(stack) : stack'[i] = stack[i]
      /\ stack'[Len(stack) + 1] = f
  BY DEF Opened
<1> HIDE DEF f
<1>2. /\ Len(stack) \in Nat /\ DOMAIN stack = 1 .. Len(stack)
      /\ DOMAIN stack' = 1 .. Len(stack) + 1
  <2>1. stack \in Seq(Frames) BY DEF IInv, Typed
  <2>2. stack' \in Seq(Frames) BY DEF Opened
  <2> QED BY <1>1, <2>1, <2>2
<1>3. IdentifierRead' /\ LengthIsRead'
  BY <1>1 DEF IdentifierRead, LengthIsRead
<1>4. ASSUME rules = "der" PROVE FramesStand'
  <2>1. SUFFICES ASSUME NEW i \in 1 .. Len(stack) + 1, stack'[i].kind = "definite"
                 PROVE  HeaderStands(data, NodeOf(stack'[i]))
    BY <1>1, <1>2 DEF FramesStand
  <2>2. CASE i = Len(stack) + 1 BY <1>0, <1>1, <1>4, <2>2
  <2>3. CASE i # Len(stack) + 1
    <3>1. i \in 1 .. Len(stack) BY <1>2, <2>1, <2>3
    <3>2. stack'[i] = stack[i] /\ i \in DOMAIN stack BY <1>1, <1>2, <3>1
    <3> QED BY <1>4, <2>1, <3>2 DEF DerInv, FramesStand
  <2> QED BY <2>2, <2>3
<1>5. rules = "der" => NodesStand'
  BY <1>1 DEF DerInv, NodesStand
<1> QED BY <1>1, <1>3, <1>4, <1>5 DEF DerInv

LEMMA ConstructedBodyDer ==
  ASSUME IInv, DerInv, ConstructedBody
  PROVE  DerInv'
<1>1. /\ pc = "body" /\ hdr.constructed = TRUE /\ hdr \in Headers
      /\ Opened("definite", hdr.idx, hdr.idx + hdr.len)
      /\ hdr.at \in Nat /\ hdr.idx \in Nat /\ hdr.len \in Nat
  BY ConstructedOpened
<1> DEFINE f == [kind |-> "definite", at |-> hdr.at, class |-> hdr.class,
                 tag |-> hdr.tag, content |-> hdr.idx, end |-> hdr.idx + hdr.len,
                 p |-> hdr.idx, kids |-> <<>>]
           n == NodeOf(f)
<1>2. rules = "der" => HeaderStands(data, n)
  <2>1. /\ n.offset = hdr.at /\ n.class = hdr.class /\ n.constructed = hdr.constructed
        /\ n.tag = hdr.tag /\ n.header_len = hdr.idx - hdr.at
        /\ n.content_len = (hdr.idx + hdr.len) - hdr.idx
        /\ n.indefinite = FALSE
    BY <1>1 DEF NodeOf
  <2>2. (hdr.idx + hdr.len) - hdr.idx = hdr.len BY <1>1
  <2> HIDE DEF n
  <2> QED BY <1>1, <2>1, <2>2, BodyHeader
<1> QED BY <1>1, <1>2, OpenedDer

LEMMA IndefiniteOpened ==
  ASSUME IInv, IndefiniteLength
  PROVE  /\ rules # "der" /\ pc = "length" /\ hdr.constructed = TRUE
         /\ hdr.idx < Top.end /\ data[hdr.idx + 1] = 128
         /\ Opened("indefinite", hdr.idx + 1, Top.end)
<1>1. /\ pc = "length" /\ pc \in HeaderPcs /\ hdr.constructed /\ rules # "der"
      /\ hdr.idx < Top.end /\ data[hdr.idx + 1] = 128
      /\ Open("indefinite", hdr.idx + 1, Top.end)
  BY DEF IndefiniteLength, HeaderPcs, AllowsIndefinite, Octet
<1>2. hdr.constructed = TRUE /\ hdr.idx + 1 \in Nat
  <2>1. hdr \in Headers BY <1>1, InHeader
  <2> QED BY <1>1, <2>1 DEF Headers
<1>3. Top.end \in Nat BY TopFacts DEF Frames
<1> DEFINE c == hdr.idx + 1
<1> HIDE DEF c
<1>4. Opened("indefinite", c, Top.end)
  <2>1. Open("indefinite", c, Top.end) /\ c \in Nat BY <1>1, <1>2 DEF c
  <2> QED BY <1>1, <1>3, <2>1, OpenOpens
<1> QED BY <1>1, <1>2, <1>4 DEF c

LEMMA IndefiniteLengthDer ==
  ASSUME IInv, DerInv, IndefiniteLength
  PROVE  DerInv'
<1>1. rules # "der" /\ Opened("indefinite", hdr.idx + 1, Top.end) BY IndefiniteOpened
<1> DEFINE c == hdr.idx + 1
<1> HIDE DEF c
<1>2. Opened("indefinite", c, Top.end) BY <1>1 DEF c
<1> QED BY <1>1, <1>2, OpenedDer

LEMMA FailDer ==
  ASSUME DerInv, NEW kind, NEW offset, Fail(kind, offset)
  PROVE  DerInv'
BY DerNotInHeader DEF Fail, input

LEMMA ErrorDer ==
  ASSUME DerInv,
         TooDeep \/ NoTag \/ TagError \/ LengthError \/ LongLengthError \/ BodyError
           \/ MarkerError \/ TrailingBytes
  PROVE  DerInv'
<1>1. CASE TooDeep BY <1>1, FailDer DEF TooDeep
<1>2. CASE NoTag BY <1>2, FailDer DEF NoTag
<1>3. CASE TagError BY <1>3, FailDer DEF TagError
<1>4. CASE LengthError BY <1>4, FailDer DEF LengthError
<1>5. CASE LongLengthError BY <1>5, FailDer DEF LongLengthError
<1>6. CASE BodyError BY <1>6, FailDer DEF BodyError
<1>7. CASE MarkerError BY <1>7, FailDer DEF MarkerError
<1>8. CASE TrailingBytes BY <1>8, FailDer DEF TrailingBytes
<1> QED BY <1>1, <1>2, <1>3, <1>4, <1>5, <1>6, <1>7, <1>8

LEMMA AcceptDer ==
  ASSUME DerInv, Accept
  PROVE  DerInv'
BY DerNotInHeader DEF Accept, input

LEMMA DerStep ==
  ASSUME IInv, DerInv, [Next]_vars
  PROVE  DerInv'
<1>1. CASE UNCHANGED vars
  BY <1>1 DEF vars, DerInv, IdentifierRead, LengthIsRead, FramesStand, NodesStand,
              TagRead, LongRead, LengthPlace
<1>2. CASE Next
  <2>1. CASE TooDeep \/ NoTag \/ TagError \/ LengthError \/ LongLengthError \/ BodyError
               \/ MarkerError \/ TrailingBytes
    BY <2>1, ErrorDer
  <2>2. CASE BeginElement BY <2>2, BeginElementDer
  <2>3. CASE TagOctet BY <2>3, TagOctetDer
  <2>4. CASE ShortLength BY <2>4, ShortLengthDer
  <2>5. CASE IndefiniteLength BY <2>5, IndefiniteLengthDer
  <2>6. CASE LongLength BY <2>6, LongLengthDer
  <2>7. CASE LongLengthOctet BY <2>7, LongLengthOctetDer
  <2>8. CASE LongLengthEnd BY <2>8, LongLengthEndDer
  <2>9. CASE PrimitiveBody BY <2>9, PrimitiveBodyDer
  <2>10. CASE ConstructedBody BY <2>10, ConstructedBodyDer
  <2>11. CASE CloseDefinite BY <2>11, CloseDefiniteDer
  <2>12. CASE CloseIndefinite BY <2>12, CloseIndefiniteDer
  <2>13. CASE Accept BY <2>13, AcceptDer
  <2> QED BY <1>2, <2>1, <2>2, <2>3, <2>4, <2>5, <2>6, <2>7, <2>8, <2>9, <2>10, <2>11,
             <2>12, <2>13 DEF Next
<1> QED BY <1>1, <1>2

LEMMA StartDer == Starting => DerInv
<1> SUFFICES ASSUME Starting PROVE DerInv OBVIOUS
<1>1. pc = "contents" /\ stack = <<CallFrame>> /\ heap = <<>> BY DEF Starting
<1>2. IdentifierRead /\ LengthIsRead /\ NodesStand
  BY <1>1 DEF IdentifierRead, LengthIsRead, NodesStand
<1>3. FramesStand
  <2>1. DOMAIN stack = {1} /\ stack[1] = CallFrame BY <1>1
  <2>2. CallFrame.kind = caller /\ caller # "definite" BY DEF CallFrame, Starting
  <2> QED BY <2>1, <2>2 DEF FramesStand
<1> QED BY <1>2, <1>3 DEF DerInv

-----------------------------------------------------------------------------
(* What is read under DER, with its sets in order, is its own encoding *)

\* Node i stands in the blob as it is encoded.
EncodesItself(d, f, i) ==
  Stands(d, f[i].offset, Encodings(d, f)[i])
  /\ f[i].offset + Len(Encodings(d, f)[i]) = End(f[i])

\* A node whose header and content stand where it says.
LEMMA ParenthesisStands ==
  ASSUME NEW d, NEW f, Forest(d, f), NEW i \in DOMAIN f, HeaderStands(d, f[i]),
         Len(Content(d, f, i)) = f[i].content_len,
         Stands(d, ContentStart(f[i]), Content(d, f, i))
  PROVE  EncodesItself(d, f, i)
<1> DEFINE n == f[i]
           c == Content(d, f, i)
           I == EncodeIdentifier(n)
           L == EncodeLength(Len(c))
           o == n.offset
<1>1. /\ d \in Words /\ c \in Words /\ I \in Words /\ L \in Words
      /\ Len(I) \in Nat /\ Len(L) \in Nat /\ Len(c) \in Nat /\ o \in Nat
      /\ Encodings(d, f)[i] = I \o L \o c
      /\ Len(Encodings(d, f)[i]) = Len(I) + Len(L) + Len(c)
  <2>1. d \in Words
    <3>1. d \in Seq(Octets) /\ Octets \subseteq Nat BY DEF Forest, Octets
    <3> QED BY <3>1, SeqOfMore DEF Words
  <2> QED BY <2>1, EncodingsAreWords, EncodingLength, EncodingParts, ForestFacts
<1>2. /\ Stands(d, o, I) /\ Stands(d, o + Len(I), L)
      /\ n.header_len = Len(I) + Len(L) /\ ~ n.indefinite
  BY Zenon DEF HeaderStands
<1>3. ContentStart(n) = o + (Len(I) + Len(L))
  BY <1>2 DEF ContentStart
<1>4. End(n) = o + (Len(I) + Len(L)) + Len(c)
  <2>1. /\ n.content_len = Len(c) /\ n.offset = o
        /\ n.offset \in Nat /\ n.header_len \in Nat /\ n.content_len \in Nat
    <3>1. n \in Nodes BY ForestFacts
    <3> QED BY <3>1 DEF Nodes
  <2> HIDE DEF o, n, c, I, L
  <2>2. End(n) = n.offset + n.header_len + n.content_len BY <1>2, <2>1 DEF End, ContentEnd
  <2> QED BY <1>2, <2>1, <2>2
<1>5. Stands(d, o + (Len(I) + Len(L)), c) BY <1>3
<1> HIDE DEF c, I, L, o
<1>6. Stands(d, o, I \o L) /\ I \o L \in Words /\ Len(I \o L) = Len(I) + Len(L)
  <2>1. Stands(d, o, I \o L) BY <1>1, <1>2, StandsJoined DEF Words
  <2> QED BY <1>1, <2>1 DEF Words
<1>7. Stands(d, o, (I \o L) \o c)
  BY <1>1, <1>5, <1>6, StandsJoined DEF Words
<1>8. Stands(d, o, Encodings(d, f)[i]) /\ o + Len(Encodings(d, f)[i]) = End(n)
  <2>1. (I \o L) \o c = I \o L \o c OBVIOUS
  <2>2. o + (Len(I) + Len(L) + Len(c)) = o + (Len(I) + Len(L)) + Len(c)
    BY <1>1
  <2> QED BY <1>1, <1>4, <1>7, <2>1, <2>2
<1> QED BY <1>8 DEF EncodesItself, o

\* The octets of a part of a blob.
LEMMA PartStands ==
  ASSUME NEW S, NEW d \in Seq(S), NEW a \in Nat, NEW b \in Nat, a <= b, b <= Len(d)
  PROVE  /\ SubSeq(d, a + 1, b) \in Seq(S) /\ Len(SubSeq(d, a + 1, b)) = b - a
         /\ Stands(d, a, SubSeq(d, a + 1, b))
<1> DEFINE w == SubSeq(d, a + 1, b)
<1>1. w \in Seq(S) /\ Len(w) = b - a /\ \A m \in 1 .. Len(w) : w[m] = d[a + m]
  OBVIOUS
<1> HIDE DEF w
<1>2. a + Len(w) <= Len(d) BY <1>1
<1>3. Stands(d, a, w) BY <1>1, <1>2 DEF Stands
<1> QED BY <1>1, <1>3 DEF w

LEMMA SequenceIs ==
  ASSUME NEW S, NEW s \in Seq(S)
  PROVE  s = [k \in DOMAIN s |-> s[k]]
OBVIOUS

AsLong(f, kids, seqs) ==
  \A k \in 1 .. Len(kids) : f[kids[k]].offset + Len(seqs[k]) = End(f[kids[k]])

LieAt(f, kids, from, at) ==
  \A k \in 1 .. Len(kids) : f[kids[k]].offset = from + at[k - 1]

\* Nodes that lie end to end, as long as the parts of a cut, lie at the cut.
LEMMA TilesAtCut ==
  ASSUME NEW f \in Seq(Nodes), NEW kids \in Seq(Nat), NEW from \in Nat, NEW to \in Nat,
         Tiles(f, kids, from, to),
         NEW w \in Words, NEW seqs \in Seq(Words), NEW at, CutAt(w, at, seqs),
         Len(seqs) = Len(kids),
         AsLong(f, kids, seqs)
  PROVE  to = from + Len(w) /\ LieAt(f, kids, from, at)
<1> DEFINE n == Len(kids)
           o(k) == f[kids[k]].offset
           e(k) == End(f[kids[k]])
           T == { k \in Nat : k >= 1 => e(k) = from + at[k] }
<1>1. /\ n \in Nat /\ Len(seqs) = n /\ at[0] = 0 /\ at[n] = Len(w) /\ Len(w) \in Nat
      /\ \A k \in 0 .. n : at[k] \in Nat
      /\ \A k \in 1 .. n : at[k] = at[k - 1] + Len(seqs[k]) /\ Len(seqs[k]) \in Nat
  BY CutFacts
<1>2. /\ \A k \in 1 .. n : o(k) \in Nat /\ e(k) \in Nat /\ o(k) + Len(seqs[k]) = e(k)
      /\ kids = <<>> => from = to
      /\ kids # <<>> => o(1) = from /\ e(n) = to /\ \A k \in 1 .. n - 1 : e(k) = o(k + 1)
  <2>1. \A k \in 1 .. n : f[kids[k]] \in Nodes
    BY DEF Tiles
  <2>2. \A k \in 1 .. n : o(k) \in Nat /\ e(k) \in Nat
    BY <2>1, EndIsNat DEF Nodes
  <2> QED BY <2>2 DEF Tiles, AsLong
<1>3. n = 0 <=> kids = <<>> OBVIOUS
<1> HIDE DEF n, o, e
<1>4. \A k \in 0 .. n - 1 : k \in T => k + 1 \in T
  <2>1. SUFFICES ASSUME NEW k \in 0 .. n - 1, k >= 1 => e(k) = from + at[k]
                 PROVE  e(k + 1) = from + at[k + 1]
    BY <1>1
  <2>2. k + 1 \in 1 .. n /\ k \in 0 .. n /\ (k + 1) - 1 = k /\ n # 0 BY <1>1
  <2>3. o(k + 1) = from + at[k]
    <3>1. CASE k = 0 BY <1>1, <1>2, <1>3, <2>2, <3>1, SMTT(60)
    <3>2. CASE k # 0
      <4>1. k \in 1 .. n - 1 BY <2>1, <3>2
      <4> QED BY <1>2, <1>3, <2>1, <2>2, <4>1, SMTT(60)
    <3> QED BY <3>1, <3>2
  <2>4. at[k + 1] = at[k] + Len(seqs[k + 1]) /\ at[k] \in Nat /\ Len(seqs[k + 1]) \in Nat
    BY <1>1, <2>2
  <2>5. o(k + 1) + Len(seqs[k + 1]) = e(k + 1) BY <1>2, <2>2
  <2> QED BY <2>3, <2>4, <2>5
<1>5. \A k \in 0 .. n : k \in T
  <2>1. 0 \in T OBVIOUS
  <2> HIDE DEF T
  <2> QED BY <1>1, <1>4, <2>1, UpTo
<1>6. \A k \in 1 .. n : o(k) = from + at[k - 1]
  <2> TAKE k \in 1 .. n
  <2>1. e(k) = from + at[k] /\ k \in 0 .. n /\ k - 1 \in 0 .. n
    <3>1. k \in 0 .. n /\ k - 1 \in 0 .. n /\ k >= 1 BY <1>1
    <3>2. k \in T BY <1>5, <3>1
    <3> QED BY <3>1, <3>2
  <2>2. /\ at[k] = at[k - 1] + Len(seqs[k]) /\ at[k - 1] \in Nat /\ Len(seqs[k]) \in Nat
        /\ o(k) + Len(seqs[k]) = e(k) /\ o(k) \in Nat
    BY <1>1, <1>2, <2>1
  <2> DEFINE x == at[k]
             y == at[k - 1]
             l == Len(seqs[k])
             u == o(k)
  <2>3. u + l = from + x /\ x = y + l /\ u \in Nat /\ l \in Nat /\ y \in Nat
    BY <2>1, <2>2
  <2> HIDE DEF x, y, l, u
  <2>4. u = from + y BY <2>3
  <2> QED BY <2>4 DEF u, y
<1>7. to = from + Len(w)
  <2>1. CASE n = 0 BY <1>1, <1>2, <1>3, <2>1
  <2>2. CASE n # 0
    <3>1. n \in 0 .. n /\ n >= 1 BY <1>1, <2>2
    <3>2. e(n) = from + at[n] BY <1>5, <3>1
    <3> QED BY <1>1, <1>2, <1>3, <2>2, <3>2
  <2> QED BY <2>1, <2>2
<1> QED BY <1>6, <1>7 DEF n, o, LieAt

\* The children of node i, which stand as they are encoded, are in order.
LEMMA LineIsSorted ==
  ASSUME NEW d, NEW f, Forest(d, f), NEW i \in DOMAIN f, f[i].constructed,
         SetsSorted(d, f), \A k \in DOMAIN f[i].kids : EncodesItself(d, f, f[i].kids[k])
  PROVE  Line(d, f, i) = f[i].kids
<1> DEFINE kids == f[i].kids
           C == Codes(d, f, kids)
<1>1. /\ kids \in Seq(Nat) /\ DOMAIN kids = 1 .. Len(kids) /\ Len(kids) \in Nat
      /\ \A k \in DOMAIN kids : kids[k] \in DOMAIN f
  BY ForestFacts
<1>2. /\ C \in Seq(Words) /\ DOMAIN Line(d, f, i) = DOMAIN kids
      /\ Line(d, f, i) \in Seq(DOMAIN f) /\ Len(Line(d, f, i)) = Len(kids)
  BY LineParts
<1>3. /\ DOMAIN C = DOMAIN kids /\ \A k \in DOMAIN kids : C[k] = Encodings(d, f)[kids[k]]
  BY DEF Codes
<1>4. Len(C) = Len(kids) BY <1>1, <1>2, <1>3
<1>5. \A k \in DOMAIN kids :
        C[k] = SubSeq(d, f[kids[k]].offset + 1, End(f[kids[k]]))
  <2> TAKE k \in DOMAIN kids
  <2>1. kids[k] \in DOMAIN f BY <1>1
  <2>2. EncodesItself(d, f, kids[k]) OBVIOUS
  <2>3. Encodings(d, f)[kids[k]] \in Words /\ f[kids[k]].offset \in Nat
    BY <2>1, ForestFacts, EncodingsAreWords
  <2>4. d \in Words
    <3>1. d \in Seq(Octets) /\ Octets \subseteq Nat BY DEF Forest, Octets
    <3> QED BY <3>1, SeqOfMore DEF Words
  <2> DEFINE w == Encodings(d, f)[kids[k]]
             o == f[kids[k]].offset
  <2>5. Stands(d, o, w) /\ o + Len(w) = End(f[kids[k]]) BY <2>2 DEF EncodesItself
  <2>6. C[k] = w BY <1>3
  <2>7. w \in Seq(Nat) /\ d \in Seq(Nat) /\ o \in Nat BY <2>3, <2>4 DEF Words
  <2>8. SubSeq(d, o + 1, o + Len(w)) = w
    <3> HIDE DEF w, o
    <3> QED BY <2>5, <2>7, StandsIs
  <2> QED BY <2>5, <2>6, <2>8
<1>6. CASE ~ IsSet(f[i])
  <2>1. \A k \in DOMAIN kids : Line(d, f, i)[k] = kids[k] BY <1>6 DEF Line
  <2>2. Line(d, f, i) = [k \in DOMAIN kids |-> kids[k]] BY <1>6 DEF Line
  <2>3. kids = [k \in DOMAIN kids |-> kids[k]] BY <1>1, SequenceIs
  <2> QED BY <2>2, <2>3
<1>7. CASE IsSet(f[i])
  <2>1. \A k \in 1 .. Len(kids) - 1 : ~ Precedes(C[k + 1], C[k])
    <3> TAKE k \in 1 .. Len(kids) - 1
    <3>1. k \in DOMAIN kids /\ k + 1 \in DOMAIN kids BY <1>1
    <3>2. ~ Precedes(SubSeq(d, f[kids[k + 1]].offset + 1, End(f[kids[k + 1]])),
                     SubSeq(d, f[kids[k]].offset + 1, End(f[kids[k]])))
      BY <1>7 DEF SetsSorted
    <3> QED BY <1>5, <3>1, <3>2
  <2>2. \A k \in DOMAIN kids : Sorting(C)[k] = k
    <3> HIDE DEF C
    <3> QED BY <1>2, <1>3, <1>4, <2>1, SortedStays
  <2>3. Line(d, f, i) = [k \in DOMAIN kids |-> kids[Sorting(C)[k]]] BY <1>7 DEF Line
  <2>4. Line(d, f, i) = [k \in DOMAIN kids |-> kids[k]]
    <3> HIDE DEF C
    <3> QED BY <2>2, <2>3
  <2>5. kids = [k \in DOMAIN kids |-> kids[k]] BY <1>1, SequenceIs
  <2> QED BY <2>4, <2>5
<1> QED BY <1>6, <1>7

LEMMA NodesEncodeThemselves ==
  ASSUME NEW d, NEW f, Forest(d, f), SetsSorted(d, f),
         \A i \in DOMAIN f : HeaderStands(d, f[i])
  PROVE  \A i \in DOMAIN f : EncodesItself(d, f, i)
<1> DEFINE T == { i \in Nat : i \in DOMAIN f => EncodesItself(d, f, i) }
<1>1. ASSUME NEW i \in Nat, \A m \in 0 .. i - 1 : m \in T, i \in DOMAIN f
      PROVE  EncodesItself(d, f, i)
  <2> DEFINE kids == f[i].kids
             c == Content(d, f, i)
             cs == ContentStart(f[i])
  <2>1. /\ f[i] \in Nodes /\ kids \in Seq(Nat) /\ cs \in Nat /\ ContentEnd(f[i]) \in Nat
        /\ cs <= ContentEnd(f[i]) /\ ContentEnd(f[i]) <= Len(d)
        /\ \A k \in DOMAIN kids : kids[k] \in DOMAIN f /\ kids[k] \in 1 .. i - 1
    <3>1. End(f[i]) <= Len(d) /\ ContentEnd(f[i]) <= End(f[i]) /\ End(f[i]) \in Nat
          /\ ContentEnd(f[i]) \in Nat
      BY <1>1, ForestFacts
    <3>2. d \in Seq(Octets) BY DEF Forest
    <3>3. ContentEnd(f[i]) <= Len(d) BY <3>1, <3>2
    <3> QED BY <1>1, <3>3, ForestFacts
  <2>2. \A k \in DOMAIN kids : EncodesItself(d, f, kids[k])
    <3> TAKE k \in DOMAIN kids
    <3>1. kids[k] \in 0 .. i - 1 /\ kids[k] \in DOMAIN f BY <1>1, <2>1
    <3>2. kids[k] \in T BY <1>1, <3>1
    <3> QED BY <3>1, <3>2
  <2>3. f[i].content_len = ContentEnd(f[i]) - cs /\ f[i].content_len \in Nat
    BY <2>1 DEF ContentStart, ContentEnd, Nodes
  <2>4. HeaderStands(d, f[i]) BY <1>1
  <2>5. CASE ~ f[i].constructed
    <3>1. c = SubSeq(d, cs + 1, ContentEnd(f[i])) BY <1>1, <2>5, EncodingParts
    <3>2. d \in Seq(Octets) BY DEF Forest
    <3>3. Len(c) = ContentEnd(f[i]) - cs /\ Stands(d, cs, c)
      <4> HIDE DEF c, cs
      <4> QED BY <2>1, <3>1, <3>2, PartStands
    <3> QED BY <1>1, <2>3, <2>4, <3>3, ParenthesisStands
  <2>6. CASE f[i].constructed
    <3> DEFINE C == Codes(d, f, kids)
               at == Cut(d, f, i)
    <3>1. Line(d, f, i) = kids BY <1>1, <2>2, <2>6, LineIsSorted
    <3>2. /\ C \in Seq(Words) /\ Len(C) = Len(kids) /\ DOMAIN C = DOMAIN kids
          /\ c = FlattenSeq(C) /\ \A k \in DOMAIN kids : C[k] = Encodings(d, f)[kids[k]]
      BY <1>1, <2>6, <3>1, LineParts
    <3>3. CutAt(c, at, C) BY <1>1, <2>6, <3>1, CutIs
    <3>4. c \in Words BY <1>1, EncodingsAreWords
    <3>5. Tiles(f, kids, cs, ContentEnd(f[i])) /\ f \in Seq(Nodes)
      BY <1>1, <2>6 DEF Forest, ElementIsWhole
    <3>6. /\ \A k \in 1 .. Len(kids) : f[kids[k]].offset + Len(C[k]) = End(f[kids[k]])
          /\ \A k \in 1 .. Len(kids) : Stands(d, f[kids[k]].offset, C[k])
      <4>1. ASSUME NEW k \in 1 .. Len(kids)
            PROVE  /\ f[kids[k]].offset + Len(C[k]) = End(f[kids[k]])
                   /\ Stands(d, f[kids[k]].offset, C[k])
        <5>1. k \in DOMAIN kids BY <2>1, <4>1
        <5> QED BY <2>2, <3>2, <5>1 DEF EncodesItself
      <4> QED BY <4>1
    <3>7. /\ ContentEnd(f[i]) = cs + Len(c)
          /\ \A k \in 1 .. Len(kids) : f[kids[k]].offset = cs + at[k - 1]
      <4> DEFINE ce == ContentEnd(f[i])
      <4>1. /\ f \in Seq(Nodes) /\ kids \in Seq(Nat) /\ cs \in Nat /\ ce \in Nat
            /\ Tiles(f, kids, cs, ce)
        BY <2>1, <3>5
      <4>2. /\ c \in Words /\ C \in Seq(Words) /\ CutAt(c, at, C) /\ Len(C) = Len(kids)
        BY <3>2, <3>3, <3>4
      <4>3. AsLong(f, kids, C)
        BY <3>6 DEF AsLong
      <4> HIDE DEF C, at, c, cs, kids, ce
      <4>4. ce = cs + Len(c) /\ LieAt(f, kids, cs, at)
        BY <4>1, <4>2, <4>3, TilesAtCut
      <4> QED BY <4>4 DEF ce, LieAt
    <3>8. \A k \in 1 .. Len(C) : Stands(d, cs + at[k - 1], C[k])
      BY <3>2, <3>6, <3>7
    <3>9. d \in Words
      <4>1. d \in Seq(Octets) /\ Octets \subseteq Nat BY DEF Forest, Octets
      <4> QED BY <4>1, SeqOfMore DEF Words
    <3>10. Stands(d, cs, c)
      <4>1. cs + Len(c) <= Len(d) BY <2>1, <3>7
      <4> HIDE DEF C, at, c, cs
      <4> QED BY <2>1, <3>2, <3>3, <3>4, <3>8, <3>9, <4>1, StandsInParts DEF Words
    <3>11. Len(c) = f[i].content_len
      <4>1. Len(c) \in Nat BY <3>4 DEF Words
      <4> QED BY <2>1, <2>3, <3>7, <4>1
    <3> QED BY <1>1, <2>4, <3>10, <3>11, ParenthesisStands
  <2> QED BY <2>5, <2>6
<1>2. \A i \in Nat : i \in T
  <2>1. \A i \in Nat : (\A m \in 0 .. i - 1 : m \in T) => i \in T BY <1>1
  <2> HIDE DEF T
  <2> QED BY <2>1, StrongInduct
<1>3. DOMAIN f \subseteq Nat BY DEF Forest
<1> QED BY <1>2, <1>3

LEMMA HeapIsForest ==
  ASSUME IInv
  PROVE  Forest(data, heap)
<1>1. /\ data \in Seq(Octets) /\ heap \in Seq(Nodes) /\ Len(data) \in Nat
  BY DEF IInv, Typed
<1>2. ASSUME NEW i \in DOMAIN heap PROVE End(heap[i]) <= Len(data)
  <2>1. End(heap[i]) <= Top.p BY DEF IInv, ElementsBehind
  <2>2. Top.p <= Top.end /\ Top.end <= Len(data) /\ Top.p \in Nat /\ Top.end \in Nat
    BY TopFacts DEF Frames
  <2>3. End(heap[i]) \in Nat
    <3>1. heap[i] \in Nodes BY <1>1
    <3> QED BY <3>1, EndIsNat
  <2> QED BY <1>1, <2>1, <2>2, <2>3
<1> QED BY <1>1, <1>2 DEF Forest, IInv, ElementsTile

\* What parse_rules has accepted is one element that spans the blob.
LEMMA RootSpans ==
  ASSUME IInv, caller = "parse_rules", result.kind = "ok"
  PROVE  /\ stack[1].kids = <<Root>> /\ Root \in DOMAIN heap /\ Root \in Nat
         /\ heap[Root].offset = 0 /\ End(heap[Root]) = Len(data)
<1>1. /\ Len(stack) = 1 /\ Top.p = Len(data) /\ Top.kids # <<>> /\ Top = stack[1]
      /\ stack[1].kids \in Seq(Nat)
  <2>1. Len(stack) = 1 /\ Top.p = Len(data) /\ Top.kids # <<>> BY DEF IInv, Outcome
  <2>2. Top = stack[1] /\ Top \in Frames BY <2>1, TopFacts
  <2> QED BY <2>1, <2>2 DEF Frames
<1>2. Len(stack[1].kids) = 1 BY <1>1 DEF IInv, OneElement
<1>3. Tiles(heap, stack[1].kids, 0, Len(data))
  BY <1>1, TopFacts DEF IInv, FrameKinds
<1>4. stack[1].kids = <<Root>> /\ Root \in Nat BY <1>1, <1>2 DEF Root
<1> QED BY <1>1, <1>2, <1>3, <1>4 DEF Tiles, Root

\* DER with its sets in order is left alone.
LEMMA SortedDerIsFixed ==
  ASSUME IInv, DerInv, caller = "parse_rules", result.kind = "ok", rules = "der",
         SetsSorted(data, heap)
  PROVE  ToDer(data, heap, Root) = data
<1>1. Forest(data, heap) BY HeapIsForest
<1>2. /\ Root \in DOMAIN heap /\ heap[Root].offset = 0 /\ End(heap[Root]) = Len(data)
  BY RootSpans
<1>3. EncodesItself(data, heap, Root)
  BY <1>1, <1>2, NodesEncodeThemselves DEF DerInv, NodesStand
<1> DEFINE w == Encodings(data, heap)[Root]
<1>4. Stands(data, 0, w) /\ 0 + Len(w) = Len(data)
  BY <1>2, <1>3 DEF EncodesItself
<1>5. w \in Words /\ data \in Words
  <2>1. data \in Seq(Octets) /\ Octets \subseteq Nat BY <1>1 DEF Forest, Octets
  <2> QED BY <1>1, <1>2, <2>1, EncodingsAreWords, SeqOfMore DEF Words
<1>6. data = w
  <2>1. Len(w) = Len(data) BY <1>4, <1>5 DEF Words
  <2> HIDE DEF w
  <2> QED BY <1>4, <1>5, <2>1, StandsIs DEF Words
<1> QED BY <1>6 DEF ToDer

-----------------------------------------------------------------------------
(* How deep each element lies *)

Levels(level, f) ==
  /\ level \in [DOMAIN f -> 0 .. MaxNesting]
  /\ \A i \in DOMAIN f : \A k \in DOMAIN f[i].kids : level[f[i].kids[k]] = level[i] + 1

\* What frame m has collected lies m - 1 levels below the top of the tree.
Collects(level, frames) ==
  \A m \in DOMAIN frames : \A k \in DOMAIN frames[m].kids : level[frames[m].kids[k]] = m - 1

LevelInv == \E level : Levels(level, heap) /\ Collects(level, stack)

LEMMA KidsAreFinished ==
  ASSUME IInv
  PROVE  /\ \A m \in DOMAIN stack : stack[m].kids \in Seq(Nat)
              /\ \A k \in DOMAIN stack[m].kids : stack[m].kids[k] \in DOMAIN heap
         /\ \A i \in DOMAIN heap : heap[i].kids \in Seq(Nat)
              /\ \A k \in DOMAIN heap[i].kids : heap[i].kids[k] \in DOMAIN heap
         /\ heap \in Seq(Nodes) /\ stack \in Seq(Frames)
         /\ DOMAIN heap = 1 .. Len(heap) /\ Len(heap) \in Nat
         /\ DOMAIN stack = 1 .. Len(stack) /\ Len(stack) \in Nat
<1>1. heap \in Seq(Nodes) /\ stack \in Seq(Frames) BY DEF IInv, Typed
<1>2. ASSUME NEW m \in DOMAIN stack
      PROVE  stack[m].kids \in Seq(Nat)
               /\ \A k \in DOMAIN stack[m].kids : stack[m].kids[k] \in DOMAIN heap
  <2>1. stack[m] \in Frames BY <1>1
  <2>2. Tiles(heap, stack[m].kids, stack[m].content, stack[m].p) BY DEF IInv, CallsNest
  <2> QED BY <2>1, <2>2 DEF Tiles, Frames
<1>3. Forest(data, heap) BY HeapIsForest
<1> QED BY <1>1, <1>2, <1>3, ForestFacts

LEMMA CollectedLevels ==
  ASSUME IInv, LevelInv, NEW m \in Nat, m >= 1, m <= Len(stack), m - 1 <= MaxNesting,
         NEW node, node.kids = <<>> \/ (m + 1 <= Len(stack) /\ node.kids = stack[m + 1].kids),
         NEW end, Collected(m, node, end)
  PROVE  LevelInv'
<1>1. PICK level : Levels(level, heap) /\ Collects(level, stack) BY DEF LevelInv
<1> DEFINE n == Len(heap) + 1
           l == [i \in 1 .. n |-> IF i = n THEN m - 1 ELSE level[i]]
<1>2. /\ Len(heap') = n /\ heap'[n] = node
      /\ \A i \in 1 .. Len(heap) : heap'[i] = heap[i]
      /\ Len(stack') = m /\ \A i \in 1 .. m - 1 : stack'[i] = stack[i]
      /\ stack'[m].kids = Append(stack[m].kids, n)
      /\ heap' \in Seq(Nodes) /\ stack' \in Seq(Frames)
  BY DEF Collected
<1>3. /\ \A i \in DOMAIN stack : stack[i].kids \in Seq(Nat)
      /\ \A i \in DOMAIN stack : \A k \in DOMAIN stack[i].kids : stack[i].kids[k] \in DOMAIN heap
      /\ \A i \in DOMAIN heap : \A k \in DOMAIN heap[i].kids : heap[i].kids[k] \in DOMAIN heap
      /\ DOMAIN heap = 1 .. Len(heap) /\ Len(heap) \in Nat
      /\ DOMAIN stack = 1 .. Len(stack) /\ Len(stack) \in Nat
  BY KidsAreFinished
<1>4. DOMAIN heap' = 1 .. n /\ DOMAIN stack' = 1 .. m /\ n \in Nat /\ n \in 1 .. n
  BY <1>2, <1>3
<1>5. /\ level \in [DOMAIN heap -> 0 .. MaxNesting]
      /\ \A i \in DOMAIN heap : \A k \in DOMAIN heap[i].kids :
           level[heap[i].kids[k]] = level[i] + 1
      /\ \A i \in DOMAIN stack : \A k \in DOMAIN stack[i].kids :
           level[stack[i].kids[k]] = i - 1
  BY <1>1 DEF Levels, Collects
<1>6. \A i \in DOMAIN heap : i \in 1 .. n /\ i # n /\ l[i] = level[i]
  BY <1>3
<1>7. l[n] = m - 1 BY <1>4
<1>8. l \in [DOMAIN heap' -> 0 .. MaxNesting]
  <2>1. ASSUME NEW i \in 1 .. n PROVE l[i] \in 0 .. MaxNesting
    <3>1. CASE i = n BY <1>7, <3>1, LimitsAssumption
    <3>2. CASE i # n
      <4>1. i \in DOMAIN heap BY <1>3, <2>1, <3>2
      <4> QED BY <1>5, <1>6, <4>1
    <3> QED BY <3>1, <3>2
  <2> QED BY <1>4, <2>1
<1> HIDE DEF l, n
<1>9. ASSUME NEW i \in 1 .. n, NEW k \in DOMAIN heap'[i].kids
      PROVE  l[heap'[i].kids[k]] = l[i] + 1
  <2>1. CASE i = n
    <3>1. node.kids = stack[m + 1].kids /\ m + 1 \in DOMAIN stack /\ k \in DOMAIN node.kids
      BY <1>2, <1>3, <1>9, <2>1
    <3>2. level[node.kids[k]] = (m + 1) - 1 /\ node.kids[k] \in DOMAIN heap
      BY <1>3, <1>5, <3>1
    <3> QED BY <1>2, <1>6, <1>7, <2>1, <3>2
  <2>2. CASE i # n
    <3>1. i \in DOMAIN heap /\ heap'[i] = heap[i]
      BY <1>2, <1>3, <1>9, <2>2 DEF n
    <3> QED BY <1>3, <1>5, <1>6, <1>9, <3>1
  <2> QED BY <2>1, <2>2
<1>10. ASSUME NEW i \in 1 .. m, NEW k \in DOMAIN stack'[i].kids
       PROVE  l[stack'[i].kids[k]] = i - 1
  <2>1. CASE i = m
    <3> DEFINE s == stack[m].kids
    <3>1. s \in Seq(Nat) /\ m \in DOMAIN stack BY <1>3
    <3>2. stack'[i].kids = Append(s, n) /\ k \in DOMAIN Append(s, n) BY <1>2, <1>10, <2>1
    <3>3. k \in 1 .. Len(s) + 1 /\ DOMAIN s = 1 .. Len(s) /\ Len(s) \in Nat BY <3>1, <3>2
    <3>4. CASE k = Len(s) + 1
      <4>1. stack'[i].kids[k] = n
        <5> HIDE DEF s
        <5> QED BY <3>1, <3>2, <3>4
      <4> QED BY <1>7, <2>1, <4>1
    <3>5. CASE k # Len(s) + 1
      <4>1. k \in DOMAIN s BY <3>3, <3>5
      <4>2. stack'[i].kids[k] = s[k]
        <5> HIDE DEF s
        <5> QED BY <3>1, <3>2, <4>1
      <4> QED BY <1>3, <1>5, <1>6, <2>1, <3>1, <4>1, <4>2
    <3> QED BY <3>4, <3>5
  <2>2. CASE i # m
    <3>1. i \in 1 .. m - 1 /\ i \in DOMAIN stack BY <1>3, <1>10, <2>2
    <3>2. stack'[i] = stack[i] BY <1>2, <3>1
    <3> QED BY <1>3, <1>5, <1>6, <1>10, <3>1, <3>2
  <2> QED BY <2>1, <2>2
<1>11. Levels(l, heap') /\ Collects(l, stack')
  BY <1>4, <1>8, <1>9, <1>10 DEF Levels, Collects
<1> QED BY <1>11 DEF LevelInv

LEMMA OpenedLevels ==
  ASSUME IInv, LevelInv, NEW kind, NEW content, NEW end, Opened(kind, content, end)
  PROVE  LevelInv'
<1>1. PICK level : Levels(level, heap) /\ Collects(level, stack) BY DEF LevelInv
<1>2. /\ heap' = heap /\ Len(stack') = Len(stack) + 1
      /\ \A i \in 1 .. Len(stack) : stack'[i] = stack[i]
      /\ stack'[Len(stack) + 1].kids = <<>> /\ stack' \in Seq(Frames)
  BY DEF Opened
<1>3. DOMAIN stack = 1 .. Len(stack) /\ Len(stack) \in Nat
      /\ DOMAIN stack' = 1 .. Len(stack) + 1
  BY <1>2, KidsAreFinished
<1>4. ASSUME NEW i \in 1 .. Len(stack) + 1, NEW k \in DOMAIN stack'[i].kids
      PROVE  level[stack'[i].kids[k]] = i - 1
  <2>1. CASE i = Len(stack) + 1 BY <1>2, <1>4, <2>1
  <2>2. CASE i # Len(stack) + 1
    <3>1. i \in DOMAIN stack /\ stack'[i] = stack[i] BY <1>2, <1>3, <1>4, <2>2
    <3> QED BY <1>1, <1>4, <3>1 DEF Collects
  <2> QED BY <2>1, <2>2
<1>5. Levels(level, heap)' /\ Collects(level, stack)'
  BY <1>1, <1>2, <1>3, <1>4 DEF Levels, Collects
<1> QED BY <1>5 DEF LevelInv

LEMMA LevelStep ==
  ASSUME IInv, LevelInv, [Next]_vars
  PROVE  LevelInv'
<1>1. CASE UNCHANGED <<stack, heap>>
  BY <1>1 DEF LevelInv, Levels, Collects
<1>2. CASE PrimitiveBody
  <2>1. /\ Collected(Len(stack), BodyNode, DefiniteEnd)
        /\ Len(stack) \in Nat /\ Len(stack) >= 1 /\ pc = "body"
    BY <1>2, PrimitiveCollected
  <2>2. Len(stack) - 1 <= MaxNesting BY <2>1, InHeader DEF HeaderPcs, Depth
  <2>3. BodyNode.kids = <<>> BY DEF BodyNode
  <2> QED BY <2>1, <2>2, <2>3, CollectedLevels
<1>3. ASSUME NEW end, Collected(Len(stack) - 1, NodeOf(Top), end),
             Len(stack) \in Nat, Len(stack) >= 2, Top = stack[Len(stack)]
      PROVE  LevelInv'
  <2> DEFINE m == Len(stack) - 1
  <2>1. m \in Nat /\ m >= 1 /\ m <= Len(stack) /\ m + 1 = Len(stack) BY <1>3
  <2>2. m - 1 <= MaxNesting
    <3>1. Len(stack) - 1 <= MaxNesting + 1 /\ MaxNesting \in Nat
      BY LimitsAssumption DEF IInv, CallsNest, Depth
    <3> QED BY <1>3, <3>1
  <2>3. NodeOf(Top).kids = stack[m + 1].kids BY <1>3, <2>1 DEF NodeOf
  <2>4. Collected(m, NodeOf(Top), end) BY <1>3
  <2> HIDE DEF m
  <2> QED BY <2>1, <2>2, <2>3, <2>4, CollectedLevels
<1>4. CASE CloseDefinite BY <1>3, <1>4, DefiniteCollected
<1>5. CASE CloseIndefinite
  <2> DEFINE e == Top.p + 2
  <2>1. /\ Collected(Len(stack) - 1, NodeOf(Top), e)
        /\ Len(stack) \in Nat /\ Len(stack) >= 2 /\ Top = stack[Len(stack)]
    BY <1>5, IndefiniteCollected
  <2> HIDE DEF e
  <2> QED BY <1>3, <2>1
<1>6. CASE ConstructedBody
  <2> DEFINE c == hdr.idx
             e == hdr.idx + hdr.len
  <2>1. Opened("definite", c, e) BY <1>6, ConstructedOpened
  <2> HIDE DEF c, e
  <2> QED BY <2>1, OpenedLevels
<1>7. CASE IndefiniteLength
  <2> DEFINE c == hdr.idx + 1
  <2>1. Opened("indefinite", c, Top.end) BY <1>7, IndefiniteOpened
  <2> HIDE DEF c
  <2> QED BY <2>1, OpenedLevels
<1>8. CASE Next /\ ~ PrimitiveBody /\ ~ CloseDefinite /\ ~ CloseIndefinite
           /\ ~ ConstructedBody /\ ~ IndefiniteLength
  <2>1. UNCHANGED <<stack, heap>>
    BY <1>8 DEF Next, BeginElement, TooDeep, NoTag, TagOctet, TagError, ShortLength, LongLength,
                LengthError, LongLengthOctet, LongLengthEnd, LongLengthError, BodyError,
                MarkerError, Accept, TrailingBytes, Fail
  <2> QED BY <1>1, <2>1
<1> QED BY <1>1, <1>2, <1>4, <1>5, <1>6, <1>7, <1>8 DEF vars

LEMMA StartLevels == Starting => LevelInv
<1> SUFFICES ASSUME Starting PROVE LevelInv OBVIOUS
<1>1. stack = <<CallFrame>> /\ heap = <<>> /\ CallFrame.kids = <<>>
  BY DEF Starting, CallFrame
<1> DEFINE l == [i \in DOMAIN heap |-> 0]
<1>2. Levels(l, heap)
  <2>1. DOMAIN heap = {} BY <1>1
  <2> QED BY <2>1 DEF Levels
<1>3. Collects(l, stack)
  <2>1. DOMAIN stack = {1} /\ stack[1].kids = <<>> BY <1>1
  <2>2. DOMAIN stack[1].kids = {} BY <2>1
  <2> QED BY <2>1, <2>2 DEF Collects
<1> QED BY <1>2, <1>3 DEF LevelInv

-----------------------------------------------------------------------------
(* A forest that is written, as what reads it back goes through it.  Node 0  *)
(* stands for the blob, whose only child is the root.                        *)

Given(d, f, r, level) ==
  /\ Forest(d, f) /\ r \in DOMAIN f /\ Len(Encodings(d, f)[r]) <= UsizeMax
  /\ Levels(level, f) /\ level[r] = 0

\* A node whose children are read.
Opens(d, f, i) ==
  i = 0 \/ (i \in DOMAIN f /\ f[i].constructed /\ Len(Encodings(d, f)[i]) <= UsizeMax)

LineIn(d, f, r, i) == IF i = 0 THEN <<r>> ELSE Line(d, f, i)
ContentIn(d, f, r, i) == IF i = 0 THEN Encodings(d, f)[r] ELSE Content(d, f, i)
CutIn(d, f, r, i) ==
  IF i = 0 THEN [k \in 0 .. 1 |-> IF k = 0 THEN 0 ELSE Len(Encodings(d, f)[r])]
  ELSE Cut(d, f, i)
LevelIn(level, i) == IF i = 0 THEN 0 ELSE level[i] + 1

\* The children that are read, where they stand, how long and how deep they are.
ReadsOn(d, f, level, line, content, at, l) ==
  /\ line \in Seq(DOMAIN f) /\ Len(line) \in Nat
  /\ content \in Seq(Octets) /\ Len(content) \in Nat
  /\ at[0] = 0 /\ at[Len(line)] = Len(content)
  /\ \A k \in 0 .. Len(line) : at[k] \in Nat /\ at[k] <= Len(content)
  /\ \A k \in 1 .. Len(line) :
       /\ line[k] \in DOMAIN f /\ level[line[k]] = l
       /\ Len(Encodings(d, f)[line[k]]) \in Nat
       /\ Len(Encodings(d, f)[line[k]]) >= 1
       /\ Len(Encodings(d, f)[line[k]]) <= UsizeMax
       /\ at[k] = at[k - 1] + Len(Encodings(d, f)[line[k]])
       /\ Stands(content, at[k - 1], Encodings(d, f)[line[k]])

LEMMA EncodingIsSome ==
  ASSUME NEW d, NEW f, Forest(d, f), NEW i \in DOMAIN f
  PROVE  Len(Encodings(d, f)[i]) \in Nat /\ Len(Encodings(d, f)[i]) >= 1
<1> DEFINE a == Len(EncodeIdentifier(f[i]))
           b == Len(EncodeLength(Len(Content(d, f, i))))
           c == Len(Content(d, f, i))
<1>1. Len(Encodings(d, f)[i]) = a + b + c /\ a \in Nat /\ a >= 1 /\ b \in Nat /\ c \in Nat
      /\ Len(Encodings(d, f)[i]) \in Nat
  BY EncodingLength
<1> HIDE DEF a, b, c
<1> QED BY <1>1

LEMMA LineLevels ==
  ASSUME NEW d, NEW f, Forest(d, f), NEW level, Levels(level, f), NEW i \in DOMAIN f
  PROVE  \A k \in DOMAIN f[i].kids : level[Line(d, f, i)[k]] = level[i] + 1
<1> DEFINE kids == f[i].kids
           C == Codes(d, f, kids)
<1>1. C \in Seq(Words) /\ DOMAIN C = DOMAIN kids
  <2>1. C \in Seq(Words) BY LineParts
  <2> QED BY <2>1 DEF Codes
<1>2. Sorting(C) \in [DOMAIN kids -> DOMAIN kids]
  <2>1. SortsWell(C, Sorting(C)) BY <1>1, SortingSorts
  <2> HIDE DEF C
  <2> QED BY <1>1, <2>1 DEF SortsWell, Bijection, Injection
<1>3. \A k \in DOMAIN kids : level[kids[k]] = level[i] + 1 BY DEF Levels
<1>4. ASSUME NEW k \in DOMAIN kids PROVE level[Line(d, f, i)[k]] = level[i] + 1
  <2>1. Line(d, f, i)[k] = IF IsSet(f[i]) THEN kids[Sorting(C)[k]] ELSE kids[k]
    BY DEF Line
  <2> HIDE DEF C, kids
  <2>2. Sorting(C)[k] \in DOMAIN kids BY <1>2, <1>4
  <2> QED BY <1>3, <1>4, <2>1, <2>2
<1> QED BY <1>4

LEMMA RootReadsOn ==
  ASSUME NEW d, NEW f, NEW r, NEW level, Given(d, f, r, level)
  PROVE  ReadsOn(d, f, level, LineIn(d, f, r, 0), ContentIn(d, f, r, 0), CutIn(d, f, r, 0), 0)
<1> DEFINE w == Encodings(d, f)[r]
           line == <<r>>
           at == [k \in 0 .. 1 |-> IF k = 0 THEN 0 ELSE Len(w)]
<1>1. /\ Forest(d, f) /\ r \in DOMAIN f /\ Len(w) <= UsizeMax /\ level[r] = 0
  BY DEF Given
<1>2. w \in Seq(Octets) /\ Len(w) \in Nat /\ Len(w) >= 1
  BY <1>1, EncodingIsSome, EncodingsAreOctets
<1>3. Stands(w, 0, w)
  <2> HIDE DEF w
  <2> QED BY <1>2 DEF Stands
<1>4. line \in Seq(DOMAIN f) /\ Len(line) = 1 /\ line[1] = r BY <1>1
<1>5. at[0] = 0 /\ at[1] = Len(w) OBVIOUS
<1>6. ReadsOn(d, f, level, line, w, at, 0)
  <2>1. \A k \in 0 .. Len(line) : at[k] \in Nat /\ at[k] <= Len(w)
    <3> HIDE DEF at, line, w
    <3>1. \A k \in 0 .. Len(line) : k = 0 \/ k = 1 BY <1>4
    <3> QED BY <1>2, <1>5, <3>1
  <2>2. ASSUME NEW k \in 1 .. Len(line)
        PROVE  /\ line[k] \in DOMAIN f /\ level[line[k]] = 0
               /\ Len(Encodings(d, f)[line[k]]) \in Nat
               /\ Len(Encodings(d, f)[line[k]]) >= 1
               /\ Len(Encodings(d, f)[line[k]]) <= UsizeMax
               /\ at[k] = at[k - 1] + Len(Encodings(d, f)[line[k]])
               /\ Stands(w, at[k - 1], Encodings(d, f)[line[k]])
    <3>1. k = 1 /\ k - 1 = 0 BY <1>4, <2>2
    <3>2. Encodings(d, f)[line[k]] = w BY <1>4, <3>1
    <3> HIDE DEF w, line, at
    <3> QED BY <1>1, <1>2, <1>3, <1>4, <1>5, <3>1, <3>2
  <2> HIDE DEF w, line, at
  <2> QED BY <1>2, <1>4, <1>5, <2>1, <2>2 DEF ReadsOn
<1> QED BY <1>6 DEF LineIn, ContentIn, CutIn

LEMMA NodeReadsOn ==
  ASSUME NEW d, NEW f, Forest(d, f), NEW level, Levels(level, f), NEW i \in DOMAIN f,
         f[i].constructed, Len(Encodings(d, f)[i]) <= UsizeMax
  PROVE  ReadsOn(d, f, level, Line(d, f, i), Content(d, f, i), Cut(d, f, i), level[i] + 1)
<1> DEFINE line == Line(d, f, i)
           w == Content(d, f, i)
           at == Cut(d, f, i)
           C == Codes(d, f, line)
           E == Encodings(d, f)
<1>1. /\ C \in Seq(Words) /\ line \in Seq(DOMAIN f)
      /\ Len(C) = Len(line) /\ DOMAIN line = DOMAIN f[i].kids
      /\ DOMAIN C = DOMAIN f[i].kids
      /\ \A k \in DOMAIN f[i].kids : C[k] = E[line[k]]
  BY LineParts
<1>2. CutAt(w, at, C) BY CutIs
<1>3. w \in Seq(Octets) /\ Len(w) \in Nat
      /\ \A k \in DOMAIN f[i].kids : Len(E[line[k]]) <= UsizeMax
  BY EncodingsAreOctets
<1>4. w \in Words BY EncodingsAreWords
<1>5. \A k \in DOMAIN f[i].kids : level[line[k]] = level[i] + 1 BY LineLevels
<1>6. \A k \in DOMAIN f : Len(E[k]) \in Nat /\ Len(E[k]) >= 1 BY EncodingIsSome
<1> HIDE DEF line, w, at, C, E
<1>7. /\ at[0] = 0 /\ at[Len(C)] = Len(w) /\ Len(C) \in Nat
      /\ \A k \in 0 .. Len(C) : at[k] \in Nat /\ at[k] <= Len(w)
      /\ \A k \in 1 .. Len(C) :
           /\ at[k] = at[k - 1] + Len(C[k]) /\ Len(C[k]) \in Nat
           /\ Stands(w, at[k - 1], C[k])
  BY <1>1, <1>2, <1>4, CutFacts
<1>8. DOMAIN line = 1 .. Len(line) BY <1>1
<1>9. ASSUME NEW k \in 1 .. Len(line)
      PROVE  /\ line[k] \in DOMAIN f /\ level[line[k]] = level[i] + 1
             /\ Len(E[line[k]]) \in Nat /\ Len(E[line[k]]) >= 1
             /\ Len(E[line[k]]) <= UsizeMax
             /\ at[k] = at[k - 1] + Len(E[line[k]])
             /\ Stands(w, at[k - 1], E[line[k]])
  <2>1. k \in DOMAIN f[i].kids /\ line[k] \in DOMAIN f /\ C[k] = E[line[k]]
    BY <1>1, <1>8, <1>9
  <2> QED BY <1>1, <1>3, <1>5, <1>6, <1>7, <1>9, <2>1
<1>10. ReadsOn(d, f, level, line, w, at, level[i] + 1)
  <2>1. Len(line) \in Nat /\ at[Len(line)] = Len(w) BY <1>1, <1>7
  <2>2. \A k \in 0 .. Len(line) : at[k] \in Nat /\ at[k] <= Len(w) BY <1>1, <1>7
  <2> QED BY <1>1, <1>3, <1>7, <1>9, <2>1, <2>2, Zenon DEF ReadsOn, E
<1> QED BY <1>10 DEF line, w, at

LEMMA LineReadsOn ==
  ASSUME NEW d, NEW f, NEW r, NEW level, Given(d, f, r, level), NEW i, Opens(d, f, i)
  PROVE  ReadsOn(d, f, level, LineIn(d, f, r, i), ContentIn(d, f, r, i), CutIn(d, f, r, i),
                 LevelIn(level, i))
<1>1. CASE i = 0 BY <1>1, RootReadsOn DEF LevelIn
<1>2. CASE i # 0
  <2>1. ReadsOn(d, f, level, Line(d, f, i), Content(d, f, i), Cut(d, f, i), level[i] + 1)
    BY <1>2, NodeReadsOn DEF Given, Opens
  <2> QED BY <1>2, <2>1 DEF LineIn, ContentIn, CutIn, LevelIn
<1> QED BY <1>1, <1>2

\* The next child stands behind those before it, inside the content.
LEMMA NextStands ==
  ASSUME NEW d, NEW f, NEW level, NEW line, NEW content, NEW at, NEW l,
         ReadsOn(d, f, level, line, content, at, l), Forest(d, f),
         NEW w \in Seq(Octets), NEW o \in Nat, Stands(w, o, content),
         NEW k \in Nat, k < Len(line)
  PROVE  /\ at[k] \in Nat /\ at[k] < Len(content) /\ at[k + 1] \in Nat
         /\ at[k + 1] = at[k] + Len(Encodings(d, f)[line[k + 1]])
         /\ at[k + 1] <= Len(content)
         /\ line[k + 1] \in DOMAIN f /\ level[line[k + 1]] = l
         /\ Len(Encodings(d, f)[line[k + 1]]) \in Nat
         /\ Len(Encodings(d, f)[line[k + 1]]) <= UsizeMax
         /\ Stands(w, o + at[k], Encodings(d, f)[line[k + 1]])
<1> DEFINE x == line[k + 1]
           e == Encodings(d, f)[x]
<1>1. /\ k + 1 \in 1 .. Len(line) /\ (k + 1) - 1 = k /\ k \in 0 .. Len(line)
      /\ k + 1 \in 0 .. Len(line)
  <2>1. Len(line) \in Nat BY DEF ReadsOn
  <2> QED BY <2>1
<1>2. /\ x \in DOMAIN f /\ level[x] = l /\ Len(e) \in Nat /\ Len(e) >= 1 /\ Len(e) <= UsizeMax
      /\ at[k + 1] = at[k] + Len(e) /\ Stands(content, at[k], e)
  BY <1>1 DEF ReadsOn
<1>3. /\ at[k] \in Nat /\ at[k + 1] \in Nat /\ at[k + 1] <= Len(content)
      /\ content \in Seq(Octets) /\ Len(content) \in Nat
  BY <1>1 DEF ReadsOn
<1>4. e \in Seq(Octets) BY <1>2, EncodingsAreOctets
<1> HIDE DEF x, e
<1>5. at[k] < Len(content) BY <1>2, <1>3
<1>6. Stands(w, o + at[k], e) BY <1>2, <1>3, <1>4, StandsInside
<1> QED BY <1>2, <1>3, <1>5, <1>6 DEF x, e

\* A loop that is at the end of the content has read the whole line.
LEMMA AtTheEnd ==
  ASSUME NEW d, NEW f, NEW level, NEW line, NEW content, NEW at, NEW l,
         ReadsOn(d, f, level, line, content, at, l),
         NEW k \in Nat, k <= Len(line), at[k] >= Len(content)
  PROVE  k = Len(line)
<1>1. SUFFICES ASSUME k < Len(line) PROVE FALSE BY DEF ReadsOn
<1>2. /\ k + 1 \in 1 .. Len(line) /\ (k + 1) - 1 = k /\ k \in 0 .. Len(line)
      /\ k + 1 \in 0 .. Len(line)
  <2>1. Len(line) \in Nat BY DEF ReadsOn
  <2> QED BY <1>1, <2>1
<1> DEFINE e == Len(Encodings(d, f)[line[k + 1]])
<1>3. /\ e \in Nat /\ e >= 1 /\ at[k + 1] = at[k] + e
      /\ at[k] \in Nat /\ at[k + 1] <= Len(content) /\ Len(content) \in Nat
  BY <1>2 DEF ReadsOn
<1> HIDE DEF e
<1> QED BY <1>3

-----------------------------------------------------------------------------
(* Reading back the header of an element that was written *)

\* The parts of node x of f, which stand at o in w.
ElementParts(w, o, d, f, x) ==
  LET a == Len(EncodeIdentifier(f[x]))
      c == Len(Content(d, f, x))
      b == Len(EncodeLength(c))
      e == Len(Encodings(d, f)[x])
  IN /\ a \in Nat /\ a >= 1 /\ b \in Nat /\ b >= 1 /\ c \in Nat /\ e \in Nat
     /\ e = a + b + c /\ e <= UsizeMax /\ o + e <= Len(w)
     /\ IdentifierAt(w, o, f[x])
     /\ f[x].tag < 31 => a = 1
     /\ ~ (f[x].tag < 31) => a = 1 + Len(Digits(f[x].tag, 128))
     /\ LengthAt(w, o + a, c)
     /\ c < 128 => b = 1
     /\ ~ (c < 128) => b = 1 + Len(Digits(c, 256)) /\ Len(Digits(c, 256)) \in 1 .. MaxLengthOctets
     /\ Stands(w, o + a + b, Content(d, f, x))

LEMMA PartsStand ==
  ASSUME NEW d, NEW f, Forest(d, f), NEW x \in DOMAIN f, Len(Encodings(d, f)[x]) <= UsizeMax,
         NEW w \in Seq(Octets), NEW o \in Nat, Stands(w, o, Encodings(d, f)[x])
  PROVE  ElementParts(w, o, d, f, x)
<1> DEFINE n == f[x]
           I == EncodeIdentifier(n)
           C == Content(d, f, x)
           L == EncodeLength(Len(C))
           E == Encodings(d, f)[x]
<1>1. /\ I \in Seq(Octets) /\ C \in Seq(Octets) /\ Len(C) \in Nat /\ Len(C) <= UsizeMax
      /\ E = I \o L \o C /\ Len(E) = Len(I) + Len(L) + Len(C) /\ Len(E) \in Nat
      /\ Len(I) \in Nat /\ Len(I) >= 1 /\ Len(L) \in Nat
  BY EncodingsAreOctets, EncodingLength, EncodingParts
<1>2. L \in Seq(Octets) /\ Len(L) >= 1
  <2> DEFINE c == Len(C)
  <2>1. c \in Nat /\ c <= UsizeMax BY <1>1
  <2> HIDE DEF c
  <2>2. LengthForm(c, EncodeLength(c)) BY <2>1, LengthOctetsForm
  <2>3. EncodeLength(c) \in Seq(Octets) /\ Len(EncodeLength(c)) >= 1
    BY <2>2, Zenon DEF LengthForm
  <2> QED BY <2>3 DEF c
<1>3. Tagged(n) BY ForestFacts
<1>4. Stands(w, o, E) /\ Len(E) <= UsizeMax OBVIOUS
<1>5. /\ Stands(w, o, I) <=> o + Len(I) <= Len(w) /\ IdentifierAt(w, o, n)
      /\ n.tag < 31 => Len(I) = 1
      /\ ~ (n.tag < 31) => Len(I) = 1 + Len(Digits(n.tag, 128))
  BY <1>3, IdentifierStands
<1>6. ASSUME NEW q \in Nat
      PROVE  /\ Stands(w, q, L) <=> q + Len(L) <= Len(w) /\ LengthAt(w, q, Len(C))
             /\ Len(C) < 128 => Len(L) = 1
             /\ ~ (Len(C) < 128) => /\ Len(L) = 1 + Len(Digits(Len(C), 256))
                                    /\ Len(Digits(Len(C), 256)) \in 1 .. MaxLengthOctets
  <2> DEFINE c == Len(C)
  <2>1. c \in Nat /\ c <= UsizeMax BY <1>1
  <2> HIDE DEF c
  <2>2. /\ Stands(w, q, EncodeLength(c)) <=> q + Len(EncodeLength(c)) <= Len(w) /\ LengthAt(w, q, c)
        /\ c < 128 => Len(EncodeLength(c)) = 1
        /\ ~ (c < 128) => /\ Len(EncodeLength(c)) = 1 + Len(Digits(c, 256))
                          /\ Len(Digits(c, 256)) \in 1 .. MaxLengthOctets
    BY <1>6, <2>1, LengthStands
  <2> QED BY <2>2 DEF c
<1>7. Stands(w, o, I) /\ Stands(w, o + Len(I), L) /\ Stands(w, o + Len(I) + Len(L), C)
      /\ o + Len(E) <= Len(w) /\ o + Len(I) \in Nat
  <2> HIDE DEF I, L, C, E
  <2>1. o + Len(I) \in Nat /\ o + Len(E) <= Len(w)
    <3>1. o + Len(E) <= Len(w) BY <1>4, Zenon DEF Stands
    <3>2. o + Len(I) \in Nat BY <1>1
    <3> QED BY <3>1, <3>2
  <2>2. I \o L \in Seq(Octets) /\ Len(I \o L) = Len(I) + Len(L) /\ (I \o L) \o C = E
    BY <1>1, <1>2
  <2>3. Stands(w, o, I \o L) /\ Stands(w, o + Len(I \o L), C)
    <3> DEFINE P == I \o L
    <3>1. P \in Seq(Octets) /\ P \o C = E BY <2>2
    <3> HIDE DEF P
    <3>2. Stands(w, o, P \o C) BY <1>4, <3>1
    <3>3. Stands(w, o, P) /\ Stands(w, o + Len(P), C) BY <1>1, <3>1, <3>2, StandsJoined
    <3> QED BY <3>3 DEF P
  <2>4. Stands(w, o, I) /\ Stands(w, o + Len(I), L) BY <1>1, <1>2, <2>3, StandsJoined
  <2>5. o + (Len(I) + Len(L)) = o + Len(I) + Len(L) BY <1>1
  <2> QED BY <2>1, <2>2, <2>3, <2>4, <2>5
<1>8. IdentifierAt(w, o, n) /\ LengthAt(w, o + Len(I), Len(C))
  <2>1. IdentifierAt(w, o, n) BY <1>5, <1>7
  <2> DEFINE q == o + Len(I)
  <2>2. q \in Nat /\ Stands(w, q, L) BY <1>7
  <2> HIDE DEF q
  <2>3. LengthAt(w, q, Len(C)) BY <1>6, <2>2
  <2> QED BY <2>1, <2>3 DEF q
<1>9. /\ Len(C) < 128 => Len(L) = 1
      /\ ~ (Len(C) < 128) => /\ Len(L) = 1 + Len(Digits(Len(C), 256))
                             /\ Len(Digits(Len(C), 256)) \in 1 .. MaxLengthOctets
  BY <1>6
<1> HIDE DEF I, L, C, E, n
<1>10. /\ Len(I) \in Nat /\ Len(I) >= 1 /\ Len(L) \in Nat /\ Len(L) >= 1 /\ Len(C) \in Nat
       /\ Len(E) \in Nat /\ Len(E) = Len(I) + Len(L) + Len(C) /\ Len(E) <= UsizeMax
       /\ o + Len(E) <= Len(w)
  BY <1>1, <1>2, <1>4, <1>7
<1> QED BY <1>5, <1>7, <1>8, <1>9, <1>10, Zenon DEF ElementParts, I, L, C, E, n

\* The header that is read is, as far as it goes, the one of node x.
HeaderOf(d, f, x) ==
  /\ hdr.class = f[x].class /\ hdr.constructed = f[x].constructed
  /\ pc = "tag" =>
       /\ ~ (f[x].tag < 31)
       /\ TagRead \in Nat /\ TagRead < Len(Digits(f[x].tag, 128))
       /\ \E V : ReadsAs(V, Digits(f[x].tag, 128), f[x].tag, 128) /\ hdr.tag = V[TagRead]
  /\ pc # "tag" => hdr.tag = f[x].tag
  /\ pc = "length" => hdr.idx = hdr.at + Len(EncodeIdentifier(f[x]))
  /\ pc = "longlength" =>
       LET c == Len(Content(d, f, x))
           k == hdr.idx - hdr.at - Len(EncodeIdentifier(f[x])) - 1
       IN /\ ~ (c < 128) /\ k \in Nat /\ k + hdr.left = Len(Digits(c, 256))
          /\ \E V : ReadsAs(V, Digits(c, 256), c, 256) /\ hdr.len = V[k]
  /\ pc = "body" =>
       /\ hdr.len = Len(Content(d, f, x))
       /\ hdr.idx = hdr.at + Len(EncodeIdentifier(f[x])) + Len(EncodeLength(Len(Content(d, f, x))))

\* The bit of the form in an identifier octet.
Bit(b) == IF b THEN 32 ELSE 0

LEMMA Sums ==
  ASSUME NEW c1 \in 0 .. 3, NEW c2 \in 0 .. 3, NEW v1 \in {0, 32}, NEW v2 \in {0, 32},
         NEW r1 \in 0 .. 31, NEW r2 \in 0 .. 31, 64 * c1 + v1 + r1 = 64 * c2 + v2 + r2
  PROVE  c1 = c2 /\ v1 = v2 /\ r1 = r2
OBVIOUS

LEMMA BitTells == \A b1, b2 \in BOOLEAN : Bit(b1) = Bit(b2) => b1 = b2
<1>1. Bit(TRUE) # Bit(FALSE) BY DEF Bit
<1>2. \A b \in BOOLEAN : b = TRUE \/ b = FALSE OBVIOUS
<1> TAKE b1, b2 \in BOOLEAN
<1> HAVE Bit(b1) = Bit(b2)
<1>3. CASE b1 = TRUE
  <2>1. CASE b2 = TRUE BY <1>3, <2>1
  <2>2. CASE b2 = FALSE BY <1>1, <1>3, <2>2
  <2> QED BY <2>1, <2>2
<1>4. CASE b1 = FALSE
  <2>1. CASE b2 = TRUE BY <1>1, <1>4, <2>1
  <2>2. CASE b2 = FALSE BY <1>4, <2>2
  <2> QED BY <2>1, <2>2
<1> QED BY <1>3, <1>4

\* An octet is the two bits of the class, that of the form, and five of the tag.
OctetOf(m, low) == 64 * m.class + (IF m.constructed THEN 32 ELSE 0) + low

LEMMA OctetParts ==
  ASSUME NEW m, NEW n, Tagged(m), Tagged(n), NEW r1 \in 0 .. 31, NEW r2 \in 0 .. 31,
         OctetOf(m, r1) = OctetOf(n, r2)
  PROVE  m.class = n.class /\ m.constructed = n.constructed /\ r1 = r2
<1>1. /\ m.class \in 0 .. 3 /\ n.class \in 0 .. 3
      /\ m.constructed \in BOOLEAN /\ n.constructed \in BOOLEAN
  BY DEF Tagged
<1>2. Bit(m.constructed) \in {0, 32} /\ Bit(n.constructed) \in {0, 32} BY DEF Bit
<1>3. m.class = n.class /\ Bit(m.constructed) = Bit(n.constructed) /\ r1 = r2
  <2>1. 64 * m.class + Bit(m.constructed) + r1 = 64 * n.class + Bit(n.constructed) + r2
    BY DEF Bit, OctetOf
  <2> QED BY <1>1, <1>2, <2>1, Sums
<1>4. m.constructed = n.constructed BY <1>1, <1>3, BitTells, Zenon
<1> QED BY <1>3, <1>4

LEMMA BeginReads ==
  ASSUME IInv, BeginElement, NEW d, NEW f, NEW x, Tagged(f[x]),
         ElementParts(data, Top.p, d, f, x)
  PROVE  HeaderOf(d, f, x)' /\ hdr'.at = Top.p /\ pc' \in {"tag", "length"}
         /\ UNCHANGED <<data, rules, caller, stack, heap, result>>
<1> DEFINE y == data[Top.p + 1]
           r == y % 32
           n == f[x]
           t == IF n.tag < 31 THEN n.tag ELSE 31
           D == Digits(n.tag, 128)
<1>1. /\ Top.p \in Nat /\ hdr' \in Headers /\ hdr'.at = Top.p /\ hdr'.idx = Top.p + 1
      /\ pc' = (IF r = 31 THEN "tag" ELSE "length")
      /\ hdr'.class \in 0 .. 3 /\ hdr'.constructed \in BOOLEAN
      /\ r \in 0 .. 31
      /\ y = 64 * hdr'.class + (IF hdr'.constructed THEN 32 ELSE 0) + r
      /\ hdr'.tag = (IF r = 31 THEN 0 ELSE r)
      /\ UNCHANGED <<data, rules, caller, stack, heap, result>>
  BY BeginFacts
<1>2. /\ y = FirstOctet(n)
      /\ n.tag < 31 => Len(EncodeIdentifier(n)) = 1
  BY Zenon DEF ElementParts, IdentifierAt
<1>3. n.class \in 0 .. 3 /\ n.constructed \in BOOLEAN /\ n.tag \in Nat BY DEF Tagged
<1>4. t \in 0 .. 31 /\ (t = 31 <=> ~ (n.tag < 31)) /\ (n.tag < 31 => t = n.tag)
  <2> HIDE DEF n
  <2> QED BY <1>3
<1>5. y = 64 * n.class + (IF n.constructed THEN 32 ELSE 0) + t BY <1>2 DEF FirstOctet
<1> HIDE DEF y, r, t
<1>6. hdr'.class = n.class /\ hdr'.constructed = n.constructed /\ r = t
  <2>1. Tagged(hdr') /\ Tagged(n)
    <3>1. Tagged(hdr') BY <1>1, TaggedHeader
    <3> QED BY <3>1
  <2>2. OctetOf(hdr', r) = OctetOf(n, t) BY <1>1, <1>5 DEF OctetOf
  <2> HIDE DEF n
  <2> QED BY <1>1, <1>4, <2>1, <2>2, OctetParts
<1>7. CASE n.tag < 31
  <2>1. pc' = "length" /\ hdr'.tag = n.tag /\ hdr'.idx = hdr'.at + Len(EncodeIdentifier(n))
    BY <1>1, <1>2, <1>4, <1>6, <1>7
  <2>2. HeaderOf(d, f, x)' BY <1>6, <2>1 DEF HeaderOf
  <2> QED BY <1>1, <2>1, <2>2
<1>8. CASE ~ (n.tag < 31)
  <2>1. pc' = "tag" /\ hdr'.tag = 0 /\ TagRead' = 0
    BY <1>1, <1>4, <1>6, <1>8 DEF TagRead
  <2>2. DigitsOf(D, n.tag, 128) BY <1>3, TagDigits
  <2>3. PICK V : ReadsAs(V, D, n.tag, 128) BY <2>2, Zenon DEF DigitsOf
  <2>4. V[0] = 0 BY <2>3, Zenon DEF ReadsAs
  <2>5. D \in Seq(0 .. 128 - 1) /\ Len(D) >= 1 BY <2>2, Zenon DEF DigitsOf
  <2>6. 0 < Len(D)
    <3> HIDE DEF D
    <3> QED BY <2>5
  <2>7. TagRead' \in Nat /\ TagRead' < Len(D) /\ hdr'.tag = V[TagRead'] BY <2>1, <2>4, <2>6
  <2>8. HeaderOf(d, f, x)'
    BY <1>6, <1>8, <2>1, <2>3, <2>7, Zenon DEF HeaderOf, D, n
  <2> QED BY <1>1, <2>1, <2>8
<1> QED BY <1>7, <1>8

\* Node x stands where the header that is being read starts, inside the slice.
Reading(d, f, x) ==
  /\ Tagged(f[x]) /\ f[x].tag <= TagMax
  /\ ElementParts(data, hdr.at, d, f, x)
  /\ hdr.at + Len(Encodings(d, f)[x]) <= Top.end

\* The octet of a tag number that comes next, and what it makes of the number.
TagOctetOf(n) ==
  LET s == Digits(n.tag, 128)
      k == TagRead
      y == data[hdr.idx + 1]
  IN /\ hdr.idx < Top.end
     /\ y < 128 <=> k + 1 = Len(s)
     /\ ~ (hdr.idx = hdr.at + 1 /\ y = 128)
     /\ TagSoFar <= TagMax
     /\ \E V : ReadsAs(V, s, n.tag, 128) /\ TagSoFar = V[k + 1]
     /\ k + 1 = Len(s) => TagSoFar = n.tag
     /\ k \in Nat /\ k < Len(s) /\ Len(s) \in Nat

LEMMA TagOctetIs ==
  ASSUME IInv, pc = "tag", NEW d, NEW f, NEW x, HeaderOf(d, f, x), Reading(d, f, x)
  PROVE  TagOctetOf(f[x])
<1> DEFINE n == f[x]
           s == Digits(n.tag, 128)
           k == TagRead
           l == Len(s)
           y == data[hdr.idx + 1]
           a == Len(EncodeIdentifier(n))
           e == Len(Encodings(d, f)[x])
<1>1. /\ hdr.at \in Nat /\ hdr.idx \in Nat /\ hdr.at < hdr.idx /\ hdr.tag \in Nat
      /\ hdr.idx <= Top.end /\ Top.end \in Nat
  <2>1. hdr \in Headers BY InHeader DEF HeaderPcs
  <2> QED BY <2>1, InHeader DEF HeaderPcs, Headers
<1>2. /\ n.tag \in Nat /\ n.tag <= TagMax /\ hdr.at + e <= Top.end
      /\ IdentifierAt(data, hdr.at, n)
      /\ ~ (n.tag < 31) /\ k \in Nat /\ k < l
  BY DEF Reading, Tagged, ElementParts, HeaderOf
<1>3. a = 1 + l /\ e \in Nat /\ e >= a + 1 /\ a \in Nat
  <2> DEFINE c == Len(Content(d, f, x))
             b == Len(EncodeLength(c))
  <2>1. /\ a \in Nat /\ b \in Nat /\ b >= 1 /\ c \in Nat /\ e \in Nat /\ e = a + b + c
        /\ a = 1 + l
    BY <1>2 DEF Reading, ElementParts
  <2> HIDE DEF a, b, c, e
  <2> QED BY <2>1
<1>4. DigitsOf(s, n.tag, 128) BY <1>2, TagDigits
<1>5. s \in Seq(0 .. 127) /\ l >= 1 /\ (n.tag >= 1 => s[1] >= 1)
  <2>1. s \in Seq(0 .. 128 - 1) /\ l >= 1 /\ (n.tag >= 1 => s[1] >= 1)
    BY <1>4, Zenon DEF DigitsOf
  <2>2. 128 - 1 = 127 OBVIOUS
  <2> QED BY <2>1, <2>2
<1>6. \A j \in 1 .. l : s[j] \in 0 .. 127 BY <1>5, ItemIn
<1>7. \A j \in 1 .. l : data[hdr.at + 1 + j] = s[j] + (IF j < l THEN 128 ELSE 0)
  BY <1>2, Zenon DEF IdentifierAt
<1>8. PICK V : ReadsAs(V, s, n.tag, 128) /\ hdr.tag = V[k]
  BY Zenon DEF HeaderOf
<1>9. /\ V \in [0 .. l -> 0 .. n.tag] /\ V[l] = n.tag
      /\ \A j \in 1 .. l : V[j] = 128 * V[j - 1] + s[j]
  BY <1>8, Zenon DEF ReadsAs
<1>10. hdr.idx = hdr.at + 1 + k BY <1>1 DEF TagRead
<1>11. l \in Nat BY <1>5
<1>12. TagSoFar = 128 * hdr.tag + (y % 128) BY DEF TagSoFar, Octet
<1> HIDE DEF n, s, k, l, a, e
<1>13. k + 1 \in 1 .. l /\ (k + 1) - 1 = k BY <1>2, <1>11
<1>14. y = s[k + 1] + (IF k + 1 < l THEN 128 ELSE 0)
  <2>1. data[hdr.at + 1 + (k + 1)] = s[k + 1] + (IF k + 1 < l THEN 128 ELSE 0)
    BY <1>7, <1>13
  <2>2. hdr.at + 1 + (k + 1) = hdr.idx + 1 BY <1>1, <1>2, <1>10
  <2> QED BY <2>1, <2>2
<1>15. s[k + 1] \in 0 .. 127 BY <1>6, <1>13
<1> DEFINE z == s[k + 1]
<1> HIDE DEF y, z
<1>16. (y < 128 <=> k + 1 = l) /\ y \in 0 .. 255 /\ y % 128 = z
  <2>1. z \in 0 .. 127 /\ y = z + (IF k + 1 < l THEN 128 ELSE 0) BY <1>14, <1>15 DEF z
  <2>2. CASE k + 1 < l
    <3>1. y = z + 128 BY <2>1, <2>2
    <3>2. y \in 0 .. 255 /\ ~ (y < 128) /\ y % 128 = z BY <2>1, <3>1
    <3> QED BY <1>11, <1>13, <2>2, <3>2
  <2>3. CASE ~ (k + 1 < l)
    <3>1. y = z BY <2>1, <2>3
    <3>2. y \in 0 .. 255 /\ y < 128 /\ y % 128 = z BY <2>1, <3>1
    <3> QED BY <1>11, <1>13, <2>3, <3>2
  <2> QED BY <2>2, <2>3
<1>17. TagSoFar = V[k + 1]
  BY <1>8, <1>9, <1>12, <1>13, <1>16 DEF z
<1>18. V[k + 1] \in 0 .. n.tag
  <2>1. k + 1 \in 0 .. l BY <1>11, <1>13
  <2> QED BY <1>9, <2>1
<1>19. TagSoFar <= TagMax
  BY <1>2, <1>17, <1>18, LimitsAssumption
<1>20. ~ (hdr.idx = hdr.at + 1 /\ y = 128)
  <2>1. SUFFICES ASSUME hdr.idx = hdr.at + 1, y = 128 PROVE FALSE OBVIOUS
  <2>2. k = 0 BY <1>1, <1>2, <1>10, <2>1
  <2>3. z = 0 BY <1>16, <2>1
  <2>4. s[1] = 0 BY <2>2, <2>3 DEF z
  <2>5. n.tag >= 1 BY <1>2
  <2> QED BY <1>5, <2>4, <2>5
<1>21. hdr.idx < Top.end
  <2>1. hdr.idx < hdr.at + e BY <1>1, <1>2, <1>3, <1>10, <1>11
  <2> QED BY <1>1, <1>2, <1>3, <2>1
<1>22. k + 1 = l => TagSoFar = n.tag
  BY <1>9, <1>17
<1>23. \E W : ReadsAs(W, s, n.tag, 128) /\ TagSoFar = W[k + 1] BY <1>8, <1>17
<1> QED
  BY <1>2, <1>11, <1>16, <1>19, <1>20, <1>21, <1>22, <1>23, Zenon
     DEF TagOctetOf, n, s, k, l, y

LEMMA TagReads ==
  ASSUME IInv, TagOctet, NEW d, NEW f, NEW x, HeaderOf(d, f, x), Reading(d, f, x)
  PROVE  HeaderOf(d, f, x)'
<1> DEFINE n == f[x]
           s == Digits(n.tag, 128)
           k == TagRead
           y == data[hdr.idx + 1]
           a == Len(EncodeIdentifier(n))
<1>1. /\ pc = "tag" /\ hdr.at \in Nat /\ hdr.idx \in Nat /\ hdr.at < hdr.idx
      /\ hdr' \in Headers /\ hdr'.at = hdr.at /\ hdr'.idx = hdr.idx + 1
      /\ hdr'.class = hdr.class /\ hdr'.constructed = hdr.constructed
      /\ hdr'.tag = TagSoFar
      /\ pc' = (IF y < 128 THEN "length" ELSE "tag")
  BY TagFacts
<1>2. /\ y < 128 <=> k + 1 = Len(s)
      /\ \E V : ReadsAs(V, s, n.tag, 128) /\ TagSoFar = V[k + 1]
      /\ k + 1 = Len(s) => TagSoFar = n.tag
      /\ k \in Nat /\ k < Len(s) /\ Len(s) \in Nat
  <2>1. TagOctetOf(f[x]) BY <1>1, TagOctetIs
  <2> QED BY <2>1, Zenon DEF TagOctetOf
<1>3. TagRead' = k + 1 /\ hdr.idx = hdr.at + 1 + k BY <1>1 DEF TagRead
<1>4. hdr.class = n.class /\ hdr.constructed = n.constructed /\ ~ (n.tag < 31)
  BY <1>1 DEF HeaderOf
<1>5. a = 1 + Len(s) BY <1>4 DEF Reading, ElementParts
<1> HIDE DEF y
<1>6. CASE y < 128
  <2>1. /\ pc' = "length" /\ hdr'.tag = n.tag
        /\ hdr'.class = n.class /\ hdr'.constructed = n.constructed
    BY <1>1, <1>2, <1>4, <1>6
  <2>2. hdr'.idx = hdr'.at + a
    <3> HIDE DEF a, s, k
    <3> QED BY <1>1, <1>2, <1>3, <1>5, <1>6
  <2> QED BY <2>1, <2>2 DEF HeaderOf
<1>7. CASE ~ (y < 128)
  <2>1. /\ pc' = "tag" /\ hdr'.tag = TagSoFar
        /\ hdr'.class = n.class /\ hdr'.constructed = n.constructed
    BY <1>1, <1>4, <1>7
  <2>2. TagRead' \in Nat /\ TagRead' < Len(s)
    <3> HIDE DEF s, k
    <3> QED BY <1>2, <1>3, <1>7
  <2>3. \E V : ReadsAs(V, s, n.tag, 128) /\ hdr'.tag = V[TagRead']
    BY <1>2, <1>3, <2>1
  <2> QED BY <1>4, <2>1, <2>2, <2>3, Zenon DEF HeaderOf
<1> QED BY <1>6, <1>7

LEMMA NoTagError ==
  ASSUME IInv, NEW d, NEW f, NEW x, HeaderOf(d, f, x), Reading(d, f, x)
  PROVE  ~ TagError
<1>1. SUFFICES ASSUME TagError PROVE FALSE OBVIOUS
<1>2. pc = "tag" BY <1>1 DEF TagError
<1> DEFINE y == data[hdr.idx + 1]
<1>3. /\ hdr.idx < Top.end /\ ~ (hdr.idx = hdr.at + 1 /\ y = 128)
      /\ TagSoFar <= TagMax /\ (y < 128 => TagSoFar = f[x].tag)
  <2>1. TagOctetOf(f[x]) BY <1>2, TagOctetIs
  <2> QED BY <2>1, Zenon DEF TagOctetOf
<1>4. ~ (f[x].tag < 31) BY <1>2 DEF HeaderOf
<1>5. /\ hdr.idx \in Nat /\ hdr.at \in Nat /\ Top.end \in Nat /\ hdr.tag \in Nat /\ y \in 0 .. 255
  <2>1. hdr \in Headers /\ (hdr.idx < Top.end => Octet(hdr.idx) \in Octets)
        /\ Top.end \in Nat
    BY <1>2, InHeader DEF HeaderPcs
  <2> QED BY <1>3, <2>1 DEF Headers, Octet, Octets
<1>6. TagSoFar \in Nat
  <2>1. y % 128 \in 0 .. 127 BY <1>5, LowBits
  <2>2. TagSoFar = 128 * hdr.tag + (y % 128) BY DEF TagSoFar, Octet
  <2> HIDE DEF y
  <2> QED BY <1>5, <2>1, <2>2
<1>7. \/ hdr.idx >= Top.end
      \/ hdr.idx = hdr.at + 1 /\ y = 128
      \/ TagSoFar > TagMax
      \/ y < 128 /\ TagSoFar < 31
  BY <1>1 DEF TagError, Octet
<1> HIDE DEF y
<1>8. ~ (hdr.idx >= Top.end) BY <1>3, <1>5
<1>9. ~ (TagSoFar > TagMax) BY <1>3, <1>6, LimitsAssumption
<1>10. ~ (y < 128 /\ TagSoFar < 31) BY <1>3, <1>4
<1> QED BY <1>3, <1>7, <1>8, <1>9, <1>10

\* The first length octet of an element with contents of c octets.
LengthOctetOf(c) ==
  LET l == Len(Digits(c, 256))
      y == data[hdr.idx + 1]
  IN /\ hdr.idx < Top.end
     /\ c < 128 => y = c
     /\ ~ (c < 128) => /\ y = 128 + l /\ l \in 1 .. MaxLengthOctets
                       /\ hdr.idx + 1 + l <= Top.end
                       /\ l > 1 => data[hdr.idx + 2] # 0

\* The numbers of octets that the parts of x take.
LEMMA PartLengths ==
  ASSUME IInv, pc \in HeaderPcs, NEW d, NEW f, NEW x, Reading(d, f, x)
  PROVE  /\ Len(EncodeIdentifier(f[x])) \in Nat
         /\ Len(EncodeLength(Len(Content(d, f, x)))) \in Nat
         /\ Len(EncodeLength(Len(Content(d, f, x)))) >= 1
         /\ Len(Content(d, f, x)) \in Nat
         /\ hdr.at + Len(EncodeIdentifier(f[x])) + Len(EncodeLength(Len(Content(d, f, x))))
              + Len(Content(d, f, x)) <= Top.end
         /\ Len(EncodeIdentifier(f[x])) + Len(EncodeLength(Len(Content(d, f, x))))
              + Len(Content(d, f, x)) <= UsizeMax
         /\ LengthAt(data, hdr.at + Len(EncodeIdentifier(f[x])), Len(Content(d, f, x)))
         /\ Len(Content(d, f, x)) < 128 => Len(EncodeLength(Len(Content(d, f, x)))) = 1
         /\ ~ (Len(Content(d, f, x)) < 128) =>
              /\ Len(EncodeLength(Len(Content(d, f, x)))) = 1 + Len(Digits(Len(Content(d, f, x)), 256))
              /\ Len(Digits(Len(Content(d, f, x)), 256)) \in 1 .. MaxLengthOctets
         /\ hdr.at \in Nat /\ hdr.idx \in Nat /\ hdr.left \in Nat /\ hdr.len \in Nat
         /\ Top.end \in Nat /\ hdr.at < hdr.idx /\ hdr.idx <= Top.end
<1> DEFINE a == Len(EncodeIdentifier(f[x]))
           c == Len(Content(d, f, x))
           b == Len(EncodeLength(c))
           e == Len(Encodings(d, f)[x])
<1>1. /\ a \in Nat /\ b \in Nat /\ b >= 1 /\ c \in Nat /\ e \in Nat
      /\ e = a + b + c /\ e <= UsizeMax /\ hdr.at + e <= Top.end
      /\ LengthAt(data, hdr.at + a, c)
      /\ c < 128 => b = 1
      /\ ~ (c < 128) => b = 1 + Len(Digits(c, 256)) /\ Len(Digits(c, 256)) \in 1 .. MaxLengthOctets
  BY Zenon DEF Reading, ElementParts
<1>2. /\ hdr.at \in Nat /\ hdr.idx \in Nat /\ hdr.left \in Nat /\ hdr.len \in Nat
      /\ Top.end \in Nat /\ hdr.at < hdr.idx /\ hdr.idx <= Top.end
  BY InHeader
<1> HIDE DEF a, b, c, e
<1>3. hdr.at + a + b + c <= Top.end /\ a + b + c <= UsizeMax
  <2>1. hdr.at + (a + b + c) <= Top.end /\ a + b + c <= UsizeMax BY <1>1
  <2>2. hdr.at + (a + b + c) = hdr.at + a + b + c BY <1>1, <1>2
  <2> QED BY <2>1, <2>2
<1> QED BY <1>1, <1>2, <1>3, Zenon DEF a, b, c, e

LEMMA LengthOctetIs ==
  ASSUME IInv, pc = "length", NEW d, NEW f, NEW x, HeaderOf(d, f, x), Reading(d, f, x)
  PROVE  LengthOctetOf(Len(Content(d, f, x)))
<1> DEFINE a == Len(EncodeIdentifier(f[x]))
           c == Len(Content(d, f, x))
           b == Len(EncodeLength(c))
           s == Digits(c, 256)
           l == Len(s)
           y == data[hdr.idx + 1]
<1>1. /\ a \in Nat /\ b \in Nat /\ b >= 1 /\ c \in Nat
      /\ hdr.at + a + b + c <= Top.end /\ hdr.at \in Nat /\ Top.end \in Nat
      /\ LengthAt(data, hdr.at + a, c)
      /\ ~ (c < 128) => b = 1 + l /\ l \in 1 .. MaxLengthOctets
  BY PartLengths DEF HeaderPcs
<1>2. hdr.idx = hdr.at + a BY DEF HeaderOf
<1>3. /\ c < 128 => y = c
      /\ ~ (c < 128) => /\ y = 128 + l
                        /\ \A k \in 1 .. l : data[hdr.idx + 1 + k] = s[k]
  BY <1>1, <1>2, Zenon DEF LengthAt
<1>4. DigitsOf(s, c, 256) BY <1>1, LengthDigits
<1>5. c >= 1 => s[1] >= 1 BY <1>4, Zenon DEF DigitsOf
<1> HIDE DEF a, b, c, s, l, y
<1>6. hdr.idx < Top.end BY <1>1, <1>2
<1>7. ASSUME ~ (c < 128)
      PROVE  hdr.idx + 1 + l <= Top.end /\ (l > 1 => data[hdr.idx + 2] # 0)
  <2>1. hdr.idx + 1 + l <= Top.end
    <3>1. l \in Nat /\ b = 1 + l BY <1>1, <1>7, LimitsAssumption
    <3> QED BY <1>1, <1>2, <3>1
  <2>2. 1 \in 1 .. l /\ hdr.idx + 1 + 1 = hdr.idx + 2
    <3>1. l \in Nat /\ l >= 1 BY <1>1, <1>7, LimitsAssumption
    <3>2. hdr.idx \in Nat BY <1>1, <1>2
    <3> QED BY <3>1, <3>2
  <2>3. data[hdr.idx + 1 + 1] = s[1] BY <1>3, <1>7, <2>2
  <2>4. s[1] >= 1 BY <1>1, <1>5, <1>7
  <2> QED BY <2>1, <2>2, <2>3, <2>4
<1> QED BY <1>1, <1>3, <1>6, <1>7, Zenon DEF LengthOctetOf, c, s, l, y

LEMMA ShortReads ==
  ASSUME IInv, ShortLength, NEW d, NEW f, NEW x, HeaderOf(d, f, x), Reading(d, f, x)
  PROVE  HeaderOf(d, f, x)'
<1> DEFINE c == Len(Content(d, f, x))
           a == Len(EncodeIdentifier(f[x]))
           b == Len(EncodeLength(c))
           y == data[hdr.idx + 1]
           l == Len(Digits(c, 256))
<1>1. /\ pc = "length" /\ pc' = "body" /\ y \in 0 .. 127
      /\ hdr'.at = hdr.at /\ hdr'.idx = hdr.idx + 1
      /\ hdr'.class = hdr.class /\ hdr'.constructed = hdr.constructed
      /\ hdr'.tag = hdr.tag /\ hdr'.len = y
  BY ShortFacts
<1>2. LengthOctetOf(c) BY <1>1, LengthOctetIs
<1>3. /\ c < 128 => y = c
      /\ ~ (c < 128) => y = 128 + l /\ l \in 1 .. MaxLengthOctets
  BY <1>2, Zenon DEF LengthOctetOf
<1>4. a \in Nat /\ b \in Nat /\ c \in Nat /\ (c < 128 => b = 1) /\ hdr.at \in Nat
  BY <1>1, PartLengths DEF HeaderPcs
<1>5. /\ hdr.class = f[x].class /\ hdr.constructed = f[x].constructed /\ hdr.tag = f[x].tag
      /\ hdr.idx = hdr.at + a
  BY <1>1 DEF HeaderOf
<1>6. c < 128 /\ y = c /\ b = 1
  <2> HIDE DEF c, y, b, l, a
  <2>1. CASE c < 128 BY <1>3, <1>4, <2>1
  <2>2. CASE ~ (c < 128)
    <3>1. y = 128 + l /\ l \in Nat BY <1>3, <2>2, LimitsAssumption
    <3> QED BY <1>1, <3>1
  <2> QED BY <2>1, <2>2
<1>7. hdr'.idx = hdr'.at + a + b
  <2> HIDE DEF a, b, c, y
  <2> QED BY <1>1, <1>4, <1>5, <1>6
<1>8. hdr'.len = c BY <1>1, <1>6
<1> QED BY <1>1, <1>5, <1>7, <1>8 DEF HeaderOf

LEMMA LongReads ==
  ASSUME IInv, LongLength, NEW d, NEW f, NEW x, HeaderOf(d, f, x), Reading(d, f, x)
  PROVE  HeaderOf(d, f, x)'
<1> DEFINE c == Len(Content(d, f, x))
           a == Len(EncodeIdentifier(f[x]))
           y == data[hdr.idx + 1]
           s == Digits(c, 256)
           l == Len(s)
           k == hdr'.idx - hdr'.at - a - 1
<1>1. /\ pc = "length" /\ pc' = "longlength" /\ y \in 129 .. 254
      /\ hdr'.at = hdr.at /\ hdr'.idx = hdr.idx + 1
      /\ hdr'.class = hdr.class /\ hdr'.constructed = hdr.constructed
      /\ hdr'.tag = hdr.tag /\ hdr'.len = 0 /\ hdr'.left = y - 128
  BY LongFacts
<1>2. LengthOctetOf(c) BY <1>1, LengthOctetIs
<1>3. /\ c < 128 => y = c
      /\ ~ (c < 128) => y = 128 + l /\ l \in 1 .. MaxLengthOctets
  BY <1>2, Zenon DEF LengthOctetOf
<1>4. a \in Nat /\ c \in Nat /\ hdr.at \in Nat
  BY <1>1, PartLengths DEF HeaderPcs
<1>5. /\ hdr.class = f[x].class /\ hdr.constructed = f[x].constructed /\ hdr.tag = f[x].tag
      /\ hdr.idx = hdr.at + a
  BY <1>1 DEF HeaderOf
<1>6. DigitsOf(s, c, 256) BY <1>4, LengthDigits
<1>7. PICK V : ReadsAs(V, s, c, 256) BY <1>6, Zenon DEF DigitsOf
<1>8. V[0] = 0 BY <1>7, Zenon DEF ReadsAs
<1>9. ~ (c < 128) /\ k = 0 /\ k \in Nat /\ k + hdr'.left = l
  <2>1. k = 0 BY <1>1, <1>4, <1>5
  <2> HIDE DEF c, y, l, k, s
  <2>2. ~ (c < 128) BY <1>1, <1>3
  <2>3. y = 128 + l /\ l \in Nat BY <1>3, <2>2, LimitsAssumption
  <2> QED BY <1>1, <2>1, <2>2, <2>3
<1>10. hdr'.len = V[k] BY <1>1, <1>8, <1>9
<1>11. \E W : ReadsAs(W, s, c, 256) /\ hdr'.len = W[k] BY <1>7, <1>10
<1>12. /\ hdr'.class = f[x].class /\ hdr'.constructed = f[x].constructed
       /\ hdr'.tag = f[x].tag /\ pc' = "longlength"
  BY <1>1, <1>5
<1> QED BY <1>9, <1>11, <1>12 DEF HeaderOf

LEMMA NoLengthError ==
  ASSUME IInv, NEW d, NEW f, NEW x, HeaderOf(d, f, x), Reading(d, f, x)
  PROVE  ~ LengthError /\ ~ IndefiniteLength
<1>1. SUFFICES ASSUME LengthError \/ IndefiniteLength PROVE FALSE OBVIOUS
<1> DEFINE c == Len(Content(d, f, x))
           y == data[hdr.idx + 1]
           l == Len(Digits(c, 256))
<1>2. pc = "length" BY <1>1 DEF LengthError, IndefiniteLength
<1>3. LengthOctetOf(c) BY <1>2, LengthOctetIs
<1>4. /\ hdr.idx < Top.end
      /\ c < 128 => y = c
      /\ ~ (c < 128) => /\ y = 128 + l /\ l \in 1 .. MaxLengthOctets
                        /\ hdr.idx + 1 + l <= Top.end
                        /\ l > 1 => data[hdr.idx + 2] # 0
  BY <1>3, Zenon DEF LengthOctetOf
<1>5. /\ c \in Nat /\ hdr.idx \in Nat /\ Top.end \in Nat
  BY <1>2, PartLengths DEF HeaderPcs
<1>6. \/ hdr.idx >= Top.end
      \/ y = 128
      \/ y = 255
      \/ y \in 129 .. 254 /\ \/ y - 128 > MaxLengthOctets
                             \/ hdr.idx + 1 + (y - 128) > Top.end
                             \/ y - 128 > 1 /\ data[(hdr.idx + 1) + 1] = 0
  BY <1>1 DEF LengthError, IndefiniteLength, PaddedLength, Announced, Octet
<1>7. (hdr.idx + 1) + 1 = hdr.idx + 2 BY <1>5
<1> HIDE DEF c, y, l
<1>8. CASE c < 128
  <2>1. y \in 0 .. 127 BY <1>4, <1>5, <1>8
  <2> QED BY <1>4, <1>5, <1>6, <2>1
<1>9. CASE ~ (c < 128)
  <2>1. /\ y - 128 = l /\ l \in 1 .. 8 /\ l <= MaxLengthOctets /\ MaxLengthOctets \in Nat
    <3>1. y = 128 + l /\ l \in 1 .. MaxLengthOctets BY <1>4, <1>9
    <3> QED BY <3>1, LimitsAssumption
  <2>2. hdr.idx + 1 + (y - 128) <= Top.end BY <1>4, <1>9, <2>1
  <2>3. ~ (y - 128 > 1 /\ data[(hdr.idx + 1) + 1] = 0) BY <1>4, <1>7, <1>9, <2>1
  <2>4. y \in 129 .. 136 BY <1>4, <1>9, <2>1
  <2>5. ~ (hdr.idx + 1 + (y - 128) > Top.end)
    <3> DEFINE z == hdr.idx + 1 + (y - 128)
    <3>1. z \in Int /\ z <= Top.end BY <1>5, <2>2, <2>4
    <3> HIDE DEF z
    <3>2. ~ (z > Top.end) BY <1>5, <3>1
    <3> QED BY <3>2 DEF z
  <2>6. ~ (y - 128 > MaxLengthOctets) BY <2>1
  <2>7. ~ (hdr.idx >= Top.end) BY <1>4, <1>5
  <2>8. y # 128 /\ y # 255 BY <2>4
  <2> QED BY <1>6, <2>3, <2>5, <2>6, <2>7, <2>8
<1> QED BY <1>8, <1>9

LEMMA LongOctetReads ==
  ASSUME IInv, LongLengthOctet, NEW d, NEW f, NEW x, HeaderOf(d, f, x), Reading(d, f, x)
  PROVE  HeaderOf(d, f, x)'
<1> DEFINE c == Len(Content(d, f, x))
           a == Len(EncodeIdentifier(f[x]))
           y == data[hdr.idx + 1]
           s == Digits(c, 256)
           l == Len(s)
           k == hdr.idx - hdr.at - a - 1
<1>1. /\ pc = "longlength" /\ pc' = "longlength" /\ hdr.left \in Nat /\ hdr.left > 0
      /\ hdr.idx \in Nat /\ hdr.len \in Nat
      /\ hdr'.at = hdr.at /\ hdr'.idx = hdr.idx + 1
      /\ hdr'.class = hdr.class /\ hdr'.constructed = hdr.constructed
      /\ hdr'.tag = hdr.tag /\ hdr'.len = 256 * hdr.len + y
      /\ hdr'.left = hdr.left - 1
  BY LongOctetFacts
<1>2. /\ hdr.class = f[x].class /\ hdr.constructed = f[x].constructed /\ hdr.tag = f[x].tag
      /\ ~ (c < 128) /\ k \in Nat /\ k + hdr.left = l
      /\ \E V : ReadsAs(V, s, c, 256) /\ hdr.len = V[k]
  BY <1>1, Zenon DEF HeaderOf
<1>3. PICK V : ReadsAs(V, s, c, 256) /\ hdr.len = V[k] BY <1>2
<1>4. \A j \in 1 .. l : V[j] = 256 * V[j - 1] + s[j] BY <1>3, Zenon DEF ReadsAs
<1>5. a \in Nat /\ c \in Nat /\ hdr.at \in Nat /\ LengthAt(data, hdr.at + a, c)
  BY <1>1, PartLengths DEF HeaderPcs
<1>6. \A j \in 1 .. l : data[hdr.at + a + 1 + j] = s[j]
  BY <1>2, <1>5, Zenon DEF LengthAt
<1>7. hdr.idx = hdr.at + a + 1 + k BY <1>1, <1>5
<1>8. hdr'.idx - hdr'.at - a - 1 = k + 1 BY <1>1, <1>5
<1> HIDE DEF c, a, y, s, l, k
<1>9. k + 1 \in 1 .. l /\ (k + 1) - 1 = k /\ (k + 1) + (hdr.left - 1) = l BY <1>1, <1>2
<1>10. y = s[k + 1]
  <2>1. data[hdr.at + a + 1 + (k + 1)] = s[k + 1] BY <1>6, <1>9
  <2>2. hdr.at + a + 1 + (k + 1) = hdr.idx + 1 BY <1>2, <1>5, <1>7
  <2> QED BY <2>1, <2>2 DEF y
<1>11. hdr'.len = V[k + 1] BY <1>1, <1>3, <1>4, <1>9, <1>10
<1>12. \E W : ReadsAs(W, s, c, 256) /\ hdr'.len = W[k + 1] BY <1>3, <1>11
<1>13. /\ hdr'.class = f[x].class /\ hdr'.constructed = f[x].constructed
       /\ hdr'.tag = f[x].tag /\ pc' = "longlength" /\ (k + 1) + hdr'.left = l
       /\ k + 1 \in Nat /\ hdr'.idx - hdr'.at - a - 1 = k + 1
  BY <1>1, <1>2, <1>8, <1>9
<1> DEFINE m == k + 1
<1>14. /\ hdr'.idx - hdr'.at - a - 1 = m /\ m \in Nat /\ m + hdr'.left = l
       /\ \E W : ReadsAs(W, s, c, 256) /\ hdr'.len = W[m]
  BY <1>12, <1>13
<1> HIDE DEF m
<1>15. ~ (c < 128) BY <1>2
<1> QED BY <1>13, <1>14, <1>15, Zenon DEF HeaderOf, a, c, s, l

\* All the length octets are read.
LEMMA LengthIsComplete ==
  ASSUME IInv, pc = "longlength", hdr.left = 0,
         NEW d, NEW f, NEW x, HeaderOf(d, f, x), Reading(d, f, x)
  PROVE  /\ hdr.len = Len(Content(d, f, x)) /\ ~ (hdr.len < 128) /\ hdr.len <= UsizeMax
         /\ hdr.len \in Nat
         /\ hdr.idx = hdr.at + Len(EncodeIdentifier(f[x]))
                        + Len(EncodeLength(Len(Content(d, f, x))))
<1> DEFINE c == Len(Content(d, f, x))
           a == Len(EncodeIdentifier(f[x]))
           b == Len(EncodeLength(c))
           s == Digits(c, 256)
           l == Len(s)
           k == hdr.idx - hdr.at - a - 1
<1>1. /\ ~ (c < 128) /\ k \in Nat /\ k + hdr.left = l
      /\ \E V : ReadsAs(V, s, c, 256) /\ hdr.len = V[k]
  BY Zenon DEF HeaderOf
<1>2. PICK V : ReadsAs(V, s, c, 256) /\ hdr.len = V[k] BY <1>1
<1>3. V[l] = c BY <1>2, Zenon DEF ReadsAs
<1>4. /\ a \in Nat /\ b \in Nat /\ c \in Nat /\ hdr.at \in Nat /\ hdr.idx \in Nat
      /\ a + b + c <= UsizeMax /\ (~ (c < 128) => b = 1 + l)
  BY PartLengths DEF HeaderPcs
<1>5. hdr.idx = hdr.at + a + 1 + k BY <1>4
<1> HIDE DEF c, a, b, s, l, k
<1>6. k = l BY <1>1
<1>7. hdr.len = c BY <1>2, <1>3, <1>6
<1>8. c <= UsizeMax /\ UsizeMax \in Nat BY <1>4, LimitsAssumption
<1>9. hdr.idx = hdr.at + a + b BY <1>1, <1>4, <1>5, <1>6
<1> QED BY <1>1, <1>4, <1>7, <1>8, <1>9 DEF c, a, b

LEMMA LongEndReads ==
  ASSUME IInv, LongLengthEnd, NEW d, NEW f, NEW x, HeaderOf(d, f, x), Reading(d, f, x)
  PROVE  HeaderOf(d, f, x)'
<1>1. pc = "longlength" /\ hdr.left = 0 /\ pc' = "body" /\ hdr' = hdr
  BY DEF LongLengthEnd
<1>2. /\ hdr.len = Len(Content(d, f, x))
      /\ hdr.idx = hdr.at + Len(EncodeIdentifier(f[x])) + Len(EncodeLength(Len(Content(d, f, x))))
  BY <1>1, LengthIsComplete
<1>3. hdr.class = f[x].class /\ hdr.constructed = f[x].constructed /\ hdr.tag = f[x].tag
  BY <1>1 DEF HeaderOf
<1> QED BY <1>1, <1>2, <1>3 DEF HeaderOf

LEMMA NoLongLengthError ==
  ASSUME IInv, NEW d, NEW f, NEW x, HeaderOf(d, f, x), Reading(d, f, x)
  PROVE  ~ LongLengthError
<1>1. SUFFICES ASSUME LongLengthError PROVE FALSE OBVIOUS
<1>2. /\ pc = "longlength" /\ hdr.left = 0 /\ (hdr.len < 128 \/ hdr.len > UsizeMax)
  BY <1>1 DEF LongLengthError, NeedlesslyLong
<1>3. ~ (hdr.len < 128) /\ hdr.len <= UsizeMax /\ hdr.len \in Nat
  BY <1>2, LengthIsComplete
<1> QED BY <1>2, <1>3, LimitsAssumption

LEMMA BodyIs ==
  ASSUME IInv, pc = "body", NEW d, NEW f, NEW x, HeaderOf(d, f, x), Reading(d, f, x)
  PROVE  /\ HeaderLen + hdr.len = Len(Encodings(d, f)[x])
         /\ HeaderLen + hdr.len <= UsizeMax /\ HeaderLen + hdr.len \in Nat
         /\ hdr.idx + hdr.len = hdr.at + Len(Encodings(d, f)[x])
         /\ hdr.idx + hdr.len <= Top.end /\ DefiniteEnd = hdr.idx + hdr.len
         /\ DefiniteEnd \in Nat /\ Top.end \in Nat
         /\ hdr.len = Len(Content(d, f, x))
         /\ Stands(data, hdr.idx, Content(d, f, x))
         /\ hdr.class = f[x].class /\ hdr.constructed = f[x].constructed /\ hdr.tag = f[x].tag
<1> DEFINE c == Len(Content(d, f, x))
           a == Len(EncodeIdentifier(f[x]))
           b == Len(EncodeLength(c))
           e == Len(Encodings(d, f)[x])
<1>1. /\ hdr.class = f[x].class /\ hdr.constructed = f[x].constructed /\ hdr.tag = f[x].tag
      /\ hdr.len = c /\ hdr.idx = hdr.at + a + b
  BY DEF HeaderOf
<1>2. /\ a \in Nat /\ b \in Nat /\ c \in Nat /\ hdr.at \in Nat /\ hdr.idx \in Nat
      /\ hdr.at + a + b + c <= Top.end /\ a + b + c <= UsizeMax /\ Top.end \in Nat
  BY PartLengths DEF HeaderPcs
<1>3. e = a + b + c /\ Stands(data, hdr.at + a + b, Content(d, f, x))
  BY Zenon DEF Reading, ElementParts
<1>4. Stands(data, hdr.idx, Content(d, f, x)) BY <1>1, <1>3
<1> HIDE DEF a, b, c, e
<1>5. HeaderLen = a + b BY <1>1, <1>2 DEF HeaderLen
<1>6. DefiniteEnd = hdr.at + (a + b) + c BY <1>1, <1>5 DEF DefiniteEnd
<1>7. HeaderLen + hdr.len = e /\ HeaderLen + hdr.len <= UsizeMax /\ HeaderLen + hdr.len \in Nat
  BY <1>1, <1>2, <1>3, <1>5
<1>8. /\ hdr.idx + hdr.len = hdr.at + e /\ hdr.idx + hdr.len <= Top.end
      /\ DefiniteEnd = hdr.idx + hdr.len /\ DefiniteEnd \in Nat
  BY <1>1, <1>2, <1>3, <1>6
<1> QED BY <1>1, <1>2, <1>4, <1>7, <1>8 DEF c, e

LEMMA NoBodyError ==
  ASSUME IInv, NEW d, NEW f, NEW x, HeaderOf(d, f, x), Reading(d, f, x)
  PROVE  ~ BodyError
<1>1. SUFFICES ASSUME BodyError PROVE FALSE OBVIOUS
<1>2. pc = "body" /\ (HeaderLen + hdr.len > UsizeMax \/ DefiniteEnd > Top.end)
  BY <1>1 DEF BodyError, SumOverflows
<1> DEFINE u == HeaderLen + hdr.len
<1>3. /\ u <= UsizeMax /\ u \in Nat /\ DefiniteEnd <= Top.end
      /\ DefiniteEnd \in Nat /\ Top.end \in Nat
  BY <1>2, BodyIs
<1> HIDE DEF u
<1>4. u > UsizeMax \/ DefiniteEnd > Top.end BY <1>2 DEF u
<1> QED BY <1>3, <1>4, LimitsAssumption

-----------------------------------------------------------------------------
(* Reading back what was written goes through the forest it was written from: *)
(* the calls in progress are a path of f, and what they have collected are    *)
(* copies of its nodes.                                                       *)

\* Frame fr is in the contents of node i, in blob w.
FrameIs(w, d, f, r, twin, i, fr) ==
  /\ Stands(w, fr.content, ContentIn(d, f, r, i))
  /\ fr.end = fr.content + Len(ContentIn(d, f, r, i))
  /\ Len(fr.kids) <= Len(LineIn(d, f, r, i))
  /\ fr.p = fr.content + CutIn(d, f, r, i)[Len(fr.kids)]
  /\ \A k \in DOMAIN fr.kids : twin[fr.kids[k]] = LineIn(d, f, r, i)[k]

\* Frame g is that of node j, the next of the children of node i, whose frame is fr.
InnerIs(d, f, r, i, fr, j, g) ==
  /\ Len(fr.kids) < Len(LineIn(d, f, r, i)) /\ j = LineIn(d, f, r, i)[Len(fr.kids) + 1]
  /\ j \in DOMAIN f
  /\ g.kind = "definite" /\ g.class = f[j].class /\ g.tag = f[j].tag
  /\ g.end = g.at + Len(Encodings(d, f)[j])

\* n, in blob w, is a copy of node i.
NodeIs(w, d, f, twin, i, n) ==
  /\ i \in DOMAIN f
  /\ n.class = f[i].class /\ n.tag = f[i].tag /\ n.constructed = f[i].constructed
  /\ ~ n.constructed => SubSeq(w, ContentStart(n) + 1, ContentEnd(n))
                          = SubSeq(d, ContentStart(f[i]) + 1, ContentEnd(f[i]))
  /\ Len(n.kids) = Len(f[i].kids)
  /\ \A k \in DOMAIN n.kids : twin[n.kids[k]] = Line(d, f, i)[k]
  /\ Stands(w, n.offset, Encodings(d, f)[i])
  /\ n.offset + Len(Encodings(d, f)[i]) = End(n)

PathIs(d, f, r, level, path) ==
  /\ path[1] = 0
  /\ \A m \in DOMAIN stack : Opens(d, f, path[m]) /\ LevelIn(level, path[m]) = m - 1
  /\ \A m \in 1 .. Len(stack) - 1 :
       InnerIs(d, f, r, path[m], stack[m], path[m + 1], stack[m + 1])

FramesCopy(d, f, r, path, twin) ==
  \A m \in DOMAIN stack : FrameIs(data, d, f, r, twin, path[m], stack[m])

NodesCopy(d, f, twin) == \A h \in DOMAIN heap : NodeIs(data, d, f, twin, twin[h], heap[h])

\* The child that frame m goes on to read.
NextChild(d, f, r, path, m) == LineIn(d, f, r, path[m])[Len(stack[m].kids) + 1]
HasNext(d, f, r, path, m) == Len(stack[m].kids) < Len(LineIn(d, f, r, path[m]))

HeaderCopies(d, f, r, path) ==
  pc \in HeaderPcs =>
    /\ HasNext(d, f, r, path, Len(stack))
    /\ HeaderOf(d, f, NextChild(d, f, r, path, Len(stack)))

Copies(d, f, r, level, path, twin) ==
  /\ result.kind \in {"pending", "ok"}
  /\ PathIs(d, f, r, level, path)
  /\ FramesCopy(d, f, r, path, twin)
  /\ NodesCopy(d, f, twin)
  /\ HeaderCopies(d, f, r, path)

\* Where the next child of frame m stands.
ChildStands(d, f, level, fr, m, x) ==
  /\ x \in DOMAIN f /\ level[x] = m - 1 /\ level[x] <= MaxNesting
  /\ Len(Encodings(d, f)[x]) \in Nat /\ Len(Encodings(d, f)[x]) <= UsizeMax
  /\ Stands(data, fr.p, Encodings(d, f)[x])
  /\ fr.p + Len(Encodings(d, f)[x]) <= fr.end
  /\ Tagged(f[x]) /\ f[x].tag <= TagMax
  /\ ElementParts(data, fr.p, d, f, x)

LEMMA NextIs ==
  ASSUME IInv, NEW d, NEW f, NEW r, NEW level, Given(d, f, r, level), NEW path, NEW twin,
         Copies(d, f, r, level, path, twin), NEW m \in DOMAIN stack, HasNext(d, f, r, path, m)
  PROVE  /\ ChildStands(d, f, level, stack[m], m, NextChild(d, f, r, path, m))
         /\ stack[m].p + Len(Encodings(d, f)[NextChild(d, f, r, path, m)])
              = stack[m].content + CutIn(d, f, r, path[m])[Len(stack[m].kids) + 1]
<1> DEFINE i == path[m]
           fr == stack[m]
           line == LineIn(d, f, r, i)
           content == ContentIn(d, f, r, i)
           at == CutIn(d, f, r, i)
           k == Len(fr.kids)
           x == NextChild(d, f, r, path, m)
           e == Len(Encodings(d, f)[x])
<1>1. /\ Forest(d, f) /\ Levels(level, f) BY DEF Given
<1>2. /\ Opens(d, f, i) /\ LevelIn(level, i) = m - 1
      /\ FrameIs(data, d, f, r, twin, i, fr)
  BY DEF Copies, PathIs, FramesCopy
<1>3. ReadsOn(d, f, level, line, content, at, m - 1) BY <1>2, LineReadsOn
<1>4. /\ Stands(data, fr.content, content)
      /\ fr.end = fr.content + Len(content) /\ fr.p = fr.content + at[k]
  BY <1>2, Zenon DEF FrameIs
<1>5. data \in Seq(Octets) /\ fr \in Frames /\ fr.kids \in Seq(Nat) /\ fr.content \in Nat
      /\ k \in Nat /\ k < Len(line)
  <2>1. data \in Seq(Octets) /\ stack \in Seq(Frames) BY DEF IInv, Typed
  <2>2. fr \in Frames BY <2>1
  <2>3. fr.kids \in Seq(Nat) /\ fr.content \in Nat BY <2>2 DEF Frames
  <2>4. k < Len(line) BY DEF HasNext
  <2> QED BY <2>1, <2>2, <2>3, <2>4
<1>6. x = line[k + 1] BY DEF NextChild
<1> HIDE DEF i, fr, line, content, at, k, x
<1>7. /\ at[k] \in Nat /\ at[k + 1] \in Nat
      /\ at[k + 1] = at[k] + e /\ at[k + 1] <= Len(content)
      /\ x \in DOMAIN f /\ level[x] = m - 1 /\ e \in Nat /\ e <= UsizeMax
      /\ Stands(data, fr.content + at[k], Encodings(d, f)[x])
  BY <1>1, <1>3, <1>4, <1>5, <1>6, NextStands
<1>8. Stands(data, fr.p, Encodings(d, f)[x]) /\ fr.p \in Nat BY <1>4, <1>5, <1>7
<1>9. ElementParts(data, fr.p, d, f, x)
  BY <1>1, <1>5, <1>7, <1>8, PartsStand
<1>10. Tagged(f[x]) /\ f[x].tag <= TagMax
  <2>1. Tagged(f[x]) /\ f[x] \in Nodes BY <1>1, <1>7, ForestFacts
  <2> QED BY <2>1, LimitsAssumption DEF Nodes
<1>11. level[x] <= MaxNesting
  <2>1. level[x] \in 0 .. MaxNesting BY <1>1, <1>7 DEF Levels
  <2> QED BY <2>1, LimitsAssumption
<1>12. fr.p + e = fr.content + at[k + 1] /\ fr.p + e <= fr.end
  <2> HIDE DEF e
  <2>1. Len(content) \in Nat BY <1>3 DEF ReadsOn
  <2> QED BY <1>4, <1>5, <1>7, <2>1
<1>13. ChildStands(d, f, level, fr, m, x)
  BY <1>7, <1>8, <1>9, <1>10, <1>11, <1>12 DEF ChildStands
<1> QED BY <1>12, <1>13 DEF x, fr, at, k, i, e

\* A loop that goes on has a child to read.
LEMMA WantsNext ==
  ASSUME IInv, NEW d, NEW f, NEW r, NEW level, Given(d, f, r, level), NEW path, NEW twin,
         Copies(d, f, r, level, path, twin), WantsElement, rules = "der",
         caller = "parse_rules"
  PROVE  HasNext(d, f, r, path, Len(stack))
<1> DEFINE m == Len(stack)
           i == path[m]
           line == LineIn(d, f, r, i)
           content == ContentIn(d, f, r, i)
           at == CutIn(d, f, r, i)
           k == Len(Top.kids)
<1>1. /\ m \in Nat /\ m >= 1 /\ Top \in Frames /\ Top = stack[m] /\ m \in DOMAIN stack
  BY TopFacts DEF IInv, Typed
<1>2. /\ Opens(d, f, i) /\ LevelIn(level, i) = m - 1
      /\ FrameIs(data, d, f, r, twin, i, Top)
  BY <1>1 DEF Copies, PathIs, FramesCopy
<1>3. ReadsOn(d, f, level, line, content, at, m - 1) BY <1>2, LineReadsOn
<1>4. /\ Top.end = Top.content + Len(content) /\ Top.p = Top.content + at[k]
      /\ k <= Len(line)
  BY <1>2, Zenon DEF FrameIs
<1>5. /\ Top.kids \in Seq(Nat) /\ Top.content \in Nat /\ k \in Nat /\ Len(line) \in Nat
      /\ at[Len(line)] = Len(content)
  <2>1. Top.kids \in Seq(Nat) /\ Top.content \in Nat BY <1>1 DEF Frames
  <2> QED BY <1>3, <2>1 DEF ReadsOn
<1>6. CASE Top.p < Top.end
  <2> HIDE DEF line, content, at, k
  <2>1. k # Len(line)
    <3>1. SUFFICES ASSUME k = Len(line) PROVE FALSE OBVIOUS
    <3>2. Top.p = Top.end BY <1>4, <1>5, <3>1
    <3>3. Top.end \in Nat BY <1>1 DEF Frames
    <3> QED BY <1>6, <3>2, <3>3
  <2>2. k < Len(line) BY <1>4, <1>5, <2>1
  <2> QED BY <1>1, <2>2 DEF HasNext, k, line, i
<1>7. CASE Top.kind = "parse_rules" /\ Top.kids = <<>>
  <2>1. m = 1
    <3>1. m > 1 => Top.kind = "definite" \/ Top.kind = "indefinite"
      BY <1>1 DEF IInv, FrameKinds
    <3>2. ~ (m > 1) BY <1>7, <3>1
    <3>3. m \in Nat /\ m >= 1 BY <1>1
    <3> HIDE DEF m
    <3> QED BY <3>2, <3>3
  <2>2. i = 0 BY <2>1 DEF Copies, PathIs
  <2>3. line = <<r>> BY <2>2 DEF LineIn
  <2>4. Len(line) = 1 /\ k = 0 BY <1>7, <2>3
  <2>5. k < Len(line) BY <2>4
  <2> QED BY <1>1, <2>5 DEF HasNext
<1> QED BY <1>6, <1>7 DEF WantsElement

LEMMA IsReading ==
  ASSUME IInv, NEW d, NEW f, NEW r, NEW level, Given(d, f, r, level), NEW path, NEW twin,
         Copies(d, f, r, level, path, twin), pc \in HeaderPcs
  PROVE  /\ HasNext(d, f, r, path, Len(stack))
         /\ ChildStands(d, f, level, Top, Len(stack), NextChild(d, f, r, path, Len(stack)))
         /\ HeaderOf(d, f, NextChild(d, f, r, path, Len(stack)))
         /\ Reading(d, f, NextChild(d, f, r, path, Len(stack)))
<1> DEFINE m == Len(stack)
           x == NextChild(d, f, r, path, m)
<1>1. HasNext(d, f, r, path, m) /\ HeaderOf(d, f, x) BY DEF Copies, HeaderCopies
<1>2. m \in DOMAIN stack /\ Top = stack[m] BY TopFacts DEF IInv, Typed
<1>3. ChildStands(d, f, level, Top, m, x) BY <1>1, <1>2, NextIs
<1>4. hdr.at = Top.p BY InHeader
<1>5. Reading(d, f, x) BY <1>3, <1>4 DEF ChildStands, Reading
<1> QED BY <1>1, <1>3, <1>5

\* A step that leaves the calls and the elements as they are.
LEMMA CopiesStay ==
  ASSUME NEW d, NEW f, NEW r, NEW level, NEW path, NEW twin,
         Copies(d, f, r, level, path, twin),
         UNCHANGED <<data, stack, heap>>, result'.kind \in {"pending", "ok"},
         pc' \in HeaderPcs =>
           /\ HasNext(d, f, r, path, Len(stack))
           /\ \E x : x = NextChild(d, f, r, path, Len(stack)) /\ HeaderOf(d, f, x)'
  PROVE  Copies(d, f, r, level, path, twin)'
<1>1. PathIs(d, f, r, level, path)' BY DEF Copies, PathIs
<1>2. FramesCopy(d, f, r, path, twin)' BY DEF Copies, FramesCopy
<1>3. NodesCopy(d, f, twin)' BY DEF Copies, NodesCopy
<1>4. HeaderCopies(d, f, r, path)'
  <2>1. SUFFICES ASSUME pc' \in HeaderPcs
                 PROVE  /\ HasNext(d, f, r, path, Len(stack))'
                        /\ HeaderOf(d, f, NextChild(d, f, r, path, Len(stack)))'
    BY DEF HeaderCopies
  <2>2. PICK x : x = NextChild(d, f, r, path, Len(stack)) /\ HeaderOf(d, f, x)' BY <2>1
  <2>3. HasNext(d, f, r, path, Len(stack))'
    BY <2>1 DEF HasNext
  <2>4. NextChild(d, f, r, path, Len(stack))' = x
    BY <2>2 DEF NextChild
  <2>5. HeaderOf(d, f, NextChild(d, f, r, path, Len(stack)))'
    BY <2>2, <2>4 DEF HeaderOf
  <2> QED BY <2>3, <2>5
<1> QED BY <1>1, <1>2, <1>3, <1>4 DEF Copies

LEMMA HeaderStepCopies ==
  ASSUME IInv, NEW d, NEW f, NEW r, NEW level, Given(d, f, r, level), NEW path, NEW twin,
         Copies(d, f, r, level, path, twin), rules = "der", caller = "parse_rules",
         BeginElement \/ TagOctet \/ ShortLength \/ LongLength \/ LongLengthOctet
           \/ LongLengthEnd
  PROVE  Copies(d, f, r, level, path, twin)'
<1> DEFINE m == Len(stack)
           x == NextChild(d, f, r, path, m)
<1>1. HasNext(d, f, r, path, m)
  <2>1. CASE BeginElement BY <2>1, WantsNext DEF BeginElement
  <2>2. CASE ~ BeginElement
    <3>1. pc \in HeaderPcs
      BY <2>2 DEF TagOctet, ShortLength, LongLength, LongLengthOctet, LongLengthEnd, HeaderPcs
    <3> QED BY <3>1, IsReading
  <2> QED BY <2>1, <2>2
<1>2. UNCHANGED <<data, stack, heap, result>> /\ pc' \in HeaderPcs
  BY DEF BeginElement, TagOctet, ShortLength, LongLength, LongLengthOctet, LongLengthEnd,
         HeaderPcs, input
<1>3. HeaderOf(d, f, x)'
  <2> SUFFICES ASSUME NEW y, y = x PROVE HeaderOf(d, f, y)'
    <3>1. PICK y : y = x OBVIOUS
    <3>2. HeaderOf(d, f, y)' BY <3>1
    <3>3. x' = y BY <1>2, <3>1 DEF NextChild
    <3> QED BY <3>2, <3>3 DEF HeaderOf
  <2>1. CASE BeginElement
    <3>1. m \in DOMAIN stack /\ Top = stack[m] BY TopFacts DEF IInv, Typed
    <3>2. ChildStands(d, f, level, Top, m, x) BY <1>1, <3>1, NextIs
    <3>3. Tagged(f[x]) /\ ElementParts(data, Top.p, d, f, x) BY <3>2 DEF ChildStands
    <3> HIDE DEF x
    <3> QED BY <2>1, <3>3, BeginReads
  <2>2. CASE ~ BeginElement
    <3>1. pc \in HeaderPcs
      BY <2>2 DEF TagOctet, ShortLength, LongLength, LongLengthOctet, LongLengthEnd, HeaderPcs
    <3>2. HeaderOf(d, f, y) /\ Reading(d, f, y) BY <3>1, IsReading
    <3> HIDE DEF x
    <3>3. CASE TagOctet BY <3>2, <3>3, TagReads
    <3>4. CASE ShortLength BY <3>2, <3>4, ShortReads
    <3>5. CASE LongLength BY <3>2, <3>5, LongReads
    <3>6. CASE LongLengthOctet BY <3>2, <3>6, LongOctetReads
    <3>7. CASE LongLengthEnd BY <3>2, <3>7, LongEndReads
    <3> QED BY <2>2, <3>3, <3>4, <3>5, <3>6, <3>7
  <2> QED BY <2>1, <2>2
<1>4. result'.kind \in {"pending", "ok"} BY <1>2 DEF Copies
<1>5. \E y : y = NextChild(d, f, r, path, Len(stack)) /\ HeaderOf(d, f, y)'
  <2>1. PICK y : y = x OBVIOUS
  <2>2. x' = y BY <1>2, <2>1 DEF NextChild
  <2>3. HeaderOf(d, f, y)' BY <1>3, <2>2 DEF HeaderOf
  <2> QED BY <2>1, <2>3
<1> QED BY <1>1, <1>2, <1>4, <1>5, CopiesStay

\* None of the errors is met.
LEMMA NoError ==
  ASSUME IInv, NEW d, NEW f, NEW r, NEW level, Given(d, f, r, level), NEW path, NEW twin,
         Copies(d, f, r, level, path, twin), rules = "der", caller = "parse_rules"
  PROVE  /\ ~ TooDeep /\ ~ NoTag /\ ~ TagError /\ ~ LengthError /\ ~ LongLengthError
         /\ ~ BodyError /\ ~ MarkerError /\ ~ TrailingBytes
         /\ ~ IndefiniteLength /\ ~ CloseIndefinite
<1> DEFINE m == Len(stack)
           x == NextChild(d, f, r, path, m)
<1>1. /\ m \in Nat /\ m >= 1 /\ m \in DOMAIN stack /\ Top = stack[m] /\ Top \in Frames
      /\ Top.p \in Nat /\ Top.end \in Nat
  <2>1. /\ m \in Nat /\ m >= 1 /\ m \in DOMAIN stack /\ Top = stack[m] /\ Top \in Frames
    BY TopFacts DEF IInv, Typed
  <2> QED BY <2>1 DEF Frames
<1>2. ASSUME pc = "contents", WantsElement
      PROVE  /\ Depth <= MaxNesting /\ Top.p < Top.end
             /\ Depth \in Nat
  <2>1. HasNext(d, f, r, path, m) BY <1>2, WantsNext
  <2>2. ChildStands(d, f, level, Top, m, x) BY <1>1, <2>1, NextIs
  <2>3. Depth <= MaxNesting /\ Depth \in Nat
    BY <1>1, <2>2 DEF Depth, ChildStands
  <2> DEFINE e == Len(Encodings(d, f)[x])
  <2>4. e \in Nat /\ e >= 1 /\ Top.p + e <= Top.end
    BY <2>2, EncodingIsSome DEF ChildStands, Given
  <2> HIDE DEF e
  <2>5. Top.p < Top.end BY <1>1, <2>4
  <2> QED BY <2>3, <2>5
<1>3. ~ TooDeep /\ ~ NoTag
  <2>1. ~ TooDeep BY <1>2, LimitsAssumption DEF TooDeep
  <2>2. ~ NoTag
    <3>1. SUFFICES ASSUME NoTag PROVE FALSE OBVIOUS
    <3>2. Top.p < Top.end /\ Top.p >= Top.end BY <1>2, <3>1 DEF NoTag
    <3> QED BY <1>1, <3>2
  <2> QED BY <2>1, <2>2
<1>4. pc \in HeaderPcs => HeaderOf(d, f, x) /\ Reading(d, f, x) BY IsReading
<1>5. ~ TagError
  <2>1. TagError => pc \in HeaderPcs BY DEF TagError, HeaderPcs
  <2> HIDE DEF x
  <2> QED BY <1>4, <2>1, NoTagError
<1>6. ~ LengthError /\ ~ IndefiniteLength
  <2>1. LengthError \/ IndefiniteLength => pc \in HeaderPcs
    BY DEF LengthError, IndefiniteLength, HeaderPcs
  <2> HIDE DEF x
  <2> QED BY <1>4, <2>1, NoLengthError
<1>7. ~ LongLengthError
  <2>1. LongLengthError => pc \in HeaderPcs BY DEF LongLengthError, HeaderPcs
  <2> HIDE DEF x
  <2> QED BY <1>4, <2>1, NoLongLengthError
<1>8. ~ BodyError
  <2>1. BodyError => pc \in HeaderPcs BY DEF BodyError, HeaderPcs
  <2> HIDE DEF x
  <2> QED BY <1>4, <2>1, NoBodyError
<1>9. ~ MarkerError /\ ~ CloseIndefinite
  <2>1. Top.kind # "indefinite" BY <1>1 DEF IInv, NoneIndefiniteInDer
  <2> QED BY <2>1 DEF MarkerError, CloseIndefinite
<1>10. ~ TrailingBytes
  <2>1. SUFFICES ASSUME TrailingBytes PROVE FALSE OBVIOUS
  <2>2. Top.kind = "parse_rules" /\ Top.kids # <<>> /\ Top.p # Len(data)
    BY <2>1 DEF TrailingBytes
  <2>3. m = 1
    <3>1. m > 1 => Top.kind = "definite" \/ Top.kind = "indefinite"
      BY <1>1 DEF IInv, FrameKinds
    <3>2. ~ (m > 1) BY <2>2, <3>1
    <3> HIDE DEF m
    <3> QED BY <1>1, <3>2
  <2>4. Len(Top.kids) = 1 BY <1>1, <2>2, <2>3 DEF IInv, OneElement
  <2>5. /\ path[m] = 0 /\ FrameIs(data, d, f, r, twin, path[m], Top)
    BY <1>1, <2>3 DEF Copies, PathIs, FramesCopy
  <2>6. Top.p = Top.content + CutIn(d, f, r, 0)[1]
        /\ Top.end = Top.content + Len(ContentIn(d, f, r, 0))
    BY <2>4, <2>5 DEF FrameIs
  <2>7. CutIn(d, f, r, 0)[1] = Len(ContentIn(d, f, r, 0)) BY DEF CutIn, ContentIn
  <2>8. Top.end = Len(data) BY <1>1, <2>3 DEF IInv, FrameKinds
  <2> QED BY <2>2, <2>6, <2>7, <2>8
<1> QED BY <1>3, <1>5, <1>6, <1>7, <1>8, <1>9, <1>10

-----------------------------------------------------------------------------
(* An element that was read is a copy of the node it was written from *)

Agree(twin, t, kids) == \A k \in DOMAIN kids : t[kids[k]] = twin[kids[k]]

\* What was copied stays a copy when another node is added.
LEMMA FrameStays ==
  ASSUME NEW w, NEW d, NEW f, NEW r, NEW twin, NEW t, NEW i, NEW fr,
         FrameIs(w, d, f, r, twin, i, fr),
         \A k \in DOMAIN fr.kids : t[fr.kids[k]] = twin[fr.kids[k]]
  PROVE  FrameIs(w, d, f, r, t, i, fr)
BY Zenon DEF FrameIs

LEMMA NodeStays ==
  ASSUME NEW w, NEW d, NEW f, NEW twin, NEW t, NEW i, NEW n,
         NodeIs(w, d, f, twin, i, n),
         \A k \in DOMAIN n.kids : t[n.kids[k]] = twin[n.kids[k]]
  PROVE  NodeIs(w, d, f, t, i, n)
BY Zenon DEF NodeIs

LEMMA FrameGrows ==
  ASSUME NEW w, NEW d, NEW f, NEW r, NEW twin, NEW t, NEW i, NEW fr, NEW g, NEW n \in Nat,
         FrameIs(w, d, f, r, twin, i, fr), fr.kids \in Seq(Nat),
         Agree(twin, t, fr.kids),
         Len(fr.kids) < Len(LineIn(d, f, r, i)), Len(LineIn(d, f, r, i)) \in Nat,
         g.content = fr.content, g.end = fr.end, g.kids = Append(fr.kids, n),
         t[n] = LineIn(d, f, r, i)[Len(fr.kids) + 1],
         g.p = fr.content + CutIn(d, f, r, i)[Len(fr.kids) + 1]
  PROVE  FrameIs(w, d, f, r, t, i, g)
<1> DEFINE s == fr.kids
           line == LineIn(d, f, r, i)
           content == ContentIn(d, f, r, i)
           at == CutIn(d, f, r, i)
<1>1. /\ Stands(w, fr.content, content) /\ fr.end = fr.content + Len(content)
      /\ \A k \in DOMAIN s : twin[s[k]] = line[k]
  BY Zenon DEF FrameIs
<1>2. /\ s \in Seq(Nat) /\ Len(s) \in Nat /\ Len(s) < Len(line) /\ Len(line) \in Nat
      /\ g.kids = Append(s, n) /\ \A k \in DOMAIN s : t[s[k]] = twin[s[k]]
      /\ t[n] = line[Len(s) + 1]
  BY DEF Agree
<1> HIDE DEF s, line, content, at
<1>3. Len(g.kids) = Len(s) + 1 /\ Len(g.kids) <= Len(line) BY <1>2
<1>4. ASSUME NEW k \in DOMAIN g.kids PROVE t[g.kids[k]] = line[k]
  <2>1. k \in 1 .. Len(s) + 1 /\ DOMAIN s = 1 .. Len(s) BY <1>2, <1>4
  <2>2. CASE k = Len(s) + 1
    <3>1. g.kids[k] = n BY <1>2, <2>2
    <3> QED BY <1>2, <2>2, <3>1
  <2>3. CASE k # Len(s) + 1
    <3>1. k \in DOMAIN s BY <1>2, <2>1, <2>3
    <3>2. g.kids[k] = s[k] BY <1>2, <3>1
    <3> QED BY <1>1, <1>2, <3>1, <3>2
  <2> QED BY <2>2, <2>3
<1>5. g.p = g.content + at[Len(g.kids)] BY <1>3 DEF at, s
<1>6. Stands(w, g.content, content) /\ g.end = g.content + Len(content) BY <1>1
<1> QED BY <1>3, <1>4, <1>5, <1>6, Zenon DEF FrameIs, line, content, at

LEMMA CollectedCopies ==
  ASSUME IInv, NEW d, NEW f, NEW r, NEW level, Given(d, f, r, level), NEW path, NEW twin,
         Copies(d, f, r, level, path, twin),
         NEW m \in Nat, m >= 1, m <= Len(stack), HasNext(d, f, r, path, m),
         NEW node, NEW end, Collected(m, node, end),
         NodeIs(data, d, f, twin, NextChild(d, f, r, path, m), node),
         \A k \in DOMAIN node.kids : node.kids[k] \in DOMAIN heap,
         end = stack[m].p + Len(Encodings(d, f)[NextChild(d, f, r, path, m)])
  PROVE  \E t : Copies(d, f, r, level, path, t)'
<1>1. /\ pc' = "contents" /\ data' = data /\ result' = result
      /\ Len(heap') = Len(heap) + 1 /\ heap'[Len(heap) + 1] = node
      /\ \A h \in 1 .. Len(heap) : heap'[h] = heap[h]
      /\ Len(stack') = m /\ \A h \in 1 .. m - 1 : stack'[h] = stack[h]
      /\ heap' \in Seq(Nodes) /\ stack' \in Seq(Frames)
  BY DEF Collected
<1>2. /\ stack'[m].kind = stack[m].kind /\ stack'[m].at = stack[m].at
      /\ stack'[m].class = stack[m].class /\ stack'[m].tag = stack[m].tag
      /\ stack'[m].content = stack[m].content /\ stack'[m].end = stack[m].end
      /\ stack'[m].p = end /\ stack'[m].kids = Append(stack[m].kids, Len(heap) + 1)
  BY DEF Collected
<1>3. /\ \A h \in DOMAIN stack : stack[h].kids \in Seq(Nat)
      /\ \A h \in DOMAIN stack : \A k \in DOMAIN stack[h].kids : stack[h].kids[k] \in DOMAIN heap
      /\ \A h \in DOMAIN heap : \A k \in DOMAIN heap[h].kids : heap[h].kids[k] \in DOMAIN heap
      /\ DOMAIN heap = 1 .. Len(heap) /\ Len(heap) \in Nat
      /\ DOMAIN stack = 1 .. Len(stack) /\ Len(stack) \in Nat
  BY KidsAreFinished
<1>4. /\ DOMAIN heap' = 1 .. Len(heap) + 1 /\ DOMAIN stack' = 1 .. m /\ m \in DOMAIN stack
      /\ Len(heap) + 1 \in Nat
  BY <1>1, <1>3
<1>5. PICK n : n = Len(heap) + 1 OBVIOUS
<1>6. PICK x : x = NextChild(d, f, r, path, m) OBVIOUS
<1>7. PICK t : t = [h \in 1 .. n |-> IF h = n THEN x ELSE twin[h]] OBVIOUS
<1>8. n \in Nat /\ n \in 1 .. n /\ t[n] = x BY <1>3, <1>5, <1>7
<1>9. \A h \in DOMAIN heap : h \in 1 .. n /\ h # n /\ t[h] = twin[h]
  BY <1>3, <1>5, <1>7
<1>10. PathIs(d, f, r, level, path)'
  <2>1. /\ path[1] = 0
        /\ \A h \in DOMAIN stack : Opens(d, f, path[h]) /\ LevelIn(level, path[h]) = h - 1
        /\ \A h \in 1 .. Len(stack) - 1 : InnerIs(d, f, r, path[h], stack[h], path[h + 1], stack[h + 1])
    BY Zenon DEF Copies, PathIs
  <2>2. \A h \in DOMAIN stack' : Opens(d, f, path[h]) /\ LevelIn(level, path[h]) = h - 1
    <3>1. \A h \in DOMAIN stack' : h \in DOMAIN stack BY <1>3, <1>4
    <3> QED BY <2>1, <3>1
  <2>3. ASSUME NEW h \in 1 .. Len(stack') - 1
        PROVE  InnerIs(d, f, r, path[h], stack'[h], path[h + 1], stack'[h + 1])
    <3>1. h \in 1 .. m - 1 /\ h \in 1 .. Len(stack) - 1 BY <1>1, <1>3, <2>3
    <3>2. InnerIs(d, f, r, path[h], stack[h], path[h + 1], stack[h + 1]) BY <2>1, <3>1
    <3>3. stack'[h] = stack[h] BY <1>1, <3>1
    <3>4. /\ stack'[h + 1].kind = stack[h + 1].kind /\ stack'[h + 1].at = stack[h + 1].at
          /\ stack'[h + 1].class = stack[h + 1].class /\ stack'[h + 1].tag = stack[h + 1].tag
          /\ stack'[h + 1].end = stack[h + 1].end
      <4>1. CASE h + 1 = m BY <1>2, <4>1
      <4>2. CASE h + 1 # m
        <5>1. h + 1 \in 1 .. m - 1 BY <3>1, <4>2
        <5> QED BY <1>1, <5>1
      <4> QED BY <4>1, <4>2
    <3> QED BY <3>2, <3>3, <3>4, Zenon DEF InnerIs
  <2> QED BY <2>1, <2>2, <2>3 DEF PathIs
<1>11. FramesCopy(d, f, r, path, t)'
  <2>1. \A h \in DOMAIN stack : FrameIs(data, d, f, r, twin, path[h], stack[h])
    BY DEF Copies, FramesCopy
  <2>2. ASSUME NEW h \in DOMAIN stack'
        PROVE  FrameIs(data, d, f, r, t, path[h], stack'[h])
    <3>1. h \in DOMAIN stack /\ h \in 1 .. m BY <1>3, <1>4, <2>2
    <3>2. /\ FrameIs(data, d, f, r, twin, path[h], stack[h])
          /\ \A k \in DOMAIN stack[h].kids : t[stack[h].kids[k]] = twin[stack[h].kids[k]]
      BY <1>3, <1>9, <2>1, <3>1
    <3>3. CASE h = m
      <4> DEFINE fr == stack[m]
                 g == stack'[m]
                 i == path[m]
      <4>1. FrameIs(data, d, f, r, twin, i, fr) /\ fr.kids \in Seq(Nat)
            /\ Agree(twin, t, fr.kids)
        BY <1>3, <3>1, <3>2, <3>3 DEF Agree
      <4>2. Len(fr.kids) < Len(LineIn(d, f, r, i)) BY DEF HasNext
      <4>3. Len(LineIn(d, f, r, i)) \in Nat
        <5>1. Opens(d, f, i) BY <1>4 DEF Copies, PathIs
        <5> QED BY <5>1, LineReadsOn DEF ReadsOn
      <4>4. g.content = fr.content /\ g.end = fr.end /\ g.kids = Append(fr.kids, n)
        BY <1>2, <1>5
      <4>5. t[n] = LineIn(d, f, r, i)[Len(fr.kids) + 1] BY <1>6, <1>8 DEF NextChild
      <4>6. g.p = fr.content + CutIn(d, f, r, i)[Len(fr.kids) + 1] BY <1>2, <1>4, NextIs
      <4> HIDE DEF fr, g, i
      <4>7. FrameIs(data, d, f, r, t, i, g)
        BY <1>8, <4>1, <4>2, <4>3, <4>4, <4>5, <4>6, FrameGrows
      <4> QED BY <3>3, <4>7 DEF i, g
    <3>4. CASE h # m
      <4>1. h \in 1 .. m - 1 BY <3>1, <3>4
      <4>2. stack'[h] = stack[h] BY <1>1, <4>1
      <4> QED BY <3>2, <4>2, FrameStays
    <3> QED BY <3>3, <3>4
  <2> QED BY <1>1, <2>2 DEF FramesCopy
<1>12. NodesCopy(d, f, t)'
  <2>1. \A h \in DOMAIN heap : NodeIs(data, d, f, twin, twin[h], heap[h])
    BY DEF Copies, NodesCopy
  <2>2. ASSUME NEW h \in DOMAIN heap'
        PROVE  NodeIs(data, d, f, t, t[h], heap'[h])
    <3>1. CASE h = n
      <4>1. heap'[h] = node /\ t[h] = x BY <1>1, <1>5, <1>8, <3>1
      <4>2. \A k \in DOMAIN node.kids : t[node.kids[k]] = twin[node.kids[k]] BY <1>9
      <4>3. NodeIs(data, d, f, twin, x, node) BY <1>6
      <4>4. NodeIs(data, d, f, t, x, node) BY <4>2, <4>3, NodeStays
      <4> QED BY <4>1, <4>4
    <3>2. CASE h # n
      <4>1. h \in DOMAIN heap BY <1>3, <1>4, <1>5, <2>2, <3>2
      <4>2. heap'[h] = heap[h] /\ t[h] = twin[h] BY <1>1, <1>3, <1>9, <4>1
      <4>3. NodeIs(data, d, f, twin, twin[h], heap[h]) BY <2>1, <4>1
      <4>4. \A k \in DOMAIN heap[h].kids : t[heap[h].kids[k]] = twin[heap[h].kids[k]]
        BY <1>3, <1>9, <4>1
      <4>5. NodeIs(data, d, f, t, twin[h], heap[h]) BY <4>3, <4>4, NodeStays
      <4> QED BY <4>2, <4>5
    <3> QED BY <3>1, <3>2
  <2> QED BY <1>1, <2>2 DEF NodesCopy
<1>13. HeaderCopies(d, f, r, path)' BY <1>1 DEF HeaderCopies, HeaderPcs
<1>14. result'.kind \in {"pending", "ok"} BY <1>1 DEF Copies
<1>15. Copies(d, f, r, level, path, t)'
  BY <1>10, <1>11, <1>12, <1>13, <1>14 DEF Copies
<1> QED BY <1>15

LEMMA PrimitiveCopies ==
  ASSUME IInv, NEW d, NEW f, NEW r, NEW level, Given(d, f, r, level), NEW path, NEW twin,
         Copies(d, f, r, level, path, twin), PrimitiveBody
  PROVE  \E t : Copies(d, f, r, level, path, t)'
<1> DEFINE m == Len(stack)
<1>1. PICK x : x = NextChild(d, f, r, path, m) OBVIOUS
<1>2. /\ pc = "body" /\ pc \in HeaderPcs /\ ~ hdr.constructed /\ hdr.constructed = FALSE
      /\ Collected(m, BodyNode, DefiniteEnd)
      /\ m \in Nat /\ m >= 1 /\ m \in DOMAIN stack /\ Top = stack[m]
      /\ hdr.at \in Nat /\ hdr.idx \in Nat /\ hdr.len \in Nat /\ hdr.at < hdr.idx
      /\ hdr.at = Top.p
  <2>1. /\ pc = "body" /\ hdr \in Headers /\ ~ hdr.constructed
        /\ Collected(m, BodyNode, DefiniteEnd) /\ m \in Nat /\ m >= 1
        /\ hdr.at \in Nat /\ hdr.idx \in Nat /\ hdr.len \in Nat /\ hdr.at < hdr.idx
    BY PrimitiveCollected
  <2>2. hdr.constructed = FALSE BY <2>1 DEF Headers
  <2>3. hdr.at = Top.p /\ pc \in HeaderPcs BY <2>1, InHeader DEF HeaderPcs
  <2>4. m \in DOMAIN stack /\ Top = stack[m] BY TopFacts DEF IInv, Typed
  <2> QED BY <2>1, <2>2, <2>3, <2>4
<1>3. /\ HasNext(d, f, r, path, m) /\ ChildStands(d, f, level, Top, m, x)
      /\ HeaderOf(d, f, x) /\ Reading(d, f, x)
  BY <1>1, <1>2, IsReading
<1>4. /\ x \in DOMAIN f /\ Stands(data, Top.p, Encodings(d, f)[x])
      /\ Len(Encodings(d, f)[x]) <= UsizeMax /\ Forest(d, f)
  BY <1>3 DEF ChildStands, Given
<1>5. /\ hdr.idx + hdr.len = hdr.at + Len(Encodings(d, f)[x])
      /\ DefiniteEnd = hdr.idx + hdr.len
      /\ hdr.len = Len(Content(d, f, x)) /\ Stands(data, hdr.idx, Content(d, f, x))
      /\ hdr.class = f[x].class /\ hdr.constructed = f[x].constructed /\ hdr.tag = f[x].tag
  BY <1>2, <1>3, BodyIs
<1>6. /\ ContentStart(BodyNode) = hdr.idx /\ ContentEnd(BodyNode) = hdr.idx + hdr.len
      /\ End(BodyNode) = hdr.idx + hdr.len
  <2>1. /\ BodyNode.offset = hdr.at /\ BodyNode.header_len = hdr.idx - hdr.at
        /\ BodyNode.content_len = hdr.len /\ BodyNode.indefinite = FALSE
    BY DEF BodyNode, HeaderLen
  <2>2. hdr.at + (hdr.idx - hdr.at) = hdr.idx BY <1>2
  <2>3. ContentStart(BodyNode) = hdr.idx /\ ContentEnd(BodyNode) = hdr.idx + hdr.len
    BY <2>1, <2>2 DEF ContentStart, ContentEnd
  <2>4. End(BodyNode) = (hdr.idx + hdr.len) + 0 BY <2>1, <2>3 DEF End
  <2> QED BY <1>2, <2>3, <2>4
<1>7. SubSeq(data, ContentStart(BodyNode) + 1, ContentEnd(BodyNode))
        = SubSeq(d, ContentStart(f[x]) + 1, ContentEnd(f[x]))
  <2> DEFINE c == Content(d, f, x)
  <2>1. c = SubSeq(d, ContentStart(f[x]) + 1, ContentEnd(f[x]))
    BY <1>2, <1>4, <1>5, EncodingParts
  <2>2. c \in Seq(Octets) /\ data \in Seq(Octets)
    BY <1>4, EncodingsAreOctets DEF IInv, Typed
  <2>3. Stands(data, hdr.idx, c) /\ hdr.len = Len(c) BY <1>5
  <2>4. PICK o : o = hdr.idx OBVIOUS
  <2>5. o \in Nat /\ Stands(data, o, c) BY <1>2, <2>3, <2>4
  <2> HIDE DEF c
  <2>6. SubSeq(data, o + 1, o + Len(c)) = c BY <2>2, <2>5, StandsIs
  <2> QED BY <1>6, <2>1, <2>3, <2>4, <2>6
<1>8. NodeIs(data, d, f, twin, x, BodyNode)
  <2>1. f[x].kids = <<>> BY <1>2, <1>4, <1>5, ForestFacts
  <2>2. /\ BodyNode.kids = <<>> /\ BodyNode.constructed = FALSE /\ BodyNode.class = hdr.class
        /\ BodyNode.tag = hdr.tag /\ BodyNode.offset = hdr.at
    BY DEF BodyNode
  <2>3. Len(BodyNode.kids) = Len(f[x].kids) BY <2>1, <2>2
  <2>4. \A k \in DOMAIN BodyNode.kids : twin[BodyNode.kids[k]] = Line(d, f, x)[k] BY <2>2
  <2>5. Stands(data, BodyNode.offset, Encodings(d, f)[x]) BY <1>2, <1>4, <2>2
  <2>6. BodyNode.offset + Len(Encodings(d, f)[x]) = End(BodyNode) BY <1>5, <1>6, <2>2
  <2>7. /\ BodyNode.class = f[x].class /\ BodyNode.tag = f[x].tag
        /\ BodyNode.constructed = f[x].constructed
    BY <1>2, <1>5, <2>2
  <2> QED BY <1>4, <1>7, <2>3, <2>4, <2>5, <2>6, <2>7 DEF NodeIs
<1>9. \A k \in DOMAIN BodyNode.kids : BodyNode.kids[k] \in DOMAIN heap BY DEF BodyNode
<1>10. DefiniteEnd = stack[m].p + Len(Encodings(d, f)[x]) BY <1>2, <1>5
<1>11. m <= Len(stack) BY <1>2
<1> HIDE DEF m
<1> QED BY <1>1, <1>2, <1>3, <1>8, <1>9, <1>10, <1>11, CollectedCopies

LEMMA CloseCopies ==
  ASSUME IInv, NEW d, NEW f, NEW r, NEW level, Given(d, f, r, level), NEW path, NEW twin,
         Copies(d, f, r, level, path, twin), CloseDefinite
  PROVE  \E t : Copies(d, f, r, level, path, t)'
<1> DEFINE m == Len(stack) - 1
<1>1. PICK x : x = path[m + 1] OBVIOUS
<1>2. /\ Top.kind = "definite" /\ Top.p = Top.end /\ Top.end \in Nat
      /\ Collected(m, NodeOf(Top), Top.end)
      /\ m \in Nat /\ m >= 1 /\ m + 1 = Len(stack) /\ Top = stack[m + 1]
      /\ Top.kids \in Seq(Nat) /\ Top \in Frames
      /\ m <= Len(stack) /\ m \in DOMAIN stack /\ m + 1 \in DOMAIN stack
      /\ m \in 1 .. Len(stack) - 1
  <2>1. /\ Top.kind = "definite" /\ Top.p = Top.end /\ Top.end \in Nat
        /\ Collected(Len(stack) - 1, NodeOf(Top), Top.end)
        /\ Len(stack) \in Nat /\ Len(stack) >= 2 /\ Top = stack[Len(stack)]
        /\ Top.kids \in Seq(Nat) /\ Top \in Frames
    BY DefiniteCollected
  <2>2. /\ m \in Nat /\ m >= 1 /\ m + 1 = Len(stack) /\ m <= Len(stack)
        /\ m \in 1 .. Len(stack) /\ m + 1 \in 1 .. Len(stack) /\ m \in 1 .. Len(stack) - 1
    BY <2>1
  <2>3. stack \in Seq(Frames) BY DEF IInv, Typed
  <2> QED BY <2>1, <2>2, <2>3
<1> HIDE DEF m
<1>3. InnerIs(d, f, r, path[m], stack[m], x, Top) /\ Opens(d, f, x) /\ LevelIn(level, x) = m
      /\ FrameIs(data, d, f, r, twin, x, Top)
  <2>1. InnerIs(d, f, r, path[m], stack[m], path[m + 1], stack[m + 1])
    BY <1>2 DEF Copies, PathIs
  <2>2. LevelIn(level, path[m + 1]) = (m + 1) - 1 /\ Opens(d, f, path[m + 1])
    BY <1>2 DEF Copies, PathIs
  <2>3. FrameIs(data, d, f, r, twin, path[m + 1], stack[m + 1])
    BY <1>2 DEF Copies, FramesCopy
  <2> QED BY <1>1, <1>2, <2>1, <2>2, <2>3
<1>4. /\ HasNext(d, f, r, path, m) /\ x = NextChild(d, f, r, path, m) /\ x \in DOMAIN f
      /\ Top.class = f[x].class /\ Top.tag = f[x].tag
      /\ Top.end = Top.at + Len(Encodings(d, f)[x])
  BY <1>3 DEF InnerIs, HasNext, NextChild
<1>5. x # 0 /\ Forest(d, f) /\ f[x].constructed = TRUE
  <2>1. Forest(d, f) BY DEF Given
  <2>2. x \in Nat /\ x >= 1 /\ f[x] \in Nodes BY <1>4, <2>1, ForestFacts
  <2>3. x # 0 BY <2>2
  <2>4. f[x].constructed BY <1>3, <2>3 DEF Opens
  <2> QED BY <2>1, <2>2, <2>3, <2>4 DEF Nodes
<1>6. ChildStands(d, f, level, stack[m], m, x) BY <1>2, <1>4, NextIs
<1>7. Top.at = stack[m].p
  <2>1. stack[m + 1].at = stack[m].p BY <1>2 DEF IInv, CallsNest
  <2> QED BY <1>2, <2>1
<1> DEFINE line == Line(d, f, x)
           content == Content(d, f, x)
           at == Cut(d, f, x)
           k == Len(Top.kids)
<1>8. ReadsOn(d, f, level, line, content, at, m)
  <2>1. ReadsOn(d, f, level, LineIn(d, f, r, x), ContentIn(d, f, r, x), CutIn(d, f, r, x),
                LevelIn(level, x))
    BY <1>3, LineReadsOn
  <2> QED BY <1>3, <1>5, <2>1 DEF LineIn, ContentIn, CutIn
<1>9. /\ Top.end = Top.content + Len(content) /\ Top.p = Top.content + at[k]
      /\ k <= Len(line) /\ \A h \in DOMAIN Top.kids : twin[Top.kids[h]] = line[h]
  BY <1>3, <1>5 DEF FrameIs, LineIn, ContentIn, CutIn
<1>10. k = Len(line)
  <2>1. k \in Nat /\ Top.content \in Nat BY <1>2 DEF Frames
  <2>2. Len(line) \in Nat /\ Len(content) \in Nat /\ \A h \in 0 .. Len(line) : at[h] \in Nat
    BY <1>8 DEF ReadsOn
  <2> HIDE DEF line, content, at, k
  <2>3. at[k] \in Nat BY <1>9, <2>1, <2>2
  <2>4. at[k] >= Len(content) BY <1>2, <1>9, <2>1, <2>2, <2>3
  <2> QED BY <1>8, <1>9, <2>1, <2>4, AtTheEnd
<1>11. Len(Top.kids) = Len(f[x].kids) BY <1>4, <1>5, <1>10, LineParts
<1>12. NodeIs(data, d, f, twin, x, NodeOf(Top))
  <2> DEFINE n == NodeOf(Top)
  <2>1. /\ n.offset = Top.at /\ n.header_len = Top.content - Top.at
        /\ n.content_len = Top.end - Top.content /\ n.indefinite = FALSE
        /\ n.class = Top.class /\ n.constructed = TRUE /\ n.tag = Top.tag /\ n.kids = Top.kids
    BY <1>2 DEF NodeOf
  <2>2. Top.at \in Nat /\ Top.content \in Nat BY <1>2 DEF Frames
  <2> HIDE DEF n
  <2>3. End(n) = Top.end
    <3>1. End(n) = Top.at + (Top.content - Top.at) + (Top.end - Top.content) + 0
      BY <2>1 DEF End, ContentEnd
    <3> QED BY <1>2, <2>2, <3>1
  <2>4. Stands(data, n.offset, Encodings(d, f)[x]) BY <1>6, <1>7, <2>1 DEF ChildStands
  <2>5. n.offset + Len(Encodings(d, f)[x]) = End(n) BY <1>4, <2>1, <2>3
  <2>6. \A h \in DOMAIN n.kids : twin[n.kids[h]] = Line(d, f, x)[h] BY <1>9, <2>1
  <2>7. Len(n.kids) = Len(f[x].kids) BY <1>11, <2>1
  <2>8. n.class = f[x].class /\ n.tag = f[x].tag /\ n.constructed = f[x].constructed
    BY <1>4, <1>5, <2>1
  <2>9. NodeIs(data, d, f, twin, x, n)
    BY <1>4, <2>1, <2>4, <2>5, <2>6, <2>7, <2>8, Zenon DEF NodeIs
  <2> QED BY <2>9 DEF n
<1>13. \A h \in DOMAIN NodeOf(Top).kids : NodeOf(Top).kids[h] \in DOMAIN heap
  BY <1>2, KidsAreFinished DEF NodeOf
<1>14. Top.end = stack[m].p + Len(Encodings(d, f)[NextChild(d, f, r, path, m)])
  BY <1>4, <1>7
<1>15. NodeIs(data, d, f, twin, NextChild(d, f, r, path, m), NodeOf(Top)) BY <1>4, <1>12
<1> DEFINE node == NodeOf(Top)
           end == Top.end
<1>16. Collected(m, node, end) BY <1>2
<1> HIDE DEF node
<1> QED BY <1>2, <1>4, <1>13, <1>14, <1>15, <1>16, CollectedCopies DEF node

LEMMA ConstructedCopies ==
  ASSUME IInv, NEW d, NEW f, NEW r, NEW level, Given(d, f, r, level), NEW path, NEW twin,
         Copies(d, f, r, level, path, twin), ConstructedBody
  PROVE  \E p : Copies(d, f, r, level, p, twin)'
<1>1. PICK m : m = Len(stack) OBVIOUS
<1>2. PICK x : x = NextChild(d, f, r, path, m) OBVIOUS
<1>3. PICK g : g = [kind |-> "definite", at |-> hdr.at, class |-> hdr.class,
                    tag |-> hdr.tag, content |-> hdr.idx, end |-> hdr.idx + hdr.len,
                    p |-> hdr.idx, kids |-> <<>>]
  OBVIOUS
<1>4. /\ pc = "body" /\ pc \in HeaderPcs /\ hdr.constructed = TRUE
      /\ m \in Nat /\ m >= 1 /\ m \in DOMAIN stack /\ Top = stack[m]
      /\ hdr.idx \in Nat /\ hdr.len \in Nat /\ hdr.at = Top.p
      /\ Opened("definite", hdr.idx, hdr.idx + hdr.len)
      /\ DOMAIN stack = 1 .. m /\ stack \in Seq(Frames) /\ data \in Seq(Octets)
  <2>1. /\ pc = "body" /\ hdr.constructed = TRUE
        /\ Opened("definite", hdr.idx, hdr.idx + hdr.len)
        /\ Len(stack) \in Nat /\ Len(stack) >= 1 /\ hdr.idx \in Nat /\ hdr.len \in Nat
    BY ConstructedOpened
  <2>2. hdr.at = Top.p /\ pc \in HeaderPcs BY <2>1, InHeader DEF HeaderPcs
  <2>3. stack \in Seq(Frames) /\ data \in Seq(Octets) BY DEF IInv, Typed
  <2>4. DOMAIN stack = 1 .. m /\ m \in DOMAIN stack /\ Top = stack[m]
    BY <1>1, <2>1, <2>3, TopFacts
  <2> QED BY <1>1, <2>1, <2>2, <2>3, <2>4
<1>5. /\ pc' = "contents" /\ data' = data /\ heap' = heap /\ result' = result
      /\ stack' \in Seq(Frames) /\ Len(stack') = m + 1 /\ stack'[m + 1] = g
      /\ \A h \in 1 .. m : stack'[h] = stack[h]
  BY <1>1, <1>3, <1>4 DEF Opened
<1>6. DOMAIN stack' = 1 .. m + 1 BY <1>4, <1>5
<1>7. /\ HasNext(d, f, r, path, m) /\ ChildStands(d, f, level, Top, m, x)
      /\ HeaderOf(d, f, x) /\ Reading(d, f, x)
  BY <1>1, <1>2, <1>4, IsReading
<1>8. /\ hdr.idx + hdr.len = hdr.at + Len(Encodings(d, f)[x])
      /\ hdr.len = Len(Content(d, f, x)) /\ Stands(data, hdr.idx, Content(d, f, x))
      /\ hdr.class = f[x].class /\ hdr.constructed = f[x].constructed /\ hdr.tag = f[x].tag
  BY <1>4, <1>7, BodyIs
<1>9. x \in DOMAIN f /\ x # 0 /\ Opens(d, f, x) /\ LevelIn(level, x) = m
  <2>1. x \in DOMAIN f /\ level[x] = m - 1 /\ Len(Encodings(d, f)[x]) <= UsizeMax
    BY <1>7 DEF ChildStands
  <2>2. x \in Nat /\ x >= 1 BY <2>1, ForestFacts DEF Given
  <2>3. x # 0 BY <2>2
  <2>4. Opens(d, f, x) BY <1>4, <1>8, <2>1 DEF Opens
  <2>5. LevelIn(level, x) = (m - 1) + 1 BY <2>1, <2>3 DEF LevelIn
  <2> QED BY <1>4, <2>1, <2>3, <2>4, <2>5
<1>10. PICK p : p = [h \in 1 .. m + 1 |-> IF h = m + 1 THEN x ELSE path[h]] OBVIOUS
<1>11. /\ p[m + 1] = x /\ \A h \in 1 .. m : p[h] = path[h]
       /\ m + 1 \in 1 .. m + 1
  BY <1>4, <1>10
<1>12. /\ path[1] = 0
       /\ \A h \in 1 .. m : Opens(d, f, path[h]) /\ LevelIn(level, path[h]) = h - 1
       /\ \A h \in 1 .. m - 1 : InnerIs(d, f, r, path[h], stack[h], path[h + 1], stack[h + 1])
  BY <1>1, <1>4, Zenon DEF Copies, PathIs
<1>13. PathIs(d, f, r, level, p)'
  <2>1. p[1] = 0
    <3>1. 1 \in 1 .. m BY <1>4
    <3> QED BY <1>11, <1>12, <3>1
  <2>2. ASSUME NEW h \in 1 .. m + 1
        PROVE  Opens(d, f, p[h]) /\ LevelIn(level, p[h]) = h - 1
    <3>1. CASE h = m + 1
      <4>1. h - 1 = m /\ p[h] = x BY <1>4, <1>11, <3>1
      <4> QED BY <1>9, <4>1
    <3>2. CASE h # m + 1
      <4>1. h \in 1 .. m BY <1>4, <2>2, <3>2
      <4> QED BY <1>11, <1>12, <4>1
    <3> QED BY <3>1, <3>2
  <2>3. ASSUME NEW h \in 1 .. m
        PROVE  InnerIs(d, f, r, p[h], stack'[h], p[h + 1], stack'[h + 1])
    <3>1. CASE h = m
      <4>1. /\ p[h] = path[m] /\ p[h + 1] = x /\ stack'[h] = stack[m] /\ stack'[h + 1] = g
        BY <1>5, <1>11, <2>3, <3>1
      <4>2. /\ Len(stack[m].kids) < Len(LineIn(d, f, r, path[m]))
            /\ x = LineIn(d, f, r, path[m])[Len(stack[m].kids) + 1]
        BY <1>2, <1>7, Zenon DEF HasNext, NextChild
      <4>3. /\ g.kind = "definite" /\ g.class = f[x].class /\ g.tag = f[x].tag
            /\ g.end = g.at + Len(Encodings(d, f)[x])
        BY <1>3, <1>8
      <4>4. InnerIs(d, f, r, path[m], stack[m], x, g) BY <1>9, <4>2, <4>3, Zenon DEF InnerIs
      <4> QED BY <4>1, <4>4
    <3>2. CASE h # m
      <4>1. h \in 1 .. m - 1 /\ h + 1 \in 1 .. m BY <1>4, <2>3, <3>2
      <4>2. InnerIs(d, f, r, path[h], stack[h], path[h + 1], stack[h + 1]) BY <1>12, <4>1
      <4>3. p[h] = path[h] /\ p[h + 1] = path[h + 1] /\ stack'[h] = stack[h]
            /\ stack'[h + 1] = stack[h + 1]
        BY <1>5, <1>11, <2>3, <4>1
      <4> QED BY <4>2, <4>3
    <3> QED BY <3>1, <3>2
  <2>4. Len(stack') - 1 = m BY <1>4, <1>5
  <2> QED BY <1>6, <2>1, <2>2, <2>3, <2>4 DEF PathIs
<1>14. FramesCopy(d, f, r, p, twin)'
  <2>1. \A h \in 1 .. m : FrameIs(data, d, f, r, twin, path[h], stack[h])
    BY <1>4 DEF Copies, FramesCopy
  <2>2. FrameIs(data, d, f, r, twin, x, g)
    <3> DEFINE line == LineIn(d, f, r, x)
               content == ContentIn(d, f, r, x)
               at == CutIn(d, f, r, x)
    <3>1. ReadsOn(d, f, level, line, content, at, LevelIn(level, x)) BY <1>9, LineReadsOn
    <3>2. at[0] = 0 /\ Len(line) \in Nat BY <3>1 DEF ReadsOn
    <3>3. content = Content(d, f, x) BY <1>9 DEF ContentIn
    <3>4. /\ g.content = hdr.idx /\ g.end = hdr.idx + hdr.len /\ g.p = hdr.idx
          /\ g.kids = <<>> /\ Len(g.kids) = 0
      BY <1>3
    <3> HIDE DEF line, content, at
    <3>5. Stands(data, g.content, content) /\ g.end = g.content + Len(content)
      BY <1>8, <3>3, <3>4
    <3>6. Len(g.kids) <= Len(line) /\ g.p = g.content + at[Len(g.kids)]
      BY <1>4, <3>2, <3>4
    <3>7. \A k \in DOMAIN g.kids : twin[g.kids[k]] = line[k] BY <3>4
    <3> QED BY <3>5, <3>6, <3>7, Zenon DEF FrameIs, line, content, at
  <2>3. ASSUME NEW h \in 1 .. m + 1
        PROVE  FrameIs(data, d, f, r, twin, p[h], stack'[h])
    <3>1. CASE h = m + 1 BY <1>5, <1>11, <2>2, <3>1
    <3>2. CASE h # m + 1
      <4>1. h \in 1 .. m BY <1>4, <2>3, <3>2
      <4> QED BY <1>5, <1>11, <2>1, <4>1
    <3> QED BY <3>1, <3>2
  <2> QED BY <1>5, <1>6, <2>3 DEF FramesCopy
<1>15. NodesCopy(d, f, twin)' BY <1>5 DEF Copies, NodesCopy
<1>16. HeaderCopies(d, f, r, p)' BY <1>5 DEF HeaderCopies, HeaderPcs
<1>17. result'.kind \in {"pending", "ok"} BY <1>5 DEF Copies
<1>18. Copies(d, f, r, level, p, twin)'
  BY <1>13, <1>14, <1>15, <1>16, <1>17 DEF Copies
<1> QED BY <1>18

\* Every step of reading back what was written goes on along the forest.
LEMMA CopiesStep ==
  ASSUME IInv, NEW d, NEW f, NEW r, NEW level, Given(d, f, r, level), NEW path, NEW twin,
         Copies(d, f, r, level, path, twin), rules = "der", caller = "parse_rules",
         [Next]_vars
  PROVE  \E p, t : Copies(d, f, r, level, p, t)'
<1>1. CASE PrimitiveBody BY <1>1, PrimitiveCopies
<1>2. CASE ConstructedBody BY <1>2, ConstructedCopies
<1>3. CASE CloseDefinite BY <1>3, CloseCopies
<1>4. CASE BeginElement \/ TagOctet \/ ShortLength \/ LongLength \/ LongLengthOctet
           \/ LongLengthEnd
  BY <1>4, HeaderStepCopies
<1>5. CASE Accept
  <2>1. /\ UNCHANGED <<data, stack, heap>> /\ result'.kind \in {"pending", "ok"}
        /\ pc' \notin HeaderPcs
    BY <1>5 DEF Accept, input, HeaderPcs
  <2> QED BY <2>1, CopiesStay
<1>6. CASE UNCHANGED vars
  <2>1. UNCHANGED <<data, stack, heap, pc, hdr, result>> BY <1>6 DEF vars, input
  <2>2. result'.kind \in {"pending", "ok"} BY <2>1 DEF Copies
  <2>3. ASSUME pc' \in HeaderPcs
        PROVE  /\ HasNext(d, f, r, path, Len(stack))
               /\ \E x : x = NextChild(d, f, r, path, Len(stack)) /\ HeaderOf(d, f, x)'
    <3>1. PICK x : x = NextChild(d, f, r, path, Len(stack)) OBVIOUS
    <3>2. HasNext(d, f, r, path, Len(stack)) /\ HeaderOf(d, f, x)
      BY <2>1, <2>3, <3>1, IsReading
    <3>3. HeaderOf(d, f, x)' BY <2>1, <3>2 DEF HeaderOf, TagRead
    <3> QED BY <3>1, <3>2, <3>3
  <2> QED BY <2>1, <2>2, <2>3, CopiesStay
<1>7. QED
  <2>1. /\ ~ TooDeep /\ ~ NoTag /\ ~ TagError /\ ~ LengthError /\ ~ LongLengthError
        /\ ~ BodyError /\ ~ MarkerError /\ ~ TrailingBytes
        /\ ~ IndefiniteLength /\ ~ CloseIndefinite
    BY NoError
  <2> QED BY <1>1, <1>2, <1>3, <1>4, <1>5, <1>6, <2>1 DEF Next

\* Before anything is read.
LEMMA StartCopies ==
  ASSUME Starting, NEW d, NEW f, NEW r, NEW level, Given(d, f, r, level),
         data = Encodings(d, f)[r]
  PROVE  \E p, t : Copies(d, f, r, level, p, t)
<1>1. /\ stack = <<CallFrame>> /\ heap = <<>> /\ pc = "contents" /\ result.kind = "pending"
  BY DEF Starting
<1>2. PICK p : p = <<0>> OBVIOUS
<1>3. PICK t : t = <<>> OBVIOUS
<1>4. DOMAIN stack = {1} /\ Len(stack) = 1 /\ stack[1] = CallFrame BY <1>1
<1>5. PathIs(d, f, r, level, p)
  <2>1. p[1] = 0 BY <1>2
  <2>2. Opens(d, f, 0) /\ LevelIn(level, 0) = 1 - 1 BY DEF Opens, LevelIn
  <2>3. 1 .. Len(stack) - 1 = {} BY <1>4
  <2> QED BY <1>4, <2>1, <2>2, <2>3 DEF PathIs
<1>6. FrameIs(data, d, f, r, t, 0, CallFrame)
  <2> DEFINE g == CallFrame
             w == Encodings(d, f)[r]
  <2>1. g.content = 0 /\ g.end = Len(w) /\ g.p = 0 /\ g.kids = <<>> /\ Len(g.kids) = 0
    BY DEF CallFrame
  <2>2. w \in Seq(Octets) /\ Len(w) \in Nat BY EncodingsAreOctets, EncodingIsSome DEF Given
  <2>3. Stands(w, 0, w)
    <3> HIDE DEF w
    <3> QED BY <2>2 DEF Stands
  <2>4. /\ LineIn(d, f, r, 0) = <<r>> /\ ContentIn(d, f, r, 0) = w
        /\ CutIn(d, f, r, 0)[0] = 0 /\ Len(LineIn(d, f, r, 0)) = 1
    BY DEF LineIn, ContentIn, CutIn
  <2> HIDE DEF w, g
  <2>5. data = w BY DEF w
  <2>6. g.end = g.content + Len(w) /\ g.p = g.content + 0 BY <2>1, <2>2
  <2>7. \A k \in DOMAIN g.kids : t[g.kids[k]] = LineIn(d, f, r, 0)[k] BY <2>1
  <2>8. Len(g.kids) <= Len(LineIn(d, f, r, 0)) BY <2>1, <2>4
  <2>9. FrameIs(data, d, f, r, t, 0, g)
    BY <2>1, <2>3, <2>4, <2>5, <2>6, <2>7, <2>8 DEF FrameIs
  <2> QED BY <2>9 DEF g
<1>7. FramesCopy(d, f, r, p, t)
  <2>1. p[1] = 0 BY <1>2
  <2> QED BY <1>4, <1>6, <2>1 DEF FramesCopy
<1>8. NodesCopy(d, f, t)
  <2>1. DOMAIN heap = {} BY <1>1
  <2> QED BY <2>1 DEF NodesCopy
<1>9. HeaderCopies(d, f, r, p) BY <1>1 DEF HeaderCopies, HeaderPcs
<1>10. Copies(d, f, r, level, p, t) BY <1>1, <1>5, <1>7, <1>8, <1>9 DEF Copies
<1> QED BY <1>10

-----------------------------------------------------------------------------
(* The inductive invariant of reading, writing and reading back *)

\* The octets being read are those of the tree that was written, and what is
\* behind the reader is a copy of it.
ReadsBack(d, f, r) ==
  \E level, path, twin : Given(d, f, r, level) /\ Copies(d, f, r, level, path, twin)

RInv ==
  /\ IInv
  /\ DerInv
  /\ caller = "parse_rules"
  /\ stage \in {1, 2}
  /\ stage = 1 => LevelInv
  /\ stage = 2 => rules = "der" /\ ReadsBack(source.data, source.forest, source.root)

LEMMA RInitInv == RInit => RInv
<1> SUFFICES ASSUME RInit PROVE RInv OBVIOUS
<1>1. Init /\ caller = "parse_rules" /\ stage = 1 BY DEF RInit
<1>2. Starting /\ IInv BY <1>1, InitInv
<1>3. DerInv /\ LevelInv BY <1>2, StartDer, StartLevels
<1> QED BY <1>1, <1>2, <1>3 DEF RInv

LEMMA ReadsBackStep ==
  ASSUME IInv, rules = "der", caller = "parse_rules", [Next]_vars,
         NEW d, NEW f, NEW r, ReadsBack(d, f, r)
  PROVE  ReadsBack(d, f, r)'
<1>1. PICK level, path, twin : Given(d, f, r, level) /\ Copies(d, f, r, level, path, twin)
  BY DEF ReadsBack
<1>2. PICK p, t : Copies(d, f, r, level, p, t)' BY <1>1, CopiesStep
<1> QED BY <1>1, <1>2 DEF ReadsBack

LEMMA ParseInv ==
  ASSUME RInv, [Next]_vars, UNCHANGED <<stage, source>>
  PROVE  RInv'
<1>1. IInv' /\ DerInv' BY NextInv, DerStep DEF RInv
<1>2. caller' = caller /\ rules' = rules BY InputIsGiven DEF input
<1>3. stage = 1 => LevelInv' BY LevelStep DEF RInv
<1>4. ASSUME stage = 2
      PROVE  ReadsBack(source.data, source.forest, source.root)'
  <2>1. PICK d, f, r : d = source.data /\ f = source.forest /\ r = source.root OBVIOUS
  <2>2. ReadsBack(d, f, r) /\ rules = "der" BY <1>4, <2>1 DEF RInv
  <2>3. ReadsBack(d, f, r)' BY <2>2, ReadsBackStep DEF RInv
  <2>4. d = source'.data /\ f = source'.forest /\ r = source'.root BY <2>1
  <2> QED BY <2>3, <2>4 DEF ReadsBack
<1> QED BY <1>1, <1>2, <1>3, <1>4 DEF RInv

\* The lemmas about a start, of the state after a step.
Restarts ==
  \A d, f, r, level :
    Given(d, f, r, level) /\ data = Encodings(d, f)[r] => ReadsBack(d, f, r)

LEMMA StartsAgain == Starting' => IInv' /\ DerInv' /\ Restarts'
<1>1. Starting => Restarts
  <2> SUFFICES ASSUME Starting, NEW d, NEW f, NEW r, NEW level, Given(d, f, r, level),
                      data = Encodings(d, f)[r]
               PROVE  ReadsBack(d, f, r)
    BY DEF Restarts
  <2>1. \E p, t : Copies(d, f, r, level, p, t) BY StartCopies
  <2> QED BY <2>1 DEF ReadsBack
<1> QED BY <1>1, StartInv, StartDer, PTL

\* What is written fits what reads it: the tree, its root and its depth.
LEMMA WrittenIsGiven ==
  ASSUME RInv, stage = 1, result.kind = "ok", Len(ToDer(data, heap, Root)) <= UsizeMax
  PROVE  /\ \E level : Given(data, heap, Root, level)
         /\ ToDer(data, heap, Root) = Encodings(data, heap)[Root]
         /\ ToDer(data, heap, Root) \in Seq(Octets)
<1>1. Forest(data, heap) BY HeapIsForest DEF RInv
<1>2. stack[1].kids = <<Root>> /\ Root \in DOMAIN heap BY RootSpans DEF RInv
<1>3. PICK level : Levels(level, heap) /\ Collects(level, stack) BY DEF RInv, LevelInv
<1>4. level[Root] = 0
  <2>1. 1 \in DOMAIN stack
    <3>1. Len(stack) \in Nat /\ Len(stack) >= 1 /\ stack \in Seq(Frames)
      BY DEF RInv, IInv, Typed
    <3> QED BY <3>1
  <2>2. 1 \in DOMAIN stack[1].kids /\ stack[1].kids[1] = Root BY <1>2
  <2>3. level[stack[1].kids[1]] = 1 - 1 BY <1>3, <2>1, <2>2 DEF Collects
  <2> QED BY <2>2, <2>3
<1>5. ToDer(data, heap, Root) = Encodings(data, heap)[Root] BY DEF ToDer
<1>6. Given(data, heap, Root, level) BY <1>1, <1>2, <1>3, <1>4, <1>5 DEF Given
<1>7. ToDer(data, heap, Root) \in Seq(Octets) BY <1>1, <1>2, <1>5, EncodingsAreOctets
<1> QED BY <1>5, <1>6, <1>7

LEMMA ReencodeInv ==
  ASSUME RInv, Reencode
  PROVE  RInv'
<1>1. PICK d, f, r : d = data /\ f = heap /\ r = Root OBVIOUS
<1>2. /\ stage = 1 /\ result.kind = "ok" /\ Len(ToDer(data, heap, Root)) <= UsizeMax
      /\ stage' = 2 /\ source' = [data |-> d, forest |-> f, root |-> r]
      /\ data' = ToDer(d, f, r) /\ rules' = "der" /\ caller' = "parse_rules"
      /\ pc' = "contents" /\ hdr' = NoHeader /\ stack' = <<CallFrame'>> /\ heap' = <<>>
      /\ result' = [kind |-> "pending", offset |-> 0]
  BY <1>1 DEF Reencode
<1>3. PICK level : Given(d, f, r, level) BY <1>1, <1>2, WrittenIsGiven
<1>4. /\ data' = Encodings(d, f)[r] /\ data' \in Seq(Octets) /\ Len(data') <= UsizeMax
  BY <1>1, <1>2, WrittenIsGiven
<1>5. Starting' BY <1>2, <1>4 DEF Starting
<1>6. IInv' /\ DerInv' /\ Restarts' BY <1>5, StartsAgain
<1>7. ReadsBack(d, f, r)' BY <1>3, <1>4, <1>6 DEF Restarts
<1>8. ReadsBack(source.data, source.forest, source.root)'
  <2>1. d = source'.data /\ f = source'.forest /\ r = source'.root BY <1>2
  <2> QED BY <1>7, <2>1 DEF ReadsBack
<1> QED BY <1>2, <1>6, <1>8 DEF RInv

LEMMA RNextInv ==
  ASSUME RInv, [RNext]_allVars
  PROVE  RInv'
<1>1. CASE Parse BY <1>1, ParseInv DEF Parse
<1>2. CASE Reencode BY <1>2, ReencodeInv
<1>3. CASE UNCHANGED allVars
  <2>1. UNCHANGED <<stage, source>> /\ UNCHANGED vars BY <1>3 DEF allVars
  <2> QED BY <2>1, ParseInv
<1> QED BY <1>1, <1>2, <1>3 DEF RNext

(* What holds of every state in which a blob is read, written as DER and    *)
(* read back, for any limits of the format and the build (tlv.rs,           *)
(* reencode.rs).                                                            *)
THEOREM RoundTripInvariance == RSpec => []RInv
<1>1. RInit => RInv BY RInitInv
<1>2. RInv /\ [RNext]_allVars => RInv' BY RNextInv
<1> QED BY <1>1, <1>2, PTL DEF RSpec

(* What to_der writes is DER: whatever rules the blob was read under, the   *)
(* parser takes the re-encoding back without an error (reencode.rs to_der,  *)
(* tlv.rs parse_rules).                                                     *)
THEOREM WrittenIsDer == RSpec => []ReencodingIsDer
<1>1. RInv => ReencodingIsDer
  <2> SUFFICES ASSUME RInv, stage = 2
               PROVE  data \in Seq(Octets) /\ result.kind \in {"pending", "ok"}
    BY DEF ReencodingIsDer
  <2>1. data \in Seq(Octets) BY DEF RInv, IInv, Typed
  <2>2. result.kind \in {"pending", "ok"} BY DEF RInv, ReadsBack, Copies
  <2> QED BY <2>1, <2>2
<1> QED BY <1>1, RoundTripInvariance, PTL

-----------------------------------------------------------------------------
(* What is written has its sets in order *)

\* A copy stands in the blob as the node it is a copy of is encoded.
LEMMA CopyStands ==
  ASSUME NEW d, NEW f, Forest(d, f), NEW w \in Seq(Octets), NEW twin, NEW n \in Nodes,
         NEW i, NodeIs(w, d, f, twin, i, n)
  PROVE  SubSeq(w, n.offset + 1, End(n)) = Encodings(d, f)[i]
<1> DEFINE e == Encodings(d, f)[i]
           o == n.offset
<1>1. i \in DOMAIN f /\ Stands(w, o, e) /\ o + Len(e) = End(n) BY Zenon DEF NodeIs
<1>2. e \in Seq(Nat) BY <1>1, EncodingsAreWords DEF Words
<1>3. w \in Seq(Nat)
  <2>1. Octets \subseteq Nat BY DEF Octets
  <2> QED BY <2>1, SeqOfMore
<1>4. o \in Nat BY DEF Nodes
<1> HIDE DEF e, o
<1>5. SubSeq(w, o + 1, o + Len(e)) = e BY <1>1, <1>2, <1>3, <1>4, StandsIs
<1> QED BY <1>1, <1>5 DEF e, o

LEMMA CopiesAreSorted ==
  ASSUME IInv, NEW d, NEW f, Forest(d, f), NEW twin, NodesCopy(d, f, twin)
  PROVE  SetsSorted(data, heap)
<1>1. /\ \A h \in DOMAIN heap : NodeIs(data, d, f, twin, twin[h], heap[h])
      /\ data \in Seq(Octets) /\ heap \in Seq(Nodes)
      /\ \A h \in DOMAIN heap : heap[h] \in Nodes
  BY DEF NodesCopy, IInv, Typed
<1>2. \A h \in DOMAIN heap : SubSeq(data, heap[h].offset + 1, End(heap[h])) = Encodings(d, f)[twin[h]]
  BY <1>1, CopyStands
<1>3. ASSUME NEW h \in DOMAIN heap, IsSet(heap[h]), heap[h].constructed,
             NEW k \in 1 .. Len(heap[h].kids) - 1
      PROVE  ~ Precedes(SubSeq(data, heap[heap[h].kids[k + 1]].offset + 1,
                               End(heap[heap[h].kids[k + 1]])),
                        SubSeq(data, heap[heap[h].kids[k]].offset + 1,
                               End(heap[heap[h].kids[k]])))
  <2> DEFINE i == twin[h]
             kids == heap[h].kids
             C == Codes(d, f, f[i].kids)
             p == Sorting(C)
             E == Encodings(d, f)
  <2>1. /\ kids \in Seq(Nat) /\ \A j \in DOMAIN kids : kids[j] \in DOMAIN heap
        /\ DOMAIN kids = 1 .. Len(kids) /\ Len(kids) \in Nat
    <3>1. kids \in Seq(Nat) /\ \A j \in DOMAIN kids : kids[j] \in DOMAIN heap
      BY KidsAreFinished
    <3> QED BY <3>1
  <2>2. /\ i \in DOMAIN f /\ IsSet(f[i]) /\ Len(kids) = Len(f[i].kids)
        /\ \A j \in DOMAIN kids : twin[kids[j]] = Line(d, f, i)[j]
    <3>1. NodeIs(data, d, f, twin, i, heap[h]) BY <1>1
    <3> QED BY <1>3, <3>1 DEF NodeIs, IsSet
  <2>3. f[i].kids \in Seq(Nat) /\ DOMAIN f[i].kids = DOMAIN kids
    <3>1. f[i].kids \in Seq(Nat) BY <2>2, ForestFacts
    <3> QED BY <2>1, <2>2, <3>1
  <2>4. C \in Seq(Words) /\ DOMAIN C = DOMAIN kids
        /\ \A j \in DOMAIN kids : C[j] = E[f[i].kids[j]]
    <3>1. C \in Seq(Words) BY <2>2, LineParts
    <3> QED BY <2>3, <3>1 DEF Codes
  <2>5. SortsWell(C, p) BY <2>4, SortingSorts
  <2>6. /\ p \in [DOMAIN kids -> DOMAIN kids]
        /\ \A a, b \in DOMAIN kids : a < b => ~ Precedes(C[p[b]], C[p[a]])
    <3> HIDE DEF C, p, kids
    <3> QED BY <2>4, <2>5 DEF SortsWell, Bijection, Injection
  <2>7. \A j \in DOMAIN kids : Line(d, f, i)[j] = f[i].kids[p[j]]
    BY <2>2, <2>3 DEF Line
  <2>8. \A j \in DOMAIN kids :
          SubSeq(data, heap[kids[j]].offset + 1, End(heap[kids[j]])) = C[p[j]]
    <3> TAKE j \in DOMAIN kids
    <3>1. kids[j] \in DOMAIN heap /\ twin[kids[j]] = f[i].kids[p[j]]
      BY <2>1, <2>2, <2>7
    <3>2. p[j] \in DOMAIN kids
      <4> HIDE DEF p, kids
      <4> QED BY <2>6
    <3>3. C[p[j]] = E[f[i].kids[p[j]]]
      <4> HIDE DEF C, p, kids, E
      <4> QED BY <2>4, <3>2
    <3> QED BY <1>2, <3>1, <3>3
  <2>9. k \in DOMAIN kids /\ k + 1 \in DOMAIN kids /\ k < k + 1 BY <1>3, <2>1
  <2> HIDE DEF C, p
  <2>10. ~ Precedes(C[p[k + 1]], C[p[k]]) BY <2>6, <2>9
  <2> QED BY <2>8, <2>9, <2>10
<1> QED BY <1>3 DEF SetsSorted

(* to_der leaves DER alone when its sets are in order, and what it writes   *)
(* is such DER: it is idempotent (the header of reencode.rs).               *)
THEOREM DerStaysAsItIs == RSpec => []DerIsFixed
<1>1. RInv => DerIsFixed
  <2> SUFFICES ASSUME RInv, result.kind = "ok", rules = "der"
               PROVE  /\ stage = 2 => SetsSorted(data, heap)
                      /\ SetsSorted(data, heap) => ToDer(data, heap, Root) = data
    BY DEF DerIsFixed
  <2>1. ASSUME stage = 2 PROVE SetsSorted(data, heap)
    <3>1. PICK d, f, r : d = source.data /\ f = source.forest /\ r = source.root OBVIOUS
    <3>2. PICK level, path, twin : Given(d, f, r, level) /\ Copies(d, f, r, level, path, twin)
      BY <2>1, <3>1 DEF RInv, ReadsBack
    <3> QED BY <3>2, CopiesAreSorted DEF RInv, Given, Copies
  <2>2. SetsSorted(data, heap) => ToDer(data, heap, Root) = data
    BY SortedDerIsFixed DEF RInv
  <2> QED BY <2>1, <2>2
<1> QED BY <1>1, RoundTripInvariance, PTL

-----------------------------------------------------------------------------
(* What is read back says what was written *)

\* The conditions of Twins, with what it says of the nodes below given by g.
KidsTwin(g, m, n) ==
  \E order \in Bijection(DOMAIN m.kids, DOMAIN m.kids) :
    /\ ~ IsSet(m) => \A k \in DOMAIN m.kids : order[k] = k
    /\ \A k \in DOMAIN m.kids : n.kids[k] \in g[m.kids[order[k]]]

SaysTheSame(d1, m, d2, n) ==
  /\ m.class = n.class /\ m.tag = n.tag /\ m.constructed = n.constructed
  /\ ~ m.constructed => SubSeq(d1, ContentStart(m) + 1, ContentEnd(m))
                          = SubSeq(d2, ContentStart(n) + 1, ContentEnd(n))
  /\ Len(m.kids) = Len(n.kids)

TwinsFrom(g, d1, f1, d2, f2, i) ==
  { j \in DOMAIN f2 : SaysTheSame(d1, f1[i], d2, f2[j]) /\ KidsTwin(g, f1[i], f2[j]) }

TwinsTo(g, d1, f1, d2, f2) == g = [i \in DOMAIN f1 |-> TwinsFrom(g, d1, f1, d2, f2, i)]

LEMMA TwinsFromSame ==
  ASSUME NEW d1, NEW f1, NEW d2, NEW f2, NEW i, NEW g, NEW h,
         \A k \in DOMAIN f1[i].kids : g[f1[i].kids[k]] = h[f1[i].kids[k]]
  PROVE  TwinsFrom(g, d1, f1, d2, f2, i) = TwinsFrom(h, d1, f1, d2, f2, i)
<1> DEFINE kids == f1[i].kids
           D == DOMAIN kids
<1>1. \A order \in Bijection(D, D) : \A k \in D : g[kids[order[k]]] = h[kids[order[k]]]
  <2> TAKE order \in Bijection(D, D)
  <2> TAKE k \in D
  <2>1. order \in [D -> D] BY DEF Bijection, Injection
  <2>2. order[k] \in D BY <2>1
  <2> QED BY <2>2
<1>2. \A n : KidsTwin(g, f1[i], n) <=> KidsTwin(h, f1[i], n)
  BY <1>1, Zenon DEF KidsTwin
<1> QED BY <1>2, Zenon DEF TwinsFrom

LEMMA TwinsExist ==
  ASSUME NEW d1, NEW f1, Forest(d1, f1), NEW d2, NEW f2
  PROVE  \E g : TwinsTo(g, d1, f1, d2, f2)
<1> DEFINE From(g, i) == TwinsFrom(g, d1, f1, d2, f2, i)
           Is(g, n) == \A i \in 1 .. n : g[i] = From(g, i)
           T == { n \in Nat : n <= Len(f1) => \E g : Is(g, n) }
<1>0. Len(f1) \in Nat /\ DOMAIN f1 = 1 .. Len(f1) BY DEF Forest
<1>1. 0 \in T OBVIOUS
<1>2. ASSUME NEW n \in Nat, n \in T PROVE n + 1 \in T
  <2> SUFFICES ASSUME n + 1 <= Len(f1) PROVE \E g : Is(g, n + 1) OBVIOUS
  <2>1. PICK g : Is(g, n) BY <1>0, <1>2
  <2> DEFINE x == From(g, n + 1)
             h == [i \in 1 .. n + 1 |-> IF i = n + 1 THEN x ELSE g[i]]
  <2>2. ASSUME NEW i \in 1 .. n + 1 PROVE From(h, i) = From(g, i)
    <3>1. i \in DOMAIN f1 BY <1>0
    <3>2. ASSUME NEW k \in DOMAIN f1[i].kids PROVE h[f1[i].kids[k]] = g[f1[i].kids[k]]
      <4> DEFINE c == f1[i].kids[k]
      <4>1. c \in 1 .. i - 1 BY <3>1, ForestFacts
      <4> HIDE DEF c
      <4>2. c \in 1 .. n + 1 /\ c # n + 1 BY <4>1
      <4> HIDE DEF x
      <4> QED BY <4>2 DEF c
    <3> HIDE DEF h
    <3> QED BY <3>2, TwinsFromSame
  <2>3. ASSUME NEW i \in 1 .. n + 1 PROVE h[i] = From(h, i)
    <3>1. CASE i = n + 1
      <4> HIDE DEF x
      <4>1. h[i] = x BY <3>1
      <4> HIDE DEF h
      <4> QED BY <2>2, <3>1, <4>1 DEF x
    <3>2. CASE i # n + 1
      <4>1. i \in 1 .. n BY <3>2
      <4>2. h[i] = g[i]
        <5> HIDE DEF x
        <5> QED BY <3>2
      <4>3. g[i] = From(g, i) BY <2>1, <4>1
      <4> HIDE DEF h, From
      <4> QED BY <2>2, <4>2, <4>3
    <3> QED BY <3>1, <3>2
  <2>4. Is(h, n + 1)
    <3> HIDE DEF h, From
    <3> QED BY <2>3
  <2> HIDE DEF Is, h
  <2> QED BY <2>4
<1>3. Len(f1) \in T
  <2> HIDE DEF T
  <2> QED BY <1>0, <1>1, <1>2, NatInduct
<1>4. PICK g : Is(g, Len(f1)) BY <1>0, <1>3
<1> DEFINE h == [i \in DOMAIN f1 |-> g[i]]
<1>5. ASSUME NEW i \in DOMAIN f1 PROVE g[i] = From(h, i)
  <2>1. g[i] = From(g, i) BY <1>0, <1>4
  <2>2. ASSUME NEW k \in DOMAIN f1[i].kids PROVE h[f1[i].kids[k]] = g[f1[i].kids[k]]
    <3> DEFINE c == f1[i].kids[k]
    <3>1. c \in DOMAIN f1 BY ForestFacts
    <3> HIDE DEF c
    <3> QED BY <3>1 DEF c
  <2> HIDE DEF h
  <2> QED BY <2>1, <2>2, TwinsFromSame
<1>6. TwinsTo(h, d1, f1, d2, f2)
  <2>1. h = [i \in DOMAIN f1 |-> From(h, i)]
    <3> DEFINE e(i) == From(h, i)
    <3>1. \A i \in DOMAIN f1 : g[i] = e(i) BY <1>5
    <3> HIDE DEF From, e
    <3>2. h = [i \in DOMAIN f1 |-> e(i)] BY <3>1
    <3> QED BY <3>2 DEF e
  <2> HIDE DEF h
  <2> QED BY <2>1 DEF TwinsTo
<1> QED BY <1>6

LEMMA TwinsAre ==
  ASSUME NEW d1, NEW f1, Forest(d1, f1), NEW d2, NEW f2
  PROVE  \A i \in DOMAIN f1 :
           Twins(d1, f1, d2, f2)[i] = TwinsFrom(Twins(d1, f1, d2, f2), d1, f1, d2, f2, i)
<1> DEFINE W == Twins(d1, f1, d2, f2)
<1>1. W = CHOOSE g : TwinsTo(g, d1, f1, d2, f2)
  BY ZenonT(60) DEF Twins, TwinsTo, TwinsFrom, SaysTheSame, KidsTwin
<1>2. TwinsTo(W, d1, f1, d2, f2) BY <1>1, TwinsExist, Zenon
<1> HIDE DEF W
<1>3. \A i \in DOMAIN f1 : W[i] = TwinsFrom(W, d1, f1, d2, f2, i) BY <1>2, Zenon DEF TwinsTo
<1> QED BY <1>3 DEF W

\* The children of n are copies of the line of node i, and twins of what they copy.
LinedUp(d, f, i, g, n, twin) ==
  \A k \in DOMAIN n.kids :
    twin[n.kids[k]] = Line(d, f, i)[k] /\ n.kids[k] \in g[twin[n.kids[k]]]

\* The order of the children of a copy.
LEMMA CopyKidsAreTwins ==
  ASSUME NEW d, NEW f, Forest(d, f), NEW i \in DOMAIN f, NEW g, NEW n, NEW twin,
         Len(n.kids) = Len(f[i].kids), n.kids \in Seq(Nat),
         LinedUp(d, f, i, g, n, twin)
  PROVE  KidsTwin(g, f[i], n)
<1> DEFINE kids == f[i].kids
           D == DOMAIN kids
           C == Codes(d, f, kids)
<1>1. kids \in Seq(Nat) /\ DOMAIN n.kids = D
  <2>1. kids \in Seq(Nat) BY ForestFacts
  <2> QED BY <2>1
<1>2. \A k \in D : n.kids[k] \in g[Line(d, f, i)[k]] BY <1>1 DEF LinedUp
<1>3. CASE IsSet(f[i])
  <2> DEFINE p == Sorting(C)
  <2>1. C \in Seq(Words) /\ DOMAIN C = D
    <3>1. C \in Seq(Words) BY LineParts
    <3> QED BY <3>1 DEF Codes
  <2>2. SortsWell(C, p) BY <2>1, SortingSorts
  <2>3. p \in Bijection(D, D)
    <3> HIDE DEF C, p, D
    <3> QED BY <2>1, <2>2 DEF SortsWell
  <2>4. \A k \in D : Line(d, f, i)[k] = kids[p[k]] BY <1>3 DEF Line
  <2>5. \A k \in D : n.kids[k] \in g[kids[p[k]]] BY <1>2, <2>4
  <2> HIDE DEF p
  <2> QED BY <1>3, <2>3, <2>5, Zenon DEF KidsTwin
<1>4. CASE ~ IsSet(f[i])
  <2>1. PICK p : p = [k \in D |-> k] OBVIOUS
  <2>2. \A k \in D : p[k] = k BY <2>1
  <2>3. p \in Bijection(D, D)
    <3> HIDE DEF D
    <3>1. p \in [D -> D] /\ \A a, b \in D : p[a] = p[b] => a = b BY <2>1
    <3>2. \A b \in D : \E a \in D : p[a] = b BY <2>2
    <3> QED BY <3>1, <3>2, Zenon DEF Bijection, Injection, Surjection, IsInjective
  <2>4. \A k \in D : Line(d, f, i)[k] = kids[k] BY <1>4 DEF Line
  <2>5. \A k \in D : n.kids[k] \in g[kids[p[k]]] BY <1>2, <2>2, <2>4
  <2> QED BY <2>2, <2>3, <2>5, Zenon DEF KidsTwin
<1> QED BY <1>3, <1>4

LEMMA CopiesAreTwins ==
  ASSUME IInv, NEW d, NEW f, Forest(d, f), NEW twin, NodesCopy(d, f, twin)
  PROVE  \A j \in DOMAIN heap : j \in Twins(d, f, data, heap)[twin[j]]
<1> DEFINE W == Twins(d, f, data, heap)
           Copied(i) == \A j \in DOMAIN heap : twin[j] = i => j \in W[i]
           T == { i \in Nat : i \in DOMAIN f => Copied(i) }
<1>1. \A h \in DOMAIN heap : NodeIs(data, d, f, twin, twin[h], heap[h]) BY DEF NodesCopy
<1>2. \A i \in DOMAIN f : W[i] = TwinsFrom(W, d, f, data, heap, i) BY TwinsAre
<1> HIDE DEF W
<1>3. ASSUME NEW i \in Nat, \A m \in 0 .. i - 1 : m \in T, i \in DOMAIN f,
             NEW j \in DOMAIN heap, twin[j] = i
      PROVE  j \in W[i]
  <2> DEFINE n == heap[j]
  <2>1. NodeIs(data, d, f, twin, i, n) BY <1>1, <1>3
  <2>2. /\ n.kids \in Seq(Nat) /\ DOMAIN n.kids = 1 .. Len(n.kids)
        /\ \A k \in DOMAIN n.kids : n.kids[k] \in DOMAIN heap
    <3>1. n.kids \in Seq(Nat) /\ \A k \in DOMAIN n.kids : n.kids[k] \in DOMAIN heap
      BY KidsAreFinished
    <3> QED BY <3>1
  <2>3. SaysTheSame(d, f[i], data, n)
    BY <2>1, Zenon DEF NodeIs, SaysTheSame
  <2>4. /\ Len(n.kids) = Len(f[i].kids)
        /\ \A k \in DOMAIN n.kids : twin[n.kids[k]] = Line(d, f, i)[k]
    BY <2>1, Zenon DEF NodeIs
  <2>5. ASSUME NEW k \in DOMAIN n.kids PROVE n.kids[k] \in W[twin[n.kids[k]]]
    <3>1. k \in DOMAIN f[i].kids
      <4>1. f[i].kids \in Seq(Nat) BY <1>3, ForestFacts
      <4> QED BY <2>2, <2>4, <2>5, <4>1
    <3>2. Line(d, f, i)[k] \in DOMAIN f /\ Line(d, f, i)[k] \in 1 .. i - 1
      <4> DEFINE kids == f[i].kids
                 C == Codes(d, f, kids)
      <4>1. C \in Seq(Words) /\ DOMAIN C = DOMAIN kids
        <5>1. C \in Seq(Words) BY <1>3, LineParts
        <5> QED BY <5>1 DEF Codes
      <4>2. Sorting(C) \in [DOMAIN kids -> DOMAIN kids]
        <5>1. SortsWell(C, Sorting(C)) BY <4>1, SortingSorts
        <5> HIDE DEF C
        <5> QED BY <4>1, <5>1 DEF SortsWell, Bijection, Injection
      <4>3. \A m \in DOMAIN kids : kids[m] \in DOMAIN f /\ kids[m] \in 1 .. i - 1
        BY <1>3, ForestFacts
      <4>4. Line(d, f, i)[k] = IF IsSet(f[i]) THEN kids[Sorting(C)[k]] ELSE kids[k]
        BY <3>1 DEF Line
      <4> HIDE DEF C, kids
      <4>5. k \in DOMAIN kids /\ Sorting(C)[k] \in DOMAIN kids BY <3>1, <4>2 DEF kids
      <4> QED BY <4>3, <4>4, <4>5
    <3>3. PICK m : m = Line(d, f, i)[k] OBVIOUS
    <3>4. m \in 0 .. i - 1 /\ m \in DOMAIN f BY <3>2, <3>3
    <3>5. Copied(m)
      <4>1. m \in T BY <1>3, <3>4
      <4> QED BY <3>4, <4>1
    <3>6. n.kids[k] \in DOMAIN heap /\ twin[n.kids[k]] = m BY <2>2, <2>4, <2>5, <3>3
    <3> QED BY <3>5, <3>6
  <2>6. KidsTwin(W, f[i], n)
    <3>1. LinedUp(d, f, i, W, n, twin) BY <2>4, <2>5 DEF LinedUp
    <3> HIDE DEF n
    <3> QED BY <1>3, <2>2, <2>4, <3>1, CopyKidsAreTwins
  <2>7. j \in TwinsFrom(W, d, f, data, heap, i) BY <1>3, <2>3, <2>6 DEF TwinsFrom
  <2> QED BY <1>2, <1>3, <2>7
<1>4. \A i \in Nat : i \in T
  <2>1. \A i \in Nat : (\A m \in 0 .. i - 1 : m \in T) => i \in T BY <1>3
  <2> HIDE DEF T
  <2> QED BY <2>1, StrongInduct
<1>5. ASSUME NEW j \in DOMAIN heap PROVE j \in W[twin[j]]
  <2>1. twin[j] \in DOMAIN f BY <1>1, <1>5, Zenon DEF NodeIs
  <2>2. twin[j] \in Nat BY <2>1, ForestFacts
  <2>3. Copied(twin[j]) BY <1>4, <2>1, <2>2
  <2> QED BY <1>5, <2>3
<1> QED BY <1>5 DEF W

(* Re-encoding changes how a value is written and never what it says: what  *)
(* is read back has the classes, tags and octets of the tree it was written *)
(* from, and its children in order or, under a SET, in another one          *)
(* (reencode.rs encode_node).                                               *)
THEOREM TheTreeIsKept == RSpec => []ReencodingKeepsTheTree
<1>1. RInv => ReencodingKeepsTheTree
  <2> SUFFICES ASSUME RInv, stage = 2, result.kind = "ok"
               PROVE  Root \in Twins(source.data, source.forest, data, heap)[source.root]
    BY DEF ReencodingKeepsTheTree, Finished
  <2>1. PICK d, f, r : d = source.data /\ f = source.forest /\ r = source.root OBVIOUS
  <2>2. PICK level, path, twin : Given(d, f, r, level) /\ Copies(d, f, r, level, path, twin)
    BY <2>1 DEF RInv, ReadsBack
  <2>3. Root \in DOMAIN heap /\ stack[1].kids = <<Root>> BY RootSpans DEF RInv
  <2>4. Root \in Twins(d, f, data, heap)[twin[Root]]
    BY <2>2, <2>3, CopiesAreTwins DEF RInv, Given, Copies
  <2>5. twin[Root] = r
    <3>1. 1 \in DOMAIN stack
      <4>1. Len(stack) \in Nat /\ Len(stack) >= 1 /\ stack \in Seq(Frames)
        BY DEF RInv, IInv, Typed
      <4> QED BY <4>1
    <3>2. path[1] = 0 /\ FrameIs(data, d, f, r, twin, path[1], stack[1])
      BY <2>2, <3>1 DEF Copies, PathIs, FramesCopy
    <3>3. 1 \in DOMAIN stack[1].kids /\ stack[1].kids[1] = Root BY <2>3
    <3>4. twin[stack[1].kids[1]] = LineIn(d, f, r, 0)[1] BY <3>2, <3>3 DEF FrameIs
    <3> QED BY <3>3, <3>4 DEF LineIn
  <2> QED BY <2>1, <2>4, <2>5
<1> QED BY <1>1, RoundTripInvariance, PTL

=============================================================================
