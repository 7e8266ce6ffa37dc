------------------------------ MODULE Induction ------------------------------
(***************************************************************************)
(* Induction over the naturals for the proof modules: a set of naturals    *)
(* has a least element, so a property that passes from each number to the  *)
(* next holds of all.  Stated with sets, so that a proof gives the set of  *)
(* the numbers that have the property.                                     *)
(***************************************************************************)
EXTENDS Integers, SequencesExt, WellFoundedInduction, TLAPS

LEMMA LeastElement ==
  ASSUME NEW T \in SUBSET Nat, T # {}
  PROVE  \E m \in T : \A n \in T : m <= n
<1> DEFINE R == { ss \in Nat \X Nat : ss[1] < ss[2] }
<1>1. IsWellFoundedOn(R, Nat)
  <2>1. R = OpToRel(<, Nat) BY Zenon DEF OpToRel
  <2> QED BY <2>1, NatLessThanWellFounded, Zenon
<1>2. PICK m \in T : \A n \in T : ~ (<<n, m>> \in R)
  <2> HIDE DEF R
  <2> QED BY <1>1, WFMin, Zenon
<1>3. ASSUME NEW n \in T PROVE m <= n
  <2>1. ~ (n < m) BY <1>2
  <2> QED BY <2>1
<1> QED BY <1>3

LEMMA NatInduct ==
  ASSUME NEW T, 0 \in T, \A n \in Nat : n \in T => n + 1 \in T
  PROVE  \A n \in Nat : n \in T
<1> DEFINE U == { n \in Nat : n \notin T }
<1>1. ASSUME U # {} PROVE FALSE
  <2>1. PICK m \in U : \A n \in U : m <= n BY <1>1, LeastElement
  <2>2. m # 0 /\ m \in Nat BY <2>1
  <2>3. m - 1 \in Nat /\ m - 1 \notin U BY <2>1, <2>2
  <2> QED BY <2>1, <2>2, <2>3
<1> QED BY <1>1

\* Induction up to a bound.
LEMMA UpTo ==
  ASSUME NEW n \in Nat, NEW T, 0 \in T, \A k \in 0 .. n - 1 : k \in T => k + 1 \in T
  PROVE  \A k \in 0 .. n : k \in T
<1> DEFINE U == { k \in Nat : k <= n => k \in T }
<1>1. 0 \in U OBVIOUS
<1>2. ASSUME NEW k \in Nat, k \in U PROVE k + 1 \in U BY <1>2
<1> HIDE DEF U
<1>3. \A k \in Nat : k \in U BY <1>1, <1>2, NatInduct
<1> QED BY <1>3 DEF U

\* Induction in which all the smaller numbers may be used.
LEMMA StrongInduct ==
  ASSUME NEW T, \A n \in Nat : (\A m \in 0 .. n - 1 : m \in T) => n \in T
  PROVE  \A n \in Nat : n \in T
<1> DEFINE U == { n \in Nat : n \notin T }
<1>1. ASSUME U # {} PROVE FALSE
  <2>1. PICK m \in U : \A n \in U : m <= n BY <1>1, LeastElement
  <2>2. \A k \in 0 .. m - 1 : k \in T BY <2>1
  <2> QED BY <2>1, <2>2
<1> QED BY <1>1

\* There is a function on 0 .. n that starts with c and goes on by step.
Recursion(n, S, c, step) ==
  \E g \in [0 .. n -> S] : g[0] = c /\ \A k \in 1 .. n : g[k] = step[<<g[k - 1], k>>]

\* What is defined by recursion from 0 to n is defined.
LEMMA NatRecursion ==
  ASSUME NEW n \in Nat, NEW S, NEW c \in S, NEW step \in [S \X (1 .. n) -> S]
  PROVE  Recursion(n, S, c, step)
<1> DEFINE Is(g, m) == g[0] = c /\ \A k \in 1 .. m : g[k] = step[<<g[k - 1], k>>]
           T == { m \in Nat : m <= n => \E g \in [0 .. m -> S] : Is(g, m) }
<1>1. 0 \in T
  <2>1. Is([k \in 0 .. 0 |-> c], 0) OBVIOUS
  <2> QED BY <2>1
<1>2. ASSUME NEW m \in Nat, m \in T PROVE m + 1 \in T
  <2>1. SUFFICES ASSUME m + 1 <= n PROVE \E g \in [0 .. m + 1 -> S] : Is(g, m + 1) OBVIOUS
  <2>2. PICK g \in [0 .. m -> S] : Is(g, m) BY <1>2, <2>1
  <2> DEFINE x == step[<<g[m], m + 1>>]
             h == [k \in 0 .. m + 1 |-> IF k = m + 1 THEN x ELSE g[k]]
  <2>3. x \in S
    <3>1. <<g[m], m + 1>> \in S \X (1 .. n) BY <2>1
    <3> QED BY <3>1
  <2>4. h \in [0 .. m + 1 -> S] BY <2>3
  <2>5. Is(h, m + 1)
    <3>1. h[0] = c BY <2>2
    <3>2. ASSUME NEW k \in 1 .. m + 1 PROVE h[k] = step[<<h[k - 1], k>>]
      <4>1. h[k - 1] = g[k - 1] /\ k - 1 \in 0 .. m OBVIOUS
      <4>2. CASE k = m + 1
        <5>1. h[k] = x /\ h[k - 1] = g[m] BY <4>1, <4>2
        <5> QED BY <5>1, <4>2
      <4>3. CASE k # m + 1 BY <2>2, <4>1, <4>3
      <4> QED BY <4>2, <4>3
    <3> QED BY <3>1, <3>2
  <2> QED BY <2>4, <2>5
<1>3. \A m \in Nat : m \in T
  <2> HIDE DEF T
  <2> QED BY <1>1, <1>2, NatInduct
<1> QED
  <2>1. n \in T BY <1>3
  <2> QED BY <2>1 DEF Recursion

\* The same as an equation between functions, the form of a definition.
Follows(g, n, c, step) == g = [k \in 0 .. n |-> IF k = 0 THEN c ELSE step[<<g[k - 1], k>>]]

LEMMA Defined ==
  ASSUME NEW n \in Nat, NEW S, NEW c \in S, NEW step \in [S \X (1 .. n) -> S]
  PROVE  \E g \in [0 .. n -> S] : Follows(g, n, c, step)
<1>1. PICK g \in [0 .. n -> S] :
        g[0] = c /\ \A k \in 1 .. n : g[k] = step[<<g[k - 1], k>>]
  <2>1. Recursion(n, S, c, step) BY NatRecursion
  <2> QED BY <2>1 DEF Recursion
<1> DEFINE e(k) == IF k = 0 THEN c ELSE step[<<g[k - 1], k>>]
<1>2. \A k \in 0 .. n : g[k] = e(k) BY <1>1
<1> HIDE DEF e
<1>3. g = [k \in 0 .. n |-> e(k)] BY <1>2
<1> QED BY <1>3 DEF e, Follows

\* What each step keeps holds at every one.
LEMMA StaysIn ==
  ASSUME NEW n \in Nat, NEW g, NEW S, g[0] \in S,
         \A k \in 1 .. n : g[k - 1] \in S => g[k] \in S
  PROVE  \A k \in 0 .. n : g[k] \in S
<1> DEFINE T == { k \in Nat : g[k] \in S }
<1>1. 0 \in T OBVIOUS
<1>2. ASSUME NEW k \in 0 .. n - 1, k \in T PROVE k + 1 \in T
  <2>1. k + 1 \in 1 .. n /\ (k + 1) - 1 = k OBVIOUS
  <2> QED BY <1>2, <2>1
<1>3. \A k \in 0 .. n : k \in T
  <2> HIDE DEF T
  <2> QED BY <1>1, <1>2, UpTo
<1> QED BY <1>3

\* Two functions that start alike and go on alike are the same.
GoAlike(g, h, n) ==
  g[0] = h[0] /\ \A k \in 1 .. n : g[k - 1] = h[k - 1] => g[k] = h[k]

AreSame(g, h, n) == \A k \in 0 .. n : g[k] = h[k]

LEMMA StaySame ==
  ASSUME NEW n \in Nat, NEW g, NEW h, GoAlike(g, h, n)
  PROVE  AreSame(g, h, n)
<1> DEFINE T == { k \in Nat : g[k] = h[k] }
<1>1. 0 \in T BY DEF GoAlike
<1>2. ASSUME NEW k \in 0 .. n - 1, k \in T PROVE k + 1 \in T
  <2>1. k + 1 \in 1 .. n /\ (k + 1) - 1 = k OBVIOUS
  <2> QED BY <1>2, <2>1 DEF GoAlike
<1>3. \A k \in 0 .. n : k \in T
  <2> HIDE DEF T
  <2> QED BY <1>1, <1>2, UpTo
<1> QED BY <1>3 DEF AreSame

-----------------------------------------------------------------------------
(* FlattenSeq *)

FlattenTo(f, seqs) ==
  f = [i \in 1 .. Len(seqs) |-> IF i = 1 THEN seqs[i] ELSE f[i - 1] \o seqs[i]]

LEMMA FlattenChosen ==
  ASSUME NEW S, NEW seqs \in Seq(Seq(S))
  PROVE  \E f : FlattenTo(f, seqs)
<1> DEFINE n == Len(seqs)
           step == [z \in Seq(S) \X (1 .. n) |-> z[1] \o seqs[z[2]]]
<1>1. n \in Nat /\ \A k \in 1 .. n : seqs[k] \in Seq(S) OBVIOUS
<1>2. step \in [Seq(S) \X (1 .. n) -> Seq(S)]
  <2>1. ASSUME NEW z \in Seq(S) \X (1 .. n) PROVE z[1] \o seqs[z[2]] \in Seq(S)
    <3>1. z[1] \in Seq(S) /\ seqs[z[2]] \in Seq(S) BY <1>1
    <3> QED BY <3>1
  <2> QED BY <2>1
<1>3. <<>> \in Seq(S) OBVIOUS
<1>4. PICK g \in [0 .. n -> Seq(S)] : Follows(g, n, <<>>, step)
  <2> HIDE DEF step
  <2> DEFINE c == <<>>
  <2> HIDE DEF c
  <2>1. c \in Seq(S) BY <1>3 DEF c
  <2>2. \E g \in [0 .. n -> Seq(S)] : Follows(g, n, c, step) BY <1>1, <1>2, <2>1, Defined
  <2> QED BY <2>2 DEF c
<1> DEFINE f == [i \in 1 .. n |-> g[i]]
           e(i) == IF i = 1 THEN seqs[i] ELSE f[i - 1] \o seqs[i]
<1>5. ASSUME NEW i \in 1 .. n PROVE g[i] = e(i)
  <2>1. i \in 0 .. n /\ i # 0 /\ i - 1 \in 0 .. n BY <1>1
  <2>2. g[i] = step[<<g[i - 1], i>>] BY <1>4, <2>1, Zenon DEF Follows
  <2> DEFINE z == <<g[i - 1], i>>
  <2>3. z \in Seq(S) \X (1 .. n) /\ z[1] = g[i - 1] /\ z[2] = i BY <1>4, <2>1
  <2> HIDE DEF z
  <2>4. step[z] = g[i - 1] \o seqs[i] BY <2>3
  <2>5. g[i] = g[i - 1] \o seqs[i] BY <2>2, <2>4 DEF z
  <2>6. CASE i = 1
    <3>1. g[0] = <<>>
      <4>1. 0 \in 0 .. n BY <1>1
      <4> QED BY <1>4, <4>1, Zenon DEF Follows
    <3>2. g[i - 1] = <<>> BY <2>6, <3>1
    <3>3. seqs[i] \in Seq(S) BY <1>1
    <3> QED BY <2>5, <2>6, <3>2, <3>3
  <2>7. CASE i # 1
    <3>1. i - 1 \in 1 .. n BY <1>1, <2>7
    <3>2. f[i - 1] = g[i - 1] BY <3>1
    <3> QED BY <2>5, <2>7, <3>2
  <2> QED BY <2>6, <2>7
<1>6. f = [i \in 1 .. n |-> e(i)]
  <2> HIDE DEF e
  <2> QED BY <1>5
<1>7. FlattenTo(f, seqs)
  <2> HIDE DEF f
  <2> QED BY <1>6, Zenon DEF FlattenTo, e, n
<1> QED BY <1>7

\* h joins the sequences of seqs one by one.
Flattening(h, seqs) ==
  h[0] = <<>> /\ \A k \in 1 .. Len(seqs) : h[k] = h[k - 1] \o seqs[k]

LEMMA FlattenSteps ==
  ASSUME NEW S, NEW seqs \in Seq(Seq(S))
  PROVE  \E h : Flattening(h, seqs) /\ FlattenSeq(seqs) = h[Len(seqs)]
<1> DEFINE n == Len(seqs)
           f == CHOOSE f : FlattenTo(f, seqs)
           h == [k \in 0 .. n |-> IF k = 0 THEN <<>> ELSE f[k]]
<1>1. n \in Nat /\ \A k \in 1 .. n : seqs[k] \in Seq(S) OBVIOUS
<1>2. FlattenTo(f, seqs) BY FlattenChosen, Zenon
<1> HIDE DEF f
<1>3. h[0] = <<>> /\ \A k \in 1 .. n : h[k] = h[k - 1] \o seqs[k]
  <2>1. h[0] = <<>>
    <3>1. 0 \in 0 .. n BY <1>1
    <3> QED BY <3>1
  <2>2. ASSUME NEW k \in 1 .. n PROVE h[k] = h[k - 1] \o seqs[k]
    <3>1. k \in 0 .. n /\ k - 1 \in 0 .. n /\ k # 0 BY <1>1
    <3>2. h[k] = f[k] BY <3>1
    <3>3. f[k] = IF k = 1 THEN seqs[k] ELSE f[k - 1] \o seqs[k]
      BY <1>2, Zenon DEF FlattenTo
    <3>4. CASE k = 1
      <4>1. h[k - 1] = <<>> BY <2>1, <3>4
      <4>2. seqs[k] \in Seq(S) BY <1>1
      <4>3. <<>> \o seqs[k] = seqs[k] BY <4>2
      <4> HIDE DEF h
      <4> QED BY <3>2, <3>3, <3>4, <4>1, <4>3
    <3>5. CASE k # 1
      <4>1. k - 1 # 0 BY <3>5, <3>1
      <4>2. h[k - 1] = f[k - 1] BY <3>1, <4>1
      <4> HIDE DEF h
      <4> QED BY <3>2, <3>3, <3>5, <4>2
    <3> QED BY <3>4, <3>5
  <2> QED BY <2>1, <2>2
<1>4. FlattenSeq(seqs) = h[n]
  <2>1. CASE n = 0
    <3>1. seqs = <<>> BY <2>1
    <3>2. FlattenSeq(seqs) = seqs BY <2>1, Zenon DEF FlattenSeq
    <3> QED BY <1>3, <2>1, <3>1, <3>2
  <2>2. CASE n # 0
    <3>1. FlattenSeq(seqs) = f[n] BY <2>2, Zenon DEF FlattenSeq, f, FlattenTo
    <3>2. n \in 0 .. n BY <1>1
    <3>3. h[n] = f[n] BY <2>2, <3>2 DEF h
    <3> QED BY <3>1, <3>3
  <2> QED BY <2>1, <2>2
<1> HIDE DEF h
<1>5. Flattening(h, seqs) BY <1>3, Zenon DEF Flattening, n
<1> QED BY <1>4, <1>5

-----------------------------------------------------------------------------
(* Division *)

LEMMA Division ==
  ASSUME NEW b \in Nat \ {0}, NEW q \in Int, NEW r \in 0 .. b - 1
  PROVE  (b * q + r) \div b = q /\ (b * q + r) % b = r
OBVIOUS

LEMMA DividesInto ==
  ASSUME NEW a \in Int, NEW b \in Nat \ {0}
  PROVE  a \div b \in Int /\ a % b \in 0 .. b - 1 /\ a = b * (a \div b) + (a % b)
OBVIOUS

LEMMA DivideTwice ==
  ASSUME NEW a \in Int, NEW b \in Nat \ {0}, NEW c \in Nat \ {0}
  PROVE  (a \div b) \div c = a \div (c * b)
<1> DEFINE q == a \div b
           r == a % b
           p == q \div c
           t == q % c
<1>1. q \in Int /\ r \in 0 .. b - 1 /\ a = b * q + r BY DividesInto
<1>2. p \in Int /\ t \in 0 .. c - 1 /\ q = c * p + t
  <2> HIDE DEF q
  <2> QED BY <1>1, DividesInto
<1> HIDE DEF q, r, p, t
<1>3. a = (c * b) * p + (b * t + r) /\ b * t + r \in Int BY <1>1, <1>2
<1>4. b * t + r >= 0 BY <1>1, <1>2
<1>5. b * t <= c * b - b
  <2>1. b * t <= b * (c - 1) BY <1>2
  <2>2. b * (c - 1) = c * b - b OBVIOUS
  <2> QED BY <1>2, <2>1, <2>2
<1>6. b * t + r <= c * b - 1
  <2> DEFINE x == b * t
             y == c * b
  <2>1. x \in Int /\ y \in Int /\ x <= y - b BY <1>2, <1>5
  <2> HIDE DEF x, y
  <2>2. x + r <= y - 1 BY <1>1, <2>1
  <2> QED BY <2>2 DEF x, y
<1>7. c * b \in Nat \ {0} OBVIOUS
<1>8. b * t + r \in 0 .. c * b - 1 BY <1>3, <1>4, <1>6, <1>7
<1>9. a \div (c * b) = p
  <2> DEFINE d == c * b
             e == b * t + r
  <2>1. d \in Nat \ {0} /\ e \in 0 .. d - 1 /\ a = d * p + e BY <1>3, <1>7, <1>8
  <2> HIDE DEF d, e
  <2>2. a \div d = p BY <1>2, <2>1, Division
  <2> QED BY <2>2 DEF d
<1> QED BY <1>9 DEF p, q

LEMMA QuotientIsLess ==
  ASSUME NEW b \in Nat, b >= 2, NEW a \in Nat
  PROVE  a \div b \in Nat /\ (a >= 1 => a \div b \in 0 .. a - 1)
<1> DEFINE q == a \div b
           r == a % b
<1>1. q \in Int /\ r \in 0 .. b - 1 /\ a = b * q + r BY DividesInto
<1> HIDE DEF q, r
<1>2. q >= 0
  <2> SUFFICES ASSUME q <= -1 PROVE FALSE BY <1>1
  <2>1. b * q <= - b BY <1>1
  <2> DEFINE c == b * q
  <2>2. c \in Int /\ c <= - b BY <1>1, <2>1
  <2> HIDE DEF c
  <2>3. a = c + r BY <1>1 DEF c
  <2> QED BY <1>1, <2>2, <2>3
<1>3. a >= 1 => q < a
  <2> DEFINE c == b * q
  <2>1. c \in Int /\ 2 * q <= c BY <1>1, <1>2
  <2> HIDE DEF c
  <2>2. a = c + r BY <1>1 DEF c
  <2> QED BY <1>1, <1>2, <2>1, <2>2
<1> QED BY <1>1, <1>2, <1>3 DEF q

-----------------------------------------------------------------------------
(* Recursion over digits *)

\* There is a function on 0 .. n that goes back from m to m \div b.
DivRecursion(n, b, S, leaf, step) ==
  \E g \in [0 .. n -> S] :
    \A m \in 0 .. n : g[m] = IF m < b THEN leaf[m] ELSE step[<<g[m \div b], m>>]

\* So is what is defined by recursion over the digits of a number.
LEMMA DigitRecursion ==
  ASSUME NEW n \in Nat, NEW b \in Nat, b >= 2, NEW S,
         NEW leaf \in [Nat -> S], NEW step \in [S \X Nat -> S]
  PROVE  DivRecursion(n, b, S, leaf, step)
<1> DEFINE Is(g, m) ==
             \A k \in 0 .. m : g[k] = IF k < b THEN leaf[k] ELSE step[<<g[k \div b], k>>]
           T == { m \in Nat : \E g \in [0 .. m -> S] : Is(g, m) }
<1>1. 0 \in T
  <2>1. Is([k \in 0 .. 0 |-> leaf[k]], 0) OBVIOUS
  <2>2. [k \in 0 .. 0 |-> leaf[k]] \in [0 .. 0 -> S] OBVIOUS
  <2> QED BY <2>1, <2>2
<1>2. ASSUME NEW m \in Nat, m \in T PROVE m + 1 \in T
  <2>1. PICK g \in [0 .. m -> S] : Is(g, m) BY <1>2
  <2> DEFINE x == IF m + 1 < b THEN leaf[m + 1] ELSE step[<<g[(m + 1) \div b], m + 1>>]
             h == [k \in 0 .. m + 1 |-> IF k = m + 1 THEN x ELSE g[k]]
  <2>2. ASSUME NEW k \in Nat, k >= b PROVE k \div b \in 0 .. k - 1
    <3>1. k \div b \in Nat /\ (k >= 1 => k \div b \in 0 .. k - 1) BY QuotientIsLess
    <3>2. k >= 1 BY <2>2
    <3> QED BY <3>1, <3>2
  <2>3. x \in S
    <3>1. CASE m + 1 < b
      <4>1. leaf[m + 1] \in S OBVIOUS
      <4> QED BY <3>1, <4>1
    <3>2. CASE ~ (m + 1 < b)
      <4>0. m + 1 \in Nat /\ m + 1 >= b BY <3>2
      <4> DEFINE i == m + 1
      <4>3. i \div b \in 0 .. i - 1
        <5> HIDE DEF i
        <5>1. i \in Nat /\ i >= b BY <4>0 DEF i
        <5> QED BY <5>1, <2>2
      <4>1. (m + 1) \div b \in 0 .. m BY <4>3
      <4> DEFINE j == (m + 1) \div b
      <4> HIDE DEF j
      <4>2. <<g[j], m + 1>> \in S \X Nat BY <4>1 DEF j
      <4>4. step[<<g[j], m + 1>>] \in S BY <4>2
      <4> QED BY <3>2, <4>4 DEF j, x
    <3> QED BY <3>1, <3>2
  <2>4. h \in [0 .. m + 1 -> S]
    <3> HIDE DEF x
    <3> QED BY <2>3
  <2> HIDE DEF x
  <2>5. ASSUME NEW k \in 0 .. m + 1
        PROVE  h[k] = IF k < b THEN leaf[k] ELSE step[<<h[k \div b], k>>]
    <3>1. k < b \/ h[k \div b] = g[k \div b]
      <4> SUFFICES ASSUME k >= b PROVE h[k \div b] = g[k \div b] OBVIOUS
      <4>3. k \in Nat OBVIOUS
      <4>1. k \div b \in 0 .. k - 1 BY <2>2, <4>3
      <4> DEFINE j == k \div b
      <4> HIDE DEF j
      <4>2. j \in 0 .. m BY <4>1 DEF j
      <4>4. h[j] = g[j] BY <4>2
      <4> QED BY <4>4 DEF j
    <3>2. CASE k = m + 1
      <4>1. h[k] = x BY <3>2
      <4> DEFINE j == k \div b
      <4>2. x = IF k < b THEN leaf[k] ELSE step[<<g[j], k>>] BY <3>2, Zenon DEF x
      <4> HIDE DEF h, j
      <4>3. k < b \/ h[j] = g[j] BY <3>1 DEF j
      <4>4. h[k] = IF k < b THEN leaf[k] ELSE step[<<h[j], k>>] BY <4>1, <4>2, <4>3, Zenon
      <4> QED BY <4>4 DEF j
    <3>3. CASE k # m + 1
      <4>1. k \in 0 .. m /\ k \in 0 .. m + 1 BY <3>3
      <4>2. h[k] = g[k] BY <3>3, <4>1
      <4> HIDE DEF h
      <4>3. g[k] = IF k < b THEN leaf[k] ELSE step[<<g[k \div b], k>>] BY <2>1, <4>1
      <4> DEFINE j == k \div b
      <4>4. g[k] = IF k < b THEN leaf[k] ELSE step[<<g[j], k>>] BY <4>3
      <4>5. k < b \/ h[j] = g[j] BY <3>1
      <4> HIDE DEF j
      <4>6. h[k] = IF k < b THEN leaf[k] ELSE step[<<h[j], k>>] BY <4>2, <4>4, <4>5, Zenon
      <4> QED BY <4>6 DEF j
    <3> QED BY <3>2, <3>3
  <2>6. Is(h, m + 1) BY <2>5
  <2> HIDE DEF Is, h
  <2> QED BY <2>4, <2>6
<1>3. \A m \in Nat : m \in T
  <2> HIDE DEF T
  <2> QED BY <1>1, <1>2, NatInduct
<1>4. \E g \in [0 .. n -> S] : Is(g, n)
  <2>1. n \in T BY <1>3
  <2> HIDE DEF Is
  <2> QED BY <2>1
<1> QED BY <1>4 DEF DivRecursion

=============================================================================
