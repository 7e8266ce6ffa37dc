----------------------------- MODULE ValuesProofs -----------------------------
(***************************************************************************)
(* What Oid and Values compute, for contents of any length.                *)
(***************************************************************************)
EXTENDS Values, Induction

Byte == 0 .. 255

LEMMA ByteIs == \A b : b \in Byte <=> b \in Int /\ 0 <= b /\ b <= 255
BY DEF Byte

-----------------------------------------------------------------------------
(* The septets of a number *)

SeptetsTo(g, v) ==
  g = [m \in 0 .. v |-> IF m < 128 THEN <<m + 128>> ELSE Append(g[m \div 128], (m % 128) + 128)]

LEMMA Base128 ==
  ASSUME NEW m \in Nat
  PROVE  /\ m \div 128 \in Nat /\ m % 128 \in 0 .. 127 /\ m = 128 * (m \div 128) + (m % 128)
         /\ m >= 128 => m \div 128 >= 1 /\ m \div 128 \in 0 .. m - 1
OBVIOUS

\* The functions that the definition may choose, whatever their domains.
LEMMA SeptetsAgree ==
  ASSUME NEW v \in Nat, NEW w \in Nat, NEW g, SeptetsTo(g, v), NEW h, SeptetsTo(h, w)
  PROVE  \A m \in Nat : m <= v /\ m <= w => g[m] = h[m]
<1> DEFINE T == { m \in Nat : m <= v /\ m <= w => g[m] = h[m] }
<1>1. ASSUME NEW m \in Nat, \A k \in 0 .. m - 1 : k \in T
      PROVE  m \in T
  <2>1. SUFFICES ASSUME m <= v, m <= w PROVE g[m] = h[m] OBVIOUS
  <2>2. m \in 0 .. v /\ m \in 0 .. w BY <2>1
  <2> DEFINE j == m \div 128
             o == (m % 128) + 128
  <2>3. g[m] = IF m < 128 THEN <<m + 128>> ELSE Append(g[j], o) BY <2>2, Zenon DEF SeptetsTo
  <2>4. h[m] = IF m < 128 THEN <<m + 128>> ELSE Append(h[j], o) BY <2>2, Zenon DEF SeptetsTo
  <2>5. m >= 128 => j \in 0 .. m - 1 BY Base128
  <2> HIDE DEF j, o
  <2>6. m >= 128 => g[j] = h[j]
    <3> SUFFICES ASSUME m >= 128 PROVE g[j] = h[j] OBVIOUS
    <3>1. j \in T /\ j <= v /\ j <= w BY <1>1, <2>1, <2>5
    <3> QED BY <3>1
  <2>7. CASE m < 128 BY <2>3, <2>4, <2>7
  <2>8. CASE m >= 128
    <3>1. ~ (m < 128) BY <2>8
    <3> QED BY <2>3, <2>4, <2>6, <2>8, <3>1
  <2> QED BY <2>7, <2>8
<1>2. \A m \in Nat : m \in T
  <2> HIDE DEF T
  <2> QED BY <1>1, StrongInduct
<1> QED BY <1>2

LEMMA SeptetsExist ==
  ASSUME NEW v \in Nat
  PROVE  \E g : SeptetsTo(g, v) /\ g \in [0 .. v -> Seq(Nat)]
<1> DEFINE leaf == [m \in Nat |-> <<m + 128>>]
           step == [p \in Seq(Nat) \X Nat |-> Append(p[1], (p[2] % 128) + 128)]
<1>1. leaf \in [Nat -> Seq(Nat)] OBVIOUS
<1>2. step \in [Seq(Nat) \X Nat -> Seq(Nat)]
  <2>1. ASSUME NEW s \in Seq(Nat), NEW m \in Nat PROVE Append(s, (m % 128) + 128) \in Seq(Nat)
    <3>1. (m % 128) + 128 \in Nat BY Base128
    <3> QED BY <3>1
  <2> QED BY <2>1
<1> HIDE DEF leaf, step
<1>3. DivRecursion(v, 128, Seq(Nat), leaf, step)
  <2> DEFINE S == Seq(Nat)
             b == 128
  <2>1. b \in Nat /\ b >= 2 OBVIOUS
  <2>2. leaf \in [Nat -> S] /\ step \in [S \X Nat -> S] BY <1>1, <1>2
  <2> HIDE DEF S, b
  <2>3. DivRecursion(v, b, S, leaf, step) BY <2>1, <2>2, DigitRecursion
  <2> QED BY <2>3 DEF S, b
<1>4. PICK g \in [0 .. v -> Seq(Nat)] :
        \A m \in 0 .. v : g[m] = IF m < 128 THEN leaf[m] ELSE step[<<g[m \div 128], m>>]
  BY <1>3 DEF DivRecursion
<1>5. ASSUME NEW m \in 0 .. v
      PROVE  g[m] = IF m < 128 THEN <<m + 128>> ELSE Append(g[m \div 128], (m % 128) + 128)
  <2>1. m \in Nat OBVIOUS
  <2>2. leaf[m] = <<m + 128>> BY <2>1 DEF leaf
  <2> DEFINE j == m \div 128
  <2>3. m >= 128 => j \in 0 .. v BY Base128
  <2>4. g[m] = IF m < 128 THEN leaf[m] ELSE step[<<g[j], m>>] BY <1>4
  <2> HIDE DEF j
  <2>5. m >= 128 => <<g[j], m>> \in Seq(Nat) \X Nat BY <1>4, <2>1, <2>3
  <2>6. m >= 128 => step[<<g[j], m>>] = Append(g[j], (m % 128) + 128) BY <2>5 DEF step
  <2>7. g[m] = IF m < 128 THEN <<m + 128>> ELSE Append(g[j], (m % 128) + 128)
    <3>1. CASE m < 128
      <4>1. g[m] = <<m + 128>> BY <2>2, <2>4, <3>1
      <4> QED BY <3>1, <4>1, Zenon
    <3>2. CASE ~ (m < 128)
      <4>1. g[m] = Append(g[j], (m % 128) + 128)
        <5>1. m >= 128 BY <3>2
        <5> QED BY <2>4, <2>6, <3>2, <5>1
      <4> QED BY <3>2, <4>1, Zenon
    <3> QED BY <3>1, <3>2, Zenon
  <2> QED BY <2>7 DEF j
<1>6. SeptetsTo(g, v)
  <2> DEFINE e(m) == IF m < 128 THEN <<m + 128>> ELSE Append(g[m \div 128], (m % 128) + 128)
  <2>1. \A m \in 0 .. v : g[m] = e(m) BY <1>5
  <2>2. g = [m \in 0 .. v |-> g[m]] BY <1>4
  <2> HIDE DEF e
  <2>3. g = [m \in 0 .. v |-> e(m)] BY <2>1, <2>2
  <2> QED BY <2>3 DEF SeptetsTo, e
<1> QED BY <1>4, <1>6

LEMMA SeptetsChosen ==
  ASSUME NEW v \in Nat
  PROVE  \E g : SeptetsTo(g, v) /\ g \in [0 .. v -> Seq(Nat)] /\ Septets(v) = g[v]
<1> DEFINE V == CHOOSE g : SeptetsTo(g, v)
<1>1. Septets(v) = V[v] BY DEF Septets, SeptetsTo
<1>2. SeptetsTo(V, v) BY SeptetsExist
<1> HIDE DEF V
<1>3. PICK h : SeptetsTo(h, v) /\ h \in [0 .. v -> Seq(Nat)] BY SeptetsExist
<1>4. \A m \in Nat : m <= v => V[m] = h[m] BY <1>2, <1>3, SeptetsAgree
<1>5. DOMAIN V = 0 .. v /\ V = [m \in 0 .. v |-> V[m]] BY <1>2 DEF SeptetsTo
<1>6. V \in [0 .. v -> Seq(Nat)]
  <2>1. \A m \in 0 .. v : V[m] \in Seq(Nat) BY <1>3, <1>4
  <2> QED BY <1>5, <2>1
<1> QED BY <1>1, <1>2, <1>6

LEMMA SeptetsOf ==
  ASSUME NEW v \in Nat
  PROVE  /\ Septets(v) \in Seq(Nat)
         /\ v < 128 => Septets(v) = <<v + 128>>
         /\ v >= 128 => Septets(v) = Append(Septets(v \div 128), (v % 128) + 128)
<1>1. PICK g : SeptetsTo(g, v) /\ g \in [0 .. v -> Seq(Nat)] /\ Septets(v) = g[v]
  BY SeptetsChosen
<1> DEFINE j == v \div 128
<1>2. g[v] = IF v < 128 THEN <<v + 128>> ELSE Append(g[j], (v % 128) + 128)
  <2>1. v \in 0 .. v OBVIOUS
  <2> QED BY <1>1, <2>1, Zenon DEF SeptetsTo
<1>3. ASSUME v >= 128 PROVE g[j] = Septets(j)
  <2>1. j \in Nat /\ j <= v BY <1>3, Base128
  <2> HIDE DEF j
  <2>2. PICK h : SeptetsTo(h, j) /\ Septets(j) = h[j] BY <2>1, SeptetsChosen
  <2>3. g[j] = h[j] BY <1>1, <2>1, <2>2, SeptetsAgree
  <2> QED BY <2>2, <2>3
<1> HIDE DEF j
<1>4. Septets(v) \in Seq(Nat) BY <1>1
<1>5. v < 128 => Septets(v) = <<v + 128>> BY <1>1, <1>2
<1>6. v >= 128 => Septets(v) = Append(Septets(j), (v % 128) + 128) BY <1>1, <1>2, <1>3
<1> QED BY <1>4, <1>5, <1>6 DEF j

\* The septets of a number with one more digit in base 128, and how it is pushed.
LEMMA OneMoreSeptet ==
  ASSUME NEW a \in Nat, a >= 1, NEW r \in 0 .. 127
  PROVE  /\ Septets(128 * a + r) = Append(Septets(a), r + 128)
         /\ PushBase128(128 * a + r) = Append(Septets(a), r)
<1> DEFINE v == 128 * a + r
<1>1. v \in Nat /\ v >= 128 OBVIOUS
<1>2. v \div 128 = a /\ v % 128 = r BY Division
<1>3. Septets(v) = Append(Septets(v \div 128), (v % 128) + 128)
  <2> HIDE DEF v
  <2> QED BY <1>1, SeptetsOf
<1> HIDE DEF v
<1>4. Septets(v) = Append(Septets(a), r + 128) BY <1>2, <1>3
<1>5. Septets(a) \in Seq(Nat) BY SeptetsOf
<1>6. PushBase128(v) = Append(Septets(a), r)
  <2> DEFINE s == Septets(a)
             t == Append(s, r + 128)
  <2>1. PushBase128(v) = [t EXCEPT ![Len(t)] = @ - 128] BY <1>4 DEF PushBase128
  <2> HIDE DEF s
  <2>2. s \in Seq(Nat) BY <1>5 DEF s
  <2>3. [t EXCEPT ![Len(t)] = @ - 128] = Append(s, r)
    <3> DEFINE n == Len(s) + 1
               u == Append(s, r)
    <3>1. t \in Seq(Nat) /\ Len(t) = n /\ t[n] = r + 128 BY <2>2
    <3>2. u \in Seq(Nat) /\ Len(u) = n /\ u[n] = r BY <2>2
    <3>3. \A j \in 1 .. n - 1 : t[j] = u[j] BY <2>2
    <3>4. n \in Nat /\ n >= 1 BY <2>2
    <3>5. t[n] - 128 = u[n] BY <3>1, <3>2
    <3> HIDE DEF t, u, n
    <3>6. u = [j \in 1 .. n |-> u[j]] /\ t = [j \in 1 .. n |-> t[j]] BY <3>1, <3>2
    <3> DEFINE w == [t EXCEPT ![n] = t[n] - 128]
    <3>8. w = [j \in 1 .. n |-> w[j]] BY <3>6
    <3>9. w[n] = u[n] BY <3>4, <3>5, <3>6
    <3>10. ASSUME NEW j \in 1 .. n - 1 PROVE w[j] = u[j]
      <4>1. DOMAIN t = 1 .. n BY <3>6
      <4>2. j \in DOMAIN t /\ j # n BY <3>4, <4>1
      <4>3. w[j] = t[j] BY <4>2
      <4> QED BY <3>3, <4>3
    <3> HIDE DEF w
    <3>11. \A j \in 1 .. n : w[j] = u[j] BY <3>4, <3>9, <3>10
    <3>12. w = u BY <3>6, <3>8, <3>11
    <3>7. [t EXCEPT ![n] = t[n] - 128] = u BY <3>12 DEF w
    <3> QED BY <3>1, <3>7 DEF u
  <2> QED BY <2>1, <2>3 DEF s
<1> QED BY <1>4, <1>6 DEF v

LEMMA OneSeptet ==
  ASSUME NEW r \in 0 .. 127
  PROVE  Septets(r) = <<r + 128>> /\ PushBase128(r) = <<r>>
<1>1. Septets(r) = <<r + 128>> BY SeptetsOf
<1>2. [<<r + 128>> EXCEPT ![1] = @ - 128] = <<r>> OBVIOUS
<1>3. PushBase128(r) = [<<r + 128>> EXCEPT ![Len(<<r + 128>>)] = @ - 128]
  BY <1>1, Zenon DEF PushBase128
<1>4. Len(<<r + 128>>) = 1 OBVIOUS
<1> QED BY <1>1, <1>2, <1>3, <1>4

LEMMA PushIsSeq ==
  ASSUME NEW v \in Nat
  PROVE  PushBase128(v) \in Seq(Int) /\ Septets(v) \in Seq(Int)
<1>1. \A w \in Nat : Septets(w) \in Seq(Int)
  <2>1. \A w \in Nat : Septets(w) \in Seq(Nat) BY SeptetsOf
  <2>2. \A s \in Seq(Nat) : s \in Seq(Int) OBVIOUS
  <2> QED BY <2>1, <2>2
<1>2. CASE v < 128
  <2>1. v \in 0 .. 127 BY <1>2
  <2>2. PushBase128(v) = <<v>> BY <2>1, OneSeptet
  <2>3. <<v>> \in Seq(Int) OBVIOUS
  <2> QED BY <1>1, <2>2, <2>3
<1>3. CASE v >= 128
  <2> DEFINE a == v \div 128
             r == v % 128
  <2>1. a \in Nat /\ a >= 1 /\ r \in 0 .. 127 /\ v = 128 * a + r BY <1>3, Base128
  <2> HIDE DEF a, r
  <2>2. PushBase128(v) = Append(Septets(a), r) BY <2>1, OneMoreSeptet, ZenonT(30)
  <2>3. Septets(a) \in Seq(Int) BY <1>1, <2>1
  <2> DEFINE q == Septets(a)
  <2>4. Append(q, r) \in Seq(Int)
    <3> HIDE DEF q
    <3>1. r \in Int BY <2>1
    <3>2. q \in Seq(Int) BY <2>3 DEF q
    <3> QED BY <3>1, <3>2
  <2> QED BY <1>1, <2>2, <2>4
<1> QED BY <1>2, <1>3

-----------------------------------------------------------------------------
(* The scan of an OBJECT IDENTIFIER *)

SubStates == [failed : BOOLEAN, arcs : Seq(Nat), acc : Nat, started : BOOLEAN]

SubStart == [failed |-> FALSE, arcs |-> <<>>, acc |-> 0, started |-> FALSE]

SubAcc(s, b) == ((128 * s.acc) % ArcModulus) + (b % 128)

SubStep(s, b) ==
  [failed |-> s.failed \/ (~ s.started /\ b = 128) \/ SubAcc(s, b) >= ArcModulus,
   arcs |-> IF b < 128 THEN Append(s.arcs, SubAcc(s, b)) ELSE s.arcs,
   acc |-> IF b < 128 THEN 0 ELSE SubAcc(s, b),
   started |-> b >= 128]

ScansTo(g, bytes) ==
  g = [k \in 0 .. Len(bytes) |-> IF k = 0 THEN SubStart ELSE SubStep(g[k - 1], bytes[k])]

LEMMA StartIsState == SubStart \in SubStates
BY DEF SubStart, SubStates

LEMMA SubAccIsNat ==
  ASSUME NEW s \in SubStates, NEW b \in Byte
  PROVE  SubAcc(s, b) \in Nat
<1> DEFINE a == 128 * s.acc
<1>1. a \in Nat BY DEF SubStates
<1> HIDE DEF a
<1>2. a % ArcModulus \in Nat BY <1>1, ArcModulusAssumption, DividesInto
<1>3. b % 128 \in Nat BY DEF Byte
<1> QED BY <1>2, <1>3 DEF SubAcc, a

LEMMA SubStepStays ==
  ASSUME NEW s \in SubStates, NEW b \in Byte
  PROVE  SubStep(s, b) \in SubStates
<1>1. SubAcc(s, b) \in Nat BY SubAccIsNat
<1>2. s.arcs \in Seq(Nat) BY DEF SubStates
<1>3. (IF b < 128 THEN Append(s.arcs, SubAcc(s, b)) ELSE s.arcs) \in Seq(Nat) BY <1>1, <1>2
<1>4. (IF b < 128 THEN 0 ELSE SubAcc(s, b)) \in Nat BY <1>1
<1>5. (s.failed \/ (~ s.started /\ b = 128) \/ SubAcc(s, b) >= ArcModulus) \in BOOLEAN OBVIOUS
<1>6. (b >= 128) \in BOOLEAN OBVIOUS
<1> QED BY <1>3, <1>4, <1>5, <1>6, Zenon DEF SubStep, SubStates

LEMMA ScanExists ==
  ASSUME NEW bytes \in Seq(Byte)
  PROVE  \E g \in [0 .. Len(bytes) -> SubStates] : ScansTo(g, bytes)
<1> DEFINE n == Len(bytes)
           step == [p \in SubStates \X (1 .. n) |-> SubStep(p[1], bytes[p[2]])]
<1>1. n \in Nat /\ \A k \in 1 .. n : bytes[k] \in Byte OBVIOUS
<1>2. SubStart \in SubStates BY StartIsState
<1> HIDE DEF n
<1>3. step \in [SubStates \X (1 .. n) -> SubStates]
  <2>1. ASSUME NEW s \in SubStates, NEW k \in 1 .. n PROVE SubStep(s, bytes[k]) \in SubStates
    BY <1>1, SubStepStays
  <2> QED BY <2>1
<1> HIDE DEF step
<1>4. Recursion(n, SubStates, SubStart, step) BY <1>1, <1>2, <1>3, NatRecursion
<1>5. PICK g \in [0 .. n -> SubStates] :
        g[0] = SubStart /\ \A k \in 1 .. n : g[k] = step[<<g[k - 1], k>>]
  BY <1>4 DEF Recursion
<1>6. ASSUME NEW k \in 1 .. n PROVE g[k] = SubStep(g[k - 1], bytes[k])
  <2>1. g[k - 1] \in SubStates BY <1>1
  <2>2. <<g[k - 1], k>> \in SubStates \X (1 .. n) BY <2>1
  <2>3. step[<<g[k - 1], k>>] = SubStep(g[k - 1], bytes[k]) BY <2>2 DEF step
  <2> QED BY <1>5, <2>3
<1> DEFINE e(k) == IF k = 0 THEN SubStart ELSE SubStep(g[k - 1], bytes[k])
<1>7. \A k \in 0 .. n : g[k] = e(k) BY <1>1, <1>5, <1>6
<1> HIDE DEF e
<1>8. g = [k \in 0 .. n |-> e(k)] BY <1>7
<1>9. ScansTo(g, bytes) BY <1>8 DEF ScansTo, e, n
<1> QED BY <1>9 DEF n

\* What the scan of an OBJECT IDENTIFIER goes through.
LEMMA ScanChosen ==
  ASSUME NEW bytes \in Seq(Byte)
  PROVE  \E g \in [0 .. Len(bytes) -> SubStates] :
           /\ g[0] = SubStart
           /\ \A k \in 1 .. Len(bytes) : g[k] = SubStep(g[k - 1], bytes[k])
           /\ Subidentifiers(bytes) = g[Len(bytes)]
<1> DEFINE n == Len(bytes)
           V == CHOOSE g : ScansTo(g, bytes)
<1>1. n \in Nat /\ \A k \in 1 .. n : bytes[k] \in Byte OBVIOUS
<1>2. Subidentifiers(bytes) = V[n] BY DEF Subidentifiers, ScansTo, SubStart, SubStep, SubAcc
<1>3. ScansTo(V, bytes) BY ScanExists
<1> HIDE DEF V, n
<1>4. /\ DOMAIN V = 0 .. n /\ V[0] = SubStart
      /\ \A k \in 1 .. n : V[k] = SubStep(V[k - 1], bytes[k])
  BY <1>1, <1>3 DEF ScansTo, n
<1> DEFINE T == { k \in Nat : k <= n => V[k] \in SubStates }
<1>5. 0 \in T BY <1>4, StartIsState
<1>6. ASSUME NEW k \in Nat, k \in T PROVE k + 1 \in T
  <2>1. SUFFICES ASSUME k + 1 <= n PROVE V[k + 1] \in SubStates OBVIOUS
  <2>2. V[k] \in SubStates BY <1>1, <1>6, <2>1
  <2>3. k + 1 \in 1 .. n /\ V[k + 1] = SubStep(V[k], bytes[k + 1])
    <3>1. k + 1 \in 1 .. n /\ (k + 1) - 1 = k BY <1>1, <2>1
    <3> QED BY <1>4, <3>1
  <2>4. bytes[k + 1] \in Byte BY <1>1, <2>3
  <2> QED BY <2>2, <2>3, <2>4, SubStepStays
<1>7. \A k \in 0 .. n : V[k] \in SubStates
  <2> HIDE DEF T
  <2>1. \A k \in Nat : k \in T BY <1>5, <1>6, NatInduct
  <2> QED BY <1>1, <2>1 DEF T
<1>8. V \in [0 .. n -> SubStates]
  <2>1. V = [k \in 0 .. n |-> V[k]] BY <1>3 DEF ScansTo, n
  <2> QED BY <1>7, <2>1
<1> QED BY <1>2, <1>4, <1>8 DEF n

-----------------------------------------------------------------------------
(* Encoding *)

LEMMA ConcatFacts ==
  ASSUME NEW S, NEW s \in Seq(S), NEW t \in Seq(S)
  PROVE  /\ s \o t \in Seq(S) /\ Len(s \o t) = Len(s) + Len(t)
         /\ \A k \in 1 .. Len(s) : (s \o t)[k] = s[k]
         /\ \A k \in 1 .. Len(t) : (s \o t)[Len(s) + k] = t[k]
OBVIOUS

\* The octets that arcs are pushed as, one after another.
Spells(arcs, octets) ==
  \E e : /\ e[0] = <<>>
         /\ \A j \in 1 .. Len(arcs) : e[j] = e[j - 1] \o PushBase128(arcs[j])
         /\ e[Len(arcs)] = octets

LEMMA SpellsNone == Spells(<<>>, <<>>)
<1> DEFINE e == [j \in 0 .. 0 |-> <<>>]
<1>1. e[0] = <<>> /\ Len(<<>>) = 0 OBVIOUS
<1> HIDE DEF e
<1> QED BY <1>1 DEF Spells

LEMMA SpellsOneMore ==
  ASSUME NEW arcs \in Seq(Nat), NEW octets, Spells(arcs, octets), NEW a \in Nat
  PROVE  Spells(Append(arcs, a), octets \o PushBase128(a))
<1> DEFINE n == Len(arcs)
           more == Append(arcs, a)
           new == octets \o PushBase128(a)
<1>1. PICK e : /\ e[0] = <<>>
               /\ \A j \in 1 .. n : e[j] = e[j - 1] \o PushBase128(arcs[j])
               /\ e[n] = octets
  BY DEF Spells
<1> DEFINE f == [j \in 0 .. n + 1 |-> IF j = n + 1 THEN new ELSE e[j]]
<1>2. n \in Nat /\ Len(more) = n + 1 /\ more[n + 1] = a /\ \A j \in 1 .. n : more[j] = arcs[j]
  OBVIOUS
<1> HIDE DEF n, more
<1>3. f[0] = <<>> BY <1>1, <1>2
<1>4. ASSUME NEW j \in 1 .. n + 1 PROVE f[j] = f[j - 1] \o PushBase128(more[j])
  <2>1. CASE j = n + 1
    <3>1. f[j] = new /\ f[j - 1] = octets BY <1>1, <1>2, <2>1
    <3>2. more[j] = a BY <1>2, <2>1
    <3> QED BY <3>1, <3>2, Zenon
  <2>2. CASE j # n + 1
    <3>1. j \in 1 .. n /\ j \in 0 .. n + 1 /\ j - 1 \in 0 .. n + 1 /\ j - 1 # n + 1 BY <1>2, <2>2
    <3>2. f[j] = e[j] /\ f[j - 1] = e[j - 1] BY <2>2, <3>1
    <3>3. more[j] = arcs[j] BY <1>2, <3>1
    <3>4. e[j] = e[j - 1] \o PushBase128(arcs[j]) BY <1>1, <3>1
    <3> QED BY <3>2, <3>3, <3>4, Zenon
  <2> QED BY <2>1, <2>2
<1>5. f[Len(more)] = new BY <1>2
<1> HIDE DEF f, new
<1>6. Spells(more, new) BY <1>2, <1>3, <1>4, <1>5 DEF Spells
<1> QED BY <1>6 DEF more, new

\* One of the first two arcs is short enough for both to be found again.
LEMMA FirstArcsSplit ==
  ASSUME NEW v \in Nat
  PROVE  \E a \in 0 .. 2, b \in Nat :
           FirstArcs(v) = <<a, b>> /\ 40 * a + b = v /\ (a < 2 => b < 40)
<1>1. CASE v < 40
  <2>1. FirstArcs(v) = <<0, v>> BY <1>1 DEF FirstArcs
  <2>2. 40 * 0 + v = v /\ v < 40 BY <1>1
  <2> QED BY <2>1, <2>2
<1>2. CASE v >= 40 /\ v < 80
  <2>1. FirstArcs(v) = <<1, v - 40>> BY <1>2 DEF FirstArcs
  <2>2. 40 * 1 + (v - 40) = v /\ v - 40 < 40 /\ v - 40 \in Nat BY <1>2
  <2> QED BY <2>1, <2>2
<1>3. CASE v >= 80
  <2>1. FirstArcs(v) = <<2, v - 80>> BY <1>3 DEF FirstArcs
  <2>2. 40 * 2 + (v - 80) = v /\ v - 80 \in Nat BY <1>3
  <2> QED BY <2>1, <2>2
<1> QED BY <1>1, <1>2, <1>3

EncodesTo(g, arcs) ==
  g = [k \in 1 .. Len(arcs) |->
         IF k = 1 THEN <<>>
         ELSE g[k - 1] \o PushBase128(IF k = 2 THEN 40 * arcs[1] + arcs[2] ELSE arcs[k])]

\* Encoding takes the arcs of subidentifiers back to their octets.
LEMMA EncodesBack ==
  ASSUME NEW R \in Seq(Nat), R # <<>>, NEW octets, Spells(R, octets)
  PROVE  EncodeOid(FirstArcs(R[1]) \o Tail(R)) = octets
<1> DEFINE D == FirstArcs(R[1]) \o Tail(R)
           n == Len(R)
           item(k) == IF k = 2 THEN 40 * D[1] + D[2] ELSE D[k]
           V == CHOOSE g : EncodesTo(g, D)
<1>1. n \in Nat /\ n >= 1 /\ R[1] \in Nat OBVIOUS
<1>2. PICK a \in 0 .. 2, b \in Nat :
        FirstArcs(R[1]) = <<a, b>> /\ 40 * a + b = R[1] /\ (a < 2 => b < 40)
  BY <1>1, FirstArcsSplit
<1>3. /\ Len(D) = n + 1 /\ D[1] = a /\ D[2] = b
      /\ \A k \in 3 .. n + 1 : D[k] = R[k - 1]
  <2>1. D = <<a, b>> \o Tail(R) BY <1>2, Zenon
  <2>2. Tail(R) \in Seq(Nat) /\ Len(Tail(R)) = n - 1 /\ \A k \in 1 .. n - 1 : Tail(R)[k] = R[k + 1]
    OBVIOUS
  <2>3. <<a, b>> \in Seq(Nat) /\ Len(<<a, b>>) = 2 /\ <<a, b>>[1] = a /\ <<a, b>>[2] = b
    OBVIOUS
  <2> DEFINE s == <<a, b>>
             t == Tail(R)
  <2> HIDE DEF s, t, D, n
  <2>4. s \in Seq(Nat) /\ Len(s) = 2 /\ s[1] = a /\ s[2] = b BY <2>3 DEF s
  <2>5. t \in Seq(Nat) /\ Len(t) = n - 1 /\ \A k \in 1 .. n - 1 : t[k] = R[k + 1] BY <2>2 DEF t
  <2>6. D = s \o t BY <2>1 DEF s, t
  <2>0. /\ Len(D) = Len(s) + Len(t)
        /\ \A k \in 1 .. Len(s) : D[k] = s[k]
        /\ \A k \in 1 .. Len(t) : D[Len(s) + k] = t[k]
    <3>1. s \in Seq(Nat) /\ t \in Seq(Nat) BY <2>4, <2>5
    <3>2. /\ Len(s \o t) = Len(s) + Len(t)
          /\ \A k \in 1 .. Len(s) : (s \o t)[k] = s[k]
          /\ \A k \in 1 .. Len(t) : (s \o t)[Len(s) + k] = t[k]
      BY <3>1, ConcatFacts
    <3> QED BY <2>6, <3>2, Zenon
  <2>7. Len(D) = n + 1 /\ D[1] = a /\ D[2] = b BY <1>1, <2>4, <2>5, <2>0
  <2>8. ASSUME NEW k \in 3 .. n + 1 PROVE D[k] = R[k - 1]
    <3>1. k - 2 \in 1 .. n - 1 /\ k - 2 \in 1 .. Len(t) /\ 2 + (k - 2) = k
      BY <1>1, <2>5
    <3>2. D[k] = t[k - 2] BY <2>4, <2>0, <3>1
    <3>3. t[k - 2] = R[(k - 2) + 1] /\ (k - 2) + 1 = k - 1 BY <2>5, <3>1
    <3> QED BY <3>2, <3>3
  <2> QED BY <2>7, <2>8
<1>4. \A k \in 2 .. n + 1 : item(k) = R[k - 1]
  <2> HIDE DEF D, n
  <2>1. ASSUME NEW k \in 2 .. n + 1 PROVE item(k) = R[k - 1]
    <3>1. CASE k = 2 BY <1>2, <1>3, <3>1
    <3>2. CASE k # 2
      <4>1. k \in 3 .. n + 1 BY <1>1, <3>2
      <4> QED BY <1>3, <3>2, <4>1
    <3> QED BY <3>1, <3>2
  <2> QED BY <2>1
<1>5. EncodeOid(D) = V[n + 1]
  <2> HIDE DEF n
  <2>1. ~ (Len(D) < 2 \/ D[1] > 2 \/ (D[1] < 2 /\ D[2] >= 40))
    <3> HIDE DEF D
    <3> QED BY <1>1, <1>2, <1>3
  <2>2. EncodeOid(D) = V[Len(D)]
    <3> HIDE DEF D
    <3> QED BY <2>1, Zenon DEF EncodeOid, EncodesTo
  <2>3. Len(D) = n + 1 BY <1>3
  <2> HIDE DEF D, V
  <2> QED BY <2>2, <2>3
<1>6. PICK e : /\ e[0] = <<>>
               /\ \A j \in 1 .. n : e[j] = e[j - 1] \o PushBase128(R[j])
               /\ e[n] = octets
  BY DEF Spells
<1> HIDE DEF D, n
<1> DEFINE g == [k \in 1 .. n + 1 |-> e[k - 1]]
           next(h, k) == IF k = 1 THEN <<>> ELSE h[k - 1] \o PushBase128(item(k))
<1>7. EncodesTo(g, D)
  <2>1. ASSUME NEW k \in 1 .. n + 1 PROVE g[k] = next(g, k)
    <3>1. CASE k = 1 BY <1>1, <1>6, <3>1
    <3>2. CASE k # 1
      <4>1. k \in 2 .. n + 1 /\ k - 1 \in 1 .. n /\ k - 1 \in 1 .. n + 1 BY <1>1, <3>2
      <4>2. g[k] = e[k - 1] /\ g[k - 1] = e[(k - 1) - 1] BY <4>1
      <4>3. e[k - 1] = e[(k - 1) - 1] \o PushBase128(R[k - 1]) BY <1>6, <4>1
      <4>4. item(k) = R[k - 1] BY <1>4, <4>1
      <4> HIDE DEF g, item
      <4>5. g[k] = g[k - 1] \o PushBase128(item(k)) BY <4>2, <4>3, <4>4, Zenon
      <4> QED BY <3>2, <4>5
    <3> QED BY <3>1, <3>2
  <2>2. g = [k \in 1 .. n + 1 |-> next(g, k)]
    <3>1. g = [k \in 1 .. n + 1 |-> g[k]] OBVIOUS
    <3> HIDE DEF g, next
    <3> QED BY <2>1, <3>1
  <2> HIDE DEF g
  <2> QED BY <1>3, <2>2 DEF EncodesTo
<1>8. EncodesTo(V, D) BY <1>7
<1> HIDE DEF V, g
<1>9. \A k \in 1 .. n + 1 : V[k] = next(V, k)
  BY <1>3, <1>8 DEF EncodesTo
<1> DEFINE T == { k \in Nat : k <= n => V[k + 1] = e[k] }
<1>10. 0 \in T BY <1>1, <1>6, <1>9
<1>11. ASSUME NEW k \in Nat, k \in T PROVE k + 1 \in T
  <2>1. SUFFICES ASSUME k + 1 <= n PROVE V[(k + 1) + 1] = e[k + 1] OBVIOUS
  <2>2. V[k + 1] = e[k] BY <1>1, <1>11, <2>1
  <2> DEFINE m == (k + 1) + 1
  <2>3. m \in 1 .. n + 1 /\ m \in 2 .. n + 1 /\ m # 1 /\ m - 1 = k + 1 BY <1>1, <2>1
  <2>4. k + 1 \in 1 .. n /\ (k + 1) - 1 = k BY <1>1, <2>1
  <2> HIDE DEF m, item
  <2>5. V[m] = V[m - 1] \o PushBase128(item(m)) BY <1>9, <2>3
  <2>6. item(m) = R[m - 1] BY <1>4, <2>3
  <2>7. e[k + 1] = e[k] \o PushBase128(R[k + 1]) BY <1>6, <2>4
  <2>8. V[m] = e[k] \o PushBase128(R[k + 1]) BY <2>2, <2>3, <2>5, <2>6
  <2> QED BY <2>7, <2>8 DEF m
<1>12. n \in T
  <2> HIDE DEF T
  <2>1. \A k \in Nat : k \in T BY <1>10, <1>11, NatInduct
  <2> QED BY <1>1, <2>1
<1>13. V[n + 1] = octets BY <1>1, <1>6, <1>12
<1> QED BY <1>5, <1>13 DEF D

-----------------------------------------------------------------------------
(* Decoding *)

\* The subidentifier that is not complete, as the octets it was read from.
Pending(s) == IF s.started THEN Septets(s.acc) ELSE <<>>

\* State s stands for the octets p that were scanned.
StandsFor(s, p) ==
  /\ s.started => s.acc >= 1
  /\ ~ s.started => s.acc = 0
  /\ \E x \in Seq(Int) : Spells(s.arcs, x) /\ p = x \o Pending(s)

LEMMA Halves == \A c \in Byte : (c < 128) <=> ~ (c >= 128)
BY DEF Byte

LEMMA AppendRight ==
  \A x, y \in Seq(Int) : \A c \in Int : Append(x \o y, c) = x \o Append(y, c)
BY SMTT(60)

LEMMA ScansOneMore ==
  ASSUME NEW s \in SubStates, NEW b \in Byte, NEW p, StandsFor(s, p),
         128 * s.acc + (b % 128) < ArcModulus, ~ SubStep(s, b).failed
  PROVE  /\ StandsFor(SubStep(s, b), Append(p, b))
         /\ SubStep(s, b).acc = IF b < 128 THEN 0 ELSE 128 * s.acc + (b % 128)
<1> DEFINE t == SubStep(s, b)
           r == b % 128
           v == 128 * s.acc + r
<1>1. /\ r \in 0 .. 127 /\ (b < 128 => b = r) /\ (b >= 128 => b = r + 128)
      /\ b \in Int /\ s.acc \in Nat /\ s.arcs \in Seq(Nat)
  <2>1. b \in 0 .. 255 BY DEF Byte
  <2>2. /\ b % 128 \in 0 .. 127 /\ (b < 128 => b = b % 128) /\ (b >= 128 => b = (b % 128) + 128)
        /\ b \in Int
    BY <2>1
  <2>3. s.acc \in Nat /\ s.arcs \in Seq(Nat) BY DEF SubStates
  <2> HIDE DEF v
  <2> QED BY <2>2, <2>3
<1>2. v \in Nat BY <1>1
<1>3. SubAcc(s, b) = v
  <2> DEFINE a == 128 * s.acc
  <2>1. a \in Nat /\ a < ArcModulus
    <3>1. a \in Nat BY <1>1
    <3>2. a + r < ArcModulus /\ r \in Nat BY <1>1
    <3> HIDE DEF a, r
    <3> QED BY <3>1, <3>2, ArcModulusAssumption
  <2> HIDE DEF a
  <2>2. a % ArcModulus = a BY <2>1, ArcModulusAssumption
  <2> QED BY <2>2 DEF SubAcc, a
<1>4. /\ t.arcs = IF b < 128 THEN Append(s.arcs, v) ELSE s.arcs
      /\ t.acc = IF b < 128 THEN 0 ELSE v
      /\ t.started <=> b >= 128
      /\ ~ (~ s.started /\ b = 128)
  <2> HIDE DEF v
  <2> QED BY <1>3 DEF SubStep
<1>5. PICK x \in Seq(Int) : Spells(s.arcs, x) /\ p = x \o Pending(s) BY DEF StandsFor
<1>6. /\ Pending(s) \in Seq(Int)
      /\ b < 128 => PushBase128(v) = Append(Pending(s), b)
      /\ b >= 128 => v >= 1 /\ Septets(v) = Append(Pending(s), b)
  <2>1. CASE s.started
    <3>1. s.acc >= 1 BY <2>1 DEF StandsFor
    <3>2. Pending(s) = Septets(s.acc) BY <2>1 DEF Pending
    <3>3. Septets(v) = Append(Septets(s.acc), r + 128) /\ PushBase128(v) = Append(Septets(s.acc), r)
      BY <1>1, <3>1, OneMoreSeptet, ZenonT(30)
    <3>4. v >= 1 BY <1>1, <3>1
    <3>5. Septets(s.acc) \in Seq(Int) BY <1>1, PushIsSeq
    <3> HIDE DEF v, r
    <3> QED BY <1>1, <3>2, <3>3, <3>4, <3>5
  <2>2. CASE ~ s.started
    <3>1. v = r BY <1>1, <2>2 DEF StandsFor
    <3>2. Pending(s) = <<>> BY <2>2 DEF Pending
    <3>3. Septets(r) = <<r + 128>> /\ PushBase128(r) = <<r>> BY <1>1, OneSeptet
    <3>4. b >= 128 => r >= 1 BY <1>1, <1>4, <2>2
    <3>5. Append(<<>>, b) = <<b>> /\ <<>> \in Seq(Int) OBVIOUS
    <3> HIDE DEF v, r
    <3>6. b < 128 => PushBase128(v) = <<b>> BY <1>1, <3>1, <3>3
    <3>7. b >= 128 => v >= 1 /\ Septets(v) = <<b>> BY <1>1, <3>1, <3>3, <3>4
    <3> QED BY <3>2, <3>5, <3>6, <3>7
  <2> QED BY <2>1, <2>2
<1> DEFINE q == Pending(s)
<1>7. Append(p, b) = x \o Append(q, b)
  <2> HIDE DEF q
  <2>1. q \in Seq(Int) /\ p = x \o q BY <1>5, <1>6 DEF q
  <2> HIDE DEF v, t, r
  <2>3. b \in Int BY <1>1
  <2>4. x \in Seq(Int) /\ q \in Seq(Int) BY <2>1
  <2>2. Append(x \o q, b) = x \o Append(q, b) BY <2>3, <2>4, AppendRight, Zenon
  <2> QED BY <2>1, <2>2
<1> HIDE DEF v, t, r
<1>8. CASE b < 128
  <2>1. t.arcs = Append(s.arcs, v) /\ t.acc = 0 /\ ~ t.started BY <1>1, <1>4, <1>8
  <2>2. Spells(t.arcs, x \o PushBase128(v)) BY <1>1, <1>2, <1>5, <2>1, SpellsOneMore
  <2>3. PushBase128(v) = Append(q, b) BY <1>6, <1>8
  <2> DEFINE y == Append(p, b)
  <2>4. y = x \o PushBase128(v) BY <1>7, <2>3
  <2>5. y \in Seq(Int)
    <3>1. PushBase128(v) \in Seq(Int) BY <1>2, PushIsSeq
    <3> QED BY <1>5, <2>4, <3>1
  <2>6. Pending(t) = <<>> BY <2>1 DEF Pending
  <2> HIDE DEF y
  <2>7. y = y \o <<>> BY <2>5
  <2>8. StandsFor(t, y) BY <2>1, <2>2, <2>4, <2>5, <2>6, <2>7 DEF StandsFor
  <2> QED BY <1>8, <2>1, <2>8 DEF t, v, r, y
<1>9. CASE b >= 128
  <2>1. t.arcs = s.arcs /\ t.acc = v /\ t.started /\ ~ (b < 128) BY <1>1, <1>4, <1>9
  <2>2. v >= 1 /\ Septets(v) = Append(q, b) BY <1>6, <1>9
  <2>3. Pending(t) = Append(q, b) BY <2>1, <2>2 DEF Pending
  <2>4. StandsFor(t, Append(p, b))
    <3> HIDE DEF q
    <3> QED BY <1>5, <1>7, <2>1, <2>2, <2>3 DEF StandsFor
  <2> QED BY <1>9, <2>1, <2>4 DEF t, v, r
<1> QED BY <1>1, <1>8, <1>9

\* The number that the octets of a subidentifier make up to each of them.
NumbersTo(g, bytes) ==
  g = [k \in 0 .. Len(bytes) |->
         IF k = 0 THEN 0
         ELSE 128 * (IF k > 1 /\ bytes[k - 1] >= 128 THEN g[k - 1] ELSE 0) + (bytes[k] % 128)]

LEMMA NumbersExist ==
  ASSUME NEW bytes \in Seq(Byte)
  PROVE  \E g : NumbersTo(g, bytes)
<1> DEFINE n == Len(bytes)
           next(x, k) == 128 * (IF k > 1 /\ bytes[k - 1] >= 128 THEN x ELSE 0) + (bytes[k] % 128)
           step == [p \in Int \X (1 .. n) |-> next(p[1], p[2])]
<1>1. n \in Nat /\ \A k \in 1 .. n : bytes[k] % 128 \in Int
  <2>1. \A k \in 1 .. n : bytes[k] \in Int BY ByteIs
  <2> QED BY <2>1
<1> HIDE DEF n
<1>2. ASSUME NEW x \in Int, NEW k \in 1 .. n PROVE next(x, k) \in Int
  <2> DEFINE y == IF k > 1 /\ bytes[k - 1] >= 128 THEN x ELSE 0
             r == bytes[k] % 128
  <2>1. y \in Int /\ r \in Int BY <1>1
  <2> HIDE DEF y, r
  <2>2. 128 * y + r \in Int BY <2>1
  <2> QED BY <2>2 DEF y, r
<1> HIDE DEF next
<1>3. step \in [Int \X (1 .. n) -> Int]
  <2>1. \A p \in Int \X (1 .. n) : next(p[1], p[2]) \in Int BY <1>2
  <2> QED BY <2>1
<1>4. \A x \in Int, k \in 1 .. n : step[<<x, k>>] = next(x, k) OBVIOUS
<1> HIDE DEF step
<1>5. 0 \in Int OBVIOUS
<1>6. PICK g \in [0 .. n -> Int] : Follows(g, n, 0, step) BY <1>1, <1>3, <1>5, Defined
<1> DEFINE e(k) == IF k = 0 THEN 0 ELSE step[<<g[k - 1], k>>]
           f(k) == IF k = 0 THEN 0 ELSE next(g[k - 1], k)
<1>7. \A k \in 0 .. n : e(k) = f(k)
  <2>1. ASSUME NEW k \in 1 .. n PROVE step[<<g[k - 1], k>>] = next(g[k - 1], k)
    <3>1. g[k - 1] \in Int BY <1>1
    <3> QED BY <1>4, <3>1
  <2>2. \A k \in 0 .. n : k = 0 \/ k \in 1 .. n BY <1>1
  <2> QED BY <2>1, <2>2
<1>8. g = [k \in 0 .. n |-> e(k)] BY <1>6, Zenon DEF Follows
<1> HIDE DEF e, f
<1>9. g = [k \in 0 .. n |-> f(k)] BY <1>7, <1>8
<1>10. NumbersTo(g, bytes) BY <1>9 DEF NumbersTo, f, next, n
<1> QED BY <1>10

LEMMA OidIsEncodedBack ==
  ASSUME NEW bytes \in Seq(Byte), DecodeOid(bytes) # NoOid,
         NEW arc, NumbersTo(arc, bytes), \A k \in DOMAIN bytes : arc[k] < ArcModulus
  PROVE  EncodeOid(DecodeOid(bytes)) = bytes
<1> DEFINE n == Len(bytes)
           prefix(k) == [j \in 1 .. k |-> bytes[j]]
<1>1. /\ n \in Nat /\ bytes # <<>> /\ n >= 1
      /\ \A k \in 1 .. n : bytes[k] \in Byte
      /\ ~ Subidentifiers(bytes).failed /\ ~ Subidentifiers(bytes).started
      /\ DecodeOid(bytes) = FirstArcs(Subidentifiers(bytes).arcs[1]) \o Tail(Subidentifiers(bytes).arcs)
  <2>1. bytes # <<>> /\ ~ Subidentifiers(bytes).failed /\ ~ Subidentifiers(bytes).started
    BY Zenon DEF DecodeOid
  <2>2. DecodeOid(bytes) = FirstArcs(Subidentifiers(bytes).arcs[1]) \o Tail(Subidentifiers(bytes).arcs)
    BY Zenon DEF DecodeOid
  <2>3. n \in Nat /\ n >= 1 /\ \A k \in 1 .. n : bytes[k] \in Byte BY <2>1
  <2> QED BY <2>1, <2>2, <2>3
<1>2. PICK g \in [0 .. n -> SubStates] :
        /\ g[0] = SubStart
        /\ \A k \in 1 .. n : g[k] = SubStep(g[k - 1], bytes[k])
        /\ Subidentifiers(bytes) = g[n]
  BY ScanChosen
<1>3. /\ prefix(n) = bytes /\ prefix(0) = <<>>
      /\ \A k \in 0 .. n - 1 : prefix(k + 1) = Append(prefix(k), bytes[k + 1])
  <2>1. prefix(n) = bytes OBVIOUS
  <2>2. prefix(0) = <<>> OBVIOUS
  <2>3. ASSUME NEW k \in 0 .. n - 1 PROVE prefix(k + 1) = Append(prefix(k), bytes[k + 1])
    <3>1. k + 1 \in 1 .. n BY <1>1
    <3>2. prefix(k) \in Seq(Byte) /\ Len(prefix(k)) = k
      <4>1. \A j \in 1 .. k : bytes[j] \in Byte BY <1>1
      <4> HIDE DEF n
      <4> QED BY <4>1
    <3>3. Append(prefix(k), bytes[k + 1])
            = [j \in 1 .. k + 1 |-> IF j = k + 1 THEN bytes[k + 1] ELSE prefix(k)[j]]
      <4> DEFINE q == prefix(k)
      <4>1. q \in Seq(Byte) /\ Len(q) = k BY <3>2
      <4> HIDE DEF q
      <4> QED BY <4>1
    <3> HIDE DEF n
    <3>4. \A j \in 1 .. k + 1 : bytes[j] = IF j = k + 1 THEN bytes[k + 1] ELSE prefix(k)[j]
      OBVIOUS
    <3> QED BY <3>3, <3>4
  <2> QED BY <2>1, <2>2, <2>3
<1>4. /\ arc[0] = 0
      /\ \A k \in 1 .. n :
           /\ arc[k] = 128 * (IF k > 1 /\ bytes[k - 1] >= 128 THEN arc[k - 1] ELSE 0) + (bytes[k] % 128)
           /\ arc[k] < ArcModulus
  <2>1. DOMAIN bytes = 1 .. n OBVIOUS
  <2>2. 0 \in 0 .. n /\ \A k \in 1 .. n : k \in 0 .. n /\ k # 0 BY <1>1
  <2>3. arc[0] = 0 BY <2>2, Zenon DEF NumbersTo
  <2>4. ASSUME NEW k \in 1 .. n
        PROVE  arc[k] = 128 * (IF k > 1 /\ bytes[k - 1] >= 128 THEN arc[k - 1] ELSE 0) + (bytes[k] % 128)
    BY <2>2, Zenon DEF NumbersTo
  <2> HIDE DEF n
  <2> QED BY <2>1, <2>3, <2>4
<1> HIDE DEF n, prefix
<1> DEFINE Inv(k) == /\ StandsFor(g[k], prefix(k))
                     /\ k >= 1 => g[k].acc = IF bytes[k] < 128 THEN 0 ELSE arc[k]
           T == { k \in Nat : k <= n /\ ~ g[k].failed => Inv(k) }
<1>5. 0 \in T
  <2>1. StandsFor(SubStart, <<>>)
    <3>1. <<>> \in Seq(Int) /\ <<>> \o <<>> = <<>> OBVIOUS
    <3>2. SubStart.acc = 0 /\ ~ SubStart.started /\ SubStart.arcs = <<>> BY DEF SubStart
    <3>3. Pending(SubStart) = <<>> BY <3>2 DEF Pending
    <3> QED BY <3>1, <3>2, <3>3, SpellsNone DEF StandsFor
  <2>2. Inv(0) BY <1>2, <1>3, <2>1
  <2> QED BY <2>2
<1>6. ASSUME NEW k \in Nat, k \in T PROVE k + 1 \in T
  <2>1. SUFFICES ASSUME k + 1 <= n, ~ g[k + 1].failed PROVE Inv(k + 1) OBVIOUS
  <2> DEFINE s == g[k]
             b == bytes[k + 1]
  <2>2. k + 1 \in 1 .. n /\ k \in 0 .. n /\ k \in 0 .. n - 1 /\ (k + 1) - 1 = k BY <1>1, <2>1
  <2>3. s \in SubStates /\ b \in Byte /\ g[k + 1] = SubStep(s, b) BY <1>1, <1>2, <2>2
  <2>4. ~ SubStep(s, b).failed BY <2>1, <2>3
  <2>5. ~ s.failed BY <2>4 DEF SubStep
  <2>6. Inv(k) BY <1>6, <2>2, <2>5
  <2>7. s.acc = IF k + 1 > 1 /\ bytes[(k + 1) - 1] >= 128 THEN arc[(k + 1) - 1] ELSE 0
    <3>1. CASE k = 0 BY <1>2, <3>1 DEF SubStart
    <3>2. CASE k # 0
      <4>1. k >= 1 /\ k + 1 > 1 /\ k \in 1 .. n BY <2>2, <3>2
      <4>2. bytes[k] \in Byte BY <1>1, <4>1
      <4>3. bytes[k] < 128 <=> ~ (bytes[k] >= 128)
        BY <4>2, Halves, Zenon
      <4> QED BY <2>2, <2>6, <4>1, <4>3
    <3> QED BY <3>1, <3>2
  <2>8. arc[k + 1] = 128 * s.acc + (b % 128) /\ arc[k + 1] < ArcModulus BY <1>4, <2>2, <2>7
  <2>9. StandsFor(s, prefix(k)) BY <2>6
  <2>10. /\ StandsFor(SubStep(s, b), Append(prefix(k), b))
         /\ SubStep(s, b).acc = IF b < 128 THEN 0 ELSE 128 * s.acc + (b % 128)
    <3> HIDE DEF s, b, Inv
    <3> QED BY <2>3, <2>4, <2>8, <2>9, ScansOneMore
  <2>11. prefix(k + 1) = Append(prefix(k), b) BY <1>3, <2>2
  <2> QED BY <2>3, <2>8, <2>10, <2>11
<1>7. Inv(n)
  <2> HIDE DEF T
  <2>1. \A k \in Nat : k \in T BY <1>5, <1>6, NatInduct
  <2>2. ~ g[n].failed BY <1>1, <1>2
  <2> QED BY <1>1, <2>1, <2>2 DEF T
<1> DEFINE R == g[n].arcs
<1>8. R \in Seq(Nat) /\ ~ g[n].started
  <2>1. g[n] \in SubStates BY <1>1, <1>2
  <2> QED BY <1>1, <1>2, <2>1 DEF SubStates
<1>9. PICK x \in Seq(Int) : Spells(R, x) /\ bytes = x \o <<>>
  BY <1>3, <1>7, <1>8 DEF StandsFor, Pending
<1>10. bytes = x BY <1>9
<1>11. R # <<>>
  <2>1. SUFFICES ASSUME R = <<>> PROVE FALSE OBVIOUS
  <2>2. Spells(<<>>, bytes) BY <1>9, <1>10, <2>1
  <2>3. Len(<<>>) = 0 OBVIOUS
  <2>4. bytes = <<>> BY <2>2, <2>3 DEF Spells
  <2> QED BY <1>1, <2>4
<1> HIDE DEF R, Inv
<1>12. EncodeOid(FirstArcs(R[1]) \o Tail(R)) = bytes BY <1>8, <1>9, <1>10, <1>11, EncodesBack
<1> QED BY <1>1, <1>2, <1>12 DEF R

-----------------------------------------------------------------------------
(* Powers *)

PowersTo(g, base, n) == g = [k \in 0 .. n |-> IF k = 0 THEN 1 ELSE base * g[k - 1]]

ArePowers(g, base, n) ==
  /\ g[0] = 1 /\ \A k \in 1 .. n : g[k] = base * g[k - 1]
  /\ \A k \in 0 .. n : g[k] \in Nat
  /\ Power(base, n) = g[n]

LEMMA PowersChosen ==
  ASSUME NEW base \in Nat, NEW n \in Nat
  PROVE  \E g : ArePowers(g, base, n)
<1> DEFINE step == [p \in Nat \X (1 .. n) |-> base * p[1]]
           V == CHOOSE g : PowersTo(g, base, n)
<1>1. step \in [Nat \X (1 .. n) -> Nat]
  <2>1. \A x \in Nat : base * x \in Nat OBVIOUS
  <2> QED BY <2>1
<1> HIDE DEF step
<1>2. PICK g \in [0 .. n -> Nat] : Follows(g, n, 1, step) BY <1>1, Defined
<1>3. ASSUME NEW k \in 1 .. n PROVE step[<<g[k - 1], k>>] = base * g[k - 1]
  <2>1. g[k - 1] \in Nat OBVIOUS
  <2> QED BY <2>1 DEF step
<1>4. PowersTo(g, base, n)
  <2> DEFINE e(k) == IF k = 0 THEN 1 ELSE step[<<g[k - 1], k>>]
             f(k) == IF k = 0 THEN 1 ELSE base * g[k - 1]
  <2>1. \A k \in 0 .. n : e(k) = f(k)
    <3>1. \A k \in 0 .. n : k = 0 \/ k \in 1 .. n OBVIOUS
    <3> QED BY <1>3, <3>1
  <2>2. g = [k \in 0 .. n |-> e(k)] BY <1>2, Zenon DEF Follows
  <2> HIDE DEF e, f
  <2>3. g = [k \in 0 .. n |-> f(k)] BY <2>1, <2>2
  <2> QED BY <2>3 DEF f, PowersTo
<1>5. PowersTo(V, base, n) BY <1>4
<1>6. Power(base, n) = V[n] BY DEF Power, PowersTo
<1> HIDE DEF V
<1>7. V[0] = 1 /\ \A k \in 1 .. n : V[k] = base * V[k - 1] BY <1>5 DEF PowersTo
<1>8. \A k \in 0 .. n : V[k] \in Nat
  <2>1. \A x \in Nat : base * x \in Nat OBVIOUS
  <2>2. \A k \in 1 .. n : V[k - 1] \in Nat => V[k] \in Nat BY <1>7, <2>1
  <2>3. V[0] \in Nat BY <1>7
  <2> QED BY <2>2, <2>3, StaysIn
<1> QED BY <1>6, <1>7, <1>8 DEF ArePowers

LEMMA PowerOf ==
  ASSUME NEW base \in Nat, NEW n \in Nat
  PROVE  /\ Power(base, n) \in Nat
         /\ n = 0 => Power(base, n) = 1
         /\ n >= 1 => Power(base, n) = base * Power(base, n - 1)
<1>0. PICK g : ArePowers(g, base, n) BY PowersChosen
<1>1. /\ g[0] = 1 /\ \A k \in 1 .. n : g[k] = base * g[k - 1]
      /\ \A k \in 0 .. n : g[k] \in Nat
      /\ Power(base, n) = g[n]
  BY <1>0 DEF ArePowers
<1>2. ASSUME n >= 1 PROVE Power(base, n - 1) = g[n - 1]
  <2> DEFINE m == n - 1
  <2>1. m \in Nat /\ \A k \in 1 .. m : k \in 1 .. n BY <1>2
  <2> HIDE DEF m
  <2>0. PICK h : ArePowers(h, base, m) BY <2>1, PowersChosen
  <2>2. /\ h[0] = 1 /\ \A k \in 1 .. m : h[k] = base * h[k - 1]
        /\ Power(base, m) = h[m]
    BY <2>0 DEF ArePowers
  <2>3. \A k \in 1 .. m : g[k - 1] = h[k - 1] => g[k] = h[k] BY <1>1, <2>1, <2>2
  <2>4. g[0] = h[0] BY <1>1, <2>2
  <2>5. GoAlike(g, h, m) BY <2>3, <2>4 DEF GoAlike
  <2>6. AreSame(g, h, m) BY <2>1, <2>5, StaySame
  <2>7. g[m] = h[m] BY <2>1, <2>6 DEF AreSame
  <2> QED BY <2>1, <2>2, <2>7 DEF m
<1>3. n >= 1 => g[n] = base * g[n - 1] BY <1>1
<1> QED BY <1>1, <1>2, <1>3

LEMMA NextPower ==
  ASSUME NEW base \in Nat, NEW n \in Nat
  PROVE  Power(base, n) \in Nat /\ Power(base, n + 1) = base * Power(base, n)
<1> DEFINE m == n + 1
<1>1. m \in Nat /\ m >= 1 /\ m - 1 = n OBVIOUS
<1> HIDE DEF m
<1>2. Power(base, m) = base * Power(base, m - 1) BY <1>1, PowerOf
<1>3. Power(base, n) \in Nat BY PowerOf
<1> QED BY <1>1, <1>2, <1>3 DEF m

LEMMA NextPowers ==
  /\ \A k \in Nat : Power(256, k) \in Nat /\ Power(256, k + 1) = 256 * Power(256, k)
  /\ \A k \in Nat : Power(10, k) \in Nat /\ Power(10, k + 1) = 10 * Power(10, k)
<1>1. ASSUME NEW b \in Nat
      PROVE  \A k \in Nat : Power(b, k) \in Nat /\ Power(b, k + 1) = b * Power(b, k)
  BY NextPower
<1>2. 256 \in Nat /\ 10 \in Nat OBVIOUS
<1> QED BY <1>1, <1>2

LEMMA PowersGrow ==
  ASSUME NEW base \in Nat, base >= 1, NEW m \in Nat, NEW n \in Nat, m <= n
  PROVE  1 <= Power(base, m) /\ Power(base, m) <= Power(base, n)
<1> DEFINE P(k) == Power(base, k)
           T == { k \in Nat : \A j \in 0 .. k : 1 <= P(j) /\ P(j) <= P(k) }
<1>1. \A k \in Nat : P(k) \in Nat /\ P(k + 1) = base * P(k)
  <2>1. ASSUME NEW k \in Nat PROVE P(k) \in Nat /\ P(k + 1) = base * P(k)
    <3>1. k + 1 \in Nat /\ k + 1 >= 1 /\ (k + 1) - 1 = k OBVIOUS
    <3>2. P(k + 1) = base * P((k + 1) - 1) BY <3>1, PowerOf
    <3>3. P(k) \in Nat BY PowerOf
    <3> QED BY <3>1, <3>2, <3>3
  <2> QED BY <2>1
<1>2. P(0) = 1 BY PowerOf
<1> HIDE DEF P
<1>3. 0 \in T BY <1>2
<1>4. ASSUME NEW k \in Nat, k \in T PROVE k + 1 \in T
  <2>1. P(k) \in Nat /\ P(k + 1) = base * P(k) /\ 1 <= P(k) BY <1>1, <1>4
  <2>2. P(k) <= P(k + 1)
    <3> DEFINE x == P(k)
    <3>1. x \in Nat /\ x >= 1 BY <2>1
    <3> HIDE DEF x
    <3>2. x <= base * x BY <3>1
    <3> QED BY <2>1, <3>2 DEF x
  <2>3. P(k + 1) \in Nat BY <1>1
  <2>4. ASSUME NEW j \in 0 .. k + 1 PROVE 1 <= P(j) /\ P(j) <= P(k + 1)
    <3>1. CASE j = k + 1 BY <2>1, <2>2, <2>3, <3>1
    <3>2. CASE j # k + 1
      <4>1. j \in 0 .. k BY <3>2
      <4>2. 1 <= P(j) /\ P(j) <= P(k) /\ P(j) \in Nat BY <1>1, <1>4, <4>1
      <4> QED BY <2>1, <2>2, <2>3, <4>2
    <3> QED BY <3>1, <3>2
  <2> QED BY <2>4
<1>5. n \in T
  <2> HIDE DEF T
  <2>1. \A k \in Nat : k \in T BY <1>3, <1>4, NatInduct
  <2> QED BY <2>1
<1> QED BY <1>5 DEF P

-----------------------------------------------------------------------------
(* The number that octets stand for, and its division by ten *)

UnsignedTo(g, bytes) ==
  g = [k \in 0 .. Len(bytes) |-> IF k = 0 THEN 0 ELSE 256 * g[k - 1] + bytes[k]]

Unsigned(bytes) == CHOOSE g : UnsignedTo(g, bytes)

LEMMA BytesFacts ==
  ASSUME NEW bytes \in Seq(Byte)
  PROVE  /\ Len(bytes) \in Nat /\ DOMAIN bytes = 1 .. Len(bytes)
         /\ \A k \in 1 .. Len(bytes) : bytes[k] \in Int /\ 0 <= bytes[k] /\ bytes[k] <= 255
<1>1. \A b \in Byte : b \in Int /\ 0 <= b /\ b <= 255 BY ByteIs
<1>2. \A k \in 1 .. Len(bytes) : bytes[k] \in Byte OBVIOUS
<1> QED BY <1>1, <1>2

LEMMA UnsignedOf ==
  ASSUME NEW bytes \in Seq(Byte)
  PROVE  /\ Unsigned(bytes)[0] = 0
         /\ \A k \in 1 .. Len(bytes) : Unsigned(bytes)[k] = 256 * Unsigned(bytes)[k - 1] + bytes[k]
         /\ \A k \in 0 .. Len(bytes) : Unsigned(bytes)[k] \in Nat
<1> DEFINE n == Len(bytes)
           step == [p \in Nat \X (1 .. n) |-> 256 * p[1] + bytes[p[2]]]
           V == Unsigned(bytes)
<1>1. n \in Nat /\ \A k \in 1 .. n : bytes[k] \in Nat
  BY BytesFacts
<1> HIDE DEF n
<1>2. \A x \in Nat, k \in 1 .. n : 256 * x + bytes[k] \in Nat BY <1>1
<1>3. step \in [Nat \X (1 .. n) -> Nat] BY <1>2
<1> HIDE DEF step
<1>4. PICK g \in [0 .. n -> Nat] : Follows(g, n, 0, step) BY <1>1, <1>3, Defined
<1>5. UnsignedTo(g, bytes)
  <2> DEFINE e(k) == IF k = 0 THEN 0 ELSE step[<<g[k - 1], k>>]
             f(k) == IF k = 0 THEN 0 ELSE 256 * g[k - 1] + bytes[k]
  <2>1. \A k \in 0 .. n : e(k) = f(k)
    <3>1. ASSUME NEW k \in 1 .. n PROVE step[<<g[k - 1], k>>] = 256 * g[k - 1] + bytes[k]
      <4>1. <<g[k - 1], k>> \in Nat \X (1 .. n) BY <1>1
      <4> QED BY <4>1 DEF step
    <3>2. \A k \in 0 .. n : k = 0 \/ k \in 1 .. n BY <1>1
    <3> QED BY <3>1, <3>2
  <2>2. g = [k \in 0 .. n |-> e(k)] BY <1>4, Zenon DEF Follows
  <2> HIDE DEF e, f
  <2>3. g = [k \in 0 .. n |-> f(k)] BY <2>1, <2>2
  <2> QED BY <2>3 DEF f, UnsignedTo, n
<1>6. UnsignedTo(V, bytes) BY <1>5 DEF Unsigned
<1> HIDE DEF V
<1>7. V[0] = 0 /\ \A k \in 1 .. n : V[k] = 256 * V[k - 1] + bytes[k]
  BY <1>1, <1>6 DEF UnsignedTo, n
<1>8. \A k \in 0 .. n : V[k] \in Nat
  <2>1. \A k \in 1 .. n : V[k - 1] \in Nat => V[k] \in Nat BY <1>2, <1>7
  <2>2. V[0] \in Nat BY <1>7
  <2> QED BY <1>1, <2>1, <2>2, StaysIn
<1> QED BY <1>7, <1>8 DEF V, n

\* Octets are less than the power of 256 for their number.
LEMMA UnsignedIsLess ==
  ASSUME NEW bytes \in Seq(Byte)
  PROVE  \A k \in 0 .. Len(bytes) :
           /\ Unsigned(bytes)[k] < Power(256, k)
           /\ Unsigned(bytes)[k] < Power(10, 3 * k)
<1> DEFINE n == Len(bytes)
           U == Unsigned(bytes)
           T == { k \in Nat : U[k] < Power(256, k) /\ U[k] < Power(10, 3 * k) }
<1>1. /\ n \in Nat
      /\ U[0] = 0 /\ \A k \in 1 .. n : U[k] = 256 * U[k - 1] + bytes[k] /\ U[k - 1] \in Nat
      /\ \A k \in 1 .. n : bytes[k] \in Int /\ 0 <= bytes[k] /\ bytes[k] <= 255
  BY BytesFacts, UnsignedOf
<1> HIDE DEF n, U
<1>2. 0 \in T
  <2>1. Power(256, 0) = 1 /\ Power(10, 3 * 0) = 1
    <3>1. 3 * 0 = 0 OBVIOUS
    <3>2. Power(256, 0) = 1 /\ Power(10, 0) = 1 BY PowerOf, ZenonT(30)
    <3> QED BY <3>1, <3>2
  <2> QED BY <1>1, <2>1
<1>3. ASSUME NEW k \in 0 .. n - 1, k \in T PROVE k + 1 \in T
  <2>1. k + 1 \in 1 .. n /\ (k + 1) - 1 = k /\ k \in Nat /\ k + 1 \in Nat BY <1>1
  <2>2. U[k + 1] = 256 * U[k] + bytes[k + 1] /\ U[k] \in Nat BY <1>1, <2>1
  <2>3. bytes[k + 1] \in Int /\ bytes[k + 1] <= 255 BY <1>1, <2>1
  <2> DEFINE b == bytes[k + 1]
             u == U[k]
             p == Power(256, k)
             q == Power(10, 3 * k)
  <2>4. Power(256, k + 1) = 256 * p /\ p \in Nat BY <2>1, NextPowers, ZenonT(30)
  <2>5. Power(10, 3 * (k + 1)) = 1000 * q /\ q \in Nat
    <3> DEFINE m == 3 * k
    <3>1. m \in Nat /\ m + 1 \in Nat /\ m + 2 \in Nat /\ m + 3 \in Nat
          /\ (m + 1) - 1 = m /\ (m + 2) - 1 = m + 1 /\ (m + 3) - 1 = m + 2 /\ 3 * (k + 1) = m + 3
      BY <2>1
    <3> HIDE DEF m
    <3>2. Power(10, m + 1) = 10 * Power(10, m) BY <3>1, PowerOf
    <3>3. Power(10, m + 2) = 10 * Power(10, m + 1) BY <3>1, PowerOf
    <3>4. Power(10, m + 3) = 10 * Power(10, m + 2) BY <3>1, PowerOf
    <3>5. Power(10, m) \in Nat BY <3>1, PowerOf
    <3>6. Power(10, m + 3) = 1000 * Power(10, m) BY <3>2, <3>3, <3>4, <3>5
    <3> QED BY <3>1, <3>5, <3>6 DEF m
  <2>6. u < p /\ u < q BY <1>3
  <2> HIDE DEF b, u, p, q
  <2>7. 256 * u + b < 256 * p /\ 256 * u + b < 1000 * q
    BY <2>2, <2>3, <2>4, <2>5, <2>6, SMTT(30) DEF b, u
  <2> QED BY <2>1, <2>2, <2>4, <2>5, <2>7 DEF b, u
<1>4. \A k \in 0 .. n : k \in T
  <2> HIDE DEF T
  <2> QED BY <1>1, <1>2, <1>3, UpTo
<1> QED BY <1>4 DEF n, U

LEMMA ZeroIsZero ==
  ASSUME NEW bytes \in Seq(Byte)
  PROVE  IsZero(bytes) <=> Unsigned(bytes)[Len(bytes)] = 0
<1> DEFINE n == Len(bytes)
           U == Unsigned(bytes)
<1>1. /\ n \in Nat /\ DOMAIN bytes = 1 .. n
      /\ U[0] = 0 /\ \A k \in 1 .. n : U[k] = 256 * U[k - 1] + bytes[k] /\ U[k - 1] \in Nat
      /\ \A k \in 1 .. n : bytes[k] \in Int /\ 0 <= bytes[k] /\ bytes[k] <= 255
  BY BytesFacts, UnsignedOf
<1> HIDE DEF n, U
<1>2. ASSUME IsZero(bytes) PROVE U[n] = 0
  <2>1. \A k \in 1 .. n : bytes[k] = 0 BY <1>1, <1>2 DEF IsZero
  <2>2. \A k \in 1 .. n : U[k - 1] \in {0} => U[k] \in {0} BY <1>1, <2>1
  <2>3. \A k \in 0 .. n : U[k] \in {0} BY <1>1, <2>2, StaysIn
  <2> QED BY <1>1, <2>3
<1>3. ASSUME U[n] = 0 PROVE IsZero(bytes)
  <2> DEFINE T == { k \in Nat : U[n - k] = 0 }
  <2>1. 0 \in T BY <1>1, <1>3
  <2>2. ASSUME NEW k \in 0 .. n - 1, k \in T PROVE k + 1 \in T
    <3>1. n - k \in 1 .. n /\ (n - k) - 1 = n - (k + 1) BY <1>1
    <3>2. U[n - k] = 0 BY <2>2
    <3>3. 0 = 256 * U[(n - k) - 1] + bytes[n - k] /\ U[(n - k) - 1] \in Nat
          /\ bytes[n - k] \in Int /\ 0 <= bytes[n - k]
      BY <1>1, <3>1, <3>2, ZenonT(30)
    <3>4. U[(n - k) - 1] = 0 BY <3>3
    <3>5. k + 1 \in Nat OBVIOUS
    <3> QED BY <3>1, <3>4, <3>5
  <2>3. \A k \in 0 .. n : k \in T
    <3> HIDE DEF T
    <3> QED BY <1>1, <2>1, <2>2, UpTo
  <2>4. ASSUME NEW j \in 1 .. n PROVE bytes[j] = 0
    <3>1. n - j \in 0 .. n /\ n - (n - j) = j /\ n - (j - 1) \in 0 .. n /\ n - (n - (j - 1)) = j - 1
      BY <1>1
    <3>2. n - j \in T /\ n - (j - 1) \in T BY <2>3, <3>1
    <3>3. U[j] = 0 /\ U[j - 1] = 0 BY <3>1, <3>2
    <3>4. U[j] = 256 * U[j - 1] + bytes[j] /\ bytes[j] \in Int BY <1>1
    <3> HIDE DEF T
    <3>5. 0 = 256 * 0 + bytes[j] BY <3>3, <3>4
    <3> QED BY <3>4, <3>5
  <2> QED BY <1>1, <2>4 DEF IsZero
<1> QED BY <1>2, <1>3 DEF n, U

RemaindersTo(g, bytes) ==
  g = [k \in 0 .. Len(bytes) |-> IF k = 0 THEN 0 ELSE (256 * g[k - 1] + bytes[k]) % 10]

\* The remainders of the division by ten, as the pass goes along.
LEMMA RemaindersChosen ==
  ASSUME NEW bytes \in Seq(Byte)
  PROVE  \E g :
           /\ RemaindersTo(g, bytes)
           /\ \A k \in 0 .. Len(bytes) : g[k] \in 0 .. 9
           /\ DividedByTen(bytes) =
                [quotient |-> [k \in DOMAIN bytes |-> (256 * g[k - 1] + bytes[k]) \div 10],
                 digit |-> g[Len(bytes)]]
<1> DEFINE n == Len(bytes)
           S == 0 .. 9
           step == [p \in S \X (1 .. n) |-> (256 * p[1] + bytes[p[2]]) % 10]
           V == CHOOSE g : RemaindersTo(g, bytes)
<1>1. n \in Nat /\ \A k \in 1 .. n : bytes[k] \in Nat
  BY BytesFacts
<1> HIDE DEF n
<1>2. ASSUME NEW x \in S, NEW k \in 1 .. n PROVE (256 * x + bytes[k]) % 10 \in S
  <2> DEFINE y == 256 * x + bytes[k]
  <2>1. y \in Int BY <1>1
  <2> HIDE DEF y
  <2>2. y % 10 \in 0 .. 9 BY <2>1
  <2> QED BY <2>2 DEF y
<1>3. step \in [S \X (1 .. n) -> S]
  <2> HIDE DEF S
  <2> QED BY <1>2
<1> HIDE DEF step
<1>4. PICK g \in [0 .. n -> S] : Follows(g, n, 0, step)
  <2>1. 0 \in S OBVIOUS
  <2> HIDE DEF S
  <2> QED BY <1>1, <1>3, <2>1, Defined
<1>5. RemaindersTo(g, bytes)
  <2> HIDE DEF S
  <2> DEFINE e(k) == IF k = 0 THEN 0 ELSE step[<<g[k - 1], k>>]
             f(k) == IF k = 0 THEN 0 ELSE (256 * g[k - 1] + bytes[k]) % 10
  <2>1. \A k \in 0 .. n : e(k) = f(k)
    <3>1. ASSUME NEW k \in 1 .. n PROVE step[<<g[k - 1], k>>] = (256 * g[k - 1] + bytes[k]) % 10
      <4>1. <<g[k - 1], k>> \in S \X (1 .. n) BY <1>1
      <4> QED BY <4>1 DEF step
    <3>2. \A k \in 0 .. n : k = 0 \/ k \in 1 .. n BY <1>1
    <3> QED BY <3>1, <3>2
  <2>2. g = [k \in 0 .. n |-> e(k)] BY <1>4, Zenon DEF Follows
  <2> HIDE DEF e, f
  <2>3. g = [k \in 0 .. n |-> f(k)] BY <2>1, <2>2
  <2> QED BY <2>3 DEF f, RemaindersTo, n
<1>6. RemaindersTo(V, bytes) BY <1>5
<1>7. DividedByTen(bytes) =
        [quotient |-> [k \in DOMAIN bytes |-> (256 * V[k - 1] + bytes[k]) \div 10],
         digit |-> V[Len(bytes)]]
  BY DEF DividedByTen, RemaindersTo
<1> HIDE DEF V
<1>8. V[0] = 0 /\ \A k \in 1 .. n : V[k] = (256 * V[k - 1] + bytes[k]) % 10
  BY <1>1, <1>6 DEF RemaindersTo, n
<1>9. \A k \in 0 .. n : V[k] \in S
  <2>1. V[0] \in S BY <1>8
  <2> HIDE DEF S
  <2>2. \A k \in 1 .. n : V[k - 1] \in S => V[k] \in S BY <1>2, <1>8
  <2> QED BY <1>1, <2>1, <2>2, StaysIn
<1> QED BY <1>6, <1>7, <1>9 DEF n

\* A pass divides by ten.
LEMMA OnePass ==
  ASSUME NEW bytes \in Seq(Byte)
  PROVE  LET q == DividedByTen(bytes).quotient
             d == DividedByTen(bytes).digit
         IN /\ q \in Seq(Byte) /\ Len(q) = Len(bytes)
            /\ d \in 0 .. 9
            /\ Unsigned(bytes)[Len(bytes)] = 10 * Unsigned(q)[Len(bytes)] + d
<1> DEFINE n == Len(bytes)
           q == DividedByTen(bytes).quotient
           d == DividedByTen(bytes).digit
           U == Unsigned(bytes)
           W == Unsigned(q)
<1>1. /\ n \in Nat /\ DOMAIN bytes = 1 .. n
      /\ U[0] = 0 /\ \A k \in 1 .. n : U[k] = 256 * U[k - 1] + bytes[k] /\ U[k - 1] \in Nat
      /\ \A k \in 1 .. n : bytes[k] \in Int /\ 0 <= bytes[k] /\ bytes[k] <= 255
  BY BytesFacts, UnsignedOf
<1>2. PICK g : /\ RemaindersTo(g, bytes)
               /\ \A k \in 0 .. n : g[k] \in 0 .. 9
               /\ DividedByTen(bytes) =
                    [quotient |-> [k \in DOMAIN bytes |-> (256 * g[k - 1] + bytes[k]) \div 10],
                     digit |-> g[n]]
  BY RemaindersChosen
<1>20. RemaindersTo(g, bytes) BY <1>2
<1>21. \A k \in 0 .. n : g[k] \in 0 .. 9 BY <1>2
<1>3. d = g[n] /\ d \in 0 .. 9
  <2> HIDE DEF n
  <2> QED BY <1>1, <1>2
<1>4. q = [k \in 1 .. n |-> (256 * g[k - 1] + bytes[k]) \div 10] BY <1>1, <1>2
<1> HIDE DEF n, d, U, q
<1>5. g[0] = 0 /\ \A k \in 1 .. n : g[k] = (256 * g[k - 1] + bytes[k]) % 10
  <2>1. n \in Nat BY <1>1
  <2>2. g = [k \in 0 .. n |-> IF k = 0 THEN 0 ELSE (256 * g[k - 1] + bytes[k]) % 10]
    BY <1>20 DEF RemaindersTo, n
  <2> QED BY <2>1, <2>2
<1>6. ASSUME NEW k \in 1 .. n
      PROVE  /\ q[k] \in Int /\ 0 <= q[k] /\ q[k] <= 255
             /\ 256 * g[k - 1] + bytes[k] = 10 * q[k] + g[k]
  <2> DEFINE y == 256 * g[k - 1] + bytes[k]
  <2>1. g[k - 1] \in 0 .. 9
    <3>1. k - 1 \in 0 .. n BY <1>1
    <3> QED BY <1>21, <3>1
  <2>2. y \in Int /\ 0 <= y /\ y <= 2559
    <3> DEFINE x == g[k - 1]
               b == bytes[k]
    <3>1. x \in 0 .. 9 /\ b \in Int /\ 0 <= b /\ b <= 255 BY <1>1, <2>1
    <3> HIDE DEF x, b
    <3>2. 256 * x + b \in Int /\ 0 <= 256 * x + b /\ 256 * x + b <= 2559 BY <3>1
    <3> QED BY <3>2 DEF x, b
  <2>3. q[k] = y \div 10 BY <1>4
  <2>4. g[k] = y % 10 BY <1>5
  <2> HIDE DEF y
  <2>5. y \div 10 \in Int /\ 0 <= y \div 10 /\ y \div 10 <= 255 /\ y = 10 * (y \div 10) + (y % 10)
    BY <2>2
  <2> QED BY <2>3, <2>4, <2>5 DEF y
<1>7. q \in Seq(Byte) /\ Len(q) = n
  <2>1. \A k \in 1 .. n : q[k] \in Byte BY <1>6, ByteIs
  <2>2. q = [k \in 1 .. n |-> q[k]] BY <1>4
  <2> QED BY <1>1, <2>1, <2>2
<1>8. W[0] = 0 /\ \A k \in 1 .. n : W[k] = 256 * W[k - 1] + q[k] /\ W[k - 1] \in Nat
  BY <1>7, UnsignedOf
<1> HIDE DEF W
<1> DEFINE T == { k \in Nat : U[k] = 10 * W[k] + g[k] }
<1>9. 0 \in T BY <1>1, <1>5, <1>8
<1>10. ASSUME NEW k \in 0 .. n - 1, k \in T PROVE k + 1 \in T
  <2>1. U[k] = 10 * W[k] + g[k] BY <1>10
  <2>2. SUFFICES U[k + 1] = 10 * W[k + 1] + g[k + 1] BY <1>1
  <2> HIDE DEF T
  <2>3. k + 1 \in 1 .. n /\ (k + 1) - 1 = k /\ k \in 0 .. n /\ k + 1 \in 0 .. n BY <1>1
  <2>4. U[k + 1] = 256 * U[k] + bytes[k + 1] /\ U[k] \in Int /\ bytes[k + 1] \in Int
    <3> DEFINE j == k + 1
    <3>1. j \in 1 .. n /\ j - 1 = k BY <2>3
    <3> HIDE DEF j
    <3>2. U[j] = 256 * U[j - 1] + bytes[j] /\ U[j - 1] \in Nat /\ bytes[j] \in Int BY <1>1, <3>1
    <3> QED BY <3>1, <3>2 DEF j
  <2>5. W[k + 1] = 256 * W[k] + q[k + 1] /\ W[k] \in Int BY <1>8, <2>3
  <2>6. 256 * g[k] + bytes[k + 1] = 10 * q[k + 1] + g[k + 1] /\ q[k + 1] \in Int
    BY <1>6, <2>3
  <2>7. g[k] \in Int /\ g[k + 1] \in Int
    <3>1. \A x \in 0 .. 9 : x \in Int OBVIOUS
    <3> QED BY <1>21, <2>3, <3>1
  <2> DEFINE u == U[k]
             w == W[k]
             b == bytes[k + 1]
             x == q[k + 1]
             y == g[k]
             z == g[k + 1]
  <2>8. u \in Int /\ w \in Int /\ b \in Int /\ x \in Int /\ y \in Int /\ z \in Int
        /\ u = 10 * w + y /\ 256 * y + b = 10 * x + z
    BY <2>1, <2>4, <2>5, <2>6, <2>7
  <2>9. U[k + 1] = 256 * u + b /\ W[k + 1] = 256 * w + x BY <2>4, <2>5
  <2> HIDE DEF u, w, b, x, y
  <2>10. 256 * u + b = 10 * (256 * w + x) + z
    <3> HIDE DEF z
    <3> QED BY <2>8
  <2> QED BY <2>9, <2>10
<1>11. n \in T
  <2> HIDE DEF T
  <2>1. \A k \in 0 .. n : k \in T BY <1>1, <1>9, <1>10, UpTo
  <2> QED BY <1>1, <2>1
<1>12. U[n] = 10 * W[n] + d BY <1>3, <1>11
<1> QED BY <1>3, <1>7, <1>12 DEF U, W, n, q, d

-----------------------------------------------------------------------------
(* The digits *)

QuotientsTo(g, bytes) ==
  g = [k \in 0 .. 3 * Len(bytes) |-> IF k = 0 THEN bytes ELSE DividedByTen(g[k - 1]).quotient]

LEMMA QuotientsOf ==
  ASSUME NEW bytes \in Seq(Byte)
  PROVE  /\ DOMAIN Quotients(bytes) = 0 .. 3 * Len(bytes)
         /\ Quotients(bytes)[0] = bytes
         /\ \A k \in 1 .. 3 * Len(bytes) :
              Quotients(bytes)[k] = DividedByTen(Quotients(bytes)[k - 1]).quotient
         /\ \A k \in 0 .. 3 * Len(bytes) :
              Quotients(bytes)[k] \in Seq(Byte) /\ Len(Quotients(bytes)[k]) = Len(bytes)
<1> DEFINE n == 3 * Len(bytes)
           S == { s \in Seq(Byte) : Len(s) = Len(bytes) }
           step == [p \in S \X (1 .. n) |-> DividedByTen(p[1]).quotient]
           V == Quotients(bytes)
<1>1. n \in Nat /\ bytes \in S
  <2>1. Len(bytes) \in Nat BY BytesFacts
  <2> QED BY <2>1
<1>2. \A s \in S : DividedByTen(s).quotient \in S
  <2>1. ASSUME NEW s \in Seq(Byte)
        PROVE  DividedByTen(s).quotient \in Seq(Byte) /\ Len(DividedByTen(s).quotient) = Len(s)
    BY OnePass
  <2> QED BY <2>1
<1>10. \A s \in S : s \in Seq(Byte) /\ Len(s) = Len(bytes) OBVIOUS
<1> HIDE DEF n, S
<1>3. step \in [S \X (1 .. n) -> S] BY <1>2
<1> HIDE DEF step
<1>4. PICK g \in [0 .. n -> S] : Follows(g, n, bytes, step) BY <1>1, <1>3, Defined
<1>5. QuotientsTo(g, bytes)
  <2> DEFINE e(k) == IF k = 0 THEN bytes ELSE step[<<g[k - 1], k>>]
             f(k) == IF k = 0 THEN bytes ELSE DividedByTen(g[k - 1]).quotient
  <2>1. \A k \in 0 .. n : e(k) = f(k)
    <3>1. ASSUME NEW k \in 1 .. n PROVE step[<<g[k - 1], k>>] = DividedByTen(g[k - 1]).quotient
      <4>1. <<g[k - 1], k>> \in S \X (1 .. n) BY <1>1
      <4> QED BY <4>1 DEF step
    <3>2. \A k \in 0 .. n : k = 0 \/ k \in 1 .. n BY <1>1
    <3> QED BY <3>1, <3>2
  <2>2. g = [k \in 0 .. n |-> e(k)] BY <1>4, Zenon DEF Follows
  <2> HIDE DEF e, f
  <2>3. g = [k \in 0 .. n |-> f(k)] BY <2>1, <2>2
  <2> QED BY <2>3 DEF f, QuotientsTo, n
<1>6. QuotientsTo(V, bytes)
  <2>1. V = CHOOSE h : QuotientsTo(h, bytes) BY DEF Quotients, QuotientsTo
  <2> HIDE DEF V
  <2> QED BY <1>5, <2>1
<1> HIDE DEF V
<1>7. /\ DOMAIN V = 0 .. n /\ V[0] = bytes
      /\ \A k \in 1 .. n : V[k] = DividedByTen(V[k - 1]).quotient
  <2>1. V = [k \in 0 .. n |-> IF k = 0 THEN bytes ELSE DividedByTen(V[k - 1]).quotient]
    BY <1>6, Zenon DEF QuotientsTo, n
  <2> QED BY <1>1, <2>1
<1>8. \A k \in 0 .. n : V[k] \in S
  <2>1. V[0] \in S BY <1>1, <1>7
  <2>2. \A k \in 1 .. n : V[k - 1] \in S => V[k] \in S BY <1>2, <1>7
  <2> QED BY <1>1, <2>1, <2>2, StaysIn
<1>9. \A k \in 0 .. n : V[k] \in Seq(Byte) /\ Len(V[k]) = Len(bytes) BY <1>8, <1>10
<1> QED BY <1>7, <1>9 DEF V, n

\* What is left after k passes, and the digit that the next one yields.
Left(bytes, k) == Unsigned(Quotients(bytes)[k])[Len(bytes)]
DigitAfter(bytes, k) == DividedByTen(Quotients(bytes)[k]).digit

LEMMA PassesOf ==
  ASSUME NEW bytes \in Seq(Byte)
  PROVE  /\ Left(bytes, 0) = Unsigned(bytes)[Len(bytes)]
         /\ Left(bytes, 3 * Len(bytes)) = 0
         /\ \A k \in 0 .. 3 * Len(bytes) :
              /\ Left(bytes, k) \in Nat /\ DigitAfter(bytes, k) \in 0 .. 9
              /\ IsZero(Quotients(bytes)[k]) <=> Left(bytes, k) = 0
         /\ \A k \in 1 .. 3 * Len(bytes) :
              Left(bytes, k - 1) = 10 * Left(bytes, k) + DigitAfter(bytes, k - 1)
<1> DEFINE n == Len(bytes)
           m == 3 * n
           L == Quotients(bytes)
           X(k) == Left(bytes, k)
           D(k) == DigitAfter(bytes, k)
<1>1. n \in Nat /\ m \in Nat
  <2>1. n \in Nat BY BytesFacts
  <2> HIDE DEF n
  <2> QED BY <2>1
<1>2. /\ L[0] = bytes
      /\ \A k \in 1 .. m : L[k] = DividedByTen(L[k - 1]).quotient
      /\ \A k \in 0 .. m : L[k] \in Seq(Byte) /\ Len(L[k]) = n
  BY QuotientsOf
<1>3. X(0) = Unsigned(bytes)[n] BY <1>2 DEF Left
<1> HIDE DEF m, n
<1>4. ASSUME NEW k \in 0 .. m
      PROVE  X(k) \in Nat /\ D(k) \in 0 .. 9 /\ (IsZero(L[k]) <=> X(k) = 0)
  <2> DEFINE s == L[k]
  <2>1. s \in Seq(Byte) /\ Len(s) = n BY <1>2
  <2>2. X(k) = Unsigned(s)[n] /\ D(k) = DividedByTen(s).digit BY DEF Left, DigitAfter, n
  <2> HIDE DEF s, X, D, L
  <2>3. Unsigned(s)[Len(s)] \in Nat
    <3>1. Len(s) \in 0 .. Len(s) BY <1>1, <2>1
    <3> QED BY <2>1, <3>1, UnsignedOf
  <2>4. DividedByTen(s).digit \in 0 .. 9 BY <2>1, OnePass
  <2>5. IsZero(s) <=> Unsigned(s)[Len(s)] = 0 BY <2>1, ZeroIsZero
  <2> QED BY <2>1, <2>2, <2>3, <2>4, <2>5 DEF s
<1>5. ASSUME NEW k \in 1 .. m PROVE X(k - 1) = 10 * X(k) + D(k - 1)
  <2> DEFINE s == L[k - 1]
             q == DividedByTen(s).quotient
  <2>1. k - 1 \in 0 .. m BY <1>1
  <2>2. s \in Seq(Byte) /\ Len(s) = n /\ L[k] = q BY <1>2, <2>1
  <2>3. X(k - 1) = Unsigned(s)[n] /\ D(k - 1) = DividedByTen(s).digit BY DEF Left, DigitAfter, n
  <2>4. X(k) = Unsigned(q)[n] BY <2>2 DEF Left, n
  <2> HIDE DEF s, X, D, L
  <2>5. Unsigned(s)[Len(s)] = 10 * Unsigned(q)[Len(s)] + DividedByTen(s).digit BY <2>2, OnePass
  <2> QED BY <2>2, <2>3, <2>4, <2>5
<1> HIDE DEF X, D, L
<1> DEFINE T == { k \in Nat : X(k) < Power(10, m - k) }
<1>6. 0 \in T
  <2>1. n \in 0 .. n BY <1>1
  <2>2. Unsigned(bytes)[n] < Power(10, 3 * n) BY <2>1, UnsignedIsLess DEF n
  <2>3. m - 0 = m BY <1>1
  <2> QED BY <1>3, <2>2, <2>3 DEF m
<1>7. ASSUME NEW k \in 0 .. m - 1, k \in T PROVE k + 1 \in T
  <2>1. k + 1 \in 1 .. m /\ (k + 1) - 1 = k /\ k \in 0 .. m /\ k + 1 \in 0 .. m BY <1>1
  <2> DEFINE j == m - (k + 1)
  <2>2. j \in Nat /\ j + 1 = m - k BY <1>1
  <2>3. X(k) < Power(10, j + 1) BY <1>7, <2>2
  <2> HIDE DEF j, T
  <2>4. Power(10, j + 1) = 10 * Power(10, j) /\ Power(10, j) \in Nat BY <2>2, NextPowers, ZenonT(30)
  <2>5. X(k) = 10 * X(k + 1) + D(k)
    <3> DEFINE i == k + 1
    <3>1. i \in 1 .. m /\ i - 1 = k BY <2>1
    <3> HIDE DEF i
    <3>2. X(i - 1) = 10 * X(i) + D(i - 1) BY <1>5, <3>1
    <3> QED BY <3>1, <3>2 DEF i
  <2>6. X(k + 1) \in Nat /\ D(k) \in 0 .. 9 BY <1>4, <2>1
  <2> DEFINE p == Power(10, j)
             x == X(k + 1)
             d == D(k)
  <2>7. 10 * x + d < 10 * p BY <2>3, <2>4, <2>5
  <2>8. x \in Nat /\ d \in 0 .. 9 /\ p \in Nat BY <2>4, <2>6
  <2> HIDE DEF p, x, d
  <2>9. x < p BY <2>7, <2>8
  <2>10. k + 1 \in Nat BY <2>1
  <2> QED BY <2>9, <2>10 DEF p, x, j, T
<1>8. X(m) = 0
  <2>1. m \in T
    <3> HIDE DEF T
    <3>1. \A k \in 0 .. m : k \in T BY <1>1, <1>6, <1>7, UpTo
    <3> QED BY <1>1, <3>1
  <2>2. m - m = 0 /\ m \in 0 .. m BY <1>1
  <2>3. X(m) < Power(10, 0) BY <2>1, <2>2
  <2> HIDE DEF T
  <2>4. Power(10, 0) = 1 BY PowerOf
  <2>5. X(m) \in Nat BY <1>4, <2>2
  <2> QED BY <2>3, <2>4, <2>5
<1> QED BY <1>3, <1>4, <1>5, <1>8 DEF X, D, L, m, n

SpelledTo(g, digits) ==
  g = [k \in 0 .. Len(digits) |-> IF k = 0 THEN 0 ELSE 10 * g[k - 1] + digits[k]]

\* The number that digits spell.
Number(digits) == (CHOOSE g : SpelledTo(g, digits))[Len(digits)]

AddsUp(h, digits) ==
  h[0] = 0 /\ \A k \in 1 .. Len(digits) : h[k] = 10 * h[k - 1] + digits[k]

LEMMA NumberIs ==
  ASSUME NEW digits, Len(digits) \in Nat, NEW h, AddsUp(h, digits)
  PROVE  Number(digits) = h[Len(digits)]
<1> DEFINE n == Len(digits)
           V == CHOOSE g : SpelledTo(g, digits)
           g == [k \in 0 .. n |-> h[k]]
<1>1. SpelledTo(g, digits)
  <2> DEFINE f(k) == IF k = 0 THEN 0 ELSE 10 * g[k - 1] + digits[k]
  <2>1. ASSUME NEW k \in 0 .. n PROVE h[k] = f(k)
    <3>1. CASE k = 0 BY <3>1 DEF AddsUp
    <3>2. CASE k # 0
      <4>1. k \in 1 .. n /\ k - 1 \in 0 .. n BY <3>2
      <4>2. g[k - 1] = h[k - 1] BY <4>1
      <4> HIDE DEF g
      <4>3. h[k] = 10 * h[k - 1] + digits[k] BY <4>1 DEF AddsUp
      <4> QED BY <3>2, <4>2, <4>3
    <3> QED BY <3>1, <3>2
  <2> HIDE DEF f
  <2>2. g = [k \in 0 .. n |-> f(k)] BY <2>1
  <2> QED BY <2>2 DEF f, SpelledTo
<1>2. SpelledTo(V, digits) BY <1>1
<1> HIDE DEF V, g
<1>3. V[0] = 0 /\ \A k \in 1 .. n : V[k] = 10 * V[k - 1] + digits[k] BY <1>2 DEF SpelledTo
<1>4. \A k \in 1 .. n : V[k - 1] = h[k - 1] => V[k] = h[k] BY <1>3 DEF AddsUp
<1>5. V[0] = h[0] BY <1>3 DEF AddsUp
<1>6. \A k \in 0 .. n : V[k] = h[k]
  <2> HIDE DEF n
  <2>1. n \in Nat BY DEF n
  <2>2. GoAlike(V, h, n) BY <1>4, <1>5 DEF GoAlike
  <2>3. AreSame(V, h, n) BY <2>1, <2>2, StaySame
  <2> QED BY <2>3 DEF AreSame
<1>7. V[n] = h[n] BY <1>6
<1> QED BY <1>7 DEF Number, V

\* A decimal string spells the number of its octets, without leading zeros.
LEMMA DecimalOf ==
  ASSUME NEW bytes \in Seq(Byte)
  PROVE  LET d == UnsignedBytesToDecimal(bytes)
         IN /\ Number(d) = Unsigned(bytes)[Len(bytes)]
            /\ d[1] = 0 => d = <<0>>
            /\ d = <<0>> => Unsigned(bytes)[Len(bytes)] = 0
<1> DEFINE n == Len(bytes)
           m == 3 * n
           L == Quotients(bytes)
           X(k) == Left(bytes, k)
           D(k) == DigitAfter(bytes, k)
           d == UnsignedBytesToDecimal(bytes)
<1>1. n \in Nat /\ m \in Nat
  <2>1. n \in Nat BY BytesFacts
  <2> HIDE DEF n
  <2> QED BY <2>1
<1>2. /\ X(0) = Unsigned(bytes)[n] /\ X(m) = 0
      /\ \A k \in 0 .. m : X(k) \in Nat /\ D(k) \in 0 .. 9 /\ (IsZero(L[k]) <=> X(k) = 0)
      /\ \A k \in 1 .. m : X(k - 1) = 10 * X(k) + D(k - 1)
  BY PassesOf
<1>3. L[0] = bytes /\ DOMAIN L = 0 .. m BY QuotientsOf
<1>4. CASE IsZero(bytes)
  <2>1. d = <<0>> BY <1>4 DEF UnsignedBytesToDecimal
  <2>2. Unsigned(bytes)[n] = 0 BY <1>4, ZeroIsZero
  <2>3. Number(<<0>>) = 0
    <3> DEFINE h == [k \in 0 .. 1 |-> 0]
               s == <<0>>
    <3>1. h[0] = 0 /\ h[1] = 0 /\ Len(s) = 1 /\ s[1] = 0 OBVIOUS
    <3> HIDE DEF h, s
    <3>2. \A k \in 1 .. Len(s) : h[k] = 10 * h[k - 1] + s[k]
      <4>1. \A k \in 1 .. Len(s) : k = 1 BY <3>1
      <4>2. h[1] = 10 * h[1 - 1] + s[1] BY <3>1
      <4> QED BY <4>1, <4>2
    <3>3. Len(s) \in Nat BY <3>1
    <3>4. Number(s) = h[Len(s)] BY <3>1, <3>2, <3>3, NumberIs DEF AddsUp
    <3> QED BY <3>1, <3>4 DEF s
  <2> QED BY <2>1, <2>2, <2>3
<1>5. CASE ~ IsZero(bytes)
  <2> DEFINE Stops(p) == IsZero(L[p]) /\ \A k \in 0 .. p - 1 : ~ IsZero(L[k])
             p == CHOOSE q \in DOMAIN L : Stops(q)
  <2>1. \E q \in 0 .. m : Stops(q)
    <3> DEFINE Z == { q \in 0 .. m : IsZero(L[q]) }
    <3> HIDE DEF n, m, L, X, D
    <3>1. m \in Z BY <1>1, <1>2
    <3>2. Z \in SUBSET Nat /\ Z # {} BY <1>1, <3>1
    <3>3. PICK q \in Z : \A r \in Z : q <= r
      <4> HIDE DEF Z
      <4> QED BY <3>2, LeastElement
    <3>4. ASSUME NEW k \in 0 .. q - 1 PROVE ~ IsZero(L[k])
      <4>1. k \in 0 .. m /\ ~ (q <= k) BY <1>1
      <4> QED BY <3>3, <4>1
    <3> QED BY <3>4
  <2>2. p \in 0 .. m /\ Stops(p)
    <3> HIDE DEF Stops, m, L
    <3> QED BY <1>3, <2>1
  <2>3. d = [j \in 1 .. p |-> DividedByTen(L[p - j]).digit]
    BY <1>5, Zenon DEF UnsignedBytesToDecimal
  <2>4. d = [j \in 1 .. p |-> D(p - j)] BY <2>3 DEF DigitAfter
  <2> HIDE DEF p, d, D, m, n
  <2>5. IsZero(L[p]) /\ \A k \in 0 .. p - 1 : ~ IsZero(L[k]) BY <2>2
  <2> HIDE DEF Stops, X, L
  <2>6. p \in Nat /\ p >= 1 /\ p <= m
    <3>1. p # 0 BY <1>3, <1>5, <2>5
    <3> QED BY <1>1, <2>2, <3>1
  <2>7. Len(d) = p /\ \A j \in 1 .. p : d[j] = D(p - j) BY <2>4, <2>6
  <2> DEFINE h == [j \in 0 .. p |-> X(p - j)]
  <2>8. ASSUME NEW j \in 1 .. p PROVE h[j] = 10 * h[j - 1] + d[j]
    <3> DEFINE k == p - j
    <3>1. k + 1 \in 1 .. m /\ (k + 1) - 1 = k /\ p - (j - 1) = k + 1 BY <1>1, <2>6
    <3>2. j \in 0 .. p /\ j - 1 \in 0 .. p BY <2>6
    <3>3. h[j] = X(k) /\ h[j - 1] = X(p - (j - 1)) BY <3>2
    <3>4. d[j] = D(k) BY <2>7
    <3> HIDE DEF k, h
    <3>5. X((k + 1) - 1) = 10 * X(k + 1) + D((k + 1) - 1) BY <1>2, <3>1
    <3> QED BY <3>1, <3>3, <3>4, <3>5
  <2>9. h[0] = 0
    <3>1. h[0] = X(p) BY <2>6
    <3> HIDE DEF h
    <3> QED BY <1>2, <2>2, <2>5, <3>1
  <2>10. h[p] = X(0) BY <2>6
  <2> HIDE DEF h
  <2>11. Number(d) = Unsigned(bytes)[n]
    <3>1. Len(d) \in Nat BY <2>6, <2>7
    <3>2. \A k \in 1 .. Len(d) : h[k] = 10 * h[k - 1] + d[k] BY <2>7, <2>8
    <3>3. Number(d) = h[Len(d)] BY <2>9, <3>1, <3>2, NumberIs DEF AddsUp
    <3> QED BY <1>2, <2>7, <2>10, <3>3
  <2>12. d[1] # 0
    <3> DEFINE k == p - 1
    <3>1. k + 1 \in 1 .. m /\ (k + 1) - 1 = k /\ k + 1 = p /\ k \in 0 .. m /\ k \in 0 .. p - 1
      BY <1>1, <2>6
    <3>2. d[1] = D(k) BY <2>6, <2>7
    <3> HIDE DEF k
    <3>3. X((k + 1) - 1) = 10 * X(k + 1) + D((k + 1) - 1) BY <1>2, <3>1
    <3>4. X(p) = 0 /\ X(k) # 0 BY <1>2, <2>2, <2>5, <3>1
    <3>5. D(k) \in 0 .. 9 BY <1>2, <3>1
    <3> QED BY <3>1, <3>2, <3>3, <3>4, <3>5
  <2>13. <<0>>[1] = 0 OBVIOUS
  <2> QED BY <2>11, <2>12, <2>13 DEF d, n
<1> QED BY <1>4, <1>5

-----------------------------------------------------------------------------
(* Two's complement *)

Signed(bytes, k) == Unsigned(bytes)[k] - (IF Negative(bytes) THEN Power(256, k) ELSE 0)

CarriesTo(c, bytes) ==
  c = [k \in 1 .. Len(bytes) + 1 |->
         IF k = Len(bytes) + 1 THEN 1 ELSE (255 - bytes[k] + c[k + 1]) \div 256]

LEMMA CarryOf ==
  ASSUME NEW b \in Int, 0 <= b, b <= 255, NEW c \in {0, 1}
  PROVE  /\ (255 - b + c) \div 256 \in {0, 1}
         /\ (255 - b + c) % 256 \in Byte
         /\ 255 - b + c = 256 * ((255 - b + c) \div 256) + ((255 - b + c) % 256)
         /\ b >= 128 => (255 - b + c) \div 256 = 0
<1> DEFINE y == 255 - b + c
<1>1. y \in Int /\ 0 <= y /\ y <= 256 /\ (b >= 128 => y <= 128) OBVIOUS
<1> HIDE DEF y
<1>2. /\ y \div 256 \in {0, 1} /\ y % 256 \in Int /\ 0 <= y % 256 /\ y % 256 <= 255
      /\ y = 256 * (y \div 256) + (y % 256)
      /\ b >= 128 => y \div 256 = 0
  BY <1>1
<1>3. y % 256 \in Byte BY <1>2, ByteIs
<1> QED BY <1>2, <1>3 DEF y

LEMMA CarriesExist ==
  ASSUME NEW bytes \in Seq(Byte)
  PROVE  \E c : CarriesTo(c, bytes)
<1> DEFINE n == Len(bytes)
           S == {0, 1}
           step == [p \in S \X (1 .. n) |-> (255 - bytes[n + 1 - p[2]] + p[1]) \div 256]
<1>1. /\ n \in Nat
      /\ \A k \in 1 .. n : bytes[k] \in Int /\ 0 <= bytes[k] /\ bytes[k] <= 255
  BY BytesFacts
<1> HIDE DEF n
<1>2. ASSUME NEW x \in S, NEW k \in 1 .. n PROVE (255 - bytes[n + 1 - k] + x) \div 256 \in S
  <2> DEFINE b == bytes[n + 1 - k]
  <2>1. n + 1 - k \in 1 .. n BY <1>1
  <2>2. b \in Int /\ 0 <= b /\ b <= 255 BY <1>1, <2>1
  <2> HIDE DEF b
  <2>3. (255 - b + x) \div 256 \in S BY <2>2, CarryOf
  <2> QED BY <2>3 DEF b
<1>3. step \in [S \X (1 .. n) -> S]
  <2> HIDE DEF S
  <2> QED BY <1>2
<1>10. \A x \in S, k \in 1 .. n : step[<<x, k>>] = (255 - bytes[n + 1 - k] + x) \div 256
  <2> HIDE DEF S
  <2> QED OBVIOUS
<1>11. 1 \in S OBVIOUS
<1> HIDE DEF step, S
<1>4. PICK g \in [0 .. n -> S] : Follows(g, n, 1, step) BY <1>1, <1>3, <1>11, Defined
<1>5. /\ g[0] = 1
      /\ \A k \in 1 .. n : g[k] = (255 - bytes[n + 1 - k] + g[k - 1]) \div 256
  <2>1. g[0] = 1 /\ \A k \in 1 .. n : g[k] = step[<<g[k - 1], k>>]
    <3>1. 0 \in 0 .. n /\ \A k \in 1 .. n : k \in 0 .. n /\ k # 0 BY <1>1
    <3>2. g[0] = 1 BY <1>4, <3>1, Zenon DEF Follows
    <3>3. ASSUME NEW k \in 1 .. n PROVE g[k] = step[<<g[k - 1], k>>]
      BY <1>4, <3>1, Zenon DEF Follows
    <3> QED BY <3>2, <3>3
  <2>2. \A k \in 1 .. n : g[k - 1] \in S BY <1>1
  <2> QED BY <1>10, <2>1, <2>2, ZenonT(30)
<1> DEFINE c == [k \in 1 .. n + 1 |-> g[n + 1 - k]]
           e(k) == IF k = n + 1 THEN 1 ELSE (255 - bytes[k] + c[k + 1]) \div 256
<1>6. ASSUME NEW k \in 1 .. n + 1 PROVE g[n + 1 - k] = e(k)
  <2>1. CASE k = n + 1
    <3>1. n + 1 - k = 0 BY <1>1, <2>1
    <3> QED BY <1>5, <2>1, <3>1
  <2>2. CASE k # n + 1
    <3> DEFINE j == n + 1 - k
    <3>1. j \in 1 .. n /\ n + 1 - j = k /\ j - 1 = n + 1 - (k + 1) /\ k + 1 \in 1 .. n + 1
      BY <1>1, <2>2
    <3>2. c[k + 1] = g[n + 1 - (k + 1)] BY <3>1
    <3> HIDE DEF j, c
    <3>3. g[j] = (255 - bytes[n + 1 - j] + g[j - 1]) \div 256 BY <1>5, <3>1
    <3>4. g[j] = (255 - bytes[k] + c[k + 1]) \div 256 BY <3>1, <3>2, <3>3
    <3> QED BY <2>2, <3>4 DEF j
  <2> QED BY <2>1, <2>2
<1> HIDE DEF e
<1>7. c = [k \in 1 .. n + 1 |-> e(k)] BY <1>6
<1> HIDE DEF c
<1>8. CarriesTo(c, bytes) BY <1>7 DEF e, CarriesTo, n
<1> QED BY <1>8

LEMMA MagnitudeOf ==
  ASSUME NEW bytes \in Seq(Byte)
  PROVE  LET m == Magnitude(bytes)
         IN /\ m \in Seq(Byte) /\ Len(m) = Len(bytes)
            /\ Unsigned(m)[Len(bytes)] =
                 IF Negative(bytes) THEN - Signed(bytes, Len(bytes)) ELSE Signed(bytes, Len(bytes))
<1>1. CASE ~ Negative(bytes)
  <2>1. Magnitude(bytes) = bytes BY <1>1, Zenon DEF Magnitude
  <2>2. Len(bytes) \in 0 .. Len(bytes) BY BytesFacts
  <2>3. Unsigned(bytes)[Len(bytes)] \in Nat BY <2>2, UnsignedOf
  <2>4. Signed(bytes, Len(bytes)) = Unsigned(bytes)[Len(bytes)] BY <1>1, <2>3 DEF Signed
  <2> QED BY <1>1, <2>1, <2>4
<1>2. CASE Negative(bytes)
  <2> DEFINE n == Len(bytes)
             V == CHOOSE c : CarriesTo(c, bytes)
             m == Magnitude(bytes)
             U == Unsigned(bytes)
             W == Unsigned(m)
             P(k) == Power(256, k)
  <2>1. CarriesTo(V, bytes) BY CarriesExist
  <2>2. m = [k \in 1 .. n |-> (255 - bytes[k] + V[k + 1]) % 256]
    BY <1>2, Zenon DEF Magnitude, CarriesTo
  <2>3. /\ n \in Nat
        /\ U[0] = 0 /\ \A k \in 1 .. n : U[k] = 256 * U[k - 1] + bytes[k]
        /\ \A k \in 0 .. n : U[k] \in Nat
    BY BytesFacts, UnsignedOf
  <2>4. \A k \in 1 .. n : bytes[k] \in Int /\ 0 <= bytes[k] /\ bytes[k] <= 255
    BY BytesFacts
  <2>5. n >= 1 /\ bytes[1] >= 128 BY <1>2, <2>3 DEF Negative
  <2> HIDE DEF V, m, n, U, W, P
  <2>6. /\ V[n + 1] = 1
        /\ \A k \in 1 .. n : V[k] = (255 - bytes[k] + V[k + 1]) \div 256
    <3>1. V = [k \in 1 .. n + 1 |-> IF k = n + 1 THEN 1 ELSE (255 - bytes[k] + V[k + 1]) \div 256]
      BY <2>1 DEF CarriesTo, n
    <3> QED BY <2>3, <3>1
  <2>7. \A k \in 1 .. n + 1 : V[k] \in {0, 1}
    <3> DEFINE g == [j \in 0 .. n |-> V[n + 1 - j]]
    <3>1. g[0] \in {0, 1} BY <2>3, <2>6
    <3>2. ASSUME NEW j \in 1 .. n, g[j - 1] \in {0, 1} PROVE g[j] \in {0, 1}
      <4> DEFINE k == n + 1 - j
      <4>1. k \in 1 .. n /\ k + 1 = n + 1 - (j - 1) /\ j \in 0 .. n /\ j - 1 \in 0 .. n
        BY <2>3
      <4>2. g[j] = V[k] /\ g[j - 1] = V[k + 1] BY <4>1
      <4> HIDE DEF k, g
      <4>3. V[k] = (255 - bytes[k] + V[k + 1]) \div 256 BY <2>6, <4>1
      <4>4. V[k] \in {0, 1}
        <5> DEFINE b == bytes[k]
                   c == V[k + 1]
        <5>1. b \in Int /\ 0 <= b /\ b <= 255 /\ c \in {0, 1} BY <2>4, <3>2, <4>1, <4>2
        <5>2. V[k] = (255 - b + c) \div 256 BY <4>3
        <5> HIDE DEF b, c
        <5> QED BY <5>1, <5>2, CarryOf
      <4> QED BY <4>2, <4>4
    <3> DEFINE S == {0, 1}
    <3>3. \A j \in 0 .. n : g[j] \in S
      <4>1. g[0] \in S /\ \A j \in 1 .. n : g[j - 1] \in S => g[j] \in S BY <3>1, <3>2
      <4> HIDE DEF g, S
      <4> QED BY <2>3, <4>1, StaysIn
    <3>4. ASSUME NEW k \in 1 .. n + 1 PROVE V[k] \in {0, 1}
      <4> DEFINE j == n + 1 - k
      <4>1. j \in 0 .. n /\ n + 1 - j = k BY <2>3
      <4>2. g[j] = V[n + 1 - j] BY <4>1
      <4> HIDE DEF j, g
      <4> QED BY <3>3, <4>1, <4>2
    <3> QED BY <3>4
  <2>8. ASSUME NEW k \in 1 .. n
        PROVE  m[k] \in Byte /\ 255 - bytes[k] + V[k + 1] = 256 * V[k] + m[k]
    <3> DEFINE b == bytes[k]
               c == V[k + 1]
    <3>1. k + 1 \in 1 .. n + 1 BY <2>3
    <3>2. b \in Int /\ 0 <= b /\ b <= 255 /\ c \in {0, 1} BY <2>4, <2>7, <3>1
    <3>3. m[k] = (255 - b + c) % 256 BY <2>2
    <3>4. V[k] = (255 - b + c) \div 256 BY <2>6
    <3> HIDE DEF b, c
    <3>5. (255 - b + c) % 256 \in Byte
          /\ 255 - b + c = 256 * ((255 - b + c) \div 256) + ((255 - b + c) % 256)
      BY <3>2, CarryOf
    <3> QED BY <3>3, <3>4, <3>5 DEF b, c
  <2>9. V[1] = 0
    <3> DEFINE b == bytes[1]
               c == V[1 + 1]
    <3>1. 1 \in 1 .. n /\ 1 + 1 \in 1 .. n + 1 BY <2>3, <2>5
    <3>2. b \in Int /\ 0 <= b /\ b <= 255 /\ b >= 128 /\ c \in {0, 1} BY <2>4, <2>5, <2>7, <3>1
    <3>3. V[1] = (255 - b + c) \div 256 BY <2>6, <3>1
    <3> HIDE DEF b, c
    <3> QED BY <3>2, <3>3, CarryOf
  <2>10. m \in Seq(Byte) /\ Len(m) = n
    <3>1. m = [k \in 1 .. n |-> m[k]] BY <2>2
    <3>2. \A k \in 1 .. n : m[k] \in Byte BY <2>8
    <3> QED BY <2>3, <3>1, <3>2
  <2>11. /\ W[0] = 0 /\ \A k \in 1 .. n : W[k] = 256 * W[k - 1] + m[k]
         /\ \A k \in 0 .. n : W[k] \in Nat
    BY <2>10, UnsignedOf DEF W
  <2> DEFINE T == { k \in Nat : W[k] = P(k) - 1 - U[k] + V[k + 1] }
  <2>12. 0 \in T
    <3>1. P(0) = 1 BY PowerOf DEF P
    <3>2. W[0] = P(0) - 1 - U[0] + V[0 + 1] BY <2>3, <2>9, <2>11, <3>1
    <3> QED BY <3>2
  <2>13. ASSUME NEW k \in 0 .. n - 1, k \in T PROVE k + 1 \in T
    <3>1. W[k] = P(k) - 1 - U[k] + V[k + 1] BY <2>13
    <3>2. SUFFICES W[k + 1] = P(k + 1) - 1 - U[k + 1] + V[(k + 1) + 1] BY <2>3
    <3> HIDE DEF T
    <3> DEFINE j == k + 1
    <3>3. j \in 1 .. n /\ j - 1 = k /\ k \in 0 .. n /\ k \in Nat /\ j \in 1 .. n + 1 /\ j + 1 \in 1 .. n + 1
      BY <2>3
    <3>4. P(j) = 256 * P(k) /\ P(k) \in Nat BY <3>3, NextPowers, ZenonT(30) DEF P
    <3> HIDE DEF j
    <3>5. U[j] = 256 * U[k] + bytes[j] /\ U[k] \in Nat /\ bytes[j] \in Int BY <2>3, <2>4, <3>3
    <3>6. W[j] = 256 * W[k] + m[j] /\ W[k] \in Nat BY <2>11, <3>3
    <3>7. 255 - bytes[j] + V[j + 1] = 256 * V[j] + m[j] BY <2>8, <3>3
    <3>8. m[j] \in Int
      <4>1. m[j] \in Byte BY <2>8, <3>3
      <4> QED BY <4>1, ByteIs
    <3>9. V[j] \in Int /\ V[j + 1] \in Int
      <4>1. V[j] \in {0, 1} /\ V[j + 1] \in {0, 1} BY <2>7, <3>3
      <4> QED BY <4>1
    <3>10. W[k] = P(k) - 1 - U[k] + V[j] BY <3>1 DEF j
    <3> DEFINE p == P(k)
               u == U[k]
               w == W[k]
               b == bytes[j]
               a == m[j]
               v == V[j]
               z == V[j + 1]
    <3>11. p \in Int /\ u \in Int /\ w \in Int /\ b \in Int /\ a \in Int /\ v \in Int /\ z \in Int
           /\ 255 - b + z = 256 * v + a /\ w = p - 1 - u + v
      BY <3>4, <3>5, <3>6, <3>7, <3>8, <3>9, <3>10
    <3>12. W[j] = 256 * w + a /\ U[j] = 256 * u + b /\ P(j) = 256 * p BY <3>4, <3>5, <3>6
    <3> HIDE DEF p, u, w, b, a, v
    <3>13. 256 * w + a = 256 * p - 1 - (256 * u + b) + z
      <4> HIDE DEF z
      <4> QED BY <3>11
    <3> QED BY <3>12, <3>13 DEF j, z
  <2>14. n \in T
    <3> HIDE DEF T
    <3>1. \A k \in 0 .. n : k \in T BY <2>3, <2>12, <2>13, UpTo
    <3> QED BY <2>3, <3>1
  <2>15. W[n] = P(n) - U[n]
    <3>1. W[n] = P(n) - 1 - U[n] + 1 BY <2>6, <2>14
    <3>2. P(n) \in Nat BY <2>3, NextPowers, Zenon DEF P
    <3>3. U[n] \in Nat BY <2>3
    <3> HIDE DEF T
    <3> QED BY <3>1, <3>2, <3>3
  <2>16. - Signed(bytes, n) = P(n) - U[n]
    <3>1. P(n) \in Nat BY <2>3, NextPowers, Zenon DEF P
    <3>2. U[n] \in Nat BY <2>3
    <3>3. Signed(bytes, n) = U[n] - P(n) BY <1>2 DEF Signed, U, P
    <3> QED BY <3>1, <3>2, <3>3
  <2> QED BY <1>2, <2>10, <2>15, <2>16 DEF W, m, n
<1> QED BY <1>1, <1>2

\* A value taken modulo W as a two's complement number.
InWord(W, v) == IF v % W >= W \div 2 THEN (v % W) - W ELSE v % W

LEMMA InWordOf ==
  ASSUME NEW H \in Nat \ {0}, NEW v \in Int, - H <= v, v < H
  PROVE  InWord(2 * H, v) = v
<1> DEFINE W == 2 * H
<1>1. W \in Nat \ {0} /\ W \div 2 = H OBVIOUS
<1>2. W = 2 * H OBVIOUS
<1> HIDE DEF W
<1>3. CASE v >= 0
  <2>1. v % W = v
    <3>1. v \in 0 .. W - 1 /\ v = W * 0 + v BY <1>1, <1>2, <1>3
    <3>2. (W * 0 + v) % W = v BY <1>1, <3>1, Division
    <3> QED BY <3>1, <3>2
  <2> QED BY <1>1, <2>1 DEF InWord, W
<1>4. CASE v < 0
  <2>1. v % W = v + W
    <3> DEFINE r == v + W
    <3>1. r \in 0 .. W - 1 /\ v = W * (-1) + r BY <1>1, <1>2, <1>4
    <3> HIDE DEF r
    <3>2. (W * (-1) + r) % W = r BY <1>1, <3>1, Division
    <3> QED BY <3>1, <3>2 DEF r
  <2>2. v + W >= H /\ (v + W) - W = v BY <1>1, <1>2
  <2>3. InWord(W, v) = v BY <1>1, <2>1, <2>2 DEF InWord
  <2> QED BY <2>3 DEF W
<1> QED BY <1>3, <1>4

WordsTo(g, bytes) ==
  g = [k \in 0 .. Len(bytes) |->
         IF k = 0 THEN IF Negative(bytes) THEN -1 ELSE 0
         ELSE InWord(Power(256, WordOctets), 256 * g[k - 1] + bytes[k])]

\* Octets that fit the word keep their sign and so fit it after each of them.
LEMMA SignedFits ==
  ASSUME NEW bytes \in Seq(Byte), FitsWord(bytes), NEW k \in 1 .. Len(bytes)
  PROVE  /\ Signed(bytes, k) = 256 * Signed(bytes, k - 1) + bytes[k]
         /\ Signed(bytes, k) \in Int /\ Signed(bytes, k - 1) \in Int
         /\ InWord(Power(256, WordOctets), Signed(bytes, k)) = Signed(bytes, k)
<1> DEFINE n == Len(bytes)
           U == Unsigned(bytes)
           P(j) == Power(256, j)
<1>1. /\ n \in Nat
      /\ U[0] = 0 /\ \A j \in 1 .. n : U[j] = 256 * U[j - 1] + bytes[j]
      /\ \A j \in 0 .. n : U[j] \in Nat /\ U[j] < P(j)
  BY BytesFacts, UnsignedOf, UnsignedIsLess
<1>2. \A j \in 1 .. n : bytes[j] \in Int /\ 0 <= bytes[j] /\ bytes[j] <= 255 BY BytesFacts
<1>3. n <= WordOctets /\ bytes # <<>> BY DEF FitsWord
<1>4. \A j \in Nat : P(j) \in Nat /\ P(j + 1) = 256 * P(j) BY NextPowers, Zenon
<1>5. \A j \in Nat : 1 <= P(j)
  <2> HIDE DEF P
  <2>1. ASSUME NEW j \in Nat PROVE 1 <= P(j)
    <3>1. 256 \in Nat /\ 256 >= 1 /\ j <= j OBVIOUS
    <3> QED BY <3>1, PowersGrow DEF P
  <2> QED BY <2>1
<1>6. Signed(bytes, k) = U[k] - (IF Negative(bytes) THEN P(k) ELSE 0)
      /\ Signed(bytes, k - 1) = U[k - 1] - (IF Negative(bytes) THEN P(k - 1) ELSE 0)
  BY DEF Signed
<1> DEFINE m == k - 1
<1>7. m \in Nat /\ m + 1 = k /\ k \in 1 .. n /\ m \in 0 .. n /\ k \in 0 .. n BY <1>1
<1>8. n >= 1 /\ 1 \in 1 .. n BY <1>1, <1>7
<1>9. Negative(bytes) <=> bytes[1] >= 128 BY <1>3 DEF Negative
<1> HIDE DEF n, U, P, m
<1>10. P(k) = 256 * P(m) /\ P(m) \in Nat /\ 1 <= P(m) BY <1>4, <1>5, <1>7
<1>11. U[k] = 256 * U[m] + bytes[k] /\ U[k] \in Nat /\ U[m] \in Nat /\ bytes[k] \in Int
       /\ U[k] < P(k)
  BY <1>1, <1>2, <1>7 DEF m
<1> DEFINE y == Signed(bytes, k)
           x == Signed(bytes, m)
<1>12. y = 256 * x + bytes[k] /\ y \in Int /\ x \in Int
  <2> DEFINE u == U[k]
             w == U[m]
             p == P(m)
             q == P(k)
             b == bytes[k]
  <2>1. u = 256 * w + b /\ q = 256 * p /\ u \in Int /\ w \in Int /\ p \in Int /\ b \in Int
    BY <1>10, <1>11
  <2>2. y = u - (IF Negative(bytes) THEN q ELSE 0) /\ x = w - (IF Negative(bytes) THEN p ELSE 0)
    BY <1>6 DEF m
  <2> HIDE DEF y, x, u, w, p, q
  <2>3. CASE Negative(bytes) BY <2>1, <2>2, <2>3
  <2>4. CASE ~ Negative(bytes) BY <2>1, <2>2, <2>4
  <2> QED BY <2>3, <2>4
\* The first octet says on which side of half the number lies.
<1> DEFINE Side(j) == IF Negative(bytes) THEN 2 * U[j] >= P(j) ELSE 2 * U[j] < P(j)
           T == { j \in Nat : j >= 1 => Side(j) }
<1>13. 0 \in T OBVIOUS
<1>14. ASSUME NEW j \in 0 .. n - 1, j \in T PROVE j + 1 \in T
  <2>1. SUFFICES Side(j + 1) BY <1>1
  <2>2. j >= 1 => Side(j) BY <1>14
  <2> HIDE DEF T
  <2> DEFINE i == j + 1
             u == U[i]
             w == U[j]
             p == P(j)
             q == P(i)
             b == bytes[i]
  <2>3. i \in 1 .. n /\ i - 1 = j /\ j \in Nat /\ j \in 0 .. n BY <1>1
  <2>4. q = 256 * p /\ p \in Nat BY <1>4, <2>3, Zenon
  <2> HIDE DEF i
  <2>5. u = 256 * w + b /\ w \in Nat /\ b \in Int /\ 0 <= b /\ b <= 255 BY <1>1, <1>2, <2>3
  <2>6. CASE j = 0
    <3>1. i = 1 /\ w = 0 /\ p = 1 /\ b = bytes[1]
      <4>1. i = 1 BY <2>6 DEF i
      <4>2. p = 1 BY <2>6, PowerOf DEF P
      <4> QED BY <1>1, <2>6, <4>1, <4>2
    <3>2. u = b /\ q = 256
      <4> HIDE DEF u, w, p, q, b
      <4> QED BY <2>4, <2>5, <3>1
    <3>3. IF Negative(bytes) THEN 2 * u >= q ELSE 2 * u < q
      <4>1. Negative(bytes) <=> b >= 128 BY <1>9, <3>1
      <4> HIDE DEF u, q, b
      <4> QED BY <2>5, <3>2, <4>1
    <3> QED BY <3>3 DEF i
  <2>7. CASE j # 0
    <3>1. IF Negative(bytes) THEN 2 * w >= p ELSE 2 * w < p
      <4>1. j >= 1 BY <2>3, <2>7
      <4> QED BY <2>2, <4>1
    <3>2. IF Negative(bytes) THEN 2 * u >= q ELSE 2 * u < q
      <4> DEFINE h == 128 * P(j - 1)
      <4>3. h \in Nat /\ p = 2 * h
        <5> DEFINE a == j - 1
        <5>1. a \in Nat /\ a + 1 = j BY <2>3, <2>7
        <5> HIDE DEF a
        <5>2. P(a + 1) = 256 * P(a) /\ P(a) \in Nat BY <1>4, <5>1, Zenon
        <5> QED BY <5>1, <5>2 DEF a
      <4> HIDE DEF u, w, p, q, b, h
      <4>1. CASE Negative(bytes) BY <2>4, <2>5, <3>1, <4>1
      <4>2. CASE ~ Negative(bytes) BY <2>4, <2>5, <3>1, <4>2, <4>3
      <4> QED BY <4>1, <4>2
    <3> QED BY <3>2 DEF i
  <2> QED BY <2>6, <2>7
<1>15. Side(k)
  <2> HIDE DEF T, Side
  <2>1. \A j \in 0 .. n : j \in T BY <1>1, <1>13, <1>14, UpTo
  <2>2. k \in T /\ k >= 1 BY <1>7, <2>1
  <2> QED BY <2>2 DEF T
<1>16. InWord(Power(256, WordOctets), y) = y
  <2> DEFINE v == WordOctets - 1
             H == 128 * P(v)
  <2>1. v \in Nat /\ v + 1 = WordOctets /\ m <= v BY <1>1, <1>3, <1>7, WordAssumption
  <2>2. Power(256, WordOctets) = 256 * P(v) /\ P(v) \in Nat BY <1>4, <2>1 DEF P
  <2> HIDE DEF v
  <2>3. P(m) <= P(v)
    <3>1. 256 \in Nat /\ 256 >= 1 OBVIOUS
    <3> QED BY <1>7, <2>1, <3>1, PowersGrow DEF P
  <2>4. H \in Nat \ {0} /\ Power(256, WordOctets) = 2 * H /\ 128 * P(m) <= H
    BY <1>10, <2>2, <2>3
  <2> HIDE DEF H, T
  <2>5. - H <= y /\ y < H
    <3> DEFINE u == U[k]
               p == P(m)
               q == P(k)
    <3>1. q = 256 * p /\ p \in Nat /\ 1 <= p /\ u \in Nat /\ u < q BY <1>10, <1>11
    <3>2. y = u - (IF Negative(bytes) THEN q ELSE 0) BY <1>6
    <3>3. IF Negative(bytes) THEN 2 * u >= q ELSE 2 * u < q BY <1>15
    <3>4. H \in Nat /\ 128 * p <= H BY <2>4
    <3> HIDE DEF y, u, p, q, Side
    <3>5. CASE Negative(bytes) BY <3>1, <3>2, <3>3, <3>4, <3>5
    <3>6. CASE ~ Negative(bytes) BY <3>1, <3>2, <3>3, <3>4, <3>6
    <3> QED BY <3>5, <3>6
  <2>6. y \in Int BY <1>12
  <2> HIDE DEF y, Side
  <2>7. InWord(2 * H, y) = y BY <2>4, <2>5, <2>6, InWordOf
  <2> QED BY <2>4, <2>7
<1> QED BY <1>12, <1>16 DEF m

LEMMA IntegerToI64Of ==
  ASSUME NEW bytes \in Seq(Byte), FitsWord(bytes)
  PROVE  IntegerToI64(bytes) = Signed(bytes, Len(bytes))
<1> DEFINE n == Len(bytes)
           V == CHOOSE g : WordsTo(g, bytes)
           g == [k \in 0 .. n |-> Signed(bytes, k)]
           Word == Power(256, WordOctets)
<1>1. n \in Nat BY BytesFacts
<1>2. Signed(bytes, 0) = IF Negative(bytes) THEN -1 ELSE 0
  <2>1. Unsigned(bytes)[0] = 0 /\ Power(256, 0) = 1 BY UnsignedOf, PowerOf
  <2> QED BY <2>1 DEF Signed
<1>3. \A k \in 1 .. n :
        /\ Signed(bytes, k) = 256 * Signed(bytes, k - 1) + bytes[k]
        /\ InWord(Word, Signed(bytes, k)) = Signed(bytes, k)
  BY SignedFits
<1>4. IntegerToI64(bytes) = V[n] BY DEF IntegerToI64, WordsTo, InWord
<1>5. WordsTo(g, bytes)
  <2> DEFINE e(k) == IF k = 0 THEN IF Negative(bytes) THEN -1 ELSE 0
                     ELSE InWord(Word, 256 * g[k - 1] + bytes[k])
  <2> HIDE DEF n, Word
  <2>1. ASSUME NEW k \in 0 .. n PROVE Signed(bytes, k) = e(k)
    <3>1. CASE k = 0 BY <1>2, <3>1
    <3>2. CASE k # 0
      <4>1. k \in 1 .. n /\ k - 1 \in 0 .. n BY <1>1, <3>2
      <4>2. g[k - 1] = Signed(bytes, k - 1) BY <4>1
      <4> HIDE DEF g
      <4>3. Signed(bytes, k) = 256 * g[k - 1] + bytes[k]
            /\ InWord(Word, Signed(bytes, k)) = Signed(bytes, k)
        BY <1>3, <4>1, <4>2
      <4>4. InWord(Word, 256 * g[k - 1] + bytes[k]) = Signed(bytes, k) BY <4>3, Zenon
      <4> QED BY <3>2, <4>4
    <3> QED BY <3>1, <3>2
  <2> HIDE DEF e
  <2>2. g = [k \in 0 .. n |-> e(k)] BY <2>1
  <2> HIDE DEF g
  <2> QED BY <2>2 DEF e, WordsTo, n, Word
<1>6. WordsTo(V, bytes) BY <1>5
<1> HIDE DEF V, n, Word, g
<1>7. /\ V[0] = IF Negative(bytes) THEN -1 ELSE 0
      /\ \A k \in 1 .. n : V[k] = InWord(Word, 256 * V[k - 1] + bytes[k])
  <2>1. V = [k \in 0 .. n |->
         IF k = 0 THEN IF Negative(bytes) THEN -1 ELSE 0
         ELSE InWord(Word, 256 * V[k - 1] + bytes[k])]
    BY <1>6, Zenon DEF WordsTo, n, Word
  <2> QED BY <1>1, <2>1
<1> DEFINE T == { k \in Nat : V[k] = Signed(bytes, k) }
<1>8. 0 \in T BY <1>2, <1>7
<1>9. ASSUME NEW k \in 0 .. n - 1, k \in T PROVE k + 1 \in T
  <2> DEFINE j == k + 1
  <2>1. j \in 1 .. n /\ j - 1 = k /\ j \in Nat BY <1>1
  <2>2. V[k] = Signed(bytes, k) BY <1>9
  <2> HIDE DEF j, T
  <2>3. V[j] = InWord(Word, 256 * V[j - 1] + bytes[j]) BY <1>7, <2>1
  <2>4. Signed(bytes, j) = 256 * Signed(bytes, j - 1) + bytes[j]
        /\ InWord(Word, Signed(bytes, j)) = Signed(bytes, j)
    BY <1>3, <2>1
  <2>5. V[j - 1] = Signed(bytes, j - 1) BY <2>1, <2>2
  <2>6. V[j] = Signed(bytes, j) BY <2>3, <2>4, <2>5, Zenon
  <2> QED BY <2>1, <2>6 DEF j, T
<1>10. n \in T
  <2> HIDE DEF T
  <2>1. \A k \in 0 .. n : k \in T BY <1>1, <1>8, <1>9, UpTo
  <2> QED BY <1>1, <2>1
<1> QED BY <1>4, <1>10 DEF n

-----------------------------------------------------------------------------
(* Bit strings *)

\* What is left of an octet when all but its first k bits are cut off.
Leading(b, k) == b \div Power(2, 8 - k)

LEMMA LeadingOf ==
  ASSUME NEW b \in Byte
  PROVE  /\ \A k \in 0 .. 8 : Leading(b, k) \in Int
         /\ Leading(b, 0) = 0
         /\ \A k \in 1 .. 8 : Leading(b, k) = 2 * Leading(b, k - 1) + (Leading(b, k) % 2)
<1>1. b \in Int /\ 0 <= b /\ b <= 255 BY ByteIs
<1>2. \A k \in Nat : Power(2, k) \in Nat \ {0} /\ Power(2, k + 1) = 2 * Power(2, k)
  <2>1. ASSUME NEW k \in Nat PROVE Power(2, k) \in Nat \ {0} /\ Power(2, k + 1) = 2 * Power(2, k)
    <3>1. 2 \in Nat /\ 2 >= 1 /\ k <= k OBVIOUS
    <3>2. 1 <= Power(2, k) BY <3>1, PowersGrow
    <3>3. Power(2, k) \in Nat /\ Power(2, k + 1) = 2 * Power(2, k) BY <3>1, NextPower
    <3> QED BY <3>2, <3>3
  <2> QED BY <2>1
<1>3. ASSUME NEW k \in 0 .. 8 PROVE Leading(b, k) \in Int
  <2> DEFINE p == Power(2, 8 - k)
  <2>1. 8 - k \in Nat OBVIOUS
  <2>2. p \in Nat \ {0} BY <1>2, <2>1
  <2> HIDE DEF p
  <2>3. b \div p \in Int BY <1>1, <2>2, DividesInto
  <2> QED BY <2>3 DEF Leading, p
<1>4. Leading(b, 0) = 0
  <2>1. Power(2, 0) = 1 BY PowerOf
  <2>2. 0 + 1 = 1 /\ 1 + 1 = 2 /\ 2 + 1 = 3 /\ 3 + 1 = 4 /\ 4 + 1 = 5 /\ 5 + 1 = 6 /\ 6 + 1 = 7 /\ 7 + 1 = 8
    OBVIOUS
  <2>3. Power(2, 1) = 2 BY <1>2, <2>1, <2>2
  <2>4. Power(2, 2) = 4 BY <1>2, <2>2, <2>3
  <2>5. Power(2, 3) = 8 BY <1>2, <2>2, <2>4
  <2>6. Power(2, 4) = 16 BY <1>2, <2>2, <2>5
  <2>7. Power(2, 5) = 32 BY <1>2, <2>2, <2>6
  <2>8. Power(2, 6) = 64 BY <1>2, <2>2, <2>7
  <2>9. Power(2, 7) = 128 BY <1>2, <2>2, <2>8
  <2>10. Power(2, 8) = 256 BY <1>2, <2>2, <2>9
  <2>11. b \div 256 = 0 BY <1>1
  <2> QED BY <2>10, <2>11 DEF Leading
<1>5. ASSUME NEW k \in 1 .. 8 PROVE Leading(b, k) = 2 * Leading(b, k - 1) + (Leading(b, k) % 2)
  <2> DEFINE j == 8 - k
             p == Power(2, j)
             y == b \div p
  <2>1. j \in Nat /\ j + 1 = 8 - (k - 1) OBVIOUS
  <2> HIDE DEF j
  <2>2. p \in Nat \ {0} /\ Power(2, j + 1) = 2 * p BY <1>2, <2>1
  <2>3. Leading(b, k) = y /\ Leading(b, k - 1) = b \div Power(2, j + 1) BY <2>1 DEF Leading, j
  <2> HIDE DEF p
  <2>4. y \div 2 = b \div (2 * p) BY <1>1, <2>2, DivideTwice
  <2>5. y \in Int BY <1>1, <2>2, DividesInto
  <2> HIDE DEF y
  <2>6. y = 2 * (y \div 2) + (y % 2) BY <2>5
  <2>7. Leading(b, k - 1) = y \div 2 BY <2>2, <2>3, <2>4
  <2> QED BY <2>3, <2>6, <2>7
<1> QED BY <1>3, <1>4, <1>5

\* The k-th bit of the j-th octet that bits fill, with zeros after the last.
BitAt(bits, j, k) == IF 8 * (j - 1) + k <= Len(bits) THEN bits[8 * (j - 1) + k] ELSE 0

PacksTo(g, bits, j) ==
  g = [k \in 0 .. 8 |-> IF k = 0 THEN 0 ELSE 2 * g[k - 1] + BitAt(bits, j, k)]

PackedOctet(bits, j) == (CHOOSE g : PacksTo(g, bits, j))[8]

\* Of b, all but the last u bits are left.
LEMMA PackedOf ==
  ASSUME NEW b \in Byte, NEW u \in 0 .. 8, NEW bits, NEW j,
         \A k \in 1 .. 8 : BitAt(bits, j, k) = IF k <= 8 - u THEN Leading(b, k) % 2 ELSE 0
  PROVE  PackedOctet(bits, j) = (b \div Power(2, u)) * Power(2, u)
<1> DEFINE m == 8 - u
           V == CHOOSE g : PacksTo(g, bits, j)
           step == [p \in Int \X (1 .. 8) |-> 2 * p[1] + BitAt(bits, j, p[2])]
           F == [k \in 0 .. 8 |-> Leading(b, k)]
<1>1. m \in 0 .. 8 /\ m \in Nat /\ u \in Nat OBVIOUS
<1>2. /\ \A k \in 0 .. 8 : F[k] \in Int
      /\ F[0] = 0
      /\ \A k \in 1 .. 8 : F[k] = 2 * F[k - 1] + (F[k] % 2)
  <2>1. /\ \A k \in 0 .. 8 : Leading(b, k) \in Int
        /\ Leading(b, 0) = 0
        /\ \A k \in 1 .. 8 : Leading(b, k) = 2 * Leading(b, k - 1) + (Leading(b, k) % 2)
    BY LeadingOf
  <2>2. \A k \in 0 .. 8 : F[k] = Leading(b, k) OBVIOUS
  <2>3. \A k \in 1 .. 8 : k \in 0 .. 8 /\ k - 1 \in 0 .. 8 OBVIOUS
  <2> HIDE DEF F
  <2> QED BY <2>1, <2>2, <2>3
<1>3. \A k \in 1 .. 8 : BitAt(bits, j, k) = IF k <= m THEN F[k] % 2 ELSE 0 OBVIOUS
<1>4. \A k \in 1 .. 8 : BitAt(bits, j, k) \in Int
  <2>1. \A x \in Int : x % 2 \in Int OBVIOUS
  <2>2. \A k \in 1 .. 8 : k \in 0 .. 8 OBVIOUS
  <2> HIDE DEF F, m
  <2> QED BY <1>2, <1>3, <2>1, <2>2
<1>5. F[m] = b \div Power(2, u)
  <2>1. 8 - m = u /\ F[m] = Leading(b, m) OBVIOUS
  <2> HIDE DEF F, m
  <2> QED BY <2>1 DEF Leading
<1> HIDE DEF F, m
<1>6. step \in [Int \X (1 .. 8) -> Int]
  <2>1. ASSUME NEW x \in Int, NEW k \in 1 .. 8 PROVE 2 * x + BitAt(bits, j, k) \in Int BY <1>4
  <2> QED BY <2>1
<1>10. \A x \in Int, k \in 1 .. 8 : step[<<x, k>>] = 2 * x + BitAt(bits, j, k) OBVIOUS
<1> HIDE DEF step
<1>7. PICK g \in [0 .. 8 -> Int] : Follows(g, 8, 0, step)
  <2> DEFINE n == 8
  <2>1. n \in Nat /\ 0 \in Int /\ step \in [Int \X (1 .. n) -> Int] BY <1>6
  <2> HIDE DEF n
  <2>2. \E g \in [0 .. n -> Int] : Follows(g, n, 0, step) BY <2>1, Defined
  <2> QED BY <2>2 DEF n
<1>8. PacksTo(g, bits, j)
  <2> DEFINE e(k) == IF k = 0 THEN 0 ELSE step[<<g[k - 1], k>>]
             f(k) == IF k = 0 THEN 0 ELSE 2 * g[k - 1] + BitAt(bits, j, k)
  <2>1. \A k \in 0 .. 8 : e(k) = f(k)
    <3>1. ASSUME NEW k \in 1 .. 8 PROVE step[<<g[k - 1], k>>] = 2 * g[k - 1] + BitAt(bits, j, k)
      <4>1. g[k - 1] \in Int OBVIOUS
      <4> QED BY <1>10, <4>1
    <3>2. \A k \in 0 .. 8 : k = 0 \/ k \in 1 .. 8 OBVIOUS
    <3> QED BY <3>1, <3>2
  <2>2. g = [k \in 0 .. 8 |-> e(k)] BY <1>7, Zenon DEF Follows
  <2> HIDE DEF e, f
  <2>3. g = [k \in 0 .. 8 |-> f(k)] BY <2>1, <2>2
  <2> QED BY <2>3 DEF f, PacksTo
<1>9. PacksTo(V, bits, j) BY <1>8
<1> HIDE DEF V
<1>11. V[0] = 0 /\ \A k \in 1 .. 8 : V[k] = 2 * V[k - 1] + BitAt(bits, j, k)
  <2>1. V = [k \in 0 .. 8 |-> IF k = 0 THEN 0 ELSE 2 * V[k - 1] + BitAt(bits, j, k)]
    BY <1>9, Zenon DEF PacksTo
  <2> QED BY <2>1
<1>12. V[m] = F[m]
  <2>1. ASSUME NEW k \in 1 .. m, V[k - 1] = F[k - 1] PROVE V[k] = F[k]
    <3>1. k \in 1 .. 8 /\ k <= m BY <1>1
    <3>2. V[k] = 2 * V[k - 1] + (F[k] % 2) BY <1>3, <1>11, <3>1
    <3>3. F[k] = 2 * F[k - 1] + (F[k] % 2) BY <1>2, <3>1
    <3> QED BY <2>1, <3>2, <3>3
  <2>2. V[0] = F[0] BY <1>2, <1>11
  <2>3. GoAlike(V, F, m) BY <2>1, <2>2 DEF GoAlike
  <2>4. AreSame(V, F, m) BY <1>1, <2>3, StaySame
  <2> QED BY <1>1, <2>4 DEF AreSame
<1> DEFINE a == F[m]
           T == { i \in Nat : V[m + i] = a * Power(2, i) }
<1>13. a \in Int BY <1>1, <1>2
<1>14. 0 \in T
  <2>1. Power(2, 0) = 1 BY PowerOf
  <2>2. m + 0 = m /\ a * 1 = a BY <1>1, <1>13
  <2> HIDE DEF a
  <2>3. V[m + 0] = a * Power(2, 0) BY <1>12, <2>1, <2>2 DEF a
  <2> QED BY <2>3
<1>15. ASSUME NEW i \in 0 .. u - 1, i \in T PROVE i + 1 \in T
  <2> DEFINE k == m + (i + 1)
             p == Power(2, i)
  <2>1. k \in 1 .. 8 /\ ~ (k <= m) /\ k - 1 = m + i /\ i \in Nat BY <1>1 DEF m
  <2>2. V[m + i] = a * p BY <1>15
  <2>3. p \in Nat /\ Power(2, i + 1) = 2 * p
    <3>1. 2 \in Nat OBVIOUS
    <3> QED BY <2>1, <3>1, NextPower
  <2> HIDE DEF T, k, a, p
  <2>4. V[k] = 2 * V[k - 1] + 0 BY <1>3, <1>11, <2>1
  <2>5. V[k] = 2 * (a * p)
    <3> DEFINE x == a * p
    <3>1. x \in Int BY <1>13, <2>3
    <3> HIDE DEF x
    <3>2. V[k - 1] = x BY <2>1, <2>2 DEF x
    <3> QED BY <2>4, <3>1, <3>2 DEF x
  <2>6. 2 * (a * p) = a * (2 * p) BY <1>13, <2>3
  <2> QED BY <2>1, <2>3, <2>5, <2>6 DEF T, k, p
<1>16. u \in T
  <2> HIDE DEF T
  <2>1. \A i \in 0 .. u : i \in T BY <1>1, <1>14, <1>15, UpTo
  <2> QED BY <1>1, <2>1
<1>17. m + u = 8 BY DEF m
<1>18. V[8] = a * Power(2, u) BY <1>16, <1>17
<1> QED BY <1>5, <1>18 DEF PackedOctet, V

LEMMA BitsPack ==
  ASSUME NEW bytes \in Seq(Byte), IsBitString(bytes), TotalBits(bytes) >= 0
  PROVE  LET n == Len(bytes) - 1
             u == bytes[1]
         IN /\ n \in Nat /\ u \in 0 .. 7 /\ (n = 0 => u = 0)
            /\ Len(Bits(bytes)) = 8 * n - u
            /\ \A j \in 1 .. n :
                 PackedOctet(Bits(bytes), j) =
                   IF j < n THEN bytes[j + 1]
                   ELSE (bytes[j + 1] \div Power(2, u)) * Power(2, u)
<1> DEFINE n == Len(bytes) - 1
           u == bytes[1]
           B == Bits(bytes)
           t == TotalBits(bytes)
<1>1. Len(bytes) \in Nat /\ \A k \in 1 .. Len(bytes) : bytes[k] \in Byte BY BytesFacts
<1>2. n \in Nat /\ u \in Byte /\ u <= 7
  <2>1. bytes # <<>> /\ bytes[1] <= 7 BY DEF IsBitString
  <2>2. Len(bytes) >= 1 BY <2>1
  <2> QED BY <1>1, <2>1, <2>2
<1>3. u \in 0 .. 7 BY <1>2, ByteIs
<1>4. t = 8 * n - u /\ t >= 0 BY DEF TotalBits
<1>5. t \in Nat
  <2> HIDE DEF t, n, u
  <2> QED BY <1>2, <1>3, <1>4
<1> DEFINE bit(i) == (bytes[2 + (i \div 8)] \div Power(2, 7 - (i % 8))) % 2
<1>6. B = [x \in 1 .. t |-> bit(x - 1)] BY DEF Bits
<1>7. Len(B) = t /\ \A x \in 1 .. t : B[x] = bit(x - 1)
  <2> HIDE DEF t, B, bit
  <2> QED BY <1>5, <1>6
<1> HIDE DEF n, u, B, t, bit
<1>8. ASSUME NEW j \in 1 .. n, NEW k \in 1 .. 8
      PROVE  BitAt(B, j, k) =
               IF j < n \/ k <= 8 - u THEN Leading(bytes[j + 1], k) % 2 ELSE 0
  <2> DEFINE x == 8 * (j - 1) + k
  <2>1. x \in Nat /\ x >= 1 OBVIOUS
  <2>2. x <= t <=> j < n \/ k <= 8 - u BY <1>2, <1>3, <1>4
  <2>3. (x - 1) \div 8 = j - 1 /\ (x - 1) % 8 = k - 1
    <3> DEFINE q == j - 1
               r == k - 1
    <3>1. q \in Int /\ r \in 0 .. 8 - 1 /\ x - 1 = 8 * q + r /\ 8 \in Nat \ {0} BY <1>2
    <3> HIDE DEF q, r, x
    <3>2. (8 * q + r) \div 8 = q /\ (8 * q + r) % 8 = r BY <3>1, Division
    <3> QED BY <3>1, <3>2 DEF q, r
  <2>4. 2 + (j - 1) = j + 1 /\ 7 - (k - 1) = 8 - k BY <1>2
  <2>5. bit(x - 1) = Leading(bytes[j + 1], k) % 2
    <3> HIDE DEF x
    <3>1. bit(x - 1) = (bytes[2 + (j - 1)] \div Power(2, 7 - (k - 1))) % 2
      BY <2>3, Zenon DEF bit
    <3> QED BY <2>4, <3>1, Zenon DEF Leading
  <2> HIDE DEF x
  <2>6. CASE x <= t
    <3>1. B[x] = bit(x - 1) BY <1>5, <1>7, <2>1, <2>6
    <3> QED BY <1>7, <2>2, <2>5, <2>6, <3>1, Zenon DEF BitAt, x
  <2>7. CASE ~ (x <= t) BY <1>7, <2>2, <2>7, Zenon DEF BitAt, x
  <2> QED BY <2>6, <2>7
<1>9. ASSUME NEW j \in 1 .. n
      PROVE  PackedOctet(B, j) =
               IF j < n THEN bytes[j + 1] ELSE (bytes[j + 1] \div Power(2, u)) * Power(2, u)
  <2> DEFINE b == bytes[j + 1]
  <2>1. b \in Byte
    <3>1. j + 1 \in 1 .. Len(bytes) BY <1>1, <1>2 DEF n
    <3> QED BY <1>1, <3>1
  <2>2. CASE j < n
    <3>1. \A k \in 1 .. 8 : BitAt(B, j, k) = IF k <= 8 - 0 THEN Leading(b, k) % 2 ELSE 0
      <4>1. \A k \in 1 .. 8 : k <= 8 - 0 OBVIOUS
      <4>2. \A k \in 1 .. 8 : BitAt(B, j, k) = Leading(b, k) % 2 BY <1>8, <2>2
      <4> HIDE DEF b
      <4> QED BY <4>1, <4>2
    <3>2. 0 \in 0 .. 8 OBVIOUS
    <3> HIDE DEF b
    <3>3. PackedOctet(B, j) = (b \div Power(2, 0)) * Power(2, 0) BY <2>1, <3>1, <3>2, PackedOf
    <3>4. Power(2, 0) = 1 BY PowerOf
    <3>5. b \in Int BY <2>1, ByteIs
    <3>6. (b \div 1) * 1 = b BY <3>5
    <3>7. PackedOctet(B, j) = b BY <3>3, <3>4, <3>6
    <3> QED BY <2>2, <3>7 DEF b
  <2>3. CASE ~ (j < n)
    <3>1. \A k \in 1 .. 8 : BitAt(B, j, k) = IF k <= 8 - u THEN Leading(b, k) % 2 ELSE 0
      BY <1>8, <2>3
    <3>2. u \in 0 .. 8 BY <1>3
    <3> HIDE DEF b
    <3>3. PackedOctet(B, j) = (b \div Power(2, u)) * Power(2, u) BY <2>1, <3>1, <3>2, PackedOf
    <3> QED BY <2>3, <3>3 DEF b
  <2> QED BY <2>2, <2>3
<1>10. n = 0 => u = 0 BY <1>3, <1>4
<1> QED BY <1>2, <1>3, <1>4, <1>7, <1>9, <1>10 DEF n, u, B

=============================================================================
