--------------------------- MODULE CivilTimeProofs ---------------------------
(***************************************************************************)
(* Proofs about CivilTime: for every text and every division of the day,   *)
(* the microseconds are those of the day and time the text names, the ISO  *)
(* text names the same instant, and the calendar algorithms are inverses.  *)
(***************************************************************************)
EXTENDS CivilTime, Induction

-----------------------------------------------------------------------------
(* The calendar *)

\* Hinnant's correction makes the division in Rust round down.
LEMMA EraRoundsDown ==
  ASSUME NEW n \in Int
  PROVE  Era(n, 400) = n \div 400 /\ Era(n, DaysPerEra) = n \div DaysPerEra
BY SMT DEF Era, Quotient, DaysPerEra

\* The days before a month, counted from the first of March and the first of January.
MarchMonth(m) == IF m > 2 THEN m - 3 ELSE m + 9
MonthStart(m, leap) ==
  IF m > 2 THEN DaysOfMonths(MarchMonth(m)) + 59 + leap ELSE DaysOfMonths(MarchMonth(m)) - 306

LeapDay(y) == IF IsLeap(y) THEN 1 ELSE 0

LEMMA MonthStarts ==
  ASSUME NEW y \in Int, NEW m \in 1 .. 12
  PROVE  DaysBeforeMonth(y, m) = MonthStart(m, LeapDay(y))
<1> DEFINE Is(g) == g = [k \in 1 .. m |-> IF k = 1 THEN 0 ELSE g[k - 1] + MonthLength(y, k - 1)]
           B == CHOOSE g : Is(g)
           t == [k \in 1 .. m |-> MonthStart(k, LeapDay(y))]
<1>1. DaysBeforeMonth(y, m) = B[m] BY DEF DaysBeforeMonth
<1>2. ASSUME NEW k \in 2 .. 12
      PROVE  MonthStart(k, LeapDay(y)) = MonthStart(k - 1, LeapDay(y)) + MonthLength(y, k - 1)
  <2>1. CASE k = 2 BY <2>1, SMT DEF MonthStart, MarchMonth, DaysOfMonths, MonthLength, LeapDay
  <2>2. CASE k = 3 BY <2>2, SMT DEF MonthStart, MarchMonth, DaysOfMonths, MonthLength, LeapDay
  <2>3. CASE k > 3
    <3>1. (153 * (k - 3) + 2) \div 5 =
            ((153 * (k - 4) + 2) \div 5) + (IF k - 1 \in {4, 6, 9, 11} THEN 30 ELSE 31)
      BY <2>3, SMT
    <3> QED BY <2>3, <3>1, SMT DEF MonthStart, MarchMonth, DaysOfMonths, MonthLength, LeapDay
  <2> QED BY <2>1, <2>2, <2>3
<1>3. MonthStart(1, LeapDay(y)) = 0 BY SMT DEF MonthStart, MarchMonth, DaysOfMonths
<1>4. ASSUME NEW k \in 1 .. m
      PROVE  t[k] = IF k = 1 THEN 0 ELSE t[k - 1] + MonthLength(y, k - 1)
  BY <1>2, <1>3
<1>5. Is(t)
  <2> HIDE DEF t
  <2>1. t = [k \in 1 .. m |-> t[k]] BY DEF t
  <2> QED BY <1>4, <2>1
<1>6. Is(B)
  <2> HIDE DEF Is
  <2> QED BY <1>5
<1>7. ASSUME NEW k \in 1 .. 12 PROVE k <= m => B[k] = MonthStart(k, LeapDay(y))
  <2> DEFINE T == { j \in Nat : j < m => B[j + 1] = MonthStart(j + 1, LeapDay(y)) }
  <2> HIDE DEF B
  <2>1. 0 \in T BY <1>3, <1>6
  <2>2. ASSUME NEW j \in Nat, j \in T PROVE j + 1 \in T
    <3> SUFFICES ASSUME j + 1 < m PROVE B[j + 2] = MonthStart(j + 2, LeapDay(y)) OBVIOUS
    <3>1. B[j + 2] = B[j + 1] + MonthLength(y, j + 1) BY <1>6
    <3>2. j + 2 \in 2 .. 12 OBVIOUS
    <3> QED BY <1>2, <2>2, <3>1, <3>2
  <2> HIDE DEF T
  <2>3. k - 1 \in T BY <2>1, <2>2, NatInduct
  <2> QED BY <2>3 DEF T
<1> QED BY <1>1, <1>7

\* The days before a year that begins in March, by its era and its place in it.
LEMMA YearsInEras ==
  ASSUME NEW y \in Int, NEW era \in Int, NEW yoe \in Nat, yoe <= 399, y = 400 * era + yoe
  PROVE  DaysBeforeYear(y + 1) = 366 + DaysPerEra * era + DaysOfYears(yoe)
<1>1. (y + 4) \div 4 = 100 * era + (yoe \div 4) + 1 BY SMT
<1>2. (y + 100) \div 100 = 4 * era + (yoe \div 100) + 1 BY SMT
<1>3. (y + 400) \div 400 = era + 1 BY SMT
<1> QED BY <1>1, <1>2, <1>3, SMT DEF DaysBeforeYear, Multiples, DaysOfYears, DaysPerEra

LEMMA YearLength ==
  ASSUME NEW y \in Int
  PROVE  DaysBeforeYear(y + 1) = DaysBeforeYear(y) + 365 + LeapDay(y)
<1>1. (y + 4) \div 4 = ((y + 3) \div 4) + (IF y % 4 = 0 THEN 1 ELSE 0) BY SMT
<1>2. (y + 100) \div 100 = ((y + 99) \div 100) + (IF y % 100 = 0 THEN 1 ELSE 0) BY SMT
<1>3. (y + 400) \div 400 = ((y + 399) \div 400) + (IF y % 400 = 0 THEN 1 ELSE 0) BY SMT
<1>4. (y % 400 = 0 => y % 100 = 0) /\ (y % 100 = 0 => y % 4 = 0) BY SMT
<1> QED BY <1>1, <1>2, <1>3, <1>4, SMT DEF DaysBeforeYear, Multiples, LeapDay, IsLeap

LEMMA Counts ==
  /\ \A y \in Int : DaysBeforeYear(y) \in Int /\ LeapDay(y) \in {0, 1}
  /\ \A n \in Int : DaysOfYears(n) \in Int /\ DaysOfMonths(n) \in Int
  /\ \A m \in Int : MarchMonth(m) \in Int
  /\ DaysPerEra \in Nat \ {0} /\ EpochDay \in Nat
  /\ EpochDay + 60 = DaysBeforeYear(1970)
BY SMT DEF DaysBeforeYear, Multiples, LeapDay, DaysOfYears, DaysOfMonths, MarchMonth, DaysPerEra, EpochDay

\* The count of days over eras is the count over years and months.
LEMMA DaysAreCounted ==
  ASSUME NEW y \in Int, NEW m \in 1 .. 12, NEW d \in Int
  PROVE  DaysFromCivil(y, m, d) = DayNumber(y, m, d) /\ DaysFromCivil(y, m, d) \in Int
<1> DEFINE year == IF m <= 2 THEN y - 1 ELSE y
           era == year \div 400
           yoe == year - 400 * era
           march == DaysOfMonths(MarchMonth(m))
<1>1. year \in Int /\ era \in Int /\ yoe \in Nat /\ yoe <= 399 /\ year = 400 * era + yoe BY SMT
<1> HIDE DEF era, yoe
<1>2. DaysFromCivil(y, m, d) = DaysPerEra * era + (DaysOfYears(yoe) + march + d - 1) - EpochDay
  <2>1. Era(year, 400) = era
    <3> HIDE DEF year
    <3> QED BY <1>1, EraRoundsDown, ZenonT(30) DEF era
  <2> QED BY <2>1, SMT DEF DaysFromCivil, MarchMonth, yoe
<1>3. DaysBeforeYear(year + 1) = 366 + DaysPerEra * era + DaysOfYears(yoe)
  <2> HIDE DEF year
  <2> QED BY <1>1, YearsInEras
<1>4. DaysBeforeMonth(y, m) = IF m > 2 THEN march + 59 + LeapDay(y) ELSE march - 306
  BY MonthStarts, Zenon DEF MonthStart
<1>5. DaysBeforeYear(year + 1) =
        IF m > 2 THEN DaysBeforeYear(y) + 365 + LeapDay(y) ELSE DaysBeforeYear(y)
  BY YearLength, SMT
<1>6. /\ march \in Int /\ DaysOfYears(yoe) \in Int /\ DaysBeforeYear(y) \in Int
      /\ LeapDay(y) \in Int /\ DaysPerEra * era \in Int /\ EpochDay \in Int
      /\ DaysBeforeYear(1970) = EpochDay + 60
  BY <1>1, Counts
<1> DEFINE eras == DaysPerEra * era
<1> HIDE DEF year, march, eras
<1>7. DaysFromCivil(y, m, d) = DaysBeforeYear(year + 1) - 366 + march + d - 1 - EpochDay
  BY <1>2, <1>3, <1>6 DEF eras
<1>8. DaysBeforeYear(year + 1) + march = DaysBeforeYear(y) + DaysBeforeMonth(y, m) + 306
      /\ DaysBeforeMonth(y, m) \in Int /\ DaysBeforeYear(year + 1) \in Int
  <2>1. CASE m > 2 BY <1>4, <1>5, <1>6, <2>1
  <2>2. CASE ~ (m > 2) BY <1>4, <1>5, <1>6, <2>2
  <2> QED BY <2>1, <2>2
<1> QED BY <1>6, <1>7, <1>8 DEF DayNumber

-----------------------------------------------------------------------------
(* The calendar backwards *)

\* A day of an era lies in one of its years, at a day of that year.
LEMMA DayOfEra ==
  ASSUME NEW doe \in Nat, doe < DaysPerEra, NEW yoe, yoe = YearOfEra(doe),
         NEW doy, doy = doe - DaysOfYears(yoe)
  PROVE  /\ yoe \in Nat /\ yoe <= 399
         /\ doy \in Nat /\ doy <= 365
         /\ doy = 365 => IsLeap(yoe + 1)
<1> USE DEF DaysPerEra, YearOfEra, DaysOfYears
<1>1. yoe \in Nat /\ yoe <= 399 BY SMT
<1>2. doy >= 0 BY SMT
<1>3. doy <= 365 BY SMT
<1>4. doy = 365 => IsLeap(yoe + 1) BY SMT DEF IsLeap
<1> QED BY <1>1, <1>2, <1>3, <1>4, SMT

\* A day of a year that begins in March lies in a month.
LEMMA MonthOfYear ==
  ASSUME NEW doy \in Nat, doy <= 365, NEW mp, mp = (5 * doy + 2) \div 153, NEW leap \in {0, 1},
         doy = 365 => leap = 1,
         NEW month, month = IF mp < 10 THEN mp + 3 ELSE mp - 9
  PROVE  /\ month \in 1 .. 12 /\ mp = MarchMonth(month) /\ mp \in Int
         /\ doy - DaysOfMonths(mp) + 1 \in
              1 .. (IF month = 2 THEN 28 + leap ELSE IF month \in {4, 6, 9, 11} THEN 30 ELSE 31)
<1> USE DEF DaysOfMonths
<1>1. mp \in 0 .. 11 BY SMT
<1>2. month \in 1 .. 12 /\ mp = MarchMonth(month) BY <1>1, SMT DEF MarchMonth
<1>3. doy - DaysOfMonths(mp) + 1 >= 1 BY <1>1, SMT
<1>4. doy - DaysOfMonths(mp) + 1 <=
        (IF month = 2 THEN 28 + leap ELSE IF month \in {4, 6, 9, 11} THEN 30 ELSE 31)
  BY <1>1, SMT
<1> QED BY <1>1, <1>2, <1>3, <1>4, SMT

\* CivilFromDays names a date of the calendar, and it is the date of that day.
LEMMA CivilOfDay ==
  ASSUME NEW days \in Int, NEW date, date = CivilFromDays(days)
  PROVE  /\ date.year \in Int
         /\ date.month \in 1 .. 12
         /\ date.day \in 1 .. MonthLength(date.year, date.month)
         /\ DaysFromCivil(date.year, date.month, date.day) = days
<1> DEFINE z == days + EpochDay
           era == z \div DaysPerEra
           doe == z - DaysPerEra * era
           yoe == YearOfEra(doe)
           doy == doe - DaysOfYears(yoe)
           mp == (5 * doy + 2) \div 153
           month == IF mp < 10 THEN mp + 3 ELSE mp - 9
           march == DaysOfMonths(mp)
           year == yoe + 400 * era
           leap == LeapDay(year + 1)
<1>1. z \in Int BY Counts
<1> HIDE DEF z
<1>2. era \in Int /\ doe \in Nat /\ doe < DaysPerEra /\ z = DaysPerEra * era + doe
  BY <1>1, SMT DEF DaysPerEra
<1>3. date = [year |-> year + (IF month <= 2 THEN 1 ELSE 0), month |-> month, day |-> doy - march + 1]
  <2>1. Era(z, DaysPerEra) = era BY <1>1, EraRoundsDown
  <2> QED BY <2>1, ZenonT(30) DEF CivilFromDays, z
<1> HIDE DEF era, doe
<1>4. yoe \in Nat /\ yoe <= 399 /\ doy \in Nat /\ doy <= 365 /\ (doy = 365 => IsLeap(yoe + 1))
  <2> HIDE DEF yoe
  <2> QED BY <1>2, DayOfEra DEF yoe
<1> HIDE DEF yoe, doy
<1>5. year \in Int /\ year \div 400 = era /\ year = 400 * era + yoe BY <1>2, <1>4, SMT
<1>6. leap \in {0, 1} /\ (doy = 365 => leap = 1)
  <2>1. IsLeap(yoe + 1) <=> IsLeap(year + 1) BY <1>2, <1>4, SMT DEF IsLeap
  <2> QED BY <1>4, <2>1 DEF LeapDay
<1> HIDE DEF year
<1>7. /\ month \in 1 .. 12 /\ mp = MarchMonth(month) /\ mp \in Int
      /\ doy - march + 1 \in
           1 .. (IF month = 2 THEN 28 + leap ELSE IF month \in {4, 6, 9, 11} THEN 30 ELSE 31)
  <2> HIDE DEF leap
  <2> QED BY <1>4, <1>6, MonthOfYear
<1> HIDE DEF mp, month, march
<1>8. /\ date.year = year + (IF month <= 2 THEN 1 ELSE 0)
      /\ date.month = month /\ date.day = doy - march + 1
  BY <1>3
<1>9. date.year \in Int BY <1>5, <1>7, <1>8
<1>10. date.day \in 1 .. MonthLength(date.year, date.month)
  <2>1. month = 2 => date.year = year + 1 BY <1>5, <1>7, <1>8
  <2>2. leap = IF IsLeap(year + 1) THEN 1 ELSE 0 BY DEF LeapDay
  <2> HIDE DEF leap
  <2>3. MonthLength(date.year, date.month) =
          IF month = 2 THEN 28 + leap ELSE IF month \in {4, 6, 9, 11} THEN 30 ELSE 31
    BY <1>8, <2>1, <2>2 DEF MonthLength
  <2> QED BY <1>7, <1>8, <2>3
<1>11. DaysFromCivil(date.year, date.month, date.day) = days
  <2> DEFINE y0 == IF date.month <= 2 THEN date.year - 1 ELSE date.year
  <2>1. y0 = year BY <1>5, <1>7, <1>8
  <2>2. Era(year, 400) = era BY <1>5, EraRoundsDown
  <2>3. year - 400 * era = yoe BY <1>2, <1>4, <1>5
  <2>4. DaysFromCivil(date.year, date.month, date.day) =
          DaysPerEra * era + (DaysOfYears(yoe) + march + date.day - 1) - EpochDay
    <3>1. DaysOfMonths(IF date.month > 2 THEN date.month - 3 ELSE date.month + 9) = march
      BY <1>7, <1>8, Zenon DEF MarchMonth, march
    <3> QED BY <2>1, <2>2, <2>3, <3>1, SMT DEF DaysFromCivil
  <2> DEFINE eras == DaysPerEra * era
  <2>5. march \in Int /\ DaysOfYears(yoe) \in Int /\ EpochDay \in Int /\ eras \in Int
    BY <1>2, <1>4, <1>7, Counts DEF march
  <2>6. doy = doe - DaysOfYears(yoe) /\ z = days + EpochDay /\ z = eras + doe BY <1>2 DEF doy, z
  <2> HIDE DEF eras
  <2>7. DaysFromCivil(date.year, date.month, date.day) =
          eras + (DaysOfYears(yoe) + march + date.day - 1) - EpochDay
    BY <2>4 DEF eras
  <2> QED BY <1>1, <1>2, <1>4, <1>8, <2>5, <2>6, <2>7
<1> QED BY <1>7, <1>8, <1>9, <1>10, <1>11

-----------------------------------------------------------------------------
(* The clock *)

\* A count of seconds in a day, as hours, minutes and seconds.
LEMMA Clock ==
  ASSUME NEW rem \in Int
  PROVE  SecondsPerMinute * (MinutesPerHour * (rem \div (MinutesPerHour * SecondsPerMinute))
                               + ((rem \div SecondsPerMinute) % MinutesPerHour))
           + (rem % SecondsPerMinute) = rem
<1> DEFINE q == rem \div SecondsPerMinute
<1>1. q \in Int /\ rem = SecondsPerMinute * q + (rem % SecondsPerMinute)
  BY TimeAssumption, DividesInto
<1>2. q \div MinutesPerHour = rem \div (MinutesPerHour * SecondsPerMinute)
  BY TimeAssumption, DivideTwice
<1>3. q = MinutesPerHour * (q \div MinutesPerHour) + (q % MinutesPerHour)
  <2> HIDE DEF q
  <2> QED BY <1>1, TimeAssumption, DividesInto
<1> HIDE DEF q
<1>4. rem = SecondsPerMinute * (MinutesPerHour * (q \div MinutesPerHour) + (q % MinutesPerHour))
              + (rem % SecondsPerMinute)
  BY <1>1, <1>3, Zenon
<1> QED BY <1>2, <1>4, Zenon DEF q

-----------------------------------------------------------------------------
(* The fraction of a second *)

LEMMA OneMoreDigit ==
  ASSUME NEW p \in Nat, NEW v \in 0 .. p - 1, NEW d \in 0 .. 9
  PROVE  10 * v + d \in 0 .. (10 * p) - 1
OBVIOUS

LEMMA ShiftedDigit ==
  ASSUME NEW p \in Nat, NEW v \in Nat, NEW d \in Nat
  PROVE  (10 * v + d) * p = v * (10 * p) + p * d
OBVIOUS

LEMMA Powers ==
  /\ TenTo(0) = 1
  /\ \A k \in Nat : k + 1 <= FractionDigits => TenTo(k + 1) = 10 * TenTo(k)
  /\ \A k \in 0 .. FractionDigits : TenTo(k) \in Nat \ {0}
<1> DEFINE IsP(g) == g = [k \in 0 .. FractionDigits |-> IF k = 0 THEN 1 ELSE 10 * g[k - 1]]
           P == CHOOSE g : IsP(g)
<1>1. \A n : TenTo(n) = P[n] BY DEF TenTo
<1>2. IsP(P)
  <2> DEFINE step == [p \in Nat \X (1 .. FractionDigits) |-> 10 * p[1]]
  <2>1. step \in [Nat \X (1 .. FractionDigits) -> Nat] OBVIOUS
  <2>2. PICK g \in [0 .. FractionDigits -> Nat] :
          g[0] = 1 /\ \A k \in 1 .. FractionDigits : g[k] = step[<<g[k - 1], k>>]
    <3> HIDE DEF step
    <3>1. Recursion(FractionDigits, Nat, 1, step) BY <2>1, NatRecursion, TimeAssumption
    <3> QED BY <3>1 DEF Recursion
  <2>3. ASSUME NEW k \in 1 .. FractionDigits PROVE g[k] = 10 * g[k - 1]
    <3>1. g[k - 1] \in Nat BY TimeAssumption
    <3> QED BY <2>2, <3>1
  <2>4. IsP(g) BY <2>2, <2>3
  <2> HIDE DEF IsP
  <2> QED BY <2>4
<1> HIDE DEF P
<1>3. P[0] = 1 /\ \A k \in Nat : k + 1 <= FractionDigits => P[k + 1] = 10 * P[k]
  BY <1>2, TimeAssumption
<1>4. \A k \in 0 .. FractionDigits : P[k] \in Nat \ {0}
  <2> DEFINE T == { k \in Nat : k <= FractionDigits => P[k] \in Nat \ {0} }
  <2>1. 0 \in T BY <1>3
  <2>2. ASSUME NEW k \in Nat, k \in T PROVE k + 1 \in T
    <3> SUFFICES ASSUME k + 1 <= FractionDigits PROVE P[k + 1] \in Nat \ {0} OBVIOUS
    <3>1. P[k] \in Nat \ {0} BY <2>2, TimeAssumption
    <3>2. P[k + 1] = 10 * P[k] BY <1>3
    <3> QED BY <3>1, <3>2
  <2>3. \A k \in Nat : k \in T
    <3> HIDE DEF T
    <3> QED BY <2>1, <2>2, NatInduct
  <2> QED BY <2>3
<1> QED BY <1>1, <1>3, <1>4

\* A fraction of a second is less than a second, and reading its digits one
\* behind the other gives the sum of what each of them stands for.
LEMMA Fractions ==
  /\ MicrosPerSecond \in Nat \ {0}
  /\ \A fraction \in Seq(0 .. 9) :
       Micros(fraction) \in 0 .. MicrosPerSecond - 1 /\ Micros(fraction) = MicrosOf(fraction)
<1>1. MicrosPerSecond = TenTo(FractionDigits) BY DEF MicrosPerSecond
<1>2. ASSUME NEW fraction \in Seq(0 .. 9)
      PROVE  Micros(fraction) \in 0 .. MicrosPerSecond - 1 /\ Micros(fraction) = MicrosOf(fraction)
  <2> DEFINE digit == [k \in 1 .. FractionDigits |-> IF k <= Len(fraction) THEN fraction[k] ELSE 0]
             IsV(g) == g = [k \in 0 .. FractionDigits |->
                              IF k = 0 THEN 0
                              ELSE 10 * g[k - 1] + (IF k <= Len(fraction) THEN fraction[k] ELSE 0)]
             V == CHOOSE g : IsV(g)
             IsS(g) == g = [k \in 0 .. FractionDigits |->
                              IF k = 0 THEN 0
                              ELSE g[k - 1] + TenTo(FractionDigits - k)
                                                * (IF k <= Len(fraction) THEN fraction[k] ELSE 0)]
             S == CHOOSE g : IsS(g)
  <2>1. Micros(fraction) = V[FractionDigits] /\ MicrosOf(fraction) = S[FractionDigits]
    BY DEF Micros, MicrosOf
  <2>2. \A k \in 1 .. FractionDigits : digit[k] \in 0 .. 9 OBVIOUS
  <2>3. IsV(V)
    <3> DEFINE step == [p \in Nat \X (1 .. FractionDigits) |-> 10 * p[1] + digit[p[2]]]
    <3>1. step \in [Nat \X (1 .. FractionDigits) -> Nat]
      <4> HIDE DEF digit
      <4> QED BY <2>2
    <3>2. PICK g \in [0 .. FractionDigits -> Nat] :
            g[0] = 0 /\ \A k \in 1 .. FractionDigits : g[k] = step[<<g[k - 1], k>>]
      <4> HIDE DEF step
      <4>1. Recursion(FractionDigits, Nat, 0, step) BY <3>1, NatRecursion, TimeAssumption
      <4> QED BY <4>1 DEF Recursion
    <3>3. ASSUME NEW k \in 1 .. FractionDigits PROVE g[k] = 10 * g[k - 1] + digit[k]
      <4>1. g[k - 1] \in Nat BY TimeAssumption
      <4> HIDE DEF digit
      <4> QED BY <3>2, <4>1
    <3>4. IsV(g) BY <3>2, <3>3
    <3> HIDE DEF IsV
    <3> QED BY <3>4
  <2>4. V[0] = 0 /\ \A k \in Nat : k + 1 <= FractionDigits => V[k + 1] = 10 * V[k] + digit[k + 1]
    <3> HIDE DEF V
    <3> QED BY <2>3, TimeAssumption
  <2> DEFINE place == [k \in 1 .. FractionDigits |-> TenTo(FractionDigits - k) * digit[k]]
  <2>5. \A k \in 1 .. FractionDigits : place[k] \in Nat
    <3> SUFFICES ASSUME NEW k \in 1 .. FractionDigits PROVE place[k] \in Nat OBVIOUS
    <3>1. FractionDigits - k \in 0 .. FractionDigits BY TimeAssumption
    <3>2. TenTo(FractionDigits - k) \in Nat BY <3>1, Powers
    <3>3. digit[k] \in Nat BY <2>2
    <3> HIDE DEF digit
    <3> QED BY <3>2, <3>3
  <2>6. IsS(S)
    <3> DEFINE step == [p \in Nat \X (1 .. FractionDigits) |-> p[1] + place[p[2]]]
    <3>1. step \in [Nat \X (1 .. FractionDigits) -> Nat]
      <4> HIDE DEF place
      <4> QED BY <2>5
    <3>2. PICK g \in [0 .. FractionDigits -> Nat] :
            g[0] = 0 /\ \A k \in 1 .. FractionDigits : g[k] = step[<<g[k - 1], k>>]
      <4> HIDE DEF step
      <4>1. Recursion(FractionDigits, Nat, 0, step) BY <3>1, NatRecursion, TimeAssumption
      <4> QED BY <4>1 DEF Recursion
    <3>3. ASSUME NEW k \in 1 .. FractionDigits PROVE g[k] = g[k - 1] + place[k]
      <4>1. g[k - 1] \in Nat BY TimeAssumption
      <4> HIDE DEF place
      <4> QED BY <3>2, <4>1
    <3>4. IsS(g) BY <3>2, <3>3
    <3> HIDE DEF IsS
    <3> QED BY <3>4
  <2>7. S[0] = 0 /\ \A k \in Nat : k + 1 <= FractionDigits =>
                       S[k + 1] = S[k] + TenTo(FractionDigits - (k + 1)) * digit[k + 1]
    <3> HIDE DEF S
    <3> QED BY <2>6, TimeAssumption
  <2> HIDE DEF V, S, digit, place
  <2> DEFINE T == { k \in Nat : k <= FractionDigits =>
                      /\ V[k] \in 0 .. TenTo(k) - 1
                      /\ V[k] * TenTo(FractionDigits - k) = S[k] }
  <2>8. 0 \in T
    <3>1. TenTo(FractionDigits - 0) \in Nat BY Powers, TimeAssumption
    <3> QED BY <2>4, <2>7, <3>1, Powers
  <2>9. ASSUME NEW k \in Nat, k \in T PROVE k + 1 \in T
    <3> SUFFICES ASSUME k + 1 <= FractionDigits
                 PROVE  /\ V[k + 1] \in 0 .. TenTo(k + 1) - 1
                        /\ V[k + 1] * TenTo(FractionDigits - (k + 1)) = S[k + 1]
      OBVIOUS
    <3> DEFINE j == FractionDigits - (k + 1)
    <3>1. /\ k \in 0 .. FractionDigits /\ k + 1 \in 1 .. FractionDigits
          /\ j \in Nat /\ j \in 0 .. FractionDigits /\ j + 1 = FractionDigits - k /\ j + 1 <= FractionDigits
      BY TimeAssumption
    <3>2. V[k] \in 0 .. TenTo(k) - 1 /\ V[k] * TenTo(j + 1) = S[k] BY <2>9, <3>1
    <3>3. TenTo(k) \in Nat /\ TenTo(j) \in Nat BY <3>1, Powers
    <3>4. digit[k + 1] \in 0 .. 9 BY <2>2, <3>1
    <3>5. TenTo(k + 1) = 10 * TenTo(k) /\ V[k + 1] = 10 * V[k] + digit[k + 1] BY <2>4, Powers
    <3>6. V[k + 1] \in 0 .. TenTo(k + 1) - 1 BY <3>2, <3>3, <3>4, <3>5, OneMoreDigit
    <3> HIDE DEF j
    <3>7. TenTo(j + 1) = 10 * TenTo(j) BY <3>1, Powers
    <3>8. V[k] \in Nat /\ digit[k + 1] \in Nat BY <3>2, <3>3, <3>4
    <3>9. V[k + 1] * TenTo(j) = V[k] * TenTo(j + 1) + TenTo(j) * digit[k + 1]
      BY <3>3, <3>5, <3>7, <3>8, ShiftedDigit
    <3>10. S[k + 1] = S[k] + TenTo(j) * digit[k + 1] BY <2>7 DEF j
    <3>11. V[k + 1] * TenTo(j) = S[k + 1] BY <3>2, <3>9, <3>10, Zenon
    <3> QED BY <3>6, <3>11 DEF j
  <2>10. FractionDigits \in T
    <3> HIDE DEF T
    <3> QED BY <2>8, <2>9, NatInduct, TimeAssumption
  <2>11. V[FractionDigits] \in 0 .. TenTo(FractionDigits) - 1
         /\ V[FractionDigits] * TenTo(0) = S[FractionDigits]
    <3>1. FractionDigits - FractionDigits = 0 /\ FractionDigits <= FractionDigits BY TimeAssumption
    <3> QED BY <2>10, <3>1
  <2>12. V[FractionDigits] = S[FractionDigits]
    <3>1. TenTo(FractionDigits) \in Nat /\ TenTo(0) = 1 BY Powers, TimeAssumption
    <3>2. V[FractionDigits] \in Nat BY <2>11, <3>1
    <3> QED BY <2>11, <3>1, <3>2
  <2> QED BY <1>1, <2>1, <2>11, <2>12
<1> QED BY <1>1, <1>2, Powers, TimeAssumption

\* No digits are no microseconds.
LEMMA NoFraction == Micros(<<>>) = 0
<1> DEFINE IsV(g) == g = [k \in 0 .. FractionDigits |->
                            IF k = 0 THEN 0
                            ELSE 10 * g[k - 1] + (IF k <= Len(<<>>) THEN <<>>[k] ELSE 0)]
           V == CHOOSE g : IsV(g)
           none == [k \in 0 .. FractionDigits |-> 0]
<1>1. Micros(<<>>) = V[FractionDigits] BY Zenon DEF Micros
<1>2. ASSUME NEW k \in 0 .. FractionDigits, k # 0
      PROVE  0 = 10 * none[k - 1] + (IF k <= Len(<<>>) THEN <<>>[k] ELSE 0)
  <2>1. none[k - 1] = 0 BY <1>2, TimeAssumption
  <2>2. ~ (k <= Len(<<>>)) BY <1>2, TimeAssumption
  <2> HIDE DEF none
  <2> QED BY <2>1, <2>2
<1>3. IsV(none)
  <2>1. none = [k \in 0 .. FractionDigits |->
                  IF k = 0 THEN 0
                  ELSE 10 * none[k - 1] + (IF k <= Len(<<>>) THEN <<>>[k] ELSE 0)]
    BY <1>2, Zenon
  <2> QED BY <2>1, Zenon
<1>4. IsV(V)
  <2> HIDE DEF IsV, none
  <2> QED BY <1>3
<1> HIDE DEF V
<1> DEFINE T == { k \in Nat : k <= FractionDigits => V[k] = 0 }
<1>5. 0 \in T BY <1>4, TimeAssumption
<1>6. ASSUME NEW k \in Nat, k \in T PROVE k + 1 \in T
  <2> SUFFICES ASSUME k + 1 <= FractionDigits PROVE V[k + 1] = 0 OBVIOUS
  <2>1. k + 1 \in 0 .. FractionDigits /\ k + 1 # 0 /\ (k + 1) - 1 = k /\ ~ (k + 1 <= Len(<<>>))
    BY TimeAssumption
  <2>2. V[k + 1] = 10 * V[k] + 0 BY <1>4, <2>1
  <2>3. V[k] = 0 BY <1>6, TimeAssumption
  <2> QED BY <2>2, <2>3
<1>7. FractionDigits \in T
  <2> HIDE DEF T
  <2> QED BY <1>5, <1>6, NatInduct, TimeAssumption
<1> QED BY <1>1, <1>7, TimeAssumption

-----------------------------------------------------------------------------
(* What is decoded *)

Fraction(t) == IF t.tag = 24 THEN Micros(t.fraction) ELSE 0

Offset(t) == IF t.tag = 23 THEN UtctimeOffset(t) ELSE ZoneOffset(t.zone)

\* The seconds and microseconds that a text names, by the algorithm of the code.
Seconds(t) ==
  SecondsPerDay * DaysFromCivil(Year(t), t.month, t.day)
    + SecondsPerMinute * (MinutesPerHour * t.hour + OrZero(t.minute)) + OrZero(t.second)
    - Offset(t)

\* The numbers of the text that is decoded are those of a day and its time.
DecodedAs(t, time) ==
  /\ t.month \in 1 .. 12 /\ t.day \in 1 .. 31
  /\ time.micros = MicrosPerSecond * Seconds(t) + Fraction(t)
  /\ time.iso = IF Fraction(t) # 0 THEN IsoFromMicros(time.micros, Fraction(t))
                ELSE Iso(Year(t), t.month, t.day, t.hour, OrZero(t.minute), OrZero(t.second), Absent)

LEMMA Typing ==
  ASSUME NEW t \in TimeTexts
  PROVE  /\ t.tag \in {23, 24} /\ t.year \in Int /\ t.month \in Int /\ t.day \in Int
         /\ t.hour \in Int /\ OrZero(t.minute) \in Int /\ OrZero(t.second) \in Int
         /\ Offset(t) \in Int /\ Year(t) \in Int
         /\ Fraction(t) \in 0 .. MicrosPerSecond - 1 /\ t.fraction \in Seq(0 .. 9)
         /\ SecondsPerDay \in Nat \ {0} /\ MicrosPerSecond \in Nat \ {0}
<1>1. /\ t.tag \in {23, 24} /\ t.year \in Int /\ t.month \in Int /\ t.day \in Int /\ t.hour \in Int
      /\ t.minute \in Numbers \cup {Absent} /\ t.second \in Numbers \cup {Absent}
      /\ t.fraction \in Seq(0 .. 9) /\ t.zone \in TextZones
  <2>1. /\ t.tag \in {23, 24} /\ t.year \in Years
        /\ t.month \in Numbers /\ t.day \in Numbers /\ t.hour \in Numbers
        /\ t.minute \in Numbers \cup {Absent} /\ t.second \in Numbers \cup {Absent}
        /\ t.fraction \in Seq(0 .. 9) /\ t.zone \in TextZones
    BY SMT DEF TimeTexts
  <2>2. Years \subseteq Int /\ Numbers \subseteq Int BY SMT DEF Years, Numbers
  <2>3. t.year \in Int /\ t.month \in Int /\ t.day \in Int /\ t.hour \in Int
    BY <2>1, <2>2, Zenon
  <2> QED BY <2>1, <2>3, Zenon
<1>2. OrZero(t.minute) \in Int /\ OrZero(t.second) \in Int
  <2>1. \A n \in Numbers \cup {Absent} : OrZero(n) \in Int BY SMT DEF OrZero, Numbers, Absent
  <2> QED BY <1>1, <2>1, Zenon
<1>3. ZoneOffset(t.zone) \in Int
  <2>1. CASE t.zone.kind = "signed"
    <3> DEFINE zone == t.zone
    <3>1. zone \in [kind : {"signed"}, sign : {1, -1}, hours : Numbers, minutes : Numbers]
      BY <1>1, <2>1, SMT DEF TextZones
    <3> HIDE DEF zone
    <3>2. zone.sign \in {1, -1} /\ zone.hours \in Int /\ zone.minutes \in Int
      BY <3>1, SMT DEF Numbers
    <3>3. zone.sign * SecondsPerMinute * (MinutesPerHour * zone.hours + zone.minutes) \in Int
      <4>1. MinutesPerHour * zone.hours + zone.minutes \in Int BY <3>2, TimeAssumption
      <4>2. zone.sign * SecondsPerMinute \in Int BY <3>2, TimeAssumption
      <4> QED BY <4>1, <4>2
    <3> QED BY <2>1, <3>3, Zenon DEF ZoneOffset, zone
  <2>2. CASE t.zone.kind # "signed" BY <2>2 DEF ZoneOffset
  <2> QED BY <2>1, <2>2
<1>4. Year(t) \in Int BY <1>1 DEF Year
<1>5. MicrosPerSecond \in Nat \ {0} /\ Fraction(t) \in 0 .. MicrosPerSecond - 1
  BY <1>1, Fractions DEF Fraction
<1>6. SecondsPerDay \in Nat \ {0}
  <2>1. HoursPerDay * MinutesPerHour \in Nat \ {0} BY TimeAssumption
  <2> QED BY <2>1, TimeAssumption DEF SecondsPerDay
<1>7. Offset(t) \in Int BY <1>3, SMT DEF Offset, UtctimeOffset
<1> QED BY <1>1, <1>2, <1>4, <1>5, <1>6, <1>7

LEMMA WholeSeconds ==
  ASSUME NEW t \in TimeTexts, t.month \in 1 .. 12
  PROVE  Seconds(t) \in Int
<1>1. DaysFromCivil(Year(t), t.month, t.day) \in Int
  <2>1. Year(t) \in Int /\ t.day \in Int BY Typing, Zenon
  <2> QED BY <2>1, DaysAreCounted
<1>2. /\ t.hour \in Int /\ OrZero(t.minute) \in Int /\ OrZero(t.second) \in Int
      /\ Offset(t) \in Int /\ SecondsPerDay \in Nat \ {0}
  BY Typing, Zenon
<1> QED BY <1>1, <1>2, TimeAssumption DEF Seconds

DecodedTime(t) == IF t.tag = 23 THEN ParseUtctime(t) ELSE ParseGeneralized(t)

LEMMA WhatIsDecoded ==
  ASSUME NEW t \in TimeTexts, DecodedTime(t) # NoTime
  PROVE  DecodedAs(t, DecodedTime(t))
<1>1. CASE t.tag = 23
  <2>1. DecodedTime(t) = Assemble(Year(t), t.month, t.day, t.hour, t.minute, OrZero(t.second), 0,
                                  Offset(t)) /\ t.minute # Absent
    <3>1. FullYear(t.year) = Year(t) BY <1>1, Typing DEF FullYear, Year
    <3>2. Offset(t) = UtctimeOffset(t) BY <1>1, Zenon DEF Offset
    <3> QED BY <1>1, <3>1, <3>2, Zenon DEF DecodedTime, ParseUtctime
  <2>2. OrZero(t.minute) = t.minute BY <2>1, Zenon DEF OrZero
  <2>3. Fraction(t) = 0 BY <1>1, SMT DEF Fraction
  <2> DEFINE iso == Iso(Year(t), t.month, t.day, t.hour, OrZero(t.minute), OrZero(t.second), Absent)
  <2>4. /\ t.month \in 1 .. 12 /\ t.day \in 1 .. 31
        /\ DecodedTime(t) = [kind |-> "time", micros |-> MicrosPerSecond * Seconds(t) + 0, iso |-> iso]
    BY <2>1, <2>2, Zenon DEF Assemble, Seconds, NoTime
  <2> HIDE DEF iso
  <2>5. /\ DecodedTime(t).micros = MicrosPerSecond * Seconds(t) + Fraction(t)
        /\ DecodedTime(t).iso = iso
    BY <2>3, <2>4
  <2> QED BY <2>3, <2>4, <2>5, Zenon DEF DecodedAs, iso
<1>2. CASE t.tag = 24
  <2> DEFINE time == Assemble(t.year, t.month, t.day, t.hour, OrZero(t.minute), OrZero(t.second),
                              Micros(t.fraction), Offset(t))
  <2>1. /\ Year(t) = t.year /\ Fraction(t) = Micros(t.fraction) /\ t.tag # 23
        /\ Offset(t) = ZoneOffset(t.zone)
    BY <1>2, SMT DEF Year, Fraction, Offset
  <2>2. time # NoTime /\ DecodedTime(t) = IF Fraction(t) # 0
                           THEN [time EXCEPT !.iso = IsoFromMicros(time.micros, Fraction(t))]
                           ELSE time
    <3> HIDE DEF time
    <3> QED BY <1>2, <2>1, Zenon DEF DecodedTime, ParseGeneralized, time
  <2>3. /\ t.month \in 1 .. 12 /\ t.day \in 1 .. 31
        /\ time = [kind |-> "time", micros |-> MicrosPerSecond * Seconds(t) + Fraction(t),
                   iso |-> Iso(Year(t), t.month, t.day, t.hour, OrZero(t.minute), OrZero(t.second), Absent)]
    BY <2>1, <2>2, Zenon DEF Assemble, Seconds, NoTime
  <2> HIDE DEF time
  <2> QED BY <2>2, <2>3 DEF DecodedAs
<1> QED BY <1>1, <1>2, Typing

\* The ISO text that is made from microseconds names them.
LEMMA IsoOfMicros ==
  ASSUME NEW secs \in Int, NEW frac \in 1 .. MicrosPerSecond - 1
  PROVE  Instant(IsoFromMicros(MicrosPerSecond * secs + frac, frac)) = MicrosPerSecond * secs + frac
<1> DEFINE micros == MicrosPerSecond * secs + frac
           days == secs \div SecondsPerDay
           rem == secs % SecondsPerDay
           date == CivilFromDays(days)
           hour == rem \div (MinutesPerHour * SecondsPerMinute)
           minute == (rem \div SecondsPerMinute) % MinutesPerHour
           second == rem % SecondsPerMinute
           iso == Iso(date.year, date.month, date.day, hour, minute, second, frac)
<1>1. MicrosPerSecond \in Nat \ {0} BY Fractions
<1>2. SecondsPerDay \in Nat \ {0}
  <2>1. HoursPerDay * MinutesPerHour \in Nat \ {0} BY TimeAssumption
  <2> QED BY <2>1, TimeAssumption DEF SecondsPerDay
<1>3. micros \div MicrosPerSecond = secs BY <1>1, Division
<1>4. days \in Int /\ rem \in Int /\ secs = SecondsPerDay * days + rem BY <1>2, DividesInto
<1>5. IsoFromMicros(micros, frac) = iso
  <2> HIDE DEF micros
  <2> QED BY <1>3, Zenon DEF IsoFromMicros
<1>6. DayNumber(date.year, date.month, date.day) = days
  <2> HIDE DEF days
  <2>1. /\ date.year \in Int /\ date.month \in 1 .. 12
        /\ date.day \in 1 .. MonthLength(date.year, date.month)
        /\ DaysFromCivil(date.year, date.month, date.day) = days
    BY <1>4, CivilOfDay
  <2>2. MonthLength(date.year, date.month) \in Int BY DEF MonthLength
  <2> HIDE DEF date
  <2>3. date.day \in Int BY <2>1, <2>2
  <2> QED BY <2>1, <2>3, DaysAreCounted
<1>7. SecondsPerMinute * (MinutesPerHour * hour + minute) + second = rem
  <2> HIDE DEF rem
  <2> QED BY <1>4, Clock
<1>8. hour \in Int /\ minute \in Int /\ second \in Int
  <2>1. MinutesPerHour * SecondsPerMinute \in Nat \ {0} BY TimeAssumption
  <2>2. rem \div SecondsPerMinute \in Int BY <1>4, TimeAssumption, DividesInto
  <2> HIDE DEF rem
  <2> QED BY <1>4, <2>1, <2>2, TimeAssumption, DividesInto
<1>9. Instant(iso) = MicrosPerSecond *
        (SecondsPerDay * days + SecondsPerMinute * (MinutesPerHour * hour + minute) + second) + frac
  <2>1. /\ iso.year = date.year /\ iso.month = date.month /\ iso.day = date.day
        /\ iso.hour = hour /\ iso.minute = minute /\ iso.second = second /\ iso.frac = frac
    <3> HIDE DEF date, hour, minute, second
    <3> QED BY DEF Iso
  <2>2. OrZero(frac) = frac BY DEF OrZero, Absent
  <2> HIDE DEF iso, date, hour, minute, second, days
  <2> QED BY <1>6, <2>1, <2>2, Zenon DEF Instant
<1> HIDE DEF iso, days, rem, hour, minute, second
<1>10. SecondsPerDay * days + SecondsPerMinute * (MinutesPerHour * hour + minute) + second = secs
  <2> DEFINE a == SecondsPerDay * days
             b == SecondsPerMinute * (MinutesPerHour * hour + minute)
  <2>1. a \in Int /\ b \in Int BY <1>2, <1>4, <1>8, TimeAssumption
  <2>2. b + second = rem BY <1>7
  <2>3. secs = a + rem BY <1>4
  <2> HIDE DEF a, b
  <2>4. a + b + second = secs BY <1>8, <2>1, <2>2, <2>3
  <2> QED BY <2>4 DEF a, b
<1> QED BY <1>5, <1>9, <1>10, Zenon

-----------------------------------------------------------------------------
(* The invariants *)

IDecoded == text \in TimeTexts /\ parsed \in {Pending, DecodedTime(text)}

LEMMA Decoding == TSpec => []IDecoded
<1>1. TInit => IDecoded BY TextsAssumption DEF TInit, IDecoded
<1>2. IDecoded /\ [DecodeTime]_tvars => IDecoded'
  BY DEF IDecoded, DecodeTime, tvars, DecodedTime
<1> QED BY <1>1, <1>2, PTL DEF TSpec

LEMMA DecodedIsTime ==
  ASSUME IDecoded, Decoded
  PROVE  text \in TimeTexts /\ DecodedAs(text, parsed)
<1>1. text \in TimeTexts /\ parsed = DecodedTime(text) /\ parsed # NoTime
  BY DEF IDecoded, Decoded, Pending, NoTime
<1> QED BY <1>1, WhatIsDecoded

\* The offset is that of the zone, unless a UTCTime has a fraction.
LEMMA Offsets ==
  ASSUME NEW t \in TimeTexts
  PROVE  /\ FractionIsOfSecond(t) => Offset(t) = ZoneOffset(t.zone)
         /\ ZoneOffset(t.zone) = 0 => Offset(t) = 0
<1>1. t.tag \in {23, 24} BY Typing
<1>2. CASE t.tag = 23
  <2>1. FractionIsOfSecond(t) => t.fraction = <<>> BY <1>2, SMT DEF FractionIsOfSecond
  <2> QED BY <1>2, <2>1, Zenon DEF Offset, UtctimeOffset
<1>3. CASE t.tag = 24 BY <1>3, SMT DEF Offset
<1> QED BY <1>1, <1>2, <1>3

\* The fraction of a time is the sum of what its digits stand for.
LEMMA SumOfDigits ==
  ASSUME NEW t \in TimeTexts, FractionIsOfSecond(t)
  PROVE  Fraction(t) = MicrosOf(t.fraction)
<1>1. Micros(t.fraction) = MicrosOf(t.fraction) BY Typing, Fractions
<1>2. CASE t.tag = 23
  <2>1. t.fraction = <<>> BY <1>2, SMT DEF FractionIsOfSecond
  <2>2. Micros(<<>>) = 0 BY NoFraction
  <2> QED BY <1>1, <1>2, <2>1, <2>2, SMT DEF Fraction
<1>3. CASE t.tag = 24 BY <1>1, <1>3 DEF Fraction
<1> QED BY <1>2, <1>3, Typing

\* The microseconds are those of the day and time that the text names, in its
\* zone and with the fraction of a second that its digits spell, the calendar
\* counted over years and months and the digits by what each stands for.
THEOREM MicrosOfEveryText == TSpec => []MicrosNameTheInstant
<1>1. IDecoded => MicrosNameTheInstant
  <2> SUFFICES ASSUME IDecoded, Decoded, IsDate(text), FractionIsOfSecond(text)
               PROVE  parsed.micros =
                        MicrosPerSecond *
                          (SecondsPerDay * DayNumber(Year(text), text.month, text.day)
                             + SecondsPerMinute * (MinutesPerHour * text.hour + OrZero(text.minute))
                             + OrZero(text.second) - ZoneOffset(text.zone))
                        + MicrosOf(text.fraction)
    BY Zenon DEF MicrosNameTheInstant
  <2>1. text \in TimeTexts /\ DecodedAs(text, parsed) BY DecodedIsTime
  <2>2. DaysFromCivil(Year(text), text.month, text.day) = DayNumber(Year(text), text.month, text.day)
    <3>1. text.month \in 1 .. 12 BY <2>1 DEF DecodedAs
    <3> QED BY <2>1, <3>1, Typing, DaysAreCounted
  <2>3. Offset(text) = ZoneOffset(text.zone) BY <2>1, Offsets
  <2>4. Fraction(text) = MicrosOf(text.fraction) BY <2>1, SumOfDigits
  <2> QED BY <2>1, <2>2, <2>3, <2>4, Zenon DEF DecodedAs, Seconds
<1> QED BY <1>1, Decoding, PTL

\* The ISO text names the microseconds, for every text in UTC and for every
\* text with a fraction in whatever zone.
THEOREM IsoOfEveryText == TSpec => []IsoNamesTheInstantOfUtc
<1>1. IDecoded => IsoNamesTheInstantOfUtc
  <2> SUFFICES ASSUME IDecoded, Decoded,
                      ZoneOffset(text.zone) = 0 \/ parsed.iso.frac # Absent
               PROVE  Instant(parsed.iso) = parsed.micros
    BY Zenon DEF IsoNamesTheInstantOfUtc
  <2> DEFINE t == text
  <2>1. t \in TimeTexts /\ DecodedAs(t, parsed) BY DecodedIsTime
  <2>2. Seconds(t) \in Int
    <3>1. t.month \in 1 .. 12 BY <2>1 DEF DecodedAs
    <3> QED BY <2>1, <3>1, WholeSeconds
  <2>3. CASE Fraction(t) # 0
    <3>1. Fraction(t) \in 1 .. MicrosPerSecond - 1 BY <2>1, <2>3, Typing
    <3> QED BY <2>1, <2>2, <2>3, <3>1, IsoOfMicros DEF DecodedAs
  <2>4. CASE Fraction(t) = 0
    <3> DEFINE iso == Iso(Year(t), t.month, t.day, t.hour, OrZero(t.minute), OrZero(t.second), Absent)
    <3>1. parsed.iso = iso /\ parsed.micros = MicrosPerSecond * Seconds(t)
      BY <2>1, <2>2, <2>4, Fractions DEF DecodedAs
    <3>2. Offset(t) = 0
      <4>1. ZoneOffset(t.zone) = 0 BY <3>1 DEF Iso
      <4> QED BY <2>1, <4>1, Offsets
    <3>3. DaysFromCivil(Year(t), t.month, t.day) = DayNumber(Year(t), t.month, t.day)
      <4>1. t.month \in 1 .. 12 BY <2>1 DEF DecodedAs
      <4> QED BY <2>1, <4>1, Typing, DaysAreCounted
    <3>4. Instant(iso) = MicrosPerSecond *
            (SecondsPerDay * DayNumber(Year(t), t.month, t.day)
               + SecondsPerMinute * (MinutesPerHour * t.hour + OrZero(t.minute)) + OrZero(t.second))
            + 0
      BY Zenon DEF Instant, Iso, OrZero
    <3> DEFINE a == SecondsPerDay * DayNumber(Year(t), t.month, t.day)
               b == SecondsPerMinute * (MinutesPerHour * t.hour + OrZero(t.minute))
    <3>5. Seconds(t) = a + b + OrZero(t.second) - 0 BY <3>2, <3>3, Zenon DEF Seconds
    <3>6. a \in Int /\ b \in Int
      <4>1. DaysFromCivil(Year(t), t.month, t.day) \in Int
        <5>1. t.month \in 1 .. 12 BY <2>1 DEF DecodedAs
        <5> QED BY <2>1, <5>1, Typing, DaysAreCounted
      <4> QED BY <2>1, <3>3, <4>1, Typing, TimeAssumption
    <3> HIDE DEF a, b
    <3>7. Seconds(t) = a + b + OrZero(t.second) BY <2>1, <3>5, <3>6, Typing
    <3>8. Instant(iso) = MicrosPerSecond * Seconds(t) + 0 BY <3>4, <3>7, Zenon DEF a, b
    <3> QED BY <2>2, <3>1, <3>8, Fractions
  <2> QED BY <2>3, <2>4
<1> QED BY <1>1, Decoding, PTL

\* CivilFromDays finds a day of the calendar for the day of every time that is
\* decoded, and DaysFromCivil leads back to it.
THEOREM CalendarOfEveryText == TSpec => []CalendarIsInverse
<1>1. IDecoded => CalendarIsInverse
  <2> SUFFICES ASSUME IDecoded, Decoded
               PROVE  CalendarIsInverse!2
    BY Zenon DEF CalendarIsInverse
  <2>1. text \in TimeTexts /\ DecodedAs(text, parsed) BY DecodedIsTime
  <2>2. parsed.micros \in Int
    <3>1. text.month \in 1 .. 12 BY <2>1 DEF DecodedAs
    <3>2. Seconds(text) \in Int BY <2>1, <3>1, WholeSeconds
    <3>3. MicrosPerSecond \in Nat /\ Fraction(text) \in Int
      <4>1. Fraction(text) \in 0 .. MicrosPerSecond - 1 /\ MicrosPerSecond \in Nat \ {0}
        BY <2>1, Typing, Zenon
      <4> QED BY <4>1
    <3> QED BY <2>1, <3>2, <3>3 DEF DecodedAs
  <2> DEFINE day == (parsed.micros \div MicrosPerSecond) \div SecondsPerDay
  <2>3. day \in Int
    <3>1. parsed.micros \div MicrosPerSecond \in Int BY <2>2, Fractions, DividesInto
    <3> QED BY <2>1, <3>1, Typing, DividesInto
  <2> HIDE DEF day
  <2>4. LET date == CivilFromDays(day)
        IN /\ date.month \in 1 .. 12 /\ date.day \in 1 .. MonthLength(date.year, date.month)
           /\ DaysFromCivil(date.year, date.month, date.day) = day
    BY <2>3, CivilOfDay, Zenon
  <2> QED BY <2>4, Zenon DEF day
<1> QED BY <1>1, Decoding, PTL

=============================================================================
