------------------------------ MODULE CivilTime ------------------------------
(***************************************************************************)
(* decode_time of asn1-core/src/value.rs: UTCTime and GeneralizedTime to   *)
(* microseconds since 1970 and an ISO-8601 text, by way of Hinnant's       *)
(* calendar algorithms in both directions.                                 *)
(*                                                                         *)
(* A text is the record of its numbers, of which minute, second, fraction  *)
(* and zone may be missing; the ISO text is the record of those it shows.  *)
(* A day is divided as the constants say.                                  *)
(***************************************************************************)
EXTENDS Integers, Sequences

CONSTANTS
  Texts,             \* the texts decode_time may be given
  HoursPerDay,       \* 24
  MinutesPerHour,    \* 60
  SecondsPerMinute,  \* 60
  FractionDigits     \* the digits of a fraction that are kept: 6

Absent == -1

\* Four digits of a GeneralizedTime's year, two of every other number.
Years == 0 .. 9999
Numbers == 0 .. 99

TextZones ==
  [kind : {"none", "Z", "local", "short"}]
    \cup [kind : {"signed"}, sign : {1, -1}, hours : Numbers, minutes : Numbers]

TimeTexts ==
  [tag : {23, 24}, year : Years, month : Numbers, day : Numbers, hour : Numbers,
   minute : Numbers \cup {Absent}, second : Numbers \cup {Absent},
   fraction : Seq(0 .. 9), zone : TextZones]

ASSUME TimeAssumption ==
  /\ HoursPerDay \in Nat \ {0} /\ MinutesPerHour \in Nat \ {0}
  /\ SecondsPerMinute \in Nat \ {0} /\ FractionDigits \in Nat \ {0}

ASSUME TextsAssumption == Texts \subseteq TimeTexts

VARIABLES
  text,   \* what is decoded
  parsed  \* the time it was decoded to, or Pending before

tvars == <<text, parsed>>

Pending == [kind |-> "pending"]
NoTime == [kind |-> "none"]

\* 10 to the n, for up to FractionDigits digits.
TenTo(n) ==
  LET power[k \in 0 .. FractionDigits] == IF k = 0 THEN 1 ELSE 10 * power[k - 1]
  IN power[n]

MicrosPerSecond == TenTo(FractionDigits)

SecondsPerDay == HoursPerDay * MinutesPerHour * SecondsPerMinute

-----------------------------------------------------------------------------

\* Division of integers, which in Rust goes towards 0.
Quotient(a, b) == IF a >= 0 THEN a \div b ELSE - ((- a) \div b)

\* Days of an era of 400 years, and from 0000-03-01 to 1970-01-01.
DaysPerEra == 146097
EpochDay == 719468

\* The era that year or day n is in, of eras of so many years or days.
Era(n, length) == Quotient(IF n >= 0 THEN n ELSE n - (length - 1), length)

\* The days of an era before its year yoe, and the year of its day doe.
DaysOfYears(yoe) == 365 * yoe + (yoe \div 4) - (yoe \div 100)
YearOfEra(doe) == (doe - (doe \div 1460) + (doe \div 36524) - (doe \div 146096)) \div 365

\* The days of a year that begins in March before its month mp.
DaysOfMonths(mp) == (153 * mp + 2) \div 5

\* Mutant of DaysFromCivil: the year begins in January.
DaysFromCivilJanuary(y, m, d) ==
  LET era == Era(y, 400)
      yoe == y - 400 * era
      doe == DaysOfYears(yoe) + DaysOfMonths(IF m > 2 THEN m - 3 ELSE m + 9) + d - 1
  IN DaysPerEra * era + doe - EpochDay

DaysFromCivil(y, m, d) ==
  LET year == IF m <= 2 THEN y - 1 ELSE y
      era == Era(year, 400)
      yoe == year - 400 * era
      doe == DaysOfYears(yoe) + DaysOfMonths(IF m > 2 THEN m - 3 ELSE m + 9) + d - 1
  IN DaysPerEra * era + doe - EpochDay

CivilFromDays(days) ==
  LET z == days + EpochDay
      era == Era(z, DaysPerEra)
      doe == z - DaysPerEra * era
      yoe == YearOfEra(doe)
      doy == doe - DaysOfYears(yoe)
      mp == (5 * doy + 2) \div 153
      month == IF mp < 10 THEN mp + 3 ELSE mp - 9
  IN [year |-> yoe + 400 * era + (IF month <= 2 THEN 1 ELSE 0),
      month |-> month, day |-> doy - DaysOfMonths(mp) + 1]

Iso(y, mo, d, h, mi, s, frac) ==
  [year |-> y, month |-> mo, day |-> d, hour |-> h, minute |-> mi, second |-> s, frac |-> frac]

\* Mutant of IsoFromMicros: the remainders are those of the division in Rust.
IsoFromMicrosTruncated(micros, frac) ==
  LET secs == Quotient(micros, MicrosPerSecond)
      date == CivilFromDays(Quotient(secs, SecondsPerDay))
      rem == secs - SecondsPerDay * Quotient(secs, SecondsPerDay)
  IN Iso(date.year, date.month, date.day, rem \div (MinutesPerHour * SecondsPerMinute),
         (rem \div SecondsPerMinute) % MinutesPerHour, rem % SecondsPerMinute, frac)

\* The ISO text of a time with a fraction; div_euclid and rem_euclid round down.
IsoFromMicros(micros, frac) ==
  LET secs == micros \div MicrosPerSecond
      date == CivilFromDays(secs \div SecondsPerDay)
      rem == secs % SecondsPerDay
  IN Iso(date.year, date.month, date.day, rem \div (MinutesPerHour * SecondsPerMinute),
         (rem \div SecondsPerMinute) % MinutesPerHour, rem % SecondsPerMinute, frac)

\* Seconds east of UTC.  A zone that is neither Z nor signed counts as UTC, a
\* sign without four digits is no zone.
ZoneOffset(zone) ==
  IF zone.kind = "signed"
  THEN zone.sign * SecondsPerMinute * (MinutesPerHour * zone.hours + zone.minutes)
  ELSE 0

\* The ISO text shows the numbers as they were read.
Assemble(y, mo, d, h, mi, s, frac, offset) ==
  IF \/ mo \notin 1 .. 12 \/ d \notin 1 .. 31
     \/ h > HoursPerDay - 1 \/ mi > MinutesPerHour - 1 \/ s > SecondsPerMinute
  THEN NoTime
  ELSE LET secs == SecondsPerDay * DaysFromCivil(y, mo, d)
                     + SecondsPerMinute * (MinutesPerHour * h + mi) + s - offset
       IN [kind |-> "time", micros |-> MicrosPerSecond * secs + frac,
           iso |-> Iso(y, mo, d, h, mi, s, Absent)]

OrZero(number) == IF number = Absent THEN 0 ELSE number

\* Mutant of FullYear: the century turns one year late.
FullYearLate(yy) == IF yy > 50 THEN 1900 + yy ELSE 2000 + yy

FullYear(yy) == IF yy >= 50 THEN 1900 + yy ELSE 2000 + yy

\* A UTCTime has no fraction: where one stands, it and all behind it is taken
\* for a zone that is neither Z nor signed.
UtctimeOffset(t) == IF t.fraction = <<>> THEN ZoneOffset(t.zone) ELSE 0

\* Minutes are required, and eleven characters: seconds or a zone.
ParseUtctime(t) ==
  IF \/ t.minute = Absent
     \/ /\ t.fraction = <<>>
        /\ t.zone.kind = "short" \/ (t.second = Absent /\ t.zone.kind = "none")
  THEN NoTime
  ELSE Assemble(FullYear(t.year), t.month, t.day, t.hour, t.minute, OrZero(t.second), 0,
                UtctimeOffset(t))

\* The fraction, cut off or filled up to its digits.
Micros(fraction) ==
  LET value[k \in 0 .. FractionDigits] ==
        IF k = 0 THEN 0
        ELSE 10 * value[k - 1] + (IF k <= Len(fraction) THEN fraction[k] ELSE 0)
  IN value[FractionDigits]

\* A fraction is one of a second whatever it stands behind.
ParseGeneralized(t) ==
  LET frac == Micros(t.fraction)
      time == Assemble(t.year, t.month, t.day, t.hour, OrZero(t.minute), OrZero(t.second),
                       frac, ZoneOffset(t.zone))
  IN IF t.zone.kind = "short" \/ time = NoTime THEN NoTime
     ELSE IF frac # 0 THEN [time EXCEPT !.iso = IsoFromMicros(time.micros, frac)]
     ELSE time

DecodeTime ==
  /\ parsed = Pending
  /\ parsed' = IF text.tag = 23 THEN ParseUtctime(text) ELSE ParseGeneralized(text)
  /\ UNCHANGED text

TInit == text \in Texts /\ parsed = Pending
TSpec == TInit /\ [][DecodeTime]_tvars

-----------------------------------------------------------------------------
(* Properties *)

IsLeap(y) == y % 4 = 0 /\ (y % 100 # 0 \/ y % 400 = 0)

MonthLength(y, m) ==
  IF m = 2 THEN IF IsLeap(y) THEN 29 ELSE 28 ELSE IF m \in {4, 6, 9, 11} THEN 30 ELSE 31

\* The years from 0 on before y that n divides.
Multiples(n, y) == (y + n - 1) \div n

DaysBeforeYear(y) == 365 * y + Multiples(4, y) - Multiples(100, y) + Multiples(400, y)

DaysBeforeMonth(y, m) ==
  LET before[k \in 1 .. m] == IF k = 1 THEN 0 ELSE before[k - 1] + MonthLength(y, k - 1)
  IN before[m]

\* The day a date is, counted from 1970-01-01 over the years and the months.
DayNumber(y, m, d) ==
  DaysBeforeYear(y) - DaysBeforeYear(1970) + DaysBeforeMonth(y, m) + d - 1

\* Microseconds of what an ISO text shows, read as UTC.
Instant(iso) ==
  MicrosPerSecond *
    (SecondsPerDay * DayNumber(iso.year, iso.month, iso.day)
       + SecondsPerMinute * (MinutesPerHour * iso.hour + iso.minute) + iso.second)
  + OrZero(iso.frac)

Year(t) == IF t.tag = 23 THEN (IF t.year < 50 THEN 2000 ELSE 1900) + t.year ELSE t.year

IsDate(t) == t.month \in 1 .. 12 /\ t.day \in 1 .. MonthLength(Year(t), t.month)

\* A fraction is one of a second: it stands behind the seconds, and in a
\* GeneralizedTime.  (One behind hours or minutes is a fraction of these.)
FractionIsOfSecond(t) == t.fraction # <<>> => t.tag = 24 /\ t.second # Absent

\* The whole microseconds that the digits of a fraction stand for.
MicrosOf(fraction) ==
  LET sum[k \in 0 .. FractionDigits] ==
        IF k = 0 THEN 0
        ELSE sum[k - 1]
               + TenTo(FractionDigits - k) * (IF k <= Len(fraction) THEN fraction[k] ELSE 0)
  IN sum[FractionDigits]

Decoded == parsed.kind = "time"

(* A text that names a day of the calendar is given the microseconds of     *)
(* that day and time in its zone, by a count that does not use the          *)
(* algorithm of the code.  Two kinds of text are excluded: those with a     *)
(* fraction behind the hours or the minutes, whose unit the code does not   *)
(* know (it adds the fraction of a second), and those with anything else    *)
(* than Z or an offset behind the time.  Local times count as UTC, as the   *)
(* code says of them.                                                       *)
MicrosNameTheInstant ==
  Decoded /\ IsDate(text) /\ FractionIsOfSecond(text) /\ text.zone.kind # "local" =>
    parsed.micros =
      MicrosPerSecond *
        (SecondsPerDay * DayNumber(Year(text), text.month, text.day)
           + SecondsPerMinute * (MinutesPerHour * text.hour + OrZero(text.minute))
           + OrZero(text.second) - ZoneOffset(text.zone))
      + MicrosOf(text.fraction)

(* The ISO text of a time and its microseconds are one instant: always when *)
(* the text is made from the microseconds, and else for times in UTC.       *)
IsoNamesTheInstantOfUtc ==
  Decoded /\ IsDate(text) /\ (ZoneOffset(text.zone) = 0 \/ parsed.iso.frac # Absent) =>
    Instant(parsed.iso) = parsed.micros

(* The ISO text of every time, which ends in Z, names its microseconds.     *)
IsoNamesTheInstant ==
  Decoded /\ IsDate(text) => Instant(parsed.iso) = parsed.micros

(* The calendar algorithms are inverses, on the date of the text and on the *)
(* day its zone moves it to.                                                *)
CalendarIsInverse ==
  Decoded =>
    LET day == (parsed.micros \div MicrosPerSecond) \div SecondsPerDay
        date == CivilFromDays(day)
    IN /\ date.month \in 1 .. 12 /\ date.day \in 1 .. MonthLength(date.year, date.month)
       /\ DaysFromCivil(date.year, date.month, date.day) = day

=============================================================================
