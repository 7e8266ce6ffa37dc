CONSTANTS
  Texts <- MCTexts
  HoursPerDay = 4
  MinutesPerHour = 3
  SecondsPerMinute = 3
  FractionDigits = 1
SPECIFICATION TSpec
INVARIANTS MicrosNameTheInstant IsoNamesTheInstantOfUtc CalendarIsInverse
CHECK_DEADLOCK FALSE
