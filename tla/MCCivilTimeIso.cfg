CONSTANTS
  Texts <- MCTexts
  HoursPerDay = 4
  MinutesPerHour = 3
  SecondsPerMinute = 3
  FractionDigits = 1
SPECIFICATION TSpec
INVARIANTS IsoNamesTheInstant
CHECK_DEADLOCK FALSE
