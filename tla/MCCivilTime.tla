----------------------------- MODULE MCCivilTime -----------------------------
(***************************************************************************)
(* CivilTime on every day of years around the turns of centuries and of    *)
(* the two-digit years, and on every form of a text on the days where a    *)
(* zone can move a time into another month or year.                        *)
(***************************************************************************)
EXTENDS CivilTime

SomeYears == {0, 1, 3, 4, 100, 400, 1582, 1900, 1970, 1999, 2000, 2023, 2024, 9998}

NoZone == [kind |-> "none"]
Zones == { NoZone, [kind |-> "Z"], [kind |-> "local"], [kind |-> "short"] }
           \cup [kind : {"signed"}, sign : {1, -1}, hours : {0, 3}, minutes : {0, 2}]

\* Every day and some that are none, at the first and last second.
Days ==
  [tag : {24}, year : SomeYears, month : 0 .. 13, day : 0 .. 32, hour : {0, 3}, minute : {2},
   second : {0, 2}, fraction : {<<>>}, zone : {NoZone}]

Forms ==
  [tag : {24}, year : {1, 1969, 2000}, month : {1, 2, 12}, day : {1, 28, 31}, hour : {0, 3, 4},
   minute : {Absent, 0, 2, 3}, second : {Absent, 0, 2, 3, 4},
   fraction : {<<>>, <<0>>, <<0, 5>>, <<5, 0, 3>>, <<9>>}, zone : Zones]

UtcForms ==
  [tag : {23}, year : {0, 49, 50, 51, 99}, month : {1, 2, 3}, day : {1, 28, 29}, hour : {0, 3},
   minute : {Absent, 1}, second : {Absent, 2}, fraction : {<<>>, <<5>>}, zone : Zones]

\* A text has no seconds without minutes.
MCTexts == { t \in Days \cup Forms \cup UtcForms : t.minute = Absent => t.second = Absent }

=============================================================================
