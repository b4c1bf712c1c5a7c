--------------------------------- MODULE Mjd ---------------------------------
(***************************************************************************)
(* src/utils.cpp: gregorian2mjd, the modified Julian date of FIG 0/10,     *)
(* against a calendar that goes from day to day.                           *)
(***************************************************************************)
EXTENDS Integers, Sequences

CONSTANT LastYear  \* bound: where the calendar ends

VARIABLES year, month, day, days  \* a date, and the days from the epoch to it

dvars == <<year, month, day, days>>

\* Mutant of gregorian2mjd: January and February are not put at the end of
\* the year before.
MjdUnshifted(y, m, d) ==
  LET Y == y + 8000
      JD == Y * 365 + Y \div 4 - Y \div 100 + Y \div 400 - 1200820
            + (m * 153 + 3) \div 5 - 92 + (d - 1)
  IN JD - 2400001

\* From 1858-11-17 on JD is above 2400000, so that JD - 2400000.5 is positive
\* and the conversion takes off the half that is left.
gregorian2mjd(y, m, d) ==
  LET early == m < 3
      Y == IF early THEN y + 7999 ELSE y + 8000
      M == IF early THEN m + 12 ELSE m
      JD == Y * 365 + Y \div 4 - Y \div 100 + Y \div 400 - 1200820
            + (M * 153 + 3) \div 5 - 92 + (d - 1)
  IN JD - 2400001

-----------------------------------------------------------------------------
Leap(y) == y % 4 = 0 /\ (y % 100 # 0 \/ y % 400 = 0)

DaysIn(y, m) ==
  IF m = 2 /\ Leap(y) THEN 29
  ELSE <<31, 28, 31, 30, 31, 30, 31, 31, 30, 31, 30, 31>>[m]

\* The epoch of the modified Julian date.
DateInit == year = 1858 /\ month = 11 /\ day = 17 /\ days = 0

Tomorrow ==
  /\ year <= LastYear
  /\ days' = days + 1
  /\ \/ /\ day < DaysIn(year, month)
        /\ day' = day + 1
        /\ UNCHANGED <<year, month>>
     \/ /\ day = DaysIn(year, month)
        /\ day' = 1
        /\ month' = (month % 12) + 1
        /\ year' = IF month = 12 THEN year + 1 ELSE year

DateSpec == DateInit /\ [][Tomorrow]_dvars

-----------------------------------------------------------------------------
\* "Convert a date and time into the modified Julian date": the MJD of every
\* day is the number of days from the epoch, over leap years and centuries.
MjdCountsDays == gregorian2mjd(year, month, day) = days
=============================================================================
