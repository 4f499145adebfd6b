----------------------------- MODULE LocalDates -----------------------------
(***************************************************************************)
(* Civil dates of the proleptic Gregorian calendar, without a host time    *)
(* zone.  The rate engine and the calendar import count days with the same *)
(* arithmetic, each in a copy of its own: years begin in March, so that a  *)
(* leap day is the last of its year.                                       *)
(***************************************************************************)
EXTENDS Integers

Date(y, m, d) == [year |-> y, month |-> m, day |-> d]

\* What the patterns of a date read: three numbers, not yet a date.
DateParts == [year : Nat, month : Nat, day : Nat]

MinYear == 1
MaxYear == 9999

IsLeapYear(y) == y % 4 = 0 /\ (y % 100 # 0 \/ y % 400 = 0)

DaysInMonth(y, m) ==
  IF m = 2 THEN IF IsLeapYear(y) THEN 29 ELSE 28
  ELSE IF m \in {4, 6, 9, 11} THEN 30 ELSE 31

\* daysFromCivil, dayNumber: days since 1 March of year 0.
DayNumber(date) ==
  LET y   == date.year - (IF date.month <= 2 THEN 1 ELSE 0)
      era == y \div 400
      yoe == y - era * 400
      m   == date.month + (IF date.month > 2 THEN -3 ELSE 9)
      doy == (153 * m + 2) \div 5 + date.day - 1
  IN  era * 146097 + yoe * 365 + yoe \div 4 - yoe \div 100 + doy

\* civilFromDays.
CivilFromDays(n) ==
  LET era == n \div 146097
      doe == n - era * 146097
      yoe == (doe - doe \div 1460 + doe \div 36524 - doe \div 146096) \div 365
      doy == doe - (365 * yoe + yoe \div 4 - yoe \div 100)
      mp  == (5 * doy + 2) \div 153
      m   == mp + (IF mp < 10 THEN 3 ELSE -9)
  IN  Date(yoe + era * 400 + (IF m <= 2 THEN 1 ELSE 0), m, doy - (153 * mp + 2) \div 5 + 1)

\* parseLocalDate, parseDateProperty: the day is compared with its month.
ValidDate(date) ==
  /\ date.year \in MinYear .. MaxYear
  /\ date.month \in 1 .. 12
  /\ date.day \in 1 .. DaysInMonth(date.year, date.month)

\* validDate: the day is compared with the day numbers of two months.
ValidByCounting(date) ==
  /\ date.year \in MinYear .. MaxYear
  /\ date.month \in 1 .. 12
  /\ date.day \in 1 .. 31
  /\ DayNumber(date) >= DayNumber(Date(date.year, date.month, 1))
  /\ DayNumber(date) < IF date.month = 12
                       THEN DayNumber(Date(date.year + 1, 1, 1))
                       ELSE DayNumber(Date(date.year, date.month + 1, 1))

-----------------------------------------------------------------------------
(* What the arithmetic is meant to compute *)

\* The day after, by the calendar.
NextDay(date) ==
  IF date.day < DaysInMonth(date.year, date.month) THEN [date EXCEPT !.day = @ + 1]
  ELSE IF date.month < 12 THEN Date(date.year, date.month + 1, 1)
  ELSE Date(date.year + 1, 1, 1)

\* Local date strings of one width compare as their dates do.
Earlier(a, b) ==
  \/ a.year < b.year
  \/ a.year = b.year /\ a.month < b.month
  \/ a.year = b.year /\ a.month = b.month /\ a.day < b.day

\* n days after a date, one day at a time.
DaysAfter(date, n) ==
  LET walk[k \in 0 .. n] == IF k = 0 THEN date ELSE NextDay(walk[k - 1])
  IN  walk[n]
=============================================================================
