--------------------------- MODULE LocalDatesProofs ---------------------------
(***************************************************************************)
(* Proofs about the dates, and about the two components that compute with   *)
(* them: requestToBook, which prices the nights of a stay, and the fetch    *)
(* and parse of a calendar, which reads stays and those that were exported. *)
(* They hold for any callers, bodies, plans and edits, and for any urls,    *)
(* resolver, server and documents.                                          *)
(*                                                                         *)
(* The models fold over nights, characters, lines and events; what a fold   *)
(* computes is told by Folding, instantiated below for each operator that   *)
(* is folded.                                                              *)
(***************************************************************************)
EXTENDS RequestToBook, ICalFeed, SequenceTheorems, FiniteSetTheorems, TLAPS

-----------------------------------------------------------------------------
(* Counting days *)

\* A date of any year from the first on.
IsDate(d) ==
  /\ d = Date(d.year, d.month, d.day)
  /\ d.year \in Nat \ {0} /\ d.month \in 1 .. 12
  /\ d.day \in 1 .. DaysInMonth(d.year, d.month)

\* Three numbers that are valid are a date.
LEMMA ValidDatesAreDates ==
  ASSUME NEW d \in DateParts, ValidDate(d)
  PROVE  IsDate(d)
BY DEF DateParts, ValidDate, IsDate, Date, MinYear

\* The day after a date is a date.
LEMMA NextDayIsADate ==
  ASSUME NEW d, IsDate(d)
  PROVE  IsDate(NextDay(d))
BY DEF IsDate, NextDay, DaysInMonth, Date

\* Days from 1 March of year 0 to 1 March of year y.
Marches(y) == 365 * y + y \div 4 - y \div 100 + y \div 400

\* Days from 1 March to the day of month m (March being 0).
DayOfYear(m, day) == (153 * m + 2) \div 5 + day - 1

MonthIndex(month) == month + (IF month > 2 THEN -3 ELSE 9)

\* The year a date lies in when years begin in March.
YearOf(d) == d.year - (IF d.month <= 2 THEN 1 ELSE 0)

\* Cutting a year into its era and its year of the era changes no count.
LEMMA YearStart ==
  ASSUME NEW y \in Nat, NEW era, era = y \div 400, NEW yoe, yoe = y - era * 400
  PROVE  era * 146097 + yoe * 365 + yoe \div 4 - yoe \div 100 = Marches(y)
BY DEF Marches

\* DayNumber without eras.
LEMMA DayNumberIsMarches ==
  ASSUME NEW d, IsDate(d)
  PROVE  DayNumber(d) = Marches(YearOf(d)) + DayOfYear(MonthIndex(d.month), d.day)
<1> DEFINE y   == YearOf(d)
           era == y \div 400
           yoe == y - era * 400
           n   == DayOfYear(MonthIndex(d.month), d.day)
<1>1. y \in Nat
  BY DEF IsDate, YearOf
<1>2. n \in Int
  BY DEF IsDate, DayOfYear, MonthIndex, DaysInMonth
<1>3. DayNumber(d) = era * 146097 + yoe * 365 + yoe \div 4 - yoe \div 100 + n
  BY SMT DEF DayNumber, YearOf, DayOfYear, MonthIndex, IsDate
<1> HIDE DEF y, n
<1>4. era * 146097 + yoe * 365 + yoe \div 4 - yoe \div 100 = Marches(y)
  BY <1>1, YearStart, SMT
<1> QED BY <1>1, <1>2, <1>3, <1>4, SMT DEF y, n

\* The arithmetic counts one day for the day after, over leap years too.
LEMMA NextDayCountsOne ==
  ASSUME NEW d, IsDate(d)
  PROVE  DayNumber(NextDay(d)) = DayNumber(d) + 1
<1>1. IsDate(NextDay(d))
  BY NextDayIsADate
<1>2. /\ DayNumber(d) = Marches(YearOf(d)) + DayOfYear(MonthIndex(d.month), d.day)
      /\ DayNumber(NextDay(d)) = Marches(YearOf(NextDay(d)))
                                   + DayOfYear(MonthIndex(NextDay(d).month), NextDay(d).day)
  BY <1>1, DayNumberIsMarches
<1>3. \A y \in Nat : Marches(y + 1) = Marches(y) + 365 + (IF IsLeapYear(y + 1) THEN 1 ELSE 0)
  BY DEF Marches, IsLeapYear
<1>4. CASE d.day < DaysInMonth(d.year, d.month)
  <2>1. NextDay(d) = Date(d.year, d.month, d.day + 1)
    BY <1>4 DEF IsDate, NextDay, Date
  <2>2. YearOf(NextDay(d)) = YearOf(d) /\ YearOf(d) \in Nat
    BY <2>1 DEF YearOf, IsDate, Date
  <2>3. DayOfYear(MonthIndex(NextDay(d).month), NextDay(d).day)
          = DayOfYear(MonthIndex(d.month), d.day) + 1
    BY <2>1 DEF DayOfYear, MonthIndex, Date, IsDate, DaysInMonth
  <2>4. Marches(YearOf(d)) \in Int /\ DayOfYear(MonthIndex(d.month), d.day) \in Int
    BY <2>2 DEF Marches, IsDate, DayOfYear, MonthIndex, DaysInMonth
  <2> QED BY <1>2, <2>2, <2>3, <2>4
<1>5. CASE d.day = DaysInMonth(d.year, d.month)
  <2>1. CASE d.month = 2
    <3>1. NextDay(d) = Date(d.year, 3, 1)
      BY <1>5, <2>1 DEF IsDate, NextDay, Date, DaysInMonth
    <3>2. /\ YearOf(d) = d.year - 1 /\ YearOf(NextDay(d)) = d.year
          /\ d.year - 1 \in Nat /\ d.year = (d.year - 1) + 1
      BY <3>1, <2>1 DEF IsDate, YearOf, Date
    <3>3. DayOfYear(MonthIndex(d.month), d.day) = 364 + (IF IsLeapYear(d.year) THEN 1 ELSE 0)
      BY <1>5, <2>1 DEF IsDate, DayOfYear, MonthIndex, DaysInMonth
    <3>4. DayOfYear(MonthIndex(NextDay(d).month), NextDay(d).day) = 0
      BY <3>1 DEF DayOfYear, MonthIndex, Date
    <3>5. Marches(d.year) = Marches(d.year - 1) + 365 + (IF IsLeapYear(d.year) THEN 1 ELSE 0)
      BY <3>2, <1>3
    <3>6. Marches(d.year - 1) \in Int
      BY <3>2 DEF Marches
    <3> QED BY <1>2, <3>2, <3>3, <3>4, <3>5, <3>6
  <2>2. CASE d.month # 2
    <3>1. NextDay(d) = Date(IF d.month = 12 THEN d.year + 1 ELSE d.year,
                            IF d.month = 12 THEN 1 ELSE d.month + 1, 1)
      BY <1>5, <2>2 DEF IsDate, NextDay, Date, DaysInMonth
    <3>2. YearOf(NextDay(d)) = YearOf(d) /\ YearOf(d) \in Nat
      BY <3>1, <2>2 DEF YearOf, IsDate, Date
    <3>3. DayOfYear(MonthIndex(NextDay(d).month), 1) = DayOfYear(MonthIndex(d.month), d.day) + 1
      BY <1>5, <2>2, <3>1 DEF DayOfYear, MonthIndex, Date, IsDate, DaysInMonth
    <3>4. NextDay(d).day = 1
      BY <3>1 DEF Date
    <3>5. Marches(YearOf(d)) \in Int /\ DayOfYear(MonthIndex(d.month), d.day) \in Int
      BY <3>2 DEF Marches, IsDate, DayOfYear, MonthIndex
    <3> QED BY <1>2, <3>2, <3>3, <3>4, <3>5
  <2> QED BY <2>1, <2>2
<1> QED BY <1>4, <1>5 DEF IsDate, DaysInMonth

\* A later year begins after all days of an earlier one.
LEMMA MarchesGrow ==
  ASSUME NEW x \in Nat, NEW y \in Nat, x < y
  PROVE  Marches(y) >= Marches(x) + 365 + (IF IsLeapYear(x + 1) THEN 1 ELSE 0)
<1>1. y \div 4 - y \div 100 + y \div 400 >= (x + 1) \div 4 - (x + 1) \div 100 + (x + 1) \div 400
  OBVIOUS
<1>2. Marches(y) >= Marches(x + 1)
  BY <1>1 DEF Marches
<1>3. Marches(x + 1) = Marches(x) + 365 + (IF IsLeapYear(x + 1) THEN 1 ELSE 0)
  BY DEF Marches, IsLeapYear
<1> QED BY <1>2, <1>3 DEF Marches

\* The days of a year are numbered from 0 to its length.
LEMMA DayOfYearBounds ==
  ASSUME NEW d, IsDate(d)
  PROVE  DayOfYear(MonthIndex(d.month), d.day)
           \in 0 .. 364 + (IF IsLeapYear(YearOf(d) + 1) THEN 1 ELSE 0)
BY DEF IsDate, DayOfYear, MonthIndex, DaysInMonth, YearOf

\* The count grows with the date.
LEMMA EarlierIsLess ==
  ASSUME NEW a, NEW b, IsDate(a), IsDate(b), Earlier(a, b)
  PROVE  DayNumber(a) < DayNumber(b)
<1> DEFINE n(d) == DayOfYear(MonthIndex(d.month), d.day)
<1>1. YearOf(a) \in Nat /\ YearOf(b) \in Nat
  BY DEF YearOf, IsDate
<1>2. CASE YearOf(a) = YearOf(b)
  <2>1. n(a) < n(b)
    BY <1>2 DEF YearOf, IsDate, Earlier, DayOfYear, MonthIndex, DaysInMonth
  <2>2. n(a) \in Int /\ n(b) \in Int /\ Marches(YearOf(a)) \in Int
    BY <1>1, DayOfYearBounds DEF Marches
  <2> HIDE DEF n
  <2>3. DayNumber(a) = Marches(YearOf(a)) + n(a) /\ DayNumber(b) = Marches(YearOf(b)) + n(b)
    BY DayNumberIsMarches DEF n
  <2> QED BY <1>2, <2>1, <2>2, <2>3
<1>3. CASE YearOf(a) # YearOf(b)
  <2>1. YearOf(a) < YearOf(b)
    BY <1>3 DEF YearOf, IsDate, Earlier
  <2>2. Marches(YearOf(b))
          >= Marches(YearOf(a)) + 365 + (IF IsLeapYear(YearOf(a) + 1) THEN 1 ELSE 0)
    BY <1>1, <2>1, MarchesGrow
  <2>3. n(a) \in 0 .. 364 + (IF IsLeapYear(YearOf(a) + 1) THEN 1 ELSE 0) /\ n(b) \in Nat
    BY DayOfYearBounds
  <2>4. Marches(YearOf(a)) \in Int /\ Marches(YearOf(b)) \in Int
    BY <1>1 DEF Marches
  <2> HIDE DEF n
  <2>5. DayNumber(a) = Marches(YearOf(a)) + n(a) /\ DayNumber(b) = Marches(YearOf(b)) + n(b)
    BY DayNumberIsMarches DEF n
  <2> QED BY <2>2, <2>3, <2>4, <2>5
<1> QED BY <1>2, <1>3

\* Of two dates one is the earlier, or they are one.
LEMMA DatesAreOrdered ==
  ASSUME NEW a, NEW b, IsDate(a), IsDate(b)
  PROVE  a = b \/ Earlier(a, b) \/ Earlier(b, a)
BY DEF IsDate, Earlier, Date

\* The count is a number.
LEMMA DayNumberIsInt ==
  ASSUME NEW d, IsDate(d)
  PROVE  DayNumber(d) \in Int
<1>1. YearOf(d) \in Nat
  BY DEF YearOf, IsDate
<1>2. DayOfYear(MonthIndex(d.month), d.day) \in Int
  BY DayOfYearBounds
<1>3. Marches(YearOf(d)) \in Int
  BY <1>1 DEF Marches
<1> QED BY <1>2, <1>3, DayNumberIsMarches

\* Comparing the numbers of days is comparing dates, and no two dates share one.
LEMMA DayNumbersAreDates ==
  ASSUME NEW a, NEW b, IsDate(a), IsDate(b)
  PROVE  /\ Earlier(a, b) <=> DayNumber(a) < DayNumber(b)
         /\ a = b <=> DayNumber(a) = DayNumber(b)
<1>1. DayNumber(a) \in Int /\ DayNumber(b) \in Int
  BY DayNumberIsInt
<1> QED BY <1>1, EarlierIsLess, DatesAreOrdered

-----------------------------------------------------------------------------
(* Counting back: civilFromDays undoes daysFromCivil *)

\* Day n of year y of an era, and the year a day of an era lies in.
DayOfEra(y, n) == y * 365 + y \div 4 - y \div 100 + n
YearInEra(doe) == (doe - doe \div 1460 + doe \div 36524 - doe \div 146096) \div 365

YearLength(y) == 365 + (IF IsLeapYear(y + 1) THEN 1 ELSE 0)

\* The days of an era give their year back.
LEMMA EraYears ==
  ASSUME NEW y \in Nat, y < 400, NEW n \in Nat, n < YearLength(y)
  PROVE  YearInEra(DayOfEra(y, n)) = y
<1>1. n \in 0 .. 364 + (IF (y + 1) % 4 = 0 /\ ((y + 1) % 100 # 0 \/ (y + 1) % 400 = 0)
                        THEN 1 ELSE 0)
  BY DEF YearLength, IsLeapYear
<1> DEFINE doe == DayOfEra(y, n)
<1>2. doe = y * 365 + y \div 4 - y \div 100 + n
  BY DEF DayOfEra
<1> HIDE DEF doe
<1>3. (doe - doe \div 1460 + doe \div 36524 - doe \div 146096) \div 365 = y
  BY <1>1, <1>2, SMT
<1> QED BY <1>3 DEF YearInEra, doe

\* No day of an era is past its end ...
LEMMA EraDays ==
  ASSUME NEW y \in Nat, y < 400, NEW n \in Nat, n < YearLength(y)
  PROVE  DayOfEra(y, n) \in Nat /\ DayOfEra(y, n) < 146097
<1>1. n \in 0 .. 365
  BY DEF YearLength
<1>2. y * 365 + y \div 4 - y \div 100 + n <= 146096
  BY <1>1, SMT
<1>3. y * 365 + y \div 4 - y \div 100 + n \in Nat
  BY <1>1, SMT
<1> QED BY <1>2, <1>3, SMT DEF DayOfEra

\* ... so that the number of a day gives its era back.
LEMMA DaysOfEras ==
  ASSUME NEW era \in Nat, NEW doe \in Nat, doe < 146097
  PROVE  (era * 146097 + doe) \div 146097 = era
BY SMT

\* The day of a year gives the month and its day back.
LEMMA MonthOfDay ==
  ASSUME NEW d, IsDate(d), NEW doy, doy = DayOfYear(MonthIndex(d.month), d.day)
  PROVE  LET mp == (5 * doy + 2) \div 153
         IN  mp = MonthIndex(d.month) /\ doy - (153 * mp + 2) \div 5 + 1 = d.day
BY DEF IsDate, DayOfYear, MonthIndex, DaysInMonth

\* CivilFromDays, from the year and from the era on.
CivilInYear(y, doy) ==
  LET mp == (5 * doy + 2) \div 153
      m  == mp + (IF mp < 10 THEN 3 ELSE -9)
  IN  Date(y + (IF m <= 2 THEN 1 ELSE 0), m, doy - (153 * mp + 2) \div 5 + 1)

CivilInEra(era, doe) ==
  CivilInYear(YearInEra(doe) + era * 400,
              doe - (365 * YearInEra(doe) + YearInEra(doe) \div 4 - YearInEra(doe) \div 100))

\* CivilFromDays cuts the number of days into eras first,
LEMMA CivilByEra ==
  ASSUME NEW n
  PROVE  CivilFromDays(n) = CivilInEra(n \div 146097, n - (n \div 146097) * 146097)
BY SMT DEF CivilFromDays, CivilInEra, CivilInYear, YearInEra

\* then the era into years,
LEMMA CivilByYear ==
  ASSUME NEW era \in Nat, NEW y \in Nat, y < 400, NEW n \in Nat, n < YearLength(y)
  PROVE  CivilInEra(era, DayOfEra(y, n)) = CivilInYear(y + era * 400, n)
<1> DEFINE doe == DayOfEra(y, n)
<1>1. YearInEra(doe) = y
  BY EraYears, SMT
<1>2. doe - (365 * y + y \div 4 - y \div 100) = n
  BY SMT DEF DayOfEra
<1> HIDE DEF doe
<1>3. CivilInEra(era, doe) = CivilInYear(y + era * 400, doe - (365 * y + y \div 4 - y \div 100))
  BY <1>1, SMT DEF CivilInEra
<1>4. CivilInEra(era, doe) = CivilInYear(y + era * 400, n)
  BY <1>2, <1>3, SMT
<1> QED BY <1>4, SMT DEF doe

\* then the year into months.
LEMMA DayOfYearUndone ==
  ASSUME NEW d, IsDate(d)
  PROVE  CivilInYear(YearOf(d), DayOfYear(MonthIndex(d.month), d.day)) = d
<1> DEFINE doy == DayOfYear(MonthIndex(d.month), d.day)
           mp == (5 * doy + 2) \div 153
<1>1. mp = MonthIndex(d.month) /\ doy - (153 * mp + 2) \div 5 + 1 = d.day
  BY MonthOfDay
<1> HIDE DEF doy
<1>2. CivilInYear(YearOf(d), doy) =
        Date(YearOf(d) + (IF mp + (IF mp < 10 THEN 3 ELSE -9) <= 2 THEN 1 ELSE 0),
             mp + (IF mp < 10 THEN 3 ELSE -9), doy - (153 * mp + 2) \div 5 + 1)
  BY DEF CivilInYear
<1> HIDE DEF mp
<1>3. mp + (IF mp < 10 THEN 3 ELSE -9) = d.month
  BY <1>1 DEF MonthIndex, IsDate
<1>4. YearOf(d) + (IF d.month <= 2 THEN 1 ELSE 0) = d.year
  BY DEF YearOf, IsDate
<1>5. CivilInYear(YearOf(d), doy) = Date(d.year, d.month, d.day)
  BY <1>1, <1>2, <1>3, <1>4
<1> QED BY <1>5 DEF IsDate, doy

\* DayNumber put them together in this way.
LEMMA DayNumberByEra ==
  ASSUME NEW d, IsDate(d)
  PROVE  \E era \in Nat, y \in Nat, n \in Nat :
           /\ y < 400
           /\ n < YearLength(y)
           /\ y + era * 400 = YearOf(d)
           /\ n = DayOfYear(MonthIndex(d.month), d.day)
           /\ DayNumber(d) = era * 146097 + DayOfEra(y, n)
<1> DEFINE y   == YearOf(d)
           era == y \div 400
           yoe == y - era * 400
           doy == DayOfYear(MonthIndex(d.month), d.day)
<1>1. y \in Nat /\ era \in Nat /\ yoe \in Nat /\ yoe < 400 /\ y = yoe + era * 400
  <2>1. y \in Nat
    BY DEF YearOf, IsDate
  <2> HIDE DEF y
  <2> QED BY <2>1, SMT
<1>2. DayNumber(d) = era * 146097 + DayOfEra(yoe, doy)
  <2>1. d.year \in Int /\ d.month \in Int /\ d.day \in Int
    BY DEF IsDate, DaysInMonth
  <2> QED BY <2>1, SMT DEF DayNumber, YearOf, DayOfYear, MonthIndex, DayOfEra
<1>3. doy \in Nat /\ doy < YearLength(yoe)
  <2>1. IsLeapYear(y + 1) <=> IsLeapYear(yoe + 1)
    <3> HIDE DEF yoe, era, y
    <3> QED BY <1>1, SMT DEF IsLeapYear
  <2> QED BY <2>1, DayOfYearBounds, SMT DEF YearLength
<1> HIDE DEF era, yoe, doy
<1>4. /\ doy < YearLength(yoe)
      /\ yoe + era * 400 = YearOf(d)
      /\ doy = DayOfYear(MonthIndex(d.month), d.day)
      /\ DayNumber(d) = era * 146097 + DayOfEra(yoe, doy)
  BY <1>1, <1>2, <1>3, SMT DEF doy
<1> QED BY <1>1, <1>3, <1>4, SMT

\* Every date is the date of its number of days (civilFromDays of daysFromCivil).
LEMMA CivilUndoesDayNumber ==
  ASSUME NEW d, IsDate(d)
  PROVE  CivilFromDays(DayNumber(d)) = d
<1>1. PICK era \in Nat, y \in Nat, n \in Nat :
           /\ y < 400
           /\ n < YearLength(y)
           /\ y + era * 400 = YearOf(d)
           /\ n = DayOfYear(MonthIndex(d.month), d.day)
           /\ DayNumber(d) = era * 146097 + DayOfEra(y, n)
  BY DayNumberByEra, SMT
<1> DEFINE doe == DayOfEra(y, n)
<1>2. doe \in Nat /\ doe < 146097
  BY <1>1, EraDays, SMT
<1>3. CivilInEra(era, doe) = d
  <2>1. CivilInEra(era, doe) = CivilInYear(y + era * 400, n)
    BY <1>1, CivilByYear, SMT
  <2>2. CivilInYear(YearOf(d), DayOfYear(MonthIndex(d.month), d.day)) = d
    BY DayOfYearUndone, SMT
  <2> QED BY <1>1, <2>1, <2>2, SMT
<1> HIDE DEF doe
<1>4. (era * 146097 + doe) \div 146097 = era
  BY <1>2, DaysOfEras, SMT
<1>5. era * 146097 + doe - era * 146097 = doe
  BY <1>2, SMT
<1> DEFINE n2 == era * 146097 + doe
<1>6. CivilFromDays(n2) = CivilInEra(n2 \div 146097, n2 - (n2 \div 146097) * 146097)
  BY CivilByEra, SMT
<1>7. n2 \div 146097 = era /\ n2 - era * 146097 = doe
  BY <1>2, <1>4, <1>5, SMT
<1> HIDE DEF n2
<1>8. CivilFromDays(n2) = d
  BY <1>3, <1>6, <1>7, SMT
<1>9. DayNumber(d) = n2
  BY <1>1, SMT DEF n2, doe
<1> QED BY <1>8, <1>9, SMT

-----------------------------------------------------------------------------
(* Walking from day to day *)

Sums == INSTANCE Folding WITH Op <- +

\* w holds the first n days after d, and d.
IsWalk(w, d, n) == w = [k \in 0 .. n |-> IF k = 0 THEN d ELSE NextDay(w[k - 1])]

\* There is a walk of n days from any date ...
LEMMA WalksExist ==
  ASSUME NEW d, NEW n \in Nat
  PROVE  \E w : IsWalk(w, d, n)
<1> DEFINE S == {k \in Nat : \E w : IsWalk(w, d, k)}
<1>1. 0 \in S
  <2> DEFINE w == [k \in 0 .. 0 |-> d]
  <2>1. IsWalk(w, d, 0)
    BY DEF IsWalk
  <2> QED BY <2>1
<1>2. ASSUME NEW k \in Nat, k \in S
      PROVE  k + 1 \in S
  <2>1. PICK w : IsWalk(w, d, k)
    BY <1>2
  <2> DEFINE u == [j \in 0 .. k + 1 |-> IF j \in 0 .. k THEN w[j] ELSE NextDay(w[k])]
  <2>2. ASSUME NEW j \in 0 .. k + 1
        PROVE  u[j] = IF j = 0 THEN d ELSE NextDay(u[j - 1])
    <3>1. CASE j \in 0 .. k
      <4>1. w[j] = IF j = 0 THEN d ELSE NextDay(w[j - 1])
        BY <2>1, <3>1 DEF IsWalk
      <4>2. u[j] = w[j] /\ (j # 0 => u[j - 1] = w[j - 1])
        BY <3>1
      <4> QED BY <4>1, <4>2
    <3>2. CASE j = k + 1
      <4>1. u[j] = NextDay(w[k]) /\ u[j - 1] = w[k] /\ j # 0
        BY <3>2
      <4> QED BY <4>1
    <3> QED BY <3>1, <3>2
  <2> DEFINE v == [j \in 0 .. k + 1 |-> IF j = 0 THEN d ELSE NextDay(u[j - 1])]
  <2>3. u = v
    <3>1. \A j \in 0 .. k + 1 : u[j] = v[j]
      BY <2>2
    <3> QED BY <3>1
  <2>4. IsWalk(u, d, k + 1)
    <3> HIDE DEF u
    <3> QED BY <2>3 DEF IsWalk
  <2> QED BY <2>4
<1> HIDE DEF S
<1>3. Nat \subseteq S
  BY <1>1, <1>2, Sums!NaturalInduction
<1> QED BY <1>3 DEF S

\* ... and each day of it is a date that is counted one further.
LEMMA DaysAfterCounts ==
  ASSUME NEW d, IsDate(d), NEW n \in Nat
  PROVE  IsDate(DaysAfter(d, n)) /\ DayNumber(DaysAfter(d, n)) = DayNumber(d) + n
<1> DEFINE w == CHOOSE w : IsWalk(w, d, n)
<1>1. IsWalk(w, d, n)
  BY WalksExist
<1>2. DaysAfter(d, n) = w[n]
  BY DEF DaysAfter, IsWalk
<1> HIDE DEF w
<1> DEFINE S == {k \in 0 .. n : IsDate(w[k]) /\ DayNumber(w[k]) = DayNumber(d) + k}
<1>3. DayNumber(d) \in Int
  BY DayNumberIsInt
<1>4. 0 \in S
  BY <1>1, <1>3 DEF IsWalk
<1>5. ASSUME NEW k \in 1 .. n, k - 1 \in S
      PROVE  k \in S
  <2>1. w[k] = NextDay(w[k - 1])
    BY <1>1 DEF IsWalk
  <2> QED BY <1>3, <1>5, <2>1, NextDayIsADate, NextDayCountsOne
<1> HIDE DEF S
<1>6. n \in S
  BY <1>4, <1>5, Sums!InductionUpTo
<1> QED BY <1>2, <1>6 DEF S

Pricing == INSTANCE Folding WITH Op <- AddNight

-----------------------------------------------------------------------------
(* Quotes *)

\* A stay between two dates.
IsStay(s) ==
  /\ s.arrival \in DateParts /\ s.departure \in DateParts
  /\ IntervalErrors(s) = {}

\* A stay without an error is some nights between two dates.
LEMMA StaysHaveNights ==
  ASSUME NEW s, IsStay(s)
  PROVE  /\ IsDate(s.arrival) /\ IsDate(s.departure)
         /\ NightsOf(s) \in 1 .. MaxStay
         /\ DayNumber(s.departure) = DayNumber(s.arrival) + NightsOf(s)
         /\ DayNumber(s.arrival) \in Int
<1>1. ValidDate(s.arrival) /\ ValidDate(s.departure)
  BY DEF IsStay, IntervalErrors
<1>2. IsDate(s.arrival) /\ IsDate(s.departure)
  BY <1>1, ValidDatesAreDates DEF IsStay
<1>3. DayNumber(s.arrival) \in Int /\ DayNumber(s.departure) \in Int
  BY <1>2, DayNumberIsInt
<1>4. ~(NightsOf(s) <= 0) /\ ~(NightsOf(s) > MaxStay)
  BY <1>1 DEF IsStay, IntervalErrors, If
<1> QED BY <1>2, <1>3, <1>4, RateLimitsAssumption DEF NightsOf

\* Counting nights from the arrival is walking from it.
LEMMA OffsetsAreDays ==
  ASSUME NEW s, IsStay(s), NEW k \in Nat
  PROVE  DateAtOffset(s, k) = DaysAfter(s.arrival, k)
<1>1. IsDate(s.arrival)
  BY StaysHaveNights
<1>2. /\ IsDate(DaysAfter(s.arrival, k))
      /\ DayNumber(DaysAfter(s.arrival, k)) = DayNumber(s.arrival) + k
  BY <1>1, DaysAfterCounts
<1> QED BY <1>2, CivilUndoesDayNumber DEF DateAtOffset

\* The nights of a stay are those counted from its arrival, each once.
LEMMA NightsOfStay ==
  ASSUME NEW s, IsStay(s)
  PROVE  /\ StayNights(s) = {DateAtOffset(s, k) : k \in 0 .. NightsOf(s) - 1}
         /\ Cardinality(StayNights(s)) = NightsOf(s)
<1> DEFINE n      == NightsOf(s)
           day(k) == DaysAfter(s.arrival, k)
<1>1. /\ IsDate(s.arrival) /\ IsDate(s.departure)
      /\ n \in 1 .. MaxStay /\ DayNumber(s.arrival) \in Int
      /\ DayNumber(s.departure) = DayNumber(s.arrival) + n
  BY StaysHaveNights
<1>2. ASSUME NEW k \in Nat
      PROVE  /\ IsDate(day(k)) /\ DayNumber(day(k)) = DayNumber(s.arrival) + k
             /\ Earlier(day(k), s.departure) <=> k < n
  <2>1. IsDate(day(k)) /\ DayNumber(day(k)) = DayNumber(s.arrival) + k
    BY <1>1, DaysAfterCounts
  <2>2. Earlier(day(k), s.departure) <=> DayNumber(day(k)) < DayNumber(s.departure)
    BY <1>1, <2>1, DayNumbersAreDates
  <2> QED BY <1>1, <2>1, <2>2
<1>3. {k \in 0 .. MaxStay - 1 : Earlier(day(k), s.departure)} = 0 .. n - 1
  BY <1>1, <1>2, RateLimitsAssumption
<1>4. StayNights(s) = {day(k) : k \in 0 .. n - 1}
  BY <1>3 DEF StayNights
<1>5. \A k \in 0 .. n - 1 : day(k) = DateAtOffset(s, k)
  BY <1>1, OffsetsAreDays
<1>6. StayNights(s) = {DateAtOffset(s, k) : k \in 0 .. n - 1}
  BY <1>4, <1>5
<1>7. Cardinality(StayNights(s)) = n
  <2> DEFINE f == [i \in 1 .. n |-> day(i - 1)]
  <2>1. \A i, j \in 1 .. n : f[i] = f[j] => i = j
    <3> SUFFICES ASSUME NEW i \in 1 .. n, NEW j \in 1 .. n, day(i - 1) = day(j - 1)
                 PROVE  i = j
      OBVIOUS
    <3>1. i - 1 \in Nat /\ j - 1 \in Nat
      BY <1>1
    <3>2. DayNumber(s.arrival) + (i - 1) = DayNumber(s.arrival) + (j - 1)
      BY <1>2, <3>1
    <3> QED BY <1>1, <3>2
  <2>2. \A x \in StayNights(s) : \E i \in 1 .. n : f[i] = x
    <3> SUFFICES ASSUME NEW k \in 0 .. n - 1 PROVE \E i \in 1 .. n : f[i] = day(k)
      BY <1>4
    <3>1. k + 1 \in 1 .. n /\ (k + 1) - 1 = k
      BY <1>1
    <3> QED BY <3>1
  <2>3. \A i \in 1 .. n : f[i] \in StayNights(s)
    <3> SUFFICES ASSUME NEW i \in 1 .. n PROVE day(i - 1) \in {day(k) : k \in 0 .. n - 1}
      BY <1>4
    <3>1. i - 1 \in 0 .. n - 1
      BY <1>1
    <3> HIDE DEF day
    <3> QED BY <3>1
  <2>4. f \in [1 .. n -> StayNights(s)]
    BY <2>3
  <2> HIDE DEF f
  <2>5. f \in Bijection(1 .. n, StayNights(s))
    BY <2>1, <2>2, <2>4 DEF Bijection, Injection, Surjection, IsInjective
  <2>6. ExistsBijection(1 .. n, StayNights(s)) /\ n \in Nat
    BY <1>1, <2>5 DEF ExistsBijection
  <2> QED BY <2>6, FS_CountingElements
<1> QED BY <1>6, <1>7

\* A plan without errors whose seasons have indices.
IsPlan(p) == DOMAIN p.seasons \subseteq Int /\ PlanErrors(p) = {}

\* Its amounts are amounts, and its seasons intervals that do not overlap.
LEMMA PlansAreSound ==
  ASSUME NEW p, IsPlan(p)
  PROVE  /\ p.base \in Nat /\ p.cleaning \in Nat
         /\ p.minimumStay \in 1 .. MaxStay
         /\ \A i \in DOMAIN p.seasons : Comparable(p.seasons[i])
         /\ ~Crowded(p.seasons)
<1>1. IsAmount(p.base) /\ IsAmount(p.cleaning) /\ p.minimumStay \in 1 .. MaxStay
  BY DEF IsPlan, PlanErrors, If
<1>2. ~(Len(p.seasons) > MaxOverrides)
  BY DEF IsPlan, PlanErrors
<1>3. /\ UNION {IntervalErrors(s) \cup If(~IsAmount(s.rate), "invalid_minor_amount") :
                  s \in ToSet(p.seasons)} = {}
      /\ If(Crowded(p.seasons), "overlapping_override") = {}
  BY <1>2 DEF IsPlan, PlanErrors
<1>4. ASSUME NEW i \in DOMAIN p.seasons
      PROVE  Comparable(p.seasons[i])
  <2>1. p.seasons[i] \in ToSet(p.seasons)
    BY DEF ToSet
  <2>2. /\ IntervalErrors(p.seasons[i]) = {}
        /\ If(~IsAmount(p.seasons[i].rate), "invalid_minor_amount") = {}
    BY <1>3, <2>1
  <2> QED BY <2>2 DEF Comparable, If
<1> QED BY <1>1, <1>3, <1>4, RateLimitsAssumption DEF If, IsAmount

\* Between two dates of which one is not after a day and the other is, the
\* first is the earlier.
LEMMA NotAfterIsEarlier ==
  ASSUME NEW a, NEW b, NEW d, ValidDate(a), ValidDate(b), IsDate(d),
         ~Earlier(d, a), Earlier(d, b)
  PROVE  Earlier(a, b)
<1>1. /\ a.year \in Int /\ a.month \in Int /\ a.day \in Int
      /\ b.year \in Int /\ b.month \in Int /\ b.day \in Int
      /\ d.year \in Int /\ d.month \in Int /\ d.day \in Int
  BY DEF ValidDate, IsDate
<1> QED BY <1>1 DEF Earlier

\* A day lies in one season at most.
LEMMA OneSeasonADay ==
  ASSUME NEW p, IsPlan(p), NEW d, IsDate(d),
         NEW i \in DOMAIN p.seasons, NEW j \in DOMAIN p.seasons,
         Covers(p.seasons[i], d), Covers(p.seasons[j], d)
  PROVE  i = j
<1> DEFINE s == p.seasons[i]
           t == p.seasons[j]
<1>1. Comparable(s) /\ Comparable(t) /\ ~Crowded(p.seasons)
  BY PlansAreSound
<1>2. /\ ValidDate(s.arrival) /\ ValidDate(s.departure)
      /\ ValidDate(t.arrival) /\ ValidDate(t.departure)
  BY <1>1 DEF Comparable, IntervalErrors
<1>3. Overlap(s, t) /\ Overlap(t, s)
  BY <1>2, NotAfterIsEarlier DEF Overlap, Covers
<1>4. i \in Int /\ j \in Int
  BY DEF IsPlan
<1> QED BY <1>1, <1>3, <1>4 DEF Crowded

\* The rate that is read for a night is the one that applies.
LEMMA NightHasItsRate ==
  ASSUME NEW p, IsPlan(p), NEW d, IsDate(d)
  PROVE  /\ NightAt(p, d).date = d
         /\ NightAt(p, d).amount \in Nat
         /\ RateOn(p, d) = {NightAt(p, d).amount}
<1> DEFINE covering == {i \in DOMAIN p.seasons : Covers(p.seasons[i], d)}
           seasons  == {s \in ToSet(p.seasons) : Covers(s, d)}
<1>1. seasons = {p.seasons[i] : i \in covering}
  BY DEF ToSet
<1>2. CASE covering = {}
  <2>1. NightAt(p, d) = [date |-> d, amount |-> p.base, source |-> "base"]
    BY <1>2 DEF NightAt
  <2>2. RateOn(p, d) = {p.base}
    BY <1>1, <1>2 DEF RateOn
  <2> QED BY <2>1, <2>2, PlansAreSound
<1>3. CASE covering # {}
  <2>1. PICK i \in covering : TRUE
    BY <1>3
  <2>2. covering = {i}
    BY <2>1, OneSeasonADay
  <2>3. i \in Int /\ i \in DOMAIN p.seasons
    BY <2>1 DEF IsPlan
  <2>4. (CHOOSE k \in covering : \A j \in covering : k <= j) = i
    <3> HIDE DEF covering
    <3> QED BY <2>2, <2>3
  <2>5. NightAt(p, d) = [date |-> d, source |-> "seasonal_override",
                         amount |-> p.seasons[i].rate]
    BY <1>3, <2>4 DEF NightAt
  <2>6. p.seasons[i].rate \in Nat
    BY <2>3, PlansAreSound, RateLimitsAssumption DEF Comparable, IsAmount
  <2>7. seasons = {p.seasons[i]}
    BY <1>1, <2>2
  <2>8. RateOn(p, d) = {p.seasons[i].rate}
    BY <2>7 DEF RateOn
  <2> QED BY <2>5, <2>6, <2>8
<1> QED BY <1>2, <1>3

-----------------------------------------------------------------------------
(* The fold over the nights *)

\* The first k nights are priced one by one, unless the sum became too large.
PricedSoFar(r, k, nights) ==
  /\ DOMAIN r[k] = {"nightly", "subtotal", "tooLarge"}
  /\ r[k].tooLarge \in BOOLEAN
  /\ ~r[k].tooLarge =>
       /\ r[k].subtotal \in Nat
       /\ \E S : r[k].nightly \in Seq(S)
       /\ Len(r[k].nightly) = k
       /\ \A i \in 1 .. k : /\ r[k].nightly[i] = nights[i]
                            /\ r[i].subtotal = r[i - 1].subtotal + nights[i].amount

\* One night more.
LEMMA NightAdded ==
  ASSUME NEW n \in Nat, NEW nights, NEW r, NEW k \in 1 .. n,
         r[k] = AddNight(r[k - 1], nights[k]), nights[k].amount \in Nat,
         PricedSoFar(r, k - 1, nights)
  PROVE  PricedSoFar(r, k, nights)
<1> DEFINE st == r[k - 1]
<1>1. CASE st.tooLarge \/ st.subtotal > MaxSafe - nights[k].amount
  <2>1. r[k] = [st EXCEPT !.tooLarge = TRUE]
    BY <1>1 DEF AddNight
  <2> QED BY <2>1 DEF PricedSoFar
<1>2. CASE ~(st.tooLarge \/ st.subtotal > MaxSafe - nights[k].amount)
  <2>1. r[k] = [nightly |-> Append(st.nightly, nights[k]),
                subtotal |-> st.subtotal + nights[k].amount, tooLarge |-> FALSE]
    BY <1>2 DEF AddNight
  <2>2. k - 1 \in Nat /\ k \in Nat
    OBVIOUS
  <2>3. /\ st.subtotal \in Nat /\ Len(st.nightly) = k - 1
        /\ \A i \in 1 .. k - 1 : /\ st.nightly[i] = nights[i]
                                 /\ r[i].subtotal = r[i - 1].subtotal + nights[i].amount
    BY <1>2 DEF PricedSoFar
  <2>4. PICK S : st.nightly \in Seq(S)
    BY <1>2 DEF PricedSoFar
  <2> DEFINE new == Append(st.nightly, nights[k])
  <2>5. /\ new \in Seq(S \cup {nights[k]}) /\ Len(new) = k
        /\ new[k] = nights[k]
        /\ \A i \in 1 .. k - 1 : new[i] = st.nightly[i]
    <3>1. st.nightly \in Seq(S \cup {nights[k]})
      BY <2>4
    <3> QED BY <2>2, <2>3, <3>1
  <2> HIDE DEF new
  <2>6. /\ r[k].nightly = new /\ r[k].tooLarge = FALSE
        /\ r[k].subtotal = r[k - 1].subtotal + nights[k].amount
        /\ DOMAIN r[k] = {"nightly", "subtotal", "tooLarge"}
    BY <2>1 DEF new
  <2>7. r[k].subtotal \in Nat
    BY <2>3, <2>6
  <2>8. \A i \in 1 .. k : /\ new[i] = nights[i]
                         /\ r[i].subtotal = r[i - 1].subtotal + nights[i].amount
    <3> SUFFICES ASSUME NEW i \in 1 .. k
                 PROVE  /\ new[i] = nights[i]
                        /\ r[i].subtotal = r[i - 1].subtotal + nights[i].amount
      OBVIOUS
    <3>1. i = k \/ i \in 1 .. k - 1
      OBVIOUS
    <3> QED BY <2>3, <2>5, <2>6, <3>1
  <2> QED BY <2>5, <2>6, <2>7, <2>8 DEF PricedSoFar
<1> QED BY <1>1, <1>2

\* All nights of a quote without errors were priced.
LEMMA NightsArePriced ==
  ASSUME NEW p, IsPlan(p), NEW s, IsStay(s), QuoteErrors(p, s) = {}
  PROVE  LET q == QuoteOf(p, s)
             n == NightsOf(s)
         IN  /\ \E S : q.nightly \in Seq(S)
             /\ Len(q.nightly) = n
             /\ \A i \in 1 .. n : q.nightly[i] = NightAt(p, DateAtOffset(s, i - 1))
             /\ q.subtotal = SumOf([i \in DOMAIN q.nightly |-> q.nightly[i].amount])
             /\ q.subtotal \in Nat
<1> DEFINE n      == NightsOf(s)
           nights == [k \in 1 .. n |-> NightAt(p, DateAtOffset(s, k - 1))]
           start  == [nightly |-> <<>>, subtotal |-> 0, tooLarge |-> FALSE]
           end    == Priced(p, s)
<1>1. n \in 1 .. MaxStay /\ n \in Nat
  BY StaysHaveNights, RateLimitsAssumption
<1>2. end = Pricing!Folded(start, nights)
  BY DEF Priced, FoldLeft, MapThenFoldSet, Max, Pricing!Folded,
         Pricing!MapThenFoldSet, Pricing!Largest
<1>3. \A k \in 1 .. n : nights[k].amount \in Nat
  <2> SUFFICES ASSUME NEW k \in 1 .. n PROVE nights[k].amount \in Nat
    OBVIOUS
  <2>1. k - 1 \in Nat /\ IsDate(s.arrival)
    BY <1>1, StaysHaveNights
  <2>2. IsDate(DateAtOffset(s, k - 1))
    BY <2>1, OffsetsAreDays, DaysAfterCounts
  <2>3. NightAt(p, DateAtOffset(s, k - 1)).amount \in Nat
    BY <2>2, NightHasItsRate
  <2> QED BY <2>3
<1>4. \A k \in 1 .. n : nights[k] = NightAt(p, DateAtOffset(s, k - 1))
  OBVIOUS
<1>5. ~end.tooLarge
  <2>1. IntervalErrors(s) = {}
    BY DEF IsStay
  <2> HIDE DEF end
  <2> QED BY <2>1 DEF QuoteErrors, If, end
<1>6. DOMAIN nights = 1 .. n
  OBVIOUS
<1> HIDE DEF n, nights, end
<1>7. PICK r : Pricing!Partial(r, n, start, nights) /\ end = r[n]
  BY <1>1, <1>2, <1>6, Pricing!FoldSteps
<1>8. r[0] = start /\ \A k \in 1 .. n : r[k] = AddNight(r[k - 1], nights[k])
  BY <1>7 DEF Pricing!Partial
<1> DEFINE S == {k \in 0 .. n : PricedSoFar(r, k, nights)}
<1>9. PricedSoFar(r, 0, nights)
  <2>1. <<>> \in Seq({}) /\ Len(<<>>) = 0
    OBVIOUS
  <2> QED BY <1>8, <2>1 DEF PricedSoFar
<1>10. n \in S
  <2>1. 0 \in S
    BY <1>1, <1>9
  <2>2. ASSUME NEW k \in 1 .. n, k - 1 \in S
        PROVE  k \in S
    <3>1. PricedSoFar(r, k, nights)
      BY <1>1, <1>3, <1>8, <2>2, NightAdded
    <3> QED BY <3>1
  <2> HIDE DEF S
  <2> QED BY <1>1, <2>1, <2>2, Sums!InductionUpTo
<1>11. /\ end.subtotal \in Nat
       /\ \E T : end.nightly \in Seq(T)
       /\ Len(end.nightly) = n
       /\ \A i \in 1 .. n : /\ end.nightly[i] = nights[i]
                            /\ r[i].subtotal = r[i - 1].subtotal + nights[i].amount
  BY <1>5, <1>7, <1>10 DEF PricedSoFar
<1>12. DOMAIN end.nightly = 1 .. n
  <2>1. PICK T : end.nightly \in Seq(T)
    BY <1>11
  <2> QED BY <1>11, <2>1
<1> DEFINE amounts == [i \in DOMAIN end.nightly |-> end.nightly[i].amount]
           sums    == [k \in 0 .. n |-> r[k].subtotal]
<1>13. SumOf(amounts) = end.subtotal
  <2>1. SumOf(amounts) = Sums!Folded(0, amounts)
    BY DEF SumOf, FoldLeft, MapThenFoldSet, Max, Sums!Folded,
           Sums!MapThenFoldSet, Sums!Largest
  <2>2. sums[0] = 0
    BY <1>1, <1>8
  <2>3. ASSUME NEW k \in 1 .. n
        PROVE  sums[k] = sums[k - 1] + amounts[k]
    <3>1. k - 1 \in 0 .. n /\ k \in 0 .. n
      BY <1>1
    <3>2. sums[k] = r[k].subtotal /\ sums[k - 1] = r[k - 1].subtotal
      BY <3>1
    <3>3. amounts[k] = end.nightly[k].amount
      BY <1>12
    <3> QED BY <1>11, <3>2, <3>3
  <2>4. DOMAIN amounts = 1 .. n
    BY <1>12
  <2>5. sums[n] = end.subtotal
    BY <1>1, <1>7
  <2> HIDE DEF amounts, sums
  <2>6. Sums!Partial(sums, n, 0, amounts)
    BY <2>2, <2>3 DEF Sums!Partial
  <2>7. Sums!Folded(0, amounts) = sums[n]
    BY <1>1, <2>4, <2>6, Sums!FoldIsLast
  <2> QED BY <2>1, <2>5, <2>7
<1>14. QuoteOf(p, s).nightly = end.nightly /\ QuoteOf(p, s).subtotal = end.subtotal
  BY DEF QuoteOf, end
<1> QED BY <1>4, <1>11, <1>13, <1>14 DEF n

\* A quote without errors is what a quote is meant to be: every night of the
\* stay once, at the rate of the season it lies in, and the sum of them
\* (quoteRatePlan).
THEOREM QuotesAreRight ==
  ASSUME NEW p, IsPlan(p), NEW s, IsStay(s), QuoteErrors(p, s) = {}
  PROVE  IsQuoteOf(QuoteOf(p, s), p, s)
<1> DEFINE q == QuoteOf(p, s)
           n == NightsOf(s)
<1>1. n \in 1 .. MaxStay /\ n \in Nat /\ IsDate(s.arrival)
  BY StaysHaveNights, RateLimitsAssumption
<1>2. /\ \E S : q.nightly \in Seq(S)
      /\ Len(q.nightly) = n
      /\ \A i \in 1 .. n : q.nightly[i] = NightAt(p, DateAtOffset(s, i - 1))
      /\ q.subtotal = SumOf([i \in DOMAIN q.nightly |-> q.nightly[i].amount])
      /\ q.subtotal \in Nat
  BY NightsArePriced
<1>3. /\ q.arrival = s.arrival /\ q.departure = s.departure /\ q.nights = n
      /\ q.currency = p.currency
      /\ q.total = q.subtotal + p.cleaning
  BY DEF QuoteOf
<1>4. ~(n < p.minimumStay) /\ ~(q.total > MaxSafe)
  BY DEF QuoteErrors, QuoteOf, IsStay, If
<1>5. p.minimumStay \in 1 .. MaxStay /\ p.cleaning \in Nat
  BY PlansAreSound
<1>6. q.total <= MaxSafe /\ q.nights >= p.minimumStay
  BY <1>1, <1>2, <1>3, <1>4, <1>5, RateLimitsAssumption
<1> HIDE DEF q, n
<1>7. DOMAIN q.nightly = 1 .. n
  <2>1. PICK S : q.nightly \in Seq(S)
    BY <1>2
  <2> QED BY <1>2, <2>1
<1>8. ASSUME NEW i \in 1 .. n
      PROVE  /\ q.nightly[i].date = DateAtOffset(s, i - 1)
             /\ RateOn(p, q.nightly[i].date) = {q.nightly[i].amount}
  <2>1. i - 1 \in Nat
    BY <1>1
  <2>2. IsDate(DateAtOffset(s, i - 1))
    BY <1>1, <2>1, OffsetsAreDays, DaysAfterCounts
  <2> QED BY <1>2, <2>2, NightHasItsRate
<1>9. {q.nightly[i].date : i \in DOMAIN q.nightly} = StayNights(s)
  <2>1. StayNights(s) = {DateAtOffset(s, k) : k \in 0 .. n - 1}
    BY NightsOfStay DEF n
  <2>2. {q.nightly[i].date : i \in DOMAIN q.nightly} = {DateAtOffset(s, i - 1) : i \in 1 .. n}
    BY <1>7, <1>8
  <2>3. \A k \in 0 .. n - 1 : k + 1 \in 1 .. n /\ (k + 1) - 1 = k
    BY <1>1
  <2>4. \A i \in 1 .. n : i - 1 \in 0 .. n - 1
    BY <1>1
  <2>5. {DateAtOffset(s, i - 1) : i \in 1 .. n} = {DateAtOffset(s, k) : k \in 0 .. n - 1}
    BY <2>3, <2>4
  <2> QED BY <2>1, <2>2, <2>5
<1>10. Cardinality(StayNights(s)) = q.nights
  BY <1>3, NightsOfStay DEF n
<1>11. \A i \in DOMAIN q.nightly : RateOn(p, q.nightly[i].date) = {q.nightly[i].amount}
  BY <1>7, <1>8
<1>12. Len(q.nightly) = q.nights
  BY <1>2, <1>3
<1>13. q.total = SumOf([i \in DOMAIN q.nightly |-> q.nightly[i].amount]) + p.cleaning
  BY <1>2, <1>3
<1>14. IsQuoteOf(q, p, s)
  BY <1>3, <1>6, <1>9, <1>10, <1>11, <1>12, <1>13 DEF IsQuoteOf
<1> QED BY <1>14 DEF q

-----------------------------------------------------------------------------
(* Requests                                                                *)
(*                                                                         *)
(* The rows and what the guests were told move together in four ways       *)
(* (RowMoves), which is all that the answers and the conflicts need.  The  *)
(* price needs more: what a call has read of the plan, and since when, is  *)
(* told by CallInv.                                                        *)

-----------------------------------------------------------------------------
(* The rows of requests, and the answers *)

\* What a guest is told of row r.
Told(r) == [key |-> r.key, body |-> r.body, id |-> r.id, quote |-> r.quote]

\* The unique key of booking_requests.
OneRowPerKey == \A r, s \in requests : r.key = s.key => r = s

\* The guests were told of rows that still are there, as they are.
AnswersAreRows == \A a \in answers : \E r \in requests : a = Told(r)

RowsInv == OneRowPerKey /\ AnswersAreRows

\* A row is found, and told of to a call for its key and its body.
TellsOf(c) ==
  \E r \in requests :
    /\ r.key = Key[c] /\ r.body = Body[c]
    /\ requests' = requests
    /\ answers' = answers \cup {Told(r)}

\* A row is stored under a key that had none; the guest may not hear of it.
StoresFor(c) ==
  /\ \A r \in requests : r.key # Key[c]
  /\ requests' = requests \cup {NewRequest(c)}
  /\ answers' \in {answers, answers \cup {Told(NewRequest(c))}}

Forgets == requests' = {} /\ answers' = {}

RowMoves ==
  \/ UNCHANGED <<requests, answers>>
  \/ \E c \in Callers : TellsOf(c) \/ StoresFor(c)
  \/ Forgets

\* A call that accepts a row of its key and its body tells of that row.
LEMMA AcceptingTells ==
  ASSUME NEW c \in Callers, NEW r \in requests,
         r.key = Key[c], r.body = Body[c], Accepts(c, r), UNCHANGED requests
  PROVE  TellsOf(c)
BY DEF Accepts, TellsOf, Told

\* Every step moves the rows and the answers in one of the four ways.
LEMMA RowsMove == ASSUME [Next]_vars PROVE RowMoves
<1>1. CASE UNCHANGED vars
  BY <1>1 DEF vars, RowMoves
<1>2. ASSUME NEW c \in Callers,
             Lookup(c) \/ LookAfterReuse(c) \/ LookAgain(c)
      PROVE  RowMoves
  <2>1. UNCHANGED requests
    BY <1>2 DEF Lookup, LookAfterReuse, LookAgain, Database
  <2>2. CASE UNCHANGED answers
    BY <2>1, <2>2 DEF RowMoves
  <2>3. CASE \E r \in Stored(c) : SameRequest(c, r) /\ Accepts(c, r)
    <3>1. PICK r \in Stored(c) : SameRequest(c, r) /\ Accepts(c, r)
      BY <2>3
    <3>2. TellsOf(c)
      BY <3>1, <2>1, AcceptingTells DEF Stored, SameRequest
    <3> QED BY <3>2 DEF RowMoves
  <2> QED
    BY <1>2, <2>2, <2>3
       DEF Lookup, LookAfterReuse, LookAgain, Refuses, Go, Throws, Becomes
<1>3. ASSUME NEW c \in Callers,
             Ask(c) \/ EnsureProperty(c) \/ ReadPlan(c) \/ ReadSeasons(c)
               \/ ReadFails(c) \/ Crash(c)
      PROVE  RowMoves
  <2>1. UNCHANGED requests
    BY <1>3 DEF Ask, EnsureProperty, ReadPlan, ReadSeasons, ReadFails, Crash, Database
  <2>2. UNCHANGED answers
    BY <1>3 DEF Ask, EnsureProperty, ReadPlan, ReadSeasons, ReadFails, Crash,
                Refuses, Go, Throws, Becomes
  <2> QED BY <2>1, <2>2 DEF RowMoves
<1>4. ASSUME NEW c \in Callers, Submit(c)
      PROVE  RowMoves
  <2>1. CASE UNCHANGED <<requests, answers>>
    BY <2>1 DEF RowMoves
  <2>2. CASE /\ Stored(c) = {}
             /\ requests' = requests \cup {NewRequest(c)} /\ Accepts(c, NewRequest(c))
    <3>1. answers' = answers \cup {Told(NewRequest(c))}
      BY <2>2 DEF Accepts, Told, NewRequest
    <3>2. StoresFor(c)
      BY <2>2, <3>1 DEF StoresFor, Stored
    <3> QED BY <3>2 DEF RowMoves
  <2>3. CASE UNCHANGED requests /\ \E r \in Stored(c) : SameFingerprint(c, r) /\ Accepts(c, r)
    <3>1. PICK r \in Stored(c) : SameFingerprint(c, r) /\ Accepts(c, r)
      BY <2>3
    <3>2. TellsOf(c)
      BY <3>1, <2>3, AcceptingTells DEF Stored, SameFingerprint
    <3> QED BY <3>2 DEF RowMoves
  <2> QED
    BY <1>4, <2>1, <2>2, <2>3 DEF Submit, Go, Throws, Becomes
<1>5. ASSUME NEW c \in Callers, SubmitFails(c)
      PROVE  RowMoves
  <2>1. UNCHANGED answers
    BY <1>5 DEF SubmitFails, Throws, Becomes
  <2>2. requests' = requests \/ StoresFor(c)
    BY <1>5, <2>1 DEF SubmitFails, StoresFor, Stored
  <2> QED BY <2>1, <2>2 DEF RowMoves
<1>6. CASE SaveRatePlan \/ UpdateProperty \/ CreateProperty
  BY <1>6 DEF SaveRatePlan, UpdateProperty, CreateProperty, RowMoves
<1>7. CASE DeleteProperty
  BY <1>7 DEF DeleteProperty, RowMoves, Forgets
<1> QED
  BY <1>1, <1>2, <1>3, <1>4, <1>5, <1>6, <1>7 DEF Next

\* The rows and the answers agree at first and after every such move.
LEMMA RowsStart == ASSUME Init PROVE RowsInv
BY DEF Init, RowsInv, OneRowPerKey, AnswersAreRows

LEMMA RowsStep == ASSUME RowsInv, [Next]_vars PROVE RowsInv'
<1>1. CASE UNCHANGED <<requests, answers>>
  BY <1>1 DEF RowsInv, OneRowPerKey, AnswersAreRows
<1>2. ASSUME NEW c \in Callers, TellsOf(c)
      PROVE  RowsInv'
  BY <1>2 DEF RowsInv, OneRowPerKey, AnswersAreRows, TellsOf
<1>3. ASSUME NEW c \in Callers, StoresFor(c)
      PROVE  RowsInv'
  <2>1. NewRequest(c).key = Key[c]
    BY DEF NewRequest
  <2>2. OneRowPerKey'
    BY <1>3, <2>1 DEF RowsInv, OneRowPerKey, StoresFor
  <2>3. AnswersAreRows'
    BY <1>3 DEF RowsInv, AnswersAreRows, StoresFor
  <2> QED BY <2>2, <2>3 DEF RowsInv
<1>4. CASE Forgets
  BY <1>4 DEF Forgets, RowsInv, OneRowPerKey, AnswersAreRows
<1> QED
  BY <1>1, <1>2, <1>3, <1>4, RowsMove DEF RowMoves

LEMMA RowsAlways == Spec => []RowsInv
<1>1. Init => RowsInv
  BY RowsStart
<1>2. RowsInv /\ [Next]_vars => RowsInv'
  BY RowsStep
<1> QED BY <1>1, <1>2, PTL DEF Spec

\* Whoever races whom, and however often calls are repeated, every accepted
\* call under one key was told one request, for its own body (findReplay,
\* submit and the lookups after a failure).
THEOREM EveryKeyHasOneAnswer == Spec => []OneAnswerPerKey
<1>1. RowsInv => OneAnswerPerKey
  <2> SUFFICES ASSUME RowsInv, NEW a \in answers, NEW b \in answers, a.key = b.key
               PROVE  a = b
    BY DEF OneAnswerPerKey
  <2>1. PICK r \in requests : a = Told(r)
    BY DEF RowsInv, AnswersAreRows
  <2>2. PICK s \in requests : b = Told(s)
    BY DEF RowsInv, AnswersAreRows
  <2>3. r.key = s.key
    BY <2>1, <2>2 DEF Told
  <2> QED BY <2>1, <2>2, <2>3 DEF RowsInv, OneRowPerKey
<1> QED BY <1>1, RowsAlways, PTL

-----------------------------------------------------------------------------
(* The calls *)

Plans == SavedPlans \cup {NoPlan}
Phases == {"idle", "lookup", "property", "plan", "seasons", "submit",
           "lookReuse", "lookAgain", "answered"}
Codes == {"none", "accepted", "failed", "request_conflict"}

PlanOf(p) == PlanFrom(p.row, p.seasons)
PriceBy(p, c) == QuoteOf(PlanOf(p), Body[c])
Quotes == {PriceBy(p, c) : p \in Plans, c \in Callers} \cup {"none"}

Call == [phase : Phases, calls : 0 .. MaxCalls, row : {p.row : p \in Plans},
         quote : Quotes, answer : Codes]

TypeOK ==
  /\ property \in Maxima \cup {NoProperty}
  /\ plan \in Plans
  /\ locked \in Callers \cup {NoOne}
  /\ call \in [Callers -> Call]
  /\ edits \in 0 .. MaxEdits
  /\ inForce \in [Callers -> SUBSET ((Maxima \cup {NoProperty}) \X Plans)]

Waiting(c) == call[c].phase \notin {"idle", "answered"}

\* What the owner has saved now was in force during every call in progress.
NowInForce(c) == Waiting(c) => <<property, plan>> \in inForce[c]

\* The row was read under the lock that is still held, so the seasons that
\* are read next belong to it.
ReadsOnePlan(c) ==
  At(c, "seasons") =>
    /\ locked = c
    /\ plan # NoPlan
    /\ call[c].row = plan.row

\* The guests were counted against a property of the call's time.
RoomWasThere(c) ==
  call[c].phase \in {"plan", "seasons", "submit"} =>
    \E v \in inForce[c] : v[1] >= Body[c].guests

\* The quote is that of one plan of the call's time, which was checked, and
\* which prices the stay without an error.
QuotedFrom(c, quote) ==
  \E v \in inForce[c] :
    /\ v[2] # NoPlan
    /\ PlanErrors(PlanOf(v[2])) = {}
    /\ QuoteErrors(PlanOf(v[2]), Body[c]) = {}
    /\ quote = PriceBy(v[2], c)

QuotedInForce(c) == At(c, "submit") => QuotedFrom(c, call[c].quote)

CallHolds(c) == NowInForce(c) /\ ReadsOnePlan(c) /\ RoomWasThere(c) /\ QuotedInForce(c)

CallInv == TypeOK /\ \A c \in Callers : CallHolds(c)

\* A request is stored with the price of one plan that was in force during its
\* call, row and seasons, and for no more guests than the property took at some
\* time of the call (getRatePlan under the property lock, quoteRatePlan, submit).
QuotedFromOnePlan ==
  [][\A c \in Callers : \A r \in requests' \ requests :
       r.id = <<c, call[c].calls>> =>
         /\ \E v \in inForce[c] : v[1] >= r.body.guests
         /\ \E v \in inForce[c] : v[2] # NoPlan /\ r.quote = PriceBy(v[2], c)]_vars

\* What the steps of call c leave alone: the owner's rows, the other calls,
\* and a lock that another call holds.
OthersUnmoved(c) ==
  /\ UNCHANGED <<property, plan, edits>>
  /\ locked' \in Callers \cup {NoOne}
  /\ locked \notin {c, NoOne} => locked' = locked
  /\ \A d \in Callers \ {c} : call'[d] = call[d] /\ inForce'[d] = inForce[d]

\* A value that a step of c gives its call.
LEMMA IdleIsACall ==
  ASSUME NEW phase \in Phases, NEW n \in 0 .. MaxCalls, NEW code \in Codes
  PROVE  /\ [Idle EXCEPT !.phase = phase, !.calls = n, !.answer = code] \in Call
         /\ [Idle EXCEPT !.phase = phase, !.calls = n] \in Call
<1>1. NoRow \in {p.row : p \in Plans}
  <2>1. NoPlan \in Plans /\ NoPlan.row = NoRow
    BY DEF Plans, NoPlan
  <2> QED BY <2>1
<1>2. "none" \in Quotes
  BY DEF Quotes
<1> QED BY <1>1, <1>2 DEF Idle, Call, Codes

\* Becomes and its special cases, and the end of a call.
LEMMA BecomesType ==
  ASSUME TypeOK, NEW c \in Callers, NEW value \in Call, Becomes(c, value)
  PROVE  /\ call' \in [Callers -> Call]
         /\ call'[c] = value
         /\ inForce' = inForce
         /\ answers' = answers
         /\ \A d \in Callers \ {c} : call'[d] = call[d]
BY DEF TypeOK, Becomes

LEMMA GoType ==
  ASSUME TypeOK, NEW c \in Callers, NEW phase \in Phases, Go(c, phase)
  PROVE  /\ call' \in [Callers -> Call]
         /\ call'[c] = [call[c] EXCEPT !.phase = phase]
         /\ inForce' = inForce
         /\ answers' = answers
         /\ \A d \in Callers \ {c} : call'[d] = call[d]
<1>1. [call[c] EXCEPT !.phase = phase] \in Call
  BY DEF TypeOK, Call
<1> HIDE DEF Call, TypeOK
<1> QED BY <1>1, BecomesType DEF Go

LEMMA ThrowsType ==
  ASSUME TypeOK, NEW c \in Callers, Throws(c)
  PROVE  /\ call' \in [Callers -> Call]
         /\ call'[c].phase = "lookAgain" /\ call'[c].answer = "none"
         /\ inForce' = inForce
         /\ answers' = answers
         /\ \A d \in Callers \ {c} : call'[d] = call[d]
<1> DEFINE value == [Idle EXCEPT !.phase = "lookAgain", !.calls = call[c].calls]
<1>1. call[c].calls \in 0 .. MaxCalls
  BY DEF TypeOK, Call
<1>2. value \in Call
  BY <1>1, IdleIsACall DEF Phases, Codes
<1>3. value.phase = "lookAgain" /\ value.answer = "none"
  BY DEF Idle
<1>4. Becomes(c, value)
  BY DEF Throws
<1> HIDE DEF value
<1> QED BY <1>2, <1>3, <1>4, BecomesType

LEMMA OverType ==
  ASSUME TypeOK, NEW c \in Callers, NEW code \in Codes, Over(c, code)
  PROVE  /\ call' \in [Callers -> Call]
         /\ call'[c].phase = "answered" /\ call'[c].answer = code
         /\ inForce' \in [Callers -> SUBSET ((Maxima \cup {NoProperty}) \X Plans)]
         /\ \A d \in Callers \ {c} : call'[d] = call[d] /\ inForce'[d] = inForce[d]
<1> DEFINE value == [Idle EXCEPT !.phase = "answered", !.calls = call[c].calls,
                                 !.answer = code]
<1>1. call[c].calls \in 0 .. MaxCalls
  BY DEF TypeOK, Call
<1>2. value \in Call
  BY <1>1, IdleIsACall DEF Phases
<1>3. value.phase = "answered" /\ value.answer = code
  BY DEF Idle
<1>4. call' = [call EXCEPT ![c] = value] /\ inForce' = [inForce EXCEPT ![c] = {}]
  BY DEF Over
<1> HIDE DEF value
<1> QED BY <1>2, <1>3, <1>4 DEF TypeOK

-----------------------------------------------------------------------------
(* The steps of one call *)

\* What a step of c that leaves c outside plan, seasons and submit establishes.
LEMMA HoldsOutside ==
  ASSUME NEW c \in Callers,
         call'[c].phase \notin {"plan", "seasons", "submit"},
         Waiting(c)' => (Waiting(c) /\ NowInForce(c) /\ inForce' = inForce
                         /\ UNCHANGED <<property, plan>>)
  PROVE  CallHolds(c)'
BY DEF CallHolds, NowInForce, ReadsOnePlan, RoomWasThere, QuotedInForce, At, Waiting

LEMMA AskKeeps ==
  ASSUME CallInv, NEW c \in Callers, Ask(c)
  PROVE  TypeOK' /\ OthersUnmoved(c) /\ CallHolds(c)'
<1> DEFINE value == [Idle EXCEPT !.phase = "lookup", !.calls = call[c].calls + 1]
<1> USE DEF CallInv
<1>1. call[c].calls + 1 \in 0 .. MaxCalls
  BY RequestToBookAssumption DEF TypeOK, Call, Ask
<1>2. value \in Call
  <2> DEFINE n == call[c].calls + 1
  <2>1. n \in 0 .. MaxCalls /\ "lookup" \in Phases
    BY <1>1 DEF Phases
  <2> HIDE DEF n
  <2>2. [Idle EXCEPT !.phase = "lookup", !.calls = n] \in Call
    BY <2>1, IdleIsACall, "none" \in Codes DEF Codes
  <2> QED BY <2>2 DEF n
<1>3. value.phase = "lookup"
  BY DEF Idle
<1>4. /\ call' = [call EXCEPT ![c] = value]
      /\ inForce' = [inForce EXCEPT ![c] = {<<property, plan>>}]
      /\ UNCHANGED <<property, plan, locked, edits>>
  BY DEF Ask, Database
<1> HIDE DEF value
<1>5. TypeOK'
  BY <1>2, <1>4 DEF TypeOK
<1>6. OthersUnmoved(c)
  BY <1>4 DEF OthersUnmoved, TypeOK
<1>7. CallHolds(c)'
  <2>1. call'[c].phase = "lookup" /\ inForce'[c] = {<<property, plan>>}
    BY <1>3, <1>4 DEF TypeOK
  <2> QED
    BY <2>1, <1>4
       DEF CallHolds, NowInForce, ReadsOnePlan, RoomWasThere, QuotedInForce, At, Waiting
<1> QED BY <1>5, <1>6, <1>7

\* A step that refuses, accepts, throws, or goes on to a phase in which nothing
\* has been read yet; the lock stays, or c gives it up.
LEMMA EndKeeps ==
  ASSUME CallInv, NEW c \in Callers,
         \/ \E code \in Codes : Over(c, code)
         \/ Waiting(c) /\ Throws(c)
         \/ Waiting(c) /\ \E phase \in {"property", "lookReuse"} : Go(c, phase),
         UNCHANGED <<property, plan, edits>>,
         locked' = locked \/ (locked = c /\ locked' = NoOne)
  PROVE  TypeOK' /\ OthersUnmoved(c) /\ CallHolds(c)'
<1> USE DEF CallInv
<1>1. CASE \E code \in Codes : Over(c, code)
  <2>1. PICK code \in Codes : Over(c, code)
    BY <1>1
  <2>2. /\ call' \in [Callers -> Call]
        /\ call'[c].phase = "answered"
        /\ inForce' \in [Callers -> SUBSET ((Maxima \cup {NoProperty}) \X Plans)]
        /\ \A d \in Callers \ {c} : call'[d] = call[d] /\ inForce'[d] = inForce[d]
    BY <2>1, OverType
  <2>3. CallHolds(c)'
    BY <2>2, HoldsOutside DEF Waiting
  <2> QED BY <2>2, <2>3 DEF TypeOK, OthersUnmoved
<1>2. CASE Waiting(c) /\ Throws(c)
  <2>1. /\ call' \in [Callers -> Call]
        /\ call'[c].phase = "lookAgain"
        /\ inForce' = inForce
        /\ \A d \in Callers \ {c} : call'[d] = call[d]
    BY <1>2, ThrowsType
  <2>2. CallHolds(c)'
    BY <2>1, <1>2, HoldsOutside DEF CallHolds
  <2> QED BY <2>1, <2>2 DEF TypeOK, OthersUnmoved
<1>3. CASE Waiting(c) /\ \E phase \in {"property", "lookReuse"} : Go(c, phase)
  <2>1. PICK phase \in {"property", "lookReuse"} : Go(c, phase)
    BY <1>3
  <2>2. /\ call' \in [Callers -> Call]
        /\ call'[c] = [call[c] EXCEPT !.phase = phase]
        /\ inForce' = inForce
        /\ \A d \in Callers \ {c} : call'[d] = call[d]
    BY <2>1, GoType DEF Phases
  <2>3. call'[c].phase = phase
    BY <2>2 DEF TypeOK, Call
  <2>4. CallHolds(c)'
    BY <2>1, <2>2, <2>3, <1>3, HoldsOutside DEF CallHolds
  <2> QED BY <2>2, <2>4 DEF TypeOK, OthersUnmoved
<1> QED BY <1>1, <1>2, <1>3

LEMMA LookupKeeps ==
  ASSUME CallInv, NEW c \in Callers, Lookup(c) \/ LookAfterReuse(c) \/ LookAgain(c) \/ Crash(c)
  PROVE  TypeOK' /\ OthersUnmoved(c) /\ CallHolds(c)'
<1>1. UNCHANGED <<property, plan, edits>>
  BY DEF Lookup, LookAfterReuse, LookAgain, Crash, Database
<1>2. locked' = locked \/ (locked = c /\ locked' = NoOne)
  BY DEF Lookup, LookAfterReuse, LookAgain, Crash
<1>3. Waiting(c)
  BY DEF Lookup, LookAfterReuse, LookAgain, Crash, Waiting, At
<1>4. \/ \E code \in Codes : Over(c, code)
      \/ Throws(c)
      \/ \E phase \in {"property", "lookReuse"} : Go(c, phase)
  BY DEF Lookup, LookAfterReuse, LookAgain, Crash, Refuses, Accepts, Codes
<1> QED BY <1>1, <1>2, <1>3, <1>4, EndKeeps

LEMMA EnsurePropertyKeeps ==
  ASSUME CallInv, NEW c \in Callers, EnsureProperty(c)
  PROVE  TypeOK' /\ OthersUnmoved(c) /\ CallHolds(c)'
<1> USE DEF CallInv
<1>1. UNCHANGED <<property, plan, locked, edits>> /\ Waiting(c)
  BY DEF EnsureProperty, Database, Waiting, At
<1>2. CASE Throws(c)
  BY <1>1, <1>2, EndKeeps
<1>3. CASE property # NoProperty /\ ~(Body[c].guests > property) /\ Go(c, "plan")
  <2>1. /\ call' \in [Callers -> Call]
        /\ call'[c] = [call[c] EXCEPT !.phase = "plan"]
        /\ inForce' = inForce
        /\ \A d \in Callers \ {c} : call'[d] = call[d]
    BY <1>3, GoType DEF Phases
  <2>2. call'[c].phase = "plan"
    BY <2>1 DEF TypeOK, Call
  <2>3. <<property, plan>> \in inForce[c]
    BY <1>1 DEF CallHolds, NowInForce
  <2>4. property >= Body[c].guests
    <3>1. property \in Nat
      <4>1. property \in Maxima \cup {NoProperty}
        BY DEF TypeOK
      <4>2. Maxima \subseteq Nat
        BY RequestToBookAssumption
      <4> QED BY <4>1, <4>2 DEF NoProperty
    <3>2. Body[c].guests \in Nat
      BY RequestToBookAssumption
    <3> QED BY <1>3, <3>1, <3>2
  <2>5. \E v \in inForce[c] : v[1] >= Body[c].guests
    BY <2>3, <2>4
  <2>6. CallHolds(c)'
    BY <1>1, <2>1, <2>2, <2>3, <2>5
       DEF CallHolds, NowInForce, ReadsOnePlan, RoomWasThere, QuotedInForce, At
  <2> QED BY <1>1, <2>1, <2>6 DEF TypeOK, OthersUnmoved
<1> QED BY <1>2, <1>3 DEF EnsureProperty

LEMMA ReadPlanKeeps ==
  ASSUME CallInv, NEW c \in Callers, ReadPlan(c)
  PROVE  TypeOK' /\ OthersUnmoved(c) /\ CallHolds(c)'
<1> USE DEF CallInv
<1> DEFINE value == [call[c] EXCEPT !.phase = "seasons", !.row = plan.row]
<1>1. UNCHANGED <<property, plan, edits>> /\ Waiting(c) /\ locked = NoOne
  BY DEF ReadPlan, Database, Waiting, At
<1>2. CASE Throws(c) /\ UNCHANGED locked
  BY <1>1, <1>2, EndKeeps
<1>3. CASE plan # NoPlan /\ Becomes(c, value) /\ locked' = c
  <2>1. plan.row \in {p.row : p \in Plans}
    BY DEF TypeOK
  <2>2. value \in Call /\ value.phase = "seasons" /\ value.row = plan.row
    BY <2>1 DEF TypeOK, Call, Phases
  <2> HIDE DEF value
  <2>3. /\ call' \in [Callers -> Call]
        /\ call'[c] = value
        /\ inForce' = inForce
        /\ \A d \in Callers \ {c} : call'[d] = call[d]
    BY <1>3, <2>2, BecomesType
  <2>4. RoomWasThere(c)'
    BY <2>3 DEF CallHolds, RoomWasThere, ReadPlan, At
  <2>5. CallHolds(c)'
    BY <1>1, <1>3, <2>2, <2>3, <2>4
       DEF CallHolds, NowInForce, ReadsOnePlan, QuotedInForce, At
  <2> QED BY <1>1, <1>3, <2>3, <2>5 DEF TypeOK, OthersUnmoved
<1> QED BY <1>2, <1>3 DEF ReadPlan

LEMMA ReadFailsKeeps ==
  ASSUME CallInv, NEW c \in Callers, ReadFails(c)
  PROVE  TypeOK' /\ OthersUnmoved(c) /\ CallHolds(c)'
<1>1. UNCHANGED <<property, plan, edits>> /\ Waiting(c) /\ Throws(c)
  BY DEF ReadFails, Database, Waiting
<1>2. locked' = locked \/ (locked = c /\ locked' = NoOne)
  BY DEF ReadFails
<1> QED BY <1>1, <1>2, EndKeeps

\* The seasons are those of the row: the lock is still held.
LEMMA ReadSeasonsKeeps ==
  ASSUME CallInv, NEW c \in Callers, ReadSeasons(c)
  PROVE  TypeOK' /\ OthersUnmoved(c) /\ CallHolds(c)'
<1> USE DEF CallInv
<1> DEFINE quote == QuoteOf(PlanFrom(call[c].row, plan.seasons), Body[c])
<1> DEFINE value == [call[c] EXCEPT !.phase = "submit", !.row = NoRow, !.quote = quote]
<1>1. /\ UNCHANGED <<property, plan, edits>> /\ Waiting(c)
      /\ locked' = locked \/ (locked = c /\ locked' = NoOne)
  BY DEF ReadSeasons, Database, Waiting, At
<1>2. CASE Throws(c)
  BY <1>1, <1>2, EndKeeps
<1>3. CASE Becomes(c, value) /\ PlanErrors(PlanFrom(call[c].row, plan.seasons)) = {}
           /\ QuoteErrors(PlanFrom(call[c].row, plan.seasons), Body[c]) = {}
  <2>1. quote = PriceBy(plan, c) /\ plan # NoPlan /\ plan \in Plans
    BY DEF CallHolds, ReadsOnePlan, ReadSeasons, TypeOK, PriceBy, PlanOf
  <2>2. quote \in Quotes
    BY <2>1 DEF Quotes
  <2>10. PlanErrors(PlanOf(plan)) = {} /\ QuoteErrors(PlanOf(plan), Body[c]) = {}
    BY <1>3 DEF CallHolds, ReadsOnePlan, ReadSeasons, PlanOf
  <2> HIDE DEF quote
  <2>3. NoRow \in {p.row : p \in Plans}
    <3>1. NoPlan \in Plans /\ NoPlan.row = NoRow
      BY DEF Plans, NoPlan
    <3> QED BY <3>1
  <2>4. value \in Call /\ value.phase = "submit" /\ value.quote = quote
    BY <2>2, <2>3 DEF TypeOK, Call, Phases
  <2> HIDE DEF value
  <2>5. /\ call' \in [Callers -> Call]
        /\ call'[c] = value
        /\ inForce' = inForce
        /\ \A d \in Callers \ {c} : call'[d] = call[d]
    BY <1>3, <2>4, BecomesType
  <2>6. <<property, plan>> \in inForce[c]
    BY <1>1 DEF CallHolds, NowInForce
  <2>7. QuotedInForce(c)'
    BY <2>1, <2>4, <2>5, <2>6, <2>10 DEF QuotedInForce, QuotedFrom
  <2>8. RoomWasThere(c)'
    BY <2>5 DEF CallHolds, RoomWasThere, ReadSeasons, At
  <2>9. CallHolds(c)'
    BY <1>1, <2>4, <2>5, <2>6, <2>7, <2>8 DEF CallHolds, NowInForce, ReadsOnePlan, At
  <2> QED BY <1>1, <2>5, <2>9 DEF TypeOK, OthersUnmoved
<1> QED BY <1>2, <1>3 DEF ReadSeasons

LEMMA SubmitKeeps ==
  ASSUME CallInv, NEW c \in Callers, Submit(c) \/ SubmitFails(c)
  PROVE  TypeOK' /\ OthersUnmoved(c) /\ CallHolds(c)'
<1>1. UNCHANGED <<property, plan, locked, edits>> /\ Waiting(c)
  BY DEF Submit, SubmitFails, Waiting, At
<1>2. \/ \E code \in Codes : Over(c, code)
      \/ Throws(c)
      \/ \E phase \in {"property", "lookReuse"} : Go(c, phase)
  BY DEF Submit, SubmitFails, Accepts, Codes
<1> QED BY <1>1, <1>2, EndKeeps

-----------------------------------------------------------------------------
(* The owner, and every step *)

\* The owner waits for the lock, so nothing changes between a row and its
\* seasons; what was in force during a call stays so.
LEMMA EditKeeps ==
  ASSUME CallInv, Edit,
         property' \in Maxima \cup {NoProperty}, plan' \in Plans
  PROVE  CallInv'
<1> USE DEF CallInv
<1>1. /\ locked = NoOne /\ UNCHANGED <<locked, call>>
      /\ edits' \in 0 .. MaxEdits
  BY RequestToBookAssumption DEF Edit, TypeOK
<1>2. ASSUME NEW c \in Callers
      PROVE  inForce'[c] = IF call[c].phase \in {"idle", "answered"} THEN inForce[c]
                           ELSE inForce[c] \cup {<<property', plan'>>}
  BY DEF Edit
<1>3. inForce' \in [Callers -> SUBSET ((Maxima \cup {NoProperty}) \X Plans)]
  <2>1. inForce' = [c \in Callers |-> inForce'[c]]
    BY DEF Edit
  <2>2. ASSUME NEW c \in Callers
        PROVE  inForce'[c] \in SUBSET ((Maxima \cup {NoProperty}) \X Plans)
    <3>1. <<property', plan'>> \in (Maxima \cup {NoProperty}) \X Plans
      OBVIOUS
    <3>2. inForce[c] \in SUBSET ((Maxima \cup {NoProperty}) \X Plans)
      BY DEF TypeOK
    <3>3. inForce'[c] = inForce[c] \/ inForce'[c] = inForce[c] \cup {<<property', plan'>>}
      BY <1>2
    <3> QED BY <3>1, <3>2, <3>3, Zenon
  <2> QED BY <2>1, <2>2
<1>4. TypeOK'
  BY <1>1, <1>3 DEF TypeOK
<1>5. ASSUME NEW c \in Callers
      PROVE  CallHolds(c)'
  <2>1. ~At(c, "seasons")
    BY <1>1, RequestToBookAssumption DEF CallHolds, ReadsOnePlan, NoOne
  <2>2. inForce[c] \subseteq inForce'[c]
    BY <1>2
  <2>3. NowInForce(c)'
    BY <1>1, <1>2 DEF NowInForce, Waiting
  <2>4. ReadsOnePlan(c)' /\ RoomWasThere(c)' /\ QuotedInForce(c)'
    BY <1>1, <2>1, <2>2
       DEF CallHolds, ReadsOnePlan, RoomWasThere, QuotedInForce, QuotedFrom, At
  <2> QED BY <2>3, <2>4 DEF CallHolds
<1> QED BY <1>4, <1>5

\* The calls one step leaves alone keep what they rely on.
LEMMA OthersKeep ==
  ASSUME CallInv, NEW c \in Callers, OthersUnmoved(c), NEW d \in Callers \ {c}
  PROVE  CallHolds(d)'
<1>1. CallHolds(d) /\ d # NoOne
  BY RequestToBookAssumption DEF CallInv, NoOne
<1> QED
  BY <1>1
     DEF OthersUnmoved, CallHolds, NowInForce, ReadsOnePlan, RoomWasThere, QuotedInForce,
         QuotedFrom, At, Waiting

LEMMA CallsStart == ASSUME Init PROVE CallInv
<1>1. Idle \in Call
  <2>1. NoPlan \in Plans /\ NoPlan.row = NoRow
    BY DEF Plans, NoPlan
  <2> QED BY <2>1, RequestToBookAssumption DEF Idle, Call, Phases, Quotes, Codes
<1>2. Idle.phase = "idle"
  BY DEF Idle
<1>3. TypeOK
  BY <1>1, RequestToBookAssumption DEF Init, TypeOK, Plans
<1>4. ASSUME NEW c \in Callers
      PROVE  CallHolds(c)
  BY <1>2
     DEF Init, CallHolds, NowInForce, ReadsOnePlan, RoomWasThere, QuotedInForce, At, Waiting
<1> QED BY <1>3, <1>4 DEF CallInv

LEMMA CallsStep == ASSUME CallInv, [Next]_vars PROVE CallInv'
<1>1. CASE UNCHANGED vars
  <2>1. TypeOK'
    BY <1>1 DEF vars, CallInv, TypeOK
  <2>2. ASSUME NEW c \in Callers
        PROVE  CallHolds(c)'
    BY <1>1 DEF vars, CallInv, CallHolds, NowInForce, ReadsOnePlan, RoomWasThere,
                QuotedInForce, QuotedFrom, At, Waiting
  <2> QED BY <2>1, <2>2 DEF CallInv
<1>2. ASSUME NEW c \in Callers,
             \/ Ask(c) \/ Lookup(c) \/ EnsureProperty(c)
             \/ ReadPlan(c) \/ ReadSeasons(c) \/ ReadFails(c)
             \/ Submit(c) \/ SubmitFails(c)
             \/ LookAfterReuse(c) \/ LookAgain(c)
             \/ Crash(c)
      PROVE  CallInv'
  <2>1. TypeOK' /\ OthersUnmoved(c) /\ CallHolds(c)'
    BY <1>2, AskKeeps, LookupKeeps, EnsurePropertyKeeps, ReadPlanKeeps, ReadSeasonsKeeps,
       ReadFailsKeeps, SubmitKeeps
  <2> QED BY <2>1, OthersKeep DEF CallInv
<1>3. CASE SaveRatePlan \/ UpdateProperty \/ DeleteProperty \/ CreateProperty
  <2>1. property' \in Maxima \cup {NoProperty} /\ plan' \in Plans
    BY <1>3 DEF SaveRatePlan, UpdateProperty, DeleteProperty, CreateProperty, CallInv,
                TypeOK, Plans
  <2> QED
    BY <1>3, <2>1, EditKeeps DEF SaveRatePlan, UpdateProperty, DeleteProperty, CreateProperty
<1> QED BY <1>1, <1>2, <1>3 DEF Next

\* What a call has read of the plan belongs together, and was in force since it
\* began; the lock of getRatePlan is what makes this inductive.
THEOREM CallsReadOnePlan == Spec => []CallInv
<1>1. Init => CallInv
  BY CallsStart
<1>2. CallInv /\ [Next]_vars => CallInv'
  BY CallsStep
<1> QED BY <1>1, <1>2, PTL DEF Spec

\* What a step stores, a call stores that was counted and quoted.
LEMMA StoredIsQuoted ==
  ASSUME CallInv, [Next]_vars, NEW c \in Callers, NEW r \in requests' \ requests,
         r.id = <<c, call[c].calls>>
  PROVE  /\ \E v \in inForce[c] : v[1] >= r.body.guests
         /\ r.body = Body[c]
         /\ QuotedFrom(c, r.quote)
<1>1. PICK d \in Callers : At(d, "submit") /\ r = NewRequest(d)
  <2>1. CASE \E d \in Callers : Submit(d) \/ SubmitFails(d)
    BY <2>1 DEF Submit, SubmitFails
  <2>2. CASE \E d \in Callers :
               \/ Ask(d) \/ Lookup(d) \/ EnsureProperty(d)
               \/ ReadPlan(d) \/ ReadSeasons(d) \/ ReadFails(d)
               \/ LookAfterReuse(d) \/ LookAgain(d) \/ Crash(d)
    BY <2>2 DEF Ask, Lookup, EnsureProperty, ReadPlan, ReadSeasons, ReadFails,
                LookAfterReuse, LookAgain, Crash, Database
  <2>3. CASE SaveRatePlan \/ UpdateProperty \/ DeleteProperty \/ CreateProperty \/ UNCHANGED vars
    BY <2>3 DEF SaveRatePlan, UpdateProperty, DeleteProperty, CreateProperty, vars
  <2> QED BY <2>1, <2>2, <2>3 DEF Next
<1>2. d = c
  BY <1>1 DEF NewRequest
<1>3. r.body = Body[c] /\ r.quote = call[c].quote
  BY <1>1, <1>2 DEF NewRequest
<1> QED
  BY <1>1, <1>2, <1>3 DEF CallInv, CallHolds, RoomWasThere, QuotedInForce, At

\* No quote mixes two plans: a stored request has the price of one plan, its row
\* with its own seasons, that was in force during the call, and for no more
\* guests than the property took at some time of it.
THEOREM QuotesReadOnePlan == Spec => QuotedFromOnePlan
<1>1. CallInv /\ [Next]_vars
        => [\A c \in Callers : \A r \in requests' \ requests :
              r.id = <<c, call[c].calls>> =>
                /\ \E v \in inForce[c] : v[1] >= r.body.guests
                /\ \E v \in inForce[c] : v[2] # NoPlan /\ r.quote = PriceBy(v[2], c)]_vars
  BY StoredIsQuoted DEF QuotedFrom
<1> QED BY <1>1, CallsReadOnePlan, PTL DEF Spec, QuotedFromOnePlan

\* A stored request has the price that a plan of the call's time asks for the
\* stay: every night of the stay once, at the rate of the one season it lies in,
\* and their sum with the cleaning fee (getRatePlan under the property lock,
\* quoteRatePlan, submit).
THEOREM PricesAreRight == Spec => PricedByOnePlan
<1>1. ASSUME CallInv, [Next]_vars, NEW c \in Callers, NEW r \in requests' \ requests,
             r.id = <<c, call[c].calls>>
      PROVE  /\ \E v \in inForce[c] : v[1] >= r.body.guests
             /\ \E v \in inForce[c] :
                  v[2] # NoPlan /\ IsQuoteOf(r.quote, PlanFrom(v[2].row, v[2].seasons), r.body)
  <2>1. /\ \E v \in inForce[c] : v[1] >= r.body.guests
        /\ r.body = Body[c]
        /\ QuotedFrom(c, r.quote)
    BY <1>1, StoredIsQuoted
  <2>2. PICK v \in inForce[c] :
               /\ v[2] # NoPlan
               /\ PlanErrors(PlanOf(v[2])) = {}
               /\ QuoteErrors(PlanOf(v[2]), Body[c]) = {}
               /\ r.quote = PriceBy(v[2], c)
    BY <2>1 DEF QuotedFrom
  <2>3. IsPlan(PlanOf(v[2]))
    <3> DEFINE n == Cardinality(v[2].seasons)
    <3>1. DOMAIN InOrder(v[2].seasons) = 1 .. n
      BY DEF InOrder
    <3> HIDE DEF n
    <3>2. PlanOf(v[2]).seasons = InOrder(v[2].seasons)
      BY DEF PlanOf, PlanFrom
    <3>3. 1 .. n \subseteq Int
      OBVIOUS
    <3> QED BY <2>2, <3>1, <3>2, <3>3 DEF IsPlan
  <2>4. IsStay(Body[c])
    BY <2>2, RequestToBookAssumption DEF IsStay, QuoteErrors
  <2>5. IsQuoteOf(r.quote, PlanOf(v[2]), Body[c])
    BY <2>2, <2>3, <2>4, QuotesAreRight DEF PriceBy
  <2> QED BY <2>1, <2>2, <2>5 DEF PlanOf
<1>2. CallInv /\ [Next]_vars
        => [\A c \in Callers : \A r \in requests' \ requests :
              r.id = <<c, call[c].calls>> =>
                /\ \E v \in inForce[c] : v[1] >= r.body.guests
                /\ \E v \in inForce[c] :
                     v[2] # NoPlan
                     /\ IsQuoteOf(r.quote, PlanFrom(v[2].row, v[2].seasons), r.body)]_vars
  BY <1>1
<1> QED BY <1>2, CallsReadOnePlan, PTL DEF Spec, PricedByOnePlan

\* A guest is told of a conflict only when the key stands for another request, or
\* for none any more (the lookups of requestToBook).
THEOREM ConflictsAreTrue == Spec => ConflictsAreReal
<1> DEFINE Conflict(c) ==
             call'[c].answer = "request_conflict" /\ call[c].answer # "request_conflict"
<1>1. ASSUME RowsInv, CallInv, [Next]_vars, NEW c \in Callers, Conflict(c),
             NEW r \in Stored(c), r.body = Body[c]
      PROVE  FALSE
  <2> USE DEF CallInv
  <2>1. ASSUME Lookup(c) \/ LookAfterReuse(c) \/ LookAgain(c)
        PROVE  FALSE
    <3>1. ASSUME NEW s \in Stored(c)
          PROVE  s = r
      BY <1>1 DEF RowsInv, OneRowPerKey, Stored
    <3>2. Stored(c) # {}
      BY <1>1
    <3>3. \/ \E s \in Stored(c) : SameRequest(c, s) /\ Over(c, "accepted")
          \/ Over(c, "failed")
          \/ Throws(c)
      BY <2>1, <3>1, <3>2, <1>1
         DEF Lookup, LookAfterReuse, LookAgain, Accepts, Refuses, SameRequest
    <3>4. call'[c].answer \in {"accepted", "failed", "none"}
      BY <3>3, <1>1, OverType, ThrowsType DEF Codes
    <3> QED BY <1>1, <3>4
  <2>2. ASSUME Ask(c) \/ EnsureProperty(c) \/ ReadPlan(c) \/ ReadSeasons(c) \/ ReadFails(c)
               \/ Submit(c) \/ SubmitFails(c) \/ Crash(c)
        PROVE  FALSE
    <3>1. CASE Ask(c)
      BY <3>1, <1>1 DEF Ask, Idle, TypeOK
    <3>2. CASE Throws(c)
      BY <3>2, <1>1, ThrowsType
    <3>3. CASE \E code \in {"none", "accepted"} : Over(c, code)
      BY <3>3, <1>1, OverType DEF Codes
    <3>4. CASE \E phase \in Phases : Go(c, phase)
      <4>1. PICK phase \in Phases : Go(c, phase)
        BY <3>4
      <4>2. call'[c] = [call[c] EXCEPT !.phase = phase]
        BY <4>1, <1>1, GoType
      <4> QED BY <4>2, <1>1 DEF TypeOK, Call
    <3>5. CASE Becomes(c, [call[c] EXCEPT !.phase = "seasons", !.row = plan.row])
      BY <3>5, <1>1 DEF Becomes, TypeOK, Call
    <3>6. CASE \E quote : Becomes(c, [call[c] EXCEPT !.phase = "submit", !.row = NoRow,
                                                     !.quote = quote])
      BY <3>6, <1>1 DEF Becomes, TypeOK, Call
    <3> QED
      BY <2>2, <3>1, <3>2, <3>3, <3>4, <3>5, <3>6
         DEF EnsureProperty, ReadPlan, ReadSeasons, ReadFails, Submit, SubmitFails, Crash,
             Accepts, Refuses, Phases
  <2>3. ASSUME NEW d \in Callers \ {c},
               \/ Ask(d) \/ Lookup(d) \/ EnsureProperty(d)
               \/ ReadPlan(d) \/ ReadSeasons(d) \/ ReadFails(d)
               \/ Submit(d) \/ SubmitFails(d)
               \/ LookAfterReuse(d) \/ LookAgain(d)
               \/ Crash(d)
        PROVE  FALSE
    <3>1. OthersUnmoved(d)
      BY <1>1, <2>3, AskKeeps, LookupKeeps, EnsurePropertyKeeps, ReadPlanKeeps,
         ReadSeasonsKeeps, ReadFailsKeeps, SubmitKeeps
    <3> QED BY <1>1, <3>1 DEF OthersUnmoved
  <2>4. ASSUME SaveRatePlan \/ UpdateProperty \/ DeleteProperty \/ CreateProperty \/ UNCHANGED vars
        PROVE  FALSE
    BY <1>1, <2>4 DEF SaveRatePlan, UpdateProperty, DeleteProperty, CreateProperty, Edit, vars
  <2> QED BY <1>1, <2>1, <2>2, <2>3, <2>4 DEF Next
<1>2. RowsInv /\ CallInv /\ [Next]_vars
        => [\A c \in Callers : Conflict(c) => ~ \E r \in Stored(c) : r.body = Body[c]]_vars
  BY <1>1
<1> QED BY <1>2, RowsAlways, CallsReadOnePlan, PTL DEF Spec, ConflictsAreReal

-----------------------------------------------------------------------------
(* Counting *)

\* The indices up to k at which s has the end of an event.
Ends(s, k) == {i \in 1 .. k : IsMarker(s[i], "END", "VEVENT")}

\* One more line, one more end of an event or none.
LEMMA EndsAreCounted ==
  ASSUME NEW s, NEW k \in Nat
  PROVE  /\ IsFiniteSet(Ends(s, k)) /\ Cardinality(Ends(s, k)) \in Nat
         /\ Cardinality(Ends(s, 0)) = 0
         /\ Cardinality(Ends(s, k + 1))
              = Cardinality(Ends(s, k)) + IF IsMarker(s[k + 1], "END", "VEVENT") THEN 1 ELSE 0
<1>1. IsFiniteSet(Ends(s, k)) /\ Cardinality(Ends(s, k)) \in Nat
  <2>1. IsFiniteSet(1 .. k)
    BY FS_Interval
  <2>2. Ends(s, k) \subseteq 1 .. k
    BY DEF Ends
  <2> QED BY <2>1, <2>2, FS_Subset, FS_CardinalityType
<1>2. Cardinality(Ends(s, 0)) = 0
  <2>1. Ends(s, 0) = {}
    BY DEF Ends
  <2> QED BY <2>1, FS_EmptySet
<1>3. CASE IsMarker(s[k + 1], "END", "VEVENT")
  <2>1. Ends(s, k + 1) = Ends(s, k) \cup {k + 1} /\ k + 1 \notin Ends(s, k)
    BY <1>3 DEF Ends
  <2> QED BY <1>1, <1>2, <1>3, <2>1, FS_AddElement
<1>4. CASE ~IsMarker(s[k + 1], "END", "VEVENT")
  <2>1. Ends(s, k + 1) = Ends(s, k)
    BY <1>4 DEF Ends
  <2> QED BY <1>1, <1>2, <1>4, <2>1
<1> QED BY <1>3, <1>4

\* Sequences with the same lines up to k count the same.
LEMMA EndsOfEqual ==
  ASSUME NEW s, NEW t, NEW k \in Nat,
         \A i \in 1 .. k : IsMarker(s[i], "END", "VEVENT") <=> IsMarker(t[i], "END", "VEVENT")
  PROVE  Ends(s, k) = Ends(t, k)
BY DEF Ends

\* A sequence counts as its tail does when it begins with no end.
LEMMA EndsOfTail ==
  ASSUME NEW s, NEW t, NEW n \in Nat, \A i \in 1 .. n : t[i] = s[i + 1],
         ~IsMarker(s[1], "END", "VEVENT")
  PROVE  Cardinality(Ends(t, n)) = Cardinality(Ends(s, n + 1))
<1> DEFINE S == {k \in 0 .. n : Cardinality(Ends(t, k)) = Cardinality(Ends(s, k + 1))}
<1>1. 0 \in S
  <2>1. Cardinality(Ends(s, 0 + 1)) = Cardinality(Ends(s, 0))
    BY EndsAreCounted
  <2> QED BY <2>1, EndsAreCounted
<1>2. ASSUME NEW k \in 1 .. n, k - 1 \in S
      PROVE  k \in S
  <2>1. k - 1 \in Nat /\ (k - 1) + 1 = k /\ k \in Nat
    OBVIOUS
  <2>2. Cardinality(Ends(t, k))
          = Cardinality(Ends(t, k - 1)) + IF IsMarker(t[k], "END", "VEVENT") THEN 1 ELSE 0
    BY <2>1, EndsAreCounted
  <2>3. Cardinality(Ends(s, k + 1))
          = Cardinality(Ends(s, k)) + IF IsMarker(s[k + 1], "END", "VEVENT") THEN 1 ELSE 0
    BY <2>1, EndsAreCounted
  <2> QED BY <1>2, <2>1, <2>2, <2>3
<1> HIDE DEF S
<1>3. n \in S
  BY <1>1, <1>2, Sums!InductionUpTo
<1> QED BY <1>3 DEF S

-----------------------------------------------------------------------------
(* The first failure *)

\* There is a least number in every set of indices that is not empty.
LEMMA LeastIndex ==
  ASSUME NEW n \in Nat, NEW T \in SUBSET (1 .. n), T # {}
  PROVE  \E i \in T : \A j \in T : i <= j
<1> DEFINE S == {k \in 0 .. n : \A j \in T : k < j}
<1> SUFFICES ASSUME \A i \in T : \E j \in T : j < i PROVE FALSE
  OBVIOUS
<1>1. 0 \in S
  OBVIOUS
<1>2. ASSUME NEW k \in 1 .. n, k - 1 \in S
      PROVE  k \in S
  <2>1. \A j \in T : k <= j
    BY <1>2
  <2>2. k \notin T
    BY <2>1
  <2> QED BY <2>1, <2>2
<1> HIDE DEF S
<1>3. n \in S
  BY <1>1, <1>2, Sums!InductionUpTo
<1>4. PICK j \in T : TRUE
  OBVIOUS
<1>5. n < j /\ j <= n
  BY <1>3, <1>4 DEF S
<1> QED BY <1>5

\* No check has a code if the first failure is none.
LEMMA NoFailure ==
  ASSUME NEW n \in Nat, NEW codes, DOMAIN codes = 1 .. n, FirstFailure(codes) = "none"
  PROVE  \A i \in 1 .. n : codes[i] = "none"
<1> DEFINE failed == {i \in DOMAIN codes : codes[i] # "none"}
<1> SUFFICES ASSUME failed # {} PROVE FALSE
  OBVIOUS
<1>1. \E i \in failed : \A j \in failed : i <= j
  BY LeastIndex
<1>2. FirstFailure(codes) = codes[CHOOSE i \in failed : \A j \in failed : i <= j]
  BY DEF FirstFailure
<1> DEFINE f == CHOOSE i \in failed : \A j \in failed : i <= j
<1>3. f \in failed
  BY <1>1
<1> HIDE DEF f
<1> QED BY <1>2, <1>3 DEF f

-----------------------------------------------------------------------------
(* Unfolding *)

Unfolding == INSTANCE Folding WITH Op <- UnfoldOne

\* What unfolding makes of lines: a marker that is continued becomes junk.
UnfoldedLine(line) ==
  /\ DOMAIN line = {"kind", "name", "form", "value"}
  /\ line.form = "date" => line.value \in DateParts

JunkEnd(line) == line.form = "junk" /\ line.name = "END"

\* The lines after k physical ones, unless unfolding failed: as many ends of
\* events as there were, or one of them is junk.
UnfoldedSoFar(st, doc, k) ==
  /\ DOMAIN st = {"lines", "error"}
  /\ st.error = "none" =>
       /\ \E S : st.lines \in Seq(S)
       /\ \A i \in DOMAIN st.lines : UnfoldedLine(st.lines[i])
       /\ \/ \E i \in DOMAIN st.lines : JunkEnd(st.lines[i])
          \/ Cardinality(Ends(st.lines, Len(st.lines))) = Cardinality(Ends(doc, k))

\* One physical line more.
LEMMA UnfoldStep ==
  ASSUME NEW doc, NEW k \in Nat, PhysicalLine(doc[k + 1]), NEW st, UnfoldedSoFar(st, doc, k)
  PROVE  UnfoldedSoFar(UnfoldOne(st, doc[k + 1]), doc, k + 1)
<1> DEFINE line == doc[k + 1]
           n    == Len(st.lines)
           last == st.lines[n]
           new  == UnfoldOne(st, line)
<1>1. DOMAIN new = {"lines", "error"}
  BY DEF UnfoldOne, UnfoldedSoFar
<1> SUFFICES ASSUME new.error = "none"
             PROVE  /\ \E S : new.lines \in Seq(S)
                    /\ \A i \in DOMAIN new.lines : UnfoldedLine(new.lines[i])
                    /\ \/ \E i \in DOMAIN new.lines : JunkEnd(new.lines[i])
                       \/ Cardinality(Ends(new.lines, Len(new.lines)))
                            = Cardinality(Ends(doc, k + 1))
  BY <1>1 DEF UnfoldedSoFar
<1>2. st.error = "none"
  BY DEF UnfoldOne, UnfoldedSoFar
<1>3. PICK S : st.lines \in Seq(S)
  BY <1>2 DEF UnfoldedSoFar
<1>4. n \in Nat /\ DOMAIN st.lines = 1 .. n
  BY <1>3
<1>5. Cardinality(Ends(doc, k + 1))
        = Cardinality(Ends(doc, k)) + IF IsMarker(line, "END", "VEVENT") THEN 1 ELSE 0
  BY EndsAreCounted
<1>6. CASE line.kind = "fold"
  <2>1. n # 0
    BY <1>2, <1>6 DEF UnfoldOne, UnfoldedSoFar
  <2> DEFINE changed == Continued(last, line.value)
  <2>2. new.lines = [st.lines EXCEPT ![n] = changed]
    BY <1>2, <1>6, <2>1 DEF UnfoldOne, UnfoldedSoFar
  <2>3. n \in 1 .. n /\ UnfoldedLine(last)
    BY <1>2, <1>4, <2>1 DEF UnfoldedSoFar
  <2>4. /\ DOMAIN changed = {"kind", "name", "form", "value"} /\ changed.name = last.name
        /\ IF last.form = "text" THEN changed.form = "text" ELSE changed.form = "junk"
    BY <2>3 DEF UnfoldedLine, Continued
  <2> HIDE DEF changed
  <2>5. /\ new.lines \in Seq(S \cup {changed}) /\ Len(new.lines) = n
        /\ new.lines[n] = changed
        /\ \A i \in 1 .. n : i # n => new.lines[i] = st.lines[i]
    BY <1>3, <1>4, <2>2, <2>3
  <2>6. \A i \in DOMAIN new.lines : UnfoldedLine(new.lines[i])
    BY <1>2, <1>4, <2>4, <2>5 DEF UnfoldedSoFar, UnfoldedLine
  <2>7. Cardinality(Ends(doc, k + 1)) = Cardinality(Ends(doc, k))
    <3>1. ~IsMarker(line, "END", "VEVENT")
      BY <1>6 DEF PhysicalLine, IsMarker
    <3>2. Cardinality(Ends(doc, k)) \in Nat
      BY EndsAreCounted
    <3> QED BY <1>5, <3>1, <3>2
  <2>8. CASE \E i \in DOMAIN st.lines : JunkEnd(st.lines[i])
    <3>1. PICK i \in 1 .. n : JunkEnd(st.lines[i])
      BY <1>4, <2>8
    <3>2. JunkEnd(new.lines[i])
      BY <2>4, <2>5, <3>1 DEF JunkEnd
    <3> QED BY <2>5, <2>6, <3>2
  <2>9. CASE Cardinality(Ends(st.lines, n)) = Cardinality(Ends(doc, k))
    <3>1. CASE IsMarker(last, "END", "VEVENT")
      <4>1. JunkEnd(new.lines[n])
        BY <2>4, <2>5, <3>1 DEF JunkEnd, IsMarker
      <4> QED BY <2>3, <2>5, <2>6, <4>1
    <3>2. CASE ~IsMarker(last, "END", "VEVENT")
      <4>1. ~IsMarker(new.lines[n], "END", "VEVENT")
        BY <2>4, <2>5 DEF IsMarker
      <4>2. Ends(new.lines, n) = Ends(st.lines, n)
        BY <1>4, <2>5, <3>2, <4>1, EndsOfEqual
      <4> QED BY <2>5, <2>6, <2>7, <2>9, <4>2
    <3> QED BY <3>1, <3>2
  <2> QED BY <1>2, <2>8, <2>9 DEF UnfoldedSoFar
<1>7. CASE line.kind # "fold"
  <2>1. new.lines = Append(st.lines, line)
    BY <1>2, <1>7 DEF UnfoldOne, UnfoldedSoFar
  <2>2. /\ new.lines \in Seq(S \cup {line}) /\ Len(new.lines) = n + 1
        /\ new.lines[n + 1] = line
        /\ \A i \in 1 .. n : new.lines[i] = st.lines[i]
    <3>1. st.lines \in Seq(S \cup {line})
      BY <1>3
    <3> QED BY <2>1, <3>1, AppendProperties
  <2> HIDE DEF new
  <2>3. DOMAIN new.lines = 1 .. n + 1
    BY <2>2
  <2>4. ASSUME NEW i \in DOMAIN new.lines
        PROVE  UnfoldedLine(new.lines[i])
    <3>1. CASE i \in 1 .. n
      BY <1>2, <1>4, <2>2, <3>1 DEF UnfoldedSoFar
    <3>2. CASE i = n + 1
      BY <2>2, <3>2 DEF PhysicalLine, UnfoldedLine
    <3> QED BY <1>4, <2>3, <3>1, <3>2
  <2>5. CASE \E i \in DOMAIN st.lines : JunkEnd(st.lines[i])
    BY <1>4, <2>2, <2>3, <2>4, <2>5
  <2>6. CASE Cardinality(Ends(st.lines, n)) = Cardinality(Ends(doc, k))
    <3>1. Ends(new.lines, n) = Ends(st.lines, n)
      BY <1>4, <2>2, EndsOfEqual
    <3>2. Cardinality(Ends(new.lines, n + 1))
            = Cardinality(Ends(new.lines, n)) + IF IsMarker(line, "END", "VEVENT") THEN 1 ELSE 0
      BY <1>4, <2>2, EndsAreCounted
    <3>3. Cardinality(Ends(new.lines, Len(new.lines))) = Cardinality(Ends(doc, k + 1))
      BY <1>5, <2>2, <2>6, <3>1, <3>2
    <3> QED BY <2>2, <2>4, <3>3
  <2> QED BY <1>2, <2>5, <2>6 DEF UnfoldedSoFar
<1> QED BY <1>6, <1>7

\* A whole document unfolded.
LEMMA Unfolds ==
  ASSUME NEW S, NEW doc \in Seq(S), \A i \in DOMAIN doc : PhysicalLine(doc[i])
  PROVE  UnfoldedSoFar(Unfold(doc), doc, Len(doc))
<1> DEFINE n    == Len(doc)
           base == [lines |-> <<>>, error |-> "none"]
<1>1. n \in Nat /\ DOMAIN doc = 1 .. n
  OBVIOUS
<1> HIDE DEF n
<1>2. Unfold(doc) = Unfolding!Folded(base, doc)
  BY DEF Unfold, FoldLeft, MapThenFoldSet, Max, Unfolding!Folded,
         Unfolding!MapThenFoldSet, Unfolding!Largest
<1>3. PICK r : Unfolding!Partial(r, n, base, doc) /\ Unfolding!Folded(base, doc) = r[n]
  BY <1>1, Unfolding!FoldSteps
<1>4. r[0] = base /\ \A k \in 1 .. n : r[k] = UnfoldOne(r[k - 1], doc[k])
  BY <1>3 DEF Unfolding!Partial
<1> DEFINE T == {k \in 0 .. n : UnfoldedSoFar(r[k], doc, k)}
<1>5. 0 \in T
  <2>1. base.lines \in Seq({}) /\ Len(base.lines) = 0 /\ DOMAIN base.lines = {}
    OBVIOUS
  <2>2. \E Q : base.lines \in Seq(Q)
    BY <2>1
  <2>3. Cardinality(Ends(base.lines, 0)) = Cardinality(Ends(doc, 0))
    BY EndsAreCounted
  <2>4. UnfoldedSoFar(base, doc, 0)
    BY <2>1, <2>2, <2>3 DEF UnfoldedSoFar
  <2> QED BY <1>1, <1>4, <2>4
<1>6. ASSUME NEW k \in 1 .. n, k - 1 \in T
      PROVE  k \in T
  <2>1. k - 1 \in Nat /\ (k - 1) + 1 = k /\ PhysicalLine(doc[k])
    BY <1>1
  <2>2. UnfoldedSoFar(UnfoldOne(r[k - 1], doc[(k - 1) + 1]), doc, (k - 1) + 1)
    BY <1>6, <2>1, UnfoldStep
  <2> QED BY <1>4, <2>1, <2>2
<1> HIDE DEF T
<1>7. n \in T
  BY <1>1, <1>5, <1>6, Sums!InductionUpTo
<1>8. Unfold(doc) = r[n]
  BY <1>2, <1>3
<1> QED BY <1>7, <1>8 DEF T, n

-----------------------------------------------------------------------------
(* Events *)

\* The days between two dates are as many as the calendar has.
LEMMA NightsAreDays ==
  ASSUME NEW a, NEW b, IsDate(a), IsDate(b), NightsBetween(a, b) \in Nat
  PROVE  DaysAfter(a, NightsBetween(a, b)) = b
<1> DEFINE n == NightsBetween(a, b)
<1>1. DayNumber(a) + n = DayNumber(b)
  BY DayNumberIsInt DEF NightsBetween
<1> HIDE DEF n
<1>2. IsDate(DaysAfter(a, n)) /\ DayNumber(DaysAfter(a, n)) = DayNumber(b)
  BY <1>1, DaysAfterCounts DEF n
<1>3. DaysAfter(a, n) = b
  BY <1>2, DayNumbersAreDates
<1> QED BY <1>3 DEF n

\* A date that is no error of an event.
LEMMA GivenDate ==
  ASSUME NEW p, \A n \in DOMAIN p : UnfoldedLine(p[n]), NEW name,
         DateError(Given(p, name)) = "none"
  PROVE  Given(p, name) = p[name] /\ IsDate(p[name].value)
<1> DEFINE line == Given(p, name)
<1>1. line.form = "date" /\ ValidDate(line.value)
  BY DEF DateError
<1>2. line = p[name] /\ UnfoldedLine(line)
  BY <1>1 DEF Given, NotGiven, Line
<1> QED BY <1>1, <1>2, ValidDatesAreDates DEF UnfoldedLine

\* An event without an error stays for the nights the calendar has (parseEvent,
\* dayNumber).
LEMMA EventsStay ==
  ASSUME NEW p, \A n \in DOMAIN p : UnfoldedLine(p[n]), EventError(p) = "none"
  PROVE  \E n \in 1 .. MaxNights : DaysAfter(EventOf(p).arrival, n) = EventOf(p).departure
<1> DEFINE start == Given(p, "DTSTART")
           end   == Given(p, "DTEND")
           dates == {DateError(start), DateError(end)}
           codes == <<
             UidError(Given(p, "UID")),
             DateError(start),
             DateError(end),
             IF dates = {"none"} THEN IntervalError(start, end) ELSE "none",
             WordError(Given(p, "STATUS"), Statuses, "invalid_status"),
             WordError(Given(p, "TRANSP"), {"OPAQUE", "TRANSPARENT"}, "invalid_transparency"),
             SequenceError(Given(p, "SEQUENCE")),
             StampError(Given(p, "LAST-MODIFIED")),
             StampError(Given(p, "DTSTAMP")),
             IF "SUMMARY" \in DOMAIN p THEN TextError(p["SUMMARY"].value) ELSE "none" >>
<1>1. FirstFailure(codes) = "none"
  BY DEF EventError
<1>2. DOMAIN codes = 1 .. 10
  OBVIOUS
<1>3. /\ codes[2] = DateError(start)
      /\ codes[3] = DateError(end)
      /\ codes[4] = IF dates = {"none"} THEN IntervalError(start, end) ELSE "none"
  OBVIOUS
<1> HIDE DEF codes
<1>4. \A i \in 1 .. 10 : codes[i] = "none"
  BY <1>1, <1>2, NoFailure
<1>5. codes[2] = "none" /\ codes[3] = "none" /\ codes[4] = "none"
  BY <1>4
<1>6. DateError(start) = "none" /\ DateError(end) = "none" /\ IntervalError(start, end) = "none"
  BY <1>3, <1>5
<1>7. /\ start = p["DTSTART"] /\ IsDate(p["DTSTART"].value)
      /\ end = p["DTEND"] /\ IsDate(p["DTEND"].value)
  BY <1>6, GivenDate
<1> DEFINE n == NightsBetween(p["DTSTART"].value, p["DTEND"].value)
<1>8. n \in 1 .. MaxNights
  <2>1. n \in Int
    BY <1>7, DayNumberIsInt DEF NightsBetween
  <2> QED BY <1>6, <1>7, <2>1, TextLimitsAssumption DEF IntervalError
<1>9. DaysAfter(p["DTSTART"].value, n) = p["DTEND"].value
  BY <1>7, <1>8, NightsAreDays
<1> HIDE DEF n
<1>10. EventOf(p).arrival = p["DTSTART"].value /\ EventOf(p).departure = p["DTEND"].value
  BY DEF EventOf
<1> QED BY <1>8, <1>9, <1>10

-----------------------------------------------------------------------------
(* Reading *)

Reading == INSTANCE Folding WITH Op <- ReadLine

Stays(event) == \E n \in 1 .. MaxNights : DaysAfter(event.arrival, n) = event.departure

\* The calendar after k of its lines, unless reading failed: an event for each
\* end of one, no uid twice, and every stay counted as the calendar does.
ReadSoFar(st, lines, k) ==
  /\ DOMAIN st = {"component", "ended", "event", "events", "error"}
  /\ st.error = "none" =>
       /\ \E S : st.events \in Seq(S)
       /\ Len(st.events) = Cardinality(Ends(lines, k))
       /\ \A i \in 1 .. k : ~JunkEnd(lines[i])
       /\ \A i, j \in DOMAIN st.events : st.events[i].uid = st.events[j].uid => i = j
       /\ \A i \in DOMAIN st.events : Stays(st.events[i])
       /\ st.component = "VEVENT" => \A name \in DOMAIN st.event : UnfoldedLine(st.event[name])

\* A line that is no end of an event, and adds none.
LEMMA ReadOther ==
  ASSUME NEW lines, NEW k \in Nat, UnfoldedLine(lines[k + 1]), NEW st, ReadSoFar(st, lines, k),
         st.error = "none", ReadLine(st, lines[k + 1]).error = "none",
         ~IsMarker(lines[k + 1], "END", "VEVENT")
  PROVE  ReadSoFar(ReadLine(st, lines[k + 1]), lines, k + 1)
<1> DEFINE line == lines[k + 1]
           new  == ReadLine(st, line)
<1>1. /\ DOMAIN new = {"component", "ended", "event", "events", "error"}
      /\ new.events = st.events
      /\ new.component = "VEVENT" => \A name \in DOMAIN new.event : UnfoldedLine(new.event[name])
      /\ ~JunkEnd(line)
  <2>1. CASE IsMarker(line, "BEGIN", "VEVENT")
    <3>1. new = BeginEvent(st)
      BY <2>1 DEF ReadLine
    <3>2. new = [st EXCEPT !.event = <<>>, !.component = "VEVENT"]
      BY <3>1 DEF BeginEvent, Throw, ReadSoFar
    <3> QED BY <2>1, <3>2 DEF ReadSoFar, JunkEnd, IsMarker
  <2>2. CASE ~IsMarker(line, "BEGIN", "VEVENT") /\ IsMarker(line, "END", "VCALENDAR")
    <3>1. new = EndCalendar(st)
      BY <2>2 DEF ReadLine
    <3>2. new = [st EXCEPT !.ended = TRUE, !.component = "none"]
      BY <3>1 DEF EndCalendar, Throw, ReadSoFar
    <3> QED BY <2>2, <3>2 DEF ReadSoFar, JunkEnd, IsMarker
  <2>3. CASE ~IsMarker(line, "BEGIN", "VEVENT") /\ ~IsMarker(line, "END", "VCALENDAR")
    <3>1. line.kind # "broken" /\ line.name \notin {"BEGIN", "END"} /\ new = ReadProperty(st, line)
      BY <2>3 DEF ReadLine, Throw, ReadSoFar
    <3>2. ~JunkEnd(line)
      BY <3>1 DEF JunkEnd
    <3>3. CASE st.component = "VEVENT"
      <4>1. new = [st EXCEPT !.event = [n \in DOMAIN @ \cup {line.name} |->
                                          IF n = line.name THEN line ELSE @[n]]]
        BY <3>1, <3>3 DEF ReadProperty, Throw, ReadSoFar
      <4>2. new.event = [n \in DOMAIN st.event \cup {line.name} |->
                           IF n = line.name THEN line ELSE st.event[n]]
        BY <4>1 DEF ReadSoFar
      <4>3. \A name \in DOMAIN new.event : UnfoldedLine(new.event[name])
        BY <3>3, <4>2 DEF ReadSoFar
      <4> QED BY <3>2, <4>1, <4>3 DEF ReadSoFar
    <3>4. CASE st.component # "VEVENT"
      <4>1. new = st
        BY <3>1, <3>4 DEF ReadProperty, Throw, ReadSoFar
      <4> QED BY <3>2, <3>4, <4>1 DEF ReadSoFar
    <3> QED BY <3>3, <3>4
  <2> QED BY <2>1, <2>2, <2>3
<1> HIDE DEF new
<1>2. Cardinality(Ends(lines, k + 1)) = Cardinality(Ends(lines, k))
  <2>1. Cardinality(Ends(lines, k)) \in Nat
    BY EndsAreCounted
  <2> QED BY <2>1, EndsAreCounted
<1>3. \A i \in 1 .. k + 1 : ~JunkEnd(lines[i])
  BY <1>1 DEF ReadSoFar
<1>4. ReadSoFar(new, lines, k + 1)
  BY <1>1, <1>2, <1>3 DEF ReadSoFar
<1> QED BY <1>4 DEF new

\* The end of an event adds it.
LEMMA ReadEnd ==
  ASSUME NEW lines, NEW k \in Nat, NEW st, ReadSoFar(st, lines, k),
         st.error = "none", ReadLine(st, lines[k + 1]).error = "none",
         IsMarker(lines[k + 1], "END", "VEVENT")
  PROVE  ReadSoFar(ReadLine(st, lines[k + 1]), lines, k + 1)
<1> DEFINE line  == lines[k + 1]
           new   == ReadLine(st, line)
           event == EventOf(st.event)
           n     == Len(st.events)
<1>1. new = EndEvent(st)
  BY DEF ReadLine, IsMarker
<1>2. /\ st.component = "VEVENT" /\ EventError(st.event) = "none"
      /\ \A i \in DOMAIN st.events : st.events[i].uid # event.uid
      /\ new = [st EXCEPT !.events = Append(@, event), !.event = NoEvent,
                          !.component = "VCALENDAR"]
  BY <1>1 DEF EndEvent, Throw, ReadSoFar
<1>3. /\ DOMAIN new = {"component", "ended", "event", "events", "error"}
      /\ new.component # "VEVENT"
      /\ new.events = Append(st.events, event)
  BY <1>2 DEF ReadSoFar
<1>4. Stays(event)
  BY <1>2, EventsStay DEF ReadSoFar, Stays
<1>5. ~JunkEnd(line)
  BY DEF JunkEnd, IsMarker
<1>6. \A i \in 1 .. k + 1 : ~JunkEnd(lines[i])
  BY <1>5 DEF ReadSoFar
<1> HIDE DEF new, event
<1>7. PICK S : st.events \in Seq(S)
  BY DEF ReadSoFar
<1>8. n \in Nat /\ DOMAIN st.events = 1 .. n
  BY <1>7
<1>9. /\ new.events \in Seq(S \cup {event}) /\ Len(new.events) = n + 1
      /\ new.events[n + 1] = event
      /\ \A i \in 1 .. n : new.events[i] = st.events[i]
  <2>1. st.events \in Seq(S \cup {event})
    BY <1>7
  <2> QED BY <1>3, <2>1, AppendProperties
<1>10. DOMAIN new.events = 1 .. n + 1
  BY <1>9
<1>11. Len(new.events) = Cardinality(Ends(lines, k + 1))
  <2>1. Cardinality(Ends(lines, k + 1)) = Cardinality(Ends(lines, k)) + 1
    BY EndsAreCounted
  <2> QED BY <1>9, <2>1 DEF ReadSoFar
<1>12. ASSUME NEW i \in DOMAIN new.events
       PROVE  Stays(new.events[i])
  <2>1. CASE i \in 1 .. n
    BY <1>8, <1>9, <2>1 DEF ReadSoFar
  <2>2. CASE i = n + 1
    BY <1>4, <1>9, <2>2
  <2> QED BY <1>8, <1>10, <2>1, <2>2
<1>13. ASSUME NEW i \in DOMAIN new.events, NEW j \in DOMAIN new.events,
              new.events[i].uid = new.events[j].uid
       PROVE  i = j
  <2>1. CASE i \in 1 .. n /\ j \in 1 .. n
    <3>1. st.events[i].uid = st.events[j].uid
      BY <1>9, <1>13, <2>1
    <3> QED BY <1>8, <2>1, <3>1 DEF ReadSoFar
  <2>2. CASE i \in 1 .. n /\ j = n + 1
    BY <1>2, <1>8, <1>9, <1>13, <2>2
  <2>3. CASE i = n + 1 /\ j \in 1 .. n
    BY <1>2, <1>8, <1>9, <1>13, <2>3
  <2> QED BY <1>8, <1>10, <2>1, <2>2, <2>3
<1>14. ReadSoFar(new, lines, k + 1)
  BY <1>3, <1>6, <1>9, <1>11, <1>12, <1>13 DEF ReadSoFar
<1> QED BY <1>14 DEF new

\* A whole calendar read.
LEMMA Reads ==
  ASSUME NEW S, NEW lines \in Seq(S), \A i \in DOMAIN lines : UnfoldedLine(lines[i])
  PROVE  ReadSoFar(FoldLeft(ReadLine, [Outside EXCEPT !.component = "VCALENDAR"], lines),
                   lines, Len(lines))
<1> DEFINE n    == Len(lines)
           base == [Outside EXCEPT !.component = "VCALENDAR"]
           st   == FoldLeft(ReadLine, base, lines)
<1>1. n \in Nat /\ DOMAIN lines = 1 .. n
  OBVIOUS
<1>2. ReadSoFar(base, lines, 0)
  <2>1. /\ base.events = <<>> /\ base.component = "VCALENDAR"
        /\ DOMAIN base = {"component", "ended", "event", "events", "error"}
    BY DEF Outside
  <2> HIDE DEF base
  <2>2. base.events \in Seq({}) /\ Len(base.events) = 0 /\ DOMAIN base.events = {}
    BY <2>1
  <2>3. \E Q : base.events \in Seq(Q)
    BY <2>2
  <2>4. Cardinality(Ends(lines, 0)) = 0
    BY EndsAreCounted
  <2> QED BY <2>1, <2>2, <2>3, <2>4 DEF ReadSoFar
<1> HIDE DEF n, base
<1>3. st = Reading!Folded(base, lines)
  BY DEF FoldLeft, MapThenFoldSet, Max, Reading!Folded,
         Reading!MapThenFoldSet, Reading!Largest
<1>4. PICK r : Reading!Partial(r, n, base, lines) /\ Reading!Folded(base, lines) = r[n]
  BY <1>1, Reading!FoldSteps
<1>5. r[0] = base /\ \A k \in 1 .. n : r[k] = ReadLine(r[k - 1], lines[k])
  BY <1>4 DEF Reading!Partial
<1> DEFINE T == {k \in 0 .. n : ReadSoFar(r[k], lines, k)}
<1>6. 0 \in T
  BY <1>1, <1>2, <1>5
<1>7. ASSUME NEW k \in 1 .. n, k - 1 \in T
      PROVE  k \in T
  <2>1. k - 1 \in Nat /\ (k - 1) + 1 = k /\ UnfoldedLine(lines[k])
    BY <1>1
  <2>2. ReadSoFar(r[k - 1], lines, k - 1)
    BY <1>7
  <2>3. CASE r[k].error # "none"
    <3>1. DOMAIN r[k] = {"component", "ended", "event", "events", "error"}
      BY <1>5, <2>2 DEF ReadSoFar, ReadLine, BeginEvent, EndEvent, EndCalendar, ReadProperty, Throw
    <3> QED BY <2>3, <3>1 DEF ReadSoFar
  <2>4. CASE r[k].error = "none"
    <3>1. r[k - 1].error = "none"
      BY <1>5, <2>4 DEF ReadLine
    <3>2. ReadSoFar(ReadLine(r[k - 1], lines[(k - 1) + 1]), lines, (k - 1) + 1)
      BY <1>5, <2>1, <2>2, <2>4, <3>1, ReadOther, ReadEnd
    <3> QED BY <1>5, <2>1, <3>2
  <2> QED BY <2>3, <2>4
<1> HIDE DEF T
<1>8. n \in T
  BY <1>1, <1>6, <1>7, Sums!InductionUpTo
<1>9. st = r[n]
  BY <1>3, <1>4
<1>10. ReadSoFar(st, lines, n)
  BY <1>8, <1>9 DEF T
<1> QED BY <1>10 DEF n, base

\* What a calendar without an error holds.
LEMMA ParsedIsWhole ==
  ASSUME NEW S, NEW doc \in Seq(S), \A i \in DOMAIN doc : PhysicalLine(doc[i]),
         NEW parsed, parsed = ParseCalendar(doc), parsed.error = "none"
  PROVE  /\ Len(parsed.events) = Cardinality({i \in DOMAIN doc : IsMarker(doc[i], "END", "VEVENT")})
         /\ \A i, j \in DOMAIN parsed.events :
              parsed.events[i].uid = parsed.events[j].uid => i = j
         /\ \A i \in DOMAIN parsed.events : Stays(parsed.events[i])
<1> DEFINE unfolded == Unfold(doc)
           lines    == unfolded.lines
           rest     == Tail(lines)
           st       == FoldLeft(ReadLine, [Outside EXCEPT !.component = "VCALENDAR"], rest)
<1>1. /\ unfolded.error = "none" /\ lines # <<>> /\ IsMarker(lines[1], "BEGIN", "VCALENDAR")
      /\ st.error = "none" /\ parsed.events = st.events
  BY DEF ParseCalendar, Rejected
<1>2. UnfoldedSoFar(unfolded, doc, Len(doc))
  BY Unfolds
<1>3. PICK Q : lines \in Seq(Q)
  BY <1>1, <1>2 DEF UnfoldedSoFar
<1> HIDE DEF unfolded
<1>4. /\ rest \in Seq(Q) /\ Len(rest) \in Nat /\ Len(lines) = Len(rest) + 1
      /\ DOMAIN rest = 1 .. Len(rest) /\ DOMAIN lines = 1 .. Len(lines)
      /\ \A i \in 1 .. Len(rest) : rest[i] = lines[i + 1]
  BY <1>1, <1>3
<1>5. \A i \in DOMAIN lines : UnfoldedLine(lines[i])
  BY <1>1, <1>2 DEF UnfoldedSoFar
<1>6. \A i \in DOMAIN rest : UnfoldedLine(rest[i])
  <2> SUFFICES ASSUME NEW i \in DOMAIN rest PROVE UnfoldedLine(rest[i])
    OBVIOUS
  <2>1. i \in 1 .. Len(rest) /\ i + 1 \in DOMAIN lines
    BY <1>4
  <2>2. rest[i] = lines[i + 1]
    BY <1>4, <2>1
  <2> QED BY <1>5, <2>1, <2>2
<1> HIDE DEF rest
<1>7. ReadSoFar(st, rest, Len(rest))
  BY <1>4, <1>6, Reads
<1> HIDE DEF st
<1>8. ~IsMarker(lines[1], "END", "VEVENT") /\ ~JunkEnd(lines[1])
  BY <1>1 DEF IsMarker, JunkEnd
<1>9. \A i \in DOMAIN lines : ~JunkEnd(lines[i])
  <2> SUFFICES ASSUME NEW i \in DOMAIN lines, i # 1 PROVE ~JunkEnd(lines[i])
    BY <1>8
  <2>1. i - 1 \in 1 .. Len(rest) /\ (i - 1) + 1 = i
    BY <1>4
  <2>2. ~JunkEnd(rest[i - 1])
    BY <1>1, <1>7, <2>1 DEF ReadSoFar
  <2> QED BY <1>4, <2>1, <2>2
<1>10. Cardinality(Ends(lines, Len(lines))) = Cardinality(Ends(doc, Len(doc)))
  BY <1>1, <1>2, <1>9 DEF UnfoldedSoFar
<1>11. Cardinality(Ends(rest, Len(rest))) = Cardinality(Ends(lines, Len(lines)))
  BY <1>4, <1>8, EndsOfTail
<1>12. Ends(doc, Len(doc)) = {i \in DOMAIN doc : IsMarker(doc[i], "END", "VEVENT")}
  BY DEF Ends
<1>13. Len(st.events) = Cardinality({i \in DOMAIN doc : IsMarker(doc[i], "END", "VEVENT")})
  BY <1>1, <1>7, <1>10, <1>11, <1>12 DEF ReadSoFar
<1> QED BY <1>1, <1>7, <1>13 DEF ReadSoFar

-----------------------------------------------------------------------------
(* Text comes back *)

Unescapes == INSTANCE Folding WITH Op <- UnescapeOne

\* A prefix and one element more.
LEMMA NextPrefix ==
  ASSUME NEW S, NEW s \in Seq(S), NEW k \in 1 .. Len(s)
  PROVE  SubSeq(s, 1, k) = Append(SubSeq(s, 1, k - 1), s[k])
OBVIOUS

\* Text as it is read back.
Read(text) == [out |-> text, pending |-> FALSE, bad |-> FALSE]

\* Unescaping goes on where it was after the text before.
LEMMA UnescapeMore ==
  ASSUME NEW S, NEW s \in Seq(S), NEW t \in Seq(S)
  PROVE  Unescapes!Folded(Read(<<>>), s \o t)
           = Unescapes!Folded(Unescapes!Folded(Read(<<>>), s), t)
BY Unescapes!FoldOfConcat

\* An escaped character is read as the character.
LEMMA UnescapeEscaped ==
  ASSUME NEW out, NEW c
  PROVE  Unescapes!Folded(Read(out), IF c \in Escaped THEN <<"\\", c>> ELSE <<c>>)
           = Read(Append(out, c))
<1>1. CASE c \in Escaped
  <2> DEFINE s == <<"\\">>
             t == <<c>>
  <2>1. <<"\\", c>> = s \o t /\ s \in Seq({"\\", c}) /\ t \in Seq({"\\", c})
    OBVIOUS
  <2>2. Unescapes!Folded(Read(out), s) = UnescapeOne(Read(out), "\\")
    BY Unescapes!FoldOfOne
  <2>3. UnescapeOne(Read(out), "\\") = [out |-> out, pending |-> TRUE, bad |-> FALSE]
    BY DEF UnescapeOne, Read
  <2>4. \A st : Unescapes!Folded(st, t) = UnescapeOne(st, c)
    BY Unescapes!FoldOfOne
  <2> HIDE DEF s, t
  <2>5. Unescapes!Folded(Read(out), s \o t) = Unescapes!Folded(Unescapes!Folded(Read(out), s), t)
    BY <2>1, Unescapes!FoldOfConcat
  <2>6. UnescapeOne([out |-> out, pending |-> TRUE, bad |-> FALSE], c) = Read(Append(out, c))
    BY <1>1 DEF UnescapeOne, Read, Escaped
  <2> QED BY <1>1, <2>1, <2>2, <2>3, <2>4, <2>5, <2>6
<1>2. CASE c \notin Escaped
  <2>1. Unescapes!Folded(Read(out), <<c>>) = UnescapeOne(Read(out), c)
    BY Unescapes!FoldOfOne
  <2>2. UnescapeOne(Read(out), c) = Read(Append(out, c))
    BY <1>2 DEF UnescapeOne, Read, Escaped
  <2> QED BY <1>2, <2>1, <2>2
<1> QED BY <1>1, <1>2

\* The first k characters are escaped: they are read as they were, and nothing
\* was added but escapes.
EscapedSoFar(r, s, k) ==
  /\ r[k] \in Seq(ToSet(s) \cup {"\\"}) /\ Len(r[k]) <= 2 * k
  /\ Unescapes!Folded(Read(<<>>), r[k]) = Read(SubSeq(s, 1, k))
  /\ k # 0 =>
       /\ Len(r[k]) # 0
       /\ r[k][1] \in {"\\", s[1]}
       /\ r[k][Len(r[k])] = s[k]

LEMMA EscapeStep ==
  ASSUME NEW S, NEW s \in Seq(S), NEW r, NEW k \in 1 .. Len(s),
         r[k] = EscapeOne(r[k - 1], s[k]), EscapedSoFar(r, s, k - 1)
  PROVE  EscapedSoFar(r, s, k)
<1> DEFINE c     == s[k]
           piece == IF c \in Escaped THEN <<"\\", c>> ELSE <<c>>
           T     == ToSet(s) \cup {"\\"}
           old   == r[k - 1]
<1>1. c \in ToSet(s)
  BY DEF ToSet
<1>2. /\ piece \in Seq(T) /\ Len(piece) \in 1 .. 2
      /\ piece[1] \in {"\\", c} /\ piece[Len(piece)] = c
  <2>1. CASE c \in Escaped
    <3>1. piece = <<"\\", c>>
      BY <2>1
    <3> HIDE DEF piece
    <3> QED BY <1>1, <3>1
  <2>2. CASE c \notin Escaped
    <3>1. piece = <<c>>
      BY <2>2
    <3> HIDE DEF piece
    <3> QED BY <1>1, <3>1
  <2> QED BY <2>1, <2>2
<1>3. r[k] = old \o piece
  BY DEF EscapeOne
<1>4. old \in Seq(T) /\ Unescapes!Folded(Read(<<>>), old) = Read(SubSeq(s, 1, k - 1))
  BY DEF EscapedSoFar
<1>5. Unescapes!Folded(Read(SubSeq(s, 1, k - 1)), piece) = Read(SubSeq(s, 1, k))
  <2> DEFINE out == SubSeq(s, 1, k - 1)
  <2>1. Unescapes!Folded(Read(out), piece) = Read(Append(out, c))
    BY UnescapeEscaped
  <2>2. Append(out, c) = SubSeq(s, 1, k)
    BY NextPrefix
  <2> HIDE DEF out, piece, c
  <2>3. Unescapes!Folded(Read(out), piece) = Read(SubSeq(s, 1, k))
    BY <2>1, <2>2
  <2> QED BY <2>3 DEF out
<1> HIDE DEF piece, T, c
<1>6. Unescapes!Folded(Read(<<>>), old \o piece)
        = Unescapes!Folded(Unescapes!Folded(Read(<<>>), old), piece)
  BY <1>2, <1>4, UnescapeMore
<1>7. Unescapes!Folded(Read(<<>>), r[k]) = Read(SubSeq(s, 1, k))
  BY <1>3, <1>4, <1>5, <1>6
<1>8. /\ r[k] \in Seq(T) /\ Len(r[k]) = Len(old) + Len(piece) /\ Len(old) \in Nat
      /\ \A i \in 1 .. Len(old) : r[k][i] = old[i]
      /\ \A i \in 1 .. Len(piece) : r[k][Len(old) + i] = piece[i]
  BY <1>2, <1>3, <1>4, ConcatProperties
<1>9. r[k][Len(r[k])] = c /\ Len(r[k]) # 0
  <2>1. Len(piece) \in 1 .. Len(piece)
    BY <1>2
  <2>2. r[k][Len(old) + Len(piece)] = piece[Len(piece)]
    BY <1>8, <2>1
  <2> QED BY <1>2, <1>8, <2>2
<1>10. r[k][1] \in {"\\", s[1]}
  <2>1. CASE k = 1
    <3>1. Len(old) = 0
      BY <1>8, <2>1 DEF EscapedSoFar
    <3>2. r[k][1] = piece[1]
      BY <1>2, <1>8, <3>1
    <3> QED BY <1>2, <2>1, <3>2 DEF c
  <2>2. CASE k # 1
    <3>1. Len(old) # 0 /\ old[1] \in {"\\", s[1]}
      BY <2>2 DEF EscapedSoFar
    <3> QED BY <1>8, <3>1
  <2> QED BY <2>1, <2>2
<1>11. Len(r[k]) <= 2 * k
  <2>1. Len(old) <= 2 * (k - 1)
    BY DEF EscapedSoFar
  <2>2. Len(piece) \in 1 .. 2 /\ Len(old) \in Nat /\ Len(r[k]) = Len(old) + Len(piece) /\ k \in Int
    BY <1>2, <1>8
  <2>3. \A j \in Int, x \in Nat, y \in 1 .. 2 : x <= 2 * (j - 1) => x + y <= 2 * j
    OBVIOUS
  <2>4. Len(old) + Len(piece) <= 2 * k
    BY <2>1, <2>2, <2>3
  <2> QED BY <2>2, <2>4
<1> QED BY <1>7, <1>8, <1>9, <1>10, <1>11 DEF EscapedSoFar, T, c

Escaping == INSTANCE Folding WITH Op <- EscapeOne

\* What escapeText wrote, unescapeText reads (escapeText, unescapeText).
LEMMA EscapedComesBack ==
  ASSUME NEW S, NEW s \in Seq(S)
  PROVE  /\ EscapeText(s) \in Seq(ToSet(s) \cup {"\\"}) /\ Len(EscapeText(s)) <= 2 * Len(s)
         /\ Unescaping(EscapeText(s)) = Read(s)
         /\ s # <<>> =>
              /\ EscapeText(s) # <<>>
              /\ EscapeText(s)[1] \in {"\\", s[1]}
              /\ EscapeText(s)[Len(EscapeText(s))] = s[Len(s)]
<1> DEFINE n == Len(s)
<1>1. n \in Nat /\ DOMAIN s = 1 .. n
  OBVIOUS
<1>2. EscapeText(s) = Escaping!Folded(<<>>, s)
  BY DEF EscapeText, FoldLeft, MapThenFoldSet, Max, Escaping!Folded,
         Escaping!MapThenFoldSet, Escaping!Largest
<1>3. \A t : Unescaping(t) = Unescapes!Folded(Read(<<>>), t)
  BY DEF Unescaping, Read, FoldLeft, MapThenFoldSet, Max, Unescapes!Folded,
         Unescapes!MapThenFoldSet, Unescapes!Largest
<1>4. PICK r : Escaping!Partial(r, n, <<>>, s) /\ EscapeText(s) = r[n]
  BY <1>1, <1>2, Escaping!FoldSteps
<1>5. r[0] = <<>> /\ \A k \in 1 .. n : r[k] = EscapeOne(r[k - 1], s[k])
  BY <1>4 DEF Escaping!Partial
<1> DEFINE T == {k \in 0 .. n : EscapedSoFar(r, s, k)}
<1>6. EscapedSoFar(r, s, 0)
  <2>1. SubSeq(s, 1, 0) = <<>> /\ <<>> \in Seq(ToSet(s) \cup {"\\"}) /\ Len(<<>>) = 0
    OBVIOUS
  <2>2. Unescapes!Folded(Read(<<>>), <<>>) = Read(<<>>)
    BY Unescapes!FoldOfNone
  <2>3. r[0] \in Seq(ToSet(s) \cup {"\\"}) /\ Len(r[0]) <= 2 * 0
    BY <1>5, <2>1
  <2> QED BY <1>5, <2>1, <2>2, <2>3 DEF EscapedSoFar
<1>7. 0 \in T
  BY <1>1, <1>6
<1>8. ASSUME NEW k \in 1 .. n, k - 1 \in T
      PROVE  k \in T
  <2>1. EscapedSoFar(r, s, k - 1) /\ r[k] = EscapeOne(r[k - 1], s[k])
    BY <1>5, <1>8
  <2>2. k \in 1 .. Len(s) /\ k \in 0 .. n
    BY <1>1
  <2>3. EscapedSoFar(r, s, k)
    BY <2>1, <2>2, EscapeStep
  <2> QED BY <2>2, <2>3
<1> HIDE DEF T, n
<1>9. n \in T
  BY <1>1, <1>7, <1>8, Sums!InductionUpTo
<1> USE DEF n
<1>10. EscapedSoFar(r, s, n)
  BY <1>9 DEF T
<1>11. SubSeq(s, 1, n) = s
  OBVIOUS
<1>12. s # <<>> => n # 0
  OBVIOUS
<1>13. /\ EscapeText(s) \in Seq(ToSet(s) \cup {"\\"}) /\ Len(EscapeText(s)) <= 2 * n
       /\ Unescaping(EscapeText(s)) = Read(s)
  BY <1>3, <1>4, <1>10, <1>11 DEF EscapedSoFar
<1>14. ASSUME s # <<>>
       PROVE  /\ EscapeText(s) # <<>>
              /\ EscapeText(s)[1] \in {"\\", s[1]}
              /\ EscapeText(s)[Len(EscapeText(s))] = s[Len(s)]
  <2>1. Len(EscapeText(s)) # 0
    BY <1>4, <1>10, <1>12, <1>14 DEF EscapedSoFar
  <2>2. Len(<<>>) = 0
    OBVIOUS
  <2> QED BY <1>4, <1>10, <1>12, <1>14, <2>1, <2>2 DEF EscapedSoFar
<1> QED BY <1>13, <1>14

\* The indices between which text is kept.
LEMMA LeastAndLast ==
  ASSUME NEW n \in Nat, NEW T \in SUBSET (1 .. n), T # {}
  PROVE  Min(T) \in T /\ Max(T) \in T
<1>1. \E i \in T : \A j \in T : i <= j
  BY LeastIndex
<1>2. Min(T) \in T
  BY <1>1 DEF Min
<1> DEFINE U == {i \in 1 .. n : n + 1 - i \in T}
<1>3. U # {}
  <2>1. PICK i \in T : TRUE
    OBVIOUS
  <2>2. n + 1 - i \in 1 .. n /\ n + 1 - (n + 1 - i) = i
    OBVIOUS
  <2> QED BY <2>1, <2>2
<1>4. PICK i \in U : \A j \in U : i <= j
  BY <1>3, LeastIndex
<1>5. n + 1 - i \in T /\ \A j \in T : n + 1 - i >= j
  <2> SUFFICES ASSUME NEW j \in T PROVE n + 1 - i >= j
    BY <1>4
  <2>1. n + 1 - j \in 1 .. n /\ n + 1 - (n + 1 - j) = j
    OBVIOUS
  <2>2. n + 1 - j \in U
    BY <2>1
  <2>3. i <= n + 1 - j
    BY <1>4, <2>2
  <2> QED BY <1>4, <2>3
<1>6. Max(T) \in T
  BY <1>5 DEF Max
<1> QED BY <1>2, <1>6

\* Trimming takes away from both ends, and text it leaves as it is has solid ends.
LEMMA TrimTakesEnds ==
  ASSUME NEW S, NEW s \in Seq(S)
  PROVE  /\ Trim(s) \in Seq(S)
         /\ s = Trim(s) /\ s # <<>> => s[1] \notin Blanks /\ s[Len(s)] \notin Blanks
<1> DEFINE solid == {i \in DOMAIN s : s[i] \notin Blanks}
           n     == Len(s)
<1>1. n \in Nat /\ DOMAIN s = 1 .. n
  OBVIOUS
<1>2. CASE solid = {}
  <2>1. Trim(s) = <<>>
    BY <1>2 DEF Trim
  <2> QED BY <2>1
<1>3. CASE solid # {}
  <2> DEFINE a == Min(solid)
             b == Max(solid)
  <2>1. a \in solid /\ b \in solid
    BY <1>1, <1>3, LeastAndLast
  <2>2. Trim(s) = SubSeq(s, a, b)
    BY <1>3 DEF Trim
  <2>3. a \in 1 .. n /\ b \in 1 .. n /\ s[a] \notin Blanks /\ s[b] \notin Blanks
    BY <1>1, <2>1
  <2> HIDE DEF a, b
  <2>4. Trim(s) \in Seq(S)
    BY <2>2, <2>3
  <2>5. Len(SubSeq(s, a, b)) = IF a <= b THEN b - a + 1 ELSE 0
    BY <2>3
  <2>6. ASSUME s = Trim(s)
        PROVE  a = 1 /\ b = n
    <3>1. n = IF a <= b THEN b - a + 1 ELSE 0
      BY <2>2, <2>5, <2>6
    <3> QED BY <1>1, <2>3, <3>1
  <2> QED BY <2>3, <2>4, <2>6
<1> QED BY <1>2, <1>3

Sanitizing == INSTANCE Folding WITH Op <- SafeOne

\* Safe text has no unsafe character.
LEMMA SafeTextIsSafe ==
  ASSUME NEW S, NEW s \in Seq(S)
  PROVE  SafeText(s) \in Seq((S \ {"lf", "ctl"}) \cup {" "})
<1> DEFINE n == Len(s)
           C == (S \ {"lf", "ctl"}) \cup {" "}
           safe == FoldLeft(SafeOne, <<>>, s)
<1>1. n \in Nat /\ DOMAIN s = 1 .. n /\ \A k \in 1 .. n : s[k] \in S
  OBVIOUS
<1>2. safe = Sanitizing!Folded(<<>>, s)
  BY DEF FoldLeft, MapThenFoldSet, Max, Sanitizing!Folded,
         Sanitizing!MapThenFoldSet, Sanitizing!Largest
<1>3. PICK r : Sanitizing!Partial(r, n, <<>>, s) /\ safe = r[n]
  BY <1>1, <1>2, Sanitizing!FoldSteps
<1>4. r[0] = <<>> /\ \A k \in 1 .. n : r[k] = SafeOne(r[k - 1], s[k])
  BY <1>3 DEF Sanitizing!Partial
<1> HIDE DEF n
<1> DEFINE T == {k \in 0 .. n : r[k] \in Seq(C)}
<1>5. 0 \in T
  <2>1. 0 \in 0 .. n
    BY <1>1
  <2> HIDE DEF C
  <2>2. r[0] \in Seq(C)
    <3>1. <<>> \in Seq(C)
      OBVIOUS
    <3>2. r[0] = <<>>
      BY <1>4
    <3> QED BY <3>1, <3>2
  <2> QED BY <2>1, <2>2
<1>6. ASSUME NEW k \in 1 .. n, k - 1 \in T
      PROVE  k \in T
  <2>1. r[k] = r[k - 1] \/ \E c \in C : r[k] = Append(r[k - 1], c)
    BY <1>1, <1>4 DEF SafeOne
  <2>2. r[k - 1] \in Seq(C)
    BY <1>6
  <2> HIDE DEF C
  <2>3. r[k] \in Seq(C)
    <3>1. \A c \in C : Append(r[k - 1], c) \in Seq(C)
      BY <2>2, AppendProperties
    <3> QED BY <2>1, <2>2, <3>1
  <2> QED BY <2>3
<1> HIDE DEF T
<1>7. n \in T
  BY <1>1, <1>5, <1>6, Sums!InductionUpTo
<1>8. safe \in Seq(C)
  BY <1>3, <1>7 DEF T
<1> HIDE DEF safe, C
<1>9. Trim(safe) \in Seq(C)
  BY <1>8, TrimTakesEnds
<1> QED BY <1>9 DEF SafeText, safe, C

-----------------------------------------------------------------------------
(* Lines come back *)

Unfolded(lines) == [lines |-> lines, error |-> "none"]

\* A line that is written, and fits.
ContentLine(line) ==
  /\ line = Line(line.name, line.form, line.value)
  /\ line.form = "text" => \E V : line.value \in Seq(V)
  /\ Bytes(line) <= MaxLine

\* Where the k-th piece of n characters ends.
Cut(k, n) == IF k * (FoldAt - 1) < n THEN k * (FoldAt - 1) ELSE n

\* The pieces begin where others end, and the last ends with the text.
LEMMA CutsMeet ==
  ASSUME NEW n \in Nat \ {0}, NEW more, more = (n - 1) \div (FoldAt - 1)
  PROVE  /\ more \in Nat
         /\ Cut(0, n) = 0 /\ Cut(more + 1, n) = n
         /\ \A k \in 0 .. more : /\ Cut(k, n) = k * (FoldAt - 1)
                                 /\ Cut(k, n) \in Nat /\ Cut(k + 1, n) \in Nat
                                 /\ Cut(k, n) < Cut(k + 1, n) /\ Cut(k + 1, n) <= n
<1> DEFINE room == FoldAt - 1
<1>1. room \in Nat \ {0}
  BY TextLimitsAssumption
<1>0. more = (n - 1) \div room
  OBVIOUS
<1> HIDE DEF room
<1>2. more \in Nat /\ more * room <= n - 1 /\ (more + 1) * room >= n
  BY <1>0, <1>1
<1>3. ASSUME NEW k \in 0 .. more
      PROVE  /\ k * room \in Nat /\ k * room <= n - 1
             /\ (k + 1) * room = k * room + room
  <2>1. k * room <= more * room
    BY <1>1, <1>2
  <2>2. k * room \in Nat /\ more * room \in Nat /\ (k + 1) * room = k * room + room
    BY <1>1, <1>2
  <2> QED BY <1>2, <2>1, <2>2
<1>4. ASSUME NEW k \in Nat
      PROVE  Cut(k, n) = IF k * room < n THEN k * room ELSE n
  BY DEF Cut, room
<1>5. Cut(0, n) = 0
  <2>1. 0 * room = 0
    BY <1>1
  <2> QED BY <1>4, <2>1
<1>6. Cut(more + 1, n) = n
  <2>1. (more + 1) * room \in Nat /\ more + 1 \in Nat
    BY <1>1, <1>2
  <2> QED BY <1>2, <1>4, <2>1
<1>7. ASSUME NEW k \in 0 .. more
      PROVE  /\ Cut(k, n) = k * room
             /\ Cut(k, n) \in Nat /\ Cut(k + 1, n) \in Nat
             /\ Cut(k, n) < Cut(k + 1, n) /\ Cut(k + 1, n) <= n
  <2>1. k \in Nat /\ k + 1 \in Nat
    BY <1>2
  <2> DEFINE x == k * room
             y == (k + 1) * room
  <2>2. x \in Nat /\ x <= n - 1 /\ y = x + room
    BY <1>3
  <2>3. Cut(k, n) = (IF x < n THEN x ELSE n) /\ Cut(k + 1, n) = IF y < n THEN y ELSE n
    BY <1>4, <2>1
  <2> HIDE DEF x, y
  <2>4. Cut(k, n) = x
    BY <2>2, <2>3
  <2>5. Cut(k, n) \in Nat /\ Cut(k + 1, n) \in Nat /\ Cut(k, n) < Cut(k + 1, n) /\ Cut(k + 1, n) <= n
    BY <1>1, <2>2, <2>3
  <2> QED BY <2>4, <2>5 DEF x
<1> QED BY <1>2, <1>5, <1>6, <1>7 DEF room

\* Text and the piece of it that follows.
LEMMA NextPiece ==
  ASSUME NEW V, NEW v \in Seq(V), NEW a \in Nat, NEW b \in Nat, a <= b, b <= Len(v)
  PROVE  SubSeq(v, 1, a) \o SubSeq(v, a + 1, b) = SubSeq(v, 1, b)
OBVIOUS

\* The last element can be changed.
LEMMA LastChanged ==
  ASSUME NEW S, NEW s \in Seq(S), NEW x, NEW y
  PROVE  [Append(s, x) EXCEPT ![Len(s) + 1] = y] = Append(s, y)
<1> DEFINE T == S \cup {x, y}
           n == Len(s)
           a == Append(s, x)
           b == Append(s, y)
<1>1. s \in Seq(T) /\ n \in Nat /\ y \in T
  OBVIOUS
<1>2. /\ a \in Seq(T) /\ Len(a) = n + 1 /\ \A i \in 1 .. n : a[i] = s[i]
      /\ b \in Seq(T) /\ Len(b) = n + 1 /\ \A i \in 1 .. n : b[i] = s[i]
      /\ b[n + 1] = y
  BY <1>1, AppendProperties
<1> DEFINE c == [a EXCEPT ![n + 1] = y]
<1> HIDE DEF a, b, n, T
<1>3. /\ c \in Seq(T) /\ Len(c) = n + 1
      /\ \A i \in 1 .. n + 1 : c[i] = IF i = n + 1 THEN y ELSE a[i]
  <2>1. n + 1 \in 1 .. Len(a)
    BY <1>1, <1>2
  <2> QED BY <1>1, <1>2, <2>1, ExceptSeq
<1> HIDE DEF c
<1>4. \A i \in 1 .. n + 1 : c[i] = b[i]
  BY <1>1, <1>2, <1>3
<1>5. c = b
  BY <1>2, <1>3, <1>4, SeqEqual
<1> QED BY <1>5 DEF a, b, c, n

\* A line of which the first characters were unfolded.
Begun(line, a) == [line EXCEPT !.value = SubSeq(line.value, 1, a)]

\* A continuation goes on where the line before it ended.
LEMMA UnfoldPiece ==
  ASSUME NEW S, NEW lines \in Seq(S), NEW line, ContentLine(line), line.form = "text",
         NEW a \in Nat, NEW b \in Nat, a <= b, b <= Len(line.value)
  PROVE  UnfoldOne(Unfolded(Append(lines, Begun(line, a))), Fold(SubSeq(line.value, a + 1, b)))
           = Unfolded(Append(lines, Begun(line, b)))
<1> DEFINE v     == line.value
           piece == SubSeq(v, a + 1, b)
           st    == Unfolded(Append(lines, Begun(line, a)))
           n     == Len(st.lines)
           last  == st.lines[n]
<1>1. PICK V : v \in Seq(V)
  BY DEF ContentLine, Line
<1>2. Len(v) \in Nat /\ 1 + Len(v) <= MaxLine /\ MaxLine \in Nat
  BY <1>1, TextLimitsAssumption DEF ContentLine, Line, Bytes
<1>3. Len(piece) = b - a /\ Len(SubSeq(v, 1, a)) = a /\ SubSeq(v, 1, a) \o piece = SubSeq(v, 1, b)
  BY <1>1, NextPiece
<1>4. st.lines = Append(lines, Begun(line, a)) /\ st.error = "none"
  BY DEF Unfolded
<1>5. n = Len(lines) + 1 /\ Len(lines) \in Nat /\ last = Begun(line, a)
  BY <1>4
<1>6. /\ last.form = "text" /\ last.value = SubSeq(v, 1, a)
      /\ DOMAIN last = {"kind", "name", "form", "value"}
  BY <1>5 DEF Begun, ContentLine, Line
<1>7. /\ Fold(piece).kind = "fold" /\ Fold(piece).form = "text" /\ Fold(piece).value = piece
  BY DEF Fold
<1> DEFINE new == [st EXCEPT !.lines[n] = Continued(last, piece)]
<1> HIDE DEF piece, v
<1>8. Bytes(Fold(piece)) = 1 + (b - a) /\ Bytes(last) = 1 + a
  BY <1>3, <1>6, <1>7 DEF Bytes
<1>9. UnfoldOne(st, Fold(piece)) = new
  <2>1. ~(Bytes(Fold(piece)) > MaxLine) /\ ~(Bytes(last) + Len(piece) > MaxLine) /\ n # 0
    BY <1>2, <1>3, <1>5, <1>8 DEF v
  <2>2. Fold(piece).value = piece
    BY <1>7
  <2> HIDE DEF new
  <2> QED BY <1>4, <1>7, <2>1, <2>2 DEF UnfoldOne, new
<1>10. new = Unfolded(Append(lines, Begun(line, b)))
  <2> DEFINE L == Append(lines, Begun(line, a))
  <2>1. st = [lines |-> L, error |-> "none"]
    BY DEF Unfolded
  <2> HIDE DEF L, st
  <2>2. new = [lines |-> [L EXCEPT ![n] = Continued(last, piece)], error |-> "none"]
    BY <2>1
  <2>3. Continued(last, piece) = Begun(line, b)
    BY <1>3, <1>5, <1>6 DEF Begun, v, ContentLine, Line, Continued
  <2>4. [L EXCEPT ![n] = Begun(line, b)] = Append(lines, Begun(line, b))
    BY <1>5, LastChanged DEF L
  <2> QED BY <2>2, <2>3, <2>4 DEF Unfolded
<1> QED BY <1>9, <1>10 DEF piece, v

\* A line that is no continuation is a line of its own.
LEMMA UnfoldContent ==
  ASSUME NEW lines, NEW line, ContentLine(line)
  PROVE  UnfoldOne(Unfolded(lines), line) = Unfolded(Append(lines, line))
<1>1. ~(Bytes(line) > MaxLine)
  <2>1. Bytes(line) \in Int
    <3>1. CASE line.form = "text"
      <4>1. PICK V : line.value \in Seq(V)
        BY <3>1 DEF ContentLine, Line
      <4> QED BY <4>1 DEF Bytes
    <3>2. CASE line.form # "text"
      BY <3>2 DEF Bytes
    <3> QED BY <3>1, <3>2
  <2> QED BY <2>1, TextLimitsAssumption DEF ContentLine, Line
<1>2. line.kind = "content"
  BY DEF ContentLine, Line
<1> QED BY <1>1, <1>2 DEF UnfoldOne, Unfolded

\* A line with another value is the line of that value.
LEMMA LineWithValue ==
  ASSUME NEW line, NEW name, NEW form, NEW value, line = Line(name, form, value), NEW other
  PROVE  [line EXCEPT !.value = other] = Line(name, form, other)
  BY DEF Line

\* The beginning of a line that fits, fits.
LEMMA BegunFits ==
  ASSUME NEW line, ContentLine(line), line.form = "text", NEW a \in Nat, a <= Len(line.value)
  PROVE  ContentLine(Begun(line, a))
<1>1. PICK V : line.value \in Seq(V)
  BY DEF ContentLine, Line
<1>2. SubSeq(line.value, 1, a) \in Seq(V) /\ Len(SubSeq(line.value, 1, a)) = a
  BY <1>1
<1>3. /\ DOMAIN Begun(line, a) = {"kind", "name", "form", "value"}
      /\ Begun(line, a).kind = "content" /\ Begun(line, a).form = "text"
      /\ Begun(line, a).value = SubSeq(line.value, 1, a)
  BY DEF Begun, ContentLine, Line
<1>4. 1 + Len(line.value) <= MaxLine /\ Len(line.value) \in Nat
  BY <1>1 DEF ContentLine, Line, Bytes
<1>5. Bytes(Begun(line, a)) = 1 + a
  BY <1>2, <1>3 DEF Bytes
<1>6. Bytes(Begun(line, a)) <= MaxLine
  BY <1>4, <1>5, TextLimitsAssumption
<1>7. Begun(line, a) = Line(line.name, "text", SubSeq(line.value, 1, a))
  <2>1. line = Line(line.name, "text", line.value)
    BY DEF ContentLine
  <2> DEFINE v == SubSeq(line.value, 1, a)
  <2> HIDE DEF v
  <2>2. [line EXCEPT !.value = v] = Line(line.name, "text", v)
    BY <2>1, LineWithValue
  <2> QED BY <2>2 DEF Begun, v
<1>8. Begun(line, a) = Line(Begun(line, a).name, Begun(line, a).form, Begun(line, a).value)
  BY <1>7 DEF Line
<1> QED BY <1>2, <1>3, <1>6, <1>8 DEF ContentLine

\* The pieces foldLine makes of a line are unfolded to the line (foldLine,
\* unfoldLines).
LEMMA FoldedLineComesBack ==
  ASSUME NEW S, NEW lines \in Seq(S), NEW line, ContentLine(line)
  PROVE  /\ \E T : FoldLine(line) \in Seq(T)
         /\ Unfolding!Folded(Unfolded(lines), FoldLine(line)) = Unfolded(Append(lines, line))
<1> DEFINE room == FoldAt - 1
           v    == line.value
           n    == Len(v)
           more == (n - 1) \div room
           base == Unfolded(lines)
<1>1. CASE FoldLine(line) = <<line>>
  <2>1. <<line>> \in Seq({line})
    OBVIOUS
  <2>2. Unfolding!Folded(base, <<line>>) = UnfoldOne(base, line)
    BY Unfolding!FoldOfOne
  <2> QED BY <1>1, <2>1, <2>2, UnfoldContent
<1>2. CASE FoldLine(line) # <<line>>
  <2>1. line.form = "text" /\ ~(n <= room)
    BY <1>2 DEF FoldLine
  <2>2. PICK V : v \in Seq(V)
    BY <2>1 DEF ContentLine, Line
  <2>3. n \in Nat \ {0} /\ room \in Nat \ {0}
    <3>1. n \in Nat /\ room \in Nat \ {0}
      BY <2>2, TextLimitsAssumption
    <3> QED BY <2>1, <3>1
  <2> DEFINE pieces == [i \in 1 .. more + 1 |->
                          IF i = 1 THEN Begun(line, Cut(1, n))
                          ELSE Fold(SubSeq(v, Cut(i - 1, n) + 1, Cut(i, n)))]
  <2>4. /\ more \in Nat
        /\ Cut(0, n) = 0 /\ Cut(more + 1, n) = n
        /\ \A k \in 0 .. more : /\ Cut(k, n) = k * (FoldAt - 1)
                                /\ Cut(k, n) \in Nat /\ Cut(k + 1, n) \in Nat
                                /\ Cut(k, n) < Cut(k + 1, n) /\ Cut(k + 1, n) <= n
    BY <2>3, CutsMeet
  <2>5. FoldLine(line) = pieces
    <3> DEFINE Part(k) == SubSeq(v, k * room + 1, IF (k + 1) * room < n THEN (k + 1) * room ELSE n)
    <3>1. FoldLine(line) = [i \in 1 .. more + 1 |->
                              IF i = 1 THEN [line EXCEPT !.value = Part(0)] ELSE Fold(Part(i - 1))]
      BY <1>2, <2>1 DEF FoldLine
    <3>2. ASSUME NEW i \in 1 .. more + 1
          PROVE  Part(i - 1) = SubSeq(v, Cut(i - 1, n) + 1, Cut(i, n))
      <4>1. i - 1 \in 0 .. more /\ (i - 1) + 1 = i
        BY <2>4
      <4>2. Cut(i - 1, n) = (i - 1) * room
        BY <2>4, <4>1
      <4>3. Cut(i, n) = IF i * room < n THEN i * room ELSE n
        BY DEF Cut
      <4> HIDE DEF room
      <4> QED BY <4>1, <4>2, <4>3
    <3>3. Part(0) = SubSeq(v, 1, Cut(1, n))
      <4>1. 1 \in 1 .. more + 1
        BY <2>4
      <4>2. Part(1 - 1) = SubSeq(v, Cut(1 - 1, n) + 1, Cut(1, n))
        BY <3>2, <4>1
      <4>3. 1 - 1 = 0 /\ Cut(0, n) + 1 = 1
        BY <2>4
      <4> HIDE DEF Part
      <4> QED BY <2>4, <4>2, <4>3
    <3> HIDE DEF Part, more, n, v
    <3> QED BY <3>1, <3>2, <3>3 DEF Begun, v
  <2> HIDE DEF more, n
  <2>6. DOMAIN pieces = 1 .. more + 1 /\ more + 1 \in Nat
    BY <2>4
  <2>7. \E T : pieces \in Seq(T)
    <3>1. pieces \in Seq({pieces[i] : i \in 1 .. more + 1})
      BY <2>6
    <3> QED BY <3>1
  <2>8. PICK r : Unfolding!Partial(r, more + 1, base, pieces)
                 /\ Unfolding!Folded(base, pieces) = r[more + 1]
    BY <2>6, Unfolding!FoldSteps
  <2>9. r[0] = base /\ \A k \in 1 .. more + 1 : r[k] = UnfoldOne(r[k - 1], pieces[k])
    BY <2>8 DEF Unfolding!Partial
  <2> DEFINE T == {k \in 0 .. more + 1 :
                     k # 0 => r[k] = Unfolded(Append(lines, Begun(line, Cut(k, n))))}
  <2>10. 0 \in T
    BY <2>4
  <2>11. ASSUME NEW k \in 1 .. more + 1, k - 1 \in T
         PROVE  k \in T
    <3>1. k - 1 \in 0 .. more /\ (k - 1) + 1 = k
      BY <2>4
    <3> DEFINE j == k - 1
    <3>0. j \in 0 .. more /\ j + 1 = k
      BY <3>1
    <3> HIDE DEF j
    <3>10. /\ Cut(j, n) \in Nat /\ Cut(j + 1, n) \in Nat
           /\ Cut(j, n) < Cut(j + 1, n) /\ Cut(j + 1, n) <= n
      BY <2>4, <3>0
    <3>2. Cut(k, n) \in Nat /\ Cut(k - 1, n) \in Nat /\ Cut(k - 1, n) <= Cut(k, n) /\ Cut(k, n) <= n
      BY <3>0, <3>10 DEF j
    <3>3. CASE k = 1
      <4>1. ContentLine(Begun(line, Cut(1, n)))
        BY <2>1, <3>2, <3>3, BegunFits DEF n
      <4>2. r[1] = UnfoldOne(base, Begun(line, Cut(1, n)))
        BY <2>9, <3>3
      <4> QED BY <3>3, <4>1, <4>2, UnfoldContent
    <3>4. CASE k # 1
      <4>1. r[k - 1] = Unfolded(Append(lines, Begun(line, Cut(k - 1, n))))
        BY <2>11, <3>1, <3>4
      <4>2. pieces[k] = Fold(SubSeq(v, Cut(k - 1, n) + 1, Cut(k, n)))
        BY <3>4
      <4>3. r[k] = UnfoldOne(r[k - 1], pieces[k])
        BY <2>9
      <4>4. r[k] = Unfolded(Append(lines, Begun(line, Cut(k, n))))
        <5> HIDE DEF pieces
        <5> QED BY <2>1, <3>2, <4>1, <4>2, <4>3, UnfoldPiece DEF n
      <4> QED BY <4>4
    <3> QED BY <3>3, <3>4
  <2> DEFINE m == more + 1
  <2> HIDE DEF T
  <2>12. m \in T
    <3>1. m \in Nat /\ \A k \in 1 .. m : k - 1 \in T => k \in T
      BY <2>6, <2>11
    <3> HIDE DEF m
    <3>2. \A k \in 0 .. m : k \in T
      BY <2>10, <3>1, Sums!InductionUpTo
    <3> QED BY <3>1, <3>2
  <2>13. r[more + 1] = Unfolded(Append(lines, Begun(line, n)))
    BY <2>4, <2>12 DEF T
  <2>14. Begun(line, n) = line
    <3>1. SubSeq(v, 1, n) = v
      BY <2>2 DEF n
    <3>2. Begun(line, n) = [line EXCEPT !.value = v]
      BY <3>1 DEF Begun
    <3> QED BY <3>2 DEF ContentLine, Line
  <2> QED BY <2>5, <2>7, <2>8, <2>13, <2>14
<1> QED BY <1>1, <1>2

Writing == INSTANCE Folding WITH Op <- WriteLine

\* What was written of lines is read as these lines, whole.
LEMMA LinesComeBack ==
  ASSUME NEW S, NEW lines \in Seq(S), \A i \in DOMAIN lines : ContentLine(lines[i])
  PROVE  LET doc == FoldLeft(WriteLine, <<>>, lines)
         IN  Unfold(doc) = Unfolded(lines) /\ \E T : doc \in Seq(T)
<1> DEFINE n    == Len(lines)
           doc  == FoldLeft(WriteLine, <<>>, lines)
           base == Unfolded(<<>>)
<1>1. n \in Nat /\ DOMAIN lines = 1 .. n
  OBVIOUS
<1>2. doc = Writing!Folded(<<>>, lines)
  BY DEF FoldLeft, MapThenFoldSet, Max, Writing!Folded,
         Writing!MapThenFoldSet, Writing!Largest
<1>3. \A t : Unfold(t) = Unfolding!Folded(base, t)
  BY DEF Unfold, Unfolded, FoldLeft, MapThenFoldSet, Max, Unfolding!Folded,
         Unfolding!MapThenFoldSet, Unfolding!Largest
<1>4. PICK r : Writing!Partial(r, n, <<>>, lines) /\ doc = r[n]
  BY <1>1, <1>2, Writing!FoldSteps
<1>5. r[0] = <<>> /\ \A k \in 1 .. n : r[k] = WriteLine(r[k - 1], lines[k])
  BY <1>4 DEF Writing!Partial
<1> HIDE DEF n, doc, base
<1> DEFINE Back(k) == /\ \E T : r[k] \in Seq(T)
                      /\ Unfolding!Folded(base, r[k]) = Unfolded(SubSeq(lines, 1, k))
           Q == {k \in 0 .. n : Back(k)}
<1>6. Back(0)
  <2>1. <<>> \in Seq({}) /\ SubSeq(lines, 1, 0) = <<>>
    OBVIOUS
  <2>2. Unfolding!Folded(base, <<>>) = base
    BY Unfolding!FoldOfNone
  <2> QED BY <1>5, <2>1, <2>2 DEF base
<1>7. 0 \in Q
  BY <1>1, <1>6
<1>8. ASSUME NEW k \in 1 .. n, k - 1 \in Q
      PROVE  k \in Q
  <2> DEFINE line   == lines[k]
             before == SubSeq(lines, 1, k - 1)
             old    == r[k - 1]
  <2>1. Back(k - 1) /\ ContentLine(line)
    BY <1>1, <1>8
  <2>2. PICK T1 : old \in Seq(T1)
    BY <2>1
  <2>3. before \in Seq(S) /\ Append(before, line) = SubSeq(lines, 1, k)
    BY DEF n
  <2>4. /\ \E T : FoldLine(line) \in Seq(T)
        /\ Unfolding!Folded(Unfolded(before), FoldLine(line)) = Unfolded(Append(before, line))
    BY <2>1, <2>3, FoldedLineComesBack
  <2>5. PICK T2 : FoldLine(line) \in Seq(T2)
    BY <2>4
  <2> DEFINE new == FoldLine(line)
  <2>6. r[k] = old \o new
    BY <1>5 DEF WriteLine
  <2> HIDE DEF new, old, line, before
  <2>7. old \in Seq(T1 \cup T2) /\ new \in Seq(T1 \cup T2)
    BY <2>2, <2>5 DEF new
  <2>8. Unfolding!Folded(base, old \o new) = Unfolding!Folded(Unfolding!Folded(base, old), new)
    BY <2>7, Unfolding!FoldOfConcat
  <2>9. Unfolding!Folded(base, old) = Unfolded(before)
    BY <2>1 DEF old, before
  <2>10. old \o new \in Seq(T1 \cup T2)
    BY <2>7, ConcatProperties
  <2>11. Back(k)
    BY <2>3, <2>4, <2>6, <2>8, <2>9, <2>10 DEF new
  <2> QED BY <2>11
<1> HIDE DEF Q, Back
<1>9. n \in Q
  BY <1>1, <1>7, <1>8, Sums!InductionUpTo
<1>10. Back(n)
  BY <1>9 DEF Q
<1>11. SubSeq(lines, 1, n) = lines
  BY DEF n
<1>12. Unfold(doc) = Unfolded(lines) /\ \E T : doc \in Seq(T)
  BY <1>3, <1>4, <1>10, <1>11 DEF Back
<1> QED BY <1>12 DEF doc

-----------------------------------------------------------------------------
(* Dates the exporter takes, the parser takes *)

\* A day of a month counts from every other.
LEMMA DaysOfMonth ==
  ASSUME NEW y \in Nat, NEW m \in 1 .. 12, NEW a \in Int, NEW b \in Int
  PROVE  DayNumber(Date(y, m, a)) - DayNumber(Date(y, m, b)) = a - b
BY SMT DEF DayNumber, Date

\* A day that does not reach the next month is one of its month (validDate,
\* parseDateProperty).
LEMMA CountingValidates ==
  ASSUME NEW d \in DateParts, ValidByCounting(d)
  PROVE  ValidDate(d)
<1> DEFINE y    == d.year
           m    == d.month
           k    == DaysInMonth(y, m)
           last == Date(y, m, k)
           next == IF m = 12 THEN Date(y + 1, 1, 1) ELSE Date(y, m + 1, 1)
<1>1. /\ d = Date(y, m, d.day) /\ y \in MinYear .. MaxYear /\ m \in 1 .. 12 /\ d.day \in 1 .. 31
      /\ DayNumber(d) < DayNumber(next)
  BY DEF ValidByCounting, DateParts, Date
<1>2. k \in 1 .. 31 /\ y \in Nat \ {0}
  BY <1>1 DEF DaysInMonth, MinYear
<1>3. IsDate(last) /\ NextDay(last) = next
  BY <1>1, <1>2 DEF IsDate, NextDay, Date
<1>4. DayNumber(next) = DayNumber(last) + 1 /\ DayNumber(last) \in Int
  BY <1>3, NextDayCountsOne, DayNumberIsInt
<1>5. DayNumber(d) - DayNumber(last) = d.day - k
  <2>0. y \in Nat /\ m \in 1 .. 12 /\ d.day \in Int /\ k \in Int
    BY <1>1, <1>2
  <2> HIDE DEF y, m, k
  <2>1. DayNumber(Date(y, m, d.day)) - DayNumber(Date(y, m, k)) = d.day - k
    BY <2>0, DaysOfMonth
  <2> QED BY <1>1, <2>1 DEF y, m, k, last
<1>6. DayNumber(d) \in Int
  BY <1>1 DEF DayNumber
<1>7. d.day <= k
  BY <1>1, <1>2, <1>4, <1>5, <1>6
<1> QED BY <1>1, <1>2, <1>7 DEF ValidDate
-----------------------------------------------------------------------------
(* One exported event *)

LEMMA TenInSequence ==
  ASSUME NEW a, NEW b, NEW c, NEW d, NEW e, NEW f, NEW g, NEW h, NEW j, NEW k, NEW s,
         s = <<a, b, c, d, e, f, g, h, j, k>>
  PROVE  s \in Seq({s[i] : i \in 1 .. 10})
<1>1. s \in Seq({a, b, c, d, e, f, g, h, j, k})
  OBVIOUS
<1>2. Len(s) = 10
  OBVIOUS
<1>3. s = [i \in 1 .. 10 |-> s[i]]
  BY <1>1, <1>2
<1>4. [i \in 1 .. 10 |-> s[i]] \in Seq({s[i] : i \in 1 .. 10})
  OBVIOUS
<1> QED BY <1>3, <1>4

\* Its ten lines.
LEMMA EventLines ==
  ASSUME NEW r, NEW lines, lines = ExportedEvent(r)
  PROVE  /\ DOMAIN lines = 1 .. 10 /\ lines \in Seq({lines[i] : i \in 1 .. 10})
         /\ lines[1] = Marker("BEGIN", "VEVENT")
         /\ lines[2] = Text("UID", EscapeText(r.uid))
         /\ lines[3] = Line("DTSTAMP", "stamp", r.updatedAt)
         /\ lines[4] = Line("DTSTART", "date", r.arrival)
         /\ lines[5] = Line("DTEND", "date", r.departure)
         /\ lines[6] = Line("STATUS", "word", "CONFIRMED")
         /\ lines[7] = Line("SEQUENCE", "number", 0)
         /\ lines[8] = Text("SUMMARY", EscapeText(SafeText(r.summary)))
         /\ lines[9] = Line("LAST-MODIFIED", "stamp", r.updatedAt)
         /\ lines[10] = Marker("END", "VEVENT")
<1>1. /\ DOMAIN lines = 1 .. 10
      /\ lines[1] = Marker("BEGIN", "VEVENT")
      /\ lines[2] = Text("UID", EscapeText(r.uid))
      /\ lines[3] = Line("DTSTAMP", "stamp", r.updatedAt)
      /\ lines[4] = Line("DTSTART", "date", r.arrival)
      /\ lines[5] = Line("DTEND", "date", r.departure)
      /\ lines[6] = Line("STATUS", "word", "CONFIRMED")
      /\ lines[7] = Line("SEQUENCE", "number", 0)
      /\ lines[8] = Text("SUMMARY", EscapeText(SafeText(r.summary)))
      /\ lines[9] = Line("LAST-MODIFIED", "stamp", r.updatedAt)
      /\ lines[10] = Marker("END", "VEVENT")
  BY DEF ExportedEvent
<1>2. lines \in Seq({lines[i] : i \in 1 .. 10})
  <2> HIDE DEF Marker, Text, Line
  <2>1. \E a, b, c, d, e, f, g, h, j, k : lines = <<a, b, c, d, e, f, g, h, j, k>>
    BY DEF ExportedEvent
  <2> QED BY <2>1, TenInSequence

<1> QED BY <1>1, <1>2

\* A word, a date, a number or a stamp fits a line, and so does escaped text.
LEMMA WordsFit ==
  ASSUME NEW name, NEW form, NEW value, form # "text"
  PROVE  ContentLine(Line(name, form, value))
<1>1. MaxLine \in Nat /\ 1 <= MaxLine
  BY TextLimitsAssumption
<1> QED BY <1>1 DEF ContentLine, Line, Bytes

LEMMA TextsFit ==
  ASSUME NEW name, NEW S, NEW text \in Seq(S), Len(text) <= MaxText
  PROVE  ContentLine(Text(name, EscapeText(text)))
<1> DEFINE line  == Text(name, EscapeText(text))
           value == EscapeText(text)
<1>1. value \in Seq(ToSet(text) \cup {"\\"}) /\ Len(value) <= 2 * Len(text)
  BY EscapedComesBack
<1>2. line = [kind |-> "content", name |-> name, form |-> "text", value |-> value]
  BY DEF Text, Line
<1> HIDE DEF line, value
<1>3. line.name = name /\ line.form = "text" /\ line.value = value
  BY <1>2
<1>4. Bytes(line) = 1 + Len(value)
  BY <1>3 DEF Bytes
<1>5. Len(value) \in Nat /\ Len(text) \in Nat /\ MaxText \in Nat /\ MaxLine \in Nat
  BY <1>1, TextLimitsAssumption
<1>6. 2 * Len(text) <= 2 * MaxText /\ 2 * MaxText < MaxLine
  BY <1>5, TextLimitsAssumption
<1>7. Bytes(line) <= MaxLine
  BY <1>1, <1>4, <1>5, <1>6
<1>8. line = Line(line.name, line.form, line.value)
  BY <1>2, <1>3 DEF Line
<1> QED BY <1>1, <1>3, <1>7, <1>8 DEF ContentLine, line

\* What may be exported: text of bounded length, and valid dates.
LEMMA ExportableTells ==
  ASSUME NEW r, IsReservation(r), Exportable(r)
  PROVE  /\ r.uid \in Seq(ToSet(r.uid)) /\ r.uid # <<>> /\ Len(r.uid) <= MaxText
         /\ r.uid[1] \notin Blanks /\ r.uid[Len(r.uid)] \notin Blanks
         /\ ToSet(r.uid) \cap Controls = {}
         /\ \E S : /\ SafeText(r.summary) \in Seq(S)
                  /\ S \cap {"lf", "ctl"} = {}
         /\ Len(SafeText(r.summary)) \in 1 .. MaxText
         /\ ValidDate(r.arrival) /\ ValidDate(r.departure)
         /\ NightsBetween(r.arrival, r.departure) \in 1 .. MaxNights
<1>1. /\ r.uid \in Seq(ToSet(r.uid)) /\ r.uid # <<>> /\ Len(r.uid) <= MaxText
      /\ r.uid = Trim(r.uid) /\ ToSet(r.uid) \cap Controls = {}
      /\ Len(SafeText(r.summary)) \in 1 .. MaxText
      /\ NightsBetween(r.arrival, r.departure) \in 1 .. MaxNights
  BY DEF IsReservation, Exportable
<1>2. r.uid[1] \notin Blanks /\ r.uid[Len(r.uid)] \notin Blanks
  BY <1>1, TrimTakesEnds
<1> DEFINE C == (ToSet(r.summary) \ {"lf", "ctl"}) \cup {" "}
<1>3. SafeText(r.summary) \in Seq(C)
  BY SafeTextIsSafe DEF IsReservation
<1>4. C \cap {"lf", "ctl"} = {}
  OBVIOUS
<1>5. ValidDate(r.arrival) /\ ValidDate(r.departure)
  BY CountingValidates DEF IsReservation, Exportable
<1> HIDE DEF C
<1> QED BY <1>1, <1>2, <1>3, <1>4, <1>5

\* Every line of an exported event fits.
LEMMA EventLinesFit ==
  ASSUME NEW r, IsReservation(r), Exportable(r)
  PROVE  \A i \in 1 .. 10 : ContentLine(ExportedEvent(r)[i])
<1> DEFINE lines == ExportedEvent(r)
<1>1. ContentLine(Text("UID", EscapeText(r.uid)))
  BY ExportableTells, TextsFit
<1>2. ContentLine(Text("SUMMARY", EscapeText(SafeText(r.summary))))
  <2>1. PICK S : SafeText(r.summary) \in Seq(S)
    BY ExportableTells
  <2>2. Len(SafeText(r.summary)) <= MaxText
    BY ExportableTells, TextLimitsAssumption
  <2> QED BY <2>1, <2>2, TextsFit
<1> HIDE DEF lines
<1>3. /\ lines[1] = Line("BEGIN", "word", "VEVENT")
      /\ lines[2] = Text("UID", EscapeText(r.uid))
      /\ lines[3] = Line("DTSTAMP", "stamp", r.updatedAt)
      /\ lines[4] = Line("DTSTART", "date", r.arrival)
      /\ lines[5] = Line("DTEND", "date", r.departure)
      /\ lines[6] = Line("STATUS", "word", "CONFIRMED")
      /\ lines[7] = Line("SEQUENCE", "number", 0)
      /\ lines[8] = Text("SUMMARY", EscapeText(SafeText(r.summary)))
      /\ lines[9] = Line("LAST-MODIFIED", "stamp", r.updatedAt)
      /\ lines[10] = Line("END", "word", "VEVENT")
  BY EventLines DEF lines, Marker
<1>4. \A i \in {1, 3, 4, 5, 6, 7, 9, 10} : ContentLine(lines[i])
  BY <1>3, WordsFit
<1>5. \A i \in 1 .. 10 : i \in {1, 3, 4, 5, 6, 7, 9, 10} \/ i = 2 \/ i = 8
  OBVIOUS
<1> QED BY <1>1, <1>2, <1>3, <1>4, <1>5 DEF lines

-----------------------------------------------------------------------------
(* An exported event is read *)

\* The calendar after some of its events, without an error so far.
Reader(component, ended, event, events) ==
  [component |-> component, ended |-> ended, event |-> event, events |-> events,
   error |-> "none"]

Open == FALSE

\* Between two events, and in one of which the properties p were read.
Between(events) == Reader("VCALENDAR", Open, NoEvent, events)

InEvent(p, events) == Reader("VEVENT", Open, p, events)

LEMMA ReaderFields ==
  ASSUME NEW component, NEW ended, NEW event, NEW events, NEW st,
         st = Reader(component, ended, event, events)
  PROVE  /\ st.component = component /\ st.ended = ended /\ st.event = event
         /\ st.events = events /\ st.error = "none"
BY DEF Reader

LEMMA EventChanges ==
  ASSUME NEW component, NEW ended, NEW event, NEW events, NEW st,
         st = Reader(component, ended, event, events), NEW e
  PROVE  [st EXCEPT !.event = e] = Reader(component, ended, e, events)
BY DEF Reader

LEMMA EventsChange ==
  ASSUME NEW component, NEW ended, NEW event, NEW events, NEW st,
         st = Reader(component, ended, event, events), NEW f
  PROVE  [st EXCEPT !.events = f] = Reader(component, ended, event, f)
BY DEF Reader

LEMMA ComponentChanges ==
  ASSUME NEW component, NEW ended, NEW event, NEW events, NEW st,
         st = Reader(component, ended, event, events), NEW c
  PROVE  [st EXCEPT !.component = c] = Reader(c, ended, event, events)
BY DEF Reader

With(p, line) == [n \in DOMAIN p \cup {line.name} |-> IF n = line.name THEN line ELSE p[n]]

\* The event that a reservation comes back as.
ReadBack(r) ==
  [uid |-> r.uid, arrival |-> r.arrival, departure |-> r.departure, status |-> "CONFIRMED",
   sequence |-> 0, lastModified |-> r.updatedAt, summary |-> SafeText(r.summary)]

\* A property the event does not have yet is added to it.
LEMMA PropertyRead ==
  ASSUME NEW p, NEW events, NEW name, NEW form, NEW value,
         name \notin Recurrence \cup {"BEGIN", "END"} \cup DOMAIN p
  PROVE  ReadLine(InEvent(p, events), Line(name, form, value))
           = InEvent(With(p, Line(name, form, value)), events)
<1> DEFINE line == Line(name, form, value)
           st   == InEvent(p, events)
<1>1. line.name = name /\ line.kind = "content"
  BY DEF Line
<1>0. st = Reader("VEVENT", Open, p, events)
  BY DEF InEvent
<1> DEFINE q == With(p, line)
<1> HIDE DEF line, st, q
<1>2. /\ st.component = "VEVENT" /\ st.error = "none" /\ st.event = p
      /\ [st EXCEPT !.event = q] = InEvent(q, events)
  BY <1>0, ReaderFields, EventChanges DEF InEvent
<1>3. ~IsMarker(line, "BEGIN", "VEVENT") /\ ~IsMarker(line, "END", "VEVENT")
      /\ ~IsMarker(line, "END", "VCALENDAR")
  BY <1>1 DEF IsMarker
<1>4. ReadLine(st, line) = ReadProperty(st, line)
  BY <1>1, <1>2, <1>3 DEF ReadLine
<1>5. ReadProperty(st, line) = [st EXCEPT !.event = q]
  BY <1>1, <1>2 DEF ReadProperty, With, q
<1> QED BY <1>2, <1>4, <1>5 DEF line, st, q

\* The lines from the second to the k-th were read as properties of an event.
EventSoFar(st, events, lines, k) ==
  \E p : /\ st = InEvent(p, events)
        /\ DOMAIN p = {lines[i].name : i \in 2 .. k}
        /\ \A i \in 2 .. k : p[lines[i].name] = lines[i]

LEMMA NextProperty ==
  ASSUME NEW st, NEW events, NEW lines, NEW k \in Nat \ {0}, EventSoFar(st, events, lines, k),
         NEW line, line = lines[k + 1], line = Line(line.name, line.form, line.value),
         line.name \notin Recurrence \cup {"BEGIN", "END"},
         \A i \in 2 .. k : lines[i].name # line.name
  PROVE  EventSoFar(ReadLine(st, line), events, lines, k + 1)
<1>1. PICK p : /\ st = InEvent(p, events)
               /\ DOMAIN p = {lines[i].name : i \in 2 .. k}
               /\ \A i \in 2 .. k : p[lines[i].name] = lines[i]
  BY DEF EventSoFar
<1> DEFINE q == With(p, line)
<1>2. line.name \notin Recurrence \cup {"BEGIN", "END"} \cup DOMAIN p
  BY <1>1
<1>3. ReadLine(st, line) = InEvent(q, events)
  BY <1>1, <1>2, PropertyRead
<1>4. /\ DOMAIN q = DOMAIN p \cup {line.name} /\ q[line.name] = line
      /\ \A n \in DOMAIN p : q[n] = p[n]
  BY <1>2 DEF With
<1> HIDE DEF q
<1>5. \A i : i \in 2 .. k + 1 <=> i \in 2 .. k \/ i = k + 1
  OBVIOUS
<1>6. DOMAIN q = {lines[i].name : i \in 2 .. k + 1}
  BY <1>1, <1>4, <1>5
<1>7. \A i \in 2 .. k + 1 : q[lines[i].name] = lines[i]
  BY <1>1, <1>4, <1>5
<1> QED BY <1>3, <1>6, <1>7 DEF EventSoFar

\* The properties of an event that was exported.
IsExported(p, r) ==
  /\ DOMAIN p = {"UID", "DTSTAMP", "DTSTART", "DTEND", "STATUS", "SEQUENCE", "SUMMARY",
                 "LAST-MODIFIED"}
  /\ p["UID"] = Text("UID", EscapeText(r.uid))
  /\ p["DTSTAMP"] = Line("DTSTAMP", "stamp", r.updatedAt)
  /\ p["DTSTART"] = Line("DTSTART", "date", r.arrival)
  /\ p["DTEND"] = Line("DTEND", "date", r.departure)
  /\ p["STATUS"] = Line("STATUS", "word", "CONFIRMED")
  /\ p["SEQUENCE"] = Line("SEQUENCE", "number", 0)
  /\ p["SUMMARY"] = Text("SUMMARY", EscapeText(SafeText(r.summary)))
  /\ p["LAST-MODIFIED"] = Line("LAST-MODIFIED", "stamp", r.updatedAt)

\* Escaped text is no fault, and is read as the text.
LEMMA TextIsRead ==
  ASSUME NEW S, NEW s \in Seq(S), Len(s) <= MaxText, "ctl" \notin ToSet(s)
  PROVE  TextError(EscapeText(s)) = "none" /\ Unescape(EscapeText(s)) = s
<1>1. Unescaping(EscapeText(s)) = [out |-> s, pending |-> FALSE, bad |-> FALSE]
  BY EscapedComesBack DEF Read
<1>2. Len(s) \in Nat /\ MaxText \in Nat
  BY TextLimitsAssumption
<1> QED BY <1>1, <1>2 DEF TextError, Unescape

LEMMA UidIsRead ==
  ASSUME NEW r, IsReservation(r), Exportable(r), NEW line, line = Text("UID", EscapeText(r.uid))
  PROVE  UidError(line) = "none" /\ Unescape(line.value) = r.uid
<1> DEFINE raw == EscapeText(r.uid)
           S   == ToSet(r.uid)
<1>1. /\ r.uid \in Seq(S) /\ r.uid # <<>> /\ Len(r.uid) <= MaxText
      /\ r.uid[1] \notin Blanks /\ r.uid[Len(r.uid)] \notin Blanks
      /\ S \cap Controls = {}
  BY ExportableTells
<1>2. "ctl" \notin S
  BY <1>1 DEF Controls
<1>3. TextError(raw) = "none" /\ Unescape(raw) = r.uid
  BY <1>1, <1>2, TextIsRead
<1>4. /\ raw \in Seq(S \cup {"\\"}) /\ raw # <<>>
      /\ raw[1] \in {"\\", r.uid[1]} /\ raw[Len(raw)] = r.uid[Len(r.uid)]
  BY <1>1, EscapedComesBack
<1>5. line.form = "text" /\ line.value = raw
  BY DEF Text, Line
<1> HIDE DEF raw, S
<1>6. ToSet(raw) \cap Controls = {}
  BY <1>1, <1>4 DEF ToSet, Controls
<1>7. ~BoundaryBlank(raw)
  <2>1. Head(raw) = raw[1] /\ Last(raw) = raw[Len(raw)]
    BY <1>4 DEF Last
  <2>2. "\\" \notin Blanks
    BY DEF Blanks
  <2>3. raw[1] \notin Blanks /\ raw[Len(raw)] \notin Blanks
    BY <1>1, <1>4, <2>2
  <2> QED BY <2>1, <2>3 DEF BoundaryBlank, Blanks
<1>8. ~MissingValue(line)
  BY <1>4, <1>5 DEF MissingValue
<1>9. ToSet(Unescape(raw)) \cap Controls = {} /\ Unescape(raw) # <<>>
  BY <1>1, <1>3 DEF S
<1> QED BY <1>3, <1>5, <1>6, <1>7, <1>8, <1>9 DEF UidError

LEMMA SummaryIsRead ==
  ASSUME NEW r, IsReservation(r), Exportable(r)
  PROVE  /\ TextError(EscapeText(SafeText(r.summary))) = "none"
         /\ Unescape(EscapeText(SafeText(r.summary))) = SafeText(r.summary)
<1> DEFINE s == SafeText(r.summary)
<1>1. PICK S : s \in Seq(S) /\ S \cap {"lf", "ctl"} = {}
  BY ExportableTells
<1>2. Len(s) \in 1 .. MaxText
  BY ExportableTells
<1> HIDE DEF s
<1>3. "ctl" \notin ToSet(s)
  BY <1>1 DEF ToSet
<1>4. Len(s) <= MaxText
  BY <1>2, TextLimitsAssumption
<1> QED BY <1>1, <1>3, <1>4, TextIsRead DEF s

LEMMA DatesAreRead ==
  ASSUME NEW d, ValidDate(d), NEW name
  PROVE  DateError(Line(name, "date", d)) = "none"
BY DEF DateError, Line, MissingValue

\* None of the checks of an event fails.
LEMMA FirstOfNone ==
  ASSUME NEW codes, \A i \in DOMAIN codes : codes[i] = "none"
  PROVE  FirstFailure(codes) = "none"
BY DEF FirstFailure

LEMMA ExportedIsAccepted ==
  ASSUME NEW r, IsReservation(r), Exportable(r), NEW p, IsExported(p, r)
  PROVE  EventError(p) = "none" /\ EventOf(p) = ReadBack(r)
<1>1. /\ Given(p, "UID") = p["UID"] /\ Given(p, "DTSTAMP") = p["DTSTAMP"]
      /\ Given(p, "DTSTART") = p["DTSTART"] /\ Given(p, "DTEND") = p["DTEND"]
      /\ Given(p, "STATUS") = p["STATUS"] /\ Given(p, "SEQUENCE") = p["SEQUENCE"]
      /\ Given(p, "LAST-MODIFIED") = p["LAST-MODIFIED"]
      /\ Given(p, "TRANSP") = NotGiven /\ "SUMMARY" \in DOMAIN p
  BY DEF IsExported, Given
<1>2. UidError(p["UID"]) = "none" /\ Unescape(p["UID"].value) = r.uid
  BY UidIsRead DEF IsExported
<1>3. /\ DateError(p["DTSTART"]) = "none" /\ DateError(p["DTEND"]) = "none"
      /\ p["DTSTART"].value = r.arrival /\ p["DTEND"].value = r.departure
  <2>1. ValidDate(r.arrival) /\ ValidDate(r.departure)
    BY ExportableTells
  <2> QED BY <2>1, DatesAreRead DEF IsExported, Line
<1>4. IntervalError(p["DTSTART"], p["DTEND"]) = "none"
  <2>1. NightsBetween(r.arrival, r.departure) \in 1 .. MaxNights /\ MaxNights \in Nat
    BY ExportableTells, TextLimitsAssumption
  <2> QED BY <1>3, <2>1 DEF IntervalError
<1>5. /\ p["STATUS"].form = "word" /\ p["STATUS"].value = "CONFIRMED"
      /\ p["SEQUENCE"].form = "number" /\ p["SEQUENCE"].value = 0
      /\ p["LAST-MODIFIED"].form = "stamp" /\ p["LAST-MODIFIED"].value = r.updatedAt
      /\ p["DTSTAMP"].form = "stamp" /\ NotGiven.form = "absent"
      /\ p["SUMMARY"].value = EscapeText(SafeText(r.summary))
  BY DEF IsExported, Line, Text, NotGiven
<1>6. /\ WordError(p["STATUS"], Statuses, "invalid_status") = "none"
      /\ WordError(NotGiven, {"OPAQUE", "TRANSPARENT"}, "invalid_transparency") = "none"
      /\ SequenceError(p["SEQUENCE"]) = "none"
      /\ StampError(p["LAST-MODIFIED"]) = "none" /\ StampError(p["DTSTAMP"]) = "none"
  <2>1. MaxSequence \in Nat
    BY TextLimitsAssumption
  <2> QED BY <1>5, <2>1 DEF WordError, SequenceError, StampError, Statuses
<1>7. /\ TextError(p["SUMMARY"].value) = "none"
      /\ Unescape(p["SUMMARY"].value) = SafeText(r.summary)
  BY <1>5, SummaryIsRead
<1>8. EventError(p) = FirstFailure(<<"none", "none", "none", "none", "none", "none", "none",
                                     "none", "none", "none">>)
  BY <1>1, <1>2, <1>3, <1>4, <1>6, <1>7 DEF EventError
<1>9. EventError(p) = "none"
  BY <1>8, FirstOfNone
<1>10. EventOf(p) = ReadBack(r)
  <2>1. ValueOr(Given(p, "TRANSP"), "OPAQUE") = "OPAQUE"
    BY <1>1, <1>5 DEF ValueOr
  <2>2. /\ ValueOr(Given(p, "STATUS"), "CONFIRMED") = "CONFIRMED"
        /\ ValueOr(Given(p, "SEQUENCE"), Null) = 0
        /\ ValueOr(Given(p, "LAST-MODIFIED"), Null) = r.updatedAt
    BY <1>1, <1>5 DEF ValueOr
  <2> QED BY <1>1, <1>2, <1>3, <1>7, <2>1, <2>2 DEF EventOf, ReadBack
<1> QED BY <1>9, <1>10

\* The lines of an exported event add the event.
LEMMA ExportedEventIsRead ==
  ASSUME NEW r, IsReservation(r), Exportable(r), NEW events, Len(events) \in Nat,
         Len(events) < MaxEvents, \A i \in DOMAIN events : events[i].uid # r.uid
  PROVE  Reading!Folded(Between(events), ExportedEvent(r)) = Between(Append(events, ReadBack(r)))
<1> DEFINE lines == ExportedEvent(r)
           base  == Between(events)
<1>1. /\ DOMAIN lines = 1 .. 10
      /\ lines[1] = Line("BEGIN", "word", "VEVENT")
      /\ lines[2] = Line("UID", "text", EscapeText(r.uid))
      /\ lines[3] = Line("DTSTAMP", "stamp", r.updatedAt)
      /\ lines[4] = Line("DTSTART", "date", r.arrival)
      /\ lines[5] = Line("DTEND", "date", r.departure)
      /\ lines[6] = Line("STATUS", "word", "CONFIRMED")
      /\ lines[7] = Line("SEQUENCE", "number", 0)
      /\ lines[8] = Line("SUMMARY", "text", EscapeText(SafeText(r.summary)))
      /\ lines[9] = Line("LAST-MODIFIED", "stamp", r.updatedAt)
      /\ lines[10] = Line("END", "word", "VEVENT")
  BY EventLines DEF Marker, Text
<1> HIDE DEF base, lines
<1> DEFINE n == 10
<1>2. n \in Nat /\ DOMAIN lines = 1 .. n
  BY <1>1
<1> HIDE DEF n
<1>3. PICK f : Reading!Partial(f, n, base, lines) /\ Reading!Folded(base, lines) = f[n]
  BY <1>2, Reading!FoldSteps
<1>3a. f[0] = base /\ \A k \in 1 .. n : f[k] = ReadLine(f[k - 1], lines[k])
  BY <1>3 DEF Reading!Partial
<1>4. /\ f[1] = ReadLine(base, lines[1]) /\ f[2] = ReadLine(f[1], lines[2])
      /\ f[3] = ReadLine(f[2], lines[3]) /\ f[4] = ReadLine(f[3], lines[4])
      /\ f[5] = ReadLine(f[4], lines[5]) /\ f[6] = ReadLine(f[5], lines[6])
      /\ f[7] = ReadLine(f[6], lines[7]) /\ f[8] = ReadLine(f[7], lines[8])
      /\ f[9] = ReadLine(f[8], lines[9]) /\ f[10] = ReadLine(f[9], lines[10])
  BY <1>3a DEF n
<1>5. /\ lines[2].name = "UID" /\ lines[3].name = "DTSTAMP" /\ lines[4].name = "DTSTART"
      /\ lines[5].name = "DTEND" /\ lines[6].name = "STATUS" /\ lines[7].name = "SEQUENCE"
      /\ lines[8].name = "SUMMARY" /\ lines[9].name = "LAST-MODIFIED"
  BY <1>1 DEF Line
<1>6. f[1] = InEvent(<<>>, events)
  <2>1. IsMarker(lines[1], "BEGIN", "VEVENT")
    BY <1>1 DEF IsMarker, Line
  <2> DEFINE u == [base EXCEPT !.event = <<>>]
  <2>2. base = Reader("VCALENDAR", Open, NoEvent, events)
    BY DEF Between, base
  <2>4. base.error = "none" /\ base.component = "VCALENDAR" /\ base.events = events
    BY <2>2, ReaderFields
  <2>5. u = Reader("VCALENDAR", Open, <<>>, events)
    BY <2>2, EventChanges
  <2>6. [base EXCEPT !.event = <<>>, !.component = "VEVENT"] = [u EXCEPT !.component = "VEVENT"]
    OBVIOUS
  <2> HIDE DEF u
  <2>7. [base EXCEPT !.event = <<>>, !.component = "VEVENT"] = InEvent(<<>>, events)
    BY <2>5, <2>6, ComponentChanges DEF InEvent
  <2>3. ~(Len(events) >= MaxEvents)
    BY TextLimitsAssumption
  <2> QED BY <1>4, <2>1, <2>3, <2>4, <2>7 DEF ReadLine, BeginEvent
<1>7. EventSoFar(f[1], events, lines, 1)
  <2>1. DOMAIN <<>> = {lines[i].name : i \in 2 .. 1} /\ 2 .. 1 = {}
    OBVIOUS
  <2> QED BY <1>6, <2>1 DEF EventSoFar
<1>8. \A i : i \in 2 .. 9 <=> i \in {2, 3, 4, 5, 6, 7, 8, 9}
  OBVIOUS
<1>9. \A i \in 2 .. 9 : /\ lines[i] = Line(lines[i].name, lines[i].form, lines[i].value)
                        /\ lines[i].name \notin Recurrence \cup {"BEGIN", "END"}
  <2>1. \A name, form, value :
          LET line == Line(name, form, value) IN line = Line(line.name, line.form, line.value)
    BY DEF Line
  <2>2. \A i \in {2, 3, 4, 5, 6, 7, 8, 9} :
          lines[i] = Line(lines[i].name, lines[i].form, lines[i].value)
    BY <1>1, <2>1
  <2>3. \A i \in {2, 3, 4, 5, 6, 7, 8, 9} : lines[i].name \notin Recurrence \cup {"BEGIN", "END"}
    BY <1>5 DEF Recurrence
  <2> QED BY <1>8, <2>2, <2>3
<1>10. \A i, j \in 2 .. 9 : lines[i].name = lines[j].name => i = j
  <2> DEFINE Place(name) ==
               CASE name = "UID" -> 2 [] name = "DTSTAMP" -> 3 [] name = "DTSTART" -> 4
                 [] name = "DTEND" -> 5 [] name = "STATUS" -> 6 [] name = "SEQUENCE" -> 7
                 [] name = "SUMMARY" -> 8 [] name = "LAST-MODIFIED" -> 9
  <2>1. /\ Place(lines[2].name) = 2 /\ Place(lines[3].name) = 3 /\ Place(lines[4].name) = 4
        /\ Place(lines[5].name) = 5 /\ Place(lines[6].name) = 6 /\ Place(lines[7].name) = 7
        /\ Place(lines[8].name) = 8 /\ Place(lines[9].name) = 9
    BY <1>5
  <2> HIDE DEF Place
  <2>2. \A i \in {2, 3, 4, 5, 6, 7, 8, 9} : Place(lines[i].name) = i
    BY <2>1
  <2>3. \A i \in 2 .. 9 : Place(lines[i].name) = i
    BY <1>8, <2>2
  <2> QED BY <2>3
<1>11. ASSUME NEW k \in 1 .. 8, EventSoFar(f[k], events, lines, k)
       PROVE  EventSoFar(f[k + 1], events, lines, k + 1)
  <2>1. k \in Nat \ {0} /\ k + 1 \in 2 .. 9 /\ k + 1 \in 1 .. 10 /\ k + 1 - 1 = k
        /\ \A i \in 2 .. k : i \in 2 .. 9 /\ i # k + 1
    OBVIOUS
  <2>2. f[k + 1] = ReadLine(f[k], lines[k + 1])
    BY <1>3a, <2>1 DEF n
  <2> DEFINE line == lines[k + 1]
  <2>3. /\ line = Line(line.name, line.form, line.value)
        /\ line.name \notin Recurrence \cup {"BEGIN", "END"}
    BY <1>9, <2>1
  <2>4. \A i \in 2 .. k : lines[i].name # line.name
    BY <1>10, <2>1
  <2> HIDE DEF line
  <2>5. line = lines[k + 1]
    BY DEF line
  <2>6. EventSoFar(ReadLine(f[k], line), events, lines, k + 1)
    BY <1>11, <2>1, <2>3, <2>4, <2>5, NextProperty
  <2> QED BY <2>2, <2>5, <2>6
<1>12. EventSoFar(f[9], events, lines, 9)
  <2>1. EventSoFar(f[2], events, lines, 2) /\ EventSoFar(f[3], events, lines, 3)
        /\ EventSoFar(f[4], events, lines, 4) /\ EventSoFar(f[5], events, lines, 5)
    BY <1>7, <1>11
  <2> QED BY <2>1, <1>11
<1>13. PICK p9 : /\ f[9] = InEvent(p9, events)
                 /\ DOMAIN p9 = {lines[i].name : i \in 2 .. 9}
                 /\ \A i \in 2 .. 9 : p9[lines[i].name] = lines[i]
  BY <1>12 DEF EventSoFar
<1>14. DOMAIN p9 = {"UID", "DTSTAMP", "DTSTART", "DTEND", "STATUS", "SEQUENCE", "SUMMARY",
                    "LAST-MODIFIED"}
  <2> DEFINE D == {"UID", "DTSTAMP", "DTSTART", "DTEND", "STATUS", "SEQUENCE", "SUMMARY",
                   "LAST-MODIFIED"}
  <2>1. \A i \in {2, 3, 4, 5, 6, 7, 8, 9} : lines[i].name \in D
    BY <1>5
  <2>2. \A m \in D : \E i \in {2, 3, 4, 5, 6, 7, 8, 9} : m = lines[i].name
    BY <1>5
  <2> HIDE DEF D
  <2>3. DOMAIN p9 \subseteq D
    BY <1>8, <1>13, <2>1, SMTT(40)
  <2>4. D \subseteq DOMAIN p9
    BY <1>8, <1>13, <2>2, SMTT(40)
  <2> QED BY <2>3, <2>4 DEF D
<1>15. IsExported(p9, r)
  <2>1. /\ p9["UID"] = lines[2] /\ p9["DTSTAMP"] = lines[3] /\ p9["DTSTART"] = lines[4]
        /\ p9["DTEND"] = lines[5] /\ p9["STATUS"] = lines[6] /\ p9["SEQUENCE"] = lines[7]
        /\ p9["SUMMARY"] = lines[8] /\ p9["LAST-MODIFIED"] = lines[9]
    <3>1. \A i \in {2, 3, 4, 5, 6, 7, 8, 9} : p9[lines[i].name] = lines[i]
      BY <1>8, <1>13
    <3>2. /\ p9[lines[2].name] = lines[2] /\ p9[lines[3].name] = lines[3]
          /\ p9[lines[4].name] = lines[4] /\ p9[lines[5].name] = lines[5]
          /\ p9[lines[6].name] = lines[6] /\ p9[lines[7].name] = lines[7]
          /\ p9[lines[8].name] = lines[8] /\ p9[lines[9].name] = lines[9]
      BY <3>1
    <3> QED BY <1>5, <3>2
  <2> QED BY <1>1, <1>14, <2>1 DEF IsExported, Text
<1>16. EventError(p9) = "none" /\ EventOf(p9) = ReadBack(r)
  BY <1>15, ExportedIsAccepted
<1> DEFINE st == InEvent(p9, events)
<1>17. f[10] = Between(Append(events, ReadBack(r)))
  <2>1. IsMarker(lines[10], "END", "VEVENT") /\ ~IsMarker(lines[10], "BEGIN", "VEVENT")
    BY <1>1 DEF IsMarker, Line
  <2> DEFINE more == Append(events, ReadBack(r))
             u    == [st EXCEPT !.events = more]
             w    == [u EXCEPT !.event = NoEvent]
  <2>7. st = Reader("VEVENT", Open, p9, events)
    BY DEF InEvent
  <2> HIDE DEF st, more
  <2>2. /\ st.error = "none" /\ st.component = "VEVENT" /\ st.event = p9 /\ st.events = events
    BY <2>7, ReaderFields
  <2>8. [st EXCEPT !.events = more, !.event = NoEvent, !.component = "VCALENDAR"]
          = [w EXCEPT !.component = "VCALENDAR"]
    OBVIOUS
  <2>9. u = Reader("VEVENT", Open, p9, more)
    BY <2>7, EventsChange
  <2> HIDE DEF u
  <2>10. w = Reader("VEVENT", Open, NoEvent, more)
    BY <2>9, EventChanges
  <2> HIDE DEF w
  <2>11. [w EXCEPT !.component = "VCALENDAR"] = Between(more)
    BY <2>10, ComponentChanges DEF Between
  <2>3. ReadBack(r).uid = r.uid
    BY DEF ReadBack
  <2>4. f[10] = EndEvent(st)
    BY <1>4, <1>13, <2>1, <2>2 DEF ReadLine, st
  <2>5. ~ \E i \in DOMAIN st.events : st.events[i].uid = EventOf(st.event).uid
    BY <1>16, <2>2, <2>3
  <2>6. EndEvent(st) = [st EXCEPT !.events = more, !.event = NoEvent,
                                  !.component = "VCALENDAR"]
    BY <1>16, <2>2, <2>5 DEF EndEvent, more
  <2> QED BY <2>4, <2>6, <2>8, <2>11 DEF more
<1> QED BY <1>3, <1>17 DEF base, lines, n

-----------------------------------------------------------------------------
(* A whole calendar comes back *)

\* What is left of a sequence that goes on.
LEMMA TailGoesOn ==
  ASSUME NEW S, NEW s \in Seq(S), s # <<>>, NEW t \in Seq(S)
  PROVE  /\ Tail(s) \in Seq(S) /\ s \o t # <<>> /\ (s \o t)[1] = s[1]
         /\ Tail(s \o t) = Tail(s) \o t
<1> DEFINE m == Len(s)
           n == Len(t)
           u == Tail(s \o t)
           w == Tail(s) \o t
<1>1. m \in Nat \ {0} /\ n \in Nat /\ Tail(s) \in Seq(S) /\ Len(Tail(s)) = m - 1
      /\ \A i \in 1 .. m - 1 : Tail(s)[i] = s[i + 1]
  OBVIOUS
<1>2. /\ s \o t \in Seq(S) /\ Len(s \o t) = m + n
      /\ \A i \in 1 .. m : (s \o t)[i] = s[i]
      /\ \A i \in 1 .. n : (s \o t)[m + i] = t[i]
  BY ConcatProperties
<1>3. s \o t # <<>> /\ (s \o t)[1] = s[1]
  BY <1>1, <1>2
<1>4. /\ u \in Seq(S) /\ Len(u) = m + n - 1
      /\ \A i \in 1 .. m + n - 1 : u[i] = (s \o t)[i + 1]
  <2> DEFINE v == s \o t
  <2> HIDE DEF v
  <2>1. v \in Seq(S) /\ v # <<>> /\ Len(v) = m + n
    BY <1>2, <1>3 DEF v
  <2>2. /\ Tail(v) \in Seq(S) /\ Len(Tail(v)) = Len(v) - 1
        /\ \A i \in 1 .. Len(v) - 1 : Tail(v)[i] = v[i + 1]
    BY <2>1
  <2> QED BY <2>1, <2>2 DEF v
<1>5. /\ w \in Seq(S) /\ Len(w) = (m - 1) + n
      /\ \A i \in 1 .. m - 1 : w[i] = Tail(s)[i]
      /\ \A i \in 1 .. n : w[m - 1 + i] = t[i]
  BY <1>1, ConcatProperties
<1> HIDE DEF m, n, u, w
<1>6. ASSUME NEW i \in 1 .. m + n - 1
      PROVE  u[i] = w[i]
  <2>1. CASE i <= m - 1
    <3>1. i \in 1 .. m - 1 /\ i + 1 \in 1 .. m
      BY <1>1, <2>1
    <3> QED BY <1>1, <1>2, <1>4, <1>5, <3>1
  <2>2. CASE i > m - 1
    <3> DEFINE j == i - (m - 1)
    <3>1. j \in 1 .. n /\ i + 1 = m + j /\ i = m - 1 + j
      BY <1>1, <2>2
    <3> HIDE DEF j
    <3>2. u[i] = (s \o t)[m + j]
      BY <1>4, <3>1
    <3>3. w[i] = t[j]
      BY <1>5, <3>1
    <3> QED BY <1>2, <3>1, <3>2, <3>3
  <2> QED BY <1>1, <2>1, <2>2
<1>7. Len(u) = Len(w)
  BY <1>1, <1>4, <1>5
<1>8. u = w
  BY <1>4, <1>5, <1>6, <1>7, SeqEqual
<1> QED BY <1>1, <1>3, <1>8 DEF u, w

\* The identity of the program is read and dropped.
LEMMA HeadIsRead ==
  LET prodId == Text("PRODID", <<"a">>)
  IN  ContentLine(prodId) /\ ReadLine(Between(<<>>), prodId) = Between(<<>>)
<1> DEFINE prodId == Text("PRODID", <<"a">>)
           st     == Between(<<>>)
<1>1. /\ prodId.name = "PRODID" /\ prodId.form = "text" /\ prodId.value = <<"a">>
      /\ prodId.kind = "content" /\ prodId = Line(prodId.name, prodId.form, prodId.value)
  BY DEF Text, Line
<1>2. st.component = "VCALENDAR" /\ st.error = "none"
  BY ReaderFields DEF Between
<1> HIDE DEF prodId, st
<1>3. MaxText \in Nat /\ MaxLine \in Nat /\ 1 <= MaxText /\ 2 <= MaxLine
  BY TextLimitsAssumption
<1>4. <<"a">> \in Seq({"a"}) /\ Len(<<"a">>) = 1 /\ ToSet(<<"a">>) = {"a"}
  BY DEF ToSet
<1>5. ContentLine(prodId)
  BY <1>1, <1>3, <1>4 DEF ContentLine, Bytes
<1>6. TextError(<<"a">>) = "none"
  <2> DEFINE u == Unescaping(<<"a">>)
  <2>1. u = Unescapes!Folded(Read(<<>>), <<"a">>)
    BY DEF Unescaping, Read, FoldLeft, MapThenFoldSet, Max, Unescapes!Folded,
           Unescapes!MapThenFoldSet, Unescapes!Largest
  <2>2. u = UnescapeOne(Read(<<>>), "a")
    BY <2>1, Unescapes!FoldOfOne
  <2>3. UnescapeOne(Read(<<>>), "a").out = Append(<<>>, "a")
        /\ ~UnescapeOne(Read(<<>>), "a").bad /\ ~UnescapeOne(Read(<<>>), "a").pending
    BY DEF UnescapeOne, Read
  <2>4. Append(<<>>, "a") = <<"a">>
    OBVIOUS
  <2> HIDE DEF u
  <2>5. u.out = <<"a">> /\ ~u.bad /\ ~u.pending
    BY <2>2, <2>3, <2>4
  <2>6. ~(Len(u.out) > MaxText \/ "ctl" \in ToSet(u.out))
    BY <1>3, <1>4, <2>5
  <2> QED BY <2>5, <2>6 DEF TextError, u
<1>7. ReadLine(st, prodId) = ReadProperty(st, prodId)
  BY <1>1, <1>2 DEF ReadLine, IsMarker
<1>8. ReadProperty(st, prodId) = st
  BY <1>1, <1>2, <1>6 DEF ReadProperty
<1> QED BY <1>5, <1>7, <1>8 DEF prodId, st

ReadBacks(e, k) == [i \in 1 .. k |-> ReadBack(e[i])]

LEMMA NextReadBack ==
  ASSUME NEW e, NEW k \in Nat \ {0}
  PROVE  /\ ReadBacks(e, 0) = <<>> /\ Len(ReadBacks(e, k - 1)) = k - 1
         /\ DOMAIN ReadBacks(e, k - 1) = 1 .. k - 1
         /\ \A i \in 1 .. k - 1 : ReadBacks(e, k - 1)[i] = ReadBack(e[i])
         /\ Append(ReadBacks(e, k - 1), ReadBack(e[k])) = ReadBacks(e, k)
<1>1. ReadBacks(e, 0) = <<>>
  BY DEF ReadBacks
<1> DEFINE S == {ReadBack(e[i]) : i \in 1 .. k}
           s == ReadBacks(e, k - 1)
           t == ReadBacks(e, k)
           u == Append(s, ReadBack(e[k]))
<1>2. /\ s \in Seq(S) /\ Len(s) = k - 1 /\ DOMAIN s = 1 .. k - 1
      /\ \A i \in 1 .. k - 1 : s[i] = ReadBack(e[i])
  BY DEF ReadBacks
<1>3. t \in Seq(S) /\ Len(t) = k /\ \A i \in 1 .. k : t[i] = ReadBack(e[i])
  BY DEF ReadBacks
<1>4. ReadBack(e[k]) \in S
  OBVIOUS
<1> HIDE DEF S, s, t
<1>5. /\ u \in Seq(S) /\ Len(u) = k - 1 + 1 /\ \A i \in 1 .. k - 1 : u[i] = s[i]
      /\ u[k - 1 + 1] = ReadBack(e[k])
  BY <1>2, <1>4, AppendProperties
<1> HIDE DEF u
<1>6. \A i \in 1 .. k : u[i] = t[i]
  <2>1. \A i \in 1 .. k : i \in 1 .. k - 1 \/ i = k
    OBVIOUS
  <2> QED BY <1>2, <1>3, <1>5, <2>1
<1>7. u = t
  BY <1>3, <1>5, <1>6, SeqEqual
<1> QED BY <1>1, <1>2, <1>7 DEF s, t, u

\* The lines of a calendar of k reservations, which is not closed yet.
WrittenSoFar(lines, e, k) ==
  /\ \E S : lines \in Seq(S)
  /\ lines # <<>> /\ lines[1] = Marker("BEGIN", "VCALENDAR")
  /\ \A i \in DOMAIN lines : ContentLine(lines[i])
  /\ Reading!Folded(Between(<<>>), Tail(lines)) = Between(ReadBacks(e, k))

LEMMA WrittenHead ==
  ASSUME NEW e
  PROVE  WrittenSoFar(ExportHead, e, 0)
<1> DEFINE first  == Marker("BEGIN", "VCALENDAR")
           prodId == Text("PRODID", <<"a">>)
<1>1. ExportHead = <<first, prodId>>
  BY DEF ExportHead
<1>2. ContentLine(first)
  BY WordsFit DEF Marker
<1>3. ContentLine(prodId) /\ ReadLine(Between(<<>>), prodId) = Between(<<>>)
  BY HeadIsRead
<1>4. ReadBacks(e, 0) = <<>>
  BY DEF ReadBacks
<1> HIDE DEF first, prodId
<1>5. /\ ExportHead \in Seq({first, prodId}) /\ ExportHead # <<>> /\ ExportHead[1] = first
      /\ Tail(ExportHead) = <<prodId>>
      /\ \A i \in DOMAIN ExportHead : ExportHead[i] \in {first, prodId}
  BY <1>1
<1>6. Reading!Folded(Between(<<>>), <<prodId>>) = Between(<<>>)
  BY <1>3, Reading!FoldOfOne
<1>7. \E S : ExportHead \in Seq(S)
  BY <1>5
<1>8. \A i \in DOMAIN ExportHead : ContentLine(ExportHead[i])
  BY <1>2, <1>3, <1>5
<1> QED BY <1>4, <1>5, <1>6, <1>7, <1>8 DEF WrittenSoFar, first

LEMMA WriteNext ==
  ASSUME NEW e, NEW k \in Nat \ {0}, k <= MaxEvents, IsReservation(e[k]), Exportable(e[k]),
         \A i \in 1 .. k - 1 : e[i].uid # e[k].uid, NEW lines, WrittenSoFar(lines, e, k - 1)
  PROVE  WrittenSoFar(WriteEvent(lines, e[k]), e, k)
<1> DEFINE r      == e[k]
           event  == ExportedEvent(r)
           events == ReadBacks(e, k - 1)
           base   == Between(<<>>)
<1>1. /\ lines # <<>> /\ lines[1] = Marker("BEGIN", "VCALENDAR")
      /\ \A i \in DOMAIN lines : ContentLine(lines[i])
      /\ Reading!Folded(base, Tail(lines)) = Between(events)
  BY DEF WrittenSoFar
<1>2. DOMAIN event = 1 .. 10 /\ event \in Seq({event[i] : i \in 1 .. 10})
  BY EventLines
<1>3. \A i \in 1 .. 10 : ContentLine(event[i])
  BY EventLinesFit
<1>4. PICK S0 : lines \in Seq(S0)
  BY DEF WrittenSoFar
<1> DEFINE S == S0 \cup {event[i] : i \in 1 .. 10}
<1>5. /\ Len(events) = k - 1 /\ DOMAIN events = 1 .. k - 1
      /\ \A i \in 1 .. k - 1 : events[i] = ReadBack(e[i])
      /\ Append(events, ReadBack(r)) = ReadBacks(e, k)
  BY NextReadBack
<1>6. \A i \in DOMAIN events : events[i].uid # r.uid
  <2>1. \A i : ReadBack(e[i]).uid = e[i].uid
    BY DEF ReadBack
  <2> QED BY <1>5, <2>1
<1>7. k - 1 \in Nat /\ k - 1 < MaxEvents
  BY TextLimitsAssumption
<1> HIDE DEF r, event, events
<1>8. Reading!Folded(Between(events), event) = Between(Append(events, ReadBack(r)))
  <2>1. IsReservation(r) /\ Exportable(r)
    BY DEF r
  <2>2. Len(events) \in Nat /\ Len(events) < MaxEvents
    BY <1>5, <1>7
  <2> QED BY <1>6, <2>1, <2>2, ExportedEventIsRead DEF event
<1>9. lines \in Seq(S) /\ event \in Seq(S)
  BY <1>2, <1>4
<1> HIDE DEF S, base
<1> DEFINE all == lines \o event
<1>10. /\ Tail(lines) \in Seq(S) /\ all # <<>> /\ all[1] = lines[1]
       /\ Tail(all) = Tail(lines) \o event
  BY <1>1, <1>9, TailGoesOn
<1>11. Reading!Folded(base, Tail(lines) \o event)
         = Reading!Folded(Reading!Folded(base, Tail(lines)), event)
  BY <1>9, <1>10, Reading!FoldOfConcat
<1>12. Reading!Folded(base, Tail(all)) = Between(ReadBacks(e, k))
  <2> DEFINE before == Reading!Folded(base, Tail(lines))
  <2>1. Reading!Folded(base, Tail(all)) = Reading!Folded(before, event)
    BY <1>10, <1>11
  <2>2. before = Between(events)
    BY <1>1
  <2> HIDE DEF all, before
  <2>3. Reading!Folded(before, event) = Between(Append(events, ReadBack(r)))
    BY <1>8, <2>2
  <2>4. Append(events, ReadBack(r)) = ReadBacks(e, k)
    BY <1>5
  <2> QED BY <2>1, <2>3, <2>4
<1>13. /\ all \in Seq(S) /\ Len(all) = Len(lines) + Len(event)
       /\ \A i \in 1 .. Len(lines) : all[i] = lines[i]
       /\ \A i \in 1 .. Len(event) : all[Len(lines) + i] = event[i]
  BY <1>9, ConcatProperties
<1> HIDE DEF all
<1>14. /\ Len(lines) \in Nat /\ Len(event) = 10 /\ DOMAIN lines = 1 .. Len(lines)
       /\ DOMAIN all = 1 .. Len(lines) + 10
  <2>1. Len(lines) \in Nat /\ Len(event) \in Nat /\ DOMAIN lines = 1 .. Len(lines)
        /\ DOMAIN event = 1 .. Len(event)
    BY <1>9
  <2>2. Len(event) = 10
    BY <1>2, <2>1
  <2>3. DOMAIN all = 1 .. Len(all)
    BY <1>13
  <2> QED BY <1>13, <2>1, <2>2, <2>3
<1>15. ASSUME NEW i \in DOMAIN all
       PROVE  ContentLine(all[i])
  <2>1. CASE i <= Len(lines)
    <3>1. i \in 1 .. Len(lines)
      BY <1>14, <2>1
    <3> QED BY <1>1, <1>13, <1>14, <3>1
  <2>2. CASE i > Len(lines)
    <3> DEFINE j == i - Len(lines)
    <3>1. Len(lines) \in Nat /\ i \in 1 .. Len(lines) + 10
      BY <1>14
    <3>2. \A n \in Nat : \A m \in 1 .. n + 10 : m > n => m - n \in 1 .. 10 /\ m = n + (m - n)
      OBVIOUS
    <3>3. j \in 1 .. 10 /\ i = Len(lines) + j
      BY <2>2, <3>1, <3>2, Zenon
    <3> HIDE DEF j
    <3>4. all[i] = event[j]
      BY <1>13, <1>14, <3>3
    <3> QED BY <1>3, <3>4, <3>3
  <2> QED BY <1>14, <2>1, <2>2
<1>16. \E T : all \in Seq(T)
  BY <1>13
<1>17. WrittenSoFar(all, e, k)
  BY <1>1, <1>10, <1>12, <1>15, <1>16 DEF WrittenSoFar, base
<1> QED BY <1>17 DEF WriteEvent, all, event, r

Exporting == INSTANCE Folding WITH Op <- WriteEvent

\* Every reservation is written, and read.
LEMMA AllAreWritten ==
  ASSUME NEW R, NEW e \in Seq(R), \A i \in DOMAIN e : IsReservation(e[i]), ExportableAll(e),
         Len(e) <= MaxEvents
  PROVE  WrittenSoFar(FoldLeft(WriteEvent, ExportHead, e), e, Len(e))
<1> DEFINE n == Len(e)
<1>1. n \in Nat /\ DOMAIN e = 1 .. n
  OBVIOUS
<1>2. FoldLeft(WriteEvent, ExportHead, e) = Exporting!Folded(ExportHead, e)
  BY DEF FoldLeft, MapThenFoldSet, Max, Exporting!Folded,
         Exporting!MapThenFoldSet, Exporting!Largest
<1> HIDE DEF n
<1>3. PICK r : Exporting!Partial(r, n, ExportHead, e) /\ Exporting!Folded(ExportHead, e) = r[n]
  BY <1>1, Exporting!FoldSteps
<1>4. r[0] = ExportHead /\ \A k \in 1 .. n : r[k] = WriteEvent(r[k - 1], e[k])
  BY <1>3 DEF Exporting!Partial
<1> DEFINE T == {k \in 0 .. n : WrittenSoFar(r[k], e, k)}
<1>5. 0 \in T
  BY <1>1, <1>4, WrittenHead
<1>6. ASSUME NEW k \in 1 .. n, k - 1 \in T
      PROVE  k \in T
  <2>1. k \in Nat \ {0} /\ k <= MaxEvents /\ k \in DOMAIN e /\ k \in 0 .. n
    <3>1. n <= MaxEvents /\ MaxEvents \in Nat
      BY TextLimitsAssumption DEF n
    <3> QED BY <1>1, <3>1
  <2>2. IsReservation(e[k]) /\ Exportable(e[k])
    BY <2>1 DEF ExportableAll
  <2>3. \A i \in 1 .. k - 1 : e[i].uid # e[k].uid
    <3>1. \A i \in 1 .. k - 1 : i \in 1 .. n /\ i # k
      BY <1>1
    <3> QED BY <1>1, <2>1, <3>1 DEF ExportableAll
  <2>4. WrittenSoFar(WriteEvent(r[k - 1], e[k]), e, k)
    BY <1>6, <2>1, <2>2, <2>3, WriteNext
  <2> QED BY <1>4, <2>1, <2>4
<1> HIDE DEF T
<1>7. \A k \in 0 .. n : k \in T
  BY <1>1, <1>5, <1>6, Exporting!InductionUpTo
<1>8. n \in T
  BY <1>1, <1>7
<1> QED BY <1>2, <1>3, <1>8 DEF T, n

\* What exportICalCalendar writes, parseICalCalendar reads.
LEMMA ExportsParse ==
  ASSUME NEW R, NEW e \in Seq(R), \A i \in DOMAIN e : IsReservation(e[i]), ExportableAll(e),
         Len(e) <= MaxEvents
  PROVE  /\ ParseCalendar(ExportCalendar(e)).error = "none"
         /\ ParseCalendar(ExportCalendar(e)).events = ReadBacks(e, Len(e))
<1> DEFINE open  == FoldLeft(WriteEvent, ExportHead, e)
           last  == Marker("END", "VCALENDAR")
           lines == ExportedLines(e)
           doc   == ExportCalendar(e)
           base  == Between(<<>>)
           found == ReadBacks(e, Len(e))
<1>1. WrittenSoFar(open, e, Len(e))
  BY AllAreWritten
<1>2. ContentLine(last)
  BY WordsFit DEF Marker
<1>3. lines = Append(open, last)
  BY DEF ExportedLines
<1> HIDE DEF open, found
<1>4. PICK S0 : open \in Seq(S0)
  BY <1>1 DEF WrittenSoFar
<1> DEFINE S == S0 \cup {last}
<1>5. /\ open # <<>> /\ open[1] = Marker("BEGIN", "VCALENDAR")
      /\ \A i \in DOMAIN open : ContentLine(open[i])
      /\ Reading!Folded(base, Tail(open)) = Between(found)
  BY <1>1 DEF WrittenSoFar, found
<1>6. open \in Seq(S) /\ last \in S /\ <<last>> \in Seq(S)
  BY <1>4
<1> HIDE DEF S, last, base
<1>7. lines = open \o <<last>>
  BY <1>3, <1>6, AppendIsConcat
<1>8. /\ Tail(open) \in Seq(S) /\ lines # <<>> /\ lines[1] = open[1]
      /\ Tail(lines) = Tail(open) \o <<last>>
  BY <1>5, <1>6, <1>7, TailGoesOn
<1>9. Reading!Folded(base, Tail(lines)) = ReadLine(Between(found), last)
  <2>1. Tail(lines) = Append(Tail(open), last)
    BY <1>6, <1>8, AppendIsConcat
  <2>2. Reading!Folded(base, Append(Tail(open), last))
          = ReadLine(Reading!Folded(base, Tail(open)), last)
    BY <1>8, Reading!FoldOfAppend
  <2> QED BY <1>5, <2>1, <2>2
<1> DEFINE st == ReadLine(Between(found), last)
<1>10. st.error = "none" /\ st.ended /\ st.events = found
  <2> DEFINE was == Between(found)
  <2>1. /\ was.component = "VCALENDAR" /\ was.error = "none" /\ was.events = found
        /\ DOMAIN was = {"component", "ended", "event", "events", "error"}
    BY DEF Between, Reader
  <2> HIDE DEF was
  <2>2. /\ IsMarker(last, "END", "VCALENDAR") /\ ~IsMarker(last, "END", "VEVENT")
        /\ ~IsMarker(last, "BEGIN", "VEVENT")
    BY DEF IsMarker, last, Marker, Line
  <2>3. ReadLine(was, last) = [was EXCEPT !.ended = TRUE, !.component = "none"]
    BY <2>1, <2>2 DEF ReadLine, EndCalendar
  <2> QED BY <2>1, <2>3 DEF was
<1>11. /\ lines \in Seq(S) /\ Len(lines) = Len(open) + 1
       /\ \A i \in 1 .. Len(open) : lines[i] = open[i]
       /\ lines[Len(open) + 1] = last
  BY <1>3, <1>6, AppendProperties
<1> HIDE DEF lines, doc
<1>12. \A i \in DOMAIN lines : ContentLine(lines[i])
  <2>1. \A i \in DOMAIN lines : i \in 1 .. Len(open) \/ i = Len(open) + 1
    BY <1>6, <1>11
  <2>2. DOMAIN open = 1 .. Len(open)
    BY <1>6
  <2> QED BY <1>2, <1>5, <1>11, <2>1, <2>2
<1>13. Unfold(doc) = Unfolded(lines)
  BY <1>11, <1>12, LinesComeBack DEF doc, ExportCalendar, lines
<1>14. FoldLeft(ReadLine, [Outside EXCEPT !.component = "VCALENDAR"], Tail(lines)) = st
  <2>1. Outside = Reader("none", Open, NoEvent, <<>>)
    BY DEF Outside, Reader, Open
  <2>2. [Outside EXCEPT !.component = "VCALENDAR"] = base
    BY <2>1, ComponentChanges DEF base, Between
  <2>3. FoldLeft(ReadLine, base, Tail(lines)) = Reading!Folded(base, Tail(lines))
    BY DEF FoldLeft, MapThenFoldSet, Max, Reading!Folded,
           Reading!MapThenFoldSet, Reading!Largest
  <2> QED BY <1>9, <2>2, <2>3
<1> HIDE DEF st
<1>15. Unfold(doc).error = "none" /\ Unfold(doc).lines = lines
  BY <1>13 DEF Unfolded
<1>16. IsMarker(lines[1], "BEGIN", "VCALENDAR")
  BY <1>5, <1>8 DEF IsMarker, Marker, Line
<1>17. ParseCalendar(doc) = [error |-> "none", events |-> st.events]
  BY <1>8, <1>10, <1>14, <1>15, <1>16 DEF ParseCalendar
<1> QED BY <1>10, <1>17 DEF doc, found

-----------------------------------------------------------------------------
(* Fetches: one stays in its bounds, what is parsed is what was sent, and   *)
(* what was exported comes back.                                           *)
(*                                                                         *)
(* The bound on the time adds up: a hop begins within two timer spans for  *)
(* each hop before it, its lookups get one span more, its request another. *)

FetchPhases == {"validate", "done"} \cup Timed

\* Bodies are read from the front.
IsPrefixOf(s, t) == Len(s) <= Len(t) /\ \A i \in 1 .. Len(s) : s[i] = t[i]

Span == 2 * TimeoutMs

FetchOK ==
  /\ DOMAIN fetch = {"phase", "url", "hop", "first", "second", "taken"}
  /\ fetch.phase \in FetchPhases
  /\ fetch.hop \in Nat /\ fetch.hop <= MaxRedirects
  /\ \E S : fetch.taken \in Seq(S)
  /\ Len(fetch.taken) <= MaxBody

\* The lookups of hop n are over one span after its beginning, the rest two.
ClockOK ==
  /\ now \in Nat /\ deadline \in Nat
  /\ fetch.phase = "validate" => now <= Span * fetch.hop
  /\ fetch.phase \in Timed => now <= deadline
  /\ fetch.phase \in {"lookup1", "lookup2"} => deadline <= Span * fetch.hop + TimeoutMs
  /\ fetch.phase \in {"connect", "read", "drain"} => deadline <= Span * fetch.hop + Span
  /\ fetch.phase = "done" => now <= Span * fetch.hop + Span

\* A request is sent to what both lookups gave.
AddressesOK ==
  /\ fetch.phase \in {"lookup2", "connect", "read", "drain"} =>
       \A a \in fetch.first : IsGlobalRoutable(a)
  /\ fetch.phase \in {"connect", "read", "drain"} => fetch.first = fetch.second

\* What was taken is the beginning of what the server sends; nothing was before
\* it answered.
BodyOK ==
  /\ fetch.phase \in {"validate", "lookup1", "lookup2", "connect"} => fetch.taken = <<>>
  /\ fetch.phase \in {"read", "drain"} =>
       answer \in Responses /\ IsPrefixOf(fetch.taken, answer.body)
  /\ fetch.phase # "done" => result = Pending

\* A calendar was parsed from the whole of the body.
ParsedAsSent ==
  result.code = "none" =>
    /\ answer \in Responses /\ result.body = answer.body
    /\ ParseCalendar(answer.body).error = "none"
    /\ result.events = ParseCalendar(answer.body).events

FeedInv == FetchOK /\ ClockOK /\ AddressesOK /\ BodyOK /\ ParsedAsSent

\* A line after the beginning of a body is a longer beginning of it.
LEMMA AppendLine ==
  ASSUME NEW S, NEW s \in Seq(S), NEW t, Len(t) \in Nat, IsPrefixOf(s, t), Len(s) < Len(t)
  PROVE  LET u == Append(s, t[Len(s) + 1])
         IN  /\ u \in Seq(S \cup {t[Len(s) + 1]}) /\ Len(u) = Len(s) + 1
             /\ IsPrefixOf(u, t)
<1> DEFINE e == t[Len(s) + 1]
<1> DEFINE u == Append(s, e)
<1>1. s \in Seq(S \cup {e}) /\ Len(s) \in Nat
  OBVIOUS
<1>2. /\ u \in Seq(S \cup {e}) /\ Len(u) = Len(s) + 1
      /\ \A i \in 1 .. Len(s) : u[i] = s[i]
      /\ u[Len(s) + 1] = e
  BY <1>1, AppendProperties
<1> HIDE DEF u
<1>3. ASSUME NEW i \in 1 .. Len(u)
      PROVE  u[i] = t[i]
  <2>1. i \in 1 .. Len(s) \/ i = Len(s) + 1
    BY <1>1, <1>2
  <2> QED BY <2>1, <1>2 DEF IsPrefixOf
<1>4. Len(u) <= Len(t)
  BY <1>1, <1>2
<1> QED BY <1>2, <1>3, <1>4 DEF IsPrefixOf, u

\* A beginning that is as long as the body is the body.
LEMMA WholeBody ==
  ASSUME NEW S, NEW s \in Seq(S), NEW T, NEW t \in Seq(T), IsPrefixOf(s, t), Len(s) = Len(t)
  PROVE  s = t
BY SeqEqual DEF IsPrefixOf

LEMMA SpanIsNat == Span \in Nat /\ TimeoutMs \in Nat /\ Span = TimeoutMs + TimeoutMs
BY FetchLimitsAssumption DEF Span

\* A hop begins where the one before it ends.
LEMMA NextHop ==
  ASSUME NEW n \in Nat
  PROVE  Span * (n + 1) = Span * n + Span /\ Span * n \in Nat
BY SpanIsNat

LEMMA MoreHops ==
  ASSUME NEW n \in Nat, NEW m \in Nat, n <= m
  PROVE  Span * n <= Span * m
<1>1. PICK d \in Nat : m = n + d
  <2>1. m - n \in Nat /\ m = n + (m - n)
    OBVIOUS
  <2> QED BY <2>1
<1>2. Span * m = Span * n + Span * d /\ Span * n \in Nat /\ Span * d \in Nat
  BY <1>1, SpanIsNat
<1> QED BY <1>2

\* The responses' bodies are documents, which are sequences.
LEMMA ResponseBody ==
  ASSUME NEW r \in Responses
  PROVE  /\ r.body \in Seq(ToSet(r.body)) /\ Len(r.body) \in Nat
         /\ \A i \in DOMAIN r.body : PhysicalLine(r.body[i])
         /\ r # NoAnswer
         /\ r.kind = "redirect" => r.location \in Urls \cup {NoUrl}
<1>1. r.body \in Documents /\ r.kind \in {"redirect", "unsuccessful", "success"}
      /\ (r.kind = "redirect" => r.location \in Urls \cup {NoUrl})
  BY DEF Responses
<1>2. r.body \in Seq(ToSet(r.body)) /\ \A i \in DOMAIN r.body : PhysicalLine(r.body[i])
  BY <1>1, DocumentsAssumption
<1> QED BY <1>1, <1>2 DEF NoAnswer

LEMMA FeedInit == FetchInit => FeedInv
<1> SUFFICES ASSUME FetchInit PROVE FeedInv
  OBVIOUS
<1>1. PICK u \in Urls :
        fetch = [phase |-> "validate", url |-> u, hop |-> 0, first |-> {}, second |-> {},
                 taken |-> <<>>]
  BY DEF FetchInit
<1>2. FetchOK
  <2>1. fetch.taken \in Seq({}) /\ Len(fetch.taken) = 0
    BY <1>1
  <2> QED BY <1>1, <2>1, FetchLimitsAssumption DEF FetchOK, FetchPhases
<1>3. Span * 0 = 0
  BY SpanIsNat
<1>4. ClockOK
  BY <1>1, <1>3 DEF FetchInit, ClockOK, Timed
<1>5. AddressesOK /\ BodyOK /\ ParsedAsSent
  BY <1>1 DEF FetchInit, AddressesOK, BodyOK, ParsedAsSent, Pending
<1> QED BY <1>2, <1>4, <1>5 DEF FeedInv

\* Whatever a fetch is doing, it is not later than two spans after its hop began.
LEMMA NotLate ==
  ASSUME FeedInv
  PROVE  now <= Span * fetch.hop + Span
<1>1. /\ fetch.hop \in Nat /\ fetch.phase \in FetchPhases
      /\ now \in Nat /\ deadline \in Nat
  BY DEF FeedInv, FetchOK, ClockOK
<1>2. Span * fetch.hop \in Nat /\ Span \in Nat /\ Span = TimeoutMs + TimeoutMs /\ TimeoutMs \in Nat
  BY <1>1, SpanIsNat, NextHop
<1>3. CASE fetch.phase = "validate"
  BY <1>1, <1>2, <1>3 DEF FeedInv, ClockOK
<1>4. CASE fetch.phase \in {"lookup1", "lookup2"}
  BY <1>1, <1>2, <1>4 DEF FeedInv, ClockOK, Timed
<1>5. CASE fetch.phase \in {"connect", "read", "drain"}
  BY <1>1, <1>2, <1>5 DEF FeedInv, ClockOK, Timed
<1>6. CASE fetch.phase = "done"
  BY <1>6 DEF FeedInv, ClockOK
<1> QED BY <1>1, <1>3, <1>4, <1>5, <1>6 DEF FetchPhases, Timed

\* A fetch that ends in an error keeps everything but its phase.
LEMMA ThrowKeeps ==
  ASSUME FeedInv, NEW code, code # "none", FailsWith(code)
  PROVE  FeedInv'
<1>1. /\ fetch' = [fetch EXCEPT !.phase = "done"]
      /\ result' = Failed(code) /\ now' = now /\ deadline' = deadline /\ answer' = answer
  BY DEF FailsWith, GoTo
<1>2. /\ fetch'.phase = "done" /\ fetch'.hop = fetch.hop /\ fetch'.taken = fetch.taken
      /\ DOMAIN fetch' = DOMAIN fetch
  BY <1>1 DEF FeedInv, FetchOK
<1>3. FetchOK'
  BY <1>2 DEF FeedInv, FetchOK, FetchPhases
<1>4. now <= Span * fetch.hop + Span
  BY NotLate
<1>5. ClockOK'
  BY <1>1, <1>2, <1>4 DEF FeedInv, ClockOK, Timed, Span
<1>6. AddressesOK' /\ BodyOK'
  BY <1>2 DEF AddressesOK, BodyOK
<1>7. ParsedAsSent'
  BY <1>1 DEF ParsedAsSent, Failed, Pending
<1> QED BY <1>3, <1>5, <1>6, <1>7 DEF FeedInv

LEMMA FeedStep ==
  ASSUME FeedInv, [FetchNext]_fetchVars
  PROVE  FeedInv'
<1> USE DEF FeedInv
<1>0. /\ fetch.hop \in Nat /\ Span * fetch.hop \in Nat
      /\ Span \in Nat /\ TimeoutMs \in Nat /\ Span = TimeoutMs + TimeoutMs
      /\ now \in Nat /\ deadline \in Nat
  BY SpanIsNat, NextHop DEF FetchOK, ClockOK
<1>1. CASE Tick
  <2>1. /\ fetch' = fetch /\ answer' = answer /\ result' = result /\ deadline' = deadline
        /\ now' = now + 1 /\ fetch.phase \in Timed /\ now < deadline
    BY <1>1 DEF Tick
  <2>2. ClockOK'
    BY <2>1, <1>0 DEF ClockOK, Timed, Span
  <2> QED BY <2>1, <2>2 DEF FetchOK, AddressesOK, BodyOK, ParsedAsSent
<1>2. CASE Timeout
  BY <1>2, ThrowKeeps DEF Timeout
<1>3. CASE Validate
  <2> DEFINE code == UrlError(fetch.url)
  <2>1. CASE code # "none"
    <3>1. (IF fetch.hop = 0 THEN code ELSE RedirectError(code)) # "none"
      BY <2>1 DEF RedirectError
    <3> QED BY <1>3, <2>1, <3>1, ThrowKeeps DEF Validate
  <2>2. CASE code = "none"
    <3>1. /\ fetch.phase = "validate" /\ deadline' = now + TimeoutMs
          /\ now' = now /\ answer' = answer /\ result' = result
      BY <1>3, <2>2 DEF Validate, In, SetTimer
    <3>2. deadline' \in Nat /\ now' <= deadline'
          /\ deadline' <= Span * fetch.hop + TimeoutMs
          /\ deadline' <= Span * fetch.hop + Span
      BY <3>1, <1>0 DEF ClockOK
    <3>3. fetch.taken = <<>> /\ result = Pending
      BY <3>1 DEF BodyOK
    <3>4. CASE Literal[fetch.url] = NoAddress
      <4>1. fetch' = [fetch EXCEPT !.phase = "lookup1"]
        BY <1>3, <2>2, <3>4 DEF Validate, GoTo
      <4>2. /\ fetch'.phase = "lookup1" /\ fetch'.hop = fetch.hop
            /\ fetch'.taken = fetch.taken /\ DOMAIN fetch' = DOMAIN fetch
        BY <4>1 DEF FetchOK
      <4>3. FetchOK'
        BY <4>2 DEF FetchOK, FetchPhases, Timed
      <4>4. ClockOK'
        BY <4>2, <3>1, <3>2, <1>0 DEF ClockOK, Timed, Span
      <4> QED BY <4>2, <4>3, <4>4, <3>1, <3>3 DEF AddressesOK, BodyOK, ParsedAsSent
    <3>5. CASE Literal[fetch.url] # NoAddress
      <4>1. fetch' = [fetch EXCEPT !.phase = "connect", !.first = {Literal[fetch.url]},
                                  !.second = {Literal[fetch.url]}]
        BY <1>3, <2>2, <3>5 DEF Validate
      <4>2. /\ fetch'.phase = "connect" /\ fetch'.hop = fetch.hop
            /\ fetch'.taken = fetch.taken /\ DOMAIN fetch' = DOMAIN fetch
            /\ fetch'.first = {Literal[fetch.url]} /\ fetch'.second = fetch'.first
        BY <4>1 DEF FetchOK
      <4>3. IsGlobalRoutable(Literal[fetch.url])
        BY <2>2, <3>5 DEF UrlError
      <4>4. FetchOK'
        BY <4>2 DEF FetchOK, FetchPhases, Timed
      <4>5. ClockOK'
        BY <4>2, <3>1, <3>2, <1>0 DEF ClockOK, Timed, Span
      <4>6. AddressesOK'
        BY <4>2, <4>3 DEF AddressesOK
      <4> QED BY <4>2, <4>4, <4>5, <4>6, <3>1, <3>3 DEF BodyOK, ParsedAsSent
    <3> QED BY <3>4, <3>5
  <2> QED BY <2>1, <2>2
<1>4. CASE Lookup1
  <2>1. PICK A \in SUBSET Addresses :
          IF A = {} THEN FailsWith("dns_error")
          ELSE IF \E a \in A : ~IsGlobalRoutable(a) THEN FailsWith("blocked_address")
          ELSE /\ fetch' = [fetch EXCEPT !.phase = "lookup2", !.first = A]
               /\ UNCHANGED <<now, deadline, answer, result>>
    BY <1>4 DEF Lookup1
  <2>2. CASE FailsWith("dns_error") \/ FailsWith("blocked_address")
    BY <2>2, ThrowKeeps
  <2>3. CASE /\ \A a \in A : IsGlobalRoutable(a)
             /\ fetch' = [fetch EXCEPT !.phase = "lookup2", !.first = A]
             /\ UNCHANGED <<now, deadline, answer, result>>
    <3>1. /\ fetch'.phase = "lookup2" /\ fetch'.hop = fetch.hop /\ fetch'.first = A
          /\ fetch'.taken = fetch.taken /\ DOMAIN fetch' = DOMAIN fetch
      BY <2>3 DEF FetchOK
    <3>2. fetch.phase = "lookup1"
      BY <1>4 DEF Lookup1, In
    <3>3. FetchOK'
      BY <3>1 DEF FetchOK, FetchPhases, Timed
    <3>4. ClockOK'
      BY <3>1, <3>2, <2>3, <1>0 DEF ClockOK, Timed, Span
    <3> QED BY <3>1, <3>2, <3>3, <3>4, <2>3 DEF AddressesOK, BodyOK, ParsedAsSent
  <2> QED BY <2>1, <2>2, <2>3
<1>5. CASE Lookup2
  <2>1. PICK A \in SUBSET Addresses :
          IF A = {} THEN FailsWith("dns_error")
          ELSE IF A # fetch.first THEN FailsWith("dns_rebinding")
          ELSE /\ fetch' = [fetch EXCEPT !.phase = "connect", !.second = A]
               /\ SetTimer
               /\ UNCHANGED <<now, answer, result>>
    BY <1>5 DEF Lookup2
  <2>2. CASE FailsWith("dns_error") \/ FailsWith("dns_rebinding")
    BY <2>2, ThrowKeeps
  <2>3. CASE /\ A = fetch.first
             /\ fetch' = [fetch EXCEPT !.phase = "connect", !.second = A]
             /\ SetTimer
             /\ UNCHANGED <<now, answer, result>>
    <3>1. /\ fetch'.phase = "connect" /\ fetch'.hop = fetch.hop
          /\ fetch'.first = fetch.first /\ fetch'.second = fetch.first
          /\ fetch'.taken = fetch.taken /\ DOMAIN fetch' = DOMAIN fetch
      BY <2>3 DEF FetchOK
    <3>2. fetch.phase = "lookup2" /\ deadline' = now + TimeoutMs
      BY <1>5, <2>3 DEF Lookup2, In, SetTimer
    <3>3. now <= deadline /\ deadline <= Span * fetch.hop + TimeoutMs
      BY <3>2 DEF ClockOK, Timed
    <3>4. /\ deadline' \in Nat /\ now <= deadline'
          /\ deadline' <= Span * fetch.hop + Span
      BY <3>2, <3>3, <1>0
    <3>5. FetchOK'
      BY <3>1 DEF FetchOK, FetchPhases, Timed
    <3>6. ClockOK'
      BY <3>1, <3>4, <2>3, <1>0 DEF ClockOK, Timed, Span
    <3> QED BY <3>1, <3>2, <3>5, <3>6, <2>3 DEF AddressesOK, BodyOK, ParsedAsSent
  <2> QED BY <2>1, <2>2, <2>3
<1>6. CASE Respond
  <2>1. PICK r \in Responses :
          /\ answer' = r
          /\ GoTo(IF r.kind = "success" /\ r.length # BadLength /\ r.length <= MaxBody
                THEN "read" ELSE "drain")
          /\ UNCHANGED <<now, deadline, result>>
    BY <1>6 DEF Respond
  <2>2. /\ fetch'.phase \in {"read", "drain"} /\ fetch'.hop = fetch.hop
        /\ fetch'.first = fetch.first /\ fetch'.second = fetch.second
        /\ fetch'.taken = fetch.taken /\ DOMAIN fetch' = DOMAIN fetch
    BY <2>1 DEF FetchOK, GoTo
  <2>3. fetch.phase = "connect" /\ fetch.taken = <<>> /\ result = Pending
    BY <1>6 DEF Respond, In, BodyOK
  <2>4. IsPrefixOf(<<>>, r.body)
    BY ResponseBody DEF IsPrefixOf
  <2>5. FetchOK'
    BY <2>2 DEF FetchOK, FetchPhases, Timed
  <2>6. ClockOK'
    BY <2>1, <2>2, <2>3, <1>0 DEF ClockOK, Timed, Span
  <2>7. BodyOK'
    BY <2>1, <2>2, <2>3, <2>4 DEF BodyOK
  <2>8. ParsedAsSent'
    BY <2>1, <2>3 DEF ParsedAsSent, Pending
  <2> QED BY <2>2, <2>3, <2>5, <2>6, <2>7, <2>8 DEF AddressesOK
<1>7. CASE ConnectionFails
  BY <1>7, ThrowKeeps DEF ConnectionFails
<1>8. CASE Chunk
  <2>1. CASE FailsWith("body_limit")
    BY <2>1, ThrowKeeps
  <2>2. CASE /\ ~(Len(fetch.taken) + 1 > MaxBody)
             /\ fetch' = [fetch EXCEPT !.taken = Append(@, answer.body[Len(@) + 1])]
             /\ UNCHANGED <<now, deadline, answer, result>>
    <3>1. PICK S : fetch.taken \in Seq(S)
      BY DEF FetchOK
    <3>2. /\ fetch.phase \in {"read", "drain"} /\ answer \in Responses
          /\ IsPrefixOf(fetch.taken, answer.body) /\ Len(fetch.taken) < Len(answer.body)
      BY <1>8 DEF Chunk, BodyOK
    <3> DEFINE u == Append(fetch.taken, answer.body[Len(fetch.taken) + 1])
    <3>3. /\ u \in Seq(S \cup {answer.body[Len(fetch.taken) + 1]})
          /\ Len(u) = Len(fetch.taken) + 1 /\ IsPrefixOf(u, answer.body)
      BY <3>1, <3>2, AppendLine, ResponseBody
    <3>4. Len(u) <= MaxBody
      BY <3>1, <3>3, <2>2, FetchLimitsAssumption
    <3> HIDE DEF u
    <3>5. fetch' = [fetch EXCEPT !.taken = u]
      BY <2>2 DEF u
    <3>6. /\ fetch'.phase = fetch.phase /\ fetch'.hop = fetch.hop
          /\ fetch'.first = fetch.first /\ fetch'.second = fetch.second
          /\ fetch'.taken = u /\ DOMAIN fetch' = DOMAIN fetch
      BY <3>5 DEF FetchOK
    <3>7. FetchOK'
      <4>1. \E Q : fetch'.taken \in Seq(Q)
        BY <3>3, <3>6
      <4> QED BY <4>1, <3>4, <3>6 DEF FetchOK
    <3>8. ClockOK'
      BY <3>6, <2>2 DEF ClockOK, Span
    <3>9. BodyOK'
      BY <3>2, <3>3, <3>6, <2>2 DEF BodyOK
    <3> QED BY <3>6, <3>7, <3>8, <3>9, <2>2 DEF AddressesOK, ParsedAsSent
  <2> QED BY <1>8, <2>1, <2>2 DEF Chunk
<1>9. CASE Disposed
  <2>1. \/ \E code \in {"http_error", "network_error", "body_limit", "redirect_limit",
                        "redirect_location"} : FailsWith(code)
        \/ /\ answer.kind = "redirect" /\ fetch.hop < MaxRedirects
           /\ answer.location # NoUrl
           /\ fetch' = [phase |-> "validate", url |-> answer.location,
                        hop |-> fetch.hop + 1, first |-> {}, second |-> {}, taken |-> <<>>]
           /\ answer' = NoAnswer
           /\ UNCHANGED <<now, deadline, result>>
    <3>1. answer \in Responses /\ answer.kind \in {"redirect", "unsuccessful", "success"}
      BY <1>9 DEF Disposed, In, BodyOK, Responses
    <3>2. CASE answer.kind = "unsuccessful"
      BY <1>9, <3>2 DEF Disposed
    <3>3. CASE answer.kind = "success"
      BY <1>9, <3>3 DEF Disposed
    <3>4. CASE answer.kind = "redirect"
      BY <1>9, <3>4, <1>0, FetchLimitsAssumption DEF Disposed
    <3> QED BY <3>1, <3>2, <3>3, <3>4
  <2>2. ASSUME NEW code \in {"http_error", "network_error", "body_limit", "redirect_limit",
                             "redirect_location"}, FailsWith(code)
        PROVE  FeedInv'
    BY <2>2, ThrowKeeps
  <2>3. CASE /\ fetch.hop < MaxRedirects
             /\ fetch' = [phase |-> "validate", url |-> answer.location,
                          hop |-> fetch.hop + 1, first |-> {}, second |-> {}, taken |-> <<>>]
             /\ answer' = NoAnswer
             /\ UNCHANGED <<now, deadline, result>>
    <3>1. /\ fetch'.phase = "validate" /\ fetch'.hop = fetch.hop + 1 /\ fetch'.taken = <<>>
          /\ DOMAIN fetch' = {"phase", "url", "hop", "first", "second", "taken"}
      BY <2>3
    <3>2. fetch.phase = "drain" /\ result = Pending
      BY <1>9 DEF Disposed, In, BodyOK
    <3>3. now <= Span * (fetch.hop + 1)
      BY NotLate, NextHop, <1>0
    <3>4. FetchOK'
      <4>1. fetch'.taken \in Seq({}) /\ Len(fetch'.taken) = 0
        BY <3>1
      <4> QED BY <4>1, <3>1, <2>3, <1>0, FetchLimitsAssumption DEF FetchOK, FetchPhases
    <3>5. ClockOK'
      BY <3>1, <3>3, <2>3, <1>0 DEF ClockOK, Timed, Span
    <3> QED BY <3>1, <3>2, <3>4, <3>5, <2>3 DEF AddressesOK, BodyOK, ParsedAsSent, Pending
  <2> QED BY <2>1, <2>2, <2>3
<1>10. CASE ReadAndParse
  <2> DEFINE calendar == ParseCalendar(fetch.taken)
  <2>1. CASE FailsWith("invalid_encoding")
    BY <2>1, ThrowKeeps
  <2>2. CASE calendar.error # "none" /\ FailsWith(calendar.error)
    BY <2>2, ThrowKeeps
  <2>3. CASE /\ calendar.error = "none"
             /\ GoTo("done")
             /\ result' = [code |-> "none", events |-> calendar.events, body |-> fetch.taken]
             /\ UNCHANGED <<now, deadline, answer>>
    <3>1. /\ fetch'.phase = "done" /\ fetch'.hop = fetch.hop
          /\ fetch'.taken = fetch.taken /\ DOMAIN fetch' = DOMAIN fetch
      BY <2>3 DEF FetchOK, GoTo
    <3>2. answer \in Responses /\ fetch.taken = answer.body
      <4>1. /\ answer \in Responses /\ IsPrefixOf(fetch.taken, answer.body)
            /\ Len(fetch.taken) = Len(answer.body)
        BY <1>10 DEF ReadAndParse, In, BodyOK
      <4>2. PICK S : fetch.taken \in Seq(S)
        BY DEF FetchOK
      <4> QED BY <4>1, <4>2, ResponseBody, WholeBody
    <3>3. FetchOK'
      BY <3>1 DEF FetchOK, FetchPhases
    <3>4. ClockOK'
      BY <3>1, <2>3, NotLate DEF ClockOK, Timed, Span
    <3>5. ParsedAsSent'
      BY <3>2, <2>3 DEF ParsedAsSent
    <3> QED BY <3>1, <3>3, <3>4, <3>5 DEF AddressesOK, BodyOK
  <2> QED BY <1>10, <2>1, <2>2, <2>3 DEF ReadAndParse
<1>11. CASE UNCHANGED fetchVars
  BY <1>11 DEF fetchVars, FetchOK, ClockOK, AddressesOK, BodyOK, ParsedAsSent, Span
<1> QED BY <1>1, <1>2, <1>3, <1>4, <1>5, <1>6, <1>7, <1>8, <1>9, <1>10, <1>11
        DEF FetchNext, Done

LEMMA FeedHolds == FetchSpec => []FeedInv
BY FeedInit, FeedStep, PTL DEF FetchSpec

\* A fetch asks a server only at addresses that both lookups gave and that are
\* routable, follows no more redirects and keeps no more of a body than it may,
\* and takes at most two timer spans for each hop, whatever resolver and server
\* do (createICalFetcher's loop, withTimeout, readBody).
THEOREM FetchesAreBounded == FetchSpec => []FetchStaysInBounds
<1>1. ASSUME FeedInv
      PROVE  FetchStaysInBounds
  <2>1. fetch.hop \in Nat /\ MaxRedirects \in Nat /\ fetch.hop <= MaxRedirects
    BY <1>1, FetchLimitsAssumption DEF FeedInv, FetchOK
  <2>2. now <= Span * fetch.hop + Span
    BY <1>1, NotLate
  <2>3. /\ Span * fetch.hop <= Span * MaxRedirects
        /\ Span * (MaxRedirects + 1) = Span * MaxRedirects + Span
        /\ Span * fetch.hop \in Nat /\ Span * MaxRedirects \in Nat /\ Span \in Nat
    BY <2>1, MoreHops, NextHop, SpanIsNat
  <2>4. now \in Nat
    BY <1>1 DEF FeedInv, ClockOK
  <2>5. now <= Span * (MaxRedirects + 1)
    BY <2>2, <2>3, <2>4
  <2> QED BY <1>1, <2>1, <2>5 DEF FeedInv, FetchOK, AddressesOK, FetchStaysInBounds, Span
<1> QED BY <1>1, FeedHolds, PTL

\* A calendar that a fetch ends with is the whole body the server sent: one event
\* for each end of one in it, no uid twice, and every stay counted as the
\* calendar counts, whatever the documents are (readBody, parseICalCalendar,
\* parseEvent, dayNumber).
THEOREM CalendarsHoldAllEvents == FetchSpec => []CalendarsAreWhole
<1>1. ASSUME FeedInv
      PROVE  CalendarsAreWhole
  <2> SUFFICES ASSUME result.code = "none"
               PROVE  /\ result.body = answer.body
                      /\ Len(result.events)
                           = Cardinality({i \in DOMAIN answer.body :
                                            IsMarker(answer.body[i], "END", "VEVENT")})
                      /\ \A i, j \in DOMAIN result.events :
                           result.events[i].uid = result.events[j].uid => i = j
                      /\ \A i \in DOMAIN result.events : Stays(result.events[i])
    BY DEF CalendarsAreWhole, Stays
  <2>1. /\ answer \in Responses /\ result.body = answer.body
        /\ ParseCalendar(answer.body).error = "none"
        /\ result.events = ParseCalendar(answer.body).events
    BY <1>1 DEF FeedInv, ParsedAsSent
  <2>2. /\ answer.body \in Seq(ToSet(answer.body))
        /\ \A i \in DOMAIN answer.body : PhysicalLine(answer.body[i])
    BY <2>1, ResponseBody
  <2> DEFINE doc    == answer.body
             parsed == ParseCalendar(doc)
  <2>3. /\ Len(parsed.events) = Cardinality({i \in DOMAIN doc : IsMarker(doc[i], "END", "VEVENT")})
        /\ \A i, j \in DOMAIN parsed.events :
             parsed.events[i].uid = parsed.events[j].uid => i = j
        /\ \A i \in DOMAIN parsed.events : Stays(parsed.events[i])
    <3>1. doc \in Seq(ToSet(doc)) /\ \A i \in DOMAIN doc : PhysicalLine(doc[i])
      BY <2>2
    <3>2. parsed.error = "none"
      BY <2>1
    <3> HIDE DEF doc
    <3> QED BY <3>1, <3>2, ParsedIsWhole
  <2> HIDE DEF parsed
  <2>4. result.events = parsed.events
    BY <2>1 DEF parsed
  <2> QED BY <2>1, <2>3, <2>4
<1> QED BY <1>1, FeedHolds, PTL

\* Nothing is answered before a request is sent, and a result is that of the
\* parser only of what was answered.
ResultIsOfAnswer ==
  /\ fetch.phase \in {"validate", "lookup1", "lookup2", "connect"} => answer = NoAnswer
  /\ answer # NoAnswer /\ result.code \in ParseCodes \cup {"none"} =>
       /\ result.code = ParseCalendar(answer.body).error
       /\ result.code = "none" => result.events = ParseCalendar(answer.body).events

\* What else may fail while an answer is there is no fault of a calendar.
LEMMA OtherFailure ==
  ASSUME FeedInv, ResultIsOfAnswer, NEW code, FailsWith(code),
         code \notin ParseCodes \cup {"none"} \/ answer = NoAnswer
  PROVE  ResultIsOfAnswer'
<1>1. /\ fetch' = [fetch EXCEPT !.phase = "done"] /\ answer' = answer
      /\ result' = Failed(code)
  BY DEF FailsWith, GoTo
<1>2. fetch'.phase = "done"
  BY <1>1 DEF FeedInv, FetchOK
<1>3. result'.code = code
  BY <1>1 DEF Failed, Pending
<1> QED BY <1>1, <1>2, <1>3 DEF ResultIsOfAnswer

LEMMA ResultStep ==
  ASSUME FeedInv, ResultIsOfAnswer, [FetchNext]_fetchVars
  PROVE  ResultIsOfAnswer'
<1>0. DOMAIN fetch = {"phase", "url", "hop", "first", "second", "taken"}
  BY DEF FeedInv, FetchOK
<1>1. CASE Tick
  BY <1>1 DEF Tick, ResultIsOfAnswer
<1>2. CASE Timeout
  <2>1. FailsWith("timeout")
    BY <1>2 DEF Timeout
  <2> QED BY <2>1, OtherFailure DEF ParseCodes
<1>3. CASE Validate
  <2>1. fetch.phase = "validate"
    BY <1>3 DEF Validate, In
  <2>2. answer = NoAnswer
    BY <2>1 DEF ResultIsOfAnswer
  <2>3. CASE \E code : FailsWith(code)
    BY <2>2, <2>3, OtherFailure
  <2>4. CASE answer' = answer
    BY <2>2, <2>4 DEF ResultIsOfAnswer
  <2>5. (\E code : FailsWith(code)) \/ answer' = answer
    BY <1>3 DEF Validate
  <2> QED BY <2>3, <2>4, <2>5
<1>4. CASE Lookup1 \/ Lookup2
  <2>1. fetch.phase \in {"lookup1", "lookup2"}
    BY <1>4 DEF Lookup1, Lookup2, In
  <2>2. answer = NoAnswer
    BY <2>1 DEF ResultIsOfAnswer
  <2>3. answer' = answer
    BY <1>4 DEF Lookup1, Lookup2, FailsWith
  <2> QED BY <2>2, <2>3 DEF ResultIsOfAnswer
<1>5. CASE Respond
  <2>1. fetch.phase = "connect" /\ fetch'.phase \in {"read", "drain"} /\ result' = result
    BY <1>0, <1>5 DEF Respond, In, GoTo
  <2>2. result'.code = "pending"
    BY <2>1 DEF FeedInv, BodyOK, Pending
  <2> QED BY <2>1, <2>2 DEF ResultIsOfAnswer, ParseCodes
<1>6. CASE ConnectionFails
  <2>1. FailsWith("network_error")
    BY <1>6 DEF ConnectionFails
  <2> QED BY <2>1, OtherFailure DEF ParseCodes
<1>7. CASE Chunk
  <2>1. CASE FailsWith("body_limit")
    BY <2>1, OtherFailure DEF ParseCodes
  <2>2. CASE /\ fetch' = [fetch EXCEPT !.taken = Append(@, answer.body[Len(@) + 1])]
             /\ UNCHANGED <<now, deadline, answer, result>>
    BY <1>0, <2>2 DEF ResultIsOfAnswer
  <2> QED BY <1>7, <2>1, <2>2 DEF Chunk
<1>8. CASE Disposed
  <2>1. CASE \E code \in {"http_error", "network_error", "body_limit", "redirect_limit",
                          "redirect_location"} : FailsWith(code)
    BY <2>1, OtherFailure DEF ParseCodes
  <2>2. CASE answer' = NoAnswer
    BY <2>2 DEF ResultIsOfAnswer
  <2>3. answer \in Responses /\ answer.kind \in {"redirect", "unsuccessful", "success"}
    BY <1>8 DEF FeedInv, Disposed, In, BodyOK, Responses
  <2> QED BY <1>8, <2>1, <2>2, <2>3 DEF Disposed
<1>9. CASE ReadAndParse
  <2> DEFINE calendar == ParseCalendar(fetch.taken)
  <2>1. CASE FailsWith("invalid_encoding")
    BY <2>1, OtherFailure DEF ParseCodes
  <2>2. fetch.taken = answer.body
    <3>1. /\ answer \in Responses /\ IsPrefixOf(fetch.taken, answer.body)
          /\ Len(fetch.taken) = Len(answer.body)
      BY <1>9 DEF FeedInv, ReadAndParse, In, BodyOK
    <3>2. PICK S : fetch.taken \in Seq(S)
      BY DEF FeedInv, FetchOK
    <3> QED BY <3>1, <3>2, ResponseBody, WholeBody
  <2>3. CASE calendar.error # "none" /\ FailsWith(calendar.error)
    <3>1. /\ fetch' = [fetch EXCEPT !.phase = "done"] /\ answer' = answer
          /\ result' = Failed(calendar.error) /\ result'.code = calendar.error
      BY <2>3 DEF FailsWith, GoTo, Failed, Pending
    <3>2. fetch'.phase = "done"
      BY <1>0, <3>1
    <3> QED BY <2>2, <2>3, <3>1, <3>2 DEF ResultIsOfAnswer
  <2>4. CASE /\ calendar.error = "none" /\ GoTo("done")
             /\ result' = [code |-> "none", events |-> calendar.events, body |-> fetch.taken]
             /\ UNCHANGED <<now, deadline, answer>>
    <3>1. fetch'.phase = "done" /\ answer' = answer
      BY <1>0, <2>4 DEF GoTo
    <3> QED BY <2>2, <2>4, <3>1 DEF ResultIsOfAnswer
  <2> QED BY <1>9, <2>1, <2>3, <2>4 DEF ReadAndParse
<1>10. CASE UNCHANGED fetchVars
  BY <1>10 DEF fetchVars, ResultIsOfAnswer
<1> QED BY <1>1, <1>2, <1>3, <1>4, <1>5, <1>6, <1>7, <1>8, <1>9, <1>10 DEF FetchNext, Done

\* What this program exported of reservations comes back as these reservations,
\* whenever the whole of it was parsed: no text, date, fold or escape is lost,
\* for any reservations that may be exported and any limits in which a text fits
\* a line (exportICalCalendar against parseICalCalendar).
THEOREM ExportsAreReadBack == FetchSpec => []ExportsComeBack
<1>1. ASSUME ResultIsOfAnswer, NEW e \in Exports, answer # NoAnswer, answer.body = Exported[e],
             Len(e) <= MaxEvents, result.code \in ParseCodes \cup {"none"}
      PROVE  /\ result.code = "none"
             /\ Len(result.events) = Len(e)
             /\ \A i \in DOMAIN e : result.events[i] = ReadBack(e[i])
  <2>1. /\ e \in Seq(ToSet(e)) /\ \A i \in DOMAIN e : IsReservation(e[i])
        /\ ExportableAll(e)
    BY ExportsAssumption
  <2> DEFINE parsed == ParseCalendar(ExportCalendar(e))
  <2>2. parsed.error = "none" /\ parsed.events = ReadBacks(e, Len(e))
    BY <1>1, <2>1, ExportsParse
  <2>3. answer.body = ExportCalendar(e)
    BY <1>1 DEF Exported
  <2> HIDE DEF parsed
  <2>4. result.code = parsed.error /\ (result.code = "none" => result.events = parsed.events)
    BY <1>1, <2>3 DEF ResultIsOfAnswer, parsed
  <2>5. Len(e) \in Nat /\ DOMAIN e = 1 .. Len(e)
    BY <2>1
  <2>6. Len(ReadBacks(e, Len(e))) = Len(e)
        /\ \A i \in 1 .. Len(e) : ReadBacks(e, Len(e))[i] = ReadBack(e[i])
    BY <2>5 DEF ReadBacks
  <2> QED BY <2>2, <2>4, <2>5, <2>6
<1>2. \A r : /\ ReadBack(r).uid = r.uid /\ ReadBack(r).arrival = r.arrival
             /\ ReadBack(r).departure = r.departure /\ ReadBack(r).status = "CONFIRMED"
             /\ ReadBack(r).summary = SafeText(r.summary)
  BY DEF ReadBack
<1>3. ResultIsOfAnswer => ExportsComeBack
  BY <1>1, <1>2 DEF ExportsComeBack
<1>4. FetchInit => ResultIsOfAnswer
  BY DEF FetchInit, ResultIsOfAnswer
<1> QED BY <1>3, <1>4, FeedInit, FeedStep, ResultStep, PTL DEF FetchSpec
===============================================================================
