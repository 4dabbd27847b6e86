--------------------------- MODULE TimeOfDayProofs ---------------------------
(***************************************************************************)
(* The time of day is right, for every time that the chip may start with,  *)
(* in each of its formats, and for every length of a tick.                 *)
(*                                                                         *)
(* A chip that is read within a minute carries at most once into the       *)
(* fields above the seconds.  Before the carry they never change, so that  *)
(* both passes read them as they are; a pass that the carry comes into     *)
(* has either read before it what the chip then showed, or is equal to a   *)
(* pass that did.                                                          *)
(***************************************************************************)
EXTENDS TimeOfDay, WellFoundedInduction, TLAPS

AllFields == {"sec", "min", "hour", "day", "month", "year"}
Higher == {"min", "hour", "day", "month", "year"}

\* Register for a time that need not be on the chip now.
RegisterAt(t, field) ==
    IF field = "hour" /\ ~format[2]
    THEN Encoded(IF t.hour % 12 = 0 THEN 12 ELSE t.hour % 12)
             + (IF t.hour >= 12 THEN PM ELSE 0)
    ELSE Encoded(t[field])

-----------------------------------------------------------------------------
(* The calendar.                                                           *)

LEMMA SetField ==
    ASSUME NEW t \in Times, NEW v
    PROVE  /\ v \in 0 .. 59 => [t EXCEPT !.sec = v] \in Times
           /\ v \in 0 .. 59 => [t EXCEPT !.min = v] \in Times
           /\ v \in 0 .. 23 => [t EXCEPT !.hour = v] \in Times
           /\ v \in 1 .. 31 => [t EXCEPT !.day = v] \in Times
           /\ v \in 1 .. 12 => [t EXCEPT !.month = v] \in Times
           /\ v \in 0 .. 99 => [t EXCEPT !.year = v] \in Times
BY DEF Times

LEMMA NextDayEffect ==
    ASSUME NEW t \in Times, t.year < 99
    PROVE  NextDay(t) \in Times /\ NextDay(t).sec = t.sec
<1>1. t.day \in 1 .. 31 /\ t.month \in 1 .. 12 /\ t.year \in 0 .. 99
  BY DEF Times
<1>2. DaysIn(t.month, t.year) \in 28 .. 31
  BY DEF DaysIn
<1> DEFINE u == [t EXCEPT !.day = 1]
           w == [u EXCEPT !.month = 1]
<1>3. u \in Times /\ u.sec = t.sec /\ u.year = t.year
  BY SetField DEF Times
<1>4. w \in Times /\ w.sec = t.sec /\ w.year = t.year
  <2> HIDE DEF u
  <2> QED BY <1>3, SetField DEF Times
<1>5. CASE t.day < DaysIn(t.month, t.year)
  <2>1. NextDay(t) = [t EXCEPT !.day = t.day + 1] /\ t.day + 1 \in 1 .. 31
    BY <1>1, <1>2, <1>5 DEF NextDay
  <2>2. [t EXCEPT !.day = t.day + 1].sec = t.sec
    BY DEF Times
  <2> QED BY <2>1, <2>2, SetField
<1>6. CASE ~(t.day < DaysIn(t.month, t.year)) /\ t.month < 12
  <2>1. NextDay(t) = [u EXCEPT !.month = t.month + 1] /\ t.month + 1 \in 1 .. 12
    BY <1>1, <1>6 DEF NextDay, Times
  <2> HIDE DEF u
  <2>2. [u EXCEPT !.month = t.month + 1].sec = u.sec
    BY <1>3 DEF Times
  <2>3. ASSUME NEW v, v \in 1 .. 12 PROVE [u EXCEPT !.month = v] \in Times
    BY <1>3, <2>3, SetField
  <2>4. NextDay(t) \in Times
    BY <2>1, <2>3
  <2>5. NextDay(t).sec = t.sec
    BY <1>3, <2>1, <2>2
  <2> QED BY <2>4, <2>5
<1>7. CASE ~(t.day < DaysIn(t.month, t.year)) /\ ~(t.month < 12)
  <2>1. NextDay(t) = [w EXCEPT !.year = t.year + 1] /\ t.year + 1 \in 0 .. 99
    BY <1>1, <1>7 DEF NextDay, Times
  <2> HIDE DEF u, w
  <2>2. [w EXCEPT !.year = t.year + 1].sec = w.sec
    BY <1>4 DEF Times
  <2>3. ASSUME NEW v, v \in 0 .. 99 PROVE [w EXCEPT !.year = v] \in Times
    BY <1>4, <2>3, SetField
  <2>4. NextDay(t) \in Times
    BY <2>1, <2>3
  <2>5. NextDay(t).sec = t.sec
    BY <1>4, <2>1, <2>2
  <2> QED BY <2>4, <2>5
<1> QED BY <1>5, <1>6, <1>7

\* Only a carry changes more than the seconds, and only one from the last year on
\* leaves the calendar.
LEMMA NextSecondEffect ==
    ASSUME NEW t \in Times, t.year < 99 \/ t.sec < 59
    PROVE  /\ NextSecond(t) \in Times
           /\ t.sec < 59 => NextSecond(t) = [t EXCEPT !.sec = t.sec + 1]
           /\ t.sec = 59 => NextSecond(t).sec = 0
<1>1. t.sec \in 0 .. 59 /\ t.min \in 0 .. 59 /\ t.hour \in 0 .. 23 /\ t.year \in 0 .. 99
  BY DEF Times
<1> DEFINE a == [t EXCEPT !.sec = 0]
           b == [a EXCEPT !.min = 0]
           u == [b EXCEPT !.hour = 0]
<1>2. a \in Times /\ a.sec = 0 /\ a.year = t.year
  BY SetField DEF Times
<1>3. b \in Times /\ b.sec = 0 /\ b.year = t.year
  <2> HIDE DEF a
  <2> QED BY <1>2, SetField DEF Times
<1>4. u \in Times /\ u.sec = 0 /\ u.year = t.year
  <2> HIDE DEF b
  <2> QED BY <1>3, SetField DEF Times
<1>5. CASE t.sec < 59
  <2>1. NextSecond(t) = [t EXCEPT !.sec = t.sec + 1] /\ t.sec + 1 \in 0 .. 59
    BY <1>1, <1>5 DEF NextSecond
  <2>2. [t EXCEPT !.sec = t.sec + 1] \in Times
    BY <2>1, SetField
  <2> QED BY <1>1, <1>5, <2>1, <2>2
<1>6. CASE t.sec = 59 /\ t.min < 59
  <2>1. NextSecond(t) = [a EXCEPT !.min = t.min + 1] /\ t.min + 1 \in 0 .. 59
    BY <1>1, <1>6 DEF NextSecond, Times
  <2> HIDE DEF a
  <2>2. [a EXCEPT !.min = t.min + 1].sec = a.sec
    BY <1>2 DEF Times
  <2>3. ASSUME NEW v, v \in 0 .. 59 PROVE [a EXCEPT !.min = v] \in Times
    BY <1>2, <2>3, SetField
  <2>4. NextSecond(t) \in Times
    BY <2>1, <2>3
  <2>5. NextSecond(t).sec = 0
    BY <1>2, <2>1, <2>2
  <2> QED BY <1>6, <2>4, <2>5
<1>7. CASE t.sec = 59 /\ t.min = 59 /\ t.hour < 23
  <2>1. NextSecond(t) = [b EXCEPT !.hour = t.hour + 1] /\ t.hour + 1 \in 0 .. 23
    BY <1>1, <1>7 DEF NextSecond, Times
  <2> HIDE DEF b
  <2>2. [b EXCEPT !.hour = t.hour + 1].sec = b.sec
    BY <1>3 DEF Times
  <2>3. ASSUME NEW v, v \in 0 .. 23 PROVE [b EXCEPT !.hour = v] \in Times
    BY <1>3, <2>3, SetField
  <2>4. NextSecond(t) \in Times
    BY <2>1, <2>3
  <2>5. NextSecond(t).sec = 0
    BY <1>3, <2>1, <2>2
  <2> QED BY <1>7, <2>4, <2>5
<1>8. CASE t.sec = 59 /\ t.min = 59 /\ t.hour = 23
  <2>1. NextSecond(t) = NextDay(u) /\ t.year < 99
    BY <1>8 DEF NextSecond, Times
  <2> HIDE DEF u
  <2>2. NextDay(u) \in Times /\ NextDay(u).sec = 0
    BY <1>4, <2>1, NextDayEffect
  <2> QED BY <1>8, <2>1, <2>2
<1> QED BY <1>1, <1>5, <1>6, <1>7, <1>8

\* Days before the year, in closed form.
LEMMA DaysBeforeYearIs ==
    ASSUME NEW year \in 0 .. 99
    PROVE  DaysBeforeYear[year] = 365 * year + (year + 3) \div 4
<1> DEFINE F(f) == [y \in 0 .. 99 |->
                      IF y = 0 THEN 0
                      ELSE f[y - 1] + (IF (y - 1) % 4 = 0 THEN 366 ELSE 365)]
           G == [y \in 0 .. 99 |-> 365 * y + (y + 3) \div 4]
<1>1. G = F(G)
  <2>1. ASSUME NEW y \in 0 .. 99 PROVE G[y] = F(G)[y]
    <3>1. CASE y = 0
      BY <3>1
    <3>2. CASE y > 0
      <4>1. y - 1 \in 0 .. 99 /\ G[y - 1] = 365 * (y - 1) + (y - 1 + 3) \div 4
        BY <3>2
      <4>2. (y + 3) \div 4 = (y + 2) \div 4 + (IF (y - 1) % 4 = 0 THEN 1 ELSE 0)
        BY <3>2
      <4> QED BY <3>2, <4>1, <4>2
    <3> QED BY <3>1, <3>2
  <2> HIDE DEF G
  <2>2. G = [y \in 0 .. 99 |-> G[y]]
    BY DEF G
  <2> QED BY <2>1, <2>2
<1> HIDE DEF G
<1>2. DaysBeforeYear = F(DaysBeforeYear)
  <2>1. DaysBeforeYear = CHOOSE f : f = F(f)
    BY Zenon DEF DaysBeforeYear
  <2> HIDE DEF F
  <2>2. \E f : f = F(f)
    BY <1>1, Zenon
  <2> QED BY <2>1, <2>2, Zenon
<1> DEFINE Wrong == {y \in Nat : y \in 0 .. 99 /\ DaysBeforeYear[y] # G[y]}
<1>3. Wrong = {}
  <2>1. SUFFICES ASSUME Wrong # {} PROVE FALSE
    OBVIOUS
  <2>2. PICK y \in Wrong : \A z \in Wrong : ~(<<z, y>> \in OpToRel(<, Nat))
    BY <2>1, NatLessThanWellFounded, WFMin
  <2>3. y \in 0 .. 99 /\ DaysBeforeYear[y] # G[y] /\ y # 0
    BY <1>1, <1>2
  <2>4. y - 1 \in Nat /\ y - 1 \in 0 .. 99 /\ y - 1 < y
    BY <2>3
  <2>5. y - 1 \notin Wrong
    BY <2>2, <2>4 DEF OpToRel
  <2>6. DaysBeforeYear[y - 1] = G[y - 1]
    BY <2>4, <2>5
  <2> QED BY <1>1, <1>2, <2>3, <2>6
<1> QED
  <2>1. year \notin Wrong
    BY <1>3
  <2>2. DaysBeforeYear[year] = G[year]
    BY <2>1
  <2> QED BY <2>2 DEF G

Leap(year) == IF year % 4 = 0 THEN 1 ELSE 0

\* Days before the month in a year that is no leap year.
CommonDays == <<0, 31, 59, 90, 120, 151, 181, 212, 243, 273, 304, 334>>

DaysBefore(month, year) == CommonDays[month] + (IF month <= 2 THEN 0 ELSE Leap(year))

LEMMA DaysBeforeMonthIs ==
    ASSUME NEW month \in 1 .. 12, NEW year \in 0 .. 99
    PROVE  DaysBeforeMonth(month, year) = DaysBefore(month, year)
<1> DEFINE F(f) == [m \in 1 .. 12 |-> IF m = 1 THEN 0 ELSE f[m - 1] + DaysIn(m - 1, year)]
           G == [m \in 1 .. 12 |-> DaysBefore(m, year)]
           B == CHOOSE f : f = F(f)
<1>1. \A m \in 2 .. 12 : DaysBefore(m, year) = DaysBefore(m - 1, year) + DaysIn(m - 1, year)
  BY DEF DaysBefore, CommonDays, Leap, DaysIn
<1>2. DaysBefore(1, year) = 0
  BY DEF DaysBefore, CommonDays
<1>3. G = F(G)
  <2>1. ASSUME NEW m \in 1 .. 12 PROVE DaysBefore(m, year) = F(G)[m]
    <3>1. m > 1 => m - 1 \in 1 .. 12 /\ m \in 2 .. 12
      OBVIOUS
    <3> QED BY <1>1, <1>2, <3>1
  <2> QED BY <2>1
<1>4. B = F(B)
  <2>1. \E f : f = F(f)
    BY <1>3, Zenon
  <2> HIDE DEF F
  <2> QED BY <2>1, Zenon
<1>5. DaysBeforeMonth(month, year) = B[month]
  BY Zenon DEF DaysBeforeMonth
<1> HIDE DEF B
<1>6. B[1] = 0 /\ \A m \in 2 .. 12 : B[m] = B[m - 1] + DaysIn(m - 1, year)
  BY <1>4
<1>7. B[1] = DaysBefore(1, year)
  BY <1>2, <1>6
<1>8. \A m \in 2 .. 12 : B[m - 1] = DaysBefore(m - 1, year) => B[m] = DaysBefore(m, year)
  BY <1>1, <1>6
<1>9. \A m \in 1 .. 6 : B[m] = DaysBefore(m, year)
  BY <1>7, <1>8
<1>10. \A m \in 7 .. 12 : B[m] = DaysBefore(m, year)
  BY <1>8, <1>9
<1> QED BY <1>5, <1>9, <1>10

LEMMA SevenFold ==
    ASSUME NEW n \in Nat, NEW k \in Nat
    PROVE  (n + 7 * k) % 7 = n % 7
OBVIOUS

\* The weekday from the days since the first of January 2000, a Saturday.
WeekdayByDays(year, month, day) ==
    (6 + (365 * year + (year + 3) \div 4) + DaysBefore(month, year) + day - 1) % 7

\* Schwerdtfeger's method, in days before the month and before the year.
LEMMA SchwerdtfegerMethod ==
    ASSUME NEW year \in 0 .. 99, NEW month \in 1 .. 12, NEW day \in 1 .. 31,
           year > 0 \/ month > 2
    PROVE  time_get_weekday(year, month, day) = WeekdayByDays(year, month, day)
<1> DEFINE e == <<0, 3, 2, 5, 0, 3, 5, 1, 4, 6, 2, 4>>
           g == IF month >= 3 THEN year ELSE year - 1
           n == day + e[month] + (g + g \div 4)
           days == 6 + (365 * year + (year + 3) \div 4) + DaysBefore(month, year) + day - 1
           k == <<0, 4, 9, 13, 18, 22, 26, 31, 35, 39, 44, 48>>[month]
<1>1. g \in Nat /\ e[month] \in 0 .. 6 /\ k \in Nat
  OBVIOUS
<1>2. time_get_weekday(year, month, day) = n % 7
  BY <1>1 DEF time_get_weekday
<1>3. /\ month >= 3 => 6 + CommonDays[month] = e[month] + 7 * k
      /\ month <= 2 => 7 + CommonDays[month] = e[month] + 7 * (k + 1)
  BY DEF CommonDays
<1>4. /\ month >= 3 => (year + 3) \div 4 + Leap(year) = year \div 4 + 1
      /\ month <= 2 => (year + 3) \div 4 = (year - 1) \div 4 + 1
  BY DEF Leap
<1>5. ASSUME month >= 3 PROVE days = n + 7 * (k + 52 * year)
  <2>1. /\ g = year /\ DaysBefore(month, year) = CommonDays[month] + Leap(year)
        /\ 6 + CommonDays[month] = e[month] + 7 * k
        /\ (year + 3) \div 4 + Leap(year) = year \div 4 + 1
    BY <1>3, <1>4, <1>5 DEF DaysBefore
  <2>2. CommonDays[month] \in Nat /\ Leap(year) \in Nat
    BY DEF CommonDays, Leap
  <2> HIDE DEF e, k
  <2> QED BY <1>1, <2>1, <2>2
<1>6. ASSUME month <= 2 PROVE days = n + 7 * (k + 1 + 52 * year)
  <2>1. /\ g = year - 1 /\ DaysBefore(month, year) = CommonDays[month]
        /\ 7 + CommonDays[month] = e[month] + 7 * (k + 1)
        /\ (year + 3) \div 4 = (year - 1) \div 4 + 1
    BY <1>3, <1>4, <1>6 DEF DaysBefore, CommonDays
  <2>2. CommonDays[month] \in Nat
    BY DEF CommonDays
  <2> HIDE DEF e, k
  <2> QED BY <1>1, <2>1, <2>2
<1>7. n \in Nat /\ k + 52 * year \in Nat /\ k + 1 + 52 * year \in Nat
  <2> HIDE DEF e, k
  <2> QED BY <1>1
<1>8. days % 7 = n % 7
  <2> HIDE DEF n, days, k
  <2> QED BY <1>5, <1>6, <1>7, SevenFold
<1> QED BY <1>2, <1>8 DEF WeekdayByDays

\* time_get_weekday knows the weekday, but for the first two months of 2000.
LEMMA WeekdayIsRight ==
    ASSUME NEW t \in Times, t.year > 0 \/ t.month > 2
    PROVE  time_get_weekday(t.year, t.month, t.day) = Weekday(t)
<1> DEFINE y == t.year
           m == t.month
           d == t.day
<1>1. y \in 0 .. 99 /\ m \in 1 .. 12 /\ d \in 1 .. 31
  BY DEF Times
<1>2. y > 0 \/ m > 2
  OBVIOUS
<1>3. Weekday(t) = (6 + DaysBeforeYear[y] + DaysBeforeMonth(m, y) + d - 1) % 7
  BY DEF Weekday
<1> HIDE DEF y, m, d
<1>4. DaysBeforeYear[y] = 365 * y + (y + 3) \div 4
  BY <1>1, DaysBeforeYearIs
<1>5. DaysBeforeMonth(m, y) = DaysBefore(m, y)
  BY <1>1, DaysBeforeMonthIs
<1>6. time_get_weekday(y, m, d) = WeekdayByDays(y, m, d)
  BY <1>1, <1>2, SchwerdtfegerMethod
<1>7. Weekday(t) = WeekdayByDays(y, m, d)
  BY <1>3, <1>4, <1>5, Zenon DEF WeekdayByDays
<1>8. time_get_weekday(y, m, d) = Weekday(t)
  BY <1>6, <1>7, Zenon
<1> QED BY <1>8 DEF y, m, d

-----------------------------------------------------------------------------
(* Registers, and what Convert makes of them.                              *)

LEMMA FieldsOf ==
    ASSUME NEW t \in Times
    PROVE  /\ DOMAIN t = AllFields
           /\ t.sec \in 0 .. 59 /\ t.min \in 0 .. 59 /\ t.hour \in 0 .. 23
           /\ t.day \in 1 .. 31 /\ t.month \in 1 .. 12 /\ t.year \in 0 .. 99
           /\ \A field \in AllFields : t[field] \in 0 .. 99
BY DEF Times, AllFields

LEMMA BcdBack ==
    ASSUME NEW n \in 0 .. 99
    PROVE  Bcd(n) \in 0 .. 153 /\ to_binary(Bcd(n)) = n
BY DEF Bcd, to_binary

LEMMA BcdHour ==
    ASSUME NEW n \in 1 .. 12
    PROVE  Bcd(n) \in 0 .. 18 /\ to_binary(Bcd(n)) = n
BY DEF Bcd, to_binary

\* The hour as a chip with twelve hours counts it.
Twelve(hour) == IF hour % 12 = 0 THEN 12 ELSE hour % 12

LEMMA RegisterIs ==
    ASSUME NEW t \in Times, format \in BOOLEAN \X BOOLEAN
    PROVE  /\ \A field \in AllFields : RegisterAt(t, field) \in 0 .. 255
           /\ \A field \in AllFields \ {"hour"} :
                  RegisterAt(t, field) = IF format[1] THEN t[field] ELSE Bcd(t[field])
           /\ format[2] =>
                  RegisterAt(t, "hour") = IF format[1] THEN t.hour ELSE Bcd(t.hour)
           /\ ~format[2] =>
                  RegisterAt(t, "hour") = (IF format[1] THEN Twelve(t.hour) ELSE Bcd(Twelve(t.hour)))
                                            + (IF t.hour >= 12 THEN 128 ELSE 0)
<1>1. \A field \in AllFields : t[field] \in 0 .. 99
  BY FieldsOf
<1>2. t.hour \in 0 .. 23
  BY FieldsOf
<1>3. Twelve(t.hour) \in 1 .. 12
  BY <1>2 DEF Twelve
<1>4. Bcd(Twelve(t.hour)) \in 0 .. 18
  BY <1>3, BcdHour
<1>5. \A field \in AllFields : Bcd(t[field]) \in 0 .. 153
  BY <1>1, BcdBack
<1>6. \A field \in AllFields \ {"hour"} :
         RegisterAt(t, field) = IF format[1] THEN t[field] ELSE Bcd(t[field])
  BY DEF RegisterAt, Encoded
<1>7. format[2] => RegisterAt(t, "hour") = IF format[1] THEN t.hour ELSE Bcd(t.hour)
  BY DEF RegisterAt, Encoded
<1>8. ~format[2] =>
         RegisterAt(t, "hour") = (IF format[1] THEN Twelve(t.hour) ELSE Bcd(Twelve(t.hour)))
                                   + (IF t.hour >= 12 THEN 128 ELSE 0)
  BY DEF RegisterAt, Encoded, Twelve, PM
<1>9. RegisterAt(t, "hour") \in 0 .. 255
  BY <1>2, <1>3, <1>4, <1>5, <1>7, <1>8 DEF AllFields
<1>10. \A field \in AllFields \ {"hour"} : RegisterAt(t, field) \in 0 .. 255
  BY <1>1, <1>5, <1>6
<1> QED BY <1>6, <1>7, <1>8, <1>9, <1>10

\* binary and time of Convert
BinaryOf(r) ==
    IF format[1] THEN r
    ELSE [field \in DOMAIN r |->
              IF field = "hour" THEN to_binary(r.hour % PM) + PM * (r.hour \div PM)
              ELSE to_binary(r[field])]

TimeOf(r) ==
    [BinaryOf(r) EXCEPT !.hour = IF ~format[2] /\ @ >= PM THEN ((@ % PM) + 12) % 24 ELSE @]

\* The hour as Convert gets it: right but at 12 o'clock on a chip with twelve hours.
HourOf(t) == IF ~format[2] /\ t.hour % 12 = 0 THEN 12 - t.hour ELSE t.hour

LEMMA ConvertIsRight ==
    ASSUME format \in BOOLEAN \X BOOLEAN, NEW t \in Times,
           NEW r \in [AllFields -> 0 .. 255],
           \A field \in AllFields : r[field] = RegisterAt(t, field)
    PROVE  /\ \A field \in AllFields \ {"hour"} : TimeOf(r)[field] = t[field]
           /\ TimeOf(r)["hour"] = HourOf(t)
           /\ HourOf(t) \in 0 .. 23
           /\ TimeOf(r) \in [AllFields -> Nat]
<1> DEFINE b == BinaryOf(r)
<1>1. /\ \A field \in AllFields : t[field] \in 0 .. 99
      /\ t.hour \in 0 .. 23 /\ t["hour"] = t.hour
  BY FieldsOf
<1>2. Twelve(t.hour) \in 1 .. 12
  BY <1>1 DEF Twelve
<1>3. HourOf(t) \in 0 .. 23
  BY <1>1 DEF HourOf
<1>4. b \in [AllFields -> Nat] /\ \A field \in AllFields \ {"hour"} : b[field] = t[field]
  <2>1. CASE format[1]
    BY <1>1, <2>1, RegisterIs DEF BinaryOf
  <2>2. CASE ~format[1]
    <3>1. \A field \in AllFields \ {"hour"} : to_binary(r[field]) = t[field]
      BY <1>1, <2>2, RegisterIs, BcdBack
    <3>2. to_binary(r["hour"] % PM) + PM * (r["hour"] \div PM) \in Nat
      <4>1. r["hour"] \in 0 .. 255
        BY DEF AllFields
      <4> QED BY <4>1 DEF to_binary, PM
    <3>3. /\ b = [field \in AllFields |->
                    IF field = "hour" THEN to_binary(r["hour"] % PM) + PM * (r["hour"] \div PM)
                    ELSE to_binary(r[field])]
      BY <2>2 DEF BinaryOf
    <3> QED BY <1>1, <3>1, <3>2, <3>3
  <2> QED BY <2>1, <2>2
<1>5. b["hour"] = IF format[2] THEN t.hour
                  ELSE Twelve(t.hour) + (IF t.hour >= 12 THEN 128 ELSE 0)
  <2>0. "hour" \in AllFields
    BY DEF AllFields
  <2>1. CASE format[1]
    BY <2>0, <2>1, RegisterIs DEF BinaryOf
  <2>2. CASE ~format[1] /\ format[2]
    <3>1. r["hour"] = Bcd(t.hour)
      BY <2>0, <2>2, RegisterIs
    <3>2. Bcd(t.hour) \in 0 .. 127
      BY <1>1 DEF Bcd
    <3>3. r["hour"] % PM = Bcd(t.hour) /\ r["hour"] \div PM = 0
      BY <3>1, <3>2 DEF PM
    <3>4. b["hour"] = to_binary(Bcd(t.hour)) + PM * 0
      BY <2>0, <2>2, <3>3 DEF BinaryOf
    <3> QED BY <1>1, <2>2, <3>4, BcdBack DEF PM
  <2>3. CASE ~format[1] /\ ~format[2]
    <3> DEFINE w == Bcd(Twelve(t.hour))
               up == IF t.hour >= 12 THEN 1 ELSE 0
    <3>1. w \in 0 .. 18 /\ to_binary(w) = Twelve(t.hour)
      BY <1>2, BcdHour
    <3>2. r["hour"] = w + 128 * up
      BY <1>1, <2>0, <2>3, <3>1, RegisterIs
    <3> HIDE DEF w
    <3>3. r["hour"] % PM = w /\ r["hour"] \div PM = up
      BY <3>1, <3>2 DEF PM
    <3>4. b["hour"] = to_binary(w) + PM * up
      BY <2>0, <2>3, <3>3 DEF BinaryOf
    <3> QED BY <1>2, <2>3, <3>1, <3>4 DEF PM
  <2> QED BY <2>1, <2>2, <2>3
<1> HIDE DEF b
<1>6. TimeOf(r) = [b EXCEPT !["hour"] = IF ~format[2] /\ @ >= PM THEN ((@ % PM) + 12) % 24 ELSE @]
  BY Zenon DEF TimeOf, b
<1>7. (IF ~format[2] /\ b["hour"] >= PM THEN ((b["hour"] % PM) + 12) % 24 ELSE b["hour"]) = HourOf(t)
  BY <1>1, <1>5 DEF HourOf, Twelve, PM
<1>8. TimeOf(r) = [b EXCEPT !["hour"] = HourOf(t)]
  BY <1>6, <1>7, Zenon
<1> QED BY <1>3, <1>4, <1>8 DEF AllFields

-----------------------------------------------------------------------------
(* The invariant.                                                          *)

\* The fields above the seconds that a pass has read when it comes to field n.
Read(n) == {Fields[i] : i \in 2 .. n - 1}

\* The chip has carried into them: it starts at a second of at least 0, and has
\* reached second `updates` then unless it has begun again.
Carried == chip.sec < updates

\* What TypeOK says and leaves open, and which field a pass begins with.
TypeInv ==
    /\ chip \in Times /\ shown \subseteq Times
    /\ format \in BOOLEAN \X BOOLEAN
    /\ updating \in BOOLEAN /\ updates \in 0 .. MaxUpdates
    /\ stage \in {"first_wait", "first_read", "wait", "read", "convert", "done"}
    /\ next \in 1 .. 7
    /\ new \in [AllFields -> 0 .. 255] /\ old \in [AllFields -> 0 .. 255]
    /\ ticks \in 0 .. MaxTicks /\ (stage # "done" => ticks = 0)
    /\ stage \in {"first_wait", "wait"} => next = 1
    /\ stage \in {"first_read", "read"} => chip \in shown

\* The chip carries at most once.
CarryInv ==
    /\ ~Carried => chip.year < 99
    /\ Carried => updates <= chip.sec + 60

\* Before it does, what has been read of the fields above the seconds is what the
\* chip still shows.
ReadInv ==
    ~Carried =>
        /\ stage \in {"first_read", "read"} =>
               \A field \in Read(next) : new[field] = RegisterAt(chip, field)
        /\ stage \in {"wait", "read"} =>
               \A field \in Higher : old[field] = RegisterAt(chip, field)

\* The seconds are those of a time t that the chip has shown.  Either it has not
\* carried since, and the pass has read t and goes on doing so; or the pass before
\* has read t, as far as the higher fields go.
OfOneTime(t) ==
    /\ new["sec"] = RegisterAt(t, "sec")
    /\ \/ /\ \A field \in Higher : chip[field] = t[field]
          /\ \A field \in Read(next) : new[field] = RegisterAt(t, field)
       \/ \A field \in Higher : old[field] = RegisterAt(t, field)

WholeInv ==
    /\ stage = "read" /\ next >= 2 => \E t \in shown : OfOneTime(t)
    /\ stage = "convert" =>
           \E t \in shown : \A field \in AllFields : new[field] = RegisterAt(t, field)
    /\ TimeIsWhole

\* A system time, its fields in their ranges but for day, weekday and milliseconds,
\* and what it amounts to.
SystemTimes == [msec : Nat, time : [AllFields -> Nat], weekday : Nat]
Good(s) ==
    /\ s \in SystemTimes
    /\ s.time["sec"] < 60 /\ s.time["min"] < 60 /\ s.time["hour"] < 24

Total(s) == Msec(s) + 86400000 * s.time["day"]

TickInv ==
    stage = "done" =>
        /\ Good(system_time) /\ start \in SystemTimes
        /\ \E n \in Nat : system_time.msec = MSEC_PER_TICK * n
        /\ system_time.msec < 1000
        /\ Total(system_time) = Total(start) + MSEC_PER_TICK * ticks
        /\ system_time.weekday - system_time.time["day"] = start.weekday - start.time["day"]

Inv == TypeInv /\ CarryInv /\ ReadInv /\ WholeInv /\ TickInv

-----------------------------------------------------------------------------
(* Reading the chip.                                                       *)

LEMMA FieldNumbers ==
    /\ DOMAIN Fields = 1 .. 6 /\ Fields[1] = "sec"
    /\ \A n \in 2 .. 6 : Fields[n] \in Higher /\ Fields[n] \notin Read(n)
    /\ \A n \in 2 .. 6 : Read(n + 1) = Read(n) \cup {Fields[n]}
    /\ Read(1) = {} /\ Read(2) = {} /\ Read(7) = Higher
    /\ \A n \in 1 .. 7 : Read(n) \subseteq Higher
    /\ Higher \subseteq AllFields /\ "sec" \in AllFields /\ "sec" \notin Higher
    /\ \A field \in AllFields : field = "sec" \/ field \in Higher
<1>1. DOMAIN Fields = 1 .. 6 /\ Fields[1] = "sec"
  BY DEF Fields
<1>2. \A n \in 2 .. 6 : Fields[n] \in Higher
  BY DEF Fields, Higher
<1>3. \A m, n \in 2 .. 6 : Fields[m] = Fields[n] => m = n
  BY DEF Fields
<1>4. \A n \in 2 .. 6 : Fields[n] \notin Read(n)
  BY <1>3 DEF Read
<1>5. ASSUME NEW n \in 2 .. 6 PROVE Read(n + 1) = Read(n) \cup {Fields[n]}
  <2>1. 2 .. (n + 1) - 1 = (2 .. n - 1) \cup {n}
    OBVIOUS
  <2> QED BY <2>1 DEF Read
<1>6. Read(1) = {} /\ Read(2) = {}
  BY DEF Read
<1>7. Read(7) = Higher
  <2>1. 2 .. 7 - 1 = {2, 3, 4, 5, 6}
    OBVIOUS
  <2> QED BY <2>1 DEF Read, Fields, Higher
<1>8. \A n \in 1 .. 7 : Read(n) \subseteq Higher
  <2>1. \A n \in 1 .. 7 : \A i \in 2 .. n - 1 : i \in 2 .. 6
    OBVIOUS
  <2> QED BY <1>2, <2>1 DEF Read
<1>9. Higher \subseteq AllFields /\ "sec" \in AllFields /\ "sec" \notin Higher
      /\ \A field \in AllFields : field = "sec" \/ field \in Higher
  BY DEF Higher, AllFields
<1> QED BY <1>1, <1>2, <1>4, <1>5, <1>6, <1>7, <1>8, <1>9

\* Fields that are equal have equal registers.
LEMMA SameRegister ==
    ASSUME NEW t, NEW u, NEW field, t[field] = u[field]
    PROVE  RegisterAt(t, field) = RegisterAt(u, field)
BY DEF RegisterAt

LEMMA RegisterOfChip == \A field : Register(field) = RegisterAt(chip, field)
BY DEF Register, RegisterAt

\* The format never changes, so that registers keep their meaning.
LEMMA RegisterNext ==
    ASSUME format' = format, NEW t, NEW field
    PROVE  RegisterAt(t, field)' = RegisterAt(t, field)
BY DEF RegisterAt, Encoded, Bcd, PM

LEMMA ChipRegisterNext ==
    ASSUME format' = format, chip' = chip
    PROVE  \A field : RegisterAt(chip, field)' = RegisterAt(chip, field)
BY DEF RegisterAt, Encoded, Bcd, PM

LEMMA ReadNext == Read(next)' = Read(next')
BY DEF Read, Fields

\* A time in the chip's place that differs in the seconds at most.
LEMMA ChipHigherNext ==
    ASSUME format' = format, \A field \in Higher : chip'[field] = chip[field]
    PROVE  \A field \in Higher : RegisterAt(chip, field)' = RegisterAt(chip, field)
BY DEF RegisterAt, Encoded, Bcd, PM, Higher

LEMMA InitHolds == ASSUME TimeAssumption PROVE Init => Inv
<1> SUFFICES ASSUME Init PROVE Inv
  OBVIOUS
<1>1. chip \in Times /\ chip.year < 99 /\ format \in BOOLEAN \X BOOLEAN
  BY DEF Init, TimeAssumption
<1>2. chip.sec \in 0 .. 59
  BY <1>1, FieldsOf
<1>3. NoTime \in [AllFields -> 0 .. 255]
  BY DEF NoTime, AllFields
<1>4. TypeInv
  <2>1. /\ updates = 0 /\ ticks = 0 /\ next = 1 /\ stage = "first_wait" /\ updating = FALSE
        /\ shown = {} /\ new = NoTime /\ old = NoTime
    BY DEF Init
  <2>2. 0 \in 0 .. MaxUpdates /\ 0 \in 0 .. MaxTicks
    BY DEF TimeAssumption
  <2>3. updating \in BOOLEAN
    BY <2>1, Zenon
  <2> QED BY <1>1, <1>3, <2>1, <2>2, <2>3 DEF TypeInv
<1>5. CarryInv
  BY <1>1, <1>2 DEF Init, CarryInv, Carried
<1>6. ReadInv /\ WholeInv /\ TickInv
  BY DEF Init, ReadInv, WholeInv, TimeIsWhole, TickInv
<1> QED BY <1>4, <1>5, <1>6 DEF Inv

\* What is left of the invariant when the clock has not been read yet.
LEMMA NotDone ==
    ASSUME stage' # "done"
    PROVE  TimeIsWhole' /\ TickInv'
BY DEF TimeIsWhole, TickInv

LEMMA ChipUpdatesStep == ASSUME TimeAssumption, Inv, ChipUpdates PROVE Inv'
<1>1. /\ stage # "done" /\ updates < MaxUpdates
      /\ UNCHANGED <<format, stage, next, new, old, system_time, start, ticks>>
      /\ updating' = ~updating
  BY DEF ChipUpdates
<1>2. TypeInv /\ CarryInv /\ ReadInv /\ WholeInv
  BY DEF Inv
<1>3. /\ chip.sec \in 0 .. 59 /\ updates \in 0 .. MaxUpdates /\ MaxUpdates \in 0 .. 60
      /\ chip.year \in 0 .. 99 /\ chip \in Times
  BY <1>2, FieldsOf DEF TypeInv, TimeAssumption
<1>4. Read(next)' = Read(next) /\ next' = next
  BY <1>1, ReadNext
<1>5. TimeIsWhole' /\ TickInv'
  BY <1>1, NotDone
<1>6. CASE ~updating
  <2>1. UNCHANGED <<chip, updates, shown>>
    BY <1>6 DEF ChipUpdates
  <2>2. TypeInv' /\ CarryInv'
    BY <1>1, <1>2, <2>1 DEF TypeInv, CarryInv, Carried
  <2>3. ReadInv'
    BY <1>1, <1>2, <1>4, <2>1, ChipRegisterNext DEF ReadInv, Carried
  <2>4. WholeInv'
    BY <1>1, <1>2, <1>4, <1>5, <2>1, RegisterNext DEF WholeInv, OfOneTime
  <2> QED BY <1>5, <2>2, <2>3, <2>4 DEF Inv
<1>7. CASE updating
  <2>1. chip' = NextSecond(chip) /\ updates' = updates + 1 /\ shown' = shown \cup {chip'}
    BY <1>7 DEF ChipUpdates
  <2>2. chip.year < 99 \/ chip.sec < 59
    BY <1>1, <1>2, <1>3 DEF CarryInv, Carried
  <2>3. /\ chip' \in Times
        /\ chip.sec < 59 => chip' = [chip EXCEPT !.sec = chip.sec + 1]
        /\ chip.sec = 59 => chip'.sec = 0
    BY <1>3, <2>1, <2>2, NextSecondEffect
  <2>4. /\ chip.sec < 59 => chip'.sec = chip.sec + 1 /\ chip'.year = chip.year
        /\ chip.sec < 59 => \A field \in Higher : chip'[field] = chip[field]
    BY <1>3, <2>3 DEF Times, Higher
  <2>5. TypeInv'
    <3>1. updates' \in 0 .. MaxUpdates
      BY <1>1, <1>3, <2>1
    <3> QED BY <1>1, <1>2, <2>1, <2>3, <3>1 DEF TypeInv
  <2>6. CarryInv' /\ (Carried' <=> Carried \/ chip.sec = 59)
    BY <1>1, <1>2, <1>3, <2>1, <2>3, <2>4 DEF CarryInv, Carried
  <2>7. ReadInv'
    <3>1. SUFFICES ASSUME ~Carried' PROVE ReadInv'
      BY DEF ReadInv
    <3>2. ~Carried /\ chip.sec < 59
      BY <1>3, <2>6, <3>1
    <3>3. \A field \in Higher : RegisterAt(chip, field)' = RegisterAt(chip, field)
      BY <1>1, <2>4, <3>2, ChipHigherNext
    <3>4. Read(next) \subseteq Higher
      BY <1>2, FieldNumbers DEF TypeInv
    <3> QED BY <1>1, <1>2, <1>4, <3>2, <3>3, <3>4 DEF ReadInv
  <2>8. stage = "read" /\ next >= 2 => \E t \in shown : OfOneTime(t)'
    <3>1. SUFFICES ASSUME stage = "read", next >= 2
                   PROVE  \E t \in shown : OfOneTime(t)'
      OBVIOUS
    <3>2. PICK t \in shown : OfOneTime(t)
      BY <1>2, <3>1 DEF WholeInv
    <3>3. \A field : RegisterAt(t, field)' = RegisterAt(t, field)
      BY <1>1, RegisterNext
    <3>4. CASE \A field \in Higher : old[field] = RegisterAt(t, field)
      BY <1>1, <3>2, <3>3, <3>4 DEF OfOneTime
    <3>5. CASE /\ \A field \in Higher : chip[field] = t[field]
               /\ \A field \in Read(next) : new[field] = RegisterAt(t, field)
      <4>1. CASE chip.sec < 59
        BY <1>1, <1>4, <2>4, <3>2, <3>3, <3>5, <4>1 DEF OfOneTime
      <4>2. CASE chip.sec = 59
        <5>1. ~Carried
          BY <1>1, <1>3, <4>2 DEF Carried
        <5>2. \A field \in Higher : old[field] = RegisterAt(chip, field)
          BY <1>2, <3>1, <5>1 DEF ReadInv
        <5>3. \A field \in Higher : old[field] = RegisterAt(t, field)
          BY <3>5, <5>2, SameRegister
        <5> QED BY <1>1, <3>2, <3>3, <5>3 DEF OfOneTime
      <4> QED BY <1>3, <4>1, <4>2
    <3> QED BY <3>2, <3>4, <3>5 DEF OfOneTime
  <2>9. WholeInv'
    BY <1>1, <1>2, <1>5, <2>1, <2>8, RegisterNext DEF WholeInv
  <2> QED BY <1>5, <2>5, <2>6, <2>7, <2>9 DEF Inv
<1> QED BY <1>2, <1>6, <1>7 DEF TypeInv

\* A step that leaves the chip alone.
LEMMA CarryKept ==
    ASSUME CarryInv, UNCHANGED <<chip, updates>>
    PROVE  CarryInv' /\ Carried' = Carried
BY DEF CarryInv, Carried

LEMMA WaitForUpdateStep == ASSUME Inv, WaitForUpdate PROVE Inv'
<1>1. /\ stage \in {"first_wait", "wait"}
      /\ stage' = (IF stage = "wait" THEN "read" ELSE "first_read")
      /\ shown' = {chip}
      /\ UNCHANGED <<chip, updating, updates, format, next, new, old, system_time, start, ticks>>
  BY DEF WaitForUpdate
<1>2. TypeInv /\ CarryInv /\ ReadInv
  BY DEF Inv
<1>3. next = 1 /\ next' = 1 /\ Read(next)' = {}
  BY <1>1, <1>2, ReadNext, FieldNumbers DEF TypeInv
<1>4. TypeInv'
  BY <1>1, <1>2 DEF TypeInv
<1>5. CarryInv' /\ Carried' = Carried
  BY <1>1, <1>2, CarryKept
<1>6. ReadInv'
  BY <1>1, <1>2, <1>3, <1>5, ChipRegisterNext DEF ReadInv
<1>7. TimeIsWhole' /\ TickInv'
  BY <1>1, NotDone
<1>8. WholeInv'
  BY <1>1, <1>3, <1>7 DEF WholeInv
<1> QED BY <1>4, <1>5, <1>6, <1>7, <1>8 DEF Inv

LEMMA ReadRegisterStep == ASSUME Inv, ReadRegister PROVE Inv'
<1>1. /\ stage \in {"first_read", "read"} /\ next \in 1 .. 6
      /\ new' = [new EXCEPT ![Fields[next]] = RegisterAt(chip, Fields[next])]
      /\ next' = next + 1
      /\ UNCHANGED <<chip, updating, updates, format, stage, old, shown, system_time, start, ticks>>
  BY FieldNumbers, RegisterOfChip DEF ReadRegister
<1>2. TypeInv /\ CarryInv /\ ReadInv /\ WholeInv
  BY DEF Inv
<1> DEFINE f == Fields[next]
<1>3. /\ f \in AllFields /\ (next = 1 => f = "sec") /\ (next >= 2 => f \in Higher)
      /\ f \notin Read(next)
      /\ (next >= 2 => Read(next)' = Read(next) \cup {f})
      /\ (next = 1 => Read(next)' = {})
      /\ Read(next) \subseteq Higher /\ Read(next)' \subseteq Higher
  <2>1. next = 1 \/ next \in 2 .. 6
    BY <1>1
  <2>2. next' \in 2 .. 7 /\ (next = 1 => next' = 2)
    BY <1>1
  <2>3. CASE next = 1
    BY <1>1, <2>2, <2>3, FieldNumbers, ReadNext
  <2>4. CASE next \in 2 .. 6
    <3>1. Read(next)' = Read(next + 1)
      BY <1>1, ReadNext
    <3> QED BY <1>1, <2>4, <3>1, FieldNumbers
  <2> QED BY <2>1, <2>3, <2>4
<1>4. RegisterAt(chip, f) \in 0 .. 255
  BY <1>2, <1>3, RegisterIs DEF TypeInv
<1> HIDE DEF f
<1>5. /\ new' \in [AllFields -> 0 .. 255] /\ new'[f] = RegisterAt(chip, f)
      /\ \A field \in AllFields : field # f => new'[field] = new[field]
  BY <1>1, <1>2, <1>3, <1>4 DEF TypeInv, f
<1>6. TypeInv'
  BY <1>1, <1>2, <1>5 DEF TypeInv
<1>7. CarryInv' /\ Carried' = Carried
  BY <1>1, <1>2, CarryKept
<1>8. ReadInv'
  <2>1. SUFFICES ASSUME ~Carried PROVE ReadInv'
    BY <1>7 DEF ReadInv
  <2>2. \A field \in Read(next)' : new'[field] = RegisterAt(chip, field)
    <3>1. \A field \in Read(next) : new[field] = RegisterAt(chip, field)
      BY <1>1, <1>2, <2>1 DEF ReadInv
    <3>2. CASE next = 1
      BY <1>3, <3>2
    <3>3. CASE next >= 2
      BY <1>3, <1>5, <3>1, <3>3, FieldNumbers
    <3> QED BY <1>1, <3>2, <3>3
  <2> QED BY <1>1, <1>2, <2>1, <2>2, ChipRegisterNext DEF ReadInv
<1>9. ASSUME stage = "read" PROVE \E t \in shown : OfOneTime(t)'
  <2>1. \A t, field : RegisterAt(t, field)' = RegisterAt(t, field)
    BY <1>1, RegisterNext
  <2>2. CASE next = 1
    <3>1. chip \in shown
      BY <1>2, <1>9 DEF TypeInv
    <3>2. \A t : t = chip => OfOneTime(t)'
      BY <1>1, <1>3, <1>5, <2>1, <2>2 DEF OfOneTime
    <3> QED BY <3>1, <3>2
  <2>3. CASE next >= 2
    <3>1. PICK t \in shown : OfOneTime(t)
      BY <1>2, <1>9, <2>3 DEF WholeInv
    <3>2. new'["sec"] = RegisterAt(t, "sec")
      BY <1>3, <1>5, <2>3, <3>1, FieldNumbers DEF OfOneTime
    <3>3. CASE \A field \in Higher : old[field] = RegisterAt(t, field)
      BY <1>1, <2>1, <3>2, <3>3 DEF OfOneTime
    <3>4. CASE /\ \A field \in Higher : chip[field] = t[field]
               /\ \A field \in Read(next) : new[field] = RegisterAt(t, field)
      <4>1. RegisterAt(chip, f) = RegisterAt(t, f)
        BY <1>3, <2>3, <3>4, SameRegister
      <4>2. \A field \in Read(next)' : new'[field] = RegisterAt(t, field)
        BY <1>3, <1>5, <2>3, <3>4, <4>1, FieldNumbers
      <4> QED BY <1>1, <2>1, <3>2, <3>4, <4>2 DEF OfOneTime
    <3> QED BY <3>1, <3>3, <3>4 DEF OfOneTime
  <2> QED BY <1>1, <2>2, <2>3
<1>10. TimeIsWhole' /\ TickInv'
  BY <1>1, NotDone
<1>11. WholeInv'
  BY <1>1, <1>9, <1>10 DEF WholeInv
<1> QED BY <1>6, <1>7, <1>8, <1>10, <1>11 DEF Inv

LEMMA EndPassStep == ASSUME Inv, EndPass PROVE Inv'
<1>1. /\ next \notin 1 .. 6 /\ stage \in {"first_read", "read"}
      /\ UNCHANGED <<chip, updating, updates, format, new, shown, system_time, start, ticks>>
  BY FieldNumbers DEF EndPass
<1>2. TypeInv /\ CarryInv /\ ReadInv /\ WholeInv
  BY DEF Inv
<1>3. next = 7 /\ Read(next) = Higher
  BY <1>1, <1>2, FieldNumbers DEF TypeInv
<1>4. CarryInv' /\ Carried' = Carried
  BY <1>1, <1>2, CarryKept
<1>5. \A t, field : RegisterAt(t, field)' = RegisterAt(t, field)
  BY <1>1, RegisterNext
<1>6. CASE stage = "read" /\ SameTwice
  <2>1. stage' = "convert" /\ UNCHANGED <<next, old>>
    BY <1>6 DEF EndPass
  <2>2. TypeInv'
    BY <1>1, <1>2, <2>1 DEF TypeInv
  <2>3. ReadInv'
    BY <2>1 DEF ReadInv
  <2>4. TimeIsWhole' /\ TickInv'
    BY <2>1, NotDone
  <2>5. \E t \in shown : \A field \in AllFields : new[field] = RegisterAt(t, field)
    <3>1. PICK t \in shown : OfOneTime(t)
      BY <1>2, <1>3, <1>6 DEF WholeInv
    <3>2. \A field \in AllFields : new[field] = old[field]
      BY <1>2, <1>6 DEF SameTwice, TypeInv
    <3>3. \A field \in Higher : new[field] = RegisterAt(t, field)
      BY <1>3, <3>1, <3>2, FieldNumbers DEF OfOneTime
    <3> QED BY <3>1, <3>3, FieldNumbers DEF OfOneTime
  <2>6. WholeInv'
    BY <1>1, <1>5, <2>1, <2>4, <2>5 DEF WholeInv
  <2> QED BY <1>4, <2>2, <2>3, <2>4, <2>6 DEF Inv
<1>7. CASE ~(stage = "read" /\ SameTwice)
  <2>1. stage' = "wait" /\ next' = 1 /\ old' = new
    BY <1>7 DEF EndPass
  <2>2. TypeInv'
    BY <1>1, <1>2, <2>1 DEF TypeInv
  <2>3. ReadInv'
    BY <1>1, <1>2, <1>3, <1>4, <2>1, ChipRegisterNext DEF ReadInv
  <2>4. TimeIsWhole' /\ TickInv'
    BY <2>1, NotDone
  <2>5. WholeInv'
    BY <2>1, <2>4 DEF WholeInv
  <2> QED BY <1>4, <2>2, <2>3, <2>4, <2>5 DEF Inv
<1> QED BY <1>6, <1>7

-----------------------------------------------------------------------------
(* Convert.                                                                *)

LEMMA WeekdayIsNat ==
    ASSUME NEW year \in 0 .. 99, NEW month \in 1 .. 12, NEW day \in 1 .. 31
    PROVE  time_get_weekday(year, month, day) \in Nat
<1> DEFINE e == <<0, 3, 2, 5, 0, 3, 5, 1, 4, 6, 2, 4>>
           g == IF month >= 3 THEN year ELSE year - 1
           n == day + e[month] + (IF g < 0 THEN 1073741822 ELSE g + g \div 4)
<1>1. e[month] \in 0 .. 6 /\ g \in Int
  OBVIOUS
<1>2. time_get_weekday(year, month, day) = n % 7
  BY <1>1 DEF time_get_weekday
<1>3. n \in Nat
  <2> HIDE DEF e, g
  <2> QED BY <1>1
<1> HIDE DEF n
<1> QED BY <1>2, <1>3

LEMMA ConvertStep == ASSUME TimeAssumption, Inv, Convert PROVE Inv'
<1> DEFINE time == TimeOf(new)
<1>1. /\ stage = "convert" /\ stage' = "done"
      /\ system_time' = [msec |-> 0, time |-> time,
                         weekday |-> time_get_weekday(time["year"], time["month"], time["day"])]
      /\ start' = system_time'
      /\ UNCHANGED <<chip, updating, updates, format, next, new, old, shown, ticks>>
  BY DEF Convert, TimeOf, BinaryOf
<1>2. TypeInv /\ CarryInv /\ WholeInv
  BY DEF Inv
<1>3. PICK t \in shown : \A field \in AllFields : new[field] = RegisterAt(t, field)
  BY <1>1, <1>2 DEF WholeInv
<1>4. /\ t \in Times /\ DOMAIN t = AllFields
      /\ t.year \in 0 .. 99 /\ t.month \in 1 .. 12 /\ t.day \in 1 .. 31
      /\ t.sec \in 0 .. 59 /\ t.min \in 0 .. 59
  BY <1>2, FieldsOf DEF TypeInv
<1>5. /\ \A field \in AllFields \ {"hour"} : time[field] = t[field]
      /\ time["hour"] = HourOf(t) /\ HourOf(t) \in 0 .. 23
      /\ time \in [AllFields -> Nat]
  BY <1>2, <1>3, <1>4, ConvertIsRight DEF TypeInv
<1> HIDE DEF time
<1>6. /\ time["year"] = t.year /\ time["month"] = t.month /\ time["day"] = t.day
      /\ time["sec"] = t.sec /\ time["min"] = t.min
  BY <1>5 DEF AllFields
<1> DEFINE w == time_get_weekday(t.year, t.month, t.day)
<1>7. w \in Nat /\ (t.year > 0 \/ t.month > 2 => w = Weekday(t))
  <2>1. w \in Nat
    BY <1>4, WeekdayIsNat
  <2>2. ASSUME t.year > 0 \/ t.month > 2 PROVE w = Weekday(t)
    BY <1>4, <2>2, WeekdayIsRight
  <2> QED BY <2>1, <2>2
<1> HIDE DEF w
<1>8. system_time' = [msec |-> 0, time |-> time, weekday |-> w]
  BY <1>1, <1>6 DEF w
<1>9. TypeInv' /\ ReadInv'
  BY <1>1, <1>2 DEF TypeInv, ReadInv
<1>10. CarryInv'
  BY <1>1, <1>2, CarryKept
<1>11. TimeIsWhole'
  <2>1. start'.time = time /\ start'.weekday = w
    BY <1>1, <1>8
  <2>2. \A field \in DOMAIN t \ {"hour"} : start'.time[field] = t[field]
    BY <1>4, <1>5, <2>1
  <2>3. start'.time["hour"] = IF ~format'[2] /\ t.hour % 12 = 0 THEN 12 - t.hour ELSE t.hour
    BY <1>1, <1>5, <2>1 DEF HourOf
  <2>4. (t.year = 0 /\ t.month <= 2) \/ start'.weekday = Weekday(t)
    BY <1>4, <1>7, <2>1
  <2> QED BY <1>1, <2>2, <2>3, <2>4 DEF TimeIsWhole
<1>12. WholeInv'
  BY <1>1, <1>11 DEF WholeInv
<1>13. TickInv'
  <2>1. system_time' \in SystemTimes /\ start' = system_time'
    BY <1>1, <1>5, <1>7, <1>8 DEF SystemTimes
  <2>2. Good(system_time)'
    BY <1>4, <1>5, <1>6, <1>8, <2>1 DEF Good
  <2>3. MSEC_PER_TICK \in Nat /\ system_time'.msec = 0 /\ ticks' = 0
    BY <1>1, <1>2, <1>8 DEF TimeAssumption, TypeInv
  <2>4. \E n \in Nat : system_time'.msec = MSEC_PER_TICK * n
    BY <2>3
  <2>5. Total(start)' = Total(system_time)' /\ Total(system_time)' \in Nat
    BY <2>1 DEF Total, Msec, SystemTimes, AllFields
  <2>6. Total(system_time)' = Total(start)' + MSEC_PER_TICK * ticks'
    <3>1. MSEC_PER_TICK * ticks' = 0
      BY <2>3
    <3> QED BY <2>5, <3>1
  <2>7. system_time'.weekday - system_time'.time["day"] = start'.weekday - start'.time["day"]
    BY <2>1
  <2> QED BY <2>1, <2>2, <2>3, <2>4, <2>6, <2>7 DEF TickInv
<1> QED BY <1>9, <1>10, <1>12, <1>13 DEF Inv

-----------------------------------------------------------------------------
(* update_system_time.                                                     *)

LEMMA SetTime ==
    ASSUME NEW s \in SystemTimes, NEW v \in Nat
    PROVE  /\ [s EXCEPT !.time.sec = v] = [msec |-> s.msec, time |-> [s.time EXCEPT !["sec"] = v],
                                           weekday |-> s.weekday]
           /\ [s EXCEPT !.time.min = v] = [msec |-> s.msec, time |-> [s.time EXCEPT !["min"] = v],
                                           weekday |-> s.weekday]
           /\ [s EXCEPT !.time.hour = v] = [msec |-> s.msec, time |-> [s.time EXCEPT !["hour"] = v],
                                            weekday |-> s.weekday]
           /\ [s EXCEPT !.time.day = v] = [msec |-> s.msec, time |-> [s.time EXCEPT !["day"] = v],
                                           weekday |-> s.weekday]
BY DEF SystemTimes

LEMMA FieldNames ==
    {"sec", "min", "hour", "day"} \subseteq AllFields
BY DEF AllFields

LEMMA FieldTypes ==
    ASSUME NEW s \in SystemTimes
    PROVE  /\ s.time \in [AllFields -> Nat] /\ s.weekday \in Nat /\ s.msec \in Nat
           /\ s.time["sec"] \in Nat /\ s.time["min"] \in Nat
           /\ s.time["hour"] \in Nat /\ s.time["day"] \in Nat
BY DEF SystemTimes, AllFields

LEMMA TotalIs ==
    ASSUME NEW s \in SystemTimes
    PROVE  Total(s) = s.msec + 1000 * s.time["sec"] + 60000 * s.time["min"]
                          + 3600000 * s.time["hour"] + 86400000 * s.time["day"]
BY FieldTypes DEF Total, Msec

LEMMA GoodFields ==
    ASSUME NEW s \in SystemTimes
    PROVE  Good(s) <=> s.time["sec"] < 60 /\ s.time["min"] < 60 /\ s.time["hour"] < 24
BY DEF Good

\* n is s but for a field that is set to v.
IsSet(s, field, v, n) ==
    /\ n \in SystemTimes /\ n.msec = s.msec /\ n.weekday = s.weekday
    /\ n.time[field] = v
    /\ \A other \in {"sec", "min", "hour", "day"} \ {field} : n.time[other] = s.time[other]

LEMMA SetEffect ==
    ASSUME NEW s \in SystemTimes, NEW field \in {"sec", "min", "hour", "day"}, NEW v \in Nat,
           NEW n, n = [msec |-> s.msec, time |-> [s.time EXCEPT ![field] = v], weekday |-> s.weekday]
    PROVE  IsSet(s, field, v, n)
<1> DEFINE time == [s.time EXCEPT ![field] = v]
<1>1. s.time \in [AllFields -> Nat] /\ s.weekday \in Nat /\ s.msec \in Nat /\ field \in AllFields
  BY FieldTypes, FieldNames
<1>2. /\ time \in [AllFields -> Nat] /\ time[field] = v
      /\ \A other \in AllFields \ {field} : time[other] = s.time[other]
  BY <1>1
<1> HIDE DEF time
<1>3. n = [msec |-> s.msec, time |-> time, weekday |-> s.weekday]
  BY DEF time
<1>4. n \in SystemTimes /\ n.time = time /\ n.msec = s.msec /\ n.weekday = s.weekday
  BY <1>1, <1>2, <1>3 DEF SystemTimes
<1> QED BY <1>2, <1>4, FieldNames DEF IsSet

\* What every part of update_system_time does: it adds to the total, and to the
\* weekday what it adds to the day.
Adds(s, n, amount) ==
    /\ Good(n) /\ n.msec = s.msec
    /\ Total(n) = Total(s) + amount
    /\ n.weekday - n.time["day"] = s.weekday - s.time["day"]

LEMMA AddDayEffect ==
    ASSUME NEW s \in SystemTimes, Good(s)
    PROVE  Adds(s, AddDay(s), 86400000)
<1> DEFINE u == [msec |-> s.msec, time |-> [s.time EXCEPT !["day"] = s.time["day"] + 1],
                 weekday |-> s.weekday]
           n == AddDay(s)
<1>1. s.time["day"] + 1 \in Nat /\ s.weekday \in Nat
  BY FieldTypes
<1>2. \A x : x = u => x \in SystemTimes /\ x.msec = s.msec /\ x.weekday = s.weekday
               /\ x.time["day"] = s.time["day"] + 1
               /\ \A other \in {"sec", "min", "hour"} : x.time[other] = s.time[other]
  BY <1>1, SetEffect DEF IsSet
<1>3. /\ u \in SystemTimes /\ u.msec = s.msec /\ u.weekday = s.weekday
      /\ u.time["day"] = s.time["day"] + 1
      /\ \A other \in {"sec", "min", "hour"} : u.time[other] = s.time[other]
  BY <1>2, Zenon
<1>4. n = [u EXCEPT !.weekday = u.weekday + 1]
  <2>1. n = [[s EXCEPT !.time = [s.time EXCEPT !["day"] = s.time["day"] + 1]] EXCEPT !.weekday = @ + 1]
    BY DEF AddDay
  <2>2. [s EXCEPT !.time = [s.time EXCEPT !["day"] = s.time["day"] + 1]] = u
    BY DEF SystemTimes
  <2> QED BY <2>1, <2>2, Zenon
<1> HIDE DEF u, n
<1>5. /\ n \in SystemTimes /\ n.msec = u.msec /\ n.time = u.time /\ n.weekday = u.weekday + 1
  BY <1>1, <1>3, <1>4 DEF SystemTimes
<1>6. /\ n.time["day"] = s.time["day"] + 1 /\ n.time["hour"] = s.time["hour"]
      /\ n.time["min"] = s.time["min"] /\ n.time["sec"] = s.time["sec"]
      /\ n.weekday = s.weekday + 1
  BY <1>3, <1>5
<1>7. Good(n)
  BY <1>5, <1>6, GoodFields
<1>8. Total(n) = Total(s) + 86400000
  <2>1. Total(s) = s.msec + 1000 * s.time["sec"] + 60000 * s.time["min"]
                      + 3600000 * s.time["hour"] + 86400000 * s.time["day"]
    BY TotalIs
  <2>2. Total(n) = n.msec + 1000 * n.time["sec"] + 60000 * n.time["min"]
                      + 3600000 * n.time["hour"] + 86400000 * n.time["day"]
    BY <1>5, TotalIs
  <2>3. /\ s.time["sec"] \in Nat /\ s.time["min"] \in Nat /\ s.msec \in Nat
        /\ s.time["hour"] \in Nat /\ s.time["day"] \in Nat
    BY FieldTypes
  <2>4. n.msec = s.msec
    BY <1>3, <1>5
  <2> QED BY <1>6, <2>1, <2>2, <2>3, <2>4
<1>9. Adds(s, n, 86400000)
  <2>1. s.time["day"] \in Nat /\ s.weekday \in Nat
    BY FieldTypes
  <2> QED BY <1>3, <1>5, <1>6, <1>7, <1>8, <2>1 DEF Adds
<1> QED BY <1>9 DEF n

\* How many of a field make one of the next, and what one of it amounts to.
Limit(field) == IF field = "hour" THEN 24 ELSE 60
Unit(field) == IF field = "hour" THEN 3600000 ELSE IF field = "min" THEN 60000 ELSE 1000

\* One more in a field, below its limit.
LEMMA Advance ==
    ASSUME NEW s \in SystemTimes, Good(s), NEW field \in {"sec", "min", "hour"},
           s.time[field] + 1 < Limit(field),
           NEW n, IsSet(s, field, s.time[field] + 1, n)
    PROVE  Adds(s, n, Unit(field))
<1>1. s.time[field] + 1 \in Nat /\ s.time["day"] \in Nat
  BY FieldTypes
<1>2. /\ n \in SystemTimes /\ n.msec = s.msec /\ n.weekday = s.weekday
      /\ n.time[field] = s.time[field] + 1
      /\ \A other \in {"sec", "min", "hour", "day"} \ {field} : n.time[other] = s.time[other]
  BY DEF IsSet
<1>3. Good(n)
  BY <1>2, GoodFields DEF Limit
<1>4. Total(n) = Total(s) + Unit(field)
  <2> DEFINE S == s.time["sec"]
             M == s.time["min"]
             H == s.time["hour"]
             D == s.time["day"]
  <2>1. S \in Nat /\ M \in Nat /\ H \in Nat /\ D \in Nat /\ s.msec \in Nat
    BY FieldTypes
  <2>2. Total(s) = s.msec + 1000 * S + 60000 * M + 3600000 * H + 86400000 * D
    BY TotalIs
  <2>3. Total(n) = n.msec + 1000 * n.time["sec"] + 60000 * n.time["min"]
                      + 3600000 * n.time["hour"] + 86400000 * n.time["day"]
    BY <1>2, TotalIs
  <2>4. CASE field = "hour"
    <3>1. n.time["sec"] = S /\ n.time["min"] = M /\ n.time["hour"] = H + 1 /\ n.time["day"] = D
      BY <1>2, <2>4
    <3>2. Unit(field) = 3600000
      BY <2>4 DEF Unit
    <3>3. n.msec = s.msec
      BY <1>2
    <3> HIDE DEF S, M, H, D
    <3> QED BY <2>1, <2>2, <2>3, <3>1, <3>2, <3>3
  <2>5. CASE field = "min"
    <3>1. n.time["sec"] = S /\ n.time["min"] = M + 1 /\ n.time["hour"] = H /\ n.time["day"] = D
      BY <1>2, <2>5
    <3>2. Unit(field) = 60000
      BY <2>5 DEF Unit
    <3>3. n.msec = s.msec
      BY <1>2
    <3> HIDE DEF S, M, H, D
    <3> QED BY <2>1, <2>2, <2>3, <3>1, <3>2, <3>3
  <2>6. CASE field = "sec"
    <3>1. n.time["sec"] = S + 1 /\ n.time["min"] = M /\ n.time["hour"] = H /\ n.time["day"] = D
      BY <1>2, <2>6
    <3>2. Unit(field) = 1000
      BY <2>6 DEF Unit
    <3>3. n.msec = s.msec
      BY <1>2
    <3> HIDE DEF S, M, H, D
    <3> QED BY <2>1, <2>2, <2>3, <3>1, <3>2, <3>3
  <2> QED BY <2>4, <2>5, <2>6
<1> QED BY <1>2, <1>3, <1>4 DEF Adds

\* A field at its limit begins again, and one is carried.
LEMMA Carry ==
    ASSUME NEW s \in SystemTimes, Good(s), NEW field \in {"sec", "min", "hour"},
           s.time[field] + 1 = Limit(field),
           NEW u, IsSet(s, field, 0, u)
    PROVE  /\ u \in SystemTimes /\ Good(u)
           /\ \A n : Adds(u, n, Unit(field) * Limit(field)) => Adds(s, n, Unit(field))
<1>1. /\ u \in SystemTimes /\ u.msec = s.msec /\ u.weekday = s.weekday
      /\ u.time[field] = 0
      /\ \A other \in {"sec", "min", "hour", "day"} \ {field} : u.time[other] = s.time[other]
  BY DEF IsSet
<1>2. Good(u)
  <2>1. s.time["sec"] < 60 /\ s.time["min"] < 60 /\ s.time["hour"] < 24
    BY GoodFields
  <2>2. u.time["sec"] < 60 /\ u.time["min"] < 60 /\ u.time["hour"] < 24
    BY <1>1, <2>1
  <2> QED BY <1>1, <2>2, GoodFields
<1>3. /\ Total(s) \in Nat /\ Total(u) \in Nat
      /\ Total(u) + Unit(field) * Limit(field) = Total(s) + Unit(field)
  <2> DEFINE S == s.time["sec"]
             M == s.time["min"]
             H == s.time["hour"]
             D == s.time["day"]
  <2>1. S \in Nat /\ M \in Nat /\ H \in Nat /\ D \in Nat /\ s.msec \in Nat
    BY FieldTypes
  <2>2. Total(s) = s.msec + 1000 * S + 60000 * M + 3600000 * H + 86400000 * D
    BY TotalIs
  <2>3. Total(u) = u.msec + 1000 * u.time["sec"] + 60000 * u.time["min"]
                      + 3600000 * u.time["hour"] + 86400000 * u.time["day"]
    BY <1>1, TotalIs
  <2>4. CASE field = "hour"
    <3>1. u.time["sec"] = S /\ u.time["min"] = M /\ u.time["hour"] = 0 /\ u.time["day"] = D /\ H = 23
      BY <1>1, <2>1, <2>4 DEF Limit
    <3> QED BY <1>1, <2>1, <2>2, <2>3, <2>4, <3>1 DEF Unit, Limit
  <2>5. CASE field = "min"
    <3>1. u.time["sec"] = S /\ u.time["min"] = 0 /\ u.time["hour"] = H /\ u.time["day"] = D /\ M = 59
      BY <1>1, <2>1, <2>5 DEF Limit
    <3> QED BY <1>1, <2>1, <2>2, <2>3, <2>5, <3>1 DEF Unit, Limit
  <2>6. CASE field = "sec"
    <3>1. u.time["sec"] = 0 /\ u.time["min"] = M /\ u.time["hour"] = H /\ u.time["day"] = D /\ S = 59
      BY <1>1, <2>1, <2>6 DEF Limit
    <3> QED BY <1>1, <2>1, <2>2, <2>3, <2>6, <3>1 DEF Unit, Limit
  <2> QED BY <2>4, <2>5, <2>6
<1>4. u.time["day"] = s.time["day"]
  BY <1>1
<1>5. Unit(field) * Limit(field) \in Nat /\ Unit(field) \in Nat
  BY DEF Unit, Limit
<1> QED BY <1>1, <1>2, <1>3, <1>4, <1>5 DEF Adds

LEMMA AddHourEffect ==
    ASSUME NEW s \in SystemTimes, Good(s)
    PROVE  Adds(s, AddHour(s), 3600000)
<1> DEFINE h == s.time["hour"]
           u == [s EXCEPT !.time.hour = 0]
           n == [s EXCEPT !.time.hour = h + 1]
<1>1. h \in Nat /\ h < 24
  BY FieldTypes, GoodFields
<1>2. CASE h = 23
  <2>1. AddHour(s) = AddDay(u)
    BY <1>2 DEF AddHour
  <2>2. u = [msec |-> s.msec, time |-> [s.time EXCEPT !["hour"] = 0], weekday |-> s.weekday]
    BY SetTime
  <2> HIDE DEF u
  <2>3. h + 1 = Limit("hour") /\ Unit("hour") * Limit("hour") = 86400000 /\ Unit("hour") = 3600000
    BY <1>2 DEF Limit, Unit
  <2>4. /\ u \in SystemTimes /\ Good(u)
        /\ Adds(u, AddDay(u), 86400000) => Adds(s, AddDay(u), 3600000)
    <3>1. IsSet(s, "hour", 0, u)
      BY <2>2, SetEffect
    <3> QED BY <2>3, <3>1, Carry
  <2> QED BY <2>1, <2>4, AddDayEffect
<1>3. CASE h < 23
  <2>1. AddHour(s) = n
    BY <1>1, <1>3 DEF AddHour
  <2>2. n = [msec |-> s.msec, time |-> [s.time EXCEPT !["hour"] = h + 1], weekday |-> s.weekday]
    <3>1. h + 1 \in Nat
      BY <1>1
    <3> HIDE DEF h
    <3> QED BY <3>1, SetTime
  <2>3. h + 1 < Limit("hour") /\ Unit("hour") = 3600000
    BY <1>1, <1>3 DEF Limit, Unit
  <2> HIDE DEF n
  <2>4. IsSet(s, "hour", h + 1, n)
    BY <1>1, <2>2, SetEffect
  <2> QED BY <2>1, <2>3, <2>4, Advance
<1> QED BY <1>1, <1>2, <1>3

LEMMA AddMinuteEffect ==
    ASSUME NEW s \in SystemTimes, Good(s)
    PROVE  Adds(s, AddMinute(s), 60000)
<1> DEFINE h == s.time["min"]
           u == [s EXCEPT !.time.min = 0]
           n == [s EXCEPT !.time.min = h + 1]
<1>1. h \in Nat /\ h < 60
  BY FieldTypes, GoodFields
<1>2. CASE h = 59
  <2>1. AddMinute(s) = AddHour(u)
    BY <1>2 DEF AddMinute
  <2>2. u = [msec |-> s.msec, time |-> [s.time EXCEPT !["min"] = 0], weekday |-> s.weekday]
    BY SetTime
  <2> HIDE DEF u
  <2>3. h + 1 = Limit("min") /\ Unit("min") * Limit("min") = 3600000 /\ Unit("min") = 60000
    BY <1>2 DEF Limit, Unit
  <2>4. /\ u \in SystemTimes /\ Good(u)
        /\ Adds(u, AddHour(u), 3600000) => Adds(s, AddHour(u), 60000)
    <3>1. IsSet(s, "min", 0, u)
      BY <2>2, SetEffect
    <3> QED BY <2>3, <3>1, Carry
  <2> QED BY <2>1, <2>4, AddHourEffect
<1>3. CASE h < 59
  <2>1. AddMinute(s) = n
    BY <1>1, <1>3 DEF AddMinute
  <2>2. n = [msec |-> s.msec, time |-> [s.time EXCEPT !["min"] = h + 1], weekday |-> s.weekday]
    <3>1. h + 1 \in Nat
      BY <1>1
    <3> HIDE DEF h
    <3> QED BY <3>1, SetTime
  <2>3. h + 1 < Limit("min") /\ Unit("min") = 60000
    BY <1>1, <1>3 DEF Limit, Unit
  <2> HIDE DEF n
  <2>4. IsSet(s, "min", h + 1, n)
    BY <1>1, <2>2, SetEffect
  <2> QED BY <2>1, <2>3, <2>4, Advance
<1> QED BY <1>1, <1>2, <1>3

LEMMA AddSecondEffect ==
    ASSUME NEW s \in SystemTimes, Good(s)
    PROVE  Adds(s, AddSecond(s), 1000)
<1> DEFINE h == s.time["sec"]
           u == [s EXCEPT !.time.sec = 0]
           n == [s EXCEPT !.time.sec = h + 1]
<1>1. h \in Nat /\ h < 60
  BY FieldTypes, GoodFields
<1>2. CASE h = 59
  <2>1. AddSecond(s) = AddMinute(u)
    BY <1>2 DEF AddSecond
  <2>2. u = [msec |-> s.msec, time |-> [s.time EXCEPT !["sec"] = 0], weekday |-> s.weekday]
    BY SetTime
  <2> HIDE DEF u
  <2>3. h + 1 = Limit("sec") /\ Unit("sec") * Limit("sec") = 60000 /\ Unit("sec") = 1000
    BY <1>2 DEF Limit, Unit
  <2>4. /\ u \in SystemTimes /\ Good(u)
        /\ Adds(u, AddMinute(u), 60000) => Adds(s, AddMinute(u), 1000)
    <3>1. IsSet(s, "sec", 0, u)
      BY <2>2, SetEffect
    <3> QED BY <2>3, <3>1, Carry
  <2> QED BY <2>1, <2>4, AddMinuteEffect
<1>3. CASE h < 59
  <2>1. AddSecond(s) = n
    BY <1>1, <1>3 DEF AddSecond
  <2>2. n = [msec |-> s.msec, time |-> [s.time EXCEPT !["sec"] = h + 1], weekday |-> s.weekday]
    <3>1. h + 1 \in Nat
      BY <1>1
    <3> HIDE DEF h
    <3> QED BY <3>1, SetTime
  <2>3. h + 1 < Limit("sec") /\ Unit("sec") = 1000
    BY <1>1, <1>3 DEF Limit, Unit
  <2> HIDE DEF n
  <2>4. IsSet(s, "sec", h + 1, n)
    BY <1>1, <2>2, SetEffect
  <2> QED BY <2>1, <2>3, <2>4, Advance
<1> QED BY <1>1, <1>2, <1>3

LEMMA SetMsec ==
    ASSUME NEW s \in SystemTimes, Good(s), NEW v \in Nat
    PROVE  LET n == [s EXCEPT !.msec = v] IN
           /\ n \in SystemTimes /\ Good(n) /\ n.msec = v /\ n.weekday = s.weekday
           /\ n.time["day"] = s.time["day"]
           /\ Total(n) - v = Total(s) - s.msec
<1> DEFINE n == [s EXCEPT !.msec = v]
<1>1. n \in SystemTimes /\ n.msec = v /\ n.weekday = s.weekday /\ n.time = s.time
  BY DEF SystemTimes
<1> HIDE DEF n
<1>2. Good(n)
  BY <1>1, GoodFields
<1>3. Total(n) - v = Total(s) - s.msec
  <2>1. Total(s) = s.msec + 1000 * s.time["sec"] + 60000 * s.time["min"]
                      + 3600000 * s.time["hour"] + 86400000 * s.time["day"]
    BY TotalIs
  <2>2. Total(n) = n.msec + 1000 * n.time["sec"] + 60000 * n.time["min"]
                      + 3600000 * n.time["hour"] + 86400000 * n.time["day"]
    BY <1>1, TotalIs
  <2>3. /\ s.time["sec"] \in Nat /\ s.time["min"] \in Nat /\ s.msec \in Nat
        /\ s.time["hour"] \in Nat /\ s.time["day"] \in Nat
    BY FieldTypes
  <2> QED BY <1>1, <2>1, <2>2, <2>3
<1> QED BY <1>1, <1>2, <1>3 DEF n

\* Ticks that divide a second do not step over its end.
LEMMA TickMeetsSecond ==
    ASSUME TimeAssumption, NEW n \in Nat, MSEC_PER_TICK * n < 1000
    PROVE  MSEC_PER_TICK * n + MSEC_PER_TICK <= 1000
<1> DEFINE m == MSEC_PER_TICK
           k == 1000 \div m
<1>1. m \in Nat /\ m > 0 /\ 1000 % m = 0
  BY DEF TimeAssumption
<1>2. k \in Nat /\ 1000 = m * k
  BY <1>1
<1> HIDE DEF m, k
<1>3. \A a, b \in Nat : a <= b => m * a <= m * b
  <2>1. SUFFICES ASSUME NEW a \in Nat, NEW b \in Nat, a <= b PROVE m * a <= m * b
    OBVIOUS
  <2>2. b - a \in Nat
    BY <2>1
  <2>3. m * (b - a) \in Nat /\ m * (b - a) = m * b - m * a /\ m * b \in Nat /\ m * a \in Nat
    BY <1>1, <2>2
  <2> QED BY <2>3
<1>4. m * n < 1000
  BY DEF m
<1>5. n + 1 <= k
  <2>1. ASSUME k <= n PROVE FALSE
    <3>1. m * k <= m * n
      BY <1>2, <1>3, <2>1
    <3>2. m * n \in Nat
      BY <1>1
    <3> QED BY <1>2, <1>4, <3>1, <3>2
  <2> QED BY <1>2, <2>1
<1>6. m * (n + 1) <= 1000 /\ m * (n + 1) = m * n + m
  BY <1>1, <1>2, <1>3, <1>5
<1>7. m * n + m <= 1000
  BY <1>6
<1> QED BY <1>7 DEF m

LEMMA TickStep == ASSUME TimeAssumption, Inv, update_system_time PROVE Inv'
<1> DEFINE s == system_time
           z == [s EXCEPT !.msec = 0]
           y == [s EXCEPT !.msec = s.msec + MSEC_PER_TICK]
<1>1. /\ stage = "done" /\ ticks < MaxTicks /\ ticks' = ticks + 1
      /\ system_time' = IF s.msec + MSEC_PER_TICK >= 1000 THEN AddSecond(z) ELSE y
      /\ UNCHANGED <<chip, updating, updates, format, stage, next, new, old, shown, start>>
  BY DEF update_system_time
<1>2. TypeInv /\ CarryInv /\ WholeInv /\ TickInv
  BY DEF Inv
<1>3. /\ s \in SystemTimes /\ Good(s) /\ s.msec < 1000 /\ start \in SystemTimes
      /\ Total(s) = Total(start) + MSEC_PER_TICK * ticks
      /\ s.weekday - s.time["day"] = start.weekday - start.time["day"]
  BY <1>1, <1>2 DEF TickInv, Good
<1>4. PICK n \in Nat : s.msec = MSEC_PER_TICK * n
  BY <1>1, <1>2 DEF TickInv
<1>5. /\ MSEC_PER_TICK \in Nat /\ s.msec \in Nat /\ Total(s) \in Nat /\ Total(start) \in Nat
      /\ ticks \in Nat
  BY <1>2, <1>3, FieldTypes, TotalIs DEF TimeAssumption, TypeInv
<1>6. s.msec + MSEC_PER_TICK <= 1000
  BY <1>3, <1>4, TickMeetsSecond
<1> HIDE DEF s
<1>7. /\ system_time' \in SystemTimes /\ Good(system_time') /\ system_time'.msec < 1000
      /\ Total(system_time') = Total(s) + MSEC_PER_TICK
      /\ system_time'.weekday - system_time'.time["day"] = s.weekday - s.time["day"]
      /\ \E i \in Nat : system_time'.msec = MSEC_PER_TICK * i
  <2>1. CASE s.msec + MSEC_PER_TICK >= 1000
    <3>1. /\ z \in SystemTimes /\ Good(z) /\ z.msec = 0 /\ z.weekday = s.weekday
          /\ z.time["day"] = s.time["day"] /\ Total(z) - 0 = Total(s) - s.msec
      BY <1>3, SetMsec
    <3> HIDE DEF z
    <3>2. Adds(z, AddSecond(z), 1000)
      BY <3>1, AddSecondEffect
    <3>3. system_time' = AddSecond(z) /\ s.msec + MSEC_PER_TICK = 1000
      BY <1>1, <1>5, <1>6, <2>1
    <3>4. Total(z) \in Nat
      BY <3>1, TotalIs, FieldTypes
    <3>5. Total(system_time') = Total(s) + MSEC_PER_TICK
      BY <1>5, <3>1, <3>2, <3>3, <3>4 DEF Adds
    <3>6. /\ system_time' \in SystemTimes /\ Good(system_time') /\ system_time'.msec = 0
          /\ system_time'.weekday - system_time'.time["day"] = s.weekday - s.time["day"]
      BY <3>1, <3>2, <3>3 DEF Adds, Good
    <3>7. system_time'.msec = MSEC_PER_TICK * 0
      BY <1>5, <3>6
    <3> QED BY <3>5, <3>6, <3>7
  <2>2. CASE ~(s.msec + MSEC_PER_TICK >= 1000)
    <3>1. s.msec + MSEC_PER_TICK \in Nat
      BY <1>5
    <3>2. /\ y \in SystemTimes /\ Good(y) /\ y.msec = s.msec + MSEC_PER_TICK
          /\ y.weekday = s.weekday /\ y.time["day"] = s.time["day"]
          /\ Total(y) - (s.msec + MSEC_PER_TICK) = Total(s) - s.msec
      BY <1>3, <3>1, SetMsec
    <3> HIDE DEF y
    <3>3. system_time' = y
      BY <1>1, <2>2
    <3>4. Total(y) \in Nat
      BY <3>2, TotalIs, FieldTypes
    <3>5. Total(y) = Total(s) + MSEC_PER_TICK
      BY <1>5, <3>2, <3>4
    <3>6. s.msec + MSEC_PER_TICK = MSEC_PER_TICK * (n + 1)
      BY <1>4, <1>5
    <3> QED BY <1>5, <2>2, <3>1, <3>2, <3>3, <3>5, <3>6
  <2> QED BY <2>1, <2>2
<1>8. TypeInv' /\ ReadInv'
  <2>1. ticks' \in 0 .. MaxTicks
    BY <1>1, <1>2 DEF TypeInv, TimeAssumption
  <2> QED BY <1>1, <1>2, <2>1 DEF TypeInv, ReadInv
<1>9. CarryInv'
  BY <1>1, <1>2, CarryKept
<1>10. WholeInv'
  <2>1. TimeIsWhole'
    BY <1>1, <1>2 DEF WholeInv, TimeIsWhole
  <2> QED BY <1>1, <2>1 DEF WholeInv
<1>11. TickInv'
  <2>1. MSEC_PER_TICK * ticks' = MSEC_PER_TICK * ticks + MSEC_PER_TICK
    BY <1>1, <1>5
  <2>2. MSEC_PER_TICK * ticks \in Nat
    BY <1>5
  <2>3. Total(system_time') = Total(start) + MSEC_PER_TICK * ticks'
    BY <1>3, <1>5, <1>7, <2>1, <2>2
  <2>4. /\ Total(system_time)' = Total(system_time') /\ Good(system_time)' = Good(system_time')
        /\ Total(start)' = Total(start)
    BY <1>1 DEF Total, Good, Msec, SystemTimes, AllFields
  <2> QED BY <1>1, <1>3, <1>7, <2>3, <2>4 DEF TickInv
<1> QED BY <1>8, <1>9, <1>10, <1>11 DEF Inv

-----------------------------------------------------------------------------
(* Theorems.                                                               *)

LEMMA NextStep == ASSUME TimeAssumption, Inv, [Next]_vars PROVE Inv'
<1>1. CASE UNCHANGED vars
  BY <1>1, ChipRegisterNext, RegisterNext, ReadNext
     DEF vars, Inv, TypeInv, CarryInv, Carried, ReadInv, WholeInv, OfOneTime, TimeIsWhole,
         TickInv, Total, Good, Msec
<1>2. CASE Next
  BY <1>2, ChipUpdatesStep, WaitForUpdateStep, ReadRegisterStep, EndPassStep, ConvertStep,
     TickStep DEF Next
<1> QED BY <1>1, <1>2

LEMMA Invariance == ASSUME TimeAssumption PROVE Spec => []Inv
<1>1. Init => Inv
  BY InitHolds
<1>2. Inv /\ [Next]_vars => Inv'
  BY NextStep
<1> QED BY <1>1, <1>2, PTL DEF Spec

\* rtc.c and clock.c: registers are bytes, and every variable keeps its type.
THEOREM TimeTypes == ASSUME TimeAssumption PROVE Spec => []TypeOK
<1>1. Inv => TypeOK
  <2>1. Len(Fields) + 1 = 7
    BY DEF Fields
  <2> QED BY <2>1 DEF Inv, TypeInv, TypeOK
<1> QED BY <1>1, Invariance, PTL

\* rtc_read_time, time_get_weekday and update_system_time: the time read is one the
\* chip has shown, with its weekday, and from then on the clock follows the ticks.
THEOREM TimeStaysRight == ASSUME TimeAssumption PROVE Spec => []TimeIsRight
<1>1. Inv => TimeIsRight
  <2>1. SUFFICES ASSUME Inv PROVE TimeIsRight
    OBVIOUS
  <2>2. TimeIsWhole
    BY <2>1 DEF Inv, WholeInv
  <2>3. ClockFollowsTicks
    <3>1. SUFFICES ASSUME stage = "done" PROVE ClockFollowsTicks
      BY DEF ClockFollowsTicks
    <3>2. /\ Good(system_time) /\ system_time \in SystemTimes /\ start \in SystemTimes
          /\ Total(system_time) = Total(start) + MSEC_PER_TICK * ticks
          /\ system_time.weekday - system_time.time["day"] = start.weekday - start.time["day"]
      BY <2>1, <3>1 DEF Inv, TickInv, Good
    <3>3. /\ system_time.time["day"] \in Nat /\ start.time["day"] \in Nat
          /\ system_time.weekday \in Nat /\ start.weekday \in Nat
          /\ MSEC_PER_TICK * ticks \in Nat
      BY <2>1, <3>2, FieldTypes DEF Inv, TypeInv, TimeAssumption
    <3>4. Msec(system_time) \in Nat /\ Msec(start) \in Nat
      BY <3>2, FieldTypes DEF Msec
    <3>5. system_time.time["hour"] < 24
      BY <3>2 DEF Good
    <3> QED BY <3>2, <3>3, <3>4, <3>5 DEF ClockFollowsTicks, Total
  <2> QED BY <2>2, <2>3 DEF TimeIsRight
<1> QED BY <1>1, Invariance, PTL
==============================================================================
