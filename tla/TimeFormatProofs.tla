-------------------------- MODULE TimeFormatProofs --------------------------
(***************************************************************************)
(* Proofs about TimeFormat for all days to come: the divisions of          *)
(* split_utc agree with a calendar walked day by day, and the cache never  *)
(* shows another second.                                                   *)
(***************************************************************************)
EXTENDS TimeFormat, TLAPS

-----------------------------------------------------------------------------
(* Years and months that begin in March.                                   *)

(* The length of a year. *)
LEMMA YearLength ==
  ASSUME NEW y \in Nat
  PROVE  /\ YearStart(y) \in Nat
         /\ YearStart(y + 1) = YearStart(y) + (IF Leap(y + 1) THEN 366 ELSE 365)
BY DEF YearStart, Leap

(* Months have the lengths of the calendar, except for February, the last. *)
LEMMA MonthLength ==
  ASSUME NEW m \in 0 .. 10
  PROVE  /\ MonthStart(m) \in Nat
         /\ MonthStart(m + 1) = MonthStart(m) + (IF m \in {1, 3, 6, 8} THEN 30 ELSE 31)
BY DEF MonthStart

(* Day doy of year yoe of an era. *)
DayOfEra(yoe, doy) == 365 * yoe + (yoe \div 4) - (yoe \div 100) + doy

(* The year of a day of an era of 400 years.  A year of the era consists   *)
(* of c centuries, q times four years and r years.                         *)
LEMMA YearOfEraExact ==
  ASSUME NEW yoe \in 0 .. 399, NEW doy \in 0 .. 365,
         doy = 365 => Leap(yoe + 1)
  PROVE  YearOfEra(DayOfEra(yoe, doy)) = yoe
<1>. DEFINE c == yoe \div 100
            q == (yoe % 100) \div 4
            r == yoe % 4
<1>1. c \in 0 .. 3 /\ q \in 0 .. 24 /\ r \in 0 .. 3 /\ yoe = 100 * c + 4 * q + r
  OBVIOUS
<1>2. yoe \div 4 = 25 * c + q /\ yoe \div 100 = c
  BY <1>1
<1>3. doy = 365 => r = 3 /\ (q < 24 \/ c = 3)
  BY <1>1 DEF Leap
<1>. DEFINE doe == DayOfEra(yoe, doy)
<1>4. doe = 36524 * c + 1461 * q + 365 * r + doy
  BY <1>1, <1>2 DEF DayOfEra
<1>. HIDE DEF c, q, r, doe
<1>5. YearOfEra(doe) = yoe
  BY <1>1, <1>3, <1>4 DEF YearOfEra
<1>. QED BY <1>5 DEF doe

(* The month of a day of the year. *)
LEMMA MonthOfYearExact ==
  ASSUME NEW m \in 0 .. 11, NEW d \in 0 .. 30,
         m \in {1, 3, 6, 8} => d < 30, m = 11 => d < 29
  PROVE  (5 * (MonthStart(m) + d) + 2) \div 153 = m
BY DEF MonthStart

-----------------------------------------------------------------------------
(* civil_from_days.                                                        *)

(* Day d, from 0, of month m of year y. *)
DayNumber(y, m, d) == YearStart(y) + MonthStart(m) + d

(* The number of the day that is days after 1970-01-01. *)
Shifted(days) == days + 719468

(* It finds the month and the day of a date from its number. *)
LEMMA CivilExact ==
  ASSUME NEW y \in Nat, NEW m \in 0 .. 11, NEW d \in 0 .. 30, NEW days \in Nat,
         m \in {1, 3, 6, 8} => d < 30,
         m = 11 => d < 29 /\ (d = 28 => Leap(y + 1)),
         Shifted(days) = DayNumber(y, m, d)
  PROVE  civil_from_days(days) =
           [month |-> IF m < 10 THEN m + 3 ELSE m - 9, day |-> d + 1]
<1>. DEFINE z == Shifted(days)
            e == y \div 400
            yoe == y % 400
            doy == MonthStart(m) + d
            doe == DayOfEra(yoe, doy)
<1>1. /\ e \in Nat /\ yoe \in 0 .. 399 /\ y = 400 * e + yoe
      /\ y \div 4 = 100 * e + (yoe \div 4) /\ y \div 100 = 4 * e + (yoe \div 100)
  OBVIOUS
<1>2. doy \in 0 .. 365 /\ (doy = 365 => m = 11 /\ d = 28)
  BY DEF MonthStart
<1>3. doy = 365 => Leap(yoe + 1)
  BY <1>1, <1>2 DEF Leap
<1>4. z = YearStart(y) + doy
  BY <1>2, YearLength, SMT DEF MonthStart, DayNumber
<1>. HIDE DEF z, e, yoe, doy
<1>5. z = 146097 * e + doe
  <2>1. YearStart(y) = 146097 * e + 365 * yoe + (yoe \div 4) - (yoe \div 100)
    BY <1>1, SMT DEF YearStart
  <2>. QED BY <1>1, <1>2, <1>4, <2>1, SMT DEF DayOfEra
<1>6. doe \in Nat /\ doe < 146097
  BY <1>1, <1>2, <1>3, SMT DEF Leap, DayOfEra
<1>7. YearOfEra(doe) = yoe
  <2>1. yoe \in 0 .. 399
    BY <1>1
  <2>2. doy \in 0 .. 365
    BY <1>2
  <2>. QED BY <1>3, <2>1, <2>2, YearOfEraExact, ZenonT(60)
<1>8. (5 * doy + 2) \div 153 = m
  BY MonthOfYearExact, SMT DEF doy
<1>9. doe - (365 * yoe + (yoe \div 4) - (yoe \div 100)) = doy
  BY <1>1, <1>2, SMT DEF DayOfEra
<1>10. doy - ((153 * m + 2) \div 5) + 1 = d + 1
  BY SMT DEF MonthStart, doy
<1>. HIDE DEF doe
<1>11. z \in Nat /\ z \div 146097 = e /\ z - e * 146097 = doe
  BY <1>1, <1>5, <1>6, SMT
<1>12. civil_from_days(days) =
         [month |-> IF m < 10 THEN m + 3 ELSE m - 9,
          day |-> doy - ((153 * m + 2) \div 5) + 1]
  BY <1>7, <1>8, <1>9, <1>11, SMT DEF civil_from_days, z, Shifted
<1>. QED BY <1>10, <1>12, SMT

(* On the day the calendar has reached, it gives the calendar's date. *)
LEMMA CivilOfToday ==
  ASSUME CalendarInv
  PROVE  civil_from_days(today) = [month |-> date.month, day |-> date.day]
<1>. DEFINE y == MarchYear(date)
            m == MarchMonth(date)
            d == date.day - 1
<1>1. /\ date.year \in Nat \ {0} /\ date.month \in 1 .. 12 /\ date.day \in 1 .. 31
      /\ date.day <= DaysIn(date.year, date.month) /\ today \in Nat
  BY DEF CalendarInv
<1>2. y \in Nat /\ m \in 0 .. 11 /\ d \in 0 .. 30
  BY <1>1 DEF MarchYear, MarchMonth
<1>3. m \in {1, 3, 6, 8} => d < 30
  BY <1>1 DEF MarchMonth, DaysIn
<1>4. m = 11 => d < 29 /\ (d = 28 => Leap(y + 1))
  BY <1>1 DEF MarchMonth, MarchYear, DaysIn
<1>5. Shifted(today) = DayNumber(y, m, d)
  BY <1>1, <1>2, YearLength, SMT DEF CalendarInv, MonthStart, DayNumber, Shifted
<1>6. date.month = (IF m < 10 THEN m + 3 ELSE m - 9) /\ date.day = d + 1
  BY <1>1 DEF MarchMonth
<1>. HIDE DEF y, m, d
<1>7. civil_from_days(today) =
        [month |-> IF m < 10 THEN m + 3 ELSE m - 9, day |-> d + 1]
  BY <1>1, <1>2, <1>3, <1>4, <1>5, CivilExact, Zenon
<1>. QED BY <1>6, <1>7

-----------------------------------------------------------------------------
(* The calendar's next day has the next number.                            *)

(* The number of a date, as CalendarInv has it. *)
Number(y, m, d) ==
  YearStart(IF m > 2 THEN y ELSE y - 1) + MonthStart(IF m > 2 THEN m - 3 ELSE m + 9) + d - 1

(* The first of the next month follows the last of this one. *)
LEMMA NextMonth ==
  ASSUME NEW y \in Nat \ {0}, NEW m \in 1 .. 11
  PROVE  Number(y, m + 1, 1) = Number(y, m, DaysIn(y, m)) + 1
<1>1. CASE m = 1
  BY <1>1, YearLength DEF Number, MonthStart, DaysIn
<1>2. CASE m = 2
  <2>1. YearStart(y) = YearStart(y - 1) + (IF Leap(y) THEN 366 ELSE 365) /\ YearStart(y - 1) \in Nat
    <3>1. y - 1 \in Nat /\ (y - 1) + 1 = y
      OBVIOUS
    <3>. QED BY <3>1, YearLength
  <2>2. MonthStart(0) = 0 /\ MonthStart(11) = 337
    BY DEF MonthStart
  <2>3. Number(y, 3, 1) = YearStart(y)
    BY <2>1, <2>2 DEF Number
  <2>4. Number(y, 2, DaysIn(y, 2)) = YearStart(y - 1) + 336 + (IF Leap(y) THEN 29 ELSE 28)
    BY <2>1, <2>2 DEF Number, DaysIn
  <2>. QED BY <1>2, <2>1, <2>3, <2>4
<1>3. CASE m > 2
  <2>1. YearStart(y) \in Nat
    BY YearLength
  <2>2. MonthStart(m - 2) = MonthStart(m - 3) + DaysIn(y, m) /\ MonthStart(m - 3) \in Nat
    BY <1>3 DEF MonthStart, DaysIn
  <2>3. /\ Number(y, m + 1, 1) = YearStart(y) + MonthStart(m - 2) + 1 - 1
        /\ Number(y, m, DaysIn(y, m)) = YearStart(y) + MonthStart(m - 3) + DaysIn(y, m) - 1
    BY <1>3 DEF Number
  <2>4. DaysIn(y, m) \in Nat
    BY DEF DaysIn
  <2>. QED BY <2>1, <2>2, <2>3, <2>4
<1>. QED BY <1>1, <1>2, <1>3

(* 1 January follows 31 December. *)
LEMMA NextYear ==
  ASSUME NEW y \in Nat
  PROVE  Number(y + 1, 1, 1) = Number(y, 12, 31) + 1
BY YearLength DEF Number, MonthStart

LEMMA TomorrowInv ==
  ASSUME CalendarInv, today' = today + 1, date' = Tomorrow
  PROVE  CalendarInv'
<1>. DEFINE y == date.year
            m == date.month
            d == date.day
            Type == [year : Nat \ {0}, month : 1 .. 12, day : 1 .. 31]
<1>1. /\ y \in Nat \ {0} /\ m \in 1 .. 12 /\ d \in 1 .. 31 /\ d <= DaysIn(y, m)
      /\ today \in Nat /\ date = [year |-> y, month |-> m, day |-> d]
  BY DEF CalendarInv
<1>2. today + 719468 = Number(y, m, d)
  BY DEF CalendarInv, Number, MarchYear, MarchMonth
<1>3. /\ date' \in Type /\ date'.day <= DaysIn(date'.year, date'.month)
      /\ today' + 719468 = Number(date'.year, date'.month, date'.day)
  <2>1. CASE d < DaysIn(y, m)
    <3>1. date' = [year |-> y, month |-> m, day |-> d + 1]
      BY <1>1, <2>1 DEF Tomorrow
    <3>2. d + 1 \in 1 .. 31 /\ d + 1 <= DaysIn(y, m)
      BY <1>1, <2>1 DEF DaysIn
    <3>3. Number(y, m, d + 1) = Number(y, m, d) + 1
      <4>1. YearStart(IF m > 2 THEN y ELSE y - 1) \in Int
        BY <1>1, YearLength
      <4>2. MonthStart(IF m > 2 THEN m - 3 ELSE m + 9) \in Int
        BY <1>1 DEF MonthStart
      <4>. QED BY <1>1, <4>1, <4>2 DEF Number
    <3>. HIDE DEF y, m, d
    <3>. QED BY <1>1, <1>2, <3>1, <3>2, <3>3
  <2>2. CASE ~(d < DaysIn(y, m)) /\ m < 12
    <3>1. date' = [year |-> y, month |-> m + 1, day |-> 1]
      BY <2>2 DEF Tomorrow
    <3>2. d = DaysIn(y, m)
      BY <1>1, <2>2 DEF DaysIn
    <3>3. Number(y, m + 1, 1) = Number(y, m, d) + 1
      BY <1>1, <2>2, <3>2, NextMonth
    <3>4. 1 <= DaysIn(y, m + 1)
      BY DEF DaysIn
    <3>. HIDE DEF y, m, d
    <3>. QED BY <1>1, <1>2, <2>2, <3>1, <3>3, <3>4
  <2>3. CASE ~(d < DaysIn(y, m)) /\ m = 12
    <3>1. date' = [year |-> y + 1, month |-> 1, day |-> 1]
      BY <1>1, <2>3 DEF Tomorrow
    <3>2. d = 31
      BY <1>1, <2>3 DEF DaysIn
    <3>3. Number(y + 1, 1, 1) = Number(y, m, d) + 1
      BY <1>1, <2>3, <3>2, NextYear
    <3>4. 1 <= DaysIn(y + 1, 1)
      BY DEF DaysIn
    <3>. HIDE DEF y, m, d
    <3>. QED BY <1>1, <1>2, <3>1, <3>3, <3>4
  <2>. QED BY <1>1, <2>1, <2>2, <2>3
<1>. QED BY <1>1, <1>3 DEF CalendarInv, Number, MarchYear, MarchMonth

-----------------------------------------------------------------------------
(* The invariant.                                                          *)

LEMMA InitInv == Init => IndInv
<1>. SUFFICES ASSUME Init PROVE IndInv
  OBVIOUS
<1>1. YearStart(1969) + MonthStart(10) + 1 - 1 = 719468
  BY DEF YearStart, MonthStart
<1>2. CalendarInv
  BY <1>1 DEF Init, CalendarInv, MarchYear, MarchMonth, DaysIn
<1>3. CacheInv
  BY DEF Init, CacheInv, Never
<1>. QED BY <1>2, <1>3 DEF IndInv

LEMMA NextDayInv ==
  ASSUME IndInv, NextDay
  PROVE  IndInv'
<1>1. CalendarInv'
  BY TomorrowInv DEF IndInv, NextDay
<1>2. CacheInv'
  BY DEF IndInv, CacheInv, NextDay
<1>. QED BY <1>1, <1>2 DEF IndInv

LEMMA RefreshDtInv ==
  ASSUME IndInv, NEW s \in Sods, refresh_dt(s)
  PROVE  IndInv'
<1>. DEFINE c == [day |-> today, sod |-> s]
<1>1. s \in Nat /\ today \in Nat
  BY SodsAssumption DEF IndInv, CalendarInv
<1>2. /\ sec' = c /\ buf' = (IF c = sec THEN buf ELSE split_utc(c))
      /\ shown' = [sod |-> s, text |-> buf'] /\ UNCHANGED <<today, date>>
  BY DEF refresh_dt
<1>3. c # Never /\ c \in [day : Int, sod : Int]
  <2>1. c.day = today /\ Never.day = -1
    BY DEF Never
  <2>. QED BY <1>1, <2>1
<1>4. buf' = split_utc(c)
  BY <1>2, <1>3 DEF IndInv, CacheInv
<1>5. CalendarInv'
  BY <1>2 DEF IndInv, CalendarInv
<1>6. CacheInv'
  BY <1>2, <1>3, <1>4 DEF CacheInv
<1>. QED BY <1>5, <1>6 DEF IndInv

LEMMA NextInv == IndInv /\ [Next]_vars => IndInv'
<1>. SUFFICES ASSUME IndInv, [Next]_vars PROVE IndInv'
  OBVIOUS
<1>1. CASE UNCHANGED vars
  BY <1>1 DEF vars, IndInv, CalendarInv, CacheInv
<1>. QED BY <1>1, NextDayInv, RefreshDtInv DEF Next

-----------------------------------------------------------------------------
(* The theorems.                                                           *)

(* The calendar and the cache of TimeCache agree with the day's number for *)
(* ever.                                                                   *)
THEOREM Invariance == Spec => []IndInv
<1>. QED BY InitInv, NextInv, PTL DEF Spec

(* split_utc shows the calendar's date on every day from 1970 on, not only *)
(* in the 400 years the model checker walks through.                       *)
THEOREM DateIsRight == Spec => []ShowsDate
<1>1. IndInv => ShowsDate
  <2>. SUFFICES ASSUME IndInv, shown # NoLine
                PROVE  shown.text.month = date.month /\ shown.text.day = date.day
    BY DEF ShowsDate
  <2>1. sec # Never /\ sec.day = today /\ shown.text = split_utc(sec)
    BY DEF IndInv, CacheInv, CalendarInv, Never
  <2>2. /\ split_utc(sec).month = civil_from_days(today).month
        /\ split_utc(sec).day = civil_from_days(today).day
    BY <2>1 DEF split_utc
  <2>. QED BY <2>1, <2>2, CivilOfToday DEF IndInv
<1>. QED BY <1>1, Invariance, PTL

(* The time in a line is that of its own record, for all seconds of a day. *)
THEOREM TimeIsRight == Spec => []ShowsTime
<1>1. IndInv => ShowsTime
  <2>. SUFFICES ASSUME IndInv, shown # NoLine PROVE ShowsTime
    BY DEF ShowsTime
  <2>1. sec # Never /\ shown.text = split_utc(sec) /\ shown.sod = sec.sod
    BY DEF IndInv, CacheInv, CalendarInv, Never
  <2>2. sec.sod \in Nat /\ sec.sod < 86400
    BY SodsAssumption DEF IndInv, CacheInv
  <2>. DEFINE s == sec.sod
  <2>3. /\ split_utc(sec).hour = s \div 3600
        /\ split_utc(sec).minute = (s % 3600) \div 60
        /\ split_utc(sec).second = s % 60
    BY DEF split_utc
  <2>. HIDE DEF s
  <2>4. /\ s \div 3600 \in 0 .. 23 /\ (s % 3600) \div 60 \in 0 .. 59 /\ s % 60 \in 0 .. 59
        /\ ((s \div 3600) * 60 + ((s % 3600) \div 60)) * 60 + (s % 60) = s
    BY <2>2 DEF s
  <2>. QED BY <2>1, <2>3, <2>4 DEF ShowsTime, s
<1>. QED BY <1>1, Invariance, PTL
=============================================================================
