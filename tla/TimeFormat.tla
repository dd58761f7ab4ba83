----------------------------- MODULE TimeFormat -----------------------------
(***************************************************************************)
(* The date and time at the head of a line (format.rs): TimeCache keeps    *)
(* the text of the last second it was asked for, and split_utc computes    *)
(* month and day from the number of days since 1970-01-01 by integer       *)
(* divisions alone.  The reference is the calendar itself, kept by walking *)
(* it day by day.                                                          *)
(*                                                                         *)
(* A second is the pair of its day and its second of the day, its          *)
(* div_euclid and rem_euclid by 86,400.  The text is abstracted to the     *)
(* numbers in its five fields of two digits.                               *)
(***************************************************************************)
EXTENDS Integers

CONSTANTS
  Sods,    \* the seconds of a day at which records are formatted
  LastDay  \* bound of the model: the last day

ASSUME SodsAssumption == \A s \in Sods : s \in Nat /\ s < 86400
ASSUME LastDayAssumption == LastDay \in Nat

VARIABLES
  today,     \* days since 1970-01-01
  date,      \* history: the calendar's year, month and day
  sec, buf,  \* the TimeCache
  shown      \* the time in the line formatted last on this day, and its instant

vars == <<today, date, sec, buf, shown>>

Never == [day |-> -1, sod |-> 0]  \* i64::MAX, no second of the model
NoLine == [sod |-> -1]

Zeros == [month |-> 0, day |-> 0, hour |-> 0, minute |-> 0, second |-> 0]

Init ==
  /\ today = 0 /\ date = [year |-> 1970, month |-> 1, day |-> 1]
  /\ sec = Never /\ buf = Zeros
  /\ shown = NoLine

-----------------------------------------------------------------------------
(* The calendar.                                                           *)

Leap(y) == y % 4 = 0 /\ (y % 100 # 0 \/ y % 400 = 0)

DaysIn(y, m) ==
  CASE m \in {4, 6, 9, 11} -> 30
    [] m = 2 -> IF Leap(y) THEN 29 ELSE 28
    [] OTHER -> 31

Tomorrow ==
  IF date.day < DaysIn(date.year, date.month) THEN [date EXCEPT !.day = @ + 1]
  ELSE IF date.month < 12 THEN [year |-> date.year, month |-> date.month + 1, day |-> 1]
  ELSE [year |-> date.year + 1, month |-> 1, day |-> 1]

(* Bound of the model: no day passes without a record. *)
NextDay ==
  /\ today < LastDay
  /\ shown # NoLine
  /\ today' = today + 1
  /\ date' = Tomorrow
  /\ shown' = NoLine
  /\ UNCHANGED <<sec, buf>>

-----------------------------------------------------------------------------
(* The code.                                                               *)

(* Mutant: centuries are leap years. *)
YearOfEra_Julian(doe) == (doe - (doe \div 1460)) \div 365

YearOfEra(doe) ==
  (doe - (doe \div 1460) + (doe \div 36524) - (doe \div 146096)) \div 365

civil_from_days(days) ==
  LET z == days + 719468
      era == (IF z >= 0 THEN z ELSE z - 146096) \div 146097
      doe == z - era * 146097
      yoe == YearOfEra(doe)
      doy == doe - (365 * yoe + (yoe \div 4) - (yoe \div 100))
      mp == (5 * doy + 2) \div 153
  IN [month |-> IF mp < 10 THEN mp + 3 ELSE mp - 9,
      day |-> doy - ((153 * mp + 2) \div 5) + 1]

split_utc(s) ==
  [month |-> civil_from_days(s.day).month,
   day |-> civil_from_days(s.day).day,
   hour |-> s.sod \div 3600,
   minute |-> (s.sod % 3600) \div 60,
   second |-> s.sod % 60]

(* Mutant: the cache is good for a minute. *)
refresh_dt_PerMinute(s) ==
  LET curr_sec == [day |-> today, sod |-> s] IN
  /\ sec' = curr_sec
  /\ buf' = IF sec.day = today /\ sec.sod \div 60 = s \div 60 THEN buf ELSE split_utc(curr_sec)
  /\ shown' = [sod |-> s, text |-> buf']
  /\ UNCHANGED <<today, date>>

(* refresh_dt, for a record stamped in second s of the day; the clock may  *)
(* step back.                                                              *)
refresh_dt(s) ==
  LET curr_sec == [day |-> today, sod |-> s] IN
  /\ sec' = curr_sec
  /\ buf' = IF curr_sec = sec THEN buf ELSE split_utc(curr_sec)
  /\ shown' = [sod |-> s, text |-> buf']
  /\ UNCHANGED <<today, date>>

Next == NextDay \/ \E s \in Sods : refresh_dt(s)

Spec == Init /\ [][Next]_vars

-----------------------------------------------------------------------------
(* The date in a line is that of the calendar, through every leap day and  *)
(* every century: civil_from_days agrees with counting the days.           *)
ShowsDate ==
  shown # NoLine =>
    shown.text.month = date.month /\ shown.text.day = date.day

(* The time in a line is that of its own record, whatever second the cache *)
(* held before.                                                            *)
ShowsTime ==
  shown # NoLine =>
    LET t == shown.text IN
    /\ t.hour \in 0 .. 23 /\ t.minute \in 0 .. 59 /\ t.second \in 0 .. 59
    /\ (t.hour * 60 + t.minute) * 60 + t.second = shown.sod

-----------------------------------------------------------------------------
(* The inductive invariant behind these properties.                        *)

(* The calendar counted from 1 March of the year 0, as split_utc counts:   *)
(* years begin in March, so that the leap day is the last day of a year.   *)
MarchYear(d) == IF d.month > 2 THEN d.year ELSE d.year - 1
MarchMonth(d) == IF d.month > 2 THEN d.month - 3 ELSE d.month + 9

YearStart(y) == 365 * y + (y \div 4) - (y \div 100) + (y \div 400)
MonthStart(m) == (153 * m + 2) \div 5

CalendarInv ==
  /\ today \in Nat
  /\ date \in [year : Nat \ {0}, month : 1 .. 12, day : 1 .. 31]
  /\ date.day <= DaysIn(date.year, date.month)
  /\ today + 719468 = YearStart(MarchYear(date)) + MonthStart(MarchMonth(date)) + date.day - 1

(* The cache holds the text of the second it names, and the last line of   *)
(* the day is what it holds.                                               *)
CacheInv ==
  /\ sec \in [day : Int, sod : Int]
  /\ sec # Never => buf = split_utc(sec)
  /\ shown # NoLine =>
       /\ sec.day = today /\ sec.sod \in Sods
       /\ shown = [sod |-> sec.sod, text |-> buf]

IndInv == CalendarInv /\ CacheInv
=============================================================================
