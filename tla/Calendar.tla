------------------------------- MODULE Calendar -------------------------------
(***************************************************************************)
(* Days and dates (crates/rm-host/src/time.rs), walked a day at a time     *)
(* from a year known, both ways, by the rule anyone knows: a month has its *)
(* days, and a year its months. A part of a written date is how many       *)
(* characters it has and the number they say; a sign is one of them, and   *)
(* a plus is read. Left out: the wording of refusals.                      *)
(***************************************************************************)
EXTENDS Integers

CONSTANTS
  MsPerDay,
  Spans,   \* bound: the days walked, from the first of a span to its last
  Cycles   \* bound: the 400 years, counted from 1970, each walk begins in

ASSUME CalendarAssumption ==
  MsPerDay \in Nat \ {0} /\ Spans \subseteq Int \X Int /\ Cycles \subseteq Int

Date(y, m, d) == [y |-> y, m |-> m, d |-> d]

IsLeap(y) == y % 4 = 0 /\ (y % 100 # 0 \/ y % 400 = 0)

DaysInMonth(y, m) ==
  IF m \in {4, 6, 9, 11} THEN 30
  ELSE IF m # 2 THEN 31
  ELSE IF IsLeap(y) THEN 29 ELSE 28

(* Years begin in March, and eras of 400 of them repeat.                   *)
CivilFromDays(days) ==
  LET z == days + 719468
      era == z \div 146097
      doe == z % 146097
      yoe == (doe - doe \div 1460 + doe \div 36524 - doe \div 146096) \div 365
      doy == doe - (365 * yoe + yoe \div 4 - yoe \div 100)
      mp == (5 * doy + 2) \div 153
      m == IF mp < 10 THEN mp + 3 ELSE mp - 9
  IN Date(yoe + era * 400 + (IF m <= 2 THEN 1 ELSE 0), m, doy - (153 * mp + 2) \div 5 + 1)

DaysFromCivil(date) ==
  LET y == IF date.m <= 2 THEN date.y - 1 ELSE date.y
      yoe == y % 400
      mp == IF date.m > 2 THEN date.m - 3 ELSE date.m + 9
      doy == (153 * mp + 2) \div 5 + date.d - 1
  IN (y \div 400) * 146097 + yoe * 365 + yoe \div 4 - yoe \div 100 + doy - 719468

(* Mutant: the day of an instant before the epoch is rounded towards it.   *)
DayOfTruncated(ms) ==
  CivilFromDays(IF ms >= 0 THEN ms \div MsPerDay ELSE -((-ms) \div MsPerDay))

DayOf(ms) == CivilFromDays(ms \div MsPerDay)

(* format_day, and parse_day of three parts: {} is a refusal.              *)
Digits(n) == IF n < 10 THEN 1 ELSE IF n < 100 THEN 2 ELSE IF n < 1000 THEN 3 ELSE IF n < 10000 THEN 4 ELSE 5
Padded(n, width) ==
  [width |-> IF n >= 0 THEN (IF Digits(n) > width THEN Digits(n) ELSE width)
             ELSE IF Digits(-n) + 1 > width THEN Digits(-n) + 1 ELSE width, says |-> n]
FormatDay(ms) ==
  LET date == DayOf(ms) IN [y |-> Padded(date.y, 4), m |-> Padded(date.m, 2), d |-> Padded(date.d, 2)]

Reads(text) == text.y.width = 4 /\ text.m.width = 2 /\ text.d.width = 2 /\ text.y.says >= 0
Exists(date) == date.m \in 1..12 /\ 1 <= date.d /\ date.d <= DaysInMonth(date.y, date.m)

ParseDay(text) ==
  LET date == Date(text.y.says, text.m.says, text.d.says)
  IN IF Reads(text) /\ Exists(date) THEN {DaysFromCivil(date) * MsPerDay} ELSE {}
ParseDayEnd(text) == {start + MsPerDay - 1 : start \in ParseDay(text)}

-----------------------------------------------------------------------------
VARIABLES
  day,  \* days since the epoch
  date  \* the same day, by counting

calendar == <<day, date>>

Walked(d) == \E span \in Spans : span[1] <= d /\ d <= span[2]

(* Four hundred years are 97 leap years and 303 others, in any calendar    *)
(* that has their rule, and a whole number of days.                        *)
CalendarInit ==
  \E c \in Cycles : day = c * (97 * 366 + 303 * 365) /\ date = Date(1970 + 400 * c, 1, 1)

LastOfMonth(t) == (CASE t.m = 2 -> 28 [] t.m \in {4, 6, 9, 11} -> 30 [] OTHER -> 31)
                    + (IF t.m = 2 /\ t.y % 4 = 0 /\ (t.y % 100 # 0 \/ t.y % 400 = 0) THEN 1 ELSE 0)

Tomorrow ==
  /\ Walked(day + 1) /\ day' = day + 1
  /\ date' = IF date.d < LastOfMonth(date) THEN [date EXCEPT !.d = @ + 1]
             ELSE IF date.m < 12 THEN Date(date.y, date.m + 1, 1)
             ELSE Date(date.y + 1, 1, 1)

Yesterday ==
  /\ Walked(day - 1) /\ day' = day - 1
  /\ date' = IF date.d > 1 THEN [date EXCEPT !.d = @ - 1]
             ELSE IF date.m > 1 THEN Date(date.y, date.m - 1, LastOfMonth(Date(date.y, date.m - 1, 1)))
             ELSE Date(date.y - 1, 12, 31)

CalendarStep == Tomorrow \/ Yesterday

-----------------------------------------------------------------------------
FourDigitYear == 0 <= date.y /\ date.y <= 9999

(* A day has the date that counting gives it, and that date that day; any  *)
(* instant of a day, before the epoch too, is shown as its date. What is   *)
(* shown can be given back, while its year has four digits, and then means *)
(* from the first instant of the day to its last; the day after the last   *)
(* of a month is refused.                                                  *)
DaysAndDatesAgree ==
  LET text == FormatDay(day * MsPerDay)
      over == [text EXCEPT !.d.says = LastOfMonth(date) + 1]
  IN /\ CivilFromDays(day) = date /\ DaysFromCivil(date) = day
     /\ \A ms \in 0..(MsPerDay - 1) : DayOf(day * MsPerDay + ms) = date
     /\ FourDigitYear =>
          ParseDay(text) = {day * MsPerDay} /\ ParseDayEnd(text) = {(day + 1) * MsPerDay - 1}
     /\ ParseDay(over) = {}
=============================================================================
