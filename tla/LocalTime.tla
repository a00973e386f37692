----------------------------- MODULE LocalTime ------------------------------
(***************************************************************************)
(* Calendar arithmetic of crates/core/src/localtime.rs: the check a wall-  *)
(* clock string must pass, the civil date of a day number, and the Sunday  *)
(* 20:00 anchors of the weekly Project review.  Day 0 is 1970-01-01.       *)
(***************************************************************************)
EXTENDS Integers

JulianLeapYear(year) == year % 4 = 0

IsLeapYear(year) ==
    (year % 4 = 0 /\ year % 100 # 0) \/ year % 400 = 0

DaysInMonth(year, month) ==
    CASE month \in {1, 3, 5, 7, 8, 10, 12} -> 31
      [] month \in {4, 6, 9, 11} -> 30
      [] month = 2 -> IF IsLeapYear(year) THEN 29 ELSE 28
      [] OTHER -> 0

\* The fields of a wall-clock string that parse_local_datetime accepts; its
\* year has four digits.
ParseLocalDatetime(date) ==
    /\ date[1] \in 0..9999
    /\ date[2] \in 1..12
    /\ date[3] \in 1..DaysInMonth(date[1], date[2])

\* Rust's division truncates towards zero.
Quotient(a, b) == IF a >= 0 THEN a \div b ELSE -((-a) \div b)

\* An era is 400 years; its years, and their days, count from a first of March.
YearOfEra(doe) == (doe - doe \div 1460 + doe \div 36524 - doe \div 146096) \div 365
DayOfYear(doe) ==
    LET yoe == YearOfEra(doe)
    IN  doe - (365 * yoe + yoe \div 4 - yoe \div 100)

CivilDate(year, doy) ==
    LET mp == (5 * doy + 2) \div 153
        month == IF mp < 10 THEN mp + 3 ELSE mp - 9
    IN  <<year + (IF month <= 2 THEN 1 ELSE 0), month, doy - (153 * mp + 2) \div 5 + 1>>

CivilFromDays(days) ==
    LET z == days + 719468
        era == Quotient(IF z >= 0 THEN z ELSE z - 146096, 146097)
        doe == z - era * 146097
    IN  CivilDate(YearOfEra(doe) + era * 400, DayOfYear(doe))

\* Sunday is 0 and 1970-01-01 was a Thursday.
Weekday(day) == ((day % 7) + 4) % 7

\* The first review of a new Project: this very Sunday, if it is not yet 20:00.
NextReviewAtLocal(day, evening) ==
    IF Weekday(day) # 0 THEN day + 7 - Weekday(day)
                        ELSE IF evening THEN day + 7 ELSE day

\* The review after one that was just done.
AdvanceSameSunday(day) == IF Weekday(day) = 0 THEN day ELSE day + 7 - Weekday(day)

AdvanceReviewAtLocal(day) == day + 7 - Weekday(day)
=============================================================================
