-------------------------------- MODULE Date --------------------------------
(***************************************************************************)
(* pallette/Date.cpp and the UTC half of TimeZone.cpp: Julian day numbers, *)
(* walked day by day beside a calendar that is counted with the lengths of *)
(* the months.  Division is that of C++: every dividend is positive here,  *)
(* except in toUtcTime(), which corrects it.                               *)
(***************************************************************************)
EXTENDS Integers

CONSTANTS FirstDate, LastYear   \* bound: the days walked, FirstDate = <<year, month, day>>

GetJulianDayNumber(year, month, day) ==
    LET a == (14 - month) \div 12
        y == year + 4800 - a
        m == month + 12 * a - 3
    IN  day + (153 * m + 2) \div 5 + y * 365 + y \div 4 - y \div 100 + y \div 400 - 32045

-----------------------------------------------------------------------------
(* A wrong variant: the four centuries of a cycle are taken to be equal.    *)

CenturyBreak(julianDayNumber) ==
    LET a == julianDayNumber + 32044
        b == a \div 36524
        c == a - (b * 146097) \div 4
        d == (4 * c + 3) \div 1461
        e == c - (1461 * d) \div 4
        m == (5 * e + 2) \div 153
    IN  <<b * 100 + d - 4800 + m \div 10, m + 3 - 12 * (m \div 10),
          e - (153 * m + 2) \div 5 + 1>>

-----------------------------------------------------------------------------
GetYearMonthDay(julianDayNumber) ==
    LET a == julianDayNumber + 32044
        b == (4 * a + 3) \div 146097
        c == a - (b * 146097) \div 4
        d == (4 * c + 3) \div 1461
        e == c - (1461 * d) \div 4
        m == (5 * e + 2) \div 153
    IN  <<b * 100 + d - 4800 + m \div 10, m + 3 - 12 * (m \div 10),
          e - (153 * m + 2) \div 5 + 1>>

WeekDay(julianDayNumber) == (julianDayNumber + 1) % 7

JulianDayOf1970 == GetJulianDayNumber(1970, 1, 1)
SecondsPerDay == 24 * 60 * 60

\* The remainder and the quotient of C++, which round towards zero
CRem(a, b) == IF a >= 0 THEN a % b ELSE -((-a) % b)
CDiv(a, b) == IF a >= 0 THEN a \div b ELSE -((-a) \div b)

\* toUtcTime() with fillHMS(), and fromUtcTime()
ToUtcTime(t) ==
    LET neg == CRem(t, SecondsPerDay) < 0
        seconds == CRem(t, SecondsPerDay) + IF neg THEN SecondsPerDay ELSE 0
        days == CDiv(t, SecondsPerDay) - IF neg THEN 1 ELSE 0
        jdn == days + JulianDayOf1970
        ymd == GetYearMonthDay(jdn)
    IN  [date |-> ymd, wday |-> WeekDay(jdn), yday |-> jdn - GetJulianDayNumber(ymd[1], 1, 1),
         time |-> <<(seconds \div 60) \div 60, (seconds \div 60) % 60, seconds % 60>>]

FromUtcTime(tm) ==
    (GetJulianDayNumber(tm.date[1], tm.date[2], tm.date[3]) - JulianDayOf1970) * SecondsPerDay
        + tm.time[1] * 3600 + tm.time[2] * 60 + tm.time[3]

-----------------------------------------------------------------------------
VARIABLES
    julian,     \* julianDayNumber_
    calendar    \* the same day, counted: <<year, month, day>>, weekday, day of the year

dateVars == <<julian, calendar>>

IsLeap(year) == year % 4 = 0 /\ (year % 100 # 0 \/ year % 400 = 0)

MonthLength(year, month) ==
    CASE month = 2 -> IF IsLeap(year) THEN 29 ELSE 28
      [] month \in {4, 6, 9, 11} -> 30
      [] OTHER -> 31

ASSUME DateAssumption ==
    /\ FirstDate \in (1900..2500) \X (1..12) \X (1..31)
    /\ FirstDate[3] <= MonthLength(FirstDate[1], FirstDate[2])    \* a day that exists
    /\ LastYear \in 1900..2500

DateInit ==
    /\ julian = GetJulianDayNumber(FirstDate[1], FirstDate[2], FirstDate[3])
    /\ calendar = [date |-> FirstDate, wday |-> WeekDay(julian),
                   yday |-> julian - GetJulianDayNumber(FirstDate[1], 1, 1)]

NextDay ==
    LET y == calendar.date[1]
        m == calendar.date[2]
        d == calendar.date[3]
        tomorrow == CASE d < MonthLength(y, m) -> <<y, m, d + 1>>
                      [] d = MonthLength(y, m) /\ m < 12 -> <<y, m + 1, 1>>
                      [] OTHER -> <<y + 1, 1, 1>>
    IN  /\ y <= LastYear
        /\ julian' = julian + 1
        /\ calendar' = [date |-> tomorrow, wday |-> (calendar.wday + 1) % 7,
                        yday |-> IF tomorrow[1] = y THEN calendar.yday + 1 ELSE 0]

DateSpec == DateInit /\ [][NextDay]_dateVars

-----------------------------------------------------------------------------
\* Bounds: the days from 1970 whose seconds fit 32 bits, and the seconds of a day tried
UtcDays == -24000..24000
UtcSeconds == {0, 59, 3600, SecondsPerDay - 1}

\* The second s of the day, taken apart and put together again
UtcTimeReturns(s) ==
    LET t == (julian - JulianDayOf1970) * SecondsPerDay + s
        tm == ToUtcTime(t)
    IN  /\ [date |-> tm.date, wday |-> tm.wday, yday |-> tm.yday] = calendar
        /\ FromUtcTime(tm) = t

\* On every day of the range the conversions agree with the calendar in both
\* directions, leap years, ends of centuries and days before 1970 included, and
\* a time of that day, its first and its last second among them, is taken apart
\* and put together again by toUtcTime() and fromUtcTime().
DatesMatchCalendar ==
    LET ymd == calendar.date
    IN  /\ GetYearMonthDay(julian) = ymd
        /\ GetJulianDayNumber(ymd[1], ymd[2], ymd[3]) = julian
        /\ julian - JulianDayOf1970 \in UtcDays => \A s \in UtcSeconds : UtcTimeReturns(s)

=============================================================================
