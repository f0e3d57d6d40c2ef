------------------------------ MODULE Calendar ------------------------------
(***************************************************************************)
(* The dates of the notes: streak, current week, month, and the squares of *)
(* the month view (DatabaseManager, CalendarHelper, StreakVC).             *)
(*                                                                         *)
(* A day is a number, day 0 being 1 January 1970; the text "yyyy-M-d" a    *)
(* row stores names one day and is compared as such.  rows is the sequence *)
(* of the dates of the notes, which repeat on days with several notes.     *)
(***************************************************************************)
EXTENDS Integers, Sequences, FiniteSets, FiniteSetsExt

---------------------------------------------------------------------------
(* Foundation's Gregorian calendar, external.                              *)

Leap(year) == year % 4 = 0 /\ (year % 100 # 0 \/ year % 400 = 0)

MonthLength(year, month) ==
  CASE month = 2                -> IF Leap(year) THEN 29 ELSE 28
    [] month \in {4, 6, 9, 11}  -> 30
    [] OTHER                    -> 31

\* The days from 1 January 1970 to a date: leap days fall at the end of a
\* year that begins in March.
DayNumber(date) ==
  LET y == IF date.month <= 2 THEN date.year - 1 ELSE date.year
      m == (date.month + 9) % 12
  IN  365 * y + y \div 4 - y \div 100 + y \div 400
        + (153 * m + 2) \div 5 + date.day - 719469

\* Calendar.component(.weekday): 1 is Sunday.
weekday(day) == ((day + 4) % 7) + 1

\* Swift's % takes the sign of its left operand.
Remainder(x, n) == IF x >= 0 THEN x % n ELSE 0 - ((0 - x) % n)

---------------------------------------------------------------------------
(* DatabaseManager.                                                        *)

isDateExist(rows, day) == \E i \in DOMAIN rows : rows[i] = day

\* The loop goes back from yesterday to the first day without a note.
DaysBack(rows, today) ==
  Min({k \in 0 .. Len(rows) : ~isDateExist(rows, today - 1 - k)})

\* Mutants: the loop starts today; every note counts.
streakFromToday(rows, today) == DaysBack(rows, today + 1)
streakOfNotes(rows, today) ==
  Cardinality({i \in DOMAIN rows : rows[i] \in today - DaysBack(rows, today) .. today})

calculateStreak(rows, today) ==
  (IF isDateExist(rows, today) THEN 1 ELSE 0) + DaysBack(rows, today)

\* Mutant: the week starts today.
weekFromToday(rows, today, firstWeekday) ==
  [i \in 1..7 |-> [date |-> today + i - 1, hasNote |-> isDateExist(rows, today + i - 1)]]

startOfWeek(today, firstWeekday) == today - Remainder(weekday(today) - firstWeekday, 7)

getCurrentWeekData(rows, today, firstWeekday) ==
  LET start == startOfWeek(today, firstWeekday)
  IN  [i \in 1..7 |-> [date    |-> start + i - 1,
                       hasNote |-> isDateExist(rows, start + i - 1)]]

---------------------------------------------------------------------------
(* CalendarHelper: a date is [year, month, day].                           *)

firstOfMonth(date) == [date EXCEPT !.day = 1]
daysInMonth(date)  == MonthLength(date.year, date.month)

\* Calendar.date(byAdding: .month): the day is cut to the month's length.
OnMonth(date, year, month) ==
  [year |-> year, month |-> month, day |-> Min({date.day, MonthLength(year, month)})]

\* Mutants: the day is kept; December is followed by January of its year.
plusMonthUncut(date) ==
  IF date.month = 12 THEN [date EXCEPT !.year = @ + 1, !.month = 1]
                     ELSE [date EXCEPT !.month = @ + 1]
plusMonthSameYear(date) == OnMonth(date, date.year, (date.month % 12) + 1)

plusMonth(date) ==
  IF date.month = 12 THEN OnMonth(date, date.year + 1, 1)
                     ELSE OnMonth(date, date.year, date.month + 1)

minusMonth(date) ==
  IF date.month = 1 THEN OnMonth(date, date.year - 1, 12)
                    ELSE OnMonth(date, date.year, date.month - 1)

\* weekDay: 0 is Sunday.
weekDay(day) == weekday(day) - 1

InMonth(date) == LET first == DayNumber(firstOfMonth(date))
                 IN  first .. first + daysInMonth(date) - 1

countNotesInMonth(rows, date) == Cardinality({i \in DOMAIN rows : rows[i] \in InMonth(date)})

---------------------------------------------------------------------------
(* StreakVC.                                                               *)

\* A square is empty, or shows a day.
Squares(first, days, spaces) ==
  [k \in 1 .. days + spaces |-> IF k <= spaces THEN {} ELSE {first + k - spaces - 1}]

\* Mutant: one empty square too many.
squaresShifted(date) ==
  LET first == DayNumber(firstOfMonth(date))
  IN  Squares(first, daysInMonth(date), weekDay(first) + 1)

monthSquares(date) ==
  LET first == DayNumber(firstOfMonth(date))
  IN  Squares(first, daysInMonth(date), weekDay(first))
=============================================================================
