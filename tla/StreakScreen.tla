---------------------------- MODULE StreakScreen ----------------------------
(***************************************************************************)
(* StreakVC: a month of squares, with the days that have a note.  How many *)
(* these are is not computed: it is counted up each time a square is       *)
(* shown, which is once after each change of the month, and set back       *)
(* before.  The launch fetch may replace the notes meanwhile.              *)
(***************************************************************************)
EXTENDS Calendar, Functions

CONSTANTS isPad,      \* UIDevice.current.userInterfaceIdiom == .pad
          Opening,    \* the dates on which the screen is opened
          Notes,      \* the sequences of dates the phone's notes may have
          TapLimit    \* bound: taps on the arrows

IsDate(date) ==
  /\ date \in [year : Int, month : 1..12, day : 1..31]
  /\ date.day <= daysInMonth(date)

ASSUME OpeningAssumption == \A date \in Opening : IsDate(date)
ASSUME NotesAssumption == \A dates \in Notes : dates \in Seq(Int)
ASSUME ScreenAssumption == isPad \in BOOLEAN /\ TapLimit \in Nat

VARIABLES rows,                \* the dates of the notes
          selectedDate,
          totalSqaures,
          totalDaysFinished,
          totalNubOfNotesLbl,
          taps                 \* how much of TapLimit is used

streakVars == <<rows, selectedDate, totalSqaures, totalDaysFinished, totalNubOfNotesLbl, taps>>

StreakTypeOK ==
  /\ rows \in Notes
  /\ IsDate(selectedDate)
  /\ \A k \in DOMAIN totalSqaures : Cardinality(totalSqaures[k]) <= 1
  /\ totalDaysFinished \in 0 .. daysInMonth(selectedDate)
  /\ totalNubOfNotesLbl \in Nat
  /\ taps \in 0 .. TapLimit

---------------------------------------------------------------------------

cellsPerRow == IF isPad THEN 4 ELSE 7

\* cellForItemAt, over all squares: those with a note are counted.
ShowCells(count, squares) ==
  count + Cardinality({k \in DOMAIN squares : \E day \in squares[k] : isDateExist(rows, day)})

setMonthView(count, date) ==
  /\ totalSqaures' = monthSquares(date)
  /\ totalNubOfNotesLbl' = countNotesInMonth(rows, date)
  /\ totalDaysFinished' = ShowCells(count, totalSqaures')
  /\ selectedDate' = date

\* Mutant: the count goes on from the month before.
previousMonthUnreset ==
  /\ taps < TapLimit /\ taps' = taps + 1
  /\ setMonthView(totalDaysFinished, minusMonth(selectedDate))
  /\ UNCHANGED rows

previousMonthButtonTapped ==
  /\ taps < TapLimit /\ taps' = taps + 1
  /\ setMonthView(0, minusMonth(selectedDate))
  /\ UNCHANGED rows

nextMonthButtonTapped ==
  /\ taps < TapLimit /\ taps' = taps + 1
  /\ setMonthView(0, plusMonth(selectedDate))
  /\ UNCHANGED rows

\* The notes are replaced under the screen, which is not told.
NotesFetched ==
  /\ rows' \in Notes /\ rows' # rows
  /\ UNCHANGED <<selectedDate, totalSqaures, totalDaysFinished, totalNubOfNotesLbl, taps>>

viewDidLoad ==
  /\ selectedDate \in Opening
  /\ totalSqaures = monthSquares(selectedDate)
  /\ totalNubOfNotesLbl = countNotesInMonth(rows, selectedDate)
  /\ totalDaysFinished = ShowCells(0, totalSqaures)

StreakInit == rows \in Notes /\ viewDidLoad /\ taps = 0

StreakNext == previousMonthButtonTapped \/ nextMonthButtonTapped \/ NotesFetched

StreakSpec == StreakInit /\ [][StreakNext]_streakVars

---------------------------------------------------------------------------

DaysWithNote(date) == Range(rows) \cap InMonth(date)

\* "Days Finished" and "Total write ups" are told for the month shown and the
\* notes there were when it was: a day with several notes is one day, and a
\* month the arrows come back to is counted as before (StreakVC.swift:163 and 202).
MonthIsCounted ==
  [][ selectedDate' # selectedDate =>
        /\ totalDaysFinished' = Cardinality(DaysWithNote(selectedDate'))
        /\ totalNubOfNotesLbl' =
             Cardinality({i \in DOMAIN rows : rows[i] \in DaysWithNote(selectedDate')})
    ]_streakVars

MonthIndex(date) == 12 * date.year + date.month

\* The arrows skip no month, from the 31st either, and lead back to the month
\* they came from; the day they stop at is one of that month, and no other
\* unless the month is too short for it (CalendarHelper.plusMonth, minusMonth).
MonthsInTurn ==
  [][ taps' # taps =>
        /\ selectedDate'.day \in {selectedDate.day, daysInMonth(selectedDate')}
        /\ selectedDate'.day <= daysInMonth(selectedDate')
        /\ MonthIndex(selectedDate') - MonthIndex(selectedDate) \in {-1, 1}
        /\ MonthIndex(minusMonth(plusMonth(selectedDate'))) = MonthIndex(selectedDate')
    ]_streakVars

\* Every day of the month has one square, and below the headings Sun to Sat
\* of the screen it is in the column of its weekday (StreakVC.setMonthView).
SquaresUnderTheirWeekday ==
  /\ UNION Range(totalSqaures) = InMonth(selectedDate)
  /\ \A k \in DOMAIN totalSqaures : \A day \in totalSqaures[k] :
       ((k - 1) % cellsPerRow) + 1 = weekday(day)
=============================================================================
