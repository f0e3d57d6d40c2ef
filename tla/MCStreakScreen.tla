--------------------------- MODULE MCStreakScreen ---------------------------
(***************************************************************************)
(* Months opened on their last days, around a leap February and a new year.*)
(***************************************************************************)
EXTENDS StreakScreen

Date(y, m, d) == [year |-> y, month |-> m, day |-> d]

MCOpening == {Date(2024, 1, 31), Date(2023, 12, 31), Date(2024, 9, 30), Date(2023, 2, 28),
              Date(2000, 3, 31), Date(2100, 3, 31)}

\* None, two on one day, and one on either side of the end of February.
MCNotes ==
  LET end == DayNumber(Date(2024, 2, 29))
  IN  {<<>>, <<end - 29, end - 29>>, <<end, end, end + 1>>, <<end + 1, end - 1, end - 60>>}
=============================================================================
