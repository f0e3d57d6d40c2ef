SPECIFICATION StreakSpec
CONSTANTS
  isPad = FALSE
  Opening <- MCOpening
  Notes <- MCNotes
  TapLimit = 6
INVARIANTS SquaresUnderTheirWeekday
PROPERTIES MonthIsCounted MonthsInTurn
CHECK_DEADLOCK FALSE
