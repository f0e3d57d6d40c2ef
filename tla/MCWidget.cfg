SPECIFICATION WidgetSpec
CONSTANTS
  FirstDay = 3
  LastDay = 10
  firstWeekday = 1
  NoteLimit = 2
  UntoldLimit = 1
INVARIANTS StreakIsTheRun SundayFirst StreakCountsToday WeekMissesOnlyTheNewest
PROPERTIES MidnightJudgesTheDay
CHECK_DEADLOCK FALSE
