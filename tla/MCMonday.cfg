SPECIFICATION WidgetSpec
CONSTANTS
  FirstDay = 3
  LastDay = 10
  firstWeekday = 2
  NoteLimit = 1
  UntoldLimit = 0
INVARIANTS SundayFirst
CHECK_DEADLOCK FALSE
