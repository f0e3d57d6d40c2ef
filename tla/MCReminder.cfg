SPECIFICATION HistorySpec
CONSTANTS
  PickerTime <- MCPickerTime
  FirstDay = 0
  LastDay = 8
  NoteLimit = 2
INVARIANTS ReminderAsSet PickerReopensOnSaved
PROPERTIES ThoughtsAtMostADayLate AnnouncedOncePerLaunch
CHECK_DEADLOCK FALSE
