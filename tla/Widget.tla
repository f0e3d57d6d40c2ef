------------------------------- MODULE Widget -------------------------------
(***************************************************************************)
(* What the widgets show.  They are another process and see no note: they  *)
(* read the note's date, the streak and the week that SplashVC and         *)
(* WritingVC leave in the shared defaults, at moments of the app's own.    *)
(***************************************************************************)
EXTENDS Calendar, SequencesExt

CONSTANTS FirstDay, LastDay,   \* bound: the days the model runs through
          firstWeekday,        \* Calendar.current's, 1 is Sunday
          NoteLimit,           \* bound: the notes posted
          UntoldLimit          \* bound: the changes the widgets are not told of

ASSUME DayAssumption == FirstDay \in Nat /\ LastDay \in Nat /\ FirstDay <= LastDay
ASSUME WeekdayAssumption == firstWeekday \in 1..7
ASSUME LimitAssumption == NoteLimit \in Nat /\ UntoldLimit \in Nat

VARIABLES today,
          rows,      \* the dates of the notes, in the order they were added
          visible,   \* what is on screen, "closed" if the app does not run
          started,   \* IS_STARTED
          adding,    \* posts whose note is added in 0.2 s
          shared,    \* the shared defaults
          timeline,  \* the entries iOS has of the widgets' process, and shows
          added,     \* how much of NoteLimit is used
          untold     \* and of UntoldLimit

widgetVars == <<today, rows, visible, started, adding, shared, timeline, added, untold>>

NoDate == -1

Week == [1..7 -> [date : Int, hasNote : BOOLEAN]]

\* What the shared defaults hold: nothing, or what was left there.
Defaults == [noteDate : {NoDate} \cup FirstDay .. LastDay,
             streak   : 0 .. LastDay - FirstDay + 1,
             week     : {<<>>} \cup Week]

WidgetTypeOK ==
  /\ today \in FirstDay .. LastDay
  /\ rows \in Seq(FirstDay .. today)
  /\ visible \in {"closed", "welcome", "home", "writing"}
  /\ started \in BOOLEAN
  /\ added \in 0 .. NoteLimit /\ adding \in 0 .. added /\ untold \in 0 .. UntoldLimit
  /\ shared \in Defaults /\ timeline \in Defaults

---------------------------------------------------------------------------

\* SplashVC.saveUserData: the rows are sorted, the newest first.
saveUserData ==
  [noteDate |-> IF rows = <<>> THEN NoDate ELSE Max(Range(rows)),
   streak   |-> calculateStreak(rows, today),
   week     |-> getCurrentWeekData(rows, today, firstWeekday)]

SplashShown ==
  /\ visible = "closed"
  /\ visible' = IF started THEN "home" ELSE "welcome"
  /\ shared' = saveUserData
  /\ UNCHANGED <<today, rows, started, adding, timeline, added, untold>>

startBTNtapped ==
  /\ visible = "welcome" /\ visible' = "home" /\ started' = TRUE
  /\ UNCHANGED <<today, rows, adding, shared, timeline, added, untold>>

\* The process ends, and with it the notes about to be added.
AppEnds ==
  /\ visible # "closed" /\ visible' = "closed" /\ adding' = 0
  /\ UNCHANGED <<today, rows, started, shared, timeline, added, untold>>

addNewLineBTNtapped ==
  /\ visible = "home" /\ adding = 0 /\ visible' = "writing"
  /\ UNCHANGED <<today, rows, started, adding, shared, timeline, added, untold>>

closeBTNtapped ==
  /\ visible = "writing" /\ visible' = "home"
  /\ UNCHANGED <<today, rows, started, adding, shared, timeline, added, untold>>

\* Mutant: the week is left for the next launch.
postWithoutWeek ==
  /\ visible = "writing" /\ added < NoteLimit
  /\ shared' = [shared EXCEPT !.noteDate = today, !.streak = calculateStreak(rows, today)]
  /\ adding' = adding + 1 /\ added' = added + 1
  /\ UNCHANGED <<today, rows, visible, started, timeline, untold>>

\* All is saved before the note is added.
postBTNtapped ==
  /\ visible = "writing" /\ added < NoteLimit
  /\ shared' = [noteDate |-> today,
                streak   |-> calculateStreak(rows, today),
                week     |-> getCurrentWeekData(rows, today, firstWeekday)]
  /\ adding' = adding + 1 /\ added' = added + 1
  /\ UNCHANGED <<today, rows, visible, started, timeline, untold>>

\* Mutant: the streak stays that of the tap.
addNoteSilently ==
  /\ adding > 0 /\ adding' = adding - 1
  /\ rows' = Append(rows, today)
  /\ visible' = IF visible = "writing" THEN "home" ELSE visible
  /\ UNCHANGED <<today, started, shared, timeline, added, untold>>

\* Only the streak is saved again.
addNote ==
  /\ adding > 0 /\ adding' = adding - 1
  /\ rows' = Append(rows, today)
  /\ shared' = [shared EXCEPT !.streak = calculateStreak(rows', today)]
  /\ visible' = IF visible = "writing" THEN "home" ELSE visible
  /\ UNCHANGED <<today, started, timeline, added, untold>>

\* Of deletion, the launch fetch, and signing out or deleting the account the
\* widgets are not told.
Untold == untold < UntoldLimit /\ untold' = untold + 1

deleteItem(i) ==
  /\ Untold /\ visible = "home"
  /\ rows' = RemoveAt(rows, i)
  /\ UNCHANGED <<today, visible, started, adding, shared, timeline, added>>

NoteFetched(day) ==
  /\ Untold /\ visible # "closed"
  /\ rows' = Append(rows, day)
  /\ UNCHANGED <<today, visible, started, adding, shared, timeline, added>>

EmptyThePhone ==
  /\ Untold /\ visible = "home" /\ adding = 0
  /\ rows' = <<>> /\ started' = FALSE /\ visible' = "welcome"
  /\ UNCHANGED <<today, adding, shared, timeline, added>>

\* The widgets' process is asked for its entries when the app reloads them or
\* the hour they are for is over.  It reads the shared defaults once for all.
getTimeline ==
  /\ timeline' = shared
  /\ UNCHANGED <<today, rows, visible, started, adding, shared, added, untold>>

Midnight ==
  /\ today < LastDay /\ today' = today + 1
  /\ UNCHANGED <<rows, visible, started, adding, shared, timeline, added, untold>>

WidgetInit ==
  /\ today = FirstDay /\ rows = <<>> /\ visible = "closed" /\ started = FALSE
  /\ adding = 0 /\ added = 0 /\ untold = 0
  /\ shared = [noteDate |-> NoDate, streak |-> 0, week |-> <<>>]
  /\ timeline = shared

WidgetNext ==
  \/ SplashShown \/ startBTNtapped \/ AppEnds
  \/ addNewLineBTNtapped \/ closeBTNtapped \/ postBTNtapped \/ addNote
  \/ \E i \in DOMAIN rows : deleteItem(i)
  \/ \E day \in FirstDay .. today : NoteFetched(day)
  \/ EmptyThePhone
  \/ getTimeline
  \/ Midnight

WidgetSpec == WidgetInit /\ [][WidgetNext]_widgetVars

---------------------------------------------------------------------------

\* The days up to today from each of which on every day has a note, today
\* excepted (DatabaseManager.calculateStreak: today need not be written yet,
\* several notes of a day count once).
StreakIsTheRun ==
  calculateStreak(rows, today) =
    Cardinality({d \in Range(rows) : \A e \in d .. today - 1 : e \in Range(rows)})

\* Midnight ends a streak if the day had no note, and only then
\* (DatabaseManager.calculateStreak).
MidnightJudgesTheDay ==
  [][ today' > today =>
        calculateStreak(rows', today')
          = IF today \in Range(rows) THEN calculateStreak(rows, today) ELSE 0 ]_widgetVars

\* DatabaseManager.swift:284, "assuming week starts on Sunday": the seven days
\* are those of the widget's columns Sun to Sat, and today is one of them.
SundayFirst ==
  LET week == getCurrentWeekData(rows, today, firstWeekday)
  IN  /\ \A i \in 1..7 : weekday(week[i].date) = i
      /\ \E i \in 1..7 : week[i].date = today

\* From the moment a note of today is there, the shared streak counts it,
\* whatever was closed or killed in between, unless the notes change by other
\* means than writing (WritingVC.swift:220 and 234).
StreakCountsToday ==
  untold = 0 /\ today \in Range(rows) => shared.streak = calculateStreak(rows, today)

\* However old its entries are, and as long as nothing it is not told of
\* happens, the widget's week marks no day without a note, and misses no note
\* older than the one it shows (WritingVC.swift:219 and 222, SplashVC.swift:74
\* and 77, Natomic_Widget.swift:29).
WeekMissesOnlyTheNewest ==
  untold = 0 => \A i \in DOMAIN timeline.week :
    LET day == timeline.week[i].date
    IN  /\ timeline.week[i].hasNote => day \in Range(rows)
        /\ ~timeline.week[i].hasNote /\ day \in Range(rows) => day >= timeline.noteDate
=============================================================================
