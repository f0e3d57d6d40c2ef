--------------------------- MODULE ReminderProofs ---------------------------
(***************************************************************************)
(* The notifications: that the reminder is scheduled as the settings say,  *)
(* and that notes of a week ago are announced at most a day late, and again*)
(* only after another launch on the day they are a week old, for all times *)
(* a user may pick and any number of days and notes.                       *)
(***************************************************************************)
EXTENDS ReminderHistory, TLAPS

M == MinutesInADay

(***************************************************************************)
(* Time.                                                                   *)
(***************************************************************************)

\* A quarter of an hour before a time of day is a time of day, fifteen minutes
\* earlier around the clock.
THEOREM QuarterBefore ==
  ASSUME NEW t \in TimeOfDay
  PROVE  /\ QuarterEarlier(t) \in TimeOfDay
         /\ (MinuteOfDay(QuarterEarlier(t)) + 15) % MinutesInADay = MinuteOfDay(t)
  BY DEF TimeOfDay, QuarterEarlier, MinuteOfDay, MinutesInADay

\* A time of day is a minute of the day.
LEMMA MinuteRange ==
  ASSUME NEW t \in TimeOfDay
  PROVE  MinuteOfDay(t) \in 0 .. M - 1
  BY DEF TimeOfDay, MinuteOfDay, M, MinutesInADay

\* The picker reopens on the time that was saved.
THEOREM PickerReopens ==
  ASSUME NEW t \in TimeOfDay
  PROVE  PickerShows(t.hour, t.minute, setMeridiem(t.hour)) = t
<1>1. ASSUME NEW h \in 0..23
      PROVE  HourOnTheClock(convertTo12HourFormat(h), setMeridiem(h)) = h
  BY <1>1 DEF HourOnTheClock, convertTo12HourFormat, setMeridiem
<1>2. t = [hour |-> t.hour, minute |-> t.minute] /\ t.hour \in 0..23
  BY DEF TimeOfDay
<1> QED BY <1>1, <1>2 DEF PickerShows

\* The next time the clock shows t is on this day or the next.
LEMMA NextMatchRange ==
  ASSUME now \in Nat, NEW t \in TimeOfDay
  PROVE  /\ NextMatch(t) \in Nat
         /\ NextMatch(t) % M = MinuteOfDay(t)
         /\ NextMatch(t) \div M \in {today, today + 1}
         /\ today \in Nat
<1>1. MinuteOfDay(t) \in 0 .. 1439
  BY MinuteRange DEF M, MinutesInADay
<1> DEFINE d == now \div 1440
           m == MinuteOfDay(t)
<1>2. d \in Nat
  OBVIOUS
<1> HIDE DEF d, m
<1>3. m \in 0 .. 1439
  BY <1>1 DEF m
<1>4. NextMatch(t) = d * 1440 + m \/ NextMatch(t) = (d + 1) * 1440 + m
  <2>1. MinutesInADay = 1440 /\ today = d
    BY DEF MinutesInADay, today, d
  <2>2. (d * 1440 + m) + 1440 = (d + 1) * 1440 + m
    BY <1>2, <1>3
  <2> QED BY <2>1, <2>2 DEF NextMatch, m
<1>5. M = 1440 /\ today = d
  BY DEF M, MinutesInADay, today, d
<1>6. PICK k \in {d, d + 1} : NextMatch(t) = k * 1440 + m
  BY <1>4
<1>7. k \in Nat
  BY <1>2, <1>6
<1>8. NextMatch(t) \in Nat /\ NextMatch(t) % 1440 = m /\ NextMatch(t) \div 1440 = k
  <2>1. /\ k * 1440 + m \in Nat
        /\ (k * 1440 + m) % 1440 = m
        /\ (k * 1440 + m) \div 1440 = k
    BY <1>3, <1>7
  <2> QED BY <1>6, <2>1
<1>9. m = MinuteOfDay(t)
  BY DEF m
<1> QED BY <1>2, <1>5, <1>6, <1>8, <1>9

(***************************************************************************)
(* Types.                                                                  *)
(***************************************************************************)

LEMMA InitType == ReminderInit => ReminderTypeOK
  BY DaysAssumption
  DEF ReminderInit, ReminderTypeOK, NoDefaults, Defaults, Meridiem, Prompt, MinutesInADay

\* The time the settings hold is a time of day.
LEMMA SavedTimeType ==
  ASSUME defaults \in Defaults PROVE SavedTime \in TimeOfDay
  BY DEF Defaults, SavedTime, TimeOfDay

\* The clock goes forward.
LEMMA ClockType ==
  ASSUME now \in Nat, NEW s \in NextSlots
  PROVE  today * MinutesInADay + s \in Nat
<1>1. ASSUME NEW u \in PickerTime \cup {[hour |-> 12, minute |-> 0]}
      PROVE  MinuteOfDay(u) \in Nat /\ MinuteOfDay(QuarterEarlier(u)) \in Nat
  <2>1. u \in TimeOfDay
    BY PickerTimeAssumption, <1>1 DEF TimeOfDay
  <2>2. QuarterEarlier(u) \in TimeOfDay
    BY <2>1, QuarterBefore
  <2> QED BY <2>1, <2>2 DEF TimeOfDay, MinuteOfDay
<1>2. s \in Slots \cup {MinutesInADay}
  BY DEF NextSlots
<1>3. s \in Nat
  BY <1>1, <1>2 DEF Slots, MinutesInADay
<1>4. now \div 1440 \in Nat
  OBVIOUS
<1> QED BY <1>3, <1>4 DEF today, MinutesInADay

\* A request that is due again is a request.
LEMMA AgainType ==
  ASSUME requests \in SUBSET Request, NEW r \in requests, r.repeats
  PROVE  /\ [r EXCEPT !.due = @ + MinutesInADay] \in Reminder
         /\ r \in Reminder
<1>1. r \in Reminder
  BY DEF Request, Thoughts
<1>2. r.due + MinutesInADay \in Nat
  BY <1>1 DEF Reminder, MinutesInADay
<1> QED BY <1>1, <1>2 DEF Reminder

\* Scheduling adds a request.
LEMMA ScheduleType ==
  ASSUME requests \in SUBSET Request, NEW r \in Request
  PROVE  Schedule(r) \in SUBSET Request
  BY DEF Schedule

\* The daily reminder the picker schedules.
LEMMA ReminderRequest ==
  ASSUME now \in Nat, NEW t \in TimeOfDay
  PROVE  [id |-> LocalNotification, due |-> NextMatch(t), repeats |-> TRUE, body |-> {}]
           \in Reminder
  BY NextMatchRange DEF Reminder

\* The notes of a week ago make a request named after their date.
LEMMA ThoughtsRequest ==
  ASSUME ReminderTypeOK, WeekOldNotes # {}
  PROVE  /\ WeekOldThoughts \in Thoughts
         /\ WeekOldThoughts.id = today - 6
         /\ WeekOldThoughts.due \div M \in {today, today + 1}
         /\ \A e \in WeekOldThoughts.body : e.date = today - 7
<1>1. now \in Nat /\ entries \in SUBSET Note /\ SavedTime \in TimeOfDay
  BY SavedTimeType DEF ReminderTypeOK
<1>2. QuarterEarlier(SavedTime) \in TimeOfDay
  BY <1>1, QuarterBefore
<1>3. /\ NextMatch(QuarterEarlier(SavedTime)) \in Nat
      /\ NextMatch(QuarterEarlier(SavedTime)) \div M \in {today, today + 1}
      /\ today \in Nat
  BY <1>1, <1>2, NextMatchRange
<1>4. \A e \in WeekOldNotes : e \in Note /\ e.date = today - 7 /\ e.date \in Nat
  BY <1>1, <1>3 DEF WeekOldNotes, Note
<1>5. today - 6 \in Nat \ {0}
  BY <1>3, <1>4
<1>6. WeekOldNotes \in SUBSET Note
  BY <1>4
<1> QED BY <1>3, <1>4, <1>5, <1>6 DEF WeekOldThoughts, Thoughts

\* Every step keeps every variable in its type.
LEMMA NextType == ReminderTypeOK /\ [ReminderNext]_reminderVars => ReminderTypeOK'
<1> SUFFICES ASSUME ReminderTypeOK, [ReminderNext]_reminderVars PROVE ReminderTypeOK'
  OBVIOUS
<1> USE DEF ReminderTypeOK
<1>1. \A notes : OnHomeVC("user", notes) \in Prompt /\ OnHomeVC("reminder", notes) \in Prompt
                  /\ OnHomeVC("note", notes) \in Prompt
  BY DEF OnHomeVC, Prompt
<1>2. checkNotificationState \in Prompt
  BY DEF checkNotificationState, Prompt
<1>3. CASE Tick
  <2>1. now' \in Nat
    BY <1>3, ClockType DEF Tick
  <2>2. Due \in SUBSET Request
    BY DEF Due
  <2>3. requests' \in SUBSET Request
    <3>1. \A r \in {q \in Due : q.repeats} :
            [r EXCEPT !.due = @ + MinutesInADay] \in Request
      BY AgainType DEF Due, Request
    <3> QED BY <1>3, <3>1 DEF Tick
  <2>4. delivered' \in SUBSET Request
    BY <1>3, <2>2 DEF Tick
  <2> QED BY <1>3, <2>1, <2>3, <2>4 DEF Tick
<1>4. CASE Launch
  <2>1. requests' \in SUBSET Request
    BY <1>4, ThoughtsRequest, ScheduleType
    DEF Launch, scheduleNotificationForUserThoughts7DaysAgo, Request
  <2> QED BY <1>1, <1>4, <2>1 DEF Launch, Prompt
<1>5. CASE startBTNtapped
  BY <1>1, <1>5 DEF startBTNtapped, Defaults
<1>6. CASE \E d \in delivered : didReceive(d)
  BY <1>1, <1>6 DEF didReceive
<1>7. CASE showHomeViewController
  BY <1>1, <1>7 DEF showHomeViewController
<1>8. ASSUME NEW at, NEW to \in Prompt, Goes(at, to) PROVE ReminderTypeOK'
  BY <1>8 DEF Goes
<1>9. CASE notificationBTNtapped \/ addNewLineBTNtapped \/ doItLaterTapped
  BY <1>8, <1>9 DEF notificationBTNtapped, addNewLineBTNtapped, doItLaterTapped, Prompt
<1>10. CASE writingClosed
  BY <1>2, <1>8, <1>10 DEF writingClosed, Prompt
<1>11. CASE writingPosts
  <2>1. now \div 1440 \in Nat
    OBVIOUS
  <2>2. written' \in Nat /\ [n |-> written', date |-> today] \in Note
    BY <1>11, <2>1 DEF writingPosts, Note, today, MinutesInADay
  <2> QED BY <1>2, <1>11, <2>2 DEF writingPosts, Prompt
<1>12. CASE letsWriteBTNtapped \/ writingAlertClosed \/ setNowBTNtapped
  BY <1>2, <1>8, <1>12 DEF letsWriteBTNtapped, writingAlertClosed, setNowBTNtapped, Prompt
<1>13. CASE \E t \in PickerTime : saveBTNtapped(t)
  <2>1. PICK t \in PickerTime : saveBTNtapped(t)
    BY <1>13
  <2>2. t \in TimeOfDay
    BY PickerTimeAssumption
  <2>3. requests' \in SUBSET Request
    BY <2>1, <2>2, ReminderRequest, ScheduleType DEF saveBTNtapped, Request
  <2>4. defaults' \in Defaults
    BY <2>1, <2>2 DEF saveBTNtapped, Defaults, TimeOfDay, setMeridiem, Meridiem
  <2> QED BY <2>1, <2>3, <2>4 DEF saveBTNtapped, Prompt
<1>14. CASE pickerClosed
  BY <1>8, <1>14 DEF pickerClosed, Prompt
<1>15. CASE \E e \in entries : deleteItem(e)
  BY <1>15 DEF deleteItem
<1>16. CASE EmptyThePhone
  BY <1>16
  DEF EmptyThePhone, cancelNotification, NoDefaults, Defaults, Meridiem, Prompt
<1>17. CASE UNCHANGED reminderVars
  BY <1>17 DEF reminderVars
<1> QED
  BY <1>3, <1>4, <1>5, <1>6, <1>7, <1>9, <1>10, <1>11, <1>12, <1>13, <1>14, <1>15, <1>16, <1>17
  DEF ReminderNext, Taps

\* The notifications, the settings and the prompts keep their types.
THEOREM ReminderTypeCorrect == ReminderSpec => []ReminderTypeOK
  BY InitType, NextType, PTL DEF ReminderSpec

(***************************************************************************)
(* The reminder and the settings.                                          *)
(***************************************************************************)

\* ReminderAsSet, request by request.
AsSet ==
  /\ \A r \in requests : r.id = LocalNotification =>
       defaults.enabled /\ r.due % M = MinuteOfDay(SavedTime)
  /\ defaults.enabled => \E r \in requests : r.id = LocalNotification

LEMMA AsSetSuffices == ReminderTypeOK /\ AsSet => ReminderAsSet
<1> SUFFICES ASSUME ReminderTypeOK, AsSet PROVE ReminderAsSet
  OBVIOUS
<1>1. defaults.enabled \in BOOLEAN
  BY DEF ReminderTypeOK, Defaults
<1>2. CASE defaults.enabled
  BY <1>2 DEF AsSet, ReminderAsSet, M
<1>3. CASE ~defaults.enabled
  BY <1>3 DEF AsSet, ReminderAsSet, M
<1> QED BY <1>1, <1>2, <1>3

\* The requests that Due does not repeat stay, the others come again at the
\* same time of day.
LEMMA TickRequests ==
  ASSUME ReminderTypeOK, Tick
  PROVE  /\ \A q \in requests' : \E r \in requests :
              /\ q.id = r.id /\ q.body = r.body /\ q.repeats = r.repeats
              /\ q.due = r.due \/ (r \in Due /\ r.repeats /\ q.due = r.due + MinutesInADay)
              /\ q = IF r \in Due THEN [r EXCEPT !.due = @ + MinutesInADay] ELSE r
         /\ \A r \in requests : r.repeats => \E q \in requests' : q.id = r.id
<1>1. requests \in SUBSET Request
  BY DEF ReminderTypeOK
<1>2. ASSUME NEW r \in Due, r.repeats
      PROVE  LET q == [r EXCEPT !.due = @ + MinutesInADay]
             IN  /\ q.id = r.id /\ q.body = r.body /\ q.repeats = r.repeats
                 /\ q.due = r.due + MinutesInADay
  <2>1. r \in requests
    BY <1>2 DEF Due
  <2>2. r \in Reminder
    BY <1>1, <1>2, <2>1, AgainType
  <2> QED BY <2>2 DEF Reminder
<1>3. requests' = (requests \ Due) \cup
                    {[r EXCEPT !.due = @ + MinutesInADay] : r \in {q \in Due : q.repeats}}
  BY DEF Tick
<1>4. Due \subseteq requests
  BY DEF Due
<1>5. ASSUME NEW q \in requests'
      PROVE  \E r \in requests :
              /\ q.id = r.id /\ q.body = r.body /\ q.repeats = r.repeats
              /\ q.due = r.due \/ (r \in Due /\ r.repeats /\ q.due = r.due + MinutesInADay)
              /\ q = IF r \in Due THEN [r EXCEPT !.due = @ + MinutesInADay] ELSE r
  <2>1. CASE q \in requests \ Due
    BY <2>1
  <2>2. CASE q \notin requests \ Due
    <3>1. PICK r \in Due : r.repeats /\ q = [r EXCEPT !.due = @ + MinutesInADay]
      BY <1>3, <1>5, <2>2
    <3> QED BY <1>2, <1>4, <3>1
  <2> QED BY <2>1, <2>2
<1>6. ASSUME NEW r \in requests, r.repeats PROVE \E q \in requests' : q.id = r.id
  <2>1. CASE r \in Due
    BY <1>2, <1>3, <1>6, <2>1
  <2>2. CASE r \notin Due
    BY <1>3, <2>2
  <2> QED BY <2>1, <2>2
<1> QED BY <1>5, <1>6

\* Only the reminder repeats.
LEMMA Repeating ==
  ASSUME ReminderTypeOK, NEW r \in requests
  PROVE  /\ r.due \in Nat /\ r.id \in Nat
         /\ r.repeats <=> r.id = LocalNotification
         /\ r.id = LocalNotification => r.body = {}
<1>1. CASE r \in Reminder
  <2>1. r.due \in Nat /\ r.id = 0 /\ r.repeats = TRUE /\ r.body = {}
    BY <1>1 DEF Reminder, LocalNotification
  <2> QED BY <2>1 DEF LocalNotification
<1>2. CASE r \in Thoughts
  <2>1. r.due \in Nat /\ r.id \in Nat /\ r.id # 0 /\ r.repeats = FALSE
    BY <1>2 DEF Thoughts
  <2> QED BY <2>1 DEF LocalNotification
<1> QED BY <1>1, <1>2 DEF ReminderTypeOK, Request

LEMMA AsSetStep == ReminderTypeOK /\ AsSet /\ [ReminderNext]_reminderVars => AsSet'
<1> SUFFICES ASSUME ReminderTypeOK, AsSet, [ReminderNext]_reminderVars PROVE AsSet'
  OBVIOUS
<1>1. CASE Tick
  <2>1. ASSUME NEW x \in Nat PROVE (x + 1440) % 1440 = x % 1440
    BY <2>1
  <2>2. ASSUME NEW q \in requests', q.id = LocalNotification
        PROVE  defaults.enabled /\ q.due % M = MinuteOfDay(SavedTime)
    <3>1. PICK r \in requests :
            /\ q.id = r.id
            /\ q.due = r.due \/ q.due = r.due + MinutesInADay
      BY <1>1, <2>2, TickRequests
    <3>2. r.due \in Nat
      BY <3>1, Repeating
    <3> QED BY <2>1, <2>2, <3>1, <3>2 DEF AsSet, M, MinutesInADay
  <2>3. defaults.enabled => \E q \in requests' : q.id = LocalNotification
    BY <1>1, TickRequests, Repeating DEF AsSet
  <2> QED BY <1>1, <2>2, <2>3 DEF Tick, AsSet, SavedTime
<1>2. CASE Launch
  <2>1. requests' = requests \/
          /\ WeekOldThoughts.id # LocalNotification
          /\ requests' = {q \in requests : q.id # WeekOldThoughts.id} \cup {WeekOldThoughts}
    BY <1>2, ThoughtsRequest
    DEF Launch, scheduleNotificationForUserThoughts7DaysAgo, Schedule, Thoughts, LocalNotification
  <2> QED BY <1>2, <2>1 DEF Launch, AsSet, SavedTime
<1>3. CASE \E t \in PickerTime : saveBTNtapped(t)
  <2>1. PICK t \in PickerTime : saveBTNtapped(t)
    BY <1>3
  <2>2. t \in TimeOfDay /\ now \in Nat /\ defaults \in Defaults
    BY PickerTimeAssumption DEF ReminderTypeOK
  <2>3. defaults'.enabled /\ defaults'.hour = t.hour /\ defaults'.minute = t.minute
    BY <2>1, <2>2 DEF saveBTNtapped, Defaults
  <2>4. MinuteOfDay(SavedTime)' = MinuteOfDay(t)
    BY <2>3 DEF SavedTime, MinuteOfDay
  <2>5. NextMatch(t) % M = MinuteOfDay(t)
    BY <2>2, NextMatchRange
  <2> DEFINE new == [id |-> LocalNotification, due |-> NextMatch(t), repeats |-> TRUE, body |-> {}]
  <2>6. requests' = {q \in requests : q.id # LocalNotification} \cup {new}
    BY <2>1 DEF saveBTNtapped, Schedule
  <2>7. new.id = LocalNotification /\ new.due = NextMatch(t)
    OBVIOUS
  <2> HIDE DEF new
  <2> QED BY <2>3, <2>4, <2>5, <2>6, <2>7 DEF AsSet
<1>4. CASE EmptyThePhone
  BY <1>4 DEF EmptyThePhone, AsSet, cancelNotification, NoDefaults
<1>5. CASE startBTNtapped
  <2>1. defaults \in Defaults
    BY DEF ReminderTypeOK
  <2> QED BY <1>5, <2>1 DEF startBTNtapped, AsSet, SavedTime, Defaults
<1>6. ASSUME UNCHANGED <<requests, defaults>> PROVE AsSet'
  BY <1>6 DEF AsSet, SavedTime
<1>7. CASE \/ \E d \in delivered : didReceive(d)
           \/ showHomeViewController \/ writingPosts
           \/ \E e \in entries : deleteItem(e)
           \/ UNCHANGED reminderVars
  BY <1>6, <1>7 DEF didReceive, showHomeViewController, writingPosts, deleteItem, reminderVars
<1>8. CASE \/ notificationBTNtapped \/ addNewLineBTNtapped \/ writingClosed
           \/ letsWriteBTNtapped \/ writingAlertClosed \/ pickerClosed
           \/ doItLaterTapped \/ setNowBTNtapped
  BY <1>6, <1>8
  DEF notificationBTNtapped, addNewLineBTNtapped, writingClosed, letsWriteBTNtapped,
      writingAlertClosed, pickerClosed, doItLaterTapped, setNowBTNtapped, Goes
<1> QED BY <1>1, <1>2, <1>3, <1>4, <1>5, <1>7, <1>8 DEF ReminderNext, Taps

\* Whatever is saved, erased, restarted and delivered in whatever order, the
\* daily reminder is scheduled as the settings say.
THEOREM ReminderIsAsSet == ReminderSpec => []ReminderAsSet
<1>1. ReminderInit => AsSet
  BY DEF ReminderInit, AsSet, NoDefaults
<1> QED
  BY <1>1, AsSetStep, AsSetSuffices, ReminderTypeCorrect, PTL DEF ReminderSpec

(***************************************************************************)
(* The picker and the settings.                                            *)
(***************************************************************************)

\* The half of the day the settings hold is that of their hour.
HalfAsHour == defaults.meridiem = setMeridiem(defaults.hour)

LEMMA HalfAsHourStep ==
  ReminderTypeOK /\ HalfAsHour /\ [ReminderNext]_reminderVars => HalfAsHour'
<1> SUFFICES ASSUME ReminderTypeOK, HalfAsHour, [ReminderNext]_reminderVars PROVE HalfAsHour'
  OBVIOUS
<1>1. defaults \in Defaults
  BY DEF ReminderTypeOK
<1>2. CASE startBTNtapped
  BY <1>1, <1>2 DEF startBTNtapped, HalfAsHour, Defaults
<1>3. CASE \E t \in PickerTime : saveBTNtapped(t)
  BY <1>1, <1>3 DEF saveBTNtapped, HalfAsHour, Defaults
<1>4. CASE EmptyThePhone
  BY <1>4 DEF EmptyThePhone, HalfAsHour, NoDefaults, setMeridiem
<1>5. UNCHANGED defaults \/ startBTNtapped \/ (\E t \in PickerTime : saveBTNtapped(t))
        \/ EmptyThePhone
  BY DEF ReminderNext, Taps, Tick, Launch, didReceive, showHomeViewController, writingPosts,
      deleteItem, notificationBTNtapped, addNewLineBTNtapped, writingClosed,
      letsWriteBTNtapped, writingAlertClosed, pickerClosed, doItLaterTapped,
      setNowBTNtapped, Goes, reminderVars
<1> QED BY <1>2, <1>3, <1>4, <1>5 DEF HalfAsHour

\* Whatever was saved, erased and saved again, the picker opens on the time the
\* reminder comes at.
THEOREM PickerShowsTheReminder == ReminderSpec => []PickerReopensOnSaved
<1>1. ReminderInit => HalfAsHour
  BY DEF ReminderInit, HalfAsHour, NoDefaults, setMeridiem
<1>2. ReminderTypeOK /\ HalfAsHour => PickerReopensOnSaved
  <2> SUFFICES ASSUME ReminderTypeOK, HalfAsHour PROVE PickerReopensOnSaved
    OBVIOUS
  <2>1. SavedTime \in TimeOfDay
    BY SavedTimeType DEF ReminderTypeOK
  <2>2. SavedTime.hour = defaults.hour /\ SavedTime.minute = defaults.minute
    BY DEF SavedTime
  <2> QED BY <2>1, <2>2, PickerReopens DEF HalfAsHour, PickerReopensOnSaved
<1> QED
  BY <1>1, <1>2, HalfAsHourStep, ReminderTypeCorrect, PTL DEF ReminderSpec

(***************************************************************************)
(* The notes of a week ago.                                                *)
(***************************************************************************)

\* A request's name tells its notes' date, and the two days it may be due on.
Named ==
  /\ \A r, q \in requests : r.id = q.id => r = q
  /\ \A r \in requests : \A e \in r.body :
       e.date = r.id - 1 /\ r.due \div M \in {r.id + 6, r.id + 7}

LEMMA NamedStep == ReminderTypeOK /\ Named /\ [ReminderNext]_reminderVars => Named'
<1> SUFFICES ASSUME ReminderTypeOK, Named, [ReminderNext]_reminderVars PROVE Named'
  OBVIOUS
<1>1. CASE Tick
  <2>1. ASSUME NEW p \in requests', NEW q \in requests', p.id = q.id PROVE p = q
    BY <1>1, <2>1, TickRequests DEF Named
  <2>2. ASSUME NEW q \in requests', NEW e \in q.body
        PROVE  e.date = q.id - 1 /\ q.due \div M \in {q.id + 6, q.id + 7}
    <3>1. PICK r \in requests :
            /\ q.id = r.id /\ q.body = r.body
            /\ q.due = r.due \/ r.repeats
      BY <1>1, TickRequests
    <3>2. ~r.repeats
      BY <2>2, <3>1, Repeating
    <3> QED BY <2>2, <3>1, <3>2 DEF Named
  <2> QED BY <2>1, <2>2 DEF Named
<1>2. ASSUME NEW r \in Request, requests' = Schedule(r),
             \A e \in r.body : e.date = r.id - 1 /\ r.due \div M \in {r.id + 6, r.id + 7}
      PROVE  Named'
  BY <1>2 DEF Named, Schedule
<1>3. ASSUME requests' \subseteq requests PROVE Named'
  BY <1>3 DEF Named
<1>4. CASE Launch
  <2>1. CASE WeekOldNotes = {}
    BY <1>3, <1>4, <2>1 DEF Launch, scheduleNotificationForUserThoughts7DaysAgo
  <2>2. CASE WeekOldNotes # {}
    <3>1. today \in Int
      BY DEF ReminderTypeOK, today, MinutesInADay
    <3>2. /\ WeekOldThoughts \in Request
          /\ \A e \in WeekOldThoughts.body :
               /\ e.date = WeekOldThoughts.id - 1
               /\ WeekOldThoughts.due \div M \in {WeekOldThoughts.id + 6, WeekOldThoughts.id + 7}
      BY <2>2, <3>1, ThoughtsRequest DEF Request
    <3> QED BY <1>2, <1>4, <2>2, <3>2 DEF Launch, scheduleNotificationForUserThoughts7DaysAgo
  <2> QED BY <2>1, <2>2
<1>5. CASE \E t \in PickerTime : saveBTNtapped(t)
  <2>1. PICK t \in PickerTime : saveBTNtapped(t)
    BY <1>5
  <2>2. t \in TimeOfDay /\ now \in Nat
    BY PickerTimeAssumption DEF ReminderTypeOK
  <2> DEFINE new == [id |-> LocalNotification, due |-> NextMatch(t), repeats |-> TRUE, body |-> {}]
  <2>3. new \in Request /\ new.body = {} /\ requests' = Schedule(new)
    BY <2>1, <2>2, ReminderRequest DEF saveBTNtapped, Request
  <2> HIDE DEF new
  <2> QED BY <1>2, <2>3
<1>6. CASE EmptyThePhone
  BY <1>3, <1>6 DEF EmptyThePhone, cancelNotification
<1>7. CASE \/ startBTNtapped \/ \E d \in delivered : didReceive(d)
           \/ showHomeViewController \/ writingPosts
           \/ \E e \in entries : deleteItem(e)
           \/ UNCHANGED reminderVars
  BY <1>3, <1>7
  DEF startBTNtapped, didReceive, showHomeViewController, writingPosts, deleteItem, reminderVars
<1>8. CASE \/ notificationBTNtapped \/ addNewLineBTNtapped \/ writingClosed
           \/ letsWriteBTNtapped \/ writingAlertClosed \/ pickerClosed
           \/ doItLaterTapped \/ setNowBTNtapped
  BY <1>3, <1>8
  DEF notificationBTNtapped, addNewLineBTNtapped, writingClosed, letsWriteBTNtapped,
      writingAlertClosed, pickerClosed, doItLaterTapped, setNowBTNtapped, Goes
<1> QED BY <1>1, <1>4, <1>5, <1>6, <1>7, <1>8 DEF ReminderNext, Taps

LEMMA AlwaysNamed == ReminderSpec => []Named
<1>1. ReminderInit => Named
  BY DEF ReminderInit, Named
<1> QED BY <1>1, NamedStep, ReminderTypeCorrect, PTL DEF ReminderSpec

\* No two pending requests share a note.
LEMMA BodiesApart ==
  ASSUME ReminderTypeOK, Named, NEW r \in requests, NEW q \in requests, r # q
  PROVE  r.body \cap q.body = {}
<1> SUFFICES ASSUME NEW e \in r.body, e \in q.body PROVE FALSE
  OBVIOUS
<1>1. r.id \in Nat /\ q.id \in Nat /\ r.id # q.id
  BY Repeating DEF Named
<1>2. e.date = r.id - 1 /\ e.date = q.id - 1
  BY DEF Named
<1> QED BY <1>1, <1>2

\* A note that was announced waits in no request, unless a launch scheduled it
\* again.
ToldNoLongerWaits == \A r \in requests : r.body \cap told = {}

\* Requests that keep or lose their bodies announce nothing told before.
LEMMA SameBodies ==
  ASSUME ToldNoLongerWaits, told' = told,
         \A q \in requests' : q.body = {} \/ \E r \in requests : q.body = r.body
  PROVE  ToldNoLongerWaits'
  BY DEF ToldNoLongerWaits

LEMMA ToldStep ==
  ReminderTypeOK /\ Named /\ ToldNoLongerWaits /\ [HistoryNext]_historyVars
    => ToldNoLongerWaits'
<1> SUFFICES ASSUME ReminderTypeOK, Named, ToldNoLongerWaits, [HistoryNext]_historyVars
             PROVE  ToldNoLongerWaits'
  OBVIOUS
<1>1. CASE Tick /\ told' = told \cup UNION {r.body : r \in Due}
  <2> SUFFICES ASSUME NEW q \in requests', NEW e \in q.body, e \in told'
               PROVE  FALSE
    BY DEF ToldNoLongerWaits
  <2>1. PICK r \in requests :
          q.id = r.id /\ q.body = r.body /\ q.repeats = r.repeats
    BY <1>1, TickRequests
  <2>2. e \notin told
    BY <2>1 DEF ToldNoLongerWaits
  <2>3. PICK d \in Due : e \in d.body
    BY <1>1, <2>2
  <2>4. d \in requests
    BY <2>3 DEF Due
  <2>5. d = r
    BY <2>1, <2>3, <2>4, BodiesApart
  <2>6. ~r.repeats
    BY <2>1, Repeating
  <2>7. requests' = (requests \ Due) \cup
                      {[p EXCEPT !.due = @ + MinutesInADay] : p \in {p \in Due : p.repeats}}
    BY <1>1 DEF Tick
  <2>8. CASE q \in requests \ Due
    BY <2>1, <2>3, <2>5, <2>8 DEF Named
  <2>9. CASE q \notin requests \ Due
    <3>1. PICK p \in Due : p.repeats /\ q = [p EXCEPT !.due = @ + MinutesInADay]
      BY <2>7, <2>9
    <3>2. p \in Reminder
      BY <3>1, AgainType DEF Due, ReminderTypeOK
    <3>3. q.repeats = TRUE
      BY <3>1, <3>2 DEF Reminder
    <3> QED BY <2>1, <2>6, <3>3
  <2> QED BY <2>8, <2>9
<1>2. CASE Launch /\ told' = told \ WeekOldNotes
  <2> SUFFICES ASSUME NEW q \in requests', NEW e \in q.body, e \in told'
               PROVE  FALSE
    BY DEF ToldNoLongerWaits
  <2>1. q \in requests \/ q.body = WeekOldNotes
    BY <1>2
    DEF Launch, scheduleNotificationForUserThoughts7DaysAgo, Schedule, WeekOldThoughts
  <2> QED BY <1>2, <2>1 DEF ToldNoLongerWaits
<1>3. CASE Taps /\ UNCHANGED told
  <2>1. CASE \E t \in PickerTime : saveBTNtapped(t)
    BY <1>3, <2>1, SameBodies DEF saveBTNtapped, Schedule
  <2>2. CASE EmptyThePhone
    BY <1>3, <2>2, SameBodies DEF EmptyThePhone, cancelNotification
  <2>3. CASE UNCHANGED requests
    BY <1>3, <2>3, SameBodies
  <2> QED
    BY <1>3, <2>1, <2>2, <2>3
    DEF Taps, startBTNtapped, didReceive, showHomeViewController, writingPosts, deleteItem,
        notificationBTNtapped, addNewLineBTNtapped, writingClosed, letsWriteBTNtapped,
        writingAlertClosed, pickerClosed, doItLaterTapped, setNowBTNtapped, Goes
<1>4. CASE UNCHANGED historyVars
  BY <1>4, SameBodies DEF historyVars, reminderVars
<1> QED BY <1>1, <1>2, <1>3, <1>4 DEF HistoryNext

\* The history constrains no step: what holds of the notifications holds here.
LEMMA HistoryIsReminder == HistorySpec => ReminderSpec
<1>1. HistoryInit => ReminderInit
  BY DEF HistoryInit
<1>2. [HistoryNext]_historyVars => [ReminderNext]_reminderVars
  BY DEF HistoryNext, ReminderNext, historyVars
<1> QED BY <1>1, <1>2, PTL DEF HistorySpec, ReminderSpec

\* A note once announced is announced again only if, after that, the app is
\* launched on the day the note is a week old, and no two notifications that
\* come at once share a note.
THEOREM AnnouncedAgainByLaunchOnly == HistorySpec => AnnouncedOncePerLaunch
<1>1. HistoryInit => ToldNoLongerWaits
  BY DEF HistoryInit, ReminderInit, ToldNoLongerWaits
<1>2. HistorySpec => []ReminderTypeOK /\ []Named
  BY HistoryIsReminder, ReminderTypeCorrect, AlwaysNamed, PTL
<1>3. ReminderTypeOK /\ Named /\ ToldNoLongerWaits /\ [HistoryNext]_historyVars
        => [ToldOnce]_historyVars
  BY BodiesApart DEF ToldOnce, ToldNoLongerWaits
<1> QED
  BY <1>1, <1>2, <1>3, ToldStep, PTL DEF HistorySpec, AnnouncedOncePerLaunch

\* A notification with the notes of a week ago comes on the day they are a week
\* old or on the next, for every time of the reminder and of the launch.
THEOREM AnnouncedInTime == ReminderSpec => ThoughtsAtMostADayLate
<1>1. ReminderTypeOK /\ Named =>
        \A r \in requests : \A e \in r.body : r.due \div MinutesInADay - e.date \in {7, 8}
  <2> SUFFICES ASSUME ReminderTypeOK, Named, NEW r \in requests, NEW e \in r.body
               PROVE  r.due \div MinutesInADay - e.date \in {7, 8}
    OBVIOUS
  <2>1. r.id \in Nat
    BY Repeating
  <2>2. e.date = r.id - 1 /\ r.due \div MinutesInADay \in {r.id + 6, r.id + 7}
    BY DEF Named, M
  <2> QED BY <2>1, <2>2
<1>2. ReminderTypeOK /\ Named /\ [ReminderNext]_reminderVars =>
        [ \A r \in requests : Delivers(r) =>
            \A e \in r.body : r.due \div MinutesInADay - e.date \in {7, 8} ]_reminderVars
  BY <1>1
<1> QED
  BY <1>2, AlwaysNamed, ReminderTypeCorrect, PTL DEF ReminderSpec, ThoughtsAtMostADayLate
=============================================================================
