------------------------------ MODULE Reminder ------------------------------
(***************************************************************************)
(* The notifications: the daily reminder the user sets (NotificationTimeVC)*)
(* and the one with the notes of a week ago, scheduled at every launch     *)
(* (AppDelegate.scheduleNotificationForUserThoughts7DaysAgo).  iOS keeps   *)
(* the requests and delivers them whether or not the app runs, so they     *)
(* outlive restarts, changes of the settings and the notes themselves.     *)
(* With them go the prompts that lead the user to the picker (HomeVC,      *)
(* WritingVC, WrirtingAlertVC, SetReminderAlertVC).                        *)
(***************************************************************************)
EXTENDS TimeOfDay

CONSTANTS PickerTime,   \* the times of day a user picks
          FirstDay,     \* the day the model starts on
          LastDay,      \* bound: the clock stops after this day
          NoteLimit     \* bound: the notes written

ASSUME PickerTimeAssumption == PickerTime \subseteq TimeOfDay
ASSUME DaysAssumption ==
  FirstDay \in Nat /\ LastDay \in Nat /\ FirstDay <= LastDay /\ NoteLimit \in Nat

VARIABLES
  now,        \* minutes since the midnight of day 0
  defaults,   \* IS_STARTED, NOTIFICATION_ENABLE, Notification_Hour, _Minutes, _Meridiem
  entries,    \* the notes on the phone
  written,    \* how many notes were ever written
  requests,   \* UNUserNotificationCenter: what is scheduled
  delivered,  \* and what the user has been shown and not dismissed
  prompt,     \* who is presented over HomeVC
  opened      \* IS_FROME_NOTIFICATION, IS_FROME_NOTE_NOTIFICATION

reminderVars == <<now, defaults, entries, written, requests, delivered, prompt, opened>>

Prompt == {"welcome", "home", "writing", "writingUnasked", "writingAlert", "picker",
           "saved", "reminderAlert"}

\* Settings never saved read as 12:00 PM, switched off.
NoDefaults == [started |-> FALSE, enabled |-> FALSE,
               hour |-> 12, minute |-> 0, meridiem |-> "PM"]
Defaults   == [started : BOOLEAN, enabled : BOOLEAN,
               hour : 0..23, minute : 0..59, meridiem : Meridiem]

\* Identifiers: "LocalNotification", and "userThoughts-" with a later day.
LocalNotification == 0

SavedTime == [hour |-> defaults.hour, minute |-> defaults.minute]

Note     == [n : Nat, date : Nat]
Reminder == [id : {LocalNotification}, due : Nat, repeats : {TRUE}, body : {{}}]
Thoughts == [id : Nat \ {0}, due : Nat, repeats : {FALSE}, body : SUBSET Note]
Request  == Reminder \cup Thoughts

today == now \div MinutesInADay

ReminderTypeOK ==
  /\ now \in Nat
  /\ defaults \in Defaults
  /\ entries \in SUBSET Note /\ written \in Nat
  /\ requests \in SUBSET Request
  /\ delivered \in SUBSET Request
  /\ prompt \in Prompt
  /\ opened \in {"user", "reminder", "note"}

---------------------------------------------------------------------------
(* UNUserNotificationCenter, external.                                     *)

\* The next time the clock shows t.
NextMatch(t) ==
  LET atToday == today * MinutesInADay + MinuteOfDay(t)
  IN  IF atToday > now THEN atToday ELSE atToday + MinutesInADay

\* A request replaces the one with its identifier.
Schedule(r) == {q \in requests : q.id # r.id} \cup {r}

\* The moments something may be due at.
Slots == {0} \cup {MinuteOfDay(t) : t \in PickerTime \cup {[hour |-> 12, minute |-> 0]}}
             \cup {MinuteOfDay(QuarterEarlier(t)) :
                     t \in PickerTime \cup {[hour |-> 12, minute |-> 0]}}

\* The minute of this day, or the next midnight, that the clock goes on to.
NextSlots ==
  LET later == {s \in Slots \cup {MinutesInADay} : s > now % MinutesInADay}
  IN  {s \in later : \A q \in later : s <= q}

Due == {r \in requests : r.due <= now'}

Tick ==
  /\ \E s \in NextSlots : now' = today * MinutesInADay + s
  /\ now' < (LastDay + 1) * MinutesInADay
  /\ requests' = (requests \ Due) \cup
                   {[r EXCEPT !.due = @ + MinutesInADay] : r \in {q \in Due : q.repeats}}
  /\ delivered' = {d \in delivered : \A r \in Due : r.id # d.id} \cup Due
  /\ UNCHANGED <<defaults, entries, written, prompt, opened>>

---------------------------------------------------------------------------
(* AppDelegate.                                                            *)

\* Mutant: six days, the week counted with today.
NotesSixDaysOld == {e \in entries : e.date + 6 = today}

WeekOldNotes == {e \in entries : e.date + 7 = today}

WeekOldThoughts == [id |-> today - 6, due |-> NextMatch(QuarterEarlier(SavedTime)), repeats |-> FALSE,
                    body |-> WeekOldNotes]

\* Mutant: the identifier is the moment.
ScheduledByClock == IF WeekOldNotes = {} THEN requests
                    ELSE Schedule([WeekOldThoughts EXCEPT !.id = now])

scheduleNotificationForUserThoughts7DaysAgo ==
  IF WeekOldNotes = {} THEN requests ELSE Schedule(WeekOldThoughts)

\* Who a HomeVC presents when it is loaded.  The first presentation wins; no
\* note's text contains the body of a notification, which ends in a newline.
OnHomeVC(source, notes) ==
  CASE source = "reminder"                -> "writingUnasked"
    [] source = "note" \/ notes = {}      -> "writing"
    [] OTHER                              -> "home"

\* The process ends, whatever is on screen, and is started again.
Launch ==
  /\ requests' = scheduleNotificationForUserThoughts7DaysAgo
  /\ opened' = "user"
  /\ prompt' = IF defaults.started THEN OnHomeVC("user", entries) ELSE "welcome"
  /\ UNCHANGED <<now, defaults, entries, written, delivered>>

startBTNtapped ==
  /\ prompt = "welcome"
  /\ defaults' = [defaults EXCEPT !.started = TRUE]
  /\ prompt' = OnHomeVC(opened, entries)
  /\ UNCHANGED <<now, entries, written, requests, delivered, opened>>

\* A notification is tapped: a new HomeVC replaces whatever is on screen.
didReceive(d) ==
  /\ delivered' = delivered \ {d}
  /\ opened' = IF d.id = LocalNotification THEN "reminder" ELSE "note"
  /\ prompt' = OnHomeVC(opened', entries)
  /\ UNCHANGED <<now, defaults, entries, written, requests>>

\* SceneDelegate: a widget is tapped.
showHomeViewController ==
  /\ opened' = "reminder"
  /\ prompt' = OnHomeVC(opened', entries)
  /\ UNCHANGED <<now, defaults, entries, written, requests, delivered>>

---------------------------------------------------------------------------
(* The prompts.                                                            *)

\* checkNotificationState: the picker, as long as no reminder is set.
checkNotificationState == IF defaults.enabled THEN "home" ELSE "picker"

Goes(at, to) ==
  /\ prompt = at /\ prompt' = to
  /\ UNCHANGED <<now, defaults, entries, written, requests, delivered, opened>>

notificationBTNtapped == Goes("home", "picker")
addNewLineBTNtapped   == Goes("home", "writingUnasked")

\* A WritingVC the HomeVC presented by itself checks first for notes, then
\* for the reminder; the second is not presented over the first.
writingClosed ==
  \/ Goes("writingUnasked", "home")
  \/ Goes("writing", IF entries = {} THEN "writingAlert" ELSE checkNotificationState)

writingPosts ==
  /\ written < NoteLimit
  /\ written' = written + 1
  /\ entries' = entries \cup {[n |-> written', date |-> today]}
  /\ \/ prompt = "writingUnasked" /\ prompt' = "home"
     \/ prompt = "writing" /\ prompt' = checkNotificationState
  /\ UNCHANGED <<now, defaults, requests, delivered, opened>>

letsWriteBTNtapped == Goes("writingAlert", IF entries = {} THEN "writing" ELSE "home")
writingAlertClosed == Goes("writingAlert", checkNotificationState)

\* Mutant: the settings are saved, the notification is left as it was.
saveUnscheduled(t) ==
  /\ prompt \in {"picker", "saved"} /\ prompt' = "saved"
  /\ defaults' = [defaults EXCEPT !.enabled = TRUE, !.hour = t.hour, !.minute = t.minute,
                                  !.meridiem = setMeridiem(t.hour)]
  /\ requests' = IF defaults.enabled THEN requests
                 ELSE Schedule([id |-> LocalNotification, due |-> NextMatch(t),
                                repeats |-> TRUE, body |-> {}])
  /\ UNCHANGED <<now, entries, written, delivered, opened>>

\* The picker stays for 0.2 s, and may be saved again.
saveBTNtapped(t) ==
  /\ prompt \in {"picker", "saved"} /\ prompt' = "saved"
  /\ defaults' = [defaults EXCEPT !.enabled = TRUE, !.hour = t.hour, !.minute = t.minute,
                                  !.meridiem = setMeridiem(t.hour)]
  /\ requests' = Schedule([id |-> LocalNotification, due |-> NextMatch(t),
                           repeats |-> TRUE, body |-> {}])
  /\ UNCHANGED <<now, entries, written, delivered, opened>>

\* The picker goes away: changeNotificationBTNicon insists once more.
pickerClosed ==
  \E at \in {"picker", "saved"} :
    Goes(at, IF defaults.enabled THEN "home" ELSE "reminderAlert")

doItLaterTapped == Goes("reminderAlert", "home")
setNowBTNtapped == Goes("reminderAlert", checkNotificationState)

---------------------------------------------------------------------------
(* HomeVC and MenuVC.                                                      *)

deleteItem(e) ==
  /\ prompt = "home" /\ entries' = entries \ {e}
  /\ UNCHANGED <<now, defaults, written, requests, delivered, prompt, opened>>

cancelNotification(s) == {r \in s : r.id # LocalNotification}

\* Signing out and deleting the account empty the phone alike.
EmptyThePhone ==
  /\ prompt = "home"
  /\ requests' = cancelNotification(requests)
  /\ delivered' = cancelNotification(delivered)
  /\ defaults' = NoDefaults /\ entries' = {} /\ prompt' = "welcome"
  /\ UNCHANGED <<now, written, opened>>

---------------------------------------------------------------------------

ReminderInit ==
  /\ now = FirstDay * MinutesInADay
  /\ defaults = NoDefaults
  /\ entries = {} /\ written = 0
  /\ requests = {} /\ delivered = {}
  /\ prompt = "welcome" /\ opened = "user"

\* The user's taps, while the app runs or to bring it up.
Taps ==
  \/ startBTNtapped
  \/ \E d \in delivered : didReceive(d)
  \/ showHomeViewController
  \/ notificationBTNtapped
  \/ addNewLineBTNtapped
  \/ writingClosed
  \/ writingPosts
  \/ letsWriteBTNtapped
  \/ writingAlertClosed
  \/ \E t \in PickerTime : saveBTNtapped(t)
  \/ pickerClosed
  \/ doItLaterTapped
  \/ setNowBTNtapped
  \/ \E e \in entries : deleteItem(e)
  \/ EmptyThePhone

ReminderNext == Tick \/ Launch \/ Taps

ReminderSpec == ReminderInit /\ [][ReminderNext]_reminderVars

---------------------------------------------------------------------------

\* The reminder is scheduled exactly while the settings say so, once, for the
\* time they hold (NotificationTimeVC.saveBTNtapped and setUpNotification,
\* MenuVC.cancelNotification; a restart forgets neither).
ReminderAsSet ==
  {r.due % MinutesInADay : r \in {q \in requests : q.id = LocalNotification}}
    = IF defaults.enabled THEN {MinuteOfDay(SavedTime)} ELSE {}

\* The picker opens on the time the settings hold, which were saved in 24 hours
\* and are shown in 12 (NotificationTimeVC.viewDidLoad, saveBTNtapped), whatever
\* was saved, erased and saved again since.
PickerReopensOnSaved ==
  PickerShows(defaults.hour, defaults.minute, defaults.meridiem) = SavedTime

Delivers(r) == now' > now /\ r \in Due

\* The notes of a week ago are delivered seven days after they were written
\* or, scheduled too late for that day, one day after that, and never again
\* later than that.
ThoughtsAtMostADayLate ==
  [][ \A r \in requests : Delivers(r) =>
        \A e \in r.body : r.due \div MinutesInADay - e.date \in {7, 8} ]_reminderVars
=============================================================================
