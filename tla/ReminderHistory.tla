--------------------------- MODULE ReminderHistory ---------------------------
(***************************************************************************)
(* The notifications, with a history of the notes that were announced.  iOS*)
(* keeps no such record and the app does not look at what was delivered:   *)
(* the variable constrains no step, it is there to say how often a note is *)
(* announced, which the pending requests alone do not tell.                *)
(***************************************************************************)
EXTENDS Reminder

VARIABLE told   \* the notes announced, and not scheduled again by a launch since

historyVars == <<reminderVars, told>>

HistoryInit == ReminderInit /\ told = {}

HistoryNext ==
  \/ Tick   /\ told' = told \cup UNION {r.body : r \in Due}
  \/ Launch /\ told' = told \ WeekOldNotes
  \/ Taps   /\ UNCHANGED told

HistorySpec == HistoryInit /\ [][HistoryNext]_historyVars

---------------------------------------------------------------------------

ToldOnce ==
  \A r \in requests : Delivers(r) =>
    /\ r.body \cap told = {}
    /\ \A q \in requests : Delivers(q) /\ q # r => r.body \cap q.body = {}

\* A note once announced is announced again only if, after that, the app is
\* launched on the day the note is a week old; no launch on another day, no
\* settings saved, notes deleted or days gone by announce it again, and no two
\* notifications that come at once share a note.  However often the app is
\* launched before the hour, those launches announce it once; a launch after the
\* hour does announce it again, on the next day or, for an hour set later, on the
\* same (AppDelegate.scheduleNotificationForUserThoughts7DaysAgo).
AnnouncedOncePerLaunch == [][ToldOnce]_historyVars
=============================================================================
