------------------------------ MODULE TimeOfDay ------------------------------
(***************************************************************************)
(* The arithmetic of the reminder's time: 12 and 24 hours                  *)
(* (NotificationTimeVC) and the quarter of an hour by which the notes of a *)
(* week ago come before the reminder (AppDelegate).                        *)
(***************************************************************************)
EXTENDS Integers

TimeOfDay == [hour : 0..23, minute : 0..59]
Meridiem  == {"AM", "PM"}

MinutesInADay == 24 * 60
MinuteOfDay(t) == 60 * t.hour + t.minute

\* Mutant: noon counts as morning.
setMeridiemPastNoon(hour) == IF hour > 12 THEN "PM" ELSE "AM"

setMeridiem(hour) == IF hour >= 12 THEN "PM" ELSE "AM"

convertTo12HourFormat(hour) == IF hour % 12 = 0 THEN 12 ELSE hour % 12

\* The hour a "hh:mm a" text stands for, external.
HourOnTheClock(hour, meridiem) == (hour % 12) + (IF meridiem = "PM" THEN 12 ELSE 0)

\* What the picker shows when it opens on a saved time.
PickerShows(hour, minute, meridiem) ==
  [hour |-> HourOnTheClock(convertTo12HourFormat(hour), meridiem), minute |-> minute]

\* Fifteen minutes are taken off; below zero an hour is borrowed, and the
\* hour before midnight is 23.
QuarterEarlier(t) ==
  IF t.minute >= 15
    THEN [t EXCEPT !.minute = @ - 15]
    ELSE [hour |-> IF t.hour = 0 THEN 23 ELSE t.hour - 1, minute |-> t.minute + 45]
=============================================================================
