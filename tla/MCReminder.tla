----------------------------- MODULE MCReminder -----------------------------
(***************************************************************************)
(* The notifications over nine days.                                       *)
(***************************************************************************)
EXTENDS ReminderHistory

\* Three minutes past midnight, whose quarter of an hour before is on the day
\* before, and noon.
MCPickerTime == {[hour |-> 0, minute |-> 3], [hour |-> 12, minute |-> 0]}
=============================================================================
