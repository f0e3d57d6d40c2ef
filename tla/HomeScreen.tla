----------------------------- MODULE HomeScreen -----------------------------
(***************************************************************************)
(* HomeVC: the list of notes, the deletion of one of them, and the screen  *)
(* that takes the user's touches.  Every other screen is presented over a  *)
(* HomeVC and gives the touches back to it when it is dismissed.           *)
(***************************************************************************)
EXTENDS Device

VARIABLES
  screen,        \* who takes the touches
  alert,         \* the row the delete dialog captured, and what it shows there
  deleteNoteID   \* HomeVC.deleteNoteID, one per HomeVC pushed so far

homeVars == <<screen, alert, deleteNoteID>>

Screen  == {"off", "home", "alert", "writing", "editing", "signUp", "menu"}
NoAlert == [row |-> 0]

HomeTypeOK ==
  /\ screen \in Screen
  /\ alert \in [row : Nat, shown : Text] \cup {NoAlert}
  /\ deleteNoteID \in Seq(Int)

HomeInit == screen = "off" /\ alert = NoAlert /\ deleteNoteID = <<>>

HomeEnds == screen' = "off" /\ alert' = NoAlert /\ deleteNoteID' = <<>>

\* A touch on a screen, unless the Loader's view is over it.
Touched(at) == screen = at /\ ~overlay
Present(to) == Touched("home") /\ screen' = to
BackHome(from) == screen' = IF screen = from THEN "home" ELSE screen

---------------------------------------------------------------------------

\* Splash pushes a HomeVC, which loads the list.
HomeAppears ==
  /\ running /\ screen = "off"
  /\ screen' = "home"
  /\ deleteNoteID' = Append(deleteNoteID, Blank)
  /\ SaveUserData(notes)
  /\ UNCHANGED <<storeVars, remoteVars, net, running, overlay, online, left, alert>>

deleteItemAt(row) ==
  /\ Spend("delete") /\ Present("alert")
  /\ row \in DOMAIN userData
  /\ alert' = [row |-> row, shown |-> notes[IndexOf(notes, userData[row])].text]
  /\ UNCHANGED <<storeVars, remoteVars, userData, net, running, overlay, online, deleteNoteID>>

CloseAlert == Touched("alert") /\ screen' = "home" /\ alert' = NoAlert

DeleteCancelled ==
  /\ CloseAlert
  /\ UNCHANGED <<deviceVars, deleteNoteID>>

\* The dialog's Delete reads the row captured earlier from today's list.
RowObject == userData[alert.row]
RowNote   == notes[IndexOf(notes, RowObject)]

\* The list became shorter: the array access traps.
DeleteTraps ==
  /\ Touched("alert") /\ alert.row \notin DOMAIN userData
  /\ ProcessEnds /\ HomeEnds
  /\ UNCHANGED left

\* A signed-in user's note that has no id yet is not deleted.
DeleteRefused ==
  /\ CloseAlert
  /\ alert.row \in DOMAIN userData
  /\ uid # NoAccount /\ RowNote.noteID = Nil
  /\ UNCHANGED <<deviceVars, deleteNoteID>>

\* Mutant: the day is taken for the position in the queue.
WithoutPosition(pending, day) ==
  IF day \in DOMAIN pending THEN RemoveAt(pending, day) ELSE pending

\* The first pending note with the day of the deleted row is dropped.
WithoutDay(pending, day) ==
  LET i == SelectInSeq(pending, LAMBDA e : e.day = day)
  IN  IF i = 0 THEN pending ELSE RemoveAt(pending, i)

\* Mutant: without a connection nothing is queued.
checkInternetOnlineOnly(id, pending) ==
  /\ net' = IF online
              THEN net \cup {NewRequest("home", Len(deleteNoteID), Fresh("home"),
                                       "delete", [noteID |-> id])}
              ELSE net
  /\ queue' = [queue EXCEPT !.post = pending]

\* checkInternet: tell the server now, or queue the deletion.
checkInternet(id, pending) ==
  IF online
    THEN /\ net' = net \cup {NewRequest("home", Len(deleteNoteID), Fresh("home"),
                                        "delete", [noteID |-> id])}
         /\ queue' = [queue EXCEPT !.post = pending]
    ELSE /\ queue' = [queue EXCEPT !.post = pending,
                                   !.delete = Append(@, [noteID |-> id])]
         /\ UNCHANGED net

\* Mutant: the list is not reloaded after the row is deleted.
DeleteConfirmedUnlisted ==
  /\ CloseAlert
  /\ alert.row \in DOMAIN userData
  /\ uid # NoAccount /\ RowNote.noteID # Nil
  /\ deleteNoteID' = [deleteNoteID EXCEPT ![Len(deleteNoteID)] = RowNote.noteID]
  /\ checkInternet(RowNote.noteID, WithoutDay(queue.post, RowNote.day))
  /\ notes' = deleteUserContext(notes, RowObject)
  /\ UNCHANGED <<uid, nextObj, remoteVars, userData, running, overlay, online, left>>

DeleteConfirmed ==
  /\ CloseAlert
  /\ alert.row \in DOMAIN userData
  /\ LET pending == WithoutDay(queue.post, RowNote.day)
     IN  \/ /\ uid = NoAccount
            /\ queue' = [queue EXCEPT !.post = pending]
            /\ UNCHANGED <<net, deleteNoteID>>
         \/ /\ uid # NoAccount /\ RowNote.noteID # Nil
            /\ deleteNoteID' = [deleteNoteID EXCEPT ![Len(deleteNoteID)] = RowNote.noteID]
            /\ checkInternet(RowNote.noteID, pending)
  /\ notes' = deleteUserContext(notes, RowObject)
  /\ SaveUserData(notes')
  /\ UNCHANGED <<uid, nextObj, remoteVars, running, overlay, online, left>>

---------------------------------------------------------------------------

HomeRequest(r) == r \in net /\ r.by = "home"

\* deleteUserNoteByID's completion handler does nothing with an answer,
\* decoded or not ...
DeleteAnswered(r) ==
  /\ HomeRequest(r)
  /\ Delivered(r) \/ (online /\ Spend("garble"))
  /\ net' = net \ {r}
  /\ UNCHANGED <<storeVars, remoteVars, userData, running, overlay, online, homeVars>>

\* ... and after a failure queues the id the HomeVC holds by then.
DeleteFails(r) ==
  /\ HomeRequest(r) /\ Failed(r)
  /\ net' = net \ {r}
  /\ Enqueue("delete", [noteID |-> deleteNoteID[r.who]])
  /\ UNCHANGED <<notes, uid, nextObj, remoteVars, userData, running, overlay, online, homeVars>>

HomeStep ==
  \/ HomeAppears
  \/ \E row \in DOMAIN userData : deleteItemAt(row)
  \/ DeleteCancelled
  \/ DeleteRefused
  \/ DeleteConfirmed
  \/ \E r \in net : DeleteAnswered(r) \/ DeleteFails(r)
=============================================================================
