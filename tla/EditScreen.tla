----------------------------- MODULE EditScreen -----------------------------
(***************************************************************************)
(* EditNoteVC: the text of one note is changed.  The row is written at     *)
(* once; the server is told when the Reachability notifier reports, which  *)
(* it does one turn of the main queue later, while the screen closes.      *)
(***************************************************************************)
EXTENDS HomeScreen

VARIABLE editor   \* the EditNoteVC presented, or NoEditor

EditNoteVC == [stage  : {"open", "closing"},
               obj    : Nat,     \* userData, the managed object being edited
               noteID : Int,     \* the id it had when it was last in the store
               text   : Text,    \* textView.text
               notifies : BOOLEAN,   \* its notifier runs
               due    : Nat]     \* connection reports still to arrive

NoEditor == [stage |-> "none"]

EditTypeOK == editor \in EditNoteVC \cup {NoEditor}
EditInit   == editor = NoEditor
EditEnds   == editor' = NoEditor

\* userData?.noteID: the managed object's, as long as the store has it.
NoteIDNow == LET i == IndexOf(notes, editor.obj)
             IN  IF i = 0 THEN editor.noteID ELSE notes[i].noteID

ReportToEditor ==
  editor' = IF editor.stage = "closing" /\ editor.notifies
              THEN [editor EXCEPT !.due = @ + 1] ELSE editor

---------------------------------------------------------------------------

editItemAt(row, text) ==
  /\ Spend("edit") /\ Present("editing")
  /\ row \in DOMAIN userData
  /\ editor' = [stage |-> "open", obj |-> userData[row], text |-> text, due |-> 0,
                notifies |-> FALSE, noteID |-> notes[IndexOf(notes, userData[row])].noteID]
  /\ UNCHANGED <<storeVars, remoteVars, userData, net, running, overlay, online,
                 alert, deleteNoteID>>

editCloseTapped ==
  /\ editor.stage = "open" /\ Touched("editing")
  /\ EditEnds /\ BackHome("editing")
  /\ UNCHANGED <<deviceVars, alert, deleteNoteID>>

\* userData?.noteID ?? "": a note without an id gets the empty one.
IDOrBlank == IF NoteIDNow = Nil THEN Blank ELSE NoteIDNow

editPostTapped ==
  /\ editor.stage = "open" /\ Touched("editing")
  /\ \E starts \in BOOLEAN :
       /\ uid = NoAccount => ~starts
       /\ SpendAll({x \in {"start"} : uid # NoAccount /\ ~starts})
       /\ editor' = [editor EXCEPT !.stage = "closing", !.noteID = IDOrBlank,
                                   !.notifies = starts, !.due = IF starts THEN 1 ELSE 0]
  /\ notes' = editUserContext(notes, editor.obj, editor.text, IDOrBlank)
  /\ SaveUserData(notes')
  /\ UNCHANGED <<queue, uid, nextObj, remoteVars, net, running, overlay, online, homeVars>>

\* Mutant: without a connection the edit stays on the phone.
editReportOnlineOnly ==
  /\ editor.stage = "closing" /\ editor.due > 0
  /\ editor' = [editor EXCEPT !.due = @ - 1]
  /\ net' = IF online
              THEN net \cup {NewRequest("editing", 1, Fresh("editing"), "edit",
                                       [noteID |-> NoteIDNow, text |-> editor.text])}
              ELSE net
  /\ UNCHANGED <<storeVars, remoteVars, userData, running, overlay, online, left, homeVars>>

editReachabilityChanged ==
  /\ editor.stage = "closing" /\ editor.due > 0
  /\ editor' = [editor EXCEPT !.due = @ - 1]
  /\ IF online
       THEN /\ net' = net \cup
                 {NewRequest("editing", 1, Fresh("editing"), "edit",
                             [noteID |-> NoteIDNow, text |-> editor.text])}
            /\ UNCHANGED <<notes, queue>>
       ELSE /\ notes' = editUserContext(notes, editor.obj, editor.text, NoteIDNow)
            /\ Enqueue("edit", [noteID |-> NoteIDNow, text |-> editor.text])
            /\ UNCHANGED net
  /\ UNCHANGED <<uid, nextObj, remoteVars, userData, running, overlay, online, left, homeVars>>

EditDismissed ==
  /\ editor.stage = "closing" /\ editor.due = 0
  /\ EditEnds /\ BackHome("editing")
  /\ UNCHANGED <<deviceVars, alert, deleteNoteID>>

\* editUserData's completion handler only prints, whatever it is told.
EditAnswered(r) ==
  /\ r \in net /\ r.by = "editing"
  /\ Delivered(r) \/ Failed(r)
  /\ net' = net \ {r}
  /\ UNCHANGED <<storeVars, remoteVars, userData, running, overlay, online, homeVars, editor>>

EditStep ==
  \/ \E row \in DOMAIN userData, text \in Text : editItemAt(row, text)
  \/ editCloseTapped
  \/ editPostTapped
  \/ editReachabilityChanged
  \/ EditDismissed
  \/ \E r \in net : EditAnswered(r)
=============================================================================
