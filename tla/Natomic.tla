------------------------------ MODULE Natomic ------------------------------
(***************************************************************************)
(* The whole app on one phone: the launch synchronisation, the screens     *)
(* that write, edit and delete notes, and the session, interleaved on the  *)
(* main queue and sharing the store, the account and the web service.      *)
(***************************************************************************)
EXTENDS LaunchSync, WritingScreen, EditScreen, Session

ASSUME ScreenLimits == {"garble", "start", "write", "tap", "edit", "delete",
                        "signIn", "signOut"} \subseteq Resource

screenVars == <<homeVars, writers, editor>>
appVars    == <<deviceVars, chainVars, screenVars>>

\* The end of the process takes every view controller and closure with it.
AllEnds == ProcessEnds /\ Idle /\ HomeEnds /\ writers' = <<>> /\ EditEnds

AppLaunch  == Launch /\ UNCHANGED screenVars
AppChain   == LaunchStep /\ UNCHANGED screenVars
AppServer  == ServerStep /\ UNCHANGED <<chainVars, screenVars>>
AppHome    == HomeStep /\ UNCHANGED <<chainVars, writers, editor>>
AppWriting == WritingStep /\ UNCHANGED <<chainVars, editor>>
AppEdit    == EditStep /\ UNCHANGED <<chainVars, writers>>
AppSession == SessionStep /\ UNCHANGED <<chainVars, writers, editor>>

\* The dialog's Delete runs into an array that has become shorter.
AppTraps == DeleteTraps /\ AllEnds

AppKilled == running /\ Spend("kill") /\ AllEnds

AppFlip ==
  /\ NetworkChanges
  /\ ReportToWriters /\ ReportToEditor
  /\ UNCHANGED <<chainVars, homeVars>>

AppNext ==
  \/ AppLaunch
  \/ AppChain
  \/ AppServer
  \/ AppHome
  \/ AppWriting
  \/ AppEdit
  \/ AppSession
  \/ AppTraps
  \/ AppKilled
  \/ AppFlip

AppInit ==
  /\ Init
  /\ HomeInit /\ WritingInit /\ EditInit

\* The main queue runs what is scheduled on it, every request is answered
\* or fails, and the server gets to every request it can be reached for.
\* Nothing is assumed of the user.
WritingRuns ==
  /\ \/ \E w \in DOMAIN writers : addNote(w) \/ reachabilityChanged(w)
     \/ \E r \in net : PostAnswered(r) \/ PostFails(r)
  /\ UNCHANGED <<chainVars, editor>>

SessionRuns ==
  /\ \E r \in net : \/ Registered(r) \/ SignUpFetched(r) \/ SignUpFails(r)
                    \/ AccountDeleted(r) \/ AccountDeletionFails(r)
  /\ UNCHANGED <<chainVars, writers, editor>>

AppFairness ==
  /\ WF_appVars(AppChain)
  /\ WF_appVars(AppServer)
  /\ WF_appVars(WritingRuns)
  /\ WF_appVars(SessionRuns)

AppSpec == AppInit /\ [][AppNext]_appVars /\ AppFairness

---------------------------------------------------------------------------
(* Properties.                                                             *)

\* Type correctness of everything the components share and keep.
AppTypeOK == TypeOK /\ HomeTypeOK /\ WritingTypeOK /\ EditTypeOK

\* The list on screen is the store's, newest first, as long as nobody signs
\* in: a row is edited or deleted by its position in the list (userData is
\* reloaded after every change of the rows, before the next touch).
ScreenListsRows ==
  screen # "off" => userData = [i \in DOMAIN notes |-> Reverse(notes)[i].obj]

\* Signing in included, where a sheet closed with Back never reloads the
\* list: every object listed still is in the store, or a touch on its row
\* would dereference a deleted managed object.
ListedNotesExist ==
  screen # "off" => \A i \in DOMAIN userData : IndexOf(notes, userData[i]) # 0
=============================================================================
