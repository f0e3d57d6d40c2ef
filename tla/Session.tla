------------------------------ MODULE Session ------------------------------
(***************************************************************************)
(* Signing in (SignUpVC), signing out and deleting the account (MenuVC,    *)
(* DeleteAccountAlertVC).  Signing in adds the account's notes to the rows *)
(* there are; signing out and deleting the account empty the phone, and    *)
(* leave alone whatever is still in flight.                                *)
(***************************************************************************)
EXTENDS HomeScreen

\* Mutant: signing in starts with empty queues.
SignInClears(account) ==
  /\ Spend("signIn") /\ Present("signUp")
  /\ uid = NoAccount /\ online
  /\ uid' = account /\ queue' = NoQueues
  /\ net' = net \cup {[NewRequest("signUp", 1, Fresh("signUp"), "register", NoArg)
                         EXCEPT !.owner = account]}
  /\ StartLoader
  /\ UNCHANGED <<notes, nextObj, remoteVars, userData, running, online,
                 alert, deleteNoteID>>

\* Google or Apple vouch for the account; UID and IS_LOGIN are saved before
\* the server hears of it.
SignIn(account) ==
  /\ Spend("signIn") /\ Present("signUp")
  /\ uid = NoAccount /\ online
  /\ uid' = account
  /\ net' = net \cup {[NewRequest("signUp", 1, Fresh("signUp"), "register", NoArg)
                         EXCEPT !.owner = account]}
  /\ StartLoader
  /\ UNCHANGED <<notes, queue, nextObj, remoteVars, userData, running, online,
                 alert, deleteNoteID>>

\* Back closes the sheet; what it has in flight goes on.
SignUpBack ==
  /\ Touched("signUp") /\ BackHome("signUp")
  /\ UNCHANGED <<deviceVars, alert, deleteNoteID>>

SignUpRequest(r, op) == r \in net /\ r.by = "signUp" /\ r.op = op

\* fetchUserData puts the Loader's view up, registerUser takes it down.
Registered(r) ==
  /\ SignUpRequest(r, "register") /\ Delivered(r)
  /\ net' = (net \ {r}) \cup {NewRequest("signUp", 1, r.idx, "fetch", NoArg)}
  /\ StopLoader
  /\ UNCHANGED <<storeVars, remoteVars, userData, running, online, homeVars>>

\* Mutant: the Loader's view stays.
SignUpEndsLoading(rows) ==
  /\ BackHome("signUp") /\ UNCHANGED overlay
  /\ IF screen = "signUp" THEN SaveUserData(rows) ELSE UNCHANGED userData

\* Dismissing the sheet reloads the list, a sheet already dismissed does not.
SignUpEnds(rows) ==
  /\ BackHome("signUp") /\ StopLoader
  /\ IF screen = "signUp" THEN SaveUserData(rows) ELSE UNCHANGED userData

\* Mutant: the account's notes replace the rows there are.
SignUpReplaces(r) ==
  /\ SignUpRequest(r, "fetch") /\ Delivered(r)
  /\ net' = net \ {r}
  /\ notes' = ResponseRows(r.rows, nextObj)
  /\ nextObj' = nextObj + Len(r.rows)
  /\ SignUpEnds(notes')
  /\ UNCHANGED <<queue, uid, remoteVars, running, online, alert, deleteNoteID>>

\* The answer's notes are added after the rows there are.
SignUpFetched(r) ==
  /\ SignUpRequest(r, "fetch") /\ Delivered(r)
  /\ net' = net \ {r}
  /\ notes' = notes \o [i \in DOMAIN r.rows |->
                          NewRow(nextObj + i - 1, r.rows[i].text, Len(notes) + i,
                                 r.rows[i].id)]
  /\ nextObj' = nextObj + Len(r.rows)
  /\ SignUpEnds(notes')
  /\ UNCHANGED <<queue, uid, remoteVars, running, online, alert, deleteNoteID>>

\* Either request fails: the user is signed in all the same.
SignUpFails(r) ==
  /\ r \in net /\ r.by = "signUp" /\ Failed(r)
  /\ net' = net \ {r}
  /\ SignUpEnds(notes)
  /\ UNCHANGED <<storeVars, remoteVars, running, online, alert, deleteNoteID>>

---------------------------------------------------------------------------

\* What handleLogout and dismissDeleteVC do: the three queues, the rows and
\* the account go, and Splash is pushed over the HomeVC.
EmptyThePhone ==
  /\ uid' = NoAccount
  /\ queue' = NoQueues
  /\ notes' = <<>>
  /\ screen' = "off"
  /\ UNCHANGED <<nextObj, userData, alert, deleteNoteID>>

handleLogout ==
  /\ Spend("signOut")
  /\ Touched("home") /\ uid # NoAccount
  /\ EmptyThePhone
  /\ UNCHANGED <<remoteVars, net, running, overlay, online>>

deleteUserData ==
  /\ Spend("signOut")
  /\ Present("menu") /\ uid # NoAccount
  /\ net' = net \cup {NewRequest("menu", 1, 1, "deleteUser", NoArg)}
  /\ StartLoader
  /\ UNCHANGED <<storeVars, remoteVars, userData, running, online,
                 alert, deleteNoteID>>

AccountDeleted(r) ==
  /\ r \in net /\ r.by = "menu" /\ Delivered(r)
  /\ net' = net \ {r}
  /\ StopLoader
  /\ EmptyThePhone
  /\ UNCHANGED <<remoteVars, running, online>>

\* An alert tells the user; the account stays signed in.
AccountDeletionFails(r) ==
  /\ r \in net /\ r.by = "menu" /\ Failed(r)
  /\ net' = net \ {r}
  /\ StopLoader
  /\ BackHome("menu")
  /\ UNCHANGED <<storeVars, remoteVars, userData, running, online,
                 alert, deleteNoteID>>

SessionStep ==
  \/ \E account \in Account : SignIn(account)
  \/ SignUpBack
  \/ \E r \in net : \/ Registered(r)
                    \/ SignUpFetched(r)
                    \/ SignUpFails(r)
                    \/ AccountDeleted(r)
                    \/ AccountDeletionFails(r)
  \/ handleLogout
  \/ deleteUserData
=============================================================================
