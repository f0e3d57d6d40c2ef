--------------------------- MODULE SurvivalProofs ---------------------------
(***************************************************************************)
(* What the user did is not lost on the way to the server, but for the     *)
(* reasons MCNatomic lists: a note posted, while the user writes and signs *)
(* in only (PostedNotesSurvive), a deletion confirmed, while nobody signs  *)
(* out (ConfirmedDeletionsSurvive), and an edit made, while nobody writes  *)
(* a note or signs out and the texts the launch finds on the server are    *)
(* told apart (EditsMadeSurvive, EditsSurvive).  Nor is a note sent twice  *)
(* without a cause (NotesSentOnce), or an answer's id given to another     *)
(* note's row while one sender is at work (AnswersNameNotes).  For any     *)
(* accounts, texts, queues and rows, any number of taps, kills, failures   *)
(* and connection changes.                                                 *)
(***************************************************************************)
EXTENDS MCNatomic, NatomicProofs

---------------------------------------------------------------------------
(* Notes posted, while the user writes and signs in only.                  *)

OnlyWrites == left["edit"] = 0 /\ left["delete"] = 0 /\ left["signOut"] = 0

\* Nothing else is under way than notes to be sent, and what a launch and a
\* sign-in fetch.
OnlyNotes ==
  /\ queue.delete = <<>> /\ queue.edit = <<>>
  /\ phase \in {"post", "none"}
  /\ editor = NoEditor
  /\ screen \notin {"alert", "editing", "menu"}
  /\ \A r \in net : \/ r.by = "launch" /\ r.op \in {"post", "fetch"}
                    \/ r.by = "writing" /\ r.op = "post"
                    \/ r.by = "signUp" /\ r.op \in {"register", "fetch"}

\* What a step leaves to the notes' way to the server.
Posts(t)  == {r \in t : r.op = "post"}
onTheWay  == <<queue, uid, server, phase, snapshot, indicesToRemove, writers>>

\* A step that has nothing to do with it.
Aside == UNCHANGED onTheWay /\ Posts(net') = Posts(net)

\* The request of a note ends, in one of the ways that leave the queue alone.
PostEnds(r) ==
  /\ r \in net /\ r.op = "post" /\ net' = net \ {r}
  /\ UNCHANGED <<queue, uid, server, phase, snapshot, writers>>
  /\ \/ r.by = "launch" /\ UNCHANGED indicesToRemove
     \/ r.by = "launch" /\ r.done /\ indicesToRemove' = indicesToRemove \cup {r.idx}
     \/ r.by = "writing" /\ r.done /\ UNCHANGED indicesToRemove
     \/ r.by = "writing" /\ Spend("garble") /\ running' = running /\ UNCHANGED indicesToRemove

\* Screens open and close, rows are added, connections reported.
GoesOn(v, u) ==
  /\ u.text = v.text /\ u.notifies = v.notifies /\ u.observers = v.observers
  /\ u.adds <= v.adds
  /\ v.due > 0 => u.due > 0
  /\ u.due > 0 => v.due > 0 \/ v.notifies

WritersGoOn ==
  /\ UNCHANGED <<queue, uid, server, phase, snapshot, indicesToRemove, net>>
  /\ \A w \in DOMAIN writers : w \in DOMAIN writers' /\ GoesOn(writers[w], writers'[w])
  /\ \A w \in DOMAIN writers' \ DOMAIN writers : ~writers'[w].notifies /\ writers'[w].due = 0

\* Without edits, deletions and sign-out nothing else comes under way.
LEMMA OnlyNotesStay ==
  ASSUME AppInv, OnlyWrites, OnlyNotes, AppNext
  PROVE  OnlyNotes'
<1>1. /\ \A r \in net : /\ r.by \notin {"home", "menu", "editing"}
                        /\ r.op \notin {"edit", "delete", "deleteUser"}
                        /\ r.by = "signUp" => r.op # "post"
      /\ queue.delete = <<>> /\ queue.edit = <<>> /\ queue \in Queues
      /\ phase \notin {"delete", "edit"} /\ editor = NoEditor /\ editor.stage = "none"
      /\ screen \notin {"alert", "editing", "menu"}
  BY AppParts DEF OnlyNotes, NoEditor
<1>2. \A S : SpendAll(S) => "edit" \notin S /\ "delete" \notin S /\ "signOut" \notin S
  BY DEF SpendAll, OnlyWrites
<1>3. CASE AppLaunch
  <2>1. net = {} /\ postPendingUserNotes(queue) /\ UNCHANGED <<queue, screen, editor>>
    BY <1>1, <1>3 DEF AppLaunch, Launch, AppInv, LaunchInv, postDeletePendingData,
       postEditedPendingData, storeVars, screenVars, homeVars
  <2>2. phase' \in {"post", "none"}
    BY <2>1 DEF postPendingUserNotes, Idle, Drain
  <2>3. \A r \in net' : r.by = "launch" /\ r.op \in {"post", "fetch"}
    BY <2>1 DEF postPendingUserNotes, Drain, NewRequest
  <2> QED
    BY <1>1, <2>1, <2>2, <2>3 DEF OnlyNotes
<1>4. CASE AppChain
  <2>1. UNCHANGED <<screen, editor>>
    BY <1>4 DEF AppChain, screenVars, homeVars
  <2>2. CASE Notify
    <3>1. /\ phase = "post" /\ Idle /\ net' = net
          /\ queue' = [queue EXCEPT !["post"] = removeAtOffsets(snapshot, indicesToRemove)]
      BY <1>1, <2>2 DEF Notify, NotifyDeletes, NotifyEdits, NotifyPosts, Written
    <3>2. queue'.delete = queue.delete /\ queue'.edit = queue.edit
      BY <1>1, <3>1 DEF Queues
    <3> QED
      BY <1>1, <2>1, <3>1, <3>2 DEF OnlyNotes, Idle
  <2>3. CASE ~Notify
    <3>1. net' \subseteq net /\ UNCHANGED <<queue, phase>>
      BY <1>4, <2>3 DEF AppChain, LaunchStep, LaunchRequestSucceeds, LaunchRequestFails,
         FetchSucceeds, FetchFails, chainVars, storeVars
    <3> QED
      BY <1>1, <2>1, <3>1 DEF OnlyNotes
  <2> QED
    BY <2>2, <2>3
<1>5. CASE AppServer
  <2>1. UNCHANGED <<screen, editor, phase>>
    BY <1>5 DEF AppServer, screenVars, homeVars, chainVars
  <2>2. PICK r \in net : \E id, rows : Answer(r, id, rows)
    BY <1>5 DEF AppServer, ServerStep, ServerAddsNote, ServerEditsNote, ServerDeletesNote,
       ServerListsNotes, ServerDeletesUser, ServerRegisters
  <2>3. PICK id, rows : Answer(r, id, rows)
    BY <2>2
  <2> DEFINE t == [r EXCEPT !.done = TRUE, !.id = id, !.rows = rows]
  <2>4. net' = (net \ {r}) \cup {t} /\ queue' = queue
    BY <2>3 DEF Answer, storeVars
  <2>5. t.by = r.by /\ t.op = r.op
    BY AppParts DEF NetOK, Request
  <2> HIDE DEF t
  <2> QED
    BY <1>1, <2>1, <2>4, <2>5 DEF OnlyNotes
<1>6. CASE AppHome
  <2>1. /\ UNCHANGED <<queue, net, phase, editor>>
        /\ screen' = "home"
    BY <1>1, <1>2, <1>6 DEF AppHome, HomeStep, HomeAppears, deleteItemAt, DeleteCancelled,
       DeleteRefused, DeleteConfirmed, CloseAlert, Touched, DeleteAnswered, DeleteFails,
       HomeRequest, Spend, chainVars, storeVars
  <2> QED
    BY <1>1, <2>1 DEF OnlyNotes
<1>7. CASE AppWriting
  <2>1. UNCHANGED <<phase, editor>>
    BY <1>7 DEF AppWriting, chainVars
  <2>2. screen' \in {screen, "home", "writing"}
    BY <1>7 DEF AppWriting, WritingStep, OpenWriting, Present, closeBTNtapped, BackHome,
       postBTNtapped, addNote, reachabilityChanged, PostAnswered, PostGarbled, PostFails,
       homeVars
  <2>3. \A r \in net' : r \in net \/ (r.by = "writing" /\ r.op = "post")
    <3>1. ASSUME NEW w, reachabilityChanged(w)
          PROVE  \A r \in net' : r \in net \/ (r.by = "writing" /\ r.op = "post")
      BY <3>1 DEF reachabilityChanged, NewRequest
    <3>2. net' \subseteq net \/ \E w : reachabilityChanged(w)
      BY <1>7 DEF AppWriting, WritingStep, OpenWriting, closeBTNtapped, postBTNtapped, addNote,
         PostAnswered, PostGarbled, PostFails, deviceVars
    <3> QED
      BY <3>1, <3>2
  <2>4. queue' = queue \/ \E x : queue' = [queue EXCEPT !["post"] = x]
    BY <1>7 DEF AppWriting, WritingStep, OpenWriting, closeBTNtapped, postBTNtapped, TapStarts,
       TapQueues, addNote, reachabilityChanged, PostAnswered, PostGarbled, PostFails, Enqueue,
       deviceVars, storeVars
  <2>5. queue'.delete = queue.delete /\ queue'.edit = queue.edit
    BY <1>1, <2>4 DEF Queues
  <2> QED
    BY <1>1, <2>1, <2>2, <2>3, <2>5 DEF OnlyNotes
<1>8. CASE AppEdit
  BY <1>1, <1>2, <1>8 DEF AppEdit, EditStep, editItemAt, editCloseTapped, editPostTapped,
     editReachabilityChanged, EditDismissed, EditAnswered, Spend
<1>9. CASE AppSession
  <2>1. UNCHANGED <<queue, phase, editor>>
    BY <1>1, <1>2, <1>9 DEF AppSession, SessionStep, SignIn, SignUpBack, Registered,
       SignUpFetched, SignUpFails, AccountDeleted, AccountDeletionFails, handleLogout,
       deleteUserData, Spend, chainVars, deviceVars, storeVars
  <2>2. screen' \in {screen, "home", "signUp"}
    BY <1>1, <1>2, <1>9 DEF AppSession, SessionStep, SignIn, SignUpBack, Registered,
       SignUpFetched, SignUpFails, SignUpEnds, BackHome, Present, AccountDeleted,
       AccountDeletionFails, handleLogout, deleteUserData, Spend, homeVars
  <2>3. \A r \in net' : r \in net \/ (r.by = "signUp" /\ r.op \in {"register", "fetch"})
    <3>1. ASSUME NEW x \in Account, SignIn(x)
          PROVE  \A r \in net' : r \in net \/ (r.by = "signUp" /\ r.op = "register")
      BY <3>1 DEF SignIn, NewRequest
    <3>2. ASSUME NEW x \in net, Registered(x)
          PROVE  \A r \in net' : r \in net \/ (r.by = "signUp" /\ r.op = "fetch")
      BY <3>2 DEF Registered, NewRequest
    <3>3. \/ net' \subseteq net
          \/ \E x \in Account : SignIn(x)
          \/ \E x \in net : Registered(x)
      BY <1>1, <1>2, <1>9 DEF AppSession, SessionStep, SignUpBack, SignUpFetched, SignUpFails,
         AccountDeleted, AccountDeletionFails, handleLogout, deleteUserData, Spend, deviceVars
    <3> QED
      BY <3>1, <3>2, <3>3
  <2> QED
    BY <1>1, <2>1, <2>2, <2>3 DEF OnlyNotes
<1>10. CASE AppTraps \/ AppKilled
  <2>1. /\ net' = {} /\ queue' = queue /\ phase' = "none" /\ editor' = NoEditor
        /\ screen' = "off"
    BY <1>10 DEF AppTraps, AppKilled, AllEnds, ProcessEnds, Idle, HomeEnds, EditEnds, storeVars
  <2> QED
    BY <1>1, <2>1 DEF OnlyNotes
<1>11. CASE AppFlip
  <2>1. UNCHANGED <<net, queue, phase, screen, editor>>
    BY <1>1, <1>11 DEF AppFlip, NetworkChanges, ReportToEditor, storeVars, chainVars, homeVars
  <2> QED
    BY <1>1, <2>1 DEF OnlyNotes
<1> QED
  BY <1>3, <1>4, <1>5, <1>6, <1>7, <1>8, <1>9, <1>10, <1>11 DEF AppNext
LEMMA StillGoesOn ==
  ASSUME NEW v \in WritingVC
  PROVE  GoesOn(v, v)
BY DEF GoesOn, WritingVC

LEMMA AppendedWriter ==
  ASSUME NEW S, NEW s \in Seq(S), NEW v, NEW t, t = Append(s, v)
  PROVE  /\ \A i \in DOMAIN s : i \in DOMAIN t /\ t[i] = s[i]
         /\ \A i \in DOMAIN t \ DOMAIN s : t[i] = v
<1>1. Len(s) \in Nat /\ DOMAIN s = 1..Len(s)
  BY LenProperties
<1>2. DOMAIN t = 1..(Len(s) + 1)
  BY <1>1
<1>3. \A i \in 1..(Len(s) + 1) : t[i] = IF i \in 1..Len(s) THEN s[i] ELSE v
  BY <1>1
<1> QED
  BY <1>1, <1>2, <1>3

\* The steps there are while the user writes and signs in only, by what they
\* mean to the notes' way to the server.
LEMMA StepsOfWriting ==
  ASSUME AppInv, OnlyWrites, OnlyNotes, [AppNext]_appVars
  PROVE  \/ Aside
         \/ AppLaunch
         \/ NotifyPosts /\ writers' = writers
         \/ \E r \in net : PostEnds(r)
         \/ \E r \in net : ServerAddsNote(r) /\ UNCHANGED <<phase, snapshot, indicesToRemove, writers>>
         \/ WritersGoOn
         \/ \E w \in DOMAIN writers : \/ postBTNtapped(w) /\ UNCHANGED chainVars
                                      \/ reachabilityChanged(w) /\ UNCHANGED chainVars
         \/ \E r \in net : PostFails(r) /\ UNCHANGED chainVars
         \/ \E x \in Account : SignIn(x) /\ UNCHANGED <<chainVars, writers>>
         \/ AppKilled
<1>1. /\ \A r \in net : /\ r.by \notin {"home", "menu", "editing"}
                        /\ r.op \notin {"edit", "delete", "deleteUser"}
                        /\ r.by = "signUp" => r.op # "post"
                        /\ r.by = "writing" => r.op = "post"
                        /\ r \in Request
      /\ phase \notin {"delete", "edit"} /\ editor = NoEditor /\ editor.stage = "none"
      /\ screen \notin {"alert", "editing", "menu"}
  BY AppParts DEF OnlyNotes, NoEditor, NetOK
<1>2. \A S : SpendAll(S) => "edit" \notin S /\ "delete" \notin S /\ "signOut" \notin S
  BY DEF SpendAll, OnlyWrites
<1>3. \A r \in net : r.op # "post" /\ net' = net \ {r} => Posts(net') = Posts(net)
  BY DEF Posts
<1>4. CASE AppChain
  <2>1. writers' = writers
    BY <1>4 DEF AppChain, screenVars
  <2>2. CASE Notify
    BY <1>1, <2>1, <2>2 DEF Notify, NotifyDeletes, NotifyEdits
  <2>3. ASSUME NEW r \in net, LaunchRequestSucceeds(r) \/ LaunchRequestFails(r) PROVE PostEnds(r)
    BY <1>1, <2>1, <2>3 DEF LaunchRequestSucceeds, LaunchRequestFails, Waiting, Kind, Delivered,
       PostEnds, storeVars, remoteVars
  <2>4. ASSUME NEW r \in net, FetchSucceeds(r) \/ FetchFails(r) PROVE Aside
    BY <1>3, <2>1, <2>4 DEF FetchSucceeds, FetchFails, Fetching, Aside, onTheWay, chainVars,
       storeVars, remoteVars
  <2> QED
    BY <1>4, <2>1, <2>2, <2>3, <2>4 DEF AppChain, LaunchStep
<1>5. CASE AppServer
  <2>1. UNCHANGED <<phase, snapshot, indicesToRemove, writers>>
    BY <1>5 DEF AppServer, chainVars, screenVars
  <2>2. ASSUME NEW r \in net, ServerListsNotes(r) \/ ServerRegisters(r) PROVE Aside
    <3>1. r.op # "post" /\ UNCHANGED <<queue, uid, server>>
      BY <2>2 DEF ServerListsNotes, ServerRegisters, Reaches, Answer, storeVars, remoteVars
    <3>2. PICK id, rows : Answer(r, id, rows)
      BY <2>2 DEF ServerListsNotes, ServerRegisters
    <3> DEFINE t == [r EXCEPT !.done = TRUE, !.id = id, !.rows = rows]
    <3>3. net' = (net \ {r}) \cup {t} /\ t.op = r.op
      BY <1>1, <3>2 DEF Answer, Request
    <3> HIDE DEF t
    <3>4. Posts(net') = Posts(net)
      BY <3>1, <3>3 DEF Posts
    <3> QED
      BY <2>1, <3>1, <3>4 DEF Aside, onTheWay
  <2> QED
    BY <1>1, <1>5, <2>1, <2>2 DEF AppServer, ServerStep, ServerEditsNote, ServerDeletesNote,
       ServerDeletesUser, Reaches
<1>6. CASE AppHome
  <2>1. UNCHANGED <<queue, net, uid, server, phase, snapshot, indicesToRemove, writers>>
    BY <1>1, <1>2, <1>6 DEF AppHome, HomeStep, HomeAppears, deleteItemAt, DeleteCancelled,
       DeleteRefused, DeleteConfirmed, CloseAlert, Touched, DeleteAnswered, DeleteFails,
       HomeRequest, Spend, chainVars, storeVars, remoteVars
  <2> QED
    BY <2>1 DEF Aside, onTheWay
<1>7. CASE AppWriting
  <2>1. /\ WritingTypeOK /\ \A w \in DOMAIN writers : writers[w] \in WritingVC
        /\ UNCHANGED <<phase, snapshot, indicesToRemove>>
    BY <1>7, AppParts, WriterType DEF AppWriting, chainVars
  <2>2. ASSUME NEW w \in DOMAIN writers, NEW f, Update(w, f), GoesOn(writers[w], f),
               UNCHANGED <<queue, uid, server, net>>
        PROVE  WritersGoOn
    BY <2>1, <2>2, StillGoesOn DEF Update, WritersGoOn
  <2>3. ASSUME NEW text \in Text, OpenWriting(text) PROVE WritersGoOn
    <3> DEFINE v == [text |-> text, open |-> TRUE, adds |-> 0, observers |-> 0,
                     notifies |-> FALSE, due |-> 0]
    <3>1. writers' = Append(writers, v) /\ UNCHANGED <<queue, uid, server, net>>
      BY <2>3 DEF OpenWriting, storeVars, remoteVars
    <3>2. ~v.notifies /\ v.due = 0
      OBVIOUS
    <3> HIDE DEF v
    <3>3. /\ \A w \in DOMAIN writers : w \in DOMAIN writers' /\ writers'[w] = writers[w]
          /\ \A w \in DOMAIN writers' \ DOMAIN writers : writers'[w] = v
      BY <2>1, <3>1, AppendedWriter DEF WritingTypeOK
    <3> QED
      BY <2>1, <3>1, <3>2, <3>3, StillGoesOn DEF WritersGoOn
  <2>4. ASSUME NEW w \in DOMAIN writers, closeBTNtapped(w) PROVE WritersGoOn
    <3> DEFINE f == [writers[w] EXCEPT !.open = FALSE]
    <3>1. Update(w, f) /\ UNCHANGED <<queue, uid, server, net>>
      BY <2>4 DEF closeBTNtapped, deviceVars, storeVars, remoteVars
    <3>2. GoesOn(writers[w], f)
      BY <2>1 DEF GoesOn, WritingVC
    <3> QED
      BY <2>2, <3>1, <3>2
  <2>5. ASSUME NEW w \in DOMAIN writers, addNote(w) PROVE WritersGoOn
    <3> DEFINE fewer == writers[w].adds - 1
               f == [writers[w] EXCEPT !.adds = fewer, !.open = FALSE]
    <3>1. fewer \in Nat /\ fewer <= writers[w].adds
      BY <2>1, <2>5 DEF addNote, WritingVC
    <3>2. Update(w, f) /\ UNCHANGED <<queue, uid, server, net>>
      BY <2>5 DEF addNote, remoteVars
    <3> HIDE DEF fewer
    <3>3. GoesOn(writers[w], f)
      BY <2>1, <3>1 DEF GoesOn, WritingVC
    <3> QED
      BY <2>2, <3>2, <3>3
  <2>6. ASSUME NEW r \in net, PostAnswered(r) \/ PostGarbled(r) PROVE PostEnds(r)
    BY <1>1, <2>1, <2>6 DEF PostAnswered, PostGarbled, WritingRequest, Delivered, PostEnds,
       storeVars, remoteVars
  <2> QED
    BY <1>7, <2>3, <2>4, <2>5, <2>6 DEF AppWriting, WritingStep
<1>8. CASE AppEdit
  BY <1>1, <1>2, <1>8 DEF AppEdit, EditStep, editItemAt, editCloseTapped, editPostTapped,
     editReachabilityChanged, EditDismissed, EditAnswered, Spend
<1>9. CASE AppSession
  <2>1. UNCHANGED <<phase, snapshot, indicesToRemove, writers>>
    BY <1>9 DEF AppSession, chainVars
  <2>2. ASSUME NEW r \in net, Registered(r) PROVE Aside
    <3> DEFINE t == NewRequest("signUp", 1, r.idx, "fetch", NoArg)
    <3>1. net' = (net \ {r}) \cup {t} /\ UNCHANGED <<queue, uid, server>> /\ r.op = "register"
      BY <2>2 DEF Registered, SignUpRequest, storeVars, remoteVars
    <3>2. t.op = "fetch"
      BY DEF NewRequest
    <3> HIDE DEF t
    <3>3. Posts(net') = Posts(net)
      BY <3>1, <3>2 DEF Posts
    <3> QED
      BY <2>1, <3>1, <3>3 DEF Aside, onTheWay
  <2>3. ASSUME NEW r \in net, SignUpFetched(r) \/ SignUpFails(r) PROVE Aside
    <3>1. net' = net \ {r} /\ UNCHANGED <<queue, uid, server>> /\ r.op # "post"
      BY <1>1, <2>3 DEF SignUpFetched, SignUpFails, SignUpRequest, storeVars, remoteVars
    <3> QED
      BY <1>3, <2>1, <3>1 DEF Aside, onTheWay
  <2>4. CASE SignUpBack
    BY <2>1, <2>4 DEF SignUpBack, deviceVars, storeVars, remoteVars, Aside, onTheWay
  <2> QED
    BY <1>1, <1>2, <1>9, <2>1, <2>2, <2>3, <2>4 DEF AppSession, SessionStep, AccountDeleted,
       AccountDeletionFails, handleLogout, deleteUserData, Spend
<1>10. CASE AppTraps
  BY <1>1, <1>10 DEF AppTraps, DeleteTraps, Touched
<1>11. CASE AppFlip
  <2>1. /\ UNCHANGED <<queue, uid, server, phase, snapshot, indicesToRemove, net>>
        /\ ReportToWriters
    BY <1>11 DEF AppFlip, NetworkChanges, storeVars, remoteVars, chainVars
  <2>2. DOMAIN writers' = DOMAIN writers
    BY <2>1 DEF ReportToWriters
  <2>3. ASSUME NEW w \in DOMAIN writers PROVE GoesOn(writers[w], writers'[w])
    <3> DEFINE more == writers[w].due + 1
    <3>1. writers[w] \in WritingVC /\ more \in Nat /\ more > 0
      BY AppParts, WriterType DEF WritingVC
    <3>2. \/ writers'[w] = writers[w]
          \/ writers[w].notifies /\ writers'[w] = [writers[w] EXCEPT !.due = more]
      BY <2>1 DEF ReportToWriters
    <3> HIDE DEF more
    <3> QED
      BY <3>1, <3>2 DEF GoesOn, WritingVC
  <2> QED
    BY <2>1, <2>2, <2>3 DEF WritersGoOn
<1>12. CASE UNCHANGED appVars
  BY <1>12 DEF appVars, deviceVars, storeVars, remoteVars, chainVars, screenVars, Aside, onTheWay
<1> QED
  BY <1>4, <1>5, <1>6, <1>7, <1>8, <1>9, <1>10, <1>11, <1>12 DEF AppNext

\* A note with this text is on the server, for the account signed in.
Stored(text) == uid # NoAccount /\ \E i \in DOMAIN server[uid] : server[uid][i].text = text

\* What waits to be sent belongs to the account signed in.
OneSession ==
  /\ \A r \in Posts(net) : uid # NoAccount /\ r.owner = uid
  /\ phase = "post" => uid # NoAccount
  /\ \A w \in DOMAIN writers :
       writers[w].notifies \/ writers[w].due > 0 => uid # NoAccount /\ writers[w].observers > 0

LEMMA SetOfJoined ==
  ASSUME NEW S, NEW s \in Seq(S), NEW t \in Seq(S)
  PROVE  ToSet(s \o t) = ToSet(s) \cup ToSet(t)
<1> DEFINE u == s \o t
<1>1. /\ Len(s) \in Nat /\ DOMAIN s = 1..Len(s)
      /\ Len(t) \in Nat /\ DOMAIN t = 1..Len(t)
  BY LenProperties
<1>2. /\ DOMAIN u = 1..(Len(s) + Len(t))
      /\ \A i \in 1..(Len(s) + Len(t)) :
           u[i] = IF i <= Len(s) THEN s[i] ELSE t[i - Len(s)]
  BY <1>1
<1>3. ASSUME NEW i \in DOMAIN t PROVE t[i] = u[i + Len(s)] /\ i + Len(s) \in DOMAIN u
  BY <1>1, <1>2
<1>4. ASSUME NEW i \in DOMAIN s PROVE s[i] = u[i] /\ i \in DOMAIN u
  BY <1>1, <1>2
<1>5. ASSUME NEW i \in DOMAIN u
      PROVE  (i \in DOMAIN s /\ u[i] = s[i])
              \/ (i - Len(s) \in DOMAIN t /\ u[i] = t[i - Len(s)])
  <2>1. i \in 1..(Len(s) + Len(t))
    BY <1>2
  <2>2. i \in 1..Len(s) \/ (i > Len(s) /\ i - Len(s) \in 1..Len(t))
    BY <1>1, <2>1
  <2> QED
    BY <1>1, <1>2, <2>1, <2>2
<1> HIDE DEF u
<1>6. \A x : x \in ToSet(u) => x \in ToSet(s) \/ x \in ToSet(t)
  BY <1>5 DEF ToSet
<1>7. \A x : x \in ToSet(s) \/ x \in ToSet(t) => x \in ToSet(u)
  BY <1>3, <1>4 DEF ToSet
<1> QED
  BY <1>6, <1>7 DEF u

LEMMA SetOfAppended ==
  ASSUME NEW S, NEW s \in Seq(S), NEW e
  PROVE  ToSet(Append(s, e)) = ToSet(s) \cup {e}
<1>1. Len(s) \in Nat /\ DOMAIN s = 1..Len(s)
  BY LenProperties
<1>2. DOMAIN Append(s, e) = 1..(Len(s) + 1)
  BY <1>1
<1>3. \A i \in 1..(Len(s) + 1) : Append(s, e)[i] = IF i \in 1..Len(s) THEN s[i] ELSE e
  BY <1>1
<1>4. Len(s) + 1 \in 1..(Len(s) + 1) /\ Append(s, e)[Len(s) + 1] = e
  BY <1>1
<1>5. \A i \in 1..Len(s) : i \in 1..(Len(s) + 1)
  BY <1>1
<1> QED
  BY <1>1, <1>2, <1>3, <1>4, <1>5 DEF ToSet

\* A launch captures the notes that wait, if there are any.
LEMMA LaunchSends ==
  ASSUME AppInv, OnlyNotes, AppLaunch
  PROVE  /\ UNCHANGED <<queue, uid, server, writers>> /\ net = {} /\ indicesToRemove' = {}
         /\ \A r \in net' : r.by = "launch"
         /\ \/ phase' = "none" /\ Posts(net') = {}
            \/ /\ phase' = "post" /\ uid # NoAccount /\ snapshot' = queue.post
               /\ \A r \in Posts(net') : r.owner = uid /\ ~r.done
<1>1. /\ net = {} /\ postPendingUserNotes(queue)
      /\ UNCHANGED <<queue, uid, server, writers>>
  BY DEF AppLaunch, Launch, OnlyNotes, AppInv, LaunchInv, postDeletePendingData,
     postEditedPendingData, storeVars, remoteVars, screenVars
<1>2. \A r \in net' : r.by = "launch"
  BY <1>1, ChainSends
<1>3. CASE Idle
  <2>1. Posts(net') = {}
    <3>1. \A r \in net' : r.op = "fetch"
      BY <1>1, <1>3 DEF postPendingUserNotes, Idle, Drain, NewRequest
    <3> QED
      BY <3>1 DEF Posts
  <2> QED
    BY <1>1, <1>2, <1>3, <2>1 DEF Idle
<1>4. CASE ~Idle
  <2>1. uid # NoAccount /\ Drain("post", queue.post)
    BY <1>1, <1>4 DEF postPendingUserNotes
  <2>2. \A r \in net' : r.owner = uid /\ ~r.done
    BY <1>1, <2>1 DEF Drain, NewRequest
  <2> QED
    BY <1>1, <1>2, <2>1, <2>2 DEF Drain, Posts
<1> QED
  BY <1>3, <1>4

\* A tap on Post queues the note, starts a notifier that reports, or starts
\* none.
LEMMA TapEffect ==
  ASSUME AppInv, OneSession, NEW w \in DOMAIN writers, postBTNtapped(w), UNCHANGED chainVars
  PROVE  /\ UNCHANGED <<uid, server, net, phase, snapshot, indicesToRemove, running>>
         /\ DOMAIN writers' = DOMAIN writers
         /\ \A v \in DOMAIN writers : v # w => writers'[v] = writers[v]
         /\ writers'[w].text = writers[w].text
         /\ writers'[w].adds > writers[w].adds
         /\ writers[w].due > 0 => writers'[w].due > 0
         /\ ToSet(queue.post) \subseteq ToSet(queue'.post)
         /\ \/ /\ uid = NoAccount /\ ~writers'[w].notifies /\ ~(writers'[w].due > 0)
               /\ PendingNote(w) \in ToSet(queue'.post)
            \/ /\ uid # NoAccount /\ writers'[w].observers > 0
               /\ \/ writers'[w].notifies /\ (writers[w].notifies \/ writers'[w].due > 0)
                  \/ ~writers'[w].notifies /\ left'["start"] < left["start"]
<1>1. /\ WritingTypeOK /\ writers[w] \in WritingVC /\ queue \in Queues
      /\ left \in [Resource -> Nat] /\ queue.post \in Seq(PendingData)
  BY AppParts, WriterType DEF Queues
<1>2. /\ UNCHANGED <<uid, server, net, phase, snapshot, indicesToRemove, running>>
      /\ IF uid = NoAccount THEN TapQueues(w)
         ELSE \E starts \in {TRUE, writers[w].notifies} : TapStarts(w, starts)
  BY DEF postBTNtapped, chainVars, remoteVars
<1> DEFINE more == writers[w].adds + 1
           again == writers[w].observers + 1
<1>3. more \in Nat /\ more > writers[w].adds /\ again \in Nat /\ again > 0
  BY <1>1 DEF WritingVC
<1>4. CASE uid = NoAccount
  <2>1. /\ Update(w, [writers[w] EXCEPT !.adds = more])
        /\ queue' = [queue EXCEPT !["post"] = Append(queue["post"], PendingNote(w))]
    BY <1>2, <1>4 DEF TapQueues, Enqueue
  <2>2. ToSet(queue'.post) = ToSet(queue.post) \cup {PendingNote(w)}
    BY <1>1, <2>1, SetOfAppended DEF Queues
  <2>3. writers' = [writers EXCEPT ![w] = [writers[w] EXCEPT !.adds = more]]
    BY <2>1 DEF Update
  <2>4. ~writers[w].notifies /\ ~(writers[w].due > 0)
    BY <1>4 DEF OneSession
  <2> HIDE DEF more
  <2>5. /\ DOMAIN writers' = DOMAIN writers
        /\ \A v \in DOMAIN writers : v # w => writers'[v] = writers[v]
        /\ writers'[w].text = writers[w].text
        /\ writers'[w].adds = more
        /\ writers'[w].due = writers[w].due
        /\ writers'[w].notifies = writers[w].notifies
    BY <1>1, <2>3 DEF WritingVC
  <2> QED
    BY <1>2, <1>3, <1>4, <2>2, <2>4, <2>5
<1>5. CASE uid # NoAccount
  <2>1. PICK starts \in {TRUE, writers[w].notifies} : TapStarts(w, starts)
    BY <1>2, <1>5
  <2> DEFINE told == IF starts /\ ~writers[w].notifies THEN writers[w].due + 1
                                                     ELSE writers[w].due
  <2>2. /\ starts \in BOOLEAN /\ told \in Nat
        /\ writers[w].due > 0 => told > 0
        /\ starts /\ ~writers[w].notifies => told > 0
    <3>1. writers[w].notifies \in BOOLEAN /\ writers[w].due \in Nat
      BY <1>1 DEF WritingVC
    <3>2. starts \in BOOLEAN
      BY <3>1
    <3>3. writers[w].due + 1 \in Nat /\ writers[w].due + 1 > 0
      BY <3>1
    <3> QED
      BY <3>1, <3>2, <3>3
  <2>3. writers' = [writers EXCEPT ![w] =
                      [writers[w] EXCEPT !.adds = more, !.observers = again,
                                         !.notifies = starts, !.due = told]]
    BY <2>1 DEF TapStarts, Update
  <2>4. queue' = queue
    BY <2>1 DEF TapStarts
  <2>5. ~starts => left'["start"] < left["start"]
    <3>1. "start" \in Resource /\ left["start"] \in Nat
      BY <1>1, ScreenLimits
    <3>2. ASSUME ~starts PROVE left'["start"] = left["start"] - 1
      BY <2>1, <3>1, <3>2 DEF TapStarts, SpendAll
    <3> QED
      BY <3>1, <3>2
  <2>6. ~starts => ~writers[w].notifies
    BY <2>1
  <2> HIDE DEF more, again, told
  <2>7. /\ DOMAIN writers' = DOMAIN writers
        /\ \A v \in DOMAIN writers : v # w => writers'[v] = writers[v]
        /\ writers'[w].text = writers[w].text
        /\ writers'[w].adds = more
        /\ writers'[w].observers = again
        /\ writers'[w].notifies = starts
        /\ writers'[w].due = told
    BY <1>1, <1>3, <2>2, <2>3 DEF WritingVC
  <2> QED
    BY <1>2, <1>3, <1>5, <2>2, <2>4, <2>5, <2>6, <2>7
<1> QED
  BY <1>4, <1>5

\* A report sends the note, or queues it.
LEMMA ReportEffect ==
  ASSUME AppInv, OneSession, NEW w \in DOMAIN writers, reachabilityChanged(w),
         UNCHANGED chainVars
  PROVE  /\ UNCHANGED <<uid, server, phase, snapshot, indicesToRemove, running>>
         /\ DOMAIN writers' = DOMAIN writers
         /\ \A v \in DOMAIN writers : v # w => writers'[v] = writers[v]
         /\ writers[w].due > 0 /\ uid # NoAccount
         /\ writers'[w].text = writers[w].text
         /\ writers'[w].notifies = writers[w].notifies
         /\ writers'[w].observers = writers[w].observers
         /\ writers'[w].adds = writers[w].adds
         /\ ToSet(queue.post) \subseteq ToSet(queue'.post)
         /\ net \subseteq net'
         /\ \A r \in net' \ net :
              /\ r.by = "writing" /\ r.who = w /\ r.op = "post" /\ r.owner = uid /\ ~r.done
              /\ r.arg = Sent(w)
              /\ \A q \in net : q.by = "writing" => q.idx # r.idx
              /\ \A q \in net' \ net : q.idx = r.idx => q = r
         /\ \/ \E r \in net' : r.op = "post" /\ ~r.done /\ r.arg.text = writers[w].text
            \/ \E y \in ToSet(queue'.post) : y.text = writers[w].text
<1> DEFINE n == writers[w].observers
           fewer == writers[w].due - 1
<1>1. /\ WritingTypeOK /\ writers[w] \in WritingVC /\ queue \in Queues
      /\ NetOK /\ queue.post \in Seq(PendingData) /\ PendingNote(w) \in PendingData
  BY AppParts, WriterType, PendingType DEF Queues
<1>2. /\ UNCHANGED <<uid, server, phase, snapshot, indicesToRemove, running>>
      /\ writers[w].due > 0
      /\ writers' = [writers EXCEPT ![w] = [writers[w] EXCEPT !.due = fewer]]
  BY DEF reachabilityChanged, chainVars, remoteVars, Update
<1>3. uid # NoAccount /\ n \in Nat /\ n > 0 /\ fewer \in Nat
  BY <1>1, <1>2 DEF OneSession, WritingVC
<1> HIDE DEF fewer
<1>4. /\ DOMAIN writers' = DOMAIN writers
      /\ \A v \in DOMAIN writers : v # w => writers'[v] = writers[v]
      /\ writers'[w].text = writers[w].text
      /\ writers'[w].notifies = writers[w].notifies
      /\ writers'[w].observers = writers[w].observers
      /\ writers'[w].adds = writers[w].adds
  BY <1>1, <1>2 DEF WritingVC
<1>5. CASE online
  <2> DEFINE base == Fresh("writing")
             rq(k) == NewRequest("writing", w, base + k, "post", Sent(w))
  <2>1. net' = net \cup {rq(k) : k \in 1..n} /\ queue' = queue
    BY <1>3, <1>5 DEF reachabilityChanged
  <2>2. base \in Nat /\ \A q \in net : q.by = "writing" => q.idx < base /\ q.idx \in Nat
    BY <1>1, FreshIsUnused DEF NetOK, Request
  <2>3. \A k \in 1..n : /\ rq(k).by = "writing" /\ rq(k).who = w /\ rq(k).op = "post"
                        /\ rq(k).owner = uid /\ rq(k).done = FALSE /\ rq(k).arg = Sent(w)
                        /\ rq(k).idx = base + k
    BY DEF NewRequest
  <2> HIDE DEF base, n
  <2>4. \A k \in 1..n : \A q \in net : q.by = "writing" => q.idx # base + k
    BY <1>3, <2>2
  <2>5. \A j, k \in 1..n : base + j = base + k => j = k
    BY <1>3, <2>2
  <2>6. 1 \in 1..n
    BY <1>3
  <2>7. Sent(w).text = writers[w].text
    BY DEF Sent
  <2> HIDE DEF rq
  <2>8. rq(1) \in net' /\ rq(1).arg.text = writers[w].text
    BY <2>1, <2>3, <2>6, <2>7
  <2>9. \A r \in net' \ net :
              /\ r.by = "writing" /\ r.who = w /\ r.op = "post" /\ r.owner = uid /\ ~r.done
              /\ r.arg = Sent(w)
              /\ \A q \in net : q.by = "writing" => q.idx # r.idx
              /\ \A q \in net' \ net : q.idx = r.idx => q = r
    BY <2>1, <2>3, <2>4, <2>5
  <2> QED
    BY <1>2, <1>3, <1>4, <2>1, <2>3, <2>6, <2>8, <2>9
<1>6. CASE ~online
  <2> DEFINE more == [k \in 1..n |-> PendingNote(w)]
  <2>1. queue' = [queue EXCEPT !.post = queue.post \o more] /\ net' = net
    BY <1>6 DEF reachabilityChanged
  <2>2. more \in Seq(PendingData) /\ 1 \in DOMAIN more /\ more[1] = PendingNote(w)
    BY <1>1, <1>3
  <2> HIDE DEF more
  <2>3. queue'.post = queue.post \o more
    BY <1>1, <2>1 DEF Queues
  <2>4. ToSet(queue'.post) = ToSet(queue.post) \cup ToSet(more)
    BY <1>1, <2>2, <2>3, SetOfJoined
  <2>5. PendingNote(w) \in ToSet(more) /\ PendingNote(w).text = writers[w].text
    BY <2>2 DEF ToSet, PendingNote
  <2> QED
    BY <1>2, <1>3, <1>4, <2>1, <2>4, <2>5
<1> QED
  BY <1>5, <1>6

\* The server carries out the request of a note.
LEMMA AddEffect ==
  ASSUME AppInv, OneSession, NEW r \in net, ServerAddsNote(r)
  PROVE  /\ UNCHANGED <<queue, uid, running>> /\ uid # NoAccount
         /\ r.op = "post" /\ ~r.done
         /\ \E t : /\ net' = (net \ {r}) \cup {t}
                   /\ t.by = r.by /\ t.who = r.who /\ t.idx = r.idx /\ t.op = r.op
                   /\ t.owner = r.owner /\ t.arg = r.arg /\ t.done
         /\ Stored(r.arg.text)'
         /\ \A text : Stored(text) => Stored(text)'
<1>1. /\ r \in Request /\ server \in [Account -> Seq(ServerNote)]
      /\ uid \in Account \cup {NoAccount}
  BY AppParts DEF NetOK, DeviceTypeOK
<1>2. /\ r.op = "post" /\ ~r.done /\ Answer(r, nextID, <<>>)
      /\ server' = [server EXCEPT ![r.owner] =
                      Append(server[r.owner], [id |-> nextID, text |-> r.arg.text])]
  BY DEF ServerAddsNote, Reaches
<1>3. UNCHANGED <<queue, uid, running>>
  BY <1>2 DEF Answer, storeVars
<1>4. uid # NoAccount /\ r.owner = uid /\ uid \in Account
  BY <1>1, <1>2 DEF OneSession, Posts
<1> DEFINE note == [id |-> nextID, text |-> r.arg.text]
<1>5. server'[uid] = Append(server[uid], note) /\ server[uid] \in Seq(ServerNote)
  BY <1>1, <1>2, <1>4
<1>6. note.text = r.arg.text
  OBVIOUS
<1> HIDE DEF note
<1>7. Len(server[uid]) \in Nat /\ DOMAIN server[uid] = 1..Len(server[uid])
  BY <1>5, LenProperties
<1>8. \A i \in DOMAIN server[uid] : i \in DOMAIN server'[uid] /\ server'[uid][i] = server[uid][i]
  BY <1>5, AppendedWriter
<1>9. Len(server[uid]) + 1 \in DOMAIN server'[uid] /\ server'[uid][Len(server[uid]) + 1] = note
  BY <1>5, <1>7
<1>10. Stored(r.arg.text)' /\ \A text : Stored(text) => Stored(text)'
  BY <1>3, <1>4, <1>6, <1>8, <1>9 DEF Stored
<1> DEFINE t == [r EXCEPT !.done = TRUE, !.id = nextID, !.rows = <<>>]
<1>11. /\ net' = (net \ {r}) \cup {t}
       /\ t.by = r.by /\ t.who = r.who /\ t.idx = r.idx /\ t.op = r.op
       /\ t.owner = r.owner /\ t.arg = r.arg /\ t.done
  BY <1>1, <1>2 DEF Answer, Request
<1> QED
  BY <1>2, <1>3, <1>4, <1>10, <1>11
\* Killed, the app leaves its stores and nothing else.
LEMMA KillEffect ==
  ASSUME AppKilled
  PROVE  /\ UNCHANGED <<queue, uid, server>> /\ running /\ ~running'
         /\ net' = {} /\ phase' = "none" /\ writers' = <<>> /\ indicesToRemove' = {}
BY DEF AppKilled, AllEnds, ProcessEnds, Idle, storeVars, remoteVars

LEMMA SessionStays ==
  ASSUME AppInv, OnlyWrites, OnlyNotes, OneSession, [AppNext]_appVars
  PROVE  OneSession' /\ (uid # NoAccount => uid' = uid)
<1>1. CASE Aside
  BY <1>1 DEF Aside, onTheWay, OneSession
<1>2. CASE AppLaunch
  BY <1>2, LaunchSends DEF OneSession
<1>3. CASE NotifyPosts /\ writers' = writers
  BY <1>3 DEF NotifyPosts, Idle, OneSession
<1>4. ASSUME NEW r \in net, PostEnds(r) PROVE OneSession' /\ uid' = uid
  BY <1>4 DEF PostEnds, OneSession, Posts
<1>5. ASSUME NEW r \in net, ServerAddsNote(r),
             UNCHANGED <<phase, snapshot, indicesToRemove, writers>>
      PROVE  OneSession' /\ uid' = uid
  <2>1. /\ uid' = uid /\ r \in Posts(net)
        /\ \A q \in Posts(net') : q \in Posts(net) \/ q.owner = r.owner
    BY <1>5, AddEffect DEF Posts
  <2> QED
    BY <1>5, <2>1 DEF OneSession
<1>6. CASE WritersGoOn
  BY <1>6 DEF WritersGoOn, GoesOn, OneSession
<1>7. ASSUME NEW w \in DOMAIN writers, postBTNtapped(w), UNCHANGED chainVars
      PROVE  OneSession' /\ uid' = uid
  BY <1>7, TapEffect DEF OneSession
<1>8. ASSUME NEW w \in DOMAIN writers, reachabilityChanged(w), UNCHANGED chainVars
      PROVE  OneSession' /\ uid' = uid
  <2>1. \A q \in Posts(net') : q \in Posts(net) \/ (q.owner = uid /\ uid # NoAccount)
    BY <1>8, ReportEffect DEF Posts
  <2> QED
    BY <1>8, <2>1, ReportEffect DEF OneSession
<1>9. ASSUME NEW r \in net, PostFails(r), UNCHANGED chainVars
      PROVE  OneSession' /\ uid' = uid
  BY <1>9 DEF PostFails, OneSession, Posts, chainVars
<1>10. ASSUME NEW x \in Account, SignIn(x), UNCHANGED <<chainVars, writers>>
       PROVE  OneSession' /\ uid = NoAccount
  <2>1. uid = NoAccount
    BY <1>10 DEF SignIn
  <2>2. \A r \in net' : r \in net \/ r.op = "register"
    BY <1>10 DEF SignIn, NewRequest
  <2> QED
    BY <1>10, <2>1, <2>2 DEF OneSession, Posts, chainVars
<1>11. CASE AppKilled
  BY <1>11, KillEffect DEF OneSession, Posts
<1> QED
  BY <1>1, <1>2, <1>3, <1>4, <1>5, <1>6, <1>7, <1>8, <1>9, <1>10, <1>11, StepsOfWriting
     DEF Aside

---------------------------------------------------------------------------
(* What the app relies on while notes are on their way.                    *)

\* What a drain captured is still in the queue: it only grows meanwhile.
StillQueued == phase = "post" => ToSet(snapshot) \subseteq ToSet(queue.post)

\* What is acknowledged, and what is about to be, is on the server.
AnswersStored ==
  /\ phase = "post" => \A i \in indicesToRemove : Stored(snapshot[i].text)
  /\ \A r \in Posts(net) : r.done => Stored(r.arg.text)

\* A WritingVC's requests carry its text, and are told apart by their idx.
OwnTexts ==
  \A r \in Posts(net) : r.by = "writing" => r.arg.text = writers[r.who].text

WritersApart ==
  \A r, s \in Posts(net) : r.by = "writing" /\ s.by = "writing" /\ r.idx = s.idx => r = s

NotesInv == /\ AppInv /\ OnlyWrites /\ OnlyNotes /\ OneSession
            /\ StillQueued /\ AnswersStored /\ OwnTexts /\ WritersApart

LEMMA StoredStays ==
  ASSUME NotesInv, [AppNext]_appVars, NEW text, Stored(text)
  PROVE  Stored(text)'
<1>1. uid' = uid /\ uid # NoAccount
  BY SessionStays DEF NotesInv, Stored
<1>2. CASE server' = server
  BY <1>1, <1>2 DEF Stored
<1>3. ASSUME NEW r \in net, ServerAddsNote(r) PROVE Stored(text)'
  BY <1>3, AddEffect DEF NotesInv
<1>4. server' = server \/ \E r \in net : ServerAddsNote(r)
  <2>1. AppLaunch => server' = server
    BY DEF AppLaunch, Launch, remoteVars
  <2>2. NotifyPosts => server' = server
    BY DEF NotifyPosts, remoteVars
  <2>3. \A w : postBTNtapped(w) \/ reachabilityChanged(w) => server' = server
    BY DEF postBTNtapped, reachabilityChanged, remoteVars
  <2>4. \A r : PostFails(r) => server' = server
    BY DEF PostFails, remoteVars
  <2>5. \A x : SignIn(x) => server' = server
    BY DEF SignIn, remoteVars
  <2> QED
    BY <2>1, <2>2, <2>3, <2>4, <2>5, StepsOfWriting, KillEffect
       DEF NotesInv, Aside, onTheWay, PostEnds, WritersGoOn
<1> QED
  BY <1>2, <1>3, <1>4

\* A failed post is queued again.
LEMMA FailEffect ==
  ASSUME AppInv, NEW r \in net, PostFails(r), UNCHANGED chainVars
  PROVE  /\ UNCHANGED <<uid, server, phase, snapshot, indicesToRemove, writers, running>>
         /\ r.by = "writing" /\ net' = net \ {r}
         /\ ToSet(queue'.post) = ToSet(queue.post) \cup {PendingNote(r.who)}
<1>1. /\ UNCHANGED <<uid, server, phase, snapshot, indicesToRemove, writers, running>>
      /\ r.by = "writing" /\ net' = net \ {r}
      /\ queue' = [queue EXCEPT !["post"] = Append(queue["post"], PendingNote(r.who))]
  BY DEF PostFails, WritingRequest, Enqueue, chainVars, remoteVars
<1>2. queue \in Queues /\ queue.post \in Seq(PendingData)
  BY AppParts DEF Queues
<1>3. queue'.post = Append(queue.post, PendingNote(r.who))
  BY <1>1, <1>2 DEF Queues
<1> QED
  BY <1>1, <1>2, <1>3, SetOfAppended

LEMMA SignInEffect ==
  ASSUME NEW x \in Account, SignIn(x), UNCHANGED <<chainVars, writers>>
  PROVE  /\ UNCHANGED <<queue, server, phase, snapshot, indicesToRemove, writers, running>>
         /\ Posts(net') = Posts(net) /\ uid = NoAccount
<1>1. /\ UNCHANGED <<queue, server, phase, snapshot, indicesToRemove, writers, running>>
      /\ uid = NoAccount
  BY DEF SignIn, chainVars, remoteVars
<1> DEFINE r == [NewRequest("signUp", 1, Fresh("signUp"), "register", NoArg) EXCEPT !.owner = x]
<1>2. net' = net \cup {r}
  BY DEF SignIn
<1>3. r.op = "register"
  BY DEF NewRequest
<1> HIDE DEF r
<1> QED
  BY <1>1, <1>2, <1>3 DEF Posts

LEMMA StillQueuedStays ==
  ASSUME NotesInv, [AppNext]_appVars
  PROVE  StillQueued'
<1>1. CASE UNCHANGED <<queue, phase, snapshot>>
  BY <1>1 DEF NotesInv, StillQueued
<1>2. CASE AppLaunch
  BY <1>2, LaunchSends DEF NotesInv, StillQueued
<1>3. CASE phase' = "none"
  BY <1>3 DEF StillQueued
<1>4. CASE UNCHANGED <<phase, snapshot>> /\ ToSet(queue.post) \subseteq ToSet(queue'.post)
  BY <1>4 DEF NotesInv, StillQueued
<1>5. ASSUME NEW r \in net, ServerAddsNote(r), UNCHANGED <<phase, snapshot>>
      PROVE  UNCHANGED <<queue, phase, snapshot>>
  BY <1>5, AddEffect DEF NotesInv
<1>6. ASSUME NEW w \in DOMAIN writers, postBTNtapped(w) \/ reachabilityChanged(w),
             UNCHANGED chainVars
      PROVE  UNCHANGED <<phase, snapshot>> /\ ToSet(queue.post) \subseteq ToSet(queue'.post)
  BY <1>6, TapEffect, ReportEffect DEF NotesInv
<1>7. ASSUME NEW r \in net, PostFails(r), UNCHANGED chainVars
      PROVE  UNCHANGED <<phase, snapshot>> /\ ToSet(queue.post) \subseteq ToSet(queue'.post)
  BY <1>7, FailEffect DEF NotesInv
<1>8. ASSUME NEW x \in Account, SignIn(x), UNCHANGED <<chainVars, writers>>
      PROVE  UNCHANGED <<queue, phase, snapshot>>
  BY <1>8, SignInEffect
<1>9. NotifyPosts \/ AppKilled => phase' = "none"
  BY KillEffect DEF NotifyPosts, Idle
<1> QED
  BY <1>1, <1>2, <1>3, <1>4, <1>5, <1>6, <1>7, <1>8, <1>9, StepsOfWriting
     DEF NotesInv, Aside, onTheWay, PostEnds, WritersGoOn

LEMMA AnswersStoredStays ==
  ASSUME NotesInv, [AppNext]_appVars
  PROVE  AnswersStored'
<1>0. \A text : Stored(text) => Stored(text)'
  BY StoredStays
<1>1. CASE /\ phase' = "none" \/ UNCHANGED <<phase, snapshot, indicesToRemove>>
           /\ \A r \in Posts(net') : r \in Posts(net) \/ ~r.done
  BY <1>0, <1>1 DEF NotesInv, AnswersStored
<1>2. CASE AppLaunch
  <2>1. indicesToRemove' = {} /\ \A r \in Posts(net') : ~r.done
    BY <1>2, LaunchSends DEF NotesInv
  <2> QED
    BY <2>1 DEF AnswersStored
<1>3. ASSUME NEW r \in net, PostEnds(r) PROVE AnswersStored'
  <2>1. /\ UNCHANGED <<phase, snapshot>> /\ \A q \in Posts(net') : q \in Posts(net)
        /\ indicesToRemove' = indicesToRemove
             \/ /\ indicesToRemove' = indicesToRemove \cup {r.idx}
                /\ r.by = "launch" /\ r.done /\ r.op = "post"
    BY <1>3 DEF PostEnds, Posts
  <2>2. ASSUME r.by = "launch", r.done, r.op = "post", phase = "post"
        PROVE  Stored(snapshot[r.idx].text)
    <3>1. r \in InFlight /\ Barrier
      BY <2>2 DEF NotesInv, AppInv, LaunchInv, ChainOK, InFlight, Kind
    <3>2. r.arg = snapshot[r.idx]
      BY <3>1 DEF Barrier
    <3> QED
      BY <2>2, <3>2 DEF NotesInv, AnswersStored, Posts
  <2> QED
    BY <1>0, <2>1, <2>2 DEF NotesInv, AnswersStored
<1>4. ASSUME NEW r \in net, ServerAddsNote(r), UNCHANGED <<phase, snapshot, indicesToRemove>>
      PROVE  AnswersStored'
  <2>1. /\ Stored(r.arg.text)'
        /\ \A q \in Posts(net') : q \in Posts(net) \/ q.arg = r.arg
    BY <1>4, AddEffect DEF NotesInv, Posts
  <2> QED
    BY <1>0, <1>4, <2>1 DEF NotesInv, AnswersStored
<1>5. ASSUME NEW w \in DOMAIN writers, postBTNtapped(w) \/ reachabilityChanged(w),
             UNCHANGED chainVars
      PROVE  /\ UNCHANGED <<phase, snapshot, indicesToRemove>>
             /\ \A r \in Posts(net') : r \in Posts(net) \/ ~r.done
  BY <1>5, TapEffect, ReportEffect DEF NotesInv, Posts
<1>6. ASSUME NEW r \in net, PostFails(r), UNCHANGED chainVars
      PROVE  /\ UNCHANGED <<phase, snapshot, indicesToRemove>>
             /\ \A q \in Posts(net') : q \in Posts(net)
  BY <1>6, FailEffect DEF NotesInv, Posts
<1>7. ASSUME NEW x \in Account, SignIn(x), UNCHANGED <<chainVars, writers>>
      PROVE  UNCHANGED <<phase, snapshot, indicesToRemove>> /\ Posts(net') = Posts(net)
  BY <1>7, SignInEffect
<1>8. NotifyPosts \/ AppKilled => phase' = "none" /\ \A r \in Posts(net') : r \in Posts(net)
  BY KillEffect DEF NotifyPosts, Idle, Posts
<1> QED
  BY <1>1, <1>2, <1>3, <1>4, <1>5, <1>6, <1>7, <1>8, StepsOfWriting
     DEF NotesInv, Aside, onTheWay, WritersGoOn, Posts

LEMMA OwnTextsStay ==
  ASSUME NotesInv, [AppNext]_appVars
  PROVE  OwnTexts'
<1>0. \A r \in Posts(net) : r.by = "writing" => r.who \in DOMAIN writers
  BY AppParts DEF NotesInv, Callbacks, Posts
<1>1. CASE /\ Posts(net') \subseteq Posts(net)
           /\ \A w \in DOMAIN writers : writers'[w].text = writers[w].text
  BY <1>0, <1>1 DEF NotesInv, OwnTexts
<1>2. CASE \A r \in Posts(net') : r.by = "launch"
  BY <1>2 DEF OwnTexts
<1>3. ASSUME NEW r \in net, ServerAddsNote(r), writers' = writers PROVE OwnTexts'
  <2>1. /\ r \in Posts(net)
        /\ \A q \in Posts(net') : \/ q \in Posts(net)
                                  \/ q.by = r.by /\ q.who = r.who /\ q.arg = r.arg
    BY <1>3, AddEffect DEF NotesInv, Posts
  <2> QED
    BY <1>3, <2>1 DEF NotesInv, OwnTexts
<1>4. ASSUME NEW w \in DOMAIN writers, reachabilityChanged(w), UNCHANGED chainVars
      PROVE  OwnTexts'
  <2>1. /\ \A v \in DOMAIN writers : writers'[v].text = writers[v].text
        /\ \A r \in Posts(net') : r \in Posts(net) \/ (r.who = w /\ r.arg = Sent(w))
    BY <1>4, ReportEffect DEF NotesInv, Posts
  <2>2. Sent(w).text = writers[w].text
    BY DEF Sent
  <2> QED
    BY <1>0, <2>1, <2>2 DEF NotesInv, OwnTexts
<1>5. ASSUME NEW w \in DOMAIN writers, postBTNtapped(w), UNCHANGED chainVars
      PROVE  /\ Posts(net') = Posts(net)
             /\ \A v \in DOMAIN writers : writers'[v].text = writers[v].text
  BY <1>5, TapEffect DEF NotesInv
<1>6. ASSUME NEW r \in net, PostFails(r), UNCHANGED chainVars
      PROVE  Posts(net') \subseteq Posts(net) /\ writers' = writers
  BY <1>6, FailEffect DEF NotesInv, Posts
<1>7. ASSUME NEW x \in Account, SignIn(x), UNCHANGED <<chainVars, writers>>
      PROVE  Posts(net') = Posts(net) /\ writers' = writers
  BY <1>7, SignInEffect
<1>8. NotifyPosts => Posts(net') = Posts(net)
  BY DEF NotifyPosts
<1>9. AppLaunch \/ AppKilled => \A r \in Posts(net') : r.by = "launch"
  BY LaunchSends, KillEffect DEF NotesInv, Posts
<1>10. CASE Aside
  BY <1>1, <1>10 DEF Aside, onTheWay
<1>11. CASE WritersGoOn
  BY <1>1, <1>11 DEF WritersGoOn, GoesOn, Posts
<1>12. ASSUME NEW r \in net, PostEnds(r)
       PROVE  Posts(net') \subseteq Posts(net) /\ writers' = writers
  BY <1>12 DEF PostEnds, Posts
<1> QED
  BY <1>1, <1>2, <1>3, <1>4, <1>5, <1>6, <1>7, <1>8, <1>9, <1>10, <1>11, <1>12, StepsOfWriting
     DEF NotesInv

LEMMA WritersApartStay ==
  ASSUME NotesInv, [AppNext]_appVars
  PROVE  WritersApart'
<1>1. CASE Posts(net') \subseteq Posts(net)
  BY <1>1 DEF NotesInv, WritersApart
<1>2. CASE \A r \in Posts(net') : r.by = "launch"
  BY <1>2 DEF WritersApart
<1>3. ASSUME NEW r \in net, ServerAddsNote(r) PROVE WritersApart'
  <2>1. r \in Posts(net) /\ \E t : /\ Posts(net') \subseteq (Posts(net) \ {r}) \cup {t}
                                   /\ t.by = r.by /\ t.idx = r.idx
    BY <1>3, AddEffect DEF NotesInv, Posts
  <2> QED
    BY <2>1 DEF NotesInv, WritersApart
<1>4. ASSUME NEW w \in DOMAIN writers, reachabilityChanged(w), UNCHANGED chainVars
      PROVE  WritersApart'
  <2>1. \A r \in net' \ net : /\ \A q \in net : q.by = "writing" => q.idx # r.idx
                              /\ \A q \in net' \ net : q.idx = r.idx => q = r
    BY <1>4, ReportEffect DEF NotesInv
  <2> QED
    BY <2>1 DEF NotesInv, WritersApart, Posts
<1>5. ASSUME NEW w \in DOMAIN writers, postBTNtapped(w), UNCHANGED chainVars
      PROVE  Posts(net') = Posts(net)
  BY <1>5, TapEffect DEF NotesInv
<1>6. ASSUME NEW r \in net, PostFails(r), UNCHANGED chainVars
      PROVE  Posts(net') \subseteq Posts(net)
  BY <1>6, FailEffect DEF NotesInv, Posts
<1>7. ASSUME NEW x \in Account, SignIn(x), UNCHANGED <<chainVars, writers>>
      PROVE  Posts(net') = Posts(net)
  BY <1>7, SignInEffect
<1>8. NotifyPosts \/ WritersGoOn => Posts(net') = Posts(net)
  BY DEF NotifyPosts, WritersGoOn
<1>9. AppLaunch \/ AppKilled => \A r \in Posts(net') : r.by = "launch"
  BY LaunchSends, KillEffect DEF NotesInv, Posts
<1>10. ASSUME NEW r \in net, PostEnds(r) PROVE Posts(net') \subseteq Posts(net)
  BY <1>10 DEF PostEnds, Posts
<1> QED
  BY <1>1, <1>2, <1>3, <1>4, <1>5, <1>6, <1>7, <1>8, <1>9, <1>10, StepsOfWriting
     DEF NotesInv, Aside

---------------------------------------------------------------------------
(* Where a note is, and how it gets from one place to the next.            *)

Due(text)        == \E w \in DOMAIN writers : writers[w].text = text /\ writers[w].due > 0
Waits(text)      == \E y \in ToSet(queue.post) : y.text = text
Travels(text)    == \E r \in Posts(net) : ~r.done /\ r.arg.text = text
LeftBehind(text) == \E p \in abandoned : p[1] = "post" /\ p[2].text = text

Safe(text) == Due(text) \/ Stored(text) \/ Waits(text) \/ Travels(text) \/ LeftBehind(text)

LEMMA SafeMeans == PostedNoteSurvives <=> \A text \in posted : Safe(text)
BY DEF PostedNoteSurvives, Pursued, InQueue, Travelling, Abandoned, Same, Safe, Due, Stored,
       Waits, Travels, LeftBehind, Posts

LEMMA SafeStillMeans ==
  ASSUME \A text \in posted' : Safe(text)'
  PROVE  PostedNoteSurvives'
BY DEF PostedNoteSurvives, Pursued, InQueue, Travelling, Abandoned, Same, Safe, Due, Stored,
       Waits, Travels, LeftBehind, Posts

\* What is given up on in a step is remembered.
LEMMA GivesUp ==
  ASSUME MCNext, NEW x, NEW text, x.text = text,
         <<"post", x>> \in GivenUp \cup Unreported \cup Unstarted \cup Overwritten
  PROVE  LeftBehind(text)'
<1>1. <<"post", x>> \in abandoned'
  BY DEF MCNext
<1>2. <<"post", x>>[1] = "post" /\ <<"post", x>>[2] = x
  OBVIOUS
<1> QED
  BY <1>1, <1>2 DEF LeftBehind

\* The notify block keeps what was not acknowledged, and writes over what was
\* queued since.
LEMMA NotifyKeeps ==
  ASSUME NotesInv, MCNext, NotifyPosts, NEW text, Waits(text)
  PROVE  Safe(text)'
<1>1. PICK y \in ToSet(queue.post) : y.text = text
  BY DEF Waits
<1>2. /\ phase = "post" /\ uid' = uid /\ server' = server
      /\ queue \in Queues /\ snapshot \in Seq(PendingData)
      /\ queue' = [queue EXCEPT !["post"] = removeAtOffsets(snapshot, indicesToRemove)]
  BY AppParts DEF NotesInv, NotifyPosts, Written, remoteVars, AppInv, LaunchInv, ChainOK, Items,
     Kind
<1>3. queue'.post = removeAtOffsets(snapshot, indicesToRemove)
  BY <1>2 DEF Queues
<1>4. CASE y \notin ToSet(snapshot)
  <2>1. CASE InQueue("post", y, queue')
    BY <1>1, <2>1 DEF InQueue, Same, Safe, Waits
  <2>2. CASE ~InQueue("post", y, queue')
    <3>1. <<"post", y>> \in Overwritten
      BY <1>1, <1>2, <1>4, <2>2 DEF Overwritten, Kind
    <3> QED
      BY <1>1, <3>1, GivesUp DEF Safe
  <2> QED
    BY <2>1, <2>2
<1>5. ASSUME NEW i \in DOMAIN snapshot, y = snapshot[i] PROVE Safe(text)'
  <2>1. CASE i \in indicesToRemove
    <3>1. Stored(text)
      BY <1>1, <1>2, <1>5, <2>1 DEF NotesInv, AnswersStored
    <3> QED
      BY <1>2, <3>1 DEF Stored, Safe
  <2>2. CASE i \notin indicesToRemove
    <3>1. i \in Kept(snapshot, indicesToRemove)
      BY <1>5, <2>2 DEF Kept
    <3>2. \E k \in DOMAIN queue'.post : queue'.post[k] = snapshot[i]
      BY <1>2, <1>3, <3>1, KeptIsLeft
    <3> QED
      BY <1>1, <1>5, <3>2 DEF ToSet, Waits, Safe
  <2> QED
    BY <2>1, <2>2
<1> QED
  BY <1>4, <1>5 DEF ToSet

\* A request that ends is acknowledged, still in the queue, or garbled.
LEMMA EndKeeps ==
  ASSUME NotesInv, MCNext, NEW r \in net, PostEnds(r), NEW text, Travels(text)
  PROVE  Safe(text)'
<1>1. PICK q \in Posts(net) : ~q.done /\ q.arg.text = text
  BY DEF Travels
<1>2. /\ r \in net /\ r.op = "post" /\ net' = net \ {r}
      /\ UNCHANGED <<queue, uid, server, phase, snapshot, writers>>
  BY DEF PostEnds
<1>3. CASE q # r
  BY <1>1, <1>2, <1>3 DEF Posts, Travels, Safe
<1>4. CASE q = r /\ r.by = "launch"
  <2>1. r \in InFlight /\ Barrier /\ snapshot \in Seq(Entry)
    BY <1>2, <1>4 DEF NotesInv, AppInv, LaunchInv, ChainOK, InFlight, Kind
  <2>2. phase = "post" /\ r.arg \in ToSet(snapshot)
    BY <1>2, <2>1 DEF Barrier, ToSet
  <2>3. r.arg \in ToSet(queue.post)
    BY <2>2 DEF NotesInv, StillQueued
  <2> QED
    BY <1>1, <1>2, <1>4, <2>3 DEF Waits, Safe
<1>5. CASE q = r /\ r.by = "writing"
  <2>1. Spend("garble") /\ running' = running
    BY <1>1, <1>5 DEF PostEnds
  <2>2. left'["garble"] < left["garble"]
    <3>1. "garble" \in Resource /\ left["garble"] \in Nat /\ left["garble"] > 0
      BY <2>1, AppParts, ScreenLimits DEF NotesInv, Spend, SpendAll
    <3>2. left'["garble"] = left["garble"] - 1
      BY <2>1, <3>1 DEF Spend, SpendAll
    <3> QED
      BY <3>1, <3>2
  <2>3. net \subseteq Request
    BY AppParts DEF NotesInv, NetOK
  <2>4. ASSUME NEW p \in net', [r EXCEPT !.done = TRUE] = [p EXCEPT !.id = 0, !.rows = <<>>]
        PROVE  FALSE
    <3>1. p \in Request /\ r \in Request /\ p \in net /\ p # r
      BY <1>2, <2>3, <2>4
    <3>2. /\ [r EXCEPT !.done = TRUE].by = r.by /\ [r EXCEPT !.done = TRUE].op = r.op
          /\ [r EXCEPT !.done = TRUE].idx = r.idx
      BY <3>1 DEF Request
    <3>3. /\ [p EXCEPT !.id = 0, !.rows = <<>>].by = p.by
          /\ [p EXCEPT !.id = 0, !.rows = <<>>].op = p.op
          /\ [p EXCEPT !.id = 0, !.rows = <<>>].idx = p.idx
      BY <3>1 DEF Request
    <3>4. p.by = r.by /\ p.op = r.op /\ p.idx = r.idx
      BY <2>4, <3>2, <3>3
    <3> QED
      BY <1>2, <1>5, <3>1, <3>4 DEF NotesInv, WritersApart, Posts
  <2>5. CASE InQueue("post", r.arg, queue')
    BY <1>1, <1>5, <2>5 DEF InQueue, Same, Waits, Safe
  <2>6. CASE ~InQueue("post", r.arg, queue')
    <3>1. [r EXCEPT !.done = TRUE] \notin {[p EXCEPT !.id = 0, !.rows = <<>>] : p \in net'}
      BY <2>4
    <3>2. r \in net \ net' /\ r.op \in Kind /\ ~r.done
      BY <1>1, <1>2, <1>5 DEF Kind
    <3>3. <<r.op, r.arg>> \in GivenUp
      BY <1>2, <2>2, <2>6, <3>1, <3>2 DEF GivenUp
    <3> QED
      BY <1>1, <1>2, <1>5, <3>3, GivesUp DEF Safe
  <2> QED
    BY <2>5, <2>6
<1> QED
  BY <1>3, <1>4, <1>5 DEF PostEnds

\* A kill takes with it the reports to come and the requests under way.
LEMMA KillKeeps ==
  ASSUME NotesInv, MCNext, AppKilled, NEW text, Safe(text)
  PROVE  Safe(text)'
<1>1. /\ UNCHANGED <<queue, uid, server>> /\ running /\ ~running' /\ net' = {}
  BY KillEffect
<1>2. CASE Due(text)
  <2>1. PICK w \in DOMAIN writers : writers[w].text = text /\ writers[w].due > 0
    BY <1>2 DEF Due
  <2>2. <<"post", Sent(w)>> \in Unreported /\ Sent(w).text = text
    BY <1>1, <2>1 DEF Unreported, Sent
  <2> QED
    BY <2>2, GivesUp DEF Safe
<1>3. CASE Travels(text)
  <2>1. PICK r \in Posts(net) : ~r.done /\ r.arg.text = text
    BY <1>3 DEF Travels
  <2>2. CASE InQueue("post", r.arg, queue')
    BY <2>1, <2>2 DEF InQueue, Same, Waits, Safe
  <2>3. CASE ~InQueue("post", r.arg, queue')
    <3>1. r \in net \ net' /\ r.op = "post" /\ r.op \in Kind
      BY <1>1, <2>1 DEF Posts, Kind
    <3>2. [r EXCEPT !.done = TRUE] \notin {[p EXCEPT !.id = 0, !.rows = <<>>] : p \in net'}
      BY <1>1
    <3>3. <<r.op, r.arg>> \in GivenUp
      BY <1>1, <2>1, <2>3, <3>1, <3>2 DEF GivenUp
    <3> QED
      BY <2>1, <3>1, <3>3, GivesUp DEF Safe
  <2> QED
    BY <2>2, <2>3
<1>4. CASE Stored(text) \/ Waits(text)
  BY <1>1, <1>4 DEF Stored, Waits, Safe
<1>5. CASE LeftBehind(text)
  BY <1>5 DEF LeftBehind, MCNext, Safe
<1> QED
  BY <1>2, <1>3, <1>4, <1>5 DEF Safe

\* No step loses a note that was safe.
LEMMA NoteStaysSafe ==
  ASSUME NotesInv, MCNext, NEW text, Safe(text)
  PROVE  Safe(text)'
<1>0. [AppNext]_appVars /\ abandoned \subseteq abandoned'
  BY DEF MCNext
<1>1. CASE Stored(text) \/ LeftBehind(text)
  BY <1>0, <1>1, StoredStays DEF LeftBehind, Safe
<1>2. CASE Due(text) \/ Waits(text) \/ Travels(text)
  <2>1. CASE Aside
    BY <1>2, <2>1 DEF Aside, onTheWay, Due, Waits, Travels, Safe
  <2>2. CASE AppLaunch
    <3>1. UNCHANGED <<queue, writers>> /\ net = {}
      BY <2>2, LaunchSends DEF NotesInv
    <3> QED
      BY <1>2, <3>1 DEF Due, Waits, Travels, Safe, Posts
  <2>3. CASE NotifyPosts /\ writers' = writers
    <3>1. net' = net
      BY <2>3 DEF NotifyPosts
    <3>2. CASE Due(text) \/ Travels(text)
      BY <2>3, <3>1, <3>2 DEF Due, Travels, Safe
    <3> QED
      BY <1>2, <2>3, <3>2, NotifyKeeps
  <2>4. ASSUME NEW r \in net, PostEnds(r) PROVE Safe(text)'
    <3>1. CASE Due(text) \/ Waits(text)
      BY <2>4, <3>1 DEF PostEnds, Due, Waits, Safe
    <3> QED
      BY <1>2, <2>4, <3>1, EndKeeps
  <2>5. ASSUME NEW r \in net, ServerAddsNote(r), writers' = writers PROVE Safe(text)'
    <3>1. /\ queue' = queue /\ Stored(r.arg.text)'
          /\ \A q \in Posts(net) : q # r => q \in Posts(net')
      BY <2>5, AddEffect DEF NotesInv, Posts
    <3>2. CASE Due(text) \/ Waits(text)
      BY <2>5, <3>1, <3>2 DEF Due, Waits, Safe
    <3>3. CASE Travels(text)
      BY <3>1, <3>3 DEF Travels, Safe
    <3> QED
      BY <1>2, <3>2, <3>3
  <2>6. CASE WritersGoOn
    <3>1. CASE Due(text)
      BY <2>6, <3>1 DEF WritersGoOn, GoesOn, Due, Safe
    <3> QED
      BY <1>2, <2>6, <3>1 DEF WritersGoOn, Waits, Travels, Safe
  <2>7. ASSUME NEW w \in DOMAIN writers, postBTNtapped(w), UNCHANGED chainVars
        PROVE  Safe(text)'
    <3>1. /\ net' = net /\ ToSet(queue.post) \subseteq ToSet(queue'.post)
          /\ DOMAIN writers' = DOMAIN writers
          /\ \A v \in DOMAIN writers : /\ writers'[v].text = writers[v].text
                                       /\ writers[v].due > 0 => writers'[v].due > 0
      BY <2>7, TapEffect DEF NotesInv
    <3> QED
      BY <1>2, <3>1 DEF Due, Waits, Travels, Safe
  <2>8. ASSUME NEW w \in DOMAIN writers, reachabilityChanged(w), UNCHANGED chainVars
        PROVE  Safe(text)'
    <3>1. /\ net \subseteq net' /\ ToSet(queue.post) \subseteq ToSet(queue'.post)
          /\ DOMAIN writers' = DOMAIN writers
          /\ \A v \in DOMAIN writers : v # w => writers'[v] = writers[v]
          /\ \/ \E r \in net' : r.op = "post" /\ ~r.done /\ r.arg.text = writers[w].text
             \/ \E y \in ToSet(queue'.post) : y.text = writers[w].text
      BY <2>8, ReportEffect DEF NotesInv
    <3>2. CASE Due(text)
      <4>1. PICK v \in DOMAIN writers : writers[v].text = text /\ writers[v].due > 0
        BY <3>2 DEF Due
      <4>2. CASE v = w
        BY <3>1, <4>1, <4>2 DEF Waits, Travels, Safe, Posts
      <4>3. CASE v # w
        BY <3>1, <4>1, <4>3 DEF Due, Safe
      <4> QED
        BY <4>2, <4>3
    <3> QED
      BY <1>2, <3>1, <3>2 DEF Waits, Travels, Safe, Posts
  <2>9. ASSUME NEW r \in net, PostFails(r), UNCHANGED chainVars PROVE Safe(text)'
    <3>1. /\ writers' = writers /\ r.by = "writing" /\ net' = net \ {r}
          /\ ToSet(queue'.post) = ToSet(queue.post) \cup {PendingNote(r.who)}
      BY <2>9, FailEffect DEF NotesInv
    <3>2. r \in Posts(net) => r.arg.text = PendingNote(r.who).text
      BY <3>1 DEF NotesInv, OwnTexts, PendingNote
    <3>3. CASE Due(text) \/ Waits(text)
      BY <3>1, <3>3 DEF Due, Waits, Safe
    <3>4. CASE Travels(text)
      BY <3>1, <3>2, <3>4 DEF Travels, Waits, Safe, Posts
    <3> QED
      BY <1>2, <3>3, <3>4
  <2>10. ASSUME NEW x \in Account, SignIn(x), UNCHANGED <<chainVars, writers>>
         PROVE  Safe(text)'
    <3>1. UNCHANGED <<queue, writers>> /\ Posts(net') = Posts(net)
      BY <2>10, SignInEffect
    <3> QED
      BY <1>2, <3>1 DEF Due, Waits, Travels, Safe
  <2> QED
    BY <1>0, <2>1, <2>2, <2>3, <2>4, <2>5, <2>6, <2>7, <2>8, <2>9, <2>10, StepsOfWriting, KillKeeps
       DEF NotesInv
<1> QED
  BY <1>1, <1>2 DEF Safe

---------------------------------------------------------------------------
(* Taps.                                                                   *)

\* A notifier that runs reports for a note that was posted.
Watched == \A w \in DOMAIN writers : writers[w].notifies => writers[w].text \in posted

\* Only Post adds a note.
LEMMA NothingTapped ==
  ASSUME WritingTypeOK, WritingTypeOK',
         \A v \in DOMAIN writers \cap DOMAIN writers' :
           writers'[v].adds = writers[v].adds \/ GoesOn(writers[v], writers'[v])
  PROVE  Tapped = {}
<1> SUFFICES ASSUME NEW v \in DOMAIN writers \cap DOMAIN writers',
                    writers'[v].adds > writers[v].adds
             PROVE  FALSE
  BY DEF Tapped
<1>1. writers[v].adds \in Nat /\ writers'[v].adds \in Nat
  <2>1. writers[v] \in WritingVC
    BY WriterType
  <2>2. writers' \in Seq(WritingVC) /\ v \in DOMAIN writers'
    BY DEF WritingTypeOK
  <2>3. writers'[v] \in WritingVC
    BY <2>2, LenProperties
  <2> QED
    BY <2>1, <2>3 DEF WritingVC
<1>2. writers'[v].adds <= writers[v].adds
  BY <1>1 DEF GoesOn
<1> QED
  BY <1>1, <1>2

\* A note is posted by a tap on Post, and is then to be reported, or queued,
\* or already was, or its notifier does not start.
LEMMA TapsArePosts ==
  ASSUME NotesInv, Watched, PostedNoteSurvives, AppInv', MCNext, NEW text \in Tapped
  PROVE  text \in posted \/ Safe(text)'
<1>0. [AppNext]_appVars /\ WritingTypeOK /\ WritingTypeOK'
  <2>1. WritingTypeOK /\ [AppNext]_appVars
    BY AppParts DEF NotesInv, MCNext
  <2>2. WritingTypeOK'
    BY DEF AppInv
  <2> QED
    BY <2>1, <2>2
<1>1. ASSUME NEW w \in DOMAIN writers, postBTNtapped(w), UNCHANGED chainVars
      PROVE  text \in posted \/ Safe(text)'
  <2>1. /\ DOMAIN writers' = DOMAIN writers
        /\ \A v \in DOMAIN writers : v # w => writers'[v] = writers[v]
        /\ writers'[w].text = writers[w].text
        /\ \/ PendingNote(w) \in ToSet(queue'.post)
           \/ writers[w].notifies \/ writers'[w].due > 0
           \/ left'["start"] < left["start"]
    BY <1>1, TapEffect DEF NotesInv
  <2>2. text = writers[w].text
    <3>1. PICK v \in DOMAIN writers : writers'[v].adds > writers[v].adds /\ text = writers[v].text
      BY DEF Tapped
    <3>2. writers[v].adds \in Nat
      BY <1>0, WriterType DEF WritingVC
    <3>3. v = w
      BY <2>1, <3>1, <3>2
    <3> QED
      BY <3>1, <3>3
  <2>3. CASE PendingNote(w) \in ToSet(queue'.post)
    BY <2>2, <2>3 DEF PendingNote, Waits, Safe
  <2>4. CASE writers[w].notifies
    BY <2>2, <2>4 DEF Watched
  <2>5. CASE writers'[w].due > 0
    BY <2>1, <2>2, <2>5 DEF Due, Safe
  <2>6. CASE left'["start"] < left["start"]
    <3>1. <<"post", [text |-> text]>> \in Unstarted
      BY <2>6 DEF Unstarted
    <3> QED
      BY <3>1, GivesUp DEF Safe
  <2> QED
    BY <2>1, <2>3, <2>4, <2>5, <2>6
<1>2. ASSUME NEW w \in DOMAIN writers, reachabilityChanged(w), UNCHANGED chainVars
      PROVE  \A v \in DOMAIN writers : writers'[v].adds = writers[v].adds
  BY <1>2, ReportEffect DEF NotesInv
<1>3. ASSUME \/ writers' = writers
             \/ \A v \in DOMAIN writers : writers'[v].adds = writers[v].adds
             \/ WritersGoOn
             \/ AppKilled
      PROVE  FALSE
  <2>1. writers' = writers \/ WritersGoOn \/ DOMAIN writers' = {}
          \/ \A v \in DOMAIN writers : writers'[v].adds = writers[v].adds
    BY <1>3, KillEffect
  <2>2. \A v \in DOMAIN writers \cap DOMAIN writers' :
           writers'[v].adds = writers[v].adds \/ GoesOn(writers[v], writers'[v])
    BY <2>1 DEF WritersGoOn
  <2> QED
    BY <1>0, <2>2, NothingTapped
<1>4. ASSUME NEW r \in net, PostFails(r), UNCHANGED chainVars PROVE writers' = writers
  BY <1>4, FailEffect DEF NotesInv
<1>5. AppLaunch => writers' = writers
  BY LaunchSends DEF NotesInv
<1> QED
  BY <1>0, <1>1, <1>2, <1>3, <1>4, <1>5, StepsOfWriting
     DEF NotesInv, Aside, onTheWay, PostEnds

\* Nobody signs out, so what was posted stays posted.
LEMMA PostedStays ==
  ASSUME NotesInv, MCNext
  PROVE  posted' = posted \cup Tapped
<1>1. OnlyNotes' /\ ~SignedOut
  <2>1. AppNext
    BY DEF MCNext
  <2>2. uid # NoAccount => uid' = uid
    BY <2>1, SessionStays DEF NotesInv
  <2> QED
    BY <2>1, <2>2, OnlyNotesStay DEF NotesInv, SignedOut
<1>2. screen' # "menu"
  BY <1>1 DEF OnlyNotes
<1> QED
  BY <1>1, <1>2 DEF MCNext

\* A notifier starts with a tap.
LEMMA WatchedStays ==
  ASSUME NotesInv, Watched, MCNext
  PROVE  Watched'
<1>0. [AppNext]_appVars /\ posted' = posted \cup Tapped /\ WritingTypeOK
  BY PostedStays, AppParts DEF NotesInv, MCNext
<1>1. CASE \A w \in DOMAIN writers' :
             writers'[w].notifies => /\ w \in DOMAIN writers /\ writers[w].notifies
                                     /\ writers'[w].text = writers[w].text
  BY <1>0, <1>1 DEF Watched
<1>2. ASSUME NEW w \in DOMAIN writers, postBTNtapped(w), UNCHANGED chainVars PROVE Watched'
  <2>1. /\ DOMAIN writers' = DOMAIN writers
        /\ \A v \in DOMAIN writers : v # w => writers'[v] = writers[v]
        /\ writers'[w].text = writers[w].text
        /\ writers'[w].adds > writers[w].adds
    BY <1>2, TapEffect DEF NotesInv
  <2>2. writers'[w].text \in Tapped
    BY <2>1 DEF Tapped
  <2> QED
    BY <1>0, <2>1, <2>2 DEF Watched
<1>3. ASSUME NEW w \in DOMAIN writers, reachabilityChanged(w), UNCHANGED chainVars PROVE Watched'
  <2>1. /\ DOMAIN writers' = DOMAIN writers
        /\ \A v \in DOMAIN writers : v # w => writers'[v] = writers[v]
        /\ writers'[w].text = writers[w].text
        /\ writers'[w].notifies = writers[w].notifies
    BY <1>3, ReportEffect DEF NotesInv
  <2> QED
    BY <1>0, <2>1 DEF Watched
<1>4. CASE writers' = writers
  BY <1>1, <1>4
<1>5. CASE WritersGoOn
  BY <1>1, <1>5 DEF WritersGoOn, GoesOn
<1>6. CASE AppKilled
  BY <1>6, KillEffect DEF Watched
<1>7. ASSUME NEW r \in net, PostFails(r), UNCHANGED chainVars PROVE writers' = writers
  BY <1>7, FailEffect DEF NotesInv
<1>8. AppLaunch => writers' = writers
  BY LaunchSends DEF NotesInv
<1> QED
  BY <1>0, <1>2, <1>3, <1>4, <1>5, <1>6, <1>7, <1>8, StepsOfWriting
     DEF NotesInv, Aside, onTheWay, PostEnds

LEMMA NotesInvStays ==
  ASSUME NotesInv, [AppNext]_appVars
  PROVE  NotesInv'
<1>1. AppInv'
  BY AppInvStays DEF NotesInv
<1>2. OnlyWrites' /\ OnlyNotes'
  <2>1. CASE AppNext
    BY <2>1, OnlyNotesStay, NoneLeft, ScreenLimits DEF NotesInv, OnlyWrites
  <2>2. CASE UNCHANGED appVars
    <3>1. UNCHANGED <<left, queue, phase, editor, screen, net>>
      BY <2>2 DEF appVars, deviceVars, storeVars, chainVars, screenVars, homeVars
    <3> QED
      BY <3>1 DEF NotesInv, OnlyWrites, OnlyNotes
  <2> QED
    BY <2>1, <2>2
<1>3. OneSession'
  BY SessionStays DEF NotesInv
<1> QED
  BY <1>1, <1>2, <1>3, StillQueuedStays, AnswersStoredStays, OwnTextsStay, WritersApartStay
     DEF NotesInv

---------------------------------------------------------------------------
(* The theorem.                                                            *)

\* The user writes and signs in, and the queue of notes may hold anything.
OnlyNotesWait == OnlyWrites /\ queue.delete = <<>> /\ queue.edit = <<>>

\* A note posted, signed in or not, or waiting since an earlier launch, is on
\* the server, in the queue, on its way, about to be, or given up on for one
\* of the reasons listed (a kill, a garbled answer, a notifier that does not
\* start, a notify block that writes over it): through any number of notes,
\* taps, reports, failures, kills and launches, for as long as nobody signs
\* out, edits or deletes (WritingVC.postBTNtapped, reachabilityChanged and
\* postUserData, AppDelegate.postPendingUserNotes).
THEOREM PostedNotesSurvive ==
  AppInit /\ NoHistory /\ OnlyNotesWait /\ [][MCNext]_MCVars => []PostedNoteSurvives
<1> DEFINE Inv == NotesInv /\ Watched /\ PostedNoteSurvives
<1>1. ASSUME AppInit, NoHistory, OnlyNotesWait PROVE Inv
  <2>1. AppInv
    BY <1>1, AppInitIsOK
  <2>2. /\ net = {} /\ phase = "none" /\ writers = <<>> /\ editor = NoEditor /\ screen = "off"
        /\ OnlyWrites /\ queue.delete = <<>> /\ queue.edit = <<>>
    BY <1>1 DEF AppInit, Init, HomeInit, WritingInit, EditInit, OnlyNotesWait
  <2>3. OnlyNotes /\ OneSession /\ StillQueued /\ AnswersStored /\ OwnTexts /\ WritersApart
    BY <2>2 DEF OnlyNotes, OneSession, StillQueued, AnswersStored, OwnTexts, WritersApart, Posts
  <2>4. Watched
    BY <2>2 DEF Watched
  <2>5. \A text \in posted : Waits(text)
    BY <1>1 DEF NoHistory, Waits
  <2> QED
    BY <2>1, <2>2, <2>3, <2>4, <2>5, SafeMeans DEF NotesInv, Safe
<1>2. ASSUME Inv, MCNext PROVE Inv'
  <2>1. [AppNext]_appVars /\ posted' = posted \cup Tapped
    BY <1>2, PostedStays DEF MCNext
  <2>2. NotesInv' /\ AppInv'
    BY <1>2, <2>1, NotesInvStays DEF NotesInv
  <2>3. Watched'
    BY <1>2, WatchedStays
  <2>4. \A text \in posted' : Safe(text)'
    <3> TAKE text \in posted'
    <3>1. text \in posted \/ Safe(text)'
      BY <1>2, <2>1, <2>2, TapsArePosts
    <3>2. text \in posted => Safe(text)
      BY <1>2, SafeMeans
    <3> QED
      BY <1>2, <3>1, <3>2, NoteStaysSafe
  <2>5. PostedNoteSurvives'
    BY <2>4, SafeStillMeans
  <2> QED
    BY <2>2, <2>3, <2>5
<1>3. ASSUME Inv, UNCHANGED MCVars PROVE Inv'
  <2>1. UNCHANGED appVars /\ UNCHANGED <<abandoned, posted>>
    BY <1>3 DEF MCVars, historyVars
  <2>2. NotesInv'
    BY <1>3, <2>1, NotesInvStays
  <2>3. UNCHANGED <<writers, uid, server, queue, net>>
    BY <2>1 DEF appVars, deviceVars, storeVars, remoteVars, screenVars
  <2>4. Watched'
    BY <1>3, <2>1, <2>3 DEF Watched
  <2>5. PostedNoteSurvives'
    BY <1>3, <2>1, <2>3 DEF PostedNoteSurvives, Pursued, InQueue, Travelling, Abandoned
  <2> QED
    BY <2>2, <2>4, <2>5
<1>4. Inv => PostedNoteSurvives
  OBVIOUS
<1>5. Inv /\ [MCNext]_MCVars => Inv'
  BY <1>2, <1>3
<1> QED
  BY <1>1, <1>4, <1>5, PTL

---------------------------------------------------------------------------
(* Ids: the phone invents none.                                            *)

\* The ids of the rows are smaller than n.
Below(rows, n) == \A i \in DOMAIN rows : rows[i].noteID < n

LEMMA EditedBelow ==
  ASSUME NEW rows \in Seq(UserEntity), NEW obj, NEW text, NEW id \in Int, NEW n \in Nat,
         Below(rows, n), id < n
  PROVE  Below(editUserContext(rows, obj, text, id), n)
<1> DEFINE t == editUserContext(rows, obj, text, id)
<1>1. \A i \in DOMAIN rows : rows[i] \in UserEntity
  BY LenProperties
<1>2. DOMAIN t = DOMAIN rows
  BY DEF editUserContext
<1>3. \A i \in DOMAIN rows :
        t[i] = IF rows[i].obj = obj THEN [rows[i] EXCEPT !.text = text, !.noteID = id]
                                    ELSE rows[i]
  BY DEF editUserContext
<1> HIDE DEF t
<1>4. \A i \in DOMAIN rows : t[i].noteID = id \/ t[i].noteID = rows[i].noteID
  BY <1>1, <1>3 DEF UserEntity
<1>5. Below(t, n)
  BY <1>2, <1>4 DEF Below
<1> QED
  BY <1>5 DEF t

\* Rows take their ids from the answer, or keep them.
LEMMA IdentifiedBelow ==
  ASSUME NEW rows \in Seq(UserEntity), NEW response \in Seq(ServerNote), NEW n \in Nat,
         Below(rows, n), \A i \in DOMAIN response : response[i].id < n
  PROVE  Below(updateLocalNoteIDs(rows, response), n)
<1> DEFINE t == updateLocalNoteIDs(rows, response)
           hit(i) == {m \in 1..Len(response) : response[m].text = rows[i].text}
           k(i) == SelectInSeq(response, LAMBDA m : m.text = rows[i].text)
<1>1. \A i \in DOMAIN rows : rows[i] \in UserEntity
  BY LenProperties
<1>2. DOMAIN t = DOMAIN rows /\ DOMAIN response = 1..Len(response)
  BY LenProperties DEF updateLocalNoteIDs
<1>3. \A i \in DOMAIN rows :
        t[i] = IF k(i) = 0 THEN rows[i] ELSE [rows[i] EXCEPT !.noteID = response[k(i)].id]
  BY DEF updateLocalNoteIDs
<1>4. \A i \in DOMAIN rows : k(i) = 0 \/ k(i) \in DOMAIN response
  <2> TAKE i \in DOMAIN rows
  <2>1. k(i) = IF hit(i) # {} THEN Min(hit(i)) ELSE 0
    BY DEF SelectInSeq
  <2>2. hit(i) \in SUBSET Nat
    OBVIOUS
  <2>3. hit(i) # {} => Min(hit(i)) \in hit(i)
    BY <2>2, MinIsMember
  <2> QED
    BY <1>2, <2>1, <2>3
<1> HIDE DEF t, k, hit
<1>5. ASSUME NEW i \in DOMAIN rows
      PROVE  \/ t[i].noteID = rows[i].noteID
             \/ k(i) \in DOMAIN response /\ t[i].noteID = response[k(i)].id
  <2>1. \A m : \A x \in UserEntity : [x EXCEPT !.noteID = m].noteID = m
    BY DEF UserEntity
  <2>2. CASE k(i) = 0
    BY <1>3, <2>2
  <2>3. CASE k(i) # 0
    <3>1. k(i) \in DOMAIN response /\ t[i] = [rows[i] EXCEPT !.noteID = response[k(i)].id]
      BY <1>3, <1>4, <2>3
    <3> QED
      BY <1>1, <2>1, <3>1
  <2> QED
    BY <2>2, <2>3
<1>6. Below(t, n)
  BY <1>2, <1>5 DEF Below
<1> QED
  BY <1>6 DEF t

\* Rows built from an answer have its ids.
LEMMA ResponseBelow ==
  ASSUME NEW response, NEW first, NEW n, \A i \in DOMAIN response : response[i].id < n
  PROVE  Below(ResponseRows(response, first), n)
BY DEF Below, ResponseRows, NewRow

LEMMA SyncedBelow ==
  ASSUME NEW rows \in Seq(UserEntity), NEW response \in Seq(ServerNote), NEW first, NEW n \in Nat,
         Below(rows, n), \A i \in DOMAIN response : response[i].id < n
  PROVE  Below(syncLocalWithServer(rows, response, first), n)
BY IdentifiedBelow, ResponseBelow DEF syncLocalWithServer

\* Rows added after the rows there are.
LEMMA JoinedBelow ==
  ASSUME NEW rows \in Seq(UserEntity), NEW new \in Seq(UserEntity), NEW n, Below(rows, n), Below(new, n)
  PROVE  Below(rows \o new, n)
<1> DEFINE k == Len(rows)
           m == Len(new)
           t == rows \o new
<1>1. k \in Nat /\ m \in Nat /\ DOMAIN rows = 1..k /\ DOMAIN new = 1..m
  BY LenProperties
<1>2. /\ DOMAIN t = 1..(k + m)
      /\ \A i \in 1..(k + m) : t[i] = IF i <= k THEN rows[i] ELSE new[i - k]
  BY ConcatProperties, LenProperties
<1> HIDE DEF t, k, m
<1>3. \A i \in 1..(k + m) : i \in 1..k \/ (~(i <= k) /\ i - k \in 1..m)
  BY <1>1
<1>4. \A i \in DOMAIN t : t[i].noteID < n
  BY <1>1, <1>2, <1>3 DEF Below
<1> QED
  BY <1>4 DEF Below, t

\* Every id the phone holds, in a row, a queue, an answer, a deletion under
\* way or a screen, is one the server has given out, or none.
IDsIssued ==
  /\ Below(notes, nextID)
  /\ \A e \in ToSet(queue.delete) : e.noteID < nextID
  /\ \A r \in net : /\ r.id < nextID
                    /\ \A i \in DOMAIN r.rows : r.rows[i].id < nextID
                    /\ r.op = "delete" => r.arg.noteID < nextID
  /\ \A i \in DOMAIN deleteNoteID : deleteNoteID[i] < nextID
  /\ editor.stage # "none" => editor.noteID < nextID

LEMMA RowIssued ==
  ASSUME AppInv, IDsIssued, NEW i, i = 0 \/ i \in DOMAIN notes
  PROVE  i # 0 => notes[i].noteID \in Int /\ notes[i].noteID < nextID
<1>1. \A j \in DOMAIN notes : notes[j] \in UserEntity
  BY AppParts, LenProperties
<1> QED
  BY <1>1 DEF IDsIssued, Below, UserEntity

\* The id the editor sends is the row's, or the one it had.
LEMMA EditorIssued ==
  ASSUME AppInv, IDsIssued, editor.stage \in {"open", "closing"}
  PROVE  /\ NoteIDNow \in Int /\ NoteIDNow < nextID
         /\ IDOrBlank \in Int /\ IDOrBlank < nextID
<1> DEFINE i == IndexOf(notes, editor.obj)
<1>1. NoteIDNow \in Int /\ IDOrBlank \in Int /\ nextID \in Nat \ {0}
  BY EditorIDs, AppParts DEF DeviceTypeOK
<1>2. i = 0 \/ i \in DOMAIN notes
  BY AppParts, RowOfObject
<1>3. NoteIDNow = IF i = 0 THEN editor.noteID ELSE notes[i].noteID
  BY DEF NoteIDNow
<1> HIDE DEF i
<1>4. NoteIDNow < nextID
  BY <1>2, <1>3, RowIssued DEF IDsIssued
<1> QED
  BY <1>1, <1>4 DEF IDOrBlank, Blank

\* The steps that write rows.
LEMMA StepsOnRows ==
  ASSUME AppNext
  PROVE  \/ notes' = notes
         \/ \E r \in net : LaunchRequestSucceeds(r) \/ FetchSucceeds(r)
         \/ DeleteConfirmed
         \/ \E w \in DOMAIN writers : addNote(w)
         \/ \E r \in net : PostAnswered(r)
         \/ editPostTapped \/ editReachabilityChanged
         \/ \E r \in net : SignUpFetched(r)
         \/ handleLogout \/ \E r \in net : AccountDeleted(r)
<1>1. CASE AppLaunch \/ AppServer \/ AppTraps \/ AppKilled \/ AppFlip
  BY <1>1 DEF AppLaunch, AppServer, AppTraps, AppKilled, AppFlip, AllEnds, ProcessEnds, Launch,
     NetworkChanges, ServerStep, ServerAddsNote, ServerEditsNote, ServerDeletesNote,
     ServerListsNotes, ServerDeletesUser, ServerRegisters, Answer, storeVars
<1>2. CASE AppChain
  BY <1>2 DEF AppChain, LaunchStep, Notify, NotifyDeletes, NotifyEdits, NotifyPosts,
     LaunchRequestFails, FetchFails, storeVars
<1>3. CASE AppHome
  BY <1>3 DEF AppHome, HomeStep, HomeAppears, deleteItemAt, DeleteCancelled, DeleteRefused,
     DeleteAnswered, DeleteFails, deviceVars, storeVars
<1>4. CASE AppWriting
  BY <1>4 DEF AppWriting, WritingStep, OpenWriting, closeBTNtapped, postBTNtapped,
     reachabilityChanged, PostGarbled, PostFails, deviceVars, storeVars
<1>5. CASE AppEdit
  BY <1>5 DEF AppEdit, EditStep, editItemAt, editCloseTapped, EditDismissed, EditAnswered,
     deviceVars, storeVars
<1>6. CASE AppSession
  BY <1>6 DEF AppSession, SessionStep, SignIn, SignUpBack, Registered, SignUpFails,
     deleteUserData, AccountDeletionFails, deviceVars, storeVars
<1> QED
  BY <1>1, <1>2, <1>3, <1>4, <1>5, <1>6 DEF AppNext

\* What a step writes into the rows are ids it was told of.
LEMMA RowsIssued ==
  ASSUME AppInv, IDsIssued, AppNext
  PROVE  Below(notes', nextID)
<1>0. /\ notes \in Seq(UserEntity) /\ Below(notes, nextID) /\ nextID \in Nat \ {0}
      /\ \A r \in net : /\ r.id \in Int /\ r.id < nextID /\ r.rows \in Seq(ServerNote)
                        /\ \A i \in DOMAIN r.rows : r.rows[i].id < nextID
  BY AppParts DEF IDsIssued, DeviceTypeOK, NetOK, Request
<1>1. CASE notes' = notes
  BY <1>0, <1>1
<1>2. ASSUME NEW r \in net, LaunchRequestSucceeds(r) PROVE Below(notes', nextID)
  <2>1. \/ notes' = notes
        \/ \E obj : notes' = editUserContext(notes, obj, r.arg.text, r.id)
    BY <1>2 DEF LaunchRequestSucceeds
  <2> QED
    BY <1>0, <2>1, EditedBelow
<1>3. ASSUME NEW r \in net, FetchSucceeds(r) PROVE Below(notes', nextID)
  <2>1. notes' = syncLocalWithServer(notes, r.rows, nextObj)
    BY <1>3 DEF FetchSucceeds
  <2> QED
    BY <1>0, <2>1, SyncedBelow
<1>4. CASE DeleteConfirmed
  <2>1. notes' = deleteUserContext(notes, RowObject)
    BY <1>4 DEF DeleteConfirmed
  <2>2. \A i, j \in DOMAIN notes : notes[i].obj = notes[j].obj => i = j
    BY AppParts DEF ObjectsApart
  <2>3. \A i \in DOMAIN notes' : \E j \in DOMAIN notes : notes'[i] = notes[j]
    BY <1>0, <2>1, <2>2, DeletedRow
  <2> QED
    BY <1>0, <2>3 DEF Below
<1>5. ASSUME NEW w, addNote(w) PROVE Below(notes', nextID)
  <2> DEFINE e == NewRow(nextObj, writers[w].text, CountedDay(notes), Nil)
             k == Len(notes)
  <2>1. notes' = Append(notes, e) /\ e.noteID < nextID
    BY <1>0, <1>5 DEF addNote, addUserContext, NewRow, Nil
  <2>2. k \in Nat /\ DOMAIN notes = 1..k
    BY <1>0, LenProperties
  <2> HIDE DEF e
  <2>3. /\ DOMAIN notes' = 1..(k + 1)
        /\ \A i \in 1..(k + 1) : notes'[i] = IF i \in 1..k THEN notes[i] ELSE e
    BY <1>0, <2>1, <2>2
  <2> HIDE DEF k
  <2> QED
    BY <1>0, <2>1, <2>2, <2>3 DEF Below
<1>6. ASSUME NEW r \in net, PostAnswered(r) PROVE Below(notes', nextID)
  <2> DEFINE k == Len(notes)
  <2>1. notes' = notes \/ notes' = [notes EXCEPT ![k].noteID = r.id]
    BY <1>6 DEF PostAnswered
  <2>2. \A i \in DOMAIN notes : notes[i] \in UserEntity
    BY <1>0, LenProperties
  <2> HIDE DEF k
  <2>3. CASE notes' = [notes EXCEPT ![k].noteID = r.id]
    <3>1. /\ DOMAIN notes' = DOMAIN notes
          /\ \A i \in DOMAIN notes : \/ notes'[i] = notes[i]
                                     \/ notes'[i] = [notes[i] EXCEPT !.noteID = r.id]
      BY <2>3
    <3>2. \A i \in DOMAIN notes : [notes[i] EXCEPT !.noteID = r.id].noteID = r.id
      BY <2>2 DEF UserEntity
    <3>3. \A i \in DOMAIN notes : notes'[i].noteID = notes[i].noteID \/ notes'[i].noteID = r.id
      BY <3>1, <3>2
    <3> QED
      BY <1>0, <3>1, <3>3 DEF Below
  <2> QED
    BY <1>1, <2>1, <2>3
<1>7. CASE editPostTapped \/ editReachabilityChanged
  <2>1. editor.stage \in {"open", "closing"}
    BY <1>7 DEF editPostTapped, editReachabilityChanged
  <2>2. \/ notes' = notes
        \/ notes' = editUserContext(notes, editor.obj, editor.text, IDOrBlank)
        \/ notes' = editUserContext(notes, editor.obj, editor.text, NoteIDNow)
    BY <1>7 DEF editPostTapped, editReachabilityChanged
  <2> QED
    BY <1>0, <2>1, <2>2, EditorIssued, EditedBelow
<1>8. ASSUME NEW r \in net, SignUpFetched(r) PROVE Below(notes', nextID)
  <2> DEFINE new == [i \in DOMAIN r.rows |->
                       NewRow(nextObj + i - 1, r.rows[i].text, Len(notes) + i, r.rows[i].id)]
  <2>1. notes' = notes \o new
    BY <1>8 DEF SignUpFetched
  <2>2. /\ new \in Seq(UserEntity) /\ DOMAIN new = DOMAIN r.rows
        /\ \A i \in DOMAIN new : new[i].noteID = r.rows[i].id
    BY FetchedRows
  <2> HIDE DEF new
  <2>3. Below(new, nextID)
    BY <1>0, <2>2 DEF Below
  <2> QED
    BY <1>0, <2>1, <2>2, <2>3, JoinedBelow
<1>9. CASE handleLogout \/ \E r \in net : AccountDeleted(r)
  <2>1. notes' = <<>>
    BY <1>9 DEF handleLogout, AccountDeleted, EmptyThePhone
  <2> QED
    BY <2>1 DEF Below
<1> QED
  BY <1>1, <1>2, <1>3, <1>4, <1>5, <1>6, <1>7, <1>8, <1>9, StepsOnRows

---------------------------------------------------------------------------
(* Deletions confirmed, while nobody signs out.                            *)

NobodySignsOut == left["signOut"] = 0 /\ screen # "menu" /\ \A r \in net : r.by # "menu"

\* Who deletes on the server: the launch, and HomeVC, which does nothing else.
DeleteCallers == \A r \in net : /\ r.op = "delete" => r.by \in {"launch", "home"}
                                /\ r.by = "home" => r.op = "delete"

Deletes(t) == {r \in t : r.op = "delete"}

\* A request under way was there, or has just been answered, or sent: a
\* deletion by a launch, of an entry that waits, or by the dialog.
LEMMA RequestsOfStep ==
  ASSUME AppInv, NobodySignsOut, AppNext, NEW t \in net'
  PROVE  \/ t \in net
         \/ /\ AppServer
            /\ \E r \in net : /\ t.by = r.by /\ t.op = r.op /\ t.arg = r.arg /\ t.idx = r.idx
                              /\ t.who = r.who /\ t.done
         \/ /\ ~t.done /\ t.id = 0 /\ t.rows = <<>>
            /\ t.by # "menu" /\ (t.by = "home" => t.op = "delete")
            /\ t.op = "delete" => \/ t.by = "launch" /\ AppLaunch /\ t.arg \in ToSet(queue.delete)
                                  \/ /\ t.by = "home" /\ t.who = Len(deleteNoteID)
                                     /\ t.idx = Fresh("home")
                                     /\ t.arg = [noteID |-> RowNote.noteID]
                                     /\ DeleteConfirmed
<1>0. /\ left["signOut"] = 0 /\ screen # "menu" /\ \A r \in net : r.by # "menu"
      /\ \A r \in net : r \in Request
  BY AppParts DEF NobodySignsOut, NetOK
<1> USE DEF NewRequest
<1>1. CASE AppLaunch
  <2>1. postDeletePendingData(queue)
    BY <1>1 DEF AppLaunch, Launch
  <2>2. ASSUME NEW kind \in Kind, Drain(kind, queue[kind]), t \notin net
        PROVE  /\ ~t.done /\ t.id = 0 /\ t.rows = <<>> /\ t.by = "launch" /\ t.op = kind
               /\ t.arg \in ToSet(queue[kind])
    BY <2>2 DEF Drain, ToSet
  <2>3. \/ Drain("delete", queue["delete"]) \/ Drain("edit", queue["edit"])
        \/ Drain("post", queue["post"])
        \/ net' = net
        \/ net' = net \cup {NewRequest("launch", 0, 1, "fetch", NoArg)}
    BY <2>1 DEF postDeletePendingData, postEditedPendingData, postPendingUserNotes
  <2>4. "delete" \in Kind /\ "edit" \in Kind /\ "post" \in Kind
    BY DEF Kind
  <2> QED
    BY <1>1, <2>2, <2>3, <2>4
<1>2. CASE AppChain
  <2>1. ASSUME NEW kind \in {"edit", "post"}, NEW q, Drain(kind, q), t \notin net
        PROVE  /\ ~t.done /\ t.id = 0 /\ t.rows = <<>> /\ t.by = "launch" /\ t.op = kind
    BY <2>1 DEF Drain
  <2>2. \/ net' \subseteq net
        \/ net' = net \cup {NewRequest("launch", 0, 1, "fetch", NoArg)}
        \/ \E q : Drain("edit", q) \/ Drain("post", q)
    BY <1>2 DEF AppChain, LaunchStep, Notify, NotifyDeletes, NotifyEdits, NotifyPosts,
       LaunchRequestSucceeds, LaunchRequestFails, FetchSucceeds, FetchFails,
       postEditedPendingData, postPendingUserNotes
  <2> QED
    BY <2>1, <2>2
<1>3. CASE AppServer
  <2>1. PICK r \in net : \E id, rows : Answer(r, id, rows)
    BY <1>3 DEF AppServer, ServerStep, ServerAddsNote, ServerEditsNote, ServerDeletesNote,
       ServerListsNotes, ServerDeletesUser, ServerRegisters
  <2>2. PICK id, rows : Answer(r, id, rows)
    BY <2>1
  <2>3. t \in net \/ t = [r EXCEPT !.done = TRUE, !.id = id, !.rows = rows]
    BY <2>2 DEF Answer
  <2>4. t \in net \/ (/\ t.by = r.by /\ t.op = r.op /\ t.arg = r.arg /\ t.idx = r.idx
                      /\ t.who = r.who /\ t.done)
    BY <1>0, <2>3 DEF Request
  <2> QED
    BY <1>3, <2>4
<1>4. CASE AppHome
  <2>1. CASE DeleteConfirmed
    <3>1. \/ net' = net
          \/ net' = net \cup {NewRequest("home", Len(deleteNoteID), Fresh("home"), "delete",
                                         [noteID |-> RowNote.noteID])}
      BY <2>1 DEF DeleteConfirmed, checkInternet
    <3> QED
      BY <2>1, <3>1
  <2>2. CASE ~DeleteConfirmed
    <3>1. net' \subseteq net
      BY <1>4, <2>2 DEF AppHome, HomeStep, HomeAppears, deleteItemAt, DeleteCancelled,
         DeleteRefused, DeleteAnswered, DeleteFails, deviceVars
    <3> QED
      BY <3>1
  <2> QED
    BY <2>1, <2>2
<1>5. CASE AppWriting
  <2>1. \/ net' \subseteq net
        \/ \E w : reachabilityChanged(w)
    BY <1>5 DEF AppWriting, WritingStep, OpenWriting, closeBTNtapped, postBTNtapped, addNote,
       PostAnswered, PostGarbled, PostFails, deviceVars
  <2>2. ASSUME NEW w, reachabilityChanged(w), t \notin net
        PROVE  /\ ~t.done /\ t.id = 0 /\ t.rows = <<>> /\ t.by = "writing" /\ t.op = "post"
    BY <2>2 DEF reachabilityChanged
  <2> QED
    BY <2>1, <2>2
<1>6. CASE AppEdit
  <2>1. \/ net' \subseteq net
        \/ \E arg : net' = net \cup {NewRequest("editing", 1, Fresh("editing"), "edit", arg)}
    BY <1>6 DEF AppEdit, EditStep, editItemAt, editCloseTapped, editPostTapped,
       editReachabilityChanged, EditDismissed, EditAnswered, deviceVars
  <2> QED
    BY <2>1
<1>7. CASE AppSession
  <2>1. \A S : SpendAll(S) => "signOut" \notin S
    BY <1>0 DEF SpendAll
  <2>2. \/ net' \subseteq net
        \/ \E x \in Account : SignIn(x)
        \/ \E r \in net : Registered(r)
    BY <1>0, <1>7, <2>1 DEF AppSession, SessionStep, SignUpBack, SignUpFetched, SignUpFails,
       AccountDeleted, AccountDeletionFails, handleLogout, deleteUserData, deviceVars, Spend
  <2>3. ASSUME NEW x \in Account, SignIn(x), t \notin net
        PROVE  /\ ~t.done /\ t.id = 0 /\ t.rows = <<>> /\ t.by = "signUp" /\ t.op = "register"
    BY <2>3 DEF SignIn
  <2>4. ASSUME NEW r \in net, Registered(r), t \notin net
        PROVE  /\ ~t.done /\ t.id = 0 /\ t.rows = <<>> /\ t.by = "signUp" /\ t.op = "fetch"
    BY <2>4 DEF Registered
  <2> QED
    BY <2>2, <2>3, <2>4
<1>8. CASE AppTraps \/ AppKilled \/ AppFlip
  BY <1>8 DEF AppTraps, AppKilled, AllEnds, ProcessEnds, AppFlip, NetworkChanges
<1> QED
  BY <1>1, <1>2, <1>3, <1>4, <1>5, <1>6, <1>7, <1>8 DEF AppNext

LEMMA NobodySignsOutStays ==
  ASSUME AppInv, NobodySignsOut, DeleteCallers, AppNext
  PROVE  NobodySignsOut' /\ DeleteCallers'
<1>1. left'["signOut"] = 0 /\ \A S : SpendAll(S) => "signOut" \notin S
  BY NoneLeft, ScreenLimits DEF NobodySignsOut, SpendAll
<1>2. \A t \in net' : /\ t.by # "menu"
                      /\ t.op = "delete" => t.by \in {"launch", "home"}
                      /\ t.by = "home" => t.op = "delete"
  BY RequestsOfStep DEF NobodySignsOut, DeleteCallers
<1>3. screen' # "menu"
  <2>0. screen # "menu"
    BY DEF NobodySignsOut
  <2>1. CASE AppLaunch \/ AppChain \/ AppServer \/ AppFlip
    BY <2>0, <2>1 DEF AppLaunch, AppChain, AppServer, AppFlip, screenVars, homeVars
  <2>2. CASE AppTraps \/ AppKilled
    BY <2>2 DEF AppTraps, AppKilled, AllEnds, HomeEnds
  <2>3. CASE AppHome
    BY <2>0, <2>3 DEF AppHome, HomeStep, HomeAppears, deleteItemAt, DeleteCancelled, DeleteRefused,
       DeleteConfirmed, DeleteAnswered, DeleteFails, CloseAlert, Present, homeVars
  <2>4. CASE AppWriting
    BY <2>0, <2>4 DEF AppWriting, WritingStep, OpenWriting, closeBTNtapped, postBTNtapped, addNote,
       reachabilityChanged, PostAnswered, PostGarbled, PostFails, Present, BackHome, homeVars
  <2>5. CASE AppEdit
    BY <2>0, <2>5 DEF AppEdit, EditStep, editItemAt, editCloseTapped, editPostTapped,
       editReachabilityChanged, EditDismissed, EditAnswered, Present, BackHome, homeVars
  <2>6. CASE AppSession
    BY <1>1, <2>0, <2>6 DEF AppSession, SessionStep, SignIn, SignUpBack, Registered, SignUpFetched,
       SignUpFails, SignUpEnds, AccountDeleted, AccountDeletionFails, EmptyThePhone, handleLogout,
       deleteUserData, Spend, Present, BackHome, homeVars
  <2> QED
    BY <2>1, <2>2, <2>3, <2>4, <2>5, <2>6 DEF AppNext
<1> QED
  BY <1>1, <1>2, <1>3 DEF NobodySignsOut, DeleteCallers

\* The server brings no note back: an id that is not there never comes, but
\* for the next one.
LEMMA ServerForgets ==
  ASSUME AppInv, NobodySignsOut, NotesApart, AppNext
  PROVE  /\ NotesApart' /\ nextID' \in Nat /\ nextID <= nextID'
         /\ \A id : OnServer(id)' => OnServer(id) \/ id = nextID
         /\ ~AppServer => UNCHANGED <<server, nextID>>
<1>0. DeviceTypeOK /\ nextID \in Nat
  BY AppParts DEF DeviceTypeOK
<1>1. CASE UNCHANGED <<server, nextID>>
  BY <1>0, <1>1 DEF NotesApart, OnServer
<1>2. ASSUME NEW r \in net, ServerAddsNote(r) \/ ServerEditsNote(r) \/ ServerDeletesNote(r)
      PROVE  /\ NotesApart' /\ nextID' \in Nat /\ nextID <= nextID'
             /\ \A id : OnServer(id)' => OnServer(id) \/ id = nextID
  <2>1. CASE ServerAddsNote(r)
    <3>1. /\ NotesApart' /\ nextID' = nextID + 1
          /\ \A m : OnServer(m)' => OnServer(m) \/ m = nextID
      BY <1>0, <2>1, NoteAdded
    <3>2. nextID' \in Nat /\ nextID <= nextID'
      BY <1>0, <3>1
    <3> QED
      BY <3>1, <3>2
  <2>2. CASE ServerEditsNote(r)
    <3>1. NotesApart' /\ nextID' = nextID /\ \A m : OnServer(m)' => OnServer(m)
      BY <1>0, <2>2, NoteEdited
    <3>2. nextID' \in Nat /\ nextID <= nextID'
      BY <1>0, <3>1
    <3> QED
      BY <3>1, <3>2
  <2>3. CASE ServerDeletesNote(r)
    <3>1. NotesApart' /\ nextID' = nextID /\ \A m : OnServer(m)' => OnServer(m) /\ m # r.arg.noteID
      BY <1>0, <2>3, NoteDeleted
    <3>2. nextID' \in Nat /\ nextID <= nextID'
      BY <1>0, <3>1
    <3> QED
      BY <3>1, <3>2
  <2> QED
    BY <1>2, <2>1, <2>2, <2>3
<1>3. ASSUME NEW r \in net, ServerDeletesUser(r)
      PROVE  /\ NotesApart' /\ nextID' = nextID
             /\ \A id : OnServer(id)' => OnServer(id)
  <2>1. server' = [server EXCEPT ![r.owner] = <<>>] /\ nextID' = nextID
    BY <1>3 DEF ServerDeletesUser
  <2>2. \A x \in Account : server'[x] = server[x] \/ server'[x] = <<>>
    BY <1>0, <2>1 DEF DeviceTypeOK
  <2> QED
    BY <2>1, <2>2 DEF NotesApart, OnServer
<1>4. AppServer \/ UNCHANGED <<server, nextID>>
  <2>1. CASE AppLaunch \/ AppTraps \/ AppKilled \/ AppFlip
    BY <2>1 DEF AppLaunch, AppTraps, AppKilled, AppFlip, AllEnds, ProcessEnds, Launch,
       NetworkChanges, remoteVars
  <2>2. CASE AppChain
    BY <2>2 DEF AppChain, LaunchStep, Notify, NotifyDeletes, NotifyEdits, NotifyPosts,
       LaunchRequestSucceeds, LaunchRequestFails, FetchSucceeds, FetchFails, remoteVars
  <2>3. CASE AppHome
    BY <2>3 DEF AppHome, HomeStep, HomeAppears, deleteItemAt, DeleteCancelled, DeleteRefused,
       DeleteConfirmed, DeleteAnswered, DeleteFails, deviceVars, remoteVars
  <2>4. CASE AppWriting
    BY <2>4 DEF AppWriting, WritingStep, OpenWriting, closeBTNtapped, postBTNtapped, addNote,
       reachabilityChanged, PostAnswered, PostGarbled, PostFails, deviceVars, remoteVars
  <2>5. CASE AppEdit
    BY <2>5 DEF AppEdit, EditStep, editItemAt, editCloseTapped, editPostTapped,
       editReachabilityChanged, EditDismissed, EditAnswered, deviceVars, remoteVars
  <2>6. CASE AppSession
    BY <2>6 DEF AppSession, SessionStep, SignIn, SignUpBack, Registered, SignUpFetched, SignUpFails,
       AccountDeleted, AccountDeletionFails, handleLogout, deleteUserData, deviceVars, remoteVars
  <2> QED
    BY <2>1, <2>2, <2>3, <2>4, <2>5, <2>6 DEF AppNext
<1>5. CASE AppServer
  BY <1>0, <1>1, <1>2, <1>3, <1>5
     DEF AppServer, ServerStep, ServerListsNotes, ServerRegisters, remoteVars
<1> QED
  BY <1>1, <1>4, <1>5

\* A step that has nothing to do with deletions.
DeletionsRest ==
  /\ queue'.delete = queue.delete
  /\ Deletes(net') = Deletes(net)
  /\ \/ UNCHANGED <<phase, snapshot, indicesToRemove>>
     \/ phase # "delete" /\ phase' # "delete"

\* The request of a deletion ends, in one of the ways that leave the queue
\* alone.
DeletionEnds(r) ==
  /\ r \in net /\ r.op = "delete" /\ net' = net \ {r}
  /\ UNCHANGED <<queue, server, phase, snapshot>>
  /\ \/ r.by = "launch" /\ UNCHANGED indicesToRemove
     \/ r.by = "launch" /\ r.done /\ indicesToRemove' = indicesToRemove \cup {r.idx}
     \/ r.by = "home" /\ r.done /\ UNCHANGED indicesToRemove
     \/ r.by = "home" /\ Spend("garble") /\ running' = running /\ UNCHANGED indicesToRemove

\* The steps there are while nobody signs out, by what they mean to deletions.
LEMMA StepsOfDeleting ==
  ASSUME AppInv, NobodySignsOut, DeleteCallers, AppNext
  PROVE  \/ DeletionsRest
         \/ AppLaunch
         \/ NotifyDeletes
         \/ \E r \in net : DeletionEnds(r)
         \/ \E r \in net : ServerDeletesNote(r) /\ UNCHANGED chainVars
         \/ DeleteConfirmed /\ UNCHANGED chainVars
         \/ \E r \in net : DeleteFails(r) /\ UNCHANGED chainVars
         \/ AppTraps \/ AppKilled
<1>0. /\ queue \in Queues /\ \A r \in net : r \in Request
      /\ \A r \in net : r.by # "menu" /\ (r.op = "delete" => r.by \in {"launch", "home"})
      /\ \A r \in net : r.by = "home" => r.op = "delete"
      /\ \A S : SpendAll(S) => "signOut" \notin S
  BY AppParts DEF NetOK, NobodySignsOut, DeleteCallers, SpendAll
\* Sent is a deletion by a launch or by the dialog only.
<1>1. ASSUME ~AppServer, ~AppLaunch, ~DeleteConfirmed, \A r \in net \ net' : r.op # "delete"
      PROVE  Deletes(net') = Deletes(net)
  <2>1. \A t \in net' : t.op = "delete" => t \in net
    BY <1>1, RequestsOfStep
  <2> QED
    BY <1>1, <2>1 DEF Deletes
<1>2. \A x : queue' = [queue EXCEPT !["post"] = x] \/ queue' = [queue EXCEPT !["edit"] = x]
               => queue'.delete = queue.delete
  BY <1>0 DEF Queues
<1>3. CASE AppChain /\ ~AppServer /\ ~AppLaunch /\ ~DeleteConfirmed
  <2>1. CASE NotifyEdits
    <3>1. net \subseteq net' /\ phase = "edit" /\ phase' \in {"none", "post"}
      BY <2>1 DEF NotifyEdits, postPendingUserNotes, Idle, Drain
    <3>2. queue'.delete = queue.delete
      BY <1>2, <2>1 DEF NotifyEdits, Written
    <3> QED
      BY <1>1, <1>3, <3>1, <3>2 DEF DeletionsRest
  <2>2. CASE NotifyPosts
    <3>1. net' = net /\ phase = "post" /\ phase' = "none"
      BY <2>2 DEF NotifyPosts, Idle
    <3>2. queue'.delete = queue.delete
      BY <1>2, <2>2 DEF NotifyPosts, Written
    <3> QED
      BY <3>1, <3>2 DEF DeletionsRest
  <2>3. ASSUME NEW r \in net, LaunchRequestSucceeds(r) \/ LaunchRequestFails(r)
        PROVE  DeletionsRest \/ DeletionEnds(r)
    <3>1. /\ r.by = "launch" /\ r.op \in Kind /\ net' = net \ {r}
          /\ UNCHANGED <<queue, server, phase, snapshot>>
          /\ \/ UNCHANGED indicesToRemove
             \/ r.done /\ indicesToRemove' = indicesToRemove \cup {r.idx}
      BY <2>3 DEF LaunchRequestSucceeds, LaunchRequestFails, Waiting, Delivered, storeVars,
         remoteVars
    <3>2. CASE r.op = "delete"
      BY <3>1, <3>2 DEF DeletionEnds
    <3>3. CASE r.op # "delete"
      <4>1. phase = r.op
        BY <3>1 DEF AppInv, LaunchInv, ChainOK, Barrier, InFlight
      <4>2. Deletes(net') = Deletes(net)
        BY <3>1, <3>3 DEF Deletes
      <4> QED
        BY <3>1, <3>3, <4>1, <4>2 DEF DeletionsRest
    <3> QED
      BY <3>2, <3>3
  <2>4. ASSUME NEW r \in net, FetchSucceeds(r) \/ FetchFails(r) PROVE DeletionsRest
    <3>1. /\ r.op = "fetch" /\ net' = net \ {r}
          /\ UNCHANGED <<queue, phase, snapshot, indicesToRemove>>
      BY <2>4 DEF FetchSucceeds, FetchFails, Fetching, storeVars, chainVars
    <3> QED
      BY <3>1 DEF Deletes, DeletionsRest
  <2> QED
    BY <1>3, <2>1, <2>2, <2>3, <2>4 DEF AppChain, LaunchStep, Notify
<1>4. CASE AppServer
  <2>0. UNCHANGED chainVars /\ UNCHANGED <<phase, snapshot, indicesToRemove>>
    BY <1>4 DEF AppServer, chainVars
  <2>1. PICK r \in net : \/ ServerDeletesNote(r)
                         \/ r.op # "delete" /\ \E id, rows : Answer(r, id, rows)
    BY <1>4 DEF AppServer, ServerStep, ServerAddsNote, ServerEditsNote, ServerListsNotes,
       ServerDeletesUser, ServerRegisters, Reaches
  <2>2. ASSUME r.op # "delete", NEW id, NEW rows, Answer(r, id, rows) PROVE DeletionsRest
    <3> DEFINE t == [r EXCEPT !.done = TRUE, !.id = id, !.rows = rows]
    <3>1. net' = (net \ {r}) \cup {t} /\ t.op = r.op /\ queue' = queue
      BY <1>0, <2>2 DEF Answer, Request, storeVars
    <3> HIDE DEF t
    <3> QED
      BY <2>0, <2>2, <3>1 DEF Deletes, DeletionsRest
  <2> QED
    BY <2>0, <2>1, <2>2
<1>5. CASE AppHome /\ ~AppServer /\ ~AppLaunch
  <2>0. UNCHANGED chainVars /\ UNCHANGED <<phase, snapshot, indicesToRemove>>
    BY <1>5 DEF AppHome, chainVars
  <2>1. ASSUME NEW r \in net, DeleteAnswered(r) PROVE DeletionEnds(r)
    BY <1>0, <2>0, <2>1 DEF DeleteAnswered, HomeRequest, Delivered, DeletionEnds, storeVars,
       remoteVars
  <2>2. CASE \/ HomeAppears \/ \E row \in DOMAIN userData : deleteItemAt(row)
             \/ DeleteCancelled \/ DeleteRefused
    <3>1. UNCHANGED <<queue, net>>
      BY <2>2 DEF HomeAppears, deleteItemAt, DeleteCancelled, DeleteRefused, deviceVars, storeVars
    <3> QED
      BY <2>0, <3>1 DEF DeletionsRest
  <2> QED
    BY <1>5, <2>0, <2>1, <2>2 DEF AppHome, HomeStep
<1>6. CASE AppWriting /\ ~AppServer /\ ~AppLaunch /\ ~DeleteConfirmed
  <2>0. UNCHANGED <<phase, snapshot, indicesToRemove>>
    BY <1>6 DEF AppWriting, chainVars
  <2>1. \/ net \subseteq net'
        \/ \E r \in net : r.by = "writing" /\ net' = net \ {r}
    BY <1>6 DEF AppWriting, WritingStep, OpenWriting, closeBTNtapped, postBTNtapped, addNote,
       reachabilityChanged, PostAnswered, PostGarbled, PostFails, WritingRequest, deviceVars
  <2>2. queue' = queue \/ \E x : queue' = [queue EXCEPT !["post"] = x]
    BY <1>6 DEF AppWriting, WritingStep, OpenWriting, closeBTNtapped, postBTNtapped, TapStarts,
       TapQueues, addNote, reachabilityChanged, PostAnswered, PostGarbled, PostFails, Enqueue,
       deviceVars, storeVars
  <2>3. \A r \in net \ net' : r.op # "delete"
    BY <1>0, <2>1
  <2> QED
    BY <1>1, <1>2, <1>6, <2>0, <2>2, <2>3 DEF DeletionsRest
<1>7. CASE AppEdit /\ ~AppServer /\ ~AppLaunch /\ ~DeleteConfirmed
  <2>0. UNCHANGED <<phase, snapshot, indicesToRemove>>
    BY <1>7 DEF AppEdit, chainVars
  <2>1. \/ net \subseteq net'
        \/ \E r \in net : r.by = "editing" /\ net' = net \ {r}
    BY <1>7 DEF AppEdit, EditStep, editItemAt, editCloseTapped, editPostTapped,
       editReachabilityChanged, EditDismissed, EditAnswered, deviceVars
  <2>2. queue' = queue \/ \E x : queue' = [queue EXCEPT !["edit"] = x]
    BY <1>7 DEF AppEdit, EditStep, editItemAt, editCloseTapped, editPostTapped,
       editReachabilityChanged, EditDismissed, EditAnswered, Enqueue, deviceVars, storeVars
  <2>3. \A r \in net \ net' : r.op # "delete"
    BY <1>0, <2>1
  <2> QED
    BY <1>1, <1>2, <1>7, <2>0, <2>2, <2>3 DEF DeletionsRest
<1>8. CASE AppSession /\ ~AppServer /\ ~AppLaunch /\ ~DeleteConfirmed
  <2>0. UNCHANGED <<phase, snapshot, indicesToRemove>>
    BY <1>8 DEF AppSession, chainVars
  <2>1. /\ queue' = queue
        /\ \/ net \subseteq net'
           \/ \E r \in net : r.by = "signUp" /\ net \ {r} \subseteq net'
    BY <1>0, <1>8 DEF AppSession, SessionStep, SignIn, SignUpBack, Registered, SignUpFetched,
       SignUpFails, SignUpRequest, AccountDeleted, AccountDeletionFails, handleLogout,
       deleteUserData, Spend, deviceVars, storeVars
  <2>3. \A r \in net \ net' : r.op # "delete"
    BY <1>0, <2>1
  <2> QED
    BY <1>1, <1>8, <2>0, <2>1, <2>3 DEF DeletionsRest
<1>9. CASE AppFlip
  <2>1. UNCHANGED <<net, queue, phase, snapshot, indicesToRemove>>
    BY <1>9 DEF AppFlip, NetworkChanges, storeVars, chainVars
  <2> QED
    BY <2>1 DEF DeletionsRest
<1>10. CASE DeleteConfirmed
  <2>1. AppChain => FALSE
    <3>1. DeleteConfirmed => screen = "alert" /\ screen' = "home"
      BY DEF DeleteConfirmed, CloseAlert, Touched
    <3>2. AppChain => screen' = screen
      BY DEF AppChain, screenVars, homeVars
    <3> QED
      BY <1>10, <3>1, <3>2
  <2>2. AppServer \/ AppHome \/ AppWriting \/ AppEdit \/ AppSession => UNCHANGED chainVars
    BY DEF AppServer, AppHome, AppWriting, AppEdit, AppSession
  <2> QED
    BY <1>9, <1>10, <2>1, <2>2 DEF AppNext
<1> QED
  BY <1>3, <1>4, <1>5, <1>6, <1>7, <1>8, <1>9, <1>10 DEF AppNext

\* What a drain captured is still in the queue: it only grows meanwhile.
DrainQueued == phase = "delete" => ToSet(snapshot) \subseteq ToSet(queue.delete)

\* What is acknowledged, and what is about to be, is no longer on the server.
AnswersGone ==
  /\ phase = "delete" => \A i \in indicesToRemove : ~OnServer(snapshot[i].noteID)
  /\ \A r \in Deletes(net) : r.done => ~OnServer(r.arg.noteID)

\* HomeVC's requests are told apart by their idx.
DeletersApart ==
  \A r, s \in Deletes(net) : r.by = "home" /\ s.by = "home" /\ r.idx = s.idx => r = s

DeletionInv == /\ AppInv /\ NobodySignsOut /\ DeleteCallers
               /\ NotesApart /\ IDsIssued
               /\ DrainQueued /\ AnswersGone /\ DeletersApart

\* A launch captures the deletions that wait, if there are any.
LEMMA LaunchDeletes ==
  ASSUME AppInv, AppLaunch
  PROVE  /\ UNCHANGED <<queue, server, deleteNoteID, editor>> /\ net = {}
         /\ \A r \in net' : r.by = "launch" /\ ~r.done
         /\ indicesToRemove' = {}
         /\ phase' = "delete" => snapshot' = queue.delete
<1>1. /\ UNCHANGED <<queue, server, deleteNoteID, editor>> /\ net = {}
      /\ postDeletePendingData(queue)
  BY DEF AppLaunch, Launch, AppInv, LaunchInv, storeVars, remoteVars, screenVars, homeVars
<1>2. \A r \in net' : r.by = "launch" /\ ~r.done
  BY <1>1 DEF postDeletePendingData, postEditedPendingData, postPendingUserNotes, Drain, NewRequest
<1>3. /\ indicesToRemove' = {}
      /\ phase' = "delete" => snapshot' = queue.delete
  BY <1>1 DEF postDeletePendingData, postEditedPendingData, postPendingUserNotes, Drain, Idle
<1> QED
  BY <1>1, <1>2, <1>3

\* The notify block writes back what was captured and not acknowledged.
LEMMA DeletesWritten ==
  ASSUME AppInv, NotifyDeletes
  PROVE  /\ server' = server
         /\ phase = "delete" /\ phase' # "delete" /\ group = 0
         /\ snapshot \in Seq(DeletePendingData)
         /\ queue'.delete = removeAtOffsets(snapshot, indicesToRemove)
         /\ ToSet(queue'.delete) \subseteq ToSet(snapshot)
         /\ Deletes(net') = Deletes(net)
<1>1. /\ phase = "delete" /\ group = 0 /\ server' = server
      /\ queue' = [queue EXCEPT !["delete"] = removeAtOffsets(snapshot, indicesToRemove)]
      /\ queue \in Queues /\ snapshot \in Seq(DeletePendingData)
  BY AppParts DEF NotifyDeletes, Written, AppInv, LaunchInv, ChainOK, Items, Kind, remoteVars
<1>2. phase' # "delete"
  BY DEF NotifyDeletes, postEditedPendingData, postPendingUserNotes, Drain, Idle
<1>3. queue'.delete = removeAtOffsets(snapshot, indicesToRemove)
  BY <1>1 DEF Queues
<1> DEFINE t == removeAtOffsets(snapshot, indicesToRemove)
           K == Kept(snapshot, indicesToRemove)
<1>4. /\ DOMAIN t = 1..Len(t)
      /\ \A k \in 1..Len(t) : Nth(K, k) \in K
      /\ \A k \in 1..Len(t) : t[k] = snapshot[Nth(K, k)]
  BY <1>1, RemovalIsArray
<1>5. K \subseteq DOMAIN snapshot
  BY DEF Kept
<1> HIDE DEF K
<1>6. \A k \in DOMAIN t : t[k] \in ToSet(snapshot)
  BY <1>4, <1>5 DEF ToSet
<1> HIDE DEF t
<1>7. ToSet(t) \subseteq ToSet(snapshot)
  BY <1>6 DEF ToSet
<1>8. Deletes(net') = Deletes(net)
  <2>1. /\ \A r \in net' : r \in net \/ r.op # "delete"
        /\ net \subseteq net'
    BY DEF NotifyDeletes, postEditedPendingData, postPendingUserNotes, Drain, NewRequest
  <2> QED
    BY <2>1 DEF Deletes
<1> QED
  BY <1>1, <1>2, <1>3, <1>7, <1>8 DEF t

\* The dialog's Delete drops a pending note, and sends or queues a deletion.
LEMMA ConfirmEffect ==
  ASSUME AppInv, DeleteConfirmed
  PROVE  /\ UNCHANGED <<server, nextID, uid, left, running>>
         /\ DOMAIN deleteNoteID' = DOMAIN deleteNoteID
         /\ uid = NoAccount => /\ UNCHANGED <<net, deleteNoteID>>
                               /\ queue'.delete = queue.delete
         /\ uid # NoAccount =>
              /\ RowNote \in UserEntity /\ RowNote.noteID # Nil
              /\ IndexOf(notes, RowObject) \in DOMAIN notes
              /\ \A i \in DOMAIN deleteNoteID :
                   deleteNoteID'[i] = deleteNoteID[i] \/ deleteNoteID'[i] = RowNote.noteID
              /\ deleteNoteID'[Len(deleteNoteID)] = RowNote.noteID
              /\ Len(deleteNoteID) \in DOMAIN deleteNoteID
              /\ \/ /\ queue'.delete = queue.delete
                    /\ net' = net \cup {NewRequest("home", Len(deleteNoteID), Fresh("home"),
                                                   "delete", [noteID |-> RowNote.noteID])}
                 \/ /\ ToSet(queue'.delete) = ToSet(queue.delete) \cup {[noteID |-> RowNote.noteID]}
                    /\ net' = net
<1> DEFINE pending == WithoutDay(queue.post, RowNote.day)
           e == [noteID |-> RowNote.noteID]
<1>1. /\ queue \in Queues /\ queue.delete \in Seq(DeletePendingData)
      /\ deleteNoteID \in Seq(Int) /\ Len(deleteNoteID) \in Nat
      /\ DOMAIN deleteNoteID = 1..Len(deleteNoteID)
  BY AppParts, LenProperties DEF HomeTypeOK, Queues
<1>2. screen # "off" /\ alert.row \in DOMAIN userData
  BY DEF DeleteConfirmed, CloseAlert, Touched
<1>3. RowNote \in UserEntity /\ IndexOf(notes, RowObject) \in DOMAIN notes
  BY <1>2, TouchFindsRow DEF RowNote, RowObject
<1>4. UNCHANGED <<server, nextID, uid, left, running>>
  BY DEF DeleteConfirmed, remoteVars
<1>5. CASE uid = NoAccount
  <2>1. queue' = [queue EXCEPT !.post = pending] /\ UNCHANGED <<net, deleteNoteID>>
    BY <1>5 DEF DeleteConfirmed
  <2> HIDE DEF pending
  <2>2. queue'.delete = queue.delete
    BY <1>1, <2>1 DEF Queues
  <2> QED
    BY <1>4, <1>5, <2>1, <2>2
<1>6. CASE uid # NoAccount
  <2>1. /\ RowNote.noteID # Nil
        /\ deleteNoteID' = [deleteNoteID EXCEPT ![Len(deleteNoteID)] = RowNote.noteID]
        /\ checkInternet(RowNote.noteID, pending)
    BY <1>6 DEF DeleteConfirmed
  <2>2. /\ DOMAIN deleteNoteID' = DOMAIN deleteNoteID
        /\ \A i \in DOMAIN deleteNoteID :
             deleteNoteID'[i] = deleteNoteID[i] \/ deleteNoteID'[i] = RowNote.noteID
    BY <1>1, <2>1
  <2>3. Len(deleteNoteID) \in DOMAIN deleteNoteID
    <3>1. deleteNoteID # <<>>
      BY <1>2 DEF AppInv
    <3>2. Len(deleteNoteID) # 0
      BY <1>1, <3>1
    <3> QED
      BY <1>1, <3>2
  <2>4. deleteNoteID'[Len(deleteNoteID)] = RowNote.noteID
    BY <1>1, <2>1, <2>3
  <2>5. CASE online
    <3>1. /\ net' = net \cup {NewRequest("home", Len(deleteNoteID), Fresh("home"), "delete", e)}
          /\ queue' = [queue EXCEPT !.post = pending]
      BY <2>1, <2>5 DEF checkInternet
    <3> HIDE DEF pending
    <3>2. queue'.delete = queue.delete
      BY <1>1, <3>1 DEF Queues
    <3> QED
      BY <1>3, <1>4, <1>6, <2>1, <2>2, <2>3, <2>4, <3>1, <3>2
  <2>6. CASE ~online
    <3>1. /\ net' = net
          /\ queue' = [queue EXCEPT !.post = pending, !.delete = Append(queue.delete, e)]
      BY <1>1, <2>1, <2>6 DEF checkInternet, Queues
    <3> HIDE DEF pending
    <3>2. queue'.delete = Append(queue.delete, e)
      BY <1>1, <3>1 DEF Queues
    <3>3. ToSet(queue'.delete) = ToSet(queue.delete) \cup {e}
      BY <1>1, <3>2, SetOfAppended
    <3> QED
      BY <1>3, <1>4, <1>6, <2>1, <2>2, <2>3, <2>4, <3>1, <3>3
  <2> QED
    BY <2>5, <2>6
<1> QED
  BY <1>5, <1>6

\* A failed deletion queues the id its HomeVC holds by then.
LEMMA DeleteFailsEffect ==
  ASSUME AppInv, NEW r \in net, DeleteFails(r)
  PROVE  /\ UNCHANGED <<server, deleteNoteID, running>>
         /\ r.by = "home" /\ net' = net \ {r} /\ r.who \in DOMAIN deleteNoteID
         /\ ToSet(queue'.delete) = ToSet(queue.delete) \cup {[noteID |-> deleteNoteID[r.who]]}
<1> DEFINE e == [noteID |-> deleteNoteID[r.who]]
<1>1. /\ UNCHANGED <<server, deleteNoteID, running>> /\ r.by = "home" /\ net' = net \ {r}
      /\ queue' = [queue EXCEPT !["delete"] = Append(queue["delete"], e)]
  BY DEF DeleteFails, HomeRequest, Enqueue, remoteVars, homeVars
<1>2. queue \in Queues /\ queue.delete \in Seq(DeletePendingData) /\ r.who \in DOMAIN deleteNoteID
  BY <1>1, AppParts DEF Queues, Callbacks
<1> HIDE DEF e
<1>3. queue'.delete = Append(queue.delete, e)
  BY <1>1, <1>2 DEF Queues
<1>4. ToSet(queue'.delete) = ToSet(queue.delete) \cup {e}
  BY <1>2, <1>3, SetOfAppended
<1> QED
  BY <1>1, <1>2, <1>4 DEF e

\* The end of the process leaves the stores and nothing else.
LEMMA EndsEffect ==
  ASSUME AppTraps \/ AppKilled
  PROVE  /\ UNCHANGED <<queue, server, nextID>> /\ ~running'
         /\ net' = {} /\ phase' = "none" /\ indicesToRemove' = {}
         /\ deleteNoteID' = <<>> /\ editor' = NoEditor
BY DEF AppTraps, AppKilled, AllEnds, ProcessEnds, Idle, HomeEnds, EditEnds, storeVars, remoteVars

\* The server carries out a deletion.
LEMMA DeleteEffect ==
  ASSUME DeletionInv, NEW r \in net, ServerDeletesNote(r)
  PROVE  /\ UNCHANGED <<queue, running>>
         /\ r.op = "delete" /\ ~r.done /\ ~OnServer(r.arg.noteID)'
         /\ \E t : /\ net' = (net \ {r}) \cup {t}
                   /\ t.by = r.by /\ t.op = r.op /\ t.idx = r.idx /\ t.arg = r.arg /\ t.done
<1>1. r \in Request /\ DeviceTypeOK /\ NotesApart
  BY AppParts DEF DeletionInv, NetOK
<1>2. ~OnServer(r.arg.noteID)'
  BY <1>1, NoteDeleted
<1> DEFINE t == [r EXCEPT !.done = TRUE, !.id = 0, !.rows = <<>>]
<1>3. /\ UNCHANGED <<queue, running>> /\ r.op = "delete" /\ ~r.done
      /\ net' = (net \ {r}) \cup {t}
  BY DEF ServerDeletesNote, Reaches, Answer, storeVars
<1>4. t.by = r.by /\ t.op = r.op /\ t.idx = r.idx /\ t.arg = r.arg /\ t.done
  BY <1>1 DEF Request
<1> QED
  BY <1>2, <1>3, <1>4

LEMMA DrainQueuedStays ==
  ASSUME DeletionInv, AppNext
  PROVE  DrainQueued'
<1>1. CASE DeletionsRest
  BY <1>1 DEF DeletionsRest, DeletionInv, DrainQueued
<1>2. CASE AppLaunch
  BY <1>2, LaunchDeletes DEF DeletionInv, DrainQueued
<1>3. CASE NotifyDeletes
  BY <1>3, DeletesWritten DEF DeletionInv, DrainQueued
<1>4. ASSUME NEW r \in net, DeletionEnds(r) PROVE DrainQueued'
  BY <1>4 DEF DeletionEnds, DeletionInv, DrainQueued
<1>5. CASE /\ UNCHANGED chainVars
           /\ ToSet(queue.delete) \subseteq ToSet(queue'.delete)
  BY <1>5 DEF chainVars, DeletionInv, DrainQueued
<1>6. ASSUME NEW r \in net, ServerDeletesNote(r) PROVE queue' = queue
  BY <1>6, DeleteEffect
<1>7. CASE DeleteConfirmed /\ UNCHANGED chainVars
  <2>1. uid = NoAccount \/ uid # NoAccount
    OBVIOUS
  <2>2. ToSet(queue.delete) \subseteq ToSet(queue'.delete)
    BY <1>7, ConfirmEffect DEF DeletionInv
  <2> QED
    BY <1>5, <1>7, <2>2
<1>8. ASSUME NEW r \in net, DeleteFails(r), UNCHANGED chainVars PROVE DrainQueued'
  BY <1>5, <1>8, DeleteFailsEffect DEF DeletionInv
<1>9. CASE AppTraps \/ AppKilled
  BY <1>9, EndsEffect DEF DrainQueued
<1> QED
  BY <1>1, <1>2, <1>3, <1>4, <1>5, <1>6, <1>7, <1>8, <1>9, StepsOfDeleting DEF DeletionInv

\* What is gone stays gone: the server gives out new ids only.
LEMMA GoneStays ==
  ASSUME DeletionInv, AppNext, NEW id, id < nextID, ~OnServer(id)
  PROVE  ~OnServer(id)'
<1>1. nextID \in Nat
  BY AppParts DEF DeletionInv, DeviceTypeOK
<1>2. OnServer(id)' => OnServer(id) \/ id = nextID
  BY ServerForgets DEF DeletionInv
<1> QED
  BY <1>1, <1>2

LEMMA AnswersGoneStays ==
  ASSUME DeletionInv, AppNext
  PROVE  AnswersGone'
<1>0. /\ \A r \in Deletes(net) : r.done => ~OnServer(r.arg.noteID)'
      /\ phase = "delete" => \A i \in indicesToRemove : \A id : id = snapshot[i].noteID => ~OnServer(id)'
  <2>1. \A r \in Deletes(net) : r.done => ~OnServer(r.arg.noteID)'
    BY GoneStays DEF DeletionInv, AnswersGone, IDsIssued, Deletes
  <2>2. ASSUME phase = "delete", NEW i \in indicesToRemove, NEW id, id = snapshot[i].noteID
        PROVE  ~OnServer(id)'
    <3>1. i \in DOMAIN snapshot
      BY DEF DeletionInv, AppInv, LaunchInv, ChainOK, OffsetsSound
    <3>2. snapshot[i] \in ToSet(queue.delete)
      BY <2>2, <3>1 DEF ToSet, DeletionInv, DrainQueued
    <3>3. id < nextID
      BY <2>2, <3>2 DEF DeletionInv, IDsIssued
    <3>4. ~OnServer(id)
      BY <2>2 DEF DeletionInv, AnswersGone
    <3> QED
      BY <3>3, <3>4, GoneStays
  <2> QED
    BY <2>1, <2>2
<1>1. CASE /\ phase' # "delete" \/ UNCHANGED <<phase, snapshot, indicesToRemove>>
           /\ \A r \in Deletes(net') : r \in Deletes(net) \/ ~r.done
  BY <1>0, <1>1 DEF AnswersGone
<1>2. CASE AppLaunch
  <2>1. indicesToRemove' = {} /\ \A r \in Deletes(net') : ~r.done
    BY <1>2, LaunchDeletes DEF DeletionInv, Deletes
  <2> QED
    BY <2>1 DEF AnswersGone
<1>3. ASSUME NEW r \in net, DeletionEnds(r) PROVE AnswersGone'
  <2>1. /\ UNCHANGED <<phase, snapshot>> /\ Deletes(net') \subseteq Deletes(net)
        /\ r.op = "delete"
        /\ \/ indicesToRemove' = indicesToRemove
           \/ /\ indicesToRemove' = indicesToRemove \cup {r.idx}
              /\ r.by = "launch" /\ r.done
    BY <1>3 DEF DeletionEnds, Deletes
  <2>2. ASSUME r.by = "launch", r.done, NEW id, id = snapshot[r.idx].noteID PROVE ~OnServer(id)'
    <3>1. r \in InFlight /\ Barrier
      BY <2>1, <2>2 DEF DeletionInv, AppInv, LaunchInv, ChainOK, InFlight, Kind
    <3>2. r.arg = snapshot[r.idx]
      BY <3>1 DEF Barrier
    <3> QED
      BY <1>0, <2>1, <2>2, <3>2 DEF Deletes
  <2> QED
    BY <1>0, <2>1, <2>2 DEF AnswersGone
<1>4. ASSUME NEW r \in net, ServerDeletesNote(r), UNCHANGED chainVars PROVE AnswersGone'
  <2>1. /\ ~OnServer(r.arg.noteID)' /\ UNCHANGED <<phase, snapshot, indicesToRemove>>
        /\ \A q \in Deletes(net') : q \in Deletes(net) \/ q.arg = r.arg
    BY <1>4, DeleteEffect DEF Deletes, chainVars
  <2> QED
    BY <1>0, <2>1 DEF AnswersGone
<1>5. CASE DeleteConfirmed /\ UNCHANGED chainVars
  <2>1. \A r \in net' : r \in net \/ ~r.done
    BY <1>5, ConfirmEffect DEF DeletionInv, NewRequest
  <2> QED
    BY <1>1, <1>5, <2>1 DEF Deletes, chainVars
<1>6. ASSUME NEW r \in net, DeleteFails(r), UNCHANGED chainVars PROVE AnswersGone'
  BY <1>1, <1>6 DEF DeleteFails, Deletes, chainVars
<1>7. CASE AppTraps \/ AppKilled
  BY <1>7, EndsEffect DEF AnswersGone, Deletes
<1>8. CASE NotifyDeletes
  BY <1>1, <1>8, DeletesWritten DEF DeletionInv
<1>9. CASE DeletionsRest
  BY <1>1, <1>9 DEF DeletionsRest
<1> QED
  BY <1>2, <1>3, <1>4, <1>5, <1>6, <1>7, <1>8, <1>9, StepsOfDeleting DEF DeletionInv

LEMMA DeletersApartStay ==
  ASSUME DeletionInv, AppNext
  PROVE  DeletersApart'
<1>1. CASE Deletes(net') \subseteq Deletes(net)
  BY <1>1 DEF DeletionInv, DeletersApart
<1>2. CASE AppLaunch
  BY <1>2, LaunchDeletes DEF DeletionInv, DeletersApart, Deletes
<1>3. ASSUME NEW r \in net, ServerDeletesNote(r) PROVE DeletersApart'
  <2>1. r \in Deletes(net) /\ \E t : /\ Deletes(net') \subseteq (Deletes(net) \ {r}) \cup {t}
                                     /\ t.by = r.by /\ t.idx = r.idx
    BY <1>3, DeleteEffect DEF Deletes
  <2> QED
    BY <2>1 DEF DeletionInv, DeletersApart
<1>4. CASE DeleteConfirmed
  <2> DEFINE t == NewRequest("home", Len(deleteNoteID), Fresh("home"), "delete",
                             [noteID |-> RowNote.noteID])
  <2>1. net' \subseteq net \cup {t} /\ t.idx = Fresh("home")
    <3>1. t.idx = Fresh("home")
      BY DEF NewRequest
    <3>2. net' = net \/ net' = net \cup {t}
      BY <1>4, ConfirmEffect DEF DeletionInv
    <3> QED
      BY <3>1, <3>2
  <2> HIDE DEF t
  <2>2. \A r \in net : r \in Request /\ (r.by = "home" => r.idx < Fresh("home"))
    BY AppParts, FreshIsUnused DEF DeletionInv, NetOK
  <2>3. \A r \in net : r.by = "home" => r.idx # t.idx
    BY <2>1, <2>2, AppParts, FreshIsUnused DEF Request, DeletionInv
  <2> QED
    BY <2>1, <2>3 DEF DeletionInv, DeletersApart, Deletes
<1>5. ASSUME NEW r \in net, DeletionEnds(r) \/ DeleteFails(r) PROVE Deletes(net') \subseteq Deletes(net)
  BY <1>5 DEF DeletionEnds, DeleteFails, Deletes
<1>6. NotifyDeletes \/ DeletionsRest \/ AppTraps \/ AppKilled => Deletes(net') \subseteq Deletes(net)
  BY DeletesWritten, EndsEffect DEF DeletionInv, DeletionsRest, Deletes
<1> QED
  BY <1>1, <1>2, <1>3, <1>4, <1>5, <1>6, StepsOfDeleting DEF DeletionInv

\* The row whose deletion the user confirms has an id the server gave out.
LEMMA ConfirmedIssued ==
  ASSUME DeletionInv, DeleteConfirmed, uid # NoAccount
  PROVE  RowNote.noteID \in Int /\ RowNote.noteID < nextID
<1> DEFINE i == IndexOf(notes, RowObject)
<1>1. i \in DOMAIN notes /\ RowNote \in UserEntity /\ RowNote = notes[i]
  BY ConfirmEffect DEF DeletionInv, RowNote
<1> HIDE DEF i
<1> QED
  BY <1>1 DEF DeletionInv, IDsIssued, Below, UserEntity

\* A number the server gave out stays one.
LEMMA StillIssued ==
  ASSUME DeletionInv, AppNext
  PROVE  \A n \in Int : n < nextID => n < nextID'
<1>1. nextID \in Nat /\ nextID' \in Nat /\ nextID <= nextID'
  BY ServerForgets, AppParts DEF DeletionInv, DeviceTypeOK
<1> QED
  BY <1>1

LEMMA QueuedIssued ==
  ASSUME DeletionInv, AppNext, NEW e \in ToSet(queue'.delete)
  PROVE  e.noteID < nextID'
<1>0. /\ \A x \in ToSet(queue.delete) : x.noteID < nextID
      /\ \A i \in DOMAIN deleteNoteID : deleteNoteID[i] \in Int /\ deleteNoteID[i] < nextID
      /\ deleteNoteID \in Seq(Int) /\ queue.delete \in Seq(DeletePendingData)
  BY AppParts, LenProperties DEF DeletionInv, IDsIssued, HomeTypeOK, Queues
<1>1. \A x \in ToSet(queue.delete) : x.noteID \in Int
  <2>1. \A i \in DOMAIN queue.delete : queue.delete[i] \in DeletePendingData
    BY <1>0, LenProperties
  <2>2. \A x \in DeletePendingData : x.noteID \in Int
    BY DEF DeletePendingData
  <2> QED
    BY <2>1, <2>2 DEF ToSet
<1>2. CASE e \in ToSet(queue.delete)
  BY <1>0, <1>1, <1>2, StillIssued
<1>3. CASE DeleteConfirmed
  <2>1. e \in ToSet(queue.delete) \/ (uid # NoAccount /\ e.noteID = RowNote.noteID)
    BY <1>3, ConfirmEffect DEF DeletionInv
  <2> QED
    BY <1>2, <1>3, <2>1, ConfirmedIssued, StillIssued
<1>4. ASSUME NEW r \in net, DeleteFails(r) PROVE e.noteID < nextID'
  <2>1. \/ e \in ToSet(queue.delete)
        \/ r.who \in DOMAIN deleteNoteID /\ e.noteID = deleteNoteID[r.who]
    BY <1>4, DeleteFailsEffect DEF DeletionInv
  <2> QED
    BY <1>0, <1>2, <2>1, StillIssued
<1>5. CASE NotifyDeletes
  <2>1. e \in ToSet(snapshot) /\ phase = "delete"
    BY <1>5, DeletesWritten DEF DeletionInv
  <2> QED
    BY <1>2, <2>1 DEF DeletionInv, DrainQueued
<1>6. CASE queue'.delete = queue.delete
  BY <1>2, <1>6
<1>7. ASSUME NEW r \in net, ServerDeletesNote(r) PROVE queue' = queue
  BY <1>7, DeleteEffect
<1>8. AppLaunch => queue' = queue
  BY LaunchDeletes DEF DeletionInv
<1>9. \A r : DeletionEnds(r) => queue' = queue
  BY DEF DeletionEnds
<1>10. DeletionsRest => queue'.delete = queue.delete
  BY DEF DeletionsRest
<1>11. AppTraps \/ AppKilled => queue' = queue
  BY EndsEffect
<1> QED
  BY <1>3, <1>4, <1>5, <1>6, <1>7, <1>8, <1>9, <1>10, <1>11, StepsOfDeleting DEF DeletionInv

\* An answer holds ids the server has given out.
LEMMA AnswerIssued ==
  ASSUME DeletionInv, AppServer, NEW t \in net', t \notin net
  PROVE  t.id < nextID' /\ \A i \in DOMAIN t.rows : t.rows[i].id < nextID'
<1>0. DeviceTypeOK /\ nextID \in Nat \ {0} /\ net \subseteq Request
  BY AppParts DEF DeletionInv, DeviceTypeOK, NetOK
<1>1. PICK r \in net : \/ ServerAddsNote(r) \/ ServerEditsNote(r) \/ ServerDeletesNote(r)
                       \/ ServerListsNotes(r) \/ ServerDeletesUser(r) \/ ServerRegisters(r)
  BY DEF AppServer, ServerStep
<1>2. \A id, rows : Answer(r, id, rows) => t.id = id /\ t.rows = rows
  <2> SUFFICES ASSUME NEW id, NEW rows, Answer(r, id, rows) PROVE t.id = id /\ t.rows = rows
    OBVIOUS
  <2>1. t = [r EXCEPT !.done = TRUE, !.id = id, !.rows = rows]
    BY DEF Answer
  <2> QED
    BY <1>0, <2>1 DEF Request
<1>3. DOMAIN <<>> = {}
  OBVIOUS
<1>4. CASE ServerAddsNote(r)
  <2>1. nextID' = nextID + 1 /\ Answer(r, nextID, <<>>)
    BY <1>4 DEF ServerAddsNote
  <2>2. t.id = nextID /\ t.rows = <<>> /\ nextID < nextID'
    BY <1>0, <1>2, <2>1
  <2> QED
    BY <1>3, <2>2
<1>5. CASE ServerEditsNote(r) \/ ServerDeletesNote(r) \/ ServerDeletesUser(r) \/ ServerRegisters(r)
  <2>1. nextID' = nextID /\ Answer(r, 0, <<>>)
    BY <1>5 DEF ServerEditsNote, ServerDeletesNote, ServerDeletesUser, ServerRegisters, remoteVars
  <2>2. t.id = 0 /\ t.rows = <<>> /\ 0 < nextID'
    BY <1>0, <1>2, <2>1
  <2> QED
    BY <1>3, <2>2
<1>6. CASE ServerListsNotes(r)
  <2> DEFINE rows == IF r.owner \in Account THEN server[r.owner] ELSE <<>>
  <2>1. nextID' = nextID /\ Answer(r, 0, rows)
    BY <1>6 DEF ServerListsNotes, remoteVars
  <2>2. \A i \in DOMAIN rows : rows[i].id < nextID
    BY <1>3 DEF DeletionInv, NotesApart
  <2> HIDE DEF rows
  <2>3. t.id = 0 /\ t.rows = rows /\ 0 < nextID'
    BY <1>0, <1>2, <2>1
  <2> QED
    BY <2>1, <2>2, <2>3
<1> QED
  BY <1>1, <1>4, <1>5, <1>6

LEMMA RequestsIssued ==
  ASSUME DeletionInv, AppNext, NEW t \in net'
  PROVE  /\ t.id < nextID'
         /\ \A i \in DOMAIN t.rows : t.rows[i].id < nextID'
         /\ t.op = "delete" => t.arg.noteID < nextID'
<1>0. /\ \A r \in net : r \in Request /\ (r.op = "delete" => r.arg \in DeletePendingData)
      /\ nextID' \in Nat \ {0}
  <2>1. AppInv'
    BY AppInvStays DEF DeletionInv
  <2>2. nextID' \in Nat \ {0}
    BY <2>1 DEF AppInv, LaunchInv, DeviceTypeOK
  <2> QED
    BY <2>2, AppParts DEF DeletionInv, NetOK, Items, Kind
<1>1. ASSUME NEW r \in net, t.op = r.op, t.arg = r.arg, t.op = "delete"
      PROVE  t.arg.noteID < nextID'
  BY <1>0, <1>1, StillIssued DEF DeletionInv, IDsIssued, DeletePendingData
<1>2. CASE t \in net
  <2>1. /\ t.id \in Int /\ t.id < nextID /\ t.rows \in Seq(ServerNote)
        /\ \A i \in DOMAIN t.rows : t.rows[i].id < nextID
    BY <1>0, <1>2 DEF Request, DeletionInv, IDsIssued
  <2>2. \A i \in DOMAIN t.rows : t.rows[i].id \in Int
    <3>1. \A i \in DOMAIN t.rows : t.rows[i] \in ServerNote
      BY <2>1, LenProperties
    <3>2. \A x \in ServerNote : x.id \in Int
      BY DEF ServerNote
    <3> QED
      BY <3>1, <3>2
  <2> QED
    BY <1>1, <1>2, <2>1, <2>2, StillIssued
<1>3. CASE AppServer /\ t \notin net
  <2>1. t.id < nextID' /\ \A i \in DOMAIN t.rows : t.rows[i].id < nextID'
    BY <1>3, AnswerIssued
  <2>2. t.op = "delete" => \E r \in net : t.op = r.op /\ t.arg = r.arg
    <3>1. AppServer => running' = running /\ screen' = screen
      BY DEF AppServer, screenVars, homeVars, ServerStep, ServerAddsNote, ServerEditsNote,
         ServerDeletesNote, ServerListsNotes, ServerDeletesUser, ServerRegisters, Answer
    <3>2. AppLaunch => ~running /\ running'
      BY DEF AppLaunch, Launch
    <3>3. DeleteConfirmed => screen' # screen
      BY DEF DeleteConfirmed, CloseAlert, Touched
    <3>4. AppInv /\ NobodySignsOut
      BY DEF DeletionInv
    <3> QED
      BY <1>3, <3>1, <3>2, <3>3, <3>4, RequestsOfStep
  <2> QED
    BY <1>1, <2>1, <2>2
<1>4. CASE ~AppServer /\ t \notin net
  <2>1. /\ t.id = 0 /\ t.rows = <<>>
        /\ t.op = "delete" => \/ t.arg \in ToSet(queue.delete)
                              \/ t.arg = [noteID |-> RowNote.noteID] /\ DeleteConfirmed
    BY <1>4, RequestsOfStep DEF DeletionInv
  <2>2. ASSUME t.op = "delete" PROVE t.arg.noteID < nextID'
    <3>1. CASE t.arg \in ToSet(queue.delete)
      <4>1. t.arg.noteID < nextID
        BY <3>1 DEF DeletionInv, IDsIssued
      <4>2. queue.delete \in Seq(DeletePendingData)
        BY AppParts DEF DeletionInv, Queues
      <4>3. t.arg \in DeletePendingData
        BY <3>1, <4>2, LenProperties DEF ToSet
      <4> QED
        BY <4>1, <4>3, StillIssued DEF DeletePendingData
    <3>2. CASE t.arg = [noteID |-> RowNote.noteID] /\ DeleteConfirmed
      <4>1. uid # NoAccount
        BY <1>4, <3>2, ConfirmEffect DEF DeletionInv
      <4> QED
        BY <3>2, <4>1, ConfirmedIssued, StillIssued
    <3> QED
      BY <2>1, <2>2, <3>1, <3>2
  <2> QED
    BY <1>0, <2>1, <2>2
<1> QED
  BY <1>2, <1>3, <1>4

LEMMA HeldByHomeIssued ==
  ASSUME DeletionInv, AppNext
  PROVE  \A i \in DOMAIN deleteNoteID' : deleteNoteID'[i] < nextID'
<1>0. /\ deleteNoteID \in Seq(Int) /\ nextID \in Nat \ {0}
      /\ \A i \in DOMAIN deleteNoteID : deleteNoteID[i] \in Int /\ deleteNoteID[i] < nextID
  BY AppParts, LenProperties DEF DeletionInv, IDsIssued, HomeTypeOK, DeviceTypeOK
<1>1. CASE deleteNoteID' = deleteNoteID
  BY <1>0, <1>1, StillIssued
<1>2. CASE DeleteConfirmed
  <2>1. uid = NoAccount => deleteNoteID' = deleteNoteID
    BY <1>2, ConfirmEffect DEF DeletionInv
  <2>2. uid # NoAccount =>
          /\ DOMAIN deleteNoteID' = DOMAIN deleteNoteID
          /\ \A i \in DOMAIN deleteNoteID :
               deleteNoteID'[i] = deleteNoteID[i] \/ deleteNoteID'[i] = RowNote.noteID
          /\ RowNote.noteID \in Int /\ RowNote.noteID < nextID
    BY <1>2, ConfirmEffect, ConfirmedIssued DEF DeletionInv
  <2> QED
    BY <1>0, <1>1, <2>1, <2>2, StillIssued
<1>3. CASE HomeAppears
  <2>1. deleteNoteID' = Append(deleteNoteID, Blank)
    BY <1>3 DEF HomeAppears
  <2>2. /\ \A i \in DOMAIN deleteNoteID : i \in DOMAIN deleteNoteID' /\ deleteNoteID'[i] = deleteNoteID[i]
        /\ \A i \in DOMAIN deleteNoteID' \ DOMAIN deleteNoteID : deleteNoteID'[i] = Blank
    BY <1>0, <2>1, AppendedWriter
  <2>3. Blank \in Int /\ Blank < nextID
    BY <1>0 DEF Blank
  <2> QED
    BY <1>0, <2>2, <2>3, StillIssued
<1>4. CASE deleteNoteID' = <<>>
  BY <1>4
<1>5. \/ deleteNoteID' = deleteNoteID \/ deleteNoteID' = <<>>
      \/ DeleteConfirmed \/ HomeAppears
  <2>1. CASE AppLaunch \/ AppChain \/ AppServer \/ AppFlip
    BY <2>1 DEF AppLaunch, AppChain, AppServer, AppFlip, screenVars, homeVars
  <2>2. CASE AppTraps \/ AppKilled
    BY <2>2, EndsEffect
  <2>3. CASE AppHome
    BY <2>3 DEF AppHome, HomeStep, deleteItemAt, DeleteCancelled, DeleteRefused, DeleteAnswered,
       DeleteFails, homeVars
  <2>4. CASE AppWriting
    BY <2>4 DEF AppWriting, WritingStep, OpenWriting, closeBTNtapped, postBTNtapped, addNote,
       reachabilityChanged, PostAnswered, PostGarbled, PostFails, homeVars
  <2>5. CASE AppEdit
    BY <2>5 DEF AppEdit, EditStep, editItemAt, editCloseTapped, editPostTapped,
       editReachabilityChanged, EditDismissed, EditAnswered, homeVars
  <2>6. CASE AppSession
    BY <2>6 DEF AppSession, SessionStep, SignIn, SignUpBack, Registered, SignUpFetched,
       SignUpFails, AccountDeleted, AccountDeletionFails, EmptyThePhone, handleLogout,
       deleteUserData, homeVars
  <2> QED
    BY <2>1, <2>2, <2>3, <2>4, <2>5, <2>6 DEF AppNext
<1> QED
  BY <1>1, <1>2, <1>3, <1>4, <1>5

LEMMA HeldByEditorIssued ==
  ASSUME DeletionInv, AppNext, editor'.stage # "none"
  PROVE  editor'.noteID < nextID'
<1>0. /\ NoEditor.stage = "none" /\ NoEditor.stage \notin {"open", "closing"}
      /\ editor \in EditNoteVC \cup {NoEditor} /\ nextID \in Nat \ {0}
      /\ AppInv /\ IDsIssued
  BY AppParts DEF DeletionInv, EditTypeOK, NoEditor, DeviceTypeOK
<1>1. editor.stage # "none" => editor \in EditNoteVC /\ editor.noteID \in Int /\ editor.noteID < nextID
  BY <1>0 DEF EditNoteVC, IDsIssued
<1>2. CASE editor' = editor
  BY <1>1, <1>2, StillIssued
<1>3. ASSUME NEW n, n \in Int, editor \in EditNoteVC, editor' = [editor EXCEPT !.due = n]
      PROVE  editor'.noteID < nextID'
  <2>1. editor'.noteID = editor.noteID /\ editor.stage # "none"
    BY <1>3 DEF EditNoteVC
  <2> QED
    BY <1>1, <2>1, StillIssued
<1>4. CASE editor' = NoEditor
  BY <1>0, <1>4
<1>5. ASSUME NEW row \in DOMAIN userData, NEW text, editItemAt(row, text)
      PROVE  editor'.noteID < nextID'
  <2> DEFINE i == IndexOf(notes, userData[row])
  <2>1. i \in DOMAIN notes
    BY <1>0, <1>5, TouchFindsRow DEF editItemAt, Present, Touched
  <2>2. editor'.noteID = notes[i].noteID
    BY <1>5 DEF editItemAt
  <2> HIDE DEF i
  <2>3. notes[i].noteID \in Int /\ notes[i].noteID < nextID
    <3>1. i # 0
      <4>1. notes \in Seq(UserEntity)
        BY <1>0, AppParts
      <4> QED
        BY <2>1, <4>1, LenProperties
    <3> QED
      BY <1>0, <2>1, <3>1, RowIssued
  <2> QED
    BY <2>2, <2>3, StillIssued
<1>6. CASE editPostTapped
  <2>1. editor.stage = "open" /\ editor \in EditNoteVC
    BY <1>0, <1>6, <1>1 DEF editPostTapped
  <2>2. editor'.noteID = IDOrBlank
    BY <1>6, <2>1 DEF editPostTapped, EditNoteVC
  <2>3. IDOrBlank \in Int /\ IDOrBlank < nextID
    BY <1>0, <2>1, EditorIssued
  <2> QED
    BY <2>2, <2>3, StillIssued
<1>7. CASE AppEdit
  <2>1. CASE editReachabilityChanged
    <3> DEFINE n == editor.due - 1
    <3>1. editor' = [editor EXCEPT !.due = n] /\ editor.stage = "closing"
      BY <2>1 DEF editReachabilityChanged
    <3>2. editor \in EditNoteVC /\ editor.due \in Nat
      BY <1>0, <3>1 DEF EditNoteVC
    <3>3. n \in Int
      BY <3>2
    <3> HIDE DEF n
    <3> QED
      BY <1>3, <3>1, <3>2, <3>3
  <2> QED
    BY <1>2, <1>4, <1>5, <1>6, <1>7, <2>1 DEF AppEdit, EditStep, editCloseTapped, EditEnds,
       EditDismissed, EditAnswered
<1>8. CASE AppFlip
  <2> DEFINE n == editor.due + 1
  <2>1. ReportToEditor
    BY <1>8 DEF AppFlip
  <2>2. CASE editor.stage = "closing" /\ editor.notifies
    <3>1. editor' = [editor EXCEPT !.due = n] /\ editor \in EditNoteVC /\ editor.due \in Nat
      BY <1>0, <2>1, <2>2 DEF ReportToEditor, EditNoteVC
    <3>2. n \in Int
      BY <3>1
    <3> HIDE DEF n
    <3> QED
      BY <1>3, <3>1, <3>2
  <2>3. CASE ~(editor.stage = "closing" /\ editor.notifies)
    BY <1>2, <2>1, <2>3 DEF ReportToEditor
  <2> QED
    BY <2>2, <2>3
<1>9. AppLaunch \/ AppChain \/ AppServer \/ AppHome \/ AppWriting \/ AppSession => editor' = editor
  BY DEF AppLaunch, AppChain, AppServer, AppHome, AppWriting, AppSession, screenVars
<1> QED
  BY <1>2, <1>4, <1>7, <1>8, <1>9, EndsEffect DEF AppNext

LEMMA IDsIssuedStays ==
  ASSUME DeletionInv, AppNext
  PROVE  IDsIssued'
<1>1. Below(notes', nextID')
  <2>1. Below(notes', nextID)
    BY RowsIssued DEF DeletionInv
  <2>2. notes' \in Seq(UserEntity)
    <3>1. AppInv'
      BY AppInvStays DEF DeletionInv
    <3> QED
      BY <3>1 DEF AppInv, LaunchInv, DeviceTypeOK
  <2>3. \A i \in DOMAIN notes' : notes'[i].noteID \in Int
    <3>1. \A i \in DOMAIN notes' : notes'[i] \in UserEntity
      BY <2>2, LenProperties
    <3> QED
      BY <3>1 DEF UserEntity
  <2> QED
    BY <2>1, <2>3, StillIssued DEF Below
<1>2. \A e \in ToSet(queue'.delete) : e.noteID < nextID'
  BY QueuedIssued
<1>3. \A r \in net' : /\ r.id < nextID'
                      /\ \A i \in DOMAIN r.rows : r.rows[i].id < nextID'
                      /\ r.op = "delete" => r.arg.noteID < nextID'
  BY RequestsIssued
<1>4. \A i \in DOMAIN deleteNoteID' : deleteNoteID'[i] < nextID'
  BY HeldByHomeIssued
<1>5. editor'.stage # "none" => editor'.noteID < nextID'
  BY HeldByEditorIssued
<1> QED
  BY <1>1, <1>2, <1>3, <1>4, <1>5 DEF IDsIssued, Below

LEMMA DeletionInvStays ==
  ASSUME DeletionInv, [AppNext]_appVars
  PROVE  DeletionInv'
<1>1. CASE AppNext
  <2>1. AppInv'
    BY AppInvStays DEF DeletionInv
  <2>2. NobodySignsOut' /\ DeleteCallers'
    BY <1>1, NobodySignsOutStays DEF DeletionInv
  <2>3. NotesApart'
    BY <1>1, ServerForgets DEF DeletionInv
  <2> QED
    BY <1>1, <2>1, <2>2, <2>3, IDsIssuedStays, DrainQueuedStays, AnswersGoneStays,
       DeletersApartStay DEF DeletionInv
<1>2. CASE UNCHANGED appVars
  <2>1. AppInv'
    BY AppInvStays DEF DeletionInv
  <2>2. UNCHANGED <<left, screen, net, server, nextID, notes, queue, deleteNoteID, editor,
                    phase, snapshot, indicesToRemove>>
    BY <1>2 DEF appVars, deviceVars, storeVars, remoteVars, chainVars, screenVars, homeVars
  <2>3. NobodySignsOut' /\ DeleteCallers' /\ NotesApart'
    BY <2>2 DEF DeletionInv, NobodySignsOut, DeleteCallers, NotesApart
  <2>4. IDsIssued'
    BY <2>2 DEF DeletionInv, IDsIssued, Below
  <2>5. DrainQueued' /\ AnswersGone' /\ DeletersApart'
    BY <2>2 DEF DeletionInv, DrainQueued, AnswersGone, DeletersApart, Deletes, OnServer
  <2> QED
    BY <2>1, <2>3, <2>4, <2>5 DEF DeletionInv
<1> QED
  BY <1>1, <1>2

---------------------------------------------------------------------------
(* Where a deletion is, and how it gets from one place to the next.        *)

Ordered(id)  == [noteID |-> id] \in ToSet(queue.delete)
UnderWay(id) == \E r \in Deletes(net) : ~r.done /\ r.arg = [noteID |-> id]
Dropped(id)  == \E p \in abandoned : p[1] = "delete" /\ p[2] = [noteID |-> id]

Settled(id) == ~OnServer(id) \/ Ordered(id) \/ UnderWay(id) \/ Dropped(id)

LEMMA SettledMeans == DeletionSurvives <=> \A id \in deleted : Settled(id)
BY DEF DeletionSurvives, Pursued, InQueue, Travelling, Abandoned, Same, Settled, Ordered,
       UnderWay, Dropped, Deletes

LEMMA SettledStillMeans ==
  ASSUME \A id \in deleted' : Settled(id)'
  PROVE  DeletionSurvives'
BY DEF DeletionSurvives, Pursued, InQueue, Travelling, Abandoned, Same, Settled, Ordered,
       UnderWay, Dropped, Deletes

\* What is given up on in a step is remembered.
LEMMA DropsAreRemembered ==
  ASSUME MCNext, NEW id, <<"delete", [noteID |-> id]>> \in GivenUp \cup Overwritten
  PROVE  Dropped(id)'
<1> DEFINE p == <<"delete", [noteID |-> id]>>
<1>1. p \in abandoned'
  BY DEF MCNext
<1>2. p[1] = "delete" /\ p[2] = [noteID |-> id]
  OBVIOUS
<1> HIDE DEF p
<1> QED
  BY <1>1, <1>2 DEF Dropped

\* The notify block keeps what was not acknowledged, and writes over what was
\* queued since.
LEMMA DeletesKept ==
  ASSUME DeletionInv, MCNext, NotifyDeletes, NEW id, id < nextID, Ordered(id)
  PROVE  Settled(id)'
<1> DEFINE y == [noteID |-> id]
<1>0. AppNext
  BY DEF MCNext
<1>1. /\ phase = "delete" /\ snapshot \in Seq(DeletePendingData)
      /\ queue'.delete = removeAtOffsets(snapshot, indicesToRemove)
  BY DeletesWritten DEF DeletionInv
<1>2. CASE y \in ToSet(queue'.delete)
  BY <1>2 DEF Ordered, Settled
<1>3. CASE y \notin ToSet(snapshot) /\ y \notin ToSet(queue'.delete)
  <2>1. y \in ToSet(queue[phase]) /\ ~InQueue(phase, y, queue') /\ phase \in Kind
    BY <1>1, <1>3 DEF Ordered, InQueue, Same, Kind
  <2>2. <<phase, y>> \in Overwritten
    <3> HIDE DEF y
    <3> QED
      BY <1>3, <2>1 DEF Overwritten
  <2> QED
    BY <1>1, <2>2, DropsAreRemembered DEF Settled
<1>4. ASSUME NEW i \in DOMAIN snapshot, snapshot[i] = y PROVE Settled(id)'
  <2>1. CASE i \in indicesToRemove
    <3>1. ~OnServer(id)
      BY <1>1, <1>4, <2>1 DEF DeletionInv, AnswersGone
    <3> QED
      BY <1>0, <3>1, GoneStays DEF Settled
  <2>2. CASE i \notin indicesToRemove
    <3>1. i \in Kept(snapshot, indicesToRemove)
      BY <1>4, <2>2 DEF Kept
    <3>2. \E k \in DOMAIN queue'.delete : queue'.delete[k] = snapshot[i]
      BY <1>1, <3>1, KeptIsLeft
    <3> QED
      BY <1>2, <1>4, <3>2 DEF ToSet
  <2> QED
    BY <2>1, <2>2
<1> QED
  BY <1>2, <1>3, <1>4 DEF ToSet

\* A request of the dialog's that ends has no other like it.
LEMMA NoTwin ==
  ASSUME DeletionInv, NEW r \in net, r.by = "home", net' = net \ {r}
  PROVE  [r EXCEPT !.done = TRUE] \notin {[p EXCEPT !.id = 0, !.rows = <<>>] : p \in net'}
<1>0. net \subseteq Request /\ \A q \in net : q.by = "home" => q.op = "delete"
  BY AppParts DEF DeletionInv, NetOK, DeleteCallers
<1> SUFFICES ASSUME NEW p \in net', [r EXCEPT !.done = TRUE] = [p EXCEPT !.id = 0, !.rows = <<>>]
             PROVE  FALSE
  OBVIOUS
<1>1. p \in Request /\ r \in Request /\ p \in net /\ p # r
  BY <1>0
<1>2. /\ [r EXCEPT !.done = TRUE].by = r.by /\ [r EXCEPT !.done = TRUE].idx = r.idx
      /\ [p EXCEPT !.id = 0, !.rows = <<>>].by = p.by
      /\ [p EXCEPT !.id = 0, !.rows = <<>>].idx = p.idx
  BY <1>1 DEF Request
<1>3. p.by = r.by /\ p.idx = r.idx
  BY <1>2
<1> QED
  BY <1>0, <1>1, <1>3 DEF DeletionInv, DeletersApart, Deletes

\* A request that ends is carried out, still in the queue, or garbled.
LEMMA EndedKept ==
  ASSUME DeletionInv, MCNext, NEW r \in net, DeletionEnds(r), NEW id, UnderWay(id)
  PROVE  Settled(id)'
<1> DEFINE y == [noteID |-> id]
<1>1. PICK q \in Deletes(net) : ~q.done /\ q.arg = y
  BY DEF UnderWay
<1>2. /\ r \in net /\ r.op = "delete" /\ net' = net \ {r}
      /\ UNCHANGED <<queue, server, phase, snapshot>>
  BY DEF DeletionEnds
<1>3. CASE q # r
  BY <1>1, <1>2, <1>3 DEF Deletes, UnderWay, Settled
<1>4. CASE q = r /\ r.by = "launch"
  <2>1. r \in InFlight /\ Barrier /\ snapshot \in Seq(Entry)
    BY <1>2, <1>4 DEF DeletionInv, AppInv, LaunchInv, ChainOK, InFlight, Kind
  <2>2. phase = "delete" /\ r.arg \in ToSet(snapshot)
    BY <1>2, <2>1 DEF Barrier, ToSet
  <2>3. r.arg \in ToSet(queue.delete)
    BY <2>2 DEF DeletionInv, DrainQueued
  <2> QED
    BY <1>1, <1>2, <1>4, <2>3 DEF Ordered, Settled
<1>5. CASE q = r /\ r.by = "home"
  <2>1. Spend("garble") /\ running' = running
    BY <1>1, <1>5 DEF DeletionEnds
  <2>2. left'["garble"] < left["garble"]
    <3>1. "garble" \in Resource /\ left["garble"] \in Nat /\ left["garble"] > 0
      BY <2>1, AppParts, ScreenLimits DEF DeletionInv, Spend, SpendAll
    <3>2. left'["garble"] = left["garble"] - 1
      BY <2>1, <3>1 DEF Spend, SpendAll
    <3> QED
      BY <3>1, <3>2
  <2>3. CASE InQueue("delete", r.arg, queue')
    BY <1>1, <1>5, <2>3 DEF InQueue, Same, Ordered, Settled
  <2>4. CASE ~InQueue("delete", r.arg, queue')
    <3>1. r \in net \ net' /\ r.op \in Kind /\ ~r.done
      BY <1>1, <1>2, <1>5 DEF Kind
    <3>2. <<r.op, r.arg>> \in GivenUp
      BY <1>2, <1>5, <2>2, <2>4, <3>1, NoTwin DEF GivenUp
    <3> QED
      BY <1>1, <1>2, <1>5, <3>2, DropsAreRemembered DEF Settled
  <2> QED
    BY <2>3, <2>4
<1> QED
  BY <1>3, <1>4, <1>5 DEF DeletionEnds

\* A deletion that fails is queued, unless its HomeVC holds another id by then.
LEMMA FailedKept ==
  ASSUME DeletionInv, MCNext, NEW r \in net, DeleteFails(r), NEW id, UnderWay(id)
  PROVE  Settled(id)'
<1> DEFINE y == [noteID |-> id]
<1>1. PICK q \in Deletes(net) : ~q.done /\ q.arg = y
  BY DEF UnderWay
<1>2. /\ r.by = "home" /\ net' = net \ {r}
      /\ ToSet(queue'.delete) = ToSet(queue.delete) \cup {[noteID |-> deleteNoteID[r.who]]}
  BY DeleteFailsEffect DEF DeletionInv
<1>3. CASE q # r
  BY <1>1, <1>2, <1>3 DEF Deletes, UnderWay, Settled
<1>4. CASE q = r /\ deleteNoteID[r.who] = r.arg.noteID
  <2>1. y.noteID = id /\ r.arg = y
    BY <1>1, <1>4
  <2> QED
    BY <1>2, <1>4, <2>1 DEF Ordered, Settled
<1>5. CASE q = r /\ deleteNoteID[r.who] # r.arg.noteID
  <2>1. CASE InQueue("delete", r.arg, queue')
    BY <1>1, <1>5, <2>1 DEF InQueue, Same, Ordered, Settled
  <2>2. CASE ~InQueue("delete", r.arg, queue')
    <3>1. r \in net \ net' /\ r.op = "delete" /\ r.op \in Kind /\ ~r.done
      BY <1>1, <1>2, <1>5 DEF Kind, Deletes
    <3>2. <<r.op, r.arg>> \in GivenUp
      BY <1>2, <1>5, <2>2, <3>1, NoTwin DEF GivenUp
    <3> QED
      BY <1>1, <1>5, <3>1, <3>2, DropsAreRemembered DEF Settled
  <2> QED
    BY <2>1, <2>2
<1> QED
  BY <1>3, <1>4, <1>5

\* The end of the process takes with it the requests under way.
LEMMA EndsKept ==
  ASSUME DeletionInv, MCNext, AppTraps \/ AppKilled, NEW id, UnderWay(id)
  PROVE  Settled(id)'
<1>1. ~running' /\ net' = {}
  BY EndsEffect
<1>2. PICK r \in Deletes(net) : ~r.done /\ r.arg = [noteID |-> id]
  BY DEF UnderWay
<1>3. CASE InQueue("delete", r.arg, queue')
  BY <1>2, <1>3 DEF InQueue, Same, Ordered, Settled
<1>4. CASE ~InQueue("delete", r.arg, queue')
  <2>1. r \in net \ net' /\ r.op = "delete" /\ r.op \in Kind
    BY <1>1, <1>2 DEF Deletes, Kind
  <2>2. [r EXCEPT !.done = TRUE] \notin {[p EXCEPT !.id = 0, !.rows = <<>>] : p \in net'}
    BY <1>1
  <2>3. <<r.op, r.arg>> \in GivenUp
    BY <1>1, <1>2, <1>4, <2>1, <2>2 DEF GivenUp
  <2> QED
    BY <1>2, <2>1, <2>3, DropsAreRemembered DEF Settled
<1> QED
  BY <1>3, <1>4

\* No step loses a deletion that was safe.
LEMMA DeletionStaysSettled ==
  ASSUME DeletionInv, MCNext, NEW id, id < nextID, Settled(id)
  PROVE  Settled(id)'
<1>0. AppNext /\ abandoned \subseteq abandoned'
  BY DEF MCNext
<1>1. CASE ~OnServer(id)
  BY <1>0, <1>1, GoneStays DEF Settled
<1>2. CASE Dropped(id)
  BY <1>0, <1>2 DEF Dropped, Settled
<1>3. CASE Ordered(id) \/ UnderWay(id)
  <2>1. CASE DeletionsRest
    BY <1>3, <2>1 DEF DeletionsRest, Ordered, UnderWay, Settled
  <2>2. CASE AppLaunch
    <3>1. queue' = queue /\ net = {}
      BY <2>2, LaunchDeletes DEF DeletionInv
    <3> QED
      BY <1>3, <3>1 DEF Ordered, UnderWay, Deletes, Settled
  <2>3. CASE NotifyDeletes
    <3>1. Deletes(net') = Deletes(net)
      BY <2>3, DeletesWritten DEF DeletionInv
    <3>2. CASE UnderWay(id)
      BY <3>1, <3>2 DEF UnderWay, Settled
    <3> QED
      BY <1>3, <2>3, <3>2, DeletesKept
  <2>4. ASSUME NEW r \in net, DeletionEnds(r) PROVE Settled(id)'
    <3>1. CASE Ordered(id)
      BY <2>4, <3>1 DEF DeletionEnds, Ordered, Settled
    <3> QED
      BY <1>3, <2>4, <3>1, EndedKept
  <2>5. ASSUME NEW r \in net, ServerDeletesNote(r) PROVE Settled(id)'
    <3>1. /\ queue' = queue /\ ~OnServer(r.arg.noteID)'
          /\ \A q \in Deletes(net) : q # r => q \in Deletes(net')
      BY <2>5, DeleteEffect DEF Deletes
    <3>2. CASE Ordered(id)
      BY <3>1, <3>2 DEF Ordered, Settled
    <3>3. CASE UnderWay(id)
      <4>1. PICK q \in Deletes(net) : ~q.done /\ q.arg = [noteID |-> id]
        BY <3>3 DEF UnderWay
      <4>2. q = r => r.arg.noteID = id
        BY <4>1
      <4> QED
        BY <3>1, <4>1, <4>2 DEF UnderWay, Settled
    <3> QED
      BY <1>3, <3>2, <3>3
  <2>6. CASE DeleteConfirmed
    <3>1. net \subseteq net' /\ ToSet(queue.delete) \subseteq ToSet(queue'.delete)
      BY <2>6, ConfirmEffect DEF DeletionInv
    <3> QED
      BY <1>3, <3>1 DEF Ordered, UnderWay, Deletes, Settled
  <2>7. ASSUME NEW r \in net, DeleteFails(r) PROVE Settled(id)'
    <3>1. CASE Ordered(id)
      BY <2>7, <3>1, DeleteFailsEffect DEF DeletionInv, Ordered, Settled
    <3> QED
      BY <1>3, <2>7, <3>1, FailedKept
  <2>8. CASE AppTraps \/ AppKilled
    <3>1. CASE Ordered(id)
      BY <2>8, <3>1, EndsEffect DEF Ordered, Settled
    <3> QED
      BY <1>3, <2>8, <3>1, EndsKept
  <2> QED
    BY <1>0, <2>1, <2>2, <2>3, <2>4, <2>5, <2>6, <2>7, <2>8, StepsOfDeleting DEF DeletionInv
<1> QED
  BY <1>1, <1>2, <1>3 DEF Settled

---------------------------------------------------------------------------
(* Taps on Delete.                                                         *)

\* Confirming a deletion takes one row away.
LEMMA OneRowGoes ==
  ASSUME AppInv, DeleteConfirmed, NEW id \in Ids(notes) \ Ids(notes')
  PROVE  id = RowNote.noteID
<1> DEFINE k == IndexOf(notes, RowObject)
<1>1. /\ notes \in Seq(UserEntity) /\ notes' = deleteUserContext(notes, RowObject)
  BY AppParts DEF DeleteConfirmed
<1>2. PICK j \in DOMAIN notes : notes[j].noteID = id
  BY DEF Ids, ToSet
<1>3. \A i \in DOMAIN notes' : notes'[i].noteID # id
  BY DEF Ids, ToSet
<1>4. k # 0
  BY <1>1, <1>2, <1>3 DEF deleteUserContext
<1>5. k \in 1..Len(notes) /\ notes' = RemoveAt(notes, k) /\ RowNote = notes[k]
  BY <1>1, <1>4, RowOfObject, LenProperties DEF deleteUserContext, RowNote
<1> HIDE DEF k
<1>6. j # k => \E i \in DOMAIN notes' : notes'[i] = notes[j]
  BY <1>1, <1>5, OthersRemain
<1> QED
  BY <1>2, <1>3, <1>5, <1>6

\* The dialog closes with the row, or without.
LEMMA AlertCloses ==
  ASSUME AppNext, screen = "alert", screen' = "home"
  PROVE  DeleteConfirmed \/ notes' = notes
<1>1. CASE AppLaunch \/ AppChain \/ AppServer \/ AppFlip
  BY <1>1 DEF AppLaunch, AppChain, AppServer, AppFlip, screenVars, homeVars
<1>2. CASE AppTraps \/ AppKilled
  BY <1>2 DEF AppTraps, AppKilled, AllEnds, HomeEnds
<1>3. CASE AppHome
  BY <1>3 DEF AppHome, HomeStep, HomeAppears, deleteItemAt, DeleteCancelled, DeleteRefused,
     DeleteAnswered, DeleteFails, Present, Touched, deviceVars, storeVars
<1>4. CASE AppWriting
  BY <1>4 DEF AppWriting, WritingStep, OpenWriting, closeBTNtapped, postBTNtapped, addNote,
     reachabilityChanged, PostAnswered, PostGarbled, PostFails, Present, BackHome, homeVars
<1>5. CASE AppEdit
  BY <1>5 DEF AppEdit, EditStep, editItemAt, editCloseTapped, editPostTapped,
     editReachabilityChanged, EditDismissed, EditAnswered, Present, BackHome, homeVars
<1>6. CASE AppSession
  BY <1>6 DEF AppSession, SessionStep, SignIn, SignUpBack, Registered, SignUpFetched,
     SignUpFails, SignUpEnds, AccountDeleted, AccountDeletionFails, EmptyThePhone, handleLogout,
     deleteUserData, Present, BackHome, Touched, homeVars
<1> QED
  BY <1>1, <1>2, <1>3, <1>4, <1>5, <1>6 DEF AppNext

\* A deletion confirmed while signed in is sent or queued.
LEMMA NewlyDeleted ==
  ASSUME DeletionInv, MCNext, NEW id \in deleted' \ deleted
  PROVE  id \in Int /\ id < nextID /\ Settled(id)'
<1>1. /\ AppNext /\ screen = "alert" /\ screen' = "home" /\ uid # NoAccount
      /\ id \in Ids(notes) \ Ids(notes')
  BY DEF MCNext
<1>2. DeleteConfirmed
  BY <1>1, AlertCloses
<1>3. id = RowNote.noteID
  BY <1>1, <1>2, OneRowGoes DEF DeletionInv
<1>4. id \in Int /\ id < nextID
  BY <1>1, <1>2, <1>3, ConfirmedIssued
<1> DEFINE y == [noteID |-> id]
           r == NewRequest("home", Len(deleteNoteID), Fresh("home"), "delete", y)
<1>5. y \in ToSet(queue'.delete) \/ r \in net'
  <2>1. \/ y \in ToSet(queue'.delete)
        \/ net' = net \cup {NewRequest("home", Len(deleteNoteID), Fresh("home"), "delete",
                                       [noteID |-> RowNote.noteID])}
    BY <1>1, <1>2, <1>3, ConfirmEffect DEF DeletionInv
  <2> QED
    BY <1>3, <2>1
<1>6. r.op = "delete" /\ ~r.done /\ r.arg = y
  BY DEF NewRequest
<1> HIDE DEF r
<1> QED
  BY <1>4, <1>5, <1>6 DEF Ordered, UnderWay, Deletes, Settled

---------------------------------------------------------------------------
(* The theorem.                                                            *)

\* A deletion the user confirmed while signed in is carried out, queued, on
\* its way, or given up on for one of the reasons listed (a kill or a trap, a
\* garbled answer, a second deletion from the same HomeVC before the first
\* fails, a notify block that writes over it): through any writes, edits,
\* deletions, failures, kills and launches, for as long as nobody signs out,
\* from any store whose ids the server gave out (HomeVC.deleteItemAt, its
\* completion handler and AppDelegate.postDeletePendingData).
THEOREM ConfirmedDeletionsSurvive ==
  /\ AppInit /\ NoHistory /\ left["signOut"] = 0 /\ NotesApart /\ IDsIssued
  /\ [][MCNext]_MCVars
  => []DeletionSurvives
<1> DEFINE Inv == DeletionInv /\ (\A id \in deleted : id \in Int /\ id < nextID) /\ DeletionSurvives
<1>1. ASSUME AppInit, NoHistory, left["signOut"] = 0, NotesApart, IDsIssued PROVE Inv
  <2>1. AppInv
    BY <1>1, AppInitIsOK
  <2>2. net = {} /\ phase = "none" /\ screen = "off" /\ deleted = {}
    BY <1>1 DEF AppInit, Init, HomeInit, NoHistory
  <2>3. /\ NobodySignsOut /\ DeleteCallers /\ DrainQueued /\ AnswersGone /\ DeletersApart
    BY <1>1, <2>2 DEF NobodySignsOut, DeleteCallers, DrainQueued, AnswersGone, DeletersApart, Deletes
  <2> QED
    BY <1>1, <2>1, <2>2, <2>3 DEF DeletionInv, DeletionSurvives
<1>2. ASSUME Inv, MCNext PROVE Inv'
  <2>1. AppNext
    BY <1>2 DEF MCNext
  <2>2. DeletionInv'
    BY <1>2, <2>1, DeletionInvStays
  <2>3. \A n \in Int : n < nextID => n < nextID'
    BY <1>2, <2>1, StillIssued
  <2>4. \A id \in deleted' : Settled(id)' /\ id \in Int /\ id < nextID
    <3> TAKE id \in deleted'
    <3>1. id \in deleted => id \in Int /\ id < nextID /\ Settled(id)
      BY <1>2, SettledMeans
    <3> QED
      BY <1>2, <3>1, DeletionStaysSettled, NewlyDeleted
  <2>5. \A id \in deleted' : id \in Int /\ id < nextID'
    BY <2>3, <2>4
  <2>6. DeletionSurvives'
    BY <2>4, SettledStillMeans
  <2> QED
    BY <2>2, <2>5, <2>6
<1>3. ASSUME Inv, UNCHANGED MCVars PROVE Inv'
  <2>1. UNCHANGED appVars /\ UNCHANGED <<abandoned, deleted>>
    BY <1>3 DEF MCVars, historyVars
  <2>2. DeletionInv'
    BY <1>3, <2>1, DeletionInvStays
  <2>3. UNCHANGED <<server, nextID, queue, net>>
    BY <2>1 DEF appVars, deviceVars, storeVars, remoteVars
  <2>4. DeletionSurvives'
    BY <1>3, <2>1, <2>3 DEF DeletionSurvives, Pursued, InQueue, Travelling, Abandoned, OnServer
  <2> QED
    BY <1>3, <2>1, <2>2, <2>3, <2>4
<1>4. Inv => DeletionSurvives
  OBVIOUS
<1>5. Inv /\ [MCNext]_MCVars => Inv'
  BY <1>2, <1>3
<1> QED
  BY <1>1, <1>4, <1>5, PTL

---------------------------------------------------------------------------
(* Edits made, while nobody writes a note or signs out.                    *)

NobodyWrites ==
  /\ left["write"] = 0 /\ DOMAIN writers = {} /\ queue.post = <<>> /\ phase # "post"
  /\ screen # "writing"
  /\ \A r \in net : r.by # "writing" /\ r.op # "post"

\* Who edits on the server: the launch, and EditNoteVC, which does nothing
\* else.  Nobody deletes the account.
EditCallers == \A r \in net : /\ r.op = "edit" => r.by \in {"launch", "editing"}
                              /\ r.by = "editing" => r.op = "edit"
                              /\ r.op # "deleteUser"

Edits(t) == {r \in t : r.op = "edit"}

\* What the property asks of the edits made: new texts, told apart.
ToldApart(known) ==
  \A x \in edited : x.text \notin known /\ \A y \in edited : y # x => y.text # x.text

\* A request under way was there, or has just been answered, or sent: an edit
\* by a phase that starts, of an entry that waits, or by the editor's report.
LEMMA EditRequestsOfStep ==
  ASSUME AppInv, NobodySignsOut, NobodyWrites, EditCallers, AppNext, NEW t \in net'
  PROVE  \/ t \in net
         \/ /\ AppServer
            /\ \E r \in net : /\ t.by = r.by /\ t.op = r.op /\ t.arg = r.arg /\ t.idx = r.idx
                              /\ t.done
         \/ /\ ~t.done /\ t.rows = <<>> /\ t.by # "writing" /\ t.op # "post"
            /\ t.by = "editing" => t.op = "edit"
            /\ t.op # "deleteUser"
            /\ t.op = "edit" => \/ /\ t.by = "launch" /\ t.arg \in ToSet(queue.edit)
                                   /\ AppLaunch \/ NotifyDeletes
                                \/ /\ t.by = "editing" /\ t.idx = Fresh("editing")
                                   /\ t.arg = [noteID |-> NoteIDNow, text |-> editor.text]
                                   /\ editReachabilityChanged
<1> USE DEF NewRequest
<1>0. /\ queue.post = <<>> /\ DOMAIN writers = {} /\ phase # "post"
      /\ queue \in Queues /\ \A r \in net : r \in Request
  BY AppParts DEF NobodyWrites, NetOK
<1>1. CASE AppLaunch
  <2>1. postDeletePendingData(queue)
    BY <1>1 DEF AppLaunch, Launch
  <2>2. ASSUME NEW kind \in {"delete", "edit"}, Drain(kind, queue[kind]), t \notin net
        PROVE  /\ ~t.done /\ t.rows = <<>> /\ t.by = "launch" /\ t.op = kind
               /\ t.arg \in ToSet(queue[kind])
    BY <2>2 DEF Drain, ToSet
  <2>3. \/ Drain("delete", queue["delete"]) \/ Drain("edit", queue["edit"])
        \/ net' = net
        \/ net' = net \cup {NewRequest("launch", 0, 1, "fetch", NoArg)}
    BY <1>0, <2>1 DEF postDeletePendingData, postEditedPendingData, postPendingUserNotes
  <2> QED
    BY <1>1, <2>2, <2>3
<1>2. CASE AppChain
  <2>2. NotifyDeletes \/ NotifyEdits => Written.post = <<>>
    BY <1>0 DEF NotifyDeletes, NotifyEdits, Written, Queues
  <2>3. \/ net' \subseteq net
        \/ net' = net \cup {NewRequest("launch", 0, 1, "fetch", NoArg)}
        \/ NotifyDeletes /\ Drain("edit", queue.edit)
    <3>1. CASE NotifyDeletes
      <4>1. Written.edit = queue.edit
        BY <1>0, <3>1 DEF NotifyDeletes, Written, Queues
      <4>2. \/ net' = net
            \/ net' = net \cup {NewRequest("launch", 0, 1, "fetch", NoArg)}
            \/ Drain("edit", Written.edit)
        BY <2>2, <3>1 DEF NotifyDeletes, postEditedPendingData, postPendingUserNotes
      <4> QED
        BY <3>1, <4>1, <4>2
    <3>2. CASE NotifyEdits
      BY <2>2, <3>2 DEF NotifyEdits, postPendingUserNotes
    <3>3. CASE NotifyPosts
      BY <1>0, <3>3 DEF NotifyPosts
    <3>4. CASE \E r \in net : \/ LaunchRequestSucceeds(r) \/ LaunchRequestFails(r)
                              \/ FetchSucceeds(r) \/ FetchFails(r)
      BY <3>4 DEF LaunchRequestSucceeds, LaunchRequestFails, FetchSucceeds, FetchFails
    <3> QED
      BY <1>2, <3>1, <3>2, <3>3, <3>4 DEF AppChain, LaunchStep, Notify
  <2>4. ASSUME Drain("edit", queue.edit), t \notin net
        PROVE  /\ ~t.done /\ t.rows = <<>> /\ t.by = "launch" /\ t.op = "edit"
               /\ t.arg \in ToSet(queue.edit)
    BY <2>4 DEF Drain, ToSet
  <2> QED
    BY <2>3, <2>4
<1>3. CASE AppHome
  <2>1. \/ net' \subseteq net
        \/ \E arg : net' = net \cup {NewRequest("home", Len(deleteNoteID), Fresh("home"),
                                                "delete", arg)}
    BY <1>3 DEF AppHome, HomeStep, HomeAppears, deleteItemAt, DeleteCancelled, DeleteRefused,
       DeleteConfirmed, checkInternet, DeleteAnswered, DeleteFails, deviceVars
  <2> QED
    BY <2>1
<1>4. CASE AppWriting
  <2>1. net' \subseteq net
    BY <1>0, <1>4 DEF AppWriting, WritingStep, OpenWriting, PostAnswered, PostGarbled, PostFails,
       deviceVars
  <2> QED
    BY <2>1
<1>5. CASE AppEdit
  <2>1. \/ net' \subseteq net
        \/ /\ editReachabilityChanged
           /\ net' = net \cup {NewRequest("editing", 1, Fresh("editing"), "edit",
                                          [noteID |-> NoteIDNow, text |-> editor.text])}
    BY <1>5 DEF AppEdit, EditStep, editItemAt, editCloseTapped, editPostTapped,
       editReachabilityChanged, EditDismissed, EditAnswered, deviceVars
  <2> QED
    BY <2>1
<1>6. CASE AppSession
  <2>1. \A S : SpendAll(S) => "signOut" \notin S
    BY DEF NobodySignsOut, SpendAll
  <2>2. \/ net' \subseteq net
        \/ \E x \in Account : SignIn(x)
        \/ \E r \in net : Registered(r)
    BY <1>6, <2>1 DEF AppSession, SessionStep, SignUpBack, SignUpFetched, SignUpFails,
       AccountDeleted, AccountDeletionFails, handleLogout, deleteUserData, deviceVars, Spend
  <2>3. ASSUME NEW x \in Account, SignIn(x), t \notin net
        PROVE  /\ ~t.done /\ t.rows = <<>> /\ t.by = "signUp" /\ t.op = "register"
    BY <2>3 DEF SignIn
  <2>4. ASSUME NEW r \in net, Registered(r), t \notin net
        PROVE  /\ ~t.done /\ t.rows = <<>> /\ t.by = "signUp" /\ t.op = "fetch"
    BY <2>4 DEF Registered
  <2> QED
    BY <2>2, <2>3, <2>4
<1>7. CASE AppTraps \/ AppKilled \/ AppFlip
  BY <1>7 DEF AppTraps, AppKilled, AllEnds, ProcessEnds, AppFlip, NetworkChanges
<1>8. CASE AppServer
  <2>1. PICK r \in net : \E id, rows : Answer(r, id, rows)
    BY <1>8 DEF AppServer, ServerStep, ServerAddsNote, ServerEditsNote, ServerDeletesNote,
       ServerListsNotes, ServerDeletesUser, ServerRegisters
  <2>2. PICK id, rows : Answer(r, id, rows)
    BY <2>1
  <2>3. t \in net \/ t = [r EXCEPT !.done = TRUE, !.id = id, !.rows = rows]
    BY <2>2 DEF Answer
  <2>4. t \in net \/ (/\ t.by = r.by /\ t.op = r.op /\ t.arg = r.arg /\ t.idx = r.idx /\ t.done)
    BY <1>0, <2>3 DEF Request
  <2> QED
    BY <1>8, <2>4
<1> QED
  BY <1>1, <1>2, <1>3, <1>4, <1>5, <1>6, <1>7, <1>8 DEF AppNext

LEMMA NobodyWritesStays ==
  ASSUME AppInv, NobodySignsOut, NobodyWrites, EditCallers, AppNext
  PROVE  NobodyWrites' /\ EditCallers'
<1>0. /\ queue.post = <<>> /\ DOMAIN writers = {} /\ phase # "post" /\ screen # "writing"
      /\ queue \in Queues
      /\ \A r \in net : r.by # "writing" /\ r.op # "post"
  BY AppParts DEF NobodyWrites
<1>1. left'["write"] = 0 /\ \A S : SpendAll(S) => "write" \notin S
  BY NoneLeft, ScreenLimits DEF NobodyWrites, SpendAll
<1>2. \A t \in net' : /\ t.by # "writing" /\ t.op # "post"
                      /\ t.op = "edit" => t.by \in {"launch", "editing"}
                      /\ t.by = "editing" => t.op = "edit"
                      /\ t.op # "deleteUser"
  BY <1>0, EditRequestsOfStep DEF EditCallers
<1>3. /\ WithoutDay(<<>>, RowNote.day) = <<>>
  BY DEF WithoutDay, SelectInSeq
<1>4. DOMAIN writers' = {} /\ queue'.post = <<>> /\ phase' # "post" /\ screen' # "writing"
  <2>1. CASE AppLaunch
    <3>1. UNCHANGED <<queue, writers, screen>>
      BY <2>1 DEF AppLaunch, Launch, storeVars, screenVars, homeVars
    <3>2. phase' # "post"
      BY <1>0, <2>1 DEF AppLaunch, Launch, postDeletePendingData, postEditedPendingData,
         postPendingUserNotes, Drain, Idle
    <3> QED
      BY <1>0, <3>1, <3>2
  <2>2. CASE AppChain
    <3>1. UNCHANGED <<writers, screen>>
      BY <2>2 DEF AppChain, screenVars, homeVars
    <3>2. CASE NotifyDeletes \/ NotifyEdits
      <4>1. Written.post = <<>> /\ queue' = Written
        BY <1>0, <3>2 DEF NotifyDeletes, NotifyEdits, Written, Queues
      <4>2. phase' # "post"
        BY <4>1, <3>2 DEF NotifyDeletes, NotifyEdits, postEditedPendingData, postPendingUserNotes,
           Drain, Idle
      <4> QED
        BY <1>0, <3>1, <4>1, <4>2
    <3>3. CASE ~(NotifyDeletes \/ NotifyEdits)
      <4>1. UNCHANGED <<queue, phase>>
        BY <1>0, <2>2, <3>3 DEF AppChain, LaunchStep, Notify, NotifyPosts, LaunchRequestSucceeds,
           LaunchRequestFails, FetchSucceeds, FetchFails, storeVars, chainVars
      <4> QED
        BY <1>0, <3>1, <4>1
    <3> QED
      BY <3>2, <3>3
  <2>3. CASE AppServer
    BY <1>0, <2>3 DEF AppServer, ServerStep, ServerAddsNote, ServerEditsNote,
       ServerDeletesNote, ServerListsNotes, ServerDeletesUser, ServerRegisters, Answer, storeVars,
       chainVars, screenVars, homeVars
  <2>4. CASE AppHome
    <3>1. UNCHANGED <<writers, phase>>
      BY <2>4 DEF AppHome, chainVars
    <3>2. screen' # "writing"
      BY <1>0, <2>4 DEF AppHome, HomeStep, HomeAppears, deleteItemAt, DeleteCancelled, DeleteRefused,
         DeleteConfirmed, DeleteAnswered, DeleteFails, CloseAlert, Present, homeVars
    <3>3. CASE DeleteConfirmed
      <4>1. \/ queue' = [queue EXCEPT !.post = <<>>]
            \/ \E q : queue' = [queue EXCEPT !.post = <<>>, !.delete = q]
        BY <1>0, <1>3, <3>3 DEF DeleteConfirmed, checkInternet
      <4> QED
        BY <1>0, <3>1, <3>2, <4>1 DEF Queues
    <3>4. ASSUME NEW r \in net, DeleteFails(r) PROVE queue'.post = <<>>
      BY <1>0, <3>4 DEF DeleteFails, Enqueue, Queues
    <3>5. \/ queue' = queue \/ DeleteConfirmed
          \/ \E r \in net : DeleteFails(r)
      BY <2>4 DEF AppHome, HomeStep, HomeAppears, deleteItemAt, DeleteCancelled, DeleteRefused,
         DeleteAnswered, deviceVars, storeVars
    <3> QED
      BY <1>0, <3>1, <3>2, <3>3, <3>4, <3>5
  <2>5. CASE AppWriting
    <3>1. FALSE
      BY <1>0, <1>1, <2>5 DEF AppWriting, WritingStep, OpenWriting, PostAnswered, PostGarbled,
         PostFails, WritingRequest, Spend
    <3> QED
      BY <3>1
  <2>6. CASE AppEdit
    <3>1. UNCHANGED <<writers, phase>>
      BY <2>6 DEF AppEdit, chainVars
    <3>2. screen' # "writing"
      BY <1>0, <2>6 DEF AppEdit, EditStep, editItemAt, editCloseTapped, editPostTapped,
         editReachabilityChanged, EditDismissed, EditAnswered, Present, BackHome, homeVars
    <3>3. queue' = queue \/ \E x : queue' = [queue EXCEPT !["edit"] = x]
      BY <2>6 DEF AppEdit, EditStep, editItemAt, editCloseTapped, editPostTapped,
         editReachabilityChanged, EditDismissed, EditAnswered, Enqueue, deviceVars, storeVars
    <3> QED
      BY <1>0, <3>1, <3>2, <3>3 DEF Queues
  <2>7. CASE AppSession
    <3>1. UNCHANGED <<writers, phase>>
      BY <2>7 DEF AppSession, chainVars
    <3>2. screen' # "writing"
      BY <1>0, <2>7 DEF AppSession, SessionStep, SignIn, SignUpBack, Registered, SignUpFetched,
         SignUpFails, SignUpEnds, AccountDeleted, AccountDeletionFails, EmptyThePhone,
         handleLogout, deleteUserData, Present, BackHome, homeVars
    <3>3. queue' = queue \/ queue' = NoQueues
      BY <2>7 DEF AppSession, SessionStep, SignIn, SignUpBack, Registered, SignUpFetched,
         SignUpFails, AccountDeleted, AccountDeletionFails, EmptyThePhone,
         handleLogout, deleteUserData, deviceVars, storeVars
    <3> QED
      BY <1>0, <3>1, <3>2, <3>3 DEF NoQueues
  <2>8. CASE AppTraps \/ AppKilled
    <3>1. queue' = queue /\ phase' = "none" /\ screen' = "off" /\ writers' = <<>>
      BY <2>8 DEF AppTraps, AppKilled, AllEnds, ProcessEnds, Idle, HomeEnds, storeVars
    <3> QED
      BY <1>0, <3>1
  <2>9. CASE AppFlip
    <3>1. UNCHANGED <<queue, phase, screen>>
      BY <2>9 DEF AppFlip, NetworkChanges, storeVars, chainVars, homeVars
    <3>2. DOMAIN writers' = DOMAIN writers
      BY <2>9 DEF AppFlip, ReportToWriters
    <3> QED
      BY <1>0, <3>1, <3>2
  <2> QED
    BY <2>1, <2>2, <2>3, <2>4, <2>5, <2>6, <2>7, <2>8, <2>9 DEF AppNext
<1> QED
  BY <1>1, <1>2, <1>4 DEF NobodyWrites, EditCallers

\* A step that has nothing to do with edits under way.
EditsRest ==
  /\ queue'.edit = queue.edit
  /\ Edits(net') = Edits(net)
  /\ \/ UNCHANGED <<phase, snapshot, indicesToRemove>>
     \/ phase # "edit" /\ phase' # "edit"

\* The request of an edit ends: whatever EditNoteVC is told, it only prints.
EditRequestEnds(r) ==
  /\ r \in net /\ r.op = "edit" /\ net' = net \ {r}
  /\ UNCHANGED <<queue, server, phase, snapshot>>
  /\ \/ r.by = "launch" /\ UNCHANGED indicesToRemove
     \/ r.by = "launch" /\ r.done /\ indicesToRemove' = indicesToRemove \cup {r.idx}
     \/ r.by = "editing" /\ UNCHANGED indicesToRemove

\* The steps there are while nobody writes or signs out, by what they mean to
\* edits.
LEMMA StepsOfEditing ==
  ASSUME AppInv, NobodySignsOut, NobodyWrites, EditCallers, AppNext
  PROVE  \/ EditsRest
         \/ AppLaunch
         \/ NotifyDeletes
         \/ NotifyEdits
         \/ \E r \in net : EditRequestEnds(r)
         \/ \E r \in net : ServerEditsNote(r) /\ UNCHANGED chainVars
         \/ editReachabilityChanged /\ UNCHANGED chainVars
         \/ AppTraps \/ AppKilled
<1>0. /\ queue \in Queues /\ \A r \in net : r \in Request
      /\ \A r \in net : r.op = "edit" => r.by \in {"launch", "editing"}
      /\ \A r \in net : r.by = "editing" => r.op = "edit"
      /\ \A r \in net : r.by # "menu" /\ r.by # "writing"
      /\ \A S : SpendAll(S) => "signOut" \notin S
      /\ DOMAIN writers = {} /\ phase # "post"
      /\ \A S : SpendAll(S) => "write" \notin S
  BY AppParts DEF NetOK, NobodySignsOut, NobodyWrites, EditCallers, SpendAll
\* Sent is an edit by a phase that starts or by the editor only.
<1>1. ASSUME ~AppServer, ~AppLaunch, ~NotifyDeletes, ~editReachabilityChanged,
             \A r \in net \ net' : r.op # "edit"
      PROVE  Edits(net') = Edits(net)
  <2>1. \A t \in net' : t.op = "edit" => t \in net
    BY <1>1, EditRequestsOfStep
  <2> QED
    BY <1>1, <2>1 DEF Edits
<1> DEFINE Others == ~AppServer /\ ~AppLaunch /\ ~NotifyDeletes /\ ~editReachabilityChanged
<1>2. \A x : queue' = [queue EXCEPT !["post"] = x] \/ queue' = [queue EXCEPT !["delete"] = x]
               => queue'.edit = queue.edit
  BY <1>0 DEF Queues
<1>3. CASE AppChain /\ Others
  <2>1. CASE NotifyPosts
    BY <1>0, <2>1 DEF NotifyPosts
  <2>2. ASSUME NEW r \in net, LaunchRequestSucceeds(r) \/ LaunchRequestFails(r)
        PROVE  EditsRest \/ EditRequestEnds(r)
    <3>1. /\ r.by = "launch" /\ r.op \in Kind /\ net' = net \ {r}
          /\ UNCHANGED <<queue, server, phase, snapshot>>
          /\ \/ UNCHANGED indicesToRemove
             \/ r.done /\ indicesToRemove' = indicesToRemove \cup {r.idx}
      BY <2>2 DEF LaunchRequestSucceeds, LaunchRequestFails, Waiting, Delivered, storeVars,
         remoteVars
    <3>2. CASE r.op = "edit"
      BY <3>1, <3>2 DEF EditRequestEnds
    <3>3. CASE r.op # "edit"
      <4>1. phase = r.op
        BY <3>1 DEF AppInv, LaunchInv, ChainOK, Barrier, InFlight
      <4>2. Edits(net') = Edits(net)
        BY <3>1, <3>3 DEF Edits
      <4> QED
        BY <3>1, <3>3, <4>1, <4>2 DEF EditsRest
    <3> QED
      BY <3>2, <3>3
  <2>3. ASSUME NEW r \in net, FetchSucceeds(r) \/ FetchFails(r) PROVE EditsRest
    <3>1. /\ r.op = "fetch" /\ net' = net \ {r}
          /\ UNCHANGED <<queue, phase, snapshot, indicesToRemove>>
      BY <2>3 DEF FetchSucceeds, FetchFails, Fetching, storeVars, chainVars
    <3> QED
      BY <3>1 DEF Edits, EditsRest
  <2> QED
    BY <1>3, <2>1, <2>2, <2>3 DEF AppChain, LaunchStep, Notify
<1>4. CASE AppServer
  <2>0. UNCHANGED chainVars /\ UNCHANGED <<phase, snapshot, indicesToRemove>>
    BY <1>4 DEF AppServer, chainVars
  <2>1. PICK r \in net : \/ ServerEditsNote(r)
                         \/ r.op # "edit" /\ \E id, rows : Answer(r, id, rows)
    BY <1>4 DEF AppServer, ServerStep, ServerAddsNote, ServerDeletesNote, ServerListsNotes,
       ServerDeletesUser, ServerRegisters, Reaches
  <2>2. ASSUME r.op # "edit", NEW id, NEW rows, Answer(r, id, rows) PROVE EditsRest
    <3> DEFINE t == [r EXCEPT !.done = TRUE, !.id = id, !.rows = rows]
    <3>1. net' = (net \ {r}) \cup {t} /\ t.op = r.op /\ queue' = queue
      BY <1>0, <2>2 DEF Answer, Request, storeVars
    <3> HIDE DEF t
    <3> QED
      BY <2>0, <2>2, <3>1 DEF Edits, EditsRest
  <2> QED
    BY <2>0, <2>1, <2>2
<1>5. CASE AppHome /\ Others
  <2>0. UNCHANGED <<phase, snapshot, indicesToRemove>>
    BY <1>5 DEF AppHome, chainVars
  <2>1. queue'.edit = queue.edit
    <3>1. CASE DeleteConfirmed
      <4>1. \/ \E x : queue' = [queue EXCEPT !.post = x]
            \/ \E x, y : queue' = [queue EXCEPT !.post = x, !.delete = y]
        BY <3>1 DEF DeleteConfirmed, checkInternet
      <4> QED
        BY <1>0, <4>1 DEF Queues
    <3> QED
      BY <1>2, <1>5, <3>1 DEF AppHome, HomeStep, HomeAppears, deleteItemAt, DeleteCancelled,
         DeleteRefused, DeleteAnswered, DeleteFails, Enqueue, deviceVars, storeVars
  <2>2. net \subseteq net' \/ \E r \in net : r.by = "home" /\ net' = net \ {r}
    BY <1>5 DEF AppHome, HomeStep, HomeAppears, deleteItemAt, DeleteCancelled, DeleteRefused,
       DeleteConfirmed, checkInternet, DeleteAnswered, DeleteFails, HomeRequest, deviceVars
  <2>3. \A r \in net \ net' : r.op # "edit"
    BY <1>0, <2>2
  <2> QED
    BY <1>1, <1>5, <2>0, <2>1, <2>3 DEF EditsRest
<1>6. ~AppWriting
  BY <1>0 DEF AppWriting, WritingStep, OpenWriting, PostAnswered, PostGarbled, PostFails,
     WritingRequest, Spend
<1>7. CASE AppEdit /\ Others
  <2>0. UNCHANGED chainVars /\ UNCHANGED <<phase, snapshot, indicesToRemove>>
    BY <1>7 DEF AppEdit, chainVars
  <2>1. ASSUME NEW r \in net, EditAnswered(r) PROVE EditRequestEnds(r)
    BY <1>0, <2>0, <2>1 DEF EditAnswered, EditRequestEnds, storeVars, remoteVars
  <2>2. CASE ~\E r \in net : EditAnswered(r)
    <3>1. UNCHANGED <<queue, net>>
      BY <1>7, <2>2 DEF AppEdit, EditStep, editItemAt, editCloseTapped, editPostTapped,
         EditDismissed, deviceVars, storeVars
    <3> QED
      BY <2>0, <3>1 DEF EditsRest
  <2> QED
    BY <2>1, <2>2
<1>8. CASE AppSession /\ Others
  <2>0. UNCHANGED <<phase, snapshot, indicesToRemove>>
    BY <1>8 DEF AppSession, chainVars
  <2>1. /\ queue' = queue
        /\ \/ net \subseteq net'
           \/ \E r \in net : r.by = "signUp" /\ net \ {r} \subseteq net'
    BY <1>0, <1>8 DEF AppSession, SessionStep, SignIn, SignUpBack, Registered, SignUpFetched,
       SignUpFails, SignUpRequest, AccountDeleted, AccountDeletionFails, handleLogout,
       deleteUserData, Spend, deviceVars, storeVars
  <2>2. \A r \in net \ net' : r.op # "edit"
    BY <1>0, <2>1
  <2> QED
    BY <1>1, <1>8, <2>0, <2>1, <2>2 DEF EditsRest
<1>9. CASE AppFlip
  <2>1. UNCHANGED <<net, queue, phase, snapshot, indicesToRemove>>
    BY <1>9 DEF AppFlip, NetworkChanges, storeVars, chainVars
  <2> QED
    BY <2>1 DEF EditsRest
<1>10. CASE editReachabilityChanged /\ ~AppFlip
  <2>1. editor.stage = "closing" /\ editor'.due = editor.due - 1 /\ editor.due \in Nat
    BY <1>10, AppParts DEF editReachabilityChanged, EditTypeOK, NoEditor, EditNoteVC
  <2>2. editor' # editor
    BY <2>1
  <2>3. ~AppChain /\ ~AppServer /\ ~AppHome /\ ~AppSession /\ ~AppLaunch
    BY <2>2 DEF AppChain, AppServer, AppHome, AppSession, AppLaunch, screenVars
  <2>4. AppEdit => UNCHANGED chainVars
    BY DEF AppEdit
  <2> QED
    BY <1>6, <1>10, <2>3, <2>4 DEF AppNext
<1> QED
  BY <1>3, <1>4, <1>5, <1>6, <1>7, <1>8, <1>9, <1>10 DEF AppNext

\* A phase of edits that starts captures the edits that wait.
LEMMA EditsStartEffect ==
  ASSUME AppInv, AppLaunch \/ NotifyDeletes
  PROVE  /\ server' = server /\ queue'.edit = queue.edit /\ net \subseteq net'
         /\ phase # "edit" /\ indicesToRemove' = {}
         /\ phase' = "edit" => snapshot' = queue.edit
<1>0. queue \in Queues
  BY AppParts
<1>1. CASE AppLaunch
  <2>1. /\ UNCHANGED <<queue, server>> /\ postDeletePendingData(queue) /\ phase = "none"
    BY <1>1 DEF AppLaunch, Launch, AppInv, LaunchInv, storeVars, remoteVars
  <2>2. /\ net \subseteq net' /\ indicesToRemove' = {}
        /\ phase' = "edit" => snapshot' = queue.edit
    BY <2>1 DEF postDeletePendingData, postEditedPendingData, postPendingUserNotes, Drain, Idle
  <2> QED
    BY <2>1, <2>2
<1>2. CASE NotifyDeletes
  <2>1. /\ phase = "delete" /\ queue' = Written /\ server' = server
        /\ postEditedPendingData(Written)
    BY <1>2 DEF NotifyDeletes, remoteVars
  <2>2. Written.edit = queue.edit
    BY <1>0, <2>1 DEF Written, Queues
  <2>3. /\ net \subseteq net' /\ indicesToRemove' = {}
        /\ phase' = "edit" => snapshot' = Written.edit
    BY <2>1 DEF postEditedPendingData, postPendingUserNotes, Drain, Idle
  <2> QED
    BY <2>1, <2>2, <2>3
<1> QED
  BY <1>1, <1>2

\* The notify block writes back what was captured and not acknowledged.
LEMMA EditsWritten ==
  ASSUME AppInv, NotifyEdits
  PROVE  /\ server' = server
         /\ phase = "edit" /\ phase' # "edit" /\ group = 0
         /\ snapshot \in Seq(EditPendingData)
         /\ queue'.edit = removeAtOffsets(snapshot, indicesToRemove)
         /\ ToSet(queue'.edit) \subseteq ToSet(snapshot)
         /\ Edits(net') = Edits(net)
<1>1. /\ phase = "edit" /\ group = 0 /\ server' = server
      /\ queue' = [queue EXCEPT !["edit"] = removeAtOffsets(snapshot, indicesToRemove)]
      /\ queue \in Queues /\ snapshot \in Seq(EditPendingData)
  BY AppParts DEF NotifyEdits, Written, AppInv, LaunchInv, ChainOK, Items, Kind, remoteVars
<1>2. phase' # "edit"
  BY DEF NotifyEdits, postPendingUserNotes, Drain, Idle
<1>3. queue'.edit = removeAtOffsets(snapshot, indicesToRemove)
  BY <1>1 DEF Queues
<1> DEFINE t == removeAtOffsets(snapshot, indicesToRemove)
           K == Kept(snapshot, indicesToRemove)
<1>4. /\ DOMAIN t = 1..Len(t)
      /\ \A k \in 1..Len(t) : Nth(K, k) \in K
      /\ \A k \in 1..Len(t) : t[k] = snapshot[Nth(K, k)]
  BY <1>1, RemovalIsArray
<1>5. K \subseteq DOMAIN snapshot
  BY DEF Kept
<1> HIDE DEF K
<1>6. \A k \in DOMAIN t : t[k] \in ToSet(snapshot)
  BY <1>4, <1>5 DEF ToSet
<1> HIDE DEF t
<1>7. ToSet(t) \subseteq ToSet(snapshot)
  BY <1>6 DEF ToSet
<1>8. Edits(net') = Edits(net)
  <2>1. /\ \A r \in net' : r \in net \/ r.op # "edit"
        /\ net \subseteq net'
    BY DEF NotifyEdits, postPendingUserNotes, Drain, NewRequest
  <2> QED
    BY <2>1 DEF Edits
<1> QED
  BY <1>1, <1>2, <1>3, <1>7, <1>8 DEF t

---------------------------------------------------------------------------
(* What the app relies on while edits are on their way.                    *)

\* An edit the server has carried out, or has no use for any more.
Replaced(x)   == \E y \in edited : y # x /\ y.noteID = x.noteID
CarriedOut(x) == ~OnServer(x.noteID) \/ TextOnServer(x.noteID, x.text) \/ Replaced(x)

\* A text the server had before, or that of an edit of the note.
Accounted(known, n) == n.text \in known \/ [noteID |-> n.id, text |-> n.text] \in edited

\* What a drain captured is still in the queue: it only grows meanwhile.
EditsCaptured == phase = "edit" => ToSet(snapshot) \subseteq ToSet(queue.edit)

\* The screen that has something to report is the one on top.
EditorShown == editor.stage # "none" => screen = "editing"

\* EditNoteVC's requests are told apart by their idx.
EditorsApart ==
  \A r, s \in Edits(net) : r.by = "editing" /\ s.by = "editing" /\ r.idx = s.idx => r = s

\* What waits and what is sent are edits made.
EditsMade == /\ ToSet(queue.edit) \subseteq edited
             /\ \A r \in Edits(net) : r.arg \in edited

\* What is acknowledged, and what is about to be, is carried out.
EditsCarried ==
  /\ phase = "edit" => \A i \in indicesToRemove : CarriedOut(snapshot[i])
  /\ \A r \in Edits(net) : r.done => CarriedOut(r.arg)

\* As long as its notifier runs, the screen that closes stands for an edit
\* made, and the row, if it is still there, for what was typed.
EditorSteady ==
  /\ editor.stage # "none" => editor.obj < nextObj
  /\ editor.stage = "closing" /\ editor.due > 0 => editor.notifies
  /\ editor.stage = "closing" /\ editor.notifies =>
       /\ [noteID |-> editor.noteID, text |-> editor.text] \in edited
       /\ \A i \in DOMAIN notes : notes[i].obj = editor.obj =>
            notes[i].text = editor.text /\ notes[i].noteID = editor.noteID

\* The server's texts, and those it has answered with, are accounted for.
TextsKnown(known) ==
  /\ \A x \in Account : \A i \in DOMAIN server[x] : Accounted(known, server[x][i])
  /\ \A r \in net : \A i \in DOMAIN r.rows : Accounted(known, r.rows[i])

EditInv(known) ==
  /\ AppInv /\ NobodySignsOut /\ NobodyWrites /\ DeleteCallers /\ EditCallers
  /\ NotesApart /\ EditsCaptured /\ EditorShown /\ EditorsApart
  /\ ToldApart(known) => EditsMade /\ EditsCarried /\ EditorSteady /\ TextsKnown(known)

\* What the server holds after a step it held before, or was told by an edit;
\* what it held it holds, or it was told to delete or edit it.
LEMMA ServerKeeps ==
  ASSUME AppInv, NobodySignsOut, NobodyWrites, EditCallers, NotesApart, AppNext, NEW x \in Account
  PROVE  /\ \A i \in DOMAIN server'[x] :
              \/ \E j \in DOMAIN server[x] : server'[x][i] = server[x][j]
              \/ \E r \in net : /\ ServerEditsNote(r)
                                /\ server'[x][i] = [id |-> r.arg.noteID, text |-> r.arg.text]
         /\ \A j \in DOMAIN server[x] :
              \/ \E i \in DOMAIN server'[x] : server'[x][i] = server[x][j]
              \/ \E r \in net :
                   /\ ServerEditsNote(r) /\ r.arg.noteID = server[x][j].id
                   /\ \E i \in DOMAIN server'[x] :
                        server'[x][i] = [id |-> r.arg.noteID, text |-> r.arg.text]
              \/ \E m : m = server[x][j].id /\ ~OnServer(m)'
<1>0. DeviceTypeOK /\ \A r \in net : r.op # "post" /\ r.op # "deleteUser"
  BY AppParts DEF NobodyWrites, EditCallers
<1>1. CASE UNCHANGED server
  BY <1>1
<1>2. ASSUME NEW r \in net, ServerEditsNote(r)
      PROVE  /\ \A i \in DOMAIN server'[x] :
                  \/ \E j \in DOMAIN server[x] : server'[x][i] = server[x][j]
                  \/ server'[x][i] = [id |-> r.arg.noteID, text |-> r.arg.text]
             /\ \A j \in DOMAIN server[x] :
                  \/ \E i \in DOMAIN server'[x] : server'[x][i] = server[x][j]
                  \/ /\ r.arg.noteID = server[x][j].id
                     /\ \E i \in DOMAIN server'[x] :
                          server'[x][i] = [id |-> r.arg.noteID, text |-> r.arg.text]
  <2>1. /\ DOMAIN server'[x] = DOMAIN server[x]
        /\ \A i \in DOMAIN server[x] :
             /\ server[x][i].id = r.arg.noteID
                  => server'[x][i] = [id |-> r.arg.noteID, text |-> r.arg.text]
             /\ server[x][i].id # r.arg.noteID => server'[x][i] = server[x][i]
    BY <1>0, <1>2, NoteEdited
  <2> QED
    BY <2>1
<1>3. ASSUME NEW r \in net, ServerDeletesNote(r)
      PROVE  /\ \A i \in DOMAIN server'[x] : \E j \in DOMAIN server[x] : server'[x][i] = server[x][j]
             /\ \A j \in DOMAIN server[x] :
                  \/ \E i \in DOMAIN server'[x] : server'[x][i] = server[x][j]
                  \/ \E m : m = server[x][j].id /\ ~OnServer(m)'
  <2> DEFINE hit == {i \in 1..Len(server[x]) : server[x][i].id = r.arg.noteID}
             k == SelectInSeq(server[x], LAMBDA n : n.id = r.arg.noteID)
  <2>1. server'[x] = IF k = 0 THEN server[x] ELSE RemoveAt(server[x], k)
    BY <1>3 DEF ServerDeletesNote
  <2>2. k = IF hit # {} THEN Min(hit) ELSE 0
    BY DEF SelectInSeq
  <2>3. hit \in SUBSET Nat
    OBVIOUS
  <2>4. hit # {} => Min(hit) \in hit
    BY <2>3, MinIsMember
  <2>5. k = 0 \/ (k \in 1..Len(server[x]) /\ server[x][k].id = r.arg.noteID)
    BY <2>2, <2>4
  <2>6. ~OnServer(r.arg.noteID)'
    <3>1. \A m : OnServer(m)' => OnServer(m) /\ m # r.arg.noteID
      BY <1>0, <1>3, NoteDeleted
    <3> QED
      BY <3>1
  <2> HIDE DEF hit, k
  <2>7. CASE server'[x] = server[x]
    BY <2>7
  <2>8. CASE k # 0 /\ server'[x] = RemoveAt(server[x], k)
    <3>1. k \in 1..Len(server[x]) /\ server[x][k].id = r.arg.noteID /\ server[x] \in Seq(ServerNote)
      BY <1>0, <2>5, <2>8, NotesOfServer
    <3>2. \A i \in DOMAIN server'[x] : \E j \in DOMAIN server[x] : server'[x][i] = server[x][j]
      BY <2>8, <3>1, ShorterElements
    <3>3. \A j \in DOMAIN server[x] :
            j # k => \E i \in DOMAIN server'[x] : server'[x][i] = server[x][j]
      BY <2>8, <3>1, OthersRemain
    <3>4. \E m : m = server[x][k].id /\ ~OnServer(m)'
      BY <2>6, <3>1
    <3> QED
      BY <3>2, <3>3, <3>4
  <2> QED
    BY <2>1, <2>7, <2>8
<1>4. \/ UNCHANGED server
      \/ \E r \in net : ServerEditsNote(r) \/ ServerDeletesNote(r)
  <2>1. ~AppServer => server' = server
    BY ServerForgets
  <2>2. CASE AppServer
    BY <1>0, <2>2 DEF AppServer, ServerStep, ServerAddsNote, ServerListsNotes, ServerDeletesUser,
       ServerRegisters, Reaches, remoteVars
  <2> QED
    BY <2>1, <2>2
<1> QED
  BY <1>1, <1>2, <1>3, <1>4

\* What is carried out stays so: only an edit of the same note overrides it.
LEMMA CarriedStays ==
  ASSUME NEW known, EditInv(known), EditsMade, MCNext, NEW x, CarriedOut(x)
  PROVE  CarriedOut(x)'
<1>0. /\ AppNext /\ edited \subseteq edited'
      /\ AppInv /\ NobodySignsOut /\ NobodyWrites /\ EditCallers /\ NotesApart
  BY DEF MCNext, EditInv
<1>1. CASE Replaced(x)
  BY <1>0, <1>1 DEF Replaced, CarriedOut
<1>2. \A m : OnServer(m)' => OnServer(m)
  <2> SUFFICES ASSUME NEW m, OnServer(m)' PROVE OnServer(m)
    OBVIOUS
  <2>1. PICK y \in Account : \E i \in DOMAIN server'[y] : server'[y][i].id = m
    BY DEF OnServer
  <2>2. PICK i \in DOMAIN server'[y] : server'[y][i].id = m
    BY <2>1
  <2>3. CASE \E j \in DOMAIN server[y] : server'[y][i] = server[y][j]
    BY <2>2, <2>3 DEF OnServer
  <2>4. ASSUME NEW r \in net, ServerEditsNote(r) PROVE OnServer(m)
    <3>1. \A n : OnServer(n)' => OnServer(n)
      BY <1>0, <2>4, AppParts, NoteEdited
    <3> QED
      BY <3>1
  <2> QED
    BY <1>0, <2>3, <2>4, ServerKeeps
<1>3. CASE ~OnServer(x.noteID)
  BY <1>2, <1>3 DEF CarriedOut
<1>4. CASE TextOnServer(x.noteID, x.text)
  <2> DEFINE n == [id |-> x.noteID, text |-> x.text]
  <2>1. n.id = x.noteID
    OBVIOUS
  <2>2. PICK y \in Account : \E j \in DOMAIN server[y] : server[y][j] = n
    BY <1>4 DEF TextOnServer
  <2>3. PICK j \in DOMAIN server[y] : server[y][j] = n
    BY <2>2
  <2>4. CASE \E i \in DOMAIN server'[y] : server'[y][i] = server[y][j]
    BY <2>3, <2>4 DEF TextOnServer, CarriedOut
  <2>5. ASSUME NEW r \in net, ServerEditsNote(r), r.arg.noteID = server[y][j].id,
               NEW i \in DOMAIN server'[y],
               server'[y][i] = [id |-> r.arg.noteID, text |-> r.arg.text]
        PROVE  CarriedOut(x)'
    <3>1. r.arg \in edited' /\ r.arg.noteID = x.noteID
      BY <1>0, <2>1, <2>3, <2>5 DEF EditsMade, Edits, ServerEditsNote, Reaches
    <3>2. CASE r.arg = x
      BY <2>5, <3>2 DEF TextOnServer, CarriedOut
    <3>3. CASE r.arg # x
      BY <3>1, <3>3 DEF Replaced, CarriedOut
    <3> QED
      BY <3>2, <3>3
  <2>6. ASSUME NEW m, m = server[y][j].id, ~OnServer(m)' PROVE CarriedOut(x)'
    BY <2>1, <2>3, <2>6 DEF CarriedOut
  <2>7. \/ \E i \in DOMAIN server'[y] : server'[y][i] = server[y][j]
        \/ \E r \in net :
             /\ ServerEditsNote(r) /\ r.arg.noteID = server[y][j].id
             /\ \E i \in DOMAIN server'[y] :
                  server'[y][i] = [id |-> r.arg.noteID, text |-> r.arg.text]
        \/ \E m : m = server[y][j].id /\ ~OnServer(m)'
    BY <1>0, <2>3, ServerKeeps
  <2> HIDE DEF n
  <2> QED
    BY <2>4, <2>5, <2>6, <2>7
<1> QED
  BY <1>1, <1>3, <1>4 DEF CarriedOut

\* The server carries out an edit.
LEMMA EditEffect ==
  ASSUME AppInv, NotesApart, NEW r \in net, ServerEditsNote(r)
  PROVE  /\ UNCHANGED <<queue, running>>
         /\ r.op = "edit" /\ ~r.done
         /\ \A x : x = r.arg => CarriedOut(x)'
         /\ \E t : /\ net' = (net \ {r}) \cup {t}
                   /\ t.by = r.by /\ t.op = r.op /\ t.idx = r.idx /\ t.arg = r.arg /\ t.done
<1>1. r \in Request /\ DeviceTypeOK
  BY AppParts DEF NetOK
<1>2. ASSUME NEW x, x = r.arg PROVE CarriedOut(x)'
  <2>1. CASE OnServer(x.noteID)'
    <3>1. PICK y \in Account : \E i \in DOMAIN server'[y] : server'[y][i].id = x.noteID
      BY <2>1 DEF OnServer
    <3>2. PICK i \in DOMAIN server'[y] : server'[y][i].id = x.noteID
      BY <3>1
    <3>3. /\ DOMAIN server'[y] = DOMAIN server[y]
          /\ \A j \in DOMAIN server[y] :
               /\ server'[y][j].id = server[y][j].id
               /\ server[y][j].id = r.arg.noteID
                    => server'[y][j] = [id |-> r.arg.noteID, text |-> r.arg.text]
      BY <1>1, NoteEdited
    <3>4. server'[y][i] = [id |-> x.noteID, text |-> x.text]
      BY <1>2, <3>2, <3>3
    <3> QED
      BY <3>4 DEF TextOnServer, CarriedOut
  <2> QED
    BY <2>1 DEF CarriedOut
<1> DEFINE t == [r EXCEPT !.done = TRUE, !.id = 0, !.rows = <<>>]
<1>3. /\ UNCHANGED <<queue, running>> /\ r.op = "edit" /\ ~r.done
      /\ net' = (net \ {r}) \cup {t}
  BY DEF ServerEditsNote, Reaches, Answer, storeVars
<1>4. t.by = r.by /\ t.op = r.op /\ t.idx = r.idx /\ t.arg = r.arg /\ t.done
  BY <1>1 DEF Request
<1> QED
  BY <1>2, <1>3, <1>4

---------------------------------------------------------------------------
(* The screen that closes and the row it edited.                           *)

\* Object numbers are not given out twice.
LEMMA ObjectsGrow ==
  ASSUME AppInv, AppNext
  PROVE  nextObj' \in Nat /\ nextObj <= nextObj'
<1>0. nextObj \in Nat /\ \A r \in net : Len(r.rows) \in Nat
  BY AppParts, LenProperties DEF NetOK, Request
<1>1. \/ nextObj' = nextObj \/ nextObj' = nextObj + 1
      \/ \E r \in net : nextObj' = nextObj + Len(r.rows)
  <2>1. CASE AppLaunch \/ AppServer \/ AppTraps \/ AppKilled \/ AppFlip
    BY <2>1 DEF AppLaunch, AppServer, AppTraps, AppKilled, AppFlip, AllEnds, ProcessEnds, Launch,
       NetworkChanges, ServerStep, ServerAddsNote, ServerEditsNote, ServerDeletesNote,
       ServerListsNotes, ServerDeletesUser, ServerRegisters, Answer, storeVars
  <2>2. CASE AppChain
    BY <2>2 DEF AppChain, LaunchStep, Notify, NotifyDeletes, NotifyEdits, NotifyPosts,
       LaunchRequestSucceeds, LaunchRequestFails, FetchSucceeds, FetchFails, storeVars
  <2>3. CASE AppHome
    BY <2>3 DEF AppHome, HomeStep, HomeAppears, deleteItemAt, DeleteCancelled, DeleteRefused,
       DeleteConfirmed, DeleteAnswered, DeleteFails, deviceVars, storeVars
  <2>4. CASE AppWriting
    BY <2>4 DEF AppWriting, WritingStep, OpenWriting, closeBTNtapped, postBTNtapped, addNote,
       reachabilityChanged, PostAnswered, PostGarbled, PostFails, deviceVars, storeVars
  <2>5. CASE AppEdit
    BY <2>5 DEF AppEdit, EditStep, editItemAt, editCloseTapped, editPostTapped,
       editReachabilityChanged, EditDismissed, EditAnswered, deviceVars, storeVars
  <2>6. CASE AppSession
    BY <2>6 DEF AppSession, SessionStep, SignIn, SignUpBack, Registered, SignUpFetched,
       SignUpFails, AccountDeleted, AccountDeletionFails, EmptyThePhone, handleLogout,
       deleteUserData, deviceVars, storeVars
  <2> QED
    BY <2>1, <2>2, <2>3, <2>4, <2>5, <2>6 DEF AppNext
<1> QED
  BY <1>0, <1>1

\* The row of an object from before a step, other than EditNoteVC's, is what
\* it was, or has taken the id an answer gives to its text.
LEMMA OldRow ==
  ASSUME AppInv, NobodySignsOut, NobodyWrites, AppNext, ~editPostTapped, ~editReachabilityChanged,
         NEW i \in DOMAIN notes', notes'[i].obj < nextObj
  PROVE  \E j \in DOMAIN notes :
           /\ notes'[i].obj = notes[j].obj /\ notes'[i].text = notes[j].text
           /\ \/ notes'[i].noteID = notes[j].noteID
              \/ \E r \in net : \E k \in DOMAIN r.rows :
                   r.rows[k].text = notes[j].text /\ notes'[i].noteID = r.rows[k].id
<1>0. /\ notes \in Seq(UserEntity) /\ nextObj \in Nat
      /\ \A r \in net : r \in Request /\ r.rows \in Seq(ServerNote)
      /\ \A r \in net : r.op # "post" /\ r.by # "writing" /\ r.by # "menu"
      /\ DOMAIN writers = {} /\ \A S : SpendAll(S) => "signOut" \notin S
      /\ \A k, m \in DOMAIN notes : notes[k].obj = notes[m].obj => k = m
  BY AppParts DEF NetOK, Request, NobodySignsOut, NobodyWrites, SpendAll, ObjectsApart
<1>1. CASE notes' = notes
  BY <1>1
<1>2. ASSUME DeleteConfirmed PROVE \E j \in DOMAIN notes : notes'[i] = notes[j]
  <2>1. notes' = deleteUserContext(notes, RowObject)
    BY <1>2 DEF DeleteConfirmed
  <2> QED
    BY <1>0, <2>1, DeletedRow
<1>3. ASSUME NEW r \in net, FetchSucceeds(r) PROVE
         \E j \in DOMAIN notes :
           /\ notes'[i].obj = notes[j].obj /\ notes'[i].text = notes[j].text
           /\ \/ notes'[i].noteID = notes[j].noteID
              \/ \E k \in DOMAIN r.rows :
                   r.rows[k].text = notes[j].text /\ notes'[i].noteID = r.rows[k].id
  <2>1. notes' = syncLocalWithServer(notes, r.rows, nextObj)
    BY <1>3 DEF FetchSucceeds
  <2>2. CASE notes' = ResponseRows(r.rows, nextObj)
    <3>1. notes'[i].obj = nextObj + i - 1 /\ notes' \in Seq(UserEntity)
      BY <1>0, <2>2, ResponseRowsAreRows
    <3>2. i \in 1..Len(notes') /\ Len(notes') \in Nat
      BY <3>1, LenProperties
    <3> QED
      BY <1>0, <3>1, <3>2
  <2>3. CASE notes' = updateLocalNoteIDs(notes, r.rows)
    <3>1. i \in DOMAIN notes
      BY <1>0, <2>3, IdentifiedRows
    <3>2. notes'[i].obj = notes[i].obj /\ notes'[i].text = notes[i].text
      BY <1>0, <2>3, <3>1, IdentifiedRows
    <3>3. \/ notes'[i].noteID = notes[i].noteID
          \/ \E k \in DOMAIN r.rows : r.rows[k].text = notes[i].text /\ notes'[i].noteID = r.rows[k].id
      <4>1. r.rows \in Seq(ServerNote) /\ notes \in Seq(UserEntity)
        BY <1>0
      <4>2. \/ /\ notes[i].text \notin Texts(r.rows)
               /\ notes'[i].noteID = notes[i].noteID
            \/ \E k \in DOMAIN r.rows : /\ r.rows[k].text = notes[i].text
                                        /\ notes'[i].noteID = r.rows[k].id
        BY <2>3, <3>1, <4>1, IdOfItsText
      <4> QED
        BY <4>2
    <3> QED
      BY <3>1, <3>2, <3>3
  <2> QED
    BY <2>1, <2>2, <2>3 DEF syncLocalWithServer
<1>4. ASSUME NEW r \in net, SignUpFetched(r) PROVE \E j \in DOMAIN notes : notes'[i] = notes[j]
  <2> DEFINE new == [k \in DOMAIN r.rows |->
                       NewRow(nextObj + k - 1, r.rows[k].text, Len(notes) + k, r.rows[k].id)]
             n == Len(notes)
  <2>1. notes' = notes \o new
    BY <1>4 DEF SignUpFetched
  <2>2. new \in Seq(UserEntity) /\ \A k \in DOMAIN new : new[k].obj = nextObj + k - 1
    BY FetchedRows
  <2> HIDE DEF new
  <2>3. n \in Nat /\ DOMAIN notes = 1..n /\ Len(new) \in Nat /\ DOMAIN new = 1..Len(new)
    BY <1>0, <2>2, LenProperties
  <2>4. /\ DOMAIN notes' = 1..(n + Len(new))
        /\ notes'[i] = IF i <= n THEN notes[i] ELSE new[i - n]
    BY <1>0, <2>1, <2>2, ConcatProperties, LenProperties
  <2> HIDE DEF n
  <2>5. CASE i <= n
    BY <2>3, <2>4, <2>5
  <2>6. CASE ~(i <= n)
    <3>1. i - n \in DOMAIN new /\ notes'[i] = new[i - n]
      BY <2>3, <2>4, <2>6
    <3> DEFINE k == i - n
    <3>2. notes'[i].obj = nextObj + k - 1 /\ k \in Nat /\ k >= 1
      BY <2>2, <2>3, <3>1
    <3> QED
      BY <1>0, <3>2
  <2> QED
    BY <2>5, <2>6
<1>5. ASSUME NEW r \in net, LaunchRequestSucceeds(r) PROVE notes' = notes
  BY <1>0, <1>5 DEF LaunchRequestSucceeds
<1>6. ~handleLogout /\ \A r \in net : ~AccountDeleted(r) /\ ~PostAnswered(r)
  BY <1>0 DEF handleLogout, Spend, AccountDeleted, PostAnswered, WritingRequest
<1>7. \A w \in DOMAIN writers : ~addNote(w)
  BY <1>0
<1>8. CASE \E j \in DOMAIN notes : notes'[i] = notes[j]
  BY <1>8
<1>9. \/ notes' = notes \/ DeleteConfirmed
      \/ \E r \in net : LaunchRequestSucceeds(r) \/ FetchSucceeds(r) \/ SignUpFetched(r)
  BY <1>6, <1>7, StepsOnRows
<1>10. CASE \E r \in net : FetchSucceeds(r)
  BY <1>3, <1>10
<1> QED
  BY <1>1, <1>2, <1>4, <1>5, <1>8, <1>9, <1>10

\* What becomes of the screen.
LEMMA EditorSteps ==
  ASSUME AppInv, AppNext
  PROVE  \/ editor' = editor /\ ~editPostTapped /\ ~editReachabilityChanged
         \/ /\ editor' = NoEditor
            /\ editor.stage = "open" \/ editor.due = 0 \/ AppTraps \/ AppKilled
         \/ \E row \in DOMAIN userData, text \in Text : editItemAt(row, text)
         \/ editPostTapped
         \/ editReachabilityChanged
         \/ /\ editor.stage = "closing" /\ editor.notifies
            /\ editor' = [editor EXCEPT !.due = @ + 1] /\ UNCHANGED <<notes, nextObj>>
<1>1. CASE AppEdit
  BY <1>1 DEF AppEdit, EditStep, editCloseTapped, EditEnds, EditDismissed, EditAnswered
<1>2. CASE AppFlip
  <2>1. ReportToEditor /\ UNCHANGED <<notes, nextObj>>
    BY <1>2 DEF AppFlip, NetworkChanges, storeVars
  <2>2. ~(editor.stage = "closing" /\ editor.notifies) => editor' = editor
    BY <2>1 DEF ReportToEditor
  <2>3. editor.stage = "closing" /\ editor.notifies => editor' = [editor EXCEPT !.due = @ + 1]
    BY <2>1 DEF ReportToEditor
  <2> QED
    BY <2>1, <2>2, <2>3
<1>3. AppLaunch \/ AppChain \/ AppServer \/ AppHome \/ AppWriting \/ AppSession => editor' = editor
  BY DEF AppLaunch, AppChain, AppServer, AppHome, AppWriting, AppSession, screenVars
<1> QED
  BY <1>1, <1>2, <1>3, EndsEffect DEF AppNext

LEMMA EditorShownStays ==
  ASSUME AppInv, NobodySignsOut, EditorShown, AppNext
  PROVE  EditorShown'
<1>1. screen = "editing" => screen' = "editing" \/ editor' = NoEditor
  <2> SUFFICES ASSUME screen = "editing" PROVE screen' = "editing" \/ editor' = NoEditor
    OBVIOUS
  <2>1. CASE AppLaunch \/ AppChain \/ AppServer \/ AppFlip
    BY <2>1 DEF AppLaunch, AppChain, AppServer, AppFlip, screenVars, homeVars
  <2>2. CASE AppTraps \/ AppKilled
    BY <2>2, EndsEffect
  <2>3. CASE AppHome
    BY <2>3 DEF AppHome, HomeStep, HomeAppears, deleteItemAt, DeleteCancelled, DeleteRefused,
       DeleteConfirmed, DeleteAnswered, DeleteFails, CloseAlert, Present, Touched, homeVars
  <2>4. CASE AppWriting
    BY <2>4 DEF AppWriting, WritingStep, OpenWriting, closeBTNtapped, postBTNtapped, addNote,
       reachabilityChanged, PostAnswered, PostGarbled, PostFails, Present, Touched, BackHome,
       homeVars
  <2>5. CASE AppEdit
    BY <2>5 DEF AppEdit, EditStep, editItemAt, editCloseTapped, editPostTapped,
       editReachabilityChanged, EditDismissed, EditAnswered, EditEnds, Present, Touched, homeVars
  <2>6. CASE AppSession
    <3>1. ~handleLogout /\ \A r \in net : ~AccountDeleted(r)
      BY DEF NobodySignsOut, handleLogout, Spend, SpendAll, AccountDeleted
    <3>2. \A rows : SignUpEnds(rows) => screen' = screen
      BY DEF SignUpEnds, BackHome
    <3> QED
      BY <2>6, <3>1, <3>2 DEF AppSession, SessionStep, SignIn, SignUpBack, Registered,
         SignUpFetched, SignUpFails, AccountDeletionFails, deleteUserData, Present, Touched,
         BackHome, homeVars
  <2> QED
    BY <2>1, <2>2, <2>3, <2>4, <2>5, <2>6 DEF AppNext
<1>2. \/ editor' = NoEditor
      \/ editor.stage # "none"
      \/ screen' = "editing"
      \/ editor' = editor
  BY EditorSteps DEF editItemAt, Present, editPostTapped, editReachabilityChanged
<1>3. NoEditor.stage = "none"
  BY DEF NoEditor
<1> QED
  BY <1>1, <1>2, <1>3 DEF EditorShown

\* The row edited has the text and the id it is given.
LEMMA EditedRow ==
  ASSUME NEW rows \in Seq(UserEntity), NEW obj, NEW text, NEW id,
         NEW t, t = editUserContext(rows, obj, text, id)
  PROVE  \A i \in DOMAIN t : t[i].obj = obj => t[i].text = text /\ t[i].noteID = id
<1>1. \A i \in DOMAIN rows : rows[i] \in UserEntity
  BY LenProperties
<1>2. DOMAIN t = DOMAIN rows
  BY DEF editUserContext
<1>3. \A i \in DOMAIN rows :
        t[i] = IF rows[i].obj = obj THEN [rows[i] EXCEPT !.text = text, !.noteID = id]
                                    ELSE rows[i]
  BY DEF editUserContext
<1>4. \A x \in UserEntity : /\ [x EXCEPT !.text = text, !.noteID = id].text = text
                            /\ [x EXCEPT !.text = text, !.noteID = id].noteID = id
                            /\ [x EXCEPT !.text = text, !.noteID = id].obj = x.obj
  BY DEF UserEntity
<1>5. ASSUME NEW i \in DOMAIN t, t[i].obj = obj PROVE t[i].text = text /\ t[i].noteID = id
  <2>1. CASE rows[i].obj = obj
    <3>1. t[i] = [rows[i] EXCEPT !.text = text, !.noteID = id] /\ rows[i] \in UserEntity
      BY <1>1, <1>2, <1>3, <1>5, <2>1
    <3> QED
      BY <1>4, <3>1
  <2>2. CASE rows[i].obj # obj
    BY <1>2, <1>3, <1>5, <2>2
  <2> QED
    BY <2>1, <2>2
<1> QED
  BY <1>5

\* The closing screen reports the edit it was opened for.
LEMMA ReportsItsEdit ==
  ASSUME AppInv, EditorSteady, editor.stage = "closing", editor.due > 0
  PROVE  /\ editor.notifies /\ NoteIDNow = editor.noteID
         /\ [noteID |-> editor.noteID, text |-> editor.text] \in edited
<1> DEFINE i == IndexOf(notes, editor.obj)
<1>1. i = 0 \/ (i \in DOMAIN notes /\ notes[i].obj = editor.obj)
  BY AppParts, RowOfObject
<1>2. NoteIDNow = IF i = 0 THEN editor.noteID ELSE notes[i].noteID
  BY DEF NoteIDNow
<1> HIDE DEF i
<1> QED
  BY <1>1, <1>2 DEF EditorSteady

LEMMA EditorSteadyStays ==
  ASSUME NEW known, EditInv(known), ToldApart(known), MCNext
  PROVE  EditorSteady'
<1>0. /\ AppNext /\ edited \subseteq edited'
      /\ AppInv /\ NobodySignsOut /\ NobodyWrites /\ EditorSteady /\ TextsKnown(known)
  BY DEF MCNext, EditInv
<1>1. /\ nextObj \in Nat /\ nextObj' \in Nat /\ nextObj <= nextObj'
      /\ notes \in Seq(UserEntity) /\ editor \in EditNoteVC \cup {NoEditor}
      /\ NoEditor.stage = "none"
  BY <1>0, AppParts, ObjectsGrow DEF EditTypeOK, NoEditor
<1>2. editor.stage # "none" => editor \in EditNoteVC /\ editor.obj \in Nat
  BY <1>1 DEF EditNoteVC
<1>3. CASE editor' = editor /\ ~editPostTapped /\ ~editReachabilityChanged
  <2>1. editor'.stage # "none" => editor'.obj < nextObj'
    BY <1>0, <1>1, <1>2, <1>3 DEF EditorSteady
  <2>2. editor'.stage = "closing" /\ editor'.due > 0 => editor'.notifies
    BY <1>0, <1>3 DEF EditorSteady
  <2>3. ASSUME editor.stage = "closing", editor.notifies,
               NEW i \in DOMAIN notes', notes'[i].obj = editor.obj
        PROVE  notes'[i].text = editor.text /\ notes'[i].noteID = editor.noteID
    <3> DEFINE x == [noteID |-> editor.noteID, text |-> editor.text]
    <3>1. notes'[i].obj < nextObj
      BY <1>0, <2>3 DEF EditorSteady
    <3>2. PICK j \in DOMAIN notes :
            /\ notes'[i].obj = notes[j].obj /\ notes'[i].text = notes[j].text
            /\ \/ notes'[i].noteID = notes[j].noteID
               \/ \E r \in net : \E k \in DOMAIN r.rows :
                    r.rows[k].text = notes[j].text /\ notes'[i].noteID = r.rows[k].id
      BY <1>0, <1>3, <3>1, OldRow
    <3>3. notes[j].text = editor.text /\ notes[j].noteID = editor.noteID /\ x \in edited
      BY <1>0, <2>3, <3>2 DEF EditorSteady
    <3>4. ASSUME NEW r \in net, NEW k \in DOMAIN r.rows, r.rows[k].text = editor.text
          PROVE  r.rows[k].id = editor.noteID
      <4> DEFINE y == [noteID |-> r.rows[k].id, text |-> r.rows[k].text]
      <4>1. Accounted(known, r.rows[k])
        BY <1>0 DEF TextsKnown
      <4>2. x.text = editor.text /\ x.text \notin known
        BY <3>3 DEF ToldApart
      <4>3. y \in edited /\ y.text = x.text
        BY <3>4, <4>1, <4>2 DEF Accounted
      <4>4. x = y
        BY <3>3, <4>3 DEF ToldApart
      <4>5. x.noteID = editor.noteID /\ y.noteID = r.rows[k].id
        OBVIOUS
      <4> QED
        BY <4>4, <4>5
    <3> QED
      BY <3>2, <3>3, <3>4
  <2>4. editor'.stage = "closing" /\ editor'.notifies =>
          [noteID |-> editor'.noteID, text |-> editor'.text] \in edited'
    BY <1>0, <1>3 DEF EditorSteady
  <2> QED
    BY <1>3, <2>1, <2>2, <2>3, <2>4 DEF EditorSteady
<1>4. CASE editor' = NoEditor
  <2>1. editor'.stage = "none"
    BY <1>1, <1>4
  <2> QED
    BY <2>1 DEF EditorSteady
<1>5. ASSUME NEW row \in DOMAIN userData, NEW text \in Text, editItemAt(row, text)
      PROVE  EditorSteady'
  <2>1. editor'.stage = "open" /\ editor'.obj = userData[row] /\ nextObj' = nextObj
    BY <1>5 DEF editItemAt, storeVars
  <2> DEFINE i == IndexOf(notes, userData[row])
  <2>2. i \in DOMAIN notes
    BY <1>0, <1>5, TouchFindsRow DEF editItemAt, Present, Touched
  <2>3. i # 0 => notes[i].obj = userData[row]
    BY <1>1, RowOfObject
  <2>4. i # 0
    BY <1>1, <2>2, LenProperties
  <2> HIDE DEF i
  <2>5. userData[row] < nextObj
    BY <1>0, <2>2, <2>3, <2>4, AppParts DEF ObjectsApart
  <2> QED
    BY <2>1, <2>5 DEF EditorSteady
<1>6. CASE editPostTapped
  <2>1. editor.stage = "open" /\ nextObj' = nextObj
    BY <1>6 DEF editPostTapped
  <2>2. PICK starts \in BOOLEAN :
          /\ uid = NoAccount => ~starts
          /\ editor' = [editor EXCEPT !.stage = "closing", !.noteID = IDOrBlank,
                                      !.notifies = starts, !.due = IF starts THEN 1 ELSE 0]
    BY <1>6 DEF editPostTapped
  <2>3. editor \in EditNoteVC
    BY <1>2, <2>1
  <2>4. /\ editor'.stage = "closing" /\ editor'.noteID = IDOrBlank
        /\ editor'.notifies = starts /\ editor'.due = (IF starts THEN 1 ELSE 0)
        /\ editor'.obj = editor.obj /\ editor'.text = editor.text
    BY <2>2, <2>3 DEF EditNoteVC
  <2>5. editor'.notifies => [noteID |-> editor'.noteID, text |-> editor'.text] \in edited'
    <3>1. starts => edited' = edited \cup {[noteID |-> editor'.noteID, text |-> editor.text]}
      BY <2>1, <2>2, <2>4 DEF MCNext
    <3> QED
      BY <2>4, <3>1
  <2>6. \A i \in DOMAIN notes' : notes'[i].obj = editor.obj =>
          notes'[i].text = editor.text /\ notes'[i].noteID = IDOrBlank
    <3>1. notes' = editUserContext(notes, editor.obj, editor.text, IDOrBlank)
      BY <1>6 DEF editPostTapped
    <3> QED
      BY <1>1, <3>1, EditedRow
  <2>7. editor'.obj < nextObj'
    BY <1>0, <2>1, <2>4 DEF EditorSteady
  <2>8. editor'.due > 0 => editor'.notifies
    BY <2>4
  <2> QED
    BY <2>4, <2>5, <2>6, <2>7, <2>8 DEF EditorSteady
<1>7. ASSUME NEW n \in Int, editor.stage = "closing", editor.notifies, nextObj' = nextObj,
             editor' = [editor EXCEPT !.due = n],
             \/ notes' = notes
             \/ notes' = editUserContext(notes, editor.obj, editor.text, editor.noteID)
      PROVE  EditorSteady'
  <2>1. editor \in EditNoteVC
    BY <1>2, <1>7
  <2>2. /\ editor'.stage = "closing" /\ editor'.noteID = editor.noteID /\ editor'.notifies
        /\ editor'.obj = editor.obj /\ editor'.text = editor.text
    BY <1>7, <2>1 DEF EditNoteVC
  <2>3. \A i \in DOMAIN notes' : notes'[i].obj = editor.obj =>
          notes'[i].text = editor.text /\ notes'[i].noteID = editor.noteID
    <3>1. CASE notes' = notes
      BY <1>0, <1>7, <3>1 DEF EditorSteady
    <3>2. CASE notes' = editUserContext(notes, editor.obj, editor.text, editor.noteID)
      BY <1>1, <3>2, EditedRow
    <3> QED
      BY <1>7, <3>1, <3>2
  <2>4. /\ editor.obj < nextObj
        /\ [noteID |-> editor.noteID, text |-> editor.text] \in edited'
    BY <1>0, <1>7 DEF EditorSteady
  <2> QED
    BY <1>7, <2>2, <2>3, <2>4 DEF EditorSteady
<1>8. CASE editReachabilityChanged
  <2> DEFINE n == editor.due - 1
  <2>1. /\ editor.stage = "closing" /\ editor.due > 0 /\ nextObj' = nextObj
        /\ editor' = [editor EXCEPT !.due = n]
        /\ \/ notes' = notes
           \/ notes' = editUserContext(notes, editor.obj, editor.text, NoteIDNow)
    BY <1>8 DEF editReachabilityChanged
  <2>2. editor.due \in Nat
    BY <1>2, <2>1 DEF EditNoteVC
  <2>3. n \in Int
    BY <2>2
  <2> HIDE DEF n
  <2>4. NoteIDNow = editor.noteID /\ editor.notifies
    BY <1>0, <2>1, ReportsItsEdit
  <2> QED
    BY <1>7, <2>1, <2>3, <2>4
<1>9. CASE /\ editor.stage = "closing" /\ editor.notifies
           /\ editor' = [editor EXCEPT !.due = @ + 1] /\ UNCHANGED <<notes, nextObj>>
  <2> DEFINE n == editor.due + 1
  <2>1. editor' = [editor EXCEPT !.due = n]
    BY <1>9
  <2>2. editor.due \in Nat
    BY <1>2, <1>9 DEF EditNoteVC
  <2>3. n \in Int
    BY <2>2
  <2> HIDE DEF n
  <2> QED
    BY <1>7, <1>9, <2>1, <2>3
<1> QED
  BY <1>0, <1>3, <1>4, <1>5, <1>6, <1>8, <1>9, EditorSteps

---------------------------------------------------------------------------
(* Edits stay accounted for.                                               *)

\* The closing screen sends its edit or, without a connection, queues it.
LEMMA EditReportEffect ==
  ASSUME AppInv, editReachabilityChanged
  PROVE  /\ UNCHANGED <<server, running>>
         /\ editor.stage = "closing" /\ editor.due > 0
         /\ \/ /\ queue'.edit = queue.edit
               /\ net' = net \cup {NewRequest("editing", 1, Fresh("editing"), "edit",
                                              [noteID |-> NoteIDNow, text |-> editor.text])}
            \/ /\ net' = net
               /\ ToSet(queue'.edit) =
                    ToSet(queue.edit) \cup {[noteID |-> NoteIDNow, text |-> editor.text]}
<1> DEFINE x == [noteID |-> NoteIDNow, text |-> editor.text]
<1>1. /\ UNCHANGED <<server, running>>
      /\ editor.stage = "closing" /\ editor.due > 0
      /\ \/ /\ queue' = queue
            /\ net' = net \cup {NewRequest("editing", 1, Fresh("editing"), "edit", x)}
         \/ /\ net' = net /\ queue' = [queue EXCEPT !["edit"] = Append(queue["edit"], x)]
  BY DEF editReachabilityChanged, Enqueue, remoteVars
<1>2. queue \in Queues /\ queue.edit \in Seq(EditPendingData)
  BY AppParts DEF Queues
<1> HIDE DEF x
<1>3. ASSUME queue' = [queue EXCEPT !["edit"] = Append(queue["edit"], x)]
      PROVE  ToSet(queue'.edit) = ToSet(queue.edit) \cup {x}
  <2>1. queue'.edit = Append(queue.edit, x)
    BY <1>2, <1>3 DEF Queues
  <2> QED
    BY <1>2, <2>1, SetOfAppended
<1> QED
  BY <1>1, <1>3 DEF x

LEMMA EditsCapturedStay ==
  ASSUME NEW known, EditInv(known), AppNext
  PROVE  EditsCaptured'
<1>0. /\ AppInv /\ NobodySignsOut /\ NobodyWrites /\ EditCallers /\ NotesApart /\ EditsCaptured
  BY DEF EditInv
<1>1. CASE EditsRest
  BY <1>0, <1>1 DEF EditsRest, EditsCaptured
<1>2. CASE AppLaunch \/ NotifyDeletes
  BY <1>0, <1>2, EditsStartEffect DEF EditsCaptured
<1>3. CASE NotifyEdits
  BY <1>0, <1>3, EditsWritten DEF EditsCaptured
<1>4. ASSUME NEW r \in net, EditRequestEnds(r) PROVE EditsCaptured'
  BY <1>0, <1>4 DEF EditRequestEnds, EditsCaptured
<1>5. ASSUME NEW r \in net, ServerEditsNote(r), UNCHANGED chainVars PROVE EditsCaptured'
  BY <1>0, <1>5, EditEffect DEF chainVars, EditsCaptured
<1>6. CASE editReachabilityChanged /\ UNCHANGED chainVars
  <2>1. ToSet(queue.edit) \subseteq ToSet(queue'.edit)
    BY <1>0, <1>6, EditReportEffect
  <2> QED
    BY <1>0, <1>6, <2>1 DEF chainVars, EditsCaptured
<1>7. CASE AppTraps \/ AppKilled
  BY <1>7, EndsEffect DEF EditsCaptured
<1> QED
  BY <1>0, <1>1, <1>2, <1>3, <1>4, <1>5, <1>6, <1>7, StepsOfEditing

LEMMA EditorsApartStay ==
  ASSUME NEW known, EditInv(known), AppNext
  PROVE  EditorsApart'
<1>0. /\ AppInv /\ NobodySignsOut /\ NobodyWrites /\ EditCallers /\ NotesApart /\ EditorsApart
  BY DEF EditInv
<1>1. CASE Edits(net') \subseteq Edits(net)
  BY <1>0, <1>1 DEF EditorsApart
<1>2. CASE AppLaunch \/ NotifyDeletes
  <2>1. ~AppServer /\ ~editReachabilityChanged
    <3>1. AppServer => UNCHANGED <<running, phase>>
      BY DEF AppServer, chainVars, ServerStep, ServerAddsNote, ServerEditsNote,
         ServerDeletesNote, ServerListsNotes, ServerDeletesUser, ServerRegisters, Answer
    <3>2. AppLaunch => running' /\ ~running
      BY DEF AppLaunch, Launch
    <3>3. NotifyDeletes => phase = "delete" /\ phase' # "delete" /\ running
      BY <1>0, DeletesWritten, AppParts DEF LaunchInv
    <3>4. editReachabilityChanged => UNCHANGED running /\ running
      BY <1>0, EditorIDs DEF editReachabilityChanged
    <3>5. NotifyDeletes => editor' = editor \/ editor' = NoEditor
      <4>1. AppServer \/ AppHome \/ AppWriting \/ AppEdit \/ AppSession \/ AppFlip => phase' = phase
        BY DEF AppServer, AppHome, AppWriting, AppEdit, AppSession, AppFlip, chainVars
      <4>2. AppLaunch \/ AppChain => editor' = editor
        BY DEF AppLaunch, AppChain, screenVars
      <4> QED
        BY <3>3, <4>1, <4>2, EndsEffect DEF AppNext
    <3>6. editReachabilityChanged => editor' # editor /\ editor' # NoEditor
      <4> SUFFICES ASSUME editReachabilityChanged PROVE editor' # editor /\ editor' # NoEditor
        OBVIOUS
      <4>1. editor \in EditNoteVC /\ editor.stage = "closing" /\ editor' = [editor EXCEPT !.due = @ - 1]
        BY <1>0, EditorIDs DEF editReachabilityChanged
      <4>2. editor.due \in Nat /\ editor'.due = editor.due - 1 /\ editor'.stage = "closing"
        BY <4>1 DEF EditNoteVC
      <4>3. NoEditor.stage = "none"
        BY DEF NoEditor
      <4>4. editor'.due # editor.due
        BY <4>2
      <4> QED
        BY <4>2, <4>3, <4>4
    <3> QED
      BY <1>2, <3>1, <3>2, <3>3, <3>4, <3>5, <3>6
  <2>2. \A t \in net' : t \in net \/ t.by # "editing"
    BY <1>0, <1>2, <2>1, EditRequestsOfStep
  <2> QED
    BY <1>0, <2>2 DEF EditorsApart, Edits
<1>3. ASSUME NEW r \in net, EditRequestEnds(r) PROVE Edits(net') \subseteq Edits(net)
  BY <1>3 DEF EditRequestEnds, Edits
<1>4. ASSUME NEW r \in net, ServerEditsNote(r) PROVE EditorsApart'
  <2>1. r \in Edits(net) /\ \E t : /\ Edits(net') \subseteq (Edits(net) \ {r}) \cup {t}
                                   /\ t.by = r.by /\ t.idx = r.idx
    BY <1>0, <1>4, EditEffect DEF Edits
  <2> QED
    BY <1>0, <2>1 DEF EditorsApart
<1>5. CASE editReachabilityChanged
  <2> DEFINE x == [noteID |-> NoteIDNow, text |-> editor.text]
             t == NewRequest("editing", 1, Fresh("editing"), "edit", x)
  <2>1. net' \subseteq net \cup {t}
    BY <1>0, <1>5, EditReportEffect
  <2>2. t.idx = Fresh("editing")
    BY DEF NewRequest
  <2> HIDE DEF t
  <2>3. \A r \in net : r.by = "editing" => r.idx # t.idx
    <3>1. \A r \in net : r \in Request /\ (r.by = "editing" => r.idx < Fresh("editing"))
      BY <1>0, AppParts, FreshIsUnused DEF NetOK
    <3>2. Fresh("editing") \in Nat /\ \A r \in net : r.idx \in Nat
      BY <1>0, <3>1, AppParts, FreshIsUnused DEF Request
    <3> QED
      BY <2>2, <3>1, <3>2
  <2> QED
    BY <1>0, <2>1, <2>3 DEF EditorsApart, Edits
<1>6. NotifyEdits \/ EditsRest \/ AppTraps \/ AppKilled => Edits(net') \subseteq Edits(net)
  BY <1>0, EditsWritten, EndsEffect DEF EditsRest, Edits
<1> QED
  BY <1>0, <1>1, <1>2, <1>3, <1>4, <1>5, <1>6, StepsOfEditing

LEMMA EditsMadeStay ==
  ASSUME NEW known, EditInv(known), ToldApart(known), MCNext
  PROVE  EditsMade'
<1>0. /\ AppNext /\ edited \subseteq edited'
      /\ AppInv /\ NobodySignsOut /\ NobodyWrites /\ EditCallers /\ NotesApart
      /\ EditsCaptured /\ EditsMade /\ EditorSteady
  BY DEF MCNext, EditInv
<1>1. editReachabilityChanged => [noteID |-> NoteIDNow, text |-> editor.text] \in edited
  BY <1>0, ReportsItsEdit DEF editReachabilityChanged
<1>2. ASSUME NEW t \in Edits(net') PROVE t.arg \in edited'
  <2>1. t \in net' /\ t.op = "edit"
    BY DEF Edits
  <2>2. \/ t \in net
        \/ \E r \in net : t.op = r.op /\ t.arg = r.arg
        \/ t.arg \in ToSet(queue.edit)
        \/ t.arg = [noteID |-> NoteIDNow, text |-> editor.text] /\ editReachabilityChanged
    BY <1>0, <2>1, EditRequestsOfStep
  <2> QED
    BY <1>0, <1>1, <2>1, <2>2 DEF EditsMade, Edits
<1>3. ToSet(queue'.edit) \subseteq edited'
  <2>1. CASE queue'.edit = queue.edit
    BY <1>0, <2>1 DEF EditsMade
  <2>2. CASE NotifyEdits
    <3>1. ToSet(queue'.edit) \subseteq ToSet(snapshot) /\ phase = "edit"
      BY <1>0, <2>2, EditsWritten
    <3> QED
      BY <1>0, <3>1 DEF EditsMade, EditsCaptured
  <2>3. CASE editReachabilityChanged
    <3>1. \/ queue'.edit = queue.edit
          \/ ToSet(queue'.edit) =
               ToSet(queue.edit) \cup {[noteID |-> NoteIDNow, text |-> editor.text]}
      BY <1>0, <2>3, EditReportEffect
    <3> QED
      BY <1>0, <1>1, <2>1, <2>3, <3>1 DEF EditsMade
  <2>4. EditsRest => queue'.edit = queue.edit
    BY DEF EditsRest
  <2>5. AppLaunch \/ NotifyDeletes => queue'.edit = queue.edit
    BY <1>0, EditsStartEffect
  <2>6. \A r \in net : EditRequestEnds(r) => queue' = queue
    BY DEF EditRequestEnds
  <2>7. \A r \in net : ServerEditsNote(r) => queue' = queue
    BY <1>0, EditEffect
  <2>8. AppTraps \/ AppKilled => queue' = queue
    BY EndsEffect
  <2> QED
    BY <1>0, <2>1, <2>2, <2>3, <2>4, <2>5, <2>6, <2>7, <2>8, StepsOfEditing
<1> QED
  BY <1>2, <1>3 DEF EditsMade

LEMMA EditsCarriedStay ==
  ASSUME NEW known, EditInv(known), ToldApart(known), MCNext
  PROVE  EditsCarried'
<1>0. /\ AppNext /\ AppInv /\ NobodySignsOut /\ NobodyWrites /\ EditCallers /\ NotesApart
      /\ EditsCaptured /\ EditsMade /\ EditsCarried
  BY DEF MCNext, EditInv
<1>1. /\ \A r \in Edits(net) : \A x : x = r.arg /\ r.done => CarriedOut(x)'
      /\ phase = "edit" => \A i \in indicesToRemove : \A x : x = snapshot[i] => CarriedOut(x)'
  <2>1. \A x : CarriedOut(x) => CarriedOut(x)'
    BY <1>0, CarriedStays
  <2> QED
    BY <1>0, <2>1 DEF EditsCarried
<1>2. CASE /\ phase' # "edit" \/ UNCHANGED <<phase, snapshot, indicesToRemove>>
           /\ \A r \in Edits(net') : r \in Edits(net) \/ ~r.done
  BY <1>1, <1>2 DEF EditsCarried
<1>3. CASE AppLaunch \/ NotifyDeletes
  <2>1. indicesToRemove' = {}
    BY <1>0, <1>3, EditsStartEffect
  <2>2. ~AppServer
    <3>1. AppServer => UNCHANGED <<running, phase>>
      BY DEF AppServer, chainVars, ServerStep, ServerAddsNote, ServerEditsNote,
         ServerDeletesNote, ServerListsNotes, ServerDeletesUser, ServerRegisters, Answer
    <3>2. AppLaunch => running' /\ ~running
      BY DEF AppLaunch, Launch
    <3>3. NotifyDeletes => phase = "delete" /\ phase' # "delete"
      BY <1>0, DeletesWritten
    <3> QED
      BY <1>3, <3>1, <3>2, <3>3
  <2>3. \A r \in net' : r \in net \/ ~r.done
    BY <1>0, <2>2, EditRequestsOfStep
  <2> QED
    BY <1>1, <2>1, <2>3 DEF EditsCarried, Edits
<1>4. CASE NotifyEdits \/ EditsRest
  BY <1>0, <1>2, <1>4, EditsWritten DEF EditsRest
<1>5. ASSUME NEW r \in net, EditRequestEnds(r) PROVE EditsCarried'
  <2>1. /\ UNCHANGED <<phase, snapshot>> /\ Edits(net') \subseteq Edits(net)
        /\ r.op = "edit"
        /\ \/ indicesToRemove' = indicesToRemove
           \/ /\ indicesToRemove' = indicesToRemove \cup {r.idx}
              /\ r.by = "launch" /\ r.done
    BY <1>5 DEF EditRequestEnds, Edits
  <2>2. ASSUME r.by = "launch", r.done, NEW x, x = snapshot[r.idx] PROVE CarriedOut(x)'
    <3>1. r \in InFlight /\ Barrier
      BY <1>0, <2>1, <2>2 DEF AppInv, LaunchInv, ChainOK, InFlight, Kind
    <3>2. r.arg = snapshot[r.idx]
      BY <3>1 DEF Barrier
    <3> QED
      BY <1>1, <2>1, <2>2, <3>2 DEF Edits
  <2> QED
    BY <1>1, <2>1, <2>2 DEF EditsCarried
<1>6. ASSUME NEW r \in net, ServerEditsNote(r), UNCHANGED chainVars PROVE EditsCarried'
  <2>1. /\ \A x : x = r.arg => CarriedOut(x)'
        /\ UNCHANGED <<phase, snapshot, indicesToRemove>>
        /\ \A q \in Edits(net') : q \in Edits(net) \/ q.arg = r.arg
    BY <1>0, <1>6, EditEffect DEF Edits, chainVars
  <2> QED
    BY <1>1, <2>1 DEF EditsCarried
<1>7. CASE editReachabilityChanged /\ UNCHANGED chainVars
  <2>1. \A r \in net' : r \in net \/ ~r.done
    BY <1>0, <1>7, EditReportEffect DEF NewRequest
  <2> QED
    BY <1>2, <1>7, <2>1 DEF Edits, chainVars
<1>8. CASE AppTraps \/ AppKilled
  BY <1>8, EndsEffect DEF EditsCarried, Edits
<1> QED
  BY <1>0, <1>3, <1>4, <1>5, <1>6, <1>7, <1>8, StepsOfEditing

\* An answer lists the notes of an account, or none.
LEMMA AnswerLists ==
  ASSUME AppInv, AppServer, NEW t \in net', t \notin net
  PROVE  t.rows = <<>> \/ \E x \in Account : t.rows = server[x]
<1>1. PICK r \in net : \/ ServerAddsNote(r) \/ ServerEditsNote(r) \/ ServerDeletesNote(r)
                       \/ ServerListsNotes(r) \/ ServerDeletesUser(r) \/ ServerRegisters(r)
  BY DEF AppServer, ServerStep
<1>2. r \in Request
  BY AppParts DEF NetOK
<1>3. \E id : \/ Answer(r, id, <<>>)
              \/ Answer(r, id, IF r.owner \in Account THEN server[r.owner] ELSE <<>>)
  BY <1>1 DEF ServerAddsNote, ServerEditsNote, ServerDeletesNote, ServerListsNotes,
     ServerDeletesUser, ServerRegisters
<1>4. ASSUME NEW id, NEW rows, Answer(r, id, rows) PROVE t.rows = rows
  <2>1. t = [r EXCEPT !.done = TRUE, !.id = id, !.rows = rows]
    BY <1>4 DEF Answer
  <2> QED
    BY <1>2, <2>1 DEF Request
<1> QED
  BY <1>3, <1>4

LEMMA TextsKnownStay ==
  ASSUME NEW known, EditInv(known), ToldApart(known), MCNext
  PROVE  TextsKnown(known)'
<1>0. /\ AppNext /\ AppInv /\ NobodySignsOut /\ NobodyWrites /\ EditCallers /\ NotesApart
      /\ EditsMade /\ TextsKnown(known) /\ edited \subseteq edited'
  BY DEF MCNext, EditInv
<1>1. \A n : Accounted(known, n) => Accounted(known, n)'
  BY <1>0 DEF Accounted
<1>2. ASSUME NEW x \in Account, NEW i \in DOMAIN server'[x]
      PROVE  \A n : n = server'[x][i] => Accounted(known, n)'
  <2>1. CASE \E j \in DOMAIN server[x] : server'[x][i] = server[x][j]
    BY <1>0, <1>1, <2>1 DEF TextsKnown
  <2>2. ASSUME NEW r \in net, ServerEditsNote(r),
               server'[x][i] = [id |-> r.arg.noteID, text |-> r.arg.text]
        PROVE  \A n : n = server'[x][i] => Accounted(known, n)'
    <3>1. r.op = "edit" /\ r.arg \in edited'
      BY <1>0, <2>2 DEF ServerEditsNote, Reaches, EditsMade, Edits
    <3>2. r.arg \in EditPendingData
      BY <1>0, <3>1, AppParts DEF NetOK, Items, Kind
    <3>3. r.arg = [noteID |-> r.arg.noteID, text |-> r.arg.text]
      BY <3>2 DEF EditPendingData
    <3> QED
      BY <2>2, <3>1, <3>3 DEF Accounted
  <2> QED
    BY <1>0, <2>1, <2>2, ServerKeeps
<1>3. ASSUME NEW t \in net', NEW i \in DOMAIN t.rows
      PROVE  \A n : n = t.rows[i] => Accounted(known, n)'
  <2>1. CASE t \in net
    BY <1>0, <1>1, <2>1 DEF TextsKnown
  <2>2. CASE t \notin net /\ AppServer
    <3>1. t.rows = <<>> \/ \E x \in Account : t.rows = server[x]
      BY <1>0, <2>2, AnswerLists
    <3>2. PICK x \in Account : t.rows = server[x]
      BY <3>1
    <3> QED
      BY <1>0, <1>1, <3>2 DEF TextsKnown
  <2>3. CASE t \notin net /\ ~AppServer
    <3>1. t.rows = <<>>
      BY <1>0, <2>3, EditRequestsOfStep
    <3> QED
      BY <3>1
  <2> QED
    BY <2>1, <2>2, <2>3
<1> QED
  BY <1>2, <1>3 DEF TextsKnown

LEMMA EditInvStays ==
  ASSUME NEW known, EditInv(known), [MCNext]_MCVars
  PROVE  EditInv(known)'
<1>0. AppInv /\ NobodySignsOut /\ NobodyWrites /\ DeleteCallers /\ EditCallers /\ NotesApart
  BY DEF EditInv
<1>1. CASE MCNext
  <2>1. AppNext /\ edited \subseteq edited'
    BY <1>1 DEF MCNext
  <2>2. /\ AppInv' /\ NobodySignsOut' /\ NobodyWrites' /\ DeleteCallers' /\ EditCallers'
        /\ NotesApart'
    BY <1>0, <2>1, AppInvStays, NobodySignsOutStays, NobodyWritesStays, ServerForgets
  <2>3. EditsCaptured' /\ EditorShown' /\ EditorsApart'
    BY <1>0, <2>1, EditsCapturedStay, EditorShownStays, EditorsApartStay DEF EditInv
  <2>4. ToldApart(known)' => ToldApart(known)
    BY <2>1 DEF ToldApart
  <2>5. ToldApart(known)' => EditsMade' /\ EditsCarried' /\ EditorSteady' /\ TextsKnown(known)'
    BY <1>1, <2>4, EditsMadeStay, EditsCarriedStay, EditorSteadyStays, TextsKnownStay
  <2> QED
    BY <2>2, <2>3, <2>5 DEF EditInv
<1>2. CASE UNCHANGED MCVars
  <2>1. UNCHANGED appVars /\ edited' = edited
    BY <1>2 DEF MCVars, historyVars
  <2>2. AppInv'
    BY <1>0, <2>1, AppInvStays
  <2>3. UNCHANGED <<left, screen, net, server, nextID, notes, nextObj, queue, editor, writers,
                    phase, snapshot, indicesToRemove>>
    BY <2>1 DEF appVars, deviceVars, storeVars, remoteVars, chainVars, screenVars, homeVars
  <2>4. NobodySignsOut' /\ NobodyWrites' /\ DeleteCallers' /\ EditCallers' /\ NotesApart'
    BY <1>0, <2>3 DEF NobodySignsOut, NobodyWrites, DeleteCallers, EditCallers, NotesApart
  <2>5. EditsCaptured' /\ EditorShown' /\ EditorsApart'
    BY <2>3 DEF EditInv, EditsCaptured, EditorShown, EditorsApart, Edits
  <2>6. ToldApart(known)' => ToldApart(known)
    BY <2>1 DEF ToldApart
  <2>7. ToldApart(known)' => EditsMade' /\ EditorSteady'
    <3>1. EditsMade => EditsMade'
      BY <2>1, <2>3 DEF EditsMade, Edits
    <3>2. EditorSteady => EditorSteady'
      BY <2>1, <2>3 DEF EditorSteady
    <3> QED
      BY <2>6, <3>1, <3>2 DEF EditInv
  <2>8. ToldApart(known)' => TextsKnown(known)'
    BY <2>1, <2>3, <2>6 DEF EditInv, TextsKnown, Accounted
  <2>9. ToldApart(known)' => EditsCarried'
    BY <2>1, <2>3, <2>6 DEF EditInv, EditsCarried, Edits, CarriedOut, OnServer, TextOnServer,
       Replaced
  <2> QED
    BY <2>2, <2>4, <2>5, <2>7, <2>8, <2>9 DEF EditInv
<1> QED
  BY <1>1, <1>2

---------------------------------------------------------------------------
(* Where an edit is, and how it gets from one place to the next.           *)

Reporting(x)   == editor.stage = "closing" /\ editor.due > 0 /\ editor.text = x.text
EditWaits(x)   == x \in ToSet(queue.edit)
EditTravels(x) == \E r \in Edits(net) : ~r.done /\ r.arg = x
EditDropped(x) == \E p \in abandoned : p[1] = "edit" /\ p[2] = x

EditSafe(x) == \/ Reporting(x) \/ CarriedOut(x)
               \/ EditWaits(x) \/ EditTravels(x) \/ EditDropped(x)

LEMMA EditSafeMeans ==
  ASSUME NEW known
  PROVE  EditSurvivesBut(known) <=> (ToldApart(known) => \A x \in edited : EditSafe(x))
BY DEF EditSurvivesBut, ToldApart, Pursued, InQueue, Travelling, Abandoned, Same, EditSafe,
       Reporting, CarriedOut, Replaced, EditWaits, EditTravels, EditDropped, Edits

LEMMA EditSafeStillMeans ==
  ASSUME NEW known, ToldApart(known)' => \A x \in edited' : EditSafe(x)'
  PROVE  EditSurvivesBut(known)'
BY DEF EditSurvivesBut, ToldApart, Pursued, InQueue, Travelling, Abandoned, Same, EditSafe,
       Reporting, CarriedOut, Replaced, EditWaits, EditTravels, EditDropped, Edits

\* What is given up on in a step is remembered.
LEMMA EditsAreRemembered ==
  ASSUME MCNext, NEW x, <<"edit", x>> \in GivenUp \cup Unreported \cup Unstarted \cup Overwritten
  PROVE  EditDropped(x)'
<1> DEFINE p == <<"edit", x>>
<1>1. p \in abandoned'
  BY DEF MCNext
<1>2. p[1] = "edit" /\ p[2] = x
  OBVIOUS
<1> HIDE DEF p
<1> QED
  BY <1>1, <1>2 DEF EditDropped

\* The notify block keeps what was not acknowledged, and writes over what was
\* queued since.
LEMMA EditsKept ==
  ASSUME NEW known, EditInv(known), EditsMade, EditsCarried, MCNext, NotifyEdits,
         NEW x, EditWaits(x)
  PROVE  EditSafe(x)'
<1>0. AppInv
  BY DEF EditInv
<1>1. /\ phase = "edit" /\ snapshot \in Seq(EditPendingData)
      /\ queue'.edit = removeAtOffsets(snapshot, indicesToRemove)
  BY <1>0, EditsWritten
<1>2. CASE x \in ToSet(queue'.edit)
  BY <1>2 DEF EditWaits, EditSafe
<1>3. CASE x \notin ToSet(snapshot) /\ x \notin ToSet(queue'.edit)
  <2>1. x \in ToSet(queue[phase]) /\ ~InQueue(phase, x, queue') /\ phase \in Kind
    BY <1>1, <1>3 DEF EditWaits, InQueue, Same, Kind
  <2>2. <<phase, x>> \in Overwritten
    BY <1>3, <2>1 DEF Overwritten
  <2> QED
    BY <1>1, <2>2, EditsAreRemembered DEF EditSafe
<1>4. ASSUME NEW i \in DOMAIN snapshot, snapshot[i] = x PROVE EditSafe(x)'
  <2>1. CASE i \in indicesToRemove
    <3>1. CarriedOut(x)
      BY <1>1, <1>4, <2>1 DEF EditsCarried
    <3> QED
      BY <3>1, CarriedStays DEF EditSafe
  <2>2. CASE i \notin indicesToRemove
    <3>1. i \in Kept(snapshot, indicesToRemove)
      BY <1>4, <2>2 DEF Kept
    <3>2. \E k \in DOMAIN queue'.edit : queue'.edit[k] = snapshot[i]
      BY <1>1, <3>1, KeptIsLeft
    <3> QED
      BY <1>2, <1>4, <3>2 DEF ToSet
  <2> QED
    BY <2>1, <2>2
<1> QED
  BY <1>2, <1>3, <1>4 DEF ToSet

\* A request of the editor's that ends has no other like it.
LEMMA NoEditTwin ==
  ASSUME NEW known, EditInv(known), NEW r \in net, r.by = "editing", net' = net \ {r}
  PROVE  [r EXCEPT !.done = TRUE] \notin {[p EXCEPT !.id = 0, !.rows = <<>>] : p \in net'}
<1>0. net \subseteq Request /\ \A q \in net : q.by = "editing" => q.op = "edit"
  BY AppParts DEF EditInv, NetOK, EditCallers
<1> SUFFICES ASSUME NEW p \in net', [r EXCEPT !.done = TRUE] = [p EXCEPT !.id = 0, !.rows = <<>>]
             PROVE  FALSE
  OBVIOUS
<1>1. p \in Request /\ r \in Request /\ p \in net /\ p # r
  BY <1>0
<1>2. /\ [r EXCEPT !.done = TRUE].by = r.by /\ [r EXCEPT !.done = TRUE].idx = r.idx
      /\ [p EXCEPT !.id = 0, !.rows = <<>>].by = p.by
      /\ [p EXCEPT !.id = 0, !.rows = <<>>].idx = p.idx
  BY <1>1 DEF Request
<1>3. p.by = r.by /\ p.idx = r.idx
  BY <1>2
<1> QED
  BY <1>0, <1>1, <1>3 DEF EditInv, EditorsApart, Edits

\* A request that ends is carried out, still in the queue, or was printed.
LEMMA EndedEditKept ==
  ASSUME NEW known, EditInv(known), MCNext, NEW r \in net, EditRequestEnds(r),
         NEW x, EditTravels(x)
  PROVE  EditSafe(x)'
<1>1. PICK q \in Edits(net) : ~q.done /\ q.arg = x
  BY DEF EditTravels
<1>2. /\ r \in net /\ r.op = "edit" /\ net' = net \ {r} /\ UNCHANGED queue
      /\ r.by \in {"launch", "editing"}
  BY DEF EditRequestEnds
<1>3. CASE q # r
  BY <1>1, <1>2, <1>3 DEF Edits, EditTravels, EditSafe
<1>4. CASE q = r /\ r.by = "launch"
  <2>1. r \in InFlight /\ Barrier /\ snapshot \in Seq(Entry)
    BY <1>2, <1>4 DEF EditInv, AppInv, LaunchInv, ChainOK, InFlight, Kind
  <2>2. phase = "edit" /\ r.arg \in ToSet(snapshot)
    BY <1>2, <2>1 DEF Barrier, ToSet
  <2>3. r.arg \in ToSet(queue.edit)
    BY <2>2 DEF EditInv, EditsCaptured
  <2> QED
    BY <1>1, <1>2, <1>4, <2>3 DEF EditWaits, EditSafe
<1>5. CASE q = r /\ r.by = "editing"
  <2>1. CASE InQueue("edit", r.arg, queue')
    BY <1>1, <1>5, <2>1 DEF InQueue, Same, EditWaits, EditSafe
  <2>2. CASE ~InQueue("edit", r.arg, queue')
    <3>1. r \in net \ net' /\ r.op \in Kind /\ ~r.done
      BY <1>1, <1>2, <1>5 DEF Kind
    <3>2. <<r.op, r.arg>> \in GivenUp
      BY <1>2, <1>5, <2>2, <3>1, NoEditTwin DEF GivenUp
    <3> QED
      BY <1>1, <1>2, <1>5, <3>2, EditsAreRemembered DEF EditSafe
  <2> QED
    BY <2>1, <2>2
<1> QED
  BY <1>2, <1>3, <1>4, <1>5

\* The end of the process takes with it the requests under way.
LEMMA EndsKeepEdits ==
  ASSUME MCNext, AppTraps \/ AppKilled, NEW x, EditTravels(x)
  PROVE  EditSafe(x)'
<1>1. ~running' /\ net' = {}
  BY EndsEffect
<1>2. PICK r \in Edits(net) : ~r.done /\ r.arg = x
  BY DEF EditTravels
<1>3. CASE InQueue("edit", r.arg, queue')
  BY <1>2, <1>3 DEF InQueue, Same, EditWaits, EditSafe
<1>4. CASE ~InQueue("edit", r.arg, queue')
  <2>1. r \in net \ net' /\ r.op = "edit" /\ r.op \in Kind
    BY <1>1, <1>2 DEF Edits, Kind
  <2>2. [r EXCEPT !.done = TRUE] \notin {[p EXCEPT !.id = 0, !.rows = <<>>] : p \in net'}
    BY <1>1
  <2>3. <<r.op, r.arg>> \in GivenUp
    BY <1>1, <1>2, <1>4, <2>1, <2>2 DEF GivenUp
  <2> QED
    BY <1>2, <2>1, <2>3, EditsAreRemembered DEF EditSafe
<1> QED
  BY <1>3, <1>4

\* A report to come goes on to come, is sent or queued, or ends with the
\* process.
LEMMA ReportKept ==
  ASSUME NEW known, EditInv(known), ToldApart(known), MCNext, NEW x \in edited, Reporting(x)
  PROVE  EditSafe(x)'
<1>0. /\ AppNext /\ AppInv /\ EditorSteady /\ EditorShown
      /\ editor.stage = "closing" /\ editor.due > 0 /\ editor.text = x.text
  BY DEF MCNext, EditInv, Reporting
<1>1. /\ editor \in EditNoteVC /\ running /\ editor.due \in Nat
  BY <1>0, EditorIDs DEF EditNoteVC
<1> DEFINE y == [noteID |-> NoteIDNow, text |-> editor.text]
<1>2. y = x
  <2> DEFINE z == [noteID |-> editor.noteID, text |-> editor.text]
  <2>1. y = z /\ z \in edited
    BY <1>0, ReportsItsEdit
  <2>2. z.text = x.text
    BY <1>0
  <2> QED
    BY <2>1, <2>2 DEF ToldApart
<1> HIDE DEF y
<1>3. CASE editor' = editor
  BY <1>0, <1>3 DEF Reporting, EditSafe
<1>4. CASE AppTraps \/ AppKilled
  <2>1. ~running'
    BY <1>4, EndsEffect
  <2>2. <<"edit", y>> \in Unreported
    BY <1>0, <1>1, <2>1 DEF Unreported, y
  <2> QED
    BY <1>2, <2>2, EditsAreRemembered DEF EditSafe
<1>5. ASSUME NEW row, NEW text, editItemAt(row, text) PROVE FALSE
  BY <1>0, <1>5 DEF editItemAt, Present, Touched, EditorShown
<1>6. ~editPostTapped
  BY <1>0 DEF editPostTapped
<1>7. CASE editReachabilityChanged
  <2>1. \/ NewRequest("editing", 1, Fresh("editing"), "edit", y) \in net'
        \/ y \in ToSet(queue'.edit)
    BY <1>0, <1>7, EditReportEffect DEF y
  <2> DEFINE t == NewRequest("editing", 1, Fresh("editing"), "edit", y)
  <2>2. t.op = "edit" /\ ~t.done /\ t.arg = y
    BY DEF NewRequest
  <2> HIDE DEF t
  <2>3. t \in net' \/ y \in ToSet(queue'.edit)
    BY <2>1 DEF t
  <2> QED
    BY <1>2, <2>2, <2>3 DEF EditWaits, EditTravels, Edits, EditSafe
<1>8. CASE editor' = [editor EXCEPT !.due = @ + 1]
  <2>1. editor'.stage = "closing" /\ editor'.due = editor.due + 1 /\ editor'.text = editor.text
    BY <1>0, <1>1, <1>8 DEF EditNoteVC
  <2>2. editor'.due > 0
    BY <1>1, <2>1
  <2> QED
    BY <1>0, <2>1, <2>2 DEF Reporting, EditSafe
<1>9. ~(editor.stage = "open" \/ editor.due = 0)
  BY <1>0, <1>1
<1> QED
  BY <1>0, <1>3, <1>4, <1>5, <1>6, <1>7, <1>8, <1>9, EditorSteps

\* No step loses an edit that was safe.
LEMMA EditStaysSafe ==
  ASSUME NEW known, EditInv(known), ToldApart(known), MCNext, NEW x \in edited, EditSafe(x)
  PROVE  EditSafe(x)'
<1>0. /\ AppNext /\ abandoned \subseteq abandoned'
      /\ AppInv /\ NobodySignsOut /\ NobodyWrites /\ EditCallers /\ NotesApart
      /\ EditsMade /\ EditsCarried
  BY DEF MCNext, EditInv
<1>1. CASE CarriedOut(x)
  BY <1>0, <1>1, CarriedStays DEF EditSafe
<1>2. CASE EditDropped(x)
  BY <1>0, <1>2 DEF EditDropped, EditSafe
<1>3. CASE Reporting(x)
  BY <1>3, ReportKept
<1>4. CASE EditWaits(x) \/ EditTravels(x)
  <2>1. CASE EditsRest
    BY <1>4, <2>1 DEF EditsRest, EditWaits, EditTravels, EditSafe
  <2>2. CASE AppLaunch \/ NotifyDeletes
    <3>1. queue'.edit = queue.edit /\ net \subseteq net'
      BY <1>0, <2>2, EditsStartEffect
    <3> QED
      BY <1>4, <3>1 DEF EditWaits, EditTravels, Edits, EditSafe
  <2>3. CASE NotifyEdits
    <3>1. Edits(net') = Edits(net)
      BY <1>0, <2>3, EditsWritten
    <3>2. CASE EditTravels(x)
      BY <3>1, <3>2 DEF EditTravels, EditSafe
    <3> QED
      BY <1>0, <1>4, <2>3, <3>2, EditsKept
  <2>4. ASSUME NEW r \in net, EditRequestEnds(r) PROVE EditSafe(x)'
    <3>1. CASE EditWaits(x)
      BY <2>4, <3>1 DEF EditRequestEnds, EditWaits, EditSafe
    <3> QED
      BY <1>4, <2>4, <3>1, EndedEditKept
  <2>5. ASSUME NEW r \in net, ServerEditsNote(r) PROVE EditSafe(x)'
    <3>1. /\ queue' = queue /\ \A z : z = r.arg => CarriedOut(z)'
          /\ \A q \in Edits(net) : q # r => q \in Edits(net')
      BY <1>0, <2>5, EditEffect DEF Edits
    <3>2. CASE EditWaits(x)
      BY <3>1, <3>2 DEF EditWaits, EditSafe
    <3>3. CASE EditTravels(x)
      <4>1. PICK q \in Edits(net) : ~q.done /\ q.arg = x
        BY <3>3 DEF EditTravels
      <4> QED
        BY <3>1, <4>1 DEF EditTravels, EditSafe
    <3> QED
      BY <1>4, <3>2, <3>3
  <2>6. CASE editReachabilityChanged
    <3>1. net \subseteq net' /\ ToSet(queue.edit) \subseteq ToSet(queue'.edit)
      BY <1>0, <2>6, EditReportEffect
    <3> QED
      BY <1>4, <3>1 DEF EditWaits, EditTravels, Edits, EditSafe
  <2>7. CASE AppTraps \/ AppKilled
    <3>1. CASE EditWaits(x)
      BY <2>7, <3>1, EndsEffect DEF EditWaits, EditSafe
    <3> QED
      BY <1>0, <1>4, <2>7, <3>1, EndsKeepEdits
  <2> QED
    BY <1>0, <2>1, <2>2, <2>3, <2>4, <2>5, <2>6, <2>7, StepsOfEditing
<1> QED
  BY <1>1, <1>2, <1>3, <1>4 DEF EditSafe

\* An edit made while signed in is about to be reported, unless the notifier
\* cannot be started.
LEMMA NewlyEdited ==
  ASSUME NEW known, EditInv(known), MCNext, NEW x \in edited' \ edited
  PROVE  EditSafe(x)'
<1>1. /\ AppNext /\ AppInv /\ editor.stage = "open" /\ editor'.stage = "closing"
      /\ uid # NoAccount /\ x = [noteID |-> editor'.noteID, text |-> editor.text]
  BY DEF MCNext, EditInv
<1>2. x.text = editor.text
  BY <1>1
<1>3. editPostTapped
  <2>1. NoEditor.stage = "none"
    BY DEF NoEditor
  <2>2. \A row, text : editItemAt(row, text) => editor'.stage = "open"
    BY DEF editItemAt
  <2> QED
    BY <1>1, <2>1, <2>2, EditorSteps DEF editReachabilityChanged
<1>4. PICK starts \in BOOLEAN :
        /\ SpendAll({z \in {"start"} : uid # NoAccount /\ ~starts})
        /\ editor' = [editor EXCEPT !.stage = "closing", !.noteID = IDOrBlank,
                                    !.notifies = starts, !.due = IF starts THEN 1 ELSE 0]
  BY <1>3 DEF editPostTapped
<1>5. CASE starts
  <2>1. editor \in EditNoteVC
    BY <1>1, EditorIDs
  <2>2. editor'.due = 1 /\ editor'.text = editor.text
    BY <1>4, <1>5, <2>1 DEF EditNoteVC
  <2> QED
    BY <1>1, <1>2, <2>2 DEF Reporting, EditSafe
<1>6. CASE ~starts
  <2>1. "start" \in Resource /\ left \in [Resource -> Nat]
    BY <1>1, AppParts, ScreenLimits
  <2>2. left["start"] \in Nat /\ left'["start"] = left["start"] - 1
    BY <1>1, <1>4, <1>6, <2>1 DEF SpendAll
  <2>3. left'["start"] < left["start"]
    BY <2>2
  <2>4. <<"edit", x>> \in Unstarted
    BY <1>1, <2>3 DEF Unstarted
  <2> QED
    BY <2>4, EditsAreRemembered DEF EditSafe
<1> QED
  BY <1>5, <1>6

---------------------------------------------------------------------------
(* The theorem on edits.                                                   *)

\* The conditions under which edits are watched: nobody is to write a note or
\* to sign out, no edit waits, and the server's texts are known.
EditStart(known) ==
  /\ AppInit /\ NoHistory /\ left["signOut"] = 0 /\ left["write"] = 0
  /\ queue.post = <<>> /\ queue.edit = <<>> /\ NotesApart
  /\ \A x \in Account : \A i \in DOMAIN server[x] : server[x][i].text \in known

LEMMA EditStartIsOK ==
  ASSUME NEW known, EditStart(known)
  PROVE  EditInv(known) /\ EditSurvivesBut(known)
<1>0. /\ AppInit /\ NoHistory /\ left["signOut"] = 0 /\ left["write"] = 0
      /\ queue.post = <<>> /\ queue.edit = <<>> /\ NotesApart
  BY DEF EditStart
<1>1. AppInv
  BY <1>0, AppInitIsOK
<1>2. /\ net = {} /\ phase = "none" /\ screen = "off" /\ edited = {} /\ DOMAIN writers = {}
      /\ editor.stage = "none"
  BY <1>0 DEF AppInit, Init, HomeInit, WritingInit, EditInit, NoEditor, NoHistory
<1>3. /\ NobodySignsOut /\ NobodyWrites /\ DeleteCallers /\ EditCallers
      /\ EditsCaptured /\ EditorShown /\ EditorsApart
  BY <1>0, <1>2 DEF NobodySignsOut, NobodyWrites, DeleteCallers, EditCallers, EditsCaptured,
     EditorShown, EditorsApart, Edits
<1>4. EditsMade /\ EditsCarried /\ EditorSteady
  BY <1>0, <1>2 DEF EditsMade, EditsCarried, EditorSteady, Edits, ToSet
<1>5. TextsKnown(known)
  BY <1>2 DEF EditStart, TextsKnown, Accounted
<1> QED
  BY <1>0, <1>1, <1>2, <1>3, <1>4, <1>5 DEF EditInv, EditSurvivesBut

\* No step loses an edit.
LEMMA EditsStaySafe ==
  ASSUME NEW known, EditInv(known), EditSurvivesBut(known), [MCNext]_MCVars
  PROVE  EditInv(known)' /\ EditSurvivesBut(known)'
<1>1. EditInv(known)'
  BY EditInvStays
<1>2. CASE MCNext
  <2>1. ToldApart(known)' => \A x \in edited' : EditSafe(x)'
    <3> SUFFICES ASSUME ToldApart(known)', NEW x \in edited' PROVE EditSafe(x)'
      OBVIOUS
    <3>1. ToldApart(known)
      BY <1>2 DEF ToldApart, MCNext
    <3>2. x \in edited => EditSafe(x)
      BY <3>1, EditSafeMeans
    <3> QED
      BY <1>2, <3>1, <3>2, EditStaysSafe, NewlyEdited
  <2>2. EditSurvivesBut(known)'
    BY <2>1, EditSafeStillMeans
  <2> QED
    BY <1>1, <2>2
<1>3. CASE UNCHANGED MCVars
  <2>1. UNCHANGED <<server, queue, net, editor, abandoned, edited>>
    BY <1>3 DEF MCVars, historyVars, appVars, deviceVars, storeVars, remoteVars, screenVars
  <2>2. EditSurvivesBut(known)'
    BY <2>1 DEF EditSurvivesBut, Pursued, InQueue, Travelling, Abandoned, OnServer, TextOnServer
  <2> QED
    BY <1>1, <2>2
<1> QED
  BY <1>2, <1>3

\* An edit made while signed in is carried out, replaced by another edit of
\* the note, queued, on its way, about to be reported, or given up on for one
\* of the reasons listed (a kill or a trap, an edit that failed and was only
\* printed, a notifier that did not start, a notify block that writes over
\* it): through any edits, deletions, failures, kills, launches and merges, for
\* as long as nobody writes a note or signs out and the texts edited are new
\* and told apart, from any store with no edit waiting and any set of texts the
\* server has (EditNoteVC.postBTNtapped, AppDelegate.postEditedPendingData and
\* updateLocalNoteIDs).
THEOREM EditsMadeSurvive ==
  ASSUME NEW known
  PROVE  EditStart(known) /\ [][MCNext]_MCVars => []EditSurvivesBut(known)
<1>1. EditStart(known) => EditInv(known) /\ EditSurvivesBut(known)
  BY EditStartIsOK
<1>2. /\ EditInv(known) /\ EditSurvivesBut(known) /\ [MCNext]_MCVars
      => (EditInv(known) /\ EditSurvivesBut(known))'
  BY EditsStaySafe
<1> QED
  BY <1>1, <1>2, PTL

\* The same of the property the runs check, on a server with the texts a and b.
THEOREM EditsSurvive == EditStart({a, b}) /\ [][MCNext]_MCVars => []EditSurvives
<1>1. EditStart({a, b}) => EditInv({a, b}) /\ EditSurvivesBut({a, b})
  BY EditStartIsOK
<1>2. /\ EditInv({a, b}) /\ EditSurvivesBut({a, b}) /\ [MCNext]_MCVars
      => (EditInv({a, b}) /\ EditSurvivesBut({a, b}))'
  BY EditsStaySafe
<1>3. EditSurvivesBut({a, b}) => EditSurvives
  BY DEF EditSurvives
<1> QED
  BY <1>1, <1>2, <1>3, PTL

---------------------------------------------------------------------------
(* Notes sent once, while nothing disturbs the app.                        *)

\* A set with at most one more element, and one with an element less.
LEMMA OneMore ==
  ASSUME NEW S, IsFiniteSet(S), NEW x, NEW T, T \subseteq S \cup {x}
  PROVE  IsFiniteSet(T) /\ Cardinality(T) \in Nat /\ Cardinality(T) <= Cardinality(S) + 1
<1>1. /\ IsFiniteSet(S \cup {x})
      /\ Cardinality(S) \in Nat
      /\ Cardinality(S \cup {x}) \in {Cardinality(S), Cardinality(S) + 1}
  BY FS_AddElement, FS_CardinalityType
<1>2. IsFiniteSet(T) /\ Cardinality(T) <= Cardinality(S \cup {x}) /\ Cardinality(T) \in Nat
  BY <1>1, FS_Subset, FS_CardinalityType
<1> QED
  BY <1>1, <1>2

LEMMA OneLess ==
  ASSUME NEW S, IsFiniteSet(S), NEW x \in S, NEW T, T \subseteq S \ {x}
  PROVE  IsFiniteSet(T) /\ Cardinality(T) \in Nat /\ Cardinality(T) + 1 <= Cardinality(S)
<1>1. /\ IsFiniteSet(S \ {x}) /\ Cardinality(S) \in Nat
      /\ Cardinality(S \ {x}) = Cardinality(S) - 1
  BY FS_RemoveElement, FS_CardinalityType
<1>2. IsFiniteSet(T) /\ Cardinality(T) <= Cardinality(S \ {x}) /\ Cardinality(T) \in Nat
  BY <1>1, FS_Subset, FS_CardinalityType
<1> QED
  BY <1>1, <1>2

\* What is spent is missing afterwards.
LEMMA SpendShows ==
  ASSUME left \in [Resource -> Nat], NEW S, SpendAll(S), NEW x \in S, x \in Resource
  PROVE  left'[x] < left[x]
<1>1. left'[x] = left[x] - 1 /\ left[x] \in Nat
  BY DEF SpendAll
<1> QED
  BY <1>1

\* A step that leaves the notes undisturbed changes no connection, kills
\* nothing, fails no call and repeats no tap.
LEMMA Undisturbed ==
  ASSUME AppInv, MCNext, ~disturbed'
  PROVE  /\ ~disturbed
         /\ \A S : SpendAll(S) => S \cap {"flip", "tap", "kill", "fail", "garble"} = {}
<1>1. ~disturbed /\ \A x \in {"flip", "tap", "kill", "fail", "garble"} : ~(left'[x] < left[x])
  BY DEF MCNext
<1>2. left \in [Resource -> Nat] /\ {"flip", "tap", "kill", "fail", "garble"} \subseteq Resource
  BY AppParts, LimitAssumption, ScreenLimits
<1> QED
  BY <1>1, <1>2, SpendShows

\* A WritingVC observes its one notifier once, which reports once, and one
\* whose Post can still be tapped for the first time does neither.
TapsOnce ==
  \A w \in DOMAIN writers :
    /\ writers[w].observers <= 1 /\ writers[w].due <= 1
    /\ writers[w].open /\ writers[w].adds = 0
       => writers[w].observers = 0 /\ writers[w].due = 0 /\ ~writers[w].notifies

\* The WritingVCs that have a report to come, and the notes not yet carried
\* out.
Reporters == {w \in DOMAIN writers : writers[w].due > 0}
Unsent    == {r \in Posts(net) : ~r.done}

\* Only a kill ends the process.
LEMMA ProcessStays ==
  ASSUME NotesInv, MCNext, ~disturbed'
  PROVE  running => running'
<1>1. \A S : SpendAll(S) => "kill" \notin S
  BY Undisturbed DEF NotesInv
<1>2. AppNext /\ screen # "alert" /\ AppInv
  BY DEF MCNext, NotesInv, OnlyNotes
<1>3. CASE AppLaunch
  BY <1>3 DEF AppLaunch, Launch
<1>4. CASE AppChain
  BY <1>4 DEF AppChain, LaunchStep, Notify, NotifyDeletes, NotifyEdits, NotifyPosts,
     LaunchRequestSucceeds, LaunchRequestFails, FetchSucceeds, FetchFails
<1>5. CASE AppServer
  <2>1. PICK r, id, rows : Answer(r, id, rows)
    BY <1>5 DEF AppServer, ServerStep, ServerAddsNote, ServerEditsNote, ServerDeletesNote,
       ServerListsNotes, ServerDeletesUser, ServerRegisters
  <2> QED
    BY <2>1 DEF Answer
<1>6. CASE AppHome
  BY <1>2, <1>6 DEF AppHome, HomeStep, HomeAppears, deleteItemAt, DeleteCancelled,
     DeleteRefused, DeleteConfirmed, CloseAlert, Touched, DeleteAnswered, DeleteFails, deviceVars
<1>7. CASE AppWriting
  BY <1>7 DEF AppWriting, WritingStep, OpenWriting, closeBTNtapped, postBTNtapped, addNote,
     reachabilityChanged, PostAnswered, PostGarbled, PostFails, deviceVars
<1>8. CASE AppEdit
  BY <1>8 DEF AppEdit, EditStep, editItemAt, editCloseTapped, editPostTapped,
     editReachabilityChanged, EditDismissed, EditAnswered, deviceVars
<1>9. CASE AppSession
  BY <1>9 DEF AppSession, SessionStep, SignIn, SignUpBack, Registered, SignUpFetched,
     SignUpFails, AccountDeleted, AccountDeletionFails, handleLogout, deleteUserData, deviceVars
<1>10. CASE AppTraps \/ AppKilled
  BY <1>1, <1>2, <1>10 DEF AppTraps, DeleteTraps, Touched, AppKilled, Spend
<1>11. CASE AppFlip
  BY <1>11 DEF AppFlip, NetworkChanges
<1> QED
  BY <1>2, <1>3, <1>4, <1>5, <1>6, <1>7, <1>8, <1>9, <1>10, <1>11 DEF AppNext

\* What the steps do to the WritingVCs.
LEMMA WritersStep ==
  ASSUME NotesInv, AppNext
  PROVE  \/ writers' = writers
         \/ \E text \in Text : OpenWriting(text)
         \/ \E w \in DOMAIN writers : \/ closeBTNtapped(w) \/ postBTNtapped(w)
                                      \/ addNote(w) \/ reachabilityChanged(w)
         \/ AppFlip \/ AppKilled
<1>1. CASE AppLaunch \/ AppChain \/ AppServer
  BY <1>1 DEF AppLaunch, AppChain, AppServer, screenVars
<1>2. CASE AppHome \/ AppEdit \/ AppSession
  BY <1>2 DEF AppHome, AppEdit, AppSession
<1>3. CASE AppWriting
  BY <1>3 DEF AppWriting, WritingStep, PostAnswered, PostGarbled, PostFails
<1>4. ~AppTraps
  BY DEF NotesInv, OnlyNotes, AppTraps, DeleteTraps, Touched
<1> QED
  BY <1>1, <1>2, <1>3, <1>4 DEF AppNext

\* Nobody starts to report but for a tap, and a report is the only one.
LEMMA TapsOnceStay ==
  ASSUME NotesInv, TapsOnce, MCNext, ~disturbed'
  PROVE  /\ TapsOnce'
         /\ \/ Reporters' \subseteq Reporters
            \/ \E w \in DOMAIN writers : postBTNtapped(w) /\ Reporters' \subseteq Reporters \cup {w}
         /\ \A w \in DOMAIN writers :
              reachabilityChanged(w) => w \in Reporters /\ Reporters' \subseteq Reporters \ {w}
<1>0. /\ AppInv /\ WritingTypeOK /\ \A w \in DOMAIN writers : writers[w] \in WritingVC
      /\ \A S : SpendAll(S) => "tap" \notin S
      /\ AppNext /\ ~AppFlip /\ ~AppKilled
  BY AppParts, WriterType, Undisturbed DEF NotesInv, MCNext, AppFlip, NetworkChanges, AppKilled,
     Spend
<1> DEFINE Once(v) == /\ v.observers <= 1 /\ v.due <= 1
                      /\ v.open /\ v.adds = 0 => v.observers = 0 /\ v.due = 0 /\ ~v.notifies
<1>1. \A w \in DOMAIN writers : Once(writers[w])
  BY DEF TapsOnce
<1>2. ASSUME NEW w \in DOMAIN writers, NEW f, Update(w, f), Once(f)
      PROVE  /\ TapsOnce'
             /\ Reporters' \subseteq Reporters \cup {w}
             /\ (f.due > 0 => writers[w].due > 0) => Reporters' \subseteq Reporters
             /\ ~(f.due > 0) => Reporters' \subseteq Reporters \ {w}
  <2>1. /\ DOMAIN writers' = DOMAIN writers /\ writers'[w] = f
        /\ \A v \in DOMAIN writers : v # w => writers'[v] = writers[v]
    BY <1>2 DEF Update
  <2>2. \A v \in DOMAIN writers' : Once(writers'[v])
    BY <1>1, <1>2, <2>1
  <2>3. TapsOnce'
    BY <2>2 DEF TapsOnce
  <2> QED
    BY <2>1, <2>3 DEF Reporters
<1>3. ASSUME NEW text \in Text, OpenWriting(text)
      PROVE  TapsOnce' /\ Reporters' \subseteq Reporters
  <2> DEFINE v == [text |-> text, open |-> TRUE, adds |-> 0, observers |-> 0,
                   notifies |-> FALSE, due |-> 0]
  <2>1. writers' = Append(writers, v)
    BY <1>3 DEF OpenWriting
  <2>2. Once(v) /\ ~(v.due > 0)
    OBVIOUS
  <2> HIDE DEF v
  <2>3. /\ \A w \in DOMAIN writers : w \in DOMAIN writers' /\ writers'[w] = writers[w]
        /\ \A w \in DOMAIN writers' \ DOMAIN writers : writers'[w] = v
    BY <1>0, <2>1, AppendedWriter DEF WritingTypeOK
  <2>4. \A w \in DOMAIN writers' : Once(writers'[w])
    BY <1>1, <2>2, <2>3
  <2> QED
    BY <2>2, <2>3, <2>4 DEF TapsOnce, Reporters
<1>4. ASSUME NEW w \in DOMAIN writers, closeBTNtapped(w)
      PROVE  TapsOnce' /\ Reporters' \subseteq Reporters
  <2> DEFINE f == [writers[w] EXCEPT !.open = FALSE]
  <2>1. Update(w, f)
    BY <1>4 DEF closeBTNtapped
  <2>2. Once(f) /\ f.due = writers[w].due
    BY <1>0, <1>1 DEF WritingVC
  <2> QED
    BY <1>2, <2>1, <2>2
<1>5. ASSUME NEW w \in DOMAIN writers, addNote(w)
      PROVE  TapsOnce' /\ Reporters' \subseteq Reporters
  <2> DEFINE fewer == writers[w].adds - 1
             f == [writers[w] EXCEPT !.adds = fewer, !.open = FALSE]
  <2>1. Update(w, f)
    BY <1>5 DEF addNote
  <2> HIDE DEF fewer
  <2>2. Once(f) /\ f.due = writers[w].due
    BY <1>0, <1>1 DEF WritingVC
  <2> QED
    BY <1>2, <2>1, <2>2
<1>6. ASSUME NEW w \in DOMAIN writers, reachabilityChanged(w)
      PROVE  TapsOnce' /\ w \in Reporters /\ Reporters' \subseteq Reporters \ {w}
  <2> DEFINE later == writers[w].due - 1
             f == [writers[w] EXCEPT !.due = later]
  <2>1. Update(w, f) /\ writers[w].due > 0
    BY <1>6 DEF reachabilityChanged
  <2>2. later = 0
    BY <1>0, <1>1, <2>1 DEF WritingVC
  <2>3. f.due = later /\ f.open = writers[w].open /\ f.adds = writers[w].adds
        /\ f.observers = writers[w].observers
    BY <1>0 DEF WritingVC
  <2>4. Once(f) /\ ~(f.due > 0)
    BY <1>0, <1>1, <2>1, <2>2, <2>3 DEF WritingVC
  <2> HIDE DEF f
  <2>5. TapsOnce' /\ Reporters' \subseteq Reporters \ {w}
    BY <1>2, <2>1, <2>4
  <2> QED
    BY <2>1, <2>5 DEF Reporters
<1>7. ASSUME NEW w \in DOMAIN writers, postBTNtapped(w)
      PROVE  TapsOnce' /\ Reporters' \subseteq Reporters \cup {w}
  <2>1. writers[w].open
    BY <1>7 DEF postBTNtapped
  <2>2. writers[w].adds = 0
    <3>1. \E S : SpendAll(S) /\ (writers[w].adds > 0 => "tap" \in S)
      BY <1>7 DEF postBTNtapped, TapQueues, TapStarts
    <3> QED
      BY <1>0, <3>1 DEF WritingVC
  <2>3. /\ writers[w].observers = 0 /\ writers[w].due = 0 /\ ~writers[w].notifies
    BY <1>1, <2>1, <2>2
  <2>4. \E f : Update(w, f) /\ Once(f)
    <3>1. CASE TapQueues(w)
      <4> DEFINE more == writers[w].adds + 1
                 f == [writers[w] EXCEPT !.adds = more]
      <4>1. Update(w, f)
        BY <3>1 DEF TapQueues
      <4>2. more = 1
        BY <2>2
      <4>3. f.observers = 0 /\ f.due = 0 /\ f.adds = more
        BY <1>0, <2>3 DEF WritingVC
      <4>4. Once(f)
        BY <4>2, <4>3
      <4> HIDE DEF f
      <4> QED
        BY <4>1, <4>4
    <3>2. ASSUME NEW starts, TapStarts(w, starts) PROVE \E f : Update(w, f) /\ Once(f)
      <4> DEFINE more == writers[w].adds + 1
                 more2 == writers[w].observers + 1
                 soon == IF starts /\ ~writers[w].notifies THEN writers[w].due + 1
                                                           ELSE writers[w].due
                 f == [writers[w] EXCEPT !.adds = more, !.observers = more2,
                                         !.notifies = starts, !.due = soon]
      <4>1. Update(w, f)
        BY <3>2 DEF TapStarts
      <4>2. more = 1 /\ more2 = 1 /\ soon <= 1
        BY <2>2, <2>3
      <4> HIDE DEF more, more2, soon
      <4>3. f.observers = more2 /\ f.due = soon /\ f.adds = more
        BY <1>0 DEF WritingVC
      <4>4. Once(f)
        BY <4>2, <4>3
      <4> HIDE DEF f
      <4> QED
        BY <4>1, <4>4
    <3> QED
      BY <1>7, <3>1, <3>2 DEF postBTNtapped
  <2> HIDE DEF Once
  <2> QED
    BY <1>2, <2>4
<1>8. TapsOnce'
  BY <1>0, <1>3, <1>4, <1>5, <1>6, <1>7, WritersStep DEF TapsOnce
<1>9. \/ Reporters' \subseteq Reporters
       \/ \E w \in DOMAIN writers : postBTNtapped(w) /\ Reporters' \subseteq Reporters \cup {w}
  <2>1. writers' = writers => Reporters' = Reporters
    BY DEF Reporters
  <2> QED
    BY <1>0, <1>3, <1>4, <1>5, <1>6, <1>7, <2>1, WritersStep
<1> QED
  BY <1>6, <1>8, <1>9

\* Before the launch every note in the queue may still be sent; after its
\* drain only the next launch sends one, and that takes a kill.
Unlaunched == IF running THEN 0 ELSE Len(queue.post)

\* A note posted is on the server, or on its way there, or about to be, once.
SentOnce ==
  Len(server[alice]) + Cardinality(Unsent) + Cardinality(Reporters) + Unlaunched <= posts

OnceInv == NotesInv /\ posts \in Nat /\ (~disturbed => TapsOnce /\ SentOnce)

LEMMA CountsAreFinite ==
  ASSUME AppInv, alice \in Account
  PROVE  /\ IsFiniteSet(Unsent) /\ Cardinality(Unsent) \in Nat
         /\ IsFiniteSet(Reporters) /\ Cardinality(Reporters) \in Nat
         /\ Len(queue.post) \in Nat /\ Len(server[alice]) \in Nat /\ Unlaunched \in Nat
         /\ IsFiniteSet(DOMAIN writers)
<1>1. IsFiniteSet(net)
  BY AppParts DEF NetOK
<1>2. Len(writers) \in Nat /\ DOMAIN writers = 1..Len(writers)
  BY AppParts, LenProperties DEF WritingTypeOK
<1>3. IsFiniteSet(DOMAIN writers)
  BY <1>2, FS_Interval
<1>4. Len(queue.post) \in Nat /\ Len(server[alice]) \in Nat
  BY AppParts, LenProperties DEF DeviceTypeOK, Queues
<1>5. Unsent \subseteq net /\ Reporters \subseteq DOMAIN writers
  BY DEF Unsent, Posts, Reporters
<1>6. IsFiniteSet(Unsent) /\ IsFiniteSet(Reporters)
  BY <1>1, <1>3, <1>5, FS_Subset
<1> QED
  BY <1>3, <1>4, <1>6, FS_CardinalityType DEF Unlaunched

\* Every tap counts.
LEMMA TapsCount ==
  ASSUME AppInv, MCNext, posts \in Nat
  PROVE  posts' \in Nat /\ posts' >= posts /\ (Tapped # {} => posts' >= posts + 1)
<1> DEFINE W == {v \in DOMAIN writers \cap DOMAIN writers' : writers'[v].adds > writers[v].adds}
<1>1. IsFiniteSet(W)
  <2>1. Len(writers) \in Nat /\ DOMAIN writers = 1..Len(writers)
    BY AppParts, LenProperties DEF WritingTypeOK
  <2>2. IsFiniteSet(DOMAIN writers) /\ W \subseteq DOMAIN writers
    BY <2>1, FS_Interval
  <2> HIDE DEF W
  <2> QED
    BY <2>2, FS_Subset
<1>2. Tapped = {writers[w].text : w \in W}
  BY DEF Tapped
<1> HIDE DEF W
<1>3. IsFiniteSet(Tapped)
  <2> DEFINE f == [w \in W |-> writers[w].text]
  <2>1. f \in Surjection(W, Tapped)
    BY <1>2 DEF Surjection
  <2> QED
    BY <1>1, <2>1, FS_Surjection
<1>4. Cardinality(Tapped) \in Nat /\ (Cardinality(Tapped) = 0 <=> Tapped = {})
  BY <1>3, FS_CardinalityType, FS_EmptySet
<1>5. posts' = posts + Cardinality(Tapped)
  BY DEF MCNext
<1> QED
  BY <1>4, <1>5

\* The launch sends each note that waits once.
LEMMA LaunchSendsOnce ==
  ASSUME NotesInv, AppLaunch, alice \in Account
  PROVE  Cardinality(Unsent') <= Len(queue.post)
<1>0. AppInv /\ AppInv' /\ Len(queue.post) \in Nat
  BY CountsAreFinite, AppInvStays DEF NotesInv, AppNext
<1>1. /\ net = {} /\ postPendingUserNotes(queue)
  BY DEF AppLaunch, Launch, NotesInv, OnlyNotes, AppInv, LaunchInv, postDeletePendingData,
     postEditedPendingData
<1>2. CASE net' = {} \/ \E t : net' = net \cup {t} /\ t.op = "fetch"
  <2>1. Unsent' = {}
    BY <1>1, <1>2 DEF Unsent, Posts
  <2> QED
    BY <1>0, <2>1, FS_EmptySet
<1>3. CASE Drain("post", queue.post)
  <2>1. /\ group' = Len(queue.post)
        /\ \A r \in net' : r.by = "launch" /\ r.op = "post"
    BY <1>1, <1>3 DEF Drain, NewRequest
  <2>2. InFlight' = net'
    BY <2>1 DEF InFlight, Kind
  <2>3. Cardinality(net') = Len(queue.post)
    BY <1>0, <2>1, <2>2 DEF AppInv, LaunchInv, ChainOK, Barrier
  <2>4. IsFiniteSet(net') /\ Unsent' \subseteq net'
    BY <1>0 DEF Unsent, Posts, AppInv, LaunchInv, NetOK
  <2> QED
    BY <2>3, <2>4, FS_Subset
<1>4. \/ net' = net \/ \E t : net' = net \cup {t} /\ t.op = "fetch"
      \/ Drain("post", queue.post)
  <2>1. NewRequest("launch", 0, 1, "fetch", NoArg).op = "fetch"
    BY DEF NewRequest
  <2>2. \/ net' = net \/ net' = net \cup {NewRequest("launch", 0, 1, "fetch", NoArg)}
        \/ Drain("post", queue.post)
    BY <1>1 DEF postPendingUserNotes
  <2> QED
    BY <2>1, <2>2
<1> QED
  BY <1>1, <1>2, <1>3, <1>4

\* What leaves for the server, and what arrives, without a report or a launch.
LEMMA NothingMoreSent ==
  ASSUME NotesInv, alice \in Account, MCNext, ~disturbed', ~AppLaunch,
         \A w \in DOMAIN writers : ~reachabilityChanged(w)
  PROVE  Len(server'[alice]) + Cardinality(Unsent') <= Len(server[alice]) + Cardinality(Unsent)
<1>0. /\ AppInv /\ OneSession /\ [AppNext]_appVars /\ AppInv'
  BY AppInvStays DEF NotesInv, MCNext
<1>1. /\ IsFiniteSet(Unsent) /\ Cardinality(Unsent) \in Nat /\ Len(server[alice]) \in Nat
      /\ Cardinality(Unsent') \in Nat /\ Len(server'[alice]) \in Nat
  <2>1. IsFiniteSet(net') /\ Unsent' \subseteq net'
    BY <1>0 DEF Unsent, Posts, AppInv, LaunchInv, NetOK
  <2>2. Cardinality(Unsent') \in Nat
    BY <2>1, FS_Subset, FS_CardinalityType
  <2>3. server' \in [Account -> Seq(ServerNote)]
    BY <1>0 DEF AppInv, LaunchInv, DeviceTypeOK
  <2> QED
    BY <1>0, <2>2, <2>3, CountsAreFinite, LenProperties
<1>2. Unsent' \subseteq Unsent => Cardinality(Unsent') <= Cardinality(Unsent)
  BY <1>1, FS_Subset
<1>3. CASE server' = server /\ Unsent' \subseteq Unsent
  BY <1>1, <1>2, <1>3
<1>4. ASSUME Posts(net') \subseteq Posts(net) PROVE Unsent' \subseteq Unsent
  BY <1>4 DEF Unsent
<1>5. CASE Aside
  BY <1>3, <1>4, <1>5 DEF Aside, onTheWay
<1>6. CASE NotifyPosts
  BY <1>3, <1>4, <1>6 DEF NotifyPosts, remoteVars
<1>7. ASSUME NEW r \in net, PostEnds(r) PROVE server' = server /\ Unsent' \subseteq Unsent
  BY <1>4, <1>7 DEF PostEnds, Posts
<1>8. ASSUME NEW r \in net, ServerAddsNote(r)
      PROVE  Len(server'[alice]) + Cardinality(Unsent')
               <= Len(server[alice]) + Cardinality(Unsent)
  <2>1. r \in Unsent /\ Unsent' \subseteq Unsent \ {r}
    <3>1. PICK t : net' = (net \ {r}) \cup {t} /\ t.done
      BY <1>0, <1>8, AddEffect
    <3>2. r.op = "post" /\ ~r.done
      BY <1>0, <1>8, AddEffect
    <3> QED
      BY <3>1, <3>2 DEF Unsent, Posts
  <2>2. Cardinality(Unsent') + 1 <= Cardinality(Unsent)
    BY <1>1, <2>1, OneLess
  <2>3. Len(server'[alice]) <= Len(server[alice]) + 1
    <3> DEFINE note == [id |-> nextID, text |-> r.arg.text]
    <3>1. server' = [server EXCEPT ![r.owner] = Append(@, note)]
      BY <1>8 DEF ServerAddsNote
    <3>2. server \in [Account -> Seq(ServerNote)] /\ server[alice] \in Seq(ServerNote)
      BY <1>0, AppParts DEF DeviceTypeOK
    <3> HIDE DEF note
    <3>3. server'[alice] = server[alice] \/ server'[alice] = Append(server[alice], note)
      BY <3>1, <3>2
    <3>4. Len(Append(server[alice], note)) = Len(server[alice]) + 1
      BY <3>2
    <3> QED
      BY <1>1, <3>3, <3>4
  <2> QED
    BY <1>1, <2>2, <2>3
<1>9. CASE WritersGoOn
  BY <1>3, <1>4, <1>9 DEF WritersGoOn
<1>10. ASSUME NEW w \in DOMAIN writers, postBTNtapped(w), UNCHANGED chainVars
       PROVE  server' = server /\ Unsent' \subseteq Unsent
  BY <1>0, <1>4, <1>10, TapEffect
<1>11. ASSUME NEW r \in net, PostFails(r), UNCHANGED chainVars
       PROVE  server' = server /\ Unsent' \subseteq Unsent
  BY <1>0, <1>4, <1>11, FailEffect DEF Posts
<1>12. ASSUME NEW x \in Account, SignIn(x), UNCHANGED <<chainVars, writers>>
       PROVE  server' = server /\ Unsent' \subseteq Unsent
  BY <1>4, <1>12, SignInEffect
<1>13. ~AppKilled
  BY <1>0, Undisturbed DEF AppKilled, Spend
<1> QED
  BY <1>0, <1>3, <1>5, <1>6, <1>7, <1>8, <1>9, <1>10, <1>11, <1>12, <1>13, StepsOfWriting
     DEF NotesInv

\* A report that is still to come becomes one request, or a note in the queue.
LEMMA ReportSendsOnce ==
  ASSUME NotesInv, TapsOnce, alice \in Account, NEW w \in DOMAIN writers,
         reachabilityChanged(w)
  PROVE  server' = server /\ Cardinality(Unsent') <= Cardinality(Unsent) + 1
<1>1. AppInv /\ writers[w].observers <= 1 /\ writers[w].observers \in Nat
  BY AppParts, WriterType DEF NotesInv, TapsOnce, WritingVC
<1>2. 1..writers[w].observers \subseteq {1}
  BY <1>1
<1> DEFINE t == NewRequest("writing", w, Fresh("writing") + 1, "post", Sent(w))
<1>3. net' \subseteq net \cup {t}
  BY <1>2 DEF reachabilityChanged
<1> HIDE DEF t
<1>4. Unsent' \subseteq Unsent \cup {t}
  BY <1>3 DEF Unsent, Posts
<1>5. IsFiniteSet(Unsent)
  BY <1>1, CountsAreFinite
<1>6. server' = server
  BY DEF reachabilityChanged, remoteVars
<1> QED
  BY <1>4, <1>5, <1>6, OneMore

\* Without a launch no note of the queue is sent.
LEMMA UnlaunchedStays ==
  ASSUME NotesInv, MCNext, ~disturbed', alice \in Account
  PROVE  Unlaunched' <= Unlaunched /\ Unlaunched' \in Nat
<1>0. /\ AppInv /\ AppInv' /\ OneSession /\ [AppNext]_appVars
      /\ Len(queue.post) \in Nat /\ Len(queue'.post) \in Nat
  <2>1. AppInv /\ AppInv' /\ OneSession /\ [AppNext]_appVars
    BY AppInvStays DEF NotesInv, MCNext
  <2>2. queue' \in Queues
    BY <2>1 DEF AppInv, LaunchInv, DeviceTypeOK
  <2> QED
    BY <2>1, <2>2, CountsAreFinite, LenProperties DEF Queues
<1>1. ASSUME running \/ queue' = queue PROVE Unlaunched' <= Unlaunched /\ Unlaunched' \in Nat
  BY <1>0, <1>1, ProcessStays DEF Unlaunched
<1>2. net # {} \/ writers # <<>> \/ phase # "none" => running
  BY <1>0, AppParts DEF AppInv, LaunchInv
<1>3. CASE Aside
  BY <1>1, <1>3 DEF Aside, onTheWay
<1>4. CASE AppLaunch
  BY <1>1, <1>4, LaunchSends DEF NotesInv
<1>5. CASE NotifyPosts
  BY <1>1, <1>2, <1>5 DEF NotifyPosts
<1>6. CASE \E r \in net : TRUE
  BY <1>1, <1>2, <1>6
<1>7. CASE WritersGoOn
  BY <1>1, <1>7 DEF WritersGoOn
<1>8. CASE \E w \in DOMAIN writers : TRUE
  <2>1. writers # <<>>
    BY <1>8
  <2> QED
    BY <1>1, <1>2, <2>1
<1>9. ASSUME NEW x \in Account, SignIn(x), UNCHANGED <<chainVars, writers>> PROVE queue' = queue
  BY <1>9, SignInEffect
<1>10. CASE AppKilled
  BY <1>1, <1>10, KillEffect
<1> QED
  BY <1>0, <1>1, <1>3, <1>4, <1>5, <1>6, <1>7, <1>8, <1>9, <1>10, StepsOfWriting DEF NotesInv

\* A step sends no note that was sent before.
LEMMA SentOnceStays ==
  ASSUME OnceInv, alice \in Account, MCNext, ~disturbed'
  PROVE  TapsOnce' /\ SentOnce'
<1>0. /\ NotesInv /\ AppInv /\ AppInv' /\ TapsOnce /\ SentOnce /\ posts \in Nat
  BY AppInvStays, Undisturbed DEF OnceInv, NotesInv, MCNext
<1> DEFINE sent  == Len(server[alice])   sent2  == Len(server'[alice])
           way   == Cardinality(Unsent)  way2   == Cardinality(Unsent')
           about == Cardinality(Reporters)  about2 == Cardinality(Reporters')
<1>1. /\ sent \in Nat /\ way \in Nat /\ about \in Nat /\ Unlaunched \in Nat
      /\ IsFiniteSet(Reporters)
  BY <1>0, CountsAreFinite
<1>2. sent2 \in Nat /\ way2 \in Nat /\ about2 \in Nat
  <2>1. /\ IsFiniteSet(net') /\ Unsent' \subseteq net'
        /\ Len(writers') \in Nat /\ DOMAIN writers' = 1..Len(writers')
        /\ Reporters' \subseteq DOMAIN writers'
        /\ server' \in [Account -> Seq(ServerNote)]
    BY <1>0, LenProperties DEF Unsent, Posts, Reporters, AppInv, LaunchInv, NetOK, WritingTypeOK,
       DeviceTypeOK
  <2>2. IsFiniteSet(Unsent')
    BY <2>1, FS_Subset
  <2>3. IsFiniteSet(Reporters')
    <3>1. IsFiniteSet(DOMAIN writers')
      BY <2>1, FS_Interval
    <3> QED
      BY <2>1, <3>1, FS_Subset
  <2>4. way2 \in Nat /\ about2 \in Nat
    BY <2>2, <2>3, FS_CardinalityType
  <2>5. server'[alice] \in Seq(ServerNote)
    BY <2>1
  <2>6. sent2 \in Nat
    BY <2>5, LenProperties
  <2> QED
    BY <2>4, <2>6
<1>3. posts' \in Nat /\ posts' >= posts /\ (Tapped # {} => posts' >= posts + 1)
  BY <1>0, TapsCount
<1>4. TapsOnce'
  BY <1>0, TapsOnceStay
<1>5. about2 + posts <= about + posts'
  <2>1. CASE Reporters' \subseteq Reporters
    <3>1. about2 <= about
      BY <1>1, <2>1, FS_Subset
    <3> QED
      BY <1>0, <1>1, <1>2, <1>3, <3>1
  <2>2. ASSUME NEW w \in DOMAIN writers, postBTNtapped(w), Reporters' \subseteq Reporters \cup {w}
        PROVE  about2 + posts <= about + posts'
    <3>1. about2 <= about + 1
      BY <1>1, <2>2, OneMore
    <3>2. writers'[w].adds > writers[w].adds /\ w \in DOMAIN writers'
      <4>1. writers[w] \in WritingVC /\ \A n \in Nat : n + 1 > n
        BY <1>0, AppParts, WriterType
      <4>2. \E f : Update(w, f) /\ f.adds > writers[w].adds
        <5> DEFINE more == writers[w].adds + 1
        <5>1. more > writers[w].adds
          BY <4>1 DEF WritingVC
        <5>2. CASE TapQueues(w)
          <6>1. Update(w, [writers[w] EXCEPT !.adds = more])
            BY <5>2 DEF TapQueues
          <6>2. [writers[w] EXCEPT !.adds = more].adds = more
            BY <4>1 DEF WritingVC
          <6> QED
            BY <5>1, <6>1, <6>2
        <5>3. ASSUME NEW starts, TapStarts(w, starts)
              PROVE  \E f : Update(w, f) /\ f.adds > writers[w].adds
          <6> DEFINE more2 == writers[w].observers + 1
                     soon == IF starts /\ ~writers[w].notifies THEN writers[w].due + 1
                                                               ELSE writers[w].due
                     f == [writers[w] EXCEPT !.adds = more, !.observers = more2,
                                             !.notifies = starts, !.due = soon]
          <6>1. Update(w, f)
            BY <5>3 DEF TapStarts
          <6> HIDE DEF more, more2, soon
          <6>2. f.adds = more
            BY <4>1 DEF WritingVC
          <6> HIDE DEF f
          <6> QED
            BY <5>1, <6>1, <6>2
        <5> QED
          BY <2>2, <5>2, <5>3 DEF postBTNtapped
      <4> QED
        BY <4>2 DEF Update
    <3>3. Tapped # {}
      BY <3>2 DEF Tapped
    <3> QED
      BY <1>0, <1>1, <1>2, <1>3, <3>1, <3>3
  <2> QED
    BY <1>0, <2>1, <2>2, TapsOnceStay
<1>6. Unlaunched' <= Unlaunched /\ Unlaunched' \in Nat
  BY <1>0, UnlaunchedStays
<1> DEFINE ahead == Unlaunched  ahead2 == Unlaunched'
<1>7. \/ sent2 + way2 <= sent + way /\ about2 + posts <= about + posts' /\ ahead2 <= ahead
      \/ sent2 = sent /\ way2 <= way + 1 /\ about2 + 1 <= about /\ ahead2 <= ahead
      \/ sent2 = sent /\ way2 <= ahead /\ about2 = about /\ ahead2 = 0
  <2>1. CASE AppLaunch
    <3>1. UNCHANGED <<server, writers, queue>> /\ ~running /\ running'
      BY <1>0, <2>1, LaunchSends DEF AppLaunch, Launch, NotesInv
    <3>2. sent2 = sent /\ about2 = about /\ ahead = Len(queue.post) /\ ahead2 = 0
      BY <3>1 DEF Reporters, Unlaunched
    <3>3. way2 <= Len(queue.post)
      BY <1>0, <2>1, LaunchSendsOnce
    <3> QED
      BY <3>2, <3>3
  <2>2. ASSUME NEW w \in DOMAIN writers, reachabilityChanged(w)
        PROVE  sent2 = sent /\ way2 <= way + 1 /\ about2 + 1 <= about
    <3>1. sent2 = sent /\ way2 <= way + 1
      BY <1>0, <2>2, ReportSendsOnce
    <3>2. w \in Reporters /\ Reporters' \subseteq Reporters \ {w}
      BY <1>0, <2>2, TapsOnceStay
    <3>3. about2 + 1 <= about
      BY <1>1, <3>2, OneLess
    <3> QED
      BY <3>1, <3>3
  <2>3. CASE ~AppLaunch /\ \A w \in DOMAIN writers : ~reachabilityChanged(w)
    <3>1. sent2 + way2 <= sent + way
      BY <1>0, <2>3, NothingMoreSent
    <3> QED
      BY <1>5, <1>6, <3>1
  <2> HIDE DEF sent, sent2, way, way2, about, about2
  <2> QED
    BY <1>6, <2>1, <2>2, <2>3
<1>8. SentOnce'
  <2>1. sent + way + about + ahead <= posts
    BY <1>0 DEF SentOnce
  <2>2. ahead \in Nat /\ ahead2 \in Nat
    BY <1>1, <1>6
  <2> DEFINE n == posts  n2 == posts'
  <2>3. n \in Nat /\ n2 \in Nat /\ n <= n2
    BY <1>0, <1>3
  <2>4. \/ sent2 + way2 <= sent + way /\ about2 + n <= about + n2 /\ ahead2 <= ahead
        \/ sent2 = sent /\ way2 <= way + 1 /\ about2 + 1 <= about /\ ahead2 <= ahead
        \/ sent2 = sent /\ way2 <= ahead /\ about2 = about /\ ahead2 = 0
    BY <1>7
  <2>5. sent + way + about + ahead <= n
    BY <2>1
  <2> HIDE DEF sent, sent2, way, way2, about, about2, ahead, ahead2, n, n2
  <2>6. sent2 + way2 + about2 + ahead2 <= n2
    BY <1>1, <1>2, <2>2, <2>3, <2>4, <2>5
  <2> QED
    BY <2>6 DEF SentOnce, sent2, way2, about2, ahead2, n2
<1> QED
  BY <1>4, <1>8

\* A note posted, or waiting since an earlier launch, is sent once, unless the
\* connection changes, a call fails, an answer is garbled, the app is killed or
\* Post is tapped twice: two WritingVCs, and a WritingVC and the launch, never
\* send the same note (WritingVC.postBTNtapped and reachabilityChanged,
\* AppDelegate.postPendingUserNotes).
THEOREM NotesSentOnce ==
  ASSUME alice \in Account
  PROVE  AppInit /\ NoHistory /\ OnlyNotesWait /\ server[alice] = <<>> /\ [][MCNext]_MCVars
           => []NoCauselessDuplicate
<1>1. ASSUME AppInit, NoHistory, OnlyNotesWait, server[alice] = <<>> PROVE OnceInv
  <2>1. /\ net = {} /\ phase = "none" /\ writers = <<>> /\ editor = NoEditor /\ screen = "off"
        /\ OnlyWrites /\ queue.delete = <<>> /\ queue.edit = <<>> /\ ~running
    BY <1>1 DEF AppInit, Init, HomeInit, WritingInit, EditInit, OnlyNotesWait
  <2>2. NotesInv
    BY <1>1, <2>1, AppInitIsOK DEF NotesInv, OnlyNotes, OneSession, StillQueued, AnswersStored,
       OwnTexts, WritersApart, Posts
  <2>3. Unsent = {} /\ Reporters = {} /\ TapsOnce
    BY <2>1 DEF Unsent, Posts, Reporters, TapsOnce
  <2>4. Len(server[alice]) = 0 /\ Unlaunched = Len(queue.post) /\ Cardinality({}) = 0
    BY <1>1, <2>1, FS_EmptySet DEF Unlaunched
  <2>5. posts = Len(queue.post) /\ posts \in Nat
    BY <1>1, <2>2, CountsAreFinite DEF NoHistory, NotesInv
  <2> QED
    BY <2>2, <2>3, <2>4, <2>5 DEF OnceInv, SentOnce
<1>2. ASSUME OnceInv, MCNext PROVE OnceInv'
  <2>1. NotesInv'
    BY <1>2, NotesInvStays DEF OnceInv, MCNext
  <2>2. posts' \in Nat
    BY <1>2, TapsCount DEF OnceInv, NotesInv
  <2> QED
    BY <1>2, <2>1, <2>2, SentOnceStays DEF OnceInv
<1>3. ASSUME OnceInv, UNCHANGED MCVars PROVE OnceInv'
  <2>1. UNCHANGED appVars /\ UNCHANGED <<disturbed, posts>>
    BY <1>3 DEF MCVars, historyVars
  <2>2. NotesInv'
    BY <1>3, <2>1, NotesInvStays DEF OnceInv
  <2>3. UNCHANGED <<writers, server, queue, net, running>>
    BY <2>1 DEF appVars, deviceVars, storeVars, remoteVars, screenVars
  <2> QED
    BY <1>3, <2>1, <2>2, <2>3 DEF OnceInv, TapsOnce, SentOnce, Unsent, Posts, Reporters, Unlaunched
<1>4. OnceInv => NoCauselessDuplicate
  <2>1. ASSUME OnceInv, ~disturbed
        PROVE  Len(server[alice]) + Cardinality({r \in net : r.op = "post" /\ ~r.done}) <= posts
    <3>1. /\ Cardinality(Unsent) \in Nat /\ Cardinality(Reporters) \in Nat
          /\ Unlaunched \in Nat /\ Len(server[alice]) \in Nat
      BY <2>1, CountsAreFinite DEF OnceInv, NotesInv
    <3>2. Unsent = {r \in net : r.op = "post" /\ ~r.done}
      BY DEF Unsent, Posts
    <3> DEFINE about == Cardinality(Reporters)  ahead == Unlaunched
               sent == Len(server[alice])  way == Cardinality(Unsent)
    <3>3. sent + way + about + ahead <= posts /\ posts \in Nat
      BY <2>1 DEF OnceInv, SentOnce
    <3> HIDE DEF about, ahead, sent, way
    <3>4. sent + way <= posts
      BY <3>1, <3>3 DEF about, ahead, sent, way
    <3> QED
      BY <3>2, <3>4 DEF sent, way
  <2> QED
    BY <2>1 DEF NoCauselessDuplicate
<1>5. OnceInv /\ [MCNext]_MCVars => OnceInv'
  BY <1>2, <1>3
<1> QED
  BY <1>1, <1>4, <1>5, PTL

---------------------------------------------------------------------------
(* Rows and the ids they are given.                                        *)

\* A row whose id is a note's on the server has that note's text.
Named(rows) ==
  \A i \in DOMAIN rows : OnServer(rows[i].noteID) => TextOnServer(rows[i].noteID, rows[i].text)

\* What an answer says of a note is what the server keeps of it.
AnswersTrue ==
  \A r \in net : /\ r.op = "post" /\ r.done => TextOnServer(r.id, r.arg.text)
                 /\ \A i \in DOMAIN r.rows : TextOnServer(r.rows[i].id, r.rows[i].text)

\* Post is tapped on an open sheet, and the sheet closes as the row is added.
OpenUntapped == \A w \in DOMAIN writers : writers[w].open /\ writers[w].notifies
                                            => writers[w].adds > 0

\* The WritingVC at work whose row is added is that of the last row.
LastIsTheirs ==
  \A w \in DOMAIN writers :
    w \in AtWork /\ writers[w].adds = 0
      => notes # <<>> /\ notes[Len(notes)].text = writers[w].text

OneAtWork == \A v, w \in AtWork : v = w

NamesInv ==
  /\ NotesInv /\ DeletionInv /\ NobodySignsIn
  /\ AnswersTrue /\ OpenUntapped
  /\ ~overlapped => OneAtWork /\ LastIsTheirs /\ Named(notes)

\* Only new notes change what the server holds.
LEMMA OnlyPostsReachServer ==
  ASSUME NotesInv, [AppNext]_appVars
  PROVE  server' = server \/ \E r \in net : ServerAddsNote(r)
<1>0. AppInv /\ OneSession /\ OnlyWrites /\ OnlyNotes
  BY DEF NotesInv
<1>1. Aside \/ NotifyPosts \/ (\E r \in net : PostEnds(r)) \/ WritersGoOn => server' = server
  BY DEF Aside, onTheWay, NotifyPosts, remoteVars, PostEnds, WritersGoOn
<1>2. AppLaunch \/ AppKilled => server' = server
  BY <1>0, LaunchSends, KillEffect
<1>3. ASSUME NEW w \in DOMAIN writers, postBTNtapped(w) \/ reachabilityChanged(w),
             UNCHANGED chainVars
      PROVE  server' = server
  BY <1>0, <1>3, TapEffect, ReportEffect
<1>4. ASSUME NEW r \in net, PostFails(r), UNCHANGED chainVars PROVE server' = server
  BY <1>0, <1>4, FailEffect
<1>5. ASSUME NEW x \in Account, SignIn(x), UNCHANGED <<chainVars, writers>> PROVE server' = server
  BY <1>5, SignInEffect
<1> QED
  BY <1>0, <1>1, <1>2, <1>3, <1>4, <1>5, StepsOfWriting

\* A note the server holds it goes on holding, and a new one has a new id.
LEMMA NotesStayOnServer ==
  ASSUME NotesInv, NotesApart, [AppNext]_appVars
  PROVE  /\ \A m, text : TextOnServer(m, text) => TextOnServer(m, text)'
         /\ \A m : OnServer(m)' => OnServer(m) \/ m = nextID
<1>1. CASE server' = server
  BY <1>1 DEF TextOnServer, OnServer
<1>2. ASSUME NEW r \in net, ServerAddsNote(r)
      PROVE  /\ \A m, text : TextOnServer(m, text) => TextOnServer(m, text)'
             /\ \A m : OnServer(m)' => OnServer(m) \/ m = nextID
  <2>1. DeviceTypeOK
    BY AppParts DEF NotesInv
  <2>2. /\ \A x \in Account : \A i \in DOMAIN server[x] :
             i \in DOMAIN server'[x] /\ server'[x][i] = server[x][i]
        /\ \A m : OnServer(m)' => OnServer(m) \/ m = nextID
    BY <1>2, <2>1, NoteAdded
  <2> QED
    BY <2>2 DEF TextOnServer
<1> QED
  BY <1>1, <1>2, OnlyPostsReachServer

\* An answer is true when it is given, and stays true.
LEMMA AnswersTrueStay ==
  ASSUME NotesInv, DeletionInv, AnswersTrue, AppNext
  PROVE  AnswersTrue'
<1>0. /\ AppInv /\ NobodySignsOut /\ NotesApart /\ DeviceTypeOK /\ [AppNext]_appVars
      /\ \A r \in net : r \in Request
  BY AppParts DEF NotesInv, DeletionInv, NetOK
<1>1. \A m, text : TextOnServer(m, text) => TextOnServer(m, text)'
  BY <1>0, NotesStayOnServer
<1>2. ASSUME NEW t \in net', t \in net
      PROVE  /\ t.op = "post" /\ t.done => TextOnServer(t.id, t.arg.text)'
             /\ \A i \in DOMAIN t.rows : TextOnServer(t.rows[i].id, t.rows[i].text)'
  BY <1>1, <1>2 DEF AnswersTrue
<1>3. ASSUME NEW t \in net', t \notin net, AppServer
      PROVE  /\ t.op = "post" /\ t.done => TextOnServer(t.id, t.arg.text)'
             /\ \A i \in DOMAIN t.rows : TextOnServer(t.rows[i].id, t.rows[i].text)'
  <2>1. t.rows = <<>> \/ \E x \in Account : t.rows = server[x]
    BY <1>0, <1>3, AnswerLists
  <2>2. \A i \in DOMAIN t.rows : TextOnServer(t.rows[i].id, t.rows[i].text)
    <3>1. ASSUME NEW x \in Account, NEW i \in DOMAIN server[x]
          PROVE  TextOnServer(server[x][i].id, server[x][i].text)
      <4>1. server[x] \in Seq(ServerNote)
        BY <1>0 DEF DeviceTypeOK
      <4>2. server[x][i] \in ServerNote
        BY <4>1, LenProperties
      <4>3. server[x][i] = [id |-> server[x][i].id, text |-> server[x][i].text]
        BY <4>2 DEF ServerNote
      <4> QED
        BY <4>3 DEF TextOnServer
    <3> QED
      BY <2>1, <3>1
  <2>3. ASSUME t.op = "post" PROVE TextOnServer(t.id, t.arg.text)'
    <3>1. PICK r \in net : \/ ServerAddsNote(r) \/ ServerEditsNote(r) \/ ServerDeletesNote(r)
                           \/ ServerListsNotes(r) \/ ServerDeletesUser(r) \/ ServerRegisters(r)
      BY <1>3 DEF AppServer, ServerStep
    <3>2. \A id, rows : Answer(r, id, rows)
            => /\ t.op = r.op /\ t.arg = r.arg /\ t.id = id
      <4>1. r \in Request
        BY <1>0
      <4> TAKE id, rows
      <4> HAVE Answer(r, id, rows)
      <4>2. t = [r EXCEPT !.done = TRUE, !.id = id, !.rows = rows]
        BY <1>3 DEF Answer
      <4> QED
        BY <4>1, <4>2 DEF Request
    <3>3. ServerAddsNote(r)
      BY <2>3, <3>1, <3>2 DEF ServerEditsNote, ServerDeletesNote, ServerListsNotes,
         ServerDeletesUser, ServerRegisters, Reaches
    <3>4. t.arg = r.arg /\ t.id = nextID /\ r.op = "post"
      BY <3>2, <3>3 DEF ServerAddsNote, Reaches
    <3>5. r.owner \in Account
      BY <1>0, <3>4 DEF NotesInv, OneSession, Posts, DeviceTypeOK
    <3>6. \E i \in DOMAIN server'[r.owner] :
            server'[r.owner][i] = [id |-> nextID, text |-> r.arg.text]
      BY <1>0, <3>3, <3>5, NoteAdded
    <3> QED
      BY <3>4, <3>5, <3>6 DEF TextOnServer
  <2> QED
    BY <1>1, <2>2, <2>3
<1> QED
  BY <1>0, <1>2, <1>3, RequestsOfStep DEF AnswersTrue

\* As long as the senders have not overlapped one is at work, and the answer
\* of the step comes after the row was added.
LEMMA OneAtWorkWhenApart ==
  ASSUME AppInv', MCNext, ~overlapped'
  PROVE  OneAtWork' /\ ~overlapped /\ ~AnsweredEarly
<1>1. Len(writers') \in Nat /\ DOMAIN writers' = 1..Len(writers')
  BY LenProperties DEF AppInv, WritingTypeOK
<1>2. IsFiniteSet((DOMAIN writers') \cup {0})
  <2>1. IsFiniteSet(DOMAIN writers')
    BY <1>1, FS_Interval
  <2> QED
    BY <2>1, FS_AddElement
<1>3. AtWork' \subseteq (DOMAIN writers') \cup {0}
  BY DEF AtWork
<1>4. IsFiniteSet(AtWork') /\ Cardinality(AtWork') \in Nat
  BY <1>2, <1>3, FS_Subset, FS_CardinalityType
<1>5. ~(Cardinality(AtWork') > 1) /\ ~overlapped /\ ~AnsweredEarly
  BY DEF MCNext
<1>6. ASSUME NEW v \in AtWork', NEW w \in AtWork', v # w PROVE FALSE
  <2>1. /\ Cardinality(AtWork' \ {v}) = Cardinality(AtWork') - 1
        /\ IsFiniteSet(AtWork' \ {v})
    BY <1>4, FS_RemoveElement
  <2>2. /\ Cardinality((AtWork' \ {v}) \ {w}) = Cardinality(AtWork' \ {v}) - 1
        /\ IsFiniteSet((AtWork' \ {v}) \ {w})
    BY <1>6, <2>1, FS_RemoveElement
  <2>3. Cardinality((AtWork' \ {v}) \ {w}) \in Nat
    BY <2>2, FS_CardinalityType
  <2> QED
    BY <1>4, <1>5, <2>1, <2>2, <2>3
<1> QED
  BY <1>5, <1>6 DEF OneAtWork

\* A WritingVC has requests under way that it had before, or sends them now.
LEMMA WhoSends ==
  ASSUME NotesInv, AppNext, NEW t \in net', t.by = "writing"
  PROVE  \/ \E r \in net : r.by = "writing" /\ r.who = t.who
         \/ reachabilityChanged(t.who)
<1>1. CASE AppLaunch
  BY <1>1, ChainSends DEF AppLaunch, Launch
<1>2. CASE AppChain
  <2>1. \/ \E q : postEditedPendingData(q) \/ postPendingUserNotes(q)
        \/ net' \subseteq net
    BY <1>2 DEF AppChain, LaunchStep, Notify, NotifyDeletes, NotifyEdits, NotifyPosts,
       LaunchRequestSucceeds, LaunchRequestFails, FetchSucceeds, FetchFails
  <2> QED
    BY <2>1, ChainSends
<1>3. CASE AppServer
  <2>1. PICK r \in net : \E id, rows : Answer(r, id, rows)
    BY <1>3 DEF AppServer, ServerStep, ServerAddsNote, ServerEditsNote, ServerDeletesNote,
       ServerListsNotes, ServerDeletesUser, ServerRegisters
  <2>0. PICK id, rows : Answer(r, id, rows)
    BY <2>1
  <2>2. t \in net \/ t = [r EXCEPT !.done = TRUE, !.id = id, !.rows = rows]
    BY <2>0 DEF Answer
  <2>3. r \in Request
    BY AppParts DEF NotesInv, NetOK
  <2>4. t \in net \/ (t.by = r.by /\ t.who = r.who)
    BY <2>2, <2>3 DEF Request
  <2> QED
    BY <2>1, <2>4
<1>4. CASE AppHome
  <2>1. net' = net
    BY <1>4 DEF NotesInv, OnlyWrites, OnlyNotes, AppHome, HomeStep, HomeAppears, deleteItemAt,
       DeleteCancelled, DeleteRefused, DeleteConfirmed, CloseAlert, Touched, DeleteAnswered,
       DeleteFails, HomeRequest, deviceVars
  <2> QED
    BY <2>1
<1>5. CASE AppWriting
  <2>1. \/ net' \subseteq net \/ \E w : reachabilityChanged(w)
    BY <1>5 DEF AppWriting, WritingStep, OpenWriting, closeBTNtapped, postBTNtapped, addNote,
       PostAnswered, PostGarbled, PostFails, deviceVars
  <2>2. ASSUME NEW w, reachabilityChanged(w), t \notin net PROVE t.who = w
    BY <2>2 DEF reachabilityChanged, NewRequest
  <2> QED
    BY <2>1, <2>2
<1>6. CASE AppEdit
  <2>1. \/ net' \subseteq net
        \/ \E arg : net' = net \cup {NewRequest("editing", 1, Fresh("editing"), "edit", arg)}
    BY <1>6 DEF AppEdit, EditStep, editItemAt, editCloseTapped, editPostTapped,
       editReachabilityChanged, EditDismissed, EditAnswered, deviceVars
  <2> QED
    BY <2>1 DEF NewRequest
<1>7. CASE AppSession
  <2>1. \A S : SpendAll(S) => "signOut" \notin S
    BY DEF NotesInv, OnlyWrites, SpendAll
  <2>2. \/ net' \subseteq net
        \/ \E x \in Account : SignIn(x)
        \/ \E r \in net : Registered(r)
    BY <1>7, <2>1 DEF AppSession, SessionStep, SignUpBack, SignUpFetched, SignUpFails,
       AccountDeleted, AccountDeletionFails, handleLogout, deleteUserData, deviceVars, Spend
  <2>3. ASSUME NEW x \in Account, SignIn(x), t \notin net PROVE FALSE
    BY <2>3 DEF SignIn, NewRequest
  <2>4. ASSUME NEW r \in net, Registered(r), t \notin net PROVE FALSE
    BY <2>4 DEF Registered, NewRequest
  <2> QED
    BY <2>2, <2>3, <2>4
<1>8. CASE AppTraps \/ AppKilled \/ AppFlip
  BY <1>8 DEF AppTraps, AppKilled, AllEnds, ProcessEnds, AppFlip, NetworkChanges
<1> QED
  BY <1>1, <1>2, <1>3, <1>4, <1>5, <1>6, <1>7, <1>8 DEF AppNext

\* What a step leaves of the WritingVCs: only a tap starts a notifier, and
\* closes nothing; who is at work without a row to add was so before, or has
\* just added it.
LEMMA WorkersStay ==
  ASSUME NotesInv, NobodySignsOut, OpenUntapped, AppNext
  PROVE  /\ OpenUntapped'
         /\ \A w \in DOMAIN writers' :
              w \in AtWork' /\ writers'[w].adds = 0
                => /\ w \in DOMAIN writers /\ w \in AtWork
                   /\ writers'[w].text = writers[w].text
                   /\ writers[w].adds = 0 \/ addNote(w)
<1>0. /\ AppInv /\ WritingTypeOK /\ \A w \in DOMAIN writers : writers[w] \in WritingVC
      /\ 0 \notin DOMAIN writers
      /\ \A r \in net : r.by = "writing" => r.who \in DOMAIN writers
  BY AppParts, WriterType, LenProperties DEF NotesInv, Callbacks, WritingTypeOK
<1> DEFINE Calls(w, t) == \E r \in t : r.by = "writing" /\ r.who = w
           At(v, w, t) == v.adds > 0 \/ v.due > 0 \/ Calls(w, t)
           Was(u, w) == /\ u.text = writers[w].text
                        /\ u.open /\ u.notifies => u.adds > 0
                        /\ At(u, w, net') /\ u.adds = 0
                             => /\ At(writers[w], w, net)
                                /\ writers[w].adds = 0 \/ addNote(w)
<1>1. \A w \in DOMAIN writers' : w # 0 => (w \in AtWork' <=> At(writers'[w], w, net'))
  BY DEF AtWork
<1>2. \A w \in DOMAIN writers : w \in AtWork <=> At(writers[w], w, net)
  BY <1>0 DEF AtWork
<1>3. \A w \in DOMAIN writers : Calls(w, net') => At(writers[w], w, net)
  <2>1. \A w : reachabilityChanged(w) => writers[w].due > 0
    BY DEF reachabilityChanged
  <2> QED
    BY <2>1, WhoSends
<1>4. ASSUME DOMAIN writers' \subseteq DOMAIN writers,
             \A w \in DOMAIN writers' : Was(writers'[w], w)
      PROVE  /\ OpenUntapped'
             /\ \A w \in DOMAIN writers' :
                  w \in AtWork' /\ writers'[w].adds = 0
                    => /\ w \in DOMAIN writers /\ w \in AtWork
                       /\ writers'[w].text = writers[w].text
                       /\ writers[w].adds = 0 \/ addNote(w)
  <2>1. OpenUntapped'
    BY <1>4 DEF OpenUntapped
  <2>2. \A w \in DOMAIN writers' : w # 0 /\ w \in DOMAIN writers
    BY <1>0, <1>4
  <2> HIDE DEF At
  <2> QED
    BY <1>1, <1>2, <1>4, <2>1, <2>2
<1>5. \A w \in DOMAIN writers : Was(writers[w], w)
  BY <1>0, <1>3 DEF OpenUntapped
<1>6. ASSUME NEW w \in DOMAIN writers, NEW f, Update(w, f), Was(f, w)
      PROVE  /\ DOMAIN writers' \subseteq DOMAIN writers
             /\ \A v \in DOMAIN writers' : Was(writers'[v], v)
  <2>1. /\ DOMAIN writers' = DOMAIN writers /\ writers'[w] = f
        /\ \A v \in DOMAIN writers : v # w => writers'[v] = writers[v]
    BY <1>6 DEF Update
  <2> HIDE DEF Was
  <2> QED
    BY <1>5, <1>6, <2>1
<1>7. ASSUME NEW text \in Text, OpenWriting(text)
      PROVE  /\ OpenUntapped'
             /\ \A w \in DOMAIN writers' :
                  w \in AtWork' /\ writers'[w].adds = 0
                    => /\ w \in DOMAIN writers /\ w \in AtWork
                       /\ writers'[w].text = writers[w].text
                       /\ writers[w].adds = 0 \/ addNote(w)
  <2> DEFINE v == [text |-> text, open |-> TRUE, adds |-> 0, observers |-> 0,
                   notifies |-> FALSE, due |-> 0]
  <2>1. writers' = Append(writers, v) /\ net' = net
    BY <1>7 DEF OpenWriting
  <2>2. v.adds = 0 /\ v.due = 0 /\ ~v.notifies
    OBVIOUS
  <2> HIDE DEF v
  <2>3. /\ \A w \in DOMAIN writers : w \in DOMAIN writers' /\ writers'[w] = writers[w]
        /\ \A w \in DOMAIN writers' \ DOMAIN writers : writers'[w] = v
    BY <1>0, <2>1, AppendedWriter DEF WritingTypeOK
  <2>4. OpenUntapped'
    BY <2>2, <2>3 DEF OpenUntapped
  <2>5. 0 \notin DOMAIN writers'
    BY <1>0, <2>1, LenProperties DEF WritingTypeOK
  <2>6. \A w \in DOMAIN writers' \ DOMAIN writers : w \notin AtWork'
    BY <1>0, <1>1, <2>1, <2>2, <2>3, <2>5
  <2>7. ASSUME NEW w \in DOMAIN writers, w \in AtWork', writers'[w].adds = 0
        PROVE  /\ w \in AtWork /\ writers'[w].text = writers[w].text /\ writers[w].adds = 0
    BY <1>0, <1>1, <1>2, <2>1, <2>3, <2>7
  <2> QED
    BY <2>4, <2>6, <2>7
<1>8. ASSUME NEW w \in DOMAIN writers, closeBTNtapped(w)
      PROVE  \E f : Update(w, f) /\ Was(f, w)
  <2> DEFINE f == [writers[w] EXCEPT !.open = FALSE]
  <2>1. Update(w, f)
    BY <1>8 DEF closeBTNtapped
  <2>2. /\ f.text = writers[w].text /\ ~f.open /\ f.adds = writers[w].adds
        /\ f.due = writers[w].due
    BY <1>0 DEF WritingVC
  <2> HIDE DEF f
  <2>3. Was(f, w)
    BY <1>3, <2>2
  <2> QED
    BY <2>1, <2>3
<1>9. ASSUME NEW w \in DOMAIN writers, addNote(w)
      PROVE  \E f : Update(w, f) /\ Was(f, w)
  <2> DEFINE fewer == writers[w].adds - 1
             f == [writers[w] EXCEPT !.adds = fewer, !.open = FALSE]
  <2>1. Update(w, f) /\ writers[w].adds > 0
    BY <1>9 DEF addNote
  <2>2. f.text = writers[w].text /\ ~f.open
    BY <1>0 DEF WritingVC
  <2> HIDE DEF f
  <2>3. Was(f, w)
    BY <1>9, <2>1, <2>2
  <2> QED
    BY <2>1, <2>3
<1>10. ASSUME NEW w \in DOMAIN writers, reachabilityChanged(w)
       PROVE  \E f : Update(w, f) /\ Was(f, w)
  <2> DEFINE later == writers[w].due - 1
             f == [writers[w] EXCEPT !.due = later]
  <2>1. Update(w, f) /\ writers[w].due > 0
    BY <1>10 DEF reachabilityChanged
  <2>2. /\ f.text = writers[w].text /\ f.open = writers[w].open
        /\ f.adds = writers[w].adds /\ f.notifies = writers[w].notifies
    BY <1>0 DEF WritingVC
  <2> HIDE DEF f
  <2>3. Was(f, w)
    BY <2>1, <2>2 DEF OpenUntapped
  <2> QED
    BY <2>1, <2>3
<1>11. ASSUME NEW w \in DOMAIN writers, postBTNtapped(w)
       PROVE  \E f : Update(w, f) /\ Was(f, w)
  <2> DEFINE more == writers[w].adds + 1
  <2>1. \E f : Update(w, f) /\ f.text = writers[w].text /\ f.adds = more
    <3>1. CASE TapQueues(w)
      <4> HIDE DEF more
      <4> DEFINE f == [writers[w] EXCEPT !.adds = more]
      <4>1. Update(w, f)
        BY <3>1 DEF TapQueues, more
      <4>2. f.text = writers[w].text /\ f.adds = more
        BY <1>0 DEF WritingVC
      <4> HIDE DEF f
      <4> QED
        BY <4>1, <4>2
    <3>2. ASSUME NEW starts, TapStarts(w, starts)
          PROVE  \E f : Update(w, f) /\ f.text = writers[w].text /\ f.adds = more
      <4> DEFINE more2 == writers[w].observers + 1
                 soon == IF starts /\ ~writers[w].notifies THEN writers[w].due + 1
                                                           ELSE writers[w].due
      <4> HIDE DEF more
      <4> DEFINE f == [writers[w] EXCEPT !.adds = more, !.observers = more2,
                                         !.notifies = starts, !.due = soon]
      <4>1. Update(w, f)
        BY <3>2 DEF TapStarts, more
      <4> HIDE DEF more2, soon
      <4>2. f.text = writers[w].text /\ f.adds = more
        BY <1>0 DEF WritingVC
      <4> HIDE DEF f
      <4> QED
        BY <4>1, <4>2
    <3> QED
      BY <1>11, <3>1, <3>2 DEF postBTNtapped
  <2>2. more > 0
    BY <1>0 DEF WritingVC
  <2> HIDE DEF more
  <2> QED
    BY <2>1, <2>2
<1>12. ASSUME AppFlip
       PROVE  /\ DOMAIN writers' \subseteq DOMAIN writers
              /\ \A w \in DOMAIN writers' : Was(writers'[w], w)
  <2>1. /\ DOMAIN writers' = DOMAIN writers /\ net' = net
        /\ \A w \in DOMAIN writers :
             \/ writers'[w] = writers[w]
             \/ /\ Alive(w) /\ writers[w].notifies
                /\ writers'[w] = [writers[w] EXCEPT !.due = @ + 1]
    BY <1>12 DEF AppFlip, NetworkChanges, ReportToWriters
  <2>2. ASSUME NEW w \in DOMAIN writers, Alive(w), writers[w].notifies,
               writers'[w] = [writers[w] EXCEPT !.due = @ + 1]
        PROVE  Was(writers'[w], w)
    <3> DEFINE more == writers[w].due + 1
    <3>1. writers'[w] = [writers[w] EXCEPT !.due = more]
      BY <2>2
    <3> HIDE DEF more
    <3>2. /\ writers'[w].text = writers[w].text /\ writers'[w].open = writers[w].open
          /\ writers'[w].adds = writers[w].adds /\ writers'[w].notifies = writers[w].notifies
      BY <1>0, <3>1 DEF WritingVC
    <3>3. At(writers[w], w, net)
      BY <2>2 DEF Alive, OpenUntapped
    <3> QED
      BY <3>2, <3>3 DEF OpenUntapped
  <2> QED
    BY <1>5, <2>1, <2>2
<1>13. CASE AppKilled
  BY <1>13 DEF AppKilled, AllEnds, OpenUntapped
<1>14. CASE writers' = writers
  BY <1>4, <1>5, <1>14
<1> HIDE DEF Was
<1> QED
  BY <1>4, <1>6, <1>7, <1>8, <1>9, <1>10, <1>11, <1>12, <1>13, <1>14, WritersStep

\* A row written with a note's text and id is named.
LEMMA EditedNamed ==
  ASSUME NEW rows \in Seq(UserEntity), NEW obj, NEW text, NEW id, Named(rows),
         TextOnServer(id, text)
  PROVE  Named(editUserContext(rows, obj, text, id))
<1> DEFINE t == editUserContext(rows, obj, text, id)
<1>1. \A i \in DOMAIN rows : rows[i] \in UserEntity
  BY LenProperties
<1>2. /\ DOMAIN t = DOMAIN rows
      /\ \A i \in DOMAIN rows :
           t[i] = IF rows[i].obj = obj THEN [rows[i] EXCEPT !.text = text, !.noteID = id]
                                       ELSE rows[i]
  BY DEF editUserContext
<1> HIDE DEF t
<1>3. \A i \in DOMAIN rows : t[i] = rows[i] \/ (t[i].noteID = id /\ t[i].text = text)
  BY <1>1, <1>2 DEF UserEntity
<1>4. Named(t)
  BY <1>2, <1>3 DEF Named
<1> QED
  BY <1>4 DEF t

\* Rows that come or take their ids from a true answer are named.
LEMMA SyncedNamed ==
  ASSUME NEW rows \in Seq(UserEntity), NEW response \in Seq(ServerNote), NEW first, Named(rows),
         \A i \in DOMAIN response : TextOnServer(response[i].id, response[i].text)
  PROVE  Named(syncLocalWithServer(rows, response, first))
<1>1. Named(ResponseRows(response, first))
  BY DEF Named, ResponseRows, NewRow
<1>2. Named(updateLocalNoteIDs(rows, response))
  <2> DEFINE t == updateLocalNoteIDs(rows, response)
  <2>1. t = updateLocalNoteIDs(rows, response)
    OBVIOUS
  <2> HIDE DEF t
  <2>2. ASSUME NEW i \in DOMAIN rows, OnServer(t[i].noteID)
        PROVE  TextOnServer(t[i].noteID, t[i].text)
    BY <2>1, <2>2, IdOfItsText DEF Named
  <2>3. DOMAIN t = DOMAIN rows
    BY <2>1 DEF updateLocalNoteIDs
  <2> QED
    BY <2>2, <2>3 DEF Named, t
<1> QED
  BY <1>1, <1>2 DEF syncLocalWithServer

\* The steps that write rows while the user writes only.
LEMMA StepsOnNotes ==
  ASSUME NotesInv, NobodySignsIn, AppNext
  PROVE  \/ notes' = notes
         \/ \E r \in net : LaunchRequestSucceeds(r) \/ FetchSucceeds(r)
         \/ \E w \in DOMAIN writers : addNote(w)
         \/ \E r \in net : PostAnswered(r)
<1>1. ~DeleteConfirmed /\ ~editPostTapped /\ ~editReachabilityChanged
  BY DEF NotesInv, OnlyNotes, DeleteConfirmed, CloseAlert, Touched, editPostTapped,
     editReachabilityChanged, NoEditor
<1>2. ~handleLogout
  BY DEF NotesInv, OnlyWrites, handleLogout, Spend, SpendAll
<1>3. \A r \in net : ~AccountDeleted(r) /\ ~SignUpFetched(r)
  BY DEF NotesInv, OnlyNotes, AccountDeleted, NobodySignsIn, SignUpFetched, SignUpRequest
<1> QED
  BY <1>1, <1>2, <1>3, StepsOnRows

\* The answer to a WritingVC goes to the row it added.
LEMMA AnsweredRow ==
  ASSUME NotesInv, LastIsTheirs, NEW r \in net, PostAnswered(r), ~AnsweredEarly
  PROVE  /\ r.who \in DOMAIN writers /\ r.who \in AtWork
         /\ notes # <<>> /\ notes[Len(notes)].text = r.arg.text
<1>1. /\ r.by = "writing" /\ r.done /\ net' = net \ {r} /\ running' = running /\ r.op = "post"
  BY DEF PostAnswered, WritingRequest, Delivered, NotesInv, OnlyNotes
<1>2. /\ r.who \in DOMAIN writers /\ writers[r.who] \in WritingVC /\ running
  BY <1>1, AppParts, WriterType DEF NotesInv, Callbacks, NoProcess
<1>3. ~(writers[r.who].adds > 0)
  BY <1>1, <1>2 DEF AnsweredEarly
<1>4. writers[r.who].adds = 0
  BY <1>2, <1>3 DEF WritingVC
<1>5. r.who \in AtWork
  BY <1>1, <1>2 DEF AtWork
<1>6. r.arg.text = writers[r.who].text
  BY <1>1 DEF NotesInv, OwnTexts, Posts
<1> QED
  BY <1>2, <1>4, <1>5, <1>6 DEF LastIsTheirs

\* What a step writes into the rows are the ids of notes with their texts.
LEMMA RowsStayNamed ==
  ASSUME NotesInv, NobodySignsIn, AnswersTrue, LastIsTheirs, Named(notes), AppNext, ~AnsweredEarly
  PROVE  Named(notes')
<1>0. /\ notes \in Seq(UserEntity) /\ DeviceTypeOK
      /\ \A r \in net : r \in Request
  BY AppParts DEF NotesInv, DeviceTypeOK, NetOK
<1>1. ASSUME NEW r \in net, LaunchRequestSucceeds(r) PROVE Named(notes')
  <2>1. \/ notes' = notes
        \/ /\ r.op = "post" /\ r.done
           /\ \E obj : notes' = editUserContext(notes, obj, r.arg.text, r.id)
    BY <1>1 DEF LaunchRequestSucceeds, Delivered
  <2> QED
    BY <1>0, <2>1, EditedNamed DEF AnswersTrue
<1>2. ASSUME NEW r \in net, FetchSucceeds(r) PROVE Named(notes')
  <2>1. notes' = syncLocalWithServer(notes, r.rows, nextObj) /\ r.rows \in Seq(ServerNote)
    BY <1>0, <1>2 DEF FetchSucceeds, Request
  <2> QED
    BY <1>0, <2>1, SyncedNamed DEF AnswersTrue
<1>3. ASSUME NEW w \in DOMAIN writers, addNote(w) PROVE Named(notes')
  <2> DEFINE e == NewRow(nextObj, writers[w].text, CountedDay(notes), Nil)
             k == Len(notes)
  <2>1. notes' = Append(notes, e) /\ e.noteID = Nil
    BY <1>3 DEF addNote, addUserContext, NewRow
  <2>2. k \in Nat /\ DOMAIN notes = 1..k
    BY <1>0, LenProperties
  <2> HIDE DEF e
  <2>3. /\ DOMAIN notes' = 1..(k + 1)
        /\ \A i \in 1..(k + 1) : notes'[i] = IF i \in 1..k THEN notes[i] ELSE e
    BY <1>0, <2>1, <2>2
  <2>4. ~OnServer(Nil)
    BY <1>0, NotesOfServer DEF OnServer, Nil
  <2> HIDE DEF k
  <2> QED
    BY <2>1, <2>2, <2>3, <2>4 DEF Named
<1>4. ASSUME NEW r \in net, PostAnswered(r) PROVE Named(notes')
  <2> DEFINE k == Len(notes)
  <2>1. notes # <<>> /\ notes[k].text = r.arg.text /\ notes' = [notes EXCEPT ![k].noteID = r.id]
    BY <1>4, AnsweredRow DEF PostAnswered
  <2>2. TextOnServer(r.id, r.arg.text)
    BY <1>4 DEF PostAnswered, WritingRequest, Delivered, AnswersTrue, NotesInv, OnlyNotes
  <2>3. \A i \in DOMAIN notes : notes[i] \in UserEntity
    BY <1>0, LenProperties
  <2> HIDE DEF k
  <2>4. /\ DOMAIN notes' = DOMAIN notes
        /\ \A i \in DOMAIN notes : \/ notes'[i] = notes[i]
                                   \/ i = k /\ notes'[i] = [notes[i] EXCEPT !.noteID = r.id]
    BY <2>1
  <2>5. \A i \in DOMAIN notes : /\ [notes[i] EXCEPT !.noteID = r.id].noteID = r.id
                                /\ [notes[i] EXCEPT !.noteID = r.id].text = notes[i].text
    BY <2>3 DEF UserEntity
  <2>6. \A i \in DOMAIN notes : \/ notes'[i] = notes[i]
                                \/ notes'[i].noteID = r.id /\ notes'[i].text = r.arg.text
    BY <2>1, <2>4, <2>5
  <2> QED
    BY <2>2, <2>4, <2>6 DEF Named
<1> QED
  BY <1>1, <1>2, <1>3, <1>4, StepsOnNotes

\* The row of the WritingVC at work stays the last one.
LEMMA LastStaysTheirs ==
  ASSUME NotesInv, NobodySignsIn, NobodySignsOut, OpenUntapped, OneAtWork, LastIsTheirs, AppNext,
         ~AnsweredEarly
  PROVE  LastIsTheirs'
<1>0. /\ notes \in Seq(UserEntity) /\ 0 \notin DOMAIN writers
      /\ Len(notes) \in Nat /\ DOMAIN notes = 1..Len(notes)
  BY AppParts, LenProperties DEF NotesInv, DeviceTypeOK, WritingTypeOK
<1> SUFFICES ASSUME NEW w \in DOMAIN writers', w \in AtWork', writers'[w].adds = 0
             PROVE  notes' # <<>> /\ notes'[Len(notes')].text = writers'[w].text
  BY DEF LastIsTheirs
<1>1. /\ w \in DOMAIN writers /\ w \in AtWork /\ writers'[w].text = writers[w].text
      /\ writers[w].adds = 0 \/ addNote(w)
  BY WorkersStay
<1>2. \A v \in DOMAIN writers : v \in AtWork => v = w
  BY <1>1 DEF OneAtWork
<1>3. \A r \in net : r.by # "launch"
  <2>1. \A r \in net : r.by = "launch" => 0 \in AtWork
    BY DEF AtWork
  <2> QED
    BY <1>0, <1>1, <2>1 DEF OneAtWork
<1>4. ASSUME NEW v \in DOMAIN writers, addNote(v)
      PROVE  v = w /\ notes' # <<>> /\ notes'[Len(notes')].text = writers[w].text
  <2> DEFINE e == NewRow(nextObj, writers[v].text, CountedDay(notes), Nil)
  <2>1. notes' = Append(notes, e) /\ e.text = writers[v].text /\ writers[v].adds > 0
    BY <1>4 DEF addNote, addUserContext, NewRow
  <2>2. v \in AtWork
    BY <2>1 DEF AtWork
  <2> HIDE DEF e
  <2>3. notes' # <<>> /\ notes'[Len(notes')] = e
    BY <1>0, <2>1
  <2> QED
    BY <1>2, <2>1, <2>2, <2>3
<1>5. ~(\E v \in DOMAIN writers : addNote(v)) => notes # <<>> /\ notes[Len(notes)].text = writers[w].text
  BY <1>1 DEF LastIsTheirs
<1>6. ASSUME NEW r \in net, PostAnswered(r), notes # <<>>, notes[Len(notes)].text = writers[w].text
      PROVE  notes' # <<>> /\ notes'[Len(notes')].text = writers[w].text
  <2> DEFINE k == Len(notes)
  <2>1. notes' = [notes EXCEPT ![k].noteID = r.id]
    BY <1>6 DEF PostAnswered
  <2>2. k \in DOMAIN notes /\ notes[k] \in UserEntity
    BY <1>0, <1>6, LenProperties
  <2>3. Len(notes') = k
    BY <1>0, <2>1
  <2> HIDE DEF k
  <2>4. notes'[k] = [notes[k] EXCEPT !.noteID = r.id] /\ DOMAIN notes' = DOMAIN notes
    BY <2>1, <2>2
  <2>5. [notes[k] EXCEPT !.noteID = r.id].text = notes[k].text
    BY <2>2 DEF UserEntity
  <2>6. notes'[k].text = writers[w].text
    BY <1>6, <2>4, <2>5 DEF k
  <2>7. notes' # <<>>
    BY <2>2, <2>4
  <2> QED
    BY <2>3, <2>6, <2>7
<1>7. \A r \in net : ~LaunchRequestSucceeds(r) /\ ~FetchSucceeds(r)
  BY <1>3 DEF LaunchRequestSucceeds, Waiting, FetchSucceeds, Fetching
<1>8. CASE \E v \in DOMAIN writers : addNote(v)
  BY <1>1, <1>4, <1>8
<1>9. CASE notes' = notes /\ ~(\E v \in DOMAIN writers : addNote(v))
  BY <1>1, <1>5, <1>9
<1>10. CASE (\E r \in net : PostAnswered(r)) /\ ~(\E v \in DOMAIN writers : addNote(v))
  BY <1>1, <1>5, <1>6, <1>10
<1> QED
  BY <1>7, <1>8, <1>9, <1>10, StepsOnNotes

\* Every step preserves the invariant.
LEMMA NamesInvStays ==
  ASSUME NamesInv, [MCNext]_MCVars
  PROVE  NamesInv'
<1>0. NotesInv /\ DeletionInv /\ NobodySignsIn /\ AppInv /\ NobodySignsOut /\ NotesApart
  BY DEF NamesInv, NotesInv, DeletionInv
<1>1. CASE MCNext
  <2>0. AppNext
    BY <1>1 DEF MCNext
  <2>1. NotesInv' /\ DeletionInv' /\ NobodySignsIn'
    BY <1>0, <2>0, NotesInvStays, DeletionInvStays, StillNobodySignsIn
  <2>2. AnswersTrue' /\ OpenUntapped'
    BY <1>0, <2>0, AnswersTrueStay, WorkersStay DEF NamesInv
  <2>3. ASSUME ~overlapped' PROVE OneAtWork' /\ LastIsTheirs' /\ Named(notes)'
    <3>1. OneAtWork' /\ ~overlapped /\ ~AnsweredEarly
      BY <1>1, <2>1, <2>3, OneAtWorkWhenApart DEF NotesInv
    <3>2. LastIsTheirs' /\ Named(notes')
      BY <1>0, <2>0, <3>1, LastStaysTheirs, RowsStayNamed DEF NamesInv
    <3>3. /\ \A m, text : TextOnServer(m, text) => TextOnServer(m, text)'
          /\ \A m : OnServer(m)' => OnServer(m) \/ m = nextID
      BY <1>0, <2>0, NotesStayOnServer
    <3>4. Below(notes', nextID) /\ nextID \in Nat
      BY <1>0, <2>0, RowsIssued, AppParts DEF DeletionInv, DeviceTypeOK
    <3>5. \A i \in DOMAIN notes' : notes'[i].noteID # nextID
      BY <3>4 DEF Below
    <3>6. Named(notes)'
      BY <3>2, <3>3, <3>5 DEF Named
    <3> QED
      BY <3>1, <3>2, <3>6
  <2> QED
    BY <2>1, <2>2, <2>3 DEF NamesInv
<1>2. CASE UNCHANGED MCVars
  <2>1. UNCHANGED appVars /\ overlapped' = overlapped
    BY <1>2 DEF MCVars, historyVars
  <2>2. NotesInv' /\ DeletionInv'
    BY <1>0, <2>1, NotesInvStays, DeletionInvStays
  <2>3. UNCHANGED <<net, left, server, notes, writers>>
    BY <2>1 DEF appVars, deviceVars, storeVars, remoteVars, screenVars
  <2>4. NobodySignsIn' /\ AnswersTrue' /\ OpenUntapped'
    BY <2>3 DEF NamesInv, NobodySignsIn, AnswersTrue, OpenUntapped, TextOnServer
  <2>5. (OneAtWork => OneAtWork') /\ (LastIsTheirs => LastIsTheirs') /\ (Named(notes) => Named(notes)')
    BY <2>3 DEF OneAtWork, AtWork, LastIsTheirs, Named, OnServer, TextOnServer
  <2> QED
    BY <2>1, <2>2, <2>4, <2>5 DEF NamesInv
<1> QED
  BY <1>1, <1>2

\* A store that waits for notes only, on a server that has numbered its notes
\* and given the phone its ids.
NamesStart ==
  /\ AppInit /\ NoHistory /\ OnlyNotesWait /\ left["signIn"] = 0
  /\ NotesApart /\ IDsIssued /\ Named(notes)

\* Such a store satisfies the invariant.
LEMMA NamesStartIsOK == NamesStart => NamesInv
<1> SUFFICES ASSUME NamesStart PROVE NamesInv
  OBVIOUS
<1>1. /\ net = {} /\ phase = "none" /\ writers = <<>> /\ editor = NoEditor /\ screen = "off"
      /\ OnlyWrites /\ queue.delete = <<>> /\ queue.edit = <<>> /\ ~running /\ deleteNoteID = <<>>
      /\ left["signOut"] = 0 /\ left["signIn"] = 0 /\ NotesApart /\ IDsIssued /\ Named(notes)
  BY DEF NamesStart, AppInit, Init, HomeInit, WritingInit, EditInit, OnlyNotesWait, OnlyWrites
<1>2. AppInv
  BY AppInitIsOK DEF NamesStart
<1>3. NotesInv
  BY <1>1, <1>2 DEF NotesInv, OnlyNotes, OneSession, StillQueued, AnswersStored,
     OwnTexts, WritersApart, Posts
<1>4. DeletionInv
  BY <1>1, <1>2 DEF DeletionInv, NobodySignsOut, DeleteCallers, DrainQueued, AnswersGone,
     DeletersApart, Deletes
<1>5. NobodySignsIn /\ AnswersTrue /\ OpenUntapped /\ OneAtWork /\ LastIsTheirs
  BY <1>1 DEF NobodySignsIn, AnswersTrue, OpenUntapped, OneAtWork, AtWork, LastIsTheirs
<1> QED
  BY <1>1, <1>3, <1>4, <1>5 DEF NamesInv

\* A row's id is that of a note with its text, as long as one sender is at work
\* at a time and no answer comes within the 0.2 s: through any number of notes
\* and taps, reports that send a note twice, failures, kills, drains and merges,
\* while the user writes only, from any store whose rows are so named
\* (WritingVC.postUserData, AppDelegate.postPendingUserNotes and
\* updateLocalNoteIDs).
THEOREM AnswersNameNotes == NamesStart /\ [][MCNext]_MCVars => []AnswersNameTheirNotes
<1>1. NamesStart => NamesInv
  BY NamesStartIsOK
<1>2. NamesInv /\ [MCNext]_MCVars => NamesInv'
  BY NamesInvStays
<1>3. NamesInv => AnswersNameTheirNotes
  BY DEF NamesInv, Named, AnswersNameTheirNotes
<1> QED
  BY <1>1, <1>2, <1>3, PTL
=============================================================================
