----------------------------- MODULE MCNatomic -----------------------------
(***************************************************************************)
(* Natomic on one phone with at most two notes on the server, and what the *)
(* runs observe of it.  Each configuration gives the user and the network  *)
(* a budget (Limit), of which each of the starts below leaves a part.      *)
(***************************************************************************)
EXTENDS Natomic

CONSTANTS a, b, c, d, alice, bob

MCText      == {a, b}
Alike       == Permutations(MCText)
MCMoreText  == {a, b, c, d}
MCAccount   == {alice}
MCAccounts  == {alice, bob}
MCResource  == {"kill", "flip", "fail", "garble", "start", "write", "tap", "edit",
                "delete", "signIn", "signOut"}

Nothing == [x \in MCResource |-> 0]
WritingLimit  == [Nothing EXCEPT !.write = 2, !.tap = 1, !.flip = 1, !.fail = 1,
                                 !.garble = 1, !.start = 1, !.kill = 1]
ChangingLimit == [Nothing EXCEPT !.write = 2, !.edit = 2, !.delete = 2, !.flip = 1,
                                 !.fail = 1, !.garble = 1, !.start = 1, !.kill = 1]
SessionLimit  == [Nothing EXCEPT !.write = 1, !.signIn = 2, !.signOut = 1,
                                 !.fail = 1, !.kill = 1]
ErasingLimit  == [Nothing EXCEPT !.signOut = 1]

\* What of Limit is not for the start at hand.
Without(resources) == [x \in Resource |-> IF x \in resources THEN 0 ELSE Limit[x]]

Row(i, text)    == NewRow(i, text, i, i)
Note(id, text)  == [id |-> id, text |-> text]

\* The app is closed; waiting holds what it could not send.
Start(account, rows, remote, waiting) ==
  /\ uid = account
  /\ notes = rows /\ nextObj = 1 + Len(rows)
  /\ server = [x \in Account |-> IF x = alice THEN remote ELSE <<>>]
  /\ nextID = 4
  /\ queue = waiting
  /\ userData = <<>> /\ net = {} /\ running = FALSE /\ overlay = FALSE
  /\ phase = "none" /\ snapshot = <<>> /\ indicesToRemove = {} /\ group = 0
  /\ HomeInit /\ WritingInit /\ EditInit

Remote == <<Note(1, a), Note(2, b)>>
Rows   == <<Row(1, a), Row(2, b)>>

StartEmpty  == online \in BOOLEAN /\ Start(alice, <<>>, <<>>, NoQueues)
StartSynced == online \in BOOLEAN /\ Start(alice, Rows, Remote, NoQueues)

\* Another phone added a note, or deleted one, and this one has a deletion
\* and an edit to send.
StartBehind ==
  /\ online \in BOOLEAN
  /\ \E remote \in {Append(Remote, Note(3, c)), <<Note(1, a)>>} :
       Start(alice, Rows, remote,
             [NoQueues EXCEPT !.delete = <<[noteID |-> 3]>>])

\* A note written offline, before the app was closed, waits to be sent.
StartWaiting ==
  /\ online = TRUE
  /\ \E t \in MCText : Start(alice, <<NewRow(1, t, 1, Nil)>>, <<>>,
                            [NoQueues EXCEPT !.post = <<[text |-> t, day |-> 1]>>])

\* Two notes written by a user who has not signed in.
StartOffline ==
  /\ online = TRUE
  /\ Start(NoAccount, <<NewRow(1, a, 1, Nil), NewRow(2, b, 2, Nil)>>, <<>>,
           [NoQueues EXCEPT !.post = <<[text |-> a, day |-> 1], [text |-> b, day |-> 2]>>])

StartSignedOut == online = TRUE /\ Start(NoAccount, <<>>, <<Note(1, b)>>, NoQueues)

---------------------------------------------------------------------------
(* A history variable: the changes the app has given up on without the     *)
(* server having carried them out.                                         *)

VARIABLES abandoned,   \* pairs of a kind and an entry
          overlapped,  \* have two senders been at work at once
          disturbed,   \* has the network changed, a call failed, a tap been repeated
          posted,      \* the texts posted in this session, or waiting at its start
          posts,       \* how many of them
          deleted,     \* the ids of the notes deleted while signed in
          edited,      \* the ids and texts of the edits made while signed in
          erased       \* has the account been deleted

Same(kind, x, y) == IF kind = "post" THEN x.text = y.text ELSE x = y
InQueue(kind, x, q) == \E y \in ToSet(q[kind]) : Same(kind, x, y)

\* A request that leaves before the server carried it out and whose entry
\* is not in a queue afterwards, for one of the reasons the code has: the app
\* was killed, a screen's answer was garbled, a failed edit was only printed,
\* a failed deletion queued another id.
GivenUp ==
  {<<r.op, r.arg>> : r \in {q \in net \ net' :
      /\ q.op \in Kind /\ ~q.done
      /\ [q EXCEPT !.done = TRUE] \notin {[p EXCEPT !.id = 0, !.rows = <<>>] : p \in net'}
      /\ ~InQueue(q.op, q.arg, queue')
      /\ \/ ~running'
         \/ left'["garble"] < left["garble"]
         \/ q.by = "editing"
         \/ q.by = "home" /\ deleteNoteID[q.who] # q.arg.noteID}}

\* A report to a screen that is gone when the app is killed.
Unreported ==
  IF running /\ ~running'
    THEN {<<"post", Sent(w)>> : w \in {v \in DOMAIN writers : writers[v].due > 0}}
         \cup (IF editor.stage = "closing" /\ editor.due > 0
                 THEN {<<"edit", [noteID |-> NoteIDNow, text |-> editor.text]>>}
                 ELSE {})
    ELSE {}

\* The texts of the WritingVCs whose Post is tapped.
Tapped == {writers[w].text : w \in {v \in DOMAIN writers \cap DOMAIN writers' :
                                       writers'[v].adds > writers[v].adds}}

\* A tap whose notifier cannot be started sends and queues nothing.
Unstarted ==
  IF left'["start"] < left["start"]
    THEN {<<"post", [text |-> t]>> : t \in Tapped}
         \cup (IF editor.stage = "open"
                 THEN {<<"edit", [noteID |-> editor'.noteID, text |-> editor.text]>>}
                 ELSE {})
    ELSE {}

\* An entry queued while its queue was being drained: the notify block
\* writes back the array it captured before.
Overwritten ==
  IF phase \in Kind
    THEN {<<phase, x>> : x \in {y \in ToSet(queue[phase]) :
                                  y \notin ToSet(snapshot) /\ ~InQueue(phase, y, queue')}}
    ELSE {}

historyVars == <<abandoned, overlapped, disturbed, posted, posts, deleted, edited, erased>>
MCVars == <<appVars, historyVars>>

SignedOut == uid # NoAccount /\ uid' = NoAccount

Ids(rows) == {r.noteID : r \in ToSet(rows)}

\* Who has a note to add, a report or an answer to come.
AtWork == {w \in DOMAIN writers : \/ writers[w].adds > 0 \/ writers[w].due > 0
                                   \/ \E r \in net : r.by = "writing" /\ r.who = w}
            \cup {0 : r \in {q \in net : q.by = "launch"}}

\* An answer within the 0.2 s.
AnsweredEarly == running' /\ \E r \in net \ net' :
                   r.by = "writing" /\ r.done /\ writers[r.who].adds > 0

MCNext ==
  /\ AppNext
  /\ abandoned' = abandoned \cup GivenUp \cup Unreported \cup Unstarted \cup Overwritten
  /\ overlapped' = (overlapped \/ Cardinality(AtWork') > 1 \/ AnsweredEarly)
  /\ disturbed' = (disturbed \/ \E x \in {"flip", "tap", "kill", "fail", "garble"} :
                                  left'[x] < left[x])
  /\ posts' = posts + Cardinality(Tapped)
  /\ posted' = IF SignedOut \/ screen' = "menu" THEN {} ELSE posted \cup Tapped
  /\ deleted' = IF screen = "alert" /\ screen' = "home" /\ uid # NoAccount
                  THEN deleted \cup (Ids(notes) \ Ids(notes')) ELSE deleted
  /\ edited' = IF editor.stage = "open" /\ editor'.stage = "closing" /\ uid # NoAccount
                 THEN edited \cup {[noteID |-> editor'.noteID, text |-> editor.text]}
                 ELSE edited
  /\ erased' = (erased \/ (running' /\ screen = "menu" /\ screen' = "off"))

NoHistory ==
  /\ abandoned = {} /\ overlapped = FALSE /\ disturbed = FALSE
  /\ posted = {e.text : e \in ToSet(queue.post)} /\ posts = Len(queue.post)
  /\ deleted = {} /\ edited = {} /\ erased = FALSE

OneNote  == StartEmpty /\ \E spared \in {{"garble", "start"}, {"tap"}, {"flip", "fail", "garble"}} :
                            left = [Without(spared) EXCEPT !["write"] = 1]
TwoNotes == (StartWaiting \/ (StartEmpty /\ online)) /\ left = Without({"tap", "flip", "garble", "start"})
Deleting == (StartBehind \/ StartWaiting) /\ left = Without({"write", "edit", "start"})
Editing  == StartSynced /\ left = Without({"write", "delete", "garble"})
Offline  == StartOffline /\ left = Without({"edit", "flip", "fail", "garble", "start", "kill"})
SignedOutStart == StartSignedOut /\ \E spared \in {"fail", "kill"} : left = Without({spared})

WritingStart  == (OneNote \/ TwoNotes) /\ NoHistory
ChangingStart == (Deleting \/ Editing \/ Offline) /\ NoHistory
SessionStart  == SignedOutStart /\ NoHistory

WritingSpec  == WritingStart /\ [][MCNext]_MCVars
ChangingSpec == ChangingStart /\ [][MCNext]_MCVars
SessionSpec  == SessionStart /\ [][MCNext]_MCVars /\ AppFairness

Abandoned(kind, x) == \E p \in abandoned : p[1] = kind /\ Same(kind, p[2], x)

Travelling(kind, x) == \E r \in net : r.op = kind /\ ~r.done /\ Same(kind, r.arg, x)

Pursued(kind, x) == \/ InQueue(kind, x, queue)
                    \/ Travelling(kind, x)
                    \/ Abandoned(kind, x)

---------------------------------------------------------------------------
(* Properties.                                                             *)

\* A note the user posted is on the server, or waits in the queue, or is on
\* its way, or is about to be, from the tap until the user signs out,
\* and is otherwise among the changes given up on: nothing else loses a note
\* (WritingVC.postBTNtapped to the last notify block of the chain, signing in
\* between them included).
PostedNoteSurvives ==
  \A text \in posted :
    \/ \E w \in DOMAIN writers : writers[w].text = text /\ writers[w].due > 0
    \/ uid # NoAccount /\ \E i \in DOMAIN server[uid] : server[uid][i].text = text
    \/ Pursued("post", [text |-> text])

\* As long as one note is under way at a time, and no answer takes less than
\* the 0.2 s, a row's id is that of a note with its text: through reports that
\* send a note twice, failures, kills and the next launch's drain and merge
\* (WritingVC.postUserData stamps the last row there is, the chain the first
\* with the day, the merge those with the text).
AnswersNameTheirNotes ==
  ~overlapped => \A i \in DOMAIN notes :
    LET row == notes[i] IN OnServer(row.noteID) => TextOnServer(row.noteID, row.text)

\* Without a connection that changes, a second tap, a restart or a failure,
\* the server has every note at most once: no two parts of the app send the
\* same note.
NoCauselessDuplicate ==
  ~disturbed =>
     Len(server[alice]) + Cardinality({r \in net : r.op = "post" /\ ~r.done}) <= posts

\* A note posted, signed in or not, and until the user signs out, reaches the
\* server or a queue, or is given up on.
PostedNoteSettles ==
  \A text \in MCText :
    text \in posted ~> \/ \E x \in Account : \E i \in DOMAIN server[x] : server[x][i].text = text
                       \/ InQueue("post", [text |-> text], queue)
                       \/ Abandoned("post", [text |-> text])
                       \/ text \notin posted

\* A deletion the user confirmed is carried out, queued, under way, or among
\* the changes given up on (HomeVC.deleteItemAt, its completion handler and
\* postDeletePendingData).
DeletionSurvives ==
  \A id \in deleted : ~OnServer(id) \/ Pursued("delete", [noteID |-> id])

\* The only edit made of a note is carried out, queued, under way, about to
\* be reported, or among the changes given up on (EditNoteVC.postBTNtapped and
\* postEditedPendingData).  Texts that repeat, or were known to the server
\* before, are left out: a fetched answer identifies rows by their text
\* (updateLocalNoteIDs).
EditSurvivesBut(known) ==
  (\A x \in edited : /\ x.text \notin known
                     /\ \A y \in edited : y # x => y.text # x.text)
  => \A x \in edited :
       \/ editor.stage = "closing" /\ editor.due > 0 /\ editor.text = x.text
       \/ \E y \in edited : y # x /\ y.noteID = x.noteID
       \/ ~OnServer(x.noteID)
       \/ TextOnServer(x.noteID, x.text)
       \/ Pursued("edit", x)

EditSurvives == EditSurvivesBut({a, b})

\* The Loader's view goes away: whoever puts it over the window, the touches
\* come back (DatabaseHelper.registerUser and fetchUserData, deleteUserData).
TouchesReturn == overlay ~> ~overlay

\* What a signed-out phone holds, as the queue names it: its rows, and the
\* notes whose delayed block has still to add them.
Held == {[text |-> r.text, day |-> r.day] : r \in ToSet(notes)}
          \cup {PendingNote(w) : w \in {v \in DOMAIN writers : writers[v].adds > 0}}

HeldCount == Len(notes) + FoldSeq(LAMBDA w, n : w.adds + n, 0, writers)

HeldIsQueued == ToSet(queue.post) = Held /\ Len(queue.post) = HeldCount
DaysApart    == Cardinality({e.day : e \in Held}) = HeldCount

\* Until the user signs in, the queue holds the notes on the phone and no
\* other, through writes and deletions, as long as no two have the same day
\* and none is deleted in the 0.2 s another waits to be added
\* (WritingVC.postBTNtapped, its delayed block and HomeVC.deleteItemAt, which
\* number, add and remove the two copies of a note separately).
OfflineCopiesAgree ==
  [][ (/\ uid = NoAccount /\ HeldIsQueued /\ DaysApart /\ DaysApart'
       /\ \A w \in DOMAIN writers : writers[w].adds > 0 => Len(notes') >= Len(notes))
      => HeldIsQueued' ]_MCVars

\* HomeVC.swift:813 asks "Are you sure you want to delete this note?": what
\* waits to be sent when the user signs in are notes the phone still has.
DeletedNoteIsNotQueued ==
  uid = NoAccount => \A e \in ToSet(queue.post) : \E h \in Held : h.text = e.text

\* HomeVC.swift:813 asks "Are you sure you want to delete this note?": the
\* note deleted is the one shown when the dialog opened.
DeletesThisNote ==
  [][ \A i \in DOMAIN notes :
        (screen = "alert" /\ screen' = "home"
           /\ \A j \in DOMAIN notes' : notes'[j].obj # notes[i].obj)
        => notes[i].text = alert.shown ]_MCVars

\* The delete account dialog says "Deleting account will delete all data.":
\* once it is done, the phone holds no note of the account.
AccountDeletionDeletesAllData ==
  erased /\ uid = NoAccount => \A i \in DOMAIN notes : notes[i].noteID = Nil
=============================================================================
