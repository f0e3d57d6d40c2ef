---------------------------- MODULE MCLaunchSync ----------------------------
(***************************************************************************)
(* LaunchSync on a phone with two notes on the server, started from every  *)
(* combination of the queue contents below, signed in or not.              *)
(***************************************************************************)
EXTENDS LaunchSync, MCNoteStore

CONSTANTS a, b, c, d, e, f, alice

MCText    == {a, b, c, d, e, f}
MCAccount == {alice}
MCResource == {"kill", "flip", "fail"}

SomeLimit == [kill |-> 1, flip |-> 1, fail |-> 2]

\* What the screens leave in the queues (offline use, then the app is closed).
Deletes == {<<>>, <<[noteID |-> 1]>>, <<[noteID |-> 1], [noteID |-> 2]>>}
Edits   == {<<>>, <<[noteID |-> 2, text |-> e]>>,
            <<[noteID |-> 2, text |-> e], [noteID |-> 2, text |-> f]>>}
\* In the last two count + 1 went wrong: a note was deleted before the second
\* was written, so it repeated; or the first was queued by a failed request,
\* after its row had been added.
Posts   == {<<>>, <<[text |-> c, day |-> 3]>>,
            <<[text |-> c, day |-> 3], [text |-> d, day |-> 4]>>,
            <<[text |-> c, day |-> 3], [text |-> d, day |-> 3]>>,
            <<[text |-> c, day |-> 4], [text |-> d, day |-> 4]>>}

OnPhone == <<[id |-> 1, text |-> a], [id |-> 2, text |-> b]>>

\* The day of the row of P[i].
RowDay(P, i) == IF i = 1 THEN 3 ELSE P[i].day

\* The rows that go with those queues: the notes not deleted, with the text
\* of their last edit, and a row without id for every note to be posted.
Rows(D, E, P) ==
  LET gone == {x.noteID : x \in ToSet(D)}
      text(i) == IF i = 2 /\ E # <<>> THEN Last(E).text ELSE OnPhone[i].text
      known == SelectSeq(<<NewRow(1, text(1), 1, 1), NewRow(2, text(2), 2, 2)>>,
                         LAMBDA r : r.noteID \notin gone)
  IN  known \o [i \in DOMAIN P |-> NewRow(2 + i, P[i].text, RowDay(P, i), Nil)]

Common ==
  /\ nextID = 3 /\ nextObj = 5 /\ userData = <<>>
  /\ server = [x \in Account |-> OnPhone]
  /\ net = {} /\ running = FALSE /\ online = TRUE /\ overlay = FALSE
  /\ left = Limit
  /\ phase = "none" /\ snapshot = <<>> /\ indicesToRemove = {} /\ group = 0

SignedIn ==
  /\ uid = alice
  /\ \E D \in Deletes, E \in Edits, P \in Posts :
        /\ queue = [delete |-> D, edit |-> E, post |-> P]
        /\ notes = Rows(D, E, P)

\* Signing out empties the phone, so only new notes wait on it.
SignedOut ==
  /\ uid = NoAccount
  /\ \E P \in Posts :
        /\ queue = [NoQueues EXCEPT !.post = P]
        /\ notes = [i \in DOMAIN P |-> NewRow(i, P[i].text, RowDay(P, i), Nil)]

MCInit == Common /\ (SignedIn \/ SignedOut)
MCSpec == MCInit /\ [][Next]_launchVars /\ Fairness

---------------------------------------------------------------------------
\* Where a behaviour starts: what the operators do to any short array is asked
\* there only.
Starting == ~running /\ left = Limit

\* remove(atOffsets:) leaves of the queues, and of every short array, what
\* removing the offsets one by one leaves, the highest first.
RemovalIsTheLoop ==
  Starting => /\ \A k \in Kind : RemovesAsTheLoop(queue[k])
              /\ \A s \in Arrays : RemovesAsTheLoop(s)

\* Merging an answer, with the rows of the phone and with any few rows, gives a
\* row the id of a note with its own text (syncLocalWithServer,
\* updateLocalNoteIDs).
MergeGoesByText ==
  Starting => /\ \A response \in Answers : MergesByText(notes, response)
              /\ \A rows \in RowLists, response \in Answers : MergesByText(rows, response)

\* A row with an id shows what the server keeps under that id, unless an edit
\* of the note still waits, or one was carried out that the row may not show:
\* the two edits e and f of one note travel together, and the earlier may come
\* out on top; and a row built from an answer, while an edit waited, keeps the
\* text from before the edit, since later merges give rows ids and no texts
\* (what the chain stamps, merges, drops and keeps, put together).
IdsNameTheirNotes ==
  uid # NoAccount => \A i \in DOMAIN notes :
    LET row == notes[i]
    IN  \/ ~OnServer(row.noteID)
        \/ TextOnServer(row.noteID, row.text)
        \/ \E x \in ToSet(queue.edit) : x.noteID = row.noteID
        \/ /\ row.text \in {e, f} \/ row.day = PrintedDay(row.noteID)
           /\ \E t \in {e, f} : TextOnServer(row.noteID, t)

\* A new note is sent at most once per launch and not at all once its answer
\* came and the queue was written back: the server has one copy, and one more
\* for every time the app was killed in between (postPendingUserNotes).
OneCopyPerLaunch ==
  \A t \in {c, d} :
    Cardinality({i \in DOMAIN server[alice] : server[alice][i].text = t})
      <= 1 + Limit["kill"] - left["kill"]

\* A launch whose requests all succeed, with no kill and no change of the
\* network, leaves every queue of the signed-in account empty, and without an
\* account keeps the notes for later (the chain of AppDelegate from
\* postDeletePendingData to its last notify).
HealthyLaunchDrains ==
  running /\ left = Limit
    ~> \/ /\ queue.delete = <<>> /\ queue.edit = <<>>
          /\ uid # NoAccount => queue.post = <<>>
       \/ left # Limit
=============================================================================
