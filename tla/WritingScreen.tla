--------------------------- MODULE WritingScreen ---------------------------
(***************************************************************************)
(* WritingVC: a note is written and posted.  Post starts two things that   *)
(* run later on the main queue: the row is added 0.2 s after the tap, and, *)
(* signed in, a Reachability notifier reports the connection, at once and  *)
(* at every later change for as long as the WritingVC is alive.  Each      *)
(* report sends the note, or queues it when there is no connection.        *)
(***************************************************************************)
EXTENDS HomeScreen

VARIABLE writers   \* the WritingVCs presented so far, the oldest first

WritingVC == [text      : Text,
              open      : BOOLEAN,   \* presented
              adds      : Nat,       \* delayed blocks still to add the row
              observers : Nat,       \* addObserver calls made so far
              notifies  : BOOLEAN,   \* its notifier runs
              due       : Nat]       \* connection reports still to arrive

WritingTypeOK == writers \in Seq(WritingVC)

WritingInit == writers = <<>>

\* The closures of unanswered requests and of delayed blocks keep a
\* dismissed WritingVC alive, and with it its notifier.
Alive(w) == \/ writers[w].open
            \/ writers[w].adds > 0
            \/ \E r \in net : r.by = "writing" /\ r.who = w

Update(w, f) == writers' = [writers EXCEPT ![w] = f]

\* Every notifier that runs reports the change.
ReportToWriters ==
  writers' = [w \in DOMAIN writers |->
                IF Alive(w) /\ writers[w].notifies
                  THEN [writers[w] EXCEPT !.due = @ + 1]
                  ELSE writers[w]]

---------------------------------------------------------------------------

OpenWriting(text) ==
  /\ Spend("write") /\ Present("writing")
  /\ writers' = Append(writers, [text |-> text, open |-> TRUE, adds |-> 0,
                                 observers |-> 0, notifies |-> FALSE, due |-> 0])
  /\ UNCHANGED <<storeVars, remoteVars, userData, net, running, overlay, online,
                 alert, deleteNoteID>>

closeBTNtapped(w) ==
  /\ writers[w].open /\ Touched("writing")
  /\ Update(w, [writers[w] EXCEPT !.open = FALSE])
  /\ BackHome("writing")
  /\ UNCHANGED <<deviceVars, alert, deleteNoteID>>

\* What a request carries: the day is not sent.
Sent(w) == [text |-> writers[w].text, day |-> 0]

\* A pending note is numbered by the rows there are when it is queued.
PendingNote(w) == [text |-> writers[w].text, day |-> CountedDay(notes)]

\* What the mutants of postBTNtapped share with it: signed in, the tap
\* registers so many observers and the notifier reports so many times.
TapSignedIn(w, observers, reports) ==
  /\ writers[w].open /\ Touched("writing") /\ writers[w].adds = 0
  /\ uid # NoAccount
  /\ Update(w, [writers[w] EXCEPT !.adds = 1, !.observers = observers, !.notifies = TRUE,
                                  !.due = reports])
  /\ UNCHANGED <<notes, queue, uid, nextObj, remoteVars, userData, net, running, overlay,
                 online, left, homeVars>>

\* Mutants: the observer was already added when the screen appeared; the
\* notifier does not report the connection there is.
TapObservesTwice(w) == TapSignedIn(w, 2, 1)
TapUnreported(w)    == TapSignedIn(w, 1, 0)

\* A notifier that cannot be started is only printed: no report comes.
TapStarts(w, starts) ==
  /\ SpendAll({x \in {"tap"} : writers[w].adds > 0}
                \cup {x \in {"start"} : ~starts})
  /\ Update(w, [writers[w] EXCEPT
                  !.adds = @ + 1, !.observers = @ + 1, !.notifies = starts,
                  !.due = IF starts /\ ~writers[w].notifies THEN @ + 1 ELSE @])
  /\ UNCHANGED queue

TapQueues(w) ==
  /\ SpendAll({x \in {"tap"} : writers[w].adds > 0})
  /\ Update(w, [writers[w] EXCEPT !.adds = @ + 1])
  /\ Enqueue("post", PendingNote(w))

postBTNtapped(w) ==
  /\ writers[w].open /\ Touched("writing")
  /\ IF uid = NoAccount THEN TapQueues(w)
     ELSE \E starts \in {TRUE, writers[w].notifies} : TapStarts(w, starts)
  /\ UNCHANGED <<notes, uid, nextObj, remoteVars, userData, net, running, overlay, online,
                 homeVars>>

\* The delayed block.  A report takes a turn of the main queue, the block
\* 0.2 s: reports come first.
addNote(w) ==
  /\ writers[w].adds > 0 /\ writers[w].due = 0
  /\ notes' = addUserContext(notes, NewRow(nextObj, writers[w].text,
                                           CountedDay(notes), Nil))
  /\ nextObj' = nextObj + 1
  /\ SaveUserData(notes')
  /\ Update(w, [writers[w] EXCEPT !.adds = @ - 1, !.open = FALSE])
  /\ IF writers[w].open THEN BackHome("writing") ELSE UNCHANGED screen
  /\ UNCHANGED <<queue, uid, remoteVars, net, running, overlay, online, left,
                 alert, deleteNoteID>>

\* One report calls the selector once per addObserver.
reachabilityChanged(w) ==
  /\ writers[w].due > 0 /\ Alive(w)
  /\ Update(w, [writers[w] EXCEPT !.due = @ - 1])
  /\ IF online
       THEN /\ net' = IF uid = NoAccount THEN net ELSE
                        net \cup {NewRequest("writing", w, Fresh("writing") + k, "post",
                                             Sent(w)) :
                                    k \in 1..writers[w].observers}
            /\ UNCHANGED queue
       ELSE /\ queue' = [queue EXCEPT !.post =
                           @ \o [k \in 1..writers[w].observers |-> PendingNote(w)]]
            /\ UNCHANGED net
  /\ UNCHANGED <<notes, uid, nextObj, remoteVars, userData, running, overlay, online, left,
                 homeVars>>

---------------------------------------------------------------------------

WritingRequest(r) == r \in net /\ r.by = "writing"

\* Mutant: the answer's id goes to the first row.
AnswerToFirst(r) ==
  /\ WritingRequest(r) /\ Delivered(r)
  /\ net' = net \ {r}
  /\ notes' = IF notes = <<>> THEN notes ELSE [notes EXCEPT ![1].noteID = r.id]
  /\ UNCHANGED <<queue, uid, nextObj, remoteVars, userData, running, overlay, online,
                 homeVars, writers>>

\* The answer's id goes to the last row there is.
PostAnswered(r) ==
  /\ WritingRequest(r) /\ Delivered(r)
  /\ net' = net \ {r}
  /\ notes' = IF notes = <<>> THEN notes
                              ELSE [notes EXCEPT ![Len(notes)].noteID = r.id]
  /\ UNCHANGED <<queue, uid, nextObj, remoteVars, userData, running, overlay, online,
                 homeVars, writers>>

\* An answer that does not decode is only printed.
PostGarbled(r) ==
  /\ WritingRequest(r) /\ online /\ Spend("garble")
  /\ net' = net \ {r}
  /\ UNCHANGED <<storeVars, remoteVars, userData, running, overlay, online, homeVars, writers>>

\* Mutant: a failure is only printed, as EditNoteVC does.
PostFailsPrints(r) ==
  /\ WritingRequest(r) /\ Failed(r)
  /\ net' = net \ {r}
  /\ UNCHANGED <<storeVars, remoteVars, userData, running, overlay, online, homeVars, writers>>

PostFails(r) ==
  /\ WritingRequest(r) /\ Failed(r)
  /\ net' = net \ {r}
  /\ Enqueue("post", PendingNote(r.who))
  /\ UNCHANGED <<notes, uid, nextObj, remoteVars, userData, running, overlay, online,
                 homeVars, writers>>

WritingStep ==
  \/ \E text \in Text : OpenWriting(text)
  \/ \E w \in DOMAIN writers : \/ closeBTNtapped(w)
                               \/ postBTNtapped(w)
                               \/ addNote(w)
                               \/ reachabilityChanged(w)
  \/ \E r \in net : PostAnswered(r) \/ PostGarbled(r) \/ PostFails(r)
=============================================================================
