----------------------------- MODULE LaunchSync -----------------------------
(***************************************************************************)
(* The synchronisation AppDelegate runs once per launch: drain the queue   *)
(* of deletes, then of edits, then of new notes, and when there is no new  *)
(* note to send, fetch the server's notes and merge them.                  *)
(*                                                                         *)
(* A drain captures the queue in a local array, sends one request per      *)
(* entry, and waits on a DispatchGroup.  Each answer that decodes adds the *)
(* entry's offset to indicesToRemove; the notify block then writes the     *)
(* captured array, less those offsets, back to UserDefaults.               *)
(***************************************************************************)
EXTENDS Device

VARIABLES
  phase,             \* the kind being drained, or "none"
  snapshot,          \* the array the drain captured
  indicesToRemove,   \* the offsets answered with success
  group              \* the DispatchGroup: enters minus leaves

chainVars  == <<phase, snapshot, indicesToRemove, group>>
launchVars == <<deviceVars, chainVars>>

Idle == phase' = "none" /\ snapshot' = <<>> /\ indicesToRemove' = {} /\ group' = 0

---------------------------------------------------------------------------
(* The three phases.  q is the value of the queues when the phase starts.  *)

Drain(kind, entries) ==
  /\ phase' = kind
  /\ snapshot' = entries
  /\ indicesToRemove' = {}
  /\ group' = Len(entries)
  /\ net' = net \cup {NewRequest("launch", 0, i, kind, entries[i]) :
                        i \in DOMAIN entries}

postPendingUserNotes(q) ==
  \/ /\ uid = NoAccount
     /\ Idle /\ UNCHANGED <<net, userData, overlay>>
  \/ /\ uid # NoAccount /\ q.post = <<>>
     /\ Idle
     /\ net' = net \cup {NewRequest("launch", 0, 1, "fetch", NoArg)}
     /\ StartLoader
     /\ SaveUserData(notes)
  \/ /\ uid # NoAccount /\ q.post # <<>>
     /\ Drain("post", q.post) /\ UNCHANGED <<userData, overlay>>

\* Mutant: the guard for an empty queue returns without going on.
editedPendingDataStops(q) ==
  IF q.edit = <<>> THEN Idle /\ UNCHANGED <<net, userData, overlay>>
                   ELSE Drain("edit", q.edit) /\ UNCHANGED <<userData, overlay>>

postEditedPendingData(q) ==
  IF q.edit = <<>> THEN postPendingUserNotes(q)
                   ELSE Drain("edit", q.edit) /\ UNCHANGED <<userData, overlay>>

\* Mutant: the guard for an empty queue goes on with the phase after the next.
deletePendingDataSkips(q) ==
  IF q.delete = <<>> THEN postPendingUserNotes(q)
                     ELSE Drain("delete", q.delete) /\ UNCHANGED <<userData, overlay>>

postDeletePendingData(q) ==
  IF q.delete = <<>> THEN postEditedPendingData(q)
                     ELSE Drain("delete", q.delete) /\ UNCHANGED <<userData, overlay>>

---------------------------------------------------------------------------

\* didFinishLaunchingWithOptions starts the chain.
Launch ==
  /\ ~running
  /\ running' = TRUE
  /\ postDeletePendingData(queue)
  /\ UNCHANGED <<storeVars, remoteVars, online, left>>

Waiting(r) == r \in net /\ r.by = "launch" /\ r.op \in Kind

\* Mutant: the offset is counted from one past its entry.
SucceedsOffByOne(r) ==
  /\ Waiting(r) /\ Delivered(r)
  /\ net' = net \ {r}
  /\ indicesToRemove' = indicesToRemove \cup {r.idx + 1}
  /\ group' = group - 1
  /\ UNCHANGED <<storeVars, remoteVars, userData, running, overlay, online,
                 phase, snapshot>>

\* Mutant: the id goes to the last row, as it does in WritingVC.
SucceedsStampsLast(r) ==
  /\ Waiting(r) /\ Delivered(r)
  /\ net' = net \ {r}
  /\ indicesToRemove' = indicesToRemove \cup {r.idx}
  /\ group' = group - 1
  /\ notes' = IF r.op = "post" /\ notes # <<>>
                THEN editUserContext(notes, Last(notes).obj, r.arg.text, r.id) ELSE notes
  /\ UNCHANGED <<queue, uid, nextObj, userData, remoteVars, running, overlay, online,
                 phase, snapshot>>

\* A completion handler of the drain that decodes its answer.  The handler
\* of a new note also stamps the first row that has the entry's day.
LaunchRequestSucceeds(r) ==
  /\ Waiting(r) /\ Delivered(r)
  /\ net' = net \ {r}
  /\ indicesToRemove' = indicesToRemove \cup {r.idx}
  /\ group' = group - 1
  /\ LET i == IF r.op = "post" THEN getUserContextForDay(notes, r.arg.day) ELSE 0
     IN  IF i = 0
           THEN UNCHANGED <<notes, userData>>
           ELSE /\ notes' = editUserContext(notes, notes[i].obj, r.arg.text, r.id)
                /\ SaveUserData(notes)
  /\ UNCHANGED <<queue, uid, nextObj, remoteVars, running, overlay, online, phase, snapshot>>

\* What the mutants of the failing handler share with it.
FailsWith(r, offsets, count) ==
  /\ Waiting(r) /\ Failed(r)
  /\ net' = net \ {r}
  /\ indicesToRemove' = offsets
  /\ group' = count
  /\ UNCHANGED <<storeVars, remoteVars, userData, running, overlay, online,
                 phase, snapshot>>

\* Mutants: the group is left twice; not at all, without defer; the offset
\* is appended whatever the result.
FailsLeavesTwice(r) == FailsWith(r, indicesToRemove, group - 2)
FailsNeverLeaves(r) == FailsWith(r, indicesToRemove, group)
FailsDrops(r)       == FailsWith(r, indicesToRemove \cup {r.idx}, group - 1)

\* A completion handler of the drain that is told of a failure, or whose
\* answer does not decode: the offset stays.
LaunchRequestFails(r) ==
  /\ Waiting(r) /\ Failed(r)
  /\ net' = net \ {r}
  /\ group' = group - 1
  /\ UNCHANGED <<storeVars, remoteVars, userData, running, overlay, online,
                 phase, snapshot, indicesToRemove>>

Written == [queue EXCEPT ![phase] = removeAtOffsets(snapshot, indicesToRemove)]

\* Mutant: the queue is written back without waiting for the group.
NotifyDeletesEarly ==
  /\ phase = "delete"
  /\ queue' = Written
  /\ postEditedPendingData(Written)
  /\ UNCHANGED <<notes, uid, nextObj, remoteVars, running, online, left>>

\* The group's notify block: write the queue back, then start the next phase
\* in the same block.  After the new notes the chain ends.
NotifyDeletes ==
  /\ phase = "delete" /\ group = 0
  /\ queue' = Written
  /\ postEditedPendingData(Written)
  /\ UNCHANGED <<notes, uid, nextObj, remoteVars, running, online, left>>

NotifyEdits ==
  /\ phase = "edit" /\ group = 0
  /\ queue' = Written
  /\ postPendingUserNotes(Written)
  /\ UNCHANGED <<notes, uid, nextObj, remoteVars, running, online, left>>

\* Mutant: what was not sent is sent again at once.
NotifyPostsRetries ==
  /\ phase = "post" /\ group = 0
  /\ queue' = Written
  /\ IF Written.post = <<>> THEN Idle /\ UNCHANGED net ELSE Drain("post", Written.post)
  /\ UNCHANGED <<notes, uid, nextObj, remoteVars, userData, running, overlay, online, left>>

NotifyPosts ==
  /\ phase = "post" /\ group = 0
  /\ queue' = Written
  /\ Idle
  /\ UNCHANGED <<notes, uid, nextObj, remoteVars, userData, net, running, overlay, online, left>>

Notify == NotifyDeletes \/ NotifyEdits \/ NotifyPosts

Fetching(r) == r \in net /\ r.by = "launch" /\ r.op = "fetch"

\* getUserData's completion handler.
FetchSucceeds(r) ==
  /\ Fetching(r) /\ Delivered(r)
  /\ net' = net \ {r}
  /\ notes' = syncLocalWithServer(notes, r.rows, nextObj)
  /\ IF Len(r.rows) # Len(notes)
       THEN SaveUserData(notes') /\ nextObj' = nextObj + Len(r.rows)
       ELSE UNCHANGED <<userData, nextObj>>
  /\ StopLoader
  /\ UNCHANGED <<queue, uid, remoteVars, running, online, chainVars>>

FetchFails(r) ==
  /\ Fetching(r) /\ Failed(r)
  /\ net' = net \ {r}
  /\ StopLoader
  /\ UNCHANGED <<storeVars, remoteVars, userData, running, online, chainVars>>

---------------------------------------------------------------------------
(* The environment of the process.                                         *)

Kill == running /\ Spend("kill") /\ ProcessEnds /\ Idle

Flip == NetworkChanges /\ UNCHANGED chainVars

LaunchStep ==
  \/ Notify
  \/ \E r \in net : \/ LaunchRequestSucceeds(r)
                    \/ LaunchRequestFails(r)
                    \/ FetchSucceeds(r)
                    \/ FetchFails(r)

Next ==
  \/ Launch
  \/ LaunchStep
  \/ ServerStep /\ UNCHANGED chainVars
  \/ Kill
  \/ Flip

\* No two rows are the same managed object, and the next one is new.
ObjectsApart ==
  /\ \A i, j \in DOMAIN notes : notes[i].obj = notes[j].obj => i = j
  /\ \A i \in DOMAIN notes : notes[i].obj < nextObj

\* The app is not running and its store holds anything of the right type.
Init ==
  /\ DeviceTypeOK
  /\ ObjectsApart
  /\ net = {} /\ running = FALSE /\ overlay = FALSE
  /\ phase = "none" /\ snapshot = <<>> /\ indicesToRemove = {} /\ group = 0

\* iOS delivers an answer or a failure to every request and runs the blocks
\* of the main queue; nothing obliges the server to succeed.
Fairness ==
  /\ WF_launchVars(Notify)
  /\ WF_launchVars(\E r \in net : LaunchRequestSucceeds(r) \/ LaunchRequestFails(r))
  /\ WF_launchVars(\E r \in net : FetchSucceeds(r) \/ FetchFails(r))
  /\ WF_launchVars(ServerStep /\ UNCHANGED chainVars)

Spec == Init /\ [][Next]_launchVars /\ Fairness
---------------------------------------------------------------------------
(* Properties.                                                             *)

\* Type correctness of the chain's local variables and of what it shares.
TypeOK ==
  /\ DeviceTypeOK
  /\ phase \in Kind \cup {"none"}
  /\ snapshot \in Seq(Entry)
  /\ indicesToRemove \subseteq Nat
  /\ group \in Nat

InFlight == {r \in net : r.by = "launch" /\ r.op \in Kind}

\* The DispatchGroup is a barrier: its count is the number of requests of the
\* drain that are still unanswered, they all belong to the phase under way,
\* and each carries the entry at its own offset of the captured array
\* (enter and leave of postDeletePendingData, postEditedPendingData and
\* postPendingUserNotes; no phase overlaps the next).
Barrier ==
  /\ group = Cardinality(InFlight)
  /\ \A r \in InFlight : /\ r.op = phase
                         /\ r.idx \in DOMAIN snapshot
                         /\ r.arg = snapshot[r.idx]

\* Array.remove(at:) traps on an offset out of range, and an offset removed
\* twice would take a neighbour with it: the offsets collected are inside
\* the captured array, and none of them belongs to a request still unanswered.
OffsetsSound ==
  /\ indicesToRemove \subseteq DOMAIN snapshot
  /\ \A r \in InFlight : r.idx \notin indicesToRemove

OnServer(id) == \E a \in Account : \E i \in DOMAIN server[a] : server[a][i].id = id
TextOnServer(id, text) ==
  \E a \in Account : \E i \in DOMAIN server[a] :
     server[a][i] = [id |-> id, text |-> text]

\* The server has done what the queue entry asked for.  Two edits of one note
\* travel together and may be carried out in either order, so either text may
\* have won.
Applied(kind, entry) ==
  CASE kind = "delete" -> ~OnServer(entry.noteID)
    [] kind = "edit"   -> OnServer(entry.noteID) =>
                            \E e \in ToSet(queue.edit) :
                               /\ e.noteID = entry.noteID
                               /\ TextOnServer(e.noteID, e.text)
    [] kind = "post"   -> \E a \in Account : \E i \in DOMAIN server[a] :
                               server[a][i].text = entry.text

\* What leaves a queue in this step has been applied.
DropsApplied ==
  \A k \in Kind : \A e \in ToSet(queue[k]) \ ToSet(queue'[k]) : Applied(k, e)

\* The chain drops a queue entry only after the server has applied it,
\* whatever the order in which the answers arrived (the three notify blocks).
DroppedOnlyWhenApplied == [][DropsApplied]_launchVars

\* What is left of a queue after a step of the chain are the entries at some
\* of its offsets, each where it was relative to the others: nothing is added,
\* duplicated or swapped (remove(atOffsets:) and the write back).
KeptInOrder ==
  [][\A k \in Kind :
       \E kept \in SUBSET DOMAIN queue[k] :
          /\ Len(queue'[k]) = Cardinality(kept)
          /\ \A i \in DOMAIN queue'[k] : queue'[k][i] = queue[k][Nth(kept, i)]
    ]_launchVars

\* Each pending note is numbered like its row: the first row with its day,
\* if there is one, has its text.
Numbered ==
  \A e \in ToSet(queue.post) \cup ToSet(snapshot) :
    "day" \in DOMAIN e =>
      LET i == getUserContextForDay(notes, e.day)
      IN  i # 0 => notes[i].text = e.text

\* Stamping a row with the id of a note just posted rewrites the row's text
\* as well; while the pending notes are numbered like their rows no row loses
\* its text (postPendingUserNotes' handler).  They are not after a deletion,
\* when count + 1 repeats, nor after a failed post, when it is one too many.
TextSurvivesStamping ==
  [][Numbered =>
       \A i \in DOMAIN notes, j \in DOMAIN notes' :
          notes[i].obj = notes'[j].obj => notes[i].text = notes'[j].text]_launchVars

\* The three functions call each other in this order.
KindsLater == [none |-> Kind, delete |-> {"edit", "post"}, edit |-> {"post"}, post |-> {}]

Promise == INSTANCE Outbox WITH
  Item    <- Entry,
  Later   <- KindsLater,
  box     <- queue,
  ready   <- IF uid = NoAccount THEN {"delete", "edit"} ELSE Kind,
  round   <- phase,
  open    <- {r.idx : r \in InFlight},
  carried <- {r.idx : r \in {q \in InFlight : q.done}},
  acked   <- indicesToRemove

\* The chain implements the outbox: one round per queue, deletes before edits
\* before new notes, none passed over, one request per entry, nothing dropped
\* that the server has not carried out, and a kill that costs no entry
\* (postDeletePendingData, postEditedPendingData, postPendingUserNotes).
ImplementsOutbox == Promise!Spec

\* Every launch's chain comes to an end: each phase waits for every one of
\* its requests, and every request is answered or fails.
ChainEnds == phase # "none" ~> phase = "none"
=============================================================================
